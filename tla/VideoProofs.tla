---------------------------- MODULE VideoProofs ----------------------------
(***************************************************************************)
(* The capture threads of the video services implement the registry with   *)
(* abstract threads; nobody is sent a stream that does not start with a    *)
(* key frame, and nobody falls behind further than the waits that were cut *)
(* short, for every number of connections, services and frames.            *)
(***************************************************************************)
EXTENDS VideoService, ServerProofs

(* A step of the composition is a step of the registry.                    *)
LEMMA VideoStepIsServerStep == [VideoNext]_vars => [Next]_serverVars
  <1> SUFFICES ASSUME [VideoNext]_vars PROVE [Next]_serverVars
    OBVIOUS
  <1>1. CASE RegistryStep
    BY <1>1 DEF RegistryStep, Next
  <1>2. CASE \E s \in Service : Top(s)
    BY <1>2 DEF Top, Next
  <1>3. CASE \E s \in Service : SwapIn(s)
    BY <1>3 DEF SwapIn, Next
  <1>4. CASE \E s \in Service : \/ Check(s) \/ Open(s) \/ OpenError(s) \/ Loop(s)
                                \/ Broadcast(s) \/ Frame(s) \/ NoFrame(s) \/ Others(s)
    BY <1>4 DEF Check, Open, OpenError, Loop, Broadcast, Frame, NoFrame, Others
  <1>5. CASE \E s \in Service : \/ Encode(s) \/ EncodeError(s) \/ SetSend(s)
                                \/ WaitNothing(s) \/ WaitNext(s) \/ WaitTimeout(s)
                                \/ WaitSwitch(s) \/ RefreshVideo(s)
    BY <1>5 DEF Encode, EncodeError, SetSend, WaitNothing, WaitNext, WaitTimeout,
                WaitSwitch, RefreshVideo
  <1>6. CASE \E c \in Conn : Close(c) \/ \E s \in Service : Fetch(c, s) \/ Received(c, s)
    BY <1>6 DEF Close, Fetch, Received
  <1>7. CASE UNCHANGED vars
    BY <1>7 DEF vars
  <1> QED
    BY <1>1, <1>2, <1>3, <1>4, <1>5, <1>6, <1>7 DEF VideoNext, Thread

(* The video threads do to the registry only what Server allows them.      *)
THEOREM VideoRefinesServer == VideoSpec => ImplementsServer
  <1>1. VideoInit => Init
    BY DEF VideoInit
  <1> QED
    BY <1>1, VideoStepIsServerStep, PTL DEF VideoSpec, ImplementsServer, Spec

LEMMA InitVideoIInv == VideoInit => VideoIInv
  <1> SUFFICES ASSUME VideoInit PROVE VideoIInv
    OBVIOUS
  <1>1. ServerInv
    BY InitServerInv DEF VideoInit
  <1>2. VideoTypeOK
    BY <1>1, VideoAssumption DEF VideoInit, VideoTypeOK, ServerInv, Labels
  <1>3. StreamStartsClean /\ PicturesServed
    BY DEF VideoInit, StreamStartsClean, PicturesServed, Looping
  <1>4. FramesAccounted
    BY DEF VideoInit, FramesAccounted, Accounted, Noted, Awaited
  <1> QED
    BY <1>1, <1>2, <1>3, <1>4 DEF VideoIInv, VideoInv

-----------------------------------------------------------------------------
(* The end of a wait excuses at most one frame, and none when everybody    *)
(* acknowledged it.                                                        *)
LEMMA ExcusedBy ==
    ASSUME excused \in [Service -> Nat], NEW s \in Service, NEW all \in BOOLEAN,
           EndWait(s, all)
    PROVE  /\ \E x \in {0, 1} : excused' = [excused EXCEPT ![s] = excused[s] + x]
           /\ all => excused' = excused
           /\ ~all => excused' = [excused EXCEPT ![s] = excused[s] + 1]
  <1>1. all => excused' = excused
    BY DEF EndWait
  <1>2. ~all => excused' = [excused EXCEPT ![s] = excused[s] + 1]
    BY DEF EndWait
  <1>3. excused = [excused EXCEPT ![s] = excused[s] + 0]
    OBVIOUS
  <1> QED
    BY <1>1, <1>2, <1>3

(* A thread keeps the types.                                               *)
LEMMA ThreadTypes ==
    ASSUME VideoTypeOK, TypeOK', NEW s \in Service, Thread(s)
    PROVE  VideoTypeOK'
  <1> USE DEF VideoTypeOK
  <1>1. CASE Top(s)
    BY <1>1 DEF Top, Jump, Labels
  <1>2. CASE Check(s) \/ Frame(s) \/ NoFrame(s) \/ Others(s)
    BY <1>2 DEF Check, Frame, NoFrame, Others, Jump, Labels
  <1>3. CASE Open(s)
    BY <1>3 DEF Open, Jump, Labels
  <1>4. CASE OpenError(s)
    BY <1>4 DEF OpenError, Return, Jump, Labels
  <1>5. CASE Loop(s)
    BY <1>5 DEF Loop, Return, Stay, Jump, Labels
  <1>6. CASE Broadcast(s)
    BY <1>6 DEF Broadcast, Return, Stay, Jump, Labels
  <1>7. CASE SwapIn(s)
    <2>0. inner[s].new_subscribes \in SUBSET Conn
      BY DEF TypeOK, Inner
    <2>1. takeover' \in [Service -> SUBSET Conn]
      <3>1. takeover' = takeover \/ takeover' =
                [takeover EXCEPT ![s] = takeover[s] \cup inner[s].new_subscribes]
        BY <1>7, Zenon DEF SwapIn
      <3>2. takeover[s] \cup inner[s].new_subscribes \in SUBSET Conn
        BY <2>0
      <3> QED
        BY <3>1, <3>2
    <2> QED
      BY <1>7, <2>1 DEF SwapIn, Return, Stay, Jump, Labels
  <1>8. CASE Encode(s)
    <2> DEFINE n == frames[s] + 1
               ids == inner[s].subscribes
    <2>0. ids \in SUBSET Conn
      BY DEF TypeOK, Inner
    <2>1. n \in 1..MaxFrames
      BY <1>8, VideoAssumption DEF Encode
    <2>2. frames' \in [Service -> 0..MaxFrames]
      BY <1>8, <2>1 DEF Encode
    <2>3. queue' \in [Conn -> [Service -> Seq(1..MaxFrames)]]
      <3> HIDE DEF n, ids
      <3>1. \A c \in Conn : Append(queue[c][s], n) \in Seq(1..MaxFrames)
        BY <2>1
      <3>2. queue' = [c \in Conn |-> IF c \in ids
                            THEN [queue[c] EXCEPT ![s] = Append(queue[c][s], n)] ELSE queue[c]]
        BY <1>8 DEF Encode, n, ids
      <3>3. \A c \in Conn : [queue[c] EXCEPT ![s] = Append(queue[c][s], n)]
                                \in [Service -> Seq(1..MaxFrames)]
        BY <3>1
      <3> QED
        BY <3>2, <3>3
    <2>4. view' \in [Conn -> [Service -> {"none", "clean", "broken"}]]
      BY <1>8 DEF Encode, Show
    <2>5. send_conn_ids' \in [Service -> SUBSET Conn] /\ takeover' \in [Service -> SUBSET Conn]
      BY <1>8, <2>0 DEF Encode
    <2>6. fresh' \in [Service -> BOOLEAN] /\ pc' \in [Service -> Labels]
      BY <1>8 DEF Encode, Jump, Labels
    <2> QED
      BY <1>8, <2>2, <2>3, <2>4, <2>5, <2>6 DEF Encode
  <1>9. CASE EncodeError(s)
    BY <1>9 DEF EncodeError, Return, Stay, Jump, Labels
  <1>10. CASE SetSend(s)
    BY <1>10 DEF SetSend, Jump, Labels
  <1>11. CASE WaitNothing(s) \/ WaitTimeout(s)
    <2>1. \E x \in {0, 1} : excused' = [excused EXCEPT ![s] = excused[s] + x]
      BY <1>11, ExcusedBy DEF WaitNothing, WaitTimeout
    <2>2. excused' \in [Service -> Nat]
      BY <2>1
    <2> QED
      BY <1>11, <2>2 DEF WaitNothing, WaitTimeout, EndWait, Jump, Labels
  <1>12. CASE WaitNext(s)
    <2> DEFINE got == fetched[s] \cup notes[s]
    <2>1. excused' \in [Service -> Nat]
      <3>1. \/ EndWait(s, send_conn_ids[s] \subseteq got)
            \/ excused' = excused
        BY <1>12 DEF WaitNext
      <3>2. CASE EndWait(s, send_conn_ids[s] \subseteq got)
        <4>1. \E x \in {0, 1} : excused' = [excused EXCEPT ![s] = excused[s] + x]
          BY <3>2, ExcusedBy
        <4> QED
          BY <4>1
      <3> QED
        BY <3>1, <3>2
    <2> QED
      <3>1. /\ UNCHANGED <<fresh, refresh, frames, queue, view, closing, calls, takeover>>
            /\ notes' \in [Service -> SUBSET Conn]
        BY <1>12 DEF WaitNext, EndWait
      <3>2. \/ fetched' = [fetched EXCEPT ![s] = got] /\ UNCHANGED <<pc, display_conn_ids, send_conn_ids>>
            \/ \E all \in BOOLEAN : EndWait(s, all)
        BY <1>12 DEF WaitNext
      <3>3. CASE \E all \in BOOLEAN : EndWait(s, all)
        BY <2>1, <3>1, <3>3 DEF EndWait, Jump, Labels
      <3>4. CASE fetched' = [fetched EXCEPT ![s] = got] /\ UNCHANGED <<pc, display_conn_ids, send_conn_ids>>
        BY <2>1, <3>1, <3>4
      <3> QED
        BY <3>2, <3>3, <3>4
  <1>13. CASE WaitSwitch(s)
    <2>1. excused' = [excused EXCEPT ![s] = IF send_conn_ids[s] = {} THEN excused[s]
                                            ELSE excused[s] + 1]
      BY <1>13 DEF WaitSwitch
    <2>2. excused' \in [Service -> Nat]
      BY <2>1
    <2>3. UNCHANGED <<refresh, frames, notes, queue, view, closing, calls, takeover>>
      BY <1>13 DEF WaitSwitch
    <2>4. CASE Return(s)
      BY <2>2, <2>3, <2>4 DEF Return, Jump, Labels
    <2>5. CASE Stay(s, "broadcast")
      BY <2>2, <2>3, <2>5 DEF Stay, Jump, Labels
    <2> QED
      BY <1>13, <2>4, <2>5 DEF WaitSwitch
  <1> QED
    BY <1>1, <1>2, <1>3, <1>4, <1>5, <1>6, <1>7, <1>8, <1>9, <1>10, <1>11, <1>12, <1>13
       DEF Thread

(* A frame that is taken out of a channel leaves the others in it.         *)
LEMMA PopOK ==
    ASSUME queue \in [Conn -> [Service -> Seq(1..MaxFrames)]],
           NEW c \in Conn, NEW s \in Service, queue[c][s] # <<>>, Pop(c, s)
    PROVE  /\ queue' \in [Conn -> [Service -> Seq(1..MaxFrames)]]
           /\ Len(queue'[c][s]) = Len(queue[c][s]) - 1
           /\ \A d \in Conn, t \in Service :
                 d # c \/ t # s => queue'[d][t] = queue[d][t]
  <1> DEFINE q == queue[c][s]
             r == Tail(q)
  <1>1. queue' = [queue EXCEPT ![c] = [queue[c] EXCEPT ![s] = r]]
    BY DEF Pop
  <1>2. q \in Seq(1..MaxFrames) /\ q # <<>>
    OBVIOUS
  <1> HIDE DEF q
  <1>3. Tail(q) \in Seq(1..MaxFrames) /\ Len(Tail(q)) = Len(q) - 1
    BY <1>2
  <1>4. r \in Seq(1..MaxFrames) /\ Len(r) = Len(q) - 1
    BY <1>3
  <1> HIDE DEF r
  <1>5. [queue[c] EXCEPT ![s] = r] \in [Service -> Seq(1..MaxFrames)]
    BY <1>4
  <1>6. queue' \in [Conn -> [Service -> Seq(1..MaxFrames)]]
    BY <1>1, <1>5
  <1>7. queue'[c][s] = r
    BY <1>1
  <1>8. \A d \in Conn, t \in Service : d # c \/ t # s => queue'[d][t] = queue[d][t]
    BY <1>1
  <1> QED
    BY <1>4, <1>6, <1>7, <1>8 DEF q

(* So do the other steps.                                                  *)
LEMMA OtherTypes ==
    ASSUME VideoTypeOK, TypeOK', VideoNext, ~\E s \in Service : Thread(s)
    PROVE  VideoTypeOK'
  <1> USE DEF VideoTypeOK
  <1>1. CASE RegistryStep
    <2>1. calls' \in 0..MaxCalls
      BY <1>1, VideoAssumption DEF RegistryStep
    <2>2. view' \in [Conn -> [Service -> {"none", "clean", "broken"}]]
      BY <1>1 DEF RegistryStep
    <2>3. takeover' \in [Service -> SUBSET Conn]
      BY <1>1 DEF RegistryStep
    <2> QED
      BY <1>1, <2>1, <2>2, <2>3 DEF RegistryStep
  <1>2. CASE \E s \in Service : RefreshVideo(s)
    BY <1>2 DEF RefreshVideo
  <1>3. CASE \E c \in Conn, s \in Service : Fetch(c, s) \/ Received(c, s)
    <2> PICK c \in Conn, s \in Service : Fetch(c, s) \/ Received(c, s)
      BY <1>3
    <2>1. queue[c][s] # <<>> /\ Pop(c, s)
      BY DEF Fetch, Received
    <2>2. queue' \in [Conn -> [Service -> Seq(1..MaxFrames)]]
      BY <2>1, PopOK
    <2>3. CASE Fetch(c, s)
      BY <2>2, <2>3 DEF Fetch
    <2>4. CASE Received(c, s)
      <3>1. excused' \in [Service -> Nat]
        BY <2>4 DEF Received
      <3>2. notes' \in [Service -> SUBSET Conn]
        BY <2>4 DEF Received
      <3> QED
        BY <2>2, <2>4, <3>1, <3>2 DEF Received
    <2> QED
      BY <2>3, <2>4
  <1>4. CASE \E c \in Conn : Close(c)
    BY <1>4 DEF Close
  <1> QED
    BY <1>1, <1>2, <1>3, <1>4 DEF VideoNext

-----------------------------------------------------------------------------
(* The pictures.  The two invariants about them, together.                 *)
PicturesInv == StreamStartsClean /\ PicturesServed

(* A step of one thread that touches neither the served nor their pictures *)
(* keeps them, if it goes to "join" only with nobody served and enters the *)
(* loop only with a new encoder.                                           *)
LEMMA MoveKeepsPictures ==
    ASSUME VideoTypeOK, PicturesInv, UNCHANGED <<inner, view, takeover>>,
           NEW s \in Service, NEW label \in Labels, NEW used \in BOOLEAN,
           pc' = [pc EXCEPT ![s] = label], fresh' = [fresh EXCEPT ![s] = ~used],
           label = "join" => inner[s].subscribes = {},
           label \in Looping /\ used => pc[s] \in Looping /\ ~fresh[s]
    PROVE  PicturesInv'
  <1>1. StreamStartsClean'
    BY DEF PicturesInv, StreamStartsClean
  <1>2. PicturesServed'
    <2> SUFFICES ASSUME NEW t \in Service
                 PROVE  /\ \A c \in Conn : view[c][t] # "none" => c \in inner[t].subscribes
                        /\ pc'[t] = "join" => inner[t].subscribes = {}
                        /\ pc'[t] \in Looping /\ ~fresh'[t] =>
                              \A c \in inner[t].subscribes :
                                  view[c][t] # "none" \/ c \in takeover[t]
      BY DEF PicturesServed
    <2>1. CASE t = s
      BY <2>1 DEF PicturesInv, PicturesServed, VideoTypeOK
    <2>2. CASE t # s
      BY <2>2 DEF PicturesInv, PicturesServed, VideoTypeOK
    <2> QED
      BY <2>1, <2>2
  <1> QED
    BY <1>1, <1>2 DEF PicturesInv

(* Leaving the callback or going on in it are such steps.                  *)
LEMMA LocalKeepsPictures ==
    ASSUME VideoTypeOK, PicturesInv, UNCHANGED <<inner, view, takeover>>,
           NEW s \in Service,
           \/ Return(s)
           \/ UNCHANGED fresh /\ \E label \in Labels :
                 /\ Jump(s, label)
                 /\ label = "join" => inner[s].subscribes = {}
                 /\ label \in Looping => pc[s] \in Looping
    PROVE  PicturesInv'
  <1>1. CASE Return(s)
    BY <1>1, MoveKeepsPictures DEF Return, Jump, Labels, Looping
  <1>2. ASSUME UNCHANGED fresh, NEW label \in Labels, Jump(s, label),
               label = "join" => inner[s].subscribes = {},
               label \in Looping => pc[s] \in Looping
        PROVE  PicturesInv'
    <2>1. fresh' = [fresh EXCEPT ![s] = ~(~fresh[s])] /\ fresh[s] \in BOOLEAN
      BY <1>2 DEF VideoTypeOK
    <2> QED
      BY <1>2, <2>1, MoveKeepsPictures DEF Jump
  <1> QED
    BY <1>1, <1>2

(* The frame reaches everybody who is served: a key frame cleans every     *)
(* picture, another frame breaks only those who took the encoder over.     *)
LEMMA EncodeKeepsPictures ==
    ASSUME ServerInv, VideoTypeOK, PicturesInv, NEW s \in Service, Encode(s)
    PROVE  PicturesInv'
  <1> DEFINE ids == inner[s].subscribes
  <1>0. ids \in SUBSET Conn /\ pc[s] = "encode"
    BY DEF ServerInv, TypeOK, Inner, Encode
  <1>1. /\ UNCHANGED inner
        /\ pc' = [pc EXCEPT ![s] = "sent"]
        /\ fresh' = [fresh EXCEPT ![s] = FALSE]
        /\ takeover' = [takeover EXCEPT ![s] = IF fresh[s] THEN {} ELSE @]
        /\ view' = [c \in Conn |-> IF c \in ids
                       THEN [view[c] EXCEPT ![s] = Show(@, fresh[s])] ELSE view[c]]
    BY DEF Encode, Jump, serverVars
  <1>2. \A c \in Conn, t \in Service : t # s \/ c \notin ids => view'[c][t] = view[c][t]
    BY <1>1 DEF VideoTypeOK
  <1>3. \A c \in ids : view'[c][s] = Show(view[c][s], fresh[s])
    BY <1>0, <1>1 DEF VideoTypeOK
  <1>4. \A t \in Service : t # s => /\ pc'[t] = pc[t] /\ fresh'[t] = fresh[t]
                                    /\ takeover'[t] = takeover[t]
    BY <1>1 DEF VideoTypeOK
  <1>5. pc'[s] = "sent" /\ fresh[s] \in BOOLEAN
    BY <1>1 DEF VideoTypeOK
  <1>6. \A c \in Conn : view[c][s] # "none" => c \in ids
    BY DEF PicturesInv, PicturesServed
  <1>7. CASE fresh[s]
    <2>1. \A c \in ids : view'[c][s] = "clean"
      BY <1>3, <1>7 DEF Show
    <2>2. StreamStartsClean'
      BY <1>2, <1>4, <1>6, <2>1 DEF PicturesInv, StreamStartsClean
    <2>3. PicturesServed'
      <3> SUFFICES ASSUME NEW t \in Service
                   PROVE  /\ \A c \in Conn : view'[c][t] # "none" => c \in inner[t].subscribes
                          /\ pc'[t] = "join" => inner[t].subscribes = {}
                          /\ pc'[t] \in Looping /\ ~fresh'[t] =>
                                \A c \in inner[t].subscribes :
                                    view'[c][t] # "none" \/ c \in takeover'[t]
        BY <1>1 DEF PicturesServed
      <3>1. CASE t = s
        BY <1>2, <1>5, <1>6, <2>1, <3>1
      <3>2. CASE t # s
        <4>1. \A c \in Conn : view'[c][t] = view[c][t]
          BY <1>2, <3>2
        <4>2. inner[t].subscribes \subseteq Conn
          BY DEF ServerInv, TypeOK, Inner
        <4> QED
          BY <1>4, <3>2, <4>1, <4>2 DEF PicturesInv, PicturesServed
      <3> QED
        BY <3>1, <3>2
    <2> QED
      BY <2>2, <2>3 DEF PicturesInv
  <1>8. CASE ~fresh[s]
    <2>0. takeover' = takeover /\ fresh' = fresh
      BY <1>1, <1>5, <1>8 DEF VideoTypeOK
    <2>1. \A c \in ids : view[c][s] # "none" \/ c \in takeover[s]
      BY <1>0, <1>8 DEF PicturesInv, PicturesServed, Looping
    <2>2. \A c \in ids : /\ view'[c][s] # "none"
                         /\ view'[c][s] = "broken" => c \in takeover[s]
      BY <1>0, <1>3, <1>8, <2>1 DEF Show, PicturesInv, StreamStartsClean
    <2>3. StreamStartsClean'
      BY <1>2, <2>0, <2>2 DEF PicturesInv, StreamStartsClean
    <2>4. PicturesServed'
      <3> SUFFICES ASSUME NEW t \in Service
                   PROVE  /\ \A c \in Conn : view'[c][t] # "none" => c \in inner[t].subscribes
                          /\ pc'[t] = "join" => inner[t].subscribes = {}
                          /\ pc'[t] \in Looping /\ ~fresh'[t] =>
                                \A c \in inner[t].subscribes :
                                    view'[c][t] # "none" \/ c \in takeover'[t]
        BY <1>1 DEF PicturesServed
      <3>1. CASE t = s
        BY <1>2, <1>5, <1>6, <2>2, <3>1
      <3>2. CASE t # s
        <4>1. \A c \in Conn : view'[c][t] = view[c][t]
          BY <1>2, <3>2
        <4>2. inner[t].subscribes \subseteq Conn
          BY DEF ServerInv, TypeOK, Inner
        <4> QED
          BY <1>4, <3>2, <4>1, <4>2 DEF PicturesInv, PicturesServed
      <3> QED
        BY <3>1, <3>2
    <2> QED
      BY <2>3, <2>4 DEF PicturesInv
  <1> QED
    BY <1>7, <1>8

(* Newcomers join an encoder nobody else uses: a used one they take over.  *)
LEMMA SwapKeepsPictures ==
    ASSUME ServerInv, VideoTypeOK, PicturesInv, NEW s \in Service, SwapIn(s)
    PROVE  PicturesInv'
  <1>1. inner \in [Service -> Inner] /\ inner[s].new_subscribes \in SUBSET Conn
    BY DEF ServerInv, TypeOK, Inner
  <1>2. /\ inner'[s].subscribes = inner[s].subscribes \cup inner[s].new_subscribes
        /\ \A t \in Service : t # s => inner'[t] = inner[t]
    BY <1>1 DEF SwapIn, Swap, SwapNewSubscribes, Inner
  <1>3. UNCHANGED view
    BY DEF SwapIn
  <1>4. CASE pc[s] = "join"
    <2>1. /\ pc' = [pc EXCEPT ![s] = "encode"]
          /\ UNCHANGED fresh
          /\ takeover' = IF fresh[s] \/ inner[s].subscribes # {} THEN takeover
                         ELSE [takeover EXCEPT ![s] = @ \cup inner[s].new_subscribes]
      BY <1>4 DEF SwapIn, Stay, Jump
    <2>2. inner[s].subscribes = {} /\ fresh[s] \in BOOLEAN
      BY <1>4 DEF PicturesInv, PicturesServed, VideoTypeOK
    <2>3. /\ \A t \in Service : takeover[t] \subseteq takeover'[t]
          /\ \A t \in Service : t # s => takeover'[t] = takeover[t]
          /\ ~fresh[s] => inner[s].new_subscribes \subseteq takeover'[s]
      BY <2>1, <2>2 DEF VideoTypeOK
    <2>4. StreamStartsClean'
      BY <1>3, <2>3 DEF PicturesInv, StreamStartsClean
    <2>5. \A t \in Service : t # s => pc'[t] = pc[t]
      BY <2>1 DEF VideoTypeOK
    <2>6. pc'[s] = "encode"
      BY <2>1 DEF VideoTypeOK
    <2>7. PicturesServed'
      <3> SUFFICES ASSUME NEW t \in Service
                   PROVE  /\ \A c \in Conn : view[c][t] # "none" => c \in inner'[t].subscribes
                          /\ pc'[t] = "join" => inner'[t].subscribes = {}
                          /\ pc'[t] \in Looping /\ ~fresh[t] =>
                                \A c \in inner'[t].subscribes :
                                    view[c][t] # "none" \/ c \in takeover'[t]
        BY <1>3, <2>1 DEF PicturesServed
      <3>1. CASE t = s
        BY <1>2, <2>2, <2>3, <2>6, <3>1 DEF PicturesInv, PicturesServed
      <3>2. CASE t # s
        BY <1>2, <2>3, <2>5, <3>2 DEF PicturesInv, PicturesServed
      <3> QED
        BY <3>1, <3>2
    <2> QED
      BY <2>4, <2>7 DEF PicturesInv
  <1>5. CASE pc[s] # "join"
    <2>1. Return(s) /\ UNCHANGED takeover
      BY <1>5 DEF SwapIn
    <2>2. \A t \in Service : t # s => pc'[t] = pc[t] /\ fresh'[t] = fresh[t]
      BY <2>1 DEF Return, Jump, VideoTypeOK
    <2>3. pc'[s] = "top"
      BY <2>1 DEF Return, Jump, VideoTypeOK
    <2>4. StreamStartsClean'
      BY <1>3, <2>1 DEF PicturesInv, StreamStartsClean
    <2>5. PicturesServed'
      <3> SUFFICES ASSUME NEW t \in Service
                   PROVE  /\ \A c \in Conn : view[c][t] # "none" => c \in inner'[t].subscribes
                          /\ pc'[t] = "join" => inner'[t].subscribes = {}
                          /\ pc'[t] \in Looping /\ ~fresh'[t] =>
                                \A c \in inner'[t].subscribes :
                                    view[c][t] # "none" \/ c \in takeover[t]
        BY <1>3, <2>1 DEF PicturesServed
      <3>1. CASE t = s
        BY <1>2, <2>3, <3>1 DEF PicturesInv, PicturesServed, Looping
      <3>2. CASE t # s
        BY <1>2, <2>2, <3>2 DEF PicturesInv, PicturesServed
      <3> QED
        BY <3>1, <3>2
    <2> QED
      BY <2>4, <2>5 DEF PicturesInv
  <1> QED
    BY <1>4, <1>5

(* A call of the registry serves nobody new; who leaves forgets the stream.*)
LEMMA RegistryKeepsPictures ==
    ASSUME ServerInv, ServerInv', VideoTypeOK, PicturesInv, RegistryStep
    PROVE  PicturesInv'
  <1>1. \A t \in Service : /\ inner'[t].subscribes \subseteq inner[t].subscribes
                           /\ inner'[t].new_subscribes \cap inner[t].subscribes = {}
                           /\ inner'[t].subscribes \subseteq Conn
    BY RegistryServes, VideoAssumption DEF RegistryStep, ServerInv, TypeOK, Inner
  <1>2. \A c \in Conn, t \in Service :
           view'[c][t] = IF Subed(inner'[t], c) THEN view[c][t] ELSE "none"
    BY DEF RegistryStep, Subed
  <1>3. \A c \in Conn, t \in Service :
           c \in takeover[t] /\ Subed(inner'[t], c) => c \in takeover'[t]
    BY DEF RegistryStep, VideoTypeOK
  <1>4. UNCHANGED <<pc, fresh>>
    BY DEF RegistryStep
  <1>5. StreamStartsClean'
    BY <1>2, <1>3 DEF PicturesInv, StreamStartsClean
  <1>6. ASSUME NEW t \in Service
        PROVE  /\ \A c \in Conn : view'[c][t] # "none" => c \in inner'[t].subscribes
               /\ pc[t] = "join" => inner'[t].subscribes = {}
               /\ pc[t] \in Looping /\ ~fresh[t] =>
                     \A c \in inner'[t].subscribes :
                         view'[c][t] # "none" \/ c \in takeover'[t]
    <2>1. ASSUME NEW c \in Conn, view'[c][t] # "none" PROVE c \in inner'[t].subscribes
      <3>1. Subed(inner'[t], c) /\ view[c][t] # "none"
        BY <1>2, <2>1
      <3>2. c \in inner[t].subscribes
        BY <3>1 DEF PicturesInv, PicturesServed
      <3> QED
        BY <1>1, <3>1, <3>2 DEF Subed
    <2>2. pc[t] = "join" => inner'[t].subscribes = {}
      BY <1>1 DEF PicturesInv, PicturesServed
    <2>3. ASSUME pc[t] \in Looping, ~fresh[t], NEW c \in inner'[t].subscribes
          PROVE  view'[c][t] # "none" \/ c \in takeover'[t]
      <3>1. c \in Conn /\ Subed(inner'[t], c) /\ c \in inner[t].subscribes
        BY <1>1 DEF Subed
      <3>2. view[c][t] # "none" \/ c \in takeover[t]
        BY <2>3, <3>1 DEF PicturesInv, PicturesServed
      <3> QED
        BY <1>2, <1>3, <3>1, <3>2
    <2> QED
      BY <2>1, <2>2, <2>3
  <1>7. PicturesServed'
    BY <1>4, <1>6 DEF PicturesServed
  <1> QED
    BY <1>5, <1>7 DEF PicturesInv

(* Every step keeps what is known about the pictures.                      *)
LEMMA StepKeepsPictures ==
    ASSUME ServerInv, ServerInv', VideoTypeOK, PicturesInv, VideoNext
    PROVE  PicturesInv'
  <1>1. ASSUME NEW s \in Service, Thread(s)
        PROVE  PicturesInv'
    <2>1. CASE Encode(s)
      BY <2>1, EncodeKeepsPictures
    <2>2. CASE SwapIn(s)
      BY <2>2, SwapKeepsPictures
    <2>3. CASE Open(s)
      <3>1. fresh' = [fresh EXCEPT ![s] = ~FALSE]
        BY <2>3 DEF Open
      <3>2. /\ pc' = [pc EXCEPT ![s] = "loop"] /\ "loop" \in Labels
            /\ UNCHANGED <<inner, view, takeover>>
        BY <2>3 DEF Open, Jump, Labels, serverVars
      <3> QED
        BY <3>1, <3>2, MoveKeepsPictures
    <2>4. CASE Top(s)
      BY <2>4, LocalKeepsPictures DEF Top, ThreadExit, serverVars, Labels, Looping
    <2>5. CASE Check(s) \/ OpenError(s)
      BY <2>5, LocalKeepsPictures DEF Check, OpenError, serverVars, Labels, Looping
    <2>6. CASE Loop(s) \/ Broadcast(s)
      BY <2>6, LocalKeepsPictures DEF Loop, Broadcast, Stay, serverVars, Labels, Looping
    <2>7. CASE Frame(s) \/ NoFrame(s) \/ Others(s)
      BY <2>7, LocalKeepsPictures DEF Frame, NoFrame, Others, serverVars, Labels, Looping
    <2>8. CASE EncodeError(s) \/ SetSend(s)
      BY <2>8, LocalKeepsPictures DEF EncodeError, SetSend, Stay, serverVars, Labels, Looping
    <2>9. CASE WaitNothing(s) \/ WaitTimeout(s)
      BY <2>9, LocalKeepsPictures
         DEF WaitNothing, WaitTimeout, EndWait, serverVars, Labels, Looping
    <2>10. CASE WaitSwitch(s)
      BY <2>10, LocalKeepsPictures DEF WaitSwitch, Stay, serverVars, Labels, Looping
    <2>11. CASE WaitNext(s)
      <3>1. UNCHANGED <<inner, view, takeover, fresh>> /\ pc[s] = "wait"
        BY <2>11 DEF WaitNext, EndWait, serverVars
      <3>2. Jump(s, "loop") \/ UNCHANGED pc
        BY <2>11 DEF WaitNext, EndWait
      <3>3. CASE Jump(s, "loop")
        BY <3>1, <3>3, LocalKeepsPictures DEF Labels, Looping
      <3>4. CASE UNCHANGED pc
        BY <3>1, <3>4 DEF PicturesInv, StreamStartsClean, PicturesServed
      <3> QED
        BY <3>2, <3>3, <3>4
    <2> QED
      BY <1>1, <2>1, <2>2, <2>3, <2>4, <2>5, <2>6, <2>7, <2>8, <2>9, <2>10, <2>11 DEF Thread
  <1>2. CASE \/ \E s \in Service : RefreshVideo(s)
             \/ \E c \in Conn, s \in Service : Fetch(c, s) \/ Received(c, s)
             \/ \E c \in Conn : Close(c)
    <2>1. UNCHANGED <<inner, pc, fresh, view, takeover>>
      BY <1>2 DEF RefreshVideo, Fetch, Received, Close, serverVars
    <2> QED
      BY <2>1 DEF PicturesInv, StreamStartsClean, PicturesServed
  <1> QED
    BY <1>1, <1>2, RegistryKeepsPictures DEF VideoNext

-----------------------------------------------------------------------------
(* The frames.  The account of a connection at a service in numbers.       *)
LEMMA AccountTypes ==
    ASSUME VideoTypeOK, NEW c \in Conn, NEW s \in Service
    PROVE  /\ Len(queue[c][s]) \in Nat
           /\ excused[s] \in Nat
           /\ Noted(c, s) \in {0, 1}
           /\ Awaited(c, s) \in {0, 1}
  <1>1. queue[c][s] \in Seq(1..MaxFrames) /\ excused[s] \in Nat
    BY DEF VideoTypeOK
  <1>2. Len(queue[c][s]) \in Nat
    BY <1>1
  <1> QED
    BY <1>1, <1>2 DEF Noted, Awaited

(* It stays balanced when it grows on the left no more than on the right.  *)
LEMMA StaysAccounted ==
    ASSUME VideoTypeOK, VideoTypeOK', NEW c \in Conn, NEW s \in Service, Accounted(c, s),
           Len(queue'[c][s]) + Noted(c, s)' + excused[s] + Awaited(c, s)
               <= excused'[s] + Awaited(c, s)' + Len(queue[c][s]) + Noted(c, s)
    PROVE  Accounted(c, s)'
  <1> DEFINE l == Len(queue[c][s])     l1 == Len(queue'[c][s])
             n == Noted(c, s)          n1 == Noted(c, s)'
             x == excused[s]           x1 == excused'[s]
             a == Awaited(c, s)        a1 == Awaited(c, s)'
  <1>1. l \in Nat /\ x \in Nat /\ n \in {0, 1} /\ a \in {0, 1}
    BY AccountTypes
  <1>2. l1 \in Nat /\ x1 \in Nat /\ n1 \in {0, 1} /\ a1 \in {0, 1}
    <2>1. queue'[c][s] \in Seq(1..MaxFrames) /\ excused'[s] \in Nat
      BY DEF VideoTypeOK
    <2>2. Len(queue'[c][s]) \in Nat
      BY <2>1
    <2> QED
      BY <2>1, <2>2 DEF Noted, Awaited
  <1>3. l + n <= x + a
    BY DEF Accounted
  <1>4. l1 + n1 + x + a <= x1 + a1 + l + n
    OBVIOUS
  <1>5. l1 + n1 <= x1 + a1
    <2> HIDE DEF l, l1, n, n1, x, x1, a, a1
    <2> QED
      BY <1>1, <1>2, <1>3, <1>4
  <1> QED
    BY <1>5 DEF Accounted

(* A step of one thread that leaves the channels alone keeps the accounts, *)
(* if nothing is taken note of that was not, and who is no longer waited   *)
(* for was noted or is excused.                                            *)
LEMMA MoveKeepsAccounts ==
    ASSUME VideoTypeOK, VideoTypeOK', FramesAccounted, NEW s \in Service,
           UNCHANGED <<queue, closing>>,
           \A t \in Service : t # s =>
              /\ pc'[t] = pc[t] /\ send_conn_ids'[t] = send_conn_ids[t]
              /\ notes'[t] = notes[t] /\ fetched'[t] = fetched[t] /\ excused'[t] = excused[t],
           NEW x \in {0, 1}, excused'[s] = excused[s] + x,
           notes'[s] \cup fetched'[s] \subseteq notes[s] \cup fetched[s],
           \A c \in Conn : Awaited(c, s) = 1 =>
              \/ Awaited(c, s)' = 1
              \/ x = 1
              \/ c \in notes[s] \cup fetched[s] /\ c \notin notes'[s] \cup fetched'[s]
    PROVE  FramesAccounted'
  <1> SUFFICES ASSUME NEW t \in Service, NEW c \in Conn, c \notin closing
               PROVE  Accounted(c, t)'
    BY DEF FramesAccounted
  <1>0. Accounted(c, t)
    BY DEF FramesAccounted
  <1>1. CASE t # s
    BY <1>0, <1>1 DEF Accounted, Noted, Awaited
  <1>2. CASE t = s
    <2> DEFINE l == Len(queue[c][s])
               n == Noted(c, s)          n1 == Noted(c, s)'
               a == Awaited(c, s)        a1 == Awaited(c, s)'
               e == excused[s]
    <2>1. l \in Nat /\ e \in Nat /\ n \in {0, 1} /\ a \in {0, 1}
      BY AccountTypes
    <2>2. n1 \in {0, 1} /\ a1 \in {0, 1}
      BY DEF Noted, Awaited
    <2>3. n = 0 => n1 = 0
      BY DEF Noted
    <2>4. a = 1 => a1 = 1 \/ x = 1 \/ (n = 1 /\ n1 = 0)
      <3>1. c \in notes[s] \cup fetched[s] => n = 1
        BY DEF Noted
      <3>2. c \notin notes'[s] \cup fetched'[s] => n1 = 0
        BY DEF Noted
      <3> HIDE DEF n, n1
      <3> QED
        BY <3>1, <3>2
    <2>5. l + n1 + e + a <= (e + x) + a1 + l + n
      <3> HIDE DEF l, n, n1, a, a1, e
      <3> QED
        BY <2>1, <2>2, <2>3, <2>4
    <2>6. Len(queue'[c][s]) = l /\ excused'[s] = e + x
      OBVIOUS
    <2>7. Len(queue'[c][s]) + Noted(c, s)' + excused[s] + Awaited(c, s)
               <= excused'[s] + Awaited(c, s)' + Len(queue[c][s]) + Noted(c, s)
      BY <2>5, <2>6
    <2> QED
      BY <1>0, <1>2, <2>7, StaysAccounted
  <1> QED
    BY <1>1, <1>2

(* Jumps, and returns from places where nothing is waited for.             *)
LEMMA JumpKeepsAccounts ==
    ASSUME VideoTypeOK, VideoTypeOK', FramesAccounted, NEW s \in Service,
           UNCHANGED <<queue, closing, notes, excused>>,
           \/ UNCHANGED <<fetched, send_conn_ids>> /\ \E label \in Labels :
                 /\ Jump(s, label)
                 /\ label \in {"sent", "wait"} \/ pc[s] \notin {"sent", "wait"}
           \/ Return(s) /\ pc[s] \notin {"sent", "wait"}
    PROVE  FramesAccounted'
  <1> USE DEF VideoTypeOK
  <1>1. excused'[s] = excused[s] + 0
    OBVIOUS
  <1>2. CASE Return(s) /\ pc[s] \notin {"sent", "wait"}
    <2>1. /\ \A t \in Service : t # s =>
               /\ pc'[t] = pc[t] /\ send_conn_ids'[t] = send_conn_ids[t]
               /\ fetched'[t] = fetched[t]
          /\ fetched'[s] = {}
      BY <1>2 DEF Return, Jump
    <2>2. \A c \in Conn : Awaited(c, s) = 0
      BY <1>2 DEF Awaited
    <2> QED
      BY <1>1, <2>1, <2>2, MoveKeepsAccounts
  <1>3. ASSUME UNCHANGED <<fetched, send_conn_ids>>, NEW label \in Labels, Jump(s, label),
               label \in {"sent", "wait"} \/ pc[s] \notin {"sent", "wait"}
        PROVE  FramesAccounted'
    <2>1. pc'[s] = label /\ \A t \in Service : t # s => pc'[t] = pc[t]
      BY <1>3 DEF Jump
    <2>2. \A c \in Conn : Awaited(c, s) = 1 => Awaited(c, s)' = 1
      BY <1>3, <2>1 DEF Awaited
    <2> QED
      BY <1>1, <1>3, <2>1, <2>2, MoveKeepsAccounts
  <1> QED
    BY <1>2, <1>3

(* A frame is sent to those it will be waited for.                         *)
LEMMA EncodeKeepsAccounts ==
    ASSUME ServerInv, VideoTypeOK, VideoTypeOK', FramesAccounted, NEW s \in Service, Encode(s)
    PROVE  FramesAccounted'
  <1> SUFFICES ASSUME NEW t \in Service, NEW c \in Conn, c \notin closing
               PROVE  Accounted(c, t)'
    BY DEF FramesAccounted, Encode
  <1> DEFINE ids == inner[s].subscribes
             m == frames[s] + 1
  <1>0. Accounted(c, t)
    BY DEF FramesAccounted
  <1>1. /\ queue' = [d \in Conn |-> IF d \in ids
                       THEN [queue[d] EXCEPT ![s] = Append(@, m)] ELSE queue[d]]
        /\ send_conn_ids' = [send_conn_ids EXCEPT ![s] = ids]
        /\ pc' = [pc EXCEPT ![s] = "sent"]
        /\ pc[s] = "encode"
        /\ UNCHANGED <<notes, fetched, excused>>
    BY DEF Encode, Jump
  <1>2. queue[c] \in [Service -> Seq(1..MaxFrames)] /\ queue[c][s] \in Seq(1..MaxFrames)
    BY DEF VideoTypeOK
  <1>3. m \in 1..MaxFrames
    BY VideoAssumption DEF Encode, VideoTypeOK
  <1> HIDE DEF m
  <1>4. CASE t # s
    <2>1. queue'[c][t] = queue[c][t]
      BY <1>1, <1>2, <1>4
    <2>2. pc'[t] = pc[t] /\ send_conn_ids'[t] = send_conn_ids[t]
      BY <1>1, <1>4 DEF VideoTypeOK
    <2> QED
      BY <1>0, <1>1, <2>1, <2>2 DEF Accounted, Noted, Awaited
  <1>5. CASE t = s /\ c \in ids
    <2>1. queue'[c][s] = Append(queue[c][s], m)
      BY <1>1, <1>2, <1>5
    <2>2. Len(queue'[c][s]) = Len(queue[c][s]) + 1
      BY <1>2, <1>3, <2>1
    <2>3. Awaited(c, s) = 0
      BY <1>1 DEF Awaited
    <2>4. Awaited(c, s)' = 1
      BY <1>1, <1>5 DEF Awaited, VideoTypeOK
    <2>5. Noted(c, s)' = Noted(c, s) /\ excused'[s] = excused[s]
      BY <1>1 DEF Noted
    <2>6. Len(queue[c][s]) \in Nat /\ excused[s] \in Nat /\ Noted(c, s) \in {0, 1}
      BY AccountTypes
    <2>7. Len(queue'[c][s]) + Noted(c, s)' + excused[s] + Awaited(c, s)
               <= excused'[s] + Awaited(c, s)' + Len(queue[c][s]) + Noted(c, s)
      BY <2>2, <2>3, <2>4, <2>5, <2>6
    <2> QED
      BY <1>0, <1>5, <2>7, StaysAccounted
  <1>6. CASE t = s /\ c \notin ids
    <2>1. queue'[c][s] = queue[c][s]
      BY <1>1, <1>6
    <2>2. Awaited(c, s) = 0 /\ Awaited(c, s)' = 0
      BY <1>1, <1>6 DEF Awaited, VideoTypeOK
    <2>3. Noted(c, s)' = Noted(c, s) /\ excused'[s] = excused[s]
      BY <1>1 DEF Noted
    <2> QED
      BY <1>0, <1>6, <2>1, <2>2, <2>3 DEF Accounted
  <1> QED
    BY <1>4, <1>5, <1>6

(* A wait that ends excuses one frame, unless nobody was waited for or all *)
(* of them were noted.                                                     *)
LEMMA EndWaitKeepsAccounts ==
    ASSUME VideoTypeOK, VideoTypeOK', FramesAccounted, NEW s \in Service,
           NEW all \in BOOLEAN, EndWait(s, all), UNCHANGED <<queue, closing>>,
           notes' = notes \/ notes' = [notes EXCEPT ![s] = {}],
           all => \/ send_conn_ids[s] = {}
                  \/ /\ notes' = [notes EXCEPT ![s] = {}]
                     /\ send_conn_ids[s] \subseteq fetched[s] \cup notes[s]
    PROVE  FramesAccounted'
  <1>1. /\ \A t \in Service : t # s =>
              /\ pc'[t] = pc[t] /\ send_conn_ids'[t] = send_conn_ids[t]
              /\ notes'[t] = notes[t] /\ fetched'[t] = fetched[t] /\ excused'[t] = excused[t]
        /\ fetched'[s] = {}
        /\ notes'[s] \subseteq notes[s]
    BY DEF EndWait, Jump, VideoTypeOK
  <1>2. CASE ~all
    <2>1. excused'[s] = excused[s] + 1
      BY <1>2 DEF EndWait, VideoTypeOK
    <2> QED
      BY <1>1, <2>1, MoveKeepsAccounts
  <1>3. CASE all
    <2>1. excused'[s] = excused[s] + 0
      BY <1>3 DEF EndWait, VideoTypeOK
    <2>2. \A c \in Conn : Awaited(c, s) = 1 =>
             c \in notes[s] \cup fetched[s] /\ c \notin notes'[s] \cup fetched'[s]
      BY <1>1, <1>3 DEF Awaited, VideoTypeOK
    <2> QED
      BY <1>1, <2>1, <2>2, MoveKeepsAccounts
  <1> QED
    BY <1>2, <1>3

(* A thread keeps the accounts.                                            *)
LEMMA ThreadKeepsAccounts ==
    ASSUME ServerInv, VideoTypeOK, VideoTypeOK', FramesAccounted,
           NEW s \in Service, Thread(s)
    PROVE  FramesAccounted'
  <1>1. CASE Top(s) \/ Check(s) \/ Open(s) \/ OpenError(s)
    BY <1>1, JumpKeepsAccounts DEF Top, Check, Open, OpenError, Labels
  <1>2. CASE Loop(s) \/ Broadcast(s)
    BY <1>2, JumpKeepsAccounts DEF Loop, Broadcast, Stay, Labels
  <1>3. CASE Frame(s) \/ NoFrame(s) \/ Others(s)
    BY <1>3, JumpKeepsAccounts DEF Frame, NoFrame, Others, Labels
  <1>4. CASE SwapIn(s)
    BY <1>4, JumpKeepsAccounts DEF SwapIn, Stay, Labels
  <1>5. CASE Encode(s)
    BY <1>5, EncodeKeepsAccounts
  <1>6. CASE EncodeError(s) \/ SetSend(s)
    BY <1>6, JumpKeepsAccounts DEF EncodeError, SetSend, Stay, Labels
  <1>7. CASE WaitNothing(s)
    BY <1>7, EndWaitKeepsAccounts DEF WaitNothing
  <1>8. CASE WaitTimeout(s)
    BY <1>8, EndWaitKeepsAccounts DEF WaitTimeout
  <1>9. CASE WaitNext(s)
    <2> DEFINE got == fetched[s] \cup notes[s]
    <2>0. notes' = [notes EXCEPT ![s] = {}] /\ UNCHANGED <<queue, closing>>
      BY <1>9 DEF WaitNext
    <2>1. CASE EndWait(s, send_conn_ids[s] \subseteq got)
      BY <2>0, <2>1, EndWaitKeepsAccounts
    <2>2. CASE /\ fetched' = [fetched EXCEPT ![s] = got]
               /\ UNCHANGED <<pc, display_conn_ids, send_conn_ids, fresh, excused>>
      <3>1. /\ \A t \in Service : t # s => notes'[t] = notes[t] /\ fetched'[t] = fetched[t]
            /\ notes'[s] = {} /\ fetched'[s] = fetched[s] \cup notes[s]
        BY <2>0, <2>2 DEF VideoTypeOK
      <3>2. excused'[s] = excused[s] + 0
        BY <2>2 DEF VideoTypeOK
      <3>3. \A c \in Conn : Awaited(c, s)' = Awaited(c, s)
        BY <2>2 DEF Awaited
      <3> QED
        BY <2>0, <2>2, <3>1, <3>2, <3>3, MoveKeepsAccounts
    <2> QED
      BY <1>9, <2>1, <2>2 DEF WaitNext
  <1>10. CASE WaitSwitch(s)
    <2>0. UNCHANGED <<queue, closing, notes>>
      BY <1>10 DEF WaitSwitch
    <2>1. /\ \A t \in Service : t # s =>
              /\ pc'[t] = pc[t] /\ send_conn_ids'[t] = send_conn_ids[t]
              /\ fetched'[t] = fetched[t]
          /\ fetched'[s] \subseteq fetched[s]
      BY <1>10 DEF WaitSwitch, Return, Stay, Jump, VideoTypeOK
    <2>2. \A t \in Service : t # s => excused'[t] = excused[t]
      BY <1>10 DEF WaitSwitch, VideoTypeOK
    <2>3. CASE send_conn_ids[s] = {}
      <3>1. excused'[s] = excused[s] + 0
        BY <1>10, <2>3 DEF WaitSwitch, VideoTypeOK
      <3>2. \A c \in Conn : Awaited(c, s) = 0
        BY <2>3 DEF Awaited
      <3> QED
        BY <2>0, <2>1, <2>2, <3>1, <3>2, MoveKeepsAccounts
    <2>4. CASE send_conn_ids[s] # {}
      <3>1. excused'[s] = excused[s] + 1
        BY <1>10, <2>4 DEF WaitSwitch, VideoTypeOK
      <3> QED
        BY <2>0, <2>1, <2>2, <3>1, MoveKeepsAccounts
    <2> QED
      BY <2>3, <2>4
  <1> QED
    BY <1>1, <1>2, <1>3, <1>4, <1>5, <1>6, <1>7, <1>8, <1>9, <1>10 DEF Thread

(* A frame that is fetched is noted at its service, if anywhere; where it  *)
(* is noted besides, it is excused.                                        *)
LEMMA FetchKeepsAccounts ==
    ASSUME VideoTypeOK, VideoTypeOK', FramesAccounted, NEW c \in Conn, NEW s \in Service,
           Fetch(c, s) \/ Received(c, s)
    PROVE  FramesAccounted'
  <1>1. /\ queue[c][s] # <<>> /\ Pop(c, s)
        /\ UNCHANGED <<pc, send_conn_ids, fetched, closing>>
    BY DEF Fetch, Received
  <1>2. /\ Len(queue'[c][s]) = Len(queue[c][s]) - 1
        /\ \A d \in Conn, t \in Service : d # c \/ t # s => queue'[d][t] = queue[d][t]
    BY <1>1, PopOK DEF VideoTypeOK
  <1>3. \A d \in Conn, t \in Service : d # c => (d \in notes'[t] <=> d \in notes[t])
    <2>1. CASE Fetch(c, s)
      <3>1. notes' = [notes EXCEPT ![s] = notes[s] \cup {c}]
        BY <2>1 DEF Fetch
      <3> QED
        BY <3>1 DEF VideoTypeOK
    <2>2. CASE Received(c, s)
      <3>1. \A t \in Service : notes'[t] = notes[t] \/ notes'[t] = notes[t] \cup {c}
        BY <2>2 DEF Received
      <3> QED
        BY <3>1
    <2> QED
      BY <2>1, <2>2
  <1>4. \A t \in Service : excused'[t] \in {excused[t], excused[t] + 1}
    BY DEF Fetch, Received
  <1>5. \A t \in Service : t # s =>
           \/ notes'[t] = notes[t] /\ excused'[t] = excused[t]
           \/ excused'[t] = excused[t] + 1
    BY DEF Fetch, Received, VideoTypeOK
  <1> SUFFICES ASSUME NEW t \in Service, NEW d \in Conn, d \notin closing
               PROVE  Accounted(d, t)'
    BY <1>1 DEF FramesAccounted
  <1>6. Accounted(d, t)
    BY DEF FramesAccounted
  <1>7. Awaited(d, t)' = Awaited(d, t)
    BY <1>1 DEF Awaited
  <1>8. /\ Len(queue[d][t]) \in Nat /\ excused[t] \in Nat
        /\ Noted(d, t) \in {0, 1} /\ Awaited(d, t) \in {0, 1}
    BY AccountTypes
  <1>9. Noted(d, t)' \in {0, 1}
    BY DEF Noted
  <1> DEFINE goal == Len(queue'[d][t]) + Noted(d, t)' + excused[t] + Awaited(d, t)
                        <= excused'[t] + Awaited(d, t)' + Len(queue[d][t]) + Noted(d, t)
  <1>10. CASE d # c
    <2>1. Noted(d, t)' = Noted(d, t)
      BY <1>1, <1>3, <1>10 DEF Noted
    <2>2. queue'[d][t] = queue[d][t]
      BY <1>2, <1>10
    <2>3. excused'[t] \in {excused[t], excused[t] + 1}
      BY <1>4
    <2>4. goal
      BY <1>7, <1>8, <2>1, <2>2, <2>3
    <2> QED
      BY <1>6, <2>4, StaysAccounted
  <1>11. CASE d = c /\ t = s
    <2>1. Len(queue'[d][t]) = Len(queue[d][t]) - 1
      BY <1>2, <1>11
    <2>2. excused'[t] \in {excused[t], excused[t] + 1}
      BY <1>4
    <2>3. goal
      <3> DEFINE l == Len(queue[d][t])     n == Noted(d, t)     n1 == Noted(d, t)'
                 x == excused[t]           x1 == excused'[t]    a == Awaited(d, t)
      <3>1. l \in Nat /\ x \in Nat /\ n \in {0, 1} /\ a \in {0, 1} /\ n1 \in {0, 1}
        BY <1>8, <1>9
      <3>2. x1 \in {x, x + 1}
        BY <2>2
      <3>3. (l - 1) + n1 + x + a <= x1 + a + l + n
        <4> HIDE DEF l, n, n1, x, x1, a
        <4> QED
          BY <3>1, <3>2
      <3> QED
        BY <1>7, <2>1, <3>3
    <2> QED
      BY <1>6, <2>3, StaysAccounted
  <1>12. CASE d = c /\ t # s
    <2>1. queue'[d][t] = queue[d][t]
      BY <1>2, <1>12
    <2>2. CASE notes'[t] = notes[t] /\ excused'[t] = excused[t]
      <3>1. Noted(d, t)' = Noted(d, t)
        BY <1>1, <2>2 DEF Noted
      <3> QED
        BY <1>6, <1>7, <2>1, <2>2, <3>1 DEF Accounted
    <2>3. CASE excused'[t] = excused[t] + 1
      <3>1. goal
        BY <1>7, <1>8, <1>9, <2>1, <2>3
      <3> QED
        BY <1>6, <3>1, StaysAccounted
    <2> QED
      BY <1>5, <1>12, <2>2, <2>3
  <1> QED
    BY <1>10, <1>11, <1>12

(* Every step keeps the accounts.                                          *)
LEMMA StepKeepsAccounts ==
    ASSUME ServerInv, VideoTypeOK, VideoTypeOK', FramesAccounted, VideoNext
    PROVE  FramesAccounted'
  <1>1. CASE \E s \in Service : Thread(s)
    BY <1>1, ThreadKeepsAccounts
  <1>2. CASE \E c \in Conn, s \in Service : Fetch(c, s) \/ Received(c, s)
    BY <1>2, FetchKeepsAccounts
  <1>3. CASE RegistryStep \/ \E s \in Service : RefreshVideo(s)
    <2>1. UNCHANGED <<pc, send_conn_ids, fetched, notes, queue, closing, excused>>
      BY <1>3 DEF RegistryStep, RefreshVideo
    <2> QED
      BY <2>1 DEF FramesAccounted, Accounted, Noted, Awaited
  <1>4. ASSUME NEW c \in Conn, Close(c) PROVE FramesAccounted'
    <2>1. /\ closing' = closing \cup {c}
          /\ UNCHANGED <<pc, send_conn_ids, fetched, queue, excused>>
          /\ \A d \in Conn, t \in Service : d # c => (d \in notes'[t] <=> d \in notes[t])
      BY <1>4 DEF Close, VideoTypeOK
    <2> SUFFICES ASSUME NEW t \in Service, NEW d \in Conn, d # c, d \notin closing
                 PROVE  Accounted(d, t)'
      BY <2>1 DEF FramesAccounted
    <2>2. Accounted(d, t)
      BY DEF FramesAccounted
    <2>3. Noted(d, t)' = Noted(d, t) /\ Awaited(d, t)' = Awaited(d, t)
      BY <2>1 DEF Noted, Awaited
    <2> QED
      BY <2>1, <2>2, <2>3 DEF Accounted
  <1> QED
    BY <1>1, <1>2, <1>3, <1>4 DEF VideoNext

-----------------------------------------------------------------------------
LEMMA NextVideoIInv == VideoIInv /\ [VideoNext]_vars => VideoIInv'
  <1> SUFFICES ASSUME VideoIInv, [VideoNext]_vars PROVE VideoIInv'
    OBVIOUS
  <1>0. ServerInv /\ VideoTypeOK /\ PicturesInv /\ FramesAccounted
    BY DEF VideoIInv, VideoInv, PicturesInv
  <1>1. ServerInv'
    BY <1>0, VideoStepIsServerStep, NextServerInv
  <1>2. CASE UNCHANGED vars
    <2>1. VideoTypeOK'
      BY <1>0, <1>1, <1>2 DEF VideoTypeOK, vars, videoVars, ServerInv
    <2>2. PicturesInv'
      BY <1>0, <1>2 DEF PicturesInv, StreamStartsClean, PicturesServed, vars, videoVars, serverVars
    <2>3. FramesAccounted'
      BY <1>0, <1>2 DEF FramesAccounted, Accounted, Noted, Awaited, vars, videoVars
    <2> QED
      BY <1>1, <2>1, <2>2, <2>3 DEF VideoIInv, VideoInv, PicturesInv
  <1>3. CASE VideoNext
    <2>0. TypeOK'
      BY <1>1 DEF ServerInv
    <2>1. VideoTypeOK'
      BY <1>0, <1>3, <2>0, ThreadTypes, OtherTypes
    <2>2. PicturesInv'
      BY <1>0, <1>1, <1>3, StepKeepsPictures
    <2>3. FramesAccounted'
      BY <1>0, <1>3, <2>1, StepKeepsAccounts
    <2> QED
      BY <1>1, <2>1, <2>2, <2>3 DEF VideoIInv, VideoInv, PicturesInv
  <1> QED
    BY <1>2, <1>3

(* Types, and the pictures: a subscriber of a video service that is sent a *)
(* frame has been sent a key frame first (video_service.rs, snapshot and   *)
(* handle_one_frame), unless it took over an encoder the last subscriber   *)
(* had just left.                                                          *)
THEOREM VideoInvariant == VideoSpec => []VideoInv
  <1>1. VideoIInv => VideoInv
    BY DEF VideoIInv
  <1> QED
    BY <1>1, InitVideoIInv, NextVideoIInv, PTL DEF VideoSpec

(* The pacing of VideoFrameController bounds the video channel of every    *)
(* connection: one frame, and one more for every wait that ended without   *)
(* the acknowledgement and for every acknowledgement of another display.   *)
THEOREM LagIsBounded == VideoSpec => []LagBounded
  <1>1. VideoIInv => LagBounded
    <2> SUFFICES ASSUME VideoIInv, NEW s \in Service, NEW c \in inner[s].subscribes, c \notin closing
                 PROVE  Len(queue[c][s]) <= 1 + excused[s]
      BY DEF LagBounded
    <2>1. c \in Conn
      BY DEF VideoIInv, ServerInv, TypeOK, Inner
    <2>2. Len(queue[c][s]) + Noted(c, s) <= excused[s] + Awaited(c, s)
      BY <2>1 DEF VideoIInv, FramesAccounted, Accounted
    <2>3. /\ Len(queue[c][s]) \in Nat /\ excused[s] \in Nat
          /\ Noted(c, s) \in {0, 1} /\ Awaited(c, s) \in {0, 1}
      BY <2>1, AccountTypes DEF VideoIInv, VideoInv
    <2> QED
      BY <2>2, <2>3
  <1> QED
    BY <1>1, InitVideoIInv, NextVideoIInv, PTL DEF VideoSpec
=============================================================================
