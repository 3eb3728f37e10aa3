---------------------------- MODULE CursorProofs ----------------------------
(***************************************************************************)
(* The cursor threads implement the registry with abstract threads, and a  *)
(* served subscriber has been sent the current cursor, for every number of *)
(* connections, services and versions.                                     *)
(***************************************************************************)
EXTENDS CursorService, ServerProofs

(* A step of the composition is a step of the registry.                    *)
LEMMA CursorStepIsServerStep == [CursorNext]_vars => [Next]_serverVars
  <1> SUFFICES ASSUME [CursorNext]_vars PROVE [Next]_serverVars
    OBVIOUS
  <1>1. CASE RegistryStep
    BY <1>1 DEF RegistryStep, Next
  <1>2. CASE \E s \in Service : Top(s)
    BY <1>2 DEF Top, Next
  <1>3. CASE \E s \in Service : SnapshotSwap(s)
    BY <1>3 DEF SnapshotSwap, Next
  <1>4. CASE \E s \in Service : \/ Check(s) \/ Callback(s) \/ CallbackError(s)
                                \/ Snapshot(s) \/ SnapshotSend(s) \/ Change(s)
    BY <1>4 DEF Check, Callback, CallbackError, Snapshot, SnapshotSend, Change
  <1>5. CASE UNCHANGED vars
    BY <1>5 DEF vars
  <1> QED
    BY <1>1, <1>2, <1>3, <1>4, <1>5 DEF CursorNext, Thread

(* The threads of server/service.rs do to the registry only what Server    *)
(* allows them: its invariants hold of the real loops.                     *)
THEOREM CursorRefinesServer == CursorSpec => ImplementsServer
  <1>1. CursorInit => Init
    BY DEF CursorInit
  <1> QED
    BY <1>1, CursorStepIsServerStep, PTL DEF CursorSpec, ImplementsServer, Spec

-----------------------------------------------------------------------------
LEMMA InitCursorInv == CursorInit => CursorInv
  <1> SUFFICES ASSUME CursorInit PROVE CursorInv
    OBVIOUS
  <1>1. ServerInv
    BY InitServerInv DEF CursorInit
  <1>2. CursorTypeOK
    BY <1>1, CursorAssumption DEF CursorInit, CursorTypeOK, ServerInv, Labels, Version
  <1>3. \A s \in Service : inner[s].subscribes = {} /\ inner[s].new_subscribes = {}
    BY DEF CursorInit, Init, NewInner
  <1>4. SnapshotInv
    BY <1>3, ServerAssumption DEF SnapshotInv, ServedAreCurrent
  <1> QED
    BY <1>1, <1>2, <1>4 DEF CursorInv

(* SendTo changes what the addressees of one service were sent last.       *)
LEMMA SendToOK ==
    ASSUME seen \in [Conn -> [Service -> Version \cup {-1}]], NEW s \in Service,
           NEW to \in SUBSET Conn, NEW v \in Version, SendTo(s, to, v)
    PROVE  /\ seen' \in [Conn -> [Service -> Version \cup {-1}]]
           /\ \A c \in to : seen'[c][s] = v
           /\ \A c \in Conn, t \in Service : c \notin to \/ t # s => seen'[c][t] = seen[c][t]
  BY DEF SendTo

LEMMA RegistryStepKeeps ==
    ASSUME CursorInv, RegistryStep
    PROVE  CursorInv'
  <1> USE DEF CursorInv
  <1>1. ServerInv'
    BY NextServerInv DEF RegistryStep, Next
  <1>2. UNCHANGED <<pc, may_reset, source, state, seen>>
    BY DEF RegistryStep
  <1>3. late' = [s \in Service |->
                  {c \in Conn : /\ Subed(inner'[s], c)
                                /\ \/ c \in late[s]
                                   \/ pc[s] = "swap" /\ ~Subed(inner[s], c)}]
    BY DEF RegistryStep
  <1>4. CursorTypeOK'
    BY <1>1, <1>2, <1>3 DEF CursorTypeOK, ServerInv
  <1>5. SnapshotInv'
    <2>0. NeedSnapshot \subseteq Service /\ inner' \in [Service -> Inner]
      BY <1>1, ServerAssumption DEF ServerInv, TypeOK
    <2>1. \A s \in NeedSnapshot : \A c \in inner'[s].subscribes \ late'[s] :
              c \in inner[s].subscribes \ late[s]
      BY <1>3, <2>0, RegistryServes DEF RegistryStep, Subed, Inner
    <2>2. \A s \in NeedSnapshot : pc[s] = "swap" =>
              \A c \in inner'[s].new_subscribes \ late'[s] : Subed(inner[s], c) /\ c \notin late[s]
      BY <1>3, <2>0 DEF Subed, Inner
    <2>3. ServedAreCurrent'
      BY <1>2, <2>1 DEF SnapshotInv, ServedAreCurrent
    <2>4. \A s \in NeedSnapshot : pc[s] = "swap" =>
              \A c \in inner'[s].new_subscribes \ late'[s] : seen[c][s] = state[s]
      BY <2>2 DEF SnapshotInv, ServedAreCurrent, Subed
    <2> QED
      BY <1>2, <2>3, <2>4 DEF SnapshotInv
  <1> QED
    BY <1>1, <1>4, <1>5

LEMMA ThreadKeeps ==
    ASSUME CursorInv, NEW s \in Service, Thread(s) \/ Change(s)
    PROVE  CursorInv'
  <1> USE DEF CursorInv
  <1>0. /\ NeedSnapshot \subseteq Service
        /\ pc \in [Service -> Labels]
        /\ state \in [Service -> Version]
        /\ seen \in [Conn -> [Service -> Version \cup {-1}]]
        /\ inner \in [Service -> Inner]
    BY ServerAssumption DEF CursorTypeOK, TypeOK
  <1>1. ServerInv'
    <2>1. [Next]_serverVars
      BY CursorStepIsServerStep DEF CursorNext
    <2> QED
      BY <2>1, NextServerInv
  <1>2. TypeOK'
    BY <1>1 DEF ServerInv
  <1>3. CASE Top(s)
    <2>1. /\ pc' = [pc EXCEPT ![s] = pc'[s]] /\ pc'[s] \in {"check", "exit"}
          /\ inner' = inner
          /\ UNCHANGED <<may_reset, source, state, seen, late>>
      BY <1>0, <1>3 DEF Top, Jump, ThreadExit, serverVars
    <2>2. CursorTypeOK'
      BY <1>2, <2>1 DEF CursorTypeOK, Labels
    <2>3. SnapshotInv'
      BY <1>0, <2>1 DEF SnapshotInv, ServedAreCurrent
    <2> QED
      BY <1>1, <2>2, <2>3
  <1>4. CASE Check(s)
    <2>1. /\ pc' = [pc EXCEPT ![s] = pc'[s]] /\ pc'[s] \in {"callback", "top"}
          /\ may_reset' \in [Service -> BOOLEAN]
          /\ UNCHANGED <<serverVars, source, seen, late>>
      BY <1>0, <1>4 DEF Check, Jump, CursorTypeOK
    <2>2. state' = state \/ (state' = [state EXCEPT ![s] = 0] /\ inner[s].subscribes = {})
      BY <1>4 DEF Check, HasSubscribes
    <2>3. CursorTypeOK'
      BY <1>2, <2>1, <2>2, CursorAssumption DEF CursorTypeOK, Labels, Version
    <2>4. SnapshotInv'
      BY <1>0, <2>1, <2>2 DEF SnapshotInv, ServedAreCurrent, serverVars
    <2> QED
      BY <1>1, <2>3, <2>4
  <1>5. CASE Callback(s)
    <2>1. /\ pc' = [pc EXCEPT ![s] = "snapshot"]
          /\ UNCHANGED <<serverVars, may_reset, source>>
      BY <1>5 DEF Callback, Jump
    <2>2. source \in [Service -> Version] /\ inner[s].subscribes \in SUBSET Conn
      BY <1>0 DEF CursorTypeOK, Inner
    <2>3. state' = IF Publishes(s) THEN [state EXCEPT ![s] = source[s]] ELSE state
      BY <1>5 DEF Callback
    <2>4. CASE Publishes(s)
      <3>1. SendTo(s, inner[s].subscribes, source[s]) /\ late' = [late EXCEPT ![s] = {}]
        BY <1>5, <2>4 DEF Callback
      <3>0. source[s] \in Version
        BY <2>2
      <3>2. /\ seen' \in [Conn -> [Service -> Version \cup {-1}]]
            /\ \A c \in inner[s].subscribes : seen'[c][s] = source[s]
            /\ \A c \in Conn, t \in Service :
                  c \notin inner[s].subscribes \/ t # s => seen'[c][t] = seen[c][t]
        BY <1>0, <2>2, <3>0, <3>1 DEF SendTo
      <3>3. CursorTypeOK'
        <4>1. state' \in [Service -> Version]
          BY <1>0, <2>2, <2>3
        <4>2. pc' \in [Service -> Labels] /\ late' \in [Service -> SUBSET Conn]
          BY <1>0, <2>1, <3>1 DEF CursorTypeOK, Labels
        <4> QED
          BY <1>2, <2>1, <3>2, <4>1, <4>2 DEF CursorTypeOK
      <3>4. s \in NeedSnapshot => state'[s] = source[s]
        BY <1>0, <2>3, <2>4 DEF Publishes
      <3>5. \A t \in Service : t # s => state'[t] = state[t] /\ late'[t] = late[t] /\ pc'[t] = pc[t]
        BY <1>0, <2>1, <2>3, <3>1 DEF CursorTypeOK
      <3>6. SnapshotInv'
        <4> SUFFICES ASSUME NEW t \in NeedSnapshot
                     PROVE  /\ \A c \in inner'[t].subscribes \ late'[t] : seen'[c][t] = state'[t]
                            /\ pc'[t] = "swap" =>
                                  \A c \in inner'[t].new_subscribes \ late'[t] :
                                      seen'[c][t] = state'[t]
          BY DEF SnapshotInv, ServedAreCurrent
        <4>1. CASE t = s
          BY <1>0, <2>1, <3>2, <3>4, <4>1 DEF serverVars
        <4>2. CASE t # s
          BY <1>0, <2>1, <3>2, <3>5, <4>2 DEF serverVars, SnapshotInv, ServedAreCurrent, Inner
        <4> QED
          BY <4>1, <4>2
      <3> QED
        BY <1>1, <3>3, <3>6
    <2>5. CASE ~Publishes(s)
      <3>1. UNCHANGED <<seen, late>>
        BY <1>5, <2>5 DEF Callback
      <3>2. CursorTypeOK'
        BY <1>2, <2>1, <2>2, <2>3, <3>1 DEF CursorTypeOK, Labels
      <3>3. s \in NeedSnapshot => state'[s] = state[s]
        BY <1>0, <2>3, <2>5 DEF Publishes
      <3>4. SnapshotInv'
        BY <1>0, <2>1, <2>3, <3>1, <3>3 DEF SnapshotInv, ServedAreCurrent, serverVars
      <3> QED
        BY <1>1, <3>2, <3>4
    <2> QED
      BY <2>4, <2>5
  <1>6. CASE CallbackError(s) \/ Snapshot(s)
    <2>1. /\ pc' = [pc EXCEPT ![s] = pc'[s]] /\ pc'[s] \in {"send", "top"}
          /\ UNCHANGED <<serverVars, may_reset, source, state, seen, late>>
      BY <1>0, <1>6, CursorAssumption DEF CallbackError, Snapshot, Jump, CursorTypeOK
    <2>2. CursorTypeOK'
      BY <1>2, <2>1 DEF CursorTypeOK, Labels
    <2>3. SnapshotInv'
      BY <1>0, <2>1 DEF SnapshotInv, ServedAreCurrent, serverVars
    <2> QED
      BY <1>1, <2>2, <2>3
  <1>7. CASE SnapshotSend(s)
    <2>1. /\ pc' = [pc EXCEPT ![s] = "swap"]
          /\ SendTo(s, inner[s].new_subscribes, state[s])
          /\ UNCHANGED <<serverVars, may_reset, source, state, late>>
      BY <1>7 DEF SnapshotSend, Jump
    <2>2. inner[s].new_subscribes \in SUBSET Conn /\ state[s] \in Version
      BY <1>0 DEF Inner
    <2>3. /\ seen' \in [Conn -> [Service -> Version \cup {-1}]]
          /\ \A c \in inner[s].new_subscribes : seen'[c][s] = state[s]
          /\ \A c \in Conn, t \in Service :
                c \notin inner[s].new_subscribes \/ t # s => seen'[c][t] = seen[c][t]
      BY <1>0, <2>1, <2>2, SendToOK
    <2>4. CursorTypeOK'
      BY <1>2, <2>1, <2>3 DEF CursorTypeOK, Labels
    <2>5. \A t \in Service, c \in Conn :
             seen'[c][t] = seen[c][t] \/ (t = s /\ seen'[c][t] = state[t])
      BY <2>3
    <2>6. ServedAreCurrent'
      BY <1>0, <2>1, <2>5 DEF SnapshotInv, ServedAreCurrent, serverVars, Inner
    <2>7. \A t \in NeedSnapshot : pc'[t] = "swap" =>
             \A c \in inner[t].new_subscribes \ late[t] : seen'[c][t] = state[t]
      BY <1>0, <2>1, <2>3, <2>5 DEF SnapshotInv, Inner
    <2>8. SnapshotInv'
      BY <2>1, <2>6, <2>7 DEF SnapshotInv, serverVars
    <2> QED
      BY <1>1, <2>4, <2>8
  <1>8. CASE SnapshotSwap(s)
    <2>1. /\ pc[s] = "swap" /\ pc' = [pc EXCEPT ![s] = "top"]
          /\ inner' = [inner EXCEPT ![s] = SwapNewSubscribes(inner[s])]
          /\ UNCHANGED <<may_reset, source, state, seen, late>>
      BY <1>8 DEF SnapshotSwap, Jump, Swap
    <2>2. CursorTypeOK'
      BY <1>2, <2>1 DEF CursorTypeOK, Labels
    <2>3. inner'[s].subscribes = inner[s].subscribes \cup inner[s].new_subscribes
      BY <1>0, <2>1 DEF SwapNewSubscribes, Inner
    <2>4. \A t \in Service : t # s => inner'[t] = inner[t]
      BY <1>0, <2>1
    <2>5. SnapshotInv'
      BY <1>0, <2>1, <2>3, <2>4 DEF SnapshotInv, ServedAreCurrent
    <2> QED
      BY <1>1, <2>2, <2>5
  <1>9. CASE Change(s)
    <2>1. source' \in [Service -> Version]
      BY <1>9, CursorAssumption DEF Change, CursorTypeOK, Version
    <2>2. UNCHANGED <<serverVars, pc, may_reset, state, seen, late>>
      BY <1>9 DEF Change
    <2>3. CursorTypeOK'
      BY <1>2, <2>1, <2>2 DEF CursorTypeOK
    <2>4. SnapshotInv'
      BY <2>2 DEF SnapshotInv, ServedAreCurrent, serverVars
    <2> QED
      BY <1>1, <2>3, <2>4
  <1> QED
    BY <1>3, <1>4, <1>5, <1>6, <1>7, <1>8, <1>9 DEF Thread

LEMMA NextCursorInv == CursorInv /\ [CursorNext]_vars => CursorInv'
  <1> SUFFICES ASSUME CursorInv, [CursorNext]_vars PROVE CursorInv'
    OBVIOUS
  <1>1. CASE UNCHANGED vars
    <2>1. ServerInv'
      BY <1>1, NextServerInv DEF CursorInv, vars
    <2> QED
      BY <1>1, <2>1 DEF CursorInv, CursorTypeOK, SnapshotInv, ServedAreCurrent, vars,
                        serverVars, threadVars, ServerInv
  <1> QED
    BY <1>1, RegistryStepKeeps, ThreadKeeps DEF CursorNext

(* Every served subscriber of a snapshot service was sent what the thread  *)
(* of the service holds, except an id that joined between the send and the *)
(* swap of a snapshot (service.rs snapshot, ServiceSwap).                  *)
THEOREM ServedStayCurrent == CursorSpec => []ServedAreCurrent
  <1>1. CursorInv => ServedAreCurrent
    BY DEF CursorInv, SnapshotInv
  <1> QED
    BY <1>1, InitCursorInv, NextCursorInv, PTL DEF CursorSpec

(* Type correctness of the threads and the registry together.              *)
THEOREM CursorTypeCorrect == CursorSpec => []CursorTypeOK
  <1>1. CursorInv => CursorTypeOK
    BY DEF CursorInv
  <1> QED
    BY <1>1, InitCursorInv, NextCursorInv, PTL DEF CursorSpec
=============================================================================
