---------------------------- MODULE ServerProofs ----------------------------
(***************************************************************************)
(* The registry of Server.tla keeps its inductive invariant ServerInv for  *)
(* every set of connections and services.                                  *)
(***************************************************************************)
EXTENDS Server, TLAPS

(* What the three operations on the subscriber maps of a service do to a   *)
(* service whose maps are disjoint (service.rs on_subscribe,               *)
(* on_unsubscribe, swap_new_subscribes).                                   *)
LEMMA OnSubscribeOK ==
    ASSUME NEW in \in Inner, MapsOK(in), NEW c \in Conn
    PROVE  /\ OnSubscribe(in, c) \in Inner
           /\ MapsOK(OnSubscribe(in, c))
           /\ OnSubscribe(in, c).need_snapshot = in.need_snapshot
           /\ Subed(OnSubscribe(in, c), c)
           /\ \A d \in Conn : d # c => (Subed(OnSubscribe(in, c), d) <=> Subed(in, d))
  <1>1. CASE c \in in.subscribes
    BY <1>1 DEF Inner, OnSubscribe, Subed
  <1>2. CASE c \notin in.subscribes /\ in.need_snapshot
    <2>1. OnSubscribe(in, c) = [in EXCEPT !.new_subscribes = @ \cup {c}]
      BY <1>2 DEF OnSubscribe
    <2> QED
      BY <1>2, <2>1 DEF Inner, Subed, MapsOK
  <1>3. CASE c \notin in.subscribes /\ ~in.need_snapshot
    <2>1. OnSubscribe(in, c) = [in EXCEPT !.subscribes = @ \cup {c}]
      BY <1>3 DEF OnSubscribe
    <2> QED
      BY <1>3, <2>1 DEF Inner, Subed, MapsOK
  <1> QED
    BY <1>1, <1>2, <1>3

LEMMA OnUnsubscribeOK ==
    ASSUME NEW in \in Inner, MapsOK(in), NEW c \in Conn
    PROVE  /\ OnUnsubscribe(in, c) \in Inner
           /\ MapsOK(OnUnsubscribe(in, c))
           /\ OnUnsubscribe(in, c).need_snapshot = in.need_snapshot
           /\ ~Subed(OnUnsubscribe(in, c), c)
           /\ \A d \in Conn : d # c => (Subed(OnUnsubscribe(in, c), d) <=> Subed(in, d))
  <1>1. CASE c \in in.subscribes
    <2>1. OnUnsubscribe(in, c) = [in EXCEPT !.subscribes = @ \ {c}]
      BY <1>1 DEF OnUnsubscribe
    <2> QED
      BY <1>1, <2>1 DEF Inner, Subed, MapsOK
  <1>2. CASE c \notin in.subscribes
    <2>1. OnUnsubscribe(in, c) = [in EXCEPT !.new_subscribes = @ \ {c}]
      BY <1>2 DEF OnUnsubscribe
    <2> QED
      BY <1>2, <2>1 DEF Inner, Subed, MapsOK
  <1> QED
    BY <1>1, <1>2

LEMMA SwapOK ==
    ASSUME NEW in \in Inner
    PROVE  /\ SwapNewSubscribes(in) \in Inner
           /\ MapsOK(SwapNewSubscribes(in))
           /\ SwapNewSubscribes(in).need_snapshot = in.need_snapshot
           /\ \A d \in Conn : Subed(SwapNewSubscribes(in), d) <=> Subed(in, d)
  BY DEF Inner, SwapNewSubscribes, Subed, MapsOK

LEMMA DeactivateOK ==
    ASSUME NEW in \in Inner
    PROVE  /\ Deactivate(in) \in Inner
           /\ Deactivate(in).need_snapshot = in.need_snapshot
           /\ Deactivate(in).subscribes = in.subscribes
           /\ Deactivate(in).new_subscribes = in.new_subscribes
  BY DEF Inner, Deactivate

LEMMA IdleOK == Idle \in Calls
  BY DEF Idle, Calls

(* What the bookkeeping of subscribe's loop does to the services left.     *)
LEMMA LoopStep ==
    ASSUME TypeOK, NEW s \in Service, NEW label
    PROVE  /\ Done(s) => call'.todo = call.todo \ {s}
           /\ Goto(s, label) => call'.todo = call.todo
  BY DEF TypeOK, Calls, Done, Goto

(* A new registry has nobody in it.                                        *)
LEMMA InitServerInv == Init => ServerInv
  <1> SUFFICES ASSUME Init PROVE ServerInv
    OBVIOUS
  <1>1. \A s \in Service : /\ inner[s] \in Inner
                           /\ inner[s].subscribes = {}
                           /\ inner[s].new_subscribes = {}
                           /\ inner[s].need_snapshot = (s \in NeedSnapshot)
    BY DEF Init, NewInner, Inner
  <1>2. TypeOK
    BY <1>1, IdleOK DEF Init, TypeOK
  <1>3. Disjoint
    BY <1>1 DEF Disjoint, MapsOK
  <1>4. Removed
    BY DEF Init, Removed, Idle
  <1>5. CallOK
    BY DEF Init, CallOK, Idle
  <1>6. ReadOK /\ TableOK
    BY DEF Init, ReadOK, TableOK, Idle
  <1> QED
    BY <1>2, <1>3, <1>4, <1>5, <1>6 DEF ServerInv

(* Starting a call touches nothing but the call record.                    *)
LEMMA BeginKeeps ==
    ASSUME ServerInv, NEW op \in {"add", "remove", "subs"}, NEW c \in Conn, c \notin gone,
           NEW todo \in SUBSET Service, NEW on \in SUBSET Service,
           op = "remove" => todo = Service,
           Begin(op, c, todo, on)
    PROVE  ServerInv'
  <1>1. call' = [op |-> op, conn |-> {c}, todo |-> todo, on |-> on,
                 at |-> NoService, pc |-> "pick", swapped |-> FALSE]
    BY DEF Begin, Idle
  <1>2. UNCHANGED <<inner, connections, gone, exited>>
    BY DEF Begin
  <1>3. TypeOK'
    BY <1>1, <1>2 DEF ServerInv, TypeOK, Calls
  <1>4. Disjoint'
    BY <1>2 DEF ServerInv, Disjoint
  <1>5. Removed'
    BY <1>1, <1>2 DEF ServerInv, Removed
  <1>6. CallOK'
    BY <1>1, <1>2 DEF ServerInv, CallOK
  <1>7. ReadOK' /\ TableOK'
    BY <1>1, <1>2 DEF ServerInv, ReadOK, TableOK
  <1> QED
    BY <1>3, <1>4, <1>5, <1>6, <1>7 DEF ServerInv

LEMMA BeginCallKeeps == ServerInv /\ BeginCall => ServerInv'
  <1> SUFFICES ASSUME ServerInv, BeginCall PROVE ServerInv'
    OBVIOUS
  <1>1. CASE \E c \in Conn, noperms \in SUBSET Service : AddConnection(c, noperms)
    BY <1>1, BeginKeeps DEF AddConnection
  <1>2. CASE \E c \in Conn : AddCameraConnection(c)
    BY <1>2, BeginKeeps, ServerAssumption DEF AddCameraConnection
  <1>3. CASE \E c \in Conn : RemoveConnection(c)
    BY <1>3, BeginKeeps DEF RemoveConnection
  <1>4. CASE \E c \in Conn, s \in Service, sub \in BOOLEAN : Subscribe(c, s, sub)
    <2> PICK c \in Conn, s \in Service, sub \in BOOLEAN : Subscribe(c, s, sub)
      BY <1>4
    <2>1. (IF sub THEN {s} ELSE {}) \in SUBSET Service
      OBVIOUS
    <2> QED
      BY <2>1, BeginKeeps DEF Subscribe
  <1>5. CASE \E c \in Conn, displays \in SUBSET Video, include, exclude \in BOOLEAN :
                CaptureDisplays(c, displays, include, exclude)
    <2> PICK c \in Conn, displays \in SUBSET Video, include \in BOOLEAN, exclude \in BOOLEAN :
                CaptureDisplays(c, displays, include, exclude)
      BY <1>5
    <2>1. /\ {v \in Video : IF v \in displays THEN include ELSE exclude} \in SUBSET Service
          /\ displays \in SUBSET Service
      BY ServerAssumption
    <2> QED
      BY <2>1, BeginKeeps DEF CaptureDisplays
  <1>6. CASE DropServer
    <2>1. call' = [op |-> "drop", conn |-> {}, todo |-> Service, on |-> {},
                   at |-> NoService, pc |-> "pick", swapped |-> FALSE]
      BY <1>6 DEF DropServer, Idle
    <2>2. UNCHANGED <<inner, connections, gone, exited>>
      BY <1>6 DEF DropServer
    <2>3. TypeOK'
      BY <2>1, <2>2 DEF ServerInv, TypeOK, Calls
    <2> QED
      BY <2>1, <2>2, <2>3 DEF ServerInv, Disjoint, Removed, CallOK, ReadOK, TableOK
  <1> QED
    BY <1>1, <1>2, <1>3, <1>4, <1>5, <1>6 DEF BeginCall

(* A step of a call that changes one service.                              *)
LEMMA AddStepKeeps ==
    ASSUME ServerInv, NEW s \in Service, AddStep(s)
    PROVE  ServerInv'
  <1> USE DEF ServerInv
  <1> PICK c \in call.conn : inner' = [inner EXCEPT ![s] = OnSubscribe(@, c)]
    BY DEF AddStep
  <1>1. c \in Conn /\ c \notin gone /\ call.conn = {c}
    BY DEF TypeOK, Calls, CallOK, AddStep
  <1>2. inner[s] \in Inner /\ MapsOK(inner[s])
    BY DEF TypeOK, Disjoint
  <1>3. inner' = [inner EXCEPT ![s] = OnSubscribe(inner[s], c)]
    OBVIOUS
  <1>4. call' = [call EXCEPT !.todo = @ \ {s}] /\ UNCHANGED <<connections, gone, exited>>
    BY DEF AddStep
  <1>5. TypeOK'
    BY <1>1, <1>2, <1>3, <1>4, OnSubscribeOK DEF TypeOK, Calls
  <1>6. Disjoint'
    BY <1>1, <1>2, <1>3, OnSubscribeOK DEF Disjoint, TypeOK
  <1>7. Removed'
    <2>1. \A t \in Service, d \in Conn : d # c => (Subed(inner'[t], d) <=> Subed(inner[t], d))
      BY <1>1, <1>2, <1>3, OnSubscribeOK DEF TypeOK
    <2>2. call'.op = "add"
      BY <1>4 DEF AddStep, TypeOK, Calls
    <2> QED
      BY <1>1, <1>4, <2>1, <2>2 DEF Removed, TypeOK
  <1>8. CallOK'
    BY <1>4 DEF CallOK, AddStep, TypeOK, Calls
  <1>9. ReadOK' /\ TableOK'
    BY <1>4 DEF CallOK, ReadOK, TableOK, AddStep, TypeOK, Calls
  <1> QED
    BY <1>5, <1>6, <1>7, <1>8, <1>9

LEMMA RemoveStepKeeps ==
    ASSUME ServerInv, NEW s \in Service, RemoveStep(s)
    PROVE  ServerInv'
  <1> USE DEF ServerInv
  <1> PICK c \in call.conn : inner' = [inner EXCEPT ![s] = OnUnsubscribe(@, c)]
    BY DEF RemoveStep
  <1>1. c \in Conn /\ c \notin gone /\ call.conn = {c}
    BY DEF TypeOK, Calls, CallOK, RemoveStep
  <1>2. inner[s] \in Inner /\ MapsOK(inner[s])
    BY DEF TypeOK, Disjoint
  <1>3. inner' = [inner EXCEPT ![s] = OnUnsubscribe(inner[s], c)]
    OBVIOUS
  <1>4. call' = [call EXCEPT !.todo = @ \ {s}] /\ UNCHANGED <<connections, gone, exited>>
    BY DEF RemoveStep
  <1>5. TypeOK'
    BY <1>1, <1>2, <1>3, <1>4, OnUnsubscribeOK DEF TypeOK, Calls
  <1>6. Disjoint'
    BY <1>1, <1>2, <1>3, OnUnsubscribeOK DEF Disjoint, TypeOK
  <1>7. Removed'
    <2>1. /\ \A t \in Service, d \in Conn : d # c => (Subed(inner'[t], d) <=> Subed(inner[t], d))
          /\ ~Subed(inner'[s], c)
          /\ \A t \in Service : t # s => inner'[t] = inner[t]
      BY <1>1, <1>2, <1>3, OnUnsubscribeOK DEF TypeOK
    <2>2. call'.op = "remove" /\ call'.conn = call.conn /\ call'.todo = call.todo \ {s}
      BY <1>4 DEF RemoveStep, TypeOK, Calls
    <2>3. call.op = "remove"
      BY DEF RemoveStep
    <2>4. \A d \in gone', t \in Service : ~Subed(inner'[t], d)
      BY <1>1, <1>4, <2>1 DEF Removed, TypeOK
    <2>5. \A t \in Service \ call'.todo : ~Subed(inner'[t], c)
      BY <1>1, <2>1, <2>2, <2>3 DEF Removed
    <2> QED
      BY <1>1, <2>2, <2>4, <2>5 DEF Removed
  <1>8. CallOK'
    BY <1>4 DEF CallOK, RemoveStep, TypeOK, Calls
  <1>9. ReadOK' /\ TableOK'
    BY <1>4 DEF CallOK, ReadOK, TableOK, RemoveStep, TypeOK, Calls
  <1> QED
    BY <1>5, <1>6, <1>7, <1>8, <1>9

(* A step that leaves the services alone: the record of the call decides.  *)
LEMMA EndKeeps ==
    ASSUME ServerInv, AddEnd \/ RemoveEnd \/ SubsEnd \/ DropEnd
    PROVE  ServerInv'
  <1> USE DEF ServerInv
  <1>1. /\ call' \in Calls
        /\ call'.op \in {"idle", "dropped"}
        /\ call'.conn = {}
        /\ call'.pc = "pick"
        /\ call'.swapped = FALSE
    <2>1. CASE call' = Idle
      BY <2>1, IdleOK DEF Idle
    <2>2. CASE call' = [Idle EXCEPT !.op = "dropped"]
      BY <2>2 DEF Idle, Calls
    <2> QED
      BY <2>1, <2>2 DEF AddEnd, RemoveEnd, SubsEnd, DropEnd
  <1>2. inner' = inner /\ exited' = exited
    BY DEF AddEnd, RemoveEnd, SubsEnd, DropEnd
  <1>3. connections' \in SUBSET Conn /\ gone' \in SUBSET Conn
    BY DEF AddEnd, RemoveEnd, SubsEnd, DropEnd, TypeOK, Calls
  <1>4. TypeOK'
    BY <1>1, <1>2, <1>3 DEF TypeOK
  <1>5. Removed'
    BY <1>1, <1>2 DEF AddEnd, RemoveEnd, SubsEnd, DropEnd, Removed
  <1>6. TableOK'
    BY DEF AddEnd, RemoveEnd, SubsEnd, DropEnd, TableOK, CallOK
  <1>7. Disjoint'
    BY <1>2 DEF Disjoint
  <1>8. CallOK' /\ ReadOK'
    BY <1>1 DEF CallOK, ReadOK
  <1> QED
    BY <1>4, <1>5, <1>6, <1>7, <1>8

LEMMA SubsReadKeeps ==
    ASSUME ServerInv, NEW s \in Service, SubsRead1(s) \/ SubsRead2(s)
    PROVE  ServerInv'
  <1> USE DEF ServerInv
  <1>1. UNCHANGED <<inner, connections, gone, exited>> /\ call.op = "subs"
    BY DEF SubsRead1, SubsRead2
  <1>2. PICK c \in Conn : call.conn = {c} /\ c \notin gone
    BY <1>1 DEF CallOK
  <1>3. s \in call.todo /\ (call.pc = "read2" \/ call.pc = "pick")
    BY <1>1 DEF SubsRead1, SubsRead2, CallOK
  <1>4. \/ Done(s)
        \/ Goto(s, "apply")
        \/ Goto(s, "read2") /\ c \notin inner[s].subscribes
    BY <1>2 DEF SubsRead1, SubsRead2
  <1>5. TypeOK'
    BY <1>1, <1>4 DEF TypeOK, Calls, Done, Goto
  <1>6. CallOK'
    BY <1>1, <1>2, <1>3, <1>4 DEF CallOK, TypeOK, Calls, Done, Goto
  <1>7. ReadOK'
    BY <1>1, <1>2, <1>4 DEF ReadOK, TypeOK, Calls, Done, Goto
  <1>8. Removed' /\ Disjoint' /\ TableOK'
    BY <1>1, <1>4 DEF Removed, Disjoint, TableOK, TypeOK, Calls, Done, Goto
  <1> QED
    BY <1>5, <1>6, <1>7, <1>8

LEMMA SubsApplyKeeps ==
    ASSUME ServerInv, NEW s \in Service, SubsApply(s)
    PROVE  ServerInv'
  <1> USE DEF ServerInv
  <1> DEFINE new(c) == IF s \in call.on THEN OnSubscribe(inner[s], c)
                       ELSE OnUnsubscribe(inner[s], c)
  <1>1. PICK c \in call.conn : inner' = [inner EXCEPT ![s] = new(c)]
    BY DEF SubsApply
  <1>2. c \in Conn /\ c \notin gone /\ call.op = "subs" /\ call.conn = {c}
    BY DEF TypeOK, Calls, CallOK, SubsApply
  <1>3. inner[s] \in Inner /\ MapsOK(inner[s])
    BY DEF TypeOK, Disjoint
  <1>4. /\ new(c) \in Inner
        /\ MapsOK(new(c))
        /\ new(c).need_snapshot = inner[s].need_snapshot
        /\ \A d \in Conn : d # c => (Subed(new(c), d) <=> Subed(inner[s], d))
    BY <1>2, <1>3, OnSubscribeOK, OnUnsubscribeOK
  <1> HIDE DEF new
  <1>5. Done(s) /\ UNCHANGED <<connections, gone, exited>>
    BY DEF SubsApply
  <1>6. TypeOK'
    BY <1>1, <1>4, <1>5 DEF TypeOK, Calls, Done
  <1>7. Disjoint'
    BY <1>1, <1>4 DEF Disjoint, TypeOK
  <1>8. Removed'
    <2>1. call'.op = "subs"
      BY <1>2, <1>5 DEF Done, TypeOK, Calls
    <2>2. \A t \in Service, d \in Conn : d # c => (Subed(inner'[t], d) <=> Subed(inner[t], d))
      BY <1>1, <1>4 DEF TypeOK
    <2> QED
      BY <1>2, <1>5, <2>1, <2>2 DEF Removed, TypeOK
  <1>9. CallOK' /\ ReadOK' /\ TableOK'
    BY <1>2, <1>5 DEF CallOK, ReadOK, TableOK, Done, TypeOK, Calls
  <1> QED
    BY <1>6, <1>7, <1>8, <1>9

LEMMA JoinKeeps ==
    ASSUME ServerInv, NEW s \in Service, JoinStart(s) \/ JoinEnd(s)
    PROVE  ServerInv'
  <1> USE DEF ServerInv
  <1>1. CASE JoinStart(s)
    <2>1. inner' = [inner EXCEPT ![s] = Deactivate(inner[s])] /\ inner[s] \in Inner
      BY <1>1 DEF JoinStart, TypeOK
    <2>2. call' = [call EXCEPT !.at = s, !.pc = "join"] /\ call.op = "drop" /\ s \in call.todo
      BY <1>1 DEF JoinStart
    <2>3. UNCHANGED <<connections, gone, exited>>
      BY <1>1 DEF JoinStart
    <2>4. \A t \in Service : /\ inner'[t].subscribes = inner[t].subscribes
                             /\ inner'[t].new_subscribes = inner[t].new_subscribes
                             /\ inner'[t].need_snapshot = inner[t].need_snapshot
      BY <2>1, DeactivateOK DEF TypeOK
    <2>5. TypeOK'
      BY <2>1, <2>2, <2>3, DeactivateOK DEF TypeOK, Calls
    <2>6. Disjoint'
      BY <2>4 DEF Disjoint, MapsOK
    <2>7. Removed'
      BY <2>2, <2>3, <2>4 DEF Removed, Subed, TypeOK, Calls
    <2>8. CallOK' /\ ReadOK' /\ TableOK'
      BY <2>2, <2>3 DEF CallOK, ReadOK, TableOK, TypeOK, Calls
    <2> QED
      BY <2>5, <2>6, <2>7, <2>8
  <1>2. CASE JoinEnd(s)
    <2>1. UNCHANGED <<inner, connections, gone, exited>> /\ call.op = "drop" /\ Done(s)
      BY <1>2 DEF JoinEnd
    <2> QED
      BY <2>1 DEF TypeOK, Calls, Disjoint, Removed, CallOK, ReadOK, TableOK, Done
  <1> QED
    BY <1>1, <1>2

LEMMA SwapKeeps ==
    ASSUME ServerInv, NEW s \in Service, Swap(s)
    PROVE  ServerInv'
  <1> USE DEF ServerInv
  <1>1. inner' = [inner EXCEPT ![s] = SwapNewSubscribes(inner[s])] /\ inner[s] \in Inner
    BY DEF Swap, TypeOK
  <1>2. UNCHANGED <<connections, gone, exited>>
    BY DEF Swap
  <1>3. /\ call' \in Calls
        /\ call'.op = call.op /\ call'.conn = call.conn /\ call'.todo = call.todo
        /\ call'.pc = call.pc /\ call'.at = call.at
        /\ call.swapped => call'.swapped
        /\ call'.swapped => call.op = "subs"
        /\ call.pc = "read2" /\ call.at = s => call'.swapped
    BY DEF Swap, TypeOK, Calls, CallOK
  <1>4. TypeOK'
    BY <1>1, <1>2, <1>3, SwapOK DEF TypeOK
  <1>5. Disjoint'
    BY <1>1, SwapOK DEF Disjoint, TypeOK
  <1>6. Removed'
    <2>1. \A t \in Service, d \in Conn : Subed(inner'[t], d) <=> Subed(inner[t], d)
      BY <1>1, SwapOK DEF TypeOK
    <2> QED
      BY <1>2, <1>3, <2>1 DEF Removed, TypeOK, Calls
  <1>7. CallOK' /\ TableOK'
    BY <1>2, <1>3 DEF CallOK, TableOK
  <1>8. ReadOK'
    <2> SUFFICES ASSUME call.pc = "read2", ~call'.swapped, NEW c \in call.conn
                 PROVE  c \notin inner'[call.at].subscribes
      BY <1>3 DEF ReadOK
    <2>1. call.at # s /\ ~call.swapped
      BY <1>3
    <2>2. inner'[call.at] = inner[call.at]
      BY <1>1, <2>1 DEF TypeOK, CallOK, Calls
    <2> QED
      BY <2>1, <2>2 DEF ReadOK
  <1> QED
    BY <1>4, <1>5, <1>6, <1>7, <1>8

LEMMA ThreadExitKeeps ==
    ASSUME ServerInv, NEW s \in Service, ThreadExit(s)
    PROVE  ServerInv'
  BY DEF ServerInv, ThreadExit, TypeOK, Disjoint, Removed, CallOK, ReadOK, TableOK

(* Every step of the registry and of its threads keeps the invariant.      *)
LEMMA NextServerInv == ServerInv /\ [Next]_serverVars => ServerInv'
  <1> SUFFICES ASSUME ServerInv, [Next]_serverVars PROVE ServerInv'
    OBVIOUS
  <1>1. CASE BeginCall
    BY <1>1, BeginCallKeeps
  <1>2. CASE CallStep
    BY <1>2, AddStepKeeps, RemoveStepKeeps, SubsReadKeeps, SubsApplyKeeps, JoinKeeps,
       EndKeeps DEF CallStep
  <1>3. CASE \E s \in Service : Swap(s) \/ ThreadExit(s)
    BY <1>3, SwapKeeps, ThreadExitKeeps
  <1>4. CASE UNCHANGED serverVars
    BY <1>4 DEF serverVars, ServerInv, TypeOK, Disjoint, Removed, CallOK, ReadOK, TableOK
  <1> QED
    BY <1>1, <1>2, <1>3, <1>4 DEF Next

(* A call of the registry adds nobody to the served of a service with a    *)
(* snapshot, and parks nobody who is served.                               *)
LEMMA RegistryServes ==
    ASSUME ServerInv, BeginCall \/ CallStep, NEW s \in NeedSnapshot
    PROVE  /\ inner'[s].subscribes \subseteq inner[s].subscribes
           /\ inner'[s].new_subscribes \cap inner[s].subscribes = {}
  <1> USE DEF ServerInv
  <1>0. /\ s \in Service /\ inner \in [Service -> Inner] /\ inner[s].need_snapshot
        /\ inner[s].subscribes \cap inner[s].new_subscribes = {}
    BY ServerAssumption DEF Disjoint, TypeOK, MapsOK
  <1>1. \A c \in Conn :
           /\ OnSubscribe(inner[s], c).subscribes \subseteq inner[s].subscribes
           /\ OnSubscribe(inner[s], c).new_subscribes \cap inner[s].subscribes = {}
    BY <1>0 DEF OnSubscribe, Inner
  <1>2. \A c \in Conn :
           /\ OnUnsubscribe(inner[s], c).subscribes \subseteq inner[s].subscribes
           /\ OnUnsubscribe(inner[s], c).new_subscribes \cap inner[s].subscribes = {}
    BY <1>0 DEF OnUnsubscribe, Inner
  <1>3. /\ Deactivate(inner[s]).subscribes = inner[s].subscribes
        /\ Deactivate(inner[s]).new_subscribes = inner[s].new_subscribes
    BY <1>0, DeactivateOK
  <1>4. call.conn \subseteq Conn
    BY DEF TypeOK, Calls
  <1>5. CASE BeginCall
    BY <1>0, <1>5 DEF BeginCall, AddConnection, AddCameraConnection, RemoveConnection, Subscribe,
                CaptureDisplays, Begin, DropServer
  <1>6. CASE \E t \in Service : AddStep(t)
    BY <1>0, <1>1, <1>4, <1>6 DEF AddStep
  <1>7. CASE \E t \in Service : RemoveStep(t)
    BY <1>0, <1>2, <1>4, <1>7 DEF RemoveStep
  <1>8. CASE \E t \in Service : SubsApply(t)
    BY <1>0, <1>1, <1>2, <1>4, <1>8 DEF SubsApply
  <1>9. CASE \E t \in Service : JoinStart(t)
    BY <1>0, <1>3, <1>9 DEF JoinStart
  <1>10. CASE \/ \E t \in Service : SubsRead1(t) \/ SubsRead2(t) \/ JoinEnd(t)
              \/ AddEnd \/ RemoveEnd \/ SubsEnd \/ DropEnd
    BY <1>0, <1>10 DEF SubsRead1, SubsRead2, JoinEnd, AddEnd, RemoveEnd, SubsEnd, DropEnd
  <1> QED
    BY <1>5, <1>6, <1>7, <1>8, <1>9, <1>10 DEF CallStep

-----------------------------------------------------------------------------
(* The registry never leaves its inductive invariant (server.rs with       *)
(* service.rs): the maps of a service stay disjoint, a removed connection  *)
(* stays out of every service.                                             *)
THEOREM ServerInvariance == Spec => []ServerInv
  BY InitServerInv, NextServerInv, PTL DEF Spec

(* Once remove_connection has returned no service holds the connection.    *)
THEOREM RemovedStaysOut == Spec => []NothingLeftOfRemoved
  <1>1. ServerInv => NothingLeftOfRemoved
    BY DEF ServerInv, TableOK, Removed, NothingLeftOfRemoved
  <1> QED
    BY <1>1, ServerInvariance, PTL

(* A call of subscribe leaves the connection as it was asked to, unless a  *)
(* swap came between the two reads of is_subed.                            *)
THEOREM SubscribeIsHonoured == Spec => SubscribeHonoured
  <1> DEFINE P == \A s \in Service, c \in Conn :
          call.op = "subs" /\ c \in call.conn /\ s \in call.todo /\ s \notin call'.todo
          => \/ Subed(inner'[s], c) = (s \in call.on)
             \/ call.swapped /\ s \notin call.on
  <1>1. ServerInv /\ [Next]_serverVars => [P]_serverVars
    <2> SUFFICES ASSUME ServerInv, Next, NEW s \in Service, NEW c \in Conn,
                        call.op = "subs", c \in call.conn, s \in call.todo, s \notin call'.todo
                 PROVE  \/ Subed(inner'[s], c) = (s \in call.on)
                        \/ call.swapped /\ s \notin call.on
      OBVIOUS
    <2>0. call.conn = {c} /\ inner[s] \in Inner /\ MapsOK(inner[s])
      BY DEF ServerInv, CallOK, TypeOK, Disjoint
    <2>1. CASE BeginCall
      <3>1. call = Idle
        BY <2>1 DEF BeginCall, AddConnection, AddCameraConnection, RemoveConnection,
                    Subscribe, CaptureDisplays, Begin, DropServer
      <3> QED
        BY <3>1 DEF Idle
    <2>2. CASE \E t \in Service : SubsRead1(t)
      <3> PICK t \in Service : SubsRead1(t)
        BY <2>2
      <3>0. Done(t) \/ \E label \in {"read2", "apply"} : Goto(t, label)
        BY DEF SubsRead1
      <3>1. t = s /\ Done(s) /\ \A label : ~Goto(s, label)
        BY <3>0, LoopStep DEF ServerInv
      <3>2. c \in inner[s].subscribes /\ s \in call.on /\ inner' = inner
        BY <2>0, <3>1 DEF SubsRead1
      <3> QED
        BY <3>2 DEF Subed
    <2>3. CASE \E t \in Service : SubsRead2(t)
      <3> PICK t \in Service : SubsRead2(t)
        BY <2>3
      <3>0. Done(t) \/ \E label \in {"read2", "apply"} : Goto(t, label)
        BY DEF SubsRead2
      <3>1. t = s /\ Done(s) /\ \A label : ~Goto(s, label)
        BY <3>0, LoopStep DEF ServerInv
      <3>2. /\ (c \in inner[s].new_subscribes) = (s \in call.on)
            /\ inner' = inner /\ call.pc = "read2" /\ s = call.at
        BY <2>0, <3>1 DEF SubsRead2
      <3>3. ~call.swapped => c \notin inner[s].subscribes
        BY <3>2 DEF ServerInv, ReadOK
      <3> QED
        BY <3>2, <3>3 DEF Subed
    <2>4. CASE \E t \in Service : SubsApply(t)
      <3> PICK t \in Service : SubsApply(t)
        BY <2>4
      <3>1. t = s
        BY LoopStep DEF SubsApply, ServerInv
      <3>2. inner'[s] = IF s \in call.on THEN OnSubscribe(inner[s], c)
                        ELSE OnUnsubscribe(inner[s], c)
        BY <2>0, <3>1 DEF SubsApply, ServerInv, TypeOK
      <3>3. CASE s \in call.on
        BY <2>0, <3>2, <3>3, OnSubscribeOK DEF Subed
      <3>4. CASE s \notin call.on
        BY <2>0, <3>2, <3>4, OnUnsubscribeOK DEF Subed
      <3> QED
        BY <3>3, <3>4
    <2>5. CASE AddEnd \/ RemoveEnd \/ SubsEnd \/ DropEnd
      BY <2>5 DEF AddEnd, RemoveEnd, SubsEnd, DropEnd
    <2>6. CASE \E t \in Service : AddStep(t) \/ RemoveStep(t) \/ JoinStart(t) \/ JoinEnd(t)
      BY <2>6 DEF AddStep, RemoveStep, JoinStart, JoinEnd
    <2>7. CASE \E t \in Service : Swap(t) \/ ThreadExit(t)
      BY <2>7 DEF Swap, ThreadExit, ServerInv, TypeOK, Calls
    <2> QED
      BY <2>1, <2>2, <2>3, <2>4, <2>5, <2>6, <2>7 DEF Next, CallStep
  <1>2. SubscribeHonoured <=> [][P]_serverVars
    BY DEF SubscribeHonoured
  <1> QED
    BY <1>1, <1>2, ServerInvariance, PTL DEF Spec
=============================================================================
