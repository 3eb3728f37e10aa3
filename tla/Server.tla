------------------------------- MODULE Server -------------------------------
(***************************************************************************)
(* The service registry of the controlled side (struct Server of           *)
(* server.rs): which connection is subscribed to which capture service.    *)
(*                                                                         *)
(* Two kinds of lock are involved.  The Server is behind an RwLock whose   *)
(* write half is held by the connection task for the whole of              *)
(* add_connection, remove_connection, subscribe or capture_displays: at    *)
(* most one call is in flight (variable `call`).  Every service has a lock *)
(* of its own, taken once per on_subscribe or on_unsubscribe and TWICE by  *)
(* is_subed, and its thread moves parked newcomers to the served set       *)
(* (ServiceSwap) without the Server lock.                                  *)
(*                                                                         *)
(* This module leaves the threads abstract: a thread may swap whenever it  *)
(* is alive, and it ends after its service was deactivated.                *)
(* CursorService and VideoService give the threads their real loops and    *)
(* implement this specification.                                           *)
(***************************************************************************)
EXTENDS ServiceInner

CONSTANTS
    Service,        \* names of the registered services
    Video,          \* the services whose name is a video service name
    PrimaryVideo,   \* {the primary monitor service}
    PrimaryCamera,  \* {the primary camera service}, {} without a camera
    NeedSnapshot,   \* services built with need_snapshot = true
    NoService       \* "no service" of a call that is between two services

ASSUME ServerAssumption ==
    /\ Video \subseteq Service
    /\ PrimaryVideo \subseteq Video
    /\ PrimaryCamera \subseteq Video
    /\ NeedSnapshot \subseteq Service
    /\ NoService \notin Service

VARIABLES
    inner,        \* [Service -> Inner], each behind its own lock
    connections,  \* ids in Server.connections
    gone,         \* ids whose connection task called remove_connection
    exited,       \* services whose thread returned
    call          \* the call that holds the Server lock

serverVars == <<inner, connections, gone, exited, call>>

Idle == [op |-> "idle", conn |-> {}, todo |-> {}, on |-> {},
         at |-> NoService, pc |-> "pick", swapped |-> FALSE]

(* `conn` is the singleton of the calling connection ({} for Drop), `todo` *)
(* the services the loop has left, `on` the ones to be subscribed (the     *)
(* others are to be unsubscribed), `at` the service whose is_subed ran its *)
(* first read.  `swapped` records a swap of that service since then: it is *)
(* what the second read may have missed, no part of the program's state.   *)
Calls == [op   : {"idle", "add", "remove", "subs", "drop", "dropped"},
          conn : SUBSET Conn, todo : SUBSET Service, on : SUBSET Service,
          at   : Service \cup {NoService},
          pc   : {"pick", "read2", "apply", "join"}, swapped : BOOLEAN]

Init ==
    /\ inner = [s \in Service |-> NewInner(s \in NeedSnapshot)]
    /\ connections = {}
    /\ gone = {}
    /\ exited = {}
    /\ call = Idle

-----------------------------------------------------------------------------
(* add_connection and remove_connection visit the services one by one, in  *)
(* the order of a HashMap, taking one service lock after the other.        *)

Begin(op, c, todo, on) ==
    /\ call = Idle
    /\ call' = [Idle EXCEPT !.op = op, !.conn = {c}, !.todo = todo, !.on = on]
    /\ UNCHANGED <<inner, connections, gone, exited>>

(* Every service but the non-primary video ones, minus the services the    *)
(* connection has no permission for.                                       *)
AddConnection(c, noperms) ==
    /\ c \notin gone
    /\ Begin("add", c, {s \in Service : (s \in Video => s \in PrimaryVideo)
                                        /\ s \notin noperms}, {})

AddCameraConnection(c) ==
    /\ c \notin gone
    /\ Begin("add", c, PrimaryCamera, {})

AddStep(s) ==
    /\ call.op = "add"
    /\ s \in call.todo
    /\ \E c \in call.conn : inner' = [inner EXCEPT ![s] = OnSubscribe(@, c)]
    /\ call' = [call EXCEPT !.todo = @ \ {s}]
    /\ UNCHANGED <<connections, gone, exited>>

AddEnd ==
    /\ call.op = "add"
    /\ call.todo = {}
    /\ connections' = connections \cup call.conn
    /\ call' = Idle
    /\ UNCHANGED <<inner, gone, exited>>

RemoveConnection(c) ==
    /\ c \notin gone
    /\ Begin("remove", c, Service, {})

RemoveStep(s) ==
    /\ call.op = "remove"
    /\ s \in call.todo
    /\ \E c \in call.conn : inner' = [inner EXCEPT ![s] = OnUnsubscribe(@, c)]
    /\ call' = [call EXCEPT !.todo = @ \ {s}]
    /\ UNCHANGED <<connections, gone, exited>>

RemoveEnd ==
    /\ call.op = "remove"
    /\ call.todo = {}
    /\ connections' = connections \ call.conn
    /\ gone' = gone \cup call.conn
    /\ call' = Idle
    /\ UNCHANGED <<inner, exited>>

-----------------------------------------------------------------------------
(* Server::subscribe, alone or as the body of capture_displays' loop:      *)
(*   if s.is_subed(conn.id()) == sub { return }   -- two read locks        *)
(*   on_subscribe or on_unsubscribe               -- one write lock        *)

Subscribe(c, s, sub) ==
    /\ c \notin gone
    /\ Begin("subs", c, {s}, IF sub THEN {s} ELSE {})

CaptureDisplays(c, displays, include, exclude) ==
    /\ c \notin gone
    /\ Begin("subs", c,
             {v \in Video : IF v \in displays THEN include ELSE exclude},
             displays)

(* subscribe is done with service s: on to the next one.                   *)
Done(s) == call' = [call EXCEPT !.todo = @ \ {s}, !.at = NoService,
                                !.pc = "pick", !.swapped = FALSE]

Goto(s, label) == call' = [call EXCEPT !.at = s, !.pc = label]

(* Mutant: is_subed does not look at the parked ids.                       *)
SubsReadServed(s) ==
    /\ call.op = "subs"
    /\ call.pc = "pick"
    /\ s \in call.todo
    /\ \E c \in call.conn :
          IF (c \in inner[s].subscribes) = (s \in call.on)
          THEN Done(s) ELSE Goto(s, "apply")
    /\ UNCHANGED <<inner, connections, gone, exited>>

(* The left operand of ||: the lock is released before the right one runs. *)
SubsRead1(s) ==
    /\ call.op = "subs"
    /\ call.pc = "pick"
    /\ s \in call.todo
    /\ \E c \in call.conn :
          IF c \notin inner[s].subscribes THEN Goto(s, "read2")
          ELSE IF s \in call.on THEN Done(s) ELSE Goto(s, "apply")
    /\ UNCHANGED <<inner, connections, gone, exited>>

SubsRead2(s) ==
    /\ call.op = "subs"
    /\ call.pc = "read2"
    /\ s = call.at
    /\ \E c \in call.conn :
          IF (c \in inner[s].new_subscribes) = (s \in call.on)
          THEN Done(s) ELSE Goto(s, "apply")
    /\ UNCHANGED <<inner, connections, gone, exited>>

SubsApply(s) ==
    /\ call.op = "subs"
    /\ call.pc = "apply"
    /\ s = call.at
    /\ \E c \in call.conn :
          inner' = [inner EXCEPT ![s] = IF s \in call.on THEN OnSubscribe(@, c)
                                        ELSE OnUnsubscribe(@, c)]
    /\ Done(s)
    /\ UNCHANGED <<connections, gone, exited>>

SubsEnd ==
    /\ call.op = "subs"
    /\ call.todo = {}
    /\ call' = Idle
    /\ UNCHANGED <<inner, connections, gone, exited>>

-----------------------------------------------------------------------------
(* Drop of the Server: join every service.  The connection tasks hold weak *)
(* references, so the last strong one goes while no call is in flight, and *)
(* no call follows.                                                        *)
DropServer ==
    /\ call = Idle
    /\ call' = [Idle EXCEPT !.op = "drop", !.todo = Service]
    /\ UNCHANGED <<inner, connections, gone, exited>>

(* Mutant: join waits for a thread it has not told to end.                 *)
JoinActive(s) ==
    /\ call.op = "drop"
    /\ call.pc = "pick"
    /\ s \in call.todo
    /\ call' = [call EXCEPT !.at = s, !.pc = "join"]
    /\ UNCHANGED <<inner, connections, gone, exited>>

(* join: clear `active` under the lock, then wait for the thread.          *)
JoinStart(s) ==
    /\ call.op = "drop"
    /\ call.pc = "pick"
    /\ s \in call.todo
    /\ inner' = [inner EXCEPT ![s] = Deactivate(@)]
    /\ call' = [call EXCEPT !.at = s, !.pc = "join"]
    /\ UNCHANGED <<connections, gone, exited>>

JoinEnd(s) ==
    /\ call.op = "drop"
    /\ call.pc = "join"
    /\ s = call.at
    /\ s \in exited
    /\ Done(s)
    /\ UNCHANGED <<inner, connections, gone, exited>>

DropEnd ==
    /\ call.op = "drop"
    /\ call.todo = {}
    /\ call' = [Idle EXCEPT !.op = "dropped"]
    /\ UNCHANGED <<inner, connections, gone, exited>>

-----------------------------------------------------------------------------
(* What a service thread may do to this state.                             *)

(* Drop of a ServiceSwap, after the snapshot callback.                     *)
Swap(s) ==
    /\ s \notin exited
    /\ inner' = [inner EXCEPT ![s] = SwapNewSubscribes(@)]
    /\ call' = IF call.op = "subs" /\ call.pc = "read2" /\ call.at = s
               THEN [call EXCEPT !.swapped = TRUE] ELSE call
    /\ UNCHANGED <<connections, gone, exited>>

(* The loop `while sp.active()` of repeat and run ends.                    *)
ThreadExit(s) ==
    /\ s \notin exited
    /\ ~inner[s].active
    /\ exited' = exited \cup {s}
    /\ UNCHANGED <<inner, connections, gone, call>>

-----------------------------------------------------------------------------
BeginCall ==
    \/ \E c \in Conn : \/ \E noperms \in SUBSET Service : AddConnection(c, noperms)
                       \/ AddCameraConnection(c)
                       \/ RemoveConnection(c)
                       \/ \E s \in Service, sub \in BOOLEAN : Subscribe(c, s, sub)
                       \/ \E displays \in SUBSET Video, include, exclude \in BOOLEAN :
                             CaptureDisplays(c, displays, include, exclude)
    \/ DropServer

CallStep ==
    \/ \E s \in Service : \/ AddStep(s)
                          \/ RemoveStep(s)
                          \/ SubsRead1(s)
                          \/ SubsRead2(s)
                          \/ SubsApply(s)
                          \/ JoinStart(s)
                          \/ JoinEnd(s)
    \/ AddEnd
    \/ RemoveEnd
    \/ SubsEnd
    \/ DropEnd

Next ==
    \/ BeginCall
    \/ CallStep
    \/ \E s \in Service : Swap(s) \/ ThreadExit(s)

Spec == Init /\ [][Next]_serverVars

-----------------------------------------------------------------------------
TypeOK ==
    /\ inner \in [Service -> Inner]
    /\ connections \in SUBSET Conn
    /\ gone \in SUBSET Conn
    /\ exited \in SUBSET Service
    /\ call \in Calls

(* No id is in both maps of a service: on_unsubscribe stops searching at   *)
(* the first map that holds the id, so an id in both would survive it.     *)
(* That needs a service without a snapshot to park nobody.                 *)
Disjoint ==
    \A s \in Service : /\ MapsOK(inner[s])
                       /\ inner[s].need_snapshot = (s \in NeedSnapshot)

(* What is left of a connection while remove_connection runs and after it. *)
Removed ==
    /\ \A c \in gone, s \in Service : ~Subed(inner[s], c)
    /\ call.op = "remove" =>
          \A c \in call.conn, s \in Service \ call.todo : ~Subed(inner[s], c)

(* A call acts on one connection, that has not been removed, and only a    *)
(* call of subscribe looks at a service before it touches it.              *)
CallOK ==
    /\ call.conn \cap gone = {}
    /\ call.op \in {"add", "remove", "subs"} => \E c \in Conn : call.conn = {c}
    /\ call.op \in {"idle", "drop", "dropped"} => call.conn = {}
    /\ call.op \in {"idle", "add", "remove", "dropped"} => call.pc = "pick"
    /\ call.op = "drop" => call.pc \in {"pick", "join"}
    /\ call.op = "subs" => call.pc \in {"pick", "read2", "apply"}
    /\ call.pc \in {"read2", "apply", "join"} => call.at \in call.todo
    /\ call.swapped => call.op = "subs"

(* Between the two reads of is_subed, what the first one saw stays true    *)
(* until a swap.                                                           *)
ReadOK ==
    call.pc = "read2" /\ ~call.swapped =>
        \A c \in call.conn : c \notin inner[call.at].subscribes

(* A removed id leaves the table of connections in the same step.          *)
TableOK == gone \cap connections = {}

(* The inductive invariant of the registry.                                *)
ServerInv == TypeOK /\ Disjoint /\ Removed /\ CallOK /\ ReadOK /\ TableOK

(* Once remove_connection has returned, no service holds the connection in *)
(* either map, whatever the threads were doing: nothing is sent to a       *)
(* connection that is gone, and its id cannot keep a capture loop alive.   *)
NothingLeftOfRemoved ==
    \A c \in gone : /\ c \notin connections
                    /\ \A s \in Service : ~Subed(inner[s], c)

(* subscribe(name, conn, sub) leaves the connection subscribed exactly     *)
(* when sub is true.  The one exception is a swap between the two reads of *)
(* is_subed: the id moves from the map that is read second to the map that *)
(* was read first, and an unsubscription takes it for absent.              *)
SubscribeHonoured ==
    [][\A s \in Service, c \in Conn :
          call.op = "subs" /\ c \in call.conn /\ s \in call.todo /\ s \notin call'.todo
          => \/ Subed(inner'[s], c) = (s \in call.on)
             \/ call.swapped /\ s \notin call.on]_serverVars
=============================================================================
