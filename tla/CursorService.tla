---------------------------- MODULE CursorService ----------------------------
(***************************************************************************)
(* The thread of the service that publishes the shape of the mouse cursor  *)
(* of the controlled computer when it changes: ServiceTmpl::repeat of      *)
(* server/service.rs with the callback run_cursor of                       *)
(* server/input_service.rs.  It runs against the registry of Server.tla.   *)
(*                                                                         *)
(* A cursor is its number: 0 stands for no cursor (get_cursor() = None,    *)
(* and the Default of StateCursor), n > 0 for a cursor handle.  Service is *)
(* a set only so that the theorems hold for every number of such threads.  *)
(***************************************************************************)
EXTENDS Server, Integers

CONSTANT MaxVer     \* number of different cursors

ASSUME CursorAssumption ==
    /\ NeedSnapshot = Service     \* new_cursor: need_snapshot = true
    /\ MaxVer \in Nat

VARIABLES
    pc,         \* program counter of the thread of each service
    may_reset,  \* the local `may_reset` of repeat
    source,     \* what the system reports now (get_cursor)
    state,      \* the cursor the thread took over last (state.hcursor)
    seen,       \* seen[c][s]: last cursor of s put in c's channel, -1 for none
    late        \* late[s]: ids that were swapped in without having been sent
                \* the snapshot (bookkeeping, no part of the program's state)

threadVars == <<pc, may_reset, source, state, seen, late>>
vars == <<serverVars, threadVars>>

Version == 0..MaxVer
Labels == {"top", "check", "callback", "snapshot", "send", "swap", "exit"}

CursorInit ==
    /\ Init
    /\ pc = [s \in Service |-> "top"]
    /\ may_reset = [s \in Service |-> FALSE]
    /\ source = [s \in Service |-> 0]
    /\ state = [s \in Service |-> 0]
    /\ seen = [c \in Conn |-> [s \in Service |-> -1]]
    /\ late = [s \in Service |-> {}]

-----------------------------------------------------------------------------
Jump(s, label) == pc' = [pc EXCEPT ![s] = label]

(* The message goes into the channel of every id in `to`.                  *)
SendTo(s, to, v) ==
    seen' = [c \in Conn |-> IF c \in to THEN [seen[c] EXCEPT ![s] = v] ELSE seen[c]]

(* Mutant: while sp.ok(), so that a service nobody uses loses its thread.  *)
TopOk(s) ==
    /\ pc[s] = "top"
    /\ IF Ok(inner[s])
       THEN Jump(s, "check") /\ UNCHANGED serverVars
       ELSE /\ Jump(s, "exit")
            /\ exited' = exited \cup {s}
            /\ UNCHANGED <<inner, connections, gone, call>>
    /\ UNCHANGED <<may_reset, source, state, seen, late>>

(* while sp.active()                                                       *)
Top(s) ==
    /\ pc[s] = "top"
    /\ IF inner[s].active
       THEN Jump(s, "check") /\ UNCHANGED serverVars
       ELSE Jump(s, "exit") /\ ThreadExit(s)
    /\ UNCHANGED <<may_reset, source, state, seen, late>>

(* if sp.has_subscribes() { init once } else if may_reset { reset }        *)
Check(s) ==
    /\ pc[s] = "check"
    /\ IF HasSubscribes(inner[s])
       THEN /\ may_reset' = [may_reset EXCEPT ![s] = TRUE]
            /\ Jump(s, "callback")
            /\ UNCHANGED state
       ELSE /\ may_reset' = [may_reset EXCEPT ![s] = FALSE]
            /\ state' = IF may_reset[s] THEN [state EXCEPT ![s] = 0] ELSE state
            /\ Jump(s, "top")
    /\ UNCHANGED <<serverVars, source, seen, late>>

(* run_cursor sends when a cursor exists and is another one than before.   *)
Publishes(s) == source[s] # 0 /\ source[s] # state[s]

(* The first half of the callback: take over the cursor, and send it to    *)
(* the served subscribers under one write lock.                            *)
Callback(s) ==
    /\ pc[s] = "callback"
    /\ IF Publishes(s)
       THEN /\ state' = [state EXCEPT ![s] = source[s]]
            /\ SendTo(s, inner[s].subscribes, source[s])
            /\ late' = [late EXCEPT ![s] = {}]
       ELSE UNCHANGED <<state, seen, late>>
    /\ Jump(s, "snapshot")
    /\ UNCHANGED <<serverVars, may_reset, source>>

(* get_cursor()? or get_cursor_data()? failed: repeat logs, sleeps, loops. *)
CallbackError(s) ==
    /\ pc[s] = "callback"
    /\ Jump(s, "top")
    /\ UNCHANGED <<serverVars, may_reset, source, state, seen, late>>

(* Mutant: the snapshot is skipped while nobody is served yet.             *)
SnapshotServed(s) ==
    /\ pc[s] = "snapshot"
    /\ Jump(s, IF inner[s].subscribes # {} THEN "send" ELSE "top")
    /\ UNCHANGED <<serverVars, may_reset, source, state, seen, late>>

(* sp.snapshot: a read lock to look for newcomers ...                      *)
Snapshot(s) ==
    /\ pc[s] = "snapshot"
    /\ Jump(s, IF inner[s].new_subscribes # {} THEN "send" ELSE "top")
    /\ UNCHANGED <<serverVars, may_reset, source, state, seen, late>>

(* Mutant: the newcomers are sent what the system reports now.             *)
SnapshotSendSource(s) ==
    /\ pc[s] = "send"
    /\ SendTo(s, inner[s].new_subscribes, source[s])
    /\ Jump(s, "swap")
    /\ UNCHANGED <<serverVars, may_reset, source, state, late>>

(* ... a write lock to send them the current state ...                     *)
SnapshotSend(s) ==
    /\ pc[s] = "send"
    /\ SendTo(s, inner[s].new_subscribes, state[s])
    /\ Jump(s, "swap")
    /\ UNCHANGED <<serverVars, may_reset, source, state, late>>

(* ... and another one, when the ServiceSwap is dropped, to move them.     *)
SnapshotSwap(s) ==
    /\ pc[s] = "swap"
    /\ Swap(s)
    /\ Jump(s, "top")
    /\ UNCHANGED <<may_reset, source, state, seen, late>>

(* The system shows another cursor, perhaps an earlier one again, or none. *)
Change(s) ==
    /\ \E v \in Version \ {source[s]} : source' = [source EXCEPT ![s] = v]
    /\ UNCHANGED <<serverVars, pc, may_reset, state, seen, late>>

(* A step of the registry, with the bookkeeping of the ids that join after *)
(* the snapshot was sent and before the swap.                              *)
RegistryStep ==
    /\ BeginCall \/ CallStep
    /\ late' = [s \in Service |->
                  {c \in Conn : /\ Subed(inner'[s], c)
                                /\ \/ c \in late[s]
                                   \/ pc[s] = "swap" /\ ~Subed(inner[s], c)}]
    /\ UNCHANGED <<pc, may_reset, source, state, seen>>

Thread(s) ==
    \/ Top(s)
    \/ Check(s)
    \/ Callback(s)
    \/ CallbackError(s)
    \/ Snapshot(s)
    \/ SnapshotSend(s)
    \/ SnapshotSwap(s)

CursorNext ==
    \/ RegistryStep
    \/ \E s \in Service : Thread(s) \/ Change(s)

(* A thread runs on, and so does a call that was started: both only wait   *)
(* for short critical sections, and JoinEnd for the end of a thread.  The  *)
(* system can be asked for its cursor: get_cursor does not fail every time *)
(* it is called (a thread whose callback always fails serves nobody).      *)
CursorSpec ==
    /\ CursorInit
    /\ [][CursorNext]_vars
    /\ \A s \in Service : WF_vars(Thread(s)) /\ SF_vars(Callback(s))
    /\ WF_vars(RegistryStep /\ CallStep)

-----------------------------------------------------------------------------
CursorTypeOK ==
    /\ TypeOK
    /\ pc \in [Service -> Labels]
    /\ may_reset \in [Service -> BOOLEAN]
    /\ source \in [Service -> Version]
    /\ state \in [Service -> Version]
    /\ seen \in [Conn -> [Service -> Version \cup {-1}]]
    /\ late \in [Service -> SUBSET Conn]

(* The registry invariants carry over: the threads only do what Server     *)
(* lets them do.                                                           *)
ImplementsServer == Spec

(* Every served subscriber of a service with a snapshot has been sent the  *)
(* version the thread holds: nobody waits for the next change to learn the *)
(* current state.  Excepted are the ids that called on_subscribe between   *)
(* the send and the swap of a snapshot.                                    *)
ServedAreCurrent ==
    \A s \in NeedSnapshot : \A c \in inner[s].subscribes \ late[s] :
        seen[c][s] = state[s]

(* The inductive invariant behind it: between the send and the swap, the   *)
(* parked ids were sent the snapshot as well.                              *)
SnapshotInv ==
    /\ ServedAreCurrent
    /\ \A s \in NeedSnapshot : pc[s] = "swap" =>
          \A c \in inner[s].new_subscribes \ late[s] : seen[c][s] = state[s]

CursorInv == ServerInv /\ CursorTypeOK /\ SnapshotInv

(* A newcomer is not parked for ever.                                      *)
NewcomersAreServed ==
    \A c \in Conn, s \in Service :
        c \in inner[s].new_subscribes
            ~> c \notin inner[s].new_subscribes \/ ~inner[s].active

(* Dropping the server terminates: every join finds its thread ending.     *)
DropTerminates == call.op = "drop" ~> call.op = "dropped"
=============================================================================
