------------------------------ MODULE Mediator ------------------------------
(***************************************************************************)
(* The outer loop of the rendezvous mediator (RendezvousMediator::         *)
(* start_all of rendezvous_mediator.rs): one task per rendezvous server,   *)
(* all of them replaced when the configuration changes.  The writers of    *)
(* the configuration (the IPC handlers, a ConfigureUpdate of a server)     *)
(* store the new value first and call restart() afterwards; the loop reads *)
(* the configuration first and clears the flags of restart() afterwards.   *)
(*                                                                         *)
(* The tasks are abstract here: one fails at any time, and ends once it    *)
(* has seen SHOULD_EXIT.  Registration.tla gives them their loop.          *)
(***************************************************************************)
EXTENDS Naturals, FiniteSets

CONSTANTS
    Host,         \* rendezvous servers
    Writer,       \* tasks that change the configuration
    MaxChanges    \* bound on the changes of the configuration

ASSUME MediatorAssumption ==
    /\ Host # {}
    /\ MaxChanges \in Nat

VARIABLES
    config,            \* Config::get_rendezvous_servers()
    stop,              \* the option "stop-service"
    pending,           \* writers that stored a value and have to restart()
    loop,              \* program counter of start_all
    servers,           \* its local `servers`
    running,           \* the tasks join_all waits for
    should_exit,       \* SHOULD_EXIT
    manual_restarted,  \* MANUAL_RESTARTED
    changes,           \* changes so far
    missed             \* bookkeeping: a restart fell between the read of the
                       \* configuration and the clearing of the flags

mediatorVars == <<config, stop, pending, loop, servers, running, should_exit,
                  manual_restarted, changes, missed>>

Configs == (SUBSET Host) \ {{}}

MediatorInit ==
    /\ config \in Configs
    /\ stop \in BOOLEAN
    /\ pending = {}
    /\ loop = "top"
    /\ servers = {}
    /\ running = {}
    /\ should_exit = FALSE
    /\ manual_restarted = FALSE
    /\ changes = 0
    /\ missed = FALSE

-----------------------------------------------------------------------------
(* The loop.  close_connections, of a stopped service, is part of Top.     *)
Top ==
    /\ loop = "top"
    /\ loop' = IF stop THEN "after" ELSE "read"
    /\ missed' = FALSE
    /\ UNCHANGED <<config, stop, pending, servers, running, should_exit,
                   manual_restarted, changes>>

ReadServers ==
    /\ loop = "read"
    /\ servers' = config
    /\ loop' = "clear"
    /\ UNCHANGED <<config, stop, pending, running, should_exit, manual_restarted,
                   changes, missed>>

ClearExit ==
    /\ loop = "clear"
    /\ should_exit' = FALSE
    /\ loop' = "spawn"
    /\ UNCHANGED <<config, stop, pending, servers, running, manual_restarted,
                   changes, missed>>

(* MANUAL_RESTARTED.store(false), and a task for every server.             *)
Spawn ==
    /\ loop = "spawn"
    /\ manual_restarted' = FALSE
    /\ running' = servers
    /\ loop' = "join"
    /\ UNCHANGED <<config, stop, pending, servers, should_exit, changes, missed>>

Join ==
    /\ loop = "join"
    /\ running = {}
    /\ loop' = "after"
    /\ UNCHANGED <<config, stop, pending, servers, running, should_exit,
                   manual_restarted, changes, missed>>

(* reset_online; a manual restart goes on after 33 ms, anything else after *)
(* the rest of the timeout.  Both sleeps end.                              *)
After ==
    /\ loop = "after"
    /\ loop' = IF manual_restarted THEN "nap" ELSE "sleep"
    /\ UNCHANGED <<config, stop, pending, servers, running, should_exit,
                   manual_restarted, changes, missed>>

Wake ==
    /\ loop \in {"nap", "sleep"}
    /\ loop' = "top"
    /\ UNCHANGED <<config, stop, pending, servers, running, should_exit,
                   manual_restarted, changes, missed>>

(* Mutant: the task that ends does not tell the others.                    *)
EndTaskAlone(h) ==
    /\ h \in running
    /\ running' = running \ {h}
    /\ UNCHANGED <<config, stop, pending, loop, servers, should_exit, manual_restarted,
                   changes, missed>>

(* A task ends: "once one exits, the others also exit".                    *)
EndTask(h) ==
    /\ h \in running
    /\ running' = running \ {h}
    /\ should_exit' = TRUE
    /\ UNCHANGED <<config, stop, pending, loop, servers, manual_restarted, changes,
                   missed>>

TaskFails(h) == EndTask(h)

(* The timer of the task finds SHOULD_EXIT.                                *)
TaskExits(h) == should_exit /\ EndTask(h)

-----------------------------------------------------------------------------
(* A writer of the configuration.                                          *)
Store(w) ==
    /\ w \notin pending
    /\ changes < MaxChanges
    /\ changes' = changes + 1
    /\ \/ config' \in Configs \ {config} /\ UNCHANGED stop
       \/ stop' = ~stop /\ UNCHANGED config
    /\ pending' = pending \cup {w}
    /\ UNCHANGED <<loop, servers, running, should_exit, manual_restarted, missed>>

(* The last writer to call restart() does so when the loop has already     *)
(* read what it changed and has not cleared SHOULD_EXIT yet.               *)
Overlooked(w) ==
    /\ pending = {w}
    /\ \/ loop \in {"read", "clear"} /\ stop
       \/ loop = "clear" /\ servers # config

(* Mutant: only the kind of sleep is changed.                              *)
RestartManualOnly(w) ==
    /\ w \in pending
    /\ pending' = pending \ {w}
    /\ manual_restarted' = TRUE
    /\ missed' = (missed \/ Overlooked(w))
    /\ UNCHANGED <<config, stop, loop, servers, running, should_exit, changes>>

(* restart()                                                               *)
Restart(w) ==
    /\ w \in pending
    /\ pending' = pending \ {w}
    /\ should_exit' = TRUE
    /\ manual_restarted' = TRUE
    /\ missed' = (missed \/ Overlooked(w))
    /\ UNCHANGED <<config, stop, loop, servers, running, changes>>

Loop == Top \/ ReadServers \/ ClearExit \/ Spawn \/ Join \/ After \/ Wake

MediatorNext ==
    \/ Loop
    \/ \E h \in Host : TaskFails(h) \/ TaskExits(h)
    \/ \E w \in Writer : Store(w) \/ Restart(w)

MediatorSpec == MediatorInit /\ [][MediatorNext]_mediatorVars

-----------------------------------------------------------------------------
MediatorTypeOK ==
    /\ config \in Configs
    /\ stop \in BOOLEAN
    /\ pending \in SUBSET Writer
    /\ loop \in {"top", "read", "clear", "spawn", "join", "after", "nap", "sleep"}
    /\ servers \in SUBSET Host
    /\ running \in SUBSET Host
    /\ should_exit \in BOOLEAN
    /\ manual_restarted \in BOOLEAN
    /\ changes \in 0..MaxChanges
    /\ missed \in BOOLEAN

(* Tasks of two rounds never run together: a round's tasks are gone before *)
(* the next round reads its servers.                                       *)
OneRound == running \subseteq servers /\ (running # {} => loop = "join")

(* While the loop waits with nothing telling its tasks to end, they serve  *)
(* the configuration as it is: no change of the servers and no stop of the *)
(* service is overlooked.  Excepted is the restart() that falls between    *)
(* the read of the configuration and SHOULD_EXIT.store(false).             *)
RestartNotLost ==
    loop \in {"spawn", "join"} /\ pending = {} /\ ~should_exit /\ ~missed =>
        ~stop /\ servers = config

(* What makes it inductive: the same while the flags are still to clear.   *)
ReadsCurrent ==
    /\ loop = "read" /\ pending = {} /\ ~missed => ~stop
    /\ loop = "clear" /\ pending = {} /\ ~missed => ~stop /\ servers = config

MediatorInv == MediatorTypeOK /\ OneRound /\ RestartNotLost /\ ReadsCurrent

(* "once one exits, the others also exit": a round that lost a task ends.  *)
OneExitsAllExit == loop = "join" /\ running # servers ~> loop # "join"

(* A change of the configuration takes effect, unless it was overlooked.   *)
ChangeTakesEffect ==
    []<>(missed \/ IF stop THEN running = {} ELSE servers = config)
=============================================================================
