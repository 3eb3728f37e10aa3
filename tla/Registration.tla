---------------------------- MODULE Registration ----------------------------
(***************************************************************************)
(* The task of one rendezvous server over UDP (start_udp, handle_resp,     *)
(* register_peer, register_pk and handle_uuid_mismatch of                  *)
(* rendezvous_mediator.rs), as the tasks of Mediator.tla.                  *)
(*                                                                         *)
(* The tasks share the id of the device, the confirmation of its key, the  *)
(* name of the server a mismatch is being solved with, and the state of a  *)
(* device that waits for its deployment.  Datagrams are lost, duplicated   *)
(* and reordered; a response says nothing of the request it answers, so it *)
(* is applied to whatever the id is by then.                               *)
(*                                                                         *)
(* Time is reduced to what the code compares it with: a request is late or *)
(* not, a response old or not, the last attempt of a device that is not    *)
(* deployed recent or not.  The counter `fails`, which is only shown as a  *)
(* latency and rebinds the socket, is left to the loss of datagrams.       *)
(***************************************************************************)
EXTENDS Mediator

CONSTANTS
    MaxId,       \* bound on the ids update_id makes up
    Taken,       \* Taken[h]: ids that belong to other devices at h
    MaxNet,      \* bound on datagrams in flight, per server
    MaxDups,     \* bound on duplicated datagrams
    MaxLosses,   \* bound on datagrams lost on the way
    MaxFailures, \* bound on tasks that fail
    MaxAdmin     \* bound on deployments and deletions

ASSUME RegistrationAssumption ==
    /\ MaxId \in Nat \ {0}
    /\ Taken \in [Host -> SUBSET (1..MaxId)]
    /\ {MaxNet, MaxDups, MaxLosses, MaxFailures, MaxAdmin} \subseteq Nat

VARIABLES
    id,                  \* Config::get_id()
    key_confirmed,       \* Config::get_key_confirmed()
    host_key_confirmed,  \* hosts with get_host_key_confirmed()
    solving,             \* SOLVING_PK_MISMATCH: {} or {the host}
    needs_deploy,        \* NEEDS_DEPLOY
    last_try,            \* LAST_NOT_DEPLOYED_REGISTER: "none", "recent" or "old"
    sent,                \* last_register_sent of a task: "none", "waiting" or "late"
    fresh,               \* hosts whose last_register_resp is within REG_INTERVAL
    act,                 \* register_pk of a task, once it has read NEEDS_DEPLOY: to
                         \* "throttle", to "clear" the last attempt, or "none"
    net,                 \* datagrams in flight
    registered,          \* external: the id of this device at each server, 0 for none
    deployed,            \* external: the servers accept this device
    dups, losses,        \* duplicated and lost datagrams so far
    failures, admin,     \* failed tasks, operations of an administrator so far
    window,              \* bookkeeping: RegisterPk sent while needs_deploy, since
                         \* the last of them stopped being recent
    forgot               \* bookkeeping: the last attempt was cleared in that time

localVars == <<sent, fresh, act>>
books == <<window, forgot>>
sharedVars == <<id, key_confirmed, host_key_confirmed, solving, needs_deploy, last_try>>
serverSide == <<registered, deployed>>
bounds == <<dups, losses, failures, admin>>
vars == <<mediatorVars, sharedVars, localVars, net, serverSide, bounds, books>>

(* A request carries the id; a response carries its result.                *)
Request == [host : Host, kind : {"RegisterPeer", "RegisterPk"}, id : 1..MaxId]
Result == {"ok", "request_pk", "OK", "UUID_MISMATCH", "NOT_DEPLOYED"}
Response == [host : Host, result : Result]

RegistrationInit ==
    /\ MediatorInit
    /\ id = 1
    /\ key_confirmed = FALSE
    /\ host_key_confirmed = {}
    /\ solving = {}
    /\ needs_deploy = FALSE
    /\ last_try = "none"
    /\ sent = [h \in Host |-> "none"]
    /\ fresh = {}
    /\ act = [h \in Host |-> "none"]
    /\ net = {}
    /\ registered = [h \in Host |-> 0]
    /\ deployed \in BOOLEAN
    /\ dups = 0 /\ losses = 0 /\ failures = 0 /\ admin = 0
    /\ window = 0 /\ forgot = FALSE

-----------------------------------------------------------------------------
(* start_all: a round starts with no mismatch being solved and with fresh  *)
(* locals in every task.                                                   *)
LoopStep ==
    /\ Loop
    /\ solving' = IF loop = "top" THEN {} ELSE solving
    /\ IF loop = "spawn" THEN sent' = [h \in Host |-> "none"] /\ fresh' = {} /\ UNCHANGED act
       ELSE UNCHANGED localVars
    /\ UNCHANGED <<id, key_confirmed, host_key_confirmed, needs_deploy, last_try, net,
                   serverSide, bounds, books>>

Configure ==
    /\ \E w \in Writer : Store(w) \/ Restart(w)
    /\ UNCHANGED <<sharedVars, localVars, net, serverSide, bounds, books>>

(* Mutant: the others are not told.                                        *)
FailsAlone(h) ==
    /\ failures < MaxFailures
    /\ failures' = failures + 1
    /\ h \in running
    /\ running' = running \ {h}
    /\ act' = [act EXCEPT ![h] = "none"]
    /\ UNCHANGED <<config, stop, pending, loop, servers, should_exit, manual_restarted,
                   changes, missed, sharedVars, sent, fresh, net, serverSide, dups, losses,
                   admin, books>>

(* A socket error, or a name that is not resolved.                         *)
Fails(h) ==
    /\ failures < MaxFailures
    /\ failures' = failures + 1
    /\ TaskFails(h)
    /\ act' = [act EXCEPT ![h] = "none"]
    /\ UNCHANGED <<sharedVars, sent, fresh, net, serverSide, dups, losses, admin, books>>

(* deploy_register_throttled                                               *)
Throttled == needs_deploy /\ last_try = "recent"

(* A datagram joins the ones in `rest`; one too many is lost at once.      *)
Put(rest, m) ==
    IF Cardinality({x \in rest : x.host = m.host}) < MaxNet THEN rest \cup {m} ELSE rest

(* register_pk, with `rest` in flight: NEEDS_DEPLOY is read, and the last  *)
(* attempt locked afterwards, while other tasks go on.                     *)
RegisterPk(h, rest) ==
    /\ act' = [act EXCEPT ![h] = IF needs_deploy THEN "throttle" ELSE "clear"]
    /\ net' = rest

(* Mutant: the time of the attempt is not remembered.                      *)
SendPkForgets(h) ==
    /\ act[h] # "none"
    /\ act' = [act EXCEPT ![h] = "none"]
    /\ IF act[h] = "throttle" /\ last_try = "recent"
       THEN UNCHANGED <<last_try, net, books>>
       ELSE /\ last_try' = IF act[h] = "throttle" THEN last_try ELSE "none"
            /\ net' = Put(net, [host |-> h, kind |-> "RegisterPk", id |-> id])
            /\ window' = IF needs_deploy THEN window + 1 ELSE 0
            /\ forgot' = (forgot \/ (needs_deploy /\ act[h] = "clear"))
    /\ UNCHANGED <<mediatorVars, id, key_confirmed, host_key_confirmed, solving,
                   needs_deploy, sent, fresh, serverSide, bounds>>

(* ... the rest of register_pk: nothing within DEPLOY_RETRY_INTERVAL of    *)
(* the last attempt of a device that waits for its deployment.             *)
SendPk(h) ==
    /\ act[h] # "none"
    /\ act' = [act EXCEPT ![h] = "none"]
    /\ IF act[h] = "throttle" /\ last_try = "recent"
       THEN UNCHANGED <<last_try, net, books>>
       ELSE /\ last_try' = IF act[h] = "throttle" THEN "recent" ELSE "none"
            /\ net' = Put(net, [host |-> h, kind |-> "RegisterPk", id |-> id])
            /\ window' = IF needs_deploy THEN window + 1 ELSE 0
            /\ forgot' = (forgot \/ (needs_deploy /\ act[h] = "clear"))
    /\ UNCHANGED <<mediatorVars, id, key_confirmed, host_key_confirmed, solving,
                   needs_deploy, sent, fresh, serverSide, bounds>>

(* register_peer: nothing while another server's mismatch is being solved, *)
(* the key unless both confirmations are there, else the id.               *)
RegisterPeer(h) ==
    \/ /\ ~(solving \subseteq {h})
       /\ UNCHANGED <<act, net>>
    \/ /\ solving \subseteq {h}
       /\ ~key_confirmed \/ h \notin host_key_confirmed
       /\ RegisterPk(h, net)
    \/ /\ solving \subseteq {h}
       /\ key_confirmed /\ h \in host_key_confirmed
       /\ net' = Put(net, [host |-> h, kind |-> "RegisterPeer", id |-> id])
       /\ UNCHANGED act

(* A tick of the timer that finds the registration due.  A request that    *)
(* was not sent because of `solving` is waited for like any other.         *)
Tick(h) ==
    /\ h \in running
    /\ act[h] = "none"
    /\ ~should_exit
    /\ ~Throttled
    /\ sent[h] = "late" \/ (sent[h] = "none" /\ h \notin fresh)
    /\ RegisterPeer(h)
    /\ sent' = [sent EXCEPT ![h] = "waiting"]
    /\ UNCHANGED <<mediatorVars, sharedVars, fresh, serverSide, bounds, books>>

TickExits(h) ==
    /\ act[h] = "none"
    /\ TaskExits(h)
    /\ UNCHANGED <<sharedVars, localVars, net, serverSide, bounds, books>>

(* reg_timeout and REG_INTERVAL pass; DEPLOY_RETRY_INTERVAL passes.        *)
Late(h) ==
    /\ sent[h] = "waiting"
    /\ sent' = [sent EXCEPT ![h] = "late"]
    /\ UNCHANGED <<mediatorVars, sharedVars, fresh, act, net, serverSide, bounds, books>>

Ages(h) ==
    /\ h \in fresh
    /\ fresh' = fresh \ {h}
    /\ UNCHANGED <<mediatorVars, sharedVars, sent, act, net, serverSide, bounds, books>>

RetryInterval ==
    /\ last_try = "recent"
    /\ last_try' = "old"
    /\ window' = 0 /\ forgot' = FALSE
    /\ UNCHANGED <<mediatorVars, id, key_confirmed, host_key_confirmed, solving,
                   needs_deploy, localVars, net, serverSide, bounds>>

-----------------------------------------------------------------------------
(* handle_resp.  `rest` is the network without the datagram, or with it    *)
(* when it is duplicated.                                                  *)

(* Mutant: the refusal leaves the confirmation in place.                   *)
NotDeployedKeeps(h, rest) ==
    /\ needs_deploy' = TRUE
    /\ window' = IF needs_deploy THEN window ELSE 0
    /\ forgot' = (needs_deploy /\ forgot)
    /\ net' = rest
    /\ UNCHANGED <<id, key_confirmed, host_key_confirmed, solving, last_try, act>>

NotDeployed(h, rest) ==
    /\ needs_deploy' = TRUE
    /\ key_confirmed' = FALSE
    /\ host_key_confirmed' = host_key_confirmed \ {h}
    /\ window' = IF needs_deploy THEN window ELSE 0
    /\ forgot' = (needs_deploy /\ forgot)
    /\ net' = rest
    /\ UNCHANGED <<id, solving, last_try, act>>

(* Mutant: the mismatch stays in the hands of the server that solved it.   *)
ConfirmedStillSolving(h, rest) ==
    /\ key_confirmed' = TRUE
    /\ host_key_confirmed' = host_key_confirmed \cup {h}
    /\ needs_deploy' = FALSE
    /\ net' = rest
    /\ UNCHANGED <<id, solving, last_try, act, books>>

Confirmed(h, rest) ==
    /\ key_confirmed' = TRUE
    /\ host_key_confirmed' = host_key_confirmed \cup {h}
    /\ solving' = {}
    /\ needs_deploy' = FALSE
    /\ net' = rest
    /\ UNCHANGED <<id, last_try, act, books>>

(* handle_uuid_mismatch: a new id, unless another server is at it.         *)
UuidMismatch(h, rest) ==
    \/ /\ solving \subseteq {h}
       /\ id < MaxId
       /\ key_confirmed' = FALSE
       /\ id' = id + 1
       /\ solving' = {h}
       /\ RegisterPk(h, rest)
       /\ UNCHANGED <<host_key_confirmed, needs_deploy, last_try, books>>
    \/ /\ ~(solving \subseteq {h}) \/ id = MaxId   \* the bound: no more new ids
       /\ net' = rest
       /\ UNCHANGED <<sharedVars, act, books>>

HandleResp(m, rest) ==
    /\ m.host \in running
    /\ act[m.host] = "none"
    /\ sent' = [sent EXCEPT ![m.host] = "none"]     \* update_latency
    /\ fresh' = fresh \cup {m.host}
    /\ \/ m.result = "ok" /\ net' = rest /\ UNCHANGED <<sharedVars, act, books>>
       \/ m.result = "request_pk" /\ RegisterPk(m.host, rest)
          /\ UNCHANGED <<sharedVars, books>>
       \/ m.result = "OK" /\ Confirmed(m.host, rest)
       \/ m.result = "UUID_MISMATCH" /\ UuidMismatch(m.host, rest)
       \/ m.result = "NOT_DEPLOYED" /\ NotDeployed(m.host, rest)
    /\ UNCHANGED <<mediatorVars, serverSide, losses, failures, admin>>

Deliver(m) ==
    /\ m \in net \cap Response
    /\ HandleResp(m, net \ {m})
    /\ UNCHANGED dups

DeliverDup(m) ==
    /\ m \in net \cap Response
    /\ dups < MaxDups
    /\ dups' = dups + 1
    /\ HandleResp(m, net)

Lose(m) ==
    /\ m \in net
    /\ losses < MaxLosses
    /\ losses' = losses + 1
    /\ net' = net \ {m}
    /\ UNCHANGED <<mediatorVars, sharedVars, localVars, serverSide, dups, failures, admin,
                   books>>

-----------------------------------------------------------------------------
(* The rendezvous server, external: it answers a request for an id.        *)
Verdict(m) ==
    IF m.kind = "RegisterPeer" THEN IF registered[m.host] = m.id THEN "ok" ELSE "request_pk"
    ELSE IF ~deployed THEN "NOT_DEPLOYED"
    ELSE IF m.id \in Taken[m.host] THEN "UUID_MISMATCH" ELSE "OK"

Answer(m) ==
    /\ m \in net \cap Request
    /\ net' = (net \ {m}) \cup {[host |-> m.host, result |-> Verdict(m)]}
    /\ registered' = IF Verdict(m) = "OK" THEN [registered EXCEPT ![m.host] = m.id]
                     ELSE registered
    /\ UNCHANGED <<mediatorVars, sharedVars, localVars, deployed, bounds, books>>

(* The operator deploys the device, an administrator deletes it.           *)
Administer ==
    /\ admin < MaxAdmin
    /\ admin' = admin + 1
    /\ deployed' = ~deployed
    /\ registered' = IF deployed THEN [h \in Host |-> 0] ELSE registered
    /\ UNCHANGED <<mediatorVars, sharedVars, localVars, net, dups, losses, failures, books>>

-----------------------------------------------------------------------------
RegistrationNext ==
    \/ LoopStep
    \/ Configure
    \/ RetryInterval
    \/ Administer
    \/ \E h \in Host : Fails(h) \/ Tick(h) \/ SendPk(h) \/ TickExits(h) \/ Late(h) \/ Ages(h)
    \/ \E m \in net : Deliver(m) \/ DeliverDup(m) \/ Lose(m) \/ Answer(m)

RegistrationSpec == RegistrationInit /\ [][RegistrationNext]_vars

(* Timers fire, and a datagram that is not lost arrives: select! takes it  *)
(* from the socket although the timer is ready again and again.            *)
RegistrationFairSpec ==
    /\ RegistrationSpec
    /\ WF_vars(LoopStep)
    /\ \A w \in Writer : WF_vars(Configure /\ Restart(w))
    /\ WF_vars(RetryInterval)
    /\ \A h \in Host : /\ WF_vars(Tick(h))
                       /\ WF_vars(SendPk(h))
                       /\ WF_vars(TickExits(h))
                       /\ WF_vars(Late(h))
                       /\ WF_vars(Ages(h))
                       /\ WF_vars(\E m \in net : m.host = h /\ Answer(m))
                       /\ SF_vars(\E m \in net : m.host = h /\ Deliver(m))

-----------------------------------------------------------------------------
(* The types of what the tasks share, keep and send.                       *)
TasksTypeOK ==
    /\ id \in 1..MaxId
    /\ key_confirmed \in BOOLEAN
    /\ host_key_confirmed \in SUBSET Host
    /\ solving = {} \/ \E h \in Host : solving = {h}
    /\ needs_deploy \in BOOLEAN
    /\ last_try \in {"none", "recent", "old"}
    /\ sent \in [Host -> {"none", "waiting", "late"}]
    /\ fresh \in SUBSET Host
    /\ act \in [Host -> {"none", "throttle", "clear"}]
    /\ net \in SUBSET (Request \cup Response)
    /\ registered \in [Host -> 0..MaxId]
    /\ deployed \in BOOLEAN
    /\ window \in Nat
    /\ forgot \in BOOLEAN

RegistrationTypeOK == MediatorTypeOK /\ TasksTypeOK

(* The tasks do to the loop only what Mediator lets them do.               *)
ImplementsMediator == MediatorSpec

(* "there is no point re-running the register path more often than         *)
(* DEPLOY_RETRY_INTERVAL": while the device waits for its deployment, all  *)
(* the tasks together send one RegisterPk per interval, in the timer and   *)
(* in answer to request_pk and UUID_MISMATCH.  Excepted is an interval in  *)
(* which a register_pk that had read NEEDS_DEPLOY before another task set  *)
(* it cleared the time of the last attempt.                                *)
OnePkPerInterval == needs_deploy /\ ~forgot => window <= 1

(* A deployed device ends up registered under its id at every server it    *)
(* talks to, whatever stale responses confirmed in between.                *)
Stabilizes ==
    <>[](deployed => \A h \in running : registered[h] = id)

(* "Covers the case where an online device was deleted by an admin while   *)
(* running": the confirmation of the key is withdrawn.                     *)
DeletionNoticed ==
    ~deployed /\ loop = "join" ~> deployed \/ ~key_confirmed \/ loop # "join"
=============================================================================
