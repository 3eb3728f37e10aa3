------------------------- MODULE RegistrationProofs -------------------------
(***************************************************************************)
(* The invariant of the mediator's loop.  The registration tasks implement *)
(* the tasks of Mediator.tla, so that it holds of the whole, and they      *)
(* respect the interval of a device that waits for its deployment: for any *)
(* servers, writers, ids, responses, losses and duplicates.                *)
(***************************************************************************)
EXTENDS Registration, TLAPS

(* The loop of start_all keeps the invariant, step by step.                *)
LEMMA LoopKeepsInv ==
    ASSUME MediatorInv, Loop
    PROVE  MediatorInv'
  <1> USE DEF MediatorInv, MediatorTypeOK, OneRound, RestartNotLost, ReadsCurrent, Configs
  <1>1. CASE Top
    BY <1>1 DEF Top
  <1>2. CASE ReadServers
    BY <1>2 DEF ReadServers
  <1>3. CASE ClearExit
    BY <1>3 DEF ClearExit
  <1>4. CASE Spawn
    BY <1>4 DEF Spawn
  <1>5. CASE Join
    BY <1>5 DEF Join
  <1>6. CASE After
    BY <1>6 DEF After
  <1>7. CASE Wake
    BY <1>7 DEF Wake
  <1> QED
    BY <1>1, <1>2, <1>3, <1>4, <1>5, <1>6, <1>7 DEF Loop

(* The end of a task, failed or told to exit, only raises SHOULD_EXIT.     *)
LEMMA EndTaskKeepsInv ==
    ASSUME MediatorInv, NEW h \in Host, EndTask(h)
    PROVE  MediatorInv'
  BY DEF EndTask, MediatorInv, MediatorTypeOK, OneRound, RestartNotLost, ReadsCurrent,
         Configs

(* A stored value has its writer pending until restart() is called.        *)
LEMMA StoreKeepsInv ==
    ASSUME MediatorInv, NEW w \in Writer, Store(w)
    PROVE  MediatorInv'
  <1>1. config' \in Configs /\ stop' \in BOOLEAN
    BY DEF Store, MediatorInv, MediatorTypeOK
  <1>2. changes' \in 0..MaxChanges
    BY MediatorAssumption DEF Store, MediatorInv, MediatorTypeOK
  <1>3. pending' # {} /\ pending' \in SUBSET Writer
    BY DEF Store, MediatorInv, MediatorTypeOK
  <1>4. UNCHANGED <<loop, servers, running, should_exit, manual_restarted, missed>>
    BY DEF Store
  <1> QED
    BY <1>1, <1>2, <1>3, <1>4
    DEF MediatorInv, MediatorTypeOK, OneRound, RestartNotLost, ReadsCurrent

(* restart() raises SHOULD_EXIT; where the loop is about to clear it, what *)
(* the loop read is current or the restart is recorded as overlooked.      *)
LEMMA RestartKeepsInv ==
    ASSUME MediatorInv, NEW w \in Writer, Restart(w)
    PROVE  MediatorInv'
  <1>1. MediatorTypeOK' /\ OneRound' /\ RestartNotLost'
    BY DEF Restart, MediatorInv, MediatorTypeOK, OneRound, RestartNotLost, Overlooked
  <1>2. ReadsCurrent'
    <2> SUFFICES ASSUME pending' = {}, ~missed', loop' \in {"read", "clear"}
                 PROVE  ~stop' /\ (loop' = "clear" => servers' = config')
      BY DEF ReadsCurrent
    <2>1. pending = {w} /\ ~Overlooked(w)
      BY DEF Restart, MediatorInv, MediatorTypeOK
    <2> QED
      BY <2>1 DEF Restart, Overlooked, MediatorInv, MediatorTypeOK
  <1> QED
    BY <1>1, <1>2 DEF MediatorInv

(* Types, one round of tasks at a time, and no change of the servers or of *)
(* the option "stop-service" that the loop overlooks, except by a restart  *)
(* between its read of the configuration and the clearing of SHOULD_EXIT.  *)
THEOREM MediatorInvariance == MediatorSpec => []MediatorInv
  <1>1. MediatorInit => MediatorInv
    <2> SUFFICES ASSUME MediatorInit PROVE MediatorInv
      OBVIOUS
    <2>1. 0 \in 0..MaxChanges
      BY MediatorAssumption
    <2>2. MediatorTypeOK
      BY <2>1 DEF MediatorInit, MediatorTypeOK
    <2>3. OneRound /\ RestartNotLost /\ ReadsCurrent
      BY DEF MediatorInit, OneRound, RestartNotLost, ReadsCurrent
    <2> QED
      BY <2>2, <2>3 DEF MediatorInv
  <1>2. MediatorInv /\ [MediatorNext]_mediatorVars => MediatorInv'
    <2> SUFFICES ASSUME MediatorInv, [MediatorNext]_mediatorVars
                 PROVE  MediatorInv'
      OBVIOUS
    <2>1. CASE Loop
      BY <2>1, LoopKeepsInv
    <2>2. CASE \E h \in Host : TaskFails(h) \/ TaskExits(h)
      BY <2>2, EndTaskKeepsInv DEF TaskFails, TaskExits
    <2>3. CASE \E w \in Writer : Store(w) \/ Restart(w)
      BY <2>3, StoreKeepsInv, RestartKeepsInv
    <2>4. CASE UNCHANGED mediatorVars
      BY <2>4 DEF mediatorVars, MediatorInv, MediatorTypeOK, OneRound, RestartNotLost,
                  ReadsCurrent
    <2> QED
      BY <2>1, <2>2, <2>3, <2>4 DEF MediatorNext
  <1> QED
    BY <1>1, <1>2, PTL DEF MediatorSpec

(* The tasks that run are those of the servers last read, in one round.    *)
COROLLARY TasksOfOneRound == MediatorSpec => []OneRound
  <1>1. MediatorInv => OneRound
    BY DEF MediatorInv
  <1> QED
    BY <1>1, MediatorInvariance, PTL

-----------------------------------------------------------------------------

(* Every step of the tasks is a step of the loop as Mediator sees it, or   *)
(* leaves the loop alone.                                                  *)
THEOREM RegistrationRefinesMediator == RegistrationSpec => ImplementsMediator
  <1>1. RegistrationInit => MediatorInit
    BY DEF RegistrationInit
  <1>2. [RegistrationNext]_vars => [MediatorNext]_mediatorVars
    <2> SUFFICES ASSUME [RegistrationNext]_vars
                 PROVE  [MediatorNext]_mediatorVars
      OBVIOUS
    <2>1. CASE LoopStep
      BY <2>1 DEF LoopStep, MediatorNext
    <2>2. CASE Configure
      BY <2>2 DEF Configure, MediatorNext
    <2>3. CASE RetryInterval \/ Administer
      BY <2>3 DEF RetryInterval, Administer
    <2>4. ASSUME NEW h \in Host, Fails(h) \/ TickExits(h)
          PROVE  MediatorNext
      BY <2>4 DEF Fails, TickExits, MediatorNext
    <2>5. ASSUME NEW h \in Host, Tick(h) \/ SendPk(h) \/ Late(h) \/ Ages(h)
          PROVE  UNCHANGED mediatorVars
      BY <2>5 DEF Tick, SendPk, Late, Ages
    <2>6. ASSUME NEW m \in net, Deliver(m) \/ DeliverDup(m) \/ Lose(m) \/ Answer(m)
          PROVE  UNCHANGED mediatorVars
      BY <2>6 DEF Deliver, DeliverDup, HandleResp, Lose, Answer
    <2>7. CASE UNCHANGED vars
      BY <2>7 DEF vars
    <2> QED
      BY <2>1, <2>2, <2>3, <2>4, <2>5, <2>6, <2>7 DEF RegistrationNext
  <1> QED
    BY <1>1, <1>2, PTL DEF RegistrationSpec, ImplementsMediator, MediatorSpec

(* What Mediator.tla promises holds of the tasks of this module.           *)
COROLLARY RegistrationKeepsMediatorInv == RegistrationSpec => []MediatorInv
  BY RegistrationRefinesMediator, MediatorInvariance, PTL DEF ImplementsMediator

-----------------------------------------------------------------------------
(* Inductive form of OnePkPerInterval: the one RegisterPk of the interval  *)
(* is the one that LAST_NOT_DEPLOYED_REGISTER remembers.                   *)
WindowInv ==
    /\ needs_deploy \in BOOLEAN
    /\ act \in [Host -> {"none", "throttle", "clear"}]
    /\ needs_deploy /\ ~forgot => window = 0 \/ (window = 1 /\ last_try = "recent")

(* register_pk under the lock of the last attempt: what it read of         *)
(* NEEDS_DEPLOY may be stale, and then the attempt is marked as forgotten. *)
LEMMA SendPkKeepsWindow ==
    ASSUME WindowInv, NEW h \in Host, SendPk(h)
    PROVE  WindowInv'
  <1>1. needs_deploy' = needs_deploy /\ act' \in [Host -> {"none", "throttle", "clear"}]
    BY DEF SendPk, WindowInv
  <1>2. CASE act[h] = "throttle" /\ last_try = "recent"
    BY <1>1, <1>2 DEF SendPk, WindowInv, books
  <1>3. CASE ~(act[h] = "throttle" /\ last_try = "recent") /\ needs_deploy /\ ~forgot'
    <2>1. act[h] # "clear" /\ ~forgot
      BY <1>3 DEF SendPk
    <2>2. act[h] = "throttle"
      BY <2>1 DEF SendPk, WindowInv
    <2>3. window = 0
      BY <1>3, <2>1, <2>2 DEF WindowInv
    <2>4. last_try' = "recent" /\ window' = 1
      BY <1>3, <2>2, <2>3 DEF SendPk
    <2> QED
      BY <1>1, <1>3, <2>4 DEF WindowInv
  <1>4. CASE ~needs_deploy \/ forgot'
    BY <1>1, <1>4 DEF WindowInv
  <1> QED
    BY <1>2, <1>3, <1>4

(* A response, late or duplicated, opens no second request in an interval. *)
LEMMA HandleRespKeepsWindow ==
    ASSUME WindowInv, NEW m \in net \cap Response, NEW rest, HandleResp(m, rest)
    PROVE  WindowInv'
  <1>1. CASE UNCHANGED <<needs_deploy, last_try, act, window, forgot>>
    BY <1>1 DEF WindowInv
  <1>2. CASE RegisterPk(m.host, rest) /\ UNCHANGED <<needs_deploy, last_try, window, forgot>>
    BY <1>2 DEF RegisterPk, WindowInv
  <1>3. CASE Confirmed(m.host, rest)
    BY <1>3 DEF Confirmed, WindowInv
  <1>4. CASE UuidMismatch(m.host, rest)
    BY <1>1, <1>2, <1>4 DEF UuidMismatch, sharedVars, books
  <1>5. CASE NotDeployed(m.host, rest)
    <2>1. CASE needs_deploy
      BY <1>5, <2>1 DEF NotDeployed, WindowInv
    <2>2. CASE ~needs_deploy
      BY <1>5, <2>2 DEF NotDeployed, WindowInv
    <2> QED
      BY <2>1, <2>2
  <1> QED
    BY <1>1, <1>2, <1>3, <1>4, <1>5 DEF HandleResp, sharedVars, books

(* While the device waits for its deployment, the tasks of all servers     *)
(* together send at most one RegisterPk per DEPLOY_RETRY_INTERVAL.         *)
THEOREM OnePkPerIntervalHolds == RegistrationSpec => []OnePkPerInterval
  <1>1. RegistrationInit => WindowInv
    BY DEF RegistrationInit, WindowInv
  <1>2. WindowInv /\ [RegistrationNext]_vars => WindowInv'
    <2> SUFFICES ASSUME WindowInv, [RegistrationNext]_vars
                 PROVE  WindowInv'
      OBVIOUS
    <2>1. CASE UNCHANGED <<needs_deploy, last_try, act, window, forgot>>
      BY <2>1 DEF WindowInv
    <2>2. CASE LoopStep \/ Configure \/ Administer
      BY <2>1, <2>2 DEF LoopStep, Configure, Administer, sharedVars, localVars, books
    <2>3. CASE RetryInterval
      BY <2>3 DEF RetryInterval, WindowInv, localVars
    <2>4. ASSUME NEW h \in Host, Tick(h)
          PROVE  WindowInv'
      <3>1. UNCHANGED <<needs_deploy, last_try, window, forgot>>
        BY <2>4 DEF Tick, sharedVars, books
      <3>2. act' = act \/ RegisterPk(h, net)
        BY <2>4 DEF Tick, RegisterPeer
      <3> QED
        BY <3>1, <3>2 DEF RegisterPk, WindowInv
    <2>5. ASSUME NEW h \in Host, Fails(h)
          PROVE  WindowInv'
      BY <2>5 DEF Fails, sharedVars, books, WindowInv
    <2>6. ASSUME NEW h \in Host, TickExits(h) \/ Late(h) \/ Ages(h)
          PROVE  WindowInv'
      BY <2>1, <2>6 DEF TickExits, Late, Ages, sharedVars, localVars, books
    <2>7. ASSUME NEW m \in net, Deliver(m) \/ DeliverDup(m)
          PROVE  WindowInv'
      BY <2>7, HandleRespKeepsWindow DEF Deliver, DeliverDup
    <2>8. ASSUME NEW m \in net, Lose(m) \/ Answer(m)
          PROVE  WindowInv'
      BY <2>1, <2>8 DEF Lose, Answer, sharedVars, localVars, books
    <2>9. CASE UNCHANGED vars
      BY <2>1, <2>9 DEF vars, sharedVars, localVars, books
    <2> QED
      BY <2>2, <2>3, <2>4, <2>5, <2>6, <2>7, <2>8, <2>9, SendPkKeepsWindow
         DEF RegistrationNext
  <1>3. WindowInv => OnePkPerInterval
    BY DEF WindowInv, OnePkPerInterval
  <1> QED
    BY <1>1, <1>2, <1>3, PTL DEF RegistrationSpec

-----------------------------------------------------------------------------
(* A datagram more in flight, or none if there are too many.               *)
LEMMA PutType ==
    ASSUME net \in SUBSET (Request \cup Response), NEW m \in Request
    PROVE  Put(net, m) \in SUBSET (Request \cup Response)
  BY DEF Put

(* register_pk leaves its mark and the datagrams given to it.              *)
LEMMA RegisterPkType ==
    ASSUME NEW h \in Host, NEW rest \in SUBSET (Request \cup Response),
           act \in [Host -> {"none", "throttle", "clear"}], RegisterPk(h, rest)
    PROVE  /\ act' \in [Host -> {"none", "throttle", "clear"}]
           /\ net' \in SUBSET (Request \cup Response)
  BY DEF RegisterPk

(* A response of any kind, whatever is left in flight with it, leaves      *)
(* ids, confirmations and the network what they should be.                 *)
LEMMA HandleRespType ==
    ASSUME TasksTypeOK, NEW m \in Response, NEW rest \in SUBSET (Request \cup Response),
           HandleResp(m, rest)
    PROVE  TasksTypeOK'
  <1> USE DEF sharedVars, serverSide, books
  <1>1. m.host \in Host
    BY DEF Response
  <1>2. /\ sent' \in [Host -> {"none", "waiting", "late"}] /\ fresh' \in SUBSET Host
        /\ registered' = registered /\ deployed' = deployed
    BY <1>1 DEF HandleResp, TasksTypeOK
  <1>3. CASE net' = rest /\ UNCHANGED <<sharedVars, act, books>>
    BY <1>2, <1>3 DEF TasksTypeOK
  <1>4. CASE RegisterPk(m.host, rest) /\ UNCHANGED <<sharedVars, books>>
    BY <1>1, <1>2, <1>4, RegisterPkType DEF TasksTypeOK
  <1>5. CASE Confirmed(m.host, rest)
    BY <1>1, <1>2, <1>5 DEF TasksTypeOK, Confirmed
  <1>6. CASE UuidMismatch(m.host, rest)
    <2>1. CASE /\ id < MaxId /\ key_confirmed' = FALSE /\ id' = id + 1 /\ solving' = {m.host}
               /\ RegisterPk(m.host, rest)
               /\ UNCHANGED <<host_key_confirmed, needs_deploy, last_try, books>>
      <3>1. id' \in 1..MaxId
        BY <2>1, RegistrationAssumption DEF TasksTypeOK
      <3> QED
        BY <1>1, <1>2, <2>1, <3>1, RegisterPkType DEF TasksTypeOK
    <2> QED
      BY <1>3, <1>6, <2>1 DEF UuidMismatch
  <1>7. CASE NotDeployed(m.host, rest)
    <2>1. window' \in Nat /\ forgot' \in BOOLEAN
      BY <1>7 DEF NotDeployed, TasksTypeOK
    <2> QED
      BY <1>1, <1>2, <1>7, <2>1 DEF TasksTypeOK, NotDeployed
  <1> QED
    BY <1>3, <1>4, <1>5, <1>6, <1>7 DEF HandleResp

(* Types are kept: an id stays within its bound, at most one server solves *)
(* a mismatch, and what is in flight is a request or a response.           *)
THEOREM RegistrationTypeCorrect == RegistrationSpec => []RegistrationTypeOK
  <1>1. RegistrationInit => TasksTypeOK
    <2> SUFFICES ASSUME RegistrationInit
                 PROVE  TasksTypeOK
      OBVIOUS
    <2>1. id \in 1..MaxId /\ registered \in [Host -> 0..MaxId] /\ window \in Nat
      BY RegistrationAssumption DEF RegistrationInit
    <2>2. /\ sent \in [Host -> {"none", "waiting", "late"}]
          /\ act \in [Host -> {"none", "throttle", "clear"}]
      BY DEF RegistrationInit
    <2> QED
      BY <2>1, <2>2 DEF RegistrationInit, TasksTypeOK
  <1>2. TasksTypeOK /\ [RegistrationNext]_vars => TasksTypeOK'
    <2> SUFFICES ASSUME TasksTypeOK, [RegistrationNext]_vars
                 PROVE  TasksTypeOK'
      OBVIOUS
    <2> USE DEF sharedVars, localVars, serverSide, books
    <2>1. CASE LoopStep
      BY <2>1 DEF LoopStep, TasksTypeOK
    <2>2. CASE UNCHANGED <<sharedVars, localVars, net, serverSide, books>>
      BY <2>2 DEF TasksTypeOK
    <2>3. CASE Configure \/ \E h \in Host : TickExits(h)
      BY <2>2, <2>3 DEF Configure, TickExits
    <2>4. CASE RetryInterval
      BY <2>4 DEF RetryInterval, TasksTypeOK
    <2>5. CASE Administer
      BY <2>5, RegistrationAssumption DEF Administer, TasksTypeOK
    <2>6. ASSUME NEW h \in Host, Fails(h) \/ Late(h) \/ Ages(h)
          PROVE  TasksTypeOK'
      BY <2>6 DEF Fails, Late, Ages, TasksTypeOK
    <2>7. ASSUME NEW h \in Host, Tick(h)
          PROVE  TasksTypeOK'
      <3>1. [host |-> h, kind |-> "RegisterPeer", id |-> id] \in Request
        BY DEF Request, TasksTypeOK
      <3>2. /\ act' \in [Host -> {"none", "throttle", "clear"}]
            /\ net' \in SUBSET (Request \cup Response)
        <4>1. CASE UNCHANGED <<act, net>>
          BY <4>1 DEF TasksTypeOK
        <4>2. CASE RegisterPk(h, net)
          BY <4>2, RegisterPkType DEF TasksTypeOK
        <4>3. CASE /\ net' = Put(net, [host |-> h, kind |-> "RegisterPeer", id |-> id])
                   /\ UNCHANGED act
          <5>1. Put(net, [host |-> h, kind |-> "RegisterPeer", id |-> id])
                  \in SUBSET (Request \cup Response)
            BY <3>1, PutType DEF TasksTypeOK
          <5> QED
            BY <4>3, <5>1 DEF TasksTypeOK
        <4> QED
          BY <2>7, <4>1, <4>2, <4>3 DEF Tick, RegisterPeer
      <3> QED
        BY <2>7, <3>2 DEF Tick, TasksTypeOK
    <2>8. ASSUME NEW h \in Host, SendPk(h)
          PROVE  TasksTypeOK'
      <3>1. [host |-> h, kind |-> "RegisterPk", id |-> id] \in Request
        BY DEF Request, TasksTypeOK
      <3>2. net' \in SUBSET (Request \cup Response)
        <4>1. Put(net, [host |-> h, kind |-> "RegisterPk", id |-> id])
                \in SUBSET (Request \cup Response)
          BY <3>1, PutType DEF TasksTypeOK
        <4> QED
          BY <2>8, <4>1 DEF SendPk, TasksTypeOK
      <3>3. /\ window' \in Nat /\ forgot' \in BOOLEAN
            /\ last_try' \in {"none", "recent", "old"}
        BY <2>8 DEF SendPk, TasksTypeOK
      <3> QED
        BY <2>8, <3>2, <3>3 DEF SendPk, TasksTypeOK
    <2>9. ASSUME NEW m \in net, Deliver(m) \/ DeliverDup(m)
          PROVE  TasksTypeOK'
      <3>1. m \in Response /\ net \in SUBSET (Request \cup Response)
        BY <2>9 DEF Deliver, DeliverDup, TasksTypeOK
      <3>2. net \ {m} \in SUBSET (Request \cup Response)
        BY <3>1
      <3> QED
        BY <2>9, <3>1, <3>2, HandleRespType DEF Deliver, DeliverDup
    <2>10. ASSUME NEW m \in net, Lose(m)
           PROVE  TasksTypeOK'
      BY <2>10 DEF Lose, TasksTypeOK
    <2>11. ASSUME NEW m \in net, Answer(m)
           PROVE  TasksTypeOK'
      <3>1. m \in Request
        BY <2>11 DEF Answer
      <3>2. m.host \in Host /\ m.id \in 1..MaxId
        BY <3>1 DEF Request
      <3>3. Verdict(m) \in Result
        BY DEF Verdict, Result
      <3>4. net' \in SUBSET (Request \cup Response)
        BY <2>11, <3>2, <3>3 DEF Answer, Response, TasksTypeOK
      <3>5. registered' \in [Host -> 0..MaxId]
        BY <2>11, <3>2, RegistrationAssumption DEF Answer, TasksTypeOK
      <3> QED
        BY <2>11, <3>4, <3>5 DEF Answer, TasksTypeOK
    <2>12. CASE UNCHANGED vars
      BY <2>2, <2>12 DEF vars
    <2> QED
      BY <2>1, <2>3, <2>4, <2>5, <2>6, <2>7, <2>8, <2>9, <2>10, <2>11, <2>12
         DEF RegistrationNext
  <1>3. RegistrationSpec => []TasksTypeOK
    BY <1>1, <1>2, PTL DEF RegistrationSpec
  <1>4. MediatorInv => MediatorTypeOK
    BY DEF MediatorInv
  <1> QED
    BY <1>3, <1>4, RegistrationKeepsMediatorInv, PTL DEF RegistrationTypeOK
=============================================================================
