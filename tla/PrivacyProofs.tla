---------------------------- MODULE PrivacyProofs ----------------------------
(***************************************************************************)
(* The invariants of privacy mode for every set of connections and any     *)
(* number of messages to the hook thread that fail.                        *)
(***************************************************************************)
EXTENDS PrivacyMode, TLAPS

(* What turning off, or taking over, may do to the mode: the part of the   *)
(* invariant that is about the mode alone.                                 *)
ModeOK ==
    /\ effect \in SUBSET Impl
    /\ hook \in {"none", "on", "exit"}
    /\ faults \in 0..MaxFaults
    /\ unhooked \in BOOLEAN /\ stray \in BOOLEAN /\ broken \in BOOLEAN
    /\ ScreenMatches
    /\ InputBlocked

(* turn_off_privacy(id), whoever calls it, leaves a mode that is off or as *)
(* it was; only the holder, or who names nobody, ends it.                  *)
LEMMA OffDoneOutcome ==
    ASSUME PrivacyIInv, NEW id, OffDone(id)
    PROVE  cur' = cur /\ conn_id' = None /\ MayTurnOff(id) /\ ModeOK'
  <1> USE DEF PrivacyIInv, PrivacyInv, PrivacyTypeOK, OffDone
  <1>1. hook' \in {"none", "exit"}
    BY DEF Unhooked
  <1>2. ~broken' => effect' = {}
    BY DEF ScreenMatches
  <1>3. effect' \in SUBSET Impl /\ faults' \in 0..MaxFaults
    OBVIOUS
  <1>4. unhooked' \in BOOLEAN /\ stray' \in BOOLEAN /\ broken' \in BOOLEAN
    BY Zenon
  <1> QED
    BY <1>1, <1>2, <1>3, <1>4 DEF ModeOK, ScreenMatches, InputBlocked

LEMMA OffFailsOutcome ==
    ASSUME PrivacyIInv, NEW id, OffFails(id)
    PROVE  cur' = cur /\ conn_id' = conn_id /\ stray' = stray /\ ModeOK'
  <1> USE DEF PrivacyIInv, PrivacyInv, PrivacyTypeOK, OffFails, mode, ghosts
  <1>1. faults' \in 0..MaxFaults
    BY PrivacyAssumption DEF Fault
  <1> QED
    BY <1>1 DEF ModeOK, ScreenMatches, InputBlocked

(* Another implementation takes over: the mode is off, and nothing is left *)
(* of it unless the hooks could not be removed.                            *)
LEMMA ReplaceOutcome ==
    ASSUME PrivacyIInv, NEW i \in Impl, Replace(i)
    PROVE  cur' = i /\ conn_id' = None /\ ModeOK'
  <1> USE DEF PrivacyIInv, PrivacyInv, PrivacyTypeOK, Replace
  <1>1. faults' \in 0..MaxFaults /\ effect' \in SUBSET Impl
    BY PrivacyAssumption DEF Fault
  <1>2. hook' \in {"none", "on", "exit"}
    BY DEF Unhooked
  <1>3. unhooked' \in BOOLEAN /\ stray' \in BOOLEAN /\ broken' \in BOOLEAN
    BY Zenon
  <1>4. ~broken' => effect' = {} /\ hook' # "on"
    BY DEF Unhooked, ScreenMatches
  <1> QED
    BY <1>1, <1>2, <1>3, <1>4 DEF ModeOK, ScreenMatches, InputBlocked

(* A step that leaves the mode alone.                                      *)
LEMMA ModeKept ==
    ASSUME PrivacyIInv, UNCHANGED <<mode, faults, ghosts>>
    PROVE  ModeOK' /\ cur' = cur /\ conn_id' = conn_id /\ stray' = stray
  BY DEF PrivacyIInv, PrivacyInv, PrivacyTypeOK, ModeOK, mode, ghosts,
         ScreenMatches, InputBlocked

(* The end of a job.                                                       *)
LEMMA ResultOutcome ==
    ASSUME PrivacyIInv, NEW c \in Conn, NEW label \in Labels \ {"wait"}, Result(c, label)
    PROVE  /\ job' \in [Conn -> Job]
           /\ task' \in [Conn -> Labels]
           /\ \A d \in Conn : job'[d].pc = "on" => d # c /\ job[d].pc = "on" /\ job'[d] = job[d]
           /\ \A d \in Conn \ {c} : task'[d] = task[d]
           /\ task'[c] = (IF task[c] = "wait" THEN label ELSE task[c])
  <1> USE DEF PrivacyIInv, PrivacyInv, PrivacyTypeOK, Result
  <1>1. job' \in [Conn -> Job]
    BY DEF Job
  <1>2. \A d \in Conn : d # c => job'[d] = job[d]
    OBVIOUS
  <1>3. job'[c].pc = "none"
    BY DEF Job
  <1>4. task' \in [Conn -> Labels]
    OBVIOUS
  <1> QED
    BY <1>1, <1>2, <1>3, <1>4

(* The steps of the job that has, or takes, the mutex keep the invariant.  *)
LEMMA JobKeepsInv ==
    ASSUME PrivacyIInv, NEW c \in Conn, JobStep(c)
    PROVE  PrivacyIInv'
  <1> USE DEF PrivacyIInv, PrivacyInv, PrivacyTypeOK
  <1>1. CASE AlreadyOn(c) \/ Occupied(c)
    <2>1. PICK l \in {"ok", "err"} : Result(c, l)
      BY <1>1 DEF AlreadyOn, Occupied
    <2>2. l \in Labels \ {"wait"} /\ l \notin {"new", "login", "drop", "reset", "closed"}
      BY DEF Labels
    <2>3. UNCHANGED <<mode, faults, ghosts>> /\ permit' = permit
      BY <1>1 DEF AlreadyOn, Occupied
    <2>4. ModeOK' /\ cur' = cur /\ conn_id' = conn_id /\ stray' = stray
      BY <2>3, ModeKept
    <2>5. HolderEntitled'
      BY <2>1, <2>2, <2>3, <2>4, ResultOutcome DEF HolderEntitled
    <2>6. MutexHeld' /\ WaitingPermitted'
      BY <2>1, <2>2, <2>3, <2>4, ResultOutcome DEF MutexHeld, WaitingPermitted
    <2> QED
      BY <2>1, <2>2, <2>3, <2>4, <2>5, <2>6, ResultOutcome DEF ModeOK
  <1>2. CASE Enter(c)
    <2> USE <1>2 DEF Enter
    <2>1. job[c].impl \in Impl /\ job[c].pc = "queued"
      BY DEF Job
    <2>2. job' \in [Conn -> Job]
      BY DEF Job
    <2>3. \A d \in Conn : job'[d].pc = "on" => d = c
      BY DEF Free
    <2>4. job'[c].impl = job[c].impl
      BY DEF Job
    <2>5. cur' = job[c].impl /\ conn_id' = None /\ ModeOK'
      <3>1. CASE cur = job[c].impl
        BY <3>1, ModeKept DEF mode
      <3>2. CASE cur # job[c].impl
        BY <2>1, <3>2, ReplaceOutcome
      <3> QED
        BY <3>1, <3>2
    <2>6. HolderEntitled' /\ MutexHeld' /\ WaitingPermitted'
      BY <2>3, <2>5 DEF HolderEntitled, MutexHeld, WaitingPermitted
    <2> QED
      BY <2>1, <2>2, <2>3, <2>4, <2>5, <2>6 DEF ModeOK
  <1>3. CASE TopmostOn(c) \/ VirtualOn(c)
    <2>1. job[c].pc = "on" /\ On(c) /\ cur' = cur /\ permit' = permit /\ faults' = faults /\ broken' = broken
      BY <1>3 DEF TopmostOn, VirtualOn
    <2>2. conn_id = None
      BY <2>1 DEF MutexHeld
    <2>3. "ok" \in Labels \ {"wait"}
      BY DEF Labels
    <2>4. conn_id' = c /\ effect' = effect \cup {cur} /\ Result(c, "ok")
      BY <2>1 DEF On
    <2>5. stray' \in BOOLEAN /\ (stray' = (task[c] # "wait"))
      BY <2>1 DEF On
    <2>6. hook' \in {"none", "on", "exit"} /\ (~unhooked' => hook' = "on") /\ unhooked' \in BOOLEAN
      <3>1. CASE TopmostOn(c)
        BY <3>1 DEF TopmostOn
      <3>2. CASE VirtualOn(c)
        BY <3>2 DEF VirtualOn
      <3> QED
        BY <1>3, <3>1, <3>2
    <2>7. ModeOK'
      <3>1. ScreenMatches' /\ InputBlocked'
        BY PrivacyAssumption, <2>1, <2>2, <2>4, <2>6 DEF ScreenMatches, InputBlocked
      <3>2. effect' \in SUBSET Impl /\ faults' \in 0..MaxFaults /\ broken' \in BOOLEAN
        BY <2>1, <2>4
      <3> QED
        BY <2>5, <2>6, <3>1, <3>2 DEF ModeOK
    <2>8. HolderEntitled'
      BY <2>1, <2>3, <2>4, <2>5, ResultOutcome DEF HolderEntitled, WaitingPermitted
    <2>9. MutexHeld'
      BY <2>1, <2>3, <2>4, ResultOutcome DEF MutexHeld
    <2>10. WaitingPermitted'
      BY <2>1, <2>3, <2>4, ResultOutcome DEF WaitingPermitted
    <2> QED
      BY <2>1, <2>3, <2>4, <2>7, <2>8, <2>9, <2>10, ResultOutcome DEF ModeOK
  <1>4. CASE TopmostFails(c) \/ TopmostMissing(c) \/ VirtualFails(c)
    <2>1. PICK l \in {"err", "idle"} : Result(c, l)
      BY <1>4 DEF TopmostFails, TopmostMissing, VirtualFails
    <2>2. l \in Labels \ {"wait"}
      BY DEF Labels
    <2>3. job[c].pc = "on" /\ cur' = cur /\ conn_id' = conn_id /\ permit' = permit
      BY <1>4 DEF TopmostFails, TopmostMissing, VirtualFails, mode
    <2>4. conn_id' = None
      BY <2>3 DEF MutexHeld
    <2>5. ModeOK'
      <3>1. CASE TopmostFails(c)
        BY <3>1, <2>3, <2>4 DEF TopmostFails, ModeOK, ScreenMatches, InputBlocked, ghosts
      <3>2. CASE TopmostMissing(c)
        BY <3>2, ModeKept DEF TopmostMissing
      <3>3. CASE VirtualFails(c)
        <4> USE <3>3 DEF VirtualFails
        <4>1. effect' \in SUBSET Impl /\ faults' \in 0..MaxFaults
          BY PrivacyAssumption DEF Fault, Impl
        <4>2. hook' \in {"none", "on", "exit"}
          BY DEF Unhooked
        <4>3. unhooked' \in BOOLEAN /\ stray' \in BOOLEAN /\ broken' \in BOOLEAN
          BY Zenon
        <4>4. ~broken' => effect' = {} /\ hook' # "on"
          BY <2>3, <2>4 DEF ScreenMatches, Unhooked
        <4> QED
          BY <2>4, <4>1, <4>2, <4>3, <4>4 DEF ModeOK, ScreenMatches, InputBlocked
      <3> QED
        BY <1>4, <3>1, <3>2, <3>3
    <2>6. HolderEntitled' /\ WaitingPermitted'
      BY <2>1, <2>2, <2>3, <2>4, ResultOutcome DEF HolderEntitled, WaitingPermitted
    <2>7. MutexHeld'
      BY <2>1, <2>2, <2>3, <2>4, ResultOutcome DEF MutexHeld
    <2> QED
      BY <2>1, <2>2, <2>3, <2>5, <2>6, <2>7, ResultOutcome DEF ModeOK
  <1> QED
    BY <1>1, <1>2, <1>3, <1>4 DEF JobStep

(* Turning off in a step of a task that is neither waiting nor begins to:  *)
(* what the step owes is that a holder it leaves is still entitled.        *)
LEMMA OffKeepsInv ==
    ASSUME PrivacyIInv, Free, job' = job, cur' = cur, ModeOK',
           conn_id' \in {conn_id, None},
           task' \in [Conn -> Labels],
           \A d \in Conn : task'[d] = "wait" => task[d] = "wait" /\ d \in permit',
           permit' \in SUBSET Conn,
           conn_id' # None /\ ~stray' =>
              /\ conn_id' \in permit'
              /\ task'[conn_id'] \notin {"new", "login", "drop", "reset", "closed"}
    PROVE  PrivacyIInv'
  <1> USE DEF PrivacyIInv, PrivacyInv, PrivacyTypeOK
  <1>1. MutexHeld'
    BY DEF MutexHeld, Free
  <1>2. HolderEntitled' /\ WaitingPermitted'
    BY DEF HolderEntitled, WaitingPermitted
  <1>3. PrivacyTypeOK'
    BY DEF ModeOK
  <1> QED
    BY <1>1, <1>2, <1>3 DEF ModeOK

(* The two outcomes together.                                              *)
LEMMA TurnOffOutcome ==
    ASSUME PrivacyIInv, NEW id, OffDone(id) \/ OffFails(id)
    PROVE  /\ cur' = cur
           /\ ModeOK'
           /\ \/ conn_id' = None
              \/ conn_id' = conn_id /\ stray' = stray
  BY OffDoneOutcome, OffFailsOutcome

(* So do the steps a connection task takes on its own.                     *)
LEMMA HandleKeepsInv ==
    ASSUME PrivacyIInv, NEW c \in Conn, Handle(c)
    PROVE  PrivacyIInv'
  <1> USE DEF PrivacyIInv, PrivacyInv, PrivacyTypeOK
  <1>1. CASE Timeout(c) \/ Succeeded(c) \/ Failed(c) \/ Drop(c)
    <2>1. PICK l \in {"err", "idle", "off_self", "off_any", "reset", "closed"} : Jump(c, l)
      BY <1>1 DEF Timeout, Succeeded, Failed, Drop
    <2>2. UNCHANGED <<mode, faults, ghosts>> /\ permit' = permit /\ job' = job
      BY <1>1 DEF Timeout, Succeeded, Failed, Drop
    <2>3. l \in {"reset", "closed"} => task[c] = "drop"
      BY <1>1, <2>1 DEF Timeout, Succeeded, Failed, Drop, Jump
    <2>4. ModeOK' /\ cur' = cur /\ conn_id' = conn_id /\ stray' = stray
      BY <2>2, ModeKept
    <2>5. task' \in [Conn -> Labels]
      BY <2>1 DEF Jump, Labels
    <2>6. HolderEntitled'
      BY <2>1, <2>2, <2>3, <2>4 DEF HolderEntitled, Jump
    <2>7. MutexHeld' /\ WaitingPermitted'
      BY <2>1, <2>2, <2>4 DEF MutexHeld, WaitingPermitted, Jump
    <2> QED
      BY <2>2, <2>4, <2>5, <2>6, <2>7 DEF ModeOK
  <1>2. CASE CheckFailed(c) \/ OffAny(c)
    <2>1. Free /\ (\E id : OffDone(id) \/ OffFails(id)) /\ Jump(c, "idle") /\ UNCHANGED <<job, permit>>
      BY <1>2 DEF CheckFailed, OffAny, TurnOff
    <2>2. cur' = cur /\ ModeOK' /\ (conn_id' = None \/ (conn_id' = conn_id /\ stray' = stray))
      BY <2>1, TurnOffOutcome
    <2>3. task' = [task EXCEPT ![c] = "idle"] /\ task' \in [Conn -> Labels]
      BY <2>1 DEF Jump, Labels
    <2>4. \A d \in Conn : task'[d] = "wait" => task[d] = "wait" /\ d \in permit'
      BY <2>1, <2>3 DEF WaitingPermitted
    <2>5. conn_id' # None /\ ~stray' =>
              /\ conn_id' \in permit'
              /\ task'[conn_id'] \notin {"new", "login", "drop", "reset", "closed"}
      BY <2>1, <2>2, <2>3 DEF HolderEntitled
    <2> QED
      BY <2>1, <2>2, <2>3, <2>4, <2>5, OffKeepsInv
  <1>3. CASE Revoked(c)
    <2> USE <1>3 DEF Revoked
    <2>1. cur' = cur /\ ModeOK' /\ (conn_id' = None \/ (conn_id' = conn_id /\ stray' = stray))
      BY TurnOffOutcome
    <2>2. task' = [task EXCEPT ![c] = "idle"] /\ task' \in [Conn -> Labels]
      BY DEF Jump, Labels
    <2>3. permit' = permit \/ (conn_id' = None /\ permit' = permit \ {c})
      BY OffDoneOutcome
    <2>4. \A d \in Conn : task'[d] = "wait" => task[d] = "wait" /\ d \in permit'
      BY <2>2, <2>3 DEF WaitingPermitted
    <2>5. conn_id' # None /\ ~stray' =>
              /\ conn_id' \in permit'
              /\ task'[conn_id'] \notin {"new", "login", "drop", "reset", "closed"}
      BY <2>1, <2>2, <2>3 DEF HolderEntitled
    <2> QED
      BY <2>1, <2>2, <2>3, <2>4, <2>5, OffKeepsInv
  <1>4. CASE OffClose(c)
    <2> USE <1>4 DEF OffClose
    <2>1. cur' = cur /\ ModeOK' /\ (conn_id' = None \/ (conn_id' = conn_id /\ (conn_id = c => stray')))
      <3>1. CASE OffDone(c)
        BY <3>1, OffDoneOutcome
      <3>2. CASE OffFails(c) /\ conn_id # c
        BY <3>2, OffFailsOutcome
      <3>3. CASE Fault /\ stray' = TRUE /\ UNCHANGED <<mode, unhooked, broken>>
        <4>1. faults' \in 0..MaxFaults
          BY <3>3, PrivacyAssumption DEF Fault
        <4> QED
          BY <3>3, <4>1 DEF mode, ModeOK, ScreenMatches, InputBlocked
      <3> QED
        BY <3>1, <3>2, <3>3
    <2>2. task' = [task EXCEPT ![c] = "drop"] /\ task' \in [Conn -> Labels]
      BY DEF Jump, Labels
    <2>3. conn_id' # None /\ conn_id' # c => stray' = stray
      BY OffDoneOutcome, OffFailsOutcome DEF mode
    <2>4. \A d \in Conn : task'[d] = "wait" => task[d] = "wait" /\ d \in permit'
      BY <2>2 DEF WaitingPermitted
    <2>5. conn_id' # None /\ ~stray' =>
              /\ conn_id' \in permit'
              /\ task'[conn_id'] \notin {"new", "login", "drop", "reset", "closed"}
      BY <2>1, <2>2, <2>3 DEF HolderEntitled
    <2> QED
      BY <2>1, <2>2, <2>4, <2>5, OffKeepsInv
  <1>5. CASE ResetAll(c)
    <2> USE <1>5 DEF ResetAll
    <2>1. cur' = cur /\ ModeOK' /\ (conn_id' = None \/ (conn_id' = conn_id /\ stray' = stray))
      BY TurnOffOutcome, ModeKept DEF TurnOff
    <2>2. task' = [task EXCEPT ![c] = "closed"] /\ task' \in [Conn -> Labels]
      BY DEF Jump, Labels
    <2>3. \A d \in Conn : task'[d] = "wait" => task[d] = "wait" /\ d \in permit'
      BY <2>2 DEF WaitingPermitted
    <2>4. conn_id' # None /\ ~stray' =>
              /\ conn_id' \in permit'
              /\ task'[conn_id'] \notin {"new", "login", "drop", "reset", "closed"}
      BY <2>1, <2>2 DEF HolderEntitled
    <2>5. CASE Free
      BY <2>1, <2>2, <2>3, <2>4, <2>5, OffKeepsInv
    <2>6. CASE ~Free
      <3>1. conn_id' = conn_id /\ ~Async
        BY <2>6 DEF TurnOff, mode
      <3>2. MutexHeld' /\ HolderEntitled' /\ WaitingPermitted'
        BY <2>3, <2>4, <3>1 DEF MutexHeld, HolderEntitled, WaitingPermitted
      <3> QED
        BY <2>1, <2>2, <3>1, <3>2 DEF ModeOK
    <2> QED
      BY <2>5, <2>6
  <1> QED
    BY <1>1, <1>2, <1>3, <1>4, <1>5 DEF Handle

(* So do the messages it handles.                                          *)
LEMMA MessageKeepsInv ==
    ASSUME PrivacyIInv, NEW c \in Conn, Message(c)
    PROVE  PrivacyIInv'
  <1> USE DEF PrivacyIInv, PrivacyInv, PrivacyTypeOK
  <1>1. CASE LoginRequest(c) \/ Authorized(c) \/ Close(c)
    <2>1. PICK l \in {"login", "closed", "idle", "off_close", "drop"} :
             task' = [task EXCEPT ![c] = l] /\ (conn_id = c => l \in {"idle", "off_close"} \/ task[c] = "new")
      BY <1>1 DEF LoginRequest, Authorized, Close, Jump
    <2>2. UNCHANGED <<mode, faults, ghosts>> /\ permit' = permit /\ job' = job
      BY <1>1 DEF LoginRequest, Authorized, Close
    <2>3. ModeOK' /\ cur' = cur /\ conn_id' = conn_id /\ stray' = stray
      BY <2>2, ModeKept
    <2>4. task' \in [Conn -> Labels]
      BY <2>1 DEF Labels
    <2>5. HolderEntitled'
      BY <2>1, <2>2, <2>3 DEF HolderEntitled
    <2>6. MutexHeld' /\ WaitingPermitted'
      BY <2>1, <2>2, <2>3 DEF MutexHeld, WaitingPermitted
    <2> QED
      BY <2>2, <2>3, <2>4, <2>5, <2>6 DEF ModeOK
  <1>2. ASSUME NEW i \in Impl, TurnOnRequest(c, i)
        PROVE  PrivacyIInv'
    <2> USE <1>2 DEF TurnOnRequest
    <2>1. ModeOK' /\ cur' = cur /\ conn_id' = conn_id /\ stray' = stray
      BY ModeKept
    <2>2. task' = [task EXCEPT ![c] = "wait"] /\ task' \in [Conn -> Labels]
      BY DEF Jump, Labels
    <2>3. (Async /\ cur = Virtual) \in BOOLEAN
      BY PrivacyAssumption
    <2>4. job' \in [Conn -> Job]
      BY <2>3 DEF Job
    <2>5. \A d \in Conn : job'[d].pc # "on"
      BY DEF Free
    <2>6. HolderEntitled' /\ MutexHeld' /\ WaitingPermitted'
      BY <2>1, <2>2, <2>5 DEF HolderEntitled, MutexHeld, WaitingPermitted
    <2> QED
      BY <2>1, <2>2, <2>4, <2>5, <2>6 DEF ModeOK
  <1>3. CASE TurnOffRequest(c)
    <2> USE <1>3 DEF TurnOffRequest, TurnOff
    <2>1. cur' = cur /\ ModeOK' /\ (conn_id' = None \/ (conn_id' = conn_id /\ stray' = stray))
      BY TurnOffOutcome
    <2> QED
      BY <2>1, OffKeepsInv DEF HolderEntitled, WaitingPermitted
  <1>4. CASE Revoke(c)
    <2> USE <1>4 DEF Revoke
    <2>1. ModeOK' /\ cur' = cur /\ conn_id' = conn_id /\ stray' = stray
      BY ModeKept
    <2>2. \/ conn_id = c /\ task' = [task EXCEPT ![c] = "off_revoke"] /\ permit' = permit
          \/ conn_id # c /\ task' = task /\ permit' = permit \ {c}
      BY DEF Jump
    <2>3. task' \in [Conn -> Labels]
      BY <2>2 DEF Labels
    <2>4. HolderEntitled' /\ MutexHeld' /\ WaitingPermitted'
      BY <2>1, <2>2 DEF HolderEntitled, MutexHeld, WaitingPermitted
    <2> QED
      BY <2>1, <2>2, <2>3, <2>4 DEF ModeOK
  <1>5. CASE Grant(c)
    <2> USE <1>5 DEF Grant
    <2>1. ModeOK' /\ cur' = cur /\ conn_id' = conn_id /\ stray' = stray
      BY ModeKept
    <2>2. HolderEntitled' /\ MutexHeld' /\ WaitingPermitted'
      BY <2>1 DEF HolderEntitled, MutexHeld, WaitingPermitted
    <2> QED
      BY <2>1, <2>2 DEF ModeOK
  <1> QED
    BY <1>1, <1>2, <1>3, <1>4, <1>5 DEF Message

(* Every step keeps it.                                                    *)
LEMMA NextKeepsInv ==
    ASSUME PrivacyIInv, [PrivacyNext]_vars
    PROVE  PrivacyIInv'
  <1> USE DEF PrivacyIInv, PrivacyInv, PrivacyTypeOK
  <1>1. CASE HookExit
    <2> USE <1>1 DEF HookExit
    <2>1. ModeOK'
      BY DEF ModeOK, ScreenMatches, InputBlocked, ghosts
    <2>2. HolderEntitled' /\ MutexHeld' /\ WaitingPermitted'
      BY DEF HolderEntitled, MutexHeld, WaitingPermitted, ghosts
    <2> QED
      BY <2>1, <2>2 DEF ModeOK
  <1>2. CASE CtrlP
    <2> USE <1>2 DEF CtrlP, TurnOff
    <2>1. cur' = cur /\ ModeOK' /\ (conn_id' = None \/ (conn_id' = conn_id /\ stray' = stray))
      BY TurnOffOutcome
    <2> QED
      BY <2>1, OffKeepsInv DEF HolderEntitled, WaitingPermitted
  <1>3. ASSUME NEW i \in Impl, Switch(i)
        PROVE  PrivacyIInv'
    <2> USE <1>3 DEF Switch
    <2>1. cur' = i /\ conn_id' = None /\ ModeOK'
      BY ReplaceOutcome
    <2>2. HolderEntitled' /\ MutexHeld' /\ WaitingPermitted'
      BY <2>1 DEF HolderEntitled, MutexHeld, WaitingPermitted, Free
    <2> QED
      BY <2>1, <2>2 DEF ModeOK, Free
  <1>4. CASE UNCHANGED vars
    <2> USE <1>4 DEF vars
    <2>1. ModeOK' /\ cur' = cur /\ conn_id' = conn_id /\ stray' = stray
      BY ModeKept
    <2>2. HolderEntitled' /\ MutexHeld' /\ WaitingPermitted'
      BY <2>1 DEF HolderEntitled, MutexHeld, WaitingPermitted
    <2> QED
      BY <2>1, <2>2 DEF ModeOK
  <1> QED
    BY <1>1, <1>2, <1>3, <1>4, JobKeepsInv, HandleKeepsInv, MessageKeepsInv DEF PrivacyNext

(* The invariant holds at the start.                                       *)
LEMMA InitEstablishesInv ==
    ASSUME PrivacyInit
    PROVE  PrivacyIInv
  <1> USE PrivacyAssumption DEF PrivacyInit
  <1>1. PrivacyTypeOK
    <2>1. job \in [Conn -> Job] /\ \A c \in Conn : job[c].pc # "on"
      BY DEF Job, Impl
    <2>2. task \in [Conn -> Labels] /\ permit \in SUBSET Conn /\ faults \in 0..MaxFaults
      BY DEF Labels
    <2>3. unhooked \in BOOLEAN /\ stray \in BOOLEAN /\ broken \in BOOLEAN
      BY Zenon
    <2> QED
      BY <2>1, <2>2, <2>3 DEF PrivacyTypeOK
  <1>2. ScreenMatches /\ InputBlocked /\ HolderEntitled /\ MutexHeld /\ WaitingPermitted
    BY DEF ScreenMatches, InputBlocked, HolderEntitled, MutexHeld, WaitingPermitted
  <1> QED
    BY <1>1, <1>2 DEF PrivacyIInv, PrivacyInv

(* A holder that another connection's step ends was named by nobody: the   *)
(* step is that of a failed request or of the last connection.             *)
LEMMA OthersStep ==
    ASSUME PrivacyIInv, PrivacyNext, NEW c \in Conn, NEW d \in Conn,
           conn_id = c, conn_id' # c, <<task[d], job[d]>>' # <<task[d], job[d]>>
    PROVE  c = d \/ task[d] \in {"off_any", "reset"}
  <1> USE DEF PrivacyIInv, PrivacyInv, PrivacyTypeOK
  <1>1. PICK e \in Conn : JobStep(e) \/ Handle(e) \/ Message(e)
    BY DEF PrivacyNext, HookExit, CtrlP, Switch
  <1>2. c # None
    BY PrivacyAssumption
  <1>3. CASE JobStep(e)
    <2>1. job[e].pc # "on"
      BY <1>2, <1>3 DEF MutexHeld, JobStep, AlreadyOn, Occupied, mode
    <2>2. Enter(e)
      BY <1>3, <2>1 DEF JobStep, AlreadyOn, Occupied, TopmostOn, TopmostFails,
         TopmostMissing, VirtualOn, VirtualFails, mode
    <2> QED
      BY <1>2, <2>2 DEF Enter
  <1>4. CASE Handle(e) \/ Message(e)
    <2>1. \A b \in Conn \ {e} : task'[b] = task[b] /\ job'[b] = job[b]
      BY <1>4 DEF Handle, Message, Timeout, Succeeded, Failed, CheckFailed, OffAny, Revoked,
         OffClose, Drop, ResetAll, LoginRequest, Authorized, TurnOnRequest, TurnOffRequest,
         Revoke, Grant, Close, Jump
    <2>2. d = e
      BY <2>1
    <2>3. conn_id' # conn_id => OffDone(e) \/ task[e] \in {"off_any", "reset"}
      BY <1>4 DEF Handle, Message, Timeout, Succeeded, Failed, CheckFailed, OffAny, Revoked,
         OffClose, Drop, ResetAll, LoginRequest, Authorized, TurnOnRequest, TurnOffRequest,
         Revoke, Grant, Close, TurnOff, OffFails, mode
    <2> QED
      BY <1>2, <2>2, <2>3, PrivacyAssumption DEF OffDone, MayTurnOff
  <1> QED
    BY <1>1, <1>3, <1>4

-----------------------------------------------------------------------------
(* For every set of connections: while one holds the mode the screen is    *)
(* hidden by the current implementation and, unless it could not hook, the *)
(* input blocked; without a holder both are as the local user left them.   *)
THEOREM PrivacyInvariant == PrivacySpec => []PrivacyInv
  <1>1. PrivacyIInv => PrivacyInv
    BY DEF PrivacyIInv
  <1> QED
    BY <1>1, InitEstablishesInv, NextKeepsInv, PTL DEF PrivacySpec

(* The holder has the permission and a live connection, for every set of   *)
(* connections.                                                            *)
THEOREM HolderIsEntitled == PrivacySpec => []HolderEntitled
  <1>1. PrivacyIInv => HolderEntitled
    BY DEF PrivacyIInv
  <1> QED
    BY <1>1, InitEstablishesInv, NextKeepsInv, PTL DEF PrivacySpec

(* No connection turns off the mode of another one, for every set of       *)
(* connections: MutexHeld is what rules out that a job turns on over a     *)
(* holder it did not see.                                                  *)
THEOREM OthersNeverTurnItOff == PrivacySpec => OthersLeaveItOn
  <1>1. ASSUME PrivacyIInv, [PrivacyNext]_vars
        PROVE  [\A c, d \in Conn :
                  conn_id = c /\ conn_id' # c /\ <<task[d], job[d]>>' # <<task[d], job[d]>>
                  => c = d \/ task[d] \in {"off_any", "reset"}]_vars
    BY <1>1, OthersStep
  <1> QED
    BY <1>1, InitEstablishesInv, NextKeepsInv, PTL DEF PrivacySpec, OthersLeaveItOn
=============================================================================
