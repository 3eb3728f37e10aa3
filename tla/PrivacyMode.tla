----------------------------- MODULE PrivacyMode -----------------------------
(***************************************************************************)
(* Privacy mode of the controlled side (privacy_mode.rs and its Windows    *)
(* implementations, and the handlers of server/connection.rs): while a     *)
(* connection holds it, the screen of the computer shows nothing and its   *)
(* keyboard and mouse are hooked.                                          *)
(*                                                                         *)
(* The one PRIVACY_MODE mutex holds the current implementation.  A         *)
(* connection task takes it once per call, so a handler is a sequence of   *)
(* lock sections.  Turning on is one section, long enough that the         *)
(* implementation with virtual displays does it in a thread the task waits *)
(* for only 7.5 s.  The hooks live in a thread of their own that is told   *)
(* to end by a message and ends later.                                     *)
(***************************************************************************)
EXTENDS Naturals

CONSTANTS
    Conn,       \* remote connections
    None,       \* INVALID_PRIVACY_MODE_CONN_ID
    Async,      \* is_amyuni_idd(): virtual displays are slow to plug in
    MaxFaults   \* bound on the messages to the hook thread that fail

ASSUME PrivacyAssumption ==
    /\ None \notin Conn
    /\ Async \in BOOLEAN
    /\ MaxFaults \in Nat

VARIABLES
    cur,        \* key of the implementation in PRIVACY_MODE
    conn_id,    \* its conn_id
    effect,     \* the implementations whose effect on the screen is there
    hook,       \* the hook thread: none, on, or told to exit
    job,        \* [Conn -> Job]: turn_on_privacy_sync, in the task or a thread
    task,       \* what each connection task is doing
    permit,     \* connections with the permission (conn.privacy_mode)
    faults,     \* failed messages so far
    \* bookkeeping, no part of the program's state:
    unhooked,   \* the mode was turned on without hooks
    stray,      \* ... by a thread nobody waits for, or was not turned off at
                \* the end of its connection
    broken      \* an implementation was dropped that could not be turned off

mode == <<cur, conn_id, effect, hook>>
ghosts == <<unhooked, stray, broken>>
vars == <<mode, job, task, permit, faults, ghosts>>

Topmost == "topmost"      \* win_topmost_window.rs: windows over every screen
Virtual == "virtual"      \* win_virtual_display.rs: only virtual displays
Impl == {Topmost, Virtual}

Job == [pc : {"none", "queued", "on"}, impl : Impl, async : BOOLEAN]
Labels == {"new", "login", "idle", "wait", "ok", "err", "off_self", "off_any",
           "off_revoke", "off_close", "drop", "reset", "closed"}

PrivacyInit ==
    /\ cur \in Impl
    /\ conn_id = None
    /\ effect = {}
    /\ hook = "none"
    /\ job = [c \in Conn |-> [pc |-> "none", impl |-> Topmost, async |-> FALSE]]
    /\ task = [c \in Conn |-> "new"]
    /\ permit = Conn
    /\ faults = 0
    /\ unhooked = FALSE
    /\ stray = FALSE
    /\ broken = FALSE

-----------------------------------------------------------------------------
(* Whoever turns on keeps the mutex between two steps.                     *)
Free == \A c \in Conn : job[c].pc # "on"

Jump(c, label) == task' = [task EXCEPT ![c] = label]

(* unhook: post the exit message to the hook thread, if there is one.      *)
Unhooked == IF hook = "on" THEN "exit" ELSE hook

(* PostThreadMessage fails.                                                *)
Fault ==
    /\ hook # "none"
    /\ faults < MaxFaults
    /\ faults' = faults + 1

(* Mutant: anybody may turn off.                                           *)
MayTurnOffAny(id) == id \in Conn \cup {None}

(* check_off_conn_id                                                       *)
MayTurnOff(id) == conn_id = None \/ id = None \/ conn_id = id

(* turn_off_privacy(id) ends the mode ...                                  *)
OffDone(id) ==
    /\ MayTurnOff(id)
    /\ hook' = Unhooked
    /\ effect' = effect \ {cur}
    /\ conn_id' = None
    /\ unhooked' = FALSE
    /\ stray' = FALSE
    /\ UNCHANGED <<cur, faults, broken>>

(* ... or fails and changes nothing: the mode is another connection's, or  *)
(* unhook failed.                                                          *)
OffFails(id) ==
    /\ \/ ~MayTurnOff(id) /\ UNCHANGED faults
       \/ MayTurnOff(id) /\ Fault
    /\ UNCHANGED <<mode, ghosts>>

TurnOff(id) == Free /\ (OffDone(id) \/ OffFails(id))

(* Another implementation takes the place of the current one, which is     *)
(* cleared and dropped, and a drop turns it off.  If that fails, the       *)
(* windows go with their process, which is killed; the displays stay off.  *)
Replace(i) ==
    /\ cur' = i
    /\ conn_id' = None
    /\ unhooked' = FALSE
    /\ stray' = FALSE
    /\ \/ /\ hook' = Unhooked
          /\ effect' = effect \ {cur}
          /\ UNCHANGED <<faults, broken>>
       \/ /\ Fault
          /\ effect' = effect \ ({cur} \cap {Topmost})
          /\ broken' = TRUE
          /\ UNCHANGED hook

-----------------------------------------------------------------------------
(* turn_on_privacy_sync.                                                   *)

(* The job ends; a task that still waits gets the result.                  *)
Result(c, label) ==
    /\ job' = [job EXCEPT ![c].pc = "none"]
    /\ task' = IF task[c] = "wait" THEN [task EXCEPT ![c] = label] ELSE task

(* Already on for this connection: Ok(true).                               *)
AlreadyOn(c) ==
    /\ job[c].pc = "queued" /\ Free
    /\ conn_id = c /\ cur = job[c].impl
    /\ Result(c, "ok")
    /\ UNCHANGED <<mode, permit, faults, ghosts>>

(* check_on_conn_id: OCCUPIED.                                             *)
Occupied(c) ==
    /\ job[c].pc = "queued" /\ Free
    /\ conn_id \notin {None, c}
    /\ Result(c, "err")
    /\ UNCHANGED <<mode, permit, faults, ghosts>>

(* Free, or held by this connection with another implementation.           *)
Enter(c) ==
    /\ job[c].pc = "queued" /\ Free
    /\ conn_id \in {None, c}
    /\ ~(conn_id = c /\ cur = job[c].impl)
    /\ job' = [job EXCEPT ![c].pc = "on"]
    /\ IF cur = job[c].impl THEN UNCHANGED <<mode, faults, ghosts>>
       ELSE Replace(job[c].impl)
    /\ UNCHANGED <<task, permit>>

On(c) ==
    /\ conn_id' = c
    /\ effect' = effect \cup {cur}
    /\ stray' = (task[c] # "wait")
    /\ Result(c, "ok")

(* start, hook, show_privacy_windows.  do_hook finds the old hook thread   *)
(* when that has not ended yet: "Already hooked".                          *)
TopmostOn(c) ==
    /\ job[c].pc = "on" /\ cur = Topmost
    /\ hook = "none"
    /\ hook' = "on"
    /\ On(c)
    /\ UNCHANGED <<cur, permit, faults, unhooked, broken>>

(* ... or it fails: before the hooks, in hook(), or after it, when the     *)
(* hooks are removed again.  No window is left.                            *)
TopmostFails(c) ==
    /\ job[c].pc = "on" /\ cur = Topmost
    /\ hook' \in {hook, IF hook = "none" THEN "exit" ELSE hook}
    /\ effect' = effect \ {Topmost}
    /\ Result(c, "err")
    /\ UNCHANGED <<cur, conn_id, permit, faults, ghosts>>

(* Ok(false): WindowInjection.dll is missing.                              *)
TopmostMissing(c) ==
    /\ job[c].pc = "on" /\ cur = Topmost
    /\ Result(c, "idle")
    /\ UNCHANGED <<mode, permit, faults, ghosts>>

(* The displays are switched, conn_id is set, and then the input hooked:   *)
(* a failure of that, "Already hooked" too, is only logged.                *)
VirtualOn(c) ==
    /\ job[c].pc = "on" /\ cur = Virtual
    /\ hook' \in {hook, IF hook = "none" THEN "on" ELSE hook}
    /\ unhooked' = ~(hook = "none" /\ hook' = "on")
    /\ On(c)
    /\ UNCHANGED <<cur, permit, faults, broken>>

(* Mutant: no guard that turns off again.                                  *)
VirtualFailsHalfway(c) ==
    /\ job[c].pc = "on" /\ cur = Virtual
    /\ effect' = effect \cup {Virtual}
    /\ Result(c, "err")
    /\ UNCHANGED <<cur, conn_id, hook, permit, faults, ghosts>>

(* No display to switch off, or TurnOnGuard turns off what was done.       *)
VirtualFails(c) ==
    /\ job[c].pc = "on" /\ cur = Virtual
    /\ \/ UNCHANGED <<hook, effect, faults, broken>>
       \/ /\ hook' = Unhooked
          /\ effect' = effect \ {Virtual}
          /\ UNCHANGED <<faults, broken>>
       \/ /\ Fault
          /\ effect' = effect \cup {Virtual}
          /\ broken' = TRUE
          /\ UNCHANGED hook
    /\ Result(c, "err")
    /\ UNCHANGED <<cur, conn_id, permit, unhooked, stray>>

-----------------------------------------------------------------------------
(* The connection task.                                                    *)

(* check_privacy_mode_on at the login request: "Someone turns on privacy   *)
(* mode, exit".  The password, or the user who accepts, comes later.       *)
LoginRequest(c) ==
    /\ task[c] = "new" /\ Free
    /\ Jump(c, IF conn_id = None THEN "login" ELSE "closed")
    /\ UNCHANGED <<mode, job, permit, faults, ghosts>>

Authorized(c) ==
    /\ task[c] = "login"
    /\ Jump(c, "idle")
    /\ UNCHANGED <<mode, job, permit, faults, ghosts>>

(* turn_on_privacy, up to the job: in a thread if the implementation that  *)
(* is current is asynchronous, whichever is asked for.  A connection has   *)
(* one job at a time (bound).                                              *)
TurnOnRequest(c, i) ==
    /\ task[c] = "idle" /\ Free
    /\ c \in permit
    /\ job[c].pc = "none"
    /\ job' = [job EXCEPT ![c] =
                 [pc |-> "queued", impl |-> i, async |-> Async /\ cur = Virtual]]
    /\ Jump(c, "wait")
    /\ UNCHANGED <<mode, permit, faults, ghosts>>

(* 7.5 s are over; the thread goes on.                                     *)
Timeout(c) ==
    /\ task[c] = "wait" /\ job[c].async
    /\ Jump(c, "err")
    /\ UNCHANGED <<mode, job, permit, faults, ghosts>>

(* check_privacy_mode_err: the magnifier cannot capture.                   *)
Succeeded(c) ==
    /\ task[c] = "ok" /\ Free
    /\ \/ Jump(c, "idle")
       \/ cur = Topmost /\ Jump(c, "off_self")
    /\ UNCHANGED <<mode, job, permit, faults, ghosts>>

(* Mutant: the request is made again.                                      *)
FailedRetries(c) ==
    /\ task[c] = "err" /\ Free
    /\ job[c].pc = "none"
    /\ job' = [job EXCEPT ![c].pc = "queued"]
    /\ Jump(c, "wait")
    /\ UNCHANGED <<mode, permit, faults, ghosts>>

(* Some(Err(e)): if anybody is in privacy mode, turn it off for everybody. *)
Failed(c) ==
    /\ task[c] = "err" /\ Free
    /\ Jump(c, IF conn_id = None THEN "idle" ELSE "off_any")
    /\ UNCHANGED <<mode, job, permit, faults, ghosts>>

CheckFailed(c) ==
    /\ task[c] = "off_self"
    /\ TurnOff(c)
    /\ Jump(c, "idle")
    /\ UNCHANGED <<job, permit>>

OffAny(c) ==
    /\ task[c] = "off_any"
    /\ TurnOff(None)
    /\ Jump(c, "idle")
    /\ UNCHANGED <<job, permit>>

TurnOffRequest(c) ==
    /\ task[c] = "idle"
    /\ TurnOff(c)
    /\ UNCHANGED <<job, task, permit>>

(* The permission is switched off in the connection manager, or on.        *)
Revoke(c) ==
    /\ task[c] = "idle" /\ Free
    /\ c \in permit
    /\ IF conn_id = c THEN Jump(c, "off_revoke") /\ UNCHANGED permit
       ELSE permit' = permit \ {c} /\ UNCHANGED task
    /\ UNCHANGED <<mode, job, faults, ghosts>>

(* Mutant: the permission goes, however the turning off ended.             *)
RevokedAnyway(c) ==
    /\ task[c] = "off_revoke"
    /\ TurnOff(c)
    /\ permit' = permit \ {c}
    /\ Jump(c, "idle")
    /\ UNCHANGED job

(* turn_off_privacy failed: the permission is kept.  It may fail after it  *)
(* ended the mode, when the windows cannot be hidden and are killed.       *)
Revoked(c) ==
    /\ task[c] = "off_revoke" /\ Free
    /\ \/ OffDone(c) /\ permit' = permit \ {c}
       \/ OffDone(c) /\ cur = Topmost /\ UNCHANGED permit
       \/ OffFails(c) /\ UNCHANGED permit
    /\ Jump(c, "idle")
    /\ UNCHANGED job

Grant(c) ==
    /\ task[c] = "idle"
    /\ c \notin permit
    /\ permit' = permit \cup {c}
    /\ UNCHANGED <<mode, job, task, faults, ghosts>>

(* The loop of the connection ends: get_privacy_mode_conn_id ...           *)
Close(c) ==
    /\ task[c] = "idle" /\ Free
    /\ Jump(c, IF conn_id = c THEN "off_close" ELSE "drop")
    /\ UNCHANGED <<mode, job, permit, faults, ghosts>>

(* ... and turn off if that was this connection.                           *)
OffClose(c) ==
    /\ task[c] = "off_close" /\ Free
    /\ \/ OffDone(c)
       \/ OffFails(c) /\ conn_id # c
       \/ /\ MayTurnOff(c) /\ conn_id = c /\ Fault
          /\ stray' = TRUE
          /\ UNCHANGED <<mode, unhooked, broken>>
    /\ Jump(c, "drop")
    /\ UNCHANGED <<job, permit>>

(* Drop of AuthedConnID: the last remote connection resets the virtual     *)
(* displays.                                                               *)
Authed(c) == task[c] \notin {"new", "login", "reset", "closed"}

Drop(c) ==
    /\ task[c] = "drop"
    /\ Jump(c, IF \A d \in Conn \ {c} : ~Authed(d) THEN "reset" ELSE "closed")
    /\ UNCHANGED <<mode, job, permit, faults, ghosts>>

(* reset_all: the one of amyuni turns the mode off for everybody.          *)
ResetAll(c) ==
    /\ task[c] = "reset"
    /\ IF Async THEN TurnOff(None) ELSE UNCHANGED <<mode, faults, ghosts>>
    /\ Jump(c, "closed")
    /\ UNCHANGED <<job, permit>>

-----------------------------------------------------------------------------
(* The hook thread ends, or sees Ctrl + P of the local user.               *)
HookExit ==
    /\ hook = "exit"
    /\ hook' = "none"
    /\ UNCHANGED <<cur, conn_id, effect, job, task, permit, faults, ghosts>>

CtrlP ==
    /\ hook # "none"
    /\ TurnOff(None)
    /\ UNCHANGED <<job, task, permit>>

(* The option privacy-mode-impl-key is changed.                            *)
Switch(i) ==
    /\ Free
    /\ cur # i
    /\ Replace(i)
    /\ UNCHANGED <<job, task, permit>>

JobStep(c) ==
    \/ AlreadyOn(c)
    \/ Occupied(c)
    \/ Enter(c)
    \/ TopmostOn(c)
    \/ TopmostFails(c)
    \/ TopmostMissing(c)
    \/ VirtualOn(c)
    \/ VirtualFails(c)

Handle(c) ==
    \/ Timeout(c)
    \/ Succeeded(c)
    \/ Failed(c)
    \/ CheckFailed(c)
    \/ OffAny(c)
    \/ Revoked(c)
    \/ OffClose(c)
    \/ Drop(c)
    \/ ResetAll(c)

Message(c) ==
    \/ LoginRequest(c)
    \/ Authorized(c)
    \/ \E i \in Impl : TurnOnRequest(c, i)
    \/ TurnOffRequest(c)
    \/ Revoke(c)
    \/ Grant(c)
    \/ Close(c)

PrivacyNext ==
    \/ \E c \in Conn : JobStep(c) \/ Handle(c) \/ Message(c)
    \/ HookExit
    \/ CtrlP
    \/ \E i \in Impl : Switch(i)

(* The hook thread handles its message, and whoever waits for the mutex    *)
(* gets it in the end although others keep taking it.                      *)
PrivacySpec ==
    /\ PrivacyInit
    /\ [][PrivacyNext]_vars
    /\ WF_vars(HookExit)
    /\ \A c \in Conn : SF_vars(JobStep(c)) /\ SF_vars(Handle(c))

-----------------------------------------------------------------------------
PrivacyTypeOK ==
    /\ cur \in Impl
    /\ conn_id \in Conn \cup {None}
    /\ effect \in SUBSET Impl
    /\ hook \in {"none", "on", "exit"}
    /\ job \in [Conn -> Job]
    /\ task \in [Conn -> Labels]
    /\ permit \in SUBSET Conn
    /\ faults \in 0..MaxFaults
    /\ unhooked \in BOOLEAN /\ stray \in BOOLEAN /\ broken \in BOOLEAN
    /\ \A c \in Conn : job[c].pc = "on" => cur = job[c].impl

(* What the state says is what the local user sees: with a holder, the     *)
(* screen is hidden by the current implementation and no other; without    *)
(* one it is shown and no hook is left that nobody told to end, also after *)
(* a turning on that failed halfway or was taken over by another           *)
(* implementation.  Excepted is an implementation that was dropped while   *)
(* its hooks could not be removed.                                         *)
ScreenMatches ==
    ~broken => IF conn_id # None THEN effect = {cur}
               ELSE effect = {} /\ hook # "on"

(* While a connection is in privacy mode the local input is blocked.       *)
(* Excepted is the implementation with virtual displays when it could not  *)
(* hook, above all because the hooks of the mode before were just being    *)
(* removed.                                                                *)
InputBlocked == conn_id # None /\ ~unhooked => hook = "on"

(* Types, and that screen and input are as the holder of the mode expects. *)
PrivacyInv == PrivacyTypeOK /\ ScreenMatches /\ InputBlocked

(* "permission looks disabled while privacy mode is still active" does not *)
(* happen, and the mode does not outlive its connection.  Excepted is the  *)
(* mode that a thread turned on after its connection had stopped waiting,  *)
(* and the one whose hooks could not be removed at the end.                *)
HolderEntitled ==
    conn_id # None /\ ~stray =>
        conn_id \in permit /\ task[conn_id] \notin {"new", "login", "drop", "reset", "closed"}

(* What makes these inductive: the one job that has the mutex found the    *)
(* mode off or has turned it off itself, and a connection that waits for   *)
(* the result of its request keeps the permission meanwhile.               *)
MutexHeld ==
    \A c \in Conn : job[c].pc = "on" =>
        /\ conn_id = None
        /\ \A d \in Conn : job[d].pc = "on" => d = c

WaitingPermitted == \A c \in Conn : task[c] = "wait" => c \in permit

PrivacyIInv == PrivacyInv /\ HolderEntitled /\ MutexHeld /\ WaitingPermitted

(* TURN_OFF_OTHER_ID: no connection turns off the mode of another one, in  *)
(* particular not one whose own mode was taken over between its look at    *)
(* the holder and its turning off.  Excepted are a failed request to turn  *)
(* on, and the last authorized connection.                                 *)
OthersLeaveItOn ==
    [][\A c, d \in Conn :
          conn_id = c /\ conn_id' # c /\ <<task[d], job[d]>>' # <<task[d], job[d]>>
          => c = d \/ task[d] \in {"off_any", "reset"}]_vars

(* A request to turn on is answered.                                       *)
RequestAnswered ==
    \A c \in Conn : task[c] = "wait" ~> task[c] = "idle"
=============================================================================
