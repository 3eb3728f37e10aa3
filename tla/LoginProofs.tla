---------------------------- MODULE LoginProofs ----------------------------
(***************************************************************************)
(* The limits on login attempts for every set of connections, addresses,   *)
(* prefixes and limits.                                                    *)
(***************************************************************************)
EXTENDS LoginGuard, FiniteSetTheorems, TLAPS

-----------------------------------------------------------------------------
(* Counting connections.                                                   *)

LEMMA ConnCard ==
    ASSUME NEW S \in SUBSET Conn
    PROVE  IsFiniteSet(S) /\ Cardinality(S) \in Nat
  <1>1. IsFiniteSet(S)
    BY LoginAssumption, FS_Subset
  <1> QED
    BY <1>1, FS_CardinalityType

LEMMA CardMono ==
    ASSUME NEW S \in SUBSET Conn, NEW T \in SUBSET S
    PROVE  Cardinality(T) <= Cardinality(S)
  BY ConnCard, FS_Subset

LEMMA CardAdd ==
    ASSUME NEW S \in SUBSET Conn, NEW T \in SUBSET Conn, NEW c \in Conn,
           c \notin S, T = S \cup {c}
    PROVE  Cardinality(T) = Cardinality(S) + 1
  BY ConnCard, FS_AddElement

(* At most one connection more.                                            *)
LEMMA CardGrow ==
    ASSUME NEW S \in SUBSET Conn, NEW T \in SUBSET Conn, NEW c \in Conn,
           T \subseteq S \cup {c}
    PROVE  Cardinality(T) <= Cardinality(S) + 1
  <1>1. Cardinality(S \cup {c}) <= Cardinality(S) + 1
    BY ConnCard, FS_AddElement
  <1>2. Cardinality(T) <= Cardinality(S \cup {c})
    BY CardMono
  <1> QED
    BY <1>1, <1>2, ConnCard

(* At least one less.                                                      *)
LEMMA CardDrop ==
    ASSUME NEW S \in SUBSET Conn, NEW T \in SUBSET S, NEW c \in S, c \notin T
    PROVE  Cardinality(T) + 1 <= Cardinality(S)
  <1>1. Cardinality(T \cup {c}) = Cardinality(T) + 1
    BY CardAdd
  <1>2. Cardinality(T \cup {c}) <= Cardinality(S)
    BY CardMono
  <1> QED
    BY <1>1, <1>2

-----------------------------------------------------------------------------
(* What the steps do to the task that takes them.                          *)

LEMMA NoTaskType == NoTask \in Task
  <1>1. Wrong \in Secret
    BY LoginAssumption DEF Secret, Wrong
  <1>2. NoEntry \in Entry
    BY LoginAssumption DEF NoEntry, Entry
  <1>3. <<>> \in Seq(Key)
    OBVIOUS
  <1> QED
    BY <1>1, <1>2, <1>3, LoginAssumption DEF NoTask, Task, Labels, Stage

LEMMA NoTaskFields ==
    /\ NoTask.pc = "idle" /\ NoTask.stage = "password" /\ NoTask.left = <<>>
    /\ NoTask.time = 0 /\ NoTask.against = 0 /\ NoTask.snap = NoEntry
  BY DEF NoTask

LEMMA Finishes ==
    ASSUME LoginTypeOK, NEW c \in Conn, Finish(c)
    PROVE  /\ task' \in [Conn -> Task]
           /\ task'[c] = NoTask
           /\ \A d \in Conn \ {c} : task'[d] = task[d]
  BY NoTaskType DEF LoginTypeOK, Finish

LEMMA Jumps ==
    ASSUME LoginTypeOK, NEW c \in Conn, NEW l \in Labels, Jump(c, l)
    PROVE  /\ task' \in [Conn -> Task]
           /\ task'[c] = [task[c] EXCEPT !.pc = l]
           /\ \A d \in Conn \ {c} : task'[d] = task[d]
  <1>1. task[c] \in Task
    BY DEF LoginTypeOK
  <1>2. [task[c] EXCEPT !.pc = l] \in Task
    BY <1>1 DEF Task
  <1> QED
    BY <1>2 DEF LoginTypeOK, Jump

(* A step that changes one task and, of its own, nothing of the lock.      *)
LEMMA TaskType ==
    ASSUME LoginTypeOK, NEW c \in Conn,
           minute' = minute, holder' = holder,
           task' \in [Conn -> Task],
           \A d \in Conn \ {c} : task'[d] = task[d],
           task'[c].time <= minute,
           task[c].pc \notin {"rotate", "reread"},
           task'[c].pc \notin {"rotate", "reread"}
    PROVE  /\ \A d \in Conn : task'[d].time <= minute'
           /\ holder' = {d \in Conn : task'[d].pc \in {"rotate", "reread"}}
  BY DEF LoginTypeOK

(* The tables of failures stay of their type.                              *)
LEMMA FailType ==
    ASSUME LoginTypeOK, NEW c \in Conn, Fail(c)
    PROVE  failed' \in [Stage -> [Key -> Nat]]
  <1>1. task[c].stage \in Stage
    BY DEF LoginTypeOK, Task
  <1> QED
    BY <1>1 DEF LoginTypeOK, Fail

(* A new attempt.                                                          *)
LEMMA AttemptType ==
    ASSUME LoginTypeOK, NEW c \in Conn, NEW g \in Secret, NEW i \in Stage
    PROVE  [NoTask EXCEPT !.pc = "check", !.stage = i, !.guess = g,
                          !.left = Prefixes[c], !.time = minute] \in Task
  <1>1. Prefixes[c] \in Seq(Key) /\ minute \in 0..MaxMinute
    BY LoginAssumption DEF LoginTypeOK
  <1> QED
    BY <1>1, NoTaskType DEF Task, Labels

(* Types after the steps of a task.                                        *)
LEMMA LoginTypes ==
    ASSUME LoginTypeOK, NEW c \in Conn, NEW g \in (1..temp) \cup {Permanent, Wrong}, Login(c, g)
    PROVE  LoginTypeOK'
  <1>1. g \in Secret /\ Prefixes[c] \in Seq(Key) /\ minute \in 0..MaxMinute
    BY LoginAssumption DEF LoginTypeOK, Secret, Permanent, Wrong
  <1>2. task' \in [Conn -> Task] /\ \A d \in Conn \ {c} : task'[d] = task[d]
    <2>1. [NoTask EXCEPT !.pc = "logon"] \in Task
      BY NoTaskType DEF Task, Labels
    <2>2. [NoTask EXCEPT !.pc = "check", !.guess = g, !.left = Prefixes[c], !.time = minute] \in Task
      BY <1>1, NoTaskType DEF Task, Labels
    <2>3. PICK t \in Task : task' = [task EXCEPT ![c] = t]
      BY <2>1, <2>2 DEF Login
    <2> QED
      BY <2>3 DEF LoginTypeOK
  <1>3. task'[c].time <= minute /\ task'[c].pc \in {"check", "logon"}
    BY DEF Login, LoginTypeOK, NoTask
  <1>4. tries' \in 0..MaxTries
    BY LoginAssumption DEF Login, LoginTypeOK
  <1>5. UNCHANGED <<shared, ghosts>> /\ task[c].pc = "idle"
    BY DEF Login
  <1> QED
    BY <1>2, <1>3, <1>4, <1>5, TaskType DEF LoginTypeOK, shared, ghosts

LEMMA Auth2faTypes ==
    ASSUME LoginTypeOK, NEW c \in Conn, NEW g \in {Code, Wrong}, Auth2fa(c, g)
    PROVE  LoginTypeOK'
  <1> USE DEF Auth2fa
  <1>1. g \in Secret
    BY LoginAssumption DEF Secret, Code, Wrong
  <1>2. task' \in [Conn -> Task] /\ \A d \in Conn \ {c} : task'[d] = task[d]
    BY <1>1, AttemptType DEF LoginTypeOK, Stage
  <1>3. task'[c].time <= minute /\ task'[c].pc = "check"
    BY DEF LoginTypeOK, NoTask
  <1>4. tries' \in 0..MaxTries
    BY LoginAssumption DEF LoginTypeOK
  <1> QED
    BY <1>2, <1>3, <1>4, TaskType DEF LoginTypeOK, shared, ghosts

LEMMA CheckTypes ==
    ASSUME LoginTypeOK, NEW c \in Conn, CheckPrefix(c) \/ CheckIp(c)
    PROVE  LoginTypeOK'
  <1>1. task[c] \in Task /\ task[c].pc = "check" /\ task[c].time <= minute
    BY DEF LoginTypeOK, CheckPrefix, CheckIp
  <1>2. UNCHANGED <<shared, tries, ghosts>>
    BY DEF CheckPrefix, CheckIp
  <1>3. PICK t \in Task : /\ task' = [task EXCEPT ![c] = t]
                          /\ t.time <= minute
                          /\ t.pc \notin {"rotate", "reread"}
    <2>1. CASE Finish(c)
      <3>1. NoTask.time <= minute /\ NoTask.pc \notin {"rotate", "reread"}
        BY NoTaskFields DEF LoginTypeOK
      <3> QED
        BY <2>1, <3>1, NoTaskType DEF Finish
    <2>2. CASE CheckPrefix(c) /\ ~Finish(c)
      <3>1. task' = [task EXCEPT ![c].left = Tail(@)] /\ task[c].left # <<>>
        BY <2>2 DEF CheckPrefix
      <3>2. Tail(task[c].left) \in Seq(Key)
        BY <1>1, <3>1 DEF Task
      <3>3. [task[c] EXCEPT !.left = Tail(@)] \in Task
        BY <1>1, <3>2 DEF Task
      <3>4. task' = [task EXCEPT ![c] = [task[c] EXCEPT !.left = Tail(@)]]
        BY <3>1 DEF LoginTypeOK
      <3> QED
        BY <1>1, <3>3, <3>4 DEF Task
    <2>3. CASE CheckIp(c) /\ ~Finish(c)
      <3> DEFINE e == login_failures[task[c].stage][Ip[c]]
      <3>1. task' = [task EXCEPT ![c].pc = "validate", ![c].snap = e]
        BY <2>3 DEF CheckIp
      <3>2. e \in Entry
        BY <1>1, LoginAssumption DEF LoginTypeOK, Task
      <3>3. [task[c] EXCEPT !.pc = "validate", !.snap = e] \in Task
        BY <1>1, <3>2 DEF Task, Labels
      <3>4. task' = [task EXCEPT ![c] = [task[c] EXCEPT !.pc = "validate", !.snap = e]]
        BY <3>1 DEF LoginTypeOK
      <3> QED
        BY <1>1, <3>3, <3>4 DEF Task
    <2> QED
      BY <2>1, <2>2, <2>3
  <1>4. task' \in [Conn -> Task] /\ task'[c] = t /\ \A d \in Conn \ {c} : task'[d] = task[d]
    BY <1>3 DEF LoginTypeOK
  <1>5. minute' = minute /\ holder' = holder
    BY <1>2 DEF shared
  <1>6. /\ \A d \in Conn : task'[d].time <= minute'
        /\ holder' = {d \in Conn : task'[d].pc \in {"rotate", "reread"}}
    BY <1>1, <1>3, <1>4, <1>5, TaskType
  <1> QED
    BY <1>2, <1>4, <1>6 DEF LoginTypeOK, shared, ghosts

(* A task goes on, or its attempt is over.                                 *)
LEMMA TaskMoves ==
    ASSUME LoginTypeOK, NEW c \in Conn, minute' = minute, holder' = holder,
           task[c].pc \notin {"rotate", "reread"},
           Finish(c) \/ \E l \in Labels \ {"rotate", "reread"} : Jump(c, l)
    PROVE  /\ task' \in [Conn -> Task]
           /\ \A d \in Conn : task'[d].time <= minute'
           /\ holder' = {d \in Conn : task'[d].pc \in {"rotate", "reread"}}
  <1>1. task[c] \in Task /\ task[c].time <= minute /\ 0 <= minute
    BY DEF LoginTypeOK
  <1>2. CASE Finish(c)
    BY <1>1, <1>2, Finishes, NoTaskFields, TaskType
  <1>3. ASSUME NEW l \in Labels \ {"rotate", "reread"}, Jump(c, l)
        PROVE  /\ task' \in [Conn -> Task]
               /\ \A d \in Conn : task'[d].time <= minute'
               /\ holder' = {d \in Conn : task'[d].pc \in {"rotate", "reread"}}
    <2>1. task' \in [Conn -> Task] /\ task'[c] = [task[c] EXCEPT !.pc = l]
             /\ \A d \in Conn \ {c} : task'[d] = task[d]
      BY <1>3, Jumps
    <2>2. task'[c].pc = l /\ task'[c].time = task[c].time
      BY <1>1, <2>1 DEF Task
    <2> QED
      BY <1>1, <1>3, <2>1, <2>2, TaskType
  <1> QED
    BY <1>2, <1>3

LEMMA ValidateTypes ==
    ASSUME LoginTypeOK, NEW c \in Conn, ValidatePassword(c) \/ ValidateCode(c)
    PROVE  LoginTypeOK'
  <1>1. task[c] \in Task /\ task[c].time <= minute /\ task[c].pc = "validate"
    BY DEF LoginTypeOK, ValidatePassword, ValidateCode
  <1>2. CASE ValidatePassword(c)
    <2> USE <1>2 DEF ValidatePassword
    <2>1. CASE Jump(c, "remove") /\ UNCHANGED <<sessions, failed, streak, verified>>
      <3>1. "remove" \in Labels \ {"rotate", "reread"}
        BY DEF Labels
      <3>2. /\ task' \in [Conn -> Task]
            /\ \A d \in Conn : task'[d].time <= minute'
            /\ holder' = {d \in Conn : task'[d].pc \in {"rotate", "reread"}}
        BY <1>1, <2>1, <3>1, TaskMoves
      <3> QED
        BY <2>1, <3>2 DEF LoginTypeOK
    <2>2. ASSUME NEW l \in {"success", "bump"},
                 task' = [task EXCEPT ![c].pc = l, ![c].against = temp]
          PROVE  /\ task' \in [Conn -> Task]
                 /\ \A d \in Conn : task'[d].time <= minute'
                 /\ holder' = {d \in Conn : task'[d].pc \in {"rotate", "reread"}}
      <3>1. [task[c] EXCEPT !.pc = l, !.against = temp] \in Task
        <4>1. l \in Labels /\ temp \in 0..MaxTemp
          BY DEF Labels, LoginTypeOK
        <4> QED
          BY <1>1, <4>1 DEF Task
      <3>2. task' = [task EXCEPT ![c] = [task[c] EXCEPT !.pc = l, !.against = temp]]
        BY <2>2 DEF LoginTypeOK
      <3>3. task' \in [Conn -> Task] /\ \A d \in Conn \ {c} : task'[d] = task[d]
        BY <3>1, <3>2 DEF LoginTypeOK
      <3>4. task'[c].pc = l /\ task'[c].time = task[c].time
        BY <1>1, <3>2 DEF LoginTypeOK, Task
      <3> QED
        BY <1>1, <3>3, <3>4, TaskType
    <2>3. CASE /\ sessions' = [sessions EXCEPT ![Session[c]] = [random_password |-> temp, tfa |-> FALSE]]
               /\ task' = [task EXCEPT ![c].pc = "success", ![c].against = temp]
               /\ verified' = verified \ {Session[c]}
               /\ UNCHANGED <<failed, streak>>
      <3>1. [random_password |-> temp, tfa |-> FALSE] \in [random_password : 0..MaxTemp, tfa : BOOLEAN]
        BY DEF LoginTypeOK
      <3>2. sessions' \in [SessionKey -> [random_password : 0..MaxTemp, tfa : BOOLEAN] \cup {NoSession}]
        BY <2>3, <3>1, LoginAssumption DEF LoginTypeOK
      <3> QED
        BY <2>2, <2>3, <3>2 DEF LoginTypeOK
    <2>4. CASE /\ task' = [task EXCEPT ![c].pc = "bump", ![c].against = temp]
               /\ Fail(c)
               /\ streak' = streak + 1
               /\ UNCHANGED <<sessions, verified>>
      BY <2>2, <2>4, FailType DEF LoginTypeOK
    <2> QED
      BY <2>1, <2>3, <2>4
  <1>3. CASE ValidateCode(c)
    <2> USE <1>3 DEF ValidateCode
    <2>1. Finish(c) \/ \E l \in Labels \ {"rotate", "reread"} : Jump(c, l)
      BY DEF Labels
    <2>2. failed' \in [Stage -> [Key -> Nat]]
      BY FailType DEF LoginTypeOK
    <2>3. UNCHANGED <<shared, tries, streak, forgiven, verified>>
      OBVIOUS
    <2>4. minute' = minute /\ holder' = holder
      BY <2>3 DEF shared
    <2>5. /\ task' \in [Conn -> Task]
          /\ \A d \in Conn : task'[d].time <= minute'
          /\ holder' = {d \in Conn : task'[d].pc \in {"rotate", "reread"}}
      BY <1>1, <2>1, <2>4, TaskMoves
    <2> QED
      BY <2>2, <2>3, <2>5 DEF LoginTypeOK, shared
  <1> QED
    BY <1>2, <1>3

(* The steps after a login that was let in or turned down.                 *)
LEMMA SessionTypes ==
    ASSUME LoginTypeOK, NEW c \in Conn,
           \/ Tfa(c) \/ Logon(c) \/ LogonFails(c) \/ Authorize(c)
           \/ \E forget \in BOOLEAN : Close(c, forget)
    PROVE  LoginTypeOK'
  <1>1. Finish(c) \/ \E l \in Labels \ {"rotate", "reread"} : Jump(c, l)
    BY DEF Tfa, Logon, LogonFails, Authorize, Close, Labels
  <1>2. task[c].pc \notin {"rotate", "reread"}
    BY DEF Tfa, Logon, LogonFails, Authorize, Close
  <1>3. UNCHANGED <<minute, login_failures, temp, guard, holder, tries, failed, streak, forgiven>>
    BY DEF Tfa, Logon, LogonFails, Authorize, Close, shared, ghosts
  <1>4. /\ task' \in [Conn -> Task]
        /\ \A d \in Conn : task'[d].time <= minute'
        /\ holder' = {d \in Conn : task'[d].pc \in {"rotate", "reread"}}
    BY <1>1, <1>2, <1>3, TaskMoves
  <1>5. sessions' \in [SessionKey -> [random_password : 0..MaxTemp, tfa : BOOLEAN] \cup {NoSession}]
    <2> DEFINE R == [random_password : 0..MaxTemp, tfa : BOOLEAN]
    <2>1. CASE Tfa(c)
      <3>1. [random_password |-> 0, tfa |-> TRUE] \in R
        BY LoginAssumption
      <3>2. sessions[Session[c]] # NoSession => [sessions[Session[c]] EXCEPT !.tfa = TRUE] \in R
        <4>1. sessions[Session[c]] # NoSession => sessions[Session[c]] \in R
          BY LoginAssumption DEF LoginTypeOK
        <4> QED
          BY <4>1
      <3> QED
        BY <2>1, <3>1, <3>2 DEF Tfa, LoginTypeOK
    <2>2. CASE ~Tfa(c)
      BY <2>2 DEF Logon, LogonFails, Authorize, Close, LoginTypeOK, shared
    <2> QED
      BY <2>1, <2>2
  <1>6. authorized' \in SUBSET Conn /\ require_2fa' \in SUBSET TwoFactor /\ verified' \in SUBSET SessionKey
    BY LoginAssumption DEF Tfa, Logon, LogonFails, Authorize, Close, LoginTypeOK, shared, ghosts
  <1> QED
    BY <1>3, <1>4, <1>5, <1>6 DEF LoginTypeOK

LEMMA SyncedType ==
    ASSUME LoginTypeOK
    PROVE  /\ [password |-> temp, failures |-> 0] \in [password : 0..MaxTemp, failures : 0..MaxFailures]
           /\ Synced \in [password : 0..MaxTemp, failures : 0..MaxFailures]
  <1>1. temp \in 0..MaxTemp /\ 0 \in 0..MaxFailures
    BY LoginAssumption DEF LoginTypeOK
  <1> QED
    BY <1>1 DEF Synced, LoginTypeOK

LEMMA NewTempType ==
    ASSUME LoginTypeOK, NewTemp
    PROVE  temp' \in 1..MaxTemp /\ streak' \in Nat /\ forgiven' \in BOOLEAN
  <1>1. temp' \in 1..MaxTemp /\ streak' \in Nat
    BY LoginAssumption DEF NewTemp, LoginTypeOK
  <1>2. forgiven' \in BOOLEAN
    BY DEF NewTemp
  <1> QED
    BY <1>1, <1>2

(* The counter of the temporary password and its lock.                     *)
LEMMA GuardTypes ==
    ASSUME LoginTypeOK, CounterLags, NEW c \in Conn,
           Count(c) \/ Rotate(c) \/ Reread(c) \/ Success(c)
    PROVE  LoginTypeOK'
  <1>1. task[c] \in Task /\ task[c].time <= minute /\ 0 <= minute
    BY DEF LoginTypeOK
  <1>2. CASE Count(c)
    <2> USE <1>2 DEF Count
    <2>1. Synced.failures < MaxFailures
      BY LoginAssumption DEF Synced, CounterLags
    <2>2. Synced \in [password : 0..MaxTemp, failures : 0..MaxFailures]
      BY SyncedType
    <2>3. [Synced EXCEPT !.failures = @ + 1] \in [password : 0..MaxTemp, failures : 0..MaxFailures]
      <3>1. Synced.failures + 1 \in 0..MaxFailures
        BY <2>1, <2>2, LoginAssumption
      <3> QED
        BY <2>2, <3>1
    <2>4. guard' \in [password : 0..MaxTemp, failures : 0..MaxFailures]
      BY <2>3 DEF LoginTypeOK
    <2>5. CASE Finish(c) /\ UNCHANGED holder
      <3>1. /\ task' \in [Conn -> Task]
            /\ \A d \in Conn : task'[d].time <= minute'
            /\ holder' = {d \in Conn : task'[d].pc \in {"rotate", "reread"}}
        BY <2>5, TaskMoves
      <3> QED
        BY <2>4, <2>5, <3>1 DEF LoginTypeOK, ghosts
    <2>6. CASE Jump(c, "rotate") /\ holder' = {c}
      <3>1. task' \in [Conn -> Task] /\ task'[c] = [task[c] EXCEPT !.pc = "rotate"]
              /\ \A d \in Conn \ {c} : task'[d] = task[d]
        BY <2>6, Jumps DEF Labels
      <3>2. task'[c].pc = "rotate" /\ task'[c].time = task[c].time
        BY <1>1, <3>1 DEF Task
      <3>3. \A d \in Conn : task[d].pc \notin {"rotate", "reread"}
        BY DEF LoginTypeOK
      <3>4. /\ \A d \in Conn : task'[d].time <= minute'
            /\ holder' = {d \in Conn : task'[d].pc \in {"rotate", "reread"}}
        BY <2>6, <3>1, <3>2, <3>3 DEF LoginTypeOK
      <3> QED
        BY <2>4, <2>6, <3>1, <3>4 DEF LoginTypeOK, ghosts
    <2> QED
      BY <2>5, <2>6
  <1>3. CASE Rotate(c)
    <2> USE <1>3 DEF Rotate
    <2>1. task' \in [Conn -> Task] /\ task'[c] = [task[c] EXCEPT !.pc = "reread"]
            /\ \A d \in Conn \ {c} : task'[d] = task[d]
      BY Jumps DEF Labels
    <2>2. task'[c].pc = "reread" /\ task'[c].time = task[c].time
      BY <1>1, <2>1 DEF Task
    <2>3. /\ \A d \in Conn : task'[d].time <= minute'
          /\ holder' = {d \in Conn : task'[d].pc \in {"rotate", "reread"}}
      BY <2>1, <2>2 DEF LoginTypeOK
    <2>4. temp' \in 1..MaxTemp /\ streak' \in Nat /\ forgiven' \in BOOLEAN
      BY NewTempType
    <2> QED
      BY <2>1, <2>3, <2>4 DEF LoginTypeOK
  <1>4. CASE Reread(c)
    <2> USE <1>4 DEF Reread
    <2>1. task' \in [Conn -> Task] /\ task'[c] = NoTask
            /\ \A d \in Conn \ {c} : task'[d] = task[d]
      BY Finishes
    <2>2. task'[c].pc = "idle" /\ task'[c].time = 0
      BY <2>1, NoTaskFields
    <2>3. /\ \A d \in Conn : task'[d].time <= minute'
          /\ holder' = {d \in Conn : task'[d].pc \in {"rotate", "reread"}}
      <3>1. holder = {c}
        BY DEF LoginTypeOK, CounterLags
      <3> QED
        BY <1>1, <2>1, <2>2, <3>1 DEF LoginTypeOK
    <2> QED
      BY <2>1, <2>3, SyncedType DEF LoginTypeOK, ghosts
  <1>5. CASE Success(c)
    <2> USE <1>5 DEF Success
    <2>1. /\ task' \in [Conn -> Task]
          /\ \A d \in Conn : task'[d].time <= minute'
          /\ holder' = {d \in Conn : task'[d].pc \in {"rotate", "reread"}}
      BY TaskMoves DEF Labels
    <2>2. [password |-> temp, failures |-> 0] \in [password : 0..MaxTemp, failures : 0..MaxFailures]
      BY SyncedType
    <2>3. streak' \in Nat
      BY DEF LoginTypeOK
    <2>4. forgiven' \in BOOLEAN
      BY DEF LoginTypeOK
    <2> QED
      BY <2>1, <2>2, <2>3, <2>4 DEF LoginTypeOK
  <1> QED
    BY <1>2, <1>3, <1>4, <1>5

-----------------------------------------------------------------------------
(* No failure is lost.                                                     *)

LEMMA EntryFields ==
    ASSUME LoginTypeOK, NEW i \in Stage, NEW k \in Key
    PROVE  /\ login_failures[i][k] \in Entry
           /\ login_failures[i][k].at \in 0..MaxMinute
           /\ login_failures[i][k].n \in 0..MaxTries
           /\ login_failures[i][k].total \in 0..MaxTries
           /\ failed[i][k] \in Nat
  <1>1. login_failures[i][k] \in Entry
    BY DEF LoginTypeOK
  <1> QED
    BY <1>1 DEF LoginTypeOK, Entry

LEMMA UnrecordedCard ==
    ASSUME NEW i, NEW k
    PROVE  /\ Unrecorded(i, k) \in SUBSET Conn /\ Cardinality(Unrecorded(i, k)) \in Nat
           /\ Pending \in SUBSET Conn /\ Cardinality(Pending) \in Nat
  <1>1. Unrecorded(i, k) \in SUBSET Conn /\ Pending \in SUBSET Conn
    BY DEF Unrecorded, Pending
  <1> QED
    BY <1>1, ConnCard

(* A step that neither fails nor records, of a connection that is not      *)
(* about to record.                                                        *)
LEMMA FailuresKept ==
    ASSUME NoFailureLost, FailuresHadTries, LoginTypeOK, tries' \in Nat, tries <= tries',
           UNCHANGED <<login_failures, failed>>,
           Pending' \subseteq Pending,
           \A d \in Conn : /\ task'[d].pc = "bump" <=> task[d].pc = "bump"
                           /\ task[d].pc = "bump" => task'[d].stage = task[d].stage
    PROVE  NoFailureLost' /\ FailuresHadTries'
  <1>1. \A i, k : Unrecorded(i, k)' = Unrecorded(i, k)
    BY DEF Unrecorded
  <1>2. Pending \in SUBSET Conn /\ Pending' \in SUBSET Pending
    BY DEF Pending
  <1>3. Cardinality(Pending') <= Cardinality(Pending)
    BY <1>2, CardMono
  <1>4. Cardinality(Pending) \in Nat /\ Cardinality(Pending') \in Nat /\ tries \in Nat
    BY <1>2, ConnCard, LoginAssumption DEF LoginTypeOK
  <1>5. NoFailureLost'
    BY <1>1 DEF NoFailureLost
  <1>6. FailuresHadTries'
    <2> SUFFICES ASSUME NEW i \in Stage, NEW k \in Key
                 PROVE  failed[i][k] + Cardinality(Pending') <= tries'
      BY DEF FailuresHadTries
    <2>1. failed[i][k] + Cardinality(Pending) <= tries /\ failed[i][k] \in Nat
      BY EntryFields DEF FailuresHadTries
    <2> QED
      BY <1>3, <1>4, <2>1
  <1> QED
    BY <1>5, <1>6

(* A new attempt adds a try.                                               *)
LEMMA FailuresNewTry ==
    ASSUME NoFailureLost, FailuresHadTries, LoginTypeOK, NEW c \in Conn, tries' = tries + 1,
           UNCHANGED <<login_failures, failed>>,
           task[c].pc # "bump", task'[c].pc # "bump",
           \A d \in Conn \ {c} : task'[d] = task[d]
    PROVE  NoFailureLost' /\ FailuresHadTries'
  <1>1. \A i, k : Unrecorded(i, k)' = Unrecorded(i, k)
    BY DEF Unrecorded
  <1>2. Pending \in SUBSET Conn /\ Pending' \in SUBSET Conn /\ Pending' \subseteq Pending \cup {c}
    BY DEF Pending
  <1>3. Cardinality(Pending') <= Cardinality(Pending) + 1
    BY <1>2, CardGrow
  <1>4. Cardinality(Pending) \in Nat /\ Cardinality(Pending') \in Nat /\ tries \in Nat
    BY <1>2, ConnCard, LoginAssumption DEF LoginTypeOK
  <1>5. NoFailureLost'
    BY <1>1 DEF NoFailureLost
  <1>6. FailuresHadTries'
    <2> SUFFICES ASSUME NEW i \in Stage, NEW k \in Key
                 PROVE  failed[i][k] + Cardinality(Pending') <= tries'
      BY DEF FailuresHadTries
    <2>1. failed[i][k] + Cardinality(Pending) <= tries /\ failed[i][k] \in Nat
      BY EntryFields DEF FailuresHadTries
    <2> QED
      BY <1>3, <1>4, <2>1
  <1> QED
    BY <1>5, <1>6

(* A wrong guess: one attempt less under way, one failure more to record.  *)
LEMMA FailuresWrongGuess ==
    ASSUME NoFailureLost, FailuresHadTries, LoginTypeOK, NEW c \in Conn, Fail(c),
           UNCHANGED <<login_failures, tries>>,
           task[c].pc = "validate", task'[c].pc = "bump", task'[c].stage = task[c].stage,
           \A d \in Conn \ {c} : task'[d] = task[d]
    PROVE  NoFailureLost' /\ FailuresHadTries'
  <1>1. SUFFICES ASSUME NEW i \in Stage, NEW k \in Key
                 PROVE  /\ login_failures[i][k].total + Cardinality(Unrecorded(i, k)') = failed'[i][k]
                        /\ failed'[i][k] + Cardinality(Pending') <= tries
    BY DEF NoFailureLost, FailuresHadTries
  <1>2. Pending' = Pending \ {c} /\ c \in Pending /\ Pending \in SUBSET Conn
    BY DEF Pending
  <1>3. Cardinality(Pending') + 1 <= Cardinality(Pending)
    BY <1>2, CardDrop
  <1>4. /\ login_failures[i][k].total + Cardinality(Unrecorded(i, k)) = failed[i][k]
        /\ failed[i][k] + Cardinality(Pending) <= tries
    BY DEF NoFailureLost, FailuresHadTries
  <1>5. /\ Cardinality(Pending) \in Nat /\ Cardinality(Pending') \in Nat /\ tries \in Nat
        /\ Cardinality(Unrecorded(i, k)) \in Nat
        /\ failed[i][k] \in Nat /\ login_failures[i][k].total \in Nat
    BY <1>2, ConnCard, UnrecordedCard, EntryFields, LoginAssumption DEF LoginTypeOK
  <1>6. CASE i = task[c].stage /\ k \in Keys(c)
    <2>1. failed'[i][k] = failed[i][k] + 1
      BY <1>6 DEF Fail, LoginTypeOK
    <2>2. c \notin Unrecorded(i, k) /\ Unrecorded(i, k)' = Unrecorded(i, k) \cup {c}
      BY <1>6 DEF Unrecorded, Keys
    <2>3. Cardinality(Unrecorded(i, k)') = Cardinality(Unrecorded(i, k)) + 1
      <3>1. Unrecorded(i, k) \in SUBSET Conn /\ Unrecorded(i, k)' \in SUBSET Conn
        BY DEF Unrecorded
      <3> QED
        BY <2>2, <3>1, CardAdd
    <2> QED
      BY <1>3, <1>4, <1>5, <2>1, <2>3
  <1>7. CASE ~(i = task[c].stage /\ k \in Keys(c))
    <2>1. failed'[i][k] = failed[i][k]
      BY <1>7 DEF Fail, LoginTypeOK
    <2>2. Unrecorded(i, k)' = Unrecorded(i, k)
      BY <1>7 DEF Unrecorded, Keys
    <2> QED
      BY <1>3, <1>4, <1>5, <2>1, <2>2
  <1> QED
    BY <1>6, <1>7

(* What recording does to one entry.                                       *)
LEMMA BumpFields ==
    ASSUME NEW e \in Entry, NEW t \in 0..MaxMinute
    PROVE  LET b == BumpFailureEntry(e, t)
           IN  /\ b.at = t
               /\ b.n = (IF e.at = t THEN e.n + 1 ELSE 1)
               /\ b.total = e.total + 1
               /\ b.total \in 0..MaxTries /\ b.n \in 0..MaxTries => b \in Entry
  <1>1. e.at \in 0..MaxMinute /\ e.n \in 0..MaxTries /\ e.total \in 0..MaxTries
    BY DEF Entry
  <1>2. CASE e.at = t
    <2>1. BumpFailureEntry(e, t) = [e EXCEPT !.n = @ + 1, !.total = @ + 1]
      BY <1>2 DEF BumpFailureEntry
    <2> QED
      BY <1>1, <1>2, <2>1 DEF Entry
  <1>3. CASE e.at # t
    <2>1. BumpFailureEntry(e, t) = [at |-> t, n |-> 1, total |-> e.total + 1]
      BY <1>3 DEF BumpFailureEntry
    <2> QED
      BY <1>1, <1>3, <2>1 DEF Entry
  <1> QED
    BY <1>2, <1>3

(* Recording: the keys of the connection, and no other entry.              *)
LEMMA BumpEntries ==
    ASSUME LoginTypeOK, NEW c \in Conn, Bump(c), NEW i \in Stage, NEW k \in Key
    PROVE  login_failures'[i][k] =
              IF i = task[c].stage /\ k \in Keys(c)
              THEN BumpFailureEntry(login_failures[i][k], task[c].time)
              ELSE login_failures[i][k]
  BY DEF Bump, LoginTypeOK

LEMMA BumpTask ==
    ASSUME LoginTypeOK, NEW c \in Conn, Bump(c)
    PROVE  /\ task[c] \in Task /\ task[c].stage \in Stage /\ task[c].pc = "bump"
           /\ minute' = minute /\ holder' = holder
           /\ task' \in [Conn -> Task]
           /\ \A d \in Conn \ {c} : task'[d] = task[d]
           /\ task'[c].pc \in {"count", "idle"}
           /\ task[c].stage = "password" => task'[c] = [task[c] EXCEPT !.pc = "count"]
           /\ task[c].stage # "password" => task'[c] = NoTask
           /\ \A d \in Conn : task'[d].time <= minute'
           /\ holder' = {d \in Conn : task'[d].pc \in {"rotate", "reread"}}
  <1>1. task[c] \in Task /\ task[c].pc = "bump" /\ minute' = minute /\ holder' = holder
    BY DEF Bump, LoginTypeOK
  <1>2. task[c].stage \in Stage
    BY <1>1 DEF Task
  <1>3. "count" \in Labels \ {"rotate", "reread"}
    BY DEF Labels
  <1>4. CASE task[c].stage = "password"
    <2>1. Jump(c, "count")
      BY <1>4 DEF Bump
    <2>2. task'[c].pc = "count"
      <3>1. task'[c] = [task[c] EXCEPT !.pc = "count"]
        BY <1>3, <2>1, Jumps
      <3> QED
        BY <1>1, <3>1 DEF Task
    <2> QED
      BY <1>1, <1>2, <1>3, <1>4, <2>1, <2>2, Jumps, TaskMoves
  <1>5. CASE task[c].stage # "password"
    <2>1. Finish(c)
      BY <1>5 DEF Bump
    <2> QED
      BY <1>1, <1>2, <1>5, <2>1, Finishes, NoTaskFields, TaskMoves
  <1> QED
    BY <1>4, <1>5

(* Recording keeps types and moves one failure into each of its buckets.   *)
LEMMA FailuresBump ==
    ASSUME LoginTypeOK, NoFailureLost, FailuresHadTries, NEW c \in Conn, Bump(c)
    PROVE  LoginTypeOK' /\ NoFailureLost' /\ FailuresHadTries'
  <1>1. UNCHANGED <<minute, temp, guard, holder, sessions, authorized, require_2fa, tries, ghosts>>
    BY DEF Bump
  <1>2. failed' = failed /\ tries' = tries /\ tries \in 0..MaxTries
    BY <1>1 DEF ghosts, LoginTypeOK
  <1>3. task[c].time \in 0..MaxMinute
    BY BumpTask DEF Task
  <1>4. Pending' = Pending
    BY BumpTask DEF Pending
  <1>5. ASSUME NEW i \in Stage, NEW k \in Key
        PROVE  /\ login_failures'[i][k] \in Entry
               /\ login_failures'[i][k].total + Cardinality(Unrecorded(i, k)') = failed[i][k]
               /\ login_failures'[i][k].n <= login_failures'[i][k].total
    <2> DEFINE e == login_failures[i][k]
    <2>1. e \in Entry /\ e.n \in 0..MaxTries /\ e.total \in 0..MaxTries /\ failed[i][k] \in Nat
      BY EntryFields
    <2>2. e.total + Cardinality(Unrecorded(i, k)) = failed[i][k] /\ e.n <= e.total
      BY DEF NoFailureLost, FailuresHadTries
    <2>3. CASE i = task[c].stage /\ k \in Keys(c)
      <3>1. Unrecorded(i, k)' = Unrecorded(i, k) \ {c} /\ c \in Unrecorded(i, k)
        BY <2>3, BumpTask DEF Unrecorded, Keys
      <3>2. Cardinality(Unrecorded(i, k)') = Cardinality(Unrecorded(i, k)) - 1
        BY <3>1, UnrecordedCard, ConnCard, FS_RemoveElement
      <3>3. Cardinality(Unrecorded(i, k)) \in Nat /\ Cardinality(Unrecorded(i, k)') \in Nat
        <4>1. Unrecorded(i, k)' \in SUBSET Conn
          BY <3>1, UnrecordedCard
        <4> QED
          BY <4>1, UnrecordedCard, ConnCard
      <3>4. login_failures'[i][k] = BumpFailureEntry(e, task[c].time)
        BY <2>3, BumpEntries
      <3>5. /\ login_failures'[i][k].n = (IF e.at = task[c].time THEN e.n + 1 ELSE 1)
            /\ login_failures'[i][k].total = e.total + 1
            /\ login_failures'[i][k].total \in 0..MaxTries /\ login_failures'[i][k].n \in 0..MaxTries
                 => login_failures'[i][k] \in Entry
        BY <1>3, <2>1, <3>4, BumpFields
      <3>6. failed[i][k] <= MaxTries
        <4>1. failed[i][k] + Cardinality(Pending) <= tries /\ Cardinality(Pending) \in Nat
          BY UnrecordedCard DEF FailuresHadTries
        <4> QED
          BY <1>2, <2>1, <4>1, LoginAssumption
      <3>7. /\ login_failures'[i][k].total + Cardinality(Unrecorded(i, k)') = failed[i][k]
            /\ login_failures'[i][k].n <= login_failures'[i][k].total
            /\ login_failures'[i][k].total \in 0..MaxTries /\ login_failures'[i][k].n \in 0..MaxTries
        <4> HIDE DEF e
        <4>1. MaxTries \in Nat
          BY LoginAssumption
        <4>2. login_failures'[i][k].total = e.total + 1 /\ e.total \in Nat /\ e.n \in Nat
          BY <2>1, <3>5, <4>1
        <4>3. login_failures'[i][k].total + Cardinality(Unrecorded(i, k)') = failed[i][k]
          BY <2>1, <2>2, <3>2, <3>3, <4>2
        <4>4. login_failures'[i][k].n \in Nat /\ login_failures'[i][k].n <= login_failures'[i][k].total
          BY <2>2, <3>5, <4>2
        <4> QED
          BY <2>1, <3>3, <3>6, <4>1, <4>2, <4>3, <4>4
      <3> QED
        BY <3>5, <3>7
    <2>4. CASE ~(i = task[c].stage /\ k \in Keys(c))
      <3>1. Unrecorded(i, k)' = Unrecorded(i, k)
        BY <2>4, BumpTask DEF Unrecorded, Keys
      <3>2. login_failures'[i][k] = e
        BY <2>4, BumpEntries
      <3> QED
        BY <2>1, <2>2, <3>1, <3>2
    <2> QED
      BY <2>3, <2>4
  <1>6. login_failures' \in [Stage -> [Key -> Entry]]
    <2>1. login_failures' = [i \in Stage |-> [k \in Key |-> login_failures'[i][k]]]
      BY DEF Bump, LoginTypeOK
    <2> QED
      BY <1>5, <2>1
  <1>7. LoginTypeOK'
    BY <1>1, <1>6, BumpTask DEF LoginTypeOK, ghosts
  <1>8. NoFailureLost' /\ FailuresHadTries'
    BY <1>2, <1>4, <1>5 DEF NoFailureLost, FailuresHadTries
  <1> QED
    BY <1>7, <1>8

LEMMA RemoveTask ==
    ASSUME LoginTypeOK, NEW c \in Conn, Remove(c)
    PROVE  /\ task[c].pc = "remove"
           /\ task' \in [Conn -> Task]
           /\ \A d \in Conn \ {c} : task'[d] = task[d]
           /\ task'[c].pc \in {"tfa", "logon"}
           /\ task'[c].stage = task[c].stage /\ task'[c].against = task[c].against
           /\ \A d \in Conn : task'[d].time <= minute'
           /\ holder' = {d \in Conn : task'[d].pc \in {"rotate", "reread"}}
  <1>1. task[c] \in Task /\ task[c].pc = "remove" /\ minute' = minute /\ holder' = holder
    BY DEF Remove, LoginTypeOK
  <1>2. PICK l \in {"tfa", "logon"} : Jump(c, l)
    BY DEF Remove
  <1>3. l \in Labels \ {"rotate", "reread"}
    BY DEF Labels
  <1>4. task'[c] = [task[c] EXCEPT !.pc = l]
    BY <1>2, <1>3, Jumps
  <1>5. task'[c].pc = l /\ task'[c].stage = task[c].stage /\ task'[c].against = task[c].against
    BY <1>1, <1>4 DEF Task
  <1> QED
    BY <1>1, <1>2, <1>3, <1>5, Jumps, TaskMoves

(* A success clears the buckets of its keys, or leaves them all.           *)
LEMMA RemoveEntries ==
    ASSUME LoginTypeOK, NEW c \in Conn, Remove(c), NEW i \in Stage, NEW k \in Key
    PROVE  \/ login_failures'[i][k] = login_failures[i][k] /\ failed'[i][k] = failed[i][k]
           \/ login_failures'[i][k] = NoEntry /\ failed'[i][k] = Cardinality(Unrecorded(i, k))
  BY DEF Remove, LoginTypeOK

LEMMA NoEntryFields ==
    NoEntry \in Entry /\ NoEntry.at = 0 /\ NoEntry.n = 0 /\ NoEntry.total = 0
  <1>1. 0 \in 0..MaxMinute /\ 0 \in 0..MaxTries
    BY LoginAssumption
  <1> QED
    BY <1>1 DEF NoEntry, Entry

LEMMA FailuresRemove ==
    ASSUME LoginTypeOK, NoFailureLost, FailuresHadTries, NEW c \in Conn, Remove(c)
    PROVE  LoginTypeOK' /\ NoFailureLost' /\ FailuresHadTries'
  <1>1. UNCHANGED <<minute, temp, guard, holder, sessions, authorized, require_2fa,
                    tries, streak, forgiven, verified>>
    BY DEF Remove
  <1>2. Pending' = Pending /\ \A i, k : Unrecorded(i, k)' = Unrecorded(i, k)
    BY RemoveTask DEF Pending, Unrecorded, Keys
  <1>3. ASSUME NEW i \in Stage, NEW k \in Key
        PROVE  /\ login_failures'[i][k] \in Entry
               /\ failed'[i][k] \in Nat
               /\ login_failures'[i][k].total + Cardinality(Unrecorded(i, k)) = failed'[i][k]
               /\ login_failures'[i][k].n <= login_failures'[i][k].total
               /\ failed'[i][k] + Cardinality(Pending) <= tries
    <2>1. /\ login_failures[i][k].total + Cardinality(Unrecorded(i, k)) = failed[i][k]
          /\ login_failures[i][k].n <= login_failures[i][k].total
          /\ failed[i][k] + Cardinality(Pending) <= tries
      BY DEF NoFailureLost, FailuresHadTries
    <2>2. /\ Cardinality(Unrecorded(i, k)) \in Nat /\ Cardinality(Pending) \in Nat
          /\ tries \in Nat /\ failed[i][k] \in Nat /\ login_failures[i][k].total \in Nat
          /\ login_failures[i][k] \in Entry
      BY EntryFields, UnrecordedCard, LoginAssumption DEF LoginTypeOK
    <2>3. CASE login_failures'[i][k] = login_failures[i][k] /\ failed'[i][k] = failed[i][k]
      BY <2>1, <2>2, <2>3
    <2>4. CASE login_failures'[i][k] = NoEntry /\ failed'[i][k] = Cardinality(Unrecorded(i, k))
      BY <2>1, <2>2, <2>4, NoEntryFields
    <2> QED
      BY <2>3, <2>4, RemoveEntries
  <1>4. /\ login_failures' \in [Stage -> [Key -> Entry]]
        /\ failed' \in [Stage -> [Key -> Nat]]
    <2>1. /\ login_failures' = [i \in Stage |-> [k \in Key |-> login_failures'[i][k]]]
          /\ failed' = [i \in Stage |-> [k \in Key |-> failed'[i][k]]]
      <3>1. CASE task[c].snap.at # 0
        <4>1. login_failures' = [i \in Stage |-> [k \in Key |-> login_failures'[i][k]]]
          BY <3>1 DEF Remove, LoginTypeOK
        <4>2. failed' = [i \in Stage |-> [k \in Key |-> failed'[i][k]]]
          BY <3>1 DEF Remove, LoginTypeOK
        <4> QED
          BY <4>1, <4>2
      <3>2. CASE task[c].snap.at = 0
        BY <3>2 DEF Remove, LoginTypeOK
      <3> QED
        BY <3>1, <3>2
    <2> QED
      BY <1>3, <2>1
  <1>5. LoginTypeOK'
    BY <1>1, <1>4, RemoveTask DEF LoginTypeOK
  <1>6. NoFailureLost' /\ FailuresHadTries'
    BY <1>1, <1>2, <1>3 DEF NoFailureLost, FailuresHadTries
  <1> QED
    BY <1>5, <1>6

(* The end of a connection, and the steps that are no connection's.        *)
LEMMA OtherTypes ==
    ASSUME LoginTypeOK,
           \/ \E c \in Conn : Closed(c)
           \/ Tick
           \/ \E k \in SessionKey : Expire(k)
           \/ UpdateTemporaryPassword
           \/ UNCHANGED vars
    PROVE  LoginTypeOK'
  <1>1. ASSUME NEW c \in Conn, Closed(c)
        PROVE  LoginTypeOK'
    <2> USE <1>1 DEF Closed
    <2>1. [NoTask EXCEPT !.pc = "closed"] \in Task
      BY NoTaskType DEF Task, Labels
    <2>2. [NoTask EXCEPT !.pc = "closed"].pc = "closed" /\ [NoTask EXCEPT !.pc = "closed"].time = 0
      BY NoTaskType, NoTaskFields DEF Task
    <2>3. task' \in [Conn -> Task] /\ task'[c] = [NoTask EXCEPT !.pc = "closed"]
            /\ \A d \in Conn \ {c} : task'[d] = task[d]
      BY <2>1 DEF LoginTypeOK
    <2>4. minute' = minute /\ holder' = holder /\ 0 <= minute
      BY DEF LoginTypeOK
    <2>5. /\ \A d \in Conn : task'[d].time <= minute'
          /\ holder' = {d \in Conn : task'[d].pc \in {"rotate", "reread"}}
      BY <2>2, <2>3, <2>4, TaskType
    <2>6. temp' \in 1..MaxTemp /\ streak' \in Nat /\ forgiven' \in BOOLEAN
      BY NewTempType DEF LoginTypeOK
    <2> QED
      BY <2>3, <2>5, <2>6 DEF LoginTypeOK
  <1>2. CASE Tick
    <2>1. minute' \in 1..MaxMinute /\ minute <= minute' /\ minute \in Nat
      BY <1>2, LoginAssumption DEF Tick, LoginTypeOK
    <2>2. \A d \in Conn : task[d].time <= minute'
      <3> SUFFICES ASSUME NEW d \in Conn PROVE task[d].time <= minute'
        OBVIOUS
      <3>1. task[d].time \in Nat /\ task[d].time <= minute
        BY LoginAssumption DEF LoginTypeOK, Task
      <3> QED
        BY <2>1, <3>1
    <2> QED
      BY <1>2, <2>1, <2>2 DEF Tick, LoginTypeOK, ghosts
  <1>3. ASSUME NEW k \in SessionKey, Expire(k)
        PROVE  LoginTypeOK'
    BY <1>3 DEF Expire, LoginTypeOK, ghosts
  <1>4. CASE UpdateTemporaryPassword
    BY <1>4, NewTempType DEF UpdateTemporaryPassword, LoginTypeOK
  <1>5. CASE UNCHANGED vars
    BY <1>5 DEF vars, shared, ghosts, LoginTypeOK
  <1> QED
    BY <1>1, <1>2, <1>3, <1>4, <1>5

(* A step of one task that is not concerned with failures.                 *)
LEMMA FailuresElsewhere ==
    ASSUME LoginTypeOK, NoFailureLost, FailuresHadTries, NEW c \in Conn,
           UNCHANGED <<login_failures, failed, tries>>,
           task[c].pc # "bump", task'[c].pc # "bump",
           task'[c].pc \in {"check", "validate"} => task[c].pc \in {"check", "validate"},
           \A d \in Conn \ {c} : task'[d] = task[d]
    PROVE  NoFailureLost' /\ FailuresHadTries'
  <1>1. tries \in Nat
    BY LoginAssumption DEF LoginTypeOK
  <1>2. Pending' \subseteq Pending
    BY DEF Pending
  <1> QED
    BY <1>1, <1>2, FailuresKept

(* Where a task is after a step other than those of the failures.          *)
LEMMA TaskAfter ==
    ASSUME LoginTypeOK, NEW c \in Conn,
           \/ CheckPrefix(c) \/ CheckIp(c) \/ Count(c) \/ Rotate(c) \/ Reread(c) \/ Success(c)
           \/ Tfa(c) \/ Logon(c) \/ LogonFails(c) \/ Closed(c) \/ Authorize(c)
           \/ \E forget \in BOOLEAN : Close(c, forget)
    PROVE  /\ \A d \in Conn \ {c} : task'[d] = task[d]
           /\ UNCHANGED <<login_failures, failed, tries>>
           /\ task[c].pc \notin {"bump", "validate"}
           /\ task'[c].pc # "bump"
           /\ task'[c].pc \in {"check", "validate"} => task[c].pc = "check"
  <1>1. task[c] \in Task
    BY DEF LoginTypeOK
  <1>2. task[c].pc \notin {"bump", "validate"}
    BY DEF CheckPrefix, CheckIp, Count, Rotate, Reread, Success, Tfa, Logon, LogonFails,
           Closed, Authorize, Close
  <1>3. UNCHANGED <<login_failures, failed, tries>>
    BY DEF CheckPrefix, CheckIp, Count, Rotate, Reread, Success, Tfa, Logon, LogonFails,
           Closed, Authorize, Close, shared, ghosts
  <1>4. CASE Finish(c)
    BY <1>2, <1>3, <1>4, Finishes, NoTaskFields
  <1>5. ASSUME NEW l \in {"rotate", "reread", "remove", "logon", "closing"}, Jump(c, l)
        PROVE  /\ \A d \in Conn \ {c} : task'[d] = task[d]
               /\ task'[c].pc \notin {"bump", "check", "validate"}
    <2>1. l \in Labels
      BY DEF Labels
    <2>2. task'[c] = [task[c] EXCEPT !.pc = l] /\ \A d \in Conn \ {c} : task'[d] = task[d]
      BY <1>5, <2>1, Jumps
    <2> QED
      BY <1>1, <2>2 DEF Task
  <1>6. CASE CheckPrefix(c) /\ ~Finish(c)
    <2>1. task' = [task EXCEPT ![c].left = Tail(@)] /\ task[c].pc = "check"
      BY <1>6 DEF CheckPrefix
    <2> QED
      BY <1>1, <1>2, <1>3, <2>1 DEF LoginTypeOK, Task
  <1>7. CASE CheckIp(c) /\ ~Finish(c)
    <2>1. /\ task' = [task EXCEPT ![c].pc = "validate",
                                  ![c].snap = login_failures[task[c].stage][Ip[c]]]
          /\ task[c].pc = "check"
      BY <1>7 DEF CheckIp
    <2>2. task'[c].pc = "validate" /\ \A d \in Conn \ {c} : task'[d] = task[d]
      BY <1>1, <2>1 DEF LoginTypeOK, Task
    <2> QED
      BY <1>2, <1>3, <2>1, <2>2
  <1>8. CASE Closed(c)
    <2>1. task'[c] = [NoTask EXCEPT !.pc = "closed"] /\ \A d \in Conn \ {c} : task'[d] = task[d]
      BY <1>8 DEF Closed, LoginTypeOK
    <2>2. task'[c].pc = "closed"
      BY <2>1, NoTaskType DEF Task
    <2> QED
      BY <1>2, <1>3, <2>1, <2>2
  <1>9. CASE ~CheckPrefix(c) /\ ~CheckIp(c) /\ ~Closed(c)
    <2>1. Finish(c) \/ \E l \in {"rotate", "reread", "remove", "logon", "closing"} : Jump(c, l)
      BY <1>9 DEF Count, Rotate, Reread, Success, Tfa, Logon, LogonFails, Authorize, Close
    <2> QED
      BY <1>2, <1>3, <1>4, <1>5, <2>1
  <1> QED
    BY <1>4, <1>6, <1>7, <1>8, <1>9

(* Every step keeps the types and loses no failure.                        *)
LEMMA FailuresStep ==
    ASSUME LoginIInv, [LoginNext]_vars
    PROVE  LoginTypeOK' /\ NoFailureLost' /\ FailuresHadTries'
  <1> USE DEF LoginIInv, LoginInv
  <1>1. ASSUME NEW c \in Conn, NEW g \in (1..temp) \cup {Permanent, Wrong}, Login(c, g)
        PROVE  LoginTypeOK' /\ NoFailureLost' /\ FailuresHadTries'
    <2>1. /\ tries' = tries + 1 /\ UNCHANGED <<login_failures, failed>> /\ task[c].pc = "idle"
          /\ \A d \in Conn \ {c} : task'[d] = task[d]
      BY <1>1 DEF Login, shared, ghosts, LoginTypeOK
    <2>2. task'[c].pc # "bump"
      BY <1>1 DEF Login, LoginTypeOK, NoTask
    <2> QED
      BY <1>1, <2>1, <2>2, LoginTypes, FailuresNewTry
  <1>2. ASSUME NEW c \in Conn, NEW g \in {Code, Wrong}, Auth2fa(c, g)
        PROVE  LoginTypeOK' /\ NoFailureLost' /\ FailuresHadTries'
    <2>1. /\ tries' = tries + 1 /\ UNCHANGED <<login_failures, failed>> /\ task[c].pc = "idle"
          /\ \A d \in Conn \ {c} : task'[d] = task[d]
      BY <1>2 DEF Auth2fa, shared, ghosts, LoginTypeOK
    <2>2. task'[c].pc # "bump"
      BY <1>2 DEF Auth2fa, LoginTypeOK, NoTask
    <2> QED
      BY <1>2, <2>1, <2>2, Auth2faTypes, FailuresNewTry
  <1>3. ASSUME NEW c \in Conn, ValidatePassword(c) \/ ValidateCode(c)
        PROVE  LoginTypeOK' /\ NoFailureLost' /\ FailuresHadTries'
    <2>1. task[c] \in Task /\ task[c].pc = "validate" /\ UNCHANGED <<login_failures, tries>>
      BY <1>3 DEF ValidatePassword, ValidateCode, LoginTypeOK, shared
    <2>2. CASE Fail(c) /\ (Jump(c, "bump") \/ task' = [task EXCEPT ![c].pc = "bump", ![c].against = temp])
      <3>1. task'[c].pc = "bump" /\ task'[c].stage = task[c].stage /\ \A d \in Conn \ {c} : task'[d] = task[d]
        BY <2>1, <2>2 DEF Jump, LoginTypeOK, Task
      <3> QED
        BY <1>3, <2>1, <2>2, <3>1, ValidateTypes, FailuresWrongGuess
    <2>3. CASE UNCHANGED failed /\ (Finish(c) \/ Jump(c, "remove")
                                    \/ task' = [task EXCEPT ![c].pc = "success", ![c].against = temp])
      <3>1. /\ \A d \in Conn \ {c} : task'[d] = task[d]
            /\ task'[c].pc \in {"idle", "remove", "success"}
        BY <2>1, <2>3, NoTaskFields DEF Jump, Finish, LoginTypeOK, Task
      <3> QED
        BY <1>3, <2>1, <2>3, <3>1, ValidateTypes, FailuresElsewhere
    <2> QED
      BY <1>3, <2>2, <2>3 DEF ValidatePassword, ValidateCode
  <1>4. ASSUME NEW c \in Conn, Bump(c) \/ Remove(c)
        PROVE  LoginTypeOK' /\ NoFailureLost' /\ FailuresHadTries'
    BY <1>4, FailuresBump, FailuresRemove
  <1>5. ASSUME NEW c \in Conn,
           \/ CheckPrefix(c) \/ CheckIp(c) \/ Count(c) \/ Rotate(c) \/ Reread(c) \/ Success(c)
           \/ Tfa(c) \/ Logon(c) \/ LogonFails(c) \/ Closed(c) \/ Authorize(c)
           \/ \E forget \in BOOLEAN : Close(c, forget)
        PROVE  LoginTypeOK' /\ NoFailureLost' /\ FailuresHadTries'
    <2>1. NoFailureLost' /\ FailuresHadTries'
      BY <1>5, TaskAfter, FailuresElsewhere
    <2>2. LoginTypeOK'
      BY <1>5, CheckTypes, GuardTypes, SessionTypes, OtherTypes
    <2> QED
      BY <2>1, <2>2
  <1>6. CASE Tick \/ (\E k \in SessionKey : Expire(k)) \/ UpdateTemporaryPassword \/ UNCHANGED vars
    <2>1. UNCHANGED <<login_failures, failed, tries, task>>
      BY <1>6 DEF Tick, Expire, UpdateTemporaryPassword, vars, shared, ghosts
    <2>2. tries \in Nat
      BY LoginAssumption DEF LoginTypeOK
    <2>3. Pending' = Pending
      BY <2>1 DEF Pending
    <2>4. NoFailureLost' /\ FailuresHadTries'
      BY <2>1, <2>2, <2>3, FailuresKept
    <2> QED
      BY <1>6, <2>4, OtherTypes
  <1> QED
    BY <1>1, <1>2, <1>3, <1>4, <1>5, <1>6 DEF LoginNext, Step

-----------------------------------------------------------------------------
(* What gets past the limits.                                              *)

LEMMA PassedCard ==
    ASSUME NEW i, NEW k
    PROVE  /\ Sharing(k) \in SUBSET Conn /\ Cardinality(Sharing(k)) \in Nat
           /\ Passed(i, k) \in SUBSET Sharing(k)
           /\ Cardinality(Passed(i, k)) \in Nat
           /\ Cardinality(Passed(i, k)) <= Cardinality(Sharing(k))
           /\ PassedMinute(i, k) \in SUBSET Sharing(k)
           /\ Cardinality(PassedMinute(i, k)) \in Nat
           /\ Cardinality(PassedMinute(i, k)) <= Cardinality(Sharing(k))
  <1>1. Sharing(k) \in SUBSET Conn /\ Passed(i, k) \in SUBSET Sharing(k)
    BY DEF Sharing, Passed
  <1>2. PassedMinute(i, k) \in SUBSET Sharing(k)
    BY DEF Sharing, PassedMinute, Keys
  <1> QED
    BY <1>1, <1>2, ConnCard, CardMono

LEMMA PassedCardNext ==
    ASSUME NEW i, NEW k
    PROVE  /\ Passed(i, k)' \in SUBSET Sharing(k)
           /\ Cardinality(Passed(i, k)') \in Nat
           /\ Cardinality(Passed(i, k)') <= Cardinality(Sharing(k))
           /\ PassedMinute(i, k)' \in SUBSET Sharing(k)
           /\ Cardinality(PassedMinute(i, k)') \in Nat
           /\ Cardinality(PassedMinute(i, k)') <= Cardinality(Sharing(k))
  <1>1. Sharing(k) \in SUBSET Conn /\ Passed(i, k)' \in SUBSET Sharing(k)
    BY DEF Sharing, Passed, Keys
  <1>2. PassedMinute(i, k)' \in SUBSET Sharing(k)
    BY DEF Sharing, PassedMinute, Keys
  <1> QED
    BY <1>1, <1>2, ConnCard, CardMono

LEMMA LimitTypes ==
    /\ MinuteLimit \in Nat
    /\ \A k \in Key : Limit[k] \in Nat
    /\ \A c \in Conn : Ip[c] \in Key
  BY LoginAssumption

(* The minute: nobody else gets past its check, unless within its limit.   *)
LEMMA MinuteKept ==
    ASSUME LoginTypeOK, MinuteBounded, UNCHANGED login_failures,
           \A i \in Stage, k \in Key : \/ PassedMinute(i, k)' \subseteq PassedMinute(i, k)
                                       \/ login_failures[i][k].n <= MinuteLimit
    PROVE  MinuteBounded'
  <1>1. ASSUME NEW i \in Stage, NEW c \in Conn
        PROVE  login_failures'[i][Ip[c]].n + Cardinality(PassedMinute(i, Ip[c])')
                  <= MinuteLimit + Cardinality(Sharing(Ip[c]))
    <2>1. login_failures[i][Ip[c]].n + Cardinality(PassedMinute(i, Ip[c]))
             <= MinuteLimit + Cardinality(Sharing(Ip[c]))
      BY DEF MinuteBounded
    <2>2. /\ login_failures[i][Ip[c]].n \in Nat /\ Cardinality(PassedMinute(i, Ip[c])) \in Nat
          /\ Cardinality(PassedMinute(i, Ip[c])') \in Nat /\ MinuteLimit \in Nat
          /\ Cardinality(Sharing(Ip[c])) \in Nat /\ Ip[c] \in Key
          /\ Cardinality(PassedMinute(i, Ip[c])') <= Cardinality(Sharing(Ip[c]))
      BY EntryFields, PassedCard, PassedCardNext, LimitTypes
    <2>3. CASE PassedMinute(i, Ip[c])' \subseteq PassedMinute(i, Ip[c])
      <3>1. PassedMinute(i, Ip[c]) \in SUBSET Conn
        BY DEF PassedMinute
      <3>2. Cardinality(PassedMinute(i, Ip[c])') <= Cardinality(PassedMinute(i, Ip[c]))
        BY <2>3, <3>1, CardMono
      <3> QED
        BY <2>1, <2>2, <3>2
    <2>4. CASE login_failures[i][Ip[c]].n <= MinuteLimit
      BY <2>2, <2>4
    <2> QED
      BY <2>2, <2>3, <2>4
  <1>2. \A k : Sharing(k)' = Sharing(k)
    BY DEF Sharing, Keys
  <1> QED
    BY <1>1, <1>2 DEF MinuteBounded

(* No entry changes and nobody else gets past a check.                     *)
LEMMA BoundsKept ==
    ASSUME LoginTypeOK, PassedBounded, MinuteBounded,
           UNCHANGED login_failures,
           \A i \in Stage, k \in Key : /\ Passed(i, k)' \subseteq Passed(i, k)
                                       /\ PassedMinute(i, k)' \subseteq PassedMinute(i, k)
    PROVE  PassedBounded' /\ MinuteBounded'
  <1>1. ASSUME NEW i \in Stage, NEW k \in Key
        PROVE  /\ Cardinality(Passed(i, k)') <= Cardinality(Passed(i, k))
               /\ Cardinality(PassedMinute(i, k)') <= Cardinality(PassedMinute(i, k))
    <2>1. Passed(i, k) \in SUBSET Conn /\ PassedMinute(i, k) \in SUBSET Conn
      BY DEF Passed, PassedMinute
    <2>2. Passed(i, k)' \in SUBSET Passed(i, k) /\ PassedMinute(i, k)' \in SUBSET PassedMinute(i, k)
      OBVIOUS
    <2> QED
      BY <2>1, <2>2, CardMono
  <1>2. ASSUME NEW i \in Stage, NEW k \in Key
        PROVE  login_failures'[i][k].total + Cardinality(Passed(i, k)')
                  <= Limit[k] + Cardinality(Sharing(k))
    <2>1. login_failures[i][k].total + Cardinality(Passed(i, k)) <= Limit[k] + Cardinality(Sharing(k))
      BY DEF PassedBounded
    <2>2. /\ login_failures[i][k].total \in Nat /\ Cardinality(Passed(i, k)) \in Nat
          /\ Cardinality(Passed(i, k)') \in Nat /\ Limit[k] \in Nat /\ Cardinality(Sharing(k)) \in Nat
      BY EntryFields, PassedCard, PassedCardNext, LimitTypes
    <2> QED
      BY <1>1, <2>1, <2>2
  <1>3. MinuteBounded'
    BY MinuteKept
  <1>4. \A k : Sharing(k)' = Sharing(k)
    BY DEF Sharing, Keys
  <1> QED
    BY <1>2, <1>3, <1>4 DEF PassedBounded, MinuteBounded

(* ... because every task that is past a check was so before.              *)
LEMMA BoundsElsewhere ==
    ASSUME LoginTypeOK, PassedBounded, MinuteBounded,
           UNCHANGED login_failures, NEW c \in Conn,
           \A d \in Conn \ {c} : task'[d] = task[d],
           \/ task'[c].pc \notin {"check", "validate", "bump"}
           \/ task'[c].pc = "check" /\ task'[c].left = Prefixes[c]
           \/ /\ task'[c].pc \in {"validate", "bump"} /\ task[c].pc \in {"validate", "bump"}
              /\ task'[c].stage = task[c].stage /\ task'[c].time = task[c].time
    PROVE  PassedBounded' /\ MinuteBounded'
  <1>1. ASSUME NEW i \in Stage, NEW k \in Key
        PROVE  /\ Passed(i, k)' \subseteq Passed(i, k)
               /\ PassedMinute(i, k)' \subseteq PassedMinute(i, k)
    <2>1. Passed(i, k)' \subseteq Passed(i, k)
      BY DEF Passed, Keys
    <2>2. PassedMinute(i, k)' \subseteq PassedMinute(i, k)
      BY DEF PassedMinute
    <2> QED
      BY <2>1, <2>2
  <1> QED
    BY <1>1, BoundsKept

(* What Tail leaves out is the head.                                       *)
LEMMA RangeTail ==
    ASSUME NEW s \in Seq(Key), s # <<>>, NEW x \in Range(s), x # Head(s)
    PROVE  x \in Range(Tail(s))
  <1>1. PICK n \in 1..Len(s) : x = s[n]
    BY DEF Range
  <1>2. n # 1 /\ n - 1 \in 1..Len(Tail(s)) /\ Tail(s)[n - 1] = x
    BY <1>1
  <1>3. DOMAIN Tail(s) = 1..Len(Tail(s))
    OBVIOUS
  <1> QED
    BY <1>2, <1>3 DEF Range

LEMMA RangeEmpty == Range(<<>>) = {}
  BY DEF Range

(* The check of a prefix lets one more past that prefix, if it is within   *)
(* its limit.                                                              *)
LEMMA BoundsCheckPrefix ==
    ASSUME LoginTypeOK, PassedBounded, MinuteBounded, NEW c \in Conn, CheckPrefix(c)
    PROVE  PassedBounded' /\ MinuteBounded'
  <1>1. /\ task[c] \in Task /\ task[c].pc = "check" /\ task[c].stage \in Stage
        /\ task[c].left \in Seq(Key) /\ task[c].left # <<>>
        /\ login_failures' = login_failures
    BY DEF CheckPrefix, LoginTypeOK, Task, shared
  <1>2. CASE Finish(c)
    BY <1>1, <1>2, Finishes, NoTaskFields, BoundsElsewhere
  <1>3. CASE ~Finish(c)
    <2> DEFINE k0 == Head(task[c].left)
    <2>1. ~(login_failures[task[c].stage][k0].total > Limit[k0]) /\ task' = [task EXCEPT ![c].left = Tail(@)]
      BY <1>3 DEF CheckPrefix
    <2>2. task'[c] = [task[c] EXCEPT !.left = Tail(@)] /\ \A d \in Conn \ {c} : task'[d] = task[d]
      BY <2>1 DEF LoginTypeOK
    <2>3. /\ task'[c].pc = "check" /\ task'[c].stage = task[c].stage
          /\ task'[c].left = Tail(task[c].left)
      BY <1>1, <2>2 DEF Task
    <2>4. ASSUME NEW i \in Stage, NEW k \in Key
          PROVE  PassedMinute(i, k)' \subseteq PassedMinute(i, k)
      BY <1>1, <2>2, <2>3 DEF PassedMinute
    <2>5. ASSUME NEW i \in Stage, NEW k \in Key, ~(i = task[c].stage /\ k = k0)
          PROVE  Passed(i, k)' \subseteq Passed(i, k)
      BY <1>1, <2>2, <2>3, <2>5, RangeTail DEF Passed, Keys
    <2>6. ASSUME NEW i \in Stage, NEW k \in Key
          PROVE  login_failures'[i][k].total + Cardinality(Passed(i, k)')
                    <= Limit[k] + Cardinality(Sharing(k))
      <3>1. /\ login_failures[i][k].total \in Nat /\ Cardinality(Passed(i, k)) \in Nat
            /\ Cardinality(Passed(i, k)') \in Nat /\ Limit[k] \in Nat /\ Cardinality(Sharing(k)) \in Nat
            /\ Cardinality(Passed(i, k)') <= Cardinality(Sharing(k))
        BY EntryFields, PassedCard, PassedCardNext, LimitTypes
      <3>2. CASE i = task[c].stage /\ k = k0
        BY <1>1, <2>1, <3>1, <3>2
      <3>3. CASE ~(i = task[c].stage /\ k = k0)
        <4>1. Passed(i, k) \in SUBSET Conn /\ Passed(i, k)' \in SUBSET Passed(i, k)
          BY <2>5, <3>3 DEF Passed
        <4>2. Cardinality(Passed(i, k)') <= Cardinality(Passed(i, k))
          BY <4>1, CardMono
        <4>3. login_failures[i][k].total + Cardinality(Passed(i, k)) <= Limit[k] + Cardinality(Sharing(k))
          BY DEF PassedBounded
        <4> QED
          BY <1>1, <3>1, <4>2, <4>3
      <3> QED
        BY <3>2, <3>3
    <2>7. MinuteBounded'
      BY <1>1, <2>4, MinuteKept
    <2>8. PassedBounded'
      BY <2>6 DEF PassedBounded, Sharing, Keys
    <2> QED
      BY <2>7, <2>8
  <1> QED
    BY <1>2, <1>3

(* The check of the address lets one more past it, if it is within both    *)
(* limits; its prefixes have been passed one by one.                       *)
LEMMA BoundsCheckIp ==
    ASSUME LoginTypeOK, PassedBounded, MinuteBounded, NEW c \in Conn, CheckIp(c)
    PROVE  PassedBounded' /\ MinuteBounded'
  <1>1. /\ task[c] \in Task /\ task[c].pc = "check" /\ task[c].stage \in Stage
        /\ task[c].left = <<>> /\ login_failures' = login_failures /\ Ip[c] \in Key
    BY LimitTypes DEF CheckIp, LoginTypeOK, Task, shared
  <1>2. CASE Finish(c)
    BY <1>1, <1>2, Finishes, NoTaskFields, BoundsElsewhere
  <1>3. CASE ~Finish(c)
    <2> DEFINE e == login_failures[task[c].stage][Ip[c]]
    <2>1. /\ ~(e.total > Limit[Ip[c]]) /\ ~(e.at = task[c].time /\ e.n > MinuteLimit)
          /\ task' = [task EXCEPT ![c].pc = "validate", ![c].snap = e]
      BY <1>3 DEF CheckIp
    <2>2. task'[c] = [task[c] EXCEPT !.pc = "validate", !.snap = e] /\ \A d \in Conn \ {c} : task'[d] = task[d]
      BY <2>1 DEF LoginTypeOK
    <2>3. task'[c].pc = "validate" /\ task'[c].stage = task[c].stage /\ task'[c].time = task[c].time
      BY <1>1, <2>2 DEF Task
    <2>4. ASSUME NEW i \in Stage, NEW k \in Key
          PROVE  login_failures'[i][k].total + Cardinality(Passed(i, k)')
                    <= Limit[k] + Cardinality(Sharing(k))
      <3>1. /\ login_failures[i][k].total \in Nat /\ Cardinality(Passed(i, k)) \in Nat
            /\ Cardinality(Passed(i, k)') \in Nat /\ Limit[k] \in Nat /\ Cardinality(Sharing(k)) \in Nat
            /\ Cardinality(Passed(i, k)') <= Cardinality(Sharing(k))
        BY EntryFields, PassedCard, PassedCardNext, LimitTypes
      <3>2. CASE i = task[c].stage /\ k = Ip[c]
        BY <1>1, <2>1, <3>1, <3>2
      <3>3. CASE ~(i = task[c].stage /\ k = Ip[c])
        <4>1. Passed(i, k) \in SUBSET Conn /\ Passed(i, k)' \in SUBSET Passed(i, k)
          BY <1>1, <2>2, <2>3, <3>3, RangeEmpty DEF Passed, Keys
        <4>2. Cardinality(Passed(i, k)') <= Cardinality(Passed(i, k))
          BY <4>1, CardMono
        <4>3. login_failures[i][k].total + Cardinality(Passed(i, k)) <= Limit[k] + Cardinality(Sharing(k))
          BY DEF PassedBounded
        <4> QED
          BY <1>1, <3>1, <4>2, <4>3
      <3> QED
        BY <3>2, <3>3
    <2>5. ASSUME NEW i \in Stage, NEW k \in Key
          PROVE  \/ PassedMinute(i, k)' \subseteq PassedMinute(i, k)
                 \/ login_failures[i][k].n <= MinuteLimit
      <3>1. CASE i = task[c].stage /\ k = Ip[c] /\ e.at = task[c].time
        BY <2>1, <3>1, LimitTypes, EntryFields
      <3>2. CASE ~(i = task[c].stage /\ k = Ip[c] /\ e.at = task[c].time)
        <4>1. c \notin PassedMinute(i, k)'
          BY <1>1, <2>3, <3>2 DEF PassedMinute
        <4>2. \A d \in Conn \ {c} : d \in PassedMinute(i, k)' => d \in PassedMinute(i, k)
          BY <1>1, <2>2 DEF PassedMinute
        <4>3. PassedMinute(i, k)' \subseteq Conn
          BY DEF PassedMinute
        <4> QED
          BY <4>1, <4>2, <4>3
      <3> QED
        BY <3>1, <3>2
    <2>6. MinuteBounded'
      BY <1>1, <2>5, MinuteKept
    <2>7. PassedBounded'
      BY <2>4 DEF PassedBounded, Sharing, Keys
    <2> QED
      BY <2>6, <2>7
  <1> QED
    BY <1>2, <1>3

(* Recording takes one from those past each check and adds it to the entry.*)
LEMMA BoundsBump ==
    ASSUME LoginTypeOK, PassedBounded, MinuteBounded, NEW c \in Conn, Bump(c)
    PROVE  PassedBounded' /\ MinuteBounded'
  <1>1. /\ task[c] \in Task /\ task[c].pc = "bump" /\ task[c].stage \in Stage
        /\ task'[c].pc \notin {"check", "validate", "bump"}
        /\ \A d \in Conn \ {c} : task'[d] = task[d]
        /\ task[c].time \in 0..MaxMinute
    BY BumpTask DEF Task
  <1>2. ASSUME NEW i \in Stage, NEW k \in Key
        PROVE  login_failures'[i][k].total + Cardinality(Passed(i, k)')
                  <= Limit[k] + Cardinality(Sharing(k))
    <2>1. /\ login_failures[i][k].total \in Nat /\ Cardinality(Passed(i, k)) \in Nat
          /\ Cardinality(Passed(i, k)') \in Nat /\ Limit[k] \in Nat /\ Cardinality(Sharing(k)) \in Nat
          /\ login_failures[i][k] \in Entry
      BY EntryFields, PassedCard, PassedCardNext, LimitTypes
    <2>2. login_failures[i][k].total + Cardinality(Passed(i, k)) <= Limit[k] + Cardinality(Sharing(k))
      BY DEF PassedBounded
    <2>3. Passed(i, k) \in SUBSET Conn /\ Passed(i, k)' \in SUBSET Passed(i, k) /\ c \notin Passed(i, k)'
      BY <1>1 DEF Passed, Keys
    <2>4. CASE i = task[c].stage /\ k \in Keys(c)
      <3>1. c \in Passed(i, k)
        BY <1>1, <2>4 DEF Passed
      <3>2. Cardinality(Passed(i, k)') + 1 <= Cardinality(Passed(i, k))
        BY <2>3, <3>1, CardDrop
      <3>3. login_failures'[i][k].total = login_failures[i][k].total + 1
        BY <1>1, <2>1, <2>4, BumpEntries, BumpFields
      <3> QED
        BY <2>1, <2>2, <3>2, <3>3
    <2>5. CASE ~(i = task[c].stage /\ k \in Keys(c))
      <3>1. login_failures'[i][k] = login_failures[i][k]
        BY <2>5, BumpEntries
      <3>2. Cardinality(Passed(i, k)') <= Cardinality(Passed(i, k))
        BY <2>3, CardMono
      <3> QED
        BY <2>1, <2>2, <3>1, <3>2
    <2> QED
      BY <2>4, <2>5
  <1>3. ASSUME NEW i \in Stage, NEW b \in Conn
        PROVE  login_failures'[i][Ip[b]].n + Cardinality(PassedMinute(i, Ip[b])')
                  <= MinuteLimit + Cardinality(Sharing(Ip[b]))
    <2> DEFINE k == Ip[b]
               e == login_failures[i][k]
               P == PassedMinute(i, k)
               Q == PassedMinute(i, k)'
    <2>1. k \in Key
      BY LimitTypes
    <2>2. /\ e \in Entry /\ e.n \in Nat /\ Cardinality(P) \in Nat /\ Cardinality(Q) \in Nat
          /\ MinuteLimit \in Nat /\ Cardinality(Sharing(k)) \in Nat
      BY <2>1, EntryFields, PassedCard, PassedCardNext, LimitTypes
    <2>3. e.n + Cardinality(P) <= MinuteLimit + Cardinality(Sharing(k))
      BY DEF MinuteBounded
    <2>4. c \notin Q /\ Q \in SUBSET Sharing(k) /\ Sharing(k) \in SUBSET Conn /\ P \in SUBSET Conn
      BY <1>1, PassedCard, PassedCardNext DEF PassedMinute
    <2>5. CASE i = task[c].stage /\ k \in Keys(c)
      <3>1. Ip[c] = k
        BY <2>5, LoginAssumption DEF Keys
      <3>2. login_failures'[i][k] = BumpFailureEntry(e, task[c].time)
        BY <2>1, <2>5, BumpEntries
      <3>3. /\ login_failures'[i][k].at = task[c].time
            /\ login_failures'[i][k].n = (IF e.at = task[c].time THEN e.n + 1 ELSE 1)
        BY <1>1, <2>2, <3>2, BumpFields
      <3>4. CASE e.at = task[c].time
        <4>1. c \in P /\ Q \in SUBSET P
          BY <1>1, <2>5, <3>1, <3>3, <3>4 DEF PassedMinute
        <4>2. Cardinality(Q) + 1 <= Cardinality(P)
          BY <2>4, <4>1, CardDrop
        <4>3. login_failures'[i][k].n = e.n + 1
          BY <3>3, <3>4
        <4> HIDE DEF e, P, Q
        <4>4. login_failures'[i][k].n + Cardinality(Q) <= MinuteLimit + Cardinality(Sharing(k))
          BY <2>2, <2>3, <4>2, <4>3
        <4> QED
          BY <4>4 DEF Q
      <3>5. CASE e.at # task[c].time
        <4>1. c \in Sharing(k)
          BY <2>5 DEF Sharing
        <4>2. Cardinality(Q) + 1 <= Cardinality(Sharing(k))
          BY <2>4, <4>1, CardDrop
        <4>3. login_failures'[i][k].n = 1
          BY <3>3, <3>5
        <4> HIDE DEF e, P, Q
        <4>4. login_failures'[i][k].n + Cardinality(Q) <= MinuteLimit + Cardinality(Sharing(k))
          BY <2>2, <4>2, <4>3
        <4> QED
          BY <4>4 DEF Q
      <3> QED
        BY <3>4, <3>5
    <2>6. CASE ~(i = task[c].stage /\ k \in Keys(c))
      <3>1. login_failures'[i][k] = e
        BY <2>1, <2>6, BumpEntries
      <3>2. Q \in SUBSET P
        BY <1>1, <2>4, <3>1 DEF PassedMinute
      <3>3. Cardinality(Q) <= Cardinality(P)
        BY <2>4, <3>2, CardMono
      <3> HIDE DEF e, P, Q
      <3>4. login_failures'[i][k].n + Cardinality(Q) <= MinuteLimit + Cardinality(Sharing(k))
        BY <2>2, <2>3, <3>1, <3>3
      <3> QED
        BY <3>4 DEF Q
    <2> QED
      BY <2>5, <2>6
  <1>4. \A k : Sharing(k)' = Sharing(k)
    BY DEF Sharing, Keys
  <1> QED
    BY <1>2, <1>3, <1>4 DEF PassedBounded, MinuteBounded

(* A success starts the counts of its keys anew.                           *)
LEMMA BoundsRemove ==
    ASSUME LoginTypeOK, PassedBounded, MinuteBounded, NEW c \in Conn, Remove(c)
    PROVE  PassedBounded' /\ MinuteBounded'
  <1>1. /\ task[c].pc = "remove" /\ task'[c].pc \notin {"check", "validate", "bump"}
        /\ \A d \in Conn \ {c} : task'[d] = task[d]
    BY RemoveTask
  <1>2. ASSUME NEW i \in Stage, NEW k \in Key
        PROVE  login_failures'[i][k].total + Cardinality(Passed(i, k)')
                  <= Limit[k] + Cardinality(Sharing(k))
    <2>1. /\ login_failures[i][k].total \in Nat /\ Cardinality(Passed(i, k)) \in Nat
          /\ Cardinality(Passed(i, k)') \in Nat /\ Limit[k] \in Nat /\ Cardinality(Sharing(k)) \in Nat
          /\ Cardinality(Passed(i, k)') <= Cardinality(Sharing(k))
      BY EntryFields, PassedCard, PassedCardNext, LimitTypes
    <2>2. CASE login_failures'[i][k] = NoEntry
      BY <2>1, <2>2, NoEntryFields
    <2>3. CASE login_failures'[i][k] = login_failures[i][k]
      <3>1. Passed(i, k) \in SUBSET Conn /\ Passed(i, k)' \in SUBSET Passed(i, k)
        BY <1>1 DEF Passed, Keys
      <3>2. Cardinality(Passed(i, k)') <= Cardinality(Passed(i, k))
        BY <3>1, CardMono
      <3>3. login_failures[i][k].total + Cardinality(Passed(i, k)) <= Limit[k] + Cardinality(Sharing(k))
        BY DEF PassedBounded
      <3> QED
        BY <2>1, <2>3, <3>2, <3>3
    <2> QED
      BY <2>2, <2>3, RemoveEntries
  <1>3. ASSUME NEW i \in Stage, NEW b \in Conn
        PROVE  login_failures'[i][Ip[b]].n + Cardinality(PassedMinute(i, Ip[b])')
                  <= MinuteLimit + Cardinality(Sharing(Ip[b]))
    <2> DEFINE k == Ip[b]
    <2>1. k \in Key
      BY LimitTypes
    <2>2. /\ login_failures[i][k].n \in Nat /\ Cardinality(PassedMinute(i, k)) \in Nat
          /\ Cardinality(PassedMinute(i, k)') \in Nat /\ MinuteLimit \in Nat
          /\ Cardinality(Sharing(k)) \in Nat
          /\ Cardinality(PassedMinute(i, k)') <= Cardinality(Sharing(k))
      BY <2>1, EntryFields, PassedCard, PassedCardNext, LimitTypes
    <2>3. CASE login_failures'[i][k] = NoEntry
      BY <2>2, <2>3, NoEntryFields
    <2>4. CASE login_failures'[i][k] = login_failures[i][k]
      <3>1. PassedMinute(i, k) \in SUBSET Conn /\ PassedMinute(i, k)' \in SUBSET PassedMinute(i, k)
        BY <1>1, <2>4 DEF PassedMinute
      <3>2. Cardinality(PassedMinute(i, k)') <= Cardinality(PassedMinute(i, k))
        BY <3>1, CardMono
      <3>3. login_failures[i][k].n + Cardinality(PassedMinute(i, k))
               <= MinuteLimit + Cardinality(Sharing(k))
        BY DEF MinuteBounded
      <3> QED
        BY <2>2, <2>4, <3>2, <3>3
    <2> QED
      BY <2>1, <2>3, <2>4, RemoveEntries
  <1>4. \A k : Sharing(k)' = Sharing(k)
    BY DEF Sharing, Keys
  <1> QED
    BY <1>2, <1>3, <1>4 DEF PassedBounded, MinuteBounded

(* Every step keeps what may get past the limits within them.              *)
LEMMA BoundsStep ==
    ASSUME LoginIInv, [LoginNext]_vars
    PROVE  PassedBounded' /\ MinuteBounded'
  <1> USE DEF LoginIInv, LoginInv
  <1>1. ASSUME NEW c \in Conn, (\E g \in (1..temp) \cup {Permanent, Wrong} : Login(c, g))
                                \/ (\E g \in {Code, Wrong} : Auth2fa(c, g))
        PROVE  PassedBounded' /\ MinuteBounded'
    <2>1. login_failures' = login_failures /\ \A d \in Conn \ {c} : task'[d] = task[d]
      BY <1>1 DEF Login, Auth2fa, shared, LoginTypeOK
    <2>2. task'[c].pc = "logon" \/ (task'[c].pc = "check" /\ task'[c].left = Prefixes[c])
      <3>1. ASSUME NEW g, Login(c, g)
            PROVE  task'[c].pc = "logon" \/ (task'[c].pc = "check" /\ task'[c].left = Prefixes[c])
        BY <3>1 DEF Login, LoginTypeOK, NoTask
      <3>2. ASSUME NEW g, Auth2fa(c, g)
            PROVE  task'[c].pc = "check" /\ task'[c].left = Prefixes[c]
        BY <3>2 DEF Auth2fa, LoginTypeOK, NoTask
      <3> QED
        BY <1>1, <3>1, <3>2
    <2> QED
      BY <2>1, <2>2, BoundsElsewhere
  <1>2. ASSUME NEW c \in Conn, ValidatePassword(c) \/ ValidateCode(c)
        PROVE  PassedBounded' /\ MinuteBounded'
    <2>1. task[c] \in Task /\ task[c].pc = "validate" /\ login_failures' = login_failures
      BY <1>2 DEF ValidatePassword, ValidateCode, LoginTypeOK, shared
    <2>2. CASE Finish(c)
      BY <2>1, <2>2, Finishes, NoTaskFields, BoundsElsewhere
    <2>3. ASSUME NEW l \in {"bump", "remove", "success"}, NEW a,
                 Jump(c, l) \/ task' = [task EXCEPT ![c].pc = l, ![c].against = a]
          PROVE  PassedBounded' /\ MinuteBounded'
      <3>1. /\ \A d \in Conn \ {c} : task'[d] = task[d]
            /\ task'[c].pc = l /\ task'[c].stage = task[c].stage /\ task'[c].time = task[c].time
        BY <2>1, <2>3 DEF Jump, LoginTypeOK, Task
      <3> QED
        BY <2>1, <3>1, BoundsElsewhere
    <2> QED
      BY <1>2, <2>2, <2>3 DEF ValidatePassword, ValidateCode
  <1>3. ASSUME NEW c \in Conn,
           \/ Count(c) \/ Rotate(c) \/ Reread(c) \/ Success(c)
           \/ Tfa(c) \/ Logon(c) \/ LogonFails(c) \/ Closed(c) \/ Authorize(c)
           \/ \E forget \in BOOLEAN : Close(c, forget)
        PROVE  PassedBounded' /\ MinuteBounded'
    <2>1. task[c].pc # "check"
      BY <1>3 DEF Count, Rotate, Reread, Success, Tfa, Logon, LogonFails, Closed, Authorize, Close
    <2>2. /\ \A d \in Conn \ {c} : task'[d] = task[d]
          /\ login_failures' = login_failures
          /\ task'[c].pc \notin {"bump", "check", "validate"}
      BY <1>3, <2>1, TaskAfter
    <2> QED
      BY <2>2, BoundsElsewhere
  <1>4. CASE Tick \/ (\E k \in SessionKey : Expire(k)) \/ UpdateTemporaryPassword \/ UNCHANGED vars
    <2>1. UNCHANGED <<login_failures, task>>
      BY <1>4 DEF Tick, Expire, UpdateTemporaryPassword, vars, shared
    <2>2. \A i \in Stage, k \in Key : /\ Passed(i, k)' \subseteq Passed(i, k)
                                      /\ PassedMinute(i, k)' \subseteq PassedMinute(i, k)
      BY <2>1 DEF Passed, PassedMinute, Keys
    <2> QED
      BY <2>1, <2>2, BoundsKept
  <1> QED
    BY <1>1, <1>2, <1>3, <1>4, BoundsCheckPrefix, BoundsCheckIp, BoundsBump, BoundsRemove
       DEF LoginNext, Step

-----------------------------------------------------------------------------
(* The counter of the temporary password.                                  *)

LEMMA CountingCard ==
    /\ Counting \in SUBSET Conn /\ Cardinality(Counting) \in Nat
    /\ Uncounted \in SUBSET Conn /\ Cardinality(Uncounted) \in Nat
    /\ Counting \in SUBSET Uncounted
    /\ Cardinality(Counting) <= Cardinality(Uncounted)
    /\ Counting' \in SUBSET Conn /\ Cardinality(Counting') \in Nat
    /\ Uncounted' \in SUBSET Conn /\ Cardinality(Uncounted') \in Nat
    /\ Counting' \in SUBSET Uncounted'
    /\ Cardinality(Counting') <= Cardinality(Uncounted')
  <1>1. /\ Counting \in SUBSET Conn /\ Uncounted \in SUBSET Conn /\ Counting \in SUBSET Uncounted
        /\ Counting' \in SUBSET Conn /\ Uncounted' \in SUBSET Conn /\ Counting' \in SUBSET Uncounted'
    BY DEF Counting, Uncounted
  <1> QED
    BY <1>1, ConnCard, CardMono

(* The counter, the password and the guesses are left alone.               *)
LEMMA CounterKept ==
    ASSUME CounterLags, StreakBounded,
           UNCHANGED <<temp, guard, holder, streak, forgiven>>,
           Counting' = Counting,
           \A d \in Conn : /\ task'[d].pc = "rotate" <=> task[d].pc = "rotate"
                           /\ task'[d].pc = "rotate" => task'[d].against = task[d].against
                           /\ task'[d].pc = "reread" => task[d].pc = "reread"
                           /\ task'[d].stage = "2fa" => task'[d].against = 0
    PROVE  CounterLags' /\ StreakBounded'
  <1>1. Uncounted' = Uncounted
    BY DEF Uncounted, Counting
  <1>2. Synced' = Synced
    BY DEF Synced
  <1>3. StreakBounded'
    BY <1>1 DEF StreakBounded
  <1>4. CounterLags'
    BY <1>2 DEF CounterLags
  <1> QED
    BY <1>3, <1>4

(* ... so by a step of a task that does not guess, count or rotate.        *)
LEMMA CounterElsewhere ==
    ASSUME LoginTypeOK, CounterLags, StreakBounded, NEW c \in Conn,
           UNCHANGED <<temp, guard, holder, streak, forgiven>>,
           \A d \in Conn \ {c} : task'[d] = task[d],
           task[c].pc \notin {"bump", "count", "rotate", "reread"},
           task'[c].pc \notin {"count", "rotate", "reread"},
           task'[c].pc = "bump" => task'[c].stage = "2fa",
           task'[c].stage = "2fa" => task'[c].against = 0
    PROVE  CounterLags' /\ StreakBounded'
  <1>1. temp # 0
    BY DEF LoginTypeOK
  <1>2. c \notin Counting /\ c \notin Counting'
    BY <1>1 DEF Counting
  <1>3. Counting' = Counting
    BY <1>2 DEF Counting
  <1>4. \A d \in Conn : task'[d].stage = "2fa" => task'[d].against = 0
    BY DEF CounterLags
  <1> QED
    BY <1>3, <1>4, CounterKept

(* A wrong guess is one more, and one more not counted yet.                *)
LEMMA CounterWrongGuess ==
    ASSUME LoginTypeOK, CounterLags, StreakBounded, NEW c \in Conn,
           UNCHANGED <<temp, guard, holder, forgiven>>, streak' = streak + 1,
           \A d \in Conn \ {c} : task'[d] = task[d],
           task[c].pc = "validate", task'[c].pc = "bump",
           task'[c].against = temp, task'[c].stage # "2fa"
    PROVE  CounterLags' /\ StreakBounded'
  <1>1. c \notin Counting /\ Counting' = Counting \cup {c}
    BY DEF Counting
  <1>2. c \notin Uncounted /\ Uncounted' = Uncounted \cup {c}
    BY DEF Uncounted
  <1>3. /\ Cardinality(Counting') = Cardinality(Counting) + 1
        /\ Cardinality(Uncounted') = Cardinality(Uncounted) + 1
    BY <1>1, <1>2, CountingCard, CardAdd
  <1>4. Synced' = Synced /\ Synced.failures \in Nat /\ streak \in Nat /\ MaxFailures \in Nat
    BY LoginAssumption, SyncedType DEF Synced, LoginTypeOK
  <1>5. StreakBounded'
    <2>1. TempEnabled /\ ~forgiven => streak < MaxFailures + Cardinality(Uncounted)
      BY DEF StreakBounded
    <2>2. TempEnabled /\ ~forgiven => streak + 1 < MaxFailures + Cardinality(Uncounted')
      BY <1>3, <1>4, <2>1, CountingCard
    <2> QED
      BY <2>2 DEF StreakBounded
  <1>6. TempEnabled /\ ~forgiven' /\ (\A d \in Conn : task'[d].pc # "rotate")
          => streak' <= Synced'.failures + Cardinality(Counting')
    <2> SUFFICES ASSUME TempEnabled, ~forgiven, \A d \in Conn : task'[d].pc # "rotate"
                 PROVE  streak' <= Synced'.failures + Cardinality(Counting')
      OBVIOUS
    <2>1. \A d \in Conn : task[d].pc # "rotate"
      OBVIOUS
    <2>2. streak <= Synced.failures + Cardinality(Counting)
      BY <2>1 DEF CounterLags
    <2> QED
      BY <1>3, <1>4, <2>2, CountingCard
  <1>7. CounterLags'
    BY <1>6 DEF CounterLags
  <1> QED
    BY <1>5, <1>7

(* The password is new: no guess at it was wrong yet.                      *)
LEMMA CounterNewTemp ==
    ASSUME LoginTypeOK, CounterLags, NewTemp, LoginTypeOK',
           UNCHANGED <<guard, holder>>,
           \A d \in Conn : task'[d].stage = "2fa" => task'[d].against = 0
    PROVE  CounterLags' /\ StreakBounded'
  <1>1. temp' = temp + 1 /\ streak' = 0 /\ temp \in Nat /\ guard.password \in Nat
    BY LoginAssumption DEF NewTemp, LoginTypeOK
  <1>2. guard.password <= temp
    BY DEF CounterLags
  <1>3. guard.password <= temp' /\ guard.password # temp'
    BY <1>1, <1>2
  <1>4. MaxFailures \in Nat \ {0}
    BY LoginAssumption
  <1>5. StreakBounded'
    BY <1>1, <1>4, CountingCard DEF StreakBounded
  <1>6. Synced'.failures = 0
    BY <1>3 DEF Synced
  <1>7. streak' <= Synced'.failures + Cardinality(Counting')
    BY <1>1, <1>6, CountingCard
  <1>8. CounterLags'
    BY <1>3, <1>7 DEF CounterLags
  <1> QED
    BY <1>5, <1>8

(* The counter is cleared for the current password.                        *)
LEMMA CounterCleared ==
    ASSUME LoginTypeOK, LoginTypeOK', CounterLags, temp' = temp,
           guard' = [password |-> temp, failures |-> 0], holder' = {},
           TempEnabled /\ ~forgiven' => streak' <= Cardinality(Counting'),
           \A d \in Conn : task'[d].stage = "2fa" => task'[d].against = 0
    PROVE  CounterLags' /\ StreakBounded'
  <1>1. \A d \in Conn : task'[d].pc \notin {"rotate", "reread"}
    BY DEF LoginTypeOK
  <1>2. guard'.failures = 0 /\ guard'.password = temp' /\ Synced'.failures = 0
    BY DEF Synced
  <1>3. temp' <= temp' /\ MaxFailures \in Nat \ {0}
    BY LoginAssumption DEF LoginTypeOK
  <1>4. TempEnabled /\ ~forgiven' => streak' <= Synced'.failures + Cardinality(Counting')
    BY <1>2, CountingCard
  <1>5. guard'.failures < MaxFailures /\ guard'.password <= temp'
    BY <1>2, <1>3
  <1>6. CounterLags'
    BY <1>1, <1>4, <1>5 DEF CounterLags
  <1>7. StreakBounded'
    <2>1. TempEnabled /\ ~forgiven' => streak' < MaxFailures + Cardinality(Uncounted')
      BY <1>3, <1>4, <1>2, CountingCard DEF LoginTypeOK
    <2> QED
      BY <2>1 DEF StreakBounded
  <1> QED
    BY <1>6, <1>7

(* A wrong guess is counted; at the limit its task goes on to rotate.      *)
LEMMA CounterCount ==
    ASSUME LoginTypeOK, LoginTypeOK', CounterLags, NEW c \in Conn, Count(c)
    PROVE  CounterLags' /\ StreakBounded'
  <1>1. /\ task[c] \in Task /\ task[c].pc = "count" /\ holder = {}
        /\ temp' = temp /\ streak' = streak /\ forgiven' = forgiven
    BY DEF Count, LoginTypeOK, ghosts
  <1>2. \A d \in Conn : task[d].pc \notin {"rotate", "reread"}
    BY <1>1 DEF LoginTypeOK
  <1>3. /\ Synced.failures < MaxFailures /\ Synced.failures \in Nat /\ Synced.password = temp
        /\ MaxFailures \in Nat \ {0} /\ streak \in Nat /\ temp \in Nat
    BY <1>1, LoginAssumption, SyncedType DEF Synced, CounterLags, LoginTypeOK
  <1>4. TempEnabled /\ ~forgiven => streak <= Synced.failures + Cardinality(Counting)
    BY <1>2 DEF CounterLags
  <1>5. CASE ~TempEnabled
    <2>1. Finish(c) /\ guard' = guard /\ holder' = holder
      BY <1>5 DEF Count
    <2>2. task'[c].pc = "idle" /\ task'[c].stage = "password" /\ \A d \in Conn \ {c} : task'[d] = task[d]
      BY <2>1, Finishes, NoTaskFields
    <2> QED
      BY <1>1, <1>5, <2>1, <2>2 DEF CounterLags, StreakBounded
  <1>6. CASE TempEnabled /\ Finish(c)
    <2>1. \A d \in Conn \ {c} : task'[d] = task[d]
      BY <1>6, Finishes
    <2>2. task'[c].pc = "idle" /\ task'[c].stage = "password"
      BY <1>6, Finishes, NoTaskFields
    <2>3. guard' = [Synced EXCEPT !.failures = @ + 1]
      BY <1>6 DEF Count
    <2>4. Synced.failures + 1 < MaxFailures /\ holder' = {}
      <3>1. ~Jump(c, "rotate")
        <4>1. Jump(c, "rotate") => task'[c].pc = "rotate"
          BY <1>1 DEF Jump, LoginTypeOK, Task
        <4> QED
          BY <2>2, <4>1
      <3> QED
        BY <1>1, <1>6, <3>1 DEF Count
    <2>5. guard'.password = temp /\ guard'.failures = Synced.failures + 1 /\ Synced' = guard'
      BY <1>1, <1>3, <2>3, SyncedType DEF Synced
    <2>6. Counting \subseteq Counting' \cup {c}
      BY <1>1, <2>1 DEF Counting
    <2>7. Cardinality(Counting) <= Cardinality(Counting') + 1
      BY <2>6, CountingCard, CardGrow
    <2>8. TempEnabled /\ ~forgiven' => streak' <= Synced'.failures + Cardinality(Counting')
      BY <1>1, <1>3, <1>4, <2>5, <2>7, CountingCard
    <2>9. guard'.password <= temp' /\ guard'.failures < MaxFailures
      BY <1>1, <1>3, <2>4, <2>5
    <2>10. \A d \in Conn : /\ task'[d].pc \notin {"rotate", "reread"}
                           /\ task'[d].stage = "2fa" => task'[d].against = 0
      BY <1>2, <2>1, <2>2 DEF CounterLags
    <2>11. CounterLags'
      BY <2>4, <2>8, <2>9, <2>10 DEF CounterLags
    <2> QED
      <3>1. guard'.failures < MaxFailures /\ streak' \in Nat /\ Synced'.failures \in Nat
        BY <1>1, <1>3, <2>4, <2>5
      <3>2. TempEnabled /\ ~forgiven' => streak' < MaxFailures + Cardinality(Uncounted')
        BY <1>3, <2>5, <2>8, <3>1, CountingCard
      <3> QED
        BY <2>11, <3>2 DEF StreakBounded
  <1>7. CASE TempEnabled /\ ~Finish(c)
    <2>1. Jump(c, "rotate") /\ holder' = {c} /\ guard' = [Synced EXCEPT !.failures = @ + 1]
      BY <1>7 DEF Count
    <2>2. task'[c] = [task[c] EXCEPT !.pc = "rotate"] /\ \A d \in Conn \ {c} : task'[d] = task[d]
      BY <2>1, Jumps DEF Labels
    <2>3. task'[c].pc = "rotate" /\ task'[c].against = task[c].against /\ task'[c].stage = task[c].stage
      BY <1>1, <2>2 DEF Task
    <2>4. guard'.password = temp
      BY <1>3, <2>1, SyncedType
    <2>5. Counting \in SUBSET Uncounted'
      BY <1>1, <2>2, <2>3 DEF Counting, Uncounted
    <2>6. Cardinality(Counting) <= Cardinality(Uncounted')
      BY <2>5, CountingCard, CardMono
    <2>7. TempEnabled /\ ~forgiven => streak < MaxFailures + Cardinality(Uncounted')
      BY <1>3, <1>4, <2>6, CountingCard
    <2>8. StreakBounded'
      BY <1>1, <2>7 DEF StreakBounded
    <2>9. guard'.password <= temp'
      BY <1>1, <1>3, <2>4
    <2>10. \A d \in Conn : /\ task'[d].pc # "reread"
                           /\ task'[d].stage = "2fa" => task'[d].against = 0
      BY <1>2, <2>2, <2>3 DEF CounterLags
    <2>11. CounterLags'
      BY <2>1, <2>3, <2>9, <2>10 DEF CounterLags
    <2> QED
      BY <2>8, <2>11
  <1> QED
    BY <1>5, <1>6, <1>7

(* Every step keeps the counter behind the guesses by those in flight.     *)
LEMMA CounterStep ==
    ASSUME LoginIInv, LoginTypeOK', [LoginNext]_vars
    PROVE  CounterLags' /\ StreakBounded'
  <1> USE DEF LoginIInv, LoginInv
  <1>1. ASSUME NEW c \in Conn, NEW g, Login(c, g) \/ Auth2fa(c, g)
        PROVE  CounterLags' /\ StreakBounded'
    <2>1. /\ UNCHANGED <<temp, guard, holder, streak, forgiven>> /\ task[c].pc = "idle"
          /\ \A d \in Conn \ {c} : task'[d] = task[d]
      BY <1>1 DEF Login, Auth2fa, shared, ghosts, LoginTypeOK
    <2>2. task'[c].pc \in {"logon", "check"} /\ task'[c].against = 0
      <3>1. CASE Login(c, g)
        BY <3>1 DEF Login, LoginTypeOK, NoTask
      <3>2. CASE Auth2fa(c, g)
        BY <3>2 DEF Auth2fa, LoginTypeOK, NoTask
      <3> QED
        BY <1>1, <3>1, <3>2
    <2> QED
      BY <2>1, <2>2, CounterElsewhere
  <1>2. ASSUME NEW c \in Conn, CheckPrefix(c) \/ CheckIp(c)
        PROVE  CounterLags' /\ StreakBounded'
    <2>1. /\ UNCHANGED <<temp, guard, holder, streak, forgiven>> /\ task[c].pc = "check"
          /\ task[c] \in Task
      BY <1>2 DEF CheckPrefix, CheckIp, shared, ghosts, LoginTypeOK
    <2>2. /\ \A d \in Conn \ {c} : task'[d] = task[d]
          /\ task'[c].pc \in {"idle", "check", "validate"}
          /\ task'[c].stage = "2fa" => task'[c].against = 0
      <3>1. CASE Finish(c)
        BY <3>1, Finishes, NoTaskFields
      <3>2. CASE CheckPrefix(c) /\ ~Finish(c)
        <4>1. task' = [task EXCEPT ![c].left = Tail(@)]
          BY <3>2 DEF CheckPrefix
        <4>2. task'[c].pc = "check" /\ task'[c].stage = task[c].stage /\ task'[c].against = task[c].against
          BY <2>1, <4>1 DEF LoginTypeOK, Task
        <4> QED
          BY <4>1, <4>2 DEF LoginTypeOK, CounterLags
      <3>3. CASE CheckIp(c) /\ ~Finish(c)
        <4>1. task' = [task EXCEPT ![c].pc = "validate",
                                   ![c].snap = login_failures[task[c].stage][Ip[c]]]
          BY <3>3 DEF CheckIp
        <4>2. task'[c].pc = "validate" /\ task'[c].stage = task[c].stage /\ task'[c].against = task[c].against
          BY <2>1, <4>1 DEF LoginTypeOK, Task
        <4> QED
          BY <4>1, <4>2 DEF LoginTypeOK, CounterLags
      <3> QED
        BY <1>2, <3>1, <3>2, <3>3
    <2> QED
      BY <2>1, <2>2, CounterElsewhere
  <1>3. ASSUME NEW c \in Conn, ValidatePassword(c)
        PROVE  CounterLags' /\ StreakBounded'
    <2>1. /\ UNCHANGED <<temp, guard, holder, forgiven>> /\ task[c].pc = "validate"
          /\ task[c] \in Task /\ task[c].stage = "password"
      BY <1>3 DEF ValidatePassword, LoginTypeOK
    <2>2. CASE task' = [task EXCEPT ![c].pc = "bump", ![c].against = temp] /\ streak' = streak + 1
      <3>1. /\ task'[c].pc = "bump" /\ task'[c].against = temp /\ task'[c].stage # "2fa"
            /\ \A d \in Conn \ {c} : task'[d] = task[d]
        BY <2>1, <2>2 DEF LoginTypeOK, Task
      <3> QED
        BY <2>1, <2>2, <3>1, CounterWrongGuess
    <2>3. CASE UNCHANGED streak /\ (Jump(c, "remove")
                                    \/ task' = [task EXCEPT ![c].pc = "success", ![c].against = temp])
      <3>1. /\ task'[c].pc \in {"remove", "success"} /\ task'[c].stage # "2fa"
            /\ \A d \in Conn \ {c} : task'[d] = task[d]
        <4>1. CASE Jump(c, "remove")
          BY <2>1, <4>1 DEF Jump, LoginTypeOK, Task
        <4>2. CASE task' = [task EXCEPT ![c].pc = "success", ![c].against = temp]
          BY <2>1, <4>2 DEF LoginTypeOK, Task
        <4> QED
          BY <2>3, <4>1, <4>2
      <3> QED
        BY <2>1, <2>3, <3>1, CounterElsewhere
    <2> QED
      BY <1>3, <2>2, <2>3 DEF ValidatePassword
  <1>4. ASSUME NEW c \in Conn,
               \/ ValidateCode(c) \/ Tfa(c) \/ Logon(c) \/ LogonFails(c) \/ Authorize(c)
               \/ \E forget \in BOOLEAN : Close(c, forget)
        PROVE  CounterLags' /\ StreakBounded'
    <2>1. /\ UNCHANGED <<temp, guard, holder, streak, forgiven>>
          /\ task[c].pc \notin {"bump", "count", "rotate", "reread"}
          /\ task[c] \in Task
      BY <1>4 DEF ValidateCode, Tfa, Logon, LogonFails, Authorize, Close, shared, ghosts, LoginTypeOK
    <2>2. Finish(c) \/ \E l \in {"remove", "bump", "logon", "closing"} :
                          Jump(c, l) /\ (l = "bump" => task[c].stage = "2fa")
      BY <1>4 DEF ValidateCode, Tfa, Logon, LogonFails, Authorize, Close
    <2>3. CASE Finish(c)
      BY <2>1, <2>3, Finishes, NoTaskFields, CounterElsewhere
    <2>4. ASSUME NEW l \in {"remove", "bump", "logon", "closing"},
                 Jump(c, l), l = "bump" => task[c].stage = "2fa"
          PROVE  CounterLags' /\ StreakBounded'
      <3>1. /\ task'[c].pc = l /\ task'[c].stage = task[c].stage /\ task'[c].against = task[c].against
            /\ \A d \in Conn \ {c} : task'[d] = task[d]
        <4>1. l \in Labels
          BY DEF Labels
        <4>2. task'[c] = [task[c] EXCEPT !.pc = l] /\ \A d \in Conn \ {c} : task'[d] = task[d]
          BY <2>4, <4>1, Jumps
        <4> QED
          BY <2>1, <4>2 DEF Task
      <3>2. task[c].stage = "2fa" => task[c].against = 0
        BY DEF CounterLags
      <3> QED
        BY <2>1, <2>4, <3>1, <3>2, CounterElsewhere
    <2> QED
      BY <2>2, <2>3, <2>4
  <1>5. ASSUME NEW c \in Conn, Bump(c)
        PROVE  CounterLags' /\ StreakBounded'
    <2>1. UNCHANGED <<temp, guard, holder, streak, forgiven>> /\ temp # 0
      BY <1>5 DEF Bump, ghosts, LoginTypeOK
    <2>2. /\ task[c] \in Task /\ task[c].stage \in Stage /\ task[c].pc = "bump"
          /\ \A d \in Conn \ {c} : task'[d] = task[d]
          /\ task[c].stage = "password" => task'[c] = [task[c] EXCEPT !.pc = "count"]
          /\ task[c].stage # "password" => task'[c] = NoTask
      BY <1>5, BumpTask
    <2>3. \/ /\ task'[c].pc = "count" /\ task'[c].stage = task[c].stage
             /\ task'[c].against = task[c].against
          \/ task[c].stage = "2fa" /\ task'[c].pc = "idle" /\ task'[c].stage = "password"
      BY <2>2, NoTaskFields DEF Task, Stage
    <2>4. \A d \in Conn : task[d].stage = "2fa" => task[d].against = 0
      BY DEF CounterLags
    <2>5. Counting' = Counting
      BY <2>1, <2>2, <2>3, <2>4 DEF Counting
    <2> QED
      BY <2>1, <2>2, <2>3, <2>4, <2>5, CounterKept
  <1>6. ASSUME NEW c \in Conn, Remove(c)
        PROVE  CounterLags' /\ StreakBounded'
    <2>1. UNCHANGED <<temp, guard, holder, streak, forgiven>>
      BY <1>6 DEF Remove
    <2>2. task[c].stage = "2fa" => task[c].against = 0
      BY DEF CounterLags
    <2> QED
      BY <1>6, <2>1, <2>2, RemoveTask, CounterElsewhere
  <1>7. ASSUME NEW c \in Conn, Rotate(c)
        PROVE  CounterLags' /\ StreakBounded'
    <2>1. task[c] \in Task /\ Jump(c, "reread") /\ NewTemp /\ UNCHANGED <<guard, holder>>
      BY <1>7 DEF Rotate, LoginTypeOK
    <2>2. /\ task'[c].stage = task[c].stage /\ task'[c].against = task[c].against
          /\ \A d \in Conn \ {c} : task'[d] = task[d]
      BY <2>1 DEF Jump, LoginTypeOK, Task
    <2>3. \A d \in Conn : task'[d].stage = "2fa" => task'[d].against = 0
      BY <2>2 DEF CounterLags
    <2> QED
      BY <2>1, <2>3, CounterNewTemp
  <1>8. ASSUME NEW c \in Conn, Closed(c)
        PROVE  CounterLags' /\ StreakBounded'
    <2>1. /\ task'[c] = [NoTask EXCEPT !.pc = "closed"] /\ \A d \in Conn \ {c} : task'[d] = task[d]
          /\ UNCHANGED <<guard, holder>> /\ task[c].pc = "closing"
      BY <1>8 DEF Closed, LoginTypeOK
    <2>2. task'[c].pc = "closed" /\ task'[c].stage = "password"
      BY <2>1, NoTaskType, NoTaskFields DEF Task
    <2>3. \A d \in Conn : task'[d].stage = "2fa" => task'[d].against = 0
      BY <2>1, <2>2 DEF CounterLags
    <2>4. CASE NewTemp
      BY <2>1, <2>3, <2>4, CounterNewTemp
    <2>5. CASE UNCHANGED <<temp, streak, forgiven>>
      BY <2>1, <2>2, <2>5, CounterElsewhere
    <2> QED
      BY <1>8, <2>4, <2>5 DEF Closed
  <1>9. ASSUME NEW c \in Conn, Reread(c)
        PROVE  CounterLags' /\ StreakBounded'
    <2>1. /\ temp' = temp /\ guard' = [password |-> temp, failures |-> 0] /\ holder' = {}
          /\ streak' = streak /\ forgiven' = forgiven /\ task[c].pc = "reread"
      BY <1>9 DEF Reread, ghosts
    <2>2. /\ \A d \in Conn \ {c} : task'[d] = task[d]
          /\ task'[c].pc = "idle" /\ task'[c].stage = "password"
      BY <1>9, Finishes, NoTaskFields DEF Reread
    <2>3. \A d \in Conn : task[d].pc # "rotate"
      <3>1. c \in holder /\ \A d \in Conn : task[d].pc = "rotate" => d \in holder
        BY <2>1 DEF LoginTypeOK
      <3> QED
        BY <2>1, <3>1 DEF CounterLags
    <2>4. Synced.failures = 0
      BY <2>1 DEF CounterLags, Synced
    <2>5. Counting' = Counting
      BY <2>1, <2>2 DEF Counting
    <2>6. TempEnabled /\ ~forgiven => streak <= Synced.failures + Cardinality(Counting)
      BY <2>3 DEF CounterLags
    <2>7. TempEnabled /\ ~forgiven' => streak' <= Cardinality(Counting')
      BY <2>1, <2>4, <2>5, <2>6, CountingCard
    <2>8. \A d \in Conn : task'[d].stage = "2fa" => task'[d].against = 0
      BY <2>2 DEF CounterLags
    <2> QED
      BY <2>1, <2>7, <2>8, CounterCleared
  <1>10. ASSUME NEW c \in Conn, Success(c)
         PROVE  CounterLags' /\ StreakBounded'
    <2>1. /\ temp' = temp /\ guard' = [password |-> temp, failures |-> 0] /\ holder' = {}
          /\ task[c] \in Task /\ Jump(c, "remove")
      BY <1>10 DEF Success, LoginTypeOK
    <2>2. /\ task'[c].stage = task[c].stage /\ task'[c].against = task[c].against
          /\ \A d \in Conn \ {c} : task'[d] = task[d]
      BY <2>1 DEF Jump, LoginTypeOK, Task
    <2>3. \A d \in Conn : task'[d].stage = "2fa" => task'[d].against = 0
      BY <2>2 DEF CounterLags
    <2>4. streak' = 0 \/ forgiven' = TRUE
      BY <1>10 DEF Success
    <2>5. TempEnabled /\ ~forgiven' => streak' <= Cardinality(Counting')
      BY <2>4, CountingCard
    <2> QED
      BY <2>1, <2>3, <2>5, CounterCleared
  <1>11. CASE Tick \/ (\E k \in SessionKey : Expire(k)) \/ UNCHANGED vars
    <2>1. UNCHANGED <<temp, guard, holder, streak, forgiven, task>>
      BY <1>11 DEF Tick, Expire, vars, shared, ghosts
    <2>2. Counting' = Counting
      BY <2>1 DEF Counting
    <2>3. \A d \in Conn : task'[d].stage = "2fa" => task'[d].against = 0
      BY <2>1 DEF CounterLags
    <2> QED
      BY <2>1, <2>2, <2>3, CounterKept
  <1>12. CASE UpdateTemporaryPassword
    <2>1. UNCHANGED <<guard, holder, task>> /\ NewTemp
      BY <1>12 DEF UpdateTemporaryPassword
    <2>2. \A d \in Conn : task'[d].stage = "2fa" => task'[d].against = 0
      BY <2>1 DEF CounterLags
    <2> QED
      BY <2>1, <2>2, CounterNewTemp
  <1> QED
    BY <1>1, <1>2, <1>3, <1>4, <1>5, <1>6, <1>7, <1>8, <1>9, <1>10, <1>11, <1>12, CounterCount
       DEF LoginNext, Step

-----------------------------------------------------------------------------
LEMMA InitEstablishesInv ==
    ASSUME LoginInit
    PROVE  LoginIInv
  <1> USE DEF LoginInit
  <1>1. \A c \in Conn : task[c].pc = "idle" /\ task[c].stage = "password" /\ task[c].time = 0
    BY NoTaskFields
  <1>2. LoginTypeOK
    <2>1. task \in [Conn -> Task] /\ login_failures \in [Stage -> [Key -> Entry]]
      BY NoTaskType, NoEntryFields
    <2>2. minute \in 1..MaxMinute /\ temp \in 1..MaxTemp /\ tries \in 0..MaxTries
            /\ streak \in Nat /\ failed \in [Stage -> [Key -> Nat]]
      BY LoginAssumption
    <2>3. guard \in [password : 0..MaxTemp, failures : 0..MaxFailures]
      BY LoginAssumption
    <2>4. forgiven \in BOOLEAN /\ verified \in SUBSET SessionKey
      OBVIOUS
    <2>5. sessions \in [SessionKey -> [random_password : 0..MaxTemp, tfa : BOOLEAN] \cup {NoSession}]
      OBVIOUS
    <2>6. \A c \in Conn : task[c].time <= minute
      BY <1>1
    <2>7. holder = {c \in Conn : task[c].pc \in {"rotate", "reread"}}
      BY <1>1
    <2>8. authorized \in SUBSET Conn /\ require_2fa \in SUBSET TwoFactor /\ holder \in SUBSET Conn
      OBVIOUS
    <2> QED
      BY <2>1, <2>2, <2>3, <2>4, <2>5, <2>6, <2>7, <2>8 DEF LoginTypeOK
  <1>3. \A i \in Stage, k \in Key :
           /\ login_failures[i][k].total = 0 /\ login_failures[i][k].n = 0
           /\ failed[i][k] = 0
    BY NoEntryFields
  <1>4. /\ Pending = {} /\ Counting = {} /\ Cardinality({}) = 0
        /\ \A i, k : Unrecorded(i, k) = {} /\ Passed(i, k) = {} /\ PassedMinute(i, k) = {}
    BY <1>1, FS_EmptySet DEF Pending, Counting, Unrecorded, Passed, PassedMinute
  <1> HIDE DEF LoginInit
  <1>5. NoFailureLost /\ FailuresHadTries
    <2>1. tries = 0
      BY DEF LoginInit
    <2>2. ASSUME NEW i \in Stage, NEW k \in Key
          PROVE  /\ login_failures[i][k].total + Cardinality(Unrecorded(i, k)) = failed[i][k]
                 /\ failed[i][k] + Cardinality(Pending) <= tries
                 /\ login_failures[i][k].n <= login_failures[i][k].total
      <3>1. Cardinality(Unrecorded(i, k)) = 0 /\ Cardinality(Pending) = 0
        BY <1>4
      <3>2. login_failures[i][k].total = 0 /\ login_failures[i][k].n = 0 /\ failed[i][k] = 0
        BY <1>3
      <3> QED
        BY <2>1, <3>1, <3>2
    <2> QED
      BY <2>2 DEF NoFailureLost, FailuresHadTries
  <1>6. PassedBounded
    <2>1. ASSUME NEW i \in Stage, NEW k \in Key
          PROVE  login_failures[i][k].total + Cardinality(Passed(i, k)) <= Limit[k] + Cardinality(Sharing(k))
      <3>1. Limit[k] \in Nat /\ Cardinality(Sharing(k)) \in Nat
        BY LimitTypes, PassedCard
      <3>2. Cardinality(Passed(i, k)) = 0
        BY <1>4
      <3>3. login_failures[i][k].total = 0
        BY <1>3
      <3> QED
        BY <3>1, <3>2, <3>3
    <2> QED
      BY <2>1 DEF PassedBounded
  <1>7. MinuteBounded
    <2>1. ASSUME NEW i \in Stage, NEW c \in Conn
          PROVE  login_failures[i][Ip[c]].n + Cardinality(PassedMinute(i, Ip[c]))
                    <= MinuteLimit + Cardinality(Sharing(Ip[c]))
      <3>1. MinuteLimit \in Nat /\ Cardinality(Sharing(Ip[c])) \in Nat /\ Ip[c] \in Key
        BY LimitTypes, PassedCard
      <3>2. Cardinality(PassedMinute(i, Ip[c])) = 0
        BY <1>4
      <3>3. login_failures[i][Ip[c]].n = 0
        BY <1>3, <3>1
      <3> QED
        BY <3>1, <3>2, <3>3
    <2> QED
      BY <2>1 DEF MinuteBounded
  <1> USE DEF LoginInit
  <1>8. MaxFailures \in Nat \ {0}
    BY LoginAssumption
  <1>9. CounterLags
    <2>1. Synced.failures = 0 /\ guard.failures = 0 /\ guard.password = 0
      BY DEF Synced
    <2> QED
      BY <1>1, <1>4, <1>8, <2>1 DEF CounterLags
  <1>10. StreakBounded
    BY <1>8, CountingCard DEF StreakBounded
  <1> QED
    BY <1>2, <1>5, <1>6, <1>7, <1>9, <1>10 DEF LoginIInv, LoginInv

LEMMA NextKeepsInv ==
    ASSUME LoginIInv, [LoginNext]_vars
    PROVE  LoginIInv'
  BY FailuresStep, BoundsStep, CounterStep DEF LoginIInv, LoginInv

LEMMA SessionsStep ==
    ASSUME LoginTypeOK, SessionVerified, [LoginNext]_vars
    PROVE  SessionVerified'
  <1> SUFFICES ASSUME NEW k \in SessionKey, sessions'[k] # NoSession, sessions'[k].tfa
               PROVE  k \in verified'
    BY DEF SessionVerified
  <1>1. CASE UNCHANGED <<sessions, verified>>
    BY <1>1 DEF SessionVerified
  <1>2. ASSUME NEW c \in Conn, ValidatePassword(c)
        PROVE  k \in verified'
    <2>1. CASE sessions' = [sessions EXCEPT ![Session[c]] = [random_password |-> temp, tfa |-> FALSE]]
                 /\ verified' = verified \ {Session[c]}
      <3>1. k # Session[c]
        BY <2>1, LoginAssumption DEF LoginTypeOK
      <3> QED
        BY <2>1, <3>1 DEF SessionVerified, LoginTypeOK
    <2> QED
      BY <1>1, <1>2, <2>1 DEF ValidatePassword
  <1>3. ASSUME NEW c \in Conn, Tfa(c)
        PROVE  k \in verified'
    BY <1>3 DEF Tfa, SessionVerified, LoginTypeOK
  <1>4. ASSUME NEW c \in Conn, NEW forget \in BOOLEAN, Close(c, forget)
        PROVE  k \in verified'
    BY <1>4 DEF Close, SessionVerified, LoginTypeOK, ghosts
  <1>5. ASSUME NEW j \in SessionKey, Expire(j)
        PROVE  k \in verified'
    BY <1>5 DEF Expire, SessionVerified, LoginTypeOK, ghosts
  <1>6. CASE UNCHANGED vars
    BY <1>1, <1>6 DEF vars, shared, ghosts
  <1>7. ASSUME NEW c \in Conn,
           \/ \E g : Login(c, g) \/ Auth2fa(c, g)
           \/ CheckPrefix(c) \/ CheckIp(c) \/ ValidateCode(c) \/ Bump(c) \/ Remove(c)
           \/ Count(c) \/ Rotate(c) \/ Reread(c) \/ Success(c) \/ Logon(c) \/ LogonFails(c)
           \/ Authorize(c) \/ Closed(c)
        PROVE  k \in verified'
    <2>1. UNCHANGED <<sessions, verified>>
      BY <1>7 DEF Login, Auth2fa, CheckPrefix, CheckIp, ValidateCode, Bump, Remove, Count,
         Rotate, Reread, Success, Logon, LogonFails, Authorize, Closed, shared, ghosts
    <2> QED
      BY <1>1, <2>1
  <1>8. CASE Tick \/ UpdateTemporaryPassword
    BY <1>1, <1>8 DEF Tick, UpdateTemporaryPassword, ghosts
  <1> QED
    BY <1>2, <1>3, <1>4, <1>5, <1>6, <1>7, <1>8 DEF LoginNext, Step

(* Only a logon lets a connection in.                                      *)
LEMMA OnlyLogonLetsIn ==
    ASSUME LoginTypeOK, SessionVerified, LoginNext, NEW c \in Conn,
           c \in authorized', c \notin authorized, c \in require_2fa'
    PROVE  Session[c] \in verified
  <1>1. PICK d \in Conn : Logon(d)
    BY DEF LoginNext, Step, Login, Auth2fa, CheckPrefix, CheckIp, ValidatePassword, ValidateCode,
       Bump, Remove, Count, Rotate, Reread, Success, Tfa, LogonFails, Authorize, Close, Closed,
       Tick, Expire, UpdateTemporaryPassword, shared
  <1>2. d = c /\ RecentTfa(c)
    BY <1>1 DEF Logon
  <1> QED
    BY <1>2, LoginAssumption DEF RecentTfa, SessionVerified

-----------------------------------------------------------------------------
(* For every set of connections, addresses, prefixes and limits: types,    *)
(* the lock of the guard, and every wrong guess since the last success is  *)
(* in the bucket of each of its keys or about to be.                       *)
THEOREM LoginInvariant == LoginSpec => []LoginInv
  <1>1. LoginIInv => LoginInv
    BY DEF LoginIInv
  <1> QED
    BY <1>1, InitEstablishesInv, NextKeepsInv, PTL DEF LoginSpec

(* What gets past the limits between a check and the recording of its      *)
(* failure is at most one guess per connection that shares the key.        *)
THEOREM AttemptsAreBounded == LoginSpec => []AttemptsBounded
  <1>1. ASSUME LoginIInv PROVE AttemptsBounded
    <2> SUFFICES ASSUME NEW i \in Stage, NEW c \in Conn
                 PROVE  /\ login_failures[i][Ip[c]].total <= Limit[Ip[c]] + Cardinality(Sharing(Ip[c]))
                        /\ login_failures[i][Ip[c]].n <= MinuteLimit + Cardinality(Sharing(Ip[c]))
                        /\ \A k \in Range(Prefixes[c]) :
                              login_failures[i][k].total <= Limit[k] + Cardinality(Sharing(k))
      BY DEF AttemptsBounded, Sharing
    <2>1. ASSUME NEW k \in Key
          PROVE  login_failures[i][k].total <= Limit[k] + Cardinality(Sharing(k))
      <3>1. login_failures[i][k].total + Cardinality(Passed(i, k)) <= Limit[k] + Cardinality(Sharing(k))
        BY <1>1 DEF LoginIInv, PassedBounded
      <3>2. /\ login_failures[i][k].total \in Nat /\ Cardinality(Passed(i, k)) \in Nat
            /\ Limit[k] \in Nat /\ Cardinality(Sharing(k)) \in Nat
        BY <1>1, EntryFields, PassedCard, LimitTypes DEF LoginIInv, LoginInv
      <3> QED
        BY <3>1, <3>2
    <2>2. login_failures[i][Ip[c]].n <= MinuteLimit + Cardinality(Sharing(Ip[c]))
      <3>1. login_failures[i][Ip[c]].n + Cardinality(PassedMinute(i, Ip[c]))
               <= MinuteLimit + Cardinality(Sharing(Ip[c]))
        BY <1>1 DEF LoginIInv, MinuteBounded
      <3>2. /\ login_failures[i][Ip[c]].n \in Nat /\ Cardinality(PassedMinute(i, Ip[c])) \in Nat
            /\ MinuteLimit \in Nat /\ Cardinality(Sharing(Ip[c])) \in Nat
        BY <1>1, EntryFields, PassedCard, LimitTypes DEF LoginIInv, LoginInv
      <3> QED
        BY <3>1, <3>2
    <2>3. Range(Prefixes[c]) \subseteq Key /\ Ip[c] \in Key
      BY LoginAssumption DEF Range
    <2> QED
      BY <2>1, <2>2, <2>3
  <1> QED
    BY <1>1, InitEstablishesInv, NextKeepsInv, PTL DEF LoginSpec

(* A temporary password takes fewer than MaxFailures wrong guesses in a    *)
(* row, and those in flight, for every number of connections.              *)
THEOREM StreakIsBounded == LoginSpec => []StreakBounded
  <1>1. LoginIInv => StreakBounded
    BY DEF LoginIInv
  <1> QED
    BY <1>1, InitEstablishesInv, NextKeepsInv, PTL DEF LoginSpec

(* Nobody who is still asked for a second factor gets in on a session that *)
(* has not passed it.                                                      *)
THEOREM SecondFactorIsHeld == LoginSpec => SecondFactorHeld
  <1>1. LoginInit => SessionVerified
    BY DEF LoginInit, SessionVerified
  <1>2. LoginIInv => LoginTypeOK
    BY DEF LoginIInv, LoginInv
  <1>3. ASSUME LoginTypeOK, SessionVerified, [LoginNext]_vars
        PROVE  [\A c \in Conn :
                  c \in authorized' /\ c \notin authorized /\ c \in require_2fa'
                  => Session[c] \in verified]_vars
    BY <1>3, OnlyLogonLetsIn
  <1> QED
    BY <1>1, <1>2, <1>3, InitEstablishesInv, NextKeepsInv, SessionsStep, PTL
       DEF LoginSpec, SecondFactorHeld
=============================================================================
