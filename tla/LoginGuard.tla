----------------------------- MODULE LoginGuard -----------------------------
(***************************************************************************)
(* How the controlled side decides on a login (server/connection.rs): the  *)
(* failure counters per address and per IPv6 prefix, the counter that      *)
(* rotates the temporary password, the recent sessions and the second      *)
(* factor.  Every connection is a task of its own; the counters, the       *)
(* temporary password and the sessions are global, each behind its own     *)
(* lock, so an attempt of one connection is a sequence of steps that the   *)
(* attempts of the others cut into.                                        *)
(*                                                                         *)
(* A password is a value the peer sends: the number of a temporary         *)
(* password (the current one is `temp`), Permanent or Wrong; a code of the *)
(* second factor is Code or Wrong.                                         *)
(***************************************************************************)
EXTENDS Naturals, Sequences, FiniteSets, Functions

CONSTANTS
    Conn,           \* connections
    Key,            \* keys of LOGIN_FAILURES: addresses and IPv6 prefixes
    Ip,             \* [Conn -> Key]
    Prefixes,       \* [Conn -> Seq(Key)]: /64, /56, /48 of an IPv6 address
    Limit,          \* [Key -> Nat]: 30 for an address; 60, 80, 100 for prefixes
    MinuteLimit,    \* 6
    MaxFailures,    \* MAX_CONSECUTIVE_FAILURES, 10
    TempEnabled,    \* verification-method allows the temporary password
    PermEnabled,    \* ... the permanent one
    SessionKey,     \* session keys
    Session,        \* [Conn -> SessionKey]
    TwoFactor,      \* connections that find 2FA configured and no trusted device
    MaxMinute, MaxTemp, MaxTries,   \* bounds of the model
    NoSession       \* a key without a session

(* The key of a prefix ends in its length ("/64"), that of an address does *)
(* not: no address is somebody's prefix.                                   *)
ASSUME LoginAssumption ==
    /\ IsFiniteSet(Conn)
    /\ Ip \in [Conn -> Key]
    /\ Prefixes \in [Conn -> Seq(Key)]
    /\ \A c, d \in Conn : Ip[c] \notin Range(Prefixes[d])
    /\ Limit \in [Key -> Nat]
    /\ MinuteLimit \in Nat
    /\ MaxFailures \in Nat \ {0}
    /\ TempEnabled \in BOOLEAN
    /\ PermEnabled \in BOOLEAN
    /\ Session \in [Conn -> SessionKey]
    /\ TwoFactor \subseteq Conn
    /\ MaxMinute \in Nat \ {0}
    /\ MaxTemp \in Nat \ {0}
    /\ MaxTries \in Nat

VARIABLES
    minute,          \* get_time() / 60_000
    login_failures,  \* LOGIN_FAILURES: [Stage -> [Key -> Entry]]
    temp,            \* number of the current TEMPORARY_PASSWORD
    guard,           \* TEMPORARY_PASSWORD_FAILURES
    holder,          \* who holds its lock across two steps
    sessions,        \* SESSIONS
    authorized,      \* connections that are let in
    require_2fa,     \* connections whose require_2fa is Some
    task,            \* what each connection task is doing
    tries,           \* attempts so far
    \* bookkeeping, no part of the program's state:
    failed,          \* [Stage -> [Key -> Nat]]: wrong guesses since a success
    streak,          \* wrong guesses at the current temporary password
    forgiven,        \* the counter was cleared by a guess at an older one
    verified         \* session keys with an accepted code

shared == <<minute, login_failures, temp, guard, holder, sessions, authorized, require_2fa>>
ghosts == <<failed, streak, forgiven, verified>>
vars == <<shared, task, tries, ghosts>>

Stage == {"password", "2fa"}     \* the two maps of LOGIN_FAILURES
Permanent == MaxTemp + 1
Code == MaxTemp + 2
Wrong == MaxTemp + 3
Secret == 1..Wrong

(* (i32, i32, i32): the minute of the last failure, the failures in it,    *)
(* all failures.  An absent key reads as (0, 0, 0).                        *)
Entry == [at : 0..MaxMinute, n : 0..MaxTries, total : 0..MaxTries]
NoEntry == [at |-> 0, n |-> 0, total |-> 0]

Labels == {"idle", "check", "validate", "bump", "count", "rotate", "reread",
           "success", "remove", "tfa", "logon", "closing", "closed"}

Task == [pc : Labels, stage : Stage, guess : Secret, left : Seq(Key), snap : Entry,
         time : 0..MaxMinute, against : 0..MaxTemp]
NoTask == [pc |-> "idle", stage |-> "password", guess |-> Wrong, left |-> <<>>,
           snap |-> NoEntry, time |-> 0, against |-> 0]

LoginInit ==
    /\ minute = 1
    /\ login_failures = [i \in Stage |-> [k \in Key |-> NoEntry]]
    /\ temp = 1
    /\ guard = [password |-> 0, failures |-> 0]
    /\ holder = {}
    /\ sessions = [k \in SessionKey |-> NoSession]
    /\ authorized = {}
    /\ require_2fa = TwoFactor
    /\ task = [c \in Conn |-> NoTask]
    /\ tries = 0
    /\ failed = [i \in Stage |-> [k \in Key |-> 0]]
    /\ streak = 0
    /\ forgiven = FALSE
    /\ verified = {}

-----------------------------------------------------------------------------
Jump(c, label) == task' = [task EXCEPT ![c].pc = label]
Finish(c) == task' = [task EXCEPT ![c] = NoTask]

Keys(c) == Range(Prefixes[c]) \cup {Ip[c]}

(* is_recent_session(false): the password of a session of the same peer.   *)
(* A session of a login without a temporary password has an empty one (0). *)
RecentPassword(c, guess) ==
    /\ sessions[Session[c]] # NoSession
    /\ sessions[Session[c]].random_password = guess

(* is_recent_session(true)                                                 *)
RecentTfa(c) ==
    /\ sessions[Session[c]] # NoSession
    /\ sessions[Session[c]].tfa

(* A LoginRequest with a password: a recent session skips the check.       *)
Login(c, guess) ==
    /\ task[c].pc = "idle"
    /\ c \notin authorized
    /\ tries < MaxTries
    /\ tries' = tries + 1
    /\ task' = [task EXCEPT ![c] =
                  IF RecentPassword(c, guess)
                  THEN [NoTask EXCEPT !.pc = "logon"]
                  ELSE [NoTask EXCEPT !.pc = "check", !.guess = guess,
                                      !.left = Prefixes[c], !.time = minute]]
    /\ UNCHANGED <<shared, ghosts>>

(* An Auth2fa message.                                                     *)
Auth2fa(c, code) ==
    /\ task[c].pc = "idle"
    /\ tries < MaxTries
    /\ tries' = tries + 1
    /\ task' = [task EXCEPT ![c] =
                  [NoTask EXCEPT !.pc = "check", !.stage = "2fa", !.guess = code,
                                 !.left = Prefixes[c], !.time = minute]]
    /\ UNCHANGED <<shared, ghosts>>

(* check_failure_ipv6_prefix: one lock section per prefix.                 *)
CheckPrefix(c) ==
    /\ task[c].pc = "check"
    /\ task[c].left # <<>>
    /\ LET k == Head(task[c].left)
       IN  IF login_failures[task[c].stage][k].total > Limit[k] THEN Finish(c)
           ELSE task' = [task EXCEPT ![c].left = Tail(@)]
    /\ UNCHANGED <<shared, tries, ghosts>>

(* Mutant: the failures of the minute are not looked at.                   *)
CheckIpTotalOnly(c) ==
    /\ task[c].pc = "check"
    /\ task[c].left = <<>>
    /\ LET e == login_failures[task[c].stage][Ip[c]]
       IN  IF e.total > Limit[Ip[c]] THEN Finish(c)
           ELSE task' = [task EXCEPT ![c].pc = "validate", ![c].snap = e]
    /\ UNCHANGED <<shared, tries, ghosts>>

(* check_failure: "Too many wrong attempts", "Please try 1 minute later",  *)
(* or on to the password.                                                  *)
CheckIp(c) ==
    /\ task[c].pc = "check"
    /\ task[c].left = <<>>
    /\ LET e == login_failures[task[c].stage][Ip[c]]
       IN  IF e.total > Limit[Ip[c]] \/ (e.at = task[c].time /\ e.n > MinuteLimit)
           THEN Finish(c)
           ELSE task' = [task EXCEPT ![c].pc = "validate", ![c].snap = e]
    /\ UNCHANGED <<shared, tries, ghosts>>

-----------------------------------------------------------------------------
Fail(c) ==
    failed' = [failed EXCEPT ![task[c].stage] =
                 [k \in Key |-> IF k \in Keys(c) THEN @[k] + 1 ELSE @[k]]]

(* validate_password: the temporary password first; it opens a session     *)
(* that has not passed the second factor.                                  *)
ValidatePassword(c) ==
    /\ task[c].pc = "validate"
    /\ task[c].stage = "password"
    /\ \/ /\ TempEnabled
          /\ task[c].guess = temp
          /\ sessions' = [sessions EXCEPT ![Session[c]] =
                            [random_password |-> temp, tfa |-> FALSE]]
          /\ task' = [task EXCEPT ![c].pc = "success", ![c].against = temp]
          /\ verified' = verified \ {Session[c]}
          /\ UNCHANGED <<failed, streak>>
       \/ /\ PermEnabled
          /\ task[c].guess = Permanent
          /\ Jump(c, "remove")
          /\ UNCHANGED <<sessions, failed, streak, verified>>
       \/ /\ ~(TempEnabled /\ task[c].guess = temp)
          /\ ~(PermEnabled /\ task[c].guess = Permanent)
          /\ task' = [task EXCEPT ![c].pc = "bump", ![c].against = temp]
          /\ Fail(c)
          /\ streak' = streak + 1
          /\ UNCHANGED <<sessions, verified>>
    /\ UNCHANGED <<minute, login_failures, temp, guard, holder, authorized,
                   require_2fa, tries, forgiven>>

(* totp.check_current, when this connection was asked for a code at all.   *)
ValidateCode(c) ==
    /\ task[c].pc = "validate"
    /\ task[c].stage = "2fa"
    /\ \/ c \notin require_2fa /\ Finish(c) /\ UNCHANGED failed
       \/ c \in require_2fa /\ task[c].guess = Code
          /\ Jump(c, "remove") /\ UNCHANGED failed
       \/ c \in require_2fa /\ task[c].guess # Code
          /\ Jump(c, "bump") /\ Fail(c)
    /\ UNCHANGED <<shared, tries, streak, forgiven, verified>>

(* bump_failure_entry, with the minute of the check.                       *)
BumpFailureEntry(e, time) ==
    IF e.at = time THEN [e EXCEPT !.n = @ + 1, !.total = @ + 1]
    ELSE [at |-> time, n |-> 1, total |-> e.total + 1]

(* Mutant: the entry read by the check is written back, one higher.        *)
BumpSnapshot(c) ==
    /\ task[c].pc = "bump"
    /\ login_failures' = [login_failures EXCEPT ![task[c].stage] =
         [k \in Key |-> IF k \in Keys(c)
                        THEN BumpFailureEntry(task[c].snap, task[c].time) ELSE @[k]]]
    /\ IF task[c].stage = "password" THEN Jump(c, "count") ELSE Finish(c)
    /\ UNCHANGED <<minute, temp, guard, holder, sessions, authorized, require_2fa,
                   tries, ghosts>>

(* update_failure(.., false, ..): all keys under one lock, re-read.        *)
Bump(c) ==
    /\ task[c].pc = "bump"
    /\ login_failures' = [login_failures EXCEPT ![task[c].stage] =
         [k \in Key |-> IF k \in Keys(c)
                        THEN BumpFailureEntry(@[k], task[c].time) ELSE @[k]]]
    /\ IF task[c].stage = "password" THEN Jump(c, "count") ELSE Finish(c)
    /\ UNCHANGED <<minute, temp, guard, holder, sessions, authorized, require_2fa,
                   tries, ghosts>>

(* The tasks whose wrong guess is not in the bucket k yet.                 *)
Unrecorded(i, k) ==
    {c \in Conn : task[c].pc = "bump" /\ task[c].stage = i /\ k \in Keys(c)}

(* update_failure(.., true, ..): nothing to do when the check found none.  *)
Remove(c) ==
    /\ task[c].pc = "remove"
    /\ LET i == task[c].stage
       IN  IF task[c].snap.at # 0
           THEN /\ login_failures' = [login_failures EXCEPT ![i] =
                      [k \in Key |-> IF k \in Keys(c) THEN NoEntry ELSE @[k]]]
                /\ failed' = [failed EXCEPT ![i] =
                      [k \in Key |-> IF k \in Keys(c)
                                     THEN Cardinality(Unrecorded(i, k)) ELSE @[k]]]
           ELSE UNCHANGED <<login_failures, failed>>
    /\ Jump(c, IF task[c].stage = "2fa" THEN "tfa" ELSE "logon")
    /\ UNCHANGED <<minute, temp, guard, holder, sessions, authorized, require_2fa,
                   tries, streak, forgiven, verified>>

-----------------------------------------------------------------------------
(* check_update_temporary_password: the counter has a lock of its own, the *)
(* password another one that a rotation elsewhere takes at any time.       *)

(* The state is brought up to date with the password it counts for.        *)
Synced == IF guard.password = temp THEN guard
          ELSE [password |-> temp, failures |-> 0]

(* Mutant: the limit is compared before the failure is counted.            *)
CountLate(c) ==
    /\ task[c].pc = "count"
    /\ holder = {}
    /\ \/ ~TempEnabled /\ Finish(c) /\ UNCHANGED <<guard, holder>>
       \/ /\ TempEnabled
          /\ guard' = [Synced EXCEPT !.failures = @ + 1]
          /\ IF Synced.failures < MaxFailures
             THEN Finish(c) /\ UNCHANGED holder
             ELSE Jump(c, "rotate") /\ holder' = {c}
    /\ UNCHANGED <<minute, login_failures, temp, sessions, authorized, require_2fa,
                   tries, ghosts>>

(* A wrong guess is counted; the one that reaches the limit keeps the lock *)
(* and rotates.                                                            *)
Count(c) ==
    /\ task[c].pc = "count"
    /\ holder = {}
    /\ \/ ~TempEnabled /\ Finish(c) /\ UNCHANGED <<guard, holder>>
       \/ /\ TempEnabled
          /\ guard' = [Synced EXCEPT !.failures = @ + 1]
          /\ IF Synced.failures + 1 < MaxFailures
             THEN Finish(c) /\ UNCHANGED holder
             ELSE Jump(c, "rotate") /\ holder' = {c}
    /\ UNCHANGED <<minute, login_failures, temp, sessions, authorized, require_2fa,
                   tries, ghosts>>

(* update_temporary_password                                               *)
NewTemp ==
    /\ temp < MaxTemp
    /\ temp' = temp + 1
    /\ streak' = 0
    /\ forgiven' = FALSE

Rotate(c) ==
    /\ task[c].pc = "rotate"
    /\ NewTemp
    /\ Jump(c, "reread")
    /\ UNCHANGED <<minute, login_failures, guard, holder, sessions, authorized,
                   require_2fa, tries, failed, verified>>

(* The password is read again, whatever it is by now.                      *)
Reread(c) ==
    /\ task[c].pc = "reread"
    /\ guard' = [password |-> temp, failures |-> 0]
    /\ holder' = {}
    /\ Finish(c)
    /\ UNCHANGED <<minute, login_failures, temp, sessions, authorized, require_2fa,
                   tries, ghosts>>

(* A right guess clears the counter.                                       *)
Success(c) ==
    /\ task[c].pc = "success"
    /\ holder = {}
    /\ guard' = [password |-> temp, failures |-> 0]
    /\ IF task[c].against = temp THEN streak' = 0 /\ UNCHANGED forgiven
       ELSE forgiven' = TRUE /\ UNCHANGED streak
    /\ Jump(c, "remove")
    /\ UNCHANGED <<minute, login_failures, temp, holder, sessions, authorized,
                   require_2fa, tries, failed, verified>>

-----------------------------------------------------------------------------
(* require_2fa.take(), set_session_2fa                                     *)
Tfa(c) ==
    /\ task[c].pc = "tfa"
    /\ require_2fa' = require_2fa \ {c}
    /\ sessions' = [sessions EXCEPT ![Session[c]] =
                      IF @ = NoSession THEN [random_password |-> 0, tfa |-> TRUE]
                      ELSE [@ EXCEPT !.tfa = TRUE]]
    /\ verified' = verified \cup {Session[c]}
    /\ Jump(c, "logon")
    /\ UNCHANGED <<minute, login_failures, temp, guard, holder, authorized, tries,
                   failed, streak, forgiven>>

(* Mutant: the second factor is asked for only when there is no session.   *)
LogonAnySession(c) ==
    /\ task[c].pc = "logon"
    /\ authorized' = IF c \in require_2fa /\ sessions[Session[c]] = NoSession
                     THEN authorized ELSE authorized \cup {c}
    /\ Finish(c)
    /\ UNCHANGED <<minute, login_failures, temp, guard, holder, sessions, require_2fa,
                   tries, ghosts>>

(* send_logon_response_and_keep_alive: ask for the code, or let in.        *)
Logon(c) ==
    /\ task[c].pc = "logon"
    /\ authorized' = IF c \in require_2fa /\ ~RecentTfa(c)
                     THEN authorized ELSE authorized \cup {c}
    /\ Finish(c)
    /\ UNCHANGED <<minute, login_failures, temp, guard, holder, sessions, require_2fa,
                   tries, ghosts>>

(* ... or no terminal, or no port to forward to: not kept alive.           *)
LogonFails(c) ==
    /\ task[c].pc = "logon"
    /\ c \notin require_2fa \/ RecentTfa(c)
    /\ c \notin authorized
    /\ Jump(c, "closing")
    /\ UNCHANGED <<shared, tries, ghosts>>

(* The user accepts in the connection manager.                             *)
Authorize(c) ==
    /\ task[c].pc = "idle"
    /\ require_2fa' = require_2fa \ {c}
    /\ Jump(c, "logon")
    /\ UNCHANGED <<minute, login_failures, temp, guard, holder, sessions, authorized,
                   tries, ghosts>>

(* The peer closes for good: check_remove_session (all connections here    *)
(* are of type Remote), or it will come back: the session stays.           *)
Close(c, forget) ==
    /\ task[c].pc = "idle"
    /\ sessions' = IF /\ forget
                      /\ \/ c \in authorized
                         \/ \A d \in authorized : Session[d] # Session[c]
                   THEN [sessions EXCEPT ![Session[c]] = NoSession] ELSE sessions
    /\ Jump(c, "closing")
    /\ UNCHANGED <<minute, login_failures, temp, guard, holder, authorized,
                   require_2fa, tries, ghosts>>

(* After the loop: an authorized connection rotates the password.          *)
Closed(c) ==
    /\ task[c].pc = "closing"
    /\ IF c \in authorized THEN NewTemp ELSE UNCHANGED <<temp, streak, forgiven>>
    /\ authorized' = authorized \ {c}
    /\ task' = [task EXCEPT ![c] = [NoTask EXCEPT !.pc = "closed"]]
    /\ UNCHANGED <<minute, login_failures, guard, holder, sessions, require_2fa,
                   tries, failed, verified>>

-----------------------------------------------------------------------------
(* The minute ends; 30 seconds without a message end a session.            *)
Tick ==
    /\ minute < MaxMinute
    /\ minute' = minute + 1
    /\ UNCHANGED <<login_failures, temp, guard, holder, sessions, authorized,
                   require_2fa, task, tries, ghosts>>

Expire(k) ==
    /\ sessions[k] # NoSession
    /\ sessions' = [sessions EXCEPT ![k] = NoSession]
    /\ UNCHANGED <<minute, login_failures, temp, guard, holder, authorized,
                   require_2fa, task, tries, ghosts>>

(* The user asks for a new temporary password.                             *)
UpdateTemporaryPassword ==
    /\ NewTemp
    /\ UNCHANGED <<minute, login_failures, guard, holder, sessions, authorized,
                   require_2fa, task, tries, failed, verified>>

Step(c) ==
    \/ CheckPrefix(c)
    \/ CheckIp(c)
    \/ ValidatePassword(c)
    \/ ValidateCode(c)
    \/ Bump(c)
    \/ Remove(c)
    \/ Count(c)
    \/ Rotate(c)
    \/ Reread(c)
    \/ Success(c)
    \/ Tfa(c)
    \/ Logon(c)
    \/ LogonFails(c)
    \/ Closed(c)

LoginNext ==
    \/ \E c \in Conn : \/ Step(c)
                       \/ \E guess \in (1..temp) \cup {Permanent, Wrong} : Login(c, guess)
                       \/ \E code \in {Code, Wrong} : Auth2fa(c, code)
                       \/ Authorize(c)
                       \/ \E forget \in BOOLEAN : Close(c, forget)
    \/ Tick
    \/ \E k \in SessionKey : Expire(k)
    \/ UpdateTemporaryPassword

LoginSpec == LoginInit /\ [][LoginNext]_vars

-----------------------------------------------------------------------------
LoginTypeOK ==
    /\ minute \in 1..MaxMinute
    /\ login_failures \in [Stage -> [Key -> Entry]]
    /\ temp \in 1..MaxTemp
    /\ guard \in [password : 0..MaxTemp, failures : 0..MaxFailures]
    /\ holder \in SUBSET Conn
    /\ sessions \in [SessionKey -> [random_password : 0..MaxTemp, tfa : BOOLEAN]
                                     \cup {NoSession}]
    /\ authorized \in SUBSET Conn
    /\ require_2fa \in SUBSET TwoFactor
    /\ tries \in 0..MaxTries
    /\ task \in [Conn -> Task]
    /\ \A c \in Conn : task[c].time <= minute
    /\ failed \in [Stage -> [Key -> Nat]]
    /\ streak \in Nat
    /\ forgiven \in BOOLEAN
    /\ verified \in SUBSET SessionKey
    /\ holder = {c \in Conn : task[c].pc \in {"rotate", "reread"}}

(* "Re-read the full IP bucket in case another failed attempt updated it": *)
(* every wrong guess since the last success is in the bucket of each of    *)
(* its keys, up to the ones whose task is about to record them.            *)
NoFailureLost ==
    \A i \in Stage, k \in Key :
        login_failures[i][k].total + Cardinality(Unrecorded(i, k)) = failed[i][k]

(* Types, the lock of the guard of the temporary password, and that no     *)
(* failure is lost.                                                        *)
LoginInv == LoginTypeOK /\ NoFailureLost

(* The check and the recording of a failure are two lock sections; what    *)
(* gets past the limits in between is one guess per connection.            *)
AttemptsBounded ==
    \A i \in Stage, c \in Conn : LET N(k) == Cardinality({d \in Conn : k \in Keys(d)})
                                     e == login_failures[i][Ip[c]]
                                 IN  /\ e.total <= Limit[Ip[c]] + N(Ip[c])
                                     /\ e.n <= MinuteLimit + N(Ip[c])
                                     /\ \A k \in Range(Prefixes[c]) :
                                           login_failures[i][k].total <= Limit[k] + N(k)

(* The tasks whose wrong guess at the current temporary password is not in *)
(* the counter yet, or that are about to rotate it.                        *)
Uncounted ==
    {c \in Conn : task[c].pc \in {"bump", "count", "rotate"} /\ task[c].against = temp}

(* "coarse brute-force protection for the current temporary password": a   *)
(* temporary password takes fewer than MaxFailures wrong guesses in a row, *)
(* and those in flight.  Excepted is one whose counter was cleared by a    *)
(* guess that had been right for its predecessor.                          *)
StreakBounded ==
    TempEnabled /\ ~forgiven => streak < MaxFailures + Cardinality(Uncounted)

(* What makes these inductive.                                             *)

(* An attempt under way has not failed yet, and every failure had one; the *)
(* failures of a minute are some of all.                                   *)
Pending == {c \in Conn : task[c].pc \in {"check", "validate"}}

FailuresHadTries ==
    \A i \in Stage, k \in Key :
        /\ failed[i][k] + Cardinality(Pending) <= tries
        /\ login_failures[i][k].n <= login_failures[i][k].total

(* Whoever got past the check of a key, and has not recorded a failure,    *)
(* counts against what may get past it at all ...                          *)
Passed(i, k) ==
    {d \in Conn : /\ k \in Keys(d)
                  /\ task[d].stage = i
                  /\ \/ task[d].pc \in {"validate", "bump"}
                     \/ /\ task[d].pc = "check"
                        /\ k \in Range(Prefixes[d]) \ Range(task[d].left)}

Sharing(k) == {d \in Conn : k \in Keys(d)}

PassedBounded ==
    \A i \in Stage, k \in Key :
        login_failures[i][k].total + Cardinality(Passed(i, k)) <= Limit[k] + Cardinality(Sharing(k))

(* ... and whoever did so in the minute of the last failure of an address, *)
(* against what may get past that minute.                                  *)
PassedMinute(i, k) ==
    {d \in Conn : /\ Ip[d] = k
                  /\ task[d].stage = i
                  /\ task[d].pc \in {"validate", "bump"}
                  /\ task[d].time = login_failures[i][k].at}

MinuteBounded ==
    \A i \in Stage, c \in Conn :
        login_failures[i][Ip[c]].n + Cardinality(PassedMinute(i, Ip[c]))
            <= MinuteLimit + Cardinality(Sharing(Ip[c]))

(* The counter of the temporary password lags behind the wrong guesses by  *)
(* those not counted yet, and is at its limit only while its holder        *)
(* rotates.                                                                *)
Counting ==
    {c \in Conn : task[c].pc \in {"bump", "count"} /\ task[c].against = temp}

CounterLags ==
    /\ \A c, d \in holder : c = d
    /\ holder = {} => guard.failures < MaxFailures
    /\ guard.password <= temp
    /\ \A c \in Conn : task[c].pc = "reread" => guard.password # temp
    /\ \A c \in Conn : task[c].stage = "2fa" => task[c].against = 0
    /\ TempEnabled /\ ~forgiven /\ (\A c \in Conn : task[c].pc # "rotate")
          => streak <= Synced.failures + Cardinality(Counting)

LoginIInv ==
    /\ LoginInv /\ FailuresHadTries
    /\ PassedBounded /\ MinuteBounded
    /\ CounterLags /\ StreakBounded

(* A session that has passed the second factor was given a code.           *)
SessionVerified ==
    \A k \in SessionKey : sessions[k] # NoSession /\ sessions[k].tfa => k \in verified

(* A connection that is still asked for a second factor gets in only while *)
(* its session has passed it since the session's last temporary password.  *)
SecondFactorHeld ==
    [][\A c \in Conn :
          c \in authorized' /\ c \notin authorized /\ c \in require_2fa'
          => Session[c] \in verified]_vars
=============================================================================
