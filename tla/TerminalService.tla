--------------------------- MODULE TerminalService ---------------------------
(***************************************************************************)
(* The terminals of the controlled side (server/terminal_service.rs and    *)
(* the handlers of server/connection.rs).  A client keeps the id of its    *)
(* terminal service and sends it again when it reconnects, while the old   *)
(* connection may still be there.  The registry TERMINAL_SERVICES maps the *)
(* id to a service object with a table of sessions; every connection has a *)
(* thread that polls them (read_outputs) and, when the connection ends,    *)
(* removes a service that is not persistent.  A janitor thread removes     *)
(* idle services.                                                          *)
(*                                                                         *)
(* The model follows one service id.  Objects are numbered, because a      *)
(* thread may still hold one that the registry has lost, and because both  *)
(* removals name the id and not the object.  Output is a sequence of       *)
(* chunks, numbered per session.                                           *)
(***************************************************************************)
EXTENDS Integers, Sequences, FiniteSets, FiniteSetsExt

CONSTANTS
    Conn,           \* connections of the client, old and new
    Tid,            \* terminal ids
    ChannelSize,    \* CHANNEL_BUFFER_SIZE
    Recent,         \* chunks of history in a replay
    ReaderSeesEof,  \* the reader thread ends with the shell (macOS)
    MaxEvents       \* bound on calls, sessions and chunks

ASSUME TerminalAssumption ==
    /\ Tid \subseteq Nat /\ Tid # {}
    /\ {ChannelSize, Recent} \subseteq Nat \ {0}
    /\ ReaderSeesEof \in BOOLEAN
    /\ MaxEvents \in Nat

VARIABLES
    registry,   \* the object in TERMINAL_SERVICES, 0 for none
    service,    \* the service objects
    session,    \* the session objects
    conn,       \* [Conn -> new, open, closed]
    thread,     \* the thread of each connection
    janitor,    \* the decision of cleanup_inactive_services
    calls,      \* calls of the clients so far
    misled      \* sessions whose end a cleanup looked up under a wrong id

vars == <<registry, service, session, conn, thread, janitor, calls, misled>>

Object == 1..Len(service)
Sid == 1..Len(session)
Empty == [t \in Tid |-> 0]

(* `viewer` is the connection that opened the session last, `last` the     *)
(* newest chunk it has, `torn` says that output was dropped or went        *)
(* elsewhere, `gap` that some is missing: they are no part of the program. *)
NewSession(c) ==
    [state |-> "Active", pending |-> <<>>, chan |-> <<>>, buffer |-> <<>>, made |-> 0,
     shell |-> "up", told |-> FALSE, child |-> TRUE,
     viewer |-> c, last |-> 0, torn |-> FALSE, gap |-> FALSE]

NoThread == [pc |-> "none", svc |-> 0, persistent |-> FALSE, list |-> {},
             closed |-> {}, clone |-> Empty, fresh |-> TRUE]

TerminalInit ==
    /\ registry = 0
    /\ service = <<>>
    /\ session = <<>>
    /\ conn = [c \in Conn |-> "new"]
    /\ thread = [c \in Conn |-> NoThread]
    /\ janitor = [pc |-> "look", fresh |-> TRUE]
    /\ calls = 0
    /\ misled = {}

-----------------------------------------------------------------------------
Goto(c, label) == thread' = [thread EXCEPT ![c].pc = label]

InTable(o, i) == \E t \in Tid : service[o].table[t] = i
Sessions(o) == {i \in Sid : InTable(o, i)}

(* stop(): no more output; the reader is joined, the child killed.         *)
Stopped(s) == [NewSession(s.viewer) EXCEPT !.state = "Closed", !.shell = "stopped",
                                           !.child = FALSE, !.gap = s.gap]

(* A session that left the table is stopped when its last reference goes:  *)
(* another thread may have it on its list, or in its copy of the table.    *)
Held(i, D) ==
    \E c \in D : \/ \E p \in thread[c].list : p[2] = i
                 \/ \E t \in Tid : thread[c].clone[t] = i
Dropped(i, D) ==
    IF Held(i, D) THEN [session[i] EXCEPT !.child = FALSE] ELSE Stopped(session[i])

(* What a decision to remove the service knew is outdated.                 *)
Outdated ==
    /\ thread' = [c \in Conn |-> [thread[c] EXCEPT !.fresh = (@ /\ thread[c].pc # "remove")]]
    /\ janitor' = [janitor EXCEPT !.fresh = (@ /\ janitor.pc # "remove")]

(* init_terminal_service: get_or_create_service, reset_status, the thread, *)
(* on_subscribe.                                                           *)
InitTerminalService(c, persistent) ==
    /\ conn[c] = "new"
    /\ conn' = [conn EXCEPT ![c] = "open"]
    /\ \/ /\ registry # 0
          /\ service' = [service EXCEPT ![registry].persistent = persistent,
                                        ![registry].sync = TRUE]
          /\ session' = [i \in Sid |-> IF InTable(registry, i)
                                       THEN [session[i] EXCEPT !.state = "Closed"]
                                       ELSE session[i]]
          /\ UNCHANGED registry
       \/ /\ registry = 0
          /\ service' = Append(service, [persistent |-> persistent, sync |-> TRUE,
                                         table |-> Empty])
          /\ registry' = Len(service')
          /\ UNCHANGED session
    /\ thread' = [d \in Conn |->
                    IF d = c THEN [NoThread EXCEPT !.pc = "outer"]
                    ELSE [thread[d] EXCEPT !.fresh = (@ /\ thread[d].pc # "remove")]]
    /\ janitor' = [janitor EXCEPT !.fresh = (@ /\ janitor.pc # "remove")]
    /\ UNCHANGED <<calls, misled>>

(* Calls, chunks and, twice as dear, sessions are bounded together.        *)
Spare == MaxEvents - calls - 2 * Len(session)
                   - MapThenSumSet(LAMBDA i : session[i].made, Sid)

(* A call of the client.                                                   *)
Call(c) == conn[c] = "open" /\ registry # 0 /\ Spare > 0 /\ calls' = calls + 1

(* update_terminal_persistence                                             *)
SetPersistent(c, persistent) ==
    /\ Call(c)
    /\ service[registry].persistent # persistent
    /\ service' = [service EXCEPT ![registry].persistent = persistent]
    /\ Outdated
    /\ UNCHANGED <<registry, session, conn, misled>>

(* The connection ends: the service of its thread is no longer active.     *)
Disconnect(c) ==
    /\ conn[c] = "open"
    /\ conn' = [conn EXCEPT ![c] = "closed"]
    /\ UNCHANGED <<registry, service, session, thread, janitor, calls, misled>>

(* remove_service(id): whatever object has the id now.                     *)
RemoveService ==
    IF registry = 0 THEN UNCHANGED <<registry, session>>
    ELSE /\ registry' = 0
         /\ session' = [i \in Sid |-> IF InTable(registry, i) THEN Stopped(session[i])
                                      ELSE session[i]]

-----------------------------------------------------------------------------
(* handle_action: every action of the client counts as activity.           *)
LastOf(s, n) == IF Len(s) <= n THEN s ELSE SubSeq(s, Len(s) - n + 1, Len(s))

(* Mutant: the session keeps its old name too.                             *)
RemappedTwice(v, t) ==
    LET used == {u \in Tid : v.table[u] # 0}
    IN  IF v.table[t] = 0 /\ v.sync /\ used # {}
        THEN [v.table EXCEPT ![t] = v.table[Min(used)]]
        ELSE v.table

(* handle_open: "remap the lowest-ID session to the requested terminal_id".*)
Remapped(v, t) ==
    LET used == {u \in Tid : v.table[u] # 0}
    IN  IF v.table[t] = 0 /\ v.sync /\ used # {}
        THEN [v.table EXCEPT ![t] = v.table[Min(used)], ![Min(used)] = 0]
        ELSE v.table

(* Mutant: the backlog of the channel is read and thrown away.             *)
ReopenedForgets(s) ==
    [s EXCEPT !.state = "Active", !.chan = <<>>, !.pending = s.buffer]

(* The backlog of the channel joins the history; replay it, and redraw.    *)
Reopened(s) ==
    LET b == LastOf(s.buffer \o s.chan, Recent)
    IN  [s EXCEPT !.state = "Active", !.chan = <<>>, !.buffer = b, !.pending = b]

OpenExisting(c, t) ==
    /\ Call(c)
    /\ LET v == service[registry]
           table == Remapped(v, t)
           i == table[t]
       IN  /\ i # 0
           /\ service' = [service EXCEPT ![registry] =
                            [v EXCEPT !.table = table, !.sync = FALSE]]
           /\ session' = [session EXCEPT ![i] =
                [Reopened(@) EXCEPT !.viewer = c, !.last = Max({0, session[i].made - Recent})]]
           /\ misled' = IF table # v.table /\ session[i].told
                        THEN misled \cup {i} ELSE misled
    /\ UNCHANGED <<registry, conn, thread, janitor>>

(* ... a new shell, unless that fails.                                     *)
OpenNew(c, t) ==
    /\ Call(c)
    /\ Remapped(service[registry], t)[t] = 0
    /\ Spare > 2
    /\ session' = Append(session, NewSession(c))
    /\ service' = [service EXCEPT ![registry].table[t] = Len(session'),
                                  ![registry].sync = FALSE]
    /\ Outdated
    /\ UNCHANGED <<registry, conn, misled>>

(* handle_close kills the child of a session, whoever started it.         *)
CloseTerminal(c, t) ==
    /\ Call(c)
    /\ LET i == service[registry].table[t]
       IN  /\ i # 0
           /\ session' = [session EXCEPT ![i] =
                [Dropped(i, Conn) EXCEPT !.shell = IF @ = "up" THEN "exited" ELSE @]]
    /\ service' = [service EXCEPT ![registry].table[t] = 0]
    /\ UNCHANGED <<registry, conn, thread, janitor, misled>>

-----------------------------------------------------------------------------
(* The thread of a connection: run.                                        *)

(* GenericService::run enters the loop of the service, or finds it over.   *)
Outer(c) ==
    /\ thread[c].pc = "outer"
    /\ Goto(c, IF conn[c] = "open" THEN "top" ELSE "none")
    /\ UNCHANGED <<registry, service, session, conn, janitor, calls, misled>>

(* while sp.ok(): a new proxy reads is_persistent, read_outputs clones the *)
(* table.  After the loop: "Clean up non-persistent service".              *)
Top(c) ==
    /\ thread[c].pc = "top"
    /\ \/ /\ conn[c] # "open"
          /\ Goto(c, IF registry # 0 /\ ~service[registry].persistent THEN "remove" ELSE "none")
       \/ /\ conn[c] = "open"
          /\ registry # 0
          /\ LET table == service[registry].table
                 list == {<<t, table[t]>> : t \in {u \in Tid : table[u] # 0}}
             IN  /\ list # {}
                 /\ thread' = [thread EXCEPT ![c] =
                      [NoThread EXCEPT !.pc = "each", !.svc = registry, !.list = list,
                           !.persistent = service[registry].persistent]]
    /\ UNCHANGED <<registry, service, session, conn, janitor, calls, misled>>

(* The thread is done with one session; `id` is {} or the id of a terminal *)
(* to be cleaned up.                                                       *)
Looked(c, p, id) ==
    LET list == thread[c].list \ {p}
        closed == thread[c].closed \cup id
    IN  thread' = [thread EXCEPT ![c] =
            IF list = {} /\ closed = {} THEN [NoThread EXCEPT !.pc = "top"]
            ELSE [@ EXCEPT !.list = list, !.closed = closed,
                           !.pc = IF list = {} THEN "clone" ELSE "each"]]

(* The end of a shell shows in the reader thread, or in try_wait.          *)
Ended(s) == ~s.told /\ s.shell = "exited" /\ (s.child \/ ReaderSeesEof)

(* What the thread sends under the id t is what a viewer of this           *)
(* connection has on its screen under that id.                             *)
Shown(c, p, s, output) ==
    IF output = <<>> THEN s
    ELSE IF s.viewer # c \/ service[thread[c].svc].table[p[1]] # p[2]
    THEN [s EXCEPT !.torn = TRUE]
    ELSE [s EXCEPT !.last = output[Len(output)],
                   !.gap = @ \/ (~s.torn /\ \E k \in 1..Len(output) : output[k] # s.last + k)]

(* read_outputs, one session: drain the channel into the history, and send *)
(* the replay and the news when somebody opened the terminal.              *)
Each(c, p) ==
    /\ thread[c].pc = "each"
    /\ p \in thread[c].list
    /\ LET i == p[2]
           s == session[i]
           active == s.state = "Active"
           ended == Ended(s)
       IN  /\ session' = [session EXCEPT ![i] =
                [(IF active THEN Shown(c, p, s, s.pending \o s.chan) ELSE s)
                    EXCEPT !.told = @ \/ ended, !.chan = <<>>,
                           !.buffer = LastOf(s.buffer \o s.chan, Recent),
                           !.pending = IF active THEN <<>> ELSE @]]
           /\ Looked(c, p, IF ended THEN {p[1]} ELSE {})
           /\ misled' = IF ended /\ service[thread[c].svc].table[p[1]] # i
                        THEN misled \cup {i} ELSE misled
    /\ UNCHANGED <<registry, service, conn, janitor, calls>>

(* try_lock fails: another thread, or a handler, has the session.          *)
Skip(c, p) ==
    /\ thread[c].pc = "each"
    /\ p \in thread[c].list
    /\ \E d \in Conn \ {c} : conn[d] = "open" \/ p[2] \in {q[2] : q \in thread[d].list}
    /\ Looked(c, p, {})
    /\ UNCHANGED <<registry, service, session, conn, janitor, calls, misled>>

(* "Clean up closed terminals": the table is copied, ...                   *)
Clone(c) ==
    /\ thread[c].pc = "clone"
    /\ thread' = [thread EXCEPT ![c].pc = "cleanup", ![c].clone = service[thread[c].svc].table]
    /\ UNCHANGED <<registry, service, session, conn, janitor, calls, misled>>

(* ... and each id looked up in the copy, and removed from the table as it *)
(* is now.                                                                 *)
CleanupClosed(c, t) ==
    /\ thread[c].pc = "cleanup"
    /\ t \in thread[c].closed
    /\ LET o == thread[c].svc
           i == thread[c].clone[t]
           j == service[o].table[t]
           gone == i # 0 /\ (thread[c].persistent => session[i].told)
       IN  /\ service' = IF gone THEN [service EXCEPT ![o].table[t] = 0] ELSE service
           /\ session' = [k \in Sid |-> IF k = j /\ gone THEN Dropped(k, Conn \ {c})
                                        ELSE IF k = i THEN [session[k] EXCEPT !.child = FALSE]
                                        ELSE session[k]]
           /\ misled' = IF i # 0 /\ ~(gone /\ i = j) THEN misled \cup {i} ELSE misled
    /\ thread' = [thread EXCEPT ![c] =
                    IF @.closed = {t} THEN [NoThread EXCEPT !.pc = "top"]
                    ELSE [@ EXCEPT !.closed = thread[c].closed \ {t}]]
    /\ UNCHANGED <<registry, conn, janitor, calls>>

Remove(c) ==
    /\ thread[c].pc = "remove"
    /\ RemoveService
    /\ thread' = [thread EXCEPT ![c] = NoThread]
    /\ UNCHANGED <<service, conn, janitor, calls, misled>>

-----------------------------------------------------------------------------
(* cleanup_inactive_services chooses under the lock of the registry and    *)
(* removes after it.                                                       *)

(* Mutant: idle persistent services go like the others.                    *)
JanitorPickAll ==
    /\ janitor.pc = "look"
    /\ registry # 0
    /\ janitor' = [pc |-> "remove", fresh |-> TRUE]
    /\ UNCHANGED <<registry, service, session, conn, thread, calls, misled>>

(* After SERVICE_IDLE_TIMEOUT without a call of the client, whether it is  *)
(* still connected or not: output is no activity.                          *)
JanitorPick ==
    /\ janitor.pc = "look"
    /\ registry # 0
    /\ service[registry].persistent => service[registry].table = Empty
    /\ janitor' = [pc |-> "remove", fresh |-> TRUE]
    /\ UNCHANGED <<registry, service, session, conn, thread, calls, misled>>

JanitorRemove ==
    /\ janitor.pc = "remove"
    /\ RemoveService
    /\ janitor' = [pc |-> "look", fresh |-> TRUE]
    /\ UNCHANGED <<service, conn, thread, calls, misled>>

-----------------------------------------------------------------------------
(* The shell: output for the channel, which drops it when it is full.      *)
Output(i) ==
    /\ session[i].shell = "up"
    /\ Spare > 0
    /\ LET n == session[i].made + 1
           full == Len(session[i].chan) = ChannelSize
       IN  session' = [session EXCEPT ![i].made = n, ![i].torn = @ \/ full,
                                      ![i].chan = IF full THEN @ ELSE Append(@, n)]
    /\ UNCHANGED <<registry, service, conn, thread, janitor, calls, misled>>

ShellExit(i) ==
    /\ session[i].shell = "up"
    /\ session' = [session EXCEPT ![i].shell = "exited"]
    /\ UNCHANGED <<registry, service, conn, thread, janitor, calls, misled>>

Step(c) ==
    \/ Outer(c) \/ Top(c) \/ Clone(c) \/ Remove(c)
    \/ \E t \in Tid : CleanupClosed(c, t)
    \/ \E p \in thread[c].list : Each(c, p)

(* Everything ended: what is left is a persistent service with its shells. *)
Terminated ==
    /\ \A c \in Conn : conn[c] = "closed" /\ thread[c].pc = "none"
    /\ UNCHANGED vars

Next ==
    \/ \E c \in Conn :
          \/ \E b \in BOOLEAN : InitTerminalService(c, b) \/ SetPersistent(c, b)
          \/ \E t \in Tid : OpenExisting(c, t) \/ OpenNew(c, t) \/ CloseTerminal(c, t)
          \/ Disconnect(c)
          \/ Step(c)
          \/ \E p \in thread[c].list : Skip(c, p)
    \/ \E i \in Sid : Output(i) \/ ShellExit(i)
    \/ JanitorPick \/ JanitorRemove
    \/ Terminated

TerminalSpec == TerminalInit /\ [][Next]_vars

-----------------------------------------------------------------------------
Labels == {"none", "outer", "top", "each", "clone", "cleanup", "remove"}
Service == [persistent : BOOLEAN, sync : BOOLEAN, table : [Tid -> Nat]]
Session == [state : {"Active", "Closed"}, pending : Seq(Nat), chan : Seq(Nat),
            buffer : Seq(Nat), made : Nat, shell : {"up", "exited", "stopped"},
            told : BOOLEAN, child : BOOLEAN, viewer : Conn, last : Nat,
            torn : BOOLEAN, gap : BOOLEAN]
Thread == [pc : Labels, svc : Nat, persistent : BOOLEAN, list : SUBSET (Tid \X Nat),
           closed : SUBSET Tid, clone : [Tid -> Nat], fresh : BOOLEAN]

(* References are to objects that exist; the buffers keep their sizes.     *)
TerminalTypeOK ==
    /\ registry \in 0..Len(service)
    /\ service \in Seq(Service)
    /\ \A o \in Object, t \in Tid : service[o].table[t] <= Len(session)
    /\ session \in Seq(Session)
    /\ \A i \in Sid : /\ Len(session[i].chan) <= ChannelSize
                      /\ Len(session[i].buffer) <= Recent
                      /\ Len(session[i].pending) <= Recent
    /\ conn \in [Conn -> {"new", "open", "closed"}]
    /\ thread \in [Conn -> Thread]
    /\ \A c \in Conn : /\ thread[c].svc <= Len(service)
                       /\ \A p \in thread[c].list : p[2] \in Sid
                       /\ \A t \in Tid : thread[c].clone[t] <= Len(session)
    /\ janitor \in [pc : {"look", "remove"}, fresh : BOOLEAN]
    /\ misled \subseteq Sid

(* One terminal id, one session: a remap never leaves a session under two  *)
(* ids, and no two services share one.                                     *)
OneName ==
    \A i \in Sid : Cardinality({ot \in Object \X Tid : service[ot[1]].table[ot[2]] = i}) <= 1

(* The output a client sees of a terminal it opened has no hole and nothing*)
(* twice, across reconnection and replay.  Excepted are a full channel and *)
(* output that the thread of another connection, or of a stale id, took.   *)
OutputContinuous == \A i \in Sid : ~session[i].gap

(* A running shell of a persistent service survives the end of connections *)
(* and the janitor, unless a removal was decided before it came to be.     *)
PersistentSurvives ==
    [][registry # 0 /\ registry' = 0 /\ service[registry].persistent
         /\ service[registry].table # Empty
       => \/ ~janitor.fresh \/ \E c \in Conn : ~thread[c].fresh]_vars

(* No dead session is forgotten: as long as it has a name, either a thread *)
(* can still notice its end, or one that noticed will clean up under that  *)
(* name.  Excepted are sessions that were renamed, or got a new            *)
(* session's name, between the two steps.                                  *)
DeadNoticed ==
    \A o \in Object, t \in Tid :
        LET i == service[o].table[t]
        IN  i # 0 /\ session[i].shell = "exited" /\ i \notin misled =>
              IF session[i].told
              THEN \E c \in Conn : thread[c].svc = o /\ t \in thread[c].closed
              ELSE Ended(session[i])

(* Types, and that a session has one name, under which its end is noticed. *)
TerminalInv == TerminalTypeOK /\ OneName /\ DeadNoticed

-----------------------------------------------------------------------------
(* The inductive invariant.                                                *)

Unique ==
    \A o, p \in Object : \A t, u \in Tid :
        service[o].table[t] # 0 /\ service[o].table[t] = service[p].table[u]
        => o = p /\ t = u

(* q is first + 1, first + 2, ...                                          *)
Run(q, first) == \A k \in 1..Len(q) : q[k] = first + k

(* History and channel end with the newest chunk and reach back as far as  *)
(* a replay does; what is to be sent continues what the viewer has.        *)
Continuous(s) ==
    ~s.torn =>
        LET h == s.buffer \o s.chan
            p == s.pending \o s.chan
        IN  /\ Len(h) <= s.made
            /\ Len(h) >= Recent \/ Len(h) = s.made
            /\ Run(h, s.made - Len(h))
            /\ s.state = "Active" => Run(p, s.last) /\ s.last + Len(p) = s.made

(* A thread works on the sessions of an object, or on nothing.             *)
ThreadsOK ==
    \A c \in Conn :
        /\ conn[c] = "new" => thread[c] = NoThread
        /\ IF thread[c].pc \in {"each", "clone", "cleanup"} THEN thread[c].svc # 0
           ELSE thread[c].closed = {}

(* The thread that noticed the end of session i will look it up under t.   *)
Cleans(c, o, t, i) ==
    /\ thread[c].svc = o
    /\ t \in thread[c].closed
    /\ thread[c].pc = "cleanup" => thread[c].clone[t] = i

(* A named session has its child, and one whose end was noticed a thread   *)
(* that cleans it up.                                                      *)
EndsTracked ==
    \A o \in Object, t \in Tid :
        LET i == service[o].table[t]
        IN  i # 0 /\ i \notin misled /\ session[i].shell # "stopped" =>
              /\ session[i].child
              /\ session[i].told => \E c \in Conn : Cleans(c, o, t, i)

(* What was true when a removal was decided, while nothing outdated it.    *)
RemovalsJustified ==
    /\ \A c \in Conn : thread[c].pc = "remove" /\ thread[c].fresh /\ registry # 0
                          => ~service[registry].persistent
    /\ janitor.pc = "remove" /\ janitor.fresh /\ registry # 0
          => (service[registry].persistent => service[registry].table = Empty)

TerminalIInv ==
    /\ TerminalTypeOK
    /\ Unique
    /\ \A i \in Sid : Continuous(session[i]) /\ ~session[i].gap
    /\ ThreadsOK
    /\ EndsTracked
    /\ RemovalsJustified
=============================================================================
