------------------------------ MODULE AgentSync ------------------------------
(***************************************************************************)
(* The management plane: the agent's loop that uploads its system          *)
(* information and sends heartbeats (hbbs_http/sync.rs), the handlers of   *)
(* the management API it talks to (unydesk-api: routes/agent.ts and        *)
(* routes/devices.ts), and the connections that a heartbeat's answer       *)
(* closes.                                                                 *)
(*                                                                         *)
(* A handler runs one SQL statement at a time, and the statements of       *)
(* different handlers interleave.  The agent has one request open; when it *)
(* gives up on the answer, the handler runs on, and a later request may    *)
(* overtake it.                                                            *)
(***************************************************************************)
EXTENDS Naturals, FiniteSets

CONSTANTS
    Slot,        \* handlers the API runs at a time
    MaxId,       \* bound on the ids the device takes
    MaxConn,     \* connection ids of one run of the agent
    MaxGiveUps,  \* bound on answers the agent does not get
    MaxAdmin,    \* bound on operations in the console
    MaxRestarts  \* bound on restarts of the agent

ASSUME AgentAssumption ==
    /\ MaxId \in Nat \ {0}
    /\ {MaxConn, MaxGiveUps, MaxAdmin, MaxRestarts} \subseteq Nat

VARIABLES
    id,            \* Config::get_id()
    alive,         \* ALIVE_CONNS
    next_conn,     \* the next connection id of this run
    told,          \* connections that have the signal to close in their channel
    phase,         \* the agent's loop: between two ticks, or at a request
    info_uploaded, \* InfoUploaded.id when `uploaded`, 0 when not
    retry,         \* last_uploaded is within UPLOAD_SYSINFO_TIMEOUT
    due,           \* TIME_HEARTBEAT has passed since last_sent
    tick,          \* the locals `id` and `conns` of the tick
    devices,       \* table devices: [1..MaxId -> Row or NoRow]
    queue,         \* table disconnect_queue: [1..MaxId -> set of conn ids]
    handler,       \* the handlers of the API: [Slot -> ...]
    giveups, admin, restarts,   \* bounded events so far
    deleted,       \* bookkeeping: ids an administrator deleted
    lost           \* bookkeeping: conn ids in an answer the agent did not get

agentVars == <<id, alive, next_conn, told, phase, info_uploaded, retry, due, tick>>
tables == <<devices, queue>>
bounds == <<giveups, admin, restarts>>
vars == <<agentVars, tables, handler, bounds, deleted, lost>>

Ids == 1..MaxId
Conns == 1..MaxConn
NoRow == [listed |-> FALSE, conns |-> {}]     \* no row with this id
Row(conns) == [listed |-> TRUE, conns |-> conns]

(* `open`: the agent waits for the answer; `got`: what the statements so   *)
(* far returned (the row of sysinfo's SELECT, the queue of the DELETE).    *)
Free == [op |-> "none", pc |-> "free", id |-> 1, conns |-> {}, open |-> FALSE,
         found |-> FALSE, got |-> {}]
Handlers == [op : {"none", "sysinfo", "heartbeat"},
             pc : {"free", "select", "write", "update", "delete", "reply"},
             id : Ids, conns : SUBSET Conns, open : BOOLEAN, found : BOOLEAN,
             got : SUBSET Conns]

(* Between two ticks.                                                      *)
NoTick == [id |-> 1, conns |-> {}]

AgentInit ==
    /\ id = 1
    /\ alive = {} /\ next_conn = 1 /\ told = {}
    /\ phase = "idle"
    /\ info_uploaded = 0
    /\ retry = FALSE
    /\ due = TRUE
    /\ tick = NoTick
    /\ devices = [i \in Ids |-> NoRow]
    /\ queue = [i \in Ids |-> {}]
    /\ handler = [s \in Slot |-> Free]
    /\ giveups = 0 /\ admin = 0 /\ restarts = 0
    /\ deleted = {}
    /\ lost = {}

-----------------------------------------------------------------------------
(* The agent.                                                              *)

(* A request with the locals t of a tick; free slots are all alike.        *)
Post(s, op, pc, t) ==
    /\ handler[s] = Free
    /\ s = CHOOSE f \in Slot : handler[f] = Free
    /\ handler' = [handler EXCEPT ![s] =
                     [Free EXCEPT !.op = op, !.pc = pc, !.id = t.id, !.conns = t.conns,
                                  !.open = TRUE]]

Locals(conns) == [id |-> id, conns |-> conns]

(* need_upload, after the check that the upload was for this id.           *)
NeedUpload == info_uploaded # id /\ ~retry

(* An interval tick that uploads: conns is read first, and `uploaded` is   *)
(* dropped when the id has changed.                                        *)
TickUpload(s) ==
    /\ phase = "idle"
    /\ NeedUpload
    /\ tick' = Locals(alive)
    /\ info_uploaded' = IF info_uploaded = id THEN id ELSE 0
    /\ phase' = "sysinfo"
    /\ Post(s, "sysinfo", "select", Locals({}))
    /\ UNCHANGED <<id, alive, next_conn, told, retry, due, tables, bounds, deleted, lost>>

(* The heartbeat: every tick with connections, every 15 seconds without.   *)
Beat(s, t) ==
    /\ t.conns # {} \/ due
    /\ due' = FALSE
    /\ phase' = "heartbeat"
    /\ Post(s, "heartbeat", "update", t)

(* A tick with nothing to upload.                                          *)
TickBeat(s) ==
    /\ phase = "idle"
    /\ ~NeedUpload
    /\ info_uploaded' = IF info_uploaded = id THEN id ELSE 0
    /\ Beat(s, Locals(alive))
    /\ UNCHANGED <<id, alive, next_conn, told, retry, tick, tables, bounds, deleted,
                   lost>>

(* The same tick goes on to the heartbeat after the upload, with the id    *)
(* and the connections it saw before it.                                   *)
AfterUpload(s) ==
    /\ phase = "uploaded"
    /\ Beat(s, tick)
    /\ tick' = NoTick
    /\ UNCHANGED <<id, alive, next_conn, told, info_uploaded, retry, tables,
                   bounds, deleted, lost>>

AfterUploadSkip ==
    /\ phase = "uploaded"
    /\ tick.conns = {} /\ ~due
    /\ phase' = "idle"
    /\ tick' = NoTick
    /\ UNCHANGED <<id, alive, next_conn, told, info_uploaded, retry, due,
                   tables, handler, bounds, deleted, lost>>

(* Another user logs on: the username uploaded is not the current one.     *)
UserChanges ==
    /\ info_uploaded # 0
    /\ info_uploaded' = 0
    /\ UNCHANGED <<id, alive, next_conn, told, phase, retry, due, tick, tables,
                   handler, bounds, deleted, lost>>

(* TIME_HEARTBEAT, UPLOAD_SYSINFO_TIMEOUT                                  *)
HeartbeatDue ==
    /\ ~due
    /\ due' = TRUE
    /\ UNCHANGED <<id, alive, next_conn, told, phase, info_uploaded, retry, tick,
                   tables, handler, bounds, deleted, lost>>

(* Mutant: only an upload that succeeded gets old.                         *)
RetryDueUploaded ==
    /\ retry
    /\ info_uploaded = id
    /\ retry' = FALSE
    /\ UNCHANGED <<id, alive, next_conn, told, phase, info_uploaded, due, tick,
                   tables, handler, bounds, deleted, lost>>

RetryDue ==
    /\ retry
    /\ retry' = FALSE
    /\ UNCHANGED <<id, alive, next_conn, told, phase, info_uploaded, due, tick,
                   tables, handler, bounds, deleted, lost>>

(* post_request times out, and the handler does not know; or it fails      *)
(* before the request has reached the API.                                 *)
GiveUp(s) ==
    /\ handler[s].open
    /\ giveups < MaxGiveUps
    /\ giveups' = giveups + 1
    /\ \/ handler' = [handler EXCEPT ![s].open = FALSE]
       \/ /\ handler[s].pc \in {"select", "update"}
          /\ handler' = [handler EXCEPT ![s] = Free]
    /\ IF phase = "sysinfo" THEN retry' = TRUE /\ phase' = "uploaded"
       ELSE phase' = "idle" /\ UNCHANGED retry
    /\ UNCHANGED <<id, alive, next_conn, told, info_uploaded, due, tick, tables,
                   admin, restarts, deleted, lost>>

-----------------------------------------------------------------------------
(* The connections.                                                        *)
Connect ==
    /\ next_conn <= MaxConn
    /\ alive' = alive \cup {next_conn}
    /\ next_conn' = next_conn + 1
    /\ UNCHANGED <<id, told, phase, info_uploaded, retry, due, tick, tables, handler,
                   bounds, deleted, lost>>

Disconnect(c) ==
    /\ c \in alive
    /\ alive' = alive \ {c}
    /\ told' = told \ {c}
    /\ UNCHANGED <<id, next_conn, phase, info_uploaded, retry, due, tick, tables,
                   handler, bounds, deleted, lost>>

(* "Closed manually by web console"                                        *)
ClosedByConsole(c) == c \in told /\ Disconnect(c)

(* handle_uuid_mismatch gives the device another id.                       *)
UpdateId ==
    /\ id < MaxId
    /\ id' = id + 1
    /\ UNCHANGED <<alive, next_conn, told, phase, info_uploaded, retry, due, tick,
                   tables, handler, bounds, deleted, lost>>

(* The agent restarts: its memory is gone, and its connection ids are      *)
(* counted from a new random start.                                        *)
RestartAgent(n) ==
    /\ restarts < MaxRestarts
    /\ restarts' = restarts + 1
    /\ alive' = {} /\ told' = {} /\ next_conn' = n
    /\ phase' = "idle" /\ info_uploaded' = 0 /\ retry' = FALSE /\ due' = TRUE
    /\ tick' = NoTick
    /\ handler' = [s \in Slot |-> [handler[s] EXCEPT !.open = FALSE]]
    /\ UNCHANGED <<id, tables, giveups, admin, deleted, lost>>

-----------------------------------------------------------------------------
(* POST /api/sysinfo                                                       *)
SysinfoSelect(s) ==
    /\ handler[s].pc = "select"
    /\ handler' = [handler EXCEPT ![s].pc = "write",
                                  ![s].found = devices[handler[s].id].listed]
    /\ UNCHANGED <<agentVars, tables, bounds, deleted, lost>>

(* The answer reaches the agent, if it still waits.                        *)
UploadAnswered(s, updated) ==
    IF handler[s].open
    THEN /\ phase' = "uploaded"
         /\ info_uploaded' = IF updated THEN handler[s].id ELSE info_uploaded
         /\ retry' = IF updated THEN FALSE ELSE TRUE
    ELSE UNCHANGED <<phase, info_uploaded, retry>>

(* Mutant: a row that was not found is not inserted.                       *)
SysinfoUpdateOnly(s) ==
    /\ handler[s].pc = "write"
    /\ handler' = [handler EXCEPT ![s] = Free]
    /\ UploadAnswered(s, TRUE)
    /\ UNCHANGED <<id, alive, next_conn, told, due, tick, tables, bounds, deleted, lost>>

(* UPDATE of a row that was found, even if it is gone by now; INSERT of    *)
(* one that was not, which fails when another handler was faster.          *)
SysinfoWrite(s) ==
    /\ handler[s].pc = "write"
    /\ LET i == handler[s].id
       IN  IF handler[s].found THEN UploadAnswered(s, TRUE) /\ UNCHANGED devices
           ELSE IF devices[i].listed THEN UploadAnswered(s, FALSE) /\ UNCHANGED devices
           ELSE UploadAnswered(s, TRUE) /\ devices' = [devices EXCEPT ![i] = Row({})]
    /\ handler' = [handler EXCEPT ![s] = Free]
    /\ UNCHANGED <<id, alive, next_conn, told, due, tick, queue, bounds, deleted, lost>>

(* Mutant: COALESCE the other way round keeps what is stored.              *)
HeartbeatUpdateSwapped(s) ==
    /\ handler[s].pc = "update"
    /\ handler' = [handler EXCEPT ![s].pc = "delete"]
    /\ UNCHANGED <<agentVars, tables, bounds, deleted, lost>>

(* POST /api/heartbeat: conns are stored when there are any, ...           *)
HeartbeatUpdate(s) ==
    /\ handler[s].pc = "update"
    /\ LET i == handler[s].id
       IN  devices' = IF devices[i].listed /\ handler[s].conns # {}
                      THEN [devices EXCEPT ![i].conns = handler[s].conns] ELSE devices
    /\ handler' = [handler EXCEPT ![s].pc = "delete"]
    /\ UNCHANGED <<agentVars, queue, bounds, deleted, lost>>

(* ... DELETE ... RETURNING empties the queue of the device, ...           *)
HeartbeatDelete(s) ==
    /\ handler[s].pc = "delete"
    /\ handler' = [handler EXCEPT ![s].pc = "reply", ![s].got = queue[handler[s].id]]
    /\ queue' = [queue EXCEPT ![handler[s].id] = {}]
    /\ UNCHANGED <<agentVars, devices, bounds, deleted, lost>>

(* Mutant: the answer leaves out the connections to close.                 *)
HeartbeatReplyEmpty(s) ==
    /\ handler[s].pc = "reply"
    /\ handler' = [handler EXCEPT ![s] = Free]
    /\ phase' = IF handler[s].open THEN "idle" ELSE phase
    /\ UNCHANGED <<id, alive, next_conn, told, info_uploaded, retry, due, tick,
                   tables, bounds, deleted, lost>>

(* ... and the answer is broadcast to the connections there are.  It has   *)
(* no "sysinfo": the API never asks for another upload.                    *)
HeartbeatReply(s) ==
    /\ handler[s].pc = "reply"
    /\ handler' = [handler EXCEPT ![s] = Free]
    /\ IF handler[s].open
       THEN /\ told' = told \cup (handler[s].got \cap alive)
            /\ phase' = "idle"
            /\ UNCHANGED lost
       ELSE /\ lost' = lost \cup handler[s].got
            /\ UNCHANGED <<told, phase>>
    /\ UNCHANGED <<id, alive, next_conn, info_uploaded, retry, due, tick, tables,
                   bounds, deleted>>

-----------------------------------------------------------------------------
(* The console.                                                            *)
Administer == admin < MaxAdmin /\ admin' = admin + 1

(* DELETE /api/devices/:guid; its queue stays.                             *)
DeleteDevice(i) ==
    /\ Administer
    /\ devices[i].listed
    /\ devices' = [devices EXCEPT ![i] = NoRow]
    /\ deleted' = deleted \cup {i}
    /\ UNCHANGED <<agentVars, queue, handler, giveups, restarts, lost>>

(* POST /api/devices/deploy and /cli: the row is there afterwards.         *)
Deploy(i) ==
    /\ Administer
    /\ devices' = IF devices[i].listed THEN devices ELSE [devices EXCEPT ![i] = Row({})]
    /\ UNCHANGED <<agentVars, queue, handler, giveups, restarts, deleted, lost>>

(* POST /api/devices/:guid/disconnect, one connection of the list shown.   *)
QueueDisconnect(i, c) ==
    /\ Administer
    /\ devices[i].listed
    /\ c \in devices[i].conns
    /\ queue' = [queue EXCEPT ![i] = @ \cup {c}]
    /\ UNCHANGED <<agentVars, devices, handler, giveups, restarts, deleted, lost>>

-----------------------------------------------------------------------------
Agent(s) == TickUpload(s) \/ TickBeat(s) \/ AfterUpload(s)

Api(s) ==
    \/ SysinfoSelect(s)
    \/ SysinfoWrite(s)
    \/ HeartbeatUpdate(s)
    \/ HeartbeatDelete(s)
    \/ HeartbeatReply(s)

AgentNext ==
    \/ \E s \in Slot : Agent(s) \/ Api(s) \/ GiveUp(s)
    \/ AfterUploadSkip
    \/ HeartbeatDue
    \/ RetryDue
    \/ Connect
    \/ \E c \in Conns : Disconnect(c) \/ ClosedByConsole(c)
    \/ UpdateId
    \/ UserChanges
    \/ \E n \in Conns : RestartAgent(n)
    \/ \E i \in Ids : \/ DeleteDevice(i)
                      \/ Deploy(i)
                      \/ \E c \in Conns : QueueDisconnect(i, c)

AgentSpec == AgentInit /\ [][AgentNext]_vars

(* Timers fire, the API runs its handlers, a connection reads its signal.  *)
AgentFairSpec ==
    /\ AgentSpec
    /\ WF_vars(\E s \in Slot : Agent(s))
    /\ \A s \in Slot : WF_vars(Api(s))
    /\ WF_vars(AfterUploadSkip)
    /\ WF_vars(HeartbeatDue)
    /\ WF_vars(RetryDue)
    /\ \A c \in Conns : WF_vars(ClosedByConsole(c))

-----------------------------------------------------------------------------
AgentTypeOK ==
    /\ id \in Ids
    /\ alive \in SUBSET Conns
    /\ told \in SUBSET alive
    /\ phase \in {"idle", "sysinfo", "uploaded", "heartbeat"}
    /\ info_uploaded \in 0..MaxId
    /\ tick \in [id : Ids, conns : SUBSET Conns]
    /\ devices \in [Ids -> [listed : BOOLEAN, conns : SUBSET Conns]]
    /\ queue \in [Ids -> SUBSET Conns]
    /\ handler \in [Slot -> Handlers]
    /\ \A s, t \in Slot : handler[s].open /\ handler[t].open => s = t

(* An agent that believes its upload succeeded is in the table of devices, *)
(* although SELECT and INSERT are two statements and an abandoned upload   *)
(* may finish later.  Excepted are the devices an administrator deleted.   *)
UploadedIsListed ==
    info_uploaded \in Ids => devices[info_uploaded].listed \/ info_uploaded \in deleted

(* A device that was deleted in the console comes back with the next       *)
(* upload its agent makes, which the heartbeat never asks for: only a      *)
(* restart, another user or another id make it forget its upload.  An      *)
(* upload whose SELECT still saw the row does not count.                   *)
DeletedComesBack ==
    /\ ~devices[id].listed
    /\ info_uploaded # id
    /\ \A s \in Slot : handler[s].op # "sysinfo"
    ~> devices[id].listed

(* The console ends up showing the connections the agent has, although a   *)
(* heartbeat the agent gave up on may be stored after a later one.  When   *)
(* the agent has none it says nothing, and the console goes on showing the *)
(* last ones.                                                              *)
ShownCatchesUp == <>[](devices[id].listed /\ alive # {} => devices[id].conns = alive)

(* A connection the console asked to close is closed, unless the answer    *)
(* that carried it was lost (the queue has been emptied by then), or the   *)
(* device took another id (the queue of the old one is not read again).    *)
DisconnectDelivered ==
    \A i \in Ids, c \in Conns :
        c \in queue[i] /\ c \in alive ~> c \notin alive \/ c \in lost \/ id # i
=============================================================================
