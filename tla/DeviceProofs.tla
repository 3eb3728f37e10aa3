---------------------------- MODULE DeviceProofs ----------------------------
(***************************************************************************)
(* What a device agrees on with the machines it talks to: with the         *)
(* management API (AgentSync.tla), with the peer that connects to it by    *)
(* way of hbbs and hbbr (ConnectionSetup.tla), and with the peer that      *)
(* copies files from it (TransferJobs.tla).                                *)
(***************************************************************************)
EXTENDS AgentSync, ConnectionSetup, TransferJobs, FiniteSetTheorems, TLAPS

-----------------------------------------------------------------------------
(* The management synchronisation of the agent.                            *)

Listed(i) == devices[i].listed \/ i \in deleted

(* What sysinfo's SELECT found stays true until the write, unless the      *)
(* device was deleted in between: rows only go with DeleteDevice.          *)
FoundIsListed == \A s \in Slot : handler[s].found => Listed(handler[s].id)

(* The agent waits for an answer exactly in these two phases.              *)
OpenWhileWaiting ==
    /\ next_conn \in Nat \ {0}
    /\ \A s \in Slot : handler[s].open => phase \in {"sysinfo", "heartbeat"}

AgentInv == AgentTypeOK /\ OpenWhileWaiting /\ FoundIsListed /\ UploadedIsListed

(* No step but DeleteDevice, which notes it, takes a device off the list.  *)
LEMMA ListedStays ==
    ASSUME AgentTypeOK, [AgentNext]_vars, NEW i \in Ids, Listed(i)
    PROVE  Listed(i)'
  <1> USE DEF AgentTypeOK, Listed
  <1>1. CASE UNCHANGED <<devices, deleted>>
    BY <1>1
  <1>2. CASE \E s \in Slot : Agent(s) \/ GiveUp(s)
    BY <1>1, <1>2 DEF Agent, TickUpload, TickBeat, AfterUpload, GiveUp, tables
  <1>3. ASSUME NEW s \in Slot, SysinfoSelect(s) \/ HeartbeatDelete(s) \/ HeartbeatReply(s)
        PROVE  Listed(i)'
    BY <1>1, <1>3 DEF SysinfoSelect, HeartbeatDelete, HeartbeatReply, tables
  <1>4. ASSUME NEW s \in Slot, SysinfoWrite(s)
        PROVE  Listed(i)'
    BY <1>4 DEF SysinfoWrite, Row
  <1>5. ASSUME NEW s \in Slot, HeartbeatUpdate(s)
        PROVE  Listed(i)'
    <2>1. devices'[i].listed = devices[i].listed
      BY <1>5 DEF HeartbeatUpdate, Handlers
    <2> QED
      BY <1>5, <2>1 DEF HeartbeatUpdate
  <1>6. CASE \/ AfterUploadSkip \/ HeartbeatDue \/ RetryDue \/ Connect \/ UpdateId
             \/ UserChanges \/ \E c \in Conns : Disconnect(c) \/ ClosedByConsole(c)
             \/ \E n \in Conns : RestartAgent(n)
    BY <1>1, <1>6 DEF AfterUploadSkip, HeartbeatDue, RetryDue, Connect, UpdateId, UserChanges,
                      Disconnect, ClosedByConsole, RestartAgent, tables
  <1>7. ASSUME NEW j \in Ids, DeleteDevice(j)
        PROVE  Listed(i)'
    BY <1>7 DEF DeleteDevice, NoRow
  <1>8. ASSUME NEW j \in Ids, Deploy(j)
        PROVE  Listed(i)'
    BY <1>8 DEF Deploy, Row
  <1>9. ASSUME NEW j \in Ids, NEW c \in Conns, QueueDisconnect(j, c)
        PROVE  Listed(i)'
    BY <1>1, <1>9 DEF QueueDisconnect
  <1>10. CASE UNCHANGED vars
    BY <1>1, <1>10 DEF vars, tables
  <1> QED
    BY <1>2, <1>3, <1>4, <1>5, <1>6, <1>7, <1>8, <1>9, <1>10 DEF AgentNext, Api

-----------------------------------------------------------------------------
(* The handler of slot s becomes x, any other stays.                       *)
LEMMA HandlerMoves ==
    ASSUME AgentInv, [AgentNext]_vars, NEW s \in Slot, NEW x \in Handlers,
           handler' = [handler EXCEPT ![s] = x],
           x.found => Listed(x.id)',
           x.open => phase' \in {"sysinfo", "heartbeat"}
                     /\ \A t \in Slot : t # s => ~handler[t].open,
           phase' \in {"sysinfo", "heartbeat"} \/ \A t \in Slot : t # s => ~handler[t].open
    PROVE  /\ handler' \in [Slot -> Handlers]
           /\ \A t, u \in Slot : handler'[t].open /\ handler'[u].open => t = u
           /\ \A t \in Slot : handler'[t].open => phase' \in {"sysinfo", "heartbeat"}
           /\ FoundIsListed'
  <1>1. handler \in [Slot -> Handlers]
    BY DEF AgentInv, AgentTypeOK
  <1>2. handler' \in [Slot -> Handlers]
    BY <1>1
  <1>3. handler'[s] = x /\ \A t \in Slot : t # s => handler'[t] = handler[t]
    BY <1>1
  <1>4. \A t, u \in Slot : handler'[t].open /\ handler'[u].open => t = u
    BY <1>3 DEF AgentInv, AgentTypeOK
  <1>5. \A t \in Slot : handler'[t].open => phase' \in {"sysinfo", "heartbeat"}
    BY <1>3
  <1>6. \A t \in Slot : handler[t].id \in Ids
    BY <1>1 DEF Handlers
  <1>7. FoundIsListed'
    <2> SUFFICES ASSUME NEW t \in Slot, handler'[t].found
                 PROVE  Listed(handler[t].id)' \/ t = s
      BY <1>3 DEF FoundIsListed
    <2> QED
      BY <1>3, <1>6, ListedStays DEF AgentInv, FoundIsListed
  <1> QED
    BY <1>2, <1>4, <1>5, <1>7

(* The locals between two ticks have the type of those of a tick.          *)
LEMMA NoTickIsTick == NoTick \in [id : Ids, conns : SUBSET Conns]
  BY AgentAssumption DEF NoTick, Ids

(* The agent opens a request: no other is open, as it was not waiting.     *)
LEMMA AgentKeepsInv ==
    ASSUME AgentInv, NEW s \in Slot, Agent(s)
    PROVE  AgentInv'
  <1> USE DEF AgentInv, AgentTypeOK, OpenWhileWaiting
  <1> DEFINE x(op, pc, l) ==
        [Free EXCEPT !.op = op, !.pc = pc, !.id = l.id, !.conns = l.conns, !.open = TRUE]
  <1>0. [AgentNext]_vars
    BY DEF AgentNext
  <1>1. \A t \in Slot : phase \notin {"sysinfo", "heartbeat"} => ~handler[t].open
    OBVIOUS
  <1>2. ASSUME NEW op \in {"sysinfo", "heartbeat"}, NEW pc \in {"select", "update"},
               NEW l \in [id : Ids, conns : SUBSET Conns], Post(s, op, pc, l),
               phase \in {"idle", "uploaded"}, phase' \in {"sysinfo", "heartbeat"}
        PROVE  /\ handler' \in [Slot -> Handlers]
               /\ \A t, u \in Slot : handler'[t].open /\ handler'[u].open => t = u
               /\ \A t \in Slot : handler'[t].open => phase' \in {"sysinfo", "heartbeat"}
               /\ FoundIsListed'
    <2>1. x(op, pc, l) \in Handlers /\ ~x(op, pc, l).found
      BY <1>2 DEF Handlers, Free
    <2>2. handler' = [handler EXCEPT ![s] = x(op, pc, l)]
      BY <1>2 DEF Post
    <2> HIDE DEF x
    <2> QED
      BY <1>0, <1>1, <1>2, <2>1, <2>2, HandlerMoves
  <1>l. Locals(alive) \in [id : Ids, conns : SUBSET Conns]
        /\ Locals({}) \in [id : Ids, conns : SUBSET Conns]
    BY DEF Locals
  <1>3. CASE TickUpload(s)
    <2>1. handler' \in [Slot -> Handlers] /\ FoundIsListed'
          /\ (\A t, u \in Slot : handler'[t].open /\ handler'[u].open => t = u)
          /\ (\A t \in Slot : handler'[t].open => phase' \in {"sysinfo", "heartbeat"})
      BY <1>2, <1>3, <1>l DEF TickUpload
    <2>2. /\ phase' = "sysinfo" /\ tick' = Locals(alive)
          /\ info_uploaded' \in {info_uploaded, 0}
          /\ UNCHANGED <<id, alive, next_conn, told, devices, queue, deleted>>
      BY <1>3 DEF TickUpload, tables
    <2> QED
      BY <2>1, <2>2, <1>l, AgentAssumption DEF UploadedIsListed, Ids
  <1>4. CASE TickBeat(s)
    <2>1. handler' \in [Slot -> Handlers] /\ FoundIsListed'
          /\ (\A t, u \in Slot : handler'[t].open /\ handler'[u].open => t = u)
          /\ (\A t \in Slot : handler'[t].open => phase' \in {"sysinfo", "heartbeat"})
      BY <1>2, <1>4, <1>l DEF TickBeat, Beat
    <2>2. /\ phase' = "heartbeat"
          /\ info_uploaded' \in {info_uploaded, 0}
          /\ UNCHANGED <<id, alive, next_conn, told, tick, devices, queue, deleted>>
      BY <1>4 DEF TickBeat, Beat, tables
    <2> QED
      BY <2>1, <2>2, <1>l, AgentAssumption DEF UploadedIsListed, Ids
  <1>5. CASE AfterUpload(s)
    <2>1. handler' \in [Slot -> Handlers] /\ FoundIsListed'
          /\ (\A t, u \in Slot : handler'[t].open /\ handler'[u].open => t = u)
          /\ (\A t \in Slot : handler'[t].open => phase' \in {"sysinfo", "heartbeat"})
      BY <1>2, <1>5 DEF AfterUpload, Beat
    <2>2. /\ phase' = "heartbeat" /\ tick' = NoTick
          /\ UNCHANGED <<id, alive, next_conn, told, info_uploaded, devices, queue,
                         deleted>>
      BY <1>5 DEF AfterUpload, Beat, tables
    <2> QED
      BY <2>1, <2>2, NoTickIsTick DEF UploadedIsListed
  <1> QED
    BY <1>3, <1>4, <1>5 DEF Agent

(* Steps of the agent, of its connections and of its timers that start no  *)
(* request, and its restart.                                               *)
LEMMA QuietKeepsInv ==
    ASSUME AgentInv,
           \/ AfterUploadSkip \/ HeartbeatDue \/ RetryDue \/ Connect \/ UpdateId
           \/ UserChanges \/ \E c \in Conns : Disconnect(c) \/ ClosedByConsole(c)
    PROVE  AgentInv'
  <1> USE AgentAssumption DEF AgentInv, AgentTypeOK, OpenWhileWaiting, UploadedIsListed,
          FoundIsListed, Listed, tables, Ids, Conns
  <1>1. CASE AfterUploadSkip
    BY <1>1, NoTickIsTick DEF AfterUploadSkip
  <1>2. CASE HeartbeatDue
    BY <1>2 DEF HeartbeatDue
  <1>3. CASE RetryDue
    BY <1>3 DEF RetryDue
  <1>4. CASE Connect
    BY <1>4 DEF Connect
  <1>5. CASE UpdateId
    BY <1>5 DEF UpdateId
  <1>6. CASE UserChanges
    BY <1>6 DEF UserChanges
  <1>7. ASSUME NEW c \in Conns, Disconnect(c) \/ ClosedByConsole(c)
        PROVE  AgentInv'
    BY <1>7 DEF Disconnect, ClosedByConsole
  <1> QED
    BY <1>1, <1>2, <1>3, <1>4, <1>5, <1>6, <1>7

LEMMA RestartAgentKeepsInv ==
    ASSUME AgentInv, NEW n \in Conns, RestartAgent(n)
    PROVE  AgentInv'
  <1>1. handler' \in [Slot -> Handlers]
    <2>1. \A s \in Slot : [handler[s] EXCEPT !.open = FALSE] \in Handlers
      BY DEF AgentInv, AgentTypeOK, Handlers
    <2> QED
      BY <2>1 DEF RestartAgent
  <1>2. \A s \in Slot : /\ handler'[s].found = handler[s].found
                        /\ handler'[s].id = handler[s].id
                        /\ handler'[s].open = FALSE
    BY DEF AgentInv, AgentTypeOK, RestartAgent, Handlers
  <1>3. FoundIsListed'
    BY <1>2 DEF AgentInv, FoundIsListed, Listed, RestartAgent, tables
  <1>4. AgentTypeOK'
    BY <1>1, <1>2, AgentAssumption, NoTickIsTick DEF AgentInv, AgentTypeOK, RestartAgent, tables
  <1>5. OpenWhileWaiting' /\ UploadedIsListed'
    BY <1>2, AgentAssumption DEF OpenWhileWaiting, UploadedIsListed, RestartAgent, Conns, Ids
  <1> QED
    BY <1>3, <1>4, <1>5 DEF AgentInv

(* An answer that is given up is not waited for by anyone.                 *)
LEMMA GiveUpKeepsInv ==
    ASSUME AgentInv, NEW s \in Slot, GiveUp(s)
    PROVE  AgentInv'
  <1>1. handler[s] \in Handlers /\ handler[s].open
    BY DEF AgentInv, AgentTypeOK, GiveUp
  <1>2. PICK x \in {[handler[s] EXCEPT !.open = FALSE], Free} :
             handler' = [handler EXCEPT ![s] = x]
    BY DEF GiveUp
  <1>3. /\ x \in Handlers /\ ~x.open /\ x.id \in Ids
        /\ x.found => handler[s].found /\ x.id = handler[s].id
    <2>1. CASE x = [handler[s] EXCEPT !.open = FALSE]
      BY <1>1, <2>1 DEF Handlers
    <2>2. CASE x = Free
      BY <2>2, AgentAssumption DEF Handlers, Free, Ids
    <2> QED
      BY <2>1, <2>2
  <1>4. \A t \in Slot : t # s => ~handler[t].open
    BY <1>1 DEF AgentInv, AgentTypeOK
  <1>5. [AgentNext]_vars
    BY DEF AgentNext
  <1>6. x.found => Listed(x.id)'
    BY <1>3, <1>5, ListedStays DEF AgentInv, FoundIsListed
  <1>7. /\ handler' \in [Slot -> Handlers]
        /\ \A t, u \in Slot : handler'[t].open /\ handler'[u].open => t = u
        /\ \A t \in Slot : handler'[t].open => phase' \in {"sysinfo", "heartbeat"}
        /\ FoundIsListed'
    BY <1>2, <1>3, <1>4, <1>5, <1>6, HandlerMoves
  <1> QED
    BY <1>7 DEF GiveUp, tables, AgentInv, AgentTypeOK, OpenWhileWaiting, UploadedIsListed

(* SELECT, and the two statements of the heartbeat: the handler goes on.   *)
LEMMA StatementKeepsInv ==
    ASSUME AgentInv, NEW s \in Slot,
           SysinfoSelect(s) \/ HeartbeatUpdate(s) \/ HeartbeatDelete(s)
    PROVE  AgentInv'
  <1>0. handler \in [Slot -> Handlers] /\ devices \in [Ids -> [listed : BOOLEAN, conns : SUBSET Conns]]
        /\ queue \in [Ids -> SUBSET Conns] /\ handler[s] \in Handlers
        /\ handler[s].id \in Ids /\ handler[s].conns \in SUBSET Conns
    BY DEF AgentInv, AgentTypeOK, Handlers
  <1>1. PICK x : handler' = [handler EXCEPT ![s] = x] /\ x = handler'[s]
    BY <1>0 DEF SysinfoSelect, HeartbeatUpdate, HeartbeatDelete
  <1>2. [AgentNext]_vars
    BY DEF AgentNext, Api
  <1>3. x \in Handlers /\ x.id = handler[s].id /\ x.open = handler[s].open
    <2>1. CASE SysinfoSelect(s)
      <3>1. devices[handler[s].id].listed \in BOOLEAN
        BY <1>0
      <3>2. x = [handler[s] EXCEPT !.pc = "write", !.found = devices[handler[s].id].listed]
        BY <1>0, <1>1, <2>1 DEF SysinfoSelect
      <3> QED
        BY <1>0, <3>1, <3>2 DEF Handlers
    <2>2. CASE HeartbeatUpdate(s)
      <3>1. x = [handler[s] EXCEPT !.pc = "delete"]
        BY <1>0, <1>1, <2>2 DEF HeartbeatUpdate
      <3> QED
        BY <1>0, <3>1 DEF Handlers
    <2>3. CASE HeartbeatDelete(s)
      <3>1. queue[handler[s].id] \in SUBSET Conns
        BY <1>0
      <3>2. x = [handler[s] EXCEPT !.pc = "reply", !.got = queue[handler[s].id]]
        BY <1>0, <1>1, <2>3 DEF HeartbeatDelete
      <3> QED
        BY <1>0, <3>1, <3>2 DEF Handlers
    <2> QED
      BY <2>1, <2>2, <2>3
  <1>4. x.found => Listed(x.id)'
    <2>1. CASE x.found = handler[s].found
      BY <1>0, <1>2, <1>3, <2>1, ListedStays DEF AgentInv, FoundIsListed
    <2>2. CASE SysinfoSelect(s)
      BY <1>0, <1>1, <2>2 DEF SysinfoSelect, Handlers, Listed, tables
    <2> QED
      BY <1>0, <1>1, <2>1, <2>2 DEF HeartbeatUpdate, HeartbeatDelete, Handlers
  <1>5. UNCHANGED <<agentVars, deleted>>
    BY DEF SysinfoSelect, HeartbeatUpdate, HeartbeatDelete
  <1>6. phase' = phase
    BY <1>5 DEF agentVars
  <1>7. /\ handler' \in [Slot -> Handlers]
        /\ \A t, u \in Slot : handler'[t].open /\ handler'[u].open => t = u
        /\ \A t \in Slot : handler'[t].open => phase' \in {"sysinfo", "heartbeat"}
        /\ FoundIsListed'
    BY <1>1, <1>2, <1>3, <1>4, <1>6, HandlerMoves
       DEF AgentInv, AgentTypeOK, OpenWhileWaiting
  <1>8. devices' \in [Ids -> [listed : BOOLEAN, conns : SUBSET Conns]]
    BY <1>0 DEF SysinfoSelect, HeartbeatUpdate, HeartbeatDelete, tables
  <1>9. queue' \in [Ids -> SUBSET Conns]
    BY <1>0 DEF SysinfoSelect, HeartbeatUpdate, HeartbeatDelete, tables
  <1>10. UploadedIsListed'
    BY <1>2, <1>5, ListedStays DEF AgentInv, UploadedIsListed, Listed, agentVars
  <1> QED
    BY <1>5, <1>7, <1>8, <1>9, <1>10 DEF AgentInv, AgentTypeOK, OpenWhileWaiting, agentVars

(* The last step of a handler frees its slot.                              *)
LEMMA FreeKeepsHandlers ==
    ASSUME AgentInv, [AgentNext]_vars, NEW s \in Slot,
           handler' = [handler EXCEPT ![s] = Free],
           handler[s].open \/ phase' = phase
    PROVE  /\ handler' \in [Slot -> Handlers]
           /\ \A t, u \in Slot : handler'[t].open /\ handler'[u].open => t = u
           /\ \A t \in Slot : handler'[t].open => phase' \in {"sysinfo", "heartbeat"}
           /\ FoundIsListed'
  <1>1. Free \in Handlers /\ ~Free.open /\ ~Free.found
    BY AgentAssumption DEF Free, Handlers, Ids
  <1>2. phase' \in {"sysinfo", "heartbeat"} \/ \A t \in Slot : t # s => ~handler[t].open
    BY DEF AgentInv, AgentTypeOK, OpenWhileWaiting
  <1> QED
    BY <1>1, <1>2, HandlerMoves

(* The write of sysinfo: an answer of success goes with a listed device,   *)
(* whether this handler found the row or inserted it.                      *)
LEMMA WriteKeepsInv ==
    ASSUME AgentInv, NEW s \in Slot, SysinfoWrite(s)
    PROVE  AgentInv'
  <1> PICK i : i = handler[s].id
    OBVIOUS
  <1>1. i \in Ids /\ devices \in [Ids -> [listed : BOOLEAN, conns : SUBSET Conns]]
    BY DEF AgentInv, AgentTypeOK, Handlers
  <1>2. [AgentNext]_vars
    BY DEF AgentNext, Api
  <1>3. /\ handler' \in [Slot -> Handlers]
        /\ \A t, u \in Slot : handler'[t].open /\ handler'[u].open => t = u
        /\ \A t \in Slot : handler'[t].open => phase' \in {"sysinfo", "heartbeat"}
        /\ FoundIsListed'
    BY <1>2, FreeKeepsHandlers DEF SysinfoWrite, UploadAnswered
  <1>4. devices' \in [Ids -> [listed : BOOLEAN, conns : SUBSET Conns]]
    <2>1. Row({}) \in [listed : BOOLEAN, conns : SUBSET Conns]
      BY DEF Row
    <2>2. devices' = devices \/ devices' = [devices EXCEPT ![i] = Row({})]
      BY DEF SysinfoWrite
    <2> QED
      BY <1>1, <2>1, <2>2
  <1>5. info_uploaded' = info_uploaded \/ (info_uploaded' = i /\ Listed(i)')
    <2>1. CASE handler[s].found
      <3>1. Listed(i)
        BY <2>1 DEF AgentInv, FoundIsListed
      <3>2. devices' = devices /\ deleted' = deleted
        BY <2>1 DEF SysinfoWrite
      <3>3. (devices'[i].listed \/ i \in deleted')
        BY <3>1, <3>2 DEF Listed
      <3> QED
        BY <2>1, <3>3 DEF SysinfoWrite, UploadAnswered, Listed
    <2>2. CASE ~handler[s].found /\ devices[i].listed
      BY <2>2 DEF SysinfoWrite, UploadAnswered
    <2>3. CASE ~handler[s].found /\ ~devices[i].listed
      <3>1. devices' = [devices EXCEPT ![i] = Row({})]
        BY <2>3 DEF SysinfoWrite
      <3>2. devices'[i].listed
        BY <1>1, <3>1 DEF Row
      <3> QED
        BY <2>3, <3>2 DEF SysinfoWrite, UploadAnswered, Listed
    <2> QED
      BY <2>1, <2>2, <2>3
  <1>6. UploadedIsListed' /\ info_uploaded' \in 0..MaxId
    BY <1>1, <1>2, <1>5, ListedStays, AgentAssumption
       DEF AgentInv, AgentTypeOK, UploadedIsListed, Listed, Ids
  <1>7. phase' \in {"idle", "sysinfo", "uploaded", "heartbeat"}
    BY DEF SysinfoWrite, UploadAnswered, AgentInv, AgentTypeOK
  <1>8. UNCHANGED <<id, alive, next_conn, told, tick, queue>>
    BY DEF SysinfoWrite
  <1> QED
    BY <1>3, <1>4, <1>6, <1>7, <1>8 DEF AgentInv, AgentTypeOK, OpenWhileWaiting

LEMMA ReplyKeepsInv ==
    ASSUME AgentInv, NEW s \in Slot, HeartbeatReply(s)
    PROVE  AgentInv'
  <1>1. [AgentNext]_vars
    BY DEF AgentNext, Api
  <1>2. /\ handler' \in [Slot -> Handlers]
        /\ \A t, u \in Slot : handler'[t].open /\ handler'[u].open => t = u
        /\ \A t \in Slot : handler'[t].open => phase' \in {"sysinfo", "heartbeat"}
        /\ FoundIsListed'
    BY <1>1, FreeKeepsHandlers DEF HeartbeatReply
  <1>3. told' \in SUBSET alive' /\ phase' \in {"idle", "sysinfo", "uploaded", "heartbeat"}
    BY DEF HeartbeatReply, AgentInv, AgentTypeOK
  <1>4. UNCHANGED <<id, alive, next_conn, info_uploaded, tick, devices, queue, deleted>>
    BY DEF HeartbeatReply, tables
  <1> QED
    BY <1>2, <1>3, <1>4 DEF AgentInv, AgentTypeOK, OpenWhileWaiting, UploadedIsListed

(* The console changes the tables only.                                    *)
LEMMA ConsoleKeepsInv ==
    ASSUME AgentInv, NEW i \in Ids,
           DeleteDevice(i) \/ Deploy(i) \/ \E c \in Conns : QueueDisconnect(i, c)
    PROVE  AgentInv'
  <1>1. [AgentNext]_vars
    BY DEF AgentNext
  <1>2. UNCHANGED <<agentVars, handler>>
    BY DEF DeleteDevice, Deploy, QueueDisconnect
  <1>3. devices' \in [Ids -> [listed : BOOLEAN, conns : SUBSET Conns]]
    <2>1. NoRow \in [listed : BOOLEAN, conns : SUBSET Conns]
          /\ Row({}) \in [listed : BOOLEAN, conns : SUBSET Conns]
      BY DEF NoRow, Row
    <2>2. devices' \in {devices, [devices EXCEPT ![i] = NoRow],
                        [devices EXCEPT ![i] = Row({})]}
      BY DEF DeleteDevice, Deploy, QueueDisconnect
    <2> QED
      BY <2>1, <2>2 DEF AgentInv, AgentTypeOK
  <1>4. queue' \in [Ids -> SUBSET Conns]
    BY DEF DeleteDevice, Deploy, QueueDisconnect, AgentInv, AgentTypeOK
  <1>5. AgentTypeOK' /\ OpenWhileWaiting'
    BY <1>2, <1>3, <1>4 DEF AgentInv, AgentTypeOK, OpenWhileWaiting, agentVars
  <1>6. UploadedIsListed'
    BY <1>1, <1>2, ListedStays DEF AgentInv, UploadedIsListed, Listed, agentVars
  <1>7. FoundIsListed'
    <2> SUFFICES ASSUME NEW s \in Slot, handler[s].found
                 PROVE  Listed(handler[s].id)'
      BY <1>2 DEF FoundIsListed
    <2>1. PICK j \in Ids : j = handler[s].id
      BY DEF AgentInv, AgentTypeOK, Handlers
    <2>2. Listed(j)'
      BY <1>1, <2>1, ListedStays DEF AgentInv, FoundIsListed
    <2> QED
      BY <1>2, <2>1, <2>2 DEF Listed
  <1> QED
    BY <1>5, <1>6, <1>7 DEF AgentInv

-----------------------------------------------------------------------------
(* The types, and at most one request the agent waits for.                 *)
THEOREM AgentInvariance == AgentSpec => []AgentInv
  <1>1. AgentInit => AgentInv
    <2> SUFFICES ASSUME AgentInit PROVE AgentInv
      OBVIOUS
    <2>1. 1 \in Ids /\ 0 \in 0..MaxId /\ 0 \notin Ids
      BY AgentAssumption DEF Ids
    <2>2. NoRow \in [listed : BOOLEAN, conns : SUBSET Conns]
      BY DEF NoRow
    <2>3. Free \in Handlers /\ ~Free.open /\ ~Free.found
      BY <2>1 DEF Free, Handlers
    <2>4. AgentTypeOK
      BY <2>1, <2>2, <2>3, NoTickIsTick DEF AgentInit, AgentTypeOK
    <2> QED
      BY <2>1, <2>3, <2>4 DEF AgentInit, AgentInv, OpenWhileWaiting, FoundIsListed,
                              UploadedIsListed
  <1>2. AgentInv /\ [AgentNext]_vars => AgentInv'
    <2> SUFFICES ASSUME AgentInv, [AgentNext]_vars PROVE AgentInv'
      OBVIOUS
    <2>1. CASE \E s \in Slot : Agent(s) \/ Api(s) \/ GiveUp(s)
      BY <2>1, AgentKeepsInv, StatementKeepsInv, WriteKeepsInv, ReplyKeepsInv,
         GiveUpKeepsInv DEF Api
    <2>2. CASE \/ AfterUploadSkip \/ HeartbeatDue \/ RetryDue \/ Connect \/ UpdateId
               \/ UserChanges \/ \E c \in Conns : Disconnect(c) \/ ClosedByConsole(c)
      BY <2>2, QuietKeepsInv
    <2>3. CASE \E n \in Conns : RestartAgent(n)
      BY <2>3, RestartAgentKeepsInv
    <2>4. CASE \E i \in Ids : \/ DeleteDevice(i) \/ Deploy(i)
                              \/ \E c \in Conns : QueueDisconnect(i, c)
      BY <2>4, ConsoleKeepsInv
    <2>5. CASE UNCHANGED vars
      BY <2>5 DEF vars, agentVars, tables, AgentInv, AgentTypeOK, OpenWhileWaiting,
                  FoundIsListed, UploadedIsListed, Listed
    <2> QED
      BY <2>1, <2>2, <2>3, <2>4, <2>5 DEF AgentNext
  <1> QED
    BY <1>1, <1>2, PTL DEF AgentSpec

(* The two statements of sysinfo, interleaved with any other handler and   *)
(* finished after any answer the agent gave up on, leave no agent that     *)
(* believes it is listed and is not, unless it was deleted.                *)
THEOREM UploadedStaysListed == AgentSpec => []UploadedIsListed
  <1>1. AgentInv => UploadedIsListed
    BY DEF AgentInv
  <1> QED
    BY <1>1, AgentInvariance, PTL

(* Types of the agent and of the tables, and one open request at a time.   *)
THEOREM AgentTypeCorrect == AgentSpec => []AgentTypeOK
  <1>1. AgentInv => AgentTypeOK
    BY DEF AgentInv
  <1> QED
    BY <1>1, AgentInvariance, PTL

-----------------------------------------------------------------------------
(* The setup of a connection.                                              *)

(* The ends of a stream are told apart by their side.                      *)
LEMMA Ends ==
    ASSUME NEW a, NEW b, NEW t, NEW u
    PROVE  /\ Client(a) # Nobody /\ Device(t) # Nobody /\ Client(a) # Device(t)
           /\ Client(a) = Client(b) => a = b
           /\ Device(t) = Device(u) => t = u
           /\ Client(a).side = "client" /\ Client(a).a = a
           /\ Device(t).side = "device" /\ Device(t).t = t
           /\ Nobody.side = "none"
  BY DEF Client, Device, Nobody

LEMMA PeerForms ==
    /\ Nobody \in Peer
    /\ \A a \in Attempt : Client(a) \in Peer
    /\ \A t \in TaskId : Device(t) \in Peer
    /\ \A e \in Peer : \/ e = Nobody
                       \/ \E a \in Attempt : e = Client(a)
                       \/ \E t \in TaskId : e = Device(t)
  BY DEF Peer, Client, Device, Nobody

LEMMA IdForms ==
    /\ NoAddr \in Addr /\ NoTask \in TaskId /\ NoTask[1][1] = 0 /\ NoAddr[1] = 0
    /\ \A a \in Attempt, i \in Nat : /\ <<a, i>> \in Addr /\ Asked(a, i) \in TaskId
                                     /\ Asked(a, i)[1][1] = a
    /\ \A a \in Attempt : a \in Nat /\ a # 0
  BY SetupAssumption DEF NoAddr, NoTask, Addr, TaskId, Asked

LEMMA IdFields ==
    ASSUME NEW t \in TaskId
    PROVE  /\ t[1] \in Addr /\ t[2] \in Nat /\ t[3] \in BOOLEAN /\ t[1][2] \in Nat
           /\ t[1] = <<t[1][1], t[1][2]>> /\ t = <<t[1], t[2], t[3]>>
  BY DEF TaskId, Addr

LEMMA ZeroTry == 0 \in 0..Tries /\ 1 \in 1..Tries
  BY SetupAssumption

LEMMA States ==
    /\ NewAttempt \in AttemptState /\ Failed \in AttemptState
    /\ Gone \in TaskState /\ NeverSeen \in Seen
  <1>1. NewAttempt \in AttemptState
    BY IdForms, PeerForms, SetupAssumption DEF NewAttempt, AttemptState
  <1>2. Failed \in AttemptState
    BY <1>1 DEF Failed, AttemptState
  <1>3. NeverSeen \in Seen
    BY IdForms DEF NeverSeen, Seen
  <1>4. Gone \in TaskState
    BY <1>3, IdForms, PeerForms DEF Gone, TaskState, Kind
  <1> QED
    BY <1>1, <1>2, <1>3, <1>4

LEMMA FailedFields ==
    /\ Failed.pc = "err" /\ Failed.try = 0 /\ Failed.to = {} /\ Failed.uuid = NoTask
    /\ Failed.peer = Nobody /\ Failed.said = "nothing" /\ Failed.direct = FALSE
    /\ NewAttempt.pc = "new" /\ NewAttempt.try = 0 /\ NewAttempt.to = {}
    /\ NewAttempt.peer = Nobody /\ NewAttempt.said = "nothing" /\ NewAttempt.direct = FALSE
  BY DEF Failed, NewAttempt

LEMMA GoneFields ==
    /\ Gone.pc = "gone" /\ Gone.kind = "none" /\ Gone.secure = FALSE /\ Gone.uuid = NoTask
    /\ Gone.seen = NeverSeen /\ Gone.peer = Nobody /\ Gone.key = FALSE
    /\ NeverSeen.addr = NoAddr /\ NeverSeen.recent = FALSE
  BY DEF Gone, NeverSeen

-----------------------------------------------------------------------------
LEMMA InitSetupIInv == SetupInit => SetupIInv
  <1> SUFFICES ASSUME SetupInit PROVE SetupIInv
    OBVIOUS
  <1>1. Tasks = {} /\ wire = {} /\ inbox = {}
    BY DEF SetupInit, Tasks
  <1>2. att \in [Attempt -> AttemptState] /\ \A a \in Attempt : att[a] \in {Failed, NewAttempt}
    BY States DEF SetupInit
  <1>3. SetupShape
    <2>1. last \in [{"punch", "relay"} -> Seen]
      BY States DEF SetupInit
    <2>2. task \in [Tasks -> TaskState]
      BY <1>1 DEF SetupInit, Tasks
    <2>3. faults \in 0..world.faults /\ dups \in 0..world.dups
      BY SetupAssumption DEF SetupInit
    <2> QED
      BY <1>1, <1>2, <2>1, <2>2, <2>3 DEF SetupInit, SetupShape
  <1>4. EndsExist /\ UuidsOwned /\ RequestsTrue /\ ForceTrue /\ HeardTrue
    BY <1>1, <1>2, FailedFields DEF EndsExist, UuidsOwned, RequestsTrue, ForceTrue, HeardTrue
  <1>5. Numbered
    BY <1>1, FS_EmptySet DEF Numbered
  <1>6. OneWinner
    BY <1>1, <1>2, FailedFields DEF OneWinner, SetupInit
  <1>7. NamedInTime
    <2>1. \A x \in Named : x = NoAddr
      BY <1>1, GoneFields DEF Named, SetupInit
    <2> QED
      BY <2>1, IdForms DEF NamedInTime
  <1>8. AnswersCome
    BY <1>1, <1>2, FailedFields DEF AnswersCome
  <1> QED
    BY <1>3, <1>4, <1>5, <1>6, <1>7, <1>8 DEF SetupIInv

-----------------------------------------------------------------------------
(* An attempt that fails.                                                  *)
LEMMA FailsKeeps ==
    ASSUME SetupIInv, NEW a \in Attempt, att[a].pc \notin {"ok", "err"}, Fails(a),
           faults' \in {faults, faults + 1}, faults' <= world.faults,
           UNCHANGED <<world, wire, device, dups>>
    PROVE  SetupIInv'
  <1>0. SetupShape
    BY DEF SetupIInv
  <1>1. /\ att' \in [Attempt -> AttemptState] /\ att'[a] = Failed
        /\ \A b \in Attempt : b # a => att'[b] = att[b]
        /\ Tasks' = Tasks
    BY <1>0, States DEF Fails, SetupShape, Tasks, device
  <1>2. \A r \in inbox' : r \in inbox /\ r.addr[1] # a
    BY DEF Fails
  <1>3. winner = 0 /\ winner' = 0
    BY <1>0 DEF SetupIInv, OneWinner, Fails, SetupShape
  <1>4. SetupShape'
    <2>1. faults' \in 0..world.faults
      BY <1>0, SetupAssumption DEF SetupShape
    <2>2. done' \in BOOLEAN
      BY DEF Fails
    <2> QED
      BY <1>0, <1>1, <1>2, <1>3, <2>1, <2>2 DEF SetupShape, device
  <1>5. EndsExist'
    BY <1>1, <1>2, FailedFields DEF SetupIInv, EndsExist, device
  <1>6. Numbered'
    BY <1>1 DEF SetupIInv, Numbered, Siblings, device
  <1>7. UuidsOwned'
    BY <1>1, <1>2, FailedFields DEF SetupIInv, UuidsOwned, device
  <1>8. RequestsTrue'
    BY <1>1, <1>2 DEF SetupIInv, RequestsTrue, device
  <1>9. ForceTrue'
    BY <1>1, <1>2, FailedFields DEF SetupIInv, ForceTrue, Sixes, device
  <1>10. OneWinner'
    BY <1>1, <1>3, FailedFields DEF SetupIInv, OneWinner
  <1>11. HeardTrue'
    BY <1>1, FailedFields, Ends DEF SetupIInv, HeardTrue, device
  <1>12. NamedInTime'
    BY <1>1, FailedFields DEF SetupIInv, NamedInTime, Named, device
  <1>13. AnswersCome'
    <2>1. \A b \in Attempt : att'[b].pc = "ask" => att'[b].try # 0
      BY <1>1, FailedFields DEF SetupIInv, AnswersCome
    <2>2. \A b \in Attempt : faults' = 0 => faults = 0 /\ att'[b].try <= 1
      BY <1>0, <1>1, FailedFields, SetupAssumption DEF SetupIInv, SetupShape, AnswersCome
    <2>3. ASSUME NEW b \in Attempt, faults' = 0, att'[b].pc \in {"punch", "ask"}
          PROVE  Underway(Awaited(b))' /\ (Remembered(Awaited(b))' => Handled(Awaited(b))')
      <3>1. b # a /\ Awaited(b)' = Awaited(b) /\ Awaited(b)[1] = b
        BY <1>1, <2>3, FailedFields DEF Awaited
      <3>2. Underway(Awaited(b)) /\ (Remembered(Awaited(b)) => Handled(Awaited(b)))
        BY <1>1, <2>2, <2>3, <3>1 DEF SetupIInv, AnswersCome
      <3>3. \A r \in inbox : r.addr = Awaited(b) => r \in inbox'
        BY <3>1 DEF Fails
      <3>4. Handled(Awaited(b)) => Handled(Awaited(b))'
        BY <3>1, <3>3, <1>1 DEF Handled, device
      <3>5. Remembered(Awaited(b))' => Remembered(Awaited(b))
        BY <3>1, <1>1 DEF Remembered, device
      <3> QED
        BY <3>1, <3>2, <3>4, <3>5, <1>1 DEF Underway, device
    <2> QED
      BY <2>1, <2>2, <2>3 DEF AnswersCome
  <1> QED
    BY <1>4, <1>5, <1>6, <1>7, <1>8, <1>9, <1>10, <1>11, <1>12, <1>13 DEF SetupIInv

(* An attempt asks hbbs for the device, for the first time or again.       *)
LEMMA PunchKeeps ==
    ASSUME SetupIInv, NEW a \in Attempt, NEW i \in 1..Tries, Punch(a, i),
           (att[a].pc = "new" /\ i = 1) \/ (att[a].pc = "punch" /\ faults' # 0),
           faults' \in {faults, faults + 1}, faults' <= world.faults,
           UNCHANGED <<world, device, dups>>
    PROVE  SetupIInv'
  <1>0. SetupShape /\ i \in 0..Tries /\ i # 0 /\ 0 \in Nat
    BY SetupAssumption DEF SetupIInv
  <1> DEFINE m == [kind |-> IF world.lan THEN "local" ELSE "punch",
                   addr |-> <<a, 0>>, secure |-> TRUE]
  <1>m. /\ m \in Message /\ m.addr = <<a, 0>> /\ m.secure = TRUE /\ (m.kind = "local" => world.lan)
        /\ m.addr[1] = a /\ m.addr[2] = 0 /\ wire' = wire \cup {m}
    BY IdForms, <1>0 DEF Message, Kind, Punch
  <1> HIDE DEF m
  <1>e. /\ att \in [Attempt -> AttemptState]
        /\ att' = [att EXCEPT ![a].pc = "punch", ![a].try = i]
    BY <1>0 DEF Punch, SetupShape
  <1>f. att[a] \in AttemptState /\ att'[a] = [att[a] EXCEPT !.pc = "punch", !.try = i]
    BY <1>e
  <1>2. /\ att'[a].pc = "punch" /\ att'[a].try = i /\ att'[a].to = att[a].to
        /\ att'[a].uuid = att[a].uuid /\ att'[a].peer = att[a].peer
        /\ att'[a].said = att[a].said /\ att'[a].direct = att[a].direct
        /\ att'[a] \in AttemptState
    BY <1>0, <1>f DEF AttemptState
  <1>1. /\ att' \in [Attempt -> AttemptState]
        /\ \A b \in Attempt : b # a => att'[b] = att[b]
        /\ Tasks' = Tasks
    BY <1>e, <1>2 DEF Tasks, device
  <1>3. winner = 0 /\ winner' = 0 /\ done' = done /\ inbox' = inbox
    BY <1>0 DEF SetupIInv, OneWinner, Punch, Going, SetupShape
  <1>4. SetupShape'
    <2>1. faults' \in 0..world.faults
      BY <1>0, SetupAssumption DEF SetupShape
    <2> QED
      BY <1>0, <1>1, <1>m, <1>3, <2>1 DEF SetupShape, device
  <1>5. EndsExist'
    BY <1>1, <1>2, <1>3, <1>m DEF SetupIInv, EndsExist, device
  <1>6. Numbered'
    BY <1>1 DEF SetupIInv, Numbered, Siblings, device
  <1>7. UuidsOwned'
    BY <1>1, <1>2, <1>3 DEF SetupIInv, UuidsOwned, device
  <1>8. RequestsTrue'
    BY <1>1, <1>m DEF SetupIInv, RequestsTrue, device
  <1>9. ForceTrue'
    BY <1>1, <1>2, <1>3 DEF SetupIInv, ForceTrue, Sixes, device
  <1>10. OneWinner'
    BY <1>1, <1>2, <1>3 DEF SetupIInv, OneWinner
  <1>11. HeardTrue'
    BY <1>1, <1>2 DEF SetupIInv, HeardTrue, device
  <1>12. NamedInTime'
    <2>1. \A x \in Named' : x \in Named \/ x = m.addr
      BY <1>1, <1>m DEF Named, device
    <2> QED
      BY <1>1, <1>2, <1>m, <2>1 DEF SetupIInv, NamedInTime
  <1>13. AnswersCome'
    <2>1. \A b \in Attempt : att'[b].pc = "ask" => att'[b].try # 0
      BY <1>1, <1>2 DEF SetupIInv, AnswersCome
    <2>2. faults' = 0 => faults = 0 /\ att[a].pc = "new" /\ i = 1
      BY <1>0, SetupAssumption DEF SetupShape
    <2>3. \A b \in Attempt : faults' = 0 => att'[b].try <= 1
      BY <1>1, <1>2, <2>2 DEF SetupIInv, AnswersCome
    <2>4. ASSUME NEW b \in Attempt, b # a, faults' = 0, att'[b].pc \in {"punch", "ask"}
          PROVE  Underway(Awaited(b))' /\ (Remembered(Awaited(b))' => Handled(Awaited(b))')
      <3>1. Awaited(b)' = Awaited(b)
        BY <1>1, <2>4 DEF Awaited
      <3>2. Underway(Awaited(b)) /\ (Remembered(Awaited(b)) => Handled(Awaited(b)))
        BY <1>1, <2>2, <2>4 DEF SetupIInv, AnswersCome
      <3>3. Handled(Awaited(b)) => Handled(Awaited(b))'
        BY <3>1, <1>1, <1>3 DEF Handled, device
      <3>4. Remembered(Awaited(b))' => Remembered(Awaited(b))
        BY <3>1, <1>1 DEF Remembered, device
      <3> QED
        BY <3>1, <3>2, <3>3, <3>4, <1>1, <1>m DEF Underway, device
    <2>5. ASSUME faults' = 0
          PROVE  Underway(Awaited(a))' /\ (Remembered(Awaited(a))' => Handled(Awaited(a))')
      <3>1. Awaited(a)' = <<a, 0>>
        BY <1>2 DEF Awaited
      <3>2. \A x \in Named : x[1] # a
        BY <2>2, <2>5 DEF SetupIInv, NamedInTime
      <3>3. ~Remembered(<<a, 0>>)
        BY <3>2 DEF Remembered, Named
      <3>4. ~Remembered(Awaited(a))'
        BY <3>1, <3>3, <1>1 DEF Remembered, device
      <3> QED
        BY <3>1, <3>4, <1>m DEF Underway
    <2> QED
      BY <2>1, <2>2, <2>3, <2>4, <2>5 DEF AnswersCome
  <1> QED
    BY <1>4, <1>5, <1>6, <1>7, <1>8, <1>9, <1>10, <1>11, <1>12, <1>13 DEF SetupIInv

(* An attempt asks for a relay; it may just have given up a connection to  *)
(* a task that listened.                                                   *)
LEMMA AskKeeps ==
    ASSUME SetupIInv, NEW a \in Attempt, NEW i \in 1..Tries, Ask(a, i),
           (att[a].pc = "direct" /\ i = 1) \/ (att[a].pc = "ask" /\ faults' # 0),
           faults' \in {faults, faults + 1}, faults' <= world.faults,
           Tasks' = Tasks, task' \in [Tasks -> TaskState],
           \A t \in Tasks :
              /\ task'[t].kind = task[t].kind /\ task'[t].secure = task[t].secure
              /\ task'[t].uuid = task[t].uuid /\ task'[t].seen = task[t].seen
              /\ task'[t].key = task[t].key
              /\ \/ task'[t].pc = task[t].pc /\ task'[t].peer = task[t].peer
                 \/ task[t].pc = "listen" /\ task'[t].pc = "hello" /\ task'[t].peer = Client(a),
           UNCHANGED <<world, last, key_confirmed, dups>>
    PROVE  SetupIInv'
  <1>0. SetupShape /\ i \in 0..Tries /\ i # 0 /\ i \in Nat
    BY SetupAssumption DEF SetupIInv
  <1> DEFINE m == [kind |-> "relay", addr |-> <<a, i>>, secure |-> world.pk # "none"]
  <1>m. /\ m \in Message /\ m.addr = <<a, i>> /\ (~m.secure => world.pk = "none")
        /\ m.kind = "relay" /\ m.addr[1] = a /\ m.addr[2] = i /\ wire' = wire \cup {m}
    BY IdForms, <1>0 DEF Message, Kind, Ask
  <1> HIDE DEF m
  <1>e. /\ att \in [Attempt -> AttemptState]
        /\ att' = [att EXCEPT ![a].pc = "ask", ![a].try = i, ![a].to = {}, ![a].uuid = Asked(a, i)]
    BY <1>0 DEF Ask, SetupShape
  <1>f. /\ att[a] \in AttemptState /\ Asked(a, i) \in TaskId
        /\ att'[a] = [att[a] EXCEPT !.pc = "ask", !.try = i, !.to = {}, !.uuid = Asked(a, i)]
    BY <1>e, <1>0, IdForms
  <1>2. /\ att'[a].pc = "ask" /\ att'[a].try = i /\ att'[a].to = {}
        /\ att'[a].uuid = Asked(a, i) /\ att'[a].peer = att[a].peer
        /\ att'[a].said = att[a].said /\ att'[a].direct = att[a].direct
        /\ att'[a] \in AttemptState
    BY <1>0, <1>f DEF AttemptState
  <1>1. /\ att' \in [Attempt -> AttemptState]
        /\ \A b \in Attempt : b # a => att'[b] = att[b]
        /\ Tasks' = Tasks
    BY <1>e, <1>2
  <1>3. winner = 0 /\ winner' = 0 /\ done' = done /\ inbox' = inbox
    BY <1>0 DEF SetupIInv, OneWinner, Ask, Going, SetupShape
  <1>4. SetupShape'
    <2>1. faults' \in 0..world.faults
      BY <1>0, SetupAssumption DEF SetupShape
    <2> QED
      BY <1>0, <1>1, <1>m, <1>3, <2>1 DEF SetupShape
  <1>5. EndsExist'
    BY <1>1, <1>2, <1>3, <1>m DEF SetupIInv, EndsExist
  <1>6. Numbered'
    BY <1>1 DEF SetupIInv, Numbered, Siblings
  <1>7. UuidsOwned'
    <2>1. att'[a].uuid[1][1] = a
      BY <1>2 DEF Asked
    <2>2. \A b \in Attempt :
             att'[b].pc \in {"ask", "join"} \/ (att'[b].pc \in {"secure", "ok"} /\ att'[b].peer = Nobody)
                => att'[b].uuid[1][1] = b
      BY <1>1, <2>1 DEF SetupIInv, UuidsOwned
    <2> QED
      BY <1>1, <1>3, <2>2 DEF SetupIInv, UuidsOwned
  <1>8. RequestsTrue'
    BY <1>1, <1>m DEF SetupIInv, RequestsTrue
  <1>9. ForceTrue'
    BY <1>1, <1>2, <1>3 DEF SetupIInv, ForceTrue, Sixes
  <1>10. OneWinner'
    BY <1>1, <1>2, <1>3 DEF SetupIInv, OneWinner
  <1>11. HeardTrue'
    BY <1>1, <1>2 DEF SetupIInv, HeardTrue
  <1>12. NamedInTime'
    <2>1. \A x \in Named' : x \in Named \/ x = m.addr
      <3>1. {last[k].addr : k \in DOMAIN last}' = {last[k].addr : k \in DOMAIN last}
        OBVIOUS
      <3>2. {task[t].seen.addr : t \in Tasks}' = {task[t].seen.addr : t \in Tasks}
        BY <1>1
      <3>3. {t[1] : t \in Tasks}' = {t[1] : t \in Tasks}
        BY <1>1
      <3>4. \A x \in {n.addr : n \in wire}' : x \in {n.addr : n \in wire} \/ x = m.addr
        <4>1. \A n \in wire' : n \in wire \/ n = m
          BY <1>m
        <4> QED
          BY <4>1, Zenon
      <3> QED
        BY <3>1, <3>2, <3>3, <3>4, Zenon DEF Named
    <2> QED
      BY <1>1, <1>2, <1>m, <2>1 DEF SetupIInv, NamedInTime
  <1>13. AnswersCome'
    <2>1. \A b \in Attempt : att'[b].pc = "ask" => att'[b].try # 0
      BY <1>0, <1>1, <1>2 DEF SetupIInv, AnswersCome
    <2>2. faults' = 0 => faults = 0 /\ att[a].pc = "direct" /\ i = 1
      BY <1>0, SetupAssumption DEF SetupShape
    <2>3. \A b \in Attempt : faults' = 0 => att'[b].try <= 1
      BY <1>1, <1>2, <2>2 DEF SetupIInv, AnswersCome
    <2>4. ASSUME NEW b \in Attempt, b # a, faults' = 0, att'[b].pc \in {"punch", "ask"}
          PROVE  Underway(Awaited(b))' /\ (Remembered(Awaited(b))' => Handled(Awaited(b))')
      <3>1. Awaited(b)' = Awaited(b)
        BY <1>1, <2>4 DEF Awaited
      <3>2. Underway(Awaited(b)) /\ (Remembered(Awaited(b)) => Handled(Awaited(b)))
        BY <1>1, <2>2, <2>4 DEF SetupIInv, AnswersCome
      <3>3. Handled(Awaited(b)) => Handled(Awaited(b))'
        BY <3>1, <1>1, <1>3 DEF Handled
      <3>4. Remembered(Awaited(b))' => Remembered(Awaited(b))
        BY <3>1, <1>1 DEF Remembered
      <3> QED
        BY <3>1, <3>2, <3>3, <3>4, <1>1, <1>m DEF Underway
    <2>5. ASSUME faults' = 0
          PROVE  Underway(Awaited(a))' /\ (Remembered(Awaited(a))' => Handled(Awaited(a))')
      <3>1. Awaited(a)' = <<a, i>>
        BY <1>2 DEF Awaited
      <3>2. \A x \in Named : x[1] = a => x[2] = 0
        BY <2>2, <2>5 DEF SetupIInv, NamedInTime
      <3>3. ~Remembered(<<a, i>>)
        BY <1>0, <3>2 DEF Remembered, Named
      <3>4. ~Remembered(Awaited(a))'
        BY <3>1, <3>3, <1>1 DEF Remembered
      <3> QED
        BY <3>1, <3>4, <1>m DEF Underway
    <2> QED
      BY <2>1, <2>2, <2>3, <2>4, <2>5 DEF AnswersCome
  <1> QED
    BY <1>4, <1>5, <1>6, <1>7, <1>8, <1>9, <1>10, <1>11, <1>12, <1>13 DEF SetupIInv

(* An attempt takes an answer of hbbs: the addresses of the device, or the *)
(* relay that was proposed or asked for.                                   *)
LEMMA ReplyKeeps ==
    ASSUME SetupIInv, NEW a \in Attempt, NEW r \in inbox, r.addr[1] = a,
           att'[a] \in AttemptState, att' \in [Attempt -> AttemptState],
           \A b \in Attempt : b # a => att'[b] = att[b],
           att'[a].try = att[a].try, att'[a].peer = att[a].peer, att'[a].said = att[a].said,
           att'[a].direct = att[a].direct,
           \/ att[a].pc = "punch" /\ att'[a].pc = "direct"
           \/ att[a].pc = "punch" /\ att'[a].pc = "join" /\ r.uuid # NoTask
           \/ att[a].pc = "ask" /\ att'[a].pc = "join",
           \/ att'[a].to = r.to /\ att'[a].uuid = r.uuid /\ att[a].pc = "punch"
           \/ att'[a].to = att[a].to /\ att'[a].uuid = att[a].uuid /\ att[a].pc = "ask",
           inbox' = inbox \ {r},
           UNCHANGED <<world, winner, done, wire, task, last, key_confirmed, faults, dups>>
    PROVE  SetupIInv'
  <1>0. SetupShape /\ Tasks' = Tasks
    BY DEF SetupIInv, Tasks
  <1>1. \A q \in inbox' : q \in inbox
    OBVIOUS
  <1>3. winner = 0
    BY <1>0 DEF SetupIInv, OneWinner, SetupShape
  <1>4. SetupShape'
    BY <1>0, <1>1 DEF SetupShape
  <1>5. EndsExist'
    BY <1>0, <1>1 DEF SetupIInv, EndsExist
  <1>6. Numbered'
    BY <1>0 DEF SetupIInv, Numbered, Siblings
  <1>7. UuidsOwned'
    BY <1>0, <1>1 DEF SetupIInv, UuidsOwned
  <1>8. RequestsTrue'
    BY <1>0 DEF SetupIInv, RequestsTrue
  <1>9. ForceTrue'
    BY <1>0, <1>1 DEF SetupIInv, ForceTrue, Sixes
  <1>10. OneWinner'
    BY <1>0, <1>3 DEF SetupIInv, OneWinner
  <1>11. HeardTrue'
    BY <1>0 DEF SetupIInv, HeardTrue
  <1>12. NamedInTime'
    <2>1. Named' = Named
      BY <1>0 DEF Named
    <2> QED
      BY <2>1 DEF SetupIInv, NamedInTime
  <1>13. AnswersCome'
    <2>1. \A b \in Attempt : att'[b].pc = "ask" => att'[b].try # 0
      BY DEF SetupIInv, AnswersCome
    <2>2. \A b \in Attempt : faults' = 0 => faults = 0 /\ att'[b].try <= 1
      BY DEF SetupIInv, AnswersCome
    <2>3. ASSUME NEW b \in Attempt, faults' = 0, att'[b].pc \in {"punch", "ask"}
          PROVE  Underway(Awaited(b))' /\ (Remembered(Awaited(b))' => Handled(Awaited(b))')
      <3>1. b # a /\ Awaited(b)' = Awaited(b) /\ Awaited(b)[1] = b
        BY <2>3 DEF Awaited
      <3>2. Underway(Awaited(b)) /\ (Remembered(Awaited(b)) => Handled(Awaited(b)))
        BY <2>2, <2>3, <3>1 DEF SetupIInv, AnswersCome
      <3>3. \A q \in inbox : q.addr = Awaited(b) => q \in inbox'
        BY <3>1
      <3>4. Handled(Awaited(b)) => Handled(Awaited(b))'
        BY <3>1, <3>3, <1>0 DEF Handled
      <3>5. Remembered(Awaited(b))' => Remembered(Awaited(b))
        BY <3>1, <1>0 DEF Remembered
      <3> QED
        BY <3>1, <3>2, <3>4, <3>5, <1>0 DEF Underway
    <2> QED
      BY <2>1, <2>2, <2>3 DEF AnswersCome
  <1> QED
    BY <1>4, <1>5, <1>6, <1>7, <1>8, <1>9, <1>10, <1>11, <1>12, <1>13 DEF SetupIInv

(* The attempt that wins has said what it knows of the key.                *)
LEMMA SucceedsKeeps ==
    ASSUME SetupIInv, NEW a \in Attempt, att[a].pc = "secure", Succeeds(a, Answer(world.pk)),
           UNCHANGED <<world, wire, device, faults, dups>>
    PROVE  SetupIInv'
  <1>0. SetupShape /\ Tasks' = Tasks
    BY DEF SetupIInv, Tasks, device
  <1>s. Answer(world.pk) \in {"empty", "key", "empty key"}
    BY DEF Answer
  <1>e. /\ att[a] \in AttemptState
        /\ att'[a] = [att[a] EXCEPT !.pc = "ok", !.said = Answer(world.pk), !.try = 0]
        /\ \A b \in Attempt : b # a => att'[b] = Failed
        /\ inbox' = {} /\ winner' = a /\ done' = TRUE
    BY <1>0 DEF Succeeds, SetupShape
  <1>2. /\ att'[a].pc = "ok" /\ att'[a].try = 0 /\ att'[a].to = att[a].to
        /\ att'[a].uuid = att[a].uuid /\ att'[a].peer = att[a].peer
        /\ att'[a].said = Answer(world.pk) /\ att'[a].direct = att[a].direct
        /\ att'[a] \in AttemptState
    BY <1>e, <1>s, ZeroTry DEF AttemptState
  <1>o. \A b \in Attempt : b # a => att'[b] = Failed
    BY <1>e
  <1>i. inbox' = {} /\ winner' = a /\ done' = TRUE
    BY <1>e
  <1>1. att' \in [Attempt -> AttemptState]
    BY <1>2, <1>o, States DEF Succeeds
  <1>4. SetupShape'
    BY <1>0, <1>1, <1>i DEF SetupShape, device
  <1>5. EndsExist'
    BY <1>0, <1>2, <1>o, <1>i, FailedFields DEF SetupIInv, EndsExist, device
  <1>6. Numbered'
    BY <1>0 DEF SetupIInv, Numbered, Siblings, device
  <1>7. UuidsOwned'
    BY <1>0, <1>2, <1>o, <1>i, FailedFields DEF SetupIInv, UuidsOwned, device
  <1>8. RequestsTrue'
    BY <1>0 DEF SetupIInv, RequestsTrue, device
  <1>9. ForceTrue'
    BY <1>0, <1>2, <1>o, <1>i, FailedFields DEF SetupIInv, ForceTrue, Sixes, device
  <1>10. OneWinner'
    BY <1>2, <1>o, <1>i, FailedFields, IdForms DEF SetupIInv, OneWinner
  <1>11. HeardTrue'
    BY <1>0, <1>2, <1>o, FailedFields, Ends DEF SetupIInv, HeardTrue, device
  <1>12. NamedInTime'
    <2>1. Named' = Named
      BY <1>0 DEF Named, device
    <2> QED
      BY <2>1, <1>2, <1>o, FailedFields DEF SetupIInv, NamedInTime
  <1>13. AnswersCome'
    BY <1>2, <1>o, FailedFields DEF AnswersCome
  <1> QED
    BY <1>4, <1>5, <1>6, <1>7, <1>8, <1>9, <1>10, <1>11, <1>12, <1>13 DEF SetupIInv

(* A connection to a task that listens, which is the stream of the attempt.*)
LEMMA DirectKeeps ==
    ASSUME SetupIInv, NEW a \in Attempt, NEW t \in Tasks, Direct(a, t),
           ~(world.force /\ att[a].pc = "direct")
    PROVE  SetupIInv'
  <1>0. /\ SetupShape /\ att[a].pc \in {"direct", "join"} /\ t \in att[a].to
        /\ task[t].pc = "listen" /\ t \in TaskId
    BY DEF SetupIInv, SetupShape, Direct
  <1>u. UNCHANGED <<world, winner, done, wire, inbox, last, key_confirmed, faults, dups>>
    BY DEF Direct, Going
  <1>e. /\ att \in [Attempt -> AttemptState] /\ att[a] \in AttemptState
        /\ att' = [att EXCEPT ![a].pc = "secure", ![a].peer = Device(t),
                              ![a].direct = TRUE, ![a].to = {}, ![a].uuid = NoTask]
    BY <1>0 DEF Direct, SetupShape
  <1>f. /\ att'[a] = [att[a] EXCEPT !.pc = "secure", !.peer = Device(t),
                                    !.direct = TRUE, !.to = {}, !.uuid = NoTask]
        /\ Device(t) \in Peer /\ NoTask \in TaskId
    BY <1>0, <1>e, PeerForms, IdForms
  <1>2. /\ att'[a].pc = "secure" /\ att'[a].try = att[a].try /\ att'[a].to = {}
        /\ att'[a].uuid = NoTask /\ att'[a].peer = Device(t)
        /\ att'[a].said = att[a].said /\ att'[a].direct = TRUE
        /\ att'[a] \in AttemptState
    BY <1>e, <1>f DEF AttemptState
  <1>1. /\ att' \in [Attempt -> AttemptState]
        /\ \A b \in Attempt : b # a => att'[b] = att[b]
    BY <1>e, <1>2
  <1>g. /\ task \in [Tasks -> TaskState] /\ task[t] \in TaskState
        /\ task' = [task EXCEPT ![t].pc = "hello", ![t].peer = Client(a)]
    BY <1>0 DEF Direct, SetupShape
  <1>h. task'[t] = [task[t] EXCEPT !.pc = "hello", !.peer = Client(a)] /\ Client(a) \in Peer
    BY <1>g, PeerForms
  <1>3. /\ task'[t].pc = "hello" /\ task'[t].peer = Client(a) /\ task'[t].kind = task[t].kind
        /\ task'[t].secure = task[t].secure /\ task'[t].uuid = task[t].uuid
        /\ task'[t].seen = task[t].seen /\ task'[t].key = task[t].key
        /\ task'[t] \in TaskState
    BY <1>g, <1>h DEF TaskState
  <1>t. /\ task' \in [Tasks -> TaskState] /\ Tasks' = Tasks
        /\ \A u \in Tasks : u # t => task'[u] = task[u]
    BY <1>g, <1>3 DEF Tasks
  <1>4. SetupShape'
    BY <1>0, <1>1, <1>t, <1>u DEF SetupShape
  <1>5. EndsExist'
    BY <1>1, <1>2, <1>3, <1>t, <1>u DEF SetupIInv, EndsExist
  <1>6. Numbered'
    BY <1>3, <1>t DEF SetupIInv, Numbered, Siblings
  <1>7. UuidsOwned'
    BY <1>1, <1>2, <1>3, <1>t, <1>u, Ends DEF SetupIInv, UuidsOwned
  <1>8. RequestsTrue'
    BY <1>0, <1>3, <1>t, <1>u DEF SetupIInv, RequestsTrue
  <1>9. ForceTrue'
    BY <1>0, <1>1, <1>2, <1>t, <1>u DEF SetupIInv, ForceTrue, Sixes
  <1>10. OneWinner'
    BY <1>0, <1>1, <1>2, <1>u DEF SetupIInv, OneWinner
  <1>11. HeardTrue'
    BY <1>0, <1>1, <1>2, <1>3, <1>t, <1>u, Ends DEF SetupIInv, HeardTrue
  <1>12. NamedInTime'
    <2>1. Named' = Named
      BY <1>3, <1>t, <1>u DEF Named
    <2> QED
      BY <1>1, <1>2, <2>1 DEF SetupIInv, NamedInTime
  <1>13. AnswersCome'
    <2>1. \A b \in Attempt : /\ att'[b].pc = "ask" => att'[b].try # 0
                             /\ faults' = 0 => faults = 0 /\ att'[b].try <= 1
      BY <1>1, <1>2, <1>u DEF SetupIInv, AnswersCome
    <2>2. ASSUME NEW b \in Attempt, faults' = 0, att'[b].pc \in {"punch", "ask"}
          PROVE  Underway(Awaited(b))' /\ (Remembered(Awaited(b))' => Handled(Awaited(b))')
      <3>1. b # a /\ Awaited(b)' = Awaited(b)
        BY <1>1, <1>2, <2>2 DEF Awaited
      <3>2. Underway(Awaited(b)) /\ (Remembered(Awaited(b)) => Handled(Awaited(b)))
        BY <1>1, <2>1, <2>2, <3>1 DEF SetupIInv, AnswersCome
      <3>3. Handled(Awaited(b)) => Handled(Awaited(b))'
        BY <3>1, <1>0, <1>3, <1>t, <1>u DEF Handled
      <3>4. Remembered(Awaited(b))' => Remembered(Awaited(b))
        BY <3>1, <1>3, <1>t, <1>u DEF Remembered
      <3> QED
        BY <3>1, <3>2, <3>3, <3>4, <1>0, <1>3, <1>t, <1>u DEF Underway
    <2> QED
      BY <2>1, <2>2 DEF AnswersCome
  <1> QED
    BY <1>4, <1>5, <1>6, <1>7, <1>8, <1>9, <1>10, <1>11, <1>12, <1>13 DEF SetupIInv

(* The end that hbbr joins to a new one waits for it with the same uuid.   *)
LEMMA JoinedWaits ==
    ASSUME NEW uuid
    PROVE  \/ Joined(uuid) = Nobody
           \/ \E b \in Attempt : /\ Joined(uuid) = Client(b) /\ att[b].pc \in {"secure", "ok"}
                                 /\ att[b].uuid = uuid /\ att[b].peer = Nobody
           \/ \E u \in Tasks : /\ Joined(uuid) = Device(u) /\ task[u].pc \in {"hello", "up"}
                               /\ task[u].uuid = uuid /\ task[u].peer = Nobody
  <1>1. CASE Waiting(uuid) = {}
    BY <1>1 DEF Joined
  <1>2. CASE Waiting(uuid) # {}
    <2>1. Joined(uuid) \in Waiting(uuid)
      BY <1>2 DEF Joined
    <2> QED
      BY <2>1 DEF Waiting
  <1> QED
    BY <1>1, <1>2

(* ... and for an attempt it is a task, for no other attempt has its uuid. *)
LEMMA JoinKeeps ==
    ASSUME SetupIInv, NEW a \in Attempt, Join(a)
    PROVE  SetupIInv'
  <1> DEFINE e == Joined(att[a].uuid)
  <1>j. \/ e = Nobody
        \/ \E u \in Tasks : e = Device(u) /\ task[u].pc \in {"hello", "up"} /\ task[u].peer = Nobody
    <2>1. \A b \in Attempt : att[b].pc \in {"secure", "ok"} /\ att[b].peer = Nobody
                             => att[b].uuid # att[a].uuid
      BY DEF SetupIInv, UuidsOwned, Join
    <2> QED
      BY <2>1, JoinedWaits
  <1>d. /\ att' = [att EXCEPT ![a].pc = "secure", ![a].to = {}, ![a].peer = e]
        /\ task' = IF e = Nobody THEN task ELSE [task EXCEPT ![e.t].peer = Client(a)]
    BY DEF Join
  <1> HIDE DEF e
  <1>0. SetupShape /\ att[a].pc = "join" /\ e \in Peer
    <2>1. \A u \in Tasks : u \in TaskId
      BY DEF SetupIInv, SetupShape
    <2> QED
      BY <1>j, <2>1, PeerForms DEF SetupIInv, Join
  <1>u. UNCHANGED <<world, winner, done, wire, inbox, last, key_confirmed, faults, dups>>
    BY DEF Join, Going
  <1>e. /\ att \in [Attempt -> AttemptState] /\ att[a] \in AttemptState
    BY <1>0 DEF SetupShape
  <1>f. att'[a] = [att[a] EXCEPT !.pc = "secure", !.to = {}, !.peer = e]
    BY <1>d, <1>e
  <1>2. /\ att'[a].pc = "secure" /\ att'[a].try = att[a].try /\ att'[a].to = {}
        /\ att'[a].uuid = att[a].uuid /\ att'[a].peer = e
        /\ att'[a].said = att[a].said /\ att'[a].direct = att[a].direct
        /\ att'[a] \in AttemptState
    BY <1>0, <1>e, <1>f DEF AttemptState
  <1>1. /\ att' \in [Attempt -> AttemptState]
        /\ \A b \in Attempt : b # a => att'[b] = att[b]
    BY <1>d, <1>e, <1>2
  <1>t. /\ task' \in [Tasks -> TaskState] /\ Tasks' = Tasks
        /\ \A u \in Tasks : Device(u) # e => task'[u] = task[u]
        /\ \A u \in Tasks :
              /\ task'[u].pc = task[u].pc /\ task'[u].kind = task[u].kind
              /\ task'[u].secure = task[u].secure /\ task'[u].uuid = task[u].uuid
              /\ task'[u].seen = task[u].seen /\ task'[u].key = task[u].key
              /\ Device(u) = e => task'[u].peer = Client(a) /\ task[u].peer = Nobody
    <2>1. CASE e = Nobody
      BY <2>1, <1>0, <1>d, Ends DEF SetupShape, Tasks
    <2>2. CASE e # Nobody
      <3>1. PICK u \in Tasks : e = Device(u) /\ task[u].peer = Nobody
        BY <1>j, <2>2
      <3>2. /\ task \in [Tasks -> TaskState] /\ task[u] \in TaskState
            /\ task' = [task EXCEPT ![u].peer = Client(a)]
        BY <1>0, <1>d, <2>2, <3>1, Ends DEF SetupShape
      <3>3. task'[u] = [task[u] EXCEPT !.peer = Client(a)] /\ Client(a) \in Peer
        BY <3>2, PeerForms
      <3>4. /\ task'[u].peer = Client(a) /\ task'[u].pc = task[u].pc /\ task'[u].kind = task[u].kind
            /\ task'[u].secure = task[u].secure /\ task'[u].uuid = task[u].uuid
            /\ task'[u].seen = task[u].seen /\ task'[u].key = task[u].key
            /\ task'[u] \in TaskState
        BY <3>2, <3>3 DEF TaskState
      <3>5. /\ task' \in [Tasks -> TaskState] /\ Tasks' = Tasks
            /\ \A v \in Tasks : v # u => task'[v] = task[v]
        BY <3>2, <3>4 DEF Tasks
      <3>6. \A v \in Tasks : Device(v) = e <=> v = u
        BY <3>1, Ends
      <3> QED
        BY <3>1, <3>4, <3>5, <3>6
    <2> QED
      BY <2>1, <2>2
  <1>4. SetupShape'
    BY <1>0, <1>1, <1>t, <1>u DEF SetupShape
  <1>5. EndsExist'
    BY <1>j, <1>1, <1>2, <1>t, <1>u DEF SetupIInv, EndsExist
  <1>6. Numbered'
    BY <1>t DEF SetupIInv, Numbered, Siblings
  <1>7. UuidsOwned'
    BY <1>0, <1>1, <1>2, <1>t, <1>u DEF SetupIInv, UuidsOwned
  <1>8. RequestsTrue'
    BY <1>t, <1>u DEF SetupIInv, RequestsTrue
  <1>9. ForceTrue'
    BY <1>0, <1>1, <1>2, <1>t, <1>u DEF SetupIInv, ForceTrue, Sixes
  <1>10. OneWinner'
    BY <1>0, <1>1, <1>2, <1>u DEF SetupIInv, OneWinner
  <1>11. HeardTrue'
    BY <1>0, <1>1, <1>2, <1>t, <1>u, Ends DEF SetupIInv, HeardTrue
  <1>12. NamedInTime'
    <2>1. Named' = Named
      BY <1>t, <1>u DEF Named
    <2> QED
      BY <1>1, <1>2, <2>1 DEF SetupIInv, NamedInTime
  <1>13. AnswersCome'
    <2>1. \A b \in Attempt : /\ att'[b].pc = "ask" => att'[b].try # 0
                             /\ faults' = 0 => faults = 0 /\ att'[b].try <= 1
      BY <1>1, <1>2, <1>u DEF SetupIInv, AnswersCome
    <2>2. ASSUME NEW b \in Attempt, faults' = 0, att'[b].pc \in {"punch", "ask"}
          PROVE  Underway(Awaited(b))' /\ (Remembered(Awaited(b))' => Handled(Awaited(b))')
      <3>1. b # a /\ Awaited(b)' = Awaited(b)
        BY <1>1, <1>2, <2>2 DEF Awaited
      <3>2. Underway(Awaited(b)) /\ (Remembered(Awaited(b)) => Handled(Awaited(b)))
        BY <1>1, <2>1, <2>2, <3>1 DEF SetupIInv, AnswersCome
      <3>3. Handled(Awaited(b)) => Handled(Awaited(b))'
        BY <3>1, <1>t, <1>u DEF Handled
      <3>4. Remembered(Awaited(b))' => Remembered(Awaited(b))
        BY <3>1, <1>t, <1>u DEF Remembered
      <3> QED
        BY <3>1, <3>2, <3>3, <3>4, <1>t, <1>u DEF Underway
    <2> QED
      BY <2>1, <2>2 DEF AnswersCome
  <1> QED
    BY <1>4, <1>5, <1>6, <1>7, <1>8, <1>9, <1>10, <1>11, <1>12, <1>13 DEF SetupIInv

(* A task that dials a relay may find an attempt or another task there.    *)
LEMMA DialKeeps ==
    ASSUME SetupIInv, NEW t \in Tasks, Dial(t)
    PROVE  SetupIInv'
  <1> DEFINE e == Joined(task[t].uuid)
             p == IF task[t].secure THEN "hello" ELSE "up"
  <1>j. \/ e = Nobody
        \/ \E b \in Attempt : e = Client(b) /\ att[b].pc \in {"secure", "ok"} /\ att[b].peer = Nobody
        \/ \E u \in Tasks : e = Device(u) /\ task[u].pc \in {"hello", "up"} /\ task[u].peer = Nobody
    BY JoinedWaits
  <1>p. p \in {"hello", "up"} /\ (p = "up" => ~task[t].secure)
    OBVIOUS
  <1>d. /\ task' = IF e.side = "device"
                   THEN [[task EXCEPT ![t].pc = p, ![t].peer = e] EXCEPT ![e.t].peer = Device(t)]
                   ELSE [task EXCEPT ![t].pc = p, ![t].peer = e]
        /\ att' = IF e.side = "client" THEN [att EXCEPT ![e.a].peer = Device(t)] ELSE att
    BY DEF Dial
  <1> HIDE DEF e, p
  <1>0. SetupShape /\ task[t].pc = "dial" /\ t \in TaskId /\ e \in Peer
    <2>1. \A u \in Tasks : u \in TaskId
      BY DEF SetupIInv, SetupShape
    <2> QED
      BY <1>j, <2>1, PeerForms DEF SetupIInv, Dial
  <1>u. UNCHANGED <<world, winner, done, wire, inbox, last, key_confirmed, faults, dups>>
    BY DEF Dial
  <1>a. /\ att' \in [Attempt -> AttemptState]
        /\ \A b \in Attempt :
              /\ att'[b].pc = att[b].pc /\ att'[b].try = att[b].try /\ att'[b].to = att[b].to
              /\ att'[b].uuid = att[b].uuid /\ att'[b].said = att[b].said
              /\ att'[b].direct = att[b].direct
              /\ IF e = Client(b) THEN att'[b].peer = Device(t) /\ att[b].peer = Nobody
                 ELSE att'[b].peer = att[b].peer
    <2>1. CASE \E b \in Attempt : e = Client(b) /\ att[b].peer = Nobody
      <3>1. PICK b \in Attempt : e = Client(b) /\ att[b].peer = Nobody
        BY <2>1
      <3>2. /\ att \in [Attempt -> AttemptState] /\ att[b] \in AttemptState
            /\ att' = [att EXCEPT ![b].peer = Device(t)]
        BY <1>0, <1>d, <3>1, Ends DEF SetupShape
      <3>3. att'[b] = [att[b] EXCEPT !.peer = Device(t)] /\ Device(t) \in Peer
        BY <3>2, <1>0, PeerForms
      <3>4. /\ att'[b].pc = att[b].pc /\ att'[b].try = att[b].try /\ att'[b].to = att[b].to
            /\ att'[b].uuid = att[b].uuid /\ att'[b].said = att[b].said
            /\ att'[b].direct = att[b].direct /\ att'[b].peer = Device(t)
            /\ att'[b] \in AttemptState
        BY <3>2, <3>3 DEF AttemptState
      <3>5. /\ att' \in [Attempt -> AttemptState]
            /\ \A c \in Attempt : c # b => att'[c] = att[c]
        BY <3>2, <3>4
      <3>6. \A c \in Attempt : e = Client(c) <=> c = b
        BY <3>1, Ends
      <3> QED
        BY <3>1, <3>4, <3>5, <3>6
    <2>2. CASE \A b \in Attempt : e # Client(b)
      <3>1. att' = att
        BY <1>d, <1>j, <2>2, Ends
      <3> QED
        BY <2>2, <3>1, <1>0 DEF SetupShape
    <2> QED
      BY <1>j, <2>1, <2>2, Ends
  <1>t. /\ task' \in [Tasks -> TaskState] /\ Tasks' = Tasks
        /\ e # Device(t)
        /\ \A u \in Tasks :
              /\ task'[u].kind = task[u].kind /\ task'[u].secure = task[u].secure
              /\ task'[u].uuid = task[u].uuid /\ task'[u].seen = task[u].seen
              /\ task'[u].key = task[u].key
              /\ u # t => task'[u].pc = task[u].pc
              /\ u # t /\ Device(u) # e => task'[u].peer = task[u].peer
              /\ Device(u) = e => task'[u].peer = Device(t) /\ task[u].peer = Nobody
        /\ task'[t].pc = p /\ task'[t].peer = e
    <2> DEFINE new == [task EXCEPT ![t].pc = p, ![t].peer = e]
    <2>n. /\ task \in [Tasks -> TaskState] /\ task[t] \in TaskState
          /\ new = [task EXCEPT ![t].pc = p, ![t].peer = e]
      BY <1>0 DEF SetupShape
    <2>d. task' = IF e.side = "device" THEN [new EXCEPT ![e.t].peer = Device(t)] ELSE new
      BY <1>d
    <2> HIDE DEF new
    <2>f. new[t] = [task[t] EXCEPT !.pc = p, !.peer = e]
      BY <2>n
    <2>g. /\ new[t].kind = task[t].kind /\ new[t].secure = task[t].secure
          /\ new[t].uuid = task[t].uuid /\ new[t].seen = task[t].seen
          /\ new[t].key = task[t].key /\ new[t].pc = p /\ new[t].peer = e
          /\ new[t] \in TaskState
      BY <2>n, <2>f, <1>0, <1>p DEF TaskState
    <2>h. new \in [Tasks -> TaskState] /\ \A u \in Tasks : u # t => new[u] = task[u]
      BY <2>n, <2>g
    <2>1. CASE \E u \in Tasks : e = Device(u) /\ task[u].pc \in {"hello", "up"} /\ task[u].peer = Nobody
      <3>1. PICK u \in Tasks : e = Device(u) /\ task[u].pc \in {"hello", "up"} /\ task[u].peer = Nobody
        BY <2>1
      <3>2. /\ new[u] \in TaskState /\ u # t
            /\ task' = [new EXCEPT ![u].peer = Device(t)]
        BY <1>0, <2>d, <2>h, <3>1, Ends
      <3>3. task'[u] = [new[u] EXCEPT !.peer = Device(t)] /\ Device(t) \in Peer
        BY <2>h, <3>2, <1>0, PeerForms
      <3>4. /\ task'[u].peer = Device(t) /\ task'[u].pc = new[u].pc /\ task'[u].kind = new[u].kind
            /\ task'[u].secure = new[u].secure /\ task'[u].uuid = new[u].uuid
            /\ task'[u].seen = new[u].seen /\ task'[u].key = new[u].key
            /\ task'[u] \in TaskState
        BY <3>2, <3>3 DEF TaskState
      <3>5. /\ task' \in [Tasks -> TaskState] /\ Tasks' = Tasks
            /\ \A v \in Tasks : v # u => task'[v] = new[v]
        BY <2>h, <3>2, <3>4 DEF Tasks
      <3>6. \A v \in Tasks : Device(v) = e <=> v = u
        BY <3>1, Ends
      <3>7. \A v \in Tasks : v # u /\ v # t => task'[v] = task[v]
        BY <2>h, <3>5
      <3>8. task'[t] = new[t] /\ new[u] = task[u]
        BY <2>h, <3>2, <3>5
      <3> QED
        BY <2>g, <3>1, <3>2, <3>4, <3>5, <3>6, <3>7, <3>8
    <2>2. CASE \A u \in Tasks : e # Device(u)
      <3>1. task' = new
        BY <2>d, <1>j, <2>2, Ends
      <3>2. Tasks' = Tasks
        BY <2>h, <3>1 DEF Tasks
      <3> QED
        BY <2>2, <2>g, <2>h, <3>1, <3>2
    <2> QED
      BY <1>j, <2>1, <2>2, Ends
  <1>4. SetupShape'
    BY <1>0, <1>a, <1>t, <1>u DEF SetupShape
  <1>5. EndsExist'
    <2>1. \A u \in Tasks : task'[u].peer \in {Nobody} \cup {Client(b) : b \in Attempt}
                                                 \cup {Device(v) : v \in Tasks}
      BY <1>j, <1>t DEF SetupIInv, EndsExist
    <2> QED
      BY <2>1, <1>a, <1>t, <1>u DEF SetupIInv, EndsExist
  <1>6. Numbered'
    BY <1>0, <1>p, <1>t DEF SetupIInv, Numbered, Siblings
  <1>7. UuidsOwned'
    BY <1>a, <1>t, <1>u, Ends DEF SetupIInv, UuidsOwned
  <1>8. RequestsTrue'
    BY <1>0, <1>p, <1>t, <1>u DEF SetupIInv, RequestsTrue
  <1>9. ForceTrue'
    BY <1>a, <1>t, <1>u, Ends DEF SetupIInv, ForceTrue, Sixes
  <1>10. OneWinner'
    <2>1. \A b \in Attempt : /\ att'[b].said = IF att'[b].pc = "ok" THEN Answer(world'.pk) ELSE "nothing"
                             /\ att'[b].pc = "ok" => winner' = b
      BY <1>a, <1>u DEF SetupIInv, OneWinner
    <2>2. winner # 0 => /\ att'[winner].pc = "ok"
                        /\ \A b \in Attempt \ {winner} : att'[b].pc = "err"
      BY <1>0, <1>a DEF SetupIInv, OneWinner, SetupShape
    <2> QED
      BY <1>u, <2>1, <2>2 DEF OneWinner
  <1>11. HeardTrue'
    <2>1. ASSUME NEW u \in Tasks
          PROVE  /\ task'[u].key => task'[u].pc = "up" /\ task'[u].secure
                 /\ task'[u].pc = "up" /\ task'[u].secure => u # t /\ Device(u) # e /\ task'[u].peer # Nobody
      BY <1>0, <1>p, <1>t, <2>1 DEF SetupIInv, HeardTrue
    <2>2. ASSUME NEW u \in Tasks, u # t, Device(u) # e, NEW b \in Attempt, att'[b].peer = Device(u)
          PROVE  att[b].peer = Device(u)
      BY <1>a, <2>2, Ends
    <2> QED
      BY <1>a, <1>t, <1>u, <2>1, <2>2 DEF SetupIInv, HeardTrue
  <1>12. NamedInTime'
    <2>1. Named' = Named
      BY <1>t, <1>u DEF Named
    <2> QED
      BY <1>a, <2>1 DEF SetupIInv, NamedInTime
  <1>13. AnswersCome'
    <2>1. \A b \in Attempt : /\ att'[b].pc = "ask" => att'[b].try # 0
                             /\ faults' = 0 => faults = 0 /\ att'[b].try <= 1
      BY <1>a, <1>u DEF SetupIInv, AnswersCome
    <2>2. ASSUME NEW b \in Attempt, faults' = 0, att'[b].pc \in {"punch", "ask"}
          PROVE  Underway(Awaited(b))' /\ (Remembered(Awaited(b))' => Handled(Awaited(b))')
      <3>1. Awaited(b)' = Awaited(b)
        BY <1>a, <2>2 DEF Awaited
      <3>2. Underway(Awaited(b)) /\ (Remembered(Awaited(b)) => Handled(Awaited(b)))
        BY <1>a, <2>1, <2>2, <3>1 DEF SetupIInv, AnswersCome
      <3>3. Handled(Awaited(b)) => Handled(Awaited(b))'
        BY <3>1, <1>0, <1>t, <1>u DEF Handled
      <3>4. Remembered(Awaited(b))' => Remembered(Awaited(b))
        BY <3>1, <1>t, <1>u DEF Remembered
      <3>5. \A u \in Tasks : task[u].pc = "write" => task'[u].pc = "write" /\ task'[u].seen = task[u].seen
        BY <1>0, <1>t
      <3> QED
        BY <3>1, <3>2, <3>3, <3>4, <3>5, <1>t, <1>u DEF Underway
    <2> QED
      BY <2>1, <2>2 DEF AnswersCome
  <1> QED
    BY <1>4, <1>5, <1>6, <1>7, <1>8, <1>9, <1>10, <1>11, <1>12, <1>13 DEF SetupIInv

-----------------------------------------------------------------------------
(* A task that ends.                                                       *)
LEMMA GoneKeeps ==
    ASSUME SetupIInv, NEW t \in Tasks, task' = [task EXCEPT ![t] = Gone],
           task[t].pc # "write", task[t].pc = "handle" => faults' # 0,
           faults' \in {faults, faults + 1}, faults' <= world.faults,
           UNCHANGED <<world, client, wire, inbox, last, key_confirmed, dups>>
    PROVE  SetupIInv'
  <1>0. SetupShape
    BY DEF SetupIInv
  <1>u. UNCHANGED <<world, att, winner, done, wire, inbox, last, key_confirmed, dups>>
    BY DEF client
  <1>t. /\ task' \in [Tasks -> TaskState] /\ Tasks' = Tasks /\ task'[t] = Gone
        /\ \A u \in Tasks : u # t => task'[u] = task[u]
    BY <1>0, States DEF SetupShape, Tasks
  <1>4. SetupShape'
    <2>1. faults' \in 0..world.faults
      BY <1>0, SetupAssumption DEF SetupShape
    <2> QED
      BY <1>0, <1>t, <1>u, <2>1 DEF SetupShape
  <1>5. EndsExist'
    BY <1>t, <1>u, GoneFields DEF SetupIInv, EndsExist
  <1>6. Numbered'
    BY <1>t, GoneFields DEF SetupIInv, Numbered, Siblings
  <1>7. UuidsOwned'
    BY <1>t, <1>u, GoneFields DEF SetupIInv, UuidsOwned
  <1>8. RequestsTrue'
    BY <1>t, <1>u, GoneFields DEF SetupIInv, RequestsTrue
  <1>9. ForceTrue'
    BY <1>t, <1>u DEF SetupIInv, ForceTrue, Sixes
  <1>10. OneWinner'
    BY <1>u DEF SetupIInv, OneWinner
  <1>11. HeardTrue'
    BY <1>t, <1>u, GoneFields DEF SetupIInv, HeardTrue
  <1>12. NamedInTime'
    <2>1. \A x \in Named' : x \in Named \/ x = NoAddr
      BY <1>t, <1>u, GoneFields DEF Named
    <2> QED
      BY <1>u, <2>1, IdForms DEF SetupIInv, NamedInTime
  <1>13. AnswersCome'
    <2>1. faults' = 0 => faults = 0
      BY <1>0, SetupAssumption DEF SetupShape
    <2>2. ASSUME NEW b \in Attempt, faults' = 0, att[b].pc \in {"punch", "ask"}
          PROVE  Underway(Awaited(b))' /\ (Remembered(Awaited(b))' => Handled(Awaited(b))')
      <3>1. Awaited(b)' = Awaited(b) /\ Awaited(b) # NoAddr
        BY <1>u, IdForms DEF Awaited, NoAddr
      <3>2. Underway(Awaited(b)) /\ (Remembered(Awaited(b)) => Handled(Awaited(b)))
        BY <2>1, <2>2 DEF SetupIInv, AnswersCome
      <3>3. Handled(Awaited(b)) => Handled(Awaited(b))'
        BY <2>2, <3>1, <1>t, <1>u DEF Handled
      <3>4. Remembered(Awaited(b))' => Remembered(Awaited(b))
        BY <3>1, <1>t, <1>u, GoneFields DEF Remembered
      <3> QED
        BY <3>1, <3>2, <3>3, <3>4, <1>t, <1>u DEF Underway
    <2> QED
      BY <1>u, <2>1, <2>2 DEF SetupIInv, AnswersCome
  <1> QED
    BY <1>4, <1>5, <1>6, <1>7, <1>8, <1>9, <1>10, <1>11, <1>12, <1>13 DEF SetupIInv

(* A task drops a duplicate or goes on, and replaces what was remembered:  *)
(* what it drops is being answered by another one.                         *)
LEMMA WriteLastKeeps ==
    ASSUME SetupIInv, NEW t \in Tasks, WriteLast(t)
    PROVE  SetupIInv'
  <1>0. SetupShape /\ task[t].pc = "write" /\ t \in TaskId /\ t[1] \in Addr
    BY IdFields DEF SetupIInv, SetupShape, WriteLast
  <1>u. UNCHANGED <<world, att, winner, done, wire, inbox, key_confirmed, faults, dups>>
    BY DEF WriteLast, client
  <1> DEFINE k == Filter(task[t].kind)
             s == [addr |-> t[1], recent |-> TRUE]
  <1>k. k \in {"punch", "relay"} /\ s \in Seen /\ s.addr = t[1]
    BY <1>0 DEF Filter, Seen
  <1>w. /\ last' = [last EXCEPT ![k] = s]
        /\ task' = [task EXCEPT ![t] = IF task[t].seen = s THEN Gone
                                       ELSE [task[t] EXCEPT !.pc = "handle", !.seen = NeverSeen]]
    BY DEF WriteLast
  <1> HIDE DEF k, s
  <1>l. /\ last' \in [{"punch", "relay"} -> Seen]
        /\ DOMAIN last = {"punch", "relay"} /\ DOMAIN last' = {"punch", "relay"}
        /\ \A j \in {"punch", "relay"} : last'[j].addr = t[1] \/ last'[j] = last[j]
    BY <1>0, <1>k, <1>w DEF SetupShape
  <1>g. /\ task \in [Tasks -> TaskState] /\ task[t] \in TaskState
        /\ task'[t] = IF task[t].seen = s THEN Gone
                      ELSE [task[t] EXCEPT !.pc = "handle", !.seen = NeverSeen]
    BY <1>0, <1>w DEF SetupShape
  <1>3. /\ task'[t] \in TaskState /\ task'[t].seen.addr = NoAddr
        /\ task'[t].key => task[t].key
        /\ \/ task'[t] = Gone /\ task[t].seen.addr = t[1]
           \/ /\ task'[t].pc = "handle" /\ task'[t].peer = task[t].peer
              /\ task'[t].kind = task[t].kind /\ task'[t].secure = task[t].secure
              /\ task'[t].uuid = task[t].uuid
    <2>1. CASE task[t].seen = s
      BY <1>g, <1>k, <2>1, States, GoneFields
    <2>2. CASE task[t].seen # s
      <3>1. task'[t] = [task[t] EXCEPT !.pc = "handle", !.seen = NeverSeen] /\ NeverSeen \in Seen
        BY <1>g, <2>2, States
      <3> QED
        BY <1>g, <3>1, GoneFields DEF TaskState
    <2> QED
      BY <2>1, <2>2
  <1>t. /\ task' \in [Tasks -> TaskState] /\ Tasks' = Tasks
        /\ \A u \in Tasks : u # t => task'[u] = task[u]
    BY <1>g, <1>w, <1>3 DEF Tasks
  <1>4. SetupShape'
    BY <1>0, <1>l, <1>t, <1>u DEF SetupShape
  <1>5. EndsExist'
    BY <1>3, <1>t, <1>u, GoneFields DEF SetupIInv, EndsExist
  <1>6. Numbered'
    BY <1>0, <1>3, <1>t, GoneFields DEF SetupIInv, Numbered, Siblings
  <1>7. UuidsOwned'
    BY <1>3, <1>t, <1>u, GoneFields DEF SetupIInv, UuidsOwned
  <1>8. RequestsTrue'
    BY <1>0, <1>3, <1>t, <1>u, GoneFields DEF SetupIInv, RequestsTrue
  <1>9. ForceTrue'
    BY <1>t, <1>u DEF SetupIInv, ForceTrue, Sixes
  <1>10. OneWinner'
    BY <1>u DEF SetupIInv, OneWinner
  <1>11. HeardTrue'
    <2>1. task'[t].pc # "up" /\ ~task'[t].key
      BY <1>0, <1>3, GoneFields DEF SetupIInv, HeardTrue
    <2> QED
      BY <2>1, <1>t, <1>u DEF SetupIInv, HeardTrue
  <1>12. NamedInTime'
    <2>1. \A x \in {last[j].addr : j \in DOMAIN last}' : x = t[1] \/ x \in {last[j].addr : j \in DOMAIN last}
      BY <1>l
    <2>2. \A x \in {task[u].seen.addr : u \in Tasks}' : x = NoAddr \/ x \in {task[u].seen.addr : u \in Tasks}
      BY <1>3, <1>t
    <2>3. \A x \in Named' : x \in Named \/ x = NoAddr
      BY <1>t, <1>u, <2>1, <2>2 DEF Named
    <2> QED
      BY <1>u, <2>3, IdForms DEF SetupIInv, NamedInTime
  <1>13. AnswersCome'
    <2>2. ASSUME NEW b \in Attempt, faults = 0, att[b].pc \in {"punch", "ask"}
          PROVE  Underway(Awaited(b))' /\ (Remembered(Awaited(b))' => Handled(Awaited(b))')
      <3>1. Awaited(b)' = Awaited(b) /\ Awaited(b) # NoAddr
        BY <1>u, IdForms DEF Awaited, NoAddr
      <3>2. Underway(Awaited(b)) /\ (Remembered(Awaited(b)) => Handled(Awaited(b)))
        BY <2>2 DEF SetupIInv, AnswersCome
      <3>3. Handled(Awaited(b)) => Handled(Awaited(b))'
        BY <1>0, <3>1, <1>t, <1>u DEF Handled
      <3>4. CASE Awaited(b) = t[1]
        <4>1. Handled(Awaited(b))'
          <5>1. CASE task'[t].pc = "handle"
            BY <3>1, <3>4, <5>1, <1>t DEF Handled
          <5>2. CASE task[t].seen.addr = t[1]
            BY <3>2, <3>3, <3>4, <5>2 DEF Remembered
          <5> QED
            BY <1>3, <5>1, <5>2
        <4> QED
          BY <4>1 DEF Underway
      <3>5. CASE Awaited(b) # t[1]
        <4>1. Remembered(Awaited(b))' => Remembered(Awaited(b))
          BY <3>1, <3>5, <1>l, <1>3, <1>t, <1>u DEF Remembered
        <4>2. \A u \in Tasks : u[1] = Awaited(b) => task'[u] = task[u]
          BY <3>5, <1>t
        <4> QED
          BY <3>1, <3>2, <3>3, <4>1, <4>2, <1>t, <1>u DEF Underway
      <3> QED
        BY <3>4, <3>5
    <2> QED
      BY <1>u, <2>2 DEF SetupIInv, AnswersCome
  <1> QED
    BY <1>4, <1>5, <1>6, <1>7, <1>8, <1>9, <1>10, <1>11, <1>12, <1>13 DEF SetupIInv

(* 100 ms pass.                                                            *)
LEMMA AgeKeeps == ASSUME SetupIInv, Age PROVE SetupIInv'
  <1>0. SetupShape
    BY DEF SetupIInv
  <1>u. UNCHANGED <<world, att, winner, done, wire, inbox, key_confirmed, faults, dups>>
    BY DEF Age, client
  <1>l. /\ last' \in [{"punch", "relay"} -> Seen]
        /\ \A j \in DOMAIN last' : last'[j] = NeverSeen
    BY <1>0, States DEF Age, SetupShape
  <1>3. ASSUME NEW t \in Tasks
        PROVE  /\ task'[t] \in TaskState /\ task'[t].seen = NeverSeen
               /\ task'[t].pc = task[t].pc /\ task'[t].kind = task[t].kind
               /\ task'[t].secure = task[t].secure /\ task'[t].uuid = task[t].uuid
               /\ task'[t].peer = task[t].peer /\ task'[t].key = task[t].key
    <2>1. task[t] \in TaskState /\ task'[t] = [task[t] EXCEPT !.seen = NeverSeen] /\ NeverSeen \in Seen
      BY <1>0, States DEF Age, SetupShape
    <2> QED
      BY <2>1 DEF TaskState
  <1>t. task' \in [Tasks -> TaskState] /\ Tasks' = Tasks
    BY <1>3 DEF Age, Tasks
  <1>4. SetupShape'
    BY <1>0, <1>l, <1>t, <1>u DEF SetupShape
  <1>5. EndsExist'
    BY <1>3, <1>t, <1>u DEF SetupIInv, EndsExist
  <1>6. Numbered'
    BY <1>3, <1>t DEF SetupIInv, Numbered, Siblings
  <1>7. UuidsOwned'
    BY <1>3, <1>t, <1>u DEF SetupIInv, UuidsOwned
  <1>8. RequestsTrue'
    BY <1>3, <1>t, <1>u DEF SetupIInv, RequestsTrue
  <1>9. ForceTrue'
    BY <1>t, <1>u DEF SetupIInv, ForceTrue, Sixes
  <1>10. OneWinner'
    BY <1>u DEF SetupIInv, OneWinner
  <1>11. HeardTrue'
    BY <1>3, <1>t, <1>u DEF SetupIInv, HeardTrue
  <1>12. NamedInTime'
    <2>1. \A x \in Named' : x \in Named \/ x = NoAddr
      BY <1>3, <1>l, <1>t, <1>u, GoneFields DEF Named
    <2> QED
      BY <1>u, <2>1, IdForms DEF SetupIInv, NamedInTime
  <1>13. AnswersCome'
    <2>2. ASSUME NEW b \in Attempt, faults = 0, att[b].pc \in {"punch", "ask"}
          PROVE  Underway(Awaited(b))' /\ ~Remembered(Awaited(b))'
      <3>1. Awaited(b)' = Awaited(b) /\ Awaited(b) # NoAddr
        BY <1>u, IdForms DEF Awaited, NoAddr
      <3>2. Underway(Awaited(b))
        BY <2>2 DEF SetupIInv, AnswersCome
      <3>3. ~Remembered(Awaited(b))'
        BY <3>1, <1>3, <1>l, <1>t, GoneFields DEF Remembered
      <3> QED
        BY <3>1, <3>2, <3>3, <1>3, <1>t, <1>u, GoneFields DEF Underway, Handled
    <2> QED
      BY <1>u, <2>2 DEF SetupIInv, AnswersCome
  <1> QED
    BY <1>4, <1>5, <1>6, <1>7, <1>8, <1>9, <1>10, <1>11, <1>12, <1>13 DEF SetupIInv

(* A datagram is lost, which is a fault.                                   *)
LEMMA LoseKeeps == ASSUME SetupIInv, NEW m \in wire, Lose(m) PROVE SetupIInv'
  <1>0. SetupShape /\ Tasks' = Tasks
    BY DEF SetupIInv, Lose, device, Tasks
  <1>u. UNCHANGED <<world, att, winner, done, inbox, task, last, key_confirmed, dups>>
    BY DEF Lose, client, device
  <1>w. (\A n \in wire' : n \in wire) /\ faults' = faults + 1 /\ faults < world.faults
    BY DEF Lose, Fault
  <1>f. faults' \in 0..world.faults /\ faults' # 0
    BY <1>0, <1>w, SetupAssumption DEF SetupShape
  <1>4. SetupShape'
    BY <1>0, <1>u, <1>w, <1>f DEF SetupShape
  <1>5. EndsExist' /\ UuidsOwned' /\ RequestsTrue'
    BY <1>0, <1>u, <1>w DEF SetupIInv, EndsExist, UuidsOwned, RequestsTrue
  <1>6. Numbered' /\ ForceTrue' /\ OneWinner' /\ HeardTrue'
    BY <1>0, <1>u DEF SetupIInv, Numbered, Siblings, ForceTrue, Sixes, OneWinner, HeardTrue
  <1>12. NamedInTime'
    <2>1. \A x \in Named' : x \in Named
      BY <1>0, <1>u, <1>w DEF Named
    <2> QED
      BY <1>u, <2>1 DEF SetupIInv, NamedInTime
  <1>13. AnswersCome'
    BY <1>u, <1>f DEF SetupIInv, AnswersCome
  <1> QED
    BY <1>4, <1>5, <1>6, <1>12, <1>13 DEF SetupIInv

(* The device hears the first message of its peer.                         *)
LEMMA HelloKeeps == ASSUME SetupIInv, NEW t \in Tasks, Hello(t) PROVE SetupIInv'
  <1>0. SetupShape /\ task[t].pc = "hello"
    BY DEF SetupIInv, Hello
  <1>u. UNCHANGED <<world, att, winner, done, wire, inbox, last, faults, dups>>
    BY DEF Hello, client
  <1> DEFINE h == Heard(t)
  <1>h. /\ h # "nothing" /\ task[t].peer # Nobody
        /\ \A a \in Attempt : task[t].peer = Client(a) /\ att[a].peer = Device(t) => h = att[a].said
        /\ h = "key" => \E a \in Attempt : att[a].said = "key"
    <2>1. \/ task[t].peer = Nobody
          \/ \E a \in Attempt : task[t].peer = Client(a)
          \/ \E u \in Tasks : task[t].peer = Device(u)
      BY DEF SetupIInv, EndsExist
    <2>2. CASE task[t].peer = Nobody
      BY <2>2, Ends DEF Hello, Heard
    <2>3. CASE \E a \in Attempt : task[t].peer = Client(a)
      <3>1. PICK a \in Attempt : task[t].peer = Client(a)
        BY <2>3
      <3>2. h = IF att[a].peer = Device(t) THEN att[a].said ELSE "nothing"
        BY <3>1 DEF Heard, Client
      <3>3. h # "nothing"
        BY DEF Hello
      <3>4. \A b \in Attempt : task[t].peer = Client(b) => b = a
        BY <3>1 DEF Client
      <3> QED
        BY <3>1, <3>2, <3>3, <3>4, Ends
    <2>4. CASE \E u \in Tasks : task[t].peer = Device(u)
      BY <2>4, Ends DEF Hello, Heard
    <2> QED
      BY <2>1, <2>2, <2>3, <2>4
  <1>w. /\ task' = [task EXCEPT ![t].pc = "up", ![t].key = (h = "key")]
        /\ key_confirmed' = (key_confirmed /\ h # "empty key")
    BY DEF Hello
  <1> HIDE DEF h
  <1>g. /\ task \in [Tasks -> TaskState] /\ task[t] \in TaskState
        /\ task'[t] = [task[t] EXCEPT !.pc = "up", !.key = (h = "key")]
        /\ (h = "key") \in BOOLEAN
    BY <1>0, <1>w DEF SetupShape
  <1>3. /\ task'[t] \in TaskState /\ task'[t].pc = "up" /\ task'[t].key = (h = "key")
        /\ task'[t].peer = task[t].peer /\ task'[t].kind = task[t].kind
        /\ task'[t].secure = task[t].secure /\ task'[t].uuid = task[t].uuid
        /\ task'[t].seen = task[t].seen
    BY <1>g DEF TaskState
  <1>t. /\ task' \in [Tasks -> TaskState] /\ Tasks' = Tasks
        /\ \A u \in Tasks : u # t => task'[u] = task[u]
    BY <1>g, <1>w, <1>3 DEF Tasks
  <1>4. SetupShape'
    BY <1>0, <1>t, <1>u, <1>w DEF SetupShape
  <1>5. EndsExist'
    BY <1>3, <1>t, <1>u DEF SetupIInv, EndsExist
  <1>6. Numbered'
    BY <1>3, <1>t DEF SetupIInv, Numbered, Siblings
  <1>7. UuidsOwned'
    BY <1>3, <1>t, <1>u DEF SetupIInv, UuidsOwned
  <1>8. RequestsTrue'
    BY <1>0, <1>3, <1>t, <1>u DEF SetupIInv, RequestsTrue
  <1>9. ForceTrue'
    BY <1>t, <1>u DEF SetupIInv, ForceTrue, Sixes
  <1>10. OneWinner'
    BY <1>u DEF SetupIInv, OneWinner
  <1>11. HeardTrue'
    <2>1. ASSUME NEW u \in Tasks, u # t
          PROVE  /\ task'[u].key => task'[u].pc = "up" /\ task'[u].secure
                 /\ task'[u].pc = "up" /\ task'[u].secure =>
                       /\ task'[u].peer # Nobody
                       /\ \A a \in Attempt :
                             task'[u].peer = Client(a) /\ att'[a].peer = Device(u) =>
                                /\ att'[a].pc = "ok"
                                /\ task'[u].key = (att'[a].said = "key")
                                /\ world'.pk = "stale" => ~key_confirmed'
      <3>1. ~key_confirmed => ~key_confirmed'
        BY <1>w
      <3>2. task'[u] = task[u]
        BY <1>t, <2>1
      <3> QED
        BY <1>u, <3>1, <3>2 DEF SetupIInv, HeardTrue
    <2>2. task'[t].key => task'[t].secure
      <3>1. h = "key" => world.pk = "good"
        BY <1>h DEF SetupIInv, OneWinner, Answer
      <3>2. ~task[t].secure => world.pk = "none"
        BY <1>0 DEF SetupIInv, RequestsTrue
      <3> QED
        BY <1>3, <3>1, <3>2
    <2>3. ASSUME NEW a \in Attempt, task[t].peer = Client(a), att[a].peer = Device(t)
          PROVE  /\ att[a].pc = "ok"
                 /\ task'[t].key = (att[a].said = "key")
                 /\ world.pk = "stale" => ~key_confirmed'
      <3>1. h = att[a].said /\ att[a].pc = "ok" /\ att[a].said = Answer(world.pk)
        BY <1>h, <2>3 DEF SetupIInv, OneWinner
      <3>2. world.pk = "stale" => h = "empty key"
        BY <3>1 DEF Answer
      <3> QED
        BY <3>1, <3>2, <1>3, <1>w
    <2> QED
      BY <2>1, <2>2, <2>3, <1>3, <1>t, <1>u, <1>h DEF HeardTrue
  <1>12. NamedInTime'
    <2>1. Named' = Named
      BY <1>3, <1>t, <1>u DEF Named
    <2> QED
      BY <1>u, <2>1 DEF SetupIInv, NamedInTime
  <1>13. AnswersCome'
    <2>2. ASSUME NEW b \in Attempt, faults = 0, att[b].pc \in {"punch", "ask"}
          PROVE  Underway(Awaited(b))' /\ (Remembered(Awaited(b))' => Handled(Awaited(b))')
      <3>1. Awaited(b)' = Awaited(b)
        BY <1>u DEF Awaited
      <3>2. Underway(Awaited(b)) /\ (Remembered(Awaited(b)) => Handled(Awaited(b)))
        BY <2>2 DEF SetupIInv, AnswersCome
      <3>3. Handled(Awaited(b)) => Handled(Awaited(b))'
        BY <1>0, <3>1, <1>t, <1>u DEF Handled
      <3>4. Remembered(Awaited(b))' => Remembered(Awaited(b))
        BY <3>1, <1>3, <1>t, <1>u DEF Remembered
      <3> QED
        BY <3>1, <3>2, <3>3, <3>4, <1>0, <1>t, <1>u DEF Underway
    <2> QED
      BY <1>u, <2>2 DEF SetupIInv, AnswersCome
  <1> QED
    BY <1>4, <1>5, <1>6, <1>7, <1>8, <1>9, <1>10, <1>11, <1>12, <1>13 DEF SetupIInv

(* A datagram arrives and gets a task of its own.                          *)
LEMMA ReceiveKeeps == ASSUME SetupIInv, NEW m \in wire, Receive(m) PROVE SetupIInv'
  <1>0. SetupShape /\ m \in Message /\ m.addr[1] \in Attempt /\ m.addr \in Addr /\ m.kind \in Kind
    BY DEF SetupIInv, SetupShape, EndsExist, Message
  <1>u. UNCHANGED <<world, att, winner, done, inbox, last, key_confirmed, faults>>
    BY DEF Receive, client
  <1> DEFINE n == 1 + Cardinality(Siblings(m.addr))
             t == <<m.addr, n, FALSE>>
             k == Filter(m.kind)
             uuid == IF m.kind = "relay" THEN <<m.addr, 0, FALSE>> ELSE NoTask
             new == [Gone EXCEPT !.pc = "write", !.kind = m.kind, !.secure = m.secure,
                                 !.uuid = uuid, !.seen = last[k]]
  <1>n. Cardinality(Siblings(m.addr)) \in Nat /\ n \in Nat
    <2>1. IsFiniteSet(Siblings(m.addr))
      BY FS_Subset DEF SetupIInv, Numbered, Siblings
    <2> QED
      BY <2>1, FS_CardinalityType
  <1>k. k \in {"punch", "relay"} /\ DOMAIN last = {"punch", "relay"} /\ last[k] \in Seen
    BY <1>0 DEF Filter, SetupShape
  <1>i. /\ uuid \in TaskId /\ t \in TaskId
        /\ t[1] = m.addr /\ t[2] = n /\ t[3] = FALSE
        /\ m.kind = "relay" => uuid[1][1] = m.addr[1]
    BY <1>0, <1>n, IdForms DEF TaskId
  <1>w. /\ task' = Spawned(t, new)
        /\ \A x \in wire' : x \in wire
        /\ \A x \in wire : x = m \/ x \in wire'
        /\ dups' \in 0..world.dups
    <2>1. task' = Spawned(t, new)
      BY DEF Receive, Siblings
    <2>2. dups' \in 0..world.dups
      BY <1>0, SetupAssumption DEF Receive, SetupShape
    <2> QED
      BY <2>1, <2>2 DEF Receive
  <1>f. /\ new.pc = "write" /\ new.kind = m.kind /\ new.secure = m.secure /\ new.uuid = uuid
        /\ new.seen = last[k] /\ new.peer = Nobody /\ new.key = FALSE /\ new \in TaskState
    <2>1. m.secure \in BOOLEAN /\ m.kind \in Kind \cup {"v6", "none"} /\ Nobody \in Peer
      BY <1>0, PeerForms DEF Message
    <2> HIDE DEF uuid, k
    <2> QED
      BY <1>0, <1>k, <1>i, <2>1 DEF Gone, TaskState
  <1>r. t \notin Tasks
    <2>1. t \in Tasks => t[2] <= Cardinality(Siblings(t[1]))
      BY <1>i DEF SetupIInv, Numbered
    <2>2. t[1] = m.addr /\ t[2] = 1 + Cardinality(Siblings(m.addr))
      OBVIOUS
    <2> HIDE DEF t
    <2> QED
      BY <2>1, <2>2, <1>n
  <1> HIDE DEF new, uuid, k, t, n
  <1>t. /\ Tasks' = Tasks \cup {t} /\ task'[t] = new
        /\ \A u \in Tasks : task'[u] = task[u] /\ u # t
        /\ task' \in [Tasks \cup {t} -> TaskState]
    <2>1. /\ DOMAIN task' = Tasks \cup {t} /\ task'[t] = new
          /\ \A u \in Tasks : task'[u] = task[u] /\ u # t
      BY <1>w, <1>r DEF Spawned
    <2>2. \A u \in Tasks : task[u] \in TaskState
      BY <1>0 DEF SetupShape
    <2>3. task' \in [Tasks \cup {t} -> TaskState]
      BY <1>w, <1>f, <2>2 DEF Spawned
    <2> QED
      BY <2>1, <2>3 DEF Tasks
  <1>4. SetupShape'
    BY <1>0, <1>i, <1>t, <1>u, <1>w DEF SetupShape
  <1>5. EndsExist'
    BY <1>0, <1>i, <1>f, <1>t, <1>u, <1>w DEF SetupIInv, EndsExist
  <1>6. Numbered'
    <2>1. IsFiniteSet(Tasks')
      BY <1>t, FS_AddElement DEF SetupIInv, Numbered
    <2>2. ASSUME NEW x
          PROVE  /\ Siblings(x)' = IF x = m.addr THEN Siblings(x) \cup {t} ELSE Siblings(x)
                 /\ Cardinality(Siblings(x)) \in Nat /\ Cardinality(Siblings(x)') \in Nat
                 /\ Cardinality(Siblings(x)) <= Cardinality(Siblings(x)')
                 /\ x = m.addr => Cardinality(Siblings(x)') = n
      <3>1. Siblings(x)' = IF x = m.addr THEN Siblings(x) \cup {t} ELSE Siblings(x)
        BY <1>i, <1>t DEF Siblings
      <3>2. IsFiniteSet(Siblings(x)) /\ t \notin Siblings(x)
        BY <1>r, FS_Subset DEF SetupIInv, Numbered, Siblings
      <3>3. /\ Cardinality(Siblings(x)) \in Nat
            /\ Cardinality(Siblings(x) \cup {t}) = Cardinality(Siblings(x)) + 1
        BY <3>2, FS_AddElement, FS_CardinalityType
      <3> QED
        BY <3>1, <3>3 DEF n
    <2>3. ASSUME NEW u \in Tasks'
          PROVE  IF u[3] THEN task'[u].pc \notin {"write", "handle"}
                 ELSE u[2] <= Cardinality(Siblings(u[1]))'
      <3>1. CASE u = t
        BY <3>1, <2>2, <1>i, <1>n
      <3>2. CASE u \in Tasks
        <4>1. u[2] \in Nat
          BY <3>2, <1>0, IdFields DEF SetupShape
        <4> QED
          BY <3>2, <4>1, <2>2, <1>t DEF SetupIInv, Numbered
      <3> QED
        BY <3>1, <3>2, <1>t
    <2> QED
      BY <2>1, <2>3 DEF Numbered
  <1>7. UuidsOwned'
    BY <1>i, <1>f, <1>t, <1>u DEF SetupIInv, UuidsOwned
  <1>8. RequestsTrue'
    BY <1>0, <1>f, <1>t, <1>u, <1>w DEF SetupIInv, RequestsTrue
  <1>9. ForceTrue'
    BY <1>t, <1>u DEF SetupIInv, ForceTrue, Sixes
  <1>10. OneWinner'
    BY <1>u DEF SetupIInv, OneWinner
  <1>11. HeardTrue'
    BY <1>f, <1>t, <1>u DEF SetupIInv, HeardTrue
  <1>12. NamedInTime'
    <2>1. m.addr \in Named /\ last[k].addr \in Named
      BY <1>k DEF Named
    <2>2. \A x \in {q.addr : q \in wire}' : x \in Named
      BY <1>w DEF Named
    <2>3. \A x \in {q[1] : q \in Tasks}' : x \in Named
      BY <1>t, <1>i, <2>1 DEF Named
    <2>4. \A x \in {task[q].seen.addr : q \in Tasks}' : x \in Named
      BY <1>t, <1>f, <2>1 DEF Named
    <2>5. \A x \in {last[q].addr : q \in DOMAIN last}' : x \in Named
      BY <1>u DEF Named
    <2>6. \A x \in Named' : x \in Named
      BY <2>2, <2>3, <2>4, <2>5, Zenon DEF Named
    <2> QED
      BY <1>u, <2>6 DEF SetupIInv, NamedInTime
  <1>13. AnswersCome'
    <2>2. ASSUME NEW b \in Attempt, faults = 0, att[b].pc \in {"punch", "ask"}
          PROVE  Underway(Awaited(b))' /\ (Remembered(Awaited(b))' => Handled(Awaited(b))')
      <3>1. Awaited(b)' = Awaited(b)
        BY <1>u DEF Awaited
      <3>2. Underway(Awaited(b)) /\ (Remembered(Awaited(b)) => Handled(Awaited(b)))
        BY <2>2 DEF SetupIInv, AnswersCome
      <3>3. Handled(Awaited(b)) => Handled(Awaited(b))'
        BY <3>1, <1>t, <1>u DEF Handled
      <3>4. Remembered(Awaited(b))' => Remembered(Awaited(b))
        BY <3>1, <1>f, <1>k, <1>t, <1>u DEF Remembered
      <3>5. CASE Handled(Awaited(b))
        BY <3>3, <3>5 DEF Underway
      <3>6. CASE \E q \in wire : q.addr = Awaited(b)
        <4>1. CASE \E q \in wire' : q.addr = Awaited(b)
          BY <3>1, <3>2, <3>3, <3>4, <4>1 DEF Underway
        <4>2. CASE m.addr = Awaited(b) /\ last[k].addr = Awaited(b)
          BY <3>2, <3>5, <4>2, <1>k DEF Remembered
        <4>3. CASE m.addr = Awaited(b) /\ last[k].addr # Awaited(b)
          BY <3>1, <3>2, <3>3, <3>4, <4>3, <1>t, <1>f, <1>i DEF Underway
        <4> QED
          BY <3>6, <4>1, <4>2, <4>3, <1>w
      <3>7. CASE \E u \in Tasks : /\ u[1] = Awaited(b) /\ task[u].pc = "write"
                                  /\ task[u].seen.addr # Awaited(b)
        BY <3>1, <3>2, <3>3, <3>4, <3>7, <1>t DEF Underway
      <3> QED
        BY <3>2, <3>5, <3>6, <3>7 DEF Underway
    <2> QED
      BY <1>u, <2>2 DEF SetupIInv, AnswersCome
  <1> QED
    BY <1>4, <1>5, <1>6, <1>7, <1>8, <1>9, <1>10, <1>11, <1>12, <1>13 DEF SetupIInv

(* A task answers, and listens or dials; a task for IPv6 may listen beside *)
(* it.                                                                     *)
LEMMA RespondKeeps ==
    ASSUME SetupIInv, NEW t \in Tasks, task[t].pc = "handle",
           NEW new \in TaskState, NEW uuid \in TaskId, NEW with6 \in BOOLEAN,
           Respond(t, new, uuid, with6),
           new.pc \in {"listen", "dial"}, new.kind = task[t].kind, new.secure = task[t].secure,
           new.seen = task[t].seen, new.peer = task[t].peer, new.key = task[t].key,
           new.kind = "relay" => new.uuid[1][1] = t[1][1],
           uuid # NoTask => new.pc = "dial" /\ uuid[1][1] = t[1][1]
    PROVE  SetupIInv'
  <1>0. /\ SetupShape /\ t \in TaskId /\ t[1] \in Addr /\ t[2] \in Nat /\ ~t[3]
        /\ t[1] = <<t[1][1], t[1][2]>> /\ t[1][1] \in Attempt
    <2>1. SetupShape /\ t \in TaskId /\ ~t[3] /\ t[1][1] \in Attempt
      BY DEF SetupIInv, SetupShape, Numbered, EndsExist
    <2> QED
      BY <2>1, IdFields
  <1>u. UNCHANGED <<world, att, winner, done, wire, last, key_confirmed, faults, dups>>
    BY DEF Respond, client
  <1> DEFINE six == <<t[1], t[2], TRUE>>
             six_task == [Gone EXCEPT !.pc = "listen", !.kind = "v6", !.secure = TRUE]
             open == IF t[1][2] = 0 THEN att[t[1][1]].pc = "punch"
                     ELSE att[t[1][1]].pc = "ask" /\ att[t[1][1]].try = t[1][2]
             to == (IF new.pc = "listen" THEN {t} ELSE {}) \cup (IF with6 THEN {six} ELSE {})
             r == [addr |-> t[1], uuid |-> uuid, to |-> to]
  <1>w. /\ task' = [(IF with6 THEN Spawned(six, six_task) ELSE task) EXCEPT ![t] = new]
        /\ inbox' = IF open THEN inbox \cup {r} ELSE inbox
        /\ with6 => world.v6 /\ task[t].kind # "relay" /\ ~(task[t].kind = "punch" /\ world.force)
    BY DEF Respond
  <1>s. six \in TaskId /\ six[1] = t[1] /\ six[3] = TRUE /\ six # t
    <2>1. six \in TaskId
      BY <1>0 DEF TaskId
    <2>2. six[1] = t[1] /\ six[3] = TRUE
      OBVIOUS
    <2> HIDE DEF six
    <2> QED
      BY <1>0, <2>1, <2>2
  <1>f. /\ six_task.pc = "listen" /\ six_task.kind = "v6" /\ six_task.secure = TRUE
        /\ six_task.peer = Nobody /\ six_task.key = FALSE /\ six_task.seen = NeverSeen
        /\ six_task \in TaskState
    BY States, IdForms, PeerForms DEF Gone, TaskState, Kind
  <1>o. ASSUME NEW b \in Attempt, att[b].pc = "ask" => att[b].try # 0,
               att[b].pc \in {"punch", "ask"}, Awaited(b) = t[1]
        PROVE  open
    <2>1. t[1][1] = b /\ t[1][2] = IF att[b].pc = "punch" THEN 0 ELSE att[b].try
      BY <1>o DEF Awaited
    <2> QED
      BY <1>o, <2>1
  <1>r. /\ r \in Reply /\ r.addr = t[1] /\ r.uuid = uuid
        /\ \A x \in r.to : (x = t /\ new.pc = "listen") \/ (x = six /\ with6)
    <2>1. to \subseteq TaskId /\ \A x \in to : (x = t /\ new.pc = "listen") \/ (x = six /\ with6)
      BY <1>0, <1>s
    <2> HIDE DEF to
    <2> QED
      BY <1>0, <2>1 DEF Reply
  <1>i. /\ \A q \in inbox' : q \in inbox \/ q = r
        /\ \A q \in inbox : q \in inbox'
        /\ open => r \in inbox'
    BY <1>w
  <1> HIDE DEF six, six_task, r, to, open
  <1>t. /\ IF with6 THEN Tasks' = Tasks \cup {six} /\ task'[six] = six_task ELSE Tasks' = Tasks
        /\ task'[t] = new
        /\ \A u \in Tasks : u # t => task'[u] = task[u] \/ (with6 /\ u = six)
        /\ task' \in [Tasks' -> TaskState]
    <2>1. CASE with6
      <3> DEFINE g == Spawned(six, six_task)
      <3>1. g \in [Tasks \cup {six} -> TaskState] /\ g[six] = six_task
            /\ \A u \in Tasks : u # six => g[u] = task[u]
        BY <1>0, <1>f DEF Spawned, SetupShape
      <3>2. task' = [g EXCEPT ![t] = new]
        BY <1>w, <2>1
      <3> HIDE DEF g
      <3>3. DOMAIN task' = Tasks \cup {six}
        BY <3>1, <3>2
      <3> QED
        BY <2>1, <3>1, <3>2, <3>3, <1>s DEF Tasks
    <2>2. CASE ~with6
      <3>1. task' = [task EXCEPT ![t] = new] /\ task \in [Tasks -> TaskState]
        BY <1>0, <1>w, <2>2 DEF SetupShape
      <3> QED
        BY <2>2, <3>1 DEF Tasks
    <2> QED
      BY <2>1, <2>2
  <1>d. /\ \A u \in Tasks : u \in Tasks'
        /\ \A u \in Tasks' : u \in Tasks \/ (with6 /\ u = six /\ task'[u] = six_task)
        /\ \A u \in Tasks' : u # t /\ ~(with6 /\ u = six) => u \in Tasks /\ task'[u] = task[u]
    BY <1>t
  <1>4. SetupShape'
    BY <1>0, <1>s, <1>r, <1>i, <1>d, <1>t, <1>u DEF SetupShape
  <1>5. EndsExist'
    <2>1. \A u \in Tasks' : u[1][1] \in Attempt
      BY <1>d, <1>s, <1>0 DEF SetupIInv, EndsExist
    <2>2. ASSUME NEW u \in Tasks'
          PROVE  task'[u].peer \in {Nobody} \cup {Client(a) : a \in Attempt} \cup {Device(v) : v \in Tasks'}
      <3>1. \A v \in Tasks : task[v].peer \in {Nobody} \cup {Client(a) : a \in Attempt}
                                                       \cup {Device(x) : x \in Tasks'}
        BY <1>d DEF SetupIInv, EndsExist
      <3>2. \/ task'[u].peer = Nobody
            \/ \E v \in Tasks : task'[u].peer = task[v].peer
        BY <1>d, <1>t, <1>f
      <3> QED
        BY <3>1, <3>2
    <2>3. \A q \in inbox' : q.to \subseteq Tasks'
      BY <1>d, <1>i, <1>r, <1>t DEF SetupIInv, EndsExist
    <2>4. \A a \in Attempt : /\ att[a].to \subseteq Tasks'
                             /\ att[a].peer # Nobody => \E v \in Tasks' : att[a].peer = Device(v)
      BY <1>d DEF SetupIInv, EndsExist
    <2>5. \A n \in wire : n.addr[1] \in Attempt
      BY DEF SetupIInv, EndsExist
    <2> QED
      BY <2>1, <2>2, <2>3, <2>4, <2>5, <1>u DEF EndsExist
  <1>6. Numbered'
    <2>1. IsFiniteSet(Tasks')
      BY <1>t, FS_AddElement DEF SetupIInv, Numbered
    <2>2. \A x : Siblings(x)' = Siblings(x)
      BY <1>d, <1>s DEF Siblings
    <2>3. \A u \in Tasks' : u[3] => task'[u].pc \notin {"write", "handle"}
      BY <1>d, <1>t, <1>f DEF SetupIInv, Numbered
    <2>4. \A u \in Tasks' : ~u[3] => u \in Tasks
      BY <1>d, <1>s
    <2>5. \A u \in Tasks' : ~u[3] => u[2] <= Cardinality(Siblings(u[1]))'
      BY <2>2, <2>4 DEF SetupIInv, Numbered
    <2> QED
      BY <2>1, <2>3, <2>5 DEF Numbered
  <1>7. UuidsOwned'
    <2>1. \A u \in Tasks' : task'[u].kind = "relay" => task'[u].uuid[1][1] = u[1][1]
      BY <1>d, <1>t, <1>f DEF SetupIInv, UuidsOwned
    <2>2. \A q \in inbox' : q.uuid # NoTask => q.uuid[1][1] = q.addr[1]
      BY <1>i, <1>r DEF SetupIInv, UuidsOwned
    <2> QED
      BY <1>u, <2>1, <2>2 DEF SetupIInv, UuidsOwned
  <1>8. RequestsTrue'
    <2>1. ASSUME NEW u \in Tasks'
          PROVE  /\ task'[u].pc # "gone" /\ ~task'[u].secure => world.pk = "none"
                 /\ task'[u].kind = "local" => world.lan
                 /\ task'[u].pc \in {"write", "handle"} => task'[u].kind \in Kind
      BY <1>d, <1>t, <1>f, <2>1 DEF SetupIInv, RequestsTrue
    <2> QED
      BY <1>u, <2>1 DEF SetupIInv, RequestsTrue
  <1>9. ForceTrue'
    <2>1. world.force /\ uuid # NoTask => \A x \in r.to : x[3] /\ world.lan /\ world.v6
      <3>1. task[t].kind \in Kind /\ (task[t].kind = "local" => world.lan)
        BY DEF SetupIInv, RequestsTrue
      <3> QED
        BY <3>1, <1>r, <1>s, <1>w DEF Kind
    <2>2. ASSUME world.force PROVE \A q \in inbox' : q.uuid # NoTask => Sixes(q.to)
      BY <1>i, <1>r, <2>1, <2>2 DEF SetupIInv, ForceTrue, Sixes
    <2>3. ASSUME world.force, NEW a \in Attempt
          PROVE  /\ att[a].pc \in {"ask", "join"} => Sixes(att[a].to)
                 /\ att[a].direct => /\ att[a].pc \in {"secure", "ok"}
                                     /\ \E u \in Tasks' : att[a].peer = Device(u) /\ Sixes({u})
      BY <1>d, <2>3 DEF SetupIInv, ForceTrue
    <2> QED
      BY <1>u, <2>2, <2>3 DEF ForceTrue, Sixes
  <1>10. OneWinner'
    BY <1>u DEF SetupIInv, OneWinner
  <1>11. HeardTrue'
    <2>1. ~new.key
      BY DEF SetupIInv, HeardTrue
    <2> QED
      BY <2>1, <1>d, <1>t, <1>f, <1>u DEF SetupIInv, HeardTrue
  <1>12. NamedInTime'
    <2>3. \A x \in {q[1] : q \in Tasks}' : x \in Named
      BY <1>d, <1>s DEF Named
    <2>4. \A x \in {task[q].seen.addr : q \in Tasks}' : x \in Named \/ x = NoAddr
      <3>1. \A q \in Tasks' : task'[q].seen = NeverSeen \/ \E v \in Tasks : task'[q].seen = task[v].seen
        BY <1>d, <1>t, <1>f
      <3> QED
        BY <3>1, GoneFields DEF Named
    <2>5. \A x \in {last[q].addr : q \in DOMAIN last}' \cup {q.addr : q \in wire}' : x \in Named
      BY <1>u DEF Named
    <2>6. \A x \in Named' : x \in Named \/ x = NoAddr
      BY <2>3, <2>4, <2>5, Zenon DEF Named
    <2> QED
      BY <1>u, <2>6, IdForms DEF SetupIInv, NamedInTime
  <1>13. AnswersCome'
    <2>2. ASSUME NEW b \in Attempt, faults = 0, att[b].pc \in {"punch", "ask"}
          PROVE  Underway(Awaited(b))' /\ (Remembered(Awaited(b))' => Handled(Awaited(b))')
      <3>1. Awaited(b)' = Awaited(b) /\ Awaited(b) # NoAddr
        BY <1>u, IdForms DEF Awaited, NoAddr
      <3>2. Underway(Awaited(b)) /\ (Remembered(Awaited(b)) => Handled(Awaited(b)))
        BY <2>2 DEF SetupIInv, AnswersCome
      <3>3. CASE Awaited(b) = t[1]
        <4>1. open
          <5>1. att[b].pc = "ask" => att[b].try # 0
            BY DEF SetupIInv, AnswersCome
          <5> QED
            BY <1>o, <2>2, <3>3, <5>1
        <4>2. Handled(Awaited(b))'
          BY <4>1, <3>1, <3>3, <1>i, <1>r DEF Handled
        <4> QED
          BY <4>2 DEF Underway
      <3>4. CASE Awaited(b) # t[1]
        <4>1. \A u \in Tasks : u[1] = Awaited(b) => u \in Tasks' /\ task'[u] = task[u]
          BY <3>4, <1>s, <1>d, <1>t
        <4>2. Handled(Awaited(b)) => Handled(Awaited(b))'
          BY <3>1, <4>1, <1>i DEF Handled
        <4>3. Remembered(Awaited(b))' => Remembered(Awaited(b))
          <5>1. \A q \in Tasks' : task'[q].seen = NeverSeen \/ \E v \in Tasks : task'[q].seen = task[v].seen
            BY <1>d, <1>t, <1>f
          <5> QED
            BY <3>1, <5>1, <1>u, GoneFields DEF Remembered
        <4> QED
          BY <3>1, <3>2, <4>1, <4>2, <4>3, <1>u DEF Underway
      <3> QED
        BY <3>3, <3>4
    <2> QED
      BY <1>u, <2>2 DEF SetupIInv, AnswersCome
  <1> QED
    BY <1>4, <1>5, <1>6, <1>7, <1>8, <1>9, <1>10, <1>11, <1>12, <1>13 DEF SetupIInv

-----------------------------------------------------------------------------
(* An attempt that still waits has an answer coming while nothing failed.  *)
LEMMA RepeatIsLate ==
    ASSUME SetupIInv, NEW a \in Attempt, att[a].pc \in {"punch", "ask"},
           Late(AnswerComes(Awaited(a)))
    PROVE  faults' # 0 /\ faults' \in {faults, faults + 1} /\ faults' <= world.faults
  <1>0. faults \in Nat /\ world.faults \in Nat /\ faults <= world.faults
    BY SetupAssumption DEF SetupIInv, SetupShape
  <1>1. faults = 0 => AnswerComes(Awaited(a))
    BY DEF SetupIInv, AnswersCome, Underway, Handled, AnswerComes
  <1> QED
    BY <1>0, <1>1 DEF Late, Fault

LEMMA LateBounds ==
    ASSUME SetupIInv, NEW c \in BOOLEAN, Late(c)
    PROVE  faults' \in {faults, faults + 1} /\ faults' <= world.faults
  <1>0. faults \in Nat /\ world.faults \in Nat /\ faults <= world.faults
    BY SetupAssumption DEF SetupIInv, SetupShape
  <1> QED
    BY <1>0 DEF Late, Fault

LEMMA FaultBounds ==
    ASSUME SetupIInv, Fault
    PROVE  faults' \in {faults, faults + 1} /\ faults' <= world.faults /\ faults' # 0
  <1>0. faults \in Nat /\ world.faults \in Nat /\ faults <= world.faults
    BY SetupAssumption DEF SetupIInv, SetupShape
  <1> QED
    BY <1>0 DEF Fault

LEMMA SameFaults ==
    ASSUME SetupIInv, UNCHANGED faults
    PROVE  faults' \in {faults, faults + 1} /\ faults' <= world.faults
  BY SetupAssumption DEF SetupIInv, SetupShape

(* The steps of an attempt.                                                *)
LEMMA ClientKeeps ==
    ASSUME SetupIInv, NEW a \in Attempt, ClientStep(a) \/ ConnectFails(a)
    PROVE  SetupIInv'
  <1>0. att \in [Attempt -> AttemptState] /\ att[a] \in AttemptState /\ task \in [Tasks -> TaskState]
    BY DEF SetupIInv, SetupShape
  <1>1. CASE Begin(a)
    <2>1. faults' = faults
      BY <1>1 DEF Begin
    <2> QED
      BY <1>1, <2>1, SameFaults, PunchKeeps, ZeroTry DEF Begin
  <1>2. CASE PunchAgain(a)
    <2>1. Awaited(a) = <<a, 0>> /\ att[a].pc = "punch"
      BY <1>2 DEF PunchAgain, Awaited
    <2>2. faults' # 0 /\ faults' \in {faults, faults + 1} /\ faults' <= world.faults
      BY <1>2, <2>1, RepeatIsLate DEF PunchAgain
    <2>3. CASE att[a].try < Tries
      <3>1. att[a].try + 1 \in 1..Tries
        <4>1. att[a].try \in 0..Tries
          BY <1>0 DEF AttemptState
        <4>2. Tries \in Nat
          BY SetupAssumption
        <4> QED
          BY <2>3, <4>1, <4>2
      <3> QED
        BY <1>2, <2>1, <2>2, <2>3, <3>1, PunchKeeps DEF PunchAgain
    <2>4. CASE ~(att[a].try < Tries)
      BY <1>2, <2>1, <2>2, <2>4, FailsKeeps DEF PunchAgain
    <2> QED
      BY <2>3, <2>4
  <1>3. CASE \E r \in inbox : Punched(a, r) \/ Answered(a, r)
    <2>1. PICK r \in inbox : Punched(a, r) \/ Answered(a, r)
      BY <1>3
    <2>2. r \in Reply /\ r.to \in SUBSET TaskId /\ r.uuid \in TaskId
      BY DEF SetupIInv, SetupShape, Reply
    <2>3. CASE Punched(a, r)
      <3> DEFINE p == IF r.uuid = NoTask THEN "direct" ELSE "join"
      <3>1. /\ att' = [att EXCEPT ![a].pc = p, ![a].to = r.to, ![a].uuid = r.uuid]
            /\ att[a].pc = "punch" /\ r.addr[1] = a /\ inbox' = inbox \ {r}
            /\ UNCHANGED <<world, winner, done, wire, task, last, key_confirmed, faults, dups>>
        BY <2>3 DEF Punched, Going, device
      <3>2. p \in {"direct", "join"} /\ (p = "join" => r.uuid # NoTask)
        OBVIOUS
      <3> HIDE DEF p
      <3>3. att'[a] = [att[a] EXCEPT !.pc = p, !.to = r.to, !.uuid = r.uuid]
        BY <1>0, <3>1
      <3>4. /\ att'[a].pc = p /\ att'[a].to = r.to /\ att'[a].uuid = r.uuid
            /\ att'[a].try = att[a].try /\ att'[a].peer = att[a].peer
            /\ att'[a].said = att[a].said /\ att'[a].direct = att[a].direct
            /\ att'[a] \in AttemptState
        BY <1>0, <2>2, <3>2, <3>3 DEF AttemptState
      <3>5. /\ att' \in [Attempt -> AttemptState]
            /\ \A b \in Attempt : b # a => att'[b] = att[b]
        BY <1>0, <3>1, <3>4
      <3>6. /\ \/ att[a].pc = "punch" /\ att'[a].pc = "direct"
               \/ att[a].pc = "punch" /\ att'[a].pc = "join" /\ r.uuid # NoTask
               \/ att[a].pc = "ask" /\ att'[a].pc = "join"
            /\ \/ att'[a].to = r.to /\ att'[a].uuid = r.uuid /\ att[a].pc = "punch"
               \/ att'[a].to = att[a].to /\ att'[a].uuid = att[a].uuid /\ att[a].pc = "ask"
        BY <3>1, <3>2, <3>4
      <3> QED
        BY <3>1, <3>4, <3>5, <3>6, ReplyKeeps
    <2>4. CASE Answered(a, r)
      <3>1. /\ att' = [att EXCEPT ![a].pc = "join"]
            /\ att[a].pc = "ask" /\ r.addr[1] = a /\ inbox' = inbox \ {r}
            /\ UNCHANGED <<world, winner, done, wire, task, last, key_confirmed, faults, dups>>
        BY <2>4 DEF Answered, Going, device
      <3>3. att'[a] = [att[a] EXCEPT !.pc = "join"]
        BY <1>0, <3>1
      <3>4. /\ att'[a].pc = "join" /\ att'[a].to = att[a].to /\ att'[a].uuid = att[a].uuid
            /\ att'[a].try = att[a].try /\ att'[a].peer = att[a].peer
            /\ att'[a].said = att[a].said /\ att'[a].direct = att[a].direct
            /\ att'[a] \in AttemptState
        BY <1>0, <3>3 DEF AttemptState
      <3>5. /\ att' \in [Attempt -> AttemptState]
            /\ \A b \in Attempt : b # a => att'[b] = att[b]
        BY <1>0, <3>1, <3>4
      <3>6. /\ \/ att[a].pc = "punch" /\ att'[a].pc = "direct"
               \/ att[a].pc = "punch" /\ att'[a].pc = "join" /\ r.uuid # NoTask
               \/ att[a].pc = "ask" /\ att'[a].pc = "join"
            /\ \/ att'[a].to = r.to /\ att'[a].uuid = r.uuid /\ att[a].pc = "punch"
               \/ att'[a].to = att[a].to /\ att'[a].uuid = att[a].uuid /\ att[a].pc = "ask"
        BY <3>1, <3>4
      <3> QED
        BY <3>1, <3>4, <3>5, <3>6, ReplyKeeps
    <2> QED
      BY <2>1, <2>3, <2>4
  <1>4. CASE \E t \in att[a].to : Direct(a, t)
    <2>1. PICK t \in att[a].to : Direct(a, t)
      BY <1>4
    <2>2. t \in Tasks
      BY DEF SetupIInv, EndsExist
    <2>3. CASE world.force /\ att[a].pc = "direct"
      <3>1. /\ Ask(a, 1) /\ UNCHANGED <<world, last, key_confirmed, dups>> /\ faults' = faults
            /\ task' = [task EXCEPT ![t].pc = "hello", ![t].peer = Client(a)]
            /\ task[t].pc = "listen" /\ task[t] \in TaskState
        BY <1>0, <2>1, <2>2, <2>3 DEF Direct
      <3>p. Client(a) \in Peer /\ task[t] \in TaskState /\ task[t].pc = "listen"
        BY <3>1, PeerForms
      <3>2. task'[t] = [task[t] EXCEPT !.pc = "hello", !.peer = Client(a)]
        BY <1>0, <2>2, <3>1
      <3>3. /\ task'[t].pc = "hello" /\ task'[t].peer = Client(a) /\ task'[t].kind = task[t].kind
            /\ task'[t].secure = task[t].secure /\ task'[t].uuid = task[t].uuid
            /\ task'[t].seen = task[t].seen /\ task'[t].key = task[t].key
            /\ task'[t] \in TaskState
        BY <3>p, <3>2 DEF TaskState
      <3>4. /\ task' \in [Tasks -> TaskState] /\ Tasks' = Tasks
            /\ \A u \in Tasks : u # t => task'[u] = task[u]
        BY <1>0, <2>2, <3>1, <3>3 DEF Tasks
      <3>5. ASSUME NEW u \in Tasks
            PROVE  /\ task'[u].kind = task[u].kind /\ task'[u].secure = task[u].secure
                   /\ task'[u].uuid = task[u].uuid /\ task'[u].seen = task[u].seen
                   /\ task'[u].key = task[u].key
                   /\ \/ task'[u].pc = task[u].pc /\ task'[u].peer = task[u].peer
                      \/ task[u].pc = "listen" /\ task'[u].pc = "hello" /\ task'[u].peer = Client(a)
        BY <3>p, <3>3, <3>4, <3>5
      <3>6. faults' \in {faults, faults + 1} /\ faults' <= world.faults
        BY <3>1, SameFaults
      <3>7. Ask(a, 1) /\ UNCHANGED <<world, last, key_confirmed, dups>>
        BY <3>1
      <3> QED
        BY <2>3, <3>4, <3>5, <3>6, <3>7, ZeroTry, AskKeeps
    <2>4. CASE ~(world.force /\ att[a].pc = "direct")
      BY <2>1, <2>2, <2>4, DirectKeeps
    <2> QED
      BY <2>3, <2>4
  <1>5. CASE DirectFails(a)
    <2>1. faults' \in {faults, faults + 1} /\ faults' <= world.faults
      BY <1>5, SameFaults DEF DirectFails
    <2>2. Tasks' = Tasks /\ task' = task
      BY <1>5 DEF DirectFails, device, Tasks
    <2> QED
      BY <1>0, <1>5, <2>1, <2>2, AskKeeps, ZeroTry DEF DirectFails, device
  <1>6. CASE AskAgain(a)
    <2>1. Awaited(a) = <<a, att[a].try>> /\ att[a].pc = "ask"
      BY <1>6 DEF AskAgain, Awaited
    <2>2. faults' # 0 /\ faults' \in {faults, faults + 1} /\ faults' <= world.faults
      BY <1>6, <2>1, RepeatIsLate DEF AskAgain
    <2>3. CASE att[a].try < Tries
      <3>1. att[a].try + 1 \in 1..Tries
        <4>1. att[a].try \in 0..Tries
          BY <1>0 DEF AttemptState
        <4>2. Tries \in Nat
          BY SetupAssumption
        <4> QED
          BY <2>3, <4>1, <4>2
      <3>2. Tasks' = Tasks /\ task' = task
        BY <1>6 DEF AskAgain, device, Tasks
      <3> QED
        BY <1>0, <1>6, <2>1, <2>2, <2>3, <3>1, <3>2, AskKeeps DEF AskAgain, device
    <2>4. CASE ~(att[a].try < Tries)
      BY <1>6, <2>1, <2>2, <2>4, FailsKeeps DEF AskAgain
    <2> QED
      BY <2>3, <2>4
  <1>7. CASE Join(a)
    BY <1>7, JoinKeeps
  <1>8. CASE Secure(a)
    <2>1. world.pk \in {"none", "bad", "stale", "renamed", "good"}
      BY SetupAssumption DEF SetupIInv, SetupShape
    <2>2. Succeeds(a, Answer(world.pk))
      <3>1. CASE world.pk \in {"none", "bad"}
        BY <1>8, <3>1 DEF Secure, Answer
      <3>2. CASE world.pk \notin {"none", "bad"}
        BY <1>8, <2>1, <3>2 DEF Secure, Answer
      <3> QED
        BY <3>1, <3>2
    <2> QED
      BY <1>8, <2>2, SucceedsKeeps DEF Secure
  <1>9. CASE SecureFails(a)
    <2>1. faults' \in {faults, faults + 1} /\ faults' <= world.faults
      <3>1. PeerComes(a) \in BOOLEAN
        BY DEF PeerComes, Open
      <3> QED
        BY <1>9, <3>1, LateBounds DEF SecureFails
    <2> QED
      BY <1>9, <2>1, FailsKeeps DEF SecureFails
  <1>10. CASE ConnectFails(a)
    <2>1. faults' \in {faults, faults + 1} /\ faults' <= world.faults
      BY <1>10, FaultBounds DEF ConnectFails
    <2> QED
      BY <1>10, <2>1, FailsKeeps DEF ConnectFails
  <1> QED
    BY <1>1, <1>2, <1>3, <1>4, <1>5, <1>6, <1>7, <1>8, <1>9, <1>10 DEF ClientStep


(* The steps of a task.                                                    *)
LEMMA TaskKeeps ==
    ASSUME SetupIInv, NEW t \in Tasks, TaskStep(t) \/ HandleFails(t)
    PROVE  SetupIInv'
  <1>0. task[t] \in TaskState /\ t \in TaskId /\ task[t].uuid \in TaskId
    BY DEF SetupIInv, SetupShape, TaskState
  <1>1. CASE WriteLast(t)
    BY <1>1, WriteLastKeeps
  <1>2. ASSUME NEW with6 \in BOOLEAN, Listen(t, with6)
        PROVE  SetupIInv'
    <2> DEFINE new == [task[t] EXCEPT !.pc = "listen"]
    <2>1. /\ new \in TaskState /\ new.pc = "listen" /\ new.kind = task[t].kind
          /\ new.secure = task[t].secure /\ new.seen = task[t].seen
          /\ new.peer = task[t].peer /\ new.key = task[t].key /\ new.uuid = task[t].uuid
      BY <1>0 DEF TaskState
    <2>2. task[t].pc = "handle" /\ Respond(t, new, NoTask, with6)
      BY <1>2 DEF Listen
    <2> HIDE DEF new
    <2>3. new.kind = "relay" => new.uuid[1][1] = t[1][1]
      BY <2>1 DEF SetupIInv, UuidsOwned
    <2>4. NoTask \in TaskId
      BY IdForms
    <2> QED
      BY <2>1, <2>2, <2>3, <2>4, RespondKeeps
  <1>3. ASSUME NEW with6 \in BOOLEAN, Relay(t, with6)
        PROVE  SetupIInv'
    <2> DEFINE uuid == IF task[t].kind = "relay" THEN task[t].uuid ELSE t
               new == [task[t] EXCEPT !.pc = "dial", !.uuid = uuid]
    <2>1. uuid \in TaskId /\ uuid[1][1] = t[1][1]
      BY <1>0 DEF SetupIInv, UuidsOwned
    <2>2. task[t].pc = "handle" /\ Respond(t, new, uuid, with6)
      BY <1>3 DEF Relay
    <2> HIDE DEF uuid
    <2>3. /\ new \in TaskState /\ new.pc = "dial" /\ new.kind = task[t].kind
          /\ new.secure = task[t].secure /\ new.seen = task[t].seen
          /\ new.peer = task[t].peer /\ new.key = task[t].key /\ new.uuid = uuid
      BY <1>0, <2>1 DEF TaskState
    <2> HIDE DEF new
    <2> QED
      BY <2>1, <2>2, <2>3, RespondKeeps
  <1>4. CASE Dial(t)
    BY <1>4, DialKeeps
  <1>5. CASE ListenEnds(t)
    <2>1. faults' \in {faults, faults + 1} /\ faults' <= world.faults
      BY <1>5, SameFaults DEF ListenEnds
    <2> QED
      BY <1>5, <2>1, GoneKeeps DEF ListenEnds
  <1>6. CASE Hello(t)
    BY <1>6, HelloKeeps
  <1>7. CASE HelloEnds(t)
    <2>1. ClientComes(t) \in BOOLEAN
      BY DEF ClientComes, Open
    <2>2. faults' \in {faults, faults + 1} /\ faults' <= world.faults
      BY <1>7, <2>1, LateBounds DEF HelloEnds
    <2> QED
      BY <1>7, <2>2, GoneKeeps DEF HelloEnds
  <1>8. CASE ConnectionEnds(t)
    <2>1. faults' \in {faults, faults + 1} /\ faults' <= world.faults
      BY <1>8, SameFaults DEF ConnectionEnds
    <2> QED
      BY <1>8, <2>1, GoneKeeps DEF ConnectionEnds
  <1>9. CASE HandleFails(t)
    <2>1. faults' \in {faults, faults + 1} /\ faults' <= world.faults /\ faults' # 0
      BY <1>9, FaultBounds DEF HandleFails
    <2> QED
      BY <1>9, <2>1, GoneKeeps DEF HandleFails
  <1> QED
    BY <1>1, <1>2, <1>3, <1>4, <1>5, <1>6, <1>7, <1>8, <1>9 DEF TaskStep

(* Nothing of the invariant depends on more than the variables.            *)
LEMMA SetupStutters ==
    ASSUME SetupIInv, UNCHANGED setupVars
    PROVE  SetupIInv'
  <1>1. UNCHANGED <<world, att, winner, done, wire, inbox, task, last, key_confirmed, faults, dups>>
    BY DEF setupVars
  <1>2. SetupShape' /\ EndsExist' /\ Numbered' /\ UuidsOwned'
    BY <1>1 DEF SetupIInv, SetupShape, EndsExist, Numbered, UuidsOwned, Tasks, Siblings
  <1>3. RequestsTrue' /\ ForceTrue' /\ OneWinner' /\ HeardTrue'
    BY <1>1 DEF SetupIInv, RequestsTrue, ForceTrue, OneWinner, HeardTrue, Tasks, Sixes
  <1>4. Named' = Named /\ Tasks' = Tasks /\ \A a : Awaited(a)' = Awaited(a)
    BY <1>1 DEF Named, Tasks, Awaited
  <1>5. \A x : /\ Handled(x)' = Handled(x) /\ Underway(x)' = Underway(x)
              /\ Remembered(x)' = Remembered(x)
    BY <1>1, <1>4 DEF Handled, Underway, Remembered
  <1>6. NamedInTime'
    BY <1>1, <1>4 DEF SetupIInv, NamedInTime
  <1>7. AnswersCome'
    BY <1>1, <1>4, <1>5 DEF SetupIInv, AnswersCome
  <1> QED
    BY <1>2, <1>3, <1>6, <1>7 DEF SetupIInv

LEMMA NextSetupIInv == SetupIInv /\ [SetupNext]_setupVars => SetupIInv'
  <1> SUFFICES ASSUME SetupIInv, [SetupNext]_setupVars
               PROVE  SetupIInv'
    OBVIOUS
  <1>1. ASSUME NEW a \in Attempt, ClientStep(a) \/ ConnectFails(a)
        PROVE  SetupIInv'
    BY <1>1, ClientKeeps
  <1>2. ASSUME NEW m \in wire, Receive(m) \/ Lose(m)
        PROVE  SetupIInv'
    BY <1>2, ReceiveKeeps, LoseKeeps
  <1>3. ASSUME NEW t \in Tasks, TaskStep(t) \/ HandleFails(t)
        PROVE  SetupIInv'
    BY <1>3, TaskKeeps
  <1>4. CASE Age
    BY <1>4, AgeKeeps
  <1>5. CASE UNCHANGED setupVars
    BY <1>5, SetupStutters
  <1> QED
    BY <1>1, <1>2, <1>3, <1>4, <1>5 DEF SetupNext

LEMMA SetupIInvTypes == SetupIInv => SetupTypeOK
  <1> SUFFICES ASSUME SetupIInv PROVE SetupTypeOK
    OBVIOUS
  <1>1. SetupShape /\ EndsExist
    BY DEF SetupIInv
  <1>2. ASSUME NEW a \in Attempt
        PROVE  /\ att[a].pc \in {"new", "punch", "direct", "ask", "join", "secure", "ok", "err"}
               /\ att[a].try \in 0..Tries /\ att[a].to \subseteq Tasks
               /\ att[a].uuid \in TaskId /\ att[a].peer \in End
    <2>1. att[a] \in AttemptState
      BY <1>1 DEF SetupShape
    <2>2. att[a].peer \in End
      BY <1>1 DEF EndsExist, End
    <2> QED
      BY <1>1, <2>1, <2>2 DEF AttemptState, EndsExist
  <1>3. ASSUME NEW t \in Tasks
        PROVE  /\ t \in TaskId
               /\ task[t].kind \in {"punch", "local", "relay", "v6", "none"}
               /\ task[t].pc \in {"write", "handle", "listen", "dial", "hello", "up", "gone"}
               /\ task[t].uuid \in TaskId /\ task[t].peer \in End
    <2>1. task[t] \in TaskState /\ t \in TaskId
      BY <1>1 DEF SetupShape
    <2>2. task[t].peer \in End
      BY <1>1 DEF EndsExist, End
    <2> QED
      BY <2>1, <2>2 DEF TaskState, Kind
  <1> QED
    BY <1>1, <1>2, <1>3 DEF SetupTypeOK, SetupShape

LEMMA SetupIInvAgrees == SetupIInv => HandshakeAgrees
  <1> SUFFICES ASSUME SetupIInv, winner # 0
               PROVE  /\ (att[winner].said = "key") = (world.pk = "good")
                      /\ \A t \in Tasks : Serves(t, winner) =>
                           /\ task[t].key = (att[winner].said = "key")
                           /\ world.pk = "stale" => ~key_confirmed
    BY DEF HandshakeAgrees
  <1>1. winner \in Attempt /\ att[winner].pc = "ok" /\ att[winner].said = Answer(world.pk)
    BY DEF SetupIInv, SetupShape, OneWinner
  <1>2. (att[winner].said = "key") = (world.pk = "good")
    BY <1>1 DEF Answer
  <1>3. ASSUME NEW t \in Tasks, Serves(t, winner)
        PROVE  /\ task[t].key = (att[winner].said = "key")
               /\ world.pk = "stale" => ~key_confirmed
    <2>0. /\ task[t].pc = "up" /\ task[t].peer = Client(winner) /\ att[winner].peer = Device(t)
          /\ task[t].key \in BOOLEAN
      BY <1>3 DEF Serves, SetupIInv, SetupShape, TaskState
    <2>1. CASE task[t].secure
      BY <1>1, <2>0, <2>1 DEF SetupIInv, HeardTrue
    <2>2. CASE ~task[t].secure
      <3>1. world.pk = "none" /\ ~task[t].key
        BY <2>0, <2>2 DEF SetupIInv, RequestsTrue, HeardTrue
      <3> QED
        BY <1>2, <3>1, <2>0
    <2> QED
      BY <2>1, <2>2
  <1> QED
    BY <1>2, <1>3

LEMMA SetupIInvForces == SetupIInv => ForceRelayHonoured
  <1> SUFFICES ASSUME SetupIInv, world.force, winner # 0, att[winner].direct
               PROVE  world.lan /\ world.v6 /\ att[winner].peer.t[3]
    BY DEF ForceRelayHonoured
  <1>1. winner \in Attempt
    BY DEF SetupIInv, SetupShape
  <1>2. PICK t \in Tasks : att[winner].peer = Device(t) /\ Sixes({t})
    BY <1>1 DEF SetupIInv, ForceTrue
  <1>3. att[winner].peer.t = t
    BY <1>2, Ends
  <1> QED
    BY <1>2, <1>3 DEF Sixes

(* Of the connection that start returns, both ends have the key or neither *)
(* has, and a forced relay is one but for IPv6 in one network, however the *)
(* datagrams of hbbs are lost, doubled and delayed, whatever fails, for    *)
(* any number of attempts and of repetitions (secure_connection against    *)
(* create_tcp_connection, is_force_relay).                                 *)
THEOREM SetupInvariant == SetupSpec => []SetupInv
  <1>1. SetupIInv => SetupInv
    BY SetupIInvTypes, SetupIInvAgrees, SetupIInvForces DEF SetupInv
  <1> QED
    BY <1>1, InitSetupIInv, NextSetupIInv, PTL DEF SetupSpec

(* The filters for duplicate requests, read under one lock and written     *)
(* under another by as many tasks as there are datagrams, leave a copy of  *)
(* every request: no attempt repeats itself unless something was lost, has *)
(* failed or was slow (LAST_MSG and LAST_RELAY_MSG in handle_resp).        *)
THEOREM RetriesFollowFaults == SetupSpec => []RetriesOnlyAfterFaults
  <1>1. SetupIInv => RetriesOnlyAfterFaults
    BY DEF SetupIInv, AnswersCome, RetriesOnlyAfterFaults
  <1> QED
    BY <1>1, InitSetupIInv, NextSetupIInv, PTL DEF SetupSpec

-----------------------------------------------------------------------------
(* The file transfer: TransferIInv is inductive.  First the operators.     *)

LEMMA Files ==
    /\ Len(Size) \in Nat /\ Beyond \in Nat \ {0} /\ Beyond \notin File /\ Beyond \in 1..Beyond
    /\ \A f \in File : f \in Nat /\ f \in 1..Beyond /\ f < Beyond /\ f + 1 \in 1..Beyond /\ f # 0
    /\ \A f \in 1..Beyond : f \in Nat /\ (f \in File <=> f # Beyond)
    /\ \A f \in File : Size[f] \in Nat
  BY TransferAssumption DEF File, Beyond

(* What is written is never taken for the file of the user, or for none.   *)
LEMMA Contents ==
    ASSUME NEW f \in File, NEW c \in Content(f)
    PROVE  /\ c # None /\ c # Mine
           /\ c \in Seq((1..MaxVersion) \X (1..Size[f]))
           /\ Len(c) \in Nat /\ Len(c) <= Size[f]
  <1>1. PICK n \in 0..Size[f] : c \in [1..n -> (1..MaxVersion) \X (1..Size[f])]
    BY DEF Content
  <1>2. n \in Nat /\ n <= Size[f]
    BY Files
  <1>3. c \in Seq((1..MaxVersion) \X (1..Size[f])) /\ Len(c) = n
    BY <1>1, <1>2
  <1>4. ASSUME NEW x \in {<<0, 0>>, <<0, 1>>}, c = <<x>> PROVE FALSE
    <2>1. Len(c) = 1 /\ c[1] = x
      BY <1>4
    <2>2. c[1] \in (1..MaxVersion) \X (1..Size[f])
      BY <2>1, <1>1, <1>3
    <2>3. x[1] = 0
      OBVIOUS
    <2> QED
      BY <2>1, <2>2, <2>3
  <1> QED
    BY <1>2, <1>3, <1>4 DEF None, Mine

LEMMA NewContents ==
    ASSUME NEW f \in File, NEW c \in Seq((1..MaxVersion) \X (1..Size[f])), Len(c) <= Size[f]
    PROVE  c \in Content(f)
  <1>1. Len(c) \in 0..Size[f] /\ c \in [1..Len(c) -> (1..MaxVersion) \X (1..Size[f])]
    BY Files
  <1> QED
    BY <1>1 DEF Content

LEMMA NoJobFields ==
    /\ NoJob \in WriteJob /\ NoJob.id = 0 /\ ~NoJob.stream /\ ~NoJob.files /\ NoJob.file_num = 1
    /\ Unasked \in [File -> {"no", "yes", "lost"}]
  <1>1. 0 \in 0..MaxVersion /\ 1 \in 1..Beyond /\ 0 \in Nat
    BY Files, TransferAssumption
  <1> QED
    BY <1>1 DEF NoJob, WriteJob, Unasked

(* What is due to the write job after a message was taken from the stream, *)
(* or was put into it.                                                     *)
LEMMA DueIndex == TransferIInv => \A i \in Due : /\ i \in 1..Len(down) /\ i \in Nat /\ i >= 1
                                                 /\ down[i] \in ToClient /\ down[i].id = write.id
                                                 /\ down[i].type # "error"
  <1>1. TransferIInv => down \in Seq(ToClient)
    BY DEF TransferIInv, TransferShape
  <1> QED
    BY <1>1 DEF Due

LEMMA TailDue ==
    ASSUME TransferIInv, down # <<>>, down' = Tail(down), write'.id = write.id,
           ~(Head(down).id = write.id /\ Head(down).type = "error")
    PROVE  /\ \A i \in Due : i # 1 => i - 1 \in Due' /\ down'[i - 1] = down[i]
           /\ \A i \in Due' : i + 1 \in Due /\ down'[i] = down[i + 1]
           /\ Broken' = Broken
           /\ Head(down) = down[1] /\ Head(down) \in ToClient
           /\ Head(down).id = write.id => 1 \in Due
           /\ Head(down).id # write.id => 1 \notin Due
  <1>1. down \in Seq(ToClient) /\ Len(down) \in Nat /\ Len(down) # 0
    BY DEF TransferIInv, TransferShape
  <1>2. /\ Len(down') = Len(down) - 1 /\ Head(down) = down[1] /\ Head(down) \in ToClient
        /\ \A i \in 1..Len(down) - 1 : down'[i] = down[i + 1]
    BY <1>1
  <1>3. ASSUME NEW i \in Due, i # 1
        PROVE  i - 1 \in Due' /\ down'[i - 1] = down[i]
    <2>1. i - 1 \in 1..Len(down) - 1 /\ (i - 1) + 1 = i /\ i \in 1..Len(down)
      BY <1>1, <1>3 DEF Due
    <2>2. down'[i - 1] = down[i]
      BY <1>2, <2>1
    <2>3. ASSUME NEW k \in 1..i - 1
          PROVE  down'[k] = down[k + 1] /\ k + 1 \in 1..i
      BY <1>2, <2>1
    <2> QED
      BY <1>2, <1>3, <2>1, <2>2, <2>3 DEF Due
  <1>4. ASSUME NEW i \in Due'
        PROVE  i + 1 \in Due /\ down'[i] = down[i + 1]
    <2>1. i \in 1..Len(down) - 1 /\ i + 1 \in 1..Len(down)
      BY <1>1, <1>2 DEF Due
    <2>2. down'[i] = down[i + 1]
      BY <1>2, <2>1
    <2>3. ASSUME NEW k \in 1..i + 1, down[k].id = write.id
          PROVE  down[k].type # "error"
      <3>1. CASE k = 1
        BY <1>2, <2>3, <3>1
      <3>2. CASE k # 1
        <4>1. k - 1 \in 1..i /\ k - 1 \in 1..Len(down) - 1 /\ (k - 1) + 1 = k
          BY <2>1, <3>2, <1>1
        <4>2. down'[k - 1] = down[k]
          BY <1>2, <4>1
        <4> QED
          BY <2>3, <4>1, <4>2 DEF Due
      <3> QED
        BY <3>1, <3>2
    <2> QED
      BY <2>1, <2>2, <2>3 DEF Due
  <1>5. Broken' = Broken
    <2>1. ASSUME NEW i \in 1..Len(down'), down'[i].id = write.id, down'[i].type = "error"
          PROVE  Broken
      BY <1>1, <1>2, <2>1 DEF Broken
    <2>2. ASSUME NEW i \in 1..Len(down), down[i].id = write.id, down[i].type = "error"
          PROVE  Broken'
      <3>1. i - 1 \in 1..Len(down) - 1 /\ (i - 1) + 1 = i
        BY <1>1, <1>2, <2>2
      <3>2. down'[i - 1] = down[i] /\ i - 1 \in 1..Len(down')
        BY <1>2, <3>1
      <3> QED
        BY <2>2, <3>2 DEF Broken
    <2> QED
      BY <2>1, <2>2 DEF Broken
  <1>6. (Head(down).id = write.id => 1 \in Due) /\ (Head(down).id # write.id => 1 \notin Due)
    BY <1>1, <1>2 DEF Due
  <1> QED
    BY <1>2, <1>3, <1>4, <1>5, <1>6

LEMMA AppendDue ==
    ASSUME TransferIInv, NEW m, down' = Append(down, m), write'.id = write.id
    PROVE  /\ \A i \in Due : i \in Due' /\ down'[i] = down[i]
           /\ \A i \in Due' : \/ i \in Due
                              \/ i = Len(down) + 1 /\ m.id = write.id /\ m.type # "error"
           /\ Broken' = (Broken \/ (m.id = write.id /\ m.type = "error"))
           /\ m.id = write.id /\ m.type # "error" /\ ~Broken => Len(down) + 1 \in Due'
           /\ down'[Len(down) + 1] = m
  <1>1. down \in Seq(ToClient) /\ Len(down) \in Nat
    BY DEF TransferIInv, TransferShape
  <1>2. /\ Len(down') = Len(down) + 1 /\ down'[Len(down) + 1] = m
        /\ \A i \in 1..Len(down) : down'[i] = down[i]
    BY <1>1
  <1>3. ASSUME NEW i \in Due
        PROVE  i \in Due' /\ down'[i] = down[i]
    <2>1. i \in 1..Len(down) /\ i \in 1..Len(down') /\ \A k \in 1..i : k \in 1..Len(down)
      BY <1>1, <1>2 DEF Due
    <2> QED
      BY <1>2, <2>1 DEF Due
  <1>4. ASSUME NEW i \in Due'
        PROVE  i \in Due \/ (i = Len(down) + 1 /\ m.id = write.id /\ m.type # "error")
    <2>1. i \in 1..Len(down) \/ i = Len(down) + 1
      BY <1>1, <1>2 DEF Due
    <2>2. CASE i \in 1..Len(down)
      <3>1. \A k \in 1..i : k \in 1..Len(down)
        BY <1>1, <2>2
      <3> QED
        BY <1>2, <2>2, <3>1 DEF Due
    <2>3. CASE i = Len(down) + 1
      BY <1>1, <1>2, <2>3 DEF Due
    <2> QED
      BY <2>1, <2>2, <2>3
  <1>5. Broken' = (Broken \/ (m.id = write.id /\ m.type = "error"))
    <2>1. 1..Len(down') = 1..Len(down) \cup {Len(down) + 1} /\ Len(down) + 1 \notin 1..Len(down)
      BY <1>1, <1>2
    <2> QED
      BY <1>2, <2>1 DEF Broken
  <1>6. m.id = write.id /\ m.type # "error" /\ ~Broken => Len(down) + 1 \in Due'
    BY <1>1, <1>2 DEF Due, Broken
  <1> QED
    BY <1>2, <1>3, <1>4, <1>5, <1>6

(* Without a job nothing is due.                                           *)
LEMMA NobodyDue ==
    ASSUME IdsKnown', write' = NoJob, ask' = {}
    PROVE  PipeInOrder' /\ StreamTrue'
  <1>1. write'.id = 0 /\ ~write'.stream
    BY NoJobFields
  <1>2. Due' = {} /\ Answers' = {} /\ Readers' = {}
    BY <1>1 DEF IdsKnown, Due, Answers, Readers
  <1> QED
    BY <1>1, <1>2 DEF PipeInOrder, StreamTrue

(* Nothing of the write job is concerned: what is due is due, d places     *)
(* nearer, and what is under way to the connection and there is the same.  *)
Unconcerned(d) ==
    /\ UNCHANGED <<write, ask, agreed, holed, digest, part>>
    /\ \A i \in Due : i - d \in Due' /\ down'[i - d] = down[i]
    /\ \A i \in Due' : i + d \in Due /\ down'[i] = down[i + d]
    /\ Broken' = Broken
    /\ \/ Answers = {} /\ Answers' = {}
       \/ \E a, b : Answers = {a} /\ Answers' = {b} /\ up'[b] = up[a]
    /\ \/ Readers = {} /\ Readers' = {}
       \/ \E r, q : Readers = {r} /\ Readers' = {q} /\ reads'[q] = reads[r]
    /\ \A r \in Readers : reads[r].stream =>
          source'[reads[r].file_num] = source[reads[r].file_num]

LEMMA UnconcernedKeeps ==
    ASSUME TransferIInv, NEW d \in {0, 1}, Unconcerned(d), Due' \subseteq Nat
    PROVE  PipeInOrder' /\ StreamTrue'
  <1>d. /\ \A i \in Due : i \in Nat /\ i - d \in Due' /\ down'[i - d] = down[i]
        /\ \A i \in Due' : i \in Nat /\ i + d \in Due /\ down'[i] = down[i + d]
        /\ Broken' = Broken
    BY DueIndex DEF Unconcerned
  <1>u. UNCHANGED <<write, ask, agreed, holed, digest, part>>
    BY DEF Unconcerned
  <1>a. /\ Answers = {} <=> Answers' = {}
        /\ \A b \in Answers' : \E a \in Answers : up'[b] = up[a] /\ Answers' = {b}
        /\ \A a \in Answers : \E b \in Answers' : up'[b] = up[a]
    BY DEF Unconcerned
  <1>r. /\ Readers = {} <=> Readers' = {}
        /\ \A q \in Readers' : \E r \in Readers : reads'[q] = reads[r] /\ Readers' = {q}
        /\ \A r \in Readers : \E q \in Readers' : reads'[q] = reads[r]
    BY DEF Unconcerned
  <1>s. \A r \in Readers : reads[r].stream =>
          source'[reads[r].file_num] = source[reads[r].file_num]
    BY DEF Unconcerned
  <1>e. /\ \A f : Expected(f)' = Expected(f) /\ Exact(f)' = Exact(f) /\ Current(f)' = Current(f)
        /\ Due = {} <=> Due' = {}
    BY <1>u, <1>d DEF Expected, Exact, Current
  <1>n. /\ \A n : Upcoming(n) => Upcoming(n)'
        /\ FilesKnown => FilesKnown'
    <2>1. ASSUME NEW n, Upcoming(n) PROVE Upcoming(n)'
      <3>1. \A k \in Due' : down'[k].type = "block" => down'[k].file < n
        BY <1>d, <2>1 DEF Upcoming
      <3>2. (\A k \in Due' : down'[k].type # "block") => \A k \in Due : down[k].type # "block"
        BY <1>d
      <3> QED
        BY <1>u, <2>1, <3>1, <3>2 DEF Upcoming
    <2>2. FilesKnown => FilesKnown'
      BY <1>u, <1>d DEF FilesKnown
    <2> QED
      BY <2>1, <2>2
  <1>c. ASSUME NEW f, Comes(f) PROVE Comes(f)'
    <2>1. ASSUME NEW r \in Readers, reads[r].file_num = f,
                 Sends(reads[r]) \/ \E i \in Answers : up[i].type = "offset"
          PROVE  \E q \in Readers' :
                   /\ reads'[q].file_num = f
                   /\ Sends(reads[q])' \/ \E i \in Answers' : up'[i].type = "offset"
      BY <2>1, <1>r, <1>a DEF Sends
    <2>2. (\A k \in Due : down[k].type = "block" /\ down[k].file = f) =>
             \A k \in Due' : down'[k].type = "block" /\ down'[k].file = f
      BY <1>d
    <2>3. Goes(f) => Goes(f)'
      BY <2>1, <2>2, <1>d DEF Goes
    <2> QED
      BY <1>c, <2>3, <1>d DEF Comes
  <1>1. ASSUME NEW i \in Due' PROVE BlockInOrder(i)'
    <2> SUFFICES ASSUME down'[i].type = "block" PROVE BlockInOrder(i)'
      BY DEF BlockInOrder
    <2>0. i + d \in Due /\ down'[i] = down[i + d] /\ i \in Nat /\ BlockInOrder(i + d)
      BY <1>d DEF TransferIInv, PipeInOrder
    <2>1. /\ Current(down[i].file)' /\ down'[i].version = write'.digest
          /\ Expected(down[i].file)' <= down'[i].number /\ Comes(down[i].file)'
      BY <2>0, <1>e, <1>u, <1>c DEF BlockInOrder
    <2>2. ASSUME Exact(down[i].file)'
          PROVE  \/ down'[i].number = Expected(down[i].file)'
                 \/ \E k \in Due' : /\ k < i /\ down'[k].type = "block"
                                    /\ down'[k].number = down'[i].number - 1
      <3>1. \/ down'[i].number = Expected(down[i].file)'
            \/ \E k \in Due : /\ k < i + d /\ down[k].type = "block"
                              /\ down[k].number = down'[i].number - 1
        BY <2>0, <2>2, <1>e DEF BlockInOrder
      <3> QED
        BY <3>1, <2>0, <1>d
    <2>3. ASSUME NEW k \in Due', k > i, down'[k].type = "block"
          PROVE  down'[k].file = down'[i].file /\ down'[i].number < down'[k].number
      <3>1. k + d \in Due /\ k \in Nat /\ down'[k] = down[k + d]
        BY <1>d
      <3>2. k + d > i + d
        BY <3>1, <2>0, <2>3
      <3> QED
        BY <3>1, <3>2, <2>0, <2>3 DEF BlockInOrder
    <2> QED
      BY <2>1, <2>2, <2>3 DEF BlockInOrder
  <1>2. ASSUME NEW i \in Due' PROVE OtherInOrder(i)'
    <2>0. i + d \in Due /\ down'[i] = down[i + d] /\ i \in Nat /\ OtherInOrder(i + d)
      BY <1>d DEF TransferIInv, PipeInOrder
    <2>1. ASSUME down'[i].type = "dir"
          PROVE  /\ ~write'.files /\ ~write'.stream
                 /\ \A k \in Due' : i <= k /\ down'[k].type # "block"
      <3>1. /\ ~write.files /\ ~write.stream
            /\ \A k \in Due : i + d <= k /\ down[k].type # "block"
        BY <2>0, <2>1 DEF OtherInOrder
      <3>2. \A k \in Due' : i + d <= k + d /\ down'[k].type # "block" /\ k \in Nat
        BY <1>d, <3>1
      <3> QED
        BY <1>u, <2>0, <3>1, <3>2
    <2>2. ASSUME down'[i].type \in {"digest", "done"}
          PROVE  /\ FilesKnown' /\ Answers' = {} /\ ask' = {}
                 /\ \A k \in Due' : k <= i
      <3>1. /\ FilesKnown /\ Answers = {} /\ ask = {}
            /\ \A k \in Due : k <= i + d
        BY <2>0, <2>2 DEF OtherInOrder
      <3>2. \A k \in Due' : k + d <= i + d /\ k \in Nat
        BY <1>d, <3>1
      <3> QED
        BY <1>u, <1>a, <1>n, <2>0, <3>1, <3>2
    <2>3. ASSUME down'[i].type = "digest"
          PROVE  /\ ~Broken' /\ Upcoming(down[i].file)'
                 /\ down'[i].version = source'[down'[i].file]
                 /\ \E r \in Readers' : Waits(reads[r])' /\ reads'[r].file_num = down'[i].file
      <3>1. /\ ~Broken /\ Upcoming(down'[i].file)
            /\ down'[i].version = source[down'[i].file]
            /\ \E r \in Readers : Waits(reads[r]) /\ reads[r].file_num = down'[i].file
        BY <2>0, <2>3 DEF OtherInOrder
      <3> QED
        BY <1>d, <1>n, <1>r, <1>s, <3>1 DEF Waits
    <2>4. ASSUME down'[i].type = "done"
          PROVE  Upcoming(Beyond)' /\ Readers' = {}
      <3>1. Upcoming(Beyond) /\ Readers = {}
        BY <2>0, <2>4 DEF OtherInOrder
      <3> QED
        BY <3>1, <1>n, <1>r DEF Beyond
    <2> QED
      BY <2>1, <2>2, <2>3, <2>4 DEF OtherInOrder
  <1>3. ASSUME NEW b \in Answers' PROVE AnswerInOrder(b)'
    <2>1. PICK a \in Answers : up'[b] = up[a] /\ Answers' = {b}
      BY <1>a
    <2>2. AnswerInOrder(a)
      BY DEF TransferIInv, PipeInOrder
    <2>3. up[a].type = "send" => Readers' = {}
      BY <2>2, <1>r DEF AnswerInOrder
    <2>4. up[a].type \in {"skip", "offset"} =>
             /\ \E q \in Readers' : Waits(reads[q])' /\ reads'[q].file_num = up[a].file
             /\ source'[up[a].file] = source[up[a].file]
      BY <2>2, <1>r, <1>s DEF AnswerInOrder, Waits
    <2> QED
      BY <2>1, <2>2, <2>3, <2>4, <1>d, <1>u, <1>e, <1>n DEF AnswerInOrder
  <1>4. ASSUME NEW f \in ask' PROVE AskedInOrder(f)'
    <2>1. AskedInOrder(f)
      BY <1>u DEF TransferIInv, PipeInOrder
    <2>2. /\ \E q \in Readers' : Waits(reads[q])' /\ reads'[q].file_num = f
          /\ source'[f] = source[f]
      BY <2>1, <1>r, <1>s DEF AskedInOrder, Waits
    <2> QED
      BY <2>1, <2>2, <1>a, <1>d, <1>u, <1>e, <1>n DEF AskedInOrder
  <1>5. ASSUME NEW q \in Readers' PROVE ReaderInOrder(q)'
    <2>1. PICK r \in Readers : reads'[q] = reads[r] /\ Readers' = {q}
      BY <1>r
    <2>2. ReaderInOrder(r)
      BY DEF TransferIInv, PipeInOrder
    <2>3. ASSUME Idle(reads[r]), FilesKnown, Upcoming(reads[r].file_num), Answers = {}, ask = {},
                 \A k \in Due : down[k].type # "digest"
          PROVE  /\ Idle(reads[q])' /\ FilesKnown' /\ Upcoming(reads[q].file_num)'
                 /\ Answers' = {} /\ ask' = {} /\ \A k \in Due' : down'[k].type # "digest"
      BY <2>1, <2>3, <1>a, <1>d, <1>u, <1>n DEF Idle
    <2>4. ASSUME Waits(reads[r]),
                 Answers # {} \/ ask # {} \/ \E k \in Due : down[k].type = "digest"
          PROVE  /\ Waits(reads[q])'
                 /\ Answers' # {} \/ ask' # {} \/ \E k \in Due' : down'[k].type = "digest"
      BY <2>1, <2>4, <1>a, <1>d, <1>u DEF Waits
    <2>5. ASSUME Sends(reads[r]), Current(reads[r].file_num), Answers = {}, ask = {},
                 source[reads[r].file_num] = write.digest,
                 \A k \in Due : /\ down[k].type = "block"
                                /\ down[k].file = reads[r].file_num
                                /\ down[k].number <= reads[r].pos,
                 Expected(reads[r].file_num) <= reads[r].pos + 1,
                 Exact(reads[r].file_num) =>
                    \/ reads[r].pos + 1 = Expected(reads[r].file_num)
                    \/ \E k \in Due : down[k].number = reads[r].pos
          PROVE  /\ Sends(reads[q])' /\ Current(reads[q].file_num)' /\ Answers' = {} /\ ask' = {}
                 /\ source'[reads'[q].file_num] = write'.digest
                 /\ \A k \in Due' : /\ down'[k].type = "block"
                                    /\ down'[k].file = reads'[q].file_num
                                    /\ down'[k].number <= reads'[q].pos
                 /\ Expected(reads[q].file_num)' <= reads'[q].pos + 1
                 /\ Exact(reads[q].file_num)' =>
                       \/ reads'[q].pos + 1 = Expected(reads[q].file_num)'
                       \/ \E k \in Due' : down'[k].number = reads'[q].pos
      <3>1. source'[reads[r].file_num] = source[reads[r].file_num]
        BY <2>5, <1>s DEF Sends
      <3>2. Sends(reads[q])'
        BY <2>1, <2>5 DEF Sends
      <3> QED
        BY <2>1, <2>5, <3>1, <3>2, <1>a, <1>d, <1>e, <1>u
    <2> QED
      BY <2>1, <2>2, <2>3, <2>4, <2>5, <1>d DEF ReaderInOrder
  <1>6. StreamTrue'
    BY <1>u, <1>c DEF TransferIInv, StreamTrue
  <1> QED
    BY <1>1, <1>2, <1>3, <1>4, <1>5, <1>6 DEF PipeInOrder

LEMMA AppendSeq ==
    ASSUME NEW S, NEW s \in Seq(S), NEW m \in S
    PROVE  /\ Append(s, m) \in Seq(S) /\ Len(Append(s, m)) = Len(s) + 1 /\ Len(s) \in Nat
           /\ \A i \in 1..Len(s) : Append(s, m)[i] = s[i] /\ s[i] \in S
           /\ Append(s, m)[Len(s) + 1] = m
           /\ 1..Len(s) + 1 = 1..Len(s) \cup {Len(s) + 1}
  OBVIOUS

LEMMA TailSeq ==
    ASSUME NEW S, NEW s \in Seq(S), s # <<>>
    PROVE  /\ Tail(s) \in Seq(S) /\ Len(Tail(s)) = Len(s) - 1 /\ Len(s) \in Nat \ {0}
           /\ \A i \in 1..Len(s) - 1 : Tail(s)[i] = s[i + 1] /\ i + 1 \in 1..Len(s)
           /\ Head(s) = s[1] /\ s[1] \in S /\ 1 \in 1..Len(s)
  OBVIOUS

(* The files of the receiver stay as they are.                             *)
DiskTyped ==
    /\ \A f \in File : /\ path[f] \in Content(f) \cup {None, Mine}
                       /\ part[f] \in Content(f) \cup {None}
    /\ DOMAIN path = File /\ DOMAIN part = File
    /\ digest \in [File -> 0..MaxVersion] /\ holed \subseteq File

LEMMA DiskStays ==
    ASSUME TransferIInv, UNCHANGED <<disk, holed>>
    PROVE  DiskTyped' /\ PartsTrue'
  <1>1. UNCHANGED <<path, part, digest, holed>>
    BY DEF disk
  <1>2. DiskTyped'
    BY <1>1 DEF TransferIInv, TransferShape, DiskTyped
  <1> QED
    BY <1>1, <1>2 DEF TransferIInv, PartsTrue

(* A message to the connection that does not concern the write job.        *)
LEMMA OtherUp ==
    ASSUME TransferIInv, NEW m \in ToServer, m.id # write.id, up' = Append(up, m),
           UNCHANGED write
    PROVE  Answers' = Answers /\ \A i \in Answers : up'[i] = up[i]
  <1>1. up \in Seq(ToServer)
    BY DEF TransferIInv, TransferShape
  <1> QED
    BY <1>1, AppendSeq DEF Answers

(* The steps of the user.                                                  *)
LEMMA NewJobKeeps ==
    ASSUME TransferIInv, NEW file_num \in 1..Beyond, NEW resume \in BOOLEAN,
           NewJob(file_num, resume)
    PROVE  TransferIInv'
  <1> DEFINE m == [type |-> "send", id |-> lastId + 1, file |-> file_num]
             w == [NoJob EXCEPT !.id = lastId + 1, !.file_num = file_num, !.resume = resume]
  <1>1. /\ write.id = 0 /\ lastId' = lastId + 1 /\ write' = w /\ up' = Append(up, m) /\ saved' = 0
        /\ UNCHANGED <<disk, source, reads, down, ask, failed, errors, losses, holed, agreed>>
    BY DEF NewJob
  <1>2. /\ TransferShape /\ lastId \in Nat /\ up \in Seq(ToServer) /\ lastId + 1 \in Nat
        /\ down \in Seq(ToClient) /\ reads \in Seq(Reader)
    BY DEF TransferIInv, TransferShape
  <1>3. m \in ToServer /\ m.id = lastId + 1 /\ m.type = "send" /\ m.file = file_num
    BY <1>2 DEF ToServer
  <1>4. /\ w \in WriteJob /\ w.id = lastId + 1 /\ w.file_num = file_num /\ ~w.stream /\ ~w.files
    BY <1>2, NoJobFields DEF WriteJob, NoJob
  <1> HIDE DEF m, w
  <1>5. /\ up' \in Seq(ToServer) /\ Len(up') = Len(up) + 1 /\ Len(up) \in Nat
        /\ \A i \in 1..Len(up) : up'[i] = up[i]
        /\ up'[Len(up) + 1] = m /\ 1..Len(up') = 1..Len(up) \cup {Len(up) + 1}
    BY <1>1, <1>2, <1>3, AppendSeq
  <1>6. DiskTyped' /\ PartsTrue'
    BY <1>1, DiskStays
  <1>7. TransferShape'
    BY <1>1, <1>2, <1>4, <1>5, <1>6, Files DEF TransferShape, DiskTyped
  <1>8. InBounds'
    BY <1>1, <1>3, <1>5 DEF TransferIInv, InBounds
  <1>9. IdsKnown'
    <2>1. \A x \in 1..lastId : x \in 1..lastId + 1 /\ x # lastId + 1
      BY <1>2
    <2>2. lastId + 1 \in 1..lastId + 1 /\ lastId + 1 # 0 /\ lastId + 1 \in 0..lastId + 1
      BY <1>2
    <2> QED
      BY <1>1, <1>3, <1>4, <1>5, <2>1, <2>2 DEF TransferIInv, IdsKnown
  <1>10. Due' = {} /\ Readers' = {} /\ ~Broken' /\ Answers' = {Len(up) + 1}
    <2>1. \A x \in 1..lastId : x # lastId + 1
      BY <1>2
    <2> QED
      BY <1>1, <1>3, <1>4, <1>5, <2>1 DEF TransferIInv, IdsKnown, Due, Readers, Broken, Answers
  <1>11. ask' = {}
    BY <1>1 DEF TransferIInv, IdsKnown
  <1>12. ASSUME NEW n \in Answers' PROVE AnswerInOrder(n)'
    <2>1. n = Len(up) + 1 /\ up'[n] = m
      BY <1>5, <1>10
    <2>2. Answers' = {n}
      BY <2>1, <1>10
    <2> QED
      BY <1>1, <1>3, <1>4, <2>1, <2>2, <1>10, <1>11 DEF AnswerInOrder
  <1>13. PipeInOrder' /\ StreamTrue'
    BY <1>1, <1>4, <1>5, <1>10, <1>11, <1>12 DEF PipeInOrder, StreamTrue
  <1> QED
    BY <1>6, <1>7, <1>8, <1>9, <1>13 DEF TransferIInv

LEMMA CancelJobKeeps == ASSUME TransferIInv, CancelJob PROVE TransferIInv'
  <1> DEFINE m == [type |-> "cancel", id |-> write.id, file |-> 0]
             gone == write.files /\ write.file_num \in File
             g == write.file_num
  <1>1. /\ write.id # 0 /\ up' = Append(up, m) /\ write' = NoJob /\ agreed' = Unasked /\ ask' = {}
        /\ part' = IF gone THEN [part EXCEPT ![g] = None] ELSE part
        /\ digest' = IF gone THEN [digest EXCEPT ![g] = 0] ELSE digest
        /\ UNCHANGED <<path, env, reads, down, failed, holed>>
    BY DEF CancelJob
  <1>2. /\ TransferShape /\ up \in Seq(ToServer) /\ write \in WriteJob /\ write.id \in Nat
    BY DEF TransferIInv, TransferShape, WriteJob
  <1>3. m \in ToServer /\ m.id = write.id /\ m.type = "cancel"
    BY <1>2 DEF ToServer
  <1> HIDE DEF m
  <1>5. /\ up' \in Seq(ToServer) /\ Len(up') = Len(up) + 1 /\ Len(up) \in Nat
        /\ \A i \in 1..Len(up) : up'[i] = up[i]
        /\ up'[Len(up) + 1] = m /\ 1..Len(up') = 1..Len(up) \cup {Len(up) + 1}
    BY <1>1, <1>2, <1>3, AppendSeq
  <1>p. /\ DOMAIN part' = File
        /\ \A f \in File : \/ part'[f] = None
                           \/ part'[f] = part[f] /\ digest'[f] = digest[f]
        /\ digest' \in [File -> 0..MaxVersion]
    <2>1. 0 \in 0..MaxVersion
      BY TransferAssumption
    <2>2. CASE gone
      <3>1. /\ part' = [part EXCEPT ![g] = None] /\ digest' = [digest EXCEPT ![g] = 0]
            /\ g \in File
        BY <1>1, <2>2
      <3>2. DOMAIN part = File /\ digest \in [File -> 0..MaxVersion]
        BY <1>2 DEF TransferShape
      <3> HIDE DEF gone, g
      <3>3. DOMAIN part' = File /\ part'[g] = None
            /\ \A f \in File : f # g => part'[f] = part[f]
        BY <3>1, <3>2
      <3>4. digest' \in [File -> 0..MaxVersion] /\ \A f \in File : f # g => digest'[f] = digest[f]
        BY <2>1, <3>1, <3>2
      <3> QED
        BY <3>3, <3>4
    <2>3. CASE ~gone
      BY <1>1, <1>2, <2>3 DEF TransferShape
    <2> QED
      BY <2>2, <2>3
  <1>6. TransferShape'
    BY <1>1, <1>2, <1>5, <1>p, NoJobFields DEF TransferShape, env
  <1>7. PartsTrue'
    BY <1>1, <1>p DEF TransferIInv, PartsTrue
  <1>8. InBounds'
    BY <1>1, <1>3, <1>5 DEF TransferIInv, InBounds
  <1>9. IdsKnown'
    <2>1. write.id \in 1..lastId /\ 0 \in 0..lastId /\ 0 \notin 1..lastId
      BY <1>1, <1>2 DEF TransferIInv, IdsKnown, TransferShape
    <2> QED
      BY <1>1, <1>3, <1>5, <2>1, NoJobFields DEF TransferIInv, IdsKnown, env
  <1> QED
    BY <1>1, <1>6, <1>7, <1>8, <1>9, NobodyDue DEF TransferIInv

LEMMA ConnectionLostKeeps == ASSUME TransferIInv, ConnectionLost PROVE TransferIInv'
  <1>1. /\ write' = NoJob /\ agreed' = Unasked /\ reads' = <<>> /\ up' = <<>> /\ down' = <<>>
        /\ ask' = {} /\ failed' = {} /\ UNCHANGED <<disk, source, lastId, errors, holed>>
        /\ losses' = losses + 1
        /\ saved' = IF write.id # 0 THEN write.file_num ELSE saved
    BY DEF ConnectionLost
  <1>2. TransferShape /\ lastId \in Nat /\ write.file_num \in 1..Beyond
    BY DEF TransferIInv, TransferShape, WriteJob
  <1>3. DiskTyped' /\ PartsTrue'
    BY <1>1, DiskStays
  <1>4. saved' \in 0..Beyond /\ losses' \in Nat
    BY <1>1, <1>2, Files DEF TransferShape
  <1>5. TransferShape'
    BY <1>1, <1>2, <1>3, <1>4, NoJobFields DEF TransferShape, DiskTyped
  <1>6. InBounds'
    BY <1>1 DEF InBounds
  <1>7. IdsKnown'
    BY <1>1, <1>2, NoJobFields DEF IdsKnown
  <1> QED
    BY <1>1, <1>3, <1>5, <1>6, <1>7, NobodyDue DEF TransferIInv

LEMMA CancelFailedKeeps ==
    ASSUME TransferIInv, NEW job \in failed, CancelFailed(job)
    PROVE  TransferIInv'
  <1> DEFINE m == [type |-> "cancel", id |-> job, file |-> 0]
  <1>1. /\ up' = Append(up, m) /\ failed' = failed \ {job}
        /\ UNCHANGED <<disk, env, write, reads, down, ask, holed, agreed>>
    BY DEF CancelFailed
  <1>2. /\ TransferShape /\ up \in Seq(ToServer) /\ job \in 1..lastId /\ job \in Nat /\ job # write.id
    BY DEF TransferIInv, TransferShape, IdsKnown
  <1>3. m \in ToServer /\ m.id = job /\ m.type = "cancel"
    BY <1>2 DEF ToServer
  <1> HIDE DEF m
  <1>5. /\ up' \in Seq(ToServer) /\ Len(up') = Len(up) + 1 /\ Len(up) \in Nat
        /\ \A i \in 1..Len(up) : up'[i] = up[i]
        /\ up'[Len(up) + 1] = m /\ 1..Len(up') = 1..Len(up) \cup {Len(up) + 1}
    BY <1>1, <1>2, <1>3, AppendSeq
  <1>6. DiskTyped' /\ PartsTrue'
    BY <1>1, DiskStays
  <1>7. TransferShape'
    BY <1>1, <1>2, <1>5, <1>6 DEF TransferShape, DiskTyped, env
  <1>8. InBounds'
    BY <1>1, <1>3, <1>5 DEF TransferIInv, InBounds
  <1>9. IdsKnown'
    BY <1>1, <1>2, <1>3, <1>5 DEF TransferIInv, IdsKnown, env
  <1>10. Due' = Due /\ Broken' = Broken /\ Readers' = Readers
    BY <1>1 DEF Due, Broken, Readers
  <1>11. Answers' = Answers /\ \A i \in Answers : up'[i] = up[i]
    BY <1>1, <1>2, <1>3, OtherUp
  <1>12. Unconcerned(0)
    <2>1. \A i \in Due : i - 0 = i /\ i + 0 = i
      BY DueIndex
    <2>2. /\ Answers = {} \/ \E a : Answers = {a} /\ a \in Answers
          /\ Readers = {} \/ \E r : Readers = {r} /\ r \in Readers
      BY DEF TransferIInv, PipeInOrder, AnswerInOrder, ReaderInOrder
    <2> QED
      BY <1>1, <1>10, <1>11, <2>1, <2>2 DEF Unconcerned, disk, env
  <1>13. PipeInOrder' /\ StreamTrue'
    BY <1>10, <1>12, UnconcernedKeeps, DueIndex
  <1> QED
    BY <1>6, <1>7, <1>8, <1>9, <1>13 DEF TransferIInv

LEMMA AtMostOne ==
    ASSUME TransferIInv
    PROVE  /\ Answers = {} \/ \E a : Answers = {a} /\ a \in Answers
           /\ Readers = {} \/ \E r : Readers = {r} /\ r \in Readers
  BY DEF TransferIInv, PipeInOrder, AnswerInOrder, ReaderInOrder

LEMMA EditKeeps == ASSUME TransferIInv, NEW f \in File, Edit(f) PROVE TransferIInv'
  <1>1. PICK v \in 1..MaxVersion : source' = [source EXCEPT ![f] = v]
    BY DEF Edit
  <1>2. /\ \A i \in 1..Len(reads) : ~(reads[i].stream /\ reads[i].file_num = f)
        /\ UNCHANGED <<disk, write, reads, up, down, ask, saved, failed, lastId, errors, losses,
                       holed, agreed>>
    BY DEF Edit
  <1>3. source \in [File -> 1..MaxVersion] /\ TransferShape
    BY DEF TransferIInv, TransferShape
  <1>4. source' \in [File -> 1..MaxVersion] /\ \A g \in File : g # f => source'[g] = source[g]
    BY <1>1, <1>3
  <1>5. DiskTyped' /\ PartsTrue'
    BY <1>2, DiskStays
  <1>6. TransferShape'
    BY <1>2, <1>3, <1>4, <1>5 DEF TransferShape, DiskTyped
  <1>7. InBounds' /\ IdsKnown'
    BY <1>2 DEF TransferIInv, InBounds, IdsKnown
  <1>8. /\ Due' = Due /\ Broken' = Broken /\ Readers' = Readers /\ Answers' = Answers
        /\ UNCHANGED <<part, digest>>
    BY <1>2 DEF Due, Broken, Readers, Answers, disk
  <1>9. \A r \in Readers : reads[r].stream => source'[reads[r].file_num] = source[reads[r].file_num]
    BY <1>2, <1>4 DEF TransferIInv, InBounds, Readers
  <1>10. Unconcerned(0)
    <2>1. \A i \in Due : i - 0 = i /\ i + 0 = i
      BY DueIndex
    <2> QED
      BY <1>2, <1>8, <1>9, <2>1, AtMostOne DEF Unconcerned
  <1>11. PipeInOrder' /\ StreamTrue'
    BY <1>8, <1>10, UnconcernedKeeps, DueIndex
  <1> QED
    BY <1>5, <1>6, <1>7, <1>11 DEF TransferIInv

-----------------------------------------------------------------------------
(* The client takes a message.                                             *)
LEMMA Received ==
    ASSUME TransferIInv, down # <<>>, down' = Tail(down),
           UNCHANGED <<source, saved, lastId, losses, reads>>
    PROVE  /\ down' \in Seq(ToClient) /\ source' \in [File -> 1..MaxVersion]
           /\ saved' \in 0..Beyond /\ lastId' \in Nat /\ losses' \in Nat /\ reads' \in Seq(Reader)
           /\ \A i \in 1..Len(down') :
                /\ down'[i].id \in 1..lastId'
                /\ down'[i].type = "block" => down'[i].number \in 1..Size[down'[i].file] + 1
           /\ \A i \in 1..Len(reads') :
                /\ reads'[i].id \in 1..lastId'
                /\ reads'[i].stream \/ reads'[i].confirmed => reads'[i].file_num \in File
                /\ reads'[i].stream => reads'[i].pos <= Size[reads'[i].file_num]
           /\ Head(down) \in ToClient /\ Head(down).id \in 1..lastId /\ Head(down) = down[1]
           /\ Head(down).type = "block" => Head(down).number \in 1..Size[Head(down).file] + 1
           /\ Due' \subseteq Nat /\ Readers \subseteq 1..Len(reads)
  <1>1. /\ down \in Seq(ToClient) /\ source \in [File -> 1..MaxVersion]
        /\ saved \in 0..Beyond /\ lastId \in Nat /\ losses \in Nat /\ reads \in Seq(Reader)
    BY DEF TransferIInv, TransferShape
  <1>2. /\ down' \in Seq(ToClient) /\ Len(down') = Len(down) - 1
        /\ \A i \in 1..Len(down) - 1 : down'[i] = down[i + 1] /\ i + 1 \in 1..Len(down)
        /\ Head(down) = down[1] /\ down[1] \in ToClient /\ 1 \in 1..Len(down)
    BY <1>1, TailSeq
  <1>3. \A i \in 1..Len(down) :
           /\ down[i].id \in 1..lastId
           /\ down[i].type = "block" => down[i].number \in 1..Size[down[i].file] + 1
    BY DEF TransferIInv, InBounds, IdsKnown
  <1>4. \A i \in 1..Len(down') :
           /\ down'[i].id \in 1..lastId
           /\ down'[i].type = "block" => down'[i].number \in 1..Size[down'[i].file] + 1
    BY <1>2, <1>3
  <1>5. \A i \in 1..Len(reads') :
                /\ reads'[i].id \in 1..lastId'
                /\ reads'[i].stream \/ reads'[i].confirmed => reads'[i].file_num \in File
                /\ reads'[i].stream => reads'[i].pos <= Size[reads'[i].file_num]
    BY DEF TransferIInv, InBounds, IdsKnown
  <1>6. Due' \subseteq Nat /\ Readers \subseteq 1..Len(reads)
    BY <1>2 DEF Due, Readers
  <1> QED
    BY <1>1, <1>2, <1>3, <1>4, <1>5, <1>6

LEMMA OthersMessage ==
    ASSUME TransferIInv, down # <<>>, down' = Tail(down), Head(down).id # write.id,
           UNCHANGED <<disk, write, up, ask, holed, agreed, errors>>,
           UNCHANGED <<source, saved, lastId, losses, reads>>,
           failed' = failed \/ failed' = failed \cup {Head(down).id}
    PROVE  TransferIInv'
  <1>1. DiskTyped' /\ PartsTrue' /\ UNCHANGED <<part, digest>>
    BY DiskStays DEF disk
  <1>2. TransferShape'
    BY <1>1, Received DEF TransferIInv, TransferShape, DiskTyped
  <1>3. InBounds'
    BY Received DEF TransferIInv, InBounds
  <1>4. IdsKnown'
    BY Received DEF TransferIInv, IdsKnown
  <1>5. Unconcerned(1)
    <2>1. \A i \in Due : i # 1
      BY TailDue
    <2>2. /\ \A i \in Due : i - 1 \in Due' /\ down'[i - 1] = down[i]
          /\ \A i \in Due' : i + 1 \in Due /\ down'[i] = down[i + 1]
          /\ Broken' = Broken
      BY TailDue, <2>1
    <2>3. Answers' = Answers /\ Readers' = Readers
      BY DEF Answers, Readers
    <2> QED
      BY <1>1, <2>2, <2>3, AtMostOne DEF Unconcerned
  <1>6. PipeInOrder' /\ StreamTrue'
    BY <1>5, UnconcernedKeeps, Received
  <1> QED
    BY <1>1, <1>2, <1>3, <1>4, <1>6 DEF TransferIInv

LEMMA DirKeeps ==
    ASSUME TransferIInv, down # <<>>, down' = Tail(down), Head(down).id = write.id,
           Head(down).type = "dir", write.id # 0,
           write' = [write EXCEPT !.files = TRUE],
           UNCHANGED <<disk, up, ask, failed, errors, holed, agreed>>,
           UNCHANGED <<source, saved, lastId, losses, reads>>
    PROVE  TransferIInv'
  <1>w. /\ write' \in WriteJob /\ write'.id = write.id /\ write'.files
        /\ write'.stream = write.stream /\ write'.file_num = write.file_num
    BY DEF TransferIInv, TransferShape, WriteJob
  <1>1. DiskTyped' /\ PartsTrue' /\ UNCHANGED <<part, digest>>
    BY DiskStays DEF disk
  <1>2. TransferShape'
    BY <1>1, <1>w, Received DEF TransferIInv, TransferShape, DiskTyped
  <1>3. InBounds'
    BY Received DEF TransferIInv, InBounds
  <1>4. IdsKnown'
    BY Received, <1>w DEF TransferIInv, IdsKnown
  <1>5. /\ \A i \in Due : i # 1 => i - 1 \in Due' /\ down'[i - 1] = down[i]
        /\ \A i \in Due' : i + 1 \in Due /\ down'[i] = down[i + 1]
        /\ Broken' = Broken /\ 1 \in Due /\ Head(down) = down[1]
    BY TailDue, <1>w
  <1>6. /\ ~write.files /\ ~write.stream
        /\ \A k \in Due : 1 <= k /\ down[k].type # "block"
    BY <1>5 DEF TransferIInv, PipeInOrder, OtherInOrder
  <1>7. Answers = {} /\ ask = {} /\ Answers' = Answers /\ Readers' = Readers
    BY <1>5, <1>w DEF TransferIInv, PipeInOrder, AnswerInOrder, AskedInOrder, Answers, Readers
  <1>8. \A n : Upcoming(n) => Upcoming(n)'
    <2>1. \A k \in Due' : down'[k].type # "block"
      BY <1>5, <1>6
    <2> QED
      BY <2>1, <1>6, <1>w DEF Upcoming
  <1>9. ASSUME NEW i \in Due'
        PROVE  BlockInOrder(i)' /\ OtherInOrder(i)'
    <2>1. i + 1 \in Due /\ down'[i] = down[i + 1] /\ i \in Nat /\ i >= 1 /\ OtherInOrder(i + 1)
      BY <1>5, Received DEF TransferIInv, PipeInOrder, Due
    <2>2. down'[i].type # "block"
      BY <1>6, <2>1
    <2>3. down'[i].type # "dir"
      <3>1. ~(i + 1 <= 1)
        BY <2>1
      <3> QED
        BY <2>1, <3>1, <1>5 DEF OtherInOrder
    <2>4. down'[i].type \in {"digest", "done"} => \A k \in Due' : k <= i
      <3>1. ASSUME down'[i].type \in {"digest", "done"}, NEW k \in Due' PROVE k <= i
        <4>1. k + 1 \in Due /\ k \in Nat
          BY <1>5, Received
        <4>2. k + 1 <= i + 1
          BY <2>1, <3>1, <4>1 DEF OtherInOrder
        <4> QED
          BY <4>1, <4>2, <2>1
      <3> QED
        BY <3>1
    <2>5. down'[i].type = "digest" =>
            /\ ~Broken' /\ Upcoming(down[i].file)'
            /\ down'[i].version = source'[down'[i].file]
            /\ \E r \in Readers' : Waits(reads[r])' /\ reads'[r].file_num = down'[i].file
      BY <2>1, <1>5, <1>7, <1>8 DEF OtherInOrder
    <2>6. down'[i].type = "done" => Upcoming(Beyond)' /\ Readers' = {}
      BY <2>1, <1>7, <1>8 DEF OtherInOrder, Beyond
    <2> QED
      BY <2>2, <2>3, <2>4, <2>5, <2>6, <1>7, <1>w DEF BlockInOrder, OtherInOrder, FilesKnown
  <1>10. ASSUME NEW r \in Readers' PROVE ReaderInOrder(r)'
    <2>1. ReaderInOrder(r) /\ reads'[r] = reads[r]
      BY <1>7 DEF TransferIInv, PipeInOrder
    <2>2. ASSUME Idle(reads[r]), Upcoming(reads[r].file_num), \A k \in Due : down[k].type # "digest"
          PROVE  ReaderInOrder(r)'
      <3>1. \A k \in Due' : down'[k].type # "digest"
        BY <2>2, <1>5
      <3>2. Idle(reads[r])' /\ Upcoming(reads[r].file_num)'
        BY <2>1, <2>2, <1>8 DEF Idle
      <3> QED
        BY <2>1, <3>1, <3>2, <1>5, <1>7, <1>w DEF ReaderInOrder, FilesKnown
    <2>3. ASSUME Waits(reads[r]), \E k \in Due : down[k].type = "digest"
          PROVE  ReaderInOrder(r)'
      <3>1. \E k \in Due' : down'[k].type = "digest"
        <4>1. PICK k \in Due : down[k].type = "digest"
          BY <2>3
        <4>2. k # 1
          BY <4>1, <1>5
        <4> QED
          BY <4>1, <4>2, <1>5
      <3>2. Waits(reads[r])'
        BY <2>1, <2>3 DEF Waits
      <3> QED
        BY <2>1, <3>1, <3>2, <1>5, <1>7 DEF ReaderInOrder
    <2> QED
      BY <2>1, <2>2, <2>3, <1>5, <1>6, <1>7 DEF ReaderInOrder
  <1>11. PipeInOrder' /\ StreamTrue'
    BY <1>6, <1>7, <1>9, <1>10, <1>w DEF PipeInOrder, StreamTrue
  <1> QED
    BY <1>1, <1>2, <1>3, <1>4, <1>11 DEF TransferIInv

LEMMA Wrapped ==
    ASSUME NEW x \in Nat, NEW y \in Nat \ {0}
    PROVE  x % y \in Nat /\ x % y <= x
  OBVIOUS

LEMMA SkippedFields ==
    ASSUME NEW w \in WriteJob, NEW f \in File
    PROVE  /\ Skipped(w, f) \in WriteJob
           /\ Skipped(w, f).id = w.id /\ Skipped(w, f).files = w.files
           /\ Skipped(w, f).digest = w.digest /\ Skipped(w, f).pos = w.pos
           /\ w.file_num # f => Skipped(w, f) = w
           /\ w.file_num = f => ~Skipped(w, f).stream /\ Skipped(w, f).file_num = f + 1
  BY Files DEF Skipped, WriteJob

LEMMA ConfirmedFields ==
    ASSUME NEW w \in WriteJob, NEW f \in File, NEW offset \in Nat
    PROVE  /\ Confirmed(w, f, offset) \in WriteJob
           /\ Confirmed(w, f, offset).id = w.id /\ Confirmed(w, f, offset).files = w.files
           /\ Confirmed(w, f, offset).digest = w.digest
           /\ Confirmed(w, f, offset).file_num = w.file_num
           /\ w.file_num # f \/ offset = 0 => Confirmed(w, f, offset) = w
           /\ w.file_num = f /\ offset # 0 =>
                 Confirmed(w, f, offset).stream /\ Confirmed(w, f, offset).pos = offset
  BY DEF Confirmed, WriteJob

(* The client is told of f next, and nothing else is under way.            *)
Prompt(f) ==
    /\ write.id # 0 /\ Answers = {} /\ write.files
    /\ write.stream => write.file_num < f
    /\ ~write.stream => write.file_num = f
    /\ write.stream /\ write.file_num \notin holed => Size[write.file_num] <= write.pos
    /\ \E r \in Readers : Waits(reads[r]) /\ reads[r].file_num = f

LEMMA DecideKeeps ==
    ASSUME TransferIInv, NEW f \in File, NEW skip \in BOOLEAN, NEW offset \in Nat,
           NEW w \in WriteJob, Prompt(f), Decide(w, f, skip, offset),
           w.id = write.id, w.file_num = write.file_num, w.stream = write.stream,
           w.pos = write.pos, w.files = write.files, w.digest = source[f],
           offset > 0 => digest[f] = w.digest /\ part[f] # None /\ offset <= Len(part[f]),
           offset <= Size[f], Due' = {}, ~Broken', ask' = {},
           UNCHANGED <<part, digest, source, reads, holed, lastId>>
    PROVE  /\ write' \in WriteJob /\ up' \in Seq(ToServer)
           /\ agreed' \in [File -> {"no", "yes", "lost"}]
           /\ write'.id = write.id
           /\ \A i \in 1..Len(up') :
                 /\ up'[i].id \in 1..lastId
                 /\ up'[i].type = "offset" => up'[i].offset <= Size[up'[i].file]
           /\ PipeInOrder' /\ StreamTrue'
  <1> DEFINE m == [type |-> IF skip THEN "skip" ELSE "offset", id |-> w.id,
                   file |-> f, offset |-> offset]
             a == IF skip THEN "no" ELSE IF offset > 0 /\ w.file_num # f THEN "lost" ELSE "yes"
  <1>1. /\ write' = IF skip THEN Skipped(w, f) ELSE Confirmed(w, f, offset)
        /\ up' = Append(up, m)
        /\ agreed' = [agreed EXCEPT ![f] = a]
    BY DEF Decide
  <1>2. m \in ToServer /\ m.id = w.id /\ m.file = f /\ m.offset = offset
        /\ m.type = (IF skip THEN "skip" ELSE "offset")
    BY DEF ToServer, WriteJob
  <1>3. /\ up \in Seq(ToServer) /\ agreed \in [File -> {"no", "yes", "lost"}]
        /\ a \in {"no", "yes", "lost"} /\ w.id \in 1..lastId
    BY DEF TransferIInv, TransferShape, IdsKnown, Prompt
  <1>4. agreed' \in [File -> {"no", "yes", "lost"}] /\ agreed'[f] = a
        /\ \A g \in File : g # f => agreed'[g] = agreed[g]
    BY <1>1, <1>3
  <1>a. /\ skip => a = "no" /\ m.type = "skip"
        /\ ~skip => a # "no" /\ m.type = "offset"
        /\ ~skip /\ offset > 0 /\ w.file_num # f => a = "lost"
        /\ a = "lost" => ~skip /\ offset > 0 /\ w.file_num # f
    BY <1>2
  <1> HIDE DEF m, a
  <1>5. /\ up' \in Seq(ToServer) /\ Len(up') = Len(up) + 1 /\ Len(up) \in Nat
        /\ \A i \in 1..Len(up) : up'[i] = up[i]
        /\ up'[Len(up) + 1] = m /\ 1..Len(up') = 1..Len(up) \cup {Len(up) + 1}
    BY <1>1, <1>2, <1>3, AppendSeq
  <1>6. \A i \in 1..Len(up') :
           /\ up'[i].id \in 1..lastId
           /\ up'[i].type = "offset" => up'[i].offset <= Size[up'[i].file]
    BY <1>2, <1>3, <1>5 DEF TransferIInv, IdsKnown, InBounds
  <1>7. /\ write' \in WriteJob /\ write'.id = write.id /\ write'.files /\ write'.digest = w.digest
        /\ skip => \/ write' = w /\ write.file_num # f
                   \/ ~write'.stream /\ write'.file_num = f + 1 /\ write.file_num = f
        /\ ~skip => \/ write' = w /\ (write.file_num # f \/ offset = 0)
                    \/ write'.stream /\ write'.pos = offset /\ write'.file_num = f /\ offset # 0
                       /\ write.file_num = f
    <2>1. write.files
      BY DEF Prompt
    <2>2. CASE skip
      <3>1. write' = Skipped(w, f)
        BY <1>1, <2>2
      <3>2. write' \in WriteJob /\ write'.id = w.id /\ write'.files = w.files /\ write'.digest = w.digest
        BY <3>1, SkippedFields
      <3>3. \/ write' = w /\ w.file_num # f
            \/ ~write'.stream /\ write'.file_num = f + 1 /\ w.file_num = f
        BY <3>1, SkippedFields
      <3> QED
        BY <2>1, <2>2, <3>2, <3>3
    <2>3. CASE ~skip
      <3>1. write' = Confirmed(w, f, offset)
        BY <1>1, <2>3
      <3>2. write' \in WriteJob /\ write'.id = w.id /\ write'.files = w.files /\ write'.digest = w.digest
        BY <3>1, ConfirmedFields
      <3>3. \/ write' = w /\ (w.file_num # f \/ offset = 0)
            \/ /\ write'.stream /\ write'.pos = offset /\ write'.file_num = f /\ offset # 0
               /\ w.file_num = f
        BY <3>1, ConfirmedFields
      <3> QED
        BY <2>1, <2>3, <3>2, <3>3
    <2> QED
      BY <2>2, <2>3
  <1>8. Answers' = {Len(up) + 1} /\ Readers' = Readers
    BY <1>2, <1>5, <1>7 DEF Answers, Readers, Prompt
  <1>9. f \in Nat /\ write.file_num \in Nat /\ offset \in Nat
    BY Files DEF TransferIInv, TransferShape, WriteJob
  <1>10. skip => Upcoming(f + 1)'
    <2> SUFFICES ASSUME skip PROVE Upcoming(f + 1)'
      OBVIOUS
    <2>1. write'.stream => write'.file_num < f + 1
      BY <1>7, <1>9 DEF Prompt
    <2>2. ~write'.stream => write'.file_num = f + 1
      BY <1>7, <1>9 DEF Prompt
    <2>3. f' = f
      OBVIOUS
    <2> QED
      BY <2>1, <2>2 DEF Upcoming
  <1>11. ~skip => /\ Current(f)' /\ Expected(f)' <= offset + 1
                  /\ Exact(f)' => offset + 1 = Expected(f)'
    <2> SUFFICES ASSUME ~skip
                 PROVE  /\ Current(f)' /\ Expected(f)' <= offset + 1
                        /\ Exact(f)' => offset + 1 = Expected(f)'
      OBVIOUS
    <2>1. CASE write'.stream /\ write'.pos = offset /\ write'.file_num = f /\ offset # 0
      <3>1. digest'[f] = write'.digest
        BY <2>1, <1>7, <1>9
      <3> QED
        BY <2>1, <3>1, <1>4, <1>7, <1>9, <1>a DEF Current, Expected, Exact
    <2>2. CASE write' = w /\ (write.file_num # f \/ offset = 0)
      <3>1. ~(write'.stream /\ write'.file_num = f)
        BY <2>2, <1>9 DEF Prompt
      <3>2. Current(f)'
        BY <2>2, <3>1, <1>4, <1>7, <1>9, <1>a DEF Current, Prompt
      <3>3. agreed'[f] = "yes" => offset = 0
        BY <2>2, <1>4, <1>a, <1>9
      <3> QED
        BY <3>1, <3>2, <3>3, <1>9 DEF Expected, Exact
    <2> QED
      BY <2>1, <2>2, <1>7
  <1>12. PICK r \in Readers : Waits(reads[r]) /\ reads[r].file_num = f
    BY DEF Prompt
  <1>13. ASSUME NEW n \in Answers' PROVE AnswerInOrder(n)'
    <2>1. Answers' = {n} /\ up'[n] = m
      BY <1>5, <1>8
    <2>2. \E q \in Readers' : Waits(reads[q])' /\ reads'[q].file_num = f
      BY <1>8, <1>12 DEF Waits
    <2> QED
      BY <2>1, <2>2, <1>2, <1>7, <1>10, <1>11, <1>a DEF AnswerInOrder
  <1>14. ASSUME NEW q \in Readers' PROVE ReaderInOrder(q)'
    <2>1. q = r /\ Readers' = {q}
      BY <1>8, <1>12 DEF TransferIInv, PipeInOrder, ReaderInOrder
    <2>2. Waits(reads[q])' /\ Answers' # {}
      BY <2>1, <1>8, <1>12 DEF Waits
    <2> QED
      BY <2>1, <2>2 DEF ReaderInOrder
  <1>15. PipeInOrder'
    BY <1>13, <1>14 DEF PipeInOrder
  <1>16. StreamTrue'
    <2>1. CASE write'.stream /\ write'.pos = offset /\ write'.file_num = f /\ offset # 0 /\ ~skip
      <3>1. Goes(f)'
        <4>1. up'[Len(up) + 1].type = "offset" /\ Len(up) + 1 \in Answers'
          BY <2>1, <1>5, <1>8, <1>a
        <4> QED
          BY <4>1, <1>8, <1>12 DEF Goes
      <3>2. agreed'[f] # "no" /\ agreed'[f] # "lost"
        BY <2>1, <1>4, <1>7, <1>a, <1>9 DEF Prompt
      <3> QED
        BY <2>1, <3>1, <3>2, <1>7, <1>9 DEF StreamTrue, Comes
    <2>2. CASE write' = w /\ write'.stream
      <3>1. write.file_num # f /\ write.stream
        BY <2>2, <1>9 DEF Prompt
      <3>2. write.file_num \in File /\ agreed'[write.file_num] = agreed[write.file_num]
        BY <3>1, <1>4 DEF TransferIInv, StreamTrue
      <3> QED
        BY <2>2, <3>1, <3>2, <1>7 DEF TransferIInv, StreamTrue, Prompt
    <2> QED
      BY <2>1, <2>2, <1>7, <1>9 DEF StreamTrue
  <1> QED
    BY <1>4, <1>5, <1>6, <1>7, <1>15, <1>16

(* The digest of a file, which is the only message due.                    *)
LEMMA DigestPrompts ==
    ASSUME TransferIInv, down # <<>>, Head(down).id = write.id, write.id # 0,
           Head(down).type = "digest", down' = Tail(down), write'.id = write.id
    PROVE  /\ Prompt(Head(down).file) /\ Due' = {} /\ ~Broken' /\ ask = {}
           /\ Head(down).file \in File /\ Head(down).version = source[Head(down).file]
           /\ Head(down).version \in 1..MaxVersion
  <1> DEFINE m == Head(down)
             f == m.file
  <1>1. /\ \A i \in Due' : i + 1 \in Due
        /\ Broken' = Broken /\ 1 \in Due /\ Head(down) = down[1] /\ m \in ToClient
    BY TailDue
  <1>2. f \in File /\ m.version \in 1..MaxVersion
    BY <1>1 DEF ToClient
  <1>3. /\ FilesKnown /\ Answers = {} /\ ask = {} /\ \A k \in Due : k <= 1
        /\ ~Broken /\ Upcoming(f) /\ m.version = source[f]
        /\ \E r \in Readers : Waits(reads[r]) /\ reads[r].file_num = f
    BY <1>1 DEF TransferIInv, PipeInOrder, OtherInOrder
  <1>4. Due = {1} /\ Due' = {}
    <2>1. \A k \in Due : k = 1
      BY <1>3, DueIndex
    <2>2. ASSUME NEW i \in Due' PROVE FALSE
      <3>1. i + 1 = 1 /\ i \in 1..Len(down')
        BY <1>1, <2>1 DEF Due
      <3> QED
        BY <3>1
    <2> QED
      BY <1>1, <2>1, <2>2
  <1>5. write.files
    BY <1>1, <1>3, <1>4 DEF FilesKnown
  <1>6. /\ write.stream => write.file_num < f
        /\ ~write.stream => write.file_num = f
    BY <1>1, <1>3, <1>4 DEF Upcoming
  <1>7. write.stream /\ write.file_num \notin holed => Size[write.file_num] <= write.pos
    <2>1. ~Comes(write.file_num)
      BY <1>1, <1>4 DEF Comes, Goes
    <2> QED
      BY <2>1 DEF TransferIInv, StreamTrue
  <1> QED
    BY <1>1, <1>2, <1>3, <1>4, <1>5, <1>6, <1>7 DEF Prompt

(* What a decision leaves of the rest of the invariant.                    *)
LEMMA DecidedRest ==
    ASSUME TransferIInv, UNCHANGED <<disk, source, saved, failed, lastId, losses, reads, errors,
                                     holed>>,
           write' \in WriteJob, write'.id = write.id, write.id # 0, ask' \subseteq File,
           up' \in Seq(ToServer), agreed' \in [File -> {"no", "yes", "lost"}],
           down' \in Seq(ToClient),
           \A i \in 1..Len(up') :
              /\ up'[i].id \in 1..lastId
              /\ up'[i].type = "offset" => up'[i].offset <= Size[up'[i].file],
           \A i \in 1..Len(down') :
              /\ down'[i].id \in 1..lastId'
              /\ down'[i].type = "block" => down'[i].number \in 1..Size[down'[i].file] + 1,
           PipeInOrder', StreamTrue'
    PROVE  TransferIInv'
  <1>1. DiskTyped' /\ PartsTrue'
    BY DiskStays
  <1>2. TransferShape'
    BY <1>1 DEF TransferIInv, TransferShape, DiskTyped
  <1>3. InBounds'
    BY DEF TransferIInv, InBounds
  <1>4. IdsKnown'
    BY DEF TransferIInv, IdsKnown
  <1> QED
    BY <1>1, <1>2, <1>3, <1>4 DEF TransferIInv

LEMMA DigestKeeps ==
    ASSUME TransferIInv, down # <<>>, down' = Tail(down), Head(down).id = write.id,
           Head(down).type = "digest", write.id # 0, OnDigest(Head(down)),
           UNCHANGED <<disk, failed, errors, holed>>,
           UNCHANGED <<source, saved, lastId, losses, reads>>
    PROVE  TransferIInv'
  <1> DEFINE m == Head(down)
             w == [write EXCEPT !.digest = m.version]
             f == m.file
             o == Len(part[f]) % OffsetWidth
  <1>0. /\ \/ Resumable(w, f, m.version) /\ Decide(w, f, FALSE, o) /\ UNCHANGED ask
           \/ \E skip \in BOOLEAN : Decide(w, f, skip, 0) /\ UNCHANGED ask
           \/ ask' = {f} /\ write' = w /\ UNCHANGED <<up, agreed>>
           \/ ~write.files /\ UNCHANGED <<write, up, ask, agreed>>
        /\ ~write.files => UNCHANGED write
    <2>1. write.id = m.id
      OBVIOUS
    <2>2. (w.strategy = "no") \in BOOLEAN
      OBVIOUS
    <2>3. IF ~write.files THEN UNCHANGED <<write, up, ask, agreed>>
          ELSE IF Resumable(w, f, m.version)
          THEN Decide(w, f, FALSE, o) /\ UNCHANGED ask
          ELSE IF path[f] = None
          THEN Decide(w, f, FALSE, 0) /\ UNCHANGED ask
          ELSE IF w.strategy # "ask"
          THEN Decide(w, f, w.strategy = "no", 0) /\ UNCHANGED ask
          ELSE ask' = {f} /\ write' = w /\ UNCHANGED <<up, agreed>>
      BY <2>1, Zenon DEF OnDigest
    <2> HIDE DEF m, w, f, o
    <2>4. ~write.files => UNCHANGED write
      BY <2>3
    <2> QED
      BY <2>2, <2>3, <2>4
  <1>1. write \in WriteJob /\ m \in ToClient /\ m.version \in 1..MaxVersion /\ m.file \in File
    <2>1. write \in WriteJob /\ m \in ToClient
      BY Received DEF TransferIInv, TransferShape
    <2> QED
      BY <2>1 DEF ToClient
  <1>2. /\ w \in WriteJob /\ w.id = write.id /\ w.file_num = write.file_num
        /\ w.stream = write.stream /\ w.pos = write.pos /\ w.files = write.files
        /\ w.digest = m.version
    <2>1. m.version \in 0..MaxVersion
      BY <1>1, TransferAssumption
    <2> HIDE DEF m
    <2> QED
      BY <1>1, <2>1 DEF WriteJob
  <1>d. /\ f \in File /\ UNCHANGED <<part, digest>> /\ 0 \in Nat /\ Size[f] \in Nat
        /\ part[f] \in Content(f) \cup {None}
    BY <1>1, Files DEF disk, TransferIInv, TransferShape
  <1>p. ASSUME write'.id = write.id
        PROVE  /\ Prompt(f) /\ Due' = {} /\ ~Broken' /\ ask = {}
               /\ m.version = source[f] /\ write.files
    BY <1>p, DigestPrompts DEF Prompt
  <1>i. ASSUME NEW skip \in BOOLEAN, NEW n, Decide(w, f, skip, n), n \in Nat
        PROVE  write'.id = write.id
    <2> HIDE DEF w, m, f
    <2>1. write' = Skipped(w, f) \/ write' = Confirmed(w, f, n)
      BY <1>i DEF Decide
    <2> QED
      BY <2>1, <1>i, <1>d, <1>2, SkippedFields, ConfirmedFields
  <1>r. /\ down' \in Seq(ToClient)
        /\ \A i \in 1..Len(down') :
              /\ down'[i].id \in 1..lastId'
              /\ down'[i].type = "block" => down'[i].number \in 1..Size[down'[i].file] + 1
    BY Received
  <1>u. /\ UNCHANGED <<disk, source, saved, failed, lastId, losses, reads, errors, holed>>
        /\ {} \subseteq File
    OBVIOUS
  <1> HIDE DEF w, m, f, o
  <1>3. CASE Resumable(w, f, m.version) /\ Decide(w, f, FALSE, o) /\ UNCHANGED ask
    <2>1. digest[f] = m.version /\ part[f] # None
      BY <1>3 DEF Resumable
    <2>2. Len(part[f]) \in Nat /\ Len(part[f]) <= Size[f]
      BY <2>1, <1>d, Contents
    <2>3. o \in Nat /\ o <= Len(part[f])
      BY <2>2, Wrapped, TransferAssumption DEF o
    <2>4. o <= Size[f]
      BY <2>2, <2>3, <1>d
    <2>5. write'.id = write.id
      BY <1>3, <1>i, <2>3
    <2>6. /\ write' \in WriteJob /\ up' \in Seq(ToServer)
          /\ agreed' \in [File -> {"no", "yes", "lost"}]
          /\ \A i \in 1..Len(up') :
                /\ up'[i].id \in 1..lastId
                /\ up'[i].type = "offset" => up'[i].offset <= Size[up'[i].file]
          /\ PipeInOrder' /\ StreamTrue'
      BY <1>3, <1>p, <1>2, <1>d, <2>1, <2>3, <2>4, <2>5, DecideKeeps
    <2>7. ask' \subseteq File
      BY <1>3, <1>p, <2>5
    <2> QED
      BY <1>r, <2>5, <2>6, <2>7, DecidedRest
  <1>4. ASSUME NEW skip \in BOOLEAN, Decide(w, f, skip, 0), UNCHANGED ask
        PROVE  TransferIInv'
    <2>5. write'.id = write.id
      BY <1>4, <1>i, <1>d
    <2>6. /\ write' \in WriteJob /\ up' \in Seq(ToServer)
          /\ agreed' \in [File -> {"no", "yes", "lost"}]
          /\ \A i \in 1..Len(up') :
                /\ up'[i].id \in 1..lastId
                /\ up'[i].type = "offset" => up'[i].offset <= Size[up'[i].file]
          /\ PipeInOrder' /\ StreamTrue'
      <3>1. 0 <= Size[f] /\ ~(0 > 0)
        BY <1>d
      <3> QED
        BY <1>4, <1>p, <1>2, <1>d, <2>5, <3>1, DecideKeeps
    <2>7. ask' \subseteq File
      BY <1>4, <1>p, <2>5
    <2> QED
      BY <1>r, <2>5, <2>6, <2>7, DecidedRest
  <1>5. CASE ask' = {f} /\ write' = w /\ UNCHANGED <<up, agreed>>
    <2>1. Prompt(f) /\ Due' = {} /\ ~Broken' /\ ask = {} /\ m.version = source[f] /\ write.files
      BY <1>5, <1>2, <1>p
    <2>2. Answers' = {} /\ Readers' = Readers
      BY <1>5, <1>2, <2>1 DEF Prompt, Answers, Readers
    <2>3. PICK r \in Readers : Waits(reads[r]) /\ reads[r].file_num = f
      BY <2>1 DEF Prompt
    <2>4. ASSUME NEW g \in ask' PROVE AskedInOrder(g)'
      <3>1. g = f
        BY <1>5
      <3>2. Upcoming(g)'
        BY <3>1, <2>1, <1>5, <1>2 DEF Upcoming, Prompt
      <3>3. \E q \in Readers' : Waits(reads[q])' /\ reads'[q].file_num = g
        BY <3>1, <2>2, <2>3 DEF Waits
      <3>4. ask' = {g}
        BY <1>5, <3>1
      <3> QED
        BY <3>1, <3>2, <3>3, <3>4, <2>1, <2>2, <1>5, <1>2 DEF AskedInOrder
    <2>5. ASSUME NEW q \in Readers' PROVE ReaderInOrder(q)'
      <3>1. q = r /\ Readers' = {q}
        BY <2>2, <2>3 DEF TransferIInv, PipeInOrder, ReaderInOrder
      <3>2. Waits(reads[q])' /\ ask' # {}
        BY <3>1, <2>3, <1>5 DEF Waits
      <3> QED
        BY <3>1, <3>2 DEF ReaderInOrder
    <2>6. PipeInOrder'
      BY <2>1, <2>2, <2>4, <2>5 DEF PipeInOrder
    <2>7. StreamTrue'
      BY <2>1, <1>5, <1>2, <1>d DEF TransferIInv, StreamTrue, Prompt
    <2>8. /\ up' \in Seq(ToServer) /\ agreed' \in [File -> {"no", "yes", "lost"}]
          /\ ask' \subseteq File
      BY <1>5, <1>d DEF TransferIInv, TransferShape
    <2>9. \A i \in 1..Len(up') :
             /\ up'[i].id \in 1..lastId
             /\ up'[i].type = "offset" => up'[i].offset <= Size[up'[i].file]
      BY <1>5 DEF TransferIInv, InBounds, IdsKnown
    <2> QED
      BY <1>5, <1>2, <1>r, <2>6, <2>7, <2>8, <2>9, DecidedRest
  <1>6. CASE ~write.files
    BY <1>0, <1>6, <1>p
  <1> QED
    BY <1>0, <1>3, <1>4, <1>5, <1>6

LEMMA SetConfirmOverrideFileKeeps ==
    ASSUME TransferIInv, NEW f \in ask, NEW override \in BOOLEAN, NEW remember \in BOOLEAN,
           SetConfirmOverrideFile(f, override, remember)
    PROVE  TransferIInv'
  <1> DEFINE w == IF remember THEN [write EXCEPT !.strategy = IF override THEN "yes" ELSE "no"]
                  ELSE write
  <1>1. /\ ask' = {} /\ Decide(w, f, ~override, 0)
        /\ UNCHANGED <<disk, env, reads, down, failed, holed>>
    BY DEF SetConfirmOverrideFile
  <1>2. write \in WriteJob /\ f \in File /\ (~override) \in BOOLEAN
    BY DEF TransferIInv, TransferShape
  <1>3. /\ w \in WriteJob /\ w.id = write.id /\ w.file_num = write.file_num
        /\ w.stream = write.stream /\ w.pos = write.pos /\ w.files = write.files
        /\ w.digest = write.digest
    BY <1>2 DEF WriteJob
  <1> HIDE DEF w
  <1>4. /\ ask = {f} /\ Due = {} /\ Answers = {} /\ ~Broken
        /\ write.files /\ Upcoming(f) /\ source[f] = write.digest
        /\ \E r \in Readers : Waits(reads[r]) /\ reads[r].file_num = f
    BY DEF TransferIInv, PipeInOrder, AskedInOrder
  <1>5. write'.id = write.id /\ write.id # 0
    <2>1. write'.id = write.id
      BY <1>1, <1>2, <1>3, SkippedFields, ConfirmedFields DEF Decide
    <2> QED
      BY <2>1, <1>4 DEF TransferIInv, IdsKnown
  <1>6. Due' = {} /\ ~Broken'
    BY <1>1, <1>4, <1>5 DEF Due, Broken
  <1>7. Prompt(f)
    <2>1. ~Comes(write.file_num) \/ ~write.stream
      <3>1. ASSUME Comes(write.file_num), write.stream PROVE FALSE
        <4>1. write.file_num # f
          BY <1>4, <3>1, Files, <1>2 DEF Upcoming
        <4>2. PICK r \in Readers : Waits(reads[r]) /\ reads[r].file_num = f
          BY <1>4
        <4>3. Readers = {r}
          BY <4>2 DEF TransferIInv, PipeInOrder, ReaderInOrder
        <4> QED
          BY <1>4, <3>1, <4>1, <4>2, <4>3 DEF Comes, Goes
      <3> QED
        BY <3>1
    <2>2. write.stream /\ write.file_num \notin holed => Size[write.file_num] <= write.pos
      BY <2>1 DEF TransferIInv, StreamTrue
    <2> QED
      BY <1>4, <1>5, <2>2 DEF Prompt, Upcoming
  <1>8. UNCHANGED <<part, digest, source, reads, holed, lastId, errors, saved, losses, down, failed>>
    BY <1>1 DEF env, disk
  <1>9. /\ write' \in WriteJob /\ up' \in Seq(ToServer)
        /\ agreed' \in [File -> {"no", "yes", "lost"}]
        /\ \A i \in 1..Len(up') :
              /\ up'[i].id \in 1..lastId
              /\ up'[i].type = "offset" => up'[i].offset <= Size[up'[i].file]
        /\ PipeInOrder' /\ StreamTrue'
    <2>1. 0 <= Size[f] /\ ~(0 > 0) /\ 0 \in Nat
      BY <1>2, Files
    <2> QED
      BY <1>1, <1>2, <1>3, <1>4, <1>6, <1>7, <1>8, <2>1, DecideKeeps
  <1>10. /\ down' \in Seq(ToClient)
         /\ \A i \in 1..Len(down') :
              /\ down'[i].id \in 1..lastId'
              /\ down'[i].type = "block" => down'[i].number \in 1..Size[down'[i].file] + 1
    BY <1>8 DEF TransferIInv, TransferShape, InBounds, IdsKnown
  <1> QED
    BY <1>1, <1>5, <1>8, <1>9, <1>10, DecidedRest

LEMMA ErrorKeeps ==
    ASSUME TransferIInv, down # <<>>, down' = Tail(down),
           write' = NoJob, agreed' = Unasked, ask' = {}, failed' = failed \cup {Head(down).id},
           UNCHANGED <<disk, up, errors, holed>>,
           UNCHANGED <<source, saved, lastId, losses, reads>>
    PROVE  TransferIInv'
  <1>1. DiskTyped' /\ PartsTrue'
    BY DiskStays
  <1>2. TransferShape'
    BY <1>1, Received, NoJobFields DEF TransferIInv, TransferShape, DiskTyped
  <1>3. InBounds'
    BY Received DEF TransferIInv, InBounds
  <1>4. IdsKnown'
    <2>1. 0 \in 0..lastId /\ 0 \notin 1..lastId
      BY DEF TransferIInv, TransferShape
    <2> QED
      BY <2>1, Received, NoJobFields DEF TransferIInv, IdsKnown
  <1> QED
    BY <1>1, <1>2, <1>3, <1>4, NobodyDue DEF TransferIInv

(* modify_time: only the current file is touched.                          *)
LEMMA Closed ==
    ASSUME TransferIInv, write.files, write.file_num \in File
    PROVE  /\ DOMAIN ModifyTime(write)[1] = File /\ DOMAIN ModifyTime(write)[2] = File
           /\ ModifyTime(write)[3] \in [File -> 0..MaxVersion]
           /\ \A f \in File : f # write.file_num =>
                 /\ ModifyTime(write)[1][f] = path[f] /\ ModifyTime(write)[2][f] = part[f]
                 /\ ModifyTime(write)[3][f] = digest[f]
           /\ ModifyTime(write)[2][write.file_num] = None
           /\ part[write.file_num] = None =>
                 ModifyTime(write)[1][write.file_num] = path[write.file_num]
           /\ part[write.file_num] # None =>
                 ModifyTime(write)[1][write.file_num] = part[write.file_num]
  <1> DEFINE g == write.file_num
  <1>1. /\ DOMAIN path = File /\ DOMAIN part = File /\ digest \in [File -> 0..MaxVersion]
        /\ g \in File /\ 0 \in 0..MaxVersion
    BY TransferAssumption DEF TransferIInv, TransferShape
  <1>2. /\ ModifyTime(write)[1] = IF part[g] = None THEN path ELSE [path EXCEPT ![g] = part[g]]
        /\ ModifyTime(write)[2] = [part EXCEPT ![g] = None]
        /\ ModifyTime(write)[3] = [digest EXCEPT ![g] = 0]
    BY DEF ModifyTime
  <1> HIDE DEF g
  <1>3. /\ DOMAIN ModifyTime(write)[1] = File
        /\ \A f \in File : f # g => ModifyTime(write)[1][f] = path[f]
        /\ part[g] = None => ModifyTime(write)[1][g] = path[g]
        /\ part[g] # None => ModifyTime(write)[1][g] = part[g]
    BY <1>1, <1>2
  <1>4. /\ DOMAIN ModifyTime(write)[2] = File /\ ModifyTime(write)[2][g] = None
        /\ \A f \in File : f # g => ModifyTime(write)[2][f] = part[f]
    BY <1>1, <1>2
  <1>5. /\ ModifyTime(write)[3] \in [File -> 0..MaxVersion]
        /\ \A f \in File : f # g => ModifyTime(write)[3][f] = digest[f]
    BY <1>1, <1>2
  <1> QED
    BY <1>3, <1>4, <1>5 DEF g

LEMMA LeftOpen ==
    ASSUME write.file_num \notin File
    PROVE  /\ ModifyTime(write)[1] = path /\ ModifyTime(write)[2] = part
           /\ ModifyTime(write)[3] = digest
  BY DEF ModifyTime, disk

(* When the end of the job is heard of, the open file is complete.         *)
LEMMA DoneFacts ==
    ASSUME TransferIInv, down # <<>>, Head(down).id = write.id, Head(down).type = "done"
    PROVE  /\ ask = {} /\ write.files
           /\ write.file_num \in File =>
                 /\ write.stream /\ agreed[write.file_num] # "no"
                 /\ write.file_num \notin holed => Size[write.file_num] <= write.pos
  <1>1. down \in Seq(ToClient)
    BY DEF TransferIInv, TransferShape
  <1>2. Head(down) = down[1] /\ 1 \in Due
    <2>1. Head(down) = down[1] /\ 1 \in 1..Len(down) /\ 1..1 = {1}
      BY <1>1
    <2> QED
      BY <2>1 DEF Due
  <1>3. /\ FilesKnown /\ ask = {} /\ (\A k \in Due : k <= 1) /\ Upcoming(Beyond)
    BY <1>2 DEF TransferIInv, PipeInOrder, OtherInOrder
  <1>4. Due = {1}
    BY <1>2, <1>3, DueIndex
  <1>5. write.files
    BY <1>2, <1>3, <1>4 DEF FilesKnown
  <1>6. ~write.stream => write.file_num = Beyond
    BY <1>2, <1>3, <1>4 DEF Upcoming
  <1>7. ~Comes(write.file_num)
    BY <1>2, <1>4 DEF Comes, Goes
  <1> QED
    BY <1>3, <1>5, <1>6, <1>7, Files DEF TransferIInv, StreamTrue

LEMMA DoneKeeps ==
    ASSUME TransferIInv, down # <<>>, down' = Tail(down), Head(down).id = write.id,
           Head(down).type = "done", write.id # 0,
           path' = ModifyTime(write)[1], part' = ModifyTime(write)[2],
           digest' = ModifyTime(write)[3], holed' = holed \ {write.file_num},
           write' = NoJob, agreed' = Unasked, UNCHANGED <<up, ask, failed, errors>>,
           UNCHANGED <<source, saved, lastId, losses, reads>>
    PROVE  TransferIInv'
  <1>0. ask = {} /\ write.files /\ TransferShape
    BY DoneFacts DEF TransferIInv
  <1>1. DiskTyped' /\ PartsTrue'
    <2>1. CASE write.file_num \in File
      <3>1. /\ DOMAIN path' = File /\ DOMAIN part' = File /\ digest' \in [File -> 0..MaxVersion]
            /\ \A f \in File : f # write.file_num =>
                  path'[f] = path[f] /\ part'[f] = part[f] /\ digest'[f] = digest[f]
            /\ part'[write.file_num] = None
            /\ path'[write.file_num] \in {path[write.file_num], part[write.file_num]}
        BY <1>0, <2>1, Closed
      <3>2. \A f \in File : /\ path'[f] \in Content(f) \cup {None, Mine}
                            /\ part'[f] \in Content(f) \cup {None}
        <4>1. \A f \in File : /\ path[f] \in Content(f) \cup {None, Mine}
                              /\ part[f] \in Content(f) \cup {None}
          BY <1>0 DEF TransferShape
        <4> QED
          BY <3>1, <4>1
      <3>3. holed' \subseteq File
        BY <1>0 DEF TransferShape
      <3>4. PartsTrue'
        BY <3>1 DEF TransferIInv, PartsTrue
      <3> QED
        BY <3>1, <3>2, <3>3, <3>4 DEF DiskTyped, Content
    <2>2. CASE write.file_num \notin File
      BY <2>2, <1>0, LeftOpen DEF DiskTyped, TransferShape, TransferIInv, PartsTrue
    <2> QED
      BY <2>1, <2>2
  <1>2. TransferShape'
    BY <1>0, <1>1, Received, NoJobFields DEF TransferIInv, TransferShape, DiskTyped
  <1>3. InBounds'
    BY Received DEF TransferIInv, InBounds
  <1>4. IdsKnown'
    <2>1. 0 \in 0..lastId /\ 0 \notin 1..lastId
      BY DEF TransferIInv, TransferShape
    <2> QED
      BY <1>0, <2>1, Received, NoJobFields DEF TransferIInv, IdsKnown
  <1> QED
    BY <1>0, <1>1, <1>2, <1>3, <1>4, NobodyDue DEF TransferIInv

(* A block of the write job comes.                                         *)
LEMMA BlockFacts ==
    ASSUME TransferIInv, down # <<>>, Head(down).id = write.id, Head(down).type = "block",
           write.id # 0, NEW f, NEW n, f = Head(down).file, n = Head(down).number
    PROVE  /\ f \in File /\ f \in Nat /\ n \in Nat /\ n \in 1..Size[f] + 1 /\ Size[f] \in Nat
           /\ Head(down).version = write.digest /\ write.digest \in 1..MaxVersion
           /\ Current(f) /\ Comes(f) /\ Expected(f) \in Nat /\ 1 <= Expected(f) /\ Expected(f) <= n
           /\ Exact(f) => n = Expected(f)
           /\ \A k \in Due : k # 1 /\ down[k].type = "block" => down[k].file = f /\ n < down[k].number
           /\ write.file_num \in File /\ write.file_num \in Nat /\ write.file_num <= f
           /\ write.files /\ agreed[f] # "no" /\ Answers = {} /\ ask = {}
           /\ ~write.stream => write.file_num = f
           /\ \A k \in Due : down[k].type # "dir"
           /\ 1 \in Due /\ Head(down) = down[1]
  <1>1. down \in Seq(ToClient) /\ write \in WriteJob /\ write.pos \in Nat
    BY DEF TransferIInv, TransferShape, WriteJob
  <1>2. Head(down) = down[1] /\ 1 \in Due /\ Head(down) \in ToClient /\ 1 \in 1..Len(down)
    <2>1. Head(down) = down[1] /\ 1 \in 1..Len(down) /\ 1..1 = {1} /\ Head(down) \in ToClient
      BY <1>1
    <2> QED
      BY <2>1 DEF Due
  <1>3. f \in File /\ f \in Nat /\ n \in 1..Size[f] + 1 /\ Size[f] \in Nat /\ n \in Nat
        /\ Head(down).version \in 1..MaxVersion
    <2>1. f \in File /\ Head(down).version \in 1..MaxVersion
      BY <1>2 DEF ToClient
    <2>2. n \in 1..Size[f] + 1
      BY <1>2 DEF TransferIInv, InBounds
    <2> QED
      BY <2>1, <2>2, Files
  <1>4. BlockInOrder(1)
    BY <1>2 DEF TransferIInv, PipeInOrder
  <1>5. /\ Current(f) /\ Comes(f) /\ Head(down).version = write.digest /\ Expected(f) <= n
        /\ Exact(f) => n = Expected(f)
        /\ \A k \in Due : k # 1 /\ down[k].type = "block" => down[k].file = f /\ n < down[k].number
    BY <1>2, <1>4, DueIndex DEF BlockInOrder
  <1>6. Expected(f) \in Nat /\ 1 <= Expected(f)
    BY <1>1 DEF Expected
  <1>7. /\ write.file_num \in File /\ write.file_num \in Nat /\ write.file_num <= f
        /\ write.files /\ agreed[f] # "no" /\ (~write.stream => write.file_num = f)
    <2>1. write.file_num \in 1..Beyond
      BY <1>1 DEF WriteJob
    <2>2. write.stream => write.file_num \in File
      BY DEF TransferIInv, StreamTrue
    <2>3. /\ IF write.stream THEN write.file_num <= f ELSE write.file_num = f
          /\ write.files /\ agreed[f] # "no"
      BY <1>5 DEF Current
    <2>4. write.file_num \in Nat
      BY <2>1, Files
    <2> QED
      BY <1>3, <2>2, <2>3, <2>4
  <1>8. Answers = {} /\ ask = {}
    BY <1>2 DEF TransferIInv, PipeInOrder, AnswerInOrder, AskedInOrder
  <1>9. \A k \in Due : down[k].type # "dir"
    BY <1>7 DEF TransferIInv, PipeInOrder, OtherInOrder
  <1> QED
    BY <1>2, <1>3, <1>5, <1>6, <1>7, <1>8, <1>9

LEMMA WrittenAt ==
    ASSUME NEW f \in File, NEW c \in Content(f), NEW pos \in Nat, pos <= Len(c), pos < Size[f],
           NEW b \in (1..MaxVersion) \X (1..Size[f])
    PROVE  /\ WriteAt(c, pos, b) \in Content(f)
           /\ pos + 1 <= Len(WriteAt(c, pos, b))
           /\ WriteAt(c, pos, b)[pos + 1] = b
           /\ \A k \in 1..Len(WriteAt(c, pos, b)) :
                 k # pos + 1 => k \in 1..Len(c) /\ WriteAt(c, pos, b)[k] = c[k]
  <1> DEFINE B == (1..MaxVersion) \X (1..Size[f])
  <1>2. c \in Seq(B) /\ Len(c) \in Nat /\ Len(c) <= Size[f] /\ Size[f] \in Nat /\ b \in B
    BY Contents, Files
  <1>3. \A s \in Seq(B) : Len(s) <= Size[f] => s \in Content(f)
    BY NewContents
  <1> HIDE DEF B
  <1>4. CASE pos < Len(c)
    <2>1. WriteAt(c, pos, b) = [c EXCEPT ![pos + 1] = b] /\ pos + 1 \in 1..Len(c)
      BY <1>2, <1>4 DEF WriteAt
    <2>2. PICK s : s = [c EXCEPT ![pos + 1] = b]
      OBVIOUS
    <2>3. /\ s \in Seq(B) /\ Len(s) = Len(c) /\ s[pos + 1] = b
          /\ \A k \in 1..Len(c) : k # pos + 1 => s[k] = c[k]
      BY <1>2, <2>1, <2>2
    <2>4. s \in Content(f) /\ pos + 1 <= Len(s)
      BY <1>2, <1>3, <1>4, <2>3
    <2> QED
      BY <2>1, <2>2, <2>3, <2>4
  <1>5. CASE ~(pos < Len(c))
    <2>1. WriteAt(c, pos, b) = Append(c, b) /\ pos = Len(c)
      BY <1>2, <1>5 DEF WriteAt
    <2>2. PICK s : s = Append(c, b)
      OBVIOUS
    <2>3. /\ s \in Seq(B) /\ Len(s) = Len(c) + 1 /\ s[pos + 1] = b
          /\ \A k \in 1..Len(c) : s[k] = c[k]
      BY <1>2, <2>1, <2>2
    <2>4. s \in Content(f) /\ pos + 1 <= Len(s)
      BY <1>2, <1>3, <2>1, <2>3
    <2>5. \A k \in 1..Len(s) : k # pos + 1 => k \in 1..Len(c)
      BY <1>2, <2>1, <2>3
    <2> QED
      BY <2>1, <2>2, <2>3, <2>4, <2>5
  <1> QED
    BY <1>4, <1>5

(* A block that goes on with the open file.                                *)
LEMMA BlockGoesOn ==
    ASSUME TransferIInv, down # <<>>, Head(down).id = write.id, Head(down).type = "block",
           write.id # 0, NEW f, NEW n, f = Head(down).file, n = Head(down).number,
           NEW fails \in BOOLEAN, OnBlock(Head(down), fails),
           write.stream, write.file_num = f
    PROVE  /\ DiskTyped' /\ PartsTrue' /\ digest'[f] = write.digest /\ path' = path
           /\ part'[f] # None /\ write'.pos \in Nat /\ write'.pos <= Len(part'[f])
           /\ write'.pos = IF n <= Size[f] /\ ~fails THEN Expected(f) ELSE Expected(f) - 1
           /\ f \notin holed' => Exact(f) /\ ~fails
           /\ agreed[f] = "lost" => f \in holed'
           /\ write' = [write EXCEPT !.file_num = f, !.stream = TRUE, !.pos = write'.pos]
  <1> DEFINE v == Head(down).version
             data == n <= Size[f] /\ ~fails
             c == part[f]
             at == write.pos
  <1>0. /\ f \in File /\ f \in Nat /\ n \in Nat /\ n \in 1..Size[f] + 1 /\ Size[f] \in Nat
        /\ v = write.digest /\ write.digest \in 1..MaxVersion /\ v \in 1..MaxVersion
        /\ Expected(f) <= n /\ (Exact(f) => n = Expected(f)) /\ Current(f)
    BY BlockFacts
  <1>1. /\ path' = path /\ digest' = digest
        /\ part' = IF data THEN [part EXCEPT ![f] = WriteAt(c, at, <<v, n>>)] ELSE part
        /\ write' = [write EXCEPT !.file_num = f, !.stream = TRUE,
                                  !.pos = IF data THEN at + 1 ELSE at]
        /\ holed' = holed \cup (IF fails THEN {f} ELSE {})
    BY DEF OnBlock, disk
  <1>2. /\ TransferShape /\ write \in WriteJob /\ at \in Nat
        /\ c \in Content(f) /\ at <= Len(c)
        /\ agreed[f] = "lost" => f \in holed
    BY <1>0 DEF TransferIInv, TransferShape, StreamTrue, WriteJob
  <1>3. Expected(f) = at + 1 /\ (Exact(f) <=> f \notin holed) /\ digest[f] = v
    BY <1>0 DEF Expected, Exact, Current
  <1>4. write'.pos = IF data THEN at + 1 ELSE at
    BY <1>1, <1>2 DEF WriteJob
  <1>5. Len(c) \in Nat /\ Len(c) <= Size[f]
    BY <1>0, <1>2, Contents
  <1>6. /\ DOMAIN part' = File /\ \A g \in File : g # f => part'[g] = part[g]
        /\ part'[f] \in Content(f) /\ write'.pos \in Nat /\ write'.pos <= Len(part'[f])
        /\ data => /\ part'[f][at + 1] = <<v, n>>
                   /\ \A k \in 1..Len(part'[f]) :
                         k # at + 1 => k \in 1..Len(part[f]) /\ part'[f][k] = part[f][k]
        /\ ~data => part' = part
    <2>0. DOMAIN part = File
      BY <1>2 DEF TransferShape
    <2>1. CASE data
      <3>1. at < Size[f] /\ n \in 1..Size[f]
        BY <1>0, <1>2, <1>3, <2>1
      <3>2. /\ WriteAt(c, at, <<v, n>>) \in Content(f)
            /\ at + 1 <= Len(WriteAt(c, at, <<v, n>>))
            /\ WriteAt(c, at, <<v, n>>)[at + 1] = <<v, n>>
            /\ \A k \in 1..Len(WriteAt(c, at, <<v, n>>)) :
                  k # at + 1 => k \in 1..Len(c) /\ WriteAt(c, at, <<v, n>>)[k] = c[k]
        <4>1. PICK b : b = <<v, n>>
          OBVIOUS
        <4>2. b \in (1..MaxVersion) \X (1..Size[f])
          BY <1>0, <3>1, <4>1
        <4> HIDE DEF c, at, v
        <4>3. /\ WriteAt(c, at, b) \in Content(f)
              /\ at + 1 <= Len(WriteAt(c, at, b))
              /\ WriteAt(c, at, b)[at + 1] = b
              /\ \A k \in 1..Len(WriteAt(c, at, b)) :
                    k # at + 1 => k \in 1..Len(c) /\ WriteAt(c, at, b)[k] = c[k]
          BY <1>0, <1>2, <3>1, <4>2, WrittenAt
        <4> QED
          BY <4>1, <4>3
      <3>3. /\ DOMAIN part' = File /\ part'[f] = WriteAt(c, at, <<v, n>>)
            /\ \A g \in File : g # f => part'[g] = part[g]
        BY <1>0, <1>1, <2>0, <2>1
      <3>4. write'.pos = at + 1 /\ write'.pos \in Nat
        BY <1>2, <1>4, <2>1
      <3> HIDE DEF at, v
      <3> QED
        BY <2>1, <3>2, <3>3, <3>4
    <2>2. CASE ~data
      BY <2>0, <2>2, <1>1, <1>2, <1>4
    <2> QED
      BY <2>1, <2>2
  <1> HIDE DEF c, at, v
  <1>7. \A g \in File : /\ path'[g] \in Content(g) \cup {None, Mine}
                        /\ part'[g] \in Content(g) \cup {None}
    <2>1. \A g \in File : /\ path[g] \in Content(g) \cup {None, Mine}
                          /\ part[g] \in Content(g) \cup {None}
      BY <1>2 DEF TransferShape
    <2> QED
      BY <1>1, <1>6, <2>1
  <1>8. DiskTyped'
    BY <1>0, <1>1, <1>2, <1>6, <1>7 DEF DiskTyped, TransferShape, Content
  <1>9. f \notin holed' => Exact(f) /\ ~fails /\ f \notin holed
    BY <1>1, <1>3
  <1>10. PartsTrue'
    <2> SUFFICES ASSUME NEW g \in File, part'[g] # None, g \notin holed',
                        NEW k \in 1..Len(part'[g])
                 PROVE  part'[g][k] = <<digest'[g], k>>
      BY DEF PartsTrue
    <2>p. \A x \in 1..Len(part[g]) : part[g] # None /\ g \notin holed =>
             part[g][x] = <<digest[g], x>>
      BY DEF TransferIInv, PartsTrue
    <2>1. CASE g # f
      BY <2>1, <2>p, <1>1, <1>6
    <2>2. CASE g = f
      <3>1. part[f] # None /\ f \notin holed /\ n = at + 1 /\ ~fails
        BY <2>2, <1>0, <1>2, <1>3, <1>9, Contents DEF c
      <3>2. CASE data /\ k = at + 1
        BY <2>2, <3>1, <3>2, <1>1, <1>3, <1>6
      <3>3. CASE data /\ k # at + 1
        <4>1. k \in 1..Len(part[f]) /\ part'[f][k] = part[f][k]
          BY <2>2, <3>3, <1>6
        <4> QED
          BY <2>2, <2>p, <3>1, <4>1, <1>1
      <3>4. CASE ~data
        BY <2>2, <2>p, <3>1, <3>4, <1>1, <1>6
      <3> QED
        BY <3>2, <3>3, <3>4
    <2> QED
      BY <2>1, <2>2
  <1>11. part'[f] # None
    BY <1>0, <1>6, Contents
  <1>12. write'.pos = IF data THEN Expected(f) ELSE Expected(f) - 1
    BY <1>2, <1>3, <1>4
  <1>13. agreed[f] = "lost" => f \in holed'
    BY <1>1, <1>2
  <1>14. digest'[f] = write.digest
    BY <1>0, <1>1, <1>3
  <1> QED
    BY <1>1, <1>4, <1>6, <1>8, <1>9, <1>10, <1>11, <1>12, <1>13, <1>14

(* A block that closes the current file and begins the next one.           *)
LEMMA BlockRenews ==
    ASSUME TransferIInv, down # <<>>, Head(down).id = write.id, Head(down).type = "block",
           write.id # 0, NEW f, NEW n, f = Head(down).file, n = Head(down).number,
           NEW fails \in BOOLEAN, OnBlock(Head(down), fails),
           ~(write.stream /\ write.file_num = f)
    PROVE  /\ DiskTyped' /\ PartsTrue' /\ digest'[f] = write.digest
           /\ path' = ModifyTime(write)[1]
           /\ part'[f] # None /\ write'.pos \in Nat /\ write'.pos <= Len(part'[f])
           /\ write'.pos = IF n <= Size[f] /\ ~fails THEN Expected(f) ELSE Expected(f) - 1
           /\ f \notin holed' => Exact(f) /\ ~fails
           /\ agreed[f] = "lost" => f \in holed'
           /\ write' = [write EXCEPT !.file_num = f, !.stream = TRUE, !.pos = write'.pos]
  <1> DEFINE v == Head(down).version
             data == n <= Size[f] /\ ~fails
             g == write.file_num
             P == ModifyTime(write)[1]
             O == ModifyTime(write)[2]
             D == ModifyTime(write)[3]
             base == [O EXCEPT ![f] = <<>>]
  <1>0. /\ f \in File /\ f \in Nat /\ n \in Nat /\ n \in 1..Size[f] + 1 /\ Size[f] \in Nat
        /\ v = write.digest /\ write.digest \in 1..MaxVersion /\ v \in 1..MaxVersion
        /\ Expected(f) <= n /\ (Exact(f) => n = Expected(f)) /\ Current(f)
        /\ g \in File /\ write.files /\ agreed[f] # "no"
    BY BlockFacts
  <1>1. /\ path' = P
        /\ part' = IF data THEN [base EXCEPT ![f] = WriteAt(@, 0, <<v, n>>)] ELSE base
        /\ digest' = [D EXCEPT ![f] = write.digest]
        /\ write' = [write EXCEPT !.file_num = f, !.stream = TRUE,
                                  !.pos = IF data THEN 0 + 1 ELSE 0]
        /\ holed' = (holed \ {g, f}) \cup (IF fails \/ agreed[f] = "lost" THEN {f} ELSE {})
    BY DEF OnBlock
  <1>2. /\ DOMAIN P = File /\ DOMAIN O = File /\ D \in [File -> 0..MaxVersion]
        /\ \A h \in File : h # g => P[h] = path[h] /\ O[h] = part[h] /\ D[h] = digest[h]
        /\ O[g] = None /\ P[g] \in {path[g], part[g]}
    BY <1>0, Closed
  <1>3. TransferShape /\ write \in WriteJob /\ 0 \in Nat /\ holed \subseteq File
    BY DEF TransferIInv, TransferShape
  <1>4. Expected(f) = 1 /\ (Exact(f) <=> agreed[f] = "yes")
    BY DEF Expected, Exact
  <1>5. write'.pos = IF data THEN 1 ELSE 0
    BY <1>1, <1>3 DEF WriteJob
  <1>6. agreed[f] \in {"no", "yes", "lost"}
    BY <1>0, <1>3 DEF TransferShape
  <1>7. << >> \in Content(f)
    <2>1. << >> \in Seq((1..MaxVersion) \X (1..Size[f])) /\ Len(<< >>) <= Size[f]
      BY <1>0
    <2> QED
      BY <2>1, <1>0, NewContents
  <1> HIDE DEF P, O, D, g, v
  <1>8. /\ DOMAIN part' = File /\ \A h \in File : h # f => part'[h] = O[h]
        /\ part'[f] \in Content(f) /\ write'.pos \in Nat /\ write'.pos <= Len(part'[f])
        /\ \A k \in 1..Len(part'[f]) : data /\ k = 1 /\ part'[f][k] = <<v, n>>
    <2>b. DOMAIN base = File /\ base[f] = <<>> /\ \A h \in File : h # f => base[h] = O[h]
      BY <1>0, <1>2
    <2> HIDE DEF base
    <2>1. CASE data
      <3>1. PICK b : b = <<v, n>>
        OBVIOUS
      <3>2. b \in (1..MaxVersion) \X (1..Size[f]) /\ 0 < Size[f]
        BY <1>0, <2>1, <3>1
      <3>3. /\ WriteAt(<<>>, 0, b) \in Content(f)
            /\ 0 + 1 <= Len(WriteAt(<<>>, 0, b))
            /\ WriteAt(<<>>, 0, b)[0 + 1] = b
            /\ \A k \in 1..Len(WriteAt(<<>>, 0, b)) : k # 0 + 1 => k \in 1..Len(<<>>)
        BY <1>0, <1>7, <3>2, WrittenAt
      <3>4. /\ DOMAIN part' = File /\ part'[f] = WriteAt(<<>>, 0, b)
            /\ \A h \in File : h # f => part'[h] = O[h]
        BY <1>0, <1>1, <2>1, <2>b, <3>1
      <3> HIDE DEF v
      <3>5. \A k \in 1..Len(part'[f]) : k = 1 /\ part'[f][k] = b
        BY <3>3, <3>4
      <3> QED
        BY <2>1, <3>1, <3>3, <3>4, <3>5, <1>5
    <2>2. CASE ~data
      <3>1. part' = base /\ write'.pos = 0
        BY <2>2, <1>1, <1>5
      <3> QED
        BY <2>2, <3>1, <2>b, <1>7
    <2> QED
      BY <2>1, <2>2
  <1>9. digest' \in [File -> 0..MaxVersion] /\ digest'[f] = write.digest
        /\ \A h \in File : h # f => digest'[h] = D[h]
    <2>1. write.digest \in 0..MaxVersion
      BY <1>3 DEF WriteJob
    <2> QED
      BY <2>1, <1>0, <1>1, <1>2
  <1> HIDE DEF data, base
  <1>10. \A h \in File : /\ path'[h] \in Content(h) \cup {None, Mine}
                         /\ part'[h] \in Content(h) \cup {None}
    <2>1. \A h \in File : /\ path[h] \in Content(h) \cup {None, Mine}
                          /\ part[h] \in Content(h) \cup {None}
      BY <1>3 DEF TransferShape
    <2>2. \A h \in File : O[h] \in Content(h) \cup {None}
      BY <1>2, <2>1
    <2>3. \A h \in File : P[h] \in Content(h) \cup {None, Mine}
      BY <1>2, <2>1
    <2> QED
      BY <1>1, <1>8, <2>2, <2>3
  <1>11. holed' \subseteq File /\ DOMAIN path' = File
    BY <1>0, <1>1, <1>2, <1>3
  <1>12. DiskTyped'
    BY <1>8, <1>9, <1>10, <1>11 DEF DiskTyped, Content
  <1>13. f \notin holed' => Exact(f) /\ ~fails
    BY <1>0, <1>1, <1>4, <1>6
  <1>14. PartsTrue'
    <2> SUFFICES ASSUME NEW h \in File, part'[h] # None, h \notin holed',
                        NEW k \in 1..Len(part'[h])
                 PROVE  part'[h][k] = <<digest'[h], k>>
      BY DEF PartsTrue
    <2>1. CASE h = f
      BY <2>1, <1>0, <1>4, <1>8, <1>9, <1>13
    <2>2. CASE h # f
      <3>1. h # g /\ part'[h] = part[h] /\ digest'[h] = digest[h]
        BY <2>2, <1>2, <1>8, <1>9
      <3>2. h \notin holed
        BY <2>2, <3>1, <1>1
      <3> QED
        BY <3>1, <3>2 DEF TransferIInv, PartsTrue
    <2> QED
      BY <2>1, <2>2
  <1>15. part'[f] # None
    BY <1>0, <1>8, Contents
  <1>16. agreed[f] = "lost" => f \in holed'
    BY <1>1
  <1>17. write'.pos = IF n <= Size[f] /\ ~fails THEN Expected(f) ELSE Expected(f) - 1
    BY <1>4, <1>5 DEF data
  <1> QED
    BY <1>1, <1>5, <1>8, <1>9, <1>12, <1>13, <1>14, <1>15, <1>16, <1>17 DEF P

(* What is due after a block was taken.                                    *)
BlockTaken(f, n, fails) ==
    /\ down # <<>> /\ down' = Tail(down) /\ Head(down).id = write.id
    /\ Head(down).type = "block" /\ write.id # 0
    /\ f = Head(down).file /\ n = Head(down).number
    /\ write'.id = write.id /\ write'.files /\ write'.stream /\ write'.file_num = f
    /\ write'.digest = write.digest /\ digest'[f] = write.digest
    /\ part'[f] # None /\ write'.pos \in Nat /\ write'.pos <= Len(part'[f])
    /\ write'.pos = IF n <= Size[f] /\ ~fails THEN Expected(f) ELSE Expected(f) - 1
    /\ f \notin holed' => Exact(f) /\ ~fails
    /\ agreed[f] = "lost" => f \in holed'
    /\ UNCHANGED <<up, ask, agreed, source, reads>>

LEMMA BlockPipe ==
    ASSUME TransferIInv, NEW f, NEW n, NEW fails \in BOOLEAN, BlockTaken(f, n, fails)
    PROVE  PipeInOrder' /\ StreamTrue'
  <1>a. /\ write'.id = write.id /\ write'.files /\ write'.stream /\ write'.file_num = f
        /\ write'.digest = write.digest /\ digest'[f] = write.digest
        /\ UNCHANGED <<up, ask, agreed, source, reads>>
    BY DEF BlockTaken
  <1>p. /\ part'[f] # None /\ write'.pos \in Nat /\ write'.pos <= Len(part'[f])
        /\ write'.pos = IF n <= Size[f] /\ ~fails THEN Expected(f) ELSE Expected(f) - 1
    BY DEF BlockTaken
  <1>h. /\ f \notin holed' => Exact(f) /\ ~fails
        /\ agreed[f] = "lost" => f \in holed'
    BY DEF BlockTaken
  <1>0. /\ f \in File /\ f \in Nat /\ n \in Nat /\ n \in 1..Size[f] + 1 /\ Size[f] \in Nat
        /\ Head(down).version = write.digest
        /\ Current(f) /\ Comes(f) /\ Expected(f) \in Nat /\ 1 <= Expected(f) /\ Expected(f) <= n
        /\ Exact(f) => n = Expected(f)
        /\ \A k \in Due : k # 1 /\ down[k].type = "block" => down[k].file = f /\ n < down[k].number
        /\ agreed[f] # "no" /\ Answers = {} /\ ask = {}
        /\ \A k \in Due : down[k].type # "dir"
        /\ 1 \in Due /\ Head(down) = down[1]
    BY BlockFacts DEF BlockTaken
  <1>n. /\ n \in Nat /\ Size[f] \in Nat /\ Expected(f) \in Nat /\ 1 <= Expected(f)
        /\ Expected(f) <= n /\ n >= 1
    BY <1>0
  <1>d. 1 \in Due /\ down[1].type = "block" /\ down[1].file = f /\ down[1].number = n
    BY <1>0 DEF BlockTaken
  <1>1. /\ \A i \in Due : i # 1 => i - 1 \in Due' /\ down'[i - 1] = down[i]
        /\ \A i \in Due' : i + 1 \in Due /\ down'[i] = down[i + 1]
        /\ Broken' = Broken
    BY TailDue, <1>d DEF BlockTaken
  <1>2. \A i \in Due' : i \in Nat /\ i >= 1 /\ i + 1 # 1
    BY DEF Due
  <1>3. Answers' = {} /\ ask' = {} /\ Readers' = Readers
    BY <1>0, <1>a DEF Answers, Readers
  <1>4. /\ Current(f)' /\ Expected(f)' = write'.pos + 1 /\ (Exact(f)' <=> f \notin holed')
        /\ FilesKnown'
    BY <1>0, <1>a DEF Current, Expected, Exact, FilesKnown
  <1>5. /\ Expected(f)' = IF n <= Size[f] /\ ~fails THEN Expected(f) + 1 ELSE Expected(f)
        /\ Expected(f)' <= n + 1 /\ Expected(f)' \in Nat
        /\ Exact(f)' => Exact(f) /\ ~fails /\ n = Expected(f)
    BY <1>0, <1>n, <1>p, <1>h, <1>4
  <1>6. \A i \in Due' : down'[i].type = "block" =>
           /\ down'[i].file = f /\ n < down'[i].number /\ down'[i].number \in Nat
           /\ down'[i].number \in 1..Size[f] + 1
    <2>1. \A k \in Due : down[k].type = "block" => down[k].number \in 1..Size[down[k].file] + 1
      BY DEF TransferIInv, InBounds, Due
    <2>2. ASSUME NEW i \in Due', down'[i].type = "block"
          PROVE  /\ down'[i].file = f /\ n < down'[i].number
                 /\ down'[i].number \in 1..Size[f] + 1
      <3>1. i + 1 \in Due /\ i + 1 # 1 /\ down'[i] = down[i + 1]
        BY <1>1, <1>2
      <3> QED
        BY <2>1, <2>2, <3>1, <1>0
    <2>3. \A x \in 1..Size[f] + 1 : x \in Nat
      BY <1>n
    <2> QED
      BY <2>2, <2>3
  <1>7. ASSUME NEW x, Upcoming(x), x \in Nat PROVE Upcoming(x)'
    <2>1. f < x
      BY <1>7, <1>d DEF Upcoming
    <2>2. \A k \in Due' : down'[k].type = "block" => down'[k].file < x
      BY <2>1, <1>6
    <2> QED
      BY <2>1, <2>2, <1>a DEF Upcoming
  <1>8. n <= Size[f] => Comes(f)'
    <2> SUFFICES ASSUME n <= Size[f] PROVE Comes(f)'
      OBVIOUS
    <2>1. ASSUME NEW k \in Due, down[k].type = "block", down[k].file = f,
                 down[k].number = Size[f] + 1
          PROVE  Comes(f)'
      <3>1. k # 1
        BY <2>1, <1>d, <1>n
      <3> QED
        BY <2>1, <3>1, <1>1 DEF Comes
    <2>2. ASSUME Goes(f) PROVE Goes(f)'
      <3>1. \A k \in Due' : down'[k].type = "block" /\ down'[k].file = f
        <4>1. \A k \in Due : down[k].type = "block" /\ down[k].file = f
          BY <2>2 DEF Goes
        <4> QED
          BY <4>1, <1>1
      <3>2. Broken \/ \E r \in Readers : reads[r].file_num = f /\ Sends(reads[r])
        BY <2>2, <1>0 DEF Goes
      <3>3. Broken' \/ \E r \in Readers' : reads'[r].file_num = f /\ Sends(reads[r])'
        BY <3>2, <1>1, <1>3, <1>a DEF Sends
      <3> QED
        BY <3>1, <3>3 DEF Goes
    <2> QED
      BY <2>1, <2>2, <1>0 DEF Comes
  <1>9. ASSUME NEW i \in Due' PROVE BlockInOrder(i)'
    <2> SUFFICES ASSUME down'[i].type = "block" PROVE BlockInOrder(i)'
      BY DEF BlockInOrder
    <2>1. /\ i + 1 \in Due /\ down'[i] = down[i + 1] /\ i \in Nat /\ i >= 1 /\ i + 1 # 1
          /\ BlockInOrder(i + 1)
      BY <1>1, <1>2 DEF TransferIInv, PipeInOrder
    <2>2. /\ down'[i].file = f /\ n < down'[i].number /\ down'[i].number \in Nat
          /\ down'[i].number \in 1..Size[f] + 1
      BY <1>6
    <2>3. n <= Size[f]
      BY <2>2, <1>n
    <2>4. Expected(f)' <= down'[i].number
      BY <2>2, <1>n, <1>5
    <2>5. down'[i].version = write'.digest
      BY <2>1, <1>a DEF BlockInOrder
    <2>6. ASSUME Exact(f)'
          PROVE  \/ down'[i].number = Expected(f)'
                 \/ \E k \in Due' : /\ k < i /\ down'[k].type = "block"
                                    /\ down'[k].number = down'[i].number - 1
      <3>1. Exact(f) /\ ~fails /\ n = Expected(f) /\ Expected(f)' = n + 1
        BY <2>6, <2>3, <1>5, <1>0
      <3>2. \E k \in Due : /\ k < i + 1 /\ down[k].type = "block"
                           /\ down[k].number = down'[i].number - 1
        <4>1. down'[i].number # Expected(f)
          BY <3>1, <2>2, <1>n
        <4> QED
          BY <3>1, <4>1, <2>1, <2>2 DEF BlockInOrder
      <3>3. PICK k \in Due : /\ k < i + 1 /\ down[k].type = "block"
                             /\ down[k].number = down'[i].number - 1
        BY <3>2
      <3>4. CASE k = 1
        BY <3>1, <3>3, <3>4, <2>2, <1>d, <1>n
      <3>5. CASE k # 1
        <4>1. k \in Nat /\ k - 1 < i
          BY <3>3, <2>1, DueIndex
        <4> QED
          BY <3>3, <3>5, <4>1, <1>1
      <3> QED
        BY <3>4, <3>5
    <2>7. ASSUME NEW k \in Due', k > i, down'[k].type = "block"
          PROVE  down'[k].file = down'[i].file /\ down'[i].number < down'[k].number
      <3>1. k + 1 \in Due /\ k \in Nat /\ down'[k] = down[k + 1] /\ k + 1 > i + 1
        <4>1. k + 1 \in Due /\ k \in Nat /\ down'[k] = down[k + 1]
          BY <1>1, <1>2
        <4>2. k > i /\ i \in Nat
          BY <2>1, <2>7
        <4> QED
          BY <4>1, <4>2
      <3> QED
        BY <3>1, <2>1, <2>7 DEF BlockInOrder
    <2> QED
      BY <2>2, <2>3, <2>4, <2>5, <2>6, <2>7, <1>4, <1>8 DEF BlockInOrder
  <1>10. ASSUME NEW i \in Due' PROVE OtherInOrder(i)'
    <2>1. /\ i + 1 \in Due /\ down'[i] = down[i + 1] /\ i \in Nat /\ i >= 1
          /\ OtherInOrder(i + 1) /\ down[i + 1] \in ToClient
      BY <1>1, <1>2, DueIndex DEF TransferIInv, PipeInOrder
    <2>2. down'[i].type # "dir"
      BY <1>0, <2>1
    <2>3. down'[i].type \in {"digest", "done"} => \A k \in Due' : k <= i
      <3>1. ASSUME down'[i].type \in {"digest", "done"}, NEW k \in Due' PROVE k <= i
        <4>1. k + 1 \in Due /\ k \in Nat
          BY <1>1, <1>2
        <4>2. k + 1 <= i + 1
          BY <2>1, <3>1, <4>1 DEF OtherInOrder
        <4> QED
          BY <4>1, <4>2, <2>1
      <3> QED
        BY <3>1
    <2>4. down'[i].type = "digest" =>
            /\ ~Broken' /\ Upcoming(down[i].file)'
            /\ down'[i].version = source'[down'[i].file]
            /\ \E r \in Readers' : Waits(reads[r])' /\ reads'[r].file_num = down'[i].file
      <3> SUFFICES ASSUME down'[i].type = "digest"
                   PROVE  /\ ~Broken' /\ Upcoming(down[i].file)'
                          /\ down'[i].version = source'[down'[i].file]
                          /\ \E r \in Readers' : Waits(reads[r])' /\ reads'[r].file_num = down'[i].file
        OBVIOUS
      <3>1. down'[i].file \in Nat
        BY <2>1, Files DEF ToClient
      <3>2. /\ ~Broken /\ Upcoming(down'[i].file) /\ down'[i].version = source[down'[i].file]
            /\ \E r \in Readers : Waits(reads[r]) /\ reads[r].file_num = down'[i].file
        BY <2>1 DEF OtherInOrder
      <3> QED
        BY <3>1, <3>2, <1>1, <1>3, <1>7, <1>a
    <2>5. down'[i].type = "done" => Upcoming(Beyond)' /\ Readers' = {}
      <3>1. Upcoming(Beyond) => Upcoming(Beyond)'
        BY <1>7, Files DEF Beyond
      <3> QED
        BY <3>1, <2>1, <1>3 DEF OtherInOrder
    <2> QED
      BY <2>2, <2>3, <2>4, <2>5, <1>3, <1>4 DEF OtherInOrder
  <1>11. ASSUME NEW r \in Readers' PROVE ReaderInOrder(r)'
    <2>1. /\ ReaderInOrder(r) /\ reads'[r] = reads[r] /\ r \in Readers /\ Readers' = {r}
          /\ reads[r].file_num \in Nat /\ reads[r].pos \in Nat
          /\ reads[r].stream => reads[r].pos <= Size[reads[r].file_num]
      <3>1. r \in 1..Len(reads) /\ reads \in Seq(Reader)
        BY <1>3, <1>a DEF Readers, TransferIInv, TransferShape
      <3>2. reads[r] \in Reader
        BY <3>1
      <3> QED
        BY <3>1, <3>2, <1>3, <1>a, Files
           DEF TransferIInv, PipeInOrder, ReaderInOrder, Reader, InBounds
    <2> DEFINE h == reads[r].file_num
               p == reads[r].pos
    <2>2. ASSUME Idle(reads[r]), Upcoming(h), \A k \in Due : down[k].type # "digest"
          PROVE  ReaderInOrder(r)'
      <3>1. \A k \in Due' : down'[k].type # "digest"
        BY <2>2, <1>1
      <3>2. Idle(reads[r])' /\ Upcoming(reads[r].file_num)'
        BY <2>1, <2>2, <1>7 DEF Idle
      <3> QED
        BY <2>1, <3>1, <3>2, <1>3, <1>4 DEF ReaderInOrder
    <2>3. ASSUME Waits(reads[r]), \E k \in Due : down[k].type = "digest"
          PROVE  ReaderInOrder(r)'
      <3>1. \E k \in Due' : down'[k].type = "digest"
        <4>1. PICK k \in Due : down[k].type = "digest"
          BY <2>3
        <4>2. k # 1
          BY <4>1, <1>d
        <4> QED
          BY <4>1, <4>2, <1>1
      <3>2. Waits(reads[r])'
        BY <2>1, <2>3 DEF Waits
      <3> QED
        BY <2>1, <3>1, <3>2 DEF ReaderInOrder
    <2>4. ASSUME Sends(reads[r]), source[h] = write.digest,
                 \A k \in Due : /\ down[k].type = "block" /\ down[k].file = h
                                /\ down[k].number <= p,
                 Exact(h) => p + 1 = Expected(h) \/ \E k \in Due : down[k].number = p
          PROVE  ReaderInOrder(r)'
      <3>1. h = f /\ n <= p /\ p <= Size[f]
        BY <2>1, <2>4, <1>d DEF Sends
      <3>2. \A k \in Due' : /\ down'[k].type = "block" /\ down'[k].file = f
                            /\ down'[k].number <= p
        BY <2>4, <3>1, <1>1
      <3>3. Expected(f)' <= p + 1
        BY <3>1, <2>1, <1>0, <1>5
      <3>4. ASSUME Exact(f)'
            PROVE  p + 1 = Expected(f)' \/ \E k \in Due' : down'[k].number = p
        <4>1. Exact(f) /\ n = Expected(f) /\ Expected(f)' = n + 1
          BY <3>1, <3>4, <1>0, <1>5, <2>1
        <4>2. \E k \in Due : down[k].number = p
          BY <2>4, <3>1, <4>1, <2>1, <1>0
        <4>3. PICK k \in Due : down[k].number = p
          BY <4>2
        <4>4. k # 1 => \E j \in Due' : down'[j].number = p
          BY <4>3, <1>1
        <4>5. k = 1 => n = p
          BY <4>3, <1>d
        <4> QED
          BY <4>1, <4>4, <4>5
      <3>5. Sends(reads[r])' /\ reads'[r].file_num = f /\ reads'[r].pos = p
        BY <2>1, <2>4, <3>1 DEF Sends
      <3>6. source'[f] = write'.digest
        BY <2>4, <3>1, <1>a
      <3> QED
        BY <2>1, <3>2, <3>3, <3>4, <3>5, <3>6, <1>3, <1>4 DEF ReaderInOrder
    <2> QED
      BY <2>1, <2>2, <2>3, <2>4, <1>0, <1>1 DEF ReaderInOrder
  <1>12. PipeInOrder'
    BY <1>3, <1>9, <1>10, <1>11 DEF PipeInOrder
  <1>13. f \notin holed' => Size[f] <= write'.pos \/ Comes(f)'
    <2>1. CASE n <= Size[f]
      BY <2>1, <1>8
    <2>2. CASE ~(n <= Size[f])
      BY <2>2, <1>0, <1>n, <1>p, <1>4, <1>5
    <2> QED
      BY <2>1, <2>2
  <1>14. StreamTrue'
    BY <1>0, <1>13, <1>a, <1>p, <1>h DEF StreamTrue
  <1> QED
    BY <1>12, <1>14

LEMMA BlockKeeps ==
    ASSUME TransferIInv, down # <<>>, down' = Tail(down), Head(down).id = write.id,
           Head(down).type = "block", write.id # 0, NEW fails \in BOOLEAN,
           OnBlock(Head(down), fails), errors' \in Nat, UNCHANGED <<up, ask, failed, agreed>>,
           UNCHANGED <<source, saved, lastId, losses, reads>>
    PROVE  TransferIInv'
  <1>0. PICK f, n : f = Head(down).file /\ n = Head(down).number
    OBVIOUS
  <1>1. /\ DiskTyped' /\ PartsTrue' /\ digest'[f] = write.digest
        /\ part'[f] # None /\ write'.pos \in Nat /\ write'.pos <= Len(part'[f])
        /\ write'.pos = IF n <= Size[f] /\ ~fails THEN Expected(f) ELSE Expected(f) - 1
        /\ f \notin holed' => Exact(f) /\ ~fails
        /\ agreed[f] = "lost" => f \in holed'
        /\ write' = [write EXCEPT !.file_num = f, !.stream = TRUE, !.pos = write'.pos]
    BY <1>0, BlockGoesOn, BlockRenews
  <1>2. write \in WriteJob /\ f \in 1..Beyond /\ write.files
    BY <1>0, BlockFacts, Files DEF TransferIInv, TransferShape
  <1>3. /\ write' \in WriteJob /\ write'.id = write.id /\ write'.stream /\ write'.file_num = f
        /\ write'.digest = write.digest /\ write'.files
    <2>1. PICK p \in Nat : write' = [write EXCEPT !.file_num = f, !.stream = TRUE, !.pos = p]
      BY <1>1
    <2> QED
      BY <2>1, <1>2 DEF WriteJob
  <1>4. TransferShape'
    BY <1>1, <1>3, Received DEF TransferIInv, TransferShape, DiskTyped
  <1>5. InBounds'
    BY Received DEF TransferIInv, InBounds
  <1>6. IdsKnown'
    BY Received, <1>3 DEF TransferIInv, IdsKnown
  <1>7. BlockTaken(f, n, fails)
    BY <1>0, <1>1, <1>3 DEF BlockTaken
  <1>8. PipeInOrder' /\ StreamTrue'
    BY <1>7, BlockPipe
  <1> QED
    BY <1>1, <1>4, <1>5, <1>6, <1>8 DEF TransferIInv

LEMMA ClientReceivesKeeps == ASSUME TransferIInv, ClientReceives PROVE TransferIInv'
  <1> DEFINE m == Head(down)
             mine == write.id # 0 /\ write.id = m.id
  <1>1. /\ down # <<>> /\ down' = Tail(down) /\ UNCHANGED <<source, saved, lastId, losses, reads>>
    BY DEF ClientReceives
  <1>2. m.id # 0 /\ (mine <=> m.id = write.id)
    <2>1. m.id \in 1..lastId
      BY <1>1, Received
    <2> QED
      BY <2>1
  <1>3. CASE /\ m.type = "dir" /\ write' = (IF mine THEN [write EXCEPT !.files = TRUE] ELSE write)
             /\ UNCHANGED <<disk, up, ask, failed, errors, holed, agreed>>
    BY <1>1, <1>2, <1>3, DirKeeps, OthersMessage
  <1>4. CASE m.type = "digest" /\ OnDigest(m) /\ UNCHANGED <<disk, failed, errors, holed>>
    <2>1. CASE mine
      BY <1>1, <1>2, <1>4, <2>1, DigestKeeps
    <2>2. CASE ~mine
      <3>1. UNCHANGED <<write, up, ask, agreed>>
        BY <1>2, <1>4, <2>2 DEF OnDigest
      <3> QED
        BY <1>1, <1>2, <1>4, <2>2, <3>1, OthersMessage
    <2> QED
      BY <2>1, <2>2
  <1>5. ASSUME m.type = "block", mine, NEW fails \in BOOLEAN, OnBlock(m, fails),
               errors' = IF fails THEN errors + 1 ELSE errors,
               UNCHANGED <<up, ask, failed, agreed>>
        PROVE  TransferIInv'
    <2>1. errors' \in Nat
      BY <1>5 DEF TransferIInv, TransferShape
    <2> QED
      BY <1>1, <1>5, <2>1, BlockKeeps
  <1>6. CASE /\ m.type = "block" /\ ~mine
             /\ UNCHANGED <<disk, write, up, ask, failed, errors, holed, agreed>>
    BY <1>1, <1>2, <1>6, OthersMessage
  <1>7. CASE /\ m.type = "done"
             /\ LET new == IF mine THEN ModifyTime(write) ELSE disk
                IN  path' = new[1] /\ part' = new[2] /\ digest' = new[3]
             /\ holed' = (IF mine THEN holed \ {write.file_num} ELSE holed)
             /\ write' = (IF mine THEN NoJob ELSE write)
             /\ agreed' = (IF mine THEN Unasked ELSE agreed)
             /\ UNCHANGED <<up, ask, failed, errors>>
    <2>1. CASE mine
      <3>1. /\ path' = ModifyTime(write)[1] /\ part' = ModifyTime(write)[2]
            /\ digest' = ModifyTime(write)[3] /\ holed' = holed \ {write.file_num}
            /\ write' = NoJob /\ agreed' = Unasked
        BY <1>7, <2>1
      <3> QED
        BY <1>1, <1>2, <1>7, <2>1, <3>1, DoneKeeps
    <2>2. CASE ~mine
      <3>1. UNCHANGED <<disk, holed, write, agreed>>
        BY <1>7, <2>2 DEF disk
      <3> QED
        BY <1>1, <1>2, <1>7, <2>2, <3>1, OthersMessage
    <2> QED
      BY <2>1, <2>2
  <1>8. CASE /\ m.type = "error" /\ write' = (IF mine THEN NoJob ELSE write)
             /\ agreed' = (IF mine THEN Unasked ELSE agreed) /\ ask' = (IF mine THEN {} ELSE ask)
             /\ failed' = failed \cup {m.id} /\ UNCHANGED <<disk, up, errors, holed>>
    <2>1. CASE mine
      BY <1>1, <1>2, <1>8, <2>1, ErrorKeeps
    <2>2. CASE ~mine
      BY <1>1, <1>2, <1>8, <2>2, OthersMessage
    <2> QED
      BY <2>1, <2>2
  <1> QED
    BY <1>3, <1>4, <1>5, <1>6, <1>7, <1>8 DEF ClientReceives

-----------------------------------------------------------------------------
(* The connection takes a message, or handles its read jobs.               *)
ReadsTyped ==
    /\ reads \in Seq(Reader)
    /\ \A i \in 1..Len(reads) :
          /\ reads[i].id \in 1..lastId
          /\ reads[i].stream \/ reads[i].confirmed => reads[i].file_num \in File
          /\ reads[i].stream => reads[i].pos <= Size[reads[i].file_num]
UpTyped ==
    /\ up \in Seq(ToServer)
    /\ \A i \in 1..Len(up) :
          /\ up[i].id \in 1..lastId
          /\ up[i].type = "offset" => up[i].offset <= Size[up[i].file]
DownTyped ==
    /\ down \in Seq(ToClient)
    /\ \A i \in 1..Len(down) :
          /\ down[i].id \in 1..lastId
          /\ down[i].type = "block" => down[i].number \in 1..Size[down[i].file] + 1

LEMMA Typed == ASSUME TransferIInv PROVE ReadsTyped /\ UpTyped /\ DownTyped
  BY DEF TransferIInv, TransferShape, InBounds, IdsKnown, ReadsTyped, UpTyped, DownTyped

LEMMA SenderRest ==
    ASSUME TransferIInv,
           UNCHANGED <<disk, source, write, ask, saved, failed, lastId, losses, holed, agreed>>,
           ReadsTyped', UpTyped', DownTyped', errors' \in Nat, PipeInOrder', StreamTrue'
    PROVE  TransferIInv'
  <1>1. DiskTyped' /\ PartsTrue'
    BY DiskStays
  <1>2. TransferShape'
    BY <1>1 DEF TransferIInv, TransferShape, DiskTyped, ReadsTyped, UpTyped, DownTyped
  <1>3. InBounds'
    BY DEF InBounds, ReadsTyped, UpTyped, DownTyped
  <1>4. IdsKnown'
    BY DEF TransferIInv, IdsKnown, ReadsTyped, UpTyped, DownTyped
  <1> QED
    BY <1>1, <1>2, <1>3, <1>4 DEF TransferIInv

LEMMA Served ==
    ASSUME TransferIInv, up # <<>>, up' = Tail(up), UNCHANGED <<write, lastId>>
    PROVE  /\ UpTyped' /\ Head(up) = up[1] /\ Head(up) \in ToServer /\ Head(up).id \in 1..lastId
           /\ Head(up).type = "offset" => Head(up).offset <= Size[Head(up).file]
           /\ Head(up).id # write.id =>
                 \/ Answers = {} /\ Answers' = {}
                 \/ \E a, b : Answers = {a} /\ Answers' = {b} /\ up'[b] = up[a]
           /\ Head(up).id = write.id => 1 \in Answers /\ Answers' = {}
  <1>1. UpTyped
    BY Typed
  <1>2. /\ up' \in Seq(ToServer) /\ Len(up') = Len(up) - 1 /\ Len(up) \in Nat \ {0}
        /\ \A i \in 1..Len(up) - 1 : up'[i] = up[i + 1] /\ i + 1 \in 1..Len(up)
        /\ Head(up) = up[1] /\ up[1] \in ToServer /\ 1 \in 1..Len(up)
    BY <1>1, TailSeq DEF UpTyped
  <1>3. UpTyped'
    BY <1>1, <1>2 DEF UpTyped
  <1>4. \A i \in Answers' : i + 1 \in Answers /\ up'[i] = up[i + 1] /\ i \in Nat /\ i >= 1
    BY <1>2 DEF Answers
  <1>5. \A a \in Answers : a # 1 => a - 1 \in Answers' /\ up'[a - 1] = up[a] /\ a \in Nat
    <2> SUFFICES ASSUME NEW a \in Answers, a # 1
                 PROVE  a - 1 \in Answers' /\ up'[a - 1] = up[a] /\ a \in Nat
      OBVIOUS
    <2>1. a \in Nat /\ a - 1 \in 1..Len(up) - 1 /\ (a - 1) + 1 = a /\ a \in 1..Len(up)
      BY <1>2 DEF Answers
    <2> QED
      BY <1>2, <2>1 DEF Answers
  <1>6. ASSUME Head(up).id # write.id
        PROVE  \/ Answers = {} /\ Answers' = {}
               \/ \E a, b : Answers = {a} /\ Answers' = {b} /\ up'[b] = up[a]
    <2>0. 1 \notin Answers
      BY <1>2, <1>6 DEF Answers
    <2>1. CASE Answers = {}
      BY <2>1, <1>4
    <2>2. ASSUME NEW a \in Answers, Answers = {a}
          PROVE  Answers' = {a - 1} /\ up'[a - 1] = up[a]
      <3>1. a # 1
        BY <2>0
      <3>2. a - 1 \in Answers' /\ up'[a - 1] = up[a] /\ a \in Nat
        BY <1>5, <3>1
      <3>3. ASSUME NEW i \in Answers' PROVE i = a - 1
        BY <1>4, <2>2, <3>2
      <3> QED
        BY <3>2, <3>3
    <2> QED
      BY <2>1, <2>2, AtMostOne
  <1>7. ASSUME Head(up).id = write.id
        PROVE  1 \in Answers /\ Answers' = {}
    <2>1. 1 \in Answers
      BY <1>2, <1>7 DEF Answers
    <2>2. Answers = {1}
      BY <2>1 DEF TransferIInv, PipeInOrder, AnswerInOrder
    <2>3. ASSUME NEW i \in Answers' PROVE FALSE
      BY <1>4, <2>2
    <2> QED
      BY <2>1, <2>3
  <1> QED
    BY <1>1, <1>2, <1>3, <1>6, <1>7 DEF UpTyped

(* What is unconcerned on the side of the connection.                      *)
LEMMA OthersServed ==
    ASSUME TransferIInv, up # <<>>, up' = Tail(up), Head(up).id # write.id,
           UNCHANGED <<disk, source, write, ask, saved, failed, lastId, losses, holed, agreed>>,
           \A i \in Due : i \in Due' /\ down'[i] = down[i],
           \A i \in Due' : i \in Due, Broken' = Broken,
           \/ Readers = {} /\ Readers' = {}
           \/ \E r, q : Readers = {r} /\ Readers' = {q} /\ reads'[q] = reads[r]
    PROVE  PipeInOrder' /\ StreamTrue'
  <1>1. \A i \in Due : i - 0 = i /\ i + 0 = i /\ i \in Nat
    BY DueIndex
  <1>2. UNCHANGED <<part, digest>>
    BY DEF disk
  <1>3. Unconcerned(0)
    BY <1>1, <1>2, Served DEF Unconcerned
  <1>4. Due' \subseteq Nat
    BY <1>1
  <1> QED
    BY <1>3, <1>4, UnconcernedKeeps

(* process_new_read_job                                                    *)
LEMMA SendKeeps ==
    ASSUME TransferIInv, up # <<>>, up' = Tail(up), Head(up).type = "send", NEW j, NEW d,
           j = [id |-> Head(up).id, file_num |-> Head(up).file, stream |-> FALSE, pos |-> 0,
                confirmed |-> FALSE, waiting |-> FALSE, skipped |-> FALSE],
           d = [type |-> "dir", id |-> Head(up).id],
           reads' = Append(reads, j), down' = Append(down, d), errors' = errors,
           UNCHANGED <<disk, source, write, ask, saved, failed, lastId, losses, holed, agreed>>
    PROVE  TransferIInv'
  <1>1. /\ UpTyped' /\ Head(up) = up[1] /\ Head(up) \in ToServer /\ Head(up).id \in 1..lastId
        /\ ReadsTyped /\ DownTyped
    BY Served, Typed
  <1>2. Head(up).file \in 1..Beyond /\ Head(up).id \in Nat
    BY <1>1 DEF ToServer
  <1>3. /\ j \in Reader /\ d \in ToClient /\ d.type = "dir" /\ d.id = Head(up).id
        /\ j.id = Head(up).id /\ j.file_num = Head(up).file /\ Idle(j) /\ ~j.stream /\ ~j.confirmed
    BY <1>2 DEF Reader, ToClient, Idle
  <1>4. /\ reads' \in Seq(Reader) /\ Len(reads') = Len(reads) + 1 /\ Len(reads) \in Nat
        /\ \A i \in 1..Len(reads) : reads'[i] = reads[i]
        /\ reads'[Len(reads) + 1] = j /\ 1..Len(reads') = 1..Len(reads) \cup {Len(reads) + 1}
    BY <1>1, <1>3, AppendSeq DEF ReadsTyped
  <1>5. /\ down' \in Seq(ToClient) /\ Len(down') = Len(down) + 1
        /\ \A i \in 1..Len(down) : down'[i] = down[i]
        /\ down'[Len(down) + 1] = d /\ 1..Len(down') = 1..Len(down) \cup {Len(down) + 1}
    BY <1>1, <1>3, AppendSeq DEF DownTyped
  <1>6. ReadsTyped' /\ DownTyped' /\ errors' \in Nat
    <2>1. ReadsTyped'
      BY <1>1, <1>3, <1>4 DEF ReadsTyped
    <2>2. DownTyped'
      BY <1>1, <1>3, <1>5 DEF DownTyped
    <2>3. errors' \in Nat
      BY DEF TransferIInv, TransferShape
    <2> QED
      BY <2>1, <2>2, <2>3
  <1>7. /\ \A i \in Due : i \in Due' /\ down'[i] = down[i]
        /\ \A i \in Due' : i \in Due \/ (i = Len(down) + 1 /\ d.id = write.id)
        /\ Broken' = Broken
        /\ d.id = write.id /\ ~Broken => Len(down) + 1 \in Due'
    <2>1. write'.id = write.id /\ d.type # "error"
      BY <1>3
    <2>2. Broken' = (Broken \/ (d.id = write.id /\ d.type = "error"))
      BY <2>1, AppendDue
    <2>3. /\ \A i \in Due : i \in Due' /\ down'[i] = down[i]
          /\ \A i \in Due' : i \in Due \/ (i = Len(down) + 1 /\ d.id = write.id)
          /\ d.id = write.id /\ ~Broken => Len(down) + 1 \in Due'
      BY <2>1, AppendDue
    <2>4. Broken' = Broken
      BY <2>1, <2>2 DEF Broken
    <2> QED
      BY <2>3, <2>4
  <1>8. CASE Head(up).id # write.id
    <2>1. Readers' = Readers /\ \A r \in Readers : reads'[r] = reads[r]
      BY <1>3, <1>4, <1>8 DEF Readers
    <2>2. PipeInOrder' /\ StreamTrue'
      <3>1. \A i \in Due' : i \in Due
        BY <1>3, <1>7, <1>8
      <3> QED
        BY <1>7, <1>8, <2>1, <3>1, AtMostOne, OthersServed
    <2> QED
      BY <1>1, <1>6, <2>2, SenderRest
  <1>9. CASE Head(up).id = write.id
    <2>1. 1 \in Answers /\ Answers' = {}
      BY <1>9, Served
    <2>2. /\ Due = {} /\ ask = {} /\ ~Broken /\ ~write.stream /\ ~write.files
          /\ write.file_num = Head(up).file /\ Readers = {}
      BY <1>1, <2>1 DEF TransferIInv, PipeInOrder, AnswerInOrder
    <2> DEFINE e == Len(down) + 1
               s == Len(reads) + 1
    <2>3. Due' = {e} /\ down'[e] = d /\ ~Broken'
      BY <1>3, <1>5, <1>7, <1>9, <2>2
    <2>4. Readers' = {s} /\ reads'[s] = j
      BY <1>3, <1>4, <1>9, <2>2 DEF Readers
    <2>5. e \in Nat
      BY <1>1 DEF DownTyped
    <2> HIDE DEF e, s
    <2>6. FilesKnown' /\ Upcoming(j.file_num)'
      BY <1>3, <2>2, <2>3 DEF FilesKnown, Upcoming
    <2>7. ASSUME NEW i \in Due' PROVE BlockInOrder(i)' /\ OtherInOrder(i)'
      <3>1. i = e /\ down'[i] = d
        BY <2>3
      <3>2. \A k \in Due' : i <= k /\ down'[k].type # "block"
        <4>1. \A k \in Due' : k = i
          BY <2>3, <3>1
        <4>0. \A x \in Nat : x <= x
          OBVIOUS
        <4>2. i <= i
          BY <2>5, <3>1, <4>0, Zenon
        <4>3. down'[i].type # "block"
          BY <1>3, <3>1
        <4> QED
          BY <4>1, <4>2, <4>3
      <3> QED
        BY <1>3, <2>2, <3>1, <3>2 DEF BlockInOrder, OtherInOrder
    <2>8. ASSUME NEW r \in Readers' PROVE ReaderInOrder(r)'
      <3>1. reads'[r] = j /\ Readers' = {r}
        BY <2>4
      <3>2. \A k \in Due' : down'[k].type # "digest"
        BY <1>3, <2>3
      <3>3. ask' = {} /\ Idle(reads[r])' /\ Upcoming(reads[r].file_num)'
        BY <1>3, <2>2, <2>6, <3>1 DEF Idle
      <3> QED
        BY <2>1, <2>6, <3>1, <3>2, <3>3 DEF ReaderInOrder
    <2>9. PipeInOrder' /\ StreamTrue'
      BY <2>1, <2>2, <2>7, <2>8 DEF PipeInOrder, StreamTrue
    <2> QED
      BY <1>1, <1>6, <2>9, SenderRest
  <1> QED
    BY <1>8, <1>9

LEMMA FiniteBelow == ASSUME NEW n \in Nat, NEW K \in SUBSET (1..n) PROVE IsFiniteSet(K)
  <1>1. 1 \in Int /\ n \in Int
    OBVIOUS
  <1>2. IsFiniteSet(1..n)
    BY <1>1, FS_Interval
  <1> QED
    BY <1>2, FS_Subset

LEMMA OrderedAll ==
    ASSUME NEW K, IsFiniteSet(K), \A x \in K : x \in Nat, NEW p \in Ordered(K)
    PROVE  /\ DOMAIN p = 1..Cardinality(K) /\ Cardinality(K) \in Nat
           /\ \A k \in DOMAIN p : p[k] \in K
           /\ \A x \in K : \E k \in DOMAIN p : p[k] = x
           /\ \A a, b \in DOMAIN p : p[a] = p[b] => a = b
  <1> DEFINE c == Cardinality(K)
  <1>1. IsFiniteSet(K) /\ c \in Nat
    BY FS_CardinalityType
  <1>2. p \in [1..c -> K] /\ \A a, b \in 1..c : a < b => p[a] < p[b]
    BY DEF Ordered
  <1>3. Cardinality(1..c) = c /\ IsFiniteSet(1..c)
    BY <1>1, FS_Interval
  <1> HIDE DEF c
  <1>4. ASSUME NEW a \in 1..c, NEW b \in 1..c, p[a] = p[b] PROVE a = b
    <2>1. p[a] \in Nat /\ p[b] \in Nat /\ a \in Nat /\ b \in Nat
      <3>1. p[a] \in K /\ p[b] \in K
        BY <1>2
      <3>3. a \in Nat /\ b \in Nat
        BY <1>1
      <3> QED
        BY <3>1, <3>3, Zenon
    <2> QED
      BY <1>2, <1>4, <2>1
  <1>5. p \in Injection(1..c, K)
    BY <1>2, <1>4 DEF Injection, IsInjective
  <1>6. p \in Surjection(1..c, K)
    BY <1>1, <1>3, <1>5, FS_Injection DEF c
  <1> QED
    BY <1>1, <1>2, <1>4, <1>6 DEF Surjection, c

(* ... or the files cannot be listed.                                      *)
LEMMA SendFailsKeeps ==
    ASSUME TransferIInv, up # <<>>, up' = Tail(up), Head(up).type = "send", NEW d,
           d = [type |-> "error", id |-> Head(up).id], reads' = reads,
           down' = Append(down, d), errors' = errors + 1,
           UNCHANGED <<disk, source, write, ask, saved, failed, lastId, losses, holed, agreed>>
    PROVE  TransferIInv'
  <1>1. /\ UpTyped' /\ Head(up) = up[1] /\ Head(up) \in ToServer /\ Head(up).id \in 1..lastId
        /\ ReadsTyped /\ DownTyped
    BY Served, Typed
  <1>2. Head(up).id \in Nat
    BY <1>1 DEF ToServer
  <1>3. d \in ToClient /\ d.type = "error" /\ d.id = Head(up).id
    BY <1>2 DEF ToClient
  <1>5. /\ down' \in Seq(ToClient) /\ Len(down') = Len(down) + 1
        /\ \A i \in 1..Len(down) : down'[i] = down[i]
        /\ down'[Len(down) + 1] = d /\ 1..Len(down') = 1..Len(down) \cup {Len(down) + 1}
    BY <1>1, <1>3, AppendSeq DEF DownTyped
  <1>6. ReadsTyped' /\ DownTyped' /\ errors' \in Nat
    <2>1. ReadsTyped'
      BY <1>1 DEF ReadsTyped
    <2>2. DownTyped'
      BY <1>1, <1>3, <1>5 DEF DownTyped
    <2>3. errors' \in Nat
      BY DEF TransferIInv, TransferShape
    <2> QED
      BY <2>1, <2>2, <2>3
  <1>7. /\ \A i \in Due : i \in Due' /\ down'[i] = down[i]
        /\ \A i \in Due' : i \in Due
        /\ d.id # write.id => Broken' = Broken
    <2>1. write'.id = write.id
      OBVIOUS
    <2>2. Broken' = (Broken \/ (d.id = write.id /\ d.type = "error"))
      BY <2>1, AppendDue
    <2>3. /\ \A i \in Due : i \in Due' /\ down'[i] = down[i]
          /\ \A i \in Due' : i \in Due
      BY <2>1, <1>3, AppendDue
    <2>4. d.id # write.id => Broken' = Broken
      BY <2>1, <2>2 DEF Broken
    <2> QED
      BY <2>3, <2>4
  <1>8. Readers' = Readers
    BY DEF Readers
  <1>9. CASE Head(up).id # write.id
    <2>1. PipeInOrder' /\ StreamTrue'
      BY <1>3, <1>7, <1>8, <1>9, AtMostOne, OthersServed
    <2> QED
      BY <1>1, <1>6, <2>1, SenderRest
  <1>10. CASE Head(up).id = write.id
    <2>1. 1 \in Answers /\ Answers' = {}
      BY <1>10, Served
    <2>2. Due = {} /\ ask = {} /\ ~write.stream /\ Readers = {}
      BY <1>1, <2>1 DEF TransferIInv, PipeInOrder, AnswerInOrder
    <2>3. PipeInOrder' /\ StreamTrue'
      BY <1>7, <1>8, <2>1, <2>2 DEF PipeInOrder, StreamTrue
    <2> QED
      BY <1>1, <1>6, <2>3, SenderRest
  <1> QED
    BY <1>9, <1>10

(* The jobs of an id are removed; the client has no such job any more.     *)
CancelServed ==
    /\ up # <<>> /\ up' = Tail(up) /\ Head(up).type = "cancel"
    /\ \E p \in Ordered({i \in 1..Len(reads) : reads[i].id # Head(up).id}) :
          reads' = [k \in DOMAIN p |-> reads[p[k]]]
    /\ UNCHANGED <<down, errors>>
    /\ UNCHANGED <<disk, source, write, ask, saved, failed, lastId, losses, holed, agreed>>

LEMMA CancelServedKeeps == ASSUME TransferIInv, CancelServed PROVE TransferIInv'
  <1>u. /\ up # <<>> /\ up' = Tail(up) /\ Head(up).type = "cancel" /\ UNCHANGED <<down, errors>>
        /\ UNCHANGED <<disk, source, write, ask, saved, failed, lastId, losses, holed, agreed>>
    BY DEF CancelServed
  <1>1. UpTyped' /\ Head(up) = up[1] /\ ReadsTyped /\ DownTyped
    BY <1>u, Served, Typed
  <1>2. Head(up).id # write.id
    <2>1. Head(up).id = write.id => 1 \in Answers
      BY <1>u, Served
    <2> QED
      BY <1>u, <1>1, <2>1 DEF TransferIInv, PipeInOrder, AnswerInOrder
  <1>3. PICK K : K = {i \in 1..Len(reads) : reads[i].id # Head(up).id}
    OBVIOUS
  <1>k. \A x : x \in K <=> x \in 1..Len(reads) /\ reads[x].id # Head(up).id
    BY <1>3
  <1>p. PICK p \in Ordered(K) : reads' = [k \in DOMAIN p |-> reads[p[k]]]
    BY <1>3 DEF CancelServed
  <1>r. reads \in Seq(Reader) /\ Len(reads) \in Nat /\ K \in SUBSET (1..Len(reads))
    BY <1>1, <1>3 DEF ReadsTyped
  <1>c. PICK c : c = Cardinality(K)
    OBVIOUS
  <1>4. /\ DOMAIN p = 1..c /\ c \in Nat
        /\ \A k \in 1..c : p[k] \in K
        /\ \A x \in K : \E k \in 1..c : p[k] = x
        /\ \A a, b \in 1..c : p[a] = p[b] => a = b
    <2>1. IsFiniteSet(K) /\ \A x \in K : x \in Nat
      <3>1. IsFiniteSet(K)
        BY <1>r, FiniteBelow, Zenon
      <3>2. \A x \in K : x \in Nat
        BY <1>r
      <3> QED
        BY <3>1, <3>2
    <2> QED
      BY <2>1, <1>c, OrderedAll
  <1>5. reads' = [k \in 1..c |-> reads[p[k]]]
    BY <1>4, <1>p
  <1>6. \A k \in 1..c : reads[p[k]] \in Reader
    BY <1>r, <1>4, <1>k
  <1>7. /\ reads' \in Seq(Reader) /\ Len(reads') = c
        /\ \A k \in 1..c : reads'[k] = reads[p[k]] /\ p[k] \in 1..Len(reads)
    BY <1>4, <1>5, <1>6, <1>k
  <1>8. ReadsTyped'
    BY <1>1, <1>7, <1>u DEF ReadsTyped
  <1>9. DownTyped' /\ errors' \in Nat
    BY <1>1, <1>u DEF DownTyped, TransferIInv, TransferShape
  <1>10. \/ Readers = {} /\ Readers' = {}
         \/ \E r, q : Readers = {r} /\ Readers' = {q} /\ reads'[q] = reads[r]
    <2>1. \A q \in Readers' : q \in 1..c /\ p[q] \in Readers
      BY <1>7, <1>u DEF Readers
    <2>2. CASE Readers = {}
      BY <2>1, <2>2
    <2>3. ASSUME NEW r \in Readers, Readers = {r}
          PROVE  \E q : Readers' = {q} /\ reads'[q] = reads[r]
      <3>1. r \in K
        BY <1>2, <1>k DEF Readers
      <3>2. PICK q \in 1..c : p[q] = r
        BY <3>1, <1>4
      <3>3. reads'[q] = reads[r] /\ q \in Readers'
        BY <3>2, <1>7, <1>u DEF Readers
      <3>4. \A x \in Readers' : x = q
        BY <2>1, <2>3, <3>2, <1>4
      <3> QED
        BY <3>3, <3>4
    <2>4. Readers # {} => \E r \in Readers : Readers = {r}
      BY AtMostOne
    <2> QED
      BY <2>2, <2>3, <2>4, Zenon
  <1>11. Due' = Due /\ Broken' = Broken
    BY <1>u DEF Due, Broken
  <1>12. PipeInOrder' /\ StreamTrue'
    <2>1. \A i \in Due : i \in Due' /\ down'[i] = down[i]
      BY <1>11, <1>u
    <2> QED
      BY <1>u, <1>2, <1>10, <1>11, <2>1, OthersServed
  <1> QED
    BY <1>u, <1>1, <1>8, <1>9, <1>12, SenderRest

LEMMA ReadConfirmedFields ==
    ASSUME NEW j \in Reader, NEW m \in ToServer, m.type \in {"skip", "offset"},
           m.type = "offset" => m.offset <= Size[m.file],
           j.stream \/ j.confirmed => j.file_num \in File,
           j.stream => j.pos <= Size[j.file_num],
           NEW c, c = ReadConfirmed(j, m)
    PROVE  /\ c \in Reader /\ c.id = j.id /\ (j.id # m.id => c = j)
           /\ c.stream \/ c.confirmed => c.file_num \in File
           /\ c.stream => c.pos <= Size[c.file_num]
           /\ j.id = m.id /\ j.file_num = m.file /\ m.type = "skip" =>
                 Idle(c) /\ c.file_num = m.file + 1
           /\ j.id = m.id /\ j.file_num = m.file /\ m.type = "offset" =>
                 /\ c.confirmed /\ (j.stream => c.stream) /\ c.file_num = m.file
                 /\ m.offset > 0 => c.pos = m.offset
                 /\ ~(m.offset > 0) => c.pos = j.pos
  <1>1. m.file \in File /\ m.offset \in Nat /\ m.file + 1 \in 1..Beyond
    BY Files DEF ToServer
  <1>2. CASE j.id # m.id \/ j.file_num # m.file
    BY <1>2 DEF ReadConfirmed
  <1>3. CASE j.id = m.id /\ j.file_num = m.file /\ m.type = "skip"
    <2>1. c = [j EXCEPT !.stream = FALSE, !.confirmed = FALSE, !.waiting = FALSE,
                        !.file_num = @ + 1, !.skipped = TRUE]
      BY <1>3 DEF ReadConfirmed
    <2>2. /\ c \in Reader /\ c.id = j.id /\ ~c.stream /\ ~c.confirmed /\ ~c.waiting
          /\ c.file_num = j.file_num + 1
      <3>1. j.file_num + 1 \in 1..Beyond
        BY <1>1, <1>3
      <3> QED
        BY <2>1, <3>1 DEF Reader
    <2> QED
      BY <2>2, <1>3 DEF Idle
  <1>4. CASE j.id = m.id /\ j.file_num = m.file /\ m.type = "offset"
    <2>1. c = [j EXCEPT !.confirmed = TRUE, !.skipped = FALSE,
                        !.pos = IF m.offset > 0 THEN m.offset ELSE @]
      BY <1>4 DEF ReadConfirmed
    <2>2. /\ c \in Reader /\ c.id = j.id /\ c.stream = j.stream /\ c.confirmed
          /\ c.file_num = j.file_num /\ c.pos = IF m.offset > 0 THEN m.offset ELSE j.pos
      BY <2>1, <1>1 DEF Reader
    <2> QED
      BY <2>2, <1>1, <1>4
  <1> QED
    BY <1>2, <1>3, <1>4

ConfirmServed ==
    /\ up # <<>> /\ up' = Tail(up) /\ Head(up).type \in {"skip", "offset"}
    /\ reads' = [i \in 1..Len(reads) |-> ReadConfirmed(reads[i], Head(up))]
    /\ UNCHANGED <<down, errors>>
    /\ UNCHANGED <<disk, source, write, ask, saved, failed, lastId, losses, holed, agreed>>

LEMMA ConfirmServedKeeps == ASSUME TransferIInv, ConfirmServed PROVE TransferIInv'
  <1>u. /\ up # <<>> /\ up' = Tail(up) /\ UNCHANGED <<down, errors>>
        /\ UNCHANGED <<disk, source, write, ask, saved, failed, lastId, losses, holed, agreed>>
    BY DEF ConfirmServed
  <1>0. PICK m : m = Head(up)
    OBVIOUS
  <1>1. /\ UpTyped' /\ m = up[1] /\ m \in ToServer /\ m.id \in 1..lastId
        /\ m.type = "offset" => m.offset <= Size[m.file]
        /\ m.type \in {"skip", "offset"}
        /\ ReadsTyped /\ DownTyped
    BY <1>0, <1>u, Served, Typed DEF ConfirmServed
  <1>2. /\ reads \in Seq(Reader) /\ Len(reads) \in Nat
        /\ \A i \in 1..Len(reads) : reads[i] \in Reader
    BY <1>1 DEF ReadsTyped
  <1>3. reads' = [i \in 1..Len(reads) |-> ReadConfirmed(reads[i], m)]
    BY <1>0 DEF ConfirmServed
  <1>4. \A i \in 1..Len(reads) :
           /\ ReadConfirmed(reads[i], m) \in Reader /\ ReadConfirmed(reads[i], m).id = reads[i].id
           /\ reads[i].id # m.id => ReadConfirmed(reads[i], m) = reads[i]
           /\ ReadConfirmed(reads[i], m).stream \/ ReadConfirmed(reads[i], m).confirmed =>
                 ReadConfirmed(reads[i], m).file_num \in File
           /\ ReadConfirmed(reads[i], m).stream =>
                 ReadConfirmed(reads[i], m).pos <= Size[ReadConfirmed(reads[i], m).file_num]
    BY <1>1, <1>2, ReadConfirmedFields DEF ReadsTyped
  <1>5. /\ reads' \in Seq(Reader) /\ Len(reads') = Len(reads)
        /\ \A i \in 1..Len(reads) : reads'[i] = ReadConfirmed(reads[i], m)
    BY <1>2, <1>3, <1>4
  <1>6. ReadsTyped'
    BY <1>1, <1>4, <1>5, <1>u DEF ReadsTyped
  <1>7. DownTyped' /\ errors' \in Nat
    BY <1>1, <1>u DEF DownTyped, TransferIInv, TransferShape
  <1>8. Readers' = Readers /\ Readers \subseteq 1..Len(reads)
    BY <1>4, <1>5, <1>u DEF Readers
  <1>9. Due' = Due /\ Broken' = Broken
    BY <1>u DEF Due, Broken
  <1>10. CASE m.id # write.id
    <2>1. \A r \in Readers : reads'[r] = reads[r]
      BY <1>4, <1>5, <1>10 DEF Readers
    <2>2. \A i \in Due : i \in Due' /\ down'[i] = down[i]
      BY <1>9, <1>u
    <2>3. \/ Readers = {} /\ Readers' = {}
          \/ \E r, q : Readers = {r} /\ Readers' = {q} /\ reads'[q] = reads[r]
      BY <1>8, <2>1, AtMostOne
    <2>4. PipeInOrder' /\ StreamTrue'
      BY <1>0, <1>u, <1>9, <1>10, <2>2, <2>3, OthersServed
    <2> QED
      BY <1>u, <1>1, <1>6, <1>7, <2>4, SenderRest
  <1>11. CASE m.id = write.id
    <2>1. 1 \in Answers /\ Answers' = {}
      BY <1>0, <1>11, <1>u, Served
    <2>2. AnswerInOrder(1)
      BY <2>1 DEF TransferIInv, PipeInOrder
    <2>3. /\ Due = {} /\ ask = {} /\ ~Broken /\ Due' = {} /\ ~Broken' /\ ask' = {}
          /\ write.files /\ Answers = {1}
      BY <2>2, <1>1, <1>9, <1>u DEF AnswerInOrder
    <2>4. PICK r \in Readers : Waits(reads[r]) /\ reads[r].file_num = m.file
      BY <2>2, <1>1 DEF AnswerInOrder
    <2>5. Readers = {r} /\ Readers' = {r} /\ reads[r].id = m.id /\ r \in 1..Len(reads)
      BY <2>4, <1>8, <1>11 DEF TransferIInv, PipeInOrder, ReaderInOrder, Readers
    <2>6. PICK j : j = reads[r]
      OBVIOUS
    <2>7. PICK c : c = ReadConfirmed(j, m)
      OBVIOUS
    <2>8. /\ reads'[r] = c /\ j \in Reader /\ j.id = m.id /\ j.file_num = m.file
          /\ j.stream /\ j.pos = 0
      BY <2>4, <2>5, <2>6, <2>7, <1>2, <1>5 DEF Waits
    <2>9. /\ m.type = "skip" => Idle(c) /\ c.file_num = m.file + 1
          /\ m.type = "offset" =>
                 /\ c.confirmed /\ (j.stream => c.stream) /\ c.file_num = m.file
                 /\ m.offset > 0 => c.pos = m.offset
                 /\ ~(m.offset > 0) => c.pos = j.pos
      <3>1. /\ j.stream \/ j.confirmed => j.file_num \in File
            /\ j.stream => j.pos <= Size[j.file_num]
        BY <2>5, <2>6, <1>1 DEF ReadsTyped
      <3>2. m.type = "skip" => Idle(c) /\ c.file_num = m.file + 1
        BY <2>7, <2>8, <3>1, <1>1, ReadConfirmedFields
      <3>3. m.type = "offset" =>
                 /\ c.confirmed /\ (j.stream => c.stream) /\ c.file_num = m.file
                 /\ m.offset > 0 => c.pos = m.offset
                 /\ ~(m.offset > 0) => c.pos = j.pos
        BY <2>7, <2>8, <3>1, <1>1, ReadConfirmedFields
      <3> QED
        BY <3>2, <3>3
    <2>10. \A n : Upcoming(n) => Upcoming(n)'
      BY <2>3, <1>u DEF Upcoming
    <2>11. m.file \in File /\ m.file \in Nat /\ m.offset \in Nat
      BY <1>1, Files DEF ToServer
    <2>12. \A f : /\ Current(f)' = Current(f) /\ Expected(f)' = Expected(f)
                  /\ Exact(f)' = Exact(f)
      BY <1>u DEF Current, Expected, Exact, disk
    <2>13. CASE m.type = "skip"
      <3>1. Upcoming(m.file + 1)
        BY <2>2, <2>13, <1>1 DEF AnswerInOrder
      <3>2. Idle(reads[r])' /\ reads'[r].file_num = m.file + 1
        BY <2>8, <2>9, <2>13 DEF Idle
      <3>3. Upcoming(reads[r].file_num)'
        BY <3>1, <3>2, <2>10
      <3>4. FilesKnown'
        BY <2>3, <1>u DEF FilesKnown
      <3>5. ReaderInOrder(r)'
        BY <2>1, <2>3, <2>5, <3>2, <3>3, <3>4 DEF ReaderInOrder
      <3>6. PipeInOrder'
        BY <2>1, <2>3, <2>5, <3>5 DEF PipeInOrder
      <3>7. StreamTrue'
        <4>1. ~Comes(write.file_num)
          <5>1. ~(up[1].type = "offset") /\ ~Sends(reads[r])
            BY <2>4, <2>13, <1>1 DEF Waits, Sends
          <5> QED
            BY <5>1, <2>3, <2>5 DEF Comes, Goes
        <4> QED
          BY <4>1, <1>u DEF TransferIInv, StreamTrue, disk
      <3> QED
        BY <1>u, <1>1, <1>6, <1>7, <3>6, <3>7, SenderRest
    <2>14. CASE m.type = "offset"
      <3>1. /\ Current(m.file) /\ source[m.file] = write.digest
            /\ Expected(m.file) <= m.offset + 1
            /\ Exact(m.file) => m.offset + 1 = Expected(m.file)
        BY <2>2, <2>14, <1>1 DEF AnswerInOrder
      <3>2. Sends(reads[r])' /\ reads'[r].file_num = m.file /\ reads'[r].pos = m.offset
        <4>1. c.confirmed /\ c.stream /\ c.file_num = m.file
          BY <2>8, <2>9, <2>14
        <4>2. c.pos = m.offset
          BY <2>8, <2>9, <2>11, <2>14
        <4> QED
          BY <2>8, <4>1, <4>2 DEF Sends
      <3>3. source'[m.file] = write'.digest
        BY <3>1, <1>u
      <3>4. ReaderInOrder(r)'
        BY <2>1, <2>3, <2>5, <2>12, <3>1, <3>2, <3>3 DEF ReaderInOrder
      <3>6. PipeInOrder'
        BY <2>1, <2>3, <2>5, <3>4 DEF PipeInOrder
      <3>7. StreamTrue'
        <4>1. Comes(write.file_num) => Comes(write.file_num)'
          <5>1. Comes(write.file_num) => write.file_num = m.file
            BY <2>3, <2>4, <2>5 DEF Comes, Goes
          <5>2. write'.file_num = m.file => Goes(write.file_num)'
            BY <2>3, <2>5, <3>2 DEF Goes
          <5> QED
            BY <5>1, <5>2, <1>u DEF Comes
        <4> QED
          BY <4>1, <1>u DEF TransferIInv, StreamTrue, disk
      <3> QED
        BY <1>u, <1>1, <1>6, <1>7, <3>6, <3>7, SenderRest
    <2> QED
      BY <2>13, <2>14, <1>1
  <1> QED
    BY <1>10, <1>11

LEMMA ServerReceivesKeeps == ASSUME TransferIInv, ServerReceives PROVE TransferIInv'
  <1>1. /\ up # <<>> /\ up' = Tail(up)
        /\ UNCHANGED <<disk, source, write, ask, saved, failed, lastId, losses, holed, agreed>>
    BY DEF ServerReceives
  <1>2. ASSUME Head(up).type = "send",
               reads' = Append(reads, [id |-> Head(up).id, file_num |-> Head(up).file,
                                       stream |-> FALSE, pos |-> 0, confirmed |-> FALSE,
                                       waiting |-> FALSE, skipped |-> FALSE]),
               down' = Append(down, [type |-> "dir", id |-> Head(up).id]), UNCHANGED errors
        PROVE  TransferIInv'
    BY <1>1, <1>2, SendKeeps
  <1>3. ASSUME Head(up).type = "send", errors' = errors + 1,
               down' = Append(down, [type |-> "error", id |-> Head(up).id]), UNCHANGED reads
        PROVE  TransferIInv'
    BY <1>1, <1>3, SendFailsKeeps
  <1>4. CASE CancelServed
    BY <1>4, CancelServedKeeps
  <1>5. CASE ConfirmServed
    BY <1>5, ConfirmServedKeeps
  <1> QED
    BY <1>1, <1>2, <1>3, <1>4, <1>5 DEF ServerReceives, CancelServed, ConfirmServed

-----------------------------------------------------------------------------
(* handle_read_jobs: messages to the client are added, some of them for    *)
(* the write job.                                                          *)
SenderWorks ==
    /\ UNCHANGED <<disk, source, write, up, ask, saved, failed, lastId, losses, holed, agreed>>
    /\ down' \in Seq(ToClient) /\ Len(down) <= Len(down')
    /\ \A i \in 1..Len(down) : down'[i] = down[i]
Fresh == {i \in 1..Len(down') : Len(down) < i /\ down'[i].id = write.id}

LEMMA FreshDue ==
    ASSUME TransferIInv, SenderWorks
    PROVE  /\ \A i \in Due : i \in Due' /\ down'[i] = down[i]
           /\ \A i \in Due' : \/ i \in Due
                              \/ /\ i \in Fresh /\ ~Broken
                                 /\ \A e \in Fresh : e <= i => down'[e].type # "error"
           /\ Broken => Broken'
           /\ Broken' => Broken \/ \E e \in Fresh : down'[e].type = "error"
           /\ \A e \in Fresh : down'[e].type = "error" => Broken'
           /\ \A e \in Fresh :
                 ~Broken /\ (\A i \in Fresh : i <= e => down'[i].type # "error") => e \in Due'
           /\ \A e \in Fresh : e \in Nat /\ \A i \in Due : i < e
           /\ Answers' = Answers
  <1>1. /\ down \in Seq(ToClient) /\ Len(down) \in Nat /\ down' \in Seq(ToClient)
        /\ Len(down') \in Nat /\ Len(down) <= Len(down') /\ write'.id = write.id
        /\ \A i \in 1..Len(down) : down'[i] = down[i] /\ i \in 1..Len(down')
    BY DEF TransferIInv, TransferShape, SenderWorks
  <1>2. ASSUME NEW i \in Due PROVE i \in Due' /\ down'[i] = down[i]
    <2>1. i \in 1..Len(down) /\ \A k \in 1..i : k \in 1..Len(down)
      BY <1>1 DEF Due
    <2> QED
      BY <1>1, <2>1 DEF Due
  <1>3. \A i \in 1..Len(down') : i \in 1..Len(down) \/ Len(down) < i
    BY <1>1
  <1>4. ASSUME NEW i \in Due'
        PROVE  \/ i \in Due
               \/ /\ i \in Fresh /\ ~Broken
                  /\ \A e \in Fresh : e <= i => down'[e].type # "error"
    <2>0. /\ i \in 1..Len(down') /\ down'[i].id = write.id
          /\ \A k \in 1..i : down'[k].id = write.id => down'[k].type # "error"
      BY <1>1 DEF Due
    <2>1. CASE i \in 1..Len(down)
      <3>1. \A k \in 1..i : k \in 1..Len(down)
        BY <1>1, <2>1
      <3> QED
        BY <1>1, <2>0, <2>1, <3>1 DEF Due
    <2>2. CASE Len(down) < i
      <3>1. \A k \in 1..Len(down) : k \in 1..i
        BY <1>1, <2>0, <2>2
      <3>2. ~Broken
        BY <1>1, <2>0, <3>1 DEF Broken
      <3>3. ASSUME NEW e \in Fresh, e <= i PROVE down'[e].type # "error"
        <4>1. e \in 1..i
          BY <1>1, <2>0, <3>3 DEF Fresh
        <4> QED
          BY <2>0, <4>1 DEF Fresh
      <3> QED
        BY <2>0, <2>2, <3>2, <3>3 DEF Fresh
    <2> QED
      BY <1>3, <2>0, <2>1, <2>2
  <1>5. /\ Broken => Broken'
        /\ Broken' => Broken \/ \E e \in Fresh : down'[e].type = "error"
        /\ \A e \in Fresh : down'[e].type = "error" => Broken'
    BY <1>1, <1>3 DEF Broken, Fresh
  <1>6. ASSUME NEW e \in Fresh, ~Broken, \A i \in Fresh : i <= e => down'[i].type # "error"
        PROVE  e \in Due'
    <2>1. e \in 1..Len(down') /\ down'[e].id = write.id
      BY DEF Fresh
    <2>2. ASSUME NEW k \in 1..e, down'[k].id = write.id PROVE down'[k].type # "error"
      <3>1. k \in 1..Len(down') /\ k <= e
        BY <1>1, <2>1
      <3>2. CASE k \in 1..Len(down)
        BY <1>1, <1>6, <2>2, <3>2 DEF Broken
      <3>3. CASE Len(down) < k
        BY <1>6, <2>2, <3>1, <3>3 DEF Fresh
      <3> QED
        BY <1>3, <3>1, <3>2, <3>3
    <2> QED
      BY <1>1, <2>1, <2>2 DEF Due
  <1>7. \A e \in Fresh : e \in Nat /\ \A i \in Due : i < e
    BY <1>1 DEF Fresh, Due
  <1>8. Answers' = Answers
    BY DEF Answers, SenderWorks
  <1> QED
    BY <1>2, <1>4, <1>5, <1>6, <1>7, <1>8

LEMMA SenderFrame ==
    ASSUME TransferIInv, SenderWorks
    PROVE  /\ UNCHANGED <<write, ask, agreed, holed, digest, part, up, source>>
           /\ \A f : /\ Expected(f)' = Expected(f) /\ Exact(f)' = Exact(f)
                     /\ Current(f)' = Current(f)
  <1>1. UNCHANGED <<write, ask, agreed, holed, digest, part, up, source>>
    BY DEF SenderWorks, disk
  <1> QED
    BY <1>1 DEF Expected, Exact, Current

(* Nothing is said to the write job.                                       *)
LEMMA PipeSilent ==
    ASSUME TransferIInv, SenderWorks, Fresh = {},
           \/ Readers = {} /\ Readers' = {}
           \/ \E r, q : Readers = {r} /\ Readers' = {q} /\ reads'[q] = reads[r]
    PROVE  PipeInOrder' /\ StreamTrue'
  <1>1. /\ \A i \in Due : i - 0 = i /\ i + 0 = i /\ i \in Nat /\ i \in Due' /\ down'[i] = down[i]
        /\ \A i \in Due' : i \in Due
        /\ Answers' = Answers
    BY DueIndex, FreshDue
  <1>2. Broken' = Broken
    BY FreshDue DEF Broken
  <1>3. UNCHANGED <<write, ask, agreed, holed, digest, part, up, source>>
    BY SenderFrame
  <1>4. Unconcerned(0)
    BY <1>1, <1>2, <1>3, AtMostOne DEF Unconcerned
  <1>5. Due' \subseteq Nat
    BY <1>1
  <1> QED
    BY <1>4, <1>5, UnconcernedKeeps

(* The write job is told of an error, or was before.                       *)
LEMMA PipeBroken ==
    ASSUME TransferIInv, SenderWorks, Broken', Due' = Due, Answers = {}, ask = {},
           \A k \in Due : down[k].type # "digest",
           Readers = {} => Readers' = {}, \A q \in Readers' : Readers' = {q}
    PROVE  PipeInOrder' /\ StreamTrue'
  <1>1. /\ UNCHANGED <<write, ask, agreed, holed, digest, part, up, source>>
        /\ \A f : /\ Expected(f)' = Expected(f) /\ Exact(f)' = Exact(f)
                  /\ Current(f)' = Current(f)
    BY SenderFrame
  <1>2. (\A k \in Due : down'[k] = down[k]) /\ Answers' = {}
    BY FreshDue
  <1>3. \A f : Comes(f) => Comes(f)'
    BY <1>2 DEF Comes, Goes
  <1>4. /\ \A n : Upcoming(n) => Upcoming(n)'
        /\ FilesKnown => FilesKnown'
    BY <1>1, <1>2 DEF Upcoming, FilesKnown
  <1>5. ASSUME NEW i \in Due' PROVE BlockInOrder(i)'
    <2>1. i \in Due /\ BlockInOrder(i) /\ down'[i] = down[i]
      BY <1>2 DEF TransferIInv, PipeInOrder
    <2> QED
      BY <1>1, <1>2, <1>3, <2>1 DEF BlockInOrder
  <1>6. ASSUME NEW i \in Due' PROVE OtherInOrder(i)'
    <2>1. i \in Due /\ OtherInOrder(i) /\ down'[i] = down[i] /\ down'[i].type # "digest"
      BY <1>2 DEF TransferIInv, PipeInOrder
    <2>2. down'[i].type = "done" => Upcoming(Beyond)' /\ Readers' = {}
      BY <1>4, <2>1 DEF OtherInOrder, Beyond
    <2> QED
      BY <1>1, <1>2, <1>4, <2>1, <2>2 DEF OtherInOrder
  <1>7. \A q \in Readers' : ReaderInOrder(q)'
    BY DEF ReaderInOrder
  <1>8. PipeInOrder'
    BY <1>1, <1>2, <1>5, <1>6, <1>7 DEF PipeInOrder
  <1>9. StreamTrue'
    BY <1>1, <1>3 DEF TransferIInv, StreamTrue
  <1> QED
    BY <1>8, <1>9

(* What an idle reader leaves: there is nothing but its next message.      *)
LEMMA IdleFacts ==
    ASSUME TransferIInv, NEW r \in Readers, ~Broken, Idle(reads[r])
    PROVE  /\ Readers = {r} /\ FilesKnown /\ Upcoming(reads[r].file_num) /\ Answers = {} /\ ask = {}
           /\ \A k \in Due : down[k].type \in {"dir", "block"}
           /\ \A f : ~Goes(f)
  <1>1. ReaderInOrder(r) /\ Readers = {r}
    BY DEF TransferIInv, PipeInOrder, ReaderInOrder
  <1>2. /\ FilesKnown /\ Upcoming(reads[r].file_num) /\ Answers = {} /\ ask = {}
        /\ \A k \in Due : down[k].type # "digest"
    BY <1>1 DEF ReaderInOrder, Idle, Waits, Sends
  <1>3. \A k \in Due : down[k].type # "done"
    BY <1>1 DEF TransferIInv, PipeInOrder, OtherInOrder
  <1>4. \A k \in Due : down[k].type \in {"dir", "block"}
    BY <1>2, <1>3, DueIndex DEF ToClient
  <1>5. \A f : ~Goes(f)
    BY <1>1, <1>2 DEF Goes, Idle, Sends
  <1> QED
    BY <1>1, <1>2, <1>4, <1>5

(* The reader asks about the file it opened, or tells that it is through.  *)
LEMMA PipePrompt ==
    ASSUME TransferIInv, SenderWorks, ~Broken, NEW r \in Readers, Idle(reads[r]),
           NEW e, Fresh = {e}, NEW n, n = reads[r].file_num,
           \/ /\ down'[e].type = "digest" /\ n \in File
              /\ down'[e].file = n /\ down'[e].version = source[n]
              /\ \E q : Readers' = {q} /\ Waits(reads[q])' /\ reads'[q].file_num = n
           \/ down'[e].type = "done" /\ n = Beyond /\ Readers' = {}
    PROVE  PipeInOrder' /\ StreamTrue'
  <1>0. /\ Readers = {r} /\ FilesKnown /\ Upcoming(n) /\ Answers = {} /\ ask = {}
        /\ \A k \in Due : down[k].type \in {"dir", "block"}
        /\ \A f : ~Goes(f)
    BY IdleFacts
  <1>1. /\ UNCHANGED <<write, ask, agreed, holed, digest, part, up, source>>
        /\ \A f : /\ Expected(f)' = Expected(f) /\ Exact(f)' = Exact(f)
                  /\ Current(f)' = Current(f)
    BY SenderFrame
  <1>2. /\ down'[e].type # "error" /\ down'[e].type # "block" /\ down'[e].type # "dir"
        /\ down'[e].type \in {"digest", "done"}
    OBVIOUS
  <1>3. /\ \A i \in Due : i \in Due' /\ down'[i] = down[i] /\ i < e /\ i \in Nat
        /\ \A i \in Due' : i \in Due \/ i = e
        /\ e \in Due' /\ e \in Nat /\ ~Broken' /\ Answers' = {} /\ ask' = {}
    BY <1>0, <1>1, <1>2, FreshDue, DueIndex
  <1>4. Upcoming(n)' /\ FilesKnown'
    <2>1. \A k \in Due' : down'[k].type = "block" => k \in Due /\ down'[k] = down[k]
      BY <1>2, <1>3
    <2> QED
      BY <1>0, <1>1, <1>3, <2>1 DEF Upcoming, FilesKnown
  <1>5. \A f : Comes(f) => Comes(f)'
    BY <1>0, <1>3 DEF Comes
  <1>6. ASSUME NEW i \in Due' PROVE BlockInOrder(i)'
    <2> SUFFICES ASSUME down'[i].type = "block" PROVE BlockInOrder(i)'
      BY DEF BlockInOrder
    <2>1. i \in Due /\ BlockInOrder(i) /\ down'[i] = down[i]
      BY <1>2, <1>3 DEF TransferIInv, PipeInOrder
    <2>2. \A k \in Due' : down'[k].type = "block" => k \in Due /\ down'[k] = down[k]
      BY <1>2, <1>3
    <2> QED
      BY <1>1, <1>3, <1>5, <2>1, <2>2 DEF BlockInOrder
  <1>7. ASSUME NEW i \in Due' PROVE OtherInOrder(i)'
    <2>1. CASE i \in Due
      <3>1. OtherInOrder(i) /\ down'[i] = down[i] /\ down'[i].type \in {"dir", "block"}
        BY <1>0, <1>3, <2>1 DEF TransferIInv, PipeInOrder
      <3>2. down'[i].type = "dir" =>
               /\ ~write'.files /\ ~write'.stream
               /\ \A k \in Due' : i <= k /\ down'[k].type # "block"
        BY <1>1, <1>2, <1>3, <2>1, <3>1 DEF OtherInOrder
      <3> QED
        BY <3>1, <3>2 DEF OtherInOrder
    <2>2. CASE i = e
      <3>1. \A k \in Due' : k <= e
        BY <1>3
      <3>2. down'[e].type = "digest" =>
               /\ Upcoming(down[e].file)' /\ down'[e].version = source'[down'[e].file]
               /\ \E q \in Readers' : Waits(reads[q])' /\ reads'[q].file_num = down'[e].file
        BY <1>1, <1>4
      <3>3. down'[e].type = "done" => Upcoming(Beyond)' /\ Readers' = {}
        BY <1>4 DEF Beyond
      <3> QED
        BY <1>2, <1>3, <1>4, <2>2, <3>1, <3>2, <3>3 DEF OtherInOrder
    <2> QED
      BY <1>3, <2>1, <2>2
  <1>8. ASSUME NEW q \in Readers' PROVE ReaderInOrder(q)'
    <2>1. Readers' = {q} /\ Waits(reads[q])' /\ down'[e].type = "digest"
      OBVIOUS
    <2> QED
      BY <1>3, <2>1 DEF ReaderInOrder
  <1>9. PipeInOrder'
    BY <1>3, <1>6, <1>7, <1>8 DEF PipeInOrder
  <1>10. StreamTrue'
    BY <1>1, <1>5 DEF TransferIInv, StreamTrue
  <1> QED
    BY <1>9, <1>10

(* The reader sends the next block of the file, or its end.                *)
LEMMA PipeBlock ==
    ASSUME TransferIInv, SenderWorks, ~Broken, NEW r \in Readers, Sends(reads[r]),
           NEW e, Fresh = {e}, NEW f, f = reads[r].file_num, NEW n, n = reads[r].pos + 1,
           down'[e].type = "block", down'[e].file = f, down'[e].version = source[f],
           down'[e].number = n, NEW q, Readers' = {q},
           \/ Sends(reads[q])' /\ reads'[q].file_num = f /\ reads'[q].pos = n
           \/ Idle(reads[q])' /\ reads'[q].file_num = f + 1 /\ ~(reads[r].pos < Size[f])
    PROVE  PipeInOrder' /\ StreamTrue'
  <1>0. /\ reads[r].pos \in Nat /\ f \in File /\ f \in Nat /\ Size[f] \in Nat
        /\ reads[r].pos <= Size[f]
    <2>1. r \in 1..Len(reads) /\ reads[r] \in Reader
      BY DEF Readers, TransferIInv, TransferShape
    <2>2. reads[r].stream /\ reads[r].pos \in Nat
      BY <2>1 DEF Sends, Reader
    <2>3. f \in File /\ reads[r].pos <= Size[f]
      BY <2>1, <2>2 DEF TransferIInv, InBounds
    <2> QED
      BY <2>2, <2>3, Files
  <1>1. ReaderInOrder(r) /\ Readers = {r}
    BY DEF TransferIInv, PipeInOrder, ReaderInOrder
  <1>2. /\ Current(f) /\ Answers = {} /\ ask = {} /\ source[f] = write.digest
        /\ \A k \in Due : /\ down[k].type = "block" /\ down[k].file = f
                          /\ down[k].number <= reads[r].pos
        /\ Expected(f) <= n
        /\ Exact(f) => n = Expected(f) \/ \E k \in Due : down[k].number = reads[r].pos
    BY <1>1 DEF ReaderInOrder, Idle, Waits, Sends
  <1>3. /\ UNCHANGED <<write, ask, agreed, holed, digest, part, up, source>>
        /\ \A g : /\ Expected(g)' = Expected(g) /\ Exact(g)' = Exact(g)
                  /\ Current(g)' = Current(g)
    BY SenderFrame
  <1>4. /\ \A i \in Due : i \in Due' /\ down'[i] = down[i] /\ i < e /\ i \in Nat
        /\ \A i \in Due' : i \in Due \/ i = e
        /\ e \in Due' /\ e \in Nat /\ ~Broken' /\ Answers' = {} /\ ask' = {}
    BY <1>2, <1>3, FreshDue, DueIndex
  <1>5. /\ \A k \in Due' : /\ down'[k].type = "block" /\ down'[k].file = f
                           /\ k # e => k \in Due /\ down'[k] = down[k]
    BY <1>2, <1>4
  <1>n. \A k \in Due : down[k].number \in Nat
    BY <1>2, DueIndex DEF ToClient
  <1>6. \A k \in Due' : down'[k].number \in Nat /\ down'[k].number <= n
                        /\ (k # e => down'[k].number < n)
    <2>1. n \in Nat /\ n = reads[r].pos + 1
      BY <1>0
    <2>2. \A k \in Due : down[k].number \in Nat /\ down[k].number <= reads[r].pos
      BY <1>2, <1>n
    <2>3. \A k \in Due : down[k].number < n /\ down[k].number <= n
      BY <2>1, <2>2, <1>0
    <2> QED
      BY <1>5, <2>1, <2>2, <2>3
  <1>7. Comes(f)'
    <2>1. CASE Sends(reads[q])' /\ reads'[q].file_num = f
      <3>1. Goes(f)'
        BY <1>5, <2>1 DEF Goes
      <3> QED
        BY <3>1 DEF Comes
    <2>2. CASE ~(reads[r].pos < Size[f])
      <3>1. n = Size[f] + 1
        BY <1>0, <2>2
      <3> QED
        BY <1>4, <3>1 DEF Comes
    <2> QED
      BY <2>1, <2>2
  <1>8. ASSUME NEW i \in Due' PROVE BlockInOrder(i)'
    <2>0. /\ down'[i].type = "block" /\ down'[i].file = f /\ Current(f)' /\ Comes(f)'
      BY <1>2, <1>3, <1>5, <1>7
    <2>1. CASE i = e
      <3>1. down'[i].version = write'.digest /\ down'[i].number = n /\ Expected(f)' <= n
        BY <1>2, <1>3, <2>1
      <3>2. \A k \in Due : k < e /\ down'[k].type = "block" /\ k \in Due'
        BY <1>4, <1>2
      <3>3. n - 1 = reads[r].pos
        BY <1>0
      <3>4. Exact(f)' => \/ n = Expected(f)'
                         \/ \E k \in Due' : /\ k < i /\ down'[k].type = "block"
                                            /\ down'[k].number = n - 1
        BY <1>2, <1>3, <1>4, <2>1, <3>2, <3>3
      <3>5. \A k \in Due' : ~(k > i)
        BY <1>4, <2>1
      <3> QED
        BY <2>0, <3>1, <3>4, <3>5 DEF BlockInOrder
    <2>2. CASE i # e
      <3>1. i \in Due /\ down'[i] = down[i] /\ BlockInOrder(i)
        BY <1>5, <2>2 DEF TransferIInv, PipeInOrder
      <3>2. /\ down[i].version = write.digest
            /\ Expected(f) <= down[i].number
            /\ Exact(f) =>
                  \/ down[i].number = Expected(f)
                  \/ \E k \in Due : /\ k < i /\ down[k].type = "block"
                                    /\ down[k].number = down[i].number - 1
            /\ \A k \in Due : k > i /\ down[k].type = "block" =>
                  down[k].file = down[i].file /\ down[i].number < down[k].number
        BY <2>0, <3>1 DEF BlockInOrder
      <3>3. \A k \in Due' : k > i => down'[k].file = down'[i].file /\ down'[i].number < down'[k].number
        <4>1. down'[e].number = n /\ down'[i].number < n
          BY <1>6, <2>2
        <4> QED
          BY <1>5, <3>1, <3>2, <4>1
      <3>4. Exact(f)' => \/ down'[i].number = Expected(f)'
                         \/ \E k \in Due' : /\ k < i /\ down'[k].type = "block"
                                            /\ down'[k].number = down'[i].number - 1
        BY <1>3, <1>4, <3>1, <3>2
      <3>5. down'[i].version = write'.digest /\ Expected(f)' <= down'[i].number
        BY <1>3, <3>1, <3>2
      <3> QED
        BY <2>0, <3>3, <3>4, <3>5 DEF BlockInOrder
    <2> QED
      BY <2>1, <2>2
  <1>9. ASSUME NEW i \in Due' PROVE OtherInOrder(i)'
    BY <1>5 DEF OtherInOrder
  <1>10. ReaderInOrder(q)'
    <2>1. CASE Sends(reads[q])' /\ reads'[q].file_num = f /\ reads'[q].pos = n
      <3>1. n \in Nat
        BY <1>0
      <3>2. Expected(f)' <= n + 1
        <4>1. Expected(f)' \in Nat
          <5>1. write.pos \in Nat
            BY DEF TransferIInv, TransferShape, WriteJob
          <5> QED
            BY <1>3, <5>1 DEF Expected
        <4> QED
          BY <1>2, <1>3, <3>1, <4>1
      <3>3. \A k \in Due' : down'[k].type = "block" /\ down'[k].file = f /\ down'[k].number <= n
        BY <1>5, <1>6
      <3>4. Current(f)' /\ source'[f] = write'.digest
        BY <1>2, <1>3
      <3>5. Exact(f)' => n + 1 = Expected(f)' \/ \E k \in Due' : down'[k].number = n
        BY <1>4
      <3> QED
        BY <1>4, <2>1, <3>2, <3>3, <3>4, <3>5 DEF ReaderInOrder
    <2>2. CASE Idle(reads[q])' /\ reads'[q].file_num = f + 1
      <3>1. FilesKnown'
        BY <1>2, <1>3 DEF FilesKnown, Current
      <3>2. write'.stream => write'.file_num < f + 1
        <4>1. write.stream => write.file_num <= f
          BY <1>2 DEF Current
        <4>2. write.file_num \in Nat
          BY Files DEF TransferIInv, TransferShape, WriteJob
        <4> QED
          BY <1>0, <1>3, <4>1, <4>2
      <3>3. f < f + 1
        BY <1>0
      <3>4. Upcoming(reads[q].file_num)'
        BY <1>4, <1>5, <2>2, <3>2, <3>3 DEF Upcoming
      <3>5. \A k \in Due' : down'[k].type # "digest"
        BY <1>5
      <3> QED
        BY <1>4, <2>2, <3>1, <3>4, <3>5 DEF ReaderInOrder
    <2> QED
      BY <2>1, <2>2
  <1>11. PipeInOrder'
    BY <1>4, <1>8, <1>9, <1>10 DEF PipeInOrder
  <1>12. \A g : Comes(g) => Comes(g)'
    <2>1. ASSUME NEW g, Goes(g) PROVE g = f
      BY <1>1, <2>1 DEF Goes
    <2> QED
      BY <1>4, <1>7, <2>1 DEF Comes
  <1>13. StreamTrue'
    BY <1>3, <1>12 DEF TransferIInv, StreamTrue
  <1> QED
    BY <1>11, <1>13

(* What init_data_stream and read make of one job.                         *)
SoundJob(j) ==
    /\ j \in Reader
    /\ j.stream \/ j.confirmed => j.file_num \in File
    /\ j.stream => j.pos <= Size[j.file_num]

LEMMA NextFileFields ==
    ASSUME NEW j \in Reader, j.file_num \in File, NEW c, c = NextFile(j)
    PROVE  SoundJob(c) /\ c.id = j.id /\ Idle(c) /\ c.file_num = j.file_num + 1
  <1>1. j.file_num + 1 \in 1..Beyond
    BY Files
  <1>2. /\ c \in Reader /\ c.id = j.id /\ ~c.stream /\ ~c.confirmed /\ ~c.waiting
        /\ c.file_num = j.file_num + 1
    BY <1>1 DEF NextFile, Reader
  <1> QED
    BY <1>2 DEF SoundJob, Idle

LEMMA InitJobFields ==
    ASSUME NEW j, SoundJob(j), source \in [File -> 1..MaxVersion], NEW fails \in BOOLEAN,
           NEW x, x = InitJob(j, fails)
    PROVE  /\ SoundJob(x.job) /\ x.job.id = j.id /\ (x.job.confirmed => x.job.stream)
           /\ \/ x.out = <<>>
              \/ \E m \in ToClient : /\ x.out = <<m>> /\ m.id = j.id
                                     /\ m.type \in {"error", "digest"}
           /\ Opening(j) /\ fails =>
                 /\ Idle(x.job)
                 /\ \E m : x.out = <<m>> /\ m.type = "error"
           /\ Opening(j) /\ ~fails =>
                 /\ Waits(x.job) /\ x.job.file_num = j.file_num
                 /\ \E m : /\ x.out = <<m>> /\ m.type = "digest" /\ m.file = j.file_num
                           /\ m.version = source[j.file_num]
           /\ ~Opening(j) /\ ~Asking(j) => x.job = j /\ x.out = <<>>
  <1>0. /\ j \in Reader /\ (j.stream \/ j.confirmed => j.file_num \in File)
        /\ (j.stream => j.pos <= Size[j.file_num]) /\ j.id \in Nat
        /\ j.stream \in BOOLEAN /\ j.confirmed \in BOOLEAN /\ j.waiting \in BOOLEAN
    BY DEF SoundJob, Reader
  <1>1. CASE Opening(j) /\ fails
    <2>1. PICK c : c = NextFile(j)
      OBVIOUS
    <2>2. x = [job |-> c, out |-> <<[type |-> "error", id |-> j.id]>>]
      BY <1>1, <2>1 DEF InitJob, Opened
    <2>3. SoundJob(c) /\ c.id = j.id /\ Idle(c)
      BY <1>0, <1>1, <2>1, NextFileFields DEF Opening
    <2>4. PICK m : m = [type |-> "error", id |-> j.id]
      OBVIOUS
    <2>5. m \in ToClient /\ m.id = j.id /\ m.type = "error"
      BY <1>0, <2>4 DEF ToClient
    <2>6. x.job = c /\ x.out = <<m>>
      BY <2>2, <2>4
    <2>7. x.job.confirmed => x.job.stream
      BY <2>3, <2>6 DEF Idle
    <2> QED
      BY <1>1, <2>3, <2>5, <2>6, <2>7
  <1>2. CASE Opening(j) /\ ~fails
    <2>1. PICK o : o = [j EXCEPT !.stream = TRUE, !.pos = 0, !.confirmed = FALSE, !.waiting = FALSE]
      OBVIOUS
    <2>2. PICK c : c = [o EXCEPT !.waiting = TRUE]
      OBVIOUS
    <2>3. /\ o \in Reader /\ o.id = j.id /\ o.stream /\ o.pos = 0 /\ ~o.confirmed /\ ~o.waiting
          /\ o.file_num = j.file_num
      BY <1>0, <2>1 DEF Reader
    <2>4. /\ c \in Reader /\ c.id = j.id /\ c.stream /\ c.pos = 0 /\ ~c.confirmed /\ c.waiting
          /\ c.file_num = j.file_num
      BY <2>2, <2>3 DEF Reader
    <2>5. Opened(j, fails) = o /\ Asking(o)
      BY <1>2, <2>1, <2>3 DEF Opened, Asking
    <2>6. PICK m : m = [type |-> "digest", id |-> j.id, file |-> o.file_num,
                        version |-> source[o.file_num]]
      OBVIOUS
    <2>7. x = [job |-> c, out |-> <<m>>]
      BY <1>2, <2>2, <2>5, <2>6 DEF InitJob
    <2>8. j.file_num \in File /\ Size[j.file_num] \in Nat /\ source[j.file_num] \in 1..MaxVersion
      BY <1>2, Files DEF Opening
    <2>9. /\ m \in ToClient /\ m.id = j.id /\ m.type = "digest" /\ m.file = j.file_num
          /\ m.version = source[j.file_num]
      BY <1>0, <2>3, <2>6, <2>8 DEF ToClient
    <2>10. SoundJob(c) /\ Waits(c)
      BY <2>4, <2>8 DEF SoundJob, Waits
    <2>11. x.job = c /\ x.out = <<m>>
      BY <2>7
    <2> QED
      BY <1>2, <2>4, <2>9, <2>10, <2>11
  <1>3. CASE ~Opening(j) /\ Asking(j)
    <2>1. PICK c : c = [j EXCEPT !.waiting = TRUE]
      OBVIOUS
    <2>2. PICK m : m = [type |-> "digest", id |-> j.id, file |-> j.file_num,
                        version |-> source[j.file_num]]
      OBVIOUS
    <2>3. x = [job |-> c, out |-> <<m>>]
      BY <1>3, <2>1, <2>2 DEF InitJob, Opened
    <2>4. j.file_num \in File /\ source[j.file_num] \in 1..MaxVersion
      BY <1>0, <1>3 DEF Asking
    <2>5. m \in ToClient /\ m.id = j.id /\ m.type = "digest"
      BY <1>0, <2>2, <2>4 DEF ToClient
    <2>6. /\ c \in Reader /\ c.id = j.id /\ c.stream = j.stream /\ c.pos = j.pos
          /\ c.confirmed = j.confirmed /\ c.file_num = j.file_num
      BY <1>0, <2>1 DEF Reader
    <2>7. SoundJob(c) /\ (c.confirmed => c.stream)
      BY <1>0, <1>3, <2>6 DEF SoundJob, Asking
    <2>8. x.job = c /\ x.out = <<m>>
      BY <2>3
    <2> QED
      BY <1>3, <2>5, <2>6, <2>7, <2>8
  <1>4. CASE ~Opening(j) /\ ~Asking(j)
    <2>1. x = [job |-> j, out |-> <<>>]
      BY <1>4 DEF InitJob, Opened
    <2>2. x.job = j /\ x.out = <<>>
      BY <2>1
    <2>3. j.confirmed => j.stream
      BY <1>0, <1>4 DEF Opening
    <2> QED
      BY <1>4, <2>2, <2>3
  <1> QED
    BY <1>1, <1>2, <1>3, <1>4

LEMMA ReadJobFields ==
    ASSUME NEW j, SoundJob(j), j.confirmed => j.stream, source \in [File -> 1..MaxVersion],
           NEW fails \in BOOLEAN, NEW y, y = ReadJob(j, fails)
    PROVE  /\ \/ y.job = <<>>
              \/ \E c : y.job = <<c>> /\ SoundJob(c) /\ c.id = j.id
           /\ \/ y.out = <<>>
              \/ \E m \in ToClient :
                    /\ y.out = <<m>> /\ m.id = j.id
                    /\ m.type = "block" => m.number \in 1..Size[m.file] + 1
           /\ ~j.confirmed /\ j.waiting => y.job = <<j>> /\ y.out = <<>>
           /\ ~j.confirmed /\ ~j.waiting =>
                 /\ y.job = <<>>
                 /\ \E m : y.out = <<m>> /\ m.type \in {"error", "done"}
           /\ j.confirmed /\ fails =>
                 \E c, m : y.job = <<c>> /\ y.out = <<m>> /\ m.type = "error"
           /\ j.confirmed /\ ~fails =>
                 \E c, m :
                    /\ y.job = <<c>> /\ y.out = <<m>>
                    /\ m.type = "block" /\ m.file = j.file_num /\ m.version = source[j.file_num]
                    /\ m.number = j.pos + 1
                    /\ \/ Sends(c) /\ c.file_num = j.file_num /\ c.pos = j.pos + 1
                       \/ Idle(c) /\ c.file_num = j.file_num + 1 /\ ~(j.pos < Size[j.file_num])
  <1>0. /\ j \in Reader /\ (j.stream \/ j.confirmed => j.file_num \in File)
        /\ (j.stream => j.pos <= Size[j.file_num]) /\ j.id \in Nat /\ j.pos \in Nat
        /\ j.stream \in BOOLEAN /\ j.confirmed \in BOOLEAN /\ j.waiting \in BOOLEAN
    BY DEF SoundJob, Reader
  <1>1. CASE ~j.confirmed /\ j.waiting
    <2>1. y = [job |-> <<j>>, out |-> <<>>]
      BY <1>1 DEF ReadJob
    <2>2. y.job = <<j>> /\ y.out = <<>>
      BY <2>1
    <2> QED
      BY <1>1, <2>2
  <1>2. CASE ~j.confirmed /\ ~j.waiting
    <2>1. PICK t : t = (IF j.skipped /\ Len(Size) = 1 THEN "error" ELSE "done")
      OBVIOUS
    <2>2. PICK m : m = [type |-> t, id |-> j.id]
      OBVIOUS
    <2>3. y = [job |-> <<>>, out |-> <<m>>]
      BY <1>2, <2>1, <2>2 DEF ReadJob
    <2>4. y.job = <<>> /\ y.out = <<m>>
      BY <2>3
    <2>5. m \in ToClient /\ m.id = j.id /\ m.type \in {"error", "done"}
      BY <1>0, <2>1, <2>2 DEF ToClient
    <2> QED
      BY <1>2, <2>4, <2>5
  <1>3. CASE j.confirmed /\ fails
    <2>1. PICK c : c = NextFile(j)
      OBVIOUS
    <2>2. PICK m : m = [type |-> "error", id |-> j.id]
      OBVIOUS
    <2>3. y = [job |-> <<c>>, out |-> <<m>>]
      BY <1>3, <2>1, <2>2 DEF ReadJob
    <2>4. y.job = <<c>> /\ y.out = <<m>>
      BY <2>3
    <2>5. m \in ToClient /\ m.id = j.id /\ m.type = "error"
      BY <1>0, <2>2 DEF ToClient
    <2>6. SoundJob(c) /\ c.id = j.id
      BY <1>0, <1>3, <2>1, NextFileFields
    <2> QED
      BY <1>3, <2>4, <2>5, <2>6
  <1>4. CASE j.confirmed /\ ~fails
    <2>0. /\ j.file_num \in File /\ Size[j.file_num] \in Nat /\ source[j.file_num] \in 1..MaxVersion
          /\ j.stream /\ j.pos <= Size[j.file_num]
      BY <1>0, <1>4, Files
    <2>1. PICK c : c = IF j.pos < Size[j.file_num] THEN [j EXCEPT !.pos = @ + 1] ELSE NextFile(j)
      OBVIOUS
    <2>2. PICK m : m = [type |-> "block", id |-> j.id, file |-> j.file_num,
                        version |-> source[j.file_num], number |-> j.pos + 1]
      OBVIOUS
    <2>3. y = [job |-> <<c>>, out |-> <<m>>]
      BY <1>4, <2>1, <2>2 DEF ReadJob
    <2>4. y.job = <<c>> /\ y.out = <<m>>
      BY <2>3
    <2>5. /\ m \in ToClient /\ m.id = j.id /\ m.type = "block" /\ m.file = j.file_num
          /\ m.version = source[j.file_num] /\ m.number = j.pos + 1
      BY <1>0, <2>0, <2>2 DEF ToClient
    <2>6. m.number \in 1..Size[m.file] + 1
      BY <1>0, <2>0, <2>5
    <2>7. /\ SoundJob(c) /\ c.id = j.id
          /\ \/ Sends(c) /\ c.file_num = j.file_num /\ c.pos = j.pos + 1
             \/ Idle(c) /\ c.file_num = j.file_num + 1 /\ ~(j.pos < Size[j.file_num])
      <3>1. CASE j.pos < Size[j.file_num]
        <4>1. c = [j EXCEPT !.pos = j.pos + 1]
          BY <2>1, <3>1
        <4>2. /\ c \in Reader /\ c.id = j.id /\ c.file_num = j.file_num /\ c.pos = j.pos + 1
              /\ c.stream = j.stream /\ c.confirmed = j.confirmed
          BY <1>0, <4>1 DEF Reader
        <4>3. j.pos + 1 <= Size[j.file_num]
          BY <1>0, <2>0, <3>1
        <4> QED
          BY <1>4, <2>0, <4>2, <4>3 DEF SoundJob, Sends
      <3>2. CASE ~(j.pos < Size[j.file_num])
        <4>1. c = NextFile(j)
          BY <2>1, <3>2
        <4> QED
          BY <1>0, <2>0, <3>2, <4>1, NextFileFields
      <3> QED
        BY <3>1, <3>2
    <2> QED
      BY <1>4, <2>4, <2>5, <2>6, <2>7
  <1> QED
    BY <1>0, <1>1, <1>2, <1>3, <1>4

(* The jobs and messages of one round of handle_read_jobs.                 *)
Inited(o) == [i \in 1..Len(reads) |-> InitJob(reads[i], i = o)]
Outspoken(o) == {i \in 1..Len(reads) : Inited(o)[i].out # <<>>}
FirstRead(o, rf) == ReadJob(Inited(o)[1].job, rf)
TimerRound(o, rf) ==
    /\ reads # <<>>
    /\ rf => Inited(o)[1].job.confirmed
    /\ o # 0 => Opening(reads[o])
    /\ reads' = FirstRead(o, rf).job \o [i \in 1..Len(reads) - 1 |-> Inited(o)[i + 1].job]
    /\ \E p \in Ordered(Outspoken(o)) :
          down' = down \o [k \in DOMAIN p |-> Head(Inited(o)[p[k]].out)] \o FirstRead(o, rf).out
    /\ errors' = errors + (IF o # 0 THEN 1 ELSE 0) + (IF rf THEN 1 ELSE 0)
    /\ UNCHANGED <<disk, source, write, up, ask, saved, failed, lastId, losses, holed, agreed>>

LEMMA RoundJobs ==
    ASSUME TransferIInv, NEW o, NEW rf \in BOOLEAN, TimerRound(o, rf)
    PROVE  /\ Len(reads) \in Nat /\ Len(reads) >= 1 /\ 1 \in 1..Len(reads)
           /\ source \in [File -> 1..MaxVersion]
           /\ \A i \in 1..Len(reads) :
                 /\ SoundJob(reads[i]) /\ reads[i].id \in 1..lastId
                 /\ Inited(o)[i] = InitJob(reads[i], i = o)
                 /\ SoundJob(Inited(o)[i].job) /\ Inited(o)[i].job.id = reads[i].id
                 /\ Inited(o)[i].job.confirmed => Inited(o)[i].job.stream
                 /\ \/ Inited(o)[i].out = <<>>
                    \/ \E m \in ToClient : /\ Inited(o)[i].out = <<m>> /\ m.id = reads[i].id
                                           /\ m.type \in {"error", "digest"}
           /\ \/ FirstRead(o, rf).job = <<>>
              \/ \E c : FirstRead(o, rf).job = <<c>> /\ SoundJob(c) /\ c.id = reads[1].id
           /\ \/ FirstRead(o, rf).out = <<>>
              \/ \E m \in ToClient :
                    /\ FirstRead(o, rf).out = <<m>> /\ m.id = reads[1].id
                    /\ m.type = "block" => m.number \in 1..Size[m.file] + 1
  <1>1. /\ reads \in Seq(Reader) /\ Len(reads) \in Nat /\ reads # <<>>
        /\ \A i \in 1..Len(reads) : SoundJob(reads[i]) /\ reads[i].id \in 1..lastId
    BY Typed DEF ReadsTyped, SoundJob, TimerRound
  <1>2. Len(reads) >= 1 /\ 1 \in 1..Len(reads)
    BY <1>1
  <1>3. source \in [File -> 1..MaxVersion]
    BY DEF TransferIInv, TransferShape
  <1>4. ASSUME NEW i \in 1..Len(reads)
        PROVE  /\ Inited(o)[i] = InitJob(reads[i], i = o)
               /\ SoundJob(Inited(o)[i].job) /\ Inited(o)[i].job.id = reads[i].id
               /\ Inited(o)[i].job.confirmed => Inited(o)[i].job.stream
               /\ \/ Inited(o)[i].out = <<>>
                  \/ \E m \in ToClient : /\ Inited(o)[i].out = <<m>> /\ m.id = reads[i].id
                                         /\ m.type \in {"error", "digest"}
    <2>1. PICK b : b = (i = o)
      OBVIOUS
    <2>2. b \in BOOLEAN
      BY <2>1
    <2>3. PICK j : j = reads[i]
      OBVIOUS
    <2>4. PICK x : x = InitJob(j, b)
      OBVIOUS
    <2>5. Inited(o)[i] = x /\ Inited(o)[i] = InitJob(reads[i], i = o)
      BY <2>1, <2>3, <2>4 DEF Inited
    <2>6. SoundJob(j)
      BY <1>1, <2>3
    <2>7. /\ SoundJob(x.job) /\ x.job.id = j.id /\ (x.job.confirmed => x.job.stream)
          /\ \/ x.out = <<>>
             \/ \E m \in ToClient : /\ x.out = <<m>> /\ m.id = j.id
                                    /\ m.type \in {"error", "digest"}
      BY <1>3, <2>2, <2>4, <2>6, InitJobFields
    <2> QED
      BY <2>3, <2>5, <2>7
  <1>5. PICK j : j = Inited(o)[1].job
    OBVIOUS
  <1>6. PICK y : y = ReadJob(j, rf)
    OBVIOUS
  <1>7. SoundJob(j) /\ (j.confirmed => j.stream) /\ j.id = reads[1].id
    BY <1>2, <1>4, <1>5
  <1>8. /\ \/ y.job = <<>>
           \/ \E c : y.job = <<c>> /\ SoundJob(c) /\ c.id = j.id
        /\ \/ y.out = <<>>
           \/ \E m \in ToClient :
                 /\ y.out = <<m>> /\ m.id = j.id
                 /\ m.type = "block" => m.number \in 1..Size[m.file] + 1
    <2>1. \/ y.job = <<>>
          \/ \E c : y.job = <<c>> /\ SoundJob(c) /\ c.id = j.id
      BY <1>3, <1>6, <1>7, ReadJobFields
    <2>2. \/ y.out = <<>>
          \/ \E m \in ToClient :
                /\ y.out = <<m>> /\ m.id = j.id
                /\ m.type = "block" => m.number \in 1..Size[m.file] + 1
      BY <1>3, <1>6, <1>7, ReadJobFields
    <2> QED
      BY <2>1, <2>2
  <1>9. y = FirstRead(o, rf)
    BY <1>5, <1>6 DEF FirstRead
  <1> QED
    BY <1>1, <1>2, <1>3, <1>4, <1>7, <1>8, <1>9

(* The list of the jobs after the round.                                   *)
LEMMA RoundReads ==
    ASSUME TransferIInv, NEW o, NEW rf \in BOOLEAN, TimerRound(o, rf)
    PROVE  /\ ReadsTyped'
           /\ \/ /\ FirstRead(o, rf).job = <<>> /\ Len(reads') = Len(reads) - 1
                 /\ \A i \in 1..Len(reads') :
                       i + 1 \in 1..Len(reads) /\ reads'[i] = Inited(o)[i + 1].job
              \/ /\ FirstRead(o, rf).job = <<reads'[1]>> /\ Len(reads') = Len(reads)
                 /\ reads'[1].id = reads[1].id
                 /\ \A i \in 2..Len(reads) : reads'[i] = Inited(o)[i].job
  <1>1. PICK n : n = Len(reads)
    OBVIOUS
  <1>2. PICK s : s = [i \in 1..n - 1 |-> Inited(o)[i + 1].job]
    OBVIOUS
  <1>3. PICK h : h = FirstRead(o, rf).job
    OBVIOUS
  <1>4. reads' = h \o s /\ lastId' = lastId
    BY <1>1, <1>2, <1>3 DEF TimerRound
  <1>5. n \in Nat /\ n >= 1 /\ 1 \in 1..n
    BY <1>1, RoundJobs
  <1>6. \A i \in 1..n - 1 : i + 1 \in 1..n /\ i \in Nat
    BY <1>5
  <1>7. \A i \in 1..n : /\ Inited(o)[i].job \in Reader /\ SoundJob(Inited(o)[i].job)
                        /\ Inited(o)[i].job.id \in 1..lastId
    BY <1>1, RoundJobs DEF SoundJob
  <1>8. /\ s \in Seq(Reader) /\ Len(s) = n - 1
        /\ \A i \in 1..n - 1 : s[i] = Inited(o)[i + 1].job /\ SoundJob(s[i]) /\ s[i].id \in 1..lastId
    <2>1. \A i \in 1..n - 1 : /\ s[i] = Inited(o)[i + 1].job /\ s[i] \in Reader
                              /\ SoundJob(s[i]) /\ s[i].id \in 1..lastId
      BY <1>2, <1>6, <1>7
    <2>2. n - 1 \in Nat
      BY <1>5
    <2>3. s = [i \in 1..n - 1 |-> s[i]]
      BY <1>2
    <2>4. s \in [1..n - 1 -> Reader]
      BY <2>1, <2>3
    <2>5. s \in Seq(Reader) /\ Len(s) = n - 1
      BY <2>2, <2>4
    <2> QED
      BY <2>1, <2>5
  <1>9. CASE h = <<>>
    <2>1. reads' = s
      BY <1>4, <1>8, <1>9
    <2>2. Len(reads') = n - 1 /\ \A i \in 1..Len(reads') : i + 1 \in 1..n /\ reads'[i] = Inited(o)[i + 1].job
      BY <1>6, <1>8, <2>1
    <2>3. ReadsTyped'
      BY <1>4, <1>8, <2>1 DEF ReadsTyped, SoundJob
    <2> QED
      BY <1>1, <1>3, <1>9, <2>2, <2>3
  <1>10. ASSUME NEW c, h = <<c>>, SoundJob(c), c.id = reads[1].id
         PROVE  /\ ReadsTyped' /\ h = <<reads'[1]>> /\ Len(reads') = n
                /\ reads'[1].id = reads[1].id
                /\ \A i \in 2..n : reads'[i] = Inited(o)[i].job
    <2>1. c \in Reader
      BY <1>10 DEF SoundJob
    <2>2. /\ reads' \in Seq(Reader) /\ Len(reads') = n /\ reads'[1] = c
          /\ \A i \in 2..n : reads'[i] = s[i - 1] /\ i - 1 \in 1..n - 1
      BY <1>4, <1>5, <1>8, <1>10, <2>1
    <2>3. \A i \in 2..n : reads'[i] = Inited(o)[i].job
      <3>1. \A i \in 2..n : (i - 1) + 1 = i
        BY <1>5
      <3> QED
        BY <1>8, <2>2, <3>1
    <2>4. c.id \in 1..lastId
      BY <1>1, <1>5, <1>10, RoundJobs
    <2>5. \A i \in 1..n : i = 1 \/ i \in 2..n
      BY <1>5
    <2>6. \A i \in 1..n : SoundJob(reads'[i]) /\ reads'[i].id \in 1..lastId
      BY <1>8, <1>10, <2>2, <2>4, <2>5
    <2>7. ReadsTyped'
      BY <1>4, <2>2, <2>6 DEF ReadsTyped, SoundJob
    <2> QED
      BY <1>10, <2>2, <2>3, <2>7
  <1>11. h = <<>> \/ \E c : h = <<c>> /\ SoundJob(c) /\ c.id = reads[1].id
    BY <1>3, RoundJobs
  <1> QED
    BY <1>1, <1>3, <1>9, <1>10, <1>11

(* Where the reader of the write job is after the round.                   *)
LEMMA RoundReaders ==
    ASSUME TransferIInv, NEW o, NEW rf \in BOOLEAN, TimerRound(o, rf)
    PROVE  /\ Readers = {} => Readers' = {}
           /\ \A r \in Readers :
                 /\ Readers = {r} /\ r \in 1..Len(reads)
                 /\ r # 1 => \E q : Readers' = {q} /\ reads'[q] = Inited(o)[r].job
                 /\ r = 1 => \/ FirstRead(o, rf).job = <<>> /\ Readers' = {}
                             \/ FirstRead(o, rf).job = <<reads'[1]>> /\ Readers' = {1}
  <1>1. /\ Len(reads) \in Nat /\ Len(reads) >= 1 /\ 1 \in 1..Len(reads)
        /\ \A i \in 1..Len(reads) : Inited(o)[i].job.id = reads[i].id
    BY RoundJobs
  <1>2. write' = write
    BY DEF TimerRound
  <1>3. \A r \in Readers : Readers = {r} /\ r \in 1..Len(reads)
    BY DEF TransferIInv, PipeInOrder, ReaderInOrder, Readers
  <1>4. CASE /\ FirstRead(o, rf).job = <<>> /\ Len(reads') = Len(reads) - 1
             /\ \A i \in 1..Len(reads') :
                   i + 1 \in 1..Len(reads) /\ reads'[i] = Inited(o)[i + 1].job
    <2>1. \A i \in 1..Len(reads') : reads'[i].id = reads[i + 1].id /\ i + 1 \in 1..Len(reads)
      BY <1>1, <1>4
    <2>2. \A i \in Readers' : i \in 1..Len(reads') /\ i + 1 \in Readers
      BY <1>2, <2>1 DEF Readers
    <2>3. \A r \in Readers : r # 1 => r - 1 \in Readers' /\ reads'[r - 1] = Inited(o)[r].job
      <3> SUFFICES ASSUME NEW r \in Readers, r # 1
                   PROVE  r - 1 \in Readers' /\ reads'[r - 1] = Inited(o)[r].job
        OBVIOUS
      <3>1. r - 1 \in 1..Len(reads') /\ (r - 1) + 1 = r
        BY <1>1, <1>3, <1>4
      <3>2. reads'[r - 1] = Inited(o)[r].job /\ reads'[r - 1].id = reads[r].id
        BY <1>4, <2>1, <3>1
      <3>3. reads[r].id = write.id
        BY DEF Readers
      <3> QED
        BY <1>2, <3>1, <3>2, <3>3 DEF Readers
    <2>4. \A i, k : i \in 1..Len(reads') /\ k \in 1..Len(reads') /\ i + 1 = k + 1 => i = k
      BY <1>1, <1>4
    <2>5. \A r \in Readers : r # 1 => Readers' = {r - 1}
      <3> SUFFICES ASSUME NEW r \in Readers, r # 1 PROVE Readers' = {r - 1}
        OBVIOUS
      <3>1. r - 1 \in Readers'
        BY <2>3
      <3>2. \A i \in Readers' : i + 1 = r
        BY <1>3, <2>2
      <3>3. \A i \in Readers' : i = r - 1
        BY <2>2, <3>2, <1>1, <1>3
      <3> QED
        BY <3>1, <3>3
    <2>6. \A r \in Readers : r = 1 => Readers' = {}
      <3>1. \A i : i \in 1..Len(reads') => i + 1 # 1
        BY <1>1, <1>4
      <3> QED
        BY <1>3, <2>2, <3>1
    <2> QED
      BY <1>3, <1>4, <2>2, <2>3, <2>5, <2>6
  <1>5. CASE /\ FirstRead(o, rf).job = <<reads'[1]>> /\ Len(reads') = Len(reads)
             /\ reads'[1].id = reads[1].id
             /\ \A i \in 2..Len(reads) : reads'[i] = Inited(o)[i].job
    <2>1. \A i \in 1..Len(reads) : i = 1 \/ i \in 2..Len(reads)
      BY <1>1
    <2>2. \A i \in 1..Len(reads) : reads'[i].id = reads[i].id
      BY <1>1, <1>5, <2>1
    <2>3. Readers' = Readers
      BY <1>2, <1>5, <2>2 DEF Readers
    <2> QED
      BY <1>3, <1>5, <2>1, <2>3
  <1> QED
    BY <1>4, <1>5, RoundReads

LEMMA Concatenated ==
    ASSUME NEW S, NEW a \in Seq(S), NEW b \in Seq(S)
    PROVE  /\ a \o b \in Seq(S) /\ Len(a \o b) = Len(a) + Len(b)
           /\ \A i \in 1..Len(a) : (a \o b)[i] = a[i]
  OBVIOUS

(* The messages of the round: those of init_data_stream up to place c, at  *)
(* most one for each job, and then the one of read.                        *)
RoundSays(o, rf, c) ==
    /\ \A e \in Fresh :
          \/ e <= c /\ \E r \in Readers : Inited(o)[r].out = <<down'[e]>>
          \/ e = c + 1 /\ 1 \in Readers /\ FirstRead(o, rf).out = <<down'[e]>>
    /\ \A a, b \in Fresh : a <= c /\ b <= c => a = b
    /\ \A r \in Readers : \A m : Inited(o)[r].out = <<m>> =>
          \E e \in Fresh : e <= c /\ down'[e] = m
    /\ \A m : 1 \in Readers /\ FirstRead(o, rf).out = <<m>> =>
          c + 1 \in Fresh /\ down'[c + 1] = m

LEMMA RoundMessages ==
    ASSUME TransferIInv, NEW o, NEW rf \in BOOLEAN, TimerRound(o, rf)
    PROVE  /\ SenderWorks /\ DownTyped'
           /\ \E c \in Nat : RoundSays(o, rf, c)
  <1>1. PICK p \in Ordered(Outspoken(o)) :
           down' = down \o [k \in DOMAIN p |-> Head(Inited(o)[p[k]].out)] \o FirstRead(o, rf).out
    BY DEF TimerRound
  <1>2. PICK z : z = FirstRead(o, rf).out
    OBVIOUS
  <1>3. PICK s : s = [k \in DOMAIN p |-> Head(Inited(o)[p[k]].out)]
    OBVIOUS
  <1>4. /\ Len(reads) \in Nat /\ 1 \in 1..Len(reads) /\ Outspoken(o) \in SUBSET (1..Len(reads))
        /\ \A i \in Outspoken(o) : i \in 1..Len(reads) /\ i \in Nat
    BY RoundJobs DEF Outspoken
  <1>5. IsFiniteSet(Outspoken(o))
    BY <1>4, FiniteBelow
  <1>6. PICK n \in Nat : n = Cardinality(Outspoken(o))
    BY <1>5, FS_CardinalityType
  <1>7. /\ DOMAIN p = 1..n
        /\ \A k \in 1..n : p[k] \in Outspoken(o)
        /\ \A x \in Outspoken(o) : \E k \in 1..n : p[k] = x
        /\ \A a, b \in 1..n : p[a] = p[b] => a = b
    BY <1>4, <1>5, <1>6, OrderedAll
  <1>8. \A k \in 1..n :
           /\ p[k] \in 1..Len(reads) /\ Inited(o)[p[k]].out = <<s[k]>>
           /\ s[k] \in ToClient /\ s[k].id = reads[p[k]].id /\ s[k].type \in {"error", "digest"}
    <2> SUFFICES ASSUME NEW k \in 1..n
                 PROVE  /\ p[k] \in 1..Len(reads) /\ Inited(o)[p[k]].out = <<s[k]>>
                        /\ s[k] \in ToClient /\ s[k].id = reads[p[k]].id
                        /\ s[k].type \in {"error", "digest"}
      OBVIOUS
    <2>1. PICK i : i = p[k]
      OBVIOUS
    <2>2. i \in 1..Len(reads) /\ Inited(o)[i].out # <<>>
      BY <1>7, <2>1 DEF Outspoken
    <2>3. PICK m \in ToClient : /\ Inited(o)[i].out = <<m>> /\ m.id = reads[i].id
                                /\ m.type \in {"error", "digest"}
      BY <2>2, RoundJobs
    <2>4. s[k] = Head(Inited(o)[i].out)
      BY <1>3, <1>7, <2>1
    <2>5. s[k] = m
      BY <2>3, <2>4
    <2> QED
      BY <2>1, <2>2, <2>3, <2>5
  <1>9. s \in Seq(ToClient) /\ Len(s) = n
    BY <1>3, <1>7, <1>8
  <1>10. /\ z \in Seq(ToClient) /\ Len(z) \in {0, 1}
         /\ Len(z) = 1 => /\ z = <<z[1]>> /\ z[1] \in ToClient /\ z[1].id = reads[1].id
                          /\ z[1].type = "block" => z[1].number \in 1..Size[z[1].file] + 1
    <2>1. CASE z = <<>>
      BY <2>1
    <2>2. ASSUME NEW m \in ToClient, z = <<m>>, m.id = reads[1].id,
                 m.type = "block" => m.number \in 1..Size[m.file] + 1
          PROVE  /\ z \in Seq(ToClient) /\ Len(z) \in {0, 1}
                 /\ z = <<z[1]>> /\ z[1] \in ToClient /\ z[1].id = reads[1].id
                 /\ z[1].type = "block" => z[1].number \in 1..Size[z[1].file] + 1
      <3>1. z[1] = m /\ Len(z) = 1 /\ z \in Seq(ToClient)
        BY <2>2
      <3> QED
        BY <2>2, <3>1
    <2>3. \/ z = <<>>
          \/ \E m \in ToClient : /\ z = <<m>> /\ m.id = reads[1].id
                                 /\ m.type = "block" => m.number \in 1..Size[m.file] + 1
      BY <1>2, RoundJobs
    <2> QED
      BY <2>1, <2>2, <2>3
  <1>11. down \in Seq(ToClient) /\ Len(down) \in Nat /\ DownTyped
    BY Typed DEF DownTyped
  <1>12. PICK l \in Nat : l = Len(down)
    BY <1>11
  <1>13. down' = (down \o s) \o z
    BY <1>1, <1>2, <1>3
  <1>14. /\ down' \in Seq(ToClient) /\ Len(down') = l + n + Len(z)
         /\ \A i \in 1..l : down'[i] = down[i]
         /\ \A k \in 1..n : down'[l + k] = s[k]
         /\ Len(z) = 1 => down'[l + n + 1] = z[1]
    <2>1. PICK t : t = down \o s
      OBVIOUS
    <2>2. /\ t \in Seq(ToClient) /\ Len(t) = l + n
          /\ \A i \in 1..l : t[i] = down[i]
          /\ \A k \in 1..n : t[l + k] = s[k]
      <3>1. t \in Seq(ToClient) /\ Len(t) = l + n /\ \A i \in 1..l : t[i] = down[i]
        <4>1. t \in Seq(ToClient) /\ Len(t) = Len(down) + Len(s)
          BY <1>9, <1>11, <2>1, Concatenated
        <4>2. \A i \in 1..Len(down) : t[i] = down[i]
          BY <1>9, <1>11, <2>1
        <4> QED
          BY <1>9, <1>12, <4>1, <4>2
      <3>2. ASSUME NEW k \in 1..n PROVE t[l + k] = s[k]
        <4>1. l + k \in 1..Len(down) + Len(s) /\ ~(l + k <= Len(down)) /\ l + k - Len(down) = k
          BY <1>9, <1>12
        <4> QED
          BY <1>9, <1>11, <2>1, <4>1
      <3> QED
        BY <3>1, <3>2
    <2>3. down' = t \o z
      BY <1>13, <2>1
    <2>4. /\ down' \in Seq(ToClient) /\ Len(down') = (l + n) + Len(z)
          /\ \A i \in 1..l + n : down'[i] = t[i]
          /\ Len(z) = 1 => down'[l + n + 1] = z[1]
      BY <1>10, <2>2, <2>3
    <2>5. (\A i \in 1..l : i \in 1..l + n) /\ (\A k \in 1..n : l + k \in 1..l + n)
      OBVIOUS
    <2> QED
      BY <2>2, <2>4, <2>5
  <1>15. \A i \in 1..Len(down') : \/ i \in 1..l
                                  \/ l < i /\ i <= l + n /\ \E k \in 1..n : i = l + k
                                  \/ i = l + n + 1 /\ Len(z) = 1
    <2> SUFFICES ASSUME NEW i \in 1..Len(down'), i \notin 1..l, ~(i = l + n + 1 /\ Len(z) = 1)
                 PROVE  l < i /\ i <= l + n /\ \E k \in 1..n : i = l + k
      OBVIOUS
    <2>0. Len(down') = l + n + Len(z) /\ Len(z) \in {0, 1}
      BY <1>10, <1>14
    <2>1. l < i /\ i <= l + n /\ i \in Nat
      <3>1. CASE Len(z) = 0
        BY <2>0, <3>1
      <3>2. CASE Len(z) = 1
        BY <2>0, <3>2
      <3> QED
        BY <2>0, <3>1, <3>2
    <2>2. i - l \in 1..n /\ i = l + (i - l)
      BY <2>1
    <2> QED
      BY <2>1, <2>2
  <1>16. SenderWorks
    <2>1. Len(down) <= Len(down')
      BY <1>10, <1>12, <1>14
    <2> QED
      BY <1>12, <1>14, <2>1 DEF SenderWorks, TimerRound
  <1>17. DownTyped'
    <2>1. lastId' = lastId
      BY DEF TimerRound
    <2>2. \A i \in 1..Len(reads) : reads[i].id \in 1..lastId
      BY RoundJobs
    <2>3. ASSUME NEW i \in 1..Len(down')
          PROVE  /\ down'[i].id \in 1..lastId
                 /\ down'[i].type = "block" => down'[i].number \in 1..Size[down'[i].file] + 1
      <3>1. CASE i \in 1..l
        BY <1>11, <1>12, <1>14, <3>1 DEF DownTyped
      <3>2. CASE \E k \in 1..n : i = l + k
        <4>1. PICK k \in 1..n : i = l + k
          BY <3>2
        <4>2. down'[i] = s[k] /\ s[k].id \in 1..lastId /\ s[k].type \in {"error", "digest"}
          BY <1>8, <1>14, <2>2, <4>1
        <4> QED
          BY <4>2
      <3>3. CASE i = l + n + 1 /\ Len(z) = 1
        BY <1>4, <1>10, <1>14, <2>2, <3>3
      <3> QED
        BY <1>15, <3>1, <3>2, <3>3
    <2> QED
      BY <1>14, <2>1, <2>3 DEF DownTyped
  <1>18. \A r \in Readers : Readers = {r} /\ r \in 1..Len(reads)
    BY DEF TransferIInv, PipeInOrder, ReaderInOrder, Readers
  <1>19. \A i : i \in Fresh <=> i \in 1..Len(down') /\ i \notin 1..l /\ down'[i].id = write.id
    BY <1>12, <1>14, <1>15 DEF Fresh
  <1>20. l + n \in Nat
    OBVIOUS
  <1>21. ASSUME NEW e \in Fresh
         PROVE  \/ e <= l + n /\ \E r \in Readers : Inited(o)[r].out = <<down'[e]>>
                \/ e = l + n + 1 /\ 1 \in Readers /\ FirstRead(o, rf).out = <<down'[e]>>
    <2>1. e \in 1..Len(down') /\ e \notin 1..l /\ down'[e].id = write.id
      BY <1>19
    <2>2. CASE e <= l + n /\ \E k \in 1..n : e = l + k
      <3>1. PICK k \in 1..n : e = l + k
        BY <2>2
      <3>2. down'[e] = s[k]
        BY <1>14, <3>1
      <3>3. p[k] \in Readers /\ Inited(o)[p[k]].out = <<down'[e]>>
        BY <1>8, <2>1, <3>2 DEF Readers
      <3> QED
        BY <2>2, <3>3
    <2>3. CASE e = l + n + 1 /\ Len(z) = 1
      BY <1>2, <1>4, <1>10, <1>14, <2>1, <2>3 DEF Readers
    <2> QED
      BY <1>15, <2>1, <2>2, <2>3
  <1>22. ASSUME NEW a \in Fresh, NEW b \in Fresh, a <= l + n, b <= l + n PROVE a = b
    <2>1. /\ a \in 1..Len(down') /\ a \notin 1..l /\ down'[a].id = write.id
          /\ b \in 1..Len(down') /\ b \notin 1..l /\ down'[b].id = write.id
      BY <1>19
    <2>2. a # l + n + 1 /\ b # l + n + 1
      BY <1>22, <2>1
    <2>3. PICK k \in 1..n : a = l + k
      BY <1>15, <2>1, <2>2
    <2>4. PICK j \in 1..n : b = l + j
      BY <1>15, <2>1, <2>2
    <2>5. p[k] \in Readers /\ p[j] \in Readers
      BY <1>8, <1>14, <2>1, <2>3, <2>4 DEF Readers
    <2>6. p[k] = p[j]
      BY <1>18, <2>5
    <2> QED
      BY <1>7, <2>3, <2>4, <2>6
  <1>23. ASSUME NEW r \in Readers, NEW m, Inited(o)[r].out = <<m>>
         PROVE  \E e \in Fresh : e <= l + n /\ down'[e] = m
    <2>1. r \in Outspoken(o)
      BY <1>18, <1>23 DEF Outspoken
    <2>2. PICK k \in 1..n : p[k] = r
      BY <1>7, <2>1
    <2>3. <<s[k]>> = <<m>> /\ s[k].id = reads[r].id
      BY <1>8, <1>23, <2>2
    <2>4. s[k] = m
      BY <2>3
    <2>5. /\ l + k \in 1..Len(down') /\ l + k \notin 1..l /\ l + k <= l + n
      BY <1>10, <1>14
    <2>6. down'[l + k] = m /\ m.id = write.id
      BY <1>14, <2>3, <2>4 DEF Readers
    <2> QED
      BY <1>19, <2>5, <2>6
  <1>24. ASSUME NEW m, 1 \in Readers, FirstRead(o, rf).out = <<m>>
         PROVE  l + n + 1 \in Fresh /\ down'[l + n + 1] = m
    <2>1. Len(z) = 1 /\ z[1] = m
      BY <1>2, <1>24
    <2>2. down'[l + n + 1] = m /\ m.id = write.id
      BY <1>10, <1>14, <1>24, <2>1 DEF Readers
    <2>3. l + n + 1 \in 1..Len(down') /\ l + n + 1 \notin 1..l
      BY <1>14, <2>1
    <2> QED
      BY <1>19, <2>2, <2>3
  <1> QED
    <2>1. RoundSays(o, rf, l + n)
      BY <1>21, <1>22, <1>23, <1>24 DEF RoundSays
    <2> QED
      BY <1>16, <1>17, <1>20, <2>1

(* What the round says to the write job, by the state of its reader.       *)
LEMMA RoundPipe ==
    ASSUME TransferIInv, NEW o, NEW rf \in BOOLEAN, TimerRound(o, rf)
    PROVE  PipeInOrder' /\ StreamTrue'
  <1>0. SenderWorks
    BY RoundMessages
  <1>c. PICK c \in Nat : RoundSays(o, rf, c)
    BY RoundMessages
  <1>1. /\ \A e \in Fresh :
              \/ e <= c /\ \E r \in Readers : Inited(o)[r].out = <<down'[e]>>
              \/ e = c + 1 /\ 1 \in Readers /\ FirstRead(o, rf).out = <<down'[e]>>
        /\ \A a, b \in Fresh : a <= c /\ b <= c => a = b
        /\ \A r \in Readers : \A m : Inited(o)[r].out = <<m>> =>
              \E e \in Fresh : e <= c /\ down'[e] = m
        /\ \A m : 1 \in Readers /\ FirstRead(o, rf).out = <<m>> =>
              c + 1 \in Fresh /\ down'[c + 1] = m
    BY <1>c DEF RoundSays
  <1>2. CASE Readers = {}
    <2>1. Fresh = {}
      BY <1>1, <1>2
    <2>2. Readers' = {}
      BY <1>2, RoundReaders
    <2> QED
      BY <1>0, <1>2, <2>1, <2>2, PipeSilent
  <1>3. ASSUME NEW r \in Readers PROVE PipeInOrder' /\ StreamTrue'
    <2>0. /\ Readers = {r} /\ r \in 1..Len(reads)
          /\ r # 1 => \E q : Readers' = {q} /\ reads'[q] = Inited(o)[r].job
          /\ r = 1 => \/ FirstRead(o, rf).job = <<>> /\ Readers' = {}
                      \/ FirstRead(o, rf).job = <<reads'[1]>> /\ Readers' = {1}
      BY RoundReaders
    <2>1. \A q \in Readers' : Readers' = {q}
      BY <2>0
    <2>2. ReaderInOrder(r)
      BY DEF TransferIInv, PipeInOrder
    <2>3. PICK j : j = reads[r]
      OBVIOUS
    <2>4. PICK b : b = (r = o)
      OBVIOUS
    <2>5. PICK x : x = InitJob(j, b)
      OBVIOUS
    <2>6. /\ Inited(o)[r] = x /\ SoundJob(j) /\ b \in BOOLEAN
          /\ source \in [File -> 1..MaxVersion]
      BY <2>0, <2>3, <2>4, <2>5, RoundJobs
    <2>7. /\ x.job.confirmed => x.job.stream
          /\ SoundJob(x.job)
          /\ Opening(j) /\ b =>
                /\ Idle(x.job)
                /\ \E m : x.out = <<m>> /\ m.type = "error"
          /\ Opening(j) /\ ~b =>
                /\ Waits(x.job) /\ x.job.file_num = j.file_num
                /\ \E m : /\ x.out = <<m>> /\ m.type = "digest" /\ m.file = j.file_num
                          /\ m.version = source[j.file_num]
          /\ ~Opening(j) /\ ~Asking(j) => x.job = j /\ x.out = <<>>
      BY <2>5, <2>6, InitJobFields
    <2>8. PICK y : y = ReadJob(x.job, rf)
      OBVIOUS
    <2>9. r = 1 => FirstRead(o, rf) = y
      BY <2>6, <2>8 DEF FirstRead
    <2>10. /\ ~x.job.confirmed /\ x.job.waiting => y.job = <<x.job>> /\ y.out = <<>>
           /\ ~x.job.confirmed /\ ~x.job.waiting =>
                 /\ y.job = <<>>
                 /\ \E m : y.out = <<m>> /\ m.type \in {"error", "done"}
           /\ x.job.confirmed /\ rf =>
                 \E d, m : y.job = <<d>> /\ y.out = <<m>> /\ m.type = "error"
           /\ x.job.confirmed /\ ~rf =>
                 \E d, m :
                    /\ y.job = <<d>> /\ y.out = <<m>>
                    /\ m.type = "block" /\ m.file = x.job.file_num
                    /\ m.version = source[x.job.file_num] /\ m.number = x.job.pos + 1
                    /\ \/ Sends(d) /\ d.file_num = x.job.file_num /\ d.pos = x.job.pos + 1
                       \/ /\ Idle(d) /\ d.file_num = x.job.file_num + 1
                          /\ ~(x.job.pos < Size[x.job.file_num])
      <3>1. PICK w : w = x.job
        OBVIOUS
      <3>2. SoundJob(w) /\ (w.confirmed => w.stream) /\ y = ReadJob(w, rf)
        BY <2>7, <2>8, <3>1
      <3> QED
        BY <2>6, <3>1, <3>2, ReadJobFields
    <2>11. j \in Reader
      BY <2>6 DEF SoundJob
    <2>12. CASE Broken
      <3>1. Broken' /\ Due' = Due
        BY <1>0, <2>12, FreshDue
      <3>2. Answers = {} /\ ask = {}
        BY <2>12 DEF TransferIInv, PipeInOrder, AnswerInOrder, AskedInOrder
      <3>3. \A k \in Due : down[k].type # "digest"
        BY <2>12 DEF TransferIInv, PipeInOrder, OtherInOrder
      <3> QED
        BY <1>0, <2>0, <2>1, <3>1, <3>2, <3>3, PipeBroken
    <2>13. CASE ~Broken /\ Waits(j)
      <3>1. x.job = j /\ x.out = <<>>
        BY <2>7, <2>13 DEF Waits, Opening, Asking
      <3>2. y.job = <<j>> /\ y.out = <<>>
        BY <2>10, <2>13, <3>1 DEF Waits
      <3>3. Fresh = {}
        <4>1. \A e : x.out # <<e>> /\ y.out # <<e>>
          BY <3>1, <3>2
        <4> QED
          BY <1>1, <2>0, <2>6, <2>9, <4>1
      <3>4. \E q : Readers' = {q} /\ reads'[q] = j
        <4>1. CASE r # 1
          BY <2>0, <2>6, <3>1, <4>1
        <4>2. CASE r = 1
          BY <2>0, <2>9, <3>2, <4>2
        <4> QED
          BY <4>1, <4>2
      <3> QED
        BY <1>0, <2>0, <2>3, <3>3, <3>4, PipeSilent
    <2>14. CASE ~Broken /\ Idle(j)
      <3>0. /\ Answers = {} /\ ask = {} /\ \A k \in Due : down[k].type \in {"dir", "block"}
        BY <2>3, <2>14, IdleFacts
      <3>1. CASE j.file_num \in File /\ ~b
        <4>1. Opening(j) /\ ~b
          BY <2>14, <3>1 DEF Opening, Idle
        <4>2. PICK m : /\ x.out = <<m>> /\ m.type = "digest" /\ m.file = j.file_num
                       /\ m.version = source[j.file_num]
          BY <2>7, <4>1
        <4>3. Waits(x.job) /\ x.job.file_num = j.file_num
          BY <2>7, <4>1
        <4>4. y.job = <<x.job>> /\ y.out = <<>>
          BY <2>10, <4>3 DEF Waits
        <4>5. PICK e \in Fresh : e <= c /\ down'[e] = m
          BY <1>1, <2>6, <4>2
        <4>6. Fresh = {e}
          <5>1. \A d : y.out # <<d>>
            BY <4>4
          <5>2. \A d \in Fresh : d <= c
            BY <1>1, <2>9, <2>0, <5>1
          <5> QED
            BY <1>1, <4>5, <5>2
        <4>7. PICK q : Readers' = {q} /\ reads'[q] = x.job
          <5>1. CASE r # 1
            BY <2>0, <2>6, <5>1
          <5>2. CASE r = 1
            BY <2>0, <2>9, <4>4, <5>2
          <5> QED
            BY <5>1, <5>2
        <4>8. Waits(reads[q])' /\ reads'[q].file_num = j.file_num
          BY <4>3, <4>7 DEF Waits
        <4> QED
          BY <1>0, <2>3, <2>14, <3>1, <4>2, <4>5, <4>6, <4>7, <4>8, PipePrompt
      <3>2. CASE j.file_num \in File /\ b
        <4>1. Opening(j) /\ b
          BY <2>14, <3>2 DEF Opening, Idle
        <4>2. PICK m : x.out = <<m>> /\ m.type = "error"
          BY <2>7, <4>1
        <4>3. PICK e \in Fresh : e <= c /\ down'[e] = m
          BY <1>1, <2>6, <4>2
        <4>4. \A d \in Fresh : e <= d
          BY <1>1, <4>3, FreshDue, <1>0
        <4>5. Broken' /\ Due' = Due
          BY <1>0, <4>2, <4>3, <4>4, FreshDue
        <4> QED
          BY <1>0, <2>0, <2>1, <3>0, <4>5, PipeBroken
      <3>3. CASE j.file_num \notin File
        <4>0. j.file_num = Beyond
          BY <2>11, <3>3, Files DEF Reader
        <4>1. x.job = j /\ x.out = <<>>
          BY <2>7, <2>14, <3>3 DEF Opening, Asking, Idle
        <4>2. PICK m : y.job = <<>> /\ y.out = <<m>> /\ m.type \in {"error", "done"}
          BY <2>10, <2>14, <4>1 DEF Idle
        <4>3. \A e : x.out # <<e>>
          BY <4>1
        <4>4. CASE r # 1
          <5>1. Fresh = {}
            BY <1>1, <2>0, <2>6, <4>3, <4>4
          <5> QED
            BY <1>0, <2>0, <2>3, <2>6, <4>1, <4>4, <5>1, PipeSilent
        <4>5. CASE r = 1
          <5>1. c + 1 \in Fresh /\ down'[c + 1] = m
            BY <1>1, <2>9, <4>2, <4>5
          <5>2. Fresh = {c + 1}
            BY <1>1, <2>0, <2>6, <4>3, <5>1
          <5>3. Readers' = {}
            BY <2>0, <2>9, <4>2, <4>5
          <5>4. CASE m.type = "done"
            BY <1>0, <2>3, <2>14, <4>0, <5>1, <5>2, <5>3, <5>4, PipePrompt
          <5>5. CASE m.type = "error"
            <6>1. Broken' /\ Due' = Due
              BY <1>0, <5>1, <5>2, <5>5, FreshDue
            <6> QED
              BY <1>0, <2>0, <2>1, <3>0, <6>1, PipeBroken
          <5> QED
            BY <4>2, <5>4, <5>5
        <4> QED
          BY <4>4, <4>5
      <3> QED
        BY <2>6, <3>1, <3>2, <3>3
    <2>15. CASE ~Broken /\ Sends(j)
      <3>0. /\ Answers = {} /\ ask = {} /\ \A k \in Due : down[k].type = "block"
        BY <2>2, <2>3, <2>15 DEF ReaderInOrder, Idle, Waits, Sends
      <3>1. x.job = j /\ x.out = <<>>
        BY <2>7, <2>15 DEF Opening, Asking, Sends
      <3>2. \A e : x.out # <<e>>
        BY <3>1
      <3>3. CASE r # 1
        <4>1. Fresh = {}
          BY <1>1, <2>0, <2>6, <3>2, <3>3
        <4> QED
          BY <1>0, <2>0, <2>3, <2>6, <3>1, <3>3, <4>1, PipeSilent
      <3>4. CASE r = 1 /\ rf
        <4>1. PICK d, m : y.job = <<d>> /\ y.out = <<m>> /\ m.type = "error"
          BY <2>10, <2>15, <3>1, <3>4 DEF Sends
        <4>2. c + 1 \in Fresh /\ down'[c + 1] = m
          BY <1>1, <2>9, <3>4, <4>1
        <4>3. Fresh = {c + 1}
          BY <1>1, <2>0, <2>6, <3>2, <4>2
        <4>4. Broken' /\ Due' = Due
          BY <1>0, <4>1, <4>2, <4>3, FreshDue
        <4>5. \A k \in Due : down[k].type # "digest"
          BY <3>0
        <4> QED
          BY <1>0, <2>0, <2>1, <3>0, <4>4, <4>5, PipeBroken
      <3>5. CASE r = 1 /\ ~rf
        <4>1. PICK d, m :
                 /\ y.job = <<d>> /\ y.out = <<m>>
                 /\ m.type = "block" /\ m.file = j.file_num
                 /\ m.version = source[j.file_num] /\ m.number = j.pos + 1
                 /\ \/ Sends(d) /\ d.file_num = j.file_num /\ d.pos = j.pos + 1
                    \/ Idle(d) /\ d.file_num = j.file_num + 1 /\ ~(j.pos < Size[j.file_num])
          BY <2>10, <2>15, <3>1, <3>5 DEF Sends
        <4>2. c + 1 \in Fresh /\ down'[c + 1] = m
          BY <1>1, <2>9, <3>5, <4>1
        <4>3. Fresh = {c + 1}
          BY <1>1, <2>0, <2>6, <3>2, <4>2
        <4>4. Readers' = {1} /\ <<reads'[1]>> = <<d>>
          <5>1. <<d>> # <<>>
            OBVIOUS
          <5> QED
            BY <2>0, <2>9, <3>5, <4>1, <5>1
        <4>5. reads'[1] = d
          BY <4>4
        <4>6. \/ Sends(reads[1])' /\ reads'[1].file_num = j.file_num /\ reads'[1].pos = j.pos + 1
              \/ /\ Idle(reads[1])' /\ reads'[1].file_num = j.file_num + 1
                 /\ ~(j.pos < Size[j.file_num])
          BY <4>1, <4>5 DEF Sends, Idle
        <4> QED
          BY <1>0, <2>3, <2>15, <4>1, <4>2, <4>3, <4>4, <4>6, PipeBlock
      <3> QED
        BY <3>3, <3>4, <3>5
    <2> QED
      BY <2>2, <2>3, <2>12, <2>13, <2>14, <2>15 DEF ReaderInOrder
  <1> QED
    BY <1>2, <1>3

LEMMA FileTimerKeeps ==
    ASSUME TransferIInv, NEW o \in 0..Len(reads), NEW rf \in BOOLEAN, FileTimer(o, rf)
    PROVE  TransferIInv'
  <1>1. TimerRound(o, rf)
    BY DEF FileTimer, TimerRound, Inited, Outspoken, FirstRead
  <1>2. /\ UNCHANGED <<disk, source, write, ask, saved, failed, lastId, losses, holed, agreed>>
        /\ UNCHANGED up
        /\ errors' = errors + (IF o # 0 THEN 1 ELSE 0) + (IF rf THEN 1 ELSE 0)
    BY <1>1 DEF TimerRound
  <1>3. errors' \in Nat
    <2>1. errors \in Nat
      BY DEF TransferIInv, TransferShape
    <2> QED
      BY <1>2, <2>1
  <1>4. UpTyped'
    BY <1>2, Typed DEF UpTyped
  <1>5. ReadsTyped' /\ DownTyped'
    BY <1>1, RoundReads, RoundMessages
  <1>6. PipeInOrder' /\ StreamTrue'
    BY <1>1, RoundPipe
  <1> QED
    BY <1>2, <1>3, <1>4, <1>5, <1>6, SenderRest

-----------------------------------------------------------------------------
LEMMA InitTransferIInv == TransferInit => TransferIInv
  <1> SUFFICES ASSUME TransferInit PROVE TransferIInv
    OBVIOUS
  <1>1. /\ part = [f \in File |-> None] /\ digest = [f \in File |-> 0]
        /\ source = [f \in File |-> 1] /\ write = NoJob /\ reads = <<>> /\ up = <<>>
        /\ down = <<>> /\ ask = {} /\ failed = {} /\ holed = {} /\ agreed = Unasked
        /\ saved = 0 /\ lastId = 0 /\ errors = 0 /\ losses = 0
    BY DEF TransferInit
  <1>2. DOMAIN path = File /\ \A f \in File : path[f] \in {None, Mine}
    BY DEF TransferInit
  <1>3. /\ 0 \in 0..MaxVersion /\ 1 \in 1..MaxVersion /\ 0 \in 0..Beyond
    BY Files, TransferAssumption
  <1>4. TransferShape
    <2>1. digest \in [File -> 0..MaxVersion] /\ source \in [File -> 1..MaxVersion]
      BY <1>1, <1>3
    <2>2. DOMAIN part = File /\ \A f \in File : part[f] = None
      BY <1>1
    <2>3. reads \in Seq(Reader) /\ up \in Seq(ToServer) /\ down \in Seq(ToClient)
      BY <1>1
    <2>4. write \in WriteJob /\ agreed \in [File -> {"no", "yes", "lost"}]
      BY <1>1, NoJobFields
    <2>5. /\ ask \subseteq File /\ holed \subseteq File /\ saved \in 0..Beyond
          /\ lastId \in Nat /\ errors \in Nat /\ losses \in Nat
      BY <1>1, <1>3
    <2>6. \A f \in File : path[f] \in Content(f) \cup {None, Mine} /\ part[f] \in Content(f) \cup {None}
      BY <1>2, <2>2
    <2> QED
      BY <1>2, <2>1, <2>2, <2>3, <2>4, <2>5, <2>6 DEF TransferShape
  <1>5. Len(up) = 0 /\ Len(down) = 0 /\ Len(reads) = 0 /\ 1..0 = {}
    BY <1>1
  <1>6. InBounds
    BY <1>5 DEF InBounds
  <1>7. IdsKnown
    <2>1. write.id = 0 /\ 0 \in 0..lastId
      BY <1>1, NoJobFields
    <2> QED
      BY <1>1, <1>5, <2>1 DEF IdsKnown
  <1>8. PartsTrue
    BY <1>1 DEF PartsTrue
  <1>9. Due = {} /\ Answers = {} /\ Readers = {} /\ ~write.stream
    BY <1>1, <1>5, NoJobFields DEF Due, Answers, Readers
  <1>10. PipeInOrder /\ StreamTrue
    BY <1>1, <1>9 DEF PipeInOrder, StreamTrue
  <1> QED
    BY <1>4, <1>6, <1>7, <1>8, <1>10 DEF TransferIInv

LEMMA TransferNextKeeps == ASSUME TransferIInv, TransferNext PROVE TransferIInv'
  <1>1. CASE SendFiles
    <2>1. 1 \in 1..Beyond
      BY Files
    <2>2. NewJob(1, FALSE)
      BY <1>1 DEF SendFiles
    <2> QED
      BY <2>1, <2>2, NewJobKeeps
  <1>2. CASE ResumeJob
    <2>1. saved # 0 /\ NewJob(saved, TRUE)
      BY <1>2 DEF ResumeJob
    <2>2. saved \in 0..Beyond
      BY DEF TransferIInv, TransferShape
    <2>3. saved \in 1..Beyond
      BY <2>1, <2>2, Files
    <2> QED
      BY <2>1, <2>3, NewJobKeeps
  <1>3. CASE CancelJob
    BY <1>3, CancelJobKeeps
  <1>4. CASE ConnectionLost
    BY <1>4, ConnectionLostKeeps
  <1>5. ASSUME NEW job \in failed, CancelFailed(job) PROVE TransferIInv'
    BY <1>5, CancelFailedKeeps
  <1>6. ASSUME NEW f \in ask, NEW override \in BOOLEAN, NEW remember \in BOOLEAN,
               SetConfirmOverrideFile(f, override, remember)
        PROVE  TransferIInv'
    BY <1>6, SetConfirmOverrideFileKeeps
  <1>7. CASE ClientReceives
    BY <1>7, ClientReceivesKeeps
  <1>8. CASE ServerReceives
    BY <1>8, ServerReceivesKeeps
  <1>9. ASSUME NEW o \in 0..Len(reads), NEW rf \in BOOLEAN, FileTimer(o, rf) PROVE TransferIInv'
    BY <1>9, FileTimerKeeps
  <1>10. ASSUME NEW f \in File, Edit(f) PROVE TransferIInv'
    BY <1>10, EditKeeps
  <1> QED
    BY <1>1, <1>2, <1>3, <1>4, <1>5, <1>6, <1>7, <1>8, <1>9, <1>10 DEF TransferNext

LEMMA TransferStutter == ASSUME TransferIInv, UNCHANGED transferVars PROVE TransferIInv'
  <1>1. /\ UNCHANGED <<path, part, digest, source, write, reads, up, down, ask, saved, failed>>
        /\ UNCHANGED <<lastId, errors, losses, holed, agreed>>
    BY DEF transferVars
  <1>2. TransferShape' /\ InBounds' /\ IdsKnown' /\ PartsTrue'
    BY <1>1 DEF TransferIInv, TransferShape, InBounds, IdsKnown, PartsTrue, Content
  <1>3. /\ Due' = Due /\ Answers' = Answers /\ Readers' = Readers /\ Broken' = Broken
    BY <1>1 DEF Due, Answers, Readers, Broken
  <1>4. PipeInOrder' /\ StreamTrue'
    <2>1. \A i \in Due : i - 0 = i /\ i + 0 = i /\ i \in Nat /\ i \in Due' /\ down'[i] = down[i]
      BY <1>1, <1>3, DueIndex
    <2>2. /\ UNCHANGED <<write, ask, agreed, holed, digest, part, up, source>>
          /\ \A r \in Readers : reads'[r] = reads[r]
      BY <1>1
    <2>3. Unconcerned(0)
      BY <1>3, <2>1, <2>2, AtMostOne DEF Unconcerned
    <2>4. Due' \subseteq Nat
      BY <1>3, <2>1
    <2> QED
      BY <2>3, <2>4, UnconcernedKeeps
  <1> QED
    BY <1>2, <1>4 DEF TransferIInv

LEMMA TransferInductive == TransferSpec => []TransferIInv
  <1>1. TransferIInv /\ [TransferNext]_transferVars => TransferIInv'
    BY TransferNextKeeps, TransferStutter
  <1> QED
    BY <1>1, InitTransferIInv, PTL DEF TransferSpec

(* The files, parts and positions of a transfer have their types and stay  *)
(* within their bounds.                                                    *)
THEOREM TransferTypes == TransferSpec => []TransferTypeOK
  <1>1. TransferIInv => TransferTypeOK
    <2> SUFFICES ASSUME TransferIInv PROVE TransferTypeOK
      OBVIOUS
    <2>1. /\ \A f \in File : /\ path[f] \in Content(f) \cup {None, Mine}
                            /\ part[f] \in Content(f) \cup {None}
          /\ digest \in [File -> 0..MaxVersion]
          /\ source \in [File -> 1..MaxVersion]
          /\ write.file_num \in 1..Beyond
          /\ ask \subseteq File /\ holed \subseteq File
          /\ agreed \in [File -> {"no", "yes", "lost"}]
          /\ saved \in 0..Beyond
      BY DEF TransferIInv, TransferShape, WriteJob
    <2>2. write.stream => write.file_num \in File /\ write.pos <= Len(part[write.file_num])
      BY DEF TransferIInv, StreamTrue
    <2>3. \A i \in 1..Len(reads) :
             /\ reads[i].file_num \in 1..Beyond
             /\ reads[i].stream => /\ reads[i].file_num \in File
                                  /\ reads[i].pos <= Size[reads[i].file_num]
      <3>1. reads \in Seq(Reader)
        BY DEF TransferIInv, TransferShape
      <3>2. \A i \in 1..Len(reads) : reads[i] \in Reader
        BY <3>1
      <3> QED
        BY <3>2 DEF TransferIInv, InBounds, Reader
    <2> QED
      BY <2>1, <2>2, <2>3 DEF TransferTypeOK
  <1> QED
    BY <1>1, TransferInductive, PTL

(* A file changes only when the write job closes it: then it was agreed    *)
(* on, and the part is complete if it misses no block.                     *)
LEMMA FileClosed ==
    ASSUME TransferIInv, TransferNext, NEW g \in File, path'[g] # path[g]
    PROVE  /\ part[g] # None /\ path'[g] = part[g] /\ agreed[g] # "no"
           /\ write.stream /\ write.file_num = g /\ g \notin holed => Size[g] <= write.pos
  <1>1. CASE ClientReceives
    <2>1. PICK m : m = Head(down)
      OBVIOUS
    <2>2. down # <<>>
      BY <1>1 DEF ClientReceives
    <2>3. ASSUME path' = ModifyTime(write)[1], write.files, write.file_num \in File
          PROVE  g = write.file_num /\ part[g] # None /\ path'[g] = part[g]
      BY <2>3, Closed
    <2>4. CASE path' = path
      BY <2>4
    <2>5. CASE m.type = "done" /\ write.id = m.id /\ path' = ModifyTime(write)[1]
      <3>1. /\ write.files
            /\ write.file_num \in File =>
                  /\ write.stream /\ agreed[write.file_num] # "no"
                  /\ write.file_num \notin holed => Size[write.file_num] <= write.pos
        BY <2>1, <2>2, <2>5, DoneFacts
      <3>2. write.file_num \in File
        BY <2>5, LeftOpen
      <3> QED
        BY <2>3, <2>5, <3>1, <3>2
    <2>6. ASSUME m.type = "block", write.id = m.id, write.id # 0, NEW fails \in BOOLEAN,
                 OnBlock(m, fails)
          PROVE  /\ part[g] # None /\ path'[g] = part[g] /\ agreed[g] # "no"
                 /\ write.stream /\ write.file_num = g /\ g \notin holed => Size[g] <= write.pos
      <3>1. PICK f, n : f = Head(down).file /\ n = Head(down).number
        OBVIOUS
      <3>2. /\ Head(down).id = write.id /\ Head(down).type = "block" /\ OnBlock(Head(down), fails)
        BY <2>1, <2>6
      <3>3. ~(write.stream /\ write.file_num = f)
        BY <2>2, <2>6, <3>1, <3>2, BlockGoesOn
      <3>4. path' = ModifyTime(write)[1]
        BY <2>2, <2>6, <3>1, <3>2, <3>3, BlockRenews
      <3>5. /\ write.file_num \in File /\ write.files /\ agreed[f] # "no"
            /\ ~write.stream => write.file_num = f
            /\ 1 \in Due /\ Head(down) = down[1]
            /\ \A k \in Due : k # 1 /\ down[k].type = "block" => down[k].file = f
        BY <2>2, <2>6, <3>1, <3>2, BlockFacts
      <3>6. g = write.file_num /\ part[g] # None /\ path'[g] = part[g]
        BY <2>3, <3>4, <3>5
      <3>7. agreed[g] # "no"
        <4>1. CASE write.stream
          BY <3>6, <4>1 DEF TransferIInv, StreamTrue
        <4>2. CASE ~write.stream
          BY <3>5, <3>6, <4>2
        <4> QED
          BY <4>1, <4>2
      <3>8. ASSUME write.stream PROVE ~Comes(g)
        <4>1. g # f
          BY <3>3, <3>6, <3>8
        <4>2. \A k \in Due : down[k].type = "block" => down[k].file = f
          BY <3>1, <3>5
        <4> QED
          BY <3>5, <4>1, <4>2 DEF Comes, Goes
      <3>9. write.stream /\ g \notin holed => Size[g] <= write.pos
        BY <3>6, <3>8 DEF TransferIInv, StreamTrue
      <3> QED
        BY <3>6, <3>7, <3>9
    <2> QED
      BY <1>1, <2>1, <2>4, <2>5, <2>6 DEF ClientReceives, disk
  <1>2. CASE ~ClientReceives
    <2>1. path' = path
      BY <1>2 DEF TransferNext, SendFiles, ResumeJob, NewJob, CancelJob, ConnectionLost,
                  CancelFailed, SetConfirmOverrideFile, ServerReceives, FileTimer, Edit, disk
    <2> QED
      BY <2>1
  <1> QED
    BY <1>1, <1>2

(* A file of the user is replaced only if the job was told to: neither an  *)
(* answer that comes late nor a block of a skipped file closes another.    *)
THEOREM AgreedFilesOnly == TransferSpec => SkippedUntouched
  <1>1. TransferIInv /\ [TransferNext]_transferVars =>
           [\A f \in File : path'[f] # path[f] => agreed[f] # "no"]_transferVars
    BY FileClosed
  <1> QED
    BY <1>1, TransferInductive, PTL DEF TransferSpec, SkippedUntouched

(* A part of full length without hole is the file in one version.          *)
LEMMA FullPart ==
    ASSUME TransferIInv, NEW g \in File, part[g] # None, g \notin holed, Size[g] <= Len(part[g])
    PROVE  Whole(g, part[g])
  <1>1. part[g] \in Content(g)
    BY DEF TransferIInv, TransferShape
  <1>2. /\ part[g] \in Seq((1..MaxVersion) \X (1..Size[g])) /\ Size[g] \in Nat
        /\ Len(part[g]) \in Nat /\ Len(part[g]) <= Size[g]
    BY <1>1, Contents, Files
  <1>3. Len(part[g]) = Size[g]
    BY <1>2
  <1>4. \A k \in 1..Size[g] : part[g][k] = <<digest[g], k>>
    BY <1>3 DEF TransferIInv, PartsTrue
  <1>5. part[g] = [k \in 1..Size[g] |-> <<digest[g], k>>]
    <2>1. PICK n \in 0..Size[g] : part[g] \in [1..n -> (1..MaxVersion) \X (1..Size[g])]
      BY <1>1 DEF Content
    <2>2. n = Size[g]
      BY <1>2, <1>3, <2>1
    <2>3. DOMAIN part[g] = 1..Size[g] /\ part[g] = [k \in 1..Size[g] |-> part[g][k]]
      BY <2>1, <2>2
    <2> QED
      BY <1>4, <2>3
  <1>6. CASE Size[g] = 0
    <2>1. 1 \in 1..MaxVersion
      BY TransferAssumption
    <2>2. part[g] = [k \in 1..Size[g] |-> <<1, k>>]
      BY <1>2, <1>3, <1>6
    <2> QED
      BY <2>1, <2>2 DEF Whole
  <1>7. CASE Size[g] # 0
    <2>1. 1 \in 1..Size[g]
      BY <1>2, <1>7
    <2>2. part[g][1] \in (1..MaxVersion) \X (1..Size[g]) /\ part[g][1] = <<digest[g], 1>>
      BY <1>2, <1>3, <1>4, <2>1
    <2>3. digest[g] \in 1..MaxVersion
      BY <2>2
    <2> QED
      BY <1>5, <2>3 DEF Whole
  <1> QED
    BY <1>6, <1>7

LEMMA CopyStep == ASSUME TransferIInv, TransferNext PROVE Copy!CopyNext
  <1>1. Dest' \in [File -> {"old", "whole", "damaged"}]
    BY DEF Dest
  <1>2. (Leftover \cup holed)' \in SUBSET File
    <2>1. holed' \subseteq File
      BY TransferNextKeeps DEF TransferIInv, TransferShape
    <2> QED
      BY <2>1 DEF Leftover
  <1>3. ASSUME NEW g \in File
        PROVE  \/ Dest'[g] = "whole"
               \/ g \in Leftover \cup holed /\ Dest'[g] = "damaged"
               \/ Dest'[g] = Dest[g]
    <2>1. CASE path'[g] = path[g]
      BY <2>1 DEF Dest, Whole
    <2>2. CASE path'[g] # path[g]
      <3>1. /\ part[g] # None /\ path'[g] = part[g]
            /\ write.stream /\ write.file_num = g /\ g \notin holed => Size[g] <= write.pos
        BY <2>2, FileClosed
      <3>2. part[g] # Mine
        BY <3>1, Contents DEF TransferIInv, TransferShape
      <3>3. Dest'[g] = IF Whole(g, part[g]) THEN "whole" ELSE "damaged"
        BY <3>1, <3>2 DEF Dest, Whole
      <3>4. CASE g \in Leftover \cup holed
        BY <3>3, <3>4
      <3>5. CASE g \notin Leftover \cup holed
        <4>1. write.stream /\ write.file_num = g /\ g \notin holed
          BY <3>1, <3>5 DEF Leftover
        <4>2. /\ Size[g] <= write.pos /\ write.pos <= Len(part[g])
          BY <3>1, <4>1 DEF TransferIInv, StreamTrue
        <4>3. Size[g] \in Nat /\ write.pos \in Nat /\ Len(part[g]) \in Nat
          BY <3>1, Files, Contents DEF TransferIInv, TransferShape, WriteJob
        <4>4. Size[g] <= Len(part[g])
          BY <4>2, <4>3
        <4>5. Whole(g, part[g])
          BY <3>1, <4>1, <4>4, FullPart
        <4> QED
          BY <3>3, <4>5
      <3> QED
        BY <3>4, <3>5
    <2> QED
      BY <2>1, <2>2
  <1> QED
    BY <1>1, <1>2, <1>3 DEF Copy!CopyNext, Copy!Publish, Copy!Damage, Copy!Keep

(* The transfer implements FileCopy: through skips, resumed jobs, errors   *)
(* and lost connections a file is replaced by a complete copy of one       *)
(* version or stays, unless a part that nobody takes up is there or the    *)
(* part misses a block.                                                    *)
THEOREM TransferImplementsCopy == TransferSpec => ImplementsCopy
  <1>1. TransferInit => Copy!CopyInit
    <2> SUFFICES ASSUME TransferInit PROVE Copy!CopyInit
      OBVIOUS
    <2>1. \A f \in File : path[f] \in {None, Mine} /\ part[f] = None
      BY DEF TransferInit
    <2>2. Dest = [f \in File |-> "old"]
      BY <2>1 DEF Dest
    <2>3. Leftover \cup holed = {}
      BY <2>1 DEF Leftover, TransferInit
    <2> QED
      BY <2>2, <2>3 DEF Copy!CopyInit
  <1>2. TransferIInv /\ [TransferNext]_transferVars =>
           [Copy!CopyNext]_<<Dest, Leftover \cup holed>>
    <2>1. UNCHANGED transferVars => UNCHANGED <<Dest, Leftover \cup holed>>
      BY DEF transferVars, Dest, Leftover, Whole
    <2> QED
      BY <2>1, CopyStep
  <1> QED
    BY <1>1, <1>2, TransferInductive, PTL DEF TransferSpec, ImplementsCopy, Copy!CopySpec
=============================================================================
