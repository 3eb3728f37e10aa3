--------------------------- MODULE ConnectionSetup ---------------------------
(***************************************************************************)
(* How a connection comes to be: Client::start of the controlling side     *)
(* (client.rs), the handlers of the rendezvous mediator for PunchHole,     *)
(* FetchLocalAddr and RequestRelay (rendezvous_mediator.rs), and the       *)
(* handshake of create_tcp_connection (server.rs).  The rendezvous server  *)
(* hbbs, the relay hbbr and the network are external.                      *)
(*                                                                         *)
(* The client races two attempts, one of them with a UDP socket.  Each     *)
(* asks hbbs, which tells the device by datagrams; the device answers with *)
(* an address it listens on, or with a relay it will dial.  A direct       *)
(* connection that fails, or is not wanted, gives way to a relay the       *)
(* client asks for, each time under a new uuid.  Whichever attempt has its *)
(* handshake done first is the connection; the other one is dropped.       *)
(***************************************************************************)
EXTENDS Naturals, FiniteSets

CONSTANTS
    Attempt,    \* the two futures of _start
    Udp,        \* the ones with a UDP socket
    World,      \* the circumstances considered, see below
    Tries       \* requests of one kind before an attempt gives up

ASSUME SetupAssumption ==
    /\ Attempt \subseteq Nat \ {0} /\ Udp \subseteq Attempt /\ Udp # Attempt
    /\ World \subseteq [force : BOOLEAN, udp : BOOLEAN, lan : BOOLEAN, v6 : BOOLEAN,
                        pk : {"none", "bad", "stale", "renamed", "good"},
                        faults : Nat, dups : Nat]
    /\ \A w \in World : w.force => ~w.udp
    /\ Tries \in Nat \ {0}

(* The circumstances of a start: a relay is forced (is_force_relay); there *)
(* is a UDP socket, which there is not if a relay is forced; hbbs finds    *)
(* both in one network and asks for the local address; both have an IPv6   *)
(* address; the signed_id_pk of hbbs is missing, not signed by hbbs, of an *)
(* older key, of a device with another id by now, or good.  faults bounds  *)
(* what is lost, fails or is too slow, dups the datagrams that arrive      *)
(* twice.                                                                  *)
VARIABLES
    world,
    att,        \* the attempts of the client
    winner,     \* the attempt that start returned, 0 for none
    done,       \* start has returned
    wire,       \* datagrams of hbbs to the device
    inbox,      \* messages of hbbs in the sockets of the client
    task,       \* the tasks of the device so far, with the stream each one has
    last,       \* LAST_MSG and LAST_RELAY_MSG
    key_confirmed,
    faults,     \* what was lost, has failed or was too slow so far
    dups        \* datagrams that arrived twice

setupVars == <<world, att, winner, done, wire, inbox, task, last, key_confirmed, faults, dups>>

(* The other end of a stream: an attempt, a task, or nobody yet.           *)
Nobody == [side |-> "none"]
Client(a) == [side |-> "client", a |-> a]
Device(t) == [side |-> "device", t |-> t]

(* Addresses are the sockets of the client: <<a, 0>> for punching, <<a, i>>*)
(* for the i-th request for a relay, whose uuid is Asked(a, i); <<0, 0>>   *)
(* names none.  A task of the device has the address it is to answer, the  *)
(* number of the datagram that it is for, and TRUE if it is for IPv6; it   *)
(* is also the uuid of a relay that the task proposes.                     *)
NoAddr == <<0, 0>>
NoTask == <<NoAddr, 0, FALSE>>
NewAttempt == [pc |-> "new", try |-> 0, to |-> {}, uuid |-> NoTask, peer |-> Nobody,
               said |-> "nothing", direct |-> FALSE]
Failed == [NewAttempt EXCEPT !.pc = "err"]
NeverSeen == [addr |-> NoAddr, recent |-> FALSE]
Gone == [pc |-> "gone", kind |-> "none", secure |-> FALSE, uuid |-> NoTask,
         seen |-> NeverSeen, peer |-> Nobody, key |-> FALSE]

SetupInit ==
    /\ world \in World
    /\ att = [a \in Attempt |-> IF a \in Udp /\ ~world.udp THEN Failed ELSE NewAttempt]
    /\ winner = 0 /\ done = FALSE
    /\ wire = {} /\ inbox = {} /\ task = <<>>
    /\ last = [k \in {"punch", "relay"} |-> NeverSeen]
    /\ key_confirmed = TRUE
    /\ faults = 0 /\ dups = 0

Tasks == DOMAIN task
Asked(a, i) == <<<<a, i>>, 0, FALSE>>

-----------------------------------------------------------------------------
(* What can still come.  A timeout ends a wait for something that does not *)
(* come any more; one that is too slow counts as a fault.                  *)
Fault == faults < world.faults /\ faults' = faults + 1
Late(coming) == IF coming THEN Fault ELSE UNCHANGED faults

AnswerComes(addr) ==
    \/ \E m \in wire \cup inbox : m.addr = addr
    \/ \E t \in Tasks : t[1] = addr /\ task[t].pc \in {"write", "handle"}

Open(e) ==
    \/ e.side = "client" /\ att[e.a].pc \in {"secure", "ok"}
    \/ e.side = "device" /\ task[e.t].pc \in {"hello", "up"}

(* The ends that hbbr keeps waiting for the other one with the uuid: that  *)
(* is one at most.                                                         *)
Waiting(uuid) ==
    {Client(a) : a \in {b \in Attempt : /\ att[b].pc \in {"secure", "ok"}
                                       /\ att[b].uuid = uuid /\ att[b].peer = Nobody}} \cup
    {Device(t) : t \in {u \in Tasks : /\ task[u].pc \in {"hello", "up"}
                                     /\ task[u].uuid = uuid /\ task[u].peer = Nobody}}

Joined(uuid) == IF Waiting(uuid) = {} THEN Nobody ELSE CHOOSE e \in Waiting(uuid) : TRUE

-----------------------------------------------------------------------------
(* The attempts.                                                           *)

(* select_ok: the first attempt that succeeds drops the others, ...        *)
Succeeds(a, said) ==
    /\ att' = [b \in Attempt |->
                 IF b # a THEN Failed
                 ELSE [att[a] EXCEPT !.pc = "ok", !.said = said, !.try = 0]]
    /\ winner' = a /\ done' = TRUE
    /\ inbox' = {}

(* ... and when all have failed, so has start.                             *)
Fails(a) ==
    /\ att' = [att EXCEPT ![a] = Failed]
    /\ done' = \A b \in Attempt \ {a} : att[b].pc = "err"
    /\ inbox' = {r \in inbox : r.addr[1] # a}
    /\ UNCHANGED winner

Going == UNCHANGED <<winner, done>>
device == <<task, last, key_confirmed>>

(* PunchHoleRequest, which hbbs hands to the device as PunchHole or as     *)
(* FetchLocalAddr.                                                         *)
Punch(a, i) ==
    /\ att' = [att EXCEPT ![a].pc = "punch", ![a].try = i]
    /\ wire' = wire \cup {[kind |-> IF world.lan THEN "local" ELSE "punch",
                           addr |-> <<a, 0>>, secure |-> TRUE]}
    /\ Going
    /\ UNCHANGED inbox

Begin(a) ==
    /\ att[a].pc = "new"
    /\ Punch(a, 1)
    /\ UNCHANGED <<world, device, faults, dups>>

PunchAgain(a) ==
    /\ att[a].pc = "punch"
    /\ Late(AnswerComes(<<a, 0>>))
    /\ IF att[a].try < Tries THEN Punch(a, att[a].try + 1) ELSE Fails(a) /\ UNCHANGED wire
    /\ UNCHANGED <<world, device, dups>>

(* PunchHoleResponse: connect() to the addresses of the device; or         *)
(* RelayResponse: the relay that the device proposes, raced with IPv6.     *)
Punched(a, r) ==
    /\ att[a].pc = "punch"
    /\ r.addr = <<a, 0>>
    /\ att' = [att EXCEPT ![a].pc = IF r.uuid = NoTask THEN "direct" ELSE "join",
                          ![a].to = r.to, ![a].uuid = r.uuid]
    /\ inbox' = inbox \ {r}
    /\ Going
    /\ UNCHANGED <<world, wire, device, faults, dups>>

(* Mutant: the device is not told to make the relayed connection secure.   *)
AskPlain(a, i) ==
    /\ att' = [att EXCEPT ![a].pc = "ask", ![a].try = i, ![a].to = {}, ![a].uuid = Asked(a, i)]
    /\ wire' = wire \cup {[kind |-> "relay", addr |-> <<a, i>>, secure |-> FALSE]}
    /\ Going
    /\ UNCHANGED inbox

(* request_relay: a new uuid each time.                                    *)
Ask(a, i) ==
    /\ att' = [att EXCEPT ![a].pc = "ask", ![a].try = i, ![a].to = {}, ![a].uuid = Asked(a, i)]
    /\ wire' = wire \cup {[kind |-> "relay", addr |-> <<a, i>>, secure |-> world.pk # "none"]}
    /\ Going
    /\ UNCHANGED inbox

(* A task of the device that listens, on TCP, UDP or IPv6, accepts.        *)
(* connect() gives up such a connection when a relay is forced, after it   *)
(* has been made; the race with a proposed relay does not look at that.    *)
Direct(a, t) ==
    /\ att[a].pc \in {"direct", "join"}
    /\ t \in att[a].to /\ task[t].pc = "listen"
    /\ task' = [task EXCEPT ![t].pc = "hello", ![t].peer = Client(a)]
    /\ IF world.force /\ att[a].pc = "direct" THEN Ask(a, 1)
       ELSE /\ att' = [att EXCEPT ![a].pc = "secure", ![a].peer = Device(t),
                                  ![a].direct = TRUE, ![a].to = {}, ![a].uuid = NoTask]
            /\ Going
            /\ UNCHANGED <<wire, inbox>>
    /\ UNCHANGED <<world, last, key_confirmed, faults, dups>>

(* TCP, UDP and IPv6 have all failed: NAT, a firewall, a timeout.          *)
DirectFails(a) ==
    /\ att[a].pc = "direct"
    /\ Ask(a, 1)
    /\ UNCHANGED <<world, device, faults, dups>>

AskAgain(a) ==
    /\ att[a].pc = "ask"
    /\ Late(AnswerComes(<<a, att[a].try>>))
    /\ IF att[a].try < Tries THEN Ask(a, att[a].try + 1) ELSE Fails(a) /\ UNCHANGED wire
    /\ UNCHANGED <<world, device, dups>>

(* The answer in the socket of the last request: create_relay.             *)
Answered(a, r) ==
    /\ att[a].pc = "ask"
    /\ r.addr = <<a, att[a].try>>
    /\ att' = [att EXCEPT ![a].pc = "join"]
    /\ inbox' = inbox \ {r}
    /\ Going
    /\ UNCHANGED <<world, wire, device, faults, dups>>

(* RequestRelay to hbbr: it joins the two ends that name the uuid.         *)
Join(a) ==
    /\ att[a].pc = "join"
    /\ LET e == Joined(att[a].uuid)
       IN  /\ att' = [att EXCEPT ![a].pc = "secure", ![a].to = {}, ![a].peer = e]
           /\ task' = IF e = Nobody THEN task ELSE [task EXCEPT ![e.t].peer = Client(a)]
    /\ Going
    /\ UNCHANGED <<world, wire, inbox, last, key_confirmed, faults, dups>>

(* Mutant: a key that does not match is used all the same.                 *)
SecureAnyway(a) ==
    /\ att[a].pc = "secure"
    /\ att[a].peer.side = "device" /\ task[att[a].peer.t].pc = "hello"
    /\ Succeeds(a, "key")
    /\ UNCHANGED <<world, wire, device, faults, dups>>

(* secure_connection: without a usable key an empty message at once, else  *)
(* an answer to the SignedId of the device.                                *)
Secure(a) ==
    /\ att[a].pc = "secure"
    /\ \/ world.pk \in {"none", "bad"} /\ Succeeds(a, "empty")
       \/ /\ world.pk \notin {"none", "bad"}
          /\ att[a].peer.side = "device" /\ task[att[a].peer.t].pc = "hello"
          /\ Succeeds(a, CASE world.pk = "good" -> "key"
                           [] world.pk = "stale" -> "empty key"
                           [] world.pk = "renamed" -> "empty")
    /\ UNCHANGED <<world, wire, device, faults, dups>>

(* Reset by the peer, or READ_TIMEOUT.                                     *)
PeerComes(a) ==
    IF att[a].peer # Nobody THEN Open(att[a].peer)
    ELSE \E t \in Tasks : task[t].uuid = att[a].uuid /\ task[t].pc \in {"handle", "dial"}

SecureFails(a) ==
    /\ att[a].pc = "secure"
    /\ Late(PeerComes(a))
    /\ Fails(a)
    /\ UNCHANGED <<world, wire, device, dups>>

(* A TCP connection to hbbs or hbbr fails, or hbbs refuses.                *)
ConnectFails(a) ==
    /\ att[a].pc \in {"new", "punch", "join"}
    /\ Fault
    /\ Fails(a)
    /\ UNCHANGED <<world, wire, device, dups>>

-----------------------------------------------------------------------------
(* The device.                                                             *)
client == <<att, winner, done>>

(* "skip duplicate punch hole messages": the last one is read under one    *)
(* lock and replaced under another.                                        *)
Filter(kind) == IF kind = "relay" THEN "relay" ELSE "punch"

Spawned(t, new) == [u \in Tasks \cup {t} |-> IF u = t THEN new ELSE task[u]]

(* handle_resp spawns a task for every datagram, which begins by reading.  *)
Receive(m) ==
    /\ LET t == <<m.addr, 1 + Cardinality({u \in Tasks : u[1] = m.addr /\ ~u[3]}), FALSE>>
       IN  task' = Spawned(t, [Gone EXCEPT
                      !.pc = "write", !.kind = m.kind, !.secure = m.secure,
                      !.uuid = IF m.kind = "relay" THEN <<m.addr, 0, FALSE>> ELSE NoTask,
                      !.seen = last[Filter(m.kind)]])
    /\ \/ wire' = wire \ {m} /\ UNCHANGED dups
       \/ dups < world.dups /\ dups' = dups + 1 /\ UNCHANGED wire
    /\ UNCHANGED <<world, client, inbox, last, key_confirmed, faults>>

Lose(m) ==
    /\ Fault
    /\ wire' = wire \ {m}
    /\ UNCHANGED <<world, client, inbox, device, dups>>

(* Mutant: whatever comes within 100 ms is taken for a duplicate.          *)
WriteLastAny(t) ==
    /\ task[t].pc = "write"
    /\ last' = [last EXCEPT ![Filter(task[t].kind)] = [addr |-> t[1], recent |-> TRUE]]
    /\ task' = [task EXCEPT ![t] = IF task[t].seen.recent THEN Gone
                                   ELSE [task[t] EXCEPT !.pc = "handle", !.seen = NeverSeen]]
    /\ UNCHANGED <<world, client, wire, inbox, key_confirmed, faults, dups>>

WriteLast(t) ==
    /\ task[t].pc = "write"
    /\ last' = [last EXCEPT ![Filter(task[t].kind)] = [addr |-> t[1], recent |-> TRUE]]
    /\ task' = [task EXCEPT ![t] = IF task[t].seen = [addr |-> t[1], recent |-> TRUE] THEN Gone
                                   ELSE [task[t] EXCEPT !.pc = "handle", !.seen = NeverSeen]]
    /\ UNCHANGED <<world, client, wire, inbox, key_confirmed, faults, dups>>

(* 100 ms pass: what is remembered does not make a duplicate any more.     *)
Age ==
    /\ \E k \in DOMAIN last : last[k].recent
    /\ last' = [k \in DOMAIN last |-> NeverSeen]
    /\ task' = [t \in Tasks |-> [task[t] EXCEPT !.seen = NeverSeen]]
    /\ UNCHANGED <<world, client, wire, inbox, key_confirmed, faults, dups>>

(* The answer is delivered to the socket it is for, if that is still open, *)
(* with the address of a task that start_ipv6 has spawned to listen, which *)
(* it has not if a relay is forced; FetchLocalAddr does not say whether it *)
(* is.                                                                     *)
Respond(t, new, uuid, with6) ==
    /\ with6 => /\ world.v6 /\ task[t].kind # "relay"
                /\ ~(task[t].kind = "punch" /\ world.force)
    /\ LET a == t[1][1]
           six == <<t[1], t[2], TRUE>>
           open == IF t[1][2] = 0 THEN att[a].pc = "punch"
                   ELSE att[a].pc = "ask" /\ att[a].try = t[1][2]
           to == (IF new.pc = "listen" THEN {t} ELSE {}) \cup (IF with6 THEN {six} ELSE {})
           six_task == [Gone EXCEPT !.pc = "listen", !.kind = "v6", !.secure = TRUE]
       IN  /\ task' = [(IF with6 THEN Spawned(six, six_task) ELSE task) EXCEPT ![t] = new]
           /\ inbox' = IF open THEN inbox \cup {[addr |-> t[1], uuid |-> uuid, to |-> to]}
                       ELSE inbox
    /\ UNCHANGED <<world, client, wire, last, key_confirmed, faults, dups>>

(* PunchHoleSent or LocalAddr; then accept on the same port, or UDP.       *)
Listen(t, with6) ==
    /\ task[t].pc = "handle"
    /\ task[t].kind = "local" \/ (task[t].kind = "punch" /\ ~world.force)
    /\ Respond(t, [task[t] EXCEPT !.pc = "listen"], NoTask, with6)

(* create_relay: as asked; or proposed, for a forced relay, a symmetric    *)
(* NAT, a proxy, or when the local address could not be sent.              *)
Relay(t, with6) ==
    /\ task[t].pc = "handle"
    /\ LET uuid == IF task[t].kind = "relay" THEN task[t].uuid ELSE t
       IN  Respond(t, [task[t] EXCEPT !.pc = "dial", !.uuid = uuid], uuid, with6)

(* The connection to hbbs or to hbbr fails.                                *)
HandleFails(t) ==
    /\ task[t].pc \in {"handle", "dial"}
    /\ Fault
    /\ task' = [task EXCEPT ![t] = Gone]
    /\ UNCHANGED <<world, client, wire, inbox, last, key_confirmed, dups>>

(* create_relay_connection                                                 *)
Dial(t) ==
    /\ task[t].pc = "dial"
    /\ LET e == Joined(task[t].uuid)
           new == [task EXCEPT ![t].pc = IF task[t].secure THEN "hello" ELSE "up",
                               ![t].peer = e]
       IN  /\ task' = IF e.side = "device" THEN [new EXCEPT ![e.t].peer = Device(t)] ELSE new
           /\ att' = IF e.side = "client" THEN [att EXCEPT ![e.a].peer = Device(t)] ELSE att
    /\ UNCHANGED <<world, winner, done, wire, inbox, last, key_confirmed, faults, dups>>

(* accept() gives up after CONNECT_TIMEOUT, punch_udp after MAX_TIME.      *)
ListenEnds(t) ==
    /\ task[t].pc = "listen"
    /\ task' = [task EXCEPT ![t] = Gone]
    /\ UNCHANGED <<world, client, wire, inbox, last, key_confirmed, faults, dups>>

(* create_tcp_connection: the first message after SignedId.  The SignedId  *)
(* of another task is a message of an invalid type.                        *)
Heard(t) ==
    LET e == task[t].peer
    IN  CASE e.side = "client" -> IF att[e.a].peer = Device(t) THEN att[e.a].said ELSE "nothing"
          [] e.side = "device" -> IF Open(e) THEN "signed id" ELSE "nothing"
          [] e.side = "none" -> "nothing"

Hello(t) ==
    /\ task[t].pc = "hello"
    /\ Heard(t) # "nothing"
    /\ task' = [task EXCEPT ![t].pc = "up", ![t].key = (Heard(t) = "key")]
    /\ key_confirmed' = (key_confirmed /\ Heard(t) # "empty key")
    /\ UNCHANGED <<world, client, wire, inbox, last, faults, dups>>

(* The other end of the stream is there, or will be.                       *)
ClientComes(t) ==
    LET e == task[t].peer
    IN  IF e # Nobody THEN Open(e) /\ (e.side = "client" => att[e.a].peer = Device(t))
        ELSE \/ \E r \in inbox : r.uuid = task[t].uuid
             \/ \E a \in Attempt : att[a].pc = "join" /\ att[a].uuid = task[t].uuid

(* Mutant: no timeout, only a peer that goes ends the wait.                *)
HelloEndsOnReset(t) ==
    /\ task[t].pc = "hello"
    /\ task[t].peer # Nobody /\ Late(ClientComes(t))
    /\ task' = [task EXCEPT ![t] = Gone]
    /\ UNCHANGED <<world, client, wire, inbox, last, key_confirmed, dups>>

(* "Failed to receive public key", or CONNECT_TIMEOUT.                     *)
HelloEnds(t) ==
    /\ task[t].pc = "hello"
    /\ Late(ClientComes(t))
    /\ task' = [task EXCEPT ![t] = Gone]
    /\ UNCHANGED <<world, client, wire, inbox, last, key_confirmed, dups>>

(* Connection::start returns: closed by the peer, or nothing heard of it.  *)
(* Two connections of the device that hbbr has joined do hear something:   *)
(* each takes the TestDelay of the other for the answer to its own.        *)
ConnectionEnds(t) ==
    /\ task[t].pc = "up"
    /\ ~ClientComes(t)
    /\ task' = [task EXCEPT ![t] = Gone]
    /\ UNCHANGED <<world, client, wire, inbox, last, key_confirmed, faults, dups>>

-----------------------------------------------------------------------------
ClientStep(a) ==
    \/ Begin(a)
    \/ \E r \in inbox : Punched(a, r) \/ Answered(a, r)
    \/ \E t \in att[a].to : Direct(a, t)
    \/ DirectFails(a) \/ PunchAgain(a) \/ AskAgain(a)
    \/ Join(a) \/ Secure(a) \/ SecureFails(a)

TaskStep(t) ==
    \/ WriteLast(t)
    \/ \E with6 \in BOOLEAN : Listen(t, with6) \/ Relay(t, with6)
    \/ Dial(t) \/ ListenEnds(t) \/ Hello(t) \/ HelloEnds(t) \/ ConnectionEnds(t)

SetupNext ==
    \/ \E a \in Attempt : ClientStep(a) \/ ConnectFails(a)
    \/ \E m \in wire : Receive(m) \/ Lose(m)
    \/ \E t \in Tasks : TaskStep(t) \/ HandleFails(t)
    \/ Age

(* Every step brings the start, a task or a datagram nearer to its end, so *)
(* that it is enough if something of each kind goes on.                    *)
SetupSpec ==
    /\ SetupInit
    /\ [][SetupNext]_setupVars
    /\ WF_setupVars(\E a \in Attempt : ClientStep(a))
    /\ WF_setupVars(\E m \in wire : Receive(m))
    /\ WF_setupVars(\E t \in Tasks : TaskStep(t))

-----------------------------------------------------------------------------
Addr == ({0} \cup Attempt) \X Nat
TaskId == Addr \X Nat \X BOOLEAN
End == {Nobody} \cup {Client(a) : a \in Attempt} \cup {Device(t) : t \in Tasks}

SetupTypeOK ==
    /\ world \in World
    /\ \A a \in Attempt :
         /\ att[a].pc \in {"new", "punch", "direct", "ask", "join", "secure", "ok", "err"}
         /\ att[a].try \in 0..Tries /\ att[a].to \subseteq Tasks
         /\ att[a].uuid \in TaskId /\ att[a].peer \in End
    /\ winner \in {0} \cup Attempt /\ done \in BOOLEAN
    /\ \A t \in Tasks :
         /\ t \in TaskId
         /\ task[t].kind \in {"punch", "local", "relay", "v6", "none"}
         /\ task[t].pc \in {"write", "handle", "listen", "dial", "hello", "up", "gone"}
         /\ task[t].uuid \in TaskId /\ task[t].peer \in End
    /\ key_confirmed \in BOOLEAN
    /\ faults \in 0..world.faults /\ dups \in 0..world.dups

Serves(t, a) == task[t].pc = "up" /\ task[t].peer = Client(a) /\ att[a].peer = Device(t)

(* Of the connection that start returns both ends have the key, or neither *)
(* has: they have it if hbbs knows the key of the device, and when hbbs    *)
(* knows an old one, the device is going to register its key again         *)
(* (secure_connection against create_tcp_connection, over the flag secure  *)
(* of RequestRelay).                                                       *)
HandshakeAgrees ==
    winner # 0 =>
        /\ (att[winner].said = "key") = (world.pk = "good")
        /\ \A t \in Tasks : Serves(t, winner) =>
             /\ task[t].key = (att[winner].said = "key")
             /\ world.pk = "stale" => ~key_confirmed

(* Who forces a relay gets one (is_force_relay in connect and in           *)
(* handle_punch_hole), except over IPv6 in one network: FetchLocalAddr     *)
(* carries no force_relay, and the race with a relay that the device       *)
(* proposes does not look at it.                                           *)
ForceRelayHonoured ==
    world.force /\ winner # 0 /\ att[winner].direct =>
        world.lan /\ world.v6 /\ att[winner].peer.t[3]

(* Types, and that the connection that start returns is what was asked     *)
(* for, to both ends.                                                      *)
SetupInv == SetupTypeOK /\ HandshakeAgrees /\ ForceRelayHonoured

(* The filters LAST_MSG and LAST_RELAY_MSG, read and written under two     *)
(* locks by concurrent tasks, never drop every copy of a request, nor the  *)
(* request of the other attempt: an attempt repeats itself only when       *)
(* something was lost, has failed or was slow.                             *)
RetriesOnlyAfterFaults == faults = 0 => \A a \in Attempt : att[a].try <= 1

(* Only a datagram that arrived twice makes hbbr join two ends of the      *)
(* device, under one uuid; once start has returned, all other tasks of the *)
(* device come to an end, but for the one that serves the winner           *)
(* (CONNECT_TIMEOUT in accept_connection_ and create_tcp_connection).      *)
OrphansEnd ==
    <>[](/\ done
         /\ \A t \in Tasks :
              \/ task[t].pc = "gone"
              \/ winner # 0 /\ Serves(t, winner)
              \/ dups > 0 /\ task[t].peer.side = "device")

(* When nothing fails and no datagram comes twice, start returns a         *)
(* connection that the device serves, whatever the NATs do, whichever      *)
(* attempt is faster, and whatever hbbs knows of the key.                  *)
StartServes ==
    <>(faults + dups > 0 \/ (winner # 0 /\ \E t \in Tasks : Serves(t, winner)))

-----------------------------------------------------------------------------
(* The inductive invariant of the two invariants.                          *)
Kind == {"punch", "local", "relay"}
Seen == [addr : Addr, recent : BOOLEAN]
Message == [kind : Kind, addr : Addr, secure : BOOLEAN]
Reply == [addr : Addr, uuid : TaskId, to : SUBSET TaskId]
Peer == {Nobody} \cup [side : {"client"}, a : Attempt] \cup [side : {"device"}, t : TaskId]
AttemptState ==
    [pc : {"new", "punch", "direct", "ask", "join", "secure", "ok", "err"},
     try : 0..Tries, to : SUBSET TaskId, uuid : TaskId, peer : Peer,
     said : {"nothing", "empty", "key", "empty key"}, direct : BOOLEAN]
TaskState ==
    [pc : {"write", "handle", "listen", "dial", "hello", "up", "gone"},
     kind : Kind \cup {"v6", "none"}, secure : BOOLEAN, uuid : TaskId, seen : Seen,
     peer : Peer, key : BOOLEAN]

SetupShape ==
    /\ world \in World
    /\ att \in [Attempt -> AttemptState]
    /\ winner \in {0} \cup Attempt /\ done \in BOOLEAN
    /\ wire \subseteq Message /\ inbox \subseteq Reply
    /\ Tasks \subseteq TaskId /\ task \in [Tasks -> TaskState]
    /\ last \in [{"punch", "relay"} -> Seen]
    /\ key_confirmed \in BOOLEAN
    /\ faults \in 0..world.faults /\ dups \in 0..world.dups

(* Streams end in attempts and in tasks that there are; addresses are of   *)
(* attempts.                                                               *)
EndsExist ==
    /\ \A a \in Attempt :
          /\ att[a].to \subseteq Tasks
          /\ att[a].peer # Nobody => \E t \in Tasks : att[a].peer = Device(t)
    /\ \A t \in Tasks :
          /\ t[1][1] \in Attempt
          /\ task[t].peer \in {Nobody} \cup {Client(a) : a \in Attempt} \cup {Device(u) : u \in Tasks}
    /\ \A m \in wire : m.addr[1] \in Attempt
    /\ \A r \in inbox : r.to \subseteq Tasks

(* The tasks for one address are numbered, so that a new one is new.       *)
Siblings(addr) == {u \in Tasks : u[1] = addr /\ ~u[3]}
Numbered ==
    /\ IsFiniteSet(Tasks)
    /\ \A t \in Tasks : IF t[3] THEN task[t].pc \notin {"write", "handle"}
                        ELSE t[2] <= Cardinality(Siblings(t[1]))

(* A relay belongs to the attempt that asked for it or was offered it.     *)
UuidsOwned ==
    /\ \A a \in Attempt :
          att[a].pc \in {"ask", "join"} \/ (att[a].pc \in {"secure", "ok"} /\ att[a].peer = Nobody)
             => att[a].uuid[1][1] = a
    /\ \A t \in Tasks : task[t].kind = "relay" => task[t].uuid[1][1] = t[1][1]
    /\ \A r \in inbox : r.uuid # NoTask => r.uuid[1][1] = r.addr[1]

(* Only who has no key of the device asks for a stream that is not secure, *)
(* and only hbbs asks for a local address.                                 *)
RequestsTrue ==
    /\ \A m \in wire : /\ ~m.secure => world.pk = "none"
                       /\ m.kind = "local" => world.lan
    /\ \A t \in Tasks : /\ task[t].pc # "gone" /\ ~task[t].secure => world.pk = "none"
                        /\ task[t].kind = "local" => world.lan
                        /\ task[t].pc \in {"write", "handle"} => task[t].kind \in Kind

(* With a forced relay, the addresses offered beside a relay are of IPv6.  *)
Sixes(T) == \A t \in T : t[3] /\ world.lan /\ world.v6
ForceTrue ==
    world.force =>
        /\ \A r \in inbox : r.uuid # NoTask => Sixes(r.to)
        /\ \A a \in Attempt :
              /\ att[a].pc \in {"ask", "join"} => Sixes(att[a].to)
              /\ att[a].direct => /\ att[a].pc \in {"secure", "ok"}
                                  /\ \E t \in Tasks : att[a].peer = Device(t) /\ Sixes({t})

(* What the winner has said is what it knows of the key.                   *)
Answer(pk) == CASE pk = "good" -> "key" [] pk = "stale" -> "empty key" [] OTHER -> "empty"
OneWinner ==
    /\ \A a \in Attempt :
          /\ att[a].said = IF att[a].pc = "ok" THEN Answer(world.pk) ELSE "nothing"
          /\ att[a].pc = "ok" => winner = a
    /\ winner # 0 => /\ att[winner].pc = "ok"
                     /\ \A a \in Attempt \ {winner} : att[a].pc = "err"

(* A connection of the device that is up has heard what its peer has said, *)
(* or was not to listen.                                                   *)
HeardTrue ==
    \A t \in Tasks :
       /\ task[t].key => task[t].pc = "up" /\ task[t].secure
       /\ task[t].pc = "up" /\ task[t].secure =>
             /\ task[t].peer # Nobody
             /\ \A a \in Attempt :
                   task[t].peer = Client(a) /\ att[a].peer = Device(t) =>
                      /\ att[a].pc = "ok"
                      /\ task[t].key = (att[a].said = "key")
                      /\ world.pk = "stale" => ~key_confirmed

(* Every address in use was asked for.                                     *)
Named ==
    {m.addr : m \in wire} \cup {t[1] : t \in Tasks} \cup
    {last[k].addr : k \in DOMAIN last} \cup {task[t].seen.addr : t \in Tasks}
NamedInTime ==
    \A a \in Attempt, x \in Named :
       x[1] = a => /\ att[a].pc # "new"
                   /\ x[2] # 0 => att[a].pc \notin {"punch", "direct"}

(* Nothing has gone wrong so far: an attempt that waits for an answer gets *)
(* one, and a request that the filters remember is being answered.         *)
Awaited(a) == <<a, IF att[a].pc = "punch" THEN 0 ELSE att[a].try>>
Handled(x) ==
    \/ \E r \in inbox : r.addr = x
    \/ \E t \in Tasks : t[1] = x /\ task[t].pc = "handle"
Underway(x) ==
    \/ Handled(x)
    \/ \E m \in wire : m.addr = x
    \/ \E t \in Tasks : t[1] = x /\ task[t].pc = "write" /\ task[t].seen.addr # x
Remembered(x) ==
    \/ \E k \in DOMAIN last : last[k].addr = x
    \/ \E t \in Tasks : task[t].seen.addr = x
AnswersCome ==
    /\ \A a \in Attempt : att[a].pc = "ask" => att[a].try # 0
    /\ faults = 0 =>
         \A a \in Attempt :
            /\ att[a].try <= 1
            /\ att[a].pc \in {"punch", "ask"} =>
                  Underway(Awaited(a)) /\ (Remembered(Awaited(a)) => Handled(Awaited(a)))

SetupIInv ==
    /\ SetupShape /\ EndsExist /\ Numbered /\ UuidsOwned /\ RequestsTrue /\ ForceTrue
    /\ OneWinner /\ HeardTrue /\ NamedInTime /\ AnswersCome
=============================================================================
