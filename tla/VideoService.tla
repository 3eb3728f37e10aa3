---------------------------- MODULE VideoService ----------------------------
(***************************************************************************)
(* The capture threads of the video services: ServiceTmpl::run of          *)
(* server/service.rs with the callback `run` of server/video_service.rs,   *)
(* the pacing of frames by VideoFrameController, and the side of a         *)
(* connection task that fetches and acknowledges frames.  They run against *)
(* the registry of Server.tla.                                             *)
(*                                                                         *)
(* A frame is its number; the first frame of an encoder is a key frame,    *)
(* the others can only be decoded after it.                                *)
(***************************************************************************)
EXTENDS Server, Sequences, Functions

CONSTANTS
    AckRequired,  \* connections whose login asked for video_ack_required
    MaxFrames,    \* bound on the frames a service sends
    MaxCalls      \* bound on the calls of the registry

(* The video services are built with a snapshot.                           *)
ASSUME VideoAssumption ==
    /\ Service \subseteq NeedSnapshot
    /\ AckRequired \subseteq Conn
    /\ MaxFrames \in Nat
    /\ MaxCalls \in Nat

VARIABLES
    pc,                \* program counter of the thread of each service
    fresh,             \* the encoder has not produced a frame yet
    refresh,           \* the service option OPTION_REFRESH is "1"
    frames,            \* frames sent so far
    send_conn_ids,     \* VideoFrameController.send_conn_ids
    display_conn_ids,  \* DISPLAY_CONN_IDS, {} when the display has no entry
    fetched,           \* fetched_conn_ids of the wait loop
    notes,             \* ids in the channel of FRAME_FETCHED_NOTIFIERS (it is
                       \* always drained into a set, so order and copies are lost)
    queue,             \* queue[c][s]: frames in the video channel of c
    view,              \* view[c][s]: what c can do with the stream it is sent
    closing,           \* connections whose loop ended
    calls,             \* calls of the registry so far
    takeover,          \* bookkeeping: ids alone behind a used encoder
    excused            \* bookkeeping: waits that ended before every ack, and
                       \* acks of another display's frame that count here

videoVars == <<pc, fresh, refresh, frames, send_conn_ids, display_conn_ids,
               fetched, notes, queue, view, closing, calls, takeover, excused>>
vars == <<serverVars, videoVars>>

Labels == {"top", "check", "open", "loop", "broadcast", "leave", "frame",
           "others", "bail", "join", "encode", "sent", "wait", "exit"}

VideoInit ==
    /\ Init
    /\ pc = [s \in Service |-> "top"]
    /\ fresh = [s \in Service |-> FALSE]
    /\ refresh = [s \in Service |-> FALSE]
    /\ frames = [s \in Service |-> 0]
    /\ send_conn_ids = [s \in Service |-> {}]
    /\ display_conn_ids = [s \in Service |-> {}]
    /\ fetched = [s \in Service |-> {}]
    /\ notes = [s \in Service |-> {}]
    /\ queue = [c \in Conn |-> [s \in Service |-> <<>>]]
    /\ view = [c \in Conn |-> [s \in Service |-> "none"]]
    /\ closing = {}
    /\ calls = 0
    /\ takeover = [s \in Service |-> {}]
    /\ excused = [s \in Service |-> 0]

-----------------------------------------------------------------------------
(* The thread.                                                             *)

Jump(s, label) == pc' = [pc EXCEPT ![s] = label]

(* The callback returned: Raii::drop forgets the ids of the display, and   *)
(* the encoder and the frame controller are gone.                          *)
Return(s) ==
    /\ display_conn_ids' = [display_conn_ids EXCEPT ![s] = {}]
    /\ send_conn_ids' = [send_conn_ids EXCEPT ![s] = {}]
    /\ fetched' = [fetched EXCEPT ![s] = {}]
    /\ fresh' = [fresh EXCEPT ![s] = FALSE]
    /\ Jump(s, "top")

(* ... or goes on: to `label`, with its locals as they are.                *)
Stay(s, label) ==
    /\ Jump(s, label)
    /\ UNCHANGED <<display_conn_ids, send_conn_ids, fetched, fresh>>

(* Mutant: while sp.ok(), so that a service nobody uses loses its thread.  *)
TopOk(s) ==
    /\ pc[s] = "top"
    /\ IF Ok(inner[s])
       THEN Jump(s, "check") /\ UNCHANGED serverVars
       ELSE /\ Jump(s, "exit")
            /\ exited' = exited \cup {s}
            /\ UNCHANGED <<inner, connections, gone, call>>
    /\ UNCHANGED <<fresh, refresh, frames, send_conn_ids, display_conn_ids, fetched,
                   notes, queue, view, closing, calls, takeover, excused>>

(* while sp.active()                                                       *)
Top(s) ==
    /\ pc[s] = "top"
    /\ IF inner[s].active
       THEN Jump(s, "check") /\ UNCHANGED serverVars
       ELSE Jump(s, "exit") /\ ThreadExit(s)
    /\ UNCHANGED <<fresh, refresh, frames, send_conn_ids, display_conn_ids, fetched,
                   notes, queue, view, closing, calls, takeover, excused>>

Check(s) ==
    /\ pc[s] = "check"
    /\ Jump(s, IF HasSubscribes(inner[s]) THEN "open" ELSE "top")
    /\ UNCHANGED <<serverVars, fresh, refresh, frames, send_conn_ids, display_conn_ids,
                   fetched, notes, queue, view, closing, calls, takeover, excused>>

(* get_capturer and setup_encoder; the refresh request is served by them.  *)
Open(s) ==
    /\ pc[s] = "open"
    /\ fresh' = [fresh EXCEPT ![s] = TRUE]
    /\ refresh' = [refresh EXCEPT ![s] = FALSE]
    /\ Jump(s, "loop")
    /\ UNCHANGED <<serverVars, frames, send_conn_ids, display_conn_ids, fetched, notes,
                   queue, view, closing, calls, takeover, excused>>

(* No capturer or no encoder: the error is logged and the thread sleeps.   *)
OpenError(s) ==
    /\ pc[s] = "open"
    /\ Return(s)
    /\ UNCHANGED <<serverVars, refresh, frames, notes, queue, view, closing, calls, takeover,
                   excused>>

(* while sp.ok(): leave, bail because of OPTION_REFRESH or another         *)
(* parameter of the encoder that changed, or go for a frame.  A monitor    *)
(* whose geometry changed is announced first, with a snapshot.             *)
Loop(s) ==
    /\ pc[s] = "loop"
    /\ \/ Return(s)
       \/ Ok(inner[s]) /\ Stay(s, "broadcast")
       \/ Ok(inner[s]) /\ ~refresh[s] /\ Stay(s, "frame")
    /\ UNCHANGED <<serverVars, refresh, frames, notes, queue, view, closing, calls, takeover,
                   excused>>

(* try_broadcast_display_changed: the announcement to the served and, if   *)
(* there are any, to the newcomers; their swap follows, then SWITCH.       *)
Broadcast(s) ==
    /\ pc[s] = "broadcast"
    /\ IF inner[s].new_subscribes # {} THEN Stay(s, "leave") ELSE Return(s)
    /\ UNCHANGED <<serverVars, refresh, frames, notes, queue, view, closing, calls, takeover,
                   excused>>

(* handle_one_frame: the snapshot looks for newcomers ...                  *)
Frame(s) ==
    /\ pc[s] = "frame"
    /\ Jump(s, IF inner[s].new_subscribes # {} THEN "others" ELSE "encode")
    /\ UNCHANGED <<serverVars, fresh, refresh, frames, send_conn_ids, display_conn_ids,
                   fetched, notes, queue, view, closing, calls, takeover, excused>>

(* WouldBlock and nothing to repeat: no frame, and nobody to wait for.     *)
NoFrame(s) ==
    /\ pc[s] = "frame"
    /\ Jump(s, "wait")
    /\ UNCHANGED <<serverVars, fresh, refresh, frames, send_conn_ids, display_conn_ids,
                   fetched, notes, queue, view, closing, calls, takeover, excused>>

(* Mutant: newcomers always take over the encoder.                         *)
OthersJoin(s) ==
    /\ pc[s] = "others"
    /\ Jump(s, "join")
    /\ UNCHANGED <<serverVars, fresh, refresh, frames, send_conn_ids, display_conn_ids,
                   fetched, notes, queue, view, closing, calls, takeover, excused>>

(* ... asks whether others are served by this encoder: sps.has_subscribes  *)
Others(s) ==
    /\ pc[s] = "others"
    /\ Jump(s, IF inner[s].subscribes # {} THEN "bail" ELSE "join")
    /\ UNCHANGED <<serverVars, fresh, refresh, frames, send_conn_ids, display_conn_ids,
                   fetched, notes, queue, view, closing, calls, takeover, excused>>

(* ... and swaps: after bail!("SWITCH") the callback ends, and everybody   *)
(* starts over with a new encoder; with nobody else, the newcomers take    *)
(* over the encoder as it is.                                              *)
SwapIn(s) ==
    /\ pc[s] \in {"leave", "bail", "join"}
    /\ Swap(s)
    /\ IF pc[s] = "join"
       THEN /\ takeover' = IF fresh[s] \/ inner[s].subscribes # {} THEN takeover
                           ELSE [takeover EXCEPT ![s] = @ \cup inner[s].new_subscribes]
            /\ Stay(s, "encode")
       ELSE Return(s) /\ UNCHANGED takeover
    /\ UNCHANGED <<refresh, frames, notes, queue, view, closing, calls, excused>>

(* What a frame does to the picture of a subscriber.                       *)
Show(v, key) == IF key THEN "clean" ELSE IF v = "none" THEN "broken" ELSE v

(* The frame goes to the served subscribers under one lock.                *)
Encode(s) ==
    /\ pc[s] = "encode"
    /\ frames[s] < MaxFrames
    /\ LET n == frames[s] + 1
           ids == inner[s].subscribes
       IN  /\ frames' = [frames EXCEPT ![s] = n]
           /\ queue' = [c \in Conn |-> IF c \in ids
                            THEN [queue[c] EXCEPT ![s] = Append(@, n)] ELSE queue[c]]
           /\ view' = [c \in Conn |-> IF c \in ids
                            THEN [view[c] EXCEPT ![s] = Show(@, fresh[s])] ELSE view[c]]
           /\ takeover' = [takeover EXCEPT ![s] = IF fresh[s] THEN {} ELSE @]
           /\ send_conn_ids' = [send_conn_ids EXCEPT ![s] = ids]
    /\ fresh' = [fresh EXCEPT ![s] = FALSE]
    /\ Jump(s, "sent")
    /\ UNCHANGED <<serverVars, refresh, display_conn_ids, fetched, notes, closing, calls, excused>>

(* The encoder failed: carry on without a frame, or SWITCH.                *)
EncodeError(s) ==
    /\ pc[s] = "encode"
    /\ Stay(s, "wait") \/ Return(s)
    /\ UNCHANGED <<serverVars, refresh, frames, notes, queue, view, closing, calls, takeover,
                   excused>>

(* frame_controller.set_send publishes the ids that have to acknowledge.   *)
SetSend(s) ==
    /\ pc[s] = "sent"
    /\ display_conn_ids' = IF send_conn_ids[s] = {} THEN display_conn_ids
                           ELSE [display_conn_ids EXCEPT ![s] = send_conn_ids[s]]
    /\ Jump(s, "wait")
    /\ UNCHANGED <<serverVars, fresh, refresh, frames, send_conn_ids, fetched, notes,
                   queue, view, closing, calls, takeover, excused>>

(* The ids that still have frames of this service in their channel.        *)
Behind(s) == {c \in send_conn_ids[s] : frames[s] \in Range(queue[c][s])}

(* The wait loop is left; the next iteration starts with reset().          *)
EndWait(s, all) ==
    /\ display_conn_ids' = [display_conn_ids EXCEPT ![s] = {}]
    /\ send_conn_ids' = [send_conn_ids EXCEPT ![s] = {}]
    /\ fetched' = [fetched EXCEPT ![s] = {}]
    /\ excused' = [excused EXCEPT ![s] = IF all THEN @ ELSE @ + 1]
    /\ Jump(s, "loop")
    /\ UNCHANGED fresh

(* Mutant: no frame is waited for.                                         *)
WaitNever(s) ==
    /\ pc[s] = "wait"
    /\ EndWait(s, TRUE)
    /\ UNCHANGED <<serverVars, refresh, frames, notes, queue, view, closing, calls, takeover>>

(* Nothing was sent: try_wait_next returns at once.                        *)
WaitNothing(s) ==
    /\ pc[s] = "wait"
    /\ send_conn_ids[s] = {}
    /\ EndWait(s, TRUE)
    /\ UNCHANGED <<serverVars, refresh, frames, notes, queue, view, closing, calls, takeover>>

(* try_wait_next takes what is in the channel; the loop ends when as many  *)
(* ids came in as the frame was sent to.                                   *)
WaitNext(s) ==
    /\ pc[s] = "wait"
    /\ send_conn_ids[s] # {}
    /\ notes[s] # {}
    /\ LET got == fetched[s] \cup notes[s]
       IN  IF Cardinality(got) >= Cardinality(send_conn_ids[s])
           THEN EndWait(s, send_conn_ids[s] \subseteq got)
           ELSE /\ fetched' = [fetched EXCEPT ![s] = got]
                /\ UNCHANGED <<pc, display_conn_ids, send_conn_ids, fresh, excused>>
    /\ notes' = [notes EXCEPT ![s] = {}]
    /\ UNCHANGED <<serverVars, refresh, frames, queue, view, closing, calls, takeover>>

(* Three seconds went by.                                                  *)
WaitTimeout(s) ==
    /\ pc[s] = "wait"
    /\ send_conn_ids[s] # {}
    /\ EndWait(s, FALSE)
    /\ UNCHANGED <<serverVars, refresh, frames, notes, queue, view, closing, calls, takeover>>

(* check_privacy_mode_changed in the wait loop: SWITCH, announced when the *)
(* geometry changed as well.                                               *)
WaitSwitch(s) ==
    /\ pc[s] = "wait"
    /\ excused' = [excused EXCEPT ![s] = IF send_conn_ids[s] = {} THEN @ ELSE @ + 1]
    /\ Stay(s, "broadcast") \/ Return(s)
    /\ UNCHANGED <<serverVars, refresh, frames, notes, queue, view, closing, calls, takeover>>

-----------------------------------------------------------------------------
(* The connection task.                                                    *)

Pop(c, s) == queue' = [queue EXCEPT ![c][s] = Tail(@)]

(* rx_video.recv() without acks: notify_video_frame_fetched.               *)
Fetch(c, s) ==
    /\ c \notin AckRequired \cup closing
    /\ queue[c][s] # <<>>
    /\ Pop(c, s)
    /\ notes' = [notes EXCEPT ![s] = @ \cup {c}]
    /\ UNCHANGED <<serverVars, pc, fresh, refresh, frames, send_conn_ids,
                   display_conn_ids, fetched, view, closing, calls, takeover, excused>>

(* The peer's VideoReceived: notify_video_frame_fetched_by_conn_id credits *)
(* every display that waits for this connection, and no other: the ack of  *)
(* one display's frame ends the wait for it at the other displays too.     *)
Received(c, s) ==
    /\ c \in AckRequired \ closing
    /\ queue[c][s] # <<>>
    /\ Pop(c, s)
    /\ notes' = [d \in Service |-> IF c \in display_conn_ids[d]
                    THEN notes[d] \cup {c} ELSE notes[d]]
    /\ excused' = [d \in Service |-> IF d # s /\ c \in display_conn_ids[d]
                      THEN excused[d] + 1 ELSE excused[d]]
    /\ UNCHANGED <<serverVars, pc, fresh, refresh, frames, send_conn_ids,
                   display_conn_ids, fetched, view, closing, calls, takeover>>

(* refresh_video_display, under the read half of the Server lock.          *)
RefreshVideo(s) ==
    /\ call = Idle
    /\ refresh' = [refresh EXCEPT ![s] = TRUE]
    /\ UNCHANGED <<serverVars, pc, fresh, frames, send_conn_ids, display_conn_ids,
                   fetched, notes, queue, view, closing, calls, takeover, excused>>

(* The loop of the connection ended: its channel is not read any more, and *)
(* the wait for its frame is cut short.  remove_connection comes later.    *)
Close(c) ==
    /\ c \notin closing \cup call.conn
    /\ closing' = closing \cup {c}
    /\ notes' = [s \in Service |-> IF c \in display_conn_ids[s]
                    THEN notes[s] \cup {c} ELSE notes[s]]
    /\ UNCHANGED <<serverVars, pc, fresh, refresh, frames, send_conn_ids,
                   display_conn_ids, fetched, queue, view, calls, takeover, excused>>

(* The registry; an id that leaves a service forgets its stream.           *)
RegistryStep ==
    /\ \/ /\ BeginCall
          /\ calls < MaxCalls
          /\ calls' = calls + 1
          /\ IF call'.op = "remove" THEN call'.conn \subseteq closing
             ELSE call'.conn \cap closing = {}
       \/ CallStep /\ UNCHANGED calls
    /\ view' = [c \in Conn |-> [s \in Service |->
                  IF c \in inner'[s].subscribes \cup inner'[s].new_subscribes
                  THEN view[c][s] ELSE "none"]]
    /\ takeover' = [s \in Service |-> {c \in takeover[s] : Subed(inner'[s], c)}]
    /\ UNCHANGED <<pc, fresh, refresh, frames, send_conn_ids, display_conn_ids, fetched,
                   notes, queue, closing, excused>>

Thread(s) ==
    \/ Top(s)
    \/ Check(s)
    \/ Open(s)
    \/ OpenError(s)
    \/ Loop(s)
    \/ Broadcast(s)
    \/ Frame(s)
    \/ NoFrame(s)
    \/ Others(s)
    \/ SwapIn(s)
    \/ Encode(s)
    \/ EncodeError(s)
    \/ SetSend(s)
    \/ WaitNothing(s)
    \/ WaitNext(s)
    \/ WaitTimeout(s)
    \/ WaitSwitch(s)

VideoNext ==
    \/ RegistryStep
    \/ \E s \in Service : Thread(s) \/ RefreshVideo(s)
    \/ \E c \in Conn, s \in Service : Fetch(c, s) \/ Received(c, s)
    \/ \E c \in Conn : Close(c)

VideoSpec == VideoInit /\ [][VideoNext]_vars

-----------------------------------------------------------------------------
VideoTypeOK ==
    /\ TypeOK
    /\ pc \in [Service -> Labels]
    /\ fresh \in [Service -> BOOLEAN]
    /\ refresh \in [Service -> BOOLEAN]
    /\ frames \in [Service -> 0..MaxFrames]
    /\ send_conn_ids \in [Service -> SUBSET Conn]
    /\ display_conn_ids \in [Service -> SUBSET Conn]
    /\ fetched \in [Service -> SUBSET Conn]
    /\ notes \in [Service -> SUBSET Conn]
    /\ queue \in [Conn -> [Service -> Seq(1..MaxFrames)]]
    /\ view \in [Conn -> [Service -> {"none", "clean", "broken"}]]
    /\ closing \in SUBSET Conn
    /\ calls \in 0..MaxCalls
    /\ takeover \in [Service -> SUBSET Conn]
    /\ excused \in [Service -> Nat]

(* The registry invariants carry over to the real video threads.           *)
ImplementsServer == Spec

(* The first frame a subscriber is sent is a key frame.  The exception:    *)
(* it arrived when the last other subscriber had just left, before the     *)
(* thread noticed that sp.ok() was false, and inherited a used encoder.    *)
StreamStartsClean ==
    \A c \in Conn, s \in Service :
        view[c][s] = "broken" => c \in takeover[s]

(* Types, and that nobody is sent frames it cannot decode.                 *)
VideoInv == VideoTypeOK /\ StreamStartsClean

(* A connection that is served is at most one frame behind, plus one for   *)
(* every wait that ended without its acknowledgement and for every         *)
(* acknowledgement of another display's frame that this one took for its   *)
(* own.                                                                    *)
LagBounded ==
    \A s \in Service : \A c \in inner[s].subscribes \ closing :
        Len(queue[c][s]) <= 1 + excused[s]

(* What makes these inductive: only the served have a picture; the thread  *)
(* joins newcomers only to an encoder nobody else uses, and a used encoder *)
(* has shown a picture to everybody it serves but those who took it over.  *)
Looping == {"loop", "broadcast", "leave", "frame", "others", "bail", "join",
            "encode", "sent", "wait"}

PicturesServed ==
    \A s \in Service :
        /\ \A c \in Conn : view[c][s] # "none" => c \in inner[s].subscribes
        /\ pc[s] = "join" => inner[s].subscribes = {}
        /\ pc[s] \in Looping /\ ~fresh[s] =>
              \A c \in inner[s].subscribes : view[c][s] # "none" \/ c \in takeover[s]

(* A frame in the channel is the one waited for or was excused, and so is  *)
(* one that was fetched and not taken note of.                             *)
Awaited(c, s) == IF pc[s] \in {"sent", "wait"} /\ c \in send_conn_ids[s] THEN 1 ELSE 0
Noted(c, s) == IF c \in notes[s] \cup fetched[s] THEN 1 ELSE 0

Accounted(c, s) == Len(queue[c][s]) + Noted(c, s) <= excused[s] + Awaited(c, s)

FramesAccounted == \A s \in Service, c \in Conn \ closing : Accounted(c, s)

VideoIInv == ServerInv /\ VideoInv /\ PicturesServed /\ FramesAccounted

(* "break if all connections have received current frame": a wait that     *)
(* ends by counting ids ends with the frame fetched by everybody it was    *)
(* sent to and who is still there.                                         *)
WaitEndsFetched ==
    [][\A s \in Service :
          pc[s] = "wait" /\ pc'[s] = "loop" /\ notes[s] # {} /\ notes'[s] = {}
          => Behind(s) \subseteq closing]_vars
=============================================================================
