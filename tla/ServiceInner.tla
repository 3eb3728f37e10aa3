---------------------------- MODULE ServiceInner ----------------------------
(***************************************************************************)
(* The data a capture service keeps behind its RwLock (ServiceInner of     *)
(* server/service.rs) and the operations that run under one acquisition of *)
(* that lock.  Each operator takes the record and returns the new one, so  *)
(* the modules that use them decide where one lock section ends and the    *)
(* next one starts.                                                        *)
(***************************************************************************)
EXTENDS Naturals, FiniteSets

CONSTANTS
    Conn    \* connection ids (i32 keys of the subscriber maps)

(* The fields `subscribes`, `new_subscribes`, `active`, `need_snapshot`.   *)
(* A HashMap<i32, T> is its set of keys: the value is the sender of that   *)
(* same connection.                                                        *)
Inner == [subscribes     : SUBSET Conn,
          new_subscribes : SUBSET Conn,
          active         : BOOLEAN,
          need_snapshot  : BOOLEAN]

(* ServiceTmpl::new: active from birth, nobody subscribed.                 *)
NewInner(need) == [subscribes |-> {}, new_subscribes |-> {},
                   active |-> TRUE, need_snapshot |-> need]

(* Mutant: a served subscriber is parked again.                            *)
OnSubscribeAgain(in, c) ==
    IF in.need_snapshot
    THEN [in EXCEPT !.new_subscribes = @ \cup {c}]
    ELSE [in EXCEPT !.subscribes = @ \cup {c}]

(* A second call for a subscriber that is being served changes nothing; a  *)
(* service with a snapshot parks the newcomer in new_subscribes.           *)
OnSubscribe(in, c) ==
    IF c \in in.subscribes THEN in
    ELSE IF in.need_snapshot
         THEN [in EXCEPT !.new_subscribes = @ \cup {c}]
         ELSE [in EXCEPT !.subscribes = @ \cup {c}]

(* Mutant: parked ids are forgotten by the removal.                        *)
OnUnsubscribeServed(in, c) == [in EXCEPT !.subscribes = @ \ {c}]

(* new_subscribes is only searched when subscribes did not hold the id.    *)
OnUnsubscribe(in, c) ==
    IF c \in in.subscribes
    THEN [in EXCEPT !.subscribes = @ \ {c}]
    ELSE [in EXCEPT !.new_subscribes = @ \ {c}]

SwapNewSubscribes(in) ==
    [in EXCEPT !.subscribes = @ \cup in.new_subscribes, !.new_subscribes = {}]

HasSubscribes(in) == in.subscribes # {} \/ in.new_subscribes # {}

Ok(in) == in.active /\ HasSubscribes(in)

(* is_subed, when nothing runs between its two reads.                      *)
Subed(in, c) == c \in in.subscribes \/ c \in in.new_subscribes

(* No id is in both maps, and only a service with a snapshot parks ids.    *)
MapsOK(in) ==
    /\ in.subscribes \cap in.new_subscribes = {}
    /\ ~in.need_snapshot => in.new_subscribes = {}

Deactivate(in) == [in EXCEPT !.active = FALSE]
=============================================================================
