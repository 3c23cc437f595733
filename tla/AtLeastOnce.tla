---------------------------- MODULE AtLeastOnce ----------------------------
(***************************************************************************)
(* What a link with replies and retries promises: a message stays pending   *)
(* from its submission until the peer has it; the peer may get it again.    *)
(***************************************************************************)
CONSTANT Msg

VARIABLES pending,    (* submitted, and not known to be delivered *)
          delivered   (* the peer's callback has run              *)

Init == pending = {} /\ delivered = {}

Submit(m) == /\ m \notin pending \cup delivered
             /\ pending' = pending \cup {m}
             /\ UNCHANGED delivered

Deliver(m) == /\ m \in pending \ delivered
              /\ delivered' = delivered \cup {m}
              /\ UNCHANGED pending

Settle(m) == /\ m \in pending \cap delivered
             /\ pending' = pending \ {m}
             /\ UNCHANGED delivered

Next == \E m \in Msg : Submit(m) \/ Deliver(m) \/ Settle(m)

Spec == Init /\ [][Next]_<<pending, delivered>>
=============================================================================
