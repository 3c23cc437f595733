------------------------------ MODULE LossyLink -----------------------------
(***************************************************************************)
(* What a frame protocol above a bad line promises: frames are handed over  *)
(* in the order sent, each at most once, and only ones that were sent.      *)
(* Frames are numbered as they are sent.                                    *)
(***************************************************************************)
EXTENDS Naturals, Sequences, SequencesExt

VARIABLES sent, delivered

Newest == IF delivered = <<>> THEN 0 ELSE Last(delivered)

Init    == sent = 0 /\ delivered = <<>>
Send    == sent' = sent + 1 /\ UNCHANGED delivered
Deliver == /\ \E f \in Newest + 1 .. sent : delivered' = Append(delivered, f)
           /\ UNCHANGED sent

Spec == Init /\ [][Send \/ Deliver]_<<sent, delivered>>
=============================================================================
