------------------------------- MODULE MCDdc -------------------------------
(***************************************************************************)
(* Ddc for TLC: board a submits two messages that ask for a reply, board b  *)
(* one that does not; ids enough for a retry of each.                       *)
(***************************************************************************)
EXTENDS Ddc, TLC

CONSTANTS a, b, m1, m2, m3

MCSource == (m1 :> a) @@ (m2 :> a) @@ (m3 :> b)
=============================================================================
