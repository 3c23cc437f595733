----------------------------- MODULE ByteQueue -----------------------------
(***************************************************************************)
(* What a buffered channel promises: bytes come out in the order they went  *)
(* in, each once, and none is refused once accepted.                        *)
(***************************************************************************)
EXTENDS Naturals, Sequences

CONSTANTS
  Byte,       (* the bytes that travel          *)
  Capacity    (* how many may be under way      *)

VARIABLES
  queue,      (* accepted and not yet delivered *)
  out         (* the byte delivered last        *)

Init == queue = <<>> /\ out \in Byte

Put(b) == /\ Len(queue) < Capacity
          /\ queue' = Append(queue, b)
          /\ UNCHANGED out

Get == /\ queue # <<>>
       /\ out' = Head(queue)
       /\ queue' = Tail(queue)

Next == (\E b \in Byte : Put(b)) \/ Get

Spec == Init /\ [][Next]_<<queue, out>>
=============================================================================
