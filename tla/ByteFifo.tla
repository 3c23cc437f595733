------------------------------- MODULE ByteFifo -----------------------------
(***************************************************************************)
(* The byte fifo of ebox/core/fifo.c, used one byte at a time as the DDC    *)
(* port does.  in and out count for ever, modulo the width of unsigned int; *)
(* the cell of a count is found by a mask, count & (size - 1), and not by a *)
(* remainder: for a size that is no power of two some cells are shared.     *)
(***************************************************************************)
EXTENDS Integers, FiniteSetsExt

CONSTANTS
  Sizes,   (* the sizes of a fifo: DDC asks for 1280, five times 256        *)
  Bits     (* the width of in and out: 32                                  *)

ASSUME SizeAssumption == Bits \in Nat /\ Sizes \subseteq 1 .. 2 ^ Bits - 1

Word == 0 .. 2 ^ Bits - 1

(* The operator & of C: a word as the set of its bits that are 1. *)
OnesOf   == [x \in Word |-> {b \in 0 .. Bits - 1 : (x \div 2 ^ b) % 2 = 1}]
NumberOf == [B \in SUBSET (0 .. Bits - 1) |->
               CHOOSE x \in Word : OnesOf[x] = B]
BitAnd(x, y) == NumberOf[OnesOf[x] \cap OnesOf[y]]

(* The cell of a count. *)
Cell(size, n) == BitAnd(n, size - 1)

(* fifo->in - fifo->out, and the room that ebox_fifo_put finds.  Mutant: one  *)
(* byte too many.                                                           *)
Held(in, out)           == (in - out) % 2 ^ Bits
Room_one(size, in, out) == (size - in + out + 1) % 2 ^ Bits
Room(size, in, out)     == (size - in + out) % 2 ^ Bits

(* fifo->in += len.  Mutant: the counts wrap one count too early.           *)
After_early(n) == (n + 1) % (2 ^ Bits - 1)
After(n)       == (n + 1) % 2 ^ Bits

(* Counts up to this many apart have cells of their own: the lowest bits of  *)
(* the mask that are all set.  It is the size when that is a power of two,  *)
(* and 256 for DDC's 1280.                                                  *)
LowOnes(size) == Max({k \in 0 .. Bits : 0 .. k - 1 \subseteq OnesOf[size - 1]})
Apart(size)   == 2 ^ LowOnes(size)
=============================================================================
