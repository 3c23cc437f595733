------------------------------ MODULE MCIFlash ------------------------------
(***************************************************************************)
(* Two pages of four bytes.  A buffer alternates between two bytes, so that *)
(* a byte out of place shows; the byte after it is either.                  *)
(***************************************************************************)
EXTENDS IFlash

CONSTANTS Lengths, a, b, ff

MCBuffers == {[k \in 1..n + 1 |-> IF k > n THEN past
                                  ELSE IF k % 2 = 0 THEN first
                                  ELSE IF first = a THEN b ELSE a] :
                n \in Lengths, first \in {a, b}, past \in {a, ff}}
=============================================================================
