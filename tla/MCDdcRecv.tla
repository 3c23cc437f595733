------------------------------ MODULE MCDdcRecv -----------------------------
(***************************************************************************)
(* An instance of DdcRecv: frames whose payloads hold the head of a frame,   *)
(* so that a cut frame makes the receiver start inside the next one.        *)
(***************************************************************************)
EXTENDS DdcRecv

F(i, c, a, p, k) == [id |-> i, ch |-> c, ack |-> a, payload |-> p, crc |-> k]

MCFrames == << F(1, 7, 1, <<0, H0, H1, 5, 6, 2, 2, 9>>, <<0, H0>>),
               F(2, 2, 0, <<H0>>, <<H1, 6>>) >>

(* Where their bytes can stand elsewhere on the line, as far as they can.     *)
MCElsewhere ==
  LET upto[i \in 3 .. MaxPayload + 10] ==
        IF i = 3
          THEN {x \in (DOMAIN Frames) \X {3} \X Places \X {0} :
                  x[3] # <<x[1], 3>> /\ Value(x[3]) = Wire[x[1]][3]}
          ELSE UNION {{<<e[1], i, x[1], x[2]>> :
                         x \in {y \in Places \X (0 .. MaxLost) :
                                  Reads(e, y[1], y[2])}} : e \in upto[i - 1]}
  IN  UNION {upto[i] : i \in 3 .. MaxPayload + 10}

ASSUME UnmistakableFrames == Unmistakable(MCElsewhere)
=============================================================================
