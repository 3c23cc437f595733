---------------------------- MODULE MCStepMotor -----------------------------
(***************************************************************************)
(* Two motors ask for one or four steps; their moves may overlap,           *)
(* and a motor may be asked again before it has stopped.                    *)
(***************************************************************************)
EXTENDS StepMotor
=============================================================================
