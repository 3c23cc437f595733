------------------------------ MODULE MCSpiBus ------------------------------
(***************************************************************************)
(* An instance of SpiBus: two tasks, each with a device of its own.         *)
(***************************************************************************)
EXTENDS SpiBus

MCDevice == [t \in Task |-> t + 6]
=============================================================================
