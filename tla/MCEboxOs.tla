----------------------------- MODULE MCEboxOs ------------------------------
(***************************************************************************)
(* EboxOs for TLC: two user tasks and the idle task are enough for a task   *)
(* to be preempted inside a kernel call by one that then changes the ready  *)
(* table.                                                                   *)
(***************************************************************************)
EXTENDS EboxOs
=============================================================================
