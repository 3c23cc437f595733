----------------------------- MODULE MCUartTx ------------------------------
(***************************************************************************)
(* UartTx for TLC: a ring of three holds two bytes, so it is empty, partly   *)
(* full, full and wrapped.                                                   *)
(***************************************************************************)
EXTENDS UartTx
=============================================================================
