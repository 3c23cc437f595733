----------------------------- MODULE MCUartRx ------------------------------
(***************************************************************************)
(* UartRx for TLC: a ring of three holds two bytes; seven arrivals fill it, *)
(* overflow it and wrap its indices twice.                                  *)
(***************************************************************************)
EXTENDS UartRx
=============================================================================
