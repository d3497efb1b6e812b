------------------------ MODULE MCStopModeOperator ------------------------
(***************************************************************************)
(* A small instance of StopModeOperator for TLC; the values are in the     *)
(* configuration.                                                          *)
(***************************************************************************)
EXTENDS StopModeOperator
=============================================================================
