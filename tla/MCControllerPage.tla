-------------------------- MODULE MCControllerPage --------------------------
(***************************************************************************)
(* Instance of ControllerPage for TLC.                                     *)
(***************************************************************************)
EXTENDS ControllerPage

CONSTANTS a1, a2
=============================================================================
