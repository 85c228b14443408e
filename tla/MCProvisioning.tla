--------------------------- MODULE MCProvisioning ---------------------------
(***************************************************************************)
(* Instances of Provisioning for TLC.  A symmetry of the devices would be  *)
(* unsound here: the run checks liveness.                                  *)
(***************************************************************************)
EXTENDS Provisioning

CONSTANTS d1, d2
=============================================================================
