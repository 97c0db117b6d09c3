------------------------------ MODULE MCWaits ------------------------------
(***************************************************************************)
(* Waits for TLC: every helper, its constants given by the configuration.  *)
(***************************************************************************)
EXTENDS Waits
=============================================================================
