-------------------------------- MODULE MCSetups --------------------------------
(***************************************************************************)
(* Instances of the setup lifecycle for TLC.                               *)
(***************************************************************************)
EXTENDS SetupProperties
=============================================================================
