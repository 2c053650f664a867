----------------------------- MODULE MCPreparation -----------------------------
(***************************************************************************)
(* Instances of the morning preparation for TLC.                           *)
(***************************************************************************)
EXTENDS PreparationProperties
=============================================================================
