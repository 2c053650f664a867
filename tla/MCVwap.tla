-------------------------------- MODULE MCVwap --------------------------------
(***************************************************************************)
(* Instances of the VWAP ledger for TLC.                                   *)
(***************************************************************************)
EXTENDS VwapProperties
=============================================================================
