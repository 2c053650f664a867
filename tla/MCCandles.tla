------------------------------- MODULE MCCandles -------------------------------
(***************************************************************************)
(* Instances of the candle pipeline for TLC.                               *)
(***************************************************************************)
EXTENDS CandleProperties
=============================================================================
