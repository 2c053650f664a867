------------------------------ MODULE MCSupervision ------------------------------
(***************************************************************************)
(* Instances of the supervision for TLC.                                   *)
(***************************************************************************)
EXTENDS SupervisionProperties

CONSTANTS a, b

TwoThreads == {a, b}

\* Any one of these at any time.
OneFault ==
  {<<"torn", "first">>, <<"failed", "spawn">>, <<"failed", "lease">>,
   <<"wedged", "runner">>, <<"wedged", "engine">>, <<"crash", "runner">>,
   <<"crash", "engine">>, <<"crash", "prep">>, <<"restart", "api">>}
=============================================================================
