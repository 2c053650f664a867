--------------------------------- MODULE MCIntake ---------------------------------
(***************************************************************************)
(* Instances of TriggerIntake for TLC.                                     *)
(***************************************************************************)
EXTENDS IntakeProperties, TLC

CONSTANTS t1, t2

MCRatio == t1 :> 1 @@ t2 :> 0

\* LIMITED risks half of what ACCEPT does; the two together want more than
\* there is.
MCWants == [c \in EntryClasses |-> IF c = "ACCEPT" THEN 2 ELSE 1]

MCThreshold == [s \in Steps |-> IF s = "ensure_protection" THEN 1 ELSE 2]

=============================================================================
