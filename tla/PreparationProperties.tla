-------------------------- MODULE PreparationProperties --------------------------
(***************************************************************************)
(* What the morning preparation owes to who starts observation.            *)
(***************************************************************************)
EXTENDS Preparation

\* A checklist that is ready stands for a passed token check, a complete
\* universe and history, and derived data that come from that history, except
\* for what a generator left out without saying so; and nobody is changing any
\* of it.  About the dirty stages, the revisions a scan compares, and the
\* invalidations of the cache, over crashes and orphans.
ReadyMeansPrepared ==
  Ready =>
    /\ data.kite = "valid" /\ data.instruments = "full" /\ data.historical # "behind"
    /\ data.baselines = "fresh" \/ "baselines" \in left
    /\ data.five = "fresh" \/ "five-minute" \in left

\* Two processes never change the data at once, whoever of their starters has
\* died.  About the inherited lock (checklist_activity.py:3).
OneWriter == ~(worker.at = "work" /\ gen.at = "work")

\* A preparation that shows as running stops showing so.
PreparationEnds == (Shown = "running") ~> (Shown # "running")
=============================================================================
