---------------------------- MODULE VwapProperties ----------------------------
(***************************************************************************)
(* What a VWAP verdict rests on, and that one can be reached.              *)
(***************************************************************************)
EXTENDS VwapLedger

Judged(s) == verdicts[s].class \in {"ACCEPT", "LIMITED", "REJECT"}

\* A trigger is judged only by a ledger that holds every minute from the
\* session's open to its own: for each whole candle that came while the stock
\* was held it holds that candle, whichever of worker and scheduler came
\* first, and the feed was not known to be down (snapshot, _apply_entry).
VerdictRestsOnMinutes ==
  \A s \in Setups : Judged(s) =>
    LET v == verdicts[s]
    IN /\ ~v.stale
       /\ \A m \in 1 .. v.cutoff - 1 :
            v.used[m] \in (IF m \in kept THEN {"live"} ELSE {"live", "hist", "part"})

\* A stock that is armed does not warm up for ever: it gets ready, or is given
\* up after max_failures, whatever the jobs before it did (_process_token).
WarmUpEnds == cache = "warming" ~> cache # "warming"
=============================================================================
