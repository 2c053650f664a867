----------------------------- MODULE SetupProperties -----------------------------
(***************************************************************************)
(* What the setups of a stock promise to those who read them: one outcome  *)
(* for each, whatever fails, and a trigger only for a structure that holds.*)
(***************************************************************************)
EXTENDS SetupLifecycle

\* The rows of a setup's log that end it.
Ends(id) == {i \in DOMAIN log[id] : log[id][i] \in TerminalStates}

Decided(id) == decisions[id] \in {"TRIGGERED", "REJECTED"}

\* A setup ends once: the pullback engine's log and the continuation engine's
\* decision never tell two different outcomes, across failures and restarts
\* (_terminal, close_after_continuation_outcome, insert_decision).
OneOutcome ==
  \A id \in Ids :
    /\ \A i \in Ends(id) : i = Len(log[id])
    /\ Decided(id) => \A i \in DOMAIN log[id] : log[id][i] \notin Structural
    /\ decisions[id] = "DISARMED" => \E i \in Ends(id) : log[id][i] \in Structural

\* Between two ticks the engine believes what it stored: a setup's state is
\* that of its last row, or the outcome continuation stored for it
\* (_persist_transition before transition).
MemoryFollowsLog ==
  job.at = "idle" =>
    \A id \in Ids : rt[id] # NoRuntime =>
      /\ rt[id].seq = Len(log[id])
      /\ \/ rt[id].state = Last(log[id])
         \/ rt[id].state \in ContinuationStates /\ Decided(id)
      /\ slot = id => Active(rt[id]) /\ ~Decided(id)

\* A trigger is stored only for a setup that was READY and armed, and whose
\* structure no bucket's candle had broken, the one that the triggering tick
\* itself completed included; a setup a row of which failed is excused, and one
\* a candle of which a degraded engine left unread
\* (LiveCandlePipeline.on_tick, _evaluate_continuation).
TriggerEarned ==
  \A id \in Ids : decisions[id] = "TRIGGERED" =>
    /\ id \in arms /\ id \in setups /\ id \in spikes
    /\ \E i \in DOMAIN log[id] : log[id][i] = "PULLBACK_READY"
    /\ id \in broken => id \in missed

\* When the session was closed and nothing failed, no setup of the process is
\* left open and no arm undecided (on_session_closed).
SettledAtClose ==
  up = "closing" /\ faults = 0 =>
    \A id \in Ids :
      /\ rt[id] # NoRuntime => Ends(id) # {}
      /\ arm[id] # "none" => decisions[id] # "none"
=============================================================================
