----------------------------- MODULE IntakeProperties -----------------------------
(***************************************************************************)
(* What the intake of triggers promises.                                   *)
(***************************************************************************)
EXTENDS TriggerIntake

Entering(t) == row[t] = "none" /\ row'[t] = "entered"

\* A process enters only triggers that fired while it was up: after a restart
\* the triggers of the process before it, and those that fired between the two,
\* are left alone (run_execution_engine.py: "Clean-start floor: only triggers
\* from this instant onward are eligible").
NothingFromBeforeStart ==
  \A t \in Triggers : enteredIn[t] # 0 => firedIn[t] = enteredIn[t]

\* No entry is taken while reconciliation or protection has failed as often in a
\* row as its threshold, whatever the feed does meanwhile: a feed that recovers
\* does not lift the pause of a step that has not (engine_core.tick and
\* engine_runloop.should_auto_pause).
EscalationHoldsEntries ==
  [][(\E t \in Triggers : Entering(t)) => \A s \in Steps : broken[s] < Threshold[s]]_vars

Hindered == ~Up \/ ~runner.up \/ ~runner.feed \/ eng.stopped \/ day = "over"

\* The triggers the engine may take are all answered, by an entry or by a skip,
\* unless the engine, the runner or the feed is gone, entries are stopped by
\* hand or the day is over: neither the wait for a verdict nor a pause after
\* passing failures leaves one waiting for ever (engine_core.handle_trigger and
\* tick, engine_runloop.record_success).
TriggersAnswered == Waiting # {} ~> Waiting = {} \/ Hindered

\* Once the socket has delivered nothing for the stale limit, a tick that
\* begins then has paused entries by the time it reconciles (run_execution_engine
\* build_feed_monitor: "Staleness is judged against the actual last-tick
\* timestamp. Never against a status file's write cadence").
DeadFeedPauses ==
  eng.at = "drive_open_orders" /\ eng.ticked /\ runner.ticked >= FeedStale => eng.paused
=============================================================================
