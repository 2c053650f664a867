------------------------------ MODULE TriggerIntake ------------------------------
(***************************************************************************)
(* How a trigger of the observation runner becomes an entry of the engine, *)
(* or a trigger that will never be one: the rows the runner writes, the    *)
(* status file by which the engine judges the feed, the engine's tick with *)
(* its pause, the wait for the VWAP verdict, the ranking and the capital.  *)
(*                                                                         *)
(* Time runs in whole seconds, which is the precision of created_at: what  *)
(* happens within a second is ordered, and nothing is said of how long it  *)
(* takes.  The engine ticks once a second unless a tick overruns.  Orders  *)
(* at the broker are the business of ExecutionEngine: here an entry is     *)
(* sent or refused, and a position ends when reconciliation says so.       *)
(***************************************************************************)
EXTENDS Integers, Sequences, FiniteSets, FiniteSetsExt

CONSTANTS
  Triggers,     \* the setups that may trigger
  Ratio,        \* breakout volume over its average; 0 where it is unusable
  Wants,        \* capital an entry of a class would take by its risk cap
  Capital,      \* what there is of it
  Threshold,    \* consecutive failures of a step that escalate it
  VwapWait,     \* VWAP_WAIT_SECONDS
  FeedStale,    \* FEED_STALE_SECONDS
  WriteEvery,   \* the runner's health interval
  MaxEvents,    \* bound: events of the environment that may go wrong or turn
                \* up at any time, all together
  MaxRuns       \* bound: engines started

EntryClasses == {"ACCEPT", "LIMITED"}
\* REJECT stands for a written UNAVAILABLE too.
Verdicts == EntryClasses \cup {"REJECT"}
Steps == {"drive_open_orders", "ensure_protection"}

ASSUME IntakeAssumption ==
  /\ IsFiniteSet(Triggers)
  /\ Ratio \in [Triggers -> Nat] /\ Wants \in [EntryClasses -> Nat \ {0}] /\ Capital \in Nat
  /\ Threshold \in [Steps -> Nat \ {0}]
  /\ {VwapWait, FeedStale, WriteEvery} \subseteq Nat \ {0} /\ WriteEvery < FeedStale
  /\ MaxEvents \in Nat /\ MaxRuns \in Nat

VARIABLES
  log,       \* triggers in the order of their rows
  age,       \* seconds since the second of a trigger's created_at
  verdict,   \* the VWAP rows
  runner,    \* up; does the socket deliver; seconds since it last did, since
             \* updated_at in the file, since the status loop last woke
  eng,       \* the engine process; its memory
  floor,     \* triggers whose created_at is not below the floor of the process
  row,       \* the positions table: what became of a trigger
  qty,       \* capital a trigger's position holds
  day,       \* before the entry cutoff, after it, or shutting down
  run,       \* history: how many engines have started
  firedIn,   \* history: which of them was up when a trigger fired; 0 for none
  enteredIn, \* history: which of them entered it
  broken,    \* history: failures of a step since it last succeeded
  used       \* how many of the bounded events have happened

vars == <<log, age, verdict, runner, eng, floor, row, qty, day, run, firedIn, enteredIn, broken, used>>

Fired == {log[i] : i \in 1 .. Len(log)}
Rank(t) == CHOOSE i \in 1 .. Len(log) : log[i] = t

Down == [at |-> "down", ticked |-> FALSE, young |-> FALSE, paused |-> FALSE, stopped |-> FALSE,
         fails |-> [s \in Steps |-> 0], batch |-> {}]

Charge(n) == used + n <= MaxEvents /\ used' = used + n
Cost(event) == IF event THEN 1 ELSE 0
Spend == Charge(1)

Older(a, cap) == IF a < cap THEN a + 1 ELSE a

Up == eng.at # "down"
Open == {t \in Triggers : row[t] = "entered"}

-----------------------------------------------------------------------------
(* The runner. *)

\* _metrics_loop, write_runner_status.  A new process sleeps first: the file of
\* the process before it stays until then.
WriteStatus ==
  /\ runner.up /\ runner.slept = WriteEvery
  /\ runner' = [runner EXCEPT !.written = 0, !.slept = 0]
  /\ UNCHANGED <<log, age, verdict, eng, floor, row, qty, day, run, firedIn, enteredIn, broken, used>>

\* A TRIGGERED row.  A new process's floor has a fraction of a second that
\* created_at has not, so a trigger of the second it started in is below it.
Fire(t) ==
  /\ runner.up /\ runner.feed /\ t \notin Fired
  /\ log' = Append(log, t)
  /\ age' = [age EXCEPT ![t] = 0]
  /\ firedIn' = [firedIn EXCEPT ![t] = IF Up THEN run ELSE 0]
  /\ floor' = IF Up /\ ~eng.young THEN floor \cup {t} ELSE floor
  /\ UNCHANGED <<verdict, runner, eng, row, qty, day, run, enteredIn, broken, used>>

\* The qualifier's row for it, if it is written at all.
Judge(t) ==
  /\ runner.up /\ t \in Fired /\ verdict[t] = "none"
  /\ \E v \in Verdicts : verdict' = [verdict EXCEPT ![t] = v]
  /\ UNCHANGED <<log, age, runner, eng, floor, row, qty, day, run, firedIn, enteredIn, broken, used>>

\* The socket delivers nothing any more, or again.
FeedChanges ==
  /\ runner.up /\ Spend
  /\ runner' = [runner EXCEPT !.feed = ~@, !.ticked = IF runner.feed THEN @ ELSE 0]
  /\ UNCHANGED <<log, age, verdict, eng, floor, row, qty, day, run, firedIn, enteredIn, broken>>

RunnerDies ==
  /\ runner.up /\ Spend
  /\ runner' = [runner EXCEPT !.up = FALSE, !.feed = FALSE]
  /\ UNCHANGED <<log, age, verdict, eng, floor, row, qty, day, run, firedIn, enteredIn, broken>>

RunnerStarts ==
  /\ ~runner.up
  /\ runner' = [runner EXCEPT !.up = TRUE, !.feed = TRUE, !.ticked = 0, !.slept = 0]
  /\ UNCHANGED <<log, age, verdict, eng, floor, row, qty, day, run, firedIn, enteredIn, broken, used>>

-----------------------------------------------------------------------------
(* The tick of the engine. *)

\* Mutant: the floor of the process before stays.
FloorKept == floor

\* The floor of a new process is its own start.
FloorAtStart == {}

EngineStarts ==
  /\ ~Up /\ runner.up /\ day = "entries" /\ run < MaxRuns
  /\ run' = run + 1
  /\ eng' = [Down EXCEPT !.at = "sleep", !.young = TRUE]
  /\ floor' = FloorAtStart
  /\ broken' = [s \in Steps |-> 0]
  /\ UNCHANGED <<log, age, verdict, runner, row, qty, day, firedIn, enteredIn, used>>

EngineDies ==
  /\ Up /\ Spend
  /\ eng' = Down
  /\ UNCHANGED <<log, age, verdict, runner, floor, row, qty, day, run, firedIn, enteredIn, broken>>

\* FeedMonitor.check over the status file: no key of a last tick is in it, so
\* updated_at is taken.  The file is rewritten in place: half of it reads as
\* none.
FeedHealthy(torn) == ~torn /\ runner.written < FeedStale

ReadsStatus(healthy) ==
  \/ healthy = FeedHealthy(FALSE) /\ UNCHANGED used
  \/ healthy = FALSE /\ FeedHealthy(FALSE) /\ runner.up /\ Spend

\* Mutant: a failing protection holds nothing back.
ReconcileEscalated(fails) == fails["drive_open_orders"] >= Threshold["drive_open_orders"]

\* should_auto_pause
AutoPause(fails) == \E s \in Steps : fails[s] >= Threshold[s]

TickBegins ==
  /\ eng.at = "sleep" /\ ~eng.ticked
  /\ \E healthy \in BOOLEAN :
       /\ ReadsStatus(healthy)
       /\ eng' = [eng EXCEPT !.at = "drive_open_orders", !.ticked = TRUE,
                    !.paused = ~healthy \/ (AutoPause(eng.fails) /\ @)]
  /\ UNCHANGED <<log, age, verdict, runner, floor, row, qty, day, run, firedIn, enteredIn, broken>>

\* Mutant: the streak outlives a success.
StreakStays(n) == n

\* record_success
Cleared(n) == 0

\* run_step: an escalated step pauses entries at once.
StepDone(step, next) ==
  /\ eng' = [eng EXCEPT !.at = next, !.fails[step] = Cleared(@)]
  /\ broken' = [broken EXCEPT ![step] = 0]

StepFails(step, next) ==
  /\ Spend
  /\ LET fails == [eng.fails EXCEPT ![step] = Older(@, Threshold[step])]
     IN eng' = [eng EXCEPT !.at = next, !.fails = fails, !.paused = @ \/ AutoPause(fails)]
  /\ broken' = [broken EXCEPT ![step] = Older(@, Threshold[step])]

\* A read of the broker that fails ends the step with success.
Reconcile ==
  /\ eng.at = "drive_open_orders"
  /\ \/ /\ StepDone("drive_open_orders", "ensure_protection")
        /\ \/ UNCHANGED <<row, qty, used>>
           \/ \E t \in Open :
                /\ Spend
                /\ row' = [row EXCEPT ![t] = "closed"]
                /\ qty' = [qty EXCEPT ![t] = 0]
     \/ /\ Open # {} /\ StepFails("drive_open_orders", "ensure_protection")
        /\ UNCHANGED <<row, qty>>
  /\ UNCHANGED <<log, age, verdict, runner, floor, day, run, firedIn, enteredIn>>

Protect ==
  /\ eng.at = "ensure_protection"
  /\ \/ StepDone("ensure_protection", "handle_commands") /\ UNCHANGED used
     \/ Open # {} /\ StepFails("ensure_protection", "handle_commands")
  /\ UNCHANGED <<log, age, verdict, runner, floor, row, qty, day, run, firedIn, enteredIn>>

\* _candidate_from_row
Candidate(t, class) == [t |-> t, class |-> class]

Waiting == {t \in floor : row[t] = "none"}

\* fetch_triggered_with_vwap_since: each trigger with the verdict of that moment.
Candidates == {Candidate(t, verdict[t]) : t \in Waiting}

\* The joined query fails: the triggers as if none had a verdict yet, or nothing
\* when their own query fails too.
FailedReads == {{Candidate(t, "none") : t \in Waiting}, {}}

\* STOP and START, which is refused after the cutoff.  On a day that is over the
\* tick ends here; otherwise the batch is read, and what of it has no row yet.
CommandsAndCandidates ==
  /\ eng.at = "handle_commands"
  /\ \E stopped \in BOOLEAN, read \in {Candidates} \cup FailedReads :
       /\ eng.stopped /\ ~stopped => day = "entries"
       /\ day = "over" => read = Candidates
       /\ Charge(Cost(stopped # eng.stopped) + Cost(read # Candidates))
       /\ eng' = [eng EXCEPT !.stopped = stopped,
                    !.at = IF day = "over" THEN "sleep" ELSE "ingest_triggers",
                    !.batch = IF day = "over" THEN {} ELSE read]
  /\ UNCHANGED <<log, age, verdict, runner, floor, row, qty, day, run, firedIn, enteredIn, broken>>

Tier(class) == CASE class = "ACCEPT" -> 0 [] class = "LIMITED" -> 1 [] OTHER -> 2

\* _sort_key: by tier, the stronger breakout within it, then in order of
\* arrival.
Before(c, d) ==
  \/ Tier(c.class) < Tier(d.class)
  \/ Tier(c.class) = Tier(d.class) /\ Ratio[c.t] > Ratio[d.t]
  \/ Tier(c.class) = Tier(d.class) /\ Ratio[c.t] = Ratio[d.t] /\ Rank(c.t) <= Rank(d.t)

Best(c) == c \in eng.batch /\ \A d \in eng.batch : Before(c, d)

\* remaining_capital_rupees of what the open positions use
Available == Capital - MapThenSumSet(LAMBDA t : qty[t], Open)

\* RiskCappedSizing.decide: by the risk cap, or by what capital is left.
Sized(class) == Min({Wants[class], Available})

\* The stop, the symbol, the margin or the broker refuses.
Refused == FeedHealthy(FALSE) /\ Spend

\* handle_trigger returns: the row is not written, and the next tick reads the
\* candidate again.
Leaves(c) ==
  /\ \/ eng.paused \/ eng.stopped
     \/ c.class = "none" /\ age[c.t] < VwapWait
  /\ UNCHANGED <<row, qty, enteredIn, used>>

Skips(t) == row' = [row EXCEPT ![t] = "skipped"] /\ UNCHANGED <<qty, enteredIn>>

\* A verdict that allows no entry, or none in time; nothing left to size with;
\* the gate: too late, or a second look at the feed; a refusal.  A skip is for
\* good.
TurnsDown(c) ==
  /\ ~eng.paused /\ ~eng.stopped
  /\ Skips(c.t)
  /\ \/ c.class = "none" /\ age[c.t] >= VwapWait /\ UNCHANGED used
     \/ c.class = "REJECT" /\ UNCHANGED used
     \/ /\ c.class \in EntryClasses
        /\ \/ Available <= 0 /\ UNCHANGED used
           \/ Available > 0 /\ day # "entries" /\ UNCHANGED used
           \/ Available > 0 /\ day = "entries" /\ ReadsStatus(FALSE)
           \/ Available > 0 /\ day = "entries" /\ Refused

\* submit_entry
Enters(c) ==
  /\ ~eng.paused /\ ~eng.stopped
  /\ c.class \in EntryClasses /\ Available > 0 /\ day = "entries" /\ FeedHealthy(FALSE)
  /\ row' = [row EXCEPT ![c.t] = "entered"]
  /\ qty' = [qty EXCEPT ![c.t] = Sized(c.class)]
  /\ enteredIn' = [enteredIn EXCEPT ![c.t] = run]
  /\ UNCHANGED used

HandleTrigger ==
  /\ eng.at = "ingest_triggers"
  /\ \E c \in eng.batch :
       /\ Best(c)
       /\ eng' = [eng EXCEPT !.batch = @ \ {c}]
       /\ Leaves(c) \/ TurnsDown(c) \/ Enters(c)
  /\ UNCHANGED <<log, age, verdict, runner, floor, day, run, firedIn, broken>>

\* The end of the step, or its failure, which costs the rest of the batch a tick.
TickEnds ==
  /\ eng.at = "ingest_triggers"
  /\ \/ eng.batch = {} /\ UNCHANGED used
     \/ eng.batch # {} /\ Spend
  /\ eng' = [eng EXCEPT !.at = "sleep", !.batch = {}]
  /\ UNCHANGED <<log, age, verdict, runner, floor, row, qty, day, run, firedIn, enteredIn, broken>>

-----------------------------------------------------------------------------
(* The clock. *)

\* next_sleep_seconds: a tick that overran is followed by the next at once.
Second ==
  /\ runner.up => runner.slept < WriteEvery
  /\ \/ ~Up /\ UNCHANGED used
     \/ eng.at = "sleep" /\ eng.ticked /\ UNCHANGED used
     \/ Up /\ eng.at # "sleep" /\ eng.ticked /\ Spend
  /\ age' = [t \in Triggers |-> IF t \in Fired THEN Older(age[t], VwapWait) ELSE 0]
  /\ runner' = [runner EXCEPT !.written = Older(@, FeedStale),
                  !.ticked = IF runner.feed THEN 0 ELSE Older(@, FeedStale),
                  !.slept = IF runner.up THEN Older(@, WriteEvery) ELSE @]
  /\ eng' = [eng EXCEPT !.ticked = FALSE, !.young = FALSE]
  /\ UNCHANGED <<log, verdict, floor, row, qty, day, run, firedIn, enteredIn, broken>>

\* 14:00, and the end of the day
DayMoves ==
  /\ day # "over" /\ Spend
  /\ day' = IF day = "entries" THEN "late" ELSE "over"
  /\ UNCHANGED <<log, age, verdict, runner, eng, floor, row, qty, run, firedIn, enteredIn, broken>>

-----------------------------------------------------------------------------

Init ==
  /\ log = <<>>
  /\ age = [t \in Triggers |-> 0]
  /\ verdict = [t \in Triggers |-> "none"]
  /\ runner = [up |-> TRUE, feed |-> TRUE, ticked |-> 0, written |-> 0, slept |-> 0]
  /\ eng = Down
  /\ floor = {}
  /\ row = [t \in Triggers |-> "none"]
  /\ qty = [t \in Triggers |-> 0]
  /\ day = "entries"
  /\ run = 0
  /\ firedIn = [t \in Triggers |-> 0]
  /\ enteredIn = [t \in Triggers |-> 0]
  /\ broken = [s \in Steps |-> 0]
  /\ used = 0

EngineStep ==
  \/ TickBegins \/ Reconcile \/ Protect \/ CommandsAndCandidates
  \/ HandleTrigger \/ TickEnds

Next ==
  \/ \E t \in Triggers : Fire(t) \/ Judge(t)
  \/ WriteStatus \/ FeedChanges \/ RunnerDies \/ RunnerStarts
  \/ EngineStarts \/ EngineDies \/ EngineStep
  \/ Second \/ DayMoves

Spec == Init /\ [][Next]_vars

\* The loop goes on, the status thread of a living runner too, and time passes.
FairSpec == Spec /\ WF_vars(EngineStep) /\ WF_vars(WriteStatus) /\ WF_vars(Second)
=============================================================================
