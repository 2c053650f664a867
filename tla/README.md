# TLA+ models of the trading bot

This directory holds TLA+ models of the trading program beside it, the TLC
configurations that check them, and TLAPS proofs about them.  File and line
numbers refer to `src/`.

Contents: [the system](#the-system), [modules](#modules),
[model and code](#model-and-code), [properties and runs](#properties-and-runs),
[adversities](#adversities), [fairness](#fairness), [proofs](#proofs),
[findings](#findings), [what is not modelled](#what-is-not-modelled),
[plan](#plan).

## The system

Three long-lived processes trade NSE stocks through Zerodha Kite.  They share
SQLite files, JSON status files and a few lock files, and never call each other.

* The **observation runner** (`live_observation_runner.py`) turns the tick stream
  into candles, spikes, pullback setups and continuation triggers, and writes
  them to the live database.
* The **execution engine** (`run_execution_engine.py`) reads triggers and places
  real orders.  One thread repeats a *tick* about once a second.
* The **API** (`api/`) starts, stops and watches both, queues commands for the
  engine and serves the desk.  A fourth, short-lived process, the **morning
  checklist** (`morning_checklist.py`), rewrites the historical data before the
  session.

| component | state it keeps | operations | what is hard | what makes it correct |
|---|---|---|---|---|
| Engine tick (`engine_core.py`, `engine_runloop.py`) | candidates taken, pause, shutdown reason, loss breach: memory only | `tick`: reconcile, protect, commands, risk and clock, square-off or entries | dies anywhere; each decision acts on rows read before the calls of the same tick | no share is ever untracked, sold twice or reversed; a square-off ends |
| Position store (`engine_store.py`, `engine_orders.py`) | `positions`: one row per setup | `save_with_event`, `transition` | the only memory across restarts | every change is in `ALLOWED_TRANSITIONS` |
| Entry (`engine_entry.py`) | none of its own | durable intent, place, look up an ambiguous reply, apply the fill | lost reply, late order book, partial fill | one order per trade; REJECTED and CANCELLED hold nothing |
| Reconciliation (`engine_reconcile.py`) | the truth of this tick | two reads, one decision per row | the reads are not atomic; the positions book nets by symbol | a position is booked closed only when an exit of its own explains it |
| Protection (`engine_protection.py`) | - | place a stop, retry | retries, refused stops | one working stop at most; held shares get covered |
| Exit (`engine_exit.py`) | - | cancel the stop, flatten, attribute, book | the stop fills during the cancel | exits never exceed the entry; booked once, in full, under the true reason |
| Square-off (`engine_squareoff.py`) | progress | one pass over all open rows per tick | calls fail, entries fill late | finished means flat |
| Commands (`engine_commands.py`, `api/routers/execution.py`) | `engine_commands` table | enqueue, read a batch, apply, resolve | applied again after a crash | every command is resolved, its effect happens once |
| Risk and clock (`engine_risk.py`, `engine_clock.py`) | - | loss cap, cutoffs | the breach is in memory only | no entry after the cap |
| Kite port (`trading_engine_broker.py`) | none; the account is Kite's | place, cancel, poll, order book, positions | every reply can be lost, late or wrong | the lookup by tag makes placement idempotent |
| Engine supervision (`api/services/execution_engine_runner.py`, `engine_status.py`) | `execution_engine_status.json` | preflight, spawn, seed the pid, assess | check and spawn are not atomic; zombies | one engine; a clean stop is no crash |
| Observation start and stop (`api/services/observation_runner.py`, `observation_start_lock.py`) | `observation_start.lock.json`, `runner_status.json` | readiness, acquire, spawn, record, reap, stop | several threads, a restarted API, half-written files | one runner; no dead lease blocks for ever |
| Morning checklist (`morning_checklist.py`, `checklist_activity.py`, `checklist_cache.py`, `api/queries/checklist.py`) | `checklist-workflow.lock`, `generation.lock.json`, the day's activity record, the cached checklist, the prepared data | run, stage worker, operation by hand, scan, publish | a killed supervisor leaves its child writing; a scan spans a change; derived data outlive what they came from | ready means prepared; one writer; nobody reads data being rewritten |
| Candle pipeline (`tick_receiver.py`, `one_minute_candle_builder.py`, `live_five_minute_candle_builder.py`, `market_data_coordinator.py`) | a tick queue, the active minute and the bucket of each stock, the coverage | tick, outage, restore, flush, store, tell | four threads; late ticks, gaps, a start inside a minute, a write that fails | no candle claims coverage it lacks; buckets match minutes; strategies hear of stored candles once |
| Pullback engine (`intraday_pullback_engine.py`) | one active setup per stock, mirrored in SQLite | spike, five-minute candle, outcome, session close | several rows per transition, each may fail | memory never leaves the table behind |
| Continuation engine (`intraday_continuation_engine.py`) | armed setups, breakout volume | ready, tick, structural end, close | trigger, break and close meet in one tick | one outcome per setup; no trigger for a broken structure |
| VWAP qualifier (`vwap_*.py`) | minute ledger per stock, arm registry, warm-up queue | arm, disarm, live and historical minute, verdict | a warm-up thread against the tick thread | a verdict rests on every minute up to its trigger |
| Intake of triggers (`trading_engine_handoff.py`, `engine_priority.py`, `engine_feed.py`, `engine_runloop.py`) | floor, streaks, pauses, capital in use | read triggers since the floor, rank, size, wait for the verdict, enter or skip | restarts, late verdicts, a feed judged by a file, failing steps | a process takes nothing from before its start; every trigger is answered |
| Kite login, web accounts, admin configuration (`api/`) | SQLite stores | single statements | - | - |
| Desk frontend, desk marks | - | display | - | - |

**Interaction.**  Runner to engine: rows in the live database and
`runner_status.json`.  Engine to API: heartbeat, stop note and the positions
table.  API to engine: the command table and process creation.  Preparation to
everyone: the databases and the cached checklist.  Everything to Kite: HTTP calls
whose replies may be lost.  Inside the runner, the worker thread calls pipeline,
detector, pullback engine, continuation engine and qualifier in this order, by
callbacks.

The engine and the order path carry the risk, so they came first; then what can
start a second engine or a second runner; then the way a tick takes to become an
entry, and the data it rests on.

## Modules

| module | role |
|---|---|
| `OrderLifecycle` | abstract specification: the nine states and the transition table |
| `KiteBroker` | the account: order book, positions, idempotency lookup, what the exchange and a human do |
| `ExitBooking` | pure operators: which orders are a trade's exits, which closed it, what it realised |
| `ExecutionEngine` | the engine process against `KiteBroker`; extends `ExitBooking` |
| `EngineProperties` | properties, fairness, inductive invariant, refinement of `OrderLifecycle` |
| `MCEngine` | instances for TLC: trades, directions, admitted adversities |
| `ExecutionEngineProofs`, `EngineBookProofs` | its theorems: the engine's own state, then the order book and the account |
| `Supervision` | the API's threads, both processes, their files and locks, the preparation |
| `SupervisionProperties`, `MCSupervision` | its properties and its instances |
| `CandlePipeline` | websocket, health, worker and main thread of the runner, from a tick to a stored bucket |
| `SetupLifecycle` | detector, pullback and continuation engine for one stock, cut at every row they write |
| `VwapLedger` | the qualifier for one stock: registry, ledger, warm-up thread, verdict |
| `ChecklistScan` | pure operators: what a scan makes of the data |
| `Preparation` | the morning run, its workers, operations by hand, the scan and the cache; extends `ChecklistScan` |
| `TriggerIntake` | from a trigger's row to an entry or a skip: runner, status file, engine tick, verdict, capital |
| `CandleProperties`, `SetupProperties`, `VwapProperties`, `PreparationProperties`, `IntakeProperties` and `MCCandles`, `MCSetups`, `MCVwap`, `MCPreparation`, `MCIntake` | their properties and instances |
| `SupervisionProofs`, `CandleProofs`, `SetupProofs`, `VwapProofs`, `PreparationProofs`, `IntakeProofs` | their theorems |

The modules meet where the components do: `TriggerIntake` takes as its inputs what
`SetupLifecycle` and `VwapLedger` produce (a trigger row, a verdict row or none),
replaces the free pause and the free candidates of `ExecutionEngine` by the code
that computes them, and leaves orders to it; `Supervision` treats a preparation as
one stage at a time, which `Preparation` opens up.

## Model and code

**Granularity.**  An engine action is a stretch of `tick()` between two points
where something else can matter: a broker call, a SQLite commit, the next row of
a loop.  `job` is the engine's program counter: the step, the trade in hand, the
id and the outcome of the last call, the rows still ahead.  Between any two
actions the exchange, a human in Kite, the API or the clock may act, and the
process may die.  `row`, `pnl` and `cmds` survive that; `eng`, `job` and `truth`
do not.

| code | model |
|---|---|
| `positions` table | `row[t]`: `state`, `qty`, order ids, adopted price, exit reason, what was booked; `pnl[t]` |
| `engine_commands` table | `cmds` |
| `ExecutionEngine` object, process | `eng` (`paused`, `stopped`, shutdown reason, `breached`, `done`, `proc`) |
| `BrokerTruth` | `truth`, filled by two reads, positions first |
| Kite's order book and positions | `orders`, whose index is the order id, and `net` |
| IST clock | `phase`: before 14:00, 14:00, 14:50, 15:05, 15:30 |
| `tick()` | `TickStart`, `FetchBrokerTruth`, `Reconcile*`, `PlaceStop`/`SaveStop`, `ApplySwitch`/`ApplyClose`, `SquareoffRow`, `Intend`...`SaveFill`, the `End*` of each step |
| `flatten` | `CancelStop`, `SendExit`, `SaveExit`, from whichever step called it |
| `submit_entry` | `Intend` (durable row), `SendEntry`, `ResolveEntry` (lookup), `RejectEntry`/`SaveEntry`, `SaveFill` |
| `place_market_mis`, `place_slm` | `Send`: `Existing` (lookup by tag), else `Place`, with each way a reply can read |

**Data.**  A quantity is a small number of shares.  A price is one bit: bad (a fill past
1.5 times the cap, an exit at a loss) or not; money is one unit a share.  A tag is
the pair (trade, kind).  Sizing, margins and ranking become the freedom to skip a
candidate.  The automatic pause after repeated step failures is here a pause that may
happen at any tick; `TriggerIntake` has the counters behind it.

**Supervision.**  An action is a stretch of a request between two points where
another thread or process can matter: acquiring the lease, writing it, the second
look, the spawn, recording the pid; preflight, spawn, seeding.  A process is
`starting`, `up`, `wedged` (alive and silent), `stopping`, `zombie` (dead, its
parent has not waited) or `gone`.  A heartbeat is a pid and whether it is fresh;
ageing is an action.  Reaping is modelled as Python does it: the runner's thread
waits for it; an engine is reaped only by the next `Popen` of the API.

| code | model |
|---|---|
| `observation_start.lock.json` | `lease`: `empty` between create and write, `held`, `old` past 120 s |
| `runner_status.json`, `execution_engine_status.json` | `rstat`, `estat`, which may start as the day before left them |
| `_start_observation_runner` | `Readiness`, `Acquire`, `WriteLease`, `Recheck`, `SpawnRunner`, `RecordRunner` |
| `_start_engine` | `Preflight`, `SpawnEngine`, `SeedPid` |
| `is_runner_running`, `assess`, `engine_is_running`, `ensure_market_data_idle` | `RunnerRunning`, `Verdict`, `EngineRunning`, `MarketDataIdle` |
| `workflow_lock` | `Admitted` (shared), `Exclusive`: the child's inherited descriptor keeps it |
| `morning_checklist.run` | `PrepStarts`, `PrepStage` (idle check, child), `PrepStageEnds`, `PrepKilled` |

**Candles.**  An action is what one thread does between two points where another may
act.  The clock counts minutes, the exchange stamps ticks at `PerMinute` instants.

| code | model |
|---|---|
| `TickReceiver`: continuity state, queue, fatal error | `recv`, `queue`; `WsTick`, `WsRestores`, `WsClose`, `HealthCheck`, `HealthTransition`, `HealthCallback` |
| `OneMinuteCandleBuilder`: active candle, volume state, coverage | `active`, `vol`, `since`; `WorkerSkips` ... `WorkerInserts`, `ApplyTick`, `Completed` |
| five-minute builder, coordinator, writers | `buffer`, `EmitOk`, `EmitFatal`, `EmitError`; `rows1`, `rows5` |
| shutdown of the runner | `Stop`, `Join`, `Flush`, `Exit`; `Crash`, `Restart` |

**Setups.**  One worker thread; `job` is the write it does next, so a failure or the
end of the process may come between any two rows.  A setup is named by the minute of
its spike.  A candle is reduced to whether it breaks the impulse and how deep it
retraces, a tick to whether it reaches the trigger.  Of the other stocks only what
they share with this one is there: a failed row of theirs degrades an engine for all,
or ends the close of the session before this stock's turn (`FailsElsewhere`).  `rt`, `slot`, `arm`, `armed` and
`vol` are memory; `spikes`, `setups`, `log`, `arms` and `decisions` are tables.

**VWAP.**  A minute of the ledger is `live`, `hist`, or `part` (fetched while it was
going on).  `told` holds callbacks of the receiver not yet made, in any order.

**Preparation.**  The data are reduced to what stages and scans tell apart
(`Data` in `ChecklistScan`): per stage, missing, present, and derived from the present
history or from an older one, which no scan can see.  `row` is the activity record,
whose revision shows in `Save` making a running scan unpublishable.

**Intake.**  Time runs in whole seconds, the precision of `created_at`; within one,
events are ordered.  `floor` is the set of triggers the query since the floor
returns.  `broken`, `firedIn`, `enteredIn` and `run` are history variables.

**Kite itself** is external, modelled from what the port relies on: orders fill in
part or in full, orders die, the order book shows an order late, cancelling an
order that is not open raises.

## Properties and runs

| run | instance | checks |
|---|---|---|
| `engine_life` | one short trade of 2 shares, whole day, 2 starts, any 3 of 22 adversities | `NoUntrackedExposure`, `RefusedTradesHoldNothing`, `NoOrphanStop`, `ExitsWithinEntry`, `FinishedMeansFlat`, `RowsFollowLifecycle` |
| `engine_reentry` | three trades of one stock, one of them short, loss cap of one losing exit, 2 adversities | `IInv`, `OneOpenTradePerSymbol`, `ClosedBookedInFull`, `CloseReasonIsTrue`, `NoEntryPastLossCap` |
| `engine_repeat` | two trades of one stock, every command, crashes inside calls, lost replies, a human closing too | `AtMostOneEntry`, `AtMostOneStop`, `AtMostOneExit`, `ExitsBookedOnce` |
| `engine_live` | one trade, two commands, to 15:05, 2 adversities, fair | `ShutdownCompletes`, `HeldSharesGetCovered`, `CommandsResolved` |
| `supervision` | 2 threads, 3 spawns, 2 lives of the API, any one of nine adversities, fair | `AtMostOneRunner`, `AtMostOneEngine`, `PreparationAlone`, `NoFalseAlarm`, `RunnerStartUnblocked`, `EngineStartUnblocked` |
| `candles` | 3 minutes, buckets of 2, 4 ticks up to a minute late, one fault, one restart | `NoFalseCoverage`, `BucketsMatchMinutes`, `ToldOnceAfterStore`, `VolumeAddsUp` |
| `setups` | 8 minutes, buckets of 2, up to 3 spikes, 2 faults (of any stock), one restart | `OneOutcome`, `MemoryFollowsLog`, `TriggerEarned`, `SettledAtClose` |
| `vwap` | 2 setups, 3 minutes, one outage, 2 minutes lost, a verdict not written, fair | `VerdictRestsOnMinutes`, `WarmUpEnds` |
| `preparation` | 2 runs, 2 operations by hand, one crash, one generator that skips, 2 attempts per stage, fair | `ReadyMeansPrepared`, `OneWriter`, `PreparationEnds` |
| `intake` | 2 triggers, 2 engines, any 2 disturbances, fair | `NothingFromBeforeStart`, `EscalationHoldsEntries`, `TriggersAnswered` |
| `stop_fill_race`, `feed_masked` (violations) | the smallest instance of each | `NeverReversed`, `DeadFeedPauses`: a promise the code does not keep, see [Findings](#findings) |

What the newer ones show, in words:

* `NoFalseCoverage`: whatever the lag between websocket and worker, a stored minute
  that claims full coverage saw no outage.  `BucketsMatchMinutes`: a stored bucket is
  the roll-up of the stored minutes, over restarts and failed writes.
  `ToldOnceAfterStore`: strategies hear of what is stored, once, in order.
  `VolumeAddsUp`: candles of a process share out the counter without loss or
  repetition, late ticks and repeated finalizing included.
* `OneOutcome` relates two tables written by two engines; `MemoryFollowsLog` relates
  memory and table after every failure; `TriggerEarned` is about the tick that both
  completes the candle breaking a structure and breaks out, and excuses a setup a row
  of which failed or a candle of which a degraded engine left unread (both leave arms
  able to trigger, see [Findings](#findings)); `SettledAtClose` is about
  the close in every state of a setup.
* `VerdictRestsOnMinutes`: warm-up and live minutes cover the session up to the
  trigger, a live one is never replaced by history, and the feed was not known down.
  `WarmUpEnds`: over failures, disarms and new jobs, a warm-up gets ready or is given
  up.
* `ReadyMeansPrepared`: a ready checklist rests on a passed token check, a complete
  history and data derived from it, except for what a generator left out without
  saying so (`left`).  The scan cannot see staleness; the record's dirty stages, the
  revision check and the dropped cache must carry it over crashes and orphans.
* `NothingFromBeforeStart`, `EscalationHoldsEntries`, `TriggersAnswered`: the floor of
  a restarted engine; a feed that recovers does not lift the pause of a failing step;
  no trigger waits for ever for a verdict or for a pause to end.

**Bounds.**  Two shares are the least that fill in part.  Three trades of one
stock are the least in which the exits of one could be booked to the next but one
and a loss stop a third.  Two starts are the least with a restart; each death
costs an adversity, so a third start repeats the second.  Two or three adversities
let a failure meet its own retry.  `LastPhase` ends a run's day where its question
ends.  In `supervision`, two threads race; three spawns are a runner and two
engines, or a runner and its replacement; one fault at a time is the claim.
In `candles`, three minutes and buckets of two give a whole bucket, one cut short and
the last minute before the close; four ticks are a minute with two, a gap and a late
one.  In `setups`, eight minutes are four buckets: an impulse, a pullback, a trigger
and one after it; three minutes with spikes let a second setup follow the first.  In
`vwap`, two setups are the least in which disarming one may drop what the other
needs; three minutes are one before, one at and one after the arm.  In
`preparation`, two runs and two operations are the least in which each meets an
orphan of the other or a record of its own kind; `StagesByHand` leaves out by hand
the two stages that behave as others do.  In `intake`, two triggers
want up to four of a capital of two; thresholds of one and two, a wait of one
second and staleness of two keep every comparison on both sides of its limit.
The size of stocks, minutes and thresholds enters nowhere else.

`CHECK_DEADLOCK FALSE` where a day ends and the process with it (the engine's runs,
`candles`, `setups`, `vwap`) or where nobody need prepare again (`preparation`).
`supervision`, `intake` and `feed_masked` check for deadlock.

Between them the passing runs take every action and every disjunct, and for every
property `PROJECT.json` names a mutation of a modelled definition under which that
run finds the property violated.

## Adversities

Everything but the smooth course (a lost reply, a partial fill, a crash, a slow
process) is a pair in the constant `Events` and costs one unit of `budget`, so a
configuration says which adversities it admits and how many per behaviour.  Some
runs leave adversities out because the code does not survive them:

* *Crash inside `submit_entry`, between the call and the commit*
  (`<<"crash", "mid_entry">>`): left out of `engine_life`; its repeats are in
  `engine_repeat`.
* *The stop fills during its cancel*: left out of `engine_life` (run
  `stop_fill_race`).
* *CLOSE_POSITION for an unfilled entry* (`<<"early", "close">>`): left out of
  `engine_life` and `engine_live`.
* *A stop or exit whose reply is lost, or a crash between its call and its commit;
  a stop that fills in part; a human who closes in Kite*: left out of `engine_life` and
  `engine_reentry`; `engine_repeat` admits them, with the properties that survive.
* *An exit rejected after it was accepted* (`<<"rejected", "exit">>`): left out of
  `engine_live`.
* *An accepted stop or exit not yet in the order book*: admitted nowhere; the
  retry of the next tick cannot find it and places another.
* In `supervision`: a start that overlaps another engine start, Stop in a
  runner's startup gap, a torn status file at the second look, a living process
  silent past its limit, a start slower than its lease, an API restart in the
  middle of a start, a child that writes before its pid is recorded.  Admitting
  any one of them breaks a property of the run.
* In `candles`, `Lags = FALSE`: no thread is overtaken between the receiver's state
  and its callback, nor between reading the coverage and adding the candle.  With
  `Lags = TRUE` `NoFalseCoverage` fails: a minute begun just before an outage or a
  stop, with the coverage read just before, claims to be covered.
* In `preparation`, `TradingDay = TRUE`: on a closed day `ReadyMeansPrepared` fails
  (see [Findings](#findings)).

The modules of the second half have integer bounds instead of `Events`
(`MaxFaults`, `MaxFlaps`, `MaxCrashes`, `MaxEvents` ...), each named where it is
declared.

## Fairness

*Engine* (`FairSpec` in `EngineProperties`): weak fairness of `Tick`, as `run()`
ticks in a loop until it stops; of MARKET orders executing, as the exchange fills
them in the session; of the order book catching up.  None of the clock, the human,
the API, stop orders, restarts or adversities.

*VWAP*: weak fairness of the worker's next step within a call and of the scheduler
thread.  None of candles, arms, outages or callbacks.

*Preparation*: weak fairness of the supervisor, of a worker and of an operation by
hand that has begun: processes run, and end, since each wait in the code has a
timeout (`run_child`, `GENERATION_TIMEOUT_SECONDS`).  None of starts, scans or the
clock.

*Intake*: weak fairness of the engine's next step (`run()` loops), of the status
thread of a living runner, and of time.  None of restarts, verdicts, feed or
commands.

*Supervision*: weak fairness of each thread's next step, of each runner's reaping
thread, and of ageing where it costs no adversity: time passes.  None of requests,
processes, the preparation or the API.

## Proofs

Each theorem holds for every value of the constants that satisfies the module's
`ASSUME` (TLC evaluates these in every run): `BrokerAssumption` (trades have a symbol
and a direction, `NoTrade` is none of them, `Events` is finite), `EngineAssumption` (a
positive lot and loss cap), `IntakeAssumption`, `SupervisionAssumption`,
`CandleAssumption`, `SetupAssumption`, `VwapAssumption`, `PreparationAssumption`
(positive thresholds, lengths and limits; finitely many threads and adversities; the
session begins before it ends).  So no bound is fixed: not the number of trades,
orders, starts, threads, minutes, ticks, failures or restarts.

| module | theorem | statement |
|---|---|---|
| `ExecutionEngineProofs` | `Inductive`, `TypeCorrect` | `Spec => []IInv`, `Spec => []TypeOK` |
| | `EntriesOnce` | `Spec => []AtMostOneEntry` |
| | `RowsFollow` | `Spec => RowsFollowLifecycle`: the engine implements `OrderLifecycle` |
| | `OneTradePerSymbol` | `Spec => []OneOpenTradePerSymbol` |
| `EngineBookProofs` | `ExitsOnce` | `~CanHide("exit") => (Spec => []AtMostOneExit)` |
| | `StopsOnce` | `~CanHide("stop") => (Spec => []AtMostOneStop)` |
| | `BookedOnce` | `Spec => []ExitsBookedOnce` |
| | `NoEntryPastCap` | `Spec => NoEntryPastLossCap` |
| | `RefusedHoldNothing` | `EntriesAnswered => (Spec => []RefusedTradesHoldNothing)` |
| | `ExposureTracked` | `AccountKnown => (Spec => []NoUntrackedExposure)` |
| | `SoldOnce` | `AccountKnown => (Spec => []ExitsWithinEntry)` |
| | `StopsLeaveWithTrade` | `AccountKnown => (Spec => []NoOrphanStop)` |
| | `BookedInFull` | `AccountKnown => (Spec => []ClosedBookedInFull)` |
| | `ReasonTrue` | `AccountKnown => (Spec => []CloseReasonIsTrue)` |
| | `FinishedFlat` | `AccountKnown => (Spec => []FinishedMeansFlat)` |
| `SupervisionProofs` | `NoAlarmOnPurpose` | `RecordFirst => (Spec => []NoFalseAlarm)` |
| | `EnginesOneAtATime` | `EnginesPunctual => (Spec => []AtMostOneEngine)` |
| | `RunnersOneAtATime` | `RunnersPunctual => (Spec => []AtMostOneRunner)` |
| | `PreparationIsAlone` | both of these `=> (Spec => []PreparationAlone)` |
| `CandleProofs` | `ToldOnce` | `Spec => []ToldOnceAfterStore` |
| | `VolumeCounted` | `Spec => []VolumeAddsUp` |
| | `BucketsRollUp` | `Spec => []BucketsMatchMinutes` |
| | `CoverageIsHonest` | `~Lags => (Spec => []NoFalseCoverage)` |
| `SetupProofs` | `OutcomeIsOne` | `Spec => []OneOutcome` |
| | `MemoryAgrees` | `Spec => []MemoryFollowsLog` |
| | `TriggersAreEarned` | `Spec => []TriggerEarned` |
| | `CloseSettlesAll` | `Spec => []SettledAtClose` |
| `VwapProofs` | `VerdictsRest` | `Spec => []VerdictRestsOnMinutes` |
| `PreparationProofs` | `NobodyWritesBeside` | `Spec => []OneWriter` |
| | `ReadyIsEarned` | `TradingDay => (Spec => []ReadyMeansPrepared)` |
| `IntakeProofs` | `IntakeInvariant` | `Spec => []IntakeInv` |
| | `EntersItsOwnOnly` | `Spec => []NothingFromBeforeStart` |
| | `EscalationIsHeld` | `Spec => EscalationHoldsEntries` |

**Hypotheses.**  A theorem with one names the adversities `Events` must not admit, the
others being free in kind and number; the code fails without it (see
[Adversities](#adversities)), and no run of the property admits what it excludes,
with the one exception named below.

| hypothesis | meaning | in the code |
|---|---|---|
| `CanHide(k)` | an order of kind `k` is accepted and not in the order book | `place_market_mis` and `place_slm` look only at the order book before they send |
| `EntriesAnswered` | the lookup after a lost reply sees the entry and can be read, no entry is cancelled at the exchange, no crash between call and commit | `resolve_ambiguous_entry` looks once, and any other answer is final; a PENDING_ENTRY left by a crash is taken for unsent |
| `AccountKnown` | `EntriesAnswered`; no stop or exit is hidden or its reply lost, no crash between such a call and its commit (`ExitsAnswered`); a stop fills as a whole and not during its cancel (`StopsFillWhole`); nobody closes by hand, or asks to close what has not filled (`HandsOff`) | a stop or exit is looked up only where it is placed again, COMPLETE counts as a confirmed cancel, an exit is sized by the row and a trade told flat by the net quantity of its symbol |
| `RecordFirst` | the child writes no file before the API has recorded its pid | seeding overwrites what the child wrote |
| `EnginesPunctual` | one engine start at a time, a tick within the limit of silence, no API restart between spawn and record | `engine_is_running` trusts the heartbeat; the start has no lock |
| `RunnersPunctual` | `RecordFirst`; a beat within its limit, a start within the lease's, a whole file at the second look, no Stop in the startup gap, no API restart in the middle of a start; and not both a failed hand-over of the lease and an API restart | the lease expires and may be cleared, and the second look takes a torn file for none |
| `~Lags` | no thread is overtaken at the two points of `Prompt` | the receiver's state and its callback are not one lock section |
| `TradingDay` | the exchange trades today | a refused run replaces the record |

`AccountKnown` is no stricter than the code: in an instance with one trade, admitting
any single adversity of it besides those of `engine_life` and `engine_reentry` breaks
at least one of the six properties with a budget of two, and `<<"cancelled", "entry">>`
with one of three (reply lost, filled in part, cancelled before the lookup).  What
remains admitted, in any number: entries slow, filled in part, out of sight, raised,
refused, rejected, filled during their cancel, their reply lost; stops and exits raised,
refused, rejected, cancelled, exits filled in part, stops edited; cancels lost or
raised; bad prices; unreadable reads; crashes at every point but those named; restarts.

Only in the last pair of `RunnersPunctual` is the run less strict: it admits either
adversity, and one at a time.  `PreparationIsAlone` inherits the hypotheses because an
idle check reads the same heartbeats.

**Argument, engine.**  `AtMostOneEntry` is not inductive: it needs that no entry order
exists when the engine is about to send one (`NothingSent`), hence that an order
has a durable row before it (`IntentFirst`), hence that the row in hand still is
the PENDING_ENTRY of this call (`RowInHand`) and that rows a loop has yet to reach
are what they were when it was built (`RowsAhead`).  `JobCoherent`, `RowIds` and
`JobIds` carry these from one step of the tick to the next.  `IInv` is their
conjunction with `TypeOK`, and TLC checks it in `engine_reentry`.  The proof has one
lemma per action, under it one step per conjunct the action can disturb, after the
lemmas about placing, cancelling and executing orders.  `RowsFollow` shows each action
to be a transition of the table or a stutter; one trade per symbol follows from the
re-entry check of `Intend`, since only `Intend` opens a row.

**Argument, order book.**  `EngineBookProofs` first says what one step does to the book
(`Progress`: orders stay, a finished one as it is; `NewOrder`: one may be added, a
human's or one whose lookup found none).  Without hidden orders that is one exit and
one working stop.  `ExitsBookedOnce` needs that what the tick has read is an earlier
state of the book (`BookPast`) and that a row's exits are its own or a human's
(`OwnExits`).  `BelowCap` says that from the check of the cap to the last call of the
tick no row has closed.  `RefusedTradesHoldNothing` follows the entry through call,
lookup and cancel: at each place where the engine is about to write REJECTED or
CANCELLED nothing was bought.

**Argument, account.**  The six properties of the account hold of `Standing`: `IInv`,
`RefusedInv`, one open trade per symbol, and `AccountInv`, whose parts need one another.

* `NetTrue`: the account holds of a symbol what its one open trade bought less what one
  order sold, and nothing where no trade is open.  One step moves one order and the net
  quantity together (`AccountStep`), so this needs that only orders of open trades can
  move (`WorkingIsOpen`) and that a row leaves the open ones flat (`ClosingIsFlat`).
* `TradesTrue`: nothing is sold before the entry is settled, then by at most one order,
  for all of it; a row kept knows its size and its stop, a row being sold has no stop, a
  closed one is booked with the order that sold it.  The row is one commit behind the
  broker, so the reply in hand is part of it (`HandTrue`): what the tick saves is true
  of the book when it saves it.
* `TruthTells`: the positions and the order book are two reads.  A fill between them
  can only be one the order book shows and the positions do not, as the positions come
  first and orders only move forward (`BookBehind`); so a trade told flat has in the book
  the order that sold it, and one told held is of its full size.
* `CloseKnown`, `EndTrue`: a close command is about a position, and the process ends by
  its own square-off only without an open row.

The sums (`FilledOf`, `ExitsWithinEntry`) have one term that is not zero, since one entry
and one seller is all there is.  Such a sum needs no induction over data: its defining
equation has the solution `OneOf`, and by well-foundedness of the sizes of subsets no
second one (`SumsUpOnce`), so the `CHOOSE` behind `MapThenSumSet` is that one
(`SumOfOne`).  `ExposureTracked` contains that no account is reversed
(`NeverReversed`): the reversal of `stop_fill_race` takes an adversity `AccountKnown`
excludes.

**Argument, supervision.**  `Base` (types, and that a pid is unused or belongs to one
process) is inductive by itself.  `AlarmInv`: the engine on file that ended on purpose
has its note there.  `EngineInv`: an engine at work is the one on file or the one a
request is about to put there.  `RunnerInv` hands the exclusion over: the lease, while
no heartbeat is fresh (`LeaseExcludes`, `BootIsCovered`), then the heartbeat
(`BeatsOnFile`).  `PrepInv`: who has the lock exclusively has nobody in a request.

**Argument, candles.**  `OrderInv`: what is being built or about to be is newer than what
was emitted, so strategies hear of each minute once.  `VolumeInv` is the counter at
each place of the worker: the segment of the candle being built, or the gap between
two.  `BucketInv`: a row of each minute of a bucket's span is stored, and rows never
change.  `FeedInv` and `CoverInv`: every tick in hand is of a minute before the one
from which coverage begins, and no gap lies behind it.

**Argument, setups.**  One worker writes everything, so the invariant says what holds at
each place it may be cut: which setup is in hand and in which state (`SlotInv`), that
its minute is not over (`TimeInv`), that a new setup has no trace (`FreshInv`), that
its log and its runtime agree (`LogInv`, which contains `OneOutcome`), that what is
armed was READY and what is broken ends before the next tick, or a row or a candle of
it was passed over (`EarnedInv`), and, while
nothing failed, that nothing is open after the close (`SettleInv`).

**Argument, VWAP.**  A minute of the ledger is replaced only by its own whole candle,
which the history then leaves alone (`KeptAreLive`); candles come in the order of
their minutes, so none that comes after a verdict is about a minute the verdict used
(`Rests`).

**Argument, preparation.**  `OneSide`: the supervisor with its worker, and the operation
by hand with its generator, are never both there.  Only `RunStarts` and `ManualStarts`
bring a side in, and both need the lock free of openers and of their children.
`InStep`: each waits for its own process, and the record runs while a side is there.
`Derivation`: derived data lie beside a history that allows them, and where they are
older than it their stage is dirty or was left out; a historical stage dirties them
before its process starts, and a finished process has made its own stage fresh.
`Honest`: while nobody prepares, an `ok` that is cached, or in a scan's hand, is true
of the data; a change of the record discards the scan, and the data change only under
a record that runs.

**Argument, intake.**  `NothingFromBeforeStart` speaks of history; it becomes inductive
with what the process remembers: what is at or above the floor of a living process
fired while it was up (`FloorIsOfThisRun`), a batch is above the floor
(`BatchAboveFloor`), and what was entered has fired (`EnteredHasFired`), so that a
later row cannot change it.  `EscalationHoldsEntries` needs that the process's counts
are the true ones and that an escalated process is paused (`CountsAreTrue`): a
failure pauses at once, and a tick lifts a pause only when nothing is escalated.

**Only model-checked**: liveness (fairness and ENABLED are beyond the prover).  Every
invariant and action property of a passing run is stated by a theorem, those of the
account under `AccountKnown`.  How the six properties do without it, where more than one
order may sell a trade, is a sum with several terms; the code breaks them there.

## Findings

Shown by runs, with the lines quoted in `PROJECT.json`:

| run | what happens |
|---|---|
| `stop_fill_race` | COMPLETE counts as a confirmed cancel, so the market exit follows a stop that filled: the account is reversed |
| `feed_masked` | `run_execution_engine.py:171` looks for `last_tick_at` or `last_tick`; the runner writes `last_tick_time` (`api/runner_status.py:29`), so the feed check falls back to `updated_at`, which a living runner rewrites every two seconds whatever its socket delivers; a dead feed pauses nothing, against the docstring at 150-152 |

Met while modelling, without a run of their own.  Orders and supervision:

* A process that dies between Kite's acceptance of an entry and the commit of
  ENTRY_SUBMITTED leaves a PENDING_ENTRY row with a live order.  Reconciliation leaves
  PENDING_ENTRY alone (`engine_reconcile.py:233-235`) and the square-off records it
  CANCELLED without asking Kite (`engine_squareoff.py:147`), although
  `engine_entry.py:355-357` says the durable intent "is what turns a crash
  mid-submission into reconciliation instead of [...] a silently lost position".
* CLOSE_POSITION for an entry still working sends a market exit for shares nobody holds
  (`engine_core.py:773`); the exit may execute first and reverse the account.
* An exit Kite rejects after accepting it is found by its tag for ever and never
  replaced: the square-off never ends (`engine_squareoff.py:113`).
* Nothing waits for the engine child (`execution_engine_runner.py:238`): its zombie
  answers `os.kill(pid, 0)` and every later preparation is refused until the API spawns
  something else or restarts, against `engine_status.py:149-154`.
* A hung runner is replaced and its pid overwritten; later a preparation rewrites data
  under it, although `checklist_activity.py:35` says "A stale heartbeat does not make
  it safe to rewrite a live process's data".
* An accepted stop that the order book does not show yet is placed again, although
  `engine_protection.py:36` says it "must not place a second stop"; a stop whose
  reply was lost, or that fills in that window, likewise.
* An exit whose reply was lost leaves its row PROTECTED or ENTERED: the row may be
  protected again behind its own exit.  A second close of an exit not yet in the
  order book sends a second one.
* An entry that neither the reply nor the one lookup shows is recorded REJECTED
  while it may be live (`engine_entry.py:401-420`).
* A human close in Kite leaves the engine's stop working.
* A stop Kite rejects after 15:05 is not replaced, and the row not flattened.
* At 15:30 the process ends with a clean stop note and rows still open
  (`run_execution_engine.py:309-313`).  After 14:00 a dead engine cannot be
  started again, even with positions open.
* A failed flatten after abnormal slippage is followed, on the next tick, by a stop.
* `order_margins` raising stops the entry (`engine_core.py:372-393`), where the
  broker means it to degrade.
* Two engine starts whose requests overlap both pass the preflight
  (`execution_engine_runner.py:249` only covers one after the other).
* Stop, while a runner is starting, takes the pid of the runner before it from the
  status file, reports "already stopped" and releases the living runner's lease.
* A lease judged dead by one thread can be unlinked by it after another has taken a
  new one; an API death between create and write leaves an empty lease that blocks
  starts until a heartbeat.
* A command left pending is applied by the next engine, even the next day's.
* A tick longer than 8 s makes a living engine "crashed", and a second one
  startable.

Runner:

* `intraday_pullback_engine.py:4-5` says "Persistence failure degrades the subsystem -
  no further unpersisted transitions", but the handlers (`except
  (PullbackConflictError, RuntimeError)`, 757) do not catch the
  `sqlite3.OperationalError` the writer raises: the engine goes on undegraded, and a
  failed SPIKE_EXTREME_BREACHED row discards the evaluation of that candle.
* A setup in the band whose count passes the maximum is monitored for ever; a failed
  freeze of the impulse ends as CANCELLED "missing_impulse_candle"; nothing is
  restored at a restart; a degraded pullback engine leaves armed setups able to
  trigger, and one flag degrades it for every stock (`intraday_pullback_engine.py:86`);
  a database error on one stock's row at the close leaves the stocks after it open
  (`intraday_pullback_engine.py:691-708`); after a gap, the breakout volume in progress may be of an earlier minute
  (`intraday_continuation_engine.py`, `VolumeAfter`).
* `vwap_arm_registry.py:2` and `vwap_qualifier_v2.py:4` promise an "armed-symbol"
  cache; a TRIGGERED or REJECTED setup is never disarmed, so its ledger stays for the
  day.  The warm-up ends at the next full minute, so the minute in progress is stored
  as history (`vwap_qualifier_v2.py:182-186`).  A failed job put back overwrites a
  newer pending one (`vwap_historical_scheduler.py:259`).  Callbacks of an outage and
  its end made by two threads in the other order leave the feed marked stale until
  the next outage ends (`tick_receiver.py:352`).
* A graceful stop inside a minute stores a partial row, and a restart in that minute
  conflicts with it, which is fatal.  The last candle of a stopped process is always
  partial.  `market_data_coordinator.py:5` says a five-minute write is fatal on
  conflict; the RuntimeError it raises is swallowed by the worker, which loses the
  tick and finalizes the minute again.

Preparation:

* On a closed day the timer's refused run overwrites the record (`save_activity`,
  `morning_checklist.py:194-196`) and with it the dirty stages of a repair by hand; the
  next page then publishes `ok` over stale baselines, although
  `Reference/morning_checklist.md:94-96` keeps stages dirty until regenerated.  The
  record is per date, so midnight has the same effect while the prior session stays.
* The generators of baselines and five-minute candles pass over a stock that fails and
  exit with success, upon which the stage is no longer dirty
  (`checklist_activity.py:177-178`).  `historical_collector.py` does the same.
* An operation by hand drops the record's attempts, so "three attempts per stage/day"
  (`Reference/morning_checklist.md:88`) starts again; and each start of the supervisor
  costs an attempt of the token stage even when it succeeds.  A crash after the cache
  is written and before the record is completed leaves it blocked.

Intake:

* A torn read of the status file at the entry gate (`engine_core.py:365`; the file is
  not written atomically, `api/runner_status.py:44`) skips the trade for good.
* Triggers left undecided by a pause or a STOP are entered however old when it lifts:
  no age is checked.  With one overrun tick a missing verdict gets a single look,
  where `engine_core.py:98-103` says "check now, check once more".
* An ACCEPT whose verdict is not yet written loses the capital to a LIMITED one read
  in the same second.  When the joined query fails the verdicts are read as missing
  (`trading_engine_handoff.py:198-206`), so a trigger judged long before is skipped as
  unavailable.  A failed read of the broker counts as a success of the step
  (`engine_core.py:413-419`).  An exception of `append_event` in the escalation
  handler ends the process before it has paused (`engine_core.py:261`).

## What is not modelled

* Stop prices, spike rules, pullback geometry, VWAP and baseline arithmetic:
  floating-point formulas; the models choose their outcome freely.
* The desk's live profit, event diary, audit columns, wording of checklists, frontend:
  display.
* SQLite failures inside the engine: each aborts a step, which `run_step` catches.
* Limit entries, `modify_slm`, touch quotes: no caller in the engine.
  `on_trade_executed` and `record_continuation_attempt`: no caller in the runner.
* In `CandlePipeline`: the queue's sentinel, the five-second limit of the join, the day
  roll-over.  In `Preparation`: other block reasons of the calendar, EMA and reliability
  warnings, missing database files, contention for the shared lock, the change of day.
* Web accounts, admin configuration: single statements behind the web framework, and no
  production caller changes the configuration.  Kite's HTTP login.  Pid reuse, and
  stops aimed at the API's own pid, in `Supervision`.

## Plan

Done: every module of the table above, with the theorems of [Proofs](#proofs).  Left, in
this order:

1. A refinement of the pause and the candidates of `ExecutionEngine` by
   `TriggerIntake`, and of the one-stage preparation of `Supervision` by `Preparation`.
2. `ExitBooking` against a reference definition over bounded order books.
