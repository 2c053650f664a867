------------------------------- MODULE Preparation -------------------------------
(***************************************************************************)
(* The preparation of the day's data, from the token to the five-minute    *)
(* candles: by the morning supervisor and the worker it runs per stage, or *)
(* by hand from the page; and the cached checklist that lets observation   *)
(* start.                                                                  *)
(*                                                                         *)
(* Whoever prepares holds the workflow lock, and so does each process it   *)
(* starts, since it inherits the descriptor: `worker' is the child of the  *)
(* supervisor, `gen' the generator the API runs for an operation by hand.  *)
(* Either may outlive the one that started it.                             *)
(***************************************************************************)
EXTENDS ChecklistScan, FiniteSets

CONSTANTS
  TradingDay,   \* the exchange trades today
  MaxAttempts,  \* attempts per stage
  StagesByHand, \* bound: the stages that are done by hand
  MaxRuns,      \* bound: starts of the supervisor
  MaxManual,    \* bound: operations by hand
  MaxCrashes,   \* bound: deaths of the supervisor or of the API
  MaxSkips      \* bound: stocks a generator leaves out with no failure

ASSUME PreparationAssumption ==
  /\ TradingDay \in BOOLEAN /\ MaxAttempts \in Nat \ {0} /\ StagesByHand \subseteq Stages
  /\ \A n \in {MaxRuns, MaxManual, MaxCrashes, MaxSkips} : n \in Nat

VARIABLES
  phase,       \* of the day, which is from 08:40 on: up to 09:15, or after
  data,        \* what the databases and the token cache hold
  row,         \* today's activity record
  cache,       \* the cached checklist: none, ok, or one that is not ok
  sup,         \* what the supervisor is at
  worker,      \* the child of the supervisor, possibly orphaned
  man,         \* the operation by hand
  gen,         \* its generator, possibly orphaned
  glock,       \* generation.lock.json: free, or whose pid is in it
  page,        \* a scan for the page
  left,        \* history: stages whose generator left stocks out
  used         \* how often each bounded event has happened

vars == <<phase, data, row, cache, sup, worker, man, gen, glock, page, left, used>>

NoTries == [s \in Stages |-> 0]
NoRow == [source |-> "none", status |-> "none", dirty |-> {}, attempts |-> NoTries]
SupOff == [at |-> "off", i |-> 1, ok |-> {}, pending |-> FALSE]
NoProcess == [at |-> "none", stage |-> "kite", out |-> "none"]
NoMan == [at |-> "off", stage |-> "kite", ok |-> FALSE, checked |-> FALSE]
NoPage == [at |-> "idle", before |-> "none", ok |-> TRUE]

Spend(what) == used[what] < [run |-> MaxRuns, manual |-> MaxManual, crash |-> MaxCrashes,
                             skip |-> MaxSkips][what]
               /\ used' = [used EXCEPT ![what] = @ + 1]

OpenerHolds == sup.at # "off" \/ man.at # "off"

\* workflow_busy: the lock is held by its opener or by a child of it.
Busy == sup.at # "off" \/ worker.at # "none" \/ man.at # "off" \/ gen.at # "none"

StillRunning == row.status

\* read_activity: a record that runs with nobody at work was interrupted.
Shown == IF row.status = "running" /\ ~Busy THEN "interrupted" ELSE row.status

\* activity_blocks_readiness
Blocks == Shown \in {"running", "blocked", "interrupted"} \/ row.dirty # {}

\* read_checklist_cache, and what compute_readiness makes of it.
Ready == ~Busy /\ ~Blocks /\ cache = "ok"

\* A scan that began at another revision of the record is not published.
Crossed == NoPage

\* save_activity gives the record a new revision.
Save(r) == row' = r /\ page' = Crossed

\* write_checklist_cache
Written(ok) == cache' = IF ok THEN "ok" ELSE "not_ok"

\* acquire_generation_lock finds a living pid in the file.
GenLockBusy == glock \in {"worker", "api"}

\* The file is created with the pid of its owner, who alone removes it.
TakesGenLock(who) == ~GenLockBusy /\ glock' = who
ReleasesGenLock(who) == glock' = IF glock = who THEN "free" ELSE glock

NotDirtied(dirty, stage) == dirty

\* What the preparation of a source makes of the stages derived from it.
WithDerived(dirty, stage) == IF stage \in Sources THEN dirty \cup Derived ELSE dirty

-----------------------------------------------------------------------------
(* What the collectors and generators do to the data. *)

Outdated(x) == IF x = "fresh" THEN "stale" ELSE x

AtLeast(h) == [behind |-> {"behind", "gapped", "full"}, gapped |-> {"gapped", "full"},
               full |-> {"full"}][h]

\* repair_history replaces the sessions that lack minutes, one stock at a
\* time, and deletes the five-minute candles of what it replaces.
Repaired(d) ==
  UNION {{[d EXCEPT !.historical = h, !.baselines = Outdated(@), !.five = f] :
            h \in AtLeast(d.historical)} : f \in {"none", Outdated(d.five)}}

\* collect_historical adds the rows that are missing, and passes over what
\* it fails to fetch.
Collected(d) ==
  {[d EXCEPT !.historical = h, !.baselines = Outdated(@), !.five = Outdated(@)] :
     h \in AtLeast(d.historical)} \cup {d}

\* generate_baselines: no rows for the prior session when it is not complete.
WithBaselines(d) == IF d.historical = "behind" THEN d ELSE [d EXCEPT !.baselines = "fresh"]

\* repair_five_minute and generate_five_minute_candles: a bar needs all of
\* its five minutes.
WithFive(d) == IF d.historical = "full" THEN [d EXCEPT !.five = "fresh"] ELSE d

Complete(d, stage) ==
  CASE stage = "instruments" -> [d EXCEPT !.instruments = "full"]
    [] stage = "baselines"   -> WithBaselines(d)
    [] stage = "five-minute" -> WithFive(d)

\* validate_kite: a failed check may leave the last result, and a login that
\* succeeds changes the token, which is then unchecked.
KiteAfter(out) ==
  [ok |-> {"valid"}, failed |-> {data.kite, "unchecked", "invalid"},
   retryable |-> {data.kite, "unchecked"}][out]

\* The data when a process of the stage ends.
DataAfter(stage, out) ==
  CASE stage = "kite" -> {[data EXCEPT !.kite = k] : k \in KiteAfter(out)}
    [] stage \notin {"kite", "historical"} /\ out = "ok" -> {Complete(data, stage)}
    [] OTHER -> {data}

-----------------------------------------------------------------------------
(* The supervisor. *)

Eligibility ==
  IF ~TradingDay THEN "nse_holiday_or_weekend"
  ELSE IF phase # "window" THEN "outside_0840_0915_window" ELSE "none"

AlreadyDone == row.source = "automatic" /\ row.status = "completed" /\ row.dirty = {}

\* run on a closed day, or outside the window with no record of the day.
RunRefused ==
  /\ ~Busy /\ Spend("run")
  /\ ~AlreadyDone /\ Eligibility # "none"
  /\ Eligibility = "outside_0840_0915_window" => row = NoRow
  /\ Save([NoRow EXCEPT !.source = "automatic",
             !.status = IF Eligibility = "nse_holiday_or_weekend" THEN "skipped" ELSE "blocked"])
  /\ UNCHANGED <<phase, data, cache, sup, worker, man, gen, glock, left>>

\* The attempts and the dirty stages of the day's record stay.
Resumed == [row EXCEPT !.source = "automatic", !.status = "running"]

RunStarts ==
  /\ ~Busy /\ Spend("run")
  /\ ~AlreadyDone /\ Eligibility = "none"
  /\ Save(Resumed)
  /\ cache' = "none"
  /\ sup' = [SupOff EXCEPT !.at = "inspect"]
  /\ UNCHANGED <<phase, data, worker, man, gen, glock, left>>

\* The end of run after an exception; stop_child has ended the worker.
Block(r) ==
  /\ sup' = SupOff /\ worker' = NoProcess
  /\ glock' = IF glock = "worker" THEN "dead" ELSE glock
  /\ cache' = "none"
  /\ Save([r EXCEPT !.status = "blocked"])

Seen(at, i) == [at |-> at, i |-> i, pending |-> RepairNeeded(data),
                ok |-> OkStages(SourceAreas(data), DerivedAreas(data))]

\* The first inspection, in a worker that changes nothing.
Inspect ==
  /\ sup.at = "inspect"
  /\ IF phase = "window"
     THEN sup' = Seen("stage", 1) /\ UNCHANGED <<row, cache, worker, glock, page>>
     ELSE Block(row)
  /\ UNCHANGED <<phase, data, man, gen, left, used>>

Current == Stage[sup.i]

Needed ==
  \/ Current = "kite" \/ Current \in row.dirty \/ Current \notin sup.ok
  \/ Current = "historical" /\ sup.pending

StageValid ==
  /\ sup.at = "stage" /\ sup.i <= 5 /\ ~Needed
  /\ Save(row) /\ sup' = [sup EXCEPT !.i = @ + 1]
  /\ UNCHANGED <<phase, data, cache, worker, man, gen, glock, left, used>>

\* The record of a source's stage makes the derived ones dirty before a worker
\* touches the data.
StageBegins ==
  /\ sup.at = "stage" /\ sup.i <= 5 /\ Needed
  /\ LET r == [row EXCEPT !.dirty = WithDerived(@, Current)]
     IN IF row.attempts[Current] >= MaxAttempts THEN Block(r)
        ELSE Save(r) /\ sup' = [sup EXCEPT !.at = "attempt"] /\ UNCHANGED <<cache, worker, glock>>
  /\ UNCHANGED <<phase, data, man, gen, left, used>>

\* The attempt is on record before the worker runs.
Counted == [row EXCEPT !.attempts[Current] = @ + 1]

CountAttempt ==
  /\ sup.at = "attempt"
  /\ Save(Counted) /\ sup' = [sup EXCEPT !.at = "spawn"]
  /\ UNCHANGED <<phase, data, cache, worker, man, gen, glock, left, used>>

\* run_child
Spawn ==
  /\ sup.at = "spawn"
  /\ IF phase = "window"
     THEN /\ worker' = [NoProcess EXCEPT !.at = "new", !.stage = Current]
          /\ sup' = [sup EXCEPT !.at = "await"]
          /\ UNCHANGED <<row, cache, glock, page>>
     ELSE Block(row)
  /\ UNCHANGED <<phase, data, man, gen, left, used>>

\* The worker's answer: on with the next stage, another attempt, or the end.
StageAnswered ==
  /\ sup.at = "await" /\ worker.at = "done"
  /\ CASE worker.out = "ok" ->
            /\ Save([row EXCEPT !.dirty = @ \ {Current}])
            /\ sup' = Seen("stage", sup.i + 1) /\ worker' = NoProcess
            /\ UNCHANGED <<cache, glock>>
       [] worker.out = "retryable" /\ row.attempts[Current] < MaxAttempts /\ phase = "window" ->
            /\ sup' = [sup EXCEPT !.at = "attempt"] /\ worker' = NoProcess
            /\ UNCHANGED <<row, cache, glock, page>>
       [] OTHER -> Block(row)
  /\ UNCHANGED <<phase, data, man, gen, left, used>>

\* 09:15, or a signal, or an exception of the supervisor's own, which
\* ensure_idle raises while observation or execution runs.
Interrupted ==
  /\ sup.at # "off"
  /\ Block(row)
  /\ UNCHANGED <<phase, data, man, gen, left, used>>

Validate ==
  /\ sup.at = "stage" /\ sup.i = 6
  /\ IF /\ phase = "window" /\ row.dirty = {}
        /\ Overall(Seeing(SourceAreas(data)) \cup Seeing(DerivedAreas(data))) = "ok"
     THEN /\ Save(row)
          /\ Written(TRUE) /\ sup' = [sup EXCEPT !.at = "publish"]
          /\ UNCHANGED <<worker, glock>>
     ELSE Block(row)
  /\ UNCHANGED <<phase, data, man, gen, left, used>>

RunCompletes ==
  /\ sup.at = "publish"
  /\ Save([row EXCEPT !.status = "completed"]) /\ sup' = SupOff
  /\ UNCHANGED <<phase, data, cache, worker, man, gen, glock, left, used>>

SupervisorDies ==
  /\ sup.at # "off" /\ Spend("crash")
  /\ sup' = SupOff
  /\ UNCHANGED <<phase, data, row, cache, worker, man, gen, glock, page, left>>

-----------------------------------------------------------------------------
(* The worker of a stage. *)

\* The checks of main, and the generation lock.
WorkerStarts ==
  /\ worker.at = "new"
  /\ IF Eligibility # "none" \/ (worker.stage # "kite" /\ GenLockBusy)
     THEN worker' = [worker EXCEPT !.at = "done", !.out = "failed"] /\ UNCHANGED glock
     ELSE /\ worker' = [worker EXCEPT !.at = "work"]
          /\ IF worker.stage = "kite" THEN UNCHANGED glock ELSE TakesGenLock("worker")
  /\ UNCHANGED <<phase, data, row, cache, sup, man, gen, page, left, used>>

\* Part of a repair is committed.
WorkerWrites ==
  /\ worker.at = "work" /\ worker.stage = "historical" /\ RepairNeeded(data)
  /\ data' \in Repaired(data)
  /\ UNCHANGED <<phase, row, cache, sup, worker, man, gen, glock, page, left, used>>

\* A stage is checked again after the work.  A network error is retryable; a
\* derived stage needs no network.
Validated(stage) ==
  /\ Area(SourceAreas(data'), DerivedAreas(data'), stage) = "ok"
  /\ stage = "historical" => ~RepairNeeded(data')

WorkerEnds ==
  /\ worker.at = "work"
  /\ \E out \in {"ok", "failed", "retryable"} :
       /\ out = "retryable" => worker.stage \notin Derived
       /\ data' \in DataAfter(worker.stage, out)
       /\ out = "ok" => Validated(worker.stage)
       /\ worker' = [worker EXCEPT !.at = "done", !.out = out]
       /\ left' = IF out = "ok" THEN left \ {worker.stage} ELSE left
       \* write_universe_manifest_atomic drops the cache.
       /\ cache' = IF worker.stage = "instruments" /\ out = "ok" THEN "none" ELSE cache
  /\ ReleasesGenLock("worker")
  /\ UNCHANGED <<phase, row, sup, man, gen, page, used>>

\* An orphan exits, or systemd ends it with the rest of the control group.
WorkerGone ==
  /\ sup.at = "off" /\ worker.at # "none"
  /\ worker' = NoProcess
  /\ glock' = IF glock = "worker" THEN "dead" ELSE glock
  /\ UNCHANGED <<phase, data, row, cache, sup, man, gen, page, left, used>>

-----------------------------------------------------------------------------
(* An operation by hand. *)

\* manual_operation: the record is a new one, with the dirty stages of the old.
ManualRecord(stage) ==
  [NoRow EXCEPT !.source = "manual", !.status = "running",
                !.dirty = WithDerived(row.dirty, stage)]

ManualStarts(stage) ==
  /\ ~Busy /\ Spend("manual")
  /\ Save(ManualRecord(stage))
  /\ cache' = "none"
  /\ man' = [NoMan EXCEPT !.at = "open", !.stage = stage]
  /\ UNCHANGED <<phase, data, sup, worker, gen, glock, left>>

\* A login gives a new token, or only begins.
LoginByHand ==
  /\ man.at = "open" /\ man.stage = "kite"
  /\ \E k \in {"unchecked", data.kite} : data' = [data EXCEPT !.kite = k]
  /\ man' = [man EXCEPT !.at = "close", !.ok = TRUE]
  /\ UNCHANGED <<phase, row, cache, sup, worker, gen, glock, page, left, used>>

\* A check of the token.
CheckByHand ==
  /\ man.at = "open" /\ man.stage = "kite"
  /\ \E k \in {"valid", "invalid"} :
       /\ data' = [data EXCEPT !.kite = k]
       /\ man' = [man EXCEPT !.at = "close", !.ok = TRUE, !.checked = (k = "valid")]
  /\ UNCHANGED <<phase, row, cache, sup, worker, gen, glock, page, left, used>>

\* run_local_generation
GenStarts ==
  /\ man.at = "open" /\ man.stage # "kite"
  /\ IF GenLockBusy
     THEN man' = [man EXCEPT !.at = "close"] /\ UNCHANGED <<gen, glock>>
     ELSE /\ man' = [man EXCEPT !.at = "wait"]
          /\ gen' = [NoProcess EXCEPT !.at = "work", !.stage = man.stage]
          /\ TakesGenLock("api")
  /\ UNCHANGED <<phase, data, row, cache, sup, worker, page, left, used>>

GenWrites ==
  /\ gen.at = "work" /\ gen.stage = "historical"
  /\ data' \in Collected(data)
  /\ UNCHANGED <<phase, row, cache, sup, worker, man, gen, glock, page, left, used>>

GenExits(out, skips) ==
  /\ gen' = [gen EXCEPT !.at = "done", !.out = out]
  /\ IF skips THEN Spend("skip") /\ left' = left \cup {gen.stage} /\ UNCHANGED data
     ELSE /\ UNCHANGED used
          /\ data' \in DataAfter(gen.stage, out)
          /\ left' = IF out = "ok" THEN left \ {gen.stage} ELSE left
  /\ cache' = IF gen.stage = "instruments" /\ out = "ok" THEN "none" ELSE cache
  /\ UNCHANGED <<phase, row, sup, worker, man, glock, page>>

\* The generators of derived stages pass over a stock that fails; only the
\* one of the baselines exits with an error, when nothing is as of the prior
\* session.
GenEnds ==
  /\ gen.at = "work"
  /\ \/ GenExits("failed", FALSE)
     \/ /\ gen.stage = "baselines" => data.historical # "behind"
        /\ GenExits("ok", FALSE)
     \/ gen.stage \in Derived /\ GenExits("ok", TRUE)

GenAnswered ==
  /\ man.at = "wait" /\ gen.at = "done"
  /\ man' = [man EXCEPT !.at = "close", !.ok = gen.out = "ok"]
  /\ cache' = IF gen.out = "ok" THEN "none" ELSE cache
  /\ gen' = NoProcess /\ ReleasesGenLock("api")
  /\ UNCHANGED <<phase, data, row, sup, worker, page, left, used>>

\* GENERATION_TIMEOUT_SECONDS
GenTimesOut ==
  /\ man.at = "wait" /\ gen.at = "work"
  /\ man' = [man EXCEPT !.at = "close"]
  /\ gen' = NoProcess /\ ReleasesGenLock("api")
  /\ UNCHANGED <<phase, data, row, cache, sup, worker, page, left, used>>

\* The stage is no longer dirty once its operation has succeeded; a login is
\* not a success until a check of the token has passed.
ManualCloses ==
  /\ man.at = "close"
  /\ IF man.ok /\ (man.stage = "kite" => man.checked)
     THEN Save([row EXCEPT !.status = "completed", !.dirty = @ \ {man.stage}])
     ELSE Save([row EXCEPT !.status = "blocked"])
  /\ man' = NoMan
  /\ UNCHANGED <<phase, data, cache, sup, worker, gen, glock, left, used>>

ApiDies ==
  /\ man.at # "off" \/ page.at # "idle"
  /\ Spend("crash")
  /\ man' = NoMan /\ page' = NoPage
  /\ glock' = IF glock = "api" THEN "dead" ELSE glock
  /\ UNCHANGED <<phase, data, row, cache, sup, worker, gen, left>>

GenGone ==
  /\ man.at = "off" /\ gen.at # "none"
  /\ gen' = NoProcess
  /\ UNCHANGED <<phase, data, row, cache, sup, worker, man, glock, page, left, used>>

-----------------------------------------------------------------------------
(* The page: premarket_checklist. *)

PageReads ==
  /\ page.at = "idle"
  /\ page' = [NoPage EXCEPT !.at = "sources", !.before = Shown]
  /\ UNCHANGED <<phase, data, row, cache, sup, worker, man, gen, glock, left, used>>

PageScansSources ==
  /\ page.at = "sources"
  /\ page' = [page EXCEPT !.at = "derived", !.ok = Seeing(SourceAreas(data)) = {"ok"}]
  /\ UNCHANGED <<phase, data, row, cache, sup, worker, man, gen, glock, left, used>>

\* The derived areas, the record a second time, and its overlay.
PageScansDerived ==
  /\ page.at = "derived"
  /\ page' = [page EXCEPT !.at = "publish",
                !.ok = @ /\ Seeing(DerivedAreas(data)) = {"ok"} /\ ~Blocks]
  /\ UNCHANGED <<phase, data, row, cache, sup, worker, man, gen, glock, left, used>>

\* The lock can be shared, and the record, read a third time, reads the same.
PagePublishes ==
  /\ page.at = "publish"
  /\ IF ~Busy /\ Shown = page.before THEN Written(page.ok) ELSE UNCHANGED cache
  /\ page' = NoPage
  /\ UNCHANGED <<phase, data, row, sup, worker, man, gen, glock, left, used>>

-----------------------------------------------------------------------------
ClockAdvances ==
  /\ phase = "window" /\ phase' = "late"
  /\ UNCHANGED <<data, row, cache, sup, worker, man, gen, glock, page, left, used>>

Supervise ==
  \/ Inspect \/ StageValid \/ StageBegins \/ CountAttempt \/ Spawn \/ StageAnswered
  \/ Interrupted \/ Validate \/ RunCompletes

WorkerStep == WorkerStarts \/ WorkerEnds \/ WorkerGone

ByHand ==
  \/ LoginByHand \/ CheckByHand
  \/ GenStarts \/ GenEnds \/ GenAnswered \/ GenTimesOut \/ ManualCloses \/ GenGone

PageStep == PageReads \/ PageScansSources \/ PageScansDerived \/ PagePublishes

Init ==
  /\ phase = "window"
  /\ \/ data = [kite |-> "unchecked", instruments |-> "old", historical |-> "behind",
                baselines |-> "none", five |-> "none"]
     \/ data = [kite |-> "unchecked", instruments |-> "full", historical |-> "full",
                baselines |-> "fresh", five |-> "fresh"]
  /\ row = NoRow /\ cache = "none" /\ sup = SupOff /\ worker = NoProcess
  /\ man = NoMan /\ gen = NoProcess /\ glock = "free" /\ page = NoPage
  /\ left = {}
  /\ used = [run |-> 0, manual |-> 0, crash |-> 0, skip |-> 0]

Next ==
  \/ RunRefused \/ RunStarts \/ Supervise \/ SupervisorDies
  \/ WorkerStep \/ WorkerWrites
  \/ (\E stage \in StagesByHand : ManualStarts(stage)) \/ ByHand \/ GenWrites \/ ApiDies
  \/ PageStep \/ ClockAdvances

Spec == Init /\ [][Next]_vars

\* Processes run, and end; nobody need start one, and the clock need not move.
FairSpec ==
  /\ Spec
  /\ WF_vars(Supervise) /\ WF_vars(WorkerStep) /\ WF_vars(ByHand)
=============================================================================
