----------------------------- MODULE PreparationProofs -----------------------------
(***************************************************************************)
(* Only one side prepares at a time, and a checklist that is ready stands  *)
(* for prepared data, proved for every number of starts, operations,       *)
(* deaths and attempts.                                                    *)
(*                                                                         *)
(* The workflow lock keeps the two sides apart: an operation by hand       *)
(* begins only when neither the supervisor nor an orphan of it is left,    *)
(* and the other way round, and what starts a process is itself on its     *)
(* side.  So data only change under a record that runs, and when a history *)
(* changes under derived data, the derived stages are dirty already.       *)
(***************************************************************************)
EXTENDS PreparationProperties, TLAPS

\* The supervisor's side of the lock, and the side of an operation by hand.
SupervisorSide == sup.at # "off" \/ worker.at # "none"
HandSide == man.at # "off" \/ gen.at # "none"

\* One side of the lock at a time.
OneSide == ~(SupervisorSide /\ HandSide)

-----------------------------------------------------------------------------
\* Whatever the supervisor and its worker do, they were there already, and
\* the operation by hand stays as it is.
LEMMA SupervisorActs ==
  ASSUME Supervise \/ SupervisorDies \/ WorkerStep \/ WorkerWrites
  PROVE  SupervisorSide /\ UNCHANGED <<man, gen>>
<1>1. CASE Supervise \/ SupervisorDies
  BY <1>1 DEF Supervise, SupervisorDies, SupervisorSide, Inspect, StageValid, StageBegins,
              CountAttempt, Spawn, StageAnswered, Interrupted, Validate, RunCompletes
<1>2. CASE WorkerStep \/ WorkerWrites
  BY <1>2 DEF WorkerStep, WorkerWrites, SupervisorSide, WorkerStarts, WorkerEnds, WorkerGone
<1> QED
  BY <1>1, <1>2

\* So with an operation by hand and its generator.
LEMMA HandActs ==
  ASSUME ByHand \/ GenWrites
  PROVE  HandSide /\ UNCHANGED <<sup, worker>>
BY DEF ByHand, GenWrites, HandSide, LoginByHand, CheckByHand, GenStarts, GenEnds, GenExits,
       GenAnswered, GenTimesOut, ManualCloses, GenGone

\* A death of the API may end an operation, and starts nothing.
LEMMA ApiDiesHere ==
  ASSUME ApiDies
  PROVE  UNCHANGED <<sup, worker, gen>> /\ (HandSide' => HandSide)
BY DEF ApiDies, HandSide, NoMan

LEMMA OneSideNext ==
  ASSUME OneSide, [Next]_vars
  PROVE  OneSide'
<1> USE DEF OneSide
<1>1. CASE RunStarts
  <2>1. ~HandSide /\ UNCHANGED <<man, gen>>
    BY <1>1 DEF RunStarts, Busy, HandSide
  <2> QED
    BY <2>1 DEF HandSide
<1>2. CASE \E stage \in StagesByHand : ManualStarts(stage)
  <2>1. ~SupervisorSide /\ UNCHANGED <<sup, worker>>
    BY <1>2 DEF ManualStarts, Busy, SupervisorSide
  <2> QED
    BY <2>1 DEF SupervisorSide
<1>3. CASE Supervise \/ SupervisorDies \/ WorkerStep \/ WorkerWrites
  <2>1. SupervisorSide /\ UNCHANGED <<man, gen>>
    BY <1>3, SupervisorActs
  <2> QED
    BY <2>1 DEF HandSide
<1>4. CASE ByHand \/ GenWrites
  <2>1. HandSide /\ UNCHANGED <<sup, worker>>
    BY <1>4, HandActs
  <2> QED
    BY <2>1 DEF SupervisorSide
<1>5. CASE ApiDies
  BY <1>5, ApiDiesHere DEF SupervisorSide
<1>6. CASE UNCHANGED <<sup, worker, man, gen>>
  BY <1>6 DEF SupervisorSide, HandSide
<1>7. RunRefused \/ PageStep \/ ClockAdvances \/ UNCHANGED vars
        => UNCHANGED <<sup, worker, man, gen>>
  BY DEF RunRefused, PageStep, PageReads, PageScansSources, PageScansDerived, PagePublishes,
         ClockAdvances, vars
<1> QED
  BY <1>1, <1>2, <1>3, <1>4, <1>5, <1>6, <1>7 DEF Next

\* Two processes never change the data at once, over any number of starts and
\* deaths (checklist_activity: the lock a child inherits).
THEOREM NobodyWritesBeside == Spec => []OneWriter
<1>1. Init => OneSide
  BY DEF Init, OneSide, SupervisorSide, SupOff, NoProcess
<1>2. OneSide /\ [Next]_vars => OneSide'
  BY OneSideNext
<1>3. OneSide => OneWriter
  BY DEF OneSide, SupervisorSide, HandSide, OneWriter
<1> QED
  BY <1>1, <1>2, <1>3, PTL DEF Spec

-----------------------------------------------------------------------------
(* What stands behind a ready checklist. *)

\* What a scan asks of the data.
SourcesOk(d) == d.kite = "valid" /\ d.instruments = "full" /\ d.historical # "behind"
ScanOk(d) == SourcesOk(d) /\ d.baselines # "none" /\ d.five # "none"

Statuses == {"none", "running", "blocked", "skipped", "completed"}

\* What the page may read of the record.
Showings == Statuses \cup {"interrupted"}

Rows == [source : {"none", "automatic", "manual"}, status : Statuses,
         dirty : SUBSET Stages, attempts : [Stages -> Nat]]
Sups == [at : {"off", "inspect", "stage", "attempt", "spawn", "await", "publish"},
         i : 1 .. 6, ok : SUBSET Stages, pending : BOOLEAN]
Processes == [at : {"none", "new", "work", "done"}, stage : Stages,
              out : {"none", "ok", "failed", "retryable"}]
Mans == [at : {"off", "open", "wait", "close"}, stage : Stages, ok : BOOLEAN,
         checked : BOOLEAN]
Pages == [at : {"idle", "sources", "derived", "publish"}, before : Showings, ok : BOOLEAN]

TypesHere ==
  /\ phase \in {"window", "late"}
  /\ data \in Data /\ row \in Rows /\ sup \in Sups /\ worker \in Processes
  /\ man \in Mans /\ gen \in Processes /\ page \in Pages

\* The worker is at the stage its supervisor awaits; so with the generator.
InStep ==
  /\ sup.at \in {"attempt", "spawn", "await"} => sup.i <= 5
  /\ sup.at = "await" => worker.at # "none" /\ worker.stage = Stage[sup.i]
  /\ sup.at \notin {"off", "await"} => worker.at = "none"
  /\ man.at = "wait" => gen.at # "none" /\ gen.stage = man.stage
  /\ man.at \in {"open", "close"} => gen.at = "none"
  /\ gen.at # "none" => gen.stage # "kite"
  /\ SupervisorSide \/ HandSide => row.status = "running"

\* Derived data come from the history they lie beside, or are known not to.
Rested(stage) ==
  CASE stage = "baselines"   -> data.baselines = "stale" => "baselines" \in left
    [] stage = "five-minute" -> data.five = "stale" => "five-minute" \in left
    [] OTHER                 -> TRUE

Derivation ==
  /\ data.baselines # "none" => data.historical # "behind"
  /\ data.five # "none" => data.historical = "full"
  /\ data.baselines = "stale" => "baselines" \in row.dirty \cup left
  /\ data.five = "stale" => "five-minute" \in row.dirty \cup left
  /\ sup.at \in {"attempt", "spawn"} /\ Stage[sup.i] = "historical" => Derived \subseteq row.dirty
  /\ worker.at # "none" /\ worker.stage = "historical" => Derived \subseteq row.dirty
  /\ man.at \in {"open", "wait"} /\ man.stage = "historical" => Derived \subseteq row.dirty
  /\ gen.at = "work" /\ gen.stage = "historical" => Derived \subseteq row.dirty
  /\ worker.at = "done" /\ worker.out = "ok" => Rested(worker.stage)
  /\ gen.at = "done" /\ gen.out = "ok" => Rested(gen.stage)
  /\ man.at \in {"open", "wait"} => ~man.ok
  /\ man.at = "close" /\ man.ok => Rested(man.stage)

\* A good checklist, cached or about to be, is of the data as they are, while
\* nobody prepares.
Honest ==
  /\ sup.at = "publish" => ScanOk(data)
  /\ HandSide => cache # "ok"
  /\ row.status # "running" =>
       /\ cache = "ok" => ScanOk(data)
       /\ page.at \in {"derived", "publish"} /\ page.ok => SourcesOk(data)
       /\ page.at = "publish" /\ page.ok => ScanOk(data)

-----------------------------------------------------------------------------
\* What a scan that sees nothing wrong has seen.
LEMMA SourcesSeen ==
  ASSUME NEW d \in Data, Seeing(SourceAreas(d)) = {"ok"}
  PROVE  SourcesOk(d)
<1>1. SourceAreas(d).kite = "ok" /\ SourceAreas(d).instruments = "ok"
      /\ SourceAreas(d).historical = "ok"
  BY DEF Seeing, SourceAreas
<1> QED
  BY <1>1 DEF SourceAreas, KiteAuth, Instruments, Historical, Behind, SourcesOk, Data

LEMMA DerivedSeen ==
  ASSUME NEW d \in Data, Seeing(DerivedAreas(d)) = {"ok"}
  PROVE  d.baselines # "none" /\ d.five # "none"
<1>1. DerivedAreas(d).baselines = "ok" /\ DerivedAreas(d).five = "ok"
  BY DEF Seeing, DerivedAreas
<1> QED
  BY <1>1 DEF DerivedAreas, Baselines, FiveMinute, Covered, Whole

\* The worst of some statuses is one of them, and none is worse.
LEMMA WorstIsOk ==
  ASSUME NEW S \in SUBSET Status, S # {}, Worst(S) = "ok"
  PROVE  S = {"ok"}
<1>1. Status = {"ok", "warning", "needs_update", "failed"}
  BY DEF Status, Rank
<1>2. /\ Rank.ok = 1 /\ Rank.warning = 2 /\ Rank.needs_update = 3 /\ Rank.failed = 4
  BY DEF Rank
<1>3. \E s \in S : \A t \in S : Rank[t] <= Rank[s]
  <2>1. CASE "failed" \in S
    BY <1>1, <1>2, <2>1
  <2>2. CASE "failed" \notin S /\ "needs_update" \in S
    BY <1>1, <1>2, <2>2
  <2>3. CASE "failed" \notin S /\ "needs_update" \notin S /\ "warning" \in S
    BY <1>1, <1>2, <2>3
  <2>4. CASE S = {"ok"}
    BY <2>4, <1>2
  <2> QED
    BY <1>1, <2>1, <2>2, <2>3, <2>4
<1>4. Worst(S) \in S /\ \A t \in S : Rank[t] <= Rank[Worst(S)]
  BY <1>3 DEF Worst
<1>5. \A t \in S : t = "ok"
  BY <1>1, <1>2, <1>4
<1> QED
  BY <1>4, <1>5

LEMMA OverallSeen ==
  ASSUME NEW d \in Data, Overall(Seeing(SourceAreas(d)) \cup Seeing(DerivedAreas(d))) = "ok"
  PROVE  ScanOk(d)
<1>1. Seeing(SourceAreas(d)) \cup Seeing(DerivedAreas(d)) \subseteq Status
  BY DEF Seeing, SourceAreas, DerivedAreas, KiteAuth, Instruments, Historical, Baselines,
         FiveMinute, Status, Rank, Data
<1>2. Seeing(SourceAreas(d)) # {} /\ Seeing(DerivedAreas(d)) # {}
  BY DEF Seeing, SourceAreas, DerivedAreas
<1>3. Seeing(SourceAreas(d)) = {"ok"} /\ Seeing(DerivedAreas(d)) = {"ok"}
  <2> DEFINE S == Seeing(SourceAreas(d)) \cup Seeing(DerivedAreas(d))
  <2>1. Offline(S) \in Status
    BY DEF Offline, Status, Rank
  <2>2. S \cup {Offline(S)} = {"ok"}
    BY <1>1, <2>1, WorstIsOk DEF Overall
  <2> QED
    BY <1>2, <2>2
<1> QED
  BY <1>3, SourcesSeen, DerivedSeen DEF ScanOk


-----------------------------------------------------------------------------
(* The types. *)

LEMMA StagesAre ==
  /\ Stages = {"kite", "instruments", "historical", "baselines", "five-minute"}
  /\ Stage[1] = "kite" /\ Stage[2] = "instruments" /\ Stage[3] = "historical"
  /\ Stage[4] = "baselines" /\ Stage[5] = "five-minute"
  /\ \A i \in 1 .. 5 : Stage[i] \in Stages
<1>1. Stage[1] = "kite" /\ Stage[2] = "instruments" /\ Stage[3] = "historical"
      /\ Stage[4] = "baselines" /\ Stage[5] = "five-minute"
  BY DEF Stage
<1>2. 1 .. 5 = {1, 2, 3, 4, 5}
  OBVIOUS
<1> QED
  BY <1>1, <1>2 DEF Stages

\* The record after one of the changes that are saved is a record.
LEMMA RowKept ==
  ASSUME row \in Rows, NEW status \in Statuses, NEW dirty \in SUBSET Stages
  PROVE  /\ [row EXCEPT !.status = status] \in Rows
         /\ [row EXCEPT !.dirty = dirty] \in Rows
         /\ [row EXCEPT !.status = status, !.dirty = dirty] \in Rows
         /\ row.dirty \subseteq Stages
BY DEF Rows

\* The data only ever change in these ways.
LEMMA RepairedIs ==
  ASSUME NEW d \in Data, NEW e \in Repaired(d) \cup Collected(d)
  PROVE  /\ e \in Data /\ e.kite = d.kite /\ e.instruments = d.instruments
         /\ e.historical \in AtLeast(d.historical)
         /\ d.historical # "behind" => e.historical # "behind"
         /\ d.historical = "full" => e.historical = "full"
         /\ e.baselines = "none" <=> d.baselines = "none"
         /\ e.five # "none" => d.five # "none"
<1>1. \/ e = d
      \/ \E h \in AtLeast(d.historical), f \in {"none", Outdated(d.five)} :
           e = [d EXCEPT !.historical = h, !.baselines = Outdated(d.baselines), !.five = f]
  <2>1. CASE e \in Repaired(d)
    <3>1. PICK f \in {"none", Outdated(d.five)} :
            e \in {[d EXCEPT !.historical = h, !.baselines = Outdated(d.baselines), !.five = f] :
                     h \in AtLeast(d.historical)}
      BY <2>1, Zenon DEF Repaired
    <3>2. \E h \in AtLeast(d.historical) :
            e = [d EXCEPT !.historical = h, !.baselines = Outdated(d.baselines), !.five = f]
      BY <3>1, Zenon
    <3> QED
      BY <3>2, Zenon
  <2>2. CASE e \in Collected(d)
    <3>1. \/ e = d
          \/ \E h \in AtLeast(d.historical) :
               e = [d EXCEPT !.historical = h, !.baselines = Outdated(d.baselines),
                             !.five = Outdated(d.five)]
      BY <2>2, Zenon DEF Collected
    <3> QED
      BY <3>1, Zenon
  <2> QED
    BY <2>1, <2>2
<1>2. /\ d.kite \in {"unchecked", "invalid", "valid"}
      /\ d.instruments \in {"partial", "old", "full"}
      /\ d.historical \in {"behind", "gapped", "full"}
      /\ d.baselines \in {"none", "stale", "fresh"} /\ d.five \in {"none", "stale", "fresh"}
      /\ DOMAIN d = {"kite", "instruments", "historical", "baselines", "five"}
  BY DEF Data
<1>3. CASE e = d
  BY <1>2, <1>3 DEF AtLeast
<1>4. ASSUME NEW h \in AtLeast(d.historical), NEW f \in {"none", Outdated(d.five)},
             e = [d EXCEPT !.historical = h, !.baselines = Outdated(d.baselines), !.five = f]
      PROVE  /\ e \in Data /\ e.kite = d.kite /\ e.instruments = d.instruments
             /\ e.historical = h
             /\ d.historical # "behind" => e.historical # "behind"
             /\ d.historical = "full" => e.historical = "full"
             /\ e.baselines = "none" <=> d.baselines = "none"
             /\ e.five # "none" => d.five # "none"
  <2>1. /\ h \in {"behind", "gapped", "full"}
        /\ d.historical # "behind" => h # "behind"
        /\ d.historical = "full" => h = "full"
    BY <1>2, <1>4 DEF AtLeast
  <2>2. /\ Outdated(d.baselines) \in {"none", "stale", "fresh"}
        /\ Outdated(d.baselines) = "none" <=> d.baselines = "none"
        /\ f \in {"none", "stale", "fresh"} /\ (f # "none" => d.five # "none")
    BY <1>2, <1>4 DEF Outdated
  <2> QED
    BY <1>4, <2>1, <2>2 DEF Data
<1> QED
  BY <1>1, <1>3, <1>4

LEMMA StageDone ==
  ASSUME NEW stage \in Stages, NEW out \in {"ok", "failed", "retryable"}, data \in Data,
         NEW e \in DataAfter(stage, out)
  PROVE  /\ e \in Data /\ e.historical = data.historical
         /\ e.baselines = data.baselines \/ (stage = "baselines" /\ e = WithBaselines(data))
         /\ e.five = data.five \/ (stage = "five-minute" /\ e = WithFive(data))
<1> USE StagesAre
<1>1. CASE stage = "kite"
  <2>1. KiteAfter(out) \subseteq {"unchecked", "invalid", "valid"}
    BY DEF KiteAfter, Data
  <2>2. DataAfter(stage, out) = {[data EXCEPT !.kite = k] : k \in KiteAfter(out)}
    BY <1>1 DEF DataAfter
  <2>3. PICK k \in KiteAfter(out) : e = [data EXCEPT !.kite = k]
    BY <2>2, Zenon
  <2> QED
    BY <2>1, <2>3 DEF Data
<1>2. CASE stage \in {"instruments", "baselines", "five-minute"} /\ out = "ok"
  BY <1>2 DEF DataAfter, Complete, WithBaselines, WithFive, Data
<1>3. CASE stage # "kite" /\ (stage = "historical" \/ out # "ok")
  BY <1>3 DEF DataAfter
<1> QED
  BY <1>1, <1>2, <1>3


LEMMA ShownIs ==
  ASSUME row \in Rows
  PROVE  Shown \in Showings
BY DEF Rows, Shown, Showings, Statuses

LEMMA TypesOfRuns ==
  ASSUME TypesHere, InStep, RunRefused \/ RunStarts \/ Supervise \/ SupervisorDies
  PROVE  TypesHere'
<1> USE DEF TypesHere
<1>0. /\ NoRow \in Rows /\ SupOff \in Sups /\ NoProcess \in Processes /\ NoPage \in Pages
  BY StagesAre DEF NoRow, SupOff, NoProcess, NoPage, NoTries, Rows, Sups, Processes, Pages,
                   Statuses, Showings
<1>1. ASSUME NEW r \in Rows, Block(r)
      PROVE  row' \in Rows /\ sup' \in Sups /\ worker' \in Processes /\ page' \in Pages
  BY <1>0, <1>1 DEF Block, Save, Crossed, Rows, Statuses
<1>2. ASSUME NEW i \in 1 .. 6
      PROVE  Seen("stage", i) \in Sups
  <2>1. RepairNeeded(data) \in BOOLEAN
    BY DEF RepairNeeded
  <2>2. OkStages(SourceAreas(data), DerivedAreas(data)) \in SUBSET Stages
    BY DEF OkStages
  <2> QED
    BY <2>1, <2>2 DEF Seen, Sups
<1>3. sup.at = "stage" /\ sup.i <= 5 => sup.i \in 1 .. 5 /\ sup.i + 1 \in 1 .. 6
  BY DEF Sups
<1>4. CASE RunRefused
  BY <1>0, <1>4 DEF RunRefused, Save, Crossed, NoRow, Rows, Statuses
<1>5. CASE RunStarts
  BY <1>0, <1>5 DEF RunStarts, Save, Crossed, Resumed, SupOff, Rows, Sups, Statuses
<1>6. CASE Inspect
  BY <1>1, <1>2, <1>6 DEF Inspect
<1>7. CASE StageValid
  BY <1>0, <1>3, <1>7 DEF StageValid, Save, Crossed, Sups
<1>8. CASE StageBegins
  <2> DEFINE r == [row EXCEPT !.dirty = WithDerived(@, Current)]
  <2>1. r \in Rows
    BY StagesAre DEF WithDerived, Derived, Rows
  <2>2. CASE Block(r) /\ UNCHANGED <<phase, data, man, gen>>
    BY <1>1, <2>1, <2>2
  <2>3. CASE Save(r) /\ sup' = [sup EXCEPT !.at = "attempt"] /\ UNCHANGED worker
             /\ UNCHANGED <<phase, data, man, gen>>
    <3>1. sup' \in Sups
      BY <2>3 DEF Sups
    <3> QED
      BY <1>0, <2>1, <2>3, <3>1 DEF Save, Crossed
  <2> QED
    BY <1>8, <2>2, <2>3 DEF StageBegins
<1>9. CASE CountAttempt
  BY <1>0, <1>9 DEF CountAttempt, Counted, Save, Crossed, Rows, Sups
<1>10. CASE Spawn
  <2>1. sup.i \in 1 .. 5 /\ Stage[sup.i] \in Stages
    BY <1>10, StagesAre DEF Spawn, InStep, Sups
  <2>2. [NoProcess EXCEPT !.at = "new", !.stage = Current] \in Processes
    BY <2>1 DEF NoProcess, Processes, Current
  <2> QED
    BY <1>1, <1>10, <2>2 DEF Spawn, Sups
<1>11. CASE StageAnswered
  <2>1. sup.i \in 1 .. 5 /\ sup.i + 1 \in 1 .. 6
    BY <1>11 DEF StageAnswered, InStep, Sups
  <2>2. CASE Save([row EXCEPT !.dirty = @ \ {Current}])
             /\ sup' = Seen("stage", sup.i + 1) /\ worker' = NoProcess
    <3>1. [row EXCEPT !.dirty = @ \ {Current}] \in Rows
      BY DEF Rows
    <3> QED
      BY <1>0, <1>2, <1>11, <2>1, <2>2, <3>1 DEF StageAnswered, Save, Crossed
  <2>3. CASE sup' = [sup EXCEPT !.at = "attempt"] /\ worker' = NoProcess /\ UNCHANGED <<row, page>>
    BY <1>0, <1>11, <2>3 DEF StageAnswered, Sups
  <2>4. CASE Block(row)
    BY <1>1, <1>11, <2>4 DEF StageAnswered
  <2> QED
    BY <1>11, <2>2, <2>3, <2>4 DEF StageAnswered
<1>12. CASE Interrupted
  BY <1>1, <1>12 DEF Interrupted
<1>13. CASE Validate
  BY <1>0, <1>1, <1>13 DEF Validate, Save, Crossed, Sups
<1>14. CASE RunCompletes
  BY <1>0, <1>14 DEF RunCompletes, Save, Crossed, Rows, Statuses
<1>15. CASE SupervisorDies
  BY <1>0, <1>15 DEF SupervisorDies
<1> QED
  BY <1>4, <1>5, <1>6, <1>7, <1>8, <1>9, <1>10, <1>11, <1>12, <1>13, <1>14, <1>15 DEF Supervise


LEMMA TypesOfWorkers ==
  ASSUME TypesHere, WorkerStep \/ WorkerWrites \/ GenWrites
  PROVE  TypesHere'
<1> USE DEF TypesHere
<1>1. CASE WorkerStarts
  BY <1>1 DEF WorkerStarts, Processes
<1>2. CASE WorkerWrites
  BY <1>2, RepairedIs DEF WorkerWrites
<1>3. CASE WorkerEnds
  <2>1. PICK out \in {"ok", "failed", "retryable"} :
          /\ data' \in DataAfter(worker.stage, out)
          /\ worker' = [worker EXCEPT !.at = "done", !.out = out]
    BY <1>3 DEF WorkerEnds
  <2>2. data' \in Data
    BY <2>1, StageDone DEF Processes
  <2>3. worker' \in Processes
    BY <2>1 DEF Processes
  <2> QED
    BY <1>3, <2>2, <2>3 DEF WorkerEnds
<1>4. CASE WorkerGone
  BY <1>4, StagesAre DEF WorkerGone, NoProcess, Processes
<1>5. CASE GenWrites
  BY <1>5, RepairedIs DEF GenWrites
<1> QED
  BY <1>1, <1>2, <1>3, <1>4, <1>5 DEF WorkerStep

LEMMA TypesOfHands ==
  ASSUME TypesHere, PreparationAssumption,
         (\E stage \in StagesByHand : ManualStarts(stage)) \/ ByHand \/ ApiDies
  PROVE  TypesHere'
<1> USE DEF TypesHere
<1>0. NoProcess \in Processes /\ NoMan \in Mans /\ NoPage \in Pages
  BY StagesAre DEF NoProcess, NoMan, NoPage, Processes, Mans, Pages, Showings, Statuses
<1>1. ASSUME NEW stage \in StagesByHand, ManualStarts(stage)
      PROVE  TypesHere'
  <2>1. stage \in Stages
    BY DEF PreparationAssumption
  <2>2. ManualRecord(stage) \in Rows
    <3>1. WithDerived(row.dirty, stage) \in SUBSET Stages
      BY StagesAre DEF WithDerived, Derived, Rows
    <3> QED
      BY <3>1, StagesAre DEF ManualRecord, NoRow, NoTries, Rows, Statuses
  <2>3. [NoMan EXCEPT !.at = "open", !.stage = stage] \in Mans
    BY <2>1 DEF NoMan, Mans
  <2> QED
    BY <1>0, <1>1, <2>2, <2>3 DEF ManualStarts, Save, Crossed
<1>2. CASE LoginByHand
  BY <1>2 DEF LoginByHand, Mans, Data
<1>3. CASE CheckByHand
  <2>1. PICK k \in {"valid", "invalid"} :
          /\ data' = [data EXCEPT !.kite = k]
          /\ man' = [man EXCEPT !.at = "close", !.ok = TRUE, !.checked = (k = "valid")]
    BY <1>3 DEF CheckByHand
  <2>2. data' \in Data
    BY <2>1 DEF Data
  <2>3. man' \in Mans
    BY <2>1 DEF Mans
  <2> QED
    BY <1>3, <2>2, <2>3 DEF CheckByHand
<1>4. CASE GenStarts
  <2>1. [NoProcess EXCEPT !.at = "work", !.stage = man.stage] \in Processes
    BY DEF NoProcess, Processes, Mans
  <2>2. [man EXCEPT !.at = "close"] \in Mans /\ [man EXCEPT !.at = "wait"] \in Mans
    BY DEF Mans
  <2> QED
    BY <1>4, <2>1, <2>2 DEF GenStarts
<1>5. ASSUME NEW out \in {"ok", "failed"}, NEW skips \in BOOLEAN, GenExits(out, skips)
      PROVE  TypesHere'
  <2>1. gen' \in Processes
    BY <1>5 DEF GenExits, Processes
  <2>2. data' \in Data
    BY <1>5, StageDone DEF GenExits, Processes
  <2> QED
    BY <1>5, <2>1, <2>2 DEF GenExits
<1>6. CASE GenEnds
  BY <1>5, <1>6 DEF GenEnds
<1>7. CASE GenAnswered
  <2>1. [man EXCEPT !.at = "close", !.ok = gen.out = "ok"] \in Mans
    BY DEF Mans
  <2> QED
    BY <1>0, <1>7, <2>1 DEF GenAnswered
<1>8. CASE GenTimesOut
  BY <1>0, <1>8 DEF GenTimesOut, Mans
<1>9. CASE ManualCloses
  <2>1. /\ [row EXCEPT !.status = "completed", !.dirty = @ \ {man.stage}] \in Rows
        /\ [row EXCEPT !.status = "blocked"] \in Rows
    BY DEF Rows, Statuses
  <2> QED
    BY <1>0, <1>9, <2>1 DEF ManualCloses, Save, Crossed
<1>10. CASE ApiDies
  BY <1>0, <1>10 DEF ApiDies
<1>11. CASE GenGone
  BY <1>0, <1>11 DEF GenGone
<1> QED
  BY <1>1, <1>2, <1>3, <1>4, <1>6, <1>7, <1>8, <1>9, <1>10, <1>11 DEF ByHand

LEMMA TypesNext ==
  ASSUME TypesHere, InStep, PreparationAssumption, [Next]_vars
  PROVE  TypesHere'
<1>1. CASE PageStep
  <2>1. Shown \in Showings /\ NoPage \in Pages
    BY ShownIs DEF TypesHere, NoPage, Pages, Showings, Statuses
  <2>2. Blocks \in BOOLEAN
    BY DEF Blocks
  <2>3. page' \in Pages
    BY <1>1, <2>1, <2>2 DEF TypesHere, PageStep, PageReads, PageScansSources, PageScansDerived,
                            PagePublishes, NoPage, Pages
  <2> QED
    BY <1>1, <2>3 DEF TypesHere, PageStep, PageReads, PageScansSources, PageScansDerived,
                      PagePublishes
<1>2. CASE ClockAdvances
  BY <1>2 DEF TypesHere, ClockAdvances
<1>3. CASE UNCHANGED vars
  BY <1>3 DEF TypesHere, vars
<1> QED
  BY <1>1, <1>2, <1>3, TypesOfRuns, TypesOfWorkers, TypesOfHands DEF Next


-----------------------------------------------------------------------------
(* Each waits for its own. *)

LEMMA InStepOfRuns ==
  ASSUME TypesHere, OneSide, InStep, RunRefused \/ RunStarts \/ Supervise \/ SupervisorDies
  PROVE  InStep'
<1> USE DEF InStep, SupervisorSide, HandSide, OneSide
<1>0. SupOff.at = "off" /\ NoProcess.at = "none"
  BY DEF SupOff, NoProcess
<1>1. ASSUME NEW r, Block(r), sup.at # "off", UNCHANGED <<man, gen>>
      PROVE  InStep'
  BY <1>0, <1>1 DEF Block
<1>2. CASE RunRefused
  BY <1>2 DEF RunRefused, Busy
<1>3. CASE RunStarts
  BY <1>3 DEF RunStarts, Busy, Save, Resumed, SupOff, TypesHere, Rows
<1>4. CASE Inspect
  BY <1>1, <1>4 DEF Inspect, Seen
<1>5. CASE StageValid
  BY <1>5 DEF StageValid, Save, TypesHere, Sups
<1>6. CASE StageBegins
  <2> DEFINE r == [row EXCEPT !.dirty = WithDerived(@, Current)]
  <2>1. r.status = row.status
    BY DEF TypesHere, Rows
  <2> HIDE DEF r
  <2>2. CASE Block(r) /\ UNCHANGED <<man, gen>> /\ sup.at # "off"
    BY <1>1, <2>2
  <2>3. CASE /\ Save(r) /\ sup' = [sup EXCEPT !.at = "attempt"] /\ UNCHANGED <<worker, man, gen>>
             /\ sup.at = "stage" /\ sup.i <= 5
    BY <2>1, <2>3 DEF Save, TypesHere, Sups
  <2> QED
    BY <1>6, <2>2, <2>3 DEF StageBegins, r
<1>7. CASE CountAttempt
  BY <1>7 DEF CountAttempt, Counted, Save, TypesHere, Sups, Rows
<1>8. CASE Spawn
  BY <1>1, <1>8 DEF Spawn, Current, NoProcess, TypesHere, Sups
<1>9. CASE StageAnswered
  BY <1>0, <1>1, <1>9 DEF StageAnswered, Seen, Save, TypesHere, Sups, Rows
<1>10. CASE Interrupted
  BY <1>1, <1>10 DEF Interrupted
<1>11. CASE Validate
  BY <1>1, <1>11 DEF Validate, Save, TypesHere, Sups
<1>12. CASE RunCompletes
  BY <1>0, <1>12 DEF RunCompletes
<1>13. CASE SupervisorDies
  BY <1>0, <1>13 DEF SupervisorDies
<1> QED
  BY <1>2, <1>3, <1>4, <1>5, <1>6, <1>7, <1>8, <1>9, <1>10, <1>11, <1>12, <1>13 DEF Supervise

LEMMA InStepOfHands ==
  ASSUME TypesHere, OneSide, InStep,
         (\E stage \in StagesByHand : ManualStarts(stage)) \/ ByHand \/ ApiDies
  PROVE  InStep'
<1> USE DEF InStep, SupervisorSide, HandSide, OneSide
<1>0. NoMan.at = "off" /\ NoProcess.at = "none"
  BY DEF NoMan, NoProcess
<1>1. ASSUME NEW stage \in StagesByHand, ManualStarts(stage)
      PROVE  InStep'
  BY <1>0, <1>1 DEF ManualStarts, ManualRecord, Busy, Save, NoRow, NoMan
<1>2. CASE LoginByHand
  BY <1>2 DEF LoginByHand, TypesHere, Mans
<1>3. CASE CheckByHand
  BY <1>3 DEF CheckByHand, TypesHere, Mans
<1>4. CASE GenStarts
  BY <1>4 DEF GenStarts, NoProcess, TypesHere, Mans
<1>5. CASE GenEnds
  BY <1>5 DEF GenEnds, GenExits, TypesHere, Processes
<1>6. CASE GenAnswered
  BY <1>0, <1>6 DEF GenAnswered, TypesHere, Mans
<1>7. CASE GenTimesOut
  BY <1>0, <1>7 DEF GenTimesOut, TypesHere, Mans
<1>8. CASE ManualCloses
  BY <1>0, <1>8 DEF ManualCloses
<1>9. CASE ApiDies
  BY <1>0, <1>9 DEF ApiDies
<1>10. CASE GenGone
  BY <1>0, <1>10 DEF GenGone
<1> QED
  BY <1>1, <1>2, <1>3, <1>4, <1>5, <1>6, <1>7, <1>8, <1>9, <1>10 DEF ByHand

LEMMA InStepNext ==
  ASSUME TypesHere, OneSide, InStep, [Next]_vars
  PROVE  InStep'
<1> USE DEF InStep, SupervisorSide, HandSide
<1>1. CASE WorkerStarts
  BY <1>1 DEF WorkerStarts, TypesHere, Processes
<1>2. CASE WorkerEnds
  BY <1>2 DEF WorkerEnds, TypesHere, Processes
<1>3. CASE WorkerGone
  BY <1>3 DEF WorkerGone, NoProcess
<1>4. WorkerWrites \/ GenWrites \/ PageStep \/ ClockAdvances \/ UNCHANGED vars
        => UNCHANGED <<row, sup, worker, man, gen>>
  BY DEF WorkerWrites, GenWrites, PageStep, PageReads, PageScansSources, PageScansDerived,
         PagePublishes, ClockAdvances, vars
<1>5. CASE UNCHANGED <<row, sup, worker, man, gen>>
  BY <1>5
<1> QED
  BY <1>1, <1>2, <1>3, <1>4, <1>5, InStepOfRuns, InStepOfHands DEF Next, WorkerStep


-----------------------------------------------------------------------------
(* Where the derived data come from. *)

\* It depends on these alone.
LEMMA DerivationFrame ==
  ASSUME Derivation, UNCHANGED <<data, row, sup, worker, man, gen, left>>
  PROVE  Derivation'
BY DEF Derivation, Rested

\* The record may become any of which the dirty stages are those, or more.
LEMMA BlockDerives ==
  ASSUME TypesHere, OneSide, Derivation, sup.at # "off", NEW r, Block(r),
         row.dirty \subseteq r.dirty, r.dirty = row'.dirty, UNCHANGED <<data, man, gen, left>>
  PROVE  Derivation'
BY DEF Block, Derivation, Rested, OneSide, SupervisorSide, HandSide, SupOff, NoProcess

LEMMA DerivationOfRuns ==
  ASSUME TradingDay, TypesHere, OneSide, InStep, Derivation,
         RunRefused \/ RunStarts \/ Supervise \/ SupervisorDies
  PROVE  Derivation'
<1> USE StagesAre DEF OneSide, SupervisorSide, HandSide
<1>0. /\ SupOff.at = "off" /\ NoProcess.at = "none" /\ NoRow.dirty = {}
      /\ row.dirty \subseteq Stages
  BY DEF SupOff, NoProcess, NoRow, TypesHere, Rows
<1>1. ASSUME Block(row), sup.at # "off", UNCHANGED <<data, man, gen, left>>
      PROVE  Derivation'
  <2>1. row'.dirty = row.dirty
    BY <1>1 DEF Block, Save, TypesHere, Rows
  <2> QED
    BY <1>1, <2>1, BlockDerives
<1>2. CASE RunRefused
  <2>1. row'.dirty = row.dirty
    BY <1>0, <1>2 DEF RunRefused, Eligibility, Save, NoRow
  <2> QED
    BY <1>2, <2>1 DEF RunRefused, Derivation, Rested
<1>3. CASE RunStarts
  <2>1. row'.dirty = row.dirty
    BY <1>3 DEF RunStarts, Save, Resumed, TypesHere, Rows
  <2>2. sup'.at = "inspect"
    BY <1>3 DEF RunStarts, SupOff
  <2> QED
    BY <1>3, <2>1, <2>2 DEF RunStarts, Derivation, Rested
<1>4. CASE Inspect
  <2>1. CASE sup' = Seen("stage", 1) /\ UNCHANGED <<row, worker>>
    BY <1>4, <2>1 DEF Inspect, Seen, Derivation, Rested
  <2> QED
    BY <1>1, <1>4, <2>1 DEF Inspect
<1>5. CASE StageValid
  <2>1. sup'.at = "stage" /\ row' = row
    BY <1>5 DEF StageValid, Save, TypesHere, Sups
  <2> QED
    BY <1>5, <2>1 DEF StageValid, Derivation, Rested
<1>6. CASE StageBegins
  <2> DEFINE r == [row EXCEPT !.dirty = WithDerived(@, Current)]
  <2>1. r.dirty = WithDerived(row.dirty, Current)
    BY DEF TypesHere, Rows
  <2>2. row.dirty \subseteq r.dirty /\ (Current = "historical" => Derived \subseteq r.dirty)
    BY <2>1 DEF WithDerived, Sources
  <2>3. CASE Block(r)
    <3>1. row'.dirty = r.dirty
      BY <2>3 DEF Block, Save, TypesHere, Rows
    <3> QED
      BY <1>6, <2>2, <2>3, <3>1, BlockDerives DEF StageBegins
  <2>4. CASE Save(r) /\ sup' = [sup EXCEPT !.at = "attempt"] /\ UNCHANGED worker
    <3>1. sup'.at = "attempt" /\ sup'.i = sup.i /\ row'.dirty = r.dirty
      BY <2>4 DEF Save, TypesHere, Sups
    <3> HIDE DEF r
    <3> QED
      BY <1>6, <2>2, <2>4, <3>1 DEF StageBegins, Derivation, Rested, Current
  <2> QED
    BY <1>6, <2>3, <2>4 DEF StageBegins
<1>7. CASE CountAttempt
  <2>1. row'.dirty = row.dirty /\ sup'.at = "spawn" /\ sup'.i = sup.i
    BY <1>7 DEF CountAttempt, Counted, Save, TypesHere, Rows, Sups
  <2> QED
    BY <1>7, <2>1 DEF CountAttempt, Derivation, Rested
<1>8. CASE Spawn
  <2>1. CASE /\ worker' = [NoProcess EXCEPT !.at = "new", !.stage = Current]
             /\ sup' = [sup EXCEPT !.at = "await"] /\ UNCHANGED row
    <3>1. sup'.at = "await" /\ worker'.at = "new" /\ worker'.stage = Stage[sup.i]
      BY <2>1 DEF NoProcess, Current, TypesHere, Sups
    <3> QED
      BY <1>8, <2>1, <3>1 DEF Spawn, Derivation, Rested
  <2> QED
    BY <1>1, <1>8, <2>1 DEF Spawn
<1>9. CASE StageAnswered
  <2>1. CASE /\ worker.out = "ok" /\ Save([row EXCEPT !.dirty = @ \ {Current}])
             /\ sup' = Seen("stage", sup.i + 1) /\ worker' = NoProcess
    <3>1. row'.dirty = row.dirty \ {Current} /\ sup'.at = "stage" /\ worker'.at = "none"
      BY <2>1 DEF Save, Seen, NoProcess, TypesHere, Rows
    <3>2. Rested(Current)
      BY <1>9, <2>1 DEF StageAnswered, Derivation, InStep, Current
    <3>3. man.at = "off" /\ gen.at = "none"
      BY <1>9 DEF StageAnswered
    <3> QED
      BY <1>9, <3>1, <3>2, <3>3 DEF StageAnswered, Derivation, Rested
  <2>2. CASE sup' = [sup EXCEPT !.at = "attempt"] /\ worker' = NoProcess /\ UNCHANGED row
    <3>1. sup'.at = "attempt" /\ sup'.i = sup.i /\ worker'.at = "none"
      BY <2>2 DEF NoProcess, TypesHere, Sups
    <3> QED
      BY <1>9, <2>2, <3>1 DEF StageAnswered, Derivation, Rested, InStep
  <2>3. CASE Block(row)
    BY <1>1, <1>9, <2>3 DEF StageAnswered
  <2> QED
    BY <1>9, <2>1, <2>2, <2>3 DEF StageAnswered
<1>10. CASE Interrupted
  BY <1>1, <1>10 DEF Interrupted
<1>11. CASE Validate
  <2>1. CASE Save(row) /\ sup' = [sup EXCEPT !.at = "publish"] /\ UNCHANGED worker
    <3>1. row' = row /\ sup'.at = "publish"
      BY <2>1 DEF Save, TypesHere, Sups
    <3> QED
      BY <1>11, <2>1, <3>1 DEF Validate, Derivation, Rested
  <2> QED
    BY <1>1, <1>11, <2>1 DEF Validate
<1>12. CASE RunCompletes
  <2>1. row'.dirty = row.dirty
    BY <1>12 DEF RunCompletes, Save, TypesHere, Rows
  <2> QED
    BY <1>0, <1>12, <2>1 DEF RunCompletes, Derivation, Rested
<1>13. CASE SupervisorDies
  BY <1>0, <1>13 DEF SupervisorDies, Derivation, Rested
<1> QED
  BY <1>2, <1>3, <1>4, <1>5, <1>6, <1>7, <1>8, <1>9, <1>10, <1>11, <1>12, <1>13 DEF Supervise


LEMMA DerivationOfWorkers ==
  ASSUME TypesHere, OneSide, InStep, Derivation, WorkerStep \/ WorkerWrites
  PROVE  Derivation'
<1> USE DEF OneSide, SupervisorSide, HandSide
<1>0. /\ data \in Data /\ worker.stage \in Stages
      /\ man.at = "off" /\ gen.at = "none"
  BY SupervisorActs DEF TypesHere, Processes
<1>1. CASE WorkerStarts
  <2>1. /\ UNCHANGED <<data, row, sup, man, gen, left>>
        /\ worker'.stage = worker.stage /\ worker'.at \in {"work", "done"} /\ worker.at = "new"
        /\ worker'.at = "done" => worker'.out = "failed"
    BY <1>1 DEF WorkerStarts, TypesHere, Processes
  <2> QED
    BY <1>0, <2>1 DEF Derivation, Rested
<1>2. CASE WorkerWrites
  <2>1. /\ UNCHANGED <<row, sup, worker, man, gen, left>> /\ data' \in Repaired(data)
        /\ worker.at = "work" /\ worker.stage = "historical"
    BY <1>2 DEF WorkerWrites
  <2>2. /\ data.historical # "behind" => data'.historical # "behind"
        /\ data.historical = "full" => data'.historical = "full"
        /\ data'.baselines = "none" <=> data.baselines = "none"
        /\ data'.five # "none" => data.five # "none"
    BY <1>0, <2>1, RepairedIs
  <2> QED
    BY <1>0, <2>1, <2>2 DEF Derivation, Derived
<1>3. CASE WorkerEnds
  <2>1. PICK out \in {"ok", "failed", "retryable"} :
          /\ data' \in DataAfter(worker.stage, out)
          /\ out = "ok" => Validated(worker.stage)
          /\ worker' = [worker EXCEPT !.at = "done", !.out = out]
          /\ left' = IF out = "ok" THEN left \ {worker.stage} ELSE left
    BY <1>3 DEF WorkerEnds
  <2>2. /\ UNCHANGED <<row, sup, man, gen>> /\ worker.at = "work"
        /\ worker'.at = "done" /\ worker'.stage = worker.stage /\ worker'.out = out
    BY <1>3, <2>1 DEF WorkerEnds, TypesHere, Processes
  <2>3. CASE out = "ok" /\ worker.stage = "baselines"
    <3>1. data'.baselines # "none"
      BY <2>1, <2>3 DEF Validated, Area, DerivedAreas, Baselines, Covered
    <3>2. data' = WithBaselines(data)
      BY <2>1, <2>3, StagesAre DEF DataAfter, Complete
    <3>3. data.historical # "behind"
      BY <3>1, <3>2 DEF WithBaselines, Derivation
    <3>4. data'.baselines = "fresh" /\ data'.historical = data.historical /\ data'.five = data.five
      BY <1>0, <3>2, <3>3 DEF WithBaselines, Data
    <3> QED
      BY <1>0, <2>1, <2>2, <2>3, <3>3, <3>4 DEF Derivation, Rested
  <2>4. CASE out = "ok" /\ worker.stage = "five-minute"
    <3>1. data'.five # "none"
      BY <2>1, <2>4 DEF Validated, Area, DerivedAreas, FiveMinute, Whole
    <3>2. data' = WithFive(data)
      BY <2>1, <2>4, StagesAre DEF DataAfter, Complete
    <3>3. data.historical = "full"
      BY <3>1, <3>2 DEF WithFive, Derivation
    <3>4. data'.five = "fresh" /\ data'.historical = "full" /\ data'.baselines = data.baselines
      BY <1>0, <3>2, <3>3 DEF WithFive, Data
    <3> QED
      BY <1>0, <2>1, <2>2, <2>4, <3>3, <3>4 DEF Derivation, Rested
  <2>5. CASE ~(out = "ok" /\ worker.stage \in Derived)
    <3>1. /\ data'.historical = data.historical
          /\ data'.baselines = data.baselines /\ data'.five = data.five
      <4>1. CASE worker.stage \notin Derived
        BY <1>0, <2>1, <4>1, StageDone DEF Derived
      <4>2. CASE out # "ok" /\ worker.stage \in Derived
        BY <2>1, <4>2 DEF DataAfter, Derived
      <4> QED
        BY <2>5, <4>1, <4>2
    <3>2. \A s \in Derived : s \in left => s \in left'
      BY <2>1, <2>5
    <3> QED
      BY <1>0, <2>2, <2>5, <3>1, <3>2 DEF Derivation, Rested, Derived
  <2> QED
    BY <2>3, <2>4, <2>5 DEF Derived
<1>4. CASE WorkerGone
  <2>1. UNCHANGED <<data, row, sup, man, gen, left>> /\ worker'.at = "none"
    BY <1>4 DEF WorkerGone, NoProcess
  <2> QED
    BY <1>0, <2>1, <1>4 DEF WorkerGone, Derivation, Rested
<1> QED
  BY <1>1, <1>2, <1>3, <1>4 DEF WorkerStep


LEMMA DerivationOfHands ==
  ASSUME PreparationAssumption, TypesHere, OneSide, InStep, Derivation,
         (\E stage \in StagesByHand : ManualStarts(stage)) \/ ByHand \/ GenWrites \/ ApiDies
  PROVE  Derivation'
<1> USE DEF OneSide, SupervisorSide, HandSide
<1>0. /\ data \in Data /\ gen.stage \in Stages
      /\ NoMan.at = "off" /\ NoProcess.at = "none"
      /\ ByHand \/ GenWrites => HandSide /\ sup.at = "off" /\ worker.at = "none"
  BY HandActs DEF TypesHere, Processes, NoMan, NoProcess
<1>1. ASSUME NEW stage \in StagesByHand, ManualStarts(stage)
      PROVE  Derivation'
  <2>1. /\ sup.at = "off" /\ worker.at = "none" /\ gen.at = "none"
        /\ UNCHANGED <<data, sup, worker, gen, left>>
    BY <1>1 DEF ManualStarts, Busy
  <2>2. row'.dirty = WithDerived(row.dirty, stage)
    BY <1>1 DEF ManualStarts, ManualRecord, Save, NoRow
  <2>3. man'.at = "open" /\ man'.stage = stage /\ ~man'.ok
    BY <1>1 DEF ManualStarts, NoMan
  <2>4. row.dirty \subseteq row'.dirty /\ (stage = "historical" => Derived \subseteq row'.dirty)
    BY <2>2 DEF WithDerived, Sources
  <2> QED
    BY <2>1, <2>3, <2>4 DEF Derivation, Rested
<1>2. CASE LoginByHand \/ CheckByHand
  <2>1. /\ data'.historical = data.historical
        /\ data'.baselines = data.baselines /\ data'.five = data.five
    BY <1>0, <1>2 DEF LoginByHand, CheckByHand, Data
  <2>2. man'.at = "close" /\ man'.stage = "kite" /\ man.at = "open"
        /\ UNCHANGED <<row, sup, worker, gen, left>>
    BY <1>2 DEF LoginByHand, CheckByHand, TypesHere, Mans
  <2> QED
    BY <1>0, <1>2, <2>1, <2>2 DEF ByHand, Derivation, Rested, InStep
<1>3. CASE GenStarts
  <2>1. UNCHANGED <<data, row, sup, worker, left>> /\ man.at = "open" /\ ~man.ok
    BY <1>3 DEF GenStarts, Derivation
  <2>2. CASE man' = [man EXCEPT !.at = "close"] /\ UNCHANGED gen
    <3>1. man'.at = "close" /\ ~man'.ok
      BY <2>1, <2>2 DEF TypesHere, Mans
    <3> QED
      BY <1>0, <1>3, <2>1, <2>2, <3>1 DEF ByHand, Derivation, Rested, InStep
  <2>3. CASE man' = [man EXCEPT !.at = "wait"]
             /\ gen' = [NoProcess EXCEPT !.at = "work", !.stage = man.stage]
    <3>1. man'.at = "wait" /\ ~man'.ok /\ man'.stage = man.stage
          /\ gen'.at = "work" /\ gen'.stage = man.stage
      BY <2>1, <2>3 DEF TypesHere, Mans, NoProcess
    <3> QED
      BY <1>0, <1>3, <2>1, <3>1 DEF ByHand, Derivation, Rested
  <2> QED
    BY <1>3, <2>2, <2>3 DEF GenStarts
<1>4. CASE GenWrites
  <2>1. /\ UNCHANGED <<row, sup, worker, man, gen, left>> /\ data' \in Collected(data)
        /\ gen.at = "work" /\ gen.stage = "historical"
    BY <1>4 DEF GenWrites
  <2>2. /\ data.historical # "behind" => data'.historical # "behind"
        /\ data.historical = "full" => data'.historical = "full"
        /\ data'.baselines = "none" <=> data.baselines = "none"
        /\ data'.five # "none" => data.five # "none"
    BY <1>0, <2>1, RepairedIs
  <2> QED
    BY <1>0, <1>4, <2>1, <2>2 DEF Derivation, Derived, InStep
<1>5. CASE GenEnds
  <2>0. /\ UNCHANGED <<row, sup, worker, man>> /\ gen.at = "work" /\ gen.stage # "kite"
        /\ sup.at = "off" /\ worker.at = "none" /\ man.at # "close"
    BY <1>0, <1>5 DEF GenEnds, GenExits, ByHand, InStep
  <2>1. CASE GenExits("failed", FALSE)
    <3>1. UNCHANGED <<data, left>> /\ gen'.at = "done" /\ gen'.stage = gen.stage
          /\ gen'.out = "failed"
      BY <2>0, <2>1 DEF GenExits, DataAfter, TypesHere, Processes
    <3> QED
      BY <2>0, <3>1 DEF Derivation, Rested
  <2>2. CASE gen.stage \in Derived /\ GenExits("ok", TRUE)
    <3>1. UNCHANGED data /\ gen'.at = "done" /\ gen'.stage = gen.stage
          /\ left' = left \cup {gen.stage}
      BY <2>0, <2>2 DEF GenExits, TypesHere, Processes
    <3> QED
      BY <2>0, <2>2, <3>1 DEF Derivation, Rested, Derived
  <2>3. CASE /\ gen.stage = "baselines" => data.historical # "behind"
             /\ GenExits("ok", FALSE)
    <3>1. /\ data' \in DataAfter(gen.stage, "ok") /\ left' = left \ {gen.stage}
          /\ gen'.at = "done" /\ gen'.stage = gen.stage
      BY <2>3 DEF GenExits, TypesHere, Processes
    <3>2. CASE gen.stage = "baselines"
      <4>1. data' = WithBaselines(data)
        BY <3>1, <3>2, StagesAre DEF DataAfter, Complete
      <4>2. /\ data'.baselines = "fresh" /\ data'.historical = data.historical
            /\ data'.five = data.five
        BY <1>0, <2>3, <3>2, <4>1 DEF WithBaselines, Data
      <4> QED
        BY <2>0, <2>3, <3>1, <3>2, <4>2 DEF Derivation, Rested
    <3>3. CASE gen.stage = "five-minute"
      <4>1. data' = WithFive(data)
        BY <3>1, <3>3, StagesAre DEF DataAfter, Complete
      <4>2. /\ data'.historical = data.historical /\ data'.baselines = data.baselines
            /\ data'.five = data.five \/ (data.historical = "full" /\ data'.five = "fresh")
            /\ data.historical = "full" => data'.five = "fresh"
        BY <1>0, <4>1 DEF WithFive, Data
      <4>3. data.historical # "full" => data'.five = "none"
        BY <1>0, <4>2 DEF Derivation, Data
      <4> QED
        BY <2>0, <3>1, <3>3, <4>2, <4>3 DEF Derivation, Rested
    <3>4. CASE gen.stage \notin Derived
      <4>1. /\ data'.historical = data.historical
            /\ data'.baselines = data.baselines /\ data'.five = data.five
        BY <1>0, <3>1, <3>4, StageDone DEF Derived
      <4> QED
        BY <2>0, <3>1, <3>4, <4>1 DEF Derivation, Rested, Derived
    <3> QED
      BY <3>2, <3>3, <3>4 DEF Derived
  <2> QED
    BY <1>5, <2>1, <2>2, <2>3 DEF GenEnds
<1>6. CASE GenAnswered
  <2>1. /\ UNCHANGED <<data, row, sup, worker, left>> /\ man.at = "wait" /\ gen.at = "done"
        /\ man'.at = "close" /\ man'.stage = gen.stage /\ gen'.at = "none"
        /\ man'.ok = (gen.out = "ok")
    BY <1>0, <1>6 DEF GenAnswered, TypesHere, Mans, InStep
  <2> QED
    BY <1>0, <1>6, <2>1 DEF ByHand, Derivation, Rested
<1>7. CASE GenTimesOut
  <2>1. /\ UNCHANGED <<data, row, sup, worker, left>> /\ man.at = "wait"
        /\ man'.at = "close" /\ gen'.at = "none" /\ man'.ok = man.ok
    BY <1>0, <1>7 DEF GenTimesOut, TypesHere, Mans
  <2> QED
    BY <1>0, <1>7, <2>1 DEF ByHand, Derivation, Rested
<1>8. CASE ManualCloses
  <2>1. /\ UNCHANGED <<data, sup, worker, gen, left>> /\ man'.at = "off" /\ gen.at = "none"
        /\ row'.dirty = row.dirty \/ (man.ok /\ row'.dirty = row.dirty \ {man.stage})
        /\ man.ok => Rested(man.stage)
    BY <1>0, <1>8 DEF ManualCloses, Save, InStep, Derivation, TypesHere, Rows
  <2> QED
    BY <1>0, <1>8, <2>1 DEF ByHand, Derivation, Rested
<1>9. CASE ApiDies
  <2>1. UNCHANGED <<data, row, sup, worker, gen, left>> /\ man'.at = "off"
    BY <1>0, <1>9 DEF ApiDies
  <2> QED
    BY <2>1 DEF Derivation, Rested
<1>10. CASE GenGone
  <2>1. UNCHANGED <<data, row, sup, worker, man, left>> /\ gen'.at = "none"
    BY <1>0, <1>10 DEF GenGone
  <2> QED
    BY <2>1 DEF Derivation, Rested
<1> QED
  BY <1>1, <1>2, <1>3, <1>4, <1>5, <1>6, <1>7, <1>8, <1>9, <1>10 DEF ByHand

LEMMA DerivationNext ==
  ASSUME TradingDay, PreparationAssumption, TypesHere, OneSide, InStep, Derivation, [Next]_vars
  PROVE  Derivation'
<1>1. PageStep \/ ClockAdvances \/ UNCHANGED vars
        => UNCHANGED <<data, row, sup, worker, man, gen, left>>
  BY DEF PageStep, PageReads, PageScansSources, PageScansDerived, PagePublishes, ClockAdvances,
         vars
<1> QED
  BY <1>1, DerivationFrame, DerivationOfRuns, DerivationOfWorkers, DerivationOfHands DEF Next


-----------------------------------------------------------------------------
(* What the cache says. *)

\* While somebody prepares, the record runs, and nothing is asked of the cache.
LEMMA HonestWhileRunning ==
  ASSUME row'.status = "running", (sup.at = "publish" => ScanOk(data))',
         (HandSide => cache # "ok")'
  PROVE  Honest'
BY DEF Honest

LEMMA HonestOfRuns ==
  ASSUME TradingDay, TypesHere, OneSide, InStep, InStep', Honest,
         RunRefused \/ RunStarts \/ Supervise \/ SupervisorDies
  PROVE  Honest'
<1> USE DEF SupervisorSide, HandSide
<1>0. SupOff.at = "off" /\ NoProcess.at = "none" /\ NoPage.at = "idle"
  BY DEF SupOff, NoProcess, NoPage
<1>1. ASSUME NEW r, Block(r), sup.at # "off", UNCHANGED <<man, gen>>
      PROVE  Honest'
  BY <1>0, <1>1 DEF Block, Save, Crossed, OneSide, Honest
<1>2. CASE RunRefused
  <2>1. row.status # "running" /\ UNCHANGED <<data, cache, sup, man, gen>> /\ page'.at = "idle"
    BY <1>0, <1>2 DEF RunRefused, Eligibility, Save, Crossed, NoRow
  <2> QED
    BY <2>1 DEF Honest
<1>3. CASE RunStarts
  <2>1. row'.status = "running" /\ sup'.at = "inspect" /\ cache' = "none"
    BY <1>3 DEF RunStarts, Save, Resumed, SupOff, TypesHere, Rows
  <2> QED
    BY <2>1, HonestWhileRunning
<1>4. ASSUME sup.at # "off", sup'.at \notin {"off", "publish"}, UNCHANGED <<man, gen>>
      PROVE  Honest'
  <2>1. row'.status = "running"
    BY <1>4 DEF InStep
  <2>2. ~HandSide'
    BY <1>4 DEF OneSide
  <2> QED
    BY <1>4, <2>1, <2>2, HonestWhileRunning
<1>5. CASE Inspect
  BY <1>1, <1>4, <1>5 DEF Inspect, Seen
<1>6. CASE StageValid
  BY <1>4, <1>6 DEF StageValid, TypesHere, Sups
<1>7. CASE StageBegins
  <2>1. CASE sup' = [sup EXCEPT !.at = "attempt"]
    BY <1>4, <1>7, <2>1 DEF StageBegins, TypesHere, Sups
  <2> QED
    BY <1>1, <1>7, <2>1 DEF StageBegins
<1>8. CASE CountAttempt
  BY <1>4, <1>8 DEF CountAttempt, TypesHere, Sups
<1>9. CASE Spawn
  BY <1>1, <1>4, <1>9 DEF Spawn, TypesHere, Sups
<1>10. CASE StageAnswered
  BY <1>1, <1>4, <1>10 DEF StageAnswered, Seen, TypesHere, Sups
<1>11. CASE Interrupted
  BY <1>1, <1>11 DEF Interrupted
<1>12. CASE Validate
  <2>1. CASE /\ Overall(Seeing(SourceAreas(data)) \cup Seeing(DerivedAreas(data))) = "ok"
             /\ sup' = [sup EXCEPT !.at = "publish"]
    <3>1. ScanOk(data) /\ UNCHANGED <<data, man, gen>>
      BY <1>12, <2>1, OverallSeen DEF Validate, TypesHere
    <3>2. sup'.at = "publish" /\ ~HandSide'
      BY <1>12, <2>1, <3>1 DEF Validate, TypesHere, Sups, OneSide
    <3>3. row'.status = "running"
      BY <3>2 DEF InStep
    <3> QED
      BY <3>1, <3>2, <3>3, HonestWhileRunning
  <2> QED
    BY <1>1, <1>12, <2>1 DEF Validate
<1>13. CASE RunCompletes
  <2>1. /\ UNCHANGED <<data, cache, man, gen>> /\ sup'.at = "off" /\ page'.at = "idle"
        /\ ScanOk(data) /\ ~HandSide
    BY <1>0, <1>13 DEF RunCompletes, Save, Crossed, OneSide, Honest
  <2> QED
    BY <2>1 DEF Honest
<1>14. CASE SupervisorDies
  <2>1. /\ UNCHANGED <<data, row, cache, man, gen>> /\ sup'.at = "off"
        /\ row.status = "running" /\ ~HandSide
    BY <1>0, <1>14 DEF SupervisorDies, OneSide, InStep
  <2> QED
    BY <2>1, HonestWhileRunning
<1> QED
  BY <1>2, <1>3, <1>5, <1>6, <1>7, <1>8, <1>9, <1>10, <1>11, <1>12, <1>13, <1>14 DEF Supervise

LEMMA HonestOfOthers ==
  ASSUME TypesHere, OneSide, InStep, Honest,
         \/ WorkerStep \/ WorkerWrites
         \/ \E stage \in StagesByHand : ManualStarts(stage)
         \/ ByHand \/ GenWrites \/ ApiDies
  PROVE  Honest'
<1> USE DEF SupervisorSide, HandSide
<1>0. NoMan.at = "off" /\ NoProcess.at = "none" /\ NoPage.at = "idle"
  BY DEF NoMan, NoProcess, NoPage
<1>1. CASE WorkerStep \/ WorkerWrites
  <2>1. UNCHANGED <<row, sup, man, gen>> /\ worker.at # "none" /\ cache' \in {cache, "none"}
        /\ (sup.at = "publish" => FALSE)
    BY <1>1 DEF WorkerStep, WorkerWrites, WorkerStarts, WorkerEnds, WorkerGone, InStep
  <2>2. row'.status = "running" /\ ~HandSide'
    BY <2>1 DEF InStep, OneSide
  <2> QED
    BY <2>1, <2>2, HonestWhileRunning
<1>2. ASSUME NEW stage \in StagesByHand, ManualStarts(stage)
      PROVE  Honest'
  <2>1. row'.status = "running" /\ cache' = "none" /\ sup'.at = "off"
    BY <1>2 DEF ManualStarts, ManualRecord, Busy, Save, NoRow
  <2> QED
    BY <2>1, HonestWhileRunning
<1>3. CASE ManualCloses
  <2>1. UNCHANGED <<data, cache, sup, gen>> /\ cache # "ok" /\ page'.at = "idle" /\ sup.at = "off"
    BY <1>0, <1>3 DEF ManualCloses, Save, Crossed, OneSide, Honest
  <2> QED
    BY <2>1 DEF Honest
<1>4. CASE (ByHand /\ ~ManualCloses) \/ GenWrites
  <2>1. HandSide /\ UNCHANGED sup /\ sup.at = "off" /\ cache # "ok"
    BY <1>4, HandActs DEF OneSide, Honest
  <2>2. UNCHANGED row /\ cache' \in {cache, "none"}
    BY <1>4 DEF ByHand, LoginByHand, CheckByHand, GenStarts, GenEnds, GenExits, GenAnswered,
                GenTimesOut, GenGone, GenWrites
  <2>3. row'.status = "running"
    BY <2>1, <2>2 DEF InStep
  <2> QED
    BY <2>1, <2>2, <2>3, HonestWhileRunning
<1>5. CASE ApiDies
  <2>1. UNCHANGED <<data, row, cache, sup, gen>> /\ man'.at = "off" /\ page'.at = "idle"
    BY <1>0, <1>5 DEF ApiDies
  <2> QED
    BY <2>1 DEF Honest
<1> QED
  BY <1>1, <1>2, <1>3, <1>4, <1>5

LEMMA HonestOfPage ==
  ASSUME TypesHere, Honest, PageStep
  PROVE  Honest'
<1> USE DEF SupervisorSide, HandSide
<1>0. /\ NoPage.at = "idle" /\ data \in Data
      /\ UNCHANGED <<data, row, sup, man, gen>>
  BY DEF NoPage, TypesHere, PageStep, PageReads, PageScansSources, PageScansDerived, PagePublishes
<1>1. CASE PageReads
  BY <1>0, <1>1 DEF PageReads, NoPage, Honest
<1>2. CASE PageScansSources
  <2>1. page'.at = "derived" /\ UNCHANGED cache /\ (page'.ok => SourcesOk(data))
    BY <1>0, <1>2, SourcesSeen DEF PageScansSources, TypesHere, Pages
  <2> QED
    BY <1>0, <2>1 DEF Honest
<1>3. CASE PageScansDerived
  <2>1. page.at = "derived" /\ page'.at = "publish" /\ UNCHANGED cache
        /\ (page'.ok => page.ok /\ data.baselines # "none" /\ data.five # "none")
    BY <1>0, <1>3, DerivedSeen DEF PageScansDerived, TypesHere, Pages
  <2> QED
    BY <1>0, <2>1 DEF Honest, ScanOk
<1>4. CASE PagePublishes
  <2>1. page'.at = "idle" /\ page.at = "publish"
        /\ (cache' = cache \/ (~Busy /\ (cache' = "ok" => page.ok)))
    BY <1>0, <1>4 DEF PagePublishes, Written
  <2> QED
    BY <1>0, <2>1 DEF Honest, Busy
<1> QED
  BY <1>1, <1>2, <1>3, <1>4 DEF PageStep

LEMMA HonestNext ==
  ASSUME TradingDay, TypesHere, OneSide, InStep, InStep', Honest, [Next]_vars
  PROVE  Honest'
<1>1. ClockAdvances \/ UNCHANGED vars
        => UNCHANGED <<data, row, cache, sup, man, gen, page>>
  BY DEF ClockAdvances, vars
<1>2. CASE UNCHANGED <<data, row, cache, sup, man, gen, page>>
  BY <1>2 DEF Honest, HandSide
<1> QED
  BY <1>1, <1>2, HonestOfRuns, HonestOfOthers, HonestOfPage DEF Next

-----------------------------------------------------------------------------
\* The inductive invariant.
Prepared == TypesHere /\ OneSide /\ InStep /\ Derivation /\ Honest

\* On a day the exchange trades, a checklist that is ready stands for data
\* that are complete and derived from one another, whatever died on the way
\* (compute_readiness of the cached checklist, and the activity record).  On a
\* closed day a refused run replaces the record and the dirty stages with it.
THEOREM ReadyIsEarned == TradingDay => (Spec => []ReadyMeansPrepared)
<1> SUFFICES ASSUME TradingDay
             PROVE  Spec => []ReadyMeansPrepared
  OBVIOUS
<1>1. Init => Prepared
  <2> SUFFICES ASSUME Init
               PROVE  Prepared
    OBVIOUS
  <2>1. TypesHere
    BY StagesAre DEF Init, TypesHere, Data, NoRow, NoTries, SupOff, NoProcess, NoMan, NoPage,
                     Rows, Sups, Processes, Mans, Pages, Showings, Statuses
  <2>2. OneSide /\ InStep
    BY DEF Init, OneSide, InStep, SupervisorSide, HandSide, SupOff, NoProcess, NoMan
  <2>3. Derivation
    BY DEF Init, Derivation, Rested, SupOff, NoProcess, NoMan
  <2>4. Honest
    BY DEF Init, Honest, HandSide, NoRow, SupOff, NoProcess, NoMan, NoPage
  <2> QED
    BY <2>1, <2>2, <2>3, <2>4 DEF Prepared
<1>2. Prepared /\ [Next]_vars => Prepared'
  <2> SUFFICES ASSUME Prepared, [Next]_vars
               PROVE  Prepared'
    OBVIOUS
  <2>1. TypesHere' /\ OneSide' /\ InStep'
    BY PreparationAssumption, TypesNext, OneSideNext, InStepNext DEF Prepared
  <2>2. Derivation' /\ Honest'
    BY <2>1, PreparationAssumption, DerivationNext, HonestNext DEF Prepared
  <2> QED
    BY <2>1, <2>2 DEF Prepared
<1>3. Prepared => ReadyMeansPrepared
  <2> SUFFICES ASSUME Prepared, Ready
               PROVE  /\ data.kite = "valid" /\ data.instruments = "full"
                      /\ data.historical # "behind"
                      /\ data.baselines = "fresh" \/ "baselines" \in left
                      /\ data.five = "fresh" \/ "five-minute" \in left
    BY DEF ReadyMeansPrepared
  <2>1. row.status # "running" /\ row.dirty = {} /\ cache = "ok"
    BY DEF Ready, Blocks, Shown
  <2>2. ScanOk(data)
    BY <2>1 DEF Prepared, Honest
  <2>3. data.baselines \in {"stale", "fresh"} /\ data.five \in {"stale", "fresh"}
    BY <2>2 DEF ScanOk, Prepared, TypesHere, Data
  <2> QED
    BY <2>1, <2>2, <2>3 DEF ScanOk, SourcesOk, Prepared, Derivation
<1> QED
  BY <1>1, <1>2, <1>3, PTL DEF Spec
=============================================================================
