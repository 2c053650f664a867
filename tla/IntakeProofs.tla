-------------------------------- MODULE IntakeProofs --------------------------------
(***************************************************************************)
(* Two promises of the intake, proved for every set of triggers, every     *)
(* threshold and any number of engines: no process enters a trigger of     *)
(* before its start, and none enters while a step is escalated.            *)
(*                                                                         *)
(* Both rest on what the process remembers.  Its batch holds triggers at   *)
(* or above its floor, which have all fired while it was up; its failure   *)
(* counts are those of its steps, and it is paused when one is escalated.  *)
(***************************************************************************)
EXTENDS IntakeProperties, TLAPS

Phases == {"down", "sleep", "drive_open_orders", "ensure_protection", "handle_commands",
           "ingest_triggers"}

Engines ==
  [at : Phases, ticked : BOOLEAN, young : BOOLEAN, paused : BOOLEAN, stopped : BOOLEAN,
   fails : [Steps -> Nat], batch : SUBSET [t : Triggers, class : Verdicts \cup {"none"}]]

\* The variables the argument is about have their types.
IntakeTypes ==
  /\ log \in Seq(Triggers)
  /\ verdict \in [Triggers -> Verdicts \cup {"none"}]
  /\ eng \in Engines
  /\ floor \in SUBSET Triggers
  /\ run \in Nat
  /\ firedIn \in [Triggers -> Nat]
  /\ enteredIn \in [Triggers -> Nat]
  /\ broken \in [Steps -> Nat]

\* What is at or above the floor of a living process fired while it was up.
FloorIsOfThisRun == Up => \A t \in floor : t \in Fired /\ firedIn[t] = run

BatchAboveFloor == \A c \in eng.batch : Up /\ c.t \in floor

EnteredHasFired ==
  \A t \in Triggers : enteredIn[t] # 0 => t \in Fired /\ firedIn[t] = enteredIn[t]

\* The process counts what has happened, and is paused when it must be.
CountsAreTrue ==
  /\ Up => eng.fails = broken
  /\ AutoPause(eng.fails) => eng.paused

IntakeInv ==
  IntakeTypes /\ FloorIsOfThisRun /\ BatchAboveFloor /\ EnteredHasFired /\ CountsAreTrue

-----------------------------------------------------------------------------
\* A step that touches none of the variables of the invariant.
LEMMA ElsewhereKeeps ==
  ASSUME IntakeInv,
         UNCHANGED <<log, verdict, eng, floor, run, firedIn, enteredIn, broken>>
  PROVE  IntakeInv'
BY DEF IntakeInv, IntakeTypes, FloorIsOfThisRun, BatchAboveFloor, EnteredHasFired,
       CountsAreTrue, Up, Fired, AutoPause, Engines

\* A process that starts, and one that is down, has failed at nothing.
LEMMA DownIsClean ==
  ASSUME IntakeAssumption
  PROVE  Down \in Engines /\ ~AutoPause(Down.fails)
<1>1. Down \in Engines
  BY DEF Down, Engines, Phases
<1>2. \A s \in Steps : Down.fails[s] = 0 /\ Threshold[s] \in Nat \ {0}
  BY DEF Down, IntakeAssumption
<1> QED
  BY <1>1, <1>2 DEF AutoPause

\* A trigger that fires joins those that have.
LEMMA FiredGrows ==
  ASSUME log \in Seq(Triggers), NEW t \in Triggers, log' = Append(log, t)
  PROVE  log' \in Seq(Triggers) /\ Fired' = Fired \cup {t}
<1>1. log' \in Seq(Triggers) /\ Len(log') = Len(log) + 1 /\ Len(log) \in Nat
  OBVIOUS
<1>2. \A i \in 1 .. Len(log) : log'[i] = log[i]
  OBVIOUS
<1>3. log'[Len(log) + 1] = t
  OBVIOUS
<1>4. 1 .. Len(log') = (1 .. Len(log)) \cup {Len(log) + 1}
  BY <1>1
<1> QED
  BY <1>1, <1>2, <1>3, <1>4 DEF Fired

LEMMA FireKeeps ==
  ASSUME IntakeInv, NEW t \in Triggers, Fire(t)
  PROVE  IntakeInv'
<1> USE DEF IntakeInv, IntakeTypes
<1>1. log' \in Seq(Triggers) /\ Fired' = Fired \cup {t}
  BY FiredGrows DEF Fire
<1>2. t \notin Fired
  BY DEF Fire
<1>3. /\ firedIn' = [firedIn EXCEPT ![t] = IF Up THEN run ELSE 0]
      /\ floor' = IF Up /\ ~eng.young THEN floor \cup {t} ELSE floor
      /\ UNCHANGED <<verdict, eng, run, enteredIn, broken>>
  BY DEF Fire
<1>4. IntakeTypes'
  BY <1>1, <1>3 DEF Engines
<1>5. FloorIsOfThisRun'
  BY <1>1, <1>2, <1>3 DEF FloorIsOfThisRun, Up
<1>6. BatchAboveFloor'
  BY <1>3 DEF BatchAboveFloor, Up
<1>7. EnteredHasFired'
  BY <1>1, <1>2, <1>3 DEF EnteredHasFired
<1>8. CountsAreTrue'
  BY <1>3 DEF CountsAreTrue, Up, AutoPause
<1> QED
  BY <1>4, <1>5, <1>6, <1>7, <1>8

LEMMA JudgeKeeps ==
  ASSUME IntakeInv, NEW t \in Triggers, Judge(t)
  PROVE  IntakeInv'
<1>1. PICK v \in Verdicts : verdict' = [verdict EXCEPT ![t] = v]
  BY DEF Judge
<1>2. IntakeTypes'
  BY <1>1 DEF Judge, IntakeInv, IntakeTypes
<1> QED
  BY <1>2 DEF Judge, IntakeInv, FloorIsOfThisRun, BatchAboveFloor, EnteredHasFired,
              CountsAreTrue, Up, Fired, AutoPause

LEMMA EngineStartsKeeps ==
  ASSUME IntakeAssumption, IntakeInv, EngineStarts
  PROVE  IntakeInv'
<1> DEFINE e == [Down EXCEPT !.at = "sleep", !.young = TRUE]
<1>1. /\ eng' = e /\ floor' = {} /\ run' = run + 1 /\ broken' = [s \in Steps |-> 0]
      /\ UNCHANGED <<log, verdict, firedIn, enteredIn>>
  BY DEF EngineStarts, FloorAtStart
<1>2. e \in Engines /\ e.fails = [s \in Steps |-> 0] /\ e.fails = Down.fails /\ e.batch = {}
  BY DEF Down, Engines, Phases
<1>3. IntakeTypes'
  BY <1>1, <1>2 DEF IntakeInv, IntakeTypes
<1>4. FloorIsOfThisRun' /\ BatchAboveFloor' /\ EnteredHasFired'
  BY <1>1, <1>2 DEF IntakeInv, FloorIsOfThisRun, BatchAboveFloor, EnteredHasFired, Fired
<1>5. CountsAreTrue'
  BY <1>1, <1>2, DownIsClean DEF CountsAreTrue, AutoPause
<1> QED
  BY <1>3, <1>4, <1>5 DEF IntakeInv

LEMMA EngineDiesKeeps ==
  ASSUME IntakeAssumption, IntakeInv, EngineDies
  PROVE  IntakeInv'
<1>1. /\ eng' = Down
      /\ UNCHANGED <<log, verdict, floor, run, firedIn, enteredIn, broken>>
  BY DEF EngineDies
<1>2. ~Up' /\ Down.batch = {}
  BY <1>1 DEF Up, Down
<1>3. IntakeTypes'
  BY <1>1, DownIsClean DEF IntakeInv, IntakeTypes
<1>4. FloorIsOfThisRun' /\ BatchAboveFloor' /\ EnteredHasFired'
  BY <1>1, <1>2 DEF IntakeInv, FloorIsOfThisRun, BatchAboveFloor, EnteredHasFired, Fired
<1>5. CountsAreTrue'
  BY <1>1, <1>2, DownIsClean DEF CountsAreTrue, AutoPause
<1> QED
  BY <1>3, <1>4, <1>5 DEF IntakeInv

-----------------------------------------------------------------------------
(* The tick.  Its steps leave the triggers and the floor as they are. *)

\* What is left to show of a step that changes the process's memory only.
LEMMA MemoryStep ==
  ASSUME IntakeInv, Up,
         UNCHANGED <<log, verdict, floor, run, firedIn, enteredIn>>,
         eng' \in Engines, Up', broken' \in [Steps -> Nat],
         \A c \in eng'.batch : c.t \in floor,
         CountsAreTrue'
  PROVE  IntakeInv'
BY DEF IntakeInv, IntakeTypes, FloorIsOfThisRun, BatchAboveFloor, EnteredHasFired, Up, Fired

LEMMA TickBeginsKeeps ==
  ASSUME IntakeInv, TickBegins
  PROVE  IntakeInv'
<1> USE DEF IntakeInv, IntakeTypes
<1>1. PICK healthy \in BOOLEAN :
        eng' = [eng EXCEPT !.at = "drive_open_orders", !.ticked = TRUE,
                  !.paused = ~healthy \/ (AutoPause(eng.fails) /\ @)]
  BY DEF TickBegins
<1>2. eng.at = "sleep"
      /\ UNCHANGED <<log, verdict, floor, run, firedIn, enteredIn, broken>>
  BY DEF TickBegins
<1>3. (~healthy \/ (AutoPause(eng.fails) /\ eng.paused)) \in BOOLEAN
  OBVIOUS
<1>4. eng' \in Engines /\ Up /\ Up'
  BY <1>1, <1>2, <1>3 DEF Engines, Phases, Up
<1>5. eng'.fails = eng.fails /\ eng'.batch = eng.batch
      /\ eng'.paused = (~healthy \/ (AutoPause(eng.fails) /\ eng.paused))
  BY <1>1 DEF Engines
<1>6. CountsAreTrue'
  BY <1>2, <1>4, <1>5 DEF CountsAreTrue, AutoPause
<1>7. \A c \in eng'.batch : c.t \in floor
  BY <1>5 DEF BatchAboveFloor
<1> QED
  BY <1>2, <1>4, <1>6, <1>7, MemoryStep

\* A step of the tick that succeeds keeps the counts true.
LEMMA StepDoneKeeps ==
  ASSUME IntakeAssumption, IntakeInv, NEW step \in Steps, NEW next \in Phases \ {"down"},
         eng.at = step, StepDone(step, next),
         UNCHANGED <<log, verdict, floor, run, firedIn, enteredIn>>
  PROVE  IntakeInv'
<1> USE DEF IntakeInv, IntakeTypes
<1> DEFINE f == [eng.fails EXCEPT ![step] = 0]
<1>1. eng' = [eng EXCEPT !.at = next, !.fails = f]
  BY DEF StepDone, Cleared, Engines
<1>2. broken' = [broken EXCEPT ![step] = 0]
  BY DEF StepDone
<1>3. f \in [Steps -> Nat] /\ broken' \in [Steps -> Nat]
  BY <1>2 DEF Engines
<1>4. eng' \in Engines /\ Up /\ Up'
  BY <1>1, <1>3 DEF Engines, Phases, Up, Steps
<1>5. eng'.fails = f /\ eng'.batch = eng.batch /\ eng'.paused = eng.paused
  BY <1>1 DEF Engines
<1>6. CountsAreTrue'
  <2>1. eng'.fails = broken'
    BY <1>2, <1>4, <1>5 DEF CountsAreTrue
  <2>2. AutoPause(eng'.fails) => AutoPause(eng.fails)
    <3>1. \A s \in Steps : eng'.fails[s] = eng.fails[s] \/ eng'.fails[s] = 0
      BY <1>5 DEF Engines
    <3>2. \A s \in Steps : Threshold[s] \in Nat \ {0}
      BY DEF IntakeAssumption
    <3>3. SUFFICES ASSUME NEW s \in Steps, eng'.fails[s] >= Threshold[s]
                   PROVE  eng.fails[s] >= Threshold[s]
      BY DEF AutoPause
    <3>4. Threshold[s] \in Nat /\ ~(0 >= Threshold[s])
      BY <3>2
    <3> QED
      BY <3>1, <3>3, <3>4
  <2> QED
    BY <2>1, <2>2, <1>5 DEF CountsAreTrue, AutoPause
<1>7. \A c \in eng'.batch : c.t \in floor
  BY <1>5 DEF BatchAboveFloor
<1> QED
  BY <1>3, <1>4, <1>6, <1>7, MemoryStep

\* So does one that fails, since the pause comes with the count.
LEMMA StepFailsKeeps ==
  ASSUME IntakeAssumption, IntakeInv, NEW step \in Steps, NEW next \in Phases \ {"down"},
         eng.at = step, StepFails(step, next),
         UNCHANGED <<log, verdict, floor, run, firedIn, enteredIn>>
  PROVE  IntakeInv'
<1> USE DEF IntakeInv, IntakeTypes
<1> DEFINE f == [eng.fails EXCEPT ![step] = Older(@, Threshold[step])]
<1>1. eng' = [eng EXCEPT !.at = next, !.fails = f, !.paused = @ \/ AutoPause(f)]
  BY DEF StepFails
<1>2. broken' = [broken EXCEPT ![step] = Older(@, Threshold[step])]
  BY DEF StepFails
<1>3. f \in [Steps -> Nat] /\ broken' \in [Steps -> Nat]
  <2>1. Older(eng.fails[step], Threshold[step]) \in Nat
        /\ Older(broken[step], Threshold[step]) \in Nat
    BY DEF Engines, Older
  <2> QED
    BY <2>1, <1>2 DEF Engines
<1>4. eng' \in Engines /\ Up /\ Up'
  <2>1. (eng.paused \/ AutoPause(f)) \in BOOLEAN
    BY DEF AutoPause, Engines
  <2> HIDE DEF f
  <2> QED
    BY <1>1, <1>3, <2>1 DEF Engines, Phases, Up, Steps
<1>5. eng'.fails = f /\ eng'.batch = eng.batch /\ eng'.paused = (eng.paused \/ AutoPause(f))
  BY <1>1 DEF Engines
<1>6. CountsAreTrue'
  <2>1. eng'.fails = broken'
    BY <1>2, <1>4, <1>5 DEF CountsAreTrue
  <2> QED
    BY <2>1, <1>5 DEF CountsAreTrue, AutoPause
<1>7. \A c \in eng'.batch : c.t \in floor
  BY <1>5 DEF BatchAboveFloor
<1> QED
  BY <1>3, <1>4, <1>6, <1>7, MemoryStep

LEMMA ReconcileKeeps ==
  ASSUME IntakeAssumption, IntakeInv, Reconcile
  PROVE  IntakeInv'
<1>1. /\ eng.at = "drive_open_orders"
      /\ UNCHANGED <<log, verdict, floor, run, firedIn, enteredIn>>
  BY DEF Reconcile
<1>2. \/ StepDone("drive_open_orders", "ensure_protection")
      \/ StepFails("drive_open_orders", "ensure_protection")
  BY DEF Reconcile
<1>3. "drive_open_orders" \in Steps /\ "ensure_protection" \in Phases \ {"down"}
  BY DEF Steps, Phases
<1> QED
  BY <1>1, <1>2, <1>3, StepDoneKeeps, StepFailsKeeps

LEMMA ProtectKeeps ==
  ASSUME IntakeAssumption, IntakeInv, Protect
  PROVE  IntakeInv'
<1>1. /\ eng.at = "ensure_protection"
      /\ UNCHANGED <<log, verdict, floor, run, firedIn, enteredIn>>
  BY DEF Protect
<1>2. \/ StepDone("ensure_protection", "handle_commands")
      \/ StepFails("ensure_protection", "handle_commands")
  BY DEF Protect
<1>3. "ensure_protection" \in Steps /\ "handle_commands" \in Phases \ {"down"}
  BY DEF Steps, Phases
<1> QED
  BY <1>1, <1>2, <1>3, StepDoneKeeps, StepFailsKeeps

LEMMA CommandsKeep ==
  ASSUME IntakeInv, CommandsAndCandidates
  PROVE  IntakeInv'
<1> USE DEF IntakeInv, IntakeTypes
<1>1. PICK stopped \in BOOLEAN, read \in {Candidates} \cup FailedReads :
        eng' = [eng EXCEPT !.stopped = stopped,
                  !.at = IF day = "over" THEN "sleep" ELSE "ingest_triggers",
                  !.batch = IF day = "over" THEN {} ELSE read]
  BY DEF CommandsAndCandidates
<1>2. eng.at = "handle_commands"
      /\ UNCHANGED <<log, verdict, floor, run, firedIn, enteredIn, broken>>
  BY DEF CommandsAndCandidates
<1>3. /\ read \in SUBSET [t : Triggers, class : Verdicts \cup {"none"}]
      /\ \A c \in read : c.t \in floor
  BY DEF Candidates, FailedReads, Candidate, Waiting
<1>4. eng' \in Engines /\ Up /\ Up'
  BY <1>1, <1>2, <1>3 DEF Engines, Phases, Up
<1>5. /\ eng'.fails = eng.fails /\ eng'.paused = eng.paused
      /\ eng'.batch = IF day = "over" THEN {} ELSE read
  BY <1>1 DEF Engines
<1>6. CountsAreTrue'
  BY <1>2, <1>4, <1>5 DEF CountsAreTrue, AutoPause
<1>7. \A c \in eng'.batch : c.t \in floor
  BY <1>3, <1>5
<1> QED
  BY <1>2, <1>4, <1>6, <1>7, MemoryStep

\* The engine enters a trigger of its batch, which fired while it was up.
LEMMA HandleTriggerKeeps ==
  ASSUME IntakeInv, HandleTrigger
  PROVE  IntakeInv'
<1> USE DEF IntakeInv, IntakeTypes
<1>1. PICK c \in eng.batch :
        /\ eng' = [eng EXCEPT !.batch = @ \ {c}]
        /\ Leaves(c) \/ TurnsDown(c) \/ Enters(c)
  BY DEF HandleTrigger
<1>2. UNCHANGED <<log, verdict, floor, run, firedIn, broken>>
  BY DEF HandleTrigger
<1>3. /\ eng'.at = eng.at /\ eng'.batch = eng.batch \ {c}
      /\ eng'.fails = eng.fails /\ eng'.paused = eng.paused
  BY <1>1 DEF Engines
<1>4. eng' \in Engines
  BY <1>1 DEF Engines
<1>5. c \in [t : Triggers, class : Verdicts \cup {"none"}]
  BY <1>1 DEF Engines
<1>6. c.t \in Triggers /\ c.t \in Fired /\ firedIn[c.t] = run /\ Up
  BY <1>1, <1>5 DEF BatchAboveFloor, FloorIsOfThisRun
<1>7. enteredIn' = enteredIn \/ enteredIn' = [enteredIn EXCEPT ![c.t] = run]
  BY <1>1 DEF Leaves, TurnsDown, Skips, Enters
<1>8. IntakeTypes'
  BY <1>2, <1>4, <1>7
<1>9. FloorIsOfThisRun' /\ BatchAboveFloor'
  BY <1>2, <1>3 DEF FloorIsOfThisRun, BatchAboveFloor, Up, Fired
<1>10. EnteredHasFired'
  BY <1>2, <1>6, <1>7 DEF EnteredHasFired, Fired
<1>11. CountsAreTrue'
  BY <1>2, <1>3 DEF CountsAreTrue, Up, AutoPause
<1> QED
  BY <1>8, <1>9, <1>10, <1>11

LEMMA TickEndsKeeps ==
  ASSUME IntakeInv, TickEnds
  PROVE  IntakeInv'
<1> USE DEF IntakeInv, IntakeTypes
<1>1. /\ eng.at = "ingest_triggers"
      /\ eng' = [eng EXCEPT !.at = "sleep", !.batch = {}]
      /\ UNCHANGED <<log, verdict, floor, run, firedIn, enteredIn, broken>>
  BY DEF TickEnds
<1>2. eng' \in Engines /\ Up /\ Up'
  BY <1>1 DEF Engines, Phases, Up
<1>3. eng'.fails = eng.fails /\ eng'.paused = eng.paused /\ eng'.batch = {}
  BY <1>1 DEF Engines
<1>4. CountsAreTrue'
  BY <1>1, <1>2, <1>3 DEF CountsAreTrue, AutoPause
<1> QED
  BY <1>1, <1>2, <1>3, <1>4, MemoryStep

LEMMA SecondKeeps ==
  ASSUME IntakeInv, Second
  PROVE  IntakeInv'
<1> USE DEF IntakeInv, IntakeTypes
<1>1. /\ eng' = [eng EXCEPT !.ticked = FALSE, !.young = FALSE]
      /\ UNCHANGED <<log, verdict, floor, run, firedIn, enteredIn, broken>>
  BY DEF Second
<1>2. /\ eng' \in Engines /\ eng'.at = eng.at /\ eng'.fails = eng.fails
      /\ eng'.paused = eng.paused /\ eng'.batch = eng.batch
  BY <1>1 DEF Engines
<1>3. FloorIsOfThisRun' /\ BatchAboveFloor' /\ EnteredHasFired'
  BY <1>1, <1>2 DEF FloorIsOfThisRun, BatchAboveFloor, EnteredHasFired, Up, Fired
<1>4. CountsAreTrue'
  BY <1>1, <1>2 DEF CountsAreTrue, Up, AutoPause
<1> QED
  BY <1>1, <1>2, <1>3, <1>4

-----------------------------------------------------------------------------
LEMMA IntakeInvInit ==
  ASSUME IntakeAssumption, Init
  PROVE  IntakeInv
<1>1. IntakeTypes
  BY DownIsClean DEF Init, IntakeTypes
<1>2. FloorIsOfThisRun /\ BatchAboveFloor /\ EnteredHasFired
  BY DEF Init, FloorIsOfThisRun, BatchAboveFloor, EnteredHasFired, Up, Down
<1>3. CountsAreTrue
  BY DownIsClean DEF Init, CountsAreTrue, Up, Down
<1> QED
  BY <1>1, <1>2, <1>3 DEF IntakeInv

\* Every step keeps the invariant, one lemma for each action that touches it.
LEMMA IntakeInvNext ==
  ASSUME IntakeAssumption, IntakeInv, [Next]_vars
  PROVE  IntakeInv'
<1>1. CASE \E t \in Triggers : Fire(t) \/ Judge(t)
  BY <1>1, FireKeeps, JudgeKeeps
<1>2. CASE WriteStatus \/ FeedChanges \/ RunnerDies \/ RunnerStarts \/ DayMoves
  <2>1. UNCHANGED <<log, verdict, eng, floor, run, firedIn, enteredIn, broken>>
    BY <1>2 DEF WriteStatus, FeedChanges, RunnerDies, RunnerStarts, DayMoves
  <2> QED
    BY <2>1, ElsewhereKeeps
<1>3. CASE EngineStarts
  BY <1>3, EngineStartsKeeps
<1>4. CASE EngineDies
  BY <1>4, EngineDiesKeeps
<1>5. CASE EngineStep
  BY <1>5, TickBeginsKeeps, ReconcileKeeps, ProtectKeeps, CommandsKeep, HandleTriggerKeeps,
     TickEndsKeeps DEF EngineStep
<1>6. CASE Second
  BY <1>6, SecondKeeps
<1>7. CASE UNCHANGED vars
  BY <1>7, ElsewhereKeeps DEF vars
<1> QED
  BY <1>1, <1>2, <1>3, <1>4, <1>5, <1>6, <1>7 DEF Next

\* IntakeInv holds in every state of every run of the intake.
THEOREM IntakeInvariant == Spec => []IntakeInv
<1> USE IntakeAssumption
<1>1. Init => IntakeInv
  BY IntakeInvInit
<1>2. IntakeInv /\ [Next]_vars => IntakeInv'
  BY IntakeInvNext
<1> QED
  BY <1>1, <1>2, PTL DEF Spec

\* A process of the engine enters only triggers that fired while it was up
\* (run_execution_engine: the clean-start floor), however often engine and
\* runner die and start.
THEOREM EntersItsOwnOnly == Spec => []NothingFromBeforeStart
<1>1. IntakeInv => NothingFromBeforeStart
  BY DEF IntakeInv, EnteredHasFired, NothingFromBeforeStart
<1> QED
  BY <1>1, IntakeInvariant, PTL

\* Only HandleTrigger enters, and only where nothing is paused.
LEMMA EntryIsUnpaused ==
  ASSUME IntakeInv, [Next]_vars, NEW t \in Triggers, Entering(t)
  PROVE  Up /\ ~eng.paused
<1>1. CASE HandleTrigger
  <2>1. PICK c \in eng.batch : Leaves(c) \/ TurnsDown(c) \/ Enters(c)
    BY <1>1 DEF HandleTrigger
  <2>2. ~Leaves(c)
    BY DEF Leaves, Entering
  <2>3. CASE TurnsDown(c)
    BY <1>1, <2>3 DEF TurnsDown, HandleTrigger, Up
  <2>4. CASE Enters(c)
    BY <1>1, <2>4 DEF Enters, HandleTrigger, Up
  <2> QED
    BY <2>1, <2>2, <2>3, <2>4
<1>2. CASE Reconcile
  <2>1. row' = row \/ \E u \in Open : row' = [row EXCEPT ![u] = "closed"]
    BY <1>2 DEF Reconcile
  <2>2. row' # row
    BY DEF Entering
  <2>3. PICK u \in Open : row' = [row EXCEPT ![u] = "closed"]
    BY <2>1, <2>2
  <2>4. row[u] = "entered" /\ u # t
    BY DEF Open, Entering
  <2>5. row'[t] = row[t]
    BY <2>3, <2>4
  <2> QED
    BY <2>5 DEF Entering
<1>3. CASE UNCHANGED row
  BY <1>3 DEF Entering
<1>4. HandleTrigger \/ Reconcile \/ UNCHANGED row
  BY DEF Next, EngineStep, Fire, Judge, WriteStatus, FeedChanges, RunnerDies, RunnerStarts,
         EngineStarts, EngineDies, TickBegins, Protect, CommandsAndCandidates, TickEnds,
         Second, DayMoves, vars
<1> QED
  BY <1>1, <1>2, <1>3, <1>4

\* No entry is taken while a step has failed as often in a row as its
\* threshold, whatever the feed does meanwhile (engine_core.tick).
THEOREM EscalationIsHeld == Spec => EscalationHoldsEntries
<1> USE IntakeAssumption
<1>1. ASSUME IntakeInv, [Next]_vars
      PROVE  [(\E t \in Triggers : Entering(t)) => \A s \in Steps : broken[s] < Threshold[s]]_vars
  <2>1. SUFFICES ASSUME NEW t \in Triggers, Entering(t), NEW s \in Steps
                 PROVE  broken[s] < Threshold[s]
    OBVIOUS
  <2>2. Up /\ ~eng.paused
    BY <1>1, <2>1, EntryIsUnpaused
  <2>3. eng.fails = broken /\ ~AutoPause(eng.fails)
    BY <1>1, <2>2 DEF IntakeInv, CountsAreTrue
  <2>4. ~(broken[s] >= Threshold[s])
    BY <2>3 DEF AutoPause
  <2>5. broken[s] \in Nat /\ Threshold[s] \in Nat
    BY <1>1 DEF IntakeInv, IntakeTypes, IntakeAssumption
  <2> QED
    BY <2>4, <2>5
<1> QED
  BY <1>1, IntakeInvariant, PTL DEF Spec, EscalationHoldsEntries
=============================================================================
