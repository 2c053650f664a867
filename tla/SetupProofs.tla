------------------------------ MODULE SetupProofs ------------------------------
(***************************************************************************)
(* Proofs about the setups of a stock, for every session, bucket and       *)
(* window, and however often a row fails or the process ends.              *)
(*                                                                         *)
(* One worker does everything, so the invariant says what holds at each    *)
(* place it may be cut: which setup is in hand there, and in what state    *)
(* its runtime, its log and its arm are.                                   *)
(***************************************************************************)
EXTENDS SetupProperties, TLAPS

States == ActiveStates \cup TerminalStates \cup {"none"}
LogStates == ActiveStates \cup TerminalStates \cup {"SPIKE_ACCEPTED"}
Outcomes == {"TRIGGERED", "REJECTED"}
Verdicts == Outcomes \cup {"none", "DISARMED"}

Places == {"idle", "candle", "spike", "setup", "created", "accepted", "minute", "five",
           "ready", "arm", "enter", "structure", "end", "disarm", "tick", "decide",
           "close", "closed"}
\* Where the worker has a new spike in hand; where it has the active setup;
\* where it has one that continuation may have armed.
OfSpike == {"spike", "setup", "created", "accepted"}
OfSetup == {"ready", "arm", "enter", "end"}
OfArm == {"disarm", "decide", "close"}
AtSlot == OfSetup \cup {"structure"}

Runtimes == [state : States, seq : Nat, eval : Int, count : Nat, deep : 0 .. 2,
             breached : BOOLEAN]
Jobs == [at : Places, minute : Nat, whole : BOOLEAN, five : Int, id : Nat,
         state : Structural \cup Outcomes \cup {"none"}]

TypeOK ==
  /\ up \in {"run", "stopping", "closing", "flush", "down"}
  /\ clock \in Nat /\ now \in Nat /\ whole \in BOOLEAN
  /\ job \in Jobs
  /\ rt \in [Ids -> Runtimes] /\ slot \in Ids \cup {NoId} /\ degraded \in BOOLEAN
  /\ arm \in [Ids -> Verdicts \cup {"ARMED"}] /\ armed \in Ids \cup {NoId}
  /\ cdegraded \in BOOLEAN
  /\ log \in [Ids -> Seq(LogStates)] /\ decisions \in [Ids -> Verdicts]
  /\ faults \in Nat
  /\ job.at \in OfSpike \cup OfSetup \cup OfArm => job.id \in Ids
  /\ job.at \in AtSlot => slot \in Ids
  /\ job.at = "end" => job.state \in Structural
  /\ job.at = "decide" => job.state \in Outcomes

-----------------------------------------------------------------------------
(* The worker's job, and the records of the setups. *)

LEMMA IdsAreMinutes == Ids \subseteq Nat \ {NoId}
  BY SetupAssumption DEF Ids, NoId

LEMMA BucketIsInt == ASSUME NEW m \in Nat PROVE BucketOf(m) \in Int
  BY SetupAssumption DEF BucketOf

\* A worker that is idle, and a setup nobody has begun.
LEMMA NoJobIs ==
  /\ NoJob \in Jobs /\ NoJob.at = "idle" /\ NoJob.minute = 0 /\ NoJob.id = NoId
  /\ NoJob.five = 0
<1>1. \A f \in BOOLEAN : [at |-> "idle", minute |-> 0, whole |-> f, five |-> 0, id |-> NoId,
                          state |-> "none"] \in Jobs
  BY DEF Jobs, Places, NoId
<1>2. FALSE \in BOOLEAN
  OBVIOUS
<1>3. NoJob.at = "idle" /\ NoJob.minute = 0 /\ NoJob.id = NoId /\ NoJob.five = 0
  BY DEF NoJob
<1> QED
  BY <1>1, <1>2, <1>3, Zenon DEF NoJob

LEMMA NoRuntimeIs == NoRuntime \in Runtimes /\ NoRuntime.state = "none" /\ NoRuntime.seq = 0
<1>1. \A f \in BOOLEAN : [state |-> "none", seq |-> 0, eval |-> 0, count |-> 0, deep |-> 0,
                          breached |-> f] \in Runtimes
  BY DEF Runtimes, States
<1>2. FALSE \in BOOLEAN
  OBVIOUS
<1>3. NoRuntime.state = "none" /\ NoRuntime.seq = 0
  BY DEF NoRuntime
<1> QED
  BY <1>1, <1>2, <1>3, Zenon DEF NoRuntime

\* Going somewhere keeps the rest of the job, unless it is done.
LEMMA GoingOn ==
  ASSUME job \in Jobs, NEW w \in Places
  PROVE  /\ To(w) \in Jobs /\ To(w).at = w
         /\ w # "idle" => /\ To(w).minute = job.minute /\ To(w).five = job.five
                          /\ To(w).id = job.id /\ To(w).state = job.state
         /\ w = "idle" => To(w) = NoJob
<1>1. NoJob \in Jobs /\ NoJob.at = "idle"
  BY NoJobIs
<1>2. [job EXCEPT !.at = w] \in Jobs
  BY DEF Jobs
<1>3. /\ [job EXCEPT !.at = w].at = w /\ [job EXCEPT !.at = w].minute = job.minute
      /\ [job EXCEPT !.at = w].five = job.five /\ [job EXCEPT !.at = w].id = job.id
      /\ [job EXCEPT !.at = w].state = job.state
  BY DEF Jobs
<1> QED
  BY <1>1, <1>2, <1>3, Zenon DEF To

\* A row that is written moves the state and counts one more.
LEMMA RecordMoves ==
  ASSUME NEW r \in Runtimes, NEW s \in States
  PROVE  /\ [r EXCEPT !.state = s, !.seq = @ + 1] \in Runtimes
         /\ [r EXCEPT !.state = s, !.seq = @ + 1].state = s
         /\ [r EXCEPT !.state = s, !.seq = @ + 1].seq = r.seq + 1
         /\ [r EXCEPT !.state = s] \in Runtimes
         /\ [r EXCEPT !.state = s].state = s /\ [r EXCEPT !.state = s].seq = r.seq
         /\ [r EXCEPT !.seq = @ + 1] \in Runtimes
         /\ [r EXCEPT !.seq = @ + 1].state = r.state
         /\ [r EXCEPT !.seq = @ + 1].seq = r.seq + 1
<1>0. \A n \in Nat : [r EXCEPT !.state = s, !.seq = n] \in Runtimes
  BY DEF Runtimes
<1>1. [r EXCEPT !.state = s, !.seq = @ + 1] \in Runtimes
  <2>1. r.seq + 1 \in Nat
    BY DEF Runtimes
  <2> QED
    BY <1>0, <2>1, Zenon
<1>2. [r EXCEPT !.state = s] \in Runtimes
  BY DEF Runtimes
<1>3. [r EXCEPT !.seq = @ + 1] \in Runtimes
  BY DEF Runtimes
<1> QED
  BY <1>1, <1>2, <1>3 DEF Runtimes

\* What a candle tells a setup changes neither its state nor its place.
LEMMA CandleTold ==
  ASSUME NEW r \in Runtimes, NEW c \in Candles, job \in Jobs
  PROVE  /\ Updated(r, c) \in Runtimes
         /\ Updated(r, c).state = r.state /\ Updated(r, c).seq = r.seq
<1>1. c.depth \in 0 .. 2 /\ (r.breached \/ c.breach) \in BOOLEAN /\ job.five \in Int
  BY DEF Candles, Jobs
<1>2. \A d \in 0 .. 2, b \in BOOLEAN, n \in Nat, e \in Int :
        /\ [r EXCEPT !.eval = e, !.deep = d, !.breached = b, !.count = n] \in Runtimes
        /\ [r EXCEPT !.eval = e, !.deep = d, !.breached = b, !.count = n].state = r.state
        /\ [r EXCEPT !.eval = e, !.deep = d, !.breached = b, !.count = n].seq = r.seq
  BY DEF Runtimes
<1>3. (IF r.deep < c.depth THEN c.depth ELSE r.deep) \in 0 .. 2
  BY <1>1 DEF Runtimes
<1>4. (IF r.count <= MaxPullback /\ r.state = "PULLBACK_MONITORING"
       THEN r.count + 1 ELSE r.count) \in Nat
  BY DEF Runtimes
<1> DEFINE d == IF r.deep < c.depth THEN c.depth ELSE r.deep
           n == IF r.count <= MaxPullback /\ r.state = "PULLBACK_MONITORING"
                THEN r.count + 1 ELSE r.count
           b == r.breached \/ c.breach
           e == job.five
<1>5. Updated(r, c) = [r EXCEPT !.eval = e, !.deep = d, !.breached = b, !.count = n]
  BY Zenon DEF Updated
<1>6. d \in 0 .. 2 /\ b \in BOOLEAN /\ n \in Nat /\ e \in Int
  BY <1>1, <1>3, <1>4, Zenon
<1> HIDE DEF d, n, b, e
<1> DEFINE u == [r EXCEPT !.eval = e, !.deep = d, !.breached = b, !.count = n]
<1>7. u \in Runtimes
  BY <1>2, <1>6, Zenon
<1>8. u.state = r.state
  BY <1>2, <1>6, ZenonT(30)
<1>9. u.seq = r.seq
  BY <1>2, <1>6, ZenonT(30)
<1> HIDE DEF u
<1> QED
  BY <1>5, <1>7, <1>8, <1>9, Zenon DEF u

\* A judgement leads to the end, to READY, or away.
LEMMA VerdictLeads ==
  ASSUME job \in Jobs, slot \in Ids, NEW judged
  PROVE  /\ Verdict(judged) \in Jobs
         /\ judged \in Structural => /\ Verdict(judged).at = "end" /\ Verdict(judged).id = slot
                                     /\ Verdict(judged).state = judged
         /\ judged = "PULLBACK_READY" => /\ Verdict(judged).at = "ready"
                                         /\ Verdict(judged).id = slot
         /\ judged \notin Structural \cup {"PULLBACK_READY"} =>
              Verdict(judged) = To(After)
         /\ Verdict(judged).at \in {"end", "ready", "idle", "tick"}
         /\ job.minute # 0 /\ Verdict(judged).at # "idle" => Verdict(judged).minute = job.minute
<1>1. slot \in Nat /\ After \in {"idle", "tick"} /\ After \in Places
  BY IdsAreMinutes DEF After, Places
<1>2. To(After) \in Jobs /\ To(After).at = After
      /\ (After # "idle" => To(After).minute = job.minute)
  BY <1>1, GoingOn
<1>3. CASE judged \in Structural
  <2>1. Verdict(judged) = [job EXCEPT !.at = "end", !.id = slot, !.state = judged]
    BY <1>3 DEF Verdict, Structural
  <2> QED
    BY <1>1, <1>3, <2>1 DEF Jobs, Places, Structural
<1>4. CASE judged = "PULLBACK_READY"
  <2>1. Verdict(judged) = [job EXCEPT !.at = "ready", !.id = slot]
    BY <1>4 DEF Verdict, Structural
  <2> QED
    BY <1>1, <1>4, <2>1 DEF Jobs, Places, Structural
<1>5. CASE judged \notin Structural \cup {"PULLBACK_READY"}
  <2>1. Verdict(judged) = To(After)
    BY <1>5 DEF Verdict
  <2> QED
    BY <1>1, <1>2, <1>5, <2>1
<1> QED
  BY <1>3, <1>4, <1>5

-----------------------------------------------------------------------------
(* The types. *)

\* The part of TypeOK that is not about the job.
Held ==
  /\ up \in {"run", "stopping", "closing", "flush", "down"}
  /\ clock \in Nat /\ now \in Nat /\ whole \in BOOLEAN
  /\ rt \in [Ids -> Runtimes] /\ slot \in Ids \cup {NoId} /\ degraded \in BOOLEAN
  /\ arm \in [Ids -> Verdicts \cup {"ARMED"}] /\ armed \in Ids \cup {NoId}
  /\ cdegraded \in BOOLEAN
  /\ log \in [Ids -> Seq(LogStates)] /\ decisions \in [Ids -> Verdicts]
  /\ faults \in Nat

InHand ==
  /\ job \in Jobs
  /\ job.at \in OfSpike \cup OfSetup \cup OfArm => job.id \in Ids
  /\ job.at \in AtSlot => slot \in Ids
  /\ job.at = "end" => job.state \in Structural
  /\ job.at = "decide" => job.state \in Outcomes

LEMMA TypeParts == TypeOK <=> Held /\ InHand
  BY DEF TypeOK, Held, InHand

LEMMA TypePartsNext == Held' /\ InHand' => TypeOK'
  BY DEF TypeOK, Held, InHand

LEMMA GoingAnywhere ==
  ASSUME TypeOK
  PROVE  \A w \in Places :
           /\ To(w) \in Jobs /\ To(w).at = w
           /\ w # "idle" => /\ To(w).minute = job.minute /\ To(w).five = job.five
                            /\ To(w).id = job.id /\ To(w).state = job.state
<1>1. job \in Jobs
  BY DEF TypeOK
<1> QED
  BY <1>1, GoingOn

LEMMA AfterIsAPlace == After \in {"idle", "tick"} /\ AfterEnd \in {"idle", "tick", "closed"}
  BY DEF After, AfterEnd

LEMMA InitType == Init => TypeOK
<1> SUFFICES ASSUME Init PROVE TypeOK
  OBVIOUS
<1>1. job \in Jobs /\ job.at = "idle"
  BY NoJobIs DEF Init
<1>2. NoRuntime \in Runtimes
  BY NoRuntimeIs
<1>3. Held
  <2>1. whole \in BOOLEAN /\ degraded \in BOOLEAN /\ cdegraded \in BOOLEAN
    BY Zenon DEF Init
  <2>2. rt \in [Ids -> Runtimes]
    BY <1>2, Zenon DEF Init
  <2>3. arm \in [Ids -> Verdicts \cup {"ARMED"}] /\ decisions \in [Ids -> Verdicts]
    BY DEF Init, Verdicts
  <2>4. log \in [Ids -> Seq(LogStates)]
    <3>1. <<>> \in Seq(LogStates)
      OBVIOUS
    <3> QED
      BY <3>1, Zenon DEF Init
  <2>5. /\ up \in {"run", "stopping", "closing", "flush", "down"}
        /\ clock \in Nat /\ now \in Nat /\ faults \in Nat
        /\ slot \in Ids \cup {NoId} /\ armed \in Ids \cup {NoId}
    BY DEF Init
  <2> QED
    BY <2>1, <2>2, <2>3, <2>4, <2>5, Zenon DEF Held
<1>4. InHand
  BY <1>1 DEF InHand, OfSpike, OfSetup, OfArm, AtSlot
<1> QED
  BY <1>3, <1>4, TypeParts

\* The steps that leave the setups alone.
LEMMA HeldStays ==
  ASSUME TypeOK, UNCHANGED <<rt, slot, degraded, arm, armed, cdegraded, log, decisions>>,
         up' \in {"run", "stopping", "closing", "flush", "down"}, clock' \in Nat,
         now' \in Nat, whole' \in BOOLEAN, faults' \in Nat
  PROVE  Held'
<1>1. Held
  BY TypeParts
<1>2. /\ rt' \in [Ids -> Runtimes] /\ slot' \in Ids \cup {NoId}
      /\ arm' \in [Ids -> Verdicts \cup {"ARMED"}] /\ armed' \in Ids \cup {NoId}
      /\ log' \in [Ids -> Seq(LogStates)] /\ decisions' \in [Ids -> Verdicts]
  BY <1>1, Zenon DEF Held
<1>3. degraded' \in BOOLEAN /\ cdegraded' \in BOOLEAN
  BY <1>1, Zenon DEF Held
<1> QED
  BY <1>2, <1>3, Zenon DEF Held

LEMMA TakeTickType ==
  ASSUME TypeOK, TakeTick \/ TakeLateTick
  PROVE  TypeOK'
<1>0. NoJob \in Jobs /\ TypeOK /\ now \in Nat /\ clock \in Nat
  BY NoJobIs DEF TypeOK
<1>1. PICK w \in {"tick", "candle"}, m \in Nat :
        job' = [NoJob EXCEPT !.at = w, !.minute = m]
  <2>1. CASE TakeTick
    <3>1. PICK k \in clock .. LastMinute :
            job' = [NoJob EXCEPT !.at = FirstFor(now # 0 /\ k > now), !.minute = k]
      BY <2>1, Zenon DEF TakeTick
    <3>2. k \in Nat
      BY <1>0, SetupAssumption
    <3> QED
      BY <3>1, <3>2 DEF FirstFor
  <2>2. CASE TakeLateTick
    <3>1. now - 1 \in Nat /\ job' = [NoJob EXCEPT !.at = "tick", !.minute = now - 1]
      BY <1>0, <2>2 DEF TakeLateTick
    <3> QED
      BY <3>1
  <2> QED
    BY <2>1, <2>2
<1>2. job' \in Jobs /\ job'.at = w
  BY <1>0, <1>1 DEF Jobs, Places
<1>3. InHand'
  BY <1>2 DEF InHand, OfSpike, OfSetup, OfArm, AtSlot
<1>4. /\ up' = up /\ whole' = whole /\ faults' = faults /\ clock' \in Nat /\ now' \in Nat
      /\ UNCHANGED <<rt, slot, degraded, arm, armed, cdegraded, log, decisions>>
  <2>1. CASE TakeTick
    <3>1. PICK n \in clock .. LastMinute :
            now' = (IF now = 0 THEN n ELSE now) /\ clock' = n
      BY <2>1, Zenon DEF TakeTick
    <3>2. n \in Nat
      BY <1>0, SetupAssumption
    <3>3. /\ up' = up /\ whole' = whole /\ faults' = faults
          /\ UNCHANGED <<rt, slot, degraded, arm, armed, cdegraded, log, decisions>>
      BY <2>1 DEF TakeTick, ledger
    <3> QED
      BY <1>0, <3>1, <3>2, <3>3
  <2>2. CASE TakeLateTick
    BY <1>0, <2>2 DEF TakeLateTick, memory, ledger
  <2> QED
    BY <2>1, <2>2
<1>5. Held'
  BY <1>4, HeldStays, Zenon DEF TypeOK
<1> QED
  BY <1>3, <1>5, TypePartsNext

LEMMA CandleDoneType ==
  ASSUME TypeOK, CandleDone
  PROVE  TypeOK'
<1>0. job \in Jobs /\ now \in Nat /\ up \in {"run", "stopping", "closing", "flush", "down"}
      /\ clock \in Nat /\ faults \in Nat /\ whole \in BOOLEAN
  BY Zenon DEF TypeOK
<1>1. Filled \in Int
  BY <1>0, BucketIsInt DEF Filled
<1>2. PICK w \in BOOLEAN, spike \in BOOLEAN :
        /\ spike => now \in Ids
        /\ job' = [job EXCEPT !.at = IF spike THEN "spike" ELSE "minute",
                              !.whole = w, !.five = Filled, !.id = now]
  BY DEF CandleDone
<1>3. \A p \in {"spike", "minute"} :
        /\ [job EXCEPT !.at = p, !.whole = w, !.five = Filled, !.id = now] \in Jobs
        /\ [job EXCEPT !.at = p, !.whole = w, !.five = Filled, !.id = now].at = p
        /\ [job EXCEPT !.at = p, !.whole = w, !.five = Filled, !.id = now].id = now
  BY <1>0, <1>1 DEF Jobs, Places
<1>4. InHand'
  <2>1. CASE spike
    BY <1>2, <1>3, <2>1 DEF InHand, OfSpike, OfSetup, OfArm, AtSlot
  <2>2. CASE ~spike
    BY <1>2, <1>3, <2>2 DEF InHand, OfSpike, OfSetup, OfArm, AtSlot
  <2> QED
    BY <2>1, <2>2
<1>5. UNCHANGED <<up, clock, now, whole, faults, rt, slot, degraded, arm, armed, cdegraded,
                  log, decisions>>
  BY DEF CandleDone, ledger
<1>6. Held'
  BY <1>0, <1>5, HeldStays, Zenon
<1> QED
  BY <1>4, <1>6, TypePartsNext

\* A job that goes on is in hand wherever its setup is known.
LEMMA GoneOn ==
  ASSUME TypeOK, NEW w \in Places, job' = To(w), slot' = slot,
         w \in OfSpike \cup OfSetup \cup OfArm => job.id \in Ids,
         w \in AtSlot => slot \in Ids, w \notin {"end", "decide"}
  PROVE  InHand'
<1>1. job' \in Jobs /\ job'.at = w /\ (w # "idle" => job'.id = job.id)
  BY GoingAnywhere
<1>2. "idle" \notin OfSpike \cup OfSetup \cup OfArm \cup AtSlot
  BY DEF OfSpike, OfSetup, OfArm, AtSlot
<1> QED
  BY <1>1, <1>2 DEF InHand

-----------------------------------------------------------------------------
(* What a step does to the setup in the slot: it is advanced by a row, or    *)
(* kept as it was, whether a row of it failed or none was due.               *)

Advanced(s) ==
  /\ \E r \in Runtimes : /\ rt' = [rt EXCEPT ![slot] = r]
                         /\ r.state = s /\ r.seq = R.seq + 1
  /\ log' = [log EXCEPT ![slot] = Append(@, s)]

Kept ==
  /\ \E r \in Runtimes : /\ rt' = [rt EXCEPT ![slot] = r]
                         /\ r.state = R.state /\ r.seq = R.seq
  /\ log' = log

Well == faults' = faults /\ missed' = missed /\ degraded' = degraded
Ill == faults' = faults + 1 /\ missed' = missed \cup {slot} /\ degraded' \in BOOLEAN

SlotFrame == UNCHANGED <<up, clock, now, whole, slot, arm, armed, cdegraded, spikes, setups,
                         arms, decisions>>

SlotStep == (\E s \in ActiveStates : Advanced(s) /\ Well) \/ (Kept /\ (Well \/ Ill))

LEMMA SlotHasRuntime ==
  ASSUME TypeOK, slot \in Ids PROVE R \in Runtimes
  BY Zenon DEF TypeOK, R

\* Which setup a failed row is charged to.
LEMMA FaultIsIll ==
  ASSUME TypeOK, job.at \notin {"setup", "created", "accepted"}, Fault,
         degraded' = TRUE \/ degraded' = degraded
  PROVE  Ill
<1>1. degraded' \in BOOLEAN
  BY Zenon DEF TypeOK
<1>2. Subject = slot
  BY Zenon DEF Subject
<1> QED
  BY <1>1, <1>2, Zenon DEF Fault, Ill

\* A write at the slot, told apart: the row is written, or the setup is kept.
LEMMA RowWritten ==
  ASSUME NEW u \in Runtimes, NEW s \in States, u.state = s, u.seq = R.seq + 1,
         log' = [log EXCEPT ![slot] = Append(@, s)], rt' = [rt EXCEPT ![slot] = u],
         UNCHANGED <<faults, degraded, missed>>
  PROVE  Advanced(s) /\ Well
  BY Zenon DEF Advanced, Well

LEMMA RowFailed ==
  ASSUME TypeOK, job.at \notin {"setup", "created", "accepted"},
         NEW r \in Runtimes, r.state = R.state, r.seq = R.seq,
         log' = log, rt' = [rt EXCEPT ![slot] = r],
         Fault, degraded' = TRUE \/ degraded' = degraded
  PROVE  Kept /\ Ill
<1>1. Kept
  BY Zenon DEF Kept
<1>2. Ill
  BY FaultIsIll, Zenon
<1> QED
  BY <1>1, <1>2

LEMMA MovedStep ==
  ASSUME TypeOK, slot \in Ids, job.at \notin {"setup", "created", "accepted"},
         NEW r \in Runtimes, r.state = R.state, r.seq = R.seq, NEW s \in States,
         Moved(slot, r, s)
  PROVE  /\ (Advanced(s) /\ Well) \/ (Kept /\ Ill)
         /\ job' = To(After)
<1> DEFINE u == [r EXCEPT !.state = s, !.seq = @ + 1]
<1>1. u \in Runtimes /\ u.state = s /\ u.seq = R.seq + 1
  <2>1. u \in Runtimes
    BY RecordMoves, Zenon
  <2>2. u.state = s
    BY RecordMoves, Zenon
  <2>3. u.seq = r.seq + 1
    BY RecordMoves, Zenon
  <2> HIDE DEF u
  <2> QED
    BY <2>1, <2>2, <2>3
<1>2. job' = To(After)
  BY DEF Moved, Write
<1>3. CASE /\ log' = [log EXCEPT ![slot] = Append(@, s)] /\ rt' = [rt EXCEPT ![slot] = u]
           /\ UNCHANGED <<faults, degraded, missed>>
  <2> HIDE DEF u
  <2> QED
    BY <1>1, <1>2, <1>3, RowWritten, Zenon
<1>4. CASE /\ log' = log /\ rt' = [rt EXCEPT ![slot] = r] /\ Fault
           /\ degraded' = TRUE \/ degraded' = degraded
  BY <1>2, <1>4, RowFailed, Zenon
<1> QED
  BY <1>3, <1>4 DEF Moved, Write, Logged

LEMMA FiveAtSlot ==
  ASSUME TypeOK, At("five"), ~NoEngine
  PROVE  slot \in Ids /\ job.at = "five" /\ R \in Runtimes
<1>1. slot \in Ids
  BY DEF TypeOK, NoEngine
<1> QED
  BY <1>1, SlotHasRuntime DEF At

LEMMA FreezeStep ==
  ASSUME TypeOK, FreezeImpulse
  PROVE  /\ slot \in Ids /\ job.at = "five" /\ SlotFrame /\ broken' = broken
         /\ R.state = "IMPULSE_MONITORING" /\ job' = To(After)
         /\ (Advanced("PULLBACK_MONITORING") /\ Well) \/ (Kept /\ Ill)
<1>1. slot \in Ids /\ job.at = "five" /\ R \in Runtimes /\ job.five \in Int
  BY FiveAtSlot DEF FreezeImpulse, TypeOK, Jobs
<1>2. [R EXCEPT !.eval = job.five] \in Runtimes
      /\ [R EXCEPT !.eval = job.five].state = R.state
      /\ [R EXCEPT !.eval = job.five].seq = R.seq
  BY <1>1 DEF Runtimes
<1>3. Moved(slot, [R EXCEPT !.eval = job.five], "PULLBACK_MONITORING")
      /\ R.state = "IMPULSE_MONITORING" /\ SlotFrame /\ broken' = broken
  BY DEF FreezeImpulse, SlotFrame
<1>4. "PULLBACK_MONITORING" \in States
  BY DEF States, ActiveStates
<1> QED
  BY <1>1, <1>2, <1>3, <1>4, MovedStep

LEMMA EnterStep ==
  ASSUME TypeOK, EnterContinuation
  PROVE  /\ slot \in Ids /\ job.at = "enter" /\ SlotFrame /\ broken' = broken
         /\ job' = To(After)
         /\ (Advanced("CONTINUATION_MONITORING") /\ Well) \/ (Kept /\ Ill)
<1>1. job.at = "enter" /\ SlotFrame /\ broken' = broken
      /\ Moved(slot, R, "CONTINUATION_MONITORING")
  BY DEF EnterContinuation, At, SlotFrame
<1>2. slot \in Ids
  BY <1>1 DEF TypeOK, AtSlot, OfSetup, OfArm
<1>3. R \in Runtimes /\ "CONTINUATION_MONITORING" \in States
  BY <1>2, SlotHasRuntime DEF States, ActiveStates
<1> QED
  BY <1>1, <1>2, <1>3, MovedStep

\* The runtime is left as it is.
LEMMA KeptAsItIs ==
  ASSUME TypeOK, slot \in Ids, log' = log, rt' = rt PROVE Kept
<1>1. R \in Runtimes /\ rt' = [rt EXCEPT ![slot] = R]
  BY SlotHasRuntime DEF TypeOK, R
<1> QED
  BY <1>1, Zenon DEF Kept

LEMMA ReadyStep ==
  ASSUME TypeOK, WriteReady
  PROVE  /\ slot \in Ids /\ job.at = "ready" /\ SlotFrame /\ broken' = broken
         /\ \/ Advanced("PULLBACK_READY") /\ Well /\ job' = To("arm")
            \/ Kept /\ Ill /\ job' = To(After)
<1>1. job.at = "ready" /\ SlotFrame /\ broken' = broken
  BY DEF WriteReady, At, SlotFrame
<1>2. slot \in Ids
  BY <1>1 DEF TypeOK, AtSlot, OfSetup, OfArm
<1>3. R \in Runtimes /\ "PULLBACK_READY" \in States
  BY <1>2, SlotHasRuntime DEF States, ActiveStates
<1> DEFINE u == [R EXCEPT !.state = "PULLBACK_READY", !.seq = @ + 1]
<1>4. u \in Runtimes /\ u.state = "PULLBACK_READY" /\ u.seq = R.seq + 1
  BY <1>3, RecordMoves, Zenon
<1>5. CASE /\ log' = [log EXCEPT ![slot] = Append(@, "PULLBACK_READY")]
           /\ rt' = [rt EXCEPT ![slot] = u] /\ job' = To("arm")
           /\ UNCHANGED <<faults, degraded, missed>>
  <2> HIDE DEF u
  <2> QED
    BY <1>1, <1>2, <1>3, <1>4, <1>5, RowWritten, Zenon
<1>6. CASE /\ log' = log /\ rt' = rt /\ Fault /\ job' = To(After)
           /\ degraded' = TRUE \/ degraded' = degraded
  <2>1. Kept
    BY <1>2, <1>6, KeptAsItIs
  <2>2. Ill
    BY <1>1, <1>6, FaultIsIll
  <2> QED
    BY <1>1, <1>2, <1>6, <2>1, <2>2
<1> QED
  BY <1>5, <1>6 DEF WriteReady, Write, Logged, Set

LEMMA ReEnterStep ==
  ASSUME TypeOK, ReEnter
  PROVE  /\ slot \in Ids /\ job.at = "five" /\ SlotFrame /\ broken' = broken
         /\ R.state = "PULLBACK_READY"
         /\ \/ Advanced("CONTINUATION_MONITORING") /\ Well /\ job' = To("structure")
            \/ Kept /\ Ill /\ job' \in {To("structure"), To(After)}
<1>1. /\ slot \in Ids /\ job.at = "five" /\ R \in Runtimes /\ SlotFrame /\ broken' = broken
      /\ R.state = "PULLBACK_READY"
  BY FiveAtSlot DEF ReEnter, SlotFrame
<1>2. "CONTINUATION_MONITORING" \in States
  BY DEF States, ActiveStates
<1> DEFINE u == [R EXCEPT !.state = "CONTINUATION_MONITORING", !.seq = @ + 1]
<1>4. u \in Runtimes /\ u.state = "CONTINUATION_MONITORING" /\ u.seq = R.seq + 1
  BY <1>1, <1>2, RecordMoves, Zenon
<1>5. CASE /\ log' = [log EXCEPT ![slot] = Append(@, "CONTINUATION_MONITORING")]
           /\ rt' = [rt EXCEPT ![slot] = u] /\ job' = To("structure")
           /\ UNCHANGED <<faults, degraded, missed>>
  <2> HIDE DEF u
  <2> QED
    BY <1>1, <1>2, <1>4, <1>5, RowWritten, Zenon
<1>6. CASE /\ log' = log /\ rt' = rt /\ Fault /\ job' \in {To("structure"), To(After)}
           /\ degraded' = TRUE \/ degraded' = degraded
  <2>1. Kept
    BY <1>1, <1>6, KeptAsItIs
  <2>2. Ill
    BY <1>1, <1>6, FaultIsIll
  <2> QED
    BY <1>1, <1>6, <2>1, <2>2
<1> QED
  BY <1>5, <1>6 DEF ReEnter, Write, Logged, Set

\* A candle that breaks the structure is judged to end the setup.
LEMMA BreakIsJudged ==
  ASSUME NEW r, NEW c, Noted(r, c)
  PROVE  /\ \/ broken' = broken
            \/ broken' = broken \cup {slot} /\ Judgement(r, c) \in Structural
         /\ \/ broken' = broken
            \/ broken' = broken \cup {slot} /\ StructureOf(r, c) \in Structural
  BY DEF Noted, Judgement, StructureOf, Structural

LEMMA EvaluateStep ==
  ASSUME TypeOK, Evaluate
  PROVE  /\ slot \in Ids /\ job.at = "five" /\ SlotFrame /\ R.state = "PULLBACK_MONITORING"
         /\ \E judged :
              /\ broken' = broken \/ (broken' = broken \cup {slot} /\ judged \in Structural)
              /\ \/ /\ Advanced("PULLBACK_MONITORING") \/ Kept
                    /\ Well /\ job' = Verdict(judged)
                 \/ Kept /\ Ill /\ job' \in {Verdict(judged), To(After)}
<1>1. /\ slot \in Ids /\ job.at = "five" /\ R \in Runtimes /\ SlotFrame
      /\ R.state = "PULLBACK_MONITORING" /\ job \in Jobs
  BY FiveAtSlot DEF Evaluate, SlotFrame, TypeOK
<1>2. PICK c \in Candles :
        LET r == Updated(R, c)
            next == Verdict(Judgement(r, c))
        IN /\ IF r.breached /\ ~R.breached
              THEN Write(next, next, To(After),
                         Logged(slot, r.state) /\ Set([r EXCEPT !.seq = @ + 1]),
                         UNCHANGED log /\ Set(r))
              ELSE Set(r) /\ job' = next /\ UNCHANGED <<log, faults, degraded, missed>>
           /\ Noted(r, c)
  BY Zenon DEF Evaluate
<1> DEFINE r == Updated(R, c)
           judged == Judgement(r, c)
           u == [r EXCEPT !.seq = @ + 1]
<1>3. r \in Runtimes /\ r.state = "PULLBACK_MONITORING" /\ r.seq = R.seq
  BY <1>1, CandleTold, Zenon
<1>4. u \in Runtimes /\ u.state = r.state /\ u.seq = r.seq + 1
  <2> HIDE DEF r
  <2>1. r.state \in States
    BY <1>3 DEF Runtimes
  <2> QED
    BY <1>3, <2>1, RecordMoves, Zenon
<1>5. broken' = broken \/ (broken' = broken \cup {slot} /\ judged \in Structural)
  BY <1>2, BreakIsJudged, Zenon
<1>6. \/ /\ log' = [log EXCEPT ![slot] = Append(@, r.state)]
         /\ rt' = [rt EXCEPT ![slot] = u]
         /\ job' = Verdict(judged) /\ UNCHANGED <<faults, degraded, missed>>
      \/ /\ log' = log /\ rt' = [rt EXCEPT ![slot] = r] /\ Fault
         /\ job' \in {Verdict(judged), To(After)}
         /\ degraded' = TRUE \/ degraded' = degraded
      \/ /\ log' = log /\ rt' = [rt EXCEPT ![slot] = r]
         /\ job' = Verdict(judged) /\ UNCHANGED <<faults, degraded, missed>>
  BY <1>2 DEF Write, Logged, Set
<1> HIDE DEF r, judged, u
<1>7. CASE /\ log' = [log EXCEPT ![slot] = Append(@, r.state)]
           /\ rt' = [rt EXCEPT ![slot] = u]
           /\ job' = Verdict(judged) /\ UNCHANGED <<faults, degraded, missed>>
  <2>1. u.state = "PULLBACK_MONITORING" /\ u.seq = R.seq + 1
    BY <1>3, <1>4, Zenon
  <2>2. log' = [log EXCEPT ![slot] = Append(@, "PULLBACK_MONITORING")]
    BY <1>3, <1>7, Zenon
  <2>3. "PULLBACK_MONITORING" \in States
    BY DEF States, ActiveStates
  <2>4. Advanced("PULLBACK_MONITORING") /\ Well
    BY <1>4, <1>7, <2>1, <2>2, <2>3, RowWritten, Zenon
  <2> QED
    BY <1>1, <1>5, <1>7, <2>4, Zenon
<1>8. CASE /\ log' = log /\ rt' = [rt EXCEPT ![slot] = r] /\ Fault
           /\ job' \in {Verdict(judged), To(After)}
           /\ degraded' = TRUE \/ degraded' = degraded
  <2>1. Kept
    BY <1>1, <1>3, <1>8, Zenon DEF Kept
  <2>2. Ill
    BY <1>1, <1>8, FaultIsIll
  <2> QED
    BY <1>1, <1>5, <1>8, <2>1, <2>2, Zenon
<1>9. CASE /\ log' = log /\ rt' = [rt EXCEPT ![slot] = r]
           /\ job' = Verdict(judged) /\ UNCHANGED <<faults, degraded, missed>>
  <2>1. Kept
    BY <1>1, <1>3, <1>9, Zenon DEF Kept
  <2>2. Well
    BY <1>9, Zenon DEF Well
  <2> QED
    BY <1>1, <1>5, <1>9, <2>1, <2>2, Zenon
<1> QED
  BY <1>6, <1>7, <1>8, <1>9, Zenon

LEMMA StructureStep ==
  ASSUME TypeOK, Structure
  PROVE  /\ slot \in Ids /\ SlotFrame
         /\ job.at = "structure" \/ (job.at = "five" /\ R.state = "CONTINUATION_MONITORING")
         /\ Kept /\ Well
         /\ \E judged :
              /\ broken' = broken \/ (broken' = broken \cup {slot} /\ judged \in Structural)
              /\ judged # "PULLBACK_READY" /\ job' = Verdict(judged)
<1>1. /\ job.at = "structure" \/ (job.at = "five" /\ R.state = "CONTINUATION_MONITORING")
      /\ slot \in Ids
  BY FiveAtSlot DEF Structure, At, TypeOK, AtSlot
<1>2. R \in Runtimes /\ job \in Jobs /\ SlotFrame /\ Well /\ log' = log
  BY <1>1, SlotHasRuntime DEF Structure, ledger, SlotFrame, Well, TypeOK
<1>3. PICK c \in Candles :
        /\ rt' = [rt EXCEPT ![slot] = Updated(R, c)]
        /\ job' = Verdict(StructureOf(Updated(R, c), c)) /\ Noted(Updated(R, c), c)
  BY Zenon DEF Structure, Set
<1> DEFINE r == Updated(R, c)
           judged == StructureOf(r, c)
<1>4. r \in Runtimes /\ r.state = R.state /\ r.seq = R.seq
  BY <1>2, CandleTold, Zenon
<1>5. broken' = broken \/ (broken' = broken \cup {slot} /\ judged \in Structural)
  BY <1>3, BreakIsJudged, Zenon
<1>6. judged # "PULLBACK_READY"
  BY DEF StructureOf
<1>7. rt' = [rt EXCEPT ![slot] = r] /\ job' = Verdict(judged)
  BY <1>3, Zenon
<1> HIDE DEF r, judged
<1>8. Kept
  BY <1>2, <1>4, <1>7, Zenon DEF Kept
<1> QED
  BY <1>1, <1>2, <1>5, <1>6, <1>7, <1>8, Zenon

-----------------------------------------------------------------------------
(* The rows of a new setup, and those of its end.                          *)

SpikeIll == faults' = faults + 1 /\ missed' = missed \cup {job.id} /\ degraded' \in BOOLEAN

LEMMA FaultIsSpikeIll ==
  ASSUME TypeOK, job.at \in {"setup", "created", "accepted"}, Fault,
         degraded' = TRUE \/ degraded' = degraded
  PROVE  SpikeIll
<1>1. degraded' \in BOOLEAN
  BY Zenon DEF TypeOK
<1>2. Subject = job.id
  BY Zenon DEF Subject
<1> QED
  BY <1>1, <1>2, Zenon DEF Fault, SpikeIll

LEMMA InsertSetupStep ==
  ASSUME TypeOK, InsertSetup
  PROVE  /\ job.at = "setup" /\ ~Refused(job.id)
         /\ UNCHANGED <<up, clock, now, whole, rt, slot, arm, armed, cdegraded, spikes, log,
                        arms, decisions, broken>>
         /\ \/ setups' = setups \cup {job.id} /\ job' = To("created") /\ Well
            \/ setups' = setups /\ job' = To("minute") /\ SpikeIll
<1>1. /\ job.at = "setup" /\ ~Refused(job.id)
      /\ UNCHANGED <<up, clock, now, whole, rt, slot, arm, armed, cdegraded, spikes, log,
                     arms, decisions, broken>>
  BY DEF InsertSetup, At
<1>2. CASE setups' = setups \cup {job.id} /\ job' = To("created")
           /\ UNCHANGED <<faults, degraded, missed>>
  BY <1>1, <1>2, Zenon DEF Well
<1>3. CASE setups' = setups /\ job' = To("minute") /\ Fault
           /\ (degraded' = TRUE \/ degraded' = degraded)
  BY <1>1, <1>3, FaultIsSpikeIll
<1> QED
  BY <1>1, <1>2, <1>3 DEF InsertSetup, Write

LEMMA CreatedStep ==
  ASSUME TypeOK, AppendCreated
  PROVE  /\ job.at = "created"
         /\ UNCHANGED <<up, clock, now, whole, rt, slot, arm, armed, cdegraded, spikes, setups,
                        arms, decisions, broken>>
         /\ \/ /\ log' = [log EXCEPT ![job.id] = Append(@, "SPIKE_ACCEPTED")]
               /\ job' = To("accepted") /\ Well
            \/ log' = log /\ job' = To("minute") /\ SpikeIll
<1>1. /\ job.at = "created"
      /\ UNCHANGED <<up, clock, now, whole, rt, slot, arm, armed, cdegraded, spikes, setups,
                     arms, decisions, broken>>
  BY DEF AppendCreated, At
<1>2. CASE /\ log' = [log EXCEPT ![job.id] = Append(@, "SPIKE_ACCEPTED")]
           /\ job' = To("accepted") /\ UNCHANGED <<faults, degraded, missed>>
  BY <1>1, <1>2, Zenon DEF Well
<1>3. CASE log' = log /\ job' = To("minute") /\ Fault
           /\ (degraded' = TRUE \/ degraded' = degraded)
  BY <1>1, <1>3, FaultIsSpikeIll
<1> QED
  BY <1>1, <1>2, <1>3 DEF AppendCreated, Write, Logged

LEMMA AcceptedStep ==
  ASSUME TypeOK, AppendAccepted
  PROVE  /\ job.at = "accepted" /\ job' = To("minute")
         /\ UNCHANGED <<up, clock, now, whole, arm, armed, cdegraded, spikes, setups,
                        arms, decisions, broken>>
         /\ \/ /\ \E r \in Runtimes : /\ rt' = [rt EXCEPT ![job.id] = r]
                                      /\ r.state = "IMPULSE_MONITORING" /\ r.seq = 2
               /\ log' = [log EXCEPT ![job.id] = Append(@, "IMPULSE_MONITORING")]
               /\ slot' = job.id /\ Well
            \/ log' = log /\ rt' = rt /\ slot' = slot /\ SpikeIll
<1>1. /\ job.at = "accepted" /\ job' = To("minute")
      /\ UNCHANGED <<up, clock, now, whole, arm, armed, cdegraded, spikes, setups,
                     arms, decisions, broken>>
  BY DEF AppendAccepted, At, Write
<1> DEFINE u == [NoRuntime EXCEPT !.state = "IMPULSE_MONITORING", !.seq = 2]
<1>2. u \in Runtimes /\ u.state = "IMPULSE_MONITORING" /\ u.seq = 2
  <2>1. \A r \in Runtimes : /\ [r EXCEPT !.state = "IMPULSE_MONITORING", !.seq = 2] \in Runtimes
                            /\ [r EXCEPT !.state = "IMPULSE_MONITORING", !.seq = 2].state
                                 = "IMPULSE_MONITORING"
                            /\ [r EXCEPT !.state = "IMPULSE_MONITORING", !.seq = 2].seq = 2
    BY DEF Runtimes, States, ActiveStates
  <2> QED
    BY <2>1, NoRuntimeIs, Zenon
<1>3. CASE /\ log' = [log EXCEPT ![job.id] = Append(@, "IMPULSE_MONITORING")]
           /\ rt' = [rt EXCEPT ![job.id] = u]
           /\ slot' = job.id /\ UNCHANGED <<faults, degraded, missed>>
  <2> HIDE DEF u
  <2> QED
    BY <1>1, <1>2, <1>3, Zenon DEF Well
<1>4. CASE log' = log /\ rt' = rt /\ slot' = slot /\ Fault
           /\ (degraded' = TRUE \/ degraded' = degraded)
  BY <1>1, <1>4, FaultIsSpikeIll
<1> QED
  BY <1>1, <1>3, <1>4 DEF AppendAccepted, Write, Logged

LEMMA EndStep ==
  ASSUME TypeOK, WriteEnd
  PROVE  /\ job.at = "end" /\ job.id \in Ids /\ slot \in Ids /\ job.state \in Structural
         /\ UNCHANGED <<up, clock, now, whole, arm, armed, cdegraded, spikes, setups,
                        arms, decisions, broken>>
         /\ \/ /\ \E r \in Runtimes : /\ rt' = [rt EXCEPT ![job.id] = r]
                                      /\ r.state = job.state /\ r.seq = rt[job.id].seq + 1
               /\ log' = [log EXCEPT ![job.id] = Append(@, job.state)]
               /\ slot' = NoId /\ job' = To("disarm") /\ Well
            \/ log' = log /\ rt' = rt /\ slot' = slot /\ job' = To(AfterEnd) /\ Ill
<1>1. /\ job.at = "end"
      /\ UNCHANGED <<up, clock, now, whole, arm, armed, cdegraded, spikes, setups,
                     arms, decisions, broken>>
  BY DEF WriteEnd, At
<1>2. job.id \in Ids /\ slot \in Ids /\ job.state \in Structural
  BY <1>1 DEF TypeOK, AtSlot, OfSetup, OfArm
<1> DEFINE u == [rt[job.id] EXCEPT !.state = job.state, !.seq = @ + 1]
<1>3. rt[job.id] \in Runtimes
  BY <1>2 DEF TypeOK
<1>4. u \in Runtimes /\ u.state = job.state /\ u.seq = rt[job.id].seq + 1
  <2>1. job.state \in States
    BY <1>2 DEF States, TerminalStates
  <2> QED
    BY <1>3, <2>1, RecordMoves, Zenon
<1>5. CASE /\ log' = [log EXCEPT ![job.id] = Append(@, job.state)]
           /\ rt' = [rt EXCEPT ![job.id] = u]
           /\ slot' = NoId /\ job' = To("disarm") /\ UNCHANGED <<faults, degraded, missed>>
  <2> HIDE DEF u
  <2> QED
    BY <1>1, <1>2, <1>4, <1>5, Zenon DEF Well
<1>6. CASE log' = log /\ rt' = rt /\ slot' = slot /\ job' = To(AfterEnd) /\ Fault
           /\ (degraded' = TRUE \/ degraded' = degraded)
  BY <1>1, <1>2, <1>6, FaultIsIll
<1> QED
  BY <1>5, <1>6 DEF WriteEnd, Write, Logged

LEMMA CloseStep ==
  ASSUME TypeOK, Close
  PROVE  /\ job.at = "close" /\ job.id \in Ids /\ slot' = Freed(job.id) /\ job' = NoJob
         /\ UNCHANGED <<up, clock, now, whole, degraded, arm, armed, cdegraded, spikes, setups,
                        arms, decisions, broken, missed>>
         /\ \/ /\ rt[job.id].state # "CONTINUATION_MONITORING"
               /\ rt' = rt /\ log' = log /\ faults' = faults
            \/ /\ rt[job.id].state = "CONTINUATION_MONITORING"
               /\ \E out \in ContinuationStates, u \in Runtimes :
                    /\ rt' = [rt EXCEPT ![job.id] = u] /\ u.state = out
                    /\ \/ /\ log' = [log EXCEPT ![job.id] = Append(@, out)]
                          /\ u.seq = rt[job.id].seq + 1 /\ faults' = faults
                       \/ log' = log /\ u.seq = rt[job.id].seq /\ faults' = faults + 1
<1>1. job.at = "close" /\ slot' = Freed(job.id) /\ job' = NoJob
      /\ UNCHANGED <<up, clock, now, whole, degraded, arm, armed, cdegraded, spikes, setups,
                     arms, decisions, broken, missed>>
  BY DEF Close, At, Go, To
<1>2. job.id \in Ids
  BY <1>1 DEF TypeOK, OfSetup, OfArm
<1> DEFINE out == IF job.state = "TRIGGERED" THEN "CONTINUATION_TRIGGERED"
                  ELSE "CONTINUATION_REJECTED"
           r == rt[job.id]
           u == [r EXCEPT !.state = out, !.seq = @ + 1]
           v == [r EXCEPT !.state = out]
<1>3. out \in ContinuationStates /\ out \in States
  BY DEF ContinuationStates, States, TerminalStates
<1>4. r \in Runtimes
  BY <1>2 DEF TypeOK
<1>5. \/ r.state # "CONTINUATION_MONITORING" /\ rt' = rt /\ log' = log /\ faults' = faults
      \/ /\ r.state = "CONTINUATION_MONITORING" /\ rt' = [rt EXCEPT ![job.id] = u]
         /\ log' = [log EXCEPT ![job.id] = Append(@, out)] /\ faults' = faults
      \/ /\ r.state = "CONTINUATION_MONITORING" /\ rt' = [rt EXCEPT ![job.id] = v]
         /\ log' = log /\ faults' = faults + 1
  BY DEF Close, Logged
<1>6. u \in Runtimes /\ u.state = out /\ u.seq = r.seq + 1
  <2> HIDE DEF r, out
  <2> QED
    BY <1>3, <1>4, RecordMoves, Zenon
<1>7. v \in Runtimes /\ v.state = out /\ v.seq = r.seq
  <2> HIDE DEF r, out
  <2> QED
    BY <1>3, <1>4, RecordMoves, Zenon
<1> HIDE DEF u, v, out
<1> QED
  BY <1>1, <1>2, <1>3, <1>5, <1>6, <1>7, Zenon

-----------------------------------------------------------------------------
(* The types, continued.                                                   *)

LEMMA LogGrows ==
  ASSUME TypeOK, NEW id \in Ids, NEW s \in LogStates
  PROVE  [log EXCEPT ![id] = Append(@, s)] \in [Ids -> Seq(LogStates)]
  BY DEF TypeOK

LEMMA FrameHeld ==
  ASSUME TypeOK, UNCHANGED <<up, clock, now, whole, arm, armed, cdegraded, decisions>>,
         rt' \in [Ids -> Runtimes], log' \in [Ids -> Seq(LogStates)],
         slot' \in Ids \cup {NoId}, degraded' \in BOOLEAN, faults' \in Nat
  PROVE  Held'
<1>1. Held
  BY TypeParts
<1>2. /\ up' \in {"run", "stopping", "closing", "flush", "down"}
      /\ clock' \in Nat /\ now' \in Nat
      /\ arm' \in [Ids -> Verdicts \cup {"ARMED"}] /\ armed' \in Ids \cup {NoId}
      /\ decisions' \in [Ids -> Verdicts]
  BY <1>1, Zenon DEF Held
<1>3. whole' \in BOOLEAN /\ cdegraded' \in BOOLEAN
  BY <1>1, Zenon DEF Held
<1> QED
  BY <1>2, <1>3, Zenon DEF Held

LEMMA WellOrIll ==
  ASSUME TypeOK, Well \/ Ill \/ SpikeIll
  PROVE  faults' \in Nat /\ degraded' \in BOOLEAN
<1>1. faults \in Nat /\ degraded \in BOOLEAN
  BY Zenon DEF TypeOK
<1>2. CASE Well
  BY <1>1, <1>2, Zenon DEF Well
<1>3. CASE Ill
  BY <1>1, <1>3 DEF Ill
<1>4. CASE SpikeIll
  BY <1>1, <1>4 DEF SpikeIll
<1> QED
  BY <1>2, <1>3, <1>4

LEMMA SlotStepHeld ==
  ASSUME TypeOK, slot \in Ids, SlotStep, SlotFrame
  PROVE  Held'
<1>1. rt \in [Ids -> Runtimes] /\ log \in [Ids -> Seq(LogStates)]
  BY DEF TypeOK
<1>2. rt' \in [Ids -> Runtimes]
  BY <1>1 DEF SlotStep, Advanced, Kept
<1>3. ActiveStates \subseteq LogStates
  BY DEF LogStates
<1>4. log' \in [Ids -> Seq(LogStates)]
  <2>1. CASE log' = log
    BY <1>1, <2>1
  <2>2. ASSUME NEW s \in ActiveStates, log' = [log EXCEPT ![slot] = Append(@, s)]
        PROVE  log' \in [Ids -> Seq(LogStates)]
    <3>1. s \in LogStates
      BY <1>3
    <3> QED
      BY <2>2, <3>1, LogGrows, Zenon
  <2> QED
    BY <2>1, <2>2, Zenon DEF SlotStep, Advanced, Kept
<1>5. faults' \in Nat /\ degraded' \in BOOLEAN
  BY WellOrIll DEF SlotStep
<1>6. slot' \in Ids \cup {NoId}
  BY DEF SlotFrame
<1>7. UNCHANGED <<up, clock, now, whole, arm, armed, cdegraded, decisions>>
  BY DEF SlotFrame
<1> QED
  BY <1>2, <1>4, <1>5, <1>6, <1>7, FrameHeld

LEMMA SlotStepType ==
  ASSUME TypeOK,
         FreezeImpulse \/ Evaluate \/ WriteReady \/ EnterContinuation \/ ReEnter \/ Structure
  PROVE  TypeOK'
<1>0. /\ After \in {"idle", "tick"} /\ After \in Places
      /\ {"PULLBACK_MONITORING", "PULLBACK_READY", "CONTINUATION_MONITORING"} \subseteq ActiveStates
      /\ {"arm", "structure"} \subseteq Places
      /\ job \in Jobs
  BY AfterIsAPlace DEF Places, ActiveStates, TypeOK
<1>1. slot \in Ids /\ SlotFrame /\ SlotStep
  <2>1. CASE FreezeImpulse
    BY <1>0, <2>1, FreezeStep, Zenon DEF SlotStep
  <2>2. CASE Evaluate
    BY <1>0, <2>2, EvaluateStep, Zenon DEF SlotStep
  <2>3. CASE WriteReady
    BY <1>0, <2>3, ReadyStep, Zenon DEF SlotStep
  <2>4. CASE EnterContinuation
    BY <1>0, <2>4, EnterStep, Zenon DEF SlotStep
  <2>5. CASE ReEnter
    BY <1>0, <2>5, ReEnterStep, Zenon DEF SlotStep
  <2>6. CASE Structure
    BY <1>0, <2>6, StructureStep, Zenon DEF SlotStep
  <2> QED
    BY <2>1, <2>2, <2>3, <2>4, <2>5, <2>6
<1>2. Held'
  BY <1>1, SlotStepHeld
<1>3. slot' = slot
  BY <1>1 DEF SlotFrame
<1>4. \/ \E judged : job' = Verdict(judged)
      \/ job' = To(After)
      \/ job.at = "ready" /\ job' = To("arm")
      \/ job' = To("structure")
  <2>1. CASE FreezeImpulse
    BY <2>1, FreezeStep, Zenon
  <2>2. CASE Evaluate
    BY <2>2, EvaluateStep
  <2>3. CASE WriteReady
    BY <2>3, ReadyStep, Zenon
  <2>4. CASE EnterContinuation
    BY <2>4, EnterStep, Zenon
  <2>5. CASE ReEnter
    BY <2>5, ReEnterStep
  <2>6. CASE Structure
    BY <2>6, StructureStep, Zenon
  <2> QED
    BY <2>1, <2>2, <2>3, <2>4, <2>5, <2>6
<1>5. InHand'
  <2>1. ASSUME NEW judged, job' = Verdict(judged) PROVE InHand'
    <3>1. /\ job' \in Jobs /\ job'.at \in {"end", "ready", "idle", "tick"}
          /\ job'.at = "end" => job'.id = slot /\ job'.state \in Structural
          /\ job'.at = "ready" => job'.id = slot
      <4>1. CASE judged \in Structural
        BY <1>0, <1>1, <2>1, <4>1, VerdictLeads
      <4>2. CASE judged = "PULLBACK_READY"
        BY <1>0, <1>1, <2>1, <4>2, VerdictLeads
      <4>3. CASE judged \notin Structural \cup {"PULLBACK_READY"}
        <5>1. job' = To(After)
          BY <1>0, <1>1, <2>1, <4>3, VerdictLeads
        <5>2. job' \in Jobs /\ job'.at = After
          BY <1>0, <5>1, GoingAnywhere
        <5> QED
          BY <1>0, <5>2
      <4> QED
        BY <4>1, <4>2, <4>3
    <3> QED
      BY <1>1, <1>3, <3>1 DEF InHand, OfSpike, OfSetup, OfArm, AtSlot
  <2>2. CASE job' = To(After)
    BY <1>0, <1>3, <2>2, GoneOn DEF OfSpike, OfSetup, OfArm, AtSlot
  <2>3. CASE job.at = "ready" /\ job' = To("arm")
    <3>1. job.id \in Ids
      BY <2>3 DEF TypeOK, OfSetup, OfArm
    <3> QED
      BY <1>0, <1>1, <1>3, <2>3, <3>1, GoneOn
  <2>4. CASE job' = To("structure")
    BY <1>0, <1>1, <1>3, <2>4, GoneOn DEF OfSpike, OfSetup, OfArm
  <2> QED
    BY <1>4, <2>1, <2>2, <2>3, <2>4, Zenon
<1> QED
  BY <1>2, <1>5, TypePartsNext

LEMMA SpikeType ==
  ASSUME TypeOK,
         WriteSpike \/ IgnoreSpike \/ InsertSetup \/ AppendCreated \/ AppendAccepted
  PROVE  TypeOK'
<1>0. /\ {"setup", "created", "accepted", "minute"} \subseteq Places
      /\ "minute" \notin OfSpike \cup OfSetup \cup OfArm \cup AtSlot
      /\ {"setup", "created", "accepted"} \cap AtSlot = {}
      /\ {"SPIKE_ACCEPTED", "IMPULSE_MONITORING"} \subseteq LogStates
      /\ rt \in [Ids -> Runtimes] /\ log \in [Ids -> Seq(LogStates)]
      /\ slot \in Ids \cup {NoId}
  BY DEF Places, OfSpike, OfSetup, OfArm, AtSlot, LogStates, ActiveStates, TypeOK
<1>00. faults \in Nat /\ degraded \in BOOLEAN
  BY Zenon DEF TypeOK
<1>1. job.at \in OfSpike /\ job.id \in Ids
  <2>1. job.at \in OfSpike
    BY InsertSetupStep, CreatedStep, AcceptedStep DEF WriteSpike, IgnoreSpike, At, OfSpike
  <2> QED
    BY <2>1 DEF TypeOK
<1>2. CASE WriteSpike
  <2>1. /\ UNCHANGED <<up, clock, now, whole, arm, armed, cdegraded, decisions>>
        /\ rt' = rt /\ log' = log /\ slot' = slot /\ degraded' = degraded
        /\ faults' \in Nat /\ (job' = To("setup") \/ job' = To("minute"))
    BY <1>00, <1>2 DEF WriteSpike, memory, Go
  <2>2. Held'
    BY <1>0, <1>00, <2>1, FrameHeld, Zenon
  <2>3. InHand'
    BY <1>0, <1>1, <2>1, GoneOn
  <2> QED
    BY <2>2, <2>3, TypePartsNext
<1>3. CASE IgnoreSpike
  <2>1. /\ UNCHANGED <<up, clock, now, whole, arm, armed, cdegraded, decisions>>
        /\ rt' = rt /\ log' = log /\ slot' = slot /\ degraded' = degraded
        /\ faults' = faults /\ job' = To("minute")
    BY <1>3 DEF IgnoreSpike, memory, ledger, Go
  <2>2. Held'
    BY <1>0, <1>00, <2>1, FrameHeld, Zenon
  <2>3. InHand'
    BY <1>0, <2>1, GoneOn
  <2> QED
    BY <2>2, <2>3, TypePartsNext
<1>4. CASE InsertSetup
  <2>1. /\ UNCHANGED <<up, clock, now, whole, arm, armed, cdegraded, decisions>>
        /\ rt' = rt /\ log' = log /\ slot' = slot /\ (Well \/ SpikeIll)
        /\ job' = To("created") \/ job' = To("minute")
    BY <1>4, InsertSetupStep
  <2>2. Held'
    BY <1>0, <2>1, WellOrIll, FrameHeld, Zenon
  <2>3. InHand'
    BY <1>0, <1>1, <2>1, GoneOn
  <2> QED
    BY <2>2, <2>3, TypePartsNext
<1>5. CASE AppendCreated
  <2>1. /\ UNCHANGED <<up, clock, now, whole, arm, armed, cdegraded, decisions>>
        /\ rt' = rt /\ slot' = slot /\ (Well \/ SpikeIll)
        /\ log' = log \/ log' = [log EXCEPT ![job.id] = Append(@, "SPIKE_ACCEPTED")]
        /\ job' = To("accepted") \/ job' = To("minute")
    BY <1>5, CreatedStep
  <2>2. log' \in [Ids -> Seq(LogStates)]
    <3>1. "SPIKE_ACCEPTED" \in LogStates
      BY <1>0
    <3>2. [log EXCEPT ![job.id] = Append(@, "SPIKE_ACCEPTED")] \in [Ids -> Seq(LogStates)]
      BY <1>1, <3>1, LogGrows, Zenon
    <3> QED
      BY <1>0, <2>1, <3>2, Zenon
  <2>3. Held'
    BY <1>0, <2>1, <2>2, WellOrIll, FrameHeld, Zenon
  <2>4. InHand'
    BY <1>0, <1>1, <2>1, GoneOn
  <2> QED
    BY <2>3, <2>4, TypePartsNext
<1>6. CASE AppendAccepted
  <2>1. /\ UNCHANGED <<up, clock, now, whole, arm, armed, cdegraded, decisions>>
        /\ rt' = rt \/ \E r \in Runtimes : rt' = [rt EXCEPT ![job.id] = r]
        /\ slot' = slot \/ slot' = job.id
        /\ (Well \/ SpikeIll)
        /\ log' = log \/ log' = [log EXCEPT ![job.id] = Append(@, "IMPULSE_MONITORING")]
        /\ job' = To("minute")
    BY <1>6, AcceptedStep
  <2>2. log' \in [Ids -> Seq(LogStates)]
    <3>1. "IMPULSE_MONITORING" \in LogStates
      BY <1>0
    <3>2. [log EXCEPT ![job.id] = Append(@, "IMPULSE_MONITORING")] \in [Ids -> Seq(LogStates)]
      BY <1>1, <3>1, LogGrows, Zenon
    <3> QED
      BY <1>0, <2>1, <3>2, Zenon
  <2>3. rt' \in [Ids -> Runtimes] /\ slot' \in Ids \cup {NoId}
    BY <1>0, <1>1, <2>1
  <2>4. Held'
    BY <2>1, <2>2, <2>3, WellOrIll, FrameHeld, Zenon
  <2>5. job' \in Jobs /\ job'.at = "minute"
    BY <1>0, <2>1, GoingAnywhere
  <2>6. InHand'
    BY <1>0, <2>5 DEF InHand
  <2> QED
    BY <2>4, <2>6, TypePartsNext
<1> QED
  BY <1>2, <1>3, <1>4, <1>5, <1>6

\* What the continuation engine stores of a setup, or fails to.
ContWell == faults' = faults /\ cdegraded' = cdegraded
ContIll == /\ faults' = faults + 1 /\ cdegraded' = TRUE
           /\ UNCHANGED <<arms, arm, armed, decisions>>
ContFrame == UNCHANGED <<up, clock, now, whole, rt, slot, degraded, spikes, setups, log,
                         broken, missed>>

LEMMA ArmStep ==
  ASSUME Arm
  PROVE  /\ job.at = "arm" /\ job' = To("enter") /\ ContFrame /\ decisions' = decisions
         /\ \/ /\ ~cdegraded /\ arm[job.id] = "none" /\ arms' = arms \cup {job.id}
               /\ arm' = [arm EXCEPT ![job.id] = "ARMED"] /\ armed' = job.id /\ ContWell
            \/ ContIll
            \/ UNCHANGED <<arms, arm, armed>> /\ ContWell
<1>1. job.at = "arm" /\ job' = To("enter") /\ ContFrame /\ decisions' = decisions
  BY DEF Arm, At, Go, ContFrame
<1>2. CASE /\ ~cdegraded /\ arm[job.id] = "none" /\ InsertArm(job.id)
           /\ arm' = [arm EXCEPT ![job.id] = "ARMED"] /\ armed' = job.id
           /\ UNCHANGED <<faults, cdegraded>>
  BY <1>1, <1>2, Zenon DEF InsertArm, ContWell
<1>3. CASE InsertFails /\ UNCHANGED <<arms, arm, armed>>
  BY <1>1, <1>3, Zenon DEF InsertFails, ContIll
<1>4. CASE UNCHANGED <<arms, arm, armed, faults, cdegraded>>
  BY <1>1, <1>4, Zenon DEF ContWell
<1> QED
  BY <1>2, <1>3, <1>4, Zenon DEF Arm

LEMMA DisarmStep ==
  ASSUME Disarm
  PROVE  /\ job.at = "disarm" /\ job' = To(AfterEnd) /\ ContFrame /\ arms' = arms
         /\ \/ /\ ~cdegraded /\ arm[job.id] = "ARMED"
               /\ decisions' = [decisions EXCEPT ![job.id] = "DISARMED"]
               /\ arm' = [arm EXCEPT ![job.id] = "DISARMED"] /\ armed' = Detached(job.id)
               /\ ContWell
            \/ ContIll
            \/ /\ cdegraded \/ arm[job.id] # "ARMED"
               /\ UNCHANGED <<arm, armed, decisions>> /\ ContWell
<1>1. job.at = "disarm" /\ job' = To(AfterEnd) /\ ContFrame /\ arms' = arms
  BY DEF Disarm, At, Go, ContFrame
<1>2. CASE /\ ~cdegraded /\ arm[job.id] = "ARMED" /\ InsertDecision(job.id, "DISARMED")
           /\ arm' = [arm EXCEPT ![job.id] = "DISARMED"] /\ armed' = Detached(job.id)
           /\ UNCHANGED <<faults, cdegraded>>
  BY <1>1, <1>2, Zenon DEF InsertDecision, ContWell
<1>3. CASE InsertFails /\ UNCHANGED <<decisions, arm, armed>>
  BY <1>1, <1>3, Zenon DEF InsertFails, ContIll
<1>4. CASE /\ cdegraded \/ arm[job.id] # "ARMED"
           /\ UNCHANGED <<decisions, arm, armed, faults, cdegraded>>
  BY <1>1, <1>4, Zenon DEF ContWell
<1> QED
  BY <1>2, <1>3, <1>4, Zenon DEF Disarm

LEMMA DecideStep ==
  ASSUME Decide
  PROVE  /\ job.at = "decide" /\ ContFrame /\ arms' = arms
         /\ \/ /\ decisions' = [decisions EXCEPT ![job.id] = job.state]
               /\ arm' = [arm EXCEPT ![job.id] = job.state] /\ armed' = Detached(job.id)
               /\ ContWell /\ job' = To("close")
            \/ ContIll /\ job' = To("idle")
<1>1. job.at = "decide" /\ ContFrame /\ arms' = arms
  BY DEF Decide, At, ContFrame
<1>2. CASE /\ InsertDecision(job.id, job.state)
           /\ arm' = [arm EXCEPT ![job.id] = job.state] /\ armed' = Detached(job.id)
           /\ Go("close") /\ UNCHANGED <<faults, cdegraded>>
  BY <1>1, <1>2, Zenon DEF InsertDecision, ContWell, Go
<1>3. CASE InsertFails /\ Go("idle") /\ UNCHANGED <<decisions, arm, armed>>
  BY <1>1, <1>3, Zenon DEF InsertFails, ContIll, Go
<1> QED
  BY <1>2, <1>3, Zenon DEF Decide

LEMMA ArmType ==
  ASSUME TypeOK, Arm \/ Disarm \/ Decide
  PROVE  TypeOK'
<1>0. /\ {"enter", "idle", "close"} \subseteq Places /\ "close" \notin AtSlot
      /\ AfterEnd \in {"idle", "tick", "closed"}
      /\ {"idle", "tick", "closed"} \subseteq Places
      /\ {"idle", "tick", "closed"} \cap (OfSpike \cup OfSetup \cup OfArm \cup AtSlot) = {}
      /\ arm \in [Ids -> Verdicts \cup {"ARMED"}] /\ decisions \in [Ids -> Verdicts]
      /\ armed \in Ids \cup {NoId}
      /\ {"ARMED", "DISARMED"} \cup Outcomes \subseteq Verdicts \cup {"ARMED"}
      /\ {"DISARMED"} \cup Outcomes \subseteq Verdicts
  BY AfterIsAPlace DEF Places, OfSpike, OfSetup, OfArm, AtSlot, TypeOK, Verdicts, Outcomes
<1>00. faults \in Nat /\ cdegraded \in BOOLEAN
  BY Zenon DEF TypeOK
<1>1. /\ ContFrame
      /\ \/ job.at = "arm" /\ job' = To("enter")
         \/ job.at = "disarm" /\ job' = To(AfterEnd)
         \/ job.at = "decide" /\ job' \in {To("close"), To("idle")}
  BY ArmStep, DisarmStep, DecideStep
<1>2. job.id \in Ids /\ (job.at = "arm" => slot \in Ids)
  BY <1>1 DEF TypeOK, OfSetup, OfArm, AtSlot
<1>3. /\ \/ arm' = arm
         \/ \E v \in {"ARMED", "DISARMED"} \cup Outcomes : arm' = [arm EXCEPT ![job.id] = v]
      /\ \/ decisions' = decisions
         \/ \E v \in {"DISARMED"} \cup Outcomes :
              decisions' = [decisions EXCEPT ![job.id] = v]
      /\ armed' = armed \/ armed' = NoId \/ armed' = job.id
      /\ ContWell \/ (faults' = faults + 1 /\ cdegraded' = TRUE)
  <2>1. CASE Arm
    BY <2>1, ArmStep DEF ContIll
  <2>2. CASE Disarm
    BY <2>2, DisarmStep DEF ContIll, Detached
  <2>3. CASE Decide
    <3>1. job.state \in Outcomes
      BY <2>3 DEF Decide, At, TypeOK
    <3> QED
      BY <2>3, <3>1, DecideStep DEF ContIll, Detached
  <2> QED
    BY <2>1, <2>2, <2>3
<1>4. Held'
  <2>1. Held
    BY TypeParts
  <2>2. /\ rt' \in [Ids -> Runtimes] /\ slot' \in Ids \cup {NoId}
        /\ up' \in {"run", "stopping", "closing", "flush", "down"}
        /\ clock' \in Nat /\ now' \in Nat /\ log' \in [Ids -> Seq(LogStates)]
    BY <1>1, <2>1, Zenon DEF Held, ContFrame
  <2>3. whole' \in BOOLEAN /\ degraded' \in BOOLEAN
    BY <1>1, <2>1, Zenon DEF Held, ContFrame
  <2>4. /\ arm' \in [Ids -> Verdicts \cup {"ARMED"}] /\ decisions' \in [Ids -> Verdicts]
        /\ armed' \in Ids \cup {NoId}
    BY <1>0, <1>2, <1>3
  <2>5. cdegraded' \in BOOLEAN /\ faults' \in Nat
    <3>1. CASE ContWell
      BY <1>00, <3>1, Zenon DEF ContWell
    <3>2. CASE faults' = faults + 1 /\ cdegraded' = TRUE
      <4>1. faults + 1 \in Nat
        BY <1>00
      <4> QED
        BY <3>2, <4>1, Zenon
    <3> QED
      BY <1>3, <3>1, <3>2, Zenon
  <2> QED
    BY <2>2, <2>3, <2>4, <2>5, Zenon DEF Held
<1>5. InHand'
  <2>1. slot' = slot
    BY <1>1 DEF ContFrame
  <2>2. CASE job.at = "arm" /\ job' = To("enter")
    BY <1>0, <1>2, <2>1, <2>2, GoneOn
  <2>3. CASE job' = To(AfterEnd)
    BY <1>0, <2>1, <2>3, GoneOn
  <2>4. CASE job.at = "decide" /\ job' = To("close")
    BY <1>0, <1>2, <2>1, <2>4, GoneOn
  <2>5. CASE job' = To("idle")
    BY <1>0, <2>1, <2>5, GoneOn
  <2> QED
    BY <1>1, <2>2, <2>3, <2>4, <2>5
<1> QED
  BY <1>4, <1>5, TypePartsNext

LEMMA EndType ==
  ASSUME TypeOK, WriteEnd \/ Close
  PROVE  TypeOK'
<1>0. /\ AfterEnd \in {"idle", "tick", "closed"} /\ "disarm" \in Places
      /\ {"idle", "tick", "closed"} \subseteq Places /\ "disarm" \notin AtSlot
      /\ {"idle", "tick", "closed"} \cap (OfSpike \cup OfSetup \cup OfArm \cup AtSlot) = {}
      /\ rt \in [Ids -> Runtimes] /\ log \in [Ids -> Seq(LogStates)]
      /\ slot \in Ids \cup {NoId}
      /\ Structural \subseteq LogStates /\ ContinuationStates \subseteq LogStates
  BY AfterIsAPlace DEF Places, OfSpike, OfSetup, OfArm, AtSlot, TypeOK, LogStates, TerminalStates
<1>00. faults \in Nat /\ degraded \in BOOLEAN
  BY Zenon DEF TypeOK
<1>1. CASE WriteEnd
  <2>1. /\ UNCHANGED <<up, clock, now, whole, arm, armed, cdegraded, decisions>>
        /\ rt' = rt \/ \E r \in Runtimes : rt' = [rt EXCEPT ![job.id] = r]
        /\ log' = log \/ log' = [log EXCEPT ![job.id] = Append(@, job.state)]
        /\ slot' \in {slot, NoId}
        /\ (Well \/ Ill)
        /\ job' = To("disarm") \/ job' = To(AfterEnd)
        /\ job.id \in Ids /\ job.state \in LogStates
    BY <1>0, <1>1, EndStep
  <2>2. log' \in [Ids -> Seq(LogStates)]
    <3>1. \A s \in LogStates : [log EXCEPT ![job.id] = Append(@, s)] \in [Ids -> Seq(LogStates)]
      BY <2>1, LogGrows
    <3> QED
      BY <1>0, <2>1, <3>1, Zenon
  <2>3. rt' \in [Ids -> Runtimes] /\ slot' \in Ids \cup {NoId}
    BY <1>0, <2>1
  <2>4. Held'
    BY <2>1, <2>2, <2>3, WellOrIll, FrameHeld, Zenon
  <2>5. job' \in Jobs /\ (\/ job'.at = "disarm" /\ job'.id = job.id
                          \/ job'.at \in {"idle", "tick", "closed"})
    BY <1>0, <2>1, GoingAnywhere
  <2>6. InHand'
    BY <1>0, <2>1, <2>5 DEF InHand
  <2> QED
    BY <2>4, <2>6, TypePartsNext
<1>2. CASE Close
  <2>1. /\ UNCHANGED <<up, clock, now, whole, degraded, arm, armed, cdegraded, decisions>>
        /\ job.id \in Ids /\ job' = NoJob /\ slot' \in {slot, NoId}
        /\ rt' = rt \/ \E r \in Runtimes : rt' = [rt EXCEPT ![job.id] = r]
        /\ log' = log \/ \E s \in ContinuationStates :
                              log' = [log EXCEPT ![job.id] = Append(@, s)]
        /\ faults' = faults \/ faults' = faults + 1
    BY <1>2, CloseStep DEF Freed
  <2>2. log' \in [Ids -> Seq(LogStates)]
    <3>1. \A s \in LogStates : [log EXCEPT ![job.id] = Append(@, s)] \in [Ids -> Seq(LogStates)]
      BY <2>1, LogGrows
    <3>2. \A s \in ContinuationStates : s \in LogStates
      BY <1>0
    <3> QED
      <4>1. CASE log' = log
        BY <1>0, <4>1
      <4>2. ASSUME NEW s \in ContinuationStates, log' = [log EXCEPT ![job.id] = Append(@, s)]
            PROVE  log' \in [Ids -> Seq(LogStates)]
        BY <3>1, <3>2, <4>2, Zenon
      <4> QED
        BY <2>1, <4>1, <4>2, Zenon
  <2>3. rt' \in [Ids -> Runtimes] /\ slot' \in Ids \cup {NoId} /\ faults' \in Nat
    <3>1. rt' \in [Ids -> Runtimes]
      BY <1>0, <2>1
    <3>2. slot' \in Ids \cup {NoId}
      BY <1>0, <2>1
    <3>3. faults' \in Nat
      BY <1>00, <2>1
    <3> QED
      BY <3>1, <3>2, <3>3
  <2>4. Held'
    BY <1>00, <2>1, <2>2, <2>3, FrameHeld, ZenonT(30)
  <2>5. InHand'
    BY <1>0, <2>1, NoJobIs DEF InHand
  <2> QED
    BY <2>4, <2>5, TypePartsNext
<1> QED
  BY <1>1, <1>2

LEMMA WorkerType ==
  ASSUME TypeOK, MinuteDone \/ SkipFive \/ MissImpulse \/ OnTick
  PROVE  TypeOK'
<1>0. /\ {"five", "tick", "idle"} \subseteq Places /\ After \in {"idle", "tick"}
      /\ {"five", "tick", "idle"} \cap (OfSpike \cup OfSetup \cup OfArm \cup AtSlot) = {}
      /\ job \in Jobs /\ now \in Nat /\ clock \in Nat /\ faults \in Nat
      /\ up \in {"run", "stopping", "closing", "flush", "down"}
      /\ slot \in Ids \cup {NoId} /\ armed \in Ids \cup {NoId}
  BY AfterIsAPlace DEF Places, OfSpike, OfSetup, OfArm, AtSlot, TypeOK
<1>00. whole \in BOOLEAN
  BY Zenon DEF TypeOK
<1>1. /\ UNCHANGED <<rt, slot, degraded, arm, armed, cdegraded, log, decisions>>
      /\ UNCHANGED <<up, clock, faults>>
  BY DEF MinuteDone, SkipFive, MissImpulse, OnTick, memory, ledger
<1>2. CASE MinuteDone
  <2>1. now' \in Nat
    BY <1>0, <1>2 DEF MinuteDone, Jobs
  <2>2. whole' \in BOOLEAN
    BY <1>2, Zenon DEF MinuteDone
  <2>3. Held'
    BY <1>0, <1>1, <2>1, <2>2, HeldStays, Zenon
  <2>4. job' = To("five") \/ job' = To("tick") \/ job' = To("idle")
    BY <1>0, <1>2 DEF MinuteDone, Go
  <2>5. InHand'
    BY <1>0, <1>1, <2>4, GoneOn
  <2> QED
    BY <2>3, <2>5, TypePartsNext
<1>3. CASE SkipFive
  <2>1. now' = now /\ whole' = whole /\ (job' = To("tick") \/ job' = To("idle"))
    BY <1>0, <1>3 DEF SkipFive, Go, memory
  <2>2. Held'
    BY <1>0, <1>00, <1>1, <2>1, HeldStays, Zenon
  <2>3. InHand'
    BY <1>0, <1>1, <2>1, GoneOn
  <2> QED
    BY <2>2, <2>3, TypePartsNext
<1>4. CASE MissImpulse
  <2>1. /\ now' = now /\ whole' = whole
        /\ job' = [job EXCEPT !.at = "end", !.id = slot, !.state = "CANCELLED"]
    BY <1>4 DEF MissImpulse, memory
  <2>2. Held'
    BY <1>0, <1>00, <1>1, <2>1, HeldStays, Zenon
  <2>3. slot \in Ids /\ slot \in Nat
    BY <1>4, FiveAtSlot, IdsAreMinutes DEF MissImpulse
  <2>4. job' \in Jobs /\ job'.at = "end" /\ job'.id = slot /\ job'.state = "CANCELLED"
    BY <1>0, <2>1, <2>3 DEF Jobs, Places, Structural
  <2>5. InHand'
    BY <1>1, <2>3, <2>4 DEF InHand, OfSpike, OfSetup, OfArm, AtSlot, Structural
  <2> QED
    BY <2>2, <2>5, TypePartsNext
<1>5. CASE OnTick
  <2>1. now' = now /\ whole' = whole /\ At("tick")
    BY <1>5 DEF OnTick
  <2>2. Held'
    BY <1>0, <1>00, <1>1, <2>1, HeldStays, Zenon
  <2>3. \/ job' = NoJob
        \/ /\ ~cdegraded /\ armed # NoId
           /\ \E st \in Outcomes :
                job' = [job EXCEPT !.at = "decide", !.id = armed, !.state = st]
    BY <1>5 DEF OnTick, Go, To, Outcomes
  <2>4. InHand'
    <3>1. CASE job' = NoJob
      BY <3>1, NoJobIs DEF InHand, OfSpike, OfSetup, OfArm, AtSlot
    <3>2. CASE /\ armed # NoId
               /\ \E st \in Outcomes :
                    job' = [job EXCEPT !.at = "decide", !.id = armed, !.state = st]
      <4>1. armed \in Ids /\ armed \in Nat
        BY <1>0, <3>2, IdsAreMinutes
      <4>2. job' \in Jobs /\ job'.at = "decide" /\ job'.id = armed /\ job'.state \in Outcomes
        BY <1>0, <3>2, <4>1 DEF Jobs, Places
      <4> QED
        BY <4>1, <4>2 DEF InHand, OfSpike, OfSetup, OfArm, AtSlot
    <3> QED
      BY <2>3, <3>1, <3>2
  <2> QED
    BY <2>2, <2>4, TypePartsNext
<1> QED
  BY <1>2, <1>3, <1>4, <1>5

LEMMA EndedIs ==
  ASSUME Ended
  PROVE  /\ up' = "down" /\ job' = NoJob /\ now' = 0 /\ slot' = NoId /\ armed' = NoId
         /\ whole' = FALSE /\ degraded' = FALSE /\ cdegraded' = FALSE
         /\ rt' = [i \in Ids |-> NoRuntime] /\ arm' = [i \in Ids |-> "none"]
  BY Zenon DEF Ended

LEMMA SessionType ==
  ASSUME TypeOK, SessionCloses \/ Flush \/ Restart
  PROVE  TypeOK'
<1>0. /\ NoJob \in Jobs /\ NoJob.at = "idle" /\ job \in Jobs
      /\ now \in Nat /\ clock \in Nat /\ faults \in Nat
      /\ slot \in Ids \cup {NoId}
      /\ job.at \in OfSpike \cup OfSetup \cup OfArm => job.id \in Ids
      /\ job.at \in AtSlot => slot \in Ids
  BY NoJobIs DEF TypeOK
<1>00. whole \in BOOLEAN
  BY Zenon DEF TypeOK
<1>1. UNCHANGED <<rt, slot, degraded, arm, armed, cdegraded, log, decisions, clock, now, whole,
                  faults>>
  BY DEF SessionCloses, Flush, Restart, memory, ledger
<1>2. up' \in {"run", "stopping", "closing", "flush", "down"}
  BY DEF SessionCloses, Flush, Restart
<1>3. Held'
  BY <1>0, <1>00, <1>1, <1>2, HeldStays, Zenon
<1> SUFFICES InHand'
  BY <1>3, TypePartsNext
<1>4. CASE SessionCloses
  <2>1. CASE job' = [NoJob EXCEPT !.at = "closed"]
    <3>1. job' \in Jobs /\ job'.at = "closed"
      BY <1>0, <2>1 DEF Jobs, Places
    <3> QED
      BY <3>1 DEF InHand, OfSpike, OfSetup, OfArm, AtSlot
  <2>2. CASE /\ slot \in Ids
             /\ job' = [NoJob EXCEPT !.at = "end", !.id = slot, !.state = "SESSION_CLOSED"]
    <3>1. slot \in Nat
      BY <2>2, IdsAreMinutes
    <3>2. /\ job' \in Jobs /\ job'.at = "end" /\ job'.id = slot
          /\ job'.state = "SESSION_CLOSED"
      BY <1>0, <2>2, <3>1 DEF Jobs, Places, Structural
    <3> QED
      BY <1>1, <2>2, <3>2 DEF InHand, OfSpike, OfSetup, OfArm, AtSlot, Structural
  <2> QED
    BY <1>0, <1>4, <2>1, <2>2 DEF SessionCloses, OpenAtClose
<1>5. CASE Flush
  <2>1. Filled \in Int
    BY <1>0, BucketIsInt DEF Filled
  <2>2. job' = [NoJob EXCEPT !.at = "minute", !.five = Filled]
    BY <1>5 DEF Flush
  <2>3. job' \in Jobs /\ job'.at = "minute"
    BY <1>0, <2>1, <2>2 DEF Jobs, Places
  <2> QED
    BY <2>3 DEF InHand, OfSpike, OfSetup, OfArm, AtSlot
<1>6. CASE Restart
  <2>1. job' = job
    BY <1>6 DEF Restart
  <2>2. InHand
    BY TypeParts
  <2> QED
    BY <1>1, <2>1, <2>2 DEF InHand
<1> QED
  BY <1>4, <1>5, <1>6

LEMMA EndedType ==
  ASSUME TypeOK, Exit \/ Crash
  PROVE  TypeOK'
<1>1. Ended
  BY DEF Exit, Crash
<1>2. clock' = clock /\ log' = log /\ decisions' = decisions
      /\ (faults' = faults \/ faults' = faults + 1)
  BY DEF Exit, Crash, ledger
<1>3. /\ clock \in Nat /\ log \in [Ids -> Seq(LogStates)] /\ decisions \in [Ids -> Verdicts]
      /\ faults \in Nat
  BY DEF TypeOK
<1>4. Held'
  <2>1. rt' \in [Ids -> Runtimes]
    BY <1>1, EndedIs, NoRuntimeIs, Zenon
  <2>2. arm' \in [Ids -> Verdicts \cup {"ARMED"}]
    BY <1>1, EndedIs DEF Verdicts
  <2>3. whole' \in BOOLEAN /\ degraded' \in BOOLEAN /\ cdegraded' \in BOOLEAN
    BY <1>1, EndedIs, Zenon
  <2>4. /\ up' \in {"run", "stopping", "closing", "flush", "down"}
        /\ clock' \in Nat /\ now' \in Nat /\ faults' \in Nat
        /\ slot' \in Ids \cup {NoId} /\ armed' \in Ids \cup {NoId}
        /\ log' \in [Ids -> Seq(LogStates)] /\ decisions' \in [Ids -> Verdicts]
    BY <1>1, <1>2, <1>3, EndedIs
  <2> QED
    BY <2>1, <2>2, <2>3, <2>4, Zenon DEF Held
<1>5. InHand'
  BY <1>1, EndedIs, NoJobIs DEF InHand, OfSpike, OfSetup, OfArm, AtSlot
<1> QED
  BY <1>4, <1>5, TypePartsNext

\* What another stock's failure leaves as it is.
LEMMA ElsewhereStep ==
  ASSUME TypeOK, FailsElsewhere
  PROVE  /\ UNCHANGED <<up, clock, now, whole, rt, slot, arm, armed>>
         /\ UNCHANGED <<spikes, setups, log, arms, decisions, broken, missed>>
         /\ faults' = faults + 1
         /\ degraded' = degraded \/ degraded' = TRUE
         /\ cdegraded' = cdegraded \/ cdegraded' = TRUE
         /\ job.at \in {"idle", "end", "closed"}
         /\ \/ job' = job
            \/ job.at = "end" /\ job' = To("closed") /\ job'.at = "closed" /\ job' \in Jobs
<1>1. "closed" \in Places
  BY DEF Places
<1>2. To("closed") \in Jobs /\ To("closed").at = "closed"
  BY <1>1, GoingAnywhere
<1>3. /\ UNCHANGED <<up, clock, now, whole, rt, slot, arm, armed>>
      /\ UNCHANGED <<spikes, setups, log, arms, decisions, broken, missed>>
      /\ faults' = faults + 1
  BY DEF FailsElsewhere, ledger
<1>4. \/ degraded' = TRUE /\ UNCHANGED <<cdegraded, job>>
      \/ cdegraded' = TRUE /\ UNCHANGED <<degraded, job>>
      \/ job.at = "end" /\ job' = To("closed") /\ UNCHANGED <<degraded, cdegraded>>
  BY Zenon DEF FailsElsewhere, Go
<1>5. job.at \in {"idle", "end", "closed"}
  BY DEF FailsElsewhere, Elsewhere
<1> QED
  BY <1>2, <1>3, <1>4, <1>5, Zenon

LEMMA ElsewhereType ==
  ASSUME TypeOK, FailsElsewhere
  PROVE  TypeOK'
<1>1. Held'
  <2>1. Held /\ faults + 1 \in Nat
    BY TypeParts DEF Held
  <2>2. degraded' \in BOOLEAN /\ cdegraded' \in BOOLEAN
    BY <2>1, ElsewhereStep, Zenon DEF Held
  <2>3. /\ UNCHANGED <<up, clock, now, whole, rt, slot, arm, armed, log, decisions>>
        /\ faults' = faults + 1
    BY ElsewhereStep
  <2>4. whole' \in BOOLEAN
    BY <2>1, <2>3, Zenon DEF Held
  <2> QED
    BY <2>1, <2>2, <2>3, <2>4, Zenon DEF Held
<1>2. InHand'
  <2>1. InHand /\ slot' = slot
    BY TypeParts, ElsewhereStep
  <2>2. CASE job' = job
    BY <2>1, <2>2 DEF InHand
  <2>3. CASE job'.at = "closed" /\ job' \in Jobs
    BY <2>3 DEF InHand, OfSpike, OfSetup, OfArm, AtSlot
  <2> QED
    BY <2>2, <2>3, ElsewhereStep
<1> QED
  BY <1>1, <1>2, TypePartsNext

LEMMA TypeStep == TypeOK /\ [Next]_vars => TypeOK'
<1> SUFFICES ASSUME TypeOK, [Next]_vars PROVE TypeOK'
  OBVIOUS
<1>1. CASE Next
  BY <1>1, TakeTickType, CandleDoneType, SlotStepType, SpikeType, ArmType, EndType, WorkerType,
     ElsewhereType, SessionType, EndedType, Zenon DEF Next
<1>2. CASE UNCHANGED vars
  BY <1>2, ZenonT(30) DEF vars, TypeOK
<1> QED
  BY <1>1, <1>2

LEMMA Types == Spec => []TypeOK
<1> QED
  BY InitType, TypeStep, PTL DEF Spec

-----------------------------------------------------------------------------
(* The setup in hand.  At each place the worker may be cut it is known which *)
(* setup it works on and what state that one's runtime is in; and unless the *)
(* continuation engine is degraded, the setup it has armed is the one in the *)
(* pullback engine's slot, or the one whose end it is being told.            *)

SlotInv ==
  /\ slot # NoId => Active(rt[slot])
  /\ \A id \in Ids : rt[id].state = "none" => rt[id] = NoRuntime
  /\ job.at \in {"ready", "arm", "end", "decide", "close"} => slot = job.id
  /\ job.at = "ready" => R.state = "PULLBACK_MONITORING"
  /\ job.at \in {"arm", "enter"} => R.state = "PULLBACK_READY"
  /\ job.at = "structure" => R.state \in {"PULLBACK_READY", "CONTINUATION_MONITORING"}
  /\ job.at \in {"created", "accepted", "disarm"} => slot = NoId
  /\ armed # NoId => /\ arm[armed] = "ARMED"
                     /\ cdegraded \/ slot = armed \/ (job.at = "disarm" /\ job.id = armed)
  /\ job.at = "decide" => armed = job.id /\ ~cdegraded
  /\ job.at = "close" => armed = NoId

\* The places where no setup of the slot is in hand.
Away == {"idle", "candle", "spike", "setup", "minute", "five", "tick", "closed"}

\* The slot after a step on it.
LEMMA AfterAdvance ==
  ASSUME TypeOK, slot \in Ids, SlotFrame, NEW s \in ActiveStates, Advanced(s)
  PROVE  /\ R'.state = s /\ R'.seq = R.seq + 1 /\ log'[slot] = Append(log[slot], s)
         /\ rt'[slot].state = s /\ rt'[slot].seq = rt[slot].seq + 1
         /\ \A id \in Ids \ {slot} : rt'[id] = rt[id] /\ log'[id] = log[id]
<1>1. rt \in [Ids -> Runtimes] /\ log \in [Ids -> Seq(LogStates)] /\ slot' = slot
  BY DEF TypeOK, SlotFrame
<1>2. rt'[slot].state = s /\ rt'[slot].seq = rt[slot].seq + 1
      /\ \A id \in Ids \ {slot} : rt'[id] = rt[id]
  BY <1>1 DEF Advanced, R
<1>3. log'[slot] = Append(log[slot], s) /\ \A id \in Ids \ {slot} : log'[id] = log[id]
  BY <1>1 DEF Advanced
<1> QED
  BY <1>1, <1>2, <1>3 DEF R

LEMMA AfterKept ==
  ASSUME TypeOK, slot \in Ids, SlotFrame, Kept
  PROVE  /\ R'.state = R.state /\ R'.seq = R.seq /\ log' = log
         /\ rt'[slot].state = rt[slot].state /\ rt'[slot].seq = rt[slot].seq
         /\ \A id \in Ids \ {slot} : rt'[id] = rt[id]
<1>1. rt \in [Ids -> Runtimes] /\ slot' = slot
  BY DEF TypeOK, SlotFrame
<1>2. rt'[slot].state = rt[slot].state /\ rt'[slot].seq = rt[slot].seq
      /\ log' = log /\ \A id \in Ids \ {slot} : rt'[id] = rt[id]
  BY <1>1 DEF Kept, R
<1> QED
  BY <1>1, <1>2 DEF R

\* Steps that leave the setups alone, for a place where none is in hand.
LEMMA AwaySlot ==
  ASSUME SlotInv, job.at # "disarm", UNCHANGED <<rt, slot, arm, armed, cdegraded>>,
         job'.at \in Away
  PROVE  SlotInv'
<1>1. /\ slot' # NoId => Active(rt'[slot'])
      /\ \A id \in Ids : rt'[id].state = "none" => rt'[id] = NoRuntime
      /\ armed' # NoId => arm'[armed'] = "ARMED" /\ (cdegraded' \/ slot' = armed')
  BY Zenon DEF SlotInv
<1>2. job'.at \notin {"ready", "arm", "end", "decide", "close", "enter", "structure", "created",
                      "accepted", "disarm"}
  BY DEF Away
<1> QED
  BY <1>1, <1>2, Zenon DEF SlotInv, Active

\* Steps on the setup in the slot.
LEMMA SlotStepSlot ==
  ASSUME TypeOK, SlotInv, slot \in Ids, SlotStep, SlotFrame, job.at # "disarm",
         job'.at \notin {"decide", "close", "created", "accepted", "disarm"},
         job'.at \in {"ready", "arm", "end"} => slot = job'.id,
         job'.at = "ready" => R'.state = "PULLBACK_MONITORING",
         job'.at \in {"arm", "enter"} => R'.state = "PULLBACK_READY",
         job'.at = "structure" => R'.state \in {"PULLBACK_READY", "CONTINUATION_MONITORING"}
  PROVE  SlotInv'
<1>1. slot' = slot /\ arm' = arm /\ armed' = armed /\ cdegraded' = cdegraded
  BY DEF SlotFrame
<1>2. slot # NoId /\ rt[slot].state \in ActiveStates
  BY IdsAreMinutes DEF SlotInv, Active
<1>3. /\ rt'[slot].state \in ActiveStates
      /\ \A id \in Ids \ {slot} : rt'[id] = rt[id]
  <2>1. CASE \E s \in ActiveStates : Advanced(s)
    BY <2>1, AfterAdvance
  <2>2. CASE Kept
    BY <1>2, <2>2, AfterKept
  <2> QED
    BY <2>1, <2>2 DEF SlotStep
<1>4. "none" \notin ActiveStates
  BY DEF ActiveStates
<1>5. \A id \in Ids : rt'[id].state = "none" => rt'[id] = NoRuntime
  BY <1>3, <1>4 DEF SlotInv
<1>6. armed' # NoId => arm'[armed'] = "ARMED" /\ (cdegraded' \/ slot' = armed')
  BY <1>1, Zenon DEF SlotInv
<1>7. Active(rt'[slot'])
  BY <1>1, <1>3, Zenon DEF Active
<1>8. job'.at \in {"ready", "arm", "end", "decide", "close"} => slot' = job'.id
  BY <1>1
<1>9. SlotInv'
  BY <1>5, <1>6, <1>7, <1>8 DEF SlotInv, Active
<1> QED
  BY <1>9

LEMMA InitSlot == Init => SlotInv
<1> SUFFICES ASSUME Init PROVE SlotInv
  OBVIOUS
<1>1. job.at = "idle" /\ slot = NoId /\ armed = NoId /\ \A id \in Ids : rt[id] = NoRuntime
  BY NoJobIs DEF Init
<1> QED
  BY <1>1 DEF SlotInv

\* Where a judgement leads, and with which setup.
LEMMA VerdictPlace ==
  ASSUME TypeOK, slot \in Ids, NEW judged
  PROVE  /\ Verdict(judged).at \in {"end", "ready", "idle", "tick"}
         /\ Verdict(judged).at = "ready" => judged = "PULLBACK_READY"
         /\ Verdict(judged).at = "end" => judged \in Structural
         /\ Verdict(judged).at \in {"end", "ready"} => Verdict(judged).id = slot
         /\ judged \in Structural => Verdict(judged).at = "end"
<1>1. job \in Jobs /\ After \in {"idle", "tick"} /\ After \in Places
  BY AfterIsAPlace DEF TypeOK, Places
<1>2. CASE judged \in Structural
  BY <1>1, <1>2, VerdictLeads
<1>3. CASE judged = "PULLBACK_READY"
  BY <1>1, <1>3, VerdictLeads DEF Structural
<1>4. CASE judged \notin Structural \cup {"PULLBACK_READY"}
  <2>1. Verdict(judged) = To(After)
    BY <1>1, <1>4, VerdictLeads
  <2>2. Verdict(judged).at = After
    BY <1>1, <2>1, GoingAnywhere
  <2> QED
    BY <1>1, <1>4, <2>2
<1> QED
  BY <1>2, <1>3, <1>4

LEMMA SlotStepsSlot ==
  ASSUME TypeOK, SlotInv,
         FreezeImpulse \/ Evaluate \/ WriteReady \/ EnterContinuation \/ ReEnter \/ Structure
  PROVE  SlotInv'
<1>0. /\ After \in {"idle", "tick"} /\ After \in Places /\ {"arm", "structure"} \subseteq Places
      /\ {"PULLBACK_MONITORING", "PULLBACK_READY", "CONTINUATION_MONITORING"} \subseteq ActiveStates
      /\ \A w \in Places : To(w).at = w /\ (w # "idle" => To(w).id = job.id)
  BY AfterIsAPlace, GoingAnywhere DEF Places, ActiveStates
<1>1. CASE FreezeImpulse
  <2>1. /\ slot \in Ids /\ job.at = "five" /\ SlotFrame /\ job' = To(After) /\ SlotStep
    BY <1>0, <1>1, FreezeStep DEF SlotStep
  <2> QED
    BY <1>0, <2>1, SlotStepSlot
<1>2. CASE Evaluate
  <2>1. /\ slot \in Ids /\ job.at = "five" /\ SlotFrame /\ R.state = "PULLBACK_MONITORING"
        /\ Advanced("PULLBACK_MONITORING") \/ Kept
        /\ SlotStep
        /\ (\E judged : job' = Verdict(judged)) \/ job' = To(After)
    BY <1>0, <1>2, EvaluateStep, Zenon DEF SlotStep
  <2>2. R'.state = "PULLBACK_MONITORING"
    BY <1>0, <2>1, AfterAdvance, AfterKept
  <2>3. /\ job'.at \in {"end", "ready", "idle", "tick"}
        /\ job'.at \in {"end", "ready"} => job'.id = slot
    BY <1>0, <2>1, VerdictPlace
  <2> QED
    BY <2>1, <2>2, <2>3, SlotStepSlot
<1>3. CASE WriteReady
  <2>1. /\ slot \in Ids /\ job.at = "ready" /\ SlotFrame /\ SlotStep
        /\ \/ Advanced("PULLBACK_READY") /\ job' = To("arm")
           \/ job' = To(After)
    BY <1>0, <1>3, ReadyStep, Zenon DEF SlotStep
  <2>2. CASE Advanced("PULLBACK_READY") /\ job' = To("arm")
    <3>1. R'.state = "PULLBACK_READY" /\ slot = job.id
      BY <1>0, <2>1, <2>2, AfterAdvance DEF SlotInv
    <3> QED
      BY <1>0, <2>1, <2>2, <3>1, SlotStepSlot
  <2>3. CASE job' = To(After)
    BY <1>0, <2>1, <2>3, SlotStepSlot
  <2> QED
    BY <2>1, <2>2, <2>3
<1>4. CASE EnterContinuation
  <2>1. /\ slot \in Ids /\ job.at = "enter" /\ SlotFrame /\ job' = To(After) /\ SlotStep
    BY <1>0, <1>4, EnterStep DEF SlotStep
  <2> QED
    BY <1>0, <2>1, SlotStepSlot
<1>5. CASE ReEnter
  <2>1. /\ slot \in Ids /\ job.at = "five" /\ SlotFrame /\ R.state = "PULLBACK_READY"
        /\ SlotStep /\ (Advanced("CONTINUATION_MONITORING") \/ Kept)
        /\ job' = To("structure") \/ job' = To(After)
    BY <1>0, <1>5, ReEnterStep DEF SlotStep
  <2>2. R'.state \in {"PULLBACK_READY", "CONTINUATION_MONITORING"}
    BY <1>0, <2>1, AfterAdvance, AfterKept
  <2> QED
    BY <1>0, <2>1, <2>2, SlotStepSlot
<1>6. CASE Structure
  <2>1. /\ slot \in Ids /\ job.at \in {"five", "structure"} /\ SlotFrame /\ SlotStep
        /\ \E judged : judged # "PULLBACK_READY" /\ job' = Verdict(judged)
    BY <1>6, StructureStep DEF SlotStep
  <2>2. job'.at \in {"end", "idle", "tick"} /\ (job'.at = "end" => job'.id = slot)
    BY <2>1, VerdictPlace
  <2> QED
    BY <2>1, <2>2, SlotStepSlot
<1> QED
  BY <1>1, <1>2, <1>3, <1>4, <1>5, <1>6

LEMMA AwayStepsSlot ==
  ASSUME TypeOK, SlotInv,
         \/ TakeTick \/ TakeLateTick \/ CandleDone \/ WriteSpike \/ IgnoreSpike \/ MinuteDone
         \/ SkipFive \/ Flush \/ Restart
  PROVE  SlotInv'
<1>0. /\ After \in {"idle", "tick"} /\ job \in Jobs /\ NoJob \in Jobs
      /\ \A w \in Places : To(w).at = w
      /\ Away \subseteq Places
  BY AfterIsAPlace, GoingAnywhere, NoJobIs DEF TypeOK, Away, Places
<1>1. UNCHANGED <<rt, slot, arm, armed, cdegraded>>
  BY DEF TakeTick, TakeLateTick, CandleDone, WriteSpike, IgnoreSpike, MinuteDone, SkipFive,
         Flush, Restart, memory
<1>2. CASE Restart
  BY <1>1, <1>2 DEF Restart, SlotInv, Active, R
<1>3. CASE ~Restart
  <2>1. job.at # "disarm"
    BY <1>3 DEF TakeTick, TakeLateTick, CandleDone, WriteSpike, IgnoreSpike, MinuteDone,
                SkipFive, Flush, At
  <2>2. job'.at \in Away
    <3>1. CASE TakeTick
      BY <1>0, <3>1 DEF TakeTick, Jobs, FirstFor, Away
    <3>2. CASE TakeLateTick
      BY <1>0, <3>2 DEF TakeLateTick, Jobs, Away
    <3>3. CASE CandleDone
      BY <1>0, <3>3, ZenonT(30) DEF CandleDone, Jobs, Away
    <3>4. CASE WriteSpike \/ IgnoreSpike \/ MinuteDone \/ SkipFive
      BY <1>0, <3>4 DEF WriteSpike, IgnoreSpike, MinuteDone, SkipFive, Go, Away
    <3>5. CASE Flush
      BY <1>0, <3>5 DEF Flush, Jobs, Away
    <3> QED
      BY <1>3, <3>1, <3>2, <3>3, <3>4, <3>5
  <2> QED
    BY <1>1, <2>1, <2>2, AwaySlot
<1> QED
  BY <1>2, <1>3

LEMMA SpikeStepsSlot ==
  ASSUME TypeOK, SlotInv, InsertSetup \/ AppendCreated \/ AppendAccepted
  PROVE  SlotInv'
<1>0. /\ {"created", "accepted", "minute"} \subseteq Places
      /\ \A w \in Places : To(w).at = w
  BY GoingAnywhere DEF Places
<1>1. CASE InsertSetup
  <2>1. /\ UNCHANGED <<rt, slot, arm, armed, cdegraded>> /\ job.at = "setup" /\ slot = NoId
        /\ job'.at \in {"created", "minute"}
    BY <1>0, <1>1, InsertSetupStep DEF Refused
  <2> QED
    BY <2>1 DEF SlotInv, Active
<1>2. CASE AppendCreated
  <2>1. /\ UNCHANGED <<rt, slot, arm, armed, cdegraded>> /\ job.at = "created"
        /\ job'.at \in {"accepted", "minute"}
    BY <1>0, <1>2, CreatedStep
  <2> QED
    BY <2>1 DEF SlotInv, Active
<1>3. CASE AppendAccepted
  <2>1. /\ job.at = "accepted" /\ job'.at = "minute" /\ UNCHANGED <<arm, armed, cdegraded>>
        /\ \/ /\ \E r \in Runtimes : /\ rt' = [rt EXCEPT ![job.id] = r]
                                     /\ r.state = "IMPULSE_MONITORING" /\ r.seq = 2
              /\ slot' = job.id
           \/ rt' = rt /\ slot' = slot
    BY <1>0, <1>3, AcceptedStep
  <2>2. job.id \in Ids /\ rt \in [Ids -> Runtimes]
    BY <2>1 DEF TypeOK, OfSpike
  <2>3. armed # NoId => arm[armed] = "ARMED" /\ cdegraded
    BY <2>1 DEF SlotInv
  <2>4. CASE rt' = rt /\ slot' = slot
    BY <2>1, <2>4 DEF SlotInv, Active
  <2>5. CASE /\ \E r \in Runtimes : /\ rt' = [rt EXCEPT ![job.id] = r]
                                     /\ r.state = "IMPULSE_MONITORING" /\ r.seq = 2
             /\ slot' = job.id
    <3>1. rt'[job.id].state = "IMPULSE_MONITORING"
          /\ \A id \in Ids \ {job.id} : rt'[id] = rt[id]
      BY <2>2, <2>5
    <3>2. Active(rt'[slot']) /\ \A id \in Ids : rt'[id].state = "none" => rt'[id] = NoRuntime
      BY <2>5, <3>1 DEF SlotInv, Active, ActiveStates
    <3> QED
      BY <2>1, <2>3, <3>2 DEF SlotInv, Active
  <2> QED
    BY <2>1, <2>4, <2>5
<1> QED
  BY <1>1, <1>2, <1>3

LEMMA EndingSlot ==
  ASSUME TypeOK, SlotInv, MissImpulse \/ SessionCloses
  PROVE  SlotInv'
<1>1. UNCHANGED <<rt, slot, arm, armed, cdegraded>> /\ job.at \in {"five", "idle"}
  BY DEF MissImpulse, SessionCloses, memory, At
<1>2. job'.at = "closed" \/ (job'.at = "end" /\ job'.id = slot)
  <2>1. job \in Jobs /\ NoJob \in Jobs
    BY NoJobIs DEF TypeOK
  <2> QED
    BY <2>1 DEF MissImpulse, SessionCloses, Jobs
<1> QED
  BY <1>1, <1>2 DEF SlotInv, Active

LEMMA TickSlot ==
  ASSUME TypeOK, SlotInv, OnTick
  PROVE  SlotInv'
<1>1. UNCHANGED <<rt, slot, arm, armed, cdegraded>> /\ job.at = "tick"
  BY DEF OnTick, At
<1>2. \/ job'.at = "idle"
      \/ /\ job'.at = "decide" /\ job'.id = armed /\ armed # NoId /\ ~cdegraded
  <2>1. job \in Jobs /\ NoJob.at = "idle"
    BY NoJobIs DEF TypeOK
  <2> QED
    BY <2>1 DEF OnTick, Go, To, Jobs
<1>3. CASE job'.at = "idle"
  BY <1>1, <1>3 DEF SlotInv, Active
<1>4. CASE job'.at = "decide" /\ job'.id = armed /\ armed # NoId /\ ~cdegraded
  <2>1. slot = armed
    BY <1>1, <1>4 DEF SlotInv
  <2> QED
    BY <1>1, <1>4, <2>1 DEF SlotInv, Active
<1> QED
  BY <1>2, <1>3, <1>4

LEMMA ArmStepsSlot ==
  ASSUME TypeOK, SlotInv, Arm \/ Disarm \/ Decide
  PROVE  SlotInv'
<1>0. /\ {"enter", "idle", "close"} \subseteq Places /\ AfterEnd \in {"idle", "tick", "closed"}
      /\ {"idle", "tick", "closed"} \subseteq Places
      /\ \A w \in Places : To(w).at = w /\ (w # "idle" => To(w).id = job.id)
      /\ arm \in [Ids -> Verdicts \cup {"ARMED"}] /\ armed \in Ids \cup {NoId}
  BY AfterIsAPlace, GoingAnywhere DEF Places, TypeOK
<1>1. ContFrame /\ rt' = rt /\ slot' = slot
  BY ArmStep, DisarmStep, DecideStep DEF ContFrame
<1>2. CASE Arm
  <2>1. job.at = "arm" /\ job'.at = "enter" /\ job.id \in Ids /\ slot = job.id
    BY <1>0, <1>2, ArmStep DEF TypeOK, OfSetup, SlotInv
  <2>2. armed' # NoId => arm'[armed'] = "ARMED" /\ (cdegraded' \/ slot = armed')
    <3>1. CASE arm' = [arm EXCEPT ![job.id] = "ARMED"] /\ armed' = job.id
      BY <1>0, <2>1, <3>1
    <3>2. CASE arm' = arm /\ armed' = armed /\ (cdegraded' = cdegraded \/ cdegraded' = TRUE)
      BY <2>1, <3>2, Zenon DEF SlotInv
    <3> QED
      BY <1>2, <3>1, <3>2, ArmStep, Zenon DEF ContIll, ContWell
  <2> QED
    BY <1>1, <2>1, <2>2 DEF SlotInv, Active, R
<1>3. CASE Disarm
  <2>1. job.at = "disarm" /\ job'.at \in {"idle", "tick", "closed"} /\ job.id \in Ids
        /\ slot = NoId
    BY <1>0, <1>3, DisarmStep DEF TypeOK, OfArm, SlotInv
  <2>2. armed' # NoId => arm'[armed'] = "ARMED" /\ cdegraded'
    <3>1. CASE /\ ~cdegraded /\ arm[job.id] = "ARMED" /\ armed' = Detached(job.id)
      <4>1. armed' = NoId
        BY <2>1, <3>1 DEF Detached, SlotInv
      <4> QED
        BY <4>1
    <3>2. CASE arm' = arm /\ armed' = armed /\ cdegraded' = TRUE
      BY <3>2, Zenon DEF SlotInv
    <3>3. CASE /\ cdegraded \/ arm[job.id] # "ARMED"
               /\ arm' = arm /\ armed' = armed /\ cdegraded' = cdegraded
      BY <2>1, <3>3 DEF SlotInv
    <3> QED
      BY <1>3, <3>1, <3>2, <3>3, DisarmStep, Zenon DEF ContIll, ContWell
  <2> QED
    BY <1>1, <2>1, <2>2 DEF SlotInv, Active, R
<1>4. CASE Decide
  <2>1. job.at = "decide" /\ job.id \in Ids /\ armed = job.id /\ slot = job.id
    BY <1>4, DecideStep DEF TypeOK, OfArm, SlotInv
  <2>2. CASE armed' = Detached(job.id) /\ job' = To("close")
    <3>1. armed' = NoId /\ job'.at = "close" /\ job'.id = job.id
      BY <1>0, <2>1, <2>2 DEF Detached
    <3> QED
      BY <1>1, <2>1, <3>1 DEF SlotInv, Active, R
  <2>3. CASE ContIll /\ job' = To("idle")
    <3>1. job'.at = "idle" /\ arm' = arm /\ armed' = armed /\ cdegraded' = TRUE
      BY <1>0, <2>3 DEF ContIll
    <3>2. armed' # NoId => arm'[armed'] = "ARMED" /\ cdegraded'
      BY <3>1, Zenon DEF SlotInv
    <3> QED
      BY <1>1, <2>1, <3>1, <3>2 DEF SlotInv, Active, R
  <2> QED
    BY <1>4, <2>2, <2>3, DecideStep
<1> QED
  BY <1>2, <1>3, <1>4

LEMMA EndStepsSlot ==
  ASSUME TypeOK, SlotInv, WriteEnd \/ Close
  PROVE  SlotInv'
<1>0. /\ AfterEnd \in {"idle", "tick", "closed"}
      /\ {"idle", "tick", "closed", "disarm"} \subseteq Places
      /\ \A w \in Places : To(w).at = w /\ (w # "idle" => To(w).id = job.id)
      /\ rt \in [Ids -> Runtimes]
      /\ "none" \notin Structural \cup ContinuationStates
  BY AfterIsAPlace, GoingAnywhere DEF Places, TypeOK, Structural, ContinuationStates
<1>1. CASE WriteEnd
  <2>1. /\ job.at = "end" /\ job.id \in Ids /\ UNCHANGED <<arm, armed, cdegraded>>
        /\ job.state \in Structural /\ slot = job.id
    BY <1>1, EndStep DEF SlotInv
  <2>2. CASE /\ \E r \in Runtimes : /\ rt' = [rt EXCEPT ![job.id] = r]
                                    /\ r.state = job.state
             /\ slot' = NoId /\ job' = To("disarm")
    <3>1. \A id \in Ids : rt'[id].state = "none" => rt'[id] = NoRuntime
      BY <1>0, <2>1, <2>2 DEF SlotInv
    <3>2. job'.at = "disarm" /\ job'.id = job.id
      BY <1>0, <2>2
    <3>3. armed' # NoId => arm'[armed'] = "ARMED" /\ (cdegraded' \/ job'.id = armed')
      BY <2>1, <3>2, Zenon DEF SlotInv
    <3> QED
      BY <2>1, <2>2, <3>1, <3>2, <3>3 DEF SlotInv, Active
  <2>3. CASE rt' = rt /\ slot' = slot /\ job' = To(AfterEnd)
    BY <1>0, <2>1, <2>3 DEF SlotInv, Active
  <2> QED
    BY <1>1, <2>2, <2>3, EndStep, Zenon
<1>2. CASE Close
  <2>1. /\ job.at = "close" /\ job.id \in Ids /\ UNCHANGED <<arm, armed, cdegraded>>
        /\ job'.at = "idle" /\ slot = job.id /\ slot' = NoId /\ armed = NoId
    BY <1>2, CloseStep, NoJobIs DEF SlotInv, Freed
  <2>2. \A id \in Ids : rt'[id].state = "none" => rt'[id] = NoRuntime
    BY <1>0, <1>2, CloseStep DEF SlotInv
  <2> QED
    BY <2>1, <2>2 DEF SlotInv, Active
<1> QED
  BY <1>1, <1>2

LEMMA ElsewhereSlot ==
  ASSUME TypeOK, SlotInv, FailsElsewhere
  PROVE  SlotInv'
<1>1. /\ UNCHANGED <<rt, slot, arm, armed>> /\ job.at \in {"idle", "end", "closed"}
      /\ job' = job \/ job'.at = "closed"
      /\ cdegraded' = cdegraded \/ cdegraded' = TRUE
  BY ElsewhereStep, Zenon
<1>2. /\ slot' # NoId => Active(rt'[slot'])
      /\ \A id \in Ids : rt'[id].state = "none" => rt'[id] = NoRuntime
  BY <1>1 DEF SlotInv
<1>3. armed' # NoId => arm'[armed'] = "ARMED" /\ (cdegraded' \/ slot' = armed')
  <2>1. armed # NoId => arm[armed] = "ARMED" /\ (cdegraded \/ slot = armed)
    BY <1>1 DEF SlotInv
  <2>2. cdegraded => cdegraded'
    BY <1>1, Zenon
  <2> SUFFICES ASSUME armed' # NoId PROVE arm'[armed'] = "ARMED" /\ (cdegraded' \/ slot' = armed')
    OBVIOUS
  <2>3. armed # NoId /\ arm'[armed'] = arm[armed] /\ (slot = armed => slot' = armed')
    BY <1>1
  <2> QED
    BY <2>1, <2>2, <2>3, Zenon
<1>4. job'.at \in {"idle", "end", "closed"} /\ (job'.at = "end" => slot' = job'.id)
  BY <1>1 DEF SlotInv
<1> QED
  BY <1>2, <1>3, <1>4 DEF SlotInv, Active

LEMMA SlotStepInv == TypeOK /\ SlotInv /\ [Next]_vars => SlotInv'
<1> SUFFICES ASSUME TypeOK, SlotInv, [Next]_vars PROVE SlotInv'
  OBVIOUS
<1>1. CASE Exit \/ Crash
  <2>1. Ended
    BY <1>1 DEF Exit, Crash
  <2>2. job'.at = "idle" /\ slot' = NoId /\ armed' = NoId
        /\ \A id \in Ids : rt'[id] = NoRuntime
    BY <2>1, EndedIs, NoJobIs
  <2> QED
    BY <2>2 DEF SlotInv
<1>2. CASE UNCHANGED vars
  BY <1>2, Zenon DEF vars, SlotInv, Active, R
<1> QED
  BY <1>1, <1>2, SlotStepsSlot, AwayStepsSlot, SpikeStepsSlot, EndingSlot, TickSlot, ArmStepsSlot,
     EndStepsSlot, ElsewhereSlot, Zenon DEF Next

LEMMA InHandIsKnown == Spec => [](TypeOK /\ SlotInv)
<1>1. Init => SlotInv
  BY InitSlot
<1>2. TypeOK /\ SlotInv /\ [Next]_vars => SlotInv'
  BY SlotStepInv
<1> QED
  BY <1>1, <1>2, Types, PTL DEF Spec

-----------------------------------------------------------------------------
(* No setup is begun twice.  A spike is found only in a candle that is whole *)
(* and therefore later than any minute a process of this session had begun;  *)
(* its minute names a setup nobody has written of.                           *)

Early == {"candle", "minute"} \cup OfSpike

TimeInv ==
  /\ now <= clock /\ (now = 0 => ~whole)
  /\ up = "down" => now = 0 /\ job.at = "idle"
  /\ job.at \in {"candle"} \cup OfSpike => up = "run" /\ job.minute # 0
  /\ job.at = "minute" /\ up = "run" => job.minute # 0
  /\ job.at \in Early => /\ now # 0 /\ job.minute <= clock
                         /\ job.minute # 0 => job.minute > now
  /\ job.at \in OfSpike => job.id = now
  /\ up = "stopping" => job.at \in {"end", "disarm", "closed"}

\* Something is stored or remembered of the setup.
Used(id) ==
  \/ id \in setups \/ log[id] # <<>> \/ rt[id].state # "none" \/ arm[id] # "none"
  \/ id \in arms \/ decisions[id] # "none" \/ id \in broken

Untouched(id) ==
  /\ rt[id].state = "none" /\ arm[id] = "none" /\ id \notin arms
  /\ decisions[id] = "none" /\ id \notin broken

FreshInv ==
  /\ \A id \in Ids : Used(id) => id <= clock /\ (now # 0 => id <= now)
  /\ up = "run" /\ whole /\ job.at \notin OfSpike \cup {"minute"} =>
       \A id \in Ids : Used(id) => id < now
  /\ job.at \in {"spike", "setup"} => ~Used(job.id)
  /\ job.at = "setup" => job.id \in spikes
  /\ job.at \in {"created", "accepted"} => Untouched(job.id) /\ job.id \in setups
  /\ job.at = "created" => log[job.id] = <<>>
  /\ job.at = "accepted" => log[job.id] = <<"SPIKE_ACCEPTED">>
  /\ setups \subseteq spikes /\ \A id \in Ids : Used(id) => id \in setups

\* The steps that follow a candle or a tick neither tell the time nor find spikes.
LateStep ==
  \/ SkipFive \/ FreezeImpulse \/ MissImpulse \/ Evaluate \/ WriteReady \/ Arm
  \/ EnterContinuation \/ ReEnter \/ Structure \/ WriteEnd \/ Disarm \/ OnTick \/ Decide
  \/ Close

LEMMA LateStepIs ==
  ASSUME TypeOK, LateStep
  PROVE  /\ UNCHANGED <<up, clock, now, whole, spikes, setups>>
         /\ job.at \notin Early \cup {"idle"} /\ job'.at \notin Early
<1>0. /\ After \in {"idle", "tick"} /\ AfterEnd \in {"idle", "tick", "closed"}
      /\ {"idle", "tick", "closed", "arm", "structure", "enter", "close", "disarm"} \subseteq Places
      /\ \A w \in Places : To(w).at = w
      /\ job \in Jobs /\ NoJob.at = "idle"
  BY AfterIsAPlace, GoingAnywhere, NoJobIs DEF Places, TypeOK
<1>1. CASE FreezeImpulse \/ EnterContinuation \/ WriteReady \/ ReEnter
  BY <1>0, <1>1, FreezeStep, EnterStep, ReadyStep, ReEnterStep DEF SlotFrame, Early, OfSpike
<1>2. CASE Evaluate
  BY <1>0, <1>2, EvaluateStep, VerdictPlace DEF SlotFrame, Early, OfSpike
<1>3. CASE Structure
  BY <1>0, <1>3, StructureStep, VerdictPlace DEF SlotFrame, Early, OfSpike
<1>4. CASE Arm \/ Disarm \/ Decide
  BY <1>0, <1>4, ArmStep, DisarmStep, DecideStep DEF ContFrame, Early, OfSpike
<1>5. CASE WriteEnd \/ Close
  BY <1>0, <1>5, EndStep, CloseStep DEF Early, OfSpike
<1>6. CASE SkipFive
  BY <1>0, <1>6 DEF SkipFive, Go, At, memory, ledger, Early, OfSpike
<1>7. CASE MissImpulse
  BY <1>0, <1>7 DEF MissImpulse, At, memory, ledger, Early, OfSpike, Jobs
<1>8. CASE OnTick
  <2>1. UNCHANGED <<up, clock, now, whole, spikes, setups>> /\ job.at = "tick"
    BY <1>8 DEF OnTick, At, ledger
  <2>2. job'.at \in {"idle", "decide"}
    BY <1>0, <1>8 DEF OnTick, Go, To, Jobs
  <2> QED
    BY <2>1, <2>2 DEF Early, OfSpike
<1> QED
  BY <1>1, <1>2, <1>3, <1>4, <1>5, <1>6, <1>7, <1>8 DEF LateStep

LEMMA SlotStepsAt ==
  ASSUME TypeOK,
         FreezeImpulse \/ Evaluate \/ WriteReady \/ EnterContinuation \/ ReEnter \/ Structure
  PROVE  /\ slot \in Ids /\ SlotFrame
         /\ job.at \in {"five", "ready", "enter", "structure"}
         /\ Kept \/ \E s \in ActiveStates : Advanced(s)
         /\ Well \/ faults' = faults + 1
         /\ job'.at \notin {"close", "disarm"}
<1>0. /\ After \in {"idle", "tick"} /\ {"arm", "structure", "idle", "tick"} \subseteq Places
      /\ \A w \in Places : To(w).at = w
      /\ {"PULLBACK_MONITORING", "PULLBACK_READY", "CONTINUATION_MONITORING"} \subseteq ActiveStates
  BY AfterIsAPlace, GoingAnywhere DEF Places, ActiveStates
<1>1. CASE FreezeImpulse \/ EnterContinuation \/ WriteReady \/ ReEnter
  BY <1>0, <1>1, FreezeStep, EnterStep, ReadyStep, ReEnterStep DEF Ill
<1>2. CASE Evaluate
  BY <1>0, <1>2, EvaluateStep, VerdictPlace DEF Ill
<1>3. CASE Structure
  BY <1>0, <1>3, StructureStep, VerdictPlace
<1> QED
  BY <1>1, <1>2, <1>3

\* What the close of the session does to a setup.
LEMMA StoppingStays ==
  ASSUME TypeOK, LateStep, up = "stopping", job.at \in {"end", "disarm", "closed"}
  PROVE  job'.at \in {"disarm", "closed"}
<1>0. /\ AfterEnd = "closed" /\ {"disarm", "closed"} \subseteq Places
      /\ \A w \in Places : To(w).at = w
  BY GoingAnywhere DEF AfterEnd, Places
<1>1. ~(FreezeImpulse \/ Evaluate \/ WriteReady \/ EnterContinuation \/ ReEnter \/ Structure)
  BY SlotStepsAt
<1>2. ~(Arm \/ Decide \/ Close)
  BY ArmStep, DecideStep, CloseStep
<1>3. ~(SkipFive \/ MissImpulse \/ OnTick)
  BY DEF SkipFive, MissImpulse, OnTick, At
<1>4. CASE WriteEnd
  BY <1>0, <1>4, EndStep
<1>5. CASE Disarm
  BY <1>0, <1>5, DisarmStep
<1> QED
  BY <1>1, <1>2, <1>3, <1>4, <1>5 DEF LateStep

\* Nobody writes of a setup but the spike that begins it, or of one begun.
LEMMA NoNewSetups ==
  ASSUME TypeOK, SlotInv, LateStep, NEW id \in Ids, Used(id)'
  PROVE  Used(id)
<1>0. /\ rt \in [Ids -> Runtimes] /\ log \in [Ids -> Seq(LogStates)] /\ "none" \notin ActiveStates
      /\ arm \in [Ids -> Verdicts \cup {"ARMED"}] /\ decisions \in [Ids -> Verdicts]
  BY DEF TypeOK, ActiveStates
<1>1. slot \in Ids => Used(slot)
  BY <1>0, IdsAreMinutes DEF Used, SlotInv, Active
<1>2. CASE FreezeImpulse \/ EnterContinuation \/ WriteReady \/ ReEnter \/ Evaluate \/ Structure
  <2>1. slot \in Ids /\ SlotFrame /\ (broken' = broken \/ broken' = broken \cup {slot})
        /\ (Kept \/ \E s \in ActiveStates : Advanced(s))
    <3>1. {"PULLBACK_MONITORING", "PULLBACK_READY", "CONTINUATION_MONITORING"} \subseteq ActiveStates
      BY DEF ActiveStates
    <3>2. CASE FreezeImpulse \/ EnterContinuation \/ WriteReady \/ ReEnter
      BY <3>1, <3>2, FreezeStep, EnterStep, ReadyStep, ReEnterStep
    <3>3. CASE Evaluate
      BY <3>1, <3>3, EvaluateStep
    <3>4. CASE Structure
      BY <3>4, StructureStep
    <3> QED
      BY <1>2, <3>2, <3>3, <3>4
  <2>2. CASE id = slot
    BY <1>1, <2>1, <2>2
  <2>3. CASE id # slot
    <3>1. rt'[id] = rt[id] /\ log'[id] = log[id]
      BY <2>1, <2>3, AfterKept, AfterAdvance
    <3> QED
      BY <2>1, <2>3, <3>1 DEF Used, SlotFrame
  <2> QED
    BY <2>2, <2>3
<1>3. CASE WriteEnd \/ Close
  <2>1. /\ job.id \in Ids /\ slot = job.id
        /\ UNCHANGED <<arm, setups, arms, decisions, broken>>
        /\ rt' = rt \/ \E r \in Runtimes : rt' = [rt EXCEPT ![job.id] = r]
        /\ log' = log \/ \E s : log' = [log EXCEPT ![job.id] = Append(@, s)]
    <3>1. CASE WriteEnd
      BY <3>1, EndStep DEF SlotInv
    <3>2. CASE Close
      BY <3>2, CloseStep DEF SlotInv
    <3> QED
      BY <1>3, <3>1, <3>2
  <2>2. CASE id = slot
    BY <1>1, <2>1, <2>2
  <2>3. CASE id # slot
    BY <1>0, <2>1, <2>3 DEF Used
  <2> QED
    BY <2>2, <2>3
<1>4. CASE Arm
  <2>1. /\ job.id \in Ids /\ slot = job.id /\ ContFrame /\ decisions' = decisions
        /\ arm' = arm \/ arm' = [arm EXCEPT ![job.id] = "ARMED"]
        /\ arms' = arms \/ arms' = arms \cup {job.id}
    BY <1>4, ArmStep DEF SlotInv, TypeOK, OfSetup, ContIll
  <2>2. CASE id = slot
    BY <1>1, <2>1, <2>2
  <2>3. CASE id # slot
    BY <1>0, <2>1, <2>3 DEF Used, ContFrame
  <2> QED
    BY <2>2, <2>3
<1>5. CASE Disarm
  <2>1. /\ ContFrame /\ arms' = arms
        /\ \/ /\ arm[job.id] = "ARMED"
              /\ decisions' = [decisions EXCEPT ![job.id] = "DISARMED"]
              /\ arm' = [arm EXCEPT ![job.id] = "DISARMED"]
           \/ arm' = arm /\ decisions' = decisions
    BY <1>5, DisarmStep DEF ContIll
  <2> QED
    BY <1>0, <2>1 DEF Used, ContFrame
<1>6. CASE Decide
  <2>1. /\ ContFrame /\ arms' = arms /\ job.id \in Ids /\ slot = job.id
        /\ \/ /\ decisions' = [decisions EXCEPT ![job.id] = job.state]
              /\ arm' = [arm EXCEPT ![job.id] = job.state]
           \/ arm' = arm /\ decisions' = decisions
    BY <1>6, DecideStep DEF ContIll, SlotInv, TypeOK, OfArm
  <2>2. CASE id = slot
    BY <1>1, <2>1, <2>2
  <2>3. CASE id # slot
    BY <1>0, <2>1, <2>3 DEF Used, ContFrame
  <2> QED
    BY <2>2, <2>3
<1>7. CASE MissImpulse \/ OnTick
  <2>1. UNCHANGED <<rt, arm, ledger, broken>>
    BY <1>7 DEF MissImpulse, OnTick, memory
  <2> QED
    BY <2>1 DEF Used, ledger
<1>8. CASE SkipFive
  <2>1. /\ UNCHANGED <<rt, arm, ledger>>
        /\ broken' = broken \/ (slot # NoId /\ broken' = broken \cup {slot})
    BY <1>8 DEF SkipFive, Unread, memory
  <2>2. slot # NoId => slot \in Ids
    BY DEF TypeOK
  <2> QED
    BY <1>1, <2>1, <2>2 DEF Used, ledger
<1> QED
  BY <1>2, <1>3, <1>4, <1>5, <1>6, <1>7, <1>8 DEF LateStep

LEMMA NoNewSetupsAtAll ==
  ASSUME TypeOK, SlotInv, Next, ~InsertSetup, NEW id \in Ids, Used(id)'
  PROVE  Used(id) \/ (job.at \in {"created", "accepted"} /\ id = job.id)
<1>0. /\ rt \in [Ids -> Runtimes] /\ log \in [Ids -> Seq(LogStates)]
  BY DEF TypeOK
<1>1. CASE LateStep
  BY <1>1, NoNewSetups
<1>2. CASE \/ TakeTick \/ TakeLateTick \/ CandleDone \/ WriteSpike \/ IgnoreSpike \/ MinuteDone
           \/ SessionCloses \/ Flush \/ Restart
  <2>1. UNCHANGED <<rt, arm, log, arms, decisions, setups, broken>>
    BY <1>2 DEF TakeTick, TakeLateTick, CandleDone, WriteSpike, IgnoreSpike, MinuteDone,
                SessionCloses, Flush, Restart, memory, ledger
  <2> QED
    BY <2>1 DEF Used
<1>3. CASE AppendCreated
  <2>1. /\ job.at = "created" /\ UNCHANGED <<rt, arm, arms, decisions, setups, broken>>
        /\ log' = log \/ log' = [log EXCEPT ![job.id] = Append(@, "SPIKE_ACCEPTED")]
    BY <1>3, CreatedStep
  <2> QED
    BY <1>0, <2>1 DEF Used
<1>4. CASE AppendAccepted
  <2>1. /\ job.at = "accepted" /\ UNCHANGED <<arm, arms, decisions, setups, broken>>
        /\ log' = log \/ log' = [log EXCEPT ![job.id] = Append(@, "IMPULSE_MONITORING")]
        /\ rt' = rt \/ \E r \in Runtimes : rt' = [rt EXCEPT ![job.id] = r]
    BY <1>4, AcceptedStep
  <2> QED
    BY <1>0, <2>1 DEF Used
<1>5. CASE Exit \/ Crash
  <2>1. Ended /\ UNCHANGED <<log, arms, decisions, setups, broken>>
    BY <1>5 DEF Exit, Crash, ledger
  <2>2. rt'[id].state = "none" /\ arm'[id] = "none"
    BY <2>1, EndedIs, NoRuntimeIs
  <2> QED
    BY <2>1, <2>2 DEF Used
<1>6. CASE FailsElsewhere
  BY <1>6, ElsewhereStep DEF Used
<1> QED
  BY <1>1, <1>2, <1>3, <1>4, <1>5, <1>6 DEF Next, LateStep

LEMMA InitFresh == Init => TimeInv /\ FreshInv
<1> SUFFICES ASSUME Init PROVE TimeInv /\ FreshInv
  OBVIOUS
<1>1. /\ job.at = "idle" /\ now = 0 /\ clock = 0 /\ up = "run" /\ setups = {}
      /\ \A id \in Ids : log[id] = <<>>
  BY NoJobIs DEF Init
<1>2. ~whole
  BY Zenon DEF Init
<1>3. \A id \in Ids : ~Used(id)
  BY NoRuntimeIs DEF Init, Used
<1> QED
  BY <1>1, <1>2, <1>3 DEF TimeInv, FreshInv, Early, OfSpike

\* The spike's own steps.
LEMMA SpikeStepIs ==
  ASSUME TypeOK, WriteSpike \/ IgnoreSpike \/ InsertSetup \/ AppendCreated \/ AppendAccepted
  PROVE  /\ UNCHANGED <<up, clock, now, whole>> /\ job.at \in OfSpike
         /\ job'.at \in OfSpike \cup {"minute"} /\ job'.minute = job.minute /\ job'.id = job.id
<1>0. /\ {"setup", "created", "accepted", "minute"} \subseteq Places
      /\ \A w \in Places : To(w).at = w /\ (w # "idle" => /\ To(w).id = job.id
                                                          /\ To(w).minute = job.minute)
  BY GoingAnywhere DEF Places
<1>1. CASE WriteSpike
  BY <1>0, <1>1 DEF WriteSpike, At, Go, memory, OfSpike
<1>2. CASE IgnoreSpike
  BY <1>0, <1>2 DEF IgnoreSpike, At, Go, memory, OfSpike
<1>3. CASE InsertSetup \/ AppendCreated \/ AppendAccepted
  BY <1>0, <1>3, InsertSetupStep, CreatedStep, AcceptedStep DEF OfSpike
<1> QED
  BY <1>1, <1>2, <1>3

LEMMA TimeStep ==
  ASSUME TypeOK, TimeInv, Next
  PROVE  TimeInv'
<1>0. now \in Nat /\ clock \in Nat /\ job \in Jobs /\ job.minute \in Nat /\ NoJob \in Jobs
      /\ NoJob.at = "idle" /\ NoJob.minute = 0
  BY NoJobIs DEF TypeOK, Jobs
<1>1. CASE LateStep
  BY <1>1, LateStepIs, StoppingStays DEF TimeInv, Early
<1>2. CASE WriteSpike \/ IgnoreSpike \/ InsertSetup \/ AppendCreated \/ AppendAccepted
  BY <1>0, <1>2, SpikeStepIs DEF TimeInv, Early, OfSpike
<1>3. CASE TakeTick
  <2>1. PICK m \in clock .. LastMinute :
          /\ m # 0
          /\ job' = [NoJob EXCEPT !.at = FirstFor(now # 0 /\ m > now), !.minute = m]
          /\ now' = (IF now = 0 THEN m ELSE now) /\ clock' = m
    BY <1>3, Zenon DEF TakeTick
  <2>2. m \in Nat /\ m >= clock
    BY <1>0, SetupAssumption
  <2>3. /\ job'.minute = m /\ job'.at = FirstFor(now # 0 /\ m > now)
    BY <1>0, <2>1 DEF Jobs
  <2>4. up' = "run" /\ whole' = whole /\ up = "run"
    BY <1>3 DEF TakeTick
  <2>5. job'.at = "tick" \/ (job'.at = "candle" /\ now # 0 /\ m > now)
    BY <2>3 DEF FirstFor
  <2> QED
    BY <1>0, <2>1, <2>2, <2>3, <2>4, <2>5 DEF TimeInv, Early, OfSpike
<1>4. CASE TakeLateTick
  <2>1. job'.at = "tick" /\ up' = "run" /\ UNCHANGED <<clock, now, whole>>
    BY <1>0, <1>4 DEF TakeLateTick, memory, Jobs
  <2> QED
    BY <2>1 DEF TimeInv, Early, OfSpike
<1>5. CASE CandleDone
  <2>1. /\ job.at = "candle" /\ UNCHANGED <<up, clock, now, whole>>
        /\ job'.at \in {"spike", "minute"} /\ job'.minute = job.minute /\ job'.id = now
    BY <1>0, <1>5 DEF CandleDone, At, Jobs
  <2> QED
    BY <2>1 DEF TimeInv, Early, OfSpike
<1>6. CASE MinuteDone
  <2>1. /\ job.at = "minute" /\ up' = up /\ clock' = clock
        /\ now' = (IF job.minute = 0 THEN now ELSE job.minute)
        /\ up # "down"
    BY <1>6 DEF MinuteDone, At
  <2>2. job'.at \in {"five", "tick", "idle"}
    <3>1. After \in {"idle", "tick"} /\ {"five", "idle", "tick"} \subseteq Places
      BY AfterIsAPlace DEF Places
    <3> QED
      BY <1>6, <3>1, GoingAnywhere DEF MinuteDone, Go
  <2> QED
    BY <1>0, <2>1, <2>2 DEF TimeInv, Early, OfSpike
<1>7. CASE SessionCloses
  <2>1. /\ job'.at \in {"closed", "end"} /\ up' = "stopping" /\ UNCHANGED <<clock, now, whole>>
    BY <1>0, <1>7 DEF SessionCloses, memory, Jobs
  <2> QED
    BY <2>1 DEF TimeInv, Early, OfSpike
<1>8. CASE Flush
  <2>1. /\ job'.at = "minute" /\ job'.minute = 0 /\ up' \in {"flush", "closing"} /\ now # 0
        /\ UNCHANGED <<clock, now, whole>>
    BY <1>0, <1>8 DEF Flush, memory, Jobs
  <2> QED
    BY <1>0, <2>1 DEF TimeInv, Early, OfSpike
<1>9. CASE Exit \/ Crash
  <2>1. Ended /\ clock' = clock
    BY <1>9 DEF Exit, Crash
  <2>2. ~whole'
    BY <2>1, EndedIs, Zenon
  <2> QED
    BY <1>0, <2>1, <2>2, EndedIs DEF TimeInv, Early, OfSpike
<1>10. CASE Restart
  <2>1. up' = "run" /\ up = "down" /\ UNCHANGED <<clock, now, whole, job>>
    BY <1>10 DEF Restart, memory
  <2> QED
    BY <2>1 DEF TimeInv, Early, OfSpike
<1>11. CASE FailsElsewhere
  <2>1. /\ UNCHANGED <<up, clock, now, whole>> /\ job.at \in {"idle", "end", "closed"}
        /\ job' = job \/ (job.at = "end" /\ job'.at = "closed")
    BY <1>11, ElsewhereStep
  <2> QED
    BY <2>1 DEF TimeInv, Early, OfSpike
<1> QED
  BY <1>1, <1>2, <1>3, <1>4, <1>5, <1>6, <1>7, <1>8, <1>9, <1>10, <1>11 DEF Next, LateStep

LEMMA FreshStep ==
  ASSUME TypeOK, SlotInv, TimeInv, FreshInv, Next
  PROVE  FreshInv'
<1>0. /\ now \in Nat /\ clock \in Nat /\ job \in Jobs /\ job.minute \in Nat /\ Ids \subseteq Nat
      /\ NoJob \in Jobs /\ NoJob.at = "idle" /\ NoJob.minute = 0
      /\ log \in [Ids -> Seq(LogStates)]
  BY NoJobIs, IdsAreMinutes DEF TypeOK, Jobs
<1>1. CASE LateStep
  <2>1. \A id \in Ids : Used(id)' => Used(id)
    BY <1>1, NoNewSetups
  <2>2. /\ UNCHANGED <<up, clock, now, whole, spikes, setups>>
        /\ job.at \notin OfSpike \cup {"minute"}
        /\ job'.at \notin {"spike", "setup", "created", "accepted", "minute"}
    BY <1>1, LateStepIs DEF Early, OfSpike
  <2>3. \A id \in Ids : Used(id)' => /\ id <= clock' /\ (now' # 0 => id <= now')
                                     /\ id \in setups'
    BY <2>1, <2>2 DEF FreshInv
  <2>4. up' = "run" /\ whole' => \A id \in Ids : Used(id)' => id < now'
    BY <2>1, <2>2 DEF FreshInv
  <2>5. setups' \subseteq spikes'
    BY <2>2 DEF FreshInv
  <2> QED
    BY <2>2, <2>3, <2>4, <2>5 DEF FreshInv
<1>2. CASE InsertSetup
  <2>1. /\ job.at = "setup" /\ job.id \in Ids /\ job.id = now
        /\ ~Used(job.id) /\ job.id \in spikes
    BY <1>2, InsertSetupStep DEF TypeOK, OfSpike, FreshInv, TimeInv
  <2>2. /\ UNCHANGED <<up, clock, now, whole, rt, arm, spikes, log, arms, decisions, broken>>
        /\ job'.id = job.id
        /\ \/ setups' = setups \cup {job.id} /\ job'.at = "created"
           \/ setups' = setups /\ job'.at = "minute"
    <3>1. {"created", "minute"} \subseteq Places
      BY DEF Places
    <3> QED
      BY <1>2, <3>1, InsertSetupStep, GoingAnywhere
  <2>3. CASE setups' = setups /\ job'.at = "minute"
    BY <2>2, <2>3 DEF FreshInv, Used, OfSpike
  <2>4. CASE setups' = setups \cup {job.id} /\ job'.at = "created"
    <3>1. \A id \in Ids : Used(id)' => Used(id) \/ id = job.id
      BY <2>2, <2>4 DEF Used
    <3>2. Untouched(job.id)' /\ log'[job.id] = <<>>
      BY <2>1, <2>2 DEF Used, Untouched
    <3>3. \A id \in Ids : Used(id)' => id <= clock' /\ (now' # 0 => id <= now')
                                       /\ id \in setups'
      BY <1>0, <2>1, <2>2, <2>4, <3>1 DEF FreshInv, TimeInv
    <3>4. setups' \subseteq spikes'
      BY <2>1, <2>2, <2>4 DEF FreshInv
    <3> QED
      BY <2>2, <2>4, <3>2, <3>3, <3>4 DEF FreshInv, OfSpike, Untouched
  <2> QED
    BY <2>2, <2>3, <2>4
<1>3. CASE AppendCreated
  <2>1. /\ job.at = "created" /\ job.id \in Ids /\ Untouched(job.id) /\ job.id \in setups
        /\ log[job.id] = <<>>
    BY <1>3, CreatedStep DEF TypeOK, OfSpike, FreshInv
  <2>2. /\ UNCHANGED <<up, clock, now, whole, rt, arm, spikes, setups, arms, decisions, broken>>
        /\ job'.id = job.id
        /\ \/ /\ log' = [log EXCEPT ![job.id] = Append(@, "SPIKE_ACCEPTED")]
              /\ job'.at = "accepted"
           \/ log' = log /\ job'.at = "minute"
    <3>1. {"accepted", "minute"} \subseteq Places
      BY DEF Places
    <3> QED
      BY <1>3, <3>1, CreatedStep, GoingAnywhere
  <2>3. \A id \in Ids : Used(id)' => Used(id)
    BY <1>0, <2>1, <2>2 DEF Used
  <2>4. Untouched(job.id)'
    BY <2>1, <2>2 DEF Untouched
  <2>5. job'.at = "accepted" => log'[job.id] = <<"SPIKE_ACCEPTED">>
    BY <1>0, <2>1, <2>2
  <2> QED
    BY <2>1, <2>2, <2>3, <2>4, <2>5 DEF FreshInv, OfSpike, Untouched
<1>4. CASE AppendAccepted
  <2>1. /\ job.at = "accepted" /\ job.id \in Ids /\ job.id \in setups
    BY <1>4, AcceptedStep DEF TypeOK, OfSpike, FreshInv
  <2>2. UNCHANGED <<up, clock, now, whole, spikes, setups>> /\ job'.at = "minute"
    <3>1. "minute" \in Places
      BY DEF Places
    <3> QED
      BY <1>4, <3>1, AcceptedStep, GoingAnywhere
  <2>3. Used(job.id)
    BY <2>1 DEF Used
  <2>4. \A id \in Ids : Used(id)' => Used(id)
    BY <1>4, <2>1, <2>3, NoNewSetupsAtAll DEF InsertSetup, At
  <2> QED
    BY <2>2, <2>4 DEF FreshInv, OfSpike
<1>5. CASE \/ TakeTick \/ TakeLateTick \/ CandleDone \/ WriteSpike \/ IgnoreSpike \/ MinuteDone
           \/ SessionCloses \/ Flush \/ Restart
  <2>1. UNCHANGED <<rt, arm, log, arms, decisions, setups, broken>>
    BY <1>5 DEF TakeTick, TakeLateTick, CandleDone, WriteSpike, IgnoreSpike, MinuteDone,
                SessionCloses, Flush, Restart, memory, ledger
  <2>2. \A id \in Ids : Used(id)' <=> Used(id)
    BY <2>1 DEF Used
  <2>3. setups' \subseteq spikes'
    <3>1. spikes \subseteq spikes'
      BY <1>5 DEF TakeTick, TakeLateTick, CandleDone, WriteSpike, IgnoreSpike, MinuteDone,
                  SessionCloses, Flush, Restart, ledger
    <3> QED
      BY <2>1, <3>1 DEF FreshInv
  <2>4. \A id \in Ids : Used(id)' => id \in setups'
    BY <2>1, <2>2 DEF FreshInv
  <2>5. CASE TakeTick
    <3>1. PICK m \in clock .. LastMinute :
            /\ job' = [NoJob EXCEPT !.at = FirstFor(now # 0 /\ m > now), !.minute = m]
            /\ now' = (IF now = 0 THEN m ELSE now) /\ clock' = m
      BY <2>5, Zenon DEF TakeTick
    <3>2. m \in Nat /\ m >= clock
      BY <1>0, SetupAssumption
    <3>3. whole' = whole /\ up = "run" /\ job.at = "idle" /\ up' = "run"
      BY <2>5 DEF TakeTick
    <3>4. job'.at \in {"tick", "candle"}
      BY <1>0, <3>1 DEF Jobs, FirstFor
    <3>5. \A id \in Ids : Used(id)' => id <= clock' /\ id <= now'
      BY <1>0, <2>2, <3>1, <3>2 DEF FreshInv
    <3>6. whole' => now' = now
      BY <3>1, <3>3 DEF TimeInv
    <3>7. whole' => \A id \in Ids : Used(id)' => id < now'
      BY <2>2, <3>3, <3>6 DEF FreshInv, OfSpike
    <3> QED
      BY <2>3, <2>4, <3>4, <3>5, <3>7 DEF FreshInv, OfSpike
  <2>6. CASE TakeLateTick
    <3>1. job'.at = "tick" /\ job.at = "idle" /\ UNCHANGED <<up, clock, now, whole>>
      BY <1>0, <2>6 DEF TakeLateTick, memory, Jobs
    <3> QED
      BY <2>2, <2>3, <2>4, <3>1 DEF FreshInv, OfSpike
  <2>7. CASE CandleDone
    <3>1. /\ job.at = "candle" /\ UNCHANGED <<up, clock, now, whole>>
          /\ job'.at = "minute" \/ (job'.at = "spike" /\ whole /\ job'.id = now /\ now \in Ids)
      <4>1. job.at = "candle" /\ UNCHANGED <<up, clock, now, whole>>
        BY <2>7 DEF CandleDone, At
      <4>2. PICK w \in (IF whole THEN BOOLEAN ELSE {FALSE}) :
              \E spike \in (IF w /\ now \in Ids THEN BOOLEAN ELSE {FALSE}) :
                job' = [job EXCEPT !.at = IF spike THEN "spike" ELSE "minute",
                                   !.whole = w, !.five = Filled, !.id = now]
        BY <2>7, Zenon DEF CandleDone
      <4>3. PICK spike \in (IF w /\ now \in Ids THEN BOOLEAN ELSE {FALSE}) :
              job' = [job EXCEPT !.at = IF spike THEN "spike" ELSE "minute",
                                 !.whole = w, !.five = Filled, !.id = now]
        BY <4>2, Zenon
      <4>4. spike => whole /\ now \in Ids
        BY <4>2, <4>3
      <4>5. job'.at = (IF spike THEN "spike" ELSE "minute") /\ job'.id = now
        BY <1>0, <4>3 DEF Jobs
      <4> QED
        BY <4>1, <4>4, <4>5
    <3>2. job'.at = "spike" => ~Used(job.id)'
      <4>1. CASE job'.at = "spike"
        <5>1. up = "run"
          BY <3>1 DEF TimeInv
        <5>2. ~Used(now)
          BY <1>0, <3>1, <4>1, <5>1 DEF FreshInv, OfSpike
        <5> QED
          BY <2>1, <3>1, <4>1, <5>2 DEF Used
      <4> QED
        BY <4>1
    <3>3. \A id \in Ids : Used(id)' => id <= clock' /\ (now' # 0 => id <= now')
      BY <2>2, <3>1 DEF FreshInv
    <3>4. job'.at \in {"spike", "minute"}
      BY <3>1
    <3> QED
      BY <2>3, <2>4, <3>2, <3>3, <3>4 DEF FreshInv, OfSpike
  <2>8. CASE WriteSpike
    <3>1. /\ job.at = "spike" /\ UNCHANGED <<up, clock, now, whole>> /\ job'.id = job.id
          /\ job.id \in Ids
      BY <2>8, SpikeStepIs DEF WriteSpike, At, TypeOK, OfSpike
    <3>2. (job'.at = "setup" /\ job.id \in spikes') \/ job'.at = "minute"
      <4>1. {"setup", "minute"} \subseteq Places
        BY DEF Places
      <4> QED
        BY <2>8, <4>1, GoingAnywhere DEF WriteSpike, Go
    <3>3. ~Used(job.id)'
      <4>1. ~Used(job.id)
        BY <3>1 DEF FreshInv
      <4> QED
        BY <2>1, <3>1, <4>1 DEF Used
    <3>4. \A id \in Ids : Used(id)' => id <= clock' /\ (now' # 0 => id <= now')
      BY <2>2, <3>1 DEF FreshInv
    <3>5. job'.at = "setup" => job'.id \in spikes'
      BY <3>1, <3>2
    <3>6. job'.at \in {"setup", "minute"}
      BY <3>2
    <3> QED
      BY <2>3, <2>4, <3>3, <3>4, <3>5, <3>6 DEF FreshInv, OfSpike
  <2>9. CASE IgnoreSpike
    <3>1. /\ UNCHANGED <<up, clock, now, whole>>
      BY <2>9, SpikeStepIs
    <3>2. job'.at = "minute"
      <4>1. "minute" \in Places
        BY DEF Places
      <4> QED
        BY <2>9, <4>1, GoingAnywhere DEF IgnoreSpike, Go
    <3> QED
      BY <2>2, <2>3, <2>4, <3>1, <3>2 DEF FreshInv, OfSpike
  <2>10. CASE MinuteDone
    <3>1. /\ job.at = "minute" /\ up' = up /\ clock' = clock
          /\ now' = (IF job.minute = 0 THEN now ELSE job.minute)
      BY <2>10 DEF MinuteDone, At
    <3>2. job'.at \in {"five", "tick", "idle"}
      <4>1. After \in {"idle", "tick"} /\ {"five", "idle", "tick"} \subseteq Places
        BY AfterIsAPlace DEF Places
      <4> QED
        BY <2>10, <4>1, GoingAnywhere DEF MinuteDone, Go
    <3>3. now # 0 /\ (job.minute # 0 => job.minute > now) /\ (up = "run" => job.minute # 0)
      BY <3>1 DEF TimeInv, Early
    <3>4. \A id \in Ids : Used(id)' => id <= clock' /\ id <= now' /\ (up' = "run" => id < now')
      BY <1>0, <2>2, <3>1, <3>3 DEF FreshInv
    <3> QED
      BY <2>3, <2>4, <3>2, <3>4 DEF FreshInv, OfSpike
  <2>11. CASE SessionCloses \/ Flush
    <3>1. UNCHANGED <<clock, now>> /\ up' # "run" /\ job'.at \in {"closed", "end", "minute"}
      BY <1>0, <2>11 DEF SessionCloses, Flush, memory, Jobs
    <3> QED
      BY <2>2, <2>3, <2>4, <3>1 DEF FreshInv, OfSpike
  <2>12. CASE Restart
    <3>1. UNCHANGED <<clock, now, whole, job>> /\ up = "down"
      BY <2>12 DEF Restart, memory
    <3>2. ~whole' /\ job'.at = "idle"
      BY <3>1 DEF TimeInv
    <3> QED
      BY <2>2, <2>3, <2>4, <3>1, <3>2 DEF FreshInv, OfSpike
  <2> QED
    BY <1>5, <2>5, <2>6, <2>7, <2>8, <2>9, <2>10, <2>11, <2>12
<1>6. CASE Exit \/ Crash
  <2>1. Ended /\ UNCHANGED <<clock, ledger, broken>>
    BY <1>6 DEF Exit, Crash
  <2>2. /\ ~whole' /\ now' = 0 /\ job'.at = "idle"
        /\ \A id \in Ids : rt'[id].state = "none" /\ arm'[id] = "none"
    <3>1. ~whole'
      BY <2>1, EndedIs, Zenon
    <3> QED
      BY <2>1, <3>1, EndedIs, NoJobIs, NoRuntimeIs
  <2>3. \A id \in Ids : Used(id)' => Used(id)
    BY <2>1, <2>2 DEF Used, ledger
  <2> QED
    BY <2>1, <2>2, <2>3 DEF FreshInv, OfSpike, ledger
<1>7. CASE FailsElsewhere
  <2>1. /\ UNCHANGED <<up, clock, now, whole, spikes, setups>>
        /\ job.at \in {"idle", "end", "closed"} /\ job'.at \in {"idle", "end", "closed"}
    BY <1>7, ElsewhereStep
  <2>2. \A id \in Ids : Used(id)' => Used(id)
    BY <1>7, ElsewhereStep DEF Used
  <2> QED
    BY <2>1, <2>2 DEF FreshInv, OfSpike
<1> QED
  BY <1>1, <1>2, <1>3, <1>4, <1>5, <1>6, <1>7 DEF Next, LateStep

LEMMA FreshAlways == Spec => [](TypeOK /\ SlotInv /\ TimeInv /\ FreshInv)
<1>1. Init => TimeInv /\ FreshInv
  BY InitFresh
<1>2. TypeOK /\ SlotInv /\ TimeInv /\ FreshInv /\ [Next]_vars => TimeInv' /\ FreshInv'
  <2> SUFFICES ASSUME TypeOK, SlotInv, TimeInv, FreshInv, [Next]_vars
               PROVE  TimeInv' /\ FreshInv'
    OBVIOUS
  <2>1. CASE Next
    BY <2>1, TimeStep, FreshStep
  <2>2. CASE UNCHANGED vars
    BY <2>2, Zenon DEF vars, TimeInv, FreshInv, Used, Untouched
  <2> QED
    BY <2>1, <2>2
<1> QED
  BY <1>1, <1>2, InHandIsKnown, PTL DEF Spec

-----------------------------------------------------------------------------
(* One outcome, and a memory that agrees with it.  A setup whose runtime is  *)
(* active has no terminal row, so its first one is its last; a decision is   *)
(* taken only for the setup in the slot, which is such a one.                *)

\* The state of a setup's runtime is that of its last row, or the outcome
\* that continuation stored.
Agrees(id) ==
  rt[id].state # "none" =>
    /\ log[id] # <<>> /\ rt[id].seq = Len(log[id])
    /\ \/ rt[id].state = log[id][Len(log[id])]
       \/ rt[id].state \in ContinuationStates /\ Decided(id)

LogInv ==
  /\ \A id \in Ids : Agrees(id)
  /\ slot # NoId /\ Decided(slot) => job.at = "close"
  /\ job.at = "disarm" => log[job.id] # <<>> /\ log[job.id][Len(log[job.id])] \in Structural
  /\ job.at = "close" => Decided(job.id)
  /\ OneOutcome

LEMMA RowIsLast ==
  ASSUME TypeOK, NEW k \in Ids, NEW s \in LogStates, log' = [log EXCEPT ![k] = Append(@, s)]
  PROVE  /\ \A id \in Ids \ {k} : log'[id] = log[id]
         /\ Len(log'[k]) = Len(log[k]) + 1 /\ log'[k] # <<>>
         /\ log'[k][Len(log'[k])] = s
         /\ \A i \in DOMAIN log[k] : i \in DOMAIN log'[k] /\ log'[k][i] = log[k][i]
         /\ \A i \in DOMAIN log'[k] : i \in DOMAIN log[k] \/ i = Len(log'[k])
<1>1. log \in [Ids -> Seq(LogStates)] /\ log'[k] = Append(log[k], s)
      /\ \A id \in Ids \ {k} : log'[id] = log[id]
  BY DEF TypeOK
<1>2. log[k] \in Seq(LogStates)
  BY <1>1
<1> QED
  BY <1>1, <1>2

\* A setup whose last row does not end it has not ended.
LEMMA NoEnds ==
  ASSUME OneOutcome, NEW id \in Ids,
         log[id] = <<>> \/ log[id][Len(log[id])] \notin TerminalStates
  PROVE  Ends(id) = {}
<1>1. ASSUME NEW i \in Ends(id) PROVE FALSE
  <2>1. i \in DOMAIN log[id] /\ log[id][i] \in TerminalStates /\ i = Len(log[id])
    BY <1>1 DEF Ends, OneOutcome
  <2> QED
    BY <2>1
<1> QED
  BY <1>1

LEMMA SlotIsOpen ==
  ASSUME TypeOK, SlotInv, LogInv, slot \in Ids
  PROVE  /\ Ends(slot) = {} /\ log[slot] # <<>> /\ rt[slot].seq = Len(log[slot])
         /\ rt[slot].state = log[slot][Len(log[slot])]
         /\ job.at # "close" => ~Decided(slot)
<1>1. rt[slot].state \in ActiveStates /\ Agrees(slot) /\ (job.at # "close" => ~Decided(slot))
  BY IdsAreMinutes DEF SlotInv, LogInv, Active
<1>2. "none" \notin ActiveStates /\ ActiveStates \cap TerminalStates = {}
      /\ ActiveStates \cap ContinuationStates = {}
  BY DEF ActiveStates, TerminalStates, ContinuationStates, Structural
<1>3. /\ log[slot] # <<>> /\ rt[slot].seq = Len(log[slot])
      /\ rt[slot].state = log[slot][Len(log[slot])]
  BY <1>1, <1>2 DEF Agrees
<1>4. Ends(slot) = {}
  BY <1>1, <1>2, <1>3, NoEnds DEF LogInv
<1> QED
  BY <1>1, <1>3, <1>4

\* A row of a setup that has not ended: it may end it, and then continuation
\* has not decided otherwise.
LEMMA RowKeepsOutcome ==
  ASSUME TypeOK, OneOutcome, NEW k \in Ids, NEW s \in LogStates, Ends(k) = {},
         log' = [log EXCEPT ![k] = Append(@, s)], decisions' = decisions,
         s \in Structural => ~Decided(k)
  PROVE  OneOutcome'
<1>0. /\ \A id \in Ids \ {k} : log'[id] = log[id]
      /\ \A i \in DOMAIN log[k] : i \in DOMAIN log'[k] /\ log'[k][i] = log[k][i]
      /\ \A i \in DOMAIN log'[k] : i \in DOMAIN log[k] \/ i = Len(log'[k])
      /\ log'[k][Len(log'[k])] = s
  BY RowIsLast
<1>1. SUFFICES ASSUME NEW id \in Ids
               PROVE  /\ \A i \in Ends(id)' : i = Len(log'[id])
                      /\ Decided(id)' => \A i \in DOMAIN log'[id] : log'[id][i] \notin Structural
                      /\ decisions'[id] = "DISARMED" =>
                           \E i \in Ends(id)' : log'[id][i] \in Structural
  BY DEF OneOutcome
<1>2. CASE id # k
  BY <1>0, <1>2 DEF OneOutcome, Ends, Decided
<1>3. CASE id = k
  <2>1. \A i \in Ends(k)' : i = Len(log'[k])
    BY <1>0 DEF Ends
  <2>2. Decided(k)' => \A i \in DOMAIN log'[k] : log'[k][i] \notin Structural
    BY <1>0 DEF OneOutcome, Decided
  <2>3. decisions'[k] # "DISARMED"
    BY DEF OneOutcome
  <2> QED
    BY <1>3, <2>1, <2>2, <2>3
<1> QED
  BY <1>2, <1>3

\* Steps that leave rows, runtimes and decisions alone.
LEMMA LogFrame ==
  ASSUME LogInv, UNCHANGED <<rt, log, decisions, slot>>, job.at # "close",
         job'.at \notin {"disarm", "close"}
  PROVE  LogInv'
<1>1. OneOutcome'
  BY DEF LogInv, OneOutcome, Ends, Decided
<1>2. \A id \in Ids : Agrees(id)'
  BY DEF LogInv, Agrees, Decided
<1>3. ~(slot' # NoId /\ Decided(slot)')
  BY DEF LogInv, Decided
<1> QED
  BY <1>1, <1>2, <1>3 DEF LogInv

LEMMA InitLog == Init => LogInv
<1> SUFFICES ASSUME Init PROVE LogInv
  OBVIOUS
<1>1. /\ job.at = "idle" /\ slot = NoId /\ \A id \in Ids : log[id] = <<>> /\ rt[id].state = "none"
      /\ \A id \in Ids : decisions[id] = "none"
  BY NoJobIs, NoRuntimeIs DEF Init
<1> QED
  BY <1>1 DEF LogInv, Agrees, OneOutcome, Ends, Decided

LEMMA SlotStepsLog ==
  ASSUME TypeOK, SlotInv, LogInv,
         FreezeImpulse \/ Evaluate \/ WriteReady \/ EnterContinuation \/ ReEnter \/ Structure
  PROVE  LogInv'
<1>0. /\ After \in {"idle", "tick"} /\ {"arm", "structure", "idle", "tick"} \subseteq Places
      /\ {"PULLBACK_MONITORING", "PULLBACK_READY", "CONTINUATION_MONITORING"} \subseteq ActiveStates
      /\ \A w \in Places : To(w).at = w
      /\ ActiveStates \subseteq LogStates /\ ActiveStates \cap Structural = {}
      /\ rt \in [Ids -> Runtimes]
  BY AfterIsAPlace, GoingAnywhere DEF Places, ActiveStates, LogStates, Structural, TypeOK
<1>1. /\ slot \in Ids /\ SlotFrame /\ job.at # "close" /\ job'.at \notin {"disarm", "close"}
      /\ Kept \/ \E s \in ActiveStates : Advanced(s)
  <2>1. CASE FreezeImpulse \/ EnterContinuation \/ WriteReady \/ ReEnter
    BY <1>0, <2>1, FreezeStep, EnterStep, ReadyStep, ReEnterStep
  <2>2. CASE Evaluate
    BY <1>0, <2>2, EvaluateStep, VerdictPlace
  <2>3. CASE Structure
    BY <1>0, <2>3, StructureStep, VerdictPlace
  <2> QED
    BY <2>1, <2>2, <2>3
<1>2. /\ Ends(slot) = {} /\ log[slot] # <<>> /\ rt[slot].seq = Len(log[slot])
      /\ rt[slot].state = log[slot][Len(log[slot])] /\ ~Decided(slot)
  BY <1>1, SlotIsOpen
<1>3. slot' = slot /\ decisions' = decisions
  BY <1>1 DEF SlotFrame
<1>4. OneOutcome' /\ Agrees(slot)' /\ \A id \in Ids \ {slot} : log'[id] = log[id] /\ rt'[id] = rt[id]
  <2>1. CASE Kept
    <3>1. /\ log' = log /\ rt'[slot].state = rt[slot].state /\ rt'[slot].seq = rt[slot].seq
          /\ \A id \in Ids \ {slot} : rt'[id] = rt[id]
      BY <1>1, <2>1, AfterKept
    <3>2. OneOutcome'
      BY <1>3, <3>1 DEF LogInv, OneOutcome, Ends, Decided
    <3>3. Agrees(slot)'
      BY <1>2, <1>3, <3>1 DEF Agrees
    <3> QED
      BY <3>1, <3>2, <3>3
  <2>2. ASSUME NEW s \in ActiveStates, Advanced(s)
        PROVE  OneOutcome' /\ Agrees(slot)'
               /\ \A id \in Ids \ {slot} : log'[id] = log[id] /\ rt'[id] = rt[id]
    <3>1. /\ rt'[slot].state = s /\ rt'[slot].seq = rt[slot].seq + 1
          /\ \A id \in Ids \ {slot} : rt'[id] = rt[id] /\ log'[id] = log[id]
      BY <1>1, <2>2, AfterAdvance
    <3>2. s \in LogStates /\ s \notin Structural /\ log' = [log EXCEPT ![slot] = Append(@, s)]
      BY <1>0, <2>2 DEF Advanced
    <3>3. OneOutcome'
      BY <1>1, <1>2, <1>3, <3>2, RowKeepsOutcome DEF LogInv
    <3>4. /\ Len(log'[slot]) = Len(log[slot]) + 1 /\ log'[slot] # <<>>
          /\ log'[slot][Len(log'[slot])] = s
      BY <1>1, <3>2, RowIsLast
    <3>5. Agrees(slot)'
      BY <1>2, <1>3, <3>1, <3>4 DEF Agrees
    <3> QED
      BY <3>1, <3>3, <3>5
  <2> QED
    BY <1>1, <2>1, <2>2
<1>5. \A id \in Ids : Agrees(id)'
  <2>1. ASSUME NEW id \in Ids \ {slot} PROVE Agrees(id)'
    BY <1>3, <1>4, <2>1 DEF LogInv, Agrees, Decided
  <2>2. ASSUME NEW id \in Ids, id = slot PROVE Agrees(id)'
    BY <1>3, <1>4, <2>2 DEF Agrees, Decided
  <2> QED
    BY <2>1, <2>2
<1>6. ~Decided(slot)'
  BY <1>2, <1>3 DEF Decided
<1> QED
  BY <1>1, <1>4, <1>5, <1>6 DEF LogInv

LEMMA SpikeStepsLog ==
  ASSUME TypeOK, SlotInv, FreshInv, LogInv, AppendCreated \/ AppendAccepted
  PROVE  LogInv'
<1>0. /\ {"SPIKE_ACCEPTED", "IMPULSE_MONITORING"} \subseteq LogStates
      /\ {"SPIKE_ACCEPTED", "IMPULSE_MONITORING"} \cap TerminalStates = {}
      /\ {"SPIKE_ACCEPTED", "IMPULSE_MONITORING"} \cap Structural = {}
      /\ rt \in [Ids -> Runtimes] /\ slot \in Ids \cup {NoId}
  BY DEF LogStates, ActiveStates, TerminalStates, ContinuationStates, Structural, TypeOK
<1>1. /\ job.at \in {"created", "accepted"} /\ job.id \in Ids /\ Untouched(job.id) /\ slot = NoId
      /\ job.at = "created" => log[job.id] = <<>>
      /\ job.at = "accepted" => log[job.id] = <<"SPIKE_ACCEPTED">>
      /\ job'.at \in {"accepted", "minute"}
      /\ UNCHANGED <<decisions>>
  <2>1. job.at \in {"created", "accepted"} /\ UNCHANGED <<decisions>>
    BY CreatedStep, AcceptedStep
  <2>2. job'.at \in {"accepted", "minute"}
    <3>1. {"accepted", "minute"} \subseteq Places
      BY DEF Places
    <3> QED
      BY <3>1, CreatedStep, AcceptedStep, GoingAnywhere
  <2> QED
    BY <2>1, <2>2 DEF TypeOK, OfSpike, SlotInv, FreshInv
<1>2. ~Decided(job.id) /\ Ends(job.id) = {}
  <2>1. ~Decided(job.id)
    BY <1>1 DEF Untouched, Decided
  <2>2. log[job.id] = <<>> \/ log[job.id][Len(log[job.id])] \notin TerminalStates
    BY <1>0, <1>1
  <2> QED
    BY <1>1, <2>1, <2>2, NoEnds DEF LogInv
<1>3. CASE UNCHANGED <<rt, log, slot>>
  BY <1>1, <1>3, LogFrame
<1>4. CASE AppendCreated /\ log' = [log EXCEPT ![job.id] = Append(@, "SPIKE_ACCEPTED")]
  <2>1. rt' = rt /\ slot' = slot
    BY <1>4, CreatedStep
  <2>2. OneOutcome'
    BY <1>0, <1>1, <1>2, <1>4, RowKeepsOutcome DEF LogInv
  <2>3. \A id \in Ids \ {job.id} : log'[id] = log[id]
    BY <1>0, <1>1, <1>4, RowIsLast
  <2>4. \A id \in Ids : Agrees(id)'
    BY <1>1, <2>1, <2>3 DEF LogInv, Agrees, Decided, Untouched
  <2> QED
    BY <1>1, <2>1, <2>2, <2>4 DEF LogInv
<1>5. CASE /\ \E r \in Runtimes : /\ rt' = [rt EXCEPT ![job.id] = r]
                                  /\ r.state = "IMPULSE_MONITORING" /\ r.seq = 2
           /\ log' = [log EXCEPT ![job.id] = Append(@, "IMPULSE_MONITORING")]
           /\ slot' = job.id /\ job.at = "accepted"
  <2>1. OneOutcome'
    BY <1>0, <1>1, <1>2, <1>5, RowKeepsOutcome DEF LogInv
  <2>2. /\ \A id \in Ids \ {job.id} : log'[id] = log[id]
        /\ Len(log'[job.id]) = Len(log[job.id]) + 1 /\ log'[job.id] # <<>>
        /\ log'[job.id][Len(log'[job.id])] = "IMPULSE_MONITORING"
    BY <1>0, <1>1, <1>5, RowIsLast
  <2>3. /\ \A id \in Ids \ {job.id} : rt'[id] = rt[id]
        /\ rt'[job.id].state = "IMPULSE_MONITORING" /\ rt'[job.id].seq = 2
    BY <1>0, <1>1, <1>5
  <2>4. Len(log[job.id]) = 1
    <3>1. log[job.id] = <<"SPIKE_ACCEPTED">>
      BY <1>1, <1>5
    <3> QED
      BY <3>1
  <2>6. ASSUME NEW id \in Ids PROVE Agrees(id)'
    <3>1. CASE id = job.id
      <4>0. Len(log'[id]) = 2
        BY <2>2, <2>4, <3>1
      <4>1. log'[id] # <<>> /\ rt'[id].seq = Len(log'[id])
        BY <2>2, <2>3, <3>1, <4>0, Zenon
      <4>2. rt'[id].state = log'[id][Len(log'[id])]
        BY <2>2, <2>3, <3>1
      <4> QED
        BY <4>1, <4>2 DEF Agrees
    <3>2. CASE id # job.id
      BY <1>1, <2>2, <2>3, <3>2 DEF LogInv, Agrees, Decided
    <3> QED
      BY <3>1, <3>2
  <2>7. ~Decided(slot)'
    BY <1>1, <1>2, <1>5 DEF Decided
  <2> QED
    BY <1>1, <2>1, <2>6, <2>7 DEF LogInv
<1>6. \/ UNCHANGED <<rt, log, slot>>
      \/ AppendCreated /\ log' = [log EXCEPT ![job.id] = Append(@, "SPIKE_ACCEPTED")]
      \/ /\ \E r \in Runtimes : /\ rt' = [rt EXCEPT ![job.id] = r]
                                /\ r.state = "IMPULSE_MONITORING" /\ r.seq = 2
         /\ log' = [log EXCEPT ![job.id] = Append(@, "IMPULSE_MONITORING")]
         /\ slot' = job.id /\ job.at = "accepted"
  BY CreatedStep, AcceptedStep
<1> QED
  BY <1>3, <1>4, <1>5, <1>6

LEMMA WriteEndLog ==
  ASSUME TypeOK, SlotInv, LogInv, WriteEnd
  PROVE  LogInv'
<1>0. /\ AfterEnd \in {"idle", "tick", "closed"}
      /\ {"idle", "tick", "closed", "disarm"} \subseteq Places
      /\ \A w \in Places : To(w).at = w /\ (w # "idle" => To(w).id = job.id)
      /\ rt \in [Ids -> Runtimes] /\ Structural \subseteq LogStates
  BY AfterIsAPlace, GoingAnywhere DEF Places, TypeOK, LogStates, TerminalStates
<1>1. /\ job.at = "end" /\ job.id \in Ids /\ slot = job.id /\ slot \in Ids /\ decisions' = decisions
      /\ job.state \in Structural
  BY EndStep DEF SlotInv
<1>2. CASE log' = log /\ rt' = rt /\ slot' = slot /\ job' = To(AfterEnd)
  BY <1>0, <1>1, <1>2, LogFrame
<1>3. CASE /\ \E r \in Runtimes : /\ rt' = [rt EXCEPT ![job.id] = r]
                                  /\ r.state = job.state /\ r.seq = rt[job.id].seq + 1
           /\ log' = [log EXCEPT ![job.id] = Append(@, job.state)]
           /\ slot' = NoId /\ job' = To("disarm")
  <2>1. /\ Ends(job.id) = {} /\ rt[job.id].seq = Len(log[job.id]) /\ ~Decided(job.id)
    BY <1>1, SlotIsOpen
  <2>2. job.state \in LogStates
    BY <1>0, <1>1
  <2>3. OneOutcome'
    BY <1>1, <1>3, <2>1, <2>2, RowKeepsOutcome DEF LogInv
  <2>4. /\ \A id \in Ids \ {job.id} : log'[id] = log[id]
        /\ Len(log'[job.id]) = Len(log[job.id]) + 1 /\ log'[job.id] # <<>>
        /\ log'[job.id][Len(log'[job.id])] = job.state
    BY <1>1, <1>3, <2>2, RowIsLast
  <2>5. /\ \A id \in Ids \ {job.id} : rt'[id] = rt[id]
        /\ rt'[job.id].state = job.state /\ rt'[job.id].seq = rt[job.id].seq + 1
    BY <1>0, <1>1, <1>3
  <2>6. ASSUME NEW id \in Ids PROVE Agrees(id)'
    <3>1. CASE id = job.id
      BY <2>1, <2>4, <2>5, <3>1 DEF Agrees
    <3>2. CASE id # job.id
      BY <1>1, <2>4, <2>5, <3>2 DEF LogInv, Agrees, Decided
    <3> QED
      BY <3>1, <3>2
  <2>7. job'.at = "disarm" /\ job'.id = job.id
    BY <1>0, <1>3
  <2>8. log'[job'.id] # <<>> /\ log'[job'.id][Len(log'[job'.id])] \in Structural
    BY <1>1, <2>4, <2>7
  <2> QED
    BY <1>3, <2>3, <2>6, <2>7, <2>8 DEF LogInv
<1> QED
  BY <1>2, <1>3, EndStep

LEMMA CloseLog ==
  ASSUME TypeOK, SlotInv, LogInv, Close
  PROVE  LogInv'
<1>0. /\ rt \in [Ids -> Runtimes] /\ ContinuationStates \subseteq LogStates
      /\ ContinuationStates \cap Structural = {}
  BY DEF TypeOK, LogStates, TerminalStates, ContinuationStates, Structural
<1>1. /\ job.at = "close" /\ job.id \in Ids /\ slot = job.id /\ slot' = NoId
      /\ decisions' = decisions /\ job'.at = "idle"
  BY CloseStep, NoJobIs DEF SlotInv, Freed
<1>2. /\ Ends(job.id) = {} /\ rt[job.id].seq = Len(log[job.id]) /\ log[job.id] # <<>>
      /\ Decided(job.id)
  BY <1>1, SlotIsOpen DEF LogInv
<1>3. CASE rt' = rt /\ log' = log
  <2>1. OneOutcome'
    BY <1>1, <1>3 DEF LogInv, OneOutcome, Ends, Decided
  <2>2. \A id \in Ids : Agrees(id)'
    BY <1>1, <1>3 DEF LogInv, Agrees, Decided
  <2> QED
    BY <1>1, <2>1, <2>2 DEF LogInv
<1>4. ASSUME NEW out \in ContinuationStates, NEW u \in Runtimes,
             rt' = [rt EXCEPT ![job.id] = u], u.state = out,
             \/ /\ log' = [log EXCEPT ![job.id] = Append(@, out)]
                /\ u.seq = rt[job.id].seq + 1
             \/ log' = log /\ u.seq = rt[job.id].seq
      PROVE  LogInv'
  <2>1. /\ \A id \in Ids \ {job.id} : rt'[id] = rt[id]
        /\ rt'[job.id] = u
    BY <1>0, <1>1, <1>4
  <2>2. /\ \A id \in Ids \ {job.id} : log'[id] = log[id]
        /\ log'[job.id] # <<>> /\ u.seq = Len(log'[job.id])
        /\ OneOutcome'
    <3>1. CASE log' = log /\ u.seq = rt[job.id].seq
      <4>1. OneOutcome'
        BY <1>1, <3>1 DEF LogInv, OneOutcome, Ends, Decided
      <4> QED
        BY <1>2, <3>1, <4>1
    <3>2. CASE /\ log' = [log EXCEPT ![job.id] = Append(@, out)]
               /\ u.seq = rt[job.id].seq + 1
      <4>1. out \in LogStates /\ out \notin Structural
        BY <1>0
      <4>2. OneOutcome'
        BY <1>1, <1>2, <3>2, <4>1, RowKeepsOutcome DEF LogInv
      <4>3. /\ \A id \in Ids \ {job.id} : log'[id] = log[id]
            /\ Len(log'[job.id]) = Len(log[job.id]) + 1 /\ log'[job.id] # <<>>
        BY <1>1, <3>2, <4>1, RowIsLast
      <4> QED
        BY <1>2, <3>2, <4>2, <4>3
    <3> QED
      BY <1>4, <3>1, <3>2
  <2>3. ASSUME NEW id \in Ids PROVE Agrees(id)'
    <3>1. CASE id = job.id
      BY <1>1, <1>2, <1>4, <2>1, <2>2, <3>1 DEF Agrees, Decided
    <3>2. CASE id # job.id
      BY <1>1, <2>1, <2>2, <3>2 DEF LogInv, Agrees, Decided
    <3> QED
      BY <3>1, <3>2
  <2> QED
    BY <1>1, <2>2, <2>3 DEF LogInv
<1> QED
  BY <1>3, <1>4, CloseStep

LEMMA DisarmLog ==
  ASSUME TypeOK, SlotInv, LogInv, Disarm
  PROVE  LogInv'
<1>0. /\ AfterEnd \in {"idle", "tick", "closed"}
      /\ {"idle", "tick", "closed"} \subseteq Places
      /\ \A w \in Places : To(w).at = w
      /\ decisions \in [Ids -> Verdicts]
      /\ Structural \subseteq TerminalStates
  BY AfterIsAPlace, GoingAnywhere DEF Places, TypeOK, TerminalStates
<1>1. /\ job.at = "disarm" /\ job'.at \in {"idle", "tick", "closed"} /\ UNCHANGED <<rt, log, slot>>
      /\ job.id \in Ids
      /\ decisions' = [decisions EXCEPT ![job.id] = "DISARMED"] \/ decisions' = decisions
  BY <1>0, DisarmStep DEF ContFrame, ContIll, TypeOK, OfArm
<1>2. CASE decisions' = decisions
  BY <1>1, <1>2, LogFrame
<1>3. CASE decisions' = [decisions EXCEPT ![job.id] = "DISARMED"]
  <2>1. /\ log[job.id] # <<>> /\ log[job.id][Len(log[job.id])] \in Structural
        /\ slot = NoId
    BY <1>1 DEF LogInv, SlotInv
  <2>2. Len(log[job.id]) \in DOMAIN log[job.id]
    <3>1. log[job.id] \in Seq(LogStates)
      BY <1>1 DEF TypeOK
    <3> QED
      BY <2>1, <3>1
  <2>3. ~Decided(job.id)
    BY <1>1, <2>1, <2>2 DEF LogInv, OneOutcome
  <2>4. /\ decisions'[job.id] = "DISARMED"
        /\ \A id \in Ids \ {job.id} : decisions'[id] = decisions[id]
    BY <1>0, <1>1, <1>3
  <2>5. ASSUME NEW id \in Ids PROVE Agrees(id)'
    BY <1>1, <2>3, <2>4 DEF LogInv, Agrees, Decided
  <2>6. OneOutcome'
    <3>1. ASSUME NEW id \in Ids
          PROVE  /\ \A i \in Ends(id)' : i = Len(log'[id])
                 /\ Decided(id)' => \A i \in DOMAIN log'[id] : log'[id][i] \notin Structural
                 /\ decisions'[id] = "DISARMED" =>
                      \E i \in Ends(id)' : log'[id][i] \in Structural
      <4>1. CASE id # job.id
        BY <1>1, <2>4, <4>1 DEF LogInv, OneOutcome, Ends, Decided
      <4>2. CASE id = job.id
        <5>1. Len(log[id]) \in Ends(id)' /\ log'[id][Len(log[id])] \in Structural
          BY <1>0, <1>1, <2>1, <2>2, <4>2 DEF Ends
        <5>2. \A i \in Ends(id)' : i = Len(log'[id])
          BY <1>1 DEF LogInv, OneOutcome, Ends
        <5> QED
          BY <2>4, <4>2, <5>1, <5>2 DEF Decided
      <4> QED
        BY <4>1, <4>2
    <3> QED
      BY <3>1 DEF OneOutcome
  <2> QED
    BY <1>1, <2>1, <2>5, <2>6 DEF LogInv
<1> QED
  BY <1>1, <1>2, <1>3

LEMMA DecideLog ==
  ASSUME TypeOK, SlotInv, LogInv, Decide
  PROVE  LogInv'
<1>0. /\ {"idle", "close"} \subseteq Places
      /\ \A w \in Places : To(w).at = w /\ (w # "idle" => To(w).id = job.id)
      /\ decisions \in [Ids -> Verdicts] /\ Structural \subseteq TerminalStates
  BY GoingAnywhere DEF Places, TypeOK, TerminalStates
<1>1. /\ job.at = "decide" /\ UNCHANGED <<rt, log, slot>> /\ job.id \in Ids /\ slot = job.id
      /\ job.state \in Outcomes
  BY DecideStep DEF ContFrame, TypeOK, OfArm, SlotInv
<1>2. CASE ContIll /\ job' = To("idle")
  BY <1>0, <1>1, <1>2, LogFrame DEF ContIll
<1>3. CASE decisions' = [decisions EXCEPT ![job.id] = job.state] /\ job' = To("close")
  <2>1. Ends(job.id) = {}
    BY <1>1, SlotIsOpen
  <2>2. /\ decisions'[job.id] \in Outcomes
        /\ \A id \in Ids \ {job.id} : decisions'[id] = decisions[id]
    BY <1>0, <1>1, <1>3
  <2>4. job'.at = "close" /\ job'.id = job.id
    BY <1>0, <1>3
  <2>5. ASSUME NEW id \in Ids PROVE Agrees(id)'
    BY <1>1, <2>2 DEF LogInv, Agrees, Decided, Outcomes
  <2>6. OneOutcome'
    <3>1. ASSUME NEW id \in Ids
          PROVE  /\ \A i \in Ends(id)' : i = Len(log'[id])
                 /\ Decided(id)' => \A i \in DOMAIN log'[id] : log'[id][i] \notin Structural
                 /\ decisions'[id] = "DISARMED" =>
                      \E i \in Ends(id)' : log'[id][i] \in Structural
      <4>1. CASE id # job.id
        BY <1>1, <2>2, <4>1 DEF LogInv, OneOutcome, Ends, Decided
      <4>2. CASE id = job.id
        BY <1>0, <1>1, <2>1, <2>2, <4>2 DEF Ends, Outcomes
      <4> QED
        BY <4>1, <4>2
    <3> QED
      BY <3>1 DEF OneOutcome
  <2>7. decisions'[job'.id] \in {"TRIGGERED", "REJECTED"}
    BY <2>2, <2>4 DEF Outcomes
  <2> QED
    BY <2>4, <2>5, <2>6, <2>7 DEF LogInv, Decided
<1> QED
  BY <1>2, <1>3, DecideStep

\* Steps that only tell time, find spikes or look, or are another stock's: no
\* setup's state, row, arm or decision changes.
QuietStep ==
  \/ TakeTick \/ TakeLateTick \/ CandleDone \/ WriteSpike \/ IgnoreSpike \/ InsertSetup
  \/ MinuteDone \/ SkipFive \/ MissImpulse \/ OnTick \/ FailsElsewhere
  \/ SessionCloses \/ Flush

QuietPlaces == {"idle", "candle", "spike", "setup", "created", "minute", "five", "tick",
                "closed", "end", "decide"}

LEMMA QuietStepIs ==
  ASSUME TypeOK, QuietStep
  PROVE  /\ UNCHANGED <<rt, log, decisions, slot, arm, armed, arms>>
         /\ SkipFive \/ broken' = broken
         /\ job.at \in {"idle", "candle", "spike", "setup", "minute", "five", "tick", "closed",
                       "end"}
         /\ job.at = "end" => up = "stopping"
         /\ job'.at \in QuietPlaces
<1>0. /\ After \in {"idle", "tick"} /\ job \in Jobs /\ NoJob \in Jobs
      /\ \A w \in Places : To(w).at = w
      /\ QuietPlaces \subseteq Places
  BY AfterIsAPlace, GoingAnywhere, NoJobIs DEF TypeOK, QuietPlaces, Places
<1>1. CASE TakeTick
  BY <1>0, <1>1 DEF TakeTick, Jobs, FirstFor, QuietPlaces, ledger
<1>2. CASE TakeLateTick
  BY <1>0, <1>2 DEF TakeLateTick, Jobs, QuietPlaces, ledger, memory
<1>3. CASE CandleDone
  BY <1>0, <1>3 DEF CandleDone, Jobs, QuietPlaces, ledger, At
<1>4. CASE WriteSpike
  BY <1>0, <1>4 DEF WriteSpike, Go, QuietPlaces, memory, At
<1>5. CASE IgnoreSpike \/ SkipFive
  BY <1>0, <1>5 DEF IgnoreSpike, SkipFive, Go, QuietPlaces, ledger, memory, At
<1>6. CASE MinuteDone
  BY <1>0, <1>6 DEF MinuteDone, Go, QuietPlaces, ledger, At
<1>7. CASE InsertSetup
  BY <1>0, <1>7, InsertSetupStep DEF QuietPlaces
<1>8. CASE MissImpulse
  BY <1>0, <1>8 DEF MissImpulse, Jobs, QuietPlaces, ledger, memory, At
<1>9. CASE OnTick
  <2>1. job.at = "tick"
        /\ UNCHANGED <<rt, log, decisions, slot, arm, armed, arms, broken>>
    BY <1>9 DEF OnTick, At, ledger
  <2>2. job'.at \in {"idle", "decide"}
    BY <1>0, <1>9, NoJobIs DEF OnTick, Go, To, Jobs
  <2> QED
    BY <2>1, <2>2 DEF QuietPlaces
<1>10. CASE SessionCloses \/ Flush
  BY <1>0, <1>10, ZenonT(30) DEF SessionCloses, Flush, Jobs, QuietPlaces, ledger, memory
<1>11. CASE FailsElsewhere
  <2>1. job.at = "end" => up = "stopping"
    BY <1>11 DEF FailsElsewhere, Elsewhere
  <2> QED
    BY <1>11, <2>1, ElsewhereStep DEF QuietPlaces
<1> QED
  BY <1>1, <1>2, <1>3, <1>4, <1>5, <1>6, <1>7, <1>8, <1>9, <1>10, <1>11 DEF QuietStep

LEMMA EndedLog ==
  ASSUME LogInv, Exit \/ Crash
  PROVE  LogInv'
<1>1. /\ job'.at = "idle" /\ slot' = NoId /\ log' = log /\ decisions' = decisions
      /\ \A id \in Ids : rt'[id].state = "none"
  BY EndedIs, NoJobIs, NoRuntimeIs DEF Exit, Crash, ledger
<1>2. OneOutcome'
  BY <1>1 DEF LogInv, OneOutcome, Ends, Decided
<1>3. \A id \in Ids : Agrees(id)'
  BY <1>1 DEF Agrees
<1> QED
  BY <1>1, <1>2, <1>3 DEF LogInv

\* LogInv holds in every state that can be reached.
LEMMA LogStep ==
  TypeOK /\ SlotInv /\ TimeInv /\ FreshInv /\ LogInv /\ [Next]_vars => LogInv'
<1> SUFFICES ASSUME TypeOK, SlotInv, TimeInv, FreshInv, LogInv, [Next]_vars PROVE LogInv'
  OBVIOUS
<1>1. CASE QuietStep
  BY <1>1, QuietStepIs, LogFrame DEF QuietPlaces
<1>2. CASE Arm
  <2>1. "enter" \in Places
    BY DEF Places
  <2> QED
    BY <1>2, <2>1, ArmStep, GoingAnywhere, LogFrame DEF ContFrame
<1>3. CASE Restart
  BY <1>3, LogFrame DEF Restart, memory, ledger, TimeInv
<1>4. CASE UNCHANGED vars
  <2>1. CASE job.at \in {"close", "disarm"}
    BY <1>4, <2>1, Zenon DEF vars, LogInv, Agrees, OneOutcome, Ends, Decided
  <2>2. CASE job.at \notin {"close", "disarm"}
    BY <1>4, <2>2, LogFrame DEF vars
  <2> QED
    BY <2>1, <2>2
<1>5. CASE Exit \/ Crash
  BY <1>5, EndedLog
<1> QED
  BY <1>1, <1>2, <1>3, <1>4, <1>5, SlotStepsLog, SpikeStepsLog, WriteEndLog, CloseLog, DisarmLog,
     DecideLog, Zenon DEF Next, QuietStep

LEMMA LogAlways == Spec => [](TypeOK /\ SlotInv /\ TimeInv /\ FreshInv /\ LogInv)
BY InitLog, LogStep, FreshAlways, PTL DEF Spec

\* A setup ends once: the pullback engine's log and the continuation engine's
\* decision never tell two outcomes, across failures and restarts (_terminal,
\* close_after_continuation_outcome, insert_decision).
THEOREM OutcomeIsOne == Spec => []OneOutcome
<1>1. LogInv => OneOutcome
  BY DEF LogInv
<1> QED
  BY <1>1, LogAlways, PTL

\* Between two ticks the runtimes say what the stored rows say, whatever writes
\* failed on the way (_persist_transition).
THEOREM MemoryAgrees == Spec => []MemoryFollowsLog
<1>1. TypeOK /\ SlotInv /\ LogInv => MemoryFollowsLog
  <2> SUFFICES ASSUME TypeOK, SlotInv, LogInv, job.at = "idle", NEW id \in Ids, rt[id] # NoRuntime
               PROVE  /\ rt[id].seq = Len(log[id])
                      /\ \/ rt[id].state = Last(log[id])
                         \/ rt[id].state \in ContinuationStates /\ Decided(id)
                      /\ slot = id => Active(rt[id]) /\ ~Decided(id)
    BY DEF MemoryFollowsLog
  <2>1. rt[id].state # "none"
    BY DEF SlotInv
  <2>2. slot = id => Active(rt[id]) /\ ~Decided(id)
    BY IdsAreMinutes DEF SlotInv, LogInv
  <2> QED
    BY <2>1, <2>2 DEF LogInv, Agrees, Last
<1> QED
  BY <1>1, LogAlways, PTL

-----------------------------------------------------------------------------
(* A trigger is earned. *)

WasReady(id) == \E i \in DOMAIN log[id] : log[id][i] = "PULLBACK_READY"

\* What is armed was READY; a structure that broke under the active setup has
\* ended it, or is about to, or a row of it was lost or a candle left unread.
EarnedInv ==
  /\ armed # NoId => armed \in arms /\ WasReady(armed)
  /\ job.at = "arm" => WasReady(slot)
  /\ slot # NoId /\ slot \in broken =>
       slot \in missed \/ (job.at = "end" /\ up # "stopping")
  /\ TriggerEarned

RowAdded == \E k \in Ids, s \in LogStates : log' = [log EXCEPT ![k] = Append(@, s)]

\* What is stored stays stored.
LEMMA LedgerGrows ==
  ASSUME TypeOK, Next
  PROVE  /\ spikes \subseteq spikes' /\ setups \subseteq setups' /\ arms \subseteq arms'
         /\ missed \subseteq missed'
         /\ log' = log \/ RowAdded
<1>0. /\ ActiveStates \cup Structural \cup ContinuationStates \subseteq LogStates
      /\ {"PULLBACK_MONITORING", "PULLBACK_READY", "CONTINUATION_MONITORING"} \subseteq ActiveStates
      /\ {"SPIKE_ACCEPTED", "IMPULSE_MONITORING"} \subseteq LogStates
  BY DEF LogStates, TerminalStates, ActiveStates
<1>1. CASE FreezeImpulse \/ EnterContinuation \/ WriteReady \/ ReEnter
  BY <1>0, <1>1, FreezeStep, EnterStep, ReadyStep, ReEnterStep
     DEF SlotFrame, Well, Ill, Kept, Advanced, RowAdded
<1>2. CASE Evaluate \/ Structure
  BY <1>0, <1>2, EvaluateStep, StructureStep
     DEF SlotFrame, Well, Ill, Kept, Advanced, RowAdded
<1>3. CASE Arm \/ Disarm \/ Decide
  BY <1>3, ArmStep, DisarmStep, DecideStep DEF ContFrame, ContIll
<1>4. CASE WriteEnd
  BY <1>0, <1>4, EndStep DEF Well, Ill, RowAdded
<1>5. CASE Close
  <2>1. /\ job.id \in Ids /\ UNCHANGED <<arms, spikes, setups, missed>>
        /\ \/ log' = log
           \/ \E out \in ContinuationStates : log' = [log EXCEPT ![job.id] = Append(@, out)]
    BY <1>5, CloseStep
  <2> QED
    BY <1>0, <2>1 DEF RowAdded
<1>6. CASE InsertSetup \/ AppendCreated \/ AppendAccepted
  <2>1. AppendCreated \/ AppendAccepted => job.id \in Ids
    BY CreatedStep, AcceptedStep DEF TypeOK, OfSpike
  <2> QED
    BY <1>0, <1>6, <2>1, InsertSetupStep, CreatedStep, AcceptedStep DEF Well, SpikeIll, RowAdded
<1>7. CASE TakeTick \/ TakeLateTick \/ CandleDone \/ IgnoreSpike \/ MinuteDone
           \/ MissImpulse \/ OnTick \/ SessionCloses \/ Flush \/ Exit \/ Restart
  BY <1>7 DEF TakeTick, TakeLateTick, CandleDone, IgnoreSpike, MinuteDone, MissImpulse,
              OnTick, SessionCloses, Flush, Exit, Restart, ledger
<1>8. CASE WriteSpike \/ Crash \/ SkipFive \/ FailsElsewhere
  BY <1>8 DEF WriteSpike, Crash, SkipFive, Unread, FailsElsewhere, ledger
<1> QED
  BY <1>1, <1>2, <1>3, <1>4, <1>5, <1>6, <1>7, <1>8 DEF Next

LEMMA ReadyStays ==
  ASSUME TypeOK, log' = log \/ RowAdded, NEW id \in Ids, WasReady(id)
  PROVE  WasReady(id)'
<1>1. CASE log' = log
  BY <1>1 DEF WasReady
<1>2. ASSUME NEW k \in Ids, NEW s \in LogStates, log' = [log EXCEPT ![k] = Append(@, s)]
      PROVE  WasReady(id)'
  BY <1>2, RowIsLast DEF WasReady
<1> QED
  BY <1>1, <1>2 DEF RowAdded

\* A step that decides nothing keeps what was earned, unless it breaks the
\* structure of a setup that has triggered.
LEMMA EarnedStays ==
  ASSUME TypeOK, Next, EarnedInv, SlotInv, LogInv,
         \A id \in Ids : decisions'[id] = "TRIGGERED" => decisions[id] = "TRIGGERED",
         broken' = broken \/ (broken' = broken \cup {slot} /\ slot \in Ids /\ job.at # "close")
  PROVE  TriggerEarned'
<1>1. SUFFICES ASSUME NEW id \in Ids, decisions'[id] = "TRIGGERED"
               PROVE  /\ id \in arms' /\ id \in setups' /\ id \in spikes'
                      /\ WasReady(id)'
                      /\ id \in broken' => id \in missed'
  BY DEF TriggerEarned, WasReady
<1>2. /\ id \in arms /\ id \in setups /\ id \in spikes /\ WasReady(id)
      /\ id \in broken => id \in missed
  BY <1>1 DEF EarnedInv, TriggerEarned, WasReady
<1>3. id \in broken' => id \in broken
  BY <1>1, IdsAreMinutes DEF LogInv, Decided
<1> QED
  BY <1>2, <1>3, LedgerGrows, ReadyStays

LEMMA EarnedFrame ==
  ASSUME TypeOK, Next, EarnedInv, SlotInv, LogInv,
         UNCHANGED <<armed, decisions, broken>>, slot' \in {slot, NoId}, job'.at # "arm",
         job.at = "end" /\ up # "stopping" => slot' = NoId \/ slot \in missed'
  PROVE  EarnedInv'
<1>1. TriggerEarned'
  BY EarnedStays
<1>2. armed' # NoId => armed' \in arms' /\ WasReady(armed)'
  <2> SUFFICES ASSUME armed' # NoId PROVE armed' \in arms' /\ WasReady(armed)'
    OBVIOUS
  <2>1. armed \in Ids
    BY DEF TypeOK
  <2>2. armed \in arms /\ WasReady(armed)
    BY DEF EarnedInv
  <2>3. \A id \in Ids : WasReady(id) => WasReady(id)'
    BY LedgerGrows, ReadyStays
  <2>4. armed' = armed
    OBVIOUS
  <2> QED
    BY <2>1, <2>2, <2>3, <2>4, LedgerGrows DEF WasReady
<1>3. slot' # NoId /\ slot' \in broken' => slot' \in missed'
  BY LedgerGrows DEF EarnedInv
<1> QED
  BY <1>1, <1>2, <1>3 DEF EarnedInv

\* A candle left unread excuses the setup whose structure it may have broken.
LEMMA SkipEarned ==
  ASSUME TypeOK, SlotInv, LogInv, EarnedInv, Next, SkipFive
  PROVE  EarnedInv'
<1>1. /\ UNCHANGED <<slot, armed, decisions, arms, log>> /\ job.at = "five"
      /\ \/ UNCHANGED <<broken, missed>>
         \/ /\ slot # NoId /\ missed' = missed \cup {slot}
            /\ broken' = broken \/ broken' = broken \cup {slot}
  BY DEF SkipFive, Unread, At, memory, ledger
<1>2. job'.at # "arm"
  <2>1. After \in {"idle", "tick"} /\ {"idle", "tick"} \subseteq Places
    BY AfterIsAPlace DEF Places
  <2> QED
    BY <2>1, GoingAnywhere DEF SkipFive, Go
<1>3. TriggerEarned'
  BY <1>1, EarnedStays DEF TypeOK
<1> QED
  BY <1>1, <1>2, <1>3 DEF EarnedInv, WasReady

LEMMA SlotStepsEarned ==
  ASSUME TypeOK, SlotInv, TimeInv, LogInv, EarnedInv, Next,
         FreezeImpulse \/ Evaluate \/ WriteReady \/ EnterContinuation \/ ReEnter \/ Structure
  PROVE  EarnedInv'
<1>0. /\ After \in {"idle", "tick"} /\ {"arm", "structure", "idle", "tick"} \subseteq Places
      /\ \A w \in Places : To(w).at = w
  BY AfterIsAPlace, GoingAnywhere DEF Places
<1>1. slot \in Ids /\ SlotFrame /\ job.at \notin {"close", "end"}
  BY FreezeStep, EnterStep, ReadyStep, ReEnterStep, EvaluateStep, StructureStep
<1>2. /\ broken' = broken \/ (broken' = broken \cup {slot} /\ (job'.at = "end" \/ slot \in missed'))
      /\ job'.at = "arm" => Advanced("PULLBACK_READY")
  <2>1. CASE FreezeImpulse \/ EnterContinuation \/ WriteReady \/ ReEnter
    BY <1>0, <2>1, FreezeStep, EnterStep, ReadyStep, ReEnterStep
  <2>2. CASE Evaluate
    BY <1>0, <1>1, <2>2, EvaluateStep, VerdictPlace DEF Ill
  <2>3. CASE Structure
    BY <1>0, <1>1, <2>3, StructureStep, VerdictPlace
  <2> QED
    BY <2>1, <2>2, <2>3
<1>3. TriggerEarned'
  BY <1>1, <1>2, EarnedStays DEF SlotFrame
<1>4. armed' # NoId => armed' \in arms' /\ WasReady(armed)'
  <2> SUFFICES ASSUME armed' # NoId PROVE armed' \in arms' /\ WasReady(armed)'
    OBVIOUS
  <2>1. armed' = armed /\ armed \in Ids /\ arms' = arms
    BY <1>1 DEF TypeOK, SlotFrame
  <2>2. armed \in arms /\ WasReady(armed)
    BY <2>1 DEF EarnedInv
  <2>3. \A id \in Ids : WasReady(id) => WasReady(id)'
    BY LedgerGrows, ReadyStays
  <2> QED
    BY <2>1, <2>2, <2>3 DEF WasReady
<1>5. job'.at = "arm" => WasReady(slot)'
  <2> SUFFICES ASSUME job'.at = "arm" PROVE WasReady(slot)'
    OBVIOUS
  <2>1. /\ log' = [log EXCEPT ![slot] = Append(@, "PULLBACK_READY")] /\ slot' = slot
    BY <1>1, <1>2 DEF Advanced, SlotFrame
  <2>2. log[slot] \in Seq(LogStates)
    BY <1>1 DEF TypeOK
  <2>3. log'[slot] = Append(log[slot], "PULLBACK_READY")
    BY <1>1, <2>1 DEF TypeOK
  <2> QED
    BY <2>1, <2>2, <2>3 DEF WasReady
<1>6. slot' # NoId /\ slot' \in broken' => slot' \in missed' \/ job'.at = "end"
  BY <1>1, <1>2, LedgerGrows, IdsAreMinutes DEF EarnedInv, SlotFrame
<1>7. up' # "stopping"
  BY LateStepIs, SlotStepsAt DEF LateStep, TimeInv
<1> QED
  BY <1>3, <1>4, <1>5, <1>6, <1>7 DEF EarnedInv

LEMMA AcceptedEarned ==
  ASSUME TypeOK, SlotInv, FreshInv, LogInv, EarnedInv, Next, AppendCreated \/ AppendAccepted
  PROVE  EarnedInv'
<1>0. {"accepted", "minute"} \subseteq Places /\ \A w \in Places : To(w).at = w
  BY GoingAnywhere DEF Places
<1>1. /\ job.at \in {"created", "accepted"} /\ Untouched(job.id) /\ slot = NoId
      /\ UNCHANGED <<armed, decisions, broken, arms>> /\ job'.at # "arm" /\ slot' \in {NoId, job.id}
  BY <1>0, CreatedStep, AcceptedStep DEF SlotInv, FreshInv
<1>2. TriggerEarned'
  BY <1>1, EarnedStays
<1>3. armed' # NoId => armed' \in arms' /\ WasReady(armed)'
  <2>1. armed \in Ids \cup {NoId} /\ \A id \in Ids : WasReady(id) => WasReady(id)'
    BY LedgerGrows, ReadyStays DEF TypeOK
  <2> QED
    BY <1>1, <2>1 DEF EarnedInv, WasReady
<1>4. ~(slot' # NoId /\ slot' \in broken')
  BY <1>1 DEF Untouched
<1> QED
  BY <1>1, <1>2, <1>3, <1>4 DEF EarnedInv

LEMMA ArmStepsEarned ==
  ASSUME TypeOK, SlotInv, FreshInv, LogInv, EarnedInv, Next, Arm \/ Disarm
  PROVE  EarnedInv'
<1>0. /\ AfterEnd \in {"idle", "tick", "closed"}
      /\ {"enter", "idle", "tick", "closed"} \subseteq Places /\ \A w \in Places : To(w).at = w
      /\ decisions \in [Ids -> Verdicts]
  BY AfterIsAPlace, GoingAnywhere DEF Places, TypeOK
<1>1. ContFrame /\ job.at \in {"arm", "disarm"} /\ job'.at # "arm"
  BY <1>0, ArmStep, DisarmStep
<1>2. \A id \in Ids : decisions'[id] = "TRIGGERED" => decisions[id] = "TRIGGERED"
  BY <1>0, ArmStep, DisarmStep DEF ContIll
<1>3. TriggerEarned'
  BY <1>1, <1>2, EarnedStays DEF ContFrame
<1>4. armed' \in {armed, NoId} \/ (armed' = slot /\ job.at = "arm" /\ arms' = arms \cup {slot})
  BY ArmStep, DisarmStep DEF ContIll, Detached, SlotInv
<1>5. armed' # NoId => armed' \in arms' /\ WasReady(armed)'
  <2>1. /\ armed \in Ids \cup {NoId} /\ slot \in Ids \cup {NoId}
        /\ \A id \in Ids : WasReady(id) => WasReady(id)'
    BY LedgerGrows, ReadyStays DEF TypeOK
  <2>2. armed' # NoId => armed' \in arms' /\ WasReady(armed')
    BY <1>4, LedgerGrows DEF EarnedInv
  <2>3. log' = log
    BY <1>1 DEF ContFrame
  <2> QED
    BY <2>2, <2>3 DEF WasReady
<1>6. slot' # NoId /\ slot' \in broken' => slot' \in missed'
  BY <1>1 DEF EarnedInv, ContFrame
<1> QED
  BY <1>1, <1>3, <1>5, <1>6 DEF EarnedInv

\* The decision is for the setup that is armed and holds the slot.
LEMMA DecideEarned ==
  ASSUME TypeOK, SlotInv, FreshInv, LogInv, EarnedInv, Next, Decide
  PROVE  EarnedInv'
<1>0. {"idle", "close"} \subseteq Places /\ \A w \in Places : To(w).at = w
  BY GoingAnywhere DEF Places
<1>1. ContFrame /\ arms' = arms /\ job.at = "decide" /\ job'.at # "arm" /\ job.id \in Ids
      /\ slot = job.id /\ armed = job.id
  BY <1>0, DecideStep DEF SlotInv, TypeOK, OfArm
<1>2. /\ job.id \in arms /\ WasReady(job.id) /\ (job.id \in broken => job.id \in missed)
      /\ job.id \in setups /\ job.id \in spikes
  BY <1>1, IdsAreMinutes DEF EarnedInv, FreshInv, Used
<1>3. \A id \in Ids \ {job.id} : decisions'[id] = decisions[id]
  BY DecideStep DEF TypeOK, ContIll
<1>4. TriggerEarned'
  <2> SUFFICES ASSUME NEW id \in Ids, decisions'[id] = "TRIGGERED"
               PROVE  /\ id \in arms /\ id \in setups /\ id \in spikes
                      /\ WasReady(id)
                      /\ id \in broken => id \in missed
    BY <1>1 DEF TriggerEarned, WasReady, ContFrame
  <2>1. CASE id = job.id
    BY <1>2, <2>1
  <2>2. CASE id # job.id
    BY <1>3, <2>2 DEF EarnedInv, TriggerEarned, WasReady
  <2> QED
    BY <2>1, <2>2
<1>5. armed' \in {armed, NoId}
  BY DecideStep DEF ContIll, Detached
<1>6. armed' # NoId => armed' \in arms' /\ WasReady(armed)'
  BY <1>1, <1>2, <1>5 DEF ContFrame, WasReady
<1>7. slot' # NoId /\ slot' \in broken' => slot' \in missed'
  BY <1>1 DEF EarnedInv, ContFrame
<1> QED
  BY <1>1, <1>4, <1>6, <1>7 DEF EarnedInv

LEMMA EarnedStep ==
  TypeOK /\ SlotInv /\ TimeInv /\ FreshInv /\ LogInv /\ EarnedInv /\ [Next]_vars => EarnedInv'
<1> SUFFICES ASSUME TypeOK, SlotInv, TimeInv, FreshInv, LogInv, EarnedInv, [Next]_vars
             PROVE  EarnedInv'
  OBVIOUS
<1>1. CASE QuietStep
  <2>1. Next
    BY <1>1 DEF QuietStep, Next
  <2>2. CASE SkipFive
    BY <2>1, <2>2, SkipEarned
  <2>3. CASE ~SkipFive
    BY <1>1, <2>1, <2>3, QuietStepIs, EarnedFrame DEF QuietPlaces
  <2> QED
    BY <2>2, <2>3
<1>2. CASE WriteEnd
  <2>1. /\ UNCHANGED <<armed, decisions, broken>> /\ job.at = "end"
        /\ slot' = NoId \/ (slot' = slot /\ slot \in missed')
    BY <1>2, EndStep DEF Ill
  <2>2. job'.at # "arm"
    <3>1. /\ AfterEnd \in {"idle", "tick", "closed"}
          /\ {"idle", "tick", "closed", "disarm"} \subseteq Places /\ \A w \in Places : To(w).at = w
      BY AfterIsAPlace, GoingAnywhere DEF Places
    <3> QED
      BY <1>2, <3>1, EndStep
  <2>3. Next
    BY <1>2 DEF Next
  <2> QED
    BY <2>1, <2>2, <2>3, EarnedFrame
<1>3. CASE Close
  <2>1. Next
    BY <1>3 DEF Next
  <2>2. /\ UNCHANGED <<armed, decisions, broken>> /\ job.at = "close" /\ job'.at = "idle"
        /\ slot' \in {slot, NoId}
    BY <1>3, CloseStep, NoJobIs DEF Freed
  <2> QED
    BY <2>1, <2>2, EarnedFrame
<1>4. CASE Restart
  <2>1. Next /\ UNCHANGED <<armed, decisions, broken, slot>> /\ job.at = "idle" /\ job'.at = "idle"
    BY <1>4 DEF Next, Restart, memory, ledger, TimeInv
  <2> QED
    BY <2>1, EarnedFrame
<1>5. CASE Exit \/ Crash
  <2>1. /\ Next /\ armed' = NoId /\ slot' = NoId /\ job'.at = "idle"
        /\ UNCHANGED <<decisions, broken>>
    BY <1>5, EndedIs, NoJobIs DEF Next, Exit, Crash, ledger
  <2> QED
    BY <2>1, EarnedStays DEF EarnedInv
<1>6. CASE UNCHANGED vars
  BY <1>6, Zenon DEF vars, EarnedInv, TriggerEarned, WasReady
<1>7. CASE FreezeImpulse \/ Evaluate \/ WriteReady \/ EnterContinuation \/ ReEnter \/ Structure
  <2>1. Next
    BY <1>7 DEF Next
  <2> QED
    BY <1>7, <2>1, SlotStepsEarned
<1>8. CASE AppendCreated \/ AppendAccepted
  <2>1. Next
    BY <1>8 DEF Next
  <2> QED
    BY <1>8, <2>1, AcceptedEarned
<1>9. CASE Arm \/ Disarm
  <2>1. Next
    BY <1>9 DEF Next
  <2> QED
    BY <1>9, <2>1, ArmStepsEarned
<1>10. CASE Decide
  <2>1. Next
    BY <1>10 DEF Next
  <2> QED
    BY <1>10, <2>1, DecideEarned
<1> QED
  BY <1>1, <1>2, <1>3, <1>4, <1>5, <1>6, <1>7, <1>8, <1>9, <1>10, Zenon DEF Next, QuietStep

\* A trigger is stored only for a setup that was READY and armed, and whose
\* structure no bucket's candle had broken, unless a row of it failed or a
\* degraded engine left a candle of it unread (LiveCandlePipeline.on_tick, _evaluate_continuation).
THEOREM TriggersAreEarned == Spec => []TriggerEarned
<1>1. Init => EarnedInv
  <2> SUFFICES ASSUME Init PROVE EarnedInv
    OBVIOUS
  <2>1. armed = NoId /\ slot = NoId /\ job.at = "idle" /\ \A id \in Ids : decisions[id] = "none"
    BY NoJobIs DEF Init
  <2> QED
    BY <2>1 DEF EarnedInv, TriggerEarned
<1>2. EarnedInv => TriggerEarned
  BY DEF EarnedInv
<1> QED
  BY <1>1, <1>2, EarnedStep, LogAlways, PTL DEF Spec

-----------------------------------------------------------------------------
(* The close of the session settles everything. *)

\* What is left to do once the session was closed: the open setup, its arm,
\* then the flushed candle, of which no engine has a setup left to judge.
Closing ==
  /\ up = "stopping" => /\ job.at \in {"end", "disarm", "closed"}
                        /\ job.at # "end" => slot = NoId
  /\ up = "closing" => job.at \in {"minute", "five", "idle"} /\ slot = NoId /\ job.minute = 0

Settling ==
  /\ ~degraded /\ ~cdegraded
  /\ \A id \in Ids : rt[id].state # "none" => slot = id \/ Ends(id) # {}
  /\ \A id \in Ids : arm[id] # "none" => decisions[id] # "none" \/ armed = id
  /\ armed # NoId /\ job.at \notin {"enter", "disarm"} =>
       rt[armed].state = "CONTINUATION_MONITORING"
  /\ job.at = "close" => R.state = "CONTINUATION_MONITORING"
  /\ Closing

SettleInv == faults = 0 => Settling

\* A closing session only ends what is open, tells continuation and flushes.
LEMMA ClosingActs ==
  ASSUME TypeOK, Next, Closing, up \in {"stopping", "closing"}
  PROVE  \/ WriteEnd \/ Disarm \/ Flush \/ MinuteDone \/ SkipFive \/ Exit \/ Crash
         \/ FailsElsewhere
<1>0. /\ job.at \in {"end", "disarm", "closed", "minute", "five", "idle"}
      /\ job.at = "five" => slot = NoId
      /\ NoId \notin Ids
  BY IdsAreMinutes DEF Closing
<1>1. CASE FreezeImpulse \/ Evaluate \/ WriteReady \/ EnterContinuation \/ ReEnter \/ Structure
  BY <1>0, <1>1, SlotStepsAt
<1>2. CASE Arm \/ Decide \/ Close
  BY <1>0, <1>2, ArmStep, DecideStep, CloseStep
<1>3. CASE TakeTick \/ TakeLateTick \/ CandleDone \/ WriteSpike \/ IgnoreSpike \/ InsertSetup
  BY <1>0, <1>3 DEF TakeTick, TakeLateTick, CandleDone, WriteSpike, IgnoreSpike, InsertSetup, At
<1>4. CASE AppendCreated \/ AppendAccepted
  BY <1>0, <1>4, CreatedStep, AcceptedStep
<1>5. CASE MissImpulse \/ OnTick \/ SessionCloses \/ Restart
  BY <1>0, <1>5 DEF MissImpulse, OnTick, SessionCloses, Restart, At, NoEngine
<1> QED
  BY <1>1, <1>2, <1>3, <1>4, <1>5 DEF Next

LEMMA ClosingStep ==
  ASSUME TypeOK, SlotInv, Next, Closing, ~degraded, faults' = faults
  PROVE  Closing'
<1>0. /\ After \in {"idle", "tick"} /\ (job.minute = 0 => After = "idle")
      /\ {"idle", "tick", "five", "closed", "disarm"} \subseteq Places
      /\ \A w \in Places : To(w).at = w /\ (w # "idle" => To(w).minute = job.minute)
      /\ NoJob.at = "idle" /\ NoJob.minute = 0 /\ NoJob \in Jobs /\ To("idle") = NoJob
      /\ faults \in Nat
  BY AfterIsAPlace, GoingAnywhere, NoJobIs DEF Places, After, TypeOK, To
<1>1. CASE Exit \/ Crash
  BY <1>1, EndedIs DEF Closing, Exit, Crash
<1>2. CASE Restart
  BY <1>2 DEF Closing, Restart
<1>3. CASE SessionCloses
  <2>1. /\ up' = "stopping" /\ slot' = slot
        /\ job'.at = "closed" \/ (job'.at = "end" /\ slot # NoId)
        /\ job'.at = "closed" => slot = NoId
    BY <1>0, <1>3 DEF SessionCloses, OpenAtClose, memory, Jobs
  <2> QED
    BY <2>1 DEF Closing
<1>4. CASE Flush
  BY <1>0, <1>4 DEF Closing, Flush, memory, Jobs
<1>5. CASE MinuteDone
  BY <1>0, <1>5, ClosingActs DEF Closing, MinuteDone, Go, At
<1>6. CASE SkipFive
  BY <1>0, <1>6 DEF Closing, SkipFive, Go, At, memory
<1>7. CASE WriteEnd
  BY <1>0, <1>7, EndStep DEF Closing, Ill
<1>8. CASE Disarm
  <2>1. job.at = "disarm" /\ job' = To(AfterEnd) /\ slot' = slot /\ up' = up
    BY <1>8, DisarmStep DEF ContFrame
  <2> QED
    BY <1>0, <2>1 DEF Closing, AfterEnd
<1>9. CASE FailsElsewhere
  <2>1. faults' = faults + 1 /\ faults + 1 # faults
    BY <1>0, <1>9, ElsewhereStep
  <2> QED
    BY <2>1
<1>10. CASE ~(Exit \/ Crash \/ Restart \/ SessionCloses \/ Flush \/ MinuteDone \/ SkipFive
             \/ WriteEnd \/ Disarm \/ FailsElsewhere)
  <2>1. up \notin {"stopping", "closing"}
    BY <1>10, ClosingActs
  <2>2. up' = up
    <3>1. CASE LateStep
      BY <3>1, LateStepIs
    <3>2. CASE TakeTick \/ TakeLateTick \/ CandleDone
      BY <3>2 DEF TakeTick, TakeLateTick, CandleDone
    <3>3. CASE WriteSpike \/ IgnoreSpike \/ InsertSetup \/ AppendCreated \/ AppendAccepted
      BY <3>3, SpikeStepIs
    <3>4. CASE FailsElsewhere
      BY <3>4, ElsewhereStep
    <3> QED
      BY <1>10, <3>1, <3>2, <3>3, <3>4 DEF Next, LateStep
  <2> QED
    BY <2>1, <2>2 DEF Closing
<1> QED
  BY <1>1, <1>2, <1>3, <1>4, <1>5, <1>6, <1>7, <1>8, <1>9, <1>10

\* Faults are counted, and an engine degrades by a fault only.
LEMMA FaultsCount ==
  ASSUME TypeOK, Next
  PROVE  /\ faults' \in {faults, faults + 1}
         /\ faults' = faults => \/ degraded' = degraded /\ cdegraded' = cdegraded
                                \/ degraded' = FALSE /\ cdegraded' = FALSE
<1>0. faults + 1 # faults
  BY DEF TypeOK
<1>1. CASE FreezeImpulse \/ Evaluate \/ WriteReady \/ EnterContinuation \/ ReEnter \/ Structure
  BY <1>0, <1>1, SlotStepsAt DEF Well, SlotFrame
<1>2. CASE Arm \/ Disarm \/ Decide
  BY <1>0, <1>2, ArmStep, DisarmStep, DecideStep DEF ContWell, ContIll, ContFrame
<1>3. CASE WriteEnd \/ Close
  BY <1>0, <1>3, EndStep, CloseStep DEF Well, Ill
<1>4. CASE InsertSetup \/ AppendCreated \/ AppendAccepted
  BY <1>0, <1>4, InsertSetupStep, CreatedStep, AcceptedStep DEF Well, SpikeIll
<1>5. CASE TakeTick \/ TakeLateTick \/ CandleDone \/ WriteSpike \/ IgnoreSpike \/ MinuteDone
           \/ SkipFive \/ MissImpulse \/ OnTick \/ SessionCloses \/ Flush \/ Restart
  BY <1>5 DEF TakeTick, TakeLateTick, CandleDone, WriteSpike, IgnoreSpike, MinuteDone, SkipFive,
              MissImpulse, OnTick, SessionCloses, Flush, Restart, memory
<1>6. CASE Exit \/ Crash
  BY <1>6, EndedIs DEF Exit, Crash
<1>7. CASE FailsElsewhere
  BY <1>0, <1>7, ElsewhereStep
<1> QED
  BY <1>1, <1>2, <1>3, <1>4, <1>5, <1>6, <1>7 DEF Next

LEMMA SoundStays ==
  ASSUME TypeOK, Next, faults' = faults, ~degraded, ~cdegraded
  PROVE  ~degraded' /\ ~cdegraded'
<1>1. \/ degraded' = degraded /\ cdegraded' = cdegraded
      \/ degraded' = FALSE /\ cdegraded' = FALSE
  BY FaultsCount
<1>2. degraded = FALSE /\ cdegraded = FALSE
  BY DEF TypeOK
<1>3. degraded' = FALSE /\ cdegraded' = FALSE
  BY <1>1, <1>2
<1> QED
  BY <1>3

\* An end stays in the log.
LEMMA EndsStay ==
  ASSUME TypeOK, log' = log \/ RowAdded, NEW id \in Ids, Ends(id) # {}
  PROVE  Ends(id)' # {}
<1>1. CASE log' = log
  BY <1>1 DEF Ends
<1>2. ASSUME NEW k \in Ids, NEW s \in LogStates, log' = [log EXCEPT ![k] = Append(@, s)]
      PROVE  Ends(id)' # {}
  <2>1. PICK i \in Ends(id) : TRUE
    OBVIOUS
  <2>2. i \in DOMAIN log'[id] /\ log'[id][i] \in TerminalStates
    BY <1>2, <2>1, RowIsLast DEF Ends
  <2> QED
    BY <2>2 DEF Ends
<1> QED
  BY <1>1, <1>2 DEF RowAdded

\* A step that leaves runtimes, arms and decisions alone.
LEMMA SettlingFrame ==
  ASSUME TypeOK, Next, Settling, UNCHANGED <<rt, slot, arm, armed, decisions>>,
         job.at \notin {"enter", "disarm"}, job'.at # "close", faults' = faults, SlotInv
  PROVE  Settling'
<1>1. ~degraded' /\ ~cdegraded'
  BY SoundStays DEF Settling
<1>2. Closing'
  BY ClosingStep DEF Settling
<1>3. \A id \in Ids : Ends(id) # {} => Ends(id)' # {}
  BY LedgerGrows, EndsStay
<1>4. \A id \in Ids : rt'[id].state # "none" => slot' = id \/ Ends(id)' # {}
  BY <1>3 DEF Settling
<1> QED
  BY <1>1, <1>2, <1>4 DEF Settling

LEMMA SlotStepsSettling ==
  ASSUME TypeOK, Next, Settling, SlotInv, faults' = faults,
         FreezeImpulse \/ Evaluate \/ WriteReady \/ EnterContinuation \/ ReEnter \/ Structure
  PROVE  Settling'
<1>1. ~degraded' /\ ~cdegraded' /\ Closing'
  BY SoundStays, ClosingStep DEF Settling
<1>2. /\ slot \in Ids /\ SlotFrame
      /\ Kept \/ \E s \in ActiveStates : Advanced(s)
      /\ job.at \in {"five", "ready", "enter", "structure"}
      /\ job'.at \notin {"close", "disarm"}
  BY SlotStepsAt
<1>3. \A id \in Ids : Ends(id) # {} => Ends(id)' # {}
  BY LedgerGrows, EndsStay
<1>4. /\ \A id \in Ids \ {slot} : rt'[id] = rt[id]
  BY <1>2, AfterAdvance, AfterKept
<1>5. \A id \in Ids : rt'[id].state # "none" => slot' = id \/ Ends(id)' # {}
  BY <1>2, <1>3, <1>4 DEF Settling, SlotFrame
<1>6. \A id \in Ids : arm'[id] # "none" => decisions'[id] # "none" \/ armed' = id
  BY <1>2 DEF Settling, SlotFrame
<1>7. armed' # NoId => rt'[armed'].state = "CONTINUATION_MONITORING"
  <2> SUFFICES ASSUME armed # NoId PROVE rt'[slot].state = "CONTINUATION_MONITORING" /\ armed = slot
    BY <1>2 DEF SlotFrame
  <2>1. armed = slot
    BY <1>2 DEF SlotInv, Settling
  <2>2. job.at # "enter" => rt[slot].state = "CONTINUATION_MONITORING"
    BY <1>2, <2>1 DEF Settling
  <2>3. faults + 1 # faults
    BY DEF TypeOK
  <2>4. ~(FreezeImpulse \/ WriteReady \/ ReEnter \/ Evaluate)
    <3>1. FreezeImpulse => job.at = "five" /\ rt[slot].state = "IMPULSE_MONITORING"
      BY FreezeStep DEF R
    <3>2. WriteReady => job.at = "ready" /\ rt[slot].state = "PULLBACK_MONITORING"
      BY ReadyStep DEF SlotInv, R
    <3>3. ReEnter => job.at = "five" /\ rt[slot].state = "PULLBACK_READY"
      BY ReEnterStep DEF R
    <3>4. Evaluate => job.at = "five" /\ rt[slot].state = "PULLBACK_MONITORING"
      BY EvaluateStep DEF R
    <3> QED
      BY <2>2, <3>1, <3>2, <3>3, <3>4
  <2>5. CASE EnterContinuation
    <3>1. Advanced("CONTINUATION_MONITORING")
      BY <2>3, <2>5, EnterStep DEF Ill
    <3>2. "CONTINUATION_MONITORING" \in ActiveStates
      BY DEF ActiveStates
    <3> QED
      BY <1>2, <2>1, <3>1, <3>2, AfterAdvance
  <2>6. CASE Structure
    <3>1. Kept /\ job.at # "enter"
      BY <2>6, StructureStep
    <3> QED
      BY <1>2, <2>1, <2>2, <3>1, AfterKept
  <2> QED
    BY <2>1, <2>4, <2>5, <2>6
<1> QED
  BY <1>1, <1>2, <1>5, <1>6, <1>7 DEF Settling

LEMMA SpikeStepsSettling ==
  ASSUME TypeOK, Next, Settling, SlotInv, FreshInv, faults' = faults,
         AppendCreated \/ AppendAccepted
  PROVE  Settling'
<1>0. {"accepted", "minute"} \subseteq Places /\ \A w \in Places : To(w).at = w
  BY GoingAnywhere DEF Places
<1>1. ~degraded' /\ ~cdegraded' /\ Closing'
  BY SoundStays, ClosingStep DEF Settling
<1>2. /\ job.at \in {"created", "accepted"} /\ job.id \in Ids /\ slot = NoId
      /\ job'.at \in {"accepted", "minute"}
      /\ UNCHANGED <<arm, armed, decisions>>
  BY <1>0, CreatedStep, AcceptedStep DEF SlotInv, TypeOK, OfSpike
<1>3. \A id \in Ids : Ends(id) # {} => Ends(id)' # {}
  BY LedgerGrows, EndsStay
<1>4. (rt' = rt /\ slot' = slot) \/ (slot' = job.id /\ \A id \in Ids \ {job.id} : rt'[id] = rt[id])
  BY CreatedStep, AcceptedStep DEF TypeOK
<1>5. \A id \in Ids : rt'[id].state # "none" => slot' = id \/ Ends(id)' # {}
  BY <1>2, <1>3, <1>4, IdsAreMinutes DEF Settling
<1>6. armed = NoId
  BY <1>2 DEF SlotInv, Settling, TypeOK
<1> QED
  BY <1>1, <1>2, <1>5, <1>6 DEF Settling

LEMMA ArmSettling ==
  ASSUME TypeOK, Next, Settling, SlotInv, faults' = faults, Arm
  PROVE  Settling'
<1>0. "enter" \in Places /\ \A w \in Places : To(w).at = w
  BY GoingAnywhere DEF Places
<1>1. ~degraded' /\ ~cdegraded' /\ Closing'
  BY SoundStays, ClosingStep DEF Settling
<1>2. /\ job.at = "arm" /\ job'.at = "enter" /\ ContFrame /\ decisions' = decisions /\ job.id \in Ids
      /\ slot = job.id
  BY <1>0, ArmStep DEF TypeOK, OfSetup, SlotInv
<1>3. \/ /\ arm[job.id] = "none" /\ arm' = [arm EXCEPT ![job.id] = "ARMED"] /\ armed' = job.id
      \/ UNCHANGED <<arm, armed>>
  BY ArmStep DEF ContIll
<1>4. armed = NoId \/ (armed = job.id /\ arm[job.id] = "ARMED")
  BY <1>2 DEF SlotInv, Settling
<1>5. \A id \in Ids : arm'[id] # "none" => decisions'[id] # "none" \/ armed' = id
  BY <1>2, <1>3, <1>4, IdsAreMinutes DEF Settling, TypeOK
<1>6. \A id \in Ids : rt'[id].state # "none" => slot' = id \/ Ends(id)' # {}
  BY <1>2 DEF Settling, ContFrame, Ends
<1> QED
  BY <1>1, <1>2, <1>5, <1>6 DEF Settling

\* The arm of a setup that ended is disarmed with it.
LEMMA DisarmSettling ==
  ASSUME TypeOK, Next, Settling, SlotInv, faults' = faults, Disarm
  PROVE  Settling'
<1>0. /\ AfterEnd \in {"idle", "tick", "closed"}
      /\ {"idle", "tick", "closed"} \subseteq Places /\ \A w \in Places : To(w).at = w
      /\ decisions \in [Ids -> Verdicts] /\ arm \in [Ids -> Verdicts \cup {"ARMED"}]
  BY AfterIsAPlace, GoingAnywhere DEF Places, TypeOK
<1>1. ~degraded' /\ ~cdegraded' /\ Closing'
  BY SoundStays, ClosingStep DEF Settling
<1>2. /\ job.at = "disarm" /\ job'.at \in {"idle", "tick", "closed"} /\ ContFrame /\ job.id \in Ids
      /\ slot = NoId /\ armed \in Ids \cup {NoId}
  BY <1>0, DisarmStep DEF TypeOK, OfArm, SlotInv
<1>3. armed # NoId => armed = job.id /\ arm[job.id] = "ARMED"
  BY <1>2 DEF SlotInv, Settling
<1>4. \/ /\ decisions' = [decisions EXCEPT ![job.id] = "DISARMED"]
         /\ arm' = [arm EXCEPT ![job.id] = "DISARMED"] /\ armed' = Detached(job.id)
      \/ arm[job.id] # "ARMED" /\ UNCHANGED <<arm, armed, decisions>>
  <2>1. faults + 1 # faults
    BY DEF TypeOK
  <2> QED
    BY <2>1, DisarmStep DEF ContIll, Settling
<1>5. armed' = NoId
  BY <1>3, <1>4 DEF Detached
<1>6. \A id \in Ids : arm'[id] # "none" => decisions'[id] # "none"
  BY <1>0, <1>2, <1>3, <1>4, IdsAreMinutes DEF Settling
<1>7. \A id \in Ids : rt'[id].state # "none" => slot' = id \/ Ends(id)' # {}
  BY <1>2 DEF Settling, ContFrame, Ends
<1> QED
  BY <1>1, <1>2, <1>5, <1>6, <1>7 DEF Settling

LEMMA DecideSettling ==
  ASSUME TypeOK, Next, Settling, SlotInv, faults' = faults, Decide
  PROVE  Settling'
<1>0. /\ "close" \in Places /\ \A w \in Places : To(w).at = w
      /\ decisions \in [Ids -> Verdicts] /\ arm \in [Ids -> Verdicts \cup {"ARMED"}]
  BY GoingAnywhere DEF Places, TypeOK
<1>1. ~degraded' /\ ~cdegraded' /\ Closing'
  BY SoundStays, ClosingStep DEF Settling
<1>2. /\ job.at = "decide" /\ job.id \in Ids /\ armed = job.id /\ slot = job.id /\ ContFrame
      /\ job.state \in Outcomes
  BY DecideStep DEF TypeOK, OfArm, SlotInv
<1>3. /\ decisions' = [decisions EXCEPT ![job.id] = job.state]
      /\ arm' = [arm EXCEPT ![job.id] = job.state] /\ armed' = Detached(job.id)
      /\ job'.at = "close"
  <2>1. faults + 1 # faults
    BY DEF TypeOK
  <2> QED
    BY <1>0, <2>1, DecideStep DEF ContIll
<1>4. armed' = NoId
  BY <1>2, <1>3 DEF Detached
<1>5. \A id \in Ids : arm'[id] # "none" => decisions'[id] # "none"
  BY <1>0, <1>2, <1>3 DEF Settling, Outcomes
<1>6. \A id \in Ids : rt'[id].state # "none" => slot' = id \/ Ends(id)' # {}
  BY <1>2 DEF Settling, ContFrame, Ends
<1>7. rt'[slot'].state = "CONTINUATION_MONITORING"
  BY <1>2, IdsAreMinutes DEF Settling, ContFrame
<1> QED
  BY <1>1, <1>3, <1>4, <1>5, <1>6, <1>7 DEF Settling, R

\* A terminal row is an end.
LEMMA EndSettling ==
  ASSUME TypeOK, Next, Settling, SlotInv, faults' = faults, WriteEnd \/ Close
  PROVE  Settling'
<1>0. /\ "disarm" \in Places /\ \A w \in Places : To(w).at = w
      /\ Structural \cup ContinuationStates \subseteq TerminalStates
      /\ TerminalStates \subseteq LogStates
      /\ faults + 1 # faults
  BY GoingAnywhere DEF Places, TerminalStates, LogStates, TypeOK
<1>1. ~degraded' /\ ~cdegraded' /\ Closing'
  BY SoundStays, ClosingStep DEF Settling
<1>2. /\ job.at \in {"end", "close"} /\ job.id \in Ids /\ slot = job.id /\ slot' = NoId
      /\ UNCHANGED <<arm, armed, decisions>>
      /\ job'.at \in {"disarm", "idle"} /\ (job.at = "end" => job'.at = "disarm")
      /\ \E s \in TerminalStates : log' = [log EXCEPT ![job.id] = Append(@, s)]
      /\ \A id \in Ids \ {job.id} : rt'[id] = rt[id]
  <2>1. CASE WriteEnd
    BY <1>0, <2>1, EndStep DEF SlotInv, Ill, TypeOK
  <2>2. CASE Close
    <3>1. /\ job.at = "close" /\ job.id \in Ids /\ slot = job.id /\ slot' = NoId
          /\ UNCHANGED <<arm, armed, decisions>> /\ job'.at = "idle"
      BY <2>2, CloseStep, NoJobIs DEF SlotInv, Freed
    <3>2. rt[job.id].state = "CONTINUATION_MONITORING"
      BY <3>1 DEF Settling, R
    <3>3. \E out \in ContinuationStates, u \in Runtimes :
            /\ rt' = [rt EXCEPT ![job.id] = u]
            /\ log' = [log EXCEPT ![job.id] = Append(@, out)]
      BY <1>0, <2>2, <3>2, CloseStep
    <3>4. \A id \in Ids \ {job.id} : rt'[id] = rt[id]
      BY <3>1, <3>3 DEF TypeOK
    <3>5. \E s \in TerminalStates : log' = [log EXCEPT ![job.id] = Append(@, s)]
      BY <1>0, <3>3
    <3> QED
      BY <3>1, <3>4, <3>5
  <2> QED
    BY <2>1, <2>2
<1>3. \A id \in Ids : Ends(id) # {} => Ends(id)' # {}
  BY LedgerGrows, EndsStay
<1>4. \A id \in Ids : id = job.id => Ends(id)' # {}
  <2>1. PICK s \in TerminalStates : log' = [log EXCEPT ![job.id] = Append(@, s)]
    BY <1>2
  <2>2. log[job.id] \in Seq(LogStates) /\ log'[job.id] = Append(log[job.id], s)
    BY <1>2, <2>1 DEF TypeOK
  <2>3. /\ Len(log[job.id]) + 1 \in DOMAIN log'[job.id]
        /\ log'[job.id][Len(log[job.id]) + 1] = s
    BY <2>2
  <2>4. \E i \in DOMAIN log'[job.id] : log'[job.id][i] \in TerminalStates
    BY <2>1, <2>3
  <2> QED
    BY <2>4 DEF Ends
<1>5. \A id \in Ids : rt'[id].state # "none" => Ends(id)' # {}
  BY <1>2, <1>3, <1>4 DEF Settling
<1>6. job.at = "close" => armed = NoId
  BY DEF SlotInv
<1> QED
  BY <1>1, <1>2, <1>5, <1>6 DEF Settling

LEMMA EndedSettling ==
  ASSUME Exit \/ Crash
  PROVE  Settling'
<1>1. /\ up' = "down" /\ job'.at = "idle" /\ armed' = NoId
      /\ degraded' = FALSE /\ cdegraded' = FALSE
      /\ \A id \in Ids : rt'[id].state = "none" /\ arm'[id] = "none"
  BY EndedIs, NoJobIs, NoRuntimeIs DEF Exit, Crash
<1> QED
  BY <1>1 DEF Settling, Closing

LEMMA SettleStep ==
  TypeOK /\ SlotInv /\ TimeInv /\ FreshInv /\ SettleInv /\ [Next]_vars => SettleInv'
<1> SUFFICES ASSUME TypeOK, SlotInv, TimeInv, FreshInv, SettleInv, [Next]_vars, faults' = 0
             PROVE  Settling'
  BY DEF SettleInv
<1>1. CASE UNCHANGED vars
  <2>1. Settling
    BY <1>1 DEF vars, SettleInv
  <2>2. degraded = FALSE /\ cdegraded = FALSE
    BY <2>1 DEF TypeOK, Settling
  <2>3. degraded' = FALSE /\ cdegraded' = FALSE
    BY <1>1, <2>2 DEF vars
  <2>4. Closing'
    BY <1>1, <2>1, Zenon DEF vars, Settling, Closing
  <2>5. \A id \in Ids : rt'[id].state # "none" => slot' = id \/ Ends(id)' # {}
    BY <1>1, <2>1, Zenon DEF vars, Settling, Ends
  <2>6. \A id \in Ids : arm'[id] # "none" => decisions'[id] # "none" \/ armed' = id
    BY <1>1, <2>1, Zenon DEF vars, Settling
  <2>7. /\ armed' # NoId /\ job'.at \notin {"enter", "disarm"} =>
             rt'[armed'].state = "CONTINUATION_MONITORING"
        /\ job'.at = "close" => R'.state = "CONTINUATION_MONITORING"
    BY <1>1, <2>1, Zenon DEF vars, Settling, R
  <2> QED
    BY <2>3, <2>4, <2>5, <2>6, <2>7 DEF Settling
<1>2. CASE Next
  <2>1. faults' = faults /\ Settling
    <3>1. faults' \in {faults, faults + 1}
      BY <1>2, FaultsCount
    <3>2. faults \in Nat
      BY DEF TypeOK
    <3>3. faults = 0
      BY <3>1, <3>2
    <3> QED
      BY <3>3 DEF SettleInv
  <2>2. CASE QuietStep
    BY <1>2, <2>1, <2>2, QuietStepIs, SettlingFrame DEF QuietPlaces
  <2>3. CASE Restart
    BY <1>2, <2>1, <2>3, SettlingFrame DEF Restart, memory, ledger, TimeInv
  <2>4. CASE FreezeImpulse \/ Evaluate \/ WriteReady \/ EnterContinuation \/ ReEnter \/ Structure
    BY <1>2, <2>1, <2>4, SlotStepsSettling
  <2>5. CASE AppendCreated \/ AppendAccepted
    BY <1>2, <2>1, <2>5, SpikeStepsSettling
  <2>6. CASE Arm
    BY <1>2, <2>1, <2>6, ArmSettling
  <2>7. CASE Disarm
    BY <1>2, <2>1, <2>7, DisarmSettling
  <2>8. CASE Decide
    BY <1>2, <2>1, <2>8, DecideSettling
  <2>9. CASE WriteEnd \/ Close
    BY <1>2, <2>1, <2>9, EndSettling
  <2>10. CASE Exit \/ Crash
    BY <2>10, EndedSettling
  <2> QED
    BY <1>2, <2>2, <2>3, <2>4, <2>5, <2>6, <2>7, <2>8, <2>9, <2>10 DEF Next, QuietStep
<1> QED
  BY <1>1, <1>2

\* When the session was closed and no write failed, no setup of the process is
\* left open and no arm undecided (on_session_closed, on_setup_terminal).
THEOREM CloseSettlesAll == Spec => []SettledAtClose
<1>1. Init => SettleInv
  <2> SUFFICES ASSUME Init PROVE Settling
    BY DEF SettleInv
  <2>1. /\ up = "run" /\ job.at = "idle" /\ armed = NoId /\ ~degraded /\ ~cdegraded
        /\ \A id \in Ids : rt[id].state = "none" /\ arm[id] = "none"
    BY NoJobIs, NoRuntimeIs DEF Init
  <2> QED
    BY <2>1 DEF Settling, Closing
<1>2. TypeOK /\ SlotInv /\ SettleInv => SettledAtClose
  <2> SUFFICES ASSUME TypeOK, SlotInv, Settling, up = "closing", NEW id \in Ids
               PROVE  /\ rt[id] # NoRuntime => Ends(id) # {}
                      /\ arm[id] # "none" => decisions[id] # "none"
    BY DEF SettleInv, SettledAtClose
  <2>1. slot = NoId /\ job.at \in {"minute", "five", "idle"}
    BY DEF Settling, Closing
  <2>2. armed = NoId
    BY <2>1 DEF SlotInv, Settling, TypeOK
  <2>3. rt[id] # NoRuntime => Ends(id) # {}
    BY <2>1, IdsAreMinutes DEF SlotInv, Settling
  <2>4. arm[id] # "none" => decisions[id] # "none"
    BY <2>2, IdsAreMinutes DEF Settling
  <2> QED
    BY <2>3, <2>4
<1> QED
  BY <1>1, <1>2, SettleStep, FreshAlways, PTL DEF Spec
=============================================================================
