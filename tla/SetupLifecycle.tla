----------------------------- MODULE SetupLifecycle -----------------------------
(***************************************************************************)
(* From a completed candle to a trigger, for one stock of many: the spike  *)
(* detector, the pullback engine and the continuation engine, which the    *)
(* observation runner wires to one another by callbacks.                   *)
(*                                                                         *)
(* One worker thread runs them all: a tick that opens a new minute first   *)
(* completes the candle before it, the candle runs through the detector    *)
(* and, when it fills a bucket, through the pullback engine, and only then *)
(* is the tick itself put before the continuation engine.  The worker is   *)
(* cut at every row it writes, since each write may fail and the process   *)
(* may end between two of them; `job' says which write is next.            *)
(*                                                                         *)
(* A setup is named by the minute of its spike.  Prices are abstracted to  *)
(* what the rules ask of them: whether a candle closes beyond the impulse, *)
(* how deep the retracement is (0 shallow, 1 in the band, 2 excessive),    *)
(* whether a tick reaches the trigger.  on_trade_executed and              *)
(* record_continuation_attempt are called by no code of the runner.        *)
(***************************************************************************)
EXTENDS Integers, Sequences, SequencesExt, FiniteSets

CONSTANTS
  LastMinute,    \* minutes 1 .. LastMinute of the session
  BucketSize,    \* minutes in a bucket (5 in the code)
  SpikeFrom,     \* spike_detection_start_minute and _end_minute
  SpikeUntil,
  MinPullback,   \* minimum_pullback_candles
  MaxPullback,   \* maximum_pullback_monitoring_candles
  PriorCount,    \* prior_completed_1m_count
  MaxFaults,     \* bound: failed writes and crashes
  MaxRestarts    \* bound: processes after the first

ASSUME SetupAssumption ==
  /\ LastMinute \in Nat \ {0} /\ BucketSize \in Nat \ {0}
  /\ SpikeFrom \in Nat \ {0} /\ SpikeUntil \in 0 .. LastMinute
  /\ MinPullback \in Nat \ {0} /\ MaxPullback \in Nat /\ MinPullback <= MaxPullback
  /\ PriorCount \in Nat \ {0}
  /\ MaxFaults \in Nat /\ MaxRestarts \in Nat

Ids == SpikeFrom .. SpikeUntil
NoId == 0

VARIABLES
  up,        \* "run", "stopping" (on_session_closed), then "closing"; or
             \* "flush" without it; "down"
  clock,     \* the latest minute of a tick
  now,       \* the minute being built, 0 before the first tick of a process
  whole,     \* the candle of `now' is complete and reliable
  bucket,    \* minutes of the current bucket that completed
  job,       \* what the worker does next, and with what
  prior,     \* volumes remembered of completed minutes, at most PriorCount
  vol,       \* TokenVolumeState of the continuation engine
  rt,        \* the pullback engine's runtimes
  slot,      \* _active_by_token
  degraded,  \* _degraded of the pullback engine
  arm,       \* the continuation engine's arms
  armed,     \* _armed_by_token
  cdegraded, \* _degraded of the continuation engine
  spikes,    \* live_intraday_spikes
  setups,    \* live_pullback_setups
  log,       \* live_pullback_setup_events: the resulting states, in order
  arms,      \* live_continuation_arms
  decisions, \* live_continuation_decisions
  faults, lives,
  broken,    \* history: setups a candle of which broke the structure
  missed     \* history: setups a row of which failed, or a candle of which a
             \* degraded engine did not look at

memory == <<now, whole, bucket, prior, vol, rt, slot, degraded, arm, armed, cdegraded>>
ledger == <<spikes, setups, log, arms, decisions>>
vars == <<up, clock, now, whole, bucket, job, prior, vol, rt, slot, degraded, arm, armed,
          cdegraded, spikes, setups, log, arms, decisions, faults, lives,
          broken, missed>>

BucketOf(m) == ((m - 1) \div BucketSize) * BucketSize + 1

ActiveStates == {"IMPULSE_MONITORING", "PULLBACK_MONITORING", "PULLBACK_READY",
                 "CONTINUATION_MONITORING"}
ContinuationStates == {"CONTINUATION_TRIGGERED", "CONTINUATION_REJECTED"}
Structural == {"EXPIRED", "INVALIDATED", "SESSION_CLOSED", "CANCELLED"}
TerminalStates == ContinuationStates \cup Structural

NoRuntime == [state |-> "none", seq |-> 0, eval |-> 0, count |-> 0, deep |-> 0,
              breached |-> FALSE]
\* What the worker is at: the minute of its tick (0 in the flush), whether the
\* candle it completed is whole, the bucket that one filled, and the setup and
\* the state a row is about to be written for.
NoJob == [at |-> "idle", minute |-> 0, whole |-> FALSE, five |-> 0, id |-> NoId,
          state |-> "none"]
NoVol == [min |-> 0, reliable |-> FALSE]

Active(r) == r.state \in ActiveStates

\* Where the worker goes on.
To(where) == IF where = "idle" THEN NoJob ELSE [job EXCEPT !.at = where]
Go(where) == job' = To(where)
At(where) == job.at = where /\ up # "down"

-----------------------------------------------------------------------------
(* Rows that are written, or not. *)

\* A write of the pullback engine that fails.  A conflict is caught where the
\* row is written, and degrades the engine; a database error
\* (sqlite3.OperationalError) is neither a PullbackConflictError nor a
\* RuntimeError: it leaves the handler and is counted, no more.
Subject == IF job.at \in {"setup", "created", "accepted"} THEN job.id ELSE slot
Fault == faults < MaxFaults /\ faults' = faults + 1 /\ missed' = missed \cup {Subject}

\* One write of the pullback engine: it goes on with `done', with `caught'
\* when the failure is caught, and leaves the handler for `out' otherwise.
Write(done, caught, out, Stored, Missed) ==
  \/ Stored /\ job' = done /\ UNCHANGED <<faults, degraded, missed>>
  \/ Missed /\ Fault /\ job' = caught /\ degraded' = TRUE
  \/ Missed /\ Fault /\ job' = out /\ UNCHANGED degraded

\* The continuation writer; a row that fails after its retries degrades the
\* continuation engine, whatever failed.
InsertArm(id) == arms' = arms \cup {id}
InsertDecision(id, d) == decisions' = [decisions EXCEPT ![id] = d]
InsertFails == faults < MaxFaults /\ faults' = faults + 1 /\ cdegraded' = TRUE

\* append_event: the next row of the setup's log.
Logged(id, state) == log' = [log EXCEPT ![id] = Append(@, state)]

-----------------------------------------------------------------------------
(* Ticks and candles. *)

\* LiveCandlePipeline.on_tick: the builder, and all that follows from the
\* candle it completes, comes before any tick consumer.
FirstFor(new) == IF new THEN "candle" ELSE "tick"

\* A tick of this minute or a later one, or one that comes a minute late.
TakeTick ==
  /\ up = "run" /\ job.at = "idle"
  /\ \E m \in clock .. LastMinute :
       /\ m # 0
       /\ job' = [NoJob EXCEPT !.at = FirstFor(now # 0 /\ m > now), !.minute = m]
       /\ now' = IF now = 0 THEN m ELSE now
       /\ clock' = m
  /\ UNCHANGED <<up, whole, bucket, prior, vol, rt, slot, degraded, arm, armed,
                 cdegraded, ledger, faults, lives, broken, missed>>

TakeLateTick ==
  /\ up = "run" /\ job.at = "idle" /\ now > 1
  /\ job' = [NoJob EXCEPT !.at = "tick", !.minute = now - 1]
  /\ UNCHANGED <<up, clock, memory, ledger, faults, lives, broken, missed>>

Minutes == {m \in bucket \cup {now} : BucketOf(m) = BucketOf(now)}

Fills == Cardinality(Minutes) = BucketSize

Filled == IF Fills THEN BucketOf(now) ELSE 0

\* The candle of `now' is complete.  It may be a spike if it is whole and in
\* the window, and it may fill its bucket.
CandleDone ==
  /\ At("candle")
  /\ \E w \in (IF whole THEN BOOLEAN ELSE {FALSE}) :
       \E spike \in (IF w /\ now \in Ids THEN BOOLEAN ELSE {FALSE}) :
         job' = [job EXCEPT !.at = IF spike THEN "spike" ELSE "minute",
                            !.whole = w, !.five = Filled, !.id = now]
  /\ bucket' = IF Fills THEN {} ELSE Minutes
  /\ UNCHANGED <<up, clock, now, whole, prior, vol, rt, slot, degraded, arm, armed,
                 cdegraded, ledger, faults, lives, broken, missed>>

\* The detector stores the spike before it calls the pullback engine.
WriteSpike ==
  /\ At("spike")
  /\ \/ /\ spikes' = spikes \cup {job.id}
        /\ Go("setup")
        /\ UNCHANGED faults
     \/ /\ faults < MaxFaults /\ faults' = faults + 1
        /\ Go("minute")
        /\ UNCHANGED spikes
  /\ UNCHANGED <<up, clock, memory, setups, log, arms, decisions, lives, broken, missed>>

Refused(id) == degraded \/ slot # NoId \/ rt[id] # NoRuntime

\* _handle_spike: while a setup is active a further spike is ignored.
IgnoreSpike ==
  /\ At("setup") /\ Refused(job.id)
  /\ Go("minute")
  /\ UNCHANGED <<up, clock, memory, ledger, faults, lives, broken, missed>>

InsertSetup ==
  /\ At("setup") /\ ~Refused(job.id)
  /\ Write(To("created"), To("minute"), To("minute"),
           setups' = setups \cup {job.id}, UNCHANGED setups)
  /\ UNCHANGED <<up, clock, now, whole, bucket, prior, vol, rt, slot, arm, armed, cdegraded,
                 spikes, log, arms, decisions, lives, broken>>

AppendCreated ==
  /\ At("created")
  /\ Write(To("accepted"), To("minute"), To("minute"),
           Logged(job.id, "SPIKE_ACCEPTED"), UNCHANGED log)
  /\ UNCHANGED <<up, clock, now, whole, bucket, prior, vol, rt, slot, arm, armed, cdegraded,
                 spikes, setups, arms, decisions, lives, broken>>

\* The setup exists in memory once its rows are written.
AppendAccepted ==
  /\ At("accepted")
  /\ Write(To("minute"), To("minute"), To("minute"),
           /\ Logged(job.id, "IMPULSE_MONITORING")
           /\ rt' = [rt EXCEPT ![job.id] = [NoRuntime EXCEPT !.state = "IMPULSE_MONITORING",
                                                             !.seq = 2]]
           /\ slot' = job.id,
           UNCHANGED <<log, rt, slot>>)
  /\ UNCHANGED <<up, clock, now, whole, bucket, prior, vol, arm, armed, cdegraded,
                 spikes, setups, arms, decisions, lives, broken>>

\* What follows the candle: its tick, unless it was flushed.
After == IF job.minute = 0 THEN "idle" ELSE "tick"

\* continuation.on_one_minute; then the bucket's candle, if there is one.  The
\* next minute is begun by the tick.
MinuteDone ==
  /\ At("minute")
  /\ prior' = IF job.whole /\ ~cdegraded /\ prior < PriorCount THEN prior + 1 ELSE prior
  /\ now' = IF job.minute = 0 THEN now ELSE job.minute
  /\ whole' = TRUE
  /\ Go(IF job.five # 0 THEN "five" ELSE After)
  /\ UNCHANGED <<up, clock, bucket, vol, rt, slot, degraded, arm, armed, cdegraded, ledger,
                 faults, lives, broken, missed>>

-----------------------------------------------------------------------------
(* The pullback engine, given a bucket's candle. *)

R == rt[slot]
Set(r) == rt' = [rt EXCEPT ![slot] = r]

\* Mutant: the state moves on whether or not the row was written.
MovedAnyway(id, r, state) ==
  Write(To(After), To(After), To(After), Logged(id, state), UNCHANGED log)
  /\ rt' = [rt EXCEPT ![id] = [r EXCEPT !.state = state, !.seq = @ + 1]]

\* _persist_transition, then transition: r becomes `state' if the row is written.
Moved(id, r, state) ==
  Write(To(After), To(After), To(After),
        /\ Logged(id, state)
        /\ rt' = [rt EXCEPT ![id] = [r EXCEPT !.state = state, !.seq = @ + 1]],
        UNCHANGED log /\ rt' = [rt EXCEPT ![id] = r])

\* What the rules see of a bucket's candle.
Candles == [break : BOOLEAN, depth : 0 .. 2, breach : BOOLEAN]

\* update_sequence.  After READY the candles are no longer counted.
Updated(r, c) ==
  [r EXCEPT !.eval = job.five, !.deep = IF @ < c.depth THEN c.depth ELSE @,
            !.breached = @ \/ c.breach,
            !.count = IF @ <= MaxPullback /\ r.state = "PULLBACK_MONITORING"
                      THEN @ + 1 ELSE @]

InBand(r) == r.deep = 1

\* evaluate_pullback_monitoring.
Judgement(r, c) ==
  IF c.break \/ r.deep = 2 THEN "INVALIDATED"
  ELSE IF r.count >= MinPullback /\ r.count <= MaxPullback /\ InBand(r) THEN "PULLBACK_READY"
  ELSE IF r.count >= MaxPullback /\ ~InBand(r) THEN "EXPIRED"
  ELSE "continue"

\* Mutant: after READY only a close beyond the impulse counts.
StructureCloseOnly(r, c) == IF c.break THEN "INVALIDATED" ELSE "continue"

\* evaluate_continuation_structure.
StructureOf(r, c) == IF c.break \/ r.deep = 2 THEN "INVALIDATED" ELSE "continue"

\* What a judgement leads to.
Verdict(judged) ==
  CASE judged \in Structural -> [job EXCEPT !.at = "end", !.id = slot, !.state = judged]
    [] judged = "PULLBACK_READY" -> [job EXCEPT !.at = "ready", !.id = slot]
    [] OTHER -> To(After)

\* History: the candle broke the setup's structure.
Noted(r, c) == broken' = IF c.break \/ r.deep = 2 THEN broken \cup {slot} ELSE broken

NoEngine == degraded \/ slot = NoId

\* A degraded engine does not look whether the candle breaks the structure.
Unread(id) == missed' = missed \cup {id} /\ broken' \in {broken, broken \cup {id}}

SkipFive ==
  /\ At("five")
  /\ NoEngine
  /\ Go(After)
  /\ IF slot = NoId THEN UNCHANGED <<broken, missed>> ELSE Unread(slot)
  /\ UNCHANGED <<up, clock, memory, ledger, faults, lives>>

\* The candle of the spike's own bucket freezes the impulse.
FreezeImpulse ==
  /\ At("five") /\ ~NoEngine /\ R.state = "IMPULSE_MONITORING" /\ job.five = BucketOf(slot)
  /\ R.eval < job.five
  /\ Moved(slot, [R EXCEPT !.eval = job.five], "PULLBACK_MONITORING")
  /\ UNCHANGED <<up, clock, now, whole, bucket, prior, vol, slot, arm, armed, cdegraded,
                 spikes, setups, arms, decisions, lives, broken>>

\* A later candle finds the impulse missing.
MissImpulse ==
  /\ At("five") /\ ~NoEngine /\ R.state = "IMPULSE_MONITORING" /\ job.five > BucketOf(slot)
  /\ job' = [job EXCEPT !.at = "end", !.id = slot, !.state = "CANCELLED"]
  /\ UNCHANGED <<up, clock, memory, ledger, faults, lives, broken, missed>>

\* The first candle beyond the spike's extreme is noted in the log, before the
\* candle is judged.
Evaluate ==
  /\ At("five") /\ ~NoEngine /\ R.state = "PULLBACK_MONITORING"
  /\ \E c \in Candles :
       LET r == Updated(R, c)
           next == Verdict(Judgement(r, c))
       IN /\ IF r.breached /\ ~R.breached
             THEN Write(next, next, To(After),
                        Logged(slot, r.state) /\ Set([r EXCEPT !.seq = @ + 1]),
                        UNCHANGED log /\ Set(r))
             ELSE Set(r) /\ job' = next /\ UNCHANGED <<log, faults, degraded, missed>>
          /\ Noted(r, c)
  /\ UNCHANGED <<up, clock, now, whole, bucket, prior, vol, slot, arm, armed, cdegraded,
                 spikes, setups, arms, decisions, lives>>

\* READY is stored, then the continuation engine is called.
WriteReady ==
  /\ At("ready")
  /\ Write(To("arm"), To(After), To(After),
           /\ Logged(slot, "PULLBACK_READY")
           /\ Set([R EXCEPT !.state = "PULLBACK_READY", !.seq = @ + 1]),
           UNCHANGED <<log, rt>>)
  /\ UNCHANGED <<up, clock, now, whole, bucket, prior, vol, slot, arm, armed, cdegraded,
                 spikes, setups, arms, decisions, lives, broken>>

\* _arm
Arm ==
  /\ At("arm")
  /\ \/ /\ ~cdegraded /\ arm[job.id] = "none"
        /\ InsertArm(job.id)
        /\ arm' = [arm EXCEPT ![job.id] = "ARMED"]
        /\ armed' = job.id
        /\ UNCHANGED <<faults, cdegraded>>
     \/ /\ ~cdegraded /\ arm[job.id] = "none"
        /\ InsertFails
        /\ UNCHANGED <<arms, arm, armed>>
     \/ /\ cdegraded \/ arm[job.id] # "none"
        /\ UNCHANGED <<arms, arm, armed, faults, cdegraded>>
  /\ Go("enter")
  /\ UNCHANGED <<up, clock, now, whole, bucket, prior, vol, rt, slot, degraded,
                 spikes, setups, log, decisions, lives, broken, missed>>

EnterContinuation ==
  /\ At("enter")
  /\ Moved(slot, R, "CONTINUATION_MONITORING")
  /\ UNCHANGED <<up, clock, now, whole, bucket, prior, vol, slot, arm, armed, cdegraded,
                 spikes, setups, arms, decisions, lives, broken>>

\* A setup left READY by a failed row enters first; when that fails again it
\* is evaluated as it is.
ReEnter ==
  /\ At("five") /\ ~NoEngine /\ R.state = "PULLBACK_READY"
  /\ Write(To("structure"), To("structure"), To(After),
           /\ Logged(slot, "CONTINUATION_MONITORING")
           /\ Set([R EXCEPT !.state = "CONTINUATION_MONITORING", !.seq = @ + 1]),
           UNCHANGED <<log, rt>>)
  /\ UNCHANGED <<up, clock, now, whole, bucket, prior, vol, slot, arm, armed, cdegraded,
                 spikes, setups, arms, decisions, lives, broken>>

\* _evaluate_continuation: the structure, no longer the band.
Structure ==
  /\ \/ At("five") /\ ~NoEngine /\ R.state = "CONTINUATION_MONITORING"
     \/ At("structure")
  /\ \E c \in Candles :
       LET r == Updated(R, c)
       IN Set(r) /\ job' = Verdict(StructureOf(r, c)) /\ Noted(r, c)
  /\ UNCHANGED <<up, clock, now, whole, bucket, prior, vol, slot, degraded, arm, armed, cdegraded,
                 ledger, faults, lives, missed>>

\* Where a terminal leads once continuation has been told.
AfterEnd == IF up = "stopping" THEN "closed" ELSE After

\* _terminal: stored, then moved, then the slot is freed, then continuation is
\* told.
WriteEnd ==
  /\ At("end")
  /\ Write(To("disarm"), To(AfterEnd), To(AfterEnd),
           /\ Logged(job.id, job.state)
           /\ rt' = [rt EXCEPT ![job.id] = [rt[job.id] EXCEPT !.state = job.state, !.seq = @ + 1]]
           /\ slot' = NoId,
           UNCHANGED <<log, rt, slot>>)
  /\ UNCHANGED <<up, clock, now, whole, bucket, prior, vol, arm, armed, cdegraded,
                 spikes, setups, arms, decisions, lives, broken>>

Detached(id) == IF armed = id THEN NoId ELSE armed

\* on_setup_terminal of the continuation engine.
Disarm ==
  /\ At("disarm")
  /\ \/ /\ cdegraded \/ arm[job.id] # "ARMED"
        /\ UNCHANGED <<decisions, arm, armed, faults, cdegraded>>
     \/ /\ ~cdegraded /\ arm[job.id] = "ARMED"
        /\ InsertDecision(job.id, "DISARMED")
        /\ arm' = [arm EXCEPT ![job.id] = "DISARMED"]
        /\ armed' = Detached(job.id)
        /\ UNCHANGED <<faults, cdegraded>>
     \/ /\ ~cdegraded /\ arm[job.id] = "ARMED"
        /\ InsertFails
        /\ UNCHANGED <<decisions, arm, armed>>
  /\ Go(AfterEnd)
  /\ UNCHANGED <<up, clock, now, whole, bucket, prior, vol, rt, slot, degraded,
                 spikes, setups, log, arms, lives, broken, missed>>

-----------------------------------------------------------------------------
(* The continuation engine, given a tick. *)

\* _update_volume_from_tick: the volume of a minute is reliable when ticks of
\* an earlier one were seen, none came late and the counter never dropped.
VolumeAfter(m, drop) ==
  CASE vol.min = 0 -> [min |-> m, reliable |-> FALSE]
    [] m < vol.min -> [vol EXCEPT !.reliable = FALSE]
    [] m > vol.min -> [min |-> m, reliable |-> ~drop]
    [] OTHER -> [vol EXCEPT !.reliable = @ /\ ~drop]

\* volume_decision: `loud' says the volume is above the average.
Confirmed(v, loud) == v.reliable /\ prior >= PriorCount /\ loud

\* The first tick that reaches the trigger decides, once and for all.
OnTick ==
  /\ At("tick")
  /\ \/ cdegraded /\ Go("idle") /\ UNCHANGED vol
     \/ /\ ~cdegraded
        /\ \E drop, loud, reach \in BOOLEAN :
             /\ loud => reach
             /\ reach => armed # NoId
             /\ LET v == VolumeAfter(job.minute, drop)
                IN /\ vol' = v
                   /\ job' = IF ~reach THEN NoJob
                             ELSE [job EXCEPT !.at = "decide", !.id = armed,
                                     !.state = IF Confirmed(v, loud) THEN "TRIGGERED"
                                               ELSE "REJECTED"]
  /\ UNCHANGED <<up, clock, now, whole, bucket, prior, rt, slot, degraded, arm, armed,
                 cdegraded, ledger, faults, lives, broken, missed>>

\* insert_decision, then the arm is detached; a failed row leaves it armed in
\* a degraded engine.
Decide ==
  /\ At("decide")
  /\ \/ /\ InsertDecision(job.id, job.state)
        /\ arm' = [arm EXCEPT ![job.id] = job.state]
        /\ armed' = Detached(job.id)
        /\ Go("close")
        /\ UNCHANGED <<faults, cdegraded>>
     \/ /\ InsertFails
        /\ Go("idle")
        /\ UNCHANGED <<decisions, arm, armed>>
  /\ UNCHANGED <<up, clock, now, whole, bucket, prior, vol, rt, slot, degraded,
                 spikes, setups, log, arms, lives, broken, missed>>

\* Mutant: the slot is freed only for a setup that entered continuation.
FreedIfEntered(id) ==
  IF slot = id /\ rt[id].state = "CONTINUATION_MONITORING" THEN NoId ELSE slot

Freed(id) == IF slot = id THEN NoId ELSE slot

\* close_after_continuation_outcome: the slot is freed whatever becomes of
\* the row, which is best effort.
Close ==
  /\ At("close")
  /\ LET out == IF job.state = "TRIGGERED" THEN "CONTINUATION_TRIGGERED"
                ELSE "CONTINUATION_REJECTED"
         r == rt[job.id]
     IN /\ slot' = Freed(job.id)
        /\ \/ /\ r.state # "CONTINUATION_MONITORING"
              /\ UNCHANGED <<rt, log, faults>>
           \/ /\ r.state = "CONTINUATION_MONITORING"
              /\ rt' = [rt EXCEPT ![job.id] = [r EXCEPT !.state = out, !.seq = @ + 1]]
              /\ Logged(job.id, out)
              /\ UNCHANGED faults
           \/ /\ r.state = "CONTINUATION_MONITORING"
              /\ faults < MaxFaults /\ faults' = faults + 1
              /\ rt' = [rt EXCEPT ![job.id] = [r EXCEPT !.state = out]]
              /\ UNCHANGED log
  /\ Go("idle")
  /\ UNCHANGED <<up, clock, now, whole, bucket, prior, vol, degraded, arm, armed, cdegraded,
                 spikes, setups, arms, decisions, lives, broken, missed>>

-----------------------------------------------------------------------------
(* The other stocks: they share the worker and both engines, and a row of   *)
(* theirs that fails is felt here.                                           *)

\* The worker is at another stock: between two steps of this one, or before or
\* after it among the setups that the session's close ends.
Elsewhere ==
  \/ up # "down" /\ job.at = "idle"
  \/ up = "stopping" /\ job.at \in {"end", "closed"}

\* It degrades an engine, which is so for all stocks; or a database error ends
\* on_session_closed before this stock's turn.
FailsElsewhere ==
  /\ Elsewhere
  /\ faults < MaxFaults /\ faults' = faults + 1
  /\ \/ ~degraded /\ degraded' = TRUE /\ UNCHANGED <<cdegraded, job>>
     \/ ~cdegraded /\ cdegraded' = TRUE /\ UNCHANGED <<degraded, job>>
     \/ job.at = "end" /\ Go("closed") /\ UNCHANGED <<degraded, cdegraded>>
  /\ UNCHANGED <<up, clock, now, whole, bucket, prior, vol, rt, slot, arm, armed,
                 ledger, lives, broken, missed>>

-----------------------------------------------------------------------------
(* The end of the process. *)

\* Mutant: the session's close leaves a setup that waits for its trigger.
OpenBeforeReady ==
  IF degraded \/ slot = NoId \/ R.state = "CONTINUATION_MONITORING" THEN NoId ELSE slot

OpenAtClose == IF degraded THEN NoId ELSE slot

\* The close of the session: on_session_closed, then the flush.
SessionCloses ==
  /\ up = "run" /\ job.at = "idle" /\ now # 0
  /\ up' = "stopping"
  /\ job' = IF OpenAtClose = NoId THEN [NoJob EXCEPT !.at = "closed"]
            ELSE [NoJob EXCEPT !.at = "end", !.id = slot, !.state = "SESSION_CLOSED"]
  /\ UNCHANGED <<clock, memory, ledger, faults, lives, broken, missed>>

\* The last candle is flushed, unlike any other for its reason: it is no
\* spike, but may fill its bucket.
Flush ==
  /\ \/ up = "stopping" /\ job.at = "closed"
     \/ up = "run" /\ job.at = "idle"
  /\ now # 0
  /\ up' = IF up = "run" THEN "flush" ELSE "closing"
  /\ job' = [NoJob EXCEPT !.at = "minute", !.five = Filled]
  /\ UNCHANGED <<clock, memory, ledger, faults, lives, broken, missed>>

\* The process ends; what is stored stays.
Ended ==
  /\ up' = "down" /\ job' = NoJob
  /\ now' = 0 /\ whole' = FALSE /\ bucket' = {} /\ prior' = 0 /\ vol' = NoVol
  /\ rt' = [i \in Ids |-> NoRuntime] /\ slot' = NoId /\ degraded' = FALSE
  /\ arm' = [i \in Ids |-> "none"] /\ armed' = NoId /\ cdegraded' = FALSE

\* At once when the end is fatal, or nothing has been built.
Exit ==
  /\ up \in {"run", "flush", "closing"} /\ job.at = "idle"
  /\ Ended
  /\ UNCHANGED <<clock, ledger, faults, lives, broken, missed>>

Crash ==
  /\ up # "down" /\ faults < MaxFaults /\ faults' = faults + 1
  /\ Ended
  /\ UNCHANGED <<clock, ledger, lives, broken, missed>>

\* Nothing is restored: the new process begins with no setup.
Restart ==
  /\ up = "down" /\ lives <= MaxRestarts
  /\ up' = "run" /\ lives' = lives + 1
  /\ UNCHANGED <<clock, memory, job, ledger, faults, broken, missed>>

Init ==
  /\ up = "run" /\ clock = 0 /\ now = 0 /\ whole = FALSE /\ bucket = {} /\ job = NoJob
  /\ prior = 0 /\ vol = NoVol /\ rt = [i \in Ids |-> NoRuntime] /\ slot = NoId
  /\ degraded = FALSE /\ arm = [i \in Ids |-> "none"] /\ armed = NoId
  /\ cdegraded = FALSE /\ spikes = {} /\ setups = {} /\ log = [i \in Ids |-> <<>>]
  /\ arms = {} /\ decisions = [i \in Ids |-> "none"]
  /\ faults = 0 /\ lives = 1 /\ broken = {} /\ missed = {}

Next ==
  \/ TakeTick \/ TakeLateTick \/ CandleDone \/ WriteSpike \/ IgnoreSpike
  \/ InsertSetup \/ AppendCreated \/ AppendAccepted \/ MinuteDone
  \/ SkipFive \/ FreezeImpulse \/ MissImpulse \/ Evaluate \/ WriteReady
  \/ Arm \/ EnterContinuation \/ ReEnter \/ Structure \/ WriteEnd \/ Disarm
  \/ OnTick \/ Decide \/ Close \/ FailsElsewhere
  \/ SessionCloses \/ Flush \/ Exit \/ Crash \/ Restart

Spec == Init /\ [][Next]_vars
=============================================================================
