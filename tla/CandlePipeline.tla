----------------------------- MODULE CandlePipeline -----------------------------
(***************************************************************************)
(* The observation runner from the websocket to the strategies: ticks of   *)
(* one stock enter a bounded queue, a worker thread builds one-minute      *)
(* candles from them, the coordinator stores each candle, rolls them up    *)
(* into buckets, and only then tells the strategies.                       *)
(*                                                                         *)
(* Four threads meet here: the websocket thread (ws) numbers and queues    *)
(* ticks and restores the feed, the health thread declares it stale, the   *)
(* worker builds, and the main thread stops, flushes and closes.  The      *)
(* health and the websocket thread change the builder's coverage directly, *)
(* while the worker uses it.  An action is what a thread does between two  *)
(* points where another one may act.                                       *)
(*                                                                         *)
(* The clock counts minutes; the exchange stamps a tick at one of          *)
(* PerMinute instants of its minute.  The exchange's traded volume is the  *)
(* time since its counter last restarted.  Prices are abstracted: open and *)
(* close are the first and the last tick of a candle, high and low follow  *)
(* from the set of its ticks.  Candles of different stocks share nothing   *)
(* but the queue; one trading day is modelled, so the day_rollover         *)
(* completion never happens.                                               *)
(***************************************************************************)
EXTENDS Integers, Sequences, FiniteSets, FiniteSetsExt

CONSTANTS
  PerMinute,     \* instants the exchange tells apart in a minute
  SessionStart,  \* SESSION_MINUTE_START and SESSION_MINUTE_END
  SessionEnd,
  BucketSize,    \* minutes in a bucket (5 in the code)
  QueueMax,      \* queue_maxsize
  StaleAfter,    \* stale_seconds, in minutes
  MaxLate,       \* minutes a tick's exchange time may lag the clock
  MaxTicks,      \* bound: ticks received
  MaxFaults,     \* bound: stragglers, write failures, failing callbacks,
                 \* crashes, restarts of the volume counter
  MaxRestarts,   \* bound: processes after the first
  Lags           \* TRUE: a thread may be overtaken at the two points that
                 \* Prompt names

ASSUME CandleAssumption ==
  /\ PerMinute \in Nat \ {0} /\ BucketSize \in Nat \ {0}
  /\ SessionStart \in Nat \ {0} /\ SessionEnd \in Nat /\ SessionStart <= SessionEnd
  /\ QueueMax \in Nat \ {0} /\ StaleAfter \in Nat /\ MaxLate \in Nat
  /\ MaxTicks \in Nat /\ MaxFaults \in Nat /\ MaxRestarts \in Nat
  /\ Lags \in BOOLEAN

VARIABLES
  clock,    \* minutes since the day began
  zero,     \* when the exchange's volume counter last restarted
  faults,   \* faults so far
  lives,    \* processes so far
  main,     \* "run", "joined", "flushed", "down"
  recv,     \* the receiver: state, restoring (from), fatal, stop, last, seq
  queue,    \* ticks received and not yet taken
  ws,       \* the websocket thread: the tick that restores the feed, restored_at
  health,   \* the health thread: "idle", "stale", "callback"
  worker,   \* the worker thread: pc, tick
  since,    \* feed_healthy_since, or Never
  active,   \* the candle being built, or NoCandle
  vol,      \* _InstrumentVolumeState
  emitted,  \* _last_emitted_candle_time, a minute
  buffer,   \* the bucket's candles so far
  rows1, rows5, \* live_1m_candles and live_5m_candles
  seen1, seen5, \* candles the strategies of this process were told of
  sum,      \* history: volume of the candles this process completed
  gaps,     \* history: minutes in which the feed was down
  lost5     \* history: this process did not store a bucket

builder == <<active, vol, emitted>>
store == <<buffer, rows1, rows5, seen1, seen5, sum, lost5>>
vars == <<clock, zero, faults, lives, main, recv, queue, ws, health, worker,
          since, builder, store, gaps>>

Never == SessionEnd + 10
MinuteOf(ts) == ts \div PerMinute
InSession(m) == SessionStart <= m /\ m <= SessionEnd
BucketOf(m) == SessionStart + ((m - SessionStart) \div BucketSize) * BucketSize
EndTime == SessionEnd + 1

NoTick == [ts |-> -1, seq |-> 0, vol |-> 0]
NoCandle == [minute |-> -1, ticks |-> {}, full |-> FALSE, done |-> 0,
             base |-> 0, max |-> 0, reliable |-> TRUE]
NoVolume == [known |-> FALSE, base |-> 0, first |-> 0, key |-> NoTick, reliable |-> TRUE]

Building == active.minute # -1

\* The order of event keys: exchange time, then sequence.
Before(t, u) == t.ts < u.ts \/ (t.ts = u.ts /\ t.seq < u.seq)

-----------------------------------------------------------------------------
(* The one-minute builder. *)

Traded(ts) == IF ts >= zero * PerMinute THEN ts - zero * PerMinute ELSE ts

\* Mutant: coverage asks only whether the feed is healthy now.
HealthyNow(m) == since # Never

HasFullCoverage(m) == since <= m

VolumeState(t) ==
  IF vol.known THEN vol
  ELSE LET base == IF MinuteOf(t.ts) = SessionStart THEN 0 ELSE t.vol
       IN [known |-> TRUE, base |-> base, first |-> base, key |-> NoTick, reliable |-> TRUE]

Started(m, v, full) ==
  [minute |-> m, ticks |-> {}, full |-> full, done |-> 0,
   base |-> v.base, max |-> v.base, reliable |-> TRUE]

AtLeast(x, y) == IF x < y THEN y ELSE x

\* A tick older than the newest one can only raise the segment's maximum; a
\* counter that falls closes the segment.
ApplyVolume(c, v, t) ==
  IF v.key = NoTick THEN [c EXCEPT !.max = AtLeast(@, t.vol)]
  ELSE IF Before(t, v.key) THEN [c EXCEPT !.max = AtLeast(@, t.vol)]
  ELSE IF t.vol < v.key.vol
  THEN [c EXCEPT !.done = @ + AtLeast(0, c.max - c.base), !.base = t.vol,
                 !.max = t.vol, !.reliable = FALSE]
  ELSE [c EXCEPT !.max = AtLeast(@, t.vol)]

ApplyTick(c, v, t) == [ApplyVolume(c, v, t) EXCEPT !.ticks = @ \cup {t}]

\* Mutant: the tick that came last, whatever its exchange time.
LastCome(v, t) == [v EXCEPT !.key = t]

Newest(v, t) == IF v.key # NoTick /\ Before(t, v.key) THEN v ELSE [v EXCEPT !.key = t]

Volume(c) == AtLeast(0, c.done + AtLeast(0, c.max - c.base))

Completed(c, reason, now) ==
  [minute |-> c.minute, ticks |-> c.ticks, volume |-> Volume(c),
   reliable |-> c.reliable, reason |-> reason, full |-> c.full,
   partial |-> now <= c.minute \/ ~c.full]

-----------------------------------------------------------------------------
(* Writers, bucket builder and coordinator. *)

\* A writer inserts a row once: the same row again is ignored, another row
\* for the same minute is a conflict.
Collides(r, rows) == \E x \in rows : x.minute = r.minute /\ x # r

\* _validate_candle: what a row must be before it is written.
Valid1(c) ==
  /\ InSession(c.minute) /\ c.ticks # {} /\ c.volume >= 0
  /\ ~c.full => c.partial
  /\ c.full /\ c.reason = "minute_transition" => ~c.partial

Valid5(b) ==
  /\ InSession(b.minute) /\ BucketOf(b.minute) = b.minute
  /\ b.count = BucketSize /\ b.ticks # {} /\ b.volume >= 0

\* Mutant: candles of the bucket before stay in the buffer.
KeptBucket(c) == {x \in buffer : x.minute # c.minute} \cup {c}

Buffered(c) ==
  {x \in buffer : BucketOf(x.minute) = BucketOf(c.minute) /\ x.minute # c.minute} \cup {c}

FullBucket(b) == Cardinality(b) >= BucketSize

Aggregate(b) ==
  [minute |-> CHOOSE m \in {c.minute : c \in b} : \A c \in b : m <= c.minute,
   ticks |-> UNION {c.ticks : c \in b}, volume |-> MapThenSumSet(LAMBDA c : c.volume, b),
   count |-> Cardinality(b), full |-> \A c \in b : c.full,
   partial |-> \E c \in b : c.partial, reliable |-> \A c \in b : c.reliable]

CanFail == faults < MaxFaults /\ faults' = faults + 1

\* The write of c fails for good: refused, in conflict, or every retry of the
\* database failed.  The builder and the receiver treat it as fatal.
EmitFatal(c) ==
  /\ \/ (~Valid1(c) \/ Collides(c, rows1)) /\ UNCHANGED faults
     \/ CanFail
  /\ UNCHANGED store

\* Mutant: the strategies are told before the bucket is stored.
EmitErrorTold(c) ==
  /\ Valid1(c) /\ ~Collides(c, rows1) /\ FullBucket(Buffered(c)) /\ CanFail
  /\ rows1' = rows1 \cup {c} /\ buffer' = {} /\ lost5' = TRUE
  /\ seen1' = Append(seen1, c)
  /\ UNCHANGED <<rows5, seen5, sum>>

\* c is stored, the bucket it fills is not: the error leaves before any
\* strategy hears of c, and the bucket's candles are gone from the buffer.
EmitError(c) ==
  LET b == Aggregate(Buffered(c))
  IN /\ Valid1(c) /\ ~Collides(c, rows1) /\ FullBucket(Buffered(c))
     /\ \/ (~Valid5(b) \/ Collides(b, rows5)) /\ UNCHANGED faults
        \/ CanFail
     /\ rows1' = rows1 \cup {c}
     /\ buffer' = {}
     /\ lost5' = TRUE
     /\ UNCHANGED <<rows5, seen1, seen5, sum>>

EmitOk(c) ==
  LET b == Buffered(c)
      fills == FullBucket(b)
  IN /\ Valid1(c) /\ ~Collides(c, rows1)
     /\ fills => Valid5(Aggregate(b)) /\ ~Collides(Aggregate(b), rows5)
     /\ rows1' = rows1 \cup {c}
     /\ buffer' = IF fills THEN {} ELSE b
     /\ rows5' = IF fills THEN rows5 \cup {Aggregate(b)} ELSE rows5
     /\ seen1' = Append(seen1, c)
     /\ seen5' = IF fills THEN Append(seen5, Aggregate(b)) ELSE seen5
     /\ sum' = sum + c.volume
     /\ UNCHANGED <<faults, lost5>>

\* What _finalize does once on_candle has returned.
Finalized ==
  /\ emitted' = active.minute
  /\ vol' = [vol EXCEPT !.base = vol.key.vol, !.reliable = @ /\ active.reliable]
  /\ active' = NoCandle

-----------------------------------------------------------------------------
(* The receiver. *)

NoRecv == [state |-> "STARTING", restoring |-> "none", fatal |-> "none",
           stop |-> FALSE, last |-> -1, seq |-> 0]

Idle == [tick |-> NoTick, at |-> 0]
Running == [pc |-> "run", tick |-> NoTick, full |-> FALSE]

\* mark_feed_interrupted
Interrupt ==
  /\ since' = Never
  /\ active' = [active EXCEPT !.full = FALSE]

InterruptIfHealthy ==
  IF recv.state = "HEALTHY" THEN Interrupt ELSE UNCHANGED <<since, active>>

\* Stopped for good; the first fatal error is the one that is kept.
Halted(why) ==
  [recv EXCEPT !.state = "STOPPED", !.stop = TRUE,
               !.fatal = IF @ = "none" THEN why ELSE @]

Stale == recv.last = -1 \/ clock - recv.last > StaleAfter

Up == main = "run"

\* _on_ticks: the next tick, and what the receiver's state says of it.  A tick
\* older than it might be is a straggler.
WsTick ==
  /\ Up /\ ws = Idle /\ ~recv.stop /\ recv.seq < MaxTicks
  /\ \E m \in {x \in (clock - MaxLate) .. clock : x >= 0}, i \in 0 .. PerMinute - 1 :
       /\ LET ts == m * PerMinute + i
              t == [ts |-> ts, seq |-> recv.seq + 1, vol |-> Traded(ts)]
          IN /\ IF m < clock \/ i < PerMinute - 1 THEN CanFail ELSE UNCHANGED faults
             /\ \/ /\ Len(queue) >= QueueMax
                   /\ recv' = [Halted("overload") EXCEPT !.seq = @ + 1]
                   /\ InterruptIfHealthy
                   /\ UNCHANGED <<queue, ws>>
                \/ /\ Len(queue) < QueueMax
                   /\ recv.state \in {"STARTING", "STALE"}
                   /\ recv' = [recv EXCEPT !.state = "RESTORING", !.restoring = recv.state, !.seq = @ + 1]
                   /\ ws' = [tick |-> t, at |-> clock + 1]
                   /\ UNCHANGED <<queue, since, active>>
                \/ /\ Len(queue) < QueueMax
                   /\ recv.state = "HEALTHY"
                   /\ recv' = [recv EXCEPT !.seq = @ + 1, !.last = clock]
                   /\ queue' = Append(queue, t)
                   /\ UNCHANGED <<ws, since, active>>
  /\ UNCHANGED <<clock, zero, lives, main, health, worker, vol, emitted, store>>

\* on_feed_ready, then the tick is queued: coverage holds from when the tick
\* came, which is after the minute began.
WsRestores ==
  /\ Up /\ ws # Idle
  /\ since' = ws.at
  /\ queue' = Append(queue, ws.tick)
  /\ recv' = [recv EXCEPT !.last = clock,
                          !.state = IF @ = "RESTORING" THEN "HEALTHY" ELSE @,
                          !.restoring = "none"]
  /\ ws' = Idle
  /\ UNCHANGED <<clock, zero, faults, lives, main, health, worker, builder, store>>

\* The callback failed after the builder heard of it: the tick is dropped and
\* the receiver is as before.
WsRestoreFails ==
  /\ Up /\ ws # Idle /\ CanFail
  /\ since' = ws.at
  /\ recv' = IF recv.state = "RESTORING"
             THEN [recv EXCEPT !.state = recv.restoring, !.restoring = "none"] ELSE recv
  /\ ws' = Idle
  /\ UNCHANGED <<clock, zero, lives, main, queue, health, worker, builder, store>>

\* on_close and on_error: the connection is lost.
WsClose ==
  /\ Up /\ ws = Idle /\ recv.state = "HEALTHY"
  /\ recv' = [recv EXCEPT !.state = "STALE"]
  /\ Interrupt
  /\ UNCHANGED <<clock, zero, faults, lives, main, queue, ws, health, worker, vol, emitted, store>>

\* on_noreconnect: KiteTicker gives up.
WsGivesUp ==
  /\ Up /\ ws = Idle /\ ~recv.stop
  /\ recv' = Halted("noreconnect")
  /\ InterruptIfHealthy
  /\ UNCHANGED <<clock, zero, faults, lives, main, queue, ws, health, worker, vol, emitted, store>>

\* _run_health_check decides; _transition_to_stale sets the state under the
\* lock, and runs the callback after it.
HealthCheck ==
  /\ Up /\ health = "idle" /\ ~recv.stop /\ Stale /\ recv.state = "HEALTHY"
  /\ health' = "stale"
  /\ UNCHANGED <<clock, zero, faults, lives, main, recv, queue, ws, worker, since, builder, store>>

HealthTransition ==
  /\ Up /\ health = "stale"
  /\ IF recv.state # "HEALTHY" THEN health' = "idle" /\ UNCHANGED recv
     ELSE recv' = [recv EXCEPT !.state = "STALE"] /\ health' = "callback"
  /\ UNCHANGED <<clock, zero, faults, lives, main, queue, ws, worker, since, builder, store>>

HealthCallback ==
  /\ Up /\ health = "callback"
  /\ Interrupt
  /\ health' = "idle"
  /\ UNCHANGED <<clock, zero, faults, lives, main, recv, queue, ws, worker, vol, emitted, store>>

-----------------------------------------------------------------------------
(* The worker. *)

Taken == worker.pc = "run" /\ Up /\ queue # <<>> /\ queue' = Tail(queue)

Late(m) == m <= emitted \/ (Building /\ m < active.minute)

\* After a fatal error the queue is emptied unread.
WorkerSkips ==
  /\ Taken /\ recv.fatal # "none"
  /\ UNCHANGED <<clock, zero, faults, lives, main, recv, ws, health, worker, builder, since, store>>

WorkerDrops ==
  /\ Taken /\ recv.fatal = "none"
  /\ LET m == MinuteOf(Head(queue).ts) IN ~InSession(m) \/ Late(m)
  /\ UNCHANGED <<clock, zero, faults, lives, main, recv, ws, health, worker, builder, since, store>>

WorkerAdds ==
  /\ Taken /\ recv.fatal = "none"
  /\ LET t == Head(queue)
     IN /\ Building /\ MinuteOf(t.ts) = active.minute /\ ~Late(active.minute)
        /\ active' = ApplyTick(active, vol, t)
        /\ vol' = Newest(vol, t)
  /\ UNCHANGED <<clock, zero, faults, lives, main, recv, ws, health, worker, since, emitted, store>>

\* A tick of a new minute: the candle before it is finished first.
WorkerFinishes ==
  /\ Taken /\ recv.fatal = "none"
  /\ LET t == Head(queue)
         c == Completed(active, "minute_transition", MinuteOf(t.ts))
     IN /\ InSession(MinuteOf(t.ts)) /\ Building /\ MinuteOf(t.ts) > active.minute
        /\ \/ /\ EmitOk(c)
              /\ Finalized
              /\ worker' = [worker EXCEPT !.pc = "start", !.tick = t]
              /\ UNCHANGED <<recv, since>>
           \* The candle is given up and the feed is halted.
           \/ /\ EmitFatal(c)
              /\ active' = NoCandle
              /\ recv' = Halted("emission")
              /\ since' = IF recv.state = "HEALTHY" THEN Never ELSE since
              /\ worker' = [worker EXCEPT !.pc = "done"]
              /\ UNCHANGED <<vol, emitted>>
           \* Logged and forgotten, and the tick with it: the same candle is
           \* finished again by the next tick.
           \/ /\ EmitError(c)
              /\ UNCHANGED <<recv, since, active, vol, emitted, worker>>
  /\ UNCHANGED <<clock, zero, lives, main, ws, health>>

\* _start_active_candle reads the coverage; the candle is in the map, where
\* an interruption can find it, one statement later.
Reads(t) ==
  worker' = [pc |-> "insert", tick |-> t, full |-> HasFullCoverage(MinuteOf(t.ts))]

WorkerBegins ==
  /\ Taken /\ recv.fatal = "none"
  /\ LET t == Head(queue)
     IN /\ ~Building /\ InSession(MinuteOf(t.ts)) /\ ~Late(MinuteOf(t.ts))
        /\ Reads(t)
  /\ UNCHANGED <<clock, zero, faults, lives, main, recv, ws, health, since, builder, store>>

WorkerStarts ==
  /\ Up /\ worker.pc = "start"
  /\ Reads(worker.tick)
  /\ UNCHANGED <<clock, zero, faults, lives, main, recv, queue, ws, health, since, builder, store>>

WorkerInserts ==
  /\ Up /\ worker.pc = "insert"
  /\ LET t == worker.tick
     IN /\ active' = ApplyTick(Started(MinuteOf(t.ts), VolumeState(t), worker.full), VolumeState(t), t)
        /\ vol' = Newest(VolumeState(t), t)
  /\ worker' = Running
  /\ UNCHANGED <<clock, zero, faults, lives, main, recv, queue, ws, health, since, emitted, store>>

WorkerExits ==
  /\ Up /\ worker.pc = "run" /\ recv.stop /\ queue = <<>>
  /\ worker' = [worker EXCEPT !.pc = "done"]
  /\ UNCHANGED <<clock, zero, faults, lives, main, recv, queue, ws, health, builder, since, store>>

-----------------------------------------------------------------------------
(* The main thread, the process and the world. *)

\* A signal, or the timer at the session's close.
Stop ==
  /\ Up /\ ~recv.stop
  /\ recv' = Halted("none")
  /\ InterruptIfHealthy
  /\ UNCHANGED <<clock, zero, faults, lives, main, queue, ws, health, worker, vol, emitted, store>>

\* start() returns once the worker is joined.
Join ==
  /\ Up /\ recv.stop /\ worker.pc = "done"
  /\ main' = "joined"
  /\ UNCHANGED <<clock, zero, faults, lives, recv, queue, ws, health, worker, builder, since, store>>

FlushReason ==
  IF clock > active.minute /\ active.minute = SessionEnd
  THEN "session_end" ELSE "shutdown_flush"

\* What ends with the process; what it stored stays.
Forgotten ==
  /\ main' = "down"
  /\ recv' = [NoRecv EXCEPT !.seq = recv.seq] /\ queue' = <<>> /\ ws' = Idle /\ health' = "idle"
  /\ worker' = Running /\ since' = Never /\ active' = NoCandle
  /\ vol' = NoVolume /\ emitted' = -1 /\ buffer' = {}
  /\ seen1' = <<>> /\ seen5' = <<>> /\ sum' = 0 /\ lost5' = FALSE

\* shutdown: flush unless the end was fatal, close the writers, exit.
Flush ==
  LET c == Completed(active, FlushReason, clock)
  IN /\ main = "joined" /\ main' = "flushed"
     /\ recv.fatal = "none" /\ Building
     /\ \/ EmitOk(c) /\ Finalized
        \/ (EmitFatal(c) \/ EmitError(c)) /\ UNCHANGED <<active, vol, emitted>>
     /\ UNCHANGED <<clock, zero, lives, recv, queue, ws, health, worker, since>>

Exit ==
  /\ \/ main = "joined" /\ (recv.fatal # "none" \/ ~Building)
     \/ main = "flushed"
  /\ Forgotten
  /\ UNCHANGED <<clock, zero, faults, lives, rows1, rows5>>

Crash ==
  /\ main # "down" /\ CanFail
  /\ Forgotten
  /\ UNCHANGED <<clock, zero, lives, rows1, rows5>>

Restart ==
  /\ main = "down" /\ lives <= MaxRestarts
  /\ main' = "run" /\ lives' = lives + 1
  /\ UNCHANGED <<clock, zero, faults, recv, queue, ws, health, worker, builder, since, store>>

TimePasses ==
  /\ clock < EndTime /\ clock' = clock + 1
  /\ UNCHANGED <<zero, faults, lives, main, recv, queue, ws, health, worker, builder, since, store>>

\* The exchange's volume counter starts again from nothing.
CounterRestarts ==
  /\ CanFail /\ zero' = clock
  /\ UNCHANGED <<clock, lives, main, recv, queue, ws, health, worker, builder, since, store>>

Init ==
  /\ clock = 0 /\ zero = 0 /\ faults = 0 /\ lives = 1 /\ main = "run"
  /\ recv = NoRecv /\ queue = <<>> /\ ws = Idle /\ health = "idle"
  /\ worker = Running /\ since = Never /\ active = NoCandle /\ vol = NoVolume
  /\ emitted = -1 /\ buffer = {} /\ rows1 = {} /\ rows5 = {}
  /\ seen1 = <<>> /\ seen5 = <<>> /\ sum = 0 /\ gaps = {0} /\ lost5 = FALSE

\* History: the minutes in which the feed was down.
Watched ==
  gaps' = IF recv'.state \in {"HEALTHY", "RESTORING"} THEN gaps
          ELSE gaps \cup {clock'}

\* Unless Lags, a thread is not overtaken between the receiver's state and its
\* callback, nor between reading the coverage and adding the candle.
Prompt ==
  Lags \/ /\ health = "callback" => health' = "idle"
          /\ worker.pc = "insert" => worker'.pc = "run"

Next ==
  /\ \/ WsTick \/ WsRestores \/ WsRestoreFails \/ WsClose \/ WsGivesUp
     \/ HealthCheck \/ HealthTransition \/ HealthCallback
     \/ WorkerSkips \/ WorkerDrops \/ WorkerAdds \/ WorkerFinishes \/ WorkerBegins
     \/ WorkerStarts \/ WorkerInserts \/ WorkerExits
     \/ Stop \/ Join \/ Flush \/ Exit \/ Crash \/ Restart \/ TimePasses \/ CounterRestarts
  /\ Watched
  /\ Prompt

Spec == Init /\ [][Next]_vars
=============================================================================
