------------------------------ MODULE CandleProofs ------------------------------
(***************************************************************************)
(* The candle pipeline for every session, bucket size, queue, lateness and *)
(* number of ticks, faults and restarts.  TypeOK is inductive by itself;   *)
(* on top of it come four invariants, one for each property: the order in  *)
(* which minutes are completed, the volume counter between two candles,    *)
(* what the receiver's state says of the minutes to come, and the minutes  *)
(* a stored bucket spans.                                                  *)
(***************************************************************************)
EXTENDS CandleProperties, FiniteSetTheorems, SequenceTheorems, NaturalsInduction,
        WellFoundedInduction, TLAPS

-----------------------------------------------------------------------------
(* Definitions. *)

Tick == [ts : Nat, seq : Nat, vol : Nat]
Rests == Tick \cup {NoTick}

Receiver ==
  [state : {"STARTING", "RESTORING", "HEALTHY", "STALE", "STOPPED"},
   restoring : {"none", "STARTING", "STALE"},
   fatal : {"none", "overload", "noreconnect", "emission"},
   stop : BOOLEAN, last : Int, seq : Nat]

Feeder == [tick : Rests, at : Nat]

Work == [pc : {"run", "start", "insert", "done"}, tick : Rests, full : BOOLEAN]

Candle ==
  [minute : Nat \cup {-1}, ticks : SUBSET Tick, full : BOOLEAN, done : Int, base : Int,
   max : Int, reliable : BOOLEAN]

Counter == [known : BOOLEAN, base : Int, first : Int, key : Rests, reliable : BOOLEAN]

Row ==
  [minute : Nat, ticks : SUBSET Tick, volume : Int, reliable : BOOLEAN,
   reason : {"minute_transition", "session_end", "shutdown_flush"}, full : BOOLEAN,
   partial : BOOLEAN]

\* The tick a worker has in hand is one, and so is the one that restores.
TypeOK ==
  /\ clock \in 0 .. EndTime /\ zero \in 0 .. clock
  /\ recv \in Receiver /\ (recv.state = "RESTORING" => recv.restoring # "none")
  /\ queue \in Seq(Tick)
  /\ ws \in Feeder /\ (ws # Idle => ws.tick \in Tick)
  /\ worker \in Work /\ (worker.pc \in {"start", "insert"} => worker.tick \in Tick)
  /\ since \in Nat
  /\ active \in Candle /\ vol \in Counter /\ emitted \in Int
  /\ rows1 \subseteq Row
  /\ buffer \subseteq rows1 /\ IsFiniteSet(buffer)
  /\ \A b \in rows5 : b.minute \in Nat
  /\ seen1 \in Seq(rows1) /\ seen5 \in Seq(rows5)
  /\ sum \in Int /\ gaps \subseteq Nat

-----------------------------------------------------------------------------
(* Arithmetic of minutes. *)

\* Minutes follow their instants.
LEMMA Minutes ==
  ASSUME NEW ts \in Nat
  PROVE  /\ MinuteOf(ts) \in Nat
         /\ \A us \in Nat : MinuteOf(ts) < MinuteOf(us) => ts < us
         /\ \A us \in Nat : ts <= us => MinuteOf(ts) <= MinuteOf(us)
BY CandleAssumption DEF MinuteOf

\* An instant of a minute lies in it.
LEMMA MinuteIs ==
  ASSUME NEW m \in Nat, NEW i \in 0 .. PerMinute - 1
  PROVE  m * PerMinute + i \in Nat /\ MinuteOf(m * PerMinute + i) = m
BY CandleAssumption DEF MinuteOf

\* What the exchange has counted at an instant.
LEMMA Counts ==
  ASSUME NEW ts \in Nat, zero \in Nat
  PROVE  Traded(ts) \in Nat /\ (zero = 0 => Traded(ts) = ts)
BY CandleAssumption DEF Traded

-----------------------------------------------------------------------------
(* The builder's operators. *)

\* A tick raises the maximum or opens a new segment, and changes no minute.
LEMMA Applied ==
  ASSUME NEW c \in Candle, NEW v \in Counter, NEW t \in Tick
  PROVE  /\ ApplyTick(c, v, t) \in Candle
         /\ ApplyTick(c, v, t).minute = c.minute
         /\ ApplyTick(c, v, t).full = c.full
<1> DEFINE up == [c EXCEPT !.max = AtLeast(@, t.vol)]
           new == [c EXCEPT !.done = @ + AtLeast(0, c.max - c.base), !.base = t.vol,
                            !.max = t.vol, !.reliable = FALSE]
           d == ApplyVolume(c, v, t)
<1>1. c.max \in Int /\ c.base \in Int /\ c.done \in Int /\ t.vol \in Int
  BY DEF Candle, Tick
<1>2. AtLeast(c.max, t.vol) \in Int /\ AtLeast(0, c.max - c.base) \in Int
  BY <1>1 DEF AtLeast
<1>3. up \in Candle /\ up.minute = c.minute /\ up.full = c.full
  BY <1>1, <1>2 DEF Candle
<1>4. new \in Candle /\ new.minute = c.minute /\ new.full = c.full
  <2>1. ASSUME NEW x \in Int, NEW y \in Int, NEW f \in BOOLEAN
        PROVE  LET d1 == [c EXCEPT !.done = x, !.base = y, !.max = y, !.reliable = f]
               IN  d1 \in Candle /\ d1.minute = c.minute /\ d1.full = c.full
    BY DEF Candle
  <2>2. c.done + AtLeast(0, c.max - c.base) \in Int /\ FALSE \in BOOLEAN
    BY <1>1, <1>2
  <2> QED
    BY <1>1, <2>1, <2>2, Zenon
<1>5. d \in {up, new}
  BY DEF ApplyVolume
<1> HIDE DEF up, new, d
<1>6. d \in Candle /\ d.minute = c.minute /\ d.full = c.full
  BY <1>3, <1>4, <1>5
<1>7. ApplyTick(c, v, t) = [d EXCEPT !.ticks = @ \cup {t}]
  BY DEF ApplyTick, d
<1> QED
  BY <1>6, <1>7 DEF Candle

\* The counter keeps the newest tick.
LEMMA NewestTyped ==
  ASSUME NEW v \in Counter, NEW t \in Tick
  PROVE  Newest(v, t) \in Counter
BY DEF Newest, Counter, Rests

\* A stock's first tick makes its counter.
LEMMA CounterMade ==
  ASSUME vol \in Counter, NEW t \in Tick
  PROVE  VolumeState(t) \in Counter
BY DEF VolumeState, Counter, Rests, Tick

\* A candle begins without ticks.
LEMMA StartedTyped ==
  ASSUME NEW m \in Nat, NEW v \in Counter, NEW full \in BOOLEAN
  PROVE  /\ Started(m, v, full) \in Candle /\ Started(m, v, full).minute = m
         /\ Started(m, v, full).full = full
BY DEF Started, Candle, Counter

\* A candle that is completed is a row.
LEMMA CompletedTyped ==
  ASSUME active \in Candle, Building, NEW now \in Nat,
         NEW reason \in {"minute_transition", "session_end", "shutdown_flush"}
  PROVE  LET c == Completed(active, reason, now)
         IN  /\ c \in Row /\ c.minute = active.minute /\ c.full = active.full
             /\ c.volume = Volume(active) /\ Volume(active) \in Int
<1>1. active.minute \in Nat /\ Volume(active) \in Int
  BY DEF Building, Candle, Volume, AtLeast
<1>2. (now <= active.minute \/ ~active.full) \in BOOLEAN
  OBVIOUS
<1> QED
  BY <1>1, <1>2 DEF Completed, Row, Candle

\* A bucket is named by the earliest of its minutes.
LEMMA EarliestNames ==
  ASSUME NEW b, b # {}, \A c \in b : c.minute \in Nat
  PROVE  /\ \E c \in b : Aggregate(b).minute = c.minute
         /\ \A c \in b : Aggregate(b).minute <= c.minute
<1> DEFINE M == {c.minute : c \in b}
<1>1. M \subseteq Nat /\ M # {}
  OBVIOUS
<1>2. IsWellFoundedOn(OpToRel(<, Nat), Nat)
  BY NatLessThanWellFounded
<1>3. PICK x \in M : \A y \in M : ~ (<<y, x>> \in OpToRel(<, Nat))
  BY <1>1, <1>2, WFMin, Zenon
<1>4. \A c \in b : x <= c.minute
  <2> TAKE c \in b
  <2>1. c.minute \in M /\ c.minute \in Nat /\ x \in Nat
    BY <1>1
  <2>2. ~(c.minute < x)
    BY <1>3, <2>1 DEF OpToRel
  <2> QED
    BY <2>1, <2>2
<1>5. Aggregate(b).minute = CHOOSE m \in M : \A c \in b : m <= c.minute
  BY DEF Aggregate
<1> HIDE DEF M
<1>6. Aggregate(b).minute \in M /\ \A c \in b : Aggregate(b).minute <= c.minute
  BY <1>3, <1>4, <1>5
<1> QED
  BY <1>6 DEF M

-----------------------------------------------------------------------------
(* What one step changes. *)

\* The worker reads the coverage for its tick.
Begins(t) ==
  /\ Up /\ t \in Tick /\ Reads(t)
  /\ \/ worker.pc = "start" /\ t = worker.tick
     \/ /\ worker.pc = "run" /\ queue # <<>> /\ t = Head(queue) /\ recv.fatal = "none"
        /\ ~Building /\ ~Late(MinuteOf(t.ts))

\* What is built and stored changes by the worker, the flush, and the end of
\* the process; an interruption only takes a candle's claim to coverage.
LEMMA HowItBuilds ==
  ASSUME TypeOK, [Next]_vars
  PROVE  \/ /\ UNCHANGED <<worker, vol, emitted, store>>
            /\ active' = active \/ active' = [active EXCEPT !.full = FALSE]
         \/ WorkerAdds
         \/ WorkerFinishes
         \/ (\E t \in Tick : Begins(t)) /\ UNCHANGED <<builder, store>>
         \/ WorkerInserts
         \/ WorkerExits
         \/ Flush
         \/ Forgotten /\ UNCHANGED <<rows1, rows5>>
<1>1. CASE WsTick
  BY <1>1 DEF WsTick, InterruptIfHealthy, Interrupt, store
<1>2. CASE WsRestores \/ WsRestoreFails \/ WsClose
  BY <1>2 DEF WsRestores, WsRestoreFails, WsClose, Interrupt, store, builder
<1>3. CASE WsGivesUp \/ Stop
  BY <1>3 DEF WsGivesUp, Stop, InterruptIfHealthy, Interrupt, store, builder
<1>4. CASE HealthCheck \/ HealthTransition \/ HealthCallback
  BY <1>4 DEF HealthCheck, HealthTransition, HealthCallback, Interrupt, store, builder
<1>5. CASE WorkerSkips \/ WorkerDrops \/ Join \/ Restart \/ TimePasses \/ CounterRestarts
  BY <1>5 DEF WorkerSkips, WorkerDrops, Join, Restart, TimePasses, CounterRestarts, store, builder
<1>6. CASE WorkerBegins
  <2>1. Head(queue) \in Tick
    BY <1>6 DEF WorkerBegins, Taken, TypeOK
  <2>2. Begins(Head(queue))
    BY <1>6, <2>1 DEF WorkerBegins, Taken, Begins
  <2> QED
    BY <1>6, <2>1, <2>2 DEF WorkerBegins
<1>7. CASE WorkerStarts
  <2>1. worker.tick \in Tick
    BY <1>7 DEF WorkerStarts, TypeOK
  <2>2. Begins(worker.tick)
    BY <1>7, <2>1 DEF WorkerStarts, Begins
  <2> QED
    BY <1>7, <2>1, <2>2 DEF WorkerStarts
<1>8. CASE Exit \/ Crash
  BY <1>8 DEF Exit, Crash
<1>9. CASE UNCHANGED vars
  BY <1>9 DEF vars, store, builder
<1> QED
  BY <1>1, <1>2, <1>3, <1>4, <1>5, <1>6, <1>7, <1>8, <1>9 DEF Next

\* A row is stored, or none is.
LEMMA HowItStores ==
  ASSUME NEW c, EmitOk(c) \/ EmitFatal(c) \/ EmitError(c)
  PROVE  \/ UNCHANGED store /\ EmitFatal(c)
         \/ /\ Valid1(c) /\ ~Collides(c, rows1) /\ rows1' = rows1 \cup {c}
            /\ \/ /\ EmitError(c)
                  /\ buffer' = {} /\ UNCHANGED <<rows5, seen1, seen5, sum>>
               \/ /\ EmitOk(c)
                  /\ seen1' = Append(seen1, c) /\ sum' = sum + c.volume
                  /\ \/ /\ ~FullBucket(Buffered(c))
                        /\ buffer' = Buffered(c) /\ UNCHANGED <<rows5, seen5>>
                     \/ /\ FullBucket(Buffered(c)) /\ Valid5(Aggregate(Buffered(c)))
                        /\ buffer' = {}
                        /\ rows5' = rows5 \cup {Aggregate(Buffered(c))}
                        /\ seen5' = Append(seen5, Aggregate(Buffered(c)))
<1>1. CASE EmitFatal(c)
  BY <1>1 DEF EmitFatal
<1>2. CASE EmitError(c)
  BY <1>2 DEF EmitError
<1>3. CASE EmitOk(c)
  BY <1>3 DEF EmitOk
<1> QED
  BY <1>1, <1>2, <1>3

-----------------------------------------------------------------------------
(* Types. *)

\* The receiver's record, field by field.
LEMMA ReceiverFields ==
  ASSUME NEW r \in Receiver
  PROVE  /\ \A s \in {"STARTING", "RESTORING", "HEALTHY", "STALE", "STOPPED"} :
              [r EXCEPT !.state = s] \in Receiver
         /\ \A s \in {"none", "STARTING", "STALE"} : [r EXCEPT !.restoring = s] \in Receiver
         /\ [r EXCEPT !.seq = @ + 1] \in Receiver
         /\ \A l \in Int : [r EXCEPT !.last = l] \in Receiver
BY DEF Receiver

\* Stopping a receiver.
LEMMA StopFields ==
  ASSUME NEW r \in Receiver, NEW b \in BOOLEAN,
         NEW f \in {"none", "overload", "noreconnect", "emission"}
  PROVE  LET h == [r EXCEPT !.state = "STOPPED", !.stop = b,
                            !.fatal = IF @ = "none" THEN f ELSE @]
         IN  h \in Receiver /\ h.state = "STOPPED" /\ h.stop = b
BY DEF Receiver

\* A halted receiver is one.
LEMMA HaltedTyped ==
  ASSUME recv \in Receiver, NEW why \in {"none", "overload", "noreconnect", "emission"}
  PROVE  /\ Halted(why) \in Receiver
         /\ Halted(why).state = "STOPPED" /\ Halted(why).stop = TRUE
         /\ [Halted(why) EXCEPT !.seq = @ + 1] \in Receiver
         /\ [Halted(why) EXCEPT !.seq = @ + 1].state = "STOPPED"
         /\ [Halted(why) EXCEPT !.seq = @ + 1].stop = TRUE
<1> DEFINE h == Halted(why)
<1>1. TRUE \in BOOLEAN
  OBVIOUS
<1>2. h \in Receiver /\ h.state = "STOPPED" /\ h.stop = TRUE
  BY <1>1, StopFields, Zenon DEF Halted
<1> HIDE DEF h
<1>3. [h EXCEPT !.seq = @ + 1] \in Receiver
  BY <1>2, ReceiverFields
<1>4. [h EXCEPT !.seq = @ + 1].state = h.state /\ [h EXCEPT !.seq = @ + 1].stop = h.stop
  BY <1>2 DEF Receiver
<1> QED
  BY <1>2, <1>3, <1>4 DEF h

\* The clock only moves on, and the counter restarts in the past.
LEMMA ClockTyped ==
  ASSUME TypeOK, [Next]_vars
  PROVE  clock' \in 0 .. EndTime /\ zero' \in 0 .. clock' /\ clock <= clock'
<1>0. clock \in 0 .. EndTime /\ zero \in 0 .. clock /\ EndTime \in Nat
  BY CandleAssumption DEF TypeOK, EndTime
<1>1. \/ clock' = clock /\ zero' = zero
      \/ clock < EndTime /\ clock' = clock + 1 /\ zero' = zero
      \/ clock' = clock /\ zero' = clock
  BY DEF Next, vars, WsTick, WsRestores, WsRestoreFails, WsClose, WsGivesUp, HealthCheck,
         HealthTransition, HealthCallback, WorkerSkips, WorkerDrops, WorkerAdds, WorkerFinishes,
         WorkerBegins, WorkerStarts, WorkerInserts, WorkerExits, Stop, Join, Flush, Exit, Crash,
         Restart, TimePasses, CounterRestarts
<1> QED
  BY <1>0, <1>1

\* The websocket thread's tick is of its minute, at most MaxLate behind.
LEMMA Received ==
  ASSUME TypeOK, NEW m \in {x \in (clock - MaxLate) .. clock : x >= 0},
         NEW i \in 0 .. PerMinute - 1
  PROVE  LET t == [ts |-> m * PerMinute + i, seq |-> recv.seq + 1,
                   vol |-> Traded(m * PerMinute + i)]
         IN  t \in Tick /\ MinuteOf(t.ts) = m /\ m <= clock /\ (zero = 0 => t.vol = t.ts)
<1>1. m \in Nat /\ m <= clock /\ recv.seq \in Nat /\ zero \in Nat
  BY CandleAssumption DEF TypeOK, Receiver
<1>2. m * PerMinute + i \in Nat /\ MinuteOf(m * PerMinute + i) = m
  BY <1>1, MinuteIs
<1>3. Traded(m * PerMinute + i) \in Nat
      /\ (zero = 0 => Traded(m * PerMinute + i) = m * PerMinute + i)
  BY <1>1, <1>2, Counts
<1> QED
  BY <1>1, <1>2, <1>3 DEF Tick

\* What the websocket thread does to the receiver, the queue and itself.
LEMMA HowItReceives ==
  ASSUME TypeOK, WsTick
  PROVE  \E t \in Tick :
           /\ MinuteOf(t.ts) <= clock /\ (zero = 0 => t.vol = t.ts)
           /\ \/ /\ recv' = [Halted("overload") EXCEPT !.seq = @ + 1]
                 /\ InterruptIfHealthy
                 /\ UNCHANGED <<queue, ws>>
              \/ /\ recv.state \in {"STARTING", "STALE"}
                 /\ recv' = [recv EXCEPT !.state = "RESTORING", !.restoring = recv.state,
                                         !.seq = @ + 1]
                 /\ ws' = [tick |-> t, at |-> clock + 1]
                 /\ UNCHANGED <<queue, since, active>>
              \/ /\ recv.state = "HEALTHY"
                 /\ recv' = [recv EXCEPT !.seq = @ + 1, !.last = clock]
                 /\ queue' = Append(queue, t)
                 /\ UNCHANGED <<ws, since, active>>
<1>1. PICK m \in {x \in (clock - MaxLate) .. clock : x >= 0}, i \in 0 .. PerMinute - 1 :
        LET ts == m * PerMinute + i
            t == [ts |-> ts, seq |-> recv.seq + 1, vol |-> Traded(ts)]
        IN  \/ /\ recv' = [Halted("overload") EXCEPT !.seq = @ + 1]
               /\ InterruptIfHealthy
               /\ UNCHANGED <<queue, ws>>
            \/ /\ recv.state \in {"STARTING", "STALE"}
               /\ recv' = [recv EXCEPT !.state = "RESTORING", !.restoring = recv.state,
                                       !.seq = @ + 1]
               /\ ws' = [tick |-> t, at |-> clock + 1]
               /\ UNCHANGED <<queue, since, active>>
            \/ /\ recv.state = "HEALTHY"
               /\ recv' = [recv EXCEPT !.seq = @ + 1, !.last = clock]
               /\ queue' = Append(queue, t)
               /\ UNCHANGED <<ws, since, active>>
  BY DEF WsTick
<1> DEFINE t == [ts |-> m * PerMinute + i, seq |-> recv.seq + 1,
                 vol |-> Traded(m * PerMinute + i)]
<1>2. t \in Tick /\ MinuteOf(t.ts) = m /\ m <= clock /\ (zero = 0 => t.vol = t.ts)
  BY Received
<1>3. MinuteOf(t.ts) <= clock
  BY <1>2
<1>4. \/ /\ recv' = [Halted("overload") EXCEPT !.seq = @ + 1]
         /\ InterruptIfHealthy
         /\ UNCHANGED <<queue, ws>>
      \/ /\ recv.state \in {"STARTING", "STALE"}
         /\ recv' = [recv EXCEPT !.state = "RESTORING", !.restoring = recv.state, !.seq = @ + 1]
         /\ ws' = [tick |-> t, at |-> clock + 1]
         /\ UNCHANGED <<queue, since, active>>
      \/ /\ recv.state = "HEALTHY"
         /\ recv' = [recv EXCEPT !.seq = @ + 1, !.last = clock]
         /\ queue' = Append(queue, t)
         /\ UNCHANGED <<ws, since, active>>
  BY <1>1
<1> HIDE DEF t
<1> QED
  BY <1>2, <1>3, <1>4, Zenon

\* The receiver's record.
LEMMA ReceiverTyped ==
  ASSUME TypeOK, [Next]_vars
  PROVE  recv' \in Receiver /\ (recv'.state = "RESTORING" => recv'.restoring # "none")
<1>0. /\ recv \in Receiver /\ (recv.state = "RESTORING" => recv.restoring # "none")
      /\ clock \in Int
  BY DEF TypeOK
<1>1. CASE WsTick
  <2>1. \/ recv' = [Halted("overload") EXCEPT !.seq = @ + 1]
        \/ /\ recv.state \in {"STARTING", "STALE"}
           /\ recv' = [recv EXCEPT !.state = "RESTORING", !.restoring = recv.state, !.seq = @ + 1]
        \/ recv' = [recv EXCEPT !.seq = @ + 1, !.last = clock]
    BY <1>1, HowItReceives
  <2>2. CASE recv' = [Halted("overload") EXCEPT !.seq = @ + 1]
    BY <1>0, <2>2, HaltedTyped
  <2>3. CASE /\ recv.state \in {"STARTING", "STALE"}
             /\ recv' = [recv EXCEPT !.state = "RESTORING", !.restoring = recv.state,
                                     !.seq = @ + 1]
    <3> DEFINE r1 == [recv EXCEPT !.state = "RESTORING"]
               r2 == [r1 EXCEPT !.restoring = recv.state]
    <3>1. r1 \in Receiver
      BY <1>0, ReceiverFields
    <3>2. r2 \in Receiver
      BY <2>3, <3>1, ReceiverFields
    <3>3. recv' = [r2 EXCEPT !.seq = @ + 1]
      BY <1>0, <2>3 DEF Receiver
    <3>4. recv'.restoring = recv.state
      BY <1>0, <2>3 DEF Receiver
    <3> QED
      BY <2>3, <3>2, <3>3, <3>4, ReceiverFields
  <2>4. CASE recv' = [recv EXCEPT !.seq = @ + 1, !.last = clock]
    <3> DEFINE r1 == [recv EXCEPT !.last = clock]
    <3>1. r1 \in Receiver
      BY <1>0, ReceiverFields
    <3>2. recv' = [r1 EXCEPT !.seq = @ + 1]
      BY <1>0, <2>4 DEF Receiver
    <3>3. recv'.state = recv.state /\ recv'.restoring = recv.restoring
      BY <1>0, <2>4 DEF Receiver
    <3> QED
      BY <1>0, <3>1, <3>2, <3>3, ReceiverFields
  <2> QED
    BY <2>1, <2>2, <2>3, <2>4
<1>2. CASE WsRestores
  <2> DEFINE st == IF recv.state = "RESTORING" THEN "HEALTHY" ELSE recv.state
             r1 == [recv EXCEPT !.last = clock]
             r2 == [r1 EXCEPT !.state = st]
  <2>1. r1 \in Receiver /\ st \in {"STARTING", "RESTORING", "HEALTHY", "STALE", "STOPPED"}
    BY <1>0, ReceiverFields DEF Receiver
  <2>2. r2 \in Receiver
    BY <2>1, ReceiverFields
  <2>3. recv' = [r2 EXCEPT !.restoring = "none"]
    BY <1>0, <1>2 DEF WsRestores, Receiver
  <2>4. st # "RESTORING" /\ recv'.state = st
    BY <1>0, <1>2 DEF WsRestores, Receiver
  <2> QED
    BY <2>2, <2>3, <2>4, ReceiverFields
<1>r. CASE WsRestoreFails
  <2>1. CASE recv.state = "RESTORING"
    <3> DEFINE r1 == [recv EXCEPT !.state = recv.restoring]
    <3>1. recv.restoring \in {"STARTING", "STALE"}
      BY <1>0, <2>1 DEF Receiver
    <3>2. r1 \in Receiver
      BY <1>0, <3>1, ReceiverFields
    <3>3. recv' = [r1 EXCEPT !.restoring = "none"] /\ recv'.state # "RESTORING"
      BY <1>0, <1>r, <2>1, <3>1 DEF WsRestoreFails, Receiver
    <3> QED
      BY <3>2, <3>3, ReceiverFields
  <2>2. CASE recv.state # "RESTORING"
    BY <1>0, <1>r, <2>2 DEF WsRestoreFails
  <2> QED
    BY <2>1, <2>2
<1>3. CASE WsClose \/ HealthTransition
  <2>1. recv' = recv \/ recv' = [recv EXCEPT !.state = "STALE"]
    BY <1>3 DEF WsClose, HealthTransition
  <2>2. recv' = recv \/ recv'.state = "STALE"
    BY <1>0, <2>1 DEF Receiver
  <2> QED
    BY <1>0, <2>1, <2>2, ReceiverFields
<1>4. CASE WsGivesUp \/ Stop \/ WorkerFinishes
  BY <1>0, <1>4, HaltedTyped DEF WsGivesUp, Stop, WorkerFinishes
<1>5. CASE Exit \/ Crash
  <2>1. recv' = [NoRecv EXCEPT !.seq = recv.seq]
    BY <1>5 DEF Exit, Crash, Forgotten
  <2>2. \A b \in BOOLEAN, n \in Nat :
          [state |-> "STARTING", restoring |-> "none", fatal |-> "none", stop |-> b,
           last |-> -1, seq |-> n] \in Receiver
    BY DEF Receiver
  <2>3. recv.seq \in Nat /\ FALSE \in BOOLEAN
    BY <1>0 DEF Receiver
  <2>4. recv' = [state |-> "STARTING", restoring |-> "none", fatal |-> "none", stop |-> FALSE,
                 last |-> -1, seq |-> recv.seq]
    BY <2>1 DEF NoRecv
  <2> HIDE <1>0
  <2>5. recv' \in Receiver
    BY <2>2, <2>3, <2>4, Zenon
  <2> QED
    BY <2>4, <2>5
<1>6. CASE HealthCheck \/ HealthCallback \/ WorkerSkips \/ WorkerDrops \/ WorkerAdds
           \/ WorkerBegins \/ WorkerStarts \/ WorkerInserts \/ WorkerExits
  BY <1>0, <1>6 DEF HealthCheck, HealthCallback, WorkerSkips, WorkerDrops, WorkerAdds,
                    WorkerBegins, WorkerStarts, WorkerInserts, WorkerExits
<1>7. CASE Join \/ Flush \/ Restart \/ TimePasses \/ CounterRestarts \/ UNCHANGED vars
  BY <1>0, <1>7 DEF Join, Flush, Restart, TimePasses, CounterRestarts, vars
<1> QED
  BY <1>1, <1>2, <1>r, <1>3, <1>4, <1>5, <1>6, <1>7 DEF Next

\* What waits to be built: the queue, and the tick that restores the feed.
LEMMA QueueTyped ==
  ASSUME TypeOK, [Next]_vars
  PROVE  /\ queue' \in Seq(Tick)
         /\ ws' \in Feeder /\ (ws' # Idle => ws'.tick \in Tick)
<1>0. /\ queue \in Seq(Tick) /\ ws \in Feeder /\ (ws # Idle => ws.tick \in Tick)
      /\ clock \in Nat
  BY CandleAssumption DEF TypeOK, EndTime
<1>i. Idle \in Feeder
  BY DEF Idle, Feeder, Rests
<1>1. CASE WsTick
  <2>1. PICK t \in Tick : \/ UNCHANGED <<queue, ws>>
                          \/ ws' = [tick |-> t, at |-> clock + 1] /\ UNCHANGED queue
                          \/ queue' = Append(queue, t) /\ UNCHANGED ws
    BY <1>1, HowItReceives
  <2> QED
    BY <1>0, <2>1 DEF Feeder, Rests
<1>2. CASE WsRestores \/ WsRestoreFails
  BY <1>0, <1>i, <1>2 DEF WsRestores, WsRestoreFails
<1>3. CASE WorkerSkips \/ WorkerDrops \/ WorkerAdds \/ WorkerFinishes \/ WorkerBegins
  BY <1>0, <1>3, SMTT(30) DEF WorkerSkips, WorkerDrops, WorkerAdds, WorkerFinishes, WorkerBegins, Taken
<1>4. CASE Exit \/ Crash
  <2>1. queue' = <<>> /\ ws' = Idle
    BY <1>4 DEF Exit, Crash, Forgotten
  <2>2. <<>> \in Seq(Tick)
    OBVIOUS
  <2> QED
    BY <1>i, <2>1, <2>2
<1>5. CASE WsClose \/ WsGivesUp \/ HealthCheck \/ HealthTransition \/ HealthCallback
           \/ WorkerStarts \/ WorkerInserts \/ WorkerExits
  BY <1>0, <1>5 DEF WsClose, WsGivesUp, HealthCheck, HealthTransition, HealthCallback,
                    WorkerStarts, WorkerInserts, WorkerExits
<1>6. CASE Stop \/ Join \/ Flush \/ Restart \/ TimePasses \/ CounterRestarts \/ UNCHANGED vars
  BY <1>0, <1>6 DEF Stop, Join, Flush, Restart, TimePasses, CounterRestarts, vars
<1> QED
  BY <1>1, <1>2, <1>3, <1>4, <1>5, <1>6 DEF Next

\* A bucket's candles are stored ones.
LEMMA BufferedTyped ==
  ASSUME TypeOK, NEW c \in Row
  PROVE  /\ Buffered(c) \subseteq buffer \cup {c} /\ c \in Buffered(c)
         /\ Buffered(c) \subseteq Row /\ IsFiniteSet(Buffered(c))
         /\ Aggregate(Buffered(c)).minute \in Nat
         /\ \E d \in Buffered(c) : Aggregate(Buffered(c)).minute = d.minute
         /\ \A d \in Buffered(c) : Aggregate(Buffered(c)).minute <= d.minute
<1>1. buffer \subseteq Row /\ IsFiniteSet(buffer)
  BY DEF TypeOK
<1>2. Buffered(c) \subseteq buffer \cup {c} /\ c \in Buffered(c)
  BY DEF Buffered
<1>3. IsFiniteSet(buffer \cup {c})
  BY <1>1, FS_AddElement
<1>4. Buffered(c) \subseteq Row /\ IsFiniteSet(Buffered(c))
  BY <1>1, <1>2, <1>3, FS_Subset
<1>5. \A d \in Buffered(c) : d.minute \in Nat
  BY <1>4 DEF Row
<1> DEFINE b == Buffered(c)
<1>6. b # {} /\ \A d \in b : d.minute \in Nat
  BY <1>2, <1>5
<1> HIDE DEF b
<1>7. /\ \E d \in b : Aggregate(b).minute = d.minute
      /\ \A d \in b : Aggregate(b).minute <= d.minute
  BY <1>6, EarliestNames
<1> QED
  BY <1>2, <1>4, <1>6, <1>7 DEF b

\* What is stored is rows, and the strategies are told of stored ones.
StoreOK ==
  /\ rows1 \subseteq Row
  /\ buffer \subseteq rows1 /\ IsFiniteSet(buffer)
  /\ \A b \in rows5 : b.minute \in Nat
  /\ seen1 \in Seq(rows1) /\ seen5 \in Seq(rows5)
  /\ sum \in Int

\* Storing a candle, or failing to.
LEMMA StoreTyped ==
  ASSUME TypeOK, NEW c \in Row, EmitOk(c) \/ EmitFatal(c) \/ EmitError(c)
  PROVE  StoreOK'
<1>0. StoreOK
  BY DEF TypeOK, StoreOK
<1>1. CASE UNCHANGED store
  BY <1>0, <1>1 DEF store, StoreOK
<1>2. CASE /\ rows1' = rows1 \cup {c} /\ buffer' = {} /\ UNCHANGED <<rows5, seen1, seen5, sum>>
  <2>1. rows1' \subseteq Row /\ seen1' \in Seq(rows1')
    BY <1>0, <1>2 DEF StoreOK
  <2>2. IsFiniteSet(buffer')
    BY <1>2, FS_EmptySet
  <2> QED
    BY <1>0, <1>2, <2>1, <2>2 DEF StoreOK
<1>3. CASE /\ rows1' = rows1 \cup {c} /\ seen1' = Append(seen1, c) /\ sum' = sum + c.volume
           /\ buffer' = Buffered(c) /\ UNCHANGED <<rows5, seen5>>
  <2>1. rows1' \subseteq Row /\ seen1' \in Seq(rows1')
    BY <1>0, <1>3 DEF StoreOK
  <2>2. buffer' \subseteq rows1' /\ IsFiniteSet(buffer')
    BY <1>0, <1>3, BufferedTyped DEF StoreOK
  <2>3. sum' \in Int
    BY <1>0, <1>3 DEF StoreOK, Row
  <2> QED
    BY <1>0, <1>3, <2>1, <2>2, <2>3 DEF StoreOK
<1>4. CASE /\ rows1' = rows1 \cup {c} /\ seen1' = Append(seen1, c) /\ sum' = sum + c.volume
           /\ buffer' = {} /\ rows5' = rows5 \cup {Aggregate(Buffered(c))}
           /\ seen5' = Append(seen5, Aggregate(Buffered(c)))
  <2>1. rows1' \subseteq Row /\ seen1' \in Seq(rows1')
    BY <1>0, <1>4 DEF StoreOK
  <2>2. buffer' \subseteq rows1' /\ IsFiniteSet(buffer')
    BY <1>4, FS_EmptySet
  <2>3. sum' \in Int
    BY <1>0, <1>4 DEF StoreOK, Row
  <2>4. seen5' \in Seq(rows5')
    BY <1>0, <1>4 DEF StoreOK
  <2>5. Aggregate(Buffered(c)).minute \in Nat
    BY BufferedTyped
  <2>6. \A b \in rows5' : b.minute \in Nat
    BY <1>0, <1>4, <2>5 DEF StoreOK
  <2> QED
    BY <2>1, <2>2, <2>3, <2>4, <2>6 DEF StoreOK
<1> QED
  BY <1>1, <1>2, <1>3, <1>4, HowItStores

\* What is built: the candle, the counter, the worker's tick, and the rows.
LEMMA BuilderTyped ==
  ASSUME TypeOK, [Next]_vars
  PROVE  /\ worker' \in Work /\ (worker'.pc \in {"start", "insert"} => worker'.tick \in Tick)
         /\ active' \in Candle /\ vol' \in Counter /\ emitted' \in Int
         /\ StoreOK'
<1>0. /\ worker \in Work /\ (worker.pc \in {"start", "insert"} => worker.tick \in Tick)
      /\ active \in Candle /\ vol \in Counter /\ emitted \in Int /\ StoreOK
      /\ queue \in Seq(Tick) /\ clock \in Nat
  BY CandleAssumption DEF TypeOK, StoreOK, EndTime
<1>s. UNCHANGED store => StoreOK'
  BY <1>0 DEF store, StoreOK
<1>n. NoCandle \in Candle /\ NoVolume \in Counter
  <2>1. \A f \in BOOLEAN, g \in BOOLEAN :
          [minute |-> -1, ticks |-> {}, full |-> f, done |-> 0, base |-> 0, max |-> 0,
           reliable |-> g] \in Candle
    BY DEF Candle
  <2>2. \A f \in BOOLEAN, g \in BOOLEAN :
          [known |-> f, base |-> 0, first |-> 0, key |-> NoTick, reliable |-> g] \in Counter
    BY DEF Counter, Rests
  <2>3. TRUE \in BOOLEAN /\ FALSE \in BOOLEAN
    OBVIOUS
  <2> QED
    BY <2>1, <2>2, <2>3, Zenon DEF NoCandle, NoVolume
<1>r. Running \in Work /\ Running.pc = "run"
  <2>1. \A f \in BOOLEAN : [pc |-> "run", tick |-> NoTick, full |-> f] \in Work
    BY DEF Work, Rests
  <2>2. FALSE \in BOOLEAN
    OBVIOUS
  <2> QED
    BY <2>1, <2>2, Zenon DEF Running
<1>1. CASE /\ UNCHANGED <<worker, vol, emitted, store>>
           /\ active' = active \/ active' = [active EXCEPT !.full = FALSE]
  <2>1. \A f \in BOOLEAN : [active EXCEPT !.full = f] \in Candle
    BY <1>0 DEF Candle
  <2>2. FALSE \in BOOLEAN
    OBVIOUS
  <2>3. active' \in Candle
    BY <1>0, <1>1, <2>1, <2>2, Zenon
  <2> QED
    BY <1>0, <1>s, <1>1, <2>3
<1>2. CASE WorkerAdds
  <2>1. Head(queue) \in Tick
    BY <1>0, <1>2 DEF WorkerAdds, Taken
  <2>2. active' \in Candle
    BY <1>0, <1>2, <2>1, Applied DEF WorkerAdds
  <2>3. vol' \in Counter
    BY <1>0, <1>2, <2>1, NewestTyped DEF WorkerAdds
  <2> QED
    BY <1>0, <1>s, <1>2, <2>2, <2>3 DEF WorkerAdds
<1>f. ASSUME Building, Finalized, StoreOK'
      PROVE  active' \in Candle /\ vol' \in Counter /\ emitted' \in Int
  <2>1. emitted' \in Int /\ active' = NoCandle
    BY <1>0, <1>f DEF Finalized, Candle, Building
  <2>2. \A b \in Int, f \in BOOLEAN : [vol EXCEPT !.base = b, !.reliable = f] \in Counter
    BY <1>0 DEF Counter
  <2>3. vol.key.vol \in Int /\ (vol.reliable /\ active.reliable) \in BOOLEAN
    BY <1>0 DEF Counter, Rests, Tick, NoTick
  <2>4. vol' = [vol EXCEPT !.base = vol.key.vol, !.reliable = vol.reliable /\ active.reliable]
    BY <1>f DEF Finalized
  <2>5. vol' \in Counter
    BY <2>2, <2>3, <2>4, Zenon
  <2> QED
    BY <1>n, <2>1, <2>5
<1>3. CASE WorkerFinishes
  <2> DEFINE t == Head(queue)
             c == Completed(active, "minute_transition", MinuteOf(t.ts))
  <2>1. t \in Tick /\ Building
    BY <1>0, <1>3 DEF WorkerFinishes, Taken
  <2>2. MinuteOf(t.ts) \in Nat
    BY <2>1, Minutes DEF Tick
  <2>3. c \in Row
    BY <1>0, <2>1, <2>2, CompletedTyped
  <2>4. EmitOk(c) \/ EmitFatal(c) \/ EmitError(c)
    BY <1>3 DEF WorkerFinishes
  <2>5. \/ Finalized /\ worker' = [worker EXCEPT !.pc = "start", !.tick = t]
        \/ /\ active' = NoCandle /\ worker' = [worker EXCEPT !.pc = "done"]
           /\ UNCHANGED <<vol, emitted>>
        \/ UNCHANGED <<active, vol, emitted, worker>>
    BY <1>3 DEF WorkerFinishes
  <2> HIDE DEF c, t
  <2>6. StoreOK'
    BY <2>3, <2>4, StoreTyped
  <2>7. worker' \in Work /\ (worker'.pc \in {"start", "insert"} => worker'.tick \in Tick)
    <3>1. [worker EXCEPT !.pc = "start", !.tick = t] \in Work
          /\ [worker EXCEPT !.pc = "start", !.tick = t].tick = t
      BY <1>0, <2>1 DEF Work, Rests
    <3>2. [worker EXCEPT !.pc = "done"] \in Work /\ [worker EXCEPT !.pc = "done"].pc = "done"
      BY <1>0 DEF Work
    <3> QED
      BY <1>0, <2>1, <2>5, <3>1, <3>2
  <2> QED
    BY <1>0, <1>n, <1>f, <2>1, <2>5, <2>6, <2>7
<1>4. CASE (\E t \in Tick : Begins(t)) /\ UNCHANGED <<builder, store>>
  <2>1. PICK t \in Tick :
          worker' = [pc |-> "insert", tick |-> t, full |-> HasFullCoverage(MinuteOf(t.ts))]
    BY <1>4 DEF Begins, Reads
  <2>2. \A f \in BOOLEAN : [pc |-> "insert", tick |-> t, full |-> f] \in Work
    BY <2>1 DEF Work, Rests
  <2>3. HasFullCoverage(MinuteOf(t.ts)) \in BOOLEAN
    BY DEF HasFullCoverage
  <2>4. worker' \in Work
    BY <2>1, <2>2, <2>3, Zenon
  <2>5. worker'.tick = t
    BY <2>1
  <2> QED
    BY <1>0, <1>s, <1>4, <2>4, <2>5 DEF builder
<1>5. CASE WorkerInserts
  <2> DEFINE t == worker.tick
             v == VolumeState(t)
             c == Started(MinuteOf(t.ts), v, worker.full)
  <2>1. t \in Tick /\ worker.full \in BOOLEAN
    BY <1>0, <1>5 DEF WorkerInserts, Work
  <2>2. v \in Counter
    BY <1>0, <2>1, CounterMade
  <2>3. MinuteOf(t.ts) \in Nat
    BY <2>1, Minutes DEF Tick
  <2>4. active' = ApplyTick(c, v, t) /\ vol' = Newest(v, t)
        /\ worker' = Running /\ UNCHANGED <<emitted, store>>
    BY <1>5 DEF WorkerInserts
  <2> HIDE DEF t, v
  <2>5. c \in Candle
    BY <2>1, <2>2, <2>3, StartedTyped
  <2> HIDE DEF c
  <2>6. active' \in Candle /\ vol' \in Counter
    BY <2>1, <2>2, <2>4, <2>5, Applied, NewestTyped
  <2> QED
    BY <1>0, <1>s, <1>r, <2>4, <2>6
<1>6. CASE WorkerExits
  <2>1. [worker EXCEPT !.pc = "done"] \in Work /\ [worker EXCEPT !.pc = "done"].pc = "done"
    BY <1>0 DEF Work
  <2> QED
    BY <1>0, <1>s, <1>6, <2>1 DEF WorkerExits, builder
<1>7. CASE Flush
  <2> DEFINE c == Completed(active, FlushReason, clock)
  <2>1. Building /\ FlushReason \in {"minute_transition", "session_end", "shutdown_flush"}
    BY <1>7 DEF Flush, FlushReason
  <2>2. c \in Row
    BY <1>0, <2>1, CompletedTyped
  <2>3. EmitOk(c) \/ EmitFatal(c) \/ EmitError(c)
    BY <1>7 DEF Flush
  <2>4. (Finalized \/ UNCHANGED <<active, vol, emitted>>) /\ UNCHANGED worker
    BY <1>7 DEF Flush
  <2> HIDE DEF c
  <2>5. StoreOK'
    BY <2>2, <2>3, StoreTyped
  <2> QED
    BY <1>0, <1>f, <2>1, <2>4, <2>5
<1>8. CASE Forgotten /\ UNCHANGED <<rows1, rows5>>
  <2>1. /\ worker' = Running /\ active' = NoCandle /\ vol' = NoVolume /\ emitted' = -1
        /\ buffer' = {} /\ seen1' = <<>> /\ seen5' = <<>> /\ sum' = 0
        /\ UNCHANGED <<rows1, rows5>>
    BY <1>8 DEF Forgotten
  <2>2. IsFiniteSet(buffer')
    BY <2>1, FS_EmptySet
  <2>3. StoreOK'
    BY <1>0, <2>1, <2>2 DEF StoreOK
  <2> QED
    BY <1>0, <1>n, <1>r, <2>1, <2>3
<1> QED
  BY <1>1, <1>2, <1>3, <1>4, <1>5, <1>6, <1>7, <1>8, HowItBuilds

\* Coverage holds from a minute.
LEMMA SinceTyped ==
  ASSUME TypeOK, [Next]_vars
  PROVE  since' \in Nat /\ gaps' \subseteq Nat
<1>0. since \in Nat /\ gaps \subseteq Nat /\ ws \in Feeder /\ Never \in Nat
  BY CandleAssumption DEF TypeOK, Never
<1>1. clock' \in Nat
  BY ClockTyped, CandleAssumption DEF EndTime
<1>2. gaps' \subseteq Nat
  BY <1>0, <1>1 DEF Next, Watched, vars
<1>3. UNCHANGED since \/ since' = Never \/ since' = ws.at
  BY DEF Next, vars, builder, WsTick, WsRestores, WsRestoreFails, WsClose, WsGivesUp, HealthCheck,
         HealthTransition, HealthCallback, WorkerSkips, WorkerDrops, WorkerAdds, WorkerFinishes,
         WorkerBegins, WorkerStarts, WorkerInserts, WorkerExits, Stop, Join, Flush, Exit, Crash,
         Restart, TimePasses, CounterRestarts, InterruptIfHealthy, Interrupt, Forgotten
<1> QED
  BY <1>0, <1>2, <1>3 DEF Feeder

\* The types hold.
LEMMA Types == Spec => []TypeOK
<1>1. Init => TypeOK
  <2> SUFFICES ASSUME Init PROVE TypeOK
    OBVIOUS
  <2>1. \A f \in BOOLEAN :
          [state |-> "STARTING", restoring |-> "none", fatal |-> "none", stop |-> f,
           last |-> -1, seq |-> 0] \in Receiver
    BY DEF Receiver
  <2>2. \A f \in BOOLEAN : [pc |-> "run", tick |-> NoTick, full |-> f] \in Work
    BY DEF Work, Rests
  <2>3. \A f \in BOOLEAN, g \in BOOLEAN :
          [minute |-> -1, ticks |-> {}, full |-> f, done |-> 0, base |-> 0, max |-> 0,
           reliable |-> g] \in Candle
    BY DEF Candle
  <2>4. \A f \in BOOLEAN, g \in BOOLEAN :
          [known |-> f, base |-> 0, first |-> 0, key |-> NoTick, reliable |-> g] \in Counter
    BY DEF Counter, Rests
  <2>5. TRUE \in BOOLEAN /\ FALSE \in BOOLEAN
    OBVIOUS
  <2>6. NoRecv \in Receiver /\ Running \in Work /\ NoCandle \in Candle /\ NoVolume \in Counter
    BY <2>1, <2>2, <2>3, <2>4, <2>5, Zenon DEF NoRecv, Running, NoCandle, NoVolume
  <2>7. Idle \in Feeder /\ NoRecv.state = "STARTING" /\ Running.pc = "run"
    BY DEF Idle, Feeder, Rests, NoRecv, Running
  <2>8. /\ clock = 0 /\ zero = 0 /\ recv = NoRecv /\ queue = <<>> /\ ws = Idle
        /\ worker = Running /\ since = Never /\ active = NoCandle /\ vol = NoVolume
        /\ emitted = -1 /\ buffer = {} /\ rows1 = {} /\ rows5 = {}
        /\ seen1 = <<>> /\ seen5 = <<>> /\ sum = 0 /\ gaps = {0}
    BY DEF Init
  <2>9. EndTime \in Nat /\ Never \in Nat /\ IsFiniteSet({})
    BY CandleAssumption, FS_EmptySet DEF EndTime, Never
  <2>10. seen1 \in Seq(rows1) /\ seen5 \in Seq(rows5) /\ queue \in Seq(Tick)
    BY <2>8
  <2> QED
    BY <2>6, <2>7, <2>8, <2>9, <2>10 DEF TypeOK
<1>2. TypeOK /\ [Next]_vars => TypeOK'
  <2> SUFFICES ASSUME TypeOK, [Next]_vars PROVE TypeOK'
    OBVIOUS
  <2>1. /\ clock' \in 0 .. EndTime' /\ zero' \in 0 .. clock'
    BY ClockTyped DEF EndTime
  <2>2. recv' \in Receiver /\ (recv'.state = "RESTORING" => recv'.restoring # "none")
    BY ReceiverTyped
  <2>3. queue' \in Seq(Tick) /\ ws' \in Feeder /\ (ws' # Idle => ws'.tick \in Tick)
    BY QueueTyped
  <2>4. /\ worker' \in Work /\ (worker'.pc \in {"start", "insert"} => worker'.tick \in Tick)
        /\ active' \in Candle /\ vol' \in Counter /\ emitted' \in Int
        /\ StoreOK'
    BY BuilderTyped
  <2>5. since' \in Nat /\ gaps' \subseteq Nat
    BY SinceTyped
  <2> QED
    BY <2>1, <2>2, <2>3, <2>4, <2>5 DEF TypeOK, StoreOK
<1> QED
  BY <1>1, <1>2, PTL DEF Spec

-----------------------------------------------------------------------------
(* The order of minutes. *)

\* Up to the newest completed minute: the bucket's candles, which no bucket
\* told of contains, and what the strategies were told.
ToldBy ==
  /\ \A c \in buffer : c.minute <= emitted
  /\ \A i \in DOMAIN seen1 : seen1[i].minute <= emitted
  /\ \A i \in DOMAIN seen5 :
       seen5[i].minute <= emitted /\ \A c \in buffer : seen5[i].minute < c.minute
  /\ Increasing(seen1) /\ Increasing(seen5)

\* The candle being built, and the tick that opens the next one, are newer.
OrderInv ==
  /\ main \in {"joined", "flushed"} => worker.pc = "done"
  /\ worker.pc \in {"start", "insert"} => ~Building /\ MinuteOf(worker.tick.ts) > emitted
  /\ Building => active.minute > emitted
  /\ ToldBy

\* A sequence stays in order when something newer is appended.
LEMMA AppendedInOrder ==
  ASSUME NEW S, NEW s \in Seq(S), NEW c, NEW e \in Int, c.minute \in Int,
         \A x \in S : x.minute \in Int,
         Increasing(s), \A i \in DOMAIN s : s[i].minute <= e, e < c.minute
  PROVE  Increasing(Append(s, c)) /\ \A i \in DOMAIN Append(s, c) : Append(s, c)[i].minute <= c.minute
<1> DEFINE z == Append(s, c)
<1>1. Len(s) \in Nat /\ DOMAIN s = 1 .. Len(s) /\ DOMAIN z = 1 .. Len(s) + 1
  OBVIOUS
<1>2. z[Len(s) + 1] = c /\ \A i \in 1 .. Len(s) : z[i] = s[i] /\ s[i] \in S
  OBVIOUS
<1> HIDE DEF z
<1>3. \A i \in DOMAIN z : z[i].minute <= c.minute
  <2> TAKE i \in DOMAIN z
  <2>1. CASE i = Len(s) + 1
    BY <1>2, <2>1
  <2>2. CASE i \in 1 .. Len(s)
    BY <1>1, <1>2, <2>2
  <2> QED
    BY <1>1, <2>1, <2>2
<1>4. ASSUME NEW i \in DOMAIN z, NEW j \in DOMAIN z, i < j PROVE z[i].minute < z[j].minute
  <2>1. i \in 1 .. Len(s) /\ z[i] = s[i] /\ s[i].minute \in Int /\ s[i].minute <= e
    BY <1>1, <1>2, <1>4
  <2>2. CASE j = Len(s) + 1
    BY <1>2, <2>1, <2>2
  <2>3. CASE j \in 1 .. Len(s)
    BY <1>1, <1>2, <1>4, <2>1, <2>3 DEF Increasing
  <2> QED
    BY <1>1, <2>2, <2>3
<1> QED
  BY <1>3, <1>4 DEF Increasing, z

\* A newer candle is stored and told of in order; one that is not leaves the
\* order alone.
LEMMA StoredInOrder ==
  ASSUME TypeOK, ToldBy, NEW c \in Row, c.minute > emitted,
         \/ EmitOk(c) /\ emitted' = c.minute
         \/ (EmitFatal(c) \/ EmitError(c)) /\ emitted' = emitted
  PROVE  ToldBy'
<1>0. /\ emitted \in Int /\ c.minute \in Int /\ rows1 \subseteq Row /\ buffer \subseteq rows1
      /\ seen1 \in Seq(rows1) /\ seen5 \in Seq(rows5) /\ \A b \in rows5 : b.minute \in Nat
      /\ \A x \in rows1 : x.minute \in Int
  BY DEF TypeOK, Row
<1>1. CASE EmitFatal(c) /\ emitted' = emitted
  BY <1>1 DEF EmitFatal, store, ToldBy, Increasing
<1>2. CASE EmitError(c) /\ emitted' = emitted
  <2>1. buffer' = {} /\ seen1' = seen1 /\ seen5' = seen5
    BY <1>2 DEF EmitError
  <2> QED
    BY <1>2, <2>1 DEF ToldBy, Increasing
<1>3. CASE EmitOk(c) /\ emitted' = c.minute
  <2>1. /\ seen1' = Append(seen1, c)
        /\ \/ buffer' = Buffered(c) /\ UNCHANGED seen5
           \/ buffer' = {} /\ seen5' = Append(seen5, Aggregate(Buffered(c)))
    BY <1>3 DEF EmitOk
  <2>2. Increasing(seen1') /\ \A i \in DOMAIN seen1' : seen1'[i].minute <= c.minute
    BY <1>0, <2>1, AppendedInOrder DEF ToldBy
  <2>3. \A i \in DOMAIN seen5 :
          /\ seen5[i].minute \in Int /\ seen5[i].minute <= emitted
          /\ \A d \in Buffered(c) : seen5[i].minute < d.minute
    <3> TAKE i \in DOMAIN seen5
    <3>1. seen5[i] \in rows5
      BY <1>0
    <3>2. seen5[i].minute \in Int /\ seen5[i].minute <= emitted /\ seen5[i].minute < c.minute
      BY <1>0, <3>1 DEF ToldBy
    <3>3. Buffered(c) \subseteq buffer \cup {c}
      BY BufferedTyped
    <3> QED
      BY <3>2, <3>3 DEF ToldBy
  <2>4. CASE buffer' = Buffered(c) /\ UNCHANGED seen5
    <3>1. \A d \in buffer' : d.minute <= c.minute
      <4> TAKE d \in buffer'
      <4>1. d = c \/ d \in buffer
        BY <2>4, BufferedTyped
      <4>2. CASE d \in buffer
        <5>1. d.minute \in Int /\ d.minute <= emitted
          BY <1>0, <4>2 DEF ToldBy
        <5> QED
          BY <1>0, <5>1
      <4> QED
        BY <1>0, <4>1, <4>2
    <3>2. \A i \in DOMAIN seen5' :
            seen5'[i].minute <= c.minute /\ \A d \in buffer' : seen5'[i].minute < d.minute
      BY <1>0, <2>3, <2>4
    <3>3. Increasing(seen5')
      BY <2>4 DEF ToldBy
    <3> QED
      BY <1>3, <2>2, <3>1, <3>2, <3>3 DEF ToldBy, Increasing
  <2>5. CASE buffer' = {} /\ seen5' = Append(seen5, Aggregate(Buffered(c)))
    <3> DEFINE a == Aggregate(Buffered(c))
    <3>1. PICK d \in Buffered(c) : a.minute = d.minute
      BY BufferedTyped
    <3>2. a.minute \in Int /\ a.minute <= c.minute
      BY <1>0, BufferedTyped
    <3>3. \A i \in DOMAIN seen5 : seen5[i].minute <= a.minute - 1
      BY <2>3, <3>1, <3>2
    <3> HIDE DEF a
    <3>4. Increasing(Append(seen5, a))
          /\ \A i \in DOMAIN Append(seen5, a) : Append(seen5, a)[i].minute <= a.minute
      <4>1. a.minute - 1 \in Int /\ a.minute - 1 < a.minute /\ Increasing(seen5)
            /\ \A x \in rows5 : x.minute \in Int
        BY <1>0, <3>2 DEF ToldBy
      <4> QED
        BY <1>0, <3>2, <3>3, <4>1, AppendedInOrder
    <3>5. Increasing(seen5') /\ \A i \in DOMAIN seen5' : seen5'[i].minute <= a.minute
      BY <2>5, <3>4 DEF a
    <3>6. \A i \in DOMAIN seen5' : seen5'[i].minute <= c.minute
      <4> TAKE i \in DOMAIN seen5'
      <4>1. i \in DOMAIN seen5 \/ seen5'[i] = a
        BY <1>0, <2>5 DEF a
      <4>2. CASE seen5'[i] = a
        BY <3>2, <4>2
      <4>3. CASE i \in DOMAIN seen5
        <5>1. seen5'[i] = seen5[i]
          BY <1>0, <2>5, <4>3
        <5> QED
          BY <1>0, <2>3, <4>3, <5>1
      <4> QED
        BY <4>1, <4>2, <4>3
    <3> QED
      BY <1>3, <2>2, <2>5, <3>5, <3>6 DEF ToldBy, Increasing
  <2> QED
    BY <2>1, <2>4, <2>5
<1> QED
  BY <1>1, <1>2, <1>3

\* The main thread ends a process only after its worker.
LEMMA JoinedAfterWorker ==
  ASSUME TypeOK, main \in {"joined", "flushed"} => worker.pc = "done", [Next]_vars
  PROVE  main' \in {"joined", "flushed"} => worker'.pc = "done"
<1> USE DEF Up
<1>1. CASE WsTick \/ WsRestores \/ WsRestoreFails \/ WsClose \/ WsGivesUp \/ HealthCheck
           \/ HealthTransition \/ HealthCallback \/ Stop \/ Flush \/ Join
  BY <1>1 DEF WsTick, WsRestores, WsRestoreFails, WsClose, WsGivesUp, HealthCheck,
              HealthTransition, HealthCallback, Stop, Flush, Join
<1>2. CASE WorkerSkips \/ WorkerDrops \/ WorkerAdds \/ WorkerFinishes \/ WorkerBegins
           \/ WorkerStarts \/ WorkerInserts \/ WorkerExits
  BY <1>2 DEF WorkerSkips, WorkerDrops, WorkerAdds, WorkerFinishes, WorkerBegins, WorkerStarts,
              WorkerInserts, WorkerExits, Taken
<1>3. CASE Exit \/ Crash
  BY <1>3 DEF Exit, Crash, Forgotten
<1>4. CASE Restart \/ TimePasses \/ CounterRestarts \/ UNCHANGED vars
  BY <1>4 DEF Restart, TimePasses, CounterRestarts, vars
<1> QED
  BY <1>1, <1>2, <1>3, <1>4 DEF Next

\* Minutes are completed in order.
LEMMA Ordered == Spec => []OrderInv
<1>1. Init => OrderInv
  BY DEF Init, OrderInv, ToldBy, Increasing, Running, NoCandle, Building
<1>2. TypeOK /\ OrderInv /\ [Next]_vars => OrderInv'
  <2> SUFFICES ASSUME TypeOK, OrderInv, [Next]_vars PROVE OrderInv'
    OBVIOUS
  <2>0. /\ active \in Candle /\ emitted \in Int /\ worker \in Work /\ vol \in Counter
        /\ queue \in Seq(Tick) /\ clock \in Nat
        /\ worker.pc \in {"start", "insert"} => worker.tick \in Tick
    BY CandleAssumption DEF TypeOK, EndTime
  <2>j. main' \in {"joined", "flushed"} => worker'.pc = "done"
    BY JoinedAfterWorker DEF OrderInv
  <2>t. UNCHANGED <<emitted, store>> => ToldBy'
    BY DEF OrderInv, ToldBy, Increasing, store
  <2>1. CASE /\ UNCHANGED <<worker, vol, emitted, store>>
             /\ active' = active \/ active' = [active EXCEPT !.full = FALSE]
    <3>1. active'.minute = active.minute
      BY <2>0, <2>1 DEF Candle
    <3> QED
      BY <2>1, <2>j, <2>t, <3>1 DEF OrderInv, Building
  <2>2. CASE WorkerAdds
    <3>1. Head(queue) \in Tick
      BY <2>0, <2>2 DEF WorkerAdds, Taken
    <3>2. active'.minute = active.minute
      BY <2>0, <2>2, <3>1, Applied DEF WorkerAdds
    <3>3. UNCHANGED <<worker, emitted, store>>
      BY <2>2 DEF WorkerAdds
    <3> QED
      BY <2>j, <2>t, <3>2, <3>3 DEF OrderInv, Building
  <2>3. CASE WorkerFinishes
    <3> DEFINE t == Head(queue)
               c == Completed(active, "minute_transition", MinuteOf(t.ts))
    <3>1. /\ t \in Tick /\ Building /\ MinuteOf(t.ts) > active.minute
          /\ active.minute > emitted /\ worker.pc = "run"
      BY <2>0, <2>3 DEF WorkerFinishes, Taken, OrderInv
    <3>2. MinuteOf(t.ts) \in Nat
      BY <3>1, Minutes DEF Tick
    <3>3. c \in Row /\ c.minute = active.minute
      BY <2>0, <3>1, <3>2, CompletedTyped
    <3>4. \/ EmitOk(c) /\ Finalized /\ worker' = [worker EXCEPT !.pc = "start", !.tick = t]
          \/ /\ EmitFatal(c) /\ active' = NoCandle /\ worker' = [worker EXCEPT !.pc = "done"]
             /\ UNCHANGED <<vol, emitted>>
          \/ EmitError(c) /\ UNCHANGED <<active, vol, emitted, worker>>
      BY <2>3 DEF WorkerFinishes
    <3> HIDE DEF c, t
    <3>5. \/ EmitOk(c) /\ emitted' = c.minute
          \/ (EmitFatal(c) \/ EmitError(c)) /\ emitted' = emitted
      BY <3>3, <3>4 DEF Finalized
    <3>6. ToldBy'
      BY <3>1, <3>3, <3>5, StoredInOrder DEF OrderInv
    <3>7. CASE Finalized /\ worker' = [worker EXCEPT !.pc = "start", !.tick = t]
      <4>1. worker'.tick = t /\ emitted' = active.minute /\ active'.minute = -1
        BY <2>0, <3>7 DEF Finalized, NoCandle, Work
      <4> QED
        BY <2>j, <3>1, <3>6, <4>1 DEF OrderInv, Building
    <3>8. CASE active' = NoCandle /\ worker' = [worker EXCEPT !.pc = "done"]
      <4>1. worker'.pc = "done" /\ active'.minute = -1
        BY <2>0, <3>8 DEF NoCandle, Work
      <4> QED
        BY <2>j, <3>6, <4>1 DEF OrderInv, Building
    <3>9. CASE UNCHANGED <<active, emitted, worker>>
      BY <2>j, <3>6, <3>9 DEF OrderInv, Building
    <3> QED
      BY <3>4, <3>7, <3>8, <3>9
  <2>4. CASE (\E t \in Tick : Begins(t)) /\ UNCHANGED <<builder, store>>
    <3>1. PICK t \in Tick : Begins(t)
      BY <2>4
    <3>2. worker'.tick = t /\ UNCHANGED <<active, emitted>>
      BY <2>4, <3>1 DEF Begins, Reads, builder
    <3>3. ~Building /\ MinuteOf(t.ts) > emitted
      <4>1. CASE worker.pc = "start" /\ t = worker.tick
        BY <4>1 DEF OrderInv
      <4>2. CASE ~Building /\ ~Late(MinuteOf(t.ts))
        <5>1. MinuteOf(t.ts) \in Nat
          BY Minutes DEF Tick
        <5> QED
          BY <2>0, <4>2, <5>1 DEF Late
      <4> QED
        BY <3>1, <4>1, <4>2 DEF Begins
    <3> QED
      BY <2>4, <2>j, <2>t, <3>2, <3>3 DEF OrderInv, Building
  <2>5. CASE WorkerInserts
    <3> DEFINE t == worker.tick
               v == VolumeState(t)
               c == Started(MinuteOf(t.ts), v, worker.full)
    <3>1. /\ t \in Tick /\ worker.full \in BOOLEAN /\ MinuteOf(t.ts) > emitted
          /\ UNCHANGED <<emitted, store>> /\ worker' = Running
          /\ active' = ApplyTick(c, v, t)
      BY <2>0, <2>5 DEF WorkerInserts, Work, OrderInv
    <3>2. v \in Counter /\ MinuteOf(t.ts) \in Nat
      BY <2>0, <3>1, CounterMade, Minutes DEF Tick
    <3> HIDE DEF v
    <3>3. c \in Candle /\ c.minute = MinuteOf(t.ts)
      BY <3>1, <3>2, StartedTyped
    <3> HIDE DEF c
    <3>4. active'.minute = MinuteOf(t.ts)
      BY <3>1, <3>2, <3>3, Applied
    <3> QED
      BY <2>j, <2>t, <3>1, <3>4 DEF OrderInv, Building, Running
  <2>6. CASE WorkerExits
    <3>1. UNCHANGED <<active, emitted, store>> /\ worker'.pc = "done"
      BY <2>0, <2>6 DEF WorkerExits, builder, Work
    <3> QED
      BY <2>j, <2>t, <3>1 DEF OrderInv, Building
  <2>7. CASE Flush
    <3> DEFINE c == Completed(active, FlushReason, clock)
    <3>1. /\ Building /\ FlushReason \in {"minute_transition", "session_end", "shutdown_flush"}
          /\ active.minute > emitted
      BY <2>7 DEF Flush, FlushReason, OrderInv
    <3>2. c \in Row /\ c.minute = active.minute
      BY <2>0, <3>1, CompletedTyped
    <3>3. /\ \/ EmitOk(c) /\ Finalized
             \/ (EmitFatal(c) \/ EmitError(c)) /\ UNCHANGED <<active, vol, emitted>>
          /\ UNCHANGED worker /\ worker.pc = "done"
      BY <2>7 DEF Flush, OrderInv
    <3> HIDE DEF c
    <3>4. \/ EmitOk(c) /\ emitted' = c.minute
          \/ (EmitFatal(c) \/ EmitError(c)) /\ emitted' = emitted
      BY <3>2, <3>3 DEF Finalized
    <3>5. ToldBy'
      BY <3>1, <3>2, <3>4, StoredInOrder DEF OrderInv
    <3>6. Building' => active'.minute > emitted'
      BY <3>1, <3>3 DEF Finalized, Building, NoCandle
    <3> QED
      BY <2>j, <3>3, <3>5, <3>6 DEF OrderInv
  <2>8. CASE Forgotten /\ UNCHANGED <<rows1, rows5>>
    <3>1. /\ worker' = Running /\ active' = NoCandle /\ buffer' = {}
          /\ seen1' = <<>> /\ seen5' = <<>>
      BY <2>8 DEF Forgotten
    <3> QED
      BY <2>j, <3>1 DEF OrderInv, ToldBy, Increasing, Running, NoCandle, Building
  <2> QED
    BY <2>1, <2>2, <2>3, <2>4, <2>5, <2>6, <2>7, <2>8, HowItBuilds
<1> QED
  BY <1>1, <1>2, Types, PTL DEF Spec

\* What the strategies are told is stored, and comes once and in order: a
\* candle reaches them only through the writers, and its minute is newer than
\* every one completed before it, although ticks are late and a candle that
\* could not be stored is tried again.
THEOREM ToldOnce == Spec => []ToldOnceAfterStore
<1>1. TypeOK /\ OrderInv => ToldOnceAfterStore
  <2> SUFFICES ASSUME TypeOK, OrderInv PROVE ToldOnceAfterStore
    OBVIOUS
  <2>1. seen1 \in Seq(rows1) /\ seen5 \in Seq(rows5)
    BY DEF TypeOK
  <2>2. Told(seen1) \subseteq rows1 /\ Told(seen5) \subseteq rows5
    BY <2>1 DEF Told
  <2>3. Increasing(seen1) /\ Increasing(seen5)
    BY DEF OrderInv, ToldBy
  <2> QED
    BY <2>2, <2>3 DEF ToldOnceAfterStore
<1> QED
  BY <1>1, Types, Ordered, PTL

-----------------------------------------------------------------------------
(* The volume counter, while the exchange's runs. *)

\* What a tick carries is the exchange's counter at its time.
Counted(t) == t.vol = t.ts

Fed ==
  /\ \A i \in DOMAIN queue : Counted(queue[i])
  /\ ws # Idle => Counted(ws.tick)
  /\ worker.pc \in {"start", "insert"} => Counted(worker.tick)

\* The counter keeps the newest tick, and never saw the exchange's fall.
CounterOK(v) ==
  /\ v.known <=> v.key # NoTick
  /\ v.known => Counted(v.key)
  /\ ~v.known => v.base = v.first
  /\ v.reliable

\* The candle being built runs from the last one's end to the newest tick.
Segment(c, v) ==
  /\ v.known /\ MinuteOf(v.key.ts) = c.minute
  /\ c.base = v.base /\ c.max = v.key.vol /\ c.base <= c.max
  /\ c.done = 0 /\ c.reliable

\* Between candles the base is the newest tick, of a completed minute.
Between(v, e) == v.known => MinuteOf(v.key.ts) <= e /\ v.base = v.key.vol

VolumeInv ==
  zero = 0 =>
    /\ Fed /\ CounterOK(vol)
    /\ Building => Segment(active, vol)
    /\ ~Building /\ worker.pc # "done" => Between(vol, emitted)
    /\ sum = vol.base - vol.first

\* A tick of the candle's minute extends the segment or lies in it.
LEMMA Extends ==
  ASSUME NEW c \in Candle, NEW v \in Counter, NEW t \in Tick, Counted(t),
         CounterOK(v), v.known, c.base = v.base, c.base <= c.max, c.done = 0, c.reliable,
         c.max = v.key.vol
  PROVE  LET d == ApplyTick(c, v, t)
             w == Newest(v, t)
         IN  /\ CounterOK(w) /\ w.known /\ w.base = v.base /\ w.first = v.first
             /\ w.key \in {v.key, t} /\ w.key.ts >= t.ts
             /\ d.base = w.base /\ d.max = w.key.vol /\ d.base <= d.max
             /\ d.done = 0 /\ d.reliable /\ d.minute = c.minute
<1> DEFINE d == ApplyTick(c, v, t)
           w == Newest(v, t)
<1>1. /\ v.key \in Tick /\ v.key.vol = v.key.ts /\ t.vol = t.ts /\ v.key # NoTick
      /\ v.key.ts \in Nat /\ t.ts \in Nat /\ c.max \in Int /\ v.base \in Int /\ v.first \in Int
      /\ v.reliable
  BY DEF CounterOK, Counted, Counter, Rests, Tick, Candle
<1>2. ApplyVolume(c, v, t) = [c EXCEPT !.max = AtLeast(@, t.vol)]
  <2>1. Before(t, v.key) \/ ~(t.vol < v.key.vol)
    BY <1>1 DEF Before
  <2> QED
    BY <1>1, <2>1 DEF ApplyVolume
<1>3. /\ d.base = c.base /\ d.done = 0 /\ d.minute = c.minute
      /\ d.max = AtLeast(c.max, t.vol)
  BY <1>2 DEF ApplyTick, Candle
<1>4. d.reliable
  BY <1>2 DEF ApplyTick, Candle
<1>5. CASE Before(t, v.key)
  <2>1. w = v
    BY <1>1, <1>5 DEF Newest
  <2>2. t.ts <= v.key.ts
    BY <1>1, <1>5 DEF Before
  <2>3. d.max = v.key.vol
    BY <1>1, <1>3, <2>2 DEF AtLeast
  <2> QED
    BY <1>1, <1>3, <1>4, <2>1, <2>2, <2>3
<1>6. CASE ~Before(t, v.key)
  <2>1. w = [v EXCEPT !.key = t]
    BY <1>1, <1>6 DEF Newest
  <2>2. v.key.ts <= t.ts
    BY <1>1, <1>6 DEF Before
  <2>3. d.max = t.vol
    BY <1>1, <1>3, <2>2 DEF AtLeast
  <2>4. w.key = t /\ w.base = v.base /\ w.first = v.first
    BY <2>1 DEF Counter
  <2>5. w.known = v.known /\ w.reliable = v.reliable
    BY <2>1 DEF Counter
  <2>6. t # NoTick
    BY DEF Tick, NoTick
  <2>7. CounterOK(w)
    BY <1>1, <2>4, <2>5, <2>6 DEF CounterOK
  <2> QED
    BY <1>1, <1>3, <1>4, <2>2, <2>3, <2>4, <2>5, <2>7
<1> QED
  BY <1>5, <1>6

\* A tick of a new minute opens the next segment where the last one ended.
LEMMA Opens ==
  ASSUME TypeOK, CounterOK(vol), Between(vol, emitted), NEW t \in Tick, Counted(t),
         MinuteOf(t.ts) > emitted, NEW f \in BOOLEAN
  PROVE  LET v == VolumeState(t)
             w == Newest(v, t)
         IN  /\ CounterOK(w)
             /\ Segment(ApplyTick(Started(MinuteOf(t.ts), v, f), v, t), w)
             /\ w.base - w.first = vol.base - vol.first
<1> DEFINE v == VolumeState(t)
           w == Newest(v, t)
           m == MinuteOf(t.ts)
           c == Started(m, v, f)
           d == ApplyTick(c, v, t)
<1>1. v \in Counter /\ m \in Nat /\ vol \in Counter /\ emitted \in Int /\ t.ts \in Nat
      /\ t.vol = t.ts /\ t # NoTick
  BY CounterMade, Minutes DEF TypeOK, Counted, Tick, NoTick
<1>2. c \in Candle /\ c.minute = m /\ c.base = v.base /\ c.max = v.base /\ c.done = 0
  BY <1>1, StartedTyped DEF Started
<1>3. c.reliable
  BY DEF Started
<1>4. CASE vol.known
  <2>1. v = vol
    BY <1>4 DEF VolumeState
  <2>2. /\ vol.key \in Tick /\ vol.key # NoTick /\ vol.key.ts \in Nat
        /\ vol.key.vol = vol.key.ts /\ MinuteOf(vol.key.ts) <= emitted /\ vol.base = vol.key.vol
    BY <1>1, <1>4 DEF CounterOK, Between, Counter, Rests, Counted, Tick
  <2>3. MinuteOf(vol.key.ts) < MinuteOf(t.ts) /\ MinuteOf(vol.key.ts) \in Nat
    BY <1>1, <2>2, Minutes
  <2>4. vol.key.ts < t.ts
    BY <1>1, <2>2, <2>3, Minutes
  <2>5. c.base <= c.max /\ c.max = v.key.vol
    BY <1>2, <2>1, <2>2
  <2>6. /\ CounterOK(w) /\ w.known /\ w.base = v.base /\ w.first = v.first
        /\ w.key \in {v.key, t} /\ w.key.ts >= t.ts
        /\ d.base = w.base /\ d.max = w.key.vol /\ d.base <= d.max
        /\ d.done = 0 /\ d.reliable /\ d.minute = c.minute
    <3>1. v.known /\ CounterOK(v) /\ c.base = v.base /\ c.done = 0
      BY <1>2, <1>4, <2>1
    <3> HIDE DEF c, v
    <3> QED
      BY <1>1, <1>2, <1>3, <2>5, <3>1, Extends
  <2>7. w.key = t
    BY <1>1, <2>1, <2>2, <2>4, <2>6
  <2>8. Segment(d, w)
    BY <1>2, <2>6, <2>7 DEF Segment
  <2> QED
    BY <2>1, <2>6, <2>8
<1>5. CASE ~vol.known
  <2>1. v.key = NoTick /\ v.first = v.base /\ v.base \in {0, t.vol}
    BY <1>5 DEF VolumeState
  <2>2. v.known /\ v.reliable
    BY <1>5 DEF VolumeState
  <2>3. w = [v EXCEPT !.key = t]
    BY <2>1 DEF Newest
  <2>4. w.key = t /\ w.base = v.base /\ w.first = v.first /\ v.base \in Int
    BY <1>1, <2>3 DEF Counter
  <2>5. w.known = v.known /\ w.reliable = v.reliable
    BY <1>1, <2>3 DEF Counter
  <2>6. CounterOK(w)
    BY <1>1, <2>2, <2>4, <2>5 DEF CounterOK, Counted
  <2> HIDE DEF v, w, m
  <2>7. d = [[c EXCEPT !.max = AtLeast(@, t.vol)] EXCEPT !.ticks = @ \cup {t}]
    BY <2>1 DEF ApplyTick, ApplyVolume
  <2>8. d.base = v.base /\ d.done = 0 /\ d.minute = m /\ d.max = AtLeast(v.base, t.vol)
    BY <1>2, <2>7 DEF Candle
  <2>9. d.reliable
    BY <1>2, <1>3, <2>7 DEF Candle
  <2>10. d.max = t.vol /\ v.base <= t.vol
    BY <1>1, <2>1, <2>8 DEF AtLeast
  <2> HIDE DEF d
  <2>11. Segment(d, w)
    BY <2>2, <2>4, <2>5, <2>8, <2>9, <2>10 DEF Segment, m
  <2>12. w.base - w.first = 0 /\ vol.base - vol.first = 0
    BY <1>1, <1>5, <2>1, <2>4 DEF CounterOK, Counter
  <2> QED
    BY <2>6, <2>11, <2>12 DEF d, w, v, c, m
<1> QED
  BY <1>4, <1>5

\* A completed segment is what was counted since the last candle.
LEMMA Completes ==
  ASSUME TypeOK, CounterOK(vol), Segment(active, vol), Finalized
  PROVE  /\ Volume(active) = vol.key.vol - vol.base
         /\ CounterOK(vol') /\ Between(vol', emitted')
         /\ vol'.base = vol.key.vol /\ vol'.first = vol.first
<1>1. /\ active \in Candle /\ vol \in Counter /\ vol.key \in Tick /\ vol.key.vol = vol.key.ts
      /\ vol.base \in Int /\ vol.key.vol \in Int
  BY DEF TypeOK, CounterOK, Segment, Counted, Counter, Rests, Tick
<1>2. Volume(active) = vol.key.vol - vol.base
  BY <1>1 DEF Segment, Volume, AtLeast
<1>3. vol' = [vol EXCEPT !.base = vol.key.vol, !.reliable = vol.reliable /\ active.reliable]
      /\ emitted' = active.minute
  BY DEF Finalized
<1>4. vol'.base = vol.key.vol /\ vol'.key = vol.key /\ vol'.first = vol.first
  BY <1>1, <1>3 DEF Counter
<1>5. vol'.known = vol.known
  BY <1>1, <1>3 DEF Counter
<1>6. vol'.reliable
  <2>1. vol'.reliable = (vol.reliable /\ active.reliable)
    BY <1>1, <1>3 DEF Counter
  <2> QED
    BY <2>1, Zenon DEF CounterOK, Segment
<1>7. vol.known
  BY DEF Segment
<1>8. CounterOK(vol')
  BY <1>4, <1>5, <1>6, <1>7 DEF CounterOK
<1>9. Between(vol', emitted')
  <2>1. MinuteOf(vol'.key.ts) = emitted' /\ emitted' \in Int
    BY <1>1, <1>3, <1>4 DEF Segment, Candle
  <2> QED
    BY <1>4, <2>1 DEF Between
<1> QED
  BY <1>2, <1>4, <1>8, <1>9

\* The exchange's counter does not come back to one that never restarted.
LEMMA NeverBack ==
  ASSUME TypeOK, [Next]_vars, zero' = 0
  PROVE  zero = 0
<1>1. zero' = zero \/ zero' = clock
  BY DEF Next, vars, WsTick, WsRestores, WsRestoreFails, WsClose, WsGivesUp, HealthCheck,
         HealthTransition, HealthCallback, WorkerSkips, WorkerDrops, WorkerAdds, WorkerFinishes,
         WorkerBegins, WorkerStarts, WorkerInserts, WorkerExits, Stop, Join, Flush, Exit, Crash,
         Restart, TimePasses, CounterRestarts
<1> QED
  BY <1>1 DEF TypeOK

\* What is queued carries the exchange's counter.
LEMMA FedStays ==
  ASSUME TypeOK, [Next]_vars, Fed, zero = 0
  PROVE  Fed'
<1>0. queue \in Seq(Tick) /\ worker \in Work
  BY DEF TypeOK
<1>t. ASSUME queue # <<>>, queue' = Tail(queue)
      PROVE  (\A i \in DOMAIN queue' : Counted(queue'[i])) /\ Counted(Head(queue))
  BY <1>0, <1>t DEF Fed
<1>a. ASSUME NEW t \in Tick, Counted(t), queue' = Append(queue, t)
      PROVE  \A i \in DOMAIN queue' : Counted(queue'[i])
  BY <1>0, <1>a DEF Fed
<1>1. CASE WsTick
  <2>1. PICK t \in Tick : /\ zero = 0 => t.vol = t.ts
                          /\ \/ UNCHANGED <<queue, ws>>
                             \/ ws' = [tick |-> t, at |-> clock + 1] /\ UNCHANGED queue
                             \/ queue' = Append(queue, t) /\ UNCHANGED ws
    BY <1>1, HowItReceives
  <2>2. Counted(t) /\ worker' = worker
    BY <1>1, <2>1 DEF Counted, WsTick
  <2>3. \A i \in DOMAIN queue' : Counted(queue'[i])
    BY <1>a, <2>1, <2>2 DEF Fed
  <2>4. ws' # Idle => Counted(ws'.tick)
    BY <2>1, <2>2 DEF Fed
  <2> QED
    BY <2>2, <2>3, <2>4 DEF Fed
<1>2. CASE WsRestores
  <2>1. ws.tick \in Tick /\ queue' = Append(queue, ws.tick) /\ ws' = Idle /\ worker' = worker
        /\ Counted(ws.tick)
    BY <1>2 DEF WsRestores, TypeOK, Fed
  <2>2. \A i \in DOMAIN queue' : Counted(queue'[i])
    BY <1>a, <2>1
  <2> QED
    BY <2>1, <2>2 DEF Fed
<1>3. CASE WsRestoreFails
  BY <1>3 DEF WsRestoreFails, Fed
<1>4. CASE WorkerSkips \/ WorkerDrops \/ WorkerAdds
  <2>1. queue # <<>> /\ queue' = Tail(queue) /\ UNCHANGED <<ws, worker>>
    BY <1>4 DEF WorkerSkips, WorkerDrops, WorkerAdds, Taken
  <2> QED
    BY <1>t, <2>1 DEF Fed
<1>5. CASE WorkerFinishes
  <2> DEFINE t == Head(queue)
  <2>1. queue # <<>> /\ queue' = Tail(queue) /\ UNCHANGED ws /\ worker.pc = "run"
    BY <1>5 DEF WorkerFinishes, Taken
  <2>2. \/ worker' = [worker EXCEPT !.pc = "start", !.tick = t]
        \/ worker' = [worker EXCEPT !.pc = "done"]
        \/ worker' = worker
    BY <1>5 DEF WorkerFinishes
  <2>3. worker'.tick = t \/ worker'.pc \notin {"start", "insert"}
    BY <1>0, <2>1, <2>2 DEF Work
  <2> QED
    BY <1>t, <2>1, <2>3 DEF Fed
<1>6. CASE WorkerBegins
  <2>1. queue # <<>> /\ queue' = Tail(queue) /\ UNCHANGED ws /\ worker'.tick = Head(queue)
    BY <1>6 DEF WorkerBegins, Taken, Reads
  <2> QED
    BY <1>t, <2>1 DEF Fed
<1>7. CASE WorkerStarts
  <2>1. UNCHANGED <<queue, ws>> /\ worker'.tick = worker.tick /\ Counted(worker.tick)
    BY <1>7 DEF WorkerStarts, Reads, Fed
  <2> QED
    BY <2>1 DEF Fed
<1>8. CASE WorkerInserts \/ WorkerExits
  <2>1. UNCHANGED <<queue, ws>> /\ worker'.pc \in {"run", "done"}
    BY <1>0, <1>8 DEF WorkerInserts, WorkerExits, Running, Work
  <2> QED
    BY <2>1 DEF Fed
<1>9. CASE Exit \/ Crash
  BY <1>9 DEF Exit, Crash, Forgotten, Fed, Running
<1>10. CASE WsClose \/ WsGivesUp \/ HealthCheck \/ HealthTransition \/ HealthCallback \/ Stop
  BY <1>10 DEF WsClose, WsGivesUp, HealthCheck, HealthTransition, HealthCallback, Stop, Fed
<1>11. CASE Join \/ Flush \/ Restart \/ TimePasses \/ CounterRestarts \/ UNCHANGED vars
  BY <1>11 DEF Join, Flush, Restart, TimePasses, CounterRestarts, vars, Fed
<1> QED
  BY <1>1, <1>2, <1>3, <1>4, <1>5, <1>6, <1>7, <1>8, <1>9, <1>10, <1>11 DEF Next

\* The counter, the candle and the sum agree.
LEMMA Adding == Spec => []VolumeInv
<1>1. Init => VolumeInv
  <2> SUFFICES ASSUME Init PROVE VolumeInv
    OBVIOUS
  <2>1. /\ queue = <<>> /\ ws = Idle /\ worker = Running /\ active = NoCandle /\ vol = NoVolume
        /\ sum = 0
    BY DEF Init
  <2>2. Fed /\ ~Building
    BY <2>1 DEF Fed, Running, Building, NoCandle
  <2>3. CounterOK(vol) /\ Between(vol, emitted) /\ sum = vol.base - vol.first
    BY <2>1 DEF CounterOK, Between, NoVolume
  <2> QED
    BY <2>2, <2>3 DEF VolumeInv
<1>2. TypeOK /\ OrderInv /\ VolumeInv /\ [Next]_vars => VolumeInv'
  <2> SUFFICES ASSUME TypeOK, OrderInv, VolumeInv, [Next]_vars, zero' = 0
               PROVE  /\ Fed' /\ CounterOK(vol')
                      /\ Building' => Segment(active', vol')
                      /\ ~Building' /\ worker'.pc # "done" => Between(vol', emitted')
                      /\ sum' = vol'.base - vol'.first
    BY DEF VolumeInv
  <2>z. zero = 0
    BY NeverBack
  <2>i. /\ Fed /\ CounterOK(vol)
        /\ Building => Segment(active, vol)
        /\ ~Building /\ worker.pc # "done" => Between(vol, emitted)
        /\ sum = vol.base - vol.first
    BY <2>z DEF VolumeInv
  <2>0. /\ active \in Candle /\ emitted \in Int /\ worker \in Work /\ vol \in Counter
        /\ queue \in Seq(Tick) /\ clock \in Nat /\ sum \in Int
        /\ worker.pc \in {"start", "insert"} => worker.tick \in Tick
    BY CandleAssumption DEF TypeOK, EndTime
  <2>f. Fed'
    BY <2>z, <2>i, FedStays
  <2>1. CASE /\ UNCHANGED <<worker, vol, emitted, store>>
             /\ active' = active \/ active' = [active EXCEPT !.full = FALSE]
    <3>1. /\ active'.minute = active.minute /\ active'.base = active.base
          /\ active'.max = active.max /\ active'.done = active.done
      BY <2>0, <2>1 DEF Candle
    <3>2. active'.reliable = active.reliable
      BY <2>0, <2>1 DEF Candle
    <3>3. Segment(active, vol) => Segment(active', vol)
      BY <3>1, <3>2 DEF Segment
    <3> QED
      BY <2>f, <2>i, <2>1, <3>1, <3>3 DEF Building, store
  <2>2. CASE WorkerAdds
    <3> DEFINE t == Head(queue)
    <3>1. /\ t \in Tick /\ Counted(t) /\ Building /\ MinuteOf(t.ts) = active.minute
          /\ active' = ApplyTick(active, vol, t) /\ vol' = Newest(vol, t)
          /\ UNCHANGED <<worker, emitted, sum>>
      <4>1. queue # <<>>
        BY <2>2 DEF WorkerAdds, Taken
      <4>2. t \in Tick /\ Counted(t)
        BY <2>0, <2>i, <4>1 DEF Fed
      <4> QED
        BY <2>2, <4>2 DEF WorkerAdds, store
    <3>2. Segment(active, vol)
      BY <2>i, <3>1
    <3> HIDE DEF t
    <3>3. /\ CounterOK(vol') /\ vol'.known /\ vol'.base = vol.base /\ vol'.first = vol.first
          /\ vol'.key \in {vol.key, t}
          /\ active'.base = vol'.base /\ active'.max = vol'.key.vol /\ active'.base <= active'.max
          /\ active'.done = 0 /\ active'.reliable /\ active'.minute = active.minute
      <4>1. /\ vol.known /\ active.base = vol.base /\ active.base <= active.max
            /\ active.done = 0 /\ active.reliable /\ active.max = vol.key.vol
        BY <3>2 DEF Segment
      <4> QED
        BY <2>0, <2>i, <3>1, <4>1, Extends
    <3>4. MinuteOf(vol'.key.ts) = active'.minute
      BY <3>1, <3>2, <3>3 DEF Segment
    <3>5. Segment(active', vol')
      BY <3>3, <3>4 DEF Segment
    <3>6. Building'
      BY <3>1, <3>3 DEF Building
    <3> QED
      BY <2>f, <2>i, <3>1, <3>3, <3>5, <3>6
  <2>3. CASE WorkerFinishes
    <3> DEFINE t == Head(queue)
               c == Completed(active, "minute_transition", MinuteOf(t.ts))
    <3>1. t \in Tick /\ Building /\ worker.pc = "run"
      BY <2>0, <2>3 DEF WorkerFinishes, Taken
    <3>2. c.volume = Volume(active) /\ Segment(active, vol)
      BY <2>i, <3>1 DEF Completed
    <3>3. \/ EmitOk(c) /\ Finalized
          \/ /\ EmitFatal(c) /\ active' = NoCandle /\ worker' = [worker EXCEPT !.pc = "done"]
             /\ UNCHANGED <<vol, emitted>>
          \/ EmitError(c) /\ UNCHANGED <<active, vol, emitted, worker>>
      BY <2>3 DEF WorkerFinishes
    <3> HIDE DEF c, t
    <3>4. CASE EmitOk(c) /\ Finalized
      <4>1. sum' = sum + c.volume /\ ~Building'
        BY <3>4 DEF EmitOk, Finalized, Building, NoCandle
      <4>2. /\ Volume(active) = vol.key.vol - vol.base
            /\ CounterOK(vol') /\ Between(vol', emitted')
            /\ vol'.base = vol.key.vol /\ vol'.first = vol.first
        BY <2>i, <3>2, <3>4, Completes
      <4>3. vol.key.vol \in Int /\ vol.base \in Int /\ vol.first \in Int
        BY <2>0 DEF Counter, Rests, Tick, NoTick
      <4>4. sum' = vol'.base - vol'.first
        BY <2>0, <2>i, <3>2, <4>1, <4>2, <4>3
      <4> QED
        BY <2>f, <4>1, <4>2, <4>4
    <3>5. CASE /\ EmitFatal(c) /\ active' = NoCandle /\ worker' = [worker EXCEPT !.pc = "done"]
               /\ UNCHANGED <<vol, emitted>>
      <4>1. sum' = sum /\ ~Building' /\ worker'.pc = "done"
        BY <2>0, <3>5 DEF EmitFatal, store, Building, NoCandle, Work
      <4> QED
        BY <2>f, <2>i, <3>5, <4>1
    <3>6. CASE EmitError(c) /\ UNCHANGED <<active, vol, emitted, worker>>
      <4>1. sum' = sum /\ (Building' <=> Building)
        BY <3>6 DEF EmitError, Building
      <4> QED
        BY <2>f, <2>i, <3>6, <4>1
    <3> QED
      BY <3>3, <3>4, <3>5, <3>6
  <2>4. CASE (\E t \in Tick : Begins(t)) /\ UNCHANGED <<builder, store>>
    <3>1. UNCHANGED <<active, vol, emitted, sum>> /\ worker.pc # "done"
      BY <2>4 DEF builder, store, Begins
    <3>2. Building' <=> Building
      BY <3>1 DEF Building
    <3> QED
      BY <2>f, <2>i, <3>1, <3>2
  <2>5. CASE WorkerInserts
    <3> DEFINE t == worker.tick
               v == VolumeState(t)
    <3>1. /\ t \in Tick /\ worker.full \in BOOLEAN /\ MinuteOf(t.ts) > emitted /\ Counted(t)
          /\ ~Building /\ worker.pc # "done"
      BY <2>0, <2>i, <2>5 DEF WorkerInserts, Work, OrderInv, Fed
    <3>2. /\ active' = ApplyTick(Started(MinuteOf(t.ts), v, worker.full), v, t)
          /\ vol' = Newest(v, t) /\ sum' = sum
      BY <2>5 DEF WorkerInserts, store
    <3>3. CounterOK(vol') /\ Segment(active', vol')
          /\ vol'.base - vol'.first = vol.base - vol.first
      BY <2>i, <3>1, <3>2, Opens
    <3>4. MinuteOf(t.ts) \in Nat /\ v \in Counter
      BY <2>0, <3>1, CounterMade, Minutes DEF Tick
    <3>5. active'.minute = MinuteOf(t.ts)
      <4> DEFINE c == Started(MinuteOf(t.ts), v, worker.full)
      <4>1. c \in Candle /\ c.minute = MinuteOf(t.ts)
        BY <3>1, <3>4, StartedTyped
      <4> HIDE DEF c, v
      <4> QED
        BY <3>1, <3>2, <3>4, <4>1, Applied DEF c
    <3>6. Building'
      BY <3>4, <3>5 DEF Building
    <3> HIDE DEF v, t
    <3> QED
      BY <2>f, <2>i, <3>2, <3>3, <3>6
  <2>6. CASE WorkerExits
    <3>1. UNCHANGED <<active, vol, emitted, sum>> /\ worker'.pc = "done"
      BY <2>0, <2>6 DEF WorkerExits, builder, store, Work
    <3>2. Building' <=> Building
      BY <3>1 DEF Building
    <3> QED
      BY <2>f, <2>i, <3>1, <3>2
  <2>7. CASE Flush
    <3> DEFINE c == Completed(active, FlushReason, clock)
    <3>1. Building /\ UNCHANGED worker /\ worker.pc = "done"
      BY <2>7 DEF Flush, OrderInv
    <3>2. c.volume = Volume(active) /\ Segment(active, vol)
      BY <2>i, <3>1 DEF Completed
    <3>3. \/ EmitOk(c) /\ Finalized
          \/ (EmitFatal(c) \/ EmitError(c)) /\ UNCHANGED <<active, vol, emitted>>
      BY <2>7 DEF Flush
    <3> HIDE DEF c
    <3>4. CASE EmitOk(c) /\ Finalized
      <4>1. sum' = sum + c.volume /\ ~Building'
        BY <3>4 DEF EmitOk, Finalized, Building, NoCandle
      <4>2. /\ Volume(active) = vol.key.vol - vol.base
            /\ CounterOK(vol') /\ Between(vol', emitted')
            /\ vol'.base = vol.key.vol /\ vol'.first = vol.first
        BY <2>i, <3>2, <3>4, Completes
      <4>3. vol.key.vol \in Int /\ vol.base \in Int /\ vol.first \in Int
        BY <2>0 DEF Counter, Rests, Tick, NoTick
      <4>4. sum' = vol'.base - vol'.first
        BY <2>0, <2>i, <3>2, <4>1, <4>2, <4>3
      <4> QED
        BY <2>f, <4>1, <4>2, <4>4
    <3>5. CASE (EmitFatal(c) \/ EmitError(c)) /\ UNCHANGED <<active, vol, emitted>>
      <4>1. sum' = sum /\ (Building' <=> Building)
        BY <3>5 DEF EmitFatal, EmitError, store, Building
      <4> QED
        BY <2>f, <2>i, <3>1, <3>5, <4>1
    <3> QED
      BY <3>3, <3>4, <3>5
  <2>8. CASE Forgotten /\ UNCHANGED <<rows1, rows5>>
    <3>1. active' = NoCandle /\ vol' = NoVolume /\ sum' = 0
      BY <2>8 DEF Forgotten
    <3>2. ~Building' /\ CounterOK(vol') /\ Between(vol', emitted') /\ sum' = vol'.base - vol'.first
      BY <3>1 DEF Building, NoCandle, CounterOK, Between, NoVolume
    <3> QED
      BY <2>f, <3>2
  <2> QED
    BY <2>1, <2>2, <2>3, <2>4, <2>5, <2>6, <2>7, <2>8, HowItBuilds
<1> QED
  BY <1>1, <1>2, Types, Ordered, PTL DEF Spec

\* The volume of a process's candles is what the exchange counted from the
\* first tick it saw to the end of the last candle, whatever order ticks came
\* in and whichever were dropped: while the exchange's counter runs, nothing
\* traded is counted twice or falls between two candles.
THEOREM VolumeCounted == Spec => []VolumeAddsUp
<1>1. VolumeInv => VolumeAddsUp
  BY DEF VolumeInv, VolumeAddsUp, CounterOK
<1> QED
  BY <1>1, Adding, PTL

-----------------------------------------------------------------------------
(* The minutes a bucket spans. *)

\* A minute lies in its bucket.
LEMMA BucketSpans ==
  ASSUME NEW m \in Nat, InSession(m)
  PROVE  BucketOf(m) \in Nat /\ m \in BucketOf(m) .. BucketOf(m) + BucketSize - 1
BY CandleAssumption DEF InSession, BucketOf

Spans(b) == b.minute .. b.minute + BucketSize - 1

\* A minute has one row, and every minute of a stored bucket has one.
BucketInv ==
  /\ \A c, d \in rows1 : c.minute = d.minute => c = d
  /\ \A c \in rows1 : InSession(c.minute)
  /\ \A b \in rows5 : \A m \in Spans(b) : \E c \in rows1 : c.minute = m
  /\ BucketsMatchMinutes

\* As many rows of a bucket's minutes as it has minutes are a row for each.
LEMMA FullSpans ==
  ASSUME NEW b, IsFiniteSet(b), NEW k \in Nat, Cardinality(b) >= BucketSize,
         \A c \in b : c.minute \in k .. k + BucketSize - 1,
         \A c, d \in b : c.minute = d.minute => c = d
  PROVE  \A m \in k .. k + BucketSize - 1 : \E c \in b : c.minute = m
<1> DEFINE T == k .. k + BucketSize - 1
           f == [c \in b |-> c.minute]
<1>1. IsFiniteSet(T) /\ Cardinality(T) = BucketSize
  <2>1. PICK l \in Int : l = k + BucketSize - 1 /\ l >= k /\ l - k + 1 = BucketSize
    BY CandleAssumption
  <2>2. IsFiniteSet(k .. l) /\ Cardinality(k .. l) = IF k > l THEN 0 ELSE l - k + 1
    BY FS_Interval
  <2>3. ~(k > l) /\ T = k .. l
    BY <2>1
  <2> QED
    BY <2>1, <2>2, <2>3
<1>2. f \in Injection(b, T)
  <2>1. f \in [b -> T]
    OBVIOUS
  <2>2. \A c, d \in b : f[c] = f[d] => c = d
    OBVIOUS
  <2> HIDE DEF f, T
  <2> QED
    BY <2>1, <2>2 DEF Injection, IsInjective
<1>3. Cardinality(b) <= Cardinality(T) /\ Cardinality(b) \in Nat
  BY <1>1, <1>2, FS_Injection, FS_CardinalityType
<1>4. Cardinality(b) = Cardinality(T)
  BY <1>1, <1>3, CandleAssumption
<1>5. f \in Surjection(b, T)
  BY <1>1, <1>2, <1>4, FS_Injection
<1> QED
  BY <1>5 DEF Surjection

\* A candle stored keeps what the stored buckets say of their minutes, and a
\* bucket stored with it says it of its own.
LEMMA BucketsStay ==
  ASSUME TypeOK, BucketInv, NEW c \in Row, EmitOk(c) \/ EmitFatal(c) \/ EmitError(c)
  PROVE  BucketInv'
<1>0. /\ rows1 \subseteq Row /\ buffer \subseteq rows1 /\ \A b \in rows5 : b.minute \in Nat
      /\ \A d \in Row : d.minute \in Nat
  BY DEF TypeOK, Row
<1>1. CASE UNCHANGED store
  BY <1>1 DEF store, BucketInv, BucketsMatchMinutes
<1>2. CASE Valid1(c) /\ ~Collides(c, rows1) /\ rows1' = rows1 \cup {c}
  <2>1. InSession(c.minute) /\ \A x \in rows1 : x.minute = c.minute => x = c
    BY <1>2 DEF Valid1, Collides
  <2>2. \A x, y \in rows1' : x.minute = y.minute => x = y
    BY <1>2, <2>1 DEF BucketInv
  <2>3. \A x \in rows1' : InSession(x.minute) /\ x.minute \in Nat
    BY <1>0, <1>2, <2>1 DEF BucketInv
  <2>4. ASSUME NEW b \in rows5
        PROVE  /\ \A m \in Spans(b) : \E x \in rows1' : x.minute = m
               /\ b = Aggregate({x \in rows1' : BucketOf(x.minute) = b.minute})
    <3>1. \A m \in Spans(b) : \E x \in rows1 : x.minute = m
      BY DEF BucketInv
    <3>2. BucketOf(c.minute) = b.minute => c \in rows1
      <4> SUFFICES ASSUME BucketOf(c.minute) = b.minute PROVE c \in rows1
        OBVIOUS
      <4>1. c.minute \in Spans(b)
        BY <1>0, <2>1, BucketSpans DEF Spans
      <4> QED
        BY <2>1, <3>1, <4>1
    <3>3. {x \in rows1' : BucketOf(x.minute) = b.minute}
            = {x \in rows1 : BucketOf(x.minute) = b.minute}
      BY <1>2, <3>2
    <3>4. b = Aggregate({x \in rows1 : BucketOf(x.minute) = b.minute})
      BY DEF BucketInv, BucketsMatchMinutes
    <3> QED
      BY <1>2, <3>1, <3>3, <3>4
  <2>5. CASE rows5' = rows5
    <3>1. BucketsMatchMinutes'
      BY <2>4, <2>5 DEF BucketsMatchMinutes
    <3> QED
      BY <2>2, <2>3, <2>4, <2>5, <3>1 DEF BucketInv, Spans
  <2>6. CASE /\ FullBucket(Buffered(c)) /\ Valid5(Aggregate(Buffered(c)))
             /\ rows5' = rows5 \cup {Aggregate(Buffered(c))}
    <3> DEFINE b == Buffered(c)
               a == Aggregate(b)
    <3>1. /\ b \subseteq rows1' /\ IsFiniteSet(b) /\ a.minute \in Nat
          /\ \E d \in b : a.minute = d.minute
      BY <1>0, <1>2, BufferedTyped
    <3>2. \A d \in b : BucketOf(d.minute) = BucketOf(c.minute)
      BY DEF Buffered
    <3>3. BucketOf(a.minute) = a.minute /\ Cardinality(b) >= BucketSize
      BY <2>6 DEF Valid5, FullBucket
    <3> HIDE DEF b, a
    <3>4. \A d \in b : BucketOf(d.minute) = a.minute
      BY <3>1, <3>2, <3>3
    <3>5. \A d \in b : d.minute \in Spans(a)
      BY <2>3, <3>1, <3>4, BucketSpans DEF Spans
    <3>6. \A m \in Spans(a) : \E d \in b : d.minute = m
      BY <2>2, <3>1, <3>3, <3>5, FullSpans DEF Spans
    <3>7. {x \in rows1' : BucketOf(x.minute) = a.minute} = b
      <4>1. ASSUME NEW x \in rows1', BucketOf(x.minute) = a.minute PROVE x \in b
        <5>1. x.minute \in Spans(a)
          BY <2>3, <4>1, BucketSpans DEF Spans
        <5>2. PICK d \in b : d.minute = x.minute
          BY <3>6, <5>1
        <5> QED
          BY <2>2, <3>1, <5>2
      <4> QED
        BY <3>1, <3>4, <4>1
    <3>8. a = Aggregate({x \in rows1' : BucketOf(x.minute) = a.minute})
      BY <3>7 DEF a
    <3>9. rows5' = rows5 \cup {a}
      BY <2>6 DEF a, b
    <3>10. BucketsMatchMinutes'
      BY <2>4, <3>8, <3>9 DEF BucketsMatchMinutes
    <3>11. \A x \in rows5' : \A m \in Spans(x) : \E y \in rows1' : y.minute = m
      BY <2>4, <3>1, <3>6, <3>9
    <3> QED
      BY <2>2, <2>3, <3>10, <3>11 DEF BucketInv, Spans
  <2>7. rows5' = rows5 \/ /\ FullBucket(Buffered(c)) /\ Valid5(Aggregate(Buffered(c)))
                          /\ rows5' = rows5 \cup {Aggregate(Buffered(c))}
    BY HowItStores DEF store
  <2> QED
    BY <2>5, <2>6, <2>7
<1> QED
  BY <1>1, <1>2, HowItStores

\* A stored bucket is the roll-up of the stored minutes of its span, all of
\* them: no later minute, conflict, restart or failed write can make it stale.
THEOREM BucketsRollUp == Spec => []BucketsMatchMinutes
<1>1. Init => BucketInv
  BY DEF Init, BucketInv, BucketsMatchMinutes
<1>2. TypeOK /\ BucketInv /\ [Next]_vars => BucketInv'
  <2> SUFFICES ASSUME TypeOK, BucketInv, [Next]_vars PROVE BucketInv'
    OBVIOUS
  <2>0. active \in Candle /\ clock \in Nat /\ queue \in Seq(Tick)
    BY CandleAssumption DEF TypeOK, EndTime
  <2>1. UNCHANGED <<rows1, rows5>> => BucketInv'
    BY DEF BucketInv, BucketsMatchMinutes, Spans
  <2>2. CASE WorkerFinishes
    <3> DEFINE t == Head(queue)
               c == Completed(active, "minute_transition", MinuteOf(t.ts))
    <3>1. t \in Tick /\ Building
      BY <2>0, <2>2 DEF WorkerFinishes, Taken
    <3>2. MinuteOf(t.ts) \in Nat
      BY <3>1, Minutes DEF Tick
    <3>3. c \in Row
      BY <2>0, <3>1, <3>2, CompletedTyped
    <3>4. EmitOk(c) \/ EmitFatal(c) \/ EmitError(c)
      BY <2>2 DEF WorkerFinishes
    <3> HIDE DEF c
    <3> QED
      BY <3>3, <3>4, BucketsStay
  <2>3. CASE Flush
    <3> DEFINE c == Completed(active, FlushReason, clock)
    <3>1. Building /\ FlushReason \in {"minute_transition", "session_end", "shutdown_flush"}
      BY <2>3 DEF Flush, FlushReason
    <3>2. c \in Row
      BY <2>0, <3>1, CompletedTyped
    <3>3. EmitOk(c) \/ EmitFatal(c) \/ EmitError(c)
      BY <2>3 DEF Flush
    <3> HIDE DEF c
    <3> QED
      BY <3>2, <3>3, BucketsStay
  <2>4. CASE UNCHANGED store \/ WorkerAdds \/ WorkerInserts \/ WorkerExits
             \/ (Forgotten /\ UNCHANGED <<rows1, rows5>>)
    BY <2>1, <2>4 DEF store, WorkerAdds, WorkerInserts, WorkerExits
  <2> QED
    BY <2>2, <2>3, <2>4, HowItBuilds DEF store
<1>3. BucketInv => BucketsMatchMinutes
  BY DEF BucketInv
<1> QED
  BY <1>1, <1>2, <1>3, Types, PTL DEF Spec

-----------------------------------------------------------------------------
(* Coverage, unless a thread is overtaken where Prompt says it is not. *)

\* The ticks the worker has still to build from.
Queued ==
  {queue[i] : i \in DOMAIN queue} \cup
  (IF worker.pc \in {"start", "insert"} THEN {worker.tick} ELSE {})

\* What the receiver's state and the restoring thread say of the outages: all
\* of them, and all ticks in hand, are of minutes before the one restored.
FeedInv ==
  /\ \A g \in gaps : g <= clock
  /\ \A t \in Queued : MinuteOf(t.ts) <= clock
  /\ recv.stop => recv.state = "STOPPED"
  /\ main \in {"joined", "flushed"} => recv.state = "STOPPED"
  /\ recv.state = "RESTORING" => ws # Idle /\ \A g \in gaps : g < ws.at
  /\ ws # Idle =>
       /\ recv.state \in {"RESTORING", "STOPPED"} /\ ws.at <= clock + 1
       /\ \A t \in Queued \cup {ws.tick} : MinuteOf(t.ts) < ws.at
  /\ health = "callback" => recv.state = "STALE" /\ worker.pc # "insert"

\* The worker takes ticks, and the websocket thread adds them.
LEMMA QueuedGrows ==
  ASSUME TypeOK, [Next]_vars
  PROVE  \/ Queued' \subseteq Queued
         \/ /\ WsTick /\ recv.state = "HEALTHY" /\ recv'.state = "HEALTHY"
            /\ \E t \in Tick : MinuteOf(t.ts) <= clock /\ Queued' \subseteq Queued \cup {t}
            /\ Len(queue') > Len(queue)
         \/ /\ WsRestores /\ Queued' \subseteq Queued \cup {ws.tick}
            /\ Len(queue') > Len(queue)
<1>0. queue \in Seq(Tick) /\ worker \in Work /\ recv \in Receiver
  BY DEF TypeOK
<1>t. ASSUME queue # <<>>, queue' = Tail(queue)
      PROVE  /\ {queue'[i] : i \in DOMAIN queue'} \subseteq {queue[i] : i \in DOMAIN queue}
             /\ Head(queue) \in {queue[i] : i \in DOMAIN queue}
  BY <1>0, <1>t
<1>a. ASSUME NEW t \in Tick, queue' = Append(queue, t), worker' = worker
      PROVE  Queued' \subseteq Queued \cup {t} /\ Len(queue') > Len(queue)
  <2>1. {queue'[i] : i \in DOMAIN queue'} \subseteq {queue[i] : i \in DOMAIN queue} \cup {t}
    BY <1>0, <1>a
  <2> QED
    BY <1>0, <1>a, <2>1 DEF Queued
<1>u. ASSUME UNCHANGED <<queue, worker>> PROVE Queued' \subseteq Queued
  BY <1>u DEF Queued
<1>1. CASE WsTick
  <2>1. worker' = worker
    BY <1>1 DEF WsTick
  <2>2. PICK t \in Tick :
          /\ MinuteOf(t.ts) <= clock
          /\ \/ UNCHANGED queue
             \/ /\ recv.state = "HEALTHY" /\ queue' = Append(queue, t)
                /\ recv' = [recv EXCEPT !.seq = @ + 1, !.last = clock]
    BY <1>1, HowItReceives
  <2>3. CASE UNCHANGED queue
    BY <1>u, <2>1, <2>3
  <2>4. CASE /\ recv.state = "HEALTHY" /\ queue' = Append(queue, t)
             /\ recv' = [recv EXCEPT !.seq = @ + 1, !.last = clock]
    <3>1. recv'.state = "HEALTHY"
      BY <1>0, <2>4 DEF Receiver
    <3> QED
      BY <1>1, <1>a, <2>1, <2>2, <2>4, <3>1
  <2> QED
    BY <2>2, <2>3, <2>4
<1>2. CASE WsRestores
  <2>1. ws.tick \in Tick /\ queue' = Append(queue, ws.tick) /\ worker' = worker
    BY <1>2 DEF WsRestores, TypeOK
  <2> QED
    BY <1>a, <1>2, <2>1
<1>3. CASE WorkerSkips \/ WorkerDrops \/ WorkerAdds
  <2>1. queue # <<>> /\ queue' = Tail(queue) /\ UNCHANGED worker
    BY <1>3 DEF WorkerSkips, WorkerDrops, WorkerAdds, Taken
  <2> QED
    BY <1>t, <2>1 DEF Queued
<1>4. CASE WorkerFinishes
  <2> DEFINE t == Head(queue)
  <2>1. queue # <<>> /\ queue' = Tail(queue) /\ worker.pc = "run"
    BY <1>4 DEF WorkerFinishes, Taken
  <2>2. \/ worker' = [worker EXCEPT !.pc = "start", !.tick = t]
        \/ worker' = [worker EXCEPT !.pc = "done"]
        \/ worker' = worker
    BY <1>4 DEF WorkerFinishes
  <2>3. worker'.tick = t \/ worker'.pc \notin {"start", "insert"}
    BY <1>0, <2>1, <2>2 DEF Work
  <2> QED
    BY <1>t, <2>1, <2>3 DEF Queued
<1>5. CASE WorkerBegins
  <2>1. queue # <<>> /\ queue' = Tail(queue) /\ worker'.tick = Head(queue)
    BY <1>5 DEF WorkerBegins, Taken, Reads
  <2> QED
    BY <1>t, <2>1 DEF Queued
<1>6. CASE WorkerStarts
  <2>1. UNCHANGED queue /\ worker'.tick = worker.tick /\ worker.pc = "start"
    BY <1>6 DEF WorkerStarts, Reads
  <2> QED
    BY <2>1 DEF Queued
<1>7. CASE WorkerInserts \/ WorkerExits
  <2>1. UNCHANGED queue /\ worker'.pc \in {"run", "done"}
    BY <1>0, <1>7 DEF WorkerInserts, WorkerExits, Running, Work
  <2> QED
    BY <2>1 DEF Queued
<1>8. CASE Exit \/ Crash
  <2>1. queue' = <<>> /\ worker'.pc = "run"
    BY <1>8 DEF Exit, Crash, Forgotten, Running
  <2> QED
    BY <2>1 DEF Queued
<1>9. CASE WsRestoreFails \/ WsClose \/ WsGivesUp \/ HealthCheck \/ HealthTransition
           \/ HealthCallback \/ Stop
  BY <1>u, <1>9 DEF WsRestoreFails, WsClose, WsGivesUp, HealthCheck, HealthTransition,
                    HealthCallback, Stop
<1>10. CASE Join \/ Flush \/ Restart \/ TimePasses \/ CounterRestarts \/ UNCHANGED vars
  BY <1>u, <1>10 DEF Join, Flush, Restart, TimePasses, CounterRestarts, vars
<1> QED
  BY <1>1, <1>2, <1>3, <1>4, <1>5, <1>6, <1>7, <1>8, <1>9, <1>10 DEF Next

\* An outage is recorded when it is, and none while the feed runs.
LEMMA GapsGrow ==
  ASSUME TypeOK, [Next]_vars
  PROVE  /\ gaps' \subseteq gaps \cup {clock'}
         /\ recv'.state \in {"HEALTHY", "RESTORING"} => gaps' = gaps
         /\ clock <= clock' /\ clock \in Nat /\ clock' \in Nat /\ clock' <= EndTime
<1>1. clock <= clock' /\ clock \in Nat /\ clock' \in Nat /\ clock' <= EndTime
  BY ClockTyped, CandleAssumption DEF TypeOK, EndTime
<1>2. CASE Next
  BY <1>1, <1>2 DEF Next, Watched
<1>3. CASE UNCHANGED vars
  BY <1>1, <1>3 DEF vars
<1> QED
  BY <1>1, <1>2, <1>3

\* A health thread that declared the feed stale is not overtaken, and does not
\* overtake the worker that inserts.
LEMMA CallbackSoon ==
  ASSUME TypeOK, FeedInv, [Next]_vars, ~Lags
  PROVE  /\ health' = "callback" => recv'.state = "STALE" /\ worker'.pc # "insert"
         /\ health = "callback" => HealthCallback \/ Exit \/ Crash \/ UNCHANGED vars
         /\ worker.pc = "insert" => WorkerInserts \/ Exit \/ Crash \/ UNCHANGED vars
<1>0. worker \in Work /\ recv \in Receiver
  BY DEF TypeOK
<1>p. CASE Next
  <2>1. /\ health = "callback" => health' = "idle"
        /\ worker.pc = "insert" => worker'.pc = "run"
    BY <1>p DEF Next, Prompt
  <2>2. health' = "callback" => HealthTransition \/ health' = health
    BY <1>p DEF Next, WsTick, WsRestores, WsRestoreFails, WsClose, WsGivesUp, HealthCheck,
       HealthTransition, HealthCallback, WorkerSkips, WorkerDrops, WorkerAdds, WorkerFinishes,
       WorkerBegins, WorkerStarts, WorkerInserts, WorkerExits, Stop, Join, Flush, Exit, Crash,
       Restart, TimePasses, CounterRestarts, Forgotten
  <2>3. health' = "callback" => recv'.state = "STALE" /\ worker'.pc # "insert"
    <3> SUFFICES ASSUME health' = "callback"
                 PROVE  recv'.state = "STALE" /\ worker'.pc # "insert"
      OBVIOUS
    <3>1. HealthTransition
      BY <2>1, <2>2
    <3>2. recv' = [recv EXCEPT !.state = "STALE"] /\ worker' = worker
      BY <3>1 DEF HealthTransition
    <3>3. recv'.state = "STALE"
      BY <1>0, <3>2 DEF Receiver
    <3> QED
      BY <2>1, <3>2, <3>3
  <2>4. health = "callback" => HealthCallback \/ Exit \/ Crash
    BY <1>p, <2>1 DEF Next, WsTick, WsRestores, WsRestoreFails, WsClose, WsGivesUp, HealthCheck,
       HealthTransition, WorkerSkips, WorkerDrops, WorkerAdds, WorkerFinishes,
       WorkerBegins, WorkerStarts, WorkerInserts, WorkerExits, Stop, Join, Flush,
       Restart, TimePasses, CounterRestarts
  <2>5. worker.pc = "insert" => WorkerInserts \/ Exit \/ Crash
    BY <1>p, <2>1 DEF Next, WsTick, WsRestores, WsRestoreFails, WsClose, WsGivesUp, HealthCheck,
       HealthTransition, HealthCallback, WorkerSkips, WorkerDrops, WorkerAdds, WorkerFinishes,
       WorkerBegins, WorkerStarts, WorkerExits, Stop, Join, Flush, Taken,
       Restart, TimePasses, CounterRestarts
  <2> QED
    BY <2>3, <2>4, <2>5
<1>s. CASE UNCHANGED vars
  BY <1>s DEF vars, FeedInv
<1> QED
  BY <1>p, <1>s

\* The feed's state, step by step.
LEMMA FeedStays ==
  ASSUME TypeOK, FeedInv, [Next]_vars, ~Lags
  PROVE  FeedInv'
<1>0. /\ recv \in Receiver /\ ws \in Feeder /\ clock \in Nat /\ gaps \subseteq Nat
      /\ recv.state = "RESTORING" => recv.restoring # "none"
      /\ ws # Idle => ws.tick \in Tick
      /\ \A t \in Tick : MinuteOf(t.ts) \in Nat
      /\ Queued \subseteq Tick
  <2>1. \A t \in Tick : MinuteOf(t.ts) \in Nat
    BY Minutes DEF Tick
  <2>2. Queued \subseteq Tick
    BY DEF TypeOK, Queued
  <2> QED
    BY <2>1, <2>2, CandleAssumption DEF TypeOK, EndTime
<1>g. /\ gaps' \subseteq gaps \cup {clock'}
      /\ recv'.state \in {"HEALTHY", "RESTORING"} => gaps' = gaps
      /\ clock <= clock' /\ clock' \in Nat
  BY GapsGrow
<1>1. \A g \in gaps' : g <= clock'
  BY <1>0, <1>g DEF FeedInv
<1>2. \A t \in Queued' : MinuteOf(t.ts) <= clock'
  <2>1. CASE Queued' \subseteq Queued
    BY <1>0, <1>g, <2>1 DEF FeedInv
  <2>2. CASE \E t \in Tick : MinuteOf(t.ts) <= clock /\ Queued' \subseteq Queued \cup {t}
    BY <1>0, <1>g, <2>2 DEF FeedInv
  <2>3. CASE WsRestores /\ Queued' \subseteq Queued \cup {ws.tick}
    <3>1. ws.tick \in Tick /\ ws.at <= clock + 1 /\ MinuteOf(ws.tick.ts) < ws.at /\ ws.at \in Nat
      BY <1>0, <2>3 DEF WsRestores, FeedInv, Feeder
    <3>2. MinuteOf(ws.tick.ts) <= clock
      BY <1>0, <3>1
    <3> QED
      BY <1>0, <1>g, <2>3, <3>1, <3>2 DEF FeedInv
  <2> QED
    BY <2>1, <2>2, <2>3, QueuedGrows
<1>3. health' = "callback" => recv'.state = "STALE" /\ worker'.pc # "insert"
  BY CallbackSoon
<1> DEFINE rest ==
      /\ recv.stop => recv.state = "STOPPED"
      /\ main \in {"joined", "flushed"} => recv.state = "STOPPED"
      /\ recv.state = "RESTORING" => ws # Idle /\ \A g \in gaps : g < ws.at
      /\ ws # Idle =>
           /\ recv.state \in {"RESTORING", "STOPPED"} /\ ws.at <= clock + 1
           /\ \A t \in Queued \cup {ws.tick} : MinuteOf(t.ts) < ws.at
<1>r. rest
  BY DEF FeedInv
<1>4. rest'
  <2>1. CASE WsTick
    <3>0. ws = Idle /\ main = "run" /\ UNCHANGED <<main, clock>> /\ ~recv.stop
          /\ recv.state # "RESTORING"
      BY <1>1, <1>r, <2>1 DEF WsTick, Up
    <3>1. PICK t \in Tick :
            /\ MinuteOf(t.ts) <= clock
            /\ \/ recv' = [Halted("overload") EXCEPT !.seq = @ + 1] /\ UNCHANGED ws
               \/ /\ recv.state \in {"STARTING", "STALE"}
                  /\ recv' = [recv EXCEPT !.state = "RESTORING", !.restoring = recv.state,
                                          !.seq = @ + 1]
                  /\ ws' = [tick |-> t, at |-> clock + 1]
               \/ /\ recv.state = "HEALTHY"
                  /\ recv' = [recv EXCEPT !.seq = @ + 1, !.last = clock]
                  /\ UNCHANGED ws
      BY <2>1, HowItReceives
    <3>2. CASE recv' = [Halted("overload") EXCEPT !.seq = @ + 1] /\ UNCHANGED ws
      <4>1. recv'.state = "STOPPED"
        BY <1>0, <3>2, HaltedTyped
      <4> QED
        BY <3>0, <3>2, <4>1
    <3>3. CASE /\ recv.state \in {"STARTING", "STALE"}
               /\ recv' = [recv EXCEPT !.state = "RESTORING", !.restoring = recv.state,
                                       !.seq = @ + 1]
               /\ ws' = [tick |-> t, at |-> clock + 1]
      <4>1. recv'.state = "RESTORING"
        BY <1>0, <3>3 DEF Receiver
      <4>2. ~recv'.stop
        BY <1>0, <3>0, <3>3 DEF Receiver
      <4>3. ws'.tick = t /\ ws'.at = clock + 1 /\ ws' # Idle
        BY <1>0, <3>3 DEF Idle
      <4>4. \A g \in gaps' : g < ws'.at
        BY <1>0, <1>g, <4>1, <4>3 DEF FeedInv
      <4>5. Queued' \subseteq Queued
        BY <3>3, <2>1, QueuedGrows DEF WsTick, WsRestores
      <4>6. \A u \in Queued' \cup {ws'.tick} : MinuteOf(u.ts) < ws'.at
        BY <1>0, <3>1, <4>3, <4>5 DEF FeedInv
      <4> QED
        BY <1>0, <3>0, <4>1, <4>2, <4>3, <4>4, <4>6
    <3>4. CASE /\ recv.state = "HEALTHY"
               /\ recv' = [recv EXCEPT !.seq = @ + 1, !.last = clock]
               /\ UNCHANGED ws
      <4>1. recv'.state = "HEALTHY"
        BY <1>0, <3>4 DEF Receiver
      <4>2. ~recv'.stop
        BY <1>0, <3>0, <3>4 DEF Receiver
      <4> QED
        BY <3>0, <3>4, <4>1, <4>2
    <3> QED
      BY <3>1, <3>2, <3>3, <3>4
  <2>2. CASE WsRestores \/ WsRestoreFails
    <3>1. ws # Idle /\ ws' = Idle /\ main = "run" /\ UNCHANGED main
      BY <2>2 DEF WsRestores, WsRestoreFails, Up
    <3>2. recv.state \in {"RESTORING", "STOPPED"} /\ recv'.state # "RESTORING"
          /\ (recv.state = "STOPPED" => recv'.state = "STOPPED")
      <4>1. recv.state \in {"RESTORING", "STOPPED"}
        BY <1>r, <3>1
      <4>2. CASE WsRestores
        BY <1>0, <4>1, <4>2 DEF WsRestores, Receiver
      <4>3. CASE WsRestoreFails
        BY <1>0, <4>1, <4>3 DEF WsRestoreFails, Receiver
      <4> QED
        BY <2>2, <4>1, <4>2, <4>3
    <3>3. recv'.stop = recv.stop
      BY <1>0, <2>2 DEF WsRestores, WsRestoreFails, Receiver
    <3>4. recv'.stop => recv'.state = "STOPPED"
      BY <1>r, <3>2, <3>3
    <3> QED
      BY <3>1, <3>2, <3>4
  <2>q. ASSUME queue' = queue \/ (queue # <<>> /\ queue' = Tail(queue))
        PROVE  Queued' \subseteq Queued
    <3>1. queue \in Seq(Tick)
      BY DEF TypeOK
    <3>2. ~(Len(queue') > Len(queue))
      BY <2>q, <3>1
    <3> QED
      BY <3>2, QueuedGrows
  <2>u. ASSUME UNCHANGED <<recv, ws>>, Queued' \subseteq Queued,
               main' = main \/ main' \in {"run", "down"} \/ recv.state = "STOPPED"
        PROVE  rest'
    <3>1. recv'.state = "RESTORING" => \A g \in gaps' : g < ws'.at
      BY <1>g, <1>r, <2>u
    <3>2. ws' # Idle => /\ ws'.at <= clock' + 1
                        /\ \A t \in Queued' \cup {ws'.tick} : MinuteOf(t.ts) < ws'.at
      <4> SUFFICES ASSUME ws # Idle
                   PROVE  /\ ws.at <= clock' + 1
                          /\ \A t \in Queued' \cup {ws.tick} : MinuteOf(t.ts) < ws.at
        BY <2>u
      <4>1. ws.at <= clock + 1 /\ ws.at \in Nat
        BY <1>0, <1>r DEF Feeder
      <4> QED
        BY <1>0, <1>g, <1>r, <2>u, <4>1
    <3> QED
      BY <1>r, <2>u, <3>1, <3>2
  <2>3. CASE WsClose \/ HealthTransition
    <3>1. UNCHANGED <<main, ws, clock>> /\ main = "run"
      BY <2>3 DEF WsClose, HealthTransition, Up
    <3>2. \/ recv' = recv
          \/ recv.state = "HEALTHY" /\ recv' = [recv EXCEPT !.state = "STALE"]
      BY <2>3 DEF WsClose, HealthTransition
    <3>3. Queued' \subseteq Queued
      BY <2>3, <2>q DEF WsClose, HealthTransition
    <3>4. CASE recv' = recv
      BY <2>u, <3>1, <3>3, <3>4
    <3>5. CASE recv.state = "HEALTHY" /\ recv' = [recv EXCEPT !.state = "STALE"]
      <4>1. recv'.state = "STALE"
        BY <1>0, <3>5 DEF Receiver
      <4>2. recv'.stop = recv.stop
        BY <1>0, <3>5 DEF Receiver
      <4> QED
        BY <1>r, <3>1, <3>5, <4>1, <4>2
    <3> QED
      BY <3>2, <3>4, <3>5
  <2>4. CASE WsGivesUp \/ Stop \/ WorkerFinishes
    <3>1. UNCHANGED <<main, ws, clock>>
      BY <2>4 DEF WsGivesUp, Stop, WorkerFinishes
    <3>2. recv' = recv \/ \E why \in {"none", "noreconnect", "emission"} : recv' = Halted(why)
      BY <2>4 DEF WsGivesUp, Stop, WorkerFinishes
    <3>3. recv' = recv \/ recv'.state = "STOPPED"
      BY <1>0, <3>2, HaltedTyped
    <3>4. Queued' \subseteq Queued
      BY <2>4, <2>q DEF WsGivesUp, Stop, WorkerFinishes, Taken
    <3>5. CASE recv' = recv
      BY <2>u, <3>1, <3>4, <3>5
    <3>6. CASE recv'.state = "STOPPED"
      <4>1. ws # Idle => /\ ws.at <= clock + 1
                         /\ \A t \in Queued' \cup {ws.tick} : MinuteOf(t.ts) < ws.at
        BY <1>r, <3>4
      <4> QED
        BY <3>1, <3>6, <4>1
    <3> QED
      BY <3>3, <3>5, <3>6
  <2>5. CASE HealthCheck \/ HealthCallback \/ WorkerSkips \/ WorkerDrops \/ WorkerAdds
             \/ WorkerBegins \/ WorkerStarts \/ WorkerInserts \/ WorkerExits
    <3>1. UNCHANGED <<main, recv, ws>>
      BY <2>5 DEF HealthCheck, HealthCallback, WorkerSkips, WorkerDrops, WorkerAdds,
                  WorkerBegins, WorkerStarts, WorkerInserts, WorkerExits
    <3>2. Queued' \subseteq Queued
      BY <2>5, <2>q DEF HealthCheck, HealthCallback, WorkerSkips, WorkerDrops, WorkerAdds,
                        WorkerBegins, WorkerStarts, WorkerInserts, WorkerExits, Taken
    <3> QED
      BY <2>u, <3>1, <3>2
  <2>6. CASE Join \/ Flush \/ Restart \/ TimePasses \/ CounterRestarts \/ UNCHANGED vars
    <3>1. UNCHANGED <<recv, ws, queue, worker>>
      BY <2>6 DEF Join, Flush, Restart, TimePasses, CounterRestarts, vars
    <3>2. main' = main \/ main' \in {"run", "down"} \/ recv.state = "STOPPED"
      BY <1>r, <2>6 DEF Join, Flush, Restart, TimePasses, CounterRestarts, vars
    <3>3. Queued' \subseteq Queued
      BY <3>1 DEF Queued
    <3> QED
      BY <2>u, <3>1, <3>2, <3>3
  <2>7. CASE Exit \/ Crash
    <3>1. main' = "down" /\ recv' = [NoRecv EXCEPT !.seq = recv.seq] /\ ws' = Idle
      BY <2>7 DEF Exit, Crash, Forgotten
    <3>2. recv'.state = "STARTING"
      BY <3>1 DEF NoRecv
    <3>3. ~recv'.stop
      BY <3>1 DEF NoRecv
    <3> QED
      BY <3>1, <3>2, <3>3
  <2> QED
    BY <2>1, <2>2, <2>3, <2>4, <2>5, <2>6, <2>7 DEF Next
<1> QED
  BY <1>1, <1>2, <1>3, <1>4 DEF FeedInv

\* While the feed runs its coverage began after every outage; while it does
\* not, after every tick in hand.  A candle that claims its minute, or is
\* about to, has the feed running and no outage in it.
Covered ==
  /\ recv.state = "HEALTHY" => \A g \in gaps : g < since
  /\ recv.state # "HEALTHY" => \A t \in Queued : MinuteOf(t.ts) < since
  /\ Building /\ active.full => recv.state = "HEALTHY" /\ active.minute \notin gaps
  /\ worker.pc = "insert" /\ worker.full =>
       recv.state = "HEALTHY" /\ MinuteOf(worker.tick.ts) \notin gaps

\* Only between the health thread's decision and its callback is that untrue.
CoverInv ==
  /\ \A c \in rows1 : c.full => c.minute \notin gaps /\ c.minute < clock
  /\ health # "callback" => Covered

\* How the coverage follows the receiver's state.
SinceFollows ==
  /\ recv'.state = "HEALTHY" =>
       \/ recv.state = "HEALTHY" /\ since' = since
       \/ recv.state = "RESTORING" /\ since' = ws.at
  /\ recv'.state # "HEALTHY" /\ health' # "callback" =>
       \/ since' = Never
       \/ ws # Idle /\ since' = ws.at
       \/ since' = since /\ recv.state # "HEALTHY" /\ health # "callback"

\* How a candle comes to claim its minute.
FullFollows ==
  Building' /\ active'.full /\ health' # "callback" =>
    /\ health # "callback"
    /\ recv'.state = "HEALTHY" \/ recv.state # "HEALTHY"
    /\ \/ Building /\ active.full /\ active'.minute = active.minute
       \/ /\ worker.pc = "insert" /\ worker.full
          /\ active'.minute = MinuteOf(worker.tick.ts)

\* The coverage and the candle, step by step.
LEMMA CoverageFollows ==
  ASSUME TypeOK, FeedInv, Next, ~Lags
  PROVE  SinceFollows /\ FullFollows
<1>0. /\ recv \in Receiver /\ active \in Candle /\ vol \in Counter /\ queue \in Seq(Tick)
      /\ worker \in Work /\ (worker.pc \in {"start", "insert"} => worker.tick \in Tick)
  BY DEF TypeOK
<1>p. health = "callback" => health' = "idle"
  BY DEF Next, Prompt
<1>s. ASSUME recv.state # "HEALTHY" \/ recv'.state = "HEALTHY", UNCHANGED active, UNCHANGED health
      PROVE  FullFollows
  BY <1>s, <1>p DEF FullFollows, Building
<1>i. ASSUME Interrupt PROVE ~active'.full /\ since' = Never
  BY <1>0, <1>i DEF Interrupt, Candle
<1>n. ASSUME active' = NoCandle PROVE FullFollows
  BY <1>n DEF FullFollows, Building, NoCandle
<1>f. ASSUME ~active'.full PROVE FullFollows
  BY <1>f DEF FullFollows
<1>u. ASSUME UNCHANGED <<recv, since, health>> PROVE SinceFollows
  BY <1>u, <1>p DEF SinceFollows
<1>1. CASE WsTick
  <2>0. UNCHANGED health
    BY <1>1 DEF WsTick
  <2>1. \/ recv' = [Halted("overload") EXCEPT !.seq = @ + 1] /\ InterruptIfHealthy
        \/ /\ recv.state \in {"STARTING", "STALE"}
           /\ recv' = [recv EXCEPT !.state = "RESTORING", !.restoring = recv.state, !.seq = @ + 1]
           /\ UNCHANGED <<since, active>>
        \/ /\ recv.state = "HEALTHY"
           /\ recv' = [recv EXCEPT !.seq = @ + 1, !.last = clock]
           /\ UNCHANGED <<since, active>>
    BY <1>1, HowItReceives
  <2>2. CASE recv' = [Halted("overload") EXCEPT !.seq = @ + 1] /\ InterruptIfHealthy
    <3>1. recv'.state = "STOPPED"
      BY <1>0, <2>2, HaltedTyped
    <3>2. CASE recv.state = "HEALTHY"
      BY <1>i, <1>f, <2>2, <3>1, <3>2 DEF InterruptIfHealthy, SinceFollows
    <3>3. CASE recv.state # "HEALTHY"
      BY <1>p, <1>s, <2>0, <2>2, <3>1, <3>3 DEF InterruptIfHealthy, SinceFollows
    <3> QED
      BY <3>2, <3>3
  <2>3. CASE /\ recv.state \in {"STARTING", "STALE"}
             /\ recv' = [recv EXCEPT !.state = "RESTORING", !.restoring = recv.state, !.seq = @ + 1]
             /\ UNCHANGED <<since, active>>
    <3>1. recv'.state = "RESTORING"
      BY <1>0, <2>3 DEF Receiver
    <3> QED
      BY <1>p, <1>s, <2>0, <2>3, <3>1 DEF SinceFollows
  <2>4. CASE /\ recv.state = "HEALTHY"
             /\ recv' = [recv EXCEPT !.seq = @ + 1, !.last = clock]
             /\ UNCHANGED <<since, active>>
    <3>1. recv'.state = "HEALTHY"
      BY <1>0, <2>4 DEF Receiver
    <3> QED
      BY <1>s, <2>0, <2>4, <3>1 DEF SinceFollows
  <2> QED
    BY <2>1, <2>2, <2>3, <2>4
<1>2. CASE WsRestores \/ WsRestoreFails
  <2>1. ws # Idle /\ since' = ws.at /\ UNCHANGED <<active, health>>
    BY <1>2 DEF WsRestores, WsRestoreFails, builder
  <2>2. recv.state \in {"RESTORING", "STOPPED"}
    BY <2>1 DEF FeedInv
  <2>3. recv.state = "STOPPED" => recv'.state # "HEALTHY"
    BY <1>0, <1>2 DEF WsRestores, WsRestoreFails, Receiver
  <2> QED
    BY <1>s, <2>1, <2>2, <2>3 DEF SinceFollows
<1>3. CASE WsClose
  <2>1. recv'.state = "STALE" /\ Interrupt
    BY <1>0, <1>3 DEF WsClose, Receiver
  <2> QED
    BY <1>i, <1>f, <2>1 DEF SinceFollows
<1>4. CASE WsGivesUp \/ Stop
  <2>1. InterruptIfHealthy /\ UNCHANGED health /\ \E why \in {"none", "noreconnect"} : recv' = Halted(why)
    BY <1>4 DEF WsGivesUp, Stop
  <2>2. recv'.state = "STOPPED"
    BY <1>0, <2>1, HaltedTyped
  <2>3. CASE recv.state = "HEALTHY"
    BY <1>i, <1>f, <2>1, <2>2, <2>3 DEF InterruptIfHealthy, SinceFollows
  <2>4. CASE recv.state # "HEALTHY"
    BY <1>p, <1>s, <2>1, <2>2, <2>4 DEF InterruptIfHealthy, SinceFollows
  <2> QED
    BY <2>3, <2>4
<1>5. CASE HealthCheck
  <2>1. recv.state = "HEALTHY" /\ UNCHANGED <<recv, since, active>> /\ health = "idle"
    BY <1>5 DEF HealthCheck, builder
  <2> QED
    BY <2>1 DEF SinceFollows, FullFollows, Building
<1>6. CASE HealthTransition
  <2>1. UNCHANGED <<since, active>> /\ health = "stale"
        /\ (health' = "callback" \/ (recv.state # "HEALTHY" /\ UNCHANGED recv))
    BY <1>6 DEF HealthTransition, builder
  <2>2. recv'.state = "HEALTHY" => recv.state = "HEALTHY"
    BY <1>0, <1>6 DEF HealthTransition, Receiver
  <2> QED
    BY <2>1, <2>2 DEF SinceFollows, FullFollows, Building
<1>7. CASE HealthCallback
  <2>1. Interrupt /\ UNCHANGED recv /\ health = "callback"
    BY <1>7 DEF HealthCallback
  <2>2. recv.state = "STALE"
    BY <2>1 DEF FeedInv
  <2> QED
    BY <1>i, <1>f, <2>1, <2>2 DEF SinceFollows
<1>8. CASE WorkerSkips \/ WorkerDrops \/ WorkerBegins \/ WorkerStarts \/ WorkerExits
  <2>1. UNCHANGED <<recv, since, health, active>>
    BY <1>8 DEF WorkerSkips, WorkerDrops, WorkerBegins, WorkerStarts, WorkerExits, builder
  <2> QED
    BY <1>s, <1>u, <2>1
<1>9. CASE WorkerAdds
  <2>1. UNCHANGED <<recv, since, health>> /\ Building
    BY <1>9 DEF WorkerAdds
  <2>2. Head(queue) \in Tick
    BY <1>0, <1>9 DEF WorkerAdds, Taken
  <2>3. active'.minute = active.minute /\ active'.full = active.full
    BY <1>0, <1>9, <2>2, Applied DEF WorkerAdds
  <2> QED
    BY <1>p, <1>u, <2>1, <2>3 DEF FullFollows
<1>10. CASE WorkerFinishes
  <2>1. /\ UNCHANGED health
        /\ \/ active' = NoCandle /\ UNCHANGED <<recv, since>>
           \/ /\ active' = NoCandle /\ recv' = Halted("emission")
              /\ since' = IF recv.state = "HEALTHY" THEN Never ELSE since
           \/ UNCHANGED <<recv, since, active>>
    BY <1>10 DEF WorkerFinishes, Finalized
  <2>2. CASE active' = NoCandle /\ UNCHANGED <<recv, since>>
    BY <1>n, <1>u, <2>1, <2>2
  <2>3. CASE /\ active' = NoCandle /\ recv' = Halted("emission")
             /\ since' = IF recv.state = "HEALTHY" THEN Never ELSE since
    <3>1. recv'.state = "STOPPED"
      BY <1>0, <2>3, HaltedTyped
    <3> QED
      BY <1>n, <1>p, <2>1, <2>3, <3>1 DEF SinceFollows
  <2>4. CASE UNCHANGED <<recv, since, active>>
    BY <1>s, <1>u, <2>1, <2>4
  <2> QED
    BY <2>1, <2>2, <2>3, <2>4
<1>11. CASE WorkerInserts
  <2> DEFINE t == worker.tick
             v == VolumeState(t)
             c == Started(MinuteOf(t.ts), v, worker.full)
  <2>1. /\ t \in Tick /\ worker.full \in BOOLEAN /\ worker.pc = "insert"
        /\ UNCHANGED <<recv, since, health>>
    BY <1>0, <1>11 DEF WorkerInserts, Work
  <2>2. v \in Counter /\ MinuteOf(t.ts) \in Nat
    BY <1>0, <2>1, CounterMade, Minutes DEF Tick
  <2>3. active' = ApplyTick(c, v, t)
    BY <1>11 DEF WorkerInserts
  <2> HIDE DEF v
  <2>4. c \in Candle /\ c.minute = MinuteOf(t.ts) /\ c.full = worker.full
    BY <2>1, <2>2, StartedTyped
  <2> HIDE DEF c
  <2>5. active'.minute = MinuteOf(t.ts) /\ active'.full = worker.full
    BY <2>1, <2>2, <2>3, <2>4, Applied
  <2> QED
    BY <1>p, <1>u, <2>1, <2>5 DEF FullFollows
<1>12. CASE Flush
  <2>1. /\ UNCHANGED <<recv, since, health>>
        /\ active' = NoCandle \/ UNCHANGED active
    BY <1>12 DEF Flush, Finalized
  <2> QED
    BY <1>n, <1>s, <1>u, <2>1
<1>13. CASE Exit \/ Crash
  <2>1. recv' = [NoRecv EXCEPT !.seq = recv.seq] /\ since' = Never /\ active' = NoCandle
    BY <1>13 DEF Exit, Crash, Forgotten
  <2>2. recv'.state = "STARTING"
    BY <2>1 DEF NoRecv
  <2> QED
    BY <1>n, <2>1, <2>2 DEF SinceFollows
<1>14. CASE Join \/ Restart \/ TimePasses \/ CounterRestarts
  <2>1. UNCHANGED <<recv, since, health, active>>
    BY <1>14 DEF Join, Restart, TimePasses, CounterRestarts, builder
  <2> QED
    BY <1>s, <1>u, <2>1
<1> QED
  BY <1>1, <1>2, <1>3, <1>4, <1>5, <1>6, <1>7, <1>8, <1>9, <1>10, <1>11, <1>12, <1>13, <1>14
     DEF Next

\* The worker reads the coverage for a tick in hand.
LEMMA ReadsFor ==
  ASSUME TypeOK, Next, ~Lags, worker'.pc = "insert"
  PROVE  /\ UNCHANGED <<recv, since, health>>
         /\ \E t \in Queued : worker'.tick = t /\ (worker'.full => since <= MinuteOf(t.ts))
<1>0. worker \in Work /\ queue \in Seq(Tick)
  BY DEF TypeOK
<1>1. worker.pc # "insert"
  BY DEF Next, Prompt
<1>2. CASE WorkerBegins
  <2>1. Head(queue) \in Queued
    BY <1>0, <1>2 DEF WorkerBegins, Taken, Queued
  <2>2. worker'.tick = Head(queue) /\ worker'.full = (since <= MinuteOf(Head(queue).ts))
    BY <1>2 DEF WorkerBegins, Reads, HasFullCoverage
  <2> QED
    BY <1>2, <2>1, <2>2 DEF WorkerBegins
<1>3. CASE WorkerStarts
  <2>1. worker.tick \in Queued
    BY <1>3 DEF WorkerStarts, Queued
  <2>2. worker'.tick = worker.tick /\ worker'.full = (since <= MinuteOf(worker.tick.ts))
    BY <1>3 DEF WorkerStarts, Reads, HasFullCoverage
  <2> QED
    BY <1>3, <2>1, <2>2 DEF WorkerStarts
<1>4. CASE WorkerFinishes
  <2>1. worker.pc = "run" /\ \/ worker' = [worker EXCEPT !.pc = "start", !.tick = Head(queue)]
                             \/ worker' = [worker EXCEPT !.pc = "done"]
                             \/ worker' = worker
    BY <1>4 DEF WorkerFinishes, Taken
  <2> QED
    BY <1>0, <2>1 DEF Work
<1>5. CASE WorkerInserts \/ WorkerExits \/ Exit \/ Crash
  <2>1. worker'.pc \in {"run", "done"}
    BY <1>0, <1>5 DEF WorkerInserts, WorkerExits, Exit, Crash, Forgotten, Running, Work
  <2> QED
    BY <2>1
<1>6. CASE WsTick \/ WsRestores \/ WsRestoreFails \/ WsClose \/ WsGivesUp \/ HealthCheck
           \/ HealthTransition \/ HealthCallback \/ WorkerSkips \/ WorkerDrops \/ WorkerAdds
  <2>1. UNCHANGED worker
    BY <1>6 DEF WsTick, WsRestores, WsRestoreFails, WsClose, WsGivesUp, HealthCheck,
                HealthTransition, HealthCallback, WorkerSkips, WorkerDrops, WorkerAdds
  <2> QED
    BY <1>1, <2>1
<1>7. CASE Stop \/ Join \/ Flush \/ Restart \/ TimePasses \/ CounterRestarts
  <2>1. UNCHANGED worker
    BY <1>7 DEF Stop, Join, Flush, Restart, TimePasses, CounterRestarts
  <2> QED
    BY <1>1, <2>1
<1> QED
  BY <1>2, <1>3, <1>4, <1>5, <1>6, <1>7 DEF Next

\* A row is written for the candle being built, when its minute is over and
\* nothing was overtaken.
LEMMA RowsFollow ==
  ASSUME TypeOK, FeedInv, CoverInv, Next, ~Lags, NEW c \in rows1', c \notin rows1, c.full
  PROVE  /\ recv.state = "HEALTHY" => UNCHANGED recv
         /\ Building /\ active.full /\ c.minute = active.minute
         /\ health # "callback"
         /\ recv.state = "HEALTHY" => c.minute < clock
<1>0. active \in Candle /\ clock \in Nat /\ queue \in Seq(Tick)
  BY CandleAssumption DEF TypeOK, EndTime
<1>p. health = "callback" => health' = "idle"
  BY DEF Next, Prompt
<1>1. rows1' # rows1
  OBVIOUS
<1>2. CASE WorkerFinishes
  <2> DEFINE t == Head(queue)
             d == Completed(active, "minute_transition", MinuteOf(t.ts))
  <2>1. /\ t \in Tick /\ Building /\ MinuteOf(t.ts) > active.minute /\ UNCHANGED health
        /\ t \in Queued
    BY <1>0, <1>2 DEF WorkerFinishes, Taken, Queued
  <2>2. MinuteOf(t.ts) \in Nat /\ MinuteOf(t.ts) <= clock
    BY <2>1, Minutes DEF Tick, FeedInv
  <2>3. d.minute = active.minute /\ d.full = active.full
    BY <1>0, <2>1, <2>2, CompletedTyped
  <2>4. \/ EmitFatal(d)
        \/ (EmitOk(d) \/ EmitError(d)) /\ UNCHANGED recv
    BY <1>2 DEF WorkerFinishes
  <2> HIDE DEF d, t
  <2>5. rows1' = rows1 \cup {d} /\ UNCHANGED recv
    BY <1>1, <2>4, HowItStores DEF EmitFatal, EmitOk, EmitError, store
  <2>6. c = d
    BY <2>5
  <2>7. active.minute \in Int
    BY <1>0 DEF Candle
  <2> QED
    BY <1>0, <1>p, <2>1, <2>2, <2>3, <2>5, <2>6, <2>7
<1>3. CASE Flush
  <2> DEFINE d == Completed(active, FlushReason, clock)
  <2>1. /\ Building /\ FlushReason \in {"minute_transition", "session_end", "shutdown_flush"}
        /\ UNCHANGED <<recv, health>> /\ recv.state # "HEALTHY"
    BY <1>3 DEF Flush, FlushReason, FeedInv
  <2>2. d.minute = active.minute /\ d.full = active.full
    BY <1>0, <2>1, CompletedTyped
  <2>3. EmitOk(d) \/ EmitFatal(d) \/ EmitError(d)
    BY <1>3 DEF Flush
  <2> HIDE DEF d
  <2>4. rows1' = rows1 \cup {d}
    BY <1>1, <2>3 DEF EmitFatal, EmitOk, EmitError, store
  <2> QED
    BY <1>p, <2>1, <2>2, <2>4
<1>4. CASE UNCHANGED store \/ WorkerAdds \/ WorkerInserts \/ WorkerExits
           \/ (Forgotten /\ UNCHANGED <<rows1, rows5>>)
  BY <1>1, <1>4 DEF store, WorkerAdds, WorkerInserts, WorkerExits
<1> QED
  BY <1>2, <1>3, <1>4, HowItBuilds DEF store

\* Coverage is kept.
LEMMA CoverStays ==
  ASSUME TypeOK, FeedInv, CoverInv, Next, ~Lags, FeedInv'
  PROVE  CoverInv'
<1>0. /\ \A t \in Tick : MinuteOf(t.ts) \in Nat
      /\ Queued \subseteq Tick /\ gaps \subseteq Nat /\ since \in Nat /\ ws \in Feeder
      /\ worker.pc = "insert" => worker.tick \in Tick
  <2>1. \A t \in Tick : MinuteOf(t.ts) \in Nat
    BY Minutes DEF Tick
  <2>2. Queued \subseteq Tick
    BY DEF TypeOK, Queued
  <2> QED
    BY <2>1, <2>2 DEF TypeOK
<1>g. /\ gaps' \subseteq gaps \cup {clock'}
      /\ recv'.state \in {"HEALTHY", "RESTORING"} => gaps' = gaps
      /\ clock <= clock' /\ clock \in Nat /\ clock' \in Nat /\ clock' <= EndTime
  BY GapsGrow
<1>s. SinceFollows /\ FullFollows
  BY CoverageFollows
<1>p. /\ health = "callback" => health' = "idle"
      /\ ~(recv.state = "HEALTHY" /\ health = "callback")
  BY DEF Next, Prompt, FeedInv
<1>1. ASSUME NEW c \in rows1', c.full PROVE c.minute \notin gaps' /\ c.minute < clock'
  <2>1. CASE c \in rows1
    <3>1. c.minute \notin gaps /\ c.minute < clock /\ c.minute \in Nat
      BY <1>1, <2>1 DEF CoverInv, TypeOK, Row
    <3> QED
      BY <1>g, <3>1
  <2>2. CASE c \notin rows1
    <3>1. /\ recv.state = "HEALTHY" => UNCHANGED recv
          /\ Building /\ active.full /\ c.minute = active.minute
          /\ health # "callback"
          /\ recv.state = "HEALTHY" => c.minute < clock
      BY <1>1, <2>2, RowsFollow
    <3>2. recv.state = "HEALTHY" /\ active.minute \notin gaps
      BY <3>1 DEF CoverInv, Covered
    <3>3. recv'.state = "HEALTHY" /\ c.minute < clock /\ c.minute \in Int
      BY <3>1, <3>2 DEF TypeOK, Candle
    <3> QED
      BY <1>g, <3>1, <3>2, <3>3
  <2> QED
    BY <2>1, <2>2
<1>2. ASSUME recv'.state = "HEALTHY" PROVE \A g \in gaps' : g < since'
  <2>1. CASE recv.state = "HEALTHY" /\ since' = since
    BY <1>2, <1>g, <1>p, <2>1 DEF CoverInv, Covered
  <2>2. CASE recv.state = "RESTORING" /\ since' = ws.at
    BY <1>2, <1>g, <2>2 DEF FeedInv
  <2> QED
    BY <1>2, <1>s, <2>1, <2>2 DEF SinceFollows
<1>3. ASSUME recv'.state # "HEALTHY", health' # "callback"
      PROVE  \A t \in Queued' : MinuteOf(t.ts) < since'
  <2>1. CASE since' = Never
    <3>1. \A t \in Queued' : MinuteOf(t.ts) <= clock' /\ t \in Tick
      <4>1. \A t \in Queued' : MinuteOf(t.ts) <= clock'
        BY DEF FeedInv
      <4>2. Queued' \subseteq Tick
        <5>1. queue' \in Seq(Tick) /\ (worker'.pc \in {"start", "insert"} => worker'.tick \in Tick)
          BY QueueTyped, BuilderTyped
        <5> QED
          BY <5>1 DEF Queued
      <4> QED
        BY <4>1, <4>2
    <3>2. clock' < Never /\ Never \in Nat
      BY <1>g, CandleAssumption DEF EndTime, Never
    <3> QED
      BY <1>0, <1>g, <2>1, <3>1, <3>2
  <2>2. CASE ws # Idle /\ since' = ws.at
    <3>1. \A t \in Queued \cup {ws.tick} : MinuteOf(t.ts) < ws.at
      BY <2>2 DEF FeedInv
    <3>2. Queued' \subseteq Queued \cup {ws.tick}
      BY <1>3, QueuedGrows
    <3> QED
      BY <2>2, <3>1, <3>2
  <2>3. CASE since' = since /\ recv.state # "HEALTHY" /\ health # "callback"
    <3>1. \A t \in Queued : MinuteOf(t.ts) < since
      BY <2>3 DEF CoverInv, Covered
    <3>2. CASE Queued' \subseteq Queued
      BY <2>3, <3>1, <3>2
    <3>3. CASE WsRestores /\ Queued' \subseteq Queued \cup {ws.tick}
      <4>1. ws # Idle /\ since' = ws.at
        BY <3>3 DEF WsRestores
      <4> QED
        BY <2>2, <4>1
    <3> QED
      BY <2>3, <3>2, <3>3, QueuedGrows
  <2> QED
    BY <1>3, <1>s, <2>1, <2>2, <2>3 DEF SinceFollows
<1>4. ASSUME Building', active'.full, health' # "callback"
      PROVE  recv'.state = "HEALTHY" /\ active'.minute \notin gaps'
  <2>1. /\ health # "callback"
        /\ recv'.state = "HEALTHY" \/ recv.state # "HEALTHY"
        /\ \/ Building /\ active.full /\ active'.minute = active.minute
           \/ /\ worker.pc = "insert" /\ worker.full
              /\ active'.minute = MinuteOf(worker.tick.ts)
    BY <1>4, <1>s DEF FullFollows
  <2>2. recv.state = "HEALTHY" /\ active'.minute \notin gaps
    BY <2>1 DEF CoverInv, Covered
  <2> QED
    BY <1>g, <2>1, <2>2
<1>5. ASSUME worker'.pc = "insert", worker'.full, health' # "callback"
      PROVE  recv'.state = "HEALTHY" /\ MinuteOf(worker'.tick.ts) \notin gaps'
  <2>1. UNCHANGED <<recv, since, health>>
    BY <1>5, ReadsFor
  <2>2. PICK t \in Queued : worker'.tick = t /\ since <= MinuteOf(t.ts)
    BY <1>5, ReadsFor
  <2>3. Covered /\ MinuteOf(t.ts) \in Nat
    BY <1>0, <1>5, <2>1, <2>2 DEF CoverInv
  <2>4. recv.state = "HEALTHY"
    BY <1>0, <2>2, <2>3 DEF Covered
  <2>5. MinuteOf(t.ts) \notin gaps
    BY <1>0, <2>2, <2>3, <2>4 DEF Covered
  <2> QED
    BY <1>g, <2>1, <2>2, <2>4, <2>5
<1> QED
  BY <1>1, <1>2, <1>3, <1>4, <1>5 DEF CoverInv, Covered

\* A stored minute that claims full coverage saw no outage, although the worker
\* may lag the websocket by the whole queue, and the feed may be lost, restored
\* and lost again meanwhile: the coverage begins after the minute of the
\* restoring tick, and every tick still in hand is of that minute or earlier.
\* What may not happen is that a thread is overtaken where Prompt names it.
THEOREM CoverageIsHonest == ~Lags => (Spec => []NoFalseCoverage)
<1> SUFFICES ASSUME ~Lags PROVE Spec => []NoFalseCoverage
  OBVIOUS
<1>1. Init => FeedInv /\ CoverInv
  <2> SUFFICES ASSUME Init PROVE FeedInv /\ CoverInv
    OBVIOUS
  <2>1. /\ clock = 0 /\ recv = NoRecv /\ queue = <<>> /\ ws = Idle /\ health = "idle"
        /\ worker = Running /\ since = Never /\ active = NoCandle /\ rows1 = {} /\ gaps = {0}
        /\ main = "run"
    BY DEF Init
  <2>2. Queued = {} /\ recv.state = "STARTING" /\ ~Building /\ worker.pc = "run"
    BY <2>1 DEF Queued, Running, NoRecv, Building, NoCandle
  <2>3. ~recv.stop
    BY <2>1 DEF NoRecv
  <2>4. FeedInv
    BY <2>1, <2>2, <2>3 DEF FeedInv
  <2>5. CoverInv
    BY <2>1, <2>2 DEF CoverInv, Covered
  <2> QED
    BY <2>4, <2>5
<1>2. TypeOK /\ FeedInv /\ CoverInv /\ [Next]_vars => FeedInv' /\ CoverInv'
  <2> SUFFICES ASSUME TypeOK, FeedInv, CoverInv, [Next]_vars PROVE FeedInv' /\ CoverInv'
    OBVIOUS
  <2>1. FeedInv'
    BY FeedStays
  <2>2. CASE Next
    BY <2>1, <2>2, CoverStays
  <2>3. CASE UNCHANGED vars
    <3>1. CoverInv'
      BY <2>3 DEF vars, builder, store, CoverInv, Covered, Queued, Building
    <3> QED
      BY <2>1, <3>1
  <2> QED
    BY <2>1, <2>2, <2>3
<1>3. CoverInv => NoFalseCoverage
  BY DEF CoverInv, NoFalseCoverage
<1> QED
  BY <1>1, <1>2, <1>3, Types, PTL DEF Spec
=============================================================================
