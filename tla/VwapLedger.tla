------------------------------- MODULE VwapLedger -------------------------------
(***************************************************************************)
(* The VWAP qualifier for one stock: while a setup is armed, a ledger of   *)
(* the session's minutes is kept, and a trigger is judged by the average   *)
(* price of its minutes.                                                   *)
(*                                                                         *)
(* Three threads share it.  The worker of the observation runner completes *)
(* candles, arms, disarms and triggers; the scheduler fetches the minutes  *)
(* before the arm from Kite's history; the receiver's threads report the   *)
(* state of the feed.  A step is what one of them does under a lock, or    *)
(* between two.                                                            *)
(*                                                                         *)
(* A minute of the ledger is `live', from a whole candle; `hist', from the *)
(* history once it was over; or `part', from the history while it was      *)
(* still going on, which the warm-up's end includes.  Prices are abstract: *)
(* a judgement depends on the gap to the average.                          *)
(***************************************************************************)
EXTENDS Integers, FiniteSets

CONSTANTS
  Setups,       \* setups of the stock, one after another
  LastMinute,   \* minutes 1 .. LastMinute of the session
  MaxFailures,  \* max_failures of the scheduler
  MaxFlaps,     \* bound: interruptions of the feed
  MaxLost,      \* bound: minutes without a candle worth keeping
  MaxMissed     \* bound: verdicts that are not written

ASSUME VwapAssumption ==
  /\ IsFiniteSet(Setups) /\ LastMinute \in Nat \ {0} /\ MaxFailures \in Nat \ {0}
  /\ MaxFlaps \in Nat /\ MaxLost \in Nat /\ MaxMissed \in Nat

Session == 1 .. LastMinute

VARIABLES
  clock,    \* the minute of the wall clock
  now,      \* the minute whose candle is being built
  whole,    \* that candle is whole so far
  setup,    \* what the continuation engine has made of each setup
  pc,       \* what the worker does next, and with what it has read
  refs,     \* ref_count, 0 when the registry does not hold the stock
  held,     \* setup_ids
  cache,    \* cache_state, "cold" when the registry does not hold the stock
  ledger,   \* the minutes of the stock's ledger
  pending,  \* end_exclusive of the pending warm-up, 0 without one
  queued,   \* how often the stock is in the queue
  job,      \* what the scheduler is at
  failures, \* _failures, up to max_failures
  feed,     \* what the receiver last learnt of the feed
  told,     \* callbacks of the receiver that are still to be made
  stale,    \* _feed_stale
  verdicts, \* live_vwap_qualifications
  flaps,    \* interruptions so far
  kept,     \* history: minutes whose whole candle came since the ledger was made
  lost,     \* minutes without a whole candle
  missed    \* history: setups whose verdict was not written

worker == <<now, setup, pc, kept, lost>>
registry == <<refs, held, cache>>
scheduler == <<pending, queued, job, failures>>
feeding == <<feed, told, stale, flaps>>
output == <<verdicts, missed>>
vars == <<clock, whole, worker, registry, ledger, scheduler, feeding, output>>

Empty == [m \in Session |-> "none"]

Idle == [at |-> "idle", setup |-> "none", cache |-> "cold", stale |-> FALSE]
At(where) == pc.at = where
NoJob == [at |-> "idle", end |-> 0, rows |-> Empty]

-----------------------------------------------------------------------------
(* The worker. *)

\* The minute passes on the wall clock.
Tick ==
  /\ clock < LastMinute /\ clock' = clock + 1
  /\ UNCHANGED <<whole, worker, registry, ledger, scheduler, feeding, output>>

\* A tick of a later minute completes the candle; on_one_minute keeps it when
\* it is whole and a setup holds the stock, in place of what history gave.
CandleDone ==
  /\ At("idle") /\ now < clock
  /\ \E good \in (IF whole THEN BOOLEAN ELSE {FALSE}) :
       LET live == good /\ refs > 0
       IN /\ good \/ lost < MaxLost
          /\ ledger' = IF live THEN [ledger EXCEPT ![now] = "live"] ELSE ledger
          /\ kept' = IF live THEN kept \cup {now} ELSE kept
          /\ lost' = IF good THEN lost ELSE lost + 1
  /\ now' = now + 1
  /\ whole' = ~stale
  /\ UNCHANGED <<clock, setup, pc, registry, scheduler, feeding, output>>

\* VwapArmRegistry.arm: the first setup to hold the stock has it warmed up.
Arm(s) ==
  /\ At("idle") /\ setup[s] = "new" /\ \A u \in Setups : setup[u] # "armed"
  /\ setup' = [setup EXCEPT ![s] = "armed"]
  /\ refs' = refs + 1 /\ held' = held \cup {s}
  /\ IF refs = 0
     THEN cache' = "warming" /\ pc' = [Idle EXCEPT !.at = "warm"]
     ELSE UNCHANGED <<cache, pc>>
  /\ UNCHANGED <<clock, now, whole, kept, lost, ledger, scheduler, feeding, output>>

\* _on_warmup and request_warmup: the minute of the wall clock is included.
WarmEnd == clock + 1

RequestWarmup ==
  /\ At("warm")
  /\ pending' = WarmEnd
  /\ queued' = IF queued = 0 THEN 1 ELSE queued
  /\ pc' = Idle
  /\ UNCHANGED <<clock, now, whole, setup, kept, lost, registry, ledger, job, failures,
                 feeding, output>>

\* The setup ends with no trigger: VwapArmRegistry.disarm.
Disarm(s) ==
  /\ At("idle") /\ setup[s] = "armed"
  /\ setup' = [setup EXCEPT ![s] = "disarmed"]
  /\ s \in held
  /\ held' = held \ {s} /\ refs' = refs - 1
  /\ IF refs = 1
     THEN cache' = "cold" /\ pc' = [Idle EXCEPT !.at = "cold"]
     ELSE UNCHANGED <<cache, pc>>
  /\ UNCHANGED <<clock, now, whole, kept, lost, ledger, scheduler, feeding, output>>

\* destroy_token.
Destroy ==
  /\ At("cold")
  /\ ledger' = Empty /\ kept' = {}
  /\ pc' = Idle
  /\ UNCHANGED <<clock, now, whole, setup, lost, registry, scheduler, feeding,
                 output>>

\* A rejected trigger is no business of the qualifier, which goes on holding
\* the stock for it.
Reject(s) ==
  /\ At("idle") /\ setup[s] = "armed"
  /\ setup' = [setup EXCEPT ![s] = "rejected"]
  /\ UNCHANGED <<clock, now, whole, pc, kept, lost, registry, ledger, scheduler, feeding,
                 output>>

\* on_triggered and _classify, as far as the registry's state.
Trigger(s) ==
  /\ At("idle") /\ setup[s] = "armed"
  /\ setup' = [setup EXCEPT ![s] = "triggered"]
  /\ pc' = [Idle EXCEPT !.at = "feed", !.setup = s, !.cache = cache]
  /\ UNCHANGED <<clock, now, whole, kept, lost, registry, ledger, scheduler, feeding,
                 output>>

ReadFeed ==
  /\ At("feed")
  /\ pc' = [pc EXCEPT !.at = "snapshot", !.stale = stale]
  /\ UNCHANGED <<clock, now, whole, setup, kept, lost, registry, ledger, scheduler,
                 feeding, output>>

\* has_continuous_chain.
Chain(through) == \A m \in 1 .. through : ledger[m] # "none"

\* snapshot: the minute of the trigger's tick is not over.
Through == now - 1

\* quality_ok of the snapshot.
Sound ==
  /\ pc.cache \notin {"cold", "warming", "degraded"}
  /\ ~pc.stale
  /\ Through >= 1 /\ Chain(Through)

\* classify_gap: below the average, up to the first bound, up to the second,
\* beyond; a gap or an average that is not finite, or no volume, is none.
Gaps == {"below", "near", "far", "beyond", "none"}
ClassOf(gap) ==
  CASE gap \in {"below", "beyond"} -> "REJECT"
    [] gap = "near" -> "ACCEPT"
    [] gap = "far"  -> "LIMITED"
    [] OTHER        -> "UNAVAILABLE"

NoVerdict == [class |-> "none", used |-> Empty, cutoff |-> 0, stale |-> FALSE]

\* insert_sync: the row is written, or after its retries it is not.
Insert(row) ==
  \/ verdicts' = [verdicts EXCEPT ![pc.setup] = row] /\ UNCHANGED missed
  \/ /\ Cardinality(missed) < MaxMissed
     /\ missed' = missed \cup {pc.setup}
     /\ UNCHANGED verdicts

\* The snapshot is taken under the cache's lock, judged, and written at once.
Judge ==
  /\ At("snapshot")
  /\ \E gap \in (IF Sound THEN Gaps ELSE {"none"}) :
       Insert([class |-> ClassOf(gap), used |-> ledger, cutoff |-> now, stale |-> pc.stale])
  /\ pc' = Idle
  /\ UNCHANGED <<clock, now, whole, setup, kept, lost, registry, ledger, scheduler,
                 feeding>>

-----------------------------------------------------------------------------
(* The scheduler. *)

\* _loop, then _process_token: the queue's entry, then the pending job, which
\* an earlier entry may have taken.
Pop ==
  /\ job.at = "idle" /\ queued > 0
  /\ queued' = queued - 1
  /\ job' = [NoJob EXCEPT !.at = "popped"]
  /\ UNCHANGED <<clock, whole, worker, registry, ledger, pending, failures, feeding,
                 output>>

Take ==
  /\ job.at = "popped"
  /\ job' = IF pending = 0 THEN NoJob ELSE [NoJob EXCEPT !.at = "fetch", !.end = pending]
  /\ pending' = 0
  /\ UNCHANGED <<clock, whole, worker, registry, ledger, queued, failures, feeding,
                 output>>

\* What Kite's history holds of the minutes before `end' at this moment.
Rows(end) ==
  [m \in Session |-> IF m >= end \/ m > clock THEN "none"
                     ELSE IF m < clock THEN "hist" ELSE "part"]

\* fetch_one_minute answers, or fails.
Fetch ==
  /\ job.at = "fetch"
  /\ job' = [job EXCEPT !.at = "apply", !.rows = Rows(job.end)]
  /\ UNCHANGED <<clock, whole, worker, registry, ledger, pending, queued, failures,
                 feeding, output>>

FetchFails ==
  /\ job.at = "fetch"
  /\ job' = [job EXCEPT !.at = "failed"]
  /\ UNCHANGED <<clock, whole, worker, registry, ledger, pending, queued, failures,
                 feeding, output>>

\* Mutant: the history replaces whatever the ledger holds.
HistoryFirst(old, row) == IF row = "none" THEN old ELSE row

\* _apply_entry for a row of the history: what is there stays.
Applied(old, row) == IF old = "none" THEN row ELSE old

\* apply_historical_minutes makes the ledger anew when it was destroyed.
Apply ==
  /\ job.at = "apply"
  /\ ledger' = [m \in Session |-> Applied(ledger[m], job.rows[m])]
  /\ failures' = 0
  /\ job' = [job EXCEPT !.at = "ready"]
  /\ UNCHANGED <<clock, whole, worker, registry, pending, queued, feeding, output>>

SetCache(state) == cache' = IF refs = 0 THEN cache ELSE state

Ready ==
  /\ job.at = "ready"
  /\ SetCache("ready")
  /\ job' = NoJob
  /\ UNCHANGED <<clock, whole, worker, refs, held, ledger, pending, queued, failures,
                 feeding, output>>

Failures == IF failures < MaxFailures THEN failures + 1 ELSE failures

\* Mutant: the job that failed is not queued again.
RequeueNone == UNCHANGED <<pending, queued>>

\* A job that failed is queued again, in the place of any asked for meanwhile.
Requeue == pending' = job.end /\ queued' = queued + 1

Failed ==
  /\ job.at = "failed"
  /\ failures' = Failures
  /\ IF Failures >= MaxFailures
     THEN SetCache("degraded") /\ UNCHANGED <<pending, queued>>
     ELSE Requeue /\ UNCHANGED cache
  /\ job' = NoJob
  /\ UNCHANGED <<clock, whole, worker, refs, held, ledger, feeding, output>>

-----------------------------------------------------------------------------
(* The feed. *)

\* The receiver's state changes under its lock, the callbacks follow outside
\* it: the health thread tells of an interruption, the ticker's thread, at the
\* next tick, of the restoration, perhaps before it.
Interrupted ==
  /\ feed = "up" /\ told = {} /\ flaps < MaxFlaps
  /\ feed' = "down" /\ told' = {"down"} /\ flaps' = flaps + 1
  /\ UNCHANGED <<clock, whole, worker, registry, ledger, scheduler, stale, output>>

Restored ==
  /\ feed = "down" /\ feed' = "up" /\ told' = told \cup {"up"}
  /\ UNCHANGED <<clock, whole, worker, registry, ledger, scheduler, stale, flaps, output>>

\* on_feed_interrupted and on_feed_ready: the candle builder, then the
\* qualifier.
MarkFeed ==
  /\ \E news \in told :
       /\ told' = told \ {news}
       /\ stale' = (news = "down")
       /\ whole' = (whole /\ news = "up")
  /\ UNCHANGED <<clock, worker, registry, ledger, scheduler, feed, flaps, output>>

-----------------------------------------------------------------------------
Init ==
  /\ clock = 1 /\ now = 1 /\ whole = FALSE
  /\ setup = [s \in Setups |-> "new"] /\ pc = Idle
  /\ refs = 0 /\ held = {} /\ cache = "cold" /\ ledger = Empty
  /\ pending = 0 /\ queued = 0 /\ job = NoJob /\ failures = 0
  /\ feed = "up" /\ told = {} /\ stale = FALSE /\ flaps = 0
  /\ verdicts = [s \in Setups |-> NoVerdict]
  /\ kept = {} /\ lost = 0 /\ missed = {}

Worker ==
  \/ RequestWarmup \/ Destroy \/ ReadFeed \/ Judge
  \/ \E s \in Setups : Arm(s) \/ Disarm(s) \/ Reject(s) \/ Trigger(s)

Scheduler == Pop \/ Take \/ Fetch \/ FetchFails \/ Apply \/ Ready \/ Failed

Next ==
  \/ Tick \/ CandleDone \/ Worker \/ Scheduler \/ Interrupted \/ Restored \/ MarkFeed

Spec == Init /\ [][Next]_vars

\* The worker ends the call it is in; the scheduler's thread loops, and each
\* fetch ends.
FairSpec ==
  /\ Spec
  /\ WF_vars(RequestWarmup \/ Destroy \/ ReadFeed \/ Judge)
  /\ WF_vars(Scheduler)
=============================================================================
