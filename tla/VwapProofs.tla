------------------------------- MODULE VwapProofs -------------------------------
(***************************************************************************)
(* A VWAP verdict rests on minutes, proved for every number of setups,     *)
(* minutes, failed fetches and interruptions of the feed.                  *)
(*                                                                         *)
(* What the ledger has of a minute is only ever replaced by the whole      *)
(* candle of it, which the history then leaves alone; and whole candles    *)
(* come in the order of their minutes.  So a verdict, once written, is not *)
(* made wrong by a candle that comes after it.                             *)
(***************************************************************************)
EXTENDS VwapProperties, TLAPS

\* What the history, and the ledger, may hold of a minute.
Fetched == {"none", "hist", "part"}
Minutes == Fetched \cup {"live"}

TypesHere ==
  /\ clock \in Session /\ now \in 1 .. clock
  /\ ledger \in [Session -> Minutes]
  /\ job \in [at : {"idle", "popped", "fetch", "apply", "failed", "ready"}, end : Nat,
              rows : [Session -> Fetched]]
  /\ pending \in Nat
  /\ verdicts = [s \in Setups |-> verdicts[s]]

\* The whole candles that are kept are those of minutes gone by, and are there.
KeptAreLive == kept \subseteq 1 .. now - 1 /\ \A m \in kept : ledger[m] = "live"

\* A judgement is not about minutes that are still to come.
Rests ==
  \A s \in Setups : Judged(s) =>
    /\ verdicts[s].cutoff \in 1 .. now /\ ~verdicts[s].stale
    /\ \A m \in 1 .. verdicts[s].cutoff - 1 :
         /\ verdicts[s].used[m] \in Minutes \ {"none"}
         /\ m \in kept => verdicts[s].used[m] = "live"

VwapInv == TypesHere /\ KeptAreLive /\ Rests

-----------------------------------------------------------------------------
\* What is in the ledger stays when the history is applied.
LEMMA AppliedKeeps ==
  ASSUME NEW old \in Minutes, NEW row \in Fetched
  PROVE  Applied(old, row) \in Minutes /\ (old = "live" => Applied(old, row) = "live")
BY DEF Applied, Minutes, Fetched

LEMMA RowsTyped ==
  ASSUME NEW end
  PROVE  Rows(end) \in [Session -> Fetched]
BY DEF Rows, Fetched

LEMMA TypesNext ==
  ASSUME VwapAssumption, TypesHere, [Next]_vars
  PROVE  TypesHere'
<1> USE DEF TypesHere
<1>0. LastMinute \in Nat /\ LastMinute >= 1 /\ NoJob.at = "idle"
      /\ NoJob \in [at : {"idle", "popped", "fetch", "apply", "failed", "ready"}, end : Nat,
                    rows : [Session -> Fetched]]
  BY DEF VwapAssumption, NoJob, Empty, Fetched
<1>1. CASE Tick
  BY <1>0, <1>1 DEF Tick, Session, worker, scheduler, output
<1>2. CASE CandleDone
  <2>1. now' = now + 1 /\ now < clock /\ UNCHANGED <<clock, job, pending, verdicts>>
    BY <1>2 DEF CandleDone, scheduler, output
  <2>2. ledger' = ledger \/ ledger' = [ledger EXCEPT ![now] = "live"]
    BY <1>2 DEF CandleDone
  <2>3. now' \in 1 .. clock'
    BY <1>0, <2>1 DEF Session
  <2>4. ledger' \in [Session -> Minutes]
    BY <2>2 DEF Minutes
  <2> QED
    BY <2>1, <2>3, <2>4
<1>3. ASSUME NEW s \in Setups, Arm(s) \/ Disarm(s) \/ Reject(s) \/ Trigger(s)
      PROVE  TypesHere'
  BY <1>3 DEF Arm, Disarm, Reject, Trigger, scheduler, output
<1>4. CASE RequestWarmup
  BY <1>0, <1>4 DEF RequestWarmup, WarmEnd, Session, output
<1>5. CASE Destroy
  BY <1>5 DEF Destroy, scheduler, output, Empty, Minutes, Fetched
<1>6. CASE ReadFeed
  BY <1>6 DEF ReadFeed, scheduler, output
<1>7. CASE Judge
  BY <1>7 DEF Judge, Insert, scheduler
<1>8. CASE Pop
  BY <1>0, <1>8 DEF Pop, NoJob, Empty, Fetched, worker, output
<1>9. CASE Take
  <2>1. [NoJob EXCEPT !.at = "fetch", !.end = pending] \in
          [at : {"idle", "popped", "fetch", "apply", "failed", "ready"}, end : Nat,
           rows : [Session -> Fetched]]
    BY DEF NoJob, Empty, Fetched
  <2> QED
    BY <1>0, <1>9, <2>1 DEF Take, worker, output
<1>10. CASE Fetch
  BY <1>10, RowsTyped DEF Fetch, worker, output
<1>11. CASE FetchFails
  BY <1>11 DEF FetchFails, worker, output
<1>12. CASE Apply
  <2>1. \A m \in Session : Applied(ledger[m], job.rows[m]) \in Minutes
    BY AppliedKeeps
  <2> QED
    BY <1>12, <2>1 DEF Apply, worker, output
<1>13. CASE Ready
  BY <1>0, <1>13 DEF Ready, worker, output
<1>14. CASE Failed
  BY <1>0, <1>14 DEF Failed, Requeue, worker, output
<1>15. CASE Interrupted \/ Restored \/ MarkFeed
  BY <1>15 DEF Interrupted, Restored, MarkFeed, worker, scheduler, output
<1>16. CASE UNCHANGED vars
  BY <1>16 DEF vars, worker, scheduler, output
<1> QED
  BY <1>1, <1>2, <1>3, <1>4, <1>5, <1>6, <1>7, <1>8, <1>9, <1>10, <1>11, <1>12, <1>13, <1>14,
     <1>15, <1>16 DEF Next, Worker, Scheduler

-----------------------------------------------------------------------------
\* Most steps leave alone what the rest is about.
LEMMA StepIs ==
  ASSUME [Next]_vars
  PROVE  \/ CandleDone \/ Destroy \/ Judge \/ Apply
         \/ UNCHANGED <<now, ledger, kept, verdicts>>
BY DEF Next, Worker, Scheduler, Tick, Arm, Disarm, Reject, Trigger, RequestWarmup, ReadFeed,
       Pop, Take, Fetch, FetchFails, Ready, Failed, Interrupted, Restored, MarkFeed, vars,
       worker, output

LEMMA KeptNext ==
  ASSUME VwapAssumption, TypesHere, KeptAreLive, [Next]_vars
  PROVE  KeptAreLive'
<1>1. CASE CandleDone
  <2>1. now \in Nat /\ now' = now + 1 /\ now \in Session
    BY <1>1 DEF CandleDone, TypesHere, Session, VwapAssumption
  <2>2. \/ ledger' = ledger /\ kept' = kept
        \/ ledger' = [ledger EXCEPT ![now] = "live"] /\ kept' = kept \cup {now}
    BY <1>1 DEF CandleDone
  <2>3. kept' \subseteq 1 .. now' - 1
    <3>1. now' - 1 = now /\ now \in 1 .. now /\ 1 .. now - 1 \subseteq 1 .. now
      BY <2>1 DEF Session
    <3> QED
      BY <2>2, <3>1 DEF KeptAreLive
  <2>4. \A m \in kept' : ledger'[m] = "live"
    <3>1. kept \subseteq Session
      BY DEF KeptAreLive, TypesHere, Session, VwapAssumption
    <3> QED
      BY <2>1, <2>2, <3>1 DEF KeptAreLive, TypesHere
  <2> QED
    BY <2>3, <2>4 DEF KeptAreLive
<1>2. CASE Destroy
  BY <1>2 DEF Destroy, KeptAreLive
<1>3. CASE Apply
  <2>1. UNCHANGED <<now, kept>> /\ ledger' = [m \in Session |-> Applied(ledger[m], job.rows[m])]
    BY <1>3 DEF Apply, worker
  <2>2. kept \subseteq Session
    BY DEF KeptAreLive, TypesHere, Session, VwapAssumption
  <2>3. \A m \in kept : Applied(ledger[m], job.rows[m]) = "live"
    BY <2>2, AppliedKeeps DEF KeptAreLive, TypesHere
  <2> QED
    BY <2>1, <2>2, <2>3 DEF KeptAreLive
<1>4. CASE Judge
  BY <1>4 DEF Judge, KeptAreLive
<1>5. CASE UNCHANGED <<now, ledger, kept, verdicts>>
  BY <1>5 DEF KeptAreLive
<1> QED
  BY <1>1, <1>2, <1>3, <1>4, <1>5, StepIs

\* A verdict that is written has seen every minute up to its own.
LEMMA SoundVerdict ==
  ASSUME VwapAssumption, TypesHere, KeptAreLive, NEW gap \in IF Sound THEN Gaps ELSE {"none"},
         ClassOf(gap) \in {"ACCEPT", "LIMITED", "REJECT"}
  PROVE  /\ ~pc.stale
         /\ \A m \in 1 .. now - 1 : ledger[m] \in Minutes \ {"none"}
                                    /\ (m \in kept => ledger[m] = "live")
<1>1. Sound
  BY DEF ClassOf, Gaps
<1>2. \A m \in 1 .. now - 1 : m \in Session
  BY DEF TypesHere, Session, VwapAssumption
<1> QED
  BY <1>1, <1>2 DEF Sound, Chain, Through, TypesHere, KeptAreLive

LEMMA RestsNext ==
  ASSUME VwapAssumption, TypesHere, KeptAreLive, Rests, [Next]_vars
  PROVE  Rests'
<1>0. now \in Nat /\ now >= 1
  BY DEF TypesHere, Session, VwapAssumption
<1>1. CASE CandleDone
  <2>1. now' = now + 1 /\ kept' \subseteq kept \cup {now} /\ UNCHANGED verdicts
    BY <1>1 DEF CandleDone, output
  <2> QED
    BY <1>0, <2>1 DEF Rests, Judged
<1>2. CASE Destroy
  BY <1>2 DEF Destroy, output, Rests, Judged
<1>3. CASE Apply
  BY <1>3 DEF Apply, worker, output, Rests, Judged
<1>4. CASE Judge
  <2>1. PICK gap \in (IF Sound THEN Gaps ELSE {"none"}) :
          Insert([class |-> ClassOf(gap), used |-> ledger, cutoff |-> now, stale |-> pc.stale])
    BY <1>4 DEF Judge
  <2> DEFINE v == [class |-> ClassOf(gap), used |-> ledger, cutoff |-> now, stale |-> pc.stale]
  <2>2. UNCHANGED <<now, kept>>
    BY <1>4 DEF Judge
  <2>3. verdicts' = verdicts \/ verdicts' = [verdicts EXCEPT ![pc.setup] = v]
    BY <2>1 DEF Insert
  <2>4. \A s \in Setups : verdicts'[s] = verdicts[s] \/ verdicts'[s] = v
    BY <2>3 DEF TypesHere
  <2>5. v.class \in {"ACCEPT", "LIMITED", "REJECT"} =>
          /\ v.cutoff \in 1 .. now /\ ~v.stale
          /\ \A m \in 1 .. v.cutoff - 1 : /\ v.used[m] \in Minutes \ {"none"}
                                          /\ m \in kept => v.used[m] = "live"
    BY <1>0, SoundVerdict
  <2> HIDE DEF v
  <2> QED
    BY <2>2, <2>4, <2>5 DEF Rests, Judged
<1>5. CASE UNCHANGED <<now, ledger, kept, verdicts>>
  BY <1>5 DEF Rests, Judged
<1> QED
  BY <1>1, <1>2, <1>3, <1>4, <1>5, StepIs

-----------------------------------------------------------------------------
\* Whichever of worker and scheduler came first, a judgement is made with the
\* feed not known to be down, on a ledger without a hole, and with the whole
\* candle of each minute that had one (VwapQualifierCache.snapshot,
\* _apply_entry).
THEOREM VerdictsRest == Spec => []VerdictRestsOnMinutes
<1>1. Init => VwapInv
  <2> SUFFICES ASSUME Init
               PROVE  VwapInv
    OBVIOUS
  <2>1. TypesHere
    BY VwapAssumption DEF Init, TypesHere, Session, Empty, NoJob, Minutes, Fetched
  <2>2. KeptAreLive
    BY DEF Init, KeptAreLive
  <2>3. Rests
    BY DEF Init, Rests, Judged, NoVerdict
  <2> QED
    BY <2>1, <2>2, <2>3 DEF VwapInv
<1>2. VwapInv /\ [Next]_vars => VwapInv'
  BY VwapAssumption, TypesNext, KeptNext, RestsNext DEF VwapInv
<1>3. VwapInv => VerdictRestsOnMinutes
  BY DEF VwapInv, Rests, VerdictRestsOnMinutes, Minutes, Fetched
<1> QED
  BY <1>1, <1>2, <1>3, PTL DEF Spec
=============================================================================
