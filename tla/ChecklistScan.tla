------------------------------ MODULE ChecklistScan ------------------------------
(***************************************************************************)
(* What the pre-market checklist sees of the prepared data.                *)
(*                                                                         *)
(* A scan looks at the shape of the data: which symbols and minutes are    *)
(* there for the prior session.  It can not see whether the baselines and  *)
(* the five-minute candles were derived from the history as it is now; the *)
(* dirty stages of the activity record are kept for that.                  *)
(***************************************************************************)
EXTENDS Naturals

\* STAGES, in the order they are prepared.
Stage == <<"kite", "instruments", "historical", "baselines", "five-minute">>
Stages == {Stage[i] : i \in 1 .. 5}
Derived == {"baselines", "five-minute"}
Sources == {"instruments", "historical"}

(* The data, as far as stages differ by it:                                *)
(*   kite         no check of today's token, a failed one, a passed one    *)
(*   instruments  incomplete, collected over a week ago, complete          *)
(*   historical   sessions are behind; complete enough for the baselines   *)
(*                but not every minute the five-minute candles need; full  *)
(*   baselines and five-minute: not there for the prior session; derived   *)
(*                from a history that has changed since; from the present  *)
Data == [kite : {"unchecked", "invalid", "valid"},
         instruments : {"partial", "old", "full"},
         historical : {"behind", "gapped", "full"},
         baselines : {"none", "stale", "fresh"},
         five : {"none", "stale", "fresh"}]

Rank == [ok |-> 1, warning |-> 2, needs_update |-> 3, failed |-> 4]
Status == DOMAIN Rank

\* _worst_status
Worst(statuses) == CHOOSE s \in statuses : \A t \in statuses : Rank[t] <= Rank[s]

KiteAuth(data) ==
  [unchecked |-> "warning", invalid |-> "failed", valid |-> "ok"][data.kite]

Instruments(data) ==
  [partial |-> "needs_update", old |-> "warning", full |-> "ok"][data.instruments]

\* What a scan asks of the rows: a symbol behind the prior session; vectors
\* up to 15:00 as of it; a bar for each five minutes of it.
Behind(data) == data.historical = "behind"
Covered(data) == data.baselines # "none"
Whole(data) == data.five # "none"

Historical(data) == IF Behind(data) THEN "needs_update" ELSE "ok"

Baselines(data) == IF Covered(data) THEN "ok" ELSE "needs_update"

FiveMinute(data) == IF Whole(data) THEN "ok" ELSE "needs_update"

SourceAreas(data) ==
  [kite |-> KiteAuth(data), instruments |-> Instruments(data), historical |-> Historical(data)]

DerivedAreas(data) == [baselines |-> Baselines(data), five |-> FiveMinute(data)]

\* The status of a stage's area.
Area(sources, derived, stage) ==
  CASE stage = "baselines"   -> derived.baselines
    [] stage = "five-minute" -> derived.five
    [] OTHER                 -> sources[stage]

OkStages(sources, derived) == {s \in Stages : Area(sources, derived, s) = "ok"}

\* The statuses among some areas.
Seeing(areas) == {areas[a] : a \in DOMAIN areas}

\* offline_checks, once the databases are there.
Offline(statuses) == IF statuses \cap {"failed", "needs_update"} # {} THEN "failed" ELSE "ok"

\* overall_status of fetch_premarket_checklist; dashboard_readiness is the
\* worst of some of the areas.
Overall(statuses) == Worst(statuses \cup {Offline(statuses)})

\* repair_plan has sessions to fetch, or can not be made.
RepairNeeded(data) == data.historical # "full" \/ data.instruments = "partial"
=============================================================================
