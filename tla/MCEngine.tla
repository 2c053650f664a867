-------------------------------- MODULE MCEngine --------------------------------
(***************************************************************************)
(* Instances of the engine for TLC.  Each run admits its own adversities.  *)
(***************************************************************************)
EXTENDS EngineProperties

CONSTANTS t1, t2, t3, A

OneTrade    == {t1}
TwoTrades   == {t1, t2}
ThreeTrades == {t1, t2, t3}

\* Every trade is in stock A: re-entry is the case where trades can mix.
InA  == [t \in Trades |-> A]
Long == [t \in Trades |-> 1]
Short == [t \in Trades |-> -1]
OneShort == [t \in Trades |-> IF t = t3 THEN -1 ELSE 1]

EntryFaults == {<<f, "entry">> : f \in {"slow", "partial", "unseen", "raised", "refused",
                                        "rejected", "adverse"}}
StopFaults  == {<<f, "stop">> : f \in {"raised", "rejected", "refused", "cancelled", "edited"}}
ExitFaults  == {<<f, "exit">> : f \in {"raised", "rejected", "refused", "cancelled", "partial"}}
ReadFaults  == {<<"unreadable", w>> : w \in {"positions", "orders"}}

\* One trade's whole life.  Not admitted, because the code does not survive
\* them: see the README.
LifeEvents ==
  EntryFaults \cup StopFaults \cup ExitFaults \cup ReadFaults \cup
  {<<"lost", "entry">>, <<"lost", "cancel">>, <<"raised", "cancel">>, <<"raced", "entry">>,
   <<"stale", "feed">>, <<"crash", "engine">>}

\* Trades of one stock one after another.
ReentryEvents ==
  {<<"adverse", "exit">>, <<"adverse", "stop">>, <<"partial", "exit">>,
   <<"raised", "exit">>, <<"cancelled", "stop">>, <<"cancelled", "exit">>,
   <<"unreadable", "orders">>, <<"crash", "engine">>}

\* Everything after which a call is repeated or two exits overlap: replies
\* lost, crashes between call and commit, a human who closes in Kite too.
RepeatEvents ==
  {<<"lost_unseen", "entry">>, <<"slow", "entry">>, <<"lost", "stop">>, <<"lost", "exit">>,
   <<"lost", "cancel">>, <<"raced", "stop">>, <<"partial", "stop">>, <<"cancelled", "stop">>,
   <<"closed", "human">>, <<"closed_over", "human">>, <<"early", "close">>,
   <<"crash", "engine">>, <<"crash", "mid_entry">>, <<"crash", "mid_stop">>,
   <<"crash", "mid_flatten">>}

\* Liveness: calls fail, are lost or late, stops disappear; the process lives
\* and a market exit, once accepted, executes.
LiveEvents ==
  {<<f, "entry">> : f \in {"slow", "adverse", "lost"}} \cup
  {<<f, "stop">> : f \in {"raised", "refused", "cancelled"}} \cup
  {<<"raised", "exit">>, <<"adverse", "exit">>} \cup ReadFaults \cup
  {<<"lost", "cancel">>, <<"raised", "cancel">>}

\* The stop fills while it is being cancelled.
StopRaces == {<<"raced", "stop">>}
=============================================================================
