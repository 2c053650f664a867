---------------------------- MODULE EngineProperties ----------------------------
(***************************************************************************)
(* What must hold of the engine and the account together.                  *)
(***************************************************************************)
EXTENDS ExecutionEngine

Abs(n) == IF n < 0 THEN -n ELSE n

WorkingStops(t) == {i \in OrdersOf("stop", t) : Working(i)}

\* Every share held at the broker belongs to a trade the engine still tracks
\* and is on that trade's side: no path of entry, exit, crash or lost reply
\* leaves exposure that no later tick will protect or square off.
NoUntrackedExposure ==
  \A s \in Symbols :
    net[s] # 0 => \E t \in OpenRows : SymbolOf[t] = s /\ net[s] * DirOf[t] > 0

\* The account never ends up on the other side of a trade it took, the
\* hazard cancel_stop is written against ("sell twice and leave the account
\* accidentally net short").
NeverReversed ==
  \A s \in Symbols :
    net[s] # 0 => \E t \in Trades : SymbolOf[t] = s /\ net[s] * DirOf[t] > 0

\* A trade recorded as REJECTED or CANCELLED bought nothing and has no order
\* that still could: neither status may hide a position.
RefusedTradesHoldNothing ==
  \A t \in Trades :
    row[t].state \in {"REJECTED", "CANCELLED"} =>
      \A i \in OrdersOf("entry", t) : orders[i].filled = 0 /\ ~Working(i)

\* Whatever was lost, retried or restarted, one trade has at most one stop
\* working at the broker.
AtMostOneStop == \A t \in Trades : Cardinality(WorkingStops(t)) <= 1

\* A trade the engine has put away leaves no stop behind that could later
\* open a position by itself.
NoOrphanStop == \A t \in Trades : row[t].state \in Terminal => WorkingStops(t) = {}

\* The exits of a trade that are filled or can still fill never exceed its
\* entry: stop and market exit are never both able to sell the same shares.
ExitsWithinEntry ==
  \A t \in Trades :
    LET exits == OrdersOf("stop", t) \cup OrdersOf("exit", t)
        could == MapThenSumSet(
                   LAMBDA i : orders[i].filled + (IF Working(i) THEN Left(i) ELSE 0), exits)
    IN could <= FilledOf(orders, OrdersOf("entry", t))

\* One entry order per trade, ever: the durable intent and the tag lookup
\* hold across crashes and restarts.
AtMostOneEntry ==
  \A i, j \in Ids :
    /\ orders[i].kind = "entry" /\ orders[j].kind = "entry"
    /\ orders[i].trade = orders[j].trade
    => i = j

\* One market exit per trade, ever: a command applied again after a crash, a
\* second trigger and a retry after a lost reply all find the exit sent first.
AtMostOneExit ==
  \A i, j \in Ids :
    /\ orders[i].kind = "exit" /\ orders[j].kind = "exit"
    /\ orders[i].trade = orders[j].trade
    => i = j

\* The positions book nets by symbol, so two open trades in one stock could
\* not be told apart.
OneOpenTradePerSymbol ==
  \A t, u \in OpenRows : SymbolOf[t] = SymbolOf[u] => t = u

\* When the process ends by its own square-off, "every position is confirmed
\* CLOSED": the account is flat and none of its orders can trade any more.
FinishedMeansFlat ==
  eng.proc = "finished" =>
    /\ OpenRows = {}
    /\ \A s \in Symbols : net[s] = 0
    /\ \A i \in Ids : ~Working(i)

\* No order is booked as the exit of two trades.
ExitsBookedOnce ==
  \A t, u \in Trades : t # u => row[t].exits \cap row[u].exits = {}

\* A closed trade is booked in full: the exits counted for it cover every
\* share its entry bought.
ClosedBookedInFull ==
  \A t \in Trades :
    row[t].state = "CLOSED" =>
      FilledOf(orders, row[t].exits) >= FilledOf(orders, OrdersOf("entry", t))

\* The close reason names the order that closed the trade: its own stop, an
\* exit the engine sent for the recorded reason, or an order of a human's.
CloseReasonIsTrue ==
  \A t \in Trades :
    row[t].state = "CLOSED" =>
      /\ row[t].closing \in Ids
      /\ LET o == orders[row[t].closing]
         IN CASE row[t].reason = "STOP_HIT" -> o.kind = "stop" /\ o.trade = t
              [] row[t].reason \in ActiveReasons -> o.kind = "exit" /\ o.trade = t
              [] OTHER -> o.kind = "human"

\* The rows follow the state machine of engine_orders.py: every transition()
\* the engine makes is legal, so none but the one of SaveExitIllegal raises.
RowStates == [t \in Trades |-> row[t].state]
Lifecycle == INSTANCE OrderLifecycle WITH state <- RowStates
RowsFollowLifecycle == Lifecycle!Spec

\* Once the day's booked losses have reached the cap no entry order is sent,
\* by this process or by one started after it.
EntrySent == \E i \in DOMAIN orders' \ Ids : orders'[i].kind = "entry"
NoEntryPastLossCap == [][EntrySent => ~(ClosedLoss >= LossCap)]_vars

-----------------------------------------------------------------------------
(* What must happen eventually.  The loop keeps ticking, a MARKET order of  *)
(* the session executes and Kite's order book catches up.  The human, the   *)
(* API, the clock, stops and adversities owe nothing.                       *)

MarketExecutes ==
  \E i \in Ids : orders[i].kind \in {"entry", "exit"} /\ Execute(i) /\ UNCHANGED engineVars
BookCatchesUp == \E i \in Ids : Show(i) /\ UNCHANGED engineVars

Fairness ==
  /\ WF_vars(Tick)
  /\ WF_vars(MarketExecutes) /\ WF_vars(BookCatchesUp)

FairSpec == Spec /\ Fairness

\* A square-off, once begun, ends with every position confirmed closed and
\* the process gone, however the replies to its orders fail on the way.
ShutdownCompletes ==
  (eng.proc = "up" /\ eng.shut # "NONE") ~> (eng.proc # "up")

\* Shares bought do not stay without a stop: the position becomes protected,
\* is being sold, or turns out to be sold.
HeldSharesGetCovered ==
  \A t \in Trades :
    (eng.proc = "up" /\ row[t].state = "ENTERED")
      ~> (row[t].state # "ENTERED" \/ eng.proc # "up")

\* A command is resolved while the engine lives; one that keeps failing does
\* not block the queue for ever.
Pending(c) == c \in DOMAIN cmds /\ cmds[c].status = "PENDING"
CommandsResolved ==
  \A c \in 1 .. MaxCommands : Pending(c) ~> (~Pending(c) \/ eng.proc # "up")

-----------------------------------------------------------------------------
(* The inductive invariant: what the tick relies on without saying so.      *)

\* A call returns to the loop that made it, and the row in hand has left that
\* loop's list.
JobCoherent ==
  /\ job.at \in LoopSteps => job.step = job.at
  /\ job.at \in Reads => job.step = "reconcile"
  /\ job.at \in OnRow => job.t \in Trades \ job.todo

\* Across a broker call the row in hand keeps the state the call was made for:
\* the engine alone writes the table.
RowInHand ==
  /\ job.at \in {"place_stop", "save_stop"} => row[job.t].state = "ENTERED"
  /\ job.at \in OnIntent => row[job.t].state = "PENDING_ENTRY"
  /\ job.at \in {"save_fill", "save_cancel"} => row[job.t].state = "ENTRY_SUBMITTED"
  /\ job.at \in OnFlatten => row[job.t].state \in Unfilled \cup Holding

\* So do the rows a loop has yet to reach.
RowsAhead ==
  /\ job.step = "protect" => \A t \in job.todo : row[t].state = "ENTERED"
  /\ job.step = "ingest" => \A t \in job.todo : row[t].state = "NONE"

\* An order id in a row, or about to be written to one, is that of an order at
\* the broker.
RowIds ==
  \A t \in Trades :
    /\ row[t].stop \in Ids \cup {0}
    /\ row[t].entry \in Ids \cup {0}
    /\ row[t].state = "ENTRY_SUBMITTED" => row[t].entry \in Ids

JobIds ==
  /\ job.at \in {"save_stop", "save_exit", "save_entry", "save_fill"} => job.id \in Ids
  /\ job.at = "cancel_stop" => row[job.t].stop # 0
  /\ job.at = "mark" => job.got \in {"APPLIED", "REJECTED"}

\* No entry order without a durable row first, and none before the call.
IntentFirst ==
  \A i \in Ids :
    orders[i].kind = "entry" =>
      orders[i].trade \in Trades /\ row[orders[i].trade].state # "NONE"

NothingSent == job.at = "send_entry" => OrdersOf("entry", job.t) = {}

JobInv  == JobCoherent /\ RowInHand /\ RowsAhead /\ JobIds /\ NothingSent
BookInv == RowIds /\ IntentFirst /\ AtMostOneEntry
IInv    == TypeOK /\ JobInv /\ BookInv
=============================================================================
