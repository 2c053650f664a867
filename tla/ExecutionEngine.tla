---------------------------- MODULE ExecutionEngine ----------------------------
(***************************************************************************)
(* The execution engine process (run_execution_engine.py, engine_core.py   *)
(* and the engine_*.py modules it calls) against KiteBroker.               *)
(*                                                                         *)
(* The process is one thread that repeats a tick: reconcile with the       *)
(* broker, protect, apply commands, check the loss cap and the clock, then *)
(* either square off or take new entries.  One action here is a stretch of *)
(* the tick between two points where the outside can matter: a call to the *)
(* broker, a commit to SQLite, or the next row of a loop.  Between any two *)
(* of them the exchange, a human, the API or the clock may act, and the    *)
(* process may die; `row' and `cmds' survive it, `eng', `job' and `truth'  *)
(* do not.                                                                 *)
(*                                                                         *)
(* Left out: prices, sizing and ranking (a candidate may be skipped for    *)
(* any reason), the desk's live P&L and event diary, SQLite failures, and  *)
(* the counting behind the automatic pause after repeated step failures,   *)
(* which shows here as a pause that may happen at any tick.                *)
(***************************************************************************)
EXTENDS ExitBooking

CONSTANTS
  Lot,          \* shares an entry is sized to
  LossCap,      \* daily loss cap, in the units of ExitBooking
  CommandKinds, \* commands the API sends, a subset of AllCommands
  MaxCommands,  \* bound: commands of the day
  MaxStarts,    \* bound: times the process is started
  LastPhase     \* bound: how far the clock gets, see `phase'

AllCommands == {"STOP", "START", "CLOSE_POSITION", "KILL_ALL"}

ASSUME EngineAssumption ==
  /\ Lot \in Nat \ {0}
  /\ LossCap \in Nat \ {0}
  /\ CommandKinds \subseteq AllCommands
  /\ MaxCommands \in Nat
  /\ MaxStarts \in Nat
  /\ LastPhase \in 0 .. 4

VARIABLES
  row,     \* the positions table: trade -> row, NoRow if there is none
  pnl,     \* its realised_pnl column
  cmds,    \* the engine_commands table, oldest first
  eng,     \* the ExecutionEngine object and its process
  job,     \* where the tick is
  truth,   \* the BrokerTruth read by this tick
  phase,   \* IST clock: 0 before 14:00, 1 no new entries, 2 square-off due
           \* (14:50), 3 no stop retries (15:05), 4 market closed (15:30)
  starts   \* processes started so far

engineVars == <<row, pnl, cmds, eng, job, truth, phase, starts>>
engineVarsButJob == <<row, pnl, cmds, eng, truth, phase, starts>>
vars == <<brokerVars, engineVars>>

Unfilled == {"PENDING_ENTRY", "ENTRY_SUBMITTED"}
Holding  == {"ENTERED", "PROTECTED", "TRAILING", "EXIT_SUBMITTED"}
Terminal == {"CLOSED", "REJECTED", "CANCELLED"}

\* Reasons the engine records when it sends an exit (ACTIVE_EXIT_REASONS).
ActiveReasons == {"EOD_SQUAREOFF", "DAILY_LOSS_BREACH", "KILL_ALL",
                  "MANUAL_CLOSE", "ABNORMAL_SLIPPAGE_FLATTEN"}
CloseReasons == ActiveReasons \cup
  {"NONE", "STOP_HIT", "MANUAL_BROKER_INTERVENTION", "UNATTRIBUTED"}

\* entry, stop, exit: order ids, 0 for None.  price: 0 the structural stop
\* price, 1 the one adopted from Kite.  why: exit_reason, recorded with an
\* exit.  reason, closing, exits: what finalize_exit books.
NoRow == [state |-> "NONE", qty |-> 0, entry |-> 0, stop |-> 0, exit |-> 0,
          price |-> 0, why |-> "NONE", reason |-> "NONE", closing |-> 0,
          exits |-> {}]

FreshEngine == [proc |-> "up", paused |-> FALSE, stopped |-> FALSE,
                shut |-> "NONE", breached |-> FALSE, done |-> FALSE]

\* at: the next thing the tick does; step: the run_step it belongs to; t, id,
\* got, why: the trade in hand, the order id a call returned, how that reply
\* reads, and the reason to close; todo, batch: rows and commands still ahead.
Idle == [at |-> "asleep", step |-> "asleep", t |-> NoTrade, id |-> 0,
         got |-> "none", why |-> "NONE", todo |-> {}, batch |-> {}]

NoTruth == [net |-> [s \in Symbols |-> 0], book |-> <<>>]

-----------------------------------------------------------------------------
OpenRows == {t \in Trades : row[t].state \notin Terminal \cup {"NONE"}}

\* A loss is the sum over the losing closed trades (engine_risk.py).
Losers == {t \in Trades : row[t].state = "CLOSED" /\ pnl[t] < 0}
ClosedLoss == MapThenSumSet(LAMBDA t : -pnl[t], Losers)

At(p) == eng.proc = "up" /\ job.at = p

Begin(step, S) == [Idle EXCEPT !.at = step, !.step = step, !.todo = S]

\* Work on row t now; it leaves the loop's list.
Call(p, t, why) == [job EXCEPT !.at = p, !.t = t, !.why = why, !.todo = @ \ {t}]

\* Back to the loop of the step that called.
Resume(j) == [j EXCEPT !.at = job.step, !.t = NoTrade, !.id = 0,
                       !.got = "none", !.why = "NONE"]

\* Mutant: the market exit goes out with the stop still working.
FlattenAtOnce(t, why) == Call("send_exit", t, why)

\* flatten: the cancel of the stop comes first, if there is one.
Flatten(t, why) == Call(IF row[t].stop = 0 THEN "send_exit" ELSE "cancel_stop", t, why)

\* _act_on_fill: a fill past 1.5 times the risk cap is never protected.
ActOnFill(t, o) ==
  IF o.adverse THEN Flatten(t, "ABNORMAL_SLIPPAGE_FLATTEN")
               ELSE Call("place_stop", t, "NONE")

\* apply_entry_fill
FillApplied(r, o) == [r EXCEPT !.state = "ENTERED", !.qty = o.filled]

\* entry_fill_final
FillFinal(o) == o.filled > 0 /\ (o.filled >= o.qty \/ o.status \in Dead)

Shutdown(e, reason) == [e EXCEPT !.shut = reason, !.done = FALSE, !.paused = TRUE]

\* End of a tick and the exits of run()'s loop.
TickEnds(e) ==
  /\ job' = Idle
  /\ eng' = [e EXCEPT !.proc = IF e.done THEN "finished"
                               ELSE IF phase = 4 THEN "session_over" ELSE @]

-----------------------------------------------------------------------------
(* The tick: feed health, then reconciliation. *)

\* tick: a stale feed (or an escalated step) pauses entries, a healthy one
\* lifts the pause unless the loss cap was breached.
TickStart ==
  /\ At("asleep")
  /\ \/ /\ Cost({})
        /\ eng' = [eng EXCEPT !.paused = eng.breached /\ @]
     \/ /\ Cost({<<"stale", "feed">>})
        /\ eng' = [eng EXCEPT !.paused = TRUE]
  /\ job' = IF OpenRows = {} THEN Begin("protect", {})
                             ELSE [Begin("reconcile", OpenRows) EXCEPT !.at = "read1"]
  /\ UNCHANGED <<orders, net, row, pnl, cmds, truth, phase, starts>>

\* Mutant: the order book is read before the positions.
OrdersThenPositions == <<"orders", "positions">>

\* fetch_broker_truth: positions first, then the order book.
BrokerReads == <<"positions", "orders">>

\* Mutant: only a fill is protected, a failed stop is not tried again.
NoRetries(r) == {}

\* The list _ensure_protection walks.
ToProtect(r) == IF phase < 3 THEN {t \in Trades : r[t].state = "ENTERED"} ELSE {}

FetchBrokerTruth ==
  \E k \in 1 .. 2 :
    /\ At(<<"read1", "read2">>[k])
    /\ \/ /\ Cost({})
          /\ truth' = IF BrokerReads[k] = "positions" THEN [truth EXCEPT !.net = net]
                                                      ELSE [truth EXCEPT !.book = orders]
          /\ job' = [job EXCEPT !.at = IF k = 1 THEN "read2" ELSE "reconcile"]
       \/ /\ Cost({<<"unreadable", BrokerReads[k]>>})
          /\ truth' = NoTruth
          /\ job' = Begin("protect", ToProtect(row))
    /\ UNCHANGED <<orders, net, row, pnl, cmds, eng, phase, starts>>

\* _drive_open_orders takes the next row; what it decides is one of the
\* actions below.
Reconciling(t) == At("reconcile") /\ t \in job.todo

\* reconcile / _reconcile_entry / _apply_reconciliation.  A row it leaves as
\* it is: an intent (nothing is at the broker "by construction"), an entry
\* not visible or still working.
EntrySeen(t) == row[t].state = "ENTRY_SUBMITTED" /\ Seen(truth.book, row[t].entry)

ReconcileWaits(t) ==
  /\ Reconciling(t)
  /\ \/ row[t].state = "PENDING_ENTRY"
     \/ row[t].state = "ENTRY_SUBMITTED" /\ ~Seen(truth.book, row[t].entry)
     \/ /\ EntrySeen(t)
        /\ LET o == truth.book[row[t].entry]
           IN ~FillFinal(o) /\ (o.filled > 0 \/ o.status \notin Dead)
  /\ job' = [job EXCEPT !.todo = @ \ {t}]
  /\ UNCHANGED <<brokerVars, row, pnl, cmds, eng, truth, phase, starts>>

ReconcileEntryFill(t) ==
  /\ Reconciling(t) /\ EntrySeen(t)
  /\ LET o == truth.book[row[t].entry]
     IN /\ FillFinal(o)
        /\ row' = [row EXCEPT ![t] = FillApplied(@, o)]
        /\ job' = ActOnFill(t, o)
  /\ UNCHANGED <<brokerVars, pnl, cmds, eng, truth, phase, starts>>

ReconcileEntryDead(t) ==
  /\ Reconciling(t) /\ EntrySeen(t)
  /\ LET o == truth.book[row[t].entry]
     IN /\ o.status \in Dead /\ o.filled = 0
        /\ row' = [row EXCEPT ![t].state = o.status]
  /\ job' = [job EXCEPT !.todo = @ \ {t}]
  /\ UNCHANGED <<brokerVars, pnl, cmds, eng, truth, phase, starts>>

\* net_for: the absolute quantity of the symbol, whoever holds it.
NetFor(t) == LET n == truth.net[SymbolOf[t]] IN IF n < 0 THEN -n ELSE n

\* _claimed_exit_order_ids
Claimed(t) ==
  UNION {row[u].exits \cup {row[u].closing} :
           u \in {v \in Trades \ {t} : row[v].state = "CLOSED" /\ SymbolOf[v] = SymbolOf[t]}}

\* FINALIZE_EXIT: flat at the broker, so book whatever explains it.
Exits(t) == TradeExits(truth.book, t, row[t].entry, Claimed(t))

Finalized(r, t) ==
  [r EXCEPT !.state = "CLOSED",
            !.reason = Attribute(truth.book, t, r, ClosingOrder(Exits(t))),
            !.closing = ClosingOrder(Exits(t)),
            !.exits = Booked(truth.book, Exits(t), r.entry)]

ReconcileFlat(t) ==
  /\ Reconciling(t) /\ row[t].state \in Holding
  /\ NetFor(t) = 0
  /\ row' = [row EXCEPT ![t] = Finalized(@, t)]
  /\ pnl' = [pnl EXCEPT ![t] = Realised(truth.book, Exits(t), row[t].entry)]
  /\ job' = [job EXCEPT !.todo = @ \ {t}]
  /\ UNCHANGED <<brokerVars, cmds, eng, truth, phase, starts>>

\* stop_order_for: the recorded stop, else one found by tag, 0 for none.
\* Anything not cancelled or rejected counts, a completed stop included.
LiveStops(t) ==
  {i \in DOMAIN truth.book :
     /\ Seen(truth.book, i)
     /\ truth.book[i].kind = "stop" /\ truth.book[i].trade = t
     /\ truth.book[i].status \notin Dead}

StopFor(t) == IF row[t].stop \in LiveStops(t) THEN row[t].stop
              ELSE IF LiveStops(t) = {} THEN 0 ELSE Min(LiveStops(t))

\* Mutant: every holding state, so a position already being sold as well.
AllHolding == {"PROTECTED", "TRAILING", "EXIT_SUBMITTED"}

StopExpected == {"PROTECTED", "TRAILING"}

\* Mutant: the id of the vanished stop is kept.
KeepsStopId(r, t) ==
  [r EXCEPT !.qty = NetFor(t),
            !.state = IF @ \in StopExpected /\ StopFor(t) = 0 THEN "ENTERED" ELSE @]

\* Still held: adopt the broker's quantity and the price of its stop, and if
\* the stop is gone say so, for the protection step to place another.
Adopted(r, t) ==
  LET sized == [r EXCEPT !.qty = NetFor(t)]
  IN IF r.state \notin StopExpected THEN sized
     ELSE IF StopFor(t) = 0 THEN [sized EXCEPT !.stop = 0, !.state = "ENTERED"]
     ELSE [sized EXCEPT !.price = truth.book[StopFor(t)].trig]

ReconcileHeld(t) ==
  /\ Reconciling(t) /\ row[t].state \in Holding
  /\ NetFor(t) # 0
  /\ row' = [row EXCEPT ![t] = Adopted(@, t)]
  /\ job' = [job EXCEPT !.todo = @ \ {t}]
  /\ UNCHANGED <<brokerVars, pnl, cmds, eng, truth, phase, starts>>

EndReconcile ==
  /\ At("reconcile") /\ job.todo = {}
  /\ truth' = NoTruth
  /\ job' = Begin("protect", ToProtect(row))
  /\ UNCHANGED <<brokerVars, row, pnl, cmds, eng, phase, starts>>

Reconcile ==
  \/ \E t \in Trades :
       \/ ReconcileWaits(t) \/ ReconcileEntryFill(t) \/ ReconcileEntryDead(t)
       \/ ReconcileFlat(t) \/ ReconcileHeld(t)
  \/ EndReconcile

-----------------------------------------------------------------------------
(* Protection: ensure_protected, from the protection step and from a fill. *)

PlaceStop(t) ==
  /\ \/ At("protect") /\ t \in job.todo
     \/ At("place_stop") /\ t = job.t
  /\ \E reply \in {"order", "unseen", "raised"}, id \in 0 .. Len(orders) + 1 :
       /\ Send("stop", t, row[t].qty, row[t].price, reply, id)
       /\ job' = IF reply = "raised" THEN [Resume(job) EXCEPT !.todo = @ \ {t}]
                 ELSE [Call("save_stop", t, "NONE") EXCEPT
                         !.id = id,
                         !.got = IF reply = "unseen" \/ orders'[id].status \in Dead
                                 THEN "unconfirmed" ELSE "confirmed"]
  /\ UNCHANGED engineVarsButJob

\* The id is bound either way; only a confirmed stop protects.
SaveStop ==
  /\ At("save_stop")
  /\ row' = [row EXCEPT ![job.t].stop = job.id,
                        ![job.t].state = IF job.got = "confirmed" THEN "PROTECTED" ELSE @]
  /\ job' = Resume(job)
  /\ UNCHANGED <<brokerVars, pnl, cmds, eng, truth, phase, starts>>

EndProtect ==
  /\ At("protect") /\ job.todo = {}
  /\ job' = [Begin("commands", {}) EXCEPT
               !.batch = {c \in DOMAIN cmds : cmds[c].status = "PENDING"}]
  /\ UNCHANGED <<brokerVars, row, pnl, cmds, eng, truth, phase, starts>>

Protect == (\E t \in Trades : PlaceStop(t)) \/ SaveStop \/ EndProtect

-----------------------------------------------------------------------------
(* The active exit: flatten. *)

\* What flatten returns to: apply_command still has to record the outcome.
FlattenReturns(ok) ==
  job' = IF job.step = "commands"
           THEN [job EXCEPT !.at = "mark", !.id = 0, !.why = "NONE",
                            !.got = IF ok THEN "APPLIED" ELSE "REJECTED"]
           ELSE Resume(job)

\* Mutant: an unconfirmed cancel is taken for done.
AnyReply == {"CANCELLED", "REJECTED", "COMPLETE", "unconfirmed"}

\* cancel_stop: the statuses it takes for a confirmation.
CancelConfirmed == {"CANCELLED", "REJECTED", "COMPLETE"}

CancelStop ==
  /\ At("cancel_stop")
  /\ \E reply \in Status \cup {"unconfirmed"} :
       /\ Cancel(row[job.t].stop, reply)
       /\ IF reply \in CancelConfirmed THEN job' = [job EXCEPT !.at = "send_exit"]
                                       ELSE FlattenReturns(FALSE)
  /\ UNCHANGED engineVarsButJob

SendExit ==
  /\ At("send_exit")
  /\ \E reply \in {"order", "raised"}, id \in 0 .. Len(orders) + 1 :
       /\ Send("exit", job.t, row[job.t].qty, 0, reply, id)
       /\ IF reply = "order" THEN job' = [job EXCEPT !.at = "save_exit", !.id = id]
                             ELSE FlattenReturns(FALSE)
  /\ UNCHANGED engineVarsButJob

SaveExit ==
  /\ At("save_exit") /\ row[job.t].state \in Holding
  /\ row' = [row EXCEPT ![job.t].exit = job.id, ![job.t].stop = 0,
                        ![job.t].why = job.why, ![job.t].state = "EXIT_SUBMITTED"]
  /\ FlattenReturns(TRUE)
  /\ UNCHANGED <<brokerVars, pnl, cmds, eng, truth, phase, starts>>

\* A CLOSE_POSITION for an entry not yet filled: transition() refuses after
\* the exit was sent.  The exception ends the commands step; nothing is saved
\* and the command stays pending.
SaveExitIllegal ==
  /\ At("save_exit") /\ row[job.t].state \in Unfilled
  /\ job' = Begin("commands", {})
  /\ UNCHANGED <<brokerVars, row, pnl, cmds, eng, truth, phase, starts>>

FlattenSteps == CancelStop \/ SendExit \/ SaveExit \/ SaveExitIllegal

-----------------------------------------------------------------------------
(* Commands: _handle_commands over the batch read at the start of the step. *)

Oldest == Min(job.batch)

Applying(kind) == At("commands") /\ job.batch # {} /\ cmds[Oldest].kind = kind

\* Mutant: a rejected command stays pending.
ResolveApplied(c, status) ==
  cmds' = IF status = "APPLIED" THEN [cmds EXCEPT ![c].status = status] ELSE cmds

\* CommandQueue._finish
Resolve(c, status) == cmds' = [cmds EXCEPT ![c].status = status]

ApplySwitch ==
  /\ \/ /\ Applying("STOP")
        /\ eng' = [eng EXCEPT !.stopped = TRUE] /\ Resolve(Oldest, "APPLIED")
     \/ /\ Applying("START") /\ phase = 0
        /\ eng' = [eng EXCEPT !.stopped = FALSE] /\ Resolve(Oldest, "APPLIED")
     \/ /\ Applying("START") /\ phase > 0
        /\ Resolve(Oldest, "REJECTED") /\ UNCHANGED eng
     \/ /\ Applying("KILL_ALL")
        /\ eng' = Shutdown(eng, "KILL_ALL") /\ Resolve(Oldest, "APPLIED")
  /\ job' = [job EXCEPT !.batch = @ \ {Oldest}]
  /\ UNCHANGED <<brokerVars, row, pnl, truth, phase, starts>>

ApplyClose ==
  /\ Applying("CLOSE_POSITION")
  /\ LET t == cmds[Oldest].trade
     IN IF t \in OpenRows
          THEN job' = Flatten(t, "MANUAL_CLOSE") /\ UNCHANGED cmds
          ELSE /\ job' = [job EXCEPT !.batch = @ \ {Oldest}]
               /\ Resolve(Oldest, "REJECTED")
  /\ UNCHANGED <<brokerVars, row, pnl, eng, truth, phase, starts>>

MarkClose ==
  /\ At("mark")
  /\ Resolve(Oldest, job.got)
  /\ job' = [Resume(job) EXCEPT !.batch = @ \ {Oldest}]
  /\ UNCHANGED <<brokerVars, row, pnl, eng, truth, phase, starts>>

\* Mutant: a loss equal to the cap does not count as reaching it.
LimitedPastCap ==
  LET e == IF ClosedLoss <= LossCap THEN eng
           ELSE [Shutdown(eng, "DAILY_LOSS_BREACH") EXCEPT !.breached = TRUE]
  IN IF e.shut = "NONE" /\ phase >= 2 THEN Shutdown(e, "EOD_SQUAREOFF") ELSE e

\* The loss cap is checked on every closed trade of the day, then the clock.
Limited ==
  LET breach == ClosedLoss >= LossCap
      e == IF ~breach THEN eng
           ELSE [(IF eng.shut = "NONE" THEN Shutdown(eng, "DAILY_LOSS_BREACH") ELSE eng)
                   EXCEPT !.breached = TRUE, !.paused = TRUE]
  IN IF e.shut = "NONE" /\ phase >= 2 THEN Shutdown(e, "EOD_SQUAREOFF") ELSE e

\* Mutant: any candidate without an open row, a refused one among them.
NotOpen == Trades \ OpenRows

\* Candidates of the day without a row; which of them the feed offers now,
\* with a VWAP verdict, is the environment's choice.
Fresh == {t \in Trades : row[t].state = "NONE"}

EndCommands ==
  /\ At("commands") /\ job.batch = {}
  /\ eng' = Limited
  /\ IF Limited.shut # "NONE" THEN job' = Begin("squareoff", OpenRows)
     ELSE \E S \in SUBSET Fresh :
            /\ Limited.paused \/ Limited.stopped => S = {}
            /\ job' = Begin("ingest", S)
  /\ UNCHANGED <<brokerVars, row, pnl, cmds, truth, phase, starts>>

Commands == ApplySwitch \/ ApplyClose \/ MarkClose \/ EndCommands

-----------------------------------------------------------------------------
(* Shutdown: squareoff_all, every tick until no row is open. *)

SquareoffRow(t) ==
  /\ At("squareoff") /\ t \in job.todo
  /\ \/ /\ row[t].state = "EXIT_SUBMITTED"
        /\ job' = [job EXCEPT !.todo = @ \ {t}] /\ UNCHANGED row
     \/ /\ row[t].state = "PENDING_ENTRY"
        /\ row' = [row EXCEPT ![t].state = "CANCELLED"]
        /\ job' = [job EXCEPT !.todo = @ \ {t}]
     \/ /\ row[t].state \in Holding \ {"EXIT_SUBMITTED"}
        /\ job' = Flatten(t, eng.shut) /\ UNCHANGED row
  /\ UNCHANGED <<brokerVars, pnl, cmds, eng, truth, phase, starts>>

\* Mutant: the shares filled before the cancel are forgotten.
AnyCancel(i, reply) == reply \in Dead

\* _cancel_unfilled: only a confirmed cancel of an entry with no fill at all
\* may end the trade as CANCELLED.
CancelledUnfilled(i, reply) == reply \in Dead /\ orders[i].filled = 0

CancelEntry(t) ==
  /\ At("squareoff") /\ t \in job.todo
  /\ row[t].state = "ENTRY_SUBMITTED"
  /\ \E reply \in Status \cup {"unconfirmed"} :
       /\ Cancel(row[t].entry, reply)
       /\ job' = IF CancelledUnfilled(row[t].entry, reply)
                   THEN Call("save_cancel", t, "NONE")
                   ELSE [job EXCEPT !.todo = @ \ {t}]
  /\ UNCHANGED engineVarsButJob

SaveCancel ==
  /\ At("save_cancel")
  /\ row' = [row EXCEPT ![job.t].state = "CANCELLED"]
  /\ job' = Resume(job)
  /\ UNCHANGED <<brokerVars, pnl, cmds, eng, truth, phase, starts>>

\* Mutant: the process stops once every exit has been sent.
AllSent == \A t \in OpenRows : row[t].state = "EXIT_SUBMITTED"

\* SquareoffProgress.complete
Complete == OpenRows = {}

EndSquareoff ==
  /\ At("squareoff") /\ job.todo = {}
  /\ TickEnds([eng EXCEPT !.done = Complete])
  /\ UNCHANGED <<brokerVars, row, pnl, cmds, truth, phase, starts>>

Squareoff ==
  (\E t \in Trades : SquareoffRow(t) \/ CancelEntry(t)) \/ SaveCancel \/ EndSquareoff

-----------------------------------------------------------------------------
(* Entries: ingest_triggers, submit_entry. *)

\* Mutant: the gate looks at the clock only.
ClockGate(t) == phase = 0

\* _entry_gate.  Pause, stop and shutdown cannot change within the step.
EntryGate(t) ==
  /\ phase = 0
  /\ \A u \in OpenRows : SymbolOf[u] # SymbolOf[t]

\* _skip: a VWAP verdict, a size of zero, a closed gate, missing margin.
Skip(t) ==
  /\ At("ingest") /\ t \in job.todo
  /\ row' = [row EXCEPT ![t].state = "REJECTED"]
  /\ job' = [job EXCEPT !.todo = @ \ {t}]
  /\ UNCHANGED <<brokerVars, pnl, cmds, eng, truth, phase, starts>>

\* Durable intent before the broker is called.
Intend(t) ==
  /\ At("ingest") /\ t \in job.todo
  /\ EntryGate(t)
  /\ row' = [row EXCEPT ![t].state = "PENDING_ENTRY", ![t].qty = Lot]
  /\ job' = Call("send_entry", t, "NONE")
  /\ UNCHANGED <<brokerVars, pnl, cmds, eng, truth, phase, starts>>

\* place_entry: one of three buckets.
SendEntry ==
  /\ At("send_entry")
  /\ \E reply \in {"order", "raised", "refused"}, id \in 0 .. Len(orders) + 1 :
       /\ Send("entry", job.t, row[job.t].qty, 0, reply, id)
       /\ job' = CASE reply = "raised"  -> [job EXCEPT !.at = "resolve_entry"]
                   [] reply = "refused" -> [job EXCEPT !.at = "reject_entry"]
                   [] reply = "order"   ->
                        IF orders'[id].status = "REJECTED"
                          THEN [job EXCEPT !.at = "reject_entry"]
                          ELSE [job EXCEPT !.at = "save_entry", !.id = id,
                                  !.got = IF FillFinal(orders'[id]) THEN "filled" ELSE "working"]
  /\ UNCHANGED engineVarsButJob

\* Mutant: without the lookup.
NoLookup(t) == {}

\* resolve_ambiguous_entry: look the tag up once; an order still alive is
\* ours, anything else (a failed read too) is final: it "never reached" Kite.
LiveEntries(t) == {i \in OrdersOf("entry", t) : orders[i].shown /\ orders[i].status \notin Dead}

ResolveEntry ==
  /\ At("resolve_entry")
  /\ \/ /\ LiveEntries(job.t) # {} /\ Cost({})
        /\ LET i == Min(LiveEntries(job.t))
           IN job' = [job EXCEPT !.at = "save_entry", !.id = i,
                        !.got = IF FillFinal(orders[i]) THEN "filled" ELSE "working"]
     \/ /\ \/ LiveEntries(job.t) = {} /\ Cost({})
           \/ Cost({<<"unreadable", "tag">>})
        /\ job' = [job EXCEPT !.at = "reject_entry"]
  /\ UNCHANGED <<orders, net, row, pnl, cmds, eng, truth, phase, starts>>

RejectEntry ==
  /\ At("reject_entry")
  /\ row' = [row EXCEPT ![job.t].state = "REJECTED"]
  /\ job' = Resume(job)
  /\ UNCHANGED <<brokerVars, pnl, cmds, eng, truth, phase, starts>>

\* The order is bound; a fill already final in the reply is applied now.
SaveEntry ==
  /\ At("save_entry")
  /\ row' = [row EXCEPT ![job.t].state = "ENTRY_SUBMITTED", ![job.t].entry = job.id]
  /\ job' = IF job.got = "filled" THEN [job EXCEPT !.at = "save_fill"] ELSE Resume(job)
  /\ UNCHANGED <<brokerVars, pnl, cmds, eng, truth, phase, starts>>

SaveFill ==
  /\ At("save_fill")
  /\ row' = [row EXCEPT ![job.t] = FillApplied(@, orders[job.id])]
  /\ job' = ActOnFill(job.t, orders[job.id])
  /\ UNCHANGED <<brokerVars, pnl, cmds, eng, truth, phase, starts>>

EndIngest ==
  /\ At("ingest") /\ job.todo = {}
  /\ TickEnds(eng)
  /\ UNCHANGED <<brokerVars, row, pnl, cmds, truth, phase, starts>>

Ingest ==
  \/ \E t \in Trades : Skip(t) \/ Intend(t)
  \/ SendEntry \/ ResolveEntry \/ RejectEntry \/ SaveEntry \/ SaveFill \/ EndIngest

-----------------------------------------------------------------------------
(* The process, the API and the clock. *)

\* Death between a call to Kite and the commit that records it is an
\* adversity of its own; elsewhere only restarts are bounded.  (A SIGTERM,
\* honoured between ticks, is the case of a tick asleep.)
CrashCost ==
  CASE job.at \in {"resolve_entry", "save_entry"} -> {<<"crash", "mid_entry">>}
    [] job.at = "save_stop"                       -> {<<"crash", "mid_stop">>}
    [] job.at = "save_exit"                       -> {<<"crash", "mid_flatten">>}
    [] OTHER                                      -> {<<"crash", "engine">>}

Crash ==
  /\ eng.proc = "up"
  /\ Cost(CrashCost)
  /\ eng' = [FreshEngine EXCEPT !.proc = "down"]
  /\ job' = Idle
  /\ truth' = NoTruth
  /\ UNCHANGED <<orders, net, row, pnl, cmds, phase, starts>>

\* A start is refused from 14:00 on, for a crashed engine too.
Start ==
  /\ eng.proc # "up"
  /\ phase = 0 /\ starts < MaxStarts
  /\ starts' = starts + 1
  /\ eng' = FreshEngine
  /\ UNCHANGED <<brokerVars, row, pnl, cmds, job, truth, phase>>

\* POST /execution/commands: only its kind and the engine's heartbeat are
\* checked, which a process just crashed still passes.  To close a trade whose
\* entry has not filled is an adversity of its own.
Early(kind, t) == kind = "CLOSE_POSITION" /\ row[t].state \in Unfilled

SubmitCommand ==
  /\ Len(cmds) < MaxCommands
  /\ eng.proc \in {"up", "down"} /\ starts > 0
  /\ \E kind \in CommandKinds, t \in Trades \cup {NoTrade} :
       /\ IF kind = "CLOSE_POSITION" THEN t \in Trades /\ row[t].state # "NONE"
                                     ELSE t = NoTrade
       /\ Cost(IF Early(kind, t) THEN {<<"early", "close">>} ELSE {})
       /\ cmds' = Append(cmds, [kind |-> kind, trade |-> t, status |-> "PENDING"])
  /\ UNCHANGED <<orders, net, row, pnl, eng, job, truth, phase, starts>>

Clock ==
  /\ phase < LastPhase
  /\ phase' = phase + 1
  /\ UNCHANGED <<brokerVars, row, pnl, cmds, eng, job, truth, starts>>

Environment == Exchange /\ UNCHANGED engineVars

-----------------------------------------------------------------------------
Tick ==
  \/ TickStart \/ FetchBrokerTruth \/ Reconcile \/ Protect \/ FlattenSteps
  \/ Commands \/ Squareoff \/ Ingest

Init ==
  /\ BrokerInit
  /\ row = [t \in Trades |-> NoRow]
  /\ pnl = [t \in Trades |-> 0]
  /\ cmds = <<>>
  /\ eng = [FreshEngine EXCEPT !.proc = "down"]
  /\ job = Idle
  /\ truth = NoTruth
  /\ phase = 0
  /\ starts = 0

Next == Tick \/ Crash \/ Start \/ SubmitCommand \/ Clock \/ Environment

Spec == Init /\ [][Next]_vars

-----------------------------------------------------------------------------
Row == [state : Unfilled \cup Holding \cup Terminal \cup {"NONE"}, qty : Nat,
        entry : Nat, stop : Nat, exit : Nat, price : {0, 1}, why : CloseReasons,
        reason : CloseReasons, closing : Nat, exits : SUBSET Nat]

Command == [kind : AllCommands, trade : Trades \cup {NoTrade},
            status : {"PENDING", "APPLIED", "REJECTED"}]

Engine == [proc : {"down", "up", "finished", "session_over"}, paused : BOOLEAN,
           stopped : BOOLEAN, shut : CloseReasons, breached : BOOLEAN, done : BOOLEAN]

\* Where a tick can be between two rows, and while it works on one.
LoopSteps == {"asleep", "reconcile", "protect", "commands", "squareoff", "ingest"}
Reads     == {"read1", "read2"}
OnIntent  == {"send_entry", "resolve_entry", "reject_entry", "save_entry"}
OnFlatten == {"cancel_stop", "send_exit", "save_exit"}
OnRow     == {"place_stop", "save_stop", "save_fill", "save_cancel", "mark"}
               \cup OnIntent \cup OnFlatten

Replies == {"none", "confirmed", "unconfirmed", "filled", "working", "APPLIED", "REJECTED"}

Job == [at : LoopSteps \cup Reads \cup OnRow, step : LoopSteps,
        t : Trades \cup {NoTrade}, id : Nat, got : Replies, why : CloseReasons,
        todo : SUBSET Trades, batch : SUBSET Nat]

\* Type invariant of the engine's own state.
TypeOK ==
  /\ BrokerTypeOK
  /\ row \in [Trades -> Row]
  /\ cmds \in Seq(Command)
  /\ eng \in Engine
  /\ job \in Job
  /\ truth \in [net : [Symbols -> Int], book : Seq(Order)]
  /\ phase \in 0 .. 4
  /\ starts \in Nat
=============================================================================
