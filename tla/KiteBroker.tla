------------------------------ MODULE KiteBroker ------------------------------
(***************************************************************************)
(* The account at Zerodha as the engine meets it through KiteBroker        *)
(* (trading_engine_broker.py): one order book, one net MIS quantity per    *)
(* symbol, and replies that may be lost, late or wrong.  The exchange and  *)
(* a human with the Kite app act on it between any two steps of the        *)
(* engine.                                                                 *)
(*                                                                         *)
(* An order id is its index in `orders', which is also the order of its    *)
(* placement timestamp.  A trade's entry and its stop carry the tag        *)
(* "te<hash>", its exit the same tag with "-x", a human's order none; so   *)
(* (trade, kind) stands for the tag together with the order type.          *)
(*                                                                         *)
(* Everything that is not the smooth course is an element of Events and    *)
(* costs one unit of `budget': a configuration chooses which adversities   *)
(* it admits and how many of them in one behaviour.                        *)
(***************************************************************************)
EXTENDS Integers, Sequences, FiniteSets, FiniteSetsExt

CONSTANTS
  Trades,     \* setup ids, each at most one row of the positions table
  NoTrade,    \* the trade of an order placed outside the engine
  Symbols,
  SymbolOf,   \* trade -> tradingsymbol
  DirOf,      \* trade -> 1 for an UP candidate (long), -1 for DOWN
  Events,     \* adversities admitted, pairs <<what, on which order>>
  MaxEvents   \* bound: adversities per behaviour

ASSUME BrokerAssumption ==
  /\ NoTrade \notin Trades
  /\ SymbolOf \in [Trades -> Symbols]
  /\ DirOf \in [Trades -> {-1, 1}]
  /\ IsFiniteSet(Events)
  /\ MaxEvents \in Nat

VARIABLES
  orders,     \* Kite's order book
  net,        \* Kite's positions book: net MIS quantity per symbol
  budget      \* adversities left

brokerVars == <<orders, net, budget>>

Kinds == {"entry", "stop", "exit", "human"}
Status == {"OPEN", "COMPLETE", "CANCELLED", "REJECTED"}
Dead == {"CANCELLED", "REJECTED"}

\* side is +1 for BUY; adverse marks a fill at a bad price (an entry past 1.5
\* times its risk cap, an exit at a loss); trig tells the engine's stop price
\* from one a human typed; shown is FALSE until the row reaches kite.orders().
Order == [kind : Kinds, trade : Trades \cup {NoTrade}, sym : Symbols,
          side : {-1, 1}, qty : Nat, filled : Nat, status : Status,
          shown : BOOLEAN, adverse : BOOLEAN, trig : {0, 1}]

BrokerTypeOK ==
  /\ orders \in Seq(Order)
  /\ net \in [Symbols -> Int]
  /\ budget \in 0 .. MaxEvents

BrokerInit ==
  /\ orders = <<>>
  /\ net = [s \in Symbols |-> 0]
  /\ budget = MaxEvents

Ids == DOMAIN orders
Working(i) == orders[i].status = "OPEN"
OrdersOf(k, t) == {i \in Ids : orders[i].kind = k /\ orders[i].trade = t}
Left(i) == orders[i].qty - orders[i].filled

\* The adversities evs happen in this step.
Cost(evs) ==
  /\ evs \subseteq Events
  /\ Cardinality(evs) <= budget
  /\ budget' = budget - Cardinality(evs)

Bad(bad, k) == IF bad THEN {<<"adverse", k>>} ELSE {}

-----------------------------------------------------------------------------
(* What KiteBroker's calls do. *)

Side(k, t) == IF k = "entry" THEN DirOf[t] ELSE -DirOf[t]

\* Kite takes the order; n of it has filled by the time it is polled.
Accept(k, t, q, n, status, shown, bad, trig) ==
  /\ orders' = Append(orders,
       [kind |-> k, trade |-> t, sym |-> SymbolOf[t], side |-> Side(k, t),
        qty |-> q, filled |-> n, status |-> status, shown |-> shown,
        adverse |-> bad, trig |-> trig])
  /\ net' = [net EXCEPT ![SymbolOf[t]] = @ + Side(k, t) * n]

\* A new order and what its caller gets: "order" (the polled row, or for a
\* MARKET order not yet visible an OPEN stand-in with the id), "unseen" (a
\* stop accepted with no poll visibility), "raised" (an exception although
\* the order was accepted) or "refused" (a definite refusal).
Place(k, t, q, trig, reply) ==
  \/ /\ reply = "order"
     /\ Cost(IF k = "entry" THEN {<<"slow", k>>} ELSE {})
     /\ Accept(k, t, q, 0, "OPEN", TRUE, FALSE, trig)
  \/ /\ reply = "order" /\ k # "stop"
     /\ \E bad \in BOOLEAN :
          Cost(Bad(bad, k)) /\ Accept(k, t, q, q, "COMPLETE", TRUE, bad, trig)
  \/ /\ reply = "order" /\ k # "stop"
     /\ Cost({<<"partial", k>>})
     /\ \E n \in 1 .. q - 1 : Accept(k, t, q, n, "OPEN", TRUE, FALSE, trig)
  \/ /\ reply = "order"
     /\ Cost({<<"rejected", k>>})
     /\ Accept(k, t, q, 0, "REJECTED", TRUE, FALSE, trig)
  \/ /\ reply = IF k = "stop" THEN "unseen" ELSE "order"
     /\ Cost({<<"unseen", k>>})
     /\ Accept(k, t, q, 0, "OPEN", FALSE, FALSE, trig)
  \/ /\ reply = "raised"
     /\ \E shown \in BOOLEAN :
          /\ Cost({<<IF shown THEN "lost" ELSE "lost_unseen", k>>})
          /\ Accept(k, t, q, 0, "OPEN", shown, FALSE, trig)
  \/ /\ reply = "refused" /\ k = "entry"
     /\ Cost({<<"refused", k>>})
     /\ UNCHANGED <<orders, net>>

\* The tag lookup that makes a placement idempotent: place_market_mis takes a
\* MARKET order of any status, place_slm a stop that is not finished.
ExistingMarketOnly(k, t) == {i \in OrdersOf(k, t) : orders[i].shown /\ k # "stop"}
ExistingWorking(k, t) == {i \in OrdersOf(k, t) : orders[i].shown /\ Working(i)}

Existing(k, t) ==
  {i \in OrdersOf(k, t) : orders[i].shown /\ (k = "stop" => Working(i))}

\* place_market_mis / place_slm: id is the order the caller is told of.
Send(k, t, q, trig, reply, id) ==
  \/ /\ Existing(k, t) = {}
     /\ id = Len(orders) + 1
     /\ Place(k, t, q, trig, reply)
  \/ /\ Existing(k, t) # {}
     /\ k = "stop" => Cardinality(Existing(k, t)) = 1
     /\ reply = "order" /\ id = Min(Existing(k, t))
     /\ UNCHANGED brokerVars
  \/ /\ reply = "raised" /\ id = 0
     /\ \/ k = "stop" /\ Cardinality(Existing(k, t)) > 1 /\ Cost({})
        \/ Cost({<<"raised", k>>})
     /\ UNCHANGED <<orders, net>>

\* cancel_order, then poll_order: "unconfirmed" stands for an exception, no
\* row, or a row that still reads OPEN, whether the cancel reached the order
\* ("lost") or not ("raised").  Kite raises on a finished order.
Cancel(i, reply) ==
  \/ /\ Working(i)
     /\ orders' = [orders EXCEPT ![i].status = "CANCELLED"]
     /\ \/ reply = (IF orders[i].shown THEN "CANCELLED" ELSE "unconfirmed") /\ Cost({})
        \/ reply = "unconfirmed" /\ Cost({<<"lost", "cancel">>})
     /\ UNCHANGED net
  \/ /\ Working(i)
     /\ Cost({<<"raised", "cancel">>})
     /\ reply = "unconfirmed"
     /\ UNCHANGED <<orders, net>>
  \/ /\ Working(i) /\ orders[i].shown
     /\ Cost({<<"raced", orders[i].kind>>})
     /\ reply = "COMPLETE"
     /\ orders' = [orders EXCEPT ![i].status = "COMPLETE", ![i].filled = orders[i].qty]
     /\ net' = [net EXCEPT ![orders[i].sym] = @ + orders[i].side * Left(i)]
  \/ /\ ~Working(i)
     /\ reply = "unconfirmed"
     /\ UNCHANGED brokerVars

-----------------------------------------------------------------------------
(* What the exchange and a human do. *)

\* A working order executes, wholly or in part: a MARKET order because there
\* is a counterparty, a stop because the market reached its trigger.
Execute(i) ==
  /\ Working(i) /\ Left(i) > 0
  /\ \E n \in 1 .. Left(i), bad \in BOOLEAN :
       /\ Cost((IF n < Left(i) THEN {<<"partial", orders[i].kind>>} ELSE {})
                 \cup Bad(bad, orders[i].kind))
       /\ orders' = [orders EXCEPT
            ![i].filled = @ + n,
            ![i].adverse = @ \/ bad,
            ![i].status = IF n = Left(i) THEN "COMPLETE" ELSE @]
       /\ net' = [net EXCEPT ![orders[i].sym] = @ + orders[i].side * n]

\* The exchange refuses it after accepting it, or it is cancelled there (by
\* the exchange, or by a human in the Kite app).
Die(i) ==
  /\ Working(i)
  /\ \E s \in Dead :
       /\ s = "REJECTED" => orders[i].filled = 0
       /\ Cost({<<IF s = "REJECTED" THEN "refused" ELSE "cancelled", orders[i].kind>>})
       /\ orders' = [orders EXCEPT ![i].status = s]
  /\ UNCHANGED net

\* The order book catches up with an accepted order.
Show(i) ==
  /\ ~orders[i].shown
  /\ orders' = [orders EXCEPT ![i].shown = TRUE]
  /\ UNCHANGED <<net, budget>>

\* A human edits the trigger of a stop in Kite.
EditStop(i) ==
  /\ orders[i].kind = "stop" /\ Working(i) /\ orders[i].trig = 0
  /\ Cost({<<"edited", "stop">>})
  /\ orders' = [orders EXCEPT ![i].trig = 1]
  /\ UNCHANGED net

\* A human squares a symbol off in Kite, without a tag; it is a different
\* adversity when an order of the engine is still working there.
HumanClose(s) ==
  /\ net[s] # 0
  /\ \E bad \in BOOLEAN :
       /\ Cost({<<IF \E i \in Ids : orders[i].sym = s /\ Working(i)
                   THEN "closed_over" ELSE "closed", "human">>} \cup Bad(bad, "human"))
       /\ orders' = Append(orders,
            [kind |-> "human", trade |-> NoTrade, sym |-> s,
             side |-> IF net[s] > 0 THEN -1 ELSE 1,
             qty |-> IF net[s] > 0 THEN net[s] ELSE -net[s],
             filled |-> IF net[s] > 0 THEN net[s] ELSE -net[s],
             status |-> "COMPLETE", shown |-> TRUE, adverse |-> bad, trig |-> 0])
  /\ net' = [net EXCEPT ![s] = 0]

Exchange ==
  \/ \E i \in Ids : Execute(i) \/ Die(i) \/ Show(i) \/ EditStop(i)
  \/ \E s \in Symbols : HumanClose(s)
=============================================================================
