---------------------------- MODULE EngineBookProofs ----------------------------
(***************************************************************************)
(* What the order book keeps under every step of the engine, the exchange  *)
(* and the human, and the properties of EngineProperties that follow:      *)
(* repeated calls place nothing twice, no order is booked twice, a refused *)
(* trade holds nothing, no entry is sent past the loss cap, and what the   *)
(* account holds is what the open trades bought less what they sold.       *)
(*                                                                         *)
(* Some of them do not survive every adversity of KiteBroker.  Their       *)
(* theorems then say which ones `Events' must not admit.                   *)
(***************************************************************************)
EXTENDS ExecutionEngineProofs

-----------------------------------------------------------------------------
(* One step of the order book. *)

\* The order book only moves forward: an order keeps its identity, once shown
\* it stays shown, and once finished it neither fills nor revives.
Progress ==
  \A i \in Ids :
    /\ i \in Ids'
    /\ orders'[i].kind = orders[i].kind /\ orders'[i].trade = orders[i].trade
    /\ orders'[i].sym = orders[i].sym
    /\ orders[i].shown => orders'[i].shown
    /\ ~Working(i) => /\ orders'[i].status = orders[i].status
                      /\ orders'[i].filled = orders[i].filled

\* The step adds no order.
AddsNone == Ids' = Ids

\* The step adds the order o.
AddsOrder(o) ==
  /\ Len(orders) + 1 \notin Ids
  /\ Ids' = Ids \cup {Len(orders) + 1}
  /\ \A i \in Ids : orders'[i] = orders[i]
  /\ orders'[Len(orders) + 1] = o

\* An order of kind k, placed with this reply, may be hidden at first.
MayHide(k, reply) ==
  <<IF reply = "raised" THEN "lost_unseen" ELSE "unseen", k>> \in Events

\* What an order just placed looks like: it hides from the order book only
\* under an adversity, and a rejected one has bought nothing.
Placed(o, k, t, reply) ==
  /\ o \in Order
  /\ o.kind = k /\ o.trade = t /\ o.sym = SymbolOf[t]
  /\ ~o.shown => MayHide(k, reply)
  /\ o.status \in Dead => o.filled = 0

\* A book left alone.
LEMMA BookAlone ==
  ASSUME orders' = orders
  PROVE  Progress /\ AddsNone
BY DEF Progress, AddsNone, Ids, Working

\* One more order at the end of the book.
LEMMA BookAppended ==
  ASSUME BrokerTypeOK, NEW o \in Order, orders' = Append(orders, o)
  PROVE  Progress /\ AddsOrder(o)
<1>1. /\ Len(orders) \in Nat
      /\ Ids = 1 .. Len(orders) /\ Ids' = 1 .. Len(orders) + 1
      /\ \A i \in Ids : orders'[i] = orders[i]
      /\ orders'[Len(orders) + 1] = o
  BY DEF Ids, BrokerTypeOK
<1>2. AddsOrder(o)
  BY <1>1 DEF AddsOrder
<1>3. Progress
  BY <1>1 DEF Progress
<1> QED
  BY <1>2, <1>3

\* One order changes, forward.
LEMMA BookChanged ==
  ASSUME BrokerTypeOK, NEW i \in Ids, NEW o \in Order,
         orders' = [orders EXCEPT ![i] = o],
         o.kind = orders[i].kind, o.trade = orders[i].trade, o.sym = orders[i].sym,
         orders[i].shown => o.shown,
         ~Working(i) => o.status = orders[i].status /\ o.filled = orders[i].filled
  PROVE  /\ Progress /\ AddsNone
         /\ orders'[i] = o
         /\ \A j \in Ids \ {i} : orders'[j] = orders[j]
<1>1. /\ Ids' = Ids
      /\ orders'[i] = o
      /\ \A j \in Ids \ {i} : orders'[j] = orders[j]
  BY DEF Ids, BrokerTypeOK
<1> QED
  BY <1>1 DEF Progress, AddsNone

\* A new order of the engine.
LEMMA AcceptBook ==
  ASSUME BrokerAssumption, BrokerTypeOK, NEW k \in OwnKinds, NEW t \in Trades,
         NEW q \in Nat, NEW n \in Nat, NEW status \in Status, NEW shown \in BOOLEAN,
         NEW bad \in BOOLEAN, NEW trig \in {0, 1}, NEW reply,
         Accept(k, t, q, n, status, shown, bad, trig),
         ~shown => MayHide(k, reply),
         status \in Dead => n = 0
  PROVE  Progress /\ \E o \in Order : Placed(o, k, t, reply) /\ AddsOrder(o)
<1> DEFINE o == [kind |-> k, trade |-> t, sym |-> SymbolOf[t], side |-> Side(k, t),
                 qty |-> q, filled |-> n, status |-> status, shown |-> shown,
                 adverse |-> bad, trig |-> trig]
<1>1. Side(k, t) \in {-1, 1} /\ SymbolOf[t] \in Symbols
  BY DEF Side, BrokerAssumption
<1>2. o \in Order
  BY <1>1 DEF Order, Kinds, OwnKinds
<1>3. Placed(o, k, t, reply)
  BY <1>2 DEF Placed
<1>4. orders' = Append(orders, o)
  BY DEF Accept
<1> HIDE DEF o
<1> QED
  BY <1>2, <1>3, <1>4, BookAppended

\* Whatever Kite does with a new order, it is taken as sent or not at all.
LEMMA PlaceBook ==
  ASSUME BrokerAssumption, BrokerTypeOK, NEW k \in OwnKinds, NEW t \in Trades,
         NEW q \in Nat, NEW trig \in {0, 1}, NEW reply, Place(k, t, q, trig, reply)
  PROVE  /\ Progress
         /\ \/ reply = "refused" /\ orders' = orders
            \/ reply # "refused" /\ \E o \in Order : Placed(o, k, t, reply) /\ AddsOrder(o)
<1> USE BrokerAssumption, BrokerTypeOK
<1>1. ASSUME NEW n \in Nat, NEW status \in Status, NEW shown \in BOOLEAN, NEW bad \in BOOLEAN,
             Accept(k, t, q, n, status, shown, bad, trig),
             ~shown => MayHide(k, reply),
             status \in Dead => n = 0
      PROVE  Progress /\ \E o \in Order : Placed(o, k, t, reply) /\ AddsOrder(o)
  BY <1>1, AcceptBook
<1>2. CASE reply = "order" /\ Accept(k, t, q, 0, "OPEN", TRUE, FALSE, trig)
  BY <1>1, <1>2 DEF Status
<1>3. CASE /\ reply = "order"
           /\ \E bad \in BOOLEAN : Accept(k, t, q, q, "COMPLETE", TRUE, bad, trig)
  BY <1>1, <1>3 DEF Status, Dead
<1>4. CASE reply = "order" /\ \E n \in 1 .. q - 1 : Accept(k, t, q, n, "OPEN", TRUE, FALSE, trig)
  <2>1. PICK n \in 1 .. q - 1 : Accept(k, t, q, n, "OPEN", TRUE, FALSE, trig)
    BY <1>4
  <2>2. n \in Nat
    OBVIOUS
  <2> QED
    BY <1>1, <1>4, <2>1, <2>2 DEF Status, Dead
<1>5. CASE reply = "order" /\ Accept(k, t, q, 0, "REJECTED", TRUE, FALSE, trig)
  BY <1>1, <1>5 DEF Status
<1>6. CASE /\ reply = IF k = "stop" THEN "unseen" ELSE "order"
           /\ Cost({<<"unseen", k>>})
           /\ Accept(k, t, q, 0, "OPEN", FALSE, FALSE, trig)
  <2>1. MayHide(k, reply)
    BY <1>6 DEF Cost, MayHide
  <2> QED
    BY <1>1, <1>6, <2>1 DEF Status
<1>7. CASE /\ reply = "raised"
           /\ \E shown \in BOOLEAN :
                /\ Cost({<<IF shown THEN "lost" ELSE "lost_unseen", k>>})
                /\ Accept(k, t, q, 0, "OPEN", shown, FALSE, trig)
  <2>1. PICK shown \in BOOLEAN :
          /\ Cost({<<IF shown THEN "lost" ELSE "lost_unseen", k>>})
          /\ Accept(k, t, q, 0, "OPEN", shown, FALSE, trig)
    BY <1>7
  <2>2. ~shown => MayHide(k, reply)
    BY <1>7, <2>1 DEF Cost, MayHide
  <2> QED
    BY <1>1, <1>7, <2>1, <2>2 DEF Status
<1>8. CASE reply = "refused" /\ UNCHANGED <<orders, net>>
  BY <1>8, BookAlone
<1> QED
  BY <1>2, <1>3, <1>4, <1>5, <1>6, <1>7, <1>8 DEF Place

\* A call of the engine adds an order only when its lookup found none.
LEMMA SendBook ==
  ASSUME BrokerAssumption, BrokerTypeOK, NEW k \in OwnKinds, NEW t \in Trades,
         NEW q \in Nat, NEW trig \in {0, 1}, NEW reply, NEW id,
         Send(k, t, q, trig, reply, id)
  PROVE  /\ Progress
         /\ \/ orders' = orders
            \/ /\ Existing(k, t) = {}
               /\ id = Len(orders) + 1 /\ reply # "refused"
               /\ \E o \in Order : Placed(o, k, t, reply) /\ AddsOrder(o)
<1>1. CASE /\ Existing(k, t) = {}
           /\ id = Len(orders) + 1
           /\ Place(k, t, q, trig, reply)
  BY <1>1, PlaceBook
<1>2. CASE orders' = orders
  BY <1>2, BookAlone
<1> QED
  BY <1>1, <1>2 DEF Send, brokerVars

\* A cancel, raced or not, adds nothing; the reply "dead" means it, and the
\* order has bought no more than before.
LEMMA CancelBook ==
  ASSUME BrokerTypeOK, NEW i \in Ids, NEW reply, Cancel(i, reply)
  PROVE  /\ Progress /\ AddsNone
         /\ reply \in Dead => /\ orders'[i].status \in Dead
                              /\ orders'[i].filled = orders[i].filled
<1>1. CASE Working(i) /\ orders' = [orders EXCEPT ![i].status = "CANCELLED"]
  <2> DEFINE o == [orders[i] EXCEPT !.status = "CANCELLED"]
  <2>1. /\ o \in Order /\ o.kind = orders[i].kind /\ o.trade = orders[i].trade
        /\ o.sym = orders[i].sym /\ o.shown = orders[i].shown
        /\ o.status = "CANCELLED" /\ o.filled = orders[i].filled
    BY OrderFields DEF Order, Status
  <2>2. orders' = [orders EXCEPT ![i] = o]
    BY <1>1
  <2>0. Working(i)
    BY <1>1
  <2> HIDE DEF o
  <2>3. Progress /\ AddsNone /\ orders'[i] = o
    BY <2>0, <2>1, <2>2, BookChanged, ZenonT(30)
  <2>4. orders'[i].status = "CANCELLED" /\ orders'[i].filled = orders[i].filled
    BY <2>1, <2>3
  <2> QED
    BY <2>3, <2>4 DEF Dead
<1>2. CASE UNCHANGED orders /\ reply = "unconfirmed"
  BY <1>2, BookAlone DEF Dead
<1>3. CASE /\ Working(i) /\ reply = "COMPLETE"
           /\ orders' = [orders EXCEPT ![i].status = "COMPLETE", ![i].filled = orders[i].qty]
  <2> DEFINE o == [orders[i] EXCEPT !.status = "COMPLETE", !.filled = orders[i].qty]
  <2>1. /\ o \in Order /\ o.kind = orders[i].kind /\ o.trade = orders[i].trade
        /\ o.sym = orders[i].sym /\ o.shown = orders[i].shown
    BY OrderFields DEF Order, Status
  <2>2. orders' = [orders EXCEPT ![i] = o]
    BY <1>3 DEF Ids, BrokerTypeOK
  <2> HIDE DEF o
  <2>3. Progress /\ AddsNone
    BY <1>3, <2>1, <2>2, BookChanged, ZenonT(30)
  <2> QED
    BY <1>3, <2>3 DEF Dead
<1> QED
  BY <1>1, <1>2, <1>3 DEF Cancel, brokerVars

\* The exchange and a human add at most an order of the human's, in plain
\* sight; an order that dies after filling in part was cancelled, not refused.
LEMMA ExchangeBook ==
  ASSUME BrokerTypeOK, Exchange
  PROVE  /\ Progress
         /\ \/ AddsNone
            \/ \E o \in Order : o.kind = "human" /\ o.trade = NoTrade /\ o.shown /\ AddsOrder(o)
         /\ \A i \in Ids :
              orders'[i].status \in Dead /\ Working(i) =>
                orders'[i].filled = 0 \/ <<"cancelled", orders[i].kind>> \in Events
<1>1. ASSUME NEW i \in Ids, NEW o \in Order,
             orders' = [orders EXCEPT ![i] = o],
             o.kind = orders[i].kind, o.trade = orders[i].trade, o.sym = orders[i].sym,
             orders[i].shown => o.shown,
             ~Working(i) => o.status = orders[i].status /\ o.filled = orders[i].filled,
             o.status \in Dead /\ Working(i) =>
               o.filled = 0 \/ <<"cancelled", orders[i].kind>> \in Events
      PROVE  /\ Progress /\ AddsNone
             /\ \A j \in Ids :
                  orders'[j].status \in Dead /\ Working(j) =>
                    orders'[j].filled = 0 \/ <<"cancelled", orders[j].kind>> \in Events
  <2>1. /\ Progress /\ AddsNone
        /\ orders'[i] = o
        /\ \A j \in Ids \ {i} : orders'[j] = orders[j]
    BY <1>1, BookChanged
  <2> QED
    BY <1>1, <2>1 DEF Working, Dead
<1>2. ASSUME NEW i \in Ids, Execute(i)
      PROVE  \E o \in Order :
               /\ orders' = [orders EXCEPT ![i] = o]
               /\ o.kind = orders[i].kind /\ o.trade = orders[i].trade /\ o.sym = orders[i].sym
               /\ o.shown = orders[i].shown
               /\ o.status \in {"OPEN", "COMPLETE"}
  <2>1. PICK n \in 1 .. Left(i), bad \in BOOLEAN :
          orders' = [orders EXCEPT
            ![i].filled = @ + n,
            ![i].adverse = @ \/ bad,
            ![i].status = IF n = Left(i) THEN "COMPLETE" ELSE @]
    BY <1>2 DEF Execute
  <2> DEFINE filled == orders[i].filled + n
             adverse == orders[i].adverse \/ bad
             status == IF n = Left(i) THEN "COMPLETE" ELSE orders[i].status
             o == [orders[i] EXCEPT !.filled = filled, !.adverse = adverse, !.status = status]
  <2>2. filled \in Nat
    BY OrderFields
  <2>3. adverse \in BOOLEAN
    OBVIOUS
  <2>4. status \in {"OPEN", "COMPLETE"}
    BY <1>2 DEF Execute, Working
  <2>5. orders' = [orders EXCEPT ![i] = o]
    BY <2>1 DEF Ids, BrokerTypeOK
  <2> HIDE DEF filled, adverse, status
  <2>6. /\ o \in Order
        /\ o.kind = orders[i].kind /\ o.trade = orders[i].trade /\ o.sym = orders[i].sym
        /\ o.shown = orders[i].shown /\ o.status = status
    BY <2>2, <2>3, <2>4, OrderFields DEF Order, Status
  <2> QED
    BY <2>4, <2>5, <2>6
<1>3. ASSUME NEW i \in Ids, Die(i)
      PROVE  \E o \in Order :
               /\ orders' = [orders EXCEPT ![i] = o]
               /\ o.kind = orders[i].kind /\ o.trade = orders[i].trade /\ o.sym = orders[i].sym
               /\ o.shown = orders[i].shown
               /\ o.filled = 0 \/ <<"cancelled", orders[i].kind>> \in Events
  <2>1. PICK s \in Dead :
          /\ s = "REJECTED" => orders[i].filled = 0
          /\ Cost({<<IF s = "REJECTED" THEN "refused" ELSE "cancelled", orders[i].kind>>})
          /\ orders' = [orders EXCEPT ![i].status = s]
    BY <1>3 DEF Die
  <2> DEFINE o == [orders[i] EXCEPT !.status = s]
  <2>2. /\ o \in Order
        /\ o.kind = orders[i].kind /\ o.trade = orders[i].trade /\ o.sym = orders[i].sym
        /\ o.shown = orders[i].shown /\ o.filled = orders[i].filled
    BY OrderFields DEF Order, Status, Dead
  <2>3. orders' = [orders EXCEPT ![i] = o]
    BY <2>1
  <2>4. s = "REJECTED" \/ <<"cancelled", orders[i].kind>> \in Events
    BY <2>1 DEF Cost
  <2> QED
    BY <2>1, <2>2, <2>3, <2>4
<1>4. ASSUME NEW i \in Ids, Show(i) \/ EditStop(i)
      PROVE  \E o \in Order :
               /\ orders' = [orders EXCEPT ![i] = o]
               /\ o.kind = orders[i].kind /\ o.trade = orders[i].trade /\ o.sym = orders[i].sym
               /\ orders[i].shown => o.shown
               /\ o.status = orders[i].status /\ o.filled = orders[i].filled
  <2> DEFINE shown == [orders[i] EXCEPT !.shown = TRUE]
             trig == [orders[i] EXCEPT !.trig = 1]
  <2>1. CASE Show(i)
    <3>1. /\ shown \in Order
          /\ shown.kind = orders[i].kind /\ shown.trade = orders[i].trade
          /\ shown.sym = orders[i].sym /\ shown.shown
          /\ shown.status = orders[i].status /\ shown.filled = orders[i].filled
      BY OrderFields DEF Order
    <3>2. orders' = [orders EXCEPT ![i] = shown]
      BY <2>1 DEF Show
    <3> QED
      BY <3>1, <3>2
  <2>2. CASE EditStop(i)
    <3>1. /\ trig \in Order
          /\ trig.kind = orders[i].kind /\ trig.trade = orders[i].trade
          /\ trig.sym = orders[i].sym /\ trig.shown = orders[i].shown
          /\ trig.status = orders[i].status /\ trig.filled = orders[i].filled
      BY OrderFields DEF Order
    <3>2. orders' = [orders EXCEPT ![i] = trig]
      BY <2>2 DEF EditStop
    <3> QED
      BY <3>1, <3>2
  <2> QED
    BY <1>4, <2>1, <2>2
<1>5. ASSUME NEW s \in Symbols, HumanClose(s)
      PROVE  \E o \in Order :
               o.kind = "human" /\ o.trade = NoTrade /\ o.shown /\ orders' = Append(orders, o)
  <2> DEFINE q == IF net[s] > 0 THEN net[s] ELSE -net[s]
             o(bad) == [kind |-> "human", trade |-> NoTrade, sym |-> s,
                        side |-> IF net[s] > 0 THEN -1 ELSE 1,
                        qty |-> q, filled |-> q, status |-> "COMPLETE",
                        shown |-> TRUE, adverse |-> bad, trig |-> 0]
  <2>1. PICK bad \in BOOLEAN : orders' = Append(orders, o(bad))
    BY <1>5 DEF HumanClose
  <2>2. q \in Nat
    BY DEF BrokerTypeOK
  <2>3. o(bad) \in Order /\ o(bad).kind = "human" /\ o(bad).trade = NoTrade /\ o(bad).shown
    BY <2>2 DEF Order, Kinds, Status
  <2> QED
    BY <2>1, <2>3
<1>6. ASSUME NEW i \in Ids, Execute(i) \/ Die(i) \/ Show(i) \/ EditStop(i)
      PROVE  /\ Progress /\ AddsNone
             /\ \A j \in Ids :
                  orders'[j].status \in Dead /\ Working(j) =>
                    orders'[j].filled = 0 \/ <<"cancelled", orders[j].kind>> \in Events
  <2>1. CASE Execute(i)
    <3>1. Working(i)
      BY <2>1 DEF Execute
    <3>2. PICK o \in Order :
            /\ orders' = [orders EXCEPT ![i] = o]
            /\ o.kind = orders[i].kind /\ o.trade = orders[i].trade /\ o.sym = orders[i].sym
            /\ o.shown = orders[i].shown
            /\ o.status \in {"OPEN", "COMPLETE"}
      BY <1>2, <2>1
    <3>3. o.status \notin Dead
      BY <3>2 DEF Dead
    <3> QED
      BY <1>1, <3>1, <3>2, <3>3
  <2>2. CASE Die(i)
    <3>1. Working(i)
      BY <2>2 DEF Die
    <3>2. PICK o \in Order :
            /\ orders' = [orders EXCEPT ![i] = o]
            /\ o.kind = orders[i].kind /\ o.trade = orders[i].trade /\ o.sym = orders[i].sym
            /\ o.shown = orders[i].shown
            /\ o.filled = 0 \/ <<"cancelled", orders[i].kind>> \in Events
      BY <1>3, <2>2
    <3> QED
      BY <1>1, <3>1, <3>2
  <2>3. CASE Show(i) \/ EditStop(i)
    BY <1>1, <1>4, <2>3 DEF Working, Dead
  <2> QED
    BY <1>6, <2>1, <2>2, <2>3
<1>7. ASSUME NEW s \in Symbols, HumanClose(s)
      PROVE  /\ Progress
             /\ \E o \in Order : o.kind = "human" /\ o.trade = NoTrade /\ o.shown /\ AddsOrder(o)
             /\ \A i \in Ids : orders'[i] = orders[i]
  BY <1>5, <1>7, BookAppended DEF AddsOrder
<1> QED
  BY <1>6, <1>7 DEF Exchange, Working, Dead

\* Under these adversities an order of kind k is not in sight of its lookup.
CanHide(k) == {<<"unseen", k>>, <<"lost_unseen", k>>} \cap Events # {}

\* An order a step may add: a human's, or one of the engine's that its lookup
\* did not find; an entry only from the call of submit_entry.
NewOrder(o) ==
  \/ o.kind = "human" /\ o.trade = NoTrade /\ o.shown
  \/ /\ o.kind \in OwnKinds /\ o.trade \in Trades
     /\ o.sym = SymbolOf[o.trade]
     /\ Existing(o.kind, o.trade) = {}
     /\ ~o.shown => CanHide(o.kind)
     /\ o.kind = "entry" => SendEntry /\ o.trade = job.t

\* What one call of the engine does to the book.
LEMMA CallBook ==
  ASSUME BrokerAssumption, BrokerTypeOK, NEW k \in OwnKinds, NEW t \in Trades,
         NEW q \in Nat, NEW trig \in {0, 1}, NEW reply, NEW id,
         Send(k, t, q, trig, reply, id),
         k = "entry" => SendEntry /\ t = job.t
  PROVE  Progress /\ (AddsNone \/ \E o \in Order : NewOrder(o) /\ AddsOrder(o))
<1>1. CASE orders' = orders
  BY <1>1, BookAlone
<1>2. ASSUME NEW o \in Order, Existing(k, t) = {}, Placed(o, k, t, reply), AddsOrder(o)
      PROVE  NewOrder(o) /\ AddsOrder(o)
  BY <1>2 DEF NewOrder, Placed, MayHide, CanHide
<1> QED
  BY <1>1, <1>2, SendBook

\* Every step moves the book forward, and adds at most one order for which
\* there was a reason.
LEMMA BookStep ==
  ASSUME BrokerAssumption, IInv, [Next]_vars
  PROVE  Progress /\ (AddsNone \/ \E o \in Order : NewOrder(o) /\ AddsOrder(o))
<1>0. BrokerTypeOK
  BY DEF IInv, TypeOK
<1>1. CASE orders' = orders
  BY <1>1, BookAlone
<1>2. ASSUME NEW t \in Trades, PlaceStop(t)
      PROVE  Progress /\ (AddsNone \/ \E o \in Order : NewOrder(o) /\ AddsOrder(o))
  <2>1. PICK reply, id : Send("stop", t, row[t].qty, row[t].price, reply, id)
    BY <1>2 DEF PlaceStop
  <2> QED
    BY <1>0, <2>1, RowOf, CallBook DEF OwnKinds
<1>3. CASE SendExit
  <2>1. PICK reply, id : Send("exit", job.t, row[job.t].qty, 0, reply, id)
    BY <1>3 DEF SendExit
  <2>2. job.t \in Trades
    BY <1>3, TradeInHand DEF SendExit, At, OnRow, OnFlatten
  <2> QED
    BY <1>0, <2>1, <2>2, RowOf, CallBook DEF OwnKinds
<1>4. CASE SendEntry
  <2>1. PICK reply, id : Send("entry", job.t, row[job.t].qty, 0, reply, id)
    BY <1>4 DEF SendEntry
  <2>2. job.t \in Trades /\ job.at = "send_entry"
    BY <1>4, TradeInHand DEF SendEntry, At, OnRow, OnIntent
  <2> QED
    BY <1>0, <1>4, <2>1, <2>2, RowOf, CallBook DEF OwnKinds
<1>5. CASE CancelStop
  <2>1. PICK reply : Cancel(row[job.t].stop, reply)
    BY <1>5 DEF CancelStop
  <2>2. row[job.t].stop \in Ids
    <3>1. job.at = "cancel_stop" /\ job.t \in Trades
      BY <1>5, TradeInHand DEF CancelStop, At, OnRow, OnFlatten
    <3> QED
      BY <3>1, RowOf DEF IInv, JobInv, JobIds
  <2> QED
    BY <1>0, <2>1, <2>2, CancelBook
<1>6. ASSUME NEW t \in Trades, CancelEntry(t)
      PROVE  Progress /\ (AddsNone \/ \E o \in Order : NewOrder(o) /\ AddsOrder(o))
  <2>1. PICK reply : Cancel(row[t].entry, reply)
    BY <1>6 DEF CancelEntry
  <2>2. row[t].entry \in Ids
    BY <1>6 DEF CancelEntry, IInv, BookInv, RowIds
  <2> QED
    BY <1>0, <2>1, <2>2, CancelBook
<1>7. CASE Environment
  BY <1>0, <1>7, ExchangeBook DEF Environment, NewOrder
<1>8. CASE TickStart \/ FetchBrokerTruth \/ Reconcile \/ Commands
  BY <1>1, <1>8 DEF TickStart, FetchBrokerTruth, Reconcile, ReconcileWaits, ReconcileEntryFill,
     ReconcileEntryDead, ReconcileFlat, ReconcileHeld, EndReconcile, Commands, ApplySwitch,
     ApplyClose, MarkClose, EndCommands, brokerVars
<1>9. CASE Protect
  BY <1>1, <1>2, <1>9 DEF Protect, SaveStop, EndProtect, brokerVars
<1>10. CASE FlattenSteps
  BY <1>1, <1>3, <1>5, <1>10 DEF FlattenSteps, SaveExit, SaveExitIllegal, brokerVars
<1>11. CASE Squareoff
  BY <1>1, <1>6, <1>11 DEF Squareoff, SquareoffRow, SaveCancel, EndSquareoff, brokerVars
<1>12. CASE Ingest
  BY <1>1, <1>4, <1>12 DEF Ingest, Skip, Intend, ResolveEntry, RejectEntry, SaveEntry, SaveFill,
     EndIngest, brokerVars
<1>13. CASE Crash \/ Start \/ SubmitCommand \/ Clock \/ UNCHANGED vars
  BY <1>1, <1>13 DEF Crash, Start, SubmitCommand, Clock, vars, brokerVars
<1> QED
  BY <1>7, <1>8, <1>9, <1>10, <1>11, <1>12, <1>13 DEF Next, Tick

-----------------------------------------------------------------------------
(* A repeated call places nothing twice. *)

\* No order of kind k is ever out of sight of the lookup that finds it by tag.
InSight(k) == \A i \in Ids : orders[i].kind = k => orders[i].shown

\* An order in sight stays so, and a new one comes in sight.
LEMMA StaysInSight ==
  ASSUME BrokerAssumption, IInv, [Next]_vars, NEW k \in OwnKinds, InSight(k), ~CanHide(k)
  PROVE  InSight(k)'
<1>1. Progress /\ (AddsNone \/ \E o \in Order : NewOrder(o) /\ AddsOrder(o))
  BY BookStep
<1>2. CASE AddsNone
  BY <1>1, <1>2 DEF AddsNone, Progress, InSight
<1>3. ASSUME NEW o \in Order, NewOrder(o), AddsOrder(o)
      PROVE  InSight(k)'
  BY <1>3 DEF AddsOrder, NewOrder, InSight, OwnKinds
<1> QED
  BY <1>1, <1>2, <1>3

\* One market exit per trade, ever, as long as an exit order accepted is one
\* that kite.orders() shows: place_market_mis looks its tag up before it sends,
\* so a close applied again after a crash and a retry after a lost reply find
\* the exit sent first.
THEOREM ExitsOnce == ~CanHide("exit") => (Spec => []AtMostOneExit)
<1> SUFFICES ASSUME ~CanHide("exit")
             PROVE  Spec => []AtMostOneExit
  OBVIOUS
<1>1. Init => InSight("exit") /\ AtMostOneExit
  BY DEF Init, BrokerInit, InSight, AtMostOneExit, Ids
<1>2. /\ IInv /\ InSight("exit") /\ AtMostOneExit /\ [Next]_vars
      => InSight("exit")' /\ AtMostOneExit'
  <2> SUFFICES ASSUME IInv, InSight("exit"), AtMostOneExit, [Next]_vars
               PROVE  InSight("exit")' /\ AtMostOneExit'
    OBVIOUS
  <2>1. InSight("exit")'
    BY BrokerAssumption, StaysInSight DEF OwnKinds
  <2>2. Progress /\ (AddsNone \/ \E o \in Order : NewOrder(o) /\ AddsOrder(o))
    BY BrokerAssumption, BookStep
  <2>3. CASE AddsNone
    <3>1. \A i \in Ids' : /\ i \in Ids
                          /\ orders'[i].kind = orders[i].kind /\ orders'[i].trade = orders[i].trade
      BY <2>2, <2>3 DEF AddsNone, Progress
    <3> QED
      BY <2>1, <3>1 DEF AtMostOneExit
  <2>4. ASSUME NEW o \in Order, NewOrder(o), AddsOrder(o)
        PROVE  AtMostOneExit'
    <3>1. ASSUME o.kind = "exit", NEW i \in Ids, orders[i].kind = "exit"
          PROVE  orders[i].trade # o.trade
      BY <2>4, <3>1 DEF NewOrder, Existing, OrdersOf, InSight
    <3> QED
      BY <2>4, <3>1 DEF AddsOrder, AtMostOneExit
  <2> QED
    BY <2>1, <2>2, <2>3, <2>4
<1> QED
  BY <1>1, <1>2, Inductive, PTL DEF Spec

\* At most one stop of a trade is working.
StopsDistinct ==
  \A i, j \in Ids :
    /\ orders[i].kind = "stop" /\ orders[j].kind = "stop"
    /\ orders[i].trade = orders[j].trade
    /\ Working(i) /\ Working(j)
    => i = j

\* That is what the cardinality of AtMostOneStop says.
LEMMA OneStopCounted ==
  ASSUME StopsDistinct
  PROVE  AtMostOneStop
<1> SUFFICES ASSUME NEW t \in Trades
             PROVE  Cardinality(WorkingStops(t)) <= 1
  BY DEF AtMostOneStop
<1>1. CASE WorkingStops(t) = {}
  BY <1>1, FS_EmptySet
<1>2. ASSUME NEW i \in WorkingStops(t)
      PROVE  Cardinality(WorkingStops(t)) <= 1
  <2>1. WorkingStops(t) = {i}
    BY <1>2 DEF WorkingStops, OrdersOf, StopsDistinct
  <2>2. Cardinality({i}) = 1
    BY FS_Singleton
  <2> QED
    BY <2>1, <2>2
<1> QED
  BY <1>1, <1>2

\* One working stop per trade, whatever is lost, retried or restarted, as long
\* as a stop accepted is one that kite.orders() shows: place_slm takes a stop
\* found working under its tag instead of a second one.
THEOREM StopsOnce == ~CanHide("stop") => (Spec => []AtMostOneStop)
<1> SUFFICES ASSUME ~CanHide("stop")
             PROVE  Spec => []AtMostOneStop
  OBVIOUS
<1>1. Init => InSight("stop") /\ StopsDistinct
  BY DEF Init, BrokerInit, InSight, StopsDistinct, Ids
<1>2. IInv /\ InSight("stop") /\ StopsDistinct /\ [Next]_vars => InSight("stop")' /\ StopsDistinct'
  <2> SUFFICES ASSUME IInv, InSight("stop"), StopsDistinct, [Next]_vars
               PROVE  InSight("stop")' /\ StopsDistinct'
    OBVIOUS
  <2>1. InSight("stop")'
    BY BrokerAssumption, StaysInSight DEF OwnKinds
  <2>2. Progress /\ (AddsNone \/ \E o \in Order : NewOrder(o) /\ AddsOrder(o))
    BY BrokerAssumption, BookStep
  <2>3. \A i \in Ids : i \in Ids' /\ (Working(i)' => Working(i))
    BY <2>2 DEF Progress, Working
  <2>4. CASE AddsNone
    <3>1. \A i \in Ids' : /\ i \in Ids
                          /\ orders'[i].kind = orders[i].kind /\ orders'[i].trade = orders[i].trade
                          /\ Working(i)' => Working(i)
      BY <2>2, <2>3, <2>4 DEF AddsNone, Progress
    <3> QED
      BY <2>1, <3>1 DEF StopsDistinct
  <2>5. ASSUME NEW o \in Order, NewOrder(o), AddsOrder(o)
        PROVE  StopsDistinct'
    <3>1. ASSUME o.kind = "stop", NEW i \in Ids, orders[i].kind = "stop", Working(i)
          PROVE  orders[i].trade # o.trade
      BY <2>5, <3>1 DEF NewOrder, Existing, OrdersOf, InSight
    <3> QED
      BY <2>5, <3>1 DEF AddsOrder, StopsDistinct, Working
  <2> QED
    BY <2>1, <2>2, <2>4, <2>5
<1>3. StopsDistinct => AtMostOneStop
  BY OneStopCounted
<1> QED
  BY <1>1, <1>2, <1>3, Inductive, PTL DEF Spec

-----------------------------------------------------------------------------
(* No order is booked twice. *)

\* What the tick has read of an order still holds of it: whose it is, and how
\* it ended if it had ended.
BookPast ==
  \A i \in DOMAIN truth.book :
    /\ i \in Ids
    /\ truth.book[i].kind = orders[i].kind /\ truth.book[i].trade = orders[i].trade
    /\ truth.book[i].sym = orders[i].sym
    /\ truth.book[i].status # "OPEN" => /\ orders[i].status = truth.book[i].status
                                        /\ orders[i].filled = truth.book[i].filled

\* The order book a tick has in hand is read from Kite or dropped.
LEMMA TruthStep ==
  ASSUME [Next]_vars
  PROVE  \/ truth' = truth
         \/ truth' = NoTruth
         \/ truth' = [truth EXCEPT !.net = net]
         \/ truth' = [truth EXCEPT !.book = orders] /\ orders' = orders
<1>1. CASE FetchBrokerTruth
  BY <1>1 DEF FetchBrokerTruth
<1>2. CASE EndReconcile \/ Crash
  BY <1>2 DEF EndReconcile, Crash
<1>3. CASE Reconcile /\ ~EndReconcile
  BY <1>3 DEF Reconcile, ReconcileWaits, ReconcileEntryFill, ReconcileEntryDead, ReconcileFlat,
     ReconcileHeld
<1>4. CASE TickStart \/ Protect \/ FlattenSteps
  BY <1>4 DEF TickStart, Protect, PlaceStop, SaveStop, EndProtect, FlattenSteps, CancelStop,
     SendExit, SaveExit, SaveExitIllegal, engineVarsButJob
<1>5. CASE Commands \/ Squareoff
  BY <1>5 DEF Commands, ApplySwitch, ApplyClose, MarkClose, EndCommands, Squareoff, SquareoffRow,
     CancelEntry, SaveCancel, EndSquareoff, engineVarsButJob
<1>6. CASE Ingest
  BY <1>6 DEF Ingest, Skip, Intend, SendEntry, ResolveEntry, RejectEntry, SaveEntry, SaveFill,
     EndIngest, engineVarsButJob
<1>7. CASE Start \/ SubmitCommand \/ Clock \/ Environment \/ UNCHANGED vars
  BY <1>7 DEF Start, SubmitCommand, Clock, Environment, vars, engineVars
<1> QED
  BY <1>1, <1>2, <1>3, <1>4, <1>5, <1>6, <1>7 DEF Next, Tick

\* However old the book in hand, it stays a past of the one at Kite.
LEMMA BookStaysPast ==
  ASSUME BrokerAssumption, IInv, BookPast, [Next]_vars
  PROVE  BookPast'
<1>1. Progress
  BY BookStep
<1>2. truth \in [net : [Symbols -> Int], book : Seq(Order)]
  BY DEF IInv, TypeOK
<1>3. CASE truth'.book = truth.book
  BY <1>1, <1>3 DEF BookPast, Progress, Working
<1>4. CASE truth' = NoTruth
  BY <1>4 DEF BookPast, NoTruth
<1>5. CASE truth' = [truth EXCEPT !.net = net]
  BY <1>2, <1>3, <1>5
<1>6. CASE truth' = [truth EXCEPT !.book = orders] /\ orders' = orders
  <2>1. truth'.book = orders
    BY <1>2, <1>6
  <2> QED
    BY <1>6, <2>1 DEF BookPast, Ids
<1> QED
  BY <1>3, <1>4, <1>5, <1>6, TruthStep

\* The exits booked for a trade are orders of its symbol, its own or a
\* human's, and only a closed trade has any.
OwnExits ==
  \A t \in Trades :
    /\ row[t].exits # {} => row[t].state = "CLOSED"
    /\ \A i \in row[t].exits :
         i \in Ids /\ orders[i].sym = SymbolOf[t] /\ orders[i].trade \in {t, NoTrade}

\* The books of trade t are as they were.
BookedAsBefore(t) ==
  row'[t].exits = row[t].exits /\ (row'[t].state = "CLOSED" => row[t].state = "CLOSED")

\* Only finalize_exit closes a trade and books its exits.
LEMMA ExitsKept ==
  ASSUME IInv, [Next]_vars, NEW t \in Trades, ~ReconcileFlat(t)
  PROVE  BookedAsBefore(t)
<1> USE DEF BookedAsBefore
<1>0. row \in [Trades -> Row] /\ row[t] \in Row
  BY DEF IInv, TypeOK
<1>1. CASE row' = row
  BY <1>1
<1>2. ASSUME NEW u \in Trades, NEW r, row' = [row EXCEPT ![u] = r], r.exits = row[u].exits,
             r.state = "CLOSED" => row[u].state = "CLOSED"
      PROVE  BookedAsBefore(t)
  BY <1>0, <1>2
<1>3. ASSUME NEW u \in Trades, ReconcileEntryFill(u) \/ ReconcileEntryDead(u)
      PROVE  BookedAsBefore(t)
  <2> DEFINE o == truth.book[row[u].entry]
  <2>1. CASE row' = [row EXCEPT ![u] = FillApplied(row[u], o)]
    <3>1. /\ FillApplied(row[u], o).exits = row[u].exits
          /\ FillApplied(row[u], o).state # "CLOSED"
      BY <1>0 DEF FillApplied, Row
    <3> QED
      BY <1>2, <2>1, <3>1
  <2>2. CASE row' = [row EXCEPT ![u].state = o.status] /\ o.status \in Dead
    BY <1>0, <2>2 DEF Row, Dead
  <2> QED
    BY <1>3, <2>1, <2>2 DEF ReconcileEntryFill, ReconcileEntryDead
<1>4. ASSUME NEW u \in Trades, ReconcileHeld(u)
      PROVE  BookedAsBefore(t)
  <2>1. row' = [row EXCEPT ![u] = Adopted(row[u], u)] /\ row[u] \in Row
    BY <1>0, <1>4 DEF ReconcileHeld
  <2>2. /\ Adopted(row[u], u).exits = row[u].exits
        /\ Adopted(row[u], u).state \in {row[u].state, "ENTERED"}
    BY <2>1 DEF Adopted, Row
  <2> QED
    BY <1>2, <2>1, <2>2
<1>5. ASSUME NEW u \in Trades, ReconcileFlat(u)
      PROVE  BookedAsBefore(t)
  BY <1>0, <1>5 DEF ReconcileFlat
<1>6. CASE Reconcile
  BY <1>1, <1>3, <1>4, <1>5, <1>6 DEF Reconcile, ReconcileWaits, EndReconcile
<1>7. CASE SaveStop \/ SaveExit
  <2>1. job.t \in Trades /\ row[job.t] \in Row
    BY <1>0, <1>7, TradeInHand DEF SaveStop, SaveExit, At, OnRow, OnFlatten
  <2>2. CASE SaveStop
    BY <1>0, <2>1, <2>2 DEF SaveStop, Row
  <2>3. CASE SaveExit
    BY <1>0, <2>1, <2>3 DEF SaveExit, Row
  <2> QED
    BY <1>7, <2>2, <2>3
<1>8. CASE SaveCancel \/ RejectEntry \/ SaveEntry
  <2>1. job.t \in Trades /\ row[job.t] \in Row
    BY <1>0, <1>8, TradeInHand DEF SaveCancel, RejectEntry, SaveEntry, At, OnRow, OnIntent
  <2> QED
    BY <1>0, <1>8, <2>1 DEF SaveCancel, RejectEntry, SaveEntry, Row
<1>9. CASE SaveFill
  <2>1. job.t \in Trades /\ row[job.t] \in Row
    BY <1>0, <1>9, TradeInHand DEF SaveFill, At, OnRow
  <2> QED
    BY <1>0, <1>9, <2>1 DEF SaveFill, FillApplied, Row
<1>10. ASSUME NEW u \in Trades, SquareoffRow(u) \/ Skip(u) \/ Intend(u)
       PROVE  BookedAsBefore(t)
  BY <1>0, <1>10 DEF SquareoffRow, Skip, Intend, Row
<1>11. CASE Protect \/ FlattenSteps
  BY <1>1, <1>7, <1>11 DEF Protect, PlaceStop, EndProtect, FlattenSteps, CancelStop, SendExit,
     SaveExitIllegal, engineVarsButJob
<1>12. CASE Squareoff
  BY <1>1, <1>8, <1>10, <1>12 DEF Squareoff, CancelEntry, EndSquareoff, engineVarsButJob
<1>13. CASE Ingest
  BY <1>1, <1>8, <1>9, <1>10, <1>13 DEF Ingest, SendEntry, ResolveEntry, EndIngest,
     engineVarsButJob
<1>14. CASE TickStart \/ FetchBrokerTruth \/ Commands
  BY <1>1, <1>14 DEF TickStart, FetchBrokerTruth, Commands, ApplySwitch, ApplyClose, MarkClose,
     EndCommands
<1>15. CASE Crash \/ Start \/ SubmitCommand \/ Clock \/ Environment \/ UNCHANGED vars
  BY <1>1, <1>15 DEF Crash, Start, SubmitCommand, Clock, Environment, vars, engineVars
<1> QED
  BY <1>6, <1>11, <1>12, <1>13, <1>14, <1>15 DEF Next, Tick

\* finalize_exit books orders of its trade, or a human's that no closed trade
\* of the symbol has claimed.
LEMMA ReconcileFlatBooks ==
  ASSUME BrokerAssumption, IInv, BookPast, NEW t \in Trades, ReconcileFlat(t)
  PROVE  /\ orders' = orders
         /\ row'[t].state = "CLOSED"
         /\ \A i \in row'[t].exits :
              /\ i \in Ids /\ orders[i].sym = SymbolOf[t]
              /\ orders[i].trade = t \/ (orders[i].trade = NoTrade /\ i \notin Claimed(t))
<1>1. /\ row \in [Trades -> Row] /\ row[t] \in Row
      /\ row' = [row EXCEPT ![t] = Finalized(row[t], t)] /\ orders' = orders
  BY DEF ReconcileFlat, IInv, TypeOK, brokerVars
<1>2. row'[t] = Finalized(row[t], t)
  BY <1>1
<1>3. /\ Finalized(row[t], t).state = "CLOSED"
      /\ Finalized(row[t], t).exits = Booked(truth.book, Exits(t), row[t].entry)
  BY <1>1 DEF Finalized, Row
<1>4. Booked(truth.book, Exits(t), row[t].entry) \subseteq Exits(t)
  BY DEF Booked
<1>5. ASSUME NEW i \in Exits(t)
      PROVE  /\ i \in DOMAIN truth.book /\ truth.book[i].sym = SymbolOf[t]
             /\ \/ truth.book[i].trade = t
                \/ truth.book[i].trade = NoTrade /\ i \notin Claimed(t)
  BY <1>5 DEF Exits, TradeExits, ExitSide
<1> QED
  BY <1>1, <1>2, <1>3, <1>4, <1>5 DEF BookPast

\* Exits booked stay orders of the trade they are booked for.
LEMMA ExitsStayOwn ==
  ASSUME BrokerAssumption, IInv, BookPast, OwnExits, [Next]_vars
  PROVE  OwnExits'
<1>1. Progress
  BY BookStep
<1> SUFFICES ASSUME NEW t \in Trades
             PROVE  /\ row'[t].exits # {} => row'[t].state = "CLOSED"
                    /\ \A i \in row'[t].exits :
                         /\ i \in Ids' /\ orders'[i].sym = SymbolOf[t]
                         /\ orders'[i].trade \in {t, NoTrade}
  BY DEF OwnExits
<1>2. CASE ReconcileFlat(t)
  <2>1. Ids' = Ids
    BY <1>2, ReconcileFlatBooks DEF Ids
  <2> QED
    BY <1>2, <2>1, ReconcileFlatBooks
<1>3. CASE ~ReconcileFlat(t)
  <2>1. row'[t].exits = row[t].exits
    BY <1>3, ExitsKept DEF BookedAsBefore
  <2>2. row[t].state = "CLOSED" => row'[t].state = "CLOSED"
    BY TerminalStays DEF Terminal
  <2> QED
    BY <1>1, <2>1, <2>2 DEF OwnExits, Progress
<1> QED
  BY <1>2, <1>3

\* A booking takes nothing another trade was booked with.
LEMMA StaysBookedOnce ==
  ASSUME BrokerAssumption, IInv, BookPast, OwnExits, ExitsBookedOnce, [Next]_vars
  PROVE  ExitsBookedOnce'
<1>1. CASE \A t \in Trades : ~ReconcileFlat(t)
  BY <1>1, ExitsKept DEF ExitsBookedOnce, BookedAsBefore
<1>2. ASSUME NEW t \in Trades, ReconcileFlat(t)
      PROVE  ExitsBookedOnce'
  <2>1. \A u \in Trades \ {t} : row'[u] = row[u]
    BY <1>2 DEF ReconcileFlat, IInv, TypeOK
  <2>2. ASSUME NEW u \in Trades \ {t}, NEW i \in row'[t].exits, i \in row[u].exits
        PROVE  FALSE
    <3>1. row[u].state = "CLOSED" /\ orders[i].sym = SymbolOf[u] /\ orders[i].trade \in {u, NoTrade}
      BY <2>2 DEF OwnExits
    <3>2. /\ orders[i].sym = SymbolOf[t]
          /\ orders[i].trade = t \/ (orders[i].trade = NoTrade /\ i \notin Claimed(t))
      BY <1>2, <2>2, ReconcileFlatBooks
    <3> DEFINE Others == {v \in Trades \ {t} : row[v].state = "CLOSED" /\ SymbolOf[v] = SymbolOf[t]}
               Booking(v) == row[v].exits \cup {row[v].closing}
    <3>3. u \in Others /\ i \in Booking(u)
      BY <2>2, <3>1, <3>2
    <3>4. i \in Claimed(t)
      <4>1. Claimed(t) = UNION {Booking(v) : v \in Others}
        BY DEF Claimed
      <4> HIDE DEF Others, Booking
      <4> QED
        BY <3>3, <4>1
    <3> QED
      BY <3>1, <3>2, <3>4 DEF BrokerAssumption
  <2> QED
    BY <2>1, <2>2 DEF ExitsBookedOnce
<1> QED
  BY <1>1, <1>2

\* No order is booked as the exit of two trades, under every adversity: an
\* order of another trade is never taken, and a human's only while no closed
\* trade of the symbol claims it (_claimed_exit_order_ids).
THEOREM BookedOnce == Spec => []ExitsBookedOnce
<1>1. Init => BookPast /\ OwnExits /\ ExitsBookedOnce
  BY DEF Init, BookPast, OwnExits, ExitsBookedOnce, NoRow, NoTruth
<1>2. IInv /\ BookPast /\ OwnExits /\ ExitsBookedOnce /\ [Next]_vars
      => BookPast' /\ OwnExits' /\ ExitsBookedOnce'
  BY BrokerAssumption, BookStaysPast, ExitsStayOwn, StaysBookedOnce
<1> QED
  BY <1>1, <1>2, Inductive, PTL DEF Spec

-----------------------------------------------------------------------------
(* No entry past the loss cap. *)

\* The tick is at none of the calls that take an entry in hand, and has not
\* begun to ingest.
Elsewhere ==
  /\ job'.at \notin OnIntent \cup {"save_cancel"}
  /\ job'.step = "ingest" => job.step = "ingest"

\* Another step of the tick begins.
LEMMA ElsewhereBegin ==
  ASSUME NEW step \in LoopSteps \ {"ingest"}, NEW S, job' = Begin(step, S)
  PROVE  Elsewhere
BY DEF Elsewhere, Begin, Idle, LoopSteps, OnIntent

\* A row is taken in hand for something else.
LEMMA ElsewhereCall ==
  ASSUME job \in Job, NEW p, p \notin OnIntent \cup {"save_cancel"}, NEW t, NEW why,
         job' = Call(p, t, why)
  PROVE  Elsewhere
BY DEF Elsewhere, Call, Job

\* So it is when a position is flattened,
LEMMA ElsewhereFlatten ==
  ASSUME job \in Job, NEW t, NEW why, job' = Flatten(t, why)
  PROVE  Elsewhere
<1>1. {"send_exit", "cancel_stop"} \cap (OnIntent \cup {"save_cancel"}) = {}
  BY DEF OnIntent
<1> QED
  BY <1>1, ElsewhereCall DEF Flatten

\* or a fill acted upon.
LEMMA ElsewhereFill ==
  ASSUME job \in Job, NEW t, NEW o, job' = ActOnFill(t, o)
  PROVE  Elsewhere
<1>1. "place_stop" \notin OnIntent \cup {"save_cancel"}
  BY DEF OnIntent
<1> QED
  BY <1>1, ElsewhereCall, ElsewhereFlatten DEF ActOnFill

\* The tick goes on in its loop.
LEMMA ElsewhereLoop ==
  ASSUME job \in Job, job'.at \in LoopSteps, job'.step = job.step
  PROVE  Elsewhere
BY DEF Elsewhere, LoopSteps, OnIntent

\* The row in hand is put back, by flatten or by the step that called.
LEMMA ElsewhereResume ==
  ASSUME job \in Job, FlattenReturns(TRUE) \/ FlattenReturns(FALSE) \/ job' = Resume(job)
  PROVE  Elsewhere
BY DEF Elsewhere, FlattenReturns, Resume, Job, LoopSteps, OnIntent

\* Who leads where: only the entry's own calls follow an entry's intent, only a
\* cancel of an entry is about to be recorded as one, and only EndCommands
\* begins to ingest.
LEMMA WhoLeads ==
  ASSUME IInv, [Next]_vars
  PROVE  \/ Elsewhere
         \/ job' = job
         \/ (\E t \in Trades : Intend(t) \/ CancelEntry(t)) \/ SendEntry \/ ResolveEntry
         \/ EndCommands
<1>0. job \in Job
  BY DEF IInv, TypeOK
<1>1. CASE TickStart \/ FetchBrokerTruth
  BY <1>0, <1>1, ZenonT(30) DEF TickStart, FetchBrokerTruth, Elsewhere, Begin, Idle, Job, LoopSteps, OnIntent
<1>2. ASSUME NEW t \in Trades,
             ReconcileWaits(t) \/ ReconcileEntryDead(t) \/ ReconcileFlat(t) \/ ReconcileHeld(t)
      PROVE  Elsewhere
  <2>1. job.at = "reconcile" /\ job' = [job EXCEPT !.todo = @ \ {t}]
    BY <1>2 DEF ReconcileWaits, ReconcileEntryDead, ReconcileFlat, ReconcileHeld, Reconciling, At
  <2> QED
    BY <1>0, <2>1, ElsewhereLoop DEF Job, LoopSteps
<1>3. ASSUME NEW t \in Trades, ReconcileEntryFill(t)
      PROVE  Elsewhere
  BY <1>0, <1>3, ElsewhereFill DEF ReconcileEntryFill
<1>4. CASE EndReconcile
  BY <1>4, ElsewhereBegin DEF EndReconcile, LoopSteps
<1>5. CASE Reconcile
  BY <1>2, <1>3, <1>4, <1>5 DEF Reconcile
<1>6. ASSUME NEW t \in Trades, PlaceStop(t)
      PROVE  Elsewhere
  <2>1. PICK id, got : \/ job' = [Resume(job) EXCEPT !.todo = @ \ {t}]
                       \/ job' = [Call("save_stop", t, "NONE") EXCEPT !.id = id, !.got = got]
    BY <1>6 DEF PlaceStop
  <2> QED
    BY <1>0, <2>1 DEF Elsewhere, Resume, Call, Job, LoopSteps, OnIntent
<1>7. CASE SaveStop \/ EndProtect
  BY <1>0, <1>7, ElsewhereResume DEF SaveStop, EndProtect, Elsewhere, Begin, Idle, OnIntent
<1>8. CASE CancelStop
  <2>1. job' = [job EXCEPT !.at = "send_exit"] \/ FlattenReturns(FALSE)
    BY <1>8 DEF CancelStop
  <2> QED
    BY <1>0, <2>1, ElsewhereResume DEF Elsewhere, Job, OnIntent
<1>9. CASE SendExit
  <2>1. PICK id : job' = [job EXCEPT !.at = "save_exit", !.id = id] \/ FlattenReturns(FALSE)
    BY <1>9 DEF SendExit
  <2> QED
    BY <1>0, <2>1, ElsewhereResume DEF Elsewhere, Job, OnIntent
<1>10. CASE SaveExit \/ SaveExitIllegal
  BY <1>0, <1>10, ElsewhereResume, ElsewhereBegin DEF SaveExit, SaveExitIllegal, LoopSteps
<1>11. CASE ApplySwitch
  <2>1. job.at = "commands" /\ job' = [job EXCEPT !.batch = @ \ {Oldest}]
    BY <1>11 DEF ApplySwitch, Applying, At
  <2> QED
    BY <1>0, <2>1, ElsewhereLoop DEF Job, LoopSteps
<1>12. CASE ApplyClose
  <2>1. PICK t : job' = Flatten(t, "MANUAL_CLOSE") \/ job' = [job EXCEPT !.batch = @ \ {Oldest}]
    BY <1>12 DEF ApplyClose
  <2>2. job.at = "commands"
    BY <1>12 DEF ApplyClose, Applying, At
  <2> QED
    BY <1>0, <2>1, <2>2, ElsewhereLoop, ElsewhereFlatten DEF Job, LoopSteps
<1>13. CASE MarkClose
  <2>1. job' = [Resume(job) EXCEPT !.batch = @ \ {Oldest}]
    BY <1>13 DEF MarkClose
  <2> QED
    BY <1>0, <2>1 DEF Elsewhere, Resume, Job, LoopSteps, OnIntent
<1>14. ASSUME NEW t \in Trades, SquareoffRow(t)
       PROVE  Elsewhere
  <2>1. job' = [job EXCEPT !.todo = @ \ {t}] \/ job' = Flatten(t, eng.shut)
    BY <1>14 DEF SquareoffRow
  <2>2. job.at = "squareoff"
    BY <1>14 DEF SquareoffRow, At
  <2> QED
    BY <1>0, <2>1, <2>2, ElsewhereLoop, ElsewhereFlatten DEF Job, LoopSteps
<1>15. CASE SaveCancel \/ RejectEntry
  BY <1>0, <1>15, ElsewhereResume DEF SaveCancel, RejectEntry
<1>16. CASE EndSquareoff \/ EndIngest \/ Crash
  BY <1>16 DEF EndSquareoff, EndIngest, TickEnds, Crash, Elsewhere, Idle, OnIntent
<1>17. ASSUME NEW t \in Trades, Skip(t)
       PROVE  Elsewhere
  <2>1. job.at = "ingest" /\ job' = [job EXCEPT !.todo = @ \ {t}]
    BY <1>17 DEF Skip, At
  <2> QED
    BY <1>0, <2>1, ElsewhereLoop DEF Job, LoopSteps
<1>18. CASE SaveEntry
  <2>1. job' = [job EXCEPT !.at = "save_fill"] \/ job' = Resume(job)
    BY <1>18 DEF SaveEntry
  <2> QED
    BY <1>0, <2>1, ElsewhereResume DEF Elsewhere, Job, OnIntent
<1>19. CASE SaveFill
  BY <1>0, <1>19, ElsewhereFill DEF SaveFill
<1>20. CASE Protect
  BY <1>6, <1>7, <1>20 DEF Protect
<1>21. CASE FlattenSteps
  BY <1>8, <1>9, <1>10, <1>21 DEF FlattenSteps
<1>22. CASE Commands
  BY <1>11, <1>12, <1>13, <1>22 DEF Commands
<1>23. CASE Squareoff
  BY <1>14, <1>15, <1>16, <1>23 DEF Squareoff
<1>24. CASE Ingest
  BY <1>15, <1>16, <1>17, <1>18, <1>19, <1>24 DEF Ingest
<1>25. CASE Start \/ SubmitCommand \/ Clock \/ Environment \/ UNCHANGED vars
  BY <1>25 DEF Start, SubmitCommand, Clock, Environment, vars, engineVars
<1> QED
  BY <1>1, <1>5, <1>16, <1>20, <1>21, <1>22, <1>23, <1>24, <1>25 DEF Next, Tick

\* Where the three calls that lead somewhere go.
LEMMA IntentGoesOn ==
  ASSUME IInv, SendEntry \/ ResolveEntry
  PROVE  job'.step = job.step /\ job.at \in OnIntent
<1>1. job \in Job
  BY DEF IInv, TypeOK
<1>2. CASE SendEntry
  <2>1. PICK p, id, got : \/ job' = [job EXCEPT !.at = p]
                          \/ job' = [job EXCEPT !.at = p, !.id = id, !.got = got]
    <3>1. PICK reply \in {"order", "raised", "refused"}, id \in 0 .. Len(orders) + 1 :
            job' = CASE reply = "raised"  -> [job EXCEPT !.at = "resolve_entry"]
                     [] reply = "refused" -> [job EXCEPT !.at = "reject_entry"]
                     [] reply = "order"   ->
                          IF orders'[id].status = "REJECTED"
                            THEN [job EXCEPT !.at = "reject_entry"]
                            ELSE [job EXCEPT !.at = "save_entry", !.id = id,
                                    !.got = IF FillFinal(orders'[id]) THEN "filled" ELSE "working"]
      BY <1>2 DEF SendEntry
    <3> QED
      BY <3>1
  <2> QED
    BY <1>1, <1>2, <2>1 DEF SendEntry, At, OnIntent, Job
<1>3. CASE ResolveEntry
  <2>1. PICK p, id, got : \/ job' = [job EXCEPT !.at = p]
                          \/ job' = [job EXCEPT !.at = p, !.id = id, !.got = got]
    BY <1>3 DEF ResolveEntry
  <2> QED
    BY <1>1, <1>3, <2>1 DEF ResolveEntry, At, OnIntent, Job
<1> QED
  BY <1>2, <1>3

\* The loss of the day is a matter of the closed trades and their P&L alone.
LEMMA SameLoss ==
  ASSUME IInv, [Next]_vars, \A t \in Trades : ~ReconcileFlat(t)
  PROVE  ClosedLoss' = ClosedLoss
<1>1. pnl' = pnl
  <2>1. CASE Reconcile
    BY <2>1 DEF Reconcile, ReconcileWaits, ReconcileEntryFill, ReconcileEntryDead, ReconcileHeld,
       EndReconcile
  <2>2. CASE TickStart \/ FetchBrokerTruth \/ Protect \/ FlattenSteps
    BY <2>2 DEF TickStart, FetchBrokerTruth, Protect, PlaceStop, SaveStop, EndProtect,
       FlattenSteps, CancelStop, SendExit, SaveExit, SaveExitIllegal, engineVarsButJob
  <2>3. CASE Commands \/ Squareoff
    BY <2>3 DEF Commands, ApplySwitch, ApplyClose, MarkClose, EndCommands, Squareoff,
       SquareoffRow, CancelEntry, SaveCancel, EndSquareoff, engineVarsButJob
  <2>4. CASE Ingest
    BY <2>4 DEF Ingest, Skip, Intend, SendEntry, ResolveEntry, RejectEntry, SaveEntry, SaveFill,
       EndIngest, engineVarsButJob
  <2>5. CASE Crash \/ Start \/ SubmitCommand \/ Clock \/ Environment \/ UNCHANGED vars
    BY <2>5 DEF Crash, Start, SubmitCommand, Clock, Environment, vars, engineVars
  <2> QED
    BY <2>1, <2>2, <2>3, <2>4, <2>5 DEF Next, Tick
<1>2. \A t \in Trades : row'[t].state = "CLOSED" <=> row[t].state = "CLOSED"
  BY ExitsKept, TerminalStays DEF BookedAsBefore, Terminal
<1>3. Losers' = Losers
  BY <1>1, <1>2 DEF Losers
<1> QED
  BY <1>1, <1>3 DEF ClosedLoss, MapThenSumSet, MapThenFoldSet

\* An entry is taken in hand by the ingest step only, and that step is begun
\* only below the cap.
BelowCap ==
  /\ job.at \in OnIntent => job.step = "ingest"
  /\ job.step = "ingest" => ~(ClosedLoss >= LossCap)

\* No row is closed while the tick ingests, so the loss stays below the cap
\* until the step ends.
LEMMA StaysBelowCap ==
  ASSUME IInv, BelowCap, [Next]_vars
  PROVE  BelowCap'
<1>0. job \in Job
  BY DEF IInv, TypeOK
<1>1. ASSUME NEW t \in Trades, ReconcileFlat(t)
      PROVE  BelowCap'
  <2>1. job.at = "reconcile" /\ job.step = "reconcile" /\ job' = [job EXCEPT !.todo = @ \ {t}]
    BY <1>1 DEF ReconcileFlat, Reconciling, At, IInv, JobInv, JobCoherent, LoopSteps
  <2>2. job'.at = "reconcile" /\ job'.step = "reconcile"
    BY <1>0, <2>1 DEF Job
  <2> QED
    BY <2>2 DEF BelowCap, OnIntent
<1>2. CASE \A t \in Trades : ~ReconcileFlat(t)
  <2>1. ClosedLoss' = ClosedLoss
    BY <1>2, SameLoss
  <2>2. CASE Elsewhere \/ job' = job
    BY <2>1, <2>2 DEF Elsewhere, BelowCap
  <2>3. ASSUME NEW t \in Trades, Intend(t)
        PROVE  BelowCap'
    <3>1. job.step = "ingest" /\ job' = Call("send_entry", t, "NONE")
      BY <2>3 DEF Intend, At, IInv, JobInv, JobCoherent, LoopSteps
    <3>2. job'.step = "ingest"
      BY <1>0, <3>1 DEF Call, Job
    <3> QED
      BY <2>1, <3>1, <3>2 DEF BelowCap
  <2>4. ASSUME NEW t \in Trades, CancelEntry(t)
        PROVE  BelowCap'
    <3>1. /\ job.at = "squareoff" /\ job.step = "squareoff"
          /\ job' = Call("save_cancel", t, "NONE") \/ job' = [job EXCEPT !.todo = @ \ {t}]
      BY <2>4 DEF CancelEntry, At, IInv, JobInv, JobCoherent, LoopSteps
    <3>2. job'.step = "squareoff" /\ job'.at \in {"save_cancel", "squareoff"}
      BY <1>0, <3>1 DEF Call, Job
    <3> QED
      BY <3>2 DEF BelowCap, OnIntent
  <2>5. CASE SendEntry \/ ResolveEntry
    <3>1. job'.step = job.step /\ job.at \in OnIntent
      BY <2>5, IntentGoesOn
    <3> QED
      BY <2>1, <3>1 DEF BelowCap
  <2>6. CASE EndCommands
    <3>1. CASE ClosedLoss >= LossCap
      <4>1. Limited.shut # "NONE"
        <5> DEFINE s == IF eng.shut = "NONE" THEN Shutdown(eng, "DAILY_LOSS_BREACH") ELSE eng
                   e == [s EXCEPT !.breached = TRUE, !.paused = TRUE]
        <5>1. eng \in Engine
          BY DEF IInv, TypeOK
        <5>2. s \in Engine /\ s.shut # "NONE"
          BY <5>1 DEF Shutdown, Engine, CloseReasons, ActiveReasons
        <5>3. e.shut # "NONE"
          BY <5>2 DEF Engine
        <5>4. Limited = e
          BY <3>1, <5>3 DEF Limited
        <5> QED
          BY <5>3, <5>4
      <4>2. job' = Begin("squareoff", OpenRows)
        BY <2>6, <4>1 DEF EndCommands
      <4>3. job'.step = "squareoff" /\ job'.at = "squareoff"
        BY <4>2 DEF Begin, Idle
      <4> QED
        BY <4>3 DEF BelowCap, OnIntent
    <3>2. CASE ~(ClosedLoss >= LossCap)
      <4>1. PICK S : \E step \in {"squareoff", "ingest"} : job' = Begin(step, S)
        BY <2>6 DEF EndCommands
      <4>2. job'.at \notin OnIntent
        BY <4>1 DEF Begin, Idle, OnIntent
      <4> QED
        BY <2>1, <3>2, <4>2 DEF BelowCap
    <3> QED
      BY <3>1, <3>2
  <2> QED
    BY <2>2, <2>3, <2>4, <2>5, <2>6, WhoLeads
<1> QED
  BY <1>1, <1>2

\* Once the booked losses of the day have reached the cap no entry is sent,
\* under every adversity and across restarts: the cap is checked on the table,
\* which survives, and no row closes between that check and the call.
THEOREM NoEntryPastCap == Spec => NoEntryPastLossCap
<1>1. Init => BelowCap
  BY DEF Init, BelowCap, Idle, OnIntent
<1>2. IInv /\ BelowCap /\ [Next]_vars => BelowCap'
  BY StaysBelowCap
<1>3. IInv /\ BelowCap /\ [Next]_vars => [EntrySent => ~(ClosedLoss >= LossCap)]_vars
  <2> SUFFICES ASSUME IInv, BelowCap, [Next]_vars, EntrySent
               PROVE  ~(ClosedLoss >= LossCap)
    OBVIOUS
  <2>1. PICK i \in Ids' \ Ids : orders'[i].kind = "entry"
    BY DEF EntrySent, Ids
  <2>2. PICK o \in Order : NewOrder(o) /\ AddsOrder(o)
    BY <2>1, BrokerAssumption, BookStep DEF AddsNone
  <2>3. o.kind = "entry"
    BY <2>1, <2>2 DEF AddsOrder
  <2>4. job.at \in OnIntent
    BY <2>2, <2>3 DEF NewOrder, SendEntry, At, OnIntent
  <2> QED
    BY <2>4 DEF BelowCap
<1> QED
  BY <1>1, <1>2, <1>3, Inductive, PTL DEF Spec, NoEntryPastLossCap

-----------------------------------------------------------------------------
(* A refused trade holds nothing. *)

\* Where a row can go: the steps that refuse a trade, or take its entry in
\* hand, are told apart; any other leaves its state and entry as they are or
\* leads it into a position and out of it.
LEMMA RowMoves ==
  ASSUME IInv, [Next]_vars, NEW t \in Trades
  PROVE  \/ row'[t].state = row[t].state /\ row'[t].entry = row[t].entry
         \/ row'[t].state \in Holding \cup {"CLOSED"}
         \/ ReconcileEntryDead(t)
         \/ SquareoffRow(t) /\ row[t].state = "PENDING_ENTRY"
         \/ Skip(t) \/ Intend(t)
         \/ job.t = t /\ (SaveCancel \/ RejectEntry \/ SaveEntry)
<1> DEFINE Goal == \/ row'[t].state = row[t].state /\ row'[t].entry = row[t].entry
                   \/ row'[t].state \in Holding \cup {"CLOSED"}
<1>0. row \in [Trades -> Row] /\ row[t] \in Row
  BY DEF IInv, TypeOK
<1>1. CASE row' = row
  BY <1>1
<1>2. ASSUME NEW u \in Trades, NEW r, row' = [row EXCEPT ![u] = r],
             u # t \/ r.state \in Holding \cup {"CLOSED"}
                   \/ (r.state = row[t].state /\ r.entry = row[t].entry)
      PROVE  Goal
  BY <1>0, <1>2
<1>3. ASSUME NEW u \in Trades, ReconcileEntryFill(u)
      PROVE  Goal
  <2> DEFINE r == FillApplied(row[u], truth.book[row[u].entry])
  <2>1. row' = [row EXCEPT ![u] = r]
    BY <1>3 DEF ReconcileEntryFill
  <2>2. r.state = "ENTERED"
    BY <1>0 DEF FillApplied, Row
  <2> HIDE DEF r
  <2> QED
    BY <1>2, <2>1, <2>2 DEF Holding
<1>4. ASSUME NEW u \in Trades, ReconcileHeld(u)
      PROVE  Goal
  <2>1. row' = [row EXCEPT ![u] = Adopted(row[u], u)] /\ row[u] \in Row
    BY <1>0, <1>4 DEF ReconcileHeld
  <2>2. Adopted(row[u], u).state \in Holding
    BY <1>4, <2>1 DEF Adopted, Row, ReconcileHeld, Holding
  <2> QED
    BY <1>2, <2>1, <2>2
<1>5. ASSUME NEW u \in Trades, ReconcileFlat(u)
      PROVE  Goal
  <2>1. row' = [row EXCEPT ![u] = Finalized(row[u], u)] /\ row[u] \in Row
    BY <1>0, <1>5 DEF ReconcileFlat
  <2>2. Finalized(row[u], u).state = "CLOSED"
    BY <2>1 DEF Finalized, Row
  <2> QED
    BY <1>2, <2>1, <2>2
<1>6. ASSUME NEW u \in Trades \ {t}, ReconcileEntryDead(u) \/ SquareoffRow(u) \/ Skip(u) \/ Intend(u)
      PROVE  Goal
  BY <1>0, <1>6 DEF ReconcileEntryDead, SquareoffRow, Skip, Intend
<1>7. CASE SquareoffRow(t) /\ row[t].state # "PENDING_ENTRY"
  BY <1>1, <1>7 DEF SquareoffRow
<1>8. CASE SaveStop
  <2>1. job.t \in Trades /\ row[job.t] \in Row /\ row[job.t].state = "ENTERED"
    BY <1>0, <1>8, TradeInHand DEF SaveStop, At, OnRow, IInv, JobInv, RowInHand
  <2>2. row'[job.t].state \in {"ENTERED", "PROTECTED"} /\ \A u \in Trades \ {job.t} : row'[u] = row[u]
    BY <1>0, <1>8, <2>1 DEF SaveStop, Row
  <2> QED
    BY <2>2 DEF Holding
<1>9. CASE SaveExit
  <2>1. job.t \in Trades /\ row[job.t] \in Row
    BY <1>0, <1>9, TradeInHand DEF SaveExit, At, OnRow, OnFlatten
  <2>2. row'[job.t].state = "EXIT_SUBMITTED" /\ \A u \in Trades \ {job.t} : row'[u] = row[u]
    BY <1>0, <1>9, <2>1 DEF SaveExit, Row
  <2> QED
    BY <2>2 DEF Holding
<1>10. CASE SaveFill
  <2> DEFINE r == FillApplied(row[job.t], orders[job.id])
  <2>1. job.t \in Trades
    BY <1>10, TradeInHand DEF SaveFill, At, OnRow
  <2>2. row' = [row EXCEPT ![job.t] = r]
    BY <1>10 DEF SaveFill
  <2>3. r.state = "ENTERED"
    BY <1>0, <2>1 DEF FillApplied, Row
  <2> HIDE DEF r
  <2> QED
    BY <1>2, <2>1, <2>2, <2>3 DEF Holding
<1>11. CASE job.t # t /\ (SaveCancel \/ RejectEntry \/ SaveEntry)
  BY <1>0, <1>11 DEF SaveCancel, RejectEntry, SaveEntry
<1>12. CASE Reconcile
  BY <1>1, <1>3, <1>4, <1>5, <1>6, <1>12 DEF Reconcile, ReconcileWaits, EndReconcile
<1>13. CASE Protect \/ FlattenSteps
  BY <1>1, <1>8, <1>9, <1>13 DEF Protect, PlaceStop, EndProtect, FlattenSteps, CancelStop,
     SendExit, SaveExitIllegal, engineVarsButJob
<1>14. CASE Squareoff
  BY <1>1, <1>6, <1>7, <1>11, <1>14 DEF Squareoff, CancelEntry, EndSquareoff, engineVarsButJob
<1>15. CASE Ingest
  <2>1. CASE SendEntry \/ ResolveEntry \/ EndIngest
    BY <1>1, <2>1 DEF SendEntry, ResolveEntry, EndIngest, engineVarsButJob
  <2>2. ASSUME NEW u \in Trades, Skip(u) \/ Intend(u)
        PROVE  Goal \/ Skip(t) \/ Intend(t)
    BY <1>6, <2>2
  <2>3. CASE \E u \in Trades : Skip(u) \/ Intend(u)
    BY <2>2, <2>3
  <2>4. CASE RejectEntry \/ SaveEntry
    BY <1>11, <2>4
  <2> QED
    BY <1>10, <1>15, <2>1, <2>3, <2>4 DEF Ingest
<1>16. CASE TickStart \/ FetchBrokerTruth \/ Commands
  BY <1>1, <1>16 DEF TickStart, FetchBrokerTruth, Commands, ApplySwitch, ApplyClose, MarkClose,
     EndCommands
<1>17. CASE Crash \/ Start \/ SubmitCommand \/ Clock \/ Environment \/ UNCHANGED vars
  BY <1>1, <1>17 DEF Crash, Start, SubmitCommand, Clock, Environment, vars, engineVars
<1> QED
  BY <1>12, <1>13, <1>14, <1>15, <1>16, <1>17 DEF Next, Tick

\* Between a call for an entry and the commit that records it, only the
\* account can move, unless the process dies.
LEMMA AwaitingCommit ==
  ASSUME IInv, [Next]_vars, job.at \in {"resolve_entry", "save_entry", "save_cancel"}
  PROVE  \/ ResolveEntry \/ SaveEntry \/ SaveCancel \/ Crash
         \/ job' = job /\ row' = row /\ (orders' = orders \/ Environment)
<1>1. ~TickStart /\ ~FetchBrokerTruth
  BY DEF TickStart, FetchBrokerTruth, At
<1>2. ~Reconcile
  BY DEF Reconcile, ReconcileWaits, ReconcileEntryFill, ReconcileEntryDead, ReconcileFlat,
     ReconcileHeld, EndReconcile, Reconciling, At
<1>3. ~Protect /\ ~FlattenSteps
  BY DEF Protect, PlaceStop, SaveStop, EndProtect, FlattenSteps, CancelStop, SendExit, SaveExit,
     SaveExitIllegal, At
<1>4. ~Commands
  BY DEF Commands, ApplySwitch, ApplyClose, MarkClose, EndCommands, Applying, At
<1>5. CASE Squareoff
  BY <1>5 DEF Squareoff, SquareoffRow, CancelEntry, EndSquareoff, At
<1>6. CASE Ingest
  BY <1>6 DEF Ingest, Skip, Intend, SendEntry, RejectEntry, SaveFill, EndIngest, At
<1>7. CASE Start \/ SubmitCommand \/ Clock \/ UNCHANGED vars
  BY <1>7 DEF Start, SubmitCommand, Clock, brokerVars, engineVars, vars, At
<1>8. CASE Environment
  BY <1>8 DEF Environment, engineVars
<1> QED
  BY <1>1, <1>2, <1>3, <1>4, <1>5, <1>6, <1>7, <1>8 DEF Next, Tick

\* Entries are answered for: an entry accepted with its reply lost is in sight
\* of the lookup and the lookup readable, it is not cancelled after a partial
\* fill while that lookup is due, and the process does not die between the
\* call and the commit.
EntriesAnswered ==
  {<<"lost_unseen", "entry">>, <<"unreadable", "tag">>, <<"cancelled", "entry">>,
   <<"crash", "mid_entry">>} \cap Events = {}

\* An order that bought nothing and never will.
Void(i) == orders[i].filled = 0 /\ ~Working(i)

NothingBought(t) == \A i \in OrdersOf("entry", t) : Void(i)

\* While the trade is an intent only, nothing was bought for it, but by the
\* call in progress.
IntentBoughtNothing ==
  \A t \in Trades :
    row[t].state = "PENDING_ENTRY" /\ ~(job.at \in {"resolve_entry", "save_entry"} /\ job.t = t)
      => NothingBought(t)

\* The entry a row is bound to, or is about to be, is the trade's own.
EntryBound ==
  /\ job.at = "save_entry" => job.id \in OrdersOf("entry", job.t)
  /\ \A t \in Trades :
       row[t].state = "ENTRY_SUBMITTED" => row[t].entry \in OrdersOf("entry", t)

\* The entry about to be recorded as cancelled is.
CancelHolds == job.at = "save_cancel" => Void(row[job.t].entry)

\* The lookup after a lost reply sees the entry, and if it finds it dead it
\* bought nothing.
LookupTells ==
  job.at = "resolve_entry" =>
    \A i \in OrdersOf("entry", job.t) :
      orders[i].shown /\ (orders[i].status \in Dead => orders[i].filled = 0)

RefusedInv ==
  /\ BookPast /\ RefusedTradesHoldNothing /\ IntentBoughtNothing
  /\ EntryBound /\ CancelHolds /\ LookupTells

\* Entries appear by the call of submit_entry only.
LEMMA EntriesAppear ==
  ASSUME BrokerAssumption, IInv, [Next]_vars, NEW t \in Trades, ~(SendEntry /\ t = job.t)
  PROVE  OrdersOf("entry", t)' = OrdersOf("entry", t)
<1>1. Progress /\ (AddsNone \/ \E o \in Order : NewOrder(o) /\ AddsOrder(o))
  BY BookStep
<1>2. CASE AddsNone
  BY <1>1, <1>2 DEF AddsNone, Progress, OrdersOf
<1>3. ASSUME NEW o \in Order, NewOrder(o), AddsOrder(o)
      PROVE  OrdersOf("entry", t)' = OrdersOf("entry", t)
  <2>1. ~(o.kind = "entry" /\ o.trade = t)
    BY <1>3 DEF NewOrder
  <2>2. ~(orders'[Len(orders) + 1].kind = "entry" /\ orders'[Len(orders) + 1].trade = t)
    BY <1>3, <2>1 DEF AddsOrder
  <2>3. /\ Ids' = Ids \cup {Len(orders) + 1}
        /\ \A i \in Ids : orders'[i] = orders[i]
    BY <1>3 DEF AddsOrder
  <2> QED
    BY <2>2, <2>3 DEF OrdersOf
<1> QED
  BY <1>1, <1>2, <1>3

\* Void once, void for good.
LEMMA StaysVoid ==
  ASSUME BrokerAssumption, IInv, [Next]_vars
  PROVE  /\ \A i \in Ids : Void(i) => Void(i)'
         /\ \A t \in Trades : NothingBought(t) /\ ~(SendEntry /\ t = job.t) => NothingBought(t)'
<1>1. \A i \in Ids : Void(i) => Void(i)'
  BY BookStep DEF Progress, Void, Working
<1>2. ASSUME NEW t \in Trades, NothingBought(t), ~(SendEntry /\ t = job.t)
      PROVE  NothingBought(t)'
  <2>1. OrdersOf("entry", t)' = OrdersOf("entry", t) /\ OrdersOf("entry", t) \subseteq Ids
    BY <1>2, EntriesAppear DEF OrdersOf
  <2> QED
    BY <1>1, <1>2, <2>1 DEF NothingBought
<1> QED
  BY <1>1, <1>2

\* A trade without a row has no entry.
LEMMA NoRowNoEntry ==
  ASSUME IInv, NEW t \in Trades, row[t].state = "NONE"
  PROVE  NothingBought(t)
BY DEF NothingBought, OrdersOf, IInv, BookInv, IntentFirst

\* There is one entry, so what is said of one is said of all.
LEMMA OneEntry ==
  ASSUME IInv, NEW t \in Trades, NEW i \in OrdersOf("entry", t), Void(i)
  PROVE  NothingBought(t)
BY DEF NothingBought, OrdersOf, IInv, BookInv, AtMostOneEntry

\* What the reply to place_entry leaves.
LEMMA SendEntryLeaves ==
  ASSUME BrokerAssumption, EntriesAnswered, IInv, SendEntry
  PROVE  /\ job.t \in Trades /\ row' = row /\ job'.t = job.t
         /\ row[job.t].state = "PENDING_ENTRY"
         /\ \/ job'.at = "resolve_entry" /\ LookupTells'
            \/ job'.at = "reject_entry" /\ NothingBought(job.t)'
            \/ job'.at = "save_entry" /\ job'.id \in OrdersOf("entry", job.t)'
<1>1. job.at = "send_entry" /\ job.at \in OnRow /\ job.at \in OnIntent
  BY DEF SendEntry, At, OnRow, OnIntent
<1>2. job \in Job /\ job.t \in Trades
  BY <1>1, TradeInHand
<1>3. row[job.t].state = "PENDING_ENTRY" /\ OrdersOf("entry", job.t) = {}
  BY <1>1 DEF IInv, JobInv, RowInHand, NothingSent
<1>4. PICK reply \in {"order", "raised", "refused"}, id \in 0 .. Len(orders) + 1 :
        /\ Send("entry", job.t, row[job.t].qty, 0, reply, id)
        /\ job' = CASE reply = "raised"  -> [job EXCEPT !.at = "resolve_entry"]
                    [] reply = "refused" -> [job EXCEPT !.at = "reject_entry"]
                    [] reply = "order"   ->
                         IF orders'[id].status = "REJECTED"
                           THEN [job EXCEPT !.at = "reject_entry"]
                           ELSE [job EXCEPT !.at = "save_entry", !.id = id,
                                   !.got = IF FillFinal(orders'[id]) THEN "filled" ELSE "working"]
  BY DEF SendEntry
<1>5. row' = row
  BY DEF SendEntry, engineVarsButJob
<1>6. BrokerTypeOK
  BY DEF IInv, TypeOK
<1>7. \/ orders' = orders
      \/ /\ id = Len(orders) + 1 /\ reply # "refused"
         /\ \E o \in Order : Placed(o, "entry", job.t, reply) /\ AddsOrder(o)
  BY <1>2, <1>4, <1>6, RowOf, SendBook DEF OwnKinds
<1>8. reply = "order" => id \in Ids'
  BY <1>2, <1>4, <1>6, RowOf, SendTyped DEF OwnKinds
<1>9. CASE orders' = orders
  <2>1. \A i \in Ids' : ~(orders'[i].kind = "entry" /\ orders'[i].trade = job.t)
    BY <1>3, <1>9 DEF OrdersOf, Ids
  <2>2. reply # "order"
    <3>1. ASSUME reply = "order"
          PROVE  FALSE
      <4>1. Existing("entry", job.t) = {}
        BY <1>3 DEF Existing
      <4>2. id = Len(orders) + 1
        BY <1>4, <3>1, <4>1 DEF Send
      <4>3. id \in Ids /\ Ids = 1 .. Len(orders) /\ Len(orders) \in Nat
        BY <1>6, <1>8, <1>9, <3>1 DEF Ids, BrokerTypeOK
      <4> QED
        BY <4>2, <4>3
    <3> QED
      BY <3>1
  <2>3. CASE reply = "raised"
    <3>1. job' = [job EXCEPT !.at = "resolve_entry"]
      BY <1>4, <2>3
    <3>2. job'.at = "resolve_entry" /\ job'.t = job.t
      BY <1>2, <3>1 DEF Job
    <3> QED
      BY <1>2, <1>3, <1>5, <2>1, <3>2 DEF LookupTells, OrdersOf
  <2>4. CASE reply = "refused"
    <3>1. job' = [job EXCEPT !.at = "reject_entry"]
      BY <1>4, <2>4
    <3>2. job'.at = "reject_entry" /\ job'.t = job.t
      BY <1>2, <3>1 DEF Job
    <3>3. NothingBought(job.t)'
      BY <2>1, <3>2 DEF NothingBought, OrdersOf
    <3> QED
      BY <1>2, <1>3, <1>5, <3>2, <3>3
  <2> QED
    BY <2>2, <2>3, <2>4
<1>10. ASSUME NEW o \in Order, id = Len(orders) + 1, reply # "refused",
              Placed(o, "entry", job.t, reply), AddsOrder(o)
       PROVE  /\ job'.t = job.t
              /\ \/ job'.at = "resolve_entry" /\ LookupTells'
                 \/ job'.at = "reject_entry" /\ NothingBought(job.t)'
                 \/ job'.at = "save_entry" /\ job'.id \in OrdersOf("entry", job.t)'
  <2>1. /\ o.kind = "entry" /\ o.trade = job.t
        /\ o.status \in Dead => o.filled = 0
        /\ reply = "raised" => o.shown
    BY <1>10 DEF Placed, MayHide, EntriesAnswered
  <2>2. orders'[id] = o /\ Ids' = Ids \cup {id} /\ \A i \in Ids : orders'[i] = orders[i]
    BY <1>10 DEF AddsOrder
  <2>3. \A i \in Ids' : orders'[i].kind = "entry" /\ orders'[i].trade = job.t => i = id
    BY <1>3, <2>2 DEF OrdersOf
  <2>4. CASE reply = "raised"
    <3>1. job' = [job EXCEPT !.at = "resolve_entry"]
      BY <1>4, <2>4
    <3>2. job'.at = "resolve_entry" /\ job'.t = job.t
      BY <1>2, <3>1 DEF Job
    <3>3. LookupTells'
      BY <2>1, <2>2, <2>3, <2>4, <3>2 DEF LookupTells, OrdersOf
    <3> QED
      BY <3>2, <3>3
  <2>5. CASE reply = "order" /\ o.status = "REJECTED"
    <3>1. job' = [job EXCEPT !.at = "reject_entry"]
      BY <1>4, <2>2, <2>5
    <3>2. job'.at = "reject_entry" /\ job'.t = job.t
      BY <1>2, <3>1 DEF Job
    <3>3. Void(id)'
      BY <2>1, <2>2, <2>5 DEF Void, Working, Dead
    <3>4. OrdersOf("entry", job.t)' \subseteq {id}
      BY <2>3, <3>2 DEF OrdersOf
    <3>5. NothingBought(job.t)'
      BY <3>3, <3>4, <3>2 DEF NothingBought
    <3> QED
      BY <3>2, <3>5
  <2>6. CASE reply = "order" /\ o.status # "REJECTED"
    <3>1. PICK got : job' = [job EXCEPT !.at = "save_entry", !.id = id, !.got = got]
      BY <1>4, <2>2, <2>6
    <3>2. job'.at = "save_entry" /\ job'.t = job.t /\ job'.id = id
      BY <1>2, <3>1 DEF Job
    <3>3. id \in OrdersOf("entry", job.t)'
      BY <2>1, <2>2, <3>2 DEF OrdersOf
    <3> QED
      BY <3>2, <3>3
  <2> QED
    BY <1>10, <2>4, <2>5, <2>6
<1> QED
  BY <1>2, <1>3, <1>5, <1>7, <1>9, <1>10

\* What the lookup after a lost reply leaves.
LEMMA ResolveLeaves ==
  ASSUME EntriesAnswered, IInv, LookupTells, ResolveEntry
  PROVE  /\ job.t \in Trades /\ job'.t = job.t /\ orders' = orders
         /\ \/ job'.at = "save_entry" /\ job'.id \in OrdersOf("entry", job.t)
            \/ job'.at = "reject_entry" /\ NothingBought(job.t)
<1>1. job.at = "resolve_entry" /\ job.at \in OnRow
  BY DEF ResolveEntry, At, OnRow, OnIntent
<1>2. job \in Job /\ job.t \in Trades
  BY <1>1, TradeInHand
<1>3. orders' = orders
  BY DEF ResolveEntry
<1>4. CASE LiveEntries(job.t) # {} /\
            \E got : job' = [job EXCEPT !.at = "save_entry", !.id = Min(LiveEntries(job.t)),
                                        !.got = got]
  <2>1. LiveEntries(job.t) \in SUBSET Nat /\ LiveEntries(job.t) \subseteq OrdersOf("entry", job.t)
    BY DEF LiveEntries, OrdersOf, Ids, IInv, TypeOK, BrokerTypeOK
  <2>2. Min(LiveEntries(job.t)) \in OrdersOf("entry", job.t)
    BY <1>4, <2>1, MinOfNats
  <2>3. job'.at = "save_entry" /\ job'.t = job.t /\ job'.id = Min(LiveEntries(job.t))
    BY <1>2, <1>4 DEF Job
  <2> QED
    BY <1>2, <1>3, <2>2, <2>3
<1>5. CASE LiveEntries(job.t) = {} /\ job' = [job EXCEPT !.at = "reject_entry"]
  <2>1. NothingBought(job.t)
    BY <1>1, <1>5 DEF LiveEntries, LookupTells, NothingBought, Void, Working, Dead
  <2>2. job'.at = "reject_entry" /\ job'.t = job.t
    BY <1>2, <1>5 DEF Job
  <2> QED
    BY <1>2, <1>3, <2>1, <2>2
<1>6. ~Cost({<<"unreadable", "tag">>})
  BY DEF Cost, EntriesAnswered
<1> QED
  BY <1>4, <1>5, <1>6 DEF ResolveEntry

\* Whoever is refused, by whatever path, has bought nothing,
LEMMA StaysRefused ==
  ASSUME BrokerAssumption, EntriesAnswered, IInv, RefusedInv, [Next]_vars
  PROVE  RefusedTradesHoldNothing'
<1> SUFFICES ASSUME NEW t \in Trades, row'[t].state \in {"REJECTED", "CANCELLED"}
             PROVE  NothingBought(t)'
  BY DEF RefusedTradesHoldNothing, NothingBought, Void
<1>1. row \in [Trades -> Row] /\ row[t] \in Row
  BY DEF IInv, TypeOK
<1>2. CASE row'[t].state = row[t].state
  <2>1. NothingBought(t)
    BY <1>2 DEF RefusedInv, RefusedTradesHoldNothing, NothingBought, Void
  <2>2. ~(SendEntry /\ t = job.t)
    BY <1>2, SendEntryLeaves
  <2> QED
    BY <2>1, <2>2, StaysVoid
<1>3. CASE ReconcileEntryDead(t)
  <2>1. /\ row[t].state = "ENTRY_SUBMITTED" /\ row[t].entry \in DOMAIN truth.book
        /\ truth.book[row[t].entry].status \in Dead /\ truth.book[row[t].entry].filled = 0
        /\ job.at = "reconcile"
    BY <1>3 DEF ReconcileEntryDead, Reconciling, At, EntrySeen, Seen
  <2>2. Void(row[t].entry)
    BY <2>1 DEF Void, Working, Dead, RefusedInv, BookPast
  <2>3. row[t].entry \in OrdersOf("entry", t)
    BY <2>1 DEF RefusedInv, EntryBound
  <2>4. NothingBought(t) /\ ~SendEntry
    BY <2>1, <2>2, <2>3, OneEntry DEF SendEntry, At
  <2> QED
    BY <2>4, StaysVoid
<1>4. CASE SquareoffRow(t) /\ row[t].state = "PENDING_ENTRY"
  <2>1. job.at = "squareoff"
    BY <1>4 DEF SquareoffRow, At
  <2>2. NothingBought(t) /\ ~SendEntry
    BY <1>4, <2>1 DEF RefusedInv, IntentBoughtNothing, SendEntry, At
  <2> QED
    BY <2>2, StaysVoid
<1>5. CASE Skip(t)
  <2>1. job.at = "ingest" /\ t \in job.todo
    BY <1>5 DEF Skip, At
  <2>2. row[t].state = "NONE"
    BY <2>1 DEF IInv, JobInv, JobCoherent, RowsAhead, LoopSteps
  <2>3. NothingBought(t) /\ ~SendEntry
    BY <2>1, <2>2, NoRowNoEntry DEF SendEntry, At
  <2> QED
    BY <2>3, StaysVoid
<1>6. ~Intend(t) /\ ~(job.t = t /\ SaveEntry)
  BY <1>1 DEF Intend, SaveEntry, Row
<1>7. CASE job.t = t /\ SaveCancel
  <2>1. job.at = "save_cancel"
    BY <1>7 DEF SaveCancel, At
  <2>2. row[t].state = "ENTRY_SUBMITTED" /\ Void(row[t].entry)
    BY <1>7, <2>1 DEF IInv, JobInv, RowInHand, RefusedInv, CancelHolds
  <2>3. row[t].entry \in OrdersOf("entry", t)
    BY <2>2 DEF RefusedInv, EntryBound
  <2>4. NothingBought(t) /\ ~SendEntry
    BY <2>1, <2>2, <2>3, OneEntry DEF SendEntry, At
  <2> QED
    BY <2>4, StaysVoid
<1>8. CASE job.t = t /\ RejectEntry
  <2>1. job.at = "reject_entry"
    BY <1>8 DEF RejectEntry, At
  <2>2. row[t].state = "PENDING_ENTRY"
    BY <1>8, <2>1 DEF IInv, JobInv, RowInHand, OnIntent
  <2>3. NothingBought(t) /\ ~SendEntry
    BY <2>1, <2>2 DEF RefusedInv, IntentBoughtNothing, SendEntry, At
  <2> QED
    BY <2>3, StaysVoid
<1>9. ~(row'[t].state \in Holding \cup {"CLOSED"})
  BY DEF Holding
<1> QED
  BY <1>2, <1>3, <1>4, <1>5, <1>6, <1>7, <1>8, <1>9, RowMoves

\* an intent stands for an order not sent or already answered for,
LEMMA IntentStaysEmpty ==
  ASSUME BrokerAssumption, EntriesAnswered, IInv, RefusedInv, [Next]_vars
  PROVE  IntentBoughtNothing'
<1> SUFFICES ASSUME NEW t \in Trades, row'[t].state = "PENDING_ENTRY",
                    ~(job'.at \in {"resolve_entry", "save_entry"} /\ job'.t = t)
             PROVE  NothingBought(t)'
  BY DEF IntentBoughtNothing
<1>1. row \in [Trades -> Row] /\ row[t] \in Row
  BY DEF IInv, TypeOK
<1>2. CASE SendEntry /\ t = job.t
  <2>1. NothingBought(job.t)' /\ job'.t = t
    BY <1>2, SendEntryLeaves
  <2> QED
    BY <2>1
<1>3. CASE row[t].state = "PENDING_ENTRY" /\ ~(SendEntry /\ t = job.t)
  <2>1. CASE ~(job.at \in {"resolve_entry", "save_entry"} /\ job.t = t)
    BY <1>3, <2>1, StaysVoid DEF RefusedInv, IntentBoughtNothing
  <2>2. CASE job.at \in {"resolve_entry", "save_entry"} /\ job.t = t
    <3>1. job' # job
      BY <2>2
    <3>2. CASE ResolveEntry
      <4>1. NothingBought(t)
        BY <2>2, <3>2, ResolveLeaves DEF RefusedInv
      <4> QED
        BY <1>3, <4>1, StaysVoid
    <3>3. ~SaveEntry /\ ~SaveCancel
      BY <1>1, <2>2 DEF SaveEntry, SaveCancel, Row, At
    <3>4. ~Crash
      BY <2>2 DEF Crash, CrashCost, Cost, EntriesAnswered
    <3> QED
      BY <2>2, <3>1, <3>2, <3>3, <3>4, AwaitingCommit
  <2> QED
    BY <2>1, <2>2
<1>4. CASE Intend(t)
  <2>1. job.at = "ingest" /\ t \in job.todo
    BY <1>4 DEF Intend, At
  <2>2. row[t].state = "NONE"
    BY <2>1 DEF IInv, JobInv, JobCoherent, RowsAhead, LoopSteps
  <2>3. NothingBought(t) /\ ~SendEntry
    BY <2>1, <2>2, NoRowNoEntry DEF SendEntry, At
  <2> QED
    BY <2>3, StaysVoid
<1>5. ~ReconcileEntryDead(t) /\ ~Skip(t)
  BY <1>1 DEF ReconcileEntryDead, Skip, Row, Dead
<1>6. ~(SquareoffRow(t) /\ row[t].state = "PENDING_ENTRY")
  BY <1>1 DEF SquareoffRow, Row, Holding
<1>7. ~(job.t = t /\ (SaveCancel \/ RejectEntry \/ SaveEntry))
  BY <1>1 DEF SaveCancel, RejectEntry, SaveEntry, Row
<1>8. ~(row'[t].state \in Holding \cup {"CLOSED"})
  BY DEF Holding
<1> QED
  BY <1>2, <1>3, <1>4, <1>5, <1>6, <1>7, <1>8, RowMoves

\* a row is bound to the entry of its own trade,
LEMMA StaysBound ==
  ASSUME BrokerAssumption, EntriesAnswered, IInv, RefusedInv, [Next]_vars
  PROVE  EntryBound'
<1>1. \A t : OrdersOf("entry", t) \subseteq {i \in Ids' : orders'[i].kind = "entry" /\ orders'[i].trade = t}
  BY BookStep DEF Progress, OrdersOf
<1>2. ASSUME job'.at = "save_entry"
      PROVE  job'.id \in OrdersOf("entry", job.t)'
  <2>1. ~Elsewhere
    BY <1>2 DEF Elsewhere, OnIntent
  <2>2. CASE job' = job
    BY <1>1, <1>2, <2>2 DEF RefusedInv, EntryBound, OrdersOf
  <2>3. job \in Job
    BY DEF IInv, TypeOK
  <2>4. ASSUME NEW t \in Trades, Intend(t) \/ CancelEntry(t)
        PROVE  FALSE
    <3>1. PICK p \in {"send_entry", "save_cancel"} :
            job' = Call(p, t, "NONE") \/ (job.at = "squareoff" /\ job' = [job EXCEPT !.todo = @ \ {t}])
      BY <2>4 DEF Intend, CancelEntry, At
    <3> QED
      BY <1>2, <2>3, <3>1 DEF Call, Job
  <2>5. CASE SendEntry
    BY <1>2, <2>5, SendEntryLeaves
  <2>6. CASE ResolveEntry
    <3>1. job'.t = job.t /\ orders' = orders /\ job'.id \in OrdersOf("entry", job.t)
      BY <1>2, <2>6, ResolveLeaves DEF RefusedInv
    <3> QED
      BY <3>1 DEF OrdersOf, Ids
  <2>7. ~EndCommands
    BY <1>2 DEF EndCommands, Begin, Idle
  <2> QED
    BY <2>1, <2>2, <2>4, <2>5, <2>6, <2>7, WhoLeads
<1>3. ASSUME NEW t \in Trades, row'[t].state = "ENTRY_SUBMITTED"
      PROVE  row'[t].entry \in OrdersOf("entry", t)'
  <2>1. row \in [Trades -> Row] /\ row[t] \in Row
    BY DEF IInv, TypeOK
  <2>2. CASE row'[t].state = row[t].state /\ row'[t].entry = row[t].entry
    BY <1>1, <1>3, <2>2 DEF RefusedInv, EntryBound, OrdersOf
  <2>3. CASE job.t = t /\ SaveEntry
    <3>1. job.at = "save_entry" /\ row'[t].entry = job.id /\ orders' = orders
      BY <2>1, <2>3 DEF SaveEntry, At, brokerVars, Row
    <3>2. job.id \in OrdersOf("entry", t)
      BY <2>3, <3>1 DEF RefusedInv, EntryBound
    <3> QED
      BY <3>1, <3>2 DEF OrdersOf, Ids
  <2>4. ~ReconcileEntryDead(t) /\ ~Skip(t) /\ ~Intend(t)
    BY <1>3, <2>1 DEF ReconcileEntryDead, Skip, Intend, Row, Dead
  <2>5. ~(SquareoffRow(t) /\ row[t].state = "PENDING_ENTRY")
    BY <1>3, <2>1 DEF SquareoffRow, Row, Holding
  <2>6. ~(job.t = t /\ (SaveCancel \/ RejectEntry))
    BY <1>3, <2>1 DEF SaveCancel, RejectEntry, Row
  <2>7. ~(row'[t].state \in Holding \cup {"CLOSED"})
    BY <1>3 DEF Holding
  <2> QED
    BY <2>2, <2>3, <2>4, <2>5, <2>6, <2>7, RowMoves
<1> QED
  BY <1>2, <1>3 DEF EntryBound

\* a cancel confirmed before the first fill holds until it is recorded,
LEMMA CancelStaysTrue ==
  ASSUME BrokerAssumption, EntriesAnswered, IInv, RefusedInv, [Next]_vars
  PROVE  CancelHolds'
<1> SUFFICES ASSUME job'.at = "save_cancel"
             PROVE  Void(row[job.t].entry)'
  BY DEF CancelHolds
<1>1. ~Elsewhere
  BY DEF Elsewhere
<1>2. job \in Job
  BY DEF IInv, TypeOK
<1>3. CASE job' = job
  <2>1. job.at = "save_cancel" /\ job.at \in OnRow /\ job.at \notin LoopSteps
    BY <1>3 DEF OnRow, LoopSteps
  <2>2. job.t \in Trades /\ row[job.t].state = "ENTRY_SUBMITTED"
    BY <2>1, TradeInHand DEF IInv, JobInv, RowInHand
  <2>3. row[job.t].entry \in Ids /\ Void(row[job.t].entry)
    BY <2>1, <2>2 DEF IInv, BookInv, RowIds, RefusedInv, CancelHolds
  <2>4. ~ResolveEntry /\ ~SaveEntry /\ ~Crash
    BY <2>1, <1>3 DEF ResolveEntry, SaveEntry, Crash, At, Idle
  <2>5. ~SaveCancel
    BY <1>2, <1>3, <2>1, ResumeJob DEF SaveCancel, Job
  <2>6. row' = row
    BY <2>1, <2>4, <2>5, AwaitingCommit
  <2>7. Void(row[job.t].entry) => /\ orders'[row[job.t].entry].filled = 0
                                  /\ orders'[row[job.t].entry].status # "OPEN"
    BY <2>3, StaysVoid DEF Void, Working
  <2> QED
    BY <1>3, <2>3, <2>6, <2>7 DEF Void, Working
<1>4. ASSUME NEW t \in Trades, CancelEntry(t)
      PROVE  Void(row[job.t].entry)'
  <2>1. PICK reply : /\ Cancel(row[t].entry, reply)
                     /\ job' = IF CancelledUnfilled(row[t].entry, reply)
                                 THEN Call("save_cancel", t, "NONE")
                                 ELSE [job EXCEPT !.todo = @ \ {t}]
    BY <1>4 DEF CancelEntry
  <2>2. row[t].entry \in Ids /\ job.at = "squareoff" /\ row' = row
    BY <1>4 DEF CancelEntry, At, IInv, BookInv, RowIds, engineVarsButJob
  <2>3. CancelledUnfilled(row[t].entry, reply) /\ job' = Call("save_cancel", t, "NONE")
    BY <1>2, <2>1, <2>2 DEF Job
  <2>4. job'.t = t
    BY <1>2, <2>3 DEF Call, Job
  <2>5. orders'[row[t].entry].status \in Dead /\ orders'[row[t].entry].filled = 0
    BY <2>1, <2>2, <2>3, CancelBook DEF CancelledUnfilled, IInv, TypeOK
  <2> QED
    BY <2>2, <2>4, <2>5 DEF Void, Working, Dead
<1>5. ASSUME NEW t \in Trades
      PROVE  ~Intend(t)
  <2>1. Call("send_entry", t, "NONE").at = "send_entry"
    BY <1>2 DEF Call, Job
  <2> QED
    BY <2>1 DEF Intend
<1>6. ~SendEntry
  BY SendEntryLeaves
<1>7. ~ResolveEntry
  BY ResolveLeaves DEF RefusedInv
<1>8. ~EndCommands
  BY DEF EndCommands, Begin, Idle
<1> QED
  BY <1>1, <1>3, <1>4, <1>5, <1>6, <1>7, <1>8, WhoLeads

\* and a lookup that is due sees what there is to see.
LEMMA LookupStaysTrue ==
  ASSUME BrokerAssumption, EntriesAnswered, IInv, RefusedInv, [Next]_vars
  PROVE  LookupTells'
<1> SUFFICES ASSUME job'.at = "resolve_entry"
             PROVE  LookupTells'
  BY DEF LookupTells
<1>1. ~Elsewhere
  BY DEF Elsewhere, OnIntent
<1>2. job \in Job
  BY DEF IInv, TypeOK
<1>3. CASE job' = job
  <2>1. job.at = "resolve_entry" /\ job.at \in OnRow
    BY <1>3 DEF OnRow, OnIntent
  <2>2. job.t \in Trades /\ ~SendEntry
    BY <2>1, TradeInHand DEF SendEntry, At
  <2>3. ~SaveCancel /\ ~SaveEntry /\ ~Crash
    BY <2>1, <1>3 DEF SaveCancel, SaveEntry, Crash, At, Idle
  <2>4. ~ResolveEntry
    BY <2>1, <1>3, ResolveLeaves DEF RefusedInv
  <2>5. orders' = orders \/ Environment
    BY <2>1, <2>3, <2>4, AwaitingCommit
  <2>6. OrdersOf("entry", job.t)' = OrdersOf("entry", job.t) /\ OrdersOf("entry", job.t) \subseteq Ids
    <3>1. \A t \in Trades : OrdersOf("entry", t)' = OrdersOf("entry", t)
      BY <2>2, EntriesAppear
    <3> QED
      BY <1>3, <2>2, <3>1 DEF OrdersOf
  <2>7. ASSUME NEW i \in OrdersOf("entry", job.t)
        PROVE  orders'[i].shown /\ (orders'[i].status \in Dead => orders'[i].filled = 0)
    <3>1. orders[i].shown /\ (orders[i].status \in Dead => orders[i].filled = 0)
      BY <2>1, <2>7 DEF RefusedInv, LookupTells
    <3>2. i \in Ids /\ orders[i].kind = "entry"
      BY <2>7 DEF OrdersOf
    <3>3. CASE orders' = orders
      BY <3>1, <3>3
    <3>4. CASE Environment
      <4>1. Progress /\ (orders'[i].status \in Dead /\ Working(i) =>
                           orders'[i].filled = 0 \/ <<"cancelled", "entry">> \in Events)
        BY <3>2, <3>4, ExchangeBook DEF Environment, IInv, TypeOK
      <4> QED
        BY <3>1, <3>2, <4>1 DEF Progress, EntriesAnswered
    <3> QED
      BY <2>5, <3>3, <3>4
  <2> QED
    BY <2>6, <2>7 DEF LookupTells
<1>4. ASSUME NEW t \in Trades, Intend(t) \/ CancelEntry(t)
      PROVE  FALSE
  <2>1. PICK p \in {"send_entry", "save_cancel"} :
          job' = Call(p, t, "NONE") \/ (job.at = "squareoff" /\ job' = [job EXCEPT !.todo = @ \ {t}])
    BY <1>4 DEF Intend, CancelEntry, At
  <2> QED
    BY <1>2, <2>1 DEF Call, Job
<1>5. CASE SendEntry
  BY <1>5, SendEntryLeaves
<1>6. ~ResolveEntry
  BY ResolveLeaves DEF RefusedInv
<1>7. ~EndCommands
  BY DEF EndCommands, Begin, Idle
<1> QED
  BY <1>1, <1>3, <1>4, <1>5, <1>6, <1>7, WhoLeads

\* Under these conditions all of that stays so.
LEMMA RefusedHolds == EntriesAnswered => (Spec => []RefusedInv)
<1> SUFFICES ASSUME EntriesAnswered
             PROVE  Spec => []RefusedInv
  OBVIOUS
<1>1. Init => RefusedInv
  <2> SUFFICES ASSUME Init
               PROVE  RefusedInv
    OBVIOUS
  <2>1. Ids = {} /\ DOMAIN truth.book = {}
    BY DEF Init, BrokerInit, NoTruth, Ids
  <2>2. job.at = "asleep" /\ \A t \in Trades : row[t].state = "NONE"
    BY DEF Init, Idle, NoRow
  <2> QED
    BY <2>1, <2>2 DEF RefusedInv, BookPast, RefusedTradesHoldNothing, IntentBoughtNothing,
       EntryBound, CancelHolds, LookupTells
<1>2. IInv /\ RefusedInv /\ [Next]_vars => RefusedInv'
  <2> SUFFICES ASSUME IInv, RefusedInv, [Next]_vars
               PROVE  RefusedInv'
    OBVIOUS
  <2>1. BookPast'
    BY BrokerAssumption, BookStaysPast DEF RefusedInv
  <2>2. RefusedTradesHoldNothing' /\ IntentBoughtNothing'
    BY BrokerAssumption, StaysRefused, IntentStaysEmpty
  <2>3. EntryBound' /\ CancelHolds' /\ LookupTells'
    BY BrokerAssumption, StaysBound, CancelStaysTrue, LookupStaysTrue
  <2> QED
    BY <2>1, <2>2, <2>3 DEF RefusedInv
<1> QED
  BY <1>1, <1>2, Inductive, PTL DEF Spec

\* A trade recorded as rejected or cancelled bought nothing and has no entry
\* that still could, as long as its entry is answered for: the lookup by tag,
\* the confirmed cancel and the order of intent, call and commit leave no other
\* way to either status, over any number of ticks, crashes and restarts.
THEOREM RefusedHoldNothing == EntriesAnswered => (Spec => []RefusedTradesHoldNothing)
<1>1. RefusedInv => RefusedTradesHoldNothing
  BY DEF RefusedInv
<1> QED
  BY <1>1, RefusedHolds, PTL

-----------------------------------------------------------------------------
(* The account: what it holds is what the engine knows of. *)

\* A stop or an exit the engine sends is in sight when its reply comes, which
\* is not lost, and the process does not die before the commit that follows.
ExitsAnswered ==
  {<<"unseen", "stop">>, <<"lost", "stop">>, <<"lost_unseen", "stop">>, <<"crash", "mid_stop">>,
   <<"unseen", "exit">>, <<"lost", "exit">>, <<"lost_unseen", "exit">>,
   <<"crash", "mid_flatten">>} \cap Events = {}

\* A stop fills as a whole, and not while it is being cancelled.
StopsFillWhole == {<<"partial", "stop">>, <<"raced", "stop">>} \cap Events = {}

\* Nobody trades by hand, or asks to close a position that is not yet one.
HandsOff ==
  {<<"closed", "human">>, <<"closed_over", "human">>, <<"early", "close">>} \cap Events = {}

\* The engine is told of everything that happens to what it holds.
AccountKnown == EntriesAnswered /\ ExitsAnswered /\ StopsFillWhole /\ HandsOff

Kept == {"ENTERED", "PROTECTED", "TRAILING"}

\* The orders that take the trade out of the market.
Outs(t) == OrdersOf("stop", t) \cup OrdersOf("exit", t)

StopsVoid(t) == \A i \in OrdersOf("stop", t) : Void(i)

\* An order the engine sent: its fill is within its size and complete when it
\* says so, a stop's all or nothing, and only an entry may be out of sight.
WellMade(o) ==
  /\ o.kind \in OwnKinds /\ o.trade \in Trades
  /\ o.sym = SymbolOf[o.trade] /\ o.side = Side(o.kind, o.trade)
  /\ o.filled <= o.qty
  /\ o.status = "OPEN" => o.filled < o.qty
  /\ o.status = "COMPLETE" => o.filled = o.qty
  /\ o.kind # "entry" => o.shown
  /\ o.kind = "stop" /\ o.status # "COMPLETE" => o.filled = 0

OrdersMade == \A i \in Ids : WellMade(orders[i])

\* What the tick has read was so, and can only have grown since.
BookBehind ==
  \A i \in DOMAIN truth.book :
    /\ i \in Ids /\ WellMade(truth.book[i])
    /\ truth.book[i].qty = orders[i].qty
    /\ truth.book[i].filled <= orders[i].filled
    /\ truth.book[i].shown => orders[i].shown

\* The reply to an order of trade t is in hand, the order not yet in the row.
Saving(p, t) == job.at = p /\ job.t = t

\* Nothing is sold before something was bought,
NotHeld(t) == row[t].state \notin Holding \cup {"CLOSED"} => Outs(t) = {}

\* what was bought is settled before the trade counts as a position,
EntryDone(t) ==
  row[t].state \in Holding \cup {"CLOSED"} =>
    /\ row[t].entry \in OrdersOf("entry", t)
    /\ ~Working(row[t].entry) /\ orders[row[t].entry].shown
    /\ orders[row[t].entry].filled > 0

\* at most one order sells it, and that one all of it,
OneSeller(t) ==
  \A i \in Outs(t) :
    ~Void(i) =>
      /\ orders[i].qty = orders[row[t].entry].filled
      /\ \A j \in Outs(t) : ~Void(j) => i = j

\* a position kept knows its size and its stop, and has no exit,
KeptIs(t) ==
  row[t].state \in Kept =>
    /\ row[t].qty = orders[row[t].entry].filled
    /\ OrdersOf("exit", t) # {} => Saving("save_exit", t)
    /\ \A i \in OrdersOf("stop", t) :
         ~Void(i) => \/ row[t].state # "ENTERED" /\ i = row[t].stop
                     \/ Saving("save_stop", t) /\ i = job.id

\* one being sold has its exit and no stop,
ExitIs(t) ==
  row[t].state = "EXIT_SUBMITTED" =>
    /\ row[t].stop = 0 /\ row[t].why \in ActiveReasons
    /\ row[t].exit \in OrdersOf("exit", t)
    /\ StopsVoid(t)

\* and one put away is booked with the order that sold it.
ClosedIs(t) ==
  row[t].state = "CLOSED" =>
    \E x \in Outs(t) :
      /\ row[t].exits = {x} /\ row[t].closing = x
      /\ orders[x].filled = orders[row[t].entry].filled
      /\ IF orders[x].kind = "stop" THEN row[t].reason = "STOP_HIT"
                                    ELSE row[t].reason \in ActiveReasons

BoundIds(t) ==
  /\ row[t].stop \in OrdersOf("stop", t) \cup {0}
  /\ row[t].exit \in OrdersOf("exit", t) \cup {0}

TradeTrue(t) ==
  /\ NotHeld(t) /\ EntryDone(t) /\ OneSeller(t) /\ KeptIs(t) /\ ExitIs(t) /\ ClosedIs(t)
  /\ BoundIds(t)

TradesTrue == \A t \in Trades : TradeTrue(t)

\* What the tick has in hand is so.
HandTrue ==
  /\ job.at = "send_entry" => row[job.t].qty > 0
  /\ (job.at = "save_entry" /\ job.got = "filled") \/ job.at = "save_fill" =>
       FillFinal(orders[job.id]) /\ orders[job.id].shown
  /\ job.at = "save_fill" => row[job.t].entry = job.id /\ job.id \in OrdersOf("entry", job.t)
  /\ job.at = "save_stop" =>
       /\ job.id \in OrdersOf("stop", job.t)
       /\ job.got # "confirmed" => Void(job.id)
  /\ job.at \in OnFlatten => job.why \in ActiveReasons /\ row[job.t].state \in Holding
  /\ job.at \in {"send_exit", "save_exit"} => StopsVoid(job.t)
  /\ job.at = "save_exit" => job.id \in OrdersOf("exit", job.t)

\* The account holds of the symbol of an open trade what that trade bought less
\* what it sold,
NetIs(t) ==
  LET n == net[SymbolOf[t]]
  IN /\ OrdersOf("entry", t) = {} => n = 0
     /\ \A e \in OrdersOf("entry", t) :
          /\ (\A x \in Outs(t) : orders[x].filled = 0) => n = DirOf[t] * orders[e].filled
          /\ \A x \in Outs(t) :
               orders[x].filled > 0 => n = DirOf[t] * (orders[e].filled - orders[x].filled)

\* and nothing of any other.
NetTrue ==
  /\ \A t \in OpenRows : NetIs(t)
  /\ \A s \in Symbols : (\A t \in OpenRows : SymbolOf[t] # s) => net[s] = 0

\* The positions tell which trades ahead are sold: the order that sold them is
\* in the book then, and their entry and stop in any case.
Reconciled(t) ==
  /\ NetFor(t) = 0 =>
       \E x \in Outs(t) :
         /\ orders[x].filled = orders[row[t].entry].filled
         /\ job.at # "read2" => /\ x \in DOMAIN truth.book
                                /\ truth.book[x].filled = orders[x].filled
  /\ row[t].state \in Kept /\ NetFor(t) # 0 => NetFor(t) = orders[row[t].entry].filled
  /\ job.at # "read2" =>
       /\ Seen(truth.book, row[t].entry) /\ truth.book[row[t].entry].filled > 0
       /\ row[t].stop # 0 => row[t].stop \in DOMAIN truth.book

TruthTells ==
  job.step = "reconcile" /\ job.at # "read1" =>
    \A t \in job.todo : row[t].state \in Holding => Reconciled(t)

\* The batch is of commands in the queue, and one to close is about a position,
\* or what was one.
CloseKnown ==
  /\ job.batch \subseteq DOMAIN cmds
  /\ \A c \in DOMAIN cmds :
       cmds[c].kind = "CLOSE_POSITION" =>
         cmds[c].trade \in Trades /\ row[cmds[c].trade].state \in Holding \cup Terminal

\* A square-off has its reason, and the process ends by it only with no row open;
\* no tick runs without it.
EndTrue ==
  /\ eng.proc # "up" => job = Idle
  /\ eng.shut \in ActiveReasons \cup {"NONE"}
  /\ job.step = "squareoff" => eng.shut # "NONE"
  /\ eng.proc = "up" => ~eng.done
  /\ eng.proc = "finished" => OpenRows = {}

AccountInv ==
  /\ OrdersMade /\ BookBehind /\ TradesTrue /\ HandTrue
  /\ NetTrue /\ TruthTells /\ CloseKnown /\ EndTrue

-----------------------------------------------------------------------------
(* One step of the account. *)

\* The orders there are grow: besides Progress, none changes its size or side
\* or loses shares.
Grows ==
  /\ Progress
  /\ \A i \in Ids :
       /\ orders'[i].side = orders[i].side /\ orders'[i].qty = orders[i].qty
       /\ orders[i].filled <= orders'[i].filled

\* The orders and the net quantity move together: nothing changes hands,
Idles ==
  /\ AddsNone /\ net' = net
  /\ \A i \in Ids : orders'[i].filled = orders[i].filled

\* shares of the working order i do,
Fills(i) ==
  /\ AddsNone /\ i \in Ids /\ Working(i)
  /\ \A j \in Ids \ {i} : orders'[j].filled = orders[j].filled
  /\ net' = [net EXCEPT ![orders[i].sym] =
                   @ + orders[i].side * (orders'[i].filled - orders[i].filled)]

\* or those of the order o the step brings.
Brings(o) ==
  /\ AddsOrder(o)
  /\ net' = [net EXCEPT ![o.sym] = @ + o.side * o.filled]

\* An order left as it is.
LEMMA AccountAlone ==
  ASSUME orders' = orders, net' = net, BrokerTypeOK
  PROVE  Grows /\ Idles
<1>1. Progress /\ AddsNone
  BY BookAlone
<1>2. \A i \in Ids : orders[i].filled <= orders[i].filled
  BY OrderFields
<1> QED
  BY <1>1, <1>2 DEF Grows, Idles

\* A well-made order changes into one that is.
LEMMA AccountChanged ==
  ASSUME BrokerTypeOK, OrdersMade, NEW i \in Ids, NEW o \in Order,
         orders' = [orders EXCEPT ![i] = o],
         o.kind = orders[i].kind, o.trade = orders[i].trade, o.sym = orders[i].sym,
         o.side = orders[i].side, o.qty = orders[i].qty,
         orders[i].shown => o.shown,
         orders[i].filled <= o.filled,
         ~Working(i) => o.status = orders[i].status /\ o.filled = orders[i].filled,
         WellMade(o),
         \/ net' = net /\ o.filled = orders[i].filled
         \/ Working(i) /\ net' = [net EXCEPT ![orders[i].sym] =
                                    @ + orders[i].side * (o.filled - orders[i].filled)]
  PROVE  Grows /\ OrdersMade' /\ (Idles \/ Fills(i))
<1>1. /\ Progress /\ AddsNone
      /\ orders'[i] = o
      /\ \A j \in Ids \ {i} : orders'[j] = orders[j]
  BY BookChanged
<1>2. \A j \in Ids : orders[j].filled <= orders[j].filled
  BY OrderFields
<1>3. Grows
  BY <1>1, <1>2 DEF Grows
<1>4. OrdersMade'
  BY <1>1 DEF OrdersMade, AddsNone
<1>5. Idles \/ Fills(i)
  BY <1>1 DEF Idles, Fills
<1> QED
  BY <1>3, <1>4, <1>5

\* A well-made order more.
LEMMA AccountAdded ==
  ASSUME BrokerTypeOK, OrdersMade, NEW o \in Order, orders' = Append(orders, o), WellMade(o),
         net' = [net EXCEPT ![o.sym] = @ + o.side * o.filled]
  PROVE  Grows /\ OrdersMade' /\ Brings(o)
<1>1. Progress /\ AddsOrder(o)
  BY BookAppended
<1>2. \A j \in Ids : orders[j].filled <= orders[j].filled
  BY OrderFields
<1>3. Grows
  BY <1>1, <1>2 DEF Grows, AddsOrder
<1>4. OrdersMade'
  BY <1>1 DEF OrdersMade, AddsOrder
<1> QED
  BY <1>1, <1>3, <1>4 DEF Brings

\* What a call of the engine asks for.
Asked(o, k, t, q) ==
  /\ o \in Order /\ WellMade(o)
  /\ o.kind = k /\ o.trade = t /\ o.qty = q
  /\ o.filled > 0 => o.shown

\* Kite takes an order of some size.
LEMMA AcceptAccount ==
  ASSUME BrokerAssumption, BrokerTypeOK, OrdersMade, NEW k \in OwnKinds, NEW t \in Trades,
         NEW q \in Nat, NEW n \in Nat, NEW status \in Status, NEW shown \in BOOLEAN,
         NEW bad \in BOOLEAN, NEW trig \in {0, 1},
         Accept(k, t, q, n, status, shown, bad, trig),
         n <= q, status = "OPEN" => n < q, status = "COMPLETE" => n = q,
         k # "entry" => shown, n > 0 => shown,
         k = "stop" /\ status # "COMPLETE" => n = 0
  PROVE  Grows /\ OrdersMade' /\ \E o : Asked(o, k, t, q) /\ o.status = status /\ Brings(o)
<1> DEFINE o == [kind |-> k, trade |-> t, sym |-> SymbolOf[t], side |-> Side(k, t),
                 qty |-> q, filled |-> n, status |-> status, shown |-> shown,
                 adverse |-> bad, trig |-> trig]
<1>1. Side(k, t) \in {-1, 1} /\ SymbolOf[t] \in Symbols
  BY DEF Side, BrokerAssumption
<1>2. o \in Order
  BY <1>1 DEF Order, Kinds, OwnKinds
<1>3. WellMade(o) /\ Asked(o, k, t, q)
  BY <1>2 DEF WellMade, Asked
<1>4. orders' = Append(orders, o) /\ net' = [net EXCEPT ![o.sym] = @ + o.side * o.filled]
  BY DEF Accept
<1>5. o.status = status
  OBVIOUS
<1> HIDE DEF o
<1> QED
  BY <1>2, <1>3, <1>4, <1>5, AccountAdded

\* Whatever Kite does with a new order of the engine's, the engine hears of
\* it; but the reply of an entry may be lost.
LEMMA PlaceAccount ==
  ASSUME BrokerAssumption, AccountKnown, BrokerTypeOK, OrdersMade,
         NEW k \in OwnKinds, NEW t \in Trades, NEW q \in Nat, q > 0, NEW trig \in {0, 1},
         NEW reply, Place(k, t, q, trig, reply)
  PROVE  /\ Grows /\ OrdersMade'
         /\ \/ reply = "refused" /\ k = "entry" /\ orders' = orders /\ net' = net
            \/ /\ reply = "order" \/ (reply = "raised" /\ k = "entry")
               /\ \E o : Asked(o, k, t, q) /\ Brings(o)
<1> USE BrokerAssumption, BrokerTypeOK
<1> DEFINE Goal == Grows /\ OrdersMade' /\ \E o : Asked(o, k, t, q) /\ Brings(o)
<1>0. ASSUME NEW n \in Nat, NEW status \in Status, NEW shown \in BOOLEAN, NEW bad \in BOOLEAN,
             Accept(k, t, q, n, status, shown, bad, trig),
             n <= q, status = "OPEN" => n < q, status = "COMPLETE" => n = q,
             k # "entry" => shown, n > 0 => shown,
             k = "stop" /\ status # "COMPLETE" => n = 0
      PROVE  Goal
  BY <1>0, AcceptAccount
<1> HIDE DEF Goal
<1>8. /\ "OPEN" \in Status /\ "COMPLETE" \in Status /\ "REJECTED" \in Status
      /\ TRUE \in BOOLEAN /\ FALSE \in BOOLEAN /\ 0 \in Nat
      /\ 0 <= q /\ 0 < q /\ q <= q /\ ~(0 > 0)
      /\ "OPEN" # "COMPLETE" /\ "REJECTED" # "OPEN" /\ "REJECTED" # "COMPLETE"
  BY DEF Status
<1>1. CASE reply = "order" /\ Accept(k, t, q, 0, "OPEN", TRUE, FALSE, trig)
  <2>1. Goal
    BY <1>0, <1>8, <1>1, Zenon
  <2> QED
    BY <1>1, <2>1 DEF Goal
<1>2. CASE /\ reply = "order" /\ k # "stop"
           /\ \E bad \in BOOLEAN : Accept(k, t, q, q, "COMPLETE", TRUE, bad, trig)
  <2>1. PICK bad \in BOOLEAN : Accept(k, t, q, q, "COMPLETE", TRUE, bad, trig)
    BY <1>2
  <2>2. Goal
    BY <1>0, <1>8, <1>2, <2>1, Zenon
  <2> QED
    BY <1>2, <2>2 DEF Goal
<1>3. CASE /\ reply = "order" /\ k # "stop"
           /\ \E n \in 1 .. q - 1 : Accept(k, t, q, n, "OPEN", TRUE, FALSE, trig)
  <2>1. PICK n \in 1 .. q - 1 : Accept(k, t, q, n, "OPEN", TRUE, FALSE, trig)
    BY <1>3
  <2>2. n \in Nat /\ n < q /\ n <= q
    OBVIOUS
  <2>3. Goal
    BY <1>0, <1>8, <1>3, <2>1, <2>2, Zenon
  <2> QED
    BY <1>3, <2>3 DEF Goal
<1>4. CASE reply = "order" /\ Accept(k, t, q, 0, "REJECTED", TRUE, FALSE, trig)
  <2>1. Goal
    BY <1>0, <1>8, <1>4, Zenon
  <2> QED
    BY <1>4, <2>1 DEF Goal
<1>5. CASE /\ reply = IF k = "stop" THEN "unseen" ELSE "order"
           /\ Cost({<<"unseen", k>>})
           /\ Accept(k, t, q, 0, "OPEN", FALSE, FALSE, trig)
  <2>1. k = "entry"
    BY <1>5 DEF Cost, AccountKnown, ExitsAnswered, OwnKinds
  <2>2. Goal
    BY <1>0, <1>8, <1>5, <2>1, Zenon
  <2> QED
    BY <1>5, <2>1, <2>2 DEF Goal
<1>6. CASE /\ reply = "raised"
           /\ \E shown \in BOOLEAN :
                /\ Cost({<<IF shown THEN "lost" ELSE "lost_unseen", k>>})
                /\ Accept(k, t, q, 0, "OPEN", shown, FALSE, trig)
  <2>1. PICK shown \in BOOLEAN :
          /\ Cost({<<IF shown THEN "lost" ELSE "lost_unseen", k>>})
          /\ Accept(k, t, q, 0, "OPEN", shown, FALSE, trig)
    BY <1>6
  <2>2. k = "entry"
    BY <2>1 DEF Cost, AccountKnown, ExitsAnswered, OwnKinds
  <2>3. Goal
    BY <1>0, <1>8, <1>6, <2>1, <2>2, Zenon
  <2> QED
    BY <1>6, <2>2, <2>3 DEF Goal
<1>7. CASE reply = "refused" /\ k = "entry" /\ UNCHANGED <<orders, net>>
  <2>1. Grows
    BY <1>7, AccountAlone
  <2>2. OrdersMade'
    BY <1>7 DEF OrdersMade, Ids
  <2> QED
    BY <1>7, <2>1, <2>2
<1> QED
  BY <1>1, <1>2, <1>3, <1>4, <1>5, <1>6, <1>7 DEF Place

\* A call of the engine finds its order, brings it, or fails without effect.
LEMMA SendAccount ==
  ASSUME BrokerAssumption, AccountKnown, BrokerTypeOK, OrdersMade,
         NEW k \in OwnKinds, NEW t \in Trades, NEW q \in Nat, NEW trig \in {0, 1},
         NEW reply, NEW id, Send(k, t, q, trig, reply, id),
         Existing(k, t) = {} => q > 0
  PROVE  /\ Grows /\ OrdersMade'
         /\ \/ /\ orders' = orders /\ net' = net
               /\ \/ reply = "order" /\ id \in Existing(k, t)
                  \/ reply = "raised" \/ (reply = "refused" /\ k = "entry")
            \/ /\ Existing(k, t) = {} /\ id = Len(orders) + 1
               /\ reply = "order" \/ (reply = "raised" /\ k = "entry")
               /\ \E o : Asked(o, k, t, q) /\ Brings(o)
<1>1. CASE Existing(k, t) = {} /\ id = Len(orders) + 1 /\ Place(k, t, q, trig, reply)
  BY <1>1, PlaceAccount
<1>2. CASE orders' = orders /\ net' = net
  <2>1. Grows /\ OrdersMade'
    BY <1>2, AccountAlone DEF OrdersMade, Ids
  <2>2. CASE Existing(k, t) # {} /\ reply = "order" /\ id = Min(Existing(k, t))
    <3>1. Existing(k, t) \in SUBSET Nat
      BY DEF Existing, OrdersOf, Ids, BrokerTypeOK
    <3>2. id \in Existing(k, t)
      BY <2>2, <3>1, MinOfNats
    <3> QED
      BY <1>2, <2>1, <2>2, <3>2
  <2>3. CASE Existing(k, t) = {} /\ Place(k, t, q, trig, reply) /\ id = Len(orders) + 1
    BY <2>3, PlaceAccount
  <2> QED
    BY <1>2, <2>1, <2>2, <2>3 DEF Send
<1>3. \/ Existing(k, t) = {} /\ id = Len(orders) + 1 /\ Place(k, t, q, trig, reply)
      \/ orders' = orders /\ net' = net
  BY DEF Send, brokerVars
<1> QED
  BY <1>1, <1>2, <1>3

\* A cancel changes what fills only if it is raced, which a stop's is not:
\* confirmed, the stop was working and is void.
LEMMA CancelAccount ==
  ASSUME BrokerAssumption, AccountKnown, BrokerTypeOK, OrdersMade, NEW i \in Ids, NEW reply,
         Cancel(i, reply)
  PROVE  /\ Grows /\ OrdersMade'
         /\ Idles \/ Fills(i)
         /\ orders[i].kind = "stop" /\ reply \in CancelConfirmed =>
              /\ Working(i)
              /\ orders'[i].filled = 0 /\ orders'[i].status # "OPEN"
<1>0. /\ orders[i] \in Order /\ WellMade(orders[i])
      /\ orders[i].filled \in Nat /\ orders[i].qty \in Nat /\ orders[i].side \in {-1, 1}
  BY OrderFields DEF OrdersMade
<1>1. CASE Working(i) /\ orders' = [orders EXCEPT ![i].status = "CANCELLED"] /\ net' = net
  <2> DEFINE o == [orders[i] EXCEPT !.status = "CANCELLED"]
  <2>1. o \in Order
    BY <1>0 DEF Order, Status
  <2>2. /\ o.kind = orders[i].kind /\ o.trade = orders[i].trade /\ o.sym = orders[i].sym
        /\ o.side = orders[i].side /\ o.qty = orders[i].qty /\ o.shown = orders[i].shown
        /\ o.filled = orders[i].filled /\ o.status = "CANCELLED"
    BY <1>0 DEF Order
  <2>3. WellMade(o)
    BY <1>0, <1>1, <2>2 DEF WellMade, Working
  <2>4. orders' = [orders EXCEPT ![i] = o]
    BY <1>1
  <2>5. orders[i].filled <= o.filled
    BY <1>0, <2>2
  <2>6. Working(i) /\ net' = net
    BY <1>1
  <2> HIDE DEF o
  <2>7. Grows /\ OrdersMade' /\ (Idles \/ Fills(i))
    BY <2>1, <2>2, <2>3, <2>4, <2>5, <2>6, AccountChanged
  <2>8. orders'[i] = o
    BY <2>4 DEF Ids, BrokerTypeOK
  <2> QED
    BY <1>0, <2>2, <2>6, <2>7, <2>8 DEF WellMade, Working
<1>2. CASE UNCHANGED <<orders, net>> /\ reply = "unconfirmed"
  <2>1. Grows /\ Idles /\ OrdersMade'
    BY <1>2, AccountAlone DEF OrdersMade, Ids
  <2> QED
    BY <1>2, <2>1 DEF CancelConfirmed
<1>3. CASE /\ Working(i) /\ orders[i].shown
           /\ Cost({<<"raced", orders[i].kind>>})
           /\ orders' = [orders EXCEPT ![i].status = "COMPLETE", ![i].filled = orders[i].qty]
           /\ net' = [net EXCEPT ![orders[i].sym] = @ + orders[i].side * Left(i)]
  <2> DEFINE o == [orders[i] EXCEPT !.status = "COMPLETE", !.filled = orders[i].qty]
  <2>1. o \in Order
    BY <1>0 DEF Order, Status
  <2>2. /\ o.kind = orders[i].kind /\ o.trade = orders[i].trade /\ o.sym = orders[i].sym
        /\ o.side = orders[i].side /\ o.qty = orders[i].qty /\ o.shown = orders[i].shown
        /\ o.filled = orders[i].qty /\ o.status = "COMPLETE"
    BY <1>0 DEF Order
  <2>3. WellMade(o)
    BY <1>0, <2>2 DEF WellMade
  <2>4. orders' = [orders EXCEPT ![i] = o]
    BY <1>3 DEF Ids, BrokerTypeOK
  <2>5. orders[i].filled <= o.filled
    BY <1>0, <2>2 DEF WellMade
  <2>6. Working(i) /\ net' = [net EXCEPT ![orders[i].sym] =
                                    @ + orders[i].side * (o.filled - orders[i].filled)]
    BY <1>3, <2>2 DEF Left
  <2>7. orders[i].kind # "stop"
    BY <1>3 DEF Cost, AccountKnown, StopsFillWhole
  <2> HIDE DEF o
  <2>8. Grows /\ OrdersMade' /\ (Idles \/ Fills(i))
    BY <2>1, <2>2, <2>3, <2>4, <2>5, <2>6, AccountChanged
  <2> QED
    BY <2>7, <2>8
<1> QED
  BY <1>1, <1>2, <1>3 DEF Cancel, brokerVars

\* With nobody trading by hand, the exchange only fills or ends what the engine
\* sent.
LEMMA ExchangeAccount ==
  ASSUME BrokerAssumption, AccountKnown, BrokerTypeOK, OrdersMade, Exchange
  PROVE  Grows /\ OrdersMade' /\ (Idles \/ \E i \in Ids : Fills(i))
<1>1. ASSUME NEW i \in Ids
      PROVE  /\ orders[i] \in Order /\ WellMade(orders[i])
             /\ orders[i].filled \in Nat /\ orders[i].qty \in Nat /\ orders[i].side \in {-1, 1}
  BY OrderFields DEF OrdersMade
<1>2. ASSUME NEW i \in Ids, Execute(i)
      PROVE  Grows /\ OrdersMade' /\ (Idles \/ Fills(i))
  <2>1. PICK n \in 1 .. Left(i), bad \in BOOLEAN :
          /\ Cost((IF n < Left(i) THEN {<<"partial", orders[i].kind>>} ELSE {})
                    \cup Bad(bad, orders[i].kind))
          /\ orders' = [orders EXCEPT
               ![i].filled = @ + n,
               ![i].adverse = @ \/ bad,
               ![i].status = IF n = Left(i) THEN "COMPLETE" ELSE @]
          /\ net' = [net EXCEPT ![orders[i].sym] = @ + orders[i].side * n]
    BY <1>2 DEF Execute
  <2> DEFINE filled == orders[i].filled + n
             adverse == orders[i].adverse \/ bad
             status == IF n = Left(i) THEN "COMPLETE" ELSE orders[i].status
             o == [orders[i] EXCEPT !.filled = filled, !.adverse = adverse, !.status = status]
  <2>2. filled \in Nat /\ adverse \in BOOLEAN /\ n \in Nat
    BY <1>1 DEF Left
  <2>3. Working(i) /\ status \in Status
    BY <1>2, OrderFields DEF Execute, Status
  <2>4. orders' = [orders EXCEPT ![i] = o]
    BY <2>1 DEF Ids, BrokerTypeOK
  <2>5. orders[i].kind = "stop" => n = Left(i)
    <3>1. Left(i) \in Int /\ n <= Left(i)
      BY OrderFields
    <3>2. orders[i].kind = "stop" /\ n < Left(i) => <<"partial", "stop">> \in Events
      BY <2>1 DEF Cost
    <3> QED
      BY <2>2, <3>1, <3>2 DEF AccountKnown, StopsFillWhole
  <2>6. n = Left(i) => status = "COMPLETE" /\ filled = orders[i].qty
    BY <1>1 DEF Left
  <2>7. n # Left(i) => status = "OPEN" /\ filled < orders[i].qty
    BY <1>1, <2>3 DEF Left, Working
  <2>8. filled = orders[i].filled + n
    OBVIOUS
  <2> HIDE DEF filled, adverse, status
  <2>9. /\ o \in Order /\ o.kind = orders[i].kind /\ o.trade = orders[i].trade
        /\ o.sym = orders[i].sym /\ o.side = orders[i].side /\ o.qty = orders[i].qty
        /\ o.shown = orders[i].shown /\ o.filled = filled /\ o.status = status
    BY <1>1, <2>2, <2>3 DEF Order
  <2>10. WellMade(o)
    <3>1. n = Left(i) \/ n # Left(i)
      OBVIOUS
    <3>2. WellMade(orders[i]) /\ orders[i].qty \in Nat /\ orders[i].filled \in Nat
      BY <1>1
    <3> QED
      BY <2>2, <2>5, <2>6, <2>7, <2>9, <3>1, <3>2 DEF WellMade
  <2>11. orders[i].filled <= o.filled
    BY <1>1, <2>2, <2>8, <2>9
  <2>12. net' = [net EXCEPT ![orders[i].sym] = @ + orders[i].side * (o.filled - orders[i].filled)]
    <3>1. o.filled - orders[i].filled = n
      BY <1>1, <2>2, <2>8, <2>9
    <3> QED
      BY <2>1, <3>1
  <2> HIDE DEF o
  <2> QED
    BY <2>3, <2>4, <2>9, <2>10, <2>11, <2>12, AccountChanged
<1>3. ASSUME NEW i \in Ids, Die(i)
      PROVE  Grows /\ OrdersMade' /\ (Idles \/ Fills(i))
  <2>1. PICK s \in Dead : orders' = [orders EXCEPT ![i].status = s]
    BY <1>3 DEF Die
  <2> DEFINE o == [orders[i] EXCEPT !.status = s]
  <2>2. /\ o \in Order /\ o.kind = orders[i].kind /\ o.trade = orders[i].trade
        /\ o.sym = orders[i].sym /\ o.side = orders[i].side /\ o.qty = orders[i].qty
        /\ o.shown = orders[i].shown /\ o.filled = orders[i].filled /\ o.status = s
    BY <1>1 DEF Order, Status, Dead
  <2>3. Working(i) /\ net' = net
    BY <1>3 DEF Die
  <2>4. WellMade(o)
    BY <1>1, <2>2, <2>3 DEF WellMade, Working, Dead
  <2>5. orders' = [orders EXCEPT ![i] = o]
    BY <2>1
  <2>6. orders[i].filled <= o.filled
    BY <1>1, <2>2
  <2> HIDE DEF o
  <2> QED
    BY <2>2, <2>3, <2>4, <2>5, <2>6, AccountChanged
<1>4. ASSUME NEW i \in Ids, Show(i)
      PROVE  Grows /\ OrdersMade' /\ (Idles \/ Fills(i))
  <2> DEFINE o == [orders[i] EXCEPT !.shown = TRUE]
  <2>1. /\ o \in Order /\ o.kind = orders[i].kind /\ o.trade = orders[i].trade
        /\ o.sym = orders[i].sym /\ o.side = orders[i].side /\ o.qty = orders[i].qty
        /\ o.shown /\ o.filled = orders[i].filled /\ o.status = orders[i].status
    BY <1>1 DEF Order
  <2>2. net' = net /\ orders' = [orders EXCEPT ![i] = o]
    BY <1>4 DEF Show
  <2>3. WellMade(o)
    BY <1>1, <2>1 DEF WellMade
  <2>4. orders[i].filled <= o.filled
    BY <1>1, <2>1
  <2> HIDE DEF o
  <2> QED
    BY <2>1, <2>2, <2>3, <2>4, AccountChanged
<1>5. ASSUME NEW i \in Ids, EditStop(i)
      PROVE  Grows /\ OrdersMade' /\ (Idles \/ Fills(i))
  <2> DEFINE o == [orders[i] EXCEPT !.trig = 1]
  <2>1. /\ o \in Order /\ o.kind = orders[i].kind /\ o.trade = orders[i].trade
        /\ o.sym = orders[i].sym /\ o.side = orders[i].side /\ o.qty = orders[i].qty
        /\ o.shown = orders[i].shown /\ o.filled = orders[i].filled
        /\ o.status = orders[i].status
    BY <1>1 DEF Order
  <2>2. net' = net /\ orders' = [orders EXCEPT ![i] = o]
    BY <1>5 DEF EditStop
  <2>3. WellMade(o)
    BY <1>1, <2>1 DEF WellMade
  <2>4. orders[i].filled <= o.filled
    BY <1>1, <2>1
  <2> HIDE DEF o
  <2> QED
    BY <2>1, <2>2, <2>3, <2>4, AccountChanged
<1>6. ASSUME NEW s \in Symbols, HumanClose(s)
      PROVE  FALSE
  BY <1>6 DEF HumanClose, Cost, AccountKnown, HandsOff
<1> QED
  BY <1>2, <1>3, <1>4, <1>5, <1>6 DEF Exchange

\* All that is known of a state of the engine and its account.
Standing == IInv /\ RefusedInv /\ OneOpenTradePerSymbol /\ AccountInv

\* A trade that is a position, or was one, bought shares.
LEMMA Bought ==
  ASSUME Standing, NEW t \in Trades, row[t].state \in Holding \cup {"CLOSED"}
  PROVE  /\ row[t] \in Row /\ row[t].entry \in Ids
         /\ row[t].entry \in OrdersOf("entry", t)
         /\ ~Working(row[t].entry) /\ orders[row[t].entry].shown
         /\ orders[row[t].entry].filled \in Nat /\ orders[row[t].entry].filled > 0
<1>1. row[t] \in Row
  BY DEF Standing, IInv, TypeOK
<1>2. TradeTrue(t) /\ BrokerTypeOK
  BY DEF Standing, AccountInv, TradesTrue, IInv, TypeOK
<1>3. /\ row[t].entry \in OrdersOf("entry", t)
      /\ ~Working(row[t].entry) /\ orders[row[t].entry].shown
      /\ orders[row[t].entry].filled > 0
  BY <1>2 DEF TradeTrue, EntryDone
<1>4. row[t].entry \in Ids
  BY <1>3 DEF OrdersOf
<1>5. orders[row[t].entry].filled \in Nat
  BY <1>2, <1>4, OrderFields
<1> QED
  BY <1>1, <1>3, <1>4, <1>5

\* What the reply to place_slm leaves: a stop for all of the position, or
\* nothing.
LEMMA PlaceStopLeaves ==
  ASSUME BrokerAssumption, AccountKnown, Standing, NEW t \in Trades, PlaceStop(t)
  PROVE  /\ row' = row /\ row[t].state = "ENTERED" /\ job.at \in {"protect", "place_stop"}
         /\ Grows /\ OrdersMade'
         /\ \/ orders' = orders /\ net' = net /\ job'.at \in LoopSteps
            \/ /\ \E o : /\ Asked(o, "stop", t, row[t].qty) /\ Brings(o)
                         /\ job'.got # "confirmed" => o.status \in Dead
               /\ job'.at = "save_stop" /\ job'.t = t /\ job'.id = Len(orders) + 1
<1>1. job \in Job /\ BrokerTypeOK /\ OrdersMade
  BY DEF Standing, AccountInv, IInv, TypeOK
<1>2. job.at \in {"protect", "place_stop"} /\ row' = row
  BY DEF PlaceStop, At, engineVarsButJob
<1>3. row[t].state = "ENTERED"
  BY DEF PlaceStop, At, Standing, IInv, JobInv, JobCoherent, LoopSteps, RowsAhead, RowInHand
<1>4. PICK reply \in {"order", "unseen", "raised"}, id \in 0 .. Len(orders) + 1 :
        /\ Send("stop", t, row[t].qty, row[t].price, reply, id)
        /\ job' = IF reply = "raised" THEN [Resume(job) EXCEPT !.todo = @ \ {t}]
                  ELSE [Call("save_stop", t, "NONE") EXCEPT
                         !.id = id,
                         !.got = IF reply = "unseen" \/ orders'[id].status \in Dead
                                 THEN "unconfirmed" ELSE "confirmed"]
  BY DEF PlaceStop
<1>5. TradeTrue(t)
  BY DEF Standing, AccountInv, TradesTrue
<1>6. row[t].qty \in Nat /\ row[t].qty > 0 /\ row[t].price \in {0, 1}
  BY <1>3, <1>5, Bought, RowOf DEF TradeTrue, KeptIs, Kept, Holding, Standing
<1>7. Existing("stop", t) = {}
  BY <1>2, <1>3, <1>5 DEF TradeTrue, KeptIs, Kept, Saving, Existing, Void
<1>8. /\ Grows /\ OrdersMade'
      /\ \/ orders' = orders /\ net' = net /\ reply = "raised"
         \/ /\ id = Len(orders) + 1 /\ reply = "order"
            /\ \E o : Asked(o, "stop", t, row[t].qty) /\ Brings(o)
  <2>1. "stop" \in OwnKinds /\ "stop" # "entry"
    BY DEF OwnKinds
  <2> QED
    BY <1>1, <1>4, <1>6, <1>7, <2>1, SendAccount
<1>9. CASE reply = "raised" /\ orders' = orders /\ net' = net
  <2>1. job' = [Resume(job) EXCEPT !.todo = @ \ {t}]
    BY <1>4, <1>9
  <2>2. job'.at \in LoopSteps
    BY <1>1, <2>1 DEF Resume, Job
  <2> QED
    BY <1>2, <1>3, <1>8, <1>9, <2>2
<1>10. ASSUME NEW o, Asked(o, "stop", t, row[t].qty), Brings(o), id = Len(orders) + 1,
              reply = "order"
       PROVE  /\ job'.at = "save_stop" /\ job'.t = t /\ job'.id = id
              /\ job'.got # "confirmed" => o.status \in Dead
  <2>1. orders'[id] = o
    BY <1>10 DEF Brings, AddsOrder
  <2>2. PICK got : /\ got = IF o.status \in Dead THEN "unconfirmed" ELSE "confirmed"
                   /\ job' = [Call("save_stop", t, "NONE") EXCEPT !.id = id, !.got = got]
    BY <1>4, <1>10, <2>1
  <2>3. job'.at = "save_stop" /\ job'.t = t /\ job'.id = id /\ job'.got = got
    BY <1>1, <2>2 DEF Call, Job
  <2> QED
    BY <2>2, <2>3
<1> QED
  BY <1>2, <1>3, <1>8, <1>9, <1>10

\* What the reply to place_market_mis leaves of an exit: one for all of the
\* position, the one there was, or nothing.
LEMMA SendExitLeaves ==
  ASSUME BrokerAssumption, AccountKnown, Standing, SendExit
  PROVE  /\ job.t \in Trades /\ row' = row /\ row[job.t].state \in Holding
         /\ job.at = "send_exit" /\ StopsVoid(job.t)
         /\ Grows /\ OrdersMade'
         /\ \/ orders' = orders /\ net' = net /\ job'.at \in LoopSteps \cup {"mark"}
            \/ /\ orders' = orders /\ net' = net
               /\ job'.at = "save_exit" /\ job'.t = job.t /\ job'.why = job.why
               /\ job'.id \in OrdersOf("exit", job.t)
            \/ /\ row[job.t].state \in Kept
               /\ row[job.t].qty = orders[row[job.t].entry].filled
               /\ OrdersOf("exit", job.t) = {}
               /\ \E o : Asked(o, "exit", job.t, row[job.t].qty) /\ Brings(o)
               /\ job'.at = "save_exit" /\ job'.t = job.t /\ job'.why = job.why
               /\ job'.id = Len(orders) + 1
<1>1. job \in Job /\ BrokerTypeOK /\ OrdersMade
  BY DEF Standing, AccountInv, IInv, TypeOK
<1>2. job.at = "send_exit" /\ row' = row
  BY DEF SendExit, At, engineVarsButJob
<1>3. job.t \in Trades
  BY <1>2, TradeInHand DEF OnRow, OnFlatten, Standing
<1>4. row[job.t].state \in Holding /\ StopsVoid(job.t)
  BY <1>2 DEF Standing, AccountInv, HandTrue, OnFlatten
<1>5. PICK reply \in {"order", "raised"}, id \in 0 .. Len(orders) + 1 :
        /\ Send("exit", job.t, row[job.t].qty, 0, reply, id)
        /\ IF reply = "order" THEN job' = [job EXCEPT !.at = "save_exit", !.id = id]
                              ELSE FlattenReturns(FALSE)
  BY DEF SendExit
<1>6. TradeTrue(job.t)
  BY <1>3 DEF Standing, AccountInv, TradesTrue
<1>7. Existing("exit", job.t) = OrdersOf("exit", job.t)
  BY <1>1 DEF Existing, OrdersOf, OrdersMade, WellMade
<1>8. OrdersOf("exit", job.t) = {} =>
        row[job.t].state \in Kept /\ row[job.t].qty = orders[row[job.t].entry].filled
  BY <1>4, <1>6 DEF TradeTrue, ExitIs, KeptIs, Kept, Holding
<1>9. row[job.t].qty \in Nat /\ (Existing("exit", job.t) = {} => row[job.t].qty > 0)
  BY <1>3, <1>4, <1>7, <1>8, Bought, RowOf DEF Standing
<1>10. /\ Grows /\ OrdersMade'
       /\ \/ /\ orders' = orders /\ net' = net
             /\ reply = "raised" \/ (reply = "order" /\ id \in Existing("exit", job.t))
          \/ /\ Existing("exit", job.t) = {} /\ id = Len(orders) + 1 /\ reply = "order"
             /\ \E o : Asked(o, "exit", job.t, row[job.t].qty) /\ Brings(o)
  <2>1. "exit" \in OwnKinds /\ "exit" # "entry" /\ 0 \in {0, 1}
    BY DEF OwnKinds
  <2> QED
    BY <1>1, <1>3, <1>5, <1>9, <2>1, SendAccount
<1>11. reply = "order" => /\ job'.at = "save_exit" /\ job'.t = job.t /\ job'.why = job.why
                          /\ job'.id = id
  BY <1>1, <1>5 DEF Job
<1>12. reply = "raised" => job'.at \in LoopSteps \cup {"mark"}
  BY <1>1, <1>5 DEF Job, FlattenReturns, Resume
<1> QED
  BY <1>2, <1>3, <1>4, <1>7, <1>8, <1>10, <1>11, <1>12

\* What the call of submit_entry adds: at most the one entry of its trade, and
\* the reply that says it filled is true.
LEMMA SendEntryAccount ==
  ASSUME BrokerAssumption, AccountKnown, Standing, SendEntry
  PROVE  /\ job.t \in Trades /\ row' = row /\ row[job.t].state = "PENDING_ENTRY"
         /\ OrdersOf("entry", job.t) = {}
         /\ Grows /\ OrdersMade'
         /\ \/ orders' = orders /\ net' = net
            \/ \E o : Asked(o, "entry", job.t, row[job.t].qty) /\ Brings(o)
         /\ job'.at = "save_entry" /\ job'.got = "filled" =>
              FillFinal(orders'[job'.id]) /\ orders'[job'.id].shown
<1>1. job \in Job /\ BrokerTypeOK /\ OrdersMade
  BY DEF Standing, AccountInv, IInv, TypeOK
<1>2. job.at = "send_entry" /\ row' = row
  BY DEF SendEntry, At, engineVarsButJob
<1>3. job.t \in Trades
  BY <1>2, TradeInHand DEF OnRow, OnIntent, Standing
<1>4. row[job.t].state = "PENDING_ENTRY" /\ OrdersOf("entry", job.t) = {} /\ row[job.t].qty > 0
  BY <1>2 DEF Standing, IInv, JobInv, RowInHand, NothingSent, OnIntent, AccountInv, HandTrue
<1>5. PICK reply \in {"order", "raised", "refused"}, id \in 0 .. Len(orders) + 1 :
        /\ Send("entry", job.t, row[job.t].qty, 0, reply, id)
        /\ job' = CASE reply = "raised"  -> [job EXCEPT !.at = "resolve_entry"]
                    [] reply = "refused" -> [job EXCEPT !.at = "reject_entry"]
                    [] reply = "order"   ->
                         IF orders'[id].status = "REJECTED"
                           THEN [job EXCEPT !.at = "reject_entry"]
                           ELSE [job EXCEPT !.at = "save_entry", !.id = id,
                                   !.got = IF FillFinal(orders'[id]) THEN "filled" ELSE "working"]
  BY DEF SendEntry
<1>6. Existing("entry", job.t) = {}
  BY <1>4 DEF Existing
<1>7. /\ Grows /\ OrdersMade'
      /\ \/ orders' = orders /\ net' = net /\ reply # "order"
         \/ /\ id = Len(orders) + 1
            /\ \E o : Asked(o, "entry", job.t, row[job.t].qty) /\ Brings(o)
  <2>1. "entry" \in OwnKinds /\ 0 \in {0, 1} /\ row[job.t].qty \in Nat
    BY <1>3, RowOf DEF OwnKinds, Standing
  <2> QED
    BY <1>1, <1>3, <1>4, <1>5, <1>6, <2>1, SendAccount
<1>8. ASSUME job'.at = "save_entry", job'.got = "filled"
      PROVE  FillFinal(orders'[job'.id]) /\ orders'[job'.id].shown
  <2>1. reply = "order"
    BY <1>1, <1>5, <1>8 DEF Job
  <2>2. PICK o : Asked(o, "entry", job.t, row[job.t].qty) /\ Brings(o)
    BY <1>7, <2>1
  <2>3. id = Len(orders) + 1 /\ orders'[id] = o
    BY <1>7, <2>1, <2>2 DEF Brings, AddsOrder
  <2>4. job' = IF o.status = "REJECTED"
                 THEN [job EXCEPT !.at = "reject_entry"]
                 ELSE [job EXCEPT !.at = "save_entry", !.id = id,
                         !.got = IF FillFinal(o) THEN "filled" ELSE "working"]
    BY <1>5, <2>1, <2>3
  <2>5. o.status # "REJECTED"
    BY <1>1, <1>8, <2>4 DEF Job
  <2>6. PICK got : /\ got = IF FillFinal(o) THEN "filled" ELSE "working"
                   /\ job' = [job EXCEPT !.at = "save_entry", !.id = id, !.got = got]
    BY <2>4, <2>5
  <2>7. job'.id = id /\ job'.got = got
    BY <1>1, <2>6 DEF Job
  <2>8. FillFinal(o)
    BY <1>8, <2>6, <2>7
  <2>9. o.shown
    BY <2>2, <2>8 DEF FillFinal, Asked
  <2> QED
    BY <2>3, <2>7, <2>8, <2>9
<1> QED
  BY <1>2, <1>3, <1>4, <1>7, <1>8

\* The call that brings the order o.
Sent(o) ==
  /\ o \in Order /\ WellMade(o)
  /\ \/ o.kind = "entry" /\ SendEntry /\ o.trade = job.t
     \/ o.kind = "stop" /\ PlaceStop(o.trade)
     \/ o.kind = "exit" /\ SendExit /\ o.trade = job.t

\* Every step moves orders and net quantity together.
LEMMA AccountStep ==
  ASSUME BrokerAssumption, AccountKnown, Standing, [Next]_vars
  PROVE  /\ Grows /\ OrdersMade'
         /\ Idles \/ (\E i \in Ids : Fills(i)) \/ (\E o : Sent(o) /\ Brings(o))
<1>0. BrokerTypeOK /\ OrdersMade
  BY DEF Standing, AccountInv, IInv, TypeOK
<1>1. CASE orders' = orders /\ net' = net
  BY <1>0, <1>1, AccountAlone DEF OrdersMade, Ids
<1>2. ASSUME NEW t \in Trades, PlaceStop(t)
      PROVE  /\ Grows /\ OrdersMade'
             /\ Idles \/ (\E o : Sent(o) /\ Brings(o))
  <2>1. CASE orders' = orders /\ net' = net
    BY <1>0, <2>1, AccountAlone DEF OrdersMade, Ids
  <2>2. ASSUME NEW o, Asked(o, "stop", t, row[t].qty)
        PROVE  Sent(o)
    BY <1>2, <2>2 DEF Sent, Asked
  <2> QED
    BY <1>2, <2>1, <2>2, PlaceStopLeaves
<1>3. CASE SendExit
  <2>1. CASE orders' = orders /\ net' = net
    BY <1>0, <2>1, AccountAlone DEF OrdersMade, Ids
  <2>2. ASSUME NEW o, Asked(o, "exit", job.t, row[job.t].qty)
        PROVE  Sent(o)
    BY <1>3, <2>2 DEF Sent, Asked
  <2> QED
    BY <1>3, <2>1, <2>2, SendExitLeaves
<1>4. CASE SendEntry
  <2>1. CASE orders' = orders /\ net' = net
    BY <1>0, <2>1, AccountAlone DEF OrdersMade, Ids
  <2>2. ASSUME NEW o, Asked(o, "entry", job.t, row[job.t].qty)
        PROVE  Sent(o)
    BY <1>4, <2>2 DEF Sent, Asked
  <2> QED
    BY <1>4, <2>1, <2>2, SendEntryAccount
<1>5. CASE CancelStop
  <2>1. PICK reply : Cancel(row[job.t].stop, reply)
    BY <1>5 DEF CancelStop
  <2>2. row[job.t].stop \in Ids
    <3>1. job.at = "cancel_stop" /\ job.t \in Trades
      BY <1>5, TradeInHand DEF CancelStop, At, OnRow, OnFlatten, Standing
    <3> QED
      BY <3>1, RowOf DEF IInv, JobInv, JobIds, Standing
  <2> QED
    BY <1>0, <2>1, <2>2, CancelAccount
<1>6. ASSUME NEW t \in Trades, CancelEntry(t)
      PROVE  /\ Grows /\ OrdersMade'
             /\ Idles \/ (\E i \in Ids : Fills(i))
  <2>1. PICK reply : Cancel(row[t].entry, reply)
    BY <1>6 DEF CancelEntry
  <2>2. row[t].entry \in Ids
    BY <1>6 DEF CancelEntry, IInv, BookInv, RowIds, Standing
  <2> QED
    BY <1>0, <2>1, <2>2, CancelAccount
<1>7. CASE Environment
  BY <1>0, <1>7, ExchangeAccount DEF Environment
<1>8. CASE TickStart \/ FetchBrokerTruth \/ Reconcile \/ Commands
  BY <1>1, <1>8 DEF TickStart, FetchBrokerTruth, Reconcile, ReconcileWaits, ReconcileEntryFill,
     ReconcileEntryDead, ReconcileFlat, ReconcileHeld, EndReconcile, Commands, ApplySwitch,
     ApplyClose, MarkClose, EndCommands, brokerVars
<1>9. CASE Protect
  BY <1>1, <1>2, <1>9 DEF Protect, SaveStop, EndProtect, brokerVars
<1>10. CASE FlattenSteps
  BY <1>1, <1>3, <1>5, <1>10 DEF FlattenSteps, SaveExit, SaveExitIllegal, brokerVars
<1>11. CASE Squareoff
  BY <1>1, <1>6, <1>11 DEF Squareoff, SquareoffRow, SaveCancel, EndSquareoff, brokerVars
<1>12. CASE Ingest
  BY <1>1, <1>4, <1>12 DEF Ingest, Skip, Intend, ResolveEntry, RejectEntry, SaveEntry, SaveFill,
     EndIngest, brokerVars
<1>13. CASE Crash \/ Start \/ SubmitCommand \/ Clock \/ UNCHANGED vars
  BY <1>1, <1>13 DEF Crash, Start, SubmitCommand, Clock, vars, brokerVars
<1> QED
  BY <1>7, <1>8, <1>9, <1>10, <1>11, <1>12, <1>13 DEF Next, Tick

\* An order o more, of kind k and trade t, is that much more of them.
LEMMA OneMore ==
  ASSUME NEW o, AddsOrder(o), NEW k, NEW t
  PROVE  OrdersOf(k, t)' = IF o.kind = k /\ o.trade = t THEN OrdersOf(k, t) \cup {Len(orders) + 1}
                                                        ELSE OrdersOf(k, t)
BY DEF AddsOrder, OrdersOf

\* A book that only grows keeps whose an order is.
LEMMA NoMore ==
  ASSUME Grows, AddsNone, NEW k, NEW t
  PROVE  OrdersOf(k, t)' = OrdersOf(k, t)
BY DEF Grows, Progress, AddsNone, OrdersOf

\* Orders stay those of their trade; only these two calls add one that sells.
LEMMA OrdersStay ==
  ASSUME BrokerAssumption, AccountKnown, Standing, [Next]_vars, NEW t \in Trades
  PROVE  /\ \A k : OrdersOf(k, t) \subseteq OrdersOf(k, t)'
         /\ ~PlaceStop(t) => OrdersOf("stop", t)' = OrdersOf("stop", t)
         /\ ~(SendExit /\ t = job.t) => OrdersOf("exit", t)' = OrdersOf("exit", t)
<1>1. Grows /\ (AddsNone \/ \E o : Sent(o) /\ Brings(o))
  BY AccountStep DEF Idles, Fills
<1>2. CASE AddsNone
  BY <1>1, <1>2, NoMore
<1>3. ASSUME NEW o, Sent(o), Brings(o)
      PROVE  /\ \A k : OrdersOf(k, t) \subseteq OrdersOf(k, t)'
             /\ ~PlaceStop(t) => OrdersOf("stop", t)' = OrdersOf("stop", t)
             /\ ~(SendExit /\ t = job.t) => OrdersOf("exit", t)' = OrdersOf("exit", t)
  BY <1>3, OneMore DEF Sent, Brings
<1> QED
  BY <1>1, <1>2, <1>3

\* The reply in hand, if it is one about to be written to row t, stays.
SaveKept(t) ==
  /\ Saving("save_exit", t) => Saving("save_exit", t)'
  /\ Saving("save_stop", t) => Saving("save_stop", t)' /\ job'.id = job.id

\* What is true of a trade stays true while its row, its stops and its exits
\* are left alone, whatever fills meanwhile.
LEMMA TradeKept ==
  ASSUME BrokerAssumption, Standing, NEW t \in Trades, Grows,
         \A k : OrdersOf(k, t) \subseteq OrdersOf(k, t)',
         Outs(t)' = Outs(t), OrdersOf("stop", t)' = OrdersOf("stop", t),
         OrdersOf("exit", t)' = OrdersOf("exit", t),
         row'[t] = row[t], SaveKept(t)
  PROVE  TradeTrue(t)'
<1>1. TradeTrue(t) /\ OrdersMade /\ BrokerTypeOK
  BY DEF Standing, AccountInv, TradesTrue, IInv, TypeOK
<1>2. \A i \in Outs(t) : /\ i \in Ids
                         /\ orders'[i].kind = orders[i].kind
                         /\ orders'[i].qty = orders[i].qty
                         /\ ~Working(i) => /\ orders'[i].filled = orders[i].filled
                                           /\ orders'[i].status = orders[i].status
  BY DEF Grows, Progress, Outs, OrdersOf
<1>3. \A i \in Outs(t) : Void(i) => Void(i)'
  BY <1>2 DEF Void, Working
<1>4. NotHeld(t)'
  BY <1>1 DEF TradeTrue, NotHeld
<1>5. row[t].state \in Holding \cup {"CLOSED"} =>
        /\ orders'[row[t].entry].filled = orders[row[t].entry].filled
        /\ orders'[row[t].entry].status = orders[row[t].entry].status
        /\ orders'[row[t].entry].shown
        /\ row[t].entry \in OrdersOf("entry", t)'
  BY Bought DEF Grows, Progress
<1>6. EntryDone(t)'
  BY <1>1, <1>5 DEF TradeTrue, EntryDone, Working
<1>7. OneSeller(t)'
  <2> SUFFICES ASSUME NEW i \in Outs(t), ~Void(i)
               PROVE  /\ orders'[i].qty = orders'[row[t].entry].filled
                      /\ \A j \in Outs(t) : ~Void(j) => i = j
    BY <1>3 DEF OneSeller
  <2> QED
    BY <1>1, <1>2, <1>5 DEF TradeTrue, OneSeller, NotHeld
<1>8. KeptIs(t)'
  <2>1. row[t].state \in Kept => row[t].state \in Holding \cup {"CLOSED"}
    BY DEF Kept, Holding
  <2>2. OrdersOf("stop", t) \subseteq Outs(t)
    BY DEF Outs
  <2> QED
    BY <1>1, <1>3, <1>5, <2>1, <2>2 DEF TradeTrue, KeptIs, SaveKept, Saving
<1>9. ExitIs(t)'
  BY <1>1, <1>3 DEF TradeTrue, ExitIs, StopsVoid, Outs
<1>10. ClosedIs(t)'
  <2> SUFFICES ASSUME row[t].state = "CLOSED"
               PROVE  ClosedIs(t)'
    BY DEF ClosedIs
  <2>1. PICK x \in Outs(t) :
          /\ row[t].exits = {x} /\ row[t].closing = x
          /\ orders[x].filled = orders[row[t].entry].filled
          /\ IF orders[x].kind = "stop" THEN row[t].reason = "STOP_HIT"
                                        ELSE row[t].reason \in ActiveReasons
    BY <1>1 DEF TradeTrue, ClosedIs
  <2>2. orders[row[t].entry].filled > 0
    BY Bought
  <2>3. ~Void(x) /\ x \in Ids
    BY <1>2, <2>1, <2>2 DEF Void
  <2>4. orders[x].qty = orders[x].filled
    BY <1>1, <2>1, <2>3 DEF TradeTrue, OneSeller
  <2>5. orders[x].qty \in Nat /\ WellMade(orders[x])
    BY <1>1, <2>3, OrderFields DEF OrdersMade
  <2>6. ~Working(x)
    BY <2>4, <2>5 DEF WellMade, Working
  <2>7. orders'[x].filled = orders'[row[t].entry].filled /\ orders'[x].kind = orders[x].kind
    BY <1>2, <1>5, <2>1, <2>6
  <2> QED
    BY <2>1, <2>7 DEF ClosedIs
<1>11. BoundIds(t)'
  BY <1>1 DEF TradeTrue, BoundIds
<1> QED
  BY <1>4, <1>6, <1>7, <1>8, <1>9, <1>10, <1>11 DEF TradeTrue

\* Between a call for a stop or an exit and the commit that records it, only
\* the account can move: the process does not die there.
LEMMA AwaitingSave ==
  ASSUME AccountKnown, IInv, HandTrue, [Next]_vars, job.at \in {"save_stop", "save_exit"}
  PROVE  \/ SaveStop /\ job.at = "save_stop"
         \/ SaveExit /\ job.at = "save_exit"
         \/ job' = job /\ row' = row /\ truth' = truth /\ (orders' = orders \/ Environment)
<1>1. ~TickStart /\ ~FetchBrokerTruth
  BY DEF TickStart, FetchBrokerTruth, At
<1>2. ~Reconcile
  BY DEF Reconcile, ReconcileWaits, ReconcileEntryFill, ReconcileEntryDead, ReconcileFlat,
     ReconcileHeld, EndReconcile, Reconciling, At
<1>3. CASE Protect
  BY <1>3 DEF Protect, PlaceStop, SaveStop, EndProtect, At
<1>4. CASE FlattenSteps
  <2>1. ~SaveExitIllegal
    BY DEF SaveExitIllegal, At, HandTrue, OnFlatten, Holding, Unfilled
  <2> QED
    BY <1>4, <2>1 DEF FlattenSteps, CancelStop, SendExit, SaveExit, At
<1>5. ~Commands
  BY DEF Commands, ApplySwitch, ApplyClose, MarkClose, EndCommands, Applying, At
<1>6. ~Squareoff
  BY DEF Squareoff, SquareoffRow, CancelEntry, SaveCancel, EndSquareoff, At
<1>7. ~Ingest
  BY DEF Ingest, Skip, Intend, SendEntry, ResolveEntry, RejectEntry, SaveEntry, SaveFill,
     EndIngest, At
<1>8. ~Crash
  BY DEF Crash, CrashCost, Cost, AccountKnown, ExitsAnswered
<1>9. CASE Start \/ SubmitCommand \/ Clock \/ UNCHANGED vars
  BY <1>9 DEF Start, SubmitCommand, Clock, brokerVars, engineVars, vars, At
<1>10. CASE Environment
  BY <1>10 DEF Environment, engineVars
<1> QED
  BY <1>1, <1>2, <1>3, <1>4, <1>5, <1>6, <1>7, <1>8, <1>9, <1>10 DEF Next, Tick

\* Who writes the row of a trade.
Writes(t) ==
  \/ ReconcileEntryFill(t) \/ ReconcileEntryDead(t) \/ ReconcileFlat(t) \/ ReconcileHeld(t)
  \/ SquareoffRow(t) /\ row[t].state = "PENDING_ENTRY"
  \/ Skip(t) \/ Intend(t)
  \/ job.t = t /\ (SaveStop \/ SaveExit \/ SaveFill)
  \/ job.t = t /\ (SaveCancel \/ RejectEntry \/ SaveEntry)

\* Nobody else does.
LEMMA OthersKeepRow ==
  ASSUME IInv, [Next]_vars, NEW t \in Trades, ~Writes(t)
  PROVE  row'[t] = row[t]
<1>0. row \in [Trades -> Row]
  BY DEF IInv, TypeOK
<1>1. CASE row' = row
  BY <1>1
<1>2. ASSUME NEW u \in Trades,
             \/ ReconcileEntryFill(u) \/ ReconcileEntryDead(u) \/ ReconcileFlat(u)
             \/ ReconcileHeld(u)
      PROVE  row'[t] = row[t]
  <2>1. u # t
    BY <1>2 DEF Writes
  <2> QED
    BY <1>0, <1>2, <2>1 DEF ReconcileEntryFill, ReconcileEntryDead, ReconcileFlat, ReconcileHeld
<1>3. ASSUME NEW u \in Trades, SquareoffRow(u)
      PROVE  row'[t] = row[t]
  BY <1>0, <1>3 DEF SquareoffRow, Writes
<1>4. ASSUME NEW u \in Trades, Skip(u) \/ Intend(u)
      PROVE  row'[t] = row[t]
  <2>1. u # t
    BY <1>4 DEF Writes
  <2> QED
    BY <1>0, <1>4, <2>1 DEF Skip, Intend
<1>5. CASE SaveStop \/ SaveExit \/ SaveCancel \/ RejectEntry \/ SaveEntry \/ SaveFill
  <2>1. job.t # t
    BY <1>5 DEF Writes
  <2> QED
    BY <1>0, <1>5, <2>1 DEF SaveStop, SaveExit, SaveCancel, RejectEntry, SaveEntry, SaveFill
<1>6. CASE Reconcile
  BY <1>1, <1>2, <1>6 DEF Reconcile, ReconcileWaits, EndReconcile
<1>7. CASE Protect \/ FlattenSteps
  BY <1>1, <1>5, <1>7 DEF Protect, PlaceStop, EndProtect, FlattenSteps, CancelStop,
     SendExit, SaveExitIllegal, engineVarsButJob
<1>8. CASE Squareoff
  BY <1>1, <1>3, <1>5, <1>8 DEF Squareoff, CancelEntry, EndSquareoff, engineVarsButJob
<1>9. CASE Ingest
  BY <1>1, <1>4, <1>5, <1>9 DEF Ingest, SendEntry, ResolveEntry, EndIngest, engineVarsButJob
<1>10. CASE TickStart \/ FetchBrokerTruth \/ Commands
  BY <1>1, <1>10 DEF TickStart, FetchBrokerTruth, Commands, ApplySwitch, ApplyClose, MarkClose,
     EndCommands
<1>11. CASE Crash \/ Start \/ SubmitCommand \/ Clock \/ Environment \/ UNCHANGED vars
  BY <1>1, <1>11 DEF Crash, Start, SubmitCommand, Clock, Environment, vars, engineVars
<1> QED
  BY <1>6, <1>7, <1>8, <1>9, <1>10, <1>11 DEF Next, Tick

\* Whoever writes a row leaves the account alone.
LEMMA WritesAlone ==
  ASSUME NEW t, Writes(t)
  PROVE  orders' = orders /\ net' = net /\ truth' = truth
BY DEF Writes, ReconcileEntryFill, ReconcileEntryDead, ReconcileFlat, ReconcileHeld,
   SquareoffRow, Skip, Intend, SaveStop, SaveExit, SaveCancel, RejectEntry, SaveEntry, SaveFill,
   brokerVars

\* A fill that is final leaves nothing working.
LEMMA FillEnds ==
  ASSUME BrokerTypeOK, OrdersMade, NEW i \in Ids, FillFinal(orders[i])
  PROVE  orders[i].filled > 0 /\ ~Working(i)
<1>1. WellMade(orders[i]) /\ orders[i].filled \in Nat /\ orders[i].qty \in Nat
  BY OrderFields DEF OrdersMade
<1> QED
  BY <1>1 DEF FillFinal, WellMade, Working, Dead

\* The same orders, the same orders of a trade.
LEMMA SameOuts ==
  ASSUME orders' = orders, NEW t
  PROVE  /\ \A k : OrdersOf(k, t)' = OrdersOf(k, t)
         /\ Outs(t)' = Outs(t)
         /\ \A i : Void(i)' = Void(i)
BY DEF Outs, OrdersOf, Ids, Void, Working

\* A trade that is no position and does not become one.
LEMMA StaysNotHeld ==
  ASSUME Standing, NEW t \in Trades, orders' = orders,
         row[t].state \notin Holding \cup {"CLOSED"}, row'[t].state \notin Holding \cup {"CLOSED"},
         row'[t].stop = row[t].stop, row'[t].exit = row[t].exit
  PROVE  TradeTrue(t)'
<1>1. TradeTrue(t)
  BY DEF Standing, AccountInv, TradesTrue
<1>2. Outs(t)' = {}
  BY <1>1, SameOuts DEF TradeTrue, NotHeld
<1>3. BoundIds(t)'
  BY <1>1, SameOuts DEF TradeTrue, BoundIds
<1>4. NotHeld(t)' /\ EntryDone(t)' /\ OneSeller(t)' /\ ClosedIs(t)'
  BY <1>2 DEF NotHeld, EntryDone, OneSeller, ClosedIs
<1>5. KeptIs(t)' /\ ExitIs(t)'
  BY DEF KeptIs, ExitIs, Kept, Holding
<1> QED
  BY <1>3, <1>4, <1>5 DEF TradeTrue

\* An entry becomes a position of what it bought.
LEMMA FillTrue ==
  ASSUME Standing, NEW t \in Trades, orders' = orders,
         row[t].state = "ENTRY_SUBMITTED", row'[t].state = "ENTERED",
         row'[t].entry = row[t].entry, row'[t].stop = row[t].stop, row'[t].exit = row[t].exit,
         row'[t].qty = orders[row[t].entry].filled,
         row[t].entry \in OrdersOf("entry", t), ~Working(row[t].entry),
         orders[row[t].entry].shown, orders[row[t].entry].filled > 0
  PROVE  TradeTrue(t)'
<1>1. TradeTrue(t)
  BY DEF Standing, AccountInv, TradesTrue
<1>2. Outs(t)' = {} /\ OrdersOf("exit", t)' = {} /\ OrdersOf("stop", t)' = {}
  BY <1>1, SameOuts DEF TradeTrue, NotHeld, Holding, Outs
<1>3. BoundIds(t)'
  BY <1>1, SameOuts DEF TradeTrue, BoundIds
<1>4. NotHeld(t)' /\ OneSeller(t)'
  BY <1>2 DEF NotHeld, OneSeller
<1>5. EntryDone(t)'
  BY SameOuts DEF EntryDone, Working
<1>6. KeptIs(t)'
  BY <1>2 DEF KeptIs
<1>7. ExitIs(t)' /\ ClosedIs(t)'
  BY DEF ExitIs, ClosedIs
<1> QED
  BY <1>3, <1>4, <1>5, <1>6, <1>7 DEF TradeTrue

\* What the type of the book a tick has read says of one order.
LEMMA BookFields ==
  ASSUME IInv, NEW i \in DOMAIN truth.book
  PROVE  /\ truth.book[i] \in Order
         /\ truth.book[i].filled \in Nat /\ truth.book[i].qty \in Nat
<1>1. truth.book \in Seq(Order)
  BY DEF IInv, TypeOK
<1>2. truth.book[i] \in Order
  BY <1>1
<1> QED
  BY <1>2 DEF Order

\* The book tells of a final fill: it is final.
LEMMA ReconcileEntryFillTrue ==
  ASSUME BrokerAssumption, Standing, NEW t \in Trades, ReconcileEntryFill(t)
  PROVE  TradeTrue(t)'
<1> DEFINE e == row[t].entry
<1>1. /\ row[t].state = "ENTRY_SUBMITTED" /\ Seen(truth.book, e) /\ FillFinal(truth.book[e])
      /\ row' = [row EXCEPT ![t] = FillApplied(row[t], truth.book[e])]
      /\ orders' = orders
  BY DEF ReconcileEntryFill, EntrySeen, brokerVars
<1>2. row \in [Trades -> Row] /\ row[t] \in Row /\ BrokerTypeOK /\ OrdersMade
  BY DEF Standing, IInv, TypeOK, AccountInv
<1>3. e \in OrdersOf("entry", t) /\ e \in DOMAIN truth.book /\ e \in Ids
  BY <1>1 DEF Standing, RefusedInv, EntryBound, Seen, OrdersOf
<1>4. /\ WellMade(truth.book[e]) /\ truth.book[e].qty = orders[e].qty
      /\ truth.book[e].filled <= orders[e].filled
      /\ truth.book[e].shown => orders[e].shown
      /\ truth.book[e].status # "OPEN" => /\ orders[e].status = truth.book[e].status
                                          /\ orders[e].filled = truth.book[e].filled
  BY <1>3 DEF Standing, AccountInv, BookBehind, RefusedInv, BookPast
<1>5. truth.book[e].filled \in Nat /\ truth.book[e].qty \in Nat
  BY <1>3, BookFields DEF Standing
<1>6. WellMade(orders[e]) /\ orders[e].filled \in Nat /\ orders[e].qty \in Nat
  BY <1>2, <1>3, OrderFields DEF OrdersMade
<1>7. truth.book[e].filled > 0 /\ orders[e].filled = truth.book[e].filled /\ ~Working(e)
  BY <1>1, <1>4, <1>5, <1>6 DEF FillFinal, WellMade, Working, Dead
<1>8. row'[t] = FillApplied(row[t], truth.book[e])
  BY <1>1, <1>2
<1>9. /\ row'[t].state = "ENTERED" /\ row'[t].entry = e /\ row'[t].qty = truth.book[e].filled
      /\ row'[t].stop = row[t].stop /\ row'[t].exit = row[t].exit
  BY <1>2, <1>8 DEF FillApplied, Row
<1>10. orders[e].shown
  BY <1>1, <1>4 DEF Seen
<1> QED
  BY <1>1, <1>3, <1>7, <1>9, <1>10, FillTrue

\* So does the reply to the entry.
LEMMA SaveFillTrue ==
  ASSUME Standing, NEW t, t = job.t, SaveFill
  PROVE  TradeTrue(t)'
<1> DEFINE e == job.id
<1>1. /\ job.at = "save_fill" /\ orders' = orders
      /\ row' = [row EXCEPT ![t] = FillApplied(row[t], orders[e])]
  BY DEF SaveFill, At, brokerVars
<1>2. t \in Trades
  BY <1>1, TradeInHand DEF OnRow, Standing
<1>3. row \in [Trades -> Row] /\ row[t] \in Row /\ BrokerTypeOK /\ OrdersMade
  BY <1>2 DEF Standing, IInv, TypeOK, AccountInv
<1>4. row[t].state = "ENTRY_SUBMITTED"
  BY <1>1 DEF Standing, IInv, JobInv, RowInHand
<1>5. /\ FillFinal(orders[e]) /\ orders[e].shown
      /\ row[t].entry = e /\ e \in OrdersOf("entry", t)
  BY <1>1 DEF Standing, AccountInv, HandTrue
<1>6. orders[e].filled > 0 /\ ~Working(e)
  BY <1>3, <1>5, FillEnds DEF OrdersOf
<1>7. /\ row'[t].state = "ENTERED" /\ row'[t].entry = row[t].entry
      /\ row'[t].qty = orders[e].filled
      /\ row'[t].stop = row[t].stop /\ row'[t].exit = row[t].exit
  BY <1>1, <1>2, <1>3 DEF FillApplied, Row
<1> QED
  BY <1>1, <1>2, <1>4, <1>5, <1>6, <1>7, FillTrue

\* While the loop reconciles no reply is in hand.
LEMMA NothingSaved ==
  ASSUME NEW t, job.at \notin {"save_stop", "save_exit"}
  PROVE  ~Saving("save_stop", t) /\ ~Saving("save_exit", t) /\ SaveKept(t)
BY DEF Saving, SaveKept

\* The order sheet shows a stop that still counts for something.
LEMMA StopSeen ==
  ASSUME Standing, NEW t \in Trades, NEW i \in OrdersOf("stop", t), ~Void(i),
         i \in DOMAIN truth.book
  PROVE  i \in LiveStops(t)
<1>1. /\ i \in Ids /\ orders[i].kind = "stop" /\ orders[i].trade = t
      /\ WellMade(orders[i]) /\ WellMade(truth.book[i])
      /\ truth.book[i].kind = orders[i].kind /\ truth.book[i].trade = orders[i].trade
      /\ truth.book[i].status # "OPEN" => orders[i].status = truth.book[i].status
  BY DEF OrdersOf, Standing, RefusedInv, BookPast, AccountInv, BookBehind, OrdersMade
<1>2. truth.book[i].status \notin Dead
  BY <1>1 DEF WellMade, Void, Working, Dead
<1>3. truth.book[i].shown
  BY <1>1 DEF WellMade
<1> QED
  BY <1>1, <1>2, <1>3 DEF LiveStops, Seen

\* A position found as large as it was bought stays what it was, or has lost
\* its stop.
LEMMA ReconcileHeldTrue ==
  ASSUME BrokerAssumption, Standing, NEW t \in Trades, ReconcileHeld(t)
  PROVE  TradeTrue(t)'
<1>1. /\ job.at = "reconcile" /\ t \in job.todo /\ row[t].state \in Holding /\ NetFor(t) # 0
      /\ row' = [row EXCEPT ![t] = Adopted(row[t], t)] /\ orders' = orders
      /\ job' = [job EXCEPT !.todo = @ \ {t}]
  BY DEF ReconcileHeld, Reconciling, At, brokerVars
<1>2. /\ row \in [Trades -> Row] /\ row[t] \in Row /\ BrokerTypeOK /\ job \in Job
      /\ job.step = "reconcile"
  BY <1>1 DEF Standing, IInv, TypeOK, JobInv, JobCoherent, LoopSteps
<1>3. TradeTrue(t) /\ Reconciled(t)
  BY <1>1, <1>2 DEF Standing, AccountInv, TradesTrue, TruthTells
<1>4. row'[t] = Adopted(row[t], t)
  BY <1>1, <1>2
<1>5. /\ row'[t].entry = row[t].entry /\ row'[t].exit = row[t].exit /\ row'[t].why = row[t].why
      /\ row'[t].qty = NetFor(t)
      /\ \/ row'[t].state = row[t].state /\ row'[t].stop = row[t].stop
         \/ /\ row[t].state \in StopExpected /\ StopFor(t) = 0
            /\ row'[t].state = "ENTERED" /\ row'[t].stop = 0
  <2>1. CASE row[t].state \notin StopExpected
    BY <1>2, <1>4, <2>1 DEF Adopted, Row
  <2>2. CASE row[t].state \in StopExpected /\ StopFor(t) = 0
    BY <1>2, <1>4, <2>2 DEF Adopted, Row
  <2>3. CASE row[t].state \in StopExpected /\ StopFor(t) # 0
    BY <1>2, <1>4, <2>3 DEF Adopted, Row
  <2> QED
    BY <2>1, <2>2, <2>3
<1>6. /\ \A k : OrdersOf(k, t)' = OrdersOf(k, t)
      /\ Outs(t)' = Outs(t)
      /\ \A i : Void(i)' = Void(i)
  BY <1>1, SameOuts
<1>7. ~Saving("save_stop", t) /\ ~Saving("save_exit", t)
  BY <1>1, NothingSaved
<1>8. row'[t].state \in Holding /\ (row'[t].state \in Kept <=> row[t].state \in Kept)
  BY <1>1, <1>5 DEF StopExpected, Kept, Holding
<1>9. row[t].state \in StopExpected /\ StopFor(t) = 0 => StopsVoid(t)
  <2> SUFFICES ASSUME row[t].state \in StopExpected, StopFor(t) = 0,
                      NEW i \in OrdersOf("stop", t), ~Void(i)
               PROVE  FALSE
    BY DEF StopsVoid
  <2>1. row[t].state \in Kept
    BY DEF Kept, StopExpected
  <2>2. i = row[t].stop
    BY <1>3, <1>7, <2>1 DEF TradeTrue, KeptIs
  <2>3. i # 0
    BY <1>2 DEF OrdersOf, Ids, BrokerTypeOK
  <2>4. i \in DOMAIN truth.book
    BY <1>1, <1>3, <2>2, <2>3 DEF Reconciled
  <2>5. i \in LiveStops(t)
    BY <2>4, StopSeen
  <2> QED
    BY <2>2, <2>3, <2>5 DEF StopFor
<1>10. NotHeld(t)' /\ EntryDone(t)' /\ OneSeller(t)'
  BY <1>1, <1>3, <1>5, <1>6, <1>8 DEF TradeTrue, NotHeld, EntryDone, OneSeller, Working
<1>11. KeptIs(t)'
  <2> SUFFICES ASSUME row'[t].state \in Kept
               PROVE  KeptIs(t)'
    BY DEF KeptIs
  <2>1. row'[t].qty = orders'[row'[t].entry].filled
    BY <1>1, <1>3, <1>5, <1>8 DEF Reconciled
  <2>2. OrdersOf("exit", t)' = {}
    BY <1>3, <1>6, <1>7, <1>8 DEF TradeTrue, KeptIs
  <2>3. \A i \in OrdersOf("stop", t) : ~Void(i) => row'[t].state # "ENTERED" /\ i = row'[t].stop
    BY <1>3, <1>5, <1>7, <1>8, <1>9 DEF TradeTrue, KeptIs, StopsVoid
  <2> QED
    BY <1>6, <2>1, <2>2, <2>3 DEF KeptIs
<1>12. ExitIs(t)'
  BY <1>3, <1>5, <1>6 DEF TradeTrue, ExitIs, StopsVoid
<1>13. ClosedIs(t)'
  BY <1>8 DEF ClosedIs, Holding
<1>14. BoundIds(t)'
  BY <1>3, <1>5, <1>6 DEF TradeTrue, BoundIds
<1> QED
  BY <1>10, <1>11, <1>12, <1>13, <1>14 DEF TradeTrue

\* A stop is written to its row.
LEMMA SaveStopTrue ==
  ASSUME Standing, NEW t, t = job.t, SaveStop
  PROVE  TradeTrue(t)'
<1>1. job.at = "save_stop" /\ orders' = orders /\ job' = Resume(job)
  BY DEF SaveStop, At, brokerVars
<1>2. t \in Trades
  BY <1>1, TradeInHand DEF OnRow, Standing
<1>3. row \in [Trades -> Row] /\ row[t] \in Row
  BY <1>2 DEF Standing, IInv, TypeOK
<1>4. TradeTrue(t) /\ row[t].state = "ENTERED"
  BY <1>1, <1>2 DEF Standing, AccountInv, TradesTrue, IInv, JobInv, RowInHand
<1>5. job.id \in OrdersOf("stop", t) /\ (job.got # "confirmed" => Void(job.id))
  BY <1>1 DEF Standing, AccountInv, HandTrue
<1>6. /\ row'[t].stop = job.id
      /\ row'[t].state = IF job.got = "confirmed" THEN "PROTECTED" ELSE "ENTERED"
      /\ row'[t].entry = row[t].entry /\ row'[t].exit = row[t].exit /\ row'[t].qty = row[t].qty
  BY <1>2, <1>3, <1>4 DEF SaveStop, Row
<1>7. /\ \A k : OrdersOf(k, t)' = OrdersOf(k, t)
      /\ Outs(t)' = Outs(t)
      /\ \A i : Void(i)' = Void(i)
  BY <1>1, SameOuts
<1>8. ~Saving("save_exit", t)
  BY <1>1 DEF Saving
<1>9. row[t].state \in Kept /\ row'[t].state \in Kept /\ row'[t].state \in Holding
  BY <1>4, <1>6 DEF Kept, Holding
<1>10. NotHeld(t)' /\ EntryDone(t)' /\ OneSeller(t)'
  BY <1>1, <1>4, <1>6, <1>7, <1>9 DEF TradeTrue, NotHeld, EntryDone, OneSeller, Working, Kept, Holding
<1>11. KeptIs(t)'
  <2>1. row'[t].qty = orders'[row'[t].entry].filled
    BY <1>1, <1>4, <1>6, <1>9 DEF TradeTrue, KeptIs
  <2>2. OrdersOf("exit", t)' = {}
    BY <1>4, <1>7, <1>8, <1>9 DEF TradeTrue, KeptIs
  <2>3. \A i \in OrdersOf("stop", t) : ~Void(i) => i = job.id
    BY <1>4, <1>9 DEF TradeTrue, KeptIs
  <2>4. \A i \in OrdersOf("stop", t) : ~Void(i) => row'[t].state # "ENTERED" /\ i = row'[t].stop
    BY <1>5, <1>6, <2>3
  <2> QED
    BY <1>7, <2>1, <2>2, <2>4 DEF KeptIs
<1>12. ExitIs(t)' /\ ClosedIs(t)'
  BY <1>6 DEF ExitIs, ClosedIs
<1>13. BoundIds(t)'
  BY <1>4, <1>5, <1>6, <1>7 DEF TradeTrue, BoundIds
<1> QED
  BY <1>10, <1>11, <1>12, <1>13 DEF TradeTrue

\* An exit is written to its row.
LEMMA SaveExitTrue ==
  ASSUME Standing, NEW t, t = job.t, SaveExit
  PROVE  TradeTrue(t)'
<1>1. job.at = "save_exit" /\ orders' = orders /\ row[t].state \in Holding
  BY DEF SaveExit, At, brokerVars
<1>2. t \in Trades
  BY <1>1, TradeInHand DEF OnRow, OnFlatten, Standing
<1>3. row \in [Trades -> Row] /\ row[t] \in Row
  BY <1>2 DEF Standing, IInv, TypeOK
<1>4. TradeTrue(t)
  BY <1>2 DEF Standing, AccountInv, TradesTrue
<1>5. job.id \in OrdersOf("exit", t) /\ StopsVoid(t) /\ job.why \in ActiveReasons
  BY <1>1 DEF Standing, AccountInv, HandTrue, OnFlatten
<1>6. /\ row'[t].exit = job.id /\ row'[t].stop = 0 /\ row'[t].why = job.why
      /\ row'[t].state = "EXIT_SUBMITTED" /\ row'[t].entry = row[t].entry
  BY <1>2, <1>3 DEF SaveExit, Row
<1>7. /\ \A k : OrdersOf(k, t)' = OrdersOf(k, t)
      /\ Outs(t)' = Outs(t)
      /\ \A i : Void(i)' = Void(i)
  BY <1>1, SameOuts
<1>8. NotHeld(t)' /\ EntryDone(t)' /\ OneSeller(t)'
  BY <1>1, <1>4, <1>6, <1>7 DEF TradeTrue, NotHeld, EntryDone, OneSeller, Working, Holding
<1>9. KeptIs(t)' /\ ClosedIs(t)'
  BY <1>6 DEF KeptIs, ClosedIs, Kept
<1>10. ExitIs(t)' /\ BoundIds(t)'
  BY <1>4, <1>5, <1>6, <1>7 DEF TradeTrue, BoundIds, ExitIs, StopsVoid
<1> QED
  BY <1>8, <1>9, <1>10 DEF TradeTrue

\* A position nothing sells gets the one order that does.
LEMMA NewSeller ==
  ASSUME BrokerAssumption, Standing, NEW t \in Trades, NEW k \in {"stop", "exit"},
         row' = row, row[t].state \in Kept, row[t].qty = orders[row[t].entry].filled,
         \A i \in Outs(t) : Void(i),
         Grows, NEW o, Asked(o, k, t, row[t].qty), Brings(o),
         IF k = "stop" THEN Saving("save_stop", t)' /\ job'.id = Len(orders) + 1
                            /\ OrdersOf("exit", t) = {}
                       ELSE Saving("save_exit", t)'
  PROVE  TradeTrue(t)'
<1> DEFINE n == Len(orders) + 1
<1>1. /\ TradeTrue(t) /\ o.kind = k /\ o.trade = t /\ o.qty = row[t].qty
      /\ AddsOrder(o) /\ orders'[n] = o
  BY DEF Standing, AccountInv, TradesTrue, Asked, Brings, AddsOrder
<1>2. /\ OrdersOf(k, t)' = OrdersOf(k, t) \cup {n}
      /\ \A l : l # k => OrdersOf(l, t)' = OrdersOf(l, t)
  BY <1>1, OneMore
<1>3. Outs(t)' = Outs(t) \cup {n}
  BY <1>2 DEF Outs
<1>4. \A i \in Outs(t) : Void(i)'
  <2>1. \A i \in Outs(t) : i \in Ids
    BY DEF Outs, OrdersOf
  <2> QED
    BY <1>1, <2>1 DEF Void, Working, AddsOrder
<1>5. /\ row[t].entry \in OrdersOf("entry", t)' /\ row[t].entry \in Ids
      /\ orders'[row[t].entry] = orders[row[t].entry]
      /\ ~Working(row[t].entry) /\ orders[row[t].entry].shown
      /\ orders[row[t].entry].filled > 0
  <2>1. row[t].state \in Holding \cup {"CLOSED"}
    BY DEF Kept, Holding
  <2> QED
    BY <1>1, <1>2, <2>1, Bought DEF AddsOrder
<1>6. NotHeld(t)' /\ ExitIs(t)' /\ ClosedIs(t)'
  BY DEF NotHeld, ExitIs, ClosedIs, Kept, Holding
<1>7. EntryDone(t)'
  BY <1>5 DEF EntryDone, Working
<1>8. OneSeller(t)'
  BY <1>1, <1>3, <1>4, <1>5 DEF OneSeller
<1>9. KeptIs(t)'
  <2>1. \A i \in OrdersOf("stop", t)' : ~Void(i)' => k = "stop" /\ i = n
    BY <1>2, <1>4 DEF Outs
  <2>2. OrdersOf("exit", t)' # {} => Saving("save_exit", t)'
    BY <1>2
  <2>3. row'[t].qty = orders'[row'[t].entry].filled
    BY <1>5
  <2> QED
    BY <2>1, <2>2, <2>3 DEF KeptIs
<1>10. BoundIds(t)'
  BY <1>1, <1>2 DEF TradeTrue, BoundIds
<1> QED
  BY <1>6, <1>7, <1>8, <1>9, <1>10 DEF TradeTrue

\* A stop is placed,
LEMMA PlaceStopTrue ==
  ASSUME BrokerAssumption, AccountKnown, Standing, [Next]_vars, NEW t \in Trades, PlaceStop(t)
  PROVE  TradeTrue(t)'
<1>1. /\ row' = row /\ row[t].state = "ENTERED" /\ job.at \in {"protect", "place_stop"} /\ Grows
      /\ \/ orders' = orders /\ net' = net /\ job'.at \in LoopSteps
         \/ /\ \E o : Asked(o, "stop", t, row[t].qty) /\ Brings(o)
            /\ job'.at = "save_stop" /\ job'.t = t /\ job'.id = Len(orders) + 1
  BY PlaceStopLeaves
<1>2. TradeTrue(t) /\ ~Saving("save_stop", t) /\ ~Saving("save_exit", t) /\ SaveKept(t)
  BY <1>1, NothingSaved DEF Standing, AccountInv, TradesTrue
<1>3. row[t].state \in Kept
  BY <1>1 DEF Kept
<1>4. row[t].qty = orders[row[t].entry].filled /\ OrdersOf("exit", t) = {}
  BY <1>2, <1>3 DEF TradeTrue, KeptIs
<1>5. \A i \in Outs(t) : Void(i)
  BY <1>1, <1>2, <1>3, <1>4 DEF TradeTrue, KeptIs, Outs
<1>6. CASE orders' = orders
  BY <1>1, <1>2, <1>6, SameOuts, TradeKept
<1>7. ASSUME NEW o, Asked(o, "stop", t, row[t].qty), Brings(o),
             job'.at = "save_stop", job'.t = t, job'.id = Len(orders) + 1
      PROVE  TradeTrue(t)'
  <2>1. Saving("save_stop", t)'
    BY <1>7 DEF Saving
  <2>2. "stop" \in {"stop", "exit"}
    OBVIOUS
  <2> QED
    BY <1>1, <1>3, <1>4, <1>5, <1>7, <2>1, <2>2, NewSeller
<1> QED
  BY <1>1, <1>6, <1>7

\* or an exit sent.
LEMMA SendExitTrue ==
  ASSUME BrokerAssumption, AccountKnown, Standing, [Next]_vars, NEW t, t = job.t, SendExit
  PROVE  TradeTrue(t)'
<1>1. /\ t \in Trades /\ row' = row /\ job.at = "send_exit" /\ StopsVoid(t) /\ Grows
      /\ \/ orders' = orders
         \/ /\ row[t].state \in Kept /\ row[t].qty = orders[row[t].entry].filled
            /\ OrdersOf("exit", t) = {}
            /\ \E o : Asked(o, "exit", t, row[t].qty) /\ Brings(o)
            /\ job'.at = "save_exit" /\ job'.t = t
  BY SendExitLeaves
<1>2. SaveKept(t)
  BY <1>1, NothingSaved
<1>3. CASE orders' = orders
  BY <1>1, <1>2, <1>3, SameOuts, TradeKept
<1>4. ASSUME NEW o, Asked(o, "exit", t, row[t].qty), Brings(o), OrdersOf("exit", t) = {},
             row[t].state \in Kept, row[t].qty = orders[row[t].entry].filled,
             job'.at = "save_exit", job'.t = t
      PROVE  TradeTrue(t)'
  <2>1. Saving("save_exit", t)'
    BY <1>4 DEF Saving
  <2>2. \A i \in Outs(t) : Void(i)
    BY <1>1, <1>4 DEF Outs, StopsVoid
  <2>3. "exit" \in {"stop", "exit"} /\ "exit" # "stop"
    OBVIOUS
  <2> QED
    BY <1>1, <1>4, <2>1, <2>2, <2>3, NewSeller
<1> QED
  BY <1>1, <1>3, <1>4

-----------------------------------------------------------------------------
(* Sums with one term.  MapThenSumSet adds up recursively, one element after  *)
(* the other; where all but one of them contribute nothing, what it computes  *)
(* can be written down, and there is no second solution of its equation.      *)

Pick(s) == CHOOSE x \in s : TRUE

\* it[s] is the sum of v over s, for every subset s of S.
SumsUp(it, v, S) ==
  it = [s \in SUBSET S |-> IF s = {} THEN 0 ELSE v[Pick(s)] + it[s \ {Pick(s)}]]

\* What it is if i alone contributes.
OneOf(v, S, i) == [s \in SUBSET S |-> IF i \in s THEN v[i] ELSE 0]

\* That is a solution,
LEMMA OneOfSums ==
  ASSUME NEW S, NEW i, NEW v \in [S -> Nat], \A x \in S \ {i} : v[x] = 0
  PROVE  SumsUp(OneOf(v, S, i), v, S)
<1> DEFINE it == OneOf(v, S, i)
<1>1. ASSUME NEW s \in SUBSET S
      PROVE  it[s] = IF s = {} THEN 0 ELSE v[Pick(s)] + it[s \ {Pick(s)}]
  <2>1. CASE s = {}
    BY <2>1 DEF OneOf
  <2>2. CASE s # {}
    <3>1. Pick(s) \in s
      BY <2>2 DEF Pick
    <3>2. PICK x : x = Pick(s)
      OBVIOUS
    <3>3. x \in s /\ x \in S /\ v[x] \in Nat /\ s \ {x} \in SUBSET S
      BY <3>1, <3>2
    <3>4. it[s] = IF i \in s THEN v[i] ELSE 0
      BY DEF OneOf
    <3>5. it[s \ {x}] = IF i \in s \ {x} THEN v[i] ELSE 0
      BY <3>3 DEF OneOf
    <3> HIDE DEF it
    <3>6. i \in s => v[i] \in Nat
      OBVIOUS
    <3>7. it[s] = v[x] + it[s \ {x}]
      BY <3>3, <3>4, <3>5, <3>6
    <3> QED
      BY <2>2, <3>2, <3>7
  <2> QED
    BY <2>1, <2>2
<1>2. it = [s \in SUBSET S |-> it[s]]
  BY DEF OneOf
<1> HIDE DEF it
<1>3. [s \in SUBSET S |-> it[s]]
        = [s \in SUBSET S |-> IF s = {} THEN 0 ELSE v[Pick(s)] + it[s \ {Pick(s)}]]
  BY <1>1, Zenon
<1> QED
  BY <1>2, <1>3 DEF SumsUp, it

\* and the only one: two would differ first on some smallest set.
LEMMA SumsUpOnce ==
  ASSUME NEW S, IsFiniteSet(S), NEW v, NEW f, NEW g, SumsUp(f, v, S), SumsUp(g, v, S)
  PROVE  f = g
<1> DEFINE Differ == {n \in Nat : \E s \in SUBSET S : f[s] # g[s] /\ Cardinality(s) = n}
<1>1. \A s \in SUBSET S :
        /\ f[s] = IF s = {} THEN 0 ELSE v[Pick(s)] + f[s \ {Pick(s)}]
        /\ g[s] = IF s = {} THEN 0 ELSE v[Pick(s)] + g[s \ {Pick(s)}]
  BY DEF SumsUp
<1>2. Differ = {}
  <2> SUFFICES ASSUME Differ # {}
               PROVE  FALSE
    OBVIOUS
  <2>1. IsWellFoundedOn(OpToRel(<, Nat), Nat)
    BY NatLessThanWellFounded
  <2>2. Differ \subseteq Nat
    OBVIOUS
  <2> HIDE DEF Differ
  <2>3. PICK n \in Differ : \A m \in Differ : ~(<<m, n>> \in OpToRel(<, Nat))
    BY <2>1, <2>2, WFMin, Zenon
  <2>4. PICK s \in SUBSET S : f[s] # g[s] /\ Cardinality(s) = n
    BY <2>3 DEF Differ
  <2>5. s # {}
    BY <1>1, <2>4
  <2>6. PICK x : x = Pick(s) /\ x \in s
    BY <2>5 DEF Pick
  <2>7. f[s \ {x}] # g[s \ {x}]
    BY <1>1, <2>4, <2>5, <2>6
  <2>8. IsFiniteSet(s)
    BY FS_Subset
  <2>9. Cardinality(s \ {x}) = Cardinality(s) - 1 /\ IsFiniteSet(s \ {x})
    BY <2>6, <2>8, FS_RemoveElement
  <2>10. Cardinality(s \ {x}) \in Nat /\ n \in Nat
    BY <2>2, <2>9, FS_CardinalityType
  <2>11. n - 1 \in Differ /\ n - 1 < n
    BY <2>4, <2>7, <2>9, <2>10 DEF Differ
  <2>12. <<n - 1, n>> \in OpToRel(<, Nat)
    BY <2>2, <2>10, <2>11 DEF OpToRel
  <2> QED
    BY <2>3, <2>11, <2>12
<1>3. \A s \in SUBSET S : f[s] = g[s]
  <2> SUFFICES ASSUME NEW s \in SUBSET S
               PROVE  f[s] = g[s]
    OBVIOUS
  <2>1. Cardinality(s) \in Nat
    BY FS_Subset, FS_CardinalityType
  <2> QED
    BY <1>2, <2>1
<1>4. f = [s \in SUBSET S |-> f[s]] /\ g = [s \in SUBSET S |-> g[s]]
  BY DEF SumsUp
<1>5. [s \in SUBSET S |-> f[s]] = [s \in SUBSET S |-> g[s]]
  BY <1>3, Zenon
<1> QED
  BY <1>4, <1>5, Zenon

\* So the sum is the one term.
LEMMA SumOfOne ==
  ASSUME NEW S, IsFiniteSet(S), NEW i, NEW v \in [S -> Nat], \A x \in S \ {i} : v[x] = 0
  PROVE  (CHOOSE it : SumsUp(it, v, S))[S] = IF i \in S THEN v[i] ELSE 0
<1>1. SumsUp(OneOf(v, S, i), v, S)
  BY OneOfSums
<1>2. SumsUp(CHOOSE it : SumsUp(it, v, S), v, S)
  BY <1>1
<1>3. (CHOOSE it : SumsUp(it, v, S)) = OneOf(v, S, i)
  BY <1>1, <1>2, SumsUpOnce
<1>4. OneOf(v, S, i)[S] = IF i \in S THEN v[i] ELSE 0
  BY DEF OneOf
<1> QED
  BY <1>3, <1>4

\* The shares that orders filled, if one of them filled any.
LEMMA FilledSum ==
  ASSUME NEW book, NEW S, IsFiniteSet(S), NEW i,
         \A x \in S : book[x].filled \in Nat,
         \A x \in S \ {i} : book[x].filled = 0
  PROVE  FilledOf(book, S) = IF i \in S THEN book[i].filled ELSE 0
<1> DEFINE v == [x \in S |-> book[x].filled]
           Adds1(it, s) == IF s = {} THEN 0
                           ELSE LET x == CHOOSE x \in s : TRUE IN book[x].filled + it[s \ {x}]
           E(it) == it = [s \in SUBSET S |-> Adds1(it, s)]
<1>1. v \in [S -> Nat] /\ (\A x \in S \ {i} : v[x] = 0) /\ (i \in S => v[i] = book[i].filled)
  OBVIOUS
<1>2. ASSUME NEW it
      PROVE  E(it) <=> SumsUp(it, v, S)
  <2>1. ASSUME NEW s \in SUBSET S
        PROVE  Adds1(it, s) = IF s = {} THEN 0 ELSE v[Pick(s)] + it[s \ {Pick(s)}]
    <3>1. s # {} => Pick(s) \in S
      BY DEF Pick
    <3> QED
      BY <3>1 DEF Pick
  <2> HIDE DEF v, Adds1
  <2>2. [s \in SUBSET S |-> Adds1(it, s)]
          = [s \in SUBSET S |-> IF s = {} THEN 0 ELSE v[Pick(s)] + it[s \ {Pick(s)}]]
    BY <2>1, Zenon
  <2> QED
    BY <2>2, Zenon DEF SumsUp
<1>3. FilledOf(book, S) = (CHOOSE it : E(it))[S]
  BY DEF FilledOf, MapThenSumSet, MapThenFoldSet
<1>4. (CHOOSE it : E(it)) = (CHOOSE it : SumsUp(it, v, S))
  <2> HIDE DEF E
  <2> QED
    BY <1>2, Zenon
<1> HIDE DEF E, v
<1>5. (CHOOSE it : SumsUp(it, v, S))[S] = IF i \in S THEN v[i] ELSE 0
  BY <1>1, SumOfOne
<1> QED
  BY <1>1, <1>3, <1>4, <1>5

-----------------------------------------------------------------------------
(* What is true of every trade stays so. *)

\* The least of one number.
LEMMA MinOfOne ==
  ASSUME NEW n \in Nat
  PROVE  Min({n}) = n
<1>1. Min({n}) \in {n}
  BY MinOfNats
<1> QED
  BY <1>1

\* A single exit is booked if it and the entry filled anything.
LEMMA TakesAll ==
  ASSUME NEW book, NEW x \in Nat, NEW size \in Nat, size > 0,
         book[x].filled \in Nat, book[x].filled > 0
  PROVE  Take(book, {x}, size, x) > 0
<1>1. {j \in {x} : j < x} = {}
  OBVIOUS
<1>2. FilledOf(book, {}) = 0
  <2>1. IsFiniteSet({})
    BY FS_EmptySet
  <2> QED
    BY <2>1, FilledSum
<1>3. Take(book, {x}, size, x) = Min({book[x].filled, Max({0, size - 0})})
  BY <1>1, <1>2 DEF Take
<1>4. Max({0, size}) = size
  BY DEF Max
<1>5. Take(book, {x}, size, x) = Min({book[x].filled, size})
  BY <1>3, <1>4
<1>6. Min({book[x].filled, size}) \in {book[x].filled, size}
  BY MinOfNats
<1> QED
  BY <1>5, <1>6

\* Flat at the broker: what sold the trade is found, and all there is to find.
LEMMA FlatExits ==
  ASSUME BrokerAssumption, Standing, NEW t \in Trades, ReconcileFlat(t)
  PROVE  \E x \in Outs(t) :
           /\ Exits(t) = {x} /\ x \in DOMAIN truth.book /\ x \in Ids
           /\ orders[x].filled = orders[row[t].entry].filled
           /\ truth.book[x].filled > 0
<1>1. job.at = "reconcile" /\ t \in job.todo /\ row[t].state \in Holding /\ NetFor(t) = 0
  BY DEF ReconcileFlat, Reconciling, At
<1>2. BrokerTypeOK /\ job.step = "reconcile"
  BY <1>1 DEF Standing, IInv, TypeOK, JobInv, JobCoherent, LoopSteps
<1>3. TradeTrue(t) /\ Reconciled(t)
  BY <1>1, <1>2 DEF Standing, AccountInv, TradesTrue, TruthTells
<1>4. PICK x \in Outs(t) :
        /\ orders[x].filled = orders[row[t].entry].filled
        /\ x \in DOMAIN truth.book /\ truth.book[x].filled = orders[x].filled
  BY <1>1, <1>3 DEF Reconciled
<1>5. orders[row[t].entry].filled \in Nat /\ orders[row[t].entry].filled > 0
  BY <1>1, Bought
<1>6. ASSUME NEW y \in DOMAIN truth.book
      PROVE  /\ y \in Ids /\ WellMade(truth.book[y])
             /\ truth.book[y].kind = orders[y].kind /\ truth.book[y].trade = orders[y].trade
             /\ truth.book[y].filled \in Nat /\ orders[y].filled \in Nat
             /\ truth.book[y].filled <= orders[y].filled
  BY <1>2, BookFields, OrderFields DEF Standing, AccountInv, BookBehind, RefusedInv, BookPast
<1>7. x \in Ids /\ ~Void(x) /\ truth.book[x].filled > 0
  BY <1>4, <1>5 DEF Void, Outs, OrdersOf
<1>8. DirOf[t] # -DirOf[t]
  BY DEF BrokerAssumption
<1>9. ASSUME NEW y \in Exits(t)
      PROVE  y = x
  <2>1. /\ y \in DOMAIN truth.book /\ truth.book[y].side = -DirOf[t] /\ truth.book[y].filled > 0
        /\ truth.book[y].trade = t \/ truth.book[y].trade = NoTrade
    BY DEF Exits, TradeExits, ExitSide, Seen
  <2>2. truth.book[y].trade = t
    BY <1>6, <2>1 DEF WellMade, BrokerAssumption
  <2>3. truth.book[y].kind # "entry"
    BY <1>6, <1>8, <2>1, <2>2 DEF WellMade, Side
  <2>4. y \in Outs(t)
    BY <1>6, <2>1, <2>2, <2>3 DEF WellMade, OwnKinds, Outs, OrdersOf
  <2>5. ~Void(y)
    BY <1>6, <2>1 DEF Void
  <2> QED
    BY <1>3, <1>7, <2>4, <2>5 DEF TradeTrue, OneSeller
<1>10. x \in Exits(t)
  <2>1. orders[x].trade = t /\ orders[x].kind \in {"stop", "exit"}
    BY DEF Outs, OrdersOf
  <2>2. WellMade(truth.book[x]) /\ truth.book[x].kind # "entry" /\ truth.book[x].trade = t
    BY <1>4, <1>6, <2>1
  <2>3. /\ truth.book[x].shown /\ truth.book[x].sym = SymbolOf[t]
        /\ truth.book[x].side = -DirOf[t]
    BY <2>2 DEF WellMade, Side
  <2> QED
    BY <1>4, <1>7, <2>2, <2>3 DEF Exits, TradeExits, ExitSide, Seen
<1> QED
  BY <1>4, <1>7, <1>9, <1>10

\* So it is booked with it, under the reason it was sold for.
LEMMA ReconcileFlatTrue ==
  ASSUME BrokerAssumption, Standing, NEW t \in Trades, ReconcileFlat(t)
  PROVE  TradeTrue(t)'
<1>1. /\ job.at = "reconcile" /\ t \in job.todo /\ row[t].state \in Holding /\ NetFor(t) = 0
      /\ row' = [row EXCEPT ![t] = Finalized(row[t], t)] /\ orders' = orders
  BY DEF ReconcileFlat, Reconciling, At, brokerVars
<1>2. /\ row \in [Trades -> Row] /\ row[t] \in Row /\ BrokerTypeOK
      /\ job.step = "reconcile"
  BY <1>1 DEF Standing, IInv, TypeOK, JobInv, JobCoherent, LoopSteps
<1>3. TradeTrue(t) /\ Reconciled(t)
  BY <1>1, <1>2 DEF Standing, AccountInv, TradesTrue, TruthTells
<1>4. PICK x \in Outs(t) :
        /\ Exits(t) = {x} /\ x \in DOMAIN truth.book /\ x \in Ids
        /\ orders[x].filled = orders[row[t].entry].filled
        /\ truth.book[x].filled > 0
  BY FlatExits
<1>5. /\ row'[t] = Finalized(row[t], t)
      /\ row'[t].state = "CLOSED" /\ row'[t].entry = row[t].entry
      /\ row'[t].stop = row[t].stop /\ row'[t].exit = row[t].exit
      /\ row'[t].closing = ClosingOrder({x})
      /\ row'[t].exits = Booked(truth.book, {x}, row[t].entry)
      /\ row'[t].reason = Attribute(truth.book, t, row[t], ClosingOrder({x}))
  BY <1>1, <1>2, <1>4 DEF Finalized, Row
<1>6. x \in Nat /\ x # 0
  BY <1>2, <1>4 DEF Ids, BrokerTypeOK
<1>7. ClosingOrder({x}) = x
  BY <1>6, MinOfOne DEF ClosingOrder
<1>8. Booked(truth.book, {x}, row[t].entry) = {x}
  <2>1. Seen(truth.book, row[t].entry) /\ truth.book[row[t].entry].filled > 0
    BY <1>1, <1>3 DEF Reconciled
  <2>2. truth.book[row[t].entry].filled \in Nat /\ truth.book[x].filled \in Nat
    BY <1>4, <2>1, BookFields DEF Standing, Seen
  <2>3. Take(truth.book, {x}, truth.book[row[t].entry].filled, x) > 0
    BY <1>4, <1>6, <2>1, <2>2, TakesAll
  <2> QED
    BY <2>1, <2>3 DEF Booked
<1>9. /\ orders[x].trade = t /\ orders[x].kind \in {"stop", "exit"}
      /\ truth.book[x].trade = t /\ truth.book[x].kind = orders[x].kind
  BY <1>4 DEF Outs, OrdersOf, Standing, RefusedInv, BookPast
<1>10. orders[x].kind = "exit" => row[t].why \in ActiveReasons
  <2> SUFFICES ASSUME orders[x].kind = "exit"
               PROVE  row[t].why \in ActiveReasons
    OBVIOUS
  <2>1. x \in OrdersOf("exit", t)
    BY <1>4, <1>9 DEF OrdersOf
  <2>2. ~Saving("save_exit", t)
    BY <1>1 DEF Saving
  <2>3. row[t].state \notin Kept
    BY <1>3, <2>1, <2>2 DEF TradeTrue, KeptIs
  <2>4. row[t].state = "EXIT_SUBMITTED"
    BY <1>1, <2>3 DEF Holding, Kept
  <2> QED
    BY <1>3, <2>4 DEF TradeTrue, ExitIs
<1>11. row[t].stop = x => orders[x].kind = "stop"
  BY <1>3, <1>6 DEF TradeTrue, BoundIds, OrdersOf
<1>12. row[t].exit = x => orders[x].kind = "exit"
  BY <1>3, <1>6 DEF TradeTrue, BoundIds, OrdersOf
<1>13. IF orders[x].kind = "stop" THEN row'[t].reason = "STOP_HIT"
                                  ELSE row'[t].reason \in ActiveReasons
  <2>1. "NONE" \notin ActiveReasons
    BY DEF ActiveReasons
  <2>2. row'[t].reason = Attribute(truth.book, t, row[t], x)
    BY <1>5, <1>7
  <2>3. CASE orders[x].kind = "stop"
    <3>1. row[t].exit # x
      BY <1>12, <2>3
    <3>2. Attribute(truth.book, t, row[t], x) = "STOP_HIT"
      BY <1>6, <1>9, <2>3, <3>1 DEF Attribute
    <3> QED
      BY <2>2, <2>3, <3>2
  <2>4. CASE orders[x].kind = "exit"
    <3>1. row[t].stop # x /\ row[t].why \in ActiveReasons /\ row[t].why # "NONE"
      BY <1>10, <1>11, <2>1, <2>4
    <3>2. Attribute(truth.book, t, row[t], x) = row[t].why
      BY <1>6, <1>9, <2>4, <3>1 DEF Attribute
    <3> QED
      BY <2>2, <2>4, <3>1, <3>2
  <2> QED
    BY <1>9, <2>3, <2>4
<1>14. /\ \A k : OrdersOf(k, t)' = OrdersOf(k, t)
       /\ Outs(t)' = Outs(t)
       /\ \A i : Void(i)' = Void(i)
  BY <1>1, SameOuts
<1>15. NotHeld(t)' /\ EntryDone(t)' /\ OneSeller(t)'
  BY <1>1, <1>3, <1>5, <1>14 DEF TradeTrue, NotHeld, EntryDone, OneSeller, Working
<1>16. KeptIs(t)' /\ ExitIs(t)'
  BY <1>5 DEF KeptIs, ExitIs, Kept
<1>17. ClosedIs(t)'
  BY <1>1, <1>4, <1>5, <1>7, <1>8, <1>13, <1>14 DEF ClosedIs
<1>18. BoundIds(t)'
  BY <1>3, <1>5, <1>14 DEF TradeTrue, BoundIds
<1> QED
  BY <1>15, <1>16, <1>17, <1>18 DEF TradeTrue

\* The writes that leave or make no position.
LEMMA NoPositionTrue ==
  ASSUME BrokerAssumption, AccountKnown, Standing, NEW t \in Trades,
         \/ ReconcileEntryDead(t) \/ Skip(t) \/ Intend(t)
         \/ SquareoffRow(t) /\ row[t].state = "PENDING_ENTRY"
         \/ job.t = t /\ (SaveCancel \/ RejectEntry \/ SaveEntry)
  PROVE  TradeTrue(t)'
<1>1. row \in [Trades -> Row] /\ row[t] \in Row
  BY DEF Standing, IInv, TypeOK
<1>2. orders' = orders
  BY WritesAlone DEF Writes
<1>3. CASE ReconcileEntryDead(t)
  <2>1. row[t].state = "ENTRY_SUBMITTED" /\ truth.book[row[t].entry].status \in Dead
        /\ row' = [row EXCEPT ![t].state = truth.book[row[t].entry].status]
    BY <1>3 DEF ReconcileEntryDead, EntrySeen
  <2>2. /\ row'[t].state = truth.book[row[t].entry].status
        /\ row'[t].stop = row[t].stop /\ row'[t].exit = row[t].exit
    BY <1>1, <2>1 DEF Row
  <2>3. row[t].state \notin Holding \cup {"CLOSED"} /\ row'[t].state \notin Holding \cup {"CLOSED"}
    BY <2>1, <2>2 DEF Dead, Holding
  <2> QED
    BY <1>2, <2>2, <2>3, StaysNotHeld
<1>4. CASE SquareoffRow(t) /\ row[t].state = "PENDING_ENTRY"
  <2>1. /\ row'[t].state = "CANCELLED"
        /\ row'[t].stop = row[t].stop /\ row'[t].exit = row[t].exit
    BY <1>1, <1>4 DEF SquareoffRow, Row, Holding
  <2>2. row[t].state \notin Holding \cup {"CLOSED"} /\ row'[t].state \notin Holding \cup {"CLOSED"}
    BY <1>4, <2>1 DEF Holding
  <2> QED
    BY <1>2, <2>1, <2>2, StaysNotHeld
<1>5. CASE Skip(t) \/ Intend(t)
  <2>1. row[t].state = "NONE"
    BY <1>5 DEF Skip, Intend, At, Standing, IInv, JobInv, JobCoherent, LoopSteps, RowsAhead
  <2>2. /\ row'[t].state \in {"REJECTED", "PENDING_ENTRY"}
        /\ row'[t].stop = row[t].stop /\ row'[t].exit = row[t].exit
    BY <1>1, <1>5 DEF Skip, Intend, Row
  <2>3. row[t].state \notin Holding \cup {"CLOSED"} /\ row'[t].state \notin Holding \cup {"CLOSED"}
    BY <2>1, <2>2 DEF Holding
  <2> QED
    BY <1>2, <2>2, <2>3, StaysNotHeld
<1>6. CASE job.t = t /\ (SaveCancel \/ RejectEntry \/ SaveEntry)
  <2>1. row[t].state \in {"PENDING_ENTRY", "ENTRY_SUBMITTED"}
    BY <1>6 DEF SaveCancel, RejectEntry, SaveEntry, At, Standing, IInv, JobInv, RowInHand, OnIntent
  <2>2. /\ row'[t].state \in {"CANCELLED", "REJECTED", "ENTRY_SUBMITTED"}
        /\ row'[t].stop = row[t].stop /\ row'[t].exit = row[t].exit
    BY <1>1, <1>6 DEF SaveCancel, RejectEntry, SaveEntry, Row
  <2>3. row[t].state \notin Holding \cup {"CLOSED"} /\ row'[t].state \notin Holding \cup {"CLOSED"}
    BY <2>1, <2>2 DEF Holding
  <2> QED
    BY <1>2, <2>2, <2>3, StaysNotHeld
<1> QED
  BY <1>3, <1>4, <1>5, <1>6

\* Whatever happens next, every trade stays what it is said to be.
LEMMA TradesStayTrue ==
  ASSUME BrokerAssumption, AccountKnown, Standing, [Next]_vars
  PROVE  TradesTrue'
<1> SUFFICES ASSUME NEW t \in Trades
             PROVE  TradeTrue(t)'
  BY DEF TradesTrue
<1>1. CASE Writes(t)
  <2>1. CASE ReconcileEntryFill(t) \/ ReconcileFlat(t) \/ ReconcileHeld(t)
    BY <2>1, ReconcileEntryFillTrue, ReconcileFlatTrue, ReconcileHeldTrue
  <2>2. CASE job.t = t /\ (SaveStop \/ SaveExit \/ SaveFill)
    BY <2>2, SaveStopTrue, SaveExitTrue, SaveFillTrue
  <2>3. CASE \/ ReconcileEntryDead(t) \/ Skip(t) \/ Intend(t)
             \/ SquareoffRow(t) /\ row[t].state = "PENDING_ENTRY"
             \/ job.t = t /\ (SaveCancel \/ RejectEntry \/ SaveEntry)
    BY <2>3, NoPositionTrue
  <2> QED
    BY <1>1, <2>1, <2>2, <2>3 DEF Writes
<1>2. CASE PlaceStop(t)
  BY <1>2, PlaceStopTrue
<1>3. CASE SendExit /\ t = job.t
  BY <1>3, SendExitTrue
<1>4. CASE ~Writes(t) /\ ~PlaceStop(t) /\ ~(SendExit /\ t = job.t)
  <2>1. row'[t] = row[t]
    BY <1>4, OthersKeepRow DEF Standing
  <2>2. /\ \A k : OrdersOf(k, t) \subseteq OrdersOf(k, t)'
        /\ OrdersOf("stop", t)' = OrdersOf("stop", t)
        /\ OrdersOf("exit", t)' = OrdersOf("exit", t)
    BY <1>4, OrdersStay
  <2>3. Outs(t)' = Outs(t)
    BY <2>2 DEF Outs
  <2>4. Grows
    BY AccountStep
  <2>5. SaveKept(t)
    <3>1. IInv /\ HandTrue
      BY DEF Standing, AccountInv
    <3>2. CASE job.at \in {"save_stop", "save_exit"} /\ job.t = t
      <4>1. ~SaveStop /\ ~SaveExit
        BY <1>4, <3>2 DEF Writes
      <4> QED
        BY <3>1, <3>2, <4>1, AwaitingSave DEF SaveKept, Saving
    <3> QED
      BY <3>2 DEF SaveKept, Saving
  <2> QED
    BY <2>1, <2>2, <2>3, <2>4, <2>5, TradeKept
<1> QED
  BY <1>1, <1>2, <1>3, <1>4

-----------------------------------------------------------------------------
(* What the tick has read, and what it has in hand. *)

\* The inductive invariant of the tick is one.
LEMMA StaysStanding ==
  ASSUME IInv, [Next]_vars
  PROVE  IInv' /\ BrokerTypeOK'
<1>1. IInv'
  BY TickInv, ProcessInv, EnvironmentInv, StutterInv, BrokerAssumption, EngineAssumption
     DEF Next
<1> QED
  BY <1>1 DEF IInv, TypeOK

\* What the next order book says of one order.
LEMMA OrderFieldsNext ==
  ASSUME BrokerTypeOK', NEW i \in Ids'
  PROVE  /\ orders'[i] \in Order
         /\ orders'[i].qty \in Nat /\ orders'[i].filled \in Nat
<1>1. orders'[i] \in Order
  BY DEF Ids, BrokerTypeOK
<1> QED
  BY <1>1 DEF Order

\* The book read stays behind the book.
LEMMA BookStaysBehind ==
  ASSUME BrokerAssumption, AccountKnown, Standing, [Next]_vars
  PROVE  BookBehind'
<1>1. Grows /\ OrdersMade'
  BY AccountStep
<1>2. BookBehind /\ IInv /\ BrokerTypeOK
  BY DEF Standing, AccountInv, IInv, TypeOK
<1>3. BrokerTypeOK'
  BY <1>2, StaysStanding
<1>4. CASE truth'.book = truth.book
  <2> SUFFICES ASSUME NEW i \in DOMAIN truth.book
               PROVE  /\ i \in Ids' /\ WellMade(truth.book[i])
                      /\ truth.book[i].qty = orders'[i].qty
                      /\ truth.book[i].filled <= orders'[i].filled
                      /\ truth.book[i].shown => orders'[i].shown
    BY <1>4 DEF BookBehind, WellMade
  <2>1. /\ i \in Ids /\ WellMade(truth.book[i])
        /\ truth.book[i].qty = orders[i].qty
        /\ truth.book[i].filled <= orders[i].filled
        /\ truth.book[i].shown => orders[i].shown
    BY <1>2 DEF BookBehind
  <2>2. /\ i \in Ids' /\ orders'[i].qty = orders[i].qty /\ orders[i].filled <= orders'[i].filled
        /\ orders[i].shown => orders'[i].shown
    BY <1>1, <2>1 DEF Grows, Progress
  <2>3. truth.book[i].filled \in Nat /\ orders[i].filled \in Nat
    BY <1>2, <2>1, BookFields, OrderFields
  <2>4. orders'[i].filled \in Nat
    BY <1>3, <2>2, OrderFieldsNext
  <2> QED
    BY <2>1, <2>2, <2>3, <2>4
<1>5. CASE truth'.book = orders /\ orders' = orders
  <2>1. \A i \in Ids : orders[i].filled <= orders[i].filled
    BY <1>2, OrderFields
  <2> QED
    BY <1>1, <1>5, <2>1 DEF BookBehind, OrdersMade, Ids
<1>6. CASE truth' = NoTruth
  BY <1>6 DEF BookBehind, NoTruth
<1>7. truth \in [net : [Symbols -> Int], book : Seq(Order)]
  BY <1>2 DEF IInv, TypeOK
<1>8. /\ truth' = [truth EXCEPT !.net = net] => truth'.book = truth.book
      /\ truth' = [truth EXCEPT !.book = orders] => truth'.book = orders
  BY <1>7
<1> QED
  BY <1>4, <1>5, <1>6, <1>8, TruthStep

\* A final fill stays one.
LEMMA FillStays ==
  ASSUME BrokerTypeOK, OrdersMade, Grows, NEW i \in Ids, FillFinal(orders[i]), orders[i].shown
  PROVE  FillFinal(orders'[i]) /\ orders'[i].shown
<1>1. orders[i].filled > 0 /\ ~Working(i)
  BY FillEnds
<1> QED
  BY <1>1 DEF Grows, Progress, FillFinal

\* Stops that count for nothing never will, and no other comes.
LEMMA StopsStayVoid ==
  ASSUME BrokerAssumption, AccountKnown, Standing, [Next]_vars, NEW t \in Trades,
         StopsVoid(t), ~PlaceStop(t)
  PROVE  StopsVoid(t)'
<1>1. OrdersOf("stop", t)' = OrdersOf("stop", t)
  BY OrdersStay
<1>2. \A i \in Ids : Void(i) => Void(i)'
  BY StaysVoid DEF Standing
<1> QED
  BY <1>1, <1>2 DEF StopsVoid, OrdersOf

\* Where the tick is when a row is written.
LEMMA WritesWhen ==
  ASSUME NEW t, Writes(t)
  PROVE  \/ job.at = "save_stop" /\ SaveStop
         \/ job.at = "save_exit" /\ SaveExit
         \/ job.at = "save_fill" /\ SaveFill
         \/ job.at \in {"reconcile", "squareoff", "ingest", "save_cancel", "reject_entry", "save_entry"}
BY DEF Writes, ReconcileEntryFill, ReconcileEntryDead, ReconcileFlat, ReconcileHeld, Reconciling,
   SquareoffRow, Skip, Intend, SaveStop, SaveExit, SaveCancel, RejectEntry, SaveEntry, SaveFill, At

\* The tick is at none of the calls and commits that stop, sell or book a fill.
Away == job'.at \notin {"save_fill", "save_stop"} \cup OnFlatten

\* It begins to flatten a position it may flatten.
BeginsFlatten ==
  \E t \in Trades, why \in CloseReasons :
    /\ job' = Flatten(t, why)
    /\ \/ ReconcileEntryFill(t) /\ why = "ABNORMAL_SLIPPAGE_FLATTEN"
       \/ SaveFill /\ t = job.t /\ why = "ABNORMAL_SLIPPAGE_FLATTEN"
       \/ ApplyClose /\ t = cmds[Oldest].trade /\ t \in OpenRows /\ why = "MANUAL_CLOSE"
       \/ SquareoffRow(t) /\ row[t].state \in Holding /\ why = eng.shut

\* The call for an entry leads to its lookup, its refusal or its commit.
LEMMA IntentLeads ==
  ASSUME IInv, SendEntry \/ ResolveEntry
  PROVE  job'.at \in {"resolve_entry", "reject_entry", "save_entry"} /\ job'.t = job.t
<1>0. job \in Job
  BY DEF IInv, TypeOK
<1>2. CASE SendEntry
  <2>1. PICK reply \in {"order", "raised", "refused"}, id \in 0 .. Len(orders) + 1 :
          job' = CASE reply = "raised"  -> [job EXCEPT !.at = "resolve_entry"]
                   [] reply = "refused" -> [job EXCEPT !.at = "reject_entry"]
                   [] reply = "order"   ->
                        IF orders'[id].status = "REJECTED"
                          THEN [job EXCEPT !.at = "reject_entry"]
                          ELSE [job EXCEPT !.at = "save_entry", !.id = id,
                                  !.got = IF FillFinal(orders'[id]) THEN "filled" ELSE "working"]
    BY <1>2 DEF SendEntry
  <2>2. CASE reply = "raised" \/ reply = "refused" \/ orders'[id].status = "REJECTED"
    BY <1>0, <2>1, <2>2 DEF Job
  <2>3. CASE reply = "order" /\ orders'[id].status # "REJECTED"
    <3>1. PICK got : job' = [job EXCEPT !.at = "save_entry", !.id = id, !.got = got]
      BY <2>1, <2>3
    <3> QED
      BY <1>0, <3>1 DEF Job
  <2> QED
    BY <2>1, <2>2, <2>3
<1>3. CASE ResolveEntry
  <2>1. PICK id, got : \/ job' = [job EXCEPT !.at = "reject_entry"]
                       \/ job' = [job EXCEPT !.at = "save_entry", !.id = id, !.got = got]
    BY <1>3 DEF ResolveEntry
  <2> QED
    BY <1>0, <2>1 DEF Job
<1> QED
  BY <1>2, <1>3

\* Only these bring it there.
LEMMA WhoHolds ==
  ASSUME IInv, [Next]_vars
  PROVE  \/ Away
         \/ job' = job
         \/ (\E t \in Trades : PlaceStop(t)) \/ CancelStop \/ SendExit \/ SaveEntry
         \/ BeginsFlatten
<1>0. job \in Job /\ eng \in Engine
  BY DEF IInv, TypeOK
<1>1. ASSUME NEW step \in LoopSteps, NEW S, job' = Begin(step, S)
      PROVE  Away
  BY <1>1 DEF Away, Begin, Idle, LoopSteps, OnFlatten
<1>2. ASSUME job'.at \in LoopSteps \cup Reads \cup OnIntent \cup {"mark", "save_cancel", "place_stop"}
      PROVE  Away
  BY <1>2 DEF Away, LoopSteps, Reads, OnIntent, OnFlatten
<1>3. ASSUME NEW t \in Trades, NEW o, job' = ActOnFill(t, o),
             ReconcileEntryFill(t) \/ (SaveFill /\ t = job.t)
      PROVE  Away \/ BeginsFlatten
  <2>1. CASE o.adverse
    <3>1. job' = Flatten(t, "ABNORMAL_SLIPPAGE_FLATTEN")
      BY <1>3, <2>1 DEF ActOnFill
    <3>2. "ABNORMAL_SLIPPAGE_FLATTEN" \in CloseReasons
      BY DEF CloseReasons, ActiveReasons
    <3> QED
      BY <1>3, <3>1, <3>2 DEF BeginsFlatten
  <2>2. CASE ~o.adverse
    <3>1. job'.at = "place_stop"
      BY <1>0, <1>3, <2>2 DEF ActOnFill, Call, Job
    <3> QED
      BY <1>2, <3>1
  <2> QED
    BY <2>1, <2>2
<1>4. CASE TickStart \/ FetchBrokerTruth
  BY <1>0, <1>4, ZenonT(30) DEF TickStart, FetchBrokerTruth, Away, Begin, Idle, Job, OnFlatten
<1>5. CASE Reconcile
  <2>1. CASE EndReconcile
    BY <1>1, <2>1 DEF EndReconcile, LoopSteps
  <2>2. ASSUME NEW t \in Trades, ReconcileEntryFill(t)
        PROVE  Away \/ BeginsFlatten
    BY <1>3, <2>2 DEF ReconcileEntryFill
  <2>3. ASSUME NEW t \in Trades,
               ReconcileWaits(t) \/ ReconcileEntryDead(t) \/ ReconcileFlat(t) \/ ReconcileHeld(t)
        PROVE  Away
    <3>1. job' = [job EXCEPT !.todo = @ \ {t}] /\ job.at = "reconcile"
      BY <2>3 DEF ReconcileWaits, ReconcileEntryDead, ReconcileFlat, ReconcileHeld, Reconciling, At
    <3>2. job'.at = "reconcile"
      BY <1>0, <3>1 DEF Job
    <3> QED
      BY <1>2, <3>2 DEF LoopSteps
  <2> QED
    BY <1>5, <2>1, <2>2, <2>3 DEF Reconcile
<1>6. CASE SaveStop \/ EndProtect
  <2>1. CASE SaveStop
    <3>1. job'.at = job.step /\ job.step \in LoopSteps
      BY <1>0, <2>1 DEF SaveStop, Resume, Job
    <3> QED
      BY <1>2, <3>1
  <2>2. CASE EndProtect
    <3>1. job'.at = "commands"
      BY <2>2 DEF EndProtect, Begin, Idle
    <3> QED
      BY <1>2, <3>1 DEF LoopSteps
  <2> QED
    BY <1>6, <2>1, <2>2
<1>7. CASE SaveExit \/ SaveExitIllegal
  <2>1. CASE SaveExit
    <3>1. job'.at \in LoopSteps \cup {"mark"}
      BY <1>0, <2>1 DEF SaveExit, FlattenReturns, Resume, Job
    <3> QED
      BY <1>2, <3>1
  <2>2. CASE SaveExitIllegal
    BY <1>1, <2>2 DEF SaveExitIllegal, LoopSteps
  <2> QED
    BY <1>7, <2>1, <2>2
<1>8. CASE Commands
  <2>1. CASE ApplySwitch
    <3>1. job'.at = "commands"
      BY <1>0, <2>1 DEF ApplySwitch, Applying, At, Job
    <3> QED
      BY <1>2, <3>1 DEF LoopSteps
  <2>2. CASE ApplyClose
    <3>1. CASE cmds[Oldest].trade \in OpenRows
      <4>1. job' = Flatten(cmds[Oldest].trade, "MANUAL_CLOSE")
        BY <2>2, <3>1 DEF ApplyClose
      <4>2. cmds[Oldest].trade \in Trades /\ "MANUAL_CLOSE" \in CloseReasons
        BY <3>1 DEF OpenRows, CloseReasons, ActiveReasons
      <4> QED
        BY <2>2, <3>1, <4>1, <4>2 DEF BeginsFlatten
    <3>2. CASE cmds[Oldest].trade \notin OpenRows
      <4>1. job'.at = "commands"
        BY <1>0, <2>2, <3>2 DEF ApplyClose, Applying, At, Job
      <4> QED
        BY <1>2, <4>1 DEF LoopSteps
    <3> QED
      BY <3>1, <3>2
  <2>3. CASE MarkClose
    <3>1. job'.at = job.step /\ job.step \in LoopSteps
      BY <1>0, <2>3 DEF MarkClose, Resume, Job
    <3> QED
      BY <1>2, <3>1
  <2>4. CASE EndCommands
    BY <1>1, <2>4 DEF EndCommands, LoopSteps
  <2> QED
    BY <1>8, <2>1, <2>2, <2>3, <2>4 DEF Commands
<1>9. CASE Squareoff
  <2>1. ASSUME NEW t \in Trades, SquareoffRow(t)
        PROVE  Away \/ BeginsFlatten
    <3>1. CASE job' = [job EXCEPT !.todo = @ \ {t}]
      <4>1. job'.at = "squareoff"
        BY <1>0, <2>1, <3>1 DEF SquareoffRow, At, Job
      <4> QED
        BY <1>2, <4>1 DEF LoopSteps
    <3>2. CASE row[t].state \in Holding /\ job' = Flatten(t, eng.shut)
      <4>1. eng.shut \in CloseReasons
        BY <1>0 DEF Engine
      <4> QED
        BY <2>1, <3>2, <4>1 DEF BeginsFlatten
    <3> QED
      BY <2>1, <3>1, <3>2 DEF SquareoffRow
  <2>2. ASSUME NEW t \in Trades, CancelEntry(t)
        PROVE  Away
    <3>1. job'.at \in {"save_cancel", "squareoff"}
      BY <1>0, <2>2 DEF CancelEntry, Call, Job, At
    <3> QED
      BY <1>2, <3>1 DEF LoopSteps
  <2>3. CASE SaveCancel
    <3>1. job'.at = job.step /\ job.step \in LoopSteps
      BY <1>0, <2>3 DEF SaveCancel, Resume, Job
    <3> QED
      BY <1>2, <3>1
  <2>4. CASE EndSquareoff
    <3>1. job'.at = "asleep"
      BY <2>4 DEF EndSquareoff, TickEnds, Idle
    <3> QED
      BY <1>2, <3>1 DEF LoopSteps
  <2> QED
    BY <1>9, <2>1, <2>2, <2>3, <2>4 DEF Squareoff
<1>10. CASE Ingest
  <2>1. ASSUME NEW t \in Trades, Skip(t)
        PROVE  Away
    <3>1. job'.at = "ingest"
      BY <1>0, <2>1 DEF Skip, At, Job
    <3> QED
      BY <1>2, <3>1 DEF LoopSteps
  <2>2. ASSUME NEW t \in Trades, Intend(t)
        PROVE  Away
    <3>1. job'.at = "send_entry"
      BY <1>0, <2>2 DEF Intend, Call, Job
    <3> QED
      BY <1>2, <3>1 DEF OnIntent
  <2>3. CASE SendEntry \/ ResolveEntry
    BY <1>2, <2>3, IntentLeads DEF OnIntent
  <2>4. CASE RejectEntry
    <3>1. job'.at = job.step /\ job.step \in LoopSteps
      BY <1>0, <2>4 DEF RejectEntry, Resume, Job
    <3> QED
      BY <1>2, <3>1
  <2>5. CASE SaveFill
    <3>1. job.t \in Trades
      BY <2>5, TradeInHand DEF SaveFill, At, OnRow
    <3> QED
      BY <1>3, <2>5, <3>1 DEF SaveFill
  <2>6. CASE EndIngest
    <3>1. job'.at = "asleep"
      BY <2>6 DEF EndIngest, TickEnds, Idle
    <3> QED
      BY <1>2, <3>1 DEF LoopSteps
  <2> QED
    BY <1>10, <2>1, <2>2, <2>3, <2>4, <2>5, <2>6 DEF Ingest
<1>11. CASE Crash
  <2>1. job'.at = "asleep"
    BY <1>11 DEF Crash, Idle
  <2> QED
    BY <1>2, <2>1 DEF LoopSteps
<1>12. CASE Start \/ SubmitCommand \/ Clock \/ Environment \/ UNCHANGED vars
  BY <1>12 DEF Start, SubmitCommand, Clock, Environment, engineVars, vars
<1> QED
  BY <1>4, <1>5, <1>6, <1>7, <1>8, <1>9, <1>10, <1>11, <1>12 DEF Next, Tick, Protect, FlattenSteps

\* While the tick stays where it is, what it has in hand stays so.
LEMMA HandKept ==
  ASSUME BrokerAssumption, AccountKnown, Standing, [Next]_vars, job' = job
  PROVE  HandTrue'
<1>1. job \in Job /\ BrokerTypeOK /\ OrdersMade /\ HandTrue /\ IInv
  BY DEF Standing, AccountInv, IInv, TypeOK
<1>2. Grows
  BY AccountStep
<1>3. job.at \in OnRow => job.t \in Trades
  BY <1>1, TradeInHand
<1>4. SaveFill => job.at # "save_fill"
  <2>1. ASSUME SaveFill, job.at = "save_fill"
        PROVE  FALSE
    <3>1. \E o : job' = ActOnFill(job.t, o)
      BY <2>1 DEF SaveFill
    <3>2. job'.at \in {"cancel_stop", "send_exit", "place_stop"}
      BY <1>1, <3>1 DEF ActOnFill, Flatten, Call, Job
    <3> QED
      BY <2>1, <3>2
  <2> QED
    BY <2>1
<1>5. ~SaveExit
  <2>1. ASSUME SaveExit
        PROVE  FALSE
    <3>1. job'.at \in LoopSteps \cup {"mark"} /\ job.at = "save_exit"
      BY <1>1, <2>1 DEF SaveExit, FlattenReturns, Resume, Job, At
    <3> QED
      BY <3>1 DEF LoopSteps
  <2> QED
    BY <2>1
<1>6. job.at \in {"send_entry", "save_fill"} \cup OnFlatten => row'[job.t] = row[job.t]
  <2> SUFFICES ASSUME job.at \in {"send_entry", "save_fill"} \cup OnFlatten
               PROVE  row'[job.t] = row[job.t]
    OBVIOUS
  <2>1. job.t \in Trades
    BY <1>3 DEF OnRow, OnIntent
  <2>2. ~Writes(job.t)
    BY <1>4, <1>5, WritesWhen DEF OnFlatten
  <2> QED
    BY <1>1, <2>1, <2>2, OthersKeepRow
<1>7. job.at = "send_entry" => row'[job.t].qty > 0
  BY <1>1, <1>6 DEF HandTrue
<1>8. (job.at = "save_entry" /\ job.got = "filled") \/ job.at = "save_fill" =>
        FillFinal(orders'[job.id]) /\ orders'[job.id].shown
  <2>1. job.at \in {"save_entry", "save_fill"} => job.id \in Ids
    BY <1>1 DEF IInv, JobInv, JobIds
  <2> QED
    BY <1>1, <1>2, <2>1, FillStays DEF HandTrue
<1>9. \A k : \A t \in Trades : OrdersOf(k, t) \subseteq OrdersOf(k, t)'
  BY OrdersStay
<1>10. job.at = "save_fill" => row'[job.t].entry = job.id /\ job.id \in OrdersOf("entry", job.t)'
  BY <1>1, <1>3, <1>6, <1>9 DEF HandTrue, OnRow
<1>11. job.at = "save_stop" =>
         /\ job.id \in OrdersOf("stop", job.t)'
         /\ job.got # "confirmed" => Void(job.id)'
  <2>1. \A i \in Ids : Void(i) => Void(i)'
    BY <1>1, StaysVoid
  <2>2. job.at = "save_stop" => job.id \in OrdersOf("stop", job.t) /\ job.id \in Ids
    BY <1>1 DEF HandTrue, OrdersOf
  <2> QED
    BY <1>1, <1>3, <1>9, <2>1, <2>2 DEF HandTrue, OnRow
<1>12. job.at \in OnFlatten => job.why \in ActiveReasons /\ row'[job.t].state \in Holding
  BY <1>1, <1>6 DEF HandTrue
<1>13. job.at \in {"send_exit", "save_exit"} => StopsVoid(job.t)'
  <2> SUFFICES ASSUME job.at \in {"send_exit", "save_exit"}
               PROVE  StopsVoid(job.t)'
    OBVIOUS
  <2>1. job.t \in Trades /\ StopsVoid(job.t)
    BY <1>1, <1>3 DEF OnRow, OnFlatten, HandTrue
  <2>2. ~PlaceStop(job.t)
    BY DEF PlaceStop, At
  <2> QED
    BY <2>1, <2>2, StopsStayVoid
<1>14. job.at = "save_exit" => job.id \in OrdersOf("exit", job.t)'
  BY <1>1, <1>3, <1>9 DEF HandTrue, OnRow, OnFlatten
<1> QED
  BY <1>7, <1>8, <1>10, <1>11, <1>12, <1>13, <1>14 DEF HandTrue, StopsVoid

\* An entry about to be sent has a size, and a reply that it filled is true.
EntryHand ==
  /\ job.at = "send_entry" => row[job.t].qty > 0
  /\ job.at = "save_entry" /\ job.got = "filled" =>
       FillFinal(orders[job.id]) /\ orders[job.id].shown

\* So it is when the tick gets there.
LEMMA EntryHandTrue ==
  ASSUME BrokerAssumption, AccountKnown, Standing, [Next]_vars, job' # job
  PROVE  EntryHand'
<1>1. job \in Job /\ BrokerTypeOK /\ OrdersMade /\ HandTrue /\ IInv
  BY DEF Standing, AccountInv, IInv, TypeOK
<1>2. ASSUME job'.at \notin OnIntent
      PROVE  EntryHand'
  BY <1>2 DEF EntryHand, OnIntent
<1>3. CASE Elsewhere
  BY <1>2, <1>3 DEF Elsewhere
<1>4. ASSUME NEW t \in Trades, Intend(t)
      PROVE  EntryHand'
  <2>1. job'.at = "send_entry" /\ job'.t = t
    BY <1>1, <1>4 DEF Intend, Call, Job
  <2>2. row \in [Trades -> Row] /\ row[t] \in Row
    BY <1>1 DEF IInv, TypeOK
  <2>3. row'[t].qty = Lot
    BY <1>4, <2>2 DEF Intend, Row
  <2>4. Lot > 0
    BY EngineAssumption DEF EngineAssumption
  <2> QED
    BY <2>1, <2>3, <2>4 DEF EntryHand
<1>5. ASSUME NEW t \in Trades, CancelEntry(t)
      PROVE  EntryHand'
  <2>1. job'.at \in {"save_cancel", "squareoff"}
    BY <1>1, <1>5 DEF CancelEntry, Call, Job, At
  <2> QED
    BY <1>2, <2>1 DEF OnIntent
<1>6. CASE SendEntry
  <2>1. job'.at \in {"resolve_entry", "reject_entry", "save_entry"}
    BY <1>1, <1>6, IntentLeads
  <2>2. job'.at = "save_entry" /\ job'.got = "filled" =>
          FillFinal(orders'[job'.id]) /\ orders'[job'.id].shown
    BY <1>6, SendEntryAccount
  <2> QED
    BY <2>1, <2>2 DEF EntryHand
<1>7. CASE ResolveEntry
  <2>1. job'.at \in {"resolve_entry", "reject_entry", "save_entry"} /\ orders' = orders
    BY <1>1, <1>7, IntentLeads DEF ResolveEntry
  <2>2. CASE job' = [job EXCEPT !.at = "reject_entry"]
    <3>1. job'.at = "reject_entry"
      BY <1>1, <2>2 DEF Job
    <3> QED
      BY <3>1 DEF EntryHand
  <2>3. CASE LiveEntries(job.t) # {}
             /\ job' = [job EXCEPT !.at = "save_entry", !.id = Min(LiveEntries(job.t)),
                          !.got = IF FillFinal(orders[Min(LiveEntries(job.t))])
                                  THEN "filled" ELSE "working"]
    <3>1. LiveEntries(job.t) \in SUBSET Nat
      BY <1>1 DEF LiveEntries, OrdersOf, Ids, BrokerTypeOK
    <3>2. PICK i \in LiveEntries(job.t) : i = Min(LiveEntries(job.t))
      BY <2>3, <3>1, MinOfNats
    <3>3. orders[i].shown
      BY <3>2 DEF LiveEntries
    <3>4. PICK got : /\ got = IF FillFinal(orders[i]) THEN "filled" ELSE "working"
                     /\ job' = [job EXCEPT !.at = "save_entry", !.id = i, !.got = got]
      BY <2>3, <3>2
    <3>5. job'.at = "save_entry" /\ job'.id = i /\ job'.got = got
      BY <1>1, <3>4 DEF Job
    <3> QED
      BY <2>1, <3>3, <3>4, <3>5 DEF EntryHand
  <2> QED
    BY <1>7, <2>2, <2>3 DEF ResolveEntry
<1>8. CASE EndCommands
  <2>1. job'.at \in {"squareoff", "ingest"}
    BY <1>8 DEF EndCommands, Begin, Idle
  <2> QED
    BY <1>2, <2>1 DEF OnIntent
<1> QED
  BY <1>1, <1>3, <1>4, <1>5, <1>6, <1>7, <1>8, WhoLeads

\* A fill about to be booked is final, a stop about to be bound the trade's own,
\* and a position being sold is one, for a reason, with its stop out of the way
\* first.
SaleHand ==
  /\ job.at = "save_fill" =>
       /\ FillFinal(orders[job.id]) /\ orders[job.id].shown
       /\ row[job.t].entry = job.id /\ job.id \in OrdersOf("entry", job.t)
  /\ job.at = "save_stop" =>
       /\ job.id \in OrdersOf("stop", job.t)
       /\ job.got # "confirmed" => Void(job.id)
  /\ job.at \in OnFlatten => job.why \in ActiveReasons /\ row[job.t].state \in Holding
  /\ job.at \in {"send_exit", "save_exit"} => StopsVoid(job.t)
  /\ job.at = "save_exit" => job.id \in OrdersOf("exit", job.t)

\* A position without a stop id has no stop that could fill.
LEMMA NoStopVoid ==
  ASSUME Standing, NEW t \in Trades, row[t].state \in Holding, row[t].stop = 0,
         job.at # "save_stop"
  PROVE  StopsVoid(t)
<1>1. TradeTrue(t) /\ ~Saving("save_stop", t) /\ BrokerTypeOK
  BY DEF Standing, AccountInv, TradesTrue, Saving, IInv, TypeOK
<1>2. CASE row[t].state = "EXIT_SUBMITTED"
  BY <1>1, <1>2 DEF TradeTrue, ExitIs
<1>3. CASE row[t].state \in Kept
  <2>1. \A i \in OrdersOf("stop", t) : i # 0
    BY <1>1 DEF OrdersOf, Ids, BrokerTypeOK
  <2> QED
    BY <1>1, <1>3, <2>1 DEF TradeTrue, KeptIs, StopsVoid
<1> QED
  BY <1>2, <1>3 DEF Holding, Kept

\* An entry not yet a position was never sold.
LEMMA UnfilledVoid ==
  ASSUME Standing, NEW t \in Trades, row[t].state = "ENTRY_SUBMITTED"
  PROVE  StopsVoid(t)
<1>1. Outs(t) = {}
  BY DEF Standing, AccountInv, TradesTrue, TradeTrue, NotHeld, Holding
<1> QED
  BY <1>1 DEF StopsVoid, Outs

\* A flatten begins as it should.
LEMMA FlattenHand ==
  ASSUME BrokerAssumption, AccountKnown, Standing, [Next]_vars, BeginsFlatten
  PROVE  SaleHand'
<1>1. job \in Job /\ row \in [Trades -> Row] /\ IInv
  BY DEF Standing, IInv, TypeOK
<1>2. PICK t \in Trades, why \in CloseReasons :
        /\ job' = Flatten(t, why)
        /\ \/ ReconcileEntryFill(t) /\ why = "ABNORMAL_SLIPPAGE_FLATTEN"
           \/ SaveFill /\ t = job.t /\ why = "ABNORMAL_SLIPPAGE_FLATTEN"
           \/ ApplyClose /\ t = cmds[Oldest].trade /\ t \in OpenRows /\ why = "MANUAL_CLOSE"
           \/ SquareoffRow(t) /\ row[t].state \in Holding /\ why = eng.shut
  BY DEF BeginsFlatten
<1>3. /\ job'.at = IF row[t].stop = 0 THEN "send_exit" ELSE "cancel_stop"
      /\ job'.t = t /\ job'.why = why
  BY <1>1, <1>2 DEF Flatten, Call, Job
<1>4. orders' = orders
  BY <1>2 DEF ReconcileEntryFill, SaveFill, ApplyClose, SquareoffRow, brokerVars
<1>5. why \in ActiveReasons /\ row'[t].state \in Holding
      /\ (row[t].stop = 0 => StopsVoid(t))
  <2>1. CASE ReconcileEntryFill(t) /\ why = "ABNORMAL_SLIPPAGE_FLATTEN"
    <3>1. row[t].state = "ENTRY_SUBMITTED"
      BY <2>1 DEF ReconcileEntryFill, EntrySeen
    <3>2. row'[t].state = "ENTERED"
      BY <1>1, <2>1 DEF ReconcileEntryFill, FillApplied, Row
    <3> QED
      BY <2>1, <3>1, <3>2, UnfilledVoid DEF ActiveReasons, Holding
  <2>2. CASE SaveFill /\ t = job.t /\ why = "ABNORMAL_SLIPPAGE_FLATTEN"
    <3>1. row[t].state = "ENTRY_SUBMITTED"
      BY <1>1, <2>2 DEF SaveFill, At, IInv, JobInv, RowInHand
    <3>2. row'[t].state = "ENTERED"
      BY <1>1, <2>2 DEF SaveFill, FillApplied, Row
    <3> QED
      BY <2>2, <3>1, <3>2, UnfilledVoid DEF ActiveReasons, Holding
  <2>3. CASE ApplyClose /\ t = cmds[Oldest].trade /\ t \in OpenRows /\ why = "MANUAL_CLOSE"
    <3>1. /\ job.at = "commands" /\ job.batch # {} /\ cmds[Oldest].kind = "CLOSE_POSITION"
          /\ row' = row
      BY <2>3 DEF ApplyClose, Applying, At
    <3>2. Oldest \in DOMAIN cmds
      <4>1. job.batch \in SUBSET Nat /\ job.batch \subseteq DOMAIN cmds
        BY <1>1 DEF Job, Standing, AccountInv, CloseKnown
      <4> QED
        BY <3>1, <4>1, MinOfNats DEF Oldest
    <3>3. row[t].state \in Holding \cup Terminal
      BY <2>3, <3>1, <3>2 DEF Standing, AccountInv, CloseKnown
    <3>4. row[t].state \in Holding
      BY <2>3, <3>3 DEF OpenRows
    <3> QED
      BY <2>3, <3>1, <3>4, NoStopVoid DEF ActiveReasons
  <2>4. CASE SquareoffRow(t) /\ row[t].state \in Holding /\ why = eng.shut
    <3>1. job.at = "squareoff" /\ row' = row
      BY <2>4 DEF SquareoffRow, At, Holding
    <3>2. job.step = "squareoff"
      BY <1>1, <3>1 DEF IInv, JobInv, JobCoherent, LoopSteps
    <3>3. eng.shut \in ActiveReasons
      BY <3>2 DEF Standing, AccountInv, EndTrue
    <3> QED
      BY <2>4, <3>1, <3>3, NoStopVoid
  <2> QED
    BY <1>2, <2>1, <2>2, <2>3, <2>4
<1>6. row[t].stop = 0 => StopsVoid(t)'
  BY <1>4, <1>5, SameOuts DEF StopsVoid
<1> QED
  BY <1>3, <1>5, <1>6 DEF SaleHand, OnFlatten, StopsVoid

\* A confirmed cancel leaves no stop that could fill.
LEMMA CancelStopHand ==
  ASSUME BrokerAssumption, AccountKnown, Standing, [Next]_vars, CancelStop
  PROVE  SaleHand'
<1> PICK t : t = job.t
  OBVIOUS
<1> PICK i : i = row[t].stop
  OBVIOUS
<1>1. job \in Job /\ BrokerTypeOK /\ OrdersMade /\ IInv /\ HandTrue
  BY DEF Standing, AccountInv, IInv, TypeOK
<1>2. job.at = "cancel_stop" /\ row' = row
  BY DEF CancelStop, At, engineVarsButJob
<1>3. t \in Trades /\ TradeTrue(t)
  BY <1>1, <1>2, TradeInHand DEF OnRow, OnFlatten, Standing, AccountInv, TradesTrue
<1>4. job.why \in ActiveReasons /\ row[t].state \in Holding
  BY <1>1, <1>2 DEF HandTrue, OnFlatten
<1>5. i \in OrdersOf("stop", t)
  BY <1>1, <1>2, <1>3 DEF TradeTrue, BoundIds, IInv, JobInv, JobIds
<1>6. i \in Ids /\ orders[i].kind = "stop"
  BY <1>5 DEF OrdersOf
<1>7. PICK reply \in Status \cup {"unconfirmed"} :
        /\ Cancel(i, reply)
        /\ IF reply \in CancelConfirmed THEN job' = [job EXCEPT !.at = "send_exit"]
                                        ELSE FlattenReturns(FALSE)
  BY DEF CancelStop
<1>8. CASE reply \notin CancelConfirmed
  <2>1. job'.at \in LoopSteps \cup {"mark"}
    BY <1>1, <1>7, <1>8 DEF FlattenReturns, Resume, Job
  <2> QED
    BY <2>1 DEF SaleHand, LoopSteps, OnFlatten
<1>9. CASE reply \in CancelConfirmed
  <2>1. job'.at = "send_exit" /\ job'.t = t /\ job'.why = job.why
    BY <1>1, <1>7, <1>9 DEF Job
  <2>2. Working(i) /\ Void(i)'
    BY <1>1, <1>6, <1>7, <1>9, CancelAccount DEF Void, Working
  <2>3. \A j \in OrdersOf("stop", t) : j # i => Void(j)
    BY <1>3, <1>5, <2>2 DEF TradeTrue, OneSeller, Void, Outs
  <2>4. \A j \in Ids : Void(j) => Void(j)'
    BY <1>1, StaysVoid
  <2>5. OrdersOf("stop", t)' = OrdersOf("stop", t)
    <3>1. ~PlaceStop(t)
      BY <1>2 DEF PlaceStop, At
    <3> QED
      BY <1>3, <3>1, OrdersStay
  <2>6. StopsVoid(t)'
    BY <2>2, <2>3, <2>4, <2>5 DEF StopsVoid, OrdersOf
  <2> QED
    BY <1>2, <1>4, <2>1, <2>6 DEF SaleHand, OnFlatten, StopsVoid
<1> QED
  BY <1>8, <1>9

\* So it is when the tick gets there.
LEMMA SaleHandTrue ==
  ASSUME BrokerAssumption, AccountKnown, Standing, [Next]_vars, job' # job
  PROVE  SaleHand'
<1>1. job \in Job /\ BrokerTypeOK /\ OrdersMade /\ IInv /\ HandTrue
  BY DEF Standing, AccountInv, IInv, TypeOK
<1>2. CASE Away
  BY <1>2 DEF Away, SaleHand, OnFlatten
<1>3. ASSUME job'.at \in LoopSteps \cup {"mark"}
      PROVE  SaleHand'
  BY <1>3 DEF SaleHand, LoopSteps, OnFlatten
<1>4. ASSUME NEW t \in Trades, PlaceStop(t)
      PROVE  SaleHand'
  <2>1. CASE job'.at \in LoopSteps
    BY <1>3, <2>1
  <2>2. ASSUME NEW o, Asked(o, "stop", t, row[t].qty), Brings(o),
               job'.got # "confirmed" => o.status \in Dead,
               job'.at = "save_stop", job'.t = t, job'.id = Len(orders) + 1
        PROVE  SaleHand'
    <3> PICK n : n = Len(orders) + 1
      OBVIOUS
    <3>1. n \in OrdersOf("stop", t)' /\ orders'[n] = o
      <4>1. OrdersOf("stop", t)' = OrdersOf("stop", t) \cup {n}
        BY <2>2, OneMore DEF Brings, Asked
      <4> QED
        BY <2>2, <4>1 DEF Brings, AddsOrder
    <3>2. o.status \in Dead => o.filled = 0 /\ o.status # "OPEN"
      BY <2>2 DEF Asked, WellMade, Dead
    <3>3. job'.got # "confirmed" => Void(n)'
      BY <2>2, <3>1, <3>2 DEF Void, Working
    <3> QED
      BY <2>2, <3>1, <3>3 DEF SaleHand, OnFlatten, Void, Working
  <2> QED
    BY <1>4, <2>1, <2>2, PlaceStopLeaves
<1>5. CASE SendExit
  <2> PICK t : t = job.t
    OBVIOUS
  <2> PICK n : n = job'.id
    OBVIOUS
  <2>1. /\ t \in Trades /\ row' = row /\ row[t].state \in Holding
        /\ job.at = "send_exit" /\ StopsVoid(t)
        /\ \/ job'.at \in LoopSteps \cup {"mark"}
           \/ /\ job'.at = "save_exit" /\ job'.t = t /\ job'.why = job.why
              /\ n \in OrdersOf("exit", t)'
    <3>1. ASSUME orders' = orders, n \in OrdersOf("exit", t)
          PROVE  n \in OrdersOf("exit", t)'
      BY <3>1, SameOuts
    <3>2. ASSUME NEW o, Asked(o, "exit", t, row[t].qty), Brings(o), n = Len(orders) + 1
          PROVE  n \in OrdersOf("exit", t)'
      <4>1. OrdersOf("exit", t)' = OrdersOf("exit", t) \cup {Len(orders) + 1}
        BY <3>2, OneMore DEF Brings, Asked
      <4> QED
        BY <3>2, <4>1
    <3> QED
      BY <1>5, <3>1, <3>2, SendExitLeaves
  <2>2. job.why \in ActiveReasons
    BY <1>1, <2>1 DEF HandTrue, OnFlatten
  <2>3. ~PlaceStop(t)
    BY <2>1 DEF PlaceStop, At
  <2>4. StopsVoid(t)'
    BY <2>1, <2>3, StopsStayVoid
  <2> QED
    BY <1>3, <2>1, <2>2, <2>4 DEF SaleHand, OnFlatten, StopsVoid
<1>6. CASE SaveEntry
  <2> PICK t : t = job.t
    OBVIOUS
  <2> PICK e : e = job.id
    OBVIOUS
  <2>1. /\ job.at = "save_entry" /\ orders' = orders
        /\ row' = [row EXCEPT ![t].state = "ENTRY_SUBMITTED", ![t].entry = e]
        /\ job' = IF job.got = "filled" THEN [job EXCEPT !.at = "save_fill"] ELSE Resume(job)
    BY <1>6 DEF SaveEntry, At, brokerVars
  <2>2. t \in Trades /\ row \in [Trades -> Row]
    BY <1>1, <2>1, TradeInHand DEF OnRow, OnIntent, IInv, TypeOK
  <2>3. CASE job.got = "filled"
    <3>1. job'.at = "save_fill" /\ job'.t = t /\ job'.id = e
      BY <1>1, <2>1, <2>3 DEF Job
    <3>2. row'[t].entry = e
      BY <2>1, <2>2 DEF Row
    <3>3. FillFinal(orders[e]) /\ orders[e].shown
      BY <1>1, <2>1, <2>3 DEF HandTrue
    <3>4. e \in OrdersOf("entry", t)
      BY <2>1 DEF Standing, RefusedInv, EntryBound
    <3>5. e \in OrdersOf("entry", t)'
      BY <2>1, <3>1, <3>4, SameOuts
    <3> QED
      BY <2>1, <3>1, <3>2, <3>3, <3>5 DEF SaleHand, OnFlatten
  <2>4. CASE job.got # "filled"
    <3>1. job'.at \in LoopSteps
      BY <1>1, <2>1, <2>4 DEF Resume, Job
    <3> QED
      BY <1>3, <3>1
  <2> QED
    BY <2>3, <2>4
<1> QED
  BY <1>1, <1>2, <1>4, <1>5, <1>6, FlattenHand, CancelStopHand, WhoHolds

\* What the tick has in hand stays so.
LEMMA HandStaysTrue ==
  ASSUME BrokerAssumption, AccountKnown, Standing, [Next]_vars
  PROVE  HandTrue'
<1>1. ASSUME job' # job
      PROVE  HandTrue'
  <2>1. EntryHand' /\ SaleHand'
    BY <1>1, EntryHandTrue, SaleHandTrue
  <2> QED
    BY <2>1 DEF EntryHand, SaleHand, HandTrue
<1> QED
  BY <1>1, HandKept

-----------------------------------------------------------------------------
(* What the account holds. *)

\* A trade closed was sold by one order, which is done, as its entry is.
LEMMA ClosedDone ==
  ASSUME BrokerAssumption, Standing, NEW t \in Trades, row[t].state = "CLOSED", NEW i \in Outs(t)
  PROVE  ~Working(i)
<1> SUFFICES ASSUME Working(i)
             PROVE  FALSE
  OBVIOUS
<1>1. TradeTrue(t) /\ BrokerTypeOK /\ OrdersMade
  BY DEF Standing, AccountInv, TradesTrue, IInv, TypeOK
<1>2. PICK x \in Outs(t) : orders[x].filled = orders[row[t].entry].filled
  BY <1>1 DEF TradeTrue, ClosedIs
<1>3. orders[row[t].entry].filled > 0
  BY Bought
<1>4. ~Void(x) /\ ~Void(i)
  BY <1>2, <1>3 DEF Void
<1>5. i = x /\ orders[i].qty = orders[row[t].entry].filled
  BY <1>1, <1>4 DEF TradeTrue, OneSeller
<1>6. i \in Ids /\ orders[i].filled < orders[i].qty
  <2>1. i \in Ids
    BY DEF Outs, OrdersOf
  <2> QED
    BY <1>1, <2>1 DEF OrdersMade, WellMade, Working
<1>7. orders[i].filled \in Nat /\ orders[i].qty \in Nat
  BY <1>1, <1>6, OrderFields
<1> QED
  BY <1>2, <1>5, <1>6, <1>7

\* The entry of a trade that became a position is done.
LEMMA EntryOver ==
  ASSUME Standing, NEW t \in Trades, row[t].state \in Holding \cup {"CLOSED"},
         NEW e \in OrdersOf("entry", t)
  PROVE  e = row[t].entry /\ ~Working(e)
<1>1. row[t].entry \in OrdersOf("entry", t) /\ ~Working(row[t].entry)
  BY Bought
<1>2. AtMostOneEntry
  BY DEF Standing, IInv, BookInv
<1> QED
  BY <1>1, <1>2 DEF AtMostOneEntry, OrdersOf

\* An order that can still fill is one of an open trade.
LEMMA WorkingIsOpen ==
  ASSUME BrokerAssumption, Standing, NEW i \in Ids, Working(i)
  PROVE  orders[i].trade \in OpenRows
<1>1. PICK t \in Trades : t = orders[i].trade
  BY DEF Standing, AccountInv, OrdersMade, WellMade
<1>2. TradeTrue(t) /\ orders[i].kind \in OwnKinds
  BY DEF Standing, AccountInv, TradesTrue, OrdersMade, WellMade
<1>3. CASE orders[i].kind = "entry"
  <2>1. i \in OrdersOf("entry", t)
    BY <1>1, <1>3 DEF OrdersOf
  <2>2. row[t].state # "NONE"
    BY <1>1, <1>3 DEF Standing, IInv, BookInv, IntentFirst
  <2>3. row[t].state \notin {"REJECTED", "CANCELLED"}
    BY <2>1 DEF Standing, RefusedInv, RefusedTradesHoldNothing
  <2>4. row[t].state # "CLOSED"
    BY <2>1, EntryOver
  <2> QED
    BY <1>1, <2>2, <2>3, <2>4 DEF OpenRows, Terminal
<1>4. CASE orders[i].kind # "entry"
  <2>1. i \in Outs(t)
    BY <1>1, <1>2, <1>4 DEF OwnKinds, Outs, OrdersOf
  <2>2. row[t].state \in Holding \cup {"CLOSED"}
    BY <1>2, <2>1 DEF TradeTrue, NotHeld
  <2>3. row[t].state # "CLOSED"
    BY <2>1, ClosedDone
  <2> QED
    BY <1>1, <2>2, <2>3 DEF OpenRows, Terminal, Holding
<1> QED
  BY <1>3, <1>4

\* So is one the engine sends: the entry of a trade that has none, or the one
\* order that sells what it holds.
LEMMA SentIsOpen ==
  ASSUME BrokerAssumption, AccountKnown, Standing, NEW o, Sent(o), AddsOrder(o)
  PROVE  /\ o.trade \in OpenRows
         /\ o.kind = "entry" => OrdersOf("entry", o.trade) = {} /\ Outs(o.trade) = {}
         /\ o.kind # "entry" => \A x \in Outs(o.trade) : Void(x)
<1>0. PICK t \in Trades : t = o.trade
  BY DEF Sent, WellMade
<1>1. TradeTrue(t)
  BY DEF Standing, AccountInv, TradesTrue
<1>2. orders' # orders
  BY DEF AddsOrder, Ids
<1>3. CASE o.kind = "entry"
  <2>1. SendEntry /\ t = job.t
    BY <1>0, <1>3 DEF Sent
  <2>2. row[t].state = "PENDING_ENTRY" /\ OrdersOf("entry", t) = {}
    BY <2>1, SendEntryAccount
  <2>3. Outs(t) = {}
    BY <1>1, <2>2 DEF TradeTrue, NotHeld, Holding
  <2> QED
    BY <1>0, <1>3, <2>2, <2>3 DEF OpenRows, Terminal
<1>4. CASE o.kind = "stop"
  <2>1. PlaceStop(t)
    BY <1>0, <1>4 DEF Sent
  <2>2. row[t].state = "ENTERED" /\ job.at \in {"protect", "place_stop"}
    BY <2>1, PlaceStopLeaves
  <2>3. ~Saving("save_stop", t) /\ ~Saving("save_exit", t) /\ row[t].state \in Kept
    BY <2>2, NothingSaved DEF Kept
  <2>4. \A i \in Outs(t) : Void(i)
    BY <1>1, <2>2, <2>3 DEF TradeTrue, KeptIs, Outs
  <2> QED
    BY <1>0, <1>4, <2>2, <2>4 DEF OpenRows, Terminal
<1>5. CASE o.kind = "exit"
  <2>1. SendExit /\ t = job.t
    BY <1>0, <1>5 DEF Sent
  <2>2. row[t].state \in Kept /\ StopsVoid(t) /\ OrdersOf("exit", t) = {}
    BY <1>2, <2>1, SendExitLeaves
  <2>3. \A i \in Outs(t) : Void(i)
    BY <2>2 DEF Outs, StopsVoid
  <2> QED
    BY <1>0, <1>5, <2>2, <2>3 DEF OpenRows, Terminal, Kept
<1> QED
  BY <1>3, <1>4, <1>5 DEF Sent

\* Shares bought, and shares sold, on one side of the market.
LEMMA Shares ==
  ASSUME NEW d \in {-1, 1}, NEW a \in Int, NEW b \in Int, NEW c \in Int
  PROVE  /\ d * a \in Int
         /\ d * a + d * (b - a) = d * b
         /\ d * (c - a) + (-d) * (b - a) = d * (c - b)
         /\ d * (c - 0) = d * c
         /\ d * c + (-d) * b = d * (c - b)
         /\ 0 + d * c = d * c
         /\ d * (c - c) = 0 /\ d * 0 = 0
         /\ d * c = d * a => a = c
<1>1. CASE d = 1
  BY <1>1
<1>2. CASE d = -1
  BY <1>2
<1> QED
  BY <1>1, <1>2

\* What the account holds of a trade stays while its orders fill nothing.
LEMMA NetKept ==
  ASSUME NEW t, OrdersOf("entry", t)' = OrdersOf("entry", t), Outs(t)' = Outs(t),
         net'[SymbolOf[t]] = net[SymbolOf[t]],
         \A i \in OrdersOf("entry", t) \cup Outs(t) : orders'[i].filled = orders[i].filled,
         NetIs(t)
  PROVE  NetIs(t)'
BY DEF NetIs

\* The orders of a trade are in the book.
LEMMA InBook ==
  ASSUME NEW t
  PROVE  /\ OrdersOf("entry", t) \subseteq Ids /\ Outs(t) \subseteq Ids
         /\ \A i \in OrdersOf("entry", t) : orders[i].trade = t /\ orders[i].kind = "entry"
         /\ \A i \in Outs(t) : orders[i].trade = t /\ orders[i].kind \in {"stop", "exit"}
BY DEF OrdersOf, Outs

\* No order more, no order of a trade more.
LEMMA NoneMore ==
  ASSUME Grows, AddsNone, NEW t
  PROVE  OrdersOf("entry", t)' = OrdersOf("entry", t) /\ Outs(t)' = Outs(t)
BY NoMore DEF Outs

\* What the account says of the shares of an open trade follows its fills,
LEMMA FillsNet ==
  ASSUME BrokerAssumption, Standing, Grows, BrokerTypeOK', NEW i \in Ids, Fills(i),
         NEW t \in OpenRows, NetIs(t)
  PROVE  NetIs(t)'
<1> DEFINE s == SymbolOf[t]
           d == DirOf[t]
<1>0. BrokerTypeOK /\ OrdersMade /\ t \in Trades /\ IInv /\ OneOpenTradePerSymbol
  BY DEF Standing, AccountInv, IInv, TypeOK, OpenRows
<1>1. /\ AddsNone /\ Working(i) /\ \A j \in Ids \ {i} : orders'[j].filled = orders[j].filled
      /\ net' = [net EXCEPT ![orders[i].sym] =
                   @ + orders[i].side * (orders'[i].filled - orders[i].filled)]
  BY DEF Fills
<1>2. OrdersOf("entry", t)' = OrdersOf("entry", t) /\ Outs(t)' = Outs(t)
  BY <1>1, NoneMore
<1>3. PICK u \in OpenRows : u = orders[i].trade
  BY <1>1, WorkingIsOpen
<1>4. WellMade(orders[i]) /\ orders[i].sym = SymbolOf[u] /\ orders[i].side = Side(orders[i].kind, u)
  BY <1>0, <1>3 DEF OrdersMade, WellMade
<1>5. CASE u # t
  <2>1. SymbolOf[u] # s
    BY <1>0, <1>3, <1>5 DEF OneOpenTradePerSymbol
  <2>2. net'[s] = net[s]
    BY <1>0, <1>1, <1>4, <2>1 DEF BrokerTypeOK, BrokerAssumption
  <2>3. \A j \in OrdersOf("entry", t) \cup Outs(t) : j \in Ids \ {i}
    BY <1>3, <1>5, InBook
  <2> QED
    BY <1>1, <1>2, <2>2, <2>3, NetKept
<1>6. CASE u = t
  <2>1. d \in {-1, 1} /\ s \in Symbols /\ net[s] \in Int
    BY <1>0 DEF BrokerTypeOK, BrokerAssumption
  <2>2. net'[s] = net[s] + Side(orders[i].kind, t) * (orders'[i].filled - orders[i].filled)
    BY <1>0, <1>1, <1>4, <1>6, <2>1 DEF BrokerTypeOK
  <2>3. orders[i].filled \in Nat /\ orders'[i].filled \in Nat
    BY <1>0, <1>1, OrderFields, OrderFieldsNext DEF AddsNone
  <2>4. CASE orders[i].kind = "entry"
    <3>1. i \in OrdersOf("entry", t)
      BY <1>3, <1>6, <2>4 DEF OrdersOf
    <3>2. \A e \in OrdersOf("entry", t) : e = i
      BY <1>0, <3>1 DEF IInv, BookInv, AtMostOneEntry, OrdersOf
    <3>3. row[t].state \notin Holding \cup {"CLOSED"}
      BY <1>0, <1>1, <3>1, EntryOver
    <3>4. Outs(t) = {}
      BY <1>0, <3>3 DEF Standing, AccountInv, TradesTrue, TradeTrue, NotHeld
    <3>5. net[s] = d * orders[i].filled
      BY <3>1, <3>4 DEF NetIs
    <3>6. net'[s] = d * orders[i].filled + d * (orders'[i].filled - orders[i].filled)
      BY <2>2, <2>4, <3>5 DEF Side
    <3>7. net'[s] = d * orders'[i].filled
      <4> HIDE DEF d
      <4> QED
        BY <2>1, <2>3, <3>6, Shares
    <3> QED
      BY <1>2, <3>1, <3>2, <3>4, <3>7 DEF NetIs
  <2>5. CASE orders[i].kind # "entry"
    <3>1. i \in Outs(t)
      BY <1>3, <1>4, <1>6, <2>5 DEF WellMade, OwnKinds, Outs, OrdersOf
    <3>2. \A x \in Outs(t) : orders[x].filled > 0 => x = i
      <4> SUFFICES ASSUME NEW x \in Outs(t), orders[x].filled > 0
                   PROVE  x = i
        OBVIOUS
      <4>1. ~Void(x) /\ ~Void(i)
        BY <1>1 DEF Void
      <4> QED
        BY <1>0, <3>1, <4>1 DEF Standing, AccountInv, TradesTrue, TradeTrue, OneSeller
    <3>3. \A x \in Outs(t) : orders[x].filled \in Nat
      BY <1>0, InBook, OrderFields
    <3>4. ASSUME NEW e \in OrdersOf("entry", t)
          PROVE  /\ orders'[e].filled = orders[e].filled /\ orders[e].filled \in Nat
                 /\ net'[s] = d * (orders[e].filled - orders'[i].filled)
      <4>1. e \in Ids \ {i} /\ orders[e].filled \in Nat
        BY <1>0, <2>5, InBook, OrderFields
      <4>2. net[s] = d * (orders[e].filled - orders[i].filled)
        <5>1. CASE orders[i].filled > 0
          BY <3>1, <5>1 DEF NetIs
        <5>2. CASE orders[i].filled = 0
          <6>1. \A x \in Outs(t) : orders[x].filled = 0
            BY <3>2, <3>3, <5>2
          <6>2. net[s] = d * orders[e].filled
            BY <6>1 DEF NetIs
          <6> HIDE DEF d
          <6> QED
            BY <2>1, <4>1, <5>2, <6>2, Shares
        <5> QED
          BY <2>3, <5>1, <5>2
      <4>3. net'[s] = net[s] + (-d) * (orders'[i].filled - orders[i].filled)
        BY <2>2, <2>5 DEF Side
      <4> HIDE DEF d
      <4>4. d * (orders[e].filled - orders[i].filled) + (-d) * (orders'[i].filled - orders[i].filled)
              = d * (orders[e].filled - orders'[i].filled)
        BY <2>1, <2>3, <4>1, Shares
      <4> QED
        BY <1>1, <4>1, <4>2, <4>3, <4>4
    <3>5. OrdersOf("entry", t) # {}
      <4>1. row[t].state \in Holding \cup {"CLOSED"}
        BY <1>0, <3>1 DEF Standing, AccountInv, TradesTrue, TradeTrue, NotHeld
      <4> QED
        BY <1>0, <4>1, Bought
    <3>6. \A x \in Outs(t) : orders'[x].filled > 0 => x = i
      BY <1>1, <3>2, InBook
    <3>7. ASSUME NEW e \in OrdersOf("entry", t), \A x \in Outs(t) : orders'[x].filled = 0
          PROVE  net'[s] = d * orders'[e].filled
      <4>1. orders'[i].filled = 0
        BY <3>1, <3>7
      <4>2. net'[s] = d * (orders[e].filled - 0) /\ orders'[e].filled = orders[e].filled
            /\ orders[e].filled \in Nat
        BY <3>4, <4>1
      <4> HIDE DEF d
      <4> QED
        BY <2>1, <4>2, Shares
    <3> QED
      BY <1>2, <3>4, <3>5, <3>6, <3>7 DEF NetIs
  <2> QED
    BY <2>4, <2>5
<1> QED
  BY <1>5, <1>6

\* An order more, of its kind and its trade.
LEMMA ItIsMore ==
  ASSUME NEW o, AddsOrder(o)
  PROVE  /\ OrdersOf(o.kind, o.trade)' = OrdersOf(o.kind, o.trade) \cup {Len(orders) + 1}
         /\ \A k : k # o.kind => OrdersOf(k, o.trade)' = OrdersOf(k, o.trade)
<1>1. PICK k, t : k = o.kind /\ t = o.trade
  OBVIOUS
<1>2. OrdersOf(k, t)' = OrdersOf(k, t) \cup {Len(orders) + 1}
  BY <1>1, OneMore
<1>3. \A h : h # k => OrdersOf(h, t)' = OrdersOf(h, t)
  BY <1>1, OneMore
<1> QED
  BY <1>1, <1>2, <1>3, Zenon

\* and what it sends.
LEMMA BringsNet ==
  ASSUME BrokerAssumption, AccountKnown, Standing, Grows, BrokerTypeOK', NEW o, Sent(o), Brings(o),
         NEW t \in OpenRows, NetIs(t)
  PROVE  NetIs(t)'
<1> DEFINE s == SymbolOf[t]
           d == DirOf[t]
           n == Len(orders) + 1
<1>0. BrokerTypeOK /\ OrdersMade /\ t \in Trades /\ IInv /\ OneOpenTradePerSymbol
  BY DEF Standing, AccountInv, IInv, TypeOK, OpenRows
<1>1. /\ AddsOrder(o) /\ net' = [net EXCEPT ![o.sym] = @ + o.side * o.filled]
      /\ o \in Order /\ WellMade(o) /\ n \notin Ids /\ orders'[n] = o
      /\ \A i \in Ids : orders'[i] = orders[i]
  BY DEF Brings, Sent, AddsOrder
<1>2. PICK u \in OpenRows : u = o.trade
  BY <1>1, SentIsOpen
<1>3. /\ o.kind = "entry" => OrdersOf("entry", u) = {} /\ Outs(u) = {}
      /\ o.kind # "entry" => \A x \in Outs(u) : Void(x)
  BY <1>1, <1>2, SentIsOpen
<1>4. o.sym = SymbolOf[u] /\ o.side = Side(o.kind, u) /\ o.filled \in Nat
  BY <1>1, <1>2 DEF WellMade, Order
<1>5. CASE u # t
  <2>1. SymbolOf[u] # s
    BY <1>0, <1>2, <1>5 DEF OneOpenTradePerSymbol
  <2>2. net'[s] = net[s]
    BY <1>0, <1>1, <1>4, <2>1 DEF BrokerTypeOK, BrokerAssumption
  <2>3. OrdersOf("entry", t)' = OrdersOf("entry", t) /\ Outs(t)' = Outs(t)
    BY <1>1, <1>2, <1>5, OneMore DEF Outs
  <2> QED
    BY <1>1, <2>2, <2>3, InBook, NetKept
<1>6. CASE u = t
  <2>1. d \in {-1, 1} /\ s \in Symbols /\ net[s] \in Int
    BY <1>0 DEF BrokerTypeOK, BrokerAssumption
  <2>2. net'[s] = net[s] + Side(o.kind, t) * o.filled
    BY <1>0, <1>1, <1>4, <1>6, <2>1 DEF BrokerTypeOK
  <2>3. CASE o.kind = "entry"
    <3>1. OrdersOf("entry", t)' = {n} /\ Outs(t)' = {}
      <4>1. /\ OrdersOf("entry", t)' = OrdersOf("entry", t) \cup {n}
            /\ OrdersOf("stop", t)' = OrdersOf("stop", t)
            /\ OrdersOf("exit", t)' = OrdersOf("exit", t)
        <5>1. PICK k : /\ k = o.kind /\ OrdersOf(k, t)' = OrdersOf(k, t) \cup {n}
                     /\ \A h : h # o.kind => OrdersOf(h, t)' = OrdersOf(h, t)
          BY <1>1, <1>2, <1>6, ItIsMore
        <5>2. \A h : h # k => OrdersOf(h, t)' = OrdersOf(h, t)
          BY <5>1
        <5> QED
          BY <2>3, <5>1, <5>2
      <4>2. OrdersOf("entry", t) = {} /\ OrdersOf("stop", t) = {} /\ OrdersOf("exit", t) = {}
        BY <1>3, <1>6, <2>3 DEF Outs
      <4> QED
        BY <4>1, <4>2 DEF Outs
    <3>2. net[s] = 0
      BY <1>3, <1>6, <2>3 DEF NetIs
    <3>3. net'[s] = 0 + d * o.filled
      BY <2>2, <2>3, <3>2 DEF Side
    <3>4. net'[s] = d * o.filled
      <4> HIDE DEF d
      <4> QED
        BY <1>4, <2>1, <3>3, Shares
    <3> QED
      BY <1>1, <3>1, <3>4 DEF NetIs
  <2>4. CASE o.kind # "entry"
    <3>1. OrdersOf("entry", t)' = OrdersOf("entry", t) /\ Outs(t)' = Outs(t) \cup {n}
      <4>1. PICK k : /\ k = o.kind /\ OrdersOf(k, t)' = OrdersOf(k, t) \cup {n}
                   /\ \A h : h # o.kind => OrdersOf(h, t)' = OrdersOf(h, t)
        BY <1>1, <1>2, <1>6, ItIsMore
      <4>2. \A h : h # k => OrdersOf(h, t)' = OrdersOf(h, t)
        BY <4>1
      <4>3. k = "stop" \/ k = "exit"
        BY <2>4, <4>1 DEF Sent
      <4>4. OrdersOf("entry", t)' = OrdersOf("entry", t)
        BY <4>2, <4>3
      <4>5. CASE k = "stop"
        BY <4>1, <4>2, <4>4, <4>5 DEF Outs
      <4>6. CASE k = "exit"
        BY <4>1, <4>2, <4>4, <4>6 DEF Outs
      <4> QED
        BY <4>3, <4>5, <4>6
    <3>2. \A x \in Outs(t) : orders[x].filled = 0
      BY <1>3, <1>6, <2>4 DEF Void
    <3>3. ASSUME NEW e \in OrdersOf("entry", t)
          PROVE  /\ orders'[e].filled = orders[e].filled
                 /\ net'[s] = d * (orders[e].filled - o.filled)
                 /\ o.filled = 0 => net'[s] = d * orders[e].filled
      <4>1. e \in Ids /\ orders[e].filled \in Nat
        BY <1>0, InBook, OrderFields
      <4>2. net[s] = d * orders[e].filled
        BY <3>2 DEF NetIs
      <4>3. net'[s] = net[s] + (-d) * o.filled
        BY <2>2, <2>4 DEF Side
      <4> HIDE DEF d
      <4>4. d * orders[e].filled + (-d) * o.filled = d * (orders[e].filled - o.filled)
        BY <1>4, <2>1, <4>1, Shares
      <4>5. d * (orders[e].filled - 0) = d * orders[e].filled
        BY <2>1, <4>1, Shares
      <4> QED
        BY <1>1, <4>1, <4>2, <4>3, <4>4, <4>5
    <3>4. OrdersOf("entry", t) # {}
      <4>1. row[t].state \in Holding
        <5>1. CASE o.kind = "stop"
          <6>1. PlaceStop(t)
            BY <1>2, <1>6, <5>1 DEF Sent
          <6> QED
            BY <1>0, <6>1, PlaceStopLeaves DEF Holding
        <5>2. CASE o.kind = "exit"
          <6>1. SendExit /\ t = job.t
            BY <1>2, <1>6, <5>2 DEF Sent
          <6> QED
            BY <6>1, SendExitLeaves
        <5> QED
          BY <2>4, <5>1, <5>2 DEF Sent
      <4> QED
        BY <1>0, <4>1, Bought
    <3>5. \A x \in Outs(t) : orders'[x].filled = 0
      BY <1>1, <3>2, InBook
    <3>6. orders'[n].filled = o.filled
      BY <1>1
    <3> HIDE DEF n, d
    <3> QED
      BY <3>1, <3>3, <3>4, <3>5, <3>6 DEF NetIs, d
  <2> QED
    BY <2>3, <2>4
<1> QED
  BY <1>5, <1>6

\* What the account holds of an open trade, after any step.
LEMMA OpenNet ==
  ASSUME BrokerAssumption, AccountKnown, Standing, [Next]_vars, NEW t \in OpenRows
  PROVE  NetIs(t)'
<1>1. Grows /\ (Idles \/ (\E i \in Ids : Fills(i)) \/ (\E o : Sent(o) /\ Brings(o)))
  BY AccountStep
<1>2. BrokerTypeOK' /\ NetIs(t)
  BY StaysStanding DEF Standing, AccountInv, NetTrue
<1>3. CASE Idles
  <2>1. AddsNone /\ net' = net /\ \A i \in Ids : orders'[i].filled = orders[i].filled
    BY <1>3 DEF Idles
  <2>2. OrdersOf("entry", t)' = OrdersOf("entry", t) /\ Outs(t)' = Outs(t)
    BY <1>1, <2>1, NoneMore
  <2> QED
    BY <1>2, <2>1, <2>2, InBook, NetKept
<1>4. CASE \E i \in Ids : Fills(i)
  BY <1>1, <1>2, <1>4, FillsNet
<1>5. CASE \E o : Sent(o) /\ Brings(o)
  BY <1>1, <1>2, <1>5, BringsNet
<1> QED
  BY <1>1, <1>3, <1>4, <1>5

\* A symbol none of whose trades is open does not move.
LEMMA QuietSymbol ==
  ASSUME BrokerAssumption, AccountKnown, Standing, [Next]_vars, NEW s \in Symbols,
         \A t \in OpenRows : SymbolOf[t] # s
  PROVE  net'[s] = net[s]
<1>1. Idles \/ (\E i \in Ids : Fills(i)) \/ (\E o : Sent(o) /\ Brings(o))
  BY AccountStep
<1>2. BrokerTypeOK /\ OrdersMade
  BY DEF Standing, AccountInv, IInv, TypeOK
<1>3. ASSUME NEW i \in Ids, Fills(i)
      PROVE  net'[s] = net[s]
  <2>1. PICK u \in OpenRows : u = orders[i].trade
    BY <1>3, WorkingIsOpen DEF Fills
  <2>2. orders[i].sym # s
    BY <1>2, <2>1 DEF OrdersMade, WellMade
  <2> QED
    BY <1>2, <1>3, <2>2 DEF Fills, BrokerTypeOK
<1>4. ASSUME NEW o, Sent(o), Brings(o)
      PROVE  net'[s] = net[s]
  <2>1. o.trade \in OpenRows
    BY <1>4, SentIsOpen DEF Brings
  <2>2. o.sym # s
    BY <1>4, <2>1 DEF Sent, WellMade
  <2> QED
    BY <1>2, <1>4, <2>2 DEF Brings, BrokerTypeOK
<1> QED
  BY <1>1, <1>3, <1>4 DEF Idles

\* A row once written stays.
LEMMA RowStays ==
  ASSUME IInv, [Next]_vars, NEW t \in Trades, row[t].state # "NONE"
  PROVE  row'[t].state # "NONE"
<1>1. [Lifecycle!Next]_RowStates
  BY NextFollows
<1>2. RowStates[t] = row[t].state /\ RowStates'[t] = row'[t].state
  BY DEF RowStates
<1>3. RowStates \in [Trades -> {row[w].state : w \in Trades}]
  BY DEF RowStates
<1>4. CASE RowStates' = RowStates
  BY <1>2, <1>4
<1>5. ASSUME NEW u \in Trades, Lifecycle!Create(u)
      PROVE  RowStates'[t] # "NONE"
  BY <1>2, <1>3, <1>5 DEF Lifecycle!Create
<1>6. ASSUME NEW u \in Trades, Lifecycle!Transition(u)
      PROVE  RowStates'[t] # "NONE"
  <2>1. PICK s \in Lifecycle!AllowedTransitions[RowStates[u]] :
          RowStates' = [RowStates EXCEPT ![u] = s]
    BY <1>6 DEF Lifecycle!Transition
  <2>2. s # "NONE"
    BY <1>6, <2>1 DEF Lifecycle!Transition, Lifecycle!AllowedTransitions, Lifecycle!States,
       Lifecycle!Unfilled, Lifecycle!Holding, Lifecycle!Terminal
  <2> QED
    BY <1>2, <1>3, <2>1, <2>2
<1> QED
  BY <1>1, <1>2, <1>4, <1>5, <1>6 DEF Lifecycle!Next

\* A trade is put away only when nothing of it is held.
LEMMA ClosingIsFlat ==
  ASSUME BrokerAssumption, AccountKnown, Standing, [Next]_vars, NEW t \in OpenRows, t \notin OpenRows'
  PROVE  net'[SymbolOf[t]] = 0
<1>0. /\ t \in Trades /\ IInv /\ BrokerTypeOK /\ row[t].state \notin Terminal \cup {"NONE"}
      /\ row'[t].state \in Terminal \cup {"NONE"}
  BY DEF OpenRows, Standing, IInv, TypeOK
<1>1. Writes(t)
  BY <1>0, OthersKeepRow
<1>2. orders' = orders /\ net' = net
  BY <1>1, WritesAlone
<1>3. row'[t].state \in {"CLOSED", "REJECTED", "CANCELLED"}
  BY <1>0, RowStays DEF Terminal
<1>4. TradeTrue(t)'
  BY <1>0, TradesStayTrue DEF TradesTrue
<1>5. NetIs(t) /\ DirOf[t] \in {-1, 1}
  BY <1>0 DEF Standing, AccountInv, NetTrue, BrokerAssumption
<1>6. \A i \in OrdersOf("entry", t) \cup Outs(t) : orders[i].filled \in Nat
  BY <1>0, InBook, OrderFields
<1>7. CASE row'[t].state = "CLOSED"
  <2>1. PICK x \in Outs(t) : orders[x].filled = orders[row'[t].entry].filled
    BY <1>2, <1>4, <1>7, SameOuts DEF TradeTrue, ClosedIs
  <2>2. row'[t].entry \in OrdersOf("entry", t) /\ orders[row'[t].entry].filled > 0
    BY <1>2, <1>4, <1>7, SameOuts DEF TradeTrue, EntryDone
  <2>3. net[SymbolOf[t]] = DirOf[t] * (orders[row'[t].entry].filled - orders[x].filled)
    BY <1>5, <2>1, <2>2 DEF NetIs
  <2>4. PICK n \in Int : n = orders[x].filled /\ n = orders[row'[t].entry].filled
    BY <1>6, <2>1
  <2>5. net[SymbolOf[t]] = DirOf[t] * (n - n)
    BY <2>3, <2>4
  <2> QED
    BY <1>2, <1>5, <2>5, Shares
<1>8. CASE row'[t].state \in {"REJECTED", "CANCELLED"}
  <2>1. Outs(t) = {}
    BY <1>2, <1>4, <1>8, SameOuts DEF TradeTrue, NotHeld, Holding
  <2>2. \A e \in OrdersOf("entry", t) : orders[e].filled = 0
    <3>1. RefusedTradesHoldNothing'
      BY StaysRefused DEF Standing, AccountKnown
    <3>2. \A e \in OrdersOf("entry", t)' : orders'[e].filled = 0
      BY <1>0, <1>8, <3>1 DEF RefusedTradesHoldNothing
    <3>3. OrdersOf("entry", t)' = OrdersOf("entry", t)
      BY <1>2, SameOuts
    <3> QED
      BY <1>2, <3>2, <3>3
  <2>3. CASE OrdersOf("entry", t) = {}
    BY <1>2, <1>5, <2>3 DEF NetIs
  <2>4. CASE OrdersOf("entry", t) # {}
    <3>1. net[SymbolOf[t]] = DirOf[t] * 0
      BY <1>5, <2>1, <2>2, <2>4 DEF NetIs
    <3> QED
      BY <1>2, <1>5, <3>1, Shares
  <2> QED
    BY <2>3, <2>4
<1> QED
  BY <1>3, <1>7, <1>8

\* Whatever happens next, the account holds what the open trades hold.
LEMMA NetStaysTrue ==
  ASSUME BrokerAssumption, AccountKnown, Standing, [Next]_vars
  PROVE  NetTrue'
<1>1. IInv /\ NetTrue
  BY DEF Standing, AccountInv
<1>2. ASSUME NEW t \in OpenRows'
      PROVE  NetIs(t)'
  <2>1. CASE t \in OpenRows
    BY <2>1, OpenNet
  <2>2. CASE t \notin OpenRows
    <3>1. PICK u \in Trades : Intend(u)
      BY <1>1, <2>2, OpenShrinks
    <3>2. u = t /\ t \in Trades
      BY <1>1, <2>2, <3>1 DEF Intend, OpenRows, IInv, TypeOK
    <3>3. /\ orders' = orders /\ net' = net
          /\ \A v \in OpenRows : SymbolOf[v] # SymbolOf[t]
      BY <3>1, <3>2 DEF Intend, EntryGate, brokerVars
    <3>4. SymbolOf[t] \in Symbols
      BY <3>2 DEF BrokerAssumption
    <3>5. net[SymbolOf[t]] = 0
      BY <1>1, <3>3, <3>4 DEF NetTrue
    <3>6. row[t].state = "NONE"
      BY <1>1, <3>1, <3>2 DEF Intend, At, IInv, JobInv, JobCoherent, RowsAhead, LoopSteps
    <3>7. OrdersOf("entry", t) = {}
      BY <1>1, <3>2, <3>6 DEF IInv, BookInv, IntentFirst, OrdersOf
    <3> QED
      BY <3>3, <3>5, <3>7, SameOuts DEF NetIs
  <2> QED
    BY <2>1, <2>2
<1>3. ASSUME NEW s \in Symbols, \A t \in OpenRows' : SymbolOf[t] # s
      PROVE  net'[s] = 0
  <2>1. CASE \A t \in OpenRows : SymbolOf[t] # s
    BY <1>1, <2>1, QuietSymbol DEF NetTrue
  <2>2. CASE \E t \in OpenRows : SymbolOf[t] = s
    BY <1>3, <2>2, ClosingIsFlat
  <2> QED
    BY <2>1, <2>2
<1> QED
  BY <1>2, <1>3 DEF NetTrue

-----------------------------------------------------------------------------
(* What the positions tell. *)

\* A row that is written leaves the list of the reconciliation.
LEMMA WrittenIsBehind ==
  ASSUME IInv, NEW t \in Trades, Writes(t), job.step = "reconcile"
  PROVE  t \notin job'.todo
<1>0. job \in Job
  BY DEF IInv, TypeOK
<1>1. CASE ReconcileEntryDead(t) \/ ReconcileFlat(t) \/ ReconcileHeld(t)
  <2>1. job' = [job EXCEPT !.todo = @ \ {t}]
    BY <1>1 DEF ReconcileEntryDead, ReconcileFlat, ReconcileHeld
  <2> QED
    BY <1>0, <2>1 DEF Job
<1>2. CASE ReconcileEntryFill(t)
  <2>1. PICK o : job' = ActOnFill(t, o)
    BY <1>2 DEF ReconcileEntryFill
  <2> QED
    BY <1>0, <2>1 DEF ActOnFill, Flatten, Call, Job
<1>3. CASE SquareoffRow(t) \/ Skip(t) \/ Intend(t)
  BY <1>3 DEF SquareoffRow, Skip, Intend, At, IInv, JobInv, JobCoherent, LoopSteps
<1>4. CASE /\ job.t = t
           /\ SaveStop \/ SaveExit \/ SaveFill \/ SaveCancel \/ RejectEntry \/ SaveEntry
  <2>1. t \notin job.todo
    BY <1>4, TradeInHand DEF SaveStop, SaveExit, SaveFill, SaveCancel, RejectEntry, SaveEntry,
       At, OnRow, OnIntent, OnFlatten
  <2>2. CASE SaveStop \/ SaveCancel \/ RejectEntry
    BY <1>0, <2>1, <2>2 DEF SaveStop, SaveCancel, RejectEntry, Resume, Job
  <2>3. CASE SaveExit
    BY <1>0, <2>1, <2>3 DEF SaveExit, FlattenReturns, Resume, Job
  <2>4. CASE SaveEntry
    BY <1>0, <2>1, <2>4 DEF SaveEntry, Resume, Job
  <2>5. CASE SaveFill
    <3>1. PICK o : job' = ActOnFill(t, o)
      BY <1>4, <2>5 DEF SaveFill
    <3> QED
      BY <1>0, <3>1 DEF ActOnFill, Flatten, Call, Job
  <2> QED
    BY <1>4, <2>2, <2>3, <2>4, <2>5
<1> QED
  BY <1>1, <1>2, <1>3, <1>4 DEF Writes

\* The reconciliation goes on with what it has read.
ReadsStay ==
  /\ job.step = "reconcile" /\ job.at # "read1" /\ (job'.at = "read2" <=> job.at = "read2")
  /\ truth' = truth /\ job'.todo \subseteq job.todo

\* A step of the tick that stays in its loop.
LEMMA GoesOn ==
  ASSUME IInv, truth' = truth, job.at \notin Reads, job'.at \notin Reads, job'.step = job.step,
         job'.todo \subseteq job.todo, job'.step = "reconcile"
  PROVE  ReadsStay
BY DEF ReadsStay, Reads

\* No step brings the tick into the midst of a reconciliation but its reads.
LEMMA WhoReads ==
  ASSUME IInv, [Next]_vars, job'.step = "reconcile", job'.at # "read1"
  PROVE  ReadsStay \/ FetchBrokerTruth
<1>0. job \in Job /\ job.step \in LoopSteps
  BY DEF IInv, TypeOK, Job
<1>1. ASSUME NEW step \in {"protect", "commands", "squareoff", "ingest", "asleep"}, NEW S,
             job' = Begin(step, S)
      PROVE  FALSE
  BY <1>1 DEF Begin, Idle
<1>2. CASE truth' = truth /\ job' = job
  BY <1>2 DEF ReadsStay
<1>3. ASSUME NEW t \in Trades, NEW why, job' = Flatten(t, why), truth' = truth, job.at \notin Reads
      PROVE  ReadsStay
  <2>1. job'.at \in {"send_exit", "cancel_stop"} /\ job'.step = job.step /\ job'.todo \subseteq job.todo
    BY <1>0, <1>3 DEF Flatten, Call, Job
  <2> QED
    BY <1>3, <2>1, GoesOn DEF Reads
<1>4. ASSUME NEW t \in Trades, NEW o, job' = ActOnFill(t, o), truth' = truth, job.at \notin Reads
      PROVE  ReadsStay
  <2>1. job'.at \in {"send_exit", "cancel_stop", "place_stop"} /\ job'.step = job.step
        /\ job'.todo \subseteq job.todo
    BY <1>0, <1>4 DEF ActOnFill, Flatten, Call, Job
  <2> QED
    BY <1>4, <2>1, GoesOn DEF Reads
<1>5. ASSUME NEW j \in {[job EXCEPT !.todo = @ \ {u}] : u \in Trades} \cup {job},
             job' = Resume(j), truth' = truth, job.at \notin Reads
      PROVE  ReadsStay
  <2>1. j \in Job /\ j.step = job.step /\ j.todo \subseteq job.todo
    BY <1>0 DEF Job
  <2>2. job'.at = job.step /\ job'.step = job.step /\ job'.todo \subseteq job.todo
    BY <1>5, <2>1 DEF Resume, Job
  <2> QED
    BY <1>0, <1>5, <2>2, GoesOn DEF Reads, LoopSteps
<1>6. ASSUME NEW ok, FlattenReturns(ok), truth' = truth, job.at \notin Reads
      PROVE  ReadsStay
  <2>1. CASE job.step = "commands"
    <3>1. job'.step = "commands"
      BY <1>0, <1>6, <2>1 DEF FlattenReturns, Job
    <3> QED
      BY <3>1
  <2>2. CASE job.step # "commands"
    <3>1. job' = Resume(job)
      BY <1>6, <2>2 DEF FlattenReturns
    <3> QED
      BY <1>5, <1>6, <3>1
  <2> QED
    BY <2>1, <2>2
<1>7. CASE TickStart
  <2>1. CASE OpenRows = {}
    BY <1>1, <1>7, <2>1 DEF TickStart
  <2>2. CASE OpenRows # {}
    BY <1>7, <2>2 DEF TickStart, Begin, Idle
  <2> QED
    BY <2>1, <2>2
<1>8. CASE Reconcile
  <2>1. CASE EndReconcile
    BY <1>1, <2>1 DEF EndReconcile
  <2>2. ASSUME NEW t \in Trades, ReconcileEntryFill(t)
        PROVE  ReadsStay
    <3>1. truth' = truth /\ job.at \notin Reads
      BY <2>2 DEF ReconcileEntryFill, Reconciling, At, Reads
    <3>2. PICK o : job' = ActOnFill(t, o)
      BY <2>2 DEF ReconcileEntryFill
    <3> QED
      BY <1>4, <3>1, <3>2
  <2>3. ASSUME NEW t \in Trades,
               ReconcileWaits(t) \/ ReconcileEntryDead(t) \/ ReconcileFlat(t) \/ ReconcileHeld(t)
        PROVE  ReadsStay
    <3>1. job' = [job EXCEPT !.todo = @ \ {t}] /\ job.at = "reconcile" /\ truth' = truth
      BY <2>3 DEF ReconcileWaits, ReconcileEntryDead, ReconcileFlat, ReconcileHeld, Reconciling, At
    <3>2. job'.at = "reconcile" /\ job'.step = job.step /\ job'.todo \subseteq job.todo
      BY <1>0, <3>1 DEF Job
    <3> QED
      BY <3>1, <3>2, GoesOn DEF Reads
  <2> QED
    BY <1>8, <2>1, <2>2, <2>3 DEF Reconcile
<1>9. CASE Protect
  <2>1. ASSUME NEW t \in Trades, PlaceStop(t)
        PROVE  ReadsStay
    <3>1. truth' = truth /\ job.at \notin Reads
      BY <2>1 DEF PlaceStop, engineVarsButJob, At, Reads
    <3>2. PICK id, got : \/ job' = [Resume(job) EXCEPT !.todo = @ \ {t}]
                         \/ job' = [Call("save_stop", t, "NONE") EXCEPT !.id = id, !.got = got]
      BY <2>1 DEF PlaceStop
    <3>3. job'.at \in LoopSteps \cup {"save_stop"} /\ job'.step = job.step
          /\ job'.todo \subseteq job.todo
      <4>1. CASE job' = [Resume(job) EXCEPT !.todo = @ \ {t}]
        BY <1>0, <4>1 DEF Resume, Job
      <4>2. CASE job' = [Call("save_stop", t, "NONE") EXCEPT !.id = id, !.got = got]
        BY <1>0, <4>2 DEF Call, Job
      <4> QED
        BY <3>2, <4>1, <4>2
    <3> QED
      BY <3>1, <3>3, GoesOn DEF Reads, LoopSteps
  <2>2. CASE SaveStop
    BY <1>5, <2>2 DEF SaveStop, At, Reads
  <2>3. CASE EndProtect
    <3>1. job'.step = "commands"
      BY <2>3 DEF EndProtect, Begin, Idle
    <3> QED
      BY <3>1
  <2> QED
    BY <1>9, <2>1, <2>2, <2>3 DEF Protect
<1>10. CASE FlattenSteps
  <2>1. truth' = truth /\ job.at \notin Reads
    BY <1>10 DEF FlattenSteps, CancelStop, SendExit, SaveExit, SaveExitIllegal, engineVarsButJob,
       At, Reads
  <2>2. CASE SaveExitIllegal
    BY <1>1, <2>2 DEF SaveExitIllegal
  <2>3. CASE \E ok : FlattenReturns(ok)
    BY <1>6, <2>1, <2>3
  <2>4. ASSUME NEW p \in {"send_exit", "save_exit"}, NEW id, job' = [job EXCEPT !.at = p, !.id = id]
        PROVE  ReadsStay
    <3>1. job'.at = p /\ job'.step = job.step /\ job'.todo \subseteq job.todo
      BY <1>0, <2>4 DEF Job
    <3> QED
      BY <2>1, <3>1, GoesOn DEF Reads
  <2>5. CASE job' = [job EXCEPT !.at = "send_exit"]
    <3>1. job'.at = "send_exit" /\ job'.step = job.step /\ job'.todo \subseteq job.todo
      BY <1>0, <2>5 DEF Job
    <3> QED
      BY <2>1, <3>1, GoesOn DEF Reads
  <2> QED
    BY <1>10, <2>2, <2>3, <2>4, <2>5 DEF FlattenSteps, CancelStop, SendExit, SaveExit
<1>11. CASE job.at \in {"commands", "squareoff", "ingest"} /\ (Commands \/ Squareoff \/ Ingest)
  <2>1. job.step = job.at
    BY <1>11 DEF IInv, JobInv, JobCoherent, LoopSteps
  <2>2. job'.step # job.step
    BY <1>11, <2>1
  <2>3. CASE EndCommands
    BY <1>1, <2>3 DEF EndCommands
  <2>4. CASE EndSquareoff \/ EndIngest
    BY <2>4 DEF EndSquareoff, EndIngest, TickEnds, Idle
  <2>5. CASE ApplySwitch \/ ApplyClose
    BY <1>0, <2>2, <2>5 DEF ApplySwitch, ApplyClose, Flatten, Call, Job
  <2>6. CASE \E t \in Trades : SquareoffRow(t) \/ CancelEntry(t) \/ Skip(t) \/ Intend(t)
    BY <1>0, <2>2, <2>6 DEF SquareoffRow, CancelEntry, Skip, Intend, Flatten, Call, Job
  <2>7. ~MarkClose /\ ~SaveCancel /\ ~SendEntry /\ ~ResolveEntry /\ ~RejectEntry /\ ~SaveEntry
        /\ ~SaveFill
    BY <1>11 DEF MarkClose, SaveCancel, SendEntry, ResolveEntry, RejectEntry, SaveEntry, SaveFill, At
  <2> QED
    BY <1>11, <2>3, <2>4, <2>5, <2>6, <2>7 DEF Commands, Squareoff, Ingest
<1>14. CASE job.at \notin {"commands", "squareoff", "ingest"} /\ (Commands \/ Squareoff \/ Ingest)
  <2>1. MarkClose \/ SaveCancel \/ SendEntry \/ ResolveEntry \/ RejectEntry \/ SaveEntry \/ SaveFill
    BY <1>14 DEF Commands, ApplySwitch, ApplyClose, Applying, EndCommands, Squareoff, SquareoffRow,
       CancelEntry, EndSquareoff, Ingest, Skip, Intend, EndIngest, At
  <2>2. truth' = truth /\ job.at \notin Reads
    BY <2>1 DEF MarkClose, SaveCancel, SendEntry, ResolveEntry, RejectEntry, SaveEntry, SaveFill,
       engineVarsButJob, At, Reads
  <2>3. CASE MarkClose
    <3>1. job'.at = job.step /\ job'.step = job.step /\ job'.todo = job.todo
      BY <1>0, <2>3 DEF MarkClose, Resume, Job
    <3> QED
      BY <1>0, <2>2, <3>1, GoesOn DEF Reads, LoopSteps
  <2>4. CASE job' = Resume(job)
    BY <1>5, <2>2, <2>4
  <2>5. CASE SaveFill
    <3>1. job.t \in Trades
      BY <2>5, TradeInHand DEF SaveFill, At, OnRow
    <3> QED
      BY <1>4, <2>2, <2>5, <3>1 DEF SaveFill
  <2>6. ASSUME \/ job' = [job EXCEPT !.at = "resolve_entry"]
               \/ job' = [job EXCEPT !.at = "reject_entry"]
               \/ job' = [job EXCEPT !.at = "save_fill"]
               \/ \E id, got : job' = [job EXCEPT !.at = "save_entry", !.id = id, !.got = got]
        PROVE  ReadsStay
    <3>1. /\ job'.at \in {"resolve_entry", "reject_entry", "save_entry", "save_fill"}
          /\ job'.step = job.step /\ job'.todo = job.todo
      BY <1>0, <2>6 DEF Job
    <3> QED
      BY <2>2, <3>1, GoesOn DEF Reads
  <2>7. CASE SendEntry
    <3>1. PICK reply \in {"order", "raised", "refused"}, id \in 0 .. Len(orders) + 1 :
            job' = CASE reply = "raised"  -> [job EXCEPT !.at = "resolve_entry"]
                     [] reply = "refused" -> [job EXCEPT !.at = "reject_entry"]
                     [] reply = "order"   ->
                          IF orders'[id].status = "REJECTED"
                            THEN [job EXCEPT !.at = "reject_entry"]
                            ELSE [job EXCEPT !.at = "save_entry", !.id = id,
                                    !.got = IF FillFinal(orders'[id]) THEN "filled" ELSE "working"]
      BY <2>7 DEF SendEntry
    <3>2. PICK got : got = IF FillFinal(orders'[id]) THEN "filled" ELSE "working"
      OBVIOUS
    <3>3. \/ job' = [job EXCEPT !.at = "resolve_entry"]
          \/ job' = [job EXCEPT !.at = "reject_entry"]
          \/ job' = [job EXCEPT !.at = "save_entry", !.id = id, !.got = got]
      BY <3>1, <3>2
    <3>4. CASE job' = [job EXCEPT !.at = "resolve_entry"] \/ job' = [job EXCEPT !.at = "reject_entry"]
      BY <2>6, <3>4
    <3>5. CASE job' = [job EXCEPT !.at = "save_entry", !.id = id, !.got = got]
      <4>1. \E i, g : job' = [job EXCEPT !.at = "save_entry", !.id = i, !.got = g]
        BY <3>5
      <4> QED
        BY <2>6, <4>1
    <3> QED
      BY <3>3, <3>4, <3>5
  <2>8. CASE ResolveEntry
    <3>1. PICK id, got : \/ job' = [job EXCEPT !.at = "reject_entry"]
                         \/ job' = [job EXCEPT !.at = "save_entry", !.id = id, !.got = got]
      BY <2>8 DEF ResolveEntry
    <3> QED
      BY <2>6, <3>1
  <2>9. CASE SaveEntry
    <3>1. job' = [job EXCEPT !.at = "save_fill"] \/ job' = Resume(job)
      BY <2>9 DEF SaveEntry
    <3> QED
      BY <2>4, <2>6, <3>1
  <2> QED
    BY <2>1, <2>3, <2>4, <2>5, <2>7, <2>8, <2>9 DEF SaveCancel, RejectEntry
<1>12. CASE Crash
  BY <1>12 DEF Crash, Idle
<1>13. CASE Start \/ SubmitCommand \/ Clock \/ Environment \/ UNCHANGED vars
  BY <1>2, <1>13 DEF Start, SubmitCommand, Clock, Environment, engineVars, vars
<1> QED
  BY <1>7, <1>8, <1>9, <1>10, <1>11, <1>12, <1>13, <1>14 DEF Next, Tick

\* An order that sold all of a position is done.
LEMMA SoldIsDone ==
  ASSUME Standing, NEW t \in Trades, row[t].state \in Holding \cup {"CLOSED"}, NEW x \in Outs(t),
         orders[x].filled = orders[row[t].entry].filled
  PROVE  x \in Ids /\ ~Working(x) /\ orders[x].filled \in Nat
<1>1. TradeTrue(t) /\ BrokerTypeOK /\ OrdersMade
  BY DEF Standing, AccountInv, TradesTrue, IInv, TypeOK
<1>2. orders[row[t].entry].filled > 0
  BY Bought
<1>3. x \in Ids /\ ~Void(x)
  BY <1>2, InBook DEF Void
<1>4. orders[x].qty = orders[x].filled
  BY <1>1, <1>3 DEF TradeTrue, OneSeller
<1>5. orders[x].filled \in Nat /\ WellMade(orders[x])
  BY <1>1, <1>3, OrderFields DEF OrdersMade
<1> QED
  BY <1>3, <1>4, <1>5 DEF WellMade, Working

\* What the positions told of a trade ahead stays true.
LEMMA ReconciledStays ==
  ASSUME BrokerAssumption, AccountKnown, Standing, [Next]_vars, ReadsStay,
         NEW t \in job'.todo, row'[t].state \in Holding
  PROVE  Reconciled(t)'
<1>0. job \in Job /\ IInv /\ BrokerTypeOK
  BY DEF Standing, IInv, TypeOK
<1>1. t \in job.todo /\ t \in Trades /\ job.step = "reconcile" /\ job.at # "read1"
      /\ truth' = truth /\ (job'.at = "read2" <=> job.at = "read2")
  BY <1>0 DEF ReadsStay, Job
<1>2. row'[t] = row[t]
  BY <1>0, <1>1, WrittenIsBehind, OthersKeepRow
<1>3. row[t].state \in Holding /\ Reconciled(t)
  BY <1>1, <1>2 DEF Standing, AccountInv, TruthTells
<1>4. PICK e : e = row[t].entry /\ e \in Ids /\ ~Working(e)
  BY <1>1, <1>3, Bought
<1>5. Grows
  BY AccountStep
<1>6. orders'[e].filled = orders[e].filled
  BY <1>4, <1>5 DEF Grows, Progress
<1>7. Outs(t) \subseteq Outs(t)'
  <2>1. /\ OrdersOf("stop", t) \subseteq OrdersOf("stop", t)'
        /\ OrdersOf("exit", t) \subseteq OrdersOf("exit", t)'
    BY <1>1, OrdersStay
  <2> QED
    BY <2>1 DEF Outs
<1>8. NetFor(t)' = NetFor(t)
  BY <1>1 DEF NetFor
<1>9. ASSUME NEW x \in Outs(t), orders[x].filled = orders[e].filled
      PROVE  orders'[x].filled = orders[x].filled
  <2>1. x \in Ids /\ ~Working(x)
    BY <1>1, <1>3, <1>4, <1>9, SoldIsDone
  <2> QED
    BY <1>5, <2>1 DEF Grows, Progress
<1>10. NetFor(t) = 0 =>
         \E x \in Outs(t)' :
           /\ orders'[x].filled = orders'[e].filled
           /\ job'.at # "read2" => /\ x \in DOMAIN truth.book
                                   /\ truth.book[x].filled = orders'[x].filled
  BY <1>1, <1>3, <1>4, <1>6, <1>7, <1>9 DEF Reconciled
<1>11. row[t].state \in Kept /\ NetFor(t) # 0 => NetFor(t) = orders'[e].filled
  BY <1>3, <1>4, <1>6 DEF Reconciled
<1> QED
  BY <1>1, <1>2, <1>3, <1>4, <1>8, <1>10, <1>11 DEF Reconciled

\* The positions as read tell what the account holds of a trade.
LEMMA PositionsTell ==
  ASSUME BrokerAssumption, AccountKnown, Standing, NEW t \in Trades, row[t].state \in Holding,
         job.at \notin {"save_stop", "save_exit"}
  PROVE  LET n == net[SymbolOf[t]]
         IN /\ n = 0 => \E x \in Outs(t) : orders[x].filled = orders[row[t].entry].filled
            /\ row[t].state \in Kept /\ n # 0 =>
                 n = orders[row[t].entry].filled \/ -n = orders[row[t].entry].filled
            /\ n \in Int
<1> DEFINE n == net[SymbolOf[t]]
           d == DirOf[t]
<1>0. IInv /\ BrokerTypeOK /\ OrdersMade /\ TradeTrue(t)
  BY DEF Standing, IInv, TypeOK, AccountInv, TradesTrue
<1>1. d \in {-1, 1} /\ n \in Int
  BY <1>0 DEF BrokerAssumption, BrokerTypeOK
<1>2. PICK e : /\ e = row[t].entry /\ e \in OrdersOf("entry", t)
               /\ orders[e].filled \in Nat /\ orders[e].filled > 0
  BY Bought
<1>3. t \in OpenRows /\ NetIs(t)
  BY DEF OpenRows, Holding, Terminal, Standing, AccountInv, NetTrue
<1>4. \A x \in Outs(t) : orders[x].filled \in Nat
  BY <1>0, InBook, OrderFields
<1>5. CASE \A x \in Outs(t) : orders[x].filled = 0
  <2>1. n = d * orders[e].filled
    BY <1>2, <1>3, <1>5 DEF NetIs
  <2>2. PICK E \in Nat : E = orders[e].filled /\ E > 0
    BY <1>2
  <2>3. n = E \/ n = -E
    BY <1>1, <2>1, <2>2
  <2> QED
    BY <1>2, <2>2, <2>3
<1>6. ASSUME NEW x \in Outs(t), orders[x].filled # 0
      PROVE  /\ n = 0 => orders[x].filled = orders[e].filled
             /\ row[t].state \in Kept => n = 0
  <2>1. n = d * (orders[e].filled - orders[x].filled)
    BY <1>2, <1>3, <1>4, <1>6 DEF NetIs
  <2>2. PICK E \in Int, X \in Int : E = orders[e].filled /\ X = orders[x].filled
    BY <1>2, <1>4
  <2>3. n = 0 => X = E
    BY <1>1, <2>1, <2>2
  <2>4. ASSUME row[t].state \in Kept
        PROVE  X = E
    <3>1. OrdersOf("exit", t) = {}
      BY <1>0, <2>4, NothingSaved DEF TradeTrue, KeptIs
    <3>2. orders[x].kind = "stop" /\ x \in Ids
      BY <3>1 DEF Outs, OrdersOf
    <3>3. WellMade(orders[x])
      BY <1>0, <3>2 DEF OrdersMade
    <3>4. orders[x].filled = orders[x].qty
      BY <1>6, <3>2, <3>3 DEF WellMade
    <3>5. ~Void(x)
      BY <1>6 DEF Void
    <3> QED
      BY <1>0, <1>2, <2>2, <3>4, <3>5 DEF TradeTrue, OneSeller
  <2>5. X = E => n = 0
    BY <1>1, <2>1, <2>2
  <2> QED
    BY <2>2, <2>3, <2>4, <2>5
<1> QED
  BY <1>1, <1>2, <1>5, <1>6

\* So the two reads of the account do.
LEMMA ReadsTell ==
  ASSUME BrokerAssumption, AccountKnown, Standing, FetchBrokerTruth, job'.step = "reconcile"
  PROVE  TruthTells'
<1>0. /\ job \in Job /\ IInv /\ BrokerTypeOK
      /\ truth \in [net : [Symbols -> Int], book : Seq(Order)]
  BY DEF Standing, IInv, TypeOK
<1>1. PICK k \in 1 .. 2 :
        /\ job.at = <<"read1", "read2">>[k]
        /\ \/ /\ truth' = IF BrokerReads[k] = "positions" THEN [truth EXCEPT !.net = net]
                                                          ELSE [truth EXCEPT !.book = orders]
              /\ job' = [job EXCEPT !.at = IF k = 1 THEN "read2" ELSE "reconcile"]
           \/ job' = Begin("protect", ToProtect(row))
        /\ UNCHANGED <<orders, net, row>>
  BY DEF FetchBrokerTruth, At
<1>2. job' # Begin("protect", ToProtect(row))
  BY DEF Begin, Idle
<1>3. CASE k = 1
  <2>1. job.at = "read1" /\ job' = [job EXCEPT !.at = "read2"] /\ truth' = [truth EXCEPT !.net = net]
    BY <1>1, <1>2, <1>3 DEF BrokerReads
  <2>2. job'.at = "read2" /\ job'.todo = job.todo /\ truth'.net = net
    BY <1>0, <2>1 DEF Job
  <2> SUFFICES ASSUME NEW t \in job.todo, row[t].state \in Holding
               PROVE  Reconciled(t)'
    BY <1>1, <2>2 DEF TruthTells
  <2>3. t \in Trades
    BY <1>0 DEF Job
  <2>4. PICK n \in Int :
          /\ n = net[SymbolOf[t]]
          /\ n = 0 => \E x \in Outs(t) : orders[x].filled = orders[row[t].entry].filled
          /\ row[t].state \in Kept /\ n # 0 =>
               n = orders[row[t].entry].filled \/ -n = orders[row[t].entry].filled
    BY <2>1, <2>3, PositionsTell
  <2>5. NetFor(t)' = IF n < 0 THEN -n ELSE n
    BY <2>2, <2>4 DEF NetFor
  <2>6. orders[row[t].entry].filled \in Nat
    BY <2>3, Bought
  <2>7. NetFor(t)' = 0 => n = 0
    BY <2>4, <2>5
  <2>8. n # 0 /\ (n = orders[row[t].entry].filled \/ -n = orders[row[t].entry].filled)
          => NetFor(t)' = orders[row[t].entry].filled
    BY <2>4, <2>5, <2>6
  <2>9. NetFor(t)' # 0 => n # 0
    BY <2>4, <2>5
  <2> QED
    BY <1>1, <2>2, <2>4, <2>7, <2>8, <2>9, SameOuts DEF Reconciled
<1>4. CASE k = 2
  <2>1. job.at = "read2" /\ job' = [job EXCEPT !.at = "reconcile"]
        /\ truth' = [truth EXCEPT !.book = orders]
    BY <1>1, <1>2, <1>4 DEF BrokerReads
  <2>2. job'.at = "reconcile" /\ job'.todo = job.todo /\ truth'.book = orders
        /\ truth'.net = truth.net
    BY <1>0, <2>1 DEF Job
  <2> SUFFICES ASSUME NEW t \in job.todo, row[t].state \in Holding
               PROVE  Reconciled(t)'
    BY <1>1, <2>2 DEF TruthTells
  <2>3. t \in Trades /\ job.step = "reconcile"
    BY <1>0, <2>1 DEF Job, IInv, JobInv, JobCoherent, Reads
  <2>4. Reconciled(t) /\ TradeTrue(t)
    BY <2>1, <2>3 DEF Standing, AccountInv, TruthTells, TradesTrue
  <2>5. NetFor(t)' = NetFor(t)
    BY <2>2 DEF NetFor
  <2>6. NetFor(t) = 0 =>
          \E x \in Outs(t) : /\ orders[x].filled = orders[row[t].entry].filled
                             /\ x \in DOMAIN orders
    BY <2>4, InBook DEF Reconciled, Ids
  <2>7. row[t].state \in Kept /\ NetFor(t) # 0 => NetFor(t) = orders[row[t].entry].filled
    BY <2>4 DEF Reconciled
  <2>8. Seen(orders, row[t].entry) /\ orders[row[t].entry].filled > 0
    BY <2>3, Bought DEF Seen, Ids
  <2>9. row[t].stop # 0 => row[t].stop \in DOMAIN orders
    BY <2>4 DEF TradeTrue, BoundIds, OrdersOf, Ids
  <2> QED
    BY <1>1, <2>2, <2>5, <2>6, <2>7, <2>8, <2>9, SameOuts DEF Reconciled
<1> QED
  BY <1>3, <1>4

\* Whatever happens next, the tick knows what is held of the trades ahead.
LEMMA TruthStaysTrue ==
  ASSUME BrokerAssumption, AccountKnown, Standing, [Next]_vars
  PROVE  TruthTells'
<1> SUFFICES ASSUME job'.step = "reconcile", job'.at # "read1"
             PROVE  TruthTells'
  BY DEF TruthTells
<1>1. CASE ReadsStay
  BY <1>1, ReconciledStays DEF TruthTells
<1>2. CASE FetchBrokerTruth
  BY <1>2, ReadsTell
<1> QED
  BY <1>1, <1>2, WhoReads DEF Standing

-----------------------------------------------------------------------------
(* The commands, and the end of the day. *)

\* The tick stays in its step, no command more in its batch.
StepStays == job'.step = job.step /\ job'.batch \subseteq job.batch

\* A step begins with a batch, or is a square-off, by these two only.
LEMMA WhoBegins ==
  ASSUME IInv, [Next]_vars
  PROVE  \/ StepStays
         \/ job'.batch = {} /\ job'.step # "squareoff"
         \/ EndProtect
         \/ EndCommands
<1> DEFINE Fresh1 == job'.batch = {} /\ job'.step # "squareoff"
<1>0. job \in Job
  BY DEF IInv, TypeOK
<1>1. ASSUME NEW step \in LoopSteps \ {"squareoff"}, NEW S, job' = Begin(step, S)
      PROVE  Fresh1
  BY <1>1 DEF Begin, Idle
<1>2. CASE job' = job
  BY <1>2 DEF StepStays
<1>3. ASSUME NEW t, NEW why, job' = Flatten(t, why)
      PROVE  StepStays
  BY <1>0, <1>3 DEF Flatten, Call, Job, StepStays
<1>4. ASSUME NEW t, NEW o, job' = ActOnFill(t, o)
      PROVE  StepStays
  BY <1>0, <1>4 DEF ActOnFill, Flatten, Call, Job, StepStays
<1>5. CASE job' = Resume(job)
  BY <1>0, <1>5 DEF Resume, Job, StepStays
<1>6. ASSUME NEW ok, FlattenReturns(ok)
      PROVE  StepStays
  BY <1>0, <1>6 DEF FlattenReturns, Resume, Job, StepStays
<1>7. ASSUME NEW p, NEW t, NEW why, job' = Call(p, t, why)
      PROVE  StepStays
  BY <1>0, <1>7 DEF Call, Job, StepStays
<1>8. ASSUME NEW p, NEW id, NEW got, NEW S, NEW B,
             \/ job' = [job EXCEPT !.at = p] \/ job' = [job EXCEPT !.todo = @ \ S]
             \/ job' = [job EXCEPT !.batch = @ \ B]
             \/ job' = [job EXCEPT !.at = p, !.id = id]
             \/ job' = [job EXCEPT !.at = p, !.id = id, !.got = got]
      PROVE  StepStays
  BY <1>0, <1>8 DEF Job, StepStays
<1>9. CASE TickStart
  <2>1. CASE OpenRows = {}
    BY <1>1, <1>9, <2>1 DEF TickStart, LoopSteps
  <2>2. CASE OpenRows # {}
    BY <1>9, <2>2 DEF TickStart, Begin, Idle
  <2> QED
    BY <2>1, <2>2
<1>10. CASE FetchBrokerTruth
  <2>1. PICK p : job' = [job EXCEPT !.at = p] \/ job' = Begin("protect", ToProtect(row))
    BY <1>10 DEF FetchBrokerTruth
  <2> QED
    BY <1>1, <1>8, <2>1 DEF LoopSteps
<1>11. CASE Reconcile
  BY <1>1, <1>4, <1>8, <1>11 DEF Reconcile, ReconcileWaits, ReconcileEntryFill, ReconcileEntryDead,
     ReconcileFlat, ReconcileHeld, EndReconcile, LoopSteps
<1>12. CASE Protect
  <2>1. ASSUME NEW t \in Trades, PlaceStop(t)
        PROVE  StepStays
    <3>1. PICK id, got : \/ job' = [Resume(job) EXCEPT !.todo = @ \ {t}]
                         \/ job' = [Call("save_stop", t, "NONE") EXCEPT !.id = id, !.got = got]
      BY <2>1 DEF PlaceStop
    <3>2. CASE job' = [Resume(job) EXCEPT !.todo = @ \ {t}]
      BY <1>0, <3>2 DEF Resume, Job, StepStays
    <3>3. CASE job' = [Call("save_stop", t, "NONE") EXCEPT !.id = id, !.got = got]
      BY <1>0, <3>3 DEF Call, Job, StepStays
    <3> QED
      BY <3>1, <3>2, <3>3
  <2> QED
    BY <1>5, <1>12, <2>1 DEF Protect, SaveStop
<1>13. CASE FlattenSteps
  BY <1>1, <1>6, <1>8, <1>13 DEF FlattenSteps, CancelStop, SendExit, SaveExit, SaveExitIllegal, LoopSteps
<1>14. CASE ApplySwitch \/ ApplyClose
  BY <1>3, <1>8, <1>14 DEF ApplySwitch, ApplyClose
<1>15. CASE MarkClose
  BY <1>0, <1>15 DEF MarkClose, Resume, Job, StepStays
<1>16. CASE Squareoff
  <2>1. CASE EndSquareoff
    BY <2>1 DEF EndSquareoff, TickEnds, Idle
  <2>2. ASSUME NEW t \in Trades, SquareoffRow(t)
        PROVE  StepStays
    BY <1>3, <1>8, <2>2 DEF SquareoffRow
  <2>4. ASSUME NEW t \in Trades, CancelEntry(t)
        PROVE  StepStays
    <3>1. job' = Call("save_cancel", t, "NONE") \/ job' = [job EXCEPT !.todo = @ \ {t}]
      BY <2>4 DEF CancelEntry
    <3> QED
      BY <1>7, <1>8, <3>1
  <2>3. CASE SaveCancel
    BY <1>5, <2>3 DEF SaveCancel
  <2> QED
    BY <1>16, <2>1, <2>2, <2>3, <2>4 DEF Squareoff
<1>17. CASE Ingest
  <2>1. CASE EndIngest
    BY <2>1 DEF EndIngest, TickEnds, Idle
  <2>2. CASE \E t \in Trades : Skip(t) \/ Intend(t)
    BY <1>7, <1>8, <2>2 DEF Skip, Intend
  <2>3. CASE RejectEntry \/ SaveEntry
    BY <1>5, <1>8, <2>3 DEF RejectEntry, SaveEntry
  <2>4. CASE SaveFill
    BY <1>4, <2>4 DEF SaveFill
  <2>5. CASE SendEntry \/ ResolveEntry
    <3>1. PICK p, id, got : \/ job' = [job EXCEPT !.at = p]
                            \/ job' = [job EXCEPT !.at = p, !.id = id, !.got = got]
      <4>1. CASE ResolveEntry
        BY <4>1 DEF ResolveEntry
      <4>2. CASE SendEntry
        <5>1. PICK reply \in {"order", "raised", "refused"}, id \in 0 .. Len(orders) + 1 :
                job' = CASE reply = "raised"  -> [job EXCEPT !.at = "resolve_entry"]
                         [] reply = "refused" -> [job EXCEPT !.at = "reject_entry"]
                         [] reply = "order"   ->
                              IF orders'[id].status = "REJECTED"
                                THEN [job EXCEPT !.at = "reject_entry"]
                                ELSE [job EXCEPT !.at = "save_entry", !.id = id,
                                        !.got = IF FillFinal(orders'[id]) THEN "filled" ELSE "working"]
          BY <4>2 DEF SendEntry
        <5>2. PICK got : got = IF FillFinal(orders'[id]) THEN "filled" ELSE "working"
          OBVIOUS
        <5> QED
          BY <5>1, <5>2
      <4> QED
        BY <2>5, <4>1, <4>2
    <3> QED
      BY <1>8, <3>1
  <2> QED
    BY <1>17, <2>1, <2>2, <2>3, <2>4, <2>5 DEF Ingest
<1>18. CASE Crash
  BY <1>18 DEF Crash, Idle
<1>19. CASE Start \/ SubmitCommand \/ Clock \/ Environment \/ UNCHANGED vars
  BY <1>2, <1>19 DEF Start, SubmitCommand, Clock, Environment, engineVars, vars
<1> QED
  BY <1>9, <1>10, <1>11, <1>12, <1>13, <1>14, <1>15, <1>16, <1>17, <1>18, <1>19
     DEF Next, Tick, Commands

\* A command resolved is the same command.
LEMMA ResolvedIs ==
  ASSUME IInv, NEW c, NEW status, Resolve(c, status)
  PROVE  /\ DOMAIN cmds' = DOMAIN cmds
         /\ \A d \in DOMAIN cmds : cmds'[d].kind = cmds[d].kind /\ cmds'[d].trade = cmds[d].trade
<1>1. cmds' = [cmds EXCEPT ![c].status = status] /\ cmds \in Seq(Command)
  BY DEF Resolve, IInv, TypeOK
<1>2. \A d \in DOMAIN cmds : cmds[d] \in Command
  BY <1>1
<1>3. \A d \in DOMAIN cmds :
        cmds'[d] = IF d = c THEN [cmds[d] EXCEPT !.status = status] ELSE cmds[d]
  BY <1>1
<1> QED
  BY <1>1, <1>2, <1>3 DEF Command

\* A position, or what was one, stays that.
LEMMA PastEntry ==
  ASSUME IInv, [Next]_vars, NEW t \in Trades, row[t].state \in Holding \cup Terminal
  PROVE  row'[t].state \in Holding \cup Terminal
<1>1. [Lifecycle!Next]_RowStates
  BY NextFollows
<1>2. RowStates[t] = row[t].state /\ RowStates'[t] = row'[t].state
  BY DEF RowStates
<1>3. RowStates \in [Trades -> {row[w].state : w \in Trades}]
  BY DEF RowStates
<1>4. CASE RowStates' = RowStates
  BY <1>2, <1>4
<1>5. ASSUME NEW u \in Trades, Lifecycle!Create(u)
      PROVE  RowStates'[t] \in Holding \cup Terminal
  <2>1. u # t
    BY <1>2, <1>5 DEF Lifecycle!Create, Holding, Terminal
  <2> QED
    BY <1>2, <1>3, <1>5, <2>1 DEF Lifecycle!Create
<1>6. ASSUME NEW u \in Trades, Lifecycle!Transition(u)
      PROVE  RowStates'[t] \in Holding \cup Terminal
  <2>1. PICK s \in Lifecycle!AllowedTransitions[RowStates[u]] :
          RowStates' = [RowStates EXCEPT ![u] = s]
    BY <1>6 DEF Lifecycle!Transition
  <2>2. CASE u = t
    <3>1. s \in Holding \cup Terminal
      BY <1>2, <2>1, <2>2 DEF Lifecycle!AllowedTransitions, Holding, Terminal
    <3> QED
      BY <1>3, <2>1, <2>2, <3>1
  <2>3. CASE u # t
    BY <1>2, <1>3, <2>1, <2>3
  <2> QED
    BY <2>2, <2>3
<1> QED
  BY <1>1, <1>2, <1>4, <1>5, <1>6 DEF Lifecycle!Next

\* Whatever happens next, a command to close is about a position.
LEMMA CloseStaysKnown ==
  ASSUME AccountKnown, IInv, CloseKnown, [Next]_vars
  PROVE  CloseKnown'
<1>0. job \in Job /\ cmds \in Seq(Command) /\ row \in [Trades -> Row]
  BY DEF IInv, TypeOK
<1>1. CASE SubmitCommand
  <2>1. PICK kind \in CommandKinds, t \in Trades \cup {NoTrade} :
          /\ kind = "CLOSE_POSITION" => t \in Trades /\ row[t].state # "NONE"
          /\ Cost(IF Early(kind, t) THEN {<<"early", "close">>} ELSE {})
          /\ cmds' = Append(cmds, [kind |-> kind, trade |-> t, status |-> "PENDING"])
    BY <1>1 DEF SubmitCommand
  <2>2. row' = row /\ job' = job
    BY <1>1 DEF SubmitCommand
  <2>3. <<"early", "close">> \notin Events
    BY DEF AccountKnown, HandsOff
  <2>4. ~Early(kind, t)
    BY <2>1, <2>3 DEF Cost
  <2>5. kind = "CLOSE_POSITION" => t \in Trades /\ row[t].state \in Holding \cup Terminal
    <3>1. t \in Trades => row[t] \in Row
      BY <1>0
    <3> QED
      BY <2>1, <2>4, <3>1 DEF Early, Row
  <2>6. PICK m : m = [kind |-> kind, trade |-> t, status |-> "PENDING"]
    OBVIOUS
  <2>7. /\ DOMAIN cmds' = 1 .. Len(cmds) + 1 /\ DOMAIN cmds = 1 .. Len(cmds)
        /\ cmds'[Len(cmds) + 1] = m /\ Len(cmds) \in Nat
        /\ \A c \in 1 .. Len(cmds) : cmds'[c] = cmds[c]
    BY <1>0, <2>1, <2>6
  <2>8. ASSUME NEW c \in DOMAIN cmds', cmds'[c].kind = "CLOSE_POSITION"
        PROVE  cmds'[c].trade \in Trades /\ row[cmds'[c].trade].state \in Holding \cup Terminal
    <3>1. CASE c \in DOMAIN cmds
      BY <2>7, <2>8, <3>1 DEF CloseKnown
    <3>2. CASE c = Len(cmds) + 1
      BY <2>5, <2>6, <2>7, <2>8, <3>2
    <3> QED
      BY <2>7, <3>1, <3>2
  <2> QED
    BY <2>2, <2>7, <2>8 DEF CloseKnown
<1>2. CASE ~SubmitCommand
  <2>1. /\ DOMAIN cmds' = DOMAIN cmds
        /\ \A d \in DOMAIN cmds : cmds'[d].kind = cmds[d].kind /\ cmds'[d].trade = cmds[d].trade
    <3>1. CASE cmds' = cmds
      BY <3>1
    <3>2. CASE Commands
      BY <3>1, <3>2, ResolvedIs DEF Commands, ApplySwitch, ApplyClose, MarkClose, EndCommands
    <3>3. CASE TickStart \/ FetchBrokerTruth \/ Reconcile \/ Protect \/ FlattenSteps
      BY <3>1, <3>3 DEF TickStart, FetchBrokerTruth, Reconcile, ReconcileWaits, ReconcileEntryFill,
         ReconcileEntryDead, ReconcileFlat, ReconcileHeld, EndReconcile, Protect, PlaceStop,
         SaveStop, EndProtect, FlattenSteps, CancelStop, SendExit, SaveExit, SaveExitIllegal,
         engineVarsButJob
    <3>4. CASE Squareoff \/ Ingest
      BY <3>1, <3>4 DEF Squareoff, SquareoffRow, CancelEntry, SaveCancel, EndSquareoff, Ingest,
         Skip, Intend, SendEntry, ResolveEntry, RejectEntry, SaveEntry, SaveFill, EndIngest,
         engineVarsButJob
    <3>5. CASE Crash \/ Start \/ Clock \/ Environment \/ UNCHANGED vars
      BY <3>1, <3>5 DEF Crash, Start, Clock, Environment, engineVars, vars
    <3> QED
      BY <1>2, <3>2, <3>3, <3>4, <3>5 DEF Next, Tick
  <2>2. job'.batch \subseteq DOMAIN cmds
    <3>1. CASE EndProtect
      BY <3>1 DEF EndProtect, Begin, Idle
    <3>2. CASE EndCommands
      BY <3>2 DEF EndCommands, Begin, Idle
    <3> QED
      BY <3>1, <3>2, WhoBegins DEF StepStays, CloseKnown
  <2> QED
    BY <2>1, <2>2, PastEntry DEF CloseKnown
<1> QED
  BY <1>1, <1>2

\* What ends the tick, or begins a shutdown.
EngineMoves ==
  \/ TickStart \/ ApplySwitch \/ EndCommands \/ EndSquareoff \/ EndIngest \/ Crash \/ Start

\* Nothing else changes the engine, and no tick runs without it.
LEMMA WhoMoves ==
  ASSUME IInv, [Next]_vars
  PROVE  \/ EngineMoves
         \/ eng' = eng /\ eng.proc = "up"
         \/ eng' = eng /\ job' = job /\ row' = row
<1>1. CASE FetchBrokerTruth \/ Reconcile \/ Protect
  BY <1>1 DEF FetchBrokerTruth, Reconcile, ReconcileWaits, ReconcileEntryFill, ReconcileEntryDead,
     ReconcileFlat, ReconcileHeld, EndReconcile, Reconciling, Protect, PlaceStop, SaveStop,
     EndProtect, At, engineVarsButJob
<1>2. CASE FlattenSteps \/ ApplyClose \/ MarkClose
  BY <1>2 DEF FlattenSteps, CancelStop, SendExit, SaveExit, SaveExitIllegal, ApplyClose, MarkClose,
     Applying, At, engineVarsButJob
<1>3. CASE (\E t \in Trades : SquareoffRow(t) \/ CancelEntry(t)) \/ SaveCancel
  BY <1>3 DEF SquareoffRow, CancelEntry, SaveCancel, At, engineVarsButJob
<1>4. CASE \/ \E t \in Trades : Skip(t) \/ Intend(t)
           \/ SendEntry \/ ResolveEntry \/ RejectEntry \/ SaveEntry \/ SaveFill
  BY <1>4 DEF Skip, Intend, SendEntry, ResolveEntry, RejectEntry, SaveEntry, SaveFill, At,
     engineVarsButJob
<1>5. CASE SubmitCommand \/ Clock \/ Environment \/ UNCHANGED vars
  BY <1>5 DEF SubmitCommand, Clock, Environment, engineVars, vars
<1> QED
  BY <1>1, <1>2, <1>3, <1>4, <1>5 DEF EngineMoves, Next, Tick, Commands, Squareoff, Ingest

\* The limits shut the engine down for a reason of theirs, or leave it as it is.
LEMMA LimitedIs ==
  ASSUME eng \in Engine, eng.shut \in ActiveReasons \cup {"NONE"}
  PROVE  /\ Limited.shut \in ActiveReasons \cup {"NONE"}
         /\ Limited.proc = eng.proc
         /\ ~eng.done => ~Limited.done
<1> DEFINE breach == ClosedLoss >= LossCap
           s == IF eng.shut = "NONE" THEN Shutdown(eng, "DAILY_LOSS_BREACH") ELSE eng
           e == IF ~breach THEN eng ELSE [s EXCEPT !.breached = TRUE, !.paused = TRUE]
<1>1. Limited = IF e.shut = "NONE" /\ phase >= 2 THEN Shutdown(e, "EOD_SQUAREOFF") ELSE e
  BY DEF Limited
<1>2. /\ s \in Engine /\ s.shut \in ActiveReasons \cup {"NONE"} /\ s.proc = eng.proc
      /\ ~eng.done => ~s.done
  BY DEF Shutdown, Engine, ActiveReasons, CloseReasons
<1> HIDE DEF s
<1>3. /\ e \in Engine /\ e.shut \in ActiveReasons \cup {"NONE"} /\ e.proc = eng.proc
      /\ ~eng.done => ~e.done
  BY <1>2 DEF Engine
<1> HIDE DEF e
<1> QED
  BY <1>1, <1>3 DEF Shutdown, Engine, ActiveReasons

\* A tick's end tells whether it was the last.
LEMMA TickEndsHow ==
  ASSUME NEW e \in Engine, TickEnds(e), e.proc = "up"
  PROVE  /\ job' = Idle /\ eng'.shut = e.shut
         /\ eng'.proc = "up" => ~eng'.done
         /\ eng'.proc = "finished" => e.done
<1>1. PICK p : p = (IF e.done THEN "finished" ELSE IF phase = 4 THEN "session_over" ELSE e.proc)
  OBVIOUS
<1>2. eng' = [e EXCEPT !.proc = p] /\ job' = Idle
  BY <1>1 DEF TickEnds
<1> QED
  BY <1>1, <1>2 DEF Engine

\* Whatever happens next, the engine ends as it should.
LEMMA EndStaysTrue ==
  ASSUME IInv, EndTrue, [Next]_vars
  PROVE  EndTrue'
<1>0. job \in Job /\ eng \in Engine
  BY DEF IInv, TypeOK
<1>1. CASE eng' = eng /\ job' = job /\ row' = row
  BY <1>1 DEF EndTrue, OpenRows
<1>2. CASE eng' = eng /\ eng.proc = "up" /\ ~EngineMoves
  <2>1. job'.step = "squareoff" => job.step = "squareoff"
    <3>1. ~EndCommands
      BY <1>2 DEF EngineMoves
    <3>2. CASE EndProtect
      BY <3>2 DEF EndProtect, Begin, Idle
    <3> QED
      BY <3>1, <3>2, WhoBegins DEF StepStays
  <2> QED
    BY <1>2, <2>1 DEF EndTrue
<1>3. CASE TickStart
  <2>1. job'.step # "squareoff"
    <3>1. CASE OpenRows = {}
      BY <1>3, <3>1 DEF TickStart, Begin, Idle
    <3>2. CASE OpenRows # {}
      BY <1>3, <3>2 DEF TickStart, Begin, Idle
    <3> QED
      BY <3>1, <3>2
  <2>2. eng'.shut = eng.shut /\ eng'.proc = eng.proc /\ eng'.done = eng.done /\ eng.proc = "up"
    BY <1>0, <1>3 DEF TickStart, At, Engine
  <2> QED
    BY <2>1, <2>2 DEF EndTrue
<1>4. CASE ApplySwitch
  <2>1. job'.step = "commands" /\ eng.proc = "up"
    BY <1>0, <1>4 DEF ApplySwitch, Applying, At, Job, IInv, JobInv, JobCoherent, LoopSteps
  <2>2. /\ eng'.shut \in ActiveReasons \cup {"NONE"} /\ eng'.proc = "up" /\ ~eng'.done
    BY <1>0, <1>4, <2>1 DEF ApplySwitch, Shutdown, Engine, EndTrue, ActiveReasons
  <2> QED
    BY <2>1, <2>2 DEF EndTrue
<1>5. CASE EndCommands
  <2>1. /\ eng' = Limited /\ eng.proc = "up"
        /\ Limited.shut = "NONE" => job'.step = "ingest"
    BY <1>5 DEF EndCommands, At, Begin, Idle
  <2>2. eng'.shut \in ActiveReasons \cup {"NONE"} /\ eng'.proc = "up" /\ ~eng'.done
    BY <1>0, <2>1, LimitedIs DEF EndTrue
  <2> QED
    BY <2>1, <2>2 DEF EndTrue
<1>6. CASE EndSquareoff
  <2> DEFINE e == [eng EXCEPT !.done = Complete]
  <2>1. e \in Engine /\ e.proc = "up" /\ e.shut = eng.shut /\ e.done = Complete
    BY <1>0, <1>6 DEF EndSquareoff, At, Engine, Complete
  <2>2. TickEnds(e) /\ row' = row
    BY <1>6 DEF EndSquareoff
  <2> HIDE DEF e
  <2>3. /\ job' = Idle /\ eng'.shut = e.shut
        /\ eng'.proc = "up" => ~eng'.done
        /\ eng'.proc = "finished" => e.done
    BY <2>1, <2>2, TickEndsHow
  <2>4. OpenRows' = OpenRows
    BY <2>2 DEF OpenRows
  <2> QED
    BY <2>1, <2>3, <2>4 DEF EndTrue, Complete, Idle
<1>7. CASE EndIngest
  <2>1. eng.proc = "up" /\ TickEnds(eng)
    BY <1>7 DEF EndIngest, At
  <2>2. /\ job' = Idle /\ eng'.shut = eng.shut
        /\ eng'.proc = "up" => ~eng'.done
        /\ eng'.proc = "finished" => eng.done
    BY <1>0, <2>1, TickEndsHow
  <2> QED
    BY <2>1, <2>2 DEF EndTrue, Idle
<1>8. CASE Crash
  BY <1>8 DEF Crash, FreshEngine, EndTrue, Idle
<1>9. CASE Start
  <2>1. job = Idle
    BY <1>9 DEF Start, EndTrue
  <2> QED
    BY <1>9, <2>1 DEF Start, FreshEngine, EndTrue, Idle
<1> QED
  BY <1>1, <1>2, <1>3, <1>4, <1>5, <1>6, <1>7, <1>8, <1>9, WhoMoves DEF EngineMoves

-----------------------------------------------------------------------------
(* So the account is known as long as it runs. *)

\* Nothing is held to begin with.
LEMMA InitAccount == Init => AccountInv
<1> SUFFICES ASSUME Init
             PROVE  AccountInv
  OBVIOUS
<1>1. Ids = {} /\ DOMAIN truth.book = {}
  BY DEF Init, BrokerInit, NoTruth, Ids
<1>2. /\ job = Idle /\ job.at = "asleep" /\ job.step = "asleep" /\ job.batch = {}
      /\ eng.proc = "down" /\ eng.shut = "NONE" /\ DOMAIN cmds = {}
  BY DEF Init, Idle, FreshEngine
<1>3. \A t \in Trades : row[t].state = "NONE" /\ row[t].stop = 0 /\ row[t].exit = 0
  BY DEF Init, NoRow
<1>4. OpenRows = {}
  BY <1>3 DEF OpenRows
<1>5. OrdersMade /\ BookBehind
  BY <1>1 DEF OrdersMade, BookBehind
<1>6. TradesTrue
  BY <1>1, <1>3 DEF TradesTrue, TradeTrue, NotHeld, EntryDone, OneSeller, KeptIs, ExitIs,
     ClosedIs, BoundIds, Outs, OrdersOf, Holding, Kept
<1>7. HandTrue /\ TruthTells /\ CloseKnown
  BY <1>2 DEF HandTrue, TruthTells, CloseKnown, OnFlatten
<1>8. NetTrue
  BY <1>4 DEF NetTrue, Init, BrokerInit
<1>9. EndTrue
  BY <1>2 DEF EndTrue
<1> QED
  BY <1>5, <1>6, <1>7, <1>8, <1>9 DEF AccountInv

\* No step of anybody makes the engine's account of it untrue.
LEMMA AccountStays ==
  ASSUME BrokerAssumption, AccountKnown, Standing, [Next]_vars
  PROVE  AccountInv'
<1>1. OrdersMade'
  BY AccountStep
<1>2. BookBehind' /\ TradesTrue' /\ HandTrue'
  BY BookStaysBehind, TradesStayTrue, HandStaysTrue
<1>3. NetTrue' /\ TruthTells'
  BY NetStaysTrue, TruthStaysTrue
<1>4. CloseKnown' /\ EndTrue'
  BY CloseStaysKnown, EndStaysTrue DEF Standing, AccountInv
<1> QED
  BY <1>1, <1>2, <1>3, <1>4 DEF AccountInv

\* All of it holds in every state, if the engine is told of everything.
LEMMA StandingHolds == AccountKnown => (Spec => []Standing)
<1> SUFFICES ASSUME AccountKnown
             PROVE  Spec => []Standing
  OBVIOUS
<1>1. EntriesAnswered
  BY DEF AccountKnown
<1>2. Spec => []RefusedInv
  BY <1>1, RefusedHolds
<1>3. Init => AccountInv
  BY InitAccount
<1>4. IInv /\ RefusedInv /\ OneOpenTradePerSymbol /\ AccountInv /\ [Next]_vars => AccountInv'
  BY AccountStays, BrokerAssumption DEF Standing
<1>5. IInv /\ RefusedInv /\ OneOpenTradePerSymbol /\ AccountInv => Standing
  BY DEF Standing
<1> QED
  BY <1>2, <1>3, <1>4, <1>5, Inductive, OneTradePerSymbol, PTL DEF Spec

-----------------------------------------------------------------------------
(* What that says of the account. *)

\* Sets of orders are finite.
LEMMA OrdersFinite ==
  ASSUME BrokerTypeOK, NEW S \in SUBSET Ids
  PROVE  IsFiniteSet(S)
<1>1. orders \in Seq(Order)
  BY DEF BrokerTypeOK
<1>2. Ids = 1 .. Len(orders) /\ Len(orders) \in Nat
  BY <1>1 DEF Ids
<1>3. IsFiniteSet(Ids)
  BY <1>2, FS_Interval
<1> QED
  BY <1>3, FS_Subset

\* Shares an order has traded or still may.
Could(i) == orders[i].filled + (IF Working(i) THEN Left(i) ELSE 0)

\* Their sum over orders, if one of them counts for anything.
LEMMA CouldSum ==
  ASSUME NEW S, IsFiniteSet(S), NEW i,
         \A x \in S : Could(x) \in Nat,
         \A x \in S \ {i} : Could(x) = 0
  PROVE  MapThenSumSet(LAMBDA j : orders[j].filled + (IF Working(j) THEN Left(j) ELSE 0), S)
           = IF i \in S THEN Could(i) ELSE 0
<1> DEFINE v == [x \in S |-> Could(x)]
           Adds1(it, s) == IF s = {} THEN 0
                           ELSE LET x == CHOOSE x \in s : TRUE
                                IN orders[x].filled + (IF Working(x) THEN Left(x) ELSE 0)
                                     + it[s \ {x}]
           E(it) == it = [s \in SUBSET S |-> Adds1(it, s)]
<1>1. v \in [S -> Nat] /\ (\A x \in S \ {i} : v[x] = 0) /\ (i \in S => v[i] = Could(i))
  OBVIOUS
<1>2. ASSUME NEW it
      PROVE  E(it) <=> SumsUp(it, v, S)
  <2>1. ASSUME NEW s \in SUBSET S
        PROVE  Adds1(it, s) = IF s = {} THEN 0 ELSE v[Pick(s)] + it[s \ {Pick(s)}]
    <3>1. s # {} => Pick(s) \in S
      BY DEF Pick
    <3>2. s # {} => v[Pick(s)] = Could(Pick(s))
      BY <3>1
    <3> QED
      BY <3>2 DEF Pick, Could
  <2> HIDE DEF v, Adds1
  <2>2. [s \in SUBSET S |-> Adds1(it, s)]
          = [s \in SUBSET S |-> IF s = {} THEN 0 ELSE v[Pick(s)] + it[s \ {Pick(s)}]]
    BY <2>1, Zenon
  <2> QED
    BY <2>2, Zenon DEF SumsUp
<1>3. MapThenSumSet(LAMBDA j : orders[j].filled + (IF Working(j) THEN Left(j) ELSE 0), S)
        = (CHOOSE it : E(it))[S]
  BY DEF MapThenSumSet, MapThenFoldSet
<1>4. (CHOOSE it : E(it)) = (CHOOSE it : SumsUp(it, v, S))
  <2> HIDE DEF E
  <2> QED
    BY <1>2, Zenon
<1> HIDE DEF E, v
<1>5. (CHOOSE it : SumsUp(it, v, S))[S] = IF i \in S THEN v[i] ELSE 0
  BY <1>1, SumOfOne
<1> QED
  BY <1>1, <1>3, <1>4, <1>5

\* An entry is for its shares, and is the only one.
LEMMA EntryFills ==
  ASSUME Standing, NEW t \in Trades, NEW e \in OrdersOf("entry", t)
  PROVE  FilledOf(orders, OrdersOf("entry", t)) = orders[e].filled
<1>1. BrokerTypeOK /\ AtMostOneEntry
  BY DEF Standing, IInv, TypeOK, BookInv
<1>2. PICK S : S = OrdersOf("entry", t)
  OBVIOUS
<1>3. S \in SUBSET Ids /\ e \in S
  BY <1>2 DEF OrdersOf
<1>4. IsFiniteSet(S)
  BY <1>1, <1>3, OrdersFinite
<1>5. S \ {e} = {}
  BY <1>1, <1>2 DEF AtMostOneEntry, OrdersOf
<1>6. \A x \in S : orders[x].filled \in Nat
  BY <1>1, <1>3, OrderFields
<1>7. FilledOf(orders, S) = orders[e].filled
  BY <1>3, <1>4, <1>5, <1>6, FilledSum
<1> QED
  BY <1>2, <1>7

\* Shares of a symbol are those of an open trade in it, on that trade's side.
LEMMA Tracked ==
  ASSUME BrokerAssumption, Standing, NEW s \in Symbols, net[s] # 0
  PROVE  \E t \in OpenRows : SymbolOf[t] = s /\ net[s] * DirOf[t] > 0
<1>1. NetTrue /\ BrokerTypeOK /\ TradesTrue /\ OrdersMade
  BY DEF Standing, AccountInv, IInv, TypeOK
<1>2. PICK t \in OpenRows : SymbolOf[t] = s
  BY <1>1 DEF NetTrue
<1>3. t \in Trades /\ DirOf[t] \in {-1, 1}
  BY DEF OpenRows, BrokerAssumption
<1>4. NetIs(t) /\ TradeTrue(t)
  BY <1>1, <1>2, <1>3 DEF NetTrue, TradesTrue
<1>5. PICK e \in OrdersOf("entry", t) : TRUE
  BY <1>2, <1>4 DEF NetIs
<1>6. e \in Ids /\ orders[e].filled \in Nat
  BY <1>1, InBook, OrderFields
<1>7. CASE \A x \in Outs(t) : orders[x].filled = 0
  <2>1. net[s] = DirOf[t] * orders[e].filled
    BY <1>2, <1>4, <1>7 DEF NetIs
  <2> QED
    BY <1>2, <1>3, <1>6, <2>1
<1>8. ASSUME NEW x \in Outs(t), orders[x].filled # 0
      PROVE  net[s] * DirOf[t] > 0
  <2>1. x \in Ids
    BY InBook
  <2>2. WellMade(orders[x]) /\ orders[x].filled \in Nat /\ orders[x].qty \in Nat
    BY <1>1, <2>1, OrderFields DEF OrdersMade
  <2>3. row[t].state \in Holding \cup {"CLOSED"}
    BY <1>4 DEF TradeTrue, NotHeld
  <2>4. e = row[t].entry
    BY <1>3, <2>3, EntryOver
  <2>5. orders[x].qty = orders[e].filled
    BY <1>4, <1>8, <2>4 DEF TradeTrue, OneSeller, Void
  <2>6. orders[x].filled <= orders[e].filled
    BY <2>2, <2>5 DEF WellMade
  <2>7. net[s] = DirOf[t] * (orders[e].filled - orders[x].filled)
    BY <1>2, <1>4, <1>8, <2>2 DEF NetIs
  <2> QED
    BY <1>2, <1>3, <1>6, <2>2, <2>6, <2>7, net[s] # 0
<1> QED
  BY <1>2, <1>7, <1>8

\* No share is held that the engine does not track: what the account holds of a
\* symbol belongs to an open trade in it and is on that trade's side, over any
\* number of trades, ticks and restarts, as long as the replies the engine acts
\* on come back and nobody else trades.
THEOREM ExposureTracked == AccountKnown => (Spec => []NoUntrackedExposure)
<1>1. Standing => NoUntrackedExposure
  BY Tracked, BrokerAssumption DEF NoUntrackedExposure
<1> SUFFICES ASSUME AccountKnown
             PROVE  Spec => []NoUntrackedExposure
  OBVIOUS
<1>2. Spec => []Standing
  BY StandingHolds
<1> QED
  BY <1>1, <1>2, PTL

\* A trade put away, closed or refused, leaves no stop at the broker that could
\* open a position later.
THEOREM StopsLeaveWithTrade == AccountKnown => (Spec => []NoOrphanStop)
<1>1. Standing => NoOrphanStop
  <2> SUFFICES ASSUME Standing, NEW t \in Trades, row[t].state \in Terminal,
                      NEW i \in OrdersOf("stop", t), Working(i)
               PROVE  FALSE
    BY DEF NoOrphanStop, WorkingStops
  <2>1. i \in Ids /\ orders[i].trade = t
    BY DEF OrdersOf
  <2>2. t \in OpenRows
    BY <2>1, WorkingIsOpen, BrokerAssumption
  <2> QED
    BY <2>2 DEF OpenRows
<1> SUFFICES ASSUME AccountKnown
             PROVE  Spec => []NoOrphanStop
  OBVIOUS
<1>2. Spec => []Standing
  BY StandingHolds
<1> QED
  BY <1>1, <1>2, PTL

\* When the process ends by its own square-off the account is flat and nothing
\* of it can still trade.
THEOREM FinishedFlat == AccountKnown => (Spec => []FinishedMeansFlat)
<1>1. Standing => FinishedMeansFlat
  <2> SUFFICES ASSUME Standing, eng.proc = "finished"
               PROVE  /\ OpenRows = {} /\ (\A s \in Symbols : net[s] = 0)
                      /\ \A i \in Ids : ~Working(i)
    BY DEF FinishedMeansFlat
  <2>1. OpenRows = {}
    BY DEF Standing, AccountInv, EndTrue
  <2>2. \A s \in Symbols : net[s] = 0
    BY <2>1 DEF Standing, AccountInv, NetTrue
  <2>3. \A i \in Ids : ~Working(i)
    BY <2>1, WorkingIsOpen, BrokerAssumption
  <2> QED
    BY <2>1, <2>2, <2>3
<1> SUFFICES ASSUME AccountKnown
             PROVE  Spec => []FinishedMeansFlat
  OBVIOUS
<1>2. Spec => []Standing
  BY StandingHolds
<1> QED
  BY <1>1, <1>2, PTL

\* The exits booked for a closed trade cover every share its entry bought.
THEOREM BookedInFull == AccountKnown => (Spec => []ClosedBookedInFull)
<1>1. Standing => ClosedBookedInFull
  <2> SUFFICES ASSUME Standing, NEW t \in Trades, row[t].state = "CLOSED"
               PROVE  FilledOf(orders, row[t].exits) >= FilledOf(orders, OrdersOf("entry", t))
    BY DEF ClosedBookedInFull
  <2>1. BrokerTypeOK /\ TradeTrue(t)
    BY DEF Standing, AccountInv, TradesTrue, IInv, TypeOK
  <2>2. row[t].entry \in OrdersOf("entry", t) /\ orders[row[t].entry].filled \in Nat
    BY Bought
  <2>3. PICK x \in Outs(t) : /\ row[t].exits = {x}
                             /\ orders[x].filled = orders[row[t].entry].filled
    BY <2>1 DEF TradeTrue, ClosedIs
  <2>4. FilledOf(orders, OrdersOf("entry", t)) = orders[row[t].entry].filled
    BY <2>2, EntryFills
  <2>5. x \in Ids
    BY InBook
  <2>6. PICK S : S = {x}
    OBVIOUS
  <2>7. IsFiniteSet(S)
    BY <2>1, <2>5, <2>6, OrdersFinite
  <2>8. x \in S /\ (\A y \in S : orders[y].filled \in Nat)
        /\ \A y \in S \ {x} : orders[y].filled = 0
    BY <2>2, <2>3, <2>6
  <2>9. FilledOf(orders, S) = orders[x].filled
    BY <2>7, <2>8, FilledSum
  <2> QED
    BY <2>2, <2>3, <2>4, <2>6, <2>9
<1> SUFFICES ASSUME AccountKnown
             PROVE  Spec => []ClosedBookedInFull
  OBVIOUS
<1>2. Spec => []Standing
  BY StandingHolds
<1> QED
  BY <1>1, <1>2, PTL

\* The reason recorded for a closed trade names the order that closed it.
THEOREM ReasonTrue == AccountKnown => (Spec => []CloseReasonIsTrue)
<1>1. Standing => CloseReasonIsTrue
  <2> SUFFICES ASSUME Standing, NEW t \in Trades, row[t].state = "CLOSED"
               PROVE  /\ row[t].closing \in Ids
                      /\ LET o == orders[row[t].closing]
                         IN CASE row[t].reason = "STOP_HIT" -> o.kind = "stop" /\ o.trade = t
                              [] row[t].reason \in ActiveReasons -> o.kind = "exit" /\ o.trade = t
                              [] OTHER -> o.kind = "human"
    BY DEF CloseReasonIsTrue
  <2>1. TradeTrue(t)
    BY DEF Standing, AccountInv, TradesTrue
  <2>2. PICK x \in Outs(t) :
          /\ row[t].closing = x
          /\ IF orders[x].kind = "stop" THEN row[t].reason = "STOP_HIT"
                                        ELSE row[t].reason \in ActiveReasons
    BY <2>1 DEF TradeTrue, ClosedIs
  <2>3. x \in Ids /\ orders[x].trade = t /\ orders[x].kind \in {"stop", "exit"}
    BY InBook
  <2>4. "STOP_HIT" \notin ActiveReasons
    BY DEF ActiveReasons
  <2> QED
    BY <2>2, <2>3, <2>4
<1> SUFFICES ASSUME AccountKnown
             PROVE  Spec => []CloseReasonIsTrue
  OBVIOUS
<1>2. Spec => []Standing
  BY StandingHolds
<1> QED
  BY <1>1, <1>2, PTL

\* The orders that could still sell a trade, sell what it bought.
LEMMA SellsWithin ==
  ASSUME BrokerAssumption, Standing, NEW t \in Trades
  PROVE  MapThenSumSet(LAMBDA i : orders[i].filled + (IF Working(i) THEN Left(i) ELSE 0), Outs(t))
           <= FilledOf(orders, OrdersOf("entry", t))
<1>1. BrokerTypeOK /\ TradeTrue(t) /\ OrdersMade
  BY DEF Standing, AccountInv, TradesTrue, IInv, TypeOK
<1>2. PICK S : S = Outs(t)
  OBVIOUS
<1>3. S \in SUBSET Ids
  BY <1>2, InBook
<1>4. IsFiniteSet(S)
  BY <1>1, <1>3, OrdersFinite
<1>5. ASSUME NEW x \in S
      PROVE  /\ Could(x) \in Nat /\ Could(x) <= orders[x].qty
             /\ Void(x) => Could(x) = 0
  <2>1. x \in Ids
    BY <1>3
  <2>2. WellMade(orders[x]) /\ orders[x].filled \in Nat /\ orders[x].qty \in Nat
    BY <1>1, <2>1, OrderFields DEF OrdersMade
  <2>3. orders[x].filled <= orders[x].qty
    BY <2>2 DEF WellMade
  <2> QED
    BY <2>2, <2>3 DEF Could, Left, Void
<1> DEFINE sum == MapThenSumSet(LAMBDA i : orders[i].filled
                                             + (IF Working(i) THEN Left(i) ELSE 0), S)
           bought == FilledOf(orders, OrdersOf("entry", t))
<1>6. bought \in Nat
  <2>1. CASE OrdersOf("entry", t) = {}
    <3>1. PICK E : E = OrdersOf("entry", t)
      OBVIOUS
    <3>2. IsFiniteSet(E) /\ (\A x \in E : orders[x].filled \in Nat) /\ 0 \notin E
          /\ \A x \in E \ {0} : orders[x].filled = 0
      BY <2>1, <3>1, FS_EmptySet
    <3>3. FilledOf(orders, E) = 0
      BY <3>2, FilledSum
    <3> QED
      BY <3>1, <3>3
  <2>2. ASSUME NEW e \in OrdersOf("entry", t)
        PROVE  bought \in Nat
    BY <1>1, EntryFills, InBook, OrderFields
  <2> QED
    BY <2>1, <2>2
<1>7. CASE \A x \in S : Void(x)
  <2>1. sum = 0
    <3>1. (\A x \in S : Could(x) \in Nat) /\ \A x \in S \ {0} : Could(x) = 0
      BY <1>5, <1>7
    <3>2. sum = IF 0 \in S THEN Could(0) ELSE 0
      BY <1>4, <3>1, CouldSum
    <3> QED
      BY <1>5, <1>7, <3>2
  <2> HIDE DEF sum, bought
  <2>2. sum <= bought
    BY <1>6, <2>1
  <2> QED
    BY <1>2, <2>2 DEF sum, bought
<1>8. ASSUME NEW x \in S, ~Void(x)
      PROVE  sum <= bought
  <2>1. /\ orders[x].qty = orders[row[t].entry].filled
        /\ \A y \in S : ~Void(y) => x = y
    BY <1>1, <1>2, <1>8 DEF TradeTrue, OneSeller
  <2>2. (\A y \in S : Could(y) \in Nat) /\ \A y \in S \ {x} : Could(y) = 0
    BY <1>5, <2>1
  <2>3. sum = Could(x)
    BY <1>4, <1>8, <2>2, CouldSum
  <2>4. row[t].state \in Holding \cup {"CLOSED"}
    BY <1>1, <1>2, <1>8 DEF TradeTrue, NotHeld
  <2>5. bought = orders[row[t].entry].filled
    BY <2>4, Bought, EntryFills
  <2> HIDE DEF sum, bought
  <2> QED
    BY <1>5, <2>1, <2>3, <2>5
<1>9. sum <= bought
  BY <1>7, <1>8, <1>2
<1> QED
  BY <1>2, <1>9

\* A trade is never sold twice: what its stop and its exit have sold and still
\* could never exceeds what its entry bought.
THEOREM SoldOnce == AccountKnown => (Spec => []ExitsWithinEntry)
<1>1. Standing => ExitsWithinEntry
  BY SellsWithin, BrokerAssumption DEF ExitsWithinEntry, Outs
<1> SUFFICES ASSUME AccountKnown
             PROVE  Spec => []ExitsWithinEntry
  OBVIOUS
<1>2. Spec => []Standing
  BY StandingHolds
<1> QED
  BY <1>1, <1>2, PTL
=============================================================================
