-------------------------- MODULE ExecutionEngineProofs --------------------------
(***************************************************************************)
(* What holds of the engine for every value of the constants.  IInv, the   *)
(* inductive invariant of EngineProperties, is shown step by step: first   *)
(* frames (what a step that leaves most of the state alone preserves),     *)
(* then one lemma per action, then the theorems that rest on it.           *)
(***************************************************************************)
EXTENDS EngineProperties, FiniteSetTheorems, WellFoundedInduction, TLAPS

-----------------------------------------------------------------------------
(* The account: every call of the engine and every step of the exchange    *)
(* leaves a well-formed order book.                                        *)

\* Min picks a member of a set of order ids.
LEMMA MinOfNats ==
  ASSUME NEW S \in SUBSET Nat, S # {}
  PROVE  Min(S) \in S
<1>1. IsWellFoundedOn(OpToRel(<, Nat), Nat)
  BY NatLessThanWellFounded
<1>2. PICK x \in S : \A y \in S : ~ (<<y, x>> \in OpToRel(<, Nat))
  BY <1>1, WFMin, Zenon
<1>3. \A y \in S : x =< y
  <2>1. TAKE y \in S
  <2>2. <<y, x>> \in Nat \X Nat
    OBVIOUS
  <2>3. ~ (y < x)
    BY <1>2, <2>2 DEF OpToRel
  <2> QED
    BY <2>3
<1> QED
  BY <1>3 DEF Min

\* Adversities are paid for from what is left of the budget.
LEMMA CostTyped ==
  ASSUME BrokerAssumption, budget \in 0 .. MaxEvents, NEW evs, Cost(evs)
  PROVE  budget' \in 0 .. MaxEvents
<1>1. IsFiniteSet(evs)
  BY FS_Subset DEF BrokerAssumption, Cost
<1>2. Cardinality(evs) \in Nat
  BY <1>1, FS_CardinalityType
<1> QED
  BY <1>2 DEF BrokerAssumption, Cost

-----------------------------------------------------------------------------
(* The kinds of order the engine places. *)
OwnKinds == {"entry", "stop", "exit"}

\* No step of anyone loses an order or changes whose it is; this one adds at
\* most one, of kind k and trade t.
Adds(k, t) ==
  /\ Ids \subseteq Ids'
  /\ \A i \in Ids : orders'[i].kind = orders[i].kind /\ orders'[i].trade = orders[i].trade
  /\ \A i \in Ids' \ Ids :
       i = Len(orders) + 1 /\ orders'[i].kind = k /\ orders'[i].trade = t

\* An order Kite takes is one more well-formed order, of the kind and trade sent.
LEMMA AcceptTyped ==
  ASSUME BrokerAssumption, BrokerTypeOK, NEW k \in OwnKinds, NEW t \in Trades,
         NEW q \in Nat, NEW n \in Nat, NEW status \in Status, NEW shown \in BOOLEAN,
         NEW bad \in BOOLEAN, NEW trig \in {0, 1},
         Accept(k, t, q, n, status, shown, bad, trig)
  PROVE  /\ orders' \in Seq(Order)
         /\ net' \in [Symbols -> Int]
         /\ Adds(k, t)
         /\ Len(orders) + 1 \in Ids'
<1> DEFINE o == [kind |-> k, trade |-> t, sym |-> SymbolOf[t], side |-> Side(k, t),
                 qty |-> q, filled |-> n, status |-> status, shown |-> shown,
                 adverse |-> bad, trig |-> trig]
<1>1. Side(k, t) \in {-1, 1} /\ SymbolOf[t] \in Symbols
  BY DEF Side, BrokerAssumption
<1>2. o \in Order
  BY <1>1 DEF Order, Kinds, OwnKinds
<1>3. orders' = Append(orders, o) /\ orders \in Seq(Order)
  BY DEF Accept, BrokerTypeOK
<1>4. net' \in [Symbols -> Int]
  BY <1>1 DEF Accept, BrokerTypeOK
<1>5. o.kind = k /\ o.trade = t
  OBVIOUS
<1> HIDE DEF o
<1>6. /\ orders' \in Seq(Order)
      /\ Ids = 1 .. Len(orders) /\ Ids' = 1 .. Len(orders) + 1
      /\ \A i \in Ids : orders'[i] = orders[i]
      /\ orders'[Len(orders) + 1] = o
  BY <1>2, <1>3 DEF Ids
<1>7. Len(orders) \in Nat
  BY <1>3
<1>8. Adds(k, t)
  BY <1>5, <1>6, <1>7 DEF Adds
<1> QED
  BY <1>4, <1>6, <1>7, <1>8

\* A book left alone adds nothing.
LEMMA UnchangedAdds ==
  ASSUME NEW k, NEW t, orders' = orders
  PROVE  Adds(k, t)
BY DEF Adds, Ids

\* Whatever Kite does with a new order.
LEMMA PlaceTyped ==
  ASSUME BrokerAssumption, BrokerTypeOK, NEW k \in OwnKinds, NEW t \in Trades,
         NEW q \in Nat, NEW trig \in {0, 1}, NEW reply, Place(k, t, q, trig, reply)
  PROVE  /\ BrokerTypeOK'
         /\ Adds(k, t)
         /\ reply \in {"order", "unseen"} => Len(orders) + 1 \in Ids'
<1> USE BrokerAssumption, BrokerTypeOK
<1>1. ASSUME NEW evs, Cost(evs), NEW n \in Nat, NEW status \in Status,
             NEW shown \in BOOLEAN, NEW bad \in BOOLEAN,
             Accept(k, t, q, n, status, shown, bad, trig)
      PROVE  BrokerTypeOK' /\ Adds(k, t) /\ Len(orders) + 1 \in Ids'
  BY <1>1, CostTyped, AcceptTyped DEF BrokerTypeOK
<1>2. CASE /\ reply = "order"
           /\ Cost(IF k = "entry" THEN {<<"slow", k>>} ELSE {})
           /\ Accept(k, t, q, 0, "OPEN", TRUE, FALSE, trig)
  BY <1>1, <1>2 DEF Status
<1>3. CASE /\ reply = "order" /\ k # "stop"
           /\ \E bad \in BOOLEAN :
                Cost(Bad(bad, k)) /\ Accept(k, t, q, q, "COMPLETE", TRUE, bad, trig)
  BY <1>1, <1>3 DEF Status
<1>4. CASE /\ reply = "order" /\ k # "stop"
           /\ Cost({<<"partial", k>>})
           /\ \E n \in 1 .. q - 1 : Accept(k, t, q, n, "OPEN", TRUE, FALSE, trig)
  <2>1. PICK n \in 1 .. q - 1 : Accept(k, t, q, n, "OPEN", TRUE, FALSE, trig)
    BY <1>4
  <2>2. n \in Nat
    OBVIOUS
  <2> QED
    BY <1>1, <1>4, <2>1, <2>2 DEF Status
<1>5. CASE /\ reply = "order"
           /\ Cost({<<"rejected", k>>})
           /\ Accept(k, t, q, 0, "REJECTED", TRUE, FALSE, trig)
  BY <1>1, <1>5 DEF Status
<1>6. CASE /\ reply = IF k = "stop" THEN "unseen" ELSE "order"
           /\ Cost({<<"unseen", k>>})
           /\ Accept(k, t, q, 0, "OPEN", FALSE, FALSE, trig)
  BY <1>1, <1>6 DEF Status
<1>7. CASE /\ reply = "raised"
           /\ \E shown \in BOOLEAN :
                /\ Cost({<<IF shown THEN "lost" ELSE "lost_unseen", k>>})
                /\ Accept(k, t, q, 0, "OPEN", shown, FALSE, trig)
  BY <1>1, <1>7 DEF Status
<1>8. CASE /\ reply = "refused" /\ k = "entry"
           /\ Cost({<<"refused", k>>})
           /\ UNCHANGED <<orders, net>>
  BY <1>8, CostTyped, UnchangedAdds DEF BrokerTypeOK
<1> QED
  BY <1>2, <1>3, <1>4, <1>5, <1>6, <1>7, <1>8 DEF Place

\* place_market_mis and place_slm add at most the order they are asked for,
\* and the id they report, when they report one, is in the book.
LEMMA SendTyped ==
  ASSUME BrokerAssumption, BrokerTypeOK, NEW k \in OwnKinds, NEW t \in Trades,
         NEW q \in Nat, NEW trig \in {0, 1}, NEW reply, NEW id,
         Send(k, t, q, trig, reply, id)
  PROVE  /\ BrokerTypeOK'
         /\ Adds(k, t)
         /\ reply \in {"order", "unseen"} => id \in Ids'
<1> USE BrokerAssumption, BrokerTypeOK
<1>1. CASE /\ Existing(k, t) = {}
           /\ id = Len(orders) + 1
           /\ Place(k, t, q, trig, reply)
  BY <1>1, PlaceTyped
<1>2. CASE /\ Existing(k, t) # {}
           /\ reply = "order" /\ id = Min(Existing(k, t))
           /\ UNCHANGED brokerVars
  <2>1. Existing(k, t) \subseteq Ids
    BY DEF Existing, OrdersOf
  <2>2. Ids \subseteq Nat
    BY DEF Ids, BrokerTypeOK
  <2>3. id \in Ids
    BY <1>2, <2>1, <2>2, MinOfNats
  <2> QED
    BY <1>2, <2>3, UnchangedAdds DEF brokerVars, BrokerTypeOK, Ids
<1>3. CASE /\ reply = "raised" /\ id = 0
           /\ \/ k = "stop" /\ Cardinality(Existing(k, t)) > 1 /\ Cost({})
              \/ Cost({<<"raised", k>>})
           /\ UNCHANGED <<orders, net>>
  <2>1. PICK evs : Cost(evs)
    BY <1>3
  <2> QED
    BY <1>3, <2>1, CostTyped, UnchangedAdds DEF BrokerTypeOK
<1> QED
  BY <1>1, <1>2, <1>3 DEF Send

-----------------------------------------------------------------------------
\* One order changes its fill, its status, its trigger or its visibility.
LEMMA OrderChanged ==
  ASSUME BrokerTypeOK, NEW i \in Ids, NEW o \in Order, NEW k, NEW t,
         o.kind = orders[i].kind, o.trade = orders[i].trade,
         orders' = [orders EXCEPT ![i] = o]
  PROVE  orders' \in Seq(Order) /\ Adds(k, t)
<1>1. orders' \in Seq(Order) /\ Ids' = Ids
  BY DEF Ids, BrokerTypeOK
<1>2. \A j \in Ids : orders'[j].kind = orders[j].kind /\ orders'[j].trade = orders[j].trade
  BY DEF Ids, BrokerTypeOK
<1> QED
  BY <1>1, <1>2 DEF Adds

\* What the type of the book says of one order.
LEMMA OrderFields ==
  ASSUME BrokerTypeOK, NEW i \in Ids
  PROVE  /\ orders[i] \in Order
         /\ orders[i].qty \in Nat /\ orders[i].filled \in Nat
         /\ orders[i].side \in {-1, 1} /\ Left(i) \in Int
         /\ orders[i].sym \in Symbols /\ orders[i].status \in Status
         /\ orders[i].adverse \in BOOLEAN
<1>1. orders[i] \in Order
  BY DEF Ids, BrokerTypeOK
<1>2. /\ orders[i].qty \in Nat /\ orders[i].filled \in Nat
      /\ orders[i].side \in {-1, 1}
      /\ orders[i].sym \in Symbols /\ orders[i].status \in Status
      /\ orders[i].adverse \in BOOLEAN
  BY <1>1 DEF Order
<1> QED
  BY <1>1, <1>2 DEF Left

\* n shares of it change hands.
LEMMA NetChanged ==
  ASSUME BrokerTypeOK, NEW s \in Symbols, NEW n \in Int,
         net' = [net EXCEPT ![s] = @ + n]
  PROVE  net' \in [Symbols -> Int]
BY DEF BrokerTypeOK

\* A cancel, raced or not, changes one order and adds none.
LEMMA CancelTyped ==
  ASSUME BrokerAssumption, BrokerTypeOK, NEW i \in Ids, NEW reply, Cancel(i, reply),
         NEW k, NEW t
  PROVE  BrokerTypeOK' /\ Adds(k, t)
<1> USE BrokerAssumption, BrokerTypeOK
<1>1. CASE /\ Working(i)
           /\ orders' = [orders EXCEPT ![i].status = "CANCELLED"]
           /\ \/ reply = (IF orders[i].shown THEN "CANCELLED" ELSE "unconfirmed") /\ Cost({})
              \/ reply = "unconfirmed" /\ Cost({<<"lost", "cancel">>})
           /\ UNCHANGED net
  <2> DEFINE o == [orders[i] EXCEPT !.status = "CANCELLED"]
  <2>1. o \in Order /\ o.kind = orders[i].kind /\ o.trade = orders[i].trade
    BY OrderFields DEF Order, Status
  <2>2. orders' = [orders EXCEPT ![i] = o]
    BY <1>1
  <2>3. orders' \in Seq(Order) /\ Adds(k, t)
    <3> HIDE DEF o
    <3> QED BY <2>1, <2>2, OrderChanged
  <2>4. budget' \in 0 .. MaxEvents
    BY <1>1, CostTyped DEF BrokerTypeOK
  <2> QED
    BY <1>1, <2>3, <2>4 DEF BrokerTypeOK
<1>2. CASE /\ Working(i)
           /\ Cost({<<"raised", "cancel">>})
           /\ reply = "unconfirmed"
           /\ UNCHANGED <<orders, net>>
  BY <1>2, CostTyped, UnchangedAdds DEF BrokerTypeOK
<1>3. CASE /\ Working(i) /\ orders[i].shown
           /\ Cost({<<"raced", orders[i].kind>>})
           /\ reply = "COMPLETE"
           /\ orders' = [orders EXCEPT ![i].status = "COMPLETE", ![i].filled = orders[i].qty]
           /\ net' = [net EXCEPT ![orders[i].sym] = @ + orders[i].side * Left(i)]
  <2> DEFINE o == [orders[i] EXCEPT !.status = "COMPLETE", !.filled = orders[i].qty]
             n == orders[i].side * Left(i)
  <2>1. o \in Order /\ o.kind = orders[i].kind /\ o.trade = orders[i].trade
    BY OrderFields DEF Order, Status
  <2>2. orders' = [orders EXCEPT ![i] = o]
    BY <1>3 DEF Ids, BrokerTypeOK
  <2>3. n \in Int /\ orders[i].sym \in Symbols
    BY OrderFields
  <2>4. net' = [net EXCEPT ![orders[i].sym] = @ + n]
    BY <1>3
  <2> HIDE DEF o, n
  <2>5. orders' \in Seq(Order) /\ Adds(k, t)
    BY <2>1, <2>2, OrderChanged
  <2>6. net' \in [Symbols -> Int]
    BY <2>3, <2>4, NetChanged
  <2>7. budget' \in 0 .. MaxEvents
    BY <1>3, CostTyped DEF BrokerTypeOK
  <2> QED
    BY <2>5, <2>6, <2>7 DEF BrokerTypeOK
<1>4. CASE ~Working(i) /\ reply = "unconfirmed" /\ UNCHANGED brokerVars
  BY <1>4, UnchangedAdds DEF brokerVars, BrokerTypeOK
<1> QED
  BY <1>1, <1>2, <1>3, <1>4 DEF Cancel

\* The exchange and a human keep the book well formed, and only a human's own
\* order is added.
LEMMA ExchangeTyped ==
  ASSUME BrokerAssumption, BrokerTypeOK, Exchange
  PROVE  BrokerTypeOK' /\ Adds("human", NoTrade)
<1> USE BrokerAssumption, BrokerTypeOK
<1>1. ASSUME NEW i \in Ids, Execute(i)
      PROVE  BrokerTypeOK' /\ Adds("human", NoTrade)
  <2>1. PICK n \in 1 .. Left(i), bad \in BOOLEAN :
          /\ Cost((IF n < Left(i) THEN {<<"partial", orders[i].kind>>} ELSE {})
                    \cup Bad(bad, orders[i].kind))
          /\ orders' = [orders EXCEPT
               ![i].filled = @ + n,
               ![i].adverse = @ \/ bad,
               ![i].status = IF n = Left(i) THEN "COMPLETE" ELSE @]
          /\ net' = [net EXCEPT ![orders[i].sym] = @ + orders[i].side * n]
    BY <1>1 DEF Execute
  <2> DEFINE filled == orders[i].filled + n
             adverse == orders[i].adverse \/ bad
             status == IF n = Left(i) THEN "COMPLETE" ELSE orders[i].status
             o == [orders[i] EXCEPT !.filled = filled, !.adverse = adverse, !.status = status]
             d == orders[i].side * n
  <2>2. filled \in Nat /\ d \in Int /\ orders[i].sym \in Symbols
    BY OrderFields
  <2>3. adverse \in BOOLEAN
    OBVIOUS
  <2>4. status \in Status
    BY OrderFields DEF Status
  <2>5. orders' = [orders EXCEPT ![i] = o]
    BY <2>1 DEF Ids, BrokerTypeOK
  <2>6. net' = [net EXCEPT ![orders[i].sym] = @ + d]
    BY <2>1
  <2> HIDE DEF filled, adverse, status, d
  <2>7. o \in Order /\ o.kind = orders[i].kind /\ o.trade = orders[i].trade
    BY <2>2, <2>3, <2>4, OrderFields DEF Order
  <2> HIDE DEF o
  <2>8. orders' \in Seq(Order) /\ Adds("human", NoTrade)
    BY <2>5, <2>7, OrderChanged
  <2>9. net' \in [Symbols -> Int]
    BY <2>2, <2>6, NetChanged
  <2>10. budget' \in 0 .. MaxEvents
    BY <2>1, CostTyped DEF BrokerTypeOK
  <2> QED
    BY <2>8, <2>9, <2>10 DEF BrokerTypeOK
<1>2. ASSUME NEW i \in Ids, Die(i)
      PROVE  BrokerTypeOK' /\ Adds("human", NoTrade)
  <2>1. PICK s \in Dead :
          /\ Cost({<<IF s = "REJECTED" THEN "refused" ELSE "cancelled", orders[i].kind>>})
          /\ orders' = [orders EXCEPT ![i].status = s]
    BY <1>2 DEF Die
  <2> DEFINE o == [orders[i] EXCEPT !.status = s]
  <2>2. o \in Order /\ o.kind = orders[i].kind /\ o.trade = orders[i].trade
    BY OrderFields DEF Order, Status, Dead
  <2>3. orders' = [orders EXCEPT ![i] = o]
    BY <2>1
  <2> HIDE DEF o
  <2>4. orders' \in Seq(Order) /\ Adds("human", NoTrade)
    BY <2>2, <2>3, OrderChanged
  <2>5. budget' \in 0 .. MaxEvents
    BY <2>1, CostTyped DEF BrokerTypeOK
  <2> QED
    BY <1>2, <2>4, <2>5 DEF BrokerTypeOK, Die
<1>3. ASSUME NEW i \in Ids, Show(i) \/ EditStop(i)
      PROVE  BrokerTypeOK' /\ Adds("human", NoTrade)
  <2>1. PICK o \in Order :
          /\ o.kind = orders[i].kind /\ o.trade = orders[i].trade
          /\ orders' = [orders EXCEPT ![i] = o]
    <3>1. CASE Show(i)
      <4>1. [orders[i] EXCEPT !.shown = TRUE] \in Order
        BY OrderFields DEF Order
      <4> QED
        BY OrderFields, <3>1, <4>1 DEF Show, Order
    <3>2. CASE EditStop(i)
      <4>1. [orders[i] EXCEPT !.trig = 1] \in Order
        BY OrderFields DEF Order
      <4> QED
        BY OrderFields, <3>2, <4>1 DEF EditStop, Order
    <3> QED
      BY <1>3, <3>1, <3>2
  <2>2. orders' \in Seq(Order) /\ Adds("human", NoTrade)
    BY <2>1, OrderChanged
  <2>3. budget' \in 0 .. MaxEvents /\ net' = net
    BY <1>3, CostTyped DEF Show, EditStop, BrokerTypeOK
  <2> QED
    BY <2>2, <2>3 DEF BrokerTypeOK
<1>4. ASSUME NEW s \in Symbols, HumanClose(s)
      PROVE  BrokerTypeOK' /\ Adds("human", NoTrade)
  <2> DEFINE q == IF net[s] > 0 THEN net[s] ELSE -net[s]
             o(bad) == [kind |-> "human", trade |-> NoTrade, sym |-> s,
                        side |-> IF net[s] > 0 THEN -1 ELSE 1,
                        qty |-> q, filled |-> q, status |-> "COMPLETE",
                        shown |-> TRUE, adverse |-> bad, trig |-> 0]
  <2>1. PICK bad \in BOOLEAN :
          /\ Cost({<<IF \E i \in Ids : orders[i].sym = s /\ Working(i)
                      THEN "closed_over" ELSE "closed", "human">>} \cup Bad(bad, "human"))
          /\ orders' = Append(orders, o(bad))
    BY <1>4 DEF HumanClose
  <2>2. q \in Nat
    BY DEF BrokerTypeOK
  <2>3. o(bad) \in Order /\ o(bad).kind = "human" /\ o(bad).trade = NoTrade
    BY <2>2 DEF Order, Kinds, Status
  <2>4. budget' \in 0 .. MaxEvents
    BY <2>1, CostTyped DEF BrokerTypeOK
  <2>5. net' \in [Symbols -> Int]
    BY <1>4 DEF HumanClose, BrokerTypeOK
  <2> HIDE DEF o
  <2>6. /\ orders' \in Seq(Order) /\ Len(orders) \in Nat
        /\ Ids = 1 .. Len(orders) /\ Ids' = 1 .. Len(orders) + 1
        /\ \A i \in Ids : orders'[i] = orders[i]
        /\ orders'[Len(orders) + 1] = o(bad)
    BY <2>1, <2>3 DEF Ids, BrokerTypeOK
  <2>7. Adds("human", NoTrade)
    BY <2>3, <2>6 DEF Adds
  <2> QED
    BY <2>4, <2>5, <2>6, <2>7 DEF BrokerTypeOK
<1> QED
  BY <1>1, <1>2, <1>3, <1>4 DEF Exchange

-----------------------------------------------------------------------------
(* Positions of the tick and rows. *)

\* The first position of a step of the tick.
LEMMA BeginJob ==
  ASSUME NEW step \in LoopSteps, NEW S \in SUBSET Trades
  PROVE  /\ Begin(step, S) \in Job
         /\ Begin(step, S).at = step /\ Begin(step, S).step = step
         /\ Begin(step, S).todo = S /\ Begin(step, S).batch = {}
BY DEF Begin, Idle, Job, CloseReasons, Replies

\* A call that closes nothing carries the reason NONE.
LEMMA NoReason == "NONE" \in CloseReasons
BY DEF CloseReasons

\* Taking row t in hand is a job, t off the list.
LEMMA CallJob ==
  ASSUME job \in Job, NEW p \in OnRow, NEW t \in Trades, NEW why \in CloseReasons
  PROVE  /\ Call(p, t, why) \in Job
         /\ Call(p, t, why).at = p /\ Call(p, t, why).step = job.step
         /\ Call(p, t, why).t = t /\ Call(p, t, why).todo = job.todo \ {t}
         /\ Call(p, t, why).batch = job.batch
BY DEF Call, Job

\* Going back to the loop keeps its lists.
LEMMA ResumeJob ==
  ASSUME job \in Job, NEW j \in Job
  PROVE  /\ Resume(j) \in Job
         /\ Resume(j).at = job.step /\ Resume(j).step = j.step
         /\ Resume(j).todo = j.todo /\ Resume(j).batch = j.batch
BY DEF Resume, Job, CloseReasons, Replies

\* The table after one row is written.
LEMMA RowWritten ==
  ASSUME row \in [Trades -> Row], NEW t \in Trades, NEW r \in Row,
         row' = [row EXCEPT ![t] = r]
  PROVE  /\ row' \in [Trades -> Row]
         /\ row'[t] = r
         /\ \A u \in Trades \ {t} : row'[u] = row[u]
OBVIOUS

-----------------------------------------------------------------------------
(* Frames: what a step that leaves most of the state alone preserves. *)

\* The order book may gain an order, not an entry; the rows stay.
LEMMA RowsKept ==
  ASSUME IInv, BrokerTypeOK', row' = row, NEW k, NEW t, k # "entry", Adds(k, t)
  PROVE  /\ BookInv'
         /\ Ids \subseteq Ids'
         /\ \A u \in Trades : OrdersOf("entry", u)' = OrdersOf("entry", u)
<1>1. Ids \subseteq Ids'
  BY DEF Adds
<1>2. \A i \in Ids' : orders'[i].kind = "entry" =>
        i \in Ids /\ orders[i].kind = "entry" /\ orders[i].trade = orders'[i].trade
  BY DEF Adds
<1>3. \A u \in Trades : OrdersOf("entry", u)' = OrdersOf("entry", u)
  BY <1>1, <1>2 DEF OrdersOf, Adds
<1>4. RowIds'
  BY <1>1 DEF RowIds, IInv, BookInv
<1>5. IntentFirst'
  BY <1>2 DEF IntentFirst, IInv, BookInv
<1>6. AtMostOneEntry'
  BY <1>2 DEF AtMostOneEntry, IInv, BookInv
<1> QED
  BY <1>1, <1>3, <1>4, <1>5, <1>6 DEF BookInv

\* One row is written, with a state and with ids of orders that are there.
LEMMA RowWrite ==
  ASSUME IInv, orders' = orders, NEW t \in Trades, NEW r \in Row,
         row' = [row EXCEPT ![t] = r],
         r.state # "NONE", r.stop \in Ids \cup {0}, r.entry \in Ids \cup {0},
         r.state = "ENTRY_SUBMITTED" => r.entry \in Ids
  PROVE  /\ BookInv'
         /\ Ids' = Ids
         /\ row' \in [Trades -> Row]
         /\ row'[t] = r
         /\ \A u \in Trades \ {t} : row'[u] = row[u]
<1>1. /\ row' \in [Trades -> Row]
      /\ row'[t] = r
      /\ \A u \in Trades \ {t} : row'[u] = row[u]
  BY RowWritten DEF IInv, TypeOK
<1>2. Ids' = Ids
  BY DEF Ids
<1>3. RowIds'
  BY <1>1, <1>2 DEF RowIds, IInv, BookInv
<1>4. IntentFirst'
  BY <1>1, <1>2 DEF IntentFirst, IInv, BookInv
<1>5. AtMostOneEntry'
  BY <1>2 DEF AtMostOneEntry, IInv, BookInv
<1> QED
  BY <1>1, <1>2, <1>3, <1>4, <1>5 DEF BookInv

\* A tick between two rows owes its invariant only for the rows ahead.
LEMMA BetweenRows ==
  ASSUME job' \in Job, job'.at \in LoopSteps \cup Reads,
         job'.step = IF job'.at \in Reads THEN "reconcile" ELSE job'.at,
         RowsAhead'
  PROVE  JobInv'
BY DEF JobInv, JobCoherent, RowInHand, JobIds, NothingSent, LoopSteps, Reads, OnRow,
       OnIntent, OnFlatten

\* Type correctness, part by part.
LEMMA TypeFrame ==
  ASSUME BrokerTypeOK', row' \in [Trades -> Row], cmds' \in Seq(Command), eng' \in Engine,
         job' \in Job, truth' \in [net : [Symbols -> Int], book : Seq(Order)],
         phase' \in 0 .. 4, starts' \in Nat
  PROVE  TypeOK'
BY DEF TypeOK

\* An account left alone is still well-formed.
LEMMA BrokerKept ==
  ASSUME BrokerTypeOK, orders' = orders, net' = net, budget' \in 0 .. MaxEvents
  PROVE  BrokerTypeOK'
BY DEF BrokerTypeOK

\* A step that leaves the account and the rows alone.
LEMMA QuietStep ==
  ASSUME IInv, orders' = orders, net' = net, budget' \in 0 .. MaxEvents, row' = row,
         cmds' \in Seq(Command), eng' \in Engine, job' \in Job,
         truth' \in [net : [Symbols -> Int], book : Seq(Order)],
         phase' \in 0 .. 4, starts' \in Nat, JobInv'
  PROVE  IInv'
<1>1. BrokerTypeOK'
  BY BrokerKept DEF IInv, TypeOK
<1>2. Adds("human", NoTrade)
  BY UnchangedAdds
<1>3. BookInv'
  BY <1>1, <1>2, RowsKept
<1>4. TypeOK'
  BY <1>1, TypeFrame DEF IInv, TypeOK
<1> QED
  BY <1>3, <1>4 DEF IInv

\* A call that may add an order, of a kind other than an entry.
LEMMA CallStep ==
  ASSUME IInv, BrokerTypeOK', NEW k, NEW t, k # "entry", Adds(k, t),
         engineVarsButJob' = engineVarsButJob, job' \in Job, JobInv'
  PROVE  IInv'
<1>1. row' = row
  BY DEF engineVarsButJob
<1>2. BookInv'
  BY <1>1, RowsKept
<1>3. TypeOK'
  BY TypeFrame DEF IInv, TypeOK, engineVarsButJob
<1> QED
  BY <1>2, <1>3 DEF IInv

\* A step that writes one row.
LEMMA RowStep ==
  ASSUME IInv, UNCHANGED <<brokerVars, cmds, eng, truth, phase, starts>>, job' \in Job,
         row' \in [Trades -> Row], JobInv', BookInv'
  PROVE  IInv'
<1>1. BrokerTypeOK'
  BY BrokerKept DEF IInv, TypeOK, BrokerTypeOK, brokerVars
<1> QED
  BY <1>1, TypeFrame DEF IInv, TypeOK

\* The loop of the step goes on with fewer rows ahead.
LEMMA BackToLoop ==
  ASSUME IInv, job' \in Job, job'.at = job.step, job'.step = job.step,
         job'.todo \subseteq job.todo,
         \A u \in job'.todo : row'[u].state = row[u].state
  PROVE  JobInv'
<1>1. job'.at \in LoopSteps
  BY DEF IInv, TypeOK, Job
<1>2. RowsAhead'
  BY DEF IInv, JobInv, RowsAhead
<1> QED
  BY <1>1, <1>2, BetweenRows DEF LoopSteps, Reads

\* The tick takes a row in hand, or keeps it.
LEMMA InHand ==
  ASSUME IInv, job' \in Job, job'.at \in OnRow, job'.step = job.step,
         job'.todo \subseteq job.todo, job'.t \in Trades \ job'.todo,
         \A u \in job'.todo : row'[u].state = row[u].state,
         RowInHand', JobIds', NothingSent'
  PROVE  JobInv'
<1>1. RowsAhead'
  BY DEF IInv, JobInv, RowsAhead
<1>2. JobCoherent'
  BY DEF JobCoherent, LoopSteps, Reads, OnRow, OnIntent, OnFlatten
<1> QED
  BY <1>1, <1>2 DEF JobInv

\* flatten begins for a row that is open.
LEMMA FlattenBegins ==
  ASSUME IInv, NEW t \in Trades, NEW why \in CloseReasons, job' = Flatten(t, why),
         row'[t].state \in Unfilled \cup Holding, row'[t].stop = row[t].stop,
         \A u \in Trades \ {t} : row'[u] = row[u]
  PROVE  job' \in Job /\ JobInv'
<1> DEFINE p == IF row[t].stop = 0 THEN "send_exit" ELSE "cancel_stop"
<1>1. p \in OnFlatten /\ p \in OnRow
  BY DEF OnFlatten, OnRow
<1>2. job \in Job
  BY DEF IInv, TypeOK
<1>3. /\ job' \in Job /\ job'.at = p /\ job'.step = job.step /\ job'.t = t
      /\ job'.todo = job.todo \ {t}
  BY <1>1, <1>2, CallJob DEF Flatten
<1>4. job'.todo \subseteq Trades
  BY <1>2, <1>3 DEF Job
<1>5. RowInHand' /\ JobIds' /\ NothingSent'
  BY <1>3 DEF RowInHand, JobIds, NothingSent, OnFlatten, OnIntent
<1> QED
  BY <1>1, <1>3, <1>4, <1>5, InHand

\* flatten returns to the loop, or to the command that asked for it.
LEMMA FlattenReturnsJob ==
  ASSUME IInv, job.t \in Trades \ job.todo, NEW ok \in BOOLEAN, FlattenReturns(ok),
         \A u \in job.todo : row'[u].state = row[u].state
  PROVE  job' \in Job /\ JobInv'
<1>1. job \in Job
  BY DEF IInv, TypeOK
<1>2. CASE job.step = "commands"
  <2>1. /\ job' \in Job /\ job'.at = "mark" /\ job'.step = job.step
        /\ job'.t = job.t /\ job'.todo = job.todo /\ job'.got \in {"APPLIED", "REJECTED"}
    BY <1>1, <1>2 DEF FlattenReturns, Job, OnRow, Replies, CloseReasons
  <2>2. RowInHand' /\ JobIds' /\ NothingSent'
    BY <2>1 DEF RowInHand, JobIds, NothingSent, OnFlatten, OnIntent
  <2> QED
    BY <2>1, <2>2, InHand DEF OnRow
<1>3. CASE job.step # "commands"
  <2>1. job' = Resume(job)
    BY <1>3 DEF FlattenReturns
  <2> QED
    BY <1>1, <2>1, ResumeJob, BackToLoop
<1> QED
  BY <1>2, <1>3

-----------------------------------------------------------------------------
(* Steps of the engine that write no row and call nobody, or only read. *)

\* Resolving a command keeps the queue well-formed.
LEMMA ResolveTyped ==
  ASSUME cmds \in Seq(Command), NEW c, NEW status \in {"APPLIED", "REJECTED"},
         Resolve(c, status)
  PROVE  cmds' \in Seq(Command)
<1>1. /\ DOMAIN cmds = 1 .. Len(cmds) /\ Len(cmds) \in Nat
      /\ \A d \in DOMAIN cmds : cmds[d] \in Command
  OBVIOUS
<1> DEFINE new(d) == IF d = c THEN [cmds[d] EXCEPT !.status = status] ELSE cmds[d]
<1>2. cmds' = [d \in 1 .. Len(cmds) |-> new(d)]
  BY <1>1 DEF Resolve
<1>3. \A d \in 1 .. Len(cmds) : new(d) \in Command
  BY <1>1 DEF Command
<1> HIDE DEF new
<1> QED
  BY <1>1, <1>2, <1>3

\* _begin_shutdown leaves a well-formed engine.
LEMMA ShutdownTyped ==
  ASSUME NEW e \in Engine, NEW reason \in CloseReasons
  PROVE  Shutdown(e, reason) \in Engine
BY DEF Shutdown, Engine

\* So do the loss cap and the clock.
LEMMA LimitedTyped ==
  ASSUME eng \in Engine
  PROVE  Limited \in Engine
<1> DEFINE breach == ClosedLoss >= LossCap
           s == IF eng.shut = "NONE" THEN Shutdown(eng, "DAILY_LOSS_BREACH") ELSE eng
           e == IF ~breach THEN eng ELSE [s EXCEPT !.breached = TRUE, !.paused = TRUE]
<1>1. {"DAILY_LOSS_BREACH", "EOD_SQUAREOFF"} \subseteq CloseReasons
  BY DEF CloseReasons, ActiveReasons
<1>2. s \in Engine
  BY <1>1, ShutdownTyped
<1> HIDE DEF s
<1>3. e \in Engine
  BY <1>2 DEF Engine
<1>4. Limited = IF e.shut = "NONE" /\ phase >= 2 THEN Shutdown(e, "EOD_SQUAREOFF") ELSE e
  BY DEF Limited, s
<1> HIDE DEF e
<1> QED
  BY <1>1, <1>3, <1>4, ShutdownTyped

\* The next step of the tick begins.
LEMMA StepBegins ==
  ASSUME NEW step \in LoopSteps, NEW S \in SUBSET Trades, job' = Begin(step, S),
         step \notin {"protect", "ingest"} \/ S = {}
  PROVE  job' \in Job /\ JobInv'
<1>1. job' \in Job /\ job'.at = step /\ job'.step = step /\ job'.todo = S
  BY BeginJob
<1>2. RowsAhead'
  BY <1>1 DEF RowsAhead
<1> QED
  BY <1>1, <1>2, BetweenRows DEF LoopSteps, Reads

\* A tick without truth has none that is ill-formed.
LEMMA NoTruthTyped == NoTruth \in [net : [Symbols -> Int], book : Seq(Order)]
<1>1. <<>> \in Seq(Order) /\ [s \in Symbols |-> 0] \in [Symbols -> Int]
  OBVIOUS
<1> QED
  BY <1>1 DEF NoTruth

\* The protection step starts with ENTERED rows only.
LEMMA ProtectBegins ==
  ASSUME row' = row, job' = Begin("protect", ToProtect(row))
  PROVE  job' \in Job /\ JobInv'
<1>1. PICK S \in SUBSET Trades : S = ToProtect(row) /\ \A t \in S : row'[t].state = "ENTERED"
  BY DEF ToProtect
<1>2. /\ job' \in Job /\ job'.at = "protect" /\ job'.step = "protect" /\ job'.todo = S
  BY <1>1, BeginJob DEF LoopSteps
<1>3. RowsAhead'
  BY <1>1, <1>2 DEF RowsAhead
<1> QED
  BY <1>2, <1>3, BetweenRows DEF LoopSteps, Reads

\* A tick starts.
LEMMA TickStartInv ==
  ASSUME BrokerAssumption, IInv, TickStart
  PROVE  IInv'
<1>1. budget' \in 0 .. MaxEvents
  BY CostTyped DEF IInv, TypeOK, BrokerTypeOK, TickStart
<1>2. eng' \in Engine
  BY DEF IInv, TypeOK, TickStart, Engine
<1>3. OpenRows \subseteq Trades
  BY DEF OpenRows
<1>4. job' \in Job /\ JobInv'
  <2>1. CASE OpenRows = {}
    BY <2>1, StepBegins DEF TickStart, LoopSteps
  <2>2. CASE OpenRows # {}
    <3>1. job' = [Begin("reconcile", OpenRows) EXCEPT !.at = "read1"]
      BY <2>2 DEF TickStart
    <3>2. /\ job' \in Job /\ job'.at = "read1" /\ job'.step = "reconcile"
      BY <1>3, <3>1, BeginJob DEF Job, LoopSteps, Reads
    <3>3. RowsAhead'
      BY <3>2 DEF RowsAhead
    <3> QED
      BY <3>2, <3>3, BetweenRows DEF Reads
  <2> QED
    BY <2>1, <2>2
<1> QED
  BY <1>1, <1>2, <1>4, QuietStep DEF IInv, TypeOK, TickStart

\* Positions or the order book are read, or cannot be.
LEMMA FetchBrokerTruthInv ==
  ASSUME BrokerAssumption, IInv, FetchBrokerTruth
  PROVE  IInv'
<1>1. PICK k \in 1 .. 2 :
        /\ At(<<"read1", "read2">>[k])
        /\ \/ /\ Cost({})
              /\ truth' = IF BrokerReads[k] = "positions" THEN [truth EXCEPT !.net = net]
                                                          ELSE [truth EXCEPT !.book = orders]
              /\ job' = [job EXCEPT !.at = IF k = 1 THEN "read2" ELSE "reconcile"]
           \/ /\ Cost({<<"unreadable", BrokerReads[k]>>})
              /\ truth' = NoTruth
              /\ job' = Begin("protect", ToProtect(row))
        /\ UNCHANGED <<orders, net, row, pnl, cmds, eng, phase, starts>>
  BY DEF FetchBrokerTruth
<1>2. budget' \in 0 .. MaxEvents
  BY <1>1, CostTyped DEF IInv, TypeOK, BrokerTypeOK
<1>3. truth' \in [net : [Symbols -> Int], book : Seq(Order)]
  <2>1. NoTruth \in [net : [Symbols -> Int], book : Seq(Order)]
    BY NoTruthTyped
  <2>2. /\ [truth EXCEPT !.net = net] \in [net : [Symbols -> Int], book : Seq(Order)]
        /\ [truth EXCEPT !.book = orders] \in [net : [Symbols -> Int], book : Seq(Order)]
    BY DEF IInv, TypeOK, BrokerTypeOK
  <2> QED
    BY <1>1, <2>1, <2>2
<1>4. job.at \in Reads
  BY <1>1 DEF At, Reads
<1>5. job \in Job /\ job.step = "reconcile"
  BY <1>4 DEF IInv, TypeOK, JobInv, JobCoherent
<1>6. job' \in Job /\ JobInv'
  <2>1. CASE job' = [job EXCEPT !.at = IF k = 1 THEN "read2" ELSE "reconcile"]
    <3>1. /\ job' \in Job /\ job'.at \in {"read2", "reconcile"}
          /\ job'.step = "reconcile"
      BY <1>5, <2>1 DEF Job, LoopSteps, Reads
    <3>2. RowsAhead'
      BY <3>1 DEF RowsAhead
    <3> QED
      BY <3>1, <3>2, BetweenRows DEF LoopSteps, Reads
  <2>2. CASE job' = Begin("protect", ToProtect(row))
    BY <1>1, <2>2, ProtectBegins
  <2> QED
    BY <1>1, <2>1, <2>2
<1> QED
  BY <1>1, <1>2, <1>3, <1>6, QuietStep DEF IInv, TypeOK

\* The reconciliation is through.
LEMMA EndReconcileInv ==
  ASSUME IInv, EndReconcile
  PROVE  IInv'
<1>1. job' \in Job /\ JobInv'
  BY ProtectBegins DEF EndReconcile
<1>2. truth' \in [net : [Symbols -> Int], book : Seq(Order)]
  BY NoTruthTyped DEF EndReconcile
<1> QED
  BY <1>1, <1>2, QuietStep DEF IInv, TypeOK, BrokerTypeOK, EndReconcile, brokerVars

\* The protection step is through; the batch of commands is read.
LEMMA EndProtectInv ==
  ASSUME IInv, EndProtect
  PROVE  IInv'
<1> DEFINE S == {c \in DOMAIN cmds : cmds[c].status = "PENDING"}
<1>0. S \in SUBSET Nat
  BY DEF IInv, TypeOK
<1>1. job' = [Begin("commands", {}) EXCEPT !.batch = S]
  BY DEF EndProtect
<1> HIDE DEF S
<1>2. job' \in Job /\ job'.at = "commands" /\ job'.step = "commands" /\ job'.todo = {}
  BY <1>0, <1>1, BeginJob DEF Job, LoopSteps
<1>3. JobInv'
  BY <1>2, BetweenRows DEF RowsAhead, LoopSteps, Reads
<1> QED
  BY <1>2, <1>3, QuietStep DEF IInv, TypeOK, BrokerTypeOK, EndProtect, brokerVars

\* The loop goes on with the next command.
LEMMA NextCommand ==
  ASSUME IInv, row' = row, NEW S \in SUBSET Nat,
         job.at = "commands", job' = [job EXCEPT !.batch = S]
  PROVE  job' \in Job /\ JobInv'
<1>1. /\ job' \in Job /\ job'.at = job.step /\ job'.step = job.step
      /\ job'.todo = job.todo
  BY DEF IInv, TypeOK, JobInv, JobCoherent, Job, LoopSteps
<1> QED
  BY <1>1, BackToLoop

\* A batch less one command is a batch.
LEMMA BatchTyped ==
  ASSUME IInv, NEW c
  PROVE  job.batch \ {c} \in SUBSET Nat
BY DEF IInv, TypeOK, Job

\* STOP, START or KILL_ALL is applied.
LEMMA ApplySwitchInv ==
  ASSUME IInv, ApplySwitch
  PROVE  IInv'
<1>1. cmds' \in Seq(Command)
  BY ResolveTyped DEF ApplySwitch, IInv, TypeOK
<1>2. eng' \in Engine
  <2>1. "KILL_ALL" \in CloseReasons /\ eng \in Engine
    BY DEF CloseReasons, ActiveReasons, IInv, TypeOK
  <2>2. Shutdown(eng, "KILL_ALL") \in Engine
    BY <2>1, ShutdownTyped
  <2>3. \A b \in BOOLEAN : [eng EXCEPT !.stopped = b] \in Engine
    BY <2>1 DEF Engine
  <2> QED
    BY <2>1, <2>2, <2>3 DEF ApplySwitch
<1>3. job.at = "commands" /\ job' = [job EXCEPT !.batch = job.batch \ {Oldest}]
  BY DEF ApplySwitch, Applying, At
<1>4. job' \in Job /\ JobInv'
  BY <1>3, BatchTyped, NextCommand DEF ApplySwitch
<1> QED
  BY <1>1, <1>2, <1>4, QuietStep DEF IInv, TypeOK, BrokerTypeOK, ApplySwitch, brokerVars

\* CLOSE_POSITION begins a flatten or is rejected.
LEMMA ApplyCloseInv ==
  ASSUME IInv, ApplyClose
  PROVE  IInv'
<1> DEFINE t == cmds[Oldest].trade
<1>0. job.at = "commands" /\ row' = row
  BY DEF ApplyClose, Applying, At
<1>1. CASE t \in OpenRows
  <2>1. t \in Trades /\ row[t].state \in Unfilled \cup Holding
    BY <1>1 DEF OpenRows, IInv, TypeOK, Row
  <2>2. job' = Flatten(t, "MANUAL_CLOSE") /\ cmds' = cmds
    BY <1>1 DEF ApplyClose
  <2>3. "MANUAL_CLOSE" \in CloseReasons
    BY DEF CloseReasons, ActiveReasons
  <2> HIDE DEF t
  <2>4. job' \in Job /\ JobInv'
    BY <1>0, <2>1, <2>2, <2>3, FlattenBegins
  <2> QED
    BY <2>2, <2>4, QuietStep DEF IInv, TypeOK, BrokerTypeOK, ApplyClose, brokerVars
<1>2. CASE t \notin OpenRows
  <2>1. job' = [job EXCEPT !.batch = job.batch \ {Oldest}] /\ Resolve(Oldest, "REJECTED")
    BY <1>2 DEF ApplyClose
  <2> HIDE DEF t
  <2>0. job.batch \ {Oldest} \in SUBSET Nat
    BY BatchTyped
  <2>2. job' \in Job /\ JobInv'
    BY <1>0, <2>0, <2>1, NextCommand
  <2>3. cmds' \in Seq(Command)
    BY <2>1, ResolveTyped DEF IInv, TypeOK
  <2> QED
    BY <2>2, <2>3, QuietStep DEF IInv, TypeOK, BrokerTypeOK, ApplyClose, brokerVars
<1> QED
  BY <1>1, <1>2

\* The commands are through: square off, or look for entries.
LEMMA EndCommandsInv ==
  ASSUME IInv, EndCommands
  PROVE  IInv'
<1>1. eng' \in Engine
  BY LimitedTyped DEF EndCommands, IInv, TypeOK
<1>2. job' \in Job /\ JobInv'
  <2>1. CASE job' = Begin("squareoff", OpenRows)
    <3>1. PICK S \in SUBSET Trades : S = OpenRows
      BY DEF OpenRows
    <3>2. /\ job' \in Job /\ job'.at = "squareoff" /\ job'.step = "squareoff"
          /\ job'.todo = S
      BY <2>1, <3>1, BeginJob DEF LoopSteps
    <3>3. RowsAhead'
      BY <3>2 DEF RowsAhead
    <3> QED
      BY <3>2, <3>3, BetweenRows DEF LoopSteps, Reads
  <2>2. CASE \E S \in SUBSET Fresh : job' = Begin("ingest", S)
    <3>1. PICK S \in SUBSET Fresh : job' = Begin("ingest", S)
      BY <2>2
    <3>2. S \in SUBSET Trades /\ \A t \in S : row'[t].state = "NONE"
      BY DEF Fresh, EndCommands
    <3>3. /\ job' \in Job /\ job'.at = "ingest" /\ job'.step = "ingest" /\ job'.todo = S
      BY <3>1, <3>2, BeginJob DEF LoopSteps
    <3>4. RowsAhead'
      BY <3>2, <3>3 DEF RowsAhead
    <3> QED
      BY <3>3, <3>4, BetweenRows DEF LoopSteps, Reads
  <2> QED
    BY <2>1, <2>2 DEF EndCommands
<1> QED
  BY <1>1, <1>2, QuietStep DEF IInv, TypeOK, BrokerTypeOK, EndCommands, brokerVars

\* A sleeping tick has nothing in hand.
LEMMA IdleInv ==
  ASSUME job' = Idle
  PROVE  job' \in Job /\ JobInv'
<1>1. job' \in Job /\ job'.at = "asleep" /\ job'.step = "asleep"
  BY DEF Idle, Job, Replies, CloseReasons, LoopSteps
<1>2. RowsAhead'
  BY <1>1 DEF RowsAhead
<1> QED
  BY <1>1, <1>2, BetweenRows DEF LoopSteps, Reads

\* The end of a tick leaves a well-formed engine asleep.
LEMMA TickEndsTyped ==
  ASSUME NEW e \in Engine, TickEnds(e)
  PROVE  eng' \in Engine /\ job' = Idle
BY DEF TickEnds, Engine

\* A square-off pass ends the tick.
LEMMA EndSquareoffInv ==
  ASSUME IInv, EndSquareoff
  PROVE  IInv'
<1>1. [eng EXCEPT !.done = Complete] \in Engine
  BY DEF IInv, TypeOK, Engine, Complete
<1>2. eng' \in Engine /\ job' = Idle
  BY <1>1, TickEndsTyped DEF EndSquareoff
<1>3. job' \in Job /\ JobInv'
  BY <1>2, IdleInv
<1> QED
  BY <1>2, <1>3, QuietStep DEF IInv, TypeOK, BrokerTypeOK, EndSquareoff, brokerVars

\* The entries end the tick.
LEMMA EndIngestInv ==
  ASSUME IInv, EndIngest
  PROVE  IInv'
<1>1. eng' \in Engine /\ job' = Idle
  BY TickEndsTyped DEF EndIngest, IInv, TypeOK
<1>2. job' \in Job /\ JobInv'
  BY <1>1, IdleInv
<1> QED
  BY <1>1, <1>2, QuietStep DEF IInv, TypeOK, BrokerTypeOK, EndIngest, brokerVars

\* The refused transition writes nothing.
LEMMA SaveExitIllegalInv ==
  ASSUME IInv, SaveExitIllegal
  PROVE  IInv'
<1>1. job' \in Job /\ JobInv'
  BY StepBegins DEF SaveExitIllegal, LoopSteps
<1> QED
  BY <1>1, QuietStep DEF IInv, TypeOK, BrokerTypeOK, SaveExitIllegal, brokerVars

\* CLOSE_POSITION is resolved with what flatten reported.
LEMMA MarkCloseInv ==
  ASSUME IInv, MarkClose
  PROVE  IInv'
<1>1. job.got \in {"APPLIED", "REJECTED"} /\ Resolve(Oldest, job.got) /\ row' = row
  BY DEF MarkClose, At, IInv, JobInv, JobIds
<1>2. cmds' \in Seq(Command)
  BY <1>1, ResolveTyped DEF IInv, TypeOK
<1>3. job' = [Resume(job) EXCEPT !.batch = Resume(job).batch \ {Oldest}]
  BY DEF MarkClose
<1>4. job \in Job
  BY DEF IInv, TypeOK
<1>5. /\ Resume(job) \in Job /\ Resume(job).at = job.step /\ Resume(job).step = job.step
      /\ Resume(job).todo = job.todo
  BY <1>4, ResumeJob
<1>6. /\ job' \in Job /\ job'.at = job.step /\ job'.step = job.step /\ job'.todo = job.todo
  BY <1>3, <1>5 DEF Job
<1>7. JobInv'
  BY <1>1, <1>6, BackToLoop
<1> QED
  BY <1>2, <1>6, <1>7, QuietStep DEF IInv, TypeOK, BrokerTypeOK, MarkClose, brokerVars

-----------------------------------------------------------------------------
(* Calls to the broker. *)

\* The row in hand is a row, and so is one a loop still has to reach.
LEMMA RowOf ==
  ASSUME IInv, NEW t \in Trades
  PROVE  /\ row[t] \in Row /\ row[t].qty \in Nat /\ row[t].price \in {0, 1}
         /\ row[t].stop \in Ids \cup {0} /\ row[t].entry \in Ids \cup {0}
BY DEF IInv, TypeOK, BookInv, RowIds, Row

\* While the tick works on a row, the row is that of a trade and off the list.
LEMMA TradeInHand ==
  ASSUME IInv, job.at \in OnRow
  PROVE  job \in Job /\ job.t \in Trades /\ job.t \notin job.todo
BY DEF IInv, TypeOK, JobInv, JobCoherent

\* A stop is placed, or the call fails.
LEMMA PlaceStopInv ==
  ASSUME BrokerAssumption, IInv, NEW t \in Trades, PlaceStop(t)
  PROVE  IInv'
<1>1. row[t].state = "ENTERED"
  BY DEF PlaceStop, At, IInv, JobInv, JobCoherent, RowsAhead, RowInHand, LoopSteps
<1>2. PICK reply \in {"order", "unseen", "raised"}, id \in 0 .. Len(orders) + 1 :
        /\ Send("stop", t, row[t].qty, row[t].price, reply, id)
        /\ job' = IF reply = "raised" THEN [Resume(job) EXCEPT !.todo = @ \ {t}]
                  ELSE [Call("save_stop", t, "NONE") EXCEPT
                          !.id = id,
                          !.got = IF reply = "unseen" \/ orders'[id].status \in Dead
                                  THEN "unconfirmed" ELSE "confirmed"]
  BY DEF PlaceStop
<1>3. BrokerTypeOK /\ job \in Job /\ id \in Nat
  BY DEF IInv, TypeOK, BrokerTypeOK
<1>4. BrokerTypeOK' /\ Adds("stop", t) /\ (reply \in {"order", "unseen"} => id \in Ids')
  BY <1>2, <1>3, RowOf, SendTyped DEF OwnKinds
<1>5. engineVarsButJob' = engineVarsButJob /\ row' = row
  BY DEF PlaceStop, engineVarsButJob
<1>6. CASE reply = "raised"
  <2>1. job' = [Resume(job) EXCEPT !.todo = Resume(job).todo \ {t}]
    BY <1>2, <1>6
  <2>2. /\ job' \in Job /\ job'.at = job.step /\ job'.step = job.step
        /\ job'.todo = job.todo \ {t}
    BY <1>3, <2>1, ResumeJob DEF Job
  <2>3. JobInv'
    BY <1>5, <2>2, BackToLoop
  <2> QED
    BY <1>4, <1>5, <2>2, <2>3, CallStep
<1>7. CASE reply # "raised"
  <2>1. PICK got \in Replies :
          job' = [Call("save_stop", t, "NONE") EXCEPT !.id = id, !.got = got]
    BY <1>2, <1>7 DEF Replies
  <2>0. "save_stop" \in OnRow
    BY DEF OnRow
  <2>a. /\ Call("save_stop", t, "NONE") \in Job /\ Call("save_stop", t, "NONE").at = "save_stop"
        /\ Call("save_stop", t, "NONE").step = job.step /\ Call("save_stop", t, "NONE").t = t
        /\ Call("save_stop", t, "NONE").todo = job.todo \ {t}
    BY <1>3, <2>0, CallJob, NoReason
  <2>2. /\ job' \in Job /\ job'.at = "save_stop" /\ job'.step = job.step /\ job'.t = t
        /\ job'.todo = job.todo \ {t} /\ job'.id = id
    BY <1>3, <2>1, <2>a DEF Job
  <2>3. RowInHand' /\ JobIds' /\ NothingSent'
    BY <1>1, <1>4, <1>5, <1>7, <2>2 DEF RowInHand, JobIds, NothingSent, OnIntent, OnFlatten
  <2>4. job'.at \in OnRow
    BY <2>2 DEF OnRow
  <2>5. JobInv'
    BY <1>5, <2>2, <2>3, <2>4, InHand
  <2> QED
    BY <1>4, <1>5, <2>2, <2>5, CallStep
<1> QED
  BY <1>6, <1>7

\* A stop is cancelled, or the cancel is not confirmed.
LEMMA CancelStopInv ==
  ASSUME BrokerAssumption, IInv, CancelStop
  PROVE  IInv'
<1>1. job.at = "cancel_stop" /\ job.at \in OnRow
  BY DEF CancelStop, At, OnRow, OnFlatten
<1>2. job \in Job /\ job.t \in Trades /\ job.t \notin job.todo
  BY <1>1, TradeInHand
<1>3. row[job.t].stop \in Ids
  BY <1>1, <1>2, RowOf DEF IInv, JobInv, JobIds
<1>4. PICK reply :
        /\ Cancel(row[job.t].stop, reply)
        /\ job' = [job EXCEPT !.at = "send_exit"] \/ FlattenReturns(FALSE)
  BY DEF CancelStop
<1>5. BrokerTypeOK' /\ Adds("human", NoTrade)
  BY <1>3, <1>4, CancelTyped DEF IInv, TypeOK
<1>6. engineVarsButJob' = engineVarsButJob /\ row' = row
  BY DEF CancelStop, engineVarsButJob
<1>7. job' \in Job /\ JobInv'
  <2>1. CASE job' = [job EXCEPT !.at = "send_exit"]
    <3>1. /\ job' \in Job /\ job'.at = "send_exit" /\ job'.at \in OnRow /\ job'.t = job.t
          /\ job'.step = job.step /\ job'.todo = job.todo
      BY <1>2, <2>1 DEF Job, OnRow, OnFlatten
    <3>2. row[job.t].state \in Unfilled \cup Holding
      BY <1>1 DEF IInv, JobInv, RowInHand, OnFlatten
    <3>3. RowInHand' /\ JobIds' /\ NothingSent'
      BY <1>6, <3>1, <3>2 DEF RowInHand, JobIds, NothingSent, OnIntent, OnFlatten
    <3> QED
      BY <1>2, <1>6, <3>1, <3>3, InHand
  <2>2. CASE FlattenReturns(FALSE)
    BY <1>2, <1>6, <2>2, FlattenReturnsJob
  <2> QED
    BY <1>4, <2>1, <2>2
<1> QED
  BY <1>5, <1>6, <1>7, CallStep

\* The market exit is sent, or the call fails.
LEMMA SendExitInv ==
  ASSUME BrokerAssumption, IInv, SendExit
  PROVE  IInv'
<1>1. job.at = "send_exit" /\ job.at \in OnRow
  BY DEF SendExit, At, OnRow, OnFlatten
<1>2. job \in Job /\ job.t \in Trades /\ job.t \notin job.todo
  BY <1>1, TradeInHand
<1>3. PICK reply \in {"order", "raised"}, id \in 0 .. Len(orders) + 1 :
        /\ Send("exit", job.t, row[job.t].qty, 0, reply, id)
        /\ IF reply = "order" THEN job' = [job EXCEPT !.at = "save_exit", !.id = id]
                              ELSE FlattenReturns(FALSE)
  BY DEF SendExit
<1>4. BrokerTypeOK /\ id \in Nat
  BY DEF IInv, TypeOK, BrokerTypeOK
<1>5. BrokerTypeOK' /\ Adds("exit", job.t) /\ (reply \in {"order", "unseen"} => id \in Ids')
  BY <1>2, <1>3, <1>4, RowOf, SendTyped DEF OwnKinds
<1>6. engineVarsButJob' = engineVarsButJob /\ row' = row
  BY DEF SendExit, engineVarsButJob
<1>7. job' \in Job /\ JobInv'
  <2>1. CASE reply = "order"
    <3>1. /\ job' \in Job /\ job'.at = "save_exit" /\ job'.at \in OnRow /\ job'.t = job.t
          /\ job'.step = job.step /\ job'.todo = job.todo /\ job'.id = id
      BY <1>2, <1>3, <1>4, <2>1 DEF Job, OnRow, OnFlatten
    <3>2. row[job.t].state \in Unfilled \cup Holding
      BY <1>1 DEF IInv, JobInv, RowInHand, OnFlatten
    <3>3. RowInHand' /\ JobIds' /\ NothingSent'
      BY <1>5, <1>6, <2>1, <3>1, <3>2 DEF RowInHand, JobIds, NothingSent, OnIntent, OnFlatten
    <3> QED
      BY <1>2, <1>6, <3>1, <3>3, InHand
  <2>2. CASE reply # "order"
    BY <1>2, <1>3, <1>6, <2>2, FlattenReturnsJob
  <2> QED
    BY <2>1, <2>2
<1> QED
  BY <1>5, <1>6, <1>7, CallStep

\* The square-off cancels an entry.
LEMMA CancelEntryInv ==
  ASSUME BrokerAssumption, IInv, NEW t \in Trades, CancelEntry(t)
  PROVE  IInv'
<1>1. /\ job.at = "squareoff" /\ job.step = "squareoff" /\ job \in Job
      /\ row[t].state = "ENTRY_SUBMITTED" /\ row[t].entry \in Ids
  BY DEF CancelEntry, At, IInv, TypeOK, JobInv, JobCoherent, BookInv, RowIds, LoopSteps
<1>2. PICK reply :
        /\ Cancel(row[t].entry, reply)
        /\ job' = Call("save_cancel", t, "NONE") \/ job' = [job EXCEPT !.todo = job.todo \ {t}]
  BY DEF CancelEntry
<1>3. BrokerTypeOK' /\ Adds("human", NoTrade)
  BY <1>1, <1>2, CancelTyped DEF IInv, TypeOK
<1>4. engineVarsButJob' = engineVarsButJob /\ row' = row
  BY DEF CancelEntry, engineVarsButJob
<1>5. job' \in Job /\ JobInv'
  <2>1. CASE job' = Call("save_cancel", t, "NONE")
    <3>0. "save_cancel" \in OnRow
      BY DEF OnRow
    <3>1. /\ job' \in Job /\ job'.at = "save_cancel" /\ job'.step = job.step /\ job'.t = t
          /\ job'.todo = job.todo \ {t} /\ job'.at \in OnRow
      BY <1>1, <2>1, <3>0, CallJob, NoReason
    <3>2. RowInHand' /\ JobIds' /\ NothingSent'
      BY <1>1, <1>4, <3>1 DEF RowInHand, JobIds, NothingSent, OnIntent, OnFlatten
    <3> QED
      BY <1>4, <3>1, <3>2, InHand
  <2>2. CASE job' = [job EXCEPT !.todo = job.todo \ {t}]
    <3>1. /\ job' \in Job /\ job'.at = job.step /\ job'.step = job.step
          /\ job'.todo \subseteq job.todo
      BY <1>1, <2>2 DEF Job
    <3> QED
      BY <1>4, <3>1, BackToLoop
  <2> QED
    BY <1>2, <2>1, <2>2
<1> QED
  BY <1>3, <1>4, <1>5, CallStep

\* The entry is sent: the one step that adds an entry order, for a trade that
\* has a row and has none yet.
LEMMA SendEntryInv ==
  ASSUME BrokerAssumption, IInv, SendEntry
  PROVE  IInv'
<1>1. job.at = "send_entry" /\ job.at \in OnRow /\ job.at \in OnIntent
  BY DEF SendEntry, At, OnRow, OnIntent
<1>2. job \in Job /\ job.t \in Trades /\ job.t \notin job.todo
  BY <1>1, TradeInHand
<1>3. row[job.t].state = "PENDING_ENTRY" /\ OrdersOf("entry", job.t) = {}
  BY <1>1 DEF IInv, JobInv, RowInHand, NothingSent
<1>4. PICK reply \in {"order", "raised", "refused"}, id \in 0 .. Len(orders) + 1 :
        /\ Send("entry", job.t, row[job.t].qty, 0, reply, id)
        /\ job' = CASE reply = "raised"  -> [job EXCEPT !.at = "resolve_entry"]
                    [] reply = "refused" -> [job EXCEPT !.at = "reject_entry"]
                    [] reply = "order"   ->
                         IF orders'[id].status = "REJECTED"
                           THEN [job EXCEPT !.at = "reject_entry"]
                           ELSE [job EXCEPT !.at = "save_entry", !.id = id,
                                   !.got = IF FillFinal(orders'[id]) THEN "filled" ELSE "working"]
  BY DEF SendEntry
<1>5. BrokerTypeOK /\ id \in Nat
  BY DEF IInv, TypeOK, BrokerTypeOK
<1>6. BrokerTypeOK' /\ Adds("entry", job.t) /\ (reply \in {"order", "unseen"} => id \in Ids')
  BY <1>2, <1>4, <1>5, RowOf, SendTyped DEF OwnKinds
<1>7. engineVarsButJob' = engineVarsButJob /\ row' = row
  BY DEF SendEntry, engineVarsButJob
<1>8. job' \in Job /\ JobInv'
  <2>1. PICK p \in {"resolve_entry", "reject_entry", "save_entry"}, i \in Nat, got \in Replies :
          /\ job' = [job EXCEPT !.at = p, !.id = i, !.got = got]
          /\ p = "save_entry" => i \in Ids'
    <3>0. job.id \in Nat /\ job.got \in Replies
      BY <1>2 DEF Job
    <3>1. CASE reply = "raised"
      <4>1. job' = [job EXCEPT !.at = "resolve_entry", !.id = job.id, !.got = job.got]
        BY <1>2, <1>4, <3>1 DEF Job
      <4> QED
        BY <3>0, <4>1
    <3>2. CASE reply = "refused" \/ (reply = "order" /\ orders'[id].status = "REJECTED")
      <4>1. job' = [job EXCEPT !.at = "reject_entry", !.id = job.id, !.got = job.got]
        BY <1>2, <1>4, <3>2 DEF Job
      <4> QED
        BY <3>0, <4>1
    <3>4. CASE reply = "order" /\ orders'[id].status # "REJECTED"
      <4>1. PICK got \in Replies :
              job' = [job EXCEPT !.at = "save_entry", !.id = id, !.got = got]
        BY <1>4, <3>4 DEF Replies
      <4> QED
        BY <1>5, <1>6, <3>4, <4>1
    <3>5. \/ reply = "raised"
          \/ reply = "refused" \/ (reply = "order" /\ orders'[id].status = "REJECTED")
          \/ reply = "order" /\ orders'[id].status # "REJECTED"
      BY <1>4
    <3> QED
      BY <3>1, <3>2, <3>4, <3>5, Zenon
  <2>2. /\ job' \in Job /\ job'.at = p /\ job'.t = job.t /\ job'.id = i
        /\ job'.step = job.step /\ job'.todo = job.todo
    BY <1>2, <2>1 DEF Job, OnRow, OnIntent
  <2>3. p \in OnRow /\ p \in OnIntent
    BY DEF OnRow, OnIntent
  <2>4. RowInHand' /\ JobIds' /\ NothingSent'
    BY <1>3, <1>7, <2>1, <2>2, <2>3 DEF RowInHand, JobIds, NothingSent, OnIntent, OnFlatten
  <2> QED
    BY <1>2, <1>7, <2>2, <2>3, <2>4, InHand
<1>9. BookInv'
  <2>1. RowIds'
    BY <1>6, <1>7 DEF Adds, RowIds, IInv, BookInv
  <2>2. IntentFirst'
    BY <1>2, <1>3, <1>6, <1>7 DEF Adds, IntentFirst, IInv, BookInv
  <2>3. AtMostOneEntry'
    BY <1>2, <1>3, <1>6 DEF Adds, AtMostOneEntry, OrdersOf, IInv, BookInv
  <2> QED
    BY <2>1, <2>2, <2>3 DEF BookInv
<1>10. TypeOK'
  BY <1>6, <1>7, <1>8, TypeFrame DEF IInv, TypeOK, engineVarsButJob
<1> QED
  BY <1>8, <1>9, <1>10 DEF IInv

\* The lookup of a tag only reads.
LEMMA ResolveEntryInv ==
  ASSUME BrokerAssumption, IInv, ResolveEntry
  PROVE  IInv'
<1>1. job.at = "resolve_entry" /\ job.at \in OnRow /\ job.at \in OnIntent
  BY DEF ResolveEntry, At, OnRow, OnIntent
<1>2. job \in Job /\ job.t \in Trades /\ job.t \notin job.todo
  BY <1>1, TradeInHand
<1>3. row[job.t].state = "PENDING_ENTRY"
  BY <1>1 DEF IInv, JobInv, RowInHand
<1>4. budget' \in 0 .. MaxEvents
  BY CostTyped DEF ResolveEntry, IInv, TypeOK, BrokerTypeOK
<1>5. Ids' = Ids /\ row' = row
  BY DEF Ids, ResolveEntry
<1>6. PICK p \in {"reject_entry", "save_entry"}, i \in Nat, got \in Replies :
        /\ job' = [job EXCEPT !.at = p, !.id = i, !.got = got]
        /\ p = "save_entry" => i \in Ids
  <2>1. CASE job' = [job EXCEPT !.at = "reject_entry"]
    <3>1. job.id \in Nat /\ job.got \in Replies
      BY <1>2 DEF Job
    <3>2. job' = [job EXCEPT !.at = "reject_entry", !.id = job.id, !.got = job.got]
      BY <1>2, <2>1 DEF Job
    <3> QED
      BY <3>1, <3>2
  <2>2. CASE LiveEntries(job.t) # {} /\
             \E got \in Replies :
               job' = [job EXCEPT !.at = "save_entry", !.id = Min(LiveEntries(job.t)), !.got = got]
    <3>1. LiveEntries(job.t) \in SUBSET Nat /\ LiveEntries(job.t) \subseteq Ids
      BY DEF LiveEntries, OrdersOf, Ids, IInv, TypeOK, BrokerTypeOK
    <3>2. Min(LiveEntries(job.t)) \in Ids /\ Min(LiveEntries(job.t)) \in Nat
      BY <2>2, <3>1, MinOfNats
    <3> QED
      BY <2>2, <3>2
  <2> QED
    BY <2>1, <2>2 DEF ResolveEntry, Replies
<1>7. /\ job' \in Job /\ job'.at = p /\ job'.t = job.t /\ job'.id = i
      /\ job'.step = job.step /\ job'.todo = job.todo
  BY <1>2, <1>6 DEF Job, OnRow, OnIntent
<1>8. p \in OnRow /\ p \in OnIntent
  BY DEF OnRow, OnIntent
<1>9. RowInHand' /\ JobIds' /\ NothingSent'
  BY <1>3, <1>5, <1>6, <1>7, <1>8 DEF RowInHand, JobIds, NothingSent, OnIntent, OnFlatten
<1>10. JobInv'
  BY <1>2, <1>5, <1>7, <1>8, <1>9, InHand
<1> QED
  BY <1>4, <1>7, <1>10, QuietStep DEF IInv, TypeOK, ResolveEntry

-----------------------------------------------------------------------------
(* Writes of a row. *)

\* A step that writes the state of one row and nothing else of it.
LEMMA StateWrite ==
  ASSUME IInv, orders' = orders, NEW t \in Trades,
         NEW s \in Unfilled \cup Holding \cup Terminal,
         row' = [row EXCEPT ![t].state = s],
         s = "ENTRY_SUBMITTED" => row[t].entry \in Ids
  PROVE  /\ BookInv' /\ Ids' = Ids /\ row' \in [Trades -> Row]
         /\ row'[t].state = s /\ row'[t].stop = row[t].stop
         /\ \A u \in Trades \ {t} : row'[u] = row[u]
<1> DEFINE r == [row[t] EXCEPT !.state = s]
<1>1. r \in Row /\ r.state = s /\ r.stop = row[t].stop /\ r.entry = row[t].entry
  BY RowOf DEF Row
<1>2. row' = [row EXCEPT ![t] = r]
  BY DEF IInv, TypeOK
<1>3. s # "NONE"
  BY DEF Unfilled, Holding, Terminal
<1> HIDE DEF r
<1>4. /\ r.stop \in Ids \cup {0} /\ r.entry \in Ids \cup {0} /\ r.state # "NONE"
      /\ r.state = "ENTRY_SUBMITTED" => r.entry \in Ids
  BY <1>1, <1>3, RowOf
<1>5. /\ BookInv' /\ Ids' = Ids /\ row' \in [Trades -> Row] /\ row'[t] = r
      /\ \A u \in Trades \ {t} : row'[u] = row[u]
  BY <1>1, <1>2, <1>4, RowWrite
<1> QED
  BY <1>1, <1>5

\* A step that ends the work on the row in hand by writing its state.
LEMMA WriteAndResume ==
  ASSUME IInv, job.at \in OnRow, UNCHANGED <<brokerVars, cmds, eng, truth, phase, starts>>,
         NEW s \in Unfilled \cup Holding \cup Terminal,
         row' = [row EXCEPT ![job.t].state = s], s # "ENTRY_SUBMITTED", job' = Resume(job)
  PROVE  IInv'
<1>1. job \in Job /\ job.t \in Trades /\ job.t \notin job.todo
  BY TradeInHand
<1>2. /\ BookInv' /\ row' \in [Trades -> Row]
      /\ \A u \in Trades \ {job.t} : row'[u] = row[u]
  BY <1>1, StateWrite DEF brokerVars
<1>3. /\ job' \in Job /\ job'.at = job.step /\ job'.step = job.step /\ job'.todo = job.todo
  BY <1>1, ResumeJob
<1>4. \A u \in job'.todo : row'[u].state = row[u].state
  BY <1>1, <1>2, <1>3 DEF Job
<1>5. JobInv'
  BY <1>3, <1>4, BackToLoop
<1> QED
  BY <1>2, <1>3, <1>5, RowStep

\* A step that deals with row t of the loop's list in one go.
LEMMA WriteAndGoOn ==
  ASSUME IInv, job.at \in LoopSteps, UNCHANGED <<brokerVars, cmds, eng, truth, phase, starts>>,
         NEW t \in Trades, row' \in [Trades -> Row], BookInv',
         \A u \in Trades \ {t} : row'[u] = row[u], job' = [job EXCEPT !.todo = job.todo \ {t}]
  PROVE  IInv'
<1>1. job \in Job /\ job.step = job.at
  BY DEF IInv, TypeOK, JobInv, JobCoherent
<1>2. /\ job' \in Job /\ job'.at = job.step /\ job'.step = job.step
      /\ job'.todo = job.todo \ {t}
  BY <1>1 DEF Job
<1>3. \A u \in job'.todo : row'[u].state = row[u].state
  BY <1>1, <1>2 DEF Job
<1>4. JobInv'
  BY <1>2, <1>3, BackToLoop
<1> QED
  BY <1>2, <1>4, RowStep

\* An entry refused or never found is recorded REJECTED.
LEMMA RejectEntryInv ==
  ASSUME IInv, RejectEntry
  PROVE  IInv'
<1>1. job.at \in OnRow
  BY DEF RejectEntry, At, OnRow, OnIntent
<1>2. "REJECTED" \in Unfilled \cup Holding \cup Terminal
  BY DEF Terminal
<1> QED
  BY <1>1, <1>2, WriteAndResume DEF RejectEntry

\* An entry cancelled unfilled is recorded CANCELLED.
LEMMA SaveCancelInv ==
  ASSUME IInv, SaveCancel
  PROVE  IInv'
<1>1. job.at \in OnRow
  BY DEF SaveCancel, At, OnRow
<1>2. "CANCELLED" \in Unfilled \cup Holding \cup Terminal
  BY DEF Terminal
<1> QED
  BY <1>1, <1>2, WriteAndResume DEF SaveCancel

\* A candidate is refused.
LEMMA SkipInv ==
  ASSUME IInv, NEW t \in Trades, Skip(t)
  PROVE  IInv'
<1>1. job.at \in LoopSteps
  BY DEF Skip, At, LoopSteps
<1>2. "REJECTED" \in Unfilled \cup Holding \cup Terminal
  BY DEF Terminal
<1>3. /\ BookInv' /\ row' \in [Trades -> Row]
      /\ \A u \in Trades \ {t} : row'[u] = row[u]
  BY <1>2, StateWrite DEF Skip, brokerVars
<1> QED
  BY <1>1, <1>3, WriteAndGoOn DEF Skip

\* The reconciliation finds an entry dead and unfilled.
LEMMA ReconcileEntryDeadInv ==
  ASSUME IInv, NEW t \in Trades, ReconcileEntryDead(t)
  PROVE  IInv'
<1>1. job.at \in LoopSteps
  BY DEF ReconcileEntryDead, Reconciling, At, LoopSteps
<1>2. PICK s \in Dead : row' = [row EXCEPT ![t].state = s]
  BY DEF ReconcileEntryDead
<1>3. s \in Unfilled \cup Holding \cup Terminal /\ s # "ENTRY_SUBMITTED"
  BY DEF Terminal, Dead
<1>4. /\ BookInv' /\ row' \in [Trades -> Row]
      /\ \A u \in Trades \ {t} : row'[u] = row[u]
  BY <1>2, <1>3, StateWrite DEF ReconcileEntryDead, brokerVars
<1> QED
  BY <1>1, <1>4, WriteAndGoOn DEF ReconcileEntryDead

\* The square-off passes, abandons or begins to flatten a row.
LEMMA SquareoffRowInv ==
  ASSUME IInv, NEW t \in Trades, SquareoffRow(t)
  PROVE  IInv'
<1>1. job.at = "squareoff" /\ job.at \in LoopSteps /\ job.step = "squareoff"
  BY DEF SquareoffRow, At, LoopSteps, IInv, JobInv, JobCoherent
<1>2. row \in [Trades -> Row] /\ eng.shut \in CloseReasons
  BY DEF IInv, TypeOK, Engine
<1>3. CASE job' = [job EXCEPT !.todo = job.todo \ {t}] /\ row' = row
  <2>1. BookInv'
    BY <1>3 DEF SquareoffRow, brokerVars, IInv, BookInv, RowIds, IntentFirst,
                AtMostOneEntry, Ids
  <2> QED
    BY <1>1, <1>2, <1>3, <2>1, WriteAndGoOn DEF SquareoffRow
<1>4. CASE /\ row' = [row EXCEPT ![t].state = "CANCELLED"]
           /\ job' = [job EXCEPT !.todo = job.todo \ {t}]
  <2>1. "CANCELLED" \in Unfilled \cup Holding \cup Terminal
    BY DEF Terminal
  <2>2. /\ BookInv' /\ row' \in [Trades -> Row]
        /\ \A u \in Trades \ {t} : row'[u] = row[u]
    BY <1>4, <2>1, StateWrite DEF SquareoffRow, brokerVars
  <2> QED
    BY <1>1, <1>4, <2>2, WriteAndGoOn DEF SquareoffRow
<1>5. CASE /\ row[t].state \in Holding
           /\ job' = Flatten(t, eng.shut) /\ row' = row
  <2>1. job' \in Job /\ JobInv'
    BY <1>2, <1>5, FlattenBegins
  <2> QED
    BY <1>5, <2>1, QuietStep DEF IInv, TypeOK, BrokerTypeOK, SquareoffRow, brokerVars
<1> QED
  BY <1>3, <1>4, <1>5 DEF SquareoffRow

\* A row the reconciliation leaves as it is.
LEMMA ReconcileWaitsInv ==
  ASSUME IInv, NEW t \in Trades, ReconcileWaits(t)
  PROVE  IInv'
<1>1. job.at \in LoopSteps
  BY DEF ReconcileWaits, Reconciling, At, LoopSteps
<1>2. row' = row /\ row' \in [Trades -> Row]
  BY DEF IInv, TypeOK, ReconcileWaits
<1>3. BookInv'
  BY <1>2 DEF ReconcileWaits, brokerVars, IInv, BookInv, RowIds, IntentFirst,
              AtMostOneEntry, Ids
<1> QED
  BY <1>1, <1>2, <1>3, WriteAndGoOn DEF ReconcileWaits

\* Intent is recorded; IntentFirst says no entry order was sent before it.
LEMMA IntendInv ==
  ASSUME EngineAssumption, IInv, NEW t \in Trades, Intend(t)
  PROVE  IInv'
<1>1. job.at = "ingest" /\ job.step = "ingest" /\ job \in Job /\ row[t].state = "NONE"
  BY DEF Intend, At, IInv, TypeOK, JobInv, JobCoherent, RowsAhead, LoopSteps
<1> DEFINE r == [row[t] EXCEPT !.state = "PENDING_ENTRY", !.qty = Lot]
<1>2. r \in Row /\ r.state = "PENDING_ENTRY" /\ r.stop = row[t].stop /\ r.entry = row[t].entry
  BY RowOf DEF Row, Unfilled, EngineAssumption
<1>3. row' = [row EXCEPT ![t] = r]
  BY DEF Intend, IInv, TypeOK
<1> HIDE DEF r
<1>4. r.stop \in Ids \cup {0} /\ r.entry \in Ids \cup {0}
  BY <1>2, RowOf
<1>5. orders' = orders
  BY DEF Intend, brokerVars
<1>6. /\ BookInv' /\ row' \in [Trades -> Row] /\ row'[t] = r
      /\ \A u \in Trades \ {t} : row'[u] = row[u]
  BY <1>2, <1>3, <1>4, <1>5, RowWrite
<1>7. "send_entry" \in OnRow
  BY DEF OnRow, OnIntent
<1>8. /\ job' \in Job /\ job'.at = "send_entry" /\ job'.step = job.step /\ job'.t = t
      /\ job'.todo = job.todo \ {t}
  BY <1>1, <1>7, CallJob, NoReason DEF Intend
<1>9. OrdersOf("entry", t)' = {}
  BY <1>1, <1>5 DEF OrdersOf, Ids, IInv, BookInv, IntentFirst
<1>10. RowInHand' /\ JobIds' /\ NothingSent'
  BY <1>2, <1>6, <1>8, <1>9 DEF RowInHand, JobIds, NothingSent, OnIntent, OnFlatten
<1>11. \A u \in job'.todo : row'[u].state = row[u].state
  BY <1>6, <1>1, <1>8 DEF Job
<1>12. JobInv'
  BY <1>7, <1>8, <1>10, <1>11, InHand
<1> QED
  BY <1>6, <1>8, <1>12, RowStep DEF Intend

\* The id of a stop is bound.
LEMMA SaveStopInv ==
  ASSUME IInv, SaveStop
  PROVE  IInv'
<1>1. job.at = "save_stop" /\ job.at \in OnRow
  BY DEF SaveStop, At, OnRow
<1>2. job \in Job /\ job.t \in Trades /\ job.t \notin job.todo
  BY <1>1, TradeInHand
<1>3. job.id \in Ids /\ row[job.t].state = "ENTERED" /\ job.id \in Nat
  BY <1>1, <1>2 DEF IInv, JobInv, JobIds, RowInHand, Job
<1>0. PICK s \in {"PROTECTED", "ENTERED"} :
        row' = [row EXCEPT ![job.t].stop = job.id, ![job.t].state = s]
  BY <1>2, <1>3 DEF SaveStop, IInv, TypeOK
<1> DEFINE r == [row[job.t] EXCEPT !.stop = job.id, !.state = s]
<1>a. row[job.t] \in Row /\ s \in Holding
  BY <1>0, <1>2, RowOf DEF Holding
<1>4. /\ r \in Row /\ r.state \in {"PROTECTED", "ENTERED"}
      /\ r.stop = job.id /\ r.entry = row[job.t].entry
  BY <1>0, <1>a, <1>3 DEF Row
<1>5. row' = [row EXCEPT ![job.t] = r]
  BY <1>0, <1>2 DEF IInv, TypeOK
<1> HIDE DEF r
<1>6. /\ r.stop \in Ids \cup {0} /\ r.entry \in Ids \cup {0} /\ r.state # "NONE"
      /\ r.state # "ENTRY_SUBMITTED"
  BY <1>2, <1>3, <1>4, RowOf
<1>7. /\ BookInv' /\ row' \in [Trades -> Row]
      /\ \A u \in Trades \ {job.t} : row'[u] = row[u]
  BY <1>2, <1>4, <1>5, <1>6, RowWrite DEF SaveStop, brokerVars
<1>8. /\ job' \in Job /\ job'.at = job.step /\ job'.step = job.step /\ job'.todo = job.todo
  BY <1>2, ResumeJob DEF SaveStop
<1>9. \A u \in job'.todo : row'[u].state = row[u].state
  BY <1>2, <1>7, <1>8 DEF Job
<1>10. JobInv'
  BY <1>8, <1>9, BackToLoop
<1> QED
  BY <1>7, <1>8, <1>10, RowStep DEF SaveStop

\* An exit is recorded.
LEMMA SaveExitInv ==
  ASSUME IInv, SaveExit
  PROVE  IInv'
<1>1. job.at = "save_exit" /\ job.at \in OnRow
  BY DEF SaveExit, At, OnRow, OnFlatten
<1>2. job \in Job /\ job.t \in Trades /\ job.t \notin job.todo
  BY <1>1, TradeInHand
<1> DEFINE r == [row[job.t] EXCEPT !.exit = job.id, !.stop = 0, !.why = job.why,
                                   !.state = "EXIT_SUBMITTED"]
<1>0. job.id \in Nat /\ job.why \in CloseReasons
  BY <1>2 DEF Job
<1>3. /\ r \in Row /\ r.state = "EXIT_SUBMITTED"
      /\ r.stop = 0 /\ r.entry = row[job.t].entry
  BY <1>0, <1>2, RowOf, ZenonT(30) DEF Row, Holding
<1>4. row' = [row EXCEPT ![job.t] = r]
  BY <1>2 DEF SaveExit, IInv, TypeOK
<1> HIDE DEF r
<1>5. /\ r.stop \in Ids \cup {0} /\ r.entry \in Ids \cup {0} /\ r.state # "NONE"
      /\ r.state # "ENTRY_SUBMITTED"
  BY <1>2, <1>3, RowOf
<1>6. /\ BookInv' /\ row' \in [Trades -> Row]
      /\ \A u \in Trades \ {job.t} : row'[u] = row[u]
  BY <1>2, <1>3, <1>4, <1>5, RowWrite DEF SaveExit, brokerVars
<1>7. \A u \in job.todo : row'[u].state = row[u].state
  BY <1>2, <1>6 DEF Job
<1>8. FlattenReturns(TRUE)
  BY DEF SaveExit
<1>9. job' \in Job /\ JobInv'
  BY <1>2, <1>7, <1>8, FlattenReturnsJob
<1> QED
  BY <1>6, <1>9, RowStep DEF SaveExit

\* The id of an entry is bound.
LEMMA SaveEntryInv ==
  ASSUME IInv, SaveEntry
  PROVE  IInv'
<1>1. job.at = "save_entry" /\ job.at \in OnRow
  BY DEF SaveEntry, At, OnRow, OnIntent
<1>2. job \in Job /\ job.t \in Trades /\ job.t \notin job.todo
  BY <1>1, TradeInHand
<1>3. job.id \in Ids /\ job.id \in Nat
  BY <1>1, <1>2 DEF IInv, JobInv, JobIds, Job
<1> DEFINE r == [row[job.t] EXCEPT !.state = "ENTRY_SUBMITTED", !.entry = job.id]
<1>4. /\ r \in Row /\ r.state = "ENTRY_SUBMITTED"
      /\ r.stop = row[job.t].stop /\ r.entry = job.id
  BY <1>2, <1>3, RowOf, ZenonT(30) DEF Row, Unfilled
<1>5. row' = [row EXCEPT ![job.t] = r]
  BY <1>2 DEF SaveEntry, IInv, TypeOK
<1> HIDE DEF r
<1>6. r.stop \in Ids \cup {0} /\ r.entry \in Ids /\ r.state # "NONE"
  BY <1>2, <1>3, <1>4, RowOf
<1>7. /\ BookInv' /\ row' \in [Trades -> Row] /\ Ids' = Ids /\ row'[job.t] = r
      /\ \A u \in Trades \ {job.t} : row'[u] = row[u]
  BY <1>2, <1>4, <1>5, <1>6, RowWrite DEF SaveEntry, brokerVars
<1>8. \A u \in job.todo : row'[u].state = row[u].state
  BY <1>2, <1>7 DEF Job
<1>9. job' \in Job /\ JobInv'
  <2>1. CASE job' = [job EXCEPT !.at = "save_fill"]
    <3>1. /\ job' \in Job /\ job'.at = "save_fill" /\ job'.at \in OnRow /\ job'.t = job.t
          /\ job'.step = job.step /\ job'.todo = job.todo /\ job'.id = job.id
      BY <1>2, <2>1 DEF Job, OnRow
    <3>2. RowInHand' /\ JobIds' /\ NothingSent'
      BY <1>3, <1>4, <1>7, <3>1 DEF RowInHand, JobIds, NothingSent, OnIntent, OnFlatten
    <3> QED
      BY <1>2, <1>8, <3>1, <3>2, InHand
  <2>2. CASE job' = Resume(job)
    <3>1. /\ job' \in Job /\ job'.at = job.step /\ job'.step = job.step
          /\ job'.todo = job.todo
      BY <1>2, <2>2, ResumeJob
    <3> QED
      BY <1>8, <3>1, BackToLoop
  <2> QED
    BY <2>1, <2>2 DEF SaveEntry
<1> QED
  BY <1>7, <1>9, RowStep DEF SaveEntry

\* A fill is acted upon: protected, or flattened when it slipped too far.
LEMMA ActOnFillJob ==
  ASSUME IInv, NEW t \in Trades, NEW o, job' = ActOnFill(t, o), row'[t].state = "ENTERED",
         row'[t].stop = row[t].stop, \A u \in Trades \ {t} : row'[u] = row[u]
  PROVE  job' \in Job /\ JobInv'
<1>1. CASE job' = Flatten(t, "ABNORMAL_SLIPPAGE_FLATTEN")
  <2>1. "ABNORMAL_SLIPPAGE_FLATTEN" \in CloseReasons
    BY DEF CloseReasons, ActiveReasons
  <2>2. row'[t].state \in Unfilled \cup Holding
    BY DEF Holding
  <2> QED
    BY <1>1, <2>1, <2>2, FlattenBegins
<1>2. CASE job' = Call("place_stop", t, "NONE")
  <2>1. "place_stop" \in OnRow /\ job \in Job
    BY DEF OnRow, IInv, TypeOK
  <2>2. /\ job' \in Job /\ job'.at = "place_stop" /\ job'.step = job.step /\ job'.t = t
        /\ job'.todo = job.todo \ {t}
    BY <1>2, <2>1, CallJob, NoReason
  <2>3. RowInHand' /\ JobIds' /\ NothingSent'
    BY <2>2 DEF RowInHand, JobIds, NothingSent, OnIntent, OnFlatten
  <2>4. \A u \in job'.todo : row'[u].state = row[u].state
    BY <2>1, <2>2 DEF Job
  <2> QED
    BY <2>1, <2>2, <2>3, <2>4, InHand
<1> QED
  BY <1>1, <1>2 DEF ActOnFill

\* apply_entry_fill writes a well-formed row.
LEMMA FillWritten ==
  ASSUME IInv, orders' = orders, NEW t \in Trades, NEW o, o.filled \in Nat,
         row' = [row EXCEPT ![t] = FillApplied(@, o)]
  PROVE  /\ BookInv' /\ row' \in [Trades -> Row]
         /\ row'[t].state = "ENTERED" /\ row'[t].stop = row[t].stop
         /\ \A u \in Trades \ {t} : row'[u] = row[u]
<1> DEFINE r == FillApplied(row[t], o)
<1>1. r \in Row /\ r.state = "ENTERED" /\ r.stop = row[t].stop /\ r.entry = row[t].entry
  BY RowOf DEF Row, FillApplied, Holding
<1>2. row' = [row EXCEPT ![t] = r]
  BY DEF IInv, TypeOK
<1> HIDE DEF r
<1>3. /\ r.stop \in Ids \cup {0} /\ r.entry \in Ids \cup {0} /\ r.state # "NONE"
      /\ r.state # "ENTRY_SUBMITTED"
  BY <1>1, RowOf
<1>4. /\ BookInv' /\ row' \in [Trades -> Row] /\ row'[t] = r
      /\ \A u \in Trades \ {t} : row'[u] = row[u]
  BY <1>1, <1>2, <1>3, RowWrite
<1> QED
  BY <1>1, <1>4

\* A fill known from the reply is applied.
LEMMA SaveFillInv ==
  ASSUME IInv, SaveFill
  PROVE  IInv'
<1>1. job.at = "save_fill" /\ job.at \in OnRow
  BY DEF SaveFill, At, OnRow
<1>2. job.t \in Trades /\ job.id \in Ids
  BY <1>1, TradeInHand DEF IInv, JobInv, JobIds
<1>3. orders[job.id].filled \in Nat
  BY <1>2, OrderFields DEF IInv, TypeOK
<1>4. /\ BookInv' /\ row' \in [Trades -> Row]
      /\ row'[job.t].state = "ENTERED" /\ row'[job.t].stop = row[job.t].stop
      /\ \A u \in Trades \ {job.t} : row'[u] = row[u]
  BY <1>2, <1>3, FillWritten DEF SaveFill, brokerVars
<1>5. job' \in Job /\ JobInv'
  BY <1>2, <1>4, ActOnFillJob DEF SaveFill
<1> QED
  BY <1>4, <1>5, RowStep DEF SaveFill

\* A fill found by the reconciliation is applied.
LEMMA ReconcileEntryFillInv ==
  ASSUME IInv, NEW t \in Trades, ReconcileEntryFill(t)
  PROVE  IInv'
<1> DEFINE o == truth.book[row[t].entry]
<1>0. truth.book \in Seq(Order) /\ row[t].entry \in DOMAIN truth.book
  BY DEF ReconcileEntryFill, EntrySeen, Seen, IInv, TypeOK
<1>a. o \in Order
  BY <1>0
<1>1. o.filled \in Nat
  BY <1>a DEF Order
<1>2. row' = [row EXCEPT ![t] = FillApplied(@, o)] /\ job' = ActOnFill(t, o)
  BY DEF ReconcileEntryFill
<1> HIDE DEF o
<1>3. /\ BookInv' /\ row' \in [Trades -> Row]
      /\ row'[t].state = "ENTERED" /\ row'[t].stop = row[t].stop
      /\ \A u \in Trades \ {t} : row'[u] = row[u]
  BY <1>1, <1>2, FillWritten DEF ReconcileEntryFill, brokerVars
<1>4. job' \in Job /\ JobInv'
  BY <1>2, <1>3, ActOnFillJob
<1> QED
  BY <1>3, <1>4, RowStep DEF ReconcileEntryFill

\* The broker's quantity and stop are adopted.
LEMMA ReconcileHeldInv ==
  ASSUME BrokerAssumption, IInv, NEW t \in Trades, ReconcileHeld(t)
  PROVE  IInv'
<1>1. job.at \in LoopSteps
  BY DEF ReconcileHeld, Reconciling, At, LoopSteps
<1>2. NetFor(t) \in Nat
  <2>1. truth.net[SymbolOf[t]] \in Int
    BY DEF IInv, TypeOK, BrokerAssumption
  <2> QED
    BY <2>1 DEF NetFor
<1>3. StopFor(t) # 0 => truth.book[StopFor(t)].trig \in {0, 1}
  <2>1. LiveStops(t) \in SUBSET Nat /\ LiveStops(t) \subseteq DOMAIN truth.book
        /\ truth.book \in Seq(Order)
    BY DEF LiveStops, IInv, TypeOK
  <2>2. StopFor(t) # 0 => StopFor(t) \in LiveStops(t)
    BY <2>1, MinOfNats DEF StopFor
  <2>3. StopFor(t) # 0 => truth.book[StopFor(t)] \in Order
    BY <2>1, <2>2
  <2> QED
    BY <2>3 DEF Order
<1> DEFINE r == Adopted(row[t], t)
<1>4. /\ r \in Row /\ r.state \in Holding /\ r.stop \in {row[t].stop, 0}
      /\ r.entry = row[t].entry
  <2>1. row[t] \in Row /\ row[t].state \in Holding
    BY RowOf DEF ReconcileHeld
  <2> DEFINE sized == [row[t] EXCEPT !.qty = NetFor(t)]
  <2>2. sized \in Row /\ sized.state \in Holding /\ sized.stop = row[t].stop
        /\ sized.entry = row[t].entry
    BY <1>2, <2>1 DEF Row
  <2>3. \/ r = sized
        \/ r = [sized EXCEPT !.stop = 0, !.state = "ENTERED"]
        \/ StopFor(t) # 0 /\ r = [sized EXCEPT !.price = truth.book[StopFor(t)].trig]
    BY DEF Adopted
  <2> HIDE DEF sized, r
  <2>4. CASE r = [sized EXCEPT !.stop = 0, !.state = "ENTERED"]
    BY <2>2, <2>4 DEF Row, Holding
  <2>5. CASE StopFor(t) # 0 /\ r = [sized EXCEPT !.price = truth.book[StopFor(t)].trig]
    BY <1>3, <2>2, <2>5 DEF Row
  <2> QED
    BY <2>2, <2>3, <2>4, <2>5
<1>5. row' = [row EXCEPT ![t] = r]
  BY DEF ReconcileHeld, IInv, TypeOK
<1> HIDE DEF r
<1>6. /\ r.stop \in Ids \cup {0} /\ r.entry \in Ids \cup {0} /\ r.state # "NONE"
      /\ r.state # "ENTRY_SUBMITTED"
  BY <1>4, RowOf DEF Holding
<1>7. /\ BookInv' /\ row' \in [Trades -> Row]
      /\ \A u \in Trades \ {t} : row'[u] = row[u]
  BY <1>4, <1>5, <1>6, RowWrite DEF ReconcileHeld, brokerVars
<1> QED
  BY <1>1, <1>7, WriteAndGoOn DEF ReconcileHeld

\* attribute names one of the reasons.
LEMMA AttributeTyped ==
  ASSUME NEW book, NEW t, NEW r \in Row, NEW i
  PROVE  Attribute(book, t, r, i) \in CloseReasons
<1>1. r.why \in CloseReasons
  BY DEF Row
<1>2. {"UNATTRIBUTED", "STOP_HIT", "MANUAL_BROKER_INTERVENTION"} \subseteq CloseReasons
  BY DEF CloseReasons
<1> QED
  BY <1>1, <1>2 DEF Attribute

\* A position flat at the broker is finalized.
LEMMA ReconcileFlatInv ==
  ASSUME BrokerAssumption, IInv, NEW t \in Trades, ReconcileFlat(t)
  PROVE  IInv'
<1>1. job.at \in LoopSteps
  BY DEF ReconcileFlat, Reconciling, At, LoopSteps
<1>2. Exits(t) \in SUBSET Nat
  BY DEF Exits, TradeExits, ExitSide, IInv, TypeOK
<1>3. ClosingOrder(Exits(t)) \in Nat
  BY <1>2, MinOfNats DEF ClosingOrder
<1>4. Booked(truth.book, Exits(t), row[t].entry) \in SUBSET Nat
  BY <1>2 DEF Booked
<1>5. Attribute(truth.book, t, row[t], ClosingOrder(Exits(t))) \in CloseReasons
  BY RowOf, AttributeTyped
<1> DEFINE r == Finalized(row[t], t)
<1>6. /\ r \in Row /\ r.state = "CLOSED" /\ r.stop = row[t].stop /\ r.entry = row[t].entry
  BY <1>3, <1>4, <1>5, RowOf DEF Finalized, Row, Terminal
<1>7. row' = [row EXCEPT ![t] = r]
  BY DEF ReconcileFlat, IInv, TypeOK
<1> HIDE DEF r
<1>8. /\ r.stop \in Ids \cup {0} /\ r.entry \in Ids \cup {0} /\ r.state # "NONE"
      /\ r.state # "ENTRY_SUBMITTED"
  BY <1>6, RowOf
<1>9. /\ BookInv' /\ row' \in [Trades -> Row]
      /\ \A u \in Trades \ {t} : row'[u] = row[u]
  BY <1>6, <1>7, <1>8, RowWrite DEF ReconcileFlat, brokerVars
<1> QED
  BY <1>1, <1>9, WriteAndGoOn DEF ReconcileFlat

-----------------------------------------------------------------------------
(* The process, the API, the clock, the exchange. *)

\* Death, a start, a command of the API, the clock.
LEMMA ProcessInv ==
  ASSUME BrokerAssumption, IInv, Crash \/ Start \/ SubmitCommand \/ Clock
  PROVE  IInv'
<1>1. CASE Crash
  <2>1. budget' \in 0 .. MaxEvents
    BY <1>1, CostTyped DEF IInv, TypeOK, BrokerTypeOK, Crash
  <2>2. job' \in Job /\ JobInv'
    BY <1>1, IdleInv DEF Crash
  <2>3. eng' \in Engine
    BY <1>1 DEF Crash, FreshEngine, Engine, CloseReasons
  <2>4. truth' \in [net : [Symbols -> Int], book : Seq(Order)]
    BY <1>1, NoTruthTyped DEF Crash
  <2> QED
    BY <1>1, <2>1, <2>2, <2>3, <2>4, QuietStep DEF IInv, TypeOK, Crash
<1>2. CASE Start
  <2>1. eng' \in Engine
    BY <1>2 DEF Start, FreshEngine, Engine, CloseReasons
  <2>2. JobInv'
    BY <1>2 DEF Start, brokerVars, IInv, JobInv, JobCoherent, RowInHand, RowsAhead,
                JobIds, NothingSent, OrdersOf, Ids
  <2> QED
    BY <1>2, <2>1, <2>2, QuietStep DEF IInv, TypeOK, BrokerTypeOK, Start, brokerVars
<1>3. CASE SubmitCommand
  <2>1. budget' \in 0 .. MaxEvents
    BY <1>3, CostTyped DEF IInv, TypeOK, BrokerTypeOK, SubmitCommand
  <2>2. PICK c \in Command : cmds' = Append(cmds, c)
    <3>1. CommandKinds \subseteq AllCommands
      BY EngineAssumption DEF EngineAssumption
    <3> QED
      BY <1>3, <3>1 DEF SubmitCommand, Command
  <2>3. cmds' \in Seq(Command)
    BY <2>2 DEF IInv, TypeOK
  <2>4. JobInv'
    BY <1>3 DEF SubmitCommand, IInv, JobInv, JobCoherent, RowInHand, RowsAhead,
                JobIds, NothingSent, OrdersOf, Ids
  <2> QED
    BY <1>3, <2>1, <2>3, <2>4, QuietStep DEF IInv, TypeOK, SubmitCommand
<1>4. CASE Clock
  <2>1. phase' \in 0 .. 4
    BY <1>4, EngineAssumption DEF Clock, EngineAssumption, IInv, TypeOK
  <2>2. JobInv'
    BY <1>4 DEF Clock, brokerVars, IInv, JobInv, JobCoherent, RowInHand, RowsAhead,
                JobIds, NothingSent, OrdersOf, Ids
  <2> QED
    BY <1>4, <2>1, <2>2, QuietStep DEF IInv, TypeOK, BrokerTypeOK, Clock, brokerVars
<1> QED
  BY <1>1, <1>2, <1>3, <1>4

\* The exchange or a human acts; the engine is where it was.
LEMMA EnvironmentInv ==
  ASSUME BrokerAssumption, IInv, Environment
  PROVE  IInv'
<1>1. BrokerTypeOK' /\ Adds("human", NoTrade)
  BY ExchangeTyped DEF Environment, IInv, TypeOK
<1>2. row' = row /\ job' = job /\ engineVarsButJob' = engineVarsButJob
  BY DEF Environment, engineVars, engineVarsButJob
<1>3. Ids \subseteq Ids' /\ \A u \in Trades : OrdersOf("entry", u)' = OrdersOf("entry", u)
  BY <1>1, <1>2, RowsKept
<1>4. job.at = "send_entry" => job.t \in Trades
  BY DEF IInv, JobInv, JobCoherent, OnRow, OnIntent
<1>5. JobInv'
  BY <1>2, <1>3, <1>4 DEF IInv, JobInv, JobCoherent, RowInHand, RowsAhead, JobIds, NothingSent
<1>6. job' \in Job
  BY <1>2 DEF IInv, TypeOK
<1> QED
  BY <1>1, <1>2, <1>5, <1>6, CallStep

-----------------------------------------------------------------------------
(* The theorems. *)

\* The invariant holds of the empty table and the empty book.
LEMMA InitInv ==
  ASSUME BrokerAssumption, Init
  PROVE  IInv
<1>1. BrokerTypeOK /\ Ids = {}
  BY DEF Init, BrokerInit, BrokerTypeOK, BrokerAssumption, Ids
<1>2. row \in [Trades -> Row] /\ \A t \in Trades : row[t] = NoRow
  <2>1. NoRow \in Row
    BY DEF NoRow, Row, CloseReasons
  <2> QED
    BY <2>1 DEF Init
<1>3. eng \in Engine
  BY DEF Init, FreshEngine, Engine, CloseReasons
<1>4. job \in Job /\ job.at = "asleep" /\ job.step = "asleep"
  BY DEF Init, Idle, Job, Replies, CloseReasons, LoopSteps
<1>5. truth \in [net : [Symbols -> Int], book : Seq(Order)]
  BY NoTruthTyped DEF Init
<1>6. TypeOK
  <2>1. cmds \in Seq(Command)
    BY DEF Init
  <2>2. phase \in 0 .. 4 /\ starts \in Nat
    BY DEF Init
  <2> QED
    BY <1>1, <1>2, <1>3, <1>4, <1>5, <2>1, <2>2 DEF TypeOK
<1>7. JobInv
  BY <1>4 DEF JobInv, JobCoherent, RowInHand, RowsAhead, JobIds, NothingSent,
              LoopSteps, Reads, OnRow, OnIntent, OnFlatten
<1>8. BookInv
  BY <1>1, <1>2 DEF BookInv, RowIds, IntentFirst, AtMostOneEntry, NoRow
<1> QED
  BY <1>6, <1>7, <1>8 DEF IInv

\* Every stretch of the tick preserves the invariant.
LEMMA TickInv ==
  ASSUME BrokerAssumption, EngineAssumption, IInv, Tick
  PROVE  IInv'
<1>1. CASE Reconcile
  BY <1>1, ReconcileWaitsInv, ReconcileEntryFillInv, ReconcileEntryDeadInv,
     ReconcileFlatInv, ReconcileHeldInv, EndReconcileInv DEF Reconcile
<1>2. CASE Protect
  BY <1>2, PlaceStopInv, SaveStopInv, EndProtectInv DEF Protect
<1>3. CASE FlattenSteps
  BY <1>3, CancelStopInv, SendExitInv, SaveExitInv, SaveExitIllegalInv DEF FlattenSteps
<1>4. CASE Commands
  BY <1>4, ApplySwitchInv, ApplyCloseInv, MarkCloseInv, EndCommandsInv DEF Commands
<1>5. CASE Squareoff
  BY <1>5, SquareoffRowInv, CancelEntryInv, SaveCancelInv, EndSquareoffInv DEF Squareoff
<1>6. CASE Ingest
  BY <1>6, SkipInv, IntendInv, SendEntryInv, ResolveEntryInv, RejectEntryInv,
     SaveEntryInv, SaveFillInv, EndIngestInv DEF Ingest
<1> QED
  BY <1>1, <1>2, <1>3, <1>4, <1>5, <1>6, TickStartInv, FetchBrokerTruthInv DEF Tick

\* A step that changes nothing preserves it.
LEMMA StutterInv ==
  ASSUME IInv, UNCHANGED vars
  PROVE  IInv'
BY DEF vars, engineVars, brokerVars, IInv, TypeOK, BrokerTypeOK, JobInv, JobCoherent,
       RowInHand, RowsAhead, JobIds, NothingSent, BookInv, RowIds, IntentFirst,
       AtMostOneEntry, OrdersOf, Ids

\* The invariant the tick relies on holds for every number of trades, symbols,
\* commands, restarts and adversities.
THEOREM Inductive == Spec => []IInv
<1>1. Init => IInv
  BY InitInv, BrokerAssumption
<1>2. IInv /\ [Next]_vars => IInv'
  BY TickInv, ProcessInv, EnvironmentInv, StutterInv, BrokerAssumption, EngineAssumption
     DEF Next
<1> QED
  BY <1>1, <1>2, PTL DEF Spec

\* Rows, queue, engine and account keep their types, the job its place in the
\* tick.
THEOREM TypeCorrect == Spec => []TypeOK
<1>1. IInv => TypeOK
  BY DEF IInv
<1> QED
  BY <1>1, Inductive, PTL

\* No trade ever gets a second entry order, whatever is lost, late, retried or
\* restarted: place_entry is called once per row, for a row that says so first.
THEOREM EntriesOnce == Spec => []AtMostOneEntry
<1>1. IInv => AtMostOneEntry
  BY DEF IInv, BookInv
<1> QED
  BY <1>1, Inductive, PTL

-----------------------------------------------------------------------------
(* Refinement: the rows follow the state machine of engine_orders.py. *)

\* A move of one row that the state machine knows is a step of it.
LEMMA LegalMove ==
  ASSUME IInv, NEW t \in Trades,
         \A u \in Trades \ {t} : row'[u].state = row[u].state,
         \/ row'[t].state = row[t].state
         \/ row[t].state = "NONE" /\ row'[t].state \in {"PENDING_ENTRY", "REJECTED"}
         \/ /\ row[t].state # "NONE"
            /\ row'[t].state \in Lifecycle!AllowedTransitions[row[t].state]
  PROVE  [Lifecycle!Next]_RowStates
<1>1. RowStates' = [RowStates EXCEPT ![t] = row'[t].state] /\ RowStates[t] = row[t].state
  BY DEF RowStates
<1>2. CASE row'[t].state = row[t].state
  BY <1>1, <1>2 DEF RowStates
<1>3. CASE row[t].state = "NONE" /\ row'[t].state \in {"PENDING_ENTRY", "REJECTED"}
  <2>1. Lifecycle!Create(t)
    BY <1>1, <1>3 DEF Lifecycle!Create
  <2> QED
    BY <2>1 DEF Lifecycle!Next
<1>4. CASE /\ row[t].state # "NONE"
           /\ row'[t].state \in Lifecycle!AllowedTransitions[row[t].state]
  <2>1. row[t].state \in Lifecycle!States
    BY <1>4, RowOf DEF Row, Lifecycle!States, Unfilled, Holding, Terminal,
       Lifecycle!Unfilled, Lifecycle!Holding, Lifecycle!Terminal
  <2>2. Lifecycle!Transition(t)
    BY <1>1, <1>4, <2>1 DEF Lifecycle!Transition
  <2> QED
    BY <2>2 DEF Lifecycle!Next
<1> QED
  BY <1>2, <1>3, <1>4

\* The transitions the engine makes.
LEMMA Allowed ==
  /\ {"ENTRY_SUBMITTED", "REJECTED", "CANCELLED"} \subseteq
       Lifecycle!AllowedTransitions["PENDING_ENTRY"]
  /\ {"ENTERED", "REJECTED", "CANCELLED"} \subseteq
       Lifecycle!AllowedTransitions["ENTRY_SUBMITTED"]
  /\ "PROTECTED" \in Lifecycle!AllowedTransitions["ENTERED"]
  /\ \A s \in Holding : "CLOSED" \in Lifecycle!AllowedTransitions[s]
  /\ \A s \in Holding \ {"EXIT_SUBMITTED"} :
       "EXIT_SUBMITTED" \in Lifecycle!AllowedTransitions[s]
  /\ \A s \in StopExpected : "ENTERED" \in Lifecycle!AllowedTransitions[s]
BY DEF Lifecycle!AllowedTransitions, Holding, StopExpected

\* A step that leaves the table alone is a stutter of the state machine.
LEMMA RowsStill ==
  ASSUME row' = row
  PROVE  [Lifecycle!Next]_RowStates
BY DEF RowStates

\* The moves of the reconciliation are legal.
LEMMA ReconcileFollows ==
  ASSUME IInv, Reconcile
  PROVE  [Lifecycle!Next]_RowStates
<1>0. row \in [Trades -> Row]
  BY DEF IInv, TypeOK
<1>1. ASSUME NEW t \in Trades, ReconcileWaits(t)
      PROVE  [Lifecycle!Next]_RowStates
  BY <1>1, RowsStill DEF ReconcileWaits
<1>2. ASSUME NEW t \in Trades, ReconcileEntryFill(t)
      PROVE  [Lifecycle!Next]_RowStates
  <2>1. /\ row[t].state = "ENTRY_SUBMITTED" /\ row'[t].state = "ENTERED"
        /\ \A u \in Trades \ {t} : row'[u].state = row[u].state
    BY <1>0, <1>2 DEF ReconcileEntryFill, EntrySeen, FillApplied, Row
  <2> QED
    BY <2>1, Allowed, LegalMove
<1>3. ASSUME NEW t \in Trades, ReconcileEntryDead(t)
      PROVE  [Lifecycle!Next]_RowStates
  <2>1. /\ row[t].state = "ENTRY_SUBMITTED" /\ row'[t].state \in {"REJECTED", "CANCELLED"}
        /\ \A u \in Trades \ {t} : row'[u].state = row[u].state
    BY <1>0, <1>3 DEF ReconcileEntryDead, EntrySeen, Dead, Row
  <2> QED
    BY <2>1, Allowed, LegalMove
<1>4. ASSUME NEW t \in Trades, ReconcileFlat(t)
      PROVE  [Lifecycle!Next]_RowStates
  <2>1. /\ row[t].state \in Holding /\ row'[t].state = "CLOSED"
        /\ \A u \in Trades \ {t} : row'[u].state = row[u].state
    BY <1>0, <1>4 DEF ReconcileFlat, Finalized, Row
  <2> QED
    BY <2>1, Allowed, LegalMove DEF Holding
<1>5. ASSUME NEW t \in Trades, ReconcileHeld(t)
      PROVE  [Lifecycle!Next]_RowStates
  <2>1. /\ row'[t] = Adopted(row[t], t) /\ row[t] \in Row
        /\ \A u \in Trades \ {t} : row'[u].state = row[u].state
    BY <1>0, <1>5 DEF ReconcileHeld
  <2>2. \/ row'[t].state = row[t].state
        \/ row[t].state \in StopExpected /\ row'[t].state = "ENTERED"
    BY <2>1 DEF Adopted, Row
  <2> QED
    BY <2>1, <2>2, Allowed, LegalMove DEF StopExpected
<1>6. ASSUME EndReconcile
      PROVE  [Lifecycle!Next]_RowStates
  BY <1>6, RowsStill DEF EndReconcile
<1> QED
  BY <1>1, <1>2, <1>3, <1>4, <1>5, <1>6 DEF Reconcile

\* So are those of the protection step,
LEMMA ProtectFollows ==
  ASSUME IInv, Protect
  PROVE  [Lifecycle!Next]_RowStates
<1>1. CASE SaveStop
  <2>1. job.t \in Trades /\ row[job.t].state = "ENTERED" /\ row \in [Trades -> Row]
    BY <1>1, TradeInHand DEF SaveStop, At, OnRow, IInv, TypeOK, JobInv, RowInHand
  <2>2. /\ row'[job.t].state \in {"ENTERED", "PROTECTED"}
        /\ \A u \in Trades \ {job.t} : row'[u].state = row[u].state
    BY <1>1, <2>1 DEF SaveStop, Row
  <2> QED
    BY <2>1, <2>2, Allowed, LegalMove
<1>2. CASE EndProtect
  BY <1>2, RowsStill DEF EndProtect
<1>3. CASE \E t \in Trades : PlaceStop(t)
  BY <1>3, RowsStill DEF PlaceStop, engineVarsButJob
<1> QED
  BY <1>1, <1>2, <1>3 DEF Protect

\* of the active exit,
LEMMA FlattenFollows ==
  ASSUME IInv, FlattenSteps
  PROVE  [Lifecycle!Next]_RowStates
<1>1. CASE SaveExit
  <2>1. job.t \in Trades /\ row[job.t].state \in Holding /\ row \in [Trades -> Row]
    BY <1>1, TradeInHand DEF SaveExit, At, OnRow, OnFlatten, IInv, TypeOK
  <2>2. /\ row'[job.t].state = "EXIT_SUBMITTED"
        /\ \A u \in Trades \ {job.t} : row'[u].state = row[u].state
    BY <1>1, <2>1 DEF SaveExit, Row
  <2> QED
    BY <2>1, <2>2, Allowed, LegalMove DEF Holding
<1>2. CASE CancelStop \/ SendExit \/ SaveExitIllegal
  BY <1>2, RowsStill DEF CancelStop, SendExit, SaveExitIllegal, engineVarsButJob
<1> QED
  BY <1>1, <1>2 DEF FlattenSteps

\* of the square-off,
LEMMA SquareoffFollows ==
  ASSUME IInv, Squareoff
  PROVE  [Lifecycle!Next]_RowStates
<1>0. row \in [Trades -> Row]
  BY DEF IInv, TypeOK
<1>1. CASE SaveCancel
  <2>1. job.t \in Trades /\ row[job.t].state = "ENTRY_SUBMITTED"
    BY <1>1, TradeInHand DEF SaveCancel, At, OnRow, IInv, JobInv, RowInHand
  <2>2. /\ row'[job.t].state = "CANCELLED"
        /\ \A u \in Trades \ {job.t} : row'[u].state = row[u].state
    BY <1>0, <1>1, <2>1 DEF SaveCancel, Row
  <2> QED
    BY <2>1, <2>2, Allowed, LegalMove
<1>2. ASSUME NEW t \in Trades, SquareoffRow(t)
      PROVE  [Lifecycle!Next]_RowStates
  <2>1. CASE row' = row
    BY <2>1, RowsStill
  <2>2. CASE row[t].state = "PENDING_ENTRY" /\ row' = [row EXCEPT ![t].state = "CANCELLED"]
    <3>1. /\ row'[t].state = "CANCELLED"
          /\ \A u \in Trades \ {t} : row'[u].state = row[u].state
      BY <1>0, <2>2 DEF Row
    <3> QED
      BY <2>2, <3>1, Allowed, LegalMove
  <2> QED
    BY <1>2, <2>1, <2>2 DEF SquareoffRow
<1>3. CASE (\E t \in Trades : CancelEntry(t)) \/ EndSquareoff
  BY <1>3, RowsStill DEF CancelEntry, EndSquareoff, engineVarsButJob
<1> QED
  BY <1>1, <1>2, <1>3 DEF Squareoff

\* and of the entries.
LEMMA IngestFollows ==
  ASSUME IInv, Ingest
  PROVE  [Lifecycle!Next]_RowStates
<1>0. row \in [Trades -> Row]
  BY DEF IInv, TypeOK
<1>1. ASSUME NEW t \in Trades, Skip(t) \/ Intend(t)
      PROVE  [Lifecycle!Next]_RowStates
  <2>1. row[t].state = "NONE"
    BY <1>1 DEF Skip, Intend, At, IInv, JobInv, JobCoherent, RowsAhead, LoopSteps
  <2>2. /\ row'[t].state \in {"PENDING_ENTRY", "REJECTED"}
        /\ \A u \in Trades \ {t} : row'[u].state = row[u].state
    BY <1>0, <1>1 DEF Skip, Intend, Row
  <2> QED
    BY <2>1, <2>2, LegalMove
<1>2. CASE RejectEntry \/ SaveEntry
  <2>1. job.t \in Trades /\ row[job.t].state = "PENDING_ENTRY"
    BY <1>2, TradeInHand DEF RejectEntry, SaveEntry, At, OnRow, OnIntent, IInv, JobInv, RowInHand
  <2>2. /\ row'[job.t].state \in {"ENTRY_SUBMITTED", "REJECTED"}
        /\ \A u \in Trades \ {job.t} : row'[u].state = row[u].state
    BY <1>0, <1>2, <2>1 DEF RejectEntry, SaveEntry, Row
  <2> QED
    BY <2>1, <2>2, Allowed, LegalMove
<1>3. CASE SaveFill
  <2>1. job.t \in Trades /\ row[job.t].state = "ENTRY_SUBMITTED"
    BY <1>3, TradeInHand DEF SaveFill, At, OnRow, IInv, JobInv, RowInHand
  <2>2. /\ row'[job.t].state = "ENTERED"
        /\ \A u \in Trades \ {job.t} : row'[u].state = row[u].state
    BY <1>0, <1>3, <2>1 DEF SaveFill, FillApplied, Row
  <2> QED
    BY <2>1, <2>2, Allowed, LegalMove
<1>4. CASE SendEntry \/ ResolveEntry \/ EndIngest
  BY <1>4, RowsStill DEF SendEntry, ResolveEntry, EndIngest, engineVarsButJob
<1> QED
  BY <1>1, <1>2, <1>3, <1>4 DEF Ingest

\* Every step of the engine, the process, the API or the exchange is a legal
\* move of one row or none.
LEMMA NextFollows ==
  ASSUME IInv, [Next]_vars
  PROVE  [Lifecycle!Next]_RowStates
<1>1. CASE TickStart \/ FetchBrokerTruth
  BY <1>1, RowsStill DEF TickStart, FetchBrokerTruth
<1>2. CASE Commands
  BY <1>2, RowsStill DEF Commands, ApplySwitch, ApplyClose, MarkClose, EndCommands
<1>3. CASE Crash \/ Start \/ SubmitCommand \/ Clock
  BY <1>3, RowsStill DEF Crash, Start, SubmitCommand, Clock
<1>4. CASE Environment \/ UNCHANGED vars
  BY <1>4, RowsStill DEF Environment, vars, engineVars
<1> QED
  BY <1>1, <1>2, <1>3, <1>4, ReconcileFollows, ProtectFollows, FlattenFollows,
     SquareoffFollows, IngestFollows DEF Next, Tick

\* Every behaviour of the engine is one of OrderLifecycle: no transition() of
\* the engine is illegal, save the one that raises in SaveExitIllegal.
THEOREM RowsFollow == Spec => RowsFollowLifecycle
<1>1. Init => Lifecycle!Init
  BY DEF Init, Lifecycle!Init, RowStates, NoRow
<1>2. IInv /\ [Next]_vars => [Lifecycle!Next]_RowStates
  BY NextFollows
<1> QED
  BY <1>1, <1>2, Inductive, PTL DEF Spec, RowsFollowLifecycle, Lifecycle!Spec

-----------------------------------------------------------------------------
(* One open trade per symbol. *)

\* Only Intend opens a row.
LEMMA NoNewRow ==
  ASSUME IInv, [Next]_vars, \A t \in Trades : ~Intend(t), NEW n \in Trades,
         row[n].state = "NONE"
  PROVE  row'[n].state \in {"NONE", "REJECTED"}
<1>0. row \in [Trades -> Row] /\ n \notin OpenRows
  BY DEF IInv, TypeOK, OpenRows
<1>1. CASE row' = row
  BY <1>1
<1>2. ASSUME NEW t \in Trades, row[t].state # "NONE",
             \A u \in Trades \ {t} : row'[u].state = row[u].state
      PROVE  row'[n].state \in {"NONE", "REJECTED"}
  BY <1>2
<1>3. CASE Reconcile
  <2>1. ASSUME NEW t \in Trades,
               ReconcileEntryFill(t) \/ ReconcileEntryDead(t) \/ ReconcileFlat(t) \/ ReconcileHeld(t)
        PROVE  row'[n].state \in {"NONE", "REJECTED"}
    <3>1. row[t].state # "NONE"
      BY <2>1 DEF ReconcileEntryFill, ReconcileEntryDead, ReconcileFlat, ReconcileHeld,
                  EntrySeen, Holding
    <3>2. \A u \in Trades \ {t} : row'[u].state = row[u].state
      BY <1>0, <2>1 DEF ReconcileEntryFill, ReconcileEntryDead, ReconcileFlat, ReconcileHeld
    <3> QED
      BY <1>2, <3>1, <3>2
  <2>2. ASSUME (\E t \in Trades : ReconcileWaits(t)) \/ EndReconcile
        PROVE  row'[n].state \in {"NONE", "REJECTED"}
    BY <1>1, <2>2 DEF ReconcileWaits, EndReconcile
  <2> QED
    BY <1>3, <2>1, <2>2 DEF Reconcile
<1>4. CASE SaveStop \/ SaveExit \/ SaveCancel \/ RejectEntry \/ SaveEntry \/ SaveFill
  <2>1. job.t \in Trades /\ row[job.t].state # "NONE"
    BY <1>4, TradeInHand DEF SaveStop, SaveExit, SaveCancel, RejectEntry, SaveEntry, SaveFill,
       At, OnRow, OnIntent, OnFlatten, IInv, JobInv, RowInHand, Unfilled, Holding
  <2>2. \A u \in Trades \ {job.t} : row'[u].state = row[u].state
    BY <1>0, <1>4, <2>1 DEF SaveStop, SaveExit, SaveCancel, RejectEntry, SaveEntry, SaveFill
  <2> QED
    BY <1>2, <2>1, <2>2
<1>5. ASSUME NEW t \in Trades, SquareoffRow(t)
      PROVE  row'[n].state \in {"NONE", "REJECTED"}
  <2>1. CASE row[t].state = "PENDING_ENTRY" /\ row' = [row EXCEPT ![t].state = "CANCELLED"]
    <3>1. \A u \in Trades \ {t} : row'[u].state = row[u].state
      BY <1>0, <2>1
    <3> QED
      BY <1>2, <2>1, <3>1
  <2> QED
    BY <1>1, <1>5, <2>1 DEF SquareoffRow
<1>6. ASSUME NEW t \in Trades, Skip(t)
      PROVE  row'[n].state \in {"NONE", "REJECTED"}
  BY <1>0, <1>6 DEF Skip, Row
<1>7. CASE Protect
  BY <1>1, <1>4, <1>7 DEF Protect, PlaceStop, EndProtect, engineVarsButJob
<1>8. CASE FlattenSteps
  BY <1>1, <1>4, <1>8 DEF FlattenSteps, CancelStop, SendExit, SaveExitIllegal, engineVarsButJob
<1>9. CASE Commands
  BY <1>1, <1>9 DEF Commands, ApplySwitch, ApplyClose, MarkClose, EndCommands
<1>10. CASE Squareoff
  BY <1>1, <1>4, <1>5, <1>10 DEF Squareoff, CancelEntry, EndSquareoff, engineVarsButJob
<1>11. CASE Ingest
  BY <1>1, <1>4, <1>6, <1>11 DEF Ingest, SendEntry, ResolveEntry, EndIngest, engineVarsButJob
<1>12. CASE TickStart \/ FetchBrokerTruth
  BY <1>1, <1>12 DEF TickStart, FetchBrokerTruth
<1>13. CASE Crash \/ Start \/ SubmitCommand \/ Clock \/ Environment \/ UNCHANGED vars
  BY <1>1, <1>13 DEF Crash, Start, SubmitCommand, Clock, Environment, vars, engineVars
<1> QED
  BY <1>3, <1>7, <1>8, <1>9, <1>10, <1>11, <1>12, <1>13 DEF Next, Tick

\* A row the engine has put away keeps its state for good.
LEMMA TerminalStays ==
  ASSUME IInv, [Next]_vars, NEW t \in Trades, row[t].state \in Terminal
  PROVE  row'[t].state = row[t].state
<1>1. Lifecycle!AllowedTransitions[row[t].state] = {}
  BY DEF Lifecycle!AllowedTransitions, Terminal
<1>2. [Lifecycle!Next]_RowStates
  BY NextFollows
<1>3. row[t].state # "NONE"
  BY DEF Terminal
<1>4. ASSUME NEW u \in Trades, Lifecycle!Create(u) \/ Lifecycle!Transition(u)
      PROVE  RowStates'[t] = RowStates[t]
  <2>1. RowStates[t] = row[t].state /\ RowStates \in [Trades -> {row[w].state : w \in Trades}]
    BY DEF RowStates
  <2>2. u # t
    BY <1>1, <1>3, <1>4, <2>1 DEF Lifecycle!Create, Lifecycle!Transition
  <2> QED
    BY <1>4, <2>1, <2>2 DEF Lifecycle!Create, Lifecycle!Transition
<1>5. RowStates'[t] = RowStates[t]
  BY <1>2, <1>4 DEF Lifecycle!Next
<1> QED
  BY <1>5 DEF RowStates

\* Any step but a new intent leaves the open rows open or closes them for good.
LEMMA OpenShrinks ==
  ASSUME IInv, [Next]_vars, \A t \in Trades : ~Intend(t)
  PROVE  OpenRows' \subseteq OpenRows
<1> SUFFICES ASSUME NEW t \in Trades, row'[t].state \notin Terminal \cup {"NONE"}
             PROVE  row[t].state \notin Terminal \cup {"NONE"}
  BY DEF OpenRows
<1>1. row[t].state # "NONE"
  BY NoNewRow DEF Terminal
<1>2. row[t].state \notin Terminal
  BY TerminalStays
<1> QED
  BY <1>1, <1>2

\* The entry gate keeps the trades of one stock apart: the positions book,
\* which nets by symbol, speaks of one open row at a time.
THEOREM OneTradePerSymbol == Spec => []OneOpenTradePerSymbol
<1>1. Init => OneOpenTradePerSymbol
  BY DEF Init, OneOpenTradePerSymbol, OpenRows, NoRow
<1>2. IInv /\ OneOpenTradePerSymbol /\ [Next]_vars => OneOpenTradePerSymbol'
  <2> SUFFICES ASSUME IInv, OneOpenTradePerSymbol, [Next]_vars
               PROVE  OneOpenTradePerSymbol'
    OBVIOUS
  <2>1. CASE \A t \in Trades : ~Intend(t)
    BY <2>1, OpenShrinks DEF OneOpenTradePerSymbol
  <2>2. ASSUME NEW t \in Trades, Intend(t)
        PROVE  OneOpenTradePerSymbol'
    <3>1. OpenRows' \subseteq OpenRows \cup {t}
      BY <2>2 DEF Intend, OpenRows, IInv, TypeOK
    <3>2. \A u \in OpenRows : SymbolOf[u] # SymbolOf[t]
      BY <2>2 DEF Intend, EntryGate
    <3> QED
      BY <3>1, <3>2 DEF OneOpenTradePerSymbol
  <2> QED
    BY <2>1, <2>2
<1> QED
  BY <1>1, <1>2, Inductive, PTL DEF Spec
=============================================================================
