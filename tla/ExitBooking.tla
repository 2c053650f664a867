------------------------------ MODULE ExitBooking ------------------------------
(***************************************************************************)
(* How a trade that went flat is booked (engine_exit.py): which orders of  *)
(* the book are its exits, which one closed it and under what reason, and  *)
(* what it realised.  Pure: every operator takes the order book the tick   *)
(* has read.                                                               *)
(*                                                                         *)
(* Money is abstracted to one unit per share: an adverse exit loses it,    *)
(* any other exit wins it.                                                 *)
(***************************************************************************)
EXTENDS KiteBroker

\* truth.order(id)
Seen(book, i) == i \in DOMAIN book /\ book[i].shown

\* exit_side_orders: by symbol and side only.
ExitSide(book, t) ==
  {i \in DOMAIN book :
     /\ Seen(book, i)
     /\ book[i].sym = SymbolOf[t]
     /\ book[i].side = -DirOf[t]
     /\ book[i].filled > 0}

\* Mutant: by symbol and side alone.
TradeExitsBySymbol(book, t, entry, claimed) == ExitSide(book, t)

\* trade_exit_orders: the trade's own orders always, another engine trade's
\* never, a human's if placed after the entry and not booked before.
TradeExits(book, t, entry, claimed) ==
  {i \in ExitSide(book, t) :
     \/ book[i].trade = t
     \/ /\ book[i].trade = NoTrade
        /\ i \notin claimed
        /\ Seen(book, entry) => i > entry}

FilledOf(book, ids) == MapThenSumSet(LAMBDA i : book[i].filled, ids)

\* kite_realised_pnl: exits oldest first, capped at the entry's fill.
Take(book, exits, size, i) ==
  LET before == FilledOf(book, {j \in exits : j < i})
  IN Min({book[i].filled, Max({0, size - before})})

Booked(book, exits, entry) ==
  IF Seen(book, entry)
    THEN {i \in exits : Take(book, exits, book[entry].filled, i) > 0}
    ELSE {}

Realised(book, exits, entry) ==
  MapThenSumSet(
    LAMBDA i : Take(book, exits, book[entry].filled, i) * (IF book[i].adverse THEN -1 ELSE 1),
    Booked(book, exits, entry))

\* select_closing_order: the earliest; 0 when nothing explains the close.
ClosingOrder(exits) == IF exits = {} THEN 0 ELSE Min(exits)

\* attribute; r is the trade's row.
Attribute(book, t, r, i) ==
  CASE i = 0                                      -> "UNATTRIBUTED"
    [] i # 0 /\ i = r.stop                        -> "STOP_HIT"
    [] i # 0 /\ i # r.stop /\ i = r.exit          -> r.why
    [] OTHER ->
         CASE book[i].trade = t /\ book[i].kind = "exit" /\ r.why # "NONE" -> r.why
           [] book[i].trade = t /\ book[i].kind = "stop" -> "STOP_HIT"
           [] OTHER -> "MANUAL_BROKER_INTERVENTION"
=============================================================================
