--------------------------- MODULE OrderLifecycle ---------------------------
(***************************************************************************)
(* What the engine promises about one row of its positions table: the      *)
(* state machine of engine_orders.py.  A trade is first written as an      *)
(* intent to enter, or as a candidate refused outright; from then on its   *)
(* state follows AllowedTransitions and stops for good in a terminal one.  *)
(* ExecutionEngine is shown to implement this specification.               *)
(***************************************************************************)
CONSTANT Trades

VARIABLE state

Unfilled == {"PENDING_ENTRY", "ENTRY_SUBMITTED"}
Holding  == {"ENTERED", "PROTECTED", "TRAILING", "EXIT_SUBMITTED"}
Terminal == {"CLOSED", "REJECTED", "CANCELLED"}
States   == Unfilled \cup Holding \cup Terminal

AllowedTransitions ==
  [ PENDING_ENTRY   |-> {"ENTRY_SUBMITTED", "REJECTED", "CANCELLED"},
    ENTRY_SUBMITTED |-> {"ENTERED", "REJECTED", "CANCELLED"},
    ENTERED         |-> {"PROTECTED", "EXIT_SUBMITTED", "CLOSED"},
    PROTECTED       |-> {"TRAILING", "EXIT_SUBMITTED", "ENTERED", "CLOSED"},
    TRAILING        |-> {"EXIT_SUBMITTED", "ENTERED", "CLOSED"},
    EXIT_SUBMITTED  |-> {"CLOSED"},
    CLOSED          |-> {},
    REJECTED        |-> {},
    CANCELLED       |-> {} ]

-----------------------------------------------------------------------------
Init == state = [t \in Trades |-> "NONE"]

\* The first row of a trade: durable intent, or a recorded refusal.
Create(t) ==
  /\ state[t] = "NONE"
  /\ \E s \in {"PENDING_ENTRY", "REJECTED"} : state' = [state EXCEPT ![t] = s]

\* engine_orders.transition: any other move raises IllegalTransition.
Transition(t) ==
  /\ state[t] \in States
  /\ \E s \in AllowedTransitions[state[t]] : state' = [state EXCEPT ![t] = s]

Next == \E t \in Trades : Create(t) \/ Transition(t)

Spec == Init /\ [][Next]_state
=============================================================================
