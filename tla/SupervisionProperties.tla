-------------------------- MODULE SupervisionProperties --------------------------
(***************************************************************************)
(* What must hold of the processes the API supervises.                     *)
(***************************************************************************)
EXTENDS Supervision

Working(kind) == {p \in Pids : Is(p, kind, {"starting", "up"})}

\* Two observation runners would both write candles and setups: however
\* requests overlap, and whatever one of them misreads, one at most works.
AtMostOneRunner == Cardinality(Working("runner")) <= 1

\* Two engines would both enter the same candidates with real orders: a
\* second start is refused although the first has not beaten yet, whatever
\* the engine before it left in the status file.
AtMostOneEngine == Cardinality(Working("engine")) <= 1

\* While a stage of the preparation rewrites market data, nobody works on it,
\* and no process that a status file still names lives, not even one that is
\* wedged or winding down: not though the supervisor was killed and only its
\* child is left.
PreparationAlone ==
  prep.child =>
    \A p \in Pids :
      Alive(p) => proc[p].st \in {"wedged", "stopping"} /\ p \notin {rstat.pid, estat.pid}

\* The desk reports a crash only of an engine that did not stop on purpose:
\* "a deliberate stop is silence and must not be reported as a crash".
NoFalseAlarm ==
  Verdict = "crashed" /\ estat.pid \in Pids => ~proc[estat.pid].clean

\* When no runner lives, neither a lease nor a heartbeat refuses a new one
\* for ever, whatever died in the middle of a start.
RunnerStartUnblocked ==
  ~(\E p \in Pids : proc[p].kind = "runner" /\ Alive(p))
    ~> \/ ~RunnerRunning(rstat.fresh)
       \/ \E p \in Pids : proc[p].kind = "runner" /\ Alive(p)

\* When no engine lives, its last heartbeat does not refuse a new one for
\* ever ("a fresh heartbeat from a process that has since been killed would
\* block a legitimate restart").
EngineStartUnblocked ==
  ~(\E p \in Pids : proc[p].kind = "engine" /\ Alive(p))
    ~> \/ ~EngineRunning
       \/ \E p \in Pids : proc[p].kind = "engine" /\ Alive(p)
=============================================================================
