------------------------------- MODULE Supervision -------------------------------
(***************************************************************************)
(* How the API starts, watches and stops the two long-running processes,   *)
(* the observation runner and the execution engine, and how the checklist  *)
(* preparation keeps clear of both.  Nothing talks to a running process:   *)
(* all is decided from two status files, the start-lease file, a file lock *)
(* and probes of process ids.                                              *)
(*                                                                         *)
(* An action is a stretch of a request between two points where another    *)
(* thread or process can matter.  A lease found dead and its unlink are    *)
(* one step: two other threads would have to act between a read and the    *)
(* next statement.                                                         *)
(*                                                                         *)
(* Left out: the clock windows, the risk caps and the checklist verdict    *)
(* that also refuse a start, and the two autostart threads, which call the *)
(* same start path and are two of Threads.                                 *)
(***************************************************************************)
EXTENDS Integers, FiniteSets

CONSTANTS
  Threads,   \* threads of the API serving requests
  MaxProcs,  \* bound: processes spawned
  MaxApi,    \* bound: lives of the API process
  Events,    \* adversities admitted, pairs <<what, on what>>
  MaxEvents  \* bound: adversities per behaviour

ASSUME SupervisionAssumption ==
  /\ IsFiniteSet(Threads) /\ IsFiniteSet(Events)
  /\ MaxProcs \in Nat /\ MaxApi \in Nat \ {0} /\ MaxEvents \in Nat

VARIABLES
  api,     \* the API's current life; its process id is -api
  th,      \* thread -> where its request is, and the pid it spawned
  proc,    \* pid -> process
  lease,   \* observation_start.lock.json
  rstat,   \* runner_status.json
  estat,   \* execution_engine_status.json
  prep,    \* a preparation: supervisor, and the child that rewrites data
  budget   \* adversities left

vars == <<api, th, proc, lease, rstat, estat, prep, budget>>

Pids == 1 .. MaxProcs
Yesterday == MaxProcs + 1  \* the pid of a process dead since the day before

\* clean: the engine ended by its own decision.  (History, read by no action.)
NoProc == [kind |-> "none", st |-> "none", parent |-> 0, clean |-> FALSE]

\* st "empty": created with O_EXCL, its content not yet written.
\* old: past LEASE_STALE_SECONDS.
NoLease == [st |-> "none", pid |-> 0, old |-> FALSE]

Held(pid) == [st |-> "held", pid |-> pid, old |-> FALSE]

Living == {"starting", "up", "wedged", "stopping"}
Alive(p) == proc[p].st \in Living
AnyAlive == \E p \in Pids : Alive(p)
Unused == {p \in Pids : proc[p].kind = "none"}

Cost(evs) ==
  /\ evs \subseteq Events
  /\ Cardinality(evs) <= budget
  /\ budget' = budget - Cardinality(evs)

-----------------------------------------------------------------------------
(* What the outside concludes from the files. *)

\* os.kill(pid, 0): it succeeds on a zombie too.
PidAlive(pid) ==
  \/ pid = -api
  \/ pid \in Pids /\ proc[pid].st \in Living \cup {"zombie"}

\* Mutant: a lease whose process died is kept.
LapsesWithBeatOnly(beat) == beat

\* reconcile_start_lock_with_heartbeat, then is_start_lease_active: whether
\* what they find of the lease is cleared.
Lapses(beat) ==
  \/ lease.st = "held" /\ (~PidAlive(lease.pid) \/ lease.old)
  \/ beat

LeaseAfter(beat) == IF lease.st # "none" /\ Lapses(beat) THEN NoLease ELSE lease

\* is_runner_running
RunnerRunning(beat) == beat \/ LeaseAfter(beat).st # "none"

\* Mutant: silence is judged before the note.
SilenceFirst ==
  CASE estat.pid = 0 -> "absent"
    [] estat.pid # 0 /\ estat.fresh /\ ~estat.note -> "running"
    [] estat.pid # 0 /\ estat.fresh /\ estat.note -> "stopped"
    [] OTHER -> "crashed"

\* assess
Verdict ==
  CASE estat.pid = 0 -> "absent"
    [] estat.pid # 0 /\ estat.note -> "stopped"
    [] estat.pid # 0 /\ ~estat.note /\ estat.fresh -> "running"
    [] OTHER -> "crashed"

\* Mutant: the process id alone, so a zombie is a running engine.
PidOnly == ~estat.note /\ PidAlive(estat.pid)

\* engine_is_running
EngineRunning == Verdict = "running" /\ PidAlive(estat.pid)

\* _current_runner_pid: the status file first, whoever wrote it.
CurrentRunnerPid ==
  IF rstat.pid # 0 THEN rstat.pid ELSE IF lease.st = "held" THEN lease.pid ELSE 0

\* ensure_market_data_idle: "a stale heartbeat does not make it safe".
MarketDataIdle ==
  /\ ~RunnerRunning(rstat.fresh) /\ ~EngineRunning
  /\ ~PidAlive(CurrentRunnerPid) /\ ~PidAlive(estat.pid)

-----------------------------------------------------------------------------
(* The workflow lock: shared by starts, exclusive to a preparation, whose   *)
(* child inherits the descriptor and with it the lock.                      *)

InRequest == {t \in Threads : th[t].pc # "idle"}

\* Mutant: the lock ends with the supervisor.
LockedBySupervisor == prep.sup # "off"

\* workflow_lock
Exclusive == prep.sup # "off" \/ prep.child

Go(t, pc, pid) == th' = [th EXCEPT ![t] = [pc |-> pc, pid |-> pid]]

\* A request to start is served; one process stays in reserve for each.
Admitted(t) ==
  /\ th[t].pc = "idle"
  /\ ~Exclusive
  /\ Cardinality(Unused) > Cardinality(InRequest)

NextPid == CHOOSE p \in Unused : \A q \in Unused : p <= q

\* Popen, which also reaps the children of this API that nobody waits for.
Popen(kind) ==
  proc' = [p \in Pids |->
    IF p = NextPid
      THEN [kind |-> kind, st |-> "starting", parent |-> api, clean |-> FALSE]
      ELSE [proc[p] EXCEPT !.st = IF @ = "zombie" THEN "gone" ELSE @]]

-----------------------------------------------------------------------------
(* Starting the observation runner: _start_observation_runner. *)

\* runner_status.json is not written atomically: a reader may meet half of it.
ReadBeat(which, beat) ==
  \/ beat = rstat.fresh /\ Cost({})
  \/ rstat.fresh /\ ~beat /\ Cost({<<"torn", which>>})

\* compute_readiness
Readiness(t) ==
  /\ Admitted(t)
  /\ \E beat \in BOOLEAN :
       /\ ReadBeat("first", beat)
       /\ lease' = LeaseAfter(beat)
       /\ IF RunnerRunning(beat) THEN UNCHANGED th ELSE Go(t, "acquire", 0)
  /\ UNCHANGED <<api, proc, rstat, estat, prep>>

\* acquire_start_lock: O_EXCL, else _reclaim_if_stale and again.
Acquire(t) ==
  /\ th[t].pc = "acquire"
  /\ \/ /\ lease.st = "none"
        /\ lease' = [NoLease EXCEPT !.st = "empty"] /\ Go(t, "write", 0)
     \/ /\ lease.st = "held" /\ ~PidAlive(lease.pid)
        /\ lease' = NoLease /\ UNCHANGED th
     \/ /\ lease.st = "empty" \/ (lease.st = "held" /\ PidAlive(lease.pid))
        /\ Go(t, "idle", 0) /\ UNCHANGED lease
  /\ UNCHANGED <<api, proc, rstat, estat, prep, budget>>

\* The content goes to the file created, wherever that is by now.
WriteLease(t) ==
  /\ th[t].pc = "write"
  /\ lease' = IF lease.st = "empty" THEN Held(-api) ELSE lease
  /\ Go(t, "recheck", 0)
  /\ UNCHANGED <<api, proc, rstat, estat, prep, budget>>

\* Mutant: the lease is taken for proof enough.
NoRecheck(beat) == FALSE

\* "Re-check under the lock": is_status_heartbeat_fresh.
AlreadyBeating(beat) == beat

Recheck(t) ==
  /\ th[t].pc = "recheck"
  /\ \E beat \in BOOLEAN :
       /\ ReadBeat("recheck", beat)
       /\ IF AlreadyBeating(beat) THEN lease' = NoLease /\ Go(t, "idle", 0)
                                  ELSE Go(t, "spawn", 0) /\ UNCHANGED lease
  /\ UNCHANGED <<api, proc, rstat, estat, prep>>

SpawnRunner(t) ==
  /\ th[t].pc = "spawn"
  /\ \/ /\ Popen("runner") /\ Go(t, "record", NextPid)
        /\ Cost({}) /\ UNCHANGED lease
     \/ /\ Cost({<<"failed", "spawn">>})
        /\ lease' = NoLease /\ Go(t, "idle", 0) /\ UNCHANGED proc
  /\ UNCHANGED <<api, rstat, estat, prep>>

\* update_start_lock_pid: a rename over whatever is there; best effort.
RecordRunner(t) ==
  /\ th[t].pc = "record"
  /\ \/ lease' = Held(th[t].pid) /\ Cost({})
     \/ Cost({<<"failed", "lease">>}) /\ UNCHANGED lease
  /\ Go(t, "idle", 0)
  /\ UNCHANGED <<api, proc, rstat, estat, prep>>

-----------------------------------------------------------------------------
(* Starting the execution engine: _start_engine. *)

\* preflight.  That two requests overlap is an adversity of its own.
Preflight(t) ==
  /\ Admitted(t)
  /\ lease' = LeaseAfter(rstat.fresh)
  /\ RunnerRunning(rstat.fresh) /\ ~EngineRunning
  /\ Go(t, "spawn_engine", 0)
  /\ Cost(IF \E u \in Threads : th[u].pc \in {"spawn_engine", "seed"}
            THEN {<<"twice", "start">>} ELSE {})
  /\ UNCHANGED <<api, proc, rstat, estat, prep>>

SpawnEngine(t) ==
  /\ th[t].pc = "spawn_engine"
  /\ \/ Popen("engine") /\ Go(t, "seed", NextPid) /\ Cost({})
     \/ Cost({<<"failed", "spawn">>}) /\ Go(t, "idle", 0) /\ UNCHANGED proc
  /\ UNCHANGED <<api, lease, rstat, estat, prep>>

\* Mutant: the note of the engine before stays in the file.
SeedKeepsNote(pid) == [estat EXCEPT !.pid = pid, !.fresh = TRUE]

\* _seed_pid
Seeded(pid) == [pid |-> pid, fresh |-> TRUE, note |-> FALSE]

SeedPid(t) ==
  /\ th[t].pc = "seed"
  /\ estat' = Seeded(th[t].pid)
  /\ Go(t, "idle", 0)
  /\ UNCHANGED <<api, proc, lease, rstat, prep, budget>>

-----------------------------------------------------------------------------
(* Other requests. *)

\* GET readiness and every other caller of is_runner_running.
Poll ==
  /\ lease' = LeaseAfter(rstat.fresh) /\ lease' # lease
  /\ UNCHANGED <<api, th, proc, rstat, estat, prep, budget>>

\* SIGTERM: a runner that is up has a handler and winds down.
Signalled(p) ==
  [proc EXCEPT ![p].st = CASE @ = "up" -> "stopping"
                           [] @ = "starting" -> IF proc[p].parent = api THEN "zombie" ELSE "gone"
                           [] OTHER -> @]

\* stop_observation_runner.  In the startup gap of a runner the pid on file
\* can be that of the runner before it.  (Left out: that it is the API's own.)
StopRunner ==
  LET pid == CurrentRunnerPid
      early == LeaseAfter(rstat.fresh).st # "none" /\ lease.pid # pid
  IN /\ RunnerRunning(rstat.fresh)
     /\ pid \notin {0, -api}
     /\ Cost(IF early THEN {<<"early", "stop">>} ELSE {})
     /\ proc' = IF pid \in Pids THEN Signalled(pid) ELSE proc
     /\ lease' = NoLease
     /\ UNCHANGED <<api, th, rstat, estat, prep>>

-----------------------------------------------------------------------------
(* The two processes. *)

Is(p, kind, states) == p \in Pids /\ proc[p].kind = kind /\ proc[p].st \in states

\* The API has not yet recorded the pid of the child it spawned.
Unrecorded(p) == \E t \in Threads : th[t].pc \in {"record", "seed"} /\ th[t].pid = p

\* The child writes before that: Python would have to come up faster than
\* the API writes one file.
Rushing(p) == IF Unrecorded(p) THEN {<<"late", "record">>} ELSE {}

\* write_runner_status
RunnerBeats(p) ==
  /\ Is(p, "runner", {"starting", "up", "stopping"})
  /\ Cost(Rushing(p))
  /\ proc' = [proc EXCEPT ![p].st = IF @ = "starting" THEN "up" ELSE @]
  /\ rstat' = [pid |-> p, fresh |-> TRUE]
  /\ UNCHANGED <<api, th, lease, estat, prep>>

\* Its session closes at 15:30.
RunnerEnds(p) ==
  /\ Is(p, "runner", {"up"})
  /\ proc' = [proc EXCEPT ![p].st = "stopping"]
  /\ UNCHANGED <<api, th, lease, rstat, estat, prep, budget>>

\* HeartbeatWriter.write, at the end of every tick.
EngineBeats(p) ==
  /\ Is(p, "engine", {"starting", "up"})
  /\ Cost(Rushing(p))
  /\ proc' = [proc EXCEPT ![p].st = "up"]
  /\ estat' = [pid |-> p, fresh |-> TRUE, note |-> FALSE]
  /\ UNCHANGED <<api, th, lease, rstat, prep>>

\* write_stop_note: the session is over for it, or it failed to start.
EngineStops(p) ==
  /\ Is(p, "engine", {"starting", "up"})
  /\ Cost(Rushing(p))
  /\ proc' = [proc EXCEPT ![p].st = "stopping", ![p].clean = TRUE]
  /\ estat' = [pid |-> p, fresh |-> TRUE, note |-> TRUE]
  /\ UNCHANGED <<api, th, lease, rstat, prep>>

\* A living process that writes nothing any more.
Wedges(p) ==
  /\ proc[p].st = "up"
  /\ Cost({<<"wedged", proc[p].kind>>})
  /\ proc' = [proc EXCEPT ![p].st = "wedged"]
  /\ UNCHANGED <<api, th, lease, rstat, estat, prep>>

\* A dead child is a zombie until its parent waits for it.
Dies(p) ==
  /\ Alive(p)
  /\ Cost(IF proc[p].st = "stopping" THEN {} ELSE {<<"crash", proc[p].kind>>})
  /\ proc' = [proc EXCEPT ![p].st = IF proc[p].parent = api THEN "zombie" ELSE "gone"]
  /\ UNCHANGED <<api, th, lease, rstat, estat, prep>>

\* _reap_runner: the runner's thread waits; nothing waits for an engine.
ReapRunner(p) ==
  /\ Is(p, "runner", {"zombie"}) /\ ~Unrecorded(p)
  /\ proc' = [proc EXCEPT ![p].st = "gone"]
  /\ lease' = IF lease.st = "held" /\ lease.pid = p THEN NoLease ELSE lease
  /\ UNCHANGED <<api, th, rstat, estat, prep, budget>>

-----------------------------------------------------------------------------
(* Time: heartbeats and the lease go stale. *)

\* A start of the runner found no heartbeat, or an empty lease: one that goes
\* stale, or a lease that grows old, means that it has taken 30 s, or 120.
StartingRunner == \E t \in Threads : th[t].pc \in {"acquire", "write", "recheck", "spawn", "record"}
SlowStart(slow) == IF slow THEN {<<"slow", "start">>} ELSE {}

RunnerSilent ==
  /\ rstat.fresh
  /\ Cost(SlowStart(StartingRunner) \cup
         (IF Is(rstat.pid, "runner", {"up", "stopping"}) THEN {<<"slow", "runner">>} ELSE {}))
  /\ rstat' = [rstat EXCEPT !.fresh = FALSE]
  /\ UNCHANGED <<api, th, proc, lease, estat, prep>>

EngineSilent ==
  /\ estat.fresh
  /\ Cost(IF Is(estat.pid, "engine", {"starting", "up"}) THEN {<<"slow", "engine">>} ELSE {})
  /\ estat' = [estat EXCEPT !.fresh = FALSE]
  /\ UNCHANGED <<api, th, proc, lease, rstat, prep>>

LeaseAges ==
  /\ lease.st = "held" /\ ~lease.old
  /\ Cost(SlowStart(StartingRunner \/ \E p \in Pids : Is(p, "runner", {"starting"})))
  /\ lease' = [lease EXCEPT !.old = TRUE]
  /\ UNCHANGED <<api, th, proc, rstat, estat, prep>>

-----------------------------------------------------------------------------
(* Preparation: morning_checklist.run, manual_operation; a restart of the   *)
(* API, which takes its threads and their locks along.                      *)

PrepStarts ==
  /\ ~Exclusive /\ InRequest = {}
  /\ prep' = [prep EXCEPT !.sup = "checking"]
  /\ UNCHANGED <<api, th, proc, lease, rstat, estat, budget>>

\* ensure_market_data_idle before every stage, then the stage's child.
PrepStage ==
  /\ prep.sup = "checking"
  /\ lease' = LeaseAfter(rstat.fresh)
  /\ prep' = IF MarketDataIdle THEN [sup |-> "working", child |-> TRUE]
                               ELSE [prep EXCEPT !.sup = "off"]
  /\ UNCHANGED <<api, th, proc, rstat, estat, budget>>

PrepStageEnds ==
  /\ prep.child
  /\ \E next \in (IF prep.sup = "off" THEN {"off"} ELSE {"checking", "off"}) :
       prep' = [sup |-> next, child |-> FALSE]
  /\ UNCHANGED <<api, th, proc, lease, rstat, estat, budget>>

\* The supervisor is killed; its child works on.
PrepKilled ==
  /\ prep.sup # "off"
  /\ Cost({<<"crash", "prep">>})
  /\ prep' = [prep EXCEPT !.sup = "off"]
  /\ UNCHANGED <<api, th, proc, lease, rstat, estat>>

\* A restart between the spawn and its record, or within the creation of
\* the lease, is an adversity of its own.
ApiRestarts ==
  /\ api < MaxApi
  /\ Cost(IF \E t \in Threads : th[t].pc \in {"write", "recheck", "spawn", "record", "seed"}
            THEN {<<"restart", "mid_start">>} ELSE {<<"restart", "api">>})
  /\ api' = api + 1
  /\ th' = [t \in Threads |-> [pc |-> "idle", pid |-> 0]]
  /\ proc' = [p \in Pids |-> IF proc[p].st = "zombie" THEN [proc[p] EXCEPT !.st = "gone"]
                                                      ELSE proc[p]]
  /\ UNCHANGED <<lease, rstat, estat, prep>>

-----------------------------------------------------------------------------
ThreadStep(t) ==
  \/ Acquire(t) \/ WriteLease(t) \/ Recheck(t) \/ SpawnRunner(t) \/ RecordRunner(t)
  \/ SpawnEngine(t) \/ SeedPid(t)

Request == (\E t \in Threads : Readiness(t) \/ Preflight(t)) \/ StopRunner \/ Poll

ProcessStep(p) ==
  \/ RunnerBeats(p) \/ RunnerEnds(p) \/ EngineBeats(p) \/ EngineStops(p)
  \/ Wedges(p) \/ Dies(p) \/ ReapRunner(p)

Time == RunnerSilent \/ EngineSilent \/ LeaseAges

Preparation == PrepStarts \/ PrepStage \/ PrepStageEnds \/ PrepKilled

Init ==
  /\ api = 1
  /\ th = [t \in Threads |-> [pc |-> "idle", pid |-> 0]]
  /\ proc = [p \in Pids |-> NoProc]
  /\ lease = NoLease
  /\ rstat \in [pid : {0, Yesterday}, fresh : {FALSE}]
  /\ estat \in [pid : {0, Yesterday}, fresh : {FALSE}, note : BOOLEAN]
  /\ estat.note => estat.pid = Yesterday
  /\ prep = [sup |-> "off", child |-> FALSE]
  /\ budget = MaxEvents

Next ==
  \/ (\E t \in Threads : ThreadStep(t)) \/ Request
  \/ (\E p \in Pids : ProcessStep(p))
  \/ Time \/ Preparation \/ ApiRestarts

Spec == Init /\ [][Next]_vars

\* Threads run on, a thread waits for each runner, and time passes, at no
\* cost.  Nothing is assumed of processes, requests, the API or adversities.
Free(A) == A /\ budget' = budget
FairSpec ==
  /\ Spec
  /\ \A t \in Threads : WF_vars(ThreadStep(t))
  /\ \A p \in Pids : WF_vars(ReapRunner(p))
  /\ WF_vars(Free(RunnerSilent)) /\ WF_vars(Free(EngineSilent)) /\ WF_vars(Free(LeaseAges))
=============================================================================
