---------------------------- MODULE SupervisionProofs ----------------------------
(***************************************************************************)
(* What holds of the supervised processes for every number of threads,     *)
(* processes, API restarts and adversities.  Base (types, the pids a start *)
(* in progress relies on) is inductive by itself; on top of it come one    *)
(* invariant per property.  Each theorem names the adversities it needs    *)
(* absent: they are the timing assumptions the code makes (a heartbeat     *)
(* within 30 s, a start within 120 s, a pid recorded before the child's    *)
(* first write), not the faults it is meant to survive.                    *)
(***************************************************************************)
EXTENDS SupervisionProperties, FiniteSetTheorems, NaturalsInduction, WellFoundedInduction, TLAPS

-----------------------------------------------------------------------------
(* Definitions. *)

Process == [kind : {"none", "runner", "engine"},
            st : Living \cup {"none", "zombie", "gone"}, parent : Nat, clean : BOOLEAN]

Lease == [st : {"none", "empty", "held"}, pid : Int, old : BOOLEAN]

Beat == [pid : Nat, fresh : BOOLEAN]

Status == [pid : Nat, fresh : BOOLEAN, note : BOOLEAN]

\* Where a request can be; while it starts a runner it has the lease in hand
\* from "write" on, and until "spawn" is over it has a process ahead of it.
LeaseInHand == {"write", "recheck", "spawn", "record"}
Spawning == {"acquire", "write", "recheck", "spawn", "spawn_engine"}
Places == {"idle", "seed"} \cup LeaseInHand \cup Spawning

TypeOK ==
  /\ api \in Nat \ {0}
  /\ th \in [Threads -> [pc : Places, pid : Pids \cup {0}]]
  /\ proc \in [Pids -> Process]
  /\ lease \in Lease
  /\ rstat \in Beat
  /\ estat \in Status
  /\ prep \in [sup : {"off", "checking", "working"}, child : BOOLEAN]
  /\ budget \in Nat

\* A pid is free until a process gets it; one that stopped on purpose never
\* works again; the pid a request has yet to record is that of a process.
Coherent ==
  /\ \A p \in Pids : /\ proc[p].kind = "none" <=> proc[p].st = "none"
                     /\ proc[p].clean => proc[p].st \in {"stopping", "zombie", "gone"}
  /\ \A t \in Threads : th[t].pc \in {"record", "seed"} =>
       th[t].pid \in Pids /\ proc[th[t].pid].kind # "none"

\* Every request with a spawn ahead of it has a pid to give.
Spawners == {t \in Threads : th[t].pc \in Spawning}
Reserve == Cardinality(Spawners) <= Cardinality(Unused)

Base == TypeOK /\ Coherent /\ Reserve

\* The child writes no file before the API has recorded its pid.
RecordFirst == <<"late", "record">> \notin Events

\* The engine on file that stopped on purpose has left its note there, and no
\* start in progress is about to write over it.
AlarmInv ==
  /\ estat.pid \in Pids /\ proc[estat.pid].clean => estat.note
  /\ \A t \in Threads : th[t].pc = "seed" => ~proc[th[t].pid].clean

\* Starts of the engine come one at a time, an engine ticks within 30 s, and
\* the API does not die between a spawn and its record.
EnginesPunctual ==
  {<<"twice", "start">>, <<"slow", "engine">>, <<"restart", "mid_start">>} \cap Events = {}

StartingEngine == {"spawn_engine", "seed"}

\* An engine at work is the one on file, or the one a request is about to
\* put there; who is about to spawn one has none beside it.
EngineInv ==
  /\ \A t, u \in Threads :
       th[t].pc \in StartingEngine /\ th[u].pc \in StartingEngine => t = u
  /\ \A t \in Threads :
       /\ th[t].pc = "spawn_engine" => Working("engine") = {}
       /\ th[t].pc = "seed" => Working("engine") \subseteq {th[t].pid}
  /\ \A p \in Working("engine") :
       \/ estat = Seeded(p)
       \/ \E t \in Threads : th[t].pc = "seed" /\ th[t].pid = p

\* A runner beats within 30 s, a start is over within that too, the re-check
\* under the lease reads the whole file, nobody stops a runner in its startup
\* gap, and the API does not die in the middle of a start or, where the lease
\* may be left with the API's own pid, at all.
RunnersPunctual ==
  /\ RecordFirst
  /\ {<<"torn", "recheck">>, <<"slow", "start">>, <<"slow", "runner">>, <<"early", "stop">>,
      <<"restart", "mid_start">>} \cap Events = {}
  /\ <<"failed", "lease">> \notin Events \/ <<"restart", "api">> \notin Events

Beating == {p \in Pids : Is(p, "runner", {"up", "stopping"})}
Booting == {p \in Pids : Is(p, "runner", {"starting"})}
Holders == {t \in Threads : th[t].pc \in LeaseInHand}

\* A runner that beats is the one on file, and the file is fresh.
BeatsOnFile == \A p \in Beating : rstat = [pid |-> p, fresh |-> TRUE]

\* While no heartbeat is fresh the lease excludes: one request has it in hand,
\* it is there, young and names the API.  (Under a fresh heartbeat it may be
\* cleared from under a request, which the re-check will refuse.)
LeaseExcludes ==
  /\ \A t \in Holders : th[t].pc \in {"spawn", "record"} => ~rstat.fresh
  /\ ~rstat.fresh =>
       /\ \A t, u \in Holders : t = u
       /\ \A t \in Holders :
            lease = IF th[t].pc = "write" THEN [NoLease EXCEPT !.st = "empty"] ELSE Held(-api)

\* A runner that has not beaten yet is covered by the lease, alone.
BootIsCovered ==
  \A p \in Booting :
    /\ ~rstat.fresh
    /\ Booting = {p}
    /\ \A t \in Holders : th[t].pc = "record" /\ th[t].pid = p
    /\ \/ lease = Held(p)
       \/ /\ lease = Held(-api)
          /\ Holders # {} \/ <<"failed", "lease">> \in Events

RunnerInv == BeatsOnFile /\ LeaseExcludes /\ BootIsCovered

\* A preparation has the lock to itself, and nobody is at work beside it.
PrepInv == (Exclusive => InRequest = {}) /\ PreparationAlone

-----------------------------------------------------------------------------
(* Base. *)

\* Pids are finitely many.
LEMMA PidsFinite == IsFiniteSet(Pids) /\ Pids \subseteq Nat
BY SupervisionAssumption, FS_Interval DEF Pids

\* The next pid is a free one.
LEMMA NextIsFree ==
  ASSUME Unused # {}
  PROVE  NextPid \in Unused
<1>1. Unused \subseteq Nat
  BY PidsFinite DEF Unused
<1>2. IsWellFoundedOn(OpToRel(<, Nat), Nat)
  BY NatLessThanWellFounded
<1>3. PICK x \in Unused : \A y \in Unused : ~ (<<y, x>> \in OpToRel(<, Nat))
  BY <1>1, <1>2, WFMin, Zenon
<1>4. \A y \in Unused : x <= y
  <2>1. TAKE y \in Unused
  <2>2. x \in Nat /\ y \in Nat
    BY <1>1
  <2>3. ~(y < x)
    BY <1>3, <2>2 DEF OpToRel
  <2> QED
    BY <2>2, <2>3
<1> QED
  BY <1>4 DEF NextPid

\* So a request with a spawn ahead of it gets one.
LEMMA SpawnIsFree ==
  ASSUME Base, NEW t \in Threads, th[t].pc \in Spawning
  PROVE  NextPid \in Unused
<1>1. IsFiniteSet(Spawners) /\ Spawners # {}
  BY SupervisionAssumption, FS_Subset DEF Spawners
<1>2. Cardinality(Spawners) # 0 /\ Cardinality(Spawners) \in Nat
  BY <1>1, FS_EmptySet, FS_CardinalityType
<1>3. IsFiniteSet(Unused) /\ Cardinality(Unused) \in Nat
  BY PidsFinite, FS_Subset, FS_CardinalityType DEF Unused
<1>4. Cardinality(Unused) # 0
  BY <1>2, <1>3 DEF Base, Reserve
<1> QED
  BY <1>4, FS_EmptySet, NextIsFree

\* The reserve lasts while nobody is admitted and nobody spawns,
LEMMA ReserveKept ==
  ASSUME Base, Spawners' \subseteq Spawners, Unused' = Unused
  PROVE  Reserve'
<1>1. IsFiniteSet(Spawners)
  BY SupervisionAssumption, FS_Subset DEF Spawners
<1>2. Cardinality(Spawners') <= Cardinality(Spawners) /\ Cardinality(Spawners) \in Nat
      /\ Cardinality(Spawners') \in Nat
  BY <1>1, FS_Subset, FS_CardinalityType
<1>3. Cardinality(Unused) \in Nat
  BY PidsFinite, FS_Subset, FS_CardinalityType DEF Unused
<1> QED
  BY <1>2, <1>3 DEF Base, Reserve

\* when a request is admitted,
LEMMA ReserveAdmits ==
  ASSUME Base, NEW t \in Threads, Admitted(t), Spawners' \subseteq Spawners \cup {t},
         Unused' = Unused
  PROVE  Reserve'
<1>1. IsFiniteSet(InRequest) /\ t \notin InRequest /\ Spawners \subseteq InRequest
  BY SupervisionAssumption, FS_Subset DEF InRequest, Admitted, Spawners, Spawning
<1>2. Cardinality(InRequest \cup {t}) = Cardinality(InRequest) + 1
      /\ IsFiniteSet(InRequest \cup {t})
  BY <1>1, FS_AddElement
<1>3. Spawners' \subseteq InRequest \cup {t}
  BY <1>1
<1>4. Cardinality(Spawners') <= Cardinality(InRequest) + 1 /\ Cardinality(Spawners') \in Nat
  BY <1>2, <1>3, FS_Subset, FS_CardinalityType
<1>5. Cardinality(Unused) \in Nat /\ Cardinality(InRequest) \in Nat
  BY <1>1, PidsFinite, FS_Subset, FS_CardinalityType DEF Unused
<1> QED
  BY <1>4, <1>5 DEF Reserve, Admitted

\* and when it spawns.
LEMMA ReserveSpends ==
  ASSUME Base, NEW t \in Spawners, Spawners' = Spawners \ {t},
         Unused' = Unused \ {NextPid}
  PROVE  Reserve'
<1>1. NextPid \in Unused
  BY SpawnIsFree DEF Spawners
<1>2. IsFiniteSet(Spawners) /\ IsFiniteSet(Unused)
  BY SupervisionAssumption, PidsFinite, FS_Subset DEF Spawners, Unused
<1>3. /\ Cardinality(Spawners') = Cardinality(Spawners) - 1
      /\ Cardinality(Unused') = Cardinality(Unused) - 1
  BY <1>1, <1>2, FS_RemoveElement
<1>4. Cardinality(Spawners) \in Nat /\ Cardinality(Unused) \in Nat
  BY <1>2, FS_CardinalityType
<1> QED
  BY <1>3, <1>4 DEF Base, Reserve

\* The lease as a poll leaves it is there as before or cleared.
LEMMA LeaseKeptOrCleared ==
  ASSUME NEW beat
  PROVE  LeaseAfter(beat) \in {lease, NoLease}
BY DEF LeaseAfter

\* A spawn uses up a free pid and leaves every other process what it was.
LEMMA PopenMakes ==
  ASSUME TypeOK, NextPid \in Unused, NEW kind \in {"runner", "engine"}, Popen(kind)
  PROVE  /\ proc' \in [Pids -> Process]
         /\ NextPid \in Pids
         /\ proc'[NextPid].kind = kind /\ proc'[NextPid].st = "starting"
         /\ proc'[NextPid].clean = FALSE
         /\ \A p \in Pids \ {NextPid} :
              /\ proc'[p].kind = proc[p].kind /\ proc'[p].clean = proc[p].clean
              /\ proc'[p].st = IF proc[p].st = "zombie" THEN "gone" ELSE proc[p].st
         /\ Unused' = Unused \ {NextPid}
<1> DEFINE n == NextPid
           new(p) == IF p = n
                       THEN [kind |-> kind, st |-> "starting", parent |-> api, clean |-> FALSE]
                       ELSE [proc[p] EXCEPT !.st = IF @ = "zombie" THEN "gone" ELSE @]
<1>1. n \in Pids
  BY DEF Unused
<1>2. proc' = [p \in Pids |-> new(p)]
  BY DEF Popen
<1>3. \A p \in Pids :
        /\ new(p) \in Process
        /\ p = n => new(p).kind = kind /\ new(p).st = "starting" /\ new(p).clean = FALSE
        /\ p # n => /\ new(p).kind = proc[p].kind /\ new(p).clean = proc[p].clean
                    /\ new(p).st = IF proc[p].st = "zombie" THEN "gone" ELSE proc[p].st
  <2> TAKE p \in Pids
  <2>1. proc[p] \in Process /\ api \in Nat
    BY DEF TypeOK
  <2>2. CASE p = n
    BY <2>1, <2>2 DEF Process, Living
  <2>3. CASE p # n
    BY <2>1, <2>3 DEF Process, Living
  <2> QED
    BY <2>2, <2>3
<1> HIDE DEF n, new
<1>4. \A p \in Pids : proc'[p] = new(p)
  BY <1>2
<1>5. proc' \in [Pids -> Process]
  BY <1>2, <1>3
<1>6. Unused' = Unused \ {n}
  BY <1>1, <1>3, <1>4 DEF Unused
<1> QED
  BY <1>1, <1>3, <1>4, <1>5, <1>6 DEF n

\* The place of one request changes.
LEMMA Goes ==
  ASSUME TypeOK, NEW t \in Threads, NEW pc \in Places, NEW pid \in Pids \cup {0}, Go(t, pc, pid)
  PROVE  /\ th' \in [Threads -> [pc : Places, pid : Pids \cup {0}]]
         /\ th'[t].pc = pc /\ th'[t].pid = pid
         /\ \A u \in Threads \ {t} : th'[u] = th[u]
BY DEF TypeOK, Go


\* A request goes on without a spawn.
LEMMA BaseGoes ==
  ASSUME Base, proc' = proc, TypeOK', NEW t \in Threads, NEW pc \in Places, NEW pid \in Pids \cup {0},
         Go(t, pc, pid), pc \notin {"record", "seed"},
         pc \in Spawning => th[t].pc \in Spawning \/ Admitted(t)
  PROVE  Base'
<1>1. /\ th'[t].pc = pc /\ th'[t].pid = pid
      /\ \A u \in Threads \ {t} : th'[u] = th[u]
  BY Goes DEF Base
<1>2. Coherent'
  BY <1>1 DEF Base, Coherent
<1>3. Unused' = Unused
  BY DEF Unused
<1>4. CASE pc \in Spawning => th[t].pc \in Spawning
  <2>1. Spawners' \subseteq Spawners
    BY <1>1, <1>4 DEF Spawners
  <2> QED
    BY <1>2, <1>3, <2>1, ReserveKept DEF Base
<1>5. CASE Admitted(t)
  <2>1. Spawners' \subseteq Spawners \cup {t}
    BY <1>1 DEF Spawners
  <2> QED
    BY <1>2, <1>3, <1>5, <2>1, ReserveAdmits DEF Base
<1> QED
  BY <1>4, <1>5

\* A request spawns.
LEMMA BaseSpawns ==
  ASSUME Base, NEW t \in Threads, th[t].pc \in {"spawn", "spawn_engine"},
         NEW kind \in {"runner", "engine"}, Popen(kind),
         NEW pc \in {"record", "seed"}, Go(t, pc, NextPid), TypeOK'
  PROVE  Base'
<1>1. NextPid \in Unused /\ NextPid \in Pids
  BY SpawnIsFree DEF Spawning, Unused
<1>2. /\ th'[t].pc = pc /\ th'[t].pid = NextPid
      /\ \A u \in Threads \ {t} : th'[u] = th[u]
  <2>1. pc \in Places /\ NextPid \in Pids \cup {0}
    BY <1>1 DEF Places, LeaseInHand
  <2> QED
    BY <2>1, Goes DEF Base
<1>3. /\ proc'[NextPid].kind = kind /\ proc'[NextPid].st = "starting"
      /\ proc'[NextPid].clean = FALSE
      /\ \A p \in Pids \ {NextPid} :
           /\ proc'[p].kind = proc[p].kind /\ proc'[p].clean = proc[p].clean
           /\ proc'[p].st = IF proc[p].st = "zombie" THEN "gone" ELSE proc[p].st
      /\ Unused' = Unused \ {NextPid}
  BY <1>1, PopenMakes DEF Base
<1>4. Coherent'
  BY <1>1, <1>2, <1>3 DEF Base, Coherent, Unused
<1>5. t \in Spawners /\ Spawners' = Spawners \ {t}
  BY <1>2 DEF Spawners, Spawning
<1> QED
  BY <1>3, <1>4, <1>5, ReserveSpends DEF Base

\* What a process does changes that process only, and its state.
Becomes(p, states) ==
  /\ proc' \in [Pids -> Process]
  /\ proc'[p].kind = proc[p].kind
  /\ proc'[p].st \in states
  /\ \A q \in Pids \ {p} : proc'[q] = proc[q]

\* One process changes its state.
LEMMA BaseMoves ==
  ASSUME Base, th' = th, NEW p \in Pids, Becomes(p, Living \cup {"zombie", "gone"}),
         proc[p].st # "none", TypeOK',
         proc'[p].clean => proc'[p].st \in {"stopping", "zombie", "gone"}
  PROVE  Base'
<1>1. proc'[p].kind # "none" /\ proc'[p].st # "none"
  BY DEF Base, Coherent, Living, Becomes
<1>2. \A q \in Pids \ {p} : proc'[q].kind = proc[q].kind /\ proc'[q] = proc[q]
  BY DEF Becomes
<1>3. ASSUME NEW t \in Threads, th[t].pc \in {"record", "seed"}
      PROVE  th[t].pid \in Pids /\ proc'[th[t].pid].kind # "none"
  BY <1>1, <1>2, <1>3 DEF Base, Coherent
<1>4. ASSUME NEW q \in Pids
      PROVE  /\ proc'[q].kind = "none" <=> proc'[q].st = "none"
             /\ proc'[q].clean => proc'[q].st \in {"stopping", "zombie", "gone"}
  BY <1>1, <1>2 DEF Base, Coherent
<1>5. Coherent'
  BY <1>3, <1>4 DEF Coherent
<1>6. Unused' = Unused /\ Spawners' = Spawners
  BY <1>1, <1>2 DEF Unused, Spawners, Becomes
<1> QED
  BY <1>5, <1>6, ReserveKept DEF Base

\* A runner beats, ends or is reaped.
LEMMA RunnerMoves ==
  ASSUME TypeOK, NEW p \in Pids, RunnerBeats(p) \/ RunnerEnds(p) \/ ReapRunner(p)
  PROVE  /\ proc[p].kind = "runner" /\ proc'[p].clean = proc[p].clean
         /\ RunnerBeats(p) => /\ proc[p].st \in {"starting", "up", "stopping"}
                              /\ Becomes(p, {IF proc[p].st = "starting" THEN "up" ELSE proc[p].st})
         /\ RunnerEnds(p) => proc[p].st = "up" /\ Becomes(p, {"stopping"})
         /\ ReapRunner(p) => proc[p].st = "zombie" /\ Becomes(p, {"gone"})
<1>1. proc \in [Pids -> Process] /\ proc[p] \in Process
  BY DEF TypeOK
<1>2. CASE RunnerBeats(p)
  <2>1. PICK st \in {"up", "stopping"} :
          /\ st = IF proc[p].st = "starting" THEN "up" ELSE proc[p].st
          /\ proc' = [proc EXCEPT ![p].st = st]
    BY <1>2 DEF RunnerBeats, Is
  <2> QED
    BY <1>1, <1>2, <2>1 DEF RunnerBeats, RunnerEnds, ReapRunner, Is, Becomes, Process, Living
<1>3. CASE RunnerEnds(p)
  BY <1>1, <1>3 DEF RunnerBeats, RunnerEnds, ReapRunner, Is, Becomes, Process, Living
<1>4. CASE ReapRunner(p)
  BY <1>1, <1>4 DEF RunnerBeats, RunnerEnds, ReapRunner, Is, Becomes, Process, Living
<1> QED
  BY <1>2, <1>3, <1>4

\* An engine beats or stops on purpose.
LEMMA EngineMoves ==
  ASSUME TypeOK, NEW p \in Pids, EngineBeats(p) \/ EngineStops(p)
  PROVE  /\ proc[p].kind = "engine" /\ proc[p].st \in {"starting", "up"}
         /\ EngineBeats(p) => Becomes(p, {"up"}) /\ proc'[p].clean = proc[p].clean
         /\ EngineStops(p) => Becomes(p, {"stopping"})
<1>1. proc \in [Pids -> Process] /\ proc[p] \in Process
  BY DEF TypeOK
<1>2. EngineBeats(p) => Becomes(p, {"up"}) /\ proc'[p].clean = proc[p].clean
  BY <1>1 DEF EngineBeats, Is, Becomes, Process, Living
<1>3. ASSUME EngineStops(p)
      PROVE  Becomes(p, {"stopping"})
  <2> DEFINE r == [proc[p] EXCEPT !.st = "stopping", !.clean = TRUE]
  <2>1. proc' = [proc EXCEPT ![p] = r]
    BY <1>1, <1>3 DEF EngineStops
  <2>2. r \in Process /\ r.kind = proc[p].kind /\ r.st = "stopping"
    BY <1>1 DEF Process, Living
  <2> HIDE DEF r
  <2> QED
    BY <1>1, <2>1, <2>2 DEF Becomes
<1> QED
  BY <1>2, <1>3 DEF EngineBeats, EngineStops, Is

\* A process hangs or dies.
LEMMA FailureMoves ==
  ASSUME TypeOK, NEW p \in Pids, Wedges(p) \/ Dies(p)
  PROVE  /\ proc[p].st \in Living /\ proc'[p].clean = proc[p].clean
         /\ Wedges(p) => proc[p].st = "up" /\ Becomes(p, {"wedged"})
         /\ Dies(p) => Becomes(p, {"zombie", "gone"})
BY DEF TypeOK, Wedges, Dies, Alive, Becomes, Process, Living

\* A signal winds a runner down or kills it before it has a handler.
LEMMA SignalMoves ==
  ASSUME TypeOK, NEW p \in Pids, proc' = Signalled(p)
  PROVE  /\ proc'[p].clean = proc[p].clean
         /\ proc[p].st = "up" => Becomes(p, {"stopping"})
         /\ proc[p].st = "starting" => Becomes(p, {"zombie", "gone"})
         /\ proc[p].st \notin {"up", "starting"} => Becomes(p, {proc[p].st})
BY DEF TypeOK, Signalled, Becomes, Process, Living

\* What is written to the files has its type.
LEMMA FilesTyped ==
  /\ NoLease \in Lease /\ [NoLease EXCEPT !.st = "empty"] \in Lease
  /\ \A pid \in Int : Held(pid) \in Lease
  /\ \A pid \in Nat : Seeded(pid) \in Status
<1>1. NoLease \in Lease
  BY DEF NoLease, Lease
<1>2. [NoLease EXCEPT !.st = "empty"] \in Lease
  BY <1>1 DEF Lease
<1>3. ASSUME NEW pid \in Int
      PROVE  Held(pid) \in Lease
  BY DEF Held, Lease
<1>4. ASSUME NEW pid \in Nat
      PROVE  Seeded(pid) \in Status
  BY DEF Seeded, Status
<1> QED
  BY <1>1, <1>2, <1>3, <1>4

\* The pid a request has in hand is one.
LEMMA PidTyped ==
  ASSUME TypeOK, NEW t \in Threads
  PROVE  th[t].pid \in Nat
<1>1. th[t].pid \in Pids \cup {0}
  BY DEF TypeOK
<1> QED
  BY <1>1, SupervisionAssumption DEF Pids

\* A request to start the runner steps within the API.
LEMMA BaseRequest ==
  ASSUME Base, NEW t \in Threads,
         Readiness(t) \/ Acquire(t) \/ WriteLease(t) \/ Recheck(t) \/ RecordRunner(t)
           \/ Preflight(t) \/ SeedPid(t)
  PROVE  Base'
<1>1. TypeOK /\ proc' = proc
  BY DEF Base, Readiness, Acquire, WriteLease, Recheck, RecordRunner, Preflight, SeedPid
<1>2. lease' \in Lease
  <2>1. CASE Readiness(t) \/ Preflight(t)
    <3>1. PICK beat : lease' = LeaseAfter(beat)
      BY <2>1 DEF Readiness, Preflight
    <3>2. lease' \in {lease, NoLease}
      BY <3>1, LeaseKeptOrCleared
    <3>3. lease \in Lease
      BY <1>1 DEF TypeOK
    <3> QED
      BY <3>2, <3>3, FilesTyped
  <2>2. CASE Acquire(t) \/ WriteLease(t) \/ Recheck(t) \/ RecordRunner(t)
    <3>1. th[t].pid \in Int /\ -api \in Int
      BY <1>1, PidTyped DEF TypeOK
    <3>2. lease' \in {lease, NoLease, [NoLease EXCEPT !.st = "empty"], Held(-api), Held(th[t].pid)}
      <4>1. CASE Acquire(t)
        BY <4>1 DEF Acquire
      <4>2. CASE WriteLease(t)
        BY <4>2 DEF WriteLease
      <4>3. CASE Recheck(t)
        BY <4>3 DEF Recheck
      <4>4. CASE RecordRunner(t)
        BY <4>4 DEF RecordRunner
      <4> QED
        BY <2>2, <4>1, <4>2, <4>3, <4>4
    <3>3. lease \in Lease
      BY <1>1 DEF TypeOK
    <3> QED
      BY <3>1, <3>2, <3>3, FilesTyped
  <2> QED
    BY <1>1, <2>1, <2>2 DEF SeedPid, TypeOK
<1>3. budget' \in Nat
  <2>1. ASSUME NEW evs, Cost(evs)
        PROVE  budget' \in Nat
    <3>1. IsFiniteSet(evs)
      BY <2>1, SupervisionAssumption, FS_Subset DEF Cost
    <3>2. Cardinality(evs) \in Nat
      BY <3>1, FS_CardinalityType
    <3> QED
      BY <1>1, <2>1, <3>2 DEF Cost, TypeOK
  <2> QED
    BY <1>1, <2>1 DEF Readiness, Acquire, WriteLease, Recheck, RecordRunner, Preflight, SeedPid,
       ReadBeat, TypeOK
<1>4. CASE UNCHANGED th
  <2>1. TypeOK'
    BY <1>1, <1>2, <1>3, <1>4 DEF Readiness, Acquire, WriteLease, Recheck, RecordRunner,
       Preflight, SeedPid, TypeOK, Go
  <2>2. Coherent' /\ Spawners' = Spawners /\ Unused' = Unused
    BY <1>1, <1>4 DEF Base, Coherent, Spawners, Unused
  <2> QED
    BY <2>1, <2>2, ReserveKept DEF Base
<1>5. ASSUME NEW pc \in {"idle", "acquire", "write", "recheck", "spawn", "spawn_engine"},
             Go(t, pc, 0), pc \in Spawning => th[t].pc \in Spawning \/ Admitted(t)
      PROVE  Base'
  <2>1. pc \in Places /\ pc \notin {"record", "seed"}
    BY DEF Places, Spawning, LeaseInHand
  <2>2. th' \in [Threads -> [pc : Places, pid : Pids \cup {0}]]
    BY <1>1, <1>5, <2>1, Goes
  <2>3. UNCHANGED <<api, rstat, prep>>
    BY DEF Readiness, Acquire, WriteLease, Recheck, RecordRunner, Preflight, SeedPid
  <2>4. estat' \in Status
    <3>1. th[t].pid \in Nat
      BY <1>1, PidTyped
    <3>2. estat' \in {estat, Seeded(th[t].pid)}
      BY DEF Readiness, Acquire, WriteLease, Recheck, RecordRunner, Preflight, SeedPid
    <3>3. estat \in Status
      BY <1>1 DEF TypeOK
    <3> QED
      BY <3>1, <3>2, <3>3, FilesTyped
  <2>5. TypeOK'
    BY <1>1, <1>2, <1>3, <2>2, <2>3, <2>4 DEF TypeOK
  <2> QED
    BY <1>1, <1>5, <2>1, <2>5, BaseGoes
<1> QED
  BY <1>4, <1>5 DEF Readiness, Acquire, WriteLease, Recheck, RecordRunner, Preflight, SeedPid, Spawning

\* Adversities are paid for from what is left of the budget.
LEMMA CostTyped ==
  ASSUME TypeOK, NEW evs, Cost(evs)
  PROVE  budget' \in Nat
<1>1. IsFiniteSet(evs)
  BY SupervisionAssumption, FS_Subset DEF Cost
<1>2. Cardinality(evs) \in Nat
  BY <1>1, FS_CardinalityType
<1>3. budget \in Nat
  BY DEF TypeOK
<1> QED
  BY <1>2, <1>3 DEF Cost

\* A request spawns, or fails to.
LEMMA BaseSpawn ==
  ASSUME Base, NEW t \in Threads, SpawnRunner(t) \/ SpawnEngine(t)
  PROVE  Base'
<1>0. TypeOK
  BY DEF Base
<1>1. budget' \in Nat
  BY <1>0, CostTyped DEF SpawnRunner, SpawnEngine
<1>2. /\ UNCHANGED <<api, rstat, estat, prep>>
      /\ lease' \in {lease, NoLease}
      /\ th[t].pc \in {"spawn", "spawn_engine"}
  BY DEF SpawnRunner, SpawnEngine
<1>3. lease' \in Lease
  <2>1. lease \in Lease
    BY <1>0 DEF TypeOK
  <2> QED
    BY <1>2, <2>1, FilesTyped
<1>4. ASSUME NEW kind \in {"runner", "engine"}, NEW pc \in {"record", "seed"},
             Popen(kind), Go(t, pc, NextPid)
      PROVE  Base'
  <2>1. NextPid \in Unused /\ NextPid \in Pids
    BY <1>2, SpawnIsFree DEF Spawning, Unused
  <2>2. pc \in Places /\ NextPid \in Pids \cup {0}
    BY <2>1 DEF Places, LeaseInHand
  <2>3. th' \in [Threads -> [pc : Places, pid : Pids \cup {0}]]
    BY <1>0, <1>4, <2>2, Goes
  <2>4. proc' \in [Pids -> Process]
    BY <1>0, <1>4, <2>1, PopenMakes
  <2>5. TypeOK'
    BY <1>0, <1>1, <1>2, <1>3, <2>3, <2>4 DEF TypeOK
  <2> QED
    BY <1>2, <1>4, <2>5, BaseSpawns
<1>5. ASSUME Go(t, "idle", 0), UNCHANGED proc
      PROVE  Base'
  <2>1. "idle" \in Places /\ "idle" \notin Spawning
    BY DEF Places, Spawning
  <2>2. th' \in [Threads -> [pc : Places, pid : Pids \cup {0}]]
    BY <1>0, <1>5, <2>1, Goes
  <2>3. TypeOK'
    BY <1>0, <1>1, <1>2, <1>3, <1>5, <2>2 DEF TypeOK
  <2> QED
    BY <1>5, <2>1, <2>3, BaseGoes
<1> QED
  BY <1>4, <1>5 DEF SpawnRunner, SpawnEngine

\* A process does something, or something to it.
LEMMA BaseProcess ==
  ASSUME Base, NEW p \in Pids, ProcessStep(p)
  PROVE  Base'
<1>0. TypeOK
  BY DEF Base
<1>1. th' = th /\ api' = api /\ prep' = prep
  BY DEF ProcessStep, RunnerBeats, RunnerEnds, EngineBeats, EngineStops, Wedges, Dies, ReapRunner
<1>2. budget' \in Nat
  <2>1. budget \in Nat
    BY <1>0 DEF TypeOK
  <2> QED
    BY <1>0, <2>1, CostTyped DEF ProcessStep, RunnerBeats, RunnerEnds, EngineBeats, EngineStops,
       Wedges, Dies, ReapRunner
<1>3. p \in Nat
  BY PidsFinite
<1>4. lease' \in Lease /\ rstat' \in Beat /\ estat' \in Status
  <2>1. lease \in Lease /\ rstat \in Beat /\ estat \in Status
    BY <1>0 DEF TypeOK
  <2>2. lease' \in {lease, NoLease}
    BY DEF ProcessStep, RunnerBeats, RunnerEnds, EngineBeats, EngineStops, Wedges, Dies, ReapRunner
  <2>3. rstat' = rstat \/ rstat' = [pid |-> p, fresh |-> TRUE]
    BY DEF ProcessStep, RunnerBeats, RunnerEnds, EngineBeats, EngineStops, Wedges, Dies, ReapRunner
  <2>4. estat' = estat \/ \E note \in BOOLEAN : estat' = [pid |-> p, fresh |-> TRUE, note |-> note]
    BY DEF ProcessStep, RunnerBeats, RunnerEnds, EngineBeats, EngineStops, Wedges, Dies, ReapRunner
  <2>5. [pid |-> p, fresh |-> TRUE] \in Beat
    BY <1>3 DEF Beat
  <2>6. \A note \in BOOLEAN : [pid |-> p, fresh |-> TRUE, note |-> note] \in Status
    BY <1>3 DEF Status
  <2> QED
    BY <2>1, <2>2, <2>3, <2>4, <2>5, <2>6, FilesTyped
<1>5. /\ proc[p].st # "none"
      /\ Becomes(p, Living \cup {"zombie", "gone"})
      /\ proc'[p].clean => proc'[p].st \in {"stopping", "zombie", "gone"}
  <2>1. proc[p].kind = "none" <=> proc[p].st = "none"
    BY DEF Base, Coherent
  <2>2. proc[p].clean => proc[p].st \in {"stopping", "zombie", "gone"}
    BY DEF Base, Coherent
  <2>3. CASE RunnerBeats(p) \/ RunnerEnds(p) \/ ReapRunner(p)
    BY <1>0, <2>1, <2>2, <2>3, RunnerMoves DEF Becomes, Living
  <2>4. CASE EngineBeats(p) \/ EngineStops(p)
    BY <1>0, <2>1, <2>2, <2>4, EngineMoves DEF Becomes, Living
  <2>5. CASE Wedges(p) \/ Dies(p)
    BY <1>0, <2>1, <2>2, <2>5, FailureMoves DEF Becomes, Living
  <2> QED
    BY <2>3, <2>4, <2>5 DEF ProcessStep
<1>6. TypeOK'
  BY <1>0, <1>1, <1>2, <1>4, <1>5 DEF TypeOK, Becomes
<1> QED
  BY <1>1, <1>5, <1>6, BaseMoves

\* The requests that start nothing, time and a preparation.
LEMMA BaseElse ==
  ASSUME Base, StopRunner \/ Poll \/ Time \/ Preparation \/ UNCHANGED vars
  PROVE  Base'
<1>0. TypeOK
  BY DEF Base
<1>1. th' = th /\ api' = api /\ estat' \in {estat, [estat EXCEPT !.fresh = FALSE]}
      /\ rstat' \in {rstat, [rstat EXCEPT !.fresh = FALSE]}
  BY DEF StopRunner, Poll, Time, RunnerSilent, EngineSilent, LeaseAges, Preparation, PrepStarts,
     PrepStage, PrepStageEnds, PrepKilled, vars
<1>2. lease' \in {lease, NoLease, [lease EXCEPT !.old = TRUE]}
  BY LeaseKeptOrCleared DEF StopRunner, Poll, Time, RunnerSilent, EngineSilent, LeaseAges,
     Preparation, PrepStarts, PrepStage, PrepStageEnds, PrepKilled, vars
<1>3. budget' \in Nat
  <2>1. budget \in Nat
    BY <1>0 DEF TypeOK
  <2> QED
    BY <1>0, <2>1, CostTyped DEF StopRunner, Poll, Time, RunnerSilent, EngineSilent, LeaseAges,
       Preparation, PrepStarts, PrepStage, PrepStageEnds, PrepKilled, vars
<1>4. lease' \in Lease /\ rstat' \in Beat /\ estat' \in Status
  <2>1. lease \in Lease /\ rstat \in Beat /\ estat \in Status
    BY <1>0 DEF TypeOK
  <2>2. /\ [lease EXCEPT !.old = TRUE] \in Lease
        /\ [rstat EXCEPT !.fresh = FALSE] \in Beat
        /\ [estat EXCEPT !.fresh = FALSE] \in Status
    BY <2>1 DEF Lease, Beat, Status
  <2> QED
    BY <1>1, <1>2, <2>1, <2>2, FilesTyped
<1>5. prep' \in [sup : {"off", "checking", "working"}, child : BOOLEAN]
  <2>1. prep \in [sup : {"off", "checking", "working"}, child : BOOLEAN]
    BY <1>0 DEF TypeOK
  <2>2. CASE PrepStarts \/ PrepKilled
    BY <2>1, <2>2 DEF PrepStarts, PrepKilled
  <2>3. CASE PrepStage
    BY <2>1, <2>3 DEF PrepStage
  <2>4. CASE PrepStageEnds
    BY <2>1, <2>4 DEF PrepStageEnds
  <2>5. CASE UNCHANGED prep
    BY <2>1, <2>5
  <2> QED
    BY <2>2, <2>3, <2>4, <2>5 DEF StopRunner, Poll, Time, RunnerSilent, EngineSilent, LeaseAges,
       Preparation, vars
<1>6. CASE proc' = proc
  <2>1. TypeOK'
    BY <1>0, <1>1, <1>3, <1>4, <1>5, <1>6 DEF TypeOK
  <2>2. Coherent' /\ Spawners' = Spawners /\ Unused' = Unused
    BY <1>1, <1>6 DEF Base, Coherent, Spawners, Unused
  <2> QED
    BY <2>1, <2>2, ReserveKept DEF Base
<1>7. ASSUME NEW p \in Pids, proc' = Signalled(p)
      PROVE  Base'
  <2>1. proc' \in [Pids -> Process]
    BY <1>0, <1>7, SignalMoves DEF Becomes
  <2>2. TypeOK'
    BY <1>0, <1>1, <1>3, <1>4, <1>5, <2>1 DEF TypeOK
  <2>3. proc[p].clean => proc[p].st \in {"stopping", "zombie", "gone"}
    BY DEF Base, Coherent
  <2>4. CASE proc[p].st = "none"
    <3>1. Becomes(p, {"none"}) /\ proc'[p].clean = proc[p].clean
      BY <1>0, <1>7, <2>4, SignalMoves
    <3>2. Unused' = Unused /\ Spawners' = Spawners
      BY <1>1, <3>1 DEF Unused, Spawners, Becomes
    <3>3. Coherent'
      BY <1>1, <2>3, <2>4, <3>1 DEF Base, Coherent, Becomes
    <3> QED
      BY <2>2, <3>2, <3>3, ReserveKept DEF Base
  <2>5. CASE proc[p].st # "none"
    <3>1. Becomes(p, Living \cup {"zombie", "gone"})
      BY <1>0, <1>7, <2>5, SignalMoves DEF Becomes, Living, TypeOK, Process
    <3>2. proc'[p].clean => proc'[p].st \in {"stopping", "zombie", "gone"}
      BY <1>0, <1>7, <2>3, <2>5, SignalMoves DEF Becomes
    <3> QED
      BY <1>1, <2>2, <2>5, <3>1, <3>2, BaseMoves
  <2> QED
    BY <2>4, <2>5
<1> QED
  BY <1>6, <1>7 DEF StopRunner, Poll, Time, RunnerSilent, EngineSilent, LeaseAges, Preparation,
     PrepStarts, PrepStage, PrepStageEnds, PrepKilled, vars

\* The API restarts.
LEMMA BaseRestart ==
  ASSUME Base, ApiRestarts
  PROVE  Base'
<1>0. TypeOK
  BY DEF Base
<1>1. /\ api' \in Nat \ {0}
      /\ UNCHANGED <<lease, rstat, estat, prep>>
      /\ th' = [t \in Threads |-> [pc |-> "idle", pid |-> 0]]
  BY <1>0 DEF ApiRestarts, TypeOK
<1>2. \A p \in Pids : /\ proc'[p] \in Process
                      /\ proc'[p].kind = proc[p].kind /\ proc'[p].clean = proc[p].clean
                      /\ proc'[p].st = IF proc[p].st = "zombie" THEN "gone" ELSE proc[p].st
  <2> TAKE p \in Pids
  <2>1. proc[p] \in Process
    BY <1>0 DEF TypeOK
  <2>2. proc'[p] = IF proc[p].st = "zombie" THEN [proc[p] EXCEPT !.st = "gone"] ELSE proc[p]
    BY DEF ApiRestarts
  <2> QED
    BY <2>1, <2>2 DEF Process
<1>3. proc' \in [Pids -> Process]
  BY <1>2 DEF ApiRestarts
<1>4. th' \in [Threads -> [pc : Places, pid : Pids \cup {0}]]
  BY <1>1 DEF Places
<1>5. budget' \in Nat
  BY <1>0, CostTyped DEF ApiRestarts
<1>6. TypeOK'
  BY <1>0, <1>1, <1>3, <1>4, <1>5 DEF TypeOK
<1>7. Coherent'
  BY <1>1, <1>2 DEF Base, Coherent
<1>8. Spawners' = {}
  BY <1>1 DEF Spawners, Spawning, LeaseInHand
<1>9. Unused' = Unused
  BY <1>2 DEF Unused
<1> QED
  BY <1>6, <1>7, <1>8, <1>9, ReserveKept DEF Base

\* Base at first,
LEMMA BaseInit ==
  ASSUME Init
  PROVE  Base
<1>1. th = [t \in Threads |-> [pc |-> "idle", pid |-> 0]] /\ proc = [p \in Pids |-> NoProc]
  BY DEF Init
<1>2. /\ th \in [Threads -> [pc : Places, pid : Pids \cup {0}]]
      /\ NoProc \in Process
  BY <1>1 DEF Places, NoProc, Process
<1>3. proc \in [Pids -> Process]
  BY <1>1, <1>2
<1>4. /\ rstat \in Beat /\ estat \in Status
      /\ prep \in [sup : {"off", "checking", "working"}, child : BOOLEAN]
  <2>1. Yesterday \in Nat
    BY SupervisionAssumption DEF Yesterday
  <2>0. {0, Yesterday} \subseteq Nat /\ {FALSE} \subseteq BOOLEAN
    BY <2>1
  <2>2. rstat \in Beat
    <3>1. \A P \in SUBSET Nat, B \in SUBSET BOOLEAN : [pid : P, fresh : B] \subseteq Beat
      BY DEF Beat
    <3>2. rstat \in [pid : {0, Yesterday}, fresh : {FALSE}]
      BY DEF Init
    <3> QED
      BY <2>0, <3>1, <3>2, Zenon
  <2>3. estat \in Status
    <3>1. \A P \in SUBSET Nat, B \in SUBSET BOOLEAN :
            [pid : P, fresh : B, note : BOOLEAN] \subseteq Status
      BY DEF Status
    <3>2. estat \in [pid : {0, Yesterday}, fresh : {FALSE}, note : BOOLEAN]
      BY DEF Init
    <3> QED
      BY <2>0, <3>1, <3>2, Zenon
  <2>4. prep \in [sup : {"off", "checking", "working"}, child : BOOLEAN]
    BY DEF Init
  <2> QED
    BY <2>2, <2>3, <2>4
<1>5. api \in Nat \ {0} /\ lease \in Lease /\ budget \in Nat
  BY SupervisionAssumption, FilesTyped DEF Init
<1>6. TypeOK
  BY <1>2, <1>3, <1>4, <1>5 DEF TypeOK
<1>7. Coherent
  BY <1>1 DEF Coherent, NoProc
<1>8. Spawners = {}
  BY <1>1 DEF Spawners, Spawning, LeaseInHand
<1>9. Cardinality(Spawners) = 0 /\ Cardinality(Unused) \in Nat
  <2>1. IsFiniteSet(Unused)
    BY PidsFinite, FS_Subset DEF Unused
  <2> QED
    BY <1>8, <2>1, FS_EmptySet, FS_CardinalityType
<1> QED
  BY <1>6, <1>7, <1>9 DEF Base, Reserve

\* and ever after.
LEMMA BaseStep ==
  ASSUME Base, [Next]_vars
  PROVE  Base'
BY BaseRequest, BaseSpawn, BaseProcess, BaseElse, BaseRestart DEF Next, ThreadStep, Request

-----------------------------------------------------------------------------
(* Where requests and processes go in one step. *)

\* A request takes one step: it stays, ends, or goes on to the next place.
LEMMA WhereTo ==
  ASSUME Base, NEW t \in Threads, ThreadStep(t) \/ Readiness(t) \/ Preflight(t)
  PROVE  /\ \A u \in Threads \ {t} : th'[u] = th[u]
         /\ \/ th' = th
            \/ ThreadStep(t) /\ th'[t].pc = "idle"
            \/ Readiness(t) /\ th'[t].pc = "acquire"
            \/ Acquire(t) /\ th'[t].pc = "write" /\ lease.st = "none"
                 /\ lease' = [NoLease EXCEPT !.st = "empty"]
            \/ WriteLease(t) /\ th'[t].pc = "recheck"
            \/ Recheck(t) /\ th'[t].pc = "spawn"
            \/ Preflight(t) /\ th'[t].pc = "spawn_engine"
            \/ /\ SpawnRunner(t) /\ Popen("runner") /\ UNCHANGED lease
               /\ th'[t].pc = "record" /\ th'[t].pid = NextPid /\ NextPid \in Unused
            \/ /\ SpawnEngine(t) /\ Popen("engine")
               /\ th'[t].pc = "seed" /\ th'[t].pid = NextPid /\ NextPid \in Unused
<1>0. TypeOK
  BY DEF Base
<1>1. ASSUME NEW pc \in Places, NEW pid \in Pids \cup {0}, Go(t, pc, pid)
      PROVE  /\ th'[t].pc = pc /\ th'[t].pid = pid
             /\ \A u \in Threads \ {t} : th'[u] = th[u]
  BY <1>0, <1>1, Goes
<1>2. {"idle", "acquire", "write", "recheck", "spawn", "record", "spawn_engine", "seed"} \subseteq Places
  BY DEF Places, LeaseInHand, Spawning
<1>3. SpawnRunner(t) \/ SpawnEngine(t) => NextPid \in Unused /\ NextPid \in Pids
  BY SpawnIsFree DEF SpawnRunner, SpawnEngine, Spawning, Unused
<1>4. CASE Readiness(t)
  BY <1>1, <1>2, <1>4 DEF Readiness
<1>5. CASE Acquire(t)
  BY <1>1, <1>2, <1>5 DEF Acquire, ThreadStep
<1>6. CASE WriteLease(t)
  BY <1>1, <1>2, <1>6 DEF WriteLease
<1>7. CASE Recheck(t)
  BY <1>1, <1>2, <1>7 DEF Recheck, ThreadStep
<1>8. CASE SpawnRunner(t)
  BY <1>1, <1>2, <1>3, <1>8 DEF SpawnRunner, ThreadStep
<1>9. CASE RecordRunner(t) \/ SeedPid(t)
  BY <1>1, <1>2, <1>9 DEF RecordRunner, SeedPid, ThreadStep
<1>10. CASE Preflight(t)
  BY <1>1, <1>2, <1>10 DEF Preflight
<1>11. CASE SpawnEngine(t)
  BY <1>1, <1>2, <1>3, <1>11 DEF SpawnEngine, ThreadStep
<1> QED
  BY <1>4, <1>5, <1>6, <1>7, <1>8, <1>9, <1>10, <1>11 DEF ThreadStep

\* A process begins to work by a spawn alone, and one that beats, ends or
\* hangs was at work before.
LEMMA HowItGoes ==
  ASSUME Base, [Next]_vars, NEW p \in Pids
  PROVE  \/ proc'[p] = proc[p]
         \/ /\ \E t \in Threads :
                 (SpawnRunner(t) /\ Popen("runner")) \/ (SpawnEngine(t) /\ Popen("engine"))
            /\ p = NextPid /\ proc[p].kind = "none" /\ proc'[p].st = "starting"
            /\ ~proc'[p].clean
         \/ /\ proc'[p].kind = proc[p].kind /\ proc'[p].clean = proc[p].clean
            /\ \/ proc'[p].st \in {"zombie", "gone"}
               \/ RunnerBeats(p) /\ proc[p].st = "starting" /\ proc'[p].st = "up"
               \/ EngineBeats(p) /\ proc[p].st = "starting" /\ proc'[p].st = "up"
               \/ proc[p].st = "up" /\ proc'[p].st \in {"stopping", "wedged"}
         \/ EngineStops(p) /\ proc'[p].kind = proc[p].kind /\ proc'[p].st = "stopping"
<1>0. TypeOK
  BY DEF Base
<1>1. CASE UNCHANGED proc
  BY <1>1
<1>2. ASSUME NEW t \in Threads, NEW kind \in {"runner", "engine"}, Popen(kind),
             (SpawnRunner(t) /\ kind = "runner") \/ (SpawnEngine(t) /\ kind = "engine")
      PROVE  \/ proc'[p] = proc[p]
             \/ /\ p = NextPid /\ proc[p].kind = "none" /\ proc'[p].st = "starting"
                /\ ~proc'[p].clean
             \/ /\ proc'[p].kind = proc[p].kind /\ proc'[p].clean = proc[p].clean
                /\ proc'[p].st = "gone"
  <2>1. NextPid \in Unused
    BY <1>2, SpawnIsFree DEF SpawnRunner, SpawnEngine, Spawning
  <2>2. CASE p = NextPid
    BY <1>0, <1>2, <2>1, <2>2, PopenMakes DEF Unused
  <2>3. CASE p # NextPid
    <3>1. proc'[p] = [proc[p] EXCEPT !.st = IF @ = "zombie" THEN "gone" ELSE @]
      BY <1>2, <2>3 DEF Popen
    <3>2. proc[p] \in Process
      BY <1>0 DEF TypeOK
    <3> QED
      BY <3>1, <3>2 DEF Process
  <2> QED
    BY <2>2, <2>3
<1>3. ASSUME NEW t \in Threads, ThreadStep(t) \/ Readiness(t) \/ Preflight(t)
      PROVE  \/ UNCHANGED proc
             \/ SpawnRunner(t) /\ Popen("runner")
             \/ SpawnEngine(t) /\ Popen("engine")
  <2>1. CASE SpawnRunner(t)
    <3>1. Popen("runner") \/ proc' = proc
      BY <2>1, Zenon DEF SpawnRunner
    <3> QED
      BY <2>1, <3>1, Zenon
  <2>2. CASE SpawnEngine(t)
    <3>1. Popen("engine") \/ proc' = proc
      BY <2>2, Zenon DEF SpawnEngine
    <3> QED
      BY <2>2, <3>1, Zenon
  <2>3. CASE ~SpawnRunner(t) /\ ~SpawnEngine(t)
    BY <1>3, <2>3 DEF ThreadStep, Readiness, Preflight, Acquire, WriteLease, Recheck,
       RecordRunner, SeedPid
  <2> QED
    BY <2>1, <2>2, <2>3
<1>4. CASE \E t \in Threads : ThreadStep(t) \/ Readiness(t) \/ Preflight(t)
  <2>1. PICK t \in Threads : ThreadStep(t) \/ Readiness(t) \/ Preflight(t)
    BY <1>4
  <2>2. CASE SpawnRunner(t) /\ Popen("runner")
    BY <1>2, <2>2
  <2>3. CASE SpawnEngine(t) /\ Popen("engine")
    BY <1>2, <2>3
  <2> QED
    BY <1>1, <1>3, <2>1, <2>2, <2>3
<1>5. ASSUME NEW q \in Pids, Becomes(q, {proc[q].st, "up", "stopping", "wedged", "zombie", "gone"}), q # p
      PROVE  proc'[p] = proc[p]
  BY <1>5 DEF Becomes
<1>6. CASE StopRunner
  <2>1. PICK q \in Pids : proc' = Signalled(q) \/ UNCHANGED proc
    <3>1. proc' = IF CurrentRunnerPid \in Pids THEN Signalled(CurrentRunnerPid) ELSE proc
      BY <1>6 DEF StopRunner
    <3>2. CASE CurrentRunnerPid \in Pids
      BY <3>1, <3>2, Zenon
    <3>3. CASE CurrentRunnerPid \notin Pids
      BY <3>1, <3>3, Zenon
    <3> QED
      BY <3>2, <3>3
  <2>2. CASE q = p /\ proc' = Signalled(p)
    <3>1. CASE proc[p].st \in {"up", "starting"}
      BY <1>0, <2>2, <3>1, SignalMoves DEF Becomes
    <3>2. CASE proc[p].st \notin {"up", "starting"}
      <4>1. proc'[p] = proc[p]
        BY <1>0, <2>2, <3>2 DEF Signalled, TypeOK, Process
      <4> QED
        BY <4>1
    <3> QED
      BY <3>1, <3>2
  <2>3. CASE q # p /\ proc' = Signalled(q)
    <3>1. proc'[p] = proc[p]
      BY <1>0, <2>3 DEF Signalled, TypeOK
    <3> QED
      BY <3>1
  <2> QED
    BY <1>1, <2>1, <2>2, <2>3
<1>7. ASSUME NEW q \in Pids, ProcessStep(q), q # p
      PROVE  proc'[p] = proc[p]
  BY <1>0, <1>7 DEF ProcessStep, RunnerBeats, RunnerEnds, EngineBeats, EngineStops, Wedges, Dies,
     ReapRunner, TypeOK
<1>8. CASE RunnerBeats(p)
  <2>1. proc[p].st # "starting" => proc'[p] = proc[p]
    BY <1>0, <1>8 DEF RunnerBeats, TypeOK, Process
  <2> QED
    BY <1>0, <1>8, <2>1, RunnerMoves DEF Becomes
<1>9. CASE RunnerEnds(p) \/ ReapRunner(p)
  BY <1>0, <1>9, RunnerMoves DEF Becomes
<1>10. CASE EngineBeats(p)
  <2>1. proc[p].st # "starting" => proc'[p] = proc[p]
    <3>1. proc[p].st \in {"starting", "up"}
      BY <1>0, <1>10, EngineMoves
    <3> QED
      BY <1>0, <1>10, <3>1 DEF EngineBeats, TypeOK, Process
  <2> QED
    BY <1>0, <1>10, <2>1, EngineMoves DEF Becomes
<1>11. CASE EngineStops(p)
  BY <1>0, <1>11, EngineMoves DEF Becomes
<1>12. CASE Wedges(p) \/ Dies(p)
  BY <1>0, <1>12, FailureMoves DEF Becomes
<1>13. CASE \E q \in Pids : ProcessStep(q)
  BY <1>7, <1>8, <1>9, <1>10, <1>11, <1>12, <1>13 DEF ProcessStep
<1>14. CASE ApiRestarts
  <2>1. proc'[p] = IF proc[p].st = "zombie" THEN [proc[p] EXCEPT !.st = "gone"] ELSE proc[p]
    BY <1>14 DEF ApiRestarts
  <2> QED
    BY <1>0, <2>1 DEF TypeOK, Process
<1>15. CASE Poll \/ Time \/ Preparation \/ UNCHANGED vars
  BY <1>1, <1>15 DEF Poll, Time, RunnerSilent, EngineSilent, LeaseAges, Preparation, PrepStarts,
     PrepStage, PrepStageEnds, PrepKilled, vars
<1> QED
  BY <1>4, <1>6, <1>13, <1>14, <1>15 DEF Next, Request

\* One thread, whatever the step: it stays, ends, or goes on to the next place.
LEMMA HowItServes ==
  ASSUME Base, [Next]_vars, NEW u \in Threads
  PROVE  \/ th'[u] = th[u]
         \/ th'[u].pc = "idle" /\ (ThreadStep(u) \/ ApiRestarts)
         \/ Readiness(u) /\ th'[u].pc = "acquire"
         \/ Acquire(u) /\ th'[u].pc = "write" /\ lease.st = "none"
              /\ lease' = [NoLease EXCEPT !.st = "empty"]
         \/ WriteLease(u) /\ th'[u].pc = "recheck"
         \/ Recheck(u) /\ th'[u].pc = "spawn"
         \/ Preflight(u) /\ th'[u].pc = "spawn_engine"
         \/ /\ SpawnRunner(u) /\ Popen("runner") /\ UNCHANGED lease
            /\ th'[u].pc = "record" /\ th'[u].pid = NextPid /\ NextPid \in Unused
         \/ /\ SpawnEngine(u) /\ Popen("engine")
            /\ th'[u].pc = "seed" /\ th'[u].pid = NextPid /\ NextPid \in Unused
<1>1. CASE th' = th
  BY <1>1
<1>2. CASE ApiRestarts
  BY <1>2 DEF ApiRestarts
<1>3. CASE \E t \in Threads : ThreadStep(t) \/ Readiness(t) \/ Preflight(t)
  <2>1. PICK t \in Threads : ThreadStep(t) \/ Readiness(t) \/ Preflight(t)
    BY <1>3
  <2>2. CASE t = u
    BY <2>1, <2>2, WhereTo
  <2>3. CASE t # u
    <3>1. th'[u] = th[u]
      BY <2>1, <2>3, WhereTo
    <3> QED
      BY <3>1
  <2> QED
    BY <2>2, <2>3
<1>4. CASE StopRunner \/ Poll \/ (\E p \in Pids : ProcessStep(p)) \/ Time \/ Preparation
           \/ UNCHANGED vars
  BY <1>1, <1>4 DEF StopRunner, Poll, ProcessStep, RunnerBeats, RunnerEnds, EngineBeats, EngineStops,
     Wedges, Dies, ReapRunner, Time, RunnerSilent, EngineSilent, LeaseAges, Preparation, PrepStarts,
     PrepStage, PrepStageEnds, PrepKilled, vars
<1> QED
  BY <1>2, <1>3, <1>4 DEF Next, Request

\* Who writes the engine's status file.
LEMMA WhoWritesStatus ==
  ASSUME [Next]_vars
  PROVE  \/ estat' = estat
         \/ EngineSilent /\ estat' = [estat EXCEPT !.fresh = FALSE]
         \/ \E t \in Threads : SeedPid(t) /\ estat' = Seeded(th[t].pid)
         \/ \E p \in Pids : EngineBeats(p) /\ estat' = Seeded(p)
         \/ \E p \in Pids : EngineStops(p) /\ estat' = [pid |-> p, fresh |-> TRUE, note |-> TRUE]
<1>1. CASE \E t \in Threads : ThreadStep(t) \/ Readiness(t) \/ Preflight(t)
  BY <1>1 DEF ThreadStep, Readiness, Preflight, Acquire, WriteLease, Recheck, SpawnRunner,
     RecordRunner, SpawnEngine, SeedPid
<1>2. CASE \E p \in Pids : ProcessStep(p)
  BY <1>2 DEF ProcessStep, RunnerBeats, RunnerEnds, EngineBeats, EngineStops, Wedges, Dies,
     ReapRunner, Seeded
<1>3. CASE Time
  BY <1>3 DEF Time, RunnerSilent, EngineSilent, LeaseAges
<1>4. CASE StopRunner \/ Poll \/ Preparation \/ ApiRestarts \/ UNCHANGED vars
  BY <1>4 DEF StopRunner, Poll, Preparation, PrepStarts, PrepStage, PrepStageEnds, PrepKilled,
     ApiRestarts, vars
<1> QED
  BY <1>1, <1>2, <1>3, <1>4 DEF Next, Request

\* Who writes the runner's.
LEMMA WhoWritesBeat ==
  ASSUME [Next]_vars
  PROVE  UNCHANGED rstat \/ RunnerSilent \/ \E p \in Pids : RunnerBeats(p)
<1>1. CASE \E t \in Threads : ThreadStep(t) \/ Readiness(t) \/ Preflight(t)
  BY <1>1 DEF ThreadStep, Readiness, Preflight, Acquire, WriteLease, Recheck, SpawnRunner,
     RecordRunner, SpawnEngine, SeedPid
<1>2. CASE \E p \in Pids : ProcessStep(p)
  BY <1>2 DEF ProcessStep, RunnerEnds, EngineBeats, EngineStops, Wedges, Dies, ReapRunner
<1>3. CASE StopRunner \/ Poll \/ Time \/ Preparation \/ ApiRestarts \/ UNCHANGED vars
  BY <1>3 DEF StopRunner, Poll, Time, EngineSilent, LeaseAges, Preparation, PrepStarts, PrepStage,
     PrepStageEnds, PrepKilled, ApiRestarts, vars
<1> QED
  BY <1>1, <1>2, <1>3 DEF Next, Request

\* No process writes before its pid is recorded.
LEMMA NoRush ==
  ASSUME RecordFirst, NEW p, Cost(Rushing(p))
  PROVE  \A t \in Threads : th[t].pc \in {"record", "seed"} => th[t].pid # p
BY DEF RecordFirst, Cost, Rushing, Unrecorded

-----------------------------------------------------------------------------
(* No false alarm. *)

\* A process stops on purpose by its own act alone.
LEMMA WhoStopsCleanly ==
  ASSUME Base, [Next]_vars, NEW p \in Pids, proc'[p].clean
  PROVE  proc[p].clean \/ EngineStops(p)
BY HowItGoes, Zenon

\* The note of an engine that stopped on purpose outlives it.
LEMMA AlarmHolds ==
  ASSUME Base, AlarmInv, RecordFirst, [Next]_vars
  PROVE  AlarmInv'
<1>1. ASSUME estat'.pid \in Pids, proc'[estat'.pid].clean
      PROVE  estat'.note
  <2> DEFINE p == estat'.pid
  <2>1. proc[p].clean \/ EngineStops(p)
    BY <1>1, WhoStopsCleanly
  <2>2. CASE EngineStops(p)
    BY <2>2 DEF EngineStops
  <2>3. CASE proc[p].clean
    <3>1. CASE estat' = estat
      BY <1>1, <2>3, <3>1 DEF AlarmInv
    <3>2. CASE estat' = [estat EXCEPT !.fresh = FALSE]
      <4>1. estat \in Status
        BY DEF Base, TypeOK
      <4>2. p = estat.pid /\ estat'.note = estat.note
        BY <3>2, <4>1 DEF Status
      <4> QED
        BY <1>1, <2>3, <4>2 DEF AlarmInv
    <3>3. ASSUME NEW t \in Threads, SeedPid(t), estat' = Seeded(th[t].pid)
          PROVE  FALSE
      BY <2>3, <3>3 DEF AlarmInv, SeedPid, Seeded
    <3>4. ASSUME NEW q \in Pids, EngineBeats(q), estat' = Seeded(q)
          PROVE  FALSE
      <4>1. q = p
        BY <3>4 DEF Seeded
      <4>2. proc[p].st \in {"starting", "up"}
        BY <3>4, <4>1 DEF EngineBeats, Is
      <4> QED
        BY <1>1, <2>3, <4>2 DEF Base, Coherent
    <3>5. ASSUME NEW q \in Pids, EngineStops(q)
          PROVE  estat'.note
      BY <3>5 DEF EngineStops
    <3> QED
      BY <3>1, <3>2, <3>3, <3>4, <3>5, WhoWritesStatus
  <2> QED
    BY <2>1, <2>2, <2>3
<1>2. ASSUME NEW t \in Threads, th'[t].pc = "seed"
      PROVE  ~proc'[th'[t].pid].clean
  <2>1. CASE th'[t] = th[t]
    <3> DEFINE p == th[t].pid
    <3>1. th[t].pc = "seed" /\ ~proc[p].clean /\ p \in Pids
      BY <1>2, <2>1 DEF AlarmInv, Base, Coherent
    <3>2. ~EngineStops(p)
      BY <3>1, NoRush DEF EngineStops
    <3> QED
      BY <2>1, <3>1, <3>2, WhoStopsCleanly
  <2>2. CASE SpawnEngine(t) /\ Popen("engine") /\ th'[t].pid = NextPid /\ NextPid \in Unused
    <3>1. proc'[NextPid].clean = FALSE
      BY <2>2, PopenMakes DEF Base
    <3> QED
      BY <2>2, <3>1
  <2> QED
    BY <1>2, <2>1, <2>2, HowItServes, Zenon
<1> QED
  BY <1>1, <1>2 DEF AlarmInv

\* The alarm at first: the file of the day before names no process of today.
LEMMA AlarmInit ==
  ASSUME Init
  PROVE  AlarmInv
<1>1. estat.pid \in {0, Yesterday} /\ \A t \in Threads : th[t].pc = "idle"
  BY DEF Init
<1>2. estat.pid \notin Pids
  BY <1>1, SupervisionAssumption DEF Pids, Yesterday
<1> QED
  BY <1>1, <1>2 DEF AlarmInv

\* The desk never calls a deliberate stop a crash, whatever requests, crashes
\* and restarts come between, if a child writes after its pid is recorded.
THEOREM NoAlarmOnPurpose == RecordFirst => (Spec => []NoFalseAlarm)
<1> SUFFICES ASSUME RecordFirst
             PROVE  Spec => []NoFalseAlarm
  OBVIOUS
<1>1. Init => Base /\ AlarmInv
  BY BaseInit, AlarmInit
<1>2. Base /\ AlarmInv /\ [Next]_vars => (Base /\ AlarmInv)'
  BY BaseStep, AlarmHolds
<1>3. Base /\ AlarmInv => NoFalseAlarm
  <2> SUFFICES ASSUME AlarmInv, Verdict = "crashed", estat.pid \in Pids
               PROVE  ~proc[estat.pid].clean
    BY DEF NoFalseAlarm
  <2>1. ~estat.note
    <3>1. estat.pid # 0
      BY DEF Pids
    <3> QED
      BY <3>1 DEF Verdict
  <2> QED
    BY <2>1 DEF AlarmInv
<1> QED
  BY <1>1, <1>2, <1>3, PTL DEF Spec

-----------------------------------------------------------------------------
(* One engine. *)

\* A spawn that makes a process takes the request to the record of its pid.
LEMMA SpawnGoesOn ==
  ASSUME Base, NEW t \in Threads, NEW kind \in {"runner", "engine"}, Popen(kind),
         IF kind = "runner" THEN SpawnRunner(t) ELSE SpawnEngine(t)
  PROVE  /\ NextPid \in Unused
         /\ th'[t].pc = IF kind = "runner" THEN "record" ELSE "seed"
         /\ th'[t].pid = NextPid
         /\ kind = "runner" => UNCHANGED lease
<1>1. NextPid \in Unused /\ NextPid \in Pids
  BY SpawnIsFree DEF SpawnRunner, SpawnEngine, Spawning, Unused
<1>2. proc'[NextPid].kind = kind /\ proc[NextPid].kind = "none"
  BY <1>1, PopenMakes DEF Base, Unused
<1>3. proc' # proc
  BY <1>2
<1>4. CASE kind = "runner"
  <2>1. SpawnRunner(t)
    BY <1>4
  <2>2. Go(t, "record", NextPid) /\ UNCHANGED lease
    BY <1>3, <2>1 DEF SpawnRunner
  <2>3. "record" \in Places /\ NextPid \in Pids \cup {0}
    BY <1>1 DEF Places, LeaseInHand
  <2>4. th'[t].pc = "record" /\ th'[t].pid = NextPid
    BY <2>2, <2>3, Goes DEF Base
  <2> QED
    BY <1>1, <1>4, <2>2, <2>4
<1>5. CASE kind = "engine"
  <2>1. SpawnEngine(t)
    BY <1>5
  <2>2. Go(t, "seed", NextPid)
    BY <1>3, <2>1 DEF SpawnEngine
  <2>3. "seed" \in Places /\ NextPid \in Pids \cup {0}
    BY <1>1 DEF Places, LeaseInHand
  <2>4. th'[t].pc = "seed" /\ th'[t].pid = NextPid
    BY <2>2, <2>3, Goes DEF Base
  <2> QED
    BY <1>1, <1>5, <2>2, <2>4
<1> QED
  BY <1>4, <1>5

\* An engine comes to work by a spawn alone.
LEMMA EngineWorks ==
  ASSUME Base, [Next]_vars, NEW p \in Working("engine")', p \notin Working("engine")
  PROVE  /\ p = NextPid
         /\ \E t \in Threads : SpawnEngine(t) /\ th'[t].pc = "seed" /\ th'[t].pid = NextPid
<1>1. p \in Pids /\ proc'[p].kind = "engine" /\ proc'[p].st \in {"starting", "up"}
  BY DEF Working, Is, Pids
<1>2. ~(proc[p].kind = "engine" /\ proc[p].st \in {"starting", "up"})
  BY <1>1 DEF Working, Is
<1>3. /\ \E t \in Threads : (SpawnRunner(t) /\ Popen("runner")) \/ (SpawnEngine(t) /\ Popen("engine"))
      /\ p = NextPid
  BY <1>1, <1>2, HowItGoes
<1>4. PICK t \in Threads : (SpawnRunner(t) /\ Popen("runner")) \/ (SpawnEngine(t) /\ Popen("engine"))
  BY <1>3
<1>5. CASE SpawnRunner(t) /\ Popen("runner")
  <2>1. NextPid \in Unused
    BY <1>5, SpawnGoesOn
  <2>2. proc'[NextPid].kind = "runner"
    BY <1>5, <2>1, PopenMakes DEF Base
  <2> QED
    BY <1>1, <1>3, <2>2
<1>6. CASE SpawnEngine(t) /\ Popen("engine")
  BY <1>3, <1>6, SpawnGoesOn
<1> QED
  BY <1>4, <1>5, <1>6

\* Two engines at work are one.
LEMMA EngineIsAlone ==
  ASSUME EngineInv, NEW p \in Working("engine"), NEW q \in Working("engine")
  PROVE  p = q
BY DEF EngineInv, Seeded

\* The preflight finds no start in progress and no engine at work.
LEMMA PreflightFinds ==
  ASSUME EnginesPunctual, EngineInv, NEW t \in Threads, Preflight(t)
  PROVE  /\ \A u \in Threads : th[u].pc \notin StartingEngine
         /\ Working("engine") = {}
<1>1. \A u \in Threads : th[u].pc \notin StartingEngine
  BY DEF EnginesPunctual, Preflight, StartingEngine, Cost
<1>2. ASSUME NEW p \in Working("engine")
      PROVE  FALSE
  <2>1. estat = Seeded(p)
    BY <1>1 DEF EngineInv, StartingEngine
  <2>2. estat.pid = p /\ estat.fresh = TRUE /\ estat.note = FALSE
    BY <2>1 DEF Seeded
  <2>3. p \in Pids /\ p # 0 /\ PidAlive(p)
    BY DEF Working, Is, PidAlive, Living, Pids
  <2>4. EngineRunning
    BY <2>2, <2>3 DEF EngineRunning, Verdict
  <2> QED
    BY <2>4 DEF Preflight
<1> QED
  BY <1>1, <1>2

\* A start of the engine is one request's: it was in it, or it is admitted.
LEMMA WhoStarts ==
  ASSUME Base, [Next]_vars, NEW t \in Threads, th'[t].pc \in StartingEngine
  PROVE  \/ th'[t] = th[t]
         \/ Preflight(t) /\ th'[t].pc = "spawn_engine"
         \/ SpawnEngine(t) /\ Popen("engine") /\ th'[t].pc = "seed" /\ th'[t].pid = NextPid
<1> HIDE DEF vars
<1> QED
  BY HowItServes, Zenon DEF StartingEngine

\* A start that has a pid to write stays, or writes it.
LEMMA SeedStays ==
  ASSUME EnginesPunctual, Base, [Next]_vars, NEW t \in Threads, th[t].pc = "seed"
  PROVE  th'[t] = th[t] \/ SeedPid(t)
<1>1. ~ApiRestarts
  BY DEF EnginesPunctual, ApiRestarts, Cost
<1>2. th'[t] = th[t] \/ ThreadStep(t)
  BY <1>1, HowItServes DEF Readiness, Acquire, WriteLease, Recheck, Preflight, SpawnRunner, SpawnEngine,
     Admitted
<1> QED
  BY <1>2 DEF ThreadStep, Acquire, WriteLease, Recheck, SpawnRunner, RecordRunner, SpawnEngine

\* Starts of the engine stay one at a time.
LEMMA StartsStayOne ==
  ASSUME EnginesPunctual, Base, EngineInv, [Next]_vars, NEW t \in Threads, NEW u \in Threads,
         th'[t].pc \in StartingEngine, th'[u].pc \in StartingEngine
  PROVE  t = u
<1>1. ASSUME NEW v \in Threads, NEW w \in Threads, Preflight(v), th'[w].pc \in StartingEngine
      PROVE  v = w
  <2>1. CASE th'[w] = th[w]
    BY <1>1, <2>1, PreflightFinds
  <2>2. CASE Preflight(w) /\ v # w
    <3>1. th'[w] = th[w] /\ th[w].pc = "idle"
      BY <1>1, <2>2, WhereTo DEF Preflight, Admitted
    <3> QED
      BY <1>1, <3>1 DEF StartingEngine
  <2>3. CASE SpawnEngine(w)
    BY <1>1, <2>3, PreflightFinds DEF SpawnEngine, StartingEngine
  <2> QED
    BY <1>1, <2>1, <2>2, <2>3, WhoStarts
<1>2. CASE Preflight(t) \/ Preflight(u)
  BY <1>1, <1>2
<1>3. CASE ~Preflight(t) /\ ~Preflight(u)
  <2>1. th[t].pc \in StartingEngine /\ th[u].pc \in StartingEngine
    BY <1>3, WhoStarts DEF SpawnEngine, StartingEngine
  <2> QED
    BY <2>1 DEF EngineInv
<1> QED
  BY <1>2, <1>3

\* A start that goes on finds beside it no engine but its own.
LEMMA StartsAlone ==
  ASSUME EnginesPunctual, Base, EngineInv, [Next]_vars, NEW t \in Threads
  PROVE  /\ th'[t].pc = "spawn_engine" => Working("engine")' = {}
         /\ th'[t].pc = "seed" => Working("engine")' \subseteq {th'[t].pid}
<1>1. ASSUME NEW p \in Working("engine")', th'[t].pc \in StartingEngine
      PROVE  th'[t].pc = "seed" /\ p = th'[t].pid
  <2>1. CASE p \notin Working("engine")
    <3>1. PICK u \in Threads : SpawnEngine(u) /\ th'[u].pc = "seed" /\ th'[u].pid = NextPid
      BY <2>1, EngineWorks
    <3>2. u = t
      BY <1>1, <3>1, StartsStayOne DEF StartingEngine
    <3> QED
      BY <2>1, <3>1, <3>2, EngineWorks
  <2>2. CASE p \in Working("engine")
    <3>1. CASE th'[t] = th[t]
      BY <1>1, <2>2, <3>1 DEF EngineInv, StartingEngine
    <3>2. CASE Preflight(t)
      BY <2>2, <3>2, PreflightFinds
    <3>3. CASE SpawnEngine(t)
      BY <2>2, <3>3 DEF EngineInv, SpawnEngine
    <3> QED
      BY <1>1, <3>1, <3>2, <3>3, WhoStarts
  <2> QED
    BY <2>1, <2>2
<1> QED
  BY <1>1 DEF StartingEngine

\* An engine at work stays the one on file, or about to be.
LEMMA WorkIsOnFile ==
  ASSUME EnginesPunctual, Base, EngineInv, [Next]_vars, NEW p \in Working("engine")'
  PROVE  \/ estat' = Seeded(p)
         \/ \E t \in Threads : th'[t].pc = "seed" /\ th'[t].pid = p
<1>1. CASE p \notin Working("engine")
  BY <1>1, EngineWorks
<1>2. CASE p \in Working("engine")
  <2>1. ASSUME NEW t \in Threads, th[t].pc = "seed", th[t].pid = p
        PROVE  \/ estat' = Seeded(p)
               \/ th'[t].pc = "seed" /\ th'[t].pid = p
    BY <2>1, SeedStays DEF SeedPid
  <2>2. ASSUME estat = Seeded(p)
        PROVE  estat' = Seeded(p)
    <3>1. CASE EngineSilent
      <4>1. Is(estat.pid, "engine", {"starting", "up"})
        BY <1>2, <2>2 DEF Seeded, Working
      <4> QED
        BY <3>1, <4>1 DEF EngineSilent, EnginesPunctual, Cost
    <3>2. ASSUME NEW t \in Threads, SeedPid(t), estat' = Seeded(th[t].pid)
          PROVE  estat' = Seeded(p)
      BY <1>2, <3>2 DEF SeedPid, EngineInv
    <3>3. ASSUME NEW q \in Pids, EngineBeats(q), estat' = Seeded(q)
          PROVE  estat' = Seeded(p)
      <4>1. q \in Working("engine")
        BY <3>3 DEF EngineBeats, Working
      <4> QED
        BY <1>2, <3>3, <4>1, EngineIsAlone
    <3>4. ASSUME NEW q \in Pids, EngineStops(q)
          PROVE  FALSE
      <4>1. q \in Working("engine")
        BY <3>4 DEF EngineStops, Working
      <4>2. q = p
        BY <1>2, <4>1, EngineIsAlone
      <4>3. proc'[p].st = "stopping"
        BY <3>4, <4>2, EngineMoves DEF Base, Becomes
      <4> QED
        BY <4>3 DEF Working, Is
    <3> QED
      BY <2>2, <3>1, <3>2, <3>3, <3>4, WhoWritesStatus
  <2> QED
    BY <1>2, <2>1, <2>2 DEF EngineInv
<1> QED
  BY <1>1, <1>2

\* So an engine at work stays alone.
LEMMA EngineHolds ==
  ASSUME EnginesPunctual, Base, EngineInv, [Next]_vars
  PROVE  EngineInv'
<1>1. \A t, u \in Threads :
        th'[t].pc \in StartingEngine /\ th'[u].pc \in StartingEngine => t = u
  BY StartsStayOne
<1>2. \A t \in Threads :
        /\ th'[t].pc = "spawn_engine" => Working("engine")' = {}
        /\ th'[t].pc = "seed" => Working("engine")' \subseteq {th'[t].pid}
  BY StartsAlone
<1>3. \A p \in Working("engine")' :
        \/ estat' = Seeded(p)
        \/ \E t \in Threads : th'[t].pc = "seed" /\ th'[t].pid = p
  BY WorkIsOnFile
<1> QED
  BY <1>1, <1>2, <1>3 DEF EngineInv, StartingEngine

\* No two members, no second process.
LEMMA OneAtMost ==
  ASSUME NEW S, \A p, q \in S : p = q
  PROVE  Cardinality(S) <= 1
<1>1. CASE S = {}
  BY <1>1, FS_EmptySet
<1>2. CASE S # {}
  <2>1. PICK p : S = {p}
    BY <1>2
  <2>2. Cardinality(S) = 1
    BY <2>1, FS_Singleton
  <2> QED
    BY <2>2
<1> QED
  BY <1>1, <1>2

\* No engine at first.
LEMMA EngineInit ==
  ASSUME Init
  PROVE  EngineInv
<1>1. Working("engine") = {} /\ \A t \in Threads : th[t].pc = "idle"
  BY DEF Init, Working, Is, NoProc
<1> QED
  BY <1>1 DEF EngineInv, StartingEngine

\* However many requests, restarts and failed spawns there are, two engines
\* never work side by side.
THEOREM EnginesOneAtATime == EnginesPunctual => (Spec => []AtMostOneEngine)
<1> SUFFICES ASSUME EnginesPunctual
             PROVE  Spec => []AtMostOneEngine
  OBVIOUS
<1>1. Init => Base /\ EngineInv
  BY BaseInit, EngineInit
<1>2. Base /\ EngineInv /\ [Next]_vars => (Base /\ EngineInv)'
  BY BaseStep, EngineHolds
<1>3. EngineInv => AtMostOneEngine
  <2> SUFFICES ASSUME EngineInv
               PROVE  AtMostOneEngine
    OBVIOUS
  <2>1. \A p, q \in Working("engine") : p = q
    BY EngineIsAlone
  <2> QED
    BY <2>1, OneAtMost DEF AtMostOneEngine
<1> QED
  BY <1>1, <1>2, <1>3, PTL DEF Spec

-----------------------------------------------------------------------------
(* One runner. *)

\* While the lease is what keeps a second start out: no heartbeat is fresh
\* and a request has the lease in hand, or a runner has not beaten yet.
Covering == ~rstat.fresh /\ (Holders # {} \/ Booting # {})

\* A runner beats by its own act alone, and boots by a spawn alone.
LEMMA RunnersWork ==
  ASSUME Base, [Next]_vars
  PROVE  /\ \A p \in Beating' : p \in Beating \/ RunnerBeats(p)
         /\ \A p \in Booting' :
              p \in Booting \/ \E t \in Threads : th[t].pc = "spawn" /\ th'[t].pc = "record"
<1>0. TypeOK
  BY DEF Base
<1>1. ASSUME NEW p \in Pids, proc'[p].kind = "runner", proc'[p].st \in {"starting", "up", "stopping"},
             proc'[p] # proc[p]
      PROVE  \/ RunnerBeats(p) /\ proc'[p].st = "up"
             \/ proc[p].kind = "runner" /\ proc[p].st = "up" /\ proc'[p].st = "stopping"
             \/ /\ proc'[p].st = "starting"
                /\ \E t \in Threads : th[t].pc = "spawn" /\ th'[t].pc = "record"
  <2>1. CASE /\ \E t \in Threads :
                  (SpawnRunner(t) /\ Popen("runner")) \/ (SpawnEngine(t) /\ Popen("engine"))
             /\ p = NextPid
             /\ proc'[p].st = "starting"
    <3>1. PICK t \in Threads :
            (SpawnRunner(t) /\ Popen("runner")) \/ (SpawnEngine(t) /\ Popen("engine"))
      BY <2>1
    <3>2. CASE SpawnRunner(t) /\ Popen("runner")
      BY <2>1, <3>2, SpawnGoesOn DEF SpawnRunner
    <3>3. CASE SpawnEngine(t) /\ Popen("engine")
      <4>1. NextPid \in Unused
        BY <3>3, SpawnGoesOn
      <4>2. proc'[NextPid].kind = "engine"
        BY <1>0, <3>3, <4>1, PopenMakes
      <4> QED
        BY <1>1, <2>1, <4>2
    <3> QED
      BY <3>1, <3>2, <3>3
  <2>2. ~(EngineBeats(p) /\ proc'[p].kind = proc[p].kind)
        /\ ~(EngineStops(p) /\ proc'[p].kind = proc[p].kind)
    BY <1>0, <1>1, EngineMoves
  <2> QED
    BY <1>1, <2>1, <2>2, HowItGoes
<1>2. ASSUME NEW p \in Beating'
      PROVE  p \in Beating \/ RunnerBeats(p)
  <2>1. p \in Pids /\ proc'[p].kind = "runner" /\ proc'[p].st \in {"up", "stopping"}
    BY DEF Beating, Is, Pids
  <2> QED
    BY <1>1, <2>1 DEF Beating, Is
<1>3. ASSUME NEW p \in Booting'
      PROVE  p \in Booting \/ \E t \in Threads : th[t].pc = "spawn" /\ th'[t].pc = "record"
  <2>1. p \in Pids /\ proc'[p].kind = "runner" /\ proc'[p].st = "starting"
    BY DEF Booting, Is, Pids
  <2> QED
    BY <1>1, <2>1 DEF Booting, Is
<1> QED
  BY <1>2, <1>3

\* Then the lease is there, young, and names someone alive.
LEMMA CoverStands ==
  ASSUME Base, RunnerInv, Covering
  PROVE  /\ lease.st # "none"
         /\ lease.st = "held" => PidAlive(lease.pid) /\ lease.old = FALSE
         /\ LeaseAfter(FALSE) = lease
<1>1. /\ lease.st # "none"
      /\ lease.st = "held" => PidAlive(lease.pid) /\ lease.old = FALSE
  <2>1. CASE Holders # {}
    <3>1. PICK t \in Holders : TRUE
      BY <2>1
    <3>2. lease = IF th[t].pc = "write" THEN [NoLease EXCEPT !.st = "empty"] ELSE Held(-api)
      BY DEF Covering, RunnerInv, LeaseExcludes
    <3> QED
      BY <3>2 DEF NoLease, Held, PidAlive
  <2>2. CASE Booting # {}
    <3>1. PICK p \in Booting : TRUE
      BY <2>2
    <3>2. lease = Held(p) \/ lease = Held(-api)
      BY DEF RunnerInv, BootIsCovered
    <3>3. PidAlive(p)
      BY DEF Booting, Is, PidAlive, Living
    <3> QED
      BY <3>2, <3>3 DEF Held, PidAlive
  <2> QED
    BY <2>1, <2>2 DEF Covering
<1> QED
  BY <1>1 DEF LeaseAfter, Lapses

\* A step that changes no heartbeat and no holder, and leaves the lease alone
\* while it covers, keeps the runner alone.
LEMMA Beside ==
  ASSUME Base, RunnerInv, [Next]_vars, UNCHANGED <<rstat, api>>,
         Holders' = Holders, \A t \in Holders : th'[t] = th[t],
         Covering => lease' = lease
  PROVE  RunnerInv'
<1>1. Booting' \subseteq Booting
  <2>1. ASSUME NEW t \in Threads, th[t].pc = "spawn", th'[t].pc = "record"
        PROVE  FALSE
    <3>1. t \in Holders
      BY <2>1 DEF Holders, LeaseInHand
    <3> QED
      BY <2>1, <3>1
  <2> QED
    BY <2>1, RunnersWork
<1>2. BeatsOnFile'
  <2>1. ASSUME NEW p \in Beating'
        PROVE  rstat' = [pid |-> p, fresh |-> TRUE]
    BY RunnersWork DEF RunnerInv, BeatsOnFile, RunnerBeats
  <2> QED
    BY <2>1 DEF BeatsOnFile
<1>3. LeaseExcludes'
  <2>1. \A t \in Holders' : t \in Holders /\ th'[t] = th[t]
    OBVIOUS
  <2>2. Holders' # {} /\ ~rstat.fresh => lease' = lease
    BY DEF Covering
  <2> QED
    BY <2>1, <2>2 DEF RunnerInv, LeaseExcludes, Held, NoLease
<1>4. BootIsCovered'
  <2> SUFFICES ASSUME NEW p \in Booting'
               PROVE  /\ ~rstat'.fresh
                      /\ Booting' = {p}
                      /\ \A t \in Holders' : th'[t].pc = "record" /\ th'[t].pid = p
                      /\ \/ lease' = Held(p)
                         \/ /\ lease' = Held(-api)
                            /\ Holders' # {} \/ <<"failed", "lease">> \in Events
    BY DEF BootIsCovered, Held
  <2>1. p \in Booting
    BY <1>1
  <2>2. Covering /\ lease' = lease
    BY <2>1 DEF RunnerInv, BootIsCovered, Covering
  <2> QED
    BY <1>1, <2>1, <2>2 DEF RunnerInv, BootIsCovered
<1> QED
  BY <1>2, <1>3, <1>4 DEF RunnerInv

\* Under a fresh heartbeat nobody boots, and no request is about to spawn.
LEMMA UnderBeat ==
  ASSUME RunnerInv, rstat.fresh
  PROVE  /\ Booting = {} /\ ~Covering
         /\ \A t \in Threads : th[t].pc \notin {"spawn", "record"}
BY DEF RunnerInv, BootIsCovered, Covering, LeaseExcludes, Holders, LeaseInHand

\* Without one nobody beats.
LEMMA WithoutBeat ==
  ASSUME RunnerInv, ~rstat.fresh
  PROVE  Beating = {}
BY DEF RunnerInv, BeatsOnFile

\* and nobody begins to by a step that writes none.
LEMMA StillNoBeat ==
  ASSUME Base, RunnerInv, [Next]_vars, ~rstat.fresh, rstat' = rstat
  PROVE  Beating' = {}
<1>1. ASSUME NEW p, RunnerBeats(p)
      PROVE  FALSE
  <2>1. rstat'.fresh = TRUE
    BY <1>1 DEF RunnerBeats
  <2> QED
    BY <2>1
<1> QED
  BY <1>1, RunnersWork, WithoutBeat

\* Nothing to keep out: no process in its startup gap, no lease in hand.
LEMMA NothingCovered ==
  ASSUME BeatsOnFile', Booting' = {}, Holders' = {}
  PROVE  RunnerInv'
BY DEF RunnerInv, LeaseExcludes, BootIsCovered

\* A request that has no lease in hand before or after a step changes no
\* holder.
LEMMA HoldersStay ==
  ASSUME NEW t \in Threads, \A u \in Threads \ {t} : th'[u] = th[u],
         th' = th \/ (th[t].pc \notin LeaseInHand /\ th'[t].pc \notin LeaseInHand)
  PROVE  Holders' = Holders /\ \A u \in Holders : th'[u] = th[u]
BY DEF Holders

\* Whoever merely looks at the lease, clearing it if it has lapsed, leaves it
\* while it covers.
LEMMA LooksAtLease ==
  ASSUME Base, RunnerInv, Covering, NEW beat \in BOOLEAN, beat => rstat.fresh,
         lease' = LeaseAfter(beat)
  PROVE  lease' = lease
<1>1. beat = FALSE
  BY DEF Covering
<1> QED
  BY <1>1, CoverStands

\* Readiness and preflight look at it; so do polls and preparations.
LEMMA LooksKeep ==
  ASSUME Base, RunnerInv, [Next]_vars,
         \/ \E t \in Threads : Readiness(t) \/ Preflight(t) \/ SpawnEngine(t) \/ SeedPid(t)
         \/ Poll \/ Preparation \/ UNCHANGED vars
  PROVE  RunnerInv'
<1>1. UNCHANGED <<rstat, api>>
  BY DEF Readiness, Preflight, SpawnEngine, SeedPid, Poll, Preparation, PrepStarts, PrepStage,
     PrepStageEnds, PrepKilled, vars
<1>2. ASSUME Covering
      PROVE  lease' = lease
  <2>1. rstat.fresh \in BOOLEAN
    BY DEF Base, TypeOK, Beat
  <2>2. CASE \E t \in Threads : Readiness(t)
    <3>1. PICK beat \in BOOLEAN : lease' = LeaseAfter(beat) /\ (beat = rstat.fresh \/ rstat.fresh)
      BY <2>2 DEF Readiness, ReadBeat
    <3> QED
      BY <1>2, <3>1, LooksAtLease
  <2>3. CASE lease' = LeaseAfter(rstat.fresh)
    BY <1>2, <2>1, <2>3, LooksAtLease
  <2> QED
    BY <2>2, <2>3 DEF Preflight, SpawnEngine, SeedPid, Poll, Preparation, PrepStarts, PrepStage,
       PrepStageEnds, PrepKilled, vars
<1>3. Holders' = Holders /\ \A u \in Holders : th'[u] = th[u]
  <2>1. CASE th' = th
    BY <2>1 DEF Holders
  <2>2. ASSUME NEW t \in Threads, Readiness(t) \/ Preflight(t) \/ SpawnEngine(t) \/ SeedPid(t),
               th' # th
        PROVE  Holders' = Holders /\ \A u \in Holders : th'[u] = th[u]
    <3>1. th[t].pc \notin LeaseInHand
      BY <2>2 DEF Readiness, Preflight, SpawnEngine, SeedPid, Admitted, LeaseInHand
    <3>2. th'[t].pc \in {"idle", "acquire", "spawn_engine", "seed"}
      BY <2>2, <3>1, WhereTo DEF ThreadStep, Acquire, WriteLease, Recheck, SpawnRunner, LeaseInHand,
         Readiness, Preflight, SpawnEngine, SeedPid, Admitted
    <3>3. \A u \in Threads \ {t} : th'[u] = th[u]
      BY <2>2, WhereTo DEF ThreadStep
    <3> QED
      BY <3>1, <3>2, <3>3, HoldersStay DEF LeaseInHand
  <2> QED
    BY <2>1, <2>2 DEF Poll, Preparation, PrepStarts, PrepStage, PrepStageEnds, PrepKilled, vars
<1> QED
  BY <1>1, <1>2, <1>3, Beside

\* The lease is taken where there is none, or none that counts.
LEMMA AcquireKeeps ==
  ASSUME Base, RunnerInv, [Next]_vars, NEW t \in Threads, Acquire(t)
  PROVE  RunnerInv'
<1>1. th[t].pc = "acquire" /\ UNCHANGED <<proc, rstat, api>>
      /\ \A u \in Threads \ {t} : th'[u] = th[u]
  BY WhereTo DEF Acquire, ThreadStep
<1>2. CASE lease.st = "none" /\ lease' = [NoLease EXCEPT !.st = "empty"] /\ th'[t].pc = "write"
  <2>1. BeatsOnFile' /\ Booting' = Booting
    BY <1>1 DEF RunnerInv, BeatsOnFile, Beating, Booting, Is
  <2>2. Holders' = Holders \cup {t} /\ \A u \in Holders : th'[u] = th[u]
    BY <1>1, <1>2 DEF Holders, LeaseInHand
  <2>3. CASE rstat.fresh
    <3>1. Booting' = {}
      BY <2>1, <2>3, UnderBeat
    <3>2. LeaseExcludes'
      BY <1>1, <1>2, <2>2, <2>3 DEF LeaseExcludes, RunnerInv
    <3> QED
      BY <2>1, <3>1, <3>2 DEF RunnerInv, BootIsCovered
  <2>4. CASE ~rstat.fresh
    <3>1. Holders = {} /\ Booting = {}
      BY <1>2, <2>4, CoverStands DEF Covering
    <3>2. LeaseExcludes'
      BY <1>1, <1>2, <2>2, <3>1 DEF LeaseExcludes, NoLease
    <3> QED
      BY <2>1, <3>1, <3>2 DEF RunnerInv, BootIsCovered
  <2> QED
    BY <2>3, <2>4
<1>3. CASE ~(lease.st = "none" /\ lease' = [NoLease EXCEPT !.st = "empty"] /\ th'[t].pc = "write")
  <2>1. th' = th \/ th'[t].pc = "idle"
    BY <1>1, <1>3, WhereTo DEF ThreadStep, Acquire, WriteLease, Recheck, SpawnRunner, Readiness,
       Preflight, SpawnEngine, Admitted
  <2>2. Holders' = Holders /\ \A u \in Holders : th'[u] = th[u]
    BY <1>1, <2>1, HoldersStay DEF LeaseInHand
  <2>3. Covering => lease' = lease
    BY CoverStands DEF Acquire
  <2> QED
    BY <1>1, <2>2, <2>3, Beside
<1> QED
  BY <1>2, <1>3

\* Its content is written.
LEMMA WriteKeeps ==
  ASSUME Base, RunnerInv, [Next]_vars, NEW t \in Threads, WriteLease(t)
  PROVE  RunnerInv'
<1>1. th[t].pc = "write" /\ UNCHANGED <<proc, rstat, api>>
  BY DEF WriteLease
<1>2. th'[t].pc = "recheck" /\ \A u \in Threads \ {t} : th'[u] = th[u]
  BY <1>1, Goes DEF Base, WriteLease, Places, LeaseInHand
<1>3. BeatsOnFile' /\ Booting' = Booting
  BY <1>1 DEF RunnerInv, BeatsOnFile, Beating, Booting, Is
<1>4. Booting = {}
  BY <1>1 DEF RunnerInv, BootIsCovered, Holders, LeaseInHand
<1>5. Holders' = Holders /\ t \in Holders
  BY <1>1, <1>2 DEF Holders, LeaseInHand
<1>6. \A u \in Holders : th'[u].pc \in {"spawn", "record"} => ~rstat.fresh
  BY <1>2 DEF RunnerInv, LeaseExcludes, Holders
<1>7. ASSUME ~rstat.fresh
      PROVE  /\ \A u, v \in Holders : u = v
             /\ \A u \in Holders :
                  lease' = IF th'[u].pc = "write" THEN [NoLease EXCEPT !.st = "empty"] ELSE Held(-api)
  <2>1. \A u \in Holders : u = t
    BY <1>5, <1>7 DEF RunnerInv, LeaseExcludes
  <2>2. lease = [NoLease EXCEPT !.st = "empty"]
    BY <1>1, <1>5, <1>7 DEF RunnerInv, LeaseExcludes
  <2>3. lease' = Held(-api)
    BY <2>2 DEF WriteLease, NoLease
  <2> QED
    BY <1>2, <2>1, <2>3
<1>8. LeaseExcludes'
  BY <1>1, <1>5, <1>6, <1>7 DEF LeaseExcludes, Held, NoLease
<1> QED
  BY <1>3, <1>4, <1>8 DEF RunnerInv, BootIsCovered

\* The heartbeat is looked for again under the lease.
LEMMA RecheckKeeps ==
  ASSUME RunnersPunctual, Base, RunnerInv, [Next]_vars, NEW t \in Threads, Recheck(t)
  PROVE  RunnerInv'
<1>1. th[t].pc = "recheck" /\ UNCHANGED <<proc, rstat, api>>
  BY DEF Recheck
<1>2. PICK beat \in BOOLEAN :
        /\ beat = rstat.fresh
        /\ IF beat THEN Go(t, "idle", 0) ELSE Go(t, "spawn", 0) /\ UNCHANGED lease
  BY DEF Recheck, ReadBeat, AlreadyBeating, RunnersPunctual, Cost
<1>3. /\ th'[t].pc = IF rstat.fresh THEN "idle" ELSE "spawn"
      /\ \A u \in Threads \ {t} : th'[u] = th[u]
      /\ ~rstat.fresh => lease' = lease
  BY <1>2, Goes DEF Base, Places, Spawning, LeaseInHand
<1>4. BeatsOnFile' /\ Booting' = Booting
  BY <1>1 DEF RunnerInv, BeatsOnFile, Beating, Booting, Is
<1>5. Booting = {}
  BY <1>1 DEF RunnerInv, BootIsCovered, Holders, LeaseInHand
<1>6. LeaseExcludes'
  <2>1. CASE rstat.fresh
    <3>1. \A u \in Threads : th'[u].pc \notin {"spawn", "record"}
      BY <1>3, <2>1, UnderBeat
    <3> QED
      BY <1>1, <2>1, <3>1 DEF LeaseExcludes, Holders
  <2>2. CASE ~rstat.fresh
    <3>1. Holders' = Holders /\ t \in Holders
      BY <1>1, <1>3, <2>2 DEF Holders, LeaseInHand
    <3>2. \A u \in Holders : u = t
      BY <2>2, <3>1 DEF RunnerInv, LeaseExcludes
    <3>3. lease' = Held(-api)
      BY <1>1, <1>3, <2>2, <3>1 DEF RunnerInv, LeaseExcludes
    <3> QED
      BY <1>1, <1>3, <2>2, <3>1, <3>2, <3>3 DEF LeaseExcludes, Held
  <2> QED
    BY <2>1, <2>2
<1> QED
  BY <1>4, <1>5, <1>6 DEF RunnerInv, BootIsCovered

\* The runner is spawned, or not.
LEMMA SpawnKeeps ==
  ASSUME Base, RunnerInv, [Next]_vars, NEW t \in Threads, SpawnRunner(t)
  PROVE  RunnerInv'
<1>1. th[t].pc = "spawn" /\ t \in Holders /\ UNCHANGED <<rstat, api>>
  BY DEF SpawnRunner, Holders, LeaseInHand
<1>2. ~rstat.fresh
  BY <1>1 DEF RunnerInv, LeaseExcludes
<1>3. \A u \in Holders : u = t
  BY <1>1, <1>2 DEF RunnerInv, LeaseExcludes
<1>4. lease = Held(-api) /\ Booting = {} /\ Beating = {}
  BY <1>1, <1>2, WithoutBeat DEF RunnerInv, LeaseExcludes, BootIsCovered
<1>5. \A u \in Threads \ {t} : th'[u] = th[u]
  BY WhereTo DEF ThreadStep
<1>6. BeatsOnFile'
  <2>1. Beating' = {}
    BY <1>1, <1>2, StillNoBeat
  <2> QED
    BY <2>1 DEF BeatsOnFile
<1>7. CASE Popen("runner")
  <2>1. /\ NextPid \in Unused /\ NextPid \in Pids /\ UNCHANGED lease
        /\ th'[t].pc = "record" /\ th'[t].pid = NextPid
    BY <1>7, SpawnGoesOn DEF Unused
  <2>2. Holders' = {t}
    BY <1>1, <1>3, <1>5, <2>1 DEF Holders, LeaseInHand
  <2>3. Booting' = {NextPid}
    <3>1. proc'[NextPid].kind = "runner" /\ proc'[NextPid].st = "starting"
      BY <1>7, <2>1, PopenMakes DEF Base
    <3>2. \A p \in Pids \ {NextPid} :
            /\ proc'[p].kind = proc[p].kind
            /\ proc'[p].st = IF proc[p].st = "zombie" THEN "gone" ELSE proc[p].st
      BY <1>7, <2>1, PopenMakes DEF Base
    <3> QED
      BY <1>4, <2>1, <3>1, <3>2 DEF Booting, Is, Pids
  <2>4. LeaseExcludes'
    BY <1>1, <1>2, <1>4, <2>1, <2>2 DEF LeaseExcludes, Held
  <2>5. BootIsCovered'
    BY <1>1, <1>2, <1>4, <2>1, <2>2, <2>3 DEF BootIsCovered, Held
  <2> QED
    BY <1>6, <2>4, <2>5 DEF RunnerInv
<1>8. CASE UNCHANGED proc /\ Go(t, "idle", 0)
  <2>1. th'[t].pc = "idle"
    BY <1>8, Goes DEF Base, Places
  <2>2. Holders' = {}
    BY <1>3, <1>5, <2>1 DEF Holders, LeaseInHand
  <2>3. Booting' = {}
    BY <1>4, <1>8 DEF Booting, Is
  <2> QED
    BY <1>6, <2>2, <2>3, NothingCovered
<1> QED
  BY <1>7, <1>8 DEF SpawnRunner

\* Its pid goes into the lease, or not.
LEMMA RecordKeeps ==
  ASSUME Base, RunnerInv, [Next]_vars, NEW t \in Threads, RecordRunner(t)
  PROVE  RunnerInv'
<1>1. th[t].pc = "record" /\ t \in Holders /\ UNCHANGED <<proc, rstat, api>>
  BY DEF RecordRunner, Holders, LeaseInHand
<1>2. ~rstat.fresh
  BY <1>1 DEF RunnerInv, LeaseExcludes
<1>3. /\ \A u \in Holders : u = t
      /\ lease = Held(-api)
      /\ \A p \in Booting : th[t].pid = p /\ Booting = {p}
  BY <1>1, <1>2 DEF RunnerInv, LeaseExcludes, BootIsCovered
<1>4. th'[t].pc = "idle" /\ \A u \in Threads \ {t} : th'[u] = th[u]
  BY Goes DEF Base, Places, RecordRunner
<1>5. Holders' = {}
  BY <1>3, <1>4 DEF Holders, LeaseInHand
<1>6. BeatsOnFile' /\ Booting' = Booting
  BY <1>1 DEF RunnerInv, BeatsOnFile, Beating, Booting, Is
<1>7. lease' = Held(th[t].pid) \/ (lease' = lease /\ <<"failed", "lease">> \in Events)
  BY DEF RecordRunner, Cost
<1>8. LeaseExcludes'
  BY <1>5 DEF LeaseExcludes
<1>9. BootIsCovered'
  BY <1>1, <1>2, <1>3, <1>5, <1>6, <1>7 DEF BootIsCovered, Held
<1> QED
  BY <1>6, <1>8, <1>9 DEF RunnerInv

\* A stop finds the runner it is meant for, or a heartbeat.
LEMMA StopKeeps ==
  ASSUME RunnersPunctual, Base, RunnerInv, [Next]_vars, StopRunner
  PROVE  RunnerInv'
<1> DEFINE pid == CurrentRunnerPid
<1>1. /\ RunnerRunning(rstat.fresh) /\ pid \notin {0, -api}
      /\ ~(LeaseAfter(rstat.fresh).st # "none" /\ lease.pid # pid)
      /\ proc' = IF pid \in Pids THEN Signalled(pid) ELSE proc
      /\ UNCHANGED <<api, th, rstat, estat, prep>>
  BY DEF StopRunner, RunnersPunctual, Cost
<1>2. Holders' = Holders /\ \A u \in Holders : th'[u] = th[u]
  BY <1>1 DEF Holders
<1>3. CASE rstat.fresh
  BY <1>1, <1>2, <1>3, Beside, UnderBeat
<1>4. CASE ~rstat.fresh
  <2>1. LeaseAfter(rstat.fresh) = lease /\ lease.st # "none" /\ lease.pid = pid
    <3>1. rstat.fresh = FALSE
      BY <1>4 DEF Base, TypeOK, Beat
    <3>2. LeaseAfter(rstat.fresh).st # "none" /\ lease.pid = pid
      BY <1>1, <3>1 DEF RunnerRunning
    <3>3. LeaseAfter(rstat.fresh) # NoLease
      BY <3>2 DEF NoLease
    <3> QED
      BY <3>2, <3>3, LeaseKeptOrCleared
  <2>2. Holders = {}
    BY <1>1, <1>4, <2>1 DEF RunnerInv, LeaseExcludes, NoLease, Held
  <2>3. ASSUME NEW p \in Booting
        PROVE  pid = p /\ pid \in Pids /\ proc'[p].st \in {"zombie", "gone"}
    <3>1. lease = Held(p) \/ lease = Held(-api)
      BY DEF RunnerInv, BootIsCovered
    <3>2. lease = Held(p) /\ pid = p
      BY <1>1, <2>1, <3>1 DEF Held
    <3>3. p \in Pids /\ proc[p].st = "starting"
      BY DEF Booting, Is
    <3> QED
      BY <1>1, <3>2, <3>3, SignalMoves DEF Becomes, Base
  <2>4. Booting' = {}
    <3>1. \A p \in Booting' : p \in Booting
      BY <1>1, RunnersWork
    <3> QED
      BY <2>3, <3>1 DEF Booting, Is
  <2>5. BeatsOnFile'
    <3>1. Beating' = {}
      BY <1>1, <1>4, StillNoBeat
    <3> QED
      BY <3>1 DEF BeatsOnFile
  <2> QED
    BY <1>2, <2>2, <2>4, <2>5, NothingCovered
<1> QED
  BY <1>3, <1>4

\* The first heartbeat of a runner ends its start; a later one changes nothing.
LEMMA BeatKeeps ==
  ASSUME RunnersPunctual, Base, RunnerInv, [Next]_vars, NEW p \in Pids, RunnerBeats(p)
  PROVE  RunnerInv'
<1>0. TypeOK
  BY DEF Base
<1>1. /\ proc[p].kind = "runner" /\ proc[p].st \in {"starting", "up", "stopping"}
      /\ rstat' = [pid |-> p, fresh |-> TRUE]
      /\ UNCHANGED <<api, th, lease, estat, prep>>
  BY DEF RunnerBeats, Is
<1>2. Holders' = Holders /\ \A u \in Holders : th'[u] = th[u]
  BY <1>1 DEF Holders
<1>3. CASE proc[p].st = "starting"
  <2>1. p \in Booting
    BY <1>1, <1>3 DEF Booting, Is
  <2>2. Booting = {p} /\ ~rstat.fresh /\ \A t \in Holders : th[t].pc = "record" /\ th[t].pid = p
    BY <2>1 DEF RunnerInv, BootIsCovered
  <2>3. Holders = {}
    BY <2>2, NoRush DEF RunnersPunctual, RunnerBeats, Holders
  <2>4. proc'[p].st = "up"
    BY <1>0, <1>3, RunnerMoves DEF Becomes
  <2>5. Booting' = {}
    <3>1. \A q \in Booting' : q \in Booting
      BY <1>1, RunnersWork
    <3> QED
      BY <2>2, <2>4, <3>1 DEF Booting, Is
  <2>6. BeatsOnFile'
    <3>1. \A q \in Beating' : q = p
      <4>1. ASSUME NEW q, RunnerBeats(q)
            PROVE  q = p
        BY <1>1, <4>1 DEF RunnerBeats
      <4> QED
        BY <2>2, <4>1, RunnersWork, WithoutBeat
    <3> QED
      BY <1>1, <3>1 DEF BeatsOnFile
  <2> QED
    BY <1>2, <2>3, <2>5, <2>6, NothingCovered
<1>4. CASE proc[p].st \in {"up", "stopping"}
  <2>1. p \in Beating
    BY <1>1, <1>4 DEF Beating, Is
  <2>2. rstat' = rstat
    BY <1>1, <2>1 DEF RunnerInv, BeatsOnFile
  <2> QED
    BY <1>1, <1>2, <2>2, Beside
<1> QED
  BY <1>1, <1>3, <1>4

\* A runner that is reaped had left no lease that covers another.
LEMMA ReapKeeps ==
  ASSUME Base, RunnerInv, [Next]_vars, NEW p \in Pids, ReapRunner(p)
  PROVE  RunnerInv'
<1>1. /\ proc[p].st = "zombie" /\ UNCHANGED <<api, th, rstat>>
      /\ lease' = IF lease.st = "held" /\ lease.pid = p THEN NoLease ELSE lease
  BY DEF ReapRunner, Is
<1>2. Holders' = Holders /\ \A u \in Holders : th'[u] = th[u]
  BY <1>1 DEF Holders
<1>3. p # -api /\ p # 0
  <2>1. api \in Nat \ {0} /\ p \in Nat \ {0}
    BY SupervisionAssumption DEF Base, TypeOK, Pids
  <2> QED
    BY <2>1
<1>4. ASSUME Covering, lease.pid = p
      PROVE  FALSE
  <2>1. ASSUME NEW t \in Holders
        PROVE  FALSE
    <3>1. lease = IF th[t].pc = "write" THEN [NoLease EXCEPT !.st = "empty"] ELSE Held(-api)
      BY <1>4 DEF RunnerInv, LeaseExcludes, Covering
    <3> QED
      BY <1>3, <1>4, <3>1 DEF NoLease, Held
  <2>2. ASSUME NEW q \in Booting
        PROVE  FALSE
    <3>1. lease = Held(q) \/ lease = Held(-api)
      BY DEF RunnerInv, BootIsCovered
    <3>2. q = p
      BY <1>3, <1>4, <3>1 DEF Held
    <3> QED
      BY <1>1, <3>2 DEF Booting, Is
  <2> QED
    BY <1>4, <2>1, <2>2 DEF Covering
<1> QED
  BY <1>1, <1>2, <1>4, Beside

\* A heartbeat goes stale only where nobody beats and nobody starts.
LEMMA SilenceKeeps ==
  ASSUME RunnersPunctual, Base, RunnerInv, [Next]_vars, RunnerSilent
  PROVE  RunnerInv'
<1>1. /\ rstat.fresh /\ UNCHANGED <<api, th, proc, lease>>
      /\ ~StartingRunner /\ ~Is(rstat.pid, "runner", {"up", "stopping"})
  BY DEF RunnerSilent, RunnersPunctual, Cost, SlowStart
<1>2. Holders' = {}
  BY <1>1 DEF StartingRunner, Holders, LeaseInHand
<1>3. Booting' = {}
  BY <1>1, UnderBeat DEF Booting, Is
<1>4. Beating' = {}
  <2>1. ASSUME NEW p \in Beating
        PROVE  FALSE
    <3>1. rstat.pid = p
      BY DEF RunnerInv, BeatsOnFile
    <3> QED
      BY <1>1, <3>1 DEF Beating
  <2> QED
    BY <1>1, <2>1 DEF Beating, Is
<1> QED
  BY <1>2, <1>3, <1>4, NothingCovered DEF BeatsOnFile

\* A lease grows old only where nobody starts.
LEMMA AgeKeeps ==
  ASSUME RunnersPunctual, Base, RunnerInv, [Next]_vars, LeaseAges
  PROVE  RunnerInv'
<1>1. /\ UNCHANGED <<api, th, rstat>>
      /\ ~StartingRunner /\ ~ \E p \in Pids : Is(p, "runner", {"starting"})
  BY DEF LeaseAges, RunnersPunctual, Cost, SlowStart
<1>2. Holders = {} /\ Booting = {} /\ Holders' = Holders
  BY <1>1 DEF StartingRunner, Holders, LeaseInHand, Booting
<1> QED
  BY <1>1, <1>2, Beside DEF Covering

\* A new API finds the lease as the last one left it, with the pid of a child
\* of its own that still boots, if one does.
LEMMA RestartKeeps ==
  ASSUME RunnersPunctual, Base, RunnerInv, [Next]_vars, ApiRestarts
  PROVE  RunnerInv'
<1>1. /\ UNCHANGED <<lease, rstat, estat, prep>>
      /\ th' = [t \in Threads |-> [pc |-> "idle", pid |-> 0]]
      /\ \A t \in Threads : th[t].pc \notin {"write", "recheck", "spawn", "record", "seed"}
      /\ <<"restart", "api">> \in Events
  BY DEF ApiRestarts, RunnersPunctual, Cost
<1>2. Holders = {} /\ Holders' = {}
  BY <1>1 DEF Holders, LeaseInHand
<1>3. \A p \in Booting : lease = Held(p)
  BY <1>1, <1>2 DEF RunnerInv, BootIsCovered, RunnersPunctual
<1>4. Booting' = Booting /\ Beating' = Beating
  <2>1. \A p \in Pids : proc'[p] = IF proc[p].st = "zombie" THEN [proc[p] EXCEPT !.st = "gone"]
                                                           ELSE proc[p]
    BY DEF ApiRestarts
  <2>2. \A p \in Pids : proc[p] \in Process
    BY DEF Base, TypeOK
  <2>3. \A p \in Pids :
          /\ proc'[p].kind = proc[p].kind
          /\ proc'[p].st = proc[p].st \/ (proc[p].st = "zombie" /\ proc'[p].st = "gone")
    BY <2>1, <2>2 DEF Process
  <2> QED
    BY <2>3 DEF Booting, Beating, Is
<1>5. BeatsOnFile' /\ LeaseExcludes'
  BY <1>1, <1>2, <1>4 DEF RunnerInv, BeatsOnFile, LeaseExcludes
<1>6. BootIsCovered'
  BY <1>1, <1>2, <1>3, <1>4 DEF RunnerInv, BootIsCovered, Held
<1> QED
  BY <1>5, <1>6 DEF RunnerInv

\* What else happens to processes touches neither lease nor heartbeat.
LEMMA ElseKeeps ==
  ASSUME Base, RunnerInv, [Next]_vars,
         \/ \E p \in Pids : \/ RunnerEnds(p) \/ EngineBeats(p) \/ EngineStops(p)
                            \/ Wedges(p) \/ Dies(p)
         \/ EngineSilent
  PROVE  RunnerInv'
<1>1. UNCHANGED <<rstat, api, th, lease>>
  BY DEF RunnerEnds, EngineBeats, EngineStops, Wedges, Dies, EngineSilent
<1>2. Holders' = Holders
  BY <1>1 DEF Holders
<1> QED
  BY <1>1, <1>2, Beside

\* So a runner at work stays alone.
LEMMA RunnerHolds ==
  ASSUME RunnersPunctual, Base, RunnerInv, [Next]_vars
  PROVE  RunnerInv'
<1>1. CASE \E t \in Threads : ThreadStep(t) \/ Readiness(t) \/ Preflight(t)
  BY <1>1, LooksKeep, AcquireKeeps, WriteKeeps, RecheckKeeps, SpawnKeeps, RecordKeeps DEF ThreadStep
<1>2. CASE \E p \in Pids : ProcessStep(p)
  BY <1>2, BeatKeeps, ReapKeeps, ElseKeeps DEF ProcessStep
<1>3. CASE StopRunner \/ Poll \/ Time \/ Preparation \/ ApiRestarts \/ UNCHANGED vars
  BY <1>3, StopKeeps, LooksKeep, SilenceKeeps, AgeKeeps, ElseKeeps, RestartKeeps DEF Time
<1> QED
  BY <1>1, <1>2, <1>3 DEF Next, Request

\* Two runners at work are one.
LEMMA RunnerIsAlone ==
  ASSUME RunnerInv, NEW p \in Working("runner"), NEW q \in Working("runner")
  PROVE  p = q
<1>1. \A r \in Working("runner") : r \in Booting \/ r \in Beating
  BY DEF Working, Booting, Beating, Is
<1>2. CASE rstat.fresh
  <2>1. p \in Beating /\ q \in Beating
    BY <1>1, <1>2, UnderBeat
  <2> QED
    BY <2>1 DEF RunnerInv, BeatsOnFile
<1>3. CASE ~rstat.fresh
  <2>1. p \in Booting /\ q \in Booting
    BY <1>1, <1>3, WithoutBeat
  <2> QED
    BY <2>1 DEF RunnerInv, BootIsCovered
<1> QED
  BY <1>2, <1>3

\* No runner at first.
LEMMA RunnerInit ==
  ASSUME Init
  PROVE  RunnerInv
<1>1. Beating = {} /\ Booting = {} /\ Holders = {}
  BY DEF Init, Beating, Booting, Holders, LeaseInHand, Is, NoProc
<1> QED
  BY <1>1 DEF RunnerInv, BeatsOnFile, LeaseExcludes, BootIsCovered

\* However many requests to start overlap, and whatever dies between them, two
\* runners never write side by side: the lease keeps a second one out until
\* the first heartbeat, and the heartbeat does from then on.
THEOREM RunnersOneAtATime == RunnersPunctual => (Spec => []AtMostOneRunner)
<1> SUFFICES ASSUME RunnersPunctual
             PROVE  Spec => []AtMostOneRunner
  OBVIOUS
<1>1. Init => Base /\ RunnerInv
  BY BaseInit, RunnerInit
<1>2. Base /\ RunnerInv /\ [Next]_vars => (Base /\ RunnerInv)'
  BY BaseStep, RunnerHolds
<1>3. RunnerInv => AtMostOneRunner
  <2> SUFFICES ASSUME RunnerInv
               PROVE  AtMostOneRunner
    OBVIOUS
  <2>1. \A p, q \in Working("runner") : p = q
    BY RunnerIsAlone
  <2> QED
    BY <2>1, OneAtMost DEF AtMostOneRunner
<1> QED
  BY <1>1, <1>2, <1>3, PTL DEF Spec

-----------------------------------------------------------------------------
(* The preparation. *)

\* While it has the lock no request is served, so nothing is spawned.
LEMMA LockedOut ==
  ASSUME Base, PrepInv, [Next]_vars, Exclusive, NEW t \in Threads
  PROVE  /\ th[t].pc = "idle" /\ th'[t].pc = "idle"
         /\ ~SeedPid(t) /\ ~SpawnRunner(t) /\ ~SpawnEngine(t)
<1>1. th[t].pc = "idle"
  BY DEF PrepInv, InRequest
<1>2. ~ThreadStep(t) /\ ~Readiness(t) /\ ~Preflight(t)
  BY <1>1 DEF ThreadStep, Acquire, WriteLease, Recheck, SpawnRunner, RecordRunner, SpawnEngine,
     SeedPid, Readiness, Preflight, Admitted
<1>3. th'[t].pc = "idle"
  BY <1>1, <1>2, HowItServes DEF ThreadStep
<1> QED
  BY <1>1, <1>2, <1>3 DEF ThreadStep

\* The lock is taken where no request is served.
LEMMA LockHolds ==
  ASSUME Base, PrepInv, [Next]_vars
  PROVE  Exclusive' => InRequest' = {}
<1>1. CASE Exclusive
  BY <1>1, LockedOut DEF InRequest
<1>2. CASE PrepStarts
  BY <1>2 DEF PrepStarts, InRequest
<1>3. CASE ~Exclusive /\ ~PrepStarts
  <2>1. prep' = prep
    <3>1. CASE \E t \in Threads : ThreadStep(t) \/ Readiness(t) \/ Preflight(t)
      BY <3>1 DEF ThreadStep, Readiness, Preflight, Acquire, WriteLease, Recheck, SpawnRunner,
         RecordRunner, SpawnEngine, SeedPid
    <3>2. CASE \E p \in Pids : ProcessStep(p)
      BY <3>2 DEF ProcessStep, RunnerBeats, RunnerEnds, EngineBeats, EngineStops, Wedges, Dies,
         ReapRunner
    <3>3. CASE StopRunner \/ Poll \/ Time \/ Preparation \/ ApiRestarts \/ UNCHANGED vars
      BY <1>3, <3>3 DEF StopRunner, Poll, Time, RunnerSilent, EngineSilent, LeaseAges, Preparation,
         PrepStage, PrepStageEnds, PrepKilled, ApiRestarts, Exclusive, vars
    <3> QED
      BY <3>1, <3>2, <3>3 DEF Next, Request
  <2> QED
    BY <1>3, <2>1 DEF Exclusive
<1> QED
  BY <1>1, <1>2, <1>3

\* A stage begins only where no process works and none on file lives.
LEMMA StageFindsNobody ==
  ASSUME Base, RunnerInv, EngineInv, PrepInv, PrepStage, prep'.child
  PROVE  PreparationAlone'
<1>1. /\ prep.sup = "checking" /\ UNCHANGED <<proc, rstat, estat>>
  BY DEF PrepStage
<1>2. CASE ~MarketDataIdle
  <2>1. prep' = [prep EXCEPT !.sup = "off"]
    BY <1>2 DEF PrepStage
  <2>2. prep.child
    BY <2>1 DEF Base, TypeOK
  <2>3. PreparationAlone
    BY DEF PrepInv
  <2> QED
    BY <1>1, <2>2, <2>3 DEF PreparationAlone, Alive
<1>3. CASE MarketDataIdle
  <2>1. /\ ~RunnerRunning(rstat.fresh) /\ ~PidAlive(CurrentRunnerPid) /\ ~PidAlive(estat.pid)
    BY <1>3 DEF MarketDataIdle
  <2>2. ~rstat.fresh /\ rstat.fresh = FALSE /\ LeaseAfter(FALSE).st = "none"
    <3>1. rstat.fresh \in BOOLEAN
      BY DEF Base, TypeOK, Beat
    <3>2. ~rstat.fresh
      BY <2>1 DEF RunnerRunning
    <3>3. rstat.fresh = FALSE
      BY <3>1, <3>2
    <3> QED
      BY <2>1, <3>2, <3>3 DEF RunnerRunning
  <2>3. Beating = {} /\ Booting = {}
    BY <2>2, WithoutBeat, CoverStands DEF Covering
  <2>4. ASSUME NEW p \in Pids, Alive(p)
        PROVE  proc[p].st \in {"wedged", "stopping"} /\ p \notin {rstat.pid, estat.pid}
    <3>1. PidAlive(p) /\ p # 0
      BY <2>4 DEF Alive, PidAlive, Pids
    <3>2. p # rstat.pid /\ p # estat.pid
      BY <2>1, <3>1 DEF CurrentRunnerPid
    <3>3. p \notin Working("engine")
      <4>1. \A t \in Threads : th[t].pc # "seed"
        BY <1>1 DEF PrepInv, Exclusive, InRequest
      <4> QED
        BY <3>2, <4>1 DEF EngineInv, Seeded
    <3>4. proc[p].kind \in {"runner", "engine"}
      BY <2>4 DEF Base, TypeOK, Coherent, Process, Alive, Living
    <3>5. CASE proc[p].kind = "runner"
      BY <2>3, <2>4, <3>2, <3>5 DEF Beating, Booting, Is, Alive, Living
    <3>6. CASE proc[p].kind = "engine"
      BY <2>4, <3>2, <3>3, <3>6 DEF Working, Is, Alive, Living
    <3> QED
      BY <3>4, <3>5, <3>6
  <2> QED
    BY <1>1, <2>4 DEF PreparationAlone, Alive
<1> QED
  BY <1>2, <1>3

\* While a stage runs nobody comes to work, or onto file.
LEMMA StageStaysAlone ==
  ASSUME Base, RunnerInv, PrepInv, [Next]_vars, prep.child
  PROVE  PreparationAlone'
<1>1. Exclusive /\ PreparationAlone
  BY DEF Exclusive, PrepInv
<1>2. ASSUME NEW p \in Pids
      PROVE  ~RunnerBeats(p) /\ ~EngineBeats(p) /\ ~EngineStops(p)
  <2>1. ASSUME RunnerBeats(p)
        PROVE  FALSE
    <3>1. proc[p].kind = "runner" /\ proc[p].st \in {"starting", "up", "stopping"}
      BY <2>1 DEF RunnerBeats, Is
    <3>2. proc[p].st = "stopping" /\ p # rstat.pid
      BY <1>1, <3>1 DEF PreparationAlone, Alive, Living
    <3>3. p \in Beating
      BY <3>1, <3>2 DEF Beating, Is
    <3> QED
      BY <3>2, <3>3 DEF RunnerInv, BeatsOnFile
  <2>2. ~EngineBeats(p) /\ ~EngineStops(p)
    BY <1>1 DEF EngineBeats, EngineStops, Is, PreparationAlone, Alive, Living
  <2> QED
    BY <2>1, <2>2
<1>3. estat'.pid = estat.pid
  <2>1. CASE estat' = [estat EXCEPT !.fresh = FALSE]
    <3>1. estat \in Status
      BY DEF Base, TypeOK
    <3> QED
      BY <2>1, <3>1 DEF Status
  <2> QED
    BY <1>1, <1>2, <2>1, LockedOut, WhoWritesStatus
<1>4. rstat'.pid = rstat.pid
  <2>1. rstat \in Beat
    BY DEF Base, TypeOK
  <2>2. CASE RunnerSilent
    BY <2>1, <2>2 DEF RunnerSilent, Beat
  <2>3. CASE UNCHANGED rstat
    BY <2>3
  <2>4. RunnerSilent \/ UNCHANGED rstat \/ \E p \in Pids : RunnerBeats(p)
    BY WhoWritesBeat
  <2> QED
    BY <1>2, <2>2, <2>3, <2>4
<1>5. ASSUME NEW p \in Pids, proc'[p].st \in Living
      PROVE  Alive(p) /\ proc'[p].st \in {"wedged", "stopping"}
  <2>1. \/ proc'[p] = proc[p]
        \/ proc'[p].kind = proc[p].kind /\ proc'[p].clean = proc[p].clean
           /\ (proc'[p].st \in {"zombie", "gone"} \/ proc[p].st = "up")
    BY <1>1, <1>2, LockedOut, HowItGoes
  <2>2. CASE proc'[p] = proc[p]
    BY <1>1, <1>5, <2>2 DEF PreparationAlone, Alive
  <2>3. CASE proc[p].st = "up"
    BY <1>1, <2>3 DEF PreparationAlone, Alive, Living
  <2> QED
    BY <1>5, <2>1, <2>2, <2>3 DEF Living
<1> QED
  BY <1>1, <1>3, <1>4, <1>5 DEF PreparationAlone, Alive

\* A preparation stays alone.
LEMMA PrepHolds ==
  ASSUME Base, RunnerInv, EngineInv, PrepInv, [Next]_vars
  PROVE  PrepInv'
<1>1. CASE prep.child
  BY <1>1, StageStaysAlone, LockHolds DEF PrepInv
<1>2. CASE ~prep.child /\ prep'.child
  <2>1. PrepStage
    <3>1. CASE \E t \in Threads : ThreadStep(t) \/ Readiness(t) \/ Preflight(t)
      BY <1>2, <3>1 DEF ThreadStep, Readiness, Preflight, Acquire, WriteLease, Recheck, SpawnRunner,
         RecordRunner, SpawnEngine, SeedPid
    <3>2. CASE \E p \in Pids : ProcessStep(p)
      BY <1>2, <3>2 DEF ProcessStep, RunnerBeats, RunnerEnds, EngineBeats, EngineStops, Wedges, Dies,
         ReapRunner
    <3>3. CASE StopRunner \/ Poll \/ Time \/ Preparation \/ ApiRestarts \/ UNCHANGED vars
      BY <1>2, <3>3 DEF StopRunner, Poll, Time, RunnerSilent, EngineSilent, LeaseAges, Preparation,
         PrepStarts, PrepStageEnds, PrepKilled, ApiRestarts, vars, Base, TypeOK
    <3> QED
      BY <3>1, <3>2, <3>3 DEF Next, Request
  <2> QED
    BY <1>2, <2>1, StageFindsNobody, LockHolds DEF PrepInv
<1>3. CASE ~prep'.child
  BY <1>3, LockHolds DEF PrepInv, PreparationAlone
<1> QED
  BY <1>1, <1>2, <1>3

\* While a stage rewrites market data nobody works on it, not even when its
\* supervisor was killed: the lock its child inherited keeps every start out,
\* and what it checked before it began was not only a heartbeat.
THEOREM PreparationIsAlone ==
  RunnersPunctual /\ EnginesPunctual => (Spec => []PreparationAlone)
<1> SUFFICES ASSUME RunnersPunctual, EnginesPunctual
             PROVE  Spec => []PreparationAlone
  OBVIOUS
<1>1. Init => Base /\ RunnerInv /\ EngineInv /\ PrepInv
  <2> SUFFICES ASSUME Init
               PROVE  Base /\ RunnerInv /\ EngineInv /\ PrepInv
    OBVIOUS
  <2>1. PrepInv
    BY DEF Init, PrepInv, InRequest, PreparationAlone
  <2> QED
    BY <2>1, BaseInit, RunnerInit, EngineInit
<1>2. Base /\ RunnerInv /\ EngineInv /\ PrepInv /\ [Next]_vars
        => (Base /\ RunnerInv /\ EngineInv /\ PrepInv)'
  BY BaseStep, RunnerHolds, EngineHolds, PrepHolds
<1>3. PrepInv => PreparationAlone
  BY DEF PrepInv
<1> QED
  BY <1>1, <1>2, <1>3, PTL DEF Spec
=============================================================================
