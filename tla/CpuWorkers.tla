----------------------------- MODULE CpuWorkers -----------------------------
(***************************************************************************)
(* The CPU miner (CpuMiningWorker.cpp): an owner that starts, stops and    *)
(* joins a set of worker threads, which read the difficulty, idle while it *)
(* is above their ceiling, hash a batch otherwise and hand its matches to  *)
(* the submit callback. The first failure of any of them stops them all.   *)
(*                                                                         *)
(* Flags are atomics: each load and store is a step of its own, and the    *)
(* difficulty a worker has read may be stale when it acts on it.           *)
(***************************************************************************)
EXTENDS Integers, FiniteSets

CONSTANTS
  WorkerCount,      \* Config::worker_count
  Provided,         \* what the provider may answer
  MinDifficulty,    \* kMinCpuDifficulty
  MaxDifficulty,    \* Config::max_difficulty, 0 is no ceiling
  MaxStarts,        \* bound: times the owner starts the workers
  MaxMoves          \* bound: times the difficulty changes

ASSUME CpuAssumption ==
  /\ WorkerCount \in Nat \ {0} /\ Provided \subseteq Nat /\ Provided # {}
  /\ MinDifficulty \in Nat /\ MaxDifficulty \in Nat
  /\ MaxStarts \in Nat /\ MaxMoves \in Nat

Workers == 0..(WorkerCount - 1)

VARIABLES
  owner,        \* where the owner is
  spawned,      \* threads_: workers 0..spawned-1 have a thread
  cpuRunning,   \* running_
  stop,         \* stop_requested_
  active,       \* active_workers_
  paused,       \* paused_for_difficulty_
  lastError,    \* last_error_ is set
  pc, seen,     \* of each worker: where it is, the difficulty it has read
  wanted,       \* should_continue_: the program's own running flag
  provided,     \* what the difficulty provider answers
  starts, moves

ownerVars == <<owner, spawned, starts>>
flagVars == <<cpuRunning, stop, active, paused, lastError>>
worldVars == <<wanted, provided, moves>>
cpuVars == <<ownerVars, flagVars, worldVars, pc, seen>>

Gone == {"none", "gone"}
Hashing == {"batch", "submit"}

CpuTypeOK ==
  /\ owner \in {"idle", "starting", "started", "cleanup", "joining"}
  /\ spawned \in 0..WorkerCount
  /\ {cpuRunning, stop, paused, lastError, wanted} \subseteq BOOLEAN
  /\ pc \in [Workers -> Gone \cup Hashing \cup {"new", "loop", "read", "gate", "error", "exit", "last"}]
  /\ active = Cardinality({w \in Workers : pc[w] \notin {"none", "new", "gone", "last"}})
  /\ seen \in [Workers -> Provided \cup {0}] /\ provided \in Provided
  /\ \A w \in Workers : w >= spawned => pc[w] \in Gone

CpuInit ==
  /\ owner = "idle" /\ spawned = 0 /\ starts = 0
  /\ cpuRunning = FALSE /\ stop = FALSE /\ active = 0 /\ paused = FALSE /\ lastError = FALSE
  /\ pc = [w \in Workers |-> "none"] /\ seen = [w \in Workers |-> 0]
  /\ wanted = TRUE /\ provided \in Provided /\ moves = 0

(***************************************************************************)
(* The owner. start and join hold the lifecycle mutex throughout.          *)
(***************************************************************************)
Start ==
  /\ owner = "idle" /\ starts < MaxStarts
  /\ ~cpuRunning /\ spawned = 0
  /\ stop' = FALSE /\ active' = 0 /\ lastError' = FALSE /\ cpuRunning' = TRUE
  /\ owner' = "starting" /\ starts' = starts + 1
  /\ UNCHANGED <<spawned, paused, pc, seen, worldVars>>

Spawn ==
  /\ owner = "starting"
  /\ pc' = [pc EXCEPT ![spawned] = "new"]
  /\ spawned' = spawned + 1
  /\ owner' = IF spawned + 1 = WorkerCount THEN "started" ELSE owner
  /\ UNCHANGED <<starts, flagVars, seen, worldVars>>

\* Broken start: the workers that did start are not told to stop.
SpawnFailsSilently ==
  /\ owner = "starting"
  /\ owner' = "cleanup"
  /\ UNCHANGED <<spawned, starts, flagVars, pc, seen, worldVars>>

\* The thread cannot be created: the catch block stops and joins the others.
SpawnFails ==
  /\ owner = "starting"
  /\ stop' = TRUE /\ owner' = "cleanup"
  /\ UNCHANGED <<spawned, starts, cpuRunning, active, paused, lastError, pc, seen, worldVars>>

Stop ==
  /\ owner = "started"
  /\ stop' = TRUE /\ owner' = "joining"
  /\ UNCHANGED <<spawned, starts, cpuRunning, active, paused, lastError, pc, seen, worldVars>>

\* Broken join: it waits for the workers that count as active.
JoinActive ==
  /\ owner \in {"cleanup", "joining"}
  /\ active = 0
  /\ spawned' = 0 /\ cpuRunning' = FALSE /\ owner' = "idle"
  /\ pc' = [w \in Workers |-> IF w < spawned /\ pc[w] = "gone" THEN "none" ELSE pc[w]]
  /\ UNCHANGED <<starts, stop, active, paused, lastError, seen, worldVars>>

\* Also the end of the catch block of start.
Join ==
  /\ owner \in {"cleanup", "joining"}
  /\ \A w \in Workers : w < spawned => pc[w] = "gone"
  /\ spawned' = 0 /\ cpuRunning' = FALSE /\ owner' = "idle"
  /\ pc' = [w \in Workers |-> "none"]
  /\ UNCHANGED <<starts, stop, active, paused, lastError, seen, worldVars>>

(***************************************************************************)
(* A worker.                                                               *)
(***************************************************************************)
Goes(w, to) == pc' = [pc EXCEPT ![w] = to]

\* Broken: a worker without a backend is never counted.
EnterUncounted(w) ==
  /\ pc[w] = "new"
  /\ \/ Goes(w, "loop") /\ active' = active + 1
     \/ Goes(w, "error") /\ UNCHANGED active
  /\ UNCHANGED <<ownerVars, cpuRunning, stop, paused, lastError, seen, worldVars>>

\* The backend factory may fail.
Enter(w) ==
  /\ pc[w] = "new" /\ active' = active + 1
  /\ Goes(w, "loop") \/ Goes(w, "error")
  /\ UNCHANGED <<ownerVars, cpuRunning, stop, paused, lastError, seen, worldVars>>

\* Broken loop: only the program's flag is looked at.
LoopWanted(w) ==
  /\ pc[w] = "loop"
  /\ Goes(w, IF ~wanted THEN "exit" ELSE "read")
  /\ UNCHANGED <<ownerVars, flagVars, seen, worldVars>>

Loop(w) ==
  /\ pc[w] = "loop"
  /\ Goes(w, IF stop \/ ~wanted THEN "exit" ELSE "read")
  /\ UNCHANGED <<ownerVars, flagVars, seen, worldVars>>

ReadProvider(w) ==
  /\ pc[w] = "read"
  /\ seen' = [seen EXCEPT ![w] = provided]
  /\ Goes(w, IF provided < MinDifficulty THEN "error" ELSE "gate")
  /\ UNCHANGED <<ownerVars, flagVars, worldVars>>

\* Broken gate: a worker that is above the ceiling looks at what it read before.
GateStuck(w) ==
  /\ pc[w] = "gate"
  /\ LET above == MaxDifficulty > 0 /\ seen[w] > MaxDifficulty
     IN  paused' = above /\ Goes(w, IF above THEN "gate" ELSE "batch")
  /\ UNCHANGED <<ownerVars, cpuRunning, stop, active, lastError, seen, worldVars>>

\* Above the ceiling: sleep and go round; below: the batch.
Gate(w) ==
  /\ pc[w] = "gate"
  /\ LET above == MaxDifficulty > 0 /\ seen[w] > MaxDifficulty
     IN  paused' = above /\ Goes(w, IF above THEN "loop" ELSE "batch")
  /\ UNCHANGED <<ownerVars, cpuRunning, stop, active, lastError, seen, worldVars>>

\* runBatch gives no match, some, or an error.
RunBatch(w) ==
  /\ pc[w] = "batch"
  /\ Goes(w, "loop") \/ Goes(w, "submit") \/ Goes(w, "error")
  /\ UNCHANGED <<ownerVars, flagVars, seen, worldVars>>

\* The callbacks of the matches, under submit_mutex_; one may throw.
Submit(w) ==
  /\ pc[w] = "submit"
  /\ Goes(w, "loop") \/ Goes(w, "error")
  /\ UNCHANGED <<ownerVars, flagVars, seen, worldVars>>

\* Broken: a failure is a worker's own business.
RecordErrorQuietly(w) ==
  /\ pc[w] = "error"
  /\ lastError' = TRUE
  /\ Goes(w, "exit")
  /\ UNCHANGED <<ownerVars, cpuRunning, stop, active, paused, seen, worldVars>>

RecordError(w) ==
  /\ pc[w] = "error"
  /\ lastError' = TRUE /\ stop' = TRUE
  /\ Goes(w, "exit")
  /\ UNCHANGED <<ownerVars, cpuRunning, active, paused, seen, worldVars>>

\* fetch_sub; the last one clears running_ in a step of its own.
Exit(w) ==
  /\ pc[w] = "exit" /\ active' = active - 1
  /\ Goes(w, IF active = 1 THEN "last" ELSE "gone")
  /\ UNCHANGED <<ownerVars, cpuRunning, stop, paused, lastError, seen, worldVars>>

ExitLast(w) ==
  /\ pc[w] = "last" /\ cpuRunning' = FALSE
  /\ Goes(w, "gone")
  /\ UNCHANGED <<ownerVars, stop, active, paused, lastError, seen, worldVars>>

(***************************************************************************)
(* The rest of the program.                                                *)
(***************************************************************************)
DifficultyChanges ==
  /\ moves < MaxMoves /\ moves' = moves + 1
  /\ provided' \in Provided \ {provided}
  /\ UNCHANGED <<ownerVars, flagVars, pc, seen, wanted>>

ProgramEnds ==
  /\ wanted /\ wanted' = FALSE
  /\ UNCHANGED <<ownerVars, flagVars, pc, seen, provided, moves>>

WorkerStep(w) ==
  \/ Enter(w) \/ Loop(w) \/ ReadProvider(w) \/ Gate(w) \/ RunBatch(w) \/ Submit(w)
  \/ RecordError(w) \/ Exit(w) \/ ExitLast(w)

OwnerDone == owner = "idle" /\ starts = MaxStarts /\ UNCHANGED cpuVars

CpuNext ==
  \/ Start \/ Spawn \/ SpawnFails \/ Stop \/ Join \/ DifficultyChanges \/ ProgramEnds \/ OwnerDone
  \/ \E w \in Workers : WorkerStep(w)

\* Threads run; a batch has finitely many matches; join returns when it can.
CpuSpec ==
  /\ CpuInit /\ [][CpuNext]_cpuVars
  /\ \A w \in Workers : WF_cpuVars(WorkerStep(w))
  /\ WF_cpuVars(Join) /\ WF_cpuVars(Spawn \/ SpawnFails)
-----------------------------------------------------------------------------
\* Once join has returned (or start has thrown) no worker is left, not even one
\* that no longer counts as active, and the miner is not running.
JoinedMeansGone ==
  owner = "idle" => /\ ~cpuRunning /\ active = 0
                    /\ \A w \in Workers : pc[w] \in Gone

\* running_ may fall early, when the first workers have failed before the last
\* ones are created, but then nobody goes on to hash for it: whoever hashes
\* while running_ is false has been told to stop.
HashingMeansRunning ==
  \A w \in Workers : pc[w] \in Hashing => cpuRunning \/ stop \/ ~wanted

\* One worker's failure ends the whole miner, whatever the others are doing.
FailureStopsAll == []<>(lastError => ~cpuRunning)

\* The owner's stop and join, or start's catch block, come to an end.
JoinReturns == owner \in {"joining", "cleanup"} ~> owner = "idle"

\* "resume automatically when it falls": a worker idling above the ceiling goes
\* back to work once the difficulty stays at or below it, unless it is stopped.
GateResumes ==
  \A w \in Workers :
    [](pc[w] = "gate" /\ [](provided <= MaxDifficulty /\ ~stop /\ wanted) =>
         <>(pc[w] \in Hashing \cup {"error"}))

\* Threads and flags agree: joined means gone, and nobody hashes for a miner
\* that has ended.
CpuInvariant == CpuTypeOK /\ JoinedMeansGone /\ HashingMeansRunning

\* Nobody waits for ever: a failure stops all, join returns, the gate opens.
CpuProgress == FailureStopsAll /\ JoinReturns /\ GateResumes
=============================================================================
