-------------------------- MODULE FirstBlockWorkers --------------------------
(***************************************************************************)
(* fillPasswordBlocks (hashapi/CudaHashBackend.cpp): the first blocks of a *)
(* batch are filled by several threads, either each one its own range of   *)
(* the batch, or each one chunk after chunk taken from a shared counter.   *)
(* All of them are joined before the kernel reads the blocks.              *)
(***************************************************************************)
EXTENDS Integers, FiniteSets

CONSTANTS
  MinParallel,   \* kMinParallelFirstBlockAttempts
  Batches, HardwareThreads, Caps, Chunks   \* what a request may ask for

ASSUME WorkersAssumption ==
  /\ MinParallel \in Nat
  /\ Batches \subseteq Nat \ {0} /\ HardwareThreads \subseteq Nat
  /\ Caps \subseteq Nat /\ Chunks \subseteq Nat

VARIABLES
  req,       \* [attempts, threads, cap, chunk]: the request; chunk 0 is static
  next,      \* next_dynamic_index
  started,   \* workers launched so far
  range,     \* of each worker: what is left of its range, [lo, hi)
  done,      \* workers that have returned
  joined,    \* fillPasswordBlocks has returned
  filled     \* how often each first block was filled

workersVars == <<req, next, started, range, done, joined, filled>>

Least(a, b) == IF a <= b THEN a ELSE b

\* firstBlockWorkerCount
WorkerCount ==
  IF req.attempts < MinParallel \/ req.threads < 2 THEN 1
  ELSE LET n == Least(req.attempts, req.threads)
       IN  IF req.cap > 0 THEN Least(n, req.cap) ELSE n

\* Broken firstBlockChunkSize: the division rounds down.
ChunkSizeFloor ==
  IF req.chunk > 0 /\ WorkerCount > 1 THEN Least(req.attempts, req.chunk)
  ELSE req.attempts \div WorkerCount

\* firstBlockSelectedChunkSize
ChunkSize ==
  IF req.chunk > 0 /\ WorkerCount > 1 THEN Least(req.attempts, req.chunk)
  ELSE (req.attempts + WorkerCount - 1) \div WorkerCount

Dynamic == req.chunk > 0 /\ WorkerCount > 1

\* Broken: the last range is not cut off at the end of the batch.
StaticRangeUncut(w) == [lo |-> w * ChunkSize, hi |-> (w + 1) * ChunkSize]

\* A worker's static range; the ones past the end are empty and not launched.
StaticRange(w) == [lo |-> w * ChunkSize, hi |-> Least(req.attempts, (w + 1) * ChunkSize)]
Launches(w) == Dynamic \/ StaticRange(w).lo < StaticRange(w).hi

Idle(w) == range[w].lo >= range[w].hi
AllLaunched == started = WorkerCount \/ ~Launches(started)
-----------------------------------------------------------------------------
WorkersTypeOK ==
  /\ req \in [attempts : Batches, threads : HardwareThreads, cap : Caps, chunk : Chunks]
  /\ next \in Nat /\ started \in 0..WorkerCount
  /\ range \in [0..(started - 1) -> [lo : Nat, hi : 0..req.attempts]]
  /\ done \subseteq 0..(started - 1) /\ joined \in BOOLEAN
  /\ filled \in [0..(req.attempts - 1) -> Nat]

WorkersInit ==
  /\ req \in [attempts : Batches, threads : HardwareThreads, cap : Caps, chunk : Chunks]
  /\ next = 0 /\ started = 0 /\ done = {} /\ joined = FALSE
  /\ range = [w \in {} |-> 0]
  /\ filled = [i \in 0..(req.attempts - 1) |-> 0]

\* One worker alone is the calling thread itself.
LaunchWorker ==
  /\ ~AllLaunched
  /\ started' = started + 1
  /\ range' = [w \in 0..started |->
                 IF w < started THEN range[w]
                 ELSE IF Dynamic THEN [lo |-> 0, hi |-> 0] ELSE StaticRange(w)]
  /\ UNCHANGED <<req, next, done, joined, filled>>

\* Broken: the counter counts attempts taken one by one, not chunks.
TakeChunkByOne(w) ==
  /\ Dynamic /\ w \notin done /\ Idle(w)
  /\ next' = next + 1
  /\ IF next >= req.attempts
     THEN done' = done \cup {w} /\ UNCHANGED range
     ELSE /\ range' = [range EXCEPT ![w] = [lo |-> next, hi |-> Least(req.attempts, next + ChunkSize)]]
          /\ UNCHANGED done
  /\ UNCHANGED <<req, started, joined, filled>>

\* fetch_add on the shared counter.
TakeChunk(w) ==
  /\ Dynamic /\ w \notin done /\ Idle(w)
  /\ next' = next + ChunkSize
  /\ IF next >= req.attempts
     THEN done' = done \cup {w} /\ UNCHANGED range
     ELSE /\ range' = [range EXCEPT ![w] = [lo |-> next, hi |-> Least(req.attempts, next + ChunkSize)]]
          /\ UNCHANGED done
  /\ UNCHANGED <<req, started, joined, filled>>

FillPasswordBlock(w) ==
  /\ ~Idle(w)
  /\ filled' = [filled EXCEPT ![range[w].lo] = @ + 1]
  /\ range' = [range EXCEPT ![w].lo = @ + 1]
  /\ UNCHANGED <<req, next, started, done, joined>>

Return(w) ==
  /\ ~Dynamic /\ Idle(w) /\ w \notin done
  /\ done' = done \cup {w}
  /\ UNCHANGED <<req, next, started, range, joined, filled>>

Join ==
  /\ ~joined /\ AllLaunched /\ done = 0..(started - 1)
  /\ joined' = TRUE
  /\ UNCHANGED <<req, next, started, range, done, filled>>

AllJoined == joined /\ UNCHANGED workersVars

WorkersNext ==
  \/ LaunchWorker \/ Join \/ AllJoined
  \/ \E w \in 0..(started - 1) : TakeChunk(w) \/ FillPasswordBlock(w) \/ Return(w)

WorkersSpec == WorkersInit /\ [][WorkersNext]_workersVars
-----------------------------------------------------------------------------
\* What a worker may still write: two workers never share a first block, and
\* none is written again after it was filled.
NoSharedBlock ==
  \A w \in 0..(started - 1) :
    \A i \in range[w].lo..(range[w].hi - 1) :
      /\ filled[i] = 0
      /\ \A v \in 0..(started - 1) : v # w => i \notin range[v].lo..(range[v].hi - 1)

\* When the kernel may start, the first blocks of every attempt have been
\* filled, exactly once.
AllFilledOnce == joined => \A i \in 0..(req.attempts - 1) : filled[i] = 1

\* The workers divide the first blocks of a batch among them: none is shared,
\* none left out, whether by ranges or by chunks from the shared counter.
WorkersInvariant == WorkersTypeOK /\ NoSharedBlock /\ AllFilledOnce
=============================================================================
