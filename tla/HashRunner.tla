----------------------------- MODULE HashRunner -----------------------------
(***************************************************************************)
(* One GPU lane's hashing stack: CudaHashBackend (one per mining unit or   *)
(* benchmark, it remembers the shape it initialised) over CudaBackend (one *)
(* per lane, it owns the KernelRunner) over KernelRunner (host buffers,    *)
(* device memory, stream and events).  Every CUDA call may fail and throw: *)
(* a failed call leaves the objects as the statements before it left them. *)
(*                                                                         *)
(* A shape is <<n, seg>>: hashes per batch and blocks per segment.  What a *)
(* buffer holds is the number of the batch that wrote it (0 = garbage).    *)
(***************************************************************************)
EXTENDS Naturals, FiniteSets

CONSTANTS
    Shapes,          \* shapes a unit or a benchmark may ask for
    SelfTestShape,   \* the self-test's shape: one hash at difficulty 8
    Tags,            \* batches are numbered 1..Tags, round and round
    MaxFaults        \* bound: CUDA calls that fail by themselves

ASSUME ShapesAssumption ==
    /\ Shapes \subseteq (Nat \ {0}) \X (Nat \ {0})
    /\ SelfTestShape \in (Nat \ {0}) \X (Nat \ {0})
    /\ Tags \in Nat \ {0} /\ MaxFaults \in Nat

VARIABLES
    client,    \* who owns the backend: "lane", "bench" or "selftest"
    open,      \* a CudaHashBackend exists and has not reported a failure
    shape,     \* the unit's own shape (a lane's batches all have it)
    gpu,       \* gpu_first_blocks
    pre,       \* precomputed_refs
    cached,    \* CudaHashBackend::initialized_* : a shape, or <<>>
    runner,    \* CudaBackend::runner_
    live,      \* device allocations cudaMalloc returned and nothing freed
    pc,        \* step of runBatch
    batch,     \* the batch being run: [id, n, seg]
    last,      \* how the last batch ended: "none", "ok" or "failed"
    faults

vars == <<client, open, shape, gpu, pre, cached, runner, live, pc, batch, last, faults>>

(***************************************************************************)
(* KernelRunner.                                                           *)
(***************************************************************************)
NoRunner == [n |-> 0]

\* The constructor: a shape, null pointers and cleared flags.
NewRunner(n, seg) ==
    [n |-> n, seg |-> seg, alloc |-> seg, hostCap |-> 0, mem |-> 0, events |-> FALSE,
     ready |-> FALSE, keys |-> 0, keysCap |-> 0, refs |-> FALSE, refsSeg |-> 0,
     hostIn |-> 0, keysOf |-> 0, out |-> <<0, 0, 0>>]

\* init(): host buffers, then device memory, then events and stream.
InitHost(r) == [r EXCEPT !.hostCap = r.n, !.alloc = r.seg]
InitMemory(r) == [InitHost(r) EXCEPT !.mem = r.n * r.seg]
InitEvents(r) == [InitMemory(r) EXCEPT !.events = TRUE]

\* Broken canReuse: the batch size is not compared.
CanReuseAnyBatch(r, n, seg) == r.n >= 1 /\ seg <= r.alloc

CanReuse(r, n, seg) == r.n = n /\ seg <= r.alloc

\* Broken reconfigure: batch size and segment size are taken in the wrong order.
ReconfigureSwapped(r, n, seg) ==
    [r EXCEPT !.n = seg, !.seg = n, !.ready = FALSE, !.refsSeg = 0]

Reconfigure(r, n, seg) ==
    [r EXCEPT !.n = n, !.seg = seg, !.ready = FALSE, !.refsSeg = 0]

\* The destructor frees every pointer that is not null.
Owned(r) ==
    IF r = NoRunner THEN 0
    ELSE Cardinality({p \in {"mem", "keys", "refs"} :
                        CASE p = "mem" -> r.mem # 0
                          [] p = "keys" -> r.keys # 0
                          [] p = "refs" -> r.refs})

\* prepareInputBlocksOnDevice: the key buffer grows when it is too small (the
\* old one freed first), the keys are copied, the flag is raised last.
KeysGrow(r) == r.keysCap < r.n
KeysFreed(r) == IF KeysGrow(r) THEN [r EXCEPT !.ready = FALSE, !.keys = 0]
                ELSE [r EXCEPT !.ready = FALSE]
KeysAllocated(r) == IF KeysGrow(r)
                    THEN [KeysFreed(r) EXCEPT !.keys = r.n, !.keysCap = r.n]
                    ELSE KeysFreed(r)
PrepareInputBlocksOnDevice(r, id) ==
    [KeysAllocated(r) EXCEPT !.keysOf = id, !.ready = TRUE]

\* Broken ensurePrecomputedRefs: any table will do.
RefsCurrentAny(r) == r.refs

\* ensurePrecomputedRefs: nothing, or a table for the current segment size.
RefsCurrent(r) == r.refs /\ r.refsSeg = r.seg
\* Broken ensurePrecomputedRefs: the table of the old shape is not freed.
RefsFreedNot(r) == [r EXCEPT !.refsSeg = 0]

RefsFreed(r) == [r EXCEPT !.refs = FALSE, !.refsSeg = 0]

EnsurePrecomputedRefs(r) ==
    IF ~pre \/ RefsCurrent(r) THEN r
    ELSE [RefsFreed(r) EXCEPT !.refs = TRUE, !.refsSeg = r.seg]

\* run(): the first blocks come from the device keys when the flag is up and
\* from the host buffer otherwise; the flag comes down before the kernel.
FirstBlocks(r) == IF r.ready THEN r.keysOf ELSE r.hostIn
Launched(r) == [r EXCEPT !.ready = FALSE]

\* The kernel and the copy of the output: whose hashes, at which segment size,
\* by which table (0 = references computed on the fly).
KernelOneshot(r, from) ==
    [r EXCEPT !.out = <<from, r.seg, IF pre /\ r.refs THEN r.refsSeg ELSE 0>>]

Run(r) == KernelOneshot(EnsurePrecomputedRefs(Launched(r)), FirstBlocks(r))

(***************************************************************************)
(* CudaBackend and CudaHashBackend.                                        *)
(***************************************************************************)
TypeOK ==
    /\ client \in {"lane", "bench", "selftest"}
    /\ {open, gpu, pre} \subseteq BOOLEAN
    /\ shape \in Shapes \cup {SelfTestShape}
    /\ cached \in Shapes \cup {SelfTestShape, <<>>}
    /\ pc \in {"idle", "init", "input", "run", "finish"}
    /\ batch.id \in 0..Tags
    /\ <<batch.n, batch.seg>> \in Shapes \cup {SelfTestShape, <<0, 0>>}
    /\ runner = NoRunner \/ <<runner.n, runner.seg>> \in Shapes \cup {SelfTestShape}
    /\ live \in Nat /\ last \in {"none", "ok", "failed"} /\ faults \in 0..MaxFaults

Init ==
    /\ client \in {"lane", "bench", "selftest"}
    /\ shape = SelfTestShape
    /\ gpu \in BOOLEAN
    /\ pre \in (IF client = "selftest" THEN {FALSE} ELSE BOOLEAN)
    /\ open = (client # "lane")
    /\ cached = <<>>
    /\ runner = NoRunner
    /\ live = 0
    /\ pc = "idle"
    /\ batch = [id |-> 0, n |-> 0, seg |-> 0]
    /\ last = "none"
    /\ faults = 0

\* The destructor frees what the old runner owned as the new one takes its
\* place: device memory moves by the difference of what the two own.
SetRunner(r) ==
    /\ runner' = r
    /\ live' = live - Owned(runner) + Owned(r)

\* cudaMalloc or cudaFree inside a method: the pointer is written by it, so a
\* pointer overwritten without a free stays live.
Alloc(r, freed, gained) ==
    /\ runner' = r
    /\ live' = live + gained - freed

\* Broken runMineLoop: the unit starts over the runner the last one left.
KeepBuffers == UNCHANGED <<runner, live>>

\* releaseBuffers() at the start of runMineLoop.
ReleaseBuffers == SetRunner(NoRunner)

\* A mining unit: a new CudaHashBackend over the lane's backend, the old pool
\* released, one shape for the unit's life.
NewUnit ==
    /\ client = "lane" /\ pc = "idle"
    /\ shape' \in Shapes
    /\ ReleaseBuffers
    /\ cached' = <<>>
    /\ open' = TRUE
    /\ UNCHANGED <<client, gpu, pre, pc, batch, last, faults>>

\* runBatch begins.  A lane asks for the unit's shape; the benchmark for the
\* next of its sequence; the self-test for its own, the second time with the
\* first blocks on the device and only after the first time passed.
Begin ==
    /\ open /\ pc = "idle"
    /\ \E s \in (CASE client = "lane" -> {shape}
                   [] client = "bench" -> Shapes
                   [] client = "selftest" -> {SelfTestShape}) :
         batch' = [id |-> (batch.id % Tags) + 1, n |-> s[1], seg |-> s[2]]
    /\ client = "selftest" => batch.id < 2 /\ (batch.id = 1 => ~gpu)
    /\ gpu' = IF client = "selftest" /\ batch.id = 1 THEN TRUE ELSE gpu
    /\ pc' = "init"
    /\ UNCHANGED <<client, open, shape, pre, cached, runner, live, last, faults>>

\* A CUDA call throws: runBatch catches, reports the batch failed, and its
\* caller ends the unit, the benchmark or the self-test.
Throw(free) ==
    /\ free \/ faults < MaxFaults
    /\ faults' = faults + (IF free THEN 0 ELSE 1)
    /\ open' = FALSE
    /\ pc' = "idle"
    /\ last' = "failed"
    /\ UNCHANGED <<client, shape, gpu, pre, cached, batch>>

Step(next) ==
    /\ pc' = next
    /\ UNCHANGED <<client, open, shape, gpu, pre, batch, last, faults>>

\* ensureInitialized and CudaBackend::init.
InitCached ==
    /\ pc = "init" /\ cached = <<batch.n, batch.seg>>
    /\ Step("input")
    /\ UNCHANGED <<cached, runner, live>>

Reusable == runner # NoRunner /\ CanReuse(runner, batch.n, batch.seg)

InitReuse ==
    /\ pc = "init" /\ cached # <<batch.n, batch.seg>> /\ Reusable
    /\ Alloc(Reconfigure(runner, batch.n, batch.seg), 0, 0)
    /\ cached' = <<batch.n, batch.seg>>
    /\ Step("input")

InitNew ==
    /\ pc = "init" /\ cached # <<batch.n, batch.seg>> /\ ~Reusable
    /\ SetRunner(InitEvents(NewRunner(batch.n, batch.seg)))
    /\ cached' = <<batch.n, batch.seg>>
    /\ Step("input")

\* init() throws: at the device memory, or at the events after it.  runner_ is
\* already the new runner, the remembered shape is still the old one.
InitThrows ==
    /\ pc = "init" /\ cached # <<batch.n, batch.seg>> /\ ~Reusable
    /\ \E r \in {InitHost(NewRunner(batch.n, batch.seg)), InitMemory(NewRunner(batch.n, batch.seg))} :
         SetRunner(r)
    /\ Throw(FALSE)

\* The keys' first blocks: into the host buffer, or the keys to the device.
HostInput ==
    /\ pc = "input" /\ ~gpu
    /\ Alloc([runner EXCEPT !.hostIn = batch.id], 0, 0)
    /\ Step("run") /\ UNCHANGED cached

KeyFrees == IF KeysGrow(runner) /\ runner.keys # 0 THEN 1 ELSE 0

\* A password count other than the runner's batch size is refused: the call
\* answers false and runBatch throws.
DeviceInput ==
    /\ pc = "input" /\ gpu /\ runner.n = batch.n
    /\ Alloc(PrepareInputBlocksOnDevice(runner, batch.id), KeyFrees, IF KeysGrow(runner) THEN 1 ELSE 0)
    /\ Step("run") /\ UNCHANGED cached

DeviceInputThrows ==
    /\ pc = "input" /\ gpu
    /\ \/ Alloc(KeysFreed(runner), KeyFrees, 0)
       \/ Alloc(KeysAllocated(runner), KeyFrees, IF KeysGrow(runner) THEN 1 ELSE 0)
    /\ Throw(runner.n # batch.n)

\* CudaBackend::run, with the events and the memory it needs.
Runnable == runner.events /\ runner.mem # 0

RefFrees == IF pre /\ ~RefsCurrent(runner) /\ runner.refs /\ ~RefsFreed(runner).refs THEN 1 ELSE 0
RefGains == IF pre /\ ~RefsCurrent(runner) THEN 1 ELSE 0

RunKernel ==
    /\ pc = "run" /\ Runnable
    /\ Alloc(Run(runner), RefFrees, RefGains)
    /\ Step("finish") /\ UNCHANGED cached

\* A call of run() throws (without an event to record, the first one does so
\* every time): before the flag comes down, at the table's memory
\* after the old table is freed, or at the kernel.
RunThrows ==
    /\ pc = "run"
    /\ \/ Alloc(runner, 0, 0)
       \/ pre /\ Runnable /\ ~RefsCurrent(runner) /\ Alloc(RefsFreed(Launched(runner)), RefFrees, 0)
       \/ Runnable /\ Alloc(EnsurePrecomputedRefs(Launched(runner)), RefFrees, RefGains)
    /\ Throw(~Runnable)

\* finish(): the stream drains, the hashes are finalised and matched.
Finish ==
    /\ pc = "finish"
    /\ pc' = "idle"
    /\ last' = "ok"
    /\ UNCHANGED <<client, open, shape, gpu, pre, cached, runner, live, batch, faults>>

FinishThrows ==
    /\ pc = "finish"
    /\ UNCHANGED <<runner, live>>
    /\ Throw(FALSE)

\* A benchmark or a self-test is over.
Ended ==
    /\ pc = "idle" /\ client # "lane"
    /\ client = "bench" => ~open
    /\ UNCHANGED vars

Work == Begin \/ InitCached \/ InitReuse \/ InitNew \/ HostInput \/ DeviceInput
        \/ RunKernel \/ Finish

Fault == InitThrows \/ DeviceInputThrows \/ RunThrows \/ FinishThrows

Next == NewUnit \/ Work \/ Fault \/ Ended

\* A lane's thread runs on, and rebuilds its unit after a failure.
Spec == Init /\ [][Next]_vars /\ WF_vars(Work \/ Fault) /\ WF_vars(~open /\ NewUnit)

-----------------------------------------------------------------------------
\* The buffers runBatch is about to fill, run and read were allocated for a
\* batch of this size: indexing them by job stays inside them
\* (getInputMemory, copyInputBlocks, copyOutputBlocks), although the shape
\* remembered and the runner are two objects updated apart.
BuffersFit ==
    pc \in {"input", "run", "finish"} =>
        /\ runner # NoRunner
        /\ <<runner.n, runner.seg>> = <<batch.n, batch.seg>>
        /\ runner.hostCap >= batch.n
        /\ runner.mem >= batch.n * batch.seg /\ runner.events

\* The hashes finalised are those of this batch's keys, filled at this
\* batch's segment size, by no table or by that size's table: nothing of an
\* earlier or a failed batch is used.
OutputOfThisBatch ==
    pc = "finish" =>
        /\ runner.out[1] = batch.id
        /\ runner.out[2] = batch.seg
        /\ runner.out[3] = IF pre THEN batch.seg ELSE 0

\* Every device allocation alive is one a pointer of the lane's runner holds:
\* no failed call, rebuild or change of shape leaks device memory.
DeviceMemoryOwned == live = Owned(runner)

\* A lane recovers: calls that stop failing by themselves are enough for a
\* batch to complete again after a failed one.
LaneRecovers == (client = "lane" /\ last = "failed") ~> last = "ok"

\* Whatever calls fail and whatever shapes follow each other, a batch runs on
\* buffers of its size, reads its own output and leaks no device memory.
RunnerInvariant == TypeOK /\ BuffersFit /\ OutputOfThisBatch /\ DeviceMemoryOwned
=============================================================================
