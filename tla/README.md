# A verification of TreeMiner

TreeMiner mines for finds (XEN11 and XUNI hashes) and owes each of them to a
server that is often down, moves its difficulty, accepts XUNIs only between
:55 and :05, and answers 200 for inserts that failed. The program's promise is
that a find, once made, is durable before anything else happens to it and
reaches the server or a recorded end whatever fails on the way. That promise
is the core of this project; around it stand the parts that make the finds
(hashing stack, lanes, CPU workers, difficulty and margin), the process they
live in, and the marketplace that rents the miner out. They are modelled in
TLA+, checked with TLC and, where it can be, proved with TLAPS.

All paths below are relative to `src/treeminer/`.

## Inventory

| Component | State | Operations | Talks to | What is hard |
|---|---|---|---|---|
| Find capture: `src/main.cpp` (submit callback, startup, shutdown), `src/MineUnit.cpp`, `src/MiningCommon.cpp` | `running`, fatal latch, batch of matches per lane | a match is journaled, or sunk, or the process is declared fatally broken | journal, sink, platform client | several lanes, crash between any two steps, both durability paths failing |
| Fallback sink: `src/journal/FallbackSink.cpp` | a JSONL file | `append` (open, write, fsync), `importInto` | journal | short writes, torn tails, interrupted and repeated imports |
| Find journal: `src/journal/FindJournal.cpp` | a SQLite row per find: status, attempts, next attempt, windows tried | `append`, fetches, `recordAttempt`, two kinds of unpark, recovery | everything | writes by three threads, updates that do not test the status |
| Submission manager: `src/submit/SubmissionManager.cpp` | breaker, pacing, last difficulty and trend, last window state, outage clock | `runStep_` (probe, submit, confirm), `observeDifficulty`, `updateMargin_`, fatal stop | journal, breaker, scheduler, transport | lost and lying answers, the poller thread, restarts, window edges |
| Circuit breaker: `src/submit/CircuitBreaker.cpp` | state, failure count, probe interval and deadline, admission latch, XUNI pressure | probe, admit and outcome methods | its owner | losing the single admission, waits beyond the cap |
| Drain scheduler: `src/submit/DrainScheduler.cpp` | rate | selection, rate changes | its owner | starvation |
| Response classifier: `src/submit/ResponseClassifier.cpp` | none | response to next status | submission manager | a wrong class loses or fakes a find |
| Margin policy: `src/submit/MarginPolicy.cpp` | none | headroom from outage and backlog | submission manager, lanes | clocks that restart, rows that never leave |
| Difficulty poller: `src/DifficultyManager.cpp` | current difficulty, cache file, failure count and flag | `updateDifficulty`, seed at start | server, `observeDifficulty` | cache replaced in three steps, crash between them |
| Mining lanes: `src/main.cpp` (`runMiningOnDevice`), `src/MineUnit.cpp`, `src/hashapi/HashApiTuning.cpp` | cost, batch size, pool, fee counter per lane | size, check, mine, rebuild | difficulty, margin, identity | two atomics read apart, lanes sizing at once, counters that restart |
| Matches to reports: `src/hashapi/HashApiMatching.cpp`, `submitMatches` | attempts since the last find | match, report, count | lanes, CPU workers, capture | chunks, two matches of one hash |
| Hashing stack: `src/hashapi/CudaHashBackend.cpp`, `src/CudaBackend.cpp`, `KernelRunner` in `src/kernelrunner.cu` | remembered shape, runner, buffers, device memory, flags | init, reuse, input, run, finish, release; first-block threads | CUDA | any call may throw and leave three objects out of step |
| Hash algorithm: `src/kernelrunner.cu`, `src/argon2params.cpp`, `src/blake2b.cpp`, `src/hashapi/IndexedRefTable.cpp` | the blocks of an Argon2 instance | prehash, long digest, fill, references | | two implementations that must agree; every boundary |
| CPU workers: `src/CpuMiningWorker.cpp` | threads, flags, last error | start, stop, join, loop, gate | capture, difficulty | failing halfway through start, early ends, stale reads |
| Process: `src/ProcessMonitor.cpp`, `src/main.cpp` | launches, threads, main's objects, exit status | launch, probe, start, serve, shut down | everything | what is taken down under whom; who is launched again |
| Platform client: `src/PlatformManager.cpp`, `LeaseManager`, `MiningCoordinator`, `MqttClient`, `WorkerReporter` | connection state, lease, mining context, command queue | register, assign, release, control, watchdog, start, stop, block reports | marketplace server, lanes | four threads over three locks, repeated messages |
| Command envelope: `src/platform/CommandEnvelope.cpp` | bounded nonce cache | sign, verify | platform client | expiry against eviction, repeated delivery |
| Marketplace: `server/` (matcher, settlement, watcher, broker, storage) | accounts, leases, worker states, one connection | rent, stop, expire, settle | platform client | a transaction that belongs to whoever commits first, an unlocked sweep |
| Others | | | | HTTP, configuration, web pages, terminal, reporting, the Rust port: see PROJECT.json |

The correctness properties of each component are the ones its runs check,
below. PROJECT.json lists the hazards they are aimed at, at their lines.

## Modules

* `CircuitBreaker` -- the breaker as operators on a record, one per method.
  Deadlines are kept as time left, so the clock is unbounded.
  `BreakerDriver` calls the operators in every order a correct owner can and
  keeps one history variable, the run of consecutive failures.
* `FindJournal` -- the table as a function from finds to rows, one operator
  per SQL statement. Finds are row ids; payloads are constants because no
  statement changes them.
* `ResponseClassifier`, `DrainScheduler` -- the pure parts. The scheduler's
  loop is stated as what it selects: the first in its order.
* `SubmissionManager` -- composes the four. One action per stretch of
  `runStep_` between two points where another thread, the server or the clock
  can interfere: lock releases, round trips, journal transactions. `pc` names
  those points. The poller is three actions (read, observe, unpark), so its
  release of parked rows can come at any moment. Faults happen while `calm` is
  false: lost requests, lost answers, answers from `VerifyFaults` and
  `LookupFaults`, a journal error or a crash (`Halt`, then `Restart`). The
  server itself is external, modelled after what the client code and the mock
  server in `tests/mockserver` tell about it.
* `FindLifecycle` -- the abstract specification: a find is absent, owed, acked
  or closed; ends are final; acked implies stored; only owed finds are stored.
  `SubmissionManager` implements it under
  `fstate[f] <- AbstractState(rows[f].status)`.
* `FindCapture` -- lanes, submit callback, sink file and its import, fatal
  latch, exit and crash. The file is the sequence of what each `write`
  appended; a line parses only if it is exactly one record.
* `MatchReports` -- a batch on either path: hashes with the patterns they
  match, finalised in chunks on the GPU, one by one on the CPU; the matches'
  indexes and the attempts reported with each find.
* `MarginRamp` -- extends `CircuitBreaker`: `updateMargin_` and
  `computeMargin` around the breaker the submission thread drives. Clocks are
  ages in units far longer than a step.
* `DifficultyCache` -- the poller, the three steps in which the cache file is
  replaced (write, remove, rename), hints from the submission thread, crash
  and start between any two steps.
* `MiningLanes` -- the lanes of one card. Difficulty and margin are read in
  two steps; `lane[l].low` remembers the least difficulty since the lane last
  looked.
* `HashRunner` -- three objects of a lane as records. A buffer's content is
  the number of the batch that wrote it; each CUDA call may fail, and the
  objects are then as the statements before it left them.
* `FirstBlockWorkers` -- the threads that fill first blocks: static ranges, or
  chunks from a shared counter with one step for the fetch-and-add.
* `FirstBlockHash`, `WarpShuffle`, `KernelFill` -- the algorithm with its
  arithmetic left uninterpreted: which bytes enter which Blake2b block, which
  word is where in the warp, which block refers to which. Sizes are small
  parameters, except in `WarpShuffle`, which has the real 32 threads and 128
  words.
* `CpuWorkers` -- owner and worker threads of the CPU miner, one step per
  atomic load or store.
* `MinerProcess` -- monitor, start, threads and shutdown. The parts main
  starts are threads that look an object up in one step and use it in a later
  one; `misuse` records the threads that used something gone.
* `CommandEnvelope`, `CommandReplay` -- verification and nonce cache as
  operators; deliveries in any order and number, the clock, restarts.
* `PlatformClient` -- four threads (broker, dispatch, watchdog, main) and the
  lanes. A handler is the list of its steps between lock releases (`todo`).
  `auth` of a command is what `CommandEnvelope` answers.
* `Marketplace` -- coroutines of the server over ONE database connection:
  `view` is what the connection sees, `disk` what is committed, and any task's
  commit or rollback applies to all that was written since the last one. The
  unique index on active leases refuses the insert of a worker's second one
  (`IndexAllows`, `InsertFails`). `overlap` is a history variable: a settlement
  began while another was under way, as a stop and the watchdog's round may.
* `LeaseBook` -- the abstract specification of what the server keeps about
  leases: opened, active, ended, in this order, each seen on disk, with the
  worker kept; charges are never taken back, and while no two settlements have
  overlapped (`alone`) a lease is charged once, after its end was on disk.
  `Marketplace` implements it under `state <- disk.state`,
  `host <- disk.host`, `charges <- disk.charges`, `alone <- ~overlap`. It says nothing of `view`,
  so a commit may carry what several tasks wrote, and a kill is a stutter.
* `FeedbackProofs`, `SubmissionProofs`, `CaptureProofs`, `MiningProofs`,
  `HashingProofs`, `ProcessProofs`, `ClientProofs`, `MarketProofs` -- the
  theorems.
* `MC*` -- instances. `MCMiner` (server health and hashing), `MCProcess`
  (process and capture), `MCMining` and `MCPlatform` each check a group of
  components that share no variable; for that, names are distinct across the
  modules of a group. Their variable
  `part`, chosen in the initial state, names the component that takes steps;
  the others rest in one of their initial states. A run is thus the union of
  the components' own state spaces, not their product, and each component has
  the fairness of its own specification. In the same way `limit`
  (`FindCapture`), `opt` (`MiningLanes`), `setup` (`PlatformClient`) and
  `scene` (`Marketplace`) choose one of several configurations at the start.

Definitions whose comment starts with "Broken" are deliberate mistakes. They
are used by nothing; the mutants in PROJECT.json put one of them in the place
of the definition after it, and the property named there must then fail.

## Runs

| Run | Shows |
|---|---|
| `miner` | Server health. `BreakerInvariant`: single admission (never two, never none), honest failure counting, bounded probe waits; `ClosesOnlyOnSuccess`, `OutageEnds`. Intervals 2, 4, 7 make the cap a value that doubling does not hit; the XUNI cap 3 lies between. `MarginInvariant`: the headroom keeps pace with an outage and ends with it; `HealthyIsFree`. `PollerInvariant`: four answers (usable, zero, too large), two kills, outages longer than the threshold, and the cache is whole, the flag exact, the seed usable; `DownClears`. Hashing. `RunnerInvariant`: three shapes (reuse, shrink, rebuild), three failing calls, and buffers fit, output is the batch's own, no device memory leaks; `LaneRecovers`. `WorkersInvariant`: up to five blocks, uneven ranges, more threads than blocks, chunks of one, two and more than all. `DigestInvariant`: block sizes on both sides of every piece's length, lengths on both sides of every boundary, a counter that wraps. `KernelInvariant`: a word of 16 and address blocks of two, so that references reach both ends of their area. `WarpInvariant`: the warp as it is. |
| `submission_xen11` | One XEN11 with m = 2 and difficulties 1, 2, 3: above, at and below the find. Threshold 2, two backoff steps, Retry-After below and above the cap. `OwnRowStable`, `AckedStored`, `ImplementsLifecycle`. |
| `submission_live` | A XUNI ahead of a XEN11, a fetch limit of one, a window of two ticks in an hour of four, a budget of two windows, answers about the window that contradict the miner's clock: `IdleOnlyWhenNothingDue`, `DeadOnlyExhausted`, `AdmissionHeld`, `TypeOK`, and `EveryFindSettles` once faults cease. |
| `mining` | `LanesInvariant`, `LanesFollow`: two lanes on a card that holds a few attempts, all live or one of them locked, with changes of difficulty, margin or identity. `CpuInvariant`, `CpuProgress`: two CPU workers, two starts, difficulties below the minimum, below and above the ceiling. `ReportsInvariant`: batches of two and three attempts in chunks of two, every pattern of matches. |
| `process` | Two launches; a good card and one of any kind under every build, or everything configured: `ProcessInvariant` (`MinesRight`, `ShutdownSafe`), `MonitorObeys` (a stop ends, a fatal failure is launched again). Capture: two lanes, three finds, one crash; batches of two with two short writes and three refused calls, or single finds with six refused calls, enough for both lanes to lose a find and a third one to be at stake. `CaptureInvariant` (`LossBounded`, `DropsBounded`), `ImportNeverRevives`, `FatalRestarts`. |
| `platform` | Client, `Unsigned`: all commands, three of them in any order, a queue of one, one loss of the broker: `ClientInvariant`, `ClientProgress`. `Signed`: expiring leases and a shutdown: `ShutdownCompletes`. `Controlled`: three of assignments, releases, pause and resume around the watchdog's rounds. `WatchdogEndsLeases` is about all three: nothing stays in MINING that the watchdog should have ended, and under `Signed` every expired lease ends. Envelopes: lifetimes of at most two seconds, a skew of one, a cache of two, one forged copy: `ReplayInvariant`, `ForgetsOnlyUnderLoad`. Server, in four scenes below: `MarketInvariant` (`OneLeasePerWorker`, `ChargedOnce`, `MoneyKept`), `ImplementsBook`, `ExpiredEnds`. |

A property named `...Invariant`, `...Progress` or `MonitorObeys` is the
conjunction of a component's type invariant and of the named parts stated
before it in the module. For each part PROJECT.json has a mutant that the
conjunction must catch.

Six runs check sentences of the documentation and the schema that the code
does not keep, each with its counterexample (PROJECT.json, "findings"):

* `submission_park` -- a find pre-parked from a stale difficulty is not
  released "the moment the floor falls to m". It takes two threads and no
  fault, and lasts until the difficulty falls again.
* `capture_torn` -- a record appended behind a torn tail is lost with it,
  though it was reported. It needs a torn tail that survives a start, because
  the rename failed or the journal refused a record.
* `platform_ack` -- an acknowledgement of the registration that arrives late
  or twice makes a leased worker AVAILABLE. The watchdog looks at leases in
  MINING only, so the lease is not ended.
* `replay_end` -- a command that is delivered again in the second in which it
  ends is accepted again: `verifyEnvelope` rejects it from the next second on,
  but its nonce is purged in this one.
* `market_partial` -- another task's commit, or the rollback of a settlement
  whose BEGIN failed, cuts a settlement in two.
* `market_twice` -- `/api/stop` and the watchdog's round over the same lease
  both settle it. Each charges the consumer and commits; only the second record
  of the settlement is refused.

The passing runs state what holds next to these. `OnceUntilExpiry` is about
the time before a command's last second. `ChargedOnce` and `MoneyKept` hold
until one settlement begins while another is under way, which the server does
not prevent: that is `market_twice`; `OneLeasePerWorker` has no such condition,
because the database's index is behind it. `ClientInvariant` speaks of the
threads left by a stop of main alone. `WatchdogEndsLeases` promises the end of
every expired lease only where, of the commands, assignments alone move the
client's state.

What the code leaves open there: the watchdog looks at leases in MINING only
(`src/PlatformManager.cpp:656`). A late `register_ack` moves a leased client
to AVAILABLE (`platform_ack`). A `pause` that comes after a lease's time is up
and before the watchdog's round finds no *active* lease to end (`:499`), goes
to IDLE, and the lanes keep mining for the lease, although
`proto/examples/control_pause.json:2` says "stops platform mining". A
`release` that meets the watchdog's own end of the lease can be followed by a
new assignment before the watchdog's last step, which then sets AVAILABLE over
MINING. In all three the lease stays, no watchdog ends it, and `startLease`
refuses the next one; TLC shows the last two when `ExpiredLeaseEnds` is asked
of `Controlled`.

Three theorems say that a finding has the cause given here and no other:
`SubmissionOverlooks`, `LossNeedsShortWrite` and `PartialNeedsAnother`, below.

Seen while modelling, and not the subject of a run: `setXuniPressure` and the
edge of a window are only looked at in `submitStep_`, so an OPEN breaker delays
both (`src/submit/SubmissionManager.cpp:631,662`), and a restart inside a
window counts an edge again; the outage clock restarts in HALF_OPEN
(`src/submit/SubmissionManager.cpp:412`); a crash between remove and rename
loses the cached difficulty (`src/DifficultyManager.cpp:39`); the CPU miner's
difficulty has no margin (`src/main.cpp:1299`), and its paused flag can outlive
its workers (`src/CpuMiningWorker.cpp:235`); a miner that failed to start is
launched again (`src/ProcessMonitor.cpp:77`); a web request can meet routes
that shutdown has cleared (`src/main.cpp:1417`), and a lane a platform manager
that failed to start (`src/main.cpp:1076`); the client's
watchdog tests and ends a lease under two locks (`src/PlatformManager.cpp:656`),
`stop()` notifies without the queue's lock (`:162`), and `startLease` refuses
while an expired lease is stored (`src/LeaseManager.cpp:13`); the server's
sweep does not look again at a lease that was stopped meanwhile
(`server/matcher.py:217`).

### Bounds

Attempts are counted up to `AttemptCap`, from where the backoff is at its cap
(an assumption TLC evaluates). Ticks are coarse: at least one iteration of the
250 ms loop ends between two ticks, and in `submission_live` the window and
the closed period each last two ticks, so that no iteration can overlook one
of them while the loop runs. One or two finds are enough because rows interact
only through selection, fetch limits and the breaker; the proofs cover any
number. `MaxFinds`, `MaxCrashes` and `Limits` bound
`FindCapture`; `LossBounded` and `DropsBounded` are stated relative to what
happened, and both bounds are met within them.

`MarginRamp`: ages stop at `MaxAge`, beyond the age at which the ramp meets
its cap. `DifficultyCache`: `MaxFailures` is one above the threshold, so the
count that no longer changes the flag is reached. `MiningLanes`: `MaxChanges`
changes of the settings are enough for a lane to read an old difficulty with a
new margin and to be told so while it rebuilds. `HashRunner`: batches are
numbered 1 to `Tags`, so three in a row differ; `MaxFaults` lets a unit, its
successor and the one after it fail. `CpuWorkers`: two workers are an early
and a late one; `MaxStarts` lets the first life's flags meet the second.
`MinerProcess`: `MaxLaunches` two processes, the first ending in every way.
`CommandReplay`: time runs to `MaxTime`, past the end of every command.
`PlatformClient`: three unsigned commands are more than the queue holds and
reach every state; two signed ones are an assignment and what comes after it.
The three of `Controlled` are an assignment, what ends it and what follows.
`Marketplace`: a scene names the tasks, the workers, the leases open at the
start, and which of the leases are rented, run out or are stopped. `SweepScene`:
one worker that reports its state, a lease that runs out and another rented,
a kill.
`TurnScene`: the first is stopped instead, so that stop and sweep settle one
after the other. `BothScene`: stop and sweep over one lease, a kill.
`CrossScene`: two workers with a lease each, one stopped and one run out, while
a third is rented: a rollback brings a lease back and the insert fails. The
balance pays for one lease and a half. `market_twice` is `BothScene`,
`market_partial` has all tasks and no kill.

### Fairness

`SubmissionManager`: the loop runs (`Thread`), a halted process is started
again (`Restart`, systemd `Restart=always` in `deploy/`), time passes
(`Tick`). Nothing is assumed of the poller, the miners, the server or the
faults; `EveryFindSettles` is conditional on faults ceasing and on finds no
difficulty can turn away. `BreakerDriver`: the clock and the polling owner.
`FindCapture`: startup proceeds, each lane finishes its callback, main exits
when it may; the supervisor restarts. `MarginRamp`: thread and clock.
`DifficultyCache`: the poller's steps, and strongly that a poll is answered
once in a while, which is what `DownClears` is conditional on. `MiningLanes`,
`HashRunner`, `CpuWorkers`: each thread's own steps (a lane's calls of CUDA
return, with a result or a failure), never the outside world's changes.
`MinerProcess`: monitor, main and the threads' current operations, not the
signal. `PlatformClient`: each thread's steps and the watchdog's rounds, not
arrivals, losses or expiry. `Marketplace`: each task's next statement and the
periodic sweep. The deadlock check is off where a run ends by itself, the
platform client stopped or the deliveries and rentals used up.

## Proofs

TLAPS proves, for all values of the constants that satisfy the named
assumptions (each is an `ASSUME` of the component's module, which TLC
evaluates for the instances), that a component keeps the invariant its run
checks. The pattern is the same everywhere: an inductive invariant, the initial
states satisfy it, every action keeps each of its conjuncts, and it implies
what the run checks. What follows is what each inductive invariant has to add.

* `FeedbackProofs`, breaker (`BreakerSound`, `BreakerClosesOnlyOnSuccess`):
  `IntervalSettled`, a HALF_OPEN breaker has an interval between base and cap,
  which a failed test submission then doubles. `ProbeBounded` rests on
  `DelayBound`, the arithmetic of the jitter.
* `FeedbackProofs`, margin (`MarginSound`): the headroom was right when it was
  last computed, so the invariant says how far an outage or a recovery can
  have come since (`PaceSinceEval`, `EndSinceEval`) and that the evaluation is
  never older than `EvalDelay` (`EvalFresh`). The outage clock starts a poll
  after the breaker opened (`OutageFollows`).
* `FeedbackProofs`, difficulty (`PollerSound`): what the poller holds between
  the steps of a replacement of the cache file.
* `SubmissionProofs`: `OwnRowStable` from `Ledger`, which adds types and
  `VerdictSound` (what a classification can be while it waits to be recorded).
  Its core is `RowEffects`: every step changes each row in one of five ways,
  each naming who does it. From that follow `AckedStored`,
  `DeadOnlyExhausted` (with `WindowedAreXuni`: only XUNIs meet the window
  rule) and the refinement `ImplementsLifecycle`, step by step: `/verify` is
  Store or a stutter, a window edge is Close of all that are buried at once, a
  recorded attempt is Ack, Close or a stutter. `AdmissionHeld` has an invariant
  of its own, `Door`: outside a submission in flight a HALF_OPEN breaker has
  its admission. `SubmissionTypeCorrect` needs the clock's and the breaker's
  bounds; `SubmissionIdleOnlyWhenNothingDue` is the action property that a loop
  going idle has passed over no row that was due, and needs that a finite set
  of due rows has a first one in the scheduler's order. `SubmissionOverlooks`
  goes with the finding `submission_park`: a parked find becomes `Overlooked`
  (the observed difficulty admits it) only by an observation whose own release
  is under way, or by `submitStep_` recording ParkedDifficulty for a difficulty
  that is no longer the observed one. `ParkedByFloor` adds that a verdict that
  parks came with a difficulty above the find's and is recorded next.
* `CaptureProofs` (`CaptureSafe`, `CaptureNeverRevives`, `LossNeedsShortWrite`): `LaneSound` (what a
  lane is about to report has been taken over by an fsync or a commit),
  `Imported` (what the import has passed is in the journal or cannot be read),
  `Accounted` (two finds for each short write, the one cut and the one glued to
  it: either lost with an archived file or still in front of the import) and
  `DropsHeld` (nothing is mined after a drop, so what was dropped and what the
  lanes hold is never more than a batch per lane). The counting is by
  cardinality of finite sets, for any number of lanes, finds and faults.
  `LossNeedsShortWrite` is the case of no short write: `TornCostsOne`, which
  `capture_torn` refutes, then holds through every crash, refusal and import.
* `MiningProofs`: `CpuWorkersSafe` (whoever leaves the loop was told to, or is
  the one who told the others), `LanesSafe` (a lane's batch fits its share,
  and the shares fit the card; its cost is no lower than the least difficulty
  since it looked, or is the locked one; the fees due are those of its
  counter) and `ReportsSafe` (each match
  of a batch is listed once, in order, and the attempts reported are those
  made since the last find, in chunks of any size).
* `HashingProofs`, runner (`RunnerSound`): a batch may skip the initialisation
  because a shape is remembered. `InStep` says that, while the backend has not
  reported a failure, that shape is the runner's and the runner is complete;
  `InputCurrent` that the flag for keys on the device is up between prepare and
  run only. `OwnedSum` counts device memory pointer by pointer.
* `HashingProofs`, first blocks (`WorkersSound`): the ranges taken are
  disjoint, and what is filled, what is taken and what is left add up to the
  batch, for any number of blocks and workers and any chunk size.
* `HashingProofs`, fill kernel (`KernelSound`): `WarpsSound` says which blocks
  of its hash each warp has written and which jobs the launch gave to whom,
  `WalkSound` where in its lane a walker stands and which address block it
  generated last, `TableSound` that the table made so far is that of the
  places passed. `RefInside` is the arithmetic of the reference: whatever the
  word, it lands in the area already written and not on the previous block.
* `HashingProofs`, first two blocks (`DigestSound`): while pieces are absorbed
  the hasher is exactly what the bytes so far determine (`HashedTo`: chain,
  counter with its carry, buffer), and these bytes with the pieces still to come
  are the message. `UpdateIs` is the core: one call of update(), of any length,
  keeps that, over the block it completes, the blocks it compresses straight
  from the input and the rest. `CpuMessage`, `GpuMessage` and `GeneralMessage`
  show that the three cuts are cuts of one message. `Expanding` says of the long
  digest that the half digests put out and what is left are the length asked
  for, with more than a half left, which fixes the number of rounds
  (`RoundsAre`). The one assumption on sizes is that a block is less than the
  counter's modulus, so that the carry is seen (128 and 2^64 in the code).
* `ProcessProofs` (`ProcessSafe`): `UsedRight` (a card is used after the tests
  of its build only), `StopOrder` (who is gone by which step of the shutdown),
  `HeldAlive` (a thread that has looked an object up finds it there when it
  uses it).
* `ClientProofs`, nonce cache (`ReplaySound`, `PushedOutUnderLoad`): the cache
  is ordered: entries are numbered as they were accepted, so the one pushed out
  is the oldest, and what stands behind a live one is bounded in age by the
  lifetime and the skew.
* `ClientProofs`, threads (`ClientSafe`): without a secret only main runs
  `stop()` (`MainAlone`): the programs of the other two threads are made of
  other steps, and they have one only while they are in their loop. `Stopping`
  says which step stands where, counted from the end of what main still has to
  do, and `Ended` what the others have come to by then: the watchdog, the
  dispatch thread, the connection, the state, in this order.
* `MarketProofs`, leases (`EndIsFinal`, `MarketSafe`): a task is the list of
  statements it still has to run, so the invariant is about lists. Every rest
  of a program is `WellFormed` (the lock is given back once, an end is
  committed by the next statement, a lease is inserted right after the look-up
  of its worker and charged once, and the statements of a settlement stand in
  their order, `InOrder`); `LeasesSound` relates view, disk and what
  the programs still hold, for any number of settling tasks: one lease per
  worker follows from the index and from what a commit or a rollback leaves.
  Until settlements overlap, one task at most has statements of a settlement
  left (`Alone`), and `SettledOnce` adds that a charge is for a lease whose end
  is committed and that charges still owed and charges made exclude each other.
  The assumptions are finitely many leases and tasks, `NoTask` not being one, and
  amounts in units of which the fee of a twentieth is a whole number.
* `MarketProofs`, money (`MarketSafe`, `QuietIsWhole`, `PartialNeedsAnother`):
  `MoneyKept` is not inductive, because it does not say how much of a settlement
  under way has been written. `Ledger` does: what the connection's balances lack
  is what the open settlement still has to pay out on top of a loss of at most a
  cost for each kill (`OpenBooks`), the disk lacks that loss and at most one
  cost more, and with no settlement open both lack the same (`ClosedBooks`). It needs the
  order of the statements: the fee comes after the payout, and the commit after
  the fee.
* `MarketProofs`, refinement (`MarketImplementsBook`): the disk changes only by
  taking over the whole view, so one commit carries whatever several tasks
  wrote. `OnDisk` bounds that: the disk is behind the view by insertions
  whose task holds the lock and commits next, and a lease that is due, or that
  some program is about to end, is already on disk. Hence no commit makes a lease
  appear on disk as ended, and none takes a charge back.

Facts about data that one would prove by induction are proved by the least
counterexample (`WFMin`, `SmallestNat`), which needs no operator parameter;
folds and recursive functions are used through a lemma that says they satisfy
their equation.

`BreakerSound`, `MarginSound`, `PollerSound`, `WorkersSound`, `RunnerSound`,
`KernelSound`, `DigestSound`, `ReplaySound`, `ClientSafe`, `CaptureSafe`, `CpuWorkersSafe`, `LanesSafe`,
`ReportsSafe`, `ProcessSafe` and `MarketSafe` state exactly the invariants the
runs check; PROJECT.json lists these and the others.

Only model-checked: every liveness property (out of the prover's reach) and
`WarpInvariant`, about 32 threads and 128 words of fixed size and
exclusive-or on thread numbers: it has no parameter, so the run is a complete
check of it.

## Further work

1. The client's lease against `LeaseBook`, over a broker that repeats and
   reorders. The counterexample of `platform_ack` is an obstacle: a client that
   has become AVAILABLE with its lease is not one that the book knows of.
2. Marketplace: block recording, watcher, deposits and withdrawals.
3. The Rust port against the same abstract specification as the C++ pipeline.

## Not modelled

Blake2b's and Argon2's arithmetic (uninterpreted; whether a hash is right is
what the startup tests decide), encodings, HTTP and MQTT libraries (I/O; their
outcomes are inputs), configuration parsing (gives the constants), web pages,
terminal and reporting (no state others rely on), the hash command line tool
(a front end to the backends), legacy submitters (unused), SQLite itself (a
committed transaction is durable). Left out of modelled components: metrics,
log lines and wake-ups of the submission loop (it polls anyway), the platform
client's heartbeat and spurious wake-ups, the difficulty history table
(written, never read back by the pipeline), and the failure to fsync the
sink's directory entry on its first creation, which the code documents as
tolerated; for the same reason a lane that reports between another's creation
of the file and its sync of the directory (`src/journal/FallbackSink.cpp:388`)
is not told apart. Also left out: a remove or rename of the difficulty cache
that fails (`src/DifficultyManager.cpp:39`: ignored, the old file or none is
left) and an observer that throws (`:123`: the value is applied, the write
skipped); the runner's fourth device buffer, for the salt, with its own
capacity (`src/kernelrunner.cu:1211`), and a copy of the reference table that
fails after its allocation (`:1026`); a system clock that steps back, which
makes an expired command valid after its nonce was purged. Of the marketplace: registration, deposits and withdrawals, block
recording, the chain watcher, pricing and authentication. Two
hazards are outside what a next-state relation can say: thread creation that
fails while other threads are joinable (`std::terminate`, which is a crash),
and the detached poller after main has returned.
