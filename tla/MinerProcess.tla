---------------------------- MODULE MinerProcess ----------------------------
(***************************************************************************)
(* The miner as a process: the monitor that launches it again and again    *)
(* (ProcessMonitor.cpp and the head of main), what main tests and starts,  *)
(* in which order, and how it takes everything down (main.cpp). The parts  *)
(* it starts have modules of their own; here each is a thread that now and *)
(* then uses the objects main owns, looking them up first and using them   *)
(* later.                                                                  *)
(***************************************************************************)
EXTENDS Integers, Sequences

CONSTANTS
  Devices,        \* the cards asked for
  Builds,         \* how the miner may be built and configured
  Kernels,        \* what a card may compute rightly
  MaxLaunches     \* 42069

AllBuilds == [first : BOOLEAN, warps : BOOLEAN, platform : BOOLEAN, cpu : BOOLEAN]
AllKernels == SUBSET {"argon2", "first", "packed"}

ASSUME ProcessAssumption ==
  MaxLaunches \in Nat \ {0} /\ Builds \subseteq AllBuilds /\ Kernels \subseteq AllKernels

Threads == {"drain", "poller", "cpu", "lane", "server"}
BySignal == 256
Objects == {"journal", "manager", "platform"}

VARIABLES
  monitor, launches,    \* main without --execute
  mainAt, step,         \* main with it; the next of ShutdownSteps
  code,                 \* how it ended: an exit status, or BySignal
  build,                \* [first: kGpuFirstBlocksEnabled, warps: globalWarpsPerBlock > 1,
                        \*  platform: globalPlatformMode, cpu: CPU workers are asked for]
  kernel,               \* of each card, what it computes rightly: "argon2" from first blocks
                        \* of the CPU, "first" blocks, "packed" warps
  left, used, verified, \* cards to test, cards to mine on, gpuFirstBlocksVerifiedByDevice
  mainRunning, fatalFlag, \* running, globalFatalDurabilityFailure
  alive,                \* objects that exist
  routes,               \* s_journal and s_submission_manager are set
  threads, asked,       \* threads there are, and those told to stop
  hold,                 \* of each thread: what it has looked up and is about to use
  misuse,               \* history: threads that found gone, at the end of a process, what they
                        \* had looked up
  withdrawn,            \* history: the platform manager did not start and was destroyed
  signalled             \* history: the operator has stopped this process

monitorVars == <<monitor, launches>>
testVars == <<left, used, verified>>
lifeVars == <<alive, routes, threads, asked, withdrawn>>
signalVars == <<mainRunning, fatalFlag, signalled>>
processVars == <<monitorVars, mainAt, step, code, build, kernel, testVars, lifeVars, signalVars, hold, misuse>>

Up == mainAt \notin {"none", "exited"}
\* Threads whose objects have to outlive them.
Owed == {"lane", "cpu", "drain"}

(***************************************************************************)
(* The monitor.                                                            *)
(***************************************************************************)
\* Broken monitorProcess: every end of the child is a reason to restart.
MonitorVerdictRestart(c) == -1

MonitorVerdict(c) == IF c = 0 THEN 0 ELSE -1

\* A process begins with nothing.
Fresh ==
  /\ step' = 1 /\ code' = BySignal
  /\ left' = Devices /\ used' = {} /\ verified' = [d \in {} |-> FALSE]
  /\ mainRunning' = TRUE /\ fatalFlag' = FALSE /\ signalled' = FALSE
  /\ alive' = {} /\ routes' = FALSE /\ threads' = {} /\ asked' = {}
  /\ hold' = [t \in Threads |-> {}] /\ withdrawn' = FALSE /\ misuse' = {}

Launch ==
  /\ monitor = "launch" /\ monitor' = "wait" /\ launches' = launches + 1
  /\ mainAt' = "params" /\ Fresh
  /\ UNCHANGED <<build, kernel>>

ForkFails ==
  /\ monitor = "launch" /\ monitor' = "ended" /\ mainAt' = "none"
  /\ UNCHANGED <<launches, step, code, build, kernel, testVars, lifeVars, signalVars, hold, misuse>>

\* Broken: the count is only looked at once it is exceeded.
ReapOneMore ==
  /\ monitor = "wait" /\ mainAt = "exited"
  /\ monitor' = IF MonitorVerdict(code) >= 0 \/ launches > MaxLaunches THEN "ended" ELSE "launch"
  /\ UNCHANGED <<launches, mainAt, step, code, build, kernel, testVars, lifeVars, signalVars, hold, misuse>>

Reap ==
  /\ monitor = "wait" /\ mainAt = "exited"
  /\ monitor' = IF MonitorVerdict(code) >= 0 \/ launches = MaxLaunches THEN "ended" ELSE "launch"
  /\ UNCHANGED <<launches, mainAt, step, code, build, kernel, testVars, lifeVars, signalVars, hold, misuse>>

(***************************************************************************)
(* main: the tests.                                                        *)
(***************************************************************************)
Exits(c) == mainAt' = "exited" /\ code' = c

\* Options: help ends with 0, a wrong one, or no GPU, with -1 (status 255).
Params ==
  /\ mainAt = "params"
  /\ \/ mainAt' = "probe" /\ UNCHANGED code
     \/ \E c \in {0, 255} : Exits(c)
  /\ UNCHANGED <<monitorVars, step, build, kernel, testVars, lifeVars, signalVars, hold, misuse>>

\* runCpuCudaSelfTest and runWarpsPerBlockGolden: the card agrees with the CPU.
SelfTest(d, firstBlocks) == "argon2" \in kernel[d] /\ (firstBlocks => "first" \in kernel[d])
Golden(d) == build.warps => "packed" \in kernel[d]

\* Broken: the second probe is only printed, the build decides.
VerdictPrinted(d) == IF build.first THEN TRUE ELSE SelfTest(d, FALSE)

Verdict(d) == IF build.first THEN TRUE ELSE SelfTest(d, TRUE)

\* A card that disagrees, or whose test throws, is left out.
ProbeDevice(d) ==
  /\ mainAt = "probe" /\ d \in left /\ left' = left \ {d}
  /\ \/ /\ SelfTest(d, build.first) /\ Golden(d)
        /\ used' = used \cup {d}
        /\ verified' = [e \in DOMAIN verified \cup {d} |-> IF e = d THEN Verdict(d) ELSE verified[e]]
     \/ UNCHANGED <<used, verified>>
  /\ UNCHANGED <<monitorVars, mainAt, step, code, build, kernel, lifeVars, signalVars, hold, misuse>>

GpuFirstBlocksVerified(d) == IF d \in DOMAIN verified THEN verified[d] ELSE build.first

Probed ==
  /\ mainAt = "probe" /\ left = {}
  /\ IF used = {} THEN Exits(1) ELSE mainAt' = "journal" /\ UNCHANGED code
  /\ UNCHANGED <<monitorVars, step, build, kernel, testVars, lifeVars, signalVars, hold, misuse>>

(***************************************************************************)
(* main: what it starts.                                                   *)
(***************************************************************************)
OpenJournal ==
  /\ mainAt = "journal"
  /\ \/ /\ mainAt' = "poller" /\ UNCHANGED code
        /\ alive' = {"journal", "manager"} /\ threads' = {"drain"}
     \/ Exits(255) /\ UNCHANGED <<alive, threads>>
  /\ UNCHANGED <<monitorVars, step, build, kernel, testVars, routes, asked, signalVars, hold, withdrawn, misuse>>

Started(p, t) ==
  /\ mainAt' = p /\ threads' = threads \cup t
  /\ UNCHANGED <<monitorVars, step, code, build, kernel, testVars, alive, asked, signalVars, hold, withdrawn, misuse>>

StartPoller == mainAt = "poller" /\ Started("cpu", {"poller"}) /\ UNCHANGED routes
StartCpu == mainAt = "cpu" /\ Started("lanes", IF build.cpu THEN {"cpu"} ELSE {}) /\ UNCHANGED routes
StartLanes ==
  mainAt = "lanes" /\ Started(IF build.platform THEN "platform" ELSE "server", {"lane"}) /\ UNCHANGED routes

CreatePlatform ==
  /\ mainAt = "platform" /\ mainAt' = "connect" /\ alive' = alive \cup {"platform"}
  /\ UNCHANGED <<monitorVars, step, code, build, kernel, testVars, routes, threads, asked, signalVars,
                 hold, withdrawn, misuse>>

\* PlatformManager::start; when it fails the manager is destroyed.
StartPlatform ==
  /\ mainAt = "connect" /\ mainAt' = "server"
  /\ \/ UNCHANGED <<alive, withdrawn>>
     \/ alive' = alive \ {"platform"} /\ withdrawn' = TRUE
  /\ UNCHANGED <<monitorVars, step, code, build, kernel, testVars, routes, threads, asked, signalVars, hold, misuse>>

StartServer == mainAt = "server" /\ Started("serve", {"server"}) /\ routes' = TRUE

(***************************************************************************)
(* main: the end.                                                          *)
(***************************************************************************)
Do(what, who) == [do |-> what, who |-> who]

\* Broken: the platform manager goes before the lanes that report to it.
ShutdownStepsEarly ==
  <<Do("clear", "routes"), Do("ask", "server"), Do("join", "server"), Do("reset", "platform"),
    Do("ask", "cpu"), Do("join", "cpu"), Do("join", "lane"), Do("ask", "drain"), Do("join", "drain")>>

ShutdownSteps ==
  <<Do("clear", "routes"), Do("ask", "server"), Do("join", "server"),
    Do("ask", "cpu"), Do("join", "cpu"), Do("join", "lane"),
    Do("reset", "platform"), Do("ask", "drain"), Do("join", "drain")>>

Serve ==
  /\ mainAt = "serve" /\ ~mainRunning /\ mainAt' = "stop"
  /\ UNCHANGED <<monitorVars, step, code, build, kernel, testVars, lifeVars, signalVars, hold, misuse>>

ShutdownStep ==
  /\ mainAt = "stop" /\ step <= Len(ShutdownSteps) /\ step' = step + 1
  /\ LET s == ShutdownSteps[step]
     IN  /\ s.do = "join" => s.who \notin threads
         /\ routes' = (routes /\ s.do # "clear")
         /\ asked' = IF s.do = "ask" THEN asked \cup {s.who} ELSE asked
         /\ alive' = IF s.do = "reset" THEN alive \ {s.who} ELSE alive
  /\ UNCHANGED <<monitorVars, mainAt, code, build, kernel, testVars, threads, signalVars, hold, withdrawn, misuse>>

\* Broken: the end of a miner that cannot save its finds looks like any other.
ExitStatusZero == 0

ExitStatus == IF fatalFlag THEN 2 ELSE 0

\* main returns: its objects are destroyed, detached threads go on.
Return ==
  /\ mainAt = "stop" /\ step > Len(ShutdownSteps)
  /\ mainAt' = "destroyed" /\ code' = ExitStatus /\ alive' = {}
  /\ UNCHANGED <<monitorVars, step, build, kernel, testVars, routes, threads, asked, signalVars,
                 hold, withdrawn, misuse>>

ProcessGone ==
  /\ mainAt = "destroyed" /\ mainAt' = "exited"
  /\ threads' = {} /\ hold' = [t \in Threads |-> {}]
  /\ UNCHANGED <<monitorVars, step, code, build, kernel, testVars, alive, routes, asked, signalVars, withdrawn, misuse>>

\* Killed, or an exception nobody catches.
Killed ==
  /\ Up /\ Exits(BySignal)
  /\ threads' = {} /\ hold' = [t \in Threads |-> {}]
  /\ UNCHANGED <<monitorVars, step, build, kernel, testVars, alive, routes, asked, signalVars, withdrawn, misuse>>

\* interruptSignalHandler; installed with the options.
Signal ==
  /\ Up /\ mainAt # "params" /\ ~signalled /\ signalled' = TRUE /\ mainRunning' = FALSE
  /\ UNCHANGED <<monitorVars, mainAt, step, code, build, kernel, testVars, lifeVars, fatalFlag, hold, misuse>>

(***************************************************************************)
(* The threads.                                                            *)
(***************************************************************************)
\* What a find's callback, a request, a poll and a drain step look up.
LooksUp(t) ==
  CASE t \in {"lane", "cpu"} -> {"journal", "manager"} \cup (alive \cap {"platform"})
    [] t = "server" -> IF routes THEN {"journal", "manager"} ELSE {}
    [] t = "poller" -> {"manager"}
    [] t = "drain" -> {"journal"}

\* Requests go through the routes' pointers again when they use them.
InReach(t) == IF t = "server" /\ ~routes THEN {} ELSE alive

Begin(t) ==
  /\ t \in threads \ asked /\ hold[t] = {}
  /\ t # "drain" /\ t # "server" => mainRunning
  /\ LooksUp(t) # {}
  /\ hold' = [hold EXCEPT ![t] = LooksUp(t)]
  /\ UNCHANGED <<monitorVars, mainAt, step, code, build, kernel, testVars, lifeVars, signalVars, misuse>>

Finish(t) ==
  /\ t \in threads /\ hold[t] # {}
  /\ hold' = [hold EXCEPT ![t] = {}]
  /\ misuse' = IF t \notin Owed \/ withdrawn \/ hold[t] \subseteq InReach(t) THEN misuse
               ELSE misuse \cup {t}
  /\ UNCHANGED <<monitorVars, mainAt, step, code, build, kernel, testVars, lifeVars, signalVars>>

\* Neither the journal nor the fallback sink takes a find.
ThreadFatal(t) ==
  /\ t \in {"lane", "cpu", "drain"} /\ t \in threads /\ hold[t] # {}
  /\ fatalFlag' = TRUE /\ mainRunning' = FALSE
  /\ UNCHANGED <<monitorVars, mainAt, step, code, build, kernel, testVars, lifeVars, signalled, hold, misuse>>

EndThread(t) ==
  /\ t \in threads /\ hold[t] = {}
  /\ IF t \in {"lane", "poller"} THEN ~mainRunning ELSE t \in asked \/ (t = "cpu" /\ ~mainRunning)
  /\ threads' = threads \ {t}
  /\ UNCHANGED <<monitorVars, mainAt, step, code, build, kernel, testVars, alive, routes, asked,
                 signalVars, hold, withdrawn, misuse>>
-----------------------------------------------------------------------------
ProcessTypeOK ==
  /\ monitor \in {"launch", "wait", "ended"} /\ launches \in 0..MaxLaunches
  /\ mainAt \in {"none", "params", "probe", "journal", "poller", "cpu", "lanes", "platform", "connect",
             "server", "serve", "stop", "destroyed", "exited"}
  /\ step \in 1..(Len(ShutdownSteps) + 1)
  /\ code \in {0, 1, 2, 255, BySignal}
  /\ used \cup left \subseteq Devices /\ DOMAIN verified = used
  /\ alive \subseteq Objects /\ threads \subseteq Threads /\ asked \subseteq Threads
  /\ \A t \in Threads : hold[t] \subseteq Objects /\ (hold[t] # {} => t \in threads)

ProcessInit ==
  /\ monitor = "launch" /\ launches = 0 /\ mainAt = "none" /\ misuse = {}
  /\ build \in Builds /\ kernel \in [Devices -> Kernels]
  /\ step = 1 /\ code = BySignal
  /\ left = {} /\ used = {} /\ verified = [d \in {} |-> FALSE]
  /\ mainRunning = TRUE /\ fatalFlag = FALSE /\ signalled = FALSE
  /\ alive = {} /\ routes = FALSE /\ threads = {} /\ asked = {}
  /\ hold = [t \in Threads |-> {}] /\ withdrawn = FALSE

MonitorStep == Launch \/ Reap
MainStep ==
  \/ Params \/ Probed \/ OpenJournal \/ StartPoller \/ StartCpu \/ StartLanes \/ CreatePlatform
  \/ StartPlatform \/ StartServer \/ Serve \/ ShutdownStep \/ Return \/ ProcessGone
  \/ \E d \in Devices : ProbeDevice(d)

Ended == monitor = "ended" /\ UNCHANGED processVars

ProcessNext ==
  \/ MonitorStep \/ ForkFails \/ MainStep \/ Killed \/ Signal \/ Ended
  \/ \E t \in Threads : Begin(t) \/ Finish(t) \/ ThreadFatal(t) \/ EndThread(t)

\* Main and the monitor go on; a thread finishes what it does (its calls have
\* timeouts) and sees the flag it polls.
ProcessSpec ==
  /\ ProcessInit /\ [][ProcessNext]_processVars
  /\ WF_processVars(MonitorStep) /\ WF_processVars(MainStep)
  /\ \A t \in Threads : WF_processVars(Finish(t)) /\ WF_processVars(EndThread(t))
-----------------------------------------------------------------------------
\* A card that mines computes what the CPU would, on the very path it mines
\* with: its first blocks where they are made, its warps as they are packed.
MinesRight ==
  "lane" \in threads =>
    \A d \in used :
      /\ "argon2" \in kernel[d]
      /\ GpuFirstBlocksVerified(d) => "first" \in kernel[d]
      /\ build.warps => "packed" \in kernel[d]

\* However late their last find or step is, nothing is taken down under the
\* lanes, the CPU miner or the drain thread (a platform manager that failed to
\* start, and is withdrawn while lanes run, aside).
ShutdownSafe == misuse = {}

\* "exiting nonzero for supervisor restart": a miner that could not save a find
\* is launched again, as long as the monitor launches at all.
FatalRestarted ==
  fatalFlag /\ launches < MaxLaunches ~> (mainAt = "params" \/ mainAt = "none" \/ launches = MaxLaunches)

\* An operator's stop of a miner that has come up ends it and its monitor,
\* unless the process is killed or fails while it stops.
StopEnds ==
  (signalled /\ mainAt = "serve") ~> (monitor = "ended" \/ fatalFlag \/ (code = BySignal /\ mainAt = "exited"))

\* Main mines on what its tests have verified and takes nothing down that is
\* still in use.
ProcessInvariant == ProcessTypeOK /\ MinesRight /\ ShutdownSafe

\* The monitor tells the ends of the miner apart: a stop is an end, a failure
\* to save a find is not.
MonitorObeys == StopEnds /\ FatalRestarted
=============================================================================
