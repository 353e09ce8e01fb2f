---------------------------- MODULE ProcessProofs ----------------------------
(***************************************************************************)
(* Proofs about MinerProcess, for any cards, builds, kernels and number of *)
(* launches: main mines only on what it has verified and takes nothing     *)
(* down under the threads that still use it.                               *)
(***************************************************************************)
EXTENDS MinerProcess, TLAPS

(* Where main is between having the journal and returning.                  *)
HasJournal == {"poller", "cpu", "lanes", "platform", "connect", "server", "serve", "stop"}

(* Types; the monitor launches only while it may, and waits while a process *)
(* is up.                                                                   *)
Typed ==
  /\ ProcessTypeOK
  /\ monitor # "wait" => mainAt \in {"none", "exited"}
  /\ hold \in [Threads -> SUBSET Objects]
  /\ monitor = "launch" => launches < MaxLaunches

(* A card is used only after its tests, whoever looks.                      *)
UsedRight ==
  \A d \in used :
    /\ "argon2" \in kernel[d]
    /\ verified[d] => "first" \in kernel[d]
    /\ build.warps => "packed" \in kernel[d]

(* Who is gone by which of the shutdown steps.                              *)
StopOrder ==
  /\ mainAt \notin {"none", "stop", "destroyed", "exited"} => step = 1
  /\ mainAt = "stop" => /\ step > 5 => "cpu" \notin threads
                        /\ step > 6 => "lane" \notin threads
                        /\ step > 9 => "drain" \notin threads

(* Threads with objects to lose exist only while main has those objects,    *)
(* and hold nothing that is gone.                                           *)
HeldAlive ==
  /\ mainAt \in HasJournal => {"journal", "manager"} \subseteq alive
  /\ mainAt \notin HasJournal => threads \cap Owed = {}
  /\ mainAt \notin HasJournal \cup {"destroyed"} => threads = {}
  /\ hold["drain"] \subseteq {"journal"}
  /\ ~withdrawn => \A t \in Owed : hold[t] \subseteq alive

Inv == Typed /\ UsedRight /\ StopOrder /\ HeldAlive /\ ShutdownSafe

(* The shutdown has nine steps.                                             *)
LEMMA NineSteps ==
  /\ Len(ShutdownSteps) = 9
  /\ ShutdownSteps[1] = Do("clear", "routes") /\ ShutdownSteps[2] = Do("ask", "server")
  /\ ShutdownSteps[3] = Do("join", "server") /\ ShutdownSteps[4] = Do("ask", "cpu")
  /\ ShutdownSteps[5] = Do("join", "cpu") /\ ShutdownSteps[6] = Do("join", "lane")
  /\ ShutdownSteps[7] = Do("reset", "platform") /\ ShutdownSteps[8] = Do("ask", "drain")
  /\ ShutdownSteps[9] = Do("join", "drain")
BY DEF ShutdownSteps

(* The initial state.                                                       *)
LEMMA InitInv == ProcessInit => Inv
<1> SUFFICES ASSUME ProcessInit PROVE Inv
  OBVIOUS
<1>1. Typed
  BY ProcessAssumption, NineSteps DEF ProcessInit, Typed, ProcessTypeOK, BySignal
<1>2. UsedRight /\ StopOrder /\ HeldAlive /\ ShutdownSafe
  BY DEF ProcessInit, UsedRight, StopOrder, HeldAlive, ShutdownSafe, HasJournal, Owed, Threads
<1>3. QED
  BY <1>1, <1>2 DEF Inv

(* A step of the monitor, or of the time before main has the journal.       *)
LEMMA LaunchInv == Inv /\ Launch => Inv'
<1> SUFFICES ASSUME Inv, Launch PROVE Inv'
  OBVIOUS
<1>1. Typed'
  <2>1. launches' \in 0..MaxLaunches
    BY ProcessAssumption DEF Launch, Inv, Typed, ProcessTypeOK
  <2>2. QED
    BY <2>1, NineSteps DEF Launch, Fresh, Typed, ProcessTypeOK, BySignal
<1>2. UsedRight' /\ StopOrder' /\ HeldAlive' /\ ShutdownSafe'
  BY DEF Launch, Fresh, UsedRight, StopOrder, HeldAlive, ShutdownSafe, HasJournal, Owed, Threads
<1>3. QED
  BY <1>1, <1>2 DEF Inv

(* A failed fork and the end of a child keep the invariant.                 *)
LEMMA MonitorInv == Inv /\ (ForkFails \/ Reap) => Inv'
<1> SUFFICES ASSUME Inv, ForkFails \/ Reap PROVE Inv'
  OBVIOUS
<1> USE DEF testVars, lifeVars, signalVars
<1>1. Typed'
  BY ProcessAssumption DEF ForkFails, Reap, Inv, Typed, ProcessTypeOK
<1>2. UsedRight'
  BY DEF ForkFails, Reap, Inv, UsedRight
<1>3. StopOrder' /\ HeldAlive' /\ ShutdownSafe'
  BY DEF ForkFails, Reap, Inv, Typed, StopOrder, HeldAlive, ShutdownSafe, HasJournal
<1>4. QED
  BY <1>1, <1>2, <1>3 DEF Inv

(* Steps of main that only move it on, or out before anything is there.     *)
LEMMA ParamsInv == Inv /\ (Params \/ Probed \/ Serve) => Inv'
<1> SUFFICES ASSUME Inv, Params \/ Probed \/ Serve PROVE Inv'
  OBVIOUS
<1> USE DEF monitorVars, testVars, lifeVars, signalVars
<1>1. /\ UNCHANGED <<monitor, launches, step, build, kernel, left, used, verified, alive, threads, asked, withdrawn, hold, misuse>>
      /\ \/ mainAt = "params" /\ mainAt' \in {"probe", "exited"}
         \/ mainAt = "probe" /\ mainAt' \in {"journal", "exited"}
         \/ mainAt = "serve" /\ mainAt' = "stop"
      /\ code' \in {code, 0, 1, 255}
  BY DEF Params, Probed, Serve, Exits
<1>2. Typed'
  BY <1>1 DEF Inv, Typed, ProcessTypeOK
<1>3. UsedRight'
  BY <1>1 DEF Inv, UsedRight
<1>4. StopOrder' /\ HeldAlive' /\ ShutdownSafe'
  BY <1>1, NineSteps DEF Inv, StopOrder, HeldAlive, ShutdownSafe, HasJournal
<1>5. QED
  BY <1>2, <1>3, <1>4 DEF Inv

(* A card is added with the verdict of its own test.                        *)
LEMMA ProbeInv == ASSUME Inv, NEW d \in Devices, ProbeDevice(d) PROVE Inv'
<1> USE DEF monitorVars, lifeVars, signalVars
<1>1. /\ UNCHANGED <<monitor, launches, mainAt, step, code, build, kernel, alive, threads, asked, withdrawn, hold, misuse>>
      /\ left' = left \ {d}
  BY DEF ProbeDevice
<1>2. CASE UNCHANGED <<used, verified>>
  <2>1. Typed'
    BY <1>1, <1>2 DEF Inv, Typed, ProcessTypeOK
  <2>2. UsedRight' /\ StopOrder' /\ HeldAlive' /\ ShutdownSafe'
    BY <1>1, <1>2 DEF Inv, UsedRight, StopOrder, HeldAlive, ShutdownSafe
  <2>3. QED
    BY <2>1, <2>2 DEF Inv
<1>3. CASE /\ SelfTest(d, build.first) /\ Golden(d)
           /\ used' = used \cup {d}
           /\ verified' = [e \in DOMAIN verified \cup {d} |-> IF e = d THEN Verdict(d) ELSE verified[e]]
  <2>1. DOMAIN verified = used
    BY DEF Inv, Typed, ProcessTypeOK
  <2>2. Typed'
    BY <1>1, <1>3, <2>1 DEF Inv, Typed, ProcessTypeOK
  <2>3. UsedRight'
    <3> SUFFICES ASSUME NEW e \in used'
                 PROVE  /\ "argon2" \in kernel[e]
                        /\ verified'[e] => "first" \in kernel[e]
                        /\ build.warps => "packed" \in kernel[e]
      BY <1>1 DEF UsedRight
    <3>1. CASE e = d
      <4>1. verified'[d] = Verdict(d)
        BY <1>3
      <4>2. QED
        BY <1>3, <3>1, <4>1 DEF SelfTest, Golden, Verdict
    <3>2. CASE e # d
      <4>1. verified'[e] = verified[e] /\ e \in used
        BY <1>3, <2>1, <3>2
      <4>2. QED
        BY <4>1 DEF Inv, UsedRight
    <3>3. QED
      BY <3>1, <3>2
  <2>4. StopOrder' /\ HeldAlive' /\ ShutdownSafe'
    BY <1>1 DEF Inv, StopOrder, HeldAlive, ShutdownSafe
  <2>5. QED
    BY <2>2, <2>3, <2>4 DEF Inv
<1>4. QED
  BY <1>2, <1>3 DEF ProbeDevice

(* The journal and the manager come before the first thread.                *)
LEMMA OpenJournalInv == Inv /\ OpenJournal => Inv'
<1> SUFFICES ASSUME Inv, OpenJournal PROVE Inv'
  OBVIOUS
<1> USE DEF monitorVars, testVars, signalVars
<1>1. \A t \in Threads : hold[t] # {} => t \in threads
  BY DEF Inv, Typed, ProcessTypeOK
<1>2. threads = {} /\ mainAt = "journal"
  BY DEF Inv, HeldAlive, OpenJournal, HasJournal
<1>3. Typed'
  <2>1. UNCHANGED <<monitor, launches, step, left, used, verified, asked, hold>>
    BY DEF OpenJournal
  <2>2. /\ mainAt' \in {"poller", "exited"} /\ code' \in {code, 255}
        /\ alive' \in {alive, {"journal", "manager"}} /\ threads' \in {threads, {"drain"}}
    BY DEF OpenJournal, Exits
  <2>3. alive' \subseteq Objects /\ threads' \subseteq Threads /\ code' \in {0, 1, 2, 255, BySignal}
    BY <2>2 DEF Inv, Typed, ProcessTypeOK, Threads, Objects, Owed
  <2>4. monitor = "wait" /\ \A t \in Threads : hold[t] = {}
    BY <1>1, <1>2 DEF Inv, Typed
  <2>5. QED
    BY <2>1, <2>2, <2>3, <2>4 DEF Inv, Typed, ProcessTypeOK
<1>4. UsedRight'
  BY DEF OpenJournal, Inv, UsedRight
<1>5. StopOrder' /\ HeldAlive' /\ ShutdownSafe'
  <2>1. \A t \in Owed : hold[t] = {}
    BY <1>1, <1>2 DEF Owed, Threads
  <2>2. StopOrder' /\ ShutdownSafe'
    BY DEF OpenJournal, Exits, Inv, StopOrder, ShutdownSafe
  <2>3. HeldAlive'
    BY <1>2, <2>1 DEF OpenJournal, Exits, Inv, HeldAlive, HasJournal, Owed
  <2>4. QED
    BY <2>2, <2>3
<1>6. QED
  BY <1>3, <1>4, <1>5 DEF Inv

(* More threads, while the journal and the manager are there.               *)
LEMMA StartThreadsInv == Inv /\ (StartPoller \/ StartCpu \/ StartLanes \/ StartServer) => Inv'
<1> SUFFICES ASSUME Inv, StartPoller \/ StartCpu \/ StartLanes \/ StartServer PROVE Inv'
  OBVIOUS
<1> USE DEF monitorVars, testVars, signalVars
<1>1. /\ UNCHANGED <<monitor, launches, step, code, build, kernel, left, used, verified, alive, asked, withdrawn, hold, misuse>>
      /\ mainAt \in {"poller", "cpu", "lanes", "server"} /\ mainAt' \in {"cpu", "lanes", "platform", "server", "serve"}
      /\ threads \subseteq threads' /\ threads' \subseteq threads \cup Threads
  BY DEF StartPoller, StartCpu, StartLanes, StartServer, Started, Threads
<1>2. Typed'
  BY <1>1 DEF Inv, Typed, ProcessTypeOK
<1>3. UsedRight'
  BY <1>1 DEF Inv, UsedRight
<1>4. StopOrder' /\ HeldAlive' /\ ShutdownSafe'
  BY <1>1 DEF Inv, StopOrder, HeldAlive, ShutdownSafe, HasJournal
<1>5. QED
  BY <1>2, <1>3, <1>4 DEF Inv

(* The platform manager comes, and goes again when it does not start.       *)
LEMMA PlatformInv == Inv /\ (CreatePlatform \/ StartPlatform) => Inv'
<1> SUFFICES ASSUME Inv, CreatePlatform \/ StartPlatform PROVE Inv'
  OBVIOUS
<1> USE DEF monitorVars, testVars, signalVars
<1>1. /\ UNCHANGED <<monitor, launches, step, code, build, kernel, left, used, verified, threads, asked, hold, misuse>>
      /\ mainAt \in {"platform", "connect"} /\ mainAt' \in {"connect", "server"}
      /\ alive \ {"platform"} \subseteq alive' /\ alive' \subseteq alive \cup {"platform"}
      /\ ~withdrawn' => ~withdrawn /\ alive \subseteq alive'
  BY DEF CreatePlatform, StartPlatform
<1>2. Typed'
  BY <1>1 DEF Inv, Typed, ProcessTypeOK, Objects
<1>3. UsedRight'
  BY <1>1 DEF Inv, UsedRight
<1>4. StopOrder' /\ HeldAlive' /\ ShutdownSafe'
  BY <1>1 DEF Inv, StopOrder, HeldAlive, ShutdownSafe, HasJournal
<1>5. QED
  BY <1>2, <1>3, <1>4 DEF Inv

(* The shutdown: who uses the platform manager is joined before it goes.    *)
LEMMA ShutdownStepInv == Inv /\ ShutdownStep => Inv'
<1> SUFFICES ASSUME Inv, ShutdownStep PROVE Inv'
  OBVIOUS
<1> USE DEF monitorVars, testVars, signalVars
<1> DEFINE s == ShutdownSteps[step]
<1>1. /\ UNCHANGED <<monitor, launches, mainAt, code, build, kernel, left, used, verified, threads, withdrawn, hold, misuse>>
      /\ mainAt = "stop" /\ step' = step + 1 /\ step \in 1..9
  BY NineSteps DEF ShutdownStep, Inv, Typed, ProcessTypeOK
<1>2. /\ s.do = "join" => s.who \notin threads
      /\ asked' = IF s.do = "ask" THEN asked \cup {s.who} ELSE asked
      /\ alive' = IF s.do = "reset" THEN alive \ {s.who} ELSE alive
  BY DEF ShutdownStep
<1>3. /\ step = 5 => "cpu" \notin threads
      /\ step = 6 => "lane" \notin threads
      /\ step = 9 => "drain" \notin threads
      /\ step = 7 => alive' = alive \ {"platform"}
      /\ step # 7 => alive' = alive
      /\ asked' \subseteq asked \cup {"server", "cpu", "drain"}
  <2>1. step \in {1, 2, 3, 4, 5, 6, 7, 8, 9}
    BY <1>1
  <2>2. /\ step = 1 => s.do = "clear"
        /\ step = 2 => s.do = "ask" /\ s.who = "server"
        /\ step = 3 => s.do = "join"
        /\ step = 4 => s.do = "ask" /\ s.who = "cpu"
        /\ step = 5 => s.do = "join" /\ s.who = "cpu"
        /\ step = 6 => s.do = "join" /\ s.who = "lane"
        /\ step = 7 => s.do = "reset" /\ s.who = "platform"
        /\ step = 8 => s.do = "ask" /\ s.who = "drain"
        /\ step = 9 => s.do = "join" /\ s.who = "drain"
    BY NineSteps DEF Do
  <2> HIDE DEF s
  <2>3. QED
    BY <1>2, <2>1, <2>2
<1>4. Typed'
  BY <1>1, <1>3, NineSteps DEF Inv, Typed, ProcessTypeOK, Threads
<1>5. UsedRight' /\ ShutdownSafe'
  BY <1>1 DEF Inv, UsedRight, ShutdownSafe
<1>6. StopOrder'
  BY <1>1, <1>3 DEF Inv, StopOrder
<1>7. HeldAlive'
  <2>1. CASE step = 7
    <3>1. "cpu" \notin threads /\ "lane" \notin threads
      BY <1>1, <2>1 DEF Inv, StopOrder
    <3>2. hold["cpu"] = {} /\ hold["lane"] = {} /\ hold["drain"] \subseteq {"journal"}
      BY <3>1 DEF Inv, Typed, ProcessTypeOK, HeldAlive, Threads
    <3>3. {"journal", "manager"} \subseteq alive'
      BY <1>1, <1>3, <2>1 DEF Inv, HeldAlive, HasJournal
    <3>4. \A t \in Owed : hold[t] \subseteq alive'
      BY <3>2, <3>3 DEF Owed
    <3>5. QED
      BY <1>1, <3>2, <3>3, <3>4 DEF HeldAlive, HasJournal
  <2>2. CASE step # 7
    BY <1>1, <1>3, <2>2 DEF Inv, HeldAlive
  <2>3. QED
    BY <2>1, <2>2
<1>8. QED
  BY <1>4, <1>5, <1>6, <1>7 DEF Inv

(* main returns when nobody is left who could use its objects.              *)
LEMMA ReturnInv == Inv /\ Return => Inv'
<1> SUFFICES ASSUME Inv, Return PROVE Inv'
  OBVIOUS
<1> USE DEF monitorVars, testVars, signalVars
<1>1. /\ UNCHANGED <<monitor, launches, step, build, kernel, left, used, verified, threads, asked, withdrawn, hold, misuse>>
      /\ mainAt = "stop" /\ mainAt' = "destroyed" /\ alive' = {} /\ step > 9 /\ code' \in {0, 2} /\ step \in 1..10
  BY NineSteps DEF Return, ExitStatus, Inv, Typed, ProcessTypeOK
<1>2. threads \cap Owed = {}
  BY <1>1 DEF Inv, StopOrder, Owed
<1>3. \A t \in Owed : hold[t] = {}
  BY <1>2 DEF Inv, Typed, ProcessTypeOK, Owed, Threads
<1>4. Typed'
  BY <1>1 DEF Inv, Typed, ProcessTypeOK
<1>5. UsedRight' /\ StopOrder' /\ ShutdownSafe'
  BY <1>1 DEF Inv, UsedRight, StopOrder, ShutdownSafe
<1>6. HeldAlive'
  BY <1>1, <1>2, <1>3 DEF HeldAlive, HasJournal, Owed
<1>7. QED
  BY <1>4, <1>5, <1>6 DEF Inv

(* The end of the process, however it comes, ends its threads.              *)
LEMMA EndInv == Inv /\ (ProcessGone \/ Killed) => Inv'
<1> SUFFICES ASSUME Inv, ProcessGone \/ Killed PROVE Inv'
  OBVIOUS
<1> USE DEF monitorVars, testVars, signalVars
<1>1. /\ UNCHANGED <<monitor, launches, step, build, kernel, left, used, verified, alive, asked, withdrawn, misuse>>
      /\ mainAt' = "exited" /\ threads' = {} /\ hold' = [t \in Threads |-> {}] /\ code' \in {code, BySignal}
  BY DEF ProcessGone, Killed, Exits
<1>2. Typed'
  BY <1>1 DEF Inv, Typed, ProcessTypeOK
<1>3. UsedRight' /\ StopOrder' /\ ShutdownSafe'
  BY <1>1 DEF Inv, UsedRight, StopOrder, ShutdownSafe
<1>4. HeldAlive'
  BY <1>1 DEF HeldAlive, HasJournal, Owed, Threads
<1>5. QED
  BY <1>2, <1>3, <1>4 DEF Inv

(* Threads that have looked something up, use it, end.                      *)
LEMMA ThreadInv ==
  ASSUME Inv, NEW t \in Threads, Begin(t) \/ Finish(t) \/ ThreadFatal(t) \/ EndThread(t)
  PROVE  Inv'
<1> USE DEF monitorVars, testVars, lifeVars, signalVars
<1>0. UNCHANGED <<monitor, launches, mainAt, step, code, build, kernel, left, used, verified, alive, asked, withdrawn>>
  BY DEF Begin, Finish, ThreadFatal, EndThread
<1>a. UsedRight'
  BY <1>0 DEF Inv, UsedRight
<1>1. CASE Begin(t)
  <2>1. threads' = threads /\ misuse' = misuse /\ hold' = [hold EXCEPT ![t] = LooksUp(t)] /\ t \in threads
    BY <1>1 DEF Begin
  <2>2. /\ LooksUp(t) \subseteq Objects
        /\ t \in {"lane", "cpu"} => LooksUp(t) \subseteq {"journal", "manager"} \cup alive
        /\ t = "drain" => LooksUp(t) = {"journal"}
    BY DEF LooksUp, Threads, Objects
  <2>3. Typed'
    BY <1>0, <2>1, <2>2 DEF Inv, Typed, ProcessTypeOK
  <2>4. StopOrder' /\ ShutdownSafe'
    BY <1>0, <2>1 DEF Inv, StopOrder, ShutdownSafe
  <2>5. t \in Owed => LooksUp(t) \subseteq alive
    BY <2>1, <2>2 DEF Inv, HeldAlive, Owed
  <2>6. HeldAlive'
    BY <1>0, <2>1, <2>2, <2>5 DEF Inv, Typed, HeldAlive, Owed, Threads
  <2>7. QED
    BY <1>a, <2>3, <2>4, <2>6 DEF Inv
<1>2. CASE Finish(t)
  <2>1. threads' = threads /\ hold' = [hold EXCEPT ![t] = {}]
    BY <1>2 DEF Finish
  <2>2. misuse' = misuse
    <3>1. t \in Owed /\ ~withdrawn => hold[t] \subseteq alive /\ InReach(t) = alive
      BY DEF Inv, HeldAlive, Owed, InReach
    <3>2. QED
      BY <1>2, <3>1 DEF Finish
  <2>3. Typed'
    BY <1>0, <2>1 DEF Inv, Typed, ProcessTypeOK
  <2>4. StopOrder' /\ ShutdownSafe'
    BY <1>0, <2>1, <2>2 DEF Inv, StopOrder, ShutdownSafe
  <2>5. HeldAlive'
    BY <1>0, <2>1 DEF Inv, Typed, HeldAlive, Owed, Threads
  <2>6. QED
    BY <1>a, <2>3, <2>4, <2>5 DEF Inv
<1>3. CASE ThreadFatal(t)
  <2>1. UNCHANGED <<threads, hold, misuse>>
    BY <1>3 DEF ThreadFatal
  <2>2. QED
    BY <1>0, <1>a, <2>1 DEF Inv, Typed, ProcessTypeOK, StopOrder, HeldAlive, ShutdownSafe
<1>4. CASE EndThread(t)
  <2>1. threads' = threads \ {t} /\ hold' = hold /\ misuse' = misuse /\ hold[t] = {}
    BY <1>4 DEF EndThread
  <2>2. Typed'
    BY <1>0, <2>1 DEF Inv, Typed, ProcessTypeOK
  <2>3. StopOrder' /\ HeldAlive' /\ ShutdownSafe'
    BY <1>0, <2>1 DEF Inv, StopOrder, HeldAlive, ShutdownSafe
  <2>4. QED
    BY <1>a, <2>2, <2>3 DEF Inv
<1>5. QED
  BY <1>1, <1>2, <1>3, <1>4

(* Every step keeps the invariant.                                          *)
LEMMA NextInv == Inv /\ [ProcessNext]_processVars => Inv'
<1> SUFFICES ASSUME Inv, [ProcessNext]_processVars PROVE Inv'
  OBVIOUS
<1>1. CASE Signal \/ UNCHANGED processVars
  <2>1. UNCHANGED <<monitor, launches, mainAt, step, code, build, kernel, left, used, verified, alive, threads, asked, withdrawn, hold, misuse>>
    BY <1>1 DEF Signal, processVars, monitorVars, testVars, lifeVars
  <2>2. Typed' /\ UsedRight'
    BY <2>1 DEF Inv, Typed, ProcessTypeOK, UsedRight
  <2>3. StopOrder' /\ HeldAlive' /\ ShutdownSafe'
    BY <2>1 DEF Inv, StopOrder, HeldAlive, ShutdownSafe
  <2>4. QED
    BY <2>2, <2>3 DEF Inv
<1>2. QED
  BY <1>1, LaunchInv, MonitorInv, ParamsInv, ProbeInv, OpenJournalInv, StartThreadsInv, PlatformInv,
     ShutdownStepInv, ReturnInv, EndInv, ThreadInv DEF ProcessNext, MonitorStep, MainStep, Ended

(* For every number of launches, every set of cards and every build, with   *)
(* kills, signals and failing starts anywhere: a card mines only if it      *)
(* computes what the CPU does on the path it mines with, and nothing is     *)
(* taken down under a lane, the CPU miner or the drain thread.              *)
THEOREM ProcessSafe == ProcessSpec => []ProcessInvariant
<1>1. Inv => ProcessInvariant
  <2> SUFFICES ASSUME Inv PROVE ProcessInvariant
    OBVIOUS
  <2>1. MinesRight
    BY DEF Inv, Typed, ProcessTypeOK, UsedRight, MinesRight, GpuFirstBlocksVerified
  <2>2. QED
    BY <2>1 DEF Inv, Typed, ProcessInvariant
<1>2. QED
  BY <1>1, InitInv, NextInv, PTL DEF ProcessSpec
=============================================================================
