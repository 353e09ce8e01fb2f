------------------------------- MODULE MCMiner -------------------------------
(***************************************************************************)
(* What the miner concludes from the server's health (breaker, margin,     *)
(* difficulty), and how a batch of keys becomes hashes: the buffers of the *)
(* runner, the threads that fill first blocks, the digests in them, the    *)
(* order in which the kernel fills the memory and the words a warp mixes.  *)
(* They share no variable; a behaviour runs the one that part names, and   *)
(* the others stand still.                                                 *)
(***************************************************************************)
EXTENDS BreakerDriver, MarginRamp, DifficultyCache,
        HashRunner, FirstBlockWorkers, FirstBlockHash, KernelFill, WarpShuffle

VARIABLE part

AnswersSmall == {0, 21, 71, 500}

MCShapes == {<<1, 2>>, <<2, 2>>, <<2, 3>>}
MCSelfTestShape == <<1, 2>>
-----------------------------------------------------------------------------
Chosen(S) == CHOOSE x \in S : TRUE

\* Each component's initial states, and one of them for those that stand still.
MinerInit ==
  /\ part \in {"breaker", "margin", "difficulty", "runner", "workers", "digest", "kernel", "warp"}
  /\ BreakerInit
  /\ MarginInit /\ (part # "margin" => mode = "Auto" /\ ~owed /\ ~quarantined)
  /\ DifficultyInit /\ (part # "difficulty" => reachable)
  /\ Init /\ (part # "runner" => client = "selftest" /\ gpu)
  /\ part # "workers" => req = [attempts |-> 1, threads |-> 1, cap |-> 0, chunk |-> 0]
  /\ WorkersInit
  /\ part # "digest" =>
       job = [impl |-> "cpu", block |-> Chosen(BlockSizes), key |-> Chosen(KeyLengths),
              salt |-> Chosen(SaltLengths), long |-> Chosen(LongLengths)]
  /\ DigestInit
  /\ part # "kernel" =>
       geometry = [n |-> Chosen(BatchSizes), warps |-> Chosen(WarpsPerBlock),
                   seg |-> Chosen(SegmentBlocks), pre |-> FALSE]
  /\ KernelInit
  /\ part # "warp" => impl = "gpu"
  /\ WarpInit

\* The variables of the parts other than p.
Others(p) ==
  /\ p # "breaker" => UNCHANGED breakerVars
  /\ p # "margin" => UNCHANGED marginVars
  /\ p # "difficulty" => UNCHANGED difficultyVars
  /\ p # "runner" => UNCHANGED vars
  /\ p # "workers" => UNCHANGED workersVars
  /\ p # "digest" => UNCHANGED digestVars
  /\ p # "kernel" => UNCHANGED kernelVars
  /\ p # "warp" => UNCHANGED warpVars

MinerNext ==
  /\ \/ part = "breaker" /\ BreakerNext
     \/ part = "margin" /\ MarginNext
     \/ part = "difficulty" /\ DifficultyNext
     \/ part = "runner" /\ Next
     \/ part = "workers" /\ WorkersNext
     \/ part = "digest" /\ DigestNext
     \/ part = "kernel" /\ KernelNext
     \/ part = "warp" /\ WarpNext
  /\ Others(part) /\ UNCHANGED part

minerVars ==
  <<part, breakerVars, marginVars, difficultyVars, vars, workersVars,
    digestVars, kernelVars, warpVars>>

\* Each component under the fairness of its own specification.
MinerSpec ==
  /\ MinerInit /\ [][MinerNext]_minerVars
  /\ WF_breakerVars(part = "breaker" /\ Tick) /\ WF_breakerVars(part = "breaker" /\ Probe)
  /\ WF_marginVars(part = "margin" /\ RunStep) /\ WF_marginVars(part = "margin" /\ MarginTick)
  /\ WF_difficultyVars(part = "difficulty" /\ PollerStep)
  /\ SF_difficultyVars(part = "difficulty" /\ PollAnswered)
  /\ WF_vars(part = "runner" /\ (Work \/ Fault)) /\ WF_vars(part = "runner" /\ ~open /\ NewUnit)
=============================================================================
