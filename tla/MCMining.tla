------------------------------- MODULE MCMining -------------------------------
(***************************************************************************)
(* Who mines and what becomes of the matches: the lanes of a card, the CPU *)
(* workers, and the way from a batch's digests to reports. They share no   *)
(* variable; a behaviour runs the one that part names, and the others      *)
(* stand still.                                                            *)
(***************************************************************************)
EXTENDS MiningLanes, CpuWorkers, MatchReports

VARIABLE part

TunedSmall == {[upTo |-> 1, batch |-> 3], [upTo |-> 2, batch |-> 2]}
LiveOption == [lock |-> 0, live |-> 0, max |-> 0, fees |-> 2, eco |-> TRUE]
LockOption == [lock |-> 3, live |-> 1, max |-> 1, fees |-> 1, eco |-> FALSE]
MCOptions == {LiveOption, LockOption}

MiningInit ==
  /\ part \in {"lanes", "cpu", "matches"}
  /\ Init /\ CpuInit /\ MatchInit
  /\ margin = 0
  /\ part # "lanes" => difficulty = 2 /\ opt = LiveOption
  /\ part # "cpu" => provided = 8
  /\ part # "matches" => gpu /\ ~salted /\ Size = 2

MiningNext ==
  /\ \/ part = "lanes" /\ Next /\ UNCHANGED <<cpuVars, matchVars>>
     \/ part = "cpu" /\ CpuNext /\ UNCHANGED <<vars, matchVars>>
     \/ part = "matches" /\ MatchNext /\ UNCHANGED <<vars, cpuVars>>
  /\ UNCHANGED part

\* Each component under the fairness of its own specification.
MiningSpec ==
  /\ MiningInit
  /\ [][MiningNext]_<<part, vars, cpuVars, matchVars>>
  /\ \A l \in Lanes : WF_vars(part = "lanes" /\ LaneStep(l))
  /\ \A i \in Workers : WF_cpuVars(part = "cpu" /\ WorkerStep(i))
  /\ WF_cpuVars(part = "cpu" /\ Join) /\ WF_cpuVars(part = "cpu" /\ (Spawn \/ SpawnFails))

\* LaneFollows of the behaviours that run the lanes.
LanesFollow == part = "lanes" => LaneFollows
=============================================================================
