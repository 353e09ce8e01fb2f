------------------------------ MODULE MCProcess ------------------------------
(***************************************************************************)
(* The life of the miner's process: who starts and ends its threads        *)
(* (process), and which finds outlive it (capture). They share no variable; *)
(* a behaviour runs the one that part names, and the other stands still.   *)
(***************************************************************************)
EXTENDS MinerProcess, FindCapture

CONSTANT Parts
VARIABLE part

\* Two cards, one of them good and one of any kind, under every build that has
\* neither a platform nor CPU workers; or two good cards with everything
\* configured. The monitor launches twice, so that the first process may end in
\* every way and the second comes after any of them.
Plain(b) == ~b.platform /\ ~b.cpu
Full == [first |-> TRUE, warps |-> FALSE, platform |-> TRUE, cpu |-> TRUE]
MCBuilds == {b \in AllBuilds : Plain(b)} \cup {Full}
Good == {"argon2", "first", "packed"}
AllGood == [d \in Devices |-> Good]

\* Two lanes with batches of two and short writes; or with single finds and a
\* disk that takes nothing, often enough for more finds to be dropped than the
\* lanes may lose. For the torn record, single finds and one short write.
ShortWrites == [batch |-> 2, shorts |-> 2, refusals |-> 3]
DiskFull == [batch |-> 1, shorts |-> 0, refusals |-> 6]
MCLimits == {ShortWrites, DiskFull}
TornLimits == {[batch |-> 1, shorts |-> 1, refusals |-> 3]}
-----------------------------------------------------------------------------
LifeInit ==
  /\ part \in Parts
  /\ ProcessInit
  /\ \E d \in Devices : kernel[d] = Good
  /\ ~Plain(build) => kernel = AllGood
  /\ part # "process" => build = Full
  /\ CaptureInit
  /\ part # "capture" => limit = CHOOSE x \in Limits : TRUE

LifeNext ==
  /\ \/ part = "process" /\ ProcessNext /\ UNCHANGED captureVars
     \/ part = "capture" /\ CaptureNext /\ UNCHANGED processVars
  /\ UNCHANGED part

\* Each component under the fairness of its own specification.
LifeSpec ==
  /\ LifeInit
  /\ [][LifeNext]_<<part, processVars, captureVars>>
  /\ WF_processVars(part = "process" /\ MonitorStep)
  /\ WF_processVars(part = "process" /\ MainStep)
  /\ \A t \in Threads : /\ WF_processVars(part = "process" /\ Finish(t))
                        /\ WF_processVars(part = "process" /\ EndThread(t))
  /\ WF_captureVars(part = "capture" /\ Startup) /\ WF_captureVars(part = "capture" /\ Exit)
  /\ \A l \in Lanes : WF_captureVars(part = "capture" /\ LaneStep(l))
=============================================================================
