----------------------------- MODULE MiningProofs -----------------------------
(***************************************************************************)
(* Proofs about who mines and what becomes of the matches: the CPU workers *)
(* (any number of them, any provider), the lanes of a card and the reports *)
(* of a batch.                                                             *)
(***************************************************************************)
EXTENDS MiningLanes, CpuWorkers, MatchReports,
        FiniteSetTheorems, SequenceTheorems, WellFoundedInduction, TLAPS

(***************************************************************************)
(* The CPU workers.                                                        *)
(***************************************************************************)
(* Who counts as active.                                                    *)
ActiveWorkers == {w \in Workers : pc[w] \notin {"none", "new", "gone", "last"}}

(* Nobody is there while the owner is idle; a thread is only created for a  *)
(* worker that has none.                                                    *)
OwnerInStep ==
  /\ owner = "idle" => /\ spawned = 0 /\ ~cpuRunning
                       /\ \A w \in Workers : pc[w] \in Gone
  /\ owner = "starting" => spawned < WorkerCount

(* running_ falls only after everybody has been told to stop, and whoever   *)
(* leaves the loop has seen that, or is the one who told them.              *)
ToldToStop ==
  /\ owner # "idle" => cpuRunning \/ stop \/ ~wanted
  /\ \A w \in Workers : pc[w] \in {"exit", "last"} => stop \/ ~wanted

CpuInductive == CpuTypeOK /\ OwnerInStep /\ ToldToStop

(* The counter is that of a finite set of workers.                          *)
LEMMA ActiveFinite == IsFiniteSet(ActiveWorkers) /\ IsFiniteSet(ActiveWorkers')
<1>1. IsFiniteSet(Workers)
  BY CpuAssumption, FS_Interval DEF Workers
<1>2. ActiveWorkers \in SUBSET Workers /\ ActiveWorkers' \in SUBSET Workers
  BY DEF ActiveWorkers
<1>3. QED
  BY <1>1, <1>2, FS_Subset

(* The initial state.                                                       *)
LEMMA CpuInitInductive == CpuInit => CpuInductive
<1> SUFFICES ASSUME CpuInit PROVE CpuInductive
  OBVIOUS
<1>1. ActiveWorkers = {}
  BY DEF CpuInit, ActiveWorkers
<1>2. active = Cardinality(ActiveWorkers)
  BY <1>1, FS_EmptySet DEF CpuInit
<1>3. CpuTypeOK
  <2>1. {cpuRunning, stop, paused, lastError, wanted} \subseteq BOOLEAN
    BY Zenon DEF CpuInit
  <2>2. /\ spawned \in 0..WorkerCount
        /\ seen \in [Workers -> Provided \cup {0}] /\ provided \in Provided
    BY CpuAssumption DEF CpuInit
  <2>3. QED
    BY <1>2, <2>1, <2>2 DEF CpuInit, CpuTypeOK, ActiveWorkers, Gone
<1>4. OwnerInStep /\ ToldToStop
  BY CpuAssumption DEF CpuInit, OwnerInStep, ToldToStop, Gone
<1>5. QED
  BY <1>3, <1>4 DEF CpuInductive

(* What the invariant says of a state, conjunct by conjunct.                *)
LEMMA CpuFacts ==
  ASSUME CpuInductive
  PROVE  /\ pc \in [Workers -> Gone \cup Hashing \cup {"new", "loop", "read", "gate", "error", "exit", "last"}]
         /\ active = Cardinality(ActiveWorkers) /\ spawned \in 0..WorkerCount
BY DEF CpuInductive, CpuTypeOK, ActiveWorkers

(* A step of a worker, from one place to another: the counter stays that of *)
(* the active ones when it moves with them.                                 *)
LEMMA WorkerMoves ==
  ASSUME CpuInductive, NEW w \in Workers, NEW to, pc' = [pc EXCEPT ![w] = to],
         pc[w] \in {"none", "new", "gone", "last"} <=> to \in {"none", "new", "gone", "last"}
  PROVE  ActiveWorkers' = ActiveWorkers
BY CpuFacts DEF ActiveWorkers

(* A worker that enters its loop is counted.                                *)
LEMMA WorkerEnters ==
  ASSUME CpuInductive, NEW w \in Workers, NEW to, pc' = [pc EXCEPT ![w] = to],
         pc[w] = "new", to \notin {"none", "new", "gone", "last"}
  PROVE  Cardinality(ActiveWorkers') = active + 1
<1>1. ActiveWorkers' = ActiveWorkers \cup {w} /\ w \notin ActiveWorkers
  BY CpuFacts DEF ActiveWorkers
<1>2. QED
  BY <1>1, CpuFacts, ActiveFinite, FS_AddElement

(* One that leaves it is counted no more.                                   *)
LEMMA WorkerLeaves ==
  ASSUME CpuInductive, NEW w \in Workers, NEW to, pc' = [pc EXCEPT ![w] = to],
         pc[w] = "exit", to \in {"gone", "last"}
  PROVE  Cardinality(ActiveWorkers') = active - 1
<1>1. ActiveWorkers' = ActiveWorkers \ {w} /\ w \in ActiveWorkers
  BY CpuFacts DEF ActiveWorkers
<1>2. QED
  BY <1>1, CpuFacts, ActiveFinite, FS_RemoveElement

(* Every step of the owner keeps the invariant.                             *)
LEMMA OwnerStepInductive ==
  CpuInductive /\ (Start \/ Spawn \/ SpawnFails \/ Stop \/ Join) => CpuInductive'
<1> SUFFICES ASSUME CpuInductive PROVE Start \/ Spawn \/ SpawnFails \/ Stop \/ Join => CpuInductive'
  OBVIOUS
<1> USE CpuFacts, CpuAssumption
<1>a. Workers \subseteq Int /\ WorkerCount \in Nat
  BY DEF Workers
<1>b. \A w \in Workers : w >= spawned => pc[w] \in Gone
  BY DEF CpuInductive, CpuTypeOK
<1>c. {cpuRunning, stop, paused, lastError, wanted} \subseteq BOOLEAN
  BY DEF CpuInductive, CpuTypeOK
<1>d. seen \in [Workers -> Provided \cup {0}] /\ provided \in Provided
  BY DEF CpuInductive, CpuTypeOK
<1>1. CASE Start
  <2>1. pc' = pc /\ (\A w \in Workers : pc[w] \in Gone)
    BY <1>1 DEF Start, CpuInductive, OwnerInStep
  <2>2. ActiveWorkers' = {}
    BY <2>1 DEF ActiveWorkers, Gone
  <2>3. active' = Cardinality(ActiveWorkers')
    BY <1>1, <2>2, FS_EmptySet DEF Start
  <2>4. {cpuRunning, stop, paused, lastError, wanted}' \subseteq BOOLEAN
    BY <1>1, <1>c, Zenon DEF Start, worldVars
  <2>5. CpuTypeOK'
    BY <1>1, <1>b, <1>d, <2>1, <2>3, <2>4 DEF Start, worldVars, CpuTypeOK, ActiveWorkers
  <2>6. OwnerInStep' /\ ToldToStop'
    BY <1>1, <2>1 DEF Start, OwnerInStep, ToldToStop, Gone
  <2>7. QED
    BY <2>5, <2>6 DEF CpuInductive
<1>2. CASE Spawn
  <2>1. spawned \in Workers /\ pc[spawned] \in Gone
    BY <1>2, <1>b DEF Spawn, CpuInductive, OwnerInStep, Workers
  <2>2. ActiveWorkers' = ActiveWorkers
    BY <1>2, <2>1, WorkerMoves DEF Spawn, Gone
  <2>3. active' = Cardinality(ActiveWorkers')
    BY <1>2, <2>2 DEF Spawn, flagVars
  <2>4. {cpuRunning, stop, paused, lastError, wanted}' \subseteq BOOLEAN
    BY <1>2, <1>c, Zenon DEF Spawn, flagVars, worldVars
  <2>5. /\ pc' \in [Workers -> Gone \cup Hashing \cup {"new", "loop", "read", "gate", "error", "exit", "last"}]
        /\ \A w \in Workers : w >= spawned' => pc'[w] \in Gone
    BY <1>2, <1>a, <1>b, <2>1 DEF Spawn
  <2>6. spawned' \in 0..WorkerCount /\ owner' \in {"starting", "started"}
    BY <1>2, <2>1 DEF Spawn, Workers
  <2>7. CpuTypeOK'
    BY <1>2, <1>d, <2>3, <2>4, <2>5, <2>6 DEF Spawn, worldVars, CpuTypeOK, ActiveWorkers
  <2>8. OwnerInStep'
    BY <1>2, <1>a, <2>1, <2>6 DEF Spawn, OwnerInStep, Workers
  <2>9. ToldToStop'
    BY <1>2, <2>1 DEF Spawn, flagVars, worldVars, CpuInductive, ToldToStop
  <2>10. QED
    BY <2>7, <2>8, <2>9 DEF CpuInductive
<1>3. CASE SpawnFails \/ Stop
  <2>1. /\ pc' = pc /\ spawned' = spawned /\ active' = active /\ stop' = TRUE
        /\ seen' = seen /\ provided' = provided /\ owner' \in {"cleanup", "joining"}
    BY <1>3 DEF SpawnFails, Stop, worldVars
  <2>2. {cpuRunning, stop, paused, lastError, wanted}' \subseteq BOOLEAN
    BY <1>3, <1>c, Zenon DEF SpawnFails, Stop, worldVars
  <2>3. CpuTypeOK'
    BY <1>b, <1>d, <2>1, <2>2 DEF CpuTypeOK, ActiveWorkers
  <2>4. OwnerInStep' /\ ToldToStop'
    BY <2>1 DEF OwnerInStep, ToldToStop
  <2>5. QED
    BY <2>3, <2>4 DEF CpuInductive
<1>4. CASE Join
  <2>1. \A w \in Workers : pc[w] \in Gone /\ pc'[w] = "none"
    BY <1>4, <1>a, <1>b DEF Join, Gone
  <2>2. ActiveWorkers' = {} /\ ActiveWorkers = {}
    BY <2>1 DEF ActiveWorkers, Gone
  <2>3. active' = Cardinality(ActiveWorkers')
    BY <1>4, <2>2 DEF Join
  <2>4. {cpuRunning, stop, paused, lastError, wanted}' \subseteq BOOLEAN
    BY <1>4, <1>c, Zenon DEF Join, worldVars
  <2>5. CpuTypeOK'
    BY <1>4, <1>d, <2>1, <2>3, <2>4 DEF Join, worldVars, CpuTypeOK, ActiveWorkers, Gone
  <2>6. OwnerInStep' /\ ToldToStop'
    BY <1>4, <2>1 DEF Join, OwnerInStep, ToldToStop, Gone
  <2>7. QED
    BY <2>5, <2>6 DEF CpuInductive
<1>5. QED
  BY <1>1, <1>2, <1>3, <1>4

(* The flags a worker's step leaves alone or sets are flags.                *)
LEMMA WorkerStepInductive ==
  ASSUME CpuInductive, NEW w \in Workers, WorkerStep(w)
  PROVE  CpuInductive'
<1> USE CpuFacts, CpuAssumption
<1>a. Workers \subseteq Int /\ WorkerCount \in Nat
  BY DEF Workers
<1>b. \A v \in Workers : v >= spawned => pc[v] \in Gone
  BY DEF CpuInductive, CpuTypeOK
<1>c. {cpuRunning, stop, paused, lastError, wanted} \subseteq BOOLEAN
  BY DEF CpuInductive, CpuTypeOK
<1>d. seen \in [Workers -> Provided \cup {0}] /\ provided \in Provided
  BY DEF CpuInductive, CpuTypeOK
<1>e. OwnerInStep /\ ToldToStop
  BY DEF CpuInductive
<1>1. owner # "idle" /\ w < spawned
  <2>1. pc[w] \notin Gone
    BY DEF WorkerStep, Enter, Loop, ReadProvider, Gate, RunBatch, Submit, RecordError, Exit, ExitLast, Gone
  <2>2. QED
    BY <2>1, <1>a, <1>b, <1>e DEF OwnerInStep
<1>2. PICK to : /\ pc' = [pc EXCEPT ![w] = to]
                /\ to \in Hashing \cup {"loop", "read", "gate", "error", "exit", "last", "gone"}
                /\ active' = Cardinality(ActiveWorkers')
                /\ to \in {"exit", "last"} => (stop \/ ~wanted)'
  <2>1. CASE Enter(w)
    BY <2>1, WorkerEnters DEF Enter, Goes
  <2>2. CASE Loop(w)
    <3> DEFINE t == IF stop \/ ~wanted THEN "exit" ELSE "read"
    <3>1. pc' = [pc EXCEPT ![w] = t] /\ active' = active
      BY <2>2 DEF Loop, Goes, flagVars
    <3>2. t \in {"exit", "read"} /\ (t = "exit" => (stop \/ ~wanted)')
      BY <2>2 DEF Loop, flagVars, worldVars
    <3> HIDE DEF t
    <3>3. ActiveWorkers' = ActiveWorkers
      BY <2>2, <3>1, <3>2, WorkerMoves DEF Loop, Hashing
    <3>4. QED
      BY <3>1, <3>2, <3>3
  <2>3. CASE ReadProvider(w)
    <3> DEFINE t == IF provided < MinDifficulty THEN "error" ELSE "gate"
    <3>1. pc' = [pc EXCEPT ![w] = t] /\ active' = active
      BY <2>3 DEF ReadProvider, Goes, flagVars
    <3>2. t \in {"error", "gate"}
      BY <2>3 DEF ReadProvider
    <3> HIDE DEF t
    <3>3. ActiveWorkers' = ActiveWorkers
      BY <2>3, <3>1, <3>2, WorkerMoves DEF ReadProvider, Hashing
    <3>4. QED
      BY <3>1, <3>2, <3>3
  <2>4. CASE Gate(w)
    <3> DEFINE t == IF MaxDifficulty > 0 /\ seen[w] > MaxDifficulty THEN "loop" ELSE "batch"
    <3>1. pc' = [pc EXCEPT ![w] = t] /\ active' = active
      BY <2>4 DEF Gate, Goes, flagVars
    <3>2. t \in Hashing \cup {"loop"}
      BY <2>4 DEF Gate, Hashing
    <3> HIDE DEF t
    <3>3. ActiveWorkers' = ActiveWorkers
      BY <2>4, <3>1, <3>2, WorkerMoves DEF Gate, Hashing
    <3>4. QED
      BY <3>1, <3>2, <3>3 DEF Hashing
  <2>5. CASE RunBatch(w)
    BY <2>5, WorkerMoves DEF RunBatch, Goes, flagVars, Hashing
  <2>6. CASE Submit(w)
    BY <2>6, WorkerMoves DEF Submit, Goes, flagVars
  <2>7. CASE RecordError(w)
    BY <2>7, WorkerMoves DEF RecordError, Goes
  <2>8. CASE Exit(w)
    BY <2>8, <1>e, WorkerLeaves DEF Exit, Goes, worldVars, ToldToStop
  <2>9. CASE ExitLast(w)
    <3>1. pc' = [pc EXCEPT ![w] = "gone"] /\ active' = active /\ pc[w] = "last"
      BY <2>9 DEF ExitLast, Goes
    <3>2. ActiveWorkers' = ActiveWorkers
      BY <3>1, WorkerMoves
    <3>3. active' = Cardinality(ActiveWorkers')
      BY <3>1, <3>2
    <3>4. WITNESS "gone"
    <3>5. QED
      BY <3>1, <3>3
  <2>10. QED
    BY <2>1, <2>2, <2>3, <2>4, <2>5, <2>6, <2>7, <2>8, <2>9 DEF WorkerStep
<1>3. /\ owner' = owner /\ spawned' = spawned /\ wanted' = wanted /\ provided' = provided
      /\ stop => stop'
      /\ cpuRunning' = cpuRunning \/ (pc[w] = "last" /\ cpuRunning' = FALSE)
  BY DEF WorkerStep, Enter, Loop, ReadProvider, Gate, RunBatch, Submit, RecordError, Exit, ExitLast,
         ownerVars, flagVars, worldVars
<1>4. {cpuRunning, stop, paused, lastError, wanted}' \subseteq BOOLEAN
  BY <1>c, Zenon DEF WorkerStep, Enter, Loop, ReadProvider, Gate, RunBatch, Submit, RecordError, Exit, ExitLast,
         flagVars, worldVars
<1>5. seen' \in [Workers -> Provided \cup {0}]
  BY <1>d DEF WorkerStep, Enter, Loop, ReadProvider, Gate, RunBatch, Submit, RecordError, Exit, ExitLast
<1>6. CpuTypeOK'
  <2>1. pc' \in [Workers -> Gone \cup Hashing \cup {"new", "loop", "read", "gate", "error", "exit", "last"}]
    BY <1>2 DEF Gone
  <2>2. \A v \in Workers : v >= spawned' => pc'[v] \in Gone
    BY <1>1, <1>2, <1>3, <1>a, <1>b
  <2>3. owner' \in {"idle", "starting", "started", "cleanup", "joining"} /\ spawned' \in 0..WorkerCount
    BY <1>3 DEF CpuInductive, CpuTypeOK
  <2>4. QED
    BY <1>2, <1>3, <1>4, <1>5, <1>d, <2>1, <2>2, <2>3 DEF CpuTypeOK, ActiveWorkers
<1>7. OwnerInStep'
  BY <1>1, <1>3, <1>e DEF OwnerInStep
<1>8. ToldToStop'
  <2>1. ASSUME NEW v \in Workers, pc'[v] \in {"exit", "last"} PROVE (stop \/ ~wanted)'
    <3>1. CASE v = w
      BY <1>2, <2>1, <3>1
    <3>2. CASE v # w
      BY <1>2, <1>3, <1>e, <2>1, <3>2 DEF ToldToStop
    <3>3. QED
      BY <3>1, <3>2
  <2>2. (cpuRunning \/ stop \/ ~wanted)'
    BY <1>1, <1>3, <1>e DEF ToldToStop
  <2>3. QED
    BY <2>1, <2>2 DEF ToldToStop
<1>9. QED
  BY <1>6, <1>7, <1>8 DEF CpuInductive

(* Every step keeps the invariant.                                          *)
LEMMA CpuNextInductive == CpuInductive /\ [CpuNext]_cpuVars => CpuInductive'
<1> SUFFICES ASSUME CpuInductive, [CpuNext]_cpuVars PROVE CpuInductive'
  OBVIOUS
<1>1. CASE Start \/ Spawn \/ SpawnFails \/ Stop \/ Join
  BY <1>1, OwnerStepInductive
<1>2. CASE DifficultyChanges \/ ProgramEnds
  <2>1. /\ UNCHANGED <<ownerVars, flagVars, pc, seen>> /\ provided' \in Provided
        /\ wanted' = wanted \/ wanted' = FALSE
    BY <1>2 DEF DifficultyChanges, ProgramEnds, CpuInductive, CpuTypeOK
  <2>2. {cpuRunning, stop, paused, lastError, wanted}' \subseteq BOOLEAN
    BY <2>1, Zenon DEF flagVars, CpuInductive, CpuTypeOK
  <2>3. CpuTypeOK'
    BY <2>1, <2>2 DEF ownerVars, flagVars, CpuInductive, CpuTypeOK
  <2>4. OwnerInStep' /\ ToldToStop'
    BY <2>1 DEF ownerVars, flagVars, CpuInductive, OwnerInStep, ToldToStop
  <2>5. QED
    BY <2>3, <2>4 DEF CpuInductive
<1>3. CASE \E w \in Workers : WorkerStep(w)
  BY <1>3, WorkerStepInductive
<1>4. CASE UNCHANGED cpuVars
  BY <1>4 DEF cpuVars, ownerVars, flagVars, worldVars, CpuInductive, CpuTypeOK, OwnerInStep, ToldToStop
<1>5. QED
  BY <1>1, <1>2, <1>3, <1>4 DEF CpuNext, OwnerDone

(* For any number of workers, starts and changes of the difficulty, thread  *)
(* creation or backends failing at any point: once join has returned no     *)
(* worker is left and running_ is false (~CpuMiningWorker may free what     *)
(* they use), and whoever hashes while running_ is false has been told to   *)
(* stop.                                                                    *)
THEOREM CpuWorkersSafe == CpuSpec => []CpuInvariant
<1>1. CpuInductive => CpuInvariant
  <2> SUFFICES ASSUME CpuInductive PROVE CpuInvariant
    OBVIOUS
  <2>1. JoinedMeansGone
    <3>1. SUFFICES ASSUME owner = "idle" PROVE ActiveWorkers = {}
      BY CpuFacts, FS_EmptySet DEF JoinedMeansGone, CpuInductive, OwnerInStep
    <3>2. QED
      BY <3>1 DEF ActiveWorkers, CpuInductive, OwnerInStep, Gone
  <2>2. HashingMeansRunning
    BY DEF HashingMeansRunning, CpuInductive, OwnerInStep, ToldToStop, Gone, Hashing
  <2>3. QED
    BY <2>1, <2>2 DEF CpuInvariant, CpuInductive
<1>2. QED
  BY <1>1, CpuInitInductive, CpuNextInductive, PTL DEF CpuSpec

-----------------------------------------------------------------------------
(***************************************************************************)
(* Sums over a finite set, as the community modules' fold computes them.   *)
(***************************************************************************)
(* The element a fold takes next.                                           *)
Pick(s) == CHOOSE x \in s : TRUE

(* g adds up h over every subset of S.                                      *)
AddsUp(g, h, S) ==
  g = [s \in SUBSET S |-> IF s = {} THEN 0 ELSE h[Pick(s)] + g[s \ {Pick(s)}]]

(* What is picked from a set is in it.                                      *)
LEMMA Picked == ASSUME NEW s, s # {} PROVE Pick(s) \in s
BY DEF Pick

(* A set of natural numbers has a least one.                                *)
LEMMA SmallestNat == ASSUME NEW N, N \subseteq Nat, N # {} PROVE \E n \in N : \A m \in N : n <= m
<1> DEFINE R == OpToRel(<, Nat)
<1>1. IsWellFoundedOn(R, Nat)
  BY NatLessThanWellFounded
<1>2. PICK n \in N : \A m \in N : <<m, n>> \notin R
  <2> HIDE DEF R
  <2>1. QED
    BY <1>1, WFMin
<1>3. \A m \in N : ~(m < n)
  BY <1>2 DEF OpToRel
<1>4. \A m \in N : n <= m
  BY <1>3
<1>5. QED
  BY <1>4

(* The recursion of a sum over a finite set has a solution: level by level, *)
(* for subsets of growing size.                                             *)
LEMMA SumExists == ASSUME NEW S, IsFiniteSet(S), NEW h PROVE \E g : AddsUp(g, h, S)
<1> DEFINE Small(n) == {s \in SUBSET S : Cardinality(s) <= n}
           Level(n) == \E g : g = [s \in Small(n) |-> IF s = {} THEN 0 ELSE h[Pick(s)] + g[s \ {Pick(s)}]]
           Bad == {n \in Nat : ~Level(n)}
<1>0. \A s \in SUBSET S : /\ IsFiniteSet(s) /\ Cardinality(s) \in Nat /\ Cardinality(s) <= Cardinality(S)
                          /\ s # {} => /\ s \ {Pick(s)} \in SUBSET S
                                       /\ Cardinality(s \ {Pick(s)}) = Cardinality(s) - 1
  BY FS_Subset, FS_CardinalityType, FS_RemoveElement, Picked
<1>1. Level(0)
  <2> DEFINE g == [s \in Small(0) |-> 0]
  <2>1. ASSUME NEW s \in Small(0) PROVE s = {}
    <3>1. s \in SUBSET S /\ Cardinality(s) <= 0
      OBVIOUS
    <3>2. IsFiniteSet(s) /\ Cardinality(s) \in Nat
      BY <1>0, <3>1
    <3>3. Cardinality(s) = 0
      BY <3>1, <3>2
    <3>4. QED
      BY <3>2, <3>3, FS_EmptySet
  <2>2. g = [s \in Small(0) |-> IF s = {} THEN 0 ELSE h[Pick(s)] + g[s \ {Pick(s)}]]
    BY <2>1
  <2>3. QED
    BY <2>2
<1>2. ASSUME NEW n \in Nat, Level(n) PROVE Level(n + 1)
  <2>1. PICK g : g = [s \in Small(n) |-> IF s = {} THEN 0 ELSE h[Pick(s)] + g[s \ {Pick(s)}]]
    BY <1>2
  <2> DEFINE k == [s \in Small(n + 1) |-> IF s = {} THEN 0 ELSE h[Pick(s)] + g[s \ {Pick(s)}]]
  <2>2. \A s \in Small(n) : s \in Small(n + 1) /\ k[s] = g[s]
    <3>1. ASSUME NEW s \in Small(n) PROVE s \in Small(n + 1)
      <4>1. s \in SUBSET S /\ Cardinality(s) <= n
        OBVIOUS
      <4>2. Cardinality(s) \in Nat
        BY <1>0, <4>1
      <4>3. QED
        BY <4>1, <4>2
    <3>2. \A s \in Small(n) : k[s] = IF s = {} THEN 0 ELSE h[Pick(s)] + g[s \ {Pick(s)}]
      BY <3>1
    <3> HIDE DEF k
    <3>3. \A s \in Small(n) : g[s] = IF s = {} THEN 0 ELSE h[Pick(s)] + g[s \ {Pick(s)}]
      <4> HIDE DEF Small
      <4>1. QED
        BY <2>1
    <3>4. QED
      BY <3>1, <3>2, <3>3
  <2>3. \A s \in Small(n + 1) : s # {} => s \ {Pick(s)} \in Small(n)
    BY <1>0
  <2>4. \A s \in Small(n + 1) : s # {} => k[s \ {Pick(s)}] = g[s \ {Pick(s)}]
    <3> HIDE DEF k, Small
    <3>1. QED
      BY <2>2, <2>3
  <2>5. k = [s \in Small(n + 1) |-> IF s = {} THEN 0 ELSE h[Pick(s)] + k[s \ {Pick(s)}]]
    <3> HIDE DEF Small
    <3>1. \A s \in Small(n+1) : (IF s = {} THEN 0 ELSE h[Pick(s)] + g[s \ {Pick(s)}]) =
                                (IF s = {} THEN 0 ELSE h[Pick(s)] + k[s \ {Pick(s)}])
      <4> HIDE DEF k
      <4>1. QED
        BY <2>4
    <3>2. QED
      BY <3>1
  <2>6. QED
    <3> HIDE DEF k
    <3>1. QED
      BY <2>5
<1>3. Bad = {}
  <2> HIDE DEF Level
  <2>1. SUFFICES ASSUME Bad # {} PROVE FALSE
    OBVIOUS
  <2>2. PICK n \in Bad : \A m \in Bad : n <= m
    BY <2>1, SmallestNat
  <2>3. n # 0 /\ n \in Nat /\ ~Level(n)
    BY <1>1, <2>2
  <2>4. n - 1 \in Nat /\ Level(n - 1)
    BY <2>2, <2>3
  <2>5. Level(n - 1 + 1)
    BY <1>2, <2>4
  <2>6. n - 1 + 1 = n
    BY <2>3
  <2>7. QED
    BY <2>3, <2>5, <2>6
<1>4. Small(Cardinality(S)) = SUBSET S
  BY <1>0
<1>5. Cardinality(S) \in Nat
  BY FS_CardinalityType
<1>6. Level(Cardinality(S))
  <2> HIDE DEF Level
  <2>1. QED
    BY <1>3, <1>5
<1>7. QED
  BY <1>4, <1>6 DEF AddsUp

(* Such a sum is at most the number of terms times a bound of each: no      *)
(* subset is the smallest to break it.                                      *)
LEMMA SumBound ==
  ASSUME NEW S, IsFiniteSet(S), NEW h, NEW b \in Nat, \A k \in S : h[k] \in 0..b,
         NEW g, AddsUp(g, h, S)
  PROVE  g[S] \in 0..(Cardinality(S) * b)
<1> DEFINE Good(s) == g[s] \in 0..(Cardinality(s) * b)
           Bad == {s \in SUBSET S : ~Good(s)}
           BadSizes == {Cardinality(s) : s \in Bad}
<1>0. \A s \in SUBSET S : /\ IsFiniteSet(s) /\ Cardinality(s) \in Nat
                          /\ s # {} => /\ Pick(s) \in S /\ s \ {Pick(s)} \in SUBSET S
                                       /\ Cardinality(s \ {Pick(s)}) = Cardinality(s) - 1
  BY FS_Subset, FS_CardinalityType, FS_RemoveElement, Picked
<1>1. Good({})
  <2>1. g[{}] = 0
    BY DEF AddsUp
  <2>2. QED
    BY <2>1, FS_EmptySet
<1>2. ASSUME NEW s \in SUBSET S, s # {}, Good(s \ {Pick(s)}) PROVE Good(s)
  <2> DEFINE c == Cardinality(s \ {Pick(s)})
  <2>1. g[s] = h[Pick(s)] + g[s \ {Pick(s)}]
    BY <1>2 DEF AddsUp
  <2>2. h[Pick(s)] \in 0..b /\ c \in Nat /\ Cardinality(s) = c + 1
    <3>1. Pick(s) \in S /\ Cardinality(s) \in Nat /\ c = Cardinality(s) - 1
      BY <1>0, <1>2
    <3>2. c \in Nat
      BY <1>0, <1>2
    <3> HIDE DEF c
    <3>3. QED
      BY <3>1, <3>2
  <2>3. g[s \ {Pick(s)}] \in 0..(c * b)
    BY <1>2
  <2>4. (c + 1) * b = c * b + b /\ c * b \in Nat
    <3> HIDE DEF c
    <3>1. QED
      BY <2>2
  <2> HIDE DEF c
  <2>5. g[s] \in 0..((c + 1) * b)
    <3> DEFINE x == c * b
               y == g[s \ {Pick(s)}]
               z == h[Pick(s)]
    <3> HIDE DEF x, y, z
    <3>1. y \in 0..x /\ z \in 0..b /\ x \in Nat /\ g[s] = z + y /\ (c + 1) * b = x + b
      BY <2>1, <2>2, <2>3, <2>4 DEF x, y, z
    <3>2. QED
      BY <3>1
  <2>6. QED
    BY <2>2, <2>5
<1>3. Bad = {}
  <2>1. SUFFICES ASSUME Bad # {} PROVE FALSE
    OBVIOUS
  <2>2. BadSizes \subseteq Nat /\ BadSizes # {}
    <3> HIDE DEF Good
    <3>1. QED
      BY <1>0, <2>1
  <2>3. PICK n \in BadSizes : \A m \in BadSizes : n <= m
    <3> HIDE DEF BadSizes
    <3>1. QED
      BY <2>2, SmallestNat
  <2> HIDE DEF Good
  <2>4. PICK s \in Bad : Cardinality(s) = n
    BY <2>3
  <2>5. s # {} /\ s \in SUBSET S
    BY <1>1, <2>4
  <2>6. s \ {Pick(s)} \in Bad
    BY <1>2, <2>4, <2>5, <1>0
  <2>7. Cardinality(s \ {Pick(s)}) \in BadSizes /\ Cardinality(s \ {Pick(s)}) = n - 1 /\ n \in Nat
    BY <1>0, <2>2, <2>3, <2>4, <2>5, <2>6
  <2>8. QED
    <3> HIDE DEF BadSizes
    <3>1. QED
      BY <2>3, <2>7
<1>4. Good(S)
  <2> HIDE DEF Good
  <2>1. QED
    BY <1>3
<1>5. QED
  BY <1>4

-----------------------------------------------------------------------------
(***************************************************************************)
(* The lanes of a card.                                                    *)
(***************************************************************************)
LaneRecord ==
  [pc : {"build", "built", "size", "retry", "check", "checked", "batch", "ended"},
   read : Nat, cost : Nat, batch : Nat, pool : Nat, count : 0..(Cycle - 1),
   fees : Nat, ecos : Nat, begun : BOOLEAN, plain : BOOLEAN, low : Nat]

(* What the sizing leaves to each lane of the card's memory.                *)
LaneShare ==
  LET share == IF Total > Headroom THEN Total - Headroom ELSE Total
  IN  IF Streams = 1 THEN Total ELSE share \div Streams

(* The fee of a lane so far, as FeeShare counts it.                         *)
FeesDue(r) ==
  r.plain =>
    LET mined == IF r.count = 0 /\ r.begun THEN Cycle ELSE r.count
        due == mined - (Cycle - FeeSlots)
        eco == mined - (Cycle - (FeeSlots \div 2))
    IN  /\ r.fees = (IF due > 0 THEN due ELSE 0)
        /\ r.ecos = (IF Eco /\ eco > 0 THEN eco ELSE 0)

(* What a unit is sized for stays within the lane's share; a lane that is   *)
(* between its two reads has read no less than the least difficulty since.  *)
LaneOK(l, r) ==
  /\ r \in LaneRecord
  /\ r.pool <= LaneShare
  /\ r.pc \in {"check", "checked", "batch"} => r.batch > 0 /\ r.batch * r.cost <= LaneShare
  /\ r.pc = "checked" => r.low <= r.read
  /\ r.pc = "batch" => IF Locked(l) THEN r.cost = Lock ELSE r.cost >= r.low
  /\ FeesDue(r)

LanesInductive ==
  /\ difficulty \in Difficulties /\ margin \in Margins /\ opt \in Options
  /\ {running, leased, prefixed} \subseteq BOOLEAN
  /\ lane \in [Lanes -> LaneRecord]
  /\ \A l \in Lanes : LaneOK(l, lane[l])

(* The shares of all lanes are no more than the card has.                   *)
LEMMA ShareFits == LaneShare \in Nat /\ Streams * LaneShare <= Total
<1> DEFINE share == IF Total > Headroom THEN Total - Headroom ELSE Total
<1>1. share \in Nat /\ share <= Total /\ Streams \in Nat \ {0} /\ Total \in Nat
  BY LanesAssumption
<1> HIDE DEF share
<1>2. share \div Streams \in Nat /\ Streams * (share \div Streams) <= share
  BY <1>1
<1>3. LaneShare = IF Streams = 1 THEN Total ELSE share \div Streams
  BY DEF LaneShare, share
<1>4. QED
  BY <1>1, <1>2, <1>3

(* The lanes are finitely many.                                             *)
LEMMA LanesFinite == IsFiniteSet(Lanes) /\ Cardinality(Lanes) = Streams
<1>1. Streams \in Nat /\ Streams > 0
  BY LanesAssumption
<1>2. IsFiniteSet(0..(Streams - 1)) /\ Cardinality(0..(Streams - 1)) = Streams - 1 - 0 + 1
  BY <1>1, FS_Interval
<1>3. QED
  BY <1>1, <1>2 DEF Lanes

(* The memory the other lanes hold is a number.                             *)
LEMMA HeldNat == ASSUME LanesInductive, NEW l \in Lanes PROVE Held(l) \in Nat
<1> DEFINE S == Lanes \ {l}
           h == [k \in S |-> lane[k].pool]
           P(g) == g = [s \in SUBSET S |-> IF s = {} THEN 0
                          ELSE lane[CHOOSE x \in s : TRUE].pool + g[s \ {CHOOSE x \in s : TRUE}]]
<1>1. IsFiniteSet(S)
  BY LanesFinite, FS_RemoveElement
<1>2. \A g : AddsUp(g, h, S) <=> P(g)
  BY DEF AddsUp, Pick
<1>3. \E g : P(g)
  <2> HIDE DEF P, h, S
  <2>1. PICK g : AddsUp(g, h, S)
    BY <1>1, SumExists
  <2>2. QED
    BY <1>2, <2>1
<1>4. PICK g : P(g) /\ Held(l) = g[S]
  <2>1. Held(l) = (CHOOSE g : P(g))[S]
    BY DEF Held, MapThenSumSet, MapThenFoldSet
  <2>2. QED
    BY <1>3, <2>1
<1>5. AddsUp(g, h, S)
  <2> HIDE DEF P, h, S
  <2>1. QED
    BY <1>2, <1>4
<1>6. \A k \in S : h[k] \in 0..LaneShare
  BY ShareFits DEF LanesInductive, LaneOK, LaneRecord
<1>7. QED
  <2> HIDE DEF P, h, S
  <2>1. g[S] \in 0..(Cardinality(S) * LaneShare)
    BY <1>1, <1>5, <1>6, ShareFits, SumBound
  <2>2. QED
    BY <1>4, <2>1

(* All claims together fit on the card.                                     *)
LEMMA ClaimsFit == LanesInductive => PoolsFit
<1> SUFFICES ASSUME LanesInductive PROVE PoolsFit
  OBVIOUS
<1> DEFINE h == [k \in Lanes |-> Claim(k)]
           P(g) == g = [s \in SUBSET Lanes |-> IF s = {} THEN 0
                          ELSE Claim(CHOOSE x \in s : TRUE) + g[s \ {CHOOSE x \in s : TRUE}]]
<1>1. \A k \in Lanes : Claim(k) \in 0..LaneShare
  <2> SUFFICES ASSUME NEW k \in Lanes PROVE Claim(k) \in 0..LaneShare
    OBVIOUS
  <2>1. LaneOK(k, lane[k])
    BY DEF LanesInductive
  <2>2. lane[k].batch \in Nat /\ lane[k].cost \in Nat /\ lane[k].pool \in Nat
    BY <2>1 DEF LaneOK, LaneRecord
  <2>3. lane[k].batch * lane[k].cost \in Nat
    BY <2>2
  <2>4. QED
    BY <2>1, <2>2, <2>3, ShareFits DEF LaneOK, Claim
<1>2. \A g : AddsUp(g, h, Lanes) <=> P(g)
  BY DEF AddsUp, Pick
<1>3. \E g : P(g)
  <2> HIDE DEF P, h
  <2>1. PICK g : AddsUp(g, h, Lanes)
    BY LanesFinite, SumExists
  <2>2. QED
    BY <1>2, <2>1
<1>4. PICK g : P(g) /\ MapThenSumSet(Claim, Lanes) = g[Lanes]
  <2>1. MapThenSumSet(Claim, Lanes) = (CHOOSE g : P(g))[Lanes]
    BY DEF MapThenSumSet, MapThenFoldSet
  <2>2. QED
    BY <1>3, <2>1
<1>5. AddsUp(g, h, Lanes)
  <2> HIDE DEF P, h
  <2>1. QED
    BY <1>2, <1>4
<1>6. \A k \in Lanes : h[k] \in 0..LaneShare
  BY <1>1
<1>7. g[Lanes] \in 0..(Cardinality(Lanes) * LaneShare)
  <2> HIDE DEF P, h
  <2>1. QED
    BY LanesFinite, <1>5, <1>6, ShareFits, SumBound
<1>8. QED
  <2> HIDE DEF P, h
  <2>1. Streams * LaneShare \in Nat /\ Total \in Nat
    BY ShareFits, LanesAssumption
  <2>2. QED
    BY <1>4, <1>7, <2>1, LanesFinite, ShareFits DEF PoolsFit

(* The recommended batch is an entry of the table, the one with the least   *)
(* limit that is enough.                                                    *)
LEMMA RecommendedNat == ASSUME NEW d \in Nat PROVE RecommendedBatch(d) \in Nat
<1> DEFINE fits == {t \in Tuned : d <= t.upTo}
           limits == {t.upTo : t \in fits}
<1>1. CASE fits = {}
  BY <1>1 DEF RecommendedBatch
<1>2. CASE fits # {}
  <2>1. limits \subseteq Nat /\ limits # {}
    BY <1>2, LanesAssumption
  <2>2. PICK n \in limits : \A m \in limits : n <= m
    <3> HIDE DEF limits
    <3>1. QED
      BY <2>1, SmallestNat
  <2>3. \E t \in fits : \A u \in fits : t.upTo <= u.upTo
    BY <2>2
  <2>4. (CHOOSE t \in fits : \A u \in fits : t.upTo <= u.upTo) \in fits
    <3> HIDE DEF fits
    <3>1. QED
      BY <2>3
  <2>5. \A t \in fits : t.batch \in Nat
    BY LanesAssumption
  <2>6. RecommendedBatch(d) = (CHOOSE t \in fits : \A u \in fits : t.upTo <= u.upTo).batch
    BY <1>2 DEF RecommendedBatch
  <2>7. QED
    <3> HIDE DEF fits
    <3>1. QED
      BY <2>4, <2>5, <2>6
<1>3. QED
  BY <1>1, <1>2

(* An attempt's memory is counted with a margin, so a batch fits in what is *)
(* free for it.                                                             *)
LEMMA BatchFits ==
  ASSUME LanesInductive, NEW free \in Int, NEW d \in Nat
  PROVE  /\ SelectBatchSize(free, d) \in Nat
         /\ SelectBatchSize(free, d) > 0 => SelectBatchSize(free, d) * d <= free
<1>1. /\ MemoryLimit(free, d) \in Nat
      /\ MemoryLimit(free, d) > 0 => MemoryLimit(free, d) * d <= free
  <2>1. CASE d = 0 \/ free <= Reserve
    BY <2>1 DEF MemoryLimit
  <2>2. CASE d > 0 /\ free > Reserve
    <3> DEFINE a == (free - Reserve) * 1000
               q == a \div (d * 1001)
               m == q * d
    <3>1. a \in Nat /\ Reserve \in Nat /\ d * 1001 \in Nat /\ d * 1001 > 0
      BY <2>2, LanesAssumption
    <3>2. q \in Nat /\ q * (d * 1001) <= a
      <4> DEFINE b == d * 1001
      <4> HIDE DEF a, b
      <4>1. a \in Nat /\ b \in Nat /\ b > 0
        BY <3>1 DEF b
      <4>2. a \div b \in Nat /\ (a \div b) * b <= a
        BY <4>1
      <4>3. QED
        BY <4>2 DEF b
    <3>3. q * (d * 1001) = m * 1001 /\ m \in Nat
      <4> HIDE DEF q
      <4>1. QED
        BY <3>2
    <3>4. m <= free
      <4> HIDE DEF q, m
      <4>1. m * 1001 <= (free - Reserve) * 1000
        BY <3>2, <3>3 DEF a
      <4>2. QED
        BY <4>1, <3>1, <3>3
    <3>5. MemoryLimit(free, d) = q
      BY <2>2, <3>1 DEF MemoryLimit
    <3>6. QED
      BY <3>2, <3>4, <3>5
  <2>3. QED
    BY <2>1, <2>2, LanesAssumption
<1> DEFINE limit == MemoryLimit(free, d)
           n == SelectBatchSize(free, d)
<1>2. n = limit \/ (n \in Nat /\ n <= limit)
  <2>1. ExplicitMax \in Nat
    BY LanesAssumption DEF LanesInductive, ExplicitMax
  <2>2. CASE ExplicitMax > 0
    <3> HIDE DEF limit
    <3>1. n = Smaller(limit, ExplicitMax)
      BY <2>2 DEF SelectBatchSize, limit
    <3>2. QED
      BY <1>1, <2>1, <3>1 DEF Smaller, limit
  <2>3. CASE ~(ExplicitMax > 0) /\ RecommendedBatch(d) > 0
    <3> HIDE DEF limit
    <3>1. n = Smaller(limit, RecommendedBatch(d))
      BY <2>3 DEF SelectBatchSize, limit
    <3>2. RecommendedBatch(d) \in Nat
      BY RecommendedNat
    <3>3. QED
      BY <1>1, <3>1, <3>2 DEF Smaller, limit
  <2>4. CASE ~(ExplicitMax > 0) /\ ~(RecommendedBatch(d) > 0)
    BY <2>4 DEF SelectBatchSize
  <2>5. QED
    BY <2>2, <2>3, <2>4
<1> HIDE DEF limit, n
<1>3. limit \in Nat /\ n \in Nat /\ n <= limit /\ (limit > 0 => limit * d <= free)
  BY <1>1, <1>2 DEF limit
<1>4. n * d <= limit * d
  BY <1>3
<1>5. QED
  <2>1. n * d \in Nat /\ limit * d \in Nat
    BY <1>3
  <2>2. n > 0 => limit > 0
    BY <1>3
  <2>3. n > 0 => n * d <= free
    BY <1>3, <1>4, <2>1, <2>2
  <2>4. QED
    BY <1>3, <2>3 DEF n

(* What a lane may take is a number, and no more than its share.            *)
LEMMA FreeInShare == ASSUME LanesInductive, NEW l \in Lanes PROVE FreeFor(l) \in Int /\ FreeFor(l) <= LaneShare
<1> DEFINE share == IF Total > Headroom THEN Total - Headroom ELSE Total
           part == share \div Streams
           rest == Total - Held(l)
<1>1. rest \in Int /\ rest <= Total
  BY HeldNat, LanesAssumption
<1>2. share \in Nat /\ Streams \in Nat \ {0}
  BY LanesAssumption
<1>3. part \in Int
  <2> HIDE DEF share
  <2>1. QED
    BY <1>2
<1>4. LaneShare = (IF Streams = 1 THEN Total ELSE part) /\ FreeFor(l) = (IF Streams = 1 THEN rest ELSE Smaller(rest, part))
  BY DEF LaneShare, FreeFor
<1>5. QED
  <2> HIDE DEF share, part, rest
  <2>1. QED
    BY <1>1, <1>3, <1>4 DEF Smaller

(* The cost read off two settings is a number, no less than the difficulty. *)
LEMMA LiveCost ==
  ASSUME NEW d \in Nat, NEW m \in Nat
  PROVE  LiveMiningDifficulty(d, m) \in Nat /\ LiveMiningDifficulty(d, m) >= d
BY LanesAssumption DEF LiveMiningDifficulty

(* The parts of the invariant a lane's step needs.                          *)
LEMMA LaneFacts ==
  ASSUME LanesInductive, NEW l \in Lanes
  PROVE  /\ LaneOK(l, lane[l]) /\ lane[l] \in LaneRecord
         /\ difficulty \in Nat \ {0} /\ margin \in Nat
         /\ Lock \in Nat /\ FeeSlots \in 0..Cycle /\ Cycle \in Nat \ {0}
BY LanesAssumption DEF LanesInductive, LaneOK, Lock, FeeSlots

(* Whatever a lane's loop does to its unit leaves the unit in order.        *)
LEMMA LaneStepOK ==
  ASSUME LanesInductive, NEW l \in Lanes, LaneStep(l)
  PROVE  \E r \in LaneRecord : lane' = [lane EXCEPT ![l] = r] /\ LaneOK(l, r)
<1> DEFINE u == lane[l]
<1>0. /\ LaneOK(l, u) /\ u \in LaneRecord
      /\ difficulty \in Nat \ {0} /\ margin \in Nat
      /\ Lock \in Nat /\ FeeSlots \in 0..Cycle /\ Cycle \in Nat \ {0}
  BY LaneFacts
<1>1. CASE ReadDifficulty(l)
  <2>1. CASE running
    <3> DEFINE r == [NewLane(l) EXCEPT !.pc = "built", !.read = difficulty, !.low = difficulty,
                                       !.pool = lane[l].pool]
    <3>1. lane' = [lane EXCEPT ![l] = r]
      BY <1>1, <2>1 DEF ReadDifficulty, Becomes
    <3>2. /\ r.pc = "built" /\ r.pool = u.pool /\ r.count = 0 /\ ~r.begun
          /\ r.fees = 0 /\ r.ecos = 0
      BY DEF NewLane
    <3>3. r \in LaneRecord
      <4> DEFINE z == NewLane(l)
      <4>1. 0 \in 0..(Cycle - 1) /\ u.pool \in Nat
        BY <1>0 DEF LaneRecord
      <4>2. z \in LaneRecord
        BY <4>1 DEF LaneRecord, NewLane
      <4>3. r = [z EXCEPT !.pc = "built", !.read = difficulty, !.low = difficulty, !.pool = u.pool]
        OBVIOUS
      <4> HIDE DEF z, r
      <4>4. QED
        BY <1>0, <4>1, <4>2, <4>3 DEF LaneRecord
    <3> HIDE DEF r
    <3>4. FeesDue(r)
      BY <1>0, <3>2 DEF FeesDue
    <3>5. LaneOK(l, r)
      BY <1>0, <3>2, <3>3, <3>4 DEF LaneOK
    <3>6. QED
      BY <3>1, <3>3, <3>5
  <2>2. CASE ~running
    <3> DEFINE r == [lane[l] EXCEPT !.pc = "ended"]
    <3>1. lane' = [lane EXCEPT ![l] = r]
      BY <1>1, <2>2 DEF ReadDifficulty, Becomes
    <3>2. r \in LaneRecord /\ LaneOK(l, r)
      BY <1>0 DEF LaneOK, LaneRecord, FeesDue
    <3>3. QED
      BY <3>1, <3>2
  <2>3. QED
    BY <2>1, <2>2
<1>2. CASE BuildUnit(l)
  <2> DEFINE c == IF Locked(l) THEN Lock ELSE LiveMiningDifficulty(lane[l].read, margin)
             r == [lane[l] EXCEPT !.pc = "size", !.cost = c]
  <2>1. lane' = [lane EXCEPT ![l] = r]
    BY <1>2 DEF BuildUnit, Becomes
  <2>2. c \in Nat
    BY <1>0, LiveCost DEF LaneRecord
  <2> HIDE DEF c
  <2>3. r \in LaneRecord /\ LaneOK(l, r)
    BY <1>0, <2>2 DEF LaneOK, LaneRecord, FeesDue
  <2>4. QED
    BY <2>1, <2>3
<1>3. CASE SizeBatch(l)
  <2> DEFINE n == SelectBatchSize(FreeFor(l), lane[l].cost)
             r == [lane[l] EXCEPT !.pc = IF n = 0 THEN "retry" ELSE "check", !.batch = n, !.pool = 0]
  <2>1. lane' = [lane EXCEPT ![l] = r]
    BY <1>3 DEF SizeBatch, Becomes
  <2>2. u.cost \in Nat
    BY <1>0 DEF LaneRecord
  <2>3. n \in Nat /\ (n > 0 => n * u.cost <= FreeFor(l))
    BY <2>2, FreeInShare, BatchFits
  <2> HIDE DEF n
  <2>4. n > 0 => n * u.cost <= LaneShare
    BY <2>2, <2>3, FreeInShare, ShareFits
  <2>5. r \in LaneRecord
    BY <1>0, <2>3 DEF LaneRecord
  <2>6. FeesDue(r)
    BY <1>0 DEF LaneOK, LaneRecord, FeesDue
  <2>7. /\ r.pc = IF n = 0 THEN "retry" ELSE "check"
        /\ r.pool = 0 /\ r.batch = n /\ r.cost = u.cost
    BY <1>0 DEF LaneRecord
  <2> HIDE DEF r, u
  <2>8. LaneOK(l, r)
    BY <2>3, <2>4, <2>5, <2>6, <2>7, ShareFits DEF LaneOK
  <2>9. QED
    BY <2>1, <2>5, <2>8
<1>4. CASE Retry(l) \/ BatchFails(l)
  <2> DEFINE r == [lane[l] EXCEPT !.pc = IF Retry(l) THEN "build" ELSE "retry"]
  <2>1. lane' = [lane EXCEPT ![l] = r]
    BY <1>4 DEF Retry, BatchFails, Becomes
  <2>2. r \in LaneRecord /\ LaneOK(l, r)
    BY <1>0 DEF LaneOK, LaneRecord, FeesDue
  <2>3. QED
    BY <2>1, <2>2
<1>5. CASE CheckRunning(l)
  <2>1. CASE running
    <3> DEFINE r == [lane[l] EXCEPT !.pc = "checked", !.read = difficulty, !.low = difficulty]
    <3>1. lane' = [lane EXCEPT ![l] = r] /\ u.pc = "check"
      BY <1>5, <2>1 DEF CheckRunning, Becomes
    <3>2. r \in LaneRecord
      BY <1>0 DEF LaneRecord
    <3>3. FeesDue(r)
      BY <1>0 DEF LaneOK, LaneRecord, FeesDue
    <3>4. /\ r.pc = "checked" /\ r.read = difficulty /\ r.low = difficulty
          /\ r.pool = u.pool /\ r.batch = u.batch /\ r.cost = u.cost
      BY <1>0 DEF LaneRecord
    <3> HIDE DEF r
    <3>5. LaneOK(l, r)
      BY <1>0, <3>1, <3>2, <3>3, <3>4 DEF LaneOK
    <3>6. QED
      BY <3>1, <3>2, <3>5
  <2>2. CASE ~running
    <3> DEFINE r == [lane[l] EXCEPT !.pc = "build"]
    <3>1. lane' = [lane EXCEPT ![l] = r]
      BY <1>5, <2>2 DEF CheckRunning, Becomes
    <3>2. r \in LaneRecord /\ LaneOK(l, r)
      BY <1>0 DEF LaneOK, LaneRecord, FeesDue
    <3>3. QED
      BY <3>1, <3>2
  <2>3. QED
    BY <2>1, <2>2
<1>6. CASE CheckCost(l)
  <2> DEFINE c == IF Locked(l) THEN Lock ELSE LiveMiningDifficulty(lane[l].read, margin)
             r == [lane[l] EXCEPT !.pc = IF c = lane[l].cost THEN "batch" ELSE "build"]
  <2>1. lane' = [lane EXCEPT ![l] = r] /\ u.pc = "checked"
    BY <1>6 DEF CheckCost, Becomes
  <2>2. c \in Nat /\ (Locked(l) => c = Lock) /\ (~Locked(l) => c >= u.read)
    BY <1>0, LiveCost DEF LaneRecord
  <2>3. u.low <= u.read /\ u.low \in Nat /\ u.read \in Nat
    BY <1>0, <2>1 DEF LaneOK, LaneRecord
  <2> HIDE DEF c
  <2>4. r \in LaneRecord /\ LaneOK(l, r)
    BY <1>0, <2>1, <2>2, <2>3 DEF LaneOK, LaneRecord, FeesDue
  <2>5. QED
    BY <2>1, <2>4
<1>7. CASE MineBatch(l)
  <2> DEFINE fee == Fee(u.count)
             was(n) == IF u.count = 0 THEN 0 ELSE n
             fees == was(u.fees) + (IF fee = "none" THEN 0 ELSE 1)
             ecos == was(u.ecos) + (IF fee = "eco" THEN 1 ELSE 0)
             plain == (u.count = 0 \/ u.plain) /\ ~leased /\ ~prefixed
             r == [u EXCEPT !.pc = "check", !.pool = u.batch * u.cost, !.count = Counted(u.count),
                     !.begun = TRUE, !.plain = plain, !.fees = fees, !.ecos = ecos]
  <2>1. lane' = [lane EXCEPT ![l] = r] /\ u.pc = "batch"
    BY <1>7 DEF MineBatch, Becomes
  <2>2. /\ u.count \in 0..(Cycle - 1) /\ u.fees \in Nat /\ u.ecos \in Nat
        /\ u.batch \in Nat /\ u.cost \in Nat /\ u.plain \in BOOLEAN
    BY <1>0 DEF LaneRecord
  <2>3. Counted(u.count) \in 0..(Cycle - 1) /\ fees \in Nat /\ ecos \in Nat /\ plain \in BOOLEAN
    BY <1>0, <2>2 DEF Counted
  <2>4. u.batch * u.cost \in Nat /\ u.batch * u.cost <= LaneShare /\ u.batch > 0
    BY <1>0, <2>1, <2>2 DEF LaneOK
  <2>5. plain => LET mined == IF Counted(u.count) = 0 THEN Cycle ELSE Counted(u.count)
                     due == mined - (Cycle - FeeSlots)
                     eco == mined - (Cycle - (FeeSlots \div 2))
                 IN  /\ fees = (IF due > 0 THEN due ELSE 0)
                     /\ ecos = (IF Eco /\ eco > 0 THEN eco ELSE 0)
    <3> SUFFICES ASSUME plain PROVE
                 LET mined == IF Counted(u.count) = 0 THEN Cycle ELSE Counted(u.count)
                     due == mined - (Cycle - FeeSlots)
                     eco == mined - (Cycle - (FeeSlots \div 2))
                 IN  /\ fees = (IF due > 0 THEN due ELSE 0)
                     /\ ecos = (IF Eco /\ eco > 0 THEN eco ELSE 0)
      OBVIOUS
    <3> DEFINE half == FeeSlots \div 2
               mined == u.count + 1
    <3>1. half \in Nat /\ half <= FeeSlots
      BY <1>0
    <3>2. (IF Counted(u.count) = 0 THEN Cycle ELSE Counted(u.count)) = mined
      BY <1>0, <2>2 DEF Counted
    <3>3. fee = IF Cycle - u.count > FeeSlots THEN "none"
                ELSE IF Eco /\ Cycle - u.count <= half THEN "eco" ELSE "dev"
      BY DEF Fee
    <3>4. /\ was(u.fees) = IF u.count - (Cycle - FeeSlots) > 0 THEN u.count - (Cycle - FeeSlots) ELSE 0
          /\ was(u.ecos) = IF Eco /\ u.count - (Cycle - half) > 0 THEN u.count - (Cycle - half) ELSE 0
      <4>1. CASE u.count = 0
        BY <1>0, <3>1, <4>1
      <4>2. CASE u.count # 0
        <5>1. u.plain
          BY <4>2
        <5>2. FeesDue(u)
          BY <1>0 DEF LaneOK
        <5>3. QED
          BY <4>2, <5>1, <5>2 DEF FeesDue
      <4>3. QED
        BY <4>1, <4>2
    <3> HIDE DEF half, fee, was
    <3>5. fees = was(u.fees) + (IF fee = "none" THEN 0 ELSE 1) /\ ecos = was(u.ecos) + (IF fee = "eco" THEN 1 ELSE 0)
      OBVIOUS
    <3> HIDE DEF fees, ecos
    <3>6. fees = (IF mined - (Cycle - FeeSlots) > 0 THEN mined - (Cycle - FeeSlots) ELSE 0)
      BY <1>0, <2>2, <3>1, <3>3, <3>4, <3>5
    <3>7. ecos = (IF Eco /\ mined - (Cycle - half) > 0 THEN mined - (Cycle - half) ELSE 0)
      BY <1>0, <2>2, <3>1, <3>3, <3>4, <3>5
    <3>8. QED
      BY <3>2, <3>6, <3>7 DEF half
  <2> HIDE DEF fee, was, fees, ecos, plain
  <2>6. r \in LaneRecord
    BY <1>0, <2>3, <2>4 DEF LaneRecord
  <2>7. /\ r.pc = "check" /\ r.pool = u.batch * u.cost /\ r.count = Counted(u.count) /\ r.begun
        /\ r.plain = plain /\ r.fees = fees /\ r.ecos = ecos /\ r.batch = u.batch /\ r.cost = u.cost
    BY <1>0 DEF LaneRecord
  <2> HIDE DEF r, u
  <2>8. FeesDue(r)
    BY <2>5, <2>7 DEF FeesDue
  <2>9. LaneOK(l, r)
    BY <2>4, <2>6, <2>7, <2>8 DEF LaneOK
  <2>10. QED
    BY <2>1, <2>6, <2>9
<1>9. QED
  BY <1>1, <1>2, <1>3, <1>4, <1>5, <1>6, <1>7 DEF LaneStep

(* The initial state.                                                       *)
LEMMA LanesInitInductive == Init => LanesInductive
<1> SUFFICES ASSUME Init PROVE LanesInductive
  OBVIOUS
<1>1. {running, leased, prefixed} \subseteq BOOLEAN
  BY Zenon DEF Init
<1>2. \A l \in Lanes : NewLane(l) \in LaneRecord
  <2>1. 0 \in 0..(Cycle - 1)
    BY LanesAssumption
  <2>2. QED
    BY <2>1 DEF LaneRecord, NewLane
<1>3. lane \in [Lanes -> LaneRecord]
  BY <1>2 DEF Init
<1>4. ASSUME NEW l \in Lanes PROVE LaneOK(l, lane[l])
  <2>1. lane[l] = NewLane(l)
    BY DEF Init
  <2>2. /\ lane[l].pc = "build" /\ lane[l].pool = 0 /\ lane[l].count = 0 /\ ~lane[l].begun
        /\ lane[l].fees = 0 /\ lane[l].ecos = 0
    BY <2>1 DEF NewLane
  <2>3. FeeSlots \in 0..Cycle /\ Cycle \in Nat
    BY LanesAssumption DEF Init, FeeSlots
  <2>4. FeesDue(lane[l])
    BY <2>2, <2>3 DEF FeesDue
  <2>5. QED
    BY <1>3, <2>2, <2>4, ShareFits DEF LaneOK
<1>5. QED
  BY <1>1, <1>3, <1>4 DEF Init, LanesInductive

(* Every step keeps the invariant: a lane's own, or a change of settings.   *)
LEMMA LanesNextInductive == LanesInductive /\ [Next]_vars => LanesInductive'
<1> SUFFICES ASSUME LanesInductive, [Next]_vars PROVE LanesInductive'
  OBVIOUS
<1>1. ASSUME NEW l \in Lanes, LaneStep(l) PROVE LanesInductive'
  <2>1. PICK r \in LaneRecord : lane' = [lane EXCEPT ![l] = r] /\ LaneOK(l, r)
    BY <1>1, LaneStepOK
  <2>2. UNCHANGED settings
    BY <1>1 DEF LaneStep, ReadDifficulty, BuildUnit, SizeBatch, Retry, CheckRunning, CheckCost,
                BatchFails, MineBatch
  <2>3. \A k \in Lanes : LaneOK(k, lane'[k])
    BY <2>1 DEF LanesInductive
  <2>4. (\A k \in Lanes : LaneOK(k, lane[k]))'
    BY <2>2, <2>3 DEF settings, LaneOK, FeesDue, Locked, Lock, LiveLanes, FeeSlots, Eco
  <2>5. {running, leased, prefixed}' \subseteq BOOLEAN
    BY <2>2, Zenon DEF settings, LanesInductive
  <2>6. QED
    BY <2>1, <2>2, <2>4, <2>5 DEF settings, LanesInductive
<1>2. CASE SetDifficulty
  <2>1. difficulty' \in Nat /\ opt' = opt /\ lane' = Lowered(difficulty')
    BY <1>2, LanesAssumption DEF SetDifficulty
  <2>2. ASSUME NEW k \in Lanes PROVE lane'[k] \in LaneRecord /\ LaneOK(k, lane'[k])
    <3> DEFINE u == lane[k]
               r == [lane[k] EXCEPT !.low = Smaller(@, difficulty')]
    <3>1. lane'[k] = r
      BY <2>1 DEF Lowered
    <3>2. LaneOK(k, u) /\ u \in LaneRecord
      BY LaneFacts
    <3>3. Smaller(u.low, difficulty') \in Nat /\ Smaller(u.low, difficulty') <= u.low
      BY <2>1, <3>2 DEF LaneRecord, Smaller
    <3>4. r \in LaneRecord
      BY <3>2, <3>3 DEF LaneRecord
    <3>5. FeesDue(r)
      BY <3>2 DEF LaneOK, LaneRecord, FeesDue
    <3>6. /\ r.pc = u.pc /\ r.read = u.read /\ r.pool = u.pool /\ r.batch = u.batch /\ r.cost = u.cost
          /\ r.low <= u.low /\ u.low \in Nat /\ r.low \in Nat /\ u.read \in Nat /\ u.cost \in Nat
      BY <3>2, <3>3 DEF LaneRecord
    <3> HIDE DEF r, u
    <3>7. LaneOK(k, r)
      BY <3>2, <3>4, <3>5, <3>6 DEF LaneOK
    <3>8. QED
      BY <3>1, <3>4, <3>7
  <2>3. lane' \in [Lanes -> LaneRecord]
    <3>1. DOMAIN lane' = Lanes /\ lane' = [k \in Lanes |-> lane'[k]]
      BY <2>1 DEF Lowered
    <3>2. QED
      BY <2>2, <3>1
  <2>4. (\A k \in Lanes : LaneOK(k, lane[k]))'
    BY <2>1, <2>2 DEF LaneOK, FeesDue, Locked, Lock, LiveLanes, FeeSlots, Eco
  <2>5. {running, leased, prefixed}' \subseteq BOOLEAN
    BY <1>2, Zenon DEF SetDifficulty, LanesInductive
  <2>6. QED
    BY <1>2, <2>3, <2>4, <2>5 DEF SetDifficulty, LanesInductive
<1>3. CASE SetMargin \/ SetIdentity \/ StopMining \/ UNCHANGED vars
  <2>1. /\ lane' = lane /\ opt' = opt /\ difficulty' = difficulty /\ margin' \in Margins
    BY <1>3 DEF SetMargin, SetIdentity, StopMining, vars, settings, LanesInductive
  <2>2. {running, leased, prefixed}' \subseteq BOOLEAN
    BY <1>3, Zenon DEF SetMargin, SetIdentity, StopMining, vars, settings, LanesInductive
  <2>3. (\A k \in Lanes : LaneOK(k, lane[k]))'
    BY <2>1 DEF LanesInductive, LaneOK, FeesDue, Locked, Lock, LiveLanes, FeeSlots, Eco
  <2>4. QED
    BY <2>1, <2>2, <2>3 DEF LanesInductive
<1>4. QED
  BY <1>1, <1>2, <1>3 DEF Next, AllEnded

(* For any number of streams, any card, table of batch sizes, options and   *)
(* changes of settings between two reads of a lane: the pools of all lanes, *)
(* sized or allocated, fit on the card together; every batch costs at least *)
(* a difficulty that was current since the lane looked, or exactly the      *)
(* lock; and a whole cycle mined for the owner pays exactly the fee.        *)
THEOREM LanesSafe == Spec => []LanesInvariant
<1>1. LanesInductive => LanesInvariant
  <2> SUFFICES ASSUME LanesInductive PROVE LanesInvariant
    OBVIOUS
  <2>1. TypeOK
    <3>1. \A l \in Lanes : LaneOK(l, lane[l])
      BY DEF LanesInductive
    <3>2. QED
      BY <3>1 DEF LanesInductive, TypeOK, LaneOK, LaneRecord
  <2>2. PoolsFit
    BY ClaimsFit
  <2>3. BatchCostCurrent
    BY DEF LanesInductive, LaneOK, BatchCostCurrent, Locked
  <2>4. FeeShare
    BY DEF LanesInductive, LaneOK, FeesDue, FeeShare
  <2>5. QED
    BY <2>1, <2>2, <2>3, <2>4 DEF LanesInvariant
<1>2. QED
  BY <1>1, LanesInitInductive, LanesNextInductive, PTL DEF Spec

-----------------------------------------------------------------------------
(***************************************************************************)
(* Sequences without repetitions.                                          *)
(***************************************************************************)
(* Two sequences with nothing in common, one after the other.               *)
LEMMA ConcatInjective ==
  ASSUME NEW T, NEW s \in Seq(T), NEW t \in Seq(T)
  PROVE  /\ s \o t \in Seq(T) /\ Range(s \o t) = Range(s) \cup Range(t)
         /\ IsInjective(s) /\ IsInjective(t) /\ Range(s) \cap Range(t) = {} => IsInjective(s \o t)
<1>1. /\ s \o t \in Seq(T) /\ DOMAIN (s \o t) = 1..(Len(s) + Len(t)) /\ Len(s) \in Nat /\ Len(t) \in Nat
      /\ DOMAIN s = 1..Len(s) /\ DOMAIN t = 1..Len(t)
      /\ \A i \in 1..(Len(s) + Len(t)) : (s \o t)[i] = IF i <= Len(s) THEN s[i] ELSE t[i - Len(s)]
  BY ConcatProperties, LenProperties
<1>2. Range(s \o t) \subseteq Range(s) \cup Range(t)
  <2> SUFFICES ASSUME NEW i \in 1..(Len(s) + Len(t)) PROVE (s \o t)[i] \in Range(s) \cup Range(t)
    BY <1>1 DEF Range
  <2>1. CASE i <= Len(s)
    BY <1>1, <2>1 DEF Range
  <2>2. CASE ~(i <= Len(s))
    <3>1. i - Len(s) \in 1..Len(t)
      BY <1>1, <2>2
    <3>2. QED
      BY <1>1, <2>2, <3>1 DEF Range
  <2>3. QED
    BY <2>1, <2>2
<1>3. Range(s) \subseteq Range(s \o t)
  <2> SUFFICES ASSUME NEW i \in 1..Len(s) PROVE s[i] \in Range(s \o t)
    BY <1>1 DEF Range
  <2>1. i \in 1..(Len(s) + Len(t)) /\ (s \o t)[i] = s[i]
    BY <1>1
  <2>2. QED
    BY <1>1, <2>1 DEF Range
<1>4. Range(t) \subseteq Range(s \o t)
  <2> SUFFICES ASSUME NEW i \in 1..Len(t) PROVE t[i] \in Range(s \o t)
    BY <1>1 DEF Range
  <2>1. /\ i + Len(s) \in 1..(Len(s) + Len(t)) /\ ~(i + Len(s) <= Len(s))
        /\ i + Len(s) - Len(s) = i
    BY <1>1
  <2>2. (s \o t)[i + Len(s)] = t[i]
    BY <1>1, <2>1
  <2>3. QED
    BY <1>1, <2>1, <2>2 DEF Range
<1>5. ASSUME IsInjective(s), IsInjective(t), Range(s) \cap Range(t) = {},
             NEW i \in 1..(Len(s) + Len(t)), NEW j \in 1..(Len(s) + Len(t)), (s \o t)[i] = (s \o t)[j]
      PROVE  i = j
  <2>1. \A k \in 1..(Len(s) + Len(t)) : ~(k <= Len(s)) => k - Len(s) \in 1..Len(t)
    BY <1>1
  <2>2. CASE i <= Len(s) /\ j <= Len(s)
    BY <1>1, <1>5, <2>2 DEF IsInjective
  <2>3. CASE ~(i <= Len(s)) /\ ~(j <= Len(s))
    <3>1. t[i - Len(s)] = t[j - Len(s)]
      BY <1>1, <1>5, <2>3
    <3>2. i - Len(s) = j - Len(s)
      BY <1>1, <1>5, <2>1, <2>3, <3>1 DEF IsInjective
    <3>3. QED
      BY <1>1, <3>2
  <2>4. CASE i <= Len(s) /\ ~(j <= Len(s))
    <3>1. s[i] \in Range(s) /\ t[j - Len(s)] \in Range(t) /\ s[i] = t[j - Len(s)]
      BY <1>1, <1>5, <2>1, <2>4 DEF Range
    <3>2. QED
      BY <1>5, <3>1
  <2>5. CASE ~(i <= Len(s)) /\ j <= Len(s)
    <3>1. (s \o t)[i] = t[i - Len(s)] /\ (s \o t)[j] = s[j]
      BY <1>1, <2>5
    <3>3. s[j] \in Range(s) /\ t[i - Len(s)] \in Range(t)
      BY <1>1, <2>1, <2>5 DEF Range
    <3>4. QED
      BY <1>5, <3>1, <3>3
  <2>6. QED
    BY <2>2, <2>3, <2>4, <2>5
<1>6. QED
  BY <1>1, <1>2, <1>3, <1>4, <1>5 DEF IsInjective

(* f[i] is the first i of the sequences of ss, one after the other.         *)
Joins(f, ss, n) == f = [i \in 1..n |-> IF i = 1 THEN ss[i] ELSE f[i - 1] \o ss[i]]

(* The recursion of the community modules' FlattenSeq has a solution.       *)
LEMMA JoinExists == ASSUME NEW ss, NEW n \in Nat PROVE \E f : Joins(f, ss, n)
<1> DEFINE Level(k) == \E f : Joins(f, ss, k)
           Bad == {k \in Nat : ~Level(k)}
<1>1. Level(0)
  <2> DEFINE f == [i \in 1..0 |-> 0]
  <2>1. 1..0 = {}
    OBVIOUS
  <2>2. Joins(f, ss, 0)
    BY <2>1 DEF Joins
  <2>3. QED
    BY <2>2
<1>2. ASSUME NEW k \in Nat, Level(k) PROVE Level(k + 1)
  <2>1. PICK f : Joins(f, ss, k)
    BY <1>2
  <2> DEFINE g == [i \in 1..(k + 1) |-> IF i = 1 THEN ss[i] ELSE f[i - 1] \o ss[i]]
  <2>2. \A i \in 1..k : i \in 1..(k + 1) /\ g[i] = f[i]
    <3> SUFFICES ASSUME NEW i \in 1..k PROVE i \in 1..(k + 1) /\ g[i] = f[i]
      OBVIOUS
    <3>1. i \in 1..(k + 1)
      OBVIOUS
    <3>2. f[i] = IF i = 1 THEN ss[i] ELSE f[i - 1] \o ss[i]
      BY <2>1 DEF Joins
    <3>3. g[i] = IF i = 1 THEN ss[i] ELSE f[i - 1] \o ss[i]
      BY <3>1
    <3>4. QED
      BY <3>1, <3>2, <3>3
  <2>3. \A i \in 1..(k + 1) : i # 1 => g[i - 1] = f[i - 1]
    <3> SUFFICES ASSUME NEW i \in 1..(k + 1), i # 1 PROVE g[i - 1] = f[i - 1]
      OBVIOUS
    <3>1. i - 1 \in 1..k
      OBVIOUS
    <3> HIDE DEF g
    <3>2. QED
      BY <2>2, <3>1
  <2>4. \A i \in 1..(k + 1) : (IF i = 1 THEN ss[i] ELSE f[i - 1] \o ss[i]) =
                              (IF i = 1 THEN ss[i] ELSE g[i - 1] \o ss[i])
    <3> HIDE DEF g
    <3>1. QED
      BY <2>3
  <2>5. g = [i \in 1..(k + 1) |-> IF i = 1 THEN ss[i] ELSE g[i - 1] \o ss[i]]
    BY <2>4
  <2>6. QED
    <3> HIDE DEF g
    <3>1. QED
      BY <2>5 DEF Joins
<1>3. Bad = {}
  <2> HIDE DEF Level
  <2>1. SUFFICES ASSUME Bad # {} PROVE FALSE
    OBVIOUS
  <2>2. PICK k \in Bad : \A m \in Bad : k <= m
    BY <2>1, SmallestNat
  <2>3. k # 0 /\ k \in Nat /\ ~Level(k)
    BY <1>1, <2>2
  <2>4. k - 1 \in Nat /\ Level(k - 1)
    BY <2>2, <2>3
  <2>5. Level(k - 1 + 1)
    BY <1>2, <2>4
  <2>6. k - 1 + 1 = k
    BY <2>3
  <2>7. QED
    BY <2>3, <2>5, <2>6
<1>4. QED
  <2> HIDE DEF Level
  <2>1. Level(n)
    BY <1>3
  <2>2. QED
    BY <2>1 DEF Level

(* Sequences without repetitions that have nothing in common, and what is   *)
(* in any of them.                                                          *)
Separate(ss, n, T) ==
  /\ n \in Nat /\ n > 0 /\ ss \in [1..n -> Seq(T)]
  /\ \A i \in 1..n : IsInjective(ss[i])
  /\ \A i, j \in 1..n : i # j => Range(ss[i]) \cap Range(ss[j]) = {}
Joint(ss, n, T) == {x \in T : \E i \in 1..n : x \in Range(ss[i])}

(* What the flattened sequence holds, and that it holds it once.            *)
LEMMA FlattenInjective ==
  ASSUME NEW T, NEW n, NEW ss, Separate(ss, n, T)
  PROVE  /\ FlattenSeq(ss) \in Seq(T) /\ IsInjective(FlattenSeq(ss))
         /\ Range(FlattenSeq(ss)) = Joint(ss, n, T)
<1>0. /\ n \in Nat /\ n > 0 /\ ss \in [1..n -> Seq(T)]
      /\ \A i \in 1..n : IsInjective(ss[i])
      /\ \A i, j \in 1..n : i # j => Range(ss[i]) \cap Range(ss[j]) = {}
  BY DEF Separate
<1> USE <1>0
<1>1. ss \in Seq(Seq(T)) /\ Len(ss) = n
  OBVIOUS
<1> DEFINE P(g) == g = [i \in 1..Len(ss) |-> IF i = 1 THEN ss[i] ELSE g[i - 1] \o ss[i]]
<1>2. \E g : P(g)
  BY <1>1, JoinExists DEF Joins
<1>3. FlattenSeq(ss) = (CHOOSE g : P(g))[Len(ss)]
  BY <1>1 DEF FlattenSeq
<1>4. PICK f : Joins(f, ss, n) /\ FlattenSeq(ss) = f[n]
  <2>1. P(CHOOSE g : P(g))
    <3> HIDE DEF P
    <3>1. QED
      BY <1>2
  <2>2. QED
    BY <1>1, <1>3, <2>1 DEF Joins
<1> DEFINE Good(k) == /\ f[k] \in Seq(T) /\ IsInjective(f[k])
                      /\ Range(f[k]) = {x \in T : \E i \in 1..k : x \in Range(ss[i])}
           Bad == {k \in 1..n : ~Good(k)}
<1>5. \A i \in 1..n : ss[i] \in Seq(T) /\ Range(ss[i]) \subseteq T
  BY LenProperties DEF Range
<1>6. Good(1)
  <2>1. f[1] = ss[1] /\ 1 \in 1..n
    BY <1>4 DEF Joins
  <2>2. \A i : i \in 1..1 <=> i = 1
    OBVIOUS
  <2>3. QED
    BY <1>5, <2>1, <2>2
<1>7. ASSUME NEW k \in 1..n, k # 1, Good(k - 1) PROVE Good(k)
  <2>1. f[k] = f[k - 1] \o ss[k] /\ k - 1 \in 1..n
    <3>1. k - 1 \in 1..n
      BY <1>7
    <3>2. f[k] = IF k = 1 THEN ss[k] ELSE f[k - 1] \o ss[k]
      BY <1>4 DEF Joins
    <3>3. QED
      BY <1>7, <3>1, <3>2
  <2>2. Range(f[k - 1]) \cap Range(ss[k]) = {}
    <3>1. SUFFICES ASSUME NEW x, x \in Range(f[k - 1]), x \in Range(ss[k]) PROVE FALSE
      OBVIOUS
    <3>2. PICK i \in 1..(k - 1) : x \in Range(ss[i])
      BY <1>7, <3>1
    <3>3. i \in 1..n /\ i # k
      OBVIOUS
    <3>4. QED
      BY <3>1, <3>2, <3>3
  <2>3. /\ f[k] \in Seq(T) /\ IsInjective(f[k])
        /\ Range(f[k]) = Range(f[k - 1]) \cup Range(ss[k])
    <3> DEFINE a == f[k - 1]
               b == ss[k]
    <3>1. a \in Seq(T) /\ b \in Seq(T) /\ IsInjective(a) /\ IsInjective(b) /\ Range(a) \cap Range(b) = {}
      BY <1>5, <1>7, <2>2
    <3>2. f[k] = a \o b
      BY <2>1
    <3> HIDE DEF a, b
    <3>3. f[k] \in Seq(T) /\ IsInjective(f[k]) /\ Range(f[k]) = Range(a) \cup Range(b)
      BY <3>1, <3>2, ConcatInjective
    <3>4. QED
      BY <3>3 DEF a, b
  <2>4. \A i : i \in 1..k <=> (i \in 1..(k - 1) \/ i = k)
    BY <1>7
  <2>5. QED
    BY <1>5, <1>7, <2>3, <2>4
<1>8. Bad = {}
  <2> HIDE DEF Good
  <2>1. SUFFICES ASSUME Bad # {} PROVE FALSE
    OBVIOUS
  <2>2. PICK k \in Bad : \A m \in Bad : k <= m
    <3>1. Bad \subseteq Nat
      OBVIOUS
    <3>2. QED
      BY <2>1, <3>1, SmallestNat
  <2>3. k # 1 /\ k \in 1..n /\ ~Good(k)
    BY <1>6, <2>2
  <2>4. k - 1 \in 1..n /\ Good(k - 1)
    BY <2>2, <2>3
  <2>5. QED
    BY <1>7, <2>3, <2>4
<1>9. Good(n)
  <2> HIDE DEF Good
  <2>1. n \in 1..n
    OBVIOUS
  <2>2. QED
    BY <1>8, <2>1
<1>10. QED
  BY <1>4, <1>9 DEF Joint

-----------------------------------------------------------------------------
(***************************************************************************)
(* From a batch's digests to its reports.                                  *)
(***************************************************************************)
(* Every match a batch could have.                                          *)
AllMatches == [key : 0..(Size - 1), kind : Kinds]

(* What is matched of an attempt: its digest, or the whole PHC string.      *)
Seen(i) == IF gpu THEN digest[i] ELSE Phc(i)

(* The matches of the attempts from a up to b, and the finds among all.     *)
Between(a, b) ==
  {m \in AllMatches : a <= m.key /\ m.key < b /\ m.kind \in Seen(m.key) /\ (m.kind = "xuni" => allow)}

Finds == {m \in [key : DOMAIN digest, kind : Kinds] : m.kind \in digest[m.key] /\ (m.kind = "xuni" => allow)}

(* No match is listed twice; together with the reports made the genuine     *)
(* ones left are the finds.                                                 *)
Listed ==
  /\ IsInjective(matches) /\ IsInjective(reports) /\ reports \in Seq(AllMatches)
  /\ DOMAIN buffer = 0..(Chunk - 1)
  /\ at = "match" => begin < Size /\ Range(matches) = Between(0, begin) /\ reports = <<>>
  /\ at = "submit" => /\ Range(reports) \cap Range(matches) = {}
                      /\ Range(reports) \cup {m \in Range(matches) : Genuine(m)} = Finds
  /\ at = "counted" => Range(reports) = Finds

(* Attempts up to next are accounted for.                                   *)
Accounted ==
  /\ at \in {"match", "submit"} => reported + attempts + lost = hashed + next
  /\ at \in {"batch", "counted"} => reported + attempts + lost = hashed

ReportsInductive == MatchTypeOK /\ Listed /\ Accounted

(* The size of a batch is that of its domain.                               *)
LEMMA SizeOf == ASSUME NEW n \in Sizes, NEW f \in [0..(n - 1) -> SUBSET Kinds] PROVE Cardinality(DOMAIN f) = n
<1>1. n \in Nat /\ n > 0
  BY ReportsAssumption
<1>2. Cardinality(0..(n - 1)) = n - 1 - 0 + 1
  BY <1>1, FS_Interval
<1>3. QED
  BY <1>1, <1>2

(* The matches of one attempt.                                              *)
LEMMA AppendMatchesOf ==
  ASSUME NEW key, NEW hash \in SUBSET Kinds, allow \in BOOLEAN
  PROVE  LET s == AppendMatches(key, hash)
             S == {m \in [key : {key}, kind : Kinds] : m.kind \in hash /\ (m.kind = "xuni" => allow)}
         IN  s \in Seq([key : {key}, kind : Kinds]) /\ IsInjective(s) /\ Range(s) = S
<1> DEFINE K == [key : {key}, kind : Kinds]
           a == [key |-> key, kind |-> "target"]
           b == [key |-> key, kind |-> "xuni"]
           s == IF "target" \in hash THEN <<a>> ELSE <<>>
           t == IF allow /\ "xuni" \in hash THEN <<b>> ELSE <<>>
           S == {m \in K : m.kind \in hash /\ (m.kind = "xuni" => allow)}
<1>1. a \in K /\ b \in K /\ a # b /\ \A m \in K : m = a \/ m = b
  BY DEF Kinds
<1>2. a.kind = "target" /\ b.kind = "xuni"
  OBVIOUS
<1>3. AppendMatches(key, hash) = s \o t
  BY DEF AppendMatches
<1>4. S = (IF "target" \in hash THEN {a} ELSE {}) \cup (IF allow /\ "xuni" \in hash THEN {b} ELSE {})
  <2> HIDE DEF K, a, b
  <2>1. QED
    BY <1>1, <1>2
<1> HIDE DEF K, a, b
<1>5. /\ s \in Seq(K) /\ IsInjective(s) /\ Range(s) = (IF "target" \in hash THEN {a} ELSE {})
  BY <1>1 DEF IsInjective, Range
<1>6. /\ t \in Seq(K) /\ IsInjective(t) /\ Range(t) = (IF allow /\ "xuni" \in hash THEN {b} ELSE {})
  BY <1>1 DEF IsInjective, Range
<1>7. Range(s) \cap Range(t) = {}
  BY <1>1, <1>5, <1>6
<1> HIDE DEF s, t
<1>8. s \o t \in Seq(K) /\ IsInjective(s \o t) /\ Range(s \o t) = Range(s) \cup Range(t)
  BY <1>5, <1>6, <1>7, ConcatInjective
<1>9. QED
  BY <1>3, <1>4, <1>5, <1>6, <1>8 DEF K

(* What the invariant says of a batch's digests.                            *)
LEMMA MatchFacts ==
  ASSUME ReportsInductive
  PROVE  /\ Size \in Nat /\ Size > 0 /\ Size \in Sizes /\ begin \in 0..Size /\ next \in 0..Size
         /\ Chunk \in Nat /\ Chunk > 0
         /\ digest \in [0..(Size - 1) -> SUBSET Kinds] /\ DOMAIN digest = 0..(Size - 1)
         /\ matches \in Seq(AllMatches)
         /\ attempts \in Nat /\ reported \in Nat /\ hashed \in Nat /\ lost \in Nat
         /\ \A i \in 0..(Size - 1) : Seen(i) \in SUBSET Kinds /\ digest[i] \subseteq Seen(i)
<1>1. Size \in Sizes /\ digest \in [0..(Size - 1) -> SUBSET Kinds]
  BY DEF ReportsInductive, MatchTypeOK
<1>2. Size \in Nat /\ Size > 0 /\ Chunk \in Nat /\ Chunk > 0
  BY <1>1, ReportsAssumption
<1>3. attempts \in Nat /\ reported \in Nat /\ hashed \in Nat /\ lost \in Nat
  BY DEF ReportsInductive, MatchTypeOK
<1>4. \A i \in 0..(Size - 1) : Seen(i) \in SUBSET Kinds /\ digest[i] \subseteq Seen(i)
  BY <1>1 DEF Seen, Phc, Kinds
<1>5. QED
  BY <1>1, <1>2, <1>3, <1>4 DEF ReportsInductive, MatchTypeOK, AllMatches

(* The parts of the state a batch's matching reads.                         *)
LEMMA SameBatch ==
  ASSUME UNCHANGED <<gpu, salted, allow, digest>>
  PROVE  /\ Size' = Size /\ AllMatches' = AllMatches /\ Finds' = Finds
         /\ \A a, b : Between(a, b)' = Between(a, b)
         /\ \A m : Genuine(m)' <=> Genuine(m)
BY DEF Size, AllMatches, Finds, Between, Seen, Phc, Genuine

(* What a whole batch has matched are its finds and what is not genuine.    *)
LEMMA AllMatched ==
  ASSUME ReportsInductive
  PROVE  {m \in Between(0, Size) : Genuine(m)} = Finds
<1>1. \A m \in AllMatches : m.key \in 0..(Size - 1) /\ m.key >= 0 /\ m.key < Size
  BY MatchFacts DEF AllMatches
<1>2. [key : DOMAIN digest, kind : Kinds] = AllMatches
  BY MatchFacts DEF AllMatches
<1>3. \A m \in AllMatches : Genuine(m) /\ m.kind \in Seen(m.key) <=> m.kind \in digest[m.key]
  BY <1>1, MatchFacts DEF Genuine, Seen
<1>4. QED
  BY <1>1, <1>2, <1>3 DEF Between, Finds

(* The matches of one attempt follow those of the ones before it.           *)
LEMMA AttemptMatches ==
  ASSUME ReportsInductive, NEW i \in 0..(Size - 1), NEW hash, hash = Seen(i)
  PROVE  LET s == AppendMatches(i, hash)
         IN  s \in Seq(AllMatches) /\ IsInjective(s) /\ Range(s) = Between(i, i + 1)
<1> DEFINE K == [key : {i}, kind : Kinds]
           s == AppendMatches(i, hash)
<1>1. K \subseteq AllMatches
  BY DEF AllMatches
<1>2. hash \in SUBSET Kinds
  BY MatchFacts
<1>3. allow \in BOOLEAN
  BY DEF ReportsInductive, MatchTypeOK
<1>4. /\ s \in Seq(K) /\ IsInjective(s)
      /\ Range(s) = {m \in K : m.kind \in hash /\ (m.kind = "xuni" => allow)}
  BY <1>2, <1>3, AppendMatchesOf
<1>5. \A m \in AllMatches : m \in K <=> (i <= m.key /\ m.key < i + 1)
  BY MatchFacts DEF AllMatches
<1>6. \A m \in K : m.key = i
  OBVIOUS
<1> HIDE DEF K, s
<1>7. s \in Seq(AllMatches)
  BY <1>1, <1>4, SeqMonotonic
<1>8. Range(s) = Between(i, i + 1)
  BY <1>1, <1>4, <1>5, <1>6 DEF Between
<1>9. QED
  BY <1>4, <1>7, <1>8 DEF s

(* The matches of a chunk, under the keys of their attempts.                *)
LEMMA ChunkMatchesOf ==
  ASSUME ReportsInductive, at = "match", gpu, NEW buf,
         \A o \in 1..(End - begin) : buf[o - 1] = digest[begin + o - 1]
  PROVE  /\ ChunkMatches(buf) \in Seq(AllMatches) /\ IsInjective(ChunkMatches(buf))
         /\ Range(ChunkMatches(buf)) = Between(begin, End)
<1> DEFINE n == End - begin
           ss == [o \in 1..n |-> AppendMatches(begin + o - 1, buf[o - 1])]
<1>1. n \in Nat /\ n > 0 /\ End \in Nat /\ End <= Size /\ begin \in Nat /\ Size \in Nat
  BY MatchFacts, SMTT(30) DEF ReportsInductive, Listed, End
<1>2. ASSUME NEW o \in 1..n
      PROVE  /\ ss[o] \in Seq(AllMatches) /\ IsInjective(ss[o])
             /\ Range(ss[o]) = Between(begin + o - 1, begin + o)
             /\ begin + o - 1 \in begin..(End - 1)
  <2> DEFINE i == begin + o - 1
  <2>1. i \in 0..(Size - 1) /\ i + 1 = begin + o /\ i \in begin..(End - 1)
    <3> HIDE DEF n
    <3>1. n = End - begin
      BY DEF n
    <3>2. QED
      BY <1>1, <3>1
  <2>2. ss[o] = AppendMatches(i, digest[i]) /\ digest[i] = Seen(i)
    BY DEF Seen
  <2> HIDE DEF i, ss, n
  <2>3. QED
    BY <2>1, <2>2, AttemptMatches DEF i
<1>3. \A o, p \in 1..n : o # p => Range(ss[o]) \cap Range(ss[p]) = {}
  <2> SUFFICES ASSUME NEW o \in 1..n, NEW p \in 1..n, o # p, NEW m, m \in Range(ss[o]), m \in Range(ss[p])
               PROVE  FALSE
    OBVIOUS
  <2>1. m \in Between(begin + o - 1, begin + o) /\ m \in Between(begin + p - 1, begin + p)
    BY <1>2
  <2>2. m.key \in Int /\ begin + o - 1 <= m.key /\ m.key < begin + o /\ begin + p - 1 <= m.key /\ m.key < begin + p
    BY <1>1, <2>1 DEF Between, AllMatches
  <2> HIDE DEF ss
  <2>3. QED
    BY <1>1, <2>2
<1>4. ss \in [1..n -> Seq(AllMatches)] /\ \A o \in 1..n : IsInjective(ss[o])
  BY <1>2
<1>5. ChunkMatches(buf) = FlattenSeq(ss)
  BY DEF ChunkMatches
<1>6. /\ FlattenSeq(ss) \in Seq(AllMatches) /\ IsInjective(FlattenSeq(ss))
      /\ Range(FlattenSeq(ss)) = {m \in AllMatches : \E o \in 1..n : m \in Range(ss[o])}
  <2> HIDE DEF ss, n
  <2>1. QED
    <3>1. Separate(ss, n, AllMatches)
      BY <1>1, <1>3, <1>4 DEF Separate
    <3>2. QED
      BY <3>1, FlattenInjective DEF Joint
<1>7. {m \in AllMatches : \E o \in 1..n : m \in Range(ss[o])} = Between(begin, End)
  <2>1. ASSUME NEW m \in AllMatches, NEW o \in 1..n, m \in Range(ss[o]) PROVE m \in Between(begin, End)
    <3>1. m \in Between(begin + o - 1, begin + o) /\ begin + o - 1 \in begin..(End - 1)
      BY <1>2, <2>1
    <3>2. m.key \in Int
      BY DEF AllMatches
    <3>3. begin <= m.key /\ m.key < End
      BY <1>1, <3>1, <3>2 DEF Between
    <3>4. QED
      BY <3>1, <3>3 DEF Between
  <2>2. ASSUME NEW m \in Between(begin, End) PROVE m \in AllMatches /\ \E o \in 1..n : m \in Range(ss[o])
    <3> DEFINE o == m.key - begin + 1
    <3>1. m \in AllMatches /\ m.key \in Int /\ begin <= m.key /\ m.key < End
      BY DEF Between, AllMatches
    <3>2. o \in 1..n /\ begin + o - 1 = m.key /\ m.key < begin + o /\ begin + o - 1 <= m.key
      BY <1>1, <3>1
    <3> HIDE DEF o, ss, n
    <3>3. m \in Between(begin + o - 1, begin + o)
      BY <3>2 DEF Between
    <3>4. QED
      BY <1>2, <3>1, <3>2, <3>3
  <2>3. QED
    <3> HIDE DEF ss, n
    <3>1. QED
      BY <2>1, <2>2
<1>8. QED
  <2> HIDE DEF ss, n
  <2>1. QED
    BY <1>5, <1>6, <1>7

(* The initial state.                                                       *)
LEMMA ReportsInitInductive == MatchInit => ReportsInductive
<1> SUFFICES ASSUME MatchInit PROVE ReportsInductive
  OBVIOUS
<1>1. PICK n \in Sizes : digest = [i \in 0..(n - 1) |-> {}]
  BY DEF MatchInit
<1>2. digest \in [0..(n - 1) -> SUBSET Kinds]
  BY <1>1
<1>3. Size = n /\ n \in Nat
  BY <1>2, SizeOf, ReportsAssumption DEF Size
<1>4. {gpu, salted, allow} \subseteq BOOLEAN
  BY Zenon DEF MatchInit
<1>5. MatchTypeOK
  BY <1>2, <1>3, <1>4 DEF MatchInit, MatchTypeOK
<1>6. Listed /\ Accounted
  BY DEF MatchInit, Listed, Accounted, IsInjective
<1>7. QED
  BY <1>5, <1>6 DEF ReportsInductive

(* A new batch starts with nothing matched and nothing reported.            *)
LEMMA BeginBatchInductive == ReportsInductive /\ BeginBatch => ReportsInductive'
<1> SUFFICES ASSUME ReportsInductive, BeginBatch PROVE ReportsInductive'
  OBVIOUS
<1>1. PICK n \in Sizes : digest' \in [0..(n - 1) -> SUBSET Kinds]
  BY DEF BeginBatch, NewBatch
<1>2. Size' = n /\ n \in Nat /\ n > 0
  BY <1>1, SizeOf, ReportsAssumption DEF Size
<1>3. {gpu, salted, allow}' \subseteq BOOLEAN
  BY Zenon DEF BeginBatch, NewBatch, ReportsInductive, MatchTypeOK
<1>4. MatchTypeOK'
  BY <1>1, <1>2, <1>3, MatchFacts DEF BeginBatch, NewBatch, MatchTypeOK
<1>6. /\ matches' = <<>> /\ reports' = <<>> /\ begin' = 0 /\ at' = "match" /\ DOMAIN buffer' = 0..(Chunk - 1)
  BY DEF BeginBatch, NewBatch
<1>5. Between(0, begin)' = {}
  <2>1. \A m \in AllMatches' : ~(0 <= m.key /\ m.key < begin')
    BY <1>2, <1>6 DEF AllMatches
  <2>2. QED
    BY <2>1 DEF Between
<1>7. Range(<<>>) = {} /\ IsInjective(<<>>)
  BY DEF Range, IsInjective
<1>8. Listed'
  <2>1. Range(matches') = {} /\ IsInjective(matches') /\ IsInjective(reports')
    BY <1>6, <1>7
  <2>2. reports' \in Seq(AllMatches')
    BY <1>6
  <2>3. begin' < Size'
    BY <1>2, <1>6
  <2>4. QED
    BY <1>5, <1>6, <2>1, <2>2, <2>3 DEF Listed
<1>9. Accounted'
  BY MatchFacts DEF BeginBatch, NewBatch, ReportsInductive, Accounted
<1>10. QED
  BY <1>4, <1>8, <1>9 DEF ReportsInductive

(* The matches found so far, when those of the attempts up to e are added.  *)
LEMMA MatchesGrow ==
  ASSUME ReportsInductive, at = "match", NEW e \in (begin + 1)..Size, NEW s \in Seq(AllMatches),
         IsInjective(s), Range(s) = Between(begin, e)
  PROVE  /\ matches \o s \in Seq(AllMatches) /\ IsInjective(matches \o s)
         /\ Range(matches \o s) = Between(0, e)
<1>1. Range(matches) = Between(0, begin) /\ IsInjective(matches) /\ begin \in Nat /\ Size \in Nat
  BY MatchFacts DEF ReportsInductive, Listed
<1>2. \A m \in AllMatches : m.key \in Nat
  BY MatchFacts DEF AllMatches
<1>3. Range(matches) \cap Range(s) = {}
  <2> SUFFICES ASSUME NEW m, m \in Between(0, begin), m \in Between(begin, e) PROVE FALSE
    BY <1>1
  <2>1. m.key \in Nat /\ m.key < begin /\ begin <= m.key
    BY <1>2 DEF Between
  <2>2. QED
    BY <1>1, <2>1
<1>4. Between(0, begin) \cup Between(begin, e) = Between(0, e)
  <2>1. \A m \in AllMatches : (0 <= m.key /\ m.key < begin) \/ (begin <= m.key /\ m.key < e) <=> (0 <= m.key /\ m.key < e)
    BY <1>1, <1>2
  <2>2. QED
    BY <2>1 DEF Between
<1>5. matches \in Seq(AllMatches)
  BY MatchFacts
<1>6. QED
  <2>1. /\ matches \o s \in Seq(AllMatches) /\ IsInjective(matches \o s)
        /\ Range(matches \o s) = Range(matches) \cup Range(s)
    BY <1>1, <1>3, <1>5, ConcatInjective
  <2>2. QED
    BY <1>1, <1>4, <2>1

(* Both backends: more attempts are matched, the last of them end the phase. *)
LEMMA MatchingInductive ==
  ASSUME ReportsInductive, at = "match", NEW e \in (begin + 1)..Size, NEW s \in Seq(AllMatches),
         IsInjective(s), Range(s) = Between(begin, e),
         matches' = matches \o s, begin' = e, at' = (IF e = Size THEN "submit" ELSE at),
         DOMAIN buffer' = 0..(Chunk - 1),
         UNCHANGED <<gpu, salted, allow, digest, next, attempts, reports, reported, hashed, lost>>
  PROVE  ReportsInductive'
<1>1. /\ matches' \in Seq(AllMatches) /\ IsInjective(matches') /\ Range(matches') = Between(0, e)
  BY MatchesGrow
<1>2. e \in Nat /\ Size \in Nat /\ e <= Size
  BY MatchFacts
<1>3. {gpu, salted, allow}' \subseteq BOOLEAN
  BY Zenon DEF ReportsInductive, MatchTypeOK
<1>4. MatchTypeOK'
  BY <1>1, <1>2, <1>3, SameBatch DEF ReportsInductive, MatchTypeOK, AllMatches
<1>5. Accounted'
  BY DEF ReportsInductive, Accounted
<1>6. reports' = <<>> /\ Range(<<>>) = {} /\ IsInjective(<<>>) /\ <<>> \in Seq(AllMatches)
  BY DEF ReportsInductive, Listed, Range, IsInjective
<1>7. CASE e = Size
  <2>1. {m \in Range(matches') : Genuine(m)'} = Finds'
    BY <1>1, <1>7, AllMatched, SameBatch
  <2>2. Listed'
    BY <1>1, <1>6, <1>7, <2>1, SameBatch DEF Listed
  <2>3. QED
    BY <1>4, <1>5, <2>2 DEF ReportsInductive
<1>8. CASE e # Size
  <2>1. Listed'
    BY <1>1, <1>2, <1>6, <1>8, SameBatch DEF Listed
  <2>2. QED
    BY <1>4, <1>5, <2>1 DEF ReportsInductive
<1>9. QED
  BY <1>7, <1>8

(* GPU: a chunk more, read from the buffer it was just finalized into.      *)
LEMMA FinalizeChunkInductive == ReportsInductive /\ FinalizeChunk => ReportsInductive'
<1> SUFFICES ASSUME ReportsInductive, FinalizeChunk PROVE ReportsInductive'
  OBVIOUS
<1>1. /\ at = "match" /\ gpu /\ begin < Size /\ DOMAIN buffer = 0..(Chunk - 1)
  BY DEF FinalizeChunk, ReportsInductive, Listed
<1>2. End \in (begin + 1)..Size /\ End <= begin + Chunk /\ begin \in Nat /\ Chunk \in Nat /\ Size \in Nat
  BY <1>1, MatchFacts DEF End
<1>3. buffer' = [o \in 0..(Chunk - 1) |-> IF begin + o < End THEN digest[begin + o] ELSE buffer[o]]
  BY <1>1 DEF FinalizeChunk
<1>4. \A o \in 1..(End - begin) : buffer'[o - 1] = digest[begin + o - 1]
  <2> SUFFICES ASSUME NEW o \in 1..(End - begin) PROVE buffer'[o - 1] = digest[begin + o - 1]
    OBVIOUS
  <2>1. o - 1 \in 0..(Chunk - 1) /\ begin + (o - 1) < End /\ begin + (o - 1) = begin + o - 1
    BY <1>2
  <2>2. QED
    BY <1>3, <2>1
<1> DEFINE s == ChunkMatches(buffer')
<1>5. s \in Seq(AllMatches) /\ IsInjective(s) /\ Range(s) = Between(begin, End)
  BY <1>1, <1>4, ChunkMatchesOf
<1>6. DOMAIN buffer' = 0..(Chunk - 1)
  BY <1>3
<1>7. /\ matches' = matches \o s /\ begin' = End /\ at' = (IF End = Size THEN "submit" ELSE at)
      /\ UNCHANGED <<gpu, salted, allow, digest, next, attempts, reports, reported, hashed, lost>>
  BY DEF FinalizeChunk
<1> HIDE DEF s
<1>8. QED
  BY <1>1, <1>2, <1>5, <1>6, <1>7, MatchingInductive

(* CPU: an attempt more.                                                    *)
LEMMA HashAttemptInductive == ReportsInductive /\ HashAttempt => ReportsInductive'
<1> SUFFICES ASSUME ReportsInductive, HashAttempt PROVE ReportsInductive'
  OBVIOUS
<1>1. /\ at = "match" /\ ~gpu /\ begin < Size /\ DOMAIN buffer = 0..(Chunk - 1)
  BY DEF HashAttempt, ReportsInductive, Listed
<1>2. begin + 1 \in (begin + 1)..Size /\ begin \in 0..(Size - 1)
  BY <1>1, MatchFacts
<1>3. Phc(begin) = Seen(begin)
  BY <1>1 DEF Seen
<1> DEFINE s == AppendMatches(begin, Phc(begin))
           e == begin + 1
<1>4. s \in Seq(AllMatches) /\ IsInjective(s) /\ Range(s) = Between(begin, e)
  BY <1>2, <1>3, AttemptMatches
<1>5. /\ matches' = matches \o s /\ begin' = e /\ at' = (IF e = Size THEN "submit" ELSE at)
      /\ DOMAIN buffer' = 0..(Chunk - 1)
      /\ UNCHANGED <<gpu, salted, allow, digest, next, attempts, reports, reported, hashed, lost>>
  BY <1>1 DEF HashAttempt
<1>6. e \in (begin + 1)..Size
  BY <1>2
<1> HIDE DEF s, e
<1>7. QED
  BY <1>1, <1>4, <1>5, <1>6, MatchingInductive

(* Taking the first of a sequence without repetitions.                      *)
LEMMA TakeHead ==
  ASSUME NEW T, NEW s \in Seq(T), s # <<>>, IsInjective(s)
  PROVE  /\ Head(s) \in T /\ Tail(s) \in Seq(T) /\ IsInjective(Tail(s))
         /\ Head(s) \notin Range(Tail(s)) /\ Range(s) = {Head(s)} \cup Range(Tail(s))
<1>1. /\ Len(s) \in Nat /\ Len(s) > 0 /\ DOMAIN s = 1..Len(s)
      /\ Head(s) = s[1] /\ Tail(s) \in Seq(T) /\ DOMAIN Tail(s) = 1..(Len(s) - 1)
      /\ \A i \in 1..(Len(s) - 1) : Tail(s)[i] = s[i + 1]
  OBVIOUS
<1>2. \A i \in 1..(Len(s) - 1) : i + 1 \in 1..Len(s) /\ i + 1 # 1
  BY <1>1
<1>3. IsInjective(Tail(s)) /\ Head(s) \notin Range(Tail(s))
  BY <1>1, <1>2 DEF IsInjective, Range
<1>4. Range(Tail(s)) \subseteq Range(s) /\ Head(s) \in Range(s) /\ Head(s) \in T
  BY <1>1, <1>2 DEF Range
<1>5. Range(s) \subseteq {Head(s)} \cup Range(Tail(s))
  <2> SUFFICES ASSUME NEW i \in 1..Len(s), i # 1 PROVE s[i] \in Range(Tail(s))
    BY <1>1 DEF Range
  <2>1. i - 1 \in 1..(Len(s) - 1) /\ i - 1 + 1 = i
    BY <1>1
  <2>2. QED
    BY <1>1, <2>1 DEF Range
<1>6. QED
  BY <1>1, <1>3, <1>4, <1>5

(* A match becomes a report, or is dropped when it is not genuine.          *)
LEMMA SubmitMatchInductive == ReportsInductive /\ SubmitMatch => ReportsInductive'
<1> SUFFICES ASSUME ReportsInductive, SubmitMatch PROVE ReportsInductive'
  OBVIOUS
<1> DEFINE m == Head(matches)
<1>1. /\ at = "submit" /\ at' = "submit" /\ matches # <<>> /\ matches' = Tail(matches)
      /\ UNCHANGED <<gpu, salted, allow, digest, buffer, begin, hashed, lost>>
      /\ next' = NextAttempt(m)
  BY DEF SubmitMatch
<1>2. /\ IsInjective(matches) /\ IsInjective(reports) /\ reports \in Seq(AllMatches)
      /\ Range(reports) \cap Range(matches) = {} /\ DOMAIN buffer = 0..(Chunk - 1)
      /\ Range(reports) \cup {x \in Range(matches) : Genuine(x)} = Finds
      /\ reported + attempts + lost = hashed + next
  BY <1>1 DEF ReportsInductive, Listed, Accounted
<1>3. /\ m \in AllMatches /\ matches' \in Seq(AllMatches) /\ IsInjective(matches')
      /\ m \notin Range(matches') /\ Range(matches) = {m} \cup Range(matches')
  BY <1>1, <1>2, MatchFacts, TakeHead
<1>4. m.key \in Nat /\ m.key < Size /\ next \in Nat /\ next <= Size /\ Size \in Nat
  BY <1>3, MatchFacts DEF AllMatches
<1> HIDE DEF m
<1>5. /\ SinceLast(m) \in Nat /\ NextAttempt(m) \in 0..Size /\ NextAttempt(m) = next + SinceLast(m)
  BY <1>4 DEF SinceLast, NextAttempt
<1>6. {gpu, salted, allow}' \subseteq BOOLEAN
  BY <1>1, Zenon DEF ReportsInductive, MatchTypeOK
<1>a. attempts \in Nat /\ reported \in Nat /\ hashed \in Nat /\ lost \in Nat
  BY MatchFacts
<1>7. Accounted' /\ attempts' \in Nat /\ reported' \in Nat
  <2>1. CASE Genuine(m)
    <3>1. reported' = reported + (attempts + SinceLast(m)) /\ attempts' = 0
      BY <2>1 DEF SubmitMatch, m
    <3>2. reported' + attempts' + lost' = hashed' + next'
      <4>1. lost' = lost /\ hashed' = hashed /\ next' = next + SinceLast(m)
        BY <1>1, <1>5
      <4>2. reported + attempts + lost = hashed + next /\ SinceLast(m) \in Nat /\ next \in Nat
        BY <1>2, <1>4, <1>5
      <4>3. QED
        BY <1>a, <3>1, <4>1, <4>2
    <3>3. QED
      BY <1>1, <1>5, <1>a, <3>1, <3>2 DEF Accounted
  <2>2. CASE ~Genuine(m)
    <3>1. reported' = reported /\ attempts' = attempts + SinceLast(m)
      BY <2>2 DEF SubmitMatch, m
    <3>2. reported' + attempts' + lost' = hashed' + next'
      <4>1. lost' = lost /\ hashed' = hashed /\ next' = next + SinceLast(m)
        BY <1>1, <1>5
      <4>2. reported + attempts + lost = hashed + next /\ SinceLast(m) \in Nat /\ next \in Nat
        BY <1>2, <1>4, <1>5
      <4>3. QED
        BY <1>a, <3>1, <4>1, <4>2
    <3>3. QED
      BY <1>1, <1>5, <1>a, <3>1, <3>2 DEF Accounted
  <2>3. QED
    BY <2>1, <2>2
<1>8. MatchTypeOK'
  BY <1>1, <1>3, <1>5, <1>6, <1>7, MatchFacts, SameBatch DEF MatchTypeOK, AllMatches
<1>9. Listed'
  <2>1. CASE Genuine(m)
    <3>1. reports' = reports \o <<m>>
      <4>1. reports' = Append(reports, m)
        BY <2>1 DEF SubmitMatch, m
      <4>2. QED
        BY <1>2, <1>3, <4>1
    <3>2. <<m>> \in Seq(AllMatches) /\ IsInjective(<<m>>) /\ Range(<<m>>) = {m}
      BY <1>3 DEF IsInjective, Range
    <3>3. Range(reports) \cap {m} = {}
      BY <1>2, <1>3
    <3>4. reports' \in Seq(AllMatches) /\ IsInjective(reports') /\ Range(reports') = Range(reports) \cup {m}
      <4> DEFINE t == <<m>>
      <4>1. t \in Seq(AllMatches) /\ IsInjective(t) /\ Range(t) = {m} /\ reports' = reports \o t
        BY <3>1, <3>2
      <4> HIDE DEF t
      <4>2. Range(reports) \cap Range(t) = {}
        BY <3>3, <4>1
      <4>3. reports \o t \in Seq(AllMatches) /\ IsInjective(reports \o t) /\ Range(reports \o t) = Range(reports) \cup Range(t)
        BY <1>2, <4>1, <4>2, ConcatInjective
      <4>4. QED
        BY <4>1, <4>3
    <3>5. /\ Range(reports') \cap Range(matches') = {}
          /\ Range(reports') \cup {x \in Range(matches') : Genuine(x)} = Finds
      BY <1>2, <1>3, <2>1, <3>4
    <3>6. QED
      BY <1>1, <1>2, <1>3, <3>4, <3>5, SameBatch DEF Listed
  <2>2. CASE ~Genuine(m)
    <3>1. reports' = reports
      BY <2>2 DEF SubmitMatch, m
    <3>2. /\ Range(reports') \cap Range(matches') = {}
          /\ Range(reports') \cup {x \in Range(matches') : Genuine(x)} = Finds
      BY <1>2, <1>3, <2>2, <3>1
    <3>3. QED
      BY <1>1, <1>2, <1>3, <3>1, <3>2, SameBatch DEF Listed
  <2>3. QED
    BY <2>1, <2>2
<1>10. QED
  BY <1>7, <1>8, <1>9 DEF ReportsInductive

(* With the last match gone the reports are the finds.                      *)
LEMMA CountRestInductive == ReportsInductive /\ CountRest => ReportsInductive'
<1> SUFFICES ASSUME ReportsInductive, CountRest PROVE ReportsInductive'
  OBVIOUS
<1>1. /\ at = "submit" /\ at' = "counted" /\ matches = <<>>
      /\ UNCHANGED <<gpu, salted, allow, digest, buffer, begin, matches, next, reports, reported, lost>>
      /\ attempts' = attempts + (Size - next) /\ hashed' = hashed + Size
  BY DEF CountRest
<1>2. Range(reports) = Finds
  BY <1>1 DEF ReportsInductive, Listed, Range
<1>3. Accounted' /\ attempts' \in Nat /\ hashed' \in Nat
  <2>1. /\ attempts \in Nat /\ reported \in Nat /\ hashed \in Nat /\ lost \in Nat
        /\ Size \in Nat /\ next \in Nat /\ next <= Size
    BY MatchFacts
  <2>2. reported + attempts + lost = hashed + next
    BY <1>1 DEF ReportsInductive, Accounted
  <2>3. reported' + attempts' + lost' = hashed' /\ attempts' \in Nat /\ hashed' \in Nat
    BY <1>1, <2>1, <2>2
  <2>4. QED
    BY <1>1, <2>3 DEF Accounted
<1>4. {gpu, salted, allow}' \subseteq BOOLEAN
  BY <1>1, Zenon DEF ReportsInductive, MatchTypeOK
<1>5. MatchTypeOK'
  BY <1>1, <1>3, <1>4, MatchFacts, SameBatch DEF ReportsInductive, MatchTypeOK
<1>6. Listed'
  BY <1>1, <1>2, SameBatch DEF ReportsInductive, Listed
<1>7. QED
  BY <1>3, <1>5, <1>6 DEF ReportsInductive

(* Between batches attempts are carried, or lost with the unit.             *)
LEMMA NextBatchInductive == ReportsInductive /\ (Continue \/ Rebuild) => ReportsInductive'
<1> SUFFICES ASSUME ReportsInductive, Continue \/ Rebuild PROVE ReportsInductive'
  OBVIOUS
<1>1. /\ at = "counted" /\ at' = "batch"
      /\ UNCHANGED <<gpu, salted, allow, digest, buffer, begin, matches, next, reports, reported, hashed>>
      /\ attempts' \in Nat /\ lost' \in Nat
  BY MatchFacts DEF Continue, Rebuild
<1>2. Accounted'
  <2>1. attempts \in Nat /\ reported \in Nat /\ hashed \in Nat /\ lost \in Nat
    BY MatchFacts
  <2>2. reported + attempts + lost = hashed
    BY <1>1 DEF ReportsInductive, Accounted
  <2>3. reported' + attempts' + lost' = hashed'
    <3>1. reported' = reported /\ hashed' = hashed
      BY <1>1
    <3>2. \/ attempts' = attempts /\ lost' = lost
          \/ attempts' = 0 /\ lost' = lost + attempts
      BY DEF Continue, Rebuild
    <3>3. QED
      BY <2>1, <2>2, <3>1, <3>2
  <2>4. QED
    BY <1>1, <2>3 DEF Accounted
<1>3. {gpu, salted, allow}' \subseteq BOOLEAN
  BY <1>1, Zenon DEF ReportsInductive, MatchTypeOK
<1>4. MatchTypeOK'
  BY <1>1, <1>3, MatchFacts, SameBatch DEF ReportsInductive, MatchTypeOK
<1>5. Listed'
  BY <1>1, SameBatch DEF ReportsInductive, Listed
<1>6. QED
  BY <1>2, <1>4, <1>5 DEF ReportsInductive

(* A sequence without repetitions is as long as its set of elements.        *)
LEMMA LenOfInjective == ASSUME NEW T, NEW s \in Seq(T), IsInjective(s) PROVE Len(s) = Cardinality(Range(s))
<1>1. Len(s) \in Nat /\ DOMAIN s = 1..Len(s) /\ s \in [1..Len(s) -> Range(s)]
  BY LenProperties DEF Range
<1>2. s \in Bijection(1..Len(s), Range(s))
  BY <1>1 DEF Bijection, Injection, Surjection, IsInjective, Range
<1>3. ExistsBijection(1..Len(s), Range(s))
  BY <1>2 DEF ExistsBijection
<1>4. QED
  BY <1>1, <1>3, FS_CountingElements

(* On both paths, for any chunk and batch size, any digests and any number  *)
(* of batches: every find of a batch is handed to the callback exactly once *)
(* under the key it was hashed from, nothing else is, and every attempt is  *)
(* claimed by one report, still carried, or gone with a rebuilt unit.       *)
THEOREM ReportsSafe == MatchSpec => []ReportsInvariant
<1>1. ReportsInductive /\ [MatchNext]_matchVars => ReportsInductive'
  <2> SUFFICES ASSUME ReportsInductive, [MatchNext]_matchVars PROVE ReportsInductive'
    OBVIOUS
  <2>1. CASE UNCHANGED matchVars
    <3>1. UNCHANGED <<gpu, salted, allow, digest, buffer, begin, matches, next, reports, reported, hashed, lost, attempts, at>>
      BY <2>1 DEF matchVars
    <3>2. MatchTypeOK'
      BY <3>1, SameBatch DEF ReportsInductive, MatchTypeOK
    <3>3. Listed' /\ Accounted'
      BY <3>1, SameBatch DEF ReportsInductive, Listed, Accounted
    <3>4. QED
      BY <3>2, <3>3 DEF ReportsInductive
  <2>2. QED
    BY <2>1, BeginBatchInductive, FinalizeChunkInductive, HashAttemptInductive, SubmitMatchInductive,
       CountRestInductive, NextBatchInductive DEF MatchNext, Mined
<1>2. ReportsInductive => ReportsInvariant
  <2> SUFFICES ASSUME ReportsInductive PROVE ReportsInvariant
    OBVIOUS
  <2>1. AttemptsConserved
    BY DEF ReportsInductive, Accounted, AttemptsConserved
  <2>2. FindsReported
    <3>1. Len(reports) = Cardinality(Range(reports))
      BY LenOfInjective DEF ReportsInductive, Listed
    <3>2. QED
      BY <3>1 DEF ReportsInductive, Listed, Finds, FindsReported
  <2>3. QED
    BY <2>1, <2>2 DEF ReportsInvariant, ReportsInductive
<1>3. QED
  BY <1>1, <1>2, ReportsInitInductive, PTL DEF MatchSpec
===============================================================================
