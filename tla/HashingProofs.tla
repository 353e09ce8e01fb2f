---------------------------- MODULE HashingProofs ----------------------------
(***************************************************************************)
(* Proofs about the hashing stack of a lane.                               *)
(*                                                                         *)
(* FirstBlockWorkers, for every batch size, number of hardware threads,    *)
(* worker limit and chunk size: both ways to hand out the first blocks     *)
(* fill every one of them exactly once.                                    *)
(*                                                                         *)
(* HashRunner, for all shapes and any number of failing CUDA calls: a      *)
(* batch runs on buffers of its own size, its output is its own, and no    *)
(* device memory leaks.                                                    *)
(*                                                                         *)
(* KernelFill, for every batch, segment and word size and any packing of   *)
(* warps: every hash is filled once, completely, from blocks it has.       *)
(*                                                                         *)
(* FirstBlockHash, for every block, digest, key, salt and output size and  *)
(* every width of the counter: the three implementations hash the same     *)
(* message, however it is cut, and put out the same, right first blocks.   *)
(***************************************************************************)
EXTENDS HashRunner, FirstBlockWorkers, KernelFill, FirstBlockHash, FiniteSetTheorems, SequenceTheorems,
        WellFoundedInduction, TLAPS
-----------------------------------------------------------------------------
(* FirstBlockWorkers *)

(* Division that rounds up covers the dividend.                             *)
LEMMA CeilingCovers ==
  ASSUME NEW n \in Nat \ {0}, NEW k \in Nat \ {0}
  PROVE  /\ (n + k - 1) \div k \in Nat \ {0}
         /\ k * ((n + k - 1) \div k) >= n
<1> DEFINE q == (n + k - 1) \div k
<1>1. q \in Int /\ k * q <= n + k - 1 /\ n + k - 1 < k * q + k
  OBVIOUS
<1> HIDE DEF q
<1>2. k * q \in Int /\ k * q >= n
  <2>1. k * q \in Int
    BY <1>1
  <2>2. QED
    BY <1>1, <2>1
<1>3. q >= 1
  <2>1. CASE q <= 0
    <3>1. k * q <= 0
      BY <1>1, <2>1
    <3>2. QED
      BY <1>2, <3>1
  <2>2. QED
    BY <1>1, <2>1
<1>4. QED
  BY <1>1, <1>2, <1>3 DEF q

(* At least one worker; a chunk has at least one attempt; all static ranges *)
(* together cover the batch.                                                *)
LEMMA WorkerShapes ==
  ASSUME req \in [attempts : Batches, threads : HardwareThreads, cap : Caps, chunk : Chunks]
  PROVE  /\ req.attempts \in Nat \ {0}
         /\ WorkerCount \in Nat \ {0}
         /\ ChunkSize \in Nat \ {0}
         /\ Dynamic \in BOOLEAN
         /\ ~Dynamic => WorkerCount * ChunkSize >= req.attempts
<1>1. /\ req.attempts \in Nat \ {0} /\ req.threads \in Nat
      /\ req.cap \in Nat /\ req.chunk \in Nat
  BY WorkersAssumption
<1>2. WorkerCount \in Nat \ {0}
  BY <1>1, WorkersAssumption DEF WorkerCount, Least
<1>3. Dynamic \in BOOLEAN
  BY DEF Dynamic
<1>4. CASE Dynamic
  BY <1>1, <1>2, <1>3, <1>4 DEF Dynamic, ChunkSize, Least
<1>5. CASE ~Dynamic
  <2>1. ChunkSize = (req.attempts + WorkerCount - 1) \div WorkerCount
    BY <1>5 DEF ChunkSize, Dynamic
  <2>2. QED
    BY <1>1, <1>2, <1>3, <1>5, <2>1, CeilingCovers
<1>6. QED
  BY <1>3, <1>4, <1>5
-----------------------------------------------------------------------------
Started == 0..(started - 1)
Places == 0..(req.attempts - 1)
Holds(r, i) == r.lo <= i /\ i < r.hi

(* What has been handed out: everything below this place.                   *)
Frontier == Least(req.attempts, IF Dynamic THEN next ELSE started * ChunkSize)

(* A worker owns only what was handed out, and one that returned owns       *)
(* nothing.                                                                 *)
RangesInside ==
  \A u \in Started : range[u].hi <= Frontier /\ (u \in done => Idle(u))

(* No place is owned twice.                                                 *)
Disjoint == \A z, u \in Started : \A i \in Places : Holds(range[z], i) /\ Holds(range[u], i) => z = u

(* A place is not yet handed out, owned and empty, or filled once.          *)
Accounted ==
  \A i \in Places :
    \/ filled[i] = 0 /\ (i >= Frontier \/ \E u \in Started : Holds(range[u], i))
    \/ filled[i] = 1 /\ i < Frontier /\ \A u \in Started : ~Holds(range[u], i)

(* A worker of the shared counter returns only when nothing is left; the    *)
(* joining thread waits for all of them.                                    *)
ReturnedLast ==
  /\ Dynamic /\ done # {} => next >= req.attempts
  /\ joined => AllLaunched /\ done = Started

Fillers == WorkersTypeOK /\ RangesInside /\ Disjoint /\ Accounted /\ ReturnedLast

(* Nothing is handed out before the first worker starts.                    *)
LEMMA FillersInit == WorkersInit => Fillers
<1> SUFFICES ASSUME WorkersInit PROVE Fillers
  OBVIOUS
<1>1. /\ req.attempts \in Nat \ {0} /\ WorkerCount \in Nat \ {0} /\ ChunkSize \in Nat \ {0}
      /\ Dynamic \in BOOLEAN
  BY WorkerShapes DEF WorkersInit
<1>2. Started = {}
  BY DEF WorkersInit, Started
<1>3. Frontier = 0
  BY <1>1 DEF WorkersInit, Frontier, Least
<1>4. WorkersTypeOK
  <2>1. range \in [{} -> [lo : Nat, hi : 0..req.attempts]] /\ 0..(started - 1) = {}
    BY DEF WorkersInit
  <2>2. filled \in [0..(req.attempts - 1) -> Nat]
    BY DEF WorkersInit
  <2>3. started \in 0..WorkerCount /\ next \in Nat
    BY <1>1 DEF WorkersInit
  <2>4. joined \in BOOLEAN /\ done \subseteq 0..(started - 1)
    BY Zenon DEF WorkersInit
  <2>5. QED
    BY <2>1, <2>2, <2>3, <2>4 DEF WorkersInit, WorkersTypeOK
<1>5. RangesInside /\ Disjoint
  BY <1>2 DEF RangesInside, Disjoint
<1>6. Accounted
  BY <1>1, <1>3 DEF WorkersInit, Accounted, Places
<1>7. ReturnedLast
  BY DEF WorkersInit, ReturnedLast
<1>8. QED
  BY <1>4, <1>5, <1>6, <1>7 DEF Fillers

(* A static worker is launched with the next range, which begins where what *)
(* was handed out so far ends.                                              *)
LEMMA LaunchInv == Fillers /\ LaunchWorker => Fillers'
<1> SUFFICES ASSUME Fillers, LaunchWorker PROVE Fillers'
  OBVIOUS
<1>1. /\ req.attempts \in Nat \ {0} /\ WorkerCount \in Nat \ {0} /\ ChunkSize \in Nat \ {0}
      /\ Dynamic \in BOOLEAN
  BY WorkerShapes DEF Fillers, WorkersTypeOK
<1>2. /\ req' = req /\ next' = next /\ done' = done /\ joined' = joined /\ filled' = filled
      /\ started' = started + 1 /\ started \in Nat /\ started < WorkerCount /\ Launches(started)
  BY <1>1 DEF LaunchWorker, AllLaunched, Fillers, WorkersTypeOK
<1>3. /\ WorkerCount' = WorkerCount /\ ChunkSize' = ChunkSize /\ Dynamic' = Dynamic /\ Places' = Places
  BY <1>2 DEF WorkerCount, ChunkSize, Dynamic, Places
<1>4. Started' = Started \cup {started} /\ started \notin Started
  BY <1>2 DEF Started
<1> DEFINE new == IF Dynamic THEN [lo |-> 0, hi |-> 0] ELSE StaticRange(started)
<1>5. /\ \A u \in Started : range'[u] = range[u]
      /\ range'[started] = new
      /\ range' \in [0..started -> [lo : Nat, hi : 0..req.attempts]]
  <2>1. \A u \in 0..started : range'[u] = IF u < started THEN range[u]
                                 ELSE IF Dynamic THEN [lo |-> 0, hi |-> 0] ELSE StaticRange(u)
    BY DEF LaunchWorker
  <2>2. range' = [u \in 0..started |-> range'[u]]
    BY DEF LaunchWorker
  <2>3. new \in [lo : Nat, hi : 0..req.attempts]
    BY <1>1, <1>2 DEF StaticRange, Least
  <2>4. \A u \in Started : u \in 0..started /\ u < started
    BY <1>2 DEF Started
  <2>5. (\A u \in Started : range'[u] = range[u]) /\ range'[started] = new
    BY <1>2, <2>1, <2>4
  <2>6. \A u \in 0..started : range'[u] \in [lo : Nat, hi : 0..req.attempts]
    BY <1>2, <1>4, <2>3, <2>5 DEF Fillers, WorkersTypeOK, Started
  <2>7. QED
    BY <2>2, <2>5, <2>6
<1>6. WorkersTypeOK'
  <2>1. started' \in 0..WorkerCount' /\ 0..(started' - 1) = 0..started
    BY <1>1, <1>2, <1>3
  <2>2. done' \subseteq 0..(started' - 1)
    BY <1>2, <2>1 DEF Fillers, WorkersTypeOK
  <2>3. QED
    BY <1>2, <1>3, <1>5, <2>1, <2>2 DEF Fillers, WorkersTypeOK
<1>7. ReturnedLast'
  <2>1. joined = FALSE
    BY DEF LaunchWorker, Fillers, ReturnedLast, WorkersTypeOK
  <2>2. QED
    BY <1>2, <1>3, <2>1 DEF Fillers, ReturnedLast
<1>8. started \notin done /\ Frontier \in Nat /\ Frontier <= req.attempts
  <2>1. started * ChunkSize \in Nat
    BY <1>1, <1>2
  <2>2. QED
    BY <1>1, <1>2, <2>1 DEF Fillers, WorkersTypeOK, Frontier, Least
<1>9. CASE Dynamic
  <2>1. Frontier' = Frontier
    BY <1>2, <1>3, <1>9 DEF Frontier
  <2>2. \A i \in Places : ~Holds(range'[started], i)
    BY <1>1, <1>5, <1>9 DEF Holds, Places
  <2>3. RangesInside'
    <3>1. \A u \in Started : range'[u].hi <= Frontier' /\ (u \in done' => Idle(u)')
      BY <1>2, <1>5, <2>1 DEF Fillers, RangesInside, Idle
    <3>2. range'[started].hi <= Frontier'
      BY <1>5, <1>8, <1>9, <2>1
    <3>3. QED
      BY <1>2, <1>4, <1>8, <3>1, <3>2 DEF RangesInside
  <2>4. Disjoint'
    BY <1>3, <1>4, <1>5, <2>2 DEF Fillers, Disjoint
  <2>5. Accounted'
    BY <1>2, <1>3, <1>4, <1>5, <2>1, <2>2 DEF Fillers, Accounted
  <2>6. QED
    BY <1>6, <1>7, <2>3, <2>4, <2>5 DEF Fillers
<1>10. CASE ~Dynamic
  <2>1. started * ChunkSize \in Nat /\ (started + 1) * ChunkSize = started * ChunkSize + ChunkSize
    BY <1>1, <1>2
  <2>2. started * ChunkSize < req.attempts
    BY <1>1, <1>2, <1>10, <2>1 DEF Launches, StaticRange, Least
  <2>3. Frontier = started * ChunkSize
    BY <1>1, <1>10, <2>1, <2>2 DEF Frontier, Least
  <2>4. Frontier' = Least(req.attempts, started * ChunkSize + ChunkSize)
    BY <1>2, <1>3, <1>10, <2>1 DEF Frontier
  <2>5. range'[started] = [lo |-> Frontier, hi |-> Frontier']
    BY <1>5, <1>10, <2>1, <2>3, <2>4 DEF StaticRange
  <2>6. Frontier' \in Nat /\ Frontier <= Frontier'
    BY <1>1, <2>1, <2>2, <2>3, <2>4 DEF Least
  <2>7. \A i \in Places : Holds(range'[started], i) <=> Frontier <= i /\ i < Frontier'
    BY <2>5 DEF Holds
  <2>8. \A u \in Started, i \in Places : Holds(range[u], i) => i < Frontier
    <3>1. \A u \in Started : range[u].hi \in Nat /\ range[u].hi <= Frontier
      BY DEF Fillers, WorkersTypeOK, RangesInside, Started
    <3>2. QED
      BY <1>1, <1>8, <3>1 DEF Holds, Places
  <2>9. RangesInside'
    <3>1. \A u \in Started : range'[u].hi <= Frontier' /\ (u \in done' => Idle(u)')
      <4>1. \A u \in Started : range[u].hi \in Nat /\ range[u].hi <= Frontier
        BY DEF Fillers, WorkersTypeOK, RangesInside, Started
      <4>2. \A u \in Started : range[u].hi <= Frontier'
        BY <1>8, <2>6, <4>1
      <4>3. QED
        BY <1>2, <1>5, <4>2 DEF Fillers, RangesInside, Idle
    <3>2. range'[started].hi <= Frontier'
      BY <2>5, <2>6
    <3>3. QED
      BY <1>2, <1>4, <1>8, <3>1, <3>2 DEF RangesInside
  <2>10. Disjoint'
    <3>1. \A u \in Started, i \in Places : ~(Holds(range[u], i) /\ Holds(range'[started], i))
      BY <1>1, <1>8, <2>7, <2>8 DEF Places
    <3>2. QED
      BY <1>3, <1>4, <1>5, <3>1 DEF Fillers, Disjoint
  <2>11. Accounted'
    <3> SUFFICES ASSUME NEW i \in Places
                 PROVE  \/ filled[i] = 0 /\ (i >= Frontier' \/ \E u \in Started' : Holds(range'[u], i))
                        \/ filled[i] = 1 /\ i < Frontier' /\ \A u \in Started' : ~Holds(range'[u], i)
      BY <1>2, <1>3 DEF Accounted
    <3>1. i \in Nat
      BY <1>1 DEF Places
    <3>2. CASE filled[i] = 0 /\ i >= Frontier
      BY <1>4, <1>8, <2>6, <2>7, <3>1, <3>2
    <3>3. CASE filled[i] = 0 /\ \E u \in Started : Holds(range[u], i)
      BY <1>4, <1>5, <3>3
    <3>4. CASE filled[i] = 1 /\ i < Frontier /\ \A u \in Started : ~Holds(range[u], i)
      <4>1. i < Frontier' /\ ~Holds(range'[started], i)
        BY <1>8, <2>6, <2>7, <3>1, <3>4
      <4>2. QED
        BY <1>4, <1>5, <3>4, <4>1
    <3>5. QED
      BY <3>2, <3>3, <3>4 DEF Fillers, Accounted
  <2>12. QED
    BY <1>6, <1>7, <2>9, <2>10, <2>11 DEF Fillers
<1>11. QED
  BY <1>9, <1>10

(* A chunk is taken from the shared counter: it begins where what was       *)
(* handed out so far ends. Without one left, the worker returns.            *)
LEMMA TakeChunkInv == ASSUME Fillers, NEW t \in Started, TakeChunk(t) PROVE Fillers'
<1>1. /\ req.attempts \in Nat \ {0} /\ WorkerCount \in Nat \ {0} /\ ChunkSize \in Nat \ {0}
      /\ Dynamic = TRUE
  BY WorkerShapes DEF Fillers, WorkersTypeOK, TakeChunk
<1>2. /\ req' = req /\ started' = started /\ joined' = joined /\ filled' = filled
      /\ next \in Nat /\ next' = next + ChunkSize
      /\ t \notin done /\ Idle(t)
  BY DEF TakeChunk, Fillers, WorkersTypeOK
<1>3. /\ WorkerCount' = WorkerCount /\ ChunkSize' = ChunkSize /\ Dynamic' = Dynamic
      /\ Places' = Places /\ Started' = Started /\ (AllLaunched' <=> AllLaunched)
  BY <1>2 DEF WorkerCount, ChunkSize, Dynamic, Places, Started, AllLaunched, Launches, StaticRange
<1>4. joined = FALSE
  BY <1>2 DEF Fillers, ReturnedLast, WorkersTypeOK
<1>5. /\ Frontier = Least(req.attempts, next) /\ Frontier' = Least(req.attempts, next + ChunkSize)
      /\ Frontier \in Nat /\ Frontier' \in Nat /\ Frontier <= Frontier'
  BY <1>1, <1>2, <1>3 DEF Frontier, Least
<1>6. CASE next >= req.attempts
  <2>1. done' = done \cup {t} /\ range' = range
    BY <1>6 DEF TakeChunk
  <2>2. Frontier' = Frontier
    BY <1>1, <1>2, <1>5, <1>6 DEF Least
  <2>3. WorkersTypeOK'
    BY <1>1, <1>2, <1>3, <2>1 DEF Fillers, WorkersTypeOK, Started
  <2>4. RangesInside' /\ Disjoint' /\ Accounted'
    BY <1>2, <1>3, <2>1, <2>2 DEF Fillers, RangesInside, Disjoint, Accounted, Idle
  <2>5. ReturnedLast'
    BY <1>1, <1>2, <1>4, <1>6 DEF ReturnedLast
  <2>6. QED
    BY <2>3, <2>4, <2>5 DEF Fillers
<1>7. CASE next < req.attempts
  <2>1. /\ done' = done
        /\ range' = [range EXCEPT ![t] = [lo |-> next, hi |-> Least(req.attempts, next + ChunkSize)]]
    BY <1>1, <1>2, <1>7 DEF TakeChunk
  <2>2. /\ range'[t] = [lo |-> Frontier, hi |-> Frontier']
        /\ \A u \in Started : u # t => range'[u] = range[u]
        /\ range' \in [Started -> [lo : Nat, hi : 0..req.attempts]]
    <3>1. Frontier = next /\ Frontier' \in 0..req.attempts
      BY <1>1, <1>2, <1>5, <1>7 DEF Least
    <3>2. range \in [Started -> [lo : Nat, hi : 0..req.attempts]]
      BY DEF Fillers, WorkersTypeOK, Started
    <3>3. QED
      BY <1>2, <1>5, <2>1, <3>1, <3>2
  <2>3. WorkersTypeOK'
    BY <1>1, <1>2, <1>3, <2>1, <2>2, SMTT(30) DEF Fillers, WorkersTypeOK, Started
  <2>4. \A u \in Started : range[u].lo \in Nat /\ range[u].hi \in Nat /\ range[u].hi <= Frontier
    BY DEF Fillers, WorkersTypeOK, RangesInside, Started
  <2>5. \A i \in Places : i \in Nat /\ ~Holds(range[t], i)
    BY <1>1, <1>2, <2>4 DEF Places, Holds, Idle
  <2>6. \A i \in Places : Holds(range'[t], i) <=> Frontier <= i /\ i < Frontier'
    BY <2>2 DEF Holds
  <2>7. \A u \in Started, i \in Places : Holds(range[u], i) => i < Frontier
    BY <1>5, <2>4, <2>5 DEF Holds
  <2>8. RangesInside'
    <3>1. \A u \in Started : range'[u].hi <= Frontier'
      <4>1. \A u \in Started : range[u].hi <= Frontier'
        BY <1>5, <2>4
      <4>2. QED
        BY <1>5, <2>2, <4>1
    <3>2. \A u \in Started : u \in done => u # t
      BY <1>2
    <3>3. QED
      BY <1>3, <2>1, <2>2, <3>1, <3>2 DEF Fillers, RangesInside, Idle
  <2>9. Disjoint'
    <3>1. \A u \in Started, i \in Places : ~(Holds(range[u], i) /\ Holds(range'[t], i))
      BY <1>5, <2>5, <2>6, <2>7
    <3>2. QED
      BY <1>3, <2>2, <3>1 DEF Fillers, Disjoint
  <2>10. Accounted'
    <3> SUFFICES ASSUME NEW i \in Places
                 PROVE  \/ filled[i] = 0 /\ (i >= Frontier' \/ \E u \in Started : Holds(range'[u], i))
                        \/ filled[i] = 1 /\ i < Frontier' /\ \A u \in Started : ~Holds(range'[u], i)
      BY <1>2, <1>3 DEF Accounted
    <3>1. i \in Nat
      BY <2>5
    <3>2. CASE filled[i] = 0 /\ i >= Frontier
      BY <1>5, <2>6, <3>1, <3>2
    <3>3. CASE filled[i] = 0 /\ \E u \in Started : Holds(range[u], i)
      BY <2>2, <2>5, <3>3
    <3>4. CASE filled[i] = 1 /\ i < Frontier /\ \A u \in Started : ~Holds(range[u], i)
      <4>1. i < Frontier' /\ ~Holds(range'[t], i)
        BY <1>5, <2>6, <3>1, <3>4
      <4>2. QED
        BY <2>2, <3>4, <4>1
    <3>5. QED
      BY <3>2, <3>3, <3>4 DEF Fillers, Accounted
  <2>11. ReturnedLast'
    BY <1>1, <1>2, <1>3, <1>4, <1>7, <2>1 DEF Fillers, ReturnedLast
  <2>12. QED
    BY <2>3, <2>8, <2>9, <2>10, <2>11 DEF Fillers
<1>8. QED
  BY <1>1, <1>2, <1>6, <1>7

(* A worker fills the first place of its range and no longer owns it.       *)
LEMMA FillInv == ASSUME Fillers, NEW t \in Started, FillPasswordBlock(t) PROVE Fillers'
<1>1. /\ req.attempts \in Nat \ {0} /\ WorkerCount \in Nat \ {0} /\ ChunkSize \in Nat \ {0}
      /\ Dynamic \in BOOLEAN
  BY WorkerShapes DEF Fillers, WorkersTypeOK
<1>2. /\ req' = req /\ started' = started /\ joined' = joined /\ next' = next /\ done' = done
      /\ ~Idle(t)
      /\ filled' = [filled EXCEPT ![range[t].lo] = @ + 1]
      /\ range' = [range EXCEPT ![t].lo = @ + 1]
  BY DEF FillPasswordBlock
<1>3. /\ WorkerCount' = WorkerCount /\ ChunkSize' = ChunkSize /\ Dynamic' = Dynamic
      /\ Places' = Places /\ Started' = Started /\ (AllLaunched' <=> AllLaunched) /\ Frontier' = Frontier
  BY <1>2 DEF WorkerCount, ChunkSize, Dynamic, Places, Started, AllLaunched, Launches, StaticRange, Frontier
<1>4. range \in [Started -> [lo : Nat, hi : 0..req.attempts]]
  BY DEF Fillers, WorkersTypeOK, Started
<1> DEFINE p == range[t].lo
<1>5. /\ p \in Places /\ p \in Nat /\ range[t].hi \in Nat /\ p < range[t].hi /\ range[t].hi <= Frontier
      /\ Frontier \in Nat
  <2>1. p \in Nat /\ range[t].hi \in 0..req.attempts /\ p < range[t].hi
    BY <1>2, <1>4 DEF Idle
  <2>2. started * ChunkSize \in Nat
    BY <1>1 DEF Fillers, WorkersTypeOK
  <2>3. Frontier \in Nat
    BY <1>1, <2>2 DEF Fillers, WorkersTypeOK, Frontier, Least
  <2>4. QED
    BY <1>1, <2>1, <2>3 DEF Fillers, RangesInside, Places
<1>6. /\ range'[t] = [lo |-> p + 1, hi |-> range[t].hi]
      /\ \A u \in Started : u # t => range'[u] = range[u]
      /\ \A u \in Started : range'[u].hi = range[u].hi
      /\ range' \in [Started -> [lo : Nat, hi : 0..req.attempts]]
  BY <1>2, <1>4, <1>5
<1>7. /\ filled \in [Places -> Nat] /\ filled' \in [Places -> Nat]
      /\ filled'[p] = filled[p] + 1 /\ \A i \in Places : i # p => filled'[i] = filled[i]
  BY <1>2, <1>5 DEF Fillers, WorkersTypeOK, Places
<1>8. Holds(range[t], p) /\ \A u \in Started : u # t => ~Holds(range[u], p)
  BY <1>5 DEF Holds, Fillers, Disjoint
<1>9. filled[p] = 0
  BY <1>5, <1>8 DEF Fillers, Accounted
<1>10. \A i \in Places : i \in Nat /\ (Holds(range'[t], i) <=> Holds(range[t], i) /\ i # p)
  BY <1>1, <1>5, <1>6 DEF Holds, Places
<1> HIDE DEF p
<1>11. WorkersTypeOK'
  BY <1>1, <1>2, <1>3, <1>6, <1>7 DEF Fillers, WorkersTypeOK, Started, Places
<1>12. RangesInside'
  <2>1. t \notin done
    BY <1>2 DEF Fillers, RangesInside
  <2>2. QED
    BY <1>2, <1>3, <1>6, <2>1 DEF Fillers, RangesInside, Idle
<1>13. Disjoint'
  BY <1>3, <1>6, <1>10 DEF Fillers, Disjoint
<1>14. Accounted'
  <2> SUFFICES ASSUME NEW i \in Places
               PROVE  \/ filled'[i] = 0 /\ (i >= Frontier \/ \E u \in Started : Holds(range'[u], i))
                      \/ filled'[i] = 1 /\ i < Frontier /\ \A u \in Started : ~Holds(range'[u], i)
    BY <1>3 DEF Accounted
  <2>1. CASE i = p
    <3>1. filled'[i] = 1 /\ i < Frontier
      BY <1>5, <1>7, <1>9, <2>1 DEF p
    <3>2. \A u \in Started : ~Holds(range'[u], i)
      BY <1>6, <1>8, <1>10, <2>1
    <3>3. QED
      BY <3>1, <3>2
  <2>2. CASE i # p
    <3>1. filled'[i] = filled[i] /\ \A u \in Started : Holds(range'[u], i) <=> Holds(range[u], i)
      BY <1>6, <1>7, <1>10, <2>2
    <3>2. QED
      BY <3>1 DEF Fillers, Accounted
  <2>3. QED
    BY <2>1, <2>2
<1>15. ReturnedLast'
  BY <1>2, <1>3 DEF Fillers, ReturnedLast
<1>16. QED
  BY <1>11, <1>12, <1>13, <1>14, <1>15 DEF Fillers

(* A static worker at the end of its range returns; the caller joins.       *)
LEMMA ReturnInv == ASSUME Fillers, (\E t \in Started : Return(t)) \/ Join \/ AllJoined PROVE Fillers'
<1>1. CASE \E t \in Started : Return(t)
  <2>1. PICK t \in Started : Return(t)
    BY <1>1
  <2>2. /\ req' = req /\ started' = started /\ joined' = joined /\ next' = next /\ filled' = filled
        /\ range' = range /\ done' = done \cup {t} /\ ~Dynamic /\ Idle(t) /\ t \notin done
    BY <2>1 DEF Return
  <2>3. /\ WorkerCount' = WorkerCount /\ ChunkSize' = ChunkSize /\ Dynamic' = Dynamic
        /\ Places' = Places /\ Started' = Started /\ Frontier' = Frontier
    BY <2>2 DEF WorkerCount, ChunkSize, Dynamic, Places, Started, Frontier
  <2>4. joined = FALSE
    BY <2>2 DEF Fillers, ReturnedLast, WorkersTypeOK
  <2>5. WorkersTypeOK'
    BY <2>2, <2>3 DEF Fillers, WorkersTypeOK, Started
  <2>6. RangesInside' /\ Disjoint' /\ Accounted'
    BY <2>2, <2>3 DEF Fillers, RangesInside, Disjoint, Accounted, Idle
  <2>7. ReturnedLast'
    BY <2>2, <2>3, <2>4 DEF ReturnedLast
  <2>8. QED
    BY <2>5, <2>6, <2>7 DEF Fillers
<1>2. CASE Join
  <2>1. /\ req' = req /\ started' = started /\ next' = next /\ filled' = filled /\ range' = range
        /\ done' = done /\ joined' = TRUE /\ AllLaunched /\ done = Started
    BY <1>2 DEF Join, Started
  <2>2. /\ WorkerCount' = WorkerCount /\ Dynamic' = Dynamic /\ Places' = Places /\ Started' = Started
        /\ Frontier' = Frontier /\ (AllLaunched' <=> AllLaunched)
    BY <2>1 DEF WorkerCount, ChunkSize, Dynamic, Places, Started, Frontier, AllLaunched, Launches, StaticRange
  <2>3. WorkersTypeOK'
    <3>1. joined' \in BOOLEAN
      BY <2>1, Zenon
    <3>2. QED
      BY <2>1, <2>2, <3>1 DEF Fillers, WorkersTypeOK
  <2>4. RangesInside' /\ Disjoint' /\ Accounted'
    BY <2>1, <2>2 DEF Fillers, RangesInside, Disjoint, Accounted, Idle
  <2>5. ReturnedLast'
    BY <2>1, <2>2 DEF Fillers, ReturnedLast
  <2>6. QED
    BY <2>3, <2>4, <2>5 DEF Fillers
<1>3. CASE AllJoined
  <2>1. /\ req' = req /\ started' = started /\ next' = next /\ filled' = filled /\ range' = range
        /\ done' = done /\ joined' = joined
    BY <1>3 DEF AllJoined, workersVars
  <2>2. /\ WorkerCount' = WorkerCount /\ Dynamic' = Dynamic /\ Places' = Places /\ Started' = Started
        /\ Frontier' = Frontier /\ (AllLaunched' <=> AllLaunched)
    BY <2>1 DEF WorkerCount, ChunkSize, Dynamic, Places, Started, Frontier, AllLaunched, Launches, StaticRange
  <2>3. WorkersTypeOK'
    BY <2>1, <2>2 DEF Fillers, WorkersTypeOK
  <2>4. RangesInside' /\ Disjoint' /\ Accounted'
    BY <2>1, <2>2 DEF Fillers, RangesInside, Disjoint, Accounted, Idle
  <2>5. ReturnedLast'
    BY <2>1, <2>2 DEF Fillers, ReturnedLast
  <2>6. QED
    BY <2>3, <2>4, <2>5 DEF Fillers
<1>4. QED
  BY <1>1, <1>2, <1>3
-----------------------------------------------------------------------------
(* The invariant: ranges lie in what was handed out, are disjoint, and      *)
(* every place is accounted for.                                            *)
THEOREM FillersHold == WorkersSpec => []Fillers
<1>1. Fillers /\ [WorkersNext]_workersVars => Fillers'
  <2> SUFFICES ASSUME Fillers, [WorkersNext]_workersVars PROVE Fillers'
    OBVIOUS
  <2>1. CASE WorkersNext
    BY <2>1, LaunchInv, TakeChunkInv, FillInv, ReturnInv DEF WorkersNext, Started
  <2>2. CASE UNCHANGED workersVars
    BY <2>2 DEF workersVars, Fillers, WorkersTypeOK, RangesInside, Disjoint, Accounted, ReturnedLast,
       WorkerCount, ChunkSize, Dynamic, Places, Started, Frontier, AllLaunched, Launches, StaticRange, Idle
  <2>3. QED
    BY <2>1, <2>2
<1>2. QED
  BY FillersInit, <1>1, PTL DEF WorkersSpec

(* Ranges end within the batch and places are filled only within it, for    *)
(* every request.                                                           *)
THEOREM WorkersTyped == WorkersSpec => []WorkersTypeOK
<1>1. Fillers => WorkersTypeOK
  BY DEF Fillers
<1>2. QED
  BY FillersHold, <1>1, PTL

(* fillPasswordBlocks: no two threads ever write the same first block, and  *)
(* none is written twice.                                                   *)
THEOREM WorkersNeverShare == WorkersSpec => []NoSharedBlock
<1>1. Fillers => NoSharedBlock
  <2> SUFFICES ASSUME Fillers, NEW u \in Started, NEW i \in range[u].lo..(range[u].hi - 1)
               PROVE  /\ filled[i] = 0
                      /\ \A z \in Started : z # u => i \notin range[z].lo..(range[z].hi - 1)
    BY DEF NoSharedBlock, Started
  <2>1. \A z \in Started : range[z].lo \in Nat /\ range[z].hi \in 0..req.attempts
    BY DEF Fillers, WorkersTypeOK, Started
  <2>2. req.attempts \in Nat
    BY WorkerShapes DEF Fillers, WorkersTypeOK
  <2>3. i \in Places /\ Holds(range[u], i)
    BY <2>1, <2>2 DEF Places, Holds
  <2>4. filled[i] = 0
    BY <2>3 DEF Fillers, Accounted
  <2>5. \A z \in Started : i \in range[z].lo..(range[z].hi - 1) => Holds(range[z], i)
    BY <2>1 DEF Holds
  <2>6. QED
    BY <2>3, <2>4, <2>5 DEF Fillers, Disjoint
<1>2. QED
  BY FillersHold, <1>1, PTL

(* fillPasswordBlocks: when it returns, every first block of the batch is   *)
(* filled, once: the ranges or chunks leave no gap, whatever the rounding.  *)
THEOREM FirstBlocksComplete == WorkersSpec => []AllFilledOnce
<1>1. Fillers => AllFilledOnce
  <2> SUFFICES ASSUME Fillers, joined, NEW i \in Places PROVE filled[i] = 1
    BY DEF AllFilledOnce, Places
  <2>1. /\ req.attempts \in Nat \ {0} /\ WorkerCount \in Nat \ {0} /\ ChunkSize \in Nat \ {0}
        /\ Dynamic \in BOOLEAN
        /\ ~Dynamic => WorkerCount * ChunkSize >= req.attempts
    BY WorkerShapes DEF Fillers, WorkersTypeOK
  <2>2. AllLaunched /\ done = Started /\ started \in Nat /\ i \in Nat /\ i < req.attempts
    BY <2>1 DEF Fillers, ReturnedLast, WorkersTypeOK, Places
  <2>3. \A u \in Started : ~Holds(range[u], i)
    <3>1. \A u \in Started : range[u].lo \in Nat /\ range[u].hi \in Nat
      BY DEF Fillers, WorkersTypeOK, Started
    <3>2. QED
      BY <2>2, <3>1 DEF Fillers, RangesInside, Idle, Holds
  <2>4. Frontier = req.attempts
    <3>1. CASE Dynamic
      <4>1. started = WorkerCount
        BY <2>2, <3>1 DEF AllLaunched, Launches
      <4>2. 0 \in Started
        BY <2>1, <4>1 DEF Started
      <4>3. next >= req.attempts /\ next \in Nat
        BY <2>2, <3>1, <4>2 DEF Fillers, ReturnedLast, WorkersTypeOK
      <4>4. QED
        BY <2>1, <3>1, <4>3 DEF Frontier, Least
    <3>2. CASE ~Dynamic
      <4>1. /\ started * ChunkSize \in Nat
            /\ (started + 1) * ChunkSize = started * ChunkSize + ChunkSize
        BY <2>1, <2>2
      <4>2. started * ChunkSize >= req.attempts
        <5>1. CASE started = WorkerCount
          BY <2>1, <3>2, <5>1
        <5>2. CASE ~Launches(started)
          BY <2>1, <3>2, <4>1, <5>2 DEF Launches, StaticRange, Least
        <5>3. QED
          BY <2>2, <5>1, <5>2 DEF AllLaunched
      <4>3. QED
        BY <2>1, <3>2, <4>1, <4>2 DEF Frontier, Least
    <3>3. QED
      BY <3>1, <3>2
  <2>5. QED
    BY <2>1, <2>2, <2>3, <2>4 DEF Fillers, Accounted
<1>2. QED
  BY FillersHold, <1>1, PTL

(* The first-block workers of CudaHashBackend.cpp divide any batch, in any  *)
(* number and by either rule.                                               *)
THEOREM WorkersSound == WorkersSpec => []WorkersInvariant
<1>1. WorkersTypeOK /\ NoSharedBlock /\ AllFilledOnce => WorkersInvariant
  BY DEF WorkersInvariant
<1>2. QED
  BY <1>1, WorkersTyped, WorkersNeverShare, FirstBlocksComplete, PTL

-----------------------------------------------------------------------------
(* HashRunner *)

AllShapes == Shapes \cup {SelfTestShape}

Runners ==
  [n : Nat \ {0}, seg : Nat \ {0}, alloc : Nat \ {0}, hostCap : Nat, mem : Nat, events : BOOLEAN,
   ready : BOOLEAN, keys : Nat, keysCap : Nat, refs : BOOLEAN, refsSeg : Nat,
   hostIn : Nat, keysOf : Nat, out : Nat \X Nat \X Nat]

(* init() went through: the buffers have the sizes of its shape.            *)
Complete(r) ==
  /\ r.events /\ r.hostCap = r.n
  /\ r.mem = r.n * r.alloc /\ r.seg <= r.alloc

(* The runner is of one of the shapes asked for, the batch too.             *)
Shaped ==
  /\ runner # NoRunner => runner \in Runners /\ <<runner.n, runner.seg>> \in AllShapes
  /\ batch \in [id : 0..Tags, n : Nat, seg : Nat]
  /\ pc # "idle" => <<batch.n, batch.seg>> \in AllShapes

(* While the backend has not failed, the remembered shape is the runner's   *)
(* and the runner is complete. A batch in progress has not failed.          *)
InStep ==
  /\ pc # "idle" => open
  /\ open => /\ (cached # <<>>) <=> (runner # NoRunner)
             /\ runner # NoRunner => cached = <<runner.n, runner.seg>> /\ Complete(runner)
  /\ pc \in {"input", "run", "finish"} =>
       runner # NoRunner /\ <<runner.n, runner.seg>> = <<batch.n, batch.seg>>

(* The flag for keys on the device is up only between prepare and run, and  *)
(* then for this batch.                                                     *)
InputCurrent ==
  /\ open /\ pc # "run" /\ runner # NoRunner => ~runner.ready
  /\ pc = "run" => FirstBlocks(runner) = batch.id

Inv == TypeOK /\ Shaped /\ InStep /\ InputCurrent /\ OutputOfThisBatch /\ DeviceMemoryOwned
-----------------------------------------------------------------------------
One(b) == IF b THEN 1 ELSE 0

(* What a runner owns, counted pointer by pointer.                          *)
LEMMA OwnedSum ==
  ASSUME NEW r, r # NoRunner
  PROVE  Owned(r) = One(r.mem # 0) + One(r.keys # 0) + One(r.refs)
<1> DEFINE S == {p \in {"mem", "keys", "refs"} : CASE p = "mem" -> r.mem # 0
                                                     [] p = "keys" -> r.keys # 0
                                                     [] p = "refs" -> r.refs}
<1>1. Owned(r) = Cardinality(S)
  BY DEF Owned
<1>2. S = (IF r.mem # 0 THEN {"mem"} ELSE {}) \cup (IF r.keys # 0 THEN {"keys"} ELSE {})
            \cup (IF r.refs THEN {"refs"} ELSE {})
  OBVIOUS
<1> HIDE DEF S
<1> DEFINE a == IF r.mem # 0 THEN {"mem"} ELSE {}
           b == a \cup (IF r.keys # 0 THEN {"keys"} ELSE {})
<1>3. IsFiniteSet(a) /\ Cardinality(a) = One(r.mem # 0) /\ "keys" \notin a /\ "refs" \notin a
  BY FS_EmptySet, FS_Singleton DEF One
<1>4. /\ IsFiniteSet(b) /\ Cardinality(b) = One(r.mem # 0) + One(r.keys # 0) /\ "refs" \notin b
  <2>1. CASE r.keys # 0
    <3> HIDE DEF a
    <3>1. b = a \cup {"keys"}
      BY <2>1
    <3> HIDE DEF b
    <3>2. IsFiniteSet(b) /\ Cardinality(b) = Cardinality(a) + 1
      BY <1>3, <3>1, FS_AddElement
    <3>3. QED
      BY <1>3, <2>1, <3>1, <3>2 DEF One
  <2>2. CASE r.keys = 0
    <3>1. b = a
      BY <2>2
    <3> HIDE DEF a, b
    <3>2. QED
      BY <1>3, <2>2, <3>1 DEF One
  <2>3. QED
    BY <2>1, <2>2
<1>5. CASE r.refs
  <2>1. S = b \cup {"refs"}
    BY <1>2, <1>5
  <2> HIDE DEF a, b
  <2>2. Cardinality(S) = Cardinality(b) + 1
    BY <1>4, <2>1, FS_AddElement
  <2>3. QED
    BY <1>1, <1>4, <1>5, <2>2 DEF One
<1>6. CASE ~r.refs
  <2>1. S = b
    BY <1>2, <1>6
  <2> HIDE DEF a, b
  <2>2. QED
    BY <1>1, <1>4, <1>6, <2>1 DEF One
<1>7. QED
  BY <1>5, <1>6

(* Nothing is owned without a runner.                                       *)
LEMMA OwnedNone == Owned(NoRunner) = 0
BY DEF Owned

(* What is owned is a number of pointers.                                   *)
LEMMA OwnedNat == ASSUME NEW r PROVE Owned(r) \in Nat
<1>1. CASE r = NoRunner
  BY <1>1, OwnedNone
<1>2. CASE r # NoRunner
  BY <1>2, OwnedSum DEF One
<1>3. QED
  BY <1>1, <1>2

(* A shape is a pair of positive numbers.                                   *)
LEMMA ShapePairs ==
  /\ \A s \in AllShapes : s = <<s[1], s[2]>> /\ s[1] \in Nat \ {0} /\ s[2] \in Nat \ {0} /\ s # <<>>
  /\ \A a, b : <<a, b>> \in AllShapes => a \in Nat \ {0} /\ b \in Nat \ {0} /\ <<a, b>> # <<>>
BY ShapesAssumption DEF AllShapes

(* A runner is never taken for none.                                        *)
LEMMA RunnerIsOne == \A r \in Runners : r # NoRunner
<1>1. \A r \in Runners : r.n # 0
  BY DEF Runners
<1>2. NoRunner.n = 0
  BY DEF NoRunner
<1>3. QED
  BY <1>1, <1>2

(* The initial state.                                                       *)
LEMMA InitInv == Init => Inv
<1> SUFFICES ASSUME Init PROVE Inv
  OBVIOUS
<1>1. Shaped
  BY ShapesAssumption DEF Init, Shaped
<1>2. TypeOK
  <2>1. open \in BOOLEAN /\ gpu \in BOOLEAN /\ pre \in BOOLEAN
    BY Zenon DEF Init
  <2>2. batch.id = 0 /\ batch.n = 0 /\ batch.seg = 0 /\ live = 0 /\ faults = 0 /\ 0 \in 0..Tags /\ 0 \in 0..MaxFaults
    BY ShapesAssumption DEF Init
  <2>3. QED
    BY <2>1, <2>2 DEF Init, TypeOK
<1>3. InStep /\ InputCurrent /\ OutputOfThisBatch
  BY DEF Init, InStep, InputCurrent, OutputOfThisBatch
<1>4. DeviceMemoryOwned
  BY OwnedNone DEF Init, DeviceMemoryOwned
<1>5. QED
  BY <1>1, <1>2, <1>3, <1>4 DEF Inv

(* Replacing the runner frees what the old one owned.                       *)
LEMMA SetRunnerOwned == ASSUME DeviceMemoryOwned, NEW r, SetRunner(r) PROVE runner' = r /\ live' = Owned(r)
<1>1. Owned(runner) \in Nat /\ Owned(r) \in Nat
  BY OwnedNat
<1>2. QED
  BY <1>1 DEF SetRunner, DeviceMemoryOwned

(* A unit starts over: no runner, no remembered shape.                      *)
LEMMA NewUnitInv == ASSUME Inv, NewUnit PROVE Inv'
<1>1. /\ runner' = NoRunner /\ live' = 0 /\ cached' = <<>> /\ open' = TRUE /\ shape' \in Shapes
      /\ pc' = pc /\ pc = "idle" /\ batch' = batch /\ client' = client /\ gpu' = gpu /\ pre' = pre
      /\ last' = last /\ faults' = faults
  BY SetRunnerOwned, OwnedNone DEF NewUnit, ReleaseBuffers, Inv
<1>2. TypeOK'
  <2>1. {open', gpu', pre'} \subseteq BOOLEAN
    <3>1. {open, gpu, pre} \subseteq BOOLEAN
      BY DEF Inv, TypeOK
    <3>2. QED
      BY <1>1, <3>1, Zenon
  <2>2. QED
    BY <1>1, <2>1 DEF Inv, TypeOK
<1>3. Shaped' /\ InStep' /\ InputCurrent' /\ OutputOfThisBatch'
  BY <1>1 DEF Inv, Shaped, InStep, InputCurrent, OutputOfThisBatch
<1>4. DeviceMemoryOwned'
  BY <1>1, OwnedNone DEF DeviceMemoryOwned
<1>5. QED
  BY <1>2, <1>3, <1>4 DEF Inv

(* A batch begins: its shape is one of the shapes.                          *)
LEMMA BeginInv == ASSUME Inv, Begin PROVE Inv'
<1>1. PICK s \in AllShapes : batch' = [id |-> (batch.id % Tags) + 1, n |-> s[1], seg |-> s[2]]
  BY DEF Begin, AllShapes, Inv, TypeOK
<1>2. /\ open /\ pc = "idle" /\ pc' = "init"
      /\ open' = open /\ shape' = shape /\ pre' = pre /\ cached' = cached /\ runner' = runner
      /\ live' = live /\ last' = last /\ faults' = faults /\ client' = client
  BY DEF Begin
<1>3. /\ <<batch'.n, batch'.seg>> \in AllShapes
      /\ batch' \in [id : 0..Tags, n : Nat, seg : Nat]
  <2>1. (batch.id % Tags) + 1 \in 0..Tags
    BY ShapesAssumption DEF Inv, Shaped
  <2>2. s[1] \in Nat /\ s[2] \in Nat /\ s = <<s[1], s[2]>>
    BY ShapePairs
  <2>3. QED
    BY <1>1, <2>1, <2>2
<1>4. TypeOK'
  <2>1. gpu' \in BOOLEAN
    BY Zenon DEF Begin, Inv, TypeOK
  <2>2. batch'.id \in 0..Tags /\ <<batch'.n, batch'.seg>> \in Shapes \cup {SelfTestShape, <<0, 0>>}
    BY <1>3 DEF AllShapes
  <2>3. QED
    BY <1>2, <2>1, <2>2 DEF Inv, TypeOK
<1>5. Shaped'
  BY <1>2, <1>3 DEF Inv, Shaped
<1>6. InStep' /\ InputCurrent' /\ OutputOfThisBatch' /\ DeviceMemoryOwned'
  BY <1>2 DEF Inv, InStep, InputCurrent, OutputOfThisBatch, DeviceMemoryOwned
<1>7. QED
  BY <1>4, <1>5, <1>6 DEF Inv

(* After a failed call nothing but the memory's ownership matters: the      *)
(* backend is not used again.                                               *)
LEMMA ThrowInv ==
  ASSUME Inv, NEW free \in BOOLEAN, Throw(free), live' = Owned(runner'),
         runner' # NoRunner => runner' \in Runners /\ <<runner'.n, runner'.seg>> \in AllShapes
  PROVE  Inv'
<1>1. /\ open' = FALSE /\ pc' = "idle" /\ last' = "failed" /\ client' = client /\ shape' = shape
      /\ gpu' = gpu /\ pre' = pre /\ cached' = cached /\ batch' = batch
  BY DEF Throw
<1>2. faults' \in 0..MaxFaults
  BY ShapesAssumption DEF Throw, Inv, TypeOK
<1>3. TypeOK'
  <2>1. {open', gpu', pre'} \subseteq BOOLEAN
    <3>1. {open, gpu, pre} \subseteq BOOLEAN
      BY DEF Inv, TypeOK
    <3>2. QED
      BY <1>1, <3>1, Zenon
  <2>2. live' \in Nat
    BY OwnedNat
  <2>3. QED
    BY <1>1, <1>2, <2>1, <2>2 DEF Inv, TypeOK, AllShapes
<1>4. Shaped' /\ InStep' /\ InputCurrent' /\ OutputOfThisBatch'
  BY <1>1 DEF Inv, Shaped, InStep, InputCurrent, OutputOfThisBatch
<1>5. QED
  BY <1>3, <1>4 DEF Inv, DeviceMemoryOwned

(* A step inside runBatch: what the rest of the invariant asks of it.       *)
LEMMA StepInv ==
  ASSUME Inv, NEW to \in {"input", "run", "finish"}, Step(to), open,
         runner' \in Runners, <<runner'.n, runner'.seg>> = <<batch.n, batch.seg>>,
         <<batch.n, batch.seg>> \in AllShapes,
         cached' = <<batch.n, batch.seg>>, Complete(runner'),
         to # "run" => ~runner'.ready,
         to = "run" => FirstBlocks(runner') = batch.id,
         OutputOfThisBatch', live' = Owned(runner')
  PROVE  Inv'
<1>1. /\ pc' = to /\ client' = client /\ open' = open /\ shape' = shape /\ gpu' = gpu /\ pre' = pre
      /\ batch' = batch /\ last' = last /\ faults' = faults
  BY DEF Step
<1>2. runner' # NoRunner /\ cached' # <<>>
  BY RunnerIsOne, ShapePairs
<1>3. TypeOK'
  <2>1. live' \in Nat
    BY OwnedNat
  <2>2. QED
    BY <1>1, <2>1 DEF Inv, TypeOK, AllShapes
<1>4. Shaped'
  BY <1>1 DEF Inv, Shaped
<1>5. InStep'
  BY <1>1, <1>2 DEF InStep, Complete
<1>6. InputCurrent'
  BY <1>1 DEF InputCurrent, FirstBlocks
<1>7. QED
  BY <1>3, <1>4, <1>5, <1>6 DEF Inv, DeviceMemoryOwned

(* In the middle of a batch the runner is complete and of the batch's shape. *)
LEMMA InBatch ==
  ASSUME Inv, pc \in {"input", "run", "finish"}
  PROVE  /\ open /\ runner \in Runners /\ runner # NoRunner /\ Complete(runner)
         /\ <<runner.n, runner.seg>> = <<batch.n, batch.seg>> /\ <<batch.n, batch.seg>> \in AllShapes
         /\ cached = <<batch.n, batch.seg>> /\ runner.n = batch.n /\ runner.seg = batch.seg
         /\ live = Owned(runner)
<1>1. open /\ runner # NoRunner /\ <<runner.n, runner.seg>> = <<batch.n, batch.seg>>
  BY DEF Inv, InStep
<1>2. QED
  BY <1>1 DEF Inv, InStep, Shaped, DeviceMemoryOwned

(* The shape is the one the backend remembers: nothing to do.                *)
LEMMA InitCachedInv == ASSUME Inv, InitCached PROVE Inv'
<1>1. /\ pc = "init" /\ Step("input") /\ cached = <<batch.n, batch.seg>>
      /\ cached' = cached /\ runner' = runner /\ live' = live
  BY DEF InitCached
<1>2. <<batch.n, batch.seg>> \in AllShapes /\ open
  BY <1>1 DEF Inv, Shaped, InStep
<1>3. cached # <<>>
  BY <1>1, <1>2, ShapePairs
<1>4. runner # NoRunner /\ cached = <<runner.n, runner.seg>> /\ Complete(runner)
  BY <1>2, <1>3 DEF Inv, InStep
<1>5. runner \in Runners /\ ~runner.ready /\ live = Owned(runner)
  BY <1>1, <1>2, <1>4 DEF Inv, Shaped, InputCurrent, DeviceMemoryOwned
<1>6. OutputOfThisBatch'
  BY <1>1 DEF Step, OutputOfThisBatch
<1>7. Complete(runner') /\ runner' \in Runners /\ ~runner'.ready /\ live' = Owned(runner')
      /\ <<runner'.n, runner'.seg>> = <<batch.n, batch.seg>> /\ cached' = <<batch.n, batch.seg>>
  BY <1>1, <1>4, <1>5
<1>8. QED
  BY <1>1, <1>2, <1>6, <1>7, StepInv

(* The runner is reconfigured for a batch that fits in it.                   *)
LEMMA InitReuseInv == ASSUME Inv, InitReuse PROVE Inv'
<1>1. /\ pc = "init" /\ Step("input") /\ runner # NoRunner
      /\ runner.n = batch.n /\ batch.seg <= runner.alloc
      /\ cached' = <<batch.n, batch.seg>> /\ live' = live + 0 - 0
      /\ runner' = Reconfigure(runner, batch.n, batch.seg)
  BY DEF InitReuse, Alloc, Reusable, CanReuse
<1>2. <<batch.n, batch.seg>> \in AllShapes /\ open
  BY <1>1 DEF Inv, Shaped, InStep
<1>3. batch.n \in Nat \ {0} /\ batch.seg \in Nat \ {0}
  BY <1>2, ShapePairs
<1>4. runner \in Runners /\ Complete(runner) /\ live = Owned(runner)
  BY <1>1, <1>2 DEF Inv, Shaped, InStep, DeviceMemoryOwned
<1>5. runner' \in Runners
  BY <1>1, <1>3, <1>4 DEF Runners, Reconfigure
<1>6. /\ runner'.n = batch.n /\ runner'.seg = batch.seg /\ ~runner'.ready
      /\ runner'.mem = runner.mem /\ runner'.keys = runner.keys /\ runner'.refs = runner.refs
      /\ runner'.events = runner.events /\ runner'.hostCap = runner.hostCap /\ runner'.alloc = runner.alloc
  BY <1>1, <1>4 DEF Runners, Reconfigure
<1>7. Complete(runner')
  BY <1>1, <1>4, <1>6 DEF Complete
<1>8. live' = Owned(runner')
  <2>1. runner' # NoRunner
    BY <1>5, RunnerIsOne
  <2>2. Owned(runner') = Owned(runner)
    BY <1>1, <1>6, <2>1, OwnedSum
  <2>3. QED
    BY <1>1, <1>4, <2>2, OwnedNat
<1>9. OutputOfThisBatch'
  BY <1>1 DEF Step, OutputOfThisBatch
<1>10. QED
  BY <1>1, <1>2, <1>5, <1>6, <1>7, <1>8, <1>9, StepInv

(* A new runner at each stage of init(): of the batch's shape.               *)
LEMMA FreshRunner ==
  ASSUME NEW n \in Nat \ {0}, NEW seg \in Nat \ {0}
  PROVE  /\ InitHost(NewRunner(n, seg)) \in Runners
         /\ InitMemory(NewRunner(n, seg)) \in Runners
         /\ InitEvents(NewRunner(n, seg)) \in Runners
         /\ \A r \in {InitHost(NewRunner(n, seg)), InitMemory(NewRunner(n, seg)), InitEvents(NewRunner(n, seg))} :
              r.n = n /\ r.seg = seg /\ ~r.ready
         /\ Complete(InitEvents(NewRunner(n, seg)))
<1>1. n * seg \in Nat
  OBVIOUS
<1> DEFINE r0 == NewRunner(n, seg)
<1>2. r0 \in Runners /\ r0.n = n /\ r0.seg = seg /\ r0.ready = FALSE
  BY DEF NewRunner, Runners
<1> HIDE DEF r0
<1>3. /\ InitHost(r0) \in Runners /\ InitHost(r0).n = n /\ InitHost(r0).seg = seg
      /\ InitHost(r0).ready = FALSE /\ InitHost(r0).hostCap = n /\ InitHost(r0).alloc = seg
  BY <1>2 DEF InitHost, Runners
<1>4. /\ InitMemory(r0) \in Runners /\ InitMemory(r0).n = n /\ InitMemory(r0).seg = seg
      /\ InitMemory(r0).ready = FALSE /\ InitMemory(r0).hostCap = n /\ InitMemory(r0).alloc = seg
      /\ InitMemory(r0).mem = n * seg
  <2> DEFINE host == InitHost(r0)
  <2>1. InitMemory(r0) = [host EXCEPT !.mem = n * seg]
    BY <1>2 DEF InitMemory
  <2> HIDE DEF host
  <2>2. host \in Runners /\ host.n = n /\ host.seg = seg /\ host.ready = FALSE /\ host.hostCap = n /\ host.alloc = seg
    BY <1>3 DEF host
  <2>3. QED
    BY <1>1, <2>1, <2>2 DEF Runners
<1>5. /\ InitEvents(r0) \in Runners /\ InitEvents(r0).n = n /\ InitEvents(r0).seg = seg
      /\ InitEvents(r0).ready = FALSE /\ InitEvents(r0).hostCap = n /\ InitEvents(r0).alloc = seg
      /\ InitEvents(r0).mem = n * seg /\ InitEvents(r0).events = TRUE
  <2> DEFINE host == InitMemory(r0)
  <2>1. InitEvents(r0) = [host EXCEPT !.events = TRUE]
    BY DEF InitEvents
  <2> HIDE DEF host
  <2>2. /\ host \in Runners /\ host.n = n /\ host.seg = seg /\ host.ready = FALSE /\ host.hostCap = n /\ host.alloc = seg
        /\ host.mem = n * seg
    BY <1>4 DEF host
  <2>3. QED
    BY <2>1, <2>2 DEF Runners
<1>6. Complete(InitEvents(r0))
  BY <1>5 DEF Complete
<1>7. QED
  BY <1>3, <1>4, <1>5, <1>6 DEF r0

(* A new runner, complete, takes the old one's place.                        *)
LEMMA InitNewInv == ASSUME Inv, InitNew PROVE Inv'
<1> DEFINE r == InitEvents(NewRunner(batch.n, batch.seg))
<1>1. pc = "init" /\ Step("input") /\ cached' = <<batch.n, batch.seg>> /\ SetRunner(r)
  BY DEF InitNew
<1>2. <<batch.n, batch.seg>> \in AllShapes /\ open
  BY <1>1 DEF Inv, Shaped, InStep
<1>3. batch.n \in Nat \ {0} /\ batch.seg \in Nat \ {0}
  BY <1>2, ShapePairs
<1>4. r \in Runners /\ r.n = batch.n /\ r.seg = batch.seg /\ ~r.ready /\ Complete(r)
  BY <1>3, FreshRunner
<1> HIDE DEF r
<1>5. runner' = r /\ live' = Owned(r)
  BY <1>1, SetRunnerOwned DEF Inv
<1>6. OutputOfThisBatch'
  BY <1>1 DEF Step, OutputOfThisBatch
<1>7. QED
  BY <1>1, <1>2, <1>4, <1>5, <1>6, StepInv

(* init() throws: the half-made runner owns what it allocated.               *)
LEMMA InitThrowsInv == ASSUME Inv, InitThrows PROVE Inv'
<1>1. PICK r \in {InitHost(NewRunner(batch.n, batch.seg)), InitMemory(NewRunner(batch.n, batch.seg))} :
        SetRunner(r)
  BY DEF InitThrows
<1>2. pc = "init" /\ Throw(FALSE)
  BY DEF InitThrows
<1>3. <<batch.n, batch.seg>> \in AllShapes
  BY <1>2 DEF Inv, Shaped
<1>4. batch.n \in Nat \ {0} /\ batch.seg \in Nat \ {0}
  BY <1>3, ShapePairs
<1>5. r \in Runners /\ r.n = batch.n /\ r.seg = batch.seg
  BY <1>4, FreshRunner
<1>6. runner' = r /\ live' = Owned(r)
  BY <1>1, SetRunnerOwned DEF Inv
<1>7. QED
  BY <1>2, <1>3, <1>5, <1>6, ThrowInv

(* First blocks into the host buffer.                                        *)
LEMMA HostInputInv == ASSUME Inv, HostInput PROVE Inv'
<1>1. /\ pc = "input" /\ Step("run") /\ cached' = cached /\ live' = live + 0 - 0
      /\ runner' = [runner EXCEPT !.hostIn = batch.id]
  BY DEF HostInput, Alloc
<1>2. /\ open /\ runner \in Runners /\ runner # NoRunner /\ Complete(runner)
      /\ <<batch.n, batch.seg>> \in AllShapes /\ cached = <<batch.n, batch.seg>>
      /\ runner.n = batch.n /\ runner.seg = batch.seg /\ live = Owned(runner)
  BY <1>1, InBatch
<1>3. ~runner.ready /\ batch.id \in Nat
  BY <1>1, <1>2 DEF Inv, InputCurrent, Shaped
<1>4. runner' \in Runners
  BY <1>1, <1>2, <1>3 DEF Runners
<1>5. /\ runner'.n = runner.n /\ runner'.seg = runner.seg /\ runner'.ready = runner.ready
      /\ runner'.mem = runner.mem /\ runner'.keys = runner.keys /\ runner'.refs = runner.refs
      /\ runner'.events = runner.events /\ runner'.hostCap = runner.hostCap /\ runner'.alloc = runner.alloc
      /\ runner'.hostIn = batch.id
  BY <1>1, <1>2 DEF Runners
<1>6. Complete(runner')
  BY <1>2, <1>5 DEF Complete
<1>7. live' = Owned(runner')
  <2>1. runner' # NoRunner
    BY <1>4, RunnerIsOne
  <2>2. Owned(runner') = Owned(runner)
    BY <1>2, <1>5, <2>1, OwnedSum
  <2>3. QED
    BY <1>1, <1>2, <2>2, OwnedNat
<1>8. FirstBlocks(runner') = batch.id
  BY <1>3, <1>5 DEF FirstBlocks
<1>9. OutputOfThisBatch'
  BY <1>1 DEF Step, OutputOfThisBatch
<1>10. QED
  BY <1>1, <1>2, <1>4, <1>5, <1>6, <1>7, <1>8, <1>9, StepInv

(* The key buffer freed or grown: the rest of the runner stays, and the      *)
(* memory owned moves by what was freed and allocated.                       *)
LEMMA KeysOwned ==
  ASSUME NEW r \in Runners
  PROVE  /\ KeysFreed(r) \in Runners /\ KeysAllocated(r) \in Runners
         /\ KeysFreed(r).n = r.n /\ KeysFreed(r).seg = r.seg
         /\ \A k \in {KeysAllocated(r)} :
              /\ k.n = r.n /\ k.seg = r.seg /\ k.alloc = r.alloc /\ k.mem = r.mem /\ k.refs = r.refs
              /\ k.events = r.events /\ k.hostCap = r.hostCap
         /\ Owned(KeysFreed(r)) = Owned(r) - One(KeysGrow(r) /\ r.keys # 0)
         /\ Owned(KeysAllocated(r)) = Owned(r) + One(KeysGrow(r)) - One(KeysGrow(r) /\ r.keys # 0)
<1>1. r # NoRunner
  BY RunnerIsOne
<1>2. /\ KeysFreed(r) \in Runners
      /\ KeysFreed(r).n = r.n /\ KeysFreed(r).seg = r.seg /\ KeysFreed(r).alloc = r.alloc
      /\ KeysFreed(r).mem = r.mem /\ KeysFreed(r).refs = r.refs /\ KeysFreed(r).events = r.events
      /\ KeysFreed(r).hostCap = r.hostCap
      /\ KeysFreed(r).keys = IF KeysGrow(r) THEN 0 ELSE r.keys
  BY DEF KeysFreed, Runners
<1>3. /\ KeysAllocated(r) \in Runners
      /\ KeysAllocated(r).n = r.n /\ KeysAllocated(r).seg = r.seg /\ KeysAllocated(r).alloc = r.alloc
      /\ KeysAllocated(r).mem = r.mem /\ KeysAllocated(r).refs = r.refs
      /\ KeysAllocated(r).events = r.events /\ KeysAllocated(r).hostCap = r.hostCap
      /\ KeysAllocated(r).keys = IF KeysGrow(r) THEN r.n ELSE r.keys
  <2> DEFINE k == KeysFreed(r)
  <2>1. KeysAllocated(r) = IF KeysGrow(r) THEN [k EXCEPT !.keys = r.n, !.keysCap = r.n] ELSE k
    BY DEF KeysAllocated
  <2>2. /\ k \in Runners /\ k.n = r.n /\ k.seg = r.seg /\ k.alloc = r.alloc /\ k.mem = r.mem
        /\ k.refs = r.refs /\ k.events = r.events /\ k.hostCap = r.hostCap
        /\ k.keys = IF KeysGrow(r) THEN 0 ELSE r.keys
    BY <1>2
  <2>3. r.n \in Nat
    BY DEF Runners
  <2> HIDE DEF k
  <2>4. CASE KeysGrow(r)
    <3>1. KeysAllocated(r) = [k EXCEPT !.keys = r.n, !.keysCap = r.n]
      BY <2>1, <2>4
    <3>2. QED
      BY <2>2, <2>3, <2>4, <3>1 DEF Runners
  <2>5. CASE ~KeysGrow(r)
    BY <2>1, <2>2, <2>5
  <2>6. QED
    BY <2>4, <2>5
<1>4. KeysFreed(r) # NoRunner /\ KeysAllocated(r) # NoRunner
  BY <1>2, <1>3, RunnerIsOne
<1>5. r.n # 0
  BY DEF Runners
<1>6. Owned(KeysFreed(r)) = Owned(r) - One(KeysGrow(r) /\ r.keys # 0)
  BY <1>1, <1>2, <1>4, OwnedSum DEF One
<1>7. Owned(KeysAllocated(r)) = Owned(r) + One(KeysGrow(r)) - One(KeysGrow(r) /\ r.keys # 0)
  BY <1>1, <1>3, <1>4, <1>5, OwnedSum DEF One
<1>8. QED
  BY <1>2, <1>3, <1>6, <1>7

(* Keys on the device.                                                       *)
LEMMA DeviceInputInv == ASSUME Inv, DeviceInput PROVE Inv'
<1>1. /\ pc = "input" /\ Step("run") /\ cached' = cached
      /\ live' = live + One(KeysGrow(runner)) - One(KeysGrow(runner) /\ runner.keys # 0)
      /\ runner' = PrepareInputBlocksOnDevice(runner, batch.id)
  BY DEF DeviceInput, Alloc, KeyFrees, One
<1>2. /\ open /\ runner \in Runners /\ runner # NoRunner /\ Complete(runner)
      /\ <<batch.n, batch.seg>> \in AllShapes /\ cached = <<batch.n, batch.seg>>
      /\ runner.n = batch.n /\ runner.seg = batch.seg /\ live = Owned(runner)
  BY <1>1, InBatch
<1>3. batch.id \in Nat
  BY DEF Inv, Shaped
<1> DEFINE k == KeysAllocated(runner)
<1>4. /\ k \in Runners /\ k.n = runner.n /\ k.seg = runner.seg /\ k.alloc = runner.alloc
      /\ k.mem = runner.mem /\ k.refs = runner.refs /\ k.events = runner.events
      /\ k.hostCap = runner.hostCap /\ live' = Owned(k)
  BY <1>1, <1>2, KeysOwned
<1>5. runner' = [k EXCEPT !.keysOf = batch.id, !.ready = TRUE]
  BY <1>1 DEF PrepareInputBlocksOnDevice
<1> HIDE DEF k
<1>6. /\ runner' \in Runners
      /\ runner'.n = runner.n /\ runner'.seg = runner.seg /\ runner'.ready = TRUE
      /\ runner'.mem = k.mem /\ runner'.keys = k.keys /\ runner'.refs = k.refs
      /\ runner'.events = runner.events /\ runner'.hostCap = runner.hostCap
      /\ runner'.alloc = runner.alloc /\ runner'.keysOf = batch.id /\ runner'.mem = runner.mem
  BY <1>3, <1>4, <1>5 DEF Runners
<1>7. Complete(runner')
  BY <1>2, <1>6 DEF Complete
<1>8. live' = Owned(runner')
  <2>1. runner' # NoRunner /\ k # NoRunner
    BY <1>4, <1>6, RunnerIsOne
  <2>2. QED
    BY <1>4, <1>6, <2>1, OwnedSum
<1>9. FirstBlocks(runner') = batch.id
  BY <1>6 DEF FirstBlocks
<1>10. OutputOfThisBatch'
  BY <1>1 DEF Step, OutputOfThisBatch
<1>11. <<runner'.n, runner'.seg>> = <<batch.n, batch.seg>> /\ cached' = <<batch.n, batch.seg>>
  BY <1>1, <1>2, <1>6
<1>12. QED
  BY <1>1, <1>2, <1>6, <1>7, <1>8, <1>9, <1>10, <1>11, StepInv

(* The copy of the keys fails before or after the key buffer grew.           *)
LEMMA DeviceInputThrowsInv == ASSUME Inv, DeviceInputThrows PROVE Inv'
<1>1. pc = "input" /\ Throw(runner.n # batch.n)
  BY DEF DeviceInputThrows
<1>2. /\ runner \in Runners /\ <<batch.n, batch.seg>> \in AllShapes
      /\ runner.n = batch.n /\ runner.seg = batch.seg /\ live = Owned(runner)
  BY <1>1, InBatch
<1>3. \/ /\ runner' = KeysFreed(runner)
         /\ live' = live + 0 - One(KeysGrow(runner) /\ runner.keys # 0)
      \/ /\ runner' = KeysAllocated(runner)
         /\ live' = live + One(KeysGrow(runner)) - One(KeysGrow(runner) /\ runner.keys # 0)
  BY DEF DeviceInputThrows, Alloc, KeyFrees, One
<1>4. Owned(runner) \in Nat
  BY OwnedNat
<1>5. /\ runner' \in Runners /\ runner'.n = runner.n /\ runner'.seg = runner.seg
      /\ live' = Owned(runner')
  <2>1. CASE runner' = KeysFreed(runner) /\ live' = live + 0 - One(KeysGrow(runner) /\ runner.keys # 0)
    <3>1. /\ KeysFreed(runner) \in Runners /\ KeysFreed(runner).n = runner.n
          /\ KeysFreed(runner).seg = runner.seg
          /\ Owned(KeysFreed(runner)) = Owned(runner) - One(KeysGrow(runner) /\ runner.keys # 0)
      BY <1>2, KeysOwned
    <3>2. One(KeysGrow(runner) /\ runner.keys # 0) \in Nat
      BY DEF One
    <3>3. live' = live - One(KeysGrow(runner) /\ runner.keys # 0)
      BY <1>2, <1>4, <2>1, <3>2
    <3>4. QED
      BY <1>2, <2>1, <3>1, <3>3
  <2>2. CASE /\ runner' = KeysAllocated(runner)
             /\ live' = live + One(KeysGrow(runner)) - One(KeysGrow(runner) /\ runner.keys # 0)
    BY <1>2, <1>4, <2>2, KeysOwned
  <2>3. QED
    BY <1>3, <2>1, <2>2
<1>6. QED
  BY <1>1, <1>2, <1>5, ThrowInv

(* run() up to the kernel: the flag down, the table there and of the         *)
(* runner's segment size, the memory owned moved accordingly.                *)
LEMMA RefsOwned ==
  ASSUME NEW r \in Runners, pre \in BOOLEAN
  PROVE  /\ RefsFreed(Launched(r)) \in Runners /\ EnsurePrecomputedRefs(Launched(r)) \in Runners
         /\ RefsFreed(Launched(r)).n = r.n /\ RefsFreed(Launched(r)).seg = r.seg
         /\ Owned(RefsFreed(Launched(r))) = Owned(r) - One(r.refs)
         /\ \A k \in {EnsurePrecomputedRefs(Launched(r))} :
              /\ k.n = r.n /\ k.seg = r.seg /\ k.alloc = r.alloc /\ k.mem = r.mem /\ k.keys = r.keys
              /\ k.events = r.events /\ k.hostCap = r.hostCap /\ k.ready = FALSE
              /\ pre => k.refs /\ k.refsSeg = r.seg
              /\ Owned(k) = Owned(r) + One(pre /\ ~RefsCurrent(r))
                                     - One(pre /\ ~RefsCurrent(r) /\ r.refs)
<1> DEFINE l == Launched(r)
           f == RefsFreed(l)
           k == EnsurePrecomputedRefs(l)
<1>1. /\ l \in Runners /\ l.n = r.n /\ l.seg = r.seg /\ l.alloc = r.alloc /\ l.mem = r.mem
      /\ l.keys = r.keys /\ l.events = r.events /\ l.hostCap = r.hostCap /\ l.ready = FALSE
      /\ l.refs = r.refs /\ l.refsSeg = r.refsSeg
  BY DEF Launched, Runners
<1>2. RefsCurrent(l) <=> RefsCurrent(r)
  BY <1>1 DEF RefsCurrent
<1> HIDE DEF l
<1>3. /\ f \in Runners /\ f.n = r.n /\ f.seg = r.seg /\ f.alloc = r.alloc /\ f.mem = r.mem
      /\ f.keys = r.keys /\ f.events = r.events /\ f.hostCap = r.hostCap /\ f.ready = FALSE
      /\ f.refs = FALSE
  BY <1>1 DEF RefsFreed, Runners
<1>4. k = IF ~pre \/ RefsCurrent(l) THEN l ELSE [f EXCEPT !.refs = TRUE, !.refsSeg = l.seg]
  BY DEF EnsurePrecomputedRefs
<1>5. l.seg \in Nat
  BY <1>1 DEF Runners
<1> HIDE DEF f, k
<1>6. r # NoRunner /\ l # NoRunner /\ f # NoRunner
  BY <1>1, <1>3, RunnerIsOne
<1>7. /\ Owned(r) = One(r.mem # 0) + One(r.keys # 0) + One(r.refs)
      /\ One(r.mem # 0) \in Nat /\ One(r.keys # 0) \in Nat /\ One(r.refs) \in Nat
  BY <1>6, OwnedSum DEF One
<1>8. Owned(f) = Owned(r) - One(r.refs)
  BY <1>3, <1>6, OwnedSum DEF One
<1>9. /\ k \in Runners /\ k.n = r.n /\ k.seg = r.seg /\ k.alloc = r.alloc /\ k.mem = r.mem
      /\ k.keys = r.keys /\ k.events = r.events /\ k.hostCap = r.hostCap /\ k.ready = FALSE
      /\ pre => k.refs /\ k.refsSeg = r.seg
      /\ Owned(k) = Owned(r) + One(pre /\ ~RefsCurrent(r)) - One(pre /\ ~RefsCurrent(r) /\ r.refs)
  <2>1. CASE ~pre \/ RefsCurrent(l)
    <3>1. k = l
      BY <1>4, <2>1
    <3>2. Owned(l) = Owned(r)
      BY <1>1, <1>6, OwnedSum
    <3>3. One(pre /\ ~RefsCurrent(r)) = 0 /\ One(pre /\ ~RefsCurrent(r) /\ r.refs) = 0
      BY <1>2, <2>1 DEF One
    <3>4. Owned(k) = Owned(r) + One(pre /\ ~RefsCurrent(r)) - One(pre /\ ~RefsCurrent(r) /\ r.refs)
      BY <3>1, <3>2, <3>3, <1>7
    <3>5. pre => k.refs /\ k.refsSeg = r.seg
      BY <1>1, <2>1, <3>1 DEF RefsCurrent
    <3>6. QED
      BY <1>1, <3>1, <3>4, <3>5
  <2>2. CASE pre /\ ~RefsCurrent(l)
    <3>1. k = [f EXCEPT !.refs = TRUE, !.refsSeg = l.seg]
      BY <1>4, <2>2
    <3>2. /\ k \in Runners /\ k.n = r.n /\ k.seg = r.seg /\ k.alloc = r.alloc /\ k.mem = r.mem
          /\ k.keys = r.keys /\ k.events = r.events /\ k.hostCap = r.hostCap /\ k.ready = FALSE
          /\ k.refs = TRUE /\ k.refsSeg = l.seg
      BY <1>3, <1>5, <3>1 DEF Runners
    <3>3. k # NoRunner
      BY <3>2, RunnerIsOne
    <3>4. Owned(k) = One(r.mem # 0) + One(r.keys # 0) + 1
      BY <3>2, <3>3, OwnedSum DEF One
    <3>5. One(pre /\ ~RefsCurrent(r)) = 1 /\ One(pre /\ ~RefsCurrent(r) /\ r.refs) = One(r.refs)
      BY <1>2, <2>2 DEF One
    <3>6. Owned(k) = Owned(r) + One(pre /\ ~RefsCurrent(r)) - One(pre /\ ~RefsCurrent(r) /\ r.refs)
      BY <1>7, <3>4, <3>5
    <3>7. QED
      BY <1>1, <3>2, <3>6
  <2>3. QED
    BY <2>1, <2>2
<1>10. QED
  BY <1>3, <1>8, <1>9 DEF f, k, l

(* What a call of run() frees and allocates, as the action counts it.        *)
LEMMA RefCounts ==
  ASSUME NEW r \in Runners, runner = r
  PROVE  /\ RefFrees = One(pre /\ ~RefsCurrent(r) /\ r.refs)
         /\ RefGains = One(pre /\ ~RefsCurrent(r))
<1>1. RefsFreed(r).refs = FALSE
  BY DEF RefsFreed, Runners
<1>2. QED
  BY <1>1 DEF RefFrees, RefGains, One

(* The kernel runs on this batch's input.                                    *)
LEMMA RunKernelInv == ASSUME Inv, RunKernel PROVE Inv'
<1>1. /\ pc = "run" /\ Step("finish") /\ cached' = cached
      /\ live' = live + RefGains - RefFrees /\ runner' = Run(runner)
  BY DEF RunKernel, Alloc
<1>2. /\ open /\ runner \in Runners /\ runner # NoRunner /\ Complete(runner)
      /\ <<batch.n, batch.seg>> \in AllShapes /\ cached = <<batch.n, batch.seg>>
      /\ runner.n = batch.n /\ runner.seg = batch.seg /\ live = Owned(runner)
  BY <1>1, InBatch
<1>3. FirstBlocks(runner) = batch.id /\ pre \in BOOLEAN /\ batch.id \in Nat
  BY <1>1 DEF Inv, InputCurrent, TypeOK, Shaped
<1> DEFINE k == EnsurePrecomputedRefs(Launched(runner))
<1>4. /\ k \in Runners /\ k.n = runner.n /\ k.seg = runner.seg /\ k.alloc = runner.alloc
      /\ k.mem = runner.mem /\ k.keys = runner.keys /\ k.events = runner.events
      /\ k.hostCap = runner.hostCap /\ k.ready = FALSE
      /\ pre => k.refs /\ k.refsSeg = runner.seg
      /\ live' = Owned(k)
  BY <1>1, <1>2, <1>3, RefsOwned, RefCounts
<1>5. runner' = [k EXCEPT !.out = <<batch.id, k.seg, IF pre /\ k.refs THEN k.refsSeg ELSE 0>>]
  BY <1>1, <1>3 DEF Run, KernelOneshot
<1> HIDE DEF k
<1>6. /\ runner' \in Runners
      /\ runner'.n = runner.n /\ runner'.seg = runner.seg /\ runner'.ready = FALSE
      /\ runner'.mem = k.mem /\ runner'.keys = k.keys /\ runner'.refs = k.refs
      /\ runner'.events = runner.events /\ runner'.hostCap = runner.hostCap
      /\ runner'.alloc = runner.alloc /\ runner'.mem = runner.mem
      /\ runner'.out = <<batch.id, k.seg, IF pre /\ k.refs THEN k.refsSeg ELSE 0>>
  BY <1>3, <1>4, <1>5 DEF Runners
<1>7. Complete(runner')
  BY <1>2, <1>6 DEF Complete
<1>8. live' = Owned(runner')
  <2>1. runner' # NoRunner /\ k # NoRunner
    BY <1>4, <1>6, RunnerIsOne
  <2>2. QED
    BY <1>4, <1>6, <2>1, OwnedSum
<1>9. OutputOfThisBatch'
  <2>1. batch' = batch /\ pre' = pre
    BY <1>1 DEF Step
  <2>2. runner'.out = <<batch.id, batch.seg, IF pre THEN batch.seg ELSE 0>>
    BY <1>2, <1>3, <1>4, <1>6
  <2>3. QED
    BY <2>1, <2>2 DEF OutputOfThisBatch
<1>10. <<runner'.n, runner'.seg>> = <<batch.n, batch.seg>> /\ cached' = <<batch.n, batch.seg>>
  BY <1>1, <1>2, <1>6
<1>11. QED
  BY <1>1, <1>2, <1>6, <1>7, <1>8, <1>9, <1>10, StepInv

(* A call of run() fails: at the flag, at the table or at the kernel.        *)
LEMMA RunThrowsInv == ASSUME Inv, RunThrows PROVE Inv'
<1>1. pc = "run" /\ Throw(~Runnable)
  BY DEF RunThrows
<1>2. /\ runner \in Runners /\ <<batch.n, batch.seg>> \in AllShapes
      /\ runner.n = batch.n /\ runner.seg = batch.seg /\ live = Owned(runner)
  BY <1>1, InBatch
<1>3. pre \in BOOLEAN /\ Owned(runner) \in Nat
  BY OwnedNat DEF Inv, TypeOK
<1>4. \/ runner' = runner /\ live' = live + 0 - 0
      \/ /\ pre /\ ~RefsCurrent(runner)
         /\ runner' = RefsFreed(Launched(runner)) /\ live' = live + 0 - RefFrees
      \/ runner' = EnsurePrecomputedRefs(Launched(runner)) /\ live' = live + RefGains - RefFrees
  BY DEF RunThrows, Alloc
<1>5. /\ runner' \in Runners /\ runner'.n = runner.n /\ runner'.seg = runner.seg
      /\ live' = Owned(runner')
  <2>1. CASE runner' = runner /\ live' = live + 0 - 0
    BY <1>2, <1>3, <2>1
  <2>2. CASE /\ pre /\ ~RefsCurrent(runner)
             /\ runner' = RefsFreed(Launched(runner)) /\ live' = live + 0 - RefFrees
    <3>1. RefFrees = One(runner.refs) /\ One(runner.refs) \in Nat
      BY <1>2, <2>2, RefCounts DEF One
    <3>2. live' = live - One(runner.refs)
      BY <1>2, <1>3, <2>2, <3>1
    <3>3. /\ RefsFreed(Launched(runner)) \in Runners
          /\ RefsFreed(Launched(runner)).n = runner.n /\ RefsFreed(Launched(runner)).seg = runner.seg
          /\ Owned(RefsFreed(Launched(runner))) = Owned(runner) - One(runner.refs)
      BY <1>2, <1>3, RefsOwned
    <3>4. QED
      BY <1>2, <2>2, <3>2, <3>3
  <2>3. CASE runner' = EnsurePrecomputedRefs(Launched(runner)) /\ live' = live + RefGains - RefFrees
    BY <1>2, <1>3, <2>3, RefsOwned, RefCounts
  <2>4. QED
    BY <1>4, <2>1, <2>2, <2>3
<1>6. (~Runnable) \in BOOLEAN
  OBVIOUS
<1>7. QED
  BY <1>1, <1>2, <1>5, <1>6, ThrowInv

(* The batch ends.                                                           *)
LEMMA FinishInv == ASSUME Inv, Finish PROVE Inv'
<1>1. /\ pc = "finish" /\ pc' = "idle" /\ last' = "ok" /\ open' = open /\ runner' = runner
      /\ live' = live /\ cached' = cached /\ batch' = batch /\ client' = client /\ shape' = shape
      /\ gpu' = gpu /\ pre' = pre /\ faults' = faults
  BY DEF Finish
<1>2. TypeOK'
  BY <1>1 DEF Inv, TypeOK
<1>3. Shaped' /\ InStep' /\ InputCurrent' /\ OutputOfThisBatch' /\ DeviceMemoryOwned'
  BY <1>1 DEF Inv, Shaped, InStep, InputCurrent, OutputOfThisBatch, DeviceMemoryOwned
<1>4. QED
  BY <1>2, <1>3 DEF Inv

(* The batch's results cannot be read.                                       *)
LEMMA FinishThrowsInv == ASSUME Inv, FinishThrows PROVE Inv'
<1>1. pc = "finish" /\ Throw(FALSE) /\ runner' = runner /\ live' = live
  BY DEF FinishThrows
<1>2. runner \in Runners /\ <<runner.n, runner.seg>> \in AllShapes /\ live = Owned(runner)
  BY <1>1, InBatch
<1>3. QED
  BY <1>1, <1>2, ThrowInv

(* Nothing changes.                                                          *)
LEMMA StutterInv == ASSUME Inv, UNCHANGED vars PROVE Inv'
<1>1. /\ client' = client /\ open' = open /\ shape' = shape /\ gpu' = gpu /\ pre' = pre
      /\ cached' = cached /\ runner' = runner /\ live' = live /\ pc' = pc /\ batch' = batch
      /\ last' = last /\ faults' = faults
  BY DEF vars
<1>2. TypeOK'
  BY <1>1 DEF Inv, TypeOK
<1>3. Shaped' /\ InStep' /\ InputCurrent' /\ OutputOfThisBatch' /\ DeviceMemoryOwned'
  BY <1>1 DEF Inv, Shaped, InStep, InputCurrent, OutputOfThisBatch, DeviceMemoryOwned
<1>4. QED
  BY <1>2, <1>3 DEF Inv

(* The inductive invariant: ensureInitialized, runBatch and releaseBuffers   *)
(* keep the remembered shape, the runner and the device memory in step       *)
(* through every failure of a CUDA call.                                     *)
THEOREM InvHolds == Spec => []Inv
<1>1. Inv /\ [Next]_vars => Inv'
  BY NewUnitInv, BeginInv, InitCachedInv, InitReuseInv, InitNewInv, HostInputInv, DeviceInputInv,
     RunKernelInv, FinishInv, InitThrowsInv, DeviceInputThrowsInv, RunThrowsInv, FinishThrowsInv,
     StutterInv
  DEF Next, Work, Fault, Ended
<1>2. QED
  BY <1>1, InitInv, PTL DEF Spec

(* The type invariant of the hashing stack.                                  *)
THEOREM RunnerTypes == Spec => []TypeOK
<1>1. Inv => TypeOK
  BY DEF Inv
<1>2. QED
  BY <1>1, InvHolds, PTL

(* The device memory for the larger segment size holds the smaller one.      *)
LEMMA SmallerFits ==
  ASSUME NEW n \in Nat, NEW a \in Nat, NEW b \in Nat, a <= b
  PROVE  n * a <= n * b
OBVIOUS

(* Every batch that reaches its input, its kernel or its results             *)
(* (runBatch) has buffers allocated for its own size, whatever shapes were   *)
(* asked for and whichever calls failed before.                              *)
THEOREM BuffersAlwaysFit == Spec => []BuffersFit
<1>1. Inv => BuffersFit
  <2> SUFFICES ASSUME Inv, pc \in {"input", "run", "finish"}
               PROVE  /\ runner # NoRunner
                      /\ <<runner.n, runner.seg>> = <<batch.n, batch.seg>>
                      /\ runner.hostCap >= batch.n
                      /\ runner.mem >= batch.n * batch.seg /\ runner.events
    BY DEF BuffersFit
  <2>1. /\ runner \in Runners /\ runner # NoRunner /\ Complete(runner)
        /\ <<runner.n, runner.seg>> = <<batch.n, batch.seg>>
        /\ runner.n = batch.n /\ runner.seg = batch.seg
    BY InBatch
  <2>2. /\ runner.events /\ runner.hostCap = runner.n /\ runner.mem = runner.n * runner.alloc
        /\ runner.seg <= runner.alloc
    BY <2>1 DEF Complete
  <2>3. runner.n \in Nat /\ runner.seg \in Nat /\ runner.alloc \in Nat
    BY <2>1 DEF Runners
  <2>4. runner.n * runner.seg <= runner.n * runner.alloc
    BY <2>2, <2>3, SmallerFits
  <2>5. QED
    BY <2>1, <2>2, <2>3, <2>4
<1>2. QED
  BY <1>1, InvHolds, PTL

(* What finish() reads is this batch's: its keys' first blocks, its segment  *)
(* size, its reference table.                                                *)
THEOREM OutputAlwaysOwn == Spec => []OutputOfThisBatch
<1>1. Inv => OutputOfThisBatch
  BY DEF Inv
<1>2. QED
  BY <1>1, InvHolds, PTL

(* No device memory leaks: ~KernelRunner frees exactly what is live.         *)
THEOREM NoDeviceLeak == Spec => []DeviceMemoryOwned
<1>1. Inv => DeviceMemoryOwned
  BY DEF Inv
<1>2. QED
  BY <1>1, InvHolds, PTL

(* CudaHashBackend, CudaBackend and KernelRunner stay in step, for all       *)
(* shapes and any number of failing calls.                                   *)
THEOREM RunnerSound == Spec => []RunnerInvariant
<1>1. TypeOK /\ BuffersFit /\ OutputOfThisBatch /\ DeviceMemoryOwned => RunnerInvariant
  BY DEF RunnerInvariant
<1>2. QED
  BY <1>1, RunnerTypes, BuffersAlwaysFit, OutputAlwaysOwn, NoDeviceLeak, PTL

-----------------------------------------------------------------------------
(* KernelFill *)

(* What division gives.                                                     *)
LEMMA DivFacts ==
  ASSUME NEW a \in Nat, NEW b \in Nat \ {0}
  PROVE  a \div b \in Nat /\ a % b \in 0..(b - 1) /\ a = b * (a \div b) + (a % b)
<1>1. a \div b \in Int /\ a % b \in 0..(b - 1) /\ a = b * (a \div b) + (a % b)
  OBVIOUS
<1>2. ~(a \div b <= -1)
  <2>1. a \div b <= -1 => b * (a \div b) <= b * (-1)
    BY <1>1
  <2>2. QED
    BY <1>1, <2>1
<1>3. QED
  BY <1>1, <1>2

(* Multiplication keeps the order.                                          *)
LEMMA TimesOrder ==
  ASSUME NEW b \in Nat, NEW x \in Int, NEW y \in Int, x <= y
  PROVE  b * x <= b * y
OBVIOUS

(* Quotient and remainder are the only ones.                                *)
LEMMA DivUnique ==
  ASSUME NEW b \in Nat \ {0}, NEW q \in Int, NEW r \in 0..(b - 1), NEW a \in Nat, a = b * q + r
  PROVE  a \div b = q /\ a % b = r
<1> DEFINE d == a \div b
           m == a % b
<1>1. d \in Nat /\ m \in 0..(b - 1) /\ a = b * d + m
  BY DivFacts
<1> HIDE DEF d, m
<1>2. b * q \in Int /\ b * d \in Int /\ b * (d + 1) = b * d + b /\ b * (q + 1) = b * q + b
  BY <1>1
<1>3. ~(q >= d + 1)
  BY <1>1, <1>2, TimesOrder
<1>4. ~(d >= q + 1)
  BY <1>1, <1>2, TimesOrder
<1>5. d = q
  BY <1>1, <1>3, <1>4
<1>6. QED
  BY <1>1, <1>2, <1>5 DEF d, m

(* The quotient of what is less than a product.                             *)
LEMMA DivLess ==
  ASSUME NEW b \in Nat \ {0}, NEW c \in Nat, NEW a \in Nat, a < b * c
  PROVE  a \div b < c
<1> DEFINE d == a \div b
<1>1. d \in Nat /\ a % b \in 0..(b - 1) /\ a = b * d + (a % b)
  BY DivFacts
<1> HIDE DEF d
<1>2. b * d \in Int /\ b * c \in Int
  BY <1>1
<1>3. ~(c <= d)
  BY <1>1, <1>2, TimesOrder
<1>4. QED
  BY <1>1, <1>3 DEF d

(* The address block changes at multiples of its size only.                 *)
LEMMA DivStep ==
  ASSUME NEW x \in Nat \ {0}, NEW b \in Nat \ {0}
  PROVE  /\ (x - 1) \div b \in Nat /\ x \div b \in Nat
         /\ x % b = 0 => x \div b = (x - 1) \div b + 1
         /\ x % b # 0 => x \div b = (x - 1) \div b
<1> DEFINE d == x \div b
           m == x % b
<1>0. x \in Nat /\ x - 1 \in Nat
  OBVIOUS
<1>1. d \in Nat /\ m \in 0..(b - 1) /\ x = b * d + m /\ x - 1 \in Nat
  BY <1>0, DivFacts
<1>2. (x - 1) \div b \in Nat
  BY <1>1, DivFacts
<1> HIDE DEF d, m
<1>3. b * d \in Int /\ b * (d - 1) = b * d - b
  BY <1>1
<1>4. CASE m = 0
  <2>1. x - 1 = b * (d - 1) + (b - 1) /\ d - 1 \in Int /\ b - 1 \in 0..(b - 1)
    BY <1>1, <1>3, <1>4
  <2>2. (x - 1) \div b = d - 1
    BY <1>1, <2>1, DivUnique
  <2>3. QED
    BY <1>1, <1>2, <1>4, <2>2 DEF d, m
<1>5. CASE m # 0
  <2>1. x - 1 = b * d + (m - 1) /\ m - 1 \in 0..(b - 1)
    BY <1>1, <1>3, <1>5
  <2>2. (x - 1) \div b = d
    BY <1>1, <2>1, DivUnique
  <2>3. QED
    BY <1>1, <1>2, <1>5, <2>2 DEF d, m
<1>6. QED
  BY <1>4, <1>5
-----------------------------------------------------------------------------
(* Every reference is a block before the last one written.                  *)
LEMMA RefInside ==
  ASSUME NEW seg \in Nat, NEW slice \in Nat, NEW off \in Nat, NEW raw \in 0..(Word - 1),
         NEW pos \in Nat, pos = slice * seg + off, pos >= 2
  PROVE  ComputeRefPos(seg, slice, off, raw) \in 0..(pos - 2)
<1> DEFINE area == pos - 1
           s == raw * raw
           u == s \div Word
           p == area * u
           f == p \div Word
<1>1. Word \in Nat \ {0} /\ area \in Nat \ {0} /\ raw \in Nat /\ s \in Nat
  BY KernelAssumption
<1>2. s < Word * Word
  <2>1. raw * raw <= raw * Word /\ Word * raw <= Word * (Word - 1) /\ raw * Word = Word * raw
    BY <1>1, TimesOrder
  <2>2. Word * (Word - 1) = Word * Word - Word /\ Word * Word \in Int /\ raw * Word \in Int
    BY <1>1
  <2>3. QED
    BY <1>1, <2>1, <2>2
<1>3. u \in Nat /\ u < Word
  BY <1>1, <1>2, DivFacts, DivLess
<1> HIDE DEF u
<1>4. p \in Nat /\ p < Word * area
  <2>1. area * u <= area * (Word - 1) /\ area * (Word - 1) = Word * area - area
    BY <1>1, <1>3, TimesOrder
  <2>2. area * u \in Nat /\ Word * area \in Int
    BY <1>1, <1>3
  <2>3. QED
    BY <1>1, <2>1, <2>2
<1>5. f \in Nat /\ f < area
  BY <1>1, <1>4, DivFacts, DivLess
<1>6. ComputeRefPos(seg, slice, off, raw) = area - 1 - f
  BY DEF ComputeRefPos, Umulhi, u
<1>7. QED
  BY <1>1, <1>5, <1>6
-----------------------------------------------------------------------------
Position(seg, p) == p.slice * seg + p.off

Walkers ==
  [place : [slice : Nat, off : Nat],
   a : [slice : Nat, count : Nat, addr : Nat \X Nat]]

(* A walker stands at a block of the hash, or at its end; in slices 0 and 1 *)
(* the address block it generated last is the one of the offset before.     *)
WalkSound(seg, k) ==
  /\ k \in Walkers
  /\ k.place.off < seg /\ k.place.slice <= 4 /\ Position(seg, k.place) \in 2..(4 * seg)
  /\ k.place.slice <= 1 =>
       /\ k.a.slice = k.place.slice
       /\ k.place.off = 0 => k.a.count = 0
       /\ k.place.off # 0 =>
            k.a.count = (k.place.off - 1) \div Qwords + 1 /\ k.a.addr = <<k.place.slice, k.a.count>>

(* Argon2's address word for an offset.                                     *)
RefAt(slice, off) ==
  [addr |-> <<slice, (off \div Qwords) + 1>>, index |-> off % Qwords, slice |-> slice, off |-> off]

(* The table has Argon2's words, each at the place where a warp looks.      *)
TableSound ==
  /\ WalkSound(geometry.seg, gen)
  /\ table \in Seq([addr : Nat \X Nat, index : Nat, slice : Nat, off : Nat])
  /\ Position(geometry.seg, gen.place) = Len(table) + 2
  /\ Len(table) <= IndexedRefCount(geometry.seg)
  /\ \A slice \in {0, 1}, off \in 0..(geometry.seg - 1) :
       2 <= slice * geometry.seg + off /\ slice * geometry.seg + off < Len(table) + 2 =>
         table[IndexedRefIndex(slice, off, geometry.seg) + 1] = RefAt(slice, off)

Grids == MakeOneshotLaunch(geometry.n, geometry.warps)
DeviceBlocks == 0..(geometry.n * Lane - 1)

(* Before the launch the first blocks are written; a warp then has written  *)
(* what is before its place, and nothing of another hash.                   *)
WarpsSound ==
  /\ writes \in [DeviceBlocks -> Nat]
  /\ w = <<>> => \A i \in DeviceBlocks : writes[i] = IF i % Lane < 2 THEN 1 ELSE 0
  /\ w # <<>> =>
       /\ geometry.pre => Len(table) = IndexedRefCount(geometry.seg)
       /\ w \in [Grids -> [job : Nat, curr : Nat, k : Walkers]]
       /\ \A id \in Grids :
            /\ w[id].job = JobId(id, geometry.warps)
            /\ WalkSound(geometry.seg, w[id].k)
            /\ w[id].curr = Position(geometry.seg, w[id].k.place)
            /\ w[id].job < geometry.n =>
                 \A r \in 0..(Lane - 1) :
                   writes[w[id].job * Lane + r] = IF r < w[id].curr THEN 1 ELSE 0

KernelInductive ==
  /\ geometry \in [n : BatchSizes, warps : WarpsPerBlock, seg : SegmentBlocks, pre : BOOLEAN]
  /\ TableSound /\ WarpsSound

(* The sizes are positive.                                                  *)
LEMMA KernelSizes ==
  ASSUME geometry \in [n : BatchSizes, warps : WarpsPerBlock, seg : SegmentBlocks, pre : BOOLEAN]
  PROVE  /\ geometry.n \in Nat \ {0} /\ geometry.warps \in Nat \ {0}
         /\ geometry.seg \in Nat \ {0, 1} /\ Qwords \in Nat \ {0, 1} /\ Lane \in Nat \ {0}
<1>1. /\ geometry.n \in Nat \ {0} /\ geometry.warps \in Nat \ {0}
      /\ geometry.seg \in Nat \ {0, 1} /\ Qwords \in Nat \ {0, 1}
  BY KernelAssumption
<1>2. QED
  BY <1>1 DEF Lane

(* What the change of slice leaves.                                         *)
LEMMA SecondSliceIs ==
  ASSUME NEW a \in [slice : Nat, count : Nat, addr : Nat \X Nat]
  PROVE  SecondSlice(a) = [slice |-> a.slice + 1, count |-> 0, addr |-> a.addr]
<1>1. PICK b : b = SecondSlice(a)
  OBVIOUS
<1>2. b = [a EXCEPT !.slice = a.slice + 1, !.count = 0]
  BY <1>1 DEF SecondSlice
<1>3. b = [slice |-> a.slice + 1, count |-> 0, addr |-> a.addr]
  BY <1>2
<1>4. QED
  BY <1>1, <1>3

(* A walker starts at the third block.                                      *)
LEMMA StartSound ==
  ASSUME NEW seg \in Nat \ {0, 1}
  PROVE  WalkSound(seg, StartWalk(seg)) /\ Position(seg, StartWalk(seg).place) = 2
<1>0. Qwords \in Nat \ {0, 1}
  BY KernelAssumption
<1>1. CASE seg = 2
  <2>1. StartWalk(seg) = [place |-> [slice |-> 1, off |-> 0], a |-> [slice |-> 1, count |-> 0, addr |-> <<0, 1>>]]
    <3>1. FirstPlace(seg) = [slice |-> 1, off |-> 0]
      BY <1>1 DEF FirstPlace, NextPlace
    <3>2. SecondSlice(StartAddresses) = [slice |-> 1, count |-> 0, addr |-> <<0, 1>>]
      <4>1. StartAddresses \in [slice : Nat, count : Nat, addr : Nat \X Nat]
        BY DEF StartAddresses
      <4>2. SecondSlice(StartAddresses) =
              [slice |-> StartAddresses.slice + 1, count |-> 0, addr |-> StartAddresses.addr]
        BY <4>1, SecondSliceIs
      <4>3. QED
        BY <4>2 DEF StartAddresses
    <3>3. QED
      BY <3>1, <3>2 DEF StartWalk, Walk
  <2>2. QED
    BY <1>1, <2>1 DEF WalkSound, Position, Walkers
<1>2. CASE seg # 2
  <2>1. StartWalk(seg) = [place |-> [slice |-> 0, off |-> 2], a |-> [slice |-> 0, count |-> 1, addr |-> <<0, 1>>]]
    BY <1>2 DEF StartWalk, FirstPlace, NextPlace, Walk, StartAddresses, SecondSlice
  <2>2. (2 - 1) \div Qwords = 0
    <3>1. 1 = Qwords * 0 + 1 /\ 1 \in 0..(Qwords - 1)
      BY <1>0
    <3>2. QED
      BY <1>0, <3>1, DivUnique
  <2>3. QED
    BY <1>2, <2>1, <2>2 DEF WalkSound, Position, Walkers
<1>3. QED
  BY <1>1, <1>2

(* At its place in slices 0 and 1 a walker has the address block of Argon2. *)
LEMMA WalkAddresses ==
  ASSUME NEW seg \in Nat \ {0, 1}, NEW k, WalkSound(seg, k), k.place.slice <= 1,
         NEW b, b = NextAddresses(k.a, k.place.off)
  PROVE  /\ b \in [slice : Nat, count : Nat, addr : Nat \X Nat]
         /\ b.slice = k.place.slice /\ b.count = (k.place.off \div Qwords) + 1
         /\ b.addr = <<k.place.slice, (k.place.off \div Qwords) + 1>>
<1> DEFINE off == k.place.off
<1>0. Qwords \in Nat \ {0, 1} /\ off \in Nat /\ off \div Qwords \in Nat
  BY KernelAssumption, DivFacts DEF WalkSound, Walkers
<1>1. k.a \in [slice : Nat, count : Nat, addr : Nat \X Nat] /\ k.a.slice = k.place.slice
  BY DEF WalkSound, Walkers
<1>2. CASE off % Qwords = 0
  <2>1. b = [k.a EXCEPT !.count = k.a.count + 1, !.addr = <<k.a.slice, k.a.count + 1>>]
    BY <1>2 DEF NextAddresses
  <2>2. k.a.count + 1 = (off \div Qwords) + 1
    <3>1. CASE off = 0
      <4>1. 0 \div Qwords = 0
        BY <1>0, DivUnique
      <4>2. QED
        BY <3>1, <4>1 DEF WalkSound
    <3>2. CASE off # 0
      <4>1. off \in Nat \ {0} /\ Qwords \in Nat \ {0}
        BY <1>0, <3>2
      <4>2. k.a.count = (off - 1) \div Qwords + 1
        BY <3>2 DEF WalkSound
      <4> HIDE DEF off
      <4>3. off \div Qwords = (off - 1) \div Qwords + 1
        BY <1>2, <4>1, DivStep
      <4>4. QED
        BY <4>2, <4>3
    <3>3. QED
      BY <3>1, <3>2
  <2>3. b = [slice |-> k.a.slice, count |-> k.a.count + 1, addr |-> <<k.a.slice, k.a.count + 1>>]
    BY <1>1, <2>1
  <2>4. QED
    BY <1>0, <1>1, <2>2, <2>3
<1>3. CASE off % Qwords # 0
  <2>1. b = k.a
    BY <1>3 DEF NextAddresses
  <2>2. off # 0
    <3>1. 0 = Qwords * 0 + 0
      BY <1>0
    <3>2. 0 % Qwords = 0
      BY <1>0, <3>1, DivUnique
    <3>3. QED
      BY <1>3, <3>2
  <2>3. k.a.count = (off \div Qwords) + 1 /\ k.a.addr = <<k.place.slice, k.a.count>>
    BY <1>0, <1>3, <2>2, DivStep DEF WalkSound
  <2>4. QED
    BY <1>1, <2>1, <2>3
<1>4. QED
  BY <1>2, <1>3

(* A step of a walker is to the next block, and its addresses stay right.   *)
LEMMA StepSound ==
  ASSUME NEW seg \in Nat \ {0, 1}, NEW k, WalkSound(seg, k), Position(seg, k.place) < 4 * seg
  PROVE  /\ WalkSound(seg, StepWalk(seg, k))
         /\ Position(seg, StepWalk(seg, k).place) = Position(seg, k.place) + 1
<1> DEFINE slice == k.place.slice
           off == k.place.off
           to == NextPlace(seg, k.place)
           b == NextAddresses(k.a, off)
           s == StepWalk(seg, k)
<1>0. /\ slice \in Nat /\ off \in Nat /\ off < seg /\ k.place \in [slice : Nat, off : Nat]
      /\ k.a \in [slice : Nat, count : Nat, addr : Nat \X Nat] /\ slice * seg + off \in 2..(4 * seg)
      /\ slice * seg + off < 4 * seg /\ Qwords \in Nat \ {0, 1}
  BY KernelAssumption DEF WalkSound, Walkers, Position
<1>1. slice <= 3
  <2>1. slice * seg \in Nat /\ seg * slice = slice * seg /\ seg * 4 = 4 * seg
    BY <1>0
  <2>2. ~(4 <= slice)
    BY <1>0, <2>1, TimesOrder
  <2>3. QED
    BY <1>0, <2>2
<1>2. /\ to \in [slice : Nat, off : Nat] /\ to.off < seg /\ to.slice <= 4
      /\ to.slice * seg + to.off = slice * seg + off + 1
      /\ \/ to.slice = slice /\ to.off = off + 1
         \/ to.slice = slice + 1 /\ to.off = 0
  <2>1. CASE off + 1 < seg
    <3>1. to = [slice |-> slice, off |-> off + 1]
      BY <2>1 DEF NextPlace
    <3>2. slice * seg \in Nat
      BY <1>0
    <3>3. QED
      BY <1>0, <1>1, <2>1, <3>1, <3>2
  <2>2. CASE ~(off + 1 < seg)
    <3>1. to = [slice |-> slice + 1, off |-> 0] /\ off + 1 = seg
      BY <1>0, <2>2 DEF NextPlace
    <3>2. slice * seg \in Nat /\ (slice + 1) * seg = slice * seg + seg
      BY <1>0
    <3>3. QED
      BY <1>0, <1>1, <3>1, <3>2
  <2>3. QED
    BY <2>1, <2>2
<1>3. s = [place |-> to, a |-> IF slice <= 1 THEN Walk(b, slice, to) ELSE k.a]
  BY DEF StepWalk
<1> HIDE DEF to, s, b
<1>4. /\ s.place = to /\ Position(seg, to) = Position(seg, k.place) + 1
      /\ Position(seg, to) \in 2..(4 * seg)
  BY <1>0, <1>2, <1>3 DEF Position
<1>5. CASE slice > 1
  <2>1. s.a = k.a /\ s \in Walkers
    BY <1>0, <1>2, <1>3, <1>5 DEF Walkers
  <2>2. QED
    BY <1>0, <1>2, <1>4, <1>5, <2>1 DEF WalkSound, s
<1>6. CASE slice <= 1
  <2>1. /\ b \in [slice : Nat, count : Nat, addr : Nat \X Nat]
        /\ b.slice = slice /\ b.count = (off \div Qwords) + 1 /\ b.addr = <<slice, (off \div Qwords) + 1>>
    BY <1>6, WalkAddresses DEF b
  <2>2. CASE slice = 0 /\ to.slice = 1
    <3>1. s.a = SecondSlice(b)
      BY <1>3, <2>2 DEF Walk
    <3>0. s.a = [slice |-> b.slice + 1, count |-> 0, addr |-> b.addr]
      BY <2>1, <3>1, SecondSliceIs
    <3>2. s.a.slice = 1 /\ s.a.count = 0 /\ s.a \in [slice : Nat, count : Nat, addr : Nat \X Nat] /\ to.off = 0
      BY <1>2, <2>1, <2>2, <3>0
    <3>3. s \in Walkers
      BY <1>2, <1>3, <3>2 DEF Walkers
    <3>4. QED
      BY <1>2, <1>4, <2>2, <3>2, <3>3 DEF WalkSound, s
  <2>3. CASE ~(slice = 0 /\ to.slice = 1)
    <3>1. s.a = b
      BY <1>3, <1>6, <2>3 DEF Walk
    <3>2. s \in Walkers
      BY <1>2, <1>3, <2>1, <3>1 DEF Walkers
    <3>3. to.slice <= 1 => to.slice = slice /\ to.off = off + 1
      BY <1>0, <1>2, <1>6, <2>3
    <3>4. to.off = off + 1 => to.off - 1 = off /\ to.off # 0
      BY <1>0
    <3>5. QED
      BY <1>0, <1>2, <1>4, <2>1, <3>1, <3>2, <3>3, <3>4 DEF WalkSound, s
  <2>4. QED
    BY <2>2, <2>3
<1>7. QED
  BY <1>0, <1>5, <1>6, <1>4 DEF s
-----------------------------------------------------------------------------
(* The hash of a warp is its own.                                           *)
LEMMA JobsDiffer ==
  ASSUME NEW n \in Nat \ {0}, NEW warps \in Nat \ {0}, NEW id \in MakeOneshotLaunch(n, warps),
         NEW other \in MakeOneshotLaunch(n, warps), JobId(id, warps) = JobId(other, warps)
  PROVE  id = other
<1>1. Grid(n, warps) \in Int
  BY DEF Grid
<1>2. /\ id = <<id[1], id[2]>> /\ id[1] \in Nat /\ id[2] \in 0..(warps - 1)
      /\ other = <<other[1], other[2]>> /\ other[1] \in Nat /\ other[2] \in 0..(warps - 1)
  BY <1>1 DEF MakeOneshotLaunch
<1>3. JobId(id, warps) = warps * id[1] + id[2] /\ JobId(other, warps) = warps * other[1] + other[2]
  BY <1>2 DEF JobId
<1>4. JobId(id, warps) \in Nat /\ JobId(other, warps) \in Nat
  BY <1>2, <1>3
<1>a. PICK a \in Nat : a = warps * id[1] + id[2] /\ a = warps * other[1] + other[2]
  BY <1>3, <1>4
<1>5. a \div warps = id[1] /\ a % warps = id[2]
  BY <1>2, <1>a, DivUnique
<1>6. a \div warps = other[1] /\ a % warps = other[2]
  BY <1>2, <1>a, DivUnique
<1>7. QED
  BY <1>2, <1>5, <1>6

(* Every hash has a warp, for any number of warps a block packs.            *)
LEMMA JobsCovered ==
  ASSUME NEW n \in Nat \ {0}, NEW warps \in Nat \ {0}, NEW j \in 0..(n - 1)
  PROVE  \E id \in MakeOneshotLaunch(n, warps) : JobId(id, warps) = j
<1> DEFINE g == Grid(n, warps)
           q == j \div warps
           r == j % warps
<1>1. q \in Nat /\ r \in 0..(warps - 1) /\ j = warps * q + r
  BY DivFacts
<1>2. g \in Nat /\ n <= warps * g
  <2> DEFINE x == n + warps - 1
             m == x % warps
  <2>1. x \in Nat /\ g = x \div warps
    BY DEF Grid
  <2>2. g \in Nat /\ m \in 0..(warps - 1) /\ x = warps * g + m
    BY <2>1, DivFacts
  <2> HIDE DEF g, m
  <2>3. warps * g \in Int
    BY <2>2
  <2>4. QED
    BY <2>2, <2>3
<1> HIDE DEF g, q, r
<1>3. q < g
  <2>1. warps * q \in Int /\ warps * g \in Int
    BY <1>1, <1>2
  <2>2. ~(g <= q)
    BY <1>1, <1>2, <2>1, TimesOrder
  <2>3. QED
    BY <1>1, <1>2, <2>2
<1>4. <<q, r>> \in MakeOneshotLaunch(n, warps)
  BY <1>1, <1>2, <1>3 DEF MakeOneshotLaunch, g
<1>5. JobId(<<q, r>>, warps) = j
  <2>1. JobId(<<q, r>>, warps) = q * warps + r
    BY DEF JobId
  <2>2. QED
    BY <1>1, <2>1
<1>6. QED
  BY <1>4, <1>5

(* A block of device memory is the block r of one hash j.                   *)
LEMMA BlockPlaces ==
  ASSUME NEW n \in Nat, NEW len \in Nat \ {0}
  PROVE  /\ \A i \in 0..(n * len - 1) :
              i \div len \in 0..(n - 1) /\ i % len \in 0..(len - 1) /\ i = (i \div len) * len + (i % len)
         /\ \A j \in 0..(n - 1), r \in 0..(len - 1) :
              /\ j * len + r \in 0..(n * len - 1)
              /\ (j * len + r) \div len = j /\ (j * len + r) % len = r
<1>0. n * len \in Nat /\ n * len = len * n
  OBVIOUS
<1>1. ASSUME NEW i \in 0..(n * len - 1)
      PROVE  i \div len \in 0..(n - 1) /\ i % len \in 0..(len - 1) /\ i = (i \div len) * len + (i % len)
  <2>1. i \in Nat /\ i < len * n
    BY <1>0
  <2>2. i \div len \in Nat /\ i % len \in 0..(len - 1) /\ i = len * (i \div len) + (i % len)
    BY <2>1, DivFacts
  <2>3. i \div len < n
    BY <2>1, DivLess
  <2>4. len * (i \div len) = (i \div len) * len
    BY <2>2
  <2>5. QED
    BY <2>2, <2>3, <2>4
<1>2. ASSUME NEW j \in 0..(n - 1), NEW r \in 0..(len - 1)
      PROVE  /\ j * len + r \in 0..(n * len - 1)
             /\ (j * len + r) \div len = j /\ (j * len + r) % len = r
  <2>1. /\ j * len + r = len * j + r /\ len * j \in Nat /\ len * j <= len * (n - 1)
        /\ len * (n - 1) = len * n - len
    BY TimesOrder
  <2>2. j * len + r \in Nat
    BY <2>1
  <2>3. QED
    BY <1>0, <2>1, <2>2, DivUnique
<1>3. QED
  BY <1>1, <1>2

(* The first state: two blocks of each hash, and an empty table.            *)
LEMMA InitKernel == KernelInit => KernelInductive
<1> SUFFICES ASSUME KernelInit PROVE KernelInductive
  OBVIOUS
<1>1. /\ geometry \in [n : BatchSizes, warps : WarpsPerBlock, seg : SegmentBlocks, pre : BOOLEAN]
      /\ gen = StartWalk(geometry.seg) /\ table = <<>> /\ w = <<>>
      /\ writes = [i \in DeviceBlocks |-> IF i % Lane < 2 THEN 1 ELSE 0]
  BY DEF KernelInit, DeviceBlocks
<1>2. geometry.seg \in Nat \ {0, 1}
  BY <1>1, KernelSizes
<1>3. WalkSound(geometry.seg, gen) /\ Position(geometry.seg, gen.place) = 2
  BY <1>1, <1>2, StartSound
<1>4. Len(table) = 0 /\ table \in Seq([addr : Nat \X Nat, index : Nat, slice : Nat, off : Nat])
  BY <1>1
<1>5. TableSound
  <2>1. \A slice \in {0, 1}, off \in 0..(geometry.seg - 1) :
          ~(2 <= slice * geometry.seg + off /\ slice * geometry.seg + off < Len(table) + 2)
    BY <1>2, <1>4
  <2>2. QED
    BY <1>2, <1>3, <1>4, <2>1 DEF TableSound, IndexedRefCount
<1>6. WarpsSound
  BY <1>1 DEF WarpsSound
<1>7. QED
  BY <1>1, <1>5, <1>6 DEF KernelInductive

(* A new entry of the table is Argon2's word, at its place.                 *)
LEMMA GenerateKernel == KernelInductive /\ GenerateRef => KernelInductive'
<1> SUFFICES ASSUME KernelInductive, GenerateRef PROVE KernelInductive'
  OBVIOUS
<1> DEFINE seg == geometry.seg
           p == gen.place
           ref == Ref(AddressesAt(gen), p.slice, p.off)
           Refs == [addr : Nat \X Nat, index : Nat, slice : Nat, off : Nat]
<1>1. /\ geometry' = geometry /\ w' = w /\ writes' = writes
      /\ table' = Append(table, ref) /\ gen' = StepWalk(seg, gen)
      /\ Len(table) < IndexedRefCount(seg)
  BY DEF GenerateRef
<1>2. /\ seg \in Nat \ {0, 1} /\ Qwords \in Nat \ {0, 1} /\ WalkSound(seg, gen)
      /\ Position(seg, p) = Len(table) + 2 /\ table \in Seq(Refs) /\ Len(table) \in Nat
      /\ p.slice \in Nat /\ p.off \in Nat /\ p.off < seg
  BY KernelSizes DEF KernelInductive, TableSound, WalkSound, Walkers
<1>3. /\ p.slice * seg + p.off = Len(table) + 2 /\ Len(table) + 2 < 2 * seg
  BY <1>1, <1>2 DEF Position, IndexedRefCount
<1>b. /\ Len(table) <= IndexedRefCount(seg)
      /\ \A slice \in {0, 1}, off \in 0..(seg - 1) :
           2 <= slice * seg + off /\ slice * seg + off < Len(table) + 2 =>
             table[IndexedRefIndex(slice, off, seg) + 1] = RefAt(slice, off)
  BY DEF KernelInductive, TableSound
<1>c. geometry'.seg = seg /\ gen.place = p
  BY <1>1
<1>d. PICK s \in Nat, o \in Nat : s = p.slice /\ o = p.off /\ o < seg
  BY <1>2
<1>e. seg \in Nat \ {0, 1} /\ s * seg + o = Len(table) + 2 /\ Len(table) \in Nat /\ Len(table) + 2 < 2 * seg
  BY <1>2, <1>3, <1>d
<1>f. PICK size \in Nat : size = Len(table)
  BY <1>e
<1>g. Qwords \in Nat \ {0, 1} /\ seg \in Nat \ {0, 1}
  BY <1>2
<1>h. s * seg + o = size + 2 /\ size + 2 < 2 * seg /\ o < seg
  BY <1>d, <1>e, <1>f
<1> HIDE DEF seg, p
<1>4. s \in {0, 1}
  <2>1. s * seg \in Nat /\ seg * s = s * seg /\ seg * 2 = 2 * seg
    BY <1>g
  <2>2. ~(2 <= s)
    BY <1>g, <1>h, <2>1, TimesOrder
  <2>3. QED
    BY <2>2
<1>5. ref = RefAt(s, o) /\ ref \in Refs
  <2>1. o \div Qwords \in Nat /\ o % Qwords \in Nat
    BY <1>g, DivFacts
  <2>2. AddressesAt(gen).addr = <<s, (o \div Qwords) + 1>>
    <3>1. gen.place.slice = s /\ gen.place.off = o /\ s <= 1 /\ WalkSound(seg, gen)
      BY <1>2, <1>4, <1>c, <1>d
    <3>2. QED
      BY <1>g, <3>1, WalkAddresses DEF AddressesAt
  <2>3. ref = RefAt(s, o)
    BY <1>d, <2>2 DEF Ref, RefAt
  <2>4. QED
    BY <2>1, <2>3 DEF RefAt
<1>6. WalkSound(seg, gen') /\ Position(seg, gen'.place) = Len(table) + 3
  <2>1. Position(seg, gen.place) < 4 * seg
    BY <1>2, <1>3, <1>c
  <2>2. /\ WalkSound(seg, StepWalk(seg, gen))
        /\ Position(seg, StepWalk(seg, gen).place) = Position(seg, gen.place) + 1
    BY <1>2, <2>1, StepSound
  <2>3. Position(seg, gen.place) = Len(table) + 2
    BY <1>2, <1>c
  <2>4. gen' = StepWalk(seg, gen)
    BY <1>1
  <2>5. QED
    BY <1>2, <2>2, <2>3, <2>4
<1> HIDE DEF ref
<1>7. /\ table' \in Seq(Refs) /\ Len(table') = Len(table) + 1 /\ table'[Len(table) + 1] = ref
      /\ \A i \in 1..Len(table) : table'[i] = table[i]
  BY <1>1, <1>2, <1>5
<1>8. ASSUME NEW slice \in {0, 1}, NEW off \in 0..(seg - 1),
             2 <= slice * seg + off, slice * seg + off < size + 3
      PROVE  table'[IndexedRefIndex(slice, off, seg) + 1] = RefAt(slice, off)
  <2>1. IndexedRefIndex(slice, off, seg) = slice * seg + off - 2 /\ slice * seg \in Nat /\ off \in Nat
    BY <1>g DEF IndexedRefIndex
  <2>2. CASE slice * seg + off < size + 2
    <3>1. table[IndexedRefIndex(slice, off, seg) + 1] = RefAt(slice, off)
      BY <1>b, <1>8, <1>f, <2>2
    <3>2. IndexedRefIndex(slice, off, seg) + 1 \in 1..size
      BY <1>8, <2>1, <2>2
    <3>3. QED
      BY <1>7, <1>f, <3>1, <3>2
  <2>3. CASE slice * seg + off = size + 2
    <3>1. slice = s /\ off = o
      <4>1. slice * seg = (IF slice = 0 THEN 0 ELSE seg) /\ s * seg = (IF s = 0 THEN 0 ELSE seg)
        BY <1>g, <1>4
      <4>2. QED
        BY <1>g, <1>h, <1>4, <2>3, <4>1
    <3>2. IndexedRefIndex(slice, off, seg) + 1 = size + 1
      BY <2>1, <2>3
    <3>3. QED
      BY <1>5, <1>7, <1>f, <3>1, <3>2
  <2>4. QED
    BY <1>8, <2>1, <2>2, <2>3
<1>9. TableSound'
  <2>1. /\ Len(table') = size + 1 /\ size + 1 <= IndexedRefCount(seg)
        /\ Position(seg, gen'.place) = (size + 1) + 2
    BY <1>e, <1>f, <1>6, <1>7 DEF IndexedRefCount
  <2>2. \A slice \in {0, 1}, off \in 0..(seg - 1) :
          2 <= slice * seg + off /\ slice * seg + off < Len(table') + 2 =>
            table'[IndexedRefIndex(slice, off, seg) + 1] = RefAt(slice, off)
    BY <1>8, <2>1
  <2>3. QED
    BY <1>6, <1>7, <1>c, <2>1, <2>2 DEF TableSound
<1>10. WarpsSound'
  <2>1. Lane' = Lane /\ Grids' = Grids /\ DeviceBlocks' = DeviceBlocks
    BY <1>1 DEF Lane, Grids, DeviceBlocks
  <2>2. w # <<>> => ~geometry.pre
    BY <1>1 DEF KernelInductive, WarpsSound, GenerateRef
  <2>3. QED
    BY <1>1, <2>1, <2>2 DEF KernelInductive, WarpsSound
<1>11. QED
  BY <1>1, <1>9, <1>10 DEF KernelInductive

(* The launch gives every hash a warp at its third block.                   *)
LEMMA LaunchKernel == KernelInductive /\ Launch => KernelInductive'
<1> SUFFICES ASSUME KernelInductive, Launch PROVE KernelInductive'
  OBVIOUS
<1> DEFINE seg == geometry.seg
           n == geometry.n
           warps == geometry.warps
<1>1. /\ w = <<>> /\ UNCHANGED <<geometry, gen, table, writes>>
      /\ geometry.pre => Len(table) = IndexedRefCount(seg)
      /\ w' = [id \in Grids |-> [job |-> JobId(id, warps), curr |-> 2, k |-> StartWalk(seg)]]
  BY DEF Launch, Grids
<1>2. /\ seg \in Nat \ {0, 1} /\ n \in Nat \ {0} /\ warps \in Nat \ {0} /\ Lane \in Nat \ {0}
      /\ WalkSound(seg, StartWalk(seg)) /\ Position(seg, StartWalk(seg).place) = 2
      /\ StartWalk(seg) \in Walkers
  BY KernelSizes, StartSound DEF KernelInductive, WalkSound
<1>3. Lane' = Lane /\ Grids' = Grids /\ DeviceBlocks' = DeviceBlocks /\ n * Lane \in Nat
  BY <1>1, <1>2 DEF Lane, Grids, DeviceBlocks
<1>4. \A id \in Grids : JobId(id, warps) \in Nat
  <2>1. SUFFICES ASSUME NEW id \in Grids PROVE JobId(id, warps) \in Nat
    OBVIOUS
  <2>2. Grid(n, warps) \in Int
    BY <1>2 DEF Grid
  <2>3. id[1] \in Nat /\ id[2] \in Nat
    BY <1>2, <2>2 DEF Grids, MakeOneshotLaunch
  <2>4. QED
    BY <1>2, <2>3 DEF JobId
<1>5. w' \in [Grids -> [job : Nat, curr : Nat, k : Walkers]]
  BY <1>1, <1>2, <1>4
<1>6. ASSUME NEW id \in Grids, JobId(id, warps) < n, NEW r \in 0..(Lane - 1)
      PROVE  writes[JobId(id, warps) * Lane + r] = IF r < 2 THEN 1 ELSE 0
  <2>1. JobId(id, warps) \in 0..(n - 1)
    BY <1>2, <1>4, <1>6
  <2>a. PICK j \in 0..(n - 1) : j = JobId(id, warps)
    BY <2>1
  <2>b. \A N \in Nat, len \in Nat \ {0} : \A q \in 0..(N - 1), m \in 0..(len - 1) :
          q * len + m \in 0..(N * len - 1) /\ (q * len + m) % len = m
    BY BlockPlaces
  <2>c. j * Lane + r \in 0..(n * Lane - 1) /\ (j * Lane + r) % Lane = r
    <3> HIDE DEF n
    <3>1. n \in Nat /\ Lane \in Nat \ {0}
      BY <1>2
    <3>2. QED
      BY <2>b, <3>1
  <2>2. /\ JobId(id, warps) * Lane + r \in 0..(n * Lane - 1)
        /\ (JobId(id, warps) * Lane + r) % Lane = r
    BY <2>a, <2>c
  <2>3. QED
    BY <1>1, <2>2 DEF KernelInductive, WarpsSound, DeviceBlocks
<1>7. WarpsSound'
  <2>1. w' # <<>>
    <3>1. PICK id \in Grids : JobId(id, warps) = 0
      BY <1>2, JobsCovered DEF Grids
    <3>2. DOMAIN w' = Grids /\ DOMAIN <<>> = {}
      BY <1>1
    <3>3. QED
      BY <3>1, <3>2
  <2>2. \A id \in Grids :
          w'[id].job = JobId(id, warps) /\ w'[id].curr = 2 /\ w'[id].k = StartWalk(seg)
    BY <1>1
  <2>3. QED
    BY <1>1, <1>2, <1>3, <1>5, <1>6, <2>1, <2>2 DEF KernelInductive, WarpsSound
<1>8. TableSound'
  BY <1>1 DEF KernelInductive, TableSound
<1>9. QED
  BY <1>1, <1>7, <1>8 DEF KernelInductive

(* A warp writes the next block of its hash, which nobody has written.      *)
LEMMA FillKernel == ASSUME KernelInductive, NEW id \in DOMAIN w, FillBlock(id) PROVE KernelInductive'
<1> DEFINE seg == geometry.seg
           n == geometry.n
           warps == geometry.warps
<1>1. /\ Running(id) /\ UNCHANGED <<geometry, gen, table>>
      /\ writes' = [writes EXCEPT ![w[id].job * Lane + w[id].curr] = @ + 1]
      /\ w' = [w EXCEPT ![id].curr = @ + 1, ![id].k = StepWalk(seg, w[id].k)]
  BY DEF FillBlock
<1>2. /\ seg \in Nat \ {0, 1} /\ n \in Nat \ {0} /\ warps \in Nat \ {0} /\ Lane \in Nat \ {0}
      /\ Lane = 4 * seg
  BY KernelSizes DEF KernelInductive, Lane
<1>3. w # <<>>
  <2>1. DOMAIN <<>> = {}
    OBVIOUS
  <2>2. QED
    BY <2>1
<1>4. /\ writes \in [DeviceBlocks -> Nat]
      /\ geometry.pre => Len(table) = IndexedRefCount(seg)
      /\ w \in [Grids -> [job : Nat, curr : Nat, k : Walkers]]
      /\ \A g \in Grids :
            /\ w[g].job = JobId(g, warps) /\ WalkSound(seg, w[g].k)
            /\ w[g].curr = Position(seg, w[g].k.place)
            /\ w[g].job < n =>
                 \A r \in 0..(Lane - 1) : writes[w[g].job * Lane + r] = IF r < w[g].curr THEN 1 ELSE 0
  BY <1>3 DEF KernelInductive, WarpsSound
<1>5. id \in Grids
  BY <1>4
<1>6. Lane' = Lane /\ Grids' = Grids /\ DeviceBlocks' = DeviceBlocks
  BY <1>1 DEF Lane, Grids, DeviceBlocks
<1>7. PICK j \in Nat, c \in Nat, k \in Walkers : j = w[id].job /\ c = w[id].curr /\ k = w[id].k
  BY <1>4, <1>5
<1>8. j < n /\ WalkSound(seg, k) /\ c = Position(seg, k.place) /\ c < Lane
  <2>1. j < n /\ WalkSound(seg, k) /\ c = Position(seg, k.place) /\ k.place.slice < 4
    BY <1>1, <1>4, <1>5, <1>7 DEF Running
  <2>2. PICK s \in Nat, o \in Nat : s = k.place.slice /\ o = k.place.off /\ s <= 3 /\ o < seg /\ c = s * seg + o
    BY <2>1 DEF WalkSound, Walkers, Position
  <2>3. s * seg <= 3 * seg
    <3>1. seg * s <= seg * 3 /\ seg * s = s * seg
      BY <1>2, <2>2, TimesOrder
    <3>2. QED
      BY <1>2, <3>1
  <2>4. s * seg \in Nat
    BY <1>2
  <2>5. QED
    BY <1>2, <2>1, <2>2, <2>3, <2>4
<1> DEFINE step == StepWalk(seg, k)
<1>9. WalkSound(seg, step) /\ Position(seg, step.place) = c + 1 /\ step \in Walkers
  <2>1. WalkSound(seg, step) /\ Position(seg, step.place) = c + 1
    BY <1>2, <1>8, StepSound
  <2>2. QED
    BY <2>1 DEF WalkSound
<1> HIDE DEF step, seg, n, warps
<1>10. /\ w' \in [Grids -> [job : Nat, curr : Nat, k : Walkers]]
       /\ w'[id] = [job |-> j, curr |-> c + 1, k |-> step]
       /\ \A g \in Grids : g # id => w'[g] = w[g]
  <2>1. w' = [w EXCEPT ![id] = [job |-> j, curr |-> c + 1, k |-> step]]
    <3>1. w[id] = [job |-> j, curr |-> c, k |-> k]
      BY <1>4, <1>5, <1>7
    <3>2. w' = [w EXCEPT ![id].curr = c + 1, ![id].k = step]
      BY <1>1, <1>7 DEF step, seg
    <3>3. w' = [w EXCEPT ![id] = [[w[id] EXCEPT !.curr = c + 1] EXCEPT !.k = step]]
      BY <1>4, <1>5, <3>2
    <3>4. [[w[id] EXCEPT !.curr = c + 1] EXCEPT !.k = step] = [job |-> j, curr |-> c + 1, k |-> step]
      <4>1. PICK a : a = [w[id] EXCEPT !.curr = c + 1]
        OBVIOUS
      <4>2. a = [job |-> j, curr |-> c + 1, k |-> k]
        BY <3>1, <4>1
      <4>3. PICK b : b = [a EXCEPT !.k = step]
        OBVIOUS
      <4>4. b = [job |-> j, curr |-> c + 1, k |-> step]
        BY <4>2, <4>3
      <4>5. QED
        BY <4>1, <4>3, <4>4
    <3>5. QED
      BY <3>3, <3>4
  <2>2. [job |-> j, curr |-> c + 1, k |-> step] \in [job : Nat, curr : Nat, k : Walkers]
    BY <1>9
  <2>3. QED
    BY <1>4, <1>5, <2>1, <2>2
<1>11. /\ \A a \in 0..(n - 1), r \in 0..(Lane - 1) :
            /\ a * Lane + r \in DeviceBlocks
            /\ (a * Lane + r) \div Lane = a /\ (a * Lane + r) % Lane = r
  <2>1. n \in Nat /\ Lane \in Nat \ {0} /\ DeviceBlocks = 0..(n * Lane - 1)
    BY <1>2 DEF DeviceBlocks, n
  <2>2. \A N \in Nat, len \in Nat \ {0} : \A q \in 0..(N - 1), m \in 0..(len - 1) :
          q * len + m \in 0..(N * len - 1) /\ (q * len + m) \div len = q /\ (q * len + m) % len = m
    BY BlockPlaces
  <2>3. QED
    BY <2>1, <2>2
<1>12. /\ writes' \in [DeviceBlocks -> Nat]
       /\ \A a \in 0..(n - 1), r \in 0..(Lane - 1) :
            writes'[a * Lane + r] =
              IF a = j /\ r = c THEN writes[a * Lane + r] + 1 ELSE writes[a * Lane + r]
  <2>1. j \in 0..(n - 1) /\ c \in 0..(Lane - 1)
    BY <1>2, <1>8
  <2>2. PICK b \in DeviceBlocks : b = j * Lane + c /\ b \div Lane = j /\ b % Lane = c
    BY <1>11, <2>1
  <2>3. writes' = [writes EXCEPT ![b] = @ + 1]
    BY <1>1, <1>7, <2>2
  <2>4. writes' \in [DeviceBlocks -> Nat]
    BY <1>4, <2>3
  <2>5. ASSUME NEW a \in 0..(n - 1), NEW r \in 0..(Lane - 1)
        PROVE  writes'[a * Lane + r] =
                 IF a = j /\ r = c THEN writes[a * Lane + r] + 1 ELSE writes[a * Lane + r]
    <3>1. PICK x \in DeviceBlocks : x = a * Lane + r /\ x \div Lane = a /\ x % Lane = r
      BY <1>11
    <3>2. x = b <=> a = j /\ r = c
      BY <2>2, <3>1
    <3>3. QED
      BY <1>4, <2>3, <3>1, <3>2
  <2>6. QED
    BY <2>4, <2>5
<1>13. ASSUME NEW g \in Grids
       PROVE  /\ w'[g].job = JobId(g, warps) /\ WalkSound(seg, w'[g].k)
              /\ w'[g].curr = Position(seg, w'[g].k.place)
              /\ w'[g].job < n =>
                   \A r \in 0..(Lane - 1) :
                     writes'[w'[g].job * Lane + r] = IF r < w'[g].curr THEN 1 ELSE 0
  <2>1. CASE g = id
    <3>1. w'[g].job = j /\ w'[g].curr = c + 1 /\ w'[g].k = step /\ j = JobId(g, warps)
      BY <1>4, <1>7, <1>10, <2>1
    <3>2. ASSUME NEW r \in 0..(Lane - 1) PROVE writes'[j * Lane + r] = IF r < c + 1 THEN 1 ELSE 0
      <4>1. j \in 0..(n - 1)
        BY <1>2, <1>8
      <4>2. writes[j * Lane + r] = IF r < c THEN 1 ELSE 0
        BY <1>4, <1>5, <1>7, <1>8
      <4>3. writes'[j * Lane + r] = IF r = c THEN writes[j * Lane + r] + 1 ELSE writes[j * Lane + r]
        BY <1>12, <4>1
      <4>4. QED
        BY <1>2, <4>2, <4>3
    <3>3. QED
      BY <1>9, <3>1, <3>2
  <2>2. CASE g # id
    <3>1. w'[g] = w[g] /\ w[g].job = JobId(g, warps) /\ w[g].job # j
      <4>1. JobId(g, warps) # JobId(id, warps)
        BY <1>2, <1>5, <2>2, JobsDiffer DEF Grids, n, warps
      <4>2. QED
        BY <1>4, <1>5, <1>7, <1>10, <2>2, <4>1
    <3>2. ASSUME w[g].job < n, NEW r \in 0..(Lane - 1)
          PROVE  writes'[w[g].job * Lane + r] = writes[w[g].job * Lane + r]
      <4>1. PICK a \in 0..(n - 1) : a = w[g].job
        BY <1>2, <1>4, <3>2
      <4>2. writes'[a * Lane + r] = writes[a * Lane + r]
        BY <1>12, <3>1, <4>1
      <4>3. QED
        BY <4>1, <4>2
    <3>3. QED
      BY <1>4, <3>1, <3>2
  <2>3. QED
    BY <2>1, <2>2
<1>14. WarpsSound'
  <2>1. w' # <<>>
    <3>1. DOMAIN w' = Grids /\ DOMAIN <<>> = {}
      BY <1>10
    <3>2. QED
      BY <1>5, <3>1
  <2>2. geometry'.seg = seg /\ geometry'.n = n /\ geometry'.warps = warps
    BY <1>1 DEF seg, n, warps
  <2>3. geometry'.pre => Len(table') = IndexedRefCount(seg)
    BY <1>1, <1>4
  <2>4. QED
    BY <1>6, <1>10, <1>12, <1>13, <2>1, <2>2, <2>3 DEF WarpsSound
<1>15. TableSound'
  BY <1>1 DEF KernelInductive, TableSound
<1>16. QED
  BY <1>1, <1>14, <1>15 DEF KernelInductive

(* Every step keeps the inductive invariant.                                *)
LEMMA NextKernel == KernelInductive /\ [KernelNext]_kernelVars => KernelInductive'
<1> SUFFICES ASSUME KernelInductive, [KernelNext]_kernelVars PROVE KernelInductive'
  OBVIOUS
<1>1. CASE GenerateRef
  BY <1>1, GenerateKernel
<1>2. CASE Launch
  BY <1>2, LaunchKernel
<1>3. CASE \E id \in DOMAIN w : FillBlock(id)
  BY <1>3, FillKernel
<1>4. CASE UNCHANGED kernelVars
  <2>1. Lane' = Lane /\ Grids' = Grids /\ DeviceBlocks' = DeviceBlocks
    BY <1>4 DEF kernelVars, Lane, Grids, DeviceBlocks
  <2>2. QED
    BY <1>4, <2>1 DEF kernelVars, KernelInductive, TableSound, WarpsSound
<1>5. QED
  BY <1>1, <1>2, <1>3, <1>4 DEF KernelNext, KernelDone
-----------------------------------------------------------------------------
(* The kernel, for any size of the batch and of the segments, any number of *)
(* warps a block packs, any word and address block size, with and without a *)
(* precomputed table: every block of every hash is written once and none is *)
(* left out, every reference is a block of the same hash written before the *)
(* last one, and the address words of slices 0 and 1 are Argon2's.          *)
THEOREM KernelSound == KernelSpec => []KernelInvariant
<1>1. KernelInductive => KernelInvariant
  <2> SUFFICES ASSUME KernelInductive PROVE KernelInvariant
    OBVIOUS
  <2> DEFINE seg == geometry.seg
             n == geometry.n
             warps == geometry.warps
  <2>1. /\ seg \in Nat \ {0, 1} /\ n \in Nat \ {0} /\ warps \in Nat \ {0} /\ Lane \in Nat \ {0}
        /\ Lane = 4 * seg
    BY KernelSizes DEF KernelInductive, Lane
  <2>2. /\ writes \in [DeviceBlocks -> Nat] /\ DeviceBlocks = 0..(n * Lane - 1)
        /\ w = <<>> => \A i \in DeviceBlocks : writes[i] = IF i % Lane < 2 THEN 1 ELSE 0
    BY DEF KernelInductive, WarpsSound, DeviceBlocks
  <2>3. w # <<>> =>
          /\ DOMAIN w = Grids /\ (geometry.pre => Len(table) = IndexedRefCount(seg))
          /\ \A g \in Grids :
               /\ w[g].job \in Nat /\ w[g].curr \in Nat
               /\ w[g].job = JobId(g, warps) /\ WalkSound(seg, w[g].k)
               /\ w[g].curr = Position(seg, w[g].k.place)
               /\ w[g].job < n =>
                    \A r \in 0..(Lane - 1) : writes[w[g].job * Lane + r] = IF r < w[g].curr THEN 1 ELSE 0
    BY DEF KernelInductive, WarpsSound
  <2>4. \A id \in DOMAIN w : w # <<>> /\ id \in Grids
    <3>1. DOMAIN <<>> = {}
      OBVIOUS
    <3>2. QED
      BY <2>3, <3>1
  <2>5. \A i \in DeviceBlocks :
          i \div Lane \in 0..(n - 1) /\ i % Lane \in 0..(Lane - 1) /\ i = (i \div Lane) * Lane + (i % Lane)
    <3> HIDE DEF n
    <3>1. n \in Nat /\ Lane \in Nat \ {0}
      BY <2>1
    <3>2. \A N \in Nat, len \in Nat \ {0} : \A i \in 0..(N * len - 1) :
            i \div len \in 0..(N - 1) /\ i % len \in 0..(len - 1) /\ i = (i \div len) * len + (i % len)
      BY BlockPlaces
    <3>3. QED
      BY <2>2, <3>1, <3>2
  <2>6. KernelTypeOK
    <3>1. Len(table) <= IndexedRefCount(geometry.seg)
      BY DEF KernelInductive, TableSound
    <3>2. \A id \in DOMAIN w : w[id].curr \in 2..Lane /\ w[id].k.place.off \in 0..(geometry.seg - 1)
      <4> SUFFICES ASSUME NEW id \in DOMAIN w
                   PROVE  w[id].curr \in 2..Lane /\ w[id].k.place.off \in 0..(geometry.seg - 1)
        OBVIOUS
      <4>1. WalkSound(seg, w[id].k) /\ w[id].curr = Position(seg, w[id].k.place)
        BY <2>3, <2>4
      <4>2. PICK kk : kk = w[id].k
        OBVIOUS
      <4>3. kk \in Walkers /\ kk.place.off < seg /\ Position(seg, kk.place) \in 2..(4 * seg)
        BY <4>1, <4>2 DEF WalkSound
      <4>4. kk.place.off \in 0..(seg - 1)
        <5> HIDE DEF seg
        <5>1. kk.place.off \in Nat
          BY <4>3 DEF Walkers
        <5>2. QED
          BY <2>1, <4>3, <5>1
      <4>5. QED
        BY <4>1, <4>2, <4>3, <4>4 DEF Lane
    <3>3. QED
      BY <2>2, <3>1, <3>2 DEF KernelTypeOK, KernelInductive
  <2>7. ASSUME NEW i \in DeviceBlocks, w # <<>>
        PROVE  \E g \in Grids :
                 /\ w[g].job = i \div Lane /\ w[g].job < n
                 /\ writes[i] = IF i % Lane < w[g].curr THEN 1 ELSE 0
    <3>1. PICK j \in 0..(n - 1), r \in 0..(Lane - 1) : j = i \div Lane /\ r = i % Lane /\ i = j * Lane + r
      BY <2>5
    <3>2. PICK g \in Grids : JobId(g, warps) = j
      BY <2>1, JobsCovered DEF Grids
    <3>3. w[g].job = j /\ j < n
      BY <2>1, <2>3, <2>7, <3>2
    <3>4. writes[j * Lane + r] = IF r < w[g].curr THEN 1 ELSE 0
      BY <2>3, <2>7, <3>3
    <3>5. QED
      BY <3>1, <3>3, <3>4
  <2>8. FilledOnce
    <3>1. \A i \in DeviceBlocks : writes[i] <= 1
      BY <2>2, <2>7
    <3>2. ASSUME w # <<>>, \A id \in DOMAIN w : ~Running(id), NEW i \in DeviceBlocks PROVE writes[i] = 1
      <4>1. PICK g \in Grids : w[g].job < n /\ writes[i] = IF i % Lane < w[g].curr THEN 1 ELSE 0
        BY <2>7, <3>2
      <4>2. w[g].k.place.slice \in Nat /\ w[g].k.place.slice >= 4
        BY <2>3, <3>2, <4>1 DEF Running, WalkSound, Walkers
      <4>3. w[g].curr >= Lane
        <5>1. PICK s \in Nat, o \in Nat : s = w[g].k.place.slice /\ o = w[g].k.place.off /\ w[g].curr = s * seg + o
          BY <2>3, <3>2 DEF WalkSound, Walkers, Position
        <5>2. seg * 4 <= seg * s /\ seg * s = s * seg /\ s * seg \in Nat
          BY <2>1, <4>2, <5>1, TimesOrder
        <5>3. QED
          BY <2>1, <5>1, <5>2
      <4>4. QED
        <5>1. w[g].curr \in Nat
          BY <2>3, <3>2
        <5>2. PICK r \in 0..(Lane - 1) : r = i % Lane
          BY <2>5
        <5>3. QED
          BY <2>1, <4>1, <4>3, <5>1, <5>2
    <3>3. DOMAIN writes = DeviceBlocks
      BY <2>2
    <3>4. QED
      BY <3>1, <3>2, <3>3 DEF FilledOnce
  <2>9. RefsAreWritten
    <3>1. SUFFICES ASSUME NEW id \in DOMAIN w, Running(id), NEW raw \in 0..(Word - 1),
                          NEW r, r = ComputeRefPos(seg, w[id].k.place.slice, w[id].k.place.off, raw)
                   PROVE  r \in 0..(w[id].curr - 2) /\ writes[w[id].job * Lane + r] = 1
      BY DEF RefsAreWritten
    <3>2. PICK s \in Nat, o \in Nat, c \in Nat :
            /\ s = w[id].k.place.slice /\ o = w[id].k.place.off /\ c = w[id].curr
            /\ c = s * seg + o /\ c >= 2 /\ c <= Lane
      <4>1. WalkSound(seg, w[id].k) /\ w[id].curr \in Nat /\ w[id].curr = Position(seg, w[id].k.place)
        BY <2>3, <2>4
      <4>2. w[id].k.place.slice \in Nat /\ w[id].k.place.off \in Nat /\ w[id].curr \in 2..(4 * seg)
        BY <4>1 DEF WalkSound, Walkers
      <4>3. QED
        BY <2>1, <4>1, <4>2 DEF Position
    <3>3. r \in 0..(c - 2)
      <4> HIDE DEF seg
      <4>1. seg \in Nat
        BY <2>1
      <4>2. QED
        BY <3>1, <3>2, <4>1, RefInside
    <3>4. w[id].job < n
      BY <3>1 DEF Running
    <3>5. r \in 0..(Lane - 1) /\ r < c
      BY <2>1, <3>2, <3>3
    <3>6. QED
      BY <2>3, <2>4, <3>2, <3>3, <3>4, <3>5
  <2>10. AddressStream
    <3>1. SUFFICES ASSUME NEW id \in DOMAIN w, Running(id), w[id].k.place.slice <= 1,
                          NEW p, p = w[id].k.place
                   PROVE  RefOf(w[id].k) = RefAt(p.slice, p.off)
      BY DEF AddressStream, RefAt
    <3>2. WalkSound(seg, w[id].k) /\ p.slice \in {0, 1} /\ p.off \in 0..(seg - 1) /\ 2 <= p.slice * seg + p.off
      <4>1. WalkSound(seg, w[id].k)
        BY <2>3, <2>4
      <4>2. w[id].k.place \in [slice : Nat, off : Nat] /\ w[id].k.place.off < seg
        BY <4>1 DEF WalkSound, Walkers
      <4>3. p.slice \in Nat /\ p.off \in Nat /\ p.off < seg /\ p.slice <= 1
        BY <3>1, <4>2
      <4>4. p.slice * seg + p.off \in 2..(4 * seg)
        BY <3>1, <4>1 DEF WalkSound, Position
      <4> HIDE DEF seg
      <4>5. p.slice \in {0, 1} /\ p.off \in 0..(seg - 1)
        BY <2>1, <4>3
      <4>6. QED
        BY <2>1, <4>1, <4>4, <4>5
    <3>3. CASE geometry.pre
      <4>1. Len(table) = 2 * seg - 2
        BY <2>3, <2>4, <3>3 DEF IndexedRefCount
      <4>2. p.slice * seg + p.off < Len(table) + 2
        <5> HIDE DEF seg
        <5>1. p.slice * seg <= seg
          BY <2>1, <3>2
        <5>2. QED
          BY <2>1, <3>2, <4>1, <5>1
      <4>3. table[IndexedRefIndex(p.slice, p.off, seg) + 1] = RefAt(p.slice, p.off)
        BY <3>2, <4>2 DEF KernelInductive, TableSound
      <4>4. QED
        BY <3>1, <3>3, <4>3 DEF RefOf
    <3>4. CASE ~geometry.pre
      <4>1. AddressesAt(w[id].k).addr = <<p.slice, (p.off \div Qwords) + 1>>
        BY <2>1, <3>1, <3>2, WalkAddresses DEF AddressesAt
      <4>2. QED
        BY <3>1, <3>4, <4>1 DEF RefOf, Ref, RefAt
    <3>5. QED
      BY <3>3, <3>4
  <2>11. QED
    BY <2>6, <2>8, <2>9, <2>10 DEF KernelInvariant
<1>2. QED
  BY <1>1, InitKernel, NextKernel, PTL DEF KernelSpec
-----------------------------------------------------------------------------
(* FirstBlockHash *)

(* A set of natural numbers has a least one.                                *)
LEMMA SmallestNat == ASSUME NEW N, N \subseteq Nat, N # {} PROVE \E n \in N : \A m \in N : n <= m
<1> DEFINE R == OpToRel(<, Nat)
<1>1. IsWellFoundedOn(R, Nat)
  BY NatLessThanWellFounded
<1>2. PICK n \in N : \A m \in N : <<m, n>> \notin R
  <2> HIDE DEF R
  <2>1. QED
    BY <1>1, WFMin
<1>3. \A m \in N : ~(m < n)
  BY <1>2 DEF OpToRel
<1>4. \A m \in N : n <= m
  BY <1>3
<1>5. QED
  BY <1>4

(* f[i] is the first i of the sequences of ss, one after the other.         *)
Joins(f, ss, n) == f = [i \in 1..n |-> IF i = 1 THEN ss[i] ELSE f[i - 1] \o ss[i]]

(* The recursion of the community modules' FlattenSeq has a solution.       *)
LEMMA JoinExists == ASSUME NEW ss, NEW n \in Nat PROVE \E f : Joins(f, ss, n)
<1> DEFINE Level(k) == \E f : Joins(f, ss, k)
           Bad == {k \in Nat : ~Level(k)}
<1>1. Level(0)
  <2> DEFINE f == [i \in 1..0 |-> 0]
  <2>1. 1..0 = {}
    OBVIOUS
  <2>2. Joins(f, ss, 0)
    BY <2>1 DEF Joins
  <2>3. QED
    BY <2>2
<1>2. ASSUME NEW k \in Nat, Level(k) PROVE Level(k + 1)
  <2>1. PICK f : Joins(f, ss, k)
    BY <1>2
  <2> DEFINE g == [i \in 1..(k + 1) |-> IF i = 1 THEN ss[i] ELSE f[i - 1] \o ss[i]]
  <2>2. \A i \in 1..k : i \in 1..(k + 1) /\ g[i] = f[i]
    <3> SUFFICES ASSUME NEW i \in 1..k PROVE i \in 1..(k + 1) /\ g[i] = f[i]
      OBVIOUS
    <3>1. i \in 1..(k + 1)
      OBVIOUS
    <3>2. f[i] = IF i = 1 THEN ss[i] ELSE f[i - 1] \o ss[i]
      BY <2>1 DEF Joins
    <3>3. g[i] = IF i = 1 THEN ss[i] ELSE f[i - 1] \o ss[i]
      BY <3>1
    <3>4. QED
      BY <3>1, <3>2, <3>3
  <2>3. \A i \in 1..(k + 1) : i # 1 => g[i - 1] = f[i - 1]
    <3> SUFFICES ASSUME NEW i \in 1..(k + 1), i # 1 PROVE g[i - 1] = f[i - 1]
      OBVIOUS
    <3>1. i - 1 \in 1..k
      OBVIOUS
    <3> HIDE DEF g
    <3>2. QED
      BY <2>2, <3>1
  <2>4. \A i \in 1..(k + 1) : (IF i = 1 THEN ss[i] ELSE f[i - 1] \o ss[i]) =
                              (IF i = 1 THEN ss[i] ELSE g[i - 1] \o ss[i])
    <3> HIDE DEF g
    <3>1. QED
      BY <2>3
  <2>5. g = [i \in 1..(k + 1) |-> IF i = 1 THEN ss[i] ELSE g[i - 1] \o ss[i]]
    BY <2>4
  <2>6. QED
    <3> HIDE DEF g
    <3>1. QED
      BY <2>5 DEF Joins
<1>3. Bad = {}
  <2> HIDE DEF Level
  <2>1. SUFFICES ASSUME Bad # {} PROVE FALSE
    OBVIOUS
  <2>2. PICK k \in Bad : \A m \in Bad : k <= m
    BY <2>1, SmallestNat
  <2>3. k # 0 /\ k \in Nat /\ ~Level(k)
    BY <1>1, <2>2
  <2>4. k - 1 \in Nat /\ Level(k - 1)
    BY <2>2, <2>3
  <2>5. Level(k - 1 + 1)
    BY <1>2, <2>4
  <2>6. k - 1 + 1 = k
    BY <2>3
  <2>7. QED
    BY <2>3, <2>5, <2>6
<1>4. QED
  <2> HIDE DEF Level
  <2>1. Level(n)
    BY <1>3
  <2>2. QED
    BY <2>1 DEF Level

-----------------------------------------------------------------------------
(* The hasher *)

Names == {"lanes", "outLen", "m_cost", "t_cost", "version", "type", "u32", "key", "salt"}
Words == Names \X Nat
Compressed == [block : Seq(Words), count : Nat, last : BOOLEAN]
Hashers == [chain : Seq(Compressed), t0 : Nat, t1 : Nat, buf : Seq(Words)]

(* The two words of the counter stand for c.                                *)
Counted(s, c) == s.t0 = c % CounterMod /\ s.t1 = c \div CounterMod

(* The counter with its carry counts.                                       *)
LEMMA CarryCounts ==
  ASSUME NEW c \in Nat, NEW inc \in 0..(CounterMod - 1),
         NEW t, t = ((c % CounterMod) + inc) % CounterMod
  PROVE  /\ t \in Nat /\ t = (c + inc) % CounterMod
         /\ (c + inc) \div CounterMod = (c \div CounterMod) + (IF t < inc THEN 1 ELSE 0)
<1> DEFINE M == CounterMod
           q == c \div M
           r == c % M
<1>0. M \in Nat \ {0} /\ inc \in Nat
  BY SizesAssumption
<1>1. q \in Nat /\ r \in 0..(M - 1) /\ c = M * q + r
  BY <1>0, DivFacts
<1>t. t = (r + inc) % M
  OBVIOUS
<1> HIDE DEF M, q, r
<1>2. CASE r + inc < M
  <2>1. r + inc = M * 0 + (r + inc) /\ r + inc \in 0..(M - 1) /\ r + inc \in Nat /\ inc <= M - 1
    BY <1>0, <1>1, <1>2 DEF M
  <2>2. t = r + inc
    BY <1>0, <1>t, <2>1, DivUnique
  <2>3. c + inc = M * q + (r + inc) /\ c + inc \in Nat
    BY <1>0, <1>1
  <2>q. q \in Int
    BY <1>1
  <2>4. (c + inc) \div M = q /\ (c + inc) % M = r + inc
    <3>1. PICK y \in 0..(M - 1), z \in Nat : y = r + inc /\ z = c + inc
      BY <2>1, <2>3
    <3>2. z = M * q + y
      BY <2>3, <3>1
    <3>3. z \div M = q /\ z % M = y
      BY <1>0, <2>q, <3>2, DivUnique
    <3>4. QED
      BY <3>1, <3>3
  <2>5. ~(t < inc)
    BY <1>0, <1>1, <2>2
  <2>6. QED
    BY <1>1, <2>1, <2>2, <2>4, <2>5 DEF M, q, r
<1>3. CASE ~(r + inc < M)
  <2>0. inc <= M - 1
    BY <1>0 DEF M
  <2>1. r + inc = M * 1 + (r + inc - M) /\ r + inc - M \in 0..(M - 1) /\ r + inc \in Nat /\ 1 \in Int
    BY <1>0, <1>1, <1>3, <2>0
  <2>2. t = r + inc - M
    <3>1. PICK y \in 0..(M - 1), z \in Nat : y = r + inc - M /\ z = r + inc
      BY <2>1
    <3>2. z = M * 1 + y
      BY <2>1, <3>1
    <3>3. z % M = y
      BY <1>0, <3>2, DivUnique
    <3>4. QED
      BY <1>t, <3>1, <3>3
  <2>3. c + inc = M * (q + 1) + (r + inc - M) /\ c + inc \in Nat /\ q + 1 \in Int
    BY <1>0, <1>1
  <2>4. (c + inc) \div M = q + 1 /\ (c + inc) % M = r + inc - M
    <3>1. PICK y \in 0..(M - 1), z \in Nat, p \in Int : y = r + inc - M /\ z = c + inc /\ p = q + 1
      BY <2>1, <2>3
    <3>2. z = M * p + y
      BY <2>3, <3>1
    <3>3. z \div M = p /\ z % M = y
      BY <1>0, <3>2, DivUnique
    <3>4. QED
      BY <3>1, <3>3
  <2>5. t < inc
    BY <1>0, <1>1, <2>2
  <2>6. QED
    BY <1>1, <2>1, <2>2, <2>4, <2>5 DEF M, q, r
<1>4. QED
  BY <1>2, <1>3

(* One block more: it goes into the chain with the count of all bytes so    *)
(* far.                                                                     *)
LEMMA BlockDone ==
  ASSUME NEW s \in Hashers, NEW c \in Nat, Counted(s, c), NEW inc \in 0..(CounterMod - 1),
         NEW x \in Seq(Words), NEW final \in BOOLEAN,
         NEW r, r = Compress(IncrementCounter(s, inc), x, final)
  PROVE  /\ r \in Hashers /\ Counted(r, c + inc) /\ r.buf = s.buf
         /\ r.chain = Append(s.chain, [block |-> x, count |-> c + inc, last |-> final])
<1> DEFINE t == ((c % CounterMod) + inc) % CounterMod
           carry == IF t < inc THEN 1 ELSE 0
           e == [block |-> x, count |-> c + inc, last |-> final]
<1>0. CounterMod \in Nat \ {0, 1} /\ inc \in Nat /\ c + inc \in Nat
  BY SizesAssumption
<1>1. /\ t \in Nat /\ t = (c + inc) % CounterMod
      /\ (c + inc) \div CounterMod = (c \div CounterMod) + carry
  BY CarryCounts
<1>2. c \div CounterMod \in Nat /\ carry \in Nat
  BY <1>0, DivFacts
<1>3. /\ (c + inc) \div CounterMod \in Nat
      /\ c + inc = CounterMod * ((c + inc) \div CounterMod) + ((c + inc) % CounterMod)
  BY <1>0, DivFacts
<1> HIDE DEF t, carry
<1>4. s.t0 = c % CounterMod /\ s.t1 = c \div CounterMod
  BY DEF Counted
<1> DEFINE s1 == [s EXCEPT !.t0 = t, !.t1 = s.t1 + carry]
<1>5. IncrementCounter(s, inc) = s1
  BY <1>4 DEF IncrementCounter, t, carry
<1>6. /\ s1 \in Hashers /\ s1.t0 = t /\ s1.t1 = (c + inc) \div CounterMod
      /\ s1.chain = s.chain /\ s1.buf = s.buf
  <2>1. PICK y \in Nat : y = s.t1 + carry /\ y = (c + inc) \div CounterMod
    BY <1>1, <1>3, <1>4
  <2>2. s1 = [s EXCEPT !.t0 = t, !.t1 = y]
    BY <2>1
  <2>3. QED
    BY <1>1, <2>1, <2>2 DEF Hashers
<1> HIDE DEF s1
<1>7. s1.t1 * CounterMod + s1.t0 = c + inc
  BY <1>0, <1>1, <1>3, <1>6
<1>8. e \in Compressed
  BY <1>0 DEF Compressed
<1>9. r = [s1 EXCEPT !.chain = Append(s1.chain, e)]
  BY <1>5, <1>7 DEF Compress
<1>10. Append(s1.chain, e) \in Seq(Compressed)
  <2> HIDE DEF e
  <2>1. s1.chain \in Seq(Compressed)
    BY <1>6 DEF Hashers
  <2>2. QED
    BY <1>8, <2>1
<1> HIDE DEF e
<1>11. r \in Hashers /\ r.t0 = s1.t0 /\ r.t1 = s1.t1 /\ r.buf = s1.buf /\ r.chain = Append(s1.chain, e)
  BY <1>6, <1>9, <1>10 DEF Hashers
<1>12. QED
  BY <1>1, <1>6, <1>11 DEF Counted, e

(* The hasher after the i-th block of in[from..], and after each of k.      *)
Filled(x, in, from, b, i) ==
  Compress(IncrementCounter(x, b), SubSeq(in, from + (i - 1) * b, from + i * b - 1), FALSE)
Fills(f, s, in, from, b, k) == f = [i \in 0..k |-> IF i = 0 THEN s ELSE Filled(f[i - 1], in, from, b, i)]

(* The recursion of WholeBlocks has a solution.                             *)
LEMMA FillExists ==
  ASSUME NEW s, NEW in, NEW from, NEW b, NEW n \in Nat PROVE \E f : Fills(f, s, in, from, b, n)
<1> DEFINE Level(k) == \E f : Fills(f, s, in, from, b, k)
           Bad == {k \in Nat : ~Level(k)}
<1>1. Level(0)
  <2> DEFINE f == [i \in 0..0 |-> s]
  <2>1. \A i \in 0..0 : i = 0
    OBVIOUS
  <2>2. f = [i \in 0..0 |-> IF i = 0 THEN s ELSE Filled(f[i - 1], in, from, b, i)]
    BY <2>1
  <2>3. QED
    <3> HIDE DEF f
    <3>1. QED
      BY <2>2 DEF Fills
<1>2. ASSUME NEW k \in Nat, Level(k) PROVE Level(k + 1)
  <2>1. PICK f : Fills(f, s, in, from, b, k)
    BY <1>2
  <2> DEFINE g == [i \in 0..(k + 1) |-> IF i = 0 THEN s ELSE Filled(f[i - 1], in, from, b, i)]
  <2>2. \A i \in 0..k : i \in 0..(k + 1) /\ g[i] = f[i]
    <3> SUFFICES ASSUME NEW i \in 0..k PROVE i \in 0..(k + 1) /\ g[i] = f[i]
      OBVIOUS
    <3>1. i \in 0..(k + 1)
      OBVIOUS
    <3>2. f[i] = IF i = 0 THEN s ELSE Filled(f[i - 1], in, from, b, i)
      BY <2>1 DEF Fills
    <3>3. g[i] = IF i = 0 THEN s ELSE Filled(f[i - 1], in, from, b, i)
      BY <3>1
    <3>4. QED
      BY <3>1, <3>2, <3>3
  <2>3. \A i \in 0..(k + 1) : i # 0 => g[i - 1] = f[i - 1]
    <3> SUFFICES ASSUME NEW i \in 0..(k + 1), i # 0 PROVE g[i - 1] = f[i - 1]
      OBVIOUS
    <3>1. i - 1 \in 0..k
      OBVIOUS
    <3> HIDE DEF g
    <3>2. QED
      BY <2>2, <3>1
  <2>4. \A i \in 0..(k + 1) : (IF i = 0 THEN s ELSE Filled(f[i - 1], in, from, b, i)) =
                              (IF i = 0 THEN s ELSE Filled(g[i - 1], in, from, b, i))
    <3> HIDE DEF g
    <3>1. QED
      BY <2>3
  <2>5. g = [i \in 0..(k + 1) |-> IF i = 0 THEN s ELSE Filled(g[i - 1], in, from, b, i)]
    BY <2>4
  <2>6. QED
    <3> HIDE DEF g
    <3>1. QED
      BY <2>5 DEF Fills
<1>3. Bad = {}
  <2> HIDE DEF Level
  <2>1. SUFFICES ASSUME Bad # {} PROVE FALSE
    OBVIOUS
  <2>2. PICK k \in Bad : \A m \in Bad : k <= m
    BY <2>1, SmallestNat
  <2>3. k # 0 /\ k \in Nat /\ ~Level(k)
    BY <1>1, <2>2
  <2>4. k - 1 \in Nat /\ Level(k - 1)
    BY <2>2, <2>3
  <2>5. Level(k - 1 + 1)
    BY <1>2, <2>4
  <2>6. k - 1 + 1 = k
    BY <2>3
  <2>7. QED
    BY <2>3, <2>5, <2>6
<1>4. QED
  <2> HIDE DEF Level
  <2>1. Level(n)
    BY <1>3
  <2>2. QED
    BY <2>1 DEF Level

(* What x has compressed beyond s: i blocks of in[from..], counted from c.  *)
Beyond(x, s, c, in, from, b, i) ==
  /\ x \in Hashers /\ Counted(x, c + i * b) /\ x.buf = s.buf
  /\ Len(x.chain) = Len(s.chain) + i
  /\ \A j \in 1..Len(s.chain) : x.chain[j] = s.chain[j]
  /\ \A j \in 1..i :
       x.chain[Len(s.chain) + j] =
         [block |-> SubSeq(in, from + (j - 1) * b, from + j * b - 1), count |-> c + j * b, last |-> FALSE]

(* A piece of a sequence is a sequence.                                     *)
LEMMA PieceTyped ==
  ASSUME NEW S, NEW p \in Seq(S), NEW x \in Nat \ {0}, NEW y \in Nat, y <= Len(p)
  PROVE  SubSeq(p, x, y) \in Seq(S)
<1>1. Len(p) \in Nat /\ \A i \in x..y : i \in 1..Len(p) /\ p[i] \in S
  <2>1. Len(p) \in Nat
    OBVIOUS
  <2>2. QED
    BY <2>1
<1>2. x \in Int /\ y \in Int
  OBVIOUS
<1>3. QED
  BY <1>1, <1>2, SubSeqProperties

(* One block more.                                                          *)
LEMMA BeyondNext ==
  ASSUME NEW s \in Hashers, NEW c \in Nat, NEW in \in Seq(Words), NEW from \in Nat \ {0},
         NEW b \in 1..(CounterMod - 1), NEW i \in Nat, NEW x, Beyond(x, s, c, in, from, b, i),
         from + (i + 1) * b - 1 <= Len(in)
  PROVE  Beyond(Filled(x, in, from, b, i + 1), s, c, in, from, b, i + 1)
<1> DEFINE p == SubSeq(in, from + i * b, from + (i + 1) * b - 1)
           u == Filled(x, in, from, b, i + 1)
           n == Len(s.chain)
           e == [block |-> p, count |-> c + (i + 1) * b, last |-> FALSE]
<1>0. CounterMod \in Nat \ {0, 1} /\ b \in Nat \ {0} /\ b \in 0..(CounterMod - 1) /\ Len(in) \in Nat
  BY SizesAssumption
<1>1. /\ i * b \in Nat /\ (i + 1) * b \in Nat /\ (i + 1) * b = i * b + b /\ (i + 1) - 1 = i
      /\ c + i * b \in Nat /\ (c + i * b) + b = c + (i + 1) * b
  BY <1>0
<1>2. p \in Seq(Words)
  <2>1. PICK lo \in Nat \ {0}, hi \in Nat : lo = from + i * b /\ hi = from + (i + 1) * b - 1 /\ hi <= Len(in)
    BY <1>0, <1>1
  <2>2. SubSeq(in, lo, hi) \in Seq(Words)
    BY <2>1, PieceTyped
  <2>3. QED
    BY <2>1, <2>2
<1>3. x \in Hashers /\ Counted(x, c + i * b) /\ x.buf = s.buf /\ Len(x.chain) = n + i /\ n \in Nat
  BY DEF Beyond, Hashers
<1>4. u = Compress(IncrementCounter(x, b), p, FALSE)
  BY <1>1 DEF Filled
<1>5. u \in Hashers /\ Counted(u, (c + i * b) + b) /\ u.buf = x.buf
      /\ u.chain = Append(x.chain, [block |-> p, count |-> (c + i * b) + b, last |-> FALSE])
  <2>1. PICK d \in Nat : d = c + i * b
    BY <1>1
  <2>2. Counted(x, d) /\ b \in 0..(CounterMod - 1) /\ FALSE \in BOOLEAN
    BY <1>0, <1>3, <2>1
  <2> HIDE DEF p, u
  <2>3. PICK no \in BOOLEAN : no = FALSE
    OBVIOUS
  <2>4. PICK y : y = Compress(IncrementCounter(x, b), p, no)
    OBVIOUS
  <2>5. PICK q \in Seq(Words) : q = p
    BY <1>2
  <2>6. y = Compress(IncrementCounter(x, b), q, no)
    BY <2>4, <2>5
  <2>7. y \in Hashers /\ Counted(y, d + b) /\ y.buf = x.buf
        /\ y.chain = Append(x.chain, [block |-> q, count |-> d + b, last |-> no])
    <3>1. x \in Hashers /\ Counted(x, d) /\ d \in Nat /\ b \in 0..(CounterMod - 1) /\ q \in Seq(Words) /\ no \in BOOLEAN
      BY <1>3, <2>2
    <3> HIDE <1>3
    <3>2. y \in Hashers
      BY <2>6, <3>1, BlockDone
    <3>3. QED
      BY <2>6, <3>1, BlockDone
  <2>8. u = y
    BY <1>4, <2>3, <2>4
  <2>9. [block |-> q, count |-> d + b, last |-> no] = [block |-> p, count |-> (c + i * b) + b, last |-> FALSE]
    BY <2>1, <2>3, <2>5
  <2>10. QED
    BY <2>1, <2>7, <2>8, <2>9
<1>6. u.chain = Append(x.chain, e)
  BY <1>1, <1>5
<1>7. x.chain \in Seq(Compressed) /\ e \in Compressed
  <2>1. x.chain \in Seq(Compressed)
    BY <1>3 DEF Hashers
  <2>2. PICK d \in Nat : d = c + (i + 1) * b
    BY <1>0, <1>1
  <2>3. [block |-> p, count |-> d, last |-> FALSE] \in Compressed
    BY <1>2, Zenon DEF Compressed
  <2>4. QED
    BY <2>1, <2>2, <2>3
<1> HIDE DEF u, e, n
<1>8. /\ Len(u.chain) = Len(x.chain) + 1 /\ u.chain[Len(x.chain) + 1] = e
      /\ \A j \in 1..Len(x.chain) : u.chain[j] = x.chain[j]
  BY <1>6, <1>7, AppendProperties
<1>9. Len(u.chain) = n + (i + 1) /\ u.chain[n + (i + 1)] = e
  BY <1>3, <1>8
<1>10. \A j \in 1..n : u.chain[j] = s.chain[j]
  <2>1. \A j \in 1..n : j \in 1..Len(x.chain) /\ x.chain[j] = s.chain[j]
    BY <1>3 DEF Beyond, n
  <2>2. QED
    BY <1>8, <2>1
<1>11. ASSUME NEW j \in 1..(i + 1)
       PROVE  u.chain[n + j] =
                [block |-> SubSeq(in, from + (j - 1) * b, from + j * b - 1), count |-> c + j * b, last |-> FALSE]
  <2>1. CASE j = i + 1
    BY <1>1, <1>9, <2>1 DEF e
  <2>2. CASE j \in 1..i
    <3>1. n + j \in 1..Len(x.chain)
      BY <1>3, <2>2
    <3>2. u.chain[n + j] = x.chain[n + j]
      BY <1>8, <3>1
    <3>3. QED
      BY <2>2, <3>2 DEF Beyond, n
  <2>3. QED
    BY <2>1, <2>2
<1>12. QED
  BY <1>1, <1>3, <1>5, <1>9, <1>10, <1>11 DEF Beyond, n, u

(* The recursion of WholeBlocks compresses the blocks of in[from..] in turn. *)
LEMMA FillsBeyond ==
  ASSUME NEW s \in Hashers, NEW c \in Nat, Counted(s, c), NEW in \in Seq(Words), NEW from \in Nat \ {0},
         NEW b \in 1..(CounterMod - 1), NEW k \in Nat, from + k * b - 1 <= Len(in),
         NEW f, Fills(f, s, in, from, b, k)
  PROVE  Beyond(f[k], s, c, in, from, b, k)
<1> DEFINE Good(i) == Beyond(f[i], s, c, in, from, b, i)
           Bad == {i \in 0..k : ~Good(i)}
<1>0. b \in Nat \ {0} /\ Len(in) \in Nat
  BY SizesAssumption
<1>1. Good(0)
  <2>1. f[0] = s /\ 0 * b = 0 /\ c + 0 = c
    BY <1>0 DEF Fills
  <2>2. Len(s.chain) \in Nat /\ Len(s.chain) + 0 = Len(s.chain)
    BY DEF Hashers
  <2>3. QED
    BY <2>1, <2>2 DEF Beyond
<1>2. ASSUME NEW i \in Nat, i + 1 <= k, Good(i) PROVE Good(i + 1)
  <2>1. f[i + 1] = Filled(f[i], in, from, b, i + 1)
    <3>1. i + 1 \in 0..k /\ i + 1 # 0 /\ (i + 1) - 1 = i
      BY <1>2
    <3>2. f[i + 1] = IF i + 1 = 0 THEN s ELSE Filled(f[(i + 1) - 1], in, from, b, i + 1)
      BY <3>1 DEF Fills
    <3>3. QED
      BY <3>1, <3>2
  <2>2. from + (i + 1) * b - 1 <= Len(in)
    <3>1. PICK d \in Nat : k = (i + 1) + d
      <4>1. k - (i + 1) \in Nat /\ k = (i + 1) + (k - (i + 1))
        BY <1>2
      <4>2. QED
        BY <4>1
    <3>2. k * b = (i + 1) * b + d * b /\ d * b \in Nat /\ (i + 1) * b \in Nat
      BY <1>0, <3>1
    <3>3. QED
      BY <1>0, <3>2
  <2>3. QED
    BY <1>2, <2>1, <2>2, BeyondNext
<1>3. Bad = {}
  <2> HIDE DEF Good
  <2>1. SUFFICES ASSUME Bad # {} PROVE FALSE
    OBVIOUS
  <2>2. PICK i \in Bad : \A m \in Bad : i <= m
    <3>1. Bad \subseteq Nat
      OBVIOUS
    <3>2. QED
      BY <2>1, <3>1, SmallestNat
  <2>3. i # 0 /\ i \in 0..k /\ ~Good(i)
    BY <1>1, <2>2
  <2>4. i - 1 \in Nat /\ (i - 1) + 1 = i /\ (i - 1) + 1 <= k /\ Good(i - 1)
    BY <2>2, <2>3
  <2>5. Good((i - 1) + 1)
    BY <1>2, <2>4
  <2>6. QED
    BY <2>3, <2>4, <2>5
<1>4. QED
  <2> HIDE DEF Good
  <2>1. Good(k)
    BY <1>3
  <2>2. QED
    BY <2>1 DEF Good

(* WholeBlocks leaves at least one byte and at most a block.                *)
LEMMA WholeBlocksIs ==
  ASSUME NEW s \in Hashers, NEW c \in Nat, Counted(s, c), NEW in \in Seq(Words), NEW from \in Nat \ {0},
         NEW b \in 1..(CounterMod - 1), from <= Len(in),
         NEW k, k = (Len(in) - from) \div b
  PROVE  Beyond(WholeBlocks(s, in, from, b).s, s, c, in, from, b, k)
<1>0. b \in Nat \ {0} /\ Len(in) \in Nat /\ Len(in) - from \in Nat
  BY SizesAssumption
<1>1. k \in Nat /\ (Len(in) - from) % b \in 0..(b - 1) /\ Len(in) - from = b * k + ((Len(in) - from) % b)
  BY <1>0, DivFacts
<1>2. from + k * b - 1 <= Len(in)
  BY <1>0, <1>1
<1> DEFINE P(g) == g = [i \in 0..k |-> IF i = 0 THEN s ELSE
                                         Compress(IncrementCounter(g[i - 1], b),
                                                  SubSeq(in, from + (i - 1) * b, from + i * b - 1), FALSE)]
<1>3. \E g : P(g)
  <2>1. PICK f : Fills(f, s, in, from, b, k)
    BY <1>1, FillExists
  <2>2. P(f)
    BY <2>1 DEF Fills, Filled
  <2> HIDE DEF P
  <2>3. QED
    BY <2>2
<1>4. WholeBlocks(s, in, from, b) = [s |-> (CHOOSE g : P(g))[k], from |-> from + k * b]
  <2>1. Len(in) - from + 1 # 0 /\ (Len(in) - from + 1) - 1 = Len(in) - from
    BY <1>0
  <2>2. k = IF Len(in) - from + 1 = 0 THEN 0 ELSE ((Len(in) - from + 1) - 1) \div b
    BY <2>1
  <2>3. QED
    BY <2>2 DEF WholeBlocks
<1>5. P(CHOOSE g : P(g))
  <2> HIDE DEF P
  <2>1. QED
    BY <1>3
<1>6. PICK f : f = (CHOOSE g : P(g))
  OBVIOUS
<1>7. Fills(f, s, in, from, b, k)
  BY <1>5, <1>6 DEF Fills, Filled
<1>8. Beyond(f[k], s, c, in, from, b, k)
  BY <1>1, <1>2, <1>7, FillsBeyond
<1> HIDE DEF P
<1>9. QED
  BY <1>1, <1>2, <1>4, <1>6, <1>8

-----------------------------------------------------------------------------
(* Pieces of a concatenation.                                               *)
LEMMA CutIndex ==
  ASSUME NEW S, NEW m \in Seq(S), NEW x \in Nat \ {0}, NEW y \in Nat, y <= Len(m), x <= y + 1
  PROVE  /\ SubSeq(m, x, y) \in Seq(S) /\ Len(SubSeq(m, x, y)) = y - x + 1
         /\ \A i \in 1..(y - x + 1) : SubSeq(m, x, y)[i] = m[x + i - 1]
<1>1. Len(m) \in Nat /\ y - x + 1 \in Nat
  OBVIOUS
<1>2. SubSeq(m, x, y) \in Seq(S)
  BY PieceTyped
<1>3. \A i \in x..y : m[i] \in S
  BY <1>1
<1>4. x \in Int /\ y \in Int
  OBVIOUS
<1>5. /\ Len(SubSeq(m, x, y)) = IF x <= y THEN y - x + 1 ELSE 0
      /\ \A i \in 1..(y - x + 1) : SubSeq(m, x, y)[i] = m[x + i - 1]
  BY <1>3, <1>4, SubSeqProperties
<1>6. x <= y \/ y - x + 1 = 0
  OBVIOUS
<1>7. QED
  BY <1>1, <1>2, <1>5, <1>6

(* A cut that ends before the bytes appended.                               *)
LEMMA CutLeft ==
  ASSUME NEW S, NEW m \in Seq(S), NEW in \in Seq(S), NEW x \in Nat \ {0}, NEW y \in Nat,
         y <= Len(m), x <= y + 1
  PROVE  SubSeq(m \o in, x, y) = SubSeq(m, x, y)
<1>1. /\ m \o in \in Seq(S) /\ Len(m \o in) = Len(m) + Len(in) /\ Len(m) \in Nat /\ Len(in) \in Nat
      /\ \A i \in 1..Len(m) : (m \o in)[i] = m[i]
  OBVIOUS
<1>2. y <= Len(m \o in)
  BY <1>1
<1>3. \A i \in 1..(y - x + 1) : x + i - 1 \in 1..Len(m)
  BY <1>1
<1>4. QED
  BY <1>1, <1>2, <1>3, CutIndex, SeqEqual

(* A cut within the bytes appended.                                         *)
LEMMA CutRight ==
  ASSUME NEW S, NEW m \in Seq(S), NEW in \in Seq(S), NEW x \in Nat \ {0}, NEW y \in Nat,
         y <= Len(in), x <= y + 1
  PROVE  SubSeq(m \o in, Len(m) + x, Len(m) + y) = SubSeq(in, x, y)
<1>1. /\ m \o in \in Seq(S) /\ Len(m \o in) = Len(m) + Len(in) /\ Len(m) \in Nat /\ Len(in) \in Nat
      /\ \A i \in 1..Len(in) : (m \o in)[Len(m) + i] = in[i]
  OBVIOUS
<1>2. PICK lo \in Nat \ {0}, hi \in Nat : lo = Len(m) + x /\ hi = Len(m) + y
  BY <1>1
<1>3. hi <= Len(m \o in) /\ lo <= hi + 1 /\ hi - lo + 1 = y - x + 1
  BY <1>1, <1>2
<1>4. \A i \in 1..(y - x + 1) : x + i - 1 \in 1..Len(in) /\ lo + i - 1 = Len(m) + (x + i - 1)
  BY <1>1, <1>2
<1>5. /\ SubSeq(m \o in, lo, hi) \in Seq(S) /\ Len(SubSeq(m \o in, lo, hi)) = y - x + 1
      /\ \A i \in 1..(y - x + 1) : SubSeq(m \o in, lo, hi)[i] = (m \o in)[lo + i - 1]
  BY <1>1, <1>3, CutIndex
<1>6. /\ SubSeq(in, x, y) \in Seq(S) /\ Len(SubSeq(in, x, y)) = y - x + 1
      /\ \A i \in 1..(y - x + 1) : SubSeq(in, x, y)[i] = in[x + i - 1]
  BY CutIndex
<1>7. SubSeq(m \o in, lo, hi) = SubSeq(in, x, y)
  <2>1. \A i \in 1..(y - x + 1) : SubSeq(m \o in, lo, hi)[i] = SubSeq(in, x, y)[i]
    BY <1>1, <1>4, <1>5, <1>6
  <2>2. QED
    BY <1>5, <1>6, <2>1, SeqEqual
<1>8. QED
  BY <1>2, <1>7

(* A cut that begins before the bytes appended and ends in them.            *)
LEMMA CutAcross ==
  ASSUME NEW S, NEW m \in Seq(S), NEW in \in Seq(S), NEW x \in Nat \ {0}, NEW g \in Nat,
         g <= Len(in), x <= Len(m) + 1
  PROVE  SubSeq(m \o in, x, Len(m) + g) = SubSeq(m, x, Len(m)) \o SubSeq(in, 1, g)
<1>1. /\ m \o in \in Seq(S) /\ Len(m \o in) = Len(m) + Len(in) /\ Len(m) \in Nat /\ Len(in) \in Nat
      /\ \A i \in 1..Len(m) : (m \o in)[i] = m[i]
      /\ \A i \in 1..Len(in) : (m \o in)[Len(m) + i] = in[i]
  OBVIOUS
<1>0. PICK l \in Nat : l = Len(m) - x + 1
  BY <1>1
<1>2. PICK a \in Seq(S) : a = SubSeq(m, x, Len(m)) /\ Len(a) = l /\ \A i \in 1..l : a[i] = m[x + i - 1]
  <2>1. PICK y \in Nat : y = Len(m)
    BY <1>1
  <2>2. y <= Len(m) /\ x <= y + 1 /\ y - x + 1 = l
    BY <1>0, <1>1, <2>1
  <2>3. /\ SubSeq(m, x, y) \in Seq(S) /\ Len(SubSeq(m, x, y)) = y - x + 1
        /\ \A i \in 1..(y - x + 1) : SubSeq(m, x, y)[i] = m[x + i - 1]
    BY <2>2, CutIndex
  <2>4. QED
    BY <2>1, <2>2, <2>3
<1>3. PICK b \in Seq(S) : b = SubSeq(in, 1, g) /\ Len(b) = g /\ \A i \in 1..g : b[i] = in[i]
  <2>1. 1 \in Nat \ {0} /\ 1 <= g + 1 /\ g - 1 + 1 = g /\ \A i \in 1..g : 1 + i - 1 = i
    OBVIOUS
  <2>2. PICK x1 \in Nat \ {0} : x1 = 1
    OBVIOUS
  <2>3. /\ SubSeq(in, x1, g) \in Seq(S) /\ Len(SubSeq(in, x1, g)) = g - x1 + 1
        /\ \A i \in 1..(g - x1 + 1) : SubSeq(in, x1, g)[i] = in[x1 + i - 1]
    BY <2>1, <2>2, CutIndex
  <2>4. QED
    BY <2>1, <2>2, <2>3
<1>4. /\ a \o b \in Seq(S) /\ Len(a \o b) = l + g
      /\ \A i \in 1..l : (a \o b)[i] = a[i]
      /\ \A i \in 1..g : (a \o b)[l + i] = b[i]
  <2>1. /\ a \o b \in Seq(S) /\ Len(a \o b) = Len(a) + Len(b)
        /\ \A i \in 1..Len(a) : (a \o b)[i] = a[i]
        /\ \A i \in 1..Len(b) : (a \o b)[Len(a) + i] = b[i]
    OBVIOUS
  <2>2. QED
    BY <1>2, <1>3, <2>1
<1>5. PICK hi \in Nat : hi = Len(m) + g
  BY <1>1
<1>6. hi <= Len(m \o in) /\ x <= hi + 1 /\ hi - x + 1 = l + g
  BY <1>0, <1>1, <1>5
<1>7. /\ SubSeq(m \o in, x, hi) \in Seq(S) /\ Len(SubSeq(m \o in, x, hi)) = l + g
      /\ \A i \in 1..(l + g) : SubSeq(m \o in, x, hi)[i] = (m \o in)[x + i - 1]
  BY <1>1, <1>6, CutIndex
<1>8. ASSUME NEW i \in 1..(l + g) PROVE SubSeq(m \o in, x, hi)[i] = (a \o b)[i]
  <2>1. CASE i <= l
    <3>1. i \in 1..l /\ x + i - 1 \in 1..Len(m)
      BY <1>0, <1>1, <2>1
    <3>2. QED
      BY <1>1, <1>2, <1>4, <1>7, <3>1
  <2>2. CASE i > l
    <3>1. PICK j \in 1..g : i = l + j
      <4>1. i - l \in 1..g /\ i = l + (i - l)
        BY <2>2
      <4>2. QED
        BY <4>1
    <3>2. j \in 1..Len(in) /\ x + i - 1 = Len(m) + j
      BY <1>0, <1>1, <3>1
    <3>3. (a \o b)[i] = in[j]
      BY <1>3, <1>4, <3>1
    <3>4. (m \o in)[x + i - 1] = in[j]
      BY <1>1, <3>2
    <3>5. QED
      BY <1>7, <3>3, <3>4
  <2>3. QED
    <3>1. i <= l \/ i > l
      OBVIOUS
    <3>2. QED
      BY <2>1, <2>2, <3>1
<1>9. SubSeq(m \o in, x, hi) = a \o b
  BY <1>4, <1>7, <1>8, SeqEqual
<1>10. QED
  BY <1>2, <1>3, <1>5, <1>9

-----------------------------------------------------------------------------
(* The blocks a stream of bytes has before the one that might be the last.  *)
LEMMA BlocksBound ==
  ASSUME NEW m \in Seq(Words), NEW b \in Nat \ {0}, NEW k, k = Blocks(m, b)
  PROVE  /\ k \in Nat /\ k * b \in Nat /\ k * b <= Len(m) /\ Len(m) - k * b <= b
         /\ IF m = <<>> THEN k = 0 ELSE k * b < Len(m)
<1>1. CASE m = <<>>
  <2>1. k = 0 /\ Len(m) = 0 /\ 0 * b = 0
    BY <1>1 DEF Blocks
  <2>2. QED
    BY <1>1, <2>1
<1>2. CASE m # <<>>
  <2>1. PICK l \in Nat : l = Len(m) - 1 /\ Len(m) = l + 1
    <3>1. Len(m) \in Nat \ {0}
      BY <1>2, EmptySeq
    <3>2. QED
      BY <3>1
  <2>2. k = l \div b
    BY <1>2, <2>1 DEF Blocks
  <2>3. k \in Nat /\ l % b \in 0..(b - 1) /\ l = b * k + (l % b)
    BY <2>2, DivFacts
  <2>4. PICK r \in 0..(b - 1), kb \in Nat : r = l % b /\ kb = k * b /\ b * k = k * b
    BY <2>3
  <2>5. l = kb + r
    BY <2>3, <2>4
  <2>6. kb < l + 1 /\ l + 1 - kb <= b
    BY <2>5
  <2>7. kb < Len(m) /\ Len(m) - kb <= b
    BY <2>1, <2>6
  <2>8. QED
    BY <1>2, <2>3, <2>4, <2>7
<1>3. QED
  BY <1>1, <1>2

(* The number of full blocks is the one that leaves at most a block and, of *)
(* a message, at least a byte.                                              *)
LEMMA BlocksAre ==
  ASSUME NEW m \in Seq(Words), NEW b \in Nat \ {0}, NEW k \in Nat, Len(m) <= k * b + b,
         IF m = <<>> THEN k = 0 ELSE k * b < Len(m)
  PROVE  Blocks(m, b) = k
<1>1. CASE m = <<>>
  BY <1>1 DEF Blocks
<1>2. CASE m # <<>>
  <2>1. PICK l \in Nat : l = Len(m) - 1 /\ Len(m) = l + 1
    <3>1. Len(m) \in Nat \ {0}
      BY <1>2, EmptySeq
    <3>2. QED
      BY <3>1
  <2>2. PICK kb \in Nat : kb = k * b /\ kb = b * k
    OBVIOUS
  <2>3. PICK r \in 0..(b - 1) : l = kb + r
    <3>1. l - kb \in 0..(b - 1) /\ l = kb + (l - kb)
      BY <1>2, <2>1, <2>2
    <3>2. QED
      BY <3>1
  <2>4. l = b * k + r /\ k \in Int
    BY <2>2, <2>3
  <2>5. l \div b = k
    BY <2>4, DivUnique
  <2>6. QED
    BY <1>2, <2>1, <2>5 DEF Blocks
<1>3. QED
  BY <1>1, <1>2

(* The i-th full block of a stream, as it is compressed.                    *)
FullBlock(m, b, i) == [block |-> SubSeq(m, (i - 1) * b + 1, i * b), count |-> i * b, last |-> FALSE]

(* The reference's chain, block by block.                                   *)
LEMMA StreamTyped ==
  ASSUME NEW m \in Seq(Words), NEW b \in Nat \ {0}, NEW k, k = Blocks(m, b)
  PROVE  /\ StreamOf(m, b) \in Seq(Compressed) /\ Len(StreamOf(m, b)) = k
         /\ \A i \in 1..k : StreamOf(m, b)[i] = FullBlock(m, b, i)
<1>1. k \in Nat /\ k * b \in Nat /\ k * b <= Len(m) /\ Len(m) \in Nat
  BY BlocksBound
<1>2. StreamOf(m, b) = [i \in 1..k |-> FullBlock(m, b, i)]
  BY DEF StreamOf, FullBlock
<1>3. ASSUME NEW i \in 1..k PROVE FullBlock(m, b, i) \in Compressed
  <2>1. PICK d \in Nat : k = i + d
    <3>1. k - i \in Nat /\ k = i + (k - i)
      BY <1>1
    <3>2. QED
      BY <3>1
  <2>2. PICK hi \in Nat, lo \in Nat \ {0} : hi = i * b /\ lo = (i - 1) * b + 1 /\ hi <= k * b
    <3>1. i \in Nat /\ i - 1 \in Nat
      BY <1>1
    <3>2. i * b \in Nat /\ (i - 1) * b \in Nat /\ d * b \in Nat /\ k * b = i * b + d * b
      BY <2>1, <3>1
    <3>3. QED
      BY <3>2
  <2>3. SubSeq(m, lo, hi) \in Seq(Words)
    BY <1>1, <2>2, PieceTyped
  <2>4. QED
    BY <2>2, <2>3 DEF FullBlock, Compressed
<1>4. StreamOf(m, b) \in [1..k -> Compressed]
  BY <1>2, <1>3
<1>5. StreamOf(m, b) \in Seq(Compressed) /\ Len(StreamOf(m, b)) = k
  BY <1>1, <1>4
<1>6. QED
  BY <1>2, <1>5

(* s is what a hasher is after the bytes m, whatever pieces they came in.   *)
HashedTo(s, m, b) ==
  /\ s \in Hashers /\ m \in Seq(Words)
  /\ s.chain = StreamOf(m, b) /\ Counted(s, Blocks(m, b) * b)
  /\ s.buf = SubSeq(m, Blocks(m, b) * b + 1, Len(m))

(* To be so, the chain has to be right block by block.                      *)
LEMMA HashedByBlocks ==
  ASSUME NEW m \in Seq(Words), NEW b \in Nat \ {0}, NEW k, k = Blocks(m, b), NEW s \in Hashers,
         Counted(s, k * b), s.buf = SubSeq(m, k * b + 1, Len(m)), Len(s.chain) = k,
         \A i \in 1..k : s.chain[i] = FullBlock(m, b, i)
  PROVE  HashedTo(s, m, b)
<1>1. /\ StreamOf(m, b) \in Seq(Compressed) /\ Len(StreamOf(m, b)) = k
      /\ \A i \in 1..k : StreamOf(m, b)[i] = FullBlock(m, b, i)
  BY StreamTyped
<1>2. s.chain \in Seq(Compressed)
  BY DEF Hashers
<1>3. s.chain = StreamOf(m, b)
  BY <1>1, <1>2, SeqEqual
<1>4. QED
  BY <1>3 DEF HashedTo

(* Where the i-th block of k begins and ends.                               *)
LEMMA BlockEnds ==
  ASSUME NEW b \in Nat \ {0}, NEW k \in Nat, NEW i \in 1..k, NEW n \in Nat, k * b <= n
  PROVE  \E lo \in Nat \ {0}, hi \in Nat :
           lo = (i - 1) * b + 1 /\ hi = i * b /\ hi = lo + b - 1 /\ hi <= n /\ lo <= hi + 1
<1>1. PICK d \in Nat : k = i + d
  <2>1. k - i \in Nat /\ k = i + (k - i)
    OBVIOUS
  <2>2. QED
    BY <2>1
<1>2. PICK e \in Nat : i = e + 1 /\ i - 1 = e
  <2>1. i - 1 \in Nat /\ i = (i - 1) + 1
    OBVIOUS
  <2>2. QED
    BY <2>1
<1>3. e * b \in Nat /\ d * b \in Nat /\ i * b = e * b + b /\ k * b = i * b + d * b
  BY <1>1, <1>2
<1>4. PICK x \in Nat, y \in Nat, z \in Nat : x = e * b /\ y = d * b /\ z = i * b
  BY <1>3
<1>5. z = x + b /\ z + y <= n
  BY <1>3, <1>4
<1>6. x + 1 \in Nat \ {0} /\ z = x + 1 + b - 1 /\ z <= n /\ x + 1 <= z + 1
  BY <1>5
<1>7. QED
  BY <1>2, <1>4, <1>6

(* update() with a piece that stays in the buffer.                          *)
LEMMA UpdateShort ==
  ASSUME NEW b \in 1..(CounterMod - 1), NEW m, NEW s, HashedTo(s, m, b), NEW in \in Seq(Words),
         Len(s.buf) + Len(in) <= b
  PROVE  HashedTo(Update(s, in, b), m \o in, b)
<1>0. b \in Nat \ {0} /\ m \in Seq(Words) /\ s \in Hashers /\ Len(m) \in Nat /\ Len(in) \in Nat
  BY SizesAssumption DEF HashedTo
<1>1. PICK k \in Nat : k = Blocks(m, b)
  BY <1>0, BlocksBound
<1>2. PICK kb \in Nat : kb = k * b
  BY <1>0
<1>3. kb <= Len(m) /\ Len(m) - kb <= b /\ (IF m = <<>> THEN k = 0 ELSE kb < Len(m))
  BY <1>0, <1>1, <1>2, BlocksBound
<1>4. PICK M \in Seq(Words) : M = m \o in /\ Len(M) = Len(m) + Len(in)
  <2>1. m \o in \in Seq(Words) /\ Len(m \o in) = Len(m) + Len(in)
    BY <1>0
  <2>2. QED
    BY <2>1
<1>5. s.buf = SubSeq(m, kb + 1, Len(m)) /\ s.buf \in Seq(Words) /\ Len(s.buf) = Len(m) - kb
  <2>1. s.buf = SubSeq(m, kb + 1, Len(m))
    BY <1>1, <1>2 DEF HashedTo
  <2>2. PICK lo \in Nat \ {0}, hi \in Nat : lo = kb + 1 /\ hi = Len(m) /\ lo <= hi + 1 /\ hi - lo + 1 = Len(m) - kb
    <3>1. kb + 1 \in Nat \ {0} /\ kb + 1 <= Len(m) + 1 /\ Len(m) - (kb + 1) + 1 = Len(m) - kb
      BY <1>0, <1>3
    <3>2. QED
      BY <1>0, <3>1
  <2>3. SubSeq(m, lo, hi) \in Seq(Words) /\ Len(SubSeq(m, lo, hi)) = hi - lo + 1
    BY <1>0, <2>2, CutIndex
  <2>4. QED
    BY <2>1, <2>2, <2>3
<1>6. Blocks(M, b) = k
  <2>1. Len(M) <= kb + b
    BY <1>0, <1>3, <1>4, <1>5
  <2>2. IF M = <<>> THEN k = 0 ELSE kb < Len(M)
    <3>1. CASE m = <<>>
      <4>1. k = 0 /\ kb = 0
        BY <1>0, <1>2, <1>3, <3>1
      <4>2. M # <<>> => Len(M) \in Nat \ {0}
        BY EmptySeq
      <4>3. QED
        BY <4>1, <4>2
    <3>2. CASE m # <<>>
      <4>1. kb < Len(M) /\ Len(<<>>) = 0
        BY <1>0, <1>3, <1>4, <3>2
      <4>2. M # <<>>
        BY <4>1
      <4>3. QED
        BY <4>1, <4>2
    <3>3. QED
      BY <3>1, <3>2
  <2>3. QED
    BY <1>0, <1>2, <2>1, <2>2, BlocksAre
<1>7. PICK u : u = Update(s, in, b) /\ u = [s EXCEPT !.buf = s.buf \o in]
  <2>1. ~(Len(s.buf) + Len(in) > b)
    BY <1>0, <1>3, <1>5
  <2>2. QED
    BY <2>1 DEF Update
<1>8. s.buf \o in \in Seq(Words)
  BY <1>5
<1>9. u \in Hashers /\ u.chain = s.chain /\ u.t0 = s.t0 /\ u.t1 = s.t1 /\ u.buf = s.buf \o in
  BY <1>0, <1>7, <1>8 DEF Hashers
<1>10. Counted(u, kb)
  BY <1>1, <1>2, <1>9 DEF HashedTo, Counted
<1>11. u.buf = SubSeq(M, kb + 1, Len(M))
  <2>1. PICK x \in Nat \ {0}, g \in Nat : x = kb + 1 /\ g = Len(in) /\ x <= Len(m) + 1 /\ g <= Len(in)
    BY <1>0, <1>3
  <2>2. SubSeq(m \o in, x, Len(m) + g) = SubSeq(m, x, Len(m)) \o SubSeq(in, 1, g)
    <3>1. /\ m \in Seq(Words) /\ in \in Seq(Words) /\ x \in Nat \ {0} /\ g \in Nat
          /\ g <= Len(in) /\ x <= Len(m) + 1
      BY <1>0, <2>1
    <3>2. QED
      BY <3>1, CutAcross
  <2>3. SubSeq(in, 1, Len(in)) = in
    OBVIOUS
  <2>4. QED
    BY <1>4, <1>5, <1>9, <2>1, <2>2, <2>3
<1>12. s.chain \in Seq(Compressed) /\ Len(s.chain) = k /\ \A i \in 1..k : s.chain[i] = FullBlock(m, b, i)
  BY <1>0, <1>1, StreamTyped DEF HashedTo
<1>13. ASSUME NEW i \in 1..k PROVE u.chain[i] = FullBlock(M, b, i)
  <2>1. PICK lo \in Nat \ {0}, hi \in Nat : lo = (i - 1) * b + 1 /\ hi = i * b /\ hi <= Len(m) /\ lo <= hi + 1
    <3>1. PICK n \in Nat : n = Len(m) /\ k * b <= n
      BY <1>0, <1>2, <1>3
    <3>2. PICK lo \in Nat \ {0}, hi \in Nat :
            lo = (i - 1) * b + 1 /\ hi = i * b /\ hi = lo + b - 1 /\ hi <= n /\ lo <= hi + 1
      <4>1. b \in Nat \ {0} /\ k \in Nat /\ i \in 1..k /\ n \in Nat /\ k * b <= n
        BY <1>0, <3>1
      <4>2. QED
        BY <4>1, BlockEnds
    <3>3. QED
      BY <3>1, <3>2
  <2>2. SubSeq(m \o in, lo, hi) = SubSeq(m, lo, hi)
    BY <1>0, <2>1, CutLeft
  <2>3. FullBlock(M, b, i) = FullBlock(m, b, i)
    BY <1>4, <2>1, <2>2 DEF FullBlock
  <2>4. QED
    BY <1>9, <1>12, <2>3
<1>14. HashedTo(u, M, b)
  <2>1. Counted(u, k * b) /\ u.buf = SubSeq(M, k * b + 1, Len(M)) /\ Len(u.chain) = k
    BY <1>2, <1>9, <1>10, <1>11, <1>12
  <2>2. QED
    BY <1>0, <1>6, <1>9, <1>13, <2>1, HashedByBlocks
<1>15. QED
  BY <1>4, <1>7, <1>14

(* A hasher with another buffer.                                            *)
LEMMA NewBuffer ==
  ASSUME NEW s \in Hashers, NEW e \in Seq(Words), NEW y, y = [s EXCEPT !.buf = e]
  PROVE  y \in Hashers /\ y.chain = s.chain /\ y.t0 = s.t0 /\ y.t1 = s.t1 /\ y.buf = e
BY DEF Hashers

(* A hasher whose buffer is emptied.                                        *)
LEMMA EmptyBuffer ==
  ASSUME NEW s \in Hashers, NEW y, y = [s EXCEPT !.buf = <<>>]
  PROVE  y \in Hashers /\ y.chain = s.chain /\ y.t0 = s.t0 /\ y.t1 = s.t1
<1>1. <<>> \in Seq(Words)
  OBVIOUS
<1>2. QED
  BY <1>1 DEF Hashers

(* update() with a piece that goes beyond the block: the buffer's block,    *)
(* the full blocks of the piece, the rest in the buffer.                    *)
LEMMA UpdateLong ==
  ASSUME NEW b, NEW m, NEW s, NEW in
  PROVE  /\ b \in 1..(CounterMod - 1) /\ HashedTo(s, m, b) /\ in \in Seq(Words)
         /\ Len(s.buf) + Len(in) > b
         => HashedTo(Update(s, in, b), m \o in, b)
<1>a. SUFFICES ASSUME b \in 1..(CounterMod - 1), HashedTo(s, m, b), in \in Seq(Words), Len(s.buf) + Len(in) > b
               PROVE  HashedTo(Update(s, in, b), m \o in, b)
  OBVIOUS
<1>0. /\ b \in Nat \ {0} /\ b \in 0..(CounterMod - 1) /\ m \in Seq(Words) /\ s \in Hashers
      /\ in \in Seq(Words) /\ Len(m) \in Nat /\ Len(in) \in Nat
  BY <1>a, SizesAssumption DEF HashedTo
<1>1. PICK k \in Nat : k = Blocks(m, b)
  BY <1>0, BlocksBound
<1>2. PICK kb \in Nat : kb = k * b
  BY <1>0
<1>3. kb <= Len(m) /\ Len(m) - kb <= b
  BY <1>0, <1>1, <1>2, BlocksBound
<1>4. PICK M : M \in Seq(Words) /\ M = m \o in /\ Len(M) = Len(m) + Len(in)
  <2>1. m \o in \in Seq(Words) /\ Len(m \o in) = Len(m) + Len(in)
    BY <1>0
  <2>2. QED
    BY <2>1
<1>5. s.buf = SubSeq(m, kb + 1, Len(m)) /\ s.buf \in Seq(Words) /\ Len(s.buf) = Len(m) - kb
  <2>1. s.buf = SubSeq(m, kb + 1, Len(m))
    BY <1>a, <1>1, <1>2 DEF HashedTo
  <2>2. PICK lo \in Nat \ {0}, hi \in Nat : lo = kb + 1 /\ hi = Len(m) /\ lo <= hi + 1 /\ hi - lo + 1 = Len(m) - kb
    <3>1. kb + 1 \in Nat \ {0} /\ kb + 1 <= Len(m) + 1 /\ Len(m) - (kb + 1) + 1 = Len(m) - kb
      BY <1>0, <1>3
    <3>2. QED
      BY <1>0, <3>1
  <2>3. SubSeq(m, lo, hi) \in Seq(Words) /\ Len(SubSeq(m, lo, hi)) = hi - lo + 1
    BY <1>0, <2>2, CutIndex
  <2>4. QED
    BY <2>1, <2>2, <2>3
<1>6. PICK gap \in Nat : /\ gap = b - Len(s.buf) /\ gap = kb + b - Len(m) /\ gap + 1 <= Len(in)
                         /\ Len(m) + gap = kb + b
  <2>1. b - (Len(m) - kb) \in Nat /\ (b - (Len(m) - kb)) + 1 <= Len(in)
    BY <1>a, <1>0, <1>3, <1>5
  <2>2. b - (Len(m) - kb) = kb + b - Len(m) /\ Len(m) + (kb + b - Len(m)) = kb + b
    BY <1>0
  <2>3. QED
    BY <1>5, <2>1, <2>2
<1> DEFINE Top == s.buf \o SubSeq(in, 1, gap)
<1>7. Top \in Seq(Words) /\ Top = SubSeq(M, kb + 1, kb + b)
  <2>1. PICK x \in Nat \ {0} : x = kb + 1 /\ x <= Len(m) + 1
    BY <1>0, <1>3
  <2>2. /\ m \in Seq(Words) /\ in \in Seq(Words) /\ x \in Nat \ {0} /\ gap \in Nat
        /\ gap <= Len(in) /\ x <= Len(m) + 1
    BY <1>0, <1>6, <2>1
  <2>3. SubSeq(m \o in, x, Len(m) + gap) = SubSeq(m, x, Len(m)) \o SubSeq(in, 1, gap)
    BY <2>2, CutAcross
  <2>4. SubSeq(M, kb + 1, kb + b) = Top
    BY <1>4, <1>5, <1>6, <2>1, <2>3
  <2>5. PICK hi \in Nat : hi = kb + b /\ hi <= Len(M)
    BY <1>0, <1>4, <1>6
  <2>6. SubSeq(M, x, hi) \in Seq(Words)
    BY <1>4, <2>5, PieceTyped
  <2>7. QED
    BY <2>1, <2>4, <2>5, <2>6
<1>8. PICK s1 : /\ s1 \in Hashers /\ s1 = Compress(IncrementCounter(s, b), Top, FALSE) /\ Counted(s1, kb + b)
                            /\ s1.chain = Append(s.chain, [block |-> Top, count |-> kb + b, last |-> FALSE])
  <2>1. PICK no \in BOOLEAN : no = FALSE
    OBVIOUS
  <2>2. PICK q : q \in Seq(Words) /\ q = Top
    BY <1>7
  <2>3. PICK y : y = Compress(IncrementCounter(s, b), q, no)
    OBVIOUS
  <2>4. /\ s \in Hashers /\ Counted(s, kb) /\ kb \in Nat /\ b \in 0..(CounterMod - 1)
        /\ q \in Seq(Words) /\ no \in BOOLEAN
    BY <1>a, <1>0, <1>1, <1>2, <2>2 DEF HashedTo
  <2>5. /\ y \in Hashers /\ Counted(y, kb + b)
        /\ y.chain = Append(s.chain, [block |-> q, count |-> kb + b, last |-> no])
    BY <2>3, <2>4, BlockDone
  <2>6. QED
    BY <2>1, <2>2, <2>3, <2>5
<1> HIDE DEF Top
<1>9. PICK s2 : /\ s2 \in Hashers /\ s2 = [s1 EXCEPT !.buf = <<>>] /\ Counted(s2, kb + b)
                            /\ s2.chain = Append(s.chain, [block |-> Top, count |-> kb + b, last |-> FALSE])
  <2>1. PICK y : y = [s1 EXCEPT !.buf = <<>>]
    OBVIOUS
  <2>2. y \in Hashers /\ y.chain = s1.chain /\ y.t0 = s1.t0 /\ y.t1 = s1.t1
    BY <1>8, <2>1, EmptyBuffer
  <2>3. QED
    BY <1>8, <2>1, <2>2 DEF Counted
<1>10. PICK wb : wb = WholeBlocks(s2, in, gap + 1, b)
  OBVIOUS
<1>11. PICK u : u = Update(s, in, b) /\ u = [wb.s EXCEPT !.buf = SubSeq(in, wb.from, Len(in))]
  <2>1. PICK top : top = s.buf \o SubSeq(in, 1, gap) /\ top = Top
    BY DEF Top
  <2>2. /\ Len(s.buf) + Len(in) > b /\ gap = b - Len(s.buf)
        /\ s1 = Compress(IncrementCounter(s, b), top, FALSE)
        /\ s2 = [s1 EXCEPT !.buf = <<>>] /\ top = s.buf \o SubSeq(in, 1, gap)
    BY <1>a, <1>6, <1>8, <1>9, <2>1
  <2>3. Update(s, in, b) = [wb.s EXCEPT !.buf = SubSeq(in, wb.from, Len(in))]
    BY <1>10, <2>2 DEF Update
  <2>4. QED
    BY <2>3
<1>12. PICK kk \in Nat, kkb \in Nat :
         /\ kk = (Len(in) - (gap + 1)) \div b /\ kkb = kk * b
         /\ gap + kkb < Len(in) /\ Len(in) <= gap + kkb + b
         /\ Beyond(wb.s, s2, kb + b, in, gap + 1, b, kk) /\ wb.from = (gap + 1) + kkb
  <2>1. PICK from \in Nat \ {0}, c \in Nat, l \in Nat :
          from = gap + 1 /\ c = kb + b /\ l = Len(in) - from /\ Len(in) = l + from /\ from <= Len(in)
    <3>1. gap + 1 \in Nat \ {0} /\ kb + b \in Nat /\ Len(in) - (gap + 1) \in Nat
      BY <1>0, <1>6
    <3>2. Len(in) = (Len(in) - (gap + 1)) + (gap + 1)
      BY <1>0
    <3>3. QED
      BY <1>6, <3>1, <3>2
  <2>2. PICK q : q = l \div b
    OBVIOUS
  <2>3. PICK r \in 0..(b - 1) : q \in Nat /\ l = b * q + r
    BY <1>0, <2>2, DivFacts
  <2>4. PICK qb \in Nat : qb = q * b /\ qb = b * q
    BY <1>0, <2>3
  <2>5. l = qb + r
    BY <2>3, <2>4
  <2>6. gap + qb < Len(in) /\ Len(in) <= gap + qb + b
    BY <1>0, <2>1, <2>5
  <2>7. /\ s2 \in Hashers /\ c \in Nat /\ Counted(s2, c) /\ in \in Seq(Words) /\ from \in Nat \ {0}
        /\ b \in 1..(CounterMod - 1) /\ from <= Len(in) /\ q = (Len(in) - from) \div b
        /\ qb = q * b
    BY <1>a, <1>9, <2>1, <2>2, <2>4
  <2>8. /\ Beyond(WholeBlocks(s2, in, from, b).s, s2, c, in, from, b, q)
        /\ WholeBlocks(s2, in, from, b).from = from + qb
    <3>1. Beyond(WholeBlocks(s2, in, from, b).s, s2, c, in, from, b, q)
      BY <2>7, WholeBlocksIs
    <3>2. Len(in) - from + 1 = l + 1 /\ l + 1 # 0 /\ (l + 1) - 1 = l
      BY <1>0, <2>1
    <3>3. WholeBlocks(s2, in, from, b).from = from + (IF l + 1 = 0 THEN 0 ELSE ((l + 1) - 1) \div b) * b
      BY <3>2 DEF WholeBlocks
    <3>4. QED
      BY <2>2, <2>4, <3>1, <3>2, <3>3
  <2>9. q = (Len(in) - (gap + 1)) \div b
    BY <2>1, <2>2
  <2>10. Beyond(wb.s, s2, kb + b, in, gap + 1, b, q) /\ wb.from = (gap + 1) + qb
    BY <1>10, <2>1, <2>4, <2>8
  <2>11. q \in Nat /\ qb = q * b
    BY <2>3, <2>4
  <2>12. QED
    BY <2>6, <2>9, <2>10, <2>11
<1>13. PICK K \in Nat, Kb \in Nat : K = k + 1 + kk /\ Kb = K * b /\ Kb = kb + b + kkb
  <2>1. (k + 1 + kk) * b = k * b + b + kk * b
    BY <1>0
  <2>2. k + 1 + kk \in Nat /\ kb + b + kkb \in Nat
    BY <1>0
  <2>3. (k + 1 + kk) * b = kb + b + kkb
    BY <1>2, <1>12, <2>1
  <2>4. QED
    BY <2>2, <2>3
<1>14. Len(M) = kb + b - gap + Len(in) /\ Kb < Len(M) /\ Len(M) <= Kb + b
  <2>1. PICK lm \in Nat, li \in Nat, lM \in Nat : lm = Len(m) /\ li = Len(in) /\ lM = Len(M) /\ lM = lm + li
    BY <1>0, <1>4
  <2>2. lm + gap = kb + b /\ gap + kkb < li /\ li <= gap + kkb + b
    BY <1>6, <1>12, <2>1
  <2>3. Kb = kb + b + kkb
    BY <1>13
  <2>4. lM = kb + b - gap + li /\ Kb < lM /\ lM <= Kb + b
    BY <1>0, <2>1, <2>2, <2>3
  <2>5. QED
    BY <2>1, <2>4
<1>15. Blocks(M, b) = K
  <2>1. M # <<>>
    BY <1>4, <1>13, <1>14
  <2>2. /\ M \in Seq(Words) /\ b \in Nat \ {0} /\ K \in Nat /\ Len(M) <= K * b + b
        /\ IF M = <<>> THEN K = 0 ELSE K * b < Len(M)
    BY <1>0, <1>4, <1>13, <1>14, <2>1
  <2>3. QED
    BY <2>2, BlocksAre
<1>16. /\ wb.s \in Hashers /\ Counted(wb.s, (kb + b) + kk * b) /\ Len(wb.s.chain) = Len(s2.chain) + kk
       /\ \A j \in 1..Len(s2.chain) : wb.s.chain[j] = s2.chain[j]
       /\ \A j \in 1..kk :
            wb.s.chain[Len(s2.chain) + j] =
              [block |-> SubSeq(in, (gap + 1) + (j - 1) * b, (gap + 1) + j * b - 1),
               count |-> (kb + b) + j * b, last |-> FALSE]
  BY <1>12 DEF Beyond
<1>17. u.buf = SubSeq(M, Kb + 1, Len(M)) /\ u.buf \in Seq(Words) /\ u.buf = SubSeq(in, wb.from, Len(in))
  <2>1. PICK x \in Nat \ {0}, y \in Nat : x = wb.from /\ y = Len(in) /\ y <= Len(in) /\ x <= y + 1
                                        /\ Len(m) + x = Kb + 1
    <3>1. PICK x \in Nat \ {0} : x = wb.from /\ x = gap + 1 + kkb
      BY <1>12
    <3>2. PICK lm \in Nat, y \in Nat : lm = Len(m) /\ y = Len(in)
      BY <1>0
    <3>3. lm + gap = kb + b /\ gap + kkb < y /\ x = gap + 1 + kkb
      BY <1>6, <1>12, <3>1, <3>2
    <3>4. Kb = kb + b + kkb
      BY <1>13
    <3>5. x <= y + 1 /\ lm + x = Kb + 1 /\ y <= y
      BY <1>0, <3>3, <3>4
    <3>6. QED
      BY <3>1, <3>2, <3>5
  <2>2. SubSeq(m \o in, Len(m) + x, Len(m) + y) = SubSeq(in, x, y)
    <3>1. m \in Seq(Words) /\ in \in Seq(Words) /\ y <= Len(in) /\ x <= y + 1
      BY <1>0, <2>1
    <3>2. QED
      BY <3>1, CutRight
  <2>3. SubSeq(in, x, y) \in Seq(Words)
    BY <1>0, <2>1, PieceTyped
  <2>4. u.buf = SubSeq(in, wb.from, Len(in))
    BY <1>11, <1>16 DEF Hashers
  <2>5. QED
    BY <1>4, <2>1, <2>2, <2>3, <2>4
<1>18. u \in Hashers /\ u.chain = wb.s.chain /\ Counted(u, K * b)
  <2>1. u \in Hashers /\ u.chain = wb.s.chain /\ u.t0 = wb.s.t0 /\ u.t1 = wb.s.t1
    BY <1>11, <1>16, <1>17 DEF Hashers
  <2>2. (kb + b) + kk * b = K * b
    BY <1>12, <1>13
  <2>3. Counted(wb.s, K * b)
    BY <1>16, <2>2
  <2>4. QED
    BY <2>1, <2>3 DEF Counted
<1>19. s.chain \in Seq(Compressed) /\ Len(s.chain) = k /\ \A i \in 1..k : s.chain[i] = FullBlock(m, b, i)
  BY <1>a, <1>0, <1>1, StreamTyped DEF HashedTo
<1>20. PICK top : top \in Compressed /\ top = [block |-> Top, count |-> kb + b, last |-> FALSE]
  <2>1. kb + b \in Nat
    BY <1>0
  <2>2. QED
    BY <1>7, <2>1 DEF Compressed
<1>21. /\ Len(s2.chain) = k + 1 /\ s2.chain[k + 1] = top
       /\ \A i \in 1..k : s2.chain[i] = s.chain[i]
  <2>1. s2.chain = Append(s.chain, top)
    BY <1>9, <1>20
  <2>2. /\ Len(s2.chain) = Len(s.chain) + 1 /\ s2.chain[Len(s.chain) + 1] = top
        /\ \A i \in 1..Len(s.chain) : s2.chain[i] = s.chain[i]
    BY <1>19, <1>20, <2>1, AppendProperties
  <2>3. QED
    BY <1>19, <2>2
<1>22. ASSUME NEW i \in 1..k PROVE u.chain[i] = FullBlock(M, b, i)
  <2>1. PICK lo \in Nat \ {0}, hi \in Nat : lo = (i - 1) * b + 1 /\ hi = i * b /\ hi <= Len(m) /\ lo <= hi + 1
    <3>1. PICK n \in Nat : n = Len(m) /\ k * b <= n
      BY <1>0, <1>2, <1>3
    <3>2. PICK lo \in Nat \ {0}, hi \in Nat :
            lo = (i - 1) * b + 1 /\ hi = i * b /\ hi = lo + b - 1 /\ hi <= n /\ lo <= hi + 1
      <4>1. b \in Nat \ {0} /\ k \in Nat /\ i \in 1..k /\ n \in Nat /\ k * b <= n
        BY <1>0, <3>1
      <4>2. QED
        BY <4>1, BlockEnds
    <3>3. QED
      BY <3>1, <3>2
  <2>2. SubSeq(m \o in, lo, hi) = SubSeq(m, lo, hi)
    BY <1>0, <2>1, CutLeft
  <2>3. FullBlock(M, b, i) = FullBlock(m, b, i)
    BY <1>4, <2>1, <2>2 DEF FullBlock
  <2>4. i \in 1..Len(s2.chain)
    BY <1>21
  <2>5. u.chain[i] = s.chain[i]
    BY <1>16, <1>18, <1>21, <2>4
  <2>6. QED
    BY <1>19, <2>3, <2>5
<1>23. u.chain[k + 1] = FullBlock(M, b, k + 1)
  <2>1. (k + 1) * b = kb + b /\ (k + 1) - 1 = k
    BY <1>0, <1>2
  <2>2. FullBlock(M, b, k + 1) = top
    BY <1>2, <1>7, <1>20, <2>1 DEF FullBlock
  <2>3. k + 1 \in 1..Len(s2.chain)
    BY <1>21
  <2>4. QED
    BY <1>16, <1>18, <1>21, <2>2, <2>3
<1>24. ASSUME NEW j \in 1..kk PROVE u.chain[(k + 1) + j] = FullBlock(M, b, (k + 1) + j)
  <2>1. PICK n \in Nat : n = Len(in) - gap /\ kk * b <= n /\ Len(in) = gap + n
    <3>1. Len(in) - gap \in Nat /\ kkb <= Len(in) - gap /\ Len(in) = gap + (Len(in) - gap)
      BY <1>0, <1>12
    <3>2. QED
      BY <1>12, <3>1
  <2>2. PICK lo \in Nat \ {0}, hi \in Nat :
          lo = (j - 1) * b + 1 /\ hi = j * b /\ hi = lo + b - 1 /\ hi <= n /\ lo <= hi + 1
    <3>1. b \in Nat \ {0} /\ kk \in Nat /\ j \in 1..kk /\ n \in Nat /\ kk * b <= n
      BY <1>0, <2>1
    <3>2. QED
      BY <3>1, BlockEnds
  <2>3. PICK x \in Nat \ {0}, y \in Nat : x = gap + lo /\ y = gap + hi
    OBVIOUS
  <2>4. x = (gap + 1) + (j - 1) * b /\ y = (gap + 1) + j * b - 1
    <3>1. x = (gap + 1) + (lo - 1) /\ y = (gap + 1) + hi - 1
      BY <2>3
    <3>2. lo - 1 = (j - 1) * b
      <4>1. PICK z \in Int : z = (j - 1) * b
        BY <1>0
      <4>2. lo = z + 1
        BY <2>2, <4>1
      <4>3. QED
        BY <4>1, <4>2
    <3>3. QED
      BY <2>2, <3>1, <3>2
  <2>5. y <= Len(in) /\ x <= y + 1
    BY <1>0, <2>1, <2>2, <2>3
  <2>6. SubSeq(M, Len(m) + x, Len(m) + y) = SubSeq(in, x, y)
    <3>1. /\ m \in Seq(Words) /\ in \in Seq(Words) /\ x \in Nat \ {0} /\ y \in Nat
          /\ y <= Len(in) /\ x <= y + 1
      BY <1>0, <2>5
    <3>2. SubSeq(m \o in, Len(m) + x, Len(m) + y) = SubSeq(in, x, y)
      BY <3>1, CutRight
    <3>3. QED
      BY <1>4, <3>2
  <2>7. Len(m) + y = (kb + b) + hi /\ Len(m) + x = (kb + b) + lo
    BY <1>0, <1>6, <2>3
  <2>8. ((k + 1) + j) * b = (kb + b) + hi
    <3>1. ((k + 1) + j) * b = k * b + b + j * b
      BY <1>0
    <3>2. QED
      BY <1>2, <2>2, <3>1
  <2>9. (((k + 1) + j) - 1) * b + 1 = (kb + b) + lo
    <3>1. (((k + 1) + j) - 1) * b = ((k + 1) + j) * b - b
      BY <1>0
    <3>2. QED
      BY <1>0, <2>2, <2>8, <3>1
  <2>10. FullBlock(M, b, (k + 1) + j) = [block |-> SubSeq(in, x, y), count |-> (kb + b) + hi, last |-> FALSE]
    BY <2>6, <2>7, <2>8, <2>9 DEF FullBlock
  <2>11. u.chain[(k + 1) + j] =
           [block |-> SubSeq(in, (gap + 1) + (j - 1) * b, (gap + 1) + j * b - 1),
            count |-> (kb + b) + j * b, last |-> FALSE]
    BY <1>16, <1>18, <1>21
  <2>12. QED
    BY <2>2, <2>4, <2>10, <2>11
<1>25. ASSUME NEW i \in 1..K PROVE u.chain[i] = FullBlock(M, b, i)
  <2>1. i \in 1..k \/ i = k + 1 \/ (i - (k + 1) \in 1..kk /\ i = (k + 1) + (i - (k + 1)))
    BY <1>13
  <2>2. CASE i - (k + 1) \in 1..kk /\ i = (k + 1) + (i - (k + 1))
    <3>1. PICK j \in 1..kk : i = (k + 1) + j
      BY <2>2
    <3>2. QED
      BY <1>24, <3>1
  <2>3. QED
    BY <1>22, <1>23, <2>1, <2>2
<1>26. HashedTo(u, M, b)
  <2>1. /\ M \in Seq(Words) /\ b \in Nat \ {0} /\ K = Blocks(M, b) /\ u \in Hashers /\ Counted(u, K * b)
        /\ u.buf = SubSeq(M, K * b + 1, Len(M)) /\ Len(u.chain) = K
    BY <1>0, <1>4, <1>13, <1>15, <1>16, <1>17, <1>18, <1>21
  <2>2. QED
    BY <1>25, <2>1, HashedByBlocks
<1>27. QED
  BY <1>4, <1>11, <1>26

(* However the bytes are cut into pieces, update() leaves what they         *)
(* determine.                                                               *)
LEMMA UpdateIs ==
  ASSUME NEW b \in 1..(CounterMod - 1), NEW m, NEW s, HashedTo(s, m, b), NEW in \in Seq(Words)
  PROVE  HashedTo(Update(s, in, b), m \o in, b)
<1>1. Len(s.buf) \in Nat /\ Len(in) \in Nat /\ b \in Int
  <2>1. s \in Hashers
    BY DEF HashedTo
  <2>2. s.buf \in Seq(Words)
    BY <2>1 DEF Hashers
  <2>3. QED
    BY <2>2, SizesAssumption
<1>2. Len(s.buf) + Len(in) <= b \/ Len(s.buf) + Len(in) > b
  BY <1>1
<1>3. QED
  BY <1>2, UpdateShort, UpdateLong

(* A new hasher has nothing.                                                *)
LEMMA NothingHashed == ASSUME NEW b \in Nat \ {0} PROVE HashedTo(BlakeInit, <<>>, b)
<1>1. <<>> \in Seq(Words) /\ <<>> \in Seq(Compressed)
  OBVIOUS
<1>2. Blocks(<<>>, b) = 0 /\ 0 * b = 0
  BY DEF Blocks
<1>3. BlakeInit \in Hashers /\ BlakeInit.chain = <<>> /\ BlakeInit.buf = <<>> /\ BlakeInit.t0 = 0 /\ BlakeInit.t1 = 0
  BY <1>1 DEF BlakeInit, Hashers
<1>4. CounterMod \in Nat \ {0} /\ 0 = CounterMod * 0 + 0 /\ 0 \in 0..(CounterMod - 1)
  BY SizesAssumption
<1>5. Counted(BlakeInit, 0)
  <2>1. 0 \div CounterMod = 0 /\ 0 % CounterMod = 0
    BY <1>4, DivUnique
  <2>2. QED
    BY <1>3, <2>1 DEF Counted
<1>6. StreamOf(<<>>, b) = <<>>
  <2>1. StreamOf(<<>>, b) \in Seq(Compressed) /\ Len(StreamOf(<<>>, b)) = 0
    BY <1>1, <1>2, StreamTyped
  <2>2. QED
    BY <2>1, EmptySeq
<1>7. SubSeq(<<>>, 0 * b + 1, Len(<<>>)) = <<>>
  <2>1. Len(<<>>) = 0 /\ 0 * b + 1 = 1
    OBVIOUS
  <2>2. SubSeq(<<>>, 1, 0) = <<>>
    BY SubSeqEmpty
  <2>3. QED
    BY <2>1, <2>2
<1>8. QED
  BY <1>1, <1>2, <1>3, <1>5, <1>6, <1>7 DEF HashedTo

(* final() compresses the rest as the last block, counted to the end.       *)
LEMMA FinalIs ==
  ASSUME NEW b, NEW m, NEW s
  PROVE  b \in 1..(CounterMod - 1) /\ HashedTo(s, m, b)
         => Final(s, b).chain =
              Append(StreamOf(m, b),
                     [block |-> SubSeq(m, Blocks(m, b) * b + 1, Len(m)), count |-> Len(m), last |-> TRUE])
<1>a. SUFFICES ASSUME b \in 1..(CounterMod - 1), HashedTo(s, m, b)
               PROVE  Final(s, b).chain =
                        Append(StreamOf(m, b),
                               [block |-> SubSeq(m, Blocks(m, b) * b + 1, Len(m)), count |-> Len(m), last |-> TRUE])
  OBVIOUS
<1>0. b \in Nat \ {0} /\ b <= CounterMod - 1 /\ m \in Seq(Words) /\ s \in Hashers /\ Len(m) \in Nat /\ CounterMod \in Nat
  BY <1>a, SizesAssumption DEF HashedTo
<1>1. PICK k \in Nat : k = Blocks(m, b)
  BY <1>0, BlocksBound
<1>2. PICK kb \in Nat : kb = k * b
  BY <1>0
<1>3. kb <= Len(m) /\ Len(m) - kb <= b
  BY <1>0, <1>1, <1>2, BlocksBound
<1>4. s.buf = SubSeq(m, kb + 1, Len(m)) /\ s.buf \in Seq(Words) /\ Len(s.buf) = Len(m) - kb
  <2>1. s.buf = SubSeq(m, kb + 1, Len(m))
    BY <1>a, <1>1, <1>2 DEF HashedTo
  <2>2. PICK lo \in Nat \ {0}, hi \in Nat : lo = kb + 1 /\ hi = Len(m) /\ lo <= hi + 1 /\ hi - lo + 1 = Len(m) - kb
    <3>1. kb + 1 \in Nat \ {0} /\ kb + 1 <= Len(m) + 1 /\ Len(m) - (kb + 1) + 1 = Len(m) - kb
      BY <1>0, <1>3
    <3>2. QED
      BY <1>0, <3>1
  <2>3. SubSeq(m, lo, hi) \in Seq(Words) /\ Len(SubSeq(m, lo, hi)) = hi - lo + 1
    BY <1>0, <2>2, CutIndex
  <2>4. QED
    BY <2>1, <2>2, <2>3
<1>5. PICK inc \in 0..(CounterMod - 1) : inc = Len(s.buf) /\ kb + inc = Len(m)
  <2>1. Len(m) - kb \in 0..(CounterMod - 1) /\ kb + (Len(m) - kb) = Len(m)
    BY <1>0, <1>3
  <2>2. QED
    BY <1>4, <2>1
<1>6. PICK q, yes : q = s.buf /\ yes \in BOOLEAN /\ yes = TRUE
  OBVIOUS
<1>y. PICK y : y = Compress(IncrementCounter(s, inc), q, yes)
  OBVIOUS
<1>7. /\ s \in Hashers /\ kb \in Nat /\ Counted(s, kb) /\ inc \in 0..(CounterMod - 1)
      /\ q \in Seq(Words) /\ yes \in BOOLEAN
  BY <1>a, <1>0, <1>1, <1>2, <1>4, <1>6 DEF HashedTo
<1>8. y.chain = Append(s.chain, [block |-> q, count |-> kb + inc, last |-> yes])
  BY <1>y, <1>7, BlockDone
<1>9. Final(s, b) = y
  BY <1>5, <1>6, <1>y DEF Final
<1>10. s.chain = StreamOf(m, b)
  BY <1>a DEF HashedTo
<1>11. QED
  BY <1>1, <1>2, <1>4, <1>5, <1>6, <1>8, <1>9, <1>10

-----------------------------------------------------------------------------
(* What FlattenSeq does with the first of the sequences.                    *)
LEMMA FlattenJoins ==
  ASSUME NEW T, NEW ss \in Seq(Seq(T)), NEW n \in Nat, n = Len(ss), n > 0
  PROVE  \E f : Joins(f, ss, n) /\ FlattenSeq(ss) = f[n]
<1> DEFINE P(g) == g = [i \in 1..Len(ss) |-> IF i = 1 THEN ss[i] ELSE g[i - 1] \o ss[i]]
<1>1. \E g : P(g)
  BY JoinExists DEF Joins
<1>2. FlattenSeq(ss) = (CHOOSE g : P(g))[Len(ss)]
  BY DEF FlattenSeq
<1>3. P(CHOOSE g : P(g))
  <2> HIDE DEF P
  <2>1. QED
    BY <1>1
<1>4. QED
  BY <1>2, <1>3 DEF Joins

(* Putting sequences one after the other is associative.                    *)
LEMMA JoinTwice ==
  \A T : \A p, q, z \in Seq(T) : (p \o q) \o z = p \o (q \o z) /\ q \o z \in Seq(T)
<1> SUFFICES ASSUME NEW T, NEW p \in Seq(T), NEW q \in Seq(T), NEW z \in Seq(T)
             PROVE  (p \o q) \o z = p \o (q \o z) /\ q \o z \in Seq(T)
  OBVIOUS
<1>1. (p \o q) \o z = p \o (q \o z)
  BY ConcatAssociative
<1>2. QED
  BY <1>1

(* Joining from the second on, and putting the first in front.              *)
LEMMA JoinHead ==
  \A T, ss, f, g :
    /\ ss \in Seq(Seq(T)) /\ Len(ss) > 1 /\ Joins(f, ss, Len(ss)) /\ Joins(g, Tail(ss), Len(ss) - 1)
    => g[Len(ss) - 1] \in Seq(T) /\ f[Len(ss)] = ss[1] \o g[Len(ss) - 1]
<1> SUFFICES ASSUME NEW T, NEW ss, NEW f, NEW g
             PROVE  /\ ss \in Seq(Seq(T)) /\ Len(ss) > 1
                    /\ Joins(f, ss, Len(ss)) /\ Joins(g, Tail(ss), Len(ss) - 1)
                    => g[Len(ss) - 1] \in Seq(T) /\ f[Len(ss)] = ss[1] \o g[Len(ss) - 1]
  OBVIOUS
<1>b. SUFFICES ASSUME ss \in Seq(Seq(T)), Len(ss) > 1, Joins(f, ss, Len(ss)), Joins(g, Tail(ss), Len(ss) - 1)
               PROVE  g[Len(ss) - 1] \in Seq(T) /\ f[Len(ss)] = ss[1] \o g[Len(ss) - 1]
  OBVIOUS
<1>m. PICK n : n \in Nat /\ n = Len(ss)
  BY <1>b
<1>a. ss \in Seq(Seq(T)) /\ n \in Nat /\ n = Len(ss) /\ n > 1 /\ Joins(f, ss, n) /\ Joins(g, Tail(ss), n - 1)
  BY <1>b, <1>m
<1>n. n \in Nat /\ n > 1
  BY <1>a
<1> DEFINE Good(i) == g[i] \in Seq(T) /\ f[i + 1] = ss[1] \o g[i]
           Bad == {i \in 1..(n - 1) : ~Good(i)}
<1>1. \A i \in 1..n : ss[i] \in Seq(T)
  BY <1>a
<1>2. \A i \in 1..(n - 1) : Tail(ss)[i] = ss[i + 1]
  BY <1>a
<1>3. /\ \A i \in 1..n : f[i] = IF i = 1 THEN ss[i] ELSE f[i - 1] \o ss[i]
      /\ \A i \in 1..(n - 1) : g[i] = IF i = 1 THEN Tail(ss)[i] ELSE g[i - 1] \o Tail(ss)[i]
  BY <1>a DEF Joins
<1>4. Good(1)
  <2>1. 1 \in 1..n /\ 2 \in 1..n /\ 1 \in 1..(n - 1) /\ 2 - 1 = 1 /\ 1 + 1 = 2
    BY <1>n
  <2>2. f[1] = ss[1] /\ f[2] = f[1] \o ss[2]
    <3>1. f[2] = IF 2 = 1 THEN ss[2] ELSE f[2 - 1] \o ss[2]
      BY <1>3, <2>1, Zenon
    <3>2. f[1] = IF 1 = 1 THEN ss[1] ELSE f[1 - 1] \o ss[1]
      BY <1>3, <2>1, Zenon
    <3>3. 2 # 1
      OBVIOUS
    <3>4. QED
      BY <2>1, <3>1, <3>2, <3>3, Zenon
  <2>3. g[1] = ss[2]
    BY <1>2, <1>3, <2>1
  <2>4. ss[2] \in Seq(T)
    BY <1>1, <2>1
  <2>5. QED
    BY <2>1, <2>2, <2>3, <2>4
<1>5. ASSUME NEW i \in 1..(n - 1), i + 1 \in 1..(n - 1), Good(i) PROVE Good(i + 1)
  <2>1. PICK a, b, c : a \in Seq(T) /\ b \in Seq(T) /\ c \in Seq(T) /\ a = ss[1] /\ b = g[i] /\ c = ss[(i + 1) + 1]
    <3>1. (i + 1) + 1 \in 1..n /\ 1 \in 1..n
      BY <1>n, <1>5
    <3>2. QED
      BY <1>1, <1>5, <3>1
  <2>2. i + 1 # 1 /\ (i + 1) - 1 = i
    BY <1>n
  <2>3. g[i + 1] = b \o c
    BY <1>2, <1>3, <1>5, <2>1, <2>2
  <2>4. f[(i + 1) + 1] = f[i + 1] \o c
    <3>1. (i + 1) + 1 \in 1..n /\ (i + 1) + 1 # 1 /\ ((i + 1) + 1) - 1 = i + 1
      BY <1>n, <1>5
    <3>2. QED
      BY <1>3, <2>1, <3>1
  <2>5. (a \o b) \o c = a \o (b \o c) /\ b \o c \in Seq(T)
    <3>1. a \in Seq(T) /\ b \in Seq(T) /\ c \in Seq(T)
      BY <2>1
    <3>2. QED
      BY <3>1, JoinTwice, Zenon
  <2>6. f[i + 1] = a \o b
    BY <1>5, <2>1
  <2>7. QED
    BY <2>1, <2>3, <2>4, <2>5, <2>6
<1>6. Bad = {}
  <2> HIDE DEF Good
  <2>1. SUFFICES ASSUME Bad # {} PROVE FALSE
    OBVIOUS
  <2>2. PICK i \in Bad : \A m \in Bad : i <= m
    <3>1. Bad \subseteq Nat
      BY <1>n
    <3>2. QED
      BY <2>1, <3>1, SmallestNat
  <2>3. i # 1 /\ i \in 1..(n - 1) /\ ~Good(i)
    BY <1>4, <2>2
  <2>4. i - 1 \in 1..(n - 1) /\ (i - 1) + 1 = i /\ Good(i - 1)
    BY <1>n, <2>2, <2>3
  <2>5. QED
    BY <1>5, <2>3, <2>4
<1>7. Good(n - 1)
  <2> HIDE DEF Good
  <2>1. n - 1 \in 1..(n - 1)
    BY <1>n
  <2>2. QED
    BY <1>6, <2>1
<1>8. (n - 1) + 1 = n
  BY <1>n
<1>9. QED
  BY <1>m, <1>7, <1>8

(* Flattening takes the first sequence off.                                 *)
LEMMA FlattenHead ==
  ASSUME NEW T, NEW ss \in Seq(Seq(T)), ss # <<>>
  PROVE  /\ FlattenSeq(ss) = Head(ss) \o FlattenSeq(Tail(ss))
         /\ Head(ss) \in Seq(T) /\ FlattenSeq(Tail(ss)) \in Seq(T)
<1>1. PICK n \in Nat : n = Len(ss) /\ n > 0
  BY EmptySeq
<1>2. Head(ss) = ss[1] /\ Head(ss) \in Seq(T) /\ Tail(ss) \in Seq(Seq(T)) /\ Len(Tail(ss)) = n - 1
  BY <1>1
<1>3. PICK f : Joins(f, ss, n) /\ FlattenSeq(ss) = f[n]
  BY <1>1, FlattenJoins
<1>4. CASE n = 1
  <2>1. Tail(ss) = <<>>
    <3>1. Len(Tail(ss)) = 0
      BY <1>2, <1>4
    <3>2. Tail(ss) # <<>> => Len(Tail(ss)) \in Nat \ {0}
      BY <1>2, EmptySeq
    <3>3. QED
      BY <3>1, <3>2
  <2>2. FlattenSeq(<<>>) = <<>>
    BY DEF FlattenSeq
  <2>3. f[1] = ss[1]
    BY <1>3, <1>4 DEF Joins
  <2>4. Head(ss) \o <<>> = Head(ss) /\ <<>> \in Seq(T)
    BY <1>2, ConcatEmptySeq
  <2>5. QED
    BY <1>2, <1>3, <1>4, <2>1, <2>2, <2>3, <2>4
<1>5. CASE n # 1
  <2>1. n - 1 \in Nat /\ n - 1 > 0 /\ n > 1
    BY <1>1, <1>5
  <2>2. PICK g : Joins(g, Tail(ss), n - 1) /\ FlattenSeq(Tail(ss)) = g[n - 1]
    BY <1>2, <2>1, FlattenJoins
  <2>3. g[n - 1] \in Seq(T) /\ f[n] = ss[1] \o g[n - 1]
    <3>1. ss \in Seq(Seq(T)) /\ Len(ss) > 1 /\ Joins(f, ss, Len(ss)) /\ Joins(g, Tail(ss), Len(ss) - 1)
      BY <1>1, <1>3, <2>1, <2>2
    <3>2. g[Len(ss) - 1] \in Seq(T) /\ f[Len(ss)] = ss[1] \o g[Len(ss) - 1]
      BY <3>1, JoinHead, Zenon
    <3>3. QED
      BY <1>1, <3>2
  <2>4. QED
    BY <1>2, <1>3, <2>2, <2>3
<1>6. QED
  BY <1>4, <1>5

(* The flattening of what is left of ss from i on, one sequence at a time.  *)
LEMMA FlattenFrom ==
  \A T, ss, i :
    ss \in Seq(Seq(T)) /\ i \in 1..Len(ss)
    => /\ FlattenSeq(SubSeq(ss, i, Len(ss))) = ss[i] \o FlattenSeq(SubSeq(ss, i + 1, Len(ss)))
       /\ ss[i] \in Seq(T) /\ FlattenSeq(SubSeq(ss, i + 1, Len(ss))) \in Seq(T)
       /\ Head(SubSeq(ss, i, Len(ss))) = ss[i] /\ Tail(SubSeq(ss, i, Len(ss))) = SubSeq(ss, i + 1, Len(ss))
       /\ SubSeq(ss, i, Len(ss)) # <<>> /\ SubSeq(ss, i, Len(ss)) \in Seq(Seq(T))
<1> SUFFICES ASSUME NEW T, NEW ss, NEW i
             PROVE  ss \in Seq(Seq(T)) /\ i \in 1..Len(ss)
                    => /\ FlattenSeq(SubSeq(ss, i, Len(ss))) = ss[i] \o FlattenSeq(SubSeq(ss, i + 1, Len(ss)))
                       /\ ss[i] \in Seq(T) /\ FlattenSeq(SubSeq(ss, i + 1, Len(ss))) \in Seq(T)
                       /\ Head(SubSeq(ss, i, Len(ss))) = ss[i]
                       /\ Tail(SubSeq(ss, i, Len(ss))) = SubSeq(ss, i + 1, Len(ss))
                       /\ SubSeq(ss, i, Len(ss)) # <<>> /\ SubSeq(ss, i, Len(ss)) \in Seq(Seq(T))
  BY Zenon
<1>a. SUFFICES ASSUME ss \in Seq(Seq(T)), i \in 1..Len(ss)
               PROVE  /\ FlattenSeq(SubSeq(ss, i, Len(ss))) = ss[i] \o FlattenSeq(SubSeq(ss, i + 1, Len(ss)))
                      /\ ss[i] \in Seq(T) /\ FlattenSeq(SubSeq(ss, i + 1, Len(ss))) \in Seq(T)
                      /\ Head(SubSeq(ss, i, Len(ss))) = ss[i]
                      /\ Tail(SubSeq(ss, i, Len(ss))) = SubSeq(ss, i + 1, Len(ss))
                      /\ SubSeq(ss, i, Len(ss)) # <<>> /\ SubSeq(ss, i, Len(ss)) \in Seq(Seq(T))
  OBVIOUS
<1>1. PICK n \in Nat : n = Len(ss)
  BY <1>a
<1>2. PICK j \in Nat \ {0} : j = i /\ j <= n /\ j + 1 \in Nat \ {0}
  BY <1>a, <1>1
<1>3. PICK R, U : R = SubSeq(ss, j, n) /\ U = SubSeq(ss, j + 1, n)
  OBVIOUS
<1>4. /\ R \in Seq(Seq(T)) /\ Len(R) = n - j + 1
      /\ \A x \in 1..(n - j + 1) : R[x] = ss[j + x - 1]
  <2>1. ss \in Seq(Seq(T)) /\ n <= Len(ss) /\ j <= n + 1
    BY <1>a, <1>1, <1>2
  <2>2. QED
    BY <1>3, <2>1, CutIndex
<1>5. /\ U \in Seq(Seq(T)) /\ Len(U) = n - j
      /\ \A x \in 1..(n - j) : U[x] = ss[j + x]
  <2>1. PICK q \in Nat \ {0} : q = j + 1 /\ q <= n + 1 /\ n - q + 1 = n - j
    BY <1>2
  <2>2. ss \in Seq(Seq(T)) /\ n <= Len(ss)
    BY <1>a, <1>1
  <2>3. /\ SubSeq(ss, q, n) \in Seq(Seq(T)) /\ Len(SubSeq(ss, q, n)) = n - q + 1
        /\ \A x \in 1..(n - q + 1) : SubSeq(ss, q, n)[x] = ss[q + x - 1]
    BY <2>1, <2>2, CutIndex
  <2>4. \A x \in 1..(n - j) : q + x - 1 = j + x
    BY <2>1
  <2>5. U = SubSeq(ss, q, n)
    BY <1>3, <2>1
  <2>6. QED
    BY <2>1, <2>3, <2>4, <2>5
<1>6. R # <<>> /\ Head(R) = ss[j]
  <2>1. 1 \in 1..(n - j + 1) /\ j + 1 - 1 = j /\ Len(R) # 0
    BY <1>2, <1>4
  <2>2. R[1] = ss[j]
    BY <1>4, <2>1
  <2>3. R # <<>>
    BY <2>1
  <2>4. QED
    BY <2>2, <2>3
<1>7. Tail(R) = U
  <2>1. /\ Tail(R) \in Seq(Seq(T)) /\ Len(Tail(R)) = n - j
        /\ \A x \in 1..(n - j) : Tail(R)[x] = R[x + 1]
    <3>1. /\ Tail(R) \in Seq(Seq(T)) /\ Len(Tail(R)) = Len(R) - 1
          /\ \A x \in 1..(Len(R) - 1) : Tail(R)[x] = R[x + 1]
      BY <1>4, <1>6, HeadTailProperties
    <3>2. Len(R) - 1 = n - j
      BY <1>2, <1>4
    <3>3. QED
      BY <3>1, <3>2
  <2>2. \A x \in 1..(n - j) : x + 1 \in 1..(n - j + 1) /\ j + (x + 1) - 1 = j + x
    BY <1>2
  <2>3. \A x \in 1..(n - j) : Tail(R)[x] = U[x]
    BY <1>4, <1>5, <2>1, <2>2
  <2>4. QED
    BY <1>5, <2>1, <2>3, SeqEqual
<1>8. /\ FlattenSeq(R) = Head(R) \o FlattenSeq(Tail(R))
      /\ Head(R) \in Seq(T) /\ FlattenSeq(Tail(R)) \in Seq(T)
  BY <1>4, <1>6, FlattenHead
<1>9. R = SubSeq(ss, i, Len(ss)) /\ U = SubSeq(ss, i + 1, Len(ss)) /\ ss[j] = ss[i]
  BY <1>1, <1>2, <1>3
<1>10. QED
  BY <1>4, <1>6, <1>7, <1>8, <1>9

(* Nothing left.                                                            *)
LEMMA FlattenEnd ==
  \A ss, n : n \in Nat => FlattenSeq(SubSeq(ss, n + 1, n)) = <<>>
<1>1. ASSUME NEW ss, NEW n \in Nat PROVE FlattenSeq(SubSeq(ss, n + 1, n)) = <<>>
  <2>1. PICK x \in Int : x = n + 1 /\ n < x /\ n \in Int
    OBVIOUS
  <2>2. SubSeq(ss, x, n) = <<>>
    BY <2>1, SubSeqEmpty
  <2>3. FlattenSeq(<<>>) = <<>>
    BY DEF FlattenSeq
  <2>4. QED
    BY <2>1, <2>2, <2>3
<1>2. QED
  BY <1>1

(* The rest of the message after the parameters, in every implementation.   *)
Body(p) == Bytes("key", p.key) \o (<<U32(p.salt)>> \o (Bytes("salt", p.salt) \o <<U32(0), U32(0)>>))

Jobs == [impl : Impls, block : BlockSizes, key : KeyLengths, salt : SaltLengths, long : LongLengths]

(* A key or a salt is bytes.                                                *)
LEMMA BytesTyped ==
  ASSUME NEW name \in Names, NEW n \in Nat PROVE Bytes(name, n) \in Seq(Words)
<1>1. \A i \in 1..n : <<name, i>> \in Words
  BY DEF Words
<1>2. Bytes(name, n) \in [1..n -> Words]
  BY <1>1 DEF Bytes
<1>3. QED
  BY <1>2

(* The parts of a job's message are bytes.                                  *)
LEMMA MessageParts ==
  ASSUME NEW p \in Jobs
  PROVE  /\ CpuHeader(p) \in Seq(Words) /\ Len(CpuHeader(p)) = 7 /\ GpuHeader(p) = CpuHeader(p)
         /\ Bytes("key", p.key) \in Seq(Words) /\ Bytes("salt", p.salt) \in Seq(Words)
         /\ <<U32(p.salt)>> \in Seq(Words) /\ <<U32(0)>> \in Seq(Words) /\ <<U32(0), U32(0)>> \in Seq(Words)
         /\ p.impl \in Impls /\ Body(p) \in Seq(Words)
<1>1. p.key \in Nat /\ p.salt \in Nat /\ p.impl \in Impls
  BY SizesAssumption DEF Jobs
<1>2. \A x \in Nat : U32(x) \in Words
  BY DEF U32, Words, Names
<1>3. /\ Param("lanes") \in Words /\ Param("outLen") \in Words /\ Param("m_cost") \in Words
      /\ Param("t_cost") \in Words /\ Param("version") \in Words /\ Param("type") \in Words
  BY DEF Param, Words, Names
<1>4. U32(p.key) \in Words /\ U32(p.salt) \in Words /\ U32(0) \in Words
  BY <1>1, <1>2
<1>5. CpuHeader(p) \in Seq(Words) /\ Len(CpuHeader(p)) = 7
  BY <1>3, <1>4 DEF CpuHeader
<1>6. GpuHeader(p) = CpuHeader(p)
  BY DEF CpuHeader, GpuHeader
<1>7. "key" \in Names /\ "salt" \in Names
  BY DEF Names
<1>8. Bytes("key", p.key) \in Seq(Words) /\ Bytes("salt", p.salt) \in Seq(Words)
  BY <1>1, <1>7, BytesTyped
<1>9. <<U32(p.salt)>> \in Seq(Words) /\ <<U32(0)>> \in Seq(Words) /\ <<U32(0), U32(0)>> \in Seq(Words)
  BY <1>4
<1>10. Body(p) \in Seq(Words)
  <2>1. PICK a, b, c, d : /\ a = Bytes("key", p.key) /\ b = <<U32(p.salt)>> /\ c = Bytes("salt", p.salt)
                          /\ d = <<U32(0), U32(0)>>
    OBVIOUS
  <2>2. a \in Seq(Words) /\ b \in Seq(Words) /\ c \in Seq(Words) /\ d \in Seq(Words)
    BY <1>8, <1>9, <2>1
  <2>3. c \o d \in Seq(Words)
    BY <2>2
  <2>4. b \o (c \o d) \in Seq(Words)
    BY <2>2, <2>3
  <2>5. a \o (b \o (c \o d)) \in Seq(Words)
    BY <2>2, <2>4
  <2>6. QED
    BY <2>1, <2>5 DEF Body
<1>11. QED
  BY <1>1, <1>5, <1>6, <1>8, <1>9, <1>10

(* What initialHash hashes with neither secret nor data.                    *)
LEMMA CpuMessage ==
  ASSUME NEW p \in Jobs
  PROVE  /\ CpuPieces(p) \in Seq(Seq(Words)) /\ Len(CpuPieces(p)) = 5
         /\ FlattenSeq(CpuPieces(p)) = CpuHeader(p) \o Body(p)
<1>1. PICK a, b, c, d, e : /\ a = CpuHeader(p) /\ b = Bytes("key", p.key) /\ c = <<U32(p.salt)>>
                           /\ d = Bytes("salt", p.salt) /\ e = <<U32(0), U32(0)>>
  OBVIOUS
<1>2. a \in Seq(Words) /\ b \in Seq(Words) /\ c \in Seq(Words) /\ d \in Seq(Words) /\ e \in Seq(Words)
  BY <1>1, MessageParts
<1>3. PICK P : P = <<a, b, c, d, e>> /\ P = CpuPieces(p)
  BY <1>1 DEF CpuPieces
<1>4. /\ P \in Seq(Seq(Words)) /\ Len(P) = 5
      /\ P[1] = a /\ P[2] = b /\ P[3] = c /\ P[4] = d /\ P[5] = e
  BY <1>2, <1>3
<1> DEFINE F(i) == FlattenSeq(SubSeq(P, i, 5))
<1>5. \A i \in 1..5 : F(i) = P[i] \o F(i + 1) /\ F(i + 1) \in Seq(Words)
  BY <1>4, FlattenFrom
<1>6. F(6) = <<>>
  BY FlattenEnd
<1>7. F(1) = P[1] \o F(2) /\ F(2) = P[2] \o F(3) /\ F(3) = P[3] \o F(4) /\ F(4) = P[4] \o F(5) /\ F(5) = P[5] \o F(6)
  <2> HIDE DEF F
  <2>1. \A i \in 1..5 : F(i) = P[i] \o F(i + 1)
    BY <1>5
  <2>0. 1 \in 1..5 /\ 2 \in 1..5 /\ 3 \in 1..5 /\ 4 \in 1..5 /\ 5 \in 1..5
    OBVIOUS
  <2>2. F(1) = P[1] \o F(1 + 1) /\ F(2) = P[2] \o F(2 + 1) /\ F(3) = P[3] \o F(3 + 1)
        /\ F(4) = P[4] \o F(4 + 1) /\ F(5) = P[5] \o F(5 + 1)
    BY <2>0, <2>1, Zenon
  <2>3. 1 + 1 = 2 /\ 2 + 1 = 3 /\ 3 + 1 = 4 /\ 4 + 1 = 5 /\ 5 + 1 = 6
    OBVIOUS
  <2>4. QED
    BY <2>2, <2>3
<1>8. SubSeq(P, 1, 5) = P
  BY <1>4
<1>9. e \o <<>> = e
  BY <1>2, ConcatEmptySeq
<1>10. FlattenSeq(P) = a \o (b \o (c \o (d \o e)))
  <2>1. FlattenSeq(P) = F(1)
    BY <1>8
  <2> HIDE DEF F
  <2>2. F(5) = e
    BY <1>4, <1>6, <1>7, <1>9
  <2>3. QED
    BY <1>4, <1>7, <2>1, <2>2
<1>11. QED
  BY <1>1, <1>3, <1>4, <1>10 DEF Body

(* The two zero lengths, in one piece or in two.                            *)
LEMMA TwoWords == \A z \in Words : <<z>> \o <<z>> = <<z, z>>
<1>1. ASSUME NEW z \in Words PROVE <<z>> \o <<z>> = <<z, z>>
  <2>1. PICK a, c : a = <<z>> /\ c = <<z, z>>
    OBVIOUS
  <2>2. a \in Seq(Words) /\ Len(a) = 1 /\ a[1] = z /\ c \in Seq(Words) /\ Len(c) = 2 /\ c[1] = z /\ c[2] = z
    BY <2>1
  <2>3. /\ a \o a \in Seq(Words) /\ Len(a \o a) = Len(a) + Len(a)
        /\ \A i \in 1..(Len(a) + Len(a)) : (a \o a)[i] = IF i <= Len(a) THEN a[i] ELSE a[i - Len(a)]
    BY <2>2, ConcatProperties
  <2>4. Len(a \o a) = 2 /\ (a \o a)[1] = z /\ (a \o a)[2] = z
    BY <2>2, <2>3
  <2>5. \A i \in 1..2 : i = 1 \/ i = 2
    OBVIOUS
  <2>6. \A i \in 1..2 : (a \o a)[i] = c[i]
    BY <2>2, <2>4, <2>5
  <2>7. a \o a = c
    BY <2>2, <2>3, <2>4, <2>6, SeqEqual
  <2>8. QED
    BY <2>1, <2>7
<1>2. QED
  BY <1>1

(* What device_initial_hash hashes.                                         *)
LEMMA GpuMessage ==
  ASSUME NEW p \in Jobs
  PROVE  /\ GpuPieces(p) \in Seq(Seq(Words)) /\ Len(GpuPieces(p)) = 6
         /\ FlattenSeq(GpuPieces(p)) = CpuHeader(p) \o Body(p)
<1>1. PICK a, b, c, d, e : /\ a = CpuHeader(p) /\ b = Bytes("key", p.key) /\ c = <<U32(p.salt)>>
                           /\ d = Bytes("salt", p.salt) /\ e = <<U32(0)>>
  OBVIOUS
<1>2. a \in Seq(Words) /\ b \in Seq(Words) /\ c \in Seq(Words) /\ d \in Seq(Words) /\ e \in Seq(Words)
  BY <1>1, MessageParts
<1>3. PICK P : P = <<a, b, c, d, e, e>> /\ P = GpuPieces(p)
  <2>1. GpuHeader(p) = a
    BY <1>1, MessageParts
  <2>2. QED
    BY <1>1, <2>1 DEF GpuPieces
<1>4. /\ P \in Seq(Seq(Words)) /\ Len(P) = 6
      /\ P[1] = a /\ P[2] = b /\ P[3] = c /\ P[4] = d /\ P[5] = e /\ P[6] = e
  BY <1>2, <1>3
<1> DEFINE F(i) == FlattenSeq(SubSeq(P, i, 6))
<1>5. \A i \in 1..6 : F(i) = P[i] \o F(i + 1) /\ F(i + 1) \in Seq(Words)
  BY <1>4, FlattenFrom
<1>6. F(7) = <<>>
  BY FlattenEnd
<1>7. /\ F(1) = P[1] \o F(2) /\ F(2) = P[2] \o F(3) /\ F(3) = P[3] \o F(4) /\ F(4) = P[4] \o F(5)
      /\ F(5) = P[5] \o F(6) /\ F(6) = P[6] \o F(7)
  <2> HIDE DEF F
  <2>1. 1 \in 1..6 /\ 2 \in 1..6 /\ 3 \in 1..6 /\ 4 \in 1..6 /\ 5 \in 1..6 /\ 6 \in 1..6
    OBVIOUS
  <2>2. /\ F(1) = P[1] \o F(1 + 1) /\ F(2) = P[2] \o F(2 + 1) /\ F(3) = P[3] \o F(3 + 1)
        /\ F(4) = P[4] \o F(4 + 1) /\ F(5) = P[5] \o F(5 + 1) /\ F(6) = P[6] \o F(6 + 1)
    BY <1>5, <2>1, Zenon
  <2>3. 1 + 1 = 2 /\ 2 + 1 = 3 /\ 3 + 1 = 4 /\ 4 + 1 = 5 /\ 5 + 1 = 6 /\ 6 + 1 = 7
    OBVIOUS
  <2>4. QED
    BY <2>2, <2>3
<1>8. SubSeq(P, 1, 6) = P
  BY <1>4
<1>9. e \o <<>> = e
  BY <1>2, ConcatEmptySeq
<1>10. e \o e = <<U32(0), U32(0)>>
  <2>1. U32(0) \in Words
    BY DEF U32, Words, Names
  <2>2. QED
    BY <1>1, <2>1, TwoWords
<1>11. FlattenSeq(P) = a \o (b \o (c \o (d \o (e \o e))))
  <2>1. FlattenSeq(P) = F(1)
    BY <1>8
  <2> HIDE DEF F
  <2>2. F(6) = e
    BY <1>4, <1>6, <1>7, <1>9
  <2>3. QED
    BY <1>4, <1>7, <2>1, <2>2
<1>12. QED
  BY <1>1, <1>3, <1>4, <1>10, <1>11 DEF Body

(* One word of the header before the rest of it.                            *)
LEMMA HeaderWord ==
  \A H, B, i :
    H \in Seq(Words) /\ B \in Seq(Words) /\ i \in 1..Len(H)
    => <<H[i]>> \o (SubSeq(H, i + 1, Len(H)) \o B) = SubSeq(H, i, Len(H)) \o B
<1> SUFFICES ASSUME NEW H, NEW B, NEW i
             PROVE  H \in Seq(Words) /\ B \in Seq(Words) /\ i \in 1..Len(H)
                    => <<H[i]>> \o (SubSeq(H, i + 1, Len(H)) \o B) = SubSeq(H, i, Len(H)) \o B
  OBVIOUS
<1>a. SUFFICES ASSUME H \in Seq(Words), B \in Seq(Words), i \in 1..Len(H)
               PROVE  <<H[i]>> \o (SubSeq(H, i + 1, Len(H)) \o B) = SubSeq(H, i, Len(H)) \o B
  OBVIOUS
<1>1. PICK n \in Nat : n = Len(H)
  BY <1>a
<1>2. PICK j \in Nat \ {0}, k \in Nat \ {0} : j = i /\ j <= n /\ k = j + 1 /\ k = i + 1
  BY <1>a, <1>1
<1>3. PICK R, U, x : R = SubSeq(H, j, n) /\ U = SubSeq(H, k, n) /\ x = <<H[j]>>
  OBVIOUS
<1>4. R \in Seq(Words) /\ Len(R) = n - j + 1 /\ \A y \in 1..(n - j + 1) : R[y] = H[j + y - 1]
  <2>1. H \in Seq(Words) /\ n <= Len(H) /\ j <= n + 1
    BY <1>a, <1>1, <1>2
  <2>2. QED
    BY <1>3, <2>1, CutIndex
<1>5. U \in Seq(Words) /\ Len(U) = n - j /\ \A y \in 1..(n - j) : U[y] = H[j + y]
  <2>1. H \in Seq(Words) /\ n <= Len(H) /\ k <= n + 1
    BY <1>a, <1>1, <1>2
  <2>2. /\ SubSeq(H, k, n) \in Seq(Words) /\ Len(SubSeq(H, k, n)) = n - k + 1
        /\ \A y \in 1..(n - k + 1) : SubSeq(H, k, n)[y] = H[k + y - 1]
    BY <2>1, CutIndex
  <2>3. n - k + 1 = n - j /\ \A y \in 1..(n - j) : k + y - 1 = j + y
    BY <1>2
  <2>4. QED
    BY <1>3, <2>2, <2>3
<1>6. x \in Seq(Words) /\ Len(x) = 1 /\ x[1] = H[j]
  <2>1. H[j] \in Words
    BY <1>a, <1>1, <1>2
  <2>2. QED
    BY <1>3, <2>1
<1>7. x \o U = R
  <2>1. /\ x \o U \in Seq(Words) /\ Len(x \o U) = Len(x) + Len(U)
        /\ \A y \in 1..(Len(x) + Len(U)) : (x \o U)[y] = IF y <= Len(x) THEN x[y] ELSE U[y - Len(x)]
    BY <1>5, <1>6, ConcatProperties
  <2>2. Len(x) + Len(U) = n - j + 1
    BY <1>2, <1>5, <1>6
  <2>3. ASSUME NEW y \in 1..(n - j + 1) PROVE (x \o U)[y] = R[y]
    <3>1. CASE y = 1
      <4>1. j + 1 - 1 = j /\ 1 \in 1..(n - j + 1) /\ 1 <= Len(x)
        BY <1>2, <1>6
      <4>2. R[1] = H[j]
        BY <1>4, <4>1
      <4>3. (x \o U)[1] = x[1]
        BY <2>1, <2>2, <4>1
      <4>4. QED
        BY <1>6, <3>1, <4>2, <4>3
    <3>2. CASE y # 1
      <4>1. y - 1 \in 1..(n - j) /\ ~(y <= 1) /\ j + (y - 1) = j + y - 1
        BY <1>2, <3>2
      <4>2. (x \o U)[y] = U[y - 1]
        BY <1>6, <2>1, <2>2, <4>1
      <4>3. U[y - 1] = H[j + y - 1]
        BY <1>5, <4>1
      <4>4. QED
        BY <1>4, <4>2, <4>3
    <3>3. QED
      BY <3>1, <3>2
  <2>4. QED
    BY <1>4, <2>1, <2>2, <2>3, SeqEqual
<1>8. (x \o U) \o B = x \o (U \o B) /\ U \o B \in Seq(Words)
  <2>1. x \in Seq(Words) /\ U \in Seq(Words) /\ B \in Seq(Words)
    BY <1>a, <1>5, <1>6
  <2>2. QED
    BY <2>1, JoinTwice, Zenon
<1>9. R = SubSeq(H, i, Len(H)) /\ U = SubSeq(H, i + 1, Len(H)) /\ x = <<H[i]>>
  BY <1>1, <1>2, <1>3
<1>10. QED
  BY <1>7, <1>8, <1>9

(* What the general form of initialHash hashes, a word at a time.           *)
LEMMA GeneralMessage ==
  ASSUME NEW p \in Jobs
  PROVE  /\ GeneralPieces(p) \in Seq(Seq(Words)) /\ Len(GeneralPieces(p)) = 14
         /\ FlattenSeq(GeneralPieces(p)) = CpuHeader(p) \o Body(p)
<1>1. PICK H, b, c, d, e, z, B :
        /\ H = CpuHeader(p) /\ b = Bytes("key", p.key) /\ c = <<U32(p.salt)>>
        /\ d = Bytes("salt", p.salt) /\ e = <<U32(0)>> /\ z = <<>> /\ B = Body(p)
  OBVIOUS
<1>2. /\ H \in Seq(Words) /\ Len(H) = 7 /\ b \in Seq(Words) /\ c \in Seq(Words) /\ d \in Seq(Words)
      /\ e \in Seq(Words) /\ B \in Seq(Words)
  BY <1>1, MessageParts
<1>3. z \in Seq(Words)
  BY <1>1, EmptySeq
<1>4. PICK Y, Z : Y = [i \in 1..7 |-> <<H[i]>>] /\ Z = <<b, c, d, e, z, e, z>>
  OBVIOUS
<1>5. PICK P : P = Y \o Z /\ P = GeneralPieces(p)
  BY <1>1, <1>4 DEF GeneralPieces
<1>6. Y \in Seq(Seq(Words)) /\ Len(Y) = 7 /\ \A i \in 1..7 : Y[i] = <<H[i]>>
  <2>1. ASSUME NEW i \in 1..7 PROVE <<H[i]>> \in Seq(Words)
    <3>1. H \in Seq(Words) /\ i \in 1..Len(H)
      BY <1>2
    <3>2. H[i] \in Words
      BY <3>1, ElementOfSeq
    <3>3. QED
      BY <3>2
  <2>2. Y \in [1..7 -> Seq(Words)]
    BY <1>4, <2>1
  <2>3. QED
    BY <1>4, <2>2
<1>7. /\ Z \in Seq(Seq(Words)) /\ Len(Z) = 7
      /\ Z[1] = b /\ Z[2] = c /\ Z[3] = d /\ Z[4] = e /\ Z[5] = z /\ Z[6] = e /\ Z[7] = z
  BY <1>2, <1>3, <1>4
<1>8. /\ P \in Seq(Seq(Words)) /\ Len(P) = 14
      /\ \A i \in 1..14 : P[i] = IF i <= 7 THEN Y[i] ELSE Z[i - 7]
  <2>1. /\ P \in Seq(Seq(Words)) /\ Len(P) = Len(Y) + Len(Z)
        /\ \A i \in 1..(Len(Y) + Len(Z)) : P[i] = IF i <= Len(Y) THEN Y[i] ELSE Z[i - Len(Y)]
    <3>1. Y \in Seq(Seq(Words)) /\ Z \in Seq(Seq(Words))
      BY <1>6, <1>7
    <3>2. /\ Y \o Z \in Seq(Seq(Words)) /\ Len(Y \o Z) = Len(Y) + Len(Z)
          /\ \A i \in 1..(Len(Y) + Len(Z)) : (Y \o Z)[i] = IF i <= Len(Y) THEN Y[i] ELSE Z[i - Len(Y)]
      BY <3>1, ConcatProperties
    <3>3. QED
      BY <1>5, <3>2
  <2>2. Len(Y) + Len(Z) = 14
    BY <1>6, <1>7
  <2>3. QED
    BY <1>6, <2>1, <2>2
<1>9. /\ \A i \in 1..7 : P[i] = <<H[i]>>
      /\ P[8] = b /\ P[9] = c /\ P[10] = d /\ P[11] = e /\ P[12] = z /\ P[13] = e /\ P[14] = z
  <2>1. \A i \in 1..7 : i \in 1..14 /\ i <= 7
    OBVIOUS
  <2>2. \A i \in 1..7 : P[i] = <<H[i]>>
    BY <1>6, <1>8, <2>1
  <2>3. \A i \in 1..7 : i + 7 \in 1..14 /\ ~(i + 7 <= 7) /\ (i + 7) - 7 = i
    OBVIOUS
  <2>4. \A i \in 1..7 : P[i + 7] = Z[i]
    BY <1>8, <2>3
  <2>5. P[1 + 7] = Z[1] /\ P[2 + 7] = Z[2] /\ P[3 + 7] = Z[3] /\ P[4 + 7] = Z[4]
        /\ P[5 + 7] = Z[5] /\ P[6 + 7] = Z[6] /\ P[7 + 7] = Z[7]
    BY <2>4
  <2>6. 1 + 7 = 8 /\ 2 + 7 = 9 /\ 3 + 7 = 10 /\ 4 + 7 = 11 /\ 5 + 7 = 12 /\ 6 + 7 = 13 /\ 7 + 7 = 14
    OBVIOUS
  <2>7. QED
    BY <1>7, <2>2, <2>5, <2>6
<1> DEFINE F(i) == FlattenSeq(SubSeq(P, i, 14))
           G(i) == SubSeq(H, i, 7) \o B
<1>10. \A i \in 1..14 : F(i) = P[i] \o F(i + 1) /\ F(i + 1) \in Seq(Words)
  <2>1. P \in Seq(Seq(Words)) /\ Len(P) = 14
    BY <1>8
  <2>2. ASSUME NEW i \in 1..14
        PROVE  /\ FlattenSeq(SubSeq(P, i, 14)) = P[i] \o FlattenSeq(SubSeq(P, i + 1, 14))
               /\ FlattenSeq(SubSeq(P, i + 1, 14)) \in Seq(Words)
    BY <2>1, FlattenFrom
  <2>3. QED
    BY <2>2
<1>11. F(15) = <<>>
  BY FlattenEnd
<1>12. \A i \in 1..7 : <<H[i]>> \o G(i + 1) = G(i)
  <2>1. ASSUME NEW i \in 1..7 PROVE <<H[i]>> \o G(i + 1) = G(i)
    <3>1. H \in Seq(Words) /\ B \in Seq(Words) /\ i \in 1..Len(H)
      BY <1>2
    <3>2. <<H[i]>> \o (SubSeq(H, i + 1, Len(H)) \o B) = SubSeq(H, i, Len(H)) \o B
      BY <3>1, HeaderWord, Zenon
    <3>3. QED
      BY <1>2, <3>2
  <2>2. QED
    BY <2>1
<1>13. FlattenSeq(P) = F(1) /\ G(1) = H \o B /\ G(8) = B
  <2>1. SubSeq(P, 1, 14) = P
    BY <1>8
  <2>2. SubSeq(H, 1, 7) = H
    BY <1>2
  <2>3. SubSeq(H, 8, 7) = <<>>
    BY SubSeqEmpty
  <2>4. <<>> \o B = B
    BY <1>2, ConcatEmptySeq
  <2>5. QED
    BY <2>1, <2>2, <2>3, <2>4
<1> HIDE DEF F, G
<1>14. F(8) = B
  <2>1. 8 \in 1..14 /\ 9 \in 1..14 /\ 10 \in 1..14 /\ 11 \in 1..14 /\ 12 \in 1..14 /\ 13 \in 1..14 /\ 14 \in 1..14
    OBVIOUS
  <2>2. /\ F(8) = P[8] \o F(8 + 1) /\ F(9) = P[9] \o F(9 + 1) /\ F(10) = P[10] \o F(10 + 1)
        /\ F(11) = P[11] \o F(11 + 1) /\ F(12) = P[12] \o F(12 + 1) /\ F(13) = P[13] \o F(13 + 1)
        /\ F(14) = P[14] \o F(14 + 1)
    BY <1>10, <2>1, Zenon
  <2>3. 8 + 1 = 9 /\ 9 + 1 = 10 /\ 10 + 1 = 11 /\ 11 + 1 = 12 /\ 12 + 1 = 13 /\ 13 + 1 = 14 /\ 14 + 1 = 15
    OBVIOUS
  <2>4. /\ F(8) = b \o F(9) /\ F(9) = c \o F(10) /\ F(10) = d \o F(11) /\ F(11) = e \o F(12)
        /\ F(12) = z \o F(13) /\ F(13) = e \o F(14) /\ F(14) = z \o F(15)
    BY <1>9, <2>2, <2>3
  <2>5. F(14) = <<>>
    BY <1>1, <1>3, <1>11, <2>4, ConcatEmptySeq
  <2>6. F(13) = e
    BY <1>2, <2>4, <2>5, ConcatEmptySeq
  <2>7. F(12) = e
    BY <1>1, <1>2, <2>4, <2>6, ConcatEmptySeq
  <2>8. e \o e = <<U32(0), U32(0)>>
    <3>1. U32(0) \in Words
      BY DEF U32, Words, Names
    <3>2. QED
      BY <1>1, <3>1, TwoWords
  <2>9. F(8) = b \o (c \o (d \o <<U32(0), U32(0)>>))
    BY <2>4, <2>7, <2>8
  <2>10. QED
    BY <1>1, <2>9 DEF Body
<1>15. \A i \in 1..7 : F(i + 1) = G(i + 1) => F(i) = G(i)
  <2>1. ASSUME NEW i \in 1..7, F(i + 1) = G(i + 1) PROVE F(i) = G(i)
    <3>1. i \in 1..14
      OBVIOUS
    <3>2. F(i) = P[i] \o F(i + 1)
      BY <1>10, <3>1, Zenon
    <3>3. P[i] = <<H[i]>>
      BY <1>9
    <3>4. <<H[i]>> \o G(i + 1) = G(i)
      BY <1>12, Zenon
    <3>5. QED
      BY <2>1, <3>2, <3>3, <3>4
  <2>2. QED
    BY <2>1
<1>16. F(1) = G(1)
  <2>1. 1 \in 1..7 /\ 2 \in 1..7 /\ 3 \in 1..7 /\ 4 \in 1..7 /\ 5 \in 1..7 /\ 6 \in 1..7 /\ 7 \in 1..7
    OBVIOUS
  <2>2. 1 + 1 = 2 /\ 2 + 1 = 3 /\ 3 + 1 = 4 /\ 4 + 1 = 5 /\ 5 + 1 = 6 /\ 6 + 1 = 7 /\ 7 + 1 = 8
    OBVIOUS
  <2>3. F(7) = G(7)
    BY <1>15, <2>1, <2>2, <1>13, <1>14
  <2>4. F(6) = G(6)
    BY <1>15, <2>1, <2>2, <2>3
  <2>5. F(5) = G(5)
    BY <1>15, <2>1, <2>2, <2>4
  <2>6. F(4) = G(4)
    BY <1>15, <2>1, <2>2, <2>5
  <2>7. F(3) = G(3)
    BY <1>15, <2>1, <2>2, <2>6
  <2>8. F(2) = G(2)
    BY <1>15, <2>1, <2>2, <2>7
  <2>9. F(1) = G(1)
    BY <1>15, <2>1, <2>2, <2>8
  <2>10. QED
    BY <2>9
<1>17. QED
  BY <1>1, <1>5, <1>8, <1>13, <1>16

(* All three implementations hash the same message.                         *)
LEMMA PiecesSame ==
  ASSUME NEW p \in Jobs
  PROVE  /\ Pieces(p) \in Seq(Seq(Words)) /\ FlattenSeq(Pieces(p)) = FlattenSeq(CpuPieces(p))
         /\ FlattenSeq(CpuPieces(p)) \in Seq(Words)
<1>1. PICK H, B : H = CpuHeader(p) /\ B = Body(p) /\ H \in Seq(Words) /\ B \in Seq(Words)
  BY MessageParts
<1>2. H \o B \in Seq(Words)
  BY <1>1
<1>3. /\ CpuPieces(p) \in Seq(Seq(Words)) /\ FlattenSeq(CpuPieces(p)) = H \o B
      /\ GpuPieces(p) \in Seq(Seq(Words)) /\ FlattenSeq(GpuPieces(p)) = H \o B
      /\ GeneralPieces(p) \in Seq(Seq(Words)) /\ FlattenSeq(GeneralPieces(p)) = H \o B
  <2>1. CpuPieces(p) \in Seq(Seq(Words)) /\ FlattenSeq(CpuPieces(p)) = CpuHeader(p) \o Body(p)
    BY CpuMessage
  <2>2. GpuPieces(p) \in Seq(Seq(Words)) /\ FlattenSeq(GpuPieces(p)) = CpuHeader(p) \o Body(p)
    BY GpuMessage
  <2>3. GeneralPieces(p) \in Seq(Seq(Words)) /\ FlattenSeq(GeneralPieces(p)) = CpuHeader(p) \o Body(p)
    BY GeneralMessage
  <2>4. QED
    BY <1>1, <2>1, <2>2, <2>3
<1>4. p.impl = "cpu" \/ p.impl = "cpuGeneral" \/ p.impl = "gpu"
  BY MessageParts DEF Impls
<1>5. Pieces(p) = CpuPieces(p) \/ Pieces(p) = GeneralPieces(p) \/ Pieces(p) = GpuPieces(p)
  BY <1>4 DEF Pieces
<1>6. QED
  BY <1>2, <1>3, <1>5
-----------------------------------------------------------------------------
(* Half a digest, and twice that.                                           *)
LEMMA Halves == Half \in Nat \ {0} /\ DigestSize = Half + Half
<1>1. DigestSize \in Nat \ {0} /\ DigestSize % 2 = 0
  BY SizesAssumption
<1>2. DigestSize \div 2 \in Nat /\ DigestSize = 2 * (DigestSize \div 2) + (DigestSize % 2)
  BY <1>1, DivFacts
<1>3. QED
  BY <1>1, <1>2 DEF Half

(* The n-th word of the long digest while half digests are put out.         *)
HalfWord(i) == <<((i - 1) \div Half) + 1, ((i - 1) % Half) + 1>>

Outputs == Nat \X (1..DigestSize)

(* The words a block holds after k half digests.                            *)
Halfway(s, k) ==
  s \in Seq(Outputs) /\ Len(s) = k * Half /\ \A i \in 1..(k * Half) : s[i] = HalfWord(i)

(* A word of a half digest is one of a digest.                              *)
LEMMA HalfWordIs ==
  ASSUME NEW k \in Nat, NEW i \in 1..Half
  PROVE  HalfWord(k * Half + i) = <<k + 1, i>>
<1>0. Half \in Nat \ {0}
  BY Halves
<1>1. PICK kh \in Nat : kh = k * Half /\ kh = Half * k
  BY <1>0
<1>2. PICK x \in Nat, r \in 0..(Half - 1) : x = (kh + i) - 1 /\ r = i - 1 /\ x = kh + r /\ r + 1 = i
  <2>1. (kh + i) - 1 \in Nat /\ i - 1 \in 0..(Half - 1) /\ (kh + i) - 1 = kh + (i - 1) /\ (i - 1) + 1 = i
    BY <1>0
  <2>2. QED
    BY <2>1
<1>3. x = Half * k + r /\ k \in Int
  BY <1>1, <1>2
<1>4. x \div Half = k /\ x % Half = r
  BY <1>0, <1>3, DivUnique
<1>5. QED
  BY <1>1, <1>2, <1>4 DEF HalfWord

(* A word of the long digest is a word of some digest.                      *)
LEMMA HalfWordTyped == \A i \in Nat \ {0} : HalfWord(i) \in Outputs
<1>1. ASSUME NEW i \in Nat \ {0} PROVE HalfWord(i) \in Outputs
  <2>1. PICK x \in Nat : x = i - 1
    OBVIOUS
  <2>2. Half \in Nat \ {0} /\ DigestSize = Half + Half
    BY Halves
  <2>3. x \div Half \in Nat /\ x % Half \in 0..(Half - 1)
    BY <2>2, DivFacts
  <2>4. PICK a \in Nat, c \in Nat : a = x \div Half /\ c = x % Half /\ c <= Half - 1
    BY <2>2, <2>3
  <2>5. a + 1 \in Nat /\ c + 1 \in 1..DigestSize
    BY <2>2, <2>4
  <2>6. HalfWord(i) = <<a + 1, c + 1>>
    BY <2>1, <2>4 DEF HalfWord
  <2>7. QED
    BY <2>5, <2>6 DEF Outputs
<1>2. QED
  BY <1>1

(* The first n words of a digest.                                           *)
LEMMA TakeIs ==
  ASSUME NEW k \in Nat, NEW n \in 0..DigestSize
  PROVE  Take(k, n) \in Seq(Outputs) /\ Len(Take(k, n)) = n /\ \A i \in 1..n : Take(k, n)[i] = <<k, i>>
<1>0. DigestSize \in Nat
  BY SizesAssumption
<1>1. PICK t : t = [i \in 1..n |-> <<k, i>>]
  OBVIOUS
<1>2. \A i \in 1..n : <<k, i>> \in Outputs
  BY <1>0 DEF Outputs
<1>3. t \in [1..n -> Outputs]
  BY <1>1, <1>2
<1>4. t \in Seq(Outputs) /\ Len(t) = n
  BY <1>0, <1>3
<1>5. \A i \in 1..n : t[i] = <<k, i>>
  BY <1>1
<1>6. Take(k, n) = t
  BY <1>1 DEF Take
<1>7. QED
  BY <1>4, <1>5, <1>6

(* What a sequence becomes when another is appended.                        *)
LEMMA JoinIndex ==
  ASSUME NEW S, NEW s \in Seq(S), NEW t \in Seq(S)
  PROVE  /\ s \o t \in Seq(S) /\ Len(s \o t) = Len(s) + Len(t)
         /\ \A i \in 1..Len(s) : (s \o t)[i] = s[i]
         /\ \A i \in 1..Len(t) : (s \o t)[Len(s) + i] = t[i]
<1>1. /\ s \o t \in Seq(S) /\ Len(s \o t) = Len(s) + Len(t)
      /\ \A i \in 1..(Len(s) + Len(t)) : (s \o t)[i] = IF i <= Len(s) THEN s[i] ELSE t[i - Len(s)]
  BY ConcatProperties
<1>2. PICK a \in Nat, c \in Nat : a = Len(s) /\ c = Len(t)
  OBVIOUS
<1>3. ASSUME NEW i \in 1..a PROVE (s \o t)[i] = s[i]
  <2>1. i \in 1..(a + c) /\ i <= a
    OBVIOUS
  <2>2. QED
    BY <1>1, <1>2, <2>1
<1>4. ASSUME NEW i \in 1..c PROVE (s \o t)[a + i] = t[i]
  <2>1. PICK j \in 1..(a + c) : j = a + i /\ ~(j <= a) /\ j - a = i
    <3>1. a + i \in 1..(a + c) /\ ~(a + i <= a) /\ (a + i) - a = i
      OBVIOUS
    <3>2. QED
      BY <3>1
  <2>2. (s \o t)[j] = t[j - a]
    BY <1>1, <1>2, <2>1
  <2>3. QED
    BY <2>1, <2>2
<1>5. QED
  BY <1>1, <1>2, <1>3, <1>4

(* A digest's first words appended.                                         *)
LEMMA JoinTake ==
  ASSUME NEW s \in Seq(Outputs), NEW k \in Nat, NEW n \in 0..DigestSize
  PROVE  /\ s \o Take(k, n) \in Seq(Outputs) /\ Len(s \o Take(k, n)) = Len(s) + n
         /\ \A i \in 1..Len(s) : (s \o Take(k, n))[i] = s[i]
         /\ \A i \in 1..n : (s \o Take(k, n))[Len(s) + i] = <<k, i>>
<1>1. PICK t : t = Take(k, n) /\ t \in Seq(Outputs) /\ Len(t) = n /\ \A i \in 1..n : t[i] = <<k, i>>
  BY TakeIs
<1>2. /\ s \o t \in Seq(Outputs) /\ Len(s \o t) = Len(s) + Len(t)
      /\ \A i \in 1..Len(s) : (s \o t)[i] = s[i]
      /\ \A i \in 1..Len(t) : (s \o t)[Len(s) + i] = t[i]
  <2>1. t \in Seq(Outputs)
    BY <1>1
  <2>2. QED
    BY <2>1, JoinIndex
<1>3. \A i \in 1..n : (s \o t)[Len(s) + i] = <<k, i>>
  BY <1>1, <1>2
<1>4. QED
  BY <1>1, <1>2, <1>3

(* The places of two parts put together.                                    *)
LEMMA TwoParts ==
  ASSUME NEW a \in Nat, NEW c \in Nat, NEW i \in 1..(a + c)
  PROVE  i \in 1..a \/ \E j \in 1..c : i = a + j
<1>1. CASE i <= a
  BY <1>1
<1>2. CASE ~(i <= a)
  <2>1. i - a \in 1..c /\ i = a + (i - a)
    BY <1>2
  <2>2. QED
    BY <2>1
<1>3. QED
  BY <1>1, <1>2

(* One half digest more.                                                    *)
LEMMA HalfMore ==
  ASSUME NEW s, NEW k \in Nat, Halfway(s, k)
  PROVE  Halfway(s \o Take(k + 1, Half), k + 1)
<1>0. Half \in Nat \ {0} /\ Half \in 0..DigestSize
  BY Halves
<1>1. PICK kh \in Nat : kh = k * Half /\ (k + 1) * Half = kh + Half
  BY <1>0
<1>2. s \in Seq(Outputs) /\ Len(s) = kh /\ \A i \in 1..kh : s[i] = HalfWord(i)
  BY <1>1 DEF Halfway
<1>3. PICK t : t = s \o Take(k + 1, Half)
  OBVIOUS
<1>4. /\ t \in Seq(Outputs) /\ Len(t) = kh + Half
      /\ \A i \in 1..kh : t[i] = s[i]
      /\ \A i \in 1..Half : t[kh + i] = <<k + 1, i>>
  <2>1. k + 1 \in Nat
    OBVIOUS
  <2>2. s \in Seq(Outputs) /\ Half \in 0..DigestSize
    BY <1>0, <1>2
  <2>3. /\ s \o Take(k + 1, Half) \in Seq(Outputs) /\ Len(s \o Take(k + 1, Half)) = Len(s) + Half
        /\ \A i \in 1..Len(s) : (s \o Take(k + 1, Half))[i] = s[i]
        /\ \A i \in 1..Half : (s \o Take(k + 1, Half))[Len(s) + i] = <<k + 1, i>>
    BY <2>1, <2>2, JoinTake, Zenon
  <2>4. QED
    BY <1>2, <1>3, <2>3
<1>5. ASSUME NEW i \in 1..(kh + Half) PROVE t[i] = HalfWord(i)
  <2>1. i \in 1..kh \/ \E j \in 1..Half : i = kh + j
    BY <1>0, TwoParts
  <2>2. CASE i \in 1..kh
    BY <1>2, <1>4, <2>2
  <2>3. CASE \E j \in 1..Half : i = kh + j
    <3>1. PICK j \in 1..Half : i = kh + j
      BY <2>3
    <3>2. HalfWord(k * Half + j) = <<k + 1, j>>
      BY HalfWordIs
    <3>3. t[i] = <<k + 1, j>>
      BY <1>4, <3>1
    <3>4. QED
      BY <1>1, <3>1, <3>2, <3>3
  <2>4. QED
    BY <2>1, <2>2, <2>3
<1>6. QED
  BY <1>1, <1>3, <1>4, <1>5 DEF Halfway
-----------------------------------------------------------------------------
(* The reference of the long digest, as a function of the length alone.     *)
RoundsOf(n) == IF n <= DigestSize THEN 0 ELSE ((n + Half - 1) \div Half) - 2
LongWord(n, i) ==
  IF (i - 1) \div Half < RoundsOf(n) THEN HalfWord(i) ELSE <<RoundsOf(n) + 1, i - RoundsOf(n) * Half>>
LongOf(n) == [i \in 1..n |-> LongWord(n, i)]

(* It is the reference of the run.                                          *)
LEMMA LongReferenceIs == LongReference = LongOf(job.long)
BY DEF LongReference, Rounds, LongOf, LongWord, HalfWord, RoundsOf

(* To be the reference, a sequence has to be right word by word.            *)
LEMMA IsLong ==
  ASSUME NEW n \in Nat, NEW s \in Seq(Outputs), Len(s) = n, \A i \in 1..n : s[i] = LongWord(n, i)
  PROVE  s = LongOf(n)
<1>1. s \in [1..n -> Outputs]
  OBVIOUS
<1>2. s = [i \in 1..n |-> s[i]]
  BY <1>1
<1>3. QED
  BY <1>2 DEF LongOf

(* A length that one digest covers is put out in one piece.                 *)
LEMMA ShortDigest ==
  ASSUME NEW n \in Nat, n <= DigestSize
  PROVE  Take(1, n) \o Take(2, 0) = LongOf(n) /\ Take(1, n) \in Seq(Outputs)
<1>0. n \in 0..DigestSize /\ 0 \in 0..DigestSize /\ DigestSize \in Nat /\ Half \in Nat \ {0}
  BY SizesAssumption, Halves
<1>1. PICK s : s = Take(1, n) /\ s \in Seq(Outputs) /\ Len(s) = n /\ \A i \in 1..n : s[i] = <<1, i>>
  <2>1. 1 \in Nat /\ n \in 0..DigestSize
    BY <1>0
  <2>2. Take(1, n) \in Seq(Outputs) /\ Len(Take(1, n)) = n /\ \A i \in 1..n : Take(1, n)[i] = <<1, i>>
    BY <2>1, TakeIs, Zenon
  <2>3. QED
    BY <2>2
<1>2. PICK t : t = Take(2, 0)
  OBVIOUS
<1>3. /\ s \o t \in Seq(Outputs) /\ Len(s \o t) = n
      /\ \A i \in 1..n : (s \o t)[i] = s[i]
  <2>1. s \in Seq(Outputs) /\ 2 \in Nat /\ 0 \in 0..DigestSize
    BY <1>0, <1>1
  <2>2. /\ s \o Take(2, 0) \in Seq(Outputs) /\ Len(s \o Take(2, 0)) = Len(s) + 0
        /\ \A i \in 1..Len(s) : (s \o Take(2, 0))[i] = s[i]
    BY <2>1, JoinTake, Zenon
  <2>3. QED
    BY <1>1, <1>2, <2>2
<1>4. RoundsOf(n) = 0
  BY DEF RoundsOf
<1>5. ASSUME NEW i \in 1..n PROVE (s \o t)[i] = LongWord(n, i)
  <2>1. PICK x \in Nat : x = i - 1
    OBVIOUS
  <2>2. x \div Half \in Nat
    BY <1>0, DivFacts
  <2>3. ~((i - 1) \div Half < 0) /\ i - 0 * Half = i
    BY <1>0, <2>1, <2>2
  <2>4. LongWord(n, i) = <<1, i>>
    BY <1>4, <2>3 DEF LongWord
  <2>5. QED
    BY <1>1, <1>3, <2>4
<1>6. s \o t \in Seq(Outputs) /\ Len(s \o t) = n /\ \A i \in 1..n : (s \o t)[i] = LongWord(n, i)
  BY <1>3, <1>5
<1>7. s \o t = LongOf(n)
  BY <1>6, IsLong
<1>8. QED
  BY <1>1, <1>2, <1>7

(* How many half digests the reference has: what leaves more than a half    *)
(* and at most a whole digest.                                              *)
LEMMA RoundsAre ==
  ASSUME NEW n \in Nat, n > DigestSize, NEW k \in Nat, NEW l \in Nat, n = k * Half + l, Half < l, l <= DigestSize
  PROVE  RoundsOf(n) = k
<1>0. Half \in Nat \ {0} /\ DigestSize = Half + Half
  BY Halves
<1>1. PICK kh \in Nat : kh = k * Half /\ Half * (k + 2) = kh + Half + Half
  BY <1>0
<1>2. PICK x \in Nat, r \in 0..(Half - 1) : x = n + Half - 1 /\ r = l - 1 - Half
  <2>1. n + Half - 1 \in Nat /\ l - 1 - Half \in 0..(Half - 1)
    BY <1>0
  <2>2. QED
    BY <2>1
<1>3. x = Half * (k + 2) + r /\ k + 2 \in Int
  BY <1>0, <1>1, <1>2
<1>4. x \div Half = k + 2
  BY <1>0, <1>3, DivUnique
<1>5. ~(n <= DigestSize)
  BY <1>0
<1>6. QED
  BY <1>2, <1>4, <1>5 DEF RoundsOf

(* The half digests and a last one of what is left are the reference.       *)
LEMMA LongDigest ==
  ASSUME NEW n \in Nat, n > DigestSize, NEW k \in Nat, NEW l \in Nat, n = k * Half + l, Half < l, l <= DigestSize,
         NEW s, Halfway(s, k)
  PROVE  s \o Take(k + 1, l) = LongOf(n)
<1>0. Half \in Nat \ {0} /\ l \in 0..DigestSize /\ k + 1 \in Nat
  BY Halves
<1>1. PICK kh \in Nat : kh = k * Half /\ kh = Half * k /\ n = kh + l
  BY <1>0
<1>2. s \in Seq(Outputs) /\ Len(s) = kh /\ \A i \in 1..kh : s[i] = HalfWord(i)
  BY <1>1 DEF Halfway
<1>3. PICK t : t = s \o Take(k + 1, l)
  OBVIOUS
<1>4. /\ t \in Seq(Outputs) /\ Len(t) = kh + l
      /\ \A i \in 1..kh : t[i] = s[i]
      /\ \A i \in 1..l : t[kh + i] = <<k + 1, i>>
  <2>1. k + 1 \in Nat
    OBVIOUS
  <2>2. s \in Seq(Outputs) /\ l \in 0..DigestSize
    BY <1>0, <1>2
  <2>3. /\ s \o Take(k + 1, l) \in Seq(Outputs) /\ Len(s \o Take(k + 1, l)) = Len(s) + l
        /\ \A i \in 1..Len(s) : (s \o Take(k + 1, l))[i] = s[i]
        /\ \A i \in 1..l : (s \o Take(k + 1, l))[Len(s) + i] = <<k + 1, i>>
    BY <2>1, <2>2, JoinTake, Zenon
  <2>4. QED
    BY <1>2, <1>3, <2>3
<1>5. RoundsOf(n) = k
  BY RoundsAre
<1>6. ASSUME NEW i \in 1..(kh + l) PROVE t[i] = LongWord(n, i)
  <2>0. PICK x \in Nat : x = i - 1
    OBVIOUS
  <2>1. i \in 1..kh \/ \E j \in 1..l : i = kh + j
    BY TwoParts
  <2>2. CASE i \in 1..kh
    <3>1. x < Half * k
      BY <1>1, <2>0, <2>2
    <3>2. x \div Half < k
      BY <1>0, <3>1, DivLess
    <3>3. LongWord(n, i) = HalfWord(i)
      BY <1>5, <2>0, <3>2 DEF LongWord
    <3>4. QED
      BY <1>2, <1>4, <2>2, <3>3
  <2>3. CASE \E j \in 1..l : i = kh + j
    <3>1. PICK j \in 1..l : i = kh + j
      BY <2>3
    <3>2. PICK d \in Nat : d = x \div Half /\ x % Half \in 0..(Half - 1) /\ x = Half * d + (x % Half)
      BY <1>0, DivFacts
    <3>3. PICK hd \in Nat : hd = Half * d /\ Half * (d + 1) = hd + Half
      BY <1>0
    <3>4. x < hd + Half
      BY <1>0, <3>2, <3>3
    <3>5. ~(d + 1 <= k)
      <4>1. d + 1 <= k => Half * (d + 1) <= Half * k
        BY <1>0, TimesOrder
      <4>2. QED
        BY <1>0, <1>1, <2>0, <3>1, <3>3, <3>4, <4>1
    <3>6. ~(d < k)
      BY <3>5
    <3>7. LongWord(n, i) = <<k + 1, i - kh>>
      BY <1>1, <1>5, <2>0, <3>2, <3>6 DEF LongWord
    <3>8. i - kh = j
      BY <3>1
    <3>9. t[i] = <<k + 1, j>>
      BY <1>4, <3>1
    <3>10. QED
      BY <3>7, <3>8, <3>9
  <2>4. QED
    BY <2>1, <2>2, <2>3
<1>7. t \in Seq(Outputs) /\ Len(t) = n /\ \A i \in 1..n : t[i] = LongWord(n, i)
  BY <1>1, <1>4, <1>6
<1>8. t = LongOf(n)
  BY <1>7, IsLong
<1>9. QED
  BY <1>3, <1>8
-----------------------------------------------------------------------------
(* The pieces from some point on are again bytes.                           *)
LEMMA RestTyped ==
  ASSUME NEW p \in Jobs, NEW k \in 0..Len(Pieces(p))
  PROVE  FlattenSeq(SubSeq(Pieces(p), k + 1, Len(Pieces(p)))) \in Seq(Words)
<1>1. PICK ss : ss = Pieces(p) /\ ss \in Seq(Seq(Words))
  BY PiecesSame
<1>2. PICK n \in Nat : n = Len(ss)
  BY <1>1
<1>3. k \in 0..n
  BY <1>1, <1>2
<1>4. FlattenSeq(SubSeq(ss, k + 1, n)) \in Seq(Words)
  <2>1. CASE k < n
    <3>1. PICK i \in 1..n : i = k + 1
      BY <1>3, <2>1
    <3>2. i \in 1..Len(ss)
      BY <1>2
    <3>3. /\ FlattenSeq(SubSeq(ss, i, Len(ss))) = ss[i] \o FlattenSeq(SubSeq(ss, i + 1, Len(ss)))
          /\ ss[i] \in Seq(Words) /\ FlattenSeq(SubSeq(ss, i + 1, Len(ss))) \in Seq(Words)
      BY <1>1, <3>2, FlattenFrom
    <3>4. PICK g : g \in Seq(Words) /\ FlattenSeq(SubSeq(ss, i, Len(ss))) = ss[i] \o g
      BY <3>3
    <3>5. ss[i] \o g \in Seq(Words)
      BY <3>3, <3>4
    <3>6. QED
      BY <1>2, <3>1, <3>4, <3>5
  <2>2. CASE ~(k < n)
    <3>1. k = n
      BY <1>3, <2>2
    <3>2. FlattenSeq(SubSeq(ss, n + 1, n)) = <<>>
      BY FlattenEnd
    <3>3. <<>> \in Seq(Words)
      OBVIOUS
    <3>4. QED
      BY <3>1, <3>2, <3>3
  <2>3. QED
    BY <2>1, <2>2
<1>5. QED
  BY <1>1, <1>2, <1>4

(* A sequence up to its end.                                                *)
LEMMA WholeCut == \A S : \A m \in Seq(S) : SubSeq(m, 1, Len(m)) = m
<1>1. ASSUME NEW S, NEW m \in Seq(S) PROVE SubSeq(m, 1, Len(m)) = m
  <2>1. PICK n \in Nat : n = Len(m)
    OBVIOUS
  <2>2. SubSeq(m, 1, n) = [i \in 1..n |-> m[i]]
    BY <2>1
  <2>3. m = [i \in 1..n |-> m[i]]
    BY <2>1
  <2>4. QED
    BY <2>1, <2>2, <2>3
<1>2. QED
  BY <1>1

(* The bytes behind a cut leave the ones before it.                         *)
LEMMA BeforeCut ==
  ASSUME NEW m \in Seq(Words), NEW f \in Seq(Words)
  PROVE  SubSeq(m \o f, 1, Len(m \o f) - Len(f)) = m
<1>1. Len(m) \in Nat /\ Len(m) <= Len(m) /\ 1 <= Len(m) + 1 /\ Len(m \o f) - Len(f) = Len(m)
  OBVIOUS
<1>2. SubSeq(m \o f, 1, Len(m)) = SubSeq(m, 1, Len(m))
  BY <1>1, CutLeft
<1>3. SubSeq(m, 1, Len(m)) = m
  BY WholeCut
<1>4. QED
  BY <1>1, <1>2, <1>3
-----------------------------------------------------------------------------
(* While the pieces are absorbed, the hasher has what the bytes before the  *)
(* pieces still to come determine.                                          *)
Absorbed ==
  \E m \in Seq(Words) : m \o FlattenSeq(todo) = FlattenSeq(CpuPieces(job)) /\ HashedTo(h, m, job.block)

(* The prehash of the message m, finished.                                  *)
Prehashed(m, b) ==
  Append(StreamOf(m, b),
         [block |-> SubSeq(m, Blocks(m, b) * b + 1, Len(m)), count |-> Len(m), last |-> TRUE])

(* The block being written holds as many half digests as were taken, and    *)
(* what is left fills it: more than a half, unless one digest was enough.   *)
Expanding ==
  IF job.long <= DigestSize
  THEN v = 1 /\ left = 0 /\ firstBlocks[blk] = Take(1, job.long)
  ELSE job.long = v * Half + left /\ Half < left /\ Halfway(firstBlocks[blk], v)

DigestTyped ==
  /\ job \in Jobs /\ phase \in {"absorb", "expand", "done"}
  /\ \E k \in 0..Len(Pieces(job)) : todo = SubSeq(Pieces(job), k + 1, Len(Pieces(job)))
  /\ blk \in {0, 1} /\ v \in Nat /\ left \in Nat
  /\ firstBlocks \in [{0, 1} -> Seq(Outputs)]

PrehashPart ==
  /\ phase = "absorb" => v = 0 /\ blk = 0 /\ Absorbed
  /\ phase # "absorb" => h.chain = Prehashed(FlattenSeq(CpuPieces(job)), job.block)

LongPart ==
  /\ blk = 1 => firstBlocks[0] = LongOf(job.long)
  /\ v > 0 => Expanding
  /\ phase = "done" => blk = 1 /\ v = 0 /\ firstBlocks[1] = LongOf(job.long)

DigestInductive == DigestTyped /\ PrehashPart /\ LongPart

(* What a job's sizes are.                                                  *)
LEMMA JobSizes ==
  ASSUME NEW p \in Jobs
  PROVE  p.block \in 1..(CounterMod - 1) /\ p.block \in Nat \ {0} /\ p.long \in Nat \ {0}
<1>1. p.block \in BlockSizes /\ p.long \in LongLengths
  BY DEF Jobs
<1>2. p.block \in Nat \ {0} /\ p.block < CounterMod /\ CounterMod \in Nat /\ p.long \in Nat \ {0}
  BY <1>1, SizesAssumption
<1>3. PICK b \in Nat \ {0} : b = p.block /\ b < CounterMod
  BY <1>2
<1>4. b \in 1..(CounterMod - 1)
  BY <1>2, <1>3
<1>5. QED
  BY <1>2, <1>3, <1>4

(* The start.                                                               *)
LEMMA DigestStarts == DigestInit => DigestInductive
<1>a. SUFFICES ASSUME DigestInit PROVE DigestInductive
  OBVIOUS
<1>1. /\ job \in Jobs /\ phase = "absorb" /\ todo = Pieces(job) /\ h = BlakeInit /\ blk = 0 /\ v = 0 /\ left = 0
      /\ firstBlocks = [b \in {0, 1} |-> <<>>]
  BY <1>a DEF DigestInit, Jobs
<1>2. /\ Pieces(job) \in Seq(Seq(Words)) /\ FlattenSeq(Pieces(job)) = FlattenSeq(CpuPieces(job))
      /\ FlattenSeq(CpuPieces(job)) \in Seq(Words)
  BY <1>1, PiecesSame
<1>3. DigestTyped
  <2>1. PICK n \in Nat : n = Len(Pieces(job))
    BY <1>2
  <2>2. SubSeq(Pieces(job), 1, Len(Pieces(job))) = Pieces(job)
    BY <1>2, WholeCut
  <2>3. 0 \in 0..Len(Pieces(job)) /\ todo = SubSeq(Pieces(job), 0 + 1, Len(Pieces(job)))
    BY <1>1, <2>1, <2>2
  <2>4. firstBlocks \in [{0, 1} -> Seq(Outputs)]
    BY <1>1
  <2>5. QED
    BY <1>1, <2>3, <2>4 DEF DigestTyped
<1>4. Absorbed
  <2>1. HashedTo(h, <<>>, job.block)
    BY <1>1, JobSizes, NothingHashed
  <2>2. <<>> \in Seq(Words) /\ <<>> \o FlattenSeq(todo) = FlattenSeq(CpuPieces(job))
    BY <1>1, <1>2
  <2>3. QED
    BY <2>1, <2>2 DEF Absorbed
<1>5. QED
  BY <1>1, <1>3, <1>4 DEF DigestInductive, PrehashPart, LongPart

(* update() with the next piece.                                            *)
LEMMA AbsorbKeeps == DigestInductive /\ Absorb => DigestInductive'
<1>a. SUFFICES ASSUME DigestInductive, Absorb PROVE DigestInductive'
  OBVIOUS
<1>1. /\ job \in Jobs /\ phase = "absorb" /\ todo # <<>> /\ h' = Update(h, Head(todo), job.block)
      /\ todo' = Tail(todo) /\ v = 0 /\ blk = 0 /\ left \in Nat /\ firstBlocks \in [{0, 1} -> Seq(Outputs)]
      /\ job' = job /\ phase' = phase /\ blk' = blk /\ v' = v /\ left' = left /\ firstBlocks' = firstBlocks
  BY <1>a DEF DigestInductive, DigestTyped, PrehashPart, Absorb
<1>2. PICK ss : ss = Pieces(job) /\ ss \in Seq(Seq(Words))
  BY <1>1, PiecesSame
<1>3. PICK n \in Nat : n = Len(ss)
  BY <1>2
<1>4. PICK k \in 0..n : todo = SubSeq(ss, k + 1, n)
  BY <1>a, <1>2, <1>3 DEF DigestInductive, DigestTyped
<1>5. k # n
  <2>1. SubSeq(ss, n + 1, n) = <<>>
    BY <1>2
  <2>2. QED
    BY <1>1, <1>4, <2>1
<1>6. PICK i \in 1..n : i = k + 1
  BY <1>5
<1>7. i \in 1..Len(ss) /\ todo = SubSeq(ss, i, Len(ss))
  BY <1>3, <1>4, <1>6
<1>8. /\ FlattenSeq(todo) = ss[i] \o FlattenSeq(todo') /\ Head(todo) = ss[i] /\ todo' = SubSeq(ss, i + 1, n)
      /\ ss[i] \in Seq(Words) /\ FlattenSeq(todo') \in Seq(Words)
  <2>1. /\ FlattenSeq(SubSeq(ss, i, Len(ss))) = ss[i] \o FlattenSeq(SubSeq(ss, i + 1, Len(ss)))
        /\ ss[i] \in Seq(Words) /\ FlattenSeq(SubSeq(ss, i + 1, Len(ss))) \in Seq(Words)
        /\ Head(SubSeq(ss, i, Len(ss))) = ss[i] /\ Tail(SubSeq(ss, i, Len(ss))) = SubSeq(ss, i + 1, Len(ss))
    BY <1>2, <1>7, FlattenFrom
  <2>2. QED
    BY <1>1, <1>3, <1>7, <2>1
<1>9. PICK m : m \in Seq(Words) /\ m \o FlattenSeq(todo) = FlattenSeq(CpuPieces(job)) /\ HashedTo(h, m, job.block)
  BY <1>a, <1>1 DEF DigestInductive, PrehashPart, Absorbed
<1>10. HashedTo(h', m \o ss[i], job.block)
  <2>1. job.block \in 1..(CounterMod - 1)
    BY <1>1, JobSizes
  <2>2. HashedTo(Update(h, ss[i], job.block), m \o ss[i], job.block)
    BY <1>8, <1>9, <2>1, UpdateIs
  <2>3. QED
    BY <1>1, <1>8, <2>2
<1>11. m \o ss[i] \in Seq(Words) /\ (m \o ss[i]) \o FlattenSeq(todo') = FlattenSeq(CpuPieces(job))
  <2>1. PICK a, g : a = ss[i] /\ g = FlattenSeq(todo') /\ a \in Seq(Words) /\ g \in Seq(Words)
    BY <1>8
  <2>2. m \in Seq(Words) /\ a \in Seq(Words) /\ g \in Seq(Words)
    BY <1>9, <2>1
  <2>3. (m \o a) \o g = m \o (a \o g)
    <3>1. \A p, q, z \in Seq(Words) : (p \o q) \o z = p \o (q \o z)
      BY JoinTwice
    <3>2. QED
      BY <2>2, <3>1
  <2>4. m \o a \in Seq(Words)
    BY <2>2
  <2>5. m \o (a \o g) = FlattenSeq(CpuPieces(job))
    BY <1>8, <1>9, <2>1
  <2>6. QED
    BY <2>1, <2>3, <2>4, <2>5
<1>12. Absorbed'
  BY <1>1, <1>10, <1>11 DEF Absorbed
<1>13. DigestTyped'
  <2>1. i \in 0..Len(Pieces(job')) /\ todo' = SubSeq(Pieces(job'), i + 1, Len(Pieces(job')))
    <3>1. Pieces(job') = ss /\ i \in 0..n
      BY <1>1, <1>2
    <3>2. QED
      BY <1>3, <1>8, <3>1
  <2>2. QED
    BY <1>1, <2>1 DEF DigestTyped
<1>14. QED
  BY <1>1, <1>12, <1>13 DEF DigestInductive, PrehashPart, LongPart

(* final().                                                                 *)
LEMMA FinishKeeps == DigestInductive /\ FinishPrehash => DigestInductive'
<1>a. SUFFICES ASSUME DigestInductive, FinishPrehash PROVE DigestInductive'
  OBVIOUS
<1>1. /\ job \in Jobs /\ phase = "absorb" /\ todo = <<>> /\ h' = Final(h, job.block) /\ phase' = "expand"
      /\ v = 0 /\ blk = 0
      /\ job' = job /\ todo' = todo /\ blk' = blk /\ v' = v /\ left' = left /\ firstBlocks' = firstBlocks
  BY <1>a DEF DigestInductive, DigestTyped, PrehashPart, FinishPrehash
<1>2. PICK m : m \in Seq(Words) /\ m \o FlattenSeq(todo) = FlattenSeq(CpuPieces(job)) /\ HashedTo(h, m, job.block)
  BY <1>a, <1>1 DEF DigestInductive, PrehashPart, Absorbed
<1>3. FlattenSeq(<<>>) = <<>>
  BY DEF FlattenSeq
<1>4. m = FlattenSeq(CpuPieces(job))
  <2>1. m \o <<>> = m
    BY <1>2
  <2>2. QED
    BY <1>1, <1>2, <1>3, <2>1
<1>5. h'.chain = Prehashed(FlattenSeq(CpuPieces(job)), job.block)
  <2>1. job.block \in 1..(CounterMod - 1) /\ HashedTo(h, m, job.block)
    BY <1>1, <1>2, JobSizes
  <2>2. Final(h, job.block).chain = Prehashed(m, job.block)
    BY <2>1, FinalIs DEF Prehashed
  <2>3. QED
    BY <1>1, <1>4, <2>2
<1>6. DigestTyped'
  BY <1>a, <1>1 DEF DigestInductive, DigestTyped
<1>7. QED
  BY <1>1, <1>5, <1>6 DEF DigestInductive, PrehashPart, LongPart

(* What the digest steps share: they leave the prehash alone.               *)
LEMMA PrehashStays ==
  ASSUME DigestInductive, phase = "expand", phase' # "absorb", job' = job, h' = h
  PROVE  PrehashPart'
BY DEF DigestInductive, PrehashPart

(* One block is replaced, the other stays.                                  *)
LEMMA BlockReplaced ==
  ASSUME NEW f \in [{0, 1} -> Seq(Outputs)], NEW b \in {0, 1}, NEW x \in Seq(Outputs), NEW g, g = [f EXCEPT ![b] = x]
  PROVE  g \in [{0, 1} -> Seq(Outputs)] /\ g[b] = x /\ g[1 - b] = f[1 - b]
OBVIOUS

(* The first digest of a block.                                             *)
LEMMA BeginKeeps == DigestInductive /\ BeginDigest => DigestInductive'
<1>a. SUFFICES ASSUME DigestInductive, BeginDigest PROVE DigestInductive'
  OBVIOUS
<1>1. /\ job \in Jobs /\ phase = "expand" /\ v = 0 /\ v' = 1 /\ left' = StillOwed(job.long) /\ blk \in {0, 1}
      /\ firstBlocks' = [firstBlocks EXCEPT ![blk] = Take(1, IF job.long <= DigestSize THEN job.long ELSE Half)]
      /\ job' = job /\ phase' = phase /\ todo' = todo /\ h' = h /\ blk' = blk
      /\ firstBlocks \in [{0, 1} -> Seq(Outputs)]
      /\ \E k \in 0..Len(Pieces(job)) : todo = SubSeq(Pieces(job), k + 1, Len(Pieces(job)))
      /\ (blk = 1 => firstBlocks[0] = LongOf(job.long))
  BY <1>a DEF DigestInductive, DigestTyped, LongPart, BeginDigest
<1>2. PICK n \in Nat \ {0} : n = job.long
  BY <1>1, JobSizes
<1>3. Half \in Nat \ {0} /\ DigestSize = Half + Half
  BY Halves
<1>4. PICK x : x = Take(1, IF n <= DigestSize THEN n ELSE Half)
  OBVIOUS
<1>5. x \in Seq(Outputs)
  <2>1. (IF n <= DigestSize THEN n ELSE Half) \in 0..DigestSize /\ 1 \in Nat
    BY <1>3
  <2>2. QED
    BY <1>4, <2>1, TakeIs
<1>6. firstBlocks' \in [{0, 1} -> Seq(Outputs)] /\ firstBlocks'[blk] = x /\ firstBlocks'[1 - blk] = firstBlocks[1 - blk]
  <2>1. firstBlocks' = [firstBlocks EXCEPT ![blk] = x]
    BY <1>1, <1>2, <1>4
  <2>2. firstBlocks \in [{0, 1} -> Seq(Outputs)] /\ blk \in {0, 1} /\ x \in Seq(Outputs)
    BY <1>1, <1>5
  <2>3. QED
    BY <2>1, <2>2, BlockReplaced
<1>7. CASE n <= DigestSize
  <2>1. left' = 0 /\ x = Take(1, n)
    BY <1>1, <1>2, <1>4, <1>7 DEF StillOwed
  <2>2. Expanding'
    BY <1>1, <1>2, <1>6, <1>7, <2>1 DEF Expanding
  <2>3. QED
    <3>1. DigestTyped'
      BY <1>1, <1>6, <2>1 DEF DigestTyped
    <3>2. LongPart'
      BY <1>1, <1>6, <2>2 DEF LongPart
    <3>3. PrehashPart'
      BY <1>a, <1>1, PrehashStays
    <3>4. QED
      BY <3>1, <3>2, <3>3 DEF DigestInductive
<1>8. CASE ~(n <= DigestSize)
  <2>1. left' = n - Half /\ x = Take(1, Half)
    BY <1>1, <1>2, <1>4, <1>8 DEF StillOwed
  <2>2. n - Half \in Nat /\ n = 1 * Half + (n - Half) /\ Half < n - Half
    BY <1>3, <1>8
  <2>3. Halfway(x, 1)
    <3>1. <<>> \in Seq(Outputs) /\ Len(<<>>) = 0 /\ 0 * Half = 0 /\ 1..0 = {}
      BY <1>3
    <3>2. Halfway(<<>>, 0)
      BY <3>1 DEF Halfway
    <3>3. Halfway(<<>> \o Take(0 + 1, Half), 0 + 1)
      BY <3>2, HalfMore
    <3>4. <<>> \o x = x
      BY <1>5
    <3>5. 0 + 1 = 1
      OBVIOUS
    <3>6. QED
      BY <2>1, <3>3, <3>4, <3>5
  <2>4. Expanding'
    BY <1>1, <1>2, <1>6, <1>8, <2>1, <2>2, <2>3 DEF Expanding
  <2>5. QED
    <3>1. DigestTyped'
      BY <1>1, <1>6, <2>1, <2>2 DEF DigestTyped
    <3>2. LongPart'
      BY <1>1, <1>6, <2>4 DEF LongPart
    <3>3. PrehashPart'
      BY <1>a, <1>1, PrehashStays
    <3>4. QED
      BY <3>1, <3>2, <3>3 DEF DigestInductive
<1>9. QED
  BY <1>7, <1>8

(* A half digest in the loop.                                               *)
LEMMA NextKeeps == DigestInductive /\ NextDigest => DigestInductive'
<1>a. SUFFICES ASSUME DigestInductive, NextDigest PROVE DigestInductive'
  OBVIOUS
<1>1. /\ job \in Jobs /\ phase = "expand" /\ v > 0 /\ v' = v + 1 /\ left' = left - Half /\ blk \in {0, 1}
      /\ firstBlocks' = [firstBlocks EXCEPT ![blk] = firstBlocks[blk] \o Take(v + 1, Half)]
      /\ job' = job /\ phase' = phase /\ todo' = todo /\ h' = h /\ blk' = blk
      /\ firstBlocks \in [{0, 1} -> Seq(Outputs)] /\ v \in Nat /\ left \in Nat /\ left > DigestSize
      /\ \E k \in 0..Len(Pieces(job)) : todo = SubSeq(Pieces(job), k + 1, Len(Pieces(job)))
      /\ (blk = 1 => firstBlocks[0] = LongOf(job.long))
      /\ Expanding
  BY <1>a DEF DigestInductive, DigestTyped, LongPart, NextDigest, MoreDigests
<1>2. PICK n \in Nat \ {0} : n = job.long
  BY <1>1, JobSizes
<1>3. Half \in Nat \ {0} /\ DigestSize = Half + Half
  BY Halves
<1>4. /\ ~(n <= DigestSize) /\ n = v * Half + left /\ Halfway(firstBlocks[blk], v)
  BY <1>1, <1>2, <1>3 DEF Expanding
<1>5. PICK x : x = firstBlocks[blk] \o Take(v + 1, Half)
  OBVIOUS
<1>6. Halfway(x, v + 1)
  BY <1>1, <1>4, <1>5, HalfMore
<1>7. x \in Seq(Outputs)
  BY <1>6 DEF Halfway
<1>8. firstBlocks' \in [{0, 1} -> Seq(Outputs)] /\ firstBlocks'[blk] = x /\ firstBlocks'[1 - blk] = firstBlocks[1 - blk]
  <2>1. firstBlocks' = [firstBlocks EXCEPT ![blk] = x]
    BY <1>1, <1>5
  <2>2. firstBlocks \in [{0, 1} -> Seq(Outputs)] /\ blk \in {0, 1} /\ x \in Seq(Outputs)
    BY <1>1, <1>7
  <2>3. QED
    BY <2>1, <2>2, BlockReplaced
<1>9. left - Half \in Nat /\ n = (v + 1) * Half + (left - Half) /\ Half < left - Half /\ v + 1 \in Nat
  <2>1. PICK vh \in Nat : vh = v * Half /\ (v + 1) * Half = vh + Half
    BY <1>1, <1>3
  <2>2. QED
    BY <1>1, <1>3, <1>4, <2>1
<1>10. Expanding'
  BY <1>1, <1>2, <1>4, <1>6, <1>8, <1>9 DEF Expanding
<1>11. DigestTyped'
  BY <1>1, <1>8, <1>9 DEF DigestTyped
<1>12. LongPart'
  BY <1>1, <1>8, <1>10 DEF LongPart
<1>13. PrehashPart'
  BY <1>a, <1>1, PrehashStays
<1>14. QED
  BY <1>11, <1>12, <1>13 DEF DigestInductive

(* The last digest of a block.                                              *)
LEMMA LastKeeps == DigestInductive /\ LastDigest => DigestInductive'
<1>a. SUFFICES ASSUME DigestInductive, LastDigest PROVE DigestInductive'
  OBVIOUS
<1>1. /\ job \in Jobs /\ phase = "expand" /\ v > 0 /\ v' = 0 /\ left' = 0 /\ blk \in {0, 1}
      /\ firstBlocks' = [firstBlocks EXCEPT ![blk] = firstBlocks[blk] \o Take(v + 1, left)]
      /\ job' = job /\ todo' = todo /\ h' = h
      /\ (blk = 0 => blk' = 1 /\ phase' = "expand") /\ (blk # 0 => blk' = blk /\ phase' = "done")
      /\ firstBlocks \in [{0, 1} -> Seq(Outputs)] /\ v \in Nat /\ left \in Nat /\ ~(left > DigestSize)
      /\ \E k \in 0..Len(Pieces(job)) : todo = SubSeq(Pieces(job), k + 1, Len(Pieces(job)))
      /\ (blk = 1 => firstBlocks[0] = LongOf(job.long))
      /\ Expanding
  BY <1>a DEF DigestInductive, DigestTyped, LongPart, LastDigest, MoreDigests
<1>2. PICK n \in Nat \ {0} : n = job.long
  BY <1>1, JobSizes
<1>3. Half \in Nat \ {0} /\ DigestSize = Half + Half
  BY Halves
<1>4. PICK x : x = firstBlocks[blk] \o Take(v + 1, left)
  OBVIOUS
<1>5. x = LongOf(n) /\ x \in Seq(Outputs)
  <2>1. firstBlocks[blk] \in Seq(Outputs) /\ v + 1 \in Nat /\ left \in 0..DigestSize
    BY <1>1, <1>3
  <2>2. x \in Seq(Outputs)
    BY <1>4, <2>1, JoinTake
  <2>3. CASE n <= DigestSize
    <3>1. v = 1 /\ left = 0 /\ firstBlocks[blk] = Take(1, n)
      BY <1>1, <1>2, <2>3 DEF Expanding
    <3>2. Take(1, n) \o Take(2, 0) = LongOf(n)
      BY <2>3, ShortDigest
    <3>3. v + 1 = 2
      BY <3>1
    <3>4. x = LongOf(n)
      BY <1>4, <3>1, <3>2, <3>3
    <3>5. QED
      BY <2>2, <3>4
  <2>4. CASE ~(n <= DigestSize)
    <3>1. n = v * Half + left /\ Half < left /\ Halfway(firstBlocks[blk], v)
      BY <1>1, <1>2, <2>4 DEF Expanding
    <3>2. n > DigestSize /\ left <= DigestSize
      BY <1>1, <1>3, <2>4
    <3>3. firstBlocks[blk] \o Take(v + 1, left) = LongOf(n)
      <4>1. v \in Nat /\ left \in Nat
        BY <1>1
      <4>2. QED
        BY <3>1, <3>2, <4>1, LongDigest
    <3>4. QED
      BY <1>4, <2>2, <3>3
  <2>5. QED
    BY <2>3, <2>4
<1>6. firstBlocks' \in [{0, 1} -> Seq(Outputs)] /\ firstBlocks'[blk] = x /\ firstBlocks'[1 - blk] = firstBlocks[1 - blk]
  <2>1. firstBlocks' = [firstBlocks EXCEPT ![blk] = x]
    BY <1>1, <1>4
  <2>2. firstBlocks \in [{0, 1} -> Seq(Outputs)] /\ blk \in {0, 1} /\ x \in Seq(Outputs)
    BY <1>1, <1>5
  <2>3. QED
    BY <2>1, <2>2, BlockReplaced
<1>7. blk' = 1 /\ phase' \in {"expand", "done"}
  BY <1>1
<1>8. DigestTyped'
  BY <1>1, <1>6, <1>7 DEF DigestTyped
<1>9. firstBlocks'[0] = LongOf(n) /\ (phase' = "done" => firstBlocks'[1] = LongOf(n))
  <2>1. CASE blk = 0
    BY <1>1, <1>5, <1>6, <2>1
  <2>2. CASE blk = 1
    BY <1>1, <1>2, <1>5, <1>6, <2>2
  <2>3. QED
    BY <1>1, <2>1, <2>2
<1>10. LongPart'
  BY <1>1, <1>2, <1>7, <1>9 DEF LongPart
<1>11. PrehashPart'
  BY <1>a, <1>1, <1>7, PrehashStays
<1>12. QED
  BY <1>8, <1>10, <1>11 DEF DigestInductive

(* The invariant gives what the run checks.                                 *)
LEMMA DigestFollows == DigestInductive => DigestInvariant
<1>a. SUFFICES ASSUME DigestInductive PROVE DigestInvariant
  OBVIOUS
<1>1. /\ job \in Jobs /\ phase \in {"absorb", "expand", "done"}
      /\ \E k \in 0..Len(Pieces(job)) : todo = SubSeq(Pieces(job), k + 1, Len(Pieces(job)))
      /\ blk \in {0, 1} /\ v \in Nat /\ left \in Nat /\ firstBlocks \in [{0, 1} -> Seq(Outputs)]
  BY <1>a DEF DigestInductive, DigestTyped
<1>2. DigestTypeOK
  <2>1. /\ job.impl \in Impls /\ job.block \in BlockSizes /\ job.key \in KeyLengths
        /\ job.salt \in SaltLengths /\ job.long \in LongLengths
    BY <1>1 DEF Jobs
  <2>2. DOMAIN firstBlocks = {0, 1}
    BY <1>1
  <2>3. ASSUME NEW b \in {0, 1}, NEW i \in DOMAIN firstBlocks[b]
        PROVE  firstBlocks[b][i] \in Nat \X (1..DigestSize)
    <3>1. firstBlocks[b] \in Seq(Outputs)
      BY <1>1
    <3>2. firstBlocks[b][i] \in Outputs
      BY <2>3, <3>1
    <3>3. QED
      BY <3>2 DEF Outputs
  <2>4. QED
    BY <1>1, <2>1, <2>2, <2>3 DEF DigestTypeOK
<1>3. StreamIndependentOfPieces
  <2>1. SUFFICES ASSUME phase = "absorb"
                 PROVE  /\ h.chain = StreamOf(Consumed, job.block)
                        /\ h.buf = SubSeq(Consumed, Blocks(Consumed, job.block) * job.block + 1, Len(Consumed))
    BY DEF StreamIndependentOfPieces
  <2>2. PICK m : m \in Seq(Words) /\ m \o FlattenSeq(todo) = FlattenSeq(CpuPieces(job)) /\ HashedTo(h, m, job.block)
    BY <1>a, <2>1 DEF DigestInductive, PrehashPart, Absorbed
  <2>3. FlattenSeq(todo) \in Seq(Words)
    BY <1>1, RestTyped
  <2>4. PICK f : f = FlattenSeq(todo) /\ f \in Seq(Words)
    BY <2>3
  <2>5. SubSeq(m \o f, 1, Len(m \o f) - Len(f)) = m
    BY <2>2, <2>4, BeforeCut
  <2>6. Consumed = m
    BY <2>2, <2>4, <2>5 DEF Consumed, Message
  <2>7. QED
    BY <2>2, <2>6 DEF HashedTo
<1>4. PrehashAgrees
  BY <1>a DEF DigestInductive, PrehashPart, Prehashed, PrehashAgrees, Message
<1>5. LongDigestRight
  <2>1. phase = "done" => firstBlocks[0] = LongOf(job.long) /\ firstBlocks[1] = LongOf(job.long)
    BY <1>a DEF DigestInductive, LongPart
  <2>2. QED
    BY <2>1, LongReferenceIs DEF LongDigestRight
<1>6. QED
  BY <1>2, <1>3, <1>4, <1>5 DEF DigestInvariant

(* The first two blocks of a hash are right, whichever implementation       *)
(* produces them: for every block size, digest size, counter width, key,    *)
(* salt and output length, update() compresses what the bytes determine     *)
(* and not how they are cut, final() closes the whole message, and the long *)
(* digest is Argon2's, with no byte short or over (Blake2b::update, final,  *)
(* digestLong, initialHash and their GPU forms).                            *)
THEOREM DigestSound == DigestSpec => []DigestInvariant
<1>1. DigestInit => DigestInductive
  BY DigestStarts
<1>2. DigestInductive /\ [DigestNext]_digestVars => DigestInductive'
  <2>1. SUFFICES ASSUME DigestInductive, [DigestNext]_digestVars PROVE DigestInductive'
    OBVIOUS
  <2>2. CASE UNCHANGED digestVars
    BY <2>1, <2>2 DEF digestVars, DigestInductive, DigestTyped, PrehashPart, LongPart, Absorbed, Expanding
  <2>3. CASE Done
    BY <2>1, <2>2, <2>3 DEF Done
  <2>4. QED
    BY <2>1, <2>2, <2>3, AbsorbKeeps, FinishKeeps, BeginKeeps, NextKeeps, LastKeeps DEF DigestNext
<1>3. DigestInductive => DigestInvariant
  BY DigestFollows
<1>4. QED
  BY <1>1, <1>2, <1>3, PTL DEF DigestSpec
=============================================================================
