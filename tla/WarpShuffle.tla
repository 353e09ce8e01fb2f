----------------------------- MODULE WarpShuffle ----------------------------
(***************************************************************************)
(* shuffle_block: Argon2's permutation of a 128-word block, spread over    *)
(* the 32 threads of a warp with four registers each.  Between the four    *)
(* mixing rounds (g mixes the four registers of each thread) words move    *)
(* between threads so that the right four meet.  IndexedRefTable.cpp has   *)
(* the same on the host, a loop over an array of 32 lanes that must read a *)
(* snapshot where the warp exchanges registers at once.                    *)
(*                                                                         *)
(* A register holds the number of the word it carries: mixing changes the  *)
(* word's value and not its place, so g leaves the warp as it is.          *)
(***************************************************************************)
EXTENDS Naturals, Sequences, FiniteSets, Bitwise

Threads == 0..31
Regs == 0..3        \* a, b, c, d
Words == 0..127

VARIABLES
    impl,      \* "gpu" or "host"
    stage,     \* position in shuffle_block
    warp,      \* warp[thread][register]: the word held
    snap,      \* the host's copy of the warp before the stage
    thread     \* the host's loop: next thread to write

warpVars == <<impl, stage, warp, snap, thread>>

\* load_block, store_block, block_l_store and block_l_load_xor: register r of
\* thread t is word 32 r + t of the block.
LoadBlock == [t \in Threads |-> [r \in Regs |-> r * 32 + t]]

\* Where extract_ref_index looks for address word i.
AddressPlace(i) == <<i % 32, i \div 32>>

(***************************************************************************)
(* Each move: which thread and register the new value of (t, r) is read    *)
(* from.                                                                   *)
(***************************************************************************)
Group(t) == (t & 12) \div 4

\* transpose: what thread groups send in the three exchanges, with the groups
\* whose number differs by 1, 2 and 3, and which exchange a register receives
\* (0 = it keeps its own).
Sent == <<<<1, 0, 3, 2>>, <<2, 3, 0, 1>>, <<3, 2, 1, 0>>>>
Received == <<<<0, 1, 2, 3>>, <<1, 0, 3, 2>>, <<2, 3, 0, 1>>, <<3, 2, 1, 0>>>>

Transpose(t, r) ==
    LET m == Received[r + 1][Group(t) + 1]
        s == t ^^ (4 * m)
    IN  IF m = 0 THEN <<t, r>> ELSE <<s, Sent[m][Group(s) + 1]>>

\* shift1 and its inverse rotate b, c and d among four neighbouring threads.
Shift1(t, r) ==
    CASE r = 0 -> <<t, r>>
      [] r = 1 -> <<(t & 28) | ((t + 1) & 3), r>>
      [] r = 2 -> <<t ^^ 2, r>>
      [] r = 3 -> <<(t & 28) | ((t + 3) & 3), r>>

\* Broken unshift1_shuffle: it turns the same way as shift1.
Unshift1Forward(t, r) == Shift1(t, r)

Unshift1(t, r) ==
    CASE r = 0 -> <<t, r>>
      [] r = 1 -> <<(t & 28) | ((t + 3) & 3), r>>
      [] r = 2 -> <<t ^^ 2, r>>
      [] r = 3 -> <<(t & 28) | ((t + 1) & 3), r>>

\* shift2 and its inverse rotate among the threads that differ in bits 0 and 4.
Lo(t) == (t & 1) | ((t & 16) \div 8)
Across(t, k) == (((Lo(t) + k) & 2) * 8) | (t & 14) | ((Lo(t) + k) & 1)

\* Broken shift2_shuffle: c is exchanged with the neighbour of shift1.
Shift2NearC(t, r) ==
    CASE r = 0 -> <<t, r>>
      [] r = 1 -> <<Across(t, 1), r>>
      [] r = 2 -> <<t ^^ 2, r>>
      [] r = 3 -> <<Across(t, 3), r>>

Shift2(t, r) ==
    CASE r = 0 -> <<t, r>>
      [] r = 1 -> <<Across(t, 1), r>>
      [] r = 2 -> <<t ^^ 16, r>>
      [] r = 3 -> <<Across(t, 3), r>>

Unshift2(t, r) ==
    CASE r = 0 -> <<t, r>>
      [] r = 1 -> <<Across(t, 3), r>>
      [] r = 2 -> <<t ^^ 16, r>>
      [] r = 3 -> <<Across(t, 1), r>>

ShuffleBlock ==
    <<"transpose", "g", "shift1", "g", "unshift1", "transpose", "g", "shift2", "g", "unshift2">>

Source(s, t, r) ==
    CASE ShuffleBlock[s] = "transpose" -> Transpose(t, r)
      [] ShuffleBlock[s] = "shift1" -> Shift1(t, r)
      [] ShuffleBlock[s] = "unshift1" -> Unshift1(t, r)
      [] ShuffleBlock[s] = "shift2" -> Shift2(t, r)
      [] ShuffleBlock[s] = "unshift2" -> Unshift2(t, r)

Gathered(from, s, t) == [r \in Regs |-> LET p == Source(s, t, r) IN from[p[1]][p[2]]]

WarpInit ==
    /\ impl \in {"gpu", "host"}
    /\ stage = 1
    /\ warp = LoadBlock
    /\ snap = LoadBlock
    /\ thread = 0

More == stage <= Len(ShuffleBlock)

\* A mixing round: places do not change.
Mix ==
    /\ More /\ ShuffleBlock[stage] = "g"
    /\ stage' = stage + 1
    /\ snap' = warp
    /\ UNCHANGED <<impl, warp, thread>>

\* The warp's exchange: every thread reads before any register is written.
WarpMove ==
    /\ impl = "gpu" /\ More /\ ShuffleBlock[stage] # "g"
    /\ warp' = [t \in Threads |-> Gathered(warp, stage, t)]
    /\ snap' = warp'
    /\ stage' = stage + 1
    /\ UNCHANGED <<impl, thread>>

\* The host reads the snapshot, never the lanes it has already written.
HostReads == snap

\* One turn of the host's loop, and the snapshot for the next stage.
HostMove ==
    /\ impl = "host" /\ More /\ ShuffleBlock[stage] # "g" /\ thread < 32
    /\ warp' = [warp EXCEPT ![thread] = Gathered(HostReads, stage, thread)]
    /\ thread' = thread + 1
    /\ UNCHANGED <<impl, stage, snap>>

HostStageEnds ==
    /\ impl = "host" /\ More /\ thread = 32
    /\ stage' = stage + 1
    /\ thread' = 0
    /\ snap' = warp
    /\ UNCHANGED <<impl, warp>>

Shuffled == ~More /\ UNCHANGED warpVars

WarpNext == Mix \/ WarpMove \/ HostMove \/ HostStageEnds \/ Shuffled

WarpSpec == WarpInit /\ [][WarpNext]_warpVars

-----------------------------------------------------------------------------
\* Argon2's rounds: the block is an 8 by 16 matrix of words.  The first two
\* rounds mix each row of 16, the other two each column of pairs; of the 16, x
\* is the position, mixed first with those of its column in a 4 by 4 square,
\* then with those of its diagonal.  A group is named by a pair.
Row(w) == <<w \div 16, w % 16>>
Column(w) == <<(w % 16) \div 2, 2 * (w \div 16) + (w % 2)>>
Sixteen(round, w) == IF round <= 2 THEN Row(w) ELSE Column(w)
Place(x) == x \div 4
Mates(round, w) ==
    LET s == Sixteen(round, w)
    IN  <<s[1], IF round \in {1, 3} THEN s[2] % 4 ELSE (s[2] + 4 - Place(s[2])) % 4>>

Round == Cardinality({s \in 1..stage : ShuffleBlock[s] = "g"})
Mixing == stage <= Len(ShuffleBlock) /\ ShuffleBlock[stage] = "g"

\* Whenever the registers of a thread are mixed, they hold the four words the
\* round of Argon2 mixes, in the order it takes them, and every word is there.
MixesTheRightWords ==
    Mixing =>
        /\ {warp[t][r] : t \in Threads, r \in Regs} = Words
        /\ \A t \in Threads, r \in Regs :
             /\ Place(Sixteen(Round, warp[t][r])[2]) = r
             /\ Mates(Round, warp[t][r]) = Mates(Round, warp[t][0])

\* After the last move every word is back where load_block put it, so that
\* store_block writes it to its own place and the reference index of address
\* word i is read from word i.
WordsReturn ==
    stage = Len(ShuffleBlock) + 1 =>
        \A i \in Words : warp[AddressPlace(i)[1]][AddressPlace(i)[2]] = i

\* The shuffles of shuffle_block carry every word to where it is mixed, and back.
WarpInvariant == MixesTheRightWords /\ WordsReturn
=============================================================================
