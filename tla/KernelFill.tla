----------------------------- MODULE KernelFill -----------------------------
(***************************************************************************)
(* The Argon2 kernels: a grid of blocks of warps, each warp filling the    *)
(* memory of one hash, four slices of seg blocks, from the two first       *)
(* blocks on.  Each new block refers to an earlier one; in slices 0 and 1  *)
(* the reference comes from a stream of address blocks that is the same    *)
(* for every hash, so that the host can put it in a table beforehand       *)
(* (argon2_kernel_oneshot_precomputed).                                    *)
(*                                                                         *)
(* An address word is a name: the input counters of its address block and  *)
(* its index there; its value may be any 32-bit word.                      *)
(***************************************************************************)
EXTENDS Integers, Sequences, FiniteSets

CONSTANTS
    Word,        \* 2^32
    Qwords,      \* address words per address block (128 in the code)
    BatchSizes, WarpsPerBlock, SegmentBlocks

ASSUME KernelAssumption ==
    /\ Word \in Nat \ {0} /\ Qwords \in Nat \ {0, 1}
    /\ BatchSizes \subseteq Nat \ {0} /\ WarpsPerBlock \subseteq Nat \ {0}
    /\ SegmentBlocks \subseteq Nat \ {0, 1}

VARIABLES
    geometry,  \* [n, warps, seg, pre]: batch size, warps per block, ...
    gen,       \* the host's generator of the table
    table,     \* the table so far
    w,         \* the warps, by <<block, warp>>; empty before the launch
    writes     \* how often each block of device memory was written

kernelVars == <<geometry, gen, table, w, writes>>

(***************************************************************************)
(* Launch geometry.                                                        *)
(***************************************************************************)
\* Broken makeOneshotLaunch: the last, partly used block is not launched.
GridFloor(n, warps) == n \div warps

Grid(n, warps) == (n + warps - 1) \div warps

MakeOneshotLaunch(n, warps) == (0..(Grid(n, warps) - 1)) \X (0..(warps - 1))

JobId(id, warps) == id[1] * warps + id[2]

(***************************************************************************)
(* References.                                                             *)
(***************************************************************************)
Umulhi(x, y) == (x * y) \div Word

\* Broken compute_ref_pos: the block before is in the area.
ComputeRefPosWide(seg, slice, off, raw) ==
    LET area == slice * seg + off
    IN  area - 1 - Umulhi(area, Umulhi(raw, raw))

\* compute_ref_pos, on the device and on the host.
ComputeRefPos(seg, slice, off, raw) ==
    LET area == slice * seg + off - 1
    IN  area - 1 - Umulhi(area, Umulhi(raw, raw))

\* The address inputs that change: the slice (thread 2) and the counter
\* (thread 6), and the address block generated from them last.
StartAddresses == [slice |-> 0, count |-> 1, addr |-> <<0, 1>>]

\* argon2_step_indexed, at a multiple of the address block's size: a new block.
NextAddresses(a, off) ==
    IF off % Qwords = 0
    THEN [a EXCEPT !.count = a.count + 1, !.addr = <<a.slice, a.count + 1>>]
    ELSE a

\* Broken change of slice: the counter runs on.
SecondSliceNoReset(a) == [a EXCEPT !.slice = a.slice + 1]

SecondSlice(a) == [a EXCEPT !.slice = a.slice + 1, !.count = 0]

\* The word a step reads, and where it puts its reference.
Ref(a, slice, off) == [addr |-> a.addr, index |-> off % Qwords, slice |-> slice, off |-> off]

\* Broken loop: one offset past the segment.
NextPlaceLate(seg, p) == IF p.off < seg THEN [slice |-> p.slice, off |-> p.off + 1]
                         ELSE [slice |-> p.slice + 1, off |-> 0]

\* The loops over slices and offsets: the next place, slice 0 from offset 2.
NextPlace(seg, p) == IF p.off + 1 < seg THEN [slice |-> p.slice, off |-> p.off + 1]
                     ELSE [slice |-> p.slice + 1, off |-> 0]
FirstPlace(seg) == NextPlace(seg, [slice |-> 0, off |-> 1])

\* A walker: its place and its address inputs there.
Walk(a, from, to) == IF from = 0 /\ to.slice = 1 THEN SecondSlice(a) ELSE a
StartWalk(seg) ==
    [place |-> FirstPlace(seg), a |-> Walk(StartAddresses, 0, FirstPlace(seg))]
StepWalk(seg, k) ==
    LET a == NextAddresses(k.a, k.place.off)
    IN  [place |-> NextPlace(seg, k.place),
         a |-> IF k.place.slice <= 1 THEN Walk(a, k.place.slice, NextPlace(seg, k.place)) ELSE k.a]

(***************************************************************************)
(* The table: slice 0 from offset 2, then slice 1.                         *)
(***************************************************************************)
IndexedRefCount(seg) == 2 * seg - 2

IndexedRefIndex(slice, off, seg) == IF slice = 0 THEN off - 2 ELSE (seg - 2) + off

(***************************************************************************)
(* The steps.                                                              *)
(***************************************************************************)
Lane == 4 * geometry.seg
Running(id) == w[id].k.place.slice < 4 /\ w[id].job < geometry.n
AddressesAt(k) == NextAddresses(k.a, k.place.off)

\* The reference the walker's next step uses, from the stream or the table.
RefOf(k) ==
    IF geometry.pre THEN table[IndexedRefIndex(k.place.slice, k.place.off, geometry.seg) + 1]
    ELSE Ref(AddressesAt(k), k.place.slice, k.place.off)

KernelTypeOK ==
    /\ geometry.n \in BatchSizes /\ geometry.warps \in WarpsPerBlock /\ geometry.seg \in SegmentBlocks
    /\ geometry.pre \in BOOLEAN
    /\ Len(table) <= IndexedRefCount(geometry.seg)
    /\ DOMAIN writes = 0..(geometry.n * Lane - 1)
    /\ \A id \in DOMAIN w : w[id].curr \in 2..Lane /\ w[id].k.place.off \in 0..(geometry.seg - 1)

KernelInit ==
    /\ geometry \in [n : BatchSizes, warps : WarpsPerBlock, seg : SegmentBlocks, pre : BOOLEAN]
    /\ gen = StartWalk(geometry.seg)
    /\ table = <<>>
    /\ w = <<>>
    /\ writes = [i \in 0..(geometry.n * Lane - 1) |-> IF i % Lane < 2 THEN 1 ELSE 0]

\* One entry of generateIndexedRefTable.
GenerateRef ==
    /\ geometry.pre /\ Len(table) < IndexedRefCount(geometry.seg)
    /\ table' = Append(table, Ref(AddressesAt(gen), gen.place.slice, gen.place.off))
    /\ gen' = StepWalk(geometry.seg, gen)
    /\ UNCHANGED <<geometry, w, writes>>

Launch ==
    /\ w = <<>>
    /\ geometry.pre => Len(table) = IndexedRefCount(geometry.seg)
    /\ w' = [id \in MakeOneshotLaunch(geometry.n, geometry.warps) |->
               [job |-> JobId(id, geometry.warps), curr |-> 2, k |-> StartWalk(geometry.seg)]]
    /\ UNCHANGED <<geometry, gen, table, writes>>

\* A warp writes its next block.
FillBlock(id) ==
    /\ Running(id)
    /\ writes' = [writes EXCEPT ![w[id].job * Lane + w[id].curr] = @ + 1]
    /\ w' = [w EXCEPT ![id].curr = @ + 1, ![id].k = StepWalk(geometry.seg, w[id].k)]
    /\ UNCHANGED <<geometry, gen, table>>

KernelDone ==
    /\ w # <<>> /\ \A id \in DOMAIN w : ~Running(id)
    /\ UNCHANGED kernelVars

KernelNext == GenerateRef \/ Launch \/ (\E id \in DOMAIN w : FillBlock(id)) \/ KernelDone

KernelSpec == KernelInit /\ [][KernelNext]_kernelVars

-----------------------------------------------------------------------------
\* Every hash of the batch is filled, once and completely, whatever the number
\* of warps a block packs: no block of device memory is ever written twice,
\* and when the grid is done none was left out.
FilledOnce ==
    /\ \A i \in DOMAIN writes : writes[i] <= 1
    /\ w # <<>> /\ (\A id \in DOMAIN w : ~Running(id)) => \A i \in DOMAIN writes : writes[i] = 1

\* The reference of the next step, whatever the 32-bit word it comes from, is a
\* block of the same hash that has been written and is not the one just before.
RefsAreWritten ==
    \A id \in DOMAIN w : Running(id) =>
        \A raw \in 0..(Word - 1) :
            LET r == ComputeRefPos(geometry.seg, w[id].k.place.slice, w[id].k.place.off, raw)
            IN  r \in 0..(w[id].curr - 2) /\ writes[w[id].job * Lane + r] = 1

\* In slices 0 and 1 the address word used is Argon2's: of the slice's address
\* block number off / Qwords + 1, the word off % Qwords; and the table the host
\* made beforehand has that same word at the place the kernel looks.
AddressStream ==
    \A id \in DOMAIN w : Running(id) /\ w[id].k.place.slice <= 1 =>
        LET p == w[id].k.place
        IN  RefOf(w[id].k) =
              [addr |-> <<p.slice, (p.off \div Qwords) + 1>>, index |-> p.off % Qwords,
               slice |-> p.slice, off |-> p.off]

\* The fill is complete and refers to what is written, by the addresses of
\* Argon2, for every launch geometry, with and without a precomputed table.
KernelInvariant == KernelTypeOK /\ FilledOnce /\ RefsAreWritten /\ AddressStream
=============================================================================
