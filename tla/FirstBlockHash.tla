--------------------------- MODULE FirstBlockHash ---------------------------
(***************************************************************************)
(* The first two blocks of a hash: Argon2's prehash of the parameters, the *)
(* key and the salt, and the long digest that stretches it to two blocks.  *)
(* The code has it three times, fed in different pieces: on the CPU for    *)
(* the parameters this program uses, on the CPU in general form, and in    *)
(* the GPU kernel.  Lanes use the first or the last; the general form is   *)
(* for a secret or associated data.  Where they overlap, they must agree.  *)
(*                                                                         *)
(* Blake2b's compression is a symbol: a hasher is the list of blocks it    *)
(* compressed with their counters.  The hasher's block, the digest and the *)
(* integer width of the counter are small parameters, so that every        *)
(* alignment of the pieces with the block boundary occurs.                 *)
(***************************************************************************)
EXTENDS Integers, Sequences, SequencesExt

CONSTANTS
    BlockSizes,     \* BLOCK_BYTES of the hasher, in 32-bit words
    KeyLengths,     \* lengths of the key
    SaltLengths,    \* lengths of the decoded salt
    DigestSize,     \* OUT_BYTES
    LongLengths,    \* lengths asked of the long digest
    CounterMod      \* the width of t[0]: it counts modulo this

ASSUME SizesAssumption ==
    /\ BlockSizes \subseteq Nat \ {0} /\ LongLengths \subseteq Nat \ {0}
    /\ KeyLengths \subseteq Nat /\ SaltLengths \subseteq Nat
    /\ DigestSize \in Nat \ {0} /\ DigestSize % 2 = 0 /\ CounterMod \in Nat \ {0, 1}
    /\ \A b \in BlockSizes : b < CounterMod

VARIABLES
    job,          \* [impl, block, key, salt, long]
    phase,        \* "absorb", "expand" or "done"
    todo,         \* the pieces still to be passed to update()
    h,            \* the hasher: [chain, t0, t1, buf]
    blk,          \* which of the two first blocks is being produced
    v,            \* which digest out_buffer holds: 1, 2, ...
    left,         \* to_produce
    firstBlocks   \* the two first blocks, as far as they are written

digestVars == <<job, phase, todo, h, blk, v, left, firstBlocks>>

Impls == {"cpu", "cpuGeneral", "gpu"}

(***************************************************************************)
(* What is hashed, piece by piece.                                         *)
(***************************************************************************)
Param(name) == <<name, 0>>
Bytes(name, n) == [i \in 1..n |-> <<name, i>>]
U32(x) == <<"u32", x>>

CpuHeader(p) ==
    <<Param("lanes"), Param("outLen"), Param("m_cost"), Param("t_cost"), Param("version"),
      Param("type"), U32(p.key)>>
GpuHeader(p) ==
    <<Param("lanes"), Param("outLen"), Param("m_cost"), Param("t_cost"), Param("version"),
      Param("type"), U32(p.key)>>

\* initialHash with neither secret nor associated data.
CpuPieces(p) ==
    <<CpuHeader(p), Bytes("key", p.key), <<U32(p.salt)>>, Bytes("salt", p.salt), <<U32(0), U32(0)>>>>

\* initialHash's general form, which the code takes when there is a secret or
\* associated data, here with both of length zero: a word at a time.
GeneralPieces(p) ==
    [i \in 1..7 |-> <<CpuHeader(p)[i]>>]
    \o <<Bytes("key", p.key), <<U32(p.salt)>>, Bytes("salt", p.salt),
         <<U32(0)>>, <<>>, <<U32(0)>>, <<>>>>

\* device_initial_hash.
GpuPieces(p) ==
    <<GpuHeader(p), Bytes("key", p.key), <<U32(p.salt)>>, Bytes("salt", p.salt), <<U32(0)>>, <<U32(0)>>>>

Pieces(p) ==
    CASE p.impl = "cpu" -> CpuPieces(p)
      [] p.impl = "cpuGeneral" -> GeneralPieces(p)
      [] p.impl = "gpu" -> GpuPieces(p)

(***************************************************************************)
(* The hasher.                                                             *)
(***************************************************************************)
BlakeInit == [chain |-> <<>>, t0 |-> 0, t1 |-> 0, buf |-> <<>>]

\* Broken incrementCounter: the carry into t[1] is lost.
IncrementCounterNoCarry(s, inc) == [s EXCEPT !.t0 = (s.t0 + inc) % CounterMod]

\* t[0] wraps; the wrap shows as a sum smaller than what was added.
IncrementCounter(s, inc) ==
    LET t == (s.t0 + inc) % CounterMod
    IN  [s EXCEPT !.t0 = t, !.t1 = s.t1 + (IF t < inc THEN 1 ELSE 0)]

Compress(s, block, last) ==
    [s EXCEPT !.chain = Append(@, [block |-> block, count |-> s.t1 * CounterMod + s.t0, last |-> last])]

\* The full blocks of in[from..] that update() compresses straight from the
\* input: as long as more than a block is left.
WholeBlocks(s, in, from, b) ==
    LET n == Len(in) - from + 1
        k == IF n = 0 THEN 0 ELSE (n - 1) \div b
        after[i \in 0..k] ==
            IF i = 0 THEN s
            ELSE Compress(IncrementCounter(after[i - 1], b),
                          SubSeq(in, from + (i - 1) * b, from + i * b - 1), FALSE)
    IN  [s |-> after[k], from |-> from + k * b]

\* Broken update: a block that is exactly full is compressed at once, before it
\* is known whether it is the last.
UpdateEager(s, in, b) ==
    IF Len(s.buf) + Len(in) >= b
    THEN LET gap == b - Len(s.buf)
             s1  == Compress(IncrementCounter(s, b), s.buf \o SubSeq(in, 1, gap), FALSE)
             w   == WholeBlocks([s1 EXCEPT !.buf = <<>>], in, gap + 1, b)
         IN  [w.s EXCEPT !.buf = SubSeq(in, w.from, Len(in))]
    ELSE [s EXCEPT !.buf = s.buf \o in]

Update(s, in, b) ==
    IF Len(s.buf) + Len(in) > b
    THEN LET gap == b - Len(s.buf)
             s1  == Compress(IncrementCounter(s, b), s.buf \o SubSeq(in, 1, gap), FALSE)
             w   == WholeBlocks([s1 EXCEPT !.buf = <<>>], in, gap + 1, b)
         IN  [w.s EXCEPT !.buf = SubSeq(in, w.from, Len(in))]
    ELSE [s EXCEPT !.buf = s.buf \o in]

\* Padding is what the reference pads with as well: the length is the block's.
Final(s, b) == Compress(IncrementCounter(s, Len(s.buf)), s.buf, TRUE)

(***************************************************************************)
(* The steps.                                                              *)
(***************************************************************************)
DigestTypeOK ==
    /\ job.impl \in Impls /\ job.block \in BlockSizes /\ job.key \in KeyLengths
    /\ job.salt \in SaltLengths /\ job.long \in LongLengths
    /\ phase \in {"absorb", "expand", "done"}
    /\ \E k \in 0..Len(Pieces(job)) : todo = SubSeq(Pieces(job), k + 1, Len(Pieces(job)))
    /\ blk \in {0, 1} /\ v \in Nat /\ left \in Nat
    /\ DOMAIN firstBlocks = {0, 1}
    /\ \A b \in {0, 1} : \A i \in DOMAIN firstBlocks[b] : firstBlocks[b][i] \in Nat \X (1..DigestSize)

DigestInit ==
    /\ job \in [impl : Impls, block : BlockSizes, key : KeyLengths, salt : SaltLengths, long : LongLengths]
    /\ phase = "absorb"
    /\ todo = Pieces(job)
    /\ h = BlakeInit
    /\ blk = 0 /\ v = 0 /\ left = 0
    /\ firstBlocks = [b \in {0, 1} |-> <<>>]

\* One call of update(), and final() after the last.
Absorb ==
    /\ phase = "absorb" /\ todo # <<>>
    /\ h' = Update(h, Head(todo), job.block)
    /\ todo' = Tail(todo)
    /\ UNCHANGED <<job, phase, blk, v, left, firstBlocks>>

FinishPrehash ==
    /\ phase = "absorb" /\ todo = <<>>
    /\ h' = Final(h, job.block)
    /\ phase' = "expand"
    /\ UNCHANGED <<job, todo, blk, v, left, firstBlocks>>

Half == DigestSize \div 2

\* Bytes 1..n of digest number k of block b.
Take(k, n) == [i \in 1..n |-> <<k, i>>]

\* Broken digestLong: the short output is not told apart.
StillOwedAlways(n) == n - Half

\* What is left to produce after the first digest.
StillOwed(n) == IF n <= DigestSize THEN 0 ELSE n - Half

\* digestLong begins on a block: short output in one digest, or the first
\* half of the first digest.
BeginDigest ==
    /\ phase = "expand" /\ v = 0
    /\ v' = 1
    /\ left' = StillOwed(job.long)
    /\ firstBlocks' = [firstBlocks EXCEPT ![blk] = Take(1, IF job.long <= DigestSize THEN job.long ELSE Half)]
    /\ UNCHANGED <<job, phase, todo, h, blk>>

\* Broken digestLong: the loop also runs when exactly one digest is left.
MoreDigestsEqual == left >= DigestSize

\* The loop: a digest of the digest, half of it put out, as long as more than
\* a whole digest is left.
MoreDigests == left > DigestSize

NextDigest ==
    /\ phase = "expand" /\ v > 0 /\ MoreDigests
    /\ v' = v + 1
    /\ firstBlocks' = [firstBlocks EXCEPT ![blk] = @ \o Take(v + 1, Half)]
    /\ left' = left - Half
    /\ UNCHANGED <<job, phase, todo, h, blk>>

\* The last digest is as long as what is left; then the second block, and done.
LastDigest ==
    /\ phase = "expand" /\ v > 0 /\ ~MoreDigests
    /\ firstBlocks' = [firstBlocks EXCEPT ![blk] = @ \o Take(v + 1, left)]
    /\ v' = 0 /\ left' = 0
    /\ IF blk = 0 THEN blk' = 1 /\ phase' = phase ELSE blk' = blk /\ phase' = "done"
    /\ UNCHANGED <<job, todo, h>>

Done == phase = "done" /\ UNCHANGED digestVars

DigestNext == Absorb \/ FinishPrehash \/ BeginDigest \/ NextDigest \/ LastDigest \/ Done

DigestSpec == DigestInit /\ [][DigestNext]_digestVars

-----------------------------------------------------------------------------
\* What a hasher must have compressed after the bytes m: every full block but
\* one that might be the last, each with the count of bytes up to its end.
Blocks(m, b) == IF m = <<>> THEN 0 ELSE (Len(m) - 1) \div b
StreamOf(m, b) ==
    [i \in 1..Blocks(m, b) |->
        [block |-> SubSeq(m, (i - 1) * b + 1, i * b), count |-> i * b, last |-> FALSE]]

Message == FlattenSeq(CpuPieces(job))
Consumed == SubSeq(Message, 1, Len(Message) - Len(FlattenSeq(todo)))

\* However the input is cut into pieces, update() leaves what the bytes so far
\* determine: the full blocks compressed with their counters, the rest (at
\* least a byte of it, at most a block) in the buffer.  All three
\* implementations, so, hash the same message.
StreamIndependentOfPieces ==
    phase = "absorb" =>
        /\ h.chain = StreamOf(Consumed, job.block)
        /\ h.buf = SubSeq(Consumed, Blocks(Consumed, job.block) * job.block + 1, Len(Consumed))

\* The finished prehash: the whole message, the last block marked last and
\* counted to the message's length, whichever implementation ran.
PrehashAgrees ==
    phase # "absorb" =>
        h.chain = Append(StreamOf(Message, job.block),
                         [block |-> SubSeq(Message, Blocks(Message, job.block) * job.block + 1, Len(Message)),
                          count |-> Len(Message), last |-> TRUE])

\* Argon2's variable-length digest: r half digests and a last one for the rest.
Rounds == IF job.long <= DigestSize THEN 0 ELSE ((job.long + Half - 1) \div Half) - 2
LongReference ==
    [i \in 1..job.long |->
        LET k == (i - 1) \div Half
        IN  IF k < Rounds THEN <<k + 1, ((i - 1) % Half) + 1>> ELSE <<Rounds + 1, i - Rounds * Half>>]

\* Both first blocks are exactly the long digest of the length asked for: the
\* half digests in order and no byte short or over at the end.
LongDigestRight == phase = "done" => \A b \in {0, 1} : firstBlocks[b] = LongReference

\* The first blocks are the same, and right, on every implementation: update()
\* at every cut, final() at every length, the long digest at every boundary.
DigestInvariant == DigestTypeOK /\ StreamIndependentOfPieces /\ PrehashAgrees /\ LongDigestRight
=============================================================================
