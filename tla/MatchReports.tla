---------------------------- MODULE MatchReports ----------------------------
(***************************************************************************)
(* From the digests of a batch to the finds that are handed on: the GPU    *)
(* backend finalizes the outputs chunk by chunk through one reused buffer  *)
(* (hashapi/CudaHashBackend.cpp), the CPU backend matches attempt by       *)
(* attempt against the whole PHC string (hashapi/CpuHashBackend.cpp); the  *)
(* mining loop then hands each match to the submit callback with the       *)
(* attempts made since the last one (MineUnit.cpp, CpuMiningWorker.cpp).   *)
(*                                                                         *)
(* A digest is the set of patterns it contains. A PHC string contains its  *)
(* salt too, which may hold the pattern by itself.                         *)
(***************************************************************************)
EXTENDS Integers, Sequences, SequencesExt, FiniteSets

CONSTANTS
  Chunk,        \* kFinalizeTimingChunkSize
  Sizes,        \* batch sizes
  MaxBatches    \* bound: batches mined

ASSUME ReportsAssumption ==
  Chunk \in Nat \ {0} /\ Sizes \subseteq Nat \ {0} /\ MaxBatches \in Nat

Kinds == {"target", "xuni"}

VARIABLES
  gpu,         \* which of the two backends
  salted,      \* the salt itself contains the pattern
  allow,       \* HashApiRequest::allow_xuni
  digest,      \* of each attempt
  buffer,      \* finalized_hashes
  begin,       \* the next chunk
  matches,     \* HashApiResult::matches
  next,        \* nextAttemptIndex
  attempts,    \* MineUnit::attempts, attempts_since_match
  reports,     \* history: what this batch handed to the callback
  reported, hashed, lost,   \* history: attempts in all
  batches, at

matchVars == <<gpu, salted, allow, digest, buffer, begin, matches, next, attempts,
          reports, reported, hashed, lost, batches, at>>

Size == Cardinality(DOMAIN digest)

(***************************************************************************)
(* Matching.                                                               *)
(***************************************************************************)
\* appendMatches: the matches of one hash, the target's first.
AppendMatches(key, hash) ==
  (IF "target" \in hash THEN <<[key |-> key, kind |-> "target"]>> ELSE <<>>)
    \o (IF allow /\ "xuni" \in hash THEN <<[key |-> key, kind |-> "xuni"]>> ELSE <<>>)

End == IF begin + Chunk < Size THEN begin + Chunk ELSE Size

\* Broken: the key is looked up by the place in the buffer.
ChunkMatchesByOffset(buf) ==
  FlattenSeq([o \in 1..(End - begin) |-> AppendMatches(o - 1, buf[o - 1])])

ChunkMatches(buf) ==
  FlattenSeq([o \in 1..(End - begin) |-> AppendMatches(begin + o - 1, buf[o - 1])])

\* hasher.generateHash: what the PHC string of an attempt contains.
Phc(i) == digest[i] \cup (IF salted THEN {"target"} ELSE {})

\* digestMatches; the GPU's matches are of digests already.
Genuine(m) == gpu \/ m.kind \in digest[m.key]

-----------------------------------------------------------------------------
MatchTypeOK ==
  /\ {gpu, salted, allow} \subseteq BOOLEAN
  /\ Size \in Sizes /\ digest \in [0..(Size - 1) -> SUBSET Kinds]
  /\ begin \in 0..Size /\ next \in 0..Size
  /\ matches \in Seq([key : 0..(Size - 1), kind : Kinds])
  /\ {attempts, reported, hashed, lost} \subseteq Nat
  /\ at \in {"batch", "match", "submit", "counted"}

NewBatch ==
  /\ allow' \in BOOLEAN
  /\ \E n \in Sizes : digest' \in [0..(n - 1) -> SUBSET Kinds]
  /\ buffer' = [o \in 0..(Chunk - 1) |-> {}]
  /\ begin' = 0 /\ matches' = <<>> /\ next' = 0 /\ reports' = <<>>
  /\ at' = "match"

MatchInit ==
  /\ gpu \in BOOLEAN /\ salted \in BOOLEAN /\ allow = FALSE
  /\ \E n \in Sizes : digest = [i \in 0..(n - 1) |-> {}]
  /\ buffer = [o \in 0..(Chunk - 1) |-> {}]
  /\ begin = 0 /\ matches = <<>> /\ next = 0 /\ reports = <<>>
  /\ attempts = 0 /\ reported = 0 /\ hashed = 0 /\ lost = 0 /\ batches = 0 /\ at = "batch"

BeginBatch ==
  /\ at = "batch" /\ batches < MaxBatches /\ batches' = batches + 1
  /\ NewBatch
  /\ UNCHANGED <<gpu, salted, attempts, reported, hashed, lost>>

\* GPU: the chunk is finalized into the buffer, then matched.
FinalizeChunk ==
  /\ at = "match" /\ gpu
  /\ buffer' = [o \in DOMAIN buffer |-> IF begin + o < End THEN digest[begin + o] ELSE buffer[o]]
  /\ matches' = matches \o ChunkMatches(buffer')
  /\ begin' = End
  /\ at' = IF End = Size THEN "submit" ELSE at
  /\ UNCHANGED <<gpu, salted, allow, digest, next, attempts, reports, reported, hashed, lost, batches>>

HashAttempt ==
  /\ at = "match" /\ ~gpu
  /\ matches' = matches \o AppendMatches(begin, Phc(begin))
  /\ begin' = begin + 1
  /\ at' = IF begin + 1 = Size THEN "submit" ELSE at
  /\ UNCHANGED <<gpu, salted, allow, digest, buffer, next, attempts, reports, reported, hashed, lost, batches>>

(***************************************************************************)
(* Reporting.                                                              *)
(***************************************************************************)
\* Broken: the attempt that matched is not counted.
SinceLastShort(m) == IF m.key >= next THEN m.key - next ELSE 0

SinceLast(m) == IF m.key >= next THEN m.key - next + 1 ELSE 0

\* Broken: the attempt after the one that matched is taken as done too.
NextAttemptSkips(m) == IF m.key >= next THEN m.key + 2 ELSE next

NextAttempt(m) == IF m.key >= next THEN m.key + 1 ELSE next

SubmitMatch ==
  /\ at = "submit" /\ matches # <<>>
  /\ LET m == Head(matches)
         n == attempts + SinceLast(m)
     IN  /\ next' = NextAttempt(m)
         /\ IF Genuine(m)
            THEN /\ reports' = Append(reports, m)
                 /\ reported' = reported + n /\ attempts' = 0
            ELSE attempts' = n /\ UNCHANGED <<reports, reported>>
  /\ matches' = Tail(matches)
  /\ UNCHANGED <<gpu, salted, allow, digest, buffer, begin, hashed, lost, batches, at>>

\* The attempts after the last match.
CountRest ==
  /\ at = "submit" /\ matches = <<>>
  /\ attempts' = attempts + (Size - next)
  /\ hashed' = hashed + Size
  /\ at' = "counted"
  /\ UNCHANGED <<gpu, salted, allow, digest, buffer, begin, matches, next, reports, reported, lost, batches>>

\* The loop goes round, or the unit is rebuilt at another cost and its
\* attempts, a member of the unit, are gone.
Continue ==
  /\ at = "counted" /\ at' = "batch"
  /\ UNCHANGED <<gpu, salted, allow, digest, buffer, begin, matches, next, attempts, reports, reported, hashed, lost, batches>>

Rebuild ==
  /\ at = "counted" /\ gpu /\ at' = "batch"
  /\ lost' = lost + attempts /\ attempts' = 0
  /\ UNCHANGED <<gpu, salted, allow, digest, buffer, begin, matches, next, reports, reported, hashed, batches>>

Mined == at = "batch" /\ batches = MaxBatches /\ UNCHANGED matchVars

MatchNext ==
  \/ BeginBatch \/ FinalizeChunk \/ HashAttempt \/ SubmitMatch \/ CountRest \/ Continue \/ Rebuild \/ Mined

MatchSpec == MatchInit /\ [][MatchNext]_matchVars
-----------------------------------------------------------------------------
\* Over any batches, with several matches of one attempt and matches that turn
\* out false, every attempt made is reported with exactly one find, still
\* carried, or gone with a rebuilt unit: the work a find claims is the work done.
AttemptsConserved == at = "counted" => reported + attempts + lost = hashed

\* Every find of the batch is handed on once, under the key it was hashed from,
\* whatever chunk it was in, and nothing else is: no pattern found only in the
\* salt, no XUNI outside its window.
FindsReported ==
  at = "counted" =>
    /\ Range(reports) = {m \in [key : DOMAIN digest, kind : Kinds] :
                           m.kind \in digest[m.key] /\ (m.kind = "xuni" => allow)}
    /\ Len(reports) = Cardinality(Range(reports))

\* Finds and attempts are handed on exactly as they were hashed, on both paths.
ReportsInvariant == MatchTypeOK /\ AttemptsConserved /\ FindsReported
=============================================================================
