-------------------------- MODULE CommandEnvelope --------------------------
(***************************************************************************)
(* Signed platform commands (platform/CommandEnvelope.cpp): the checks of  *)
(* verifyEnvelope in their order, and the bounded cache of nonces that     *)
(* recognises a command delivered again.                                   *)
(*                                                                         *)
(* A message says whether it carries an auth object at all ("none"), one   *)
(* that fails the schema ("malformed") or a complete one; then it has the  *)
(* worker it is addressed to, its times, its nonce and whether the         *)
(* signature is the one signCommand computes over all of these.            *)
(*                                                                         *)
(* by_nonce_ and insertion_order_ always hold the same nonces: together    *)
(* they are a set of entries, numbered in the order of their insertion.    *)
(* when, the time of the insertion, is history.                            *)
(***************************************************************************)
EXTENDS Integers, FiniteSets

CONSTANTS
  Worker,       \* expected_worker_id_
  ClockSkew,    \* kClockSkewSec
  MaxLifetime,  \* kMaxLifetimeSec
  Capacity      \* NonceCache::capacity_

ASSUME EnvelopeAssumption ==
  /\ ClockSkew \in Nat /\ MaxLifetime \in Nat \ {0}
  /\ Capacity \in Nat \ {0}   \* the constructor turns 0 into 1

WellFormed(m) == m.auth = "complete"

(* hmacSha256Hex over signingString, compared by constantTimeHexEquals. *)
Genuine(m) == m.signed

(* What the reference signer produces for worker w. *)
SignCommand(w, n, issued, expires) ==
  [auth |-> "complete", worker |-> w, nonce |-> n,
   issued |-> issued, expires |-> expires, signed |-> TRUE]
-----------------------------------------------------------------------------
(* NonceCache *)

(* Broken: an entry is dropped a second early. *)
PurgedEarly(cache, now) == {e \in cache : \E g \in cache : g.n <= e.n /\ g.exp > now + 1}

(* Entries are dropped from the front, up to the first that has not ended. *)
Purged(cache, now) == {e \in cache : \E g \in cache : g.n <= e.n /\ g.exp > now}

Seen(cache, nonce) == \E e \in cache : e.nonce = nonce

Oldest(cache) == {e \in cache : \A g \in cache : e.n <= g.n}

(* Broken: the cache grows. *)
RoomAlways(cache) == cache

Room(cache) == IF Cardinality(cache) >= Capacity THEN cache \ Oldest(cache) ELSE cache

(* Broken: the size is the next number, although entries leave at the front. *)
NextNSize(cache) == Cardinality(cache)

(* Number of the next insertion. *)
NextN(cache) == IF cache = {} THEN 0 ELSE 1 + CHOOSE k \in {e.n : e \in cache} : \A e \in cache : e.n <= k

Inserted(cache, nonce, expires, now) ==
  Room(cache) \cup {[nonce |-> nonce, exp |-> expires, n |-> NextN(cache), when |-> now]}

CheckAndInsert(cache, nonce, expires, now) ==
  LET purged == Purged(cache, now)
  IN  IF Seen(purged, nonce)
        THEN [fresh |-> FALSE, cache |-> purged]
        ELSE [fresh |-> TRUE, cache |-> Inserted(purged, nonce, expires, now)]
-----------------------------------------------------------------------------
(* Broken: any lifetime. *)
LifetimeUncapped(m) == m.expires > m.issued

LifetimeValid(m) == m.expires > m.issued /\ m.expires - m.issued <= MaxLifetime

(* What the checks before the signature say. *)
WindowStatus(m, now) ==
  CASE m.auth = "none" -> "MissingAuth"
    [] m.auth # "none" /\ ~WellFormed(m) -> "MalformedAuth"
    [] WellFormed(m) /\ m.worker # Worker -> "WrongWorker"
    [] WellFormed(m) /\ m.worker = Worker /\ m.issued > now + ClockSkew -> "IssuedInFuture"
    [] WellFormed(m) /\ m.worker = Worker /\ m.issued <= now + ClockSkew /\ ~LifetimeValid(m)
         -> "LifetimeInvalid"
    [] WellFormed(m) /\ m.worker = Worker /\ m.issued <= now + ClockSkew /\ LifetimeValid(m)
       /\ now > m.expires -> "Expired"
    [] OTHER -> "Ok"

(* Broken: the nonce is recorded before the signature is looked at. *)
VerifyNonceFirst(m, now, cache) ==
  IF WindowStatus(m, now) # "Ok" THEN [status |-> WindowStatus(m, now), cache |-> cache]
  ELSE LET check == CheckAndInsert(cache, m.nonce, m.expires, now)
       IN  [status |-> CASE ~check.fresh -> "ReplayedNonce"
                         [] check.fresh /\ ~Genuine(m) -> "BadSignature"
                         [] OTHER -> "Ok",
            cache |-> check.cache]

(* verifyEnvelope: its answer, and the cache afterwards. *)
VerifyEnvelope(m, now, cache) ==
  IF WindowStatus(m, now) # "Ok" THEN [status |-> WindowStatus(m, now), cache |-> cache]
  ELSE IF ~Genuine(m) THEN [status |-> "BadSignature", cache |-> cache]
  ELSE LET check == CheckAndInsert(cache, m.nonce, m.expires, now)
       IN  [status |-> IF check.fresh THEN "Ok" ELSE "ReplayedNonce", cache |-> check.cache]
=============================================================================
