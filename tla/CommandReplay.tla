--------------------------- MODULE CommandReplay ---------------------------
(***************************************************************************)
(* The dispatch thread verifies signed commands that the broker delivers   *)
(* late, twice or out of order (QoS 1), while the clock advances, the      *)
(* cache fills, and the miner is restarted, which empties the cache.       *)
(***************************************************************************)
EXTENDS CommandEnvelope

CONSTANTS
  Envelopes,  \* what may be delivered
  MaxTime,    \* bound: last second
  MaxRestarts \* bound: restarts

ASSUME ReplayAssumption ==
  /\ MaxTime \in Nat /\ MaxRestarts \in Nat
  /\ \A m \in Envelopes : m.issued \in Int /\ m.expires \in Int /\ m.signed \in BOOLEAN
  \* the signer draws a nonce per command
  /\ \A m \in Envelopes, p \in Envelopes :
       (m.signed /\ p.signed /\ m.nonce = p.nonce) => m = p

VARIABLES
  now,       \* nowEpochSeconds()
  cache,     \* nonce_cache_
  accepted,  \* history: commands verified Ok
  forgotten, \* history: nonces that left the cache before their command ended
  restarts

replayVars == <<now, cache, accepted, forgotten, restarts>>

Nonces == {m.nonce : m \in Envelopes}

ReplayInit ==
  /\ now = 0 /\ cache = {} /\ accepted = {} /\ forgotten = {} /\ restarts = 0

(* Entries the step that leads to cache c pushed out although they are     *)
(* still live.                                                             *)
PushedOut(c) == {e.nonce : e \in {g \in cache : g.exp > now /\ g \notin c}}

Deliver(m) ==
  LET verdict == VerifyEnvelope(m, now, cache)
  IN  /\ cache' = verdict.cache
      /\ accepted' = IF verdict.status = "Ok" THEN accepted \cup {m} ELSE accepted
      /\ forgotten' = forgotten \cup PushedOut(verdict.cache)
      /\ UNCHANGED <<now, restarts>>

Tick == now < MaxTime /\ now' = now + 1 /\ UNCHANGED <<cache, accepted, forgotten, restarts>>

(* NonceCache is a member of PlatformManager: nothing of it is on disk. *)
Restart ==
  /\ restarts < MaxRestarts /\ restarts' = restarts + 1
  /\ cache' = {} /\ forgotten' = forgotten \cup PushedOut({})
  /\ UNCHANGED <<now, accepted>>

ReplayNext == Tick \/ Restart \/ \E m \in Envelopes : Deliver(m)

ReplaySpec == ReplayInit /\ [][ReplayNext]_replayVars
-----------------------------------------------------------------------------
(* Ranges of the state, and that an entry is numbered only once. *)
ReplayTypeOK ==
  /\ now \in 0..MaxTime /\ restarts \in 0..MaxRestarts
  /\ accepted \subseteq Envelopes /\ forgotten \subseteq Nonces
  /\ \A e \in cache : e.nonce \in Nonces /\ e.exp \in Int /\ e.n \in Nat /\ e.when \in 0..now
  /\ \A e \in cache, g \in cache : e.n = g.n => e = g

(* However much signed traffic arrives, the cache keeps to its capacity.   *)
CacheBounded == IsFiniteSet(cache) /\ Cardinality(cache) <= Capacity

(* A command that failed any check takes no slot: what is in the cache was *)
(* accepted, so a forged or late copy cannot make the real one a replay.   *)
CacheOnlyAccepted == \A e \in cache : \E m \in accepted : m.nonce = e.nonce /\ m.expires = e.exp

(* Verify answers Ok for m now. *)
Accepts(m) == VerifyEnvelope(m, now, cache).status = "Ok"

(* "a repeat within its validity window is rejected" (CommandEnvelope.h),  *)
(* unless its nonce was pushed out by other traffic or by a restart. It is *)
(* not so in the last second of the window, when the command still passes  *)
(* and its nonce has already been purged.                                  *)
RepeatRejected == \A m \in accepted : Accepts(m) => m.nonce \in forgotten

(* Before that second it is so: nothing but other traffic or a restart     *)
(* lets a command in again.                                                *)
OnceUntilExpiry ==
  \A m \in accepted : (now < m.expires /\ Accepts(m)) => m.nonce \in forgotten

(* A live nonce is pushed out only under load: a full cache of commands    *)
(* that were all accepted within one lifetime plus the clock skew, however *)
(* long entries that have ended sit behind one that has not.               *)
ForgetsOnlyUnderLoad ==
  [][\A e \in cache :
       (e.exp > now /\ e \notin cache' /\ restarts' = restarts) =>
         /\ Cardinality(cache) = Capacity
         /\ \A g \in cache : now - g.when < MaxLifetime + ClockSkew]_replayVars

(* The nonce cache is bounded, holds accepted commands only, and lets none *)
(* of them in twice before the second in which it ends.                    *)
ReplayInvariant == ReplayTypeOK /\ CacheBounded /\ CacheOnlyAccepted /\ OnceUntilExpiry
============================================================================
