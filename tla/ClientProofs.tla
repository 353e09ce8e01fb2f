----------------------------- MODULE ClientProofs -----------------------------
(***************************************************************************)
(* Proofs about the marketplace client: the nonce cache of signed commands *)
(* (CommandReplay), for any messages, clock skew, lifetime and capacity,   *)
(* any delivery order and any number of repetitions and restarts; and the  *)
(* threads of PlatformClient, for any commands, queue and losses.          *)
(***************************************************************************)
EXTENDS PlatformClient, CommandReplay, FiniteSetTheorems, SequenceTheorems, WellFoundedInduction, TLAPS

(***************************************************************************)
(* The nonce cache.                                                        *)
(***************************************************************************)
(* The newest entry exists: NextN is above every number in use.             *)
HasNewest == cache # {} => \E e \in cache : \A g \in cache : g.n <= e.n

(* An entry ends within a lifetime and the skew of its insertion; entries   *)
(* numbered later were inserted later.                                      *)
Ages ==
  \A e \in cache :
    /\ e.exp <= e.when + ClockSkew + MaxLifetime
    /\ \A g \in cache : e.n <= g.n => e.when <= g.when

(* An accepted command that has not ended is in the cache, or is known to   *)
(* have been pushed out.                                                    *)
Remembered ==
  \A m \in accepted :
    /\ m.signed
    /\ now < m.expires =>
         m.nonce \in forgotten \/ \E e \in cache : e.nonce = m.nonce /\ e.exp = m.expires

ReplayInductive ==
  ReplayTypeOK /\ HasNewest /\ Ages /\ Remembered /\ CacheOnlyAccepted /\ CacheBounded

-----------------------------------------------------------------------------
(* A set of entries with natural numbers has an oldest one.                 *)
LEMMA OldestExists ==
  ASSUME NEW C, C # {}, \A e \in C : e.n \in Nat
  PROVE  \E e \in C : e \in Oldest(C)
<1> DEFINE T == {e.n : e \in C}
           R == OpToRel(<, Nat)
<1>1. T \subseteq Nat /\ T # {}
  OBVIOUS
<1>2. PICK x \in T : \A y \in T : <<y, x>> \notin R
  <2> HIDE DEF T
  <2>1. IsWellFoundedOn(R, Nat)
    BY NatLessThanWellFounded
  <2> HIDE DEF R
  <2>2. QED
    BY <1>1, <2>1, WFMin
<1>3. \A y \in T : ~(y < x)
  BY <1>1, <1>2 DEF OpToRel
<1>4. PICK e \in C : x = e.n
  BY <1>2
<1>5. \A g \in C : e.n <= g.n
  BY <1>1, <1>3, <1>4
<1>6. QED
  BY <1>4, <1>5 DEF Oldest

(* Purging keeps every entry that has not ended, and the newest if any.     *)
LEMMA PurgedKeeps ==
  ASSUME NEW C
  PROVE  /\ Purged(C, now) \subseteq C
         /\ \A e \in C : e.exp > now /\ e.n \in Nat => e \in Purged(C, now)
         /\ (\A e \in C : e.n \in Nat) =>
              \A e \in Purged(C, now), g \in C : e.n <= g.n => g \in Purged(C, now)
BY DEF Purged

(* The number of a new entry is above all numbers in use.                   *)
LEMMA NextNAbove ==
  ASSUME NEW C, \A e \in C : e.n \in Nat,
         C # {} => \E e \in C : \A g \in C : g.n <= e.n
  PROVE  NextN(C) \in Nat /\ \A e \in C : e.n < NextN(C)
<1>1. CASE C = {}
  BY <1>1 DEF NextN
<1>2. CASE C # {}
  <2> DEFINE T == {e.n : e \in C}
             k == CHOOSE k \in T : \A e \in C : e.n <= k
  <2>1. \E j \in T : \A e \in C : e.n <= j
    BY <1>2
  <2>2. k \in T /\ \A e \in C : e.n <= k
    BY <2>1
  <2>3. NextN(C) = 1 + k
    BY <1>2 DEF NextN
  <2> HIDE DEF k
  <2>4. QED
    BY <2>2, <2>3
<1>3. QED
  BY <1>1, <1>2

(* What verifyEnvelope may do: refuse and change nothing, refuse a repeated *)
(* nonce after purging, or accept and record the nonce.                     *)
LEMMA Verdicts ==
  ASSUME NEW m \in Envelopes, NEW C, now \in Nat
  PROVE  LET v == VerifyEnvelope(m, now, C)
             p == Purged(C, now)
         IN  \/ v.status # "Ok" /\ v.cache = C
             \/ v.status # "Ok" /\ v.cache = p
             \/ /\ v.status = "Ok" /\ ~Seen(p, m.nonce)
                /\ v.cache = Inserted(p, m.nonce, m.expires, now)
                /\ m.signed /\ m.issued <= now + ClockSkew /\ LifetimeValid(m) /\ ~(now > m.expires)
<1>1. CASE WindowStatus(m, now) # "Ok"
  BY <1>1 DEF VerifyEnvelope
<1>2. CASE WindowStatus(m, now) = "Ok"
  <2>1. m.issued <= now + ClockSkew /\ LifetimeValid(m) /\ ~(now > m.expires)
    <3>1. m.issued \in Int /\ m.expires \in Int /\ now + ClockSkew \in Int
      BY ReplayAssumption, EnvelopeAssumption
    <3>2. m.auth # "none" /\ m.auth = "complete" /\ m.worker = Worker
      BY <1>2 DEF WindowStatus, WellFormed
    <3>3. ~(m.issued > now + ClockSkew)
      BY <1>2, <3>2 DEF WindowStatus, WellFormed
    <3>4. m.issued <= now + ClockSkew
      BY <3>1, <3>3
    <3>5. LifetimeValid(m)
      BY <1>2, <3>2, <3>4 DEF WindowStatus, WellFormed
    <3>6. ~(now > m.expires)
      BY <1>2, <3>2, <3>4, <3>5 DEF WindowStatus, WellFormed
    <3>7. QED
      BY <3>4, <3>5, <3>6
  <2>2. QED
    BY <1>2, <2>1 DEF VerifyEnvelope, CheckAndInsert, Genuine
<1>3. QED
  BY <1>1, <1>2
-----------------------------------------------------------------------------
(* The cache is empty at first.                                             *)
LEMMA ReplayInitInductive == ReplayInit => ReplayInductive
<1> SUFFICES ASSUME ReplayInit PROVE ReplayInductive
  OBVIOUS
<1>1. ReplayTypeOK
  BY ReplayAssumption DEF ReplayInit, ReplayTypeOK
<1>2. CacheBounded
  BY FS_EmptySet, EnvelopeAssumption DEF ReplayInit, CacheBounded
<1>3. HasNewest /\ Ages /\ Remembered /\ CacheOnlyAccepted
  BY DEF ReplayInit, HasNewest, Ages, Remembered, CacheOnlyAccepted
<1>4. QED
  BY <1>1, <1>2, <1>3 DEF ReplayInductive

(* Whatever a step removes while it is live becomes a forgotten nonce.      *)
LEMMA PushedOutFacts ==
  ASSUME ReplayTypeOK, forgotten' = forgotten \cup PushedOut(cache')
  PROVE  /\ forgotten' \subseteq Nonces
         /\ \A e \in cache : e.exp > now => e \in cache' \/ e.nonce \in forgotten'
         /\ forgotten \subseteq forgotten'
BY DEF ReplayTypeOK, PushedOut

(* A step that only removes entries, the newest of those that stay not      *)
(* among them, keeps the invariant: a refused command, and a restart.       *)
LEMMA ShrinkInv ==
  ASSUME ReplayInductive, cache' \subseteq cache,
         \A e \in cache', g \in cache : e.n <= g.n => g \in cache',
         accepted' = accepted, now' = now, restarts' \in 0..MaxRestarts,
         forgotten' = forgotten \cup PushedOut(cache')
  PROVE  ReplayInductive'
<1>1. /\ forgotten' \subseteq Nonces
      /\ \A e \in cache : e.exp > now => e \in cache' \/ e.nonce \in forgotten'
      /\ forgotten \subseteq forgotten'
  BY PushedOutFacts DEF ReplayInductive
<1>2. ReplayTypeOK'
  BY <1>1 DEF ReplayInductive, ReplayTypeOK
<1>3. HasNewest'
  <2> SUFFICES ASSUME cache' # {} PROVE \E e \in cache' : \A g \in cache' : g.n <= e.n
    BY DEF HasNewest
  <2>1. PICK e \in cache : \A g \in cache : g.n <= e.n
    BY DEF ReplayInductive, HasNewest
  <2>2. e \in cache'
    BY <2>1
  <2>3. QED
    BY <2>1, <2>2
<1>4. Ages' /\ CacheOnlyAccepted'
  BY DEF ReplayInductive, Ages, CacheOnlyAccepted
<1>5. Remembered'
  <2> SUFFICES ASSUME NEW m \in accepted, now < m.expires
               PROVE  m.nonce \in forgotten' \/ \E e \in cache' : e.nonce = m.nonce /\ e.exp = m.expires
    BY DEF ReplayInductive, Remembered
  <2>1. CASE m.nonce \in forgotten
    BY <1>1, <2>1
  <2>2. CASE \E e \in cache : e.nonce = m.nonce /\ e.exp = m.expires
    <3>1. PICK e \in cache : e.nonce = m.nonce /\ e.exp = m.expires
      BY <2>2
    <3>2. e.exp > now
      BY <3>1
    <3>3. QED
      BY <1>1, <3>1, <3>2
  <2>3. QED
    BY <2>1, <2>2 DEF ReplayInductive, Remembered
<1>6. CacheBounded'
  <2>1. IsFiniteSet(cache) /\ Cardinality(cache) <= Capacity
    BY DEF ReplayInductive, CacheBounded
  <2>2. IsFiniteSet(cache') /\ Cardinality(cache') <= Cardinality(cache)
    BY <2>1, FS_Subset
  <2>3. Cardinality(cache) \in Nat /\ Cardinality(cache') \in Nat
    BY <2>1, <2>2, FS_CardinalityType
  <2>4. QED
    BY <2>1, <2>2, <2>3, EnvelopeAssumption DEF CacheBounded
<1>7. QED
  BY <1>2, <1>3, <1>4, <1>5, <1>6 DEF ReplayInductive

(* There is room for one more entry after Room.                             *)
LEMMA RoomMade ==
  ASSUME NEW C, IsFiniteSet(C), Cardinality(C) <= Capacity, \A e \in C : e.n \in Nat,
         \A e, g \in C : e.n = g.n => e = g
  PROVE  /\ Room(C) \subseteq C /\ IsFiniteSet(Room(C))
         /\ Cardinality(Room(C)) \in Nat /\ Cardinality(Room(C)) < Capacity
<1>1. Cardinality(C) \in Nat
  BY FS_CardinalityType
<1>2. CASE Cardinality(C) >= Capacity
  <2>1. C # {}
    BY <1>1, <1>2, FS_EmptySet, EnvelopeAssumption
  <2>2. PICK e \in C : e \in Oldest(C)
    BY <2>1, OldestExists
  <2>3. Room(C) = C \ Oldest(C) /\ C \ Oldest(C) \subseteq C \ {e}
    BY <1>2, <2>2 DEF Room
  <2>4. IsFiniteSet(C \ {e}) /\ Cardinality(C \ {e}) = Cardinality(C) - 1
    BY FS_RemoveElement
  <2>5. IsFiniteSet(Room(C)) /\ Cardinality(Room(C)) <= Cardinality(C \ {e})
    BY <2>3, <2>4, FS_Subset
  <2>6. Cardinality(Room(C)) \in Nat
    BY <2>5, FS_CardinalityType
  <2>7. QED
    BY <1>1, <2>3, <2>4, <2>5, <2>6, EnvelopeAssumption
<1>3. CASE ~(Cardinality(C) >= Capacity)
  BY <1>1, <1>3, EnvelopeAssumption DEF Room
<1>4. QED
  BY <1>2, <1>3

(* An accepted command: the entry that is added is the newest and lives no  *)
(* longer than the checks allow.                                            *)
LEMMA AcceptInv ==
  ASSUME ReplayInductive, NEW m \in Envelopes,
         cache' = Inserted(Purged(cache, now), m.nonce, m.expires, now),
         accepted' = accepted \cup {m}, now' = now, restarts' = restarts,
         forgotten' = forgotten \cup PushedOut(cache'),
         m.signed, m.issued <= now + ClockSkew, LifetimeValid(m)
  PROVE  ReplayInductive'
<1> DEFINE p == Purged(cache, now)
           new == [nonce |-> m.nonce, exp |-> m.expires, n |-> NextN(p), when |-> now]
<1>1. /\ forgotten' \subseteq Nonces
      /\ \A e \in cache : e.exp > now => e \in cache' \/ e.nonce \in forgotten'
      /\ forgotten \subseteq forgotten'
  BY PushedOutFacts DEF ReplayInductive
<1>2. /\ now \in Nat /\ m.issued \in Int /\ m.expires \in Int /\ ClockSkew \in Nat /\ MaxLifetime \in Nat
      /\ \A e \in cache : e.n \in Nat /\ e.when \in 0..now /\ e.exp \in Int
  BY ReplayAssumption, EnvelopeAssumption DEF ReplayInductive, ReplayTypeOK
<1>3. p \subseteq cache /\ \A e \in p, g \in cache : e.n <= g.n => g \in p
  BY <1>2, PurgedKeeps
<1>4. p # {} => \E e \in p : \A g \in p : g.n <= e.n
  <2> SUFFICES ASSUME p # {} PROVE \E e \in p : \A g \in p : g.n <= e.n
    OBVIOUS
  <2>1. PICK e \in cache : \A g \in cache : g.n <= e.n
    BY <1>3 DEF ReplayInductive, HasNewest
  <2>2. QED
    BY <1>3, <2>1
<1>5. NextN(p) \in Nat /\ \A e \in p : e.n < NextN(p)
  BY <1>2, <1>3, <1>4, NextNAbove
<1>6. /\ IsFiniteSet(p) /\ Cardinality(p) <= Capacity
  <2>1. IsFiniteSet(cache) /\ Cardinality(cache) <= Capacity
    BY DEF ReplayInductive, CacheBounded
  <2>2. IsFiniteSet(p) /\ Cardinality(p) <= Cardinality(cache)
    BY <1>3, <2>1, FS_Subset
  <2>3. Cardinality(cache) \in Nat /\ Cardinality(p) \in Nat
    BY <2>1, <2>2, FS_CardinalityType
  <2>4. QED
    BY <2>1, <2>2, <2>3, EnvelopeAssumption
<1>7. /\ Room(p) \subseteq p /\ IsFiniteSet(Room(p))
      /\ Cardinality(Room(p)) \in Nat /\ Cardinality(Room(p)) < Capacity
  <2>1. \A e, g \in p : e.n = g.n => e = g
    BY <1>3 DEF ReplayInductive, ReplayTypeOK
  <2>2. QED
    BY <1>2, <1>3, <1>6, <2>1, RoomMade
<1>8. cache' = Room(p) \cup {new}
  BY DEF Inserted
<1>9. /\ new.nonce = m.nonce /\ new.exp = m.expires /\ new.n = NextN(p) /\ new.when = now
      /\ new \in cache'
      /\ \A e \in cache' : e = new \/ (e \in cache /\ e \in p)
  BY <1>3, <1>7, <1>8
<1> HIDE DEF p, new
<1>10. ReplayTypeOK'
  <2>1. accepted' \subseteq Envelopes /\ m.nonce \in Nonces
    BY DEF ReplayInductive, ReplayTypeOK, Nonces
  <2>2. \A e \in cache' : e.nonce \in Nonces /\ e.exp \in Int /\ e.n \in Nat /\ e.when \in 0..now
    BY <1>2, <1>5, <1>9, <2>1 DEF ReplayInductive, ReplayTypeOK
  <2>3. \A e \in cache', g \in cache' : e.n = g.n => e = g
    <3> SUFFICES ASSUME NEW e \in cache', NEW g \in cache', e.n = g.n PROVE e = g
      OBVIOUS
    <3>1. CASE e = new /\ g # new
      BY <1>2, <1>5, <1>9, <3>1
    <3>2. CASE e # new /\ g = new
      BY <1>2, <1>5, <1>9, <3>2
    <3>3. CASE e # new /\ g # new
      BY <1>9, <3>3 DEF ReplayInductive, ReplayTypeOK
    <3>4. QED
      BY <3>1, <3>2, <3>3
  <2>4. QED
    BY <1>1, <2>1, <2>2, <2>3 DEF ReplayInductive, ReplayTypeOK
<1>11. HasNewest'
  <2>1. \A g \in cache' : g.n <= new.n
    BY <1>2, <1>5, <1>9
  <2>2. QED
    BY <1>9, <2>1 DEF HasNewest
<1>12. Ages'
  <2>1. new.exp <= new.when + ClockSkew + MaxLifetime
    BY <1>2, <1>9 DEF LifetimeValid
  <2>2. \A e \in cache' : e.when <= new.when
    BY <1>2, <1>9
  <2>3. \A e \in cache' : e # new => ~(new.n <= e.n)
    BY <1>2, <1>5, <1>9
  <2>4. \A e \in cache' : e.exp <= e.when + ClockSkew + MaxLifetime
    BY <1>9, <2>1 DEF ReplayInductive, Ages
  <2>5. \A e, g \in cache' : e.n <= g.n => e.when <= g.when
    BY <1>2, <1>9, <2>2, <2>3 DEF ReplayInductive, Ages
  <2>6. QED
    BY <2>4, <2>5 DEF Ages
<1>13. Remembered'
  <2> SUFFICES ASSUME NEW a \in accepted'
               PROVE  /\ a.signed
                      /\ now < a.expires =>
                           a.nonce \in forgotten' \/ \E e \in cache' : e.nonce = a.nonce /\ e.exp = a.expires
    BY DEF Remembered
  <2>1. CASE a = m
    BY <1>9, <2>1
  <2>2. CASE a \in accepted
    <3>1. a.signed
      BY <2>2 DEF ReplayInductive, Remembered
    <3>2. ASSUME now < a.expires, NEW e \in cache, e.nonce = a.nonce, e.exp = a.expires
          PROVE  a.nonce \in forgotten' \/ \E g \in cache' : g.nonce = a.nonce /\ g.exp = a.expires
      <4>1. e.exp > now
        BY <3>2
      <4>2. QED
        BY <1>1, <3>2, <4>1
    <3>3. QED
      BY <1>1, <2>2, <3>1, <3>2 DEF ReplayInductive, Remembered
  <2>3. QED
    BY <2>1, <2>2
<1>14. CacheOnlyAccepted'
  BY <1>9 DEF ReplayInductive, CacheOnlyAccepted
<1>15. CacheBounded'
  <2>1. /\ IsFiniteSet(Room(p) \cup {new})
        /\ Cardinality(Room(p) \cup {new}) = IF new \in Room(p) THEN Cardinality(Room(p)) ELSE Cardinality(Room(p)) + 1
    BY <1>7, FS_AddElement
  <2>2. QED
    BY <1>7, <1>8, <2>1, EnvelopeAssumption DEF CacheBounded
<1>16. QED
  BY <1>10, <1>11, <1>12, <1>13, <1>14, <1>15 DEF ReplayInductive

(* One delivery of a message, whichever it is.                              *)
LEMMA DeliverInv == ASSUME ReplayInductive, NEW m \in Envelopes, Deliver(m) PROVE ReplayInductive'
<1> DEFINE v == VerifyEnvelope(m, now, cache)
<1>1. /\ cache' = v.cache /\ now' = now /\ restarts' = restarts
      /\ accepted' = IF v.status = "Ok" THEN accepted \cup {m} ELSE accepted
      /\ forgotten' = forgotten \cup PushedOut(cache')
      /\ restarts \in 0..MaxRestarts /\ now \in Nat
      /\ \A e \in cache : e.n \in Nat
  BY DEF Deliver, ReplayInductive, ReplayTypeOK
<1>2. CASE v.status # "Ok" /\ (v.cache = cache \/ v.cache = Purged(cache, now))
  <2>1. cache' \subseteq cache /\ \A e \in cache', g \in cache : e.n <= g.n => g \in cache'
    BY <1>1, <1>2, PurgedKeeps
  <2>2. accepted' = accepted
    BY <1>1, <1>2
  <2>3. QED
    BY <1>1, <2>1, <2>2, ShrinkInv
<1>3. CASE /\ v.status = "Ok" /\ v.cache = Inserted(Purged(cache, now), m.nonce, m.expires, now)
           /\ m.signed /\ m.issued <= now + ClockSkew /\ LifetimeValid(m)
  BY <1>1, <1>3, AcceptInv
<1>4. QED
  BY <1>1, <1>2, <1>3, Verdicts

(* The invariant holds in every reachable state.                            *)
THEOREM ReplayInductiveHolds == ReplaySpec => []ReplayInductive
<1>1. ReplayInductive /\ [ReplayNext]_replayVars => ReplayInductive'
  <2> SUFFICES ASSUME ReplayInductive, [ReplayNext]_replayVars PROVE ReplayInductive'
    OBVIOUS
  <2>1. CASE Tick
    <3>1. /\ cache' = cache /\ accepted' = accepted /\ forgotten' = forgotten /\ restarts' = restarts
          /\ now' = now + 1 /\ now' \in 0..MaxTime /\ now \in Nat
      BY <2>1, ReplayAssumption DEF Tick, ReplayInductive, ReplayTypeOK
    <3>2. ReplayTypeOK'
      BY <3>1 DEF ReplayInductive, ReplayTypeOK
    <3>3. HasNewest' /\ Ages' /\ CacheOnlyAccepted' /\ CacheBounded'
      BY <3>1 DEF ReplayInductive, HasNewest, Ages, CacheOnlyAccepted, CacheBounded
    <3>4. Remembered'
      <4>1. \A m \in accepted : m.expires \in Int
        BY ReplayAssumption DEF ReplayInductive, ReplayTypeOK
      <4>2. \A m \in accepted : now + 1 < m.expires => now < m.expires
        BY <3>1, <4>1
      <4>3. QED
        BY <3>1, <4>2 DEF ReplayInductive, Remembered
    <3>5. QED
      BY <3>2, <3>3, <3>4 DEF ReplayInductive
  <2>2. CASE Restart
    <3>1. /\ cache' = {} /\ accepted' = accepted /\ now' = now
          /\ forgotten' = forgotten \cup PushedOut(cache') /\ restarts' \in 0..MaxRestarts
      BY <2>2, ReplayAssumption DEF Restart, ReplayInductive, ReplayTypeOK
    <3>2. QED
      BY <3>1, ShrinkInv
  <2>3. CASE \E m \in Envelopes : Deliver(m)
    BY <2>3, DeliverInv
  <2>4. CASE UNCHANGED replayVars
    BY <2>4 DEF replayVars, ReplayInductive, ReplayTypeOK, HasNewest, Ages, Remembered, CacheOnlyAccepted, CacheBounded
  <2>5. QED
    BY <2>1, <2>2, <2>3, <2>4 DEF ReplayNext
<1>2. QED
  BY ReplayInitInductive, <1>1, PTL DEF ReplaySpec
-----------------------------------------------------------------------------
(* NonceCache: entries keep distinct numbers, so that there is one oldest.  *)
THEOREM ReplayTypes == ReplaySpec => []ReplayTypeOK
<1>1. ReplayInductive => ReplayTypeOK
  BY DEF ReplayInductive
<1>2. QED
  BY ReplayInductiveHolds, <1>1, PTL

(* NonceCache keeps to its capacity under any traffic.                      *)
THEOREM CacheStaysBounded == ReplaySpec => []CacheBounded
<1>1. ReplayInductive => CacheBounded
  BY DEF ReplayInductive
<1>2. QED
  BY ReplayInductiveHolds, <1>1, PTL

(* verifyEnvelope: only a command that passed every check takes a slot.     *)
THEOREM OnlyAcceptedCached == ReplaySpec => []CacheOnlyAccepted
<1>1. ReplayInductive => CacheOnlyAccepted
  BY DEF ReplayInductive
<1>2. QED
  BY ReplayInductiveHolds, <1>1, PTL

(* verifyEnvelope: before the second in which it ends, a command delivered  *)
(* again is refused, unless its nonce was pushed out.                       *)
THEOREM AcceptedOnce == ReplaySpec => []OnceUntilExpiry
<1>1. ReplayInductive => OnceUntilExpiry
  <2> SUFFICES ASSUME ReplayInductive, NEW m \in accepted, now < m.expires, Accepts(m),
                      m.nonce \notin forgotten
               PROVE  FALSE
    BY DEF OnceUntilExpiry
  <2>1. /\ m \in Envelopes /\ now \in Nat /\ m.expires \in Int
        /\ \A e \in cache : e.n \in Nat
    BY ReplayAssumption DEF ReplayInductive, ReplayTypeOK
  <2>2. ~Seen(Purged(cache, now), m.nonce)
    BY <2>1, Verdicts DEF Accepts
  <2>3. PICK e \in cache : e.nonce = m.nonce /\ e.exp = m.expires
    BY DEF ReplayInductive, Remembered
  <2>4. e \in Purged(cache, now)
    BY <2>1, <2>3, PurgedKeeps
  <2>5. QED
    BY <2>2, <2>3, <2>4 DEF Seen
<1>2. QED
  BY ReplayInductiveHolds, <1>1, PTL

(* NonceCache::checkAndInsert: a live nonce is pushed out only by a full    *)
(* cache of commands accepted within one lifetime and the clock skew.       *)
THEOREM PushedOutUnderLoad == ReplaySpec => ForgetsOnlyUnderLoad
<1>1. ASSUME ReplayInductive, [ReplayNext]_replayVars, NEW e \in cache, e.exp > now, e \notin cache', restarts' = restarts
      PROVE  /\ Cardinality(cache) = Capacity
             /\ \A g \in cache : now - g.when < MaxLifetime + ClockSkew
  <2>1. PICK m \in Envelopes : Deliver(m)
    <3>1. ~Restart
      BY <1>1 DEF Restart, ReplayInductive, ReplayTypeOK
    <3>2. ~Tick /\ ~UNCHANGED replayVars
      BY <1>1 DEF Tick, replayVars
    <3>3. QED
      BY <1>1, <3>1, <3>2 DEF ReplayNext
  <2> DEFINE p == Purged(cache, now)
             v == VerifyEnvelope(m, now, cache)
  <2>2. /\ now \in Nat /\ ClockSkew \in Nat /\ MaxLifetime \in Nat /\ Capacity \in Nat
        /\ \A g \in cache : g.n \in Nat /\ g.when \in 0..now /\ g.exp \in Int
        /\ IsFiniteSet(cache) /\ Cardinality(cache) <= Capacity
    BY <1>1, EnvelopeAssumption, ReplayAssumption DEF ReplayInductive, ReplayTypeOK, CacheBounded
  <2>3. e \in p /\ p \subseteq cache
    BY <1>1, <2>2, PurgedKeeps
  <2>4. cache' = Inserted(p, m.nonce, m.expires, now)
    <3>1. cache' = v.cache
      BY <2>1 DEF Deliver
    <3>2. cache' = cache \/ cache' = p \/ cache' = Inserted(p, m.nonce, m.expires, now)
      BY <2>2, <3>1, Verdicts
    <3>3. QED
      BY <1>1, <2>3, <3>2
  <2>5. Room(p) # p /\ e \in Oldest(p)
    BY <1>1, <2>3, <2>4 DEF Inserted, Room
  <2>6. Cardinality(p) >= Capacity
    BY <2>5 DEF Room
  <2>7. p = cache /\ Cardinality(cache) = Capacity
    <3>1. IsFiniteSet(p) /\ Cardinality(p) <= Cardinality(cache) /\ (Cardinality(cache) = Cardinality(p) => cache = p)
      BY <2>2, <2>3, FS_Subset
    <3>2. Cardinality(cache) \in Nat /\ Cardinality(p) \in Nat
      BY <2>2, <3>1, FS_CardinalityType
    <3>3. QED
      BY <2>2, <2>6, <3>1, <3>2
  <2>8. \A g \in cache : e.when <= g.when
    BY <1>1, <2>5, <2>7 DEF ReplayInductive, Ages, Oldest
  <2>9. e.exp <= e.when + ClockSkew + MaxLifetime
    BY <1>1 DEF ReplayInductive, Ages
  <2>10. \A g \in cache : now - g.when < MaxLifetime + ClockSkew
    BY <1>1, <2>2, <2>8, <2>9
  <2>11. QED
    BY <2>7, <2>10
<1>2. ReplayInductive /\ [ReplayNext]_replayVars => [\A e \in cache :
         (e.exp > now /\ e \notin cache' /\ restarts' = restarts) =>
           /\ Cardinality(cache) = Capacity
           /\ \A g \in cache : now - g.when < MaxLifetime + ClockSkew]_replayVars
  BY <1>1
<1>3. QED
  BY ReplayInductiveHolds, <1>2, PTL DEF ReplaySpec, ForgetsOnlyUnderLoad

(* CommandEnvelope.cpp: the nonce cache does its work within its bound, for *)
(* any commands, capacity, lifetime and skew.                               *)
THEOREM ReplaySound == ReplaySpec => []ReplayInvariant
<1>1. ReplayTypeOK /\ CacheBounded /\ CacheOnlyAccepted /\ OnceUntilExpiry => ReplayInvariant
  BY DEF ReplayInvariant
<1>2. QED
  BY <1>1, ReplayTypes, CacheStaysBounded, OnlyAcceptedCached, AcceptedOnce, PTL

(***************************************************************************)
(* The client's threads.                                                   *)
(***************************************************************************)
(* The flags, and everything else, of the types.                            *)
ClientFlags == running \in BOOLEAN /\ conn \in BOOLEAN /\ callback \in BOOLEAN /\ expired \in BOOLEAN

ClientTyped ==
  /\ setup \in DOMAIN Setups
  /\ state \in States /\ lease \in Nat /\ context \in Nat /\ ctx \in Nat
  /\ (expired => lease # 0) /\ settings \subseteq Fields
  /\ queue \in Seq(Messages) /\ Len(queue) <= QueueCapacity
  /\ dispatch \in {"none", "check", "block", "blocked", "exited", "joined"}
  /\ watchdog \in {"none", "sleep", "exited", "joined"}
  /\ main \in {"start", "up", "stopped", "gone"}
  /\ lane \in [pc : {"batch", "found", "lease"}, mined : Nat]
  /\ arrivals \in 0..MaxArrivals /\ batches \in 0..MaxFound /\ losses \in 0..MaxLosses

(* What an unsigned command, and a round of the watchdog, consist of.       *)
Obeyed == States \cup {"start lease", "to context", "platform mining", "end lease", "self mining", "if active"}
Watched == States \cup {"if expired", "if error", "end lease", "self mining", "reconnect"}

(* What start() and stop() consist of. The end of stop() is fixed; before   *)
(* it main tells the others, and ends an active lease.                      *)
Starting == {"subscribe", "AVAILABLE", "threads"}
Telling == {"sever", "wake", "if active", "end lease", "self mining"}
Steps == Obeyed \cup Watched \cup Starting \cup Telling \cup {"join watchdog", "join dispatch", "disconnect"}

(* Step x of stop() when d steps come after it.                             *)
StopAt(x, d) ==
  /\ d = 0 => x = "IDLE"
  /\ d = 1 => x = "disconnect"
  /\ d = 2 => x = "join dispatch"
  /\ d = 3 => x = "join watchdog"
  /\ d > 3 => x \in Telling
Stopping(p) == p \in Seq(Steps) /\ \A i \in 1..Len(p) : StopAt(p[i], Len(p) - i)

(* What stop() has done stays done: the shorter its rest, the more ended.   *)
Ended(n) ==
  /\ n <= 3 => watchdog \in {"none", "joined"}
  /\ n <= 2 => dispatch = "joined"
  /\ n <= 1 => ~conn
  /\ n = 0 => state = "IDLE"

(* Without a secret main alone stops the manager; the other threads have    *)
(* something to do only while they are in their loop.                       *)
MainAlone ==
  /\ settings = {} /\ (running <=> main = "up")
  /\ todo \in [Threads -> Seq(Steps)]
  /\ todo["dispatch"] \in Seq(Obeyed) /\ (dispatch # "check" => todo["dispatch"] = <<>>)
  /\ todo["watchdog"] \in Seq(Watched) /\ (watchdog # "sleep" => todo["watchdog"] = <<>>)
  /\ main = "start" => todo["main"] = <<>> /\ dispatch = "none" /\ watchdog = "none"
  /\ main = "up" => todo["main"] \in Seq(Starting)
  /\ main = "stopped" => Stopping(todo["main"]) /\ Ended(Len(todo["main"]))
  /\ main = "gone" =>
       /\ todo["main"] = <<>> /\ watchdog \in {"none", "joined"}
       /\ dispatch = "none" \/ (dispatch = "joined" /\ state = "IDLE" /\ ~conn)

ClientInductive == ClientFlags /\ ClientTyped /\ (~Secret => MainAlone)

(* The constants of a behaviour.                                            *)
LEMMA SetupTyped ==
  ASSUME setup \in DOMAIN Setups
  PROVE  /\ \A m \in Messages : m.lease \in Nat
         /\ QueueCapacity \in Nat \ {0} /\ MaxArrivals \in Nat /\ MaxFound \in Nat /\ MaxLosses \in Nat
BY ClientAssumption DEF Messages, QueueCapacity, MaxArrivals, MaxFound, MaxLosses

(* Nothing changes the configuration.                                       *)
LEMMA SetupStays ==
  ASSUME [Next]_vars
  PROVE  /\ setup' = setup /\ Messages' = Messages /\ QueueCapacity' = QueueCapacity /\ Secret' = Secret
         /\ MaxArrivals' = MaxArrivals /\ MaxFound' = MaxFound /\ MaxLosses' = MaxLosses
<1>1. setup' = setup
  BY DEF Next, vars, intakeVars, MainStep, Start, Subscribe, StartThreads, StopByMain, Stop, Destroy, DispatchStep,
         DispatchCheck, DispatchBlock, StopByCommand, StartLease, ToMiningContext, SwitchToPlatformMining,
         ApplySetting, WatchdogStep, WatchdogRound, IfExpired, IfError, Reconnect, StopStep, Sever, Wake,
         JoinWatchdog, JoinDispatch, Disconnect, SharedStep, TransitionTo, EndLease, SwitchToSelfMining, IfActive,
         EnqueueCommand, ConnectionLost, Connected, LeaseTimeUp, LaneBatch, OnBlockFound, OnBlockFoundLeased
<1>2. QED
  BY <1>1 DEF Messages, QueueCapacity, Secret, MaxArrivals, MaxFound, MaxLosses

(* Every step keeps the flags.                                              *)
LEMMA NextClientFlags == ClientFlags /\ [Next]_vars => ClientFlags'
<1> SUFFICES ASSUME ClientFlags, [Next]_vars PROVE ClientFlags'
  OBVIOUS
<1>1. running' = running \/ running' = TRUE \/ running' = FALSE
  BY Zenon DEF Next, vars, MainStep, Start, Subscribe, StartThreads, StopByMain, Stop, Destroy, DispatchStep,
         DispatchCheck, DispatchBlock, StopByCommand, StartLease, ToMiningContext, SwitchToPlatformMining,
         ApplySetting, WatchdogStep, WatchdogRound, IfExpired, IfError, Reconnect, StopStep, Sever, Wake,
         JoinWatchdog, JoinDispatch, Disconnect, SharedStep, TransitionTo, EndLease, SwitchToSelfMining, IfActive,
         EnqueueCommand, ConnectionLost, Connected, LeaseTimeUp, LaneBatch, OnBlockFound, OnBlockFoundLeased
<1>2. conn' = conn \/ conn' = TRUE \/ conn' = FALSE \/ conn' \in BOOLEAN
  BY Zenon DEF Next, vars, brokerVars, MainStep, Start, Subscribe, StartThreads, StopByMain, Stop, Destroy, DispatchStep,
         DispatchCheck, DispatchBlock, StopByCommand, StartLease, ToMiningContext, SwitchToPlatformMining,
         ApplySetting, WatchdogStep, WatchdogRound, IfExpired, IfError, Reconnect, StopStep, Sever, Wake,
         JoinWatchdog, JoinDispatch, Disconnect, SharedStep, TransitionTo, EndLease, SwitchToSelfMining, IfActive,
         EnqueueCommand, ConnectionLost, Connected, LeaseTimeUp, LaneBatch, OnBlockFound, OnBlockFoundLeased
<1>3. callback' = callback \/ callback' = TRUE \/ callback' = FALSE
  BY Zenon DEF Next, vars, brokerVars, MainStep, Start, Subscribe, StartThreads, StopByMain, Stop, Destroy, DispatchStep,
         DispatchCheck, DispatchBlock, StopByCommand, StartLease, ToMiningContext, SwitchToPlatformMining,
         ApplySetting, WatchdogStep, WatchdogRound, IfExpired, IfError, Reconnect, StopStep, Sever, Wake,
         JoinWatchdog, JoinDispatch, Disconnect, SharedStep, TransitionTo, EndLease, SwitchToSelfMining, IfActive,
         EnqueueCommand, ConnectionLost, Connected, LeaseTimeUp, LaneBatch, OnBlockFound, OnBlockFoundLeased
<1>4. expired' = expired \/ expired' = TRUE \/ expired' = FALSE
  BY Zenon DEF Next, vars, leaseVars, MainStep, Start, Subscribe, StartThreads, StopByMain, Stop, Destroy, DispatchStep,
         DispatchCheck, DispatchBlock, StopByCommand, StartLease, ToMiningContext, SwitchToPlatformMining,
         ApplySetting, WatchdogStep, WatchdogRound, IfExpired, IfError, Reconnect, StopStep, Sever, Wake,
         JoinWatchdog, JoinDispatch, Disconnect, SharedStep, TransitionTo, EndLease, SwitchToSelfMining, IfActive,
         EnqueueCommand, ConnectionLost, Connected, LeaseTimeUp, LaneBatch, OnBlockFound, OnBlockFoundLeased
<1>5. QED
  BY <1>1, <1>2, <1>3, <1>4 DEF ClientFlags

(* A program without its first step.                                        *)
LEMMA TailIs ==
  ASSUME NEW S, NEW p \in Seq(S), p # <<>>
  PROVE  /\ Tail(p) \in Seq(S) /\ Len(p) \in Nat \ {0} /\ Len(Tail(p)) = Len(p) - 1
         /\ Head(p) \in S /\ Head(p) = p[1]
         /\ \A i \in 1..(Len(p) - 1) : Tail(p)[i] = p[i + 1]
OBVIOUS

(* A program with two steps more.                                           *)
LEMMA TwoMore ==
  ASSUME NEW S, NEW p \in Seq(S), NEW a \in S, NEW b \in S
  PROVE  /\ <<a, b>> \o p \in Seq(S) /\ Len(<<a, b>> \o p) = Len(p) + 2
         /\ (<<a, b>> \o p)[1] = a /\ (<<a, b>> \o p)[2] = b
         /\ \A i \in 1..Len(p) : (<<a, b>> \o p)[i + 2] = p[i]
<1>1. <<a, b>> \in Seq(S) /\ Len(<<a, b>>) = 2 /\ <<a, b>>[1] = a /\ <<a, b>>[2] = b
  OBVIOUS
<1>2. <<a, b>> \o p \in Seq(S) /\ Len(<<a, b>> \o p) = 2 + Len(p) /\ Len(p) \in Nat
  BY <1>1
<1>3. \A i \in 1..(2 + Len(p)) :
        (<<a, b>> \o p)[i] = IF i <= 2 THEN <<a, b>>[i] ELSE p[i - 2]
  BY <1>1, <1>2
<1>4. QED
  BY <1>1, <1>2, <1>3

(* What a rest of stop() begins with, and that its rests are such.          *)
LEMMA StopTail ==
  ASSUME NEW p, Stopping(p), p # <<>>
  PROVE  Stopping(Tail(p)) /\ StopAt(Head(p), Len(p) - 1) /\ Len(p) \in Nat \ {0} /\ Len(Tail(p)) = Len(p) - 1
<1>1. p \in Seq(Steps) /\ \A i \in 1..Len(p) : StopAt(p[i], Len(p) - i)
  BY DEF Stopping
<1>2. /\ Tail(p) \in Seq(Steps) /\ Len(p) \in Nat \ {0} /\ Len(Tail(p)) = Len(p) - 1
      /\ Head(p) = p[1] /\ \A i \in 1..(Len(p) - 1) : Tail(p)[i] = p[i + 1]
  BY <1>1, TailIs
<1>3. StopAt(Head(p), Len(p) - 1)
  BY <1>1, <1>2
<1>4. ASSUME NEW i \in 1..Len(Tail(p)) PROVE StopAt(Tail(p)[i], Len(Tail(p)) - i)
  <2>1. i + 1 \in 1..Len(p) /\ i \in 1..(Len(p) - 1) /\ Len(p) - (i + 1) = Len(Tail(p)) - i
    BY <1>2, <1>4
  <2>2. StopAt(p[i + 1], Len(p) - (i + 1)) /\ Tail(p)[i] = p[i + 1]
    BY <1>1, <1>2, <2>1
  <2>3. QED
    BY <2>1, <2>2
<1>5. QED
  BY <1>2, <1>3, <1>4 DEF Stopping

(* Main tells the others more before it waits for them.                     *)
LEMMA StopMore ==
  ASSUME NEW p, Stopping(p), NEW k \in Nat, Len(p) = k, k > 3, NEW a \in Telling, NEW b \in Telling
  PROVE  Stopping(<<a, b>> \o p) /\ Len(<<a, b>> \o p) = k + 2
<1>1. p \in Seq(Steps) /\ \A i \in 1..k : StopAt(p[i], k - i)
  BY DEF Stopping
<1>2. a \in Steps /\ b \in Steps
  BY DEF Steps
<1> DEFINE s == <<a, b>> \o p
<1>3. /\ s \in Seq(Steps) /\ Len(s) = k + 2 /\ s[1] = a /\ s[2] = b
      /\ \A i \in 1..k : s[i + 2] = p[i]
  BY <1>1, <1>2, TwoMore
<1> HIDE DEF s
<1>a. StopAt(a, k + 1) /\ StopAt(b, k)
  <2>1. ~(k + 1 = 0) /\ ~(k + 1 = 1) /\ ~(k + 1 = 2) /\ ~(k + 1 = 3) /\ ~(k = 0) /\ ~(k = 1) /\ ~(k = 2) /\ ~(k = 3)
    OBVIOUS
  <2>2. QED
    BY <2>1, Zenon DEF StopAt
<1>4. ASSUME NEW i \in 1..(k + 2) PROVE StopAt(s[i], (k + 2) - i)
  <2>1. CASE i = 1
    BY <1>3, <1>a, <2>1
  <2>2. CASE i = 2
    BY <1>3, <1>a, <2>2
  <2>3. CASE i > 2
    <3>1. i - 2 \in 1..k /\ (i - 2) + 2 = i /\ k - (i - 2) = (k + 2) - i
      BY <2>3
    <3>2. StopAt(p[i - 2], k - (i - 2)) /\ s[i] = p[i - 2]
      BY <1>1, <1>3, <3>1
    <3>3. QED
      BY <3>1, <3>2
  <2>4. QED
    BY <2>1, <2>2, <2>3
<1>5. Stopping(s)
  BY <1>3, <1>4 DEF Stopping
<1>6. QED
  BY <1>3, <1>5 DEF s
(* Main ends an active lease before it waits for the others.                *)
LEMMA StopEndsLease ==
  ASSUME NEW p, Stopping(p), NEW k \in Nat, Len(p) = k, k > 3
  PROVE  Stopping(<<"end lease", "self mining">> \o p) /\ Len(<<"end lease", "self mining">> \o p) = k + 2
<1>1. "end lease" \in Telling /\ "self mining" \in Telling
  BY DEF Telling
<1>2. QED
  BY <1>1, StopMore, Zenon

(* The programs.                                                            *)
LEMMA ProgramTypes ==
  /\ EndSteps \in Seq(Watched) /\ EndSteps \in Seq(Obeyed)
  /\ <<"IDLE", "reconnect">> \in Seq(Watched) /\ <<"AVAILABLE">> \in Seq(Watched)
  /\ <<"if expired", "if error">> \in Seq(Watched) /\ <<"if error">> \in Seq(Watched)
  /\ <<"end lease", "self mining">> \in Seq(Obeyed) /\ <<"end lease", "self mining">> \in Seq(Watched)
  /\ <<"ERROR">> \in Seq(Obeyed) /\ <<"AVAILABLE">> \in Seq(Obeyed) /\ <<"if active", "IDLE">> \in Seq(Obeyed)
  /\ AssignSteps \in Seq(Obeyed) /\ <<>> \in Seq(Obeyed)
  /\ StartSteps \in Seq(Starting)
<1>1. EndSteps \in Seq(Watched) /\ EndSteps \in Seq(Obeyed)
  BY DEF EndSteps, Watched, Obeyed, States
<1>2. <<"IDLE", "reconnect">> \in Seq(Watched) /\ <<"AVAILABLE">> \in Seq(Watched)
  BY DEF Watched, States
<1>3. <<"if expired", "if error">> \in Seq(Watched) /\ <<"if error">> \in Seq(Watched)
  BY DEF Watched, States
<1>4. <<"end lease", "self mining">> \in Seq(Obeyed) /\ <<"end lease", "self mining">> \in Seq(Watched)
  BY DEF Watched, Obeyed, States
<1>5. <<"ERROR">> \in Seq(Obeyed) /\ <<"AVAILABLE">> \in Seq(Obeyed) /\ <<"if active", "IDLE">> \in Seq(Obeyed)
  BY DEF Obeyed, States
<1>6. AssignSteps \in Seq(Obeyed) /\ <<>> \in Seq(Obeyed)
  BY DEF AssignSteps, Obeyed, States
<1>7. StartSteps \in Seq(Starting)
  BY DEF StartSteps, Starting
<1>8. QED
  BY <1>1, <1>2, <1>3, <1>4, <1>5, <1>6, <1>7

(* stop() as a whole.                                                       *)
LEMMA StopStepsFit == Stopping(StopSteps) /\ Len(StopSteps) = 7
<1>1. StopSteps \in Seq(Steps)
  BY DEF StopSteps, Steps, Telling, States, Obeyed, Watched
<1>2. Len(StopSteps) = 7
  BY DEF StopSteps
<1>3. /\ StopSteps[1] = "sever" /\ StopSteps[2] = "wake" /\ StopSteps[3] = "if active"
      /\ StopSteps[4] = "join watchdog" /\ StopSteps[5] = "join dispatch"
      /\ StopSteps[6] = "disconnect" /\ StopSteps[7] = "IDLE"
  BY DEF StopSteps
<1>4. ASSUME NEW i \in 1..7 PROVE StopAt(StopSteps[i], 7 - i)
  <2>1. StopAt("sever", 6) /\ StopAt("wake", 5) /\ StopAt("if active", 4)
    BY DEF StopAt, Telling
  <2>2. StopAt("join watchdog", 3) /\ StopAt("join dispatch", 2) /\ StopAt("disconnect", 1) /\ StopAt("IDLE", 0)
    BY DEF StopAt
  <2>3. /\ StopAt(StopSteps[1], 6) /\ StopAt(StopSteps[2], 5) /\ StopAt(StopSteps[3], 4)
        /\ StopAt(StopSteps[4], 3) /\ StopAt(StopSteps[5], 2) /\ StopAt(StopSteps[6], 1) /\ StopAt(StopSteps[7], 0)
    BY <1>3, <2>1, <2>2, Zenon
  <2> HIDE DEF StopSteps
  <2>4. i = 1 \/ i = 2 \/ i = 3 \/ i = 4 \/ i = 5 \/ i = 6 \/ i = 7
    OBVIOUS
  <2>5. QED
    BY <2>3, <2>4
<1>5. QED
  BY <1>1, <1>2, <1>4 DEF Stopping

(* Without a secret a command is an assignment, a release, a pause, a       *)
(* resume or an acknowledgement, or it is refused.                          *)
LEMMA UnsignedCommand == ASSUME ~Secret, NEW m PROVE OnMessage(m) \in Seq(Obeyed)
<1>1. CASE ~AuthorizeCommand(m)
  BY <1>1, ProgramTypes DEF OnMessage
<1>2. CASE AuthorizeCommand(m) /\ m.command = "register_ack"
  <2>1. OnMessage(m) = HandleRegisterAck(m)
    BY <1>2 DEF OnMessage
  <2>2. QED
    BY <2>1, ProgramTypes DEF HandleRegisterAck
<1>3. CASE AuthorizeCommand(m) /\ m.command = "assign_task"
  <2>1. OnMessage(m) = HandleAssignTask(m)
    BY <1>3 DEF OnMessage
  <2>2. QED
    BY <2>1, ProgramTypes DEF HandleAssignTask
<1>4. CASE AuthorizeCommand(m) /\ m.command = "release"
  <2>1. OnMessage(m) = HandleRelease(m)
    BY <1>4 DEF OnMessage
  <2>2. QED
    BY <2>1, ProgramTypes DEF HandleRelease
<1>5. CASE AuthorizeCommand(m) /\ m.command \notin {"register_ack", "assign_task", "release"}
  <2>1. m.command = "" /\ m.action \in {"pause", "resume"}
    BY <1>5 DEF AuthorizeCommand, IsMutatingCommand
  <2>2. OnMessage(m) = HandleControl(m)
    BY <1>5 DEF OnMessage
  <2>3. HandleControl(m) \in {<<"if active", "IDLE">>, <<"AVAILABLE">>, <<>>}
    BY <2>1 DEF HandleControl
  <2>4. QED
    BY <2>2, <2>3, ProgramTypes
<1>6. QED
  BY <1>1, <1>2, <1>3, <1>4, <1>5

(* Programs in front of a rest.                                             *)
LEMMA MoreSteps ==
  ASSUME NEW S, NEW p \in Seq(S), p # <<>>, NEW r \in Seq(S)
  PROVE  r \o Tail(p) \in Seq(S)
<1>1. Tail(p) \in Seq(S)
  BY TailIs
<1>2. QED
  BY <1>1, ConcatProperties

-----------------------------------------------------------------------------
(* What keeps main alone *)

(* What the dispatch thread and the watchdog run is made of steps.          *)
LEMMA WorkerSteps == Seq(Obeyed) \subseteq Seq(Steps) /\ Seq(Watched) \subseteq Seq(Steps) /\ Seq(Starting) \subseteq Seq(Steps)
<1>1. Obeyed \subseteq Steps /\ Watched \subseteq Steps /\ Starting \subseteq Steps
  BY DEF Steps
<1>2. ASSUME NEW S, NEW T, S \subseteq T PROVE Seq(S) \subseteq Seq(T)
  BY <1>2
<1>3. QED
  BY <1>1, <1>2

(* A step of the dispatch thread: main has not got past waiting for it, so  *)
(* it may change the state and the connection.                              *)
LEMMA DispatchMoves ==
  ASSUME MainAlone, todo["dispatch"] # <<>>, NEW r \in Seq(Obeyed), todo' = [todo EXCEPT !["dispatch"] = r],
         UNCHANGED <<settings, running, main, dispatch, watchdog>>
  PROVE  MainAlone'
<1>1. dispatch = "check" /\ todo["main"] \in Seq(Steps) /\ Len(todo["main"]) \in Nat
  BY DEF MainAlone, Threads
<1>2. /\ todo' \in [Threads -> Seq(Steps)] /\ todo'["dispatch"] = r
      /\ todo'["watchdog"] = todo["watchdog"] /\ todo'["main"] = todo["main"]
  BY WorkerSteps DEF MainAlone, Threads
<1>3. main = "stopped" => Ended(Len(todo["main"]))'
  BY <1>1, <1>2 DEF MainAlone, Ended
<1>4. main # "gone" /\ main # "start"
  BY <1>1 DEF MainAlone
<1>5. (main = "stopped" => Stopping(todo["main"]))'
  BY <1>2 DEF MainAlone, Stopping
<1>6. QED
  BY <1>1, <1>2, <1>3, <1>4, <1>5 DEF MainAlone

(* A step of the watchdog, likewise.                                        *)
LEMMA WatchdogMoves ==
  ASSUME MainAlone, todo["watchdog"] # <<>>, NEW r \in Seq(Watched), todo' = [todo EXCEPT !["watchdog"] = r],
         UNCHANGED <<settings, running, main, dispatch, watchdog>>
  PROVE  MainAlone'
<1>1. watchdog = "sleep" /\ todo["main"] \in Seq(Steps) /\ Len(todo["main"]) \in Nat
  BY DEF MainAlone, Threads
<1>2. /\ todo' \in [Threads -> Seq(Steps)] /\ todo'["watchdog"] = r
      /\ todo'["dispatch"] = todo["dispatch"] /\ todo'["main"] = todo["main"]
  BY WorkerSteps DEF MainAlone, Threads
<1>3. main = "stopped" => Ended(Len(todo["main"]))'
  BY <1>1, <1>2 DEF MainAlone, Ended
<1>4. main # "gone" /\ main # "start"
  BY <1>1 DEF MainAlone
<1>5. (main = "stopped" => Stopping(todo["main"]))'
  BY <1>2 DEF MainAlone, Stopping
<1>6. QED
  BY <1>1, <1>2, <1>3, <1>4, <1>5 DEF MainAlone

(* Main goes on with start().                                               *)
LEMMA MainStarts ==
  ASSUME MainAlone, main = "up", NEW r \in Seq(Starting), todo' = [todo EXCEPT !["main"] = r],
         UNCHANGED <<settings, running, main>>,
         dispatch' \in {dispatch, "check"}, watchdog' \in {watchdog, "sleep"}
  PROVE  MainAlone'
<1>1. /\ todo' \in [Threads -> Seq(Steps)] /\ todo'["main"] = r
      /\ todo'["dispatch"] = todo["dispatch"] /\ todo'["watchdog"] = todo["watchdog"]
  BY WorkerSteps DEF MainAlone, Threads
<1>2. QED
  BY <1>1 DEF MainAlone

(* Main goes on with stop(): what it has waited for, and the rest it has,   *)
(* belong together.                                                         *)
LEMMA MainStops ==
  ASSUME MainAlone, main = "stopped", NEW r, Stopping(r), todo' = [todo EXCEPT !["main"] = r],
         UNCHANGED <<settings, running, main>>, Ended(Len(r))',
         dispatch' # "check" => todo["dispatch"] = <<>>, watchdog' # "sleep" => todo["watchdog"] = <<>>
  PROVE  MainAlone'
<1>1. /\ todo' \in [Threads -> Seq(Steps)] /\ todo'["main"] = r
      /\ todo'["dispatch"] = todo["dispatch"] /\ todo'["watchdog"] = todo["watchdog"]
  BY DEF MainAlone, Threads, Stopping
<1>2. Stopping(r)'
  BY DEF Stopping
<1>3. Stopping(todo["main"])' /\ Ended(Len(todo["main"]))'
  BY <1>1, <1>2
<1>4. QED
  BY <1>1, <1>3 DEF MainAlone

(* Which steps of stop() stand where.                                       *)
LEMMA StopPlace ==
  ASSUME NEW x, NEW d \in Nat, StopAt(x, d)
  PROVE  /\ x \in Telling => d > 3
         /\ x = "join watchdog" => d = 3
         /\ x = "join dispatch" => d = 2
         /\ x = "disconnect" => d = 1
         /\ x \in States => d = 0 /\ x = "IDLE"
<1>1. d = 0 \/ d = 1 \/ d = 2 \/ d = 3 \/ d > 3
  OBVIOUS
<1>2. CASE d = 0
  BY <1>2 DEF StopAt, Telling
<1>3. CASE d = 1
  BY <1>3 DEF StopAt, Telling, States
<1>4. CASE d = 2
  BY <1>4 DEF StopAt, Telling, States
<1>5. CASE d = 3
  BY <1>5 DEF StopAt, Telling, States
<1>6. CASE d > 3
  <2>1. x \in Telling
    BY <1>6 DEF StopAt
  <2>2. QED
    BY <1>6, <2>1 DEF Telling, States
<1>7. QED
  BY <1>1, <1>2, <1>3, <1>4, <1>5, <1>6

(* What stop() consists of.                                                 *)
LEMMA StopIn ==
  ASSUME NEW x, NEW d \in Nat, StopAt(x, d)
  PROVE  x \in Telling \cup States \cup {"join watchdog", "join dispatch", "disconnect"}
<1>1. d = 0 \/ d = 1 \/ d = 2 \/ d = 3 \/ d > 3
  OBVIOUS
<1>2. QED
  BY <1>1, Zenon DEF StopAt, States

(* The length of a program.                                                 *)
LEMMA LenOf == ASSUME NEW S, NEW p \in Seq(S) PROVE Len(p) \in Nat
OBVIOUS

(* Taking one away, and giving it back.                                     *)
LEMMA OneLess == ASSUME NEW a \in Nat, NEW b, b = a - 1 PROVE a = b + 1
OBVIOUS

(* Who can be at which step.                                                *)
LEMMA StepOf ==
  ASSUME MainAlone, NEW t \in Threads, todo[t] # <<>>, main \in {"start", "up", "stopped", "gone"}
  PROVE  \/ t = "dispatch" /\ Head(todo[t]) \in Obeyed /\ todo[t] \in Seq(Obeyed) /\ Tail(todo[t]) \in Seq(Obeyed)
         \/ t = "watchdog" /\ Head(todo[t]) \in Watched /\ todo[t] \in Seq(Watched) /\ Tail(todo[t]) \in Seq(Watched)
         \/ t = "main" /\ main = "up" /\ Head(todo[t]) \in Starting /\ Tail(todo[t]) \in Seq(Starting)
         \/ /\ t = "main" /\ main = "stopped" /\ Len(todo[t]) - 1 \in Nat /\ StopAt(Head(todo[t]), Len(todo[t]) - 1)
            /\ Stopping(Tail(todo[t])) /\ Len(Tail(todo[t])) = Len(todo[t]) - 1 /\ Ended(Len(todo[t]))
<1>1. CASE t = "dispatch"
  <2>1. todo[t] \in Seq(Obeyed)
    BY <1>1 DEF MainAlone
  <2>2. QED
    BY <1>1, <2>1, TailIs
<1>2. CASE t = "watchdog"
  <2>1. todo[t] \in Seq(Watched)
    BY <1>2 DEF MainAlone
  <2>2. QED
    BY <1>2, <2>1, TailIs
<1>3. CASE t = "main" /\ main = "up"
  <2>1. todo[t] \in Seq(Starting)
    BY <1>3 DEF MainAlone
  <2>2. QED
    BY <1>3, <2>1, TailIs
<1>4. CASE t = "main" /\ main = "stopped"
  <2>1. Stopping(todo[t]) /\ Ended(Len(todo[t]))
    BY <1>4 DEF MainAlone
  <2>2. /\ Stopping(Tail(todo[t])) /\ StopAt(Head(todo[t]), Len(todo[t]) - 1)
        /\ Len(todo[t]) \in Nat \ {0} /\ Len(Tail(todo[t])) = Len(todo[t]) - 1
    BY <2>1, StopTail
  <2>3. Len(todo[t]) - 1 \in Nat
    BY <2>2
  <2>4. QED
    BY <1>4, <2>1, <2>2, <2>3
<1>5. CASE t = "main" /\ main \in {"start", "gone"}
  BY <1>5 DEF MainAlone
<1>6. QED
  BY <1>1, <1>2, <1>3, <1>4, <1>5 DEF Threads

(* The steps of stop() are main's, each at its place.                       *)
LEMMA StopIsMains ==
  ASSUME MainAlone, NEW t \in Threads, todo[t] # <<>>, main \in {"start", "up", "stopped", "gone"},
         Head(todo[t]) \in {"sever", "wake", "join watchdog", "join dispatch", "disconnect"}
  PROVE  /\ t = "main" /\ main = "stopped" /\ Stopping(Tail(todo["main"])) /\ Ended(Len(todo["main"]))
         /\ Len(Tail(todo["main"])) \in Nat /\ Len(todo["main"]) = Len(Tail(todo["main"])) + 1
         /\ Head(todo[t]) \in {"sever", "wake"} => Len(Tail(todo["main"])) > 3
         /\ Head(todo[t]) = "join watchdog" => Len(Tail(todo["main"])) = 3
         /\ Head(todo[t]) = "join dispatch" => Len(Tail(todo["main"])) = 2
         /\ Head(todo[t]) = "disconnect" => Len(Tail(todo["main"])) = 1
<1>1. Head(todo[t]) \notin Obeyed /\ Head(todo[t]) \notin Watched /\ Head(todo[t]) \notin Starting
  BY DEF Obeyed, Watched, Starting, States
<1>2. /\ t = "main" /\ main = "stopped" /\ Len(todo[t]) - 1 \in Nat /\ StopAt(Head(todo[t]), Len(todo[t]) - 1)
      /\ Stopping(Tail(todo[t])) /\ Len(Tail(todo[t])) = Len(todo[t]) - 1 /\ Ended(Len(todo[t]))
  BY <1>1, StepOf, Zenon
<1>3. Len(todo[t]) \in Nat
  <2>1. todo[t] \in Seq(Steps)
    BY DEF MainAlone
  <2>2. QED
    BY <2>1, LenOf, Zenon
<1>4. /\ Head(todo[t]) \in Telling => Len(todo[t]) - 1 > 3
      /\ Head(todo[t]) = "join watchdog" => Len(todo[t]) - 1 = 3
      /\ Head(todo[t]) = "join dispatch" => Len(todo[t]) - 1 = 2
      /\ Head(todo[t]) = "disconnect" => Len(todo[t]) - 1 = 1
  BY <1>2, StopPlace
<1>5. Head(todo[t]) \in {"sever", "wake"} => Head(todo[t]) \in Telling
  BY DEF Telling
<1>6. Len(todo[t]) = Len(Tail(todo[t])) + 1
  BY <1>2, <1>3, OneLess, Zenon
<1>7. QED
  BY <1>2, <1>4, <1>5, <1>6

(* The steps of stop().                                                     *)
LEMMA StopStepAlone ==
  ASSUME ClientTyped, MainAlone, NEW t \in Threads, StopStep(t) PROVE MainAlone'
<1>r. PICK r : r = Tail(todo["main"])
  OBVIOUS
<1>0. /\ todo[t] # <<>> /\ Done(t) /\ UNCHANGED <<settings, running, main>>
      /\ Head(todo[t]) \in {"sever", "wake", "join watchdog", "join dispatch", "disconnect"}
  BY DEF StopStep, Sever, Wake, JoinWatchdog, JoinDispatch, Disconnect, At, placeVars
<1>1. /\ t = "main" /\ main = "stopped" /\ Stopping(r) /\ Ended(Len(todo["main"]))
      /\ Len(r) \in Nat /\ Len(todo["main"]) = Len(r) + 1
      /\ Head(todo[t]) \in {"sever", "wake"} => Len(r) > 3
      /\ Head(todo[t]) = "join watchdog" => Len(r) = 3
      /\ Head(todo[t]) = "join dispatch" => Len(r) = 2
      /\ Head(todo[t]) = "disconnect" => Len(r) = 1
  BY <1>r, <1>0, StopIsMains DEF ClientTyped
<1>n. PICK n \in Nat : n = Len(r) /\ Ended(n + 1)
  BY <1>1, Zenon
<1>2. todo' = [todo EXCEPT !["main"] = r]
  BY <1>r, <1>0, <1>1 DEF Done
<1>3. /\ dispatch # "check" => todo["dispatch"] = <<>>
      /\ watchdog # "sleep" => todo["watchdog"] = <<>>
  BY DEF MainAlone
<1>4. CASE Sever(t) \/ Wake(t)
  <2>1. Len(r) > 3 /\ UNCHANGED watchdog /\ (dispatch' = dispatch \/ dispatch' = "check")
    BY <1>1, <1>4 DEF Sever, Wake, At, placeVars
  <2>2. Ended(Len(r))'
    BY <1>n, <2>1 DEF Ended
  <2>3. QED
    BY <1>0, <1>1, <1>2, <1>3, <2>1, <2>2, MainStops
<1>5. CASE JoinWatchdog(t)
  <2>1. Len(r) = 3 /\ watchdog' \in {"none", "joined"} /\ watchdog # "sleep" /\ UNCHANGED dispatch
    BY <1>1, <1>5 DEF JoinWatchdog, At
  <2>2. Ended(Len(r))'
    BY <1>n, <2>1 DEF Ended
  <2>3. QED
    BY <1>0, <1>1, <1>2, <1>3, <2>1, <2>2, MainStops
<1>6. CASE JoinDispatch(t)
  <2>1. Len(r) = 2 /\ dispatch' = "joined" /\ dispatch # "check" /\ UNCHANGED watchdog
    BY <1>1, <1>6 DEF JoinDispatch, At
  <2>2. watchdog \in {"none", "joined"}
    BY <1>n, <2>1 DEF Ended
  <2>3. Ended(Len(r))'
    BY <1>n, <2>1, <2>2 DEF Ended
  <2>4. QED
    BY <1>0, <1>1, <1>2, <1>3, <2>1, <2>3, MainStops
<1>7. CASE Disconnect(t)
  <2>1. Len(r) = 1 /\ ~conn' /\ UNCHANGED <<dispatch, watchdog>>
    BY <1>1, <1>7 DEF Disconnect, At, placeVars
  <2>2. watchdog \in {"none", "joined"} /\ dispatch = "joined"
    BY <1>n, <2>1 DEF Ended
  <2>3. Ended(Len(r))'
    BY <1>n, <2>1, <2>2 DEF Ended
  <2>4. QED
    BY <1>0, <1>1, <1>2, <1>3, <2>1, <2>3, MainStops
<1>8. QED
  BY <1>4, <1>5, <1>6, <1>7 DEF StopStep

(* The steps that the threads share.                                        *)
LEMMA SharedStepAlone ==
  ASSUME ClientTyped, MainAlone, NEW t \in Threads, SharedStep(t) PROVE MainAlone'
<1>r. PICK r : r = Tail(todo[t])
  OBVIOUS
<1>p. PICK p : p = IF IfActive(t) /\ HasActiveLease THEN <<"end lease", "self mining">> \o r ELSE r
  OBVIOUS
<1>0. todo[t] # <<>> /\ UNCHANGED <<settings, running, main, dispatch, watchdog>>
  BY DEF SharedStep, TransitionTo, EndLease, SwitchToSelfMining, IfActive, At, placeVars
<1>1. todo' = [todo EXCEPT ![t] = p]
  BY <1>r, <1>p DEF SharedStep, TransitionTo, EndLease, SwitchToSelfMining, IfActive, Done, Then
<1>2. Head(todo[t]) \in States \cup {"end lease", "self mining", "if active"}
  BY DEF SharedStep, TransitionTo, EndLease, SwitchToSelfMining, IfActive, At
<1>3. main \in {"start", "up", "stopped", "gone"}
  BY DEF ClientTyped
<1>4. CASE t = "dispatch"
  <2>1. todo[t] \in Seq(Obeyed)
    BY <1>4 DEF MainAlone
  <2>2. p \in Seq(Obeyed)
    BY <1>r, <1>p, <1>0, <2>1, TailIs, MoreSteps, ProgramTypes, Zenon
  <2>3. QED
    BY <1>0, <1>1, <1>4, <2>2, DispatchMoves
<1>5. CASE t = "watchdog"
  <2>1. todo[t] \in Seq(Watched)
    BY <1>5 DEF MainAlone
  <2>2. p \in Seq(Watched)
    BY <1>r, <1>p, <1>0, <2>1, TailIs, MoreSteps, ProgramTypes, Zenon
  <2>3. QED
    BY <1>0, <1>1, <1>5, <2>2, WatchdogMoves
<1>6. CASE t = "main" /\ main = "up"
  <2>1. Head(todo[t]) \in Starting /\ r \in Seq(Starting)
    BY <1>r, <1>0, <1>3, <1>6, StepOf
  <2>2. ~IfActive(t)
    BY <2>1 DEF IfActive, At, Starting
  <2>3. p = r
    BY <1>p, <2>2
  <2>4. QED
    BY <1>0, <1>1, <1>6, <2>1, <2>3, MainStarts
<1>7. CASE t = "main" /\ main = "stopped"
  <2>1. /\ Len(todo[t]) - 1 \in Nat /\ StopAt(Head(todo[t]), Len(todo[t]) - 1)
        /\ Stopping(r) /\ Len(r) = Len(todo[t]) - 1 /\ Ended(Len(todo["main"]))
    BY <1>r, <1>0, <1>3, <1>7, StepOf
  <2>2. Len(r) \in Nat /\ StopAt(Head(todo[t]), Len(r))
    BY <2>1
  <2>3. CASE TransitionTo(t)
    <3>1. Len(r) = 0 /\ Head(todo[t]) = "IDLE"
      BY <2>2, <2>3, StopPlace DEF TransitionTo
    <3>2. state' = "IDLE" /\ conn' = conn
      BY <2>3, <3>1 DEF TransitionTo, brokerVars
    <3>3. Len(todo["main"]) = 1
      <4>1. todo["main"] \in Seq(Steps)
        BY DEF MainAlone, Threads
      <4>2. Len(todo["main"]) \in Nat
        BY <4>1
      <4>3. QED
        BY <1>7, <2>1, <3>1, <4>2
    <3>4. watchdog \in {"none", "joined"} /\ dispatch = "joined" /\ ~conn
      BY <2>1, <3>3 DEF Ended
    <3>5. Ended(Len(r))'
      BY <1>0, <3>1, <3>2, <3>4 DEF Ended
    <3>6. p = r
      BY <1>p, <2>3, <3>1 DEF IfActive, At
    <3>7. QED
      BY <1>0, <1>1, <1>7, <2>1, <3>5, <3>6, MainStops DEF MainAlone
  <2>4. CASE ~TransitionTo(t)
    <3>1. Head(todo[t]) \in {"end lease", "self mining", "if active"}
      BY <2>4 DEF SharedStep, EndLease, SwitchToSelfMining, IfActive, At
    <3>2. Len(r) > 3
      BY <2>2, <3>1, StopPlace DEF Telling
    <3>3. Stopping(p) /\ Len(p) \in Nat /\ Len(p) > 3
      <4>1. CASE p = r
        BY <2>1, <2>2, <3>2, <4>1
      <4>2. CASE p = <<"end lease", "self mining">> \o r
        <5>1. Stopping(p) /\ Len(p) = Len(r) + 2
          BY <2>1, <2>2, <3>2, <4>2, StopEndsLease, Zenon
        <5>2. QED
          BY <2>2, <3>2, <5>1
      <4>3. QED
        BY <1>p, <4>1, <4>2
    <3>4. Ended(Len(p))'
      BY <3>3 DEF Ended
    <3>5. QED
      BY <1>0, <1>1, <1>7, <3>3, <3>4, MainStops DEF MainAlone
  <2>5. QED
    BY <2>3, <2>4
<1>8. CASE t = "main" /\ main \in {"start", "gone"}
  BY <1>0, <1>8 DEF MainAlone
<1>9. QED
  BY <1>3, <1>4, <1>5, <1>6, <1>7, <1>8 DEF Threads

(* The steps of start(), and that only main stops the manager.              *)
LEMMA MainStepAlone ==
  ASSUME ClientFlags, ClientTyped, MainAlone, MainStep \/ StopByMain \/ Destroy PROVE MainAlone'
<1>1. CASE Start
  <2>1. CASE main' = "up"
    <3>1. /\ running' = TRUE /\ UNCHANGED <<settings, dispatch, watchdog>>
          /\ todo' = [todo EXCEPT !["main"] = StartSteps]
      BY <1>1, <2>1 DEF Start
    <3>2. /\ todo' \in [Threads -> Seq(Steps)] /\ todo'["main"] = StartSteps
          /\ todo'["dispatch"] = todo["dispatch"] /\ todo'["watchdog"] = todo["watchdog"]
      BY <3>1, ProgramTypes, WorkerSteps DEF MainAlone, Threads
    <3>3. QED
      BY <2>1, <3>1, <3>2, ProgramTypes DEF MainAlone
  <2>2. CASE main' = "gone"
    <3>1. main = "start" /\ UNCHANGED <<settings, running, todo, dispatch, watchdog>>
      BY <1>1, <2>2 DEF Start
    <3>2. QED
      BY <2>2, <3>1 DEF MainAlone
  <2>3. QED
    BY <1>1, <2>1, <2>2 DEF Start
<1>2. CASE Subscribe \/ StartThreads
  <2>1. /\ todo["main"] # <<>> /\ Head(todo["main"]) \in {"subscribe", "threads"} /\ Done("main")
        /\ UNCHANGED <<settings, running, main>>
        /\ dispatch' \in {dispatch, "check"} /\ watchdog' \in {watchdog, "sleep"}
    BY <1>2 DEF Subscribe, StartThreads, At
  <2>2. Head(todo["main"]) \notin Telling \cup States \cup {"join watchdog", "join dispatch", "disconnect"}
    BY <2>1 DEF Telling, States
  <2>3. main = "up" /\ Tail(todo["main"]) \in Seq(Starting)
    <3>1. main \in {"start", "up", "stopped", "gone"} /\ "main" \in Threads
      BY DEF ClientTyped, Threads
    <3>2. ASSUME main = "stopped" PROVE FALSE
      <4>1. Len(todo["main"]) - 1 \in Nat /\ StopAt(Head(todo["main"]), Len(todo["main"]) - 1)
        BY <2>1, <3>1, <3>2, StepOf
      <4>2. QED
        BY <2>2, <4>1, StopIn, Zenon
    <3>3. QED
      BY <2>1, <3>1, <3>2, StepOf
  <2>4. QED
    BY <2>1, <2>3, MainStarts DEF Done
<1>3. CASE StopByMain
  <2>1. /\ main = "up" /\ main' = "stopped" /\ todo' = [todo EXCEPT !["main"] = StopSteps] /\ running' = FALSE
        /\ UNCHANGED <<settings, dispatch, watchdog>>
    BY <1>3 DEF StopByMain, Stop, Instead, MainAlone
  <2>2. /\ todo' \in [Threads -> Seq(Steps)] /\ todo'["main"] = StopSteps
        /\ todo'["dispatch"] = todo["dispatch"] /\ todo'["watchdog"] = todo["watchdog"]
    BY <2>1, StopStepsFit DEF MainAlone, Threads, Stopping
  <2>3. Ended(7)'
    BY DEF Ended
  <2>4. Stopping(todo'["main"]) /\ Len(todo'["main"]) = 7
    BY <2>2, StopStepsFit
  <2>5. Stopping(todo["main"])' /\ Ended(Len(todo["main"]))'
    BY <2>3, <2>4 DEF Stopping
  <2>6. QED
    BY <2>1, <2>2, <2>5 DEF MainAlone
<1>4. CASE Destroy
  <2>1. /\ main = "stopped" /\ todo["main"] = <<>> /\ dispatch # "check" /\ main' = "gone" /\ dispatch' = "joined"
        /\ UNCHANGED <<settings, running, todo, watchdog, state, conn>>
    BY <1>4 DEF Destroy, brokerVars
  <2>2. Ended(0)
    BY <2>1 DEF MainAlone
  <2>3. watchdog \in {"none", "joined"} /\ ~conn /\ state = "IDLE"
    BY <2>2 DEF Ended
  <2>4. QED
    BY <2>1, <2>3 DEF MainAlone
<1>5. QED
  BY <1>1, <1>2, <1>3, <1>4 DEF MainStep

(* The dispatch thread, its intake and the broker.                          *)
LEMMA DispatchStepAlone ==
  ASSUME ~Secret, ClientFlags, ClientTyped, MainAlone, DispatchStep PROVE MainAlone'
<1>h. ASSUME todo["dispatch"] # <<>>
      PROVE  todo["dispatch"] \in Seq(Obeyed) /\ Tail(todo["dispatch"]) \in Seq(Obeyed) /\ Head(todo["dispatch"]) \in Obeyed
  <2>1. todo["dispatch"] \in Seq(Obeyed)
    BY DEF MainAlone
  <2>2. QED
    BY <1>h, <2>1, TailIs
<1>1. CASE DispatchCheck
  <2>1. /\ dispatch = "check" /\ todo["dispatch"] = <<>> /\ UNCHANGED <<settings, running, main, watchdog, state, conn>>
    BY <1>1 DEF DispatchCheck, brokerVars
  <2>2. CASE ~running /\ dispatch' = "exited" /\ UNCHANGED todo
    <3>1. main = "stopped" => Ended(Len(todo["main"]))'
      BY <2>1, <2>2 DEF MainAlone, Ended
    <3>2. (main = "stopped" => Stopping(todo["main"]))'
      BY <2>1, <2>2 DEF MainAlone, Stopping
    <3>3. main # "gone" /\ main # "start" /\ main # "up"
      BY <2>1, <2>2 DEF MainAlone
    <3>4. QED
      BY <2>1, <2>2, <3>1, <3>2, <3>3 DEF MainAlone
  <2>3. CASE running /\ dispatch' = "block" /\ UNCHANGED todo
    BY <2>1, <2>3 DEF MainAlone
  <2>4. CASE running /\ todo' = [todo EXCEPT !["dispatch"] = OnMessage(Head(queue))] /\ UNCHANGED dispatch
    <3>1. PICK r \in Seq(Obeyed) : r = OnMessage(Head(queue))
      BY UnsignedCommand
    <3>2. /\ todo' \in [Threads -> Seq(Steps)] /\ todo'["dispatch"] = r
          /\ todo'["watchdog"] = todo["watchdog"] /\ todo'["main"] = todo["main"]
      BY <2>4, <3>1, WorkerSteps DEF MainAlone, Threads
    <3>3. QED
      BY <2>1, <2>4, <3>2 DEF MainAlone
  <2>5. QED
    BY <1>1, <2>2, <2>3, <2>4 DEF DispatchCheck, Instead
<1>2. CASE DispatchBlock
  <2>1. /\ dispatch = "block" /\ dispatch' = "blocked"
        /\ UNCHANGED <<settings, running, main, watchdog, state, conn, todo>>
    BY <1>2 DEF DispatchBlock, brokerVars
  <2>2. main = "stopped" => Ended(Len(todo["main"]))'
    BY <2>1 DEF MainAlone, Ended
  <2>3. (main = "stopped" => Stopping(todo["main"]))'
    BY <2>1 DEF MainAlone, Stopping
  <2>4. QED
    BY <2>1, <2>2, <2>3 DEF MainAlone
<1>3. CASE StopByCommand
  <2>1. "stop" \in Obeyed
    BY <1>3, <1>h DEF StopByCommand, At
  <2>2. QED
    BY <2>1 DEF Obeyed, States
<1>4. CASE StartLease
  <2>1. PICK r : r = IF lease = 0 THEN Tail(todo["dispatch"]) ELSE <<"ERROR">>
    OBVIOUS
  <2>2. r \in Seq(Obeyed)
    BY <1>4, <1>h, <2>1, ProgramTypes DEF StartLease, At
  <2>3. /\ todo["dispatch"] # <<>> /\ todo' = [todo EXCEPT !["dispatch"] = r]
        /\ UNCHANGED <<settings, running, main, dispatch, watchdog>>
    BY <1>4, <2>1 DEF StartLease, At, Done, Instead, placeVars
  <2>4. QED
    BY <2>2, <2>3, DispatchMoves
<1>5. CASE ToMiningContext \/ SwitchToPlatformMining
  <2>1. /\ todo["dispatch"] # <<>> /\ todo' = [todo EXCEPT !["dispatch"] = Tail(todo["dispatch"])]
        /\ UNCHANGED <<settings, running, main, dispatch, watchdog>>
    BY <1>5 DEF ToMiningContext, SwitchToPlatformMining, At, Done, placeVars
  <2>2. QED
    BY <1>h, <2>1, DispatchMoves
<1>6. CASE ApplySetting
  <2>1. Head(todo["dispatch"]) \in Obeyed /\ Head(todo["dispatch"]) \in Fields
    BY <1>6, <1>h DEF ApplySetting
  <2>2. QED
    BY <2>1 DEF Obeyed, States, Fields
<1>7. QED
  BY <1>1, <1>2, <1>3, <1>4, <1>5, <1>6 DEF DispatchStep

(* The watchdog.                                                            *)
LEMMA WatchdogStepAlone ==
  ASSUME ClientFlags, ClientTyped, MainAlone, WatchdogStep PROVE MainAlone'
<1>h. ASSUME todo["watchdog"] # <<>>
      PROVE  todo["watchdog"] \in Seq(Watched) /\ Tail(todo["watchdog"]) \in Seq(Watched)
  <2>1. todo["watchdog"] \in Seq(Watched)
    BY DEF MainAlone
  <2>2. QED
    BY <1>h, <2>1, TailIs
<1>1. CASE WatchdogRound
  <2>1. /\ watchdog = "sleep" /\ todo["watchdog"] = <<>> /\ UNCHANGED <<settings, running, main, dispatch, state, conn>>
    BY <1>1 DEF WatchdogRound, brokerVars
  <2>2. CASE running
    <3>1. PICK r \in Seq(Watched) : r = WatchdogSteps(state)
      BY ProgramTypes DEF WatchdogSteps
    <3>2. todo' = [todo EXCEPT !["watchdog"] = r] /\ UNCHANGED watchdog
      BY <1>1, <2>2, <3>1 DEF WatchdogRound, Instead
    <3>3. /\ todo' \in [Threads -> Seq(Steps)] /\ todo'["watchdog"] = r
          /\ todo'["dispatch"] = todo["dispatch"] /\ todo'["main"] = todo["main"]
      BY <3>2, WorkerSteps DEF MainAlone, Threads
    <3>4. QED
      BY <2>1, <2>2, <3>2, <3>3 DEF MainAlone
  <2>3. CASE ~running
    <3>1. watchdog' = "exited" /\ UNCHANGED todo
      BY <1>1, <2>3 DEF WatchdogRound
    <3>2. main = "stopped" => Ended(Len(todo["main"]))'
      BY <2>1, <3>1 DEF MainAlone, Ended
    <3>3. (main = "stopped" => Stopping(todo["main"]))'
      BY <2>1, <3>1 DEF MainAlone, Stopping
    <3>4. main # "gone" /\ main # "start" /\ main # "up"
      BY <2>1, <2>3 DEF MainAlone
    <3>5. QED
      BY <2>1, <3>1, <3>2, <3>3, <3>4 DEF MainAlone
  <2>4. QED
    BY <2>2, <2>3
<1>2. CASE IfExpired \/ IfError \/ Reconnect
  <2>0. todo["watchdog"] # <<>> /\ UNCHANGED <<settings, running, main, dispatch, watchdog>>
    BY <1>2 DEF IfExpired, IfError, Reconnect, At, placeVars
  <2>1. \E s \in {<<>>, EndSteps, <<"IDLE", "reconnect">>, <<"AVAILABLE">>} :
          todo' = [todo EXCEPT !["watchdog"] = IF s = <<>> THEN Tail(todo["watchdog"]) ELSE s \o Tail(todo["watchdog"])]
    <3>1. EndSteps # <<>> /\ <<"IDLE", "reconnect">> # <<>> /\ <<"AVAILABLE">> # <<>>
      BY DEF EndSteps
    <3>2. QED
      BY <1>2, <3>1, Zenon DEF IfExpired, IfError, Reconnect, Done, Then
  <2>2. PICK r : todo' = [todo EXCEPT !["watchdog"] = r] /\ r \in Seq(Watched)
    BY <1>h, <2>0, <2>1, MoreSteps, ProgramTypes, Zenon
  <2>3. QED
    BY <2>0, <2>2, WatchdogMoves
<1>3. QED
  BY <1>1, <1>2 DEF WatchdogStep

(* Whoever neither changes the state nor a thread's place or program, and   *)
(* connects only while the manager runs.                                    *)
LEMMA OthersAlone ==
  ASSUME ClientFlags, MainAlone, UNCHANGED <<settings, running, main, watchdog, todo, state>>,
         conn' => conn \/ running, dispatch' = dispatch \/ (running /\ dispatch' = "check")
  PROVE  MainAlone'
<1>1. CASE main = "up"
  BY <1>1 DEF MainAlone
<1>2. CASE main # "up"
  <2>1. UNCHANGED dispatch /\ (conn' => conn)
    BY <1>2 DEF MainAlone
  <2>2. main = "stopped" => Ended(Len(todo["main"]))'
    BY <2>1 DEF MainAlone, Ended
  <2>3. (main = "stopped" => Stopping(todo["main"]))'
    BY DEF MainAlone, Stopping
  <2>4. QED
    BY <1>2, <2>1, <2>2, <2>3 DEF MainAlone
<1>3. QED
  BY <1>1, <1>2

(* Every step keeps main alone.                                             *)
LEMMA NextMainAlone == ASSUME ~Secret, ClientFlags, ClientTyped, MainAlone, [Next]_vars PROVE MainAlone'
<1>1. CASE MainStep \/ StopByMain \/ Destroy
  BY <1>1, MainStepAlone
<1>2. CASE DispatchStep
  BY <1>2, DispatchStepAlone
<1>3. CASE WatchdogStep
  BY <1>3, WatchdogStepAlone
<1>4. CASE \E t \in Threads : StopStep(t) \/ SharedStep(t)
  BY <1>4, StopStepAlone, SharedStepAlone
<1>5. CASE \E m \in Messages : EnqueueCommand(m)
  <2>1. /\ UNCHANGED <<settings, running, main, watchdog, todo, state, conn>>
        /\ dispatch' = dispatch \/ (running /\ dispatch' = "check")
    BY <1>5 DEF EnqueueCommand, Notified, brokerVars
  <2>2. QED
    BY <2>1, OthersAlone
<1>6. CASE ConnectionLost \/ Connected \/ LeaseTimeUp
  <2>1. UNCHANGED <<settings, running, main, watchdog, todo, state, dispatch>> /\ (conn' => conn \/ running)
    BY <1>6 DEF ConnectionLost, Connected, LeaseTimeUp, brokerVars, placeVars
  <2>2. QED
    BY <2>1, OthersAlone
<1>7. CASE LaneBatch \/ OnBlockFound \/ OnBlockFoundLeased \/ UNCHANGED vars
  <2>1. UNCHANGED <<settings, running, main, watchdog, todo, state, dispatch, conn>>
    BY <1>7 DEF LaneBatch, OnBlockFound, OnBlockFoundLeased, vars, brokerVars, placeVars
  <2>2. QED
    BY <2>1, OthersAlone
<1>8. QED
  BY <1>1, <1>2, <1>3, <1>4, <1>5, <1>6, <1>7 DEF Next

-----------------------------------------------------------------------------
(* Types *)

(* The lease, the context and the state.                                    *)
LeaseTyped ==
  /\ state \in States /\ lease \in Nat /\ context \in Nat /\ ctx \in Nat
  /\ (expired => lease # 0) /\ settings \subseteq Fields

(* The lane and what is counted.                                            *)
LaneTyped ==
  /\ lane \in [pc : {"batch", "found", "lease"}, mined : Nat]
  /\ arrivals \in 0..MaxArrivals /\ batches \in 0..MaxFound /\ losses \in 0..MaxLosses

(* Where the threads are.                                                   *)
PlacesTyped ==
  /\ dispatch \in {"none", "check", "block", "blocked", "exited", "joined"}
  /\ watchdog \in {"none", "sleep", "exited", "joined"}
  /\ main \in {"start", "up", "stopped", "gone"}

(* The queue.                                                               *)
QueueTyped == queue \in Seq(Messages) /\ Len(queue) <= QueueCapacity

(* The queue keeps to its capacity.                                         *)
LEMMA NextQueue == ASSUME ClientTyped, [Next]_vars PROVE QueueTyped'
<1>1. /\ Messages' = Messages /\ QueueCapacity' = QueueCapacity /\ QueueCapacity \in Nat \ {0}
      /\ queue \in Seq(Messages) /\ Len(queue) <= QueueCapacity
  BY SetupTyped, SetupStays DEF ClientTyped
<1>2. CASE UNCHANGED queue
  BY <1>1, <1>2 DEF QueueTyped
<1>3. CASE queue # <<>> /\ queue' = Tail(queue)
  <2>1. Tail(queue) \in Seq(Messages) /\ Len(Tail(queue)) = Len(queue) - 1 /\ Len(queue) \in Nat
    BY <1>1, <1>3, TailIs
  <2>2. QED
    BY <1>1, <1>3, <2>1 DEF QueueTyped
<1>4. ASSUME NEW m \in Messages, queue' = Append(queue, m), Len(queue) < QueueCapacity PROVE QueueTyped'
  <2>1. Append(queue, m) \in Seq(Messages) /\ Len(Append(queue, m)) = Len(queue) + 1 /\ Len(queue) \in Nat
    BY <1>1, <1>4
  <2>2. QED
    BY <1>1, <1>4, <2>1 DEF QueueTyped
<1>5. \/ UNCHANGED queue \/ (queue # <<>> /\ queue' = Tail(queue))
      \/ \E m \in Messages : queue' = Enqueued(m)
  BY Zenon DEF Next, vars, intakeVars, MainStep, Start, Subscribe, StartThreads, StopByMain, Stop, Destroy, DispatchStep,
         DispatchCheck, DispatchBlock, StopByCommand, StartLease, ToMiningContext, SwitchToPlatformMining,
         ApplySetting, WatchdogStep, WatchdogRound, IfExpired, IfError, Reconnect, StopStep, Sever, Wake,
         JoinWatchdog, JoinDispatch, Disconnect, SharedStep, TransitionTo, EndLease, SwitchToSelfMining, IfActive,
         EnqueueCommand, ConnectionLost, Connected, LeaseTimeUp, LaneBatch, OnBlockFound, OnBlockFoundLeased
<1>6. ASSUME NEW m \in Messages, queue' = Enqueued(m) PROVE QueueTyped'
  <2>1. CASE Len(queue) >= QueueCapacity
    BY <1>2, <1>6, <2>1 DEF Enqueued
  <2>2. CASE ~(Len(queue) >= QueueCapacity)
    <3>1. queue' = Append(queue, m) /\ Len(queue) < QueueCapacity
      BY <1>1, <1>6, <2>2 DEF Enqueued
    <3>2. QED
      BY <1>4, <3>1
  <2>3. QED
    BY <2>1, <2>2
<1>7. QED
  BY <1>2, <1>3, <1>5, <1>6

(* Every step takes the threads to places they know.                        *)
LEMMA NextPlaces == ASSUME ClientTyped, [Next]_vars PROVE PlacesTyped'
<1> USE DEF ClientTyped, PlacesTyped
<1>1. CASE MainStep \/ StopByMain \/ Destroy
  BY <1>1 DEF MainStep, Start, Subscribe, StartThreads, StopByMain, Stop, Destroy
<1>2. CASE DispatchStep
  BY <1>2 DEF DispatchStep, DispatchCheck, DispatchBlock, StopByCommand, Stop, StartLease, ToMiningContext,
              SwitchToPlatformMining, ApplySetting, placeVars
<1>3. CASE WatchdogStep
  BY <1>3 DEF WatchdogStep, WatchdogRound, IfExpired, IfError, Reconnect, placeVars
<1>4. ASSUME NEW t \in Threads, StopStep(t) \/ SharedStep(t) PROVE PlacesTyped'
  BY <1>4 DEF StopStep, Sever, Wake, JoinWatchdog, JoinDispatch, Disconnect, SharedStep, TransitionTo, EndLease,
              SwitchToSelfMining, IfActive, placeVars
<1>5. CASE \E m \in Messages : EnqueueCommand(m)
  BY <1>5 DEF EnqueueCommand, Notified
<1>6. CASE \/ ConnectionLost \/ Connected \/ LeaseTimeUp \/ LaneBatch \/ OnBlockFound \/ OnBlockFoundLeased
           \/ UNCHANGED vars
  BY <1>6 DEF ConnectionLost, Connected, LeaseTimeUp, LaneBatch, OnBlockFound, OnBlockFoundLeased, placeVars, vars
<1>7. QED
  BY <1>1, <1>2, <1>3, <1>4, <1>5, <1>6 DEF Next

(* A lease is a number, 0 is none, and only a lease expires.                *)
LEMMA NextLease == ASSUME ClientFlags, ClientTyped, [Next]_vars PROVE LeaseTyped'
<1> USE DEF ClientTyped, LeaseTyped
<1>1. CASE MainStep \/ StopByMain \/ Destroy
  BY <1>1 DEF MainStep, Start, Subscribe, StartThreads, StopByMain, Stop, Destroy, leaseVars, States
<1>u. CASE UNCHANGED <<state, lease, expired, context, ctx, settings>>
  BY <1>u
<1>2. CASE DispatchStep
  <2>1. CASE DispatchCheck
    <3>1. ctx' \in Nat
      <4>1. queue # <<>> => Head(queue) \in Messages
        OBVIOUS
      <4>2. QED
        BY <2>1, <4>1, SetupTyped DEF DispatchCheck
    <3>2. QED
      BY <2>1, <3>1 DEF DispatchCheck, leaseVars
  <2>2. CASE DispatchBlock \/ StopByCommand
    <3>1. UNCHANGED <<state, lease, expired, context, ctx, settings>>
      BY <2>2, Zenon DEF DispatchBlock, StopByCommand, Stop, leaseVars
    <3>2. QED
      BY <1>u, <3>1
  <2>m. CASE ToMiningContext
    <3>1. UNCHANGED <<state, lease, expired, context, settings>> /\ ctx' = lease
      BY <2>m, Zenon DEF ToMiningContext, leaseVars
    <3>2. QED
      BY <3>1
  <2>s. CASE SwitchToPlatformMining
    <3>1. UNCHANGED <<state, lease, expired, ctx, settings>> /\ context' = ctx
      BY <2>s, Zenon DEF SwitchToPlatformMining
    <3>2. QED
      BY <3>1
  <2>3. CASE StartLease
    BY <2>3 DEF StartLease
  <2>4. CASE ApplySetting
    BY <2>4 DEF ApplySetting, leaseVars
  <2>5. QED
    BY <1>2, <2>1, <2>2, <2>m, <2>s, <2>3, <2>4 DEF DispatchStep
<1>3. CASE WatchdogStep
  <2>1. UNCHANGED <<state, lease, expired, context, ctx, settings>>
    BY <1>3, Zenon DEF WatchdogStep, WatchdogRound, IfExpired, IfError, Reconnect, leaseVars
  <2>2. QED
    BY <1>u, <2>1
<1>4. ASSUME NEW t \in Threads, StopStep(t) PROVE LeaseTyped'
  <2>1. UNCHANGED <<state, lease, expired, context, ctx, settings>>
    BY <1>4, Zenon DEF StopStep, Sever, Wake, JoinWatchdog, JoinDispatch, Disconnect, leaseVars
  <2>2. QED
    BY <1>u, <2>1
<1>5. ASSUME NEW t \in Threads, SharedStep(t) PROVE LeaseTyped'
  <2>1. CASE TransitionTo(t)
    <3>1. UNCHANGED <<lease, expired, context, ctx, settings>> /\ state' \in States
      BY <2>1, Zenon DEF TransitionTo, leaseVars
    <3>2. QED
      BY <3>1
  <2>2. CASE EndLease(t)
    <3>1. UNCHANGED <<state, context, ctx, settings>> /\ lease' = 0 /\ expired' = FALSE
      BY <2>2, Zenon DEF EndLease
    <3>2. QED
      BY <3>1
  <2>3. CASE SwitchToSelfMining(t)
    <3>1. UNCHANGED <<state, lease, expired, ctx, settings>> /\ context' = 0
      BY <2>3, Zenon DEF SwitchToSelfMining
    <3>2. QED
      BY <3>1
  <2>4. CASE IfActive(t)
    <3>1. UNCHANGED <<state, lease, expired, context, ctx, settings>>
      BY <2>4, Zenon DEF IfActive, leaseVars
    <3>2. QED
      BY <1>u, <3>1
  <2>5. QED
    BY <1>5, <2>1, <2>2, <2>3, <2>4 DEF SharedStep
<1>6. CASE \E m \in Messages : EnqueueCommand(m)
  BY <1>6 DEF EnqueueCommand, leaseVars
<1>7. CASE \/ ConnectionLost \/ Connected \/ LeaseTimeUp \/ LaneBatch \/ OnBlockFound \/ OnBlockFoundLeased
           \/ UNCHANGED vars
  BY <1>7 DEF ConnectionLost, Connected, LeaseTimeUp, HasActiveLease, LaneBatch, OnBlockFound, OnBlockFoundLeased,
              leaseVars, vars
<1>8. QED
  BY <1>1, <1>2, <1>3, <1>4, <1>5, <1>6, <1>7 DEF Next

(* The lane, and the bounds of what is counted.                             *)
LEMMA NextLane == ASSUME ClientTyped, [Next]_vars PROVE LaneTyped'
<1> USE DEF ClientTyped, LaneTyped
<1>0. /\ MaxArrivals \in Nat /\ MaxFound \in Nat /\ MaxLosses \in Nat
      /\ MaxArrivals' = MaxArrivals /\ MaxFound' = MaxFound /\ MaxLosses' = MaxLosses
  BY SetupTyped, SetupStays
<1>1. CASE UNCHANGED <<lane, arrivals, batches, losses>>
  BY <1>0, <1>1
<1>2. CASE MainStep \/ StopByMain \/ Destroy
  <2>1. UNCHANGED <<lane, arrivals, batches, losses>>
    BY <1>2 DEF MainStep, Start, Subscribe, StartThreads, StopByMain, Stop, Destroy, laneVars, intakeVars, brokerVars
  <2>2. QED
    BY <1>1, <2>1
<1>3. CASE DispatchStep
  <2>1. UNCHANGED <<lane, arrivals, batches, losses>>
    BY <1>3 DEF DispatchStep, DispatchCheck, DispatchBlock, StopByCommand, Stop, StartLease, ToMiningContext,
                SwitchToPlatformMining, ApplySetting, laneVars, intakeVars, brokerVars
  <2>2. QED
    BY <1>1, <2>1
<1>4. CASE WatchdogStep
  <2>1. UNCHANGED <<lane, arrivals, batches, losses>>
    BY <1>4 DEF WatchdogStep, WatchdogRound, IfExpired, IfError, Reconnect, laneVars, intakeVars, brokerVars
  <2>2. QED
    BY <1>1, <2>1
<1>5. ASSUME NEW t \in Threads, StopStep(t) \/ SharedStep(t) PROVE LaneTyped'
  <2>1. UNCHANGED <<lane, arrivals, batches, losses>>
    BY <1>5 DEF StopStep, Sever, Wake, JoinWatchdog, JoinDispatch, Disconnect, SharedStep, TransitionTo, EndLease,
                SwitchToSelfMining, IfActive, laneVars, intakeVars, brokerVars
  <2>2. QED
    BY <1>1, <2>1
<1>6. CASE \E m \in Messages : EnqueueCommand(m)
  <2>1. UNCHANGED <<lane, batches, losses>> /\ arrivals < MaxArrivals /\ arrivals' = arrivals + 1
    BY <1>6 DEF EnqueueCommand, laneVars, brokerVars
  <2>2. QED
    BY <1>0, <2>1
<1>7. CASE ConnectionLost
  <2>1. UNCHANGED <<lane, batches, arrivals>> /\ losses < MaxLosses /\ losses' = losses + 1
    BY <1>7 DEF ConnectionLost, laneVars, intakeVars
  <2>2. QED
    BY <1>0, <2>1
<1>8. CASE Connected \/ LeaseTimeUp \/ UNCHANGED vars
  <2>1. UNCHANGED <<lane, arrivals, batches, losses>>
    BY <1>8 DEF Connected, LeaseTimeUp, vars, laneVars, intakeVars, brokerVars
  <2>2. QED
    BY <1>1, <2>1
<1>9. CASE LaneBatch
  <2>1. /\ UNCHANGED <<arrivals, losses>> /\ batches < MaxFound /\ batches' = batches + 1
        /\ lane' = [pc |-> "found", mined |-> context]
    BY <1>9 DEF LaneBatch, intakeVars, brokerVars
  <2>2. lane' \in [pc : {"batch", "found", "lease"}, mined : Nat]
    BY <2>1
  <2>3. QED
    BY <1>0, <2>1, <2>2
<1>10. CASE OnBlockFound \/ OnBlockFoundLeased
  <2>1. UNCHANGED <<arrivals, losses, batches>> /\ lane' \in {Idle, [lane EXCEPT !.pc = "lease"]}
    BY <1>10 DEF OnBlockFound, OnBlockFoundLeased, intakeVars, brokerVars
  <2>2. lane' \in [pc : {"batch", "found", "lease"}, mined : Nat]
    BY <2>1 DEF Idle
  <2>3. QED
    BY <1>0, <2>1, <2>2
<1>11. QED
  BY <1>2, <1>3, <1>4, <1>5, <1>6, <1>7, <1>8, <1>9, <1>10 DEF Next

-----------------------------------------------------------------------------
(* The initial state satisfies the invariant.                               *)
LEMMA ClientInit == Init => ClientInductive
<1> SUFFICES ASSUME Init PROVE ClientInductive
  OBVIOUS
<1>1. ClientFlags
  BY DEF Init, ClientFlags
<1>2. ClientTyped
  <2>1. /\ QueueCapacity \in Nat \ {0} /\ MaxArrivals \in Nat /\ MaxFound \in Nat /\ MaxLosses \in Nat
        /\ setup \in DOMAIN Setups
    BY SetupTyped DEF Init
  <2>2. queue \in Seq(Messages) /\ Len(queue) <= QueueCapacity
    BY <2>1 DEF Init
  <2>3. lane \in [pc : {"batch", "found", "lease"}, mined : Nat]
    BY DEF Init, Idle
  <2>4. arrivals \in 0..MaxArrivals /\ batches \in 0..MaxFound /\ losses \in 0..MaxLosses
    BY <2>1 DEF Init
  <2>5. QED
    BY <2>1, <2>2, <2>3, <2>4 DEF Init, ClientTyped, States
<1>3. MainAlone
  <2>1. /\ todo \in [Threads -> Seq(Steps)] /\ todo["dispatch"] = <<>> /\ todo["watchdog"] = <<>> /\ todo["main"] = <<>>
    BY DEF Init, Threads
  <2>2. <<>> \in Seq(Obeyed) /\ <<>> \in Seq(Watched)
    OBVIOUS
  <2>3. settings = {} /\ ~running /\ main = "start" /\ dispatch = "none" /\ watchdog = "none"
    BY DEF Init
  <2>4. QED
    BY <2>1, <2>2, <2>3 DEF MainAlone
<1>4. QED
  BY <1>1, <1>2, <1>3 DEF ClientInductive

(* Every step keeps the invariant.                                          *)
LEMMA ClientNext == ClientInductive /\ [Next]_vars => ClientInductive'
<1> SUFFICES ASSUME ClientInductive, [Next]_vars PROVE ClientInductive'
  OBVIOUS
<1>0. ClientFlags /\ ClientTyped /\ (~Secret => MainAlone)
  BY DEF ClientInductive
<1>1. ClientFlags'
  BY <1>0, NextClientFlags
<1>2. ClientTyped'
  <2>1. setup' \in DOMAIN Setups
    BY <1>0, SetupStays DEF ClientTyped
  <2>2. LeaseTyped' /\ LaneTyped' /\ PlacesTyped' /\ QueueTyped'
    BY <1>0, NextLease, NextLane, NextPlaces, NextQueue
  <2>3. QED
    BY <2>1, <2>2 DEF LeaseTyped, LaneTyped, PlacesTyped, QueueTyped, ClientTyped
<1>3. Secret' = Secret
  BY SetupStays
<1>4. ~Secret => MainAlone'
  BY <1>0, NextMainAlone
<1>5. QED
  BY <1>1, <1>2, <1>3, <1>4 DEF ClientInductive

(* For any commands, in any number and order, any capacity of the queue,    *)
(* losses of the broker and finds: the queue keeps to its capacity; without *)
(* a secret no command changes a setting or stops the manager, and after    *)
(* the destructor no thread is left and the last state is IDLE.             *)
THEOREM ClientSafe == Spec => []ClientInvariant
<1>1. ClientInductive => ClientInvariant
  <2> SUFFICES ASSUME ClientInductive PROVE ClientInvariant
    OBVIOUS
  <2>0. ClientFlags /\ ClientTyped /\ (~Secret => MainAlone)
    BY DEF ClientInductive
  <2>1. TypeOK
    <3>1. lane.pc \in {"batch", "found", "lease"} /\ lane.mined \in Nat
      BY <2>0 DEF ClientTyped
    <3>2. QED
      BY <2>0, <3>1, Zenon DEF ClientFlags, ClientTyped, TypeOK
  <2>2. UnsignedChangesNothing
    BY <2>0 DEF MainAlone, UnsignedChangesNothing
  <2>3. ~Secret => StopLeavesNothing
    BY <2>0 DEF MainAlone, StopLeavesNothing
  <2>4. QED
    BY <2>1, <2>2, <2>3 DEF ClientInvariant
<1>2. QED
  BY <1>1, ClientInit, ClientNext, PTL DEF Spec
=============================================================================
