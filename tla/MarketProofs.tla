---------------------------- MODULE MarketProofs ----------------------------
(***************************************************************************)
(* Proofs about Marketplace, for any leases, workers and tasks, any        *)
(* schedule of their statements over the one connection, and any number of *)
(* kills: an ended lease stays ended and no worker has two; until two      *)
(* settlements overlap, no lease is charged twice and no money is made.    *)
(***************************************************************************)
EXTENDS Marketplace, FiniteSetTheorems, SequenceTheorems, TLAPS

Logs == {"log_charge", "log_payout", "log_fee"}
Settling == {"end", "begin", "balance", "charge", "pay", "fee", "record"} \cup Logs
Ops == Settling \cup {"active", "insert", "free", "leased", "commit", "unlock", "assign", "release"}
Paying == {"begin", "balance", "charge", "pay", "fee", "log_charge", "log_payout", "log_fee", "commit", "record"}
Statements == [op : Ops, lease : Leases, worker : Workers]

(* What every program, and every rest of one, has: the lock is given back   *)
(* once, after what needs it and before anything that may break a program   *)
(* off; an end is committed by the next statement; a lease is inserted      *)
(* right after the look-up of its worker, and charged once.                 *)
LockPaired(p) ==
  /\ \A i, j \in DOMAIN p : i < j /\ p[i].op \in {"begin", "record", "unlock"} => p[j].op # "unlock"
  /\ \A i \in DOMAIN p : p[i].op \in {"active", "insert"} =>
       \E j \in DOMAIN p : i < j /\ p[j].op = "unlock"
EndsFirst(p) ==
  /\ \A i, j \in DOMAIN p : i < j /\ p[i].op \in {"begin", "record"} => p[j].op \notin {"end", "insert"}
  /\ \A i \in DOMAIN p : p[i].op = "end" => i + 1 \in DOMAIN p /\ p[i + 1].op = "commit"
InsertsOnce(p) ==
  /\ \A i \in DOMAIN p : p[i].op = "insert" /\ i > 1 =>
       p[i - 1].op = "active" /\ p[i - 1].worker = p[i].worker
  /\ \A i, j \in DOMAIN p : p[i].op = "insert" /\ p[j].op = "insert" => i = j
ChargesOnce(p) ==
  \A i, j \in DOMAIN p : p[i].op = "charge" /\ p[j].op = "charge" /\ p[i].lease = p[j].lease => i = j

(* d statements after a statement x there is a statement y; d statements    *)
(* before it there is one, where the rest of a program still has that.      *)
At(p, x, d, y) == \A i \in DOMAIN p : p[i].op = x => i + d \in DOMAIN p /\ p[i + d].op = y
Since(p, x, d, y) == \A i \in DOMAIN p : p[i].op = x /\ i > d => p[i - d].op = y

(* A lease that is inserted is committed next, and a settlement's           *)
(* statements follow each other: what is left of a program may begin in the *)
(* middle of one, a whole program does not.                                 *)
GoesOn(p) ==
  /\ At(p, "insert", 1, "commit")
  /\ At(p, "begin", 10, "commit") /\ At(p, "charge", 1, "pay") /\ At(p, "pay", 1, "fee")
  /\ At(p, "fee", 1, "log_charge") /\ At(p, "log_charge", 1, "log_payout")
  /\ At(p, "log_payout", 1, "log_fee") /\ At(p, "log_fee", 1, "commit") /\ At(p, "log_fee", 2, "record")
InOrder(p) ==
  /\ GoesOn(p) /\ Since(p, "charge", 1, "balance") /\ Since(p, "pay", 1, "charge")
  /\ Since(p, "fee", 1, "pay") /\ Since(p, "log_charge", 1, "fee")
  /\ Since(p, "log_payout", 1, "log_charge") /\ Since(p, "log_fee", 1, "log_payout")
  /\ Since(p, "record", 2, "log_fee")
Whole(p) ==
  /\ GoesOn(p) /\ At(p, "charge", -1, "balance") /\ At(p, "pay", -1, "charge")
  /\ At(p, "fee", -1, "pay") /\ At(p, "log_charge", -1, "fee")
  /\ At(p, "log_payout", -1, "log_charge") /\ At(p, "log_fee", -1, "log_payout")
  /\ At(p, "record", -2, "log_fee")

WellFormed(p) ==
  /\ p \in Seq(Statements) /\ LockPaired(p) /\ EndsFirst(p) /\ InsertsOnce(p) /\ ChargesOnce(p)
  /\ InOrder(p)

(* Programs, the lock and the tasks belong together.                        *)
Programs ==
  /\ prog \in [Tasks -> Seq(Statements)]
  /\ \A t \in Tasks : WellFormed(prog[t])
  /\ \A t \in Tasks : \A i \in DOMAIN prog[t] :
       /\ prog[t][i].op = "unlock" => lock = t
       /\ prog[t][i].op \in Settling => t \in Settlers

(* q is what is left of p after its first k statements.                     *)
Rest(q, p, k) ==
  /\ q \in Seq(Statements) /\ k \in 1..Len(p) /\ Len(q) = Len(p) - k
  /\ \A i \in 1..Len(q) : q[i] = p[i + k]
-----------------------------------------------------------------------------
(* The statements of a rest are those of the program, moved by k.           *)
LEMMA RestIndex ==
  ASSUME NEW p \in Seq(Statements), NEW q, NEW k, Rest(q, p, k)
  PROVE  /\ q \in Seq(Statements) /\ k \in Nat /\ k >= 1 /\ Len(q) \in Nat /\ Len(q) = Len(p) - k
         /\ DOMAIN q = 1..Len(q) /\ DOMAIN p = 1..Len(p)
         /\ \A i \in DOMAIN q : i \in Nat /\ i >= 1 /\ i + k \in DOMAIN p /\ q[i] = p[i + k]
         /\ \A j \in DOMAIN p : j > k => j - k \in DOMAIN q /\ q[j - k] = p[j]
<1>1. Len(p) \in Nat /\ DOMAIN p = 1..Len(p)
  OBVIOUS
<1>2. q \in Seq(Statements) /\ k \in 1..Len(p) /\ Len(q) = Len(p) - k
  BY DEF Rest
<1>3. Len(q) \in Nat /\ DOMAIN q = 1..Len(q)
  BY <1>2
<1>4. \A i \in DOMAIN q : i \in Nat /\ i >= 1 /\ i + k \in DOMAIN p /\ q[i] = p[i + k]
  BY <1>1, <1>2, <1>3 DEF Rest
<1>5. ASSUME NEW j \in DOMAIN p, j > k PROVE j - k \in DOMAIN q /\ q[j - k] = p[j]
  <2>1. j - k \in DOMAIN q /\ j - k + k = j
    BY <1>1, <1>2, <1>3, <1>5
  <2>2. QED
    BY <1>4, <2>1
<1>6. QED
  BY <1>1, <1>2, <1>3, <1>4, <1>5

(* The order of two statements is the same in a rest.                       *)
LEMMA RestAt ==
  ASSUME NEW p \in Seq(Statements), NEW q, NEW k, Rest(q, p, k), NEW x, NEW y, NEW d \in Nat
  PROVE  /\ At(p, x, d, y) => At(q, x, d, y)
         /\ Since(p, x, d, y) => Since(q, x, d, y)
<1>1. /\ k \in Nat /\ k >= 1 /\ DOMAIN q = 1..Len(q) /\ Len(q) \in Nat
      /\ \A i \in DOMAIN q : i \in Nat /\ i >= 1 /\ i + k \in DOMAIN p /\ q[i] = p[i + k]
      /\ \A j \in DOMAIN p : j > k => j - k \in DOMAIN q /\ q[j - k] = p[j]
  BY RestIndex
<1>2. ASSUME At(p, x, d, y), NEW i \in DOMAIN q, q[i].op = x
      PROVE  i + d \in DOMAIN q /\ q[i + d].op = y
  <2>1. i \in Nat /\ i >= 1 /\ i + k \in DOMAIN p /\ p[i + k].op = x
    BY <1>1, <1>2
  <2>2. (i + k) + d \in DOMAIN p /\ p[(i + k) + d].op = y
    BY <1>2, <2>1 DEF At
  <2>3. (i + k) + d > k /\ ((i + k) + d) - k = i + d
    BY <1>1, <2>1
  <2>4. QED
    BY <1>1, <2>2, <2>3
<1>3. ASSUME Since(p, x, d, y), NEW i \in DOMAIN q, q[i].op = x, i > d
      PROVE  q[i - d].op = y
  <2>1. i \in Nat /\ i >= 1 /\ i + k \in DOMAIN p /\ p[i + k].op = x /\ i + k > d
    BY <1>1, <1>3
  <2>2. p[(i + k) - d].op = y
    BY <1>3, <2>1 DEF Since
  <2>3. i - d \in DOMAIN q /\ (i - d) + k = (i + k) - d
    BY <1>1, <1>3, <2>1
  <2>4. q[i - d] = p[(i + k) - d]
    BY <1>1, <2>3
  <2>5. QED
    BY <2>2, <2>4
<1>4. QED
  BY <1>2, <1>3 DEF At, Since

(* So is a settlement's order.                                              *)
LEMMA RestInOrder ==
  ASSUME NEW p \in Seq(Statements), InOrder(p), NEW q, NEW k, Rest(q, p, k)
  PROVE  InOrder(q)
<1>1. 1 \in Nat /\ 2 \in Nat /\ 10 \in Nat
  OBVIOUS
<1>2. GoesOn(p)
  BY DEF InOrder
<1>3. GoesOn(q)
  BY <1>1, <1>2, RestAt DEF GoesOn
<1>4. QED
  BY <1>1, <1>3, RestAt DEF InOrder

(* A program without insertions and settlements is a whole one; a whole one *)
(* is in order.                                                             *)
LEMMA WholeInOrder ==
  ASSUME NEW p, p \in Seq(Statements)
  PROVE  /\ (\A i \in DOMAIN p : p[i].op \notin {"insert", "begin", "charge", "pay", "fee", "record"} \cup Logs) => Whole(p)
         /\ Whole(p) => InOrder(p)
<1>1. ASSUME \A i \in DOMAIN p : p[i].op \notin {"insert", "begin", "charge", "pay", "fee", "record"} \cup Logs
      PROVE  Whole(p)
  BY <1>1 DEF Whole, GoesOn, At, Logs
<1>2. ASSUME NEW x, NEW y, At(p, x, -1, y) PROVE Since(p, x, 1, y)
  <2>1. DOMAIN p \subseteq Int /\ \A i \in Int : i + (-1) = i - 1
    <3>1. DOMAIN p = 1..Len(p) /\ Len(p) \in Nat
      OBVIOUS
    <3>2. QED
      BY <3>1
  <2>2. QED
    BY <1>2, <2>1 DEF At, Since
<1>3. ASSUME NEW x, NEW y, At(p, x, -2, y) PROVE Since(p, x, 2, y)
  <2>1. DOMAIN p \subseteq Int /\ \A i \in Int : i + (-2) = i - 2
    <3>1. DOMAIN p = 1..Len(p) /\ Len(p) \in Nat
      OBVIOUS
    <3>2. QED
      BY <3>1
  <2>2. QED
    BY <1>3, <2>1 DEF At, Since
<1>4. ASSUME Whole(p) PROVE InOrder(p)
  BY <1>2, <1>3, <1>4 DEF Whole, InOrder
<1>5. QED
  BY <1>1, <1>4

(* What is left of a well-formed program is well-formed.                    *)
LEMMA RestWellFormed ==
  ASSUME NEW p, WellFormed(p), NEW q, NEW k, Rest(q, p, k)
  PROVE  WellFormed(q)
<1>0. p \in Seq(Statements)
  BY DEF WellFormed
<1>1. /\ q \in Seq(Statements) /\ k \in Nat /\ k >= 1 /\ Len(q) \in Nat /\ Len(q) = Len(p) - k
      /\ DOMAIN q = 1..Len(q) /\ DOMAIN p = 1..Len(p)
      /\ \A i \in DOMAIN q : i \in Nat /\ i >= 1 /\ i + k \in DOMAIN p /\ q[i] = p[i + k]
      /\ \A j \in DOMAIN p : j > k => j - k \in DOMAIN q /\ q[j - k] = p[j]
  BY <1>0, RestIndex
<1>2. LockPaired(q)
  <2>1. ASSUME NEW i \in DOMAIN q, NEW j \in DOMAIN q, i < j, q[i].op \in {"begin", "record", "unlock"}
        PROVE  q[j].op # "unlock"
    <3>1. i + k \in DOMAIN p /\ j + k \in DOMAIN p /\ i + k < j + k /\ q[i] = p[i + k] /\ q[j] = p[j + k]
      BY <1>1, <2>1
    <3>2. QED
      BY <2>1, <3>1 DEF WellFormed, LockPaired
  <2>2. ASSUME NEW i \in DOMAIN q, q[i].op \in {"active", "insert"}
        PROVE  \E j \in DOMAIN q : i < j /\ q[j].op = "unlock"
    <3>1. i + k \in DOMAIN p /\ q[i] = p[i + k] /\ i \in Nat
      BY <1>1
    <3>2. PICK j \in DOMAIN p : i + k < j /\ p[j].op = "unlock"
      BY <2>2, <3>1 DEF WellFormed, LockPaired
    <3>3. j \in Nat /\ j - k \in DOMAIN q /\ q[j - k] = p[j] /\ i < j - k
      BY <1>1, <3>1, <3>2
    <3>4. QED
      BY <3>2, <3>3
  <2>3. QED
    BY <2>1, <2>2 DEF LockPaired
<1>3. EndsFirst(q)
  <2>1. ASSUME NEW i \in DOMAIN q, NEW j \in DOMAIN q, i < j, q[i].op \in {"begin", "record"}
        PROVE  q[j].op \notin {"end", "insert"}
    <3>1. i + k \in DOMAIN p /\ j + k \in DOMAIN p /\ i + k < j + k /\ q[i] = p[i + k] /\ q[j] = p[j + k]
      BY <1>1, <2>1
    <3>2. QED
      BY <2>1, <3>1 DEF WellFormed, EndsFirst
  <2>2. ASSUME NEW i \in DOMAIN q, q[i].op = "end"
        PROVE  i + 1 \in DOMAIN q /\ q[i + 1].op = "commit"
    <3>1. i + k \in DOMAIN p /\ q[i] = p[i + k] /\ i \in Nat
      BY <1>1
    <3>2. i + k + 1 \in DOMAIN p /\ p[i + k + 1].op = "commit"
      BY <2>2, <3>1 DEF WellFormed, EndsFirst
    <3>3. i + 1 \in DOMAIN q
      <4>1. /\ k \in Nat /\ Len(q) \in Nat /\ Len(q) = Len(p) - k
            /\ DOMAIN q = 1..Len(q) /\ DOMAIN p = 1..Len(p)
        BY <1>1
      <4>2. QED
        BY <3>1, <3>2, <4>1
    <3>4. q[i + 1] = p[(i + 1) + k] /\ k \in Nat
      BY <1>1, <3>3
    <3>5. (i + 1) + k = i + k + 1
      BY <3>1, <3>4
    <3>6. QED
      BY <3>2, <3>3, <3>4, <3>5
  <2>3. QED
    BY <2>1, <2>2 DEF EndsFirst
<1>4. InsertsOnce(q)
  <2>1. ASSUME NEW i \in DOMAIN q, q[i].op = "insert", i > 1
        PROVE  q[i - 1].op = "active" /\ q[i - 1].worker = q[i].worker
    <3>1. i + k \in DOMAIN p /\ q[i] = p[i + k] /\ i + k > 1 /\ i - 1 \in DOMAIN q /\ (i - 1) + k = (i + k) - 1
      BY <1>1, <2>1
    <3>2. p[(i + k) - 1].op = "active" /\ p[(i + k) - 1].worker = p[i + k].worker
      <4>1. PICK m \in DOMAIN p : m = i + k
        BY <3>1
      <4>2. p[m].op = "insert" /\ m > 1
        BY <2>1, <3>1, <4>1
      <4>3. p[m - 1].op = "active" /\ p[m - 1].worker = p[m].worker
        BY <4>2 DEF WellFormed, InsertsOnce
      <4>4. QED
        BY <4>1, <4>3
    <3>3. q[i - 1] = p[(i + k) - 1]
      BY <1>1, <3>1
    <3>4. QED
      BY <3>1, <3>2, <3>3
  <2>2. ASSUME NEW i \in DOMAIN q, NEW j \in DOMAIN q, q[i].op = "insert", q[j].op = "insert"
        PROVE  i = j
    <3>1. i + k \in DOMAIN p /\ j + k \in DOMAIN p /\ q[i] = p[i + k] /\ q[j] = p[j + k] /\ i \in Nat /\ j \in Nat
      BY <1>1
    <3>2. i + k = j + k
      BY <2>2, <3>1 DEF WellFormed, InsertsOnce
    <3>3. QED
      BY <1>1, <3>1, <3>2
  <2>3. QED
    BY <2>1, <2>2 DEF InsertsOnce
<1>5. ChargesOnce(q)
  <2> SUFFICES ASSUME NEW i \in DOMAIN q, NEW j \in DOMAIN q,
                      q[i].op = "charge", q[j].op = "charge", q[i].lease = q[j].lease
               PROVE  i = j
    BY DEF ChargesOnce
  <2>1. i + k \in DOMAIN p /\ j + k \in DOMAIN p /\ q[i] = p[i + k] /\ q[j] = p[j + k] /\ i \in Nat /\ j \in Nat
    BY <1>1
  <2>2. i + k = j + k
    BY <2>1 DEF WellFormed, ChargesOnce
  <2>3. QED
    BY <1>1, <2>1, <2>2
<1>6. InOrder(q)
  BY <1>0, RestInOrder DEF WellFormed
<1>7. QED
  BY <1>1, <1>2, <1>3, <1>4, <1>5, <1>6 DEF WellFormed
-----------------------------------------------------------------------------
(* A program that inserts nothing, and ends and charges leases of S, each   *)
(* after its end, with whole settlements.                                   *)
Settles(q, S) ==
  /\ WellFormed(q) /\ Whole(q)
  /\ \A i \in DOMAIN q : q[i].op \notin {"active", "insert"}
  /\ \A i \in DOMAIN q : q[i].op \in {"end", "charge"} => q[i].lease \in S
  /\ \A i \in DOMAIN q : q[i].op = "charge" =>
       \E j \in DOMAIN q : j < i /\ q[j].op = "end" /\ q[j].lease = q[i].lease

(* What a statement is made of.                                             *)
LEMMA DoTyped ==
  ASSUME NEW op \in Ops, NEW l \in Leases, NEW w \in Workers
  PROVE  /\ Do(op, l, w) \in Statements
         /\ Do(op, l, w).op = op /\ Do(op, l, w).lease = l /\ Do(op, l, w).worker = w
BY DEF Do, Statements

(* The program of a rent request.                                           *)
LEMMA RentProgram ==
  ASSUME NEW l \in Leases, NEW w \in Workers, NEW q, q = RentSteps(l, w)
  PROVE  /\ WellFormed(q) /\ Whole(q) /\ q # << >> /\ Head(q).op = "active"
         /\ \A i \in DOMAIN q : q[i].op \notin Settling /\ (q[i].op = "insert" => q[i].lease = l)
         /\ \E i \in DOMAIN q : q[i].op = "unlock"
<1>1. /\ q \in Seq(Statements) /\ Len(q) = 7 /\ DOMAIN q = 1..7
      /\ q[1] = Do("active", l, w) /\ q[2] = Do("insert", l, w) /\ q[3] = Do("commit", l, w)
      /\ q[4] = Do("leased", l, w) /\ q[5] = Do("commit", l, w) /\ q[6] = Do("unlock", l, w)
      /\ q[7] = Do("assign", l, w)
  <2>1. \A op \in Ops : Do(op, l, w) \in Statements
    BY DoTyped
  <2> HIDE DEF Statements
  <2>2. QED
    BY <2>1 DEF RentSteps, Ops
<1>2. /\ q[1].op = "active" /\ q[2].op = "insert" /\ q[3].op = "commit" /\ q[4].op = "leased"
      /\ q[5].op = "commit" /\ q[6].op = "unlock" /\ q[7].op = "assign"
      /\ q[2].lease = l /\ q[1].worker = w /\ q[2].worker = w
  BY <1>1 DEF Do
<1>3. \A i \in DOMAIN q : i = 1 \/ i = 2 \/ i = 3 \/ i = 4 \/ i = 5 \/ i = 6 \/ i = 7
  BY <1>1
<1>4. LockPaired(q)
  BY <1>1, <1>2, <1>3 DEF LockPaired
<1>5. EndsFirst(q)
  BY <1>1, <1>2, <1>3 DEF EndsFirst
<1>6. InsertsOnce(q)
  BY <1>1, <1>2, <1>3 DEF InsertsOnce
<1>7. ChargesOnce(q)
  BY <1>1, <1>2, <1>3 DEF ChargesOnce
<1>8. \A i \in DOMAIN q : q[i].op \notin Settling /\ (q[i].op = "insert" => q[i].lease = l)
  BY <1>1, <1>2, <1>3 DEF Settling, Logs
<1>9. Whole(q) /\ InOrder(q)
  <2>1. \A i \in DOMAIN q : q[i].op \notin {"begin", "charge", "pay", "fee", "record"} \cup Logs
    BY <1>8 DEF Settling
  <2>2. At(q, "insert", 1, "commit")
    BY <1>1, <1>2, <1>3 DEF At
  <2>3. GoesOn(q)
    BY <2>1, <2>2 DEF GoesOn, At, Logs
  <2>4. Whole(q)
    BY <2>1, <2>3 DEF Whole, At, Logs
  <2>5. QED
    BY <1>1, <2>4, WholeInOrder
<1>10. QED
  BY <1>1, <1>2, <1>4, <1>5, <1>6, <1>7, <1>8, <1>9 DEF WellFormed

(* A statement of a worker's report, and its commit.                        *)
LEMMA ReportProgram ==
  ASSUME NEW op \in {"free", "leased"}, NEW l \in Leases, NEW w \in Workers,
         NEW q, q = << Do(op, l, w), Do("commit", l, w) >>
  PROVE  Settles(q, {}) /\ \A i \in DOMAIN q : q[i].op \notin Settling \cup {"unlock"}
<1>1. q \in Seq(Statements) /\ DOMAIN q = 1..2 /\ q[1].op = op /\ q[2].op = "commit"
  <2>1. Do(op, l, w) \in Statements /\ Do("commit", l, w) \in Statements
    BY DoTyped DEF Ops
  <2>2. QED
    BY <2>1 DEF Do
<1>2. \A i \in DOMAIN q : q[i].op \in {"free", "leased", "commit"}
  BY <1>1
<1>3. LockPaired(q) /\ EndsFirst(q) /\ InsertsOnce(q) /\ ChargesOnce(q)
  BY <1>1, <1>2 DEF LockPaired, EndsFirst, InsertsOnce, ChargesOnce
<1>4. \A i \in DOMAIN q : q[i].op \notin Settling \cup {"unlock"}
  BY <1>2 DEF Settling, Logs
<1>5. Whole(q) /\ InOrder(q)
  <2>1. \A i \in DOMAIN q : q[i].op \notin {"insert", "begin", "charge", "pay", "fee", "record"} \cup Logs
    BY <1>2 DEF Logs
  <2>2. QED
    BY <1>1, <2>1, WholeInOrder
<1>6. QED
  BY <1>1, <1>2, <1>3, <1>4, <1>5 DEF Settles, WellFormed

(* The places of a settlement's statements.                                 *)
LEMMA OneToEleven ==
  ASSUME NEW i \in 1..11
  PROVE  i = 1 \/ i = 2 \/ i = 3 \/ i = 4 \/ i = 5 \/ i = 6 \/ i = 7 \/ i = 8 \/ i = 9 \/ i = 10 \/ i = 11
OBVIOUS

(* Where a settlement's statements stand.                                   *)
Settlement(v) ==
  /\ DOMAIN v = 1..11
  /\ v[1].op = "begin" /\ v[2].op = "balance" /\ v[3].op = "charge" /\ v[4].op = "pay"
  /\ v[5].op = "fee" /\ v[6].op = "log_charge" /\ v[7].op = "log_payout" /\ v[8].op = "log_fee"
  /\ v[9].op = "commit" /\ v[10].op = "record" /\ v[11].op = "commit"

Only(v, x, n) == \A i \in DOMAIN v : v[i].op = x => i = n
Has(v, m, y) == m \in DOMAIN v /\ v[m].op = y
Apart(v, x, n, d, y) == Only(v, x, n) /\ Has(v, n + d, y)

(* Statements that have one place each stand at one distance.               *)
LEMMA AtPlace == ASSUME NEW v, NEW x, NEW n, NEW d, NEW y, Apart(v, x, n, d, y) PROVE At(v, x, d, y)
BY DEF At, Only, Has, Apart

(* Each statement of a settlement has its place; the settlement is whole.   *)
LEMMA SettlementWhole ==
  ASSUME NEW v, Settlement(v)
  PROVE  Whole(v) /\ \A i \in DOMAIN v : v[i].op \in Paying /\ (v[i].op = "charge" => i = 3)
<1>1. \A i \in DOMAIN v : \/ i = 1 \/ i = 2 \/ i = 3 \/ i = 4 \/ i = 5 \/ i = 6 \/ i = 7 \/ i = 8 \/ i = 9
                          \/ i = 10 \/ i = 11
  <2>1. DOMAIN v = 1..11
    BY DEF Settlement
  <2>2. QED
    BY <2>1, OneToEleven
<1>2. /\ v[1].op = "begin" /\ v[2].op = "balance" /\ v[3].op = "charge" /\ v[4].op = "pay"
      /\ v[5].op = "fee" /\ v[6].op = "log_charge" /\ v[7].op = "log_payout" /\ v[8].op = "log_fee"
      /\ v[9].op = "commit" /\ v[10].op = "record" /\ v[11].op = "commit"
  BY DEF Settlement
<1>3. /\ 2 \in DOMAIN v /\ 3 \in DOMAIN v /\ 4 \in DOMAIN v /\ 5 \in DOMAIN v
      /\ 6 \in DOMAIN v /\ 7 \in DOMAIN v /\ 8 \in DOMAIN v /\ 9 \in DOMAIN v /\ 10 \in DOMAIN v
      /\ 11 \in DOMAIN v
  <2>1. \A i \in 1..11 : i \in DOMAIN v
    BY DEF Settlement
  <2>2. QED
    BY <2>1
<1>4. /\ Has(v, 2, "balance") /\ Has(v, 3, "charge") /\ Has(v, 4, "pay") /\ Has(v, 5, "fee")
      /\ Has(v, 6, "log_charge") /\ Has(v, 7, "log_payout") /\ Has(v, 8, "log_fee") /\ Has(v, 9, "commit")
      /\ Has(v, 10, "record") /\ Has(v, 11, "commit")
  BY <1>2, <1>3 DEF Has
<1>5. /\ Only(v, "begin", 1) /\ Only(v, "charge", 3) /\ Only(v, "pay", 4) /\ Only(v, "fee", 5)
      /\ Only(v, "log_charge", 6) /\ Only(v, "log_payout", 7) /\ Only(v, "log_fee", 8) /\ Only(v, "record", 10)
  BY <1>1, <1>2 DEF Only
<1>6. At(v, "insert", 1, "commit")
  BY <1>1, <1>2 DEF At
<1>7. Apart(v, "begin", 1, 10, "commit") /\ Apart(v, "charge", 3, 1, "pay") /\ Apart(v, "charge", 3, -1, "balance")
  BY <1>4, <1>5 DEF Apart
<1>8. /\ Apart(v, "pay", 4, 1, "fee") /\ Apart(v, "pay", 4, -1, "charge")
      /\ Apart(v, "fee", 5, 1, "log_charge") /\ Apart(v, "fee", 5, -1, "pay")
  BY <1>4, <1>5 DEF Apart
<1>9. /\ Apart(v, "log_charge", 6, 1, "log_payout") /\ Apart(v, "log_charge", 6, -1, "fee")
      /\ Apart(v, "log_payout", 7, 1, "log_fee") /\ Apart(v, "log_payout", 7, -1, "log_charge")
  BY <1>4, <1>5 DEF Apart
<1>10. /\ Apart(v, "log_fee", 8, 1, "commit") /\ Apart(v, "log_fee", 8, 2, "record")
       /\ Apart(v, "log_fee", 8, -1, "log_payout") /\ Apart(v, "record", 10, -2, "log_fee")
  BY <1>4, <1>5 DEF Apart
<1>14. GoesOn(v)
  BY <1>6, <1>7, <1>8, <1>9, <1>10, AtPlace DEF GoesOn
<1>15. Whole(v)
  BY <1>7, <1>8, <1>9, <1>10, <1>14, AtPlace DEF Whole
<1>16. \A i \in DOMAIN v : v[i].op \in Paying
  BY <1>1, <1>2 DEF Paying
<1>17. QED
  BY <1>5, <1>15, <1>16 DEF Only

(* The statements of settling a lease.                                      *)
LEMMA SettleShape ==
  ASSUME NEW l \in Leases, NEW w \in Workers, NEW q, q = SettleSteps(l, w)
  PROVE  /\ q \in Seq(Statements) /\ Len(q) = 11 /\ Settlement(q)
         /\ \A i \in 1..11 : q[i].lease = l
<1>1. \A op \in Ops : Do(op, l, w) \in Statements /\ Do(op, l, w).op = op /\ Do(op, l, w).lease = l
  BY DoTyped
<1>2. Paying \subseteq Ops
  BY DEF Ops, Settling, Logs, Paying
<1>3. /\ q \in Seq(Statements) /\ Len(q) = 11 /\ DOMAIN q = 1..11
      /\ q[1] = Do("begin", l, w) /\ q[2] = Do("balance", l, w) /\ q[3] = Do("charge", l, w)
      /\ q[4] = Do("pay", l, w) /\ q[5] = Do("fee", l, w) /\ q[6] = Do("log_charge", l, w)
      /\ q[7] = Do("log_payout", l, w) /\ q[8] = Do("log_fee", l, w) /\ q[9] = Do("commit", l, w)
      /\ q[10] = Do("record", l, w) /\ q[11] = Do("commit", l, w)
  <2>1. \A op \in Paying : Do(op, l, w) \in Statements
    BY <1>1, <1>2
  <2>2. /\ Do("begin", l, w) \in Statements /\ Do("balance", l, w) \in Statements
        /\ Do("charge", l, w) \in Statements /\ Do("pay", l, w) \in Statements
        /\ Do("fee", l, w) \in Statements /\ Do("log_charge", l, w) \in Statements
        /\ Do("log_payout", l, w) \in Statements /\ Do("log_fee", l, w) \in Statements
        /\ Do("commit", l, w) \in Statements /\ Do("record", l, w) \in Statements
    BY <2>1 DEF Paying
  <2> HIDE DEF Statements
  <2>3. QED
    <3> DEFINE a1 == Do("begin", l, w)
               a2 == Do("balance", l, w)
               a3 == Do("charge", l, w)
               a4 == Do("pay", l, w)
               a5 == Do("fee", l, w)
               a6 == Do("log_charge", l, w)
               a7 == Do("log_payout", l, w)
               a8 == Do("log_fee", l, w)
               a9 == Do("commit", l, w)
               a10 == Do("record", l, w)
    <3>1. q = <<a1, a2, a3, a4, a5, a6, a7, a8, a9, a10, a9>>
      BY DEF SettleSteps
    <3>2. /\ a1 \in Statements /\ a2 \in Statements /\ a3 \in Statements /\ a4 \in Statements
          /\ a5 \in Statements /\ a6 \in Statements /\ a7 \in Statements /\ a8 \in Statements
          /\ a9 \in Statements /\ a10 \in Statements
      BY <2>2
    <3> HIDE DEF a1, a2, a3, a4, a5, a6, a7, a8, a9, a10
    <3>3. /\ q \in Seq(Statements) /\ Len(q) = 11 /\ DOMAIN q = 1..11
          /\ q[1] = a1 /\ q[2] = a2 /\ q[3] = a3 /\ q[4] = a4 /\ q[5] = a5 /\ q[6] = a6
          /\ q[7] = a7 /\ q[8] = a8 /\ q[9] = a9 /\ q[10] = a10 /\ q[11] = a9
      BY <3>1, <3>2
    <3>4. QED
      BY <3>3 DEF a1, a2, a3, a4, a5, a6, a7, a8, a9, a10
<1>4. Settlement(q)
  <2> HIDE DEF Statements, Ops
  <2>1. \A op \in Paying : Do(op, l, w).op = op
    BY <1>1, <1>2
  <2>2. QED
    BY <1>3, <2>1 DEF Paying, Settlement
<1>5. \A i \in 1..11 : q[i].lease = l
  <2> HIDE DEF Statements, Ops
  <2>1. \A op \in Paying : Do(op, l, w).lease = l
    BY <1>1, <1>2
  <2>2. ASSUME NEW i \in 1..11 PROVE \E op \in Paying : q[i] = Do(op, l, w)
    BY <1>3, OneToEleven DEF Paying
  <2>3. QED
    BY <2>1, <2>2
<1>6. QED
  BY <1>3, <1>4, <1>5

EndSteps(l, w) == CompleteLease(l, w) \o << Do("release", l, w) >>

(* The five statements that end a lease, in order.                          *)
LEMMA EndShape ==
  ASSUME NEW l \in Leases, NEW w \in Workers, NEW q, q = EndSteps(l, w)
  PROVE  /\ q \in Seq(Statements) /\ Len(q) = 5 /\ DOMAIN q = 1..5
         /\ q[1].op = "end" /\ q[2].op = "commit" /\ q[3].op = "free" /\ q[4].op = "commit"
         /\ q[5].op = "release"
         /\ \A i \in 1..5 : q[i].lease = l
<1>1. \A o \in Ops : Do(o, l, w) \in Statements /\ Do(o, l, w).op = o /\ Do(o, l, w).lease = l
  BY DoTyped
<1>2. {"end", "commit", "free", "release"} \subseteq Ops
  BY DEF Ops, Settling
<1>3. /\ Len(q) = 5 /\ DOMAIN q = 1..5
      /\ q[1] = Do("end", l, w) /\ q[2] = Do("commit", l, w) /\ q[3] = Do("free", l, w)
      /\ q[4] = Do("commit", l, w) /\ q[5] = Do("release", l, w)
  BY DEF CompleteLease, EndSteps
<1>4. \A i \in 1..5 : i = 1 \/ i = 2 \/ i = 3 \/ i = 4 \/ i = 5
  OBVIOUS
<1>5. \A i \in 1..5 : q[i] \in Statements /\ q[i].lease = l
  <2> HIDE DEF Ops, Statements
  <2>1. QED
    BY <1>1, <1>2, <1>3, <1>4
<1>6. q \in Seq(Statements)
  <2> HIDE DEF Ops, Statements
  <2>1. CompleteLease(l, w) \in Seq(Statements) /\ << Do("release", l, w) >> \in Seq(Statements)
    BY <1>1, <1>2 DEF CompleteLease
  <2>2. QED
    BY <2>1 DEF EndSteps
<1>7. QED
  BY <1>1, <1>2, <1>3, <1>5, <1>6

(* The first part of a settling program: leases of S end, and the lock is   *)
(* given back at most once.                                                 *)
EndPart(p, S) ==
  /\ p \in Seq(Statements)
  /\ \A i \in DOMAIN p : p[i].op \in {"end", "commit", "free", "unlock", "release"}
  /\ \A i, j \in DOMAIN p : p[i].op = "unlock" /\ p[j].op = "unlock" => i = j
  /\ \A i \in DOMAIN p : p[i].op = "end" =>
       p[i].lease \in S /\ i + 1 \in DOMAIN p /\ p[i + 1].op = "commit"

(* The second part: the leases that p has ended are charged.                *)
SettlePart(r, p) ==
  /\ r \in Seq(Statements)
  /\ \A i \in DOMAIN r : r[i].op \in Paying
  /\ ChargesOnce(r) /\ Whole(r)
  /\ \A i \in DOMAIN r : r[i].op = "charge" =>
       \E j \in DOMAIN p : p[j].op = "end" /\ p[j].lease = r[i].lease

(* Statements that stand in order go on doing so behind others.             *)
LEMMA BehindAt ==
  ASSUME NEW p \in Seq(Statements), NEW r \in Seq(Statements), NEW x, NEW y, NEW d \in Int,
         \A i \in DOMAIN p : p[i].op # x, At(r, x, d, y)
  PROVE  At(p \o r, x, d, y)
<1> DEFINE q == p \o r
           n == Len(p)
<1>1. /\ n \in Nat /\ DOMAIN q \subseteq Nat
      /\ \A i \in DOMAIN q : (i \in DOMAIN p /\ q[i] = p[i]) \/ (i - n \in DOMAIN r /\ q[i] = r[i - n])
      /\ \A i \in DOMAIN r : i \in Nat /\ i + n \in DOMAIN q /\ q[i + n] = r[i]
  OBVIOUS
<1> HIDE DEF q, n
<1>2. ASSUME NEW i \in DOMAIN q, q[i].op = x PROVE i + d \in DOMAIN q /\ q[i + d].op = y
  <2>1. i - n \in DOMAIN r /\ r[i - n].op = x /\ i \in Nat
    BY <1>1, <1>2
  <2>2. (i - n) + d \in DOMAIN r /\ r[(i - n) + d].op = y
    BY <2>1 DEF At
  <2>3. ((i - n) + d) + n = i + d
    BY <1>1, <2>1
  <2>4. QED
    BY <1>1, <2>2, <2>3
<1>3. QED
  BY <1>2 DEF At, q

(* Ends first, settlements after them: together a program that settles.     *)
LEMMA PartsSettle ==
  ASSUME NEW S, NEW p, NEW r, EndPart(p, S), SettlePart(r, p)
  PROVE  Settles(p \o r, S)
<1> DEFINE q == p \o r
           n == Len(p)
<1>1. p \in Seq(Statements) /\ r \in Seq(Statements)
  BY DEF EndPart, SettlePart
<1>2. /\ q \in Seq(Statements) /\ n \in Nat /\ DOMAIN q \subseteq Nat /\ DOMAIN p = 1..n
      /\ \A i \in DOMAIN p : i \in DOMAIN q /\ q[i] = p[i] /\ i <= n
      /\ \A i \in DOMAIN q : (i \in DOMAIN p /\ q[i] = p[i] /\ i <= n)
                              \/ (i - n \in DOMAIN r /\ q[i] = r[i - n] /\ i > n)
  BY <1>1
<1> HIDE DEF q, n
<1>3. \A i \in DOMAIN q :
        \/ i \in DOMAIN p /\ q[i].op \in {"end", "commit", "free", "unlock", "release"}
        \/ i > n /\ q[i].op \in Paying
  <2> SUFFICES ASSUME NEW i \in DOMAIN q
               PROVE  \/ i \in DOMAIN p /\ q[i].op \in {"end", "commit", "free", "unlock", "release"}
                      \/ i > n /\ q[i].op \in Paying
    OBVIOUS
  <2>1. CASE i \in DOMAIN p /\ q[i] = p[i]
    BY <2>1 DEF EndPart
  <2>2. CASE i - n \in DOMAIN r /\ q[i] = r[i - n] /\ i > n
    <3>1. r[i - n].op \in Paying
      BY <2>2 DEF SettlePart
    <3>2. QED
      BY <2>2, <3>1
  <2>3. QED
    BY <1>2, <2>1, <2>2
<1>4. \A i \in DOMAIN q : q[i].op \in {"end", "unlock"} => i \in DOMAIN p /\ q[i] = p[i] /\ i <= n
  BY <1>2, <1>3 DEF Paying
<1>5. \A i \in DOMAIN q : q[i].op \in {"begin", "charge", "record"} => i - n \in DOMAIN r /\ q[i] = r[i - n] /\ i > n
  <2> SUFFICES ASSUME NEW i \in DOMAIN q, q[i].op \in {"begin", "charge", "record"}
               PROVE  i - n \in DOMAIN r /\ q[i] = r[i - n] /\ i > n
    OBVIOUS
  <2>1. ~(i \in DOMAIN p /\ q[i] = p[i])
    BY DEF EndPart
  <2>2. QED
    BY <1>2, <2>1
<1>6. LockPaired(q)
  <2>1. ASSUME NEW i \in DOMAIN q, NEW j \in DOMAIN q, i < j,
               q[i].op \in {"begin", "record", "unlock"}, q[j].op = "unlock"
        PROVE  FALSE
    <3>1. j \in DOMAIN p /\ p[j].op = "unlock" /\ j <= n
      BY <1>4, <2>1
    <3>2. CASE q[i].op = "unlock"
      BY <1>2, <1>4, <2>1, <3>1, <3>2 DEF EndPart
    <3>3. CASE q[i].op \in {"begin", "record"}
      BY <1>2, <1>5, <2>1, <3>1, <3>3
    <3>4. QED
      BY <2>1, <3>2, <3>3
  <2>2. \A i \in DOMAIN q : q[i].op \notin {"active", "insert"}
    BY <1>3 DEF Paying
  <2>3. QED
    BY <2>1, <2>2 DEF LockPaired
<1>7. EndsFirst(q)
  <2>1. ASSUME NEW i \in DOMAIN q, NEW j \in DOMAIN q, i < j, q[i].op \in {"begin", "record"}
        PROVE  q[j].op \notin {"end", "insert"}
    <3>1. i > n
      BY <1>5, <2>1
    <3>2. j > n /\ ~(j <= n)
      BY <1>2, <2>1, <3>1
    <3>3. q[j].op # "end"
      BY <1>4, <3>2
    <3>4. QED
      BY <1>3, <3>3 DEF Paying
  <2>2. ASSUME NEW i \in DOMAIN q, q[i].op = "end"
        PROVE  i + 1 \in DOMAIN q /\ q[i + 1].op = "commit"
    <3>1. i \in DOMAIN p /\ p[i].op = "end"
      BY <1>4, <2>2
    <3>2. i + 1 \in DOMAIN p /\ p[i + 1].op = "commit"
      BY <3>1 DEF EndPart
    <3>3. QED
      BY <1>2, <3>2
  <2>3. QED
    BY <2>1, <2>2 DEF EndsFirst
<1>8. InsertsOnce(q)
  BY <1>3 DEF InsertsOnce, Paying
<1>9. ChargesOnce(q)
  <2> SUFFICES ASSUME NEW i \in DOMAIN q, NEW j \in DOMAIN q,
                      q[i].op = "charge", q[j].op = "charge", q[i].lease = q[j].lease
               PROVE  i = j
    BY DEF ChargesOnce
  <2>1. /\ i - n \in DOMAIN r /\ q[i] = r[i - n] /\ j - n \in DOMAIN r /\ q[j] = r[j - n]
        /\ i \in Nat /\ j \in Nat
    BY <1>2, <1>5
  <2>2. i - n = j - n
    BY <2>1 DEF SettlePart, ChargesOnce
  <2>3. QED
    BY <1>2, <2>1, <2>2
<1>10. \A i \in DOMAIN q : q[i].op = "end" => q[i].lease \in S
  BY <1>4 DEF EndPart
<1>11. ASSUME NEW i \in DOMAIN q, q[i].op = "charge"
       PROVE  \E j \in DOMAIN q : j < i /\ q[j].op = "end" /\ q[j].lease = q[i].lease
  <2>1. i - n \in DOMAIN r /\ q[i] = r[i - n] /\ i > n
    BY <1>5, <1>11
  <2>2. PICK j \in DOMAIN p : p[j].op = "end" /\ p[j].lease = r[i - n].lease
    BY <1>11, <2>1 DEF SettlePart
  <2>3. j \in DOMAIN q /\ q[j] = p[j] /\ j < i
    BY <1>2, <2>1
  <2>4. QED
    BY <2>1, <2>2, <2>3
<1>12. \A i \in DOMAIN q : q[i].op = "charge" => q[i].lease \in S
  BY <1>10, <1>11
<1>13. \A i \in DOMAIN q : q[i].op \notin {"active", "insert"}
  BY <1>3 DEF Paying
<1>14. Whole(q) /\ InOrder(q)
  <2>1. \A i \in DOMAIN p : p[i].op \notin {"insert", "begin", "charge", "pay", "fee", "record"} \cup Logs
    BY DEF EndPart, Logs
  <2>2. Whole(r) /\ GoesOn(r)
    BY DEF SettlePart, Whole
  <2>3. 1 \in Int /\ 2 \in Int /\ 10 \in Int /\ -1 \in Int /\ -2 \in Int
    OBVIOUS
  <2>4. GoesOn(q)
    BY <1>1, <2>1, <2>2, <2>3, BehindAt DEF GoesOn, Logs, q
  <2>5. Whole(q)
    BY <1>1, <2>1, <2>2, <2>3, <2>4, BehindAt DEF Whole, Logs, q
  <2>6. QED
    BY <1>2, <2>5, WholeInOrder
<1>15. Settles(q, S)
  BY <1>2, <1>6, <1>7, <1>8, <1>9, <1>10, <1>11, <1>12, <1>13, <1>14 DEF Settles, WellFormed
<1>16. QED
  BY <1>15 DEF q

(* The program of a stop request.                                           *)
LEMMA StopProgram ==
  ASSUME NEW l \in Leases, NEW w \in Workers, NEW q, q = StopLeaseSteps(l, w)
  PROVE  Settles(q, {l}) /\ \E i \in DOMAIN q : q[i].op = "unlock"
<1> DEFINE p == CompleteLease(l, w) \o << Do("unlock", l, w), Do("release", l, w) >>
           r == SettleSteps(l, w)
<1>1. \A o \in Ops : Do(o, l, w) \in Statements /\ Do(o, l, w).op = o /\ Do(o, l, w).lease = l
  BY DoTyped
<1>2. {"end", "commit", "free", "release", "unlock"} \subseteq Ops
  BY DEF Ops, Settling
<1>3. p \in Seq(Statements)
  <2> HIDE DEF Ops, Statements
  <2>1. /\ CompleteLease(l, w) \in Seq(Statements)
        /\ << Do("unlock", l, w), Do("release", l, w) >> \in Seq(Statements)
    BY <1>1, <1>2 DEF CompleteLease
  <2>2. QED
    BY <2>1
<1>4. /\ Len(p) = 6 /\ DOMAIN p = 1..6
      /\ p[1] = Do("end", l, w) /\ p[2] = Do("commit", l, w) /\ p[3] = Do("free", l, w)
      /\ p[4] = Do("commit", l, w) /\ p[5] = Do("unlock", l, w) /\ p[6] = Do("release", l, w)
  BY DEF CompleteLease
<1>5. q = p \o r
  BY DEF StopLeaseSteps
<1>6. /\ p[1].op = "end" /\ p[2].op = "commit" /\ p[3].op = "free" /\ p[4].op = "commit"
      /\ p[5].op = "unlock" /\ p[6].op = "release" /\ p[1].lease = l
  BY <1>1, <1>2, <1>4
<1> HIDE DEF p
<1>7. EndPart(p, {l})
  <2>1. \A i \in DOMAIN p : i = 1 \/ i = 2 \/ i = 3 \/ i = 4 \/ i = 5 \/ i = 6
    BY <1>4
  <2>2. QED
    BY <1>3, <1>4, <1>6, <2>1 DEF EndPart
<1>8. SettlePart(r, p)
  <2>1. r \in Seq(Statements) /\ Settlement(r) /\ \A i \in 1..11 : r[i].lease = l
    BY SettleShape
  <2> HIDE DEF r
  <2>2. Whole(r) /\ \A i \in DOMAIN r : r[i].op \in Paying /\ (r[i].op = "charge" => i = 3)
    BY <2>1, SettlementWhole
  <2>3. 1 \in DOMAIN p /\ p[1].op = "end" /\ p[1].lease = l /\ r[3].lease = l
    BY <1>4, <1>6, <2>1
  <2>4. QED
    BY <2>1, <2>2, <2>3 DEF SettlePart, ChargesOnce
<1>9. Settles(q, {l})
  BY <1>5, <1>7, <1>8, PartsSettle
<1>10. 5 \in DOMAIN q /\ q[5].op = "unlock"
  <2>1. r \in Seq(Statements)
    BY SettleShape
  <2> HIDE DEF r
  <2>2. \A i \in DOMAIN p : i \in DOMAIN (p \o r) /\ (p \o r)[i] = p[i]
    BY <1>3, <2>1
  <2>3. QED
    BY <1>4, <1>5, <1>6, <2>2
<1>11. QED
  BY <1>9, <1>10
-----------------------------------------------------------------------------
(* A set of natural numbers has a least one.                                *)
LEMMA SmallestNat == ASSUME NEW N, N \subseteq Nat, N # {} PROVE \E n \in N : \A m \in N : n <= m
<1> DEFINE R == OpToRel(<, Nat)
<1>1. IsWellFoundedOn(R, Nat)
  BY NatLessThanWellFounded
<1>2. PICK n \in N : \A m \in N : <<m, n>> \notin R
  <2> HIDE DEF R
  <2>1. QED
    BY <1>1, WFMin
<1>3. \A m \in N : ~(m < n)
  BY <1>2 DEF OpToRel
<1>4. \A m \in N : n <= m
  BY <1>3
<1>5. QED
  BY <1>4

(* f[i] is the first i of the sequences of ss, one after the other.         *)
Joins(f, ss, n) == f = [i \in 1..n |-> IF i = 1 THEN ss[i] ELSE f[i - 1] \o ss[i]]

(* The recursion of the community modules' FlattenSeq has a solution.       *)
LEMMA JoinExists == ASSUME NEW ss, NEW n \in Nat PROVE \E f : Joins(f, ss, n)
<1> DEFINE Level(k) == \E f : Joins(f, ss, k)
           Bad == {k \in Nat : ~Level(k)}
<1>1. Level(0)
  <2> DEFINE f == [i \in 1..0 |-> 0]
  <2>1. 1..0 = {}
    OBVIOUS
  <2>2. Joins(f, ss, 0)
    BY <2>1 DEF Joins
  <2>3. QED
    BY <2>2
<1>2. ASSUME NEW k \in Nat, Level(k) PROVE Level(k + 1)
  <2>1. PICK f : Joins(f, ss, k)
    BY <1>2
  <2> DEFINE g == [i \in 1..(k + 1) |-> IF i = 1 THEN ss[i] ELSE f[i - 1] \o ss[i]]
  <2>2. \A i \in 1..k : i \in 1..(k + 1) /\ g[i] = f[i]
    <3> SUFFICES ASSUME NEW i \in 1..k PROVE i \in 1..(k + 1) /\ g[i] = f[i]
      OBVIOUS
    <3>1. i \in 1..(k + 1)
      OBVIOUS
    <3>2. f[i] = IF i = 1 THEN ss[i] ELSE f[i - 1] \o ss[i]
      BY <2>1 DEF Joins
    <3>3. g[i] = IF i = 1 THEN ss[i] ELSE f[i - 1] \o ss[i]
      BY <3>1
    <3>4. QED
      BY <3>1, <3>2, <3>3
  <2>3. \A i \in 1..(k + 1) : i # 1 => g[i - 1] = f[i - 1]
    <3> SUFFICES ASSUME NEW i \in 1..(k + 1), i # 1 PROVE g[i - 1] = f[i - 1]
      OBVIOUS
    <3>1. i - 1 \in 1..k
      OBVIOUS
    <3> HIDE DEF g
    <3>2. QED
      BY <2>2, <3>1
  <2>4. \A i \in 1..(k + 1) : (IF i = 1 THEN ss[i] ELSE f[i - 1] \o ss[i]) =
                              (IF i = 1 THEN ss[i] ELSE g[i - 1] \o ss[i])
    <3> HIDE DEF g
    <3>1. QED
      BY <2>3
  <2>5. g = [i \in 1..(k + 1) |-> IF i = 1 THEN ss[i] ELSE g[i - 1] \o ss[i]]
    BY <2>4
  <2>6. QED
    <3> HIDE DEF g
    <3>1. QED
      BY <2>5 DEF Joins
<1>3. Bad = {}
  <2> HIDE DEF Level
  <2>1. SUFFICES ASSUME Bad # {} PROVE FALSE
    OBVIOUS
  <2>2. PICK k \in Bad : \A m \in Bad : k <= m
    BY <2>1, SmallestNat
  <2>3. k # 0 /\ k \in Nat /\ ~Level(k)
    BY <1>1, <2>2
  <2>4. k - 1 \in Nat /\ Level(k - 1)
    BY <2>2, <2>3
  <2>5. Level(k - 1 + 1)
    BY <1>2, <2>4
  <2>6. k - 1 + 1 = k
    BY <2>3
  <2>7. QED
    BY <2>3, <2>5, <2>6
<1>4. QED
  <2> HIDE DEF Level
  <2>1. Level(n)
    BY <1>3
  <2>2. QED
    BY <2>1 DEF Level

(* F is the sequences of ss one after the other, ss[i] after at[i] others.  *)
Places(at, F, ss, n) ==
  /\ at \in [1..n -> Nat]
  /\ \A i \in 1..n : \A r \in DOMAIN ss[i] : at[i] + r \in DOMAIN F /\ F[at[i] + r] = ss[i][r]
  /\ \A q \in DOMAIN F : \E i \in 1..n : \E r \in DOMAIN ss[i] : q = at[i] + r

(* Every sequence has its place in what FlattenSeq returns.                 *)
LEMMA FlattenPlaces ==
  ASSUME NEW T, NEW n \in Nat, n > 0, NEW ss \in [1..n -> Seq(T)]
  PROVE  FlattenSeq(ss) \in Seq(T) /\ \E at : Places(at, FlattenSeq(ss), ss, n)
<1>1. ss \in Seq(Seq(T)) /\ Len(ss) = n
  OBVIOUS
<1> DEFINE P(g) == g = [i \in 1..Len(ss) |-> IF i = 1 THEN ss[i] ELSE g[i - 1] \o ss[i]]
<1>2. \E g : P(g)
  BY <1>1, JoinExists DEF Joins
<1>3. FlattenSeq(ss) = (CHOOSE g : P(g))[Len(ss)]
  BY <1>1 DEF FlattenSeq
<1>4. PICK f : Joins(f, ss, n) /\ FlattenSeq(ss) = f[n]
  <2>1. P(CHOOSE g : P(g))
    <3> HIDE DEF P
    <3>1. QED
      BY <1>2
  <2>2. QED
    BY <1>1, <1>3, <2>1 DEF Joins
<1> DEFINE Good(k) == f[k] \in Seq(T) /\ \E at : Places(at, f[k], ss, k)
           Bad == {k \in 1..n : ~Good(k)}
<1>5. \A i \in 1..n : /\ ss[i] \in Seq(T) /\ Len(ss[i]) \in Nat /\ DOMAIN ss[i] = 1..Len(ss[i])
                      /\ \A r \in DOMAIN ss[i] : r \in Nat /\ 0 + r = r
  OBVIOUS
<1>6. Good(1)
  <2>1. f[1] = ss[1] /\ 1 \in 1..n
    BY <1>4 DEF Joins
  <2>2. \A i : i \in 1..1 <=> i = 1
    OBVIOUS
  <2> DEFINE at == [i \in 1..1 |-> 0]
  <2>3. at \in [1..1 -> Nat] /\ at[1] = 0
    OBVIOUS
  <2> HIDE DEF at
  <2>4. Places(at, f[1], ss, 1)
    BY <1>5, <2>1, <2>2, <2>3 DEF Places
  <2>5. QED
    BY <1>5, <2>1, <2>4
<1>7. ASSUME NEW k \in 1..n, k # 1, Good(k - 1) PROVE Good(k)
  <2>1. f[k] = f[k - 1] \o ss[k] /\ k - 1 \in 1..n /\ k \in Nat
    <3>1. k - 1 \in 1..n
      BY <1>7
    <3>2. f[k] = IF k = 1 THEN ss[k] ELSE f[k - 1] \o ss[k]
      BY <1>4 DEF Joins
    <3>3. QED
      BY <1>7, <3>1, <3>2
  <2>2. PICK at : Places(at, f[k - 1], ss, k - 1)
    BY <1>7
  <2> DEFINE a == f[k - 1]
             b == ss[k]
             m == Len(a)
             to == [i \in 1..k |-> IF i = k THEN m ELSE at[i]]
  <2>3. a \in Seq(T) /\ b \in Seq(T) /\ m \in Nat /\ DOMAIN a = 1..m
    BY <1>5, <1>7
  <2>4. /\ f[k] \in Seq(T)
        /\ \A q \in DOMAIN a : q \in DOMAIN f[k] /\ f[k][q] = a[q]
        /\ \A r \in DOMAIN b : m + r \in DOMAIN f[k] /\ f[k][m + r] = b[r]
        /\ \A q \in DOMAIN f[k] : q \in DOMAIN a \/ \E r \in DOMAIN b : q = m + r
    <3> HIDE DEF a, b
    <3>1. f[k] = a \o b
      BY <2>1 DEF a, b
    <3>2. \A q \in DOMAIN (a \o b) : q \in DOMAIN a \/ (q - m \in DOMAIN b /\ q = m + (q - m))
      BY <2>3
    <3>3. a \o b \in Seq(T) /\ \A q \in DOMAIN a : q \in DOMAIN (a \o b) /\ (a \o b)[q] = a[q]
      BY <2>3
    <3>4. \A r \in DOMAIN b : m + r \in DOMAIN (a \o b) /\ (a \o b)[m + r] = b[r]
      BY <2>3
    <3>5. QED
      BY <3>1, <3>2, <3>3, <3>4
  <2>5. \A i : i \in 1..k <=> (i \in 1..(k - 1) \/ i = k)
    BY <1>7
  <2>6. /\ at \in [1..(k - 1) -> Nat]
        /\ \A i \in 1..(k - 1) : \A r \in DOMAIN ss[i] : at[i] + r \in DOMAIN a /\ a[at[i] + r] = ss[i][r]
        /\ \A q \in DOMAIN a : \E i \in 1..(k - 1) : \E r \in DOMAIN ss[i] : q = at[i] + r
    BY <2>2 DEF Places
  <2>7. /\ to \in [1..k -> Nat] /\ to[k] = m
        /\ \A i \in 1..(k - 1) : to[i] = at[i]
    <3> HIDE DEF m
    <3>1. \A i \in 1..(k - 1) : i # k /\ at[i] \in Nat
      BY <2>1, <2>6
    <3>2. QED
      BY <2>3, <2>5, <3>1
  <2>8. Places(to, f[k], ss, k)
    <3> HIDE DEF a, m, to
    <3>1. ASSUME NEW i \in 1..k, NEW r \in DOMAIN ss[i]
          PROVE  to[i] + r \in DOMAIN f[k] /\ f[k][to[i] + r] = ss[i][r]
      <4>1. CASE i = k
        BY <2>4, <2>7, <4>1
      <4>2. CASE i \in 1..(k - 1)
        <5>1. to[i] = at[i]
          BY <2>7, <4>2
        <5>2. at[i] + r \in DOMAIN a /\ a[at[i] + r] = ss[i][r]
          BY <2>6, <4>2
        <5>3. at[i] + r \in DOMAIN f[k] /\ f[k][at[i] + r] = a[at[i] + r]
          BY <2>4, <5>2
        <5>4. QED
          BY <5>1, <5>2, <5>3
      <4>3. QED
        BY <2>5, <4>1, <4>2
    <3>2. ASSUME NEW q \in DOMAIN f[k]
          PROVE  \E i \in 1..k : \E r \in DOMAIN ss[i] : q = to[i] + r
      <4>1. CASE q \in DOMAIN a
        BY <2>5, <2>6, <2>7, <4>1
      <4>2. CASE \E r \in DOMAIN b : q = m + r
        BY <2>5, <2>7, <4>2
      <4>3. QED
        BY <2>4, <4>1, <4>2
    <3>3. QED
      BY <2>7, <3>1, <3>2 DEF Places
  <2>9. QED
    BY <2>4, <2>8
<1>8. Bad = {}
  <2> HIDE DEF Good
  <2>1. SUFFICES ASSUME Bad # {} PROVE FALSE
    OBVIOUS
  <2>2. PICK k \in Bad : \A m \in Bad : k <= m
    <3>1. Bad \subseteq Nat
      OBVIOUS
    <3>2. QED
      BY <2>1, <3>1, SmallestNat
  <2>3. k # 1 /\ k \in 1..n /\ ~Good(k)
    BY <1>6, <2>2
  <2>4. k - 1 \in 1..n /\ Good(k - 1)
    BY <2>2, <2>3
  <2>5. QED
    BY <1>7, <2>3, <2>4
<1>9. Good(n)
  <2> HIDE DEF Good
  <2>1. n \in 1..n
    OBVIOUS
  <2>2. QED
    BY <1>8, <2>1
<1>10. QED
  BY <1>4, <1>9

(* Whole settlements one after the other are whole.                         *)
LEMMA FlattenWhole ==
  ASSUME NEW n \in Nat, NEW ss, NEW F, NEW at, Places(at, F, ss, n),
         \A i \in 1..n : ss[i] \in Seq(Statements) /\ Whole(ss[i])
  PROVE  Whole(F)
<1>1. ASSUME NEW x, NEW y, NEW d \in Int, \A i \in 1..n : At(ss[i], x, d, y) PROVE At(F, x, d, y)
  <2> SUFFICES ASSUME NEW v \in DOMAIN F, F[v].op = x PROVE v + d \in DOMAIN F /\ F[v + d].op = y
    BY DEF At
  <2>1. PICK i \in 1..n : \E r \in DOMAIN ss[i] : v = at[i] + r
    BY DEF Places
  <2>2. PICK r \in DOMAIN ss[i] : v = at[i] + r
    BY <2>1
  <2>3. F[v] = ss[i][r] /\ at[i] \in Nat
    BY <2>2 DEF Places
  <2>4. r + d \in DOMAIN ss[i] /\ ss[i][r + d].op = y
    BY <1>1, <2>3 DEF At
  <2>5. at[i] + (r + d) \in DOMAIN F /\ F[at[i] + (r + d)] = ss[i][r + d]
    BY <2>4 DEF Places
  <2>6. r \in Int
    <3>1. ss[i] \in Seq(Statements)
      OBVIOUS
    <3>2. DOMAIN ss[i] = 1..Len(ss[i]) /\ Len(ss[i]) \in Nat
      BY <3>1
    <3>3. QED
      BY <3>2
  <2>7. v + d = at[i] + (r + d)
    BY <2>2, <2>3, <2>6
  <2>8. QED
    BY <2>4, <2>5, <2>7
<1>2. 1 \in Int /\ 2 \in Int /\ 10 \in Int /\ -1 \in Int /\ -2 \in Int
  OBVIOUS
<1>3. GoesOn(F)
  BY <1>1, <1>2 DEF Whole, GoesOn
<1>4. QED
  BY <1>1, <1>2, <1>3 DEF Whole

(* The list of a finite set has each of its elements once.                  *)
LEMMA SetListed ==
  ASSUME NEW S, IsFiniteSet(S), S # {}
  PROVE  /\ Cardinality(S) \in Nat /\ Cardinality(S) > 0
         /\ SetToSeq(S) \in [1..Cardinality(S) -> S] /\ IsInjective(SetToSeq(S))
<1>1. Cardinality(S) \in Nat /\ ExistsBijection(1..Cardinality(S), S)
  BY FS_CardinalityType
<1>2. Cardinality(S) # 0
  BY FS_EmptySet
<1>3. \E f \in [1..Cardinality(S) -> S] : IsInjective(f)
  BY <1>1 DEF ExistsBijection, Bijection, Injection
<1>4. QED
  BY <1>1, <1>2, <1>3 DEF SetToSeq

(* The program of a round of the sweep.                                     *)
LEMMA SweepProgram ==
  ASSUME NEW n \in Nat, n > 0, NEW list \in [1..n -> [lease : Leases, worker : Workers]],
         \A i, j \in 1..n : list[i].lease = list[j].lease => i = j,
         NEW S, \A i \in 1..n : list[i].lease \in S
  PROVE  /\ Settles(SweepSteps(list), S)
         /\ \A i \in DOMAIN SweepSteps(list) : SweepSteps(list)[i].op # "unlock"
<1> DEFINE es == [i \in 1..n |-> CompleteLease(list[i].lease, list[i].worker)
                                \o << Do("release", list[i].lease, list[i].worker) >>]
           ts == [i \in 1..n |-> SettleSteps(list[i].lease, list[i].worker)]
           p == FlattenSeq(es)
           r == FlattenSeq(ts)
<1>1. \A i \in 1..n : list[i].lease \in Leases /\ list[i].worker \in Workers
  OBVIOUS
<1>2. \A i \in 1..n : /\ es[i] \in Seq(Statements) /\ DOMAIN es[i] = 1..5
                      /\ es[i][1].op = "end" /\ es[i][2].op = "commit" /\ es[i][3].op = "free"
                      /\ es[i][4].op = "commit" /\ es[i][5].op = "release"
                      /\ \A k \in 1..5 : es[i][k].lease = list[i].lease
  <2> SUFFICES ASSUME NEW i \in 1..n
               PROVE  /\ es[i] \in Seq(Statements) /\ DOMAIN es[i] = 1..5
                      /\ es[i][1].op = "end" /\ es[i][2].op = "commit" /\ es[i][3].op = "free"
                      /\ es[i][4].op = "commit" /\ es[i][5].op = "release"
                      /\ \A k \in 1..5 : es[i][k].lease = list[i].lease
    OBVIOUS
  <2>1. es[i] = CompleteLease(list[i].lease, list[i].worker) \o << Do("release", list[i].lease, list[i].worker) >>
    OBVIOUS
  <2> DEFINE e == es[i]
             l == list[i].lease
             w == list[i].worker
  <2>2. l \in Leases /\ w \in Workers
    BY <1>1
  <2>3. e = EndSteps(l, w)
    BY <2>1 DEF EndSteps
  <2> HIDE DEF es, e, l, w
  <2>4. /\ e \in Seq(Statements) /\ DOMAIN e = 1..5
        /\ e[1].op = "end" /\ e[2].op = "commit" /\ e[3].op = "free" /\ e[4].op = "commit"
        /\ e[5].op = "release" /\ \A k \in 1..5 : e[k].lease = l
    BY <2>2, <2>3, EndShape
  <2>5. QED
    BY <2>4 DEF e, l
<1>3. \A i \in 1..n : /\ ts[i] \in Seq(Statements) /\ Settlement(ts[i]) /\ DOMAIN ts[i] = 1..11
                      /\ Whole(ts[i]) /\ \A k \in 1..11 : ts[i][k].lease = list[i].lease
                      /\ \A k \in 1..11 : ts[i][k].op \in Paying /\ (ts[i][k].op = "charge" => k = 3)
  <2> SUFFICES ASSUME NEW i \in 1..n
               PROVE  /\ ts[i] \in Seq(Statements) /\ Settlement(ts[i]) /\ DOMAIN ts[i] = 1..11
                      /\ Whole(ts[i]) /\ \A k \in 1..11 : ts[i][k].lease = list[i].lease
                      /\ \A k \in 1..11 : ts[i][k].op \in Paying /\ (ts[i][k].op = "charge" => k = 3)
    OBVIOUS
  <2>1. ts[i] = SettleSteps(list[i].lease, list[i].worker)
    OBVIOUS
  <2> DEFINE e == ts[i]
             l == list[i].lease
             w == list[i].worker
  <2>2. l \in Leases /\ w \in Workers
    BY <1>1
  <2>3. e = SettleSteps(l, w)
    BY <2>1
  <2> HIDE DEF ts, e, l, w
  <2>4. e \in Seq(Statements) /\ Settlement(e) /\ \A k \in 1..11 : e[k].lease = l
    BY <2>2, <2>3, SettleShape
  <2>5. DOMAIN e = 1..11 /\ Whole(e) /\ \A k \in 1..11 : e[k].op \in Paying /\ (e[k].op = "charge" => k = 3)
    <3>1. DOMAIN e = 1..11
      BY <2>4 DEF Settlement
    <3>2. Whole(e) /\ \A k \in DOMAIN e : e[k].op \in Paying /\ (e[k].op = "charge" => k = 3)
      BY <2>4, SettlementWhole
    <3>3. QED
      BY <3>1, <3>2
  <2>6. QED
    BY <2>4, <2>5 DEF e, l
<1>4. DOMAIN list = 1..n /\ SweepSteps(list) = p \o r
  BY DEF SweepSteps
<1>5. es \in [1..n -> Seq(Statements)] /\ ts \in [1..n -> Seq(Statements)]
  <2>1. es = [i \in 1..n |-> es[i]] /\ ts = [i \in 1..n |-> ts[i]]
    OBVIOUS
  <2> HIDE DEF es, ts
  <2>2. QED
    BY <1>2, <1>3, <2>1
<1> HIDE DEF es, ts
<1>6. PICK at : p \in Seq(Statements) /\ Places(at, p, es, n)
  BY <1>5, FlattenPlaces
<1>7. PICK to : r \in Seq(Statements) /\ Places(to, r, ts, n)
  BY <1>5, FlattenPlaces
<1> HIDE DEF p, r
<1>8. \A i \in 1..n : 1 \in DOMAIN es[i] /\ 2 \in DOMAIN es[i] /\ at[i] \in Nat
  <2>1. 1 \in 1..5 /\ 2 \in 1..5
    OBVIOUS
  <2>2. \A i \in 1..n : DOMAIN es[i] = 1..5
    BY <1>2
  <2>3. \A i \in 1..n : at[i] \in Nat
    BY <1>6 DEF Places
  <2>4. QED
    BY <2>1, <2>2, <2>3
<1>9. ASSUME NEW q \in DOMAIN p
      PROVE  /\ p[q].op \in {"end", "commit", "free", "release"}
             /\ p[q].op = "end" => p[q].lease \in S /\ q + 1 \in DOMAIN p /\ p[q + 1].op = "commit"
  <2>1. PICK i \in 1..n : \E k \in DOMAIN es[i] : q = at[i] + k
    BY <1>6 DEF Places
  <2>2. PICK k \in DOMAIN es[i] : q = at[i] + k
    BY <2>1
  <2>3. p[q] = es[i][k] /\ k \in 1..5
    BY <1>2, <1>6, <2>2 DEF Places
  <2>4. k = 1 \/ k = 2 \/ k = 3 \/ k = 4 \/ k = 5
    BY <2>3
  <2>5. p[q].op \in {"end", "commit", "free", "release"} /\ (p[q].op = "end" => k = 1)
    BY <1>2, <2>3, <2>4
  <2>6. ASSUME k = 1 PROVE p[q].lease \in S /\ q + 1 \in DOMAIN p /\ p[q + 1].op = "commit"
    <3>1. q + 1 = at[i] + 2
      BY <1>8, <2>2, <2>6
    <3>2. at[i] + 2 \in DOMAIN p /\ p[at[i] + 2] = es[i][2]
      BY <1>6, <1>8 DEF Places
    <3>3. p[q].lease = list[i].lease
      BY <1>2, <2>3
    <3>4. QED
      BY <1>2, <3>1, <3>2, <3>3
  <2>7. QED
    BY <2>5, <2>6
<1>10. EndPart(p, S)
  BY <1>6, <1>9 DEF EndPart
<1>11. ASSUME NEW q \in DOMAIN r
       PROVE  /\ r[q].op \in Paying
              /\ r[q].op = "charge" => \E i \in 1..n : q = to[i] + 3 /\ r[q].lease = list[i].lease
  <2>1. PICK i \in 1..n : \E k \in DOMAIN ts[i] : q = to[i] + k
    BY <1>7 DEF Places
  <2>2. PICK k \in DOMAIN ts[i] : q = to[i] + k
    BY <2>1
  <2>3. r[q] = ts[i][k] /\ k \in 1..11
    BY <1>3, <1>7, <2>2 DEF Places
  <2>5. r[q].op \in Paying /\ (r[q].op = "charge" => k = 3)
    <3>1. ts[i][k].op \in Paying /\ (ts[i][k].op = "charge" => k = 3)
      BY <1>3, <2>3
    <3>2. QED
      BY <2>3, <3>1
  <2>6. r[q].lease = list[i].lease
    BY <1>3, <2>3, SMTT(30)
  <2>7. QED
    BY <2>2, <2>5, <2>6
<1>12. ChargesOnce(r)
  <2> SUFFICES ASSUME NEW q \in DOMAIN r, NEW v \in DOMAIN r,
                      r[q].op = "charge", r[v].op = "charge", r[q].lease = r[v].lease
               PROVE  q = v
    BY DEF ChargesOnce
  <2>1. PICK i \in 1..n : q = to[i] + 3 /\ r[q].lease = list[i].lease
    BY <1>11
  <2>2. PICK j \in 1..n : v = to[j] + 3 /\ r[v].lease = list[j].lease
    BY <1>11
  <2>3. i = j
    BY <2>1, <2>2
  <2>4. QED
    BY <2>1, <2>2, <2>3
<1>13. ASSUME NEW q \in DOMAIN r, r[q].op = "charge"
       PROVE  \E j \in DOMAIN p : p[j].op = "end" /\ p[j].lease = r[q].lease
  <2>1. PICK i \in 1..n : r[q].lease = list[i].lease
    BY <1>11, <1>13
  <2>2. at[i] + 1 \in DOMAIN p /\ p[at[i] + 1] = es[i][1]
    BY <1>6, <1>8 DEF Places
  <2>3. QED
    BY <1>2, <2>1, <2>2, SMTT(30)
<1>14. SettlePart(r, p)
  <2>1. Whole(r)
    <3>1. \A i \in 1..n : ts[i] \in Seq(Statements) /\ Whole(ts[i])
      BY <1>3
    <3>2. QED
      BY <1>7, <3>1, FlattenWhole
  <2>2. QED
    BY <1>7, <1>11, <1>12, <1>13, <2>1 DEF SettlePart
<1>15. Settles(p \o r, S)
  BY <1>10, <1>14, PartsSettle
<1>16. \A i \in DOMAIN (p \o r) : (p \o r)[i].op # "unlock"
  <2>1. \A i \in DOMAIN (p \o r) : (i \in DOMAIN p /\ (p \o r)[i] = p[i])
                                  \/ (i - Len(p) \in DOMAIN r /\ (p \o r)[i] = r[i - Len(p)])
    BY <1>6, <1>7
  <2>2. \A i \in DOMAIN p : p[i].op # "unlock"
    BY <1>9
  <2>3. \A i \in DOMAIN r : r[i].op # "unlock"
    BY <1>11 DEF Paying
  <2>4. QED
    BY <2>1, <2>2, <2>3
<1>17. QED
  BY <1>4, <1>15, <1>16
-----------------------------------------------------------------------------
(* What is left of a program after one statement, after none, and after a   *)
(* settlement that is given up.                                             *)
LEMMA TailRest == ASSUME NEW p \in Seq(Statements), p # << >> PROVE Rest(Tail(p), p, 1)
<1>1. Tail(p) \in Seq(Statements) /\ Len(Tail(p)) = Len(p) - 1 /\ Len(p) \in Nat /\ Len(p) # 0
  OBVIOUS
<1>2. \A i \in 1..Len(Tail(p)) : Tail(p)[i] = p[i + 1]
  BY <1>1
<1>3. QED
  BY <1>1, <1>2 DEF Rest

(* A program that is broken off has nothing left.                           *)
LEMMA EmptyRest == ASSUME NEW p \in Seq(Statements), p # << >> PROVE Rest(<< >>, p, Len(p))
<1>1. Len(p) \in Nat /\ Len(p) # 0
  OBVIOUS
<1>2. Len(<< >>) = 0 /\ << >> \in Seq(Statements) /\ \A i \in 1..0 : FALSE
  OBVIOUS
<1>3. QED
  BY <1>1, <1>2 DEF Rest

(* The empty program is well formed.                                        *)
LEMMA EmptyWellFormed == WellFormed(<< >>)
<1>1. << >> \in Seq(Statements) /\ DOMAIN << >> = {}
  OBVIOUS
<1>2. LockPaired(<< >>) /\ EndsFirst(<< >>) /\ InsertsOnce(<< >>) /\ ChargesOnce(<< >>)
  BY <1>1 DEF LockPaired, EndsFirst, InsertsOnce, ChargesOnce
<1>3. InOrder(<< >>)
  BY <1>1, WholeInOrder
<1>4. QED
  BY <1>1, <1>2, <1>3 DEF WellFormed

(* What is left after skipping n statements is a rest of the program.       *)
LEMMA SubSeqRest ==
  ASSUME NEW p \in Seq(Statements), p # << >>, NEW n \in Nat, n > 0
  PROVE  \E k : Rest(SubSeq(p, n + 1, Len(p)), p, k) /\ (k = n \/ SubSeq(p, n + 1, Len(p)) = << >>)
<1>1. Len(p) \in Nat /\ Len(p) # 0
  OBVIOUS
<1>2. CASE n <= Len(p)
  <2> DEFINE q == SubSeq(p, n + 1, Len(p))
  <2>1. q \in Seq(Statements) /\ Len(q) = Len(p) - n /\ \A i \in 1..Len(q) : q[i] = p[i + n]
    <3>1. /\ q \in Seq(Statements) /\ Len(q) = IF n + 1 <= Len(p) THEN Len(p) - (n + 1) + 1 ELSE 0
          /\ \A i \in 1..(Len(p) - (n + 1) + 1) : q[i] = p[(n + 1) + i - 1]
      BY <1>1, SubSeqProperties
    <3>2. Len(q) = Len(p) - n
      BY <1>1, <1>2, <3>1
    <3>3. ASSUME NEW i \in 1..Len(q) PROVE q[i] = p[i + n]
      <4>1. i \in 1..(Len(p) - (n + 1) + 1) /\ (n + 1) + i - 1 = i + n
        BY <1>1, <3>2
      <4> HIDE DEF q
      <4>2. QED
        BY <3>1, <4>1
    <3>4. QED
      BY <3>1, <3>2, <3>3
  <2> HIDE DEF q
  <2>2. Rest(q, p, n)
    BY <1>1, <1>2, <2>1 DEF Rest
  <2>3. QED
    BY <2>2 DEF q
<1>3. CASE ~(n <= Len(p))
  <2>1. SubSeq(p, n + 1, Len(p)) = << >>
    BY <1>1, <1>3, SubSeqEmpty
  <2>2. QED
    BY <2>1, EmptyRest
<1>4. QED
  BY <1>2, <1>3
-----------------------------------------------------------------------------
(* The state is typed, and programs, lock and tasks belong together.        *)
MarketBase ==
  MarketTypeOK /\ cost \in [Tasks -> Int] /\ scene \in Scenes /\ Programs

(* A task's step leaves the other programs alone and a rest of its own: all *)
(* but one statement, unless a request or a settlement is given up.         *)
LEMMA TaskRests ==
  ASSUME MarketBase, NEW t \in Tasks, TaskStep(t)
  PROVE  /\ prog[t] # << >> /\ prog[t] \in Seq(Statements) /\ Len(prog[t]) \in Nat
         /\ 1 \in DOMAIN prog[t] /\ Head(prog[t]) = prog[t][1] /\ prog[t][1] \in Statements
         /\ prog' \in [Tasks -> Seq(Statements)]
         /\ \A u \in Tasks : u # t => prog'[u] = prog[u]
         /\ \E k : /\ Rest(prog'[t], prog[t], k)
                   /\ Head(prog[t]).op \notin {"active", "insert", "begin", "record"} => k = 1
                   /\ Head(prog[t]).op \in {"active", "insert"} => k = 1 \/ prog'[t] = << >>
                   /\ k = 1 \/ (k = 11 /\ Head(prog[t]).op = "begin") \/ prog'[t] = << >>
<1>1. /\ prog \in [Tasks -> Seq(Statements)] /\ prog[t] \in Seq(Statements) /\ prog[t] # << >>
  BY DEF MarketBase, Programs, TaskStep, Write, InsertFails, Commit, Active, Unlock, Publish, Begin, BeginFails,
         ReadBalance, Record, Resting
<1>2. /\ 1 \in DOMAIN prog[t] /\ Head(prog[t]) = prog[t][1] /\ prog[t][1] \in Statements
      /\ Len(prog[t]) \in Nat
  <2> HIDE DEF Statements
  <2>1. QED
    BY <1>1
<1> DEFINE After(q) == /\ prog' \in [Tasks -> Seq(Statements)]
                       /\ \A u \in Tasks : u # t => prog'[u] = prog[u]
                       /\ prog'[t] = q
<1>3. ASSUME NEW q \in Seq(Statements), Go(t, q) PROVE After(q)
  <2> HIDE DEF Statements
  <2>1. QED
    BY <1>1, <1>3 DEF Go
<1>4. Rest(Tail(prog[t]), prog[t], 1) /\ Rest(<< >>, prog[t], Len(prog[t]))
  BY <1>1, TailRest, EmptyRest
<1>5. PICK k : /\ Rest(SubSeq(prog[t], Len(SettleSteps(1, 1)) + 1, Len(prog[t])), prog[t], k)
               /\ k = 11 \/ SubSeq(prog[t], Len(SettleSteps(1, 1)) + 1, Len(prog[t])) = << >>
  <2> DEFINE n == Len(SettleSteps(1, 1))
  <2>1. n \in Nat /\ n > 0 /\ n = 11
    BY DEF SettleSteps
  <2> HIDE DEF n, Statements
  <2>2. \E k : /\ Rest(SubSeq(prog[t], n + 1, Len(prog[t])), prog[t], k)
               /\ k = n \/ SubSeq(prog[t], n + 1, Len(prog[t])) = << >>
    BY <1>1, <2>1, SubSeqRest
  <2>3. PICK k : /\ Rest(SubSeq(prog[t], n + 1, Len(prog[t])), prog[t], k)
                 /\ k = n \/ SubSeq(prog[t], n + 1, Len(prog[t])) = << >>
    BY <2>2
  <2>4. k = 11 \/ SubSeq(prog[t], n + 1, Len(prog[t])) = << >>
    BY <2>1, <2>3
  <2>5. QED
    BY <2>3, <2>4 DEF n
<1>6. \A q, k2 : Rest(q, prog[t], k2) => q \in Seq(Statements)
  BY DEF Rest
<1>7. CASE Next1(t)
  <2>1. After(Tail(prog[t]))
    BY <1>3, <1>4, <1>6, <1>7 DEF Next1
  <2>2. QED
    BY <1>1, <1>2, <1>4, <2>1
<1>8. CASE Go(t, << >>) /\ Head(prog[t]).op \in {"active", "insert", "record"}
  <2>1. After(<< >>)
    BY <1>3, <1>4, <1>6, <1>8
  <2>2. QED
    BY <1>1, <1>2, <1>4, <1>8, <2>1
<1>9. CASE BeginFails(t)
  <2>1. After(SubSeq(prog[t], Len(SettleSteps(1, 1)) + 1, Len(prog[t])))
    BY <1>3, <1>5, <1>6, <1>9 DEF BeginFails
  <2>2. Head(prog[t]).op = "begin"
    BY <1>9 DEF BeginFails, Head1
  <2>3. QED
    BY <1>1, <1>2, <1>5, <2>1, <2>2
<1>10. Next1(t) \/ (Go(t, << >>) /\ Head(prog[t]).op \in {"active", "insert", "record"}) \/ BeginFails(t)
  BY DEF TaskStep, Write, InsertFails, Commit, Active, Unlock, Publish, Begin, ReadBalance, Record, Head1,
         IndexAllows
<1>11. QED
  BY <1>7, <1>8, <1>9, <1>10

(* What a database says about leases and charges.                           *)
SameLeases(d, e) == d.state = e.state /\ d.host = e.host /\ d.charges = e.charges

(* What a task's step does to leases and charges.                           *)
Inserts(s) ==
  /\ s.op = "insert" /\ disk' = disk
  /\ view'.state = [view.state EXCEPT ![s.lease] = "active"]
  /\ view'.host = [view.host EXCEPT ![s.lease] = s.worker] /\ view'.charges = view.charges
  /\ ActiveOn(s.worker) = {}
Ends(s) ==
  /\ s.op = "end" /\ disk' = disk
  /\ view'.state = [view.state EXCEPT ![s.lease] = "completed"]
  /\ view'.host = view.host /\ view'.charges = view.charges
Charges(s) ==
  /\ s.op = "charge" /\ disk' = disk /\ view'.state = view.state /\ view'.host = view.host
  /\ view'.charges = [view.charges EXCEPT ![s.lease] = @ + 1]
Writes(s) ==
  /\ s.op \notin {"end", "charge", "commit"} /\ disk' = disk /\ SameLeases(view', view)
Commits(s) == s.op = "commit" /\ disk' = view /\ view' = view
RollsBack(s) == s.op = "begin" /\ disk' = disk /\ view' = disk

(* Every statement of a task does one of six things to the database.        *)
LEMMA TaskEffects ==
  ASSUME MarketBase, NEW t \in Tasks, TaskStep(t), NEW s, s = Head(prog[t])
  PROVE  Inserts(s) \/ Ends(s) \/ Charges(s) \/ Writes(s) \/ Commits(s) \/ RollsBack(s)
<1>1. view \in Db
  BY DEF MarketBase, MarketTypeOK
<1>2. CASE Write(t)
  <2>1. view' = Written(s, cost[t]) /\ disk' = disk
    BY <1>2 DEF Write, Head1
  <2>2. CASE s.op = "insert"
    <3>1. view' = [view EXCEPT !.state[s.lease] = "active", !.host[s.lease] = s.worker]
      BY <2>1, <2>2 DEF Written
    <3>2. ActiveOn(s.worker) = {}
      BY <1>2, <2>2 DEF Write, IndexAllows, Head1
    <3>3. QED
      BY <1>1, <2>1, <2>2, <3>1, <3>2 DEF Inserts, Db
  <2>3. CASE s.op = "end"
    <3>1. view' = [view EXCEPT !.state[s.lease] = "completed"]
      BY <2>1, <2>3 DEF Written
    <3>2. QED
      BY <1>1, <2>1, <2>3, <3>1 DEF Ends, Db
  <2>4. CASE s.op = "charge"
    <3>1. view' = [view EXCEPT !.consumer = @ - cost[t], !.charges[s.lease] = @ + 1]
      BY <2>1, <2>4 DEF Written
    <3>2. QED
      BY <1>1, <2>1, <2>4, <3>1 DEF Charges, Db
  <2>5. CASE s.op \in {"free", "leased", "pay", "fee"} \cup Logs
    <3>1. \/ view' = [view EXCEPT !.worker[s.worker] = "AVAILABLE"]
          \/ view' = [view EXCEPT !.worker[s.worker] = "LEASED"]
          \/ view' = [view EXCEPT !.provider = @ + (cost[t] * 19) \div 20]
          \/ view' = [view EXCEPT !.platform = @ + cost[t] \div 20]
          \/ view' = view
      BY <2>1, <2>5 DEF Written, Logs
    <3>2. SameLeases(view', view)
      BY <1>1, <3>1 DEF SameLeases, Db
    <3>3. QED
      BY <2>1, <2>5, <3>2 DEF Writes, Logs
  <2>6. s.op \in {"insert", "end", "free", "leased", "charge", "pay", "fee"} \cup Logs
    BY <1>2 DEF Write, Head1, Logs
  <2>7. QED
    BY <2>2, <2>3, <2>4, <2>5, <2>6
<1>3. CASE Commit(t)
  BY <1>3 DEF Commit, Commits, Head1
<1>4. CASE Active(t) \/ Unlock(t) \/ Publish(t) \/ ReadBalance(t)
  <2>1. disk' = disk /\ view' = view
    BY <1>4 DEF Active, Unlock, Publish, ReadBalance, db
  <2>2. s.op \in {"active", "unlock", "assign", "release", "balance"}
    BY <1>4 DEF Active, Unlock, Publish, ReadBalance, Head1
  <2>3. QED
    BY <2>1, <2>2 DEF Writes, SameLeases
<1>5. CASE Begin(t)
  BY <1>5 DEF Begin, Writes, SameLeases, Head1
<1>6. CASE BeginFails(t)
  BY <1>6 DEF BeginFails, RollsBack, Head1
<1>7. CASE Record(t)
  <2>1. view' = view \/ view' = [view EXCEPT !.record = @ \cup {s.lease}]
    BY <1>7 DEF Record, Head1
  <2>2. SameLeases(view', view)
    BY <1>1, <2>1 DEF SameLeases, Db
  <2>3. QED
    BY <1>7, <2>2 DEF Record, Writes, Head1
<1>8. CASE InsertFails(t)
  BY <1>8 DEF InsertFails, IndexAllows, Writes, SameLeases, Head1
<1>9. QED
  BY <1>2, <1>3, <1>4, <1>5, <1>6, <1>7, <1>8 DEF TaskStep

(* A task that rests begins the program q; one that settles, beside others  *)
(* only if that is noted.                                                   *)
Starts(t, q) ==
  /\ prog[t] = << >> /\ prog' = [prog EXCEPT ![t] = q]
  /\ UNCHANGED <<disk, view, tx, cost, due, crashes, scene>>
  /\ overlap' \in BOOLEAN /\ (overlap => overlap')
  /\ (\E i \in DOMAIN q : q[i].op \in Settling) => overlap' \/ \A u \in Settlers \ {t} : prog[u] = << >>

RentStarts(t, l, w) ==
  /\ Starts(t, RentSteps(l, w)) /\ l \in Leases /\ w \in Workers
  /\ l \notin used /\ used' = used \cup {l} /\ lock = NoTask /\ lock' = t

(* A program that settles leases which are active, or a worker's report.    *)
SettleStarts(t, q) ==
  /\ Starts(t, q) /\ Settles(q, {l \in Leases : view.state[l] = "active"}) /\ used' = used
  /\ \A i \in DOMAIN q : q[i].op \in Settling => t \in Settlers
  /\ \/ lock' = lock /\ Settles(q, due) /\ \A i \in DOMAIN q : q[i].op # "unlock"
     \/ lock = NoTask /\ lock' = t /\ \E i \in DOMAIN q : q[i].op = "unlock"

(* A program that settles some leases settles among more.                   *)
LEMMA SettlesMore ==
  ASSUME NEW q, NEW S, NEW R, Settles(q, S), S \subseteq R PROVE Settles(q, R)
BY DEF Settles

(* The steps of the server.                                                 *)
LEMMA MarketSteps ==
  ASSUME MarketBase, MarketNext
  PROVE  \/ \E t \in Tasks, l \in Leases, w \in Workers : RentStarts(t, l, w)
         \/ \E t \in Tasks : \E q : SettleStarts(t, q)
         \/ \E t \in Tasks : TaskStep(t)
         \/ \E l \in Leases : Elapse(l)
         \/ Crash
<1>1. /\ view \in Db /\ due \subseteq Leases /\ scene \in Scenes /\ overlap \in BOOLEAN
      /\ \A l \in Leases : view.host[l] \in Workers
  BY DEF MarketBase, MarketTypeOK, Db
<1>2. /\ scene.tasks \subseteq Tasks /\ scene.workers \subseteq Workers
      /\ scene.rents \cup scene.ends \cup scene.stops \subseteq Leases /\ IsFiniteSet(Leases) /\ Leases # {}
  BY <1>1, MarketplaceAssumption
<1> DEFINE Active1 == {l \in Leases : view.state[l] = "active"}
<1>3. ASSUME NEW t \in Renters \cap scene.tasks, NEW l \in scene.rents, NEW w \in scene.workers, Rent(t, l, w)
      PROVE  RentStarts(t, l, w)
  <2> DEFINE q == RentSteps(l, w)
  <2>1. l \in Leases /\ w \in Workers
    BY <1>2
  <2>2. \A i \in DOMAIN q : q[i].op \notin Settling
    BY <2>1, RentProgram
  <2>3. /\ prog[t] = << >> /\ prog' = [prog EXCEPT ![t] = q]
        /\ UNCHANGED <<disk, view, tx, cost, due, crashes, scene, overlap>>
        /\ l \notin used /\ used' = used \cup {l} /\ lock = NoTask /\ lock' = t
    BY <1>3 DEF Rent, Resting, Go, db
  <2> HIDE DEF q
  <2>4. Starts(t, q)
    BY <1>1, <2>2, <2>3 DEF Starts
  <2>5. QED
    BY <2>1, <2>3, <2>4 DEF RentStarts, q
<1>4. ASSUME NEW t \in Stoppers \cap scene.tasks, NEW l \in Leases, StopLease(t, l)
      PROVE  \E q : SettleStarts(t, q)
  <2> DEFINE q == StopLeaseSteps(l, view.host[l])
  <2>1. Settles(q, {l}) /\ \E i \in DOMAIN q : q[i].op = "unlock"
    BY <1>1, StopProgram
  <2>a. /\ prog[t] = << >> /\ prog' = [prog EXCEPT ![t] = q] /\ UNCHANGED <<disk, view, tx, cost, due, crashes, scene>>
        /\ overlap' = (overlap \/ \E u \in Settlers \ {t} : prog[u] # << >>)
        /\ used' = used /\ lock = NoTask /\ lock' = t /\ view.state[l] = "active"
    BY <1>4 DEF StopLease, Overlaps, Resting, Go, db
  <2> HIDE DEF q
  <2>2. Starts(t, q) /\ used' = used /\ lock = NoTask /\ lock' = t /\ l \in Active1
    BY <1>1, <2>a DEF Starts
  <2>3. Settles(q, Active1)
    BY <2>1, <2>2, SettlesMore
  <2>4. t \in Settlers
    BY DEF Settlers
  <2>5. SettleStarts(t, q)
    BY <2>1, <2>2, <2>3, <2>4 DEF SettleStarts
  <2>6. QED
    BY <2>5
<1>5. ASSUME NEW t \in Sweepers \cap scene.tasks, Sweep(t)
      PROVE  \E q : SettleStarts(t, q)
  <2> DEFINE S == FindExpired
             n == Cardinality(S)
             ids == SetToSeq(S)
             list == [i \in DOMAIN ids |-> [lease |-> ids[i], worker |-> view.host[ids[i]]]]
             q == SweepSteps(list)
  <2>1. S \subseteq Active1 /\ S \subseteq Leases /\ S # {}
    BY <1>1, <1>5 DEF FindExpired, Sweep
  <2>2. IsFiniteSet(S)
    BY <1>2, <2>1, FS_Subset
  <2>3. n \in Nat /\ n > 0 /\ ids \in [1..n -> S] /\ IsInjective(ids)
    BY <2>1, <2>2, SetListed
  <2>a. /\ prog[t] = << >> /\ prog' = [prog EXCEPT ![t] = q] /\ UNCHANGED <<disk, view, tx, cost, due, crashes, scene>>
        /\ overlap' = (overlap \/ \E u \in Settlers \ {t} : prog[u] # << >>)
        /\ used' = used /\ lock' = lock
    BY <1>5 DEF Sweep, Overlaps, Resting, Go, db
  <2>4. Starts(t, q) /\ used' = used /\ lock' = lock
    <3> HIDE DEF q
    <3>1. QED
      BY <1>1, <2>a DEF Starts
  <2> HIDE DEF S, n, ids
  <2>5. /\ list \in [1..n -> [lease : Leases, worker : Workers]]
        /\ \A i \in 1..n : list[i].lease = ids[i] /\ list[i].lease \in S
    BY <1>1, <2>1, <2>3
  <2>6. \A i, j \in 1..n : list[i].lease = list[j].lease => i = j
    <3> HIDE DEF list
    <3>1. QED
      BY <2>3, <2>5 DEF IsInjective
  <2> HIDE DEF list
  <2>7. Settles(q, S) /\ \A i \in DOMAIN q : q[i].op # "unlock"
    BY <2>3, <2>5, <2>6, SweepProgram
  <2> HIDE DEF q
  <2>8. Settles(q, Active1)
    BY <2>1, <2>7, SettlesMore
  <2>9. t \in Settlers
    BY DEF Settlers
  <2>10. Settles(q, due)
    <3>1. S \subseteq due
      BY DEF S, FindExpired
    <3>2. QED
      BY <2>7, <3>1, SettlesMore
  <2>11. SettleStarts(t, q)
    BY <2>4, <2>7, <2>8, <2>9, <2>10 DEF SettleStarts
  <2>12. QED
    BY <2>11
<1>6. ASSUME NEW t \in Reporters \cap scene.tasks, NEW w \in scene.workers, NEW a \in BOOLEAN, Report(t, w, a)
      PROVE  \E q : SettleStarts(t, q)
  <2> DEFINE l == CHOOSE m \in Leases : TRUE
             op == IF a THEN "free" ELSE "leased"
             q == << Do(op, l, w), Do("commit", l, w) >>
  <2>1. l \in Leases /\ op \in {"free", "leased"}
    BY <1>2
  <2>2. /\ prog[t] = << >> /\ prog' = [prog EXCEPT ![t] = q]
        /\ UNCHANGED <<disk, view, tx, cost, lock, due, used, crashes, scene, overlap>>
    BY <1>6 DEF Report, Resting, Go, db
  <2> HIDE DEF l, op
  <2>3. Settles(q, {}) /\ \A i \in DOMAIN q : q[i].op \notin Settling \cup {"unlock"}
    BY <1>2, <2>1, ReportProgram
  <2> HIDE DEF q
  <2>7. Starts(t, q)
    BY <1>1, <2>2, <2>3 DEF Starts
  <2>4. Settles(q, Active1) /\ Settles(q, due)
    BY <2>3, SettlesMore
  <2>5. SettleStarts(t, q)
    BY <2>2, <2>3, <2>4, <2>7 DEF SettleStarts
  <2>6. QED
    BY <2>5
<1>7. QED
  <2>1. CASE \E t \in Renters \cap scene.tasks, l \in scene.rents, w \in scene.workers : Rent(t, l, w)
    BY <1>2, <1>3, <2>1
  <2>2. CASE \E t \in Stoppers \cap scene.tasks, l \in scene.stops : StopLease(t, l)
    BY <1>2, <1>4, <2>2
  <2>3. CASE \E t \in Sweepers \cap scene.tasks : Sweep(t)
    BY <1>2, <1>5, <2>3
  <2>4. CASE \E t \in Reporters \cap scene.tasks, w \in scene.workers, a \in BOOLEAN : Report(t, w, a)
    BY <1>2, <1>6, <2>4
  <2>5. CASE \E l \in scene.ends : Elapse(l)
    BY <1>2, <2>5
  <2>6. QED
    BY <2>1, <2>2, <2>3, <2>4, <2>5 DEF MarketNext
-----------------------------------------------------------------------------
(* Who gives the lock back.                                                 *)
LEMMA LockSteps ==
  ASSUME MarketBase, NEW t \in Tasks, TaskStep(t), NEW s, s = Head(prog[t])
  PROVE  \/ s.op = "unlock" /\ lock' = NoTask
         \/ s.op \in {"active", "insert"} /\ lock' = NoTask /\ prog'[t] = << >>
         \/ /\ s.op # "unlock" /\ lock' = lock
            /\ s.op \in {"active", "insert"} => prog'[t] = Tail(prog[t])
<1>1. prog \in [Tasks -> Seq(Statements)]
  BY DEF MarketBase, Programs
<1>2. CASE Active(t)
  <2>1. s.op = "active"
    BY <1>2 DEF Active, Head1
  <2>2. CASE WorkerFree(s.worker)
    <3>1. Next1(t) /\ lock' = lock
      BY <1>2, <2>2 DEF Active, Head1
    <3>2. prog'[t] = Tail(prog[t])
      BY <1>1, <3>1 DEF Next1, Go
    <3>3. QED
      BY <2>1, <2>2, <3>1, <3>2
  <2>3. CASE ~WorkerFree(s.worker)
    <3>1. Go(t, << >>) /\ lock' = NoTask
      BY <1>2, <2>3 DEF Active, Head1
    <3>2. prog'[t] = << >>
      BY <1>1, <3>1 DEF Go
    <3>3. QED
      BY <2>1, <3>1, <3>2
  <2>4. QED
    BY <2>2, <2>3
<1>3. CASE Unlock(t)
  BY <1>3 DEF Unlock, Head1
<1>4. CASE Write(t) \/ Commit(t) \/ Publish(t) \/ Begin(t) \/ BeginFails(t) \/ ReadBalance(t) \/ Record(t)
  <2>1. lock' = lock
    BY <1>4 DEF Write, Commit, Publish, Begin, BeginFails, ReadBalance, Record
  <2>2. s.op \notin {"unlock", "active"} /\ (s.op = "insert" => Next1(t))
    BY <1>4 DEF Write, Commit, Publish, Begin, BeginFails, ReadBalance, Record, Head1
  <2>3. QED
    BY <1>1, <2>1, <2>2 DEF Next1, Go
<1>5. CASE InsertFails(t)
  <2>1. Go(t, << >>) /\ lock' = NoTask /\ s.op = "insert"
    BY <1>5 DEF InsertFails, IndexAllows, Head1
  <2>2. prog'[t] = << >>
    BY <1>1, <2>1 DEF Go
  <2>3. QED
    BY <2>1, <2>2
<1>6. QED
  BY <1>2, <1>3, <1>4, <1>5 DEF TaskStep

(* Programs, lock and tasks go on belonging together.                       *)
LEMMA ProgramsKept == MarketBase /\ [MarketNext]_marketVars => Programs'
<1> SUFFICES ASSUME MarketBase, [MarketNext]_marketVars PROVE Programs'
  OBVIOUS
<1>0. /\ prog \in [Tasks -> Seq(Statements)] /\ NoTask \notin Tasks
      /\ \A t \in Tasks : WellFormed(prog[t])
      /\ \A t \in Tasks : \A i \in DOMAIN prog[t] :
           /\ prog[t][i].op = "unlock" => lock = t
           /\ prog[t][i].op \in Settling => t \in Settlers
  BY MarketplaceAssumption DEF MarketBase, Programs
<1>1. ASSUME NEW t \in Tasks, NEW q, Starts(t, q), WellFormed(q),
             \A i \in DOMAIN q : q[i].op \in Settling => t \in Settlers,
             \/ lock' = lock /\ \A i \in DOMAIN q : q[i].op # "unlock"
             \/ lock = NoTask /\ lock' = t
      PROVE  Programs'
  <2>1. q \in Seq(Statements)
    BY <1>1 DEF WellFormed
  <2>2. /\ prog' \in [Tasks -> Seq(Statements)] /\ prog'[t] = q
        /\ \A u \in Tasks : u # t => prog'[u] = prog[u]
    <3> HIDE DEF Statements
    <3>1. QED
      BY <1>0, <1>1, <2>1 DEF Starts
  <2>4. ASSUME NEW u \in Tasks
        PROVE  /\ WellFormed(prog'[u])
               /\ \A i \in DOMAIN prog'[u] :
                    /\ prog'[u][i].op = "unlock" => lock' = u
                    /\ prog'[u][i].op \in Settling => u \in Settlers
    <3>1. CASE u = t
      BY <1>1, <2>2, <3>1
    <3>2. CASE u # t
      <4>1. prog'[u] = prog[u]
        BY <2>2, <3>2
      <4>2. \A i \in DOMAIN prog[u] : prog[u][i].op = "unlock" => lock' = lock
        BY <1>0, <1>1
      <4>3. QED
        BY <1>0, <4>1, <4>2
    <3>3. QED
      BY <3>1, <3>2
  <2>5. \A u \in Tasks : WellFormed(prog[u])'
    BY <2>4 DEF WellFormed, LockPaired, EndsFirst, InsertsOnce, ChargesOnce
  <2>6. QED
    BY <2>2, <2>4, <2>5 DEF Programs
<1>2. CASE \E t \in Tasks, l \in Leases, w \in Workers : RentStarts(t, l, w)
  <2>1. PICK t \in Tasks, l \in Leases, w \in Workers : RentStarts(t, l, w)
    BY <1>2
  <2>2. /\ WellFormed(RentSteps(l, w))
        /\ \A i \in DOMAIN RentSteps(l, w) : RentSteps(l, w)[i].op \notin Settling
    BY RentProgram
  <2>3. QED
    BY <1>1, <2>1, <2>2 DEF RentStarts
<1>3. CASE \E t \in Tasks : \E q : SettleStarts(t, q)
  <2>1. PICK t \in Tasks : \E q : SettleStarts(t, q)
    BY <1>3
  <2>2. PICK q : SettleStarts(t, q)
    BY <2>1
  <2>3. WellFormed(q) /\ Starts(t, q)
    BY <2>2 DEF SettleStarts, Settles
  <2>4. QED
    BY <1>1, <2>2, <2>3 DEF SettleStarts
<1>4. CASE \E t \in Tasks : TaskStep(t)
  <2>1. PICK t \in Tasks : TaskStep(t)
    BY <1>4
  <2> DEFINE s == Head(prog[t])
  <2>2. /\ prog[t] \in Seq(Statements) /\ 1 \in DOMAIN prog[t] /\ s = prog[t][1]
        /\ prog' \in [Tasks -> Seq(Statements)]
        /\ \A u \in Tasks : u # t => prog'[u] = prog[u]
    BY <2>1, TaskRests
  <2>3. PICK k : Rest(prog'[t], prog[t], k)
    BY <2>1, TaskRests
  <2>4. \A i \in DOMAIN prog'[t] : /\ i \in Nat /\ i >= 1 /\ k \in Nat /\ k >= 1 /\ i + k \in DOMAIN prog[t]
                                   /\ prog'[t][i] = prog[t][i + k]
    BY <2>2, <2>3, RestIndex
  <2>5. WellFormed(prog'[t])
    BY <1>0, <2>3, RestWellFormed
  <2>7. ASSUME lock' # lock
        PROVE  lock = t /\ \A i \in DOMAIN prog'[t] : prog'[t][i].op # "unlock"
    <3>1. \/ s.op = "unlock"
          \/ s.op \in {"active", "insert"} /\ prog'[t] = << >>
      BY <2>1, <2>7, LockSteps
    <3>2. CASE s.op = "unlock"
      <4>1. lock = t
        BY <1>0, <2>2, <3>2
      <4>2. ASSUME NEW i \in DOMAIN prog'[t] PROVE prog'[t][i].op # "unlock"
        <5>1. i + k \in DOMAIN prog[t] /\ 1 < i + k /\ prog'[t][i] = prog[t][i + k]
          BY <2>4
        <5>2. QED
          BY <1>0, <2>2, <3>2, <5>1 DEF WellFormed, LockPaired
      <4>3. QED
        BY <4>1, <4>2
    <3>3. CASE s.op \in {"active", "insert"} /\ prog'[t] = << >>
      <4>1. PICK j \in DOMAIN prog[t] : prog[t][j].op = "unlock"
        BY <1>0, <2>2, <3>3 DEF WellFormed, LockPaired
      <4>2. QED
        BY <1>0, <3>3, <4>1
    <3>4. QED
      BY <3>1, <3>2, <3>3
  <2>8. ASSUME NEW u \in Tasks
        PROVE  /\ WellFormed(prog'[u])
               /\ \A i \in DOMAIN prog'[u] :
                    /\ prog'[u][i].op = "unlock" => lock' = u
                    /\ prog'[u][i].op \in Settling => u \in Settlers
    <3>1. CASE u = t
      <4>1. \A i \in DOMAIN prog'[t] : /\ prog'[t][i].op = "unlock" => lock = t
                                       /\ prog'[t][i].op \in Settling => t \in Settlers
        BY <1>0, <2>4
      <4>2. QED
        BY <2>5, <2>7, <3>1, <4>1
    <3>2. CASE u # t
      <4>1. prog'[u] = prog[u]
        BY <2>2, <3>2
      <4>2. QED
        BY <1>0, <2>7, <3>2, <4>1
    <3>3. QED
      BY <3>1, <3>2
  <2>9. \A u \in Tasks : WellFormed(prog[u])'
    BY <2>8 DEF WellFormed, LockPaired, EndsFirst, InsertsOnce, ChargesOnce
  <2>10. QED
    BY <2>2, <2>8, <2>9 DEF Programs
<1>5. CASE Crash
  <2>1. prog' = [t \in Tasks |-> << >>] /\ scene' = scene
    BY <1>5 DEF Crash
  <2>2. \A t \in Tasks : prog'[t] = << >> /\ DOMAIN prog'[t] = {}
    BY <2>1
  <2>3. prog' \in [Tasks -> Seq(Statements)]
    BY <2>1
  <2>4. \A t \in Tasks : WellFormed(prog[t])'
    <3>1. \A t \in Tasks : WellFormed(prog'[t])
      BY <2>2, EmptyWellFormed
    <3>2. QED
      BY <3>1 DEF WellFormed, LockPaired, EndsFirst, InsertsOnce, ChargesOnce
  <2>5. QED
    BY <2>2, <2>3, <2>4 DEF Programs
<1>6. CASE (\E l \in Leases : Elapse(l)) \/ UNCHANGED marketVars
  <2>1. prog' = prog /\ lock' = lock /\ scene' = scene
    BY <1>6 DEF Elapse, marketVars
  <2>3. \A t \in Tasks : WellFormed(prog[t])'
    BY <1>0, <2>1 DEF WellFormed, LockPaired, EndsFirst, InsertsOnce, ChargesOnce
  <2>4. QED
    BY <1>0, <2>1, <2>3 DEF Programs
<1>7. QED
  BY <1>2, <1>3, <1>4, <1>5, <1>6, MarketSteps

(* Every statement leaves a database.                                       *)
LEMMA WrittenTyped ==
  ASSUME view \in Db, NEW s \in Statements, NEW c \in Int,
         s.op \in {"insert", "end", "free", "leased", "charge", "pay", "fee"} \cup Logs
  PROVE  Written(s, c) \in Db
<1>1. s.lease \in Leases /\ s.worker \in Workers
  BY DEF Statements
<1>2. /\ view.charges \in [Leases -> Nat] /\ view.consumer \in Int /\ view.provider \in Int
      /\ view.platform \in Int /\ view.worker \in [Workers -> {"AVAILABLE", "LEASED"}]
      /\ view.state \in [Leases -> {"none", "active", "completed"}] /\ view.host \in [Leases -> Workers]
  BY DEF Db
<1>3. CASE s.op = "insert"
  <2>1. Written(s, c) = [view EXCEPT !.state[s.lease] = "active", !.host[s.lease] = s.worker]
    BY <1>3 DEF Written
  <2>2. /\ [view.state EXCEPT ![s.lease] = "active"] \in [Leases -> {"none", "active", "completed"}]
        /\ [view.host EXCEPT ![s.lease] = s.worker] \in [Leases -> Workers]
    BY <1>1, <1>2
  <2>3. Written(s, c) = [view EXCEPT !.state = [view.state EXCEPT ![s.lease] = "active"],
                                     !.host = [view.host EXCEPT ![s.lease] = s.worker]]
    BY <2>1 DEF Db
  <2>4. QED
    BY <2>2, <2>3 DEF Db
<1>4. CASE s.op = "end"
  <2>1. Written(s, c) = [view EXCEPT !.state[s.lease] = "completed"]
    BY <1>4 DEF Written
  <2>2. QED
    BY <1>1, <2>1 DEF Db
<1>5. CASE s.op = "free"
  <2>1. Written(s, c) = [view EXCEPT !.worker[s.worker] = "AVAILABLE"]
    BY <1>5 DEF Written
  <2>2. QED
    BY <1>1, <2>1 DEF Db
<1>6. CASE s.op = "leased"
  <2>1. Written(s, c) = [view EXCEPT !.worker[s.worker] = "LEASED"]
    BY <1>6 DEF Written
  <2>2. QED
    BY <1>1, <2>1 DEF Db
<1>7. CASE s.op = "charge"
  <2>1. Written(s, c) = [view EXCEPT !.consumer = view.consumer - c,
                                     !.charges = [view.charges EXCEPT ![s.lease] = view.charges[s.lease] + 1]]
    BY <1>7 DEF Written
  <2>2. view.consumer - c \in Int /\ view.charges[s.lease] + 1 \in Nat
    BY <1>1, <1>2
  <2>3. [view.charges EXCEPT ![s.lease] = view.charges[s.lease] + 1] \in [Leases -> Nat]
    BY <1>2, <2>2
  <2>4. QED
    BY <2>1, <2>2, <2>3 DEF Db
<1>8. CASE s.op = "pay"
  <2>1. Written(s, c) = [view EXCEPT !.provider = view.provider + (c * 19) \div 20]
    BY <1>8 DEF Written
  <2>2. view.provider + (c * 19) \div 20 \in Int
    BY <1>2
  <2>3. QED
    BY <2>1, <2>2 DEF Db
<1>9. CASE s.op = "fee"
  <2>1. Written(s, c) = [view EXCEPT !.platform = view.platform + c \div 20]
    BY <1>9 DEF Written
  <2>2. view.platform + c \div 20 \in Int
    BY <1>2
  <2>3. QED
    BY <2>1, <2>2 DEF Db
<1>10. CASE s.op \in Logs
  BY <1>10 DEF Written, Logs
<1>11. QED
  BY <1>3, <1>4, <1>5, <1>6, <1>7, <1>8, <1>9, <1>10

(* A task's step keeps the types, and the lock's holder its way to give it  *)
(* back.                                                                    *)
LEMMA TaskTypes ==
  ASSUME MarketBase, NEW t \in Tasks, TaskStep(t)
  PROVE  MarketTypeOK' /\ cost' \in [Tasks -> Int] /\ scene' = scene
<1> DEFINE s == Head(prog[t])
<1>0. /\ disk \in Db /\ view \in Db /\ tx \in BOOLEAN /\ (~tx => view = disk)
      /\ lock \in Tasks \cup {NoTask} /\ cost \in [Tasks -> Int]
      /\ lock # NoTask => \E i \in DOMAIN prog[lock] : prog[lock][i].op = "unlock"
      /\ due \cup used \subseteq Leases /\ crashes \in 0..scene.kills /\ overlap \in BOOLEAN
      /\ WellFormed(prog[t])
  BY DEF MarketBase, MarketTypeOK, Programs
<1>1. /\ prog[t] \in Seq(Statements) /\ 1 \in DOMAIN prog[t] /\ s = prog[t][1] /\ s \in Statements
      /\ prog[t] # << >> /\ \A u \in Tasks : u # t => prog'[u] = prog[u]
  BY TaskRests
<1>2. PICK k : Rest(prog'[t], prog[t], k) /\ (s.op \notin {"active", "insert", "begin", "record"} => k = 1)
  BY TaskRests
<1>3. UNCHANGED <<due, used, crashes, scene, overlap>>
  BY DEF TaskStep, Write, InsertFails, Commit, Active, Unlock, Publish, Begin, BeginFails, ReadBalance, Record
<1>4. /\ disk' \in Db /\ view' \in Db /\ tx' \in BOOLEAN /\ (~tx' => view' = disk')
      /\ cost' \in [Tasks -> Int]
  <2>1. CASE Write(t)
    <3>1. view' = Written(s, cost[t]) /\ tx' = TRUE /\ disk' = disk /\ cost' = cost
      BY <2>1 DEF Write, Head1
    <3>2. s.op \in {"insert", "end", "free", "leased", "charge", "pay", "fee"} \cup Logs /\ cost[t] \in Int
      BY <1>0, <2>1 DEF Write, Head1, Logs
    <3>3. view' \in Db
      BY <1>0, <1>1, <3>1, <3>2, WrittenTyped
    <3>4. QED
      BY <1>0, <3>1, <3>3
  <2>2. CASE Commit(t)
    BY <1>0, <2>2 DEF Commit
  <2>3. CASE Active(t) \/ Unlock(t) \/ Publish(t)
    BY <1>0, <2>3 DEF Active, Unlock, Publish, db
  <2>4. CASE Begin(t)
    BY <1>0, <2>4 DEF Begin
  <2>5. CASE BeginFails(t)
    BY <1>0, <2>5 DEF BeginFails
  <2>6. CASE ReadBalance(t)
    <3> DEFINE c == IF view.consumer >= Cost THEN Cost ELSE IF view.consumer >= 0 THEN view.consumer ELSE 0
    <3>1. view.consumer \in Int /\ Cost \in Int
      BY <1>0, MarketplaceAssumption DEF Db
    <3>2. c \in Int
      BY <3>1
    <3>3. cost' = [cost EXCEPT ![t] = c] /\ disk' = disk /\ view' = view /\ tx' = tx
      BY <2>6 DEF ReadBalance, db
    <3> HIDE DEF c
    <3>4. QED
      BY <1>0, <3>2, <3>3
  <2>7. CASE Record(t)
    <3>1. (view' = view \/ view' = [view EXCEPT !.record = view.record \cup {s.lease}])
      BY <2>7 DEF Record, Head1
    <3>2. s.lease \in Leases
      BY <1>1 DEF Statements
    <3>3. view' \in Db
      BY <1>0, <3>1, <3>2 DEF Db
    <3>4. QED
      BY <1>0, <2>7, <3>3 DEF Record
  <2>8. CASE InsertFails(t)
    BY <1>0, <2>8 DEF InsertFails
  <2>9. QED
    BY <2>1, <2>2, <2>3, <2>4, <2>5, <2>6, <2>7, <2>8 DEF TaskStep
<1>5. ASSUME lock' # NoTask
      PROVE  lock' = lock /\ lock \in Tasks /\ \E i \in DOMAIN prog'[lock] : prog'[lock][i].op = "unlock"
  <2>1. s.op # "unlock" /\ lock' = lock /\ (s.op \in {"active", "insert"} => prog'[t] = Tail(prog[t]))
    BY <1>5, LockSteps
  <2>2. lock \in Tasks
    BY <1>0, <1>5, <2>1
  <2>3. PICK i \in DOMAIN prog[lock] : prog[lock][i].op = "unlock"
    BY <1>0, <1>5, <2>1
  <2>4. CASE lock # t
    BY <1>1, <2>1, <2>2, <2>3, <2>4
  <2>5. CASE lock = t
    <3>1. i # 1 /\ i \in DOMAIN prog[t] /\ prog[t][i].op = "unlock"
      BY <1>1, <2>1, <2>3, <2>5
    <3>2. i \in Nat /\ 1 < i
      BY <1>1, <3>1
    <3>3. s.op \notin {"begin", "record"}
      BY <1>0, <1>1, <3>1, <3>2 DEF WellFormed, LockPaired
    <3>4. Rest(prog'[t], prog[t], 1)
      <4>1. CASE s.op \in {"active", "insert"}
        BY <1>1, <2>1, <4>1, TailRest
      <4>2. CASE s.op \notin {"active", "insert"}
        BY <1>2, <3>3, <4>2
      <4>3. QED
        BY <4>1, <4>2
    <3>5. i - 1 \in DOMAIN prog'[t] /\ prog'[t][i - 1] = prog[t][i]
      BY <1>1, <3>1, <3>2, <3>4, RestIndex
    <3>6. QED
      BY <2>1, <2>2, <2>5, <3>1, <3>5
  <2>6. QED
    BY <2>4, <2>5
<1>6. lock' \in Tasks \cup {NoTask}
  BY <1>5
<1>7. QED
  BY <1>0, <1>3, <1>4, <1>5, <1>6 DEF MarketTypeOK

(* Every step keeps the types of the database, the locks and the bounds.    *)
LEMMA TypesKept ==
  MarketBase /\ [MarketNext]_marketVars => MarketTypeOK' /\ cost' \in [Tasks -> Int] /\ scene' = scene
<1> SUFFICES ASSUME MarketBase, [MarketNext]_marketVars
             PROVE  MarketTypeOK' /\ cost' \in [Tasks -> Int] /\ scene' = scene
  OBVIOUS
<1>0. /\ disk \in Db /\ view \in Db /\ tx \in BOOLEAN /\ (~tx => view = disk)
      /\ lock \in Tasks \cup {NoTask} /\ cost \in [Tasks -> Int]
      /\ lock # NoTask => \E i \in DOMAIN prog[lock] : prog[lock][i].op = "unlock"
      /\ due \cup used \subseteq Leases /\ crashes \in 0..scene.kills /\ scene.kills \in Nat
      /\ overlap \in BOOLEAN
      /\ prog \in [Tasks -> Seq(Statements)]
  BY MarketplaceAssumption DEF MarketBase, MarketTypeOK, Programs
<1>1. ASSUME NEW t \in Tasks, NEW q \in Seq(Statements), Starts(t, q), used' \subseteq Leases,
             \/ lock' = lock
             \/ lock' = t /\ \E i \in DOMAIN q : q[i].op = "unlock"
      PROVE  MarketTypeOK' /\ cost' \in [Tasks -> Int] /\ scene' = scene
  <2>1. prog[t] = << >> /\ UNCHANGED <<disk, view, tx, cost, due, crashes, scene>> /\ overlap' \in BOOLEAN
    BY <1>1 DEF Starts
  <2>2. prog'[t] = q /\ \A u \in Tasks : u # t => prog'[u] = prog[u]
    <3> HIDE DEF Statements
    <3>1. QED
      BY <1>0, <1>1 DEF Starts
  <2>3. lock' # NoTask => \E i \in DOMAIN prog'[lock'] : prog'[lock'][i].op = "unlock"
    <3>1. CASE lock' = t /\ \E i \in DOMAIN q : q[i].op = "unlock"
      BY <2>2, <3>1
    <3>2. CASE lock' = lock /\ lock # NoTask
      <4>1. lock # t
        BY <1>0, <2>1, <3>2
      <4>2. QED
        BY <1>0, <2>2, <3>2, <4>1
    <3>3. QED
      BY <1>1, <3>1, <3>2
  <2>4. QED
    BY <1>0, <1>1, <2>1, <2>3 DEF MarketTypeOK
<1>2. CASE \E t \in Tasks, l \in Leases, w \in Workers : RentStarts(t, l, w)
  <2>1. PICK t \in Tasks, l \in Leases, w \in Workers : RentStarts(t, l, w)
    BY <1>2
  <2> DEFINE q == RentSteps(l, w)
  <2>2. q \in Seq(Statements) /\ \E i \in DOMAIN q : q[i].op = "unlock"
    BY RentProgram DEF WellFormed
  <2>3. Starts(t, q) /\ used' \subseteq Leases /\ lock' = t
    BY <1>0, <2>1 DEF RentStarts
  <2> HIDE DEF q
  <2>4. QED
    BY <1>1, <2>2, <2>3
<1>3. CASE \E t \in Tasks : \E q : SettleStarts(t, q)
  <2>1. PICK t \in Tasks : \E q : SettleStarts(t, q)
    BY <1>3
  <2>2. PICK q : SettleStarts(t, q)
    BY <2>1
  <2>3. q \in Seq(Statements) /\ Starts(t, q) /\ used' \subseteq Leases
    BY <1>0, <2>2 DEF SettleStarts, Settles, WellFormed
  <2>4. QED
    BY <1>1, <2>2, <2>3 DEF SettleStarts
<1>4. CASE \E t \in Tasks : TaskStep(t)
  BY <1>4, TaskTypes
<1>5. CASE \E l \in Leases : Elapse(l)
  BY <1>0, <1>5 DEF Elapse, db, MarketTypeOK
<1>6. CASE Crash
  <2>1. crashes + 1 \in 0..scene.kills
    BY <1>0, <1>6 DEF Crash
  <2>2. /\ disk' = disk /\ view' = disk /\ tx' = FALSE /\ lock' = NoTask /\ due' = due /\ used' = used
        /\ scene' = scene /\ crashes' = crashes + 1 /\ overlap' = overlap /\ cost' = [t \in Tasks |-> 0]
    BY <1>6 DEF Crash
  <2>3. cost' \in [Tasks -> Int]
    BY <2>2
  <2>4. {disk', view'} \subseteq Db /\ tx' \in BOOLEAN /\ lock' \in Tasks \cup {NoTask}
    BY <1>0, <2>2
  <2>5. MarketTypeOK'
    BY <1>0, <2>1, <2>2, <2>4 DEF MarketTypeOK
  <2>6. QED
    BY <2>2, <2>3, <2>5
<1>7. CASE UNCHANGED marketVars
  BY <1>0, <1>7 DEF marketVars, db, MarketTypeOK
<1>8. QED
  BY <1>2, <1>3, <1>4, <1>5, <1>6, <1>7, MarketSteps

(* Every step keeps the types, the programs and the owner of the lock.      *)
LEMMA BaseKept == MarketBase /\ [MarketNext]_marketVars => MarketBase'
<1>1. MarketBase /\ [MarketNext]_marketVars => scene' \in Scenes
  BY TypesKept DEF MarketBase
<1>2. QED
  BY <1>1, TypesKept, ProgramsKept DEF MarketBase
-----------------------------------------------------------------------------
Pending(t, op, l) == \E i \in DOMAIN prog[t] : prog[t][i].op = op /\ prog[t][i].lease = l

(* A lease that is still to be inserted is in the database nowhere, has one *)
(* task to insert it and none to end it; ids are given out once.            *)
InsertsNew ==
  /\ \A l \in Leases \ used : disk.state[l] = "none" /\ view.state[l] = "none"
  /\ \A t \in Tasks, l \in Leases : Pending(t, "insert", l) =>
       l \in used /\ disk.state[l] = "none" /\ view.state[l] = "none"
  /\ \A t \in Tasks, l \in Leases : Pending(t, "end", l) =>
       l \in used /\ \A u \in Tasks : ~Pending(u, "insert", l)
  /\ \A t, u \in Tasks, l \in Leases : Pending(t, "insert", l) /\ Pending(u, "insert", l) => t = u

(* What the connection sees of a lease on disk is its worker, and its end.  *)
ViewFollows ==
  \A l \in Leases :
    /\ disk.state[l] # "none" => view.host[l] = disk.host[l]
    /\ disk.state[l] = "completed" => view.state[l] = "completed"

LeasesSound == MarketBase /\ InsertsNew /\ ViewFollows /\ OneLeasePerWorker

(* A step of a task adds nothing to what is pending, and takes away the     *)
(* insertion or the charge that it does.                                    *)
LEMMA PendingShrinks ==
  ASSUME MarketBase, NEW t \in Tasks, TaskStep(t), NEW s, s = Head(prog[t])
  PROVE  /\ \A u \in Tasks : \A op, l : Pending(u, op, l)' => Pending(u, op, l)
         /\ \A u \in Tasks : u # t => prog'[u] = prog[u]
         /\ s \in Statements /\ s.lease \in Leases /\ s.worker \in Workers /\ Pending(t, s.op, s.lease)
         /\ s.op \in {"insert", "charge"} => ~Pending(t, s.op, s.lease)'
<1>1. /\ prog[t] \in Seq(Statements) /\ 1 \in DOMAIN prog[t] /\ s = prog[t][1] /\ s \in Statements
      /\ \A u \in Tasks : u # t => prog'[u] = prog[u]
  BY TaskRests
<1>2. PICK k : Rest(prog'[t], prog[t], k)
  BY TaskRests
<1>3. \A i \in DOMAIN prog'[t] : /\ i \in Nat /\ i >= 1 /\ k \in Nat /\ k >= 1 /\ i + k \in DOMAIN prog[t]
                                 /\ prog'[t][i] = prog[t][i + k]
  BY <1>1, <1>2, RestIndex
<1>4. ASSUME NEW u \in Tasks, NEW op, NEW l, Pending(u, op, l)' PROVE Pending(u, op, l)
  <2>1. CASE u = t
    BY <1>3, <1>4, <2>1 DEF Pending
  <2>2. CASE u # t
    BY <1>1, <1>4, <2>2 DEF Pending
  <2>3. QED
    BY <2>1, <2>2
<1>5. s.lease \in Leases /\ s.worker \in Workers /\ Pending(t, s.op, s.lease)
  BY <1>1 DEF Statements, Pending
<1>6. ASSUME s.op \in {"insert", "charge"}, Pending(t, s.op, s.lease)' PROVE FALSE
  <2>1. PICK i \in DOMAIN prog'[t] : prog'[t][i].op = s.op /\ prog'[t][i].lease = s.lease
    BY <1>6 DEF Pending
  <2>2. i + k \in DOMAIN prog[t] /\ i + k # 1 /\ prog[t][i + k].op = s.op /\ prog[t][i + k].lease = s.lease
    BY <1>3, <2>1
  <2>3. InsertsOnce(prog[t]) /\ ChargesOnce(prog[t])
    BY DEF MarketBase, Programs, WellFormed
  <2>4. QED
    BY <1>1, <1>6, <2>2, <2>3 DEF InsertsOnce, ChargesOnce
<1>7. QED
  BY <1>1, <1>4, <1>5, <1>6

(* What starting a program adds.                                            *)
LEMMA PendingStarts ==
  ASSUME MarketBase, NEW t \in Tasks, NEW q, Starts(t, q)
  PROVE  /\ prog'[t] = q /\ \A u \in Tasks : u # t => prog'[u] = prog[u]
         /\ \A u \in Tasks : \A op, l : Pending(u, op, l)' =>
              Pending(u, op, l) \/ (u = t /\ \E i \in DOMAIN q : q[i].op = op /\ q[i].lease = l)
<1>1. prog'[t] = q /\ \A u \in Tasks : u # t => prog'[u] = prog[u]
  BY DEF Starts, MarketBase, Programs
<1>2. QED
  BY <1>1 DEF Pending

(* Every step keeps leases to one insertion, and the view behind the disk.  *)
LEMMA LeasesKept == LeasesSound /\ [MarketNext]_marketVars => InsertsNew' /\ ViewFollows'
<1> SUFFICES ASSUME LeasesSound, [MarketNext]_marketVars PROVE InsertsNew' /\ ViewFollows'
  OBVIOUS
<1>0. /\ MarketBase /\ ViewFollows
      /\ \A l \in Leases \ used : disk.state[l] = "none" /\ view.state[l] = "none"
      /\ \A t \in Tasks, l \in Leases : Pending(t, "insert", l) =>
           l \in used /\ disk.state[l] = "none" /\ view.state[l] = "none"
      /\ \A t \in Tasks, l \in Leases : Pending(t, "end", l) =>
           l \in used /\ \A u \in Tasks : ~Pending(u, "insert", l)
      /\ \A t, u \in Tasks, l \in Leases : Pending(t, "insert", l) /\ Pending(u, "insert", l) => t = u
  BY DEF LeasesSound, InsertsNew
<1>1. disk \in Db /\ view \in Db
  BY <1>0 DEF MarketBase, MarketTypeOK
<1>2. CASE \E t \in Tasks, l \in Leases, w \in Workers : RentStarts(t, l, w)
  <2>1. PICK t \in Tasks, l \in Leases, w \in Workers : RentStarts(t, l, w)
    BY <1>2
  <2> DEFINE q == RentSteps(l, w)
  <2>2. \A i \in DOMAIN q : q[i].op # "end" /\ (q[i].op = "insert" => q[i].lease = l)
    BY RentProgram DEF Settling
  <2>3. /\ disk' = disk /\ view' = view /\ l \notin used /\ used' = used \cup {l} /\ Starts(t, q)
    BY <2>1 DEF RentStarts, Starts
  <2> HIDE DEF q
  <2>4. /\ \A u \in Tasks : \A m : Pending(u, "insert", m)' => Pending(u, "insert", m) \/ (u = t /\ m = l)
        /\ \A u \in Tasks : \A m : Pending(u, "end", m)' => Pending(u, "end", m)
    BY <1>0, <2>2, <2>3, PendingStarts
  <2>5. \A u \in Tasks : ~Pending(u, "insert", l) /\ ~Pending(u, "end", l)
    BY <1>0, <2>3
  <2>6. InsertsNew'
    BY <1>0, <2>3, <2>4, <2>5 DEF InsertsNew
  <2>7. QED
    BY <1>0, <2>3, <2>6 DEF ViewFollows
<1>3. CASE \E t \in Tasks : \E q : SettleStarts(t, q)
  <2>1. PICK t \in Tasks : \E q : SettleStarts(t, q)
    BY <1>3
  <2>2. PICK q : SettleStarts(t, q)
    BY <2>1
  <2>3. /\ disk' = disk /\ view' = view /\ used' = used /\ Starts(t, q)
        /\ \A i \in DOMAIN q : q[i].op # "insert" /\ (q[i].op = "end" => view.state[q[i].lease] = "active")
    BY <2>2 DEF SettleStarts, Starts, Settles
  <2>4. /\ \A u \in Tasks : \A m : Pending(u, "insert", m)' => Pending(u, "insert", m)
        /\ \A u \in Tasks : \A m : Pending(u, "end", m)' => Pending(u, "end", m) \/ view.state[m] = "active"
    BY <1>0, <2>3, PendingStarts
  <2>5. InsertsNew'
    BY <1>0, <2>3, <2>4 DEF InsertsNew
  <2>6. QED
    BY <1>0, <2>3, <2>5 DEF ViewFollows
<1>4. CASE \E t \in Tasks : TaskStep(t)
  <2>1. PICK t \in Tasks : TaskStep(t)
    BY <1>4
  <2>0. PICK s : s = Head(prog[t])
    OBVIOUS
  <2> DEFINE l == s.lease
  <2>2. /\ \A u \in Tasks : \A m : Pending(u, "insert", m)' => Pending(u, "insert", m)
        /\ \A u \in Tasks : \A m : Pending(u, "end", m)' => Pending(u, "end", m)
        /\ l \in Leases /\ s.worker \in Workers /\ Pending(t, s.op, l)
        /\ s.op = "insert" => ~Pending(t, "insert", l)'
    <3>1. /\ \A u \in Tasks : \A op, m : Pending(u, op, m)' => Pending(u, op, m)
          /\ l \in Leases /\ s.worker \in Workers /\ Pending(t, s.op, l)
          /\ s.op \in {"insert", "charge"} => ~Pending(t, s.op, l)'
      BY <1>0, <2>1, <2>0, PendingShrinks
    <3> HIDE DEF l
    <3>2. s.op = "insert" => ~Pending(t, "insert", l)'
      BY <3>1
    <3>3. QED
      BY <3>1, <3>2
  <2>3. used' = used
    BY <2>1 DEF TaskStep, Write, InsertFails, Commit, Active, Unlock, Publish, Begin, BeginFails, ReadBalance, Record
  <2>4. Inserts(s) \/ Ends(s) \/ Charges(s) \/ Writes(s) \/ Commits(s) \/ RollsBack(s)
    BY <1>0, <2>1, <2>0, TaskEffects
  <2> HIDE DEF l
  <2>5. CASE Inserts(s)
    <3>1. /\ Pending(t, "insert", l) /\ l \in used /\ disk.state[l] = "none" /\ disk' = disk
          /\ \A u \in Tasks : ~Pending(u, "end", l) /\ ~Pending(u, "insert", l)'
      BY <1>0, <2>2, <2>5 DEF Inserts
    <3>2. \A m \in Leases : m # l => view'.state[m] = view.state[m] /\ view'.host[m] = view.host[m]
      BY <1>1, <2>2, <2>5 DEF Inserts, Db, l
    <3>3. InsertsNew'
      BY <1>0, <2>2, <2>3, <3>1, <3>2 DEF InsertsNew
    <3>4. ViewFollows'
      BY <1>0, <3>1, <3>2 DEF ViewFollows
    <3>5. QED
      BY <3>3, <3>4
  <2>6. CASE Ends(s)
    <3>1. l \in used /\ disk' = disk /\ \A u \in Tasks : ~Pending(u, "insert", l)
      BY <1>0, <2>2, <2>6 DEF Ends
    <3>2. /\ \A m \in Leases : m # l => view'.state[m] = view.state[m]
          /\ view'.state[l] = "completed" /\ view'.host = view.host
      BY <1>1, <2>2, <2>6 DEF Ends, Db, l
    <3>3. InsertsNew'
      BY <1>0, <2>2, <2>3, <3>1, <3>2 DEF InsertsNew
    <3>4. ViewFollows'
      BY <1>0, <3>1, <3>2 DEF ViewFollows
    <3>5. QED
      BY <3>3, <3>4
  <2>7. CASE Charges(s) \/ Writes(s)
    <3>1. disk' = disk /\ view'.state = view.state /\ view'.host = view.host
      BY <2>7 DEF Charges, Writes, SameLeases
    <3>2. InsertsNew'
      BY <1>0, <2>2, <2>3, <3>1 DEF InsertsNew
    <3>3. QED
      BY <1>0, <3>1, <3>2 DEF ViewFollows
  <2>8. CASE Commits(s)
    <3>1. disk' = view /\ view' = view
      BY <2>8 DEF Commits
    <3>2. InsertsNew'
      BY <1>0, <2>2, <2>3, <3>1 DEF InsertsNew
    <3>3. QED
      BY <3>1, <3>2 DEF ViewFollows
  <2>9. CASE RollsBack(s)
    <3>1. disk' = disk /\ view' = disk
      BY <2>9 DEF RollsBack
    <3>2. InsertsNew'
      BY <1>0, <2>2, <2>3, <3>1 DEF InsertsNew
    <3>3. QED
      BY <3>1, <3>2 DEF ViewFollows
  <2>10. QED
    BY <2>4, <2>5, <2>6, <2>7, <2>8, <2>9
<1>5. CASE Crash
  <2>1. /\ disk' = disk /\ view' = disk /\ used' = used
        /\ \A t \in Tasks : prog'[t] = << >>
    BY <1>5 DEF Crash
  <2>2. \A t \in Tasks : \A op, l : ~Pending(t, op, l)'
    BY <2>1 DEF Pending
  <2>3. InsertsNew'
    BY <1>0, <2>1, <2>2 DEF InsertsNew
  <2>4. QED
    BY <2>1, <2>3 DEF ViewFollows
<1>6. CASE (\E l \in Leases : Elapse(l)) \/ UNCHANGED marketVars
  <2>1. disk' = disk /\ view' = view /\ used' = used /\ prog' = prog
    BY <1>6 DEF Elapse, marketVars, db
  <2>2. QED
    BY <1>0, <2>1 DEF InsertsNew, ViewFollows, Pending
<1>7. QED
  BY <1>0, <1>2, <1>3, <1>4, <1>5, <1>6, MarketSteps

(* Every step keeps a worker to one active lease: the index refuses the     *)
(* insertion of a second.                                                   *)
LEMMA OneOnKept == LeasesSound /\ [MarketNext]_marketVars => OneLeasePerWorker'
<1> SUFFICES ASSUME LeasesSound, [MarketNext]_marketVars PROVE OneLeasePerWorker'
  OBVIOUS
<1>0. MarketBase /\ OneOn(view) /\ OneOn(disk) /\ view \in Db
  BY DEF LeasesSound, OneLeasePerWorker, MarketBase, MarketTypeOK
<1>1. SUFFICES OneOn(view') /\ OneOn(disk')
  BY DEF OneLeasePerWorker, OneOn
<1>2. CASE \E t \in Tasks : TaskStep(t)
  <2>1. PICK t \in Tasks : TaskStep(t)
    BY <1>2
  <2>2. PICK s : s = Head(prog[t])
    OBVIOUS
  <2>3. Inserts(s) \/ Ends(s) \/ Charges(s) \/ Writes(s) \/ Commits(s) \/ RollsBack(s)
    BY <1>0, <2>1, <2>2, TaskEffects
  <2>4. s.lease \in Leases /\ s.worker \in Workers
    BY <1>0, <2>1, <2>2, PendingShrinks
  <2>5. CASE Inserts(s)
    <3>1. \A m \in Leases : /\ m # s.lease => view'.state[m] = view.state[m] /\ view'.host[m] = view.host[m]
                            /\ view.state[m] = "active" => view.host[m] # s.worker
      BY <1>0, <2>4, <2>5 DEF Inserts, Db, ActiveOn
    <3>2. view'.host[s.lease] = s.worker /\ disk' = disk
      BY <1>0, <2>4, <2>5 DEF Inserts, Db
    <3>3. QED
      BY <1>0, <3>1, <3>2 DEF OneOn
  <2>6. CASE Ends(s)
    <3>1. /\ \A m \in Leases : view'.state[m] = "active" => view.state[m] = "active"
          /\ view'.host = view.host /\ disk' = disk
      BY <1>0, <2>4, <2>6 DEF Ends, Db
    <3>2. QED
      BY <1>0, <3>1 DEF OneOn
  <2>7. CASE Charges(s) \/ Writes(s)
    BY <1>0, <2>7 DEF Charges, Writes, SameLeases, OneOn
  <2>8. CASE Commits(s) \/ RollsBack(s)
    BY <1>0, <2>8 DEF Commits, RollsBack
  <2>9. QED
    BY <2>3, <2>5, <2>6, <2>7, <2>8
<1>3. CASE \E t \in Tasks, l \in Leases, w \in Workers : RentStarts(t, l, w)
  BY <1>0, <1>3 DEF RentStarts, Starts
<1>4. CASE \E t \in Tasks : \E q : SettleStarts(t, q)
  BY <1>0, <1>4 DEF SettleStarts, Starts
<1>5. CASE (\E l \in Leases : Elapse(l)) \/ Crash \/ UNCHANGED marketVars
  BY <1>0, <1>5 DEF Elapse, Crash, db, marketVars
<1>6. QED
  BY <1>0, <1>2, <1>3, <1>4, <1>5, MarketSteps

(* In the first state the leases of the scene are open, each on a worker of *)
(* its own, and no program runs.                                            *)
LEMMA InitSound == MarketInit => LeasesSound
<1> SUFFICES ASSUME MarketInit PROVE LeasesSound
  OBVIOUS
<1> DEFINE O == DOMAIN scene.open
           h(l) == IF l \in O THEN scene.open[l] ELSE CHOOSE w \in Workers : TRUE
<1>1. disk = [ state |-> [l \in Leases |-> IF l \in O THEN "active" ELSE "none"], host |-> [l \in Leases |-> h(l)],
               worker |-> [w \in Workers |-> "AVAILABLE"],
               consumer |-> Balance, provider |-> 0, platform |-> 0,
               charges |-> [l \in Leases |-> 0], record |-> {} ]
  BY DEF MarketInit
<1>2. /\ view = disk /\ tx = FALSE /\ lock = NoTask /\ due = {} /\ used = O /\ crashes = 0
      /\ scene \in Scenes /\ prog = [t \in Tasks |-> << >>] /\ cost = [t \in Tasks |-> 0] /\ overlap = FALSE
  BY DEF MarketInit
<1>3. /\ Balance \in Int /\ scene.kills \in Nat
      /\ O \subseteq Leases /\ scene.open \in [O -> Workers] /\ IsInjective(scene.open)
  BY <1>2, MarketplaceAssumption
<1>a. \A l \in Leases : h(l) \in Workers
  BY <1>3, MarketplaceAssumption
<1> HIDE DEF h
<1>4. disk \in Db
  <2>1. /\ [l \in Leases |-> IF l \in O THEN "active" ELSE "none"] \in [Leases -> {"none", "active", "completed"}]
        /\ [l \in Leases |-> h(l)] \in [Leases -> Workers]
        /\ [w \in Workers |-> "AVAILABLE"] \in [Workers -> {"AVAILABLE", "LEASED"}]
        /\ [l \in Leases |-> 0] \in [Leases -> Nat]
    BY <1>a
  <2>2. QED
    BY <1>1, <1>3, <2>1 DEF Db
<1>5. \A t \in Tasks : prog[t] = << >> /\ DOMAIN prog[t] = {}
  BY <1>2
<1>6. Programs
  <2>1. prog \in [Tasks -> Seq(Statements)]
    BY <1>2
  <2>2. \A t \in Tasks : WellFormed(prog[t])
    BY <1>5, EmptyWellFormed
  <2>3. QED
    BY <1>5, <2>1, <2>2 DEF Programs
<1>7. MarketTypeOK
  <2>1. crashes \in 0..scene.kills
    BY <1>2, <1>3
  <2>2. {disk, view} \subseteq Db /\ tx \in BOOLEAN /\ lock \in Tasks \cup {NoTask} /\ due \cup used \subseteq Leases
    BY <1>2, <1>3, <1>4
  <2>3. QED
    BY <1>2, <2>1, <2>2 DEF MarketTypeOK
<1>8. MarketBase
  BY <1>2, <1>6, <1>7 DEF MarketBase
<1>9. \A l \in Leases : /\ disk.state[l] = IF l \in O THEN "active" ELSE "none"
                        /\ l \in O => disk.host[l] = scene.open[l]
  BY <1>1 DEF h
<1>10. InsertsNew /\ ViewFollows
  <2>1. \A t \in Tasks : \A op, l : ~Pending(t, op, l)
    BY <1>5 DEF Pending
  <2>2. QED
    BY <1>2, <1>9, <2>1 DEF InsertsNew, ViewFollows
<1>11. OneLeasePerWorker
  <2>1. \A l, m \in O : scene.open[l] = scene.open[m] => l = m
    BY <1>3 DEF IsInjective
  <2>2. QED
    BY <1>2, <1>9, <2>1 DEF OneLeasePerWorker, OneOn
<1>12. QED
  BY <1>8, <1>10, <1>11 DEF LeasesSound

(* The part of the invariant that holds with any number of settling tasks.  *)
LEMMA LeasesSoundHolds == MarketSpec => []LeasesSound
<1>1. LeasesSound /\ [MarketNext]_marketVars => LeasesSound'
  BY BaseKept, LeasesKept, OneOnKept DEF LeasesSound
<1>2. QED
  BY <1>1, InitSound, PTL DEF MarketSpec

(* The disk changes by a commit only.                                       *)
LEMMA DiskSteps == ASSUME MarketBase, [MarketNext]_marketVars PROVE disk' = disk \/ disk' = view
<1>1. CASE \E t \in Tasks : TaskStep(t)
  <2>1. PICK t \in Tasks : TaskStep(t)
    BY <1>1
  <2> DEFINE s == Head(prog[t])
  <2>2. Inserts(s) \/ Ends(s) \/ Charges(s) \/ Writes(s) \/ Commits(s) \/ RollsBack(s)
    BY <2>1, TaskEffects
  <2> HIDE DEF s
  <2>3. QED
    BY <2>2 DEF Inserts, Ends, Charges, Writes, Commits, RollsBack
<1>2. CASE \E t \in Tasks, l \in Leases, w \in Workers : RentStarts(t, l, w)
  BY <1>2 DEF RentStarts, Starts
<1>3. CASE \E t \in Tasks : \E q : SettleStarts(t, q)
  BY <1>3 DEF SettleStarts, Starts
<1>4. CASE (\E l \in Leases : Elapse(l)) \/ Crash \/ UNCHANGED marketVars
  BY <1>4 DEF Elapse, Crash, db, marketVars
<1>5. QED
  BY <1>1, <1>2, <1>3, <1>4, MarketSteps

(* A lease whose end is committed stays ended and keeps its worker, for any *)
(* number of tasks that rent, stop, sweep and report over the one           *)
(* connection, whoever commits and whoever rolls back what another wrote.   *)
THEOREM EndIsFinal == MarketSpec => EndedStays
<1> DEFINE A == \A l \in Leases : disk.state[l] = "completed" =>
                  disk'.state[l] = "completed" /\ disk'.host[l] = disk.host[l]
<1>1. LeasesSound /\ [MarketNext]_marketVars => [A]_marketVars
  <2> SUFFICES ASSUME LeasesSound, MarketNext PROVE A
    OBVIOUS
  <2>1. MarketBase /\ ViewFollows
    BY DEF LeasesSound
  <2>2. disk' = disk \/ disk' = view
    BY <2>1, DiskSteps
  <2>3. QED
    BY <2>1, <2>2 DEF ViewFollows
<1>2. QED
  BY <1>1, LeasesSoundHolds, PTL DEF MarketSpec, EndedStays
-----------------------------------------------------------------------------
(* Settlements that do not overlap.                                         *)

AtCommit(t) == 1 \in DOMAIN prog[t] /\ prog[t][1].op = "commit"

(* A lease that is active on disk and not for the connection has ended, and *)
(* the task that ended it is about to commit that.                          *)
EndsCommitted ==
  \A l \in Leases : disk.state[l] = "active" /\ view.state[l] # "active" =>
    view.state[l] = "completed" /\ \E t \in Settlers : AtCommit(t)

(* A lease is charged at most once, and only when its end is on disk.       *)
ChargedEnded ==
  \A l \in Leases :
    /\ view.charges[l] =< 1 /\ disk.charges[l] =< 1
    /\ view.charges[l] > 0 \/ disk.charges[l] > 0 => disk.state[l] = "completed"

(* A lease that is still to be charged has not been, and its end is on      *)
(* disk, still to come, or about to be committed.                           *)
EndBefore(p, i, l) == \E j \in DOMAIN p : j < i /\ p[j].op = "end" /\ p[j].lease = l
StillOwed(t, i, l) ==
  /\ view.charges[l] = 0 /\ disk.charges[l] = 0
  /\ \/ disk.state[l] = "completed"
     \/ EndBefore(prog[t], i, l)
     \/ view.state[l] = "completed" /\ AtCommit(t)
ChargesOwed ==
  \A t \in Tasks : \A i \in DOMAIN prog[t] :
    prog[t][i].op = "charge" => StillOwed(t, i, prog[t][i].lease)

SettledOnce == EndsCommitted /\ ChargedEnded /\ ChargesOwed

(* Until settlements overlap, one task at most has any left to do.          *)
Busy(t) == \E i \in DOMAIN prog[t] : prog[t][i].op \in Settling
Alone == \A t, u \in Tasks : Busy(t) /\ Busy(u) => t = u

MarketInductive == LeasesSound /\ (~overlap => Alone /\ SettledOnce)

(* An overlap stays noted.                                                  *)
LEMMA OverlapStays == ASSUME MarketBase, [MarketNext]_marketVars, overlap PROVE overlap'
<1>1. CASE \E t \in Tasks : TaskStep(t)
  BY <1>1 DEF TaskStep, Write, InsertFails, Commit, Active, Unlock, Publish, Begin, BeginFails, ReadBalance, Record
<1>2. CASE \E t \in Tasks, l \in Leases, w \in Workers : RentStarts(t, l, w)
  BY <1>2 DEF RentStarts, Starts
<1>3. CASE \E t \in Tasks : \E q : SettleStarts(t, q)
  BY <1>3 DEF SettleStarts, Starts
<1>4. CASE (\E l \in Leases : Elapse(l)) \/ Crash \/ UNCHANGED marketVars
  BY <1>4 DEF Elapse, Crash, db, marketVars
<1>5. QED
  BY <1>1, <1>2, <1>3, <1>4, MarketSteps

(* A settlement that begins beside another is noted.                        *)
LEMMA AloneKept == ASSUME MarketBase, Alone, [MarketNext]_marketVars, ~overlap' PROVE Alone'
<1>0. /\ prog \in [Tasks -> Seq(Statements)]
      /\ \A t \in Tasks : Busy(t) => t \in Settlers /\ prog[t] # << >>
  BY DEF MarketBase, Programs, Busy
<1>1. ASSUME NEW t \in Tasks, \A u \in Tasks : u # t => prog'[u] = prog[u], Busy(t)' => Busy(t) PROVE Alone'
  BY <1>1 DEF Alone, Busy
<1>2. ASSUME NEW t \in Tasks, NEW q, Starts(t, q) PROVE Alone'
  <2>1. prog'[t] = q /\ \A u \in Tasks : u # t => prog'[u] = prog[u]
    BY <1>2, PendingStarts
  <2>2. CASE \E i \in DOMAIN q : q[i].op \in Settling
    <3>1. \A u \in Settlers \ {t} : prog[u] = << >>
      BY <1>2, <2>2 DEF Starts
    <3>2. \A u \in Tasks : u # t => ~Busy(u)
      BY <1>0, <3>1
    <3>3. \A u \in Tasks : u # t => ~Busy(u)'
      BY <2>1, <3>2 DEF Busy
    <3>4. QED
      BY <3>3 DEF Alone
  <2>3. CASE ~(\E i \in DOMAIN q : q[i].op \in Settling)
    <3>1. ~Busy(t)'
      BY <2>1, <2>3 DEF Busy
    <3>2. QED
      BY <1>1, <2>1, <3>1
  <2>4. QED
    BY <2>2, <2>3
<1>3. CASE \E t \in Tasks : TaskStep(t)
  <2>1. PICK t \in Tasks : TaskStep(t)
    BY <1>3
  <2>2. prog[t] \in Seq(Statements) /\ \A u \in Tasks : u # t => prog'[u] = prog[u]
    BY <2>1, TaskRests
  <2>3. PICK k : Rest(prog'[t], prog[t], k)
    BY <2>1, TaskRests
  <2>4. \A i \in DOMAIN prog'[t] : i + k \in DOMAIN prog[t] /\ prog'[t][i] = prog[t][i + k]
    BY <2>2, <2>3, RestIndex
  <2>5. Busy(t)' => Busy(t)
    BY <2>4 DEF Busy
  <2>6. QED
    BY <1>1, <2>2, <2>5
<1>4. CASE \E t \in Tasks, l \in Leases, w \in Workers : RentStarts(t, l, w)
  BY <1>2, <1>4 DEF RentStarts
<1>5. CASE \E t \in Tasks : \E q : SettleStarts(t, q)
  BY <1>2, <1>5 DEF SettleStarts
<1>6. CASE Crash
  <2>1. \A t \in Tasks : prog'[t] = << >> /\ DOMAIN prog'[t] = {}
    BY <1>6 DEF Crash
  <2>2. QED
    BY <2>1 DEF Alone, Busy
<1>7. CASE (\E l \in Leases : Elapse(l)) \/ UNCHANGED marketVars
  BY <1>7 DEF Elapse, marketVars, Alone, Busy
<1>8. QED
  BY <1>3, <1>4, <1>5, <1>6, <1>7, MarketSteps

(* The facts about a task's next statement that the proofs below share.     *)
LEMMA TaskFacts ==
  ASSUME MarketInductive, ~overlap, NEW t \in Tasks, TaskStep(t), NEW s, s = Head(prog[t])
  PROVE  /\ MarketBase /\ InsertsNew /\ ViewFollows /\ SettledOnce
         /\ disk \in Db /\ view \in Db /\ Alone
         /\ Inserts(s) \/ Ends(s) \/ Charges(s) \/ Writes(s) \/ Commits(s) \/ RollsBack(s)
         /\ 1 \in DOMAIN prog[t] /\ s = prog[t][1] /\ s.lease \in Leases /\ s.worker \in Workers
         /\ \A u \in Tasks : u # t => prog'[u] = prog[u]
         /\ s.op \in Settling => t \in Settlers
<1>1. MarketBase /\ InsertsNew /\ ViewFollows /\ SettledOnce
  BY DEF MarketInductive, LeasesSound
<1>2. disk \in Db /\ view \in Db
  BY <1>1 DEF MarketBase, MarketTypeOK
<1>3. Alone
  BY DEF MarketInductive
<1>4. Inserts(s) \/ Ends(s) \/ Charges(s) \/ Writes(s) \/ Commits(s) \/ RollsBack(s)
  BY <1>1, TaskEffects
<1>5. /\ 1 \in DOMAIN prog[t] /\ s = prog[t][1] /\ s \in Statements
      /\ \A u \in Tasks : u # t => prog'[u] = prog[u]
  BY <1>1, TaskRests
<1>6. s.lease \in Leases /\ s.worker \in Workers
  BY <1>5 DEF Statements
<1>7. s.op \in Settling => t \in Settlers
  BY <1>1, <1>5 DEF MarketBase, Programs
<1>8. QED
  BY <1>1, <1>2, <1>3, <1>4, <1>5, <1>6, <1>7

(* A statement leaves ends committed before they are charged.               *)
LEMMA TaskEndsCommitted ==
  ASSUME MarketInductive, ~overlap, NEW t \in Tasks, TaskStep(t) PROVE EndsCommitted'
<1>1. PICK s : s = Head(prog[t])
  OBVIOUS
<1>2. /\ MarketBase /\ InsertsNew /\ ViewFollows /\ SettledOnce
      /\ disk \in Db /\ view \in Db /\ Alone
      /\ Inserts(s) \/ Ends(s) \/ Charges(s) \/ Writes(s) \/ Commits(s) \/ RollsBack(s)
      /\ 1 \in DOMAIN prog[t] /\ s = prog[t][1] /\ s.lease \in Leases /\ s.worker \in Workers
      /\ \A u \in Tasks : u # t => prog'[u] = prog[u]
      /\ s.op \in Settling => t \in Settlers
  BY <1>1, TaskFacts
<1>3. SUFFICES ASSUME NEW l \in Leases, disk'.state[l] = "active", view'.state[l] # "active"
               PROVE  view'.state[l] = "completed" /\ \E u \in Settlers : AtCommit(u)'
  BY <1>2 DEF EndsCommitted
<1>4. Settlers \subseteq Tasks
  BY DEF Settlers, Tasks
<1>5. ASSUME s.op # "commit", disk' = disk, view'.state[l] = view.state[l]
      PROVE  view'.state[l] = "completed" /\ \E u \in Settlers : AtCommit(u)'
  <2>1. view.state[l] = "completed" /\ \E u \in Settlers : AtCommit(u)
    BY <1>2, <1>3, <1>5 DEF SettledOnce, EndsCommitted
  <2>2. PICK u \in Settlers : AtCommit(u)
    BY <2>1
  <2>3. u # t /\ u \in Tasks
    BY <1>2, <1>4, <1>5, <2>2 DEF AtCommit
  <2>4. AtCommit(u)'
    BY <1>2, <2>2, <2>3 DEF AtCommit
  <2>5. QED
    BY <1>5, <2>1, <2>4
<1>6. CASE Inserts(s)
  <2>1. disk.state[s.lease] = "none"
    BY <1>2, <1>6 DEF Inserts, InsertsNew, Pending
  <2>2. disk' = disk /\ s.op # "commit" /\ l # s.lease
    BY <1>3, <1>6, <2>1 DEF Inserts
  <2>3. view'.state[l] = view.state[l]
    BY <1>2, <1>6, <2>2 DEF Inserts, Db
  <2>4. QED
    BY <1>5, <2>2, <2>3
<1>7. CASE Ends(s)
  <2>1. CASE l = s.lease
    <3>1. view'.state[l] = "completed"
      BY <1>2, <1>7, <2>1 DEF Ends, Db
    <3>2. t \in Settlers
      BY <1>2, <1>7 DEF Ends, Settling
    <3>3. AtCommit(t)'
      <4>1. 1 + 1 \in DOMAIN prog[t] /\ prog[t][1 + 1].op = "commit"
        BY <1>2, <1>7 DEF Ends, MarketBase, Programs, WellFormed, EndsFirst
      <4>2. Rest(prog'[t], prog[t], 1) /\ prog[t] \in Seq(Statements)
        BY <1>1, <1>2, <1>7, TaskRests DEF Ends
      <4>3. 1 + 1 > 1 /\ (1 + 1) - 1 = 1
        OBVIOUS
      <4>4. 1 \in DOMAIN prog'[t] /\ prog'[t][1] = prog[t][1 + 1]
        BY <4>1, <4>2, <4>3, RestIndex, SMTT(30)
      <4>5. QED
        BY <4>1, <4>4 DEF AtCommit
    <3>4. QED
      BY <3>1, <3>2, <3>3
  <2>2. CASE l # s.lease
    <3>1. disk' = disk /\ s.op # "commit" /\ view'.state[l] = view.state[l]
      BY <1>2, <1>7, <2>2 DEF Ends, Db
    <3>2. QED
      BY <1>5, <3>1
  <2>3. QED
    BY <2>1, <2>2
<1>8. CASE Charges(s) \/ Writes(s)
  BY <1>5, <1>8 DEF Charges, Writes, SameLeases
<1>9. CASE Commits(s) \/ RollsBack(s)
  BY <1>3, <1>9 DEF Commits, RollsBack
<1>10. QED
  BY <1>2, <1>6, <1>7, <1>8, <1>9

(* A statement charges leases only that have ended on disk.                 *)
LEMMA TaskCharged ==
  ASSUME MarketInductive, ~overlap, NEW t \in Tasks, TaskStep(t) PROVE ChargedEnded'
<1>1. PICK s : s = Head(prog[t])
  OBVIOUS
<1>2. /\ MarketBase /\ InsertsNew /\ ViewFollows /\ SettledOnce
      /\ disk \in Db /\ view \in Db /\ Alone
      /\ Inserts(s) \/ Ends(s) \/ Charges(s) \/ Writes(s) \/ Commits(s) \/ RollsBack(s)
      /\ 1 \in DOMAIN prog[t] /\ s = prog[t][1] /\ s.lease \in Leases /\ s.worker \in Workers
      /\ \A u \in Tasks : u # t => prog'[u] = prog[u]
      /\ s.op \in Settling => t \in Settlers
  BY <1>1, TaskFacts
<1>3. ChargedEnded /\ ChargesOwed
  BY <1>2 DEF SettledOnce
<1>4. CASE Charges(s)
  <2>1. StillOwed(t, 1, s.lease)
    BY <1>2, <1>3, <1>4 DEF ChargesOwed, Charges
  <2>2. ~AtCommit(t)
    BY <1>2, <1>4 DEF AtCommit, Charges
  <2>3. ~EndBefore(prog[t], 1, s.lease)
    <3>1. \A j \in DOMAIN prog[t] : ~(j < 1)
      BY <1>2 DEF MarketBase, Programs
    <3>2. QED
      BY <3>1 DEF EndBefore
  <2>4. disk.state[s.lease] = "completed" /\ view.charges[s.lease] = 0 /\ disk.charges[s.lease] = 0
    BY <2>1, <2>2, <2>3 DEF StillOwed
  <2>5. /\ disk' = disk /\ view'.charges[s.lease] = view.charges[s.lease] + 1
        /\ \A m \in Leases : m # s.lease => view'.charges[m] = view.charges[m]
    BY <1>2, <1>4 DEF Charges, Db
  <2>6. view'.charges[s.lease] = 1
    BY <2>4, <2>5
  <2>7. QED
    BY <1>3, <2>4, <2>5, <2>6 DEF ChargedEnded
<1>5. CASE Inserts(s) \/ Ends(s) \/ Writes(s)
  <2>1. disk' = disk /\ view'.charges = view.charges
    BY <1>5 DEF Inserts, Ends, Writes, SameLeases
  <2>2. QED
    BY <1>3, <2>1 DEF ChargedEnded
<1>6. CASE Commits(s)
  <2>1. disk' = view /\ view' = view
    BY <1>6 DEF Commits
  <2>2. QED
    BY <1>2, <1>3, <2>1 DEF ChargedEnded, ViewFollows
<1>7. CASE RollsBack(s)
  BY <1>3, <1>7 DEF RollsBack, ChargedEnded
<1>8. QED
  BY <1>2, <1>4, <1>5, <1>6, <1>7

(* What another task owes is untouched by the steps of t, which settles     *)
(* nothing then.                                                            *)
LEMMA OthersOwed ==
  ASSUME MarketInductive, ~overlap, NEW t \in Tasks, TaskStep(t), NEW u \in Tasks, u # t,
         NEW i \in DOMAIN prog[u], prog[u][i].op = "charge", NEW l, l = prog[u][i].lease
  PROVE  StillOwed(u, i, l)'
<1>1. PICK s : s = Head(prog[t])
  OBVIOUS
<1>2. /\ MarketBase /\ InsertsNew /\ ViewFollows /\ SettledOnce
      /\ disk \in Db /\ view \in Db /\ Alone
      /\ Inserts(s) \/ Ends(s) \/ Charges(s) \/ Writes(s) \/ Commits(s) \/ RollsBack(s)
      /\ 1 \in DOMAIN prog[t] /\ s = prog[t][1] /\ s.lease \in Leases /\ s.worker \in Workers
      /\ \A v \in Tasks : v # t => prog'[v] = prog[v]
      /\ s.op \in Settling => t \in Settlers
  BY <1>1, TaskFacts
<1>3. StillOwed(u, i, l) /\ l \in Leases
  <2>1. StillOwed(u, i, l)
    BY <1>2 DEF SettledOnce, ChargesOwed
  <2>2. prog[u][i] \in Statements
    BY <1>2 DEF MarketBase, Programs
  <2>3. QED
    BY <2>1, <2>2 DEF Statements
<1>4. Busy(u)
  BY DEF Busy, Settling
<1>5. s.op \notin Settling /\ prog'[u] = prog[u]
  <2>1. s.op \in Settling => Busy(t)
    BY <1>2 DEF Busy
  <2>2. QED
    BY <1>2, <1>4, <2>1 DEF Alone
<1>6. (AtCommit(u) <=> AtCommit(u)') /\ (EndBefore(prog[u], i, l) <=> EndBefore(prog'[u], i, l))
  BY <1>5 DEF AtCommit
<1>7. CASE Inserts(s)
  <2>1. view.state[s.lease] = "none"
    BY <1>2, <1>7 DEF InsertsNew, Inserts, Pending
  <2>2. disk' = disk /\ view'.charges = view.charges /\ (view.state[l] = "completed" => view'.state[l] = "completed")
    BY <1>2, <1>3, <1>7, <2>1 DEF Inserts, Db
  <2>3. QED
    BY <1>3, <1>6, <2>2 DEF StillOwed, EndBefore
<1>8. CASE Writes(s)
  <2>1. disk' = disk /\ view'.charges = view.charges /\ view'.state = view.state
    BY <1>8 DEF Writes, SameLeases
  <2>2. QED
    BY <1>3, <1>6, <2>1 DEF StillOwed, EndBefore
<1>9. CASE Commits(s)
  <2>1. disk' = view /\ view' = view /\ (disk.state[l] = "completed" => view.state[l] = "completed")
    BY <1>2, <1>3, <1>9 DEF Commits, ViewFollows
  <2>2. QED
    BY <1>3, <1>6, <2>1 DEF StillOwed, EndBefore
<1>10. ~(Ends(s) \/ Charges(s) \/ RollsBack(s))
  BY <1>5 DEF Ends, Charges, RollsBack, Settling
<1>11. QED
  BY <1>2, <1>7, <1>8, <1>9, <1>10

(* What t itself still owes after a step.                                   *)
LEMMA OwnOwed ==
  ASSUME MarketInductive, ~overlap, NEW t \in Tasks, TaskStep(t),
         NEW i \in DOMAIN prog'[t], prog'[t][i].op = "charge", NEW l, l = prog'[t][i].lease
  PROVE  StillOwed(t, i, l)'
<1>1. PICK s : s = Head(prog[t])
  OBVIOUS
<1>2. /\ MarketBase /\ InsertsNew /\ ViewFollows /\ SettledOnce
      /\ disk \in Db /\ view \in Db /\ Alone
      /\ Inserts(s) \/ Ends(s) \/ Charges(s) \/ Writes(s) \/ Commits(s) \/ RollsBack(s)
      /\ 1 \in DOMAIN prog[t] /\ s = prog[t][1] /\ s.lease \in Leases /\ s.worker \in Workers
      /\ \A u \in Tasks : u # t => prog'[u] = prog[u]
      /\ s.op \in Settling => t \in Settlers
  BY <1>1, TaskFacts
<1>3. WellFormed(prog[t]) /\ prog[t] \in Seq(Statements) /\ DOMAIN prog[t] = 1..Len(prog[t]) /\ Len(prog[t]) \in Nat
  BY <1>2 DEF MarketBase, Programs
<1>4. PICK k : /\ Rest(prog'[t], prog[t], k)
               /\ s.op \notin {"active", "insert", "begin", "record"} => k = 1
               /\ s.op \in {"active", "insert"} => k = 1 \/ prog'[t] = << >>
  BY <1>1, <1>2, TaskRests
<1>5. /\ k \in Nat /\ k >= 1 /\ i \in Nat /\ i >= 1 /\ i + k \in DOMAIN prog[t] /\ prog'[t][i] = prog[t][i + k]
      /\ \A j \in DOMAIN prog[t] : j > k => j - k \in DOMAIN prog'[t] /\ prog'[t][j - k] = prog[t][j]
  BY <1>3, <1>4, RestIndex, SMTT(30)
<1>6. StillOwed(t, i + k, l) /\ l \in Leases
  <2>1. StillOwed(t, i + k, l)
    BY <1>2, <1>5 DEF SettledOnce, ChargesOwed
  <2>2. prog[t][i + k] \in Statements
    BY <1>3, <1>5
  <2>3. QED
    BY <1>5, <2>1, <2>2 DEF Statements
<1>7. s.op \notin {"begin", "record"} => k = 1
  <2>1. prog'[t] # << >>
    OBVIOUS
  <2>2. QED
    BY <1>4, <2>1
<1>8. ASSUME EndBefore(prog[t], i + k, l), s.op # "end" \/ s.lease # l
      PROVE  EndBefore(prog'[t], i, l) /\ s.op \notin {"begin", "record"}
  <2>1. PICK j \in DOMAIN prog[t] : j < i + k /\ prog[t][j].op = "end" /\ prog[t][j].lease = l
    BY <1>8 DEF EndBefore
  <2>2. j # 1 /\ j \in Nat /\ 1 < j
    BY <1>2, <1>3, <1>8, <2>1
  <2>3. s.op \notin {"begin", "record"}
    BY <1>2, <1>3, <2>1, <2>2 DEF WellFormed, EndsFirst
  <2>4. k = 1
    BY <1>7, <2>3
  <2>5. j - k \in DOMAIN prog'[t] /\ prog'[t][j - k] = prog[t][j] /\ j - k < i
    BY <1>5, <2>1, <2>2, <2>4
  <2>6. QED
    BY <2>1, <2>3, <2>5 DEF EndBefore
<1>9. s.op # "commit" => ~AtCommit(t)
  BY <1>2 DEF AtCommit
<1>10. view'.charges[l] = 0 /\ disk'.charges[l] = 0
  <2>1. view.charges[l] = 0 /\ disk.charges[l] = 0
    BY <1>6 DEF StillOwed
  <2>2. CASE Charges(s)
    <3>1. s.op = "charge" /\ disk' = disk
      BY <2>2 DEF Charges
    <3>2. s.lease # l
      <4>1. i + k # 1
        BY <1>5
      <4>2. QED
        BY <1>2, <1>3, <1>5, <3>1, <4>1 DEF WellFormed, ChargesOnce
    <3>3. view'.charges[l] = view.charges[l]
      BY <1>2, <1>6, <2>2, <3>2 DEF Charges, Db
    <3>4. QED
      BY <2>1, <3>1, <3>3
  <2>3. CASE ~Charges(s)
    BY <1>2, <2>1, <2>3 DEF Inserts, Ends, Writes, Commits, RollsBack, SameLeases
  <2>4. QED
    BY <2>2, <2>3
<1>11. \/ disk'.state[l] = "completed"
       \/ EndBefore(prog'[t], i, l)
       \/ view'.state[l] = "completed" /\ AtCommit(t)'
  <2>1. \/ disk.state[l] = "completed"
        \/ EndBefore(prog[t], i + k, l)
        \/ view.state[l] = "completed" /\ AtCommit(t)
    BY <1>6 DEF StillOwed
  <2>2. CASE disk.state[l] = "completed"
    <3>1. disk' = disk \/ disk' = view
      BY <1>2 DEF Inserts, Ends, Charges, Writes, Commits, RollsBack
    <3>2. QED
      BY <1>2, <1>6, <2>2, <3>1 DEF ViewFollows
  <2>3. CASE EndBefore(prog[t], i + k, l) /\ (s.op # "end" \/ s.lease # l)
    BY <1>8, <2>3
  <2>4. CASE s.op = "end" /\ s.lease = l
    <3>1. Ends(s)
      BY <1>2, <2>4 DEF Inserts, Charges, Writes, Commits, RollsBack
    <3>2. view'.state[l] = "completed"
      BY <1>2, <2>4, <3>1 DEF Ends, Db
    <3>3. 1 + 1 \in DOMAIN prog[t] /\ prog[t][1 + 1].op = "commit" /\ 1 + 1 > 1 /\ (1 + 1) - 1 = 1
      BY <1>2, <1>3, <2>4 DEF WellFormed, EndsFirst
    <3>4. k = 1
      BY <1>7, <2>4
    <3>5. 1 \in DOMAIN prog'[t] /\ prog'[t][1] = prog[t][1 + 1]
      BY <1>5, <3>3, <3>4
    <3>6. QED
      BY <3>2, <3>3, <3>5 DEF AtCommit
  <2>5. CASE view.state[l] = "completed" /\ AtCommit(t)
    <3>1. s.op = "commit"
      BY <1>9, <2>5
    <3>2. Commits(s)
      BY <1>2, <3>1 DEF Inserts, Ends, Charges, Writes, RollsBack
    <3>3. QED
      BY <2>5, <3>2 DEF Commits
  <2>6. QED
    BY <2>1, <2>2, <2>3, <2>4, <2>5
<1>12. QED
  BY <1>10, <1>11 DEF StillOwed, EndBefore

(* A statement leaves every charge that is still to come owed.              *)
LEMMA TaskOwed ==
  ASSUME MarketInductive, ~overlap, NEW t \in Tasks, TaskStep(t) PROVE ChargesOwed'
<1> SUFFICES ASSUME NEW u \in Tasks, NEW i \in DOMAIN prog'[u], prog'[u][i].op = "charge",
                    NEW l, l = prog'[u][i].lease
             PROVE  StillOwed(u, i, l)'
  BY DEF ChargesOwed, StillOwed, EndBefore, AtCommit
<1>1. CASE u = t
  BY <1>1, OwnOwed
<1>2. CASE u # t
  <2>1. prog'[u] = prog[u]
    BY <1>2, TaskRests DEF MarketInductive, LeasesSound
  <2>2. QED
    BY <1>2, <2>1, OthersOwed
<1>3. QED
  BY <1>1, <1>2

(* A program that starts settles leases which are active, so not charged.   *)
LEMMA StartSettled ==
  ASSUME MarketInductive, ~overlap, NEW t \in Tasks, NEW q, Starts(t, q),
         \A i \in DOMAIN q : q[i].op = "charge" =>
           /\ q[i].lease \in Leases /\ view.state[q[i].lease] = "active"
           /\ EndBefore(q, i, q[i].lease)
  PROVE  SettledOnce'
<1>1. /\ MarketBase /\ EndsCommitted /\ ChargedEnded /\ ChargesOwed
      /\ ViewFollows /\ view \in Db /\ disk \in Db
  BY DEF MarketInductive, LeasesSound, SettledOnce, MarketBase, MarketTypeOK
<1>2. /\ prog'[t] = q /\ \A u \in Tasks : u # t => prog'[u] = prog[u]
  BY <1>1, PendingStarts
<1>3. disk' = disk /\ view' = view /\ prog[t] = << >>
  BY DEF Starts
<1>4. Settlers \subseteq Tasks
  BY DEF Settlers, Tasks
<1>5. EndsCommitted'
  <2>1. \A u \in Settlers : AtCommit(u) => u # t /\ AtCommit(u)'
    BY <1>2, <1>3, <1>4 DEF AtCommit
  <2>2. QED
    BY <1>1, <1>3, <2>1 DEF EndsCommitted
<1>6. ChargedEnded'
  BY <1>1, <1>3 DEF ChargedEnded
<1>8. ChargesOwed'
  <2> SUFFICES ASSUME NEW u \in Tasks, NEW i \in DOMAIN prog'[u], prog'[u][i].op = "charge",
                      NEW l, l = prog'[u][i].lease
               PROVE  StillOwed(u, i, l)'
    BY DEF ChargesOwed, StillOwed, EndBefore, AtCommit
  <2>1. CASE u = t
    <3>1. l \in Leases /\ view.state[l] = "active" /\ EndBefore(prog'[t], i, l)
      BY <1>2, <2>1
    <3>2. disk.state[l] # "completed"
      BY <1>1, <3>1 DEF ViewFollows
    <3>3. view.charges[l] \in Nat /\ disk.charges[l] \in Nat
      BY <1>1, <3>1 DEF Db
    <3>4. view.charges[l] = 0 /\ disk.charges[l] = 0
      BY <1>1, <3>1, <3>2, <3>3 DEF ChargedEnded
    <3>5. QED
      BY <1>3, <2>1, <3>1, <3>4 DEF StillOwed, EndBefore
  <2>2. CASE u # t
    <3>1. prog'[u] = prog[u]
      BY <1>2, <2>2
    <3>2. StillOwed(u, i, l)
      BY <1>1, <3>1 DEF ChargesOwed
    <3>3. QED
      BY <1>3, <3>1, <3>2 DEF StillOwed, EndBefore, AtCommit
  <2>3. QED
    BY <2>1, <2>2
<1>9. QED
  BY <1>5, <1>6, <1>8 DEF SettledOnce

(* Every step keeps the part of the invariant about settlements that do not *)
(* overlap.                                                                 *)
LEMMA SettledKept == MarketInductive /\ ~overlap /\ [MarketNext]_marketVars => SettledOnce'
<1> SUFFICES ASSUME MarketInductive, ~overlap, [MarketNext]_marketVars PROVE SettledOnce'
  OBVIOUS
<1>1. MarketBase /\ SettledOnce
  BY DEF MarketInductive, LeasesSound
<1>2. CASE \E t \in Tasks, l \in Leases, w \in Workers : RentStarts(t, l, w)
  <2>1. PICK t \in Tasks, l \in Leases, w \in Workers : RentStarts(t, l, w)
    BY <1>2
  <2> DEFINE q == RentSteps(l, w)
  <2>2. /\ \A i \in DOMAIN q : q[i].op \notin Settling
        /\ q # << >> /\ Head(q).op = "active" /\ q \in Seq(Statements)
    BY RentProgram DEF WellFormed
  <2>3. Starts(t, q)
    BY <2>1 DEF RentStarts
  <2> HIDE DEF q
  <2>4. \A i \in DOMAIN q : q[i].op # "charge"
    BY <2>2 DEF Settling
  <2>5. QED
    BY <2>3, <2>4, StartSettled
<1>3. CASE \E t \in Tasks : \E q : SettleStarts(t, q)
  <2>1. PICK t \in Tasks : \E q : SettleStarts(t, q)
    BY <1>3
  <2>2. PICK q : SettleStarts(t, q)
    BY <2>1
  <2>3. Starts(t, q) /\ Settles(q, {l \in Leases : view.state[l] = "active"})
    BY <2>2 DEF SettleStarts
  <2>5. \A i \in DOMAIN q : q[i].op = "charge" =>
          /\ q[i].lease \in Leases /\ view.state[q[i].lease] = "active"
          /\ EndBefore(q, i, q[i].lease)
    BY <2>3 DEF Settles, EndBefore
  <2>6. QED
    BY <2>3, <2>5, StartSettled
<1>4. CASE \E t \in Tasks : TaskStep(t)
  BY <1>4, TaskEndsCommitted, TaskCharged, TaskOwed DEF SettledOnce
<1>5. CASE Crash
  <2>1. disk' = disk /\ view' = disk /\ \A t \in Tasks : prog'[t] = << >> /\ DOMAIN prog'[t] = {}
    BY <1>5 DEF Crash
  <2>2. EndsCommitted' /\ ChargesOwed'
    BY <1>1, <2>1 DEF SettledOnce, EndsCommitted, ChargesOwed
  <2>3. ChargedEnded'
    BY <1>1, <2>1 DEF SettledOnce, ChargedEnded
  <2>4. QED
    BY <2>2, <2>3 DEF SettledOnce
<1>6. CASE (\E l \in Leases : Elapse(l)) \/ UNCHANGED marketVars
  <2>1. disk' = disk /\ view' = view /\ prog' = prog /\ scene' = scene
    BY <1>6 DEF Elapse, marketVars, db
  <2>2. QED
    BY <1>1, <2>1 DEF SettledOnce, EndsCommitted, ChargedEnded, ChargesOwed, StillOwed, EndBefore,
                      AtCommit
<1>7. QED
  BY <1>1, <1>2, <1>3, <1>4, <1>5, <1>6, MarketSteps

-----------------------------------------------------------------------------
(* The money of settlements that do not overlap.                            *)

AtOp(t, op) == 1 \in DOMAIN prog[t] /\ prog[t][1].op = op
Closing(t) == AtOp(t, "commit") /\ 2 \in DOMAIN prog[t] /\ prog[t][2].op = "record"
Logging(t) == AtOp(t, "log_charge") \/ AtOp(t, "log_payout") \/ AtOp(t, "log_fee")
Open(t) == AtOp(t, "pay") \/ AtOp(t, "fee") \/ Logging(t) \/ Closing(t)

(* What t has charged and not yet paid out.                                 *)
Owed(t) == IF AtOp(t, "pay") THEN cost[t] ELSE IF AtOp(t, "fee") THEN cost[t] \div 20 ELSE 0

(* Amounts of which the payout and the fee are whole.                       *)
Coin(x) == \E n \in Nat : x = 20 * n

(* The consumer has whole coins, and can pay what is about to be charged.   *)
Coins == Coin(view.consumer) /\ Coin(disk.consumer)
CostsCut ==
  /\ \A t \in Tasks : AtOp(t, "charge") \/ AtOp(t, "pay") \/ AtOp(t, "fee") => Coin(cost[t]) /\ cost[t] =< Cost
  /\ \A t \in Tasks : AtOp(t, "charge") => cost[t] =< view.consumer

(* What the connection lacks is what earlier kills lost and what the open   *)
(* settlement owes; the disk lacks that loss, and may lack a part more.     *)
OpenBooks ==
  \A t \in Tasks : Open(t) =>
    /\ Missing(view) - Owed(t) >= 0 /\ Missing(view) - Owed(t) =< crashes * Cost
    /\ Missing(disk) >= Missing(view) - Owed(t) /\ Missing(disk) =< Missing(view) - Owed(t) + Cost
ClosedBooks ==
  (\A t \in Tasks : ~Open(t)) =>
    Missing(view) = Missing(disk) /\ Missing(disk) >= 0 /\ Missing(disk) =< crashes * Cost

Ledger == Coins /\ CostsCut /\ OpenBooks /\ ClosedBooks

(* The payout and the fee make up the cost.                                 *)
LEMMA CoinShares ==
  ASSUME NEW c, Coin(c)
  PROVE  /\ c \in Nat /\ (c * 19) \div 20 \in Nat /\ c \div 20 \in Nat
         /\ (c * 19) \div 20 + c \div 20 = c /\ c \div 20 =< c
<1>1. PICK n \in Nat : c = 20 * n
  BY DEF Coin
<1>2. c * 19 = 20 * (19 * n)
  BY <1>1
<1>3. (20 * (19 * n)) \div 20 = 19 * n /\ (20 * n) \div 20 = n
  OBVIOUS
<1>4. (c * 19) \div 20 = 19 * n /\ c \div 20 = n
  BY <1>1, <1>2, <1>3
<1>5. QED
  BY <1>1, <1>4

(* MidSettlement, in the terms of the proofs.                               *)
LEMMA MidIsOpen == ASSUME MarketBase, NEW t \in Tasks PROVE MidSettlement(t) <=> Open(t)
<1>1. prog[t] \in Seq(Statements)
  BY DEF MarketBase, Programs
<1>2. /\ Len(prog[t]) \in Nat /\ DOMAIN prog[t] = 1..Len(prog[t])
      /\ prog[t] # << >> <=> 1 \in DOMAIN prog[t]
      /\ prog[t] # << >> => Head(prog[t]) = prog[t][1]
  <2> HIDE DEF Statements
  <2>1. QED
    BY <1>1
<1>3. Len(prog[t]) > 1 <=> 2 \in DOMAIN prog[t]
  BY <1>2
<1>4. QED
  BY <1>2, <1>3 DEF MidSettlement, Open, Logging, Closing, AtOp, Resting, Head1

(* A task that is about to do a statement of a settlement has some left.    *)
LEMMA OpenSettles ==
  ASSUME NEW t \in Tasks
  PROVE  /\ Open(t) => Busy(t)
         /\ \A op \in Settling : AtOp(t, op) => Busy(t)
<1>1. /\ "pay" \in Settling /\ "fee" \in Settling /\ "record" \in Settling
      /\ "log_charge" \in Settling /\ "log_payout" \in Settling /\ "log_fee" \in Settling
  BY DEF Settling, Logs
<1>2. QED
  BY <1>1 DEF Open, Logging, Closing, AtOp, Busy

(* What comes next in a settlement, and what came before.                   *)
LEMMA StepHeads ==
  ASSUME MarketBase, NEW t \in Tasks, TaskStep(t)
  PROVE  /\ AtOp(t, "charge")' => AtOp(t, "balance")
         /\ AtOp(t, "pay")' <=> AtOp(t, "charge")
         /\ AtOp(t, "fee")' <=> AtOp(t, "pay")
         /\ AtOp(t, "log_charge")' <=> AtOp(t, "fee")
         /\ AtOp(t, "log_payout")' <=> AtOp(t, "log_charge")
         /\ AtOp(t, "log_fee")' <=> AtOp(t, "log_payout")
         /\ Closing(t)' <=> AtOp(t, "log_fee")
<1> DEFINE p == prog[t]
           q == prog'[t]
<1>1. PICK k : /\ Rest(q, p, k) /\ p \in Seq(Statements) /\ 1 \in DOMAIN p /\ Head(p) = p[1]
               /\ k = 1 \/ (k = 11 /\ p[1].op = "begin") \/ q = << >>
               /\ p[1].op \notin {"active", "insert", "begin", "record"} => k = 1
  BY TaskRests
<1>2. /\ k \in Nat /\ DOMAIN q = 1..Len(q) /\ DOMAIN p = 1..Len(p)
      /\ \A i \in DOMAIN q : i \in Nat /\ i + k \in DOMAIN p /\ q[i] = p[i + k]
      /\ \A j \in DOMAIN p : j > k => j - k \in DOMAIN q /\ q[j - k] = p[j]
  BY <1>1, RestIndex
<1>3. InOrder(p) /\ GoesOn(p)
  BY DEF MarketBase, Programs, WellFormed, InOrder
<1> HIDE DEF p, q
<1>4. CASE k = 1
  <2>1. /\ \A i \in DOMAIN q : i + 1 \in DOMAIN p /\ q[i] = p[i + 1]
        /\ 2 \in DOMAIN p => 1 \in DOMAIN q /\ q[1] = p[2]
        /\ 3 \in DOMAIN p => 2 \in DOMAIN q /\ q[2] = p[3]
    BY <1>2, <1>4
  <2>2. /\ 1 \in DOMAIN q => 2 \in DOMAIN p /\ q[1] = p[2]
        /\ 2 \in DOMAIN q => 3 \in DOMAIN p /\ q[2] = p[3]
    BY <2>1
  <2>3. 2 \in DOMAIN p => /\ p[2].op = "charge" => p[1].op = "balance"
                          /\ p[2].op = "pay" => p[1].op = "charge"
                          /\ p[2].op = "fee" => p[1].op = "pay"
                          /\ p[2].op = "log_charge" => p[1].op = "fee"
                          /\ p[2].op = "log_payout" => p[1].op = "log_charge"
                          /\ p[2].op = "log_fee" => p[1].op = "log_payout"
    <3>1. ASSUME NEW x, NEW y, Since(p, x, 1, y), 2 \in DOMAIN p, p[2].op = x PROVE p[1].op = y
      <4>1. 2 > 1 /\ 2 - 1 = 1
        OBVIOUS
      <4>2. QED
        BY <3>1, <4>1 DEF Since
    <3>2. QED
      BY <1>3, <3>1 DEF InOrder
  <2>4. 3 \in DOMAIN p /\ p[3].op = "record" => p[1].op = "log_fee"
    <3>1. 3 > 2 /\ 3 - 2 = 1
      OBVIOUS
    <3>2. QED
      BY <1>3, <3>1 DEF InOrder, Since
  <2>5. /\ p[1].op = "charge" => 2 \in DOMAIN p /\ p[2].op = "pay"
        /\ p[1].op = "pay" => 2 \in DOMAIN p /\ p[2].op = "fee"
        /\ p[1].op = "fee" => 2 \in DOMAIN p /\ p[2].op = "log_charge"
        /\ p[1].op = "log_charge" => 2 \in DOMAIN p /\ p[2].op = "log_payout"
        /\ p[1].op = "log_payout" => 2 \in DOMAIN p /\ p[2].op = "log_fee"
        /\ p[1].op = "log_fee" => 2 \in DOMAIN p /\ p[2].op = "commit" /\ 3 \in DOMAIN p /\ p[3].op = "record"
    <3>1. 1 + 1 = 2 /\ 1 + 2 = 3
      OBVIOUS
    <3>2. ASSUME NEW x, NEW y, At(p, x, 1, y), p[1].op = x PROVE 2 \in DOMAIN p /\ p[2].op = y
      BY <1>1, <3>1, <3>2 DEF At
    <3>3. ASSUME NEW x, NEW y, At(p, x, 2, y), p[1].op = x PROVE 3 \in DOMAIN p /\ p[3].op = y
      BY <1>1, <3>1, <3>3 DEF At
    <3>4. QED
      BY <1>3, <3>2, <3>3 DEF GoesOn
  <2>6. QED
    BY <1>1, <2>1, <2>2, <2>3, <2>4, <2>5 DEF AtOp, Closing, p, q
<1>5. CASE k = 11 /\ p[1].op = "begin"
  <2>1. 11 \in DOMAIN p /\ p[11].op = "commit"
    <3>1. 1 + 10 = 11
      OBVIOUS
    <3>2. QED
      BY <1>1, <1>3, <1>5, <3>1 DEF GoesOn, At
  <2>2. /\ 1 \in DOMAIN q => 12 \in DOMAIN p /\ q[1] = p[12]
        /\ 2 \in DOMAIN q => 13 \in DOMAIN p /\ q[2] = p[13]
    BY <1>2, <1>5
  <2>3. 12 \in DOMAIN p => p[12].op \notin {"charge", "pay", "fee", "log_charge", "log_payout", "log_fee"}
    <3>1. 12 > 1 /\ 12 - 1 = 11
      OBVIOUS
    <3>2. QED
      BY <1>3, <2>1, <3>1 DEF InOrder, Since
  <2>4. 13 \in DOMAIN p => p[13].op # "record"
    <3>1. 13 > 2 /\ 13 - 2 = 11
      OBVIOUS
    <3>2. QED
      BY <1>3, <2>1, <3>1 DEF InOrder, Since
  <2>5. QED
    BY <1>5, <2>2, <2>3, <2>4 DEF AtOp, Closing, p, q
<1>6. CASE k # 1 /\ q = << >>
  <2>1. p[1].op \in {"active", "insert", "begin", "record"} /\ DOMAIN q = {}
    BY <1>1, <1>6
  <2>2. QED
    BY <2>1 DEF AtOp, Closing, p, q
<1>7. QED
  BY <1>1, <1>4, <1>5, <1>6

(* What a task's step does to the balances.                                 *)
SameMoney(d, e) == d.consumer = e.consumer /\ d.provider = e.provider /\ d.platform = e.platform
Takes(s, c) ==
  /\ s.op = "charge" /\ disk' = disk /\ cost' = cost /\ view'.consumer = view.consumer - c
  /\ view'.provider = view.provider /\ view'.platform = view.platform
Pays(s, c) ==
  /\ s.op = "pay" /\ disk' = disk /\ cost' = cost /\ view'.consumer = view.consumer
  /\ view'.provider = view.provider + (c * 19) \div 20 /\ view'.platform = view.platform
KeepsFee(s, c) ==
  /\ s.op = "fee" /\ disk' = disk /\ cost' = cost /\ view'.consumer = view.consumer
  /\ view'.provider = view.provider /\ view'.platform = view.platform + c \div 20
Saves(s) == s.op = "commit" /\ disk' = view /\ view' = view /\ cost' = cost
Begins(s) == s.op = "begin" /\ disk' = disk /\ cost' = cost /\ (view' = view \/ view' = disk)
Looks(s, t) ==
  /\ s.op = "balance" /\ disk' = disk /\ view' = view
  /\ cost' = [cost EXCEPT ![t] = IF view.consumer >= Cost THEN Cost
                                  ELSE IF view.consumer >= 0 THEN view.consumer ELSE 0]
Spares(s) ==
  /\ s.op \notin {"balance", "charge", "pay", "fee", "commit", "begin"}
  /\ disk' = disk /\ SameMoney(view', view) /\ cost' = cost

(* Every statement of a task does one of seven things to the balances.      *)
LEMMA MoneyEffects ==
  ASSUME MarketBase, NEW t \in Tasks, TaskStep(t), NEW s, s = Head(prog[t]), NEW c, c = cost[t]
  PROVE  /\ Takes(s, c) \/ Pays(s, c) \/ KeepsFee(s, c) \/ Saves(s) \/ Begins(s) \/ Looks(s, t) \/ Spares(s)
         /\ crashes' = crashes /\ scene' = scene
<1>1. view \in Db
  BY DEF MarketBase, MarketTypeOK
<1>2. crashes' = crashes /\ scene' = scene
  BY DEF TaskStep, Write, InsertFails, Commit, Active, Unlock, Publish, Begin, BeginFails, ReadBalance, Record
<1>3. CASE Write(t)
  <2>1. view' = Written(s, c) /\ disk' = disk /\ cost' = cost
    BY <1>3 DEF Write, Head1
  <2>2. CASE s.op = "charge"
    <3>1. view' = [view EXCEPT !.consumer = @ - c, !.charges[s.lease] = @ + 1]
      BY <2>1, <2>2 DEF Written
    <3>2. QED
      BY <1>1, <1>2, <2>1, <2>2, <3>1 DEF Takes, Db
  <2>3. CASE s.op = "pay"
    <3>1. view' = [view EXCEPT !.provider = @ + (c * 19) \div 20]
      BY <2>1, <2>3 DEF Written
    <3>2. QED
      BY <1>1, <1>2, <2>1, <2>3, <3>1 DEF Pays, Db
  <2>4. CASE s.op = "fee"
    <3>1. view' = [view EXCEPT !.platform = @ + c \div 20]
      BY <2>1, <2>4 DEF Written
    <3>2. QED
      BY <1>1, <1>2, <2>1, <2>4, <3>1 DEF KeepsFee, Db
  <2>5. CASE s.op \in {"insert", "end", "free", "leased"} \cup Logs
    <3>1. \/ view' = view
          \/ view' = [view EXCEPT !.state[s.lease] = "active", !.host[s.lease] = s.worker]
          \/ view' = [view EXCEPT !.state[s.lease] = "completed"]
          \/ view' = [view EXCEPT !.worker[s.worker] = "AVAILABLE"]
          \/ view' = [view EXCEPT !.worker[s.worker] = "LEASED"]
      BY <2>1, <2>5 DEF Written, Logs
    <3>2. SameMoney(view', view)
      BY <1>1, <3>1 DEF SameMoney, Db
    <3>3. QED
      BY <1>2, <2>1, <2>5, <3>2 DEF Spares, Logs
  <2>6. s.op \in {"insert", "end", "free", "leased", "charge", "pay", "fee"} \cup Logs
    BY <1>3 DEF Write, Head1, Logs
  <2>7. QED
    BY <1>2, <2>2, <2>3, <2>4, <2>5, <2>6
<1>4. CASE Commit(t)
  BY <1>2, <1>4 DEF Commit, Saves, Head1
<1>5. CASE Active(t) \/ Unlock(t) \/ Publish(t)
  <2>1. disk' = disk /\ view' = view /\ cost' = cost
    BY <1>5 DEF Active, Unlock, Publish, db
  <2>2. s.op \in {"active", "unlock", "assign", "release"}
    BY <1>5 DEF Active, Unlock, Publish, Head1
  <2>3. QED
    BY <1>2, <2>1, <2>2 DEF Spares, SameMoney
<1>6. CASE Begin(t)
  BY <1>2, <1>6 DEF Begin, Begins, Head1
<1>7. CASE BeginFails(t)
  BY <1>2, <1>7 DEF BeginFails, Begins, Head1
<1>8. CASE ReadBalance(t)
  BY <1>2, <1>8 DEF ReadBalance, Looks, Head1, db
<1>9. CASE Record(t)
  <2>1. view' = view \/ view' = [view EXCEPT !.record = @ \cup {s.lease}]
    BY <1>9 DEF Record, Head1
  <2>2. SameMoney(view', view)
    BY <1>1, <2>1 DEF SameMoney, Db
  <2>3. s.op = "record" /\ disk' = disk /\ cost' = cost
    BY <1>9 DEF Record, Head1
  <2>4. QED
    BY <1>2, <2>2, <2>3 DEF Spares
<1>10. CASE InsertFails(t)
  <2>1. disk' = disk /\ view' = view /\ cost' = cost /\ s.op = "insert"
    BY <1>10 DEF InsertFails, IndexAllows, Head1
  <2>2. QED
    BY <1>2, <2>1 DEF Spares, SameMoney
<1>11. QED
  BY <1>3, <1>4, <1>5, <1>6, <1>7, <1>8, <1>9, <1>10 DEF TaskStep

(* A task's step keeps the ledger.                                          *)
LEMMA LedgerTask == ASSUME MarketBase, Alone, Ledger, NEW t \in Tasks, TaskStep(t) PROVE Ledger'
<1> DEFINE s == Head(prog[t])
           c == cost[t]
<1>1. /\ Takes(s, c) \/ Pays(s, c) \/ KeepsFee(s, c) \/ Saves(s) \/ Begins(s) \/ Looks(s, t) \/ Spares(s)
      /\ crashes' = crashes /\ scene' = scene
  BY MoneyEffects
<1>2. \A op : AtOp(t, op) <=> s.op = op
  <2>1. 1 \in DOMAIN prog[t] /\ s = prog[t][1]
    BY TaskRests
  <2> HIDE DEF s
  <2>2. QED
    BY <2>1 DEF AtOp
<1>3. \A u \in Tasks : u # t => prog'[u] = prog[u]
  BY TaskRests
<1>4. /\ AtOp(t, "charge")' => AtOp(t, "balance")
      /\ AtOp(t, "pay")' <=> AtOp(t, "charge")
      /\ AtOp(t, "fee")' <=> AtOp(t, "pay")
      /\ AtOp(t, "log_charge")' <=> AtOp(t, "fee")
      /\ AtOp(t, "log_payout")' <=> AtOp(t, "log_charge")
      /\ AtOp(t, "log_fee")' <=> AtOp(t, "log_payout")
      /\ Closing(t)' <=> AtOp(t, "log_fee")
  BY StepHeads
<1>5. /\ Cost \in Nat /\ Coin(Cost) /\ c \in Int
      /\ view.consumer \in Int /\ view.provider \in Int /\ view.platform \in Int
      /\ disk.consumer \in Int /\ disk.provider \in Int /\ disk.platform \in Int
      /\ Missing(view) \in Int /\ Missing(disk) \in Int
  <2>1. Cost \in Nat /\ Balance \in Nat /\ Coin(Cost)
    BY MarketplaceAssumption DEF Coin
  <2>2. /\ c \in Int /\ view \in Db /\ disk \in Db
    BY DEF MarketBase, MarketTypeOK
  <2>3. QED
    BY <2>1, <2>2 DEF Db, Missing
<1>6. PICK m \in Nat : m = crashes * Cost /\ (crashes * Cost)' = m
  <2>1. crashes \in Nat
    BY MarketplaceAssumption DEF MarketBase, MarketTypeOK
  <2>2. QED
    BY <1>1, <1>5, <2>1
<1> HIDE DEF s, c
<1>7. ASSUME NEW u \in Tasks, u # t
      PROVE  /\ \A op : AtOp(u, op)' <=> AtOp(u, op)
             /\ Open(u)' <=> Open(u)
             /\ cost'[u] = cost[u] /\ (Owed(u))' = Owed(u)
  <2>1. prog'[u] = prog[u]
    BY <1>3, <1>7
  <2>2. cost'[u] = cost[u]
    <3>1. cost \in [Tasks -> Int]
      BY DEF MarketBase
    <3>2. QED
      BY <1>1, <1>7, <3>1 DEF Takes, Pays, KeepsFee, Saves, Begins, Looks, Spares
  <2>3. QED
    BY <2>1, <2>2 DEF Open, Logging, Closing, AtOp, Owed
<1>8. ASSUME s.op \in Settling, NEW u \in Tasks, u # t
      PROVE  ~Open(u) /\ \A op \in Settling : ~AtOp(u, op)
  <2>1. Busy(t)
    BY <1>2, <1>8, OpenSettles
  <2>2. ~Busy(u)
    BY <1>8, <2>1 DEF Alone
  <2>3. QED
    BY <2>2, OpenSettles
<1>9. /\ "charge" \in Settling /\ "pay" \in Settling /\ "fee" \in Settling /\ "begin" \in Settling
      /\ "balance" \in Settling /\ Logs \subseteq Settling
  BY DEF Settling
<1>10. Open(t) => s.op \in {"pay", "fee", "commit"} \cup Logs
  BY <1>2 DEF Open, Logging, Closing, Logs
<1>11. Open(t)' => s.op \in {"charge", "pay", "fee"} \cup Logs
  BY <1>2, <1>4 DEF Open, Logging, Logs
<1>12. Coins /\ CostsCut /\ OpenBooks /\ ClosedBooks
  BY DEF Ledger
<1>13. ASSUME s.op \in Settling, s.op \notin {"pay", "fee"} \cup Logs
       PROVE  Missing(view) = Missing(disk) /\ Missing(disk) >= 0 /\ Missing(disk) =< m
  <2>1. \A u \in Tasks : ~Open(u)
    <3>1. "commit" \notin Settling
      BY DEF Settling, Logs
    <3>2. QED
      BY <1>8, <1>10, <1>13, <3>1
  <2>2. QED
    BY <1>6, <1>12, <2>1 DEF ClosedBooks
<1>14. ASSUME s.op \notin {"charge", "pay", "fee"} \cup Logs PROVE ~Open(t)'
  BY <1>11, <1>14
<1>15. CASE Takes(s, c)
  <2>1. s.op = "charge" /\ s.op \in Settling /\ AtOp(t, "charge") /\ AtOp(t, "pay")' /\ Open(t)'
    BY <1>2, <1>4, <1>9, <1>15 DEF Takes, Open
  <2>2. /\ Coin(c) /\ c \in Nat /\ c =< Cost /\ c =< view.consumer /\ cost'[t] = c
    <3>1. cost' = cost
      BY <1>15 DEF Takes
    <3>2. Coin(c) /\ c =< Cost /\ c =< view.consumer
      BY <1>12, <2>1 DEF CostsCut, c
    <3>3. QED
      BY <3>1, <3>2, CoinShares DEF c
  <2>3. (Missing(view))' = Missing(view) + c /\ (Missing(disk))' = Missing(disk)
    <3>1. Balance \in Nat
      BY MarketplaceAssumption
    <3>2. QED
      BY <1>5, <1>15, <3>1 DEF Takes, Missing
  <2>4. Coins'
    <3>1. disk' = disk /\ view'.consumer = view.consumer - c
      BY <1>15 DEF Takes
    <3>2. ASSUME NEW x, NEW y, Coin(x), Coin(y), y =< x PROVE Coin(x - y)
      <4>1. PICK i \in Nat : x = 20 * i
        BY <3>2 DEF Coin
      <4>2. PICK j \in Nat : y = 20 * j
        BY <3>2 DEF Coin
      <4>3. i - j \in Nat /\ x - y = 20 * (i - j)
        BY <3>2, <4>1, <4>2
      <4>4. QED
        BY <4>3 DEF Coin
    <3>3. Coin(view.consumer - c)
      BY <1>12, <2>2, <3>2 DEF Coins
    <3>4. QED
      BY <1>12, <3>1, <3>3 DEF Coins, Coin
  <2>5. CostsCut'
    <3>1. \A u \in Tasks : u # t => ~AtOp(u, "charge")' /\ ~AtOp(u, "pay")' /\ ~AtOp(u, "fee")'
      BY <1>7, <1>8, <1>9, <2>1
    <3>2. ~AtOp(t, "charge")'
      BY <2>1 DEF AtOp
    <3>3. QED
      BY <2>2, <3>1, <3>2 DEF CostsCut, Coin
  <2>6. OpenBooks' /\ ClosedBooks'
    <3>1. \A u \in Tasks : u # t => ~Open(u)'
      BY <1>7, <1>8, <2>1
    <3>2. (Owed(t))' = c
      BY <2>1, <2>2 DEF Owed
    <3>3. Missing(view) = Missing(disk) /\ Missing(disk) >= 0 /\ Missing(disk) =< m
      BY <1>13, <2>1 DEF Logs
    <3>4. QED
      BY <1>5, <1>6, <2>1, <2>2, <2>3, <3>1, <3>2, <3>3 DEF OpenBooks, ClosedBooks
  <2>7. QED
    BY <2>4, <2>5, <2>6 DEF Ledger
<1>16. CASE Pays(s, c) \/ KeepsFee(s, c)
  <2>1. s.op \in {"pay", "fee"} /\ s.op \in Settling /\ Open(t) /\ Open(t)' /\ disk' = disk /\ cost' = cost
    BY <1>2, <1>4, <1>9, <1>16 DEF Pays, KeepsFee, Open, Logging
  <2>2. /\ Coin(c) /\ c =< Cost /\ cost'[t] = c
        /\ c \in Nat /\ (c * 19) \div 20 \in Nat /\ c \div 20 \in Nat
        /\ (c * 19) \div 20 + c \div 20 = c /\ c \div 20 =< c
    <3>1. AtOp(t, "pay") \/ AtOp(t, "fee")
      BY <1>2, <2>1
    <3>2. Coin(c) /\ c =< Cost
      BY <1>12, <3>1 DEF CostsCut, c
    <3>3. QED
      BY <2>1, <3>2, CoinShares DEF c
  <2>3. Coins'
    BY <1>12, <1>16 DEF Coins, Coin, Pays, KeepsFee
  <2>4. CostsCut'
    <3>1. \A u \in Tasks : u # t => ~AtOp(u, "charge")' /\ ~AtOp(u, "pay")' /\ ~AtOp(u, "fee")'
      BY <1>7, <1>8, <1>9, <2>1
    <3>2. ~AtOp(t, "charge")'
      BY <1>2, <1>4, <2>1
    <3>3. QED
      BY <2>2, <3>1, <3>2 DEF CostsCut, Coin
  <2>5. /\ (Missing(view))' - (Owed(t))' = Missing(view) - Owed(t) /\ (Missing(disk))' = Missing(disk)
        /\ (Missing(view))' \in Int /\ (Owed(t))' \in Int /\ Owed(t) \in Int
    <3>1. Balance \in Nat
      BY MarketplaceAssumption
    <3>2. (Missing(disk))' = Missing(disk)
      BY <2>1 DEF Missing
    <3>3. CASE Pays(s, c)
      <4>1. AtOp(t, "pay") /\ AtOp(t, "fee")' /\ ~AtOp(t, "pay")'
        BY <1>2, <1>4, <3>3 DEF Pays, AtOp
      <4>2. Owed(t) = c /\ (Owed(t))' = c \div 20
        BY <2>2, <4>1 DEF Owed, c
      <4>3. (Missing(view))' = Missing(view) - (c * 19) \div 20
        BY <1>5, <2>2, <3>1, <3>3 DEF Pays, Missing
      <4>4. QED
        BY <1>5, <2>2, <3>2, <4>2, <4>3
    <3>4. CASE KeepsFee(s, c)
      <4>1. AtOp(t, "fee") /\ ~AtOp(t, "pay") /\ ~AtOp(t, "fee")' /\ ~AtOp(t, "pay")'
        BY <1>2, <1>4, <3>4 DEF KeepsFee
      <4>2. Owed(t) = c \div 20 /\ (Owed(t))' = 0
        BY <2>2, <4>1 DEF Owed, c
      <4>3. (Missing(view))' = Missing(view) - c \div 20
        BY <1>5, <2>2, <3>1, <3>4 DEF KeepsFee, Missing
      <4>4. QED
        BY <1>5, <2>2, <3>2, <4>2, <4>3
    <3>5. QED
      BY <1>16, <3>3, <3>4
  <2>6. OpenBooks' /\ ClosedBooks'
    <3>1. \A u \in Tasks : u # t => ~Open(u)'
      BY <1>7, <1>8, <2>1
    <3>2. /\ Missing(view) - Owed(t) >= 0 /\ Missing(view) - Owed(t) =< m
          /\ Missing(disk) >= Missing(view) - Owed(t) /\ Missing(disk) =< Missing(view) - Owed(t) + Cost
      BY <1>6, <1>12, <2>1 DEF OpenBooks
    <3>3. QED
      BY <1>5, <1>6, <2>1, <2>5, <3>1, <3>2 DEF OpenBooks, ClosedBooks
  <2>7. QED
    BY <2>3, <2>4, <2>6 DEF Ledger
<1>17. CASE Saves(s)
  <2>1. s.op = "commit" /\ disk' = view /\ view' = view /\ cost' = cost /\ ~Open(t)'
    BY <1>14, <1>17 DEF Saves, Logs
  <2>2. Coins'
    BY <1>12, <2>1 DEF Coins, Coin
  <2>3. CostsCut'
    <3>1. ~AtOp(t, "charge")' /\ ~AtOp(t, "pay")' /\ ~AtOp(t, "fee")'
      BY <1>2, <1>4, <2>1
    <3>2. QED
      BY <1>7, <1>12, <2>1, <3>1 DEF CostsCut, Coin
  <2>4. (Missing(disk))' = Missing(view) /\ (Missing(view))' = Missing(view)
    BY <2>1 DEF Missing
  <2>5. OpenBooks'
    <3> SUFFICES ASSUME NEW u \in Tasks, Open(u)'
                 PROVE  /\ (Missing(view))' - (Owed(u))' >= 0 /\ (Missing(view))' - (Owed(u))' =< m
                        /\ (Missing(disk))' >= (Missing(view))' - (Owed(u))'
                        /\ (Missing(disk))' =< (Missing(view))' - (Owed(u))' + Cost
      BY <1>6 DEF OpenBooks
    <3>1. u # t /\ Open(u) /\ (Owed(u))' = Owed(u)
      BY <1>7, <2>1
    <3>2. /\ Missing(view) - Owed(u) >= 0 /\ Missing(view) - Owed(u) =< m
      BY <1>6, <1>12, <3>1 DEF OpenBooks
    <3>3. Owed(u) \in Nat /\ Owed(u) =< Cost
      <4>1. CASE AtOp(u, "pay")
        <5>1. Owed(u) = cost[u] /\ Coin(cost[u]) /\ cost[u] =< Cost
          BY <1>12, <4>1 DEF Owed, CostsCut
        <5>2. QED
          BY <5>1, CoinShares
      <4>2. CASE ~AtOp(u, "pay") /\ AtOp(u, "fee")
        <5>1. Owed(u) = cost[u] \div 20 /\ Coin(cost[u]) /\ cost[u] =< Cost
          BY <1>12, <4>2 DEF Owed, CostsCut
        <5>2. cost[u] \div 20 \in Nat /\ cost[u] \div 20 =< cost[u] /\ cost[u] \in Nat
          BY <5>1, CoinShares
        <5>3. QED
          BY <1>5, <5>1, <5>2
      <4>3. CASE ~AtOp(u, "pay") /\ ~AtOp(u, "fee")
        BY <1>5, <4>3 DEF Owed
      <4>4. QED
        BY <4>1, <4>2, <4>3
    <3>4. QED
      BY <1>5, <1>6, <2>4, <3>1, <3>2, <3>3
  <2>6. ClosedBooks'
    <3>1. SUFFICES ASSUME \A u \in Tasks : ~Open(u)'
                   PROVE  Missing(view) >= 0 /\ Missing(view) =< m
      BY <1>6, <2>4 DEF ClosedBooks
    <3>2. \A u \in Tasks : u # t => ~Open(u)
      BY <1>7, <3>1
    <3>3. CASE Open(t)
      <4>1. Owed(t) = 0
        BY <1>2, <2>1 DEF Owed
      <4>2. QED
        BY <1>5, <1>6, <1>12, <3>3, <4>1 DEF OpenBooks
    <3>4. CASE ~Open(t)
      BY <1>6, <1>12, <3>2, <3>4 DEF ClosedBooks
    <3>5. QED
      BY <3>3, <3>4
  <2>7. QED
    BY <2>2, <2>3, <2>5, <2>6 DEF Ledger
<1>18. CASE Begins(s) \/ Looks(s, t)
  <2>1. /\ s.op \in {"begin", "balance"} /\ s.op \in Settling /\ ~Open(t)' /\ disk' = disk
        /\ view' = view \/ view' = disk
    BY <1>9, <1>14, <1>18 DEF Begins, Looks, Logs
  <2>2. Coins'
    BY <1>12, <2>1 DEF Coins, Coin
  <2>3. Missing(view) = Missing(disk) /\ Missing(disk) >= 0 /\ Missing(disk) =< m
    BY <1>13, <2>1 DEF Logs
  <2>4. \A u \in Tasks : ~Open(u)'
    BY <1>7, <1>8, <2>1
  <2>5. OpenBooks' /\ ClosedBooks'
    <3>1. (Missing(view))' = Missing(disk) /\ (Missing(disk))' = Missing(disk)
      BY <2>1, <2>3 DEF Missing
    <3>2. QED
      BY <1>6, <2>3, <2>4, <3>1 DEF OpenBooks, ClosedBooks
  <2>6. CostsCut'
    <3>1. \A u \in Tasks : u # t => ~AtOp(u, "charge")' /\ ~AtOp(u, "pay")' /\ ~AtOp(u, "fee")'
      BY <1>7, <1>8, <1>9, <2>1
    <3>2. ~AtOp(t, "pay")' /\ ~AtOp(t, "fee")'
      BY <1>2, <1>4, <2>1
    <3>3. ASSUME AtOp(t, "charge")'
          PROVE  Coin(cost'[t]) /\ cost'[t] =< Cost /\ cost'[t] =< view'.consumer
      <4>1. Looks(s, t)
        BY <1>2, <1>4, <1>18, <3>3 DEF Begins
      <4>2. cost \in [Tasks -> Int]
        BY DEF MarketBase
      <4>3. Coin(view.consumer) /\ view.consumer \in Nat
        BY <1>12, CoinShares DEF Coins
      <4>4. cost'[t] = (IF view.consumer >= Cost THEN Cost ELSE view.consumer) /\ view' = view
        BY <4>1, <4>2, <4>3 DEF Looks
      <4>5. QED
        BY <1>5, <4>3, <4>4
    <3>4. QED
      BY <3>1, <3>2, <3>3 DEF CostsCut, Coin
  <2>7. QED
    BY <2>2, <2>5, <2>6 DEF Ledger
<1>19. CASE Spares(s)
  <2>1. /\ s.op \notin {"balance", "charge", "pay", "fee", "commit", "begin"} /\ disk' = disk
        /\ view'.consumer = view.consumer /\ cost' = cost /\ SameMoney(view', view)
    BY <1>19 DEF Spares, SameMoney
  <2>2. (Open(t)' <=> Open(t)) /\ (Owed(t))' = Owed(t)
    <3>1. /\ ~AtOp(t, "pay") /\ ~AtOp(t, "fee") /\ ~AtOp(t, "commit")
          /\ ~AtOp(t, "pay")' /\ ~AtOp(t, "fee")'
      BY <1>2, <1>4, <2>1
    <3>2. (Logging(t) \/ Closing(t))' <=> Logging(t)
      BY <1>4, <3>1 DEF Logging
    <3>3. QED
      BY <3>1, <3>2 DEF Open, Owed, Closing
  <2>3. Coins'
    BY <1>12, <2>1 DEF Coins, Coin
  <2>4. CostsCut'
    <3>1. ~AtOp(t, "charge")' /\ ~AtOp(t, "pay")' /\ ~AtOp(t, "fee")'
      BY <1>2, <1>4, <2>1
    <3>2. QED
      BY <1>7, <1>12, <2>1, <3>1 DEF CostsCut, Coin
  <2>5. (Missing(view))' = Missing(view) /\ (Missing(disk))' = Missing(disk)
    BY <2>1 DEF Missing, SameMoney
  <2>6. \A u \in Tasks : (Open(u)' <=> Open(u)) /\ (Open(u) => (Owed(u))' = Owed(u))
    BY <1>7, <2>2
  <2>7. OpenBooks' /\ ClosedBooks'
    BY <1>6, <1>12, <2>5, <2>6 DEF OpenBooks, ClosedBooks
  <2>8. QED
    BY <2>3, <2>4, <2>7 DEF Ledger
<1>20. QED
  BY <1>1, <1>15, <1>16, <1>17, <1>18, <1>19

(* A task that starts a program leaves the ledger as it is.                 *)
LEMMA LedgerStarts ==
  ASSUME MarketBase, Ledger, NEW t \in Tasks, NEW q, Starts(t, q), q \in Seq(Statements), Whole(q)
  PROVE  Ledger'
<1>1. /\ prog'[t] = q /\ \A u \in Tasks : u # t => prog'[u] = prog[u]
  BY PendingStarts
<1>2. /\ disk' = disk /\ view' = view /\ cost' = cost /\ crashes' = crashes /\ prog[t] = << >>
  BY DEF Starts
<1>0. DOMAIN q = 1..Len(q) /\ 1 + (-1) = 0 /\ 2 + (-2) = 0 /\ 0 \notin DOMAIN q
  OBVIOUS
<1>3. 1 \in DOMAIN q => q[1].op \notin {"charge", "pay", "fee", "log_charge", "log_payout", "log_fee"}
  <2>1. ASSUME NEW x, NEW y, At(q, x, -1, y), 1 \in DOMAIN q PROVE q[1].op # x
    BY <1>0, <2>1 DEF At
  <2>2. QED
    BY <2>1 DEF Whole
<1>4. 2 \in DOMAIN q => q[2].op # "record"
  <2>1. ASSUME NEW x, NEW y, At(q, x, -2, y), 2 \in DOMAIN q PROVE q[2].op # x
    BY <1>0, <2>1 DEF At
  <2>2. QED
    BY <2>1 DEF Whole
<1>5. /\ ~Open(t) /\ ~Open(t)' /\ \A op \in {"charge", "pay", "fee"} : ~AtOp(t, op) /\ ~AtOp(t, op)'
  <2>1. DOMAIN prog[t] = {}
    BY <1>2
  <2>2. QED
    BY <1>1, <1>3, <1>4, <2>1 DEF Open, Logging, Closing, AtOp
<1>6. \A u \in Tasks : /\ Open(u)' <=> Open(u)
                       /\ \A op \in {"charge", "pay", "fee"} : AtOp(u, op)' <=> AtOp(u, op)
  BY <1>1, <1>5 DEF Open, Logging, Closing, AtOp
<1>7. \A u \in Tasks : (Owed(u))' = Owed(u)
  BY <1>2, <1>6 DEF Owed
<1>8. (Missing(view))' = Missing(view) /\ (Missing(disk))' = Missing(disk)
  BY <1>2 DEF Missing
<1>9. Coins' /\ CostsCut'
  BY <1>2, <1>6 DEF Ledger, Coins, CostsCut, Coin
<1>10. OpenBooks' /\ ClosedBooks'
  BY <1>2, <1>6, <1>7, <1>8 DEF Ledger, OpenBooks, ClosedBooks
<1>11. QED
  BY <1>9, <1>10 DEF Ledger

(* What the disk can lack at any time.                                      *)
LEMMA DiskLacks ==
  ASSUME MarketBase, Ledger
  PROVE  /\ Missing(disk) \in Int /\ Missing(disk) >= 0 /\ Missing(disk) =< (crashes + 1) * Cost
         /\ crashes \in Nat /\ Cost \in Nat /\ (crashes + 1) * Cost = crashes * Cost + Cost
         /\ crashes * Cost \in Nat
<1>1. crashes \in Nat /\ Cost \in Nat /\ Balance \in Nat
  BY MarketplaceAssumption DEF MarketBase, MarketTypeOK
<1>2. (crashes + 1) * Cost = crashes * Cost + Cost /\ crashes * Cost \in Nat
  BY <1>1
<1>3. Missing(disk) \in Int /\ Missing(view) \in Int
  <2>1. disk \in Db /\ view \in Db
    BY DEF MarketBase, MarketTypeOK
  <2>2. QED
    BY <1>1, <2>1 DEF Missing, Db
<1>4. PICK m \in Nat : m = crashes * Cost
  BY <1>2
<1>5. Missing(disk) >= 0 /\ Missing(disk) =< m + Cost
  <2>1. CASE \E t \in Tasks : Open(t)
    <3>1. PICK t \in Tasks : Open(t)
      BY <2>1
    <3>2. PICK b : b = Missing(view) - Owed(t)
      OBVIOUS
    <3>3. b >= 0 /\ b =< m /\ Missing(disk) >= b /\ Missing(disk) =< b + Cost
      BY <1>4, <3>1, <3>2 DEF Ledger, OpenBooks
    <3>4. Owed(t) \in Int
      <4>1. cost[t] \in Int
        BY DEF MarketBase
      <4>2. QED
        BY <4>1 DEF Owed
    <3>5. b \in Int
      BY <1>3, <3>2, <3>4
    <3>6. QED
      BY <1>1, <1>3, <3>3, <3>5
  <2>2. CASE \A t \in Tasks : ~Open(t)
    BY <1>1, <1>3, <1>4, <2>2 DEF Ledger, ClosedBooks
  <2>3. QED
    BY <2>1, <2>2
<1>6. QED
  BY <1>1, <1>2, <1>3, <1>4, <1>5

(* Every step keeps the ledger.                                             *)
LEMMA LedgerKept == MarketBase /\ Alone /\ Ledger /\ [MarketNext]_marketVars => Ledger'
<1> SUFFICES ASSUME MarketBase, Alone, Ledger, [MarketNext]_marketVars PROVE Ledger'
  OBVIOUS
<1>1. CASE \E t \in Tasks, l \in Leases, w \in Workers : RentStarts(t, l, w)
  <2>1. PICK t \in Tasks, l \in Leases, w \in Workers : RentStarts(t, l, w)
    BY <1>1
  <2> DEFINE q == RentSteps(l, w)
  <2>2. q \in Seq(Statements) /\ Whole(q)
    BY RentProgram DEF WellFormed
  <2>3. Starts(t, q)
    BY <2>1 DEF RentStarts
  <2> HIDE DEF q
  <2>4. QED
    BY <2>2, <2>3, LedgerStarts
<1>2. CASE \E t \in Tasks : \E q : SettleStarts(t, q)
  <2>1. PICK t \in Tasks : \E q : SettleStarts(t, q)
    BY <1>2
  <2>2. PICK q : SettleStarts(t, q)
    BY <2>1
  <2>3. Starts(t, q) /\ Whole(q) /\ q \in Seq(Statements)
    BY <2>2 DEF SettleStarts, Settles, WellFormed
  <2>4. QED
    BY <2>3, LedgerStarts
<1>3. CASE \E t \in Tasks : TaskStep(t)
  BY <1>3, LedgerTask
<1>4. CASE Crash
  <2>1. /\ disk' = disk /\ view' = disk /\ crashes' = crashes + 1
        /\ \A t \in Tasks : prog'[t] = << >> /\ DOMAIN prog'[t] = {}
    BY <1>4 DEF Crash
  <2>2. \A t \in Tasks : ~Open(t)' /\ \A op : ~AtOp(t, op)'
    BY <2>1 DEF Open, Logging, Closing, AtOp
  <2>3. (Missing(view))' = Missing(disk) /\ (Missing(disk))' = Missing(disk)
    BY <2>1 DEF Missing
  <2>4. Missing(disk) >= 0 /\ Missing(disk) =< (crashes * Cost)'
    BY <2>1, DiskLacks
  <2>5. Coins' /\ CostsCut'
    BY <2>1, <2>2 DEF Ledger, Coins, CostsCut, Coin
  <2>6. OpenBooks' /\ ClosedBooks'
    BY <2>2, <2>3, <2>4 DEF OpenBooks, ClosedBooks
  <2>7. QED
    BY <2>5, <2>6 DEF Ledger
<1>5. CASE (\E l \in Leases : Elapse(l)) \/ UNCHANGED marketVars
  <2>1. disk' = disk /\ view' = view /\ prog' = prog /\ cost' = cost /\ crashes' = crashes
    BY <1>5 DEF Elapse, marketVars, db
  <2>2. QED
    BY <2>1 DEF Ledger, Coins, CostsCut, OpenBooks, ClosedBooks, Coin, Missing, Owed, Open, Logging, Closing, AtOp
<1>6. QED
  BY <1>1, <1>2, <1>3, <1>4, <1>5, MarketSteps

(* The first state's ledger.                                                *)
LEMMA InitLedger == MarketInit => Ledger
<1> SUFFICES ASSUME MarketInit PROVE Ledger
  OBVIOUS
<1>1. /\ view = disk /\ disk.consumer = Balance /\ disk.provider = 0 /\ disk.platform = 0
      /\ crashes = 0 /\ \A t \in Tasks : DOMAIN prog[t] = {}
  BY DEF MarketInit
<1>2. Balance \in Nat /\ Cost \in Nat /\ Coin(Balance)
  BY MarketplaceAssumption DEF Coin
<1>3. \A t \in Tasks : ~Open(t) /\ \A op : ~AtOp(t, op)
  BY <1>1 DEF Open, Logging, Closing, AtOp
<1>4. Missing(view) = 0 /\ Missing(disk) = 0 /\ crashes * Cost = 0
  BY <1>1, <1>2 DEF Missing
<1>5. Coins /\ CostsCut
  BY <1>1, <1>2, <1>3 DEF Coins, CostsCut
<1>6. OpenBooks /\ ClosedBooks
  BY <1>3, <1>4 DEF OpenBooks, ClosedBooks
<1>7. QED
  BY <1>5, <1>6 DEF Ledger

(* The ledger says where the money is.                                      *)
LEMMA LedgerMoney == ASSUME MarketBase, ~overlap => Ledger PROVE MoneyKept
<1>a. SUFFICES ASSUME ~overlap
               PROVE  /\ disk.consumer >= 0 /\ Missing(disk) \in 0..(crashes + 1) * Cost
                      /\ (\A t \in Tasks : ~MidSettlement(t)) =>
                           Missing(view) = Missing(disk) /\ Missing(disk) =< crashes * Cost
  BY DEF MoneyKept
<1>1. Ledger
  BY <1>a
<1>2. disk.consumer >= 0
  <2>1. Coin(disk.consumer)
    BY <1>1 DEF Ledger, Coins
  <2>2. disk.consumer \in Nat
    BY <2>1, CoinShares
  <2>3. QED
    BY <2>2
<1>3. Missing(disk) \in 0..(crashes + 1) * Cost
  <2>1. PICK n : n = (crashes + 1) * Cost
    OBVIOUS
  <2>2. n \in Nat /\ Missing(disk) \in Int /\ Missing(disk) >= 0 /\ Missing(disk) =< n
    BY <1>1, <2>1, DiskLacks
  <2>3. Missing(disk) \in 0..n
    BY <2>2
  <2>4. QED
    BY <2>1, <2>3
<1>4. ASSUME \A t \in Tasks : ~MidSettlement(t)
      PROVE  Missing(view) = Missing(disk) /\ Missing(disk) =< crashes * Cost
  <2>1. \A t \in Tasks : ~Open(t)
    BY <1>4, MidIsOpen
  <2>2. QED
    BY <1>1, <2>1 DEF Ledger, ClosedBooks
<1>5. QED
  BY <1>2, <1>3, <1>4

-----------------------------------------------------------------------------
(* The first state satisfies the inductive invariant.                       *)
LEMMA InitInductive == MarketInit => MarketInductive
<1> SUFFICES ASSUME MarketInit PROVE MarketInductive
  OBVIOUS
<1>1. LeasesSound
  BY InitSound
<1>2. /\ view = disk /\ \A t \in Tasks : DOMAIN prog[t] = {}
      /\ \A l \in Leases : disk.charges[l] = 0
  BY DEF MarketInit
<1>3. EndsCommitted /\ ChargedEnded /\ ChargesOwed /\ Alone
  BY <1>2 DEF EndsCommitted, ChargedEnded, ChargesOwed, Alone, Busy
<1>4. QED
  BY <1>1, <1>3 DEF MarketInductive, SettledOnce

(* The first state, every step, and what the invariant says.                *)
LEMMA InductiveKept ==
  /\ MarketInit => MarketInductive /\ (~overlap => Ledger)
  /\ MarketInductive /\ (~overlap => Ledger) /\ [MarketNext]_marketVars =>
       MarketInductive' /\ (~overlap => Ledger)'
<1>1. ASSUME MarketInductive, ~overlap => Ledger, [MarketNext]_marketVars
      PROVE  MarketInductive' /\ (~overlap => Ledger)'
  <2>1. LeasesSound'
    BY <1>1, BaseKept, LeasesKept, OneOnKept DEF MarketInductive, LeasesSound
  <2>2. MarketBase
    BY <1>1 DEF MarketInductive, LeasesSound
  <2>3. CASE overlap'
    BY <2>1, <2>3 DEF MarketInductive
  <2>4. CASE ~overlap'
    <3>1. ~overlap /\ Alone /\ Ledger
      BY <1>1, <2>2, <2>4, OverlapStays DEF MarketInductive
    <3>2. Alone' /\ SettledOnce' /\ Ledger'
      BY <1>1, <2>2, <2>4, <3>1, AloneKept, SettledKept, LedgerKept
    <3>3. QED
      BY <2>1, <3>2 DEF MarketInductive
  <2>5. QED
    BY <2>3, <2>4
<1>2. QED
  BY <1>1, InitInductive, InitLedger

(* For any number of tasks that rent, stop, sweep and report, of leases,    *)
(* workers and kills: databases, lock and programs stay typed, whoever      *)
(* holds the lock gives it back, and no worker has two active leases, seen  *)
(* or on disk. Until a settlement begins while another is under way, and    *)
(* however stop and sweep follow each other, a lease is charged once, and a *)
(* kill loses at most what one lease costs.                                 *)
THEOREM MarketSafe == MarketSpec => []MarketInvariant
<1>1. MarketInductive /\ (~overlap => Ledger) => MarketInvariant
  <2> SUFFICES ASSUME MarketInductive, ~overlap => Ledger PROVE MarketInvariant
    OBVIOUS
  <2>1. MarketTypeOK /\ MarketBase
    BY DEF MarketInductive, LeasesSound, MarketBase
  <2>2. OneLeasePerWorker
    BY DEF MarketInductive, LeasesSound
  <2>3. ChargedOnce
    BY DEF MarketInductive, SettledOnce, ChargedEnded, ChargedOnce
  <2>4. MoneyKept
    BY <2>1, LedgerMoney
  <2>5. QED
    BY <2>1, <2>2, <2>3, <2>4 DEF MarketInvariant
<1>2. QED
  BY <1>1, InductiveKept, PTL DEF MarketSpec

(* Without kills and until two settlements overlap, the claim of            *)
(* settle_lease holds whenever no settlement is under way, whatever the     *)
(* other tasks commit: NoPartialState then fails for good only by a kill.   *)
THEOREM QuietIsWhole ==
  MarketSpec => [](~overlap /\ crashes = 0 /\ (\A t \in Tasks : ~MidSettlement(t)) => NoPartialState)
<1>1. MarketInductive /\ (~overlap => Ledger) =>
        (~overlap /\ crashes = 0 /\ (\A t \in Tasks : ~MidSettlement(t)) => NoPartialState)
  <2> SUFFICES ASSUME MarketInductive, Ledger, ~overlap, crashes = 0, \A t \in Tasks : ~MidSettlement(t)
               PROVE  NoPartialState
    OBVIOUS
  <2>1. MarketBase /\ disk \in Db /\ Balance \in Nat /\ Cost \in Nat
    BY MarketplaceAssumption DEF MarketInductive, LeasesSound, MarketBase, MarketTypeOK
  <2>2. \A t \in Tasks : ~Open(t)
    BY <2>1, MidIsOpen
  <2>3. Missing(disk) >= 0 /\ Missing(disk) =< 0 * Cost
    BY <2>2 DEF Ledger, ClosedBooks
  <2>4. Missing(disk) \in Int /\ 0 * Cost = 0
    BY <2>1 DEF Missing, Db
  <2>5. Missing(disk) = 0
    BY <2>3, <2>4
  <2>6. QED
    BY <2>1, <2>5 DEF Missing, NoPartialState, Db
<1>2. QED
  BY <1>1, InductiveKept, PTL DEF MarketSpec

(* Until two settlements overlap, the disk comes to lack money in one way:  *)
(* a task commits while another is between the charge and the commit of a   *)
(* settlement. Nothing else than this makes NoPartialState false.           *)
THEOREM PartialNeedsAnother == MarketSpec => PartialByOthersOnly
<1> DEFINE A == ~overlap' /\ Missing(disk) = 0 /\ Missing(disk') # 0 =>
                  \E t, u \in Tasks : t # u /\ Commit(t) /\ MidSettlement(u)
<1>1. MarketInductive /\ (~overlap => Ledger) /\ [MarketNext]_marketVars => [A]_marketVars
  <2> SUFFICES ASSUME MarketInductive, ~overlap => Ledger, MarketNext PROVE A
    OBVIOUS
  <2>a. SUFFICES ASSUME ~overlap', Missing(disk) = 0, Missing(disk') # 0
                 PROVE  \E t, u \in Tasks : t # u /\ Commit(t) /\ MidSettlement(u)
    OBVIOUS
  <2>0. MarketBase
    BY DEF MarketInductive, LeasesSound
  <2>1. MarketBase /\ Ledger
    BY <2>a, <2>0, OverlapStays
  <2>2. disk' # disk
    BY <2>a
  <2>3. PICK t \in Tasks : Commit(t)
    <3>1. \A t \in Tasks : TaskStep(t) => Commit(t)
      BY <2>2 DEF TaskStep, Write, InsertFails, Active, Unlock, Publish, Begin, BeginFails, ReadBalance, Record, db
    <3>2. ~(\E t \in Tasks, l \in Leases, w \in Workers : RentStarts(t, l, w))
      BY <2>2 DEF RentStarts, Starts
    <3>3. ~(\E t \in Tasks : \E q : SettleStarts(t, q))
      BY <2>2 DEF SettleStarts, Starts
    <3>4. ~((\E l \in Leases : Elapse(l)) \/ Crash)
      BY <2>2 DEF Elapse, Crash, db
    <3>5. QED
      BY <2>1, <3>1, <3>2, <3>3, <3>4, MarketSteps
  <2>4. Missing(view) # 0 /\ AtOp(t, "commit")
    <3>1. disk' = view /\ TaskStep(t) /\ Head(prog[t]).op = "commit"
      BY <2>3 DEF Commit, TaskStep, Head1
    <3>2. 1 \in DOMAIN prog[t] /\ Head(prog[t]) = prog[t][1]
      BY <2>1, <3>1, TaskRests
    <3>3. QED
      BY <2>a, <3>1, <3>2 DEF AtOp
  <2>5. PICK u \in Tasks : Open(u)
    BY <2>a, <2>1, <2>4 DEF Ledger, ClosedBooks
  <2>6. u # t
    <3>1. SUFFICES ASSUME u = t PROVE FALSE
      OBVIOUS
    <3>2. Owed(u) = 0
      BY <2>4, <3>1 DEF Owed, AtOp
    <3>3. Missing(view) \in Int
      <4>1. view \in Db /\ Balance \in Nat
        BY <2>1, MarketplaceAssumption DEF MarketBase, MarketTypeOK
      <4>2. QED
        BY <4>1 DEF Missing, Db
    <3>4. Missing(view) - 0 >= 0 /\ Missing(disk) >= Missing(view) - 0
      BY <2>1, <2>5, <3>2 DEF Ledger, OpenBooks
    <3>5. QED
      BY <2>a, <2>4, <3>3, <3>4
  <2>7. MidSettlement(u)
    BY <2>1, <2>5, MidIsOpen
  <2>8. QED
    BY <2>3, <2>6, <2>7
<1>2. QED
  BY <1>1, InductiveKept, PTL DEF MarketSpec, PartialByOthersOnly
-----------------------------------------------------------------------------
(* What the disk keeps of a lease: the refinement of LeaseBook.             *)

(* The disk is behind the connection by one insertion at most, and who      *)
(* inserted holds the lock and commits next; leases that are over, or still *)
(* to be ended or charged, are on disk; no charge on disk is missing.       *)
InsertOpen == \E t \in Tasks : lock = t /\ AtCommit(t)
OnDisk ==
  /\ \A l \in Leases : disk.state[l] # "none" => view.state[l] # "none"
  /\ \A l \in Leases : disk.state[l] = "none" /\ view.state[l] # "none" =>
       view.state[l] = "active" /\ InsertOpen
  /\ \A l \in Leases : view.charges[l] >= disk.charges[l]
  /\ \A l \in due : disk.state[l] # "none"
  /\ \A l \in Leases : view.charges[l] # 0 => disk.state[l] # "none"
  /\ \A t \in Tasks, l \in Leases : Pending(t, "end", l) \/ Pending(t, "charge", l) => disk.state[l] # "none"

(* Whoever inserted keeps the lock until it commits, and an insertion that  *)
(* was not refused is about to be committed.                                *)
LEMMA InsertOpenKept ==
  ASSUME MarketBase, NEW t \in Tasks, TaskStep(t), NEW s, s = Head(prog[t])
  PROVE  /\ InsertOpen /\ s.op # "commit" => InsertOpen'
         /\ s.op = "insert" /\ ActiveOn(s.worker) = {} => InsertOpen'
<1>1. /\ prog[t] \in Seq(Statements) /\ 1 \in DOMAIN prog[t] /\ s = prog[t][1]
      /\ \A u \in Tasks : u # t => prog'[u] = prog[u]
  BY TaskRests
<1>2. prog \in [Tasks -> Seq(Statements)] /\ prog[t] # << >>
  BY TaskRests DEF MarketBase, Programs
<1>3. /\ \A i \in DOMAIN prog[t] : prog[t][i].op = "unlock" => lock = t
      /\ LockPaired(prog[t]) /\ GoesOn(prog[t])
  BY DEF MarketBase, Programs, WellFormed, InOrder
<1>4. s.op \in {"unlock", "active", "insert"} => lock = t
  BY <1>1, <1>3 DEF LockPaired
<1>5. s.op \notin {"unlock", "active", "insert"} => lock' = lock
  BY LockSteps
<1>6. ASSUME InsertOpen, s.op # "commit" PROVE InsertOpen'
  <2>1. PICK h \in Tasks : lock = h /\ AtCommit(h)
    BY <1>6 DEF InsertOpen
  <2>2. h # t
    BY <1>1, <1>6, <2>1 DEF AtCommit
  <2>3. lock' = h /\ prog'[h] = prog[h]
    BY <1>1, <1>4, <1>5, <2>1, <2>2
  <2>4. QED
    BY <2>1, <2>3 DEF InsertOpen, AtCommit
<1>7. ASSUME s.op = "insert", ActiveOn(s.worker) = {} PROVE InsertOpen'
  <2>0. Write(t)
    BY <1>7 DEF TaskStep, InsertFails, IndexAllows, Commit, Active, Unlock, Publish, Begin, BeginFails,
                ReadBalance, Record, Head1
  <2>1. 2 \in DOMAIN prog[t] /\ prog[t][2].op = "commit"
    <3>1. 1 + 1 = 2
      OBVIOUS
    <3>2. At(prog[t], "insert", 1, "commit")
      BY <1>3 DEF GoesOn
    <3>3. QED
      BY <1>1, <1>7, <3>1, <3>2 DEF At
  <2>2. 1 \in DOMAIN prog'[t] /\ prog'[t][1] = prog[t][2]
    <3>1. 2 > 1 /\ 2 - 1 = 1 /\ prog'[t] = Tail(prog[t])
      BY <1>2, <2>0 DEF Write, Next1, Go
    <3>2. \A j \in DOMAIN prog[t] : j > 1 => j - 1 \in DOMAIN prog'[t] /\ prog'[t][j - 1] = prog[t][j]
      BY <1>1, <1>2, <3>1, TailRest, RestIndex
    <3>3. QED
      BY <2>1, <3>1, <3>2
  <2>3. lock' = t
    BY <1>4, <1>7, <2>0 DEF Write
  <2>4. QED
    BY <2>1, <2>2, <2>3 DEF InsertOpen, AtCommit
<1>8. QED
  BY <1>6, <1>7

(* A task's step.                                                           *)
LEMMA OnDiskTask == ASSUME LeasesSound, OnDisk, NEW t \in Tasks, TaskStep(t) PROVE OnDisk'
<1>0. PICK s : s = Head(prog[t])
  OBVIOUS
<1>1. /\ MarketBase /\ disk \in Db /\ view \in Db
  BY DEF LeasesSound, MarketBase, MarketTypeOK
<1>2. /\ \A u \in Tasks : \A op, m : Pending(u, op, m)' => Pending(u, op, m)
      /\ s.lease \in Leases /\ Pending(t, s.op, s.lease)
  BY <1>0, <1>1, PendingShrinks
<1>3. due' = due
  BY DEF TaskStep, Write, InsertFails, Commit, Active, Unlock, Publish, Begin, BeginFails, ReadBalance, Record
<1>4. Inserts(s) \/ Ends(s) \/ Charges(s) \/ Writes(s) \/ Commits(s) \/ RollsBack(s)
  BY <1>0, <1>1, TaskEffects
<1>5. /\ InsertOpen /\ s.op # "commit" => InsertOpen'
      /\ s.op = "insert" /\ ActiveOn(s.worker) = {} => InsertOpen'
  BY <1>0, <1>1, InsertOpenKept
<1>6. CASE Inserts(s)
  <2>1. /\ disk' = disk /\ view'.charges = view.charges /\ view'.state[s.lease] = "active" /\ InsertOpen'
        /\ \A m \in Leases : m # s.lease => view'.state[m] = view.state[m]
    BY <1>1, <1>2, <1>5, <1>6 DEF Inserts, Db
  <2>2. QED
    BY <1>2, <1>3, <2>1 DEF OnDisk
<1>7. CASE Ends(s)
  <2>1. /\ disk' = disk /\ view'.charges = view.charges /\ view'.state[s.lease] = "completed"
        /\ s.op = "end" /\ \A m \in Leases : m # s.lease => view'.state[m] = view.state[m]
    BY <1>1, <1>2, <1>7 DEF Ends, Db
  <2>2. disk.state[s.lease] # "none"
    BY <1>2, <2>1 DEF OnDisk
  <2>3. QED
    BY <1>2, <1>3, <1>5, <2>1, <2>2 DEF OnDisk
<1>8. CASE Charges(s) \/ Writes(s)
  <2>1. disk' = disk /\ view'.state = view.state /\ s.op # "commit"
    BY <1>8 DEF Charges, Writes, SameLeases
  <2>2. \A m \in Leases : view'.charges[m] >= disk.charges[m] /\ (view'.charges[m] # 0 => disk.state[m] # "none")
    <3>1. \A m \in Leases : view.charges[m] \in Nat /\ disk.charges[m] \in Nat /\ view.charges[m] >= disk.charges[m]
      BY <1>1 DEF Db, OnDisk
    <3>2. CASE Charges(s)
      <4>1. \A m \in Leases : \/ view'.charges[m] = view.charges[m]
                              \/ m = s.lease /\ view'.charges[m] = view.charges[m] + 1
        BY <1>1, <1>2, <3>2 DEF Charges, Db
      <4>2. disk.state[s.lease] # "none"
        BY <1>2, <3>2 DEF Charges, OnDisk
      <4>3. QED
        BY <3>1, <4>1, <4>2 DEF OnDisk
    <3>3. CASE Writes(s)
      BY <3>1, <3>3 DEF Writes, SameLeases, OnDisk
    <3>4. QED
      BY <1>8, <3>2, <3>3
  <2>3. QED
    BY <1>2, <1>3, <1>5, <2>1, <2>2 DEF OnDisk
<1>9. CASE Commits(s)
  <2>1. disk' = view /\ view' = view
    BY <1>9 DEF Commits
  <2>2. \A m \in Leases : view.charges[m] >= view.charges[m]
    BY <1>1 DEF Db
  <2>3. due \subseteq Leases
    BY <1>1 DEF MarketBase, MarketTypeOK
  <2>4. QED
    BY <1>2, <1>3, <2>1, <2>2, <2>3 DEF OnDisk
<1>10. CASE RollsBack(s)
  <2>1. disk' = disk /\ view' = disk
    BY <1>10 DEF RollsBack
  <2>2. \A m \in Leases : disk.charges[m] >= disk.charges[m] /\ (disk.charges[m] # 0 => view.charges[m] # 0)
    BY <1>1 DEF Db, OnDisk
  <2>3. QED
    BY <1>2, <1>3, <2>1, <2>2 DEF OnDisk
<1>11. QED
  BY <1>4, <1>6, <1>7, <1>8, <1>9, <1>10

(* Every step.                                                              *)
LEMMA OnDiskKept == LeasesSound /\ OnDisk /\ [MarketNext]_marketVars => OnDisk'
<1> SUFFICES ASSUME LeasesSound, OnDisk, [MarketNext]_marketVars PROVE OnDisk'
  OBVIOUS
<1>1. MarketBase /\ disk \in Db /\ view \in Db
  BY DEF LeasesSound, MarketBase, MarketTypeOK
<1>2. CASE \E t \in Tasks, l \in Leases, w \in Workers : RentStarts(t, l, w)
  <2>1. PICK t \in Tasks, l \in Leases, w \in Workers : RentStarts(t, l, w)
    BY <1>2
  <2> DEFINE q == RentSteps(l, w)
  <2>2. \A i \in DOMAIN q : q[i].op \notin {"end", "charge"}
    BY RentProgram DEF Settling
  <2>3. disk' = disk /\ view' = view /\ due' = due /\ lock = NoTask /\ Starts(t, q)
    BY <2>1 DEF RentStarts, Starts
  <2> HIDE DEF q
  <2>4. \A u \in Tasks : \A m : /\ Pending(u, "end", m)' => Pending(u, "end", m)
                                /\ Pending(u, "charge", m)' => Pending(u, "charge", m)
    BY <1>1, <2>2, <2>3, PendingStarts
  <2>5. ~InsertOpen
    BY <2>3, MarketplaceAssumption DEF InsertOpen
  <2>6. QED
    BY <2>3, <2>4, <2>5 DEF OnDisk
<1>3. CASE \E t \in Tasks : \E q : SettleStarts(t, q)
  <2>1. PICK t \in Tasks : \E q : SettleStarts(t, q)
    BY <1>3
  <2>2. PICK q : SettleStarts(t, q)
    BY <2>1
  <2>3. /\ disk' = disk /\ view' = view /\ due' = due /\ Starts(t, q) /\ prog[t] = << >>
        /\ \A i \in DOMAIN q : q[i].op \in {"end", "charge"} => view.state[q[i].lease] = "active"
        /\ \/ lock' = lock /\ \A i \in DOMAIN q : q[i].op \in {"end", "charge"} => q[i].lease \in due
           \/ lock = NoTask
    BY <2>2 DEF SettleStarts, Starts, Settles
  <2>4. /\ \A u \in Tasks : u # t => prog'[u] = prog[u]
        /\ \A u \in Tasks : \A op, m : Pending(u, op, m)' =>
             Pending(u, op, m) \/ \E i \in DOMAIN q : q[i].op = op /\ q[i].lease = m
    BY <1>1, <2>3, PendingStarts
  <2>5. InsertOpen => InsertOpen' /\ lock # NoTask
    <3>1. SUFFICES ASSUME InsertOpen PROVE InsertOpen' /\ lock # NoTask
      OBVIOUS
    <3>2. PICK h \in Tasks : lock = h /\ AtCommit(h)
      BY <3>1 DEF InsertOpen
    <3>3. h # t /\ lock # NoTask
      BY <2>3, <3>2, MarketplaceAssumption DEF AtCommit
    <3>4. QED
      BY <2>3, <2>4, <3>2, <3>3 DEF InsertOpen, AtCommit
  <2>6. ASSUME NEW i \in DOMAIN q, q[i].op \in {"end", "charge"}, q[i].lease \in Leases PROVE disk.state[q[i].lease] # "none"
    BY <2>3, <2>5, <2>6 DEF OnDisk
  <2>7. QED
    BY <2>3, <2>4, <2>5, <2>6 DEF OnDisk
<1>4. CASE \E t \in Tasks : TaskStep(t)
  BY <1>4, OnDiskTask
<1>5. CASE Crash
  <2>1. disk' = disk /\ view' = disk /\ due' = due /\ \A t \in Tasks : prog'[t] = << >>
    BY <1>5 DEF Crash
  <2>2. \A t \in Tasks : \A op, l : ~Pending(t, op, l)'
    BY <2>1 DEF Pending
  <2>3. \A l \in Leases : disk.charges[l] >= disk.charges[l] /\ (disk.charges[l] # 0 => view.charges[l] # 0)
    BY <1>1 DEF Db, OnDisk
  <2>4. QED
    BY <2>1, <2>2, <2>3 DEF OnDisk
<1>6. CASE (\E l \in Leases : Elapse(l)) \/ UNCHANGED marketVars
  <2>1. disk' = disk /\ view' = view /\ prog' = prog /\ lock' = lock
    BY <1>6 DEF Elapse, marketVars, db
  <2>2. \A l \in due' : l \in due \/ disk.state[l] = "active"
    BY <1>6 DEF Elapse, marketVars
  <2>3. QED
    BY <2>1, <2>2 DEF OnDisk, Pending, InsertOpen, AtCommit
<1>7. QED
  BY <1>1, <1>2, <1>3, <1>4, <1>5, <1>6, MarketSteps

(* Whatever a step does to the disk is a step of the book.                  *)
LEMMA BookStep ==
  ASSUME MarketInductive, OnDisk, [MarketNext]_marketVars
  PROVE  [Book!BookNext]_<<disk.state, disk.host, disk.charges, ~overlap>>
<1>1. /\ LeasesSound /\ MarketBase /\ ViewFollows /\ disk \in Db /\ view \in Db
  BY DEF MarketInductive, LeasesSound, MarketBase, MarketTypeOK
<1>2. ~overlap' => ~overlap
  BY <1>1, OverlapStays
<1>4. CASE disk' = disk
  <2>1. \A l \in Leases : disk.charges[l] >= disk.charges[l]
    BY <1>1 DEF Db
  <2>2. \A l \in Leases : Book!Stays(l) /\ Book!Charges(l)
    BY <1>4, <2>1 DEF Book!Stays, Book!Charges
  <2>3. QED
    BY <1>2, <2>2 DEF Book!BookNext
<1>5. CASE disk' = view
  <2>1. ASSUME NEW l \in Leases PROVE Book!Opens(l) \/ Book!Ends(l) \/ Book!Stays(l)
    <3>1. /\ disk.state[l] \in {"none", "active", "completed"} /\ view.state[l] \in {"none", "active", "completed"}
          /\ view.host[l] \in Workers
      BY <1>1 DEF Db
    <3>2. /\ disk.state[l] # "none" => view.state[l] # "none" /\ view.host[l] = disk.host[l]
          /\ disk.state[l] = "none" /\ view.state[l] # "none" => view.state[l] = "active"
          /\ disk.state[l] = "completed" => view.state[l] = "completed"
      BY <1>1 DEF OnDisk, ViewFollows
    <3>3. QED
      BY <1>5, <3>1, <3>2 DEF Book!Opens, Book!Ends, Book!Stays
  <2>2. ASSUME NEW l \in Leases PROVE Book!Charges(l)
    <3>1. /\ view.charges[l] \in Nat /\ disk.charges[l] \in Nat /\ view.charges[l] >= disk.charges[l]
      BY <1>1 DEF Db, OnDisk
    <3>a. view.charges[l] # disk.charges[l] => disk.state[l] # "none"
      BY <3>1 DEF OnDisk
    <3>2. ASSUME ~overlap', view.charges[l] # disk.charges[l]
          PROVE  disk.state[l] = "completed" /\ disk.charges[l] = 0 /\ view.charges[l] = 1
      <4>1. view.charges[l] =< 1 /\ (view.charges[l] > 0 => disk.state[l] = "completed")
        BY <1>2, <3>2 DEF MarketInductive, SettledOnce, ChargedEnded
      <4>2. QED
        BY <3>1, <3>2, <4>1
    <3>3. QED
      BY <1>5, <3>1, <3>a, <3>2 DEF Book!Charges
  <2>3. QED
    BY <1>2, <2>1, <2>2 DEF Book!BookNext
<1>6. disk' = disk \/ disk' = view
  BY <1>1, DiskSteps
<1>7. QED
  BY <1>4, <1>5, <1>6

(* The leases on disk are those of a LeaseBook, for any number of tasks,    *)
(* leases, workers and kills: opened, active, ended, in this order and each *)
(* seen on disk, charged only when it was opened; until two settlements     *)
(* overlap, charged once and after the end was there.                       *)
THEOREM MarketImplementsBook == MarketSpec => ImplementsBook
<1>1. MarketInit => Book!BookInit /\ OnDisk
  <2> SUFFICES ASSUME MarketInit PROVE Book!BookInit /\ OnDisk
    OBVIOUS
  <2>1. LeasesSound /\ disk \in Db
    BY InitSound DEF LeasesSound, MarketBase, MarketTypeOK
  <2>2. /\ view = disk /\ due = {} /\ prog = [t \in Tasks |-> << >>] /\ overlap = FALSE
        /\ disk.state = [l \in Leases |-> IF l \in DOMAIN scene.open THEN "active" ELSE "none"]
        /\ disk.charges = [l \in Leases |-> 0]
    BY DEF MarketInit
  <2>3. Book!BookInit
    BY <2>1, <2>2 DEF Book!BookInit, Db
  <2>4. OnDisk
    BY <2>2 DEF OnDisk, Pending
  <2>5. QED
    BY <2>3, <2>4
<1>2. MarketInductive /\ (~overlap => Ledger) /\ OnDisk /\ [MarketNext]_marketVars =>
        OnDisk' /\ [Book!BookNext]_<<disk.state, disk.host, disk.charges, ~overlap>>
  BY OnDiskKept, BookStep DEF MarketInductive
<1>3. QED
  BY <1>1, <1>2, InductiveKept, PTL DEF MarketSpec, ImplementsBook, Book!BookSpec, Book!bookVars
=============================================================================
