----------------------------- MODULE Marketplace -----------------------------
(***************************************************************************)
(* Leases and their settlement on the marketplace server: rent, stop and   *)
(* the expiry sweep (matcher.py, routers/rental.py, server.py) and         *)
(* settle_lease (settlement.py). The tasks are coroutines of one event     *)
(* loop that share ONE database connection (storage/manager.py), so a      *)
(* transaction belongs to the connection and not to the task that began    *)
(* it: any task's commit commits, and any task's rollback undoes, whatever *)
(* the others have written since. A task holds the statements it has still *)
(* to await, one step each. The process may be killed between any two.     *)
(***************************************************************************)
EXTENDS Integers, Sequences, FiniteSets, SequencesExt

CONSTANTS
  Leases,        \* bound: lease ids
  Workers,
  Renters,       \* tasks that serve /api/rent
  Stoppers,      \* tasks that serve /api/stop
  Sweepers,      \* the lease watchdog: one task, or none
  Reporters,     \* tasks that handle a worker's register or status message
  Cost,          \* what a lease costs, a multiple of 20: the payout is 19/20, the fee 1/20
  Balance,       \* what the consumer has at first
  Scenes         \* bounds of a behaviour: see scene

Tasks == Renters \cup Stoppers \cup Sweepers \cup Reporters
NoTask == "none"

ASSUME MarketplaceAssumption ==
  /\ {Cost, Balance} \subseteq Nat
  /\ Cost \in {20 * n : n \in 1..Cost} /\ Balance \in {20 * n : n \in 0..Balance}
  /\ Leases # {} /\ Workers # {} /\ IsFiniteSet(Leases) /\ IsFiniteSet(Tasks) /\ NoTask \notin Tasks
  /\ \A s \in Scenes :
       /\ s.tasks \subseteq Tasks /\ s.workers \subseteq Workers /\ s.kills \in Nat
       /\ s.rents \cup s.ends \cup s.stops \subseteq Leases
       /\ DOMAIN s.open \subseteq Leases /\ s.open \in [DOMAIN s.open -> Workers] /\ IsInjective(s.open)

VARIABLES
  disk,      \* the database as last committed
  view,      \* the database as the connection sees it
  tx,        \* the connection is in a transaction
  prog,      \* task -> the statements it has still to await
  cost,      \* task -> total_cost of the settlement it is in
  lock,      \* holder of the matcher's asyncio lock, or NoTask
  due,       \* leases whose duration is over
  used,      \* lease ids that were generated
  crashes,
  scene,     \* the tasks and workers there are, how often the server is killed, and the leases: open
             \* (with their worker) when it first starts, rented, run out, asked to be stopped
  overlap    \* a settlement began while another was under way

db == <<disk, view, tx>>
marketVars == <<db, prog, cost, lock, due, used, crashes, scene, overlap>>
-----------------------------------------------------------------------------
(* The programs of the tasks: the statements each of them awaits in turn.   *)

Do(op, l, w) == [op |-> op, lease |-> l, worker |-> w]

\* Broken: the worker is freed and the lease forgotten.
CompleteLeaseNot(l, w) == << Do("free", l, w), Do("commit", l, w) >>

\* update_state of the lease, then of its worker.
CompleteLease(l, w) == << Do("end", l, w), Do("commit", l, w), Do("free", l, w), Do("commit", l, w) >>

\* Broken: committed before the fee.
SettleStepsEarly(l, w) ==
  << Do("begin", l, w), Do("balance", l, w), Do("charge", l, w), Do("pay", l, w), Do("commit", l, w),
     Do("fee", l, w), Do("log_charge", l, w), Do("log_payout", l, w), Do("log_fee", l, w),
     Do("record", l, w), Do("commit", l, w) >>

\* settle_lease: the three balances, then the three rows of the audit trail, one commit, and the
\* settlement's record with a commit of its own.
SettleSteps(l, w) ==
  << Do("begin", l, w), Do("balance", l, w), Do("charge", l, w), Do("pay", l, w), Do("fee", l, w),
     Do("log_charge", l, w), Do("log_payout", l, w), Do("log_fee", l, w), Do("commit", l, w),
     Do("record", l, w), Do("commit", l, w) >>

\* Broken: the lock is not given back.
RentStepsLocked(l, w) ==
  << Do("active", l, w), Do("insert", l, w), Do("commit", l, w),
     Do("leased", l, w), Do("commit", l, w), Do("assign", l, w) >>

\* rent_hashpower from its second look-up on.
RentSteps(l, w) ==
  << Do("active", l, w), Do("insert", l, w), Do("commit", l, w),
     Do("leased", l, w), Do("commit", l, w), Do("unlock", l, w), Do("assign", l, w) >>

StopLeaseSteps(l, w) ==
  CompleteLease(l, w) \o << Do("unlock", l, w), Do("release", l, w) >> \o SettleSteps(l, w)

\* check_expired_leases ends every lease of the list, then the watchdog settles them.
SweepSteps(list) ==
  FlattenSeq([i \in DOMAIN list |->
    CompleteLease(list[i].lease, list[i].worker) \o << Do("release", list[i].lease, list[i].worker) >>])
  \o FlattenSeq([i \in DOMAIN list |-> SettleSteps(list[i].lease, list[i].worker)])
-----------------------------------------------------------------------------
Db == [ state : [Leases -> {"none", "active", "completed"}],
        host : [Leases -> Workers],            \* worker_id of a lease; anything before it is created
        worker : [Workers -> {"AVAILABLE", "LEASED"}],   \* every state but AVAILABLE counts as LEASED
        consumer : Int, provider : Int, platform : Int,  \* balances
        charges : [Leases -> Nat],             \* how often the consumer's balance was cut for a lease
        record : SUBSET Leases ]               \* rows of settlements: lease_id is UNIQUE

MarketTypeOK ==
  /\ {disk, view} \subseteq Db /\ tx \in BOOLEAN
  /\ ~tx => view = disk
  /\ lock \in Tasks \cup {NoTask}
  /\ lock # NoTask => \E i \in DOMAIN prog[lock] : prog[lock][i].op = "unlock"
  /\ due \cup used \subseteq Leases /\ crashes \in 0..scene.kills /\ overlap \in BOOLEAN

MarketInit ==
  /\ scene \in Scenes
  /\ disk = [ state |-> [l \in Leases |-> IF l \in DOMAIN scene.open THEN "active" ELSE "none"],
              host |-> [l \in Leases |-> IF l \in DOMAIN scene.open THEN scene.open[l] ELSE CHOOSE w \in Workers : TRUE],
              worker |-> [w \in Workers |-> "AVAILABLE"],
              consumer |-> Balance, provider |-> 0, platform |-> 0,
              charges |-> [l \in Leases |-> 0], record |-> {} ]
  /\ view = disk /\ tx = FALSE
  /\ prog = [t \in Tasks |-> << >>] /\ cost = [t \in Tasks |-> 0]
  /\ lock = NoTask /\ due = {} /\ used = DOMAIN scene.open /\ crashes = 0
  /\ overlap = FALSE
-----------------------------------------------------------------------------
Resting(t) == prog[t] = << >>
Head1(t) == Head(prog[t])
Go(t, steps) == prog' = [prog EXCEPT ![t] = steps]

ActiveOn(w) == {l \in Leases : view.state[l] = "active" /\ view.host[l] = w}

\* /api/rent: under the lock, a worker that is AVAILABLE is looked up.
Rent(t, l, w) ==
  /\ Resting(t) /\ lock = NoTask /\ l \notin used /\ view.worker[w] = "AVAILABLE"
  /\ lock' = t /\ used' = used \cup {l} /\ Go(t, RentSteps(l, w))
  /\ UNCHANGED <<db, cost, due, crashes, scene, overlap>>

\* History: some other task that settles leases is at work when t begins to.
Settlers == Stoppers \cup Sweepers
Overlaps(t) == overlap' = (overlap \/ \E u \in Settlers \ {t} : ~Resting(u))

\* /api/stop of a lease that is active. (Otherwise the request is refused.)
StopLease(t, l) ==
  /\ Resting(t) /\ lock = NoTask /\ view.state[l] = "active"
  /\ lock' = t /\ Go(t, StopLeaseSteps(l, view.host[l])) /\ Overlaps(t)
  /\ UNCHANGED <<db, cost, due, used, crashes, scene>>

\* Broken: leases that have ended are found again.
FindExpiredAll == due

FindExpired == {l \in due : view.state[l] = "active"}

\* The watchdog's round: it takes no lock.
Sweep(t) ==
  /\ Resting(t) /\ FindExpired # {}
  /\ LET ids == SetToSeq(FindExpired)
     IN  Go(t, SweepSteps([i \in DOMAIN ids |-> [lease |-> ids[i], worker |-> view.host[ids[i]]]]))
  /\ Overlaps(t)
  /\ UNCHANGED <<db, cost, lock, due, used, crashes, scene>>

\* A worker registers or reports its state.
Report(t, w, available) ==
  /\ Resting(t)
  /\ Go(t, << Do(IF available THEN "free" ELSE "leased", CHOOSE l \in Leases : TRUE, w),
              Do("commit", CHOOSE l \in Leases : TRUE, w) >>)
  /\ UNCHANGED <<db, cost, lock, due, used, crashes, scene, overlap>>
-----------------------------------------------------------------------------
(* The statements.                                                          *)

\* Broken: marking a worker LEASED marks its leases active.
WrittenRevives(s, c) ==
  CASE s.op = "insert" -> [view EXCEPT !.state[s.lease] = "active", !.host[s.lease] = s.worker]
    [] s.op = "end"    -> [view EXCEPT !.state[s.lease] = "completed"]
    [] s.op = "free"   -> [view EXCEPT !.worker[s.worker] = "AVAILABLE"]
    [] s.op = "leased" -> [view EXCEPT !.state = [l \in Leases |->
                             IF @[l] # "none" /\ view.host[l] = s.worker THEN "active" ELSE @[l]]]
    [] s.op = "charge" -> [view EXCEPT !.consumer = @ - c, !.charges[s.lease] = @ + 1]
    [] s.op = "pay"    -> [view EXCEPT !.provider = @ + (c * 19) \div 20]
    [] s.op = "fee"    -> [view EXCEPT !.platform = @ + c \div 20]
    [] OTHER           -> view    \* a row of the audit trail, which nothing here reads

\* The database after an INSERT or UPDATE.
Written(s, c) ==
  CASE s.op = "insert" -> [view EXCEPT !.state[s.lease] = "active", !.host[s.lease] = s.worker]
    [] s.op = "end"    -> [view EXCEPT !.state[s.lease] = "completed"]
    [] s.op = "free"   -> [view EXCEPT !.worker[s.worker] = "AVAILABLE"]
    [] s.op = "leased" -> [view EXCEPT !.worker[s.worker] = "LEASED"]
    [] s.op = "charge" -> [view EXCEPT !.consumer = @ - c, !.charges[s.lease] = @ + 1]
    [] s.op = "pay"    -> [view EXCEPT !.provider = @ + (c * 19) \div 20]
    [] s.op = "fee"    -> [view EXCEPT !.platform = @ + c \div 20]
    [] OTHER           -> view    \* a row of the audit trail, which nothing here reads

\* Broken: no index on the active leases.
IndexAllowsAny(s) == TRUE

\* idx_leases_worker_active: a worker's second active lease is refused.
IndexAllows(s) == s.op = "insert" => ActiveOn(s.worker) = {}

Next1(t) == Go(t, Tail(prog[t]))

\* A statement that changes rows opens a transaction if the connection is in none.
Write(t) ==
  /\ ~Resting(t) /\ Head1(t).op \in {"insert", "end", "free", "leased", "charge", "pay", "fee",
                                     "log_charge", "log_payout", "log_fee"}
  /\ IndexAllows(Head1(t))
  /\ view' = Written(Head1(t), cost[t]) /\ tx' = TRUE
  /\ Next1(t) /\ UNCHANGED <<disk, cost, lock, due, used, crashes, scene, overlap>>

\* The INSERT of a lease raises: rent_hashpower gives its lock back, and the transaction stays open.
InsertFails(t) ==
  /\ ~Resting(t) /\ ~IndexAllows(Head1(t))
  /\ tx' = TRUE /\ Go(t, << >>) /\ lock' = NoTask
  /\ UNCHANGED <<disk, view, cost, due, used, crashes, scene, overlap>>

\* Whoever commits commits what the connection has written.
Commit(t) ==
  /\ ~Resting(t) /\ Head1(t).op = "commit"
  /\ disk' = view /\ tx' = FALSE
  /\ Next1(t) /\ UNCHANGED <<view, cost, lock, due, used, crashes, scene, overlap>>

WorkerFree(w) == ActiveOn(w) = {}

\* rent_hashpower's second look; a worker with an active lease ends the request.
Active(t) ==
  /\ ~Resting(t) /\ Head1(t).op = "active"
  /\ IF WorkerFree(Head1(t).worker)
       THEN Next1(t) /\ UNCHANGED lock
       ELSE Go(t, << >>) /\ lock' = NoTask
  /\ UNCHANGED <<db, cost, due, used, crashes, scene, overlap>>

Unlock(t) ==
  /\ ~Resting(t) /\ Head1(t).op = "unlock"
  /\ lock' = NoTask /\ Next1(t)
  /\ UNCHANGED <<db, cost, due, used, crashes, scene, overlap>>

\* assign_task or release is published; a task that settles afterwards looks its lease up again.
Publish(t) ==
  /\ ~Resting(t) /\ Head1(t).op \in {"assign", "release"}
  /\ Next1(t) /\ UNCHANGED <<db, cost, lock, due, used, crashes, scene, overlap>>

Begin(t) ==
  /\ ~Resting(t) /\ Head1(t).op = "begin" /\ ~tx
  /\ tx' = TRUE /\ Next1(t)
  /\ UNCHANGED <<disk, view, cost, lock, due, used, crashes, scene, overlap>>

\* BEGIN IMMEDIATE inside a transaction is an error: the handler rolls back and gives up.
BeginFails(t) ==
  /\ ~Resting(t) /\ Head1(t).op = "begin" /\ tx
  /\ view' = disk /\ tx' = FALSE
  /\ Go(t, SubSeq(prog[t], Len(SettleSteps(1, 1)) + 1, Len(prog[t])))
  /\ UNCHANGED <<disk, cost, lock, due, used, crashes, scene, overlap>>

\* The balance is read, and the cost cut to it.
ReadBalance(t) ==
  /\ ~Resting(t) /\ Head1(t).op = "balance"
  /\ cost' = [cost EXCEPT ![t] = IF view.consumer >= Cost THEN Cost
                                  ELSE IF view.consumer >= 0 THEN view.consumer ELSE 0]
  /\ Next1(t) /\ UNCHANGED <<db, lock, due, used, crashes, scene, overlap>>

\* The settlement record; a second one for the same lease raises, which ends the request or the
\* sweep's round and leaves the transaction open.
Record(t) ==
  /\ ~Resting(t) /\ Head1(t).op = "record"
  /\ tx' = TRUE
  /\ IF Head1(t).lease \in view.record
       THEN Go(t, << >>) /\ UNCHANGED view
       ELSE Next1(t) /\ view' = [view EXCEPT !.record = @ \cup {Head1(t).lease}]
  /\ UNCHANGED <<disk, cost, lock, due, used, crashes, scene, overlap>>

TaskStep(t) ==
  \/ Write(t) \/ InsertFails(t) \/ Commit(t) \/ Active(t) \/ Unlock(t) \/ Publish(t)
  \/ Begin(t) \/ BeginFails(t) \/ ReadBalance(t) \/ Record(t)
-----------------------------------------------------------------------------
\* A lease's duration, longer than a statement takes, ends.
Elapse(l) ==
  /\ disk.state[l] = "active" /\ l \notin due
  /\ due' = due \cup {l} /\ UNCHANGED <<db, prog, cost, lock, used, crashes, scene, overlap>>

\* The server is killed and started again.
Crash ==
  /\ crashes < scene.kills /\ crashes' = crashes + 1
  /\ view' = disk /\ tx' = FALSE /\ lock' = NoTask
  /\ prog' = [t \in Tasks |-> << >>] /\ cost' = [t \in Tasks |-> 0]
  /\ UNCHANGED <<disk, due, used, scene, overlap>>

MarketNext ==
  \/ \E t \in Renters \cap scene.tasks, l \in scene.rents, w \in scene.workers : Rent(t, l, w)
  \/ \E t \in Stoppers \cap scene.tasks, l \in scene.stops : StopLease(t, l)
  \/ \E t \in Sweepers \cap scene.tasks : Sweep(t)
  \/ \E t \in Reporters \cap scene.tasks, w \in scene.workers, a \in BOOLEAN : Report(t, w, a)
  \/ \E t \in Tasks : TaskStep(t)
  \/ \E l \in scene.ends : Elapse(l)
  \/ Crash

\* The event loop runs every coroutine that can go on, and the watchdog wakes every five seconds.
Fairness == \A t \in Tasks : WF_marketVars(TaskStep(t)) /\ (t \in Sweepers => WF_marketVars(t \in scene.tasks /\ Sweep(t)))

MarketSpec == MarketInit /\ [][MarketNext]_marketVars /\ Fairness
-----------------------------------------------------------------------------
\* A worker never has two active leases, in what tasks see and on disk: the look-up is under a lock
\* that the expiry sweep does not take, registrations and status messages make a leased worker
\* AVAILABLE, a rollback brings a lease back whose worker was rented meanwhile, and the server may be
\* killed at any point; the index is what is left to refuse the second.
OneOn(d) ==
  \A l, m \in Leases : d.state[l] = "active" /\ d.state[m] = "active" /\ d.host[l] = d.host[m] => l = m
OneLeasePerWorker == OneOn(view) /\ OneOn(disk)

\* Until one settlement begins while another is under way, no lease is charged twice: by a stop and a
\* sweep that follow each other, by two rounds of the sweep, across kills.
ChargedOnce == ~overlap => \A l \in Leases : view.charges[l] =< 1

\* What of the money paid in a database lacks, and a task between the charge and the commit of a
\* settlement.
Missing(d) == Balance - (d.consumer + d.provider + d.platform)
MidSettlement(t) ==
  ~Resting(t) /\ \/ Head1(t).op \in {"pay", "fee", "log_charge", "log_payout", "log_fee"}
                 \/ Head1(t).op = "commit" /\ Len(prog[t]) > 1 /\ prog[t][2].op = "record"

\* Until two settlements overlap, money is never made, the consumer is never overdrawn, and a kill loses
\* at most what one lease costs: whatever the other tasks commit, the balances of a server that was
\* not killed add up whenever no settlement is under way.
MoneyKept ==
  ~overlap =>
    /\ disk.consumer >= 0 /\ Missing(disk) \in 0..(crashes + 1) * Cost
    /\ (\A t \in Tasks : ~MidSettlement(t)) => Missing(view) = Missing(disk) /\ Missing(disk) =< crashes * Cost

\* Until two settlements overlap, part of one gets on disk in one way only: another task commits
\* between the settlement's charge and its own commit.
PartialByOthersOnly ==
  [][~overlap' /\ Missing(disk) = 0 /\ Missing(disk') # 0 =>
       \E t, u \in Tasks : t # u /\ Commit(t) /\ MidSettlement(u)]_marketVars

\* A lease whose end is on disk stays ended and keeps its worker, whoever rolls back.
EndedStays ==
  [][\A l \in Leases : disk.state[l] = "completed" =>
       disk'.state[l] = "completed" /\ disk'.host[l] = disk.host[l]]_marketVars

Book ==
  INSTANCE LeaseBook WITH state <- disk.state, host <- disk.host, charges <- disk.charges, alone <- ~overlap

\* The leases on disk keep what LeaseBook promises, over one connection that every task commits and
\* rolls back, and across kills.
ImplementsBook == Book!BookSpec

\* A lease whose time is over ends (server killed or not): the watchdog's rounds reach it.
ExpiredEnds == []<>(\A l \in due : view.state[l] # "active")

\* "no partial state on crash or concurrent access": what is on disk never lacks part of a
\* settlement, so the balances always add up to what was paid in.
NoPartialState == disk.consumer + disk.provider + disk.platform = Balance

\* "lease_id TEXT NOT NULL UNIQUE": a lease is settled once. No lease is charged twice, whoever
\* stops it while the watchdog's round is under way.
NeverChargedTwice == \A l \in Leases : disk.charges[l] =< 1

\* One lease per worker; until two settlements overlap, one charge per lease and no money made.
MarketInvariant == MarketTypeOK /\ OneLeasePerWorker /\ ChargedOnce /\ MoneyKept
==============================================================================
