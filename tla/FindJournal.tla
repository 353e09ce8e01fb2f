----------------------------- MODULE FindJournal -----------------------------
(***************************************************************************)
(* The durable queue of finds (journal/FindJournal.cpp): one SQLite row    *)
(* per find, every method one transaction under the journal's mutex. The   *)
(* module is a set of operators on the table                               *)
(*                                                                         *)
(*   rows \in [Finds -> Row]                                               *)
(*                                                                         *)
(* where a find is its row id (ids grow in append order) and a find that   *)
(* is not journaled yet has status Absent. A row keeps                     *)
(*                                                                         *)
(*   status                                                                *)
(*   attempts  attempt_count, counted up to AttemptCap only                *)
(*   wait      time left until next_attempt_at; 0 stands for NULL or past  *)
(*   tried     xuni_windows_tried                                          *)
(*                                                                         *)
(* The payload columns never change after the insert: KindOf, MemOf and    *)
(* Valid give them.                                                        *)
(***************************************************************************)
EXTENDS Integers, FiniteSets

CONSTANTS
  Finds,        \* ids of the finds of this run
  KindOf,       \* payload kind of each find
  MemOf,        \* memory cost m baked into each find's hash
  Valid,        \* finds whose payload append does not reject
  AttemptCap,   \* bound: attempt counts above it behave alike
  BackoffBase,  \* backoff_base_ms
  BackoffCap,   \* backoff_cap_ms
  MaxWindows    \* xuni_max_windows

(* Doubling the base AttemptCap times reaches the cap, so that counting    *)
(* further would not change any delay. (That the products are natural      *)
(* numbers is arithmetic the provers are not told about powers of two.)    *)
ASSUME JournalAssumption ==
  /\ Finds \subseteq Nat \ {0}
  /\ KindOf \in [Finds -> {"XEN11", "XUNI"}]
  /\ MemOf \in [Finds -> Nat]
  /\ Valid \subseteq Finds
  /\ AttemptCap \in Nat /\ BackoffBase \in Nat \ {0} /\ BackoffCap \in Nat
  /\ \A n \in 0..AttemptCap : BackoffBase * 2^n \in Nat
  /\ BackoffBase * 2^AttemptCap >= BackoffCap
  /\ MaxWindows \in Nat

Owed == {"Pending", "AcceptedUnconfirmed", "ParkedDifficulty", "ParkedXuniWindow"}
Closed == {"Dead", "PermanentlyInvalid", "Quarantined"}
Statuses == Owed \cup Closed \cup {"Absent", "Acked"}

Row == [status : Statuses, attempts : 0..AttemptCap, wait : 0..BackoffCap, tried : 0..MaxWindows]

EmptyRow == [status |-> "Absent", attempts |-> 0, wait |-> 0, tried |-> 0]

(* The delay of backoffTimeIso_, without and with a Retry-After header.    *)
Backoff(n) ==
  LET d == BackoffBase * 2^n IN IF d <= BackoffCap THEN d ELSE BackoffCap
RetryDelay(seconds) == IF seconds <= BackoffCap THEN seconds ELSE BackoffCap
-----------------------------------------------------------------------------
(* ON CONFLICT(key) DO NOTHING: a find that has a row keeps it. *)
AppendFind(rows, f) ==
  IF rows[f].status # "Absent" THEN rows
  ELSE [rows EXCEPT ![f] = [EmptyRow EXCEPT !.status =
                              IF f \in Valid THEN "Pending" ELSE "PermanentlyInvalid"]]

(* Unconditional on the row's present status, as the UPDATE is. *)
RecordAttempt(rows, f, status, wait) ==
  [rows EXCEPT ![f] = [status |-> status,
                       attempts |-> IF rows[f].attempts < AttemptCap THEN rows[f].attempts + 1
                                                                      ELSE AttemptCap,
                       wait |-> wait,
                       tried |-> rows[f].tried]]

(* Broken: no condition on the status. *)
UnparkForDifficultyAny(rows, d) ==
  [f \in Finds |-> IF rows[f].status # "Absent" /\ MemOf[f] >= d
                   THEN [rows[f] EXCEPT !.status = "Pending", !.wait = 0]
                   ELSE rows[f]]

UnparkForDifficulty(rows, d) ==
  [f \in Finds |->
     IF rows[f].status = "ParkedDifficulty" /\ MemOf[f] >= d
     THEN [rows[f] EXCEPT !.status = "Pending", !.wait = 0]
     ELSE rows[f]]

(* Broken: one window too few, one too many. *)
UnparkXuniEarlyDeath(rows) ==
  [f \in Finds |->
     IF rows[f].status # "ParkedXuniWindow" THEN rows[f]
     ELSE IF rows[f].tried + 1 >= MaxWindows
          THEN [rows[f] EXCEPT !.status = "Dead", !.wait = 0]
          ELSE [rows[f] EXCEPT !.status = "Pending", !.tried = rows[f].tried + 1, !.wait = 0]]
UnparkXuniLateDeath(rows) ==
  [f \in Finds |->
     IF rows[f].status # "ParkedXuniWindow" THEN rows[f]
     ELSE IF rows[f].tried > MaxWindows
          THEN [rows[f] EXCEPT !.status = "Dead", !.wait = 0]
          ELSE [rows[f] EXCEPT !.status = "Pending", !.tried = rows[f].tried + 1, !.wait = 0]]

UnparkXuniForWindow(rows) ==
  [f \in Finds |->
     IF rows[f].status # "ParkedXuniWindow" THEN rows[f]
     ELSE IF rows[f].tried >= MaxWindows
          THEN [rows[f] EXCEPT !.status = "Dead", !.wait = 0]
          ELSE [rows[f] EXCEPT !.status = "Pending", !.tried = rows[f].tried + 1, !.wait = 0]]

Due(rows, status) == {f \in Finds : rows[f].status = status /\ rows[f].wait = 0}

(* ORDER BY id ASC LIMIT n *)
FirstOf(S, n) == {f \in S : Cardinality({g \in S : g < f}) < n}

(* Broken: one mixed slice, sorted by kind afterwards. *)
FetchMixedSlice(rows, kind, limit) ==
  {f \in FirstOf(Due(rows, "Pending"), limit) : KindOf[f] = kind}

FetchEligibleOfKind(rows, kind, limit) ==
  FirstOf({f \in Due(rows, "Pending") : KindOf[f] = kind}, limit)

(* Broken: looks for rows that are still Pending. *)
FetchAwaitingPending(rows, limit) ==
  {f \in FirstOf(Due(rows, "Pending"), limit) : rows[f].status = "AcceptedUnconfirmed"}

FetchAwaitingConfirmation(rows, limit) == FirstOf(Due(rows, "AcceptedUnconfirmed"), limit)

(* One unit of the wall clock, seen by every next_attempt_at <= now. *)
ElapseRows(rows) ==
  [f \in Finds |-> [rows[f] EXCEPT !.wait = IF rows[f].wait = 0 THEN 0 ELSE rows[f].wait - 1]]
=============================================================================
