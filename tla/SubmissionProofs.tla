-------------------------- MODULE SubmissionProofs --------------------------
(***************************************************************************)
(* Proofs about SubmissionManager, for every set of finds, every payload,  *)
(* every difficulty range, window length, budget, limit and fault set.     *)
(***************************************************************************)
EXTENDS SubmissionManager, FiniteSetTheorems, WellFoundedInduction, TLAPS

Table == [Finds -> Row]

-----------------------------------------------------------------------------
(* What the journal's methods do to types and statuses *)

(* A backoff is a delay within its cap.                                     *)
LEMMA BackoffType == \A n \in 0..AttemptCap : Backoff(n) \in 0..BackoffCap
BY JournalAssumption DEF Backoff

(* A Retry-After is cut to the longest delay.                               *)
LEMMA RetryDelayType == \A s \in Nat : RetryDelay(s) \in 0..BackoffCap
BY JournalAssumption DEF RetryDelay

(* The row of a find that was not made yet.                                 *)
LEMMA EmptyRowType == EmptyRow \in Row
BY JournalAssumption DEF EmptyRow, Row, Statuses

(* append() writes rows.                                                    *)
LEMMA AppendType ==
  ASSUME NEW t \in Table, NEW f \in Finds, t[f].status = "Absent"
  PROVE  /\ AppendFind(t, f) \in Table
         /\ AppendFind(t, f)[f].status \in {"Pending", "PermanentlyInvalid"}
         /\ \A g \in Finds \ {f} : AppendFind(t, f)[g] = t[g]
<1>1. [EmptyRow EXCEPT !.status = IF f \in Valid THEN "Pending" ELSE "PermanentlyInvalid"] \in Row
  BY EmptyRowType DEF Row, Statuses, Owed, Closed
<1>2. [EmptyRow EXCEPT !.status = IF f \in Valid THEN "Pending" ELSE "PermanentlyInvalid"].status
        \in {"Pending", "PermanentlyInvalid"}
  BY EmptyRowType DEF Row
<1>3. QED
  BY <1>1, <1>2 DEF AppendFind, Table

(* recordAttempt() writes rows.                                             *)
LEMMA RecordType ==
  ASSUME NEW t \in Table, NEW f \in Finds, NEW s \in Statuses, NEW w \in 0..BackoffCap
  PROVE  /\ RecordAttempt(t, f, s, w) \in Table
         /\ RecordAttempt(t, f, s, w)[f].status = s
         /\ RecordAttempt(t, f, s, w)[f].tried = t[f].tried
         /\ \A g \in Finds \ {f} : RecordAttempt(t, f, s, w)[g] = t[g]
<1> DEFINE r == [status |-> s,
                 attempts |-> IF t[f].attempts < AttemptCap THEN t[f].attempts + 1 ELSE AttemptCap,
                 wait |-> w, tried |-> t[f].tried]
<1>1. t[f] \in Row
  BY DEF Table
<1>2. r \in Row
  BY <1>1, JournalAssumption DEF Row
<1>3. r.status = s /\ r.tried = t[f].tried
  OBVIOUS
<1> HIDE DEF r
<1>4. RecordAttempt(t, f, s, w) = [t EXCEPT ![f] = r]
  BY DEF RecordAttempt, r
<1>5. QED
  BY <1>2, <1>3, <1>4 DEF Table

(* An unparked row is a row.                                                *)
LEMMA FreedRow ==
  ASSUME NEW r \in Row, NEW n \in 0..MaxWindows
  PROVE  /\ [r EXCEPT !.status = "Pending", !.wait = 0] \in Row
         /\ [r EXCEPT !.status = "Pending", !.wait = 0].status = "Pending"
         /\ [r EXCEPT !.status = "Pending", !.tried = n, !.wait = 0] \in Row
         /\ [r EXCEPT !.status = "Pending", !.tried = n, !.wait = 0].status = "Pending"
<1>1. "Pending" \in Statuses /\ 0 \in 0..BackoffCap
  BY JournalAssumption DEF Statuses, Owed
<1>2. QED
  BY <1>1 DEF Row

(* A buried row is a row.                                                   *)
LEMMA DeadRow ==
  ASSUME NEW r \in Row
  PROVE  /\ [r EXCEPT !.status = "Dead", !.wait = 0] \in Row
         /\ [r EXCEPT !.status = "Dead", !.wait = 0].status = "Dead"
         /\ [r EXCEPT !.status = "Dead", !.wait = 0].tried = r.tried
<1>1. "Dead" \in Statuses /\ 0 \in 0..BackoffCap
  BY JournalAssumption DEF Statuses, Closed
<1>2. QED
  BY <1>1 DEF Row

(* The release of parked rows keeps the table typed.                        *)
LEMMA UnparkType ==
  ASSUME NEW t \in Table, NEW d
  PROVE  /\ UnparkForDifficulty(t, d) \in Table
         /\ \A f \in Finds :
              \/ UnparkForDifficulty(t, d)[f] = t[f]
              \/ t[f].status = "ParkedDifficulty" /\ UnparkForDifficulty(t, d)[f].status = "Pending"
<1>1. \A f \in Finds : t[f] \in Row
  BY DEF Table
<1>2. \A f \in Finds : /\ [t[f] EXCEPT !.status = "Pending", !.wait = 0] \in Row
                       /\ [t[f] EXCEPT !.status = "Pending", !.wait = 0].status = "Pending"
  <2>1. 0 \in 0..MaxWindows
    BY JournalAssumption
  <2>2. QED
    BY <1>1, <2>1, FreedRow
<1>3. QED
  BY <1>1, <1>2 DEF UnparkForDifficulty, Table

(* The window edge keeps the table typed.                                   *)
LEMMA UnparkXuniType ==
  ASSUME NEW t \in Table
  PROVE  /\ UnparkXuniForWindow(t) \in Table
         /\ \A f \in Finds :
              \/ UnparkXuniForWindow(t)[f] = t[f]
              \/ /\ t[f].status = "ParkedXuniWindow"
                 /\ \/ UnparkXuniForWindow(t)[f].status = "Pending"
                    \/ /\ UnparkXuniForWindow(t)[f].status = "Dead"
                       /\ UnparkXuniForWindow(t)[f].tried = MaxWindows
<1> DEFINE dead(f) == [t[f] EXCEPT !.status = "Dead", !.wait = 0]
           freed(f) == [t[f] EXCEPT !.status = "Pending", !.tried = t[f].tried + 1, !.wait = 0]
<1>1. \A f \in Finds : t[f] \in Row
  BY DEF Table
<1>2. \A f \in Finds : t[f].tried >= MaxWindows =>
        dead(f) \in Row /\ dead(f).status = "Dead" /\ dead(f).tried = MaxWindows
  <2> TAKE f \in Finds
  <2> HAVE t[f].tried >= MaxWindows
  <2>1. t[f].tried = MaxWindows
    BY <1>1, JournalAssumption DEF Row
  <2>2. QED
    BY <1>1, <2>1, DeadRow
<1>3. \A f \in Finds : ~(t[f].tried >= MaxWindows) =>
        freed(f) \in Row /\ freed(f).status = "Pending"
  <2> TAKE f \in Finds
  <2> HAVE ~(t[f].tried >= MaxWindows)
  <2>1. t[f].tried + 1 \in 0..MaxWindows
    BY <1>1, JournalAssumption DEF Row
  <2>2. QED
    BY <1>1, <2>1, FreedRow
<1>4. \A f \in Finds :
        UnparkXuniForWindow(t)[f] = IF t[f].status # "ParkedXuniWindow" THEN t[f]
                                    ELSE IF t[f].tried >= MaxWindows THEN dead(f) ELSE freed(f)
  BY DEF UnparkXuniForWindow
<1>5. UnparkXuniForWindow(t) = [f \in Finds |-> UnparkXuniForWindow(t)[f]]
  BY DEF UnparkXuniForWindow
<1> HIDE DEF dead, freed
<1>6. \A f \in Finds : UnparkXuniForWindow(t)[f] \in Row
  BY <1>1, <1>2, <1>3, <1>4
<1>7. QED
  BY <1>2, <1>3, <1>4, <1>5, <1>6 DEF Table

(* Time passing keeps the table typed.                                      *)
LEMMA ElapseType ==
  ASSUME NEW t \in Table
  PROVE  /\ ElapseRows(t) \in Table
         /\ \A f \in Finds : /\ ElapseRows(t)[f].status = t[f].status
                             /\ ElapseRows(t)[f].tried = t[f].tried
<1>1. \A f \in Finds : t[f] \in Row
  BY DEF Table
<1>2. \A f \in Finds :
        LET r == [t[f] EXCEPT !.wait = IF t[f].wait = 0 THEN 0 ELSE t[f].wait - 1]
        IN  r \in Row /\ r.status = t[f].status /\ r.tried = t[f].tried
  BY <1>1, JournalAssumption DEF Row
<1>3. QED
  BY <1>2 DEF ElapseRows, Table

(* A fetch returns rows of the status it asks for.                          *)
LEMMA FetchType ==
  ASSUME NEW t
  PROVE  /\ \A k, n : FetchEligibleOfKind(t, k, n) \subseteq Finds
         /\ \A k, n : \A f \in FetchEligibleOfKind(t, k, n) :
              t[f].status = "Pending" /\ KindOf[f] = k
         /\ \A n : FetchAwaitingConfirmation(t, n) \subseteq Finds
         /\ \A n : \A f \in FetchAwaitingConfirmation(t, n) : t[f].status = "AcceptedUnconfirmed"
BY DEF FetchEligibleOfKind, FetchAwaitingConfirmation, FirstOf, Due

-----------------------------------------------------------------------------
(* The inductive invariant. VerdictSound says what a classification can be *)
(* while it waits to be recorded, WindowedAreXuni that only XUNIs meet the *)
(* window rule.                                                            *)

VerdictSound ==
  /\ verdict.status \notin {"Absent", "Acked", "Dead"}
  /\ verdict.status = "ParkedXuniWindow" => pc = "record" /\ KindOf[cur] = "XUNI"

WindowedAreXuni ==
  \A f \in Finds : rows[f].status = "ParkedXuniWindow" => KindOf[f] = "XUNI"

Points == Submitting \cup {"top", "probeUnpark", "confirm", "confirming", "halted"}

Verdicts ==
  [status : Statuses, hint : Difficulties \cup {0}, health : {"good", "fail", "busy"}]

(* The rows, and what the threads hold about them. *)
Ledger ==
  /\ rows \in Table
  /\ stored \subseteq Finds /\ serverDiff \in Difficulties
  /\ pc \in Points
  /\ verdict \in Verdicts
  /\ batch \subseteq Finds
  /\ OwnRowStable
  /\ VerdictSound

(* What one step may do to one row; every branch names who does it. *)
RowMoves(f) ==
  \/ rows'[f].status = rows[f].status /\ rows'[f].tried = rows[f].tried
  \/ rows[f].status = "Absent" /\ rows'[f].status \in {"Pending", "PermanentlyInvalid"}
  \/ rows[f].status = "ParkedDifficulty" /\ rows'[f].status = "Pending"
  \/ /\ pc = "top" /\ rows[f].status = "ParkedXuniWindow"
     /\ \/ rows'[f].status = "Pending"
        \/ rows'[f].status = "Dead" /\ rows'[f].tried = MaxWindows
  \/ /\ \/ pc \in Submitting /\ f = cur /\ rows[f].status = "Pending"
        \/ f \in batch /\ rows[f].status = "AcceptedUnconfirmed"
     /\ \/ rows'[f].status \in {"Pending", "AcceptedUnconfirmed", "ParkedDifficulty",
                                "Quarantined", "PermanentlyInvalid"}
        \/ rows'[f].status = "ParkedXuniWindow" /\ KindOf[f] = "XUNI"
        \/ rows'[f].status = "Acked" /\ f \in stored

(* Recording an outcome changes the row of the find submitted, and no other.*)
LEMMA FinishMoves ==
  ASSUME Ledger, pc \in Submitting, NEW s, NEW w \in 0..BackoffCap, Finish(s, w),
         \/ s \in {"Pending", "AcceptedUnconfirmed", "ParkedDifficulty",
                   "Quarantined", "PermanentlyInvalid"}
         \/ s = "ParkedXuniWindow" /\ KindOf[cur] = "XUNI"
         \/ s = "Acked" /\ cur \in stored
  PROVE  rows' \in Table /\ \A f \in Finds : RowMoves(f)
<1>1. cur \in Finds /\ rows[cur].status = "Pending"
  BY DEF Ledger, OwnRowStable
<1>2. s \in Statuses
  BY DEF Statuses, Owed, Closed
<1>3. rows \in Table
  BY DEF Ledger
<1>4. rows' = RecordAttempt(rows, cur, s, w)
  BY DEF Finish
<1>5. /\ rows' \in Table
      /\ rows'[cur].status = s
      /\ \A g \in Finds \ {cur} : rows'[g] = rows[g]
  BY <1>1, <1>2, <1>3, <1>4, RecordType
<1>6. QED
  BY <1>1, <1>5 DEF RowMoves

(* Every step changes each row in one of five ways, or not at all.          *)
LEMMA RowEffects ==
  ASSUME Ledger, [Next]_vars
  PROVE  rows' \in Table /\ \A f \in Finds : RowMoves(f)
<1>0. rows \in Table /\ \A f \in Finds : rows[f] \in Row
  BY DEF Ledger, Table
<1>1. CASE UNCHANGED rows
  BY <1>0, <1>1 DEF RowMoves
<1>2. CASE ProbeUnpark \/ HintUnpark
  <2>1. rows' = UnparkForDifficulty(rows, verdict.hint)
    BY <1>2 DEF ProbeUnpark, HintUnpark
  <2>2. QED
    BY <1>0, <2>1, UnparkType DEF RowMoves
<1>3. CASE PollUnparks
  <2>1. rows' = UnparkForDifficulty(rows, pollD) \/ rows' = rows
    BY <1>3 DEF PollUnparks
  <2>2. QED
    BY <1>0, <2>1, UnparkType DEF RowMoves
<1>4. CASE Select
  <2>1. pc = "top" /\ (rows' = UnparkXuniForWindow(rows) \/ rows' = rows)
    BY <1>4 DEF Select
  <2>2. QED
    BY <1>0, <2>1, UnparkXuniType DEF RowMoves
<1>5. CASE PreParkFind
  <2>1. pc \in Submitting /\ rows' = RecordAttempt(rows, cur, "ParkedDifficulty", 0)
    BY <1>5 DEF PreParkFind, Submitting
  <2>2. cur \in Finds /\ rows[cur].status = "Pending"
    BY <2>1 DEF Ledger, OwnRowStable
  <2>3. "ParkedDifficulty" \in Statuses /\ 0 \in 0..BackoffCap
    BY JournalAssumption DEF Statuses, Owed
  <2>4. /\ rows' \in Table
        /\ rows'[cur].status = "ParkedDifficulty"
        /\ \A g \in Finds \ {cur} : rows'[g] = rows[g]
    BY <1>0, <2>1, <2>2, <2>3, RecordType
  <2>5. QED
    BY <2>1, <2>2, <2>4 DEF RowMoves
<1>6. CASE Record
  <2>1. PICK w \in IF verdict.status = "Pending" THEN RetryWaits(cur) ELSE {0} :
          Finish(verdict.status, w)
    BY <1>6 DEF Record
  <2>2. pc \in Submitting
    BY <1>6 DEF Record, Submitting
  <2>3. cur \in Finds
    BY <2>2 DEF Ledger, OwnRowStable
  <2>4. rows[cur].attempts \in 0..AttemptCap
    BY <1>0, <2>3 DEF Row
  <2>5. RetryWaits(cur) \subseteq 0..BackoffCap
    BY <2>4, BackoffType, RetryDelayType, SubmissionAssumption DEF RetryWaits
  <2>6. w \in 0..BackoffCap
    BY <2>1, <2>5, JournalAssumption
  <2>7. \/ verdict.status \in {"Pending", "AcceptedUnconfirmed", "ParkedDifficulty",
                               "Quarantined", "PermanentlyInvalid"}
        \/ verdict.status = "ParkedXuniWindow" /\ KindOf[cur] = "XUNI"
    BY DEF Ledger, VerdictSound, Verdicts, Statuses, Owed, Closed
  <2>8. QED
    BY <2>1, <2>2, <2>6, <2>7, FinishMoves
<1>7. CASE Lookup
  <2>1. PICK o \in LookupOutcomes(cur) : Finish(ConfirmedStatus(o), ConfirmWait(cur, o))
    BY <1>7 DEF Lookup
  <2>2. pc \in Submitting
    BY <1>7 DEF Lookup, Submitting
  <2>3. cur \in Finds
    BY <2>2 DEF Ledger, OwnRowStable
  <2>4. rows[cur].attempts \in 0..AttemptCap
    BY <1>0, <2>3 DEF Row
  <2>5. ConfirmWait(cur, o) \in 0..BackoffCap
    BY <2>4, BackoffType, JournalAssumption DEF ConfirmWait
  <2>6. \/ ConfirmedStatus(o) \in {"Pending", "AcceptedUnconfirmed"}
        \/ ConfirmedStatus(o) = "Acked" /\ cur \in stored
    BY SubmissionAssumption DEF ConfirmedStatus, LookupOutcomes
  <2>7. QED
    BY <2>1, <2>2, <2>5, <2>6, FinishMoves
<1>8. CASE ConfirmOne
  <2>1. PICK f \in batch : \E o \in LookupOutcomes(f) :
          rows' = RecordAttempt(rows, f, ConfirmedStatus(o), ConfirmWait(f, o))
    BY <1>8 DEF ConfirmOne
  <2>2. PICK o \in LookupOutcomes(f) :
          rows' = RecordAttempt(rows, f, ConfirmedStatus(o), ConfirmWait(f, o))
    BY <2>1
  <2>3. f \in Finds /\ rows[f].status = "AcceptedUnconfirmed"
    BY DEF Ledger, OwnRowStable
  <2>4. rows[f].attempts \in 0..AttemptCap
    BY <1>0, <2>3 DEF Row
  <2>5. ConfirmWait(f, o) \in 0..BackoffCap
    BY <2>4, BackoffType, JournalAssumption DEF ConfirmWait
  <2>6. \/ ConfirmedStatus(o) \in {"Pending", "AcceptedUnconfirmed"}
        \/ ConfirmedStatus(o) = "Acked" /\ f \in stored
    BY SubmissionAssumption DEF ConfirmedStatus, LookupOutcomes
  <2>7. ConfirmedStatus(o) \in Statuses
    BY <2>6 DEF Statuses, Owed
  <2>8. /\ rows' \in Table
        /\ rows'[f].status = ConfirmedStatus(o)
        /\ \A g \in Finds \ {f} : rows'[g] = rows[g]
    BY <1>0, <2>2, <2>3, <2>5, <2>7, RecordType
  <2>9. QED
    BY <2>3, <2>6, <2>8 DEF RowMoves
<1>9. CASE \E f \in Finds : Capture(f)
  <2>1. PICK f \in Finds : rows[f].status = "Absent" /\ rows' = AppendFind(rows, f)
    BY <1>9 DEF Capture
  <2>2. QED
    BY <1>0, <2>1, AppendType DEF RowMoves
<1>10. CASE Tick
  <2>1. rows' = ElapseRows(rows)
    BY <1>10 DEF Tick
  <2>2. QED
    BY <1>0, <2>1, ElapseType DEF RowMoves
<1>11. \/ UNCHANGED rows
       \/ ProbeUnpark \/ HintUnpark \/ PollUnparks \/ Select \/ PreParkFind \/ Record
       \/ Lookup \/ ConfirmOne \/ (\E f \in Finds : Capture(f)) \/ Tick
  BY DEF Next, Thread, Poller, vars, ProbeWait, ProbeAnswered, ProbeDisturbed, Paced, Judge,
         Submit, ObserveHint, ConfirmFetch, Halt, Restart, PollReads, PollObserves,
         DifficultyMoves, WeatherChanges
<1>12. QED
  BY <1>1, <1>2, <1>3, <1>4, <1>5, <1>6, <1>7, <1>8, <1>9, <1>10, <1>11

(* A classification is a verdict.                                           *)
LEMMA ClassifyType ==
  ASSUME NEW r, NEW k, NEW d \in Difficulties \cup {0}
  PROVE  /\ Classify(r, k, d) \in Verdicts
         /\ Classify(r, k, d).status \notin {"Absent", "Acked", "Dead"}
         /\ Classify(r, k, d).status = "ParkedXuniWindow" =>
              k = "XUNI" /\ AfterVerdict(Classify(r, k, d)) = "record"
<1> USE DEF Classify, Verdict
<1>1. Classify(r, k, d) \in Verdicts
  BY DEF Verdicts, Statuses, Owed, Closed
<1>2. Classify(r, k, d).status \notin {"Absent", "Acked", "Dead"}
  OBVIOUS
<1>3. Classify(r, k, d).status = "ParkedXuniWindow" => k = "XUNI" /\ Classify(r, k, d).hint = 0
  OBVIOUS
<1> HIDE DEF Classify
<1>4. QED
  BY <1>1, <1>2, <1>3 DEF AfterVerdict

(* So is its absence.                                                       *)
LEMMA NoVerdictType ==
  /\ NoVerdict \in Verdicts
  /\ NoVerdict.status = "Pending"
  /\ \A d \in Difficulties : /\ [NoVerdict EXCEPT !.hint = d] \in Verdicts
                             /\ [NoVerdict EXCEPT !.hint = d].status = "Pending"
BY DEF NoVerdict, Verdict, Verdicts, Statuses, Owed

(* After Settle nothing is held, so nothing can be disturbed. *)
LEMMA SettledLedger ==
  ASSUME NEW p \in {"top", "confirm", "halted"}, Settle(p),
         rows' \in Table, stored' \subseteq Finds, serverDiff' \in Difficulties
  PROVE  Ledger'
<1>1. /\ pc' = p /\ verdict' = NoVerdict /\ batch' = {}
  BY DEF Settle
<1>2. pc' \in Points /\ pc' \notin Submitting
  BY <1>1 DEF Points, Submitting
<1>3. verdict' \in Verdicts /\ verdict'.status = "Pending"
  BY <1>1, NoVerdictType
<1>4. OwnRowStable' /\ VerdictSound'
  BY <1>1, <1>2, <1>3 DEF OwnRowStable, VerdictSound
<1>5. QED
  BY <1>1, <1>2, <1>3, <1>4 DEF Ledger

(* A step of someone else leaves what the thread holds as it is. *)
LEMMA ForeignLedger ==
  ASSUME Ledger, rows' \in Table, stored' \subseteq Finds, serverDiff' \in Difficulties,
         UNCHANGED <<pc, cur, verdict, batch>>,
         \A f \in Finds : \/ rows'[f].status = rows[f].status
                          \/ rows[f].status \in {"Absent", "ParkedDifficulty"}
  PROVE  Ledger'
<1>1. \A f \in Finds : rows[f].status \in {"Pending", "AcceptedUnconfirmed"} =>
                         rows'[f].status = rows[f].status
  OBVIOUS
<1>2. OwnRowStable'
  BY <1>1 DEF Ledger, OwnRowStable
<1>3. VerdictSound'
  BY DEF Ledger, VerdictSound
<1>4. QED
  BY <1>2, <1>3 DEF Ledger

(* Every step keeps the ledger.                                             *)
LEMMA NextLedger ==
  ASSUME Ledger, [Next]_vars
  PROVE  Ledger'
<1>0. /\ rows' \in Table /\ \A f \in Finds : RowMoves(f)
      /\ rows \in Table
  BY RowEffects DEF Ledger
<1>1. stored' \subseteq Finds /\ serverDiff' \in Difficulties
  <2>1. CASE Submit
    <3>1. cur \in Finds
      BY <2>1 DEF Submit, Ledger, OwnRowStable, Submitting
    <3>2. QED
      BY <2>1, <3>1 DEF Submit, ServerInserts, Ledger
  <2>2. CASE DifficultyMoves
    BY <2>2 DEF DifficultyMoves, Ledger
  <2>3. CASE UNCHANGED <<stored, serverDiff>>
    BY <2>3 DEF Ledger
  <2>4. QED
    BY <2>1, <2>2, <2>3
    DEF Next, Thread, Poller, vars, envVars, ProbeWait, ProbeAnswered, ProbeUnpark,
        ProbeDisturbed, Paced, Select, Judge, PreParkFind, ObserveHint, HintUnpark, Record,
        Lookup, ConfirmFetch, ConfirmOne, Halt, Restart, PollReads, PollObserves, PollUnparks,
        Capture, WeatherChanges, Tick
<1>2. CASE \/ ProbeWait \/ ProbeUnpark \/ ProbeDisturbed \/ PreParkFind \/ Record \/ Lookup
           \/ Halt \/ Restart
  <2>1. \E p \in {"top", "confirm", "halted"} : Settle(p)
    BY <1>2 DEF ProbeWait, ProbeUnpark, ProbeDisturbed, PreParkFind, Record, Lookup, Halt,
                Restart, Finish, EndStep
  <2>2. QED
    BY <1>0, <1>1, <2>1, SettledLedger
<1>3. CASE ProbeAnswered
  <2>1. CASE Settle("top")
    BY <1>0, <1>1, <2>1, SettledLedger
  <2>2. CASE /\ pc' = "probeUnpark" /\ verdict' = [NoVerdict EXCEPT !.hint = serverDiff]
             /\ UNCHANGED <<rows, cur, batch>>
    <3>1. verdict' \in Verdicts /\ verdict'.status = "Pending"
      BY <2>2, NoVerdictType DEF Ledger
    <3>2. pc' \in Points /\ pc' \notin Submitting
      BY <2>2 DEF Points, Submitting
    <3>3. OwnRowStable' /\ VerdictSound'
      BY <2>2, <3>1, <3>2 DEF Ledger, OwnRowStable, VerdictSound
    <3>4. QED
      BY <1>0, <1>1, <2>2, <3>1, <3>2, <3>3 DEF Ledger
  <2>3. QED
    BY <1>3, <2>1, <2>2 DEF ProbeAnswered, EndStep
<1>4. CASE Paced \/ Judge \/ ObserveHint \/ HintUnpark
  <2>1. /\ UNCHANGED <<cur, verdict, batch>>
        /\ pc' \in Points
        /\ pc' \in Submitting => pc \in Submitting
    BY <1>4 DEF Paced, Judge, ObserveHint, HintUnpark, GoTo, Points, Submitting
  <2>2. \A f \in Finds : \/ rows'[f].status = rows[f].status
                         \/ rows[f].status = "ParkedDifficulty"
    BY <1>4, UnparkType, <1>0 DEF Paced, Judge, ObserveHint, HintUnpark
  <2>3. OwnRowStable'
    BY <2>1, <2>2 DEF Ledger, OwnRowStable
  <2>4. VerdictSound'
    BY <1>4, <2>1 DEF Ledger, VerdictSound, Paced, Judge, ObserveHint, HintUnpark
  <2>5. QED
    BY <1>0, <1>1, <2>1, <2>3, <2>4 DEF Ledger
<1>5. CASE Select
  <2>1. CASE GoTo("confirm")
    <3>1. UNCHANGED <<cur, verdict, batch>> /\ pc' = "confirm"
      BY <2>1 DEF GoTo
    <3>2. \A f \in batch : rows'[f].status = "AcceptedUnconfirmed"
      BY <1>0, <1>5, UnparkXuniType DEF Select, Ledger, OwnRowStable
    <3>3. pc' \in Points /\ pc' \notin Submitting
      BY <3>1 DEF Points, Submitting
    <3>4. VerdictSound'
      BY <1>5, <3>1 DEF Select, Ledger, VerdictSound
    <3>5. QED
      BY <1>0, <1>1, <3>1, <3>2, <3>3, <3>4 DEF Ledger, OwnRowStable
  <2>2. CASE ~GoTo("confirm")
    <3> DEFINE xuni == IF WindowOpen THEN FetchEligibleOfKind(rows', "XUNI", FetchLimit) ELSE {}
               eligible == FetchEligibleOfKind(rows', "XEN11", FetchLimit) \cup xuni
    <3>1. cur' \in eligible /\ pc' = "judge" /\ UNCHANGED <<verdict, batch>>
      BY <1>5, <2>2 DEF Select
    <3>2. cur' \in Finds /\ rows'[cur'].status = "Pending"
      BY <3>1, FetchType
    <3>3. \A f \in batch : rows'[f].status = "AcceptedUnconfirmed"
      BY <1>0, <1>5, UnparkXuniType DEF Select, Ledger, OwnRowStable
    <3>4. VerdictSound'
      BY <1>5, <3>1 DEF Select, Ledger, VerdictSound
    <3>5. QED
      BY <1>0, <1>1, <3>1, <3>2, <3>3, <3>4 DEF Ledger, OwnRowStable, Points, Submitting
  <2>3. QED
    BY <2>1, <2>2
<1>6. CASE Submit
  <2>1. cur \in Finds /\ rows[cur].status = "Pending"
    BY <1>6 DEF Submit, Ledger, OwnRowStable, Submitting
  <2>2. UNCHANGED <<rows, cur, batch>>
    BY <1>6 DEF Submit
  <2>3. \E r, d : d \in Difficulties \cup {0} /\ verdict' = Classify(r, KindOf[cur], d)
    BY <1>6 DEF Submit, Ledger
  <2>4. /\ verdict' \in Verdicts
        /\ verdict'.status \notin {"Absent", "Acked", "Dead"}
        /\ verdict'.status = "ParkedXuniWindow" => KindOf[cur] = "XUNI" /\ pc' = "record"
    BY <1>6, <2>3, ClassifyType DEF Submit
  <2>5. pc' \in Submitting
    BY <1>6 DEF Submit, AfterVerdict, Submitting
  <2>6. OwnRowStable'
    BY <2>1, <2>2, <2>5 DEF Ledger, OwnRowStable
  <2>7. VerdictSound'
    BY <2>1, <2>2, <2>4 DEF VerdictSound
  <2>8. QED
    BY <1>0, <1>1, <2>2, <2>4, <2>5, <2>6, <2>7 DEF Ledger, Points
<1>7. CASE ConfirmFetch
  <2>1. CASE Settle("top")
    BY <1>0, <1>1, <2>1, SettledLedger
  <2>2. CASE /\ batch' = Awaiting /\ pc' = "confirming" /\ UNCHANGED <<rows, cur, verdict>>
    <3>1. Awaiting \subseteq Finds /\ \A f \in Awaiting : rows[f].status = "AcceptedUnconfirmed"
      BY FetchType DEF Awaiting
    <3>2. pc = "confirm"
      BY <1>7 DEF ConfirmFetch
    <3>3. QED
      BY <1>0, <1>1, <2>2, <3>1, <3>2
      DEF Ledger, OwnRowStable, VerdictSound, Points, Submitting
  <2>3. QED
    BY <1>7, <2>1, <2>2 DEF ConfirmFetch, EndStep
<1>8. CASE ConfirmOne
  <2>1. CASE Settle("top")
    BY <1>0, <1>1, <2>1, SettledLedger
  <2>2. CASE ~Settle("top")
    <3>1. PICK f \in batch :
            /\ \E o \in LookupOutcomes(f) :
                 rows' = RecordAttempt(rows, f, ConfirmedStatus(o), ConfirmWait(f, o))
            /\ batch' = batch \ {f} /\ UNCHANGED <<pc, cur, verdict>>
      BY <1>8, <2>2 DEF ConfirmOne, EndStep
    <3>2. \A g \in Finds \ {f} : rows'[g] = rows[g]
      BY <1>0, <3>1 DEF RecordAttempt, Table
    <3>3. pc = "confirming"
      BY <1>8 DEF ConfirmOne
    <3>4. QED
      BY <1>0, <1>1, <3>1, <3>2, <3>3 DEF Ledger, OwnRowStable, VerdictSound, Points, Submitting
  <2>3. QED
    BY <2>1, <2>2
<1>9. CASE PollReads \/ PollObserves \/ PollUnparks
  <2>1. UNCHANGED <<pc, cur, verdict, batch>>
    BY <1>9 DEF PollReads, PollObserves, PollUnparks, threadVars
  <2>2. \A f \in Finds : \/ rows'[f].status = rows[f].status
                         \/ rows[f].status \in {"Absent", "ParkedDifficulty"}
    BY <1>0, <1>9, UnparkType DEF PollReads, PollObserves, PollUnparks
  <2>3. QED
    BY <1>0, <1>1, <2>1, <2>2, ForeignLedger
<1>10. CASE \/ (\E f \in Finds : Capture(f)) \/ DifficultyMoves \/ WeatherChanges \/ Tick
            \/ UNCHANGED vars
  <2>1. UNCHANGED <<pc, cur, verdict, batch>>
    BY <1>10 DEF Capture, DifficultyMoves, WeatherChanges, Tick, vars, threadVars
  <2>2. \A f \in Finds : \/ rows'[f].status = rows[f].status
                         \/ rows[f].status \in {"Absent", "ParkedDifficulty"}
    BY <1>0, <1>10, AppendType, ElapseType
    DEF Capture, DifficultyMoves, WeatherChanges, Tick, vars
  <2>3. QED
    BY <1>0, <1>1, <2>1, <2>2, ForeignLedger
<1>11. QED
  BY <1>2, <1>3, <1>4, <1>5, <1>6, <1>7, <1>8, <1>9, <1>10 DEF Next, Thread, Poller

(* The empty table is a ledger.                                             *)
LEMMA InitLedger == Init => Ledger
<1> SUFFICES ASSUME Init PROVE Ledger
  OBVIOUS
<1>1. rows \in Table /\ stored \subseteq Finds /\ serverDiff \in Difficulties
  BY EmptyRowType DEF Init, Table
<1>2. pc \in Points /\ pc \notin Submitting /\ batch = {}
  BY DEF Init, Points, Submitting
<1>3. verdict \in Verdicts /\ verdict.status = "Pending"
  BY NoVerdictType DEF Init
<1>4. QED
  BY <1>1, <1>2, <1>3 DEF Ledger, OwnRowStable, VerdictSound

(* What the thread fetched stays as fetched until it writes it, for any    *)
(* number of finds and whatever the poller, the lanes and restarts do.     *)
THEOREM SubmissionOwnRowStable == Spec => []OwnRowStable
<1>1. Ledger /\ [Next]_vars => Ledger'
  BY NextLedger
<1>2. Ledger => OwnRowStable
  BY DEF Ledger
<1>3. QED
  BY InitLedger, <1>1, <1>2, PTL DEF Spec

-----------------------------------------------------------------------------
(* Acknowledgement and burial *)

(* The server forgets nothing.                                              *)
LEMMA StoredGrows ==
  ASSUME [Next]_vars
  PROVE  stored \subseteq stored'
<1>1. CASE Submit
  BY <1>1 DEF Submit, ServerInserts
<1>2. CASE UNCHANGED stored
  BY <1>2
<1>3. QED
  BY <1>1, <1>2
  DEF Next, Thread, Poller, vars, envVars, ProbeWait, ProbeAnswered, ProbeUnpark,
      ProbeDisturbed, Paced, Select, Judge, PreParkFind, ObserveHint, HintUnpark, Record,
      Lookup, ConfirmFetch, ConfirmOne, Halt, Restart, PollReads, PollObserves, PollUnparks,
      Capture, DifficultyMoves, WeatherChanges, Tick

Burial == WindowedAreXuni /\ DeadOnlyExhausted

(* Every step keeps acked finds stored and burials justified.               *)
LEMMA NextFates ==
  ASSUME Ledger, [Next]_vars
  PROVE  /\ AckedStored => AckedStored'
         /\ Burial => Burial'
<1>1. \A f \in Finds : RowMoves(f)
  BY RowEffects
<1>2. AckedStored => AckedStored'
  BY <1>1, StoredGrows DEF AckedStored, RowMoves
<1>3. Burial => Burial'
  BY <1>1 DEF Burial, WindowedAreXuni, DeadOnlyExhausted, RowMoves
<1>4. QED
  BY <1>2, <1>3

(* The empty table has neither acked nor buried finds.                      *)
LEMMA InitFates == Init => AckedStored /\ Burial
BY DEF Init, EmptyRow, AckedStored, Burial, WindowedAreXuni, DeadOnlyExhausted

(* No loss, duplication, lie or crash makes the journal claim a find the   *)
(* server does not hold.                                                   *)
THEOREM SubmissionAckedStored == Spec => []AckedStored
<1>1. Ledger /\ [Next]_vars => Ledger'
  BY NextLedger
<1>2. Ledger /\ AckedStored /\ [Next]_vars => AckedStored'
  BY NextFates
<1>3. QED
  BY InitLedger, InitFates, <1>1, <1>2, PTL DEF Spec

(* unparkXuniForWindow buries XUNIs only, and only with the budget used up. *)
THEOREM SubmissionDeadOnlyExhausted == Spec => []DeadOnlyExhausted
<1>1. Ledger /\ [Next]_vars => Ledger'
  BY NextLedger
<1>2. Ledger /\ Burial /\ [Next]_vars => Burial'
  BY NextFates
<1>3. Burial => DeadOnlyExhausted
  BY DEF Burial
<1>4. QED
  BY InitLedger, InitFates, <1>1, <1>2, <1>3, PTL DEF Spec

-----------------------------------------------------------------------------
(* Refinement of FindLifecycle *)

(* A step that changes no abstract state is a stutter of the lifecycle.     *)
LEMMA SameStep ==
  ASSUME stored' = stored,
         \A f \in Finds : AbstractState(rows'[f].status) = AbstractState(rows[f].status)
  PROVE  UNCHANGED Lifecycle!lvars
BY DEF Lifecycle!lvars

(* A step that changes one row is a step of the lifecycle or a stutter.     *)
LEMMA OneRowStep ==
  ASSUME NEW f \in Finds, stored' = stored,
         \A g \in Finds \ {f} : rows'[g] = rows[g],
         rows[f].status \in Owed,
         \/ rows'[f].status \in Owed \cup Closed
         \/ rows'[f].status = "Acked" /\ f \in stored
  PROVE  [Lifecycle!LNext]_(Lifecycle!lvars)
<1> USE DEF AbstractState, Owed, Closed
<1>1. CASE rows'[f].status \in Owed
  BY <1>1, SameStep
<1>2. CASE rows'[f].status \in Closed
  <2>1. Lifecycle!Close({f})
    BY <1>2 DEF Lifecycle!Close
  <2>2. QED
    BY <2>1 DEF Lifecycle!LNext
<1>3. CASE rows'[f].status = "Acked" /\ f \in stored
  <2>1. Lifecycle!Ack(f)
    BY <1>3 DEF Lifecycle!Ack
  <2>2. QED
    BY <2>1 DEF Lifecycle!LNext
<1>4. QED
  BY <1>1, <1>2, <1>3

(* recordAttempt rewrites one row the thread holds. *)
LEMMA WriteStep ==
  ASSUME Ledger, [Next]_vars, UNCHANGED stored,
         NEW f, NEW s, NEW w, rows' = RecordAttempt(rows, f, s, w),
         \/ pc \in Submitting /\ f = cur
         \/ pc \notin Submitting /\ f \in batch
  PROVE  [Lifecycle!LNext]_(Lifecycle!lvars)
<1>1. f \in Finds /\ rows[f].status \in {"Pending", "AcceptedUnconfirmed"}
  BY DEF Ledger, OwnRowStable
<1>2. \A g \in Finds \ {f} : rows'[g] = rows[g]
  BY <1>1 DEF RecordAttempt, Ledger, Table
<1>3. RowMoves(f)
  BY <1>1, RowEffects
<1>4. \/ rows'[f].status \in Owed \cup Closed
      \/ rows'[f].status = "Acked" /\ f \in stored
  BY <1>1, <1>3 DEF RowMoves, Owed, Closed
<1>5. rows[f].status \in Owed
  BY <1>1 DEF Owed
<1>6. QED
  BY <1>1, <1>2, <1>4, <1>5, OneRowStep

(* Every step is a step of the lifecycle or a stutter.                      *)
LEMMA StepSimulation ==
  ASSUME Ledger, [Next]_vars
  PROVE  [Lifecycle!LNext]_(Lifecycle!lvars)
<1>0. rows \in Table
  BY DEF Ledger
<1>1. CASE UNCHANGED <<rows, stored>>
  BY <1>1, SameStep
<1>2. CASE ProbeUnpark \/ HintUnpark \/ PollUnparks
  <2>1. UNCHANGED stored
    BY <1>2 DEF ProbeUnpark, HintUnpark, PollUnparks, envVars
  <2>2. \E d : rows' = UnparkForDifficulty(rows, d) \/ rows' = rows
    BY <1>2 DEF ProbeUnpark, HintUnpark, PollUnparks
  <2>3. \A f \in Finds : AbstractState(rows'[f].status) = AbstractState(rows[f].status)
    BY <1>0, <2>2, UnparkType DEF AbstractState, Owed
  <2>4. QED
    BY <2>1, <2>3, SameStep
<1>3. CASE Tick
  <2>1. UNCHANGED stored /\ rows' = ElapseRows(rows)
    BY <1>3 DEF Tick, envVars
  <2>2. QED
    BY <1>0, <2>1, ElapseType, SameStep
<1>4. CASE Select
  <2> DEFINE S == {f \in Finds : rows[f].status # "Dead" /\ rows'[f].status = "Dead"}
  <2>1. UNCHANGED stored /\ (rows' = UnparkXuniForWindow(rows) \/ rows' = rows)
    BY <1>4 DEF Select, envVars
  <2>2. \A f \in S : AbstractState(rows[f].status) = "owed"
    BY <1>0, <2>1, UnparkXuniType DEF AbstractState, Owed
  <2>3. \A f \in Finds : AbstractState(rows'[f].status)
                           = IF f \in S THEN "closed" ELSE AbstractState(rows[f].status)
    BY <1>0, <2>1, UnparkXuniType DEF AbstractState, Owed
  <2>4. Lifecycle!Close(S)
    BY <2>1, <2>2, <2>3 DEF Lifecycle!Close
  <2>5. QED
    BY <2>4 DEF Lifecycle!LNext
<1>5. CASE PreParkFind \/ Record \/ Lookup
  <2>1. UNCHANGED stored
    BY <1>5 DEF PreParkFind, Record, Lookup, envVars
  <2>2. pc \in Submitting
    BY <1>5 DEF PreParkFind, Record, Lookup, Submitting
  <2>3. \E s, w : rows' = RecordAttempt(rows, cur, s, w)
    BY <1>5 DEF PreParkFind, Record, Lookup, Finish
  <2>4. QED
    BY <2>1, <2>2, <2>3, WriteStep
<1>6. CASE ConfirmOne
  <2>1. UNCHANGED stored /\ pc \notin Submitting
    BY <1>6 DEF ConfirmOne, envVars, Submitting
  <2>2. \E f \in batch : \E s, w : rows' = RecordAttempt(rows, f, s, w)
    BY <1>6 DEF ConfirmOne
  <2>3. QED
    BY <2>1, <2>2, WriteStep
<1>7. CASE \E f \in Finds : Capture(f)
  <2>1. PICK f \in Finds : Capture(f)
    BY <1>7
  <2>2. /\ UNCHANGED stored /\ rows[f].status = "Absent"
        /\ rows' = AppendFind(rows, f)
    BY <2>1 DEF Capture, envVars
  <2>3. /\ rows'[f].status \in {"Pending", "PermanentlyInvalid"}
        /\ \A g \in Finds \ {f} : rows'[g] = rows[g]
    BY <1>0, <2>2, AppendType
  <2>4. Lifecycle!Capture(f)
    BY <2>2, <2>3 DEF Lifecycle!Capture, AbstractState, Owed
  <2>5. QED
    BY <2>4 DEF Lifecycle!LNext
<1>8. CASE Submit
  <2>1. cur \in Finds /\ rows[cur].status = "Pending"
    BY <1>8 DEF Submit, Ledger, OwnRowStable, Submitting
  <2>2. UNCHANGED rows
    BY <1>8 DEF Submit
  <2>3. CASE UNCHANGED stored
    BY <2>2, <2>3, SameStep
  <2>4. CASE stored' = stored \cup {cur}
    <3>1. Lifecycle!Store(cur)
      BY <2>1, <2>2, <2>4 DEF Lifecycle!Store, AbstractState, Owed
    <3>2. QED
      BY <2>1, <3>1 DEF Lifecycle!LNext
  <2>5. QED
    BY <1>8, <2>3, <2>4 DEF Submit, ServerInserts
<1>9. \/ UNCHANGED <<rows, stored>>
      \/ ProbeUnpark \/ HintUnpark \/ PollUnparks \/ Tick \/ Select \/ PreParkFind \/ Record
      \/ Lookup \/ ConfirmOne \/ (\E f \in Finds : Capture(f)) \/ Submit
  BY DEF Next, Thread, Poller, vars, envVars, ProbeWait, ProbeAnswered, ProbeDisturbed, Paced,
         Judge, ObserveHint, ConfirmFetch, Halt, Restart, PollReads, PollObserves,
         DifficultyMoves, WeatherChanges
<1>10. QED
  BY <1>1, <1>2, <1>3, <1>4, <1>5, <1>6, <1>7, <1>8, <1>9

(* The first state is one of the lifecycle.                                 *)
LEMMA InitSimulation == Init => Lifecycle!LInit
<1> SUFFICES ASSUME Init PROVE Lifecycle!LInit
  OBVIOUS
<1>1. \A f \in Finds : rows[f].status = "Absent"
  BY DEF Init, EmptyRow
<1>2. AbstractState("Absent") = "absent"
  BY DEF AbstractState, Owed
<1>3. [f \in Finds |-> AbstractState(rows[f].status)] = [f \in Finds |-> "absent"]
  BY <1>1, <1>2
<1>4. QED
  BY <1>3 DEF Init, Lifecycle!LInit

(* Every behaviour of the submission layer, crashes and faults included,   *)
(* is a behaviour of the abstract life of finds: none is lost, revived,    *)
(* acked without being stored, or stored without being owed.               *)
THEOREM SubmissionImplementsLifecycle == Spec => ImplementsLifecycle
<1>1. Ledger /\ [Next]_vars => Ledger'
  BY NextLedger
<1>2. Ledger /\ [Next]_vars => [Lifecycle!LNext]_(Lifecycle!lvars)
  BY StepSimulation
<1>3. QED
  BY InitLedger, InitSimulation, <1>1, <1>2, PTL DEF Spec, ImplementsLifecycle, Lifecycle!LSpec

-----------------------------------------------------------------------------
(* The breaker and the thread. Between steps a HALF_OPEN breaker always    *)
(* has its admission: only a submission in flight may hold it.             *)

InFlight == {"submit", "hint", "hintUnpark", "lookup", "record"}

BreakerSound ==
  /\ breaker.state = "Open" => pc \notin Submitting \cup {"confirming"}
  /\ breaker.state = "HalfOpen" /\ pc \notin InFlight \cup {"halted"} => breaker.admission

Door == breaker \in BreakerRecord /\ BreakerSound

(* The next probe is scheduled within the cap.                              *)
LEMMA ScheduleType ==
  ASSUME NEW b \in BreakerRecord
  PROVE  /\ ScheduleProbe(b, 0) \in BreakerRecord
         /\ ScheduleProbe(b, 0).state = b.state
<1>1. /\ b.interval \in Nat /\ ActiveCap(b) \in Nat
  BY BreakerAssumption DEF BreakerRecord, ActiveCap, Lesser
<1>2. ProbeDelay(b, 0) \in Nat
  BY <1>1 DEF ProbeDelay, ProbeBaseDelay, Lesser
<1>3. QED
  BY <1>2 DEF ScheduleProbe, BreakerRecord

(* A probe keeps the breaker typed.                                         *)
LEMMA ProbeType ==
  ASSUME NEW b \in BreakerRecord, b.state = "Open"
  PROVE  /\ OnProbeSuccess(b) \in BreakerRecord
         /\ OnProbeSuccess(b).state = "HalfOpen" /\ OnProbeSuccess(b).admission
         /\ OnProbeFailure(b, 0) \in BreakerRecord
         /\ OnProbeFailure(b, 0).state = "Open"
<1>1. [b EXCEPT !.state = "HalfOpen", !.admission = TRUE] \in BreakerRecord
  BY DEF BreakerRecord, BreakerStates
<1>2. Lesser(2 * b.interval, ProbeCap) \in Nat
  BY BreakerAssumption DEF Lesser, BreakerRecord
<1>3. [b EXCEPT !.interval = Lesser(2 * b.interval, ProbeCap)] \in BreakerRecord
  BY <1>2 DEF BreakerRecord
<1>4. [b EXCEPT !.interval = Lesser(2 * b.interval, ProbeCap)].state = "Open"
  BY DEF BreakerRecord
<1>5. OnProbeSuccess(b) = [b EXCEPT !.state = "HalfOpen", !.admission = TRUE]
  BY DEF OnProbeSuccess
<1>6. OnProbeSuccess(b).state = "HalfOpen" /\ OnProbeSuccess(b).admission
  BY <1>5 DEF BreakerRecord
<1>7. OnProbeFailure(b, 0) \in BreakerRecord /\ OnProbeFailure(b, 0).state = "Open"
  BY <1>3, <1>4, ScheduleType DEF OnProbeFailure
<1>8. QED
  BY <1>1, <1>5, <1>6, <1>7

(* Opening keeps the breaker typed.                                         *)
LEMMA OpenType ==
  ASSUME NEW b \in BreakerRecord, NEW n \in Nat, NEW i \in Nat
  PROVE  /\ OpenBreaker([b EXCEPT !.failures = n, !.interval = i], 0) \in BreakerRecord
         /\ OpenBreaker([b EXCEPT !.failures = n, !.interval = i], 0).state = "Open"
         /\ OpenBreaker([b EXCEPT !.interval = i], 0) \in BreakerRecord
         /\ OpenBreaker([b EXCEPT !.interval = i], 0).state = "Open"
<1>1. \A c \in BreakerRecord :
        /\ [c EXCEPT !.state = "Open", !.admission = FALSE] \in BreakerRecord
        /\ [c EXCEPT !.state = "Open", !.admission = FALSE].state = "Open"
  BY DEF BreakerRecord, BreakerStates
<1>2. \A c \in BreakerRecord :
        OpenBreaker(c, 0) \in BreakerRecord /\ OpenBreaker(c, 0).state = "Open"
  BY <1>1, ScheduleType DEF OpenBreaker
<1>3. /\ [b EXCEPT !.failures = n, !.interval = i] \in BreakerRecord
      /\ [b EXCEPT !.interval = i] \in BreakerRecord
  BY DEF BreakerRecord
<1>4. QED
  BY <1>2, <1>3

(* A failure keeps the breaker typed.                                       *)
LEMMA FailureType ==
  ASSUME NEW b \in BreakerRecord
  PROVE  /\ OnVerifyTransportFailure(b, 0) \in BreakerRecord
         /\ OnVerifyTransportFailure(b, 0).state # "HalfOpen"
<1>0. b.failures + 1 \in Nat /\ b.failures \in Nat /\ FailureThreshold \in Nat
      /\ ReopenInterval(b) \in Nat /\ ProbeBase \in Nat
      /\ b.state \in BreakerStates
  BY BreakerAssumption DEF BreakerRecord, ReopenInterval, Lesser, Greater
<1>1. CASE b.state = "HalfOpen"
  <2>1. OnVerifyTransportFailure(b, 0) = OpenBreaker([b EXCEPT !.interval = ReopenInterval(b)], 0)
    BY <1>1 DEF OnVerifyTransportFailure
  <2>2. QED
    BY <1>0, <2>1, OpenType
<1>2. CASE b.state = "Closed" /\ b.failures + 1 >= FailureThreshold
  <2>1. OnVerifyTransportFailure(b, 0) =
          OpenBreaker([b EXCEPT !.failures = b.failures + 1, !.interval = ProbeBase], 0)
    BY <1>0, <1>2 DEF OnVerifyTransportFailure
  <2>2. QED
    BY <1>0, <2>1, OpenType
<1>3. CASE b.state = "Closed" /\ b.failures + 1 < FailureThreshold
  <2>1. OnVerifyTransportFailure(b, 0) = [b EXCEPT !.failures = b.failures + 1]
    BY <1>0, <1>3 DEF OnVerifyTransportFailure
  <2>2. QED
    BY <1>0, <1>3, <2>1 DEF BreakerRecord
<1>4. CASE b.state = "Open"
  BY <1>4 DEF OnVerifyTransportFailure
<1>5. QED
  BY <1>0, <1>1, <1>2, <1>3, <1>4 DEF BreakerStates

(* The outcome of a submission keeps the breaker typed.                     *)
LEMMA OutcomeType ==
  ASSUME NEW b \in BreakerRecord
  PROVE  /\ OnVerifySuccess(b) \in BreakerRecord /\ OnVerifySuccess(b).state = "Closed"
         /\ OnVerifyInconclusive(b) \in BreakerRecord
         /\ OnVerifyInconclusive(b).state = b.state
         /\ b.state = "HalfOpen" => OnVerifyInconclusive(b).admission
<1>1. OnVerifySuccess(b) \in BreakerRecord /\ OnVerifySuccess(b).state = "Closed"
  BY BreakerAssumption DEF OnVerifySuccess, BreakerRecord, BreakerStates
<1>2. (IF b.state = "HalfOpen" THEN TRUE ELSE b.admission) \in BOOLEAN
  BY Zenon DEF BreakerRecord
<1>3. /\ OnVerifyInconclusive(b) \in BreakerRecord
      /\ OnVerifyInconclusive(b).state = b.state
  BY <1>2 DEF OnVerifyInconclusive, BreakerRecord
<1>4. b.state = "HalfOpen" => OnVerifyInconclusive(b).admission
  BY DEF OnVerifyInconclusive, BreakerRecord
<1>5. QED
  BY <1>1, <1>3, <1>4

(* Calls that change neither the state nor a HALF_OPEN admission. *)
LEMMA QuietType ==
  ASSUME NEW b \in BreakerRecord, NEW x \in BOOLEAN
  PROVE  /\ SetXuniPressure(b, x) \in BreakerRecord
         /\ SetXuniPressure(b, x).state = b.state
         /\ SetXuniPressure(b, x).admission = b.admission
         /\ ElapseBreaker(b) \in BreakerRecord
         /\ ElapseBreaker(b).state = b.state
         /\ ElapseBreaker(b).admission = b.admission
<1> DEFINE c == [b EXCEPT !.pressure = x]
<1>1. /\ c \in BreakerRecord /\ c.state = b.state /\ c.admission = b.admission
      /\ ActiveCap(c) \in Nat /\ b.probeIn \in Nat
  <2>1. c \in BreakerRecord
    BY Zenon DEF BreakerRecord
  <2>2. c.state = b.state /\ c.admission = b.admission
    BY DEF BreakerRecord
  <2>3. ActiveCap(c) \in Nat
    BY BreakerAssumption DEF ActiveCap, Lesser
  <2>4. QED
    BY <2>1, <2>2, <2>3 DEF BreakerRecord
<1> HIDE DEF c
<1>2. LET d == [c EXCEPT !.probeIn = Lesser(b.probeIn, ActiveCap(c))]
      IN  d \in BreakerRecord /\ d.state = b.state /\ d.admission = b.admission
  BY <1>1 DEF Lesser, BreakerRecord
<1>3. \/ SetXuniPressure(b, x) = c
      \/ SetXuniPressure(b, x) = [c EXCEPT !.probeIn = Lesser(b.probeIn, ActiveCap(c))]
  BY DEF SetXuniPressure, c
<1>4. /\ SetXuniPressure(b, x) \in BreakerRecord
      /\ SetXuniPressure(b, x).state = b.state
      /\ SetXuniPressure(b, x).admission = b.admission
  BY <1>1, <1>2, <1>3
<1>5. /\ ElapseBreaker(b) \in BreakerRecord
      /\ ElapseBreaker(b).state = b.state
      /\ ElapseBreaker(b).admission = b.admission
  BY <1>1 DEF ElapseBreaker, BreakerRecord
<1>6. QED
  BY <1>4, <1>5

(* An admission keeps the breaker typed.                                    *)
LEMMA AdmitType ==
  ASSUME NEW b \in BreakerRecord
  PROVE  Admit(b) \in BreakerRecord /\ Admit(b).state = b.state
<1>1. [b EXCEPT !.admission = FALSE] \in BreakerRecord /\ [b EXCEPT !.admission = FALSE].state = b.state
  BY DEF BreakerRecord
<1>2. QED
  BY <1>1 DEF Admit

(* Recording an outcome leaves the admission where it belongs.              *)
LEMMA FinishDoor ==
  ASSUME Door, pc \in Submitting, NEW s, NEW w, Finish(s, w)
  PROVE  Door'
<1>1. breaker \in BreakerRecord /\ breaker.state # "Open"
  BY DEF Door, BreakerSound
<1>2. pc' = "confirm" /\ breaker' = BreakerAfter(s)
  BY DEF Finish, Settle
<1>3. /\ breaker' \in BreakerRecord
      /\ breaker'.state = "HalfOpen" => breaker'.admission
  BY <1>1, <1>2, OutcomeType, FailureType DEF BreakerAfter
<1>4. QED
  BY <1>2, <1>3 DEF Door, BreakerSound, Submitting

(* Every step keeps the admission where it belongs.                         *)
LEMMA NextDoor ==
  ASSUME Door, [Next]_vars
  PROVE  Door'
<1>0. breaker \in BreakerRecord
  BY DEF Door
<1>1. CASE ProbeUnpark \/ ProbeDisturbed \/ (ProbeAnswered /\ breaker' = OnProbeSuccess(breaker))
  <2>1. /\ pc' \notin Submitting \cup {"confirming"}
        /\ pc \in {"top", "probeUnpark"}
        /\ breaker' \in {OnProbeSuccess(breaker), OnProbeFailure(breaker, 0)}
    BY <1>1 DEF ProbeUnpark, ProbeDisturbed, ProbeAnswered, EndStep, Settle, Submitting
  <2>2. CASE breaker.state = "Open"
    BY <1>0, <2>1, <2>2, ProbeType DEF Door, BreakerSound
  <2>3. CASE breaker.state # "Open"
    <3>1. breaker' = breaker
      BY <2>1, <2>3 DEF OnProbeSuccess, OnProbeFailure
    <3>2. QED
      BY <2>1, <2>3, <3>1 DEF Door, BreakerSound, InFlight
  <2>4. QED
    BY <2>2, <2>3
<1>2. CASE ProbeAnswered /\ UNCHANGED breaker
  <2>1. breaker.state = "Open" /\ pc' \notin Submitting \cup {"confirming"}
    BY <1>2 DEF ProbeAnswered, ProbeDue, EndStep, Settle, Submitting
  <2>2. QED
    BY <1>0, <1>2, <2>1 DEF Door, BreakerSound
<1>3. CASE ProbeWait \/ Paced \/ PreParkFind \/ ConfirmFetch \/ ConfirmOne \/ Halt
  <2>1. /\ UNCHANGED breaker
        /\ pc \notin InFlight \cup {"halted"} \/ pc' = "halted"
        /\ breaker.state = "Open" => pc' \notin Submitting \cup {"confirming"}
    BY <1>3 DEF ProbeWait, Paced, PreParkFind, ConfirmFetch, ConfirmOne, Halt, Awaiting, EndStep,
                Settle, GoTo, drainVars, InFlight, Submitting, Door, BreakerSound
  <2>2. QED
    BY <1>0, <2>1 DEF Door, BreakerSound
<1>4. CASE Select
  <2>1. PICK x \in BOOLEAN : breaker' = SetXuniPressure(breaker, x)
    BY <1>4 DEF Select
  <2>2. pc = "top" /\ breaker.state # "Open"
    BY <1>4 DEF Select
  <2>3. QED
    BY <1>0, <2>1, <2>2, QuietType DEF Door, BreakerSound, InFlight
<1>5. CASE Judge
  <2>1. CASE pc' = "prepark" /\ UNCHANGED breaker
    BY <1>5, <2>1 DEF Judge, Door, BreakerSound, InFlight, Submitting
  <2>2. CASE pc' = "submit" /\ breaker' = Admit(breaker)
    <3>1. breaker.state # "Open"
      BY <1>5 DEF Judge, Door, BreakerSound, Submitting
    <3>2. QED
      BY <1>0, <2>2, <3>1, AdmitType DEF Door, BreakerSound, InFlight
  <2>3. QED
    BY <1>5, <2>1, <2>2 DEF Judge, GoTo
<1>6. CASE Submit \/ ObserveHint \/ HintUnpark
  <2>1. /\ UNCHANGED breaker
        /\ pc \in Submitting /\ pc' \in InFlight
    BY <1>6 DEF Submit, ObserveHint, HintUnpark, GoTo, AfterVerdict, drainVars, InFlight, Submitting
  <2>2. QED
    BY <2>1 DEF Door, BreakerSound
<1>7. CASE Record \/ Lookup
  <2>1. pc \in Submitting
    BY <1>7 DEF Record, Lookup, Submitting
  <2>2. \E s, w : Finish(s, w)
    BY <1>7 DEF Record, Lookup
  <2>3. QED
    BY <2>1, <2>2, FinishDoor
<1>8. CASE Restart
  <2>1. breaker' = InitBreaker
    BY <1>8 DEF Restart
  <2>2. breaker' \in BreakerRecord /\ breaker'.state = "Closed"
    BY <2>1 DEF InitBreaker, BreakerRecord, BreakerStates
  <2>3. QED
    BY <2>2 DEF Door, BreakerSound
<1>9. CASE Tick
  <2>1. UNCHANGED pc /\ breaker' = ElapseBreaker(breaker)
    BY <1>9 DEF Tick
  <2>2. QED
    BY <1>0, <2>1, QuietType DEF Door, BreakerSound
<1>10. CASE UNCHANGED <<pc, breaker>>
  BY <1>10 DEF Door, BreakerSound
<1>11. \/ UNCHANGED <<pc, breaker>>
       \/ ProbeUnpark \/ ProbeDisturbed \/ (ProbeAnswered /\ breaker' = OnProbeSuccess(breaker))
       \/ (ProbeAnswered /\ UNCHANGED breaker)
       \/ ProbeWait \/ Paced \/ PreParkFind \/ ConfirmFetch \/ ConfirmOne \/ Halt
       \/ Select \/ Judge \/ Submit \/ ObserveHint \/ HintUnpark \/ Record \/ Lookup
       \/ Restart \/ Tick
  BY DEF Next, Thread, Poller, vars, threadVars, drainVars, ProbeAnswered, PollReads,
         PollObserves, PollUnparks, Capture, DifficultyMoves, WeatherChanges
<1>12. QED
  BY <1>1, <1>2, <1>3, <1>4, <1>5, <1>6, <1>7, <1>8, <1>9, <1>10, <1>11

(* The breaker starts closed.                                               *)
LEMMA InitDoor == Init => Door
<1> SUFFICES ASSUME Init PROVE Door
  OBVIOUS
<1>1. breaker \in BreakerRecord /\ breaker.state = "Closed"
  BY DEF Init, InitBreaker, BreakerRecord, BreakerStates
<1>2. QED
  BY <1>1 DEF Door, BreakerSound

(* No /verify and no /get_block during an outage, and no find is selected  *)
(* that the breaker would then refuse: the HALF_OPEN admission is never    *)
(* lost, whatever a test submission ends in.                               *)
THEOREM SubmissionAdmissionHeld == Spec => []AdmissionHeld
<1>1. Init => Door
  BY InitDoor
<1>2. Door /\ [Next]_vars => Door'
  BY NextDoor
<1>3. Door => AdmissionHeld
  <2> SUFFICES ASSUME Door PROVE AdmissionHeld
    OBVIOUS
  <2>1. breaker.state \in BreakerStates
    BY DEF Door, BreakerRecord
  <2>2. pc \in {"judge", "prepark"} => breaker.state # "Open" /\ pc \notin InFlight \cup {"halted"}
    BY DEF Door, BreakerSound, Submitting, InFlight
  <2>3. pc \in {"judge", "prepark"} => CanAdmit(breaker)
    BY <2>1, <2>2 DEF Door, BreakerSound, CanAdmit, BreakerStates
  <2>4. QED
    BY <2>3 DEF Door, BreakerSound, AdmissionHeld
<1>4. QED
  BY <1>1, <1>2, <1>3, PTL DEF Spec

-----------------------------------------------------------------------------
(* The rest of the state: clocks, pacing, what the two observers of the     *)
(* difficulty know.                                                         *)

Gauges ==
  /\ cur \in Finds \cup {0}
  /\ rate \in Rates /\ pace \in Int
  /\ last \in Difficulties \cup {0} /\ trend \in Trends
  /\ poll \in {"idle", "got", "unpark"} /\ pollD \in Difficulties \cup {0}
  /\ phase \in 0..(HourLen - 1)

Flags == calm \in BOOLEAN /\ winOpen \in BOOLEAN /\ stepped \in BOOLEAN

(* Every step keeps the flags of the loop typed.                            *)
LEMMA NextFlagsTyped == Flags /\ [Next]_vars => Flags'
<1> SUFFICES ASSUME Flags, [Next]_vars PROVE Flags'
  OBVIOUS
<1>1. calm' = calm \/ calm' = ~calm
  BY Zenon DEF Next, Thread, Poller, vars, envVars, ProbeWait, ProbeAnswered, ProbeUnpark, ProbeDisturbed, Paced,
         Select, Judge, PreParkFind, Submit, ObserveHint, HintUnpark, Record, Lookup, ConfirmFetch,
         ConfirmOne, Halt, Restart, PollReads, PollObserves, PollUnparks, Capture, DifficultyMoves,
         WeatherChanges, Tick
<1>2. winOpen' = winOpen \/ winOpen' = WindowOpen \/ winOpen' = FALSE
  BY Zenon DEF Next, Thread, Poller, vars, drainVars, ProbeWait, ProbeAnswered, ProbeUnpark, ProbeDisturbed, Paced,
         Select, Judge, PreParkFind, Submit, ObserveHint, HintUnpark, Record, Lookup, ConfirmFetch,
         ConfirmOne, Halt, Restart, PollReads, PollObserves, PollUnparks, Capture, DifficultyMoves,
         WeatherChanges, Tick, Finish
<1>3. stepped' = stepped \/ stepped' = TRUE \/ stepped' = FALSE
  BY Zenon DEF Next, Thread, Poller, vars, threadVars, ProbeWait, ProbeAnswered, ProbeUnpark, ProbeDisturbed, Paced,
         Select, Judge, PreParkFind, Submit, ObserveHint, HintUnpark, Record, Lookup, ConfirmFetch,
         ConfirmOne, Halt, Restart, PollReads, PollObserves, PollUnparks, Capture, DifficultyMoves,
         WeatherChanges, Tick, Finish, EndStep, GoTo
<1>4. WindowOpen \in BOOLEAN
  BY DEF WindowOpen
<1>5. QED
  BY <1>1, <1>2, <1>3, <1>4, Zenon DEF Flags

(* What observeDifficulty leaves is a difficulty and a trend.               *)
LEMMA ObserveTyped ==
  ASSUME NEW d \in Difficulties \cup {0}, last \in Difficulties \cup {0}, trend \in Trends, Observe(d)
  PROVE  last' \in Difficulties \cup {0} /\ trend' \in Trends
<1>1. last \in Nat /\ d \in Nat
  BY SubmissionAssumption
<1>2. QED
  BY <1>1 DEF Observe, Trends

(* The rate stays within its limits and the interval it gives is a number.  *)
LEMMA RateTyped ==
  ASSUME NEW r \in Rates
  PROVE  /\ OnHealthyRoundTrip(r) \in Rates /\ OnThrottle(r) \in Rates /\ OnBreakerClose \in Rates
         /\ SubmitInterval(r) \in Int
BY DrainAssumption DEF Rates, OnHealthyRoundTrip, OnThrottle, OnBreakerClose, SubmitInterval

(* Recording an outcome keeps rate and pace typed.                          *)
LEMMA FinishGauges ==
  ASSUME rate \in Rates, pace \in Int, NEW s, NEW w, Finish(s, w)
  PROVE  rate' \in Rates /\ pace' \in Int /\ cur' = 0
<1>1. rate' \in Rates
  BY RateTyped DEF Finish, RateAfter
<1>2. SubmitInterval(rate') \in Int
  BY <1>1, RateTyped
<1>3. QED
  BY <1>1, <1>2 DEF Finish, Greater, Settle

(* Every step keeps difficulty, trend, clocks and counters typed.           *)
LEMMA NextGauges ==
  ASSUME Gauges, serverDiff \in Difficulties, verdict \in Verdicts, [Next]_vars
  PROVE  Gauges'
<1> USE DEF Gauges
<1>0. verdict.hint \in Difficulties \cup {0} /\ serverDiff \in Difficulties \cup {0}
  BY DEF Verdicts
<1>1. CASE Select
  <2>1. UNCHANGED <<rate, pace, obsVars, pollVars, phase>>
    BY <1>1 DEF Select
  <2>2. cur' = cur \/ cur' \in Finds
    <3> DEFINE xuni == IF WindowOpen THEN FetchEligibleOfKind(rows', "XUNI", FetchLimit) ELSE {}
               eligible == FetchEligibleOfKind(rows', "XEN11", FetchLimit) \cup xuni
    <3>1. eligible \subseteq Finds
      BY FetchType
    <3>2. cur' = cur \/ cur' \in eligible
      BY <1>1 DEF Select, GoTo
    <3>3. QED
      BY <3>1, <3>2
  <2>3. QED
    BY <2>1, <2>2 DEF obsVars, pollVars
<1>2. CASE ProbeAnswered
  <2>1. last' \in Difficulties \cup {0} /\ trend' \in Trends
    BY <1>0, <1>2, ObserveTyped DEF ProbeAnswered
  <2>2. UNCHANGED <<rate, pace, pollVars, phase>> /\ cur' \in {cur, 0}
    BY <1>2 DEF ProbeAnswered, EndStep, Settle
  <2>3. QED
    BY <2>1, <2>2 DEF pollVars
<1>3. CASE ObserveHint
  <2>1. last' \in Difficulties \cup {0} /\ trend' \in Trends
    BY <1>0, <1>3, ObserveTyped DEF ObserveHint
  <2>2. UNCHANGED <<rate, pace, pollVars, phase, cur>>
    BY <1>3 DEF ObserveHint, GoTo, drainVars
  <2>3. QED
    BY <2>1, <2>2 DEF pollVars
<1>4. CASE PollObserves
  <2>1. last' \in Difficulties \cup {0} /\ trend' \in Trends
    BY <1>4, ObserveTyped DEF PollObserves
  <2>2. UNCHANGED <<rate, pace, phase, cur>>
    BY <1>4 DEF PollObserves, threadVars, drainVars
  <2>3. poll' \in {"idle", "unpark"} /\ pollD' \in {pollD, 0}
    BY <1>4 DEF PollObserves, PollDone
  <2>4. QED
    BY <2>1, <2>2, <2>3
<1>5. CASE PollReads \/ PollUnparks
  BY <1>0, <1>5 DEF PollReads, PollUnparks, PollDone, threadVars, drainVars, obsVars
<1>6. CASE Record \/ Lookup
  <2>1. \E s, w : Finish(s, w)
    BY <1>6 DEF Record, Lookup
  <2>2. rate' \in Rates /\ pace' \in Int /\ cur' = 0
    BY <2>1, FinishGauges
  <2>3. UNCHANGED <<obsVars, pollVars, phase>>
    BY <1>6 DEF Record, Lookup
  <2>4. QED
    BY <2>2, <2>3 DEF obsVars, pollVars
<1>7. CASE Restart
  BY <1>7, RateTyped, DrainAssumption DEF Restart, Settle, Trends, Rates
<1>8. CASE Tick
  <2>1. phase' \in 0..(HourLen - 1)
    BY <1>8, SubmissionAssumption DEF Tick
  <2>2. pace' \in Int
    BY <1>8 DEF Tick, Greater
  <2>3. UNCHANGED <<cur, rate, obsVars, pollVars>>
    BY <1>8 DEF Tick
  <2>4. QED
    BY <2>1, <2>2, <2>3 DEF obsVars, pollVars
<1>9. CASE PreParkFind
  BY <1>9 DEF PreParkFind, Settle, obsVars, pollVars
<1>10. CASE cur' \in {cur, 0} /\ UNCHANGED <<rate, pace, obsVars, pollVars, phase>>
  BY <1>10 DEF obsVars, pollVars
<1>11. \/ cur' \in {cur, 0} /\ UNCHANGED <<rate, pace, obsVars, pollVars, phase>>
       \/ Select \/ ProbeAnswered \/ ObserveHint \/ PollObserves \/ PollReads \/ PollUnparks \/ Record \/ Lookup
       \/ Restart \/ Tick \/ PreParkFind
  BY DEF Next, Thread, Poller, vars, threadVars, drainVars, ProbeWait, ProbeUnpark, ProbeDisturbed, Paced, Judge,
         Submit, HintUnpark, ConfirmFetch, ConfirmOne, Halt, Capture, DifficultyMoves, WeatherChanges,
         EndStep, Settle, GoTo
<1>12. QED
  BY <1>1, <1>2, <1>3, <1>4, <1>5, <1>6, <1>7, <1>8, <1>9, <1>10, <1>11

(* SubmissionManager's fields, the journal's rows, the breaker and the      *)
(* pacing stay in their ranges, for every configuration and fault set: the  *)
(* rate within its limits, the difficulties ones the server has had.        *)
THEOREM SubmissionTypeCorrect == Spec => []TypeOK
<1> DEFINE All == Ledger /\ Door /\ Gauges /\ Flags
<1>1. Init => All
  <2> SUFFICES ASSUME Init PROVE All
    OBVIOUS
  <2>1. Flags
    BY Zenon DEF Init, Flags
  <2>2. Gauges
    BY DrainAssumption, SubmissionAssumption DEF Init, Gauges, Rates, Trends
  <2>3. Door
    BY InitDoor
  <2>4. QED
    BY <2>1, <2>2, <2>3, InitLedger
<1>2. All /\ [Next]_vars => All'
  <2> SUFFICES ASSUME All, [Next]_vars PROVE All'
    OBVIOUS
  <2>1. Gauges'
    BY NextGauges DEF Ledger
  <2>2. QED
    BY <2>1, NextLedger, NextDoor, NextFlagsTyped
<1>3. All => TypeOK
  BY DEF Ledger, Door, Gauges, Flags, TypeOK, Table, Points, Verdicts
<1> HIDE DEF All
<1>4. QED
  BY <1>1, <1>2, <1>3, PTL DEF Spec

-----------------------------------------------------------------------------
(* A set of natural numbers has a least one.                                *)
LEMMA SmallestNat == ASSUME NEW N, N \subseteq Nat, N # {} PROVE \E n \in N : \A m \in N : n <= m
<1> DEFINE R == OpToRel(<, Nat)
<1>1. IsWellFoundedOn(R, Nat)
  BY NatLessThanWellFounded
<1>2. PICK n \in N : \A m \in N : <<m, n>> \notin R
  <2> HIDE DEF R
  <2>1. QED
    BY <1>1, WFMin
<1>3. \A m \in N : ~(m < n)
  BY <1>2 DEF OpToRel
<1>4. \A m \in N : n <= m
  BY <1>3
<1>5. QED
  BY <1>4

(* A slice of a fetch is empty only when there is nothing to fetch: the     *)
(* first row of ORDER BY id is in every slice.                              *)
LEMMA SliceNotEmpty ==
  ASSUME NEW S \in SUBSET Nat, S # {}, NEW n \in Nat \ {0}
  PROVE  FirstOf(S, n) # {}
<1>1. PICK f \in S : \A g \in S : f <= g
  BY SmallestNat
<1>2. {g \in S : g < f} = {}
  <2>1. \A g \in S : g \in Nat /\ f \in Nat /\ f <= g
    BY <1>1
  <2>2. \A g \in S : ~(g < f)
    BY <2>1
  <2>3. QED
    BY <2>2
<1>3. Cardinality({g \in S : g < f}) = 0
  BY <1>2, FS_EmptySet
<1>4. QED
  BY <1>1, <1>3 DEF FirstOf

(* submitStep_ returns Idle only when nothing is due that may be submitted  *)
(* now, for every number of finds, order of ids and fetch limit: fetching   *)
(* per kind, neither kind hides the other.                                  *)
THEOREM SubmissionIdleOnlyWhenNothingDue == Spec => IdleOnlyWhenNothingDue
<1>1. ASSUME [Next]_vars, pc = "top", pc' = "confirm", pace = 0,
             NEW f \in Due(rows', "Pending")
      PROVE  KindOf[f] = "XUNI" /\ ~WindowOpen
  <2> DEFINE xuni == IF WindowOpen THEN FetchEligibleOfKind(rows', "XUNI", FetchLimit) ELSE {}
             xen11 == FetchEligibleOfKind(rows', "XEN11", FetchLimit)
             due(k) == {g \in Due(rows', "Pending") : KindOf[g] = k}
  <2>1. Select
    BY <1>1 DEF Next, Thread, Poller, vars, threadVars, ProbeWait, ProbeAnswered, ProbeUnpark, ProbeDisturbed, Paced,
         Judge, PreParkFind, Submit, ObserveHint, HintUnpark, Record, Lookup, ConfirmFetch,
         ConfirmOne, Halt, Restart, PollReads, PollObserves, PollUnparks, Capture, DifficultyMoves,
         WeatherChanges, Tick, Finish, EndStep, Settle
  <2>2. xen11 \cup xuni = {}
    BY <1>1, <2>1 DEF Select
  <2>3. f \in Finds /\ f \in Nat /\ KindOf[f] \in {"XEN11", "XUNI"}
    BY <1>1, JournalAssumption DEF Due
  <2>4. ASSUME NEW k, FetchEligibleOfKind(rows', k, FetchLimit) = {} PROVE due(k) = {}
    <3>1. due(k) \in SUBSET Nat
      BY JournalAssumption DEF Due
    <3>2. FetchEligibleOfKind(rows', k, FetchLimit) = FirstOf(due(k), FetchLimit)
      BY DEF FetchEligibleOfKind
    <3> HIDE DEF due
    <3>3. QED
      BY <2>4, <3>1, <3>2, SliceNotEmpty, SubmissionAssumption
  <2>5. f \notin due("XEN11")
    BY <2>2, <2>4
  <2>6. WindowOpen => f \notin due("XUNI")
    BY <2>2, <2>4
  <2>7. QED
    BY <1>1, <2>3, <2>5, <2>6
<1>2. [Next]_vars => [pc = "top" /\ pc' = "confirm" /\ pace = 0 =>
                        \A f \in Due(rows', "Pending") : KindOf[f] = "XUNI" /\ ~WindowOpen]_vars
  BY <1>1
<1>3. QED
  BY <1>2, PTL DEF Spec, IdleOnlyWhenNothingDue
-----------------------------------------------------------------------------
(* Parking and the floor *)

(* What an Overlooked find is: parked, although the difficulty observed     *)
(* last admits it. Releasing: somebody has observed d and is on the way to  *)
(* unparkForDifficulty(d).                                                  *)
Overlooked(f) == rows[f].status = "ParkedDifficulty" /\ last # 0 /\ MemOf[f] >= last

Releasing(d) ==
  \/ poll = "unpark" /\ pollD = d
  \/ pc \in {"probeUnpark", "hintUnpark"} /\ verdict.hint = d

(* A find is overlooked because the thread parks it by a difficulty that    *)
(* somebody else's observation has replaced, or because an observation has  *)
(* just let it through and its release is under way: nothing else in        *)
(* SubmissionManager.cpp leaves one behind.                                 *)
OverlookedByStaleParkOnly ==
  [][\A f \in Finds : Overlooked(f)' /\ ~Overlooked(f) =>
       \/ /\ cur = f /\ last' = last
          /\ pc = "prepark" \/ (pc = "record" /\ verdict.hint # last)
       \/ Releasing(last)']_vars

(* A verdict that parks waits to be recorded, and the difficulty it came    *)
(* with is above the find's.                                                *)
ParkedByFloor ==
  verdict.status = "ParkedDifficulty" =>
    pc \in {"hint", "hintUnpark", "record"} /\ MemOf[cur] < verdict.hint

(* The answer to /verify parks a find only for the difficulty that refused  *)
(* it: no fault looks like that refusal.                                    *)
LEMMA SubmitParks == ASSUME Ledger, Submit PROVE ParkedByFloor'
<1>1. cur' = cur /\ pc' = AfterVerdict(verdict') /\ serverDiff \in Difficulties
  BY DEF Submit, Ledger
<1>2. CASE verdict' = Classify(ServerResponse(cur), KindOf[cur], serverDiff)
  <2>1. CASE ServerResponse(cur) = "diff401"
    <3>1. MemOf[cur] < serverDiff
      BY <2>1 DEF ServerResponse
    <3>2. verdict'.hint = serverDiff
      BY <1>2, <2>1 DEF Classify, Verdict
    <3>3. pc' = "hint"
      BY <1>1, <3>2, SubmissionAssumption DEF AfterVerdict
    <3>4. QED
      BY <1>1, <3>1, <3>2, <3>3 DEF ParkedByFloor
  <2>2. CASE ServerResponse(cur) # "diff401"
    <3>1. verdict'.status # "ParkedDifficulty"
      BY <1>2, <2>2 DEF Classify, Verdict
    <3>2. QED
      BY <3>1 DEF ParkedByFloor
  <2>3. QED
    BY <2>1, <2>2
<1>3. ASSUME NEW r \in VerifyFaults, verdict' = Classify(r, KindOf[cur], 0) PROVE ParkedByFloor'
  <2>1. r # "diff401"
    BY SubmissionAssumption
  <2>2. verdict'.status # "ParkedDifficulty"
    BY <1>3, <2>1 DEF Classify, Verdict
  <2>3. QED
    BY <2>2 DEF ParkedByFloor
<1>4. QED
  BY <1>2, <1>3 DEF Submit

(* No step leaves a parking verdict behind, or changes the find it is for.  *)
LEMMA NextParkedByFloor == Ledger /\ ParkedByFloor /\ [Next]_vars => ParkedByFloor'
<1> SUFFICES ASSUME Ledger, ParkedByFloor, [Next]_vars PROVE ParkedByFloor'
  OBVIOUS
<1>1. CASE verdict' = NoVerdict \/ verdict' = [NoVerdict EXCEPT !.hint = serverDiff]
  <2>1. verdict'.status = "Pending"
    BY <1>1 DEF NoVerdict, Verdict
  <2>2. QED
    BY <2>1 DEF ParkedByFloor
<1>2. CASE UNCHANGED <<pc, cur, verdict>>
  BY <1>2 DEF ParkedByFloor
<1>3. CASE Paced \/ Select \/ Judge \/ ConfirmFetch \/ ConfirmOne
  <2>1. pc \in {"top", "judge", "confirm", "confirming"} /\ (verdict' = verdict \/ verdict' = NoVerdict)
    BY <1>3 DEF Paced, Select, Judge, ConfirmFetch, ConfirmOne, GoTo, EndStep, Settle
  <2>2. verdict'.status # "ParkedDifficulty"
    BY <2>1 DEF ParkedByFloor, NoVerdict, Verdict
  <2>3. QED
    BY <2>2 DEF ParkedByFloor
<1>4. CASE ObserveHint \/ HintUnpark
  BY <1>4 DEF ObserveHint, HintUnpark, GoTo, ParkedByFloor
<1>5. CASE Submit
  BY <1>5, SubmitParks
<1>6. QED
  BY <1>1, <1>2, <1>3, <1>4, <1>5
  DEF Next, Thread, Poller, vars, threadVars, ProbeWait, ProbeAnswered, ProbeUnpark, ProbeDisturbed,
      PreParkFind, Record, Lookup, Halt, Restart, PollReads, PollObserves, PollUnparks, Capture,
      DifficultyMoves, WeatherChanges, Tick, Finish, EndStep, Settle

(* Only submitStep_ parks for the difficulty: before sending, or by the     *)
(* server's answer.                                                         *)
LEMMA NewlyParked ==
  ASSUME Ledger, [Next]_vars, NEW f \in Finds,
         rows[f].status # "ParkedDifficulty", rows'[f].status = "ParkedDifficulty"
  PROVE  /\ f = cur /\ last' = last
         /\ pc = "prepark" \/ (pc = "record" /\ verdict.status = "ParkedDifficulty")
<1>0. rows \in Table /\ \A g \in Finds : rows[g] \in Row
  BY DEF Ledger, Table
<1>1. ASSUME NEW g, NEW s, NEW w, rows' = RecordAttempt(rows, g, s, w) PROVE f = g /\ s = "ParkedDifficulty"
  BY <1>0, <1>1 DEF RecordAttempt, Table
<1>2. \A o : ConfirmedStatus(o) # "ParkedDifficulty"
  BY DEF ConfirmedStatus
<1>3. ~ (UNCHANGED rows)
  OBVIOUS
<1>4. ~ (ProbeUnpark \/ HintUnpark \/ PollUnparks)
  BY <1>0, <1>3, UnparkType DEF ProbeUnpark, HintUnpark, PollUnparks
<1>5. ~ (Select \/ Tick)
  BY <1>0, <1>3, UnparkXuniType, ElapseType DEF Select, Tick
<1>6. ~ \E g \in Finds : Capture(g)
  <2> SUFFICES ASSUME NEW g \in Finds, Capture(g) PROVE FALSE
    OBVIOUS
  <2>1. rows[g].status = "Absent" /\ rows' = AppendFind(rows, g)
    BY DEF Capture
  <2>2. QED
    BY <1>0, <2>1, AppendType
<1>7. ~ (Lookup \/ ConfirmOne)
  BY <1>1, <1>2 DEF Lookup, ConfirmOne, Finish
<1>8. PreParkFind \/ Record
  BY <1>3, <1>4, <1>5, <1>6, <1>7
  DEF Next, Thread, Poller, vars, ProbeWait, ProbeAnswered, ProbeDisturbed, Paced, Judge,
      Submit, ObserveHint, ConfirmFetch, Halt, Restart, PollReads, PollObserves,
      DifficultyMoves, WeatherChanges
<1>9. CASE PreParkFind
  BY <1>1, <1>9 DEF PreParkFind, obsVars
<1>10. CASE Record
  BY <1>1, <1>10 DEF Record, Finish, obsVars
<1>11. QED
  BY <1>8, <1>9, <1>10

(* Whoever observes a difficulty that lets more finds through goes on to    *)
(* release them.                                                            *)
LEMMA ObserverReleases ==
  ASSUME [Next]_vars, last' # last
  PROVE  /\ UNCHANGED rows
         /\ last' = 0 \/ ~Releases(last') \/ Releasing(last)'
<1>1. CASE ProbeAnswered
  <2>1. last' = serverDiff /\ rows' = rows
    BY <1>1 DEF ProbeAnswered, Observe
  <2>2. Releases(last') => pc' = "probeUnpark" /\ verdict' = [NoVerdict EXCEPT !.hint = serverDiff]
    BY <1>1, <2>1 DEF ProbeAnswered
  <2>3. [NoVerdict EXCEPT !.hint = serverDiff].hint = serverDiff
    BY DEF NoVerdict, Verdict
  <2>4. QED
    BY <2>1, <2>2, <2>3 DEF Releasing
<1>2. CASE ObserveHint
  BY <1>2 DEF ObserveHint, Observe, GoTo, Releasing
<1>3. CASE PollObserves
  BY <1>3 DEF PollObserves, Observe, Releasing
<1>4. CASE Restart
  BY <1>4 DEF Restart
<1>5. QED
  BY <1>1, <1>2, <1>3, <1>4
  DEF Next, Thread, Poller, vars, obsVars, ProbeWait, ProbeUnpark, ProbeDisturbed, Paced, Select, Judge,
      PreParkFind, Submit, HintUnpark, Record, Lookup, ConfirmFetch, ConfirmOne, Halt, PollReads, PollUnparks,
      Capture, DifficultyMoves, WeatherChanges, Tick

(* What a forgotten find needs: submitStep_ writes ParkedDifficulty by a    *)
(* difficulty that is no longer the observed one. For every number of finds *)
(* and range of difficulties, no other step overlooks a find, except the    *)
(* observation whose own release is still to come.                          *)
THEOREM SubmissionOverlooks == Spec => OverlookedByStaleParkOnly
<1>1. ASSUME TypeOK, TypeOK', Ledger, ParkedByFloor, [Next]_vars, NEW f \in Finds,
             Overlooked(f)', ~Overlooked(f)
      PROVE  \/ /\ cur = f /\ last' = last
                /\ pc = "prepark" \/ (pc = "record" /\ verdict.hint # last)
             \/ Releasing(last)'
  <2>0. MemOf[f] \in Nat /\ last \in Nat /\ verdict.hint \in Nat
    <3>1. last \in Difficulties \cup {0}
      BY <1>1 DEF TypeOK
    <3>2. verdict.hint \in Difficulties \cup {0}
      BY <1>1 DEF Ledger, Verdicts
    <3>3. MemOf[f] \in Nat
      BY <1>1, JournalAssumption
    <3>4. Difficulties \cup {0} \subseteq Nat
      BY SubmissionAssumption
    <3>5. QED
      BY <3>1, <3>2, <3>3, <3>4
  <2>1. rows'[f].status = "ParkedDifficulty" /\ last' # 0 /\ MemOf[f] >= last'
    BY <1>1 DEF Overlooked
  <2>2. CASE last' = last
    <3>1. rows[f].status # "ParkedDifficulty"
      BY <1>1, <2>1, <2>2 DEF Overlooked
    <3>2. f = cur /\ (pc = "prepark" \/ (pc = "record" /\ verdict.status = "ParkedDifficulty"))
      BY <1>1, <2>1, <3>1, NewlyParked
    <3>3. verdict.status = "ParkedDifficulty" => verdict.hint # last
      BY <1>1, <2>0, <2>1, <2>2, <3>2 DEF ParkedByFloor
    <3>4. QED
      BY <2>2, <3>2, <3>3
  <2>3. CASE last' # last
    <3>1. UNCHANGED rows /\ (~Releases(last') \/ Releasing(last)')
      BY <1>1, <2>1, <2>3, ObserverReleases
    <3>2. last = 0 \/ ~(MemOf[f] >= last)
      BY <1>1, <2>1, <3>1 DEF Overlooked
    <3>3. last' \in Nat
      BY <1>1, SubmissionAssumption DEF TypeOK
    <3>4. Releases(last')
      BY <2>0, <2>1, <3>2, <3>3 DEF Releases
    <3>5. QED
      BY <3>1, <3>4
  <2>4. QED
    BY <2>2, <2>3
<1> DEFINE Stale(f) == \/ /\ cur = f /\ last' = last
                          /\ pc = "prepark" \/ (pc = "record" /\ verdict.hint # last)
                       \/ Releasing(last)'
<1>2. TypeOK /\ TypeOK' /\ Ledger /\ ParkedByFloor /\ [Next]_vars =>
        [\A f \in Finds : Overlooked(f)' /\ ~Overlooked(f) => Stale(f)]_vars
  BY <1>1
<1>3. Init => Ledger /\ ParkedByFloor
  <2>1. Init => verdict.status = "Pending"
    BY DEF Init, NoVerdict, Verdict
  <2>2. QED
    BY <2>1, InitLedger DEF ParkedByFloor
<1>4. Ledger /\ ParkedByFloor /\ [Next]_vars => (Ledger /\ ParkedByFloor)'
  BY NextLedger, NextParkedByFloor
<1>5. QED
  BY <1>2, <1>3, <1>4, SubmissionTypeCorrect, PTL DEF Spec, OverlookedByStaleParkOnly
=============================================================================
