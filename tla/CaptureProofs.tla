---------------------------- MODULE CaptureProofs ----------------------------
(***************************************************************************)
(* Proofs about FindCapture, for every finite set of lanes, any number of  *)
(* finds, crashes, short writes and refused calls and every batch size.    *)
(***************************************************************************)
EXTENDS FindCapture, FiniteSetTheorems, SequenceTheorems, TLAPS

(* The inductive invariant.                                                 *)

Parts == {"whole", "cut", "rest"}
Points == {"mine", "append", "sink", "rest", "sync", "report"}
Pieces == [find : Finds, part : Parts]
LaneRecord == [pc : Points, work : Seq(Finds)]

(* Ranges, as a function of the lanes and a sequence of pieces.             *)
Typed ==
  /\ journal \in [Finds -> {"none", "queued", "done"}]
  /\ file \in Seq(Pieces) /\ synced \in 0..Len(file)
  /\ proc \in {"down", "import", "up"} /\ at \in 1..(Len(file) + 1)
  /\ lane \in [Lanes -> LaneRecord]
  /\ found \in 0..MaxFinds /\ reported \subseteq Finds /\ dropped \subseteq Finds
  /\ shorts \in Nat /\ limit \in Limits

Flags == running \in BOOLEAN /\ fatal \in BOOLEAN

(* Only a process that is up has lanes at work, with at most a batch each.  *)
LaneWork ==
  /\ proc # "up" => \A l \in Lanes : lane[l] = LaneIdle
  /\ proc = "up" => at = 1
  /\ \A l \in Lanes : /\ (lane[l].pc = "mine") <=> (lane[l].work = <<>>)
                      /\ Len(lane[l].work) <= BatchMax

(* The record of f was begun at position i of s.                            *)
Begun(s, i, f) == s[i].find = f /\ s[i].part \in {"whole", "cut"}

(* What an fsync or a commit has taken over, whether or not it can be read. *)
Taken == {f \in Finds : journal[f] # "none" \/ \E i \in 1..synced : Begun(file, i, f)}

(* A lane reports what was taken, and syncs what it has written.            *)
SoundAt(l) ==
  /\ lane[l].pc = "report" => Current(l) \in Taken
  /\ lane[l].pc \in {"rest", "sync"} => \E i \in DOMAIN file : Begun(file, i, Current(l))

LaneSound == \A l \in Lanes : SoundAt(l)

(* importInto has journaled every line it has read that parses.             *)
Imported ==
  proc = "import" => \A i \in 1..(at - 1) : Parses(file, i) => journal[file[i].find] # "none"

Cuts(s) == {i \in DOMAIN s : s[i].part = "cut"}

(* The finds a cut write can damage: its own, and that of the piece after.  *)
Torn(s) == {s[i].find : i \in Cuts(s)} \cup {s[i + 1].find : i \in {j \in Cuts(s) : j + 1 \in DOMAIN s}}

(* Two finds for every short write whose file was archived: the others are  *)
(* accounted for by the cut that is still in the file.                      *)
Accounted == Cardinality(reported \ Taken) + 2 * Cardinality(Cuts(file)) <= 2 * shorts

Held == UNION {{lane[l].work[i] : i \in DOMAIN lane[l].work} : l \in Lanes}

(* Once something was dropped nothing new is mined, so what was dropped and *)
(* what the lanes still hold only ever shrinks.                             *)
DropsHeld ==
  /\ dropped # {} => ~running
  /\ Cardinality(dropped \cup Held) <= BatchMax * Cardinality(Lanes)

CaptureInductive == Typed /\ Flags /\ LaneWork /\ LaneSound /\ Imported /\ Accounted /\ DropsHeld

-----------------------------------------------------------------------------
(* Lanes *)

(* The limits of a behaviour are numbers.                                   *)
LEMMA LimitTyped ==
  ASSUME Typed
  PROVE  BatchMax \in Nat \ {0} /\ MaxShorts \in Nat /\ MaxRefusals \in Nat
BY CaptureAssumption DEF Typed, BatchMax, MaxShorts, MaxRefusals

(* A lane that mines has nothing in hand.                                   *)
LEMMA IdleLane == LaneIdle \in LaneRecord /\ LaneIdle.pc = "mine" /\ LaneIdle.work = <<>>
BY DEF LaneIdle, LaneRecord, Points

(* Move changes one lane's place and nothing of its batch.                  *)
LEMMA MoveLane ==
  ASSUME Typed, NEW l \in Lanes, NEW p \in Points, Move(l, p)
  PROVE  /\ lane' \in [Lanes -> LaneRecord]
         /\ lane'[l].pc = p /\ lane'[l].work = lane[l].work
         /\ \A m \in Lanes \ {l} : lane'[m] = lane[m]
<1>1. lane[l] \in LaneRecord /\ lane \in [Lanes -> LaneRecord]
  BY DEF Typed
<1>2. [lane[l] EXCEPT !.pc = p] \in LaneRecord
  BY <1>1 DEF LaneRecord
<1>3. [lane[l] EXCEPT !.pc = p].pc = p /\ [lane[l] EXCEPT !.pc = p].work = lane[l].work
  BY <1>1 DEF LaneRecord
<1>4. lane' = [lane EXCEPT ![l] = [lane[l] EXCEPT !.pc = p]]
  BY <1>1 DEF Move
<1>5. QED
  BY <1>1, <1>2, <1>3, <1>4

(* NextMatch drops the match that was handled.                              *)
LEMMA NextMatchLane ==
  ASSUME Typed, NEW l \in Lanes, lane[l].work # <<>>, NextMatch(l)
  PROVE  /\ lane' \in [Lanes -> LaneRecord]
         /\ lane'[l].pc \in {"mine", "append"}
         /\ (lane'[l].pc = "mine") <=> (lane'[l].work = <<>>)
         /\ Len(lane'[l].work) <= Len(lane[l].work)
         /\ \A i \in DOMAIN lane'[l].work : lane'[l].work[i] \in {lane[l].work[j] : j \in DOMAIN lane[l].work}
         /\ \A m \in Lanes \ {l} : lane'[m] = lane[m]
<1> DEFINE w == lane[l].work
<1>1. lane[l] \in LaneRecord /\ lane \in [Lanes -> LaneRecord] /\ w \in Seq(Finds)
  BY DEF Typed, LaneRecord
<1> HIDE DEF w
<1>2. lane' = [lane EXCEPT ![l] = IF Len(w) = 1 THEN LaneIdle ELSE [pc |-> "append", work |-> Tail(w)]]
  BY DEF NextMatch, w
<1>3. /\ Tail(w) \in Seq(Finds) /\ Len(Tail(w)) = Len(w) - 1
      /\ \A i \in DOMAIN Tail(w) : i + 1 \in DOMAIN w /\ Tail(w)[i] = w[i + 1]
      /\ Len(w) \in Nat /\ Len(w) > 0
  BY <1>1, HeadTailProperties DEF w
<1>4. CASE Len(w) = 1
  <2>1. lane' \in [Lanes -> LaneRecord] /\ lane'[l] = LaneIdle /\ \A m \in Lanes \ {l} : lane'[m] = lane[m]
    BY <1>1, <1>2, <1>4, IdleLane
  <2>2. QED
    BY <1>3, <2>1, IdleLane DEF w
<1>5. CASE Len(w) # 1
  <2>1. [pc |-> "append", work |-> Tail(w)] \in LaneRecord
    BY <1>3 DEF LaneRecord, Points
  <2>2. /\ lane' \in [Lanes -> LaneRecord] /\ lane'[l] = [pc |-> "append", work |-> Tail(w)]
        /\ \A m \in Lanes \ {l} : lane'[m] = lane[m]
    BY <1>1, <1>2, <1>5, <2>1
  <2>3. Tail(w) # <<>>
    BY <1>3, <1>5, SMTT(30)
  <2>4. QED
    BY <1>3, <2>2, <2>3 DEF w
<1>6. QED
  BY <1>4, <1>5

(* The current match of a lane at work is a find.                           *)
LEMMA CurrentFind ==
  ASSUME Typed, LaneWork, NEW l \in Lanes, lane[l].pc # "mine"
  PROVE  /\ Current(l) \in Finds /\ lane[l].work # <<>> /\ proc = "up"
         /\ 1 \in DOMAIN lane[l].work /\ Current(l) = lane[l].work[1]
<1>1. lane[l].work \in Seq(Finds) /\ lane[l].work # <<>>
  BY DEF Typed, LaneWork, LaneRecord
<1>2. proc = "up"
  BY IdleLane DEF LaneWork
<1>3. QED
  BY <1>1, <1>2 DEF Current

-----------------------------------------------------------------------------
(* Ranges *)

(* Every step keeps the flags typed.                                        *)
LEMMA NextFlags == Flags /\ [CaptureNext]_captureVars => Flags'
<1> SUFFICES ASSUME Flags, [CaptureNext]_captureVars PROVE Flags'
  OBVIOUS
<1>1. running' \in {running, TRUE, FALSE} /\ fatal' \in {fatal, TRUE, FALSE}
  BY Zenon DEF CaptureNext, captureVars, Startup, LaneStep, Boot, ImportLine, ImportStops, ImportEnds, FindBatch, AppendJournal, SinkWrites,
         SinkWritesRest, SinkSyncs, SinkFails, Report, Submitted, DrainFails, Interrupt, Exit, Crash,
         Drop, DeclareFatal
<1>2. QED
  BY <1>1, Zenon DEF Flags

(* Journaling a find adds its row and leaves every other one.               *)
LEMMA JournaledTyped ==
  ASSUME journal \in [Finds -> {"none", "queued", "done"}], NEW f \in Finds
  PROVE  /\ Journaled(journal, f) \in [Finds -> {"none", "queued", "done"}]
         /\ Journaled(journal, f)[f] # "none"
         /\ \A g \in Finds : journal[g] # "none" => Journaled(journal, f)[g] = journal[g]
BY DEF Journaled

(* What each step leaves of the journal: a row is never taken back, and one *)
(* that is done is never queued again.                                      *)
JournalKept ==
  /\ journal' \in [Finds -> {"none", "queued", "done"}]
  /\ \A g \in Finds : /\ journal[g] # "none" => journal'[g] # "none"
                      /\ journal[g] = "done" => journal'[g] = "done"

(* Every step keeps the journal typed.                                      *)
LEMMA NextJournal == ASSUME Typed, LaneWork, [CaptureNext]_captureVars PROVE JournalKept
<1> USE DEF JournalKept
<1>0. journal \in [Finds -> {"none", "queued", "done"}]
  BY DEF Typed
<1>1. CASE ImportLine
  <2>1. at \in DOMAIN file /\ file[at] \in Pieces
    BY <1>1 DEF ImportLine, Typed
  <2>2. file[at].find \in Finds
    BY <2>1 DEF Pieces
  <2>3. QED
    BY <1>0, <1>1, <2>2, JournaledTyped DEF ImportLine
<1>2. CASE \E l \in Lanes : AppendJournal(l)
  <2>1. PICK l \in Lanes : AppendJournal(l)
    BY <1>2
  <2>2. Current(l) \in Finds
    BY <2>1, CurrentFind DEF AppendJournal, At
  <2>3. QED
    BY <1>0, <2>1, <2>2, JournaledTyped DEF AppendJournal
<1>3. CASE \E f \in Finds : Submitted(f)
  BY <1>0, <1>3 DEF Submitted
<1>4. CASE UNCHANGED journal
  BY <1>0, <1>4
<1>5. QED
  BY <1>1, <1>2, <1>3, <1>4
  DEF CaptureNext, captureVars, Startup, LaneStep, Boot, ImportStops, ImportEnds, FindBatch, SinkWrites, SinkWritesRest, SinkSyncs,
      SinkFails, Report, DrainFails, Interrupt, Exit, Crash

(* What each step does to the sink file.                                    *)
FileMoves ==
  \/ UNCHANGED <<file, synced, shorts>>
  \/ /\ proc = "up" /\ synced' = synced
     /\ \E p \in Pieces : /\ file' = Append(file, p)
                          /\ (p.part # "cut" /\ shorts' = shorts) \/ shorts' = shorts + 1
  \/ file' = file /\ synced' = Len(file) /\ shorts' = shorts
  \/ ImportEnds /\ file' = <<>> /\ synced' = 0 /\ shorts' = shorts
  \/ Crash /\ shorts' = shorts /\ \E n \in synced..Len(file) : file' = SubSeq(file, 1, n) /\ synced' = n

(* Every step keeps the sink file typed.                                    *)
LEMMA NextFile == ASSUME Typed, LaneWork, [CaptureNext]_captureVars PROVE FileMoves
<1>1. CASE \E l \in Lanes : SinkWrites(l) \/ SinkWritesRest(l)
  <2>1. PICK l \in Lanes : SinkWrites(l) \/ SinkWritesRest(l)
    BY <1>1
  <2>2. Current(l) \in Finds /\ proc = "up"
    BY <2>1, CurrentFind DEF SinkWrites, SinkWritesRest, At
  <2>3. \A q \in Parts : Piece(Current(l), q) \in Pieces /\ Piece(Current(l), q).part = q
    BY <2>2 DEF Piece, Pieces
  <2>4. \E q \in Parts : file' = Append(file, Piece(Current(l), q)) /\ ((q # "cut" /\ shorts' = shorts) \/ shorts' = shorts + 1)
    BY <2>1 DEF SinkWrites, SinkWritesRest, Parts, bounds
  <2>5. synced' = synced
    BY <2>1 DEF SinkWrites, SinkWritesRest
  <2>6. QED
    BY <2>2, <2>3, <2>4, <2>5 DEF FileMoves
<1>2. CASE \E l \in Lanes : SinkSyncs(l)
  BY <1>2 DEF SinkSyncs, FileMoves, bounds
<1>3. CASE ImportEnds
  BY <1>3 DEF ImportEnds, FileMoves, sinkVars, bounds, Refuse
<1>4. CASE Crash
  BY <1>4 DEF Crash, FileMoves
<1>5. CASE UNCHANGED <<file, synced, shorts>>
  BY <1>5 DEF FileMoves
<1>6. QED
  BY <1>1, <1>2, <1>3, <1>4, <1>5
  DEF CaptureNext, captureVars, sinkVars, bounds, Refuse, Startup, LaneStep, Boot, ImportLine, ImportStops, SinkAfterUnclean, FindBatch,
      AppendJournal, SinkFails, Report, Submitted, DrainFails, Interrupt, Exit

(* A step keeps what was fsync'd, unless it archives the file after an      *)
(* import that read all of it.                                              *)
LEMMA SyncedKept ==
  ASSUME Typed, FileMoves, ~(ImportEnds /\ file' = <<>>)
  PROVE  \A i \in 1..synced : i \in 1..synced' /\ file'[i] = file[i]
<1>1. file \in Seq(Pieces) /\ synced \in 0..Len(file)
  BY DEF Typed
<1>2. CASE \E n \in synced..Len(file) : file' = SubSeq(file, 1, n) /\ synced' = n
  BY <1>1, <1>2
<1>3. CASE ~\E n \in synced..Len(file) : file' = SubSeq(file, 1, n) /\ synced' = n
  BY <1>1, <1>3 DEF FileMoves
<1>4. QED
  BY <1>2, <1>3

(* Appending to the file and cutting it keep it typed.                      *)
LEMMA FileTyped ==
  ASSUME Typed, FileMoves
  PROVE  file' \in Seq(Pieces) /\ synced' \in 0..Len(file') /\ shorts' \in Nat
<1>1. file \in Seq(Pieces) /\ synced \in 0..Len(file) /\ shorts \in Nat
  BY DEF Typed
<1>2. CASE \E n \in synced..Len(file) : file' = SubSeq(file, 1, n) /\ synced' = n /\ shorts' = shorts
  BY <1>1, <1>2
<1>3. CASE ~\E n \in synced..Len(file) : file' = SubSeq(file, 1, n) /\ synced' = n /\ shorts' = shorts
  <2>1. CASE \E p \in Pieces : file' = Append(file, p) /\ synced' = synced /\ (shorts' = shorts \/ shorts' = shorts + 1)
    BY <1>1, <2>1
  <2>2. CASE file' = <<>> /\ synced' = 0 /\ shorts' = shorts
    BY <1>1, <2>2
  <2>3. CASE file' = file /\ synced' \in {synced, Len(file)} /\ shorts' = shorts
    BY <1>1, <2>3
  <2>4. QED
    BY <1>3, <2>1, <2>2, <2>3 DEF FileMoves
<1>4. QED
  BY <1>2, <1>3

(* What a lane step does to the lanes: its own lane moves, or takes up the  *)
(* next match of its batch, and no batch grows.                             *)
LaneMoves(l) ==
  /\ lane' \in [Lanes -> LaneRecord]
  /\ (lane'[l].pc = "mine") <=> (lane'[l].work = <<>>)
  /\ Len(lane'[l].work) <= Len(lane[l].work)
  /\ \A i \in DOMAIN lane'[l].work : lane'[l].work[i] \in {lane[l].work[j] : j \in DOMAIN lane[l].work}
  /\ \A m \in Lanes \ {l} : lane'[m] = lane[m]

(* What a step of a lane changes besides the lane.                          *)
LEMMA LaneStepMoves ==
  ASSUME Typed, LaneWork, NEW l \in Lanes, LaneStep(l)
  PROVE  /\ LaneMoves(l) /\ proc = "up" /\ lane[l].pc # "mine"
         /\ UNCHANGED <<proc, at, found, limit>>
         /\ dropped' = dropped \/ (dropped' = dropped \cup {Current(l)} /\ ~running')
         /\ running' => running
         /\ reported' = reported \/ (reported' = reported \cup {Current(l)} /\ lane[l].pc = "report")
<1>1. proc = "up" /\ lane[l].pc # "mine"
  BY DEF LaneStep, AppendJournal, SinkWrites, SinkWritesRest, SinkSyncs, SinkFails, Report, At
<1>2. lane[l].work # <<>> /\ Current(l) \in Finds
  BY <1>1, CurrentFind
<1>3. ASSUME \E p \in Points \ {"mine"} : Move(l, p) PROVE LaneMoves(l)
  <2>1. PICK p \in Points \ {"mine"} : Move(l, p)
    BY <1>3
  <2>2. /\ lane' \in [Lanes -> LaneRecord] /\ lane'[l].pc = p /\ lane'[l].work = lane[l].work
        /\ \A m \in Lanes \ {l} : lane'[m] = lane[m]
    BY <2>1, MoveLane
  <2>3. Len(lane[l].work) \in Nat
    BY DEF Typed, LaneRecord
  <2>4. QED
    BY <1>2, <2>1, <2>2, <2>3 DEF LaneMoves
<1>4. ASSUME NextMatch(l) PROVE LaneMoves(l)
  BY <1>2, <1>4, NextMatchLane DEF LaneMoves
<1>5. LaneMoves(l)
  BY <1>3, <1>4 DEF LaneStep, AppendJournal, SinkWrites, SinkWritesRest, SinkSyncs, SinkFails, Report, Drop, Points
<1>6. UNCHANGED <<proc, at, found, limit>>
  BY DEF LaneStep, AppendJournal, SinkWrites, SinkWritesRest, SinkSyncs, SinkFails, Report, bounds, Refuse
<1>7. /\ dropped' = dropped \/ (dropped' = dropped \cup {Current(l)} /\ ~running')
      /\ running' => running
      /\ reported' = reported \/ (reported' = reported \cup {Current(l)} /\ lane[l].pc = "report")
  BY DEF LaneStep, AppendJournal, SinkWrites, SinkWritesRest, SinkSyncs, SinkFails, Report, Drop, DeclareFatal, At
<1>8. QED
  BY <1>1, <1>5, <1>6, <1>7

(* A batch of matches is new finds, all in the hands of one lane.           *)
LEMMA FindBatchMoves ==
  ASSUME Typed, NEW l \in Lanes, NEW n \in 1..BatchMax, FindBatch(l, n)
  PROVE  /\ lane' \in [Lanes -> LaneRecord]
         /\ lane'[l].pc = "append" /\ lane'[l].work # <<>> /\ Len(lane'[l].work) <= BatchMax
         /\ \A m \in Lanes \ {l} : lane'[m] = lane[m]
         /\ found' \in 0..MaxFinds
<1> DEFINE w == [i \in 1..n |-> found + i]
<1>1. found \in Nat /\ n \in Nat \ {0} /\ n <= BatchMax /\ found + n <= MaxFinds /\ MaxFinds \in Nat
  BY LimitTyped, CaptureAssumption DEF Typed, FindBatch
<1>2. \A i \in 1..n : found + i \in Finds
  BY <1>1 DEF Finds
<1>3. w \in Seq(Finds) /\ Len(w) = n /\ w # <<>>
  BY <1>1, <1>2
<1>4. lane' = [lane EXCEPT ![l] = [pc |-> "append", work |-> w]] /\ found' = found + n
  BY DEF FindBatch
<1> HIDE DEF w
<1>5. [pc |-> "append", work |-> w] \in LaneRecord
  BY <1>3 DEF LaneRecord, Points
<1>6. lane \in [Lanes -> LaneRecord]
  BY DEF Typed
<1>7. /\ lane' \in [Lanes -> LaneRecord] /\ lane'[l] = [pc |-> "append", work |-> w]
      /\ \A m \in Lanes \ {l} : lane'[m] = lane[m]
  BY <1>4, <1>5, <1>6
<1>8. QED
  BY <1>1, <1>3, <1>4, <1>7

(* Every step keeps the types.                                              *)
LEMMA NextTyped == ASSUME Typed, LaneWork, [CaptureNext]_captureVars PROVE Typed' /\ LaneWork'
<1>1. /\ journal' \in [Finds -> {"none", "queued", "done"}]
      /\ file' \in Seq(Pieces) /\ synced' \in 0..Len(file') /\ shorts' \in Nat
  BY NextJournal, NextFile, FileTyped DEF JournalKept
<1>2. /\ lane \in [Lanes -> LaneRecord] /\ at \in 1..(Len(file) + 1) /\ found \in 0..MaxFinds
      /\ reported \subseteq Finds /\ dropped \subseteq Finds /\ limit \in Limits
      /\ proc \in {"down", "import", "up"} /\ Len(file) \in Nat /\ Len(file') \in Nat
  BY <1>1 DEF Typed
<1>3. limit' = limit
  BY DEF CaptureNext, captureVars, bounds, Refuse, Startup, LaneStep, Boot, ImportLine, ImportStops, ImportEnds, FindBatch,
         AppendJournal, SinkWrites, SinkWritesRest, SinkSyncs, SinkFails, Report, Submitted, DrainFails,
         Interrupt, Exit, Crash
<1>4. BatchMax' = BatchMax /\ BatchMax \in Nat
  BY <1>3, LimitTyped DEF BatchMax
<1>5. ASSUME NEW l \in Lanes, LaneStep(l) PROVE Typed' /\ LaneWork'
  <2>1. /\ LaneMoves(l) /\ proc = "up" /\ UNCHANGED <<proc, at, found>> /\ lane[l].pc # "mine"
        /\ dropped' \subseteq dropped \cup {Current(l)}
        /\ reported' \subseteq reported \cup {Current(l)}
    BY <1>5, LaneStepMoves
  <2>2. Current(l) \in Finds
    BY <2>1, CurrentFind
  <2>3. at' = 1
    BY <2>1 DEF LaneWork
  <2>4. Typed'
    BY <1>1, <1>2, <1>3, <2>1, <2>2, <2>3 DEF Typed, LaneMoves
  <2>5. \A m \in Lanes : ((lane'[m].pc = "mine") <=> (lane'[m].work = <<>>)) /\ Len(lane'[m].work) <= BatchMax
    <3>1. \A m \in Lanes \ {l} : ((lane'[m].pc = "mine") <=> (lane'[m].work = <<>>)) /\ Len(lane'[m].work) <= BatchMax
      BY <2>1 DEF LaneMoves, LaneWork
    <3>2. /\ (lane'[l].pc = "mine") <=> (lane'[l].work = <<>>)
          /\ Len(lane'[l].work) <= Len(lane[l].work) /\ Len(lane[l].work) <= BatchMax
      BY <2>1 DEF LaneMoves, LaneWork
    <3>3. Len(lane'[l].work) \in Nat /\ Len(lane[l].work) \in Nat
      BY <1>2, <2>1 DEF LaneMoves, LaneRecord
    <3>4. QED
      BY <1>4, <3>1, <3>2, <3>3
  <2>6. LaneWork'
    BY <1>4, <2>1, <2>3, <2>5 DEF LaneWork
  <2>7. QED
    BY <2>4, <2>6
<1>6. ASSUME NEW l \in Lanes, NEW n \in 1..BatchMax, FindBatch(l, n) PROVE Typed' /\ LaneWork'
  <2>1. /\ lane' \in [Lanes -> LaneRecord]
        /\ lane'[l].pc = "append" /\ lane'[l].work # <<>> /\ Len(lane'[l].work) <= BatchMax
        /\ \A m \in Lanes \ {l} : lane'[m] = lane[m]
        /\ found' \in 0..MaxFinds
    BY <1>6, FindBatchMoves
  <2>2. UNCHANGED <<proc, at, reported, dropped>> /\ proc = "up"
    BY <1>6 DEF FindBatch, At
  <2>3. at' = 1
    BY <2>2 DEF LaneWork
  <2>4. Typed'
    BY <1>1, <1>2, <1>3, <2>1, <2>2, <2>3 DEF Typed
  <2>5. LaneWork'
    BY <1>4, <2>1, <2>2, <2>3 DEF LaneWork
  <2>6. QED
    BY <2>4, <2>5
<1>7. CASE Crash
  <2>1. /\ proc' = "down" /\ at' = 1 /\ lane' = [l \in Lanes |-> LaneIdle] /\ UNCHANGED <<found, reported, dropped>>
    BY <1>7 DEF Crash
  <2>2. \A l \in Lanes : lane'[l] = LaneIdle
    BY <2>1
  <2>3. lane' \in [Lanes -> LaneRecord]
    BY <2>1, IdleLane
  <2>4. Typed'
    BY <1>1, <1>2, <1>3, <2>1, <2>3 DEF Typed
  <2>5. LaneWork'
    BY <1>4, <2>1, <2>2, IdleLane DEF LaneWork
  <2>6. QED
    BY <2>4, <2>5
<1>8. CASE ImportStops \/ ImportEnds
  <2>1. /\ proc' = "up" /\ at' = 1 /\ UNCHANGED <<lane, found, reported, dropped>>
    BY <1>8 DEF ImportStops, ImportEnds
  <2>2. QED
    BY <1>1, <1>2, <1>3, <1>4, <2>1 DEF Typed, LaneWork
<1>9. CASE ImportLine
  <2>1. /\ proc = "import" /\ proc' = "import" /\ at' = at + 1 /\ at <= Len(file) /\ file' = file
        /\ UNCHANGED <<lane, found, reported, dropped>>
    BY <1>9 DEF ImportLine, sinkVars
  <2>2. at' \in 1..(Len(file') + 1)
    BY <1>2, <2>1
  <2>3. QED
    BY <1>1, <1>2, <1>3, <1>4, <2>1, <2>2 DEF Typed, LaneWork
<1>10. CASE Boot
  <2>1. /\ proc = "down" /\ proc' = "import" /\ at' = 1 /\ dropped' = {} /\ UNCHANGED <<lane, found, reported>>
    BY <1>10 DEF Boot
  <2>2. QED
    BY <1>1, <1>2, <1>3, <1>4, <2>1 DEF Typed, LaneWork
<1>11. CASE Exit
  <2>1. /\ proc' = "down" /\ UNCHANGED <<at, file, lane, found, reported, dropped>>
        /\ \A l \in Lanes : lane[l] = LaneIdle
    BY <1>11 DEF Exit, sinkVars
  <2>2. QED
    BY <1>1, <1>2, <1>3, <1>4, <2>1 DEF Typed, LaneWork
<1>12. CASE UNCHANGED <<proc, at, file, lane, found, reported, dropped>>
  BY <1>1, <1>2, <1>3, <1>4, <1>12 DEF Typed, LaneWork
<1>13. QED
  <2>1. \/ UNCHANGED <<proc, at, file, lane, found, reported, dropped>>
        \/ Boot \/ ImportLine \/ ImportStops \/ ImportEnds \/ Exit \/ Crash
        \/ \E l \in Lanes : LaneStep(l) \/ \E n \in 1..BatchMax : FindBatch(l, n)
    BY DEF CaptureNext, captureVars, sinkVars, Startup, Submitted, DrainFails, Interrupt
  <2>2. QED
    BY <1>5, <1>6, <1>7, <1>8, <1>9, <1>10, <1>11, <1>12, <2>1

-----------------------------------------------------------------------------
(* What is taken stays taken *)

(* What was taken over stays taken over.                                    *)
LEMMA TakenGrows ==
  ASSUME Typed, JournalKept, \A i \in 1..synced : i \in 1..synced' /\ file'[i] = file[i]
  PROVE  Taken \subseteq Taken'
BY DEF Taken, JournalKept, Begun

(* A lane that does not move stays sound while the file only grows.         *)
LEMMA OthersSound ==
  ASSUME NEW m \in Lanes, SoundAt(m), lane'[m] = lane[m], Taken \subseteq Taken',
         \A i \in DOMAIN file : i \in DOMAIN file' /\ file'[i] = file[i]
  PROVE  SoundAt(m)'
<1>1. Current(m)' = Current(m)
  BY DEF Current
<1>2. QED
  BY <1>1 DEF SoundAt, Begun

(* Every step keeps what each lane holds to itself.                         *)
LEMMA NextLaneSound ==
  ASSUME Typed, LaneWork, LaneSound, [CaptureNext]_captureVars, Typed', LaneWork'
  PROVE  LaneSound'
<1>0. JournalKept /\ FileMoves
  BY NextJournal, NextFile
<1>1. CASE proc' # "up"
  BY <1>1, IdleLane DEF LaneWork, LaneSound, SoundAt
<1>2. CASE proc # "up" /\ proc' = "up"
  <2>1. \A l \in Lanes : lane'[l] = LaneIdle
    BY <1>2 DEF LaneWork, CaptureNext, captureVars, Startup, LaneStep, Boot, ImportLine, ImportStops, ImportEnds, FindBatch, AppendJournal,
         SinkWrites, SinkWritesRest, SinkSyncs, SinkFails, Report, Submitted, DrainFails, Interrupt, Exit, Crash
  <2>2. QED
    BY <2>1, IdleLane DEF LaneSound, SoundAt
<1>3. CASE proc = "up" /\ proc' = "up"
  <2>1. ~ImportEnds /\ ~Crash
    BY <1>3 DEF ImportEnds, Crash
  <2>2. Taken \subseteq Taken'
    BY <1>0, <2>1, SyncedKept, TakenGrows
  <2>3. \A i \in DOMAIN file : i \in DOMAIN file' /\ file'[i] = file[i]
    <3>1. file \in Seq(Pieces)
      BY DEF Typed
    <3>2. file' = file \/ \E p \in Pieces : file' = Append(file, p)
      BY <1>0, <2>1 DEF FileMoves
    <3>3. QED
      BY <3>1, <3>2
  <2>4. \A m \in Lanes : lane'[m] = lane[m] => SoundAt(m)'
    BY <2>2, <2>3, OthersSound DEF LaneSound
  <2>5. CASE \E l \in Lanes, n \in 1..BatchMax : FindBatch(l, n)
    <3>1. PICK l \in Lanes, n \in 1..BatchMax : FindBatch(l, n)
      BY <2>5
    <3>2. lane'[l].pc = "append" /\ \A m \in Lanes \ {l} : lane'[m] = lane[m]
      BY <3>1, FindBatchMoves
    <3>3. SoundAt(l)'
      BY <3>2 DEF SoundAt
    <3>4. QED
      BY <2>4, <3>2, <3>3 DEF LaneSound
  <2>6. CASE \E l \in Lanes : LaneStep(l)
    <3>1. PICK l \in Lanes : LaneStep(l)
      BY <2>6
    <3>2. \A m \in Lanes \ {l} : lane'[m] = lane[m]
      BY <3>1, LaneStepMoves DEF LaneMoves
    <3>3. lane[l].pc # "mine"
      BY <3>1, LaneStepMoves
    <3>4. Current(l) \in Finds
      BY <3>3, CurrentFind
    <3>5. ASSUME NEW p \in Points, Move(l, p)
          PROVE  lane'[l].pc = p /\ Current(l)' = Current(l)
      BY <3>5, MoveLane DEF Current
    <3>6. SoundAt(l)'
      <4>1. CASE AppendJournal(l)
        <5>1. CASE journal' = Journaled(journal, Current(l)) /\ Move(l, "report")
          <6>1. journal'[Current(l)] # "none"
            BY <3>4, <5>1, JournaledTyped DEF Typed
          <6>2. QED
            BY <3>4, <3>5, <5>1, <6>1 DEF SoundAt, Taken, Points
        <5>2. CASE Move(l, "sink")
          BY <3>5, <5>2 DEF SoundAt, Points
        <5>3. QED
          BY <4>1, <5>1, <5>2 DEF AppendJournal
      <4>2. CASE SinkWrites(l)
        <5>1. PICK q \in {"whole", "cut"} : file' = Append(file, Piece(Current(l), q))
          BY <4>2 DEF SinkWrites
        <5>2. file \in Seq(Pieces) /\ Piece(Current(l), q) \in Pieces
          BY <3>4 DEF Typed, Piece, Pieces, Parts
        <5>3. Len(file) + 1 \in DOMAIN file' /\ file'[Len(file) + 1] = Piece(Current(l), q)
          BY <5>1, <5>2
        <5>4. Begun(file', Len(file) + 1, Current(l))
          BY <5>3 DEF Begun, Piece
        <5>5. lane'[l].pc \in {"sync", "rest"} /\ Current(l)' = Current(l)
          BY <3>5, <4>2 DEF SinkWrites, Points
        <5>6. QED
          BY <5>3, <5>4, <5>5 DEF SoundAt
      <4>3. CASE SinkWritesRest(l)
        <5>1. PICK i \in DOMAIN file : Begun(file, i, Current(l))
          BY <3>1, <4>3 DEF LaneSound, SoundAt, SinkWritesRest, At
        <5>2. i \in DOMAIN file' /\ Begun(file', i, Current(l))
          BY <2>3, <5>1 DEF Begun
        <5>3. lane'[l].pc = "sync" /\ Current(l)' = Current(l)
          BY <3>5, <4>3 DEF SinkWritesRest, Points
        <5>4. QED
          BY <5>2, <5>3 DEF SoundAt
      <4>4. CASE SinkSyncs(l)
        <5>1. PICK i \in DOMAIN file : Begun(file, i, Current(l))
          BY <3>1, <4>4 DEF LaneSound, SoundAt, SinkSyncs, At
        <5>2. i \in 1..synced' /\ file' = file
          BY <4>4, <5>1 DEF SinkSyncs, Typed
        <5>3. Current(l) \in Taken'
          BY <3>4, <5>1, <5>2 DEF Taken
        <5>4. lane'[l].pc = "report" /\ Current(l)' = Current(l)
          BY <3>5, <4>4 DEF SinkSyncs, Points
        <5>5. QED
          BY <5>3, <5>4 DEF SoundAt
      <4>5. CASE SinkFails(l) \/ Report(l)
        <5>1. lane[l].work # <<>> /\ NextMatch(l)
          BY <3>3, <4>5, CurrentFind DEF SinkFails, Report, Drop
        <5>2. lane'[l].pc \in {"mine", "append"}
          BY <5>1, NextMatchLane
        <5>3. QED
          BY <5>2 DEF SoundAt
      <4>6. QED
        BY <3>1, <4>1, <4>2, <4>3, <4>4, <4>5 DEF LaneStep
    <3>7. QED
      BY <2>4, <3>2, <3>6 DEF LaneSound
  <2>7. CASE UNCHANGED lane
    BY <2>4, <2>7 DEF LaneSound
  <2>8. QED
    BY <1>3, <2>5, <2>6, <2>7 DEF CaptureNext, captureVars, Startup, Boot, ImportLine, ImportStops, ImportEnds, Submitted, DrainFails,
         Interrupt, Exit, Crash
<1>4. QED
  BY <1>1, <1>2, <1>3

(* Every step keeps the lines that an import has passed journaled.          *)
LEMMA NextImported ==
  ASSUME Typed, LaneWork, Imported, [CaptureNext]_captureVars
  PROVE  Imported'
<1>0. JournalKept /\ file \in Seq(Pieces) /\ at \in 1..(Len(file) + 1)
  BY NextJournal DEF Typed
<1>1. CASE proc' # "import"
  BY <1>1 DEF Imported
<1>2. CASE Boot
  BY <1>2 DEF Boot, Imported
<1>3. CASE ImportLine
  <2>1. proc = "import" /\ at' = at + 1 /\ file' = file /\ at <= Len(file)
    BY <1>3 DEF ImportLine, sinkVars
  <2>2. \A i \in DOMAIN file : file[i].find \in Finds
    <3>1. \A i \in DOMAIN file : file[i] \in Pieces
      BY <1>0
    <3>2. QED
      BY <3>1 DEF Pieces
  <2>3. Parses(file, at) => journal'[file[at].find] # "none"
    <3>1. at \in DOMAIN file
      BY <1>0, <2>1
    <3>2. QED
      BY <1>3, <2>2, <3>1, JournaledTyped DEF ImportLine, Typed
  <2>4. \A i \in 1..(at - 1) : i \in DOMAIN file /\ (Parses(file, i) => journal[file[i].find] # "none")
    BY <1>0, <2>1 DEF Imported
  <2>5. \A i \in 1..(at' - 1) : i \in 1..(at - 1) \/ i = at
    BY <1>0, <2>1
  <2>6. \A i \in 1..(at' - 1) : Parses(file, i) => journal'[file[i].find] # "none"
    BY <1>0, <2>2, <2>3, <2>4, <2>5 DEF JournalKept
  <2>7. QED
    BY <2>1, <2>6 DEF Imported
<1>4. CASE proc = "import" /\ UNCHANGED <<journal, file, at>>
  BY <1>4 DEF Imported
<1>5. QED
  BY <1>1, <1>2, <1>3, <1>4
  DEF LaneWork, CaptureNext, captureVars, sinkVars, Startup, LaneStep, ImportStops, ImportEnds, FindBatch, AppendJournal, At,
      SinkWrites, SinkWritesRest, SinkSyncs, SinkFails, Report, Submitted, DrainFails, Interrupt, Exit, Crash

-----------------------------------------------------------------------------
(* Counting *)

(* There are finitely many finds.                                           *)
LEMMA FindsFinite == IsFiniteSet(Finds) /\ \A S \in SUBSET Finds : IsFiniteSet(S) /\ Cardinality(S) \in Nat
<1>1. IsFiniteSet(Finds)
  BY CaptureAssumption, FS_Interval DEF Finds
<1>2. QED
  BY <1>1, FS_Subset, FS_CardinalityType

(* There are finitely many cuts in the file.                                *)
LEMMA CutsFinite ==
  ASSUME NEW s \in Seq(Pieces)
  PROVE  IsFiniteSet(Cuts(s)) /\ Cardinality(Cuts(s)) \in Nat
<1>1. Len(s) \in Nat /\ Cuts(s) \subseteq 1..Len(s)
  BY DEF Cuts
<1>2. IsFiniteSet(1..Len(s))
  BY <1>1, FS_Interval
<1>3. QED
  BY <1>1, <1>2, FS_Subset, FS_CardinalityType

(* Every cut damages two finds at most.                                     *)
LEMMA TornBound ==
  ASSUME NEW s \in Seq(Pieces)
  PROVE  IsFiniteSet(Torn(s)) /\ Cardinality(Torn(s)) <= 2 * Cardinality(Cuts(s))
<1> DEFINE C == Cuts(s)
           N == {j \in C : j + 1 \in DOMAIN s}
           own == {s[i].find : i \in C}
           next == {s[i + 1].find : i \in N}
           fo == [i \in C |-> s[i].find]
           fn == [i \in N |-> s[i + 1].find]
<1>1. IsFiniteSet(C) /\ Cardinality(C) \in Nat
  BY CutsFinite
<1>2. IsFiniteSet(N) /\ Cardinality(N) <= Cardinality(C)
  BY <1>1, FS_Subset
<1>3. fo \in Surjection(C, own)
  BY DEF Surjection
<1>4. fn \in Surjection(N, next)
  BY DEF Surjection
<1>5. IsFiniteSet(own) /\ Cardinality(own) <= Cardinality(C)
  <2> HIDE DEF C, N, own, next, fo, fn
  <2>1. QED
    BY <1>1, <1>3, FS_Surjection
<1>6. IsFiniteSet(next) /\ Cardinality(next) <= Cardinality(N)
  <2> HIDE DEF C, N, own, next, fo, fn
  <2>1. QED
    BY <1>2, <1>4, FS_Surjection
<1>7. Torn(s) = own \cup next
  BY DEF Torn
<1> HIDE DEF C, N, own, next, fo, fn
<1>8. /\ IsFiniteSet(own \cup next)
      /\ Cardinality(own \cup next) = Cardinality(own) + Cardinality(next) - Cardinality(own \cap next)
  BY <1>5, <1>6, FS_Union
<1>9. /\ Cardinality(own) \in Nat /\ Cardinality(next) \in Nat /\ Cardinality(N) \in Nat
      /\ Cardinality(own \cap next) \in Nat
  <2>1. IsFiniteSet(own \cap next)
    BY <1>5, FS_Intersection
  <2>2. QED
    BY <1>2, <1>5, <1>6, <2>1, FS_CardinalityType
<1>10. Cardinality(own \cup next) <= 2 * Cardinality(C)
  BY <1>1, <1>2, <1>5, <1>6, <1>8, <1>9
<1>11. QED
  BY <1>7, <1>8, <1>10 DEF C

(* A find that was taken and cannot be read lies next to a cut.             *)
LEMMA LossCharged ==
  ASSUME Typed
  PROVE  reported \ Kept \subseteq (reported \ Taken) \cup Torn(file)
<1> SUFFICES ASSUME NEW f \in reported \ Kept, f \in Taken PROVE f \in Torn(file)
  OBVIOUS
<1>1. file \in Seq(Pieces) /\ synced \in 0..Len(file) /\ Len(file) \in Nat /\ f \in Finds
  BY DEF Typed
<1>2. journal[f] = "none" /\ f \notin Readable(file)
  BY <1>1 DEF Kept
<1>3. PICK i \in 1..synced : Begun(file, i, f)
  BY <1>2 DEF Taken
<1>4. i \in DOMAIN file /\ file[i].find = f /\ file[i].part \in {"whole", "cut"}
  BY <1>1, <1>3 DEF Begun
<1>5. CASE file[i].part = "cut"
  BY <1>4, <1>5 DEF Torn, Cuts
<1>6. CASE file[i].part = "whole"
  <2>1. ~Parses(file, i)
    BY <1>2, <1>4 DEF Readable
  <2>2. i > 1 /\ file[i - 1].part = "cut"
    BY <1>6, <2>1 DEF Parses, StartsLine
  <2>3. i - 1 \in Cuts(file) /\ (i - 1) + 1 = i
    BY <1>1, <1>4, <2>2 DEF Cuts
  <2>4. QED
    BY <1>4, <2>3 DEF Torn
<1>7. QED
  BY <1>4, <1>5, <1>6

(* What is lost is bounded by what was lost with an archived file and by    *)
(* two finds for every cut in the present one.                              *)
LEMMA LossBound ==
  ASSUME Typed
  PROVE  Cardinality(reported \ Kept) <= Cardinality(reported \ Taken) + 2 * Cardinality(Cuts(file))
<1> DEFINE gone == reported \ Taken
           torn == Torn(file)
<1>1. file \in Seq(Pieces) /\ reported \subseteq Finds
  BY DEF Typed
<1>2. IsFiniteSet(gone) /\ Cardinality(gone) \in Nat
  BY <1>1, FindsFinite
<1>3. IsFiniteSet(torn) /\ Cardinality(torn) <= 2 * Cardinality(Cuts(file))
  BY <1>1, TornBound
<1>4. reported \ Kept \subseteq gone \cup torn
  BY LossCharged
<1> HIDE DEF gone, torn
<1>5. /\ IsFiniteSet(gone \cup torn)
      /\ Cardinality(gone \cup torn) = Cardinality(gone) + Cardinality(torn) - Cardinality(gone \cap torn)
  BY <1>2, <1>3, FS_Union
<1>6. Cardinality(torn) \in Nat /\ Cardinality(gone \cap torn) \in Nat /\ Cardinality(Cuts(file)) \in Nat
  <2>1. IsFiniteSet(gone \cap torn)
    BY <1>2, FS_Intersection
  <2>2. QED
    BY <1>1, <1>3, <2>1, FS_CardinalityType, CutsFinite
<1>7. /\ Cardinality(reported \ Kept) <= Cardinality(gone \cup torn)
      /\ IsFiniteSet(reported \ Kept)
  BY <1>4, <1>5, FS_Subset
<1>8. Cardinality(reported \ Kept) \in Nat /\ Cardinality(gone \cup torn) \in Nat
  BY <1>5, <1>7, FS_CardinalityType
<1>9. QED
  BY <1>2, <1>3, <1>5, <1>6, <1>7, <1>8 DEF gone

(* The account holds as long as neither side of it grows.                   *)
LEMMA AccountKept ==
  ASSUME Typed, Typed', Accounted, shorts' = shorts,
         reported' \ Taken' \subseteq reported \ Taken, Cuts(file') \subseteq Cuts(file)
  PROVE  Accounted'
<1>1. /\ Cardinality(reported \ Taken) \in Nat /\ Cardinality(reported' \ Taken') \in Nat
      /\ Cardinality(reported' \ Taken') <= Cardinality(reported \ Taken)
  <2>1. reported \ Taken \subseteq Finds /\ reported' \ Taken' \subseteq Finds
    BY DEF Typed
  <2>2. QED
    BY <2>1, FindsFinite, FS_Subset
<1>2. /\ Cardinality(Cuts(file)) \in Nat /\ Cardinality(Cuts(file')) \in Nat
      /\ Cardinality(Cuts(file')) <= Cardinality(Cuts(file))
  <2>1. IsFiniteSet(Cuts(file)) /\ Cardinality(Cuts(file)) \in Nat /\ Cardinality(Cuts(file')) \in Nat
    BY CutsFinite DEF Typed
  <2>2. QED
    BY <2>1, FS_Subset
<1>3. shorts \in Nat
  BY DEF Typed
<1>4. QED
  BY <1>1, <1>2, <1>3 DEF Accounted

(* Every step keeps the finds lost within two for each short write.         *)
LEMMA NextAccounted ==
  ASSUME Typed, LaneWork, LaneSound, Imported, Accounted, [CaptureNext]_captureVars, Typed'
  PROVE  Accounted'
<1>0. JournalKept /\ FileMoves /\ file \in Seq(Pieces) /\ shorts \in Nat
  BY NextJournal, NextFile DEF Typed
<1>1. CASE ImportEnds /\ file' = <<>>
  <2>1. reported' = reported /\ journal' = journal /\ proc = "import" /\ at > Len(file) /\ shorts' = shorts
    BY <1>1 DEF ImportEnds, bounds, Refuse
  <2>2. \A i \in DOMAIN file : Parses(file, i) => journal[file[i].find] # "none"
    BY <1>0, <2>1 DEF Imported, Typed
  <2>3. reported \ Taken' \subseteq reported \ Kept
    <3>1. Readable(file) \cap Finds \subseteq {f \in Finds : journal[f] # "none"}
      BY <2>2 DEF Readable
    <3>2. \A f \in Finds : f \in Kept => journal[f] # "none"
      BY <3>1 DEF Kept
    <3>3. reported \subseteq Finds
      BY DEF Typed
    <3>4. QED
      BY <2>1, <3>2, <3>3 DEF Taken
  <2>4. Cuts(file') = {}
    BY <1>1 DEF Cuts
  <2>5. /\ Cardinality(reported \ Taken') <= Cardinality(reported \ Kept)
        /\ Cardinality(reported \ Taken') \in Nat /\ Cardinality(reported \ Kept) \in Nat
    <3>1. reported \ Kept \subseteq Finds /\ reported \ Taken' \subseteq Finds
      BY DEF Typed
    <3>2. QED
      BY <2>3, <3>1, FindsFinite, FS_Subset
  <2>6. Cardinality(reported \ Kept) <= Cardinality(reported \ Taken) + 2 * Cardinality(Cuts(file))
    BY LossBound
  <2>7. Cardinality(reported \ Taken) \in Nat /\ Cardinality(Cuts(file)) \in Nat
    <3>1. reported \ Taken \subseteq Finds
      BY DEF Typed
    <3>2. QED
      BY <1>0, <3>1, FindsFinite, CutsFinite
  <2>8. Cardinality(Cuts(file')) = 0
    BY <2>4, FS_EmptySet
  <2>9. QED
    BY <1>0, <2>1, <2>5, <2>6, <2>7, <2>8 DEF Accounted
<1>2. CASE ~(ImportEnds /\ file' = <<>>)
  <2>1. Taken \subseteq Taken'
    BY <1>0, <1>2, SyncedKept, TakenGrows
  <2>2. reported' \ Taken' \subseteq reported \ Taken
    <3>1. CASE reported' = reported
      BY <2>1, <3>1
    <3>2. CASE \E l \in Lanes : Report(l)
      <4>1. PICK l \in Lanes : Report(l)
        BY <3>2
      <4>2. Current(l) \in Taken /\ reported' = reported \cup {Current(l)}
        BY <4>1 DEF Report, At, LaneSound, SoundAt
      <4>3. QED
        BY <2>1, <4>2
    <3>3. QED
      BY <3>1, <3>2
      DEF CaptureNext, captureVars, Startup, LaneStep, Boot, ImportLine, ImportStops, ImportEnds, FindBatch, AppendJournal,
          SinkWrites, SinkWritesRest, SinkSyncs, SinkFails, Submitted, DrainFails, Interrupt, Exit, Crash
  <2>3. CASE Cuts(file') \subseteq Cuts(file) /\ shorts' = shorts
    BY <2>2, <2>3, AccountKept
  <2>4. CASE ~(Cuts(file') \subseteq Cuts(file) /\ shorts' = shorts)
    <3>1. PICK p \in Pieces : file' = Append(file, p) /\ ((p.part # "cut" /\ shorts' = shorts) \/ shorts' = shorts + 1)
      <4>1. CASE \E n \in synced..Len(file) : file' = SubSeq(file, 1, n) /\ shorts' = shorts
        <5>1. PICK n \in synced..Len(file) : file' = SubSeq(file, 1, n)
          BY <4>1
        <5>2. n \in 0..Len(file)
          BY <1>0, <5>1 DEF Typed
        <5>3. \A i \in DOMAIN file' : i \in DOMAIN file /\ file'[i] = file[i]
          BY <1>0, <5>1, <5>2
        <5>4. Cuts(file') \subseteq Cuts(file)
          BY <5>3 DEF Cuts
        <5>5. QED
          BY <2>4, <4>1, <5>4
      <4>2. CASE ~\E n \in synced..Len(file) : file' = SubSeq(file, 1, n) /\ shorts' = shorts
        BY <1>0, <1>2, <2>4, <4>2 DEF FileMoves, Cuts
      <4>3. QED
        BY <4>1, <4>2
    <3>2. Cuts(file') \subseteq Cuts(file) \cup {Len(file) + 1}
      BY <1>0, <3>1 DEF Cuts
    <3>3. shorts' = shorts + 1
      <4>1. p.part # "cut" => Cuts(file') \subseteq Cuts(file)
        BY <1>0, <3>1 DEF Cuts
      <4>2. QED
        BY <2>4, <3>1, <4>1
    <3>4. /\ Cardinality(Cuts(file)) \in Nat /\ Cardinality(Cuts(file')) \in Nat
          /\ Cardinality(Cuts(file')) <= Cardinality(Cuts(file)) + 1
      <4>1. IsFiniteSet(Cuts(file)) /\ Cardinality(Cuts(file)) \in Nat /\ Cardinality(Cuts(file')) \in Nat
        BY CutsFinite DEF Typed
      <4>2. /\ IsFiniteSet(Cuts(file) \cup {Len(file) + 1})
            /\ Cardinality(Cuts(file) \cup {Len(file) + 1}) \in {Cardinality(Cuts(file)), Cardinality(Cuts(file)) + 1}
        BY <4>1, FS_AddElement
      <4>3. Cardinality(Cuts(file')) <= Cardinality(Cuts(file) \cup {Len(file) + 1})
        BY <3>2, <4>2, FS_Subset
      <4>4. QED
        BY <4>1, <4>2, <4>3
    <3>5. /\ Cardinality(reported \ Taken) \in Nat /\ Cardinality(reported' \ Taken') \in Nat
          /\ Cardinality(reported' \ Taken') <= Cardinality(reported \ Taken)
      <4>1. reported \ Taken \subseteq Finds /\ reported' \ Taken' \subseteq Finds
        BY DEF Typed
      <4>2. QED
        BY <2>2, <4>1, FindsFinite, FS_Subset
    <3>6. QED
      BY <1>0, <3>3, <3>4, <3>5 DEF Accounted
  <2>5. QED
    BY <2>3, <2>4
<1>3. QED
  BY <1>1, <1>2

(* The lanes together hold at most a batch each: the finds of a batch are   *)
(* numbered by the lane and the place in it.                                *)
LEMMA HeldBound ==
  ASSUME Typed, LaneWork
  PROVE  Held \subseteq Finds /\ Cardinality(Held) <= BatchMax * Cardinality(Lanes)
<1>1. \A l \in Lanes : lane[l].work \in Seq(Finds) /\ Len(lane[l].work) \in Nat /\ Len(lane[l].work) <= BatchMax
  BY DEF Typed, LaneRecord, LaneWork
<1>2. Held \subseteq Finds
  BY <1>1 DEF Held
<1>3. BatchMax \in Nat /\ IsFiniteSet(Lanes) /\ Cardinality(Lanes) \in Nat
  BY LimitTyped, CaptureAssumption, FS_CardinalityType
<1>4. CASE Held = {}
  <2>1. Cardinality(Held) = 0 /\ BatchMax * Cardinality(Lanes) \in Nat
    BY <1>3, <1>4, FS_EmptySet
  <2>2. QED
    BY <1>2, <2>1
<1>5. CASE Held # {}
  <2>1. PICK h \in Held : TRUE
    BY <1>5
  <2> DEFINE places == Lanes \X (1..BatchMax)
             g == [x \in places |-> IF x[2] \in DOMAIN lane[x[1]].work THEN lane[x[1]].work[x[2]] ELSE h]
  <2>2. g \in [places -> Held]
    <3>1. \A x \in places : g[x] \in Held
      BY <2>1 DEF Held
    <3>2. QED
      BY <3>1
  <2>3. \A f \in Held : \E x \in places : g[x] = f
    <3>1. TAKE f \in Held
    <3>2. PICK l \in Lanes : \E i \in DOMAIN lane[l].work : f = lane[l].work[i]
      BY DEF Held
    <3>3. PICK i \in DOMAIN lane[l].work : f = lane[l].work[i]
      BY <3>2
    <3>4. i \in 1..BatchMax
      BY <1>1, <1>3, <3>3
    <3>5. <<l, i>> \in places /\ g[<<l, i>>] = f
      BY <3>3, <3>4
    <3>6. QED
      BY <3>5
  <2>4. g \in Surjection(places, Held)
    BY <2>2, <2>3 DEF Surjection
  <2>5. IsFiniteSet(places) /\ Cardinality(places) = Cardinality(Lanes) * BatchMax
    <3>1. IsFiniteSet(1..BatchMax) /\ Cardinality(1..BatchMax) = BatchMax
      BY <1>3, FS_Interval
    <3>2. QED
      BY <1>3, <3>1, FS_Product
  <2> HIDE DEF g, places
  <2>6. Cardinality(Held) <= Cardinality(places)
    BY <2>4, <2>5, FS_Surjection
  <2>7. Cardinality(Lanes) * BatchMax = BatchMax * Cardinality(Lanes)
    BY <1>3
  <2>8. QED
    BY <1>2, <2>5, <2>6, <2>7
<1>6. QED
  BY <1>4, <1>5

(* The same, of the state after a step.                                     *)
LEMMA HeldBoundAfter ==
  (Typed /\ LaneWork => Cardinality(Held) <= BatchMax * Cardinality(Lanes))'
<1>1. Typed /\ LaneWork => Cardinality(Held) <= BatchMax * Cardinality(Lanes)
  BY HeldBound
<1>2. QED
  BY <1>1, PTL

(* Every step keeps what is dropped and in hand within a batch per lane.    *)
LEMMA NextDropsHeld ==
  ASSUME Typed, LaneWork, Flags, DropsHeld, [CaptureNext]_captureVars, Typed', LaneWork'
  PROVE  DropsHeld'
<1>1. BatchMax' = BatchMax /\ BatchMax \in Nat /\ Cardinality(Lanes) \in Nat
  <2>1. limit' = limit
    BY DEF CaptureNext, captureVars, bounds, Refuse, Startup, LaneStep, Boot, ImportLine, ImportStops, ImportEnds, FindBatch,
           AppendJournal, SinkWrites, SinkWritesRest, SinkSyncs, SinkFails, Report, Submitted, DrainFails,
           Interrupt, Exit, Crash
  <2>2. QED
    BY <2>1, LimitTyped, CaptureAssumption, FS_CardinalityType DEF BatchMax
<1>2. ASSUME dropped' = {} PROVE DropsHeld'
  <2>1. dropped' \cup Held' = Held'
    BY <1>2
  <2>2. Cardinality(Held') <= BatchMax' * Cardinality(Lanes)
    BY HeldBoundAfter
  <2>3. QED
    BY <1>2, <2>1, <2>2 DEF DropsHeld
<1>3. ASSUME dropped' \cup Held' \subseteq dropped \cup Held, dropped' # {} => ~running' PROVE DropsHeld'
  <2>1. dropped \cup Held \subseteq Finds
    BY HeldBound DEF Typed
  <2>2. /\ Cardinality(dropped' \cup Held') <= Cardinality(dropped \cup Held)
        /\ Cardinality(dropped' \cup Held') \in Nat /\ Cardinality(dropped \cup Held) \in Nat
    <3>1. dropped' \cup Held' \subseteq Finds
      BY <1>3, <2>1
    <3>2. QED
      BY <1>3, <2>1, <3>1, FindsFinite, FS_Subset
  <2>3. BatchMax * Cardinality(Lanes) \in Nat
    BY <1>1
  <2>4. QED
    BY <1>1, <1>3, <2>2, <2>3 DEF DropsHeld
<1>4. CASE \E l \in Lanes, n \in 1..BatchMax : FindBatch(l, n)
  <2>1. running /\ dropped' = dropped
    BY <1>4 DEF FindBatch
  <2>2. QED
    BY <1>2, <2>1 DEF DropsHeld
<1>5. CASE Boot
  BY <1>2, <1>5 DEF Boot
<1>6. CASE \E l \in Lanes : LaneStep(l)
  <2>1. PICK l \in Lanes : LaneStep(l)
    BY <1>6
  <2>2. /\ LaneMoves(l) /\ lane[l].pc # "mine" /\ (running' => running)
        /\ dropped' = dropped \/ (dropped' = dropped \cup {Current(l)} /\ ~running')
    BY <2>1, LaneStepMoves
  <2>3. Current(l) \in Held
    BY <2>2, CurrentFind DEF Held
  <2>4. Held' \subseteq Held
    <3>1. \A m \in Lanes : {lane'[m].work[i] : i \in DOMAIN lane'[m].work} \subseteq {lane[m].work[i] : i \in DOMAIN lane[m].work}
      BY <2>2 DEF LaneMoves
    <3>2. QED
      BY <3>1 DEF Held
  <2>5. dropped' # {} => ~running'
    BY <2>2 DEF DropsHeld
  <2>6. QED
    BY <1>3, <2>2, <2>3, <2>4, <2>5
<1>7. CASE Crash
  <2>1. dropped' = dropped /\ running' = running /\ lane' = [l \in Lanes |-> LaneIdle]
    BY <1>7 DEF Crash
  <2>2. \A l \in Lanes : DOMAIN lane'[l].work = {}
    BY <2>1, IdleLane
  <2>3. Held' = {}
    BY <2>2 DEF Held
  <2>4. QED
    BY <1>3, <2>1, <2>3 DEF DropsHeld
<1>8. CASE UNCHANGED <<lane, dropped>> /\ (running' => running)
  BY <1>3, <1>8 DEF DropsHeld, Held
<1>9. QED
  BY <1>4, <1>5, <1>6, <1>7, <1>8
  DEF CaptureNext, captureVars, Startup, ImportLine, ImportStops, ImportEnds, Submitted, DrainFails, DeclareFatal, Interrupt, Exit

-----------------------------------------------------------------------------
(* The first state has no find, no file and no lane at work.                *)
LEMMA InitCapture == CaptureInit => CaptureInductive
<1> SUFFICES ASSUME CaptureInit PROVE CaptureInductive
  OBVIOUS
<1>1. Flags
  BY Zenon DEF CaptureInit, Flags
<1>2. \A l \in Lanes : lane[l] = LaneIdle
  BY DEF CaptureInit
<1>3. Typed
  BY IdleLane, CaptureAssumption DEF CaptureInit, Typed
<1>4. LaneWork
  BY <1>2, <1>3, LimitTyped, IdleLane DEF CaptureInit, LaneWork
<1>5. LaneSound
  BY <1>2, IdleLane DEF LaneSound, SoundAt
<1>6. Imported
  BY DEF CaptureInit, Imported
<1>7. Accounted
  <2>1. reported \ Taken = {} /\ Cuts(file) = {} /\ shorts = 0
    BY DEF CaptureInit, Cuts
  <2>2. QED
    BY <2>1, FS_EmptySet DEF Accounted
<1>8. DropsHeld
  <2>1. dropped \cup Held = Held
    BY DEF CaptureInit
  <2>2. QED
    BY <1>3, <1>4, <2>1, HeldBound DEF CaptureInit, DropsHeld
<1>9. QED
  BY <1>1, <1>3, <1>4, <1>5, <1>6, <1>7, <1>8 DEF CaptureInductive

(* The inductive invariant holds.                                           *)
LEMMA CaptureInduction == CaptureSpec => []CaptureInductive
<1>1. ASSUME CaptureInductive, [CaptureNext]_captureVars PROVE CaptureInductive'
  <2>1. Typed /\ Flags /\ LaneWork /\ LaneSound /\ Imported /\ Accounted /\ DropsHeld
    BY <1>1 DEF CaptureInductive
  <2>2. Typed' /\ LaneWork'
    BY <1>1, <2>1, NextTyped
  <2>3. Flags' /\ LaneSound' /\ Imported'
    BY <1>1, <2>1, <2>2, NextFlags, NextLaneSound, NextImported
  <2>4. Accounted' /\ DropsHeld'
    BY <1>1, <2>1, <2>2, NextAccounted, NextDropsHeld
  <2>5. QED
    BY <2>2, <2>3, <2>4 DEF CaptureInductive
<1>2. QED
  BY InitCapture, <1>1, PTL DEF CaptureSpec

(* For every number of lanes, batch size and pattern of crashes, refused    *)
(* calls and interrupted imports: a short write costs two reported finds at *)
(* most, nothing else costs any, and a disk that takes nothing costs the    *)
(* batches in hand when main.cpp declares the fatal failure.                *)
THEOREM CaptureSafe == CaptureSpec => []CaptureInvariant
<1>1. CaptureInductive => CaptureInvariant
  <2> SUFFICES ASSUME CaptureInductive PROVE CaptureInvariant
    OBVIOUS
  <2>0. Typed /\ Flags /\ LaneWork /\ Accounted /\ DropsHeld
    BY DEF CaptureInductive
  <2>1. CaptureTypeOK
    <3>1. running \in BOOLEAN /\ fatal \in BOOLEAN
      BY <2>0 DEF Flags
    <3>2. \A i \in DOMAIN file : file[i].find \in Finds /\ file[i].part \in {"whole", "cut", "rest"}
      <4>1. \A i \in DOMAIN file : file[i] \in Pieces
        BY <2>0 DEF Typed
      <4>2. QED
        BY <4>1 DEF Pieces, Parts
    <3>3. \A l \in Lanes : /\ lane[l].pc \in {"mine", "append", "sink", "rest", "sync", "report"}
                           /\ (lane[l].pc = "mine") <=> (lane[l].work = <<>>)
      BY <2>0 DEF Typed, LaneRecord, Points, LaneWork
    <3>4. QED
      BY <2>0, <3>1, <3>2, <3>3 DEF Typed, CaptureTypeOK
  <2>2. LossBounded
    <3>1. Cardinality(reported \ Kept) <= Cardinality(reported \ Taken) + 2 * Cardinality(Cuts(file))
      BY <2>0, LossBound
    <3>2. /\ Cardinality(reported \ Taken) \in Nat /\ Cardinality(reported \ Kept) \in Nat
          /\ Cardinality(Cuts(file)) \in Nat /\ shorts \in Nat
      <4>1. reported \ Taken \subseteq Finds /\ reported \ Kept \subseteq Finds
        BY <2>0 DEF Typed
      <4>2. QED
        BY <2>0, <4>1, FindsFinite, CutsFinite DEF Typed
    <3>3. QED
      BY <2>0, <3>1, <3>2 DEF LossBounded, Accounted
  <2>3. DropsBounded
    <3>1. dropped \cup Held \subseteq Finds /\ dropped \subseteq dropped \cup Held
      BY <2>0, HeldBound DEF Typed
    <3>2. /\ Cardinality(dropped) <= Cardinality(dropped \cup Held)
          /\ Cardinality(dropped) \in Nat /\ Cardinality(dropped \cup Held) \in Nat
      <4>1. dropped \subseteq Finds
        BY <3>1
      <4>2. QED
        BY <3>1, <4>1, FindsFinite, FS_Subset
    <3>3. BatchMax * Cardinality(Lanes) \in Nat
      BY <2>0, LimitTyped, CaptureAssumption, FS_CardinalityType
    <3>4. QED
      BY <2>0, <3>2, <3>3 DEF DropsBounded, DropsHeld
  <2>4. QED
    BY <2>1, <2>2, <2>3 DEF CaptureInvariant
<1>2. QED
  BY CaptureInduction, <1>1, PTL

(* What a lost find needs: as long as FallbackSink's write has taken each   *)
(* line whole, each find a lane reported is in the journal or a readable    *)
(* line of the sink, whatever crashed, was refused or was cut off by an     *)
(* interrupted import.                                                      *)
THEOREM LossNeedsShortWrite == CaptureSpec => [](shorts = 0 => TornCostsOne)
<1>1. CaptureInductive /\ CaptureInvariant => (shorts = 0 => TornCostsOne)
  <2> SUFFICES ASSUME CaptureInductive, CaptureInvariant, shorts = 0 PROVE TornCostsOne
    OBVIOUS
  <2> DEFINE lost == reported \ Kept
  <2>1. lost \subseteq Finds
    BY DEF CaptureInductive, Typed
  <2>2. IsFiniteSet(lost) /\ Cardinality(lost) \in Nat
    BY <2>1, FindsFinite
  <2>3. Cardinality(lost) <= 0
    BY DEF CaptureInvariant, LossBounded
  <2>4. Cardinality(lost) = 0
    BY <2>2, <2>3
  <2>5. lost = {}
    BY <2>2, <2>4, FS_EmptySet
  <2>6. QED
    BY <2>5 DEF TornCostsOne
<1>2. QED
  BY CaptureInduction, CaptureSafe, <1>1, PTL

(* ON CONFLICT DO NOTHING: no import, repeated or not, and no other step    *)
(* queues a find again that the submission layer has finished.              *)
THEOREM CaptureNeverRevives == CaptureSpec => ImportNeverRevives
<1>1. CaptureInductive /\ [CaptureNext]_captureVars => [\A f \in Finds : journal[f] = "done" => journal'[f] = "done"]_captureVars
  <2> SUFFICES ASSUME CaptureInductive, [CaptureNext]_captureVars
               PROVE  \A f \in Finds : journal[f] = "done" => journal'[f] = "done"
    OBVIOUS
  <2>1. JournalKept
    BY NextJournal DEF CaptureInductive
  <2>2. QED
    BY <2>1 DEF JournalKept
<1>2. QED
  BY CaptureInduction, <1>1, PTL DEF CaptureSpec, ImportNeverRevives
=============================================================================
