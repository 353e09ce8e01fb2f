---------------------------- MODULE FindCapture ----------------------------
(***************************************************************************)
(* How a find becomes durable. A mining lane hands every match of a batch  *)
(* to the submit callback of main.cpp, which appends it to the journal, or *)
(* else to the fallback sink (journal/FallbackSink.cpp), and only then     *)
(* reports it; if both fail the process declares a fatal durability        *)
(* failure, stops its lanes and exits for its supervisor to restart it.    *)
(* At the next start the sink is imported into the journal.                *)
(*                                                                         *)
(* The sink file is the sequence of what write(2) appended. A write may be *)
(* short ("cut"), the loop in writeAll then writes the "rest"; "whole" and *)
(* "rest" end with the newline. A line is whatever lies between newlines,  *)
(* and it parses only if it is exactly one record. (A write cut between    *)
(* the closing brace and the newline is counted as cut, although such a    *)
(* line would still parse at the end of the file.)                         *)
(*                                                                         *)
(* A lane is one GPU stream, or the CPU workers together, whose callbacks  *)
(* submit_mutex_ serialises. Finds are numbered in the order they occur.   *)
(***************************************************************************)
EXTENDS Integers, Sequences, FiniteSets

CONSTANTS
  Lanes,        \* mining threads
  MaxFinds,     \* bound: finds in a behaviour
  MaxCrashes,   \* bound: crashes in a behaviour
  Limits        \* the bounds a behaviour may have: see limit

ASSUME CaptureAssumption ==
  /\ IsFiniteSet(Lanes) /\ MaxFinds \in Nat /\ MaxCrashes \in Nat
  /\ Limits \subseteq [batch : Nat \ {0}, shorts : Nat, refusals : Nat]

Finds == 1..MaxFinds

VARIABLES
  journal,   \* durable: status of each find's row
  file,      \* the sink file
  synced,    \* how much of it is on stable storage
  proc,      \* down, import (FallbackSink::importInto) or up
  at,        \* next piece of the file that importInto reads
  lane,      \* what each lane is doing, and the matches of its batch still to handle
  running,   \* the flag of that name
  fatal,     \* globalFatalDurabilityFailure
  found,     \* number of finds so far
  reported,  \* finds announced as durably captured
  dropped,   \* finds of this run that neither path took
  shorts, crashes, refusals,
  limit      \* [batch, shorts, refusals]

sinkVars == <<file, synced>>
bounds == <<shorts, crashes, refusals, limit>>
captureVars == <<journal, sinkVars, proc, at, lane, running, fatal, found, reported, dropped, bounds>>

BatchMax == limit.batch          \* matches in one batch
MaxShorts == limit.shorts        \* bound: short writes in a behaviour
MaxRefusals == limit.refusals    \* bound: journal or sink calls that fail in a behaviour

LaneIdle == [pc |-> "mine", work |-> <<>>]

CaptureInit ==
  /\ journal = [f \in Finds |-> "none"]
  /\ file = <<>> /\ synced = 0
  /\ proc = "down" /\ at = 1
  /\ lane = [l \in Lanes |-> LaneIdle]
  /\ running = FALSE /\ fatal = FALSE
  /\ found = 0 /\ reported = {} /\ dropped = {}
  /\ shorts = 0 /\ crashes = 0 /\ refusals = 0 /\ limit \in Limits

Piece(f, part) == [find |-> f, part |-> part]

(* The piece at position i is the first of a line. *)
StartsLine(s, i) == i > 1 => s[i - 1].part # "cut"

(* parseFlatObject and payloadFromFields accept the line that ends at i.   *)
Parses(s, i) ==
  \/ s[i].part = "whole" /\ StartsLine(s, i)
  \/ /\ s[i].part = "rest" /\ i > 1
     /\ s[i - 1] = Piece(s[i].find, "cut") /\ StartsLine(s, i - 1)

Readable(s) == {s[i].find : i \in {j \in DOMAIN s : Parses(s, j)}}

(* Broken: INSERT OR REPLACE. *)
JournaledAgain(j, f) == [j EXCEPT ![f] = "queued"]

(* ON CONFLICT(key) DO NOTHING *)
Journaled(j, f) == IF j[f] = "none" THEN [j EXCEPT ![f] = "queued"] ELSE j

Refuse == refusals < MaxRefusals /\ refusals' = refusals + 1 /\ UNCHANGED <<shorts, crashes, limit>>
-----------------------------------------------------------------------------
(* Startup. A start that fails to open the journal ends at once.           *)

Boot ==
  /\ proc = "down"
  /\ proc' = "import" /\ at' = 1
  /\ running' = TRUE /\ fatal' = FALSE /\ dropped' = {}
  /\ UNCHANGED <<journal, sinkVars, lane, found, reported, bounds>>

ImportLine ==
  /\ proc = "import" /\ at <= Len(file)
  /\ journal' = IF Parses(file, at) THEN Journaled(journal, file[at].find) ELSE journal
  /\ at' = at + 1
  /\ UNCHANGED <<sinkVars, proc, lane, running, fatal, found, reported, dropped, bounds>>

(* Broken: the file is archived although not every record was imported. *)
SinkAfterUncleanArchives == file' = <<>> /\ synced' = 0

(* A pass that journal.append interrupts leaves the file as it is.         *)
SinkAfterUnclean == UNCHANGED sinkVars

ImportStops ==
  /\ proc = "import" /\ at <= Len(file) /\ Parses(file, at)
  /\ Refuse
  /\ SinkAfterUnclean
  /\ proc' = "up" /\ at' = 1
  /\ UNCHANGED <<journal, lane, running, fatal, found, reported, dropped>>

(* A clean pass renames the file away; if that fails it stays.             *)
ImportEnds ==
  /\ proc = "import" /\ at > Len(file)
  /\ \/ file' = <<>> /\ synced' = 0 /\ UNCHANGED bounds
     \/ Refuse /\ UNCHANGED sinkVars
  /\ proc' = "up" /\ at' = 1
  /\ UNCHANGED <<journal, lane, running, fatal, found, reported, dropped>>
-----------------------------------------------------------------------------
(* Mining lanes and the submit callback *)

Current(l) == Head(lane[l].work)

At(l, pc) == proc = "up" /\ lane[l].pc = pc

Move(l, pc) == lane' = [lane EXCEPT ![l].pc = pc]

(* Broken: only the first match of a batch is handled. *)
NextMatchForgets(l) == Move(l, "mine")

(* The callback returns; the rest of the batch is handled without a look   *)
(* at `running'.                                                           *)
NextMatch(l) ==
  lane' = [lane EXCEPT ![l] =
             IF Len(@.work) = 1 THEN LaneIdle ELSE [pc |-> "append", work |-> Tail(@.work)]]

(* Broken: the failure is logged, and mining goes on. *)
DeclareFatalQuietly == fatal' = TRUE /\ UNCHANGED running

DeclareFatal == fatal' = TRUE /\ running' = FALSE

Drop(l) ==
  /\ dropped' = dropped \cup {Current(l)}
  /\ DeclareFatal
  /\ NextMatch(l)

FindBatch(l, n) ==
  /\ At(l, "mine") /\ running /\ found + n <= MaxFinds
  /\ lane' = [lane EXCEPT ![l] = [pc |-> "append", work |-> [i \in 1..n |-> found + i]]]
  /\ found' = found + n
  /\ UNCHANGED <<journal, sinkVars, proc, at, running, fatal, reported, dropped, bounds>>

AppendJournal(l) ==
  /\ At(l, "append")
  /\ \/ journal' = Journaled(journal, Current(l)) /\ Move(l, "report") /\ UNCHANGED bounds
     \/ Refuse /\ Move(l, "sink") /\ UNCHANGED journal
  /\ UNCHANGED <<sinkVars, proc, at, running, fatal, found, reported, dropped>>

SinkWrites(l) ==
  /\ At(l, "sink")
  /\ \/ file' = Append(file, Piece(Current(l), "whole")) /\ Move(l, "sync") /\ UNCHANGED bounds
     \/ /\ shorts < MaxShorts /\ shorts' = shorts + 1 /\ UNCHANGED <<crashes, refusals, limit>>
        /\ file' = Append(file, Piece(Current(l), "cut")) /\ Move(l, "rest")
  /\ UNCHANGED <<journal, synced, proc, at, running, fatal, found, reported, dropped>>

SinkWritesRest(l) ==
  /\ At(l, "rest")
  /\ file' = Append(file, Piece(Current(l), "rest")) /\ Move(l, "sync")
  /\ UNCHANGED <<journal, synced, proc, at, running, fatal, found, reported, dropped, bounds>>

SinkSyncs(l) ==
  /\ At(l, "sync")
  /\ synced' = Len(file) /\ Move(l, "report")
  /\ UNCHANGED <<journal, file, proc, at, running, fatal, found, reported, dropped, bounds>>

(* open, write, fsync or close fails: append returns false. *)
SinkFails(l) ==
  /\ proc = "up" /\ lane[l].pc \in {"sink", "rest", "sync"}
  /\ Refuse /\ Drop(l)
  /\ UNCHANGED <<journal, sinkVars, proc, at, found, reported>>

(* Platform report, counters and log line of a captured find. *)
Report(l) ==
  /\ At(l, "report")
  /\ reported' = reported \cup {Current(l)}
  /\ NextMatch(l)
  /\ UNCHANGED <<journal, sinkVars, proc, at, running, fatal, found, dropped, bounds>>
-----------------------------------------------------------------------------
(* The submission layer finishes a find, or reports that the journal does  *)
(* not work any more; the operator stops the miner; it exits.              *)

Submitted(f) ==
  /\ proc = "up" /\ journal[f] = "queued"
  /\ journal' = [journal EXCEPT ![f] = "done"]
  /\ UNCHANGED <<sinkVars, proc, at, lane, running, fatal, found, reported, dropped, bounds>>

DrainFails ==
  /\ proc = "up" /\ Refuse /\ DeclareFatal
  /\ UNCHANGED <<journal, sinkVars, proc, at, lane, found, reported, dropped>>

Interrupt ==
  /\ proc = "up" /\ running /\ running' = FALSE
  /\ UNCHANGED <<journal, sinkVars, proc, at, lane, fatal, found, reported, dropped, bounds>>

(* main leaves its wait loop and joins the lanes. *)
Exit ==
  /\ proc = "up" /\ ~running /\ \A l \in Lanes : lane[l] = LaneIdle
  /\ proc' = "down"
  /\ UNCHANGED <<journal, sinkVars, at, lane, running, fatal, found, reported, dropped, bounds>>

(* The process or the machine dies: of the file at least what was fsync'd  *)
(* is there afterwards.                                                    *)
Crash ==
  /\ proc # "down" /\ crashes < MaxCrashes
  /\ crashes' = crashes + 1 /\ UNCHANGED <<shorts, refusals, limit>>
  /\ \E n \in synced..Len(file) : file' = SubSeq(file, 1, n) /\ synced' = n
  /\ proc' = "down" /\ at' = 1 /\ lane' = [l \in Lanes |-> LaneIdle]
  /\ UNCHANGED <<journal, running, fatal, found, reported, dropped>>

LaneStep(l) ==
  \/ AppendJournal(l) \/ SinkWrites(l) \/ SinkWritesRest(l) \/ SinkSyncs(l)
  \/ SinkFails(l) \/ Report(l)

Startup == Boot \/ ImportLine \/ ImportStops \/ ImportEnds

CaptureNext ==
  \/ Startup
  \/ \E l \in Lanes : LaneStep(l) \/ \E n \in 1..BatchMax : FindBatch(l, n)
  \/ \E f \in Finds : Submitted(f)
  \/ DrainFails \/ Interrupt \/ Exit \/ Crash

(* The supervisor restarts the process, threads run; nobody has to find    *)
(* anything.                                                               *)
CaptureSpec ==
  /\ CaptureInit /\ [][CaptureNext]_captureVars
  /\ WF_captureVars(Startup) /\ WF_captureVars(Exit)
  /\ \A l \in Lanes : WF_captureVars(LaneStep(l))
-----------------------------------------------------------------------------
(* Ranges of the state, and where each lane may be with what. *)
CaptureTypeOK ==
  /\ journal \in [Finds -> {"none", "queued", "done"}]
  /\ \A i \in DOMAIN file : file[i].find \in Finds /\ file[i].part \in {"whole", "cut", "rest"}
  /\ synced \in 0..Len(file)
  /\ proc \in {"down", "import", "up"} /\ at \in 1..(Len(file) + 1)
  /\ \A l \in Lanes :
       /\ lane[l].pc \in {"mine", "append", "sink", "rest", "sync", "report"}
       /\ (lane[l].pc = "mine") <=> (lane[l].work = <<>>)
  /\ running \in BOOLEAN /\ fatal \in BOOLEAN
  /\ found \in 0..MaxFinds /\ reported \subseteq Finds /\ dropped \subseteq Finds

(* What is safe against everything but the journal's own end. *)
Kept == {f \in Finds : journal[f] # "none"} \cup Readable(file)

(* No crash, refused call, interrupted or repeated import makes a reported *)
(* find vanish. Only short writes can damage records, and each damages at  *)
(* most its own and one more.                                              *)
LossBounded == Cardinality(reported \ Kept) <= 2 * shorts

(* A disk that takes nothing costs at most the batch each lane has in      *)
(* hand: declareFatalDurabilityFailure keeps every lane from mining finds  *)
(* that could not be saved either.                                         *)
DropsBounded == Cardinality(dropped) <= BatchMax * Cardinality(Lanes)

(* Importing again what was journaled already, whether after a crash       *)
(* during an import or because the archive failed, never queues a find     *)
(* again that the submission layer has finished.                           *)
ImportNeverRevives ==
  [][\A f \in Finds : journal[f] = "done" => journal'[f] = "done"]_captureVars

(* A fatal durability failure ends in a fresh process. *)
FatalRestarts == fatal ~> (proc = "up" /\ ~fatal)

(* "a torn tail from a crash mid-write costs exactly one record"           *)
(* (FallbackSink.h): the record being written, which was never reported.   *)
TornCostsOne == reported \subseteq Kept

(* What may be lost, and no more: next to a short write what was reported, *)
(* with a disk that takes nothing what the lanes have in hand.             *)
CaptureInvariant == CaptureTypeOK /\ LossBounded /\ DropsBounded
=============================================================================
