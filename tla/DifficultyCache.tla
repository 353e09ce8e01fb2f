--------------------------- MODULE DifficultyCache ---------------------------
(***************************************************************************)
(* The difficulty poller (DifficultyManager.cpp): it asks the server every *)
(* ten seconds, applies and persists the answer, counts failures in a row, *)
(* and a restarted miner begins with the persisted value (main.cpp). The   *)
(* process may be killed between any two system calls; files stay.         *)
(***************************************************************************)
EXTENDS Integers

CONSTANTS
  Answers,        \* numbers the server may answer; some may be out of range (0 stands
                  \* for negative ones too: nothing tells them apart)
  Hints,          \* difficulties a submission's answer may name
  MaxCached,      \* loadCachedDifficulty's limit
  Fallback,       \* 42069
  Threshold,      \* kPoolDownFailureThreshold
  MaxFailures,    \* bound: failures that are counted
  MaxRestarts     \* bound: times the process is killed

ASSUME DifficultyAssumption ==
  /\ Answers \subseteq Nat /\ Hints \subseteq Nat \ {0}
  /\ MaxCached \in Nat /\ Fallback \in 1..MaxCached
  /\ Threshold \in Nat \ {0} /\ MaxFailures \in Nat /\ MaxRestarts \in Nat

\* Content of a file that does not exist or holds no number.
NoFile == -1

VARIABLES
  difficulty,    \* globalDifficulty; 0 is its initial value
  failures,      \* consecutiveDifficultyFailures
  down,          \* globalDifficultyEndpointDown
  polling,       \* where updateDifficulty is,
  answer,        \* with which answer
  cache, tmp,    \* difficulty.cache and difficulty.cache.tmp: NoFile or a content
  reachable,     \* the server answers
  failedPolls,   \* history: polls failed since the last good one of this process
  told,          \* history: all the server ever answered
  restarts

files == <<cache, tmp>>
difficultyVars == <<difficulty, failures, down, polling, answer, files, reachable, failedPolls, told, restarts>>

Usable(v) == v \in 1..MaxCached

\* What a file holds after a write of v was cut short: nothing, or its first digits.
Torn(v) == {v \div 10, NoFile}

\* Broken: whatever number is in the file is taken.
LoadCachedDifficultyAny == IF cache = NoFile THEN 0 ELSE cache

LoadCachedDifficulty == IF Usable(cache) THEN cache ELSE 0
-----------------------------------------------------------------------------
DifficultyTypeOK ==
  /\ difficulty \in Nat /\ failures \in 0..MaxFailures /\ failedPolls \in 0..MaxFailures
  /\ {down, reachable} \subseteq BOOLEAN
  /\ polling \in {"seed", "first", "poll", "applied", "written", "removed", "saved", "sleep"}
  /\ restarts \in 0..MaxRestarts

DifficultyInit ==
  /\ difficulty = 0 /\ failures = 0 /\ down = FALSE /\ polling = "seed" /\ answer = 0
  /\ cache = NoFile /\ tmp = NoFile
  /\ reachable \in BOOLEAN /\ failedPolls = 0 /\ told = {} /\ restarts = 0

Seed ==
  /\ polling = "seed" /\ polling' = "first"
  /\ difficulty' = IF LoadCachedDifficulty > 0 THEN LoadCachedDifficulty ELSE Fallback
  /\ UNCHANGED <<failures, down, answer, files, reachable, failedPolls, told, restarts>>

\* getDifficulty and stoi succeed; the value is applied, whatever it is.
PollAnswered ==
  /\ polling \in {"first", "poll"} /\ reachable
  /\ \E v \in Answers : answer' = v /\ difficulty' = v /\ told' = told \cup {v}
  /\ polling' = "applied"
  /\ UNCHANGED <<failures, down, files, reachable, failedPolls, restarts>>

\* No answer, another status, or no number in it.
PollFailed ==
  /\ polling \in {"first", "poll"} /\ failures < MaxFailures
  /\ failures' = failures + 1 /\ failedPolls' = failedPolls + 1
  /\ down' = (down \/ failures' = Threshold)
  /\ polling' = "sleep"
  /\ UNCHANGED <<difficulty, answer, files, reachable, told, restarts>>

\* Broken persistDifficulty: the cache is written in place.
WriteTmpInPlace ==
  /\ polling = "applied"
  /\ \/ cache' = answer /\ polling' = "saved" /\ UNCHANGED restarts
     \/ /\ cache' \in Torn(answer) /\ polling' = "seed"
        /\ restarts < MaxRestarts /\ restarts' = restarts + 1
  /\ UNCHANGED <<difficulty, failures, down, answer, tmp, reachable, failedPolls, told>>

\* persistDifficulty: open, write and close the temporary file. A failure gives
\* up (and removes it); a kill in between leaves a part of it.
WriteTmp ==
  /\ polling = "applied"
  /\ \/ tmp' = answer /\ polling' = "written" /\ UNCHANGED <<difficulty, failures, down, failedPolls, restarts>>
     \/ tmp' \in {tmp, NoFile} /\ polling' = "saved"
        /\ UNCHANGED <<difficulty, failures, down, failedPolls, restarts>>
     \/ /\ tmp' \in Torn(answer) /\ polling' = "seed"
        /\ restarts < MaxRestarts /\ restarts' = restarts + 1
        /\ difficulty' = 0 /\ failures' = 0 /\ down' = FALSE /\ failedPolls' = 0
  /\ UNCHANGED <<answer, cache, reachable, told>>

RemoveCache ==
  /\ polling = "written" /\ polling' = "removed"
  /\ cache' = NoFile
  /\ UNCHANGED <<difficulty, failures, down, answer, tmp, reachable, failedPolls, told, restarts>>

RenameTmp ==
  /\ polling = "removed" /\ polling' = "saved"
  /\ cache' = tmp /\ tmp' = NoFile
  /\ UNCHANGED <<difficulty, failures, down, answer, reachable, failedPolls, told, restarts>>

\* Broken: only the flag is put back, the count goes on.
SettleFlag ==
  /\ polling = "saved" /\ polling' = "sleep"
  /\ down' = FALSE /\ failedPolls' = 0
  /\ UNCHANGED <<difficulty, failures, answer, files, reachable, told, restarts>>

\* Broken: a good poll takes one failure back, even where there is none.
SettleOne ==
  /\ polling = "saved" /\ polling' = "sleep"
  /\ failures' = failures - 1 /\ failedPolls' = 0
  /\ down' = FALSE
  /\ UNCHANGED <<difficulty, answer, files, reachable, told, restarts>>

\* Broken: the flag stays up once it was raised.
SettleCount ==
  /\ polling = "saved" /\ polling' = "sleep"
  /\ failures' = 0 /\ failedPolls' = 0
  /\ UNCHANGED <<difficulty, down, answer, files, reachable, told, restarts>>

Settle ==
  /\ polling = "saved" /\ polling' = "sleep"
  /\ failures' = 0 /\ failedPolls' = 0
  /\ down' = (down /\ failures = 0)
  /\ UNCHANGED <<difficulty, answer, files, reachable, told, restarts>>

Sleep ==
  /\ polling = "sleep" /\ polling' = "poll"
  /\ UNCHANGED <<difficulty, failures, down, answer, files, reachable, failedPolls, told, restarts>>

\* A submission's answer names a difficulty: applied, not persisted. The
\* submission thread runs before the difficulty is seeded.
Hint ==
  /\ \E v \in Hints : difficulty' = v
  /\ UNCHANGED <<failures, down, polling, answer, files, reachable, failedPolls, told, restarts>>

Kill ==
  /\ polling # "seed" /\ restarts < MaxRestarts /\ restarts' = restarts + 1
  /\ polling' = "seed" /\ difficulty' = 0 /\ failures' = 0 /\ down' = FALSE /\ failedPolls' = 0
  /\ UNCHANGED <<answer, files, reachable, told>>

PoolChanges ==
  /\ reachable' = ~reachable
  /\ UNCHANGED <<difficulty, failures, down, polling, answer, files, failedPolls, told, restarts>>

PollerStep ==
  \/ Seed \/ PollAnswered \/ WriteTmp \/ RemoveCache \/ RenameTmp \/ Settle \/ Sleep
  \/ (~reachable /\ PollFailed)

DifficultyNext == PollerStep \/ (reachable /\ PollFailed) \/ Hint \/ Kill \/ PoolChanges

\* The poller's thread runs. A server that can be reached answers in the end:
\* a poll that goes on failing is a server that cannot.
DifficultySpec ==
  DifficultyInit /\ [][DifficultyNext]_difficultyVars /\ WF_difficultyVars(PollerStep) /\ SF_difficultyVars(PollAnswered)
-----------------------------------------------------------------------------
\* However the process is killed while it writes, the cache holds a number the
\* server once answered, whole, or does not exist.
CacheWhole == cache = NoFile \/ cache \in told

\* The endpoint counts as down exactly when the last Threshold polls or more
\* have failed, at every outage anew.
DownMeansFailing == polling \in {"poll", "sleep"} => (down <=> failedPolls >= Threshold)

\* A miner begins at a usable difficulty, even after the server has answered
\* nonsense and that was persisted.
SeedUsable == polling = "first" => (Usable(difficulty) \/ difficulty \in Hints)

\* A server that stays reachable ends the outage.
DownClears == <>[]reachable => []<>(~down)

\* The cache is whole, the endpoint's flag exact, and a seed usable, through
\* failed polls, failed writes and kills between any two steps of persistDifficulty.
PollerInvariant == DifficultyTypeOK /\ CacheWhole /\ DownMeansFailing /\ SeedUsable
==============================================================================
