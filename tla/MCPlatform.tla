----------------------------- MODULE MCPlatform -----------------------------
(***************************************************************************)
(* The marketplace: the miner's client, the verification of its commands,  *)
(* and the server's leases. They share no variable; a behaviour runs the   *)
(* one that part names, and the others stand still.                        *)
(***************************************************************************)
EXTENDS PlatformClient, CommandReplay, Marketplace

CONSTANTS Parts, l1, l2, l3, w1, w2
VARIABLE part

Message(command, action, l, good) ==
  [command |-> command, action |-> action, lease |-> l, good |-> good, auth |-> TRUE,
   fields |-> IF action = "set_config" THEN {"difficulty", "address"} ELSE {}]

Ack == Message("register_ack", "", 0, TRUE)
Nack == Message("register_ack", "", 0, FALSE)
Assign(l) == Message("assign_task", "", l, TRUE)
BadAssign == Message("assign_task", "", 2, FALSE)
Release(l) == Message("release", "", l, TRUE)
Control(action) == Message("", action, 0, TRUE)

(* Unsigned commands, with a command field that is none of the known  *)
(* ones too; a queue that is full with one of them.                        *)
Unsigned ==
  [messages |-> {Ack, Nack, Assign(1), Release(0), Message("other", "set_config", 0, TRUE)}
                  \cup {Control(a) : a \in {"pause", "resume", "shutdown"}},
   capacity |-> 1, secret |-> FALSE, arrivals |-> 3, finds |-> 0, losses |-> 1]

(* Signed commands, of which only assignments move the client's state      *)
(* while it runs; a shutdown; leases expire and a lane mines.              *)
Signed ==
  [messages |-> {Assign(1), BadAssign, Control("shutdown"), Control("set_config"),
                 [Assign(2) EXCEPT !.auth = FALSE]},
   capacity |-> 2, secret |-> TRUE, arrivals |-> 2, finds |-> 1, losses |-> 0]

(* Assignments, releases, pause and resume in any order around the         *)
(* watchdog's rounds.                                                      *)
Controlled ==
  [messages |-> {Assign(1), Assign(2), Release(0), Control("pause"), Control("resume")},
   capacity |-> 2, secret |-> TRUE, arrivals |-> 3, finds |-> 0, losses |-> 0]

(* The acknowledgement of a registration arrives after a lease began.      *)
LateAck ==
  [messages |-> {Ack, Assign(1)},
   capacity |-> 2, secret |-> TRUE, arrivals |-> 2, finds |-> 0, losses |-> 0]

MCSetups == [unsigned |-> Unsigned, signed |-> Signed, controlled |-> Controlled]
AckSetups == [lateack |-> LateAck]

(* Commands of three lifetimes, one issued ahead of the clock, a forged    *)
(* copy of the second, and envelopes that fail one check each.             *)
Short == SignCommand("w", 1, 0, 1)
Long == SignCommand("w", 2, 1, 3)
Ahead == SignCommand("w", 3, 3, 5)
Forged == [Long EXCEPT !.signed = FALSE]
MCEnvelopes ==
  {Short, Long, Ahead, Forged, [Forged EXCEPT !.auth = "none"], [Forged EXCEPT !.auth = "malformed"],
   SignCommand("v", 4, 0, 1), SignCommand("w", 5, 2, 2), SignCommand("w", 6, 0, 4)}

(* A lease that the sweep ends and another rented on its worker, while the *)
(* worker reports its state. The same with a stop for the first, so that   *)
(* stop and sweep settle one after the other. Stop and sweep over one      *)
(* lease. Two workers with a lease each, one stopped and one swept, while  *)
(* a third lease is rented: its insert may fail.                           *)
SweepScene ==
  [tasks |-> {"rent", "sweep", "report"}, workers |-> {w1}, kills |-> 1,
   open |-> [l \in {l1} |-> w1], rents |-> {l2}, ends |-> {l1, l2}, stops |-> {}]
TurnScene ==
  [SweepScene EXCEPT !.tasks = {"rent", "stop", "sweep"}, !.ends = {l2}, !.stops = {l1}]
BothScene ==
  [SweepScene EXCEPT !.tasks = {"stop", "sweep"}, !.rents = {}, !.ends = {l1}, !.stops = {l1}]
CrossScene ==
  [TurnScene EXCEPT !.kills = 0, !.workers = {w1, w2}, !.rents = {l3},
                    !.open = [l \in {l1, l2} |-> IF l = l1 THEN w2 ELSE w1]]
MCScenes == {SweepScene, TurnScene, BothScene, CrossScene}
TwiceScene == {BothScene}
PartialScene == {[SweepScene EXCEPT !.tasks = {"rent", "stop", "sweep", "report"}, !.kills = 0]}
-----------------------------------------------------------------------------
PlatformInit ==
  /\ part \in Parts
  /\ Init /\ ReplayInit /\ MarketInit
  /\ part # "client" => setup = CHOOSE s \in DOMAIN Setups : TRUE
  /\ part # "market" => scene = CHOOSE s \in Scenes : TRUE

PlatformNext ==
  /\ \/ part = "client" /\ Next /\ UNCHANGED <<replayVars, marketVars>>
     \/ part = "replay" /\ ReplayNext /\ UNCHANGED <<vars, marketVars>>
     \/ part = "market" /\ MarketNext /\ UNCHANGED <<vars, replayVars>>
  /\ UNCHANGED part

(* Each component under the fairness of its own specification.             *)
PlatformSpec ==
  /\ PlatformInit
  /\ [][PlatformNext]_<<part, vars, replayVars, marketVars>>
  /\ WF_vars(part = "client" /\ MainStep) /\ WF_vars(part = "client" /\ DispatchStep)
  /\ WF_vars(part = "client" /\ WatchdogStep) /\ WF_vars(part = "client" /\ Destroy)
  /\ \A t \in Threads : WF_vars(part = "client" /\ (StopStep(t) \/ SharedStep(t)))
  /\ WF_vars(part = "client" /\ Connected)
  /\ \A t \in Tasks : WF_marketVars(part = "market" /\ TaskStep(t))
  /\ \A t \in Sweepers : WF_marketVars(part = "market" /\ t \in scene.tasks /\ Sweep(t))
-----------------------------------------------------------------------------
(* The watchdog ends what it sees in MINING. Where of all commands only    *)
(* assignments move the state, every expired lease ends and the lanes stop *)
(* mining for it; a register_ack, pause or release can leave a lease       *)
(* behind in another state, where the watchdog does not look.              *)
WatchdogEndsLeases ==
  /\ MiningWatched
  /\ setup = "signed" => ExpiredLeaseEnds /\ NoOrphanContext
=============================================================================
