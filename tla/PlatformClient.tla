--------------------------- MODULE PlatformClient ---------------------------
(***************************************************************************)
(* The marketplace client (PlatformManager.cpp with LeaseManager,          *)
(* MiningCoordinator, MqttClient and WorkerReporter): commands that the    *)
(* broker's thread puts into a bounded queue are obeyed by one dispatch    *)
(* thread, while a watchdog thread ends expired leases and recovers from   *)
(* errors, main starts and stops the manager, and mining lanes read the    *)
(* mining context and report their finds.                                  *)
(*                                                                         *)
(* state_, the lease and the context are each atomic or under a lock of    *)
(* their own, so a handler is a list of steps between which the other      *)
(* threads run: todo[t] is what thread t still has to do of the operation  *)
(* it is in. A step named after a state is transitionTo that state.        *)
(*                                                                         *)
(* A lease is a number, 0 is none; the context is the lease the lanes mine *)
(* for, 0 is self mining. Whether a command's fields pass validation is    *)
(* its flag good (for set_config the set fields of those that do), what    *)
(* verifyEnvelope answers (CommandEnvelope) its flag auth.                 *)
(***************************************************************************)
EXTENDS Integers, Sequences, FiniteSets

CONSTANT
  Setups          \* the configurations a behaviour may have, by name: see setup

ASSUME ClientAssumption ==
  \A s \in DOMAIN Setups :
    /\ \A m \in Setups[s].messages : m.lease \in Nat /\ m.good \in BOOLEAN /\ m.auth \in BOOLEAN
    /\ Setups[s].capacity \in Nat \ {0} /\ Setups[s].secret \in BOOLEAN
    /\ Setups[s].arrivals \in Nat /\ Setups[s].finds \in Nat /\ Setups[s].losses \in Nat

States == {"IDLE", "AVAILABLE", "LEASED", "MINING", "COMPLETED", "ERROR"}
Fields == {"difficulty", "address", "prefix", "pattern"}
Threads == {"main", "dispatch", "watchdog"}

VARIABLES
  state, running,  \* state_, running_
  lease, expired,  \* current_lease_, and whether its time is up
  context,         \* MiningCoordinator's
  conn, callback,  \* the broker is connected; message_callback_ is set
  queue,           \* command_queue_
  dispatch,        \* where dispatchLoop is
  watchdog,        \* where leaseWatchdogLoop is (and the heartbeat thread)
  main,            \* where main is with the manager
  todo, ctx,       \* steps left of each thread's operation; handleAssignTask's ctx
  settings,        \* history: settings that set_config changed
  lane,            \* a mining lane: where, its batch's context, what it reads
  reports,         \* block reports: mined for which lease, sent under which
  arrivals, batches, losses,
  setup            \* which of Setups

Messages == Setups[setup].messages        \* what the platform may send
QueueCapacity == Setups[setup].capacity   \* COMMAND_QUEUE_CAPACITY
Secret == Setups[setup].secret            \* a platform_command_secret is configured
MaxArrivals == Setups[setup].arrivals     \* bound: commands delivered
MaxFound == Setups[setup].finds           \* bound: batches of the lane
MaxLosses == Setups[setup].losses         \* bound: times the broker is lost

leaseVars == <<lease, expired, context>>
brokerVars == <<conn, callback, losses>>
laneVars == <<lane, reports, batches>>
intakeVars == <<queue, arrivals, setup>>
placeVars == <<dispatch, watchdog, main>>
vars == <<state, running, leaseVars, brokerVars, intakeVars, placeVars, todo, ctx, settings, laneVars>>

Idle == [pc |-> "batch", mined |-> 0]

Init ==
  /\ state = "IDLE" /\ running = FALSE
  /\ lease = 0 /\ expired = FALSE /\ context = 0
  /\ conn = FALSE /\ callback = FALSE /\ losses = 0
  /\ queue = <<>> /\ arrivals = 0 /\ setup \in DOMAIN Setups
  /\ dispatch = "none" /\ watchdog = "none" /\ main = "start"
  /\ todo = [t \in Threads |-> <<>>] /\ ctx = 0 /\ settings = {}
  /\ lane = Idle /\ reports = {} /\ batches = 0

HasActiveLease == lease # 0 /\ ~expired

(* Broken: duration_sec is taken for no expiry. *)
IsExpiredNever == lease = 0

IsExpired == lease = 0 \/ expired
-----------------------------------------------------------------------------
(* The operations, as the steps of the thread that runs them *)

StartSteps == <<"subscribe", "AVAILABLE", "threads">>

(* Broken: the periodic threads are left running. *)
StopSteps0 == <<"sever", "wake", "if active", "join dispatch", "disconnect", "IDLE">>

StopSteps == <<"sever", "wake", "if active", "join watchdog", "join dispatch", "disconnect", "IDLE">>

AssignSteps == <<"LEASED", "start lease", "to context", "platform mining", "MINING">>

(* Broken: the lease is ended, and the lanes keep its context. *)
EndSteps0 == <<"COMPLETED", "end lease", "AVAILABLE">>

EndSteps == <<"COMPLETED", "end lease", "self mining", "AVAILABLE">>

(* Broken: an unknown command passes. *)
MutatingActionOnly(m) == m.command = "" /\ m.action \notin {"pause", "resume"}

(* isMutatingCommand *)
IsMutatingCommand(m) ==
  ~ \/ m.command \in {"register_ack", "assign_task", "release"}
    \/ m.command = "" /\ m.action \in {"pause", "resume"}

AuthorizeCommand(m) == IF Secret THEN m.auth ELSE ~IsMutatingCommand(m)

HandleRegisterAck(m) == IF m.good THEN <<"AVAILABLE">> ELSE <<"ERROR">>

HandleAssignTask(m) == IF state = "AVAILABLE" /\ m.good THEN AssignSteps ELSE <<>>

(* A release without a lease_id is for whatever lease there is. *)
HandleRelease(m) ==
  IF m.good /\ lease # 0 /\ m.lease \in {0, lease} THEN EndSteps ELSE <<>>

(* Each field is checked and stored on its own. *)
HandleSetConfig(m) ==
  SelectSeq(<<"difficulty", "address", "prefix", "pattern">>, LAMBDA f : f \in m.fields)

HandleControl(m) ==
  CASE m.action = "pause" -> <<"if active", "IDLE">>
    [] m.action = "resume" -> IF state = "IDLE" THEN <<"AVAILABLE">> ELSE <<>>
    [] m.action = "shutdown" -> <<"stop">>
    [] m.action = "set_config" -> HandleSetConfig(m)
    [] OTHER -> <<>>

(* onMessage *)
OnMessage(m) ==
  IF ~AuthorizeCommand(m) THEN <<>>
  ELSE CASE m.command = "register_ack" -> HandleRegisterAck(m)
         [] m.command = "assign_task" -> HandleAssignTask(m)
         [] m.command = "release" -> HandleRelease(m)
         [] OTHER -> HandleControl(m)
-----------------------------------------------------------------------------
(* One step of an operation of thread t *)

At(t, step) == todo[t] # <<>> /\ Head(todo[t]) = step

Done(t) == todo' = [todo EXCEPT ![t] = Tail(@)]
Then(t, steps) == todo' = [todo EXCEPT ![t] = steps \o Tail(@)]
Instead(t, steps) == todo' = [todo EXCEPT ![t] = steps]

TransitionTo(t) ==
  /\ todo[t] # <<>> /\ Head(todo[t]) \in States
  /\ state' = Head(todo[t]) /\ Done(t)
  /\ UNCHANGED <<running, leaseVars, brokerVars, intakeVars, placeVars, ctx, settings, laneVars>>

(* startLease refuses while there is a lease, active or not. *)
StartLease ==
  /\ At("dispatch", "start lease")
  /\ IF lease = 0
       THEN lease' = ctx /\ expired' = FALSE /\ Done("dispatch")
       ELSE Instead("dispatch", <<"ERROR">>) /\ UNCHANGED <<lease, expired>>
  /\ UNCHANGED <<state, running, context, brokerVars, intakeVars, placeVars, ctx, settings, laneVars>>

(* toMiningContext: the self-mining context if the lease is gone by now. *)
ToMiningContext ==
  /\ At("dispatch", "to context") /\ ctx' = lease /\ Done("dispatch")
  /\ UNCHANGED <<state, running, leaseVars, brokerVars, intakeVars, placeVars, settings, laneVars>>

SwitchToPlatformMining ==
  /\ At("dispatch", "platform mining") /\ context' = ctx /\ Done("dispatch")
  /\ UNCHANGED <<state, running, lease, expired, brokerVars, intakeVars, placeVars, ctx,
                 settings, laneVars>>

EndLease(t) ==
  /\ At(t, "end lease") /\ lease' = 0 /\ expired' = FALSE /\ Done(t)
  /\ UNCHANGED <<state, running, context, brokerVars, intakeVars, placeVars, ctx, settings,
                 laneVars>>

SwitchToSelfMining(t) ==
  /\ At(t, "self mining") /\ context' = 0 /\ Done(t)
  /\ UNCHANGED <<state, running, lease, expired, brokerVars, intakeVars, placeVars, ctx,
                 settings, laneVars>>

(* pause and stop look whether there is an active lease to end. *)
IfActive(t) ==
  /\ At(t, "if active")
  /\ IF HasActiveLease THEN Then(t, <<"end lease", "self mining">>) ELSE Done(t)
  /\ UNCHANGED <<state, running, leaseVars, brokerVars, intakeVars, placeVars, ctx, settings, laneVars>>

ApplySetting ==
  /\ todo["dispatch"] # <<>> /\ Head(todo["dispatch"]) \in Fields
  /\ settings' = settings \cup {Head(todo["dispatch"])} /\ Done("dispatch")
  /\ UNCHANGED <<state, running, leaseVars, brokerVars, intakeVars, placeVars, ctx, laneVars>>
-----------------------------------------------------------------------------
(* start and stop *)

(* start() gives up when the broker cannot be reached, and main drops the  *)
(* manager.                                                                *)
Start ==
  /\ main = "start"
  /\ \/ /\ conn' = TRUE /\ running' = TRUE /\ main' = "up"
        /\ todo' = [todo EXCEPT !["main"] = StartSteps] /\ UNCHANGED state
     \/ state' = "ERROR" /\ main' = "gone" /\ UNCHANGED <<conn, running, todo>>
  /\ UNCHANGED <<leaseVars, callback, losses, intakeVars, dispatch, watchdog, ctx, settings, laneVars>>

(* Topics, callback, dispatch thread, registration *)
Subscribe ==
  /\ At("main", "subscribe")
  /\ callback' = TRUE /\ dispatch' = "check" /\ Done("main")
  /\ UNCHANGED <<state, running, leaseVars, conn, losses, intakeVars, watchdog, main, ctx, settings,
                 laneVars>>

StartThreads ==
  /\ At("main", "threads") /\ watchdog' = "sleep" /\ Done("main")
  /\ UNCHANGED <<state, running, leaseVars, brokerVars, intakeVars, dispatch, main, ctx, settings,
                 laneVars>>

(* running_.exchange(false): whoever comes second returns at once. *)
Stop(t) ==
  /\ IF running THEN running' = FALSE /\ Instead(t, StopSteps)
                ELSE UNCHANGED running /\ Instead(t, <<>>)
  /\ UNCHANGED <<state, leaseVars, brokerVars, intakeVars, dispatch, watchdog, ctx, settings, laneVars>>

StopByMain == main = "up" /\ todo["main"] = <<>> /\ main' = "stopped" /\ Stop("main")
StopByCommand == At("dispatch", "stop") /\ UNCHANGED main /\ Stop("dispatch")

Sever(t) ==
  /\ At(t, "sever") /\ callback' = FALSE /\ Done(t)
  /\ UNCHANGED <<state, running, leaseVars, conn, losses, intakeVars, placeVars, ctx, settings, laneVars>>

(* queue_cv_.notify_all(), without queue_mutex_: it wakes a dispatch thread *)
(* that waits, not one that is about to.                                    *)
Wake(t) ==
  /\ At(t, "wake") /\ Done(t)
  /\ dispatch' = IF dispatch = "blocked" THEN "check" ELSE dispatch
  /\ UNCHANGED <<state, running, leaseVars, brokerVars, intakeVars, watchdog, main, ctx, settings,
                 laneVars>>

JoinWatchdog(t) ==
  /\ At(t, "join watchdog") /\ watchdog \in {"none", "exited"} /\ Done(t)
  /\ watchdog' = IF watchdog = "exited" THEN "joined" ELSE "none"
  /\ UNCHANGED <<state, running, leaseVars, brokerVars, intakeVars, dispatch, main, ctx, settings,
                 laneVars>>

(* Broken: it waits for itself. *)
JoinDispatchSelf(t) ==
  /\ At(t, "join dispatch") /\ Done(t)
  /\ dispatch = "exited" /\ dispatch' = "joined"
  /\ UNCHANGED <<state, running, leaseVars, brokerVars, intakeVars, watchdog, main, ctx, settings,
                 laneVars>>

(* A thread does not join itself. *)
JoinDispatch(t) ==
  /\ At(t, "join dispatch") /\ Done(t)
  /\ \/ t = "dispatch" /\ UNCHANGED dispatch
     \/ t # "dispatch" /\ dispatch = "exited" /\ dispatch' = "joined"
  /\ UNCHANGED <<state, running, leaseVars, brokerVars, intakeVars, watchdog, main, ctx, settings,
                 laneVars>>

Disconnect(t) ==
  /\ At(t, "disconnect") /\ conn' = FALSE /\ Done(t)
  /\ UNCHANGED <<state, running, leaseVars, callback, losses, intakeVars, placeVars, ctx, settings,
                 laneVars>>

(* The destructor joins what stop() on the dispatch thread left. *)
Destroy ==
  /\ main = "stopped" /\ todo["main"] = <<>> /\ dispatch \in {"exited", "joined"}
  /\ main' = "gone" /\ dispatch' = "joined"
  /\ UNCHANGED <<state, running, leaseVars, brokerVars, intakeVars, watchdog, todo, ctx, settings,
                 laneVars>>
-----------------------------------------------------------------------------
(* The broker's thread *)

(* Broken: the limit is not looked at. *)
EnqueuedAlways(m) == Append(queue, m)

(* Drops the newest. *)
Enqueued(m) == IF Len(queue) >= QueueCapacity THEN queue ELSE Append(queue, m)

(* Broken: nobody is told. *)
NotifiedNever == dispatch

(* queue_cv_.notify_one() *)
Notified == IF dispatch = "blocked" THEN "check" ELSE dispatch

(* message_arrived and enqueueCommand. The dispatch thread holds           *)
(* queue_mutex_ between the check of its predicate and the wait.           *)
EnqueueCommand(m) ==
  /\ conn /\ callback /\ dispatch # "block" /\ arrivals < MaxArrivals
  /\ arrivals' = arrivals + 1
  /\ IF running THEN /\ queue' = Enqueued(m)
                     /\ dispatch' = IF queue' = queue THEN dispatch ELSE Notified
                ELSE UNCHANGED <<queue, dispatch>>
  /\ UNCHANGED <<state, running, leaseVars, brokerVars, setup, watchdog, main, todo, ctx, settings, laneVars>>

ConnectionLost ==
  /\ conn /\ losses < MaxLosses /\ losses' = losses + 1 /\ conn' = FALSE
  /\ UNCHANGED <<state, running, leaseVars, callback, intakeVars, placeVars, todo, ctx, settings, laneVars>>

(* Paho's automatic reconnect; connected() subscribes again. *)
Connected ==
  /\ ~conn /\ running /\ dispatch # "none" /\ conn' = TRUE
  /\ UNCHANGED <<state, running, leaseVars, callback, losses, intakeVars, placeVars, todo, ctx, settings,
                 laneVars>>
-----------------------------------------------------------------------------
(* The dispatch thread *)

(* The predicate of the wait, under queue_mutex_, and the pop. *)
DispatchCheck ==
  /\ dispatch = "check" /\ todo["dispatch"] = <<>>
  /\ \/ ~running /\ dispatch' = "exited" /\ UNCHANGED <<queue, todo, ctx>>
     \/ running /\ queue = <<>> /\ dispatch' = "block" /\ UNCHANGED <<queue, todo, ctx>>
     \/ /\ running /\ queue # <<>> /\ queue' = Tail(queue)
        /\ Instead("dispatch", OnMessage(Head(queue)))
        /\ ctx' = Head(queue).lease /\ UNCHANGED dispatch
  /\ UNCHANGED <<state, running, leaseVars, brokerVars, arrivals, setup, watchdog, main, settings, laneVars>>

DispatchBlock ==
  /\ dispatch = "block" /\ dispatch' = "blocked"
  /\ UNCHANGED <<state, running, leaseVars, brokerVars, intakeVars, watchdog, main, todo, ctx, settings,
                 laneVars>>

DispatchStep ==
  \/ DispatchCheck \/ DispatchBlock \/ StopByCommand
  \/ StartLease \/ ToMiningContext \/ SwitchToPlatformMining \/ ApplySetting
-----------------------------------------------------------------------------
(* The watchdog *)

(* Broken: errors are left alone. *)
WatchdogSteps0(s) == IF s = "MINING" THEN <<"if expired">> ELSE <<>>

WatchdogSteps(s) == IF s = "MINING" THEN <<"if expired", "if error">> ELSE <<"if error">>

WatchdogRound ==
  /\ watchdog = "sleep" /\ todo["watchdog"] = <<>>
  /\ IF running THEN Instead("watchdog", WatchdogSteps(state)) /\ UNCHANGED watchdog
                ELSE watchdog' = "exited" /\ UNCHANGED todo
  /\ UNCHANGED <<state, running, leaseVars, brokerVars, intakeVars, dispatch, main, ctx, settings, laneVars>>

IfExpired ==
  /\ At("watchdog", "if expired")
  /\ IF IsExpired THEN Then("watchdog", EndSteps) ELSE Done("watchdog")
  /\ UNCHANGED <<state, running, leaseVars, brokerVars, intakeVars, placeVars, ctx, settings, laneVars>>

IfError ==
  /\ At("watchdog", "if error")
  /\ IF state = "ERROR" THEN Then("watchdog", <<"IDLE", "reconnect">>) ELSE Done("watchdog")
  /\ UNCHANGED <<state, running, leaseVars, brokerVars, intakeVars, placeVars, ctx, settings, laneVars>>

(* Connected: register, AVAILABLE. Else connect(), which may fail. *)
Reconnect ==
  /\ At("watchdog", "reconnect")
  /\ IF conn THEN Then("watchdog", <<"AVAILABLE">>) /\ UNCHANGED conn
             ELSE Done("watchdog") /\ conn' \in BOOLEAN
  /\ UNCHANGED <<state, running, leaseVars, callback, losses, intakeVars, placeVars, ctx, settings, laneVars>>

WatchdogStep == WatchdogRound \/ IfExpired \/ IfError \/ Reconnect

LeaseTimeUp ==
  /\ HasActiveLease /\ expired' = TRUE
  /\ UNCHANGED <<state, running, lease, context, brokerVars, intakeVars, placeVars, todo, ctx,
                 settings, laneVars>>
-----------------------------------------------------------------------------
(* A mining lane: it reads the context for a whole batch; onBlockFound     *)
(* reads the state, then the lease.                                        *)

LaneBatch ==
  /\ lane.pc = "batch" /\ batches < MaxFound /\ batches' = batches + 1
  /\ lane' = [pc |-> "found", mined |-> context]
  /\ UNCHANGED <<state, running, leaseVars, brokerVars, intakeVars, placeVars, todo, ctx, settings, reports>>

ReportAs(l) == reports' = IF conn THEN reports \cup {[mined |-> lane.mined, as |-> l]} ELSE reports

OnBlockFound ==
  /\ lane.pc = "found"
  /\ lane' = IF state = "MINING" THEN [lane EXCEPT !.pc = "lease"] ELSE Idle
  /\ IF state = "AVAILABLE" THEN ReportAs(0) ELSE UNCHANGED reports
  /\ UNCHANGED <<state, running, leaseVars, brokerVars, intakeVars, placeVars, todo, ctx, settings, batches>>

OnBlockFoundLeased ==
  /\ lane.pc = "lease" /\ lane' = Idle
  /\ IF lease # 0 THEN ReportAs(lease) ELSE UNCHANGED reports
  /\ UNCHANGED <<state, running, leaseVars, brokerVars, intakeVars, placeVars, todo, ctx, settings, batches>>
-----------------------------------------------------------------------------
MainStep == Start \/ Subscribe \/ StartThreads

StopStep(t) == Sever(t) \/ Wake(t) \/ JoinWatchdog(t) \/ JoinDispatch(t) \/ Disconnect(t)

SharedStep(t) == TransitionTo(t) \/ EndLease(t) \/ SwitchToSelfMining(t) \/ IfActive(t)

Next ==
  \/ MainStep \/ StopByMain \/ Destroy \/ DispatchStep \/ WatchdogStep
  \/ \E t \in Threads : StopStep(t) \/ SharedStep(t)
  \/ \E m \in Messages : EnqueueCommand(m)
  \/ ConnectionLost \/ Connected \/ LeaseTimeUp
  \/ LaneBatch \/ OnBlockFound \/ OnBlockFoundLeased

(* Every thread that can go on goes on, and the broker comes back; nothing *)
(* has to be sent, found or stopped.                                       *)
Spec ==
  /\ Init /\ [][Next]_vars
  /\ WF_vars(MainStep) /\ WF_vars(DispatchStep) /\ WF_vars(WatchdogStep)
  /\ \A t \in Threads : WF_vars(StopStep(t) \/ SharedStep(t))
  /\ WF_vars(Connected) /\ WF_vars(Destroy)
-----------------------------------------------------------------------------
(* Ranges of the state; the queue keeps to its capacity. *)
TypeOK ==
  /\ state \in States /\ running \in BOOLEAN /\ conn \in BOOLEAN /\ callback \in BOOLEAN
  /\ lease \in Nat /\ expired \in BOOLEAN /\ context \in Nat /\ ctx \in Nat
  /\ (expired => lease # 0) /\ settings \subseteq Fields
  /\ queue \in Seq(Messages) /\ Len(queue) <= QueueCapacity
  /\ dispatch \in {"none", "check", "block", "blocked", "exited", "joined"}
  /\ watchdog \in {"none", "sleep", "exited", "joined"}
  /\ main \in {"start", "up", "stopped", "gone"}
  /\ lane.pc \in {"batch", "found", "lease"} /\ lane.mined \in Nat
  /\ arrivals \in 0..MaxArrivals /\ batches \in 0..MaxFound /\ losses \in 0..MaxLosses

(* Without a secret no message, whatever its command and action fields     *)
(* say, changes a setting or shuts the manager down: isMutatingCommand     *)
(* covers every way in which onMessage reaches handleControl.              *)
UnsignedChangesNothing ==
  ~Secret => /\ settings = {}
             /\ running \/ main # "up"

(* Every command accepted into the queue is taken out and obeyed, or       *)
(* refused, unless the manager stops first.                                *)
CommandsHandled == []<>(running => queue = <<>>)

(* "ERROR: Error state, will attempt recovery": it is left again. *)
ErrorLeft == []<>(running => state # "ERROR")

(* After the destructor no thread is left, and the last state is IDLE.     *)
StopLeavesNothing ==
  (main = "gone" /\ dispatch # "none") =>
    /\ dispatch = "joined" /\ watchdog \in {"none", "joined"}
    /\ state = "IDLE" /\ ~conn

(* The client's queue is bounded, unsigned commands change nothing, and    *)
(* where only main stops the manager no thread is left behind.             *)
ClientInvariant == TypeOK /\ UnsignedChangesNothing /\ (~Secret => StopLeavesNothing)

(* Neither a command in the queue nor an error waits for ever.              *)
ClientProgress == CommandsHandled /\ ErrorLeft

(* A shutdown command ends the dispatch thread that runs it, although that *)
(* waits for the watchdog, whatever the watchdog is doing.                 *)
ShutdownCompletes == At("dispatch", "sever") ~> dispatch \in {"exited", "joined"}

(* The lanes do not go on mining for a lease that has ended. *)
NoOrphanContext == []<>(running => context \in {0, lease})

(* A lease whose time is up is ended. *)
ExpiredLeaseEnds == []<>(running => ~expired)

(* Whatever commands come between the watchdog's steps, the client does    *)
(* not stay in MINING with a lease whose time is up, or with the lanes on  *)
(* a lease that is not the current one.                                    *)
MiningWatched == []<>(running /\ state = "MINING" => ~expired /\ context \in {0, lease})
-----------------------------------------------------------------------------
Settled == \A t \in Threads : todo[t] = <<>>

(* "AVAILABLE: Registered and waiting for lease assignment" *)
AvailableIsFree == (Settled /\ state = "AVAILABLE") => lease = 0
=============================================================================
