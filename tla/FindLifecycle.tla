---------------------------- MODULE FindLifecycle ----------------------------
(***************************************************************************)
(* What the durable submission layer promises about a find, without how:   *)
(* a captured find is owed to the server until either the server has it    *)
(* and the miner knows (acked), or the miner gives it up for a recorded    *)
(* reason (closed). Neither end is ever left, a find is acked only when    *)
(* the server holds it, and the server holds only finds that were captured.*)
(***************************************************************************)
CONSTANT Finds

VARIABLES
  fstate,   \* absent, owed, acked or closed
  stored    \* the finds in the server's table

lvars == <<fstate, stored>>

LInit ==
  /\ fstate = [f \in Finds |-> "absent"]
  /\ stored = {}

Capture(f) ==
  /\ fstate[f] = "absent"
  /\ \E s \in {"owed", "closed"} : fstate' = [fstate EXCEPT ![f] = s]
  /\ UNCHANGED stored

Store(f) ==
  /\ fstate[f] = "owed"
  /\ stored' = stored \cup {f}
  /\ UNCHANGED fstate

Ack(f) ==
  /\ fstate[f] = "owed" /\ f \in stored
  /\ fstate' = [fstate EXCEPT ![f] = "acked"]
  /\ UNCHANGED stored

(* Several at once: one transaction buries every XUNI out of windows. *)
Close(S) ==
  /\ \A f \in S : fstate[f] = "owed"
  /\ fstate' = [f \in Finds |-> IF f \in S THEN "closed" ELSE fstate[f]]
  /\ UNCHANGED stored

LNext ==
  \/ \E f \in Finds : Capture(f) \/ Store(f) \/ Ack(f)
  \/ \E S \in SUBSET Finds : Close(S)

LSpec == LInit /\ [][LNext]_lvars
=============================================================================
