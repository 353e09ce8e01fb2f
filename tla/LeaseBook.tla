------------------------------ MODULE LeaseBook ------------------------------
(***************************************************************************)
(* What the marketplace promises about leases on disk, without how: a      *)
(* lease is opened, is seen there as active, ends, and keeps its worker    *)
(* from the first on; only what was opened is charged, and charges are     *)
(* never taken back. While no two settlements have overlapped (alone), a   *)
(* lease is charged once, and only when its end was there before. One      *)
(* commit may carry steps of several leases.                               *)
(***************************************************************************)
EXTENDS Naturals

CONSTANTS Leases, Workers

VARIABLES
  state,     \* none, active or completed
  host,      \* the worker of a lease; anything before it is opened
  charges,   \* how often the consumer was charged for a lease
  alone      \* no settlement has begun while another was under way

bookVars == <<state, host, charges, alone>>

BookInit ==
  /\ state \in [Leases -> {"none", "active"}] /\ host \in [Leases -> Workers]
  /\ charges = [l \in Leases |-> 0] /\ alone = TRUE

Opens(l) == state[l] = "none" /\ state'[l] = "active" /\ host'[l] \in Workers
Ends(l) == state[l] = "active" /\ state'[l] = "completed" /\ host'[l] = host[l]
Stays(l) == state'[l] = state[l] /\ (state[l] # "none" => host'[l] = host[l])

Charges(l) ==
  /\ charges'[l] >= charges[l] /\ (charges'[l] # charges[l] => state[l] # "none")
  /\ alone' /\ charges'[l] # charges[l] => state[l] = "completed" /\ charges[l] = 0 /\ charges'[l] = 1

BookNext ==
  /\ \A l \in Leases : (Opens(l) \/ Ends(l) \/ Stays(l)) /\ Charges(l)
  /\ alone' => alone

BookSpec == BookInit /\ [][BookNext]_bookVars
=============================================================================
