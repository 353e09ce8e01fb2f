------------------------- MODULE ResponseClassifier -------------------------
(***************************************************************************)
(* What one /verify response means for the find that was submitted         *)
(* (submit/ResponseClassifier.cpp, and the transport_failure test of       *)
(* submitStep_). A response is abstracted to the class of its status code  *)
(* and message that the classifier tells apart; "none" is a transport      *)
(* error. A classification has                                             *)
(*                                                                         *)
(*   status  next_status; AcceptedUnconfirmed asks for a /get_block lookup *)
(*   hint    server_difficulty_hint, 0 when there is none                  *)
(*   health  "fail" (transport failure for the breaker), "busy" (429),     *)
(*           "good" (a conclusive round trip)                              *)
(***************************************************************************)
EXTENDS Integers

Responses ==
  {"none", "blank", "ok200", "r429", "unhealthy", "exists400", "bad400", "hashfail401",
   "window401", "diff401", "odd401", "other"}

Verdict(status, hint, health) == [status |-> status, hint |-> hint, health |-> health]

(* d is the number in the message of a difficulty 401. *)
Classify(response, kind, d) ==
  CASE response \in {"none", "blank", "unhealthy"} -> Verdict("Pending", 0, "fail")
    [] response = "r429"                           -> Verdict("Pending", 0, "busy")
    [] response \in {"ok200", "exists400"}         -> Verdict("AcceptedUnconfirmed", 0, "good")
    [] response = "hashfail401"                    -> Verdict("PermanentlyInvalid", 0, "good")
    [] response = "window401" /\ kind = "XUNI"     -> Verdict("ParkedXuniWindow", 0, "good")
    [] response = "diff401"                        -> Verdict("ParkedDifficulty", d, "good")
    [] OTHER                                       -> Verdict("Quarantined", 0, "good")
=============================================================================
