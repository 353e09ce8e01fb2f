---------------------------- MODULE MCSubmission ----------------------------
(* SubmissionManager for TLC: payloads of the finds of each run. *)
EXTENDS SubmissionManager

One == {1}
Two == {1, 2}
Xen11Only == [f \in One |-> "XEN11"]
XuniThenXen11 == [f \in Two |-> IF f = 1 THEN "XUNI" ELSE "XEN11"]
MemOne == [f \in Two |-> 1]
MemTwo == [f \in One |-> 2]
=============================================================================
