-------------------------- MODULE MCLateExpiryJobs --------------------------
(* Instances of LateExpiryJobs for TLC. *)
EXTENDS LateExpiryJobs

CONSTANTS u1, u2

OneUser  == {u1}
TwoUsers == {u1, u2}
=============================================================================
