---------------------------- MODULE MCEnrollment ----------------------------
(* Instances of Enrollment for TLC. *)
EXTENDS Enrollment

CONSTANTS b1, b2, d1, d2

=============================================================================
