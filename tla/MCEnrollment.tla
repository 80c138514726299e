---------------------------- MODULE MCEnrollment ----------------------------
(***************************************************************************)
(* Instances of Enrollment for TLC.                                        *)
(***************************************************************************)
EXTENDS Enrollment

CONSTANTS a1, a2, p1, p2

MCAdmins == {a1, a2}
MCProcesses == {p1, p2}
=============================================================================
