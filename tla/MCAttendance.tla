---------------------------- MODULE MCAttendance ----------------------------
(***************************************************************************)
(* Attendance on one class day with two students whose enrolment changes   *)
(* freely, and four requests: enough for a close to meet a mark and a     *)
(* create, open or second close between any two of its steps.              *)
(***************************************************************************)
EXTENDS Attendance, TLC

\* Requests are interchangeable, and so are students.
Symmetry == Permutations(Requests) \cup Permutations(Students)
=============================================================================
