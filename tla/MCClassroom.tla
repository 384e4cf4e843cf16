---------------------------- MODULE MCClassroom ----------------------------
(***************************************************************************)
(* Classroom on courses of two or three modules each.                      *)
(***************************************************************************)
EXTENDS Classroom

CONSTANTS t1, t2, f1, f2, p1, p2, r1, r2, q1, e1, e2

MCCourses ==
  {[mods |-> {t1, t2}, first |-> t1, exams |-> {}],
   [mods |-> {f1, f2}, first |-> f1, exams |-> {}],
   [mods |-> {p1, r1, r2}, first |-> p1, exams |-> {}],
   [mods |-> {q1}, first |-> q1, exams |-> {e1, e2}]}
=============================================================================
