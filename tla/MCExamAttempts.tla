--------------------------- MODULE MCExamAttempts ---------------------------
(***************************************************************************)
(* ExamAttempts on a small instance: one exam that may be created, edited, *)
(* deleted and resurrected, two courses of which the first enrols both     *)
(* students, and enough requests for three submits to meet one edit.       *)
(***************************************************************************)
EXTENDS ExamAttempts, TLC

CONSTANTS u1, u2, c1, c2

MCEnrolled == {<<u1, c1>>, <<u2, c1>>}
MCLimits == 1..2
MCThresholds == {60}
MCScores == {40, 80}

\* Request ids are interchangeable: no property names one.
Symmetry == Permutations(Submits) \cup Permutations(Edits)
=============================================================================
