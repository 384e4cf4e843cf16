----------------------------- MODULE MCAccount -----------------------------
(***************************************************************************)
(* Account with two tabs, of which one opens the panel, and two students.  *)
(***************************************************************************)
EXTENDS Account, TLC

\* No property names a student; the tabs differ by the panel.
Symmetry == Permutations(Students)
=============================================================================
