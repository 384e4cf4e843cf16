-------------------------- MODULE MCMicrolearning --------------------------
(***************************************************************************)
(* Microlearning over three days of two periods, of which the second is    *)
(* the process's tomorrow.                                                 *)
(***************************************************************************)
EXTENDS Microlearning, TLC

\* The windows are interchangeable.
Symmetry == Permutations(Windows)
=============================================================================
