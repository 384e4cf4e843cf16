---------------------------- MODULE MCRosterSync ----------------------------
(***************************************************************************)
(* RosterSync on a program folder with one subfolder and a shift on each,  *)
(* one user and one course: the smallest tree in which a link can lie      *)
(* below a shift's folder, and a user belong to two shifts of one tree.    *)
(***************************************************************************)
EXTENDS RosterSync, TLC

CONSTANTS program, level, s1, s2

MCParent == program :> Nil @@ level :> program
MCFolderOf == s1 :> program @@ s2 :> level

\* Request ids are interchangeable.
Symmetry == Permutations(Requests)
=============================================================================
