----------------------------- MODULE MCCatalog -----------------------------
(***************************************************************************)
(* Catalog on a small instance: two folder ids, one course, one student    *)
(* and three requests.  No property names a folder or a request, so both   *)
(* sets are symmetric.                                                     *)
(***************************************************************************)
EXTENDS Catalog, TLC

Symmetry == Permutations(Folders) \cup Permutations(Requests)
=============================================================================
