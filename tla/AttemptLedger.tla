--------------------------- MODULE AttemptLedger ---------------------------
(***************************************************************************)
(* What the exam module promises, with every request, transaction and      *)
(* index abstracted away: each (exam, student) pair has a counter of used  *)
(* attempts that moves by one and never passes the most generous limit an  *)
(* administrator ever published for the exam.                              *)
(***************************************************************************)
EXTENDS Naturals

CONSTANTS Exams, Students

VARIABLES
  used,       \* used[e][u]: attempts student u has spent on exam e
  allowance   \* allowance[e]: the largest maxAttempts ever saved for e

ledgerVars == <<used, allowance>>

LedgerInit ==
  /\ used = [e \in Exams |-> [u \in Students |-> 0]]
  /\ allowance \in [Exams -> Nat]

\* An administrator publishes a more generous limit.
Publish(e) ==
  /\ allowance' \in [Exams -> Nat]
  /\ allowance'[e] > allowance[e]
  /\ \A f \in Exams \ {e} : allowance'[f] = allowance[f]
  /\ UNCHANGED used

\* A student spends one attempt.
Spend(e, u) ==
  /\ used[e][u] < allowance[e]
  /\ used' = [used EXCEPT ![e][u] = @ + 1]
  /\ UNCHANGED allowance

LedgerNext == \E e \in Exams : Publish(e) \/ \E u \in Students : Spend(e, u)

LedgerSpec == LedgerInit /\ [][LedgerNext]_ledgerVars
=============================================================================
