------------------------- MODULE ExamAttemptsProofs -------------------------
(***************************************************************************)
(* Proofs about ExamAttempts, for every number of exams, students, submits *)
(* and edits and every range of limits and scores.                         *)
(*                                                                         *)
(* The argument: a transaction's count is a lower bound of the rows        *)
(* committed later, so the number it inserts is at most one beyond the     *)
(* last; the index lets it through only when the number is free, that is   *)
(* exactly one beyond; and nobody else can commit it meanwhile, because    *)
(* two uncommitted rows never share a key.                                 *)
(***************************************************************************)
EXTENDS ExamAttempts, FiniteSetTheorems, TLAPS

-----------------------------------------------------------------------------
(* Typing, with the facts about locals that TypeOK alone does not carry.   *)

Located == {"checking"} \cup InTransaction \cup {"accepted", "conflict"}
Numbered == {"inserting", "committing", "accepted", "conflict"}

RequestsShaped ==
  \A s \in Submits :
    /\ submit[s].pc \in Located =>
         submit[s].exam \in Exams /\ submit[s].user \in Students
    /\ submit[s].pc = "checking" => submit[s].course \in Courses
    /\ submit[s].pc \in {"counting"} \cup Numbered => submit[s].limit \in Limits
    /\ submit[s].pc \in Numbered => submit[s].score \in Scores

EditsShaped ==
  \A a \in Edits :
    /\ edit[a].pc \in {"saving", "removing"} => edit[a].exam \in Exams
    /\ edit[a].pc = "saving" => edit[a].entity \in ExamRows

TypeInv == /\ TypeOK /\ IsFiniteSet(attempts)
           /\ RequestsShaped /\ EditsShaped

LEMMA CountsAreNat ==
  ASSUME IsFiniteSet(attempts), NEW e, NEW u
  PROVE  IsFiniteSet(AttemptsOf(e, u)) /\ Used(e, u) \in Nat
<1>1. AttemptsOf(e, u) \in SUBSET attempts
  BY DEF AttemptsOf
<1>2. IsFiniteSet(AttemptsOf(e, u))
  BY <1>1, FS_Subset
<1> QED
  BY <1>2, FS_CardinalityType DEF Used

LEMMA TypeInit == Init => TypeInv
<1> SUFFICES ASSUME Init PROVE TypeInv
  OBVIOUS
<1>1. allowance \in [Exams -> Nat]
  BY LimitsAssumption DEF Init, ExamRows
<1>2. TypeOK
  BY <1>1 DEF Init, TypeOK, SubmitStates, EditStates, Blank, AttemptRows
<1>3. IsFiniteSet(attempts)
  BY FS_EmptySet DEF Init
<1>4. RequestsShaped /\ EditsShaped
  BY DEF Init, RequestsShaped, EditsShaped, Blank, Located, Numbered,
         InTransaction
<1> QED
  BY <1>2, <1>3, <1>4 DEF TypeInv

LEMMA TypeSubmit ==
  ASSUME TypeInv, NEW s \in Submits, SubmitStep(s)
  PROVE  TypeInv'
<1> USE DEF TypeInv, TypeOK, SubmitStates, RequestsShaped, EditsShaped,
            Located, Numbered, InTransaction, Answered
<1>1. CASE \E e \in Exams, u \in Students : SubmitLoad(s, e, u)
  BY <1>1 DEF SubmitLoad, Refuse, Blank, ExamRows
<1>2. CASE SubmitCheckAccess(s)
  BY <1>2 DEF SubmitCheckAccess, Refuse, Blank
<1>3. CASE SubmitReadExam(s)
  BY <1>3 DEF SubmitReadExam, Refuse, Blank, ExamRows
<1>4. CASE SubmitCount(s)
  <2>1. Used(submit[s].exam, submit[s].user) \in Nat
    BY CountsAreNat
  <2> QED
    BY <1>4, <2>1 DEF SubmitCount, Refuse, Blank
<1>5. CASE SubmitInsert(s)
  BY <1>5 DEF SubmitInsert, Goto
<1>6. CASE SubmitCommit(s)
  <2> DEFINE row == [exam |-> submit[s].exam, user |-> submit[s].user,
                     number |-> submit[s].prior + 1,
                     score |-> submit[s].score, by |-> s]
  <2>1. row \in AttemptRows
    BY <1>6 DEF SubmitCommit, AttemptRows
  <2>2. attempts' = attempts \cup {row}
    BY <1>6 DEF SubmitCommit
  <2>3. attempts' \subseteq AttemptRows /\ IsFiniteSet(attempts)'
    BY <2>1, <2>2, FS_AddElement
  <2> QED
    BY <1>6, <2>3 DEF SubmitCommit, Goto, Refuse, Blank
<1>7. CASE SubmitFail(s)
  BY <1>7 DEF SubmitFail, Refuse, Blank
<1> QED
  BY <1>1, <1>2, <1>3, <1>4, <1>5, <1>6, <1>7 DEF SubmitStep, SubmitAdvance

LEMMA TypeEdit ==
  ASSUME TypeInv, NEW a \in Edits, EditStep(a)
  PROVE  TypeInv'
<1> USE DEF TypeInv, TypeOK, EditStates, RequestsShaped, EditsShaped
<1>0. ASSUME NEW e \in Exams, NEW row \in ExamRows, SaveRow(e, row)
      PROVE  /\ exams' \in [Exams -> ExamRows \cup {Nil}]
             /\ allowance' \in [Exams -> Nat]
  BY <1>0, LimitsAssumption DEF SaveRow, Larger, ExamRows
<1>1. ASSUME NEW e \in Exams, NEW row \in ExamRows, CreateExam(a, e, row)
      PROVE  TypeInv'
  BY <1>0, <1>1 DEF CreateExam
<1>2. ASSUME NEW e \in Exams, NEW patch \in Patches, UpdateLoad(a, e, patch)
      PROVE  TypeInv'
  <2>1. exams[e] \in ExamRows
    BY <1>2 DEF UpdateLoad
  <2> DEFINE entity == Patched(exams[e], patch)
  <2>2. entity \in ExamRows
    BY <2>1 DEF Patched, Patches, ExamRows
  <2>3. /\ edit' = [edit EXCEPT ![a] = [pc |-> "saving", exam |-> e,
                                        entity |-> entity]]
        /\ UNCHANGED <<exams, minted, attempts, submit, allowance>>
    BY <1>2 DEF UpdateLoad
  <2> HIDE DEF entity
  <2> QED
    BY <2>2, <2>3
<1>3. CASE UpdateSave(a)
  BY <1>0, <1>3 DEF UpdateSave
<1>4. CASE \E e \in Exams : DeleteLoad(a, e)
  BY <1>4 DEF DeleteLoad
<1>5. CASE DeleteRemove(a)
  BY <1>5 DEF DeleteRemove
<1> QED
  BY <1>1, <1>2, <1>3, <1>4, <1>5 DEF EditStep

LEMMA TypeInductive == TypeInv /\ [Next]_vars => TypeInv'
<1> SUFFICES ASSUME TypeInv, [Next]_vars PROVE TypeInv'
  OBVIOUS
<1>1. CASE UNCHANGED vars
  BY <1>1 DEF vars, TypeInv, TypeOK, RequestsShaped, EditsShaped
<1>2. CASE Next
  BY <1>2, TypeSubmit, TypeEdit DEF Next
<1> QED
  BY <1>1, <1>2

\* Type correctness: every reachable state of the exam module, its requests
\* and its tables has the declared shape.
THEOREM TypeCorrect == Spec => []TypeOK
<1>1. Spec => []TypeInv
  BY TypeInit, TypeInductive, PTL DEF Spec
<1>2. TypeInv => TypeOK
  BY DEF TypeInv
<1> QED
  BY <1>1, <1>2, PTL

-----------------------------------------------------------------------------
(* The inductive invariant of the numbering.                               *)

\* Request s is at one of the stages with a submit of student u at exam e.
At(s, stages, e, u) ==
  submit[s].pc \in stages /\ submit[s].exam = e /\ submit[s].user = u

\* What a transaction read still bounds the tables it read it from.
ReadsSound ==
  \A s \in Submits, e \in Exams, u \in Students :
    /\ At(s, {"counting"} \cup Numbered, e, u) => submit[s].limit <= allowance[e]
    /\ At(s, Numbered, e, u) => /\ submit[s].prior < submit[s].limit
                                /\ submit[s].prior <= Used(e, u)

\* The number of an uncommitted row is free, that of an accepted one is not.
NumbersSound ==
  \A s \in Submits, e \in Exams, u \in Students :
    /\ At(s, {"committing"}, e, u) => submit[s].prior + 1 \notin Numbers(e, u)
    /\ At(s, {"accepted"}, e, u) => submit[s].prior + 1 \in Numbers(e, u)

\* Two uncommitted rows, or two accepted ones, never have the same key.
KeysUnique ==
  \A s, t \in Submits :
    /\ submit[s].pc = submit[t].pc
    /\ submit[s].pc \in {"committing", "accepted"}
    /\ submit[s].exam = submit[t].exam
    /\ submit[s].user = submit[t].user
    /\ submit[s].prior = submit[t].prior
    => s = t

\* A row is written by a request that ended with it.
RowsAnswered == \A a \in attempts : submit[a.by].pc \in {"accepted", "failed"}

LimitsPublished ==
  \A e \in Exams : exams[e] # Nil => exams[e].limit <= allowance[e]

NumberingInv ==
  /\ NumbersContiguous /\ WithinAllowance /\ ReadsSound /\ NumbersSound
  /\ KeysUnique /\ RowsAnswered /\ LimitsPublished /\ ConflictHasWinner

\* What a step that leaves the attempts alone leaves alone with them.
LEMMA AttemptsFrame ==
  ASSUME attempts' = attempts, NEW e, NEW u
  PROVE  /\ AttemptsOf(e, u)' = AttemptsOf(e, u)
         /\ Used(e, u)' = Used(e, u)
         /\ Numbers(e, u)' = Numbers(e, u)
BY DEF AttemptsOf, Used, Numbers

\* A free number under the count is the next number, and committing its row
\* extends the numbering by one and touches no other student or exam.
LEMMA CommitExtends ==
  ASSUME TypeInv, NumbersContiguous,
         NEW e \in Exams, NEW u \in Students, NEW p \in Nat, NEW row,
         p <= Used(e, u), p + 1 \notin Numbers(e, u),
         row.exam = e, row.user = u, row.number = p + 1,
         attempts' = attempts \cup {row}
  PROVE  /\ p = Used(e, u)
         /\ Used(e, u)' = Used(e, u) + 1
         /\ Numbers(e, u)' = Numbers(e, u) \cup {p + 1}
         /\ \A f \in Exams, v \in Students : (f # e \/ v # u) =>
              Used(f, v)' = Used(f, v) /\ Numbers(f, v)' = Numbers(f, v)
<1>1. /\ IsFiniteSet(AttemptsOf(e, u))
      /\ Used(e, u) \in Nat
  BY CountsAreNat DEF TypeInv
<1>2. Numbers(e, u) = 1..Used(e, u)
  BY DEF NumbersContiguous
<1>3. p = Used(e, u)
  BY <1>1, <1>2
<1>4. row \notin AttemptsOf(e, u)
  BY DEF Numbers
<1>5. AttemptsOf(e, u)' = AttemptsOf(e, u) \cup {row}
  BY DEF AttemptsOf
<1>6. Used(e, u)' = Used(e, u) + 1
  BY <1>1, <1>4, <1>5, FS_AddElement DEF Used
<1>7. Numbers(e, u)' = Numbers(e, u) \cup {p + 1}
  BY <1>5 DEF Numbers
<1>8. ASSUME NEW f \in Exams, NEW v \in Students, (f # e \/ v # u)
      PROVE  Used(f, v)' = Used(f, v) /\ Numbers(f, v)' = Numbers(f, v)
  <2>1. AttemptsOf(f, v)' = AttemptsOf(f, v)
    BY <1>8 DEF AttemptsOf
  <2> QED
    BY <2>1 DEF Used, Numbers
<1> QED
  BY <1>3, <1>6, <1>7, <1>8

LEMMA NumberingInit == Init => NumberingInv
<1> SUFFICES ASSUME Init PROVE NumberingInv
  OBVIOUS
<1>1. TypeInv
  BY TypeInit
<1>2. \A e, u : AttemptsOf(e, u) = {}
  BY DEF Init, AttemptsOf
<1>3. \A e, u : Used(e, u) = 0 /\ Numbers(e, u) = {}
  BY <1>2, FS_EmptySet DEF Used, Numbers
<1>4. NumbersContiguous /\ WithinAllowance
  <2>1. 1..0 = {}
    OBVIOUS
  <2>2. NumbersContiguous
    BY <1>3, <2>1 DEF NumbersContiguous
  <2>3. \A e \in Exams : 0 <= allowance[e]
    BY <1>1 DEF TypeInv, TypeOK
  <2> QED
    BY <1>3, <2>2, <2>3 DEF WithinAllowance
<1>5. LimitsPublished
  BY <1>1, LimitsAssumption
     DEF Init, LimitsPublished, TypeInv, TypeOK, ExamRows
<1>6. ReadsSound /\ NumbersSound /\ KeysUnique /\ RowsAnswered
      /\ ConflictHasWinner
  BY DEF Init, Blank, ReadsSound, NumbersSound, KeysUnique, RowsAnswered,
         ConflictHasWinner, Numbered, At
<1> QED
  BY <1>4, <1>5, <1>6 DEF NumberingInv

LEMMA NumberingCommit ==
  ASSUME TypeInv, TypeInv', NumberingInv, NEW s \in Submits, SubmitCommit(s)
  PROVE  NumberingInv'
<1>1. /\ submit[s].exam \in Exams /\ submit[s].user \in Students
      /\ submit[s].prior \in Nat /\ submit[s].limit \in Nat
      /\ submit[s].pc = "committing"
  BY LimitsAssumption
     DEF SubmitCommit, TypeInv, TypeOK, SubmitStates, RequestsShaped, Located,
         Numbered, InTransaction
\* Constants for the key of the row, so that a prime leaves them alone.
<1>2. PICK e \in Exams, u \in Students, p \in Nat, m \in Nat,
           row \in {[exam |-> submit[s].exam, user |-> submit[s].user,
                     number |-> submit[s].prior + 1,
                     score |-> submit[s].score, by |-> s]} :
        /\ e = submit[s].exam /\ u = submit[s].user
        /\ p = submit[s].prior /\ m = submit[s].limit
  BY <1>1
<1>3. /\ row.exam = e /\ row.user = u /\ row.number = p + 1 /\ row.by = s
      /\ attempts' = attempts \cup {row}
      /\ UNCHANGED <<exams, allowance>>
  BY <1>2 DEF SubmitCommit
<1>4. /\ p <= Used(e, u) /\ p < m /\ m <= allowance[e]
      /\ p + 1 \notin Numbers(e, u)
  BY <1>1, <1>2 DEF NumberingInv, ReadsSound, NumbersSound, Numbered, At
<1>5. /\ p = Used(e, u)
      /\ Used(e, u)' = Used(e, u) + 1
      /\ Numbers(e, u)' = Numbers(e, u) \cup {p + 1}
      /\ \A f \in Exams, v \in Students : (f # e \/ v # u) =>
           Used(f, v)' = Used(f, v) /\ Numbers(f, v)' = Numbers(f, v)
  <2>1. NumbersContiguous
    BY DEF NumberingInv
  <2> QED
    BY <1>3, <1>4, <2>1, CommitExtends
<1>6. NumbersContiguous'
  <2>1. SUFFICES ASSUME NEW f \in Exams, NEW v \in Students
                 PROVE  Numbers(f, v)' = 1..Used(f, v)'
    BY DEF NumbersContiguous
  <2>2. Numbers(f, v) = 1..Used(f, v)
    BY DEF NumberingInv, NumbersContiguous
  <2>3. CASE f = e /\ v = u
    <3>1. 1..(p + 1) = (1..p) \cup {p + 1}
      BY <1>2
    <3> QED
      BY <1>5, <2>2, <2>3, <3>1
  <2> QED
    BY <1>5, <2>2, <2>3
<1>7. WithinAllowance'
  <2>1. SUFFICES ASSUME NEW f \in Exams, NEW v \in Students
                 PROVE  Used(f, v)' <= allowance[f]'
    BY DEF WithinAllowance
  <2>2. Used(f, v) <= allowance[f]
    BY DEF NumberingInv, WithinAllowance
  <2>3. CASE f = e /\ v = u
    <3>1. p + 1 <= allowance[e] /\ allowance' = allowance
      BY <1>3, <1>4 DEF TypeInv, TypeOK
    <3> QED
      BY <1>5, <2>3, <3>1
  <2> QED
    BY <1>3, <1>5, <2>2, <2>3
<1>8. \A f \in Exams, v \in Students :
        /\ Used(f, v)' \in Nat /\ Used(f, v) <= Used(f, v)'
        /\ Numbers(f, v) \subseteq Numbers(f, v)'
  <2>1. \A f \in Exams, v \in Students : Used(f, v) \in Nat
    BY CountsAreNat DEF TypeInv
  <2> QED
    BY <1>5, <2>1
<1>9. \A t \in Submits \ {s} : submit'[t] = submit[t]
  BY DEF SubmitCommit, Goto, Refuse, TypeInv, TypeOK
<1>10. /\ submit'[s].pc \in {"accepted", "failed"}
       /\ submit'[s].pc = "accepted" =>
            /\ submit'[s].exam = e /\ submit'[s].user = u
            /\ submit'[s].prior = p /\ submit'[s].limit = m
  BY <1>2 DEF SubmitCommit, Goto, Refuse, TypeInv, TypeOK, SubmitStates
<1>11. ReadsSound'
  <2>1. SUFFICES ASSUME NEW t \in Submits, NEW f \in Exams, NEW v \in Students
        PROVE  /\ At(t, {"counting"} \cup Numbered, f, v)' =>
                    submit'[t].limit <= allowance'[f]
               /\ At(t, Numbered, f, v)' =>
                    /\ submit'[t].prior < submit'[t].limit
                    /\ submit'[t].prior <= Used(f, v)'
    BY DEF ReadsSound
  <2>2. CASE t = s
    <3>1. At(t, {"counting"} \cup Numbered, f, v)' =>
            f = e /\ v = u /\ submit'[t].limit = m /\ submit'[t].prior = p
      BY <1>10, <2>2 DEF At, Numbered
    <3>2. Used(e, u)' = p + 1
      BY <1>5
    <3> QED
      BY <1>2, <1>3, <1>4, <3>1, <3>2 DEF At
  <2>3. CASE t # s
    <3>1. submit'[t] = submit[t]
      BY <1>9, <2>3
    <3>2. submit[t].prior \in Nat /\ Used(f, v) \in Nat /\ Used(f, v)' \in Nat
      BY <1>8, CountsAreNat DEF TypeInv, TypeOK, SubmitStates
    <3> QED
      BY <1>3, <1>8, <3>1, <3>2 DEF At, NumberingInv, ReadsSound
  <2> QED
    BY <2>2, <2>3
<1>12. NumbersSound'
  <2>1. SUFFICES ASSUME NEW t \in Submits, NEW f \in Exams, NEW v \in Students
        PROVE  /\ At(t, {"committing"}, f, v)' =>
                    submit'[t].prior + 1 \notin Numbers(f, v)'
               /\ At(t, {"accepted"}, f, v)' =>
                    submit'[t].prior + 1 \in Numbers(f, v)'
    BY DEF NumbersSound
  <2>2. CASE t = s
    BY <1>5, <1>10, <2>2 DEF At
  <2>3. CASE t # s
    <3>1. submit'[t] = submit[t] /\ submit[t].prior \in Nat
      BY <1>9, <2>3 DEF TypeInv, TypeOK, SubmitStates
    <3>2. /\ At(t, {"committing"}, f, v) =>
               submit[t].prior + 1 \notin Numbers(f, v)
          /\ At(t, {"accepted"}, f, v) =>
               submit[t].prior + 1 \in Numbers(f, v)
      BY DEF NumberingInv, NumbersSound
    <3>3. At(t, {"committing"}, e, u) => submit[t].prior # p
      BY <1>1, <1>2, <2>3 DEF NumberingInv, KeysUnique, At
    <3>4. At(t, {"committing"}, f, v)' => submit[t].prior + 1 \notin Numbers(f, v)'
      BY <1>2, <1>5, <3>1, <3>2, <3>3 DEF At
    <3>5. At(t, {"accepted"}, f, v)' => submit[t].prior + 1 \in Numbers(f, v)'
      BY <1>8, <3>1, <3>2 DEF At
    <3> QED
      BY <3>1, <3>4, <3>5
  <2> QED
    BY <2>2, <2>3
<1>13. KeysUnique'
  <2>1. \A t \in Submits \ {s} :
          ~(At(t, {"accepted"}, e, u) /\ submit[t].prior = p)
    BY <1>4 DEF NumberingInv, NumbersSound
  <2> QED
    BY <1>9, <1>10, <2>1 DEF NumberingInv, KeysUnique, At
<1>14. RowsAnswered'
  BY <1>1, <1>3, <1>9, <1>10
     DEF NumberingInv, RowsAnswered, TypeInv, TypeOK, AttemptRows
<1>15. LimitsPublished'
  BY <1>3 DEF NumberingInv, LimitsPublished
<1>16. ConflictHasWinner'
  <2>1. SUFFICES ASSUME NEW t \in Submits, submit'[t].pc = "conflict"
        PROVE  (\E a \in AttemptsOf(submit[t].exam, submit[t].user) :
                  a.number = submit[t].prior + 1 /\ a.by # t)'
    BY DEF ConflictHasWinner
  <2>2. submit'[t] = submit[t]
    BY <1>9, <1>10, <2>1
  <2>3. \E a \in AttemptsOf(submit[t].exam, submit[t].user) :
          a.number = submit[t].prior + 1 /\ a.by # t
    BY <2>1, <2>2 DEF NumberingInv, ConflictHasWinner
  <2> QED
    BY <1>3, <2>2, <2>3 DEF AttemptsOf
<1> QED
  BY <1>6, <1>7, <1>11, <1>12, <1>13, <1>14, <1>15, <1>16 DEF NumberingInv

\* The steps of a submit before its commit: they read, and may refuse.
LEMMA NumberingSubmit ==
  ASSUME TypeInv, NumberingInv, NEW s \in Submits,
         SubmitStep(s), ~SubmitCommit(s)
  PROVE  NumberingInv'
<1>1. UNCHANGED <<exams, attempts, allowance>>
  BY DEF SubmitStep, SubmitAdvance, SubmitLoad, SubmitCheckAccess,
         SubmitReadExam, SubmitCount, SubmitInsert, SubmitFail
<1>2. \A f, v : /\ AttemptsOf(f, v)' = AttemptsOf(f, v)
                /\ Used(f, v)' = Used(f, v)
                /\ Numbers(f, v)' = Numbers(f, v)
  BY <1>1, AttemptsFrame
<1>3. \A t \in Submits \ {s} : submit'[t] = submit[t]
  BY DEF SubmitStep, SubmitAdvance, SubmitLoad, SubmitCheckAccess,
         SubmitReadExam, SubmitCount, SubmitInsert, SubmitFail, Goto, Refuse,
         TypeInv, TypeOK
<1>4. submit[s].pc \notin {"accepted", "failed"}
  BY DEF SubmitStep, SubmitAdvance, SubmitLoad, SubmitCheckAccess,
         SubmitReadExam, SubmitCount, SubmitInsert, SubmitFail, InTransaction
<1>5. NumbersContiguous' /\ WithinAllowance' /\ LimitsPublished'
  BY <1>1, <1>2 DEF NumberingInv, NumbersContiguous, WithinAllowance,
                    LimitsPublished
<1>6. RowsAnswered'
  BY <1>1, <1>3, <1>4
     DEF NumberingInv, RowsAnswered, TypeInv, TypeOK, AttemptRows
\* What the step leaves in the request: nothing a property is about, or a
\* limit just read, a count just taken, or the verdict of the index.
<1>7. \/ submit'[s].pc \in {"checking", "reading", "notFound", "forbidden", "failed"}
      \/ /\ submit'[s].pc = "counting"
         /\ submit'[s].exam = submit[s].exam
         /\ exams[submit[s].exam] # Nil
         /\ submit'[s].limit = exams[submit[s].exam].limit
      \/ /\ submit[s].pc = "counting" /\ submit'[s].pc = "inserting"
         /\ submit'[s].exam = submit[s].exam
         /\ submit'[s].user = submit[s].user
         /\ submit'[s].limit = submit[s].limit
         /\ submit'[s].prior = Used(submit[s].exam, submit[s].user)
         /\ ~LimitReached(submit'[s].prior, submit[s].limit)
      \/ /\ submit[s].pc = "inserting" /\ submit'[s].pc = "committing"
         /\ ~Held(submit[s].exam, submit[s].user, submit[s].prior + 1)
         /\ ~Taken(submit[s].exam, submit[s].user, submit[s].prior + 1)
         /\ submit'[s] = [submit[s] EXCEPT !.pc = "committing"]
      \/ /\ submit[s].pc = "inserting" /\ submit'[s].pc = "conflict"
         /\ Taken(submit[s].exam, submit[s].user, submit[s].prior + 1)
         /\ submit'[s] = [submit[s] EXCEPT !.pc = "conflict"]

  <2> USE DEF TypeInv, TypeOK, SubmitStates
  <2>1. CASE \E e \in Exams, u \in Students : SubmitLoad(s, e, u)
    BY <2>1 DEF SubmitLoad, Refuse, Blank
  <2>2. CASE SubmitCheckAccess(s)
    BY <2>2 DEF SubmitCheckAccess, Refuse, Blank
  <2>3. CASE SubmitReadExam(s)
    BY <2>3 DEF SubmitReadExam, Refuse, Blank
  <2>4. CASE SubmitCount(s)
    BY <2>4 DEF SubmitCount, Refuse, Blank
  <2>5. CASE SubmitInsert(s)
    BY <2>5 DEF SubmitInsert, Goto
  <2>6. CASE SubmitFail(s)
    BY <2>6 DEF SubmitFail, Refuse, Blank
  <2> QED
    BY <2>1, <2>2, <2>3, <2>4, <2>5, <2>6 DEF SubmitStep, SubmitAdvance
<1>8. submit[s].pc \in {"counting", "inserting"} =>
        /\ submit[s].exam \in Exams /\ submit[s].user \in Students
        /\ submit[s].limit \in Nat
        /\ Used(submit[s].exam, submit[s].user) \in Nat
  BY CountsAreNat, LimitsAssumption
     DEF TypeInv, RequestsShaped, Located, Numbered, InTransaction
<1>9. ReadsSound'
  <2>1. SUFFICES ASSUME NEW t \in Submits, NEW f \in Exams, NEW v \in Students
        PROVE  /\ At(t, {"counting"} \cup Numbered, f, v)' =>
                    submit'[t].limit <= allowance[f]
               /\ At(t, Numbered, f, v)' =>
                    /\ submit'[t].prior < submit'[t].limit
                    /\ submit'[t].prior <= Used(f, v)
    BY <1>1, <1>2 DEF ReadsSound
  <2>2. /\ At(t, {"counting"} \cup Numbered, f, v) =>
             submit[t].limit <= allowance[f]
        /\ At(t, Numbered, f, v) => /\ submit[t].prior < submit[t].limit
                                    /\ submit[t].prior <= Used(f, v)
    BY DEF NumberingInv, ReadsSound
  <2>3. CASE t # s
    BY <1>3, <2>2, <2>3 DEF At
  <2>4. CASE t = s
    <3>1. submit[s] \in SubmitStates
      BY DEF TypeInv, TypeOK
    <3>2. exams[f] # Nil => exams[f].limit <= allowance[f]
      BY DEF NumberingInv, LimitsPublished
    <3> QED
      BY <1>7, <1>8, <2>2, <2>4, <3>1, <3>2
         DEF At, Numbered, LimitReached, SubmitStates
  <2> QED
    BY <2>3, <2>4
<1>10. NumbersSound'
  <2>1. SUFFICES ASSUME NEW t \in Submits, NEW f \in Exams, NEW v \in Students
        PROVE  /\ At(t, {"committing"}, f, v)' =>
                    submit'[t].prior + 1 \notin Numbers(f, v)
               /\ At(t, {"accepted"}, f, v)' =>
                    submit'[t].prior + 1 \in Numbers(f, v)
    BY <1>2 DEF NumbersSound
  <2>2. /\ At(t, {"committing"}, f, v) => submit[t].prior + 1 \notin Numbers(f, v)
        /\ At(t, {"accepted"}, f, v) => submit[t].prior + 1 \in Numbers(f, v)
    BY DEF NumberingInv, NumbersSound
  <2>3. CASE t # s
    BY <1>3, <2>2, <2>3 DEF At
  <2>4. CASE t = s
    <3>1. submit[s] \in SubmitStates
      BY DEF TypeInv, TypeOK
    <3> QED
      BY <1>7, <2>2, <2>4, <3>1 DEF At, Taken, SubmitStates
  <2> QED
    BY <2>3, <2>4
<1>11. KeysUnique'
  <2>1. ASSUME NEW t \in Submits \ {s},
               submit'[s].pc = submit[t].pc,
               submit'[s].pc \in {"committing", "accepted"},
               submit'[s].exam = submit[t].exam,
               submit'[s].user = submit[t].user,
               submit'[s].prior = submit[t].prior
        PROVE  FALSE
    <3>1. submit[s] \in SubmitStates /\ submit[t] \in SubmitStates
      BY DEF TypeInv, TypeOK
    <3>2. /\ submit[s].pc = "inserting" /\ submit[t].pc = "committing"
          /\ ~Held(submit[s].exam, submit[s].user, submit[s].prior + 1)
          /\ submit'[s] = [submit[s] EXCEPT !.pc = "committing"]
      BY <1>7, <2>1
    <3>3. /\ submit[t].exam = submit[s].exam /\ submit[t].user = submit[s].user
          /\ submit[t].prior = submit[s].prior
      BY <2>1, <3>1, <3>2 DEF SubmitStates
    <3>4. t \in Writers({"committing"}, submit[s].exam, submit[s].user,
                        submit[s].prior + 1)
      BY <3>2, <3>3 DEF Writers
    <3> QED
      BY <3>2, <3>4 DEF Held
  <2> QED
    BY <1>3, <2>1 DEF NumberingInv, KeysUnique
<1>12. ConflictHasWinner'
  <2>1. SUFFICES ASSUME NEW t \in Submits, submit'[t].pc = "conflict"
        PROVE  (\E a \in AttemptsOf(submit[t].exam, submit[t].user) :
                  a.number = submit[t].prior + 1 /\ a.by # t)'
    BY DEF ConflictHasWinner
  <2>2. CASE t # s
    <3>1. submit'[t] = submit[t]
      BY <1>3, <2>2
    <3>2. \E a \in AttemptsOf(submit[t].exam, submit[t].user) :
            a.number = submit[t].prior + 1 /\ a.by # t
      BY <2>1, <3>1 DEF NumberingInv, ConflictHasWinner
    <3> QED
      BY <1>1, <3>1, <3>2 DEF AttemptsOf
  <2>3. CASE t = s
    <3>1. submit[s] \in SubmitStates
      BY DEF TypeInv, TypeOK
    <3>2. /\ submit[s].pc = "inserting"
          /\ Taken(submit[s].exam, submit[s].user, submit[s].prior + 1)
          /\ submit'[s] = [submit[s] EXCEPT !.pc = "conflict"]
      BY <1>7, <2>1, <2>3
    <3>3. PICK a \in AttemptsOf(submit[s].exam, submit[s].user) :
                 a.number = submit[s].prior + 1
      BY <3>2 DEF Taken, Numbers
    <3>4. a.by # s
      BY <3>2, <3>3 DEF NumberingInv, RowsAnswered, AttemptsOf
    <3> QED
      BY <1>1, <2>3, <3>1, <3>2, <3>3, <3>4 DEF AttemptsOf, SubmitStates
  <2> QED
    BY <2>2, <2>3
<1> QED
  BY <1>5, <1>6, <1>9, <1>10, <1>11, <1>12 DEF NumberingInv

\* Administrators write no attempts, and the limits they publish only raise
\* the allowance.
LEMMA EditsRaise ==
  ASSUME TypeInv, NEW a \in Edits, EditStep(a)
  PROVE  /\ UNCHANGED <<attempts, submit>>
         /\ allowance' \in [Exams -> Nat]
         /\ \A e \in Exams : allowance[e] <= allowance'[e]
         /\ \A e \in Exams : exams'[e] # Nil =>
              \/ exams'[e] = exams[e]
              \/ exams'[e].limit <= allowance'[e]
         /\ \/ UNCHANGED allowance
            \/ \E e \in Exams : /\ allowance'[e] > allowance[e]
                               /\ \A f \in Exams \ {e} :
                                    allowance'[f] = allowance[f]
<1> USE DEF TypeInv, TypeOK
<1>1. ASSUME NEW e \in Exams, NEW row \in ExamRows, SaveRow(e, row)
      PROVE  /\ allowance' \in [Exams -> Nat]
             /\ \A f \in Exams : allowance[f] <= allowance'[f]
             /\ \A f \in Exams : exams'[f] # Nil =>
                  exams'[f] = exams[f] \/ exams'[f].limit <= allowance'[f]
             /\ \/ UNCHANGED allowance
                \/ /\ allowance'[e] > allowance[e]
                   /\ \A f \in Exams \ {e} : allowance'[f] = allowance[f]
  <2>1. row.limit \in Nat
    BY LimitsAssumption DEF ExamRows
  <2>2. /\ exams' = [exams EXCEPT ![e] = row]
        /\ allowance' = [allowance EXCEPT ![e] = Larger(@, row.limit)]
    BY <1>1 DEF SaveRow
  <2>3. CASE allowance[e] >= row.limit
    <3>1. allowance' = allowance
      BY <2>1, <2>2, <2>3 DEF Larger
    <3> QED
      BY <2>1, <2>2, <2>3, <3>1
  <2>4. CASE ~(allowance[e] >= row.limit)
    <3>1. allowance' = [allowance EXCEPT ![e] = row.limit]
      BY <2>1, <2>2, <2>4 DEF Larger
    <3> QED
      BY <2>1, <2>2, <2>4, <3>1
  <2> QED
    BY <2>3, <2>4
<1>2. ASSUME NEW e \in Exams, NEW row \in ExamRows, CreateExam(a, e, row)
      PROVE  /\ SaveRow(e, row) /\ UNCHANGED <<attempts, submit>>
  BY <1>2 DEF CreateExam
<1>3. CASE UpdateSave(a)
  <2>1. edit[a].exam \in Exams /\ edit[a].entity \in ExamRows
    BY <1>3 DEF UpdateSave, EditsShaped
  <2>2. SaveRow(edit[a].exam, edit[a].entity) /\ UNCHANGED <<attempts, submit>>
    BY <1>3 DEF UpdateSave
  <2> QED
    BY <1>1, <2>1, <2>2
<1>4. CASE \E e \in Exams : \/ \E patch \in Patches : UpdateLoad(a, e, patch)
                            \/ DeleteLoad(a, e)
  BY <1>4 DEF UpdateLoad, DeleteLoad
<1>5. CASE DeleteRemove(a)
  BY <1>5 DEF DeleteRemove, EditsShaped
<1>6. CASE \E e \in Exams, row \in ExamRows : CreateExam(a, e, row)
  BY <1>1, <1>2, <1>6
<1> QED
  BY <1>3, <1>4, <1>5, <1>6 DEF EditStep

LEMMA NumberingEdit ==
  ASSUME TypeInv, NumberingInv, NEW a \in Edits, EditStep(a)
  PROVE  NumberingInv'
<1>1. /\ UNCHANGED <<attempts, submit>>
      /\ allowance' \in [Exams -> Nat]
      /\ \A e \in Exams : allowance[e] <= allowance'[e]
      /\ \A e \in Exams : exams'[e] # Nil =>
           exams'[e] = exams[e] \/ exams'[e].limit <= allowance'[e]
  BY EditsRaise
<1>2. \A f, v : /\ AttemptsOf(f, v)' = AttemptsOf(f, v)
                /\ Used(f, v)' = Used(f, v)
                /\ Numbers(f, v)' = Numbers(f, v)
  BY <1>1, AttemptsFrame
<1>3. /\ \A f, v : Used(f, v) \in Nat
      /\ \A e \in Exams : allowance[e] \in Nat
  BY CountsAreNat DEF TypeInv, TypeOK
<1>4. WithinAllowance'
  <2>1. SUFFICES ASSUME NEW e \in Exams, NEW u \in Students
                 PROVE  Used(e, u) <= allowance'[e]
    BY <1>2 DEF WithinAllowance
  <2>2. Used(e, u) <= allowance[e] /\ allowance[e] <= allowance'[e]
    BY <1>1 DEF NumberingInv, WithinAllowance
  <2>3. Used(e, u) \in Nat /\ allowance[e] \in Nat /\ allowance'[e] \in Nat
    BY <1>1, <1>3
  <2> QED
    BY <2>2, <2>3
<1>5. LimitsPublished'
  <2>1. SUFFICES ASSUME NEW e \in Exams, exams'[e] # Nil
                 PROVE  exams'[e].limit <= allowance'[e]
    BY DEF LimitsPublished
  <2>2. CASE exams'[e] = exams[e]
    <3>1. exams[e].limit <= allowance[e] /\ exams[e].limit \in Nat
      BY <2>1, <2>2, LimitsAssumption
         DEF NumberingInv, LimitsPublished, TypeInv, TypeOK, ExamRows
    <3>2. allowance[e] <= allowance'[e] /\ allowance[e] \in Nat
          /\ allowance'[e] \in Nat
      BY <1>1, <1>3
    <3> QED
      BY <2>2, <3>1, <3>2
  <2> QED
    BY <1>1, <2>1, <2>2
<1>6. ReadsSound'
  <2>1. SUFFICES ASSUME NEW s \in Submits, NEW e \in Exams, NEW u \in Students,
                        At(s, {"counting"} \cup Numbered, e, u)
        PROVE  submit[s].limit <= allowance'[e]
    BY <1>1, <1>2 DEF ReadsSound, NumberingInv, At
  <2>2. submit[s].limit <= allowance[e] /\ submit[s].limit \in Nat
    BY <2>1, LimitsAssumption
       DEF NumberingInv, ReadsSound, At, TypeInv, RequestsShaped
  <2>3. allowance[e] <= allowance'[e] /\ allowance[e] \in Nat
        /\ allowance'[e] \in Nat
    BY <1>1, <1>3
  <2> QED
    BY <2>2, <2>3
<1>7. NumbersContiguous' /\ NumbersSound'
  BY <1>1, <1>2 DEF NumberingInv, NumbersContiguous, NumbersSound, At
<1>8. KeysUnique' /\ RowsAnswered'
  BY <1>1 DEF NumberingInv, KeysUnique, RowsAnswered
<1>9. ConflictHasWinner'
  BY <1>1 DEF NumberingInv, ConflictHasWinner, AttemptsOf
<1> QED
  BY <1>4, <1>5, <1>6, <1>7, <1>8, <1>9 DEF NumberingInv

LEMMA NumberingInductive ==
  TypeInv /\ NumberingInv /\ [Next]_vars => NumberingInv'
<1> SUFFICES ASSUME TypeInv, NumberingInv, [Next]_vars PROVE NumberingInv'
  OBVIOUS
<1>1. TypeInv'
  BY TypeInductive
<1>2. CASE UNCHANGED vars
  <2>1. UNCHANGED <<exams, attempts, submit, allowance>>
    BY <1>2 DEF vars
  <2>2. \A f, v : Used(f, v)' = Used(f, v) /\ Numbers(f, v)' = Numbers(f, v)
    BY <2>1, AttemptsFrame
  <2>3. NumbersContiguous' /\ WithinAllowance' /\ NumbersSound' /\ ReadsSound'
    BY <2>1, <2>2 DEF NumberingInv, NumbersContiguous, WithinAllowance,
                      NumbersSound, ReadsSound, At
  <2>4. KeysUnique' /\ RowsAnswered' /\ LimitsPublished'
    BY <2>1 DEF NumberingInv, KeysUnique, RowsAnswered, LimitsPublished
  <2>5. ConflictHasWinner'
    BY <2>1 DEF NumberingInv, ConflictHasWinner, AttemptsOf
  <2> QED
    BY <2>3, <2>4, <2>5 DEF NumberingInv
<1>3. CASE Next
  BY <1>1, <1>3, NumberingCommit, NumberingSubmit, NumberingEdit
     DEF Next
<1> QED
  BY <1>2, <1>3

LEMMA Numbering == Spec => [](TypeInv /\ NumberingInv)
<1>1. Init => TypeInv /\ NumberingInv
  BY TypeInit, NumberingInit
<1>2. TypeInv /\ NumberingInv /\ [Next]_vars => (TypeInv /\ NumberingInv)'
  BY TypeInductive, NumberingInductive
<1> QED
  BY <1>1, <1>2, PTL DEF Spec

\* Contiguous numbering: however submits race, wait, fail or lose, the
\* committed attempts of a student at an exam are 1, 2, ..., n.
THEOREM Contiguity == Spec => []NumbersContiguous
<1>1. TypeInv /\ NumberingInv => NumbersContiguous
  BY DEF NumberingInv
<1> QED
  BY <1>1, Numbering, PTL

\* The limit: no student ever has more attempts than the most generous
\* maxAttempts the exam was saved with.
THEOREM LimitRespected == Spec => []WithinAllowance
<1>1. TypeInv /\ NumberingInv => WithinAllowance
  BY DEF NumberingInv
<1> QED
  BY <1>1, Numbering, PTL

\* No spurious conflict: a 409 always has a committed attempt of another
\* request behind it.
THEOREM ConflictsJustified == Spec => []ConflictHasWinner
<1>1. TypeInv /\ NumberingInv => ConflictHasWinner
  BY DEF NumberingInv
<1> QED
  BY <1>1, Numbering, PTL

\* Accepted answers are backed by committed rows, one number each.
THEOREM AcceptedBacked == Spec => []AcceptedOwnsNumber
<1>1. ASSUME TypeInv, NumberingInv PROVE AcceptedOwnsNumber
  <2>1. SUFFICES ASSUME NEW s \in Submits, submit[s].pc = "accepted"
        PROVE  /\ submit[s].prior + 1 \in Numbers(submit[s].exam, submit[s].user)
               /\ Writers({"accepted"}, submit[s].exam, submit[s].user,
                          submit[s].prior + 1) = {s}
    BY DEF AcceptedOwnsNumber
  <2>2. submit[s].exam \in Exams /\ submit[s].user \in Students
    BY <1>1, <2>1 DEF TypeInv, RequestsShaped, Located
  <2>3. submit[s].prior + 1 \in Numbers(submit[s].exam, submit[s].user)
    BY <1>1, <2>1, <2>2 DEF NumberingInv, NumbersSound, At
  <2>4. \A t \in Submits : submit[t].prior \in Nat
    BY <1>1 DEF TypeInv, TypeOK, SubmitStates
  <2>5. ASSUME NEW t \in Submits, submit[t].pc = "accepted",
               submit[t].exam = submit[s].exam,
               submit[t].user = submit[s].user,
               submit[t].prior + 1 = submit[s].prior + 1
        PROVE  t = s
    <3>1. submit[t].prior = submit[s].prior
      BY <2>4, <2>5
    <3> QED
      BY <1>1, <2>1, <2>5, <3>1 DEF NumberingInv, KeysUnique
  <2> QED
    BY <2>1, <2>3, <2>5 DEF Writers
<1> QED
  BY <1>1, Numbering, PTL

-----------------------------------------------------------------------------
(* Refinement: the protocol implements the ledger.                         *)

LEMMA LedgerStart == Init => Ledger!LedgerInit
<1> SUFFICES ASSUME Init PROVE Ledger!LedgerInit
  OBVIOUS
<1>1. \A e, u : Used(e, u) = 0
  BY FS_EmptySet DEF Init, Used, AttemptsOf
<1>2. allowance \in [Exams -> Nat]
  BY TypeInit DEF TypeInv, TypeOK
<1> QED
  BY <1>1, <1>2 DEF Ledger!LedgerInit

LEMMA LedgerSpend ==
  ASSUME TypeInv, NumberingInv, NEW s \in Submits, SubmitCommit(s)
  PROVE  \E e \in Exams, u \in Students : Ledger!Spend(e, u)
<1>1. /\ submit[s].exam \in Exams /\ submit[s].user \in Students
      /\ submit[s].prior \in Nat /\ submit[s].limit \in Nat
      /\ submit[s].pc = "committing"
  BY LimitsAssumption
     DEF SubmitCommit, TypeInv, TypeOK, SubmitStates, RequestsShaped, Located,
         Numbered, InTransaction
<1>2. PICK e \in Exams, u \in Students, p \in Nat, m \in Nat,
           row \in {[exam |-> submit[s].exam, user |-> submit[s].user,
                     number |-> submit[s].prior + 1,
                     score |-> submit[s].score, by |-> s]} :
        /\ e = submit[s].exam /\ u = submit[s].user
        /\ p = submit[s].prior /\ m = submit[s].limit
  BY <1>1
<1>3. /\ row.exam = e /\ row.user = u /\ row.number = p + 1
      /\ attempts' = attempts \cup {row} /\ UNCHANGED allowance
  BY <1>2 DEF SubmitCommit
<1>4. /\ p <= Used(e, u) /\ p < m /\ m <= allowance[e]
      /\ p + 1 \notin Numbers(e, u)
  BY <1>1, <1>2 DEF NumberingInv, ReadsSound, NumbersSound, Numbered, At
<1>5. /\ p = Used(e, u)
      /\ Used(e, u)' = Used(e, u) + 1
      /\ \A f \in Exams, v \in Students : (f # e \/ v # u) =>
           Used(f, v)' = Used(f, v)
  <2>1. NumbersContiguous
    BY DEF NumberingInv
  <2> QED
    BY <1>3, <1>4, <2>1, CommitExtends
<1>6. Used(e, u) < allowance[e]
  BY <1>4, <1>5 DEF TypeInv, TypeOK
<1> DEFINE used == [f \in Exams |-> [v \in Students |-> Used(f, v)]]
<1>7. used' = [f \in Exams |-> [v \in Students |-> Used(f, v)']]
  OBVIOUS
<1>8. used' = [used EXCEPT ![e][u] = @ + 1]
  BY <1>5, <1>7
<1> QED
  BY <1>3, <1>6, <1>8 DEF Ledger!Spend

LEMMA LedgerStep ==
  TypeInv /\ NumberingInv /\ [Next]_vars
    => [Ledger!LedgerNext]_(Ledger!ledgerVars)
<1> SUFFICES ASSUME TypeInv, NumberingInv, [Next]_vars
             PROVE  [Ledger!LedgerNext]_(Ledger!ledgerVars)
  OBVIOUS
<1> DEFINE used == [f \in Exams |-> [v \in Students |-> Used(f, v)]]
<1>1. ASSUME UNCHANGED attempts PROVE UNCHANGED used
  BY <1>1, AttemptsFrame
<1>2. CASE UNCHANGED <<attempts, allowance>>
  BY <1>1, <1>2 DEF Ledger!ledgerVars
<1>3. ASSUME NEW s \in Submits, SubmitCommit(s)
      PROVE  Ledger!LedgerNext
  BY <1>3, LedgerSpend DEF Ledger!LedgerNext
<1>4. ASSUME NEW s \in Submits, SubmitStep(s), ~SubmitCommit(s)
      PROVE  UNCHANGED <<attempts, allowance>>
  BY <1>4 DEF SubmitStep, SubmitAdvance, SubmitLoad, SubmitCheckAccess,
              SubmitReadExam, SubmitCount, SubmitInsert, SubmitFail
<1>5. ASSUME NEW a \in Edits, EditStep(a)
      PROVE  UNCHANGED <<attempts, allowance>> \/ Ledger!LedgerNext
  <2>1. /\ UNCHANGED attempts
        /\ allowance' \in [Exams -> Nat]
        /\ \/ UNCHANGED allowance
           \/ \E e \in Exams : /\ allowance'[e] > allowance[e]
                              /\ \A f \in Exams \ {e} :
                                   allowance'[f] = allowance[f]
    BY <1>5, EditsRaise
  <2> QED
    BY <1>1, <2>1 DEF Ledger!LedgerNext, Ledger!Publish
<1>6. CASE UNCHANGED vars
  BY <1>2, <1>6 DEF vars
<1> QED
  BY <1>2, <1>3, <1>4, <1>5, <1>6 DEF Next

\* The exam module implements the ledger of spent attempts.
THEOREM Refinement == Spec => ImplementsLedger
BY LedgerStart, LedgerStep, Numbering, PTL
   DEF Spec, ImplementsLedger, Ledger!LedgerSpec

-----------------------------------------------------------------------------
(* Statuses: committed attempts are never lost.                            *)

LEMMA AttemptsGrow ==
  ASSUME TypeInv, [Next]_vars
  PROVE  attempts \subseteq attempts' /\ TypeInv'
<1>1. TypeInv'
  BY TypeInductive
<1>2. ASSUME NEW s \in Submits, SubmitStep(s)
      PROVE  attempts \subseteq attempts'
  BY <1>2 DEF SubmitStep, SubmitAdvance, SubmitLoad, SubmitCheckAccess, SubmitReadExam,
              SubmitCount, SubmitInsert, SubmitCommit, SubmitFail
<1>3. ASSUME NEW a \in Edits, EditStep(a)
      PROVE  attempts \subseteq attempts'
  BY <1>3, EditsRaise
<1> QED
  BY <1>1, <1>2, <1>3 DEF Next, vars

LEMMA UsedGrows ==
  ASSUME TypeInv, TypeInv', attempts \subseteq attempts', NEW e \in Exams, NEW u \in Students
  PROVE  Used(e, u) \in Nat /\ Used(e, u)' \in Nat /\ Used(e, u) <= Used(e, u)'
<1>1. AttemptsOf(e, u) \subseteq AttemptsOf(e, u)'
  BY DEF AttemptsOf
<1>2. IsFiniteSet(AttemptsOf(e, u)')
  <2>1. IsFiniteSet(attempts') /\ AttemptsOf(e, u)' \subseteq attempts'
    BY DEF TypeInv, AttemptsOf
  <2> QED
    BY <2>1, FS_Subset
<1>3. /\ IsFiniteSet(AttemptsOf(e, u))
      /\ Cardinality(AttemptsOf(e, u)) <= Cardinality(AttemptsOf(e, u)')
  BY <1>1, <1>2, FS_Subset
<1>4. Cardinality(AttemptsOf(e, u)) \in Nat /\ Cardinality(AttemptsOf(e, u)') \in Nat
  BY <1>2, <1>3, FS_CardinalityType
<1> QED
  BY <1>3, <1>4 DEF Used

LEMMA StatusStep ==
  ASSUME TypeInv, [Next]_vars, NEW e \in Exams, NEW u \in Students, exams[e] # Nil, exams'[e] = exams[e]
  PROVE  StatusOrder(e, u)' >= StatusOrder(e, u)
<1>1. attempts \subseteq attempts' /\ TypeInv'
  BY AttemptsGrow
<1>2. Used(e, u) \in Nat /\ Used(e, u)' \in Nat /\ Used(e, u) <= Used(e, u)'
  BY <1>1, UsedGrows
<1>3. Passed(e, u) => Passed(e, u)'
  BY <1>1 DEF Passed, AttemptsOf
<1>4. exams[e].limit \in Nat
  BY LimitsAssumption DEF TypeInv, TypeOK, ExamRows
<1>5. LimitReached(Used(e, u), exams[e].limit) => LimitReached(Used(e, u), exams[e].limit)'
  BY <1>2, <1>4 DEF LimitReached
<1>6. Used(e, u) > 0 => Used(e, u)' > 0
  BY <1>2
<1> QED
  BY <1>3, <1>5, <1>6 DEF StatusOrder, Status

\* As long as nobody edits the exam, a student's status only moves forward:
\* attempts are only ever added, and neither a worse one nor a late one takes
\* a pass or the exhaustion of the limit away.
THEOREM StatusAdvances == Spec => StatusOnlyAdvances
<1>1. TypeInv /\ [Next]_vars =>
        [\A e \in Exams, u \in Students :
           (exams[e] # Nil /\ exams'[e] = exams[e]) => StatusOrder(e, u)' >= StatusOrder(e, u)]_vars
  BY StatusStep
<1> QED
  BY <1>1, TypeInit, TypeInductive, PTL DEF Spec, StatusOnlyAdvances

-----------------------------------------------------------------------------
(* The comment of submitAttempt on conflicts, where it does hold.          *)

\* With one attempt left when the submit counted, losing its number does mean
\* that the student has none left: the condition under which the comment that
\* ConflictMeansLimit states, and the code breaks, is right.
LastConflictMeansLimit ==
  [][\A s \in Submits :
       (/\ submit[s].pc = "inserting" /\ submit'[s].pc = "conflict"
        /\ LimitReached(submit[s].prior + 1, submit[s].limit))
         => LimitReached(Used(submit[s].exam, submit[s].user), submit[s].limit)]_vars

\* Only the index refuses an insert with a conflict.
LEMMA ConflictIsTaken ==
  ASSUME TypeInv, [Next]_vars, NEW s \in Submits,
         submit[s].pc = "inserting", submit'[s].pc = "conflict"
  PROVE  Taken(submit[s].exam, submit[s].user, submit[s].prior + 1)
<1>1. ASSUME NEW t \in Submits, SubmitStep(t)
      PROVE  Taken(submit[s].exam, submit[s].user, submit[s].prior + 1)
  <2>1. submit \in [Submits -> SubmitStates] /\ submit[s] \in SubmitStates
    BY DEF TypeInv, TypeOK
  <2>2. t = s
    BY <1>1, <2>1 DEF SubmitStep, SubmitAdvance, SubmitLoad, SubmitCheckAccess,
       SubmitReadExam, SubmitCount, SubmitInsert, SubmitCommit, SubmitFail, Goto, Refuse
  <2>3. SubmitInsert(s) \/ SubmitFail(s)
    BY <1>1, <2>2 DEF SubmitStep, SubmitAdvance, SubmitLoad, SubmitCheckAccess,
       SubmitReadExam, SubmitCount, SubmitCommit
  <2>4. ~SubmitFail(s)
    BY <2>1 DEF SubmitFail, Refuse, Blank
  <2>5. SubmitInsert(s)
    BY <2>3, <2>4
  <2>6. Goto(s, IF Taken(submit[s].exam, submit[s].user, submit[s].prior + 1)
                THEN "conflict" ELSE "committing")
    BY <2>5 DEF SubmitInsert
  <2>7. ~Taken(submit[s].exam, submit[s].user, submit[s].prior + 1)
          => submit'[s].pc = "committing"
    BY <2>1, <2>6 DEF Goto, SubmitStates
  <2> QED
    BY <2>7
<1>2. ASSUME NEW a \in Edits, EditStep(a) PROVE FALSE
  BY <1>2 DEF EditStep, CreateExam, UpdateLoad, UpdateSave, DeleteLoad, DeleteRemove
<1> QED
  BY <1>1, <1>2 DEF Next, vars

LEMMA LastConflictStep ==
  ASSUME TypeInv, NumberingInv, [Next]_vars, NEW s \in Submits,
         submit[s].pc = "inserting", submit'[s].pc = "conflict",
         LimitReached(submit[s].prior + 1, submit[s].limit)
  PROVE  LimitReached(Used(submit[s].exam, submit[s].user), submit[s].limit)
<1> DEFINE e == submit[s].exam
           u == submit[s].user
           n == submit[s].prior + 1
<1>1. n \in Numbers(e, u)
  BY ConflictIsTaken DEF Taken
<1>2. e \in Exams /\ u \in Students /\ submit[s].prior \in Nat /\ submit[s].limit \in Nat
  <2>1. submit[s] \in SubmitStates
    BY DEF TypeInv, TypeOK
  <2>2. PICK a \in attempts : a.exam = e /\ a.user = u
    BY <1>1 DEF Numbers, AttemptsOf
  <2>3. e \in Exams /\ u \in Students
    BY <2>2 DEF TypeInv, TypeOK, AttemptRows
  <2>4. submit[s].prior \in Nat /\ submit[s].limit \in Nat
    <3>1. submit[s].prior \in Nat /\ submit[s].limit \in Limits \cup {0}
      BY <2>1 DEF SubmitStates
    <3>2. Limits \cup {0} \subseteq Nat
      BY LimitsAssumption
    <3> QED
      BY <3>1, <3>2
  <2> QED
    BY <2>3, <2>4
<1>3. n \in 1..Used(e, u)
  BY <1>1, <1>2 DEF NumberingInv, NumbersContiguous
<1>4. Used(e, u) \in Nat
  BY CountsAreNat DEF TypeInv
<1> QED
  BY <1>2, <1>3, <1>4 DEF LimitReached

\* A conflict over the student's last attempt is the limit: the numbers are
\* contiguous, so the number lost counts the attempts up to it.
THEOREM LastConflict == Spec => LastConflictMeansLimit
<1>1. TypeInv /\ NumberingInv /\ [Next]_vars =>
        [\A s \in Submits :
           (/\ submit[s].pc = "inserting" /\ submit'[s].pc = "conflict"
            /\ LimitReached(submit[s].prior + 1, submit[s].limit))
             => LimitReached(Used(submit[s].exam, submit[s].user), submit[s].limit)]_vars
  BY LastConflictStep
<1> QED
  BY <1>1, Numbering, PTL DEF Spec, LastConflictMeansLimit
=============================================================================
