---------------------------- MODULE ExamAttempts ----------------------------
(***************************************************************************)
(* Exam attempts: students' submits racing each other and the              *)
(* administrators' edits (exams/exam-student.service.ts,                   *)
(* exams/exam-admin.service.ts, migrations/1743000000000).                 *)
(*                                                                         *)
(* A submit reads the exam, asks Moodle whether the student is enrolled,   *)
(* then opens a READ COMMITTED transaction that reads the exam again,      *)
(* counts the student's committed attempts and inserts the next number.    *)
(* Nothing locks the rows counted; the unique index over (examId, userId,  *)
(* attemptNumber) is the only arbiter.  Edits load an entity, patch it in  *)
(* memory and save the whole of it later.                                  *)
(***************************************************************************)
EXTENDS Naturals, FiniteSets

CONSTANTS
  Exams,      \* exam ids the sequence can hand out
  Students,
  Courses,
  Enrolled,   \* Enrolled \subseteq Students \X Courses, as Moodle reports it
  Limits,     \* values of maxAttempts the DTO accepts
  Thresholds, \* values of passThreshold
  Scores,     \* percentages a grading can produce
  Submits,    \* ids of submit requests
  Edits,      \* ids of administrator requests
  Nil         \* no row, no id

ASSUME LimitsAssumption     == Limits \subseteq Nat \ {0}
ASSUME ThresholdsAssumption == Thresholds \subseteq 0..100
ASSUME ScoresAssumption     == Scores \subseteq 0..100
ASSUME NilAssumption ==
  Nil \notin Exams \cup Students
             \cup [course: Courses, active: BOOLEAN, limit: Limits,
                   threshold: Thresholds]

VARIABLES
  exams,      \* table exams: the row of an id, or Nil
  minted,     \* ids the exams sequence has handed out
  attempts,   \* table attempts: the committed rows
  submit,     \* the state of each submit request
  edit,       \* the state of each administrator request
  allowance   \* history: the largest limit ever saved for an exam

vars == <<exams, minted, attempts, submit, edit, allowance>>

ExamRows == [course: Courses, active: BOOLEAN, limit: Limits,
             threshold: Thresholds]

AttemptRows == [exam: Exams, user: Students, number: Nat \ {0},
                score: Scores, by: Submits]

\* Where a submit stands: before its transaction, inside it, answered.
InTransaction == {"reading", "counting", "inserting", "committing"}
Answered == {"accepted", "notFound", "forbidden", "conflict", "failed"}

SubmitStates == [pc: {"idle", "checking"} \cup InTransaction \cup Answered,
                 exam: Exams \cup {Nil}, user: Students \cup {Nil},
                 course: Courses \cup {Nil}, limit: Limits \cup {0},
                 prior: Nat, score: Scores \cup {0}]

EditStates == [pc: {"idle", "saving", "removing", "done"},
               exam: Exams \cup {Nil}, entity: ExamRows \cup {Nil}]

TypeOK ==
  /\ exams \in [Exams -> ExamRows \cup {Nil}]
  /\ minted \subseteq Exams
  /\ attempts \subseteq AttemptRows
  /\ submit \in [Submits -> SubmitStates]
  /\ edit \in [Edits -> EditStates]
  /\ allowance \in [Exams -> Nat]

-----------------------------------------------------------------------------
(* Reading the attempts table.                                             *)

AttemptsOf(e, u) == {a \in attempts : a.exam = e /\ a.user = u}

Used(e, u) == Cardinality(AttemptsOf(e, u))

Numbers(e, u) == {a.number : a \in AttemptsOf(e, u)}

\* Transactions that inserted number n and have reached one of the stages.
Writers(stages, e, u, n) ==
  {t \in Submits : /\ submit[t].pc \in stages
                   /\ submit[t].exam = e /\ submit[t].user = u
                   /\ submit[t].prior + 1 = n}

\* The index's verdict on number n: a committed row already has it.
TakenNever(e, u, n) == FALSE
TakenByAnyone(e, u, n) == \E v \in Students : n \in Numbers(e, v)
Taken(e, u, n) == n \in Numbers(e, u)

\* A row that has the number but has not committed: PostgreSQL makes the next
\* insert of the same key wait for its transaction to end.
HeldNever(e, u, n) == FALSE
HeldByWaiters(e, u, n) == Writers({"inserting", "committing"}, e, u, n) # {}
Held(e, u, n) == Writers({"committing"}, e, u, n) # {}

\* The guard of submitAttempt on the attempts counted before this one.
LimitPassed(prior, limit) == prior > limit
LimitReached(prior, limit) == prior >= limit

\* The status a student sees for an exam (resolveAttemptStatus over the best
\* score); a passed exam stays open, an exhausted one does not.
LastPassed(e, u) ==
  \E a \in AttemptsOf(e, u) : /\ a.number = Used(e, u)
                              /\ a.score >= exams[e].threshold
Passed(e, u) == \E a \in AttemptsOf(e, u) : a.score >= exams[e].threshold

Status(e, u) ==
  IF Passed(e, u) THEN "passed"
  ELSE IF LimitReached(Used(e, u), exams[e].limit) THEN "exhausted"
  ELSE IF Used(e, u) > 0 THEN "failed" ELSE "pending"

-----------------------------------------------------------------------------
Blank == [pc |-> "idle", exam |-> Nil, user |-> Nil, course |-> Nil,
          limit |-> 0, prior |-> 0, score |-> 0]

Init ==
  /\ exams \in [Exams -> ExamRows \cup {Nil}]
  /\ minted = {e \in Exams : exams[e] # Nil}
  /\ attempts = {}
  /\ submit = [s \in Submits |-> Blank]
  /\ edit = [a \in Edits |-> [pc |-> "idle", exam |-> Nil, entity |-> Nil]]
  /\ allowance = [e \in Exams |-> IF exams[e] = Nil THEN 0
                                  ELSE exams[e].limit]

Goto(s, pc) == submit' = [submit EXCEPT ![s].pc = pc]

\* The handler throws: its locals are gone, the student has an error.
Refuse(s, error) == submit' = [submit EXCEPT ![s] = [Blank EXCEPT !.pc = error]]

-----------------------------------------------------------------------------
(* submitAttempt, one action per await.                                    *)

\* Load the exam outside the transaction, to know which course to check.
SubmitLoad(s, e, u) ==
  /\ submit[s].pc = "idle"
  /\ \/ /\ exams[e] = Nil
        /\ Refuse(s, "notFound")
     \/ /\ exams[e] # Nil
        /\ submit' = [submit EXCEPT ![s].pc = "checking", ![s].exam = e,
                       ![s].user = u, ![s].course = exams[e].course]
  /\ UNCHANGED <<exams, minted, attempts, edit, allowance>>

\* assertCourseAccess: Moodle answers for the course read above.
SubmitCheckAccess(s) ==
  /\ submit[s].pc = "checking"
  /\ IF <<submit[s].user, submit[s].course>> \in Enrolled
     THEN submit' = [submit EXCEPT ![s].pc = "reading", ![s].course = Nil]
     ELSE Refuse(s, "forbidden")
  /\ UNCHANGED <<exams, minted, attempts, edit, allowance>>

\* The transaction's own read of the exam; its limit is kept for the check.
SubmitReadExam(s) ==
  /\ submit[s].pc = "reading"
  /\ LET row == exams[submit[s].exam] IN
       \/ /\ row = Nil
          /\ Refuse(s, "notFound")
       \/ /\ row # Nil /\ ~row.active
          /\ Refuse(s, "forbidden")
       \/ /\ row # Nil /\ row.active
          /\ submit' = [submit EXCEPT ![s].pc = "counting",
                                      ![s].limit = row.limit]
  /\ UNCHANGED <<exams, minted, attempts, edit, allowance>>

\* Count the committed attempts, refuse at the limit, grade the answers.
SubmitCount(s) ==
  /\ submit[s].pc = "counting"
  /\ LET prior == Used(submit[s].exam, submit[s].user) IN
       \/ /\ LimitReached(prior, submit[s].limit)
          /\ Refuse(s, "forbidden")
       \/ /\ ~LimitReached(prior, submit[s].limit)
          /\ \E score \in Scores :
               submit' = [submit EXCEPT ![s].pc = "inserting",
                                        ![s].prior = prior,
                                        ![s].score = score]
  /\ UNCHANGED <<exams, minted, attempts, edit, allowance>>

\* Insert number prior + 1: wait while another transaction holds it, fail
\* with a conflict once a committed row has it.
SubmitInsert(s) ==
  /\ submit[s].pc = "inserting"
  /\ LET e == submit[s].exam
         u == submit[s].user
         n == submit[s].prior + 1
     IN /\ ~Held(e, u, n)
        /\ Goto(s, IF Taken(e, u, n) THEN "conflict" ELSE "committing")
  /\ UNCHANGED <<exams, minted, attempts, edit, allowance>>

\* Commit; the answer reaches the student, or is lost on the way.
SubmitCommit(s) ==
  /\ submit[s].pc = "committing"
  /\ attempts' = attempts \cup
       {[exam |-> submit[s].exam, user |-> submit[s].user,
         number |-> submit[s].prior + 1, score |-> submit[s].score, by |-> s]}
  /\ Goto(s, "accepted") \/ Refuse(s, "failed")
  /\ UNCHANGED <<exams, minted, edit, allowance>>

\* Moodle or the database fails before the commit: the error is rethrown and
\* the transaction rolled back.
SubmitFail(s) ==
  /\ submit[s].pc \in {"checking"} \cup InTransaction
  /\ Refuse(s, "failed")
  /\ UNCHANGED <<exams, minted, attempts, edit, allowance>>

-----------------------------------------------------------------------------
(* Administrators.  Patches holds what an update may set: the fields it    *)
(* leaves out keep the values of the entity loaded.                        *)

PatchedPartial(row, p) == p
Patched(row, p) == [f \in DOMAIN row |-> IF f \in DOMAIN p THEN p[f] ELSE row[f]]

Patches == UNION {[{"course"} -> Courses], [{"active"} -> BOOLEAN],
                  [{"limit"} -> Limits], [{"threshold"} -> Thresholds]}

Larger(m, n) == IF m >= n THEN m ELSE n

SaveRow(e, row) ==
  /\ exams' = [exams EXCEPT ![e] = row]
  /\ allowance' = [allowance EXCEPT ![e] = Larger(@, row.limit)]

CreateExam(a, e, row) ==
  /\ edit[a].pc = "idle"
  /\ e \notin minted
  /\ minted' = minted \cup {e}
  /\ SaveRow(e, row)
  /\ edit' = [edit EXCEPT ![a].pc = "done"]
  /\ UNCHANGED <<attempts, submit>>

\* updateExam, first half: load the entity and patch it in memory.
UpdateLoad(a, e, patch) ==
  /\ edit[a].pc = "idle"
  /\ exams[e] # Nil
  /\ edit' = [edit EXCEPT ![a] = [pc |-> "saving", exam |-> e,
                                  entity |-> Patched(exams[e], patch)]]
  /\ UNCHANGED <<exams, minted, attempts, submit, allowance>>

\* updateExam, second half: save() writes every column that differs from the
\* row it finds, and inserts the row again when it finds none.
UpdateSave(a) ==
  /\ edit[a].pc = "saving"
  /\ SaveRow(edit[a].exam, edit[a].entity)
  /\ edit' = [edit EXCEPT ![a].pc = "done"]
  /\ UNCHANGED <<minted, attempts, submit>>

DeleteLoad(a, e) ==
  /\ edit[a].pc = "idle"
  /\ exams[e] # Nil
  /\ edit' = [edit EXCEPT ![a] = [pc |-> "removing", exam |-> e,
                                  entity |-> Nil]]
  /\ UNCHANGED <<exams, minted, attempts, submit, allowance>>

\* remove(): no foreign key ties attempts to the exam, so they stay.
DeleteRemove(a) ==
  /\ edit[a].pc = "removing"
  /\ exams' = [exams EXCEPT ![edit[a].exam] = Nil]
  /\ edit' = [edit EXCEPT ![a].pc = "done"]
  /\ UNCHANGED <<minted, attempts, submit, allowance>>

-----------------------------------------------------------------------------
SubmitAdvance(s) ==
  \/ SubmitCheckAccess(s) \/ SubmitReadExam(s) \/ SubmitCount(s)
  \/ SubmitInsert(s) \/ SubmitCommit(s)

SubmitStep(s) ==
  \/ \E e \in Exams, u \in Students : SubmitLoad(s, e, u)
  \/ SubmitAdvance(s) \/ SubmitFail(s)

EditStep(a) ==
  \/ \E e \in Exams : \/ \E row \in ExamRows : CreateExam(a, e, row)
                      \/ \E patch \in Patches : UpdateLoad(a, e, patch)
                      \/ DeleteLoad(a, e)
  \/ UpdateSave(a) \/ DeleteRemove(a)

Next == (\E s \in Submits : SubmitStep(s)) \/ (\E a \in Edits : EditStep(a))

Spec == Init /\ [][Next]_vars

\* Every awaited call ends: Node resumes each handler whose promise settled,
\* and PostgreSQL wakes an insert when the transaction it waits for ends.
FairSpec == Spec /\ \A s \in Submits : WF_vars(SubmitAdvance(s))

-----------------------------------------------------------------------------
(* Properties.                                                             *)

\* The committed attempts of a student at an exam are numbered 1, 2, ..., n
\* with no gap and no number twice, however the submits interleave, fail or
\* wait: count and insert are separate steps, only the index joins them.
NumbersContiguous ==
  \A e \in Exams, u \in Students : Numbers(e, u) = 1..Used(e, u)

\* No student has more attempts than the most generous limit the exam has
\* had, through concurrent submits, limit changes, deletion and the
\* resurrection of a deleted exam by a late save.
WithinAllowance ==
  \A e \in Exams, u \in Students : Used(e, u) <= allowance[e]

\* An accepted answer is backed: the attemptsUsed it reports is the number of
\* a committed row, and no other accepted submit of that student reports it.
AcceptedOwnsNumber ==
  \A s \in Submits : submit[s].pc = "accepted" =>
    LET e == submit[s].exam
        u == submit[s].user
        n == submit[s].prior + 1
    IN n \in Numbers(e, u) /\ Writers({"accepted"}, e, u, n) = {s}

\* A conflict is never spurious: whoever is told that another attempt was
\* registered at the same time can see that attempt, with the number it lost.
ConflictHasWinner ==
  \A s \in Submits : submit[s].pc = "conflict" =>
    \E a \in AttemptsOf(submit[s].exam, submit[s].user) :
      a.number = submit[s].prior + 1 /\ a.by # s

\* As long as nobody edits the exam, a student's status only moves forward:
\* pending, then failed, then exhausted or passed; a later, worse attempt
\* never takes a pass away.
StatusOrder(e, u) ==
  CASE Status(e, u) = "pending" -> 0 [] Status(e, u) = "failed" -> 1
    [] Status(e, u) = "exhausted" -> 2 [] Status(e, u) = "passed" -> 3

StatusOnlyAdvances ==
  [][\A e \in Exams, u \in Students :
       (exams[e] # Nil /\ exams'[e] = exams[e])
         => StatusOrder(e, u)' >= StatusOrder(e, u)]_vars

\* Every submit that found its exam is answered: no chain of inserts waiting
\* for one another lasts forever.
SubmitsAnswered ==
  \A s \in Submits : submit[s].pc = "checking" ~> submit[s].pc \in Answered

\* The detailed protocol implements the ledger: whatever a transaction read
\* and when, each commit spends exactly one attempt under the allowance.
Ledger == INSTANCE AttemptLedger
            WITH used <- [e \in Exams |-> [u \in Students |-> Used(e, u)]]

ImplementsLedger == Ledger!LedgerSpec

\* The comment of submitAttempt: whoever loses the number to a concurrent
\* submit would have gone over maxAttempts, so the student has none left.
ConflictMeansLimit ==
  [][\A s \in Submits :
       (submit[s].pc = "inserting" /\ submit'[s].pc = "conflict")
         => LimitReached(Used(submit[s].exam, submit[s].user), submit[s].limit)]_vars
=============================================================================
