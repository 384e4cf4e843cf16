--------------------------- MODULE ClassroomProofs ---------------------------
(***************************************************************************)
(* Proofs about Classroom, for any courses, exams, forum groups, requests  *)
(* under way at once and steps of the student.                             *)
(***************************************************************************)
EXTENDS Classroom, FiniteSetTheorems, TLAPS

-----------------------------------------------------------------------------
(* The invariant, part by part.                                            *)

Held == {i \in 1..Slots : calls[i] # None}
Live == {i \in Held : calls[i].mine}
LiveIn(ops) == {i \in Live : calls[i].op \in ops}
Alone(ops) == \A i, j \in LiveIn(ops) : i = j

\* A request is about a module of the component that sends it, and only a
\* write outlives its component.
Shaped(c) ==
  /\ c.op \in TaskOps => c.on \in Tasks
  /\ c.op \in ForumOps => c.on \in Forums
  /\ c.op = "file" => c.on \in Files
  /\ c.op = "html" => c.on \in Pages
  /\ c.op \in {"exam", "attempt"} => c.on \in Exams
  /\ c.op = "mark" => c.on \in Modules
  /\ c.mine \/ c.op \in Writes

CallsTyped ==
  /\ calls \in [1..Slots -> Calls \cup {None}]
  /\ \A i \in Held : Shaped(calls[i])

TypeInv == TypeOK /\ CallsTyped

\* What a mark that succeeded, or a read of the progress, found is stored.
BadgeInv ==
  /\ done \subseteq progress
  /\ \A i \in Held :
       /\ calls[i].marks \subseteq progress
       /\ calls[i].op = "mark" /\ calls[i].stage = "done" => calls[i].on \in progress

\* A press is behind every write that is stored or on its way.
Pending(w) ==
  {i \in Held : calls[i].op \in Counted /\ calls[i].stage = "sent" /\ WroteOf(calls[i]) = w}
PressInv == \A w \in Written : wrote[w] + Cardinality(Pending(w)) <= pressed[w]

\* The page waits for its contents, and for nothing else, while it loads.
PageInv ==
  /\ page = "loading" => active = None /\ file.key = None
  /\ \A i \in Live : (calls[i].op = "contents") = (page = "loading")
  /\ Alone({"contents"})

ForumInv ==
  /\ forum.key \in {None, active}
  /\ forum.key # None /\ ~forum.error => forum.topics = forum.key
  /\ forum.disc # None => forum.disc = active /\ forum.key = active

TaskInv == task.for # None /\ ~task.misread => task.status = task.for

\* A file is read only for the page that shows it.
FileInv ==
  /\ \A i \in Held : calls[i].op = "file" => calls[i].on = active
  /\ active \in Files /\ file.key # None /\ ~file.error /\ ~file.live
       => \E i \in Held : calls[i].op = "file"

\* One read of the exams at a time, while none is open; one attempt at a time,
\* of the exam that is open; what is confirmed is the taking that was finished.
ExamInv ==
  /\ \A i \in Held : calls[i].op = "exam" => calls[i].used <= wrote[<<"attempt", calls[i].on>>]
  /\ \A i \in LiveIn({"exam", "exams"}) : exam.loading /\ exam.open = None
  /\ Alone({"exam", "exams"})
  /\ \A i \in LiveIn({"attempt"}) :
       /\ exam.open = calls[i].on /\ ~exam.result /\ exam.used < MaxAttempts
       /\ calls[i].stage = "done" => exam.used < wrote[<<"attempt", calls[i].on>>]
  /\ \A i \in LiveIn({"attempt", "autoMark"}) : exam.submitting /\ exam.confirm
  /\ Alone({"attempt", "autoMark"})
  /\ AttemptsNotOverstated
  /\ exam.confirm /\ ~exam.submitting =>
       exam.open # None /\ exam.finished /\ ~exam.result /\ exam.used < MaxAttempts

ClassInv == TypeInv /\ BadgeInv /\ PressInv /\ PageInv /\ ForumInv /\ TaskInv /\ FileInv /\ ExamInv

-----------------------------------------------------------------------------
(* What a step does to the requests.                                       *)

Fresh(c) ==
  c \in Calls /\ Shaped(c) /\ c.stage = "sent" /\ c.mine /\ c.marks = {} /\ c.used = 0

\* The page forgets a request; a write may still reach the server.
Dropped(c, d) ==
  d = None \/ (c # None /\ c.op \in Writes /\ c.stage = "sent" /\ d = [c EXCEPT !.mine = FALSE])

\* Only requests of gone end, and the new ones are of ops.
Sent(gone, ops) ==
  /\ calls' \in [1..Slots -> Calls \cup {None}]
  /\ \A i \in 1..Slots :
       \/ calls'[i] = calls[i]
       \/ /\ calls[i] = None \/ calls[i].op \in gone
          /\ Dropped(calls[i], calls'[i]) \/ (Fresh(calls'[i]) /\ calls'[i].op \in ops)

\* The requests of every component.
LEMMA FreshOf ==
  ASSUME NEW op, NEW on, NEW by \in Entries \cup {None},
         \/ op \in TaskOps /\ on \in Tasks
         \/ op \in ForumOps /\ on \in Forums
         \/ op = "file" /\ on \in Files
         \/ op = "html" /\ on \in Pages
         \/ op \in {"exam", "attempt"} /\ on \in Exams
         \/ op = "mark" /\ on \in Modules
         \/ op = "autoMark" /\ on \in Entries \cup {None}
         \/ op \in {"exams", "contents"} /\ on = None
  PROVE  Fresh(CallBy(op, on, by)) /\ CallBy(op, on, by).op = op /\ CallBy(op, on, by).on = on
<1>1. op \in Ops
  BY DEF Ops, PlainReads, EffectReads, Refetches, Writes, Counted, TaskOps, ForumOps, PostOps
<1>2. on \in Entries \cup Exams \cup {None}
  BY DEF Entries, Modules
<1>3. /\ op \in TaskOps => on \in Tasks
      /\ op \in ForumOps => on \in Forums
      /\ op = "file" => on \in Files
      /\ op = "html" => on \in Pages
      /\ op \in {"exam", "attempt"} => on \in Exams
      /\ op = "mark" => on \in Modules
  BY DEF TaskOps, ForumOps, PostOps
<1>4. CallBy(op, on, by) \in Calls
  BY <1>1, <1>2 DEF CallBy, Calls
<1> QED
  BY <1>3, <1>4 DEF Fresh, CallBy, Shaped

LEMMA AddIs ==
  ASSUME NEW cs \in [1..Slots -> Calls \cup {None}], NEW c \in Calls \cup {None}, RoomIn(cs)
  PROVE  /\ Add(cs, c) \in [1..Slots -> Calls \cup {None}]
         /\ \E j \in 1..Slots :
              /\ cs[j] = None /\ Add(cs, c)[j] = c
              /\ \A i \in 1..Slots \ {j} : Add(cs, c)[i] = cs[i]
<1>1. CASE c = None
  <2>1. Add(cs, c) = cs
    BY <1>1 DEF Add
  <2> QED
    BY <1>1, <2>1 DEF RoomIn
<1>2. CASE c # None
  <2>1. PICK j : j = CHOOSE i \in 1..Slots : cs[i] = None
    OBVIOUS
  <2>2. j \in 1..Slots /\ cs[j] = None
    BY <2>1 DEF RoomIn
  <2>3. Add(cs, c) = [cs EXCEPT ![j] = c]
    BY <1>2, <2>1 DEF Add
  <2> QED
    BY <2>2, <2>3
<1> QED
  BY <1>1, <1>2

LEMMA AbandonIs ==
  ASSUME NEW cs \in [1..Slots -> Calls \cup {None}], NEW ops
  PROVE  /\ Abandon(cs, ops) \in [1..Slots -> Calls \cup {None}]
         /\ \A i \in 1..Slots :
              /\ cs[i] = None \/ cs[i].op \notin ops => Abandon(cs, ops)[i] = cs[i]
              /\ cs[i] # None /\ cs[i].op \in ops => Dropped(cs[i], Abandon(cs, ops)[i])
<1>1. ASSUME NEW i \in 1..Slots
      PROVE  /\ Abandon(cs, ops)[i] \in Calls \cup {None}
             /\ cs[i] = None \/ cs[i].op \notin ops => Abandon(cs, ops)[i] = cs[i]
             /\ cs[i] # None /\ cs[i].op \in ops => Dropped(cs[i], Abandon(cs, ops)[i])
  <2>1. cs[i] \in Calls => [cs[i] EXCEPT !.mine = FALSE] \in Calls
    BY DEF Calls
  <2> QED
    BY <2>1 DEF Abandon, Dropped
<1>2. Abandon(cs, ops) = [i \in 1..Slots |-> Abandon(cs, ops)[i]]
  BY DEF Abandon
<1> QED
  BY <1>1, <1>2

\* The requests keep their shape.
LEMMA SentTyped ==
  ASSUME CallsTyped, NEW gone, NEW ops, Sent(gone, ops)
  PROVE  CallsTyped'
<1> SUFFICES ASSUME NEW i \in 1..Slots, calls'[i] # None PROVE Shaped(calls'[i])
  BY DEF CallsTyped, Held, Sent
<1>1. calls[i] # None => Shaped(calls[i]) /\ calls[i] \in Calls
  BY DEF CallsTyped, Held
<1>2. CASE calls'[i] = calls[i]
  BY <1>1, <1>2
<1>3. CASE Fresh(calls'[i])
  BY <1>3 DEF Fresh
<1>4. CASE calls[i] # None /\ calls[i].op \in Writes /\ calls'[i] = [calls[i] EXCEPT !.mine = FALSE]
  <2>1. /\ calls'[i].op = calls[i].op /\ calls'[i].on = calls[i].on
    BY <1>1, <1>4 DEF Calls
  <2> QED
    BY <1>1, <1>4, <2>1 DEF Shaped
<1> QED
  BY <1>2, <1>3, <1>4 DEF Sent, Dropped

\* A request of the page is added, once some are abandoned.
LEMMA SendsOne ==
  ASSUME CallsTyped, NEW c, Fresh(c), RoomIn(calls), calls' = Add(calls, c)
  PROVE  /\ Sent({}, {c.op})
         /\ \E j \in 1..Slots :
              /\ calls[j] = None /\ calls'[j] = c
              /\ \A i \in 1..Slots : i = j \/ calls'[i] = calls[i]
<1>1. calls \in [1..Slots -> Calls \cup {None}] /\ c \in Calls
  BY DEF CallsTyped, Fresh
<1>2. calls' \in [1..Slots -> Calls \cup {None}]
  BY <1>1, AddIs
<1>a. PICK j \in 1..Slots :
        /\ calls[j] = None /\ Add(calls, c)[j] = c
        /\ \A i \in 1..Slots \ {j} : Add(calls, c)[i] = calls[i]
  <2> PICK cs : cs = calls
    OBVIOUS
  <2>1. cs \in [1..Slots -> Calls \cup {None}] /\ c \in Calls \cup {None} /\ RoomIn(cs)
    BY <1>1
  <2> QED
    BY <2>1, AddIs
<1>3. /\ calls[j] = None /\ calls'[j] = c
      /\ \A i \in 1..Slots \ {j} : calls'[i] = calls[i]
  BY <1>a
<1>4. Fresh(calls'[j]) /\ calls'[j].op \in {c.op}
  BY <1>3
<1>5. ASSUME NEW i \in 1..Slots
      PROVE  \/ calls'[i] = calls[i]
             \/ /\ calls[i] = None \/ calls[i].op \in {}
                /\ Dropped(calls[i], calls'[i]) \/ (Fresh(calls'[i]) /\ calls'[i].op \in {c.op})
  BY <1>3, <1>4
<1>6. Sent({}, {c.op})
  BY <1>2, <1>5 DEF Sent
<1>7. \A i \in 1..Slots : i = j \/ calls'[i] = calls[i]
  BY <1>3
<1> QED
  BY <1>3, <1>6, <1>7

LEMMA SlotChanges ==
  ASSUME CallsTyped, NEW i \in 1..Slots, calls[i] # None, NEW gone, calls[i].op \in gone,
         NEW ops, NEW d, d = None \/ Dropped(calls[i], d) \/ (Fresh(d) /\ d.op \in ops),
         calls' = [calls EXCEPT ![i] = d]
  PROVE  Sent(gone, ops)
<1>1. calls \in [1..Slots -> Calls \cup {None}] /\ calls[i] \in Calls
  BY DEF CallsTyped
<1>2. [calls[i] EXCEPT !.mine = FALSE] \in Calls
  BY <1>1 DEF Calls
<1>3. d \in Calls \cup {None}
  BY <1>2 DEF Fresh, Dropped
<1>4. calls' \in [1..Slots -> Calls \cup {None}] /\ calls'[i] = d
      /\ \A j \in 1..Slots : j = i \/ calls'[j] = calls[j]
  BY <1>1, <1>3
<1>5. Dropped(calls[i], calls'[i]) \/ (Fresh(calls'[i]) /\ calls'[i].op \in ops)
  BY <1>4 DEF Dropped
<1> QED
  BY <1>4, <1>5 DEF Sent

LEMMA ClosedSlot ==
  ASSUME CallsTyped, NEW i \in 1..Slots, calls[i] # None, NEW gone, calls[i].op \in gone, Closed(i)
  PROVE  Sent(gone, {})
<1>1. PICK d : d = IF calls[i].op \in Writes /\ calls[i].stage = "sent"
                     THEN [calls[i] EXCEPT !.mine = FALSE] ELSE None
  OBVIOUS
<1>2. Dropped(calls[i], d)
  BY <1>1 DEF Dropped
<1>3. calls' = [calls EXCEPT ![i] = d]
  BY <1>1 DEF Closed
<1> QED
  BY <1>2, <1>3, SlotChanges
-----------------------------------------------------------------------------
(* What each step does to the requests, and that it keeps the types.       *)

TaskStates == [status: Tasks \cup {None}, for: Tasks \cup {None},
               submitting: BOOLEAN, misread: BOOLEAN]
ForumStates == [key: Forums \cup {None}, topics: Forums \cup {None}, error: BOOLEAN,
                disc: Forums \cup {None}, sending: BOOLEAN]
PostsStates == [loaded: BOOLEAN, error: BOOLEAN, sending: BOOLEAN]
FileStates == [key: Files \cup {None}, live: BOOLEAN, error: BOOLEAN]
ExamStates == [list: BOOLEAN, open: Exams \cup {None}, used: Nat, loading: BOOLEAN,
               confirm: BOOLEAN, submitting: BOOLEAN, result: BOOLEAN, finished: BOOLEAN]

PageTyped ==
  /\ course \in Courses /\ page \in {"loading", "ready", "error"}
  /\ active \in Entries \cup {None} /\ html \in Pages \cup {None}
  /\ done \subseteq Modules /\ marking \in Modules \cup {None}
StoredTyped ==
  /\ progress \subseteq Modules
  /\ wrote \in [Written -> Nat] /\ pressed \in [Written -> Nat]
  /\ crossed \in BOOLEAN /\ steps \in 0..MaxSteps

\* The parts of TypeOK that are not about the requests.
RestTyped ==
  /\ PageTyped /\ StoredTyped /\ task \in TaskStates /\ forum \in ForumStates
  /\ posts \in PostsStates /\ file \in FileStates /\ exam \in ExamStates

LEMMA TypeParts ==
  /\ TypeInv = (RestTyped /\ CallsTyped)
  /\ TypeInv' = (RestTyped' /\ CallsTyped')
BY DEF TypeInv, TypeOK, RestTyped, CallsTyped, PageTyped, StoredTyped, TaskStates,
     ForumStates, PostsStates, FileStates, ExamStates

LEMMA StepTyped ==
  ASSUME RestTyped, Step, UNCHANGED <<server, pressed, crossed>>
  PROVE  StoredTyped'
BY BoundsAssumption DEF RestTyped, StoredTyped, Step, server

LEMMA CrossedTyped ==
  ASSUME RestTyped, steps < MaxSteps, steps' = steps + 1, crossed' \in BOOLEAN,
         UNCHANGED <<server, pressed>>
  PROVE  StoredTyped'
<1>1. steps' \in 0..MaxSteps
  BY BoundsAssumption DEF RestTyped, StoredTyped
<1>2. progress' \subseteq Modules /\ wrote' \in [Written -> Nat] /\ pressed' \in [Written -> Nat]
  BY DEF RestTyped, StoredTyped, server
<1> QED
  BY <1>1, <1>2 DEF StoredTyped

LEMMA PressTyped ==
  ASSUME RestTyped, Step, NEW w \in Written, Presses(w), UNCHANGED <<server, crossed>>
  PROVE  StoredTyped'
BY BoundsAssumption DEF RestTyped, StoredTyped, Step, Presses, server

LEMMA QuietTyped ==
  ASSUME RestTyped, Quiet
  PROVE  StoredTyped'
BY DEF RestTyped, StoredTyped, Quiet, server

LEMMA PageKept ==
  ASSUME RestTyped, UNCHANGED <<course, shown>>
  PROVE  PageTyped'
BY DEF RestTyped, PageTyped, shown

\* The buttons that only send a request.
LEMMA MarkSends ==
  ASSUME TypeInv, MarkAsCompleted
  PROVE  RestTyped' /\ Sent({}, {"mark"})
<1>1. active \in Modules
  BY DEF MarkAsCompleted, IsManualModule, Modules
<1>2. Fresh(Call("mark", active)) /\ Call("mark", active).op = "mark"
  BY <1>1, FreshOf DEF Call, TaskOps, ForumOps, PostOps
<1>3. Sent({}, {"mark"})
  BY <1>2, TypeParts, SendsOne DEF MarkAsCompleted
<1>4. StoredTyped'
  BY TypeParts, StepTyped DEF MarkAsCompleted
<1>5. PageTyped'
  BY <1>1, TypeParts DEF MarkAsCompleted, Step, RestTyped, PageTyped
<1> QED
  BY <1>3, <1>4, <1>5, TypeParts DEF RestTyped, MarkAsCompleted, views

LEMMA SubmitSends ==
  ASSUME TypeInv, SubmitTask
  PROVE  RestTyped' /\ Sent({}, {"submit"}) /\ active \in Tasks
<1>1. active \in Tasks /\ <<"submit", active>> \in Written
  BY DEF SubmitTask, StatusShown, Written
<1>2. Fresh(Call("submit", active)) /\ Call("submit", active).op = "submit"
  BY <1>1, FreshOf DEF Call, TaskOps, ForumOps, PostOps
<1>3. Sent({}, {"submit"})
  BY <1>2, TypeParts, SendsOne DEF SubmitTask
<1>4. StoredTyped'
  BY <1>1, TypeParts, PressTyped DEF SubmitTask
<1>5. task' \in TaskStates
  BY TypeParts DEF SubmitTask, RestTyped, TaskStates
<1> QED
  BY <1>1, <1>3, <1>4, <1>5, TypeParts, PageKept DEF RestTyped, SubmitTask
LEMMA RetryTopicsSends ==
  ASSUME TypeInv, RetryTopics
  PROVE  RestTyped' /\ Sent({}, {"againTopics"})
<1>1. active \in Forums
  BY DEF RetryTopics
<1>2. Fresh(Call("againTopics", active)) /\ Call("againTopics", active).op = "againTopics"
  BY <1>1, FreshOf DEF Call, TaskOps, ForumOps, PostOps
<1>3. Sent({}, {"againTopics"})
  BY <1>2, TypeParts, SendsOne DEF RetryTopics
<1>4. StoredTyped'
  BY TypeParts, StepTyped DEF RetryTopics
<1> QED
  BY <1>3, <1>4, TypeParts, PageKept DEF RestTyped, RetryTopics, views

LEMMA CreateTopicSends ==
  ASSUME TypeInv, CreateTopic
  PROVE  RestTyped' /\ Sent({}, {"topic"}) /\ active \in Forums
<1>1. active \in Forums /\ <<"topic", active>> \in Written
  BY DEF CreateTopic, TopicsShown, Written
<1>2. Fresh(Call("topic", active)) /\ Call("topic", active).op = "topic"
  BY <1>1, FreshOf DEF Call, TaskOps, ForumOps, PostOps
<1>3. Sent({}, {"topic"})
  BY <1>2, TypeParts, SendsOne DEF CreateTopic
<1>4. StoredTyped'
  BY <1>1, TypeParts, PressTyped DEF CreateTopic
<1>5. forum' \in ForumStates
  BY TypeParts DEF CreateTopic, RestTyped, ForumStates
<1> QED
  BY <1>1, <1>3, <1>4, <1>5, TypeParts, PageKept DEF RestTyped, CreateTopic

LEMMA OpenDiscussionSends ==
  ASSUME TypeInv, ForumInv, OpenDiscussion
  PROVE  RestTyped' /\ Sent({}, {"posts"})
<1>1. active \in Forums /\ forum.topics = active
  BY NoneAssumption DEF OpenDiscussion, TopicsShown, ForumInv, Entries, Modules
<1>2. Fresh(Call("posts", active)) /\ Call("posts", active).op = "posts"
  BY <1>1, FreshOf DEF Call, TaskOps, ForumOps, PostOps
<1>3. Sent({}, {"posts"})
  BY <1>1, <1>2, TypeParts, SendsOne DEF OpenDiscussion
<1>4. StoredTyped'
  BY TypeParts, StepTyped DEF OpenDiscussion
<1>5. forum' \in ForumStates
  BY <1>1, TypeParts DEF OpenDiscussion, RestTyped, ForumStates
<1> QED
  BY <1>3, <1>4, <1>5, TypeParts, PageKept DEF RestTyped, OpenDiscussion

LEMMA BackToTopicsSends ==
  ASSUME TypeInv, BackToTopics
  PROVE  RestTyped' /\ Sent(PostOps, {})
<1>1. Sent(PostOps, {})
  <2>1. calls \in [1..Slots -> Calls \cup {None}]
    BY TypeParts DEF CallsTyped
  <2> QED
    BY <2>1, AbandonIs DEF BackToTopics, Sent
<1>2. StoredTyped'
  BY TypeParts, StepTyped DEF BackToTopics
<1>3. forum' \in ForumStates
  BY TypeParts DEF BackToTopics, RestTyped, ForumStates
<1>4. posts' \in PostsStates
  BY DEF BackToTopics, PostsInit, PostsStates
<1> QED
  BY <1>1, <1>2, <1>3, <1>4, TypeParts, PageKept DEF RestTyped, BackToTopics

LEMMA RetryPostsSends ==
  ASSUME TypeInv, RetryPosts
  PROVE  RestTyped' /\ Sent({}, {"againPosts"})
<1>1. forum.disc \in Forums
  BY TypeParts DEF RetryPosts, RestTyped, ForumStates
<1>2. Fresh(Call("againPosts", forum.disc)) /\ Call("againPosts", forum.disc).op = "againPosts"
  BY <1>1, FreshOf DEF Call, TaskOps, ForumOps, PostOps
<1>3. Sent({}, {"againPosts"})
  BY <1>2, TypeParts, SendsOne DEF RetryPosts
<1>4. StoredTyped'
  BY TypeParts, StepTyped DEF RetryPosts
<1> QED
  BY <1>3, <1>4, TypeParts, PageKept DEF RestTyped, RetryPosts, views

LEMMA ReplySends ==
  ASSUME TypeInv, Reply
  PROVE  RestTyped' /\ Sent({}, {"reply"}) /\ forum.disc \in Forums
<1>1. forum.disc \in Forums /\ <<"reply", forum.disc>> \in Written
  BY TypeParts DEF Reply, PostsShown, RestTyped, ForumStates, Written
<1>2. Fresh(Call("reply", forum.disc)) /\ Call("reply", forum.disc).op = "reply"
  BY <1>1, FreshOf DEF Call, TaskOps, ForumOps, PostOps
<1>3. Sent({}, {"reply"})
  BY <1>2, TypeParts, SendsOne DEF Reply
<1>4. StoredTyped'
  BY <1>1, TypeParts, PressTyped DEF Reply
<1>5. posts' \in PostsStates
  BY TypeParts DEF Reply, RestTyped, PostsStates
<1> QED
  BY <1>1, <1>3, <1>4, <1>5, TypeParts, PageKept DEF RestTyped, Reply
LEMMA ExamUnsent ==
  ASSUME TypeInv, Step, UNCHANGED <<course, calls, server, pressed, crossed>>,
         NEW e \in ExamStates, OnExam(e)
  PROVE  RestTyped' /\ Sent({}, {})
<1>1. StoredTyped'
  BY TypeParts, StepTyped
<1>2. Sent({}, {})
  BY TypeParts DEF Sent, CallsTyped
<1> QED
  BY <1>1, <1>2, TypeParts, PageKept DEF RestTyped, OnExam

LEMMA ExamButtons ==
  ASSUME TypeInv, FinishExam \/ ReviewAnswers \/ BackToStart
  PROVE  RestTyped' /\ Sent({}, {})
<1>1. exam \in ExamStates
  BY TypeParts DEF RestTyped
<1>2. /\ [exam EXCEPT !.confirm = TRUE, !.finished = TRUE] \in ExamStates
      /\ [exam EXCEPT !.confirm = FALSE] \in ExamStates
      /\ [exam EXCEPT !.open = None, !.result = FALSE] \in ExamStates
  BY <1>1 DEF ExamStates
<1> QED
  BY <1>2, ExamUnsent DEF FinishExam, ReviewAnswers, BackToStart

LEMMA FetchExamSends ==
  ASSUME TypeInv, FetchExam
  PROVE  RestTyped' /\ Sent({}, {"exams"})
<1>1. Fresh(Call("exams", None)) /\ Call("exams", None).op = "exams"
  BY FreshOf DEF Call
<1>2. Sent({}, {"exams"})
  BY <1>1, TypeParts, SendsOne DEF FetchExam, Sends
<1>3. StoredTyped'
  BY TypeParts, StepTyped DEF FetchExam
<1>4. exam' \in ExamStates
  BY TypeParts DEF FetchExam, OnExam, RestTyped, ExamStates
<1> QED
  BY <1>2, <1>3, <1>4, TypeParts, PageKept DEF RestTyped, FetchExam, OnExam

LEMMA SelectExamSends ==
  ASSUME TypeInv, NEW e \in course.exams, SelectExam(e)
  PROVE  RestTyped' /\ Sent({}, {"exam"})
<1>0. e \in Exams
  BY CoursesAssumption, TypeParts DEF RestTyped, PageTyped
<1>1. Fresh(Call("exam", e)) /\ Call("exam", e).op = "exam"
  BY <1>0, FreshOf DEF Call
<1>2. Sent({}, {"exam"})
  BY <1>1, TypeParts, SendsOne DEF SelectExam, Sends
<1>3. StoredTyped'
  BY TypeParts, StepTyped DEF SelectExam
<1>4. exam' \in ExamStates
  BY TypeParts DEF SelectExam, OnExam, RestTyped, ExamStates
<1> QED
  BY <1>2, <1>3, <1>4, TypeParts, PageKept DEF RestTyped, SelectExam, OnExam

LEMMA SubmitExamSends ==
  ASSUME TypeInv, SubmitExam
  PROVE  RestTyped' /\ Sent({}, {"attempt"}) /\ exam.open \in Exams
<1>0. exam.open \in Exams
  BY TypeParts DEF SubmitExam, ExamScreen, RestTyped, ExamStates
<1>a. <<"attempt", exam.open>> \in Written /\ active \in Entries \cup {None}
  BY <1>0, TypeParts DEF Written, RestTyped, PageTyped
<1>1. /\ Fresh(CallBy("attempt", exam.open, active))
      /\ CallBy("attempt", exam.open, active).op = "attempt"
  BY <1>0, <1>a, FreshOf
<1>2. Sent({}, {"attempt"})
  BY <1>1, TypeParts, SendsOne DEF SubmitExam, Sends
<1>3. StoredTyped'
  BY <1>a, TypeParts, PressTyped DEF SubmitExam
<1>4. exam' \in ExamStates
  BY TypeParts DEF SubmitExam, OnExam, RestTyped, ExamStates
<1> QED
  BY <1>0, <1>2, <1>3, <1>4, TypeParts, PageKept DEF RestTyped, SubmitExam, OnExam

LEMMA InitsTyped ==
  /\ TaskInit \in TaskStates /\ ForumInit \in ForumStates /\ PostsInit \in PostsStates
  /\ FileInit \in FileStates /\ ExamInit \in ExamStates
BY DEF TaskInit, TaskStates, ForumInit, ForumStates, PostsInit, PostsStates,
       FileInit, FileStates, ExamInit, ExamStates

\* Some requests are abandoned, and one may be sent.
Left(cs, ops, left) ==
  /\ left \in [1..Slots -> Calls \cup {None}]
  /\ \A i \in 1..Slots :
       \/ left[i] = cs[i] /\ (cs[i] = None \/ cs[i].op \notin ops)
       \/ cs[i] # None /\ cs[i].op \in ops /\ Dropped(cs[i], left[i])

LEMMA AbandonLeaves ==
  ASSUME NEW cs \in [1..Slots -> Calls \cup {None}], NEW ops
  PROVE  Left(cs, ops, Abandon(cs, ops))
<1>1. Abandon(cs, ops) \in [1..Slots -> Calls \cup {None}]
  BY AbandonIs
<1>2. ASSUME NEW i \in 1..Slots
      PROVE  \/ Abandon(cs, ops)[i] = cs[i] /\ (cs[i] = None \/ cs[i].op \notin ops)
             \/ cs[i] # None /\ cs[i].op \in ops /\ Dropped(cs[i], Abandon(cs, ops)[i])
  <2>1. /\ cs[i] = None \/ cs[i].op \notin ops => Abandon(cs, ops)[i] = cs[i]
        /\ cs[i] # None /\ cs[i].op \in ops => Dropped(cs[i], Abandon(cs, ops)[i])
    BY AbandonIs
  <2> QED
    BY <2>1
<1> QED
  BY <1>1, <1>2 DEF Left

LEMMA AbandonTwice ==
  ASSUME NEW cs \in [1..Slots -> Calls \cup {None}], NEW o1, NEW o2
  PROVE  Left(cs, o1 \cup o2, Abandon(Abandon(cs, o1), o2))
<1>1. PICK l1 : l1 = Abandon(cs, o1)
  OBVIOUS
<1>2. PICK l2 : l2 = Abandon(l1, o2)
  OBVIOUS
<1>3. Left(cs, o1, l1)
  BY <1>1, AbandonLeaves
<1>4. Left(l1, o2, l2)
  BY <1>2, <1>3, AbandonLeaves DEF Left
<1>5. ASSUME NEW i \in 1..Slots
      PROVE  \/ l2[i] = cs[i] /\ (cs[i] = None \/ cs[i].op \notin o1 \cup o2)
             \/ cs[i] # None /\ cs[i].op \in o1 \cup o2 /\ Dropped(cs[i], l2[i])
  <2>1. CASE l1[i] = cs[i] /\ (cs[i] = None \/ cs[i].op \notin o1)
    BY <1>4, <2>1 DEF Left
  <2>2. CASE cs[i] # None /\ cs[i].op \in o1 /\ Dropped(cs[i], l1[i])
    <3>1. CASE l1[i] = None
      BY <1>4, <2>2, <3>1 DEF Left, Dropped
    <3>2. CASE /\ cs[i].op \in Writes /\ cs[i].stage = "sent"
               /\ l1[i] = [cs[i] EXCEPT !.mine = FALSE] /\ l1[i] # None
      <4>1. cs[i] \in Calls
        BY <2>2
      <4>2. [l1[i] EXCEPT !.mine = FALSE] = l1[i]
        BY <3>2, <4>1 DEF Calls
      <4>3. l2[i] = l1[i] \/ l2[i] = None
        BY <1>4, <4>2 DEF Left, Dropped
      <4> QED
        BY <2>2, <3>2, <4>3 DEF Dropped
    <3> QED
      BY <2>2, <3>1, <3>2 DEF Dropped
  <2> QED
    BY <1>3, <2>1, <2>2 DEF Left
<1> QED
  BY <1>1, <1>2, <1>4, <1>5 DEF Left

LEMMA SendsAfter ==
  ASSUME CallsTyped, NEW gone, NEW left, Left(calls, gone, left),
         NEW ops, NEW c, c = None \/ (Fresh(c) /\ c.op \in ops), RoomIn(left),
         calls' = Add(left, c)
  PROVE  /\ Sent(gone, ops)
         /\ \E j \in 1..Slots :
              /\ calls'[j] = c
              /\ \A i \in 1..Slots : i = j \/ calls'[i] = left[i]
<1>1. left \in [1..Slots -> Calls \cup {None}] /\ c \in Calls \cup {None}
  BY DEF Left, Fresh
<1>2. /\ Add(left, c) \in [1..Slots -> Calls \cup {None}]
      /\ \E j \in 1..Slots :
           /\ left[j] = None /\ Add(left, c)[j] = c
           /\ \A i \in 1..Slots \ {j} : Add(left, c)[i] = left[i]
  BY <1>1, AddIs
<1>3. PICK j \in 1..Slots :
        /\ left[j] = None /\ calls'[j] = c
        /\ \A i \in 1..Slots \ {j} : calls'[i] = left[i]
  BY <1>2
<1>4. ASSUME NEW i \in 1..Slots
      PROVE  \/ calls'[i] = calls[i]
             \/ /\ calls[i] = None \/ calls[i].op \in gone
                /\ Dropped(calls[i], calls'[i]) \/ (Fresh(calls'[i]) /\ calls'[i].op \in ops)
  <2>1. \/ left[i] = calls[i] /\ (calls[i] = None \/ calls[i].op \notin gone)
        \/ calls[i] # None /\ calls[i].op \in gone /\ Dropped(calls[i], left[i])
    BY DEF Left
  <2>2. CASE i # j
    BY <1>3, <2>1, <2>2
  <2>3. CASE i = j
    <3>1. calls[i] = None \/ calls[i].op \in gone
      BY <1>3, <2>1, <2>3
    <3>2. Dropped(calls[i], calls'[i]) \/ (Fresh(calls'[i]) /\ calls'[i].op \in ops)
      BY <1>3, <2>3 DEF Dropped
    <3> QED
      BY <3>1, <3>2
  <2> QED
    BY <2>2, <2>3
<1>5. calls' \in [1..Slots -> Calls \cup {None}]
  BY <1>2
<1>6. Sent(gone, ops)
  BY <1>4, <1>5 DEF Sent
<1>7. \A i \in 1..Slots : i = j \/ calls'[i] = left[i]
  BY <1>3
<1> QED
  BY <1>3, <1>6, <1>7

LEMMA ReloadSends ==
  ASSUME TypeInv, Reload
  PROVE  /\ RestTyped'
         /\ Sent(Ops, {"contents"})
         /\ \E j \in 1..Slots :
              /\ calls'[j] = Call("contents", None)
              /\ \A i \in 1..Slots : i = j \/ Dropped(calls[i], calls'[i])
<1>1. PICK left : left = Abandon(calls, Ops)
  OBVIOUS
<1>2. PICK c : c = Call("contents", None)
  OBVIOUS
<1>3. Fresh(c) /\ c.op \in {"contents"}
  BY <1>2, FreshOf DEF Call
<1>4. RoomIn(left) /\ calls' = Add(left, c)
  BY <1>1, <1>2 DEF Reload
<1>5. Left(calls, Ops, left)
  BY <1>1, TypeParts, AbandonLeaves DEF CallsTyped
<1>6. \A i \in 1..Slots : Dropped(calls[i], left[i])
  <2>1. \A i \in 1..Slots : calls[i] # None => calls[i].op \in Ops
    BY TypeParts DEF CallsTyped, Calls
  <2> QED
    BY <1>5, <2>1 DEF Left, Dropped
<1>7. /\ Sent(Ops, {"contents"})
      /\ \E j \in 1..Slots : calls'[j] = c /\ \A i \in 1..Slots : i = j \/ calls'[i] = left[i]
  <2>1. CallsTyped
    BY TypeParts
  <2>2. c = None \/ (Fresh(c) /\ c.op \in {"contents"})
    BY <1>3
  <2> QED
    BY <1>4, <1>5, <2>1, <2>2, SendsAfter
<1>8. \E j \in 1..Slots :
        /\ calls'[j] = Call("contents", None)
        /\ \A i \in 1..Slots : i = j \/ Dropped(calls[i], calls'[i])
  <2>1. PICK j \in 1..Slots : calls'[j] = c /\ \A i \in 1..Slots : i = j \/ calls'[i] = left[i]
    BY <1>7
  <2>2. ASSUME NEW i \in 1..Slots PROVE i = j \/ Dropped(calls[i], calls'[i])
    <3>1. Dropped(calls[i], left[i])
      BY <1>6
    <3> QED
      BY <2>1, <3>1
  <2> QED
    BY <1>2, <2>1, <2>2
<1>a. StoredTyped'
  <2>1. crossed' \in BOOLEAN /\ UNCHANGED <<server, pressed>> /\ steps' = steps + 1 /\ steps < MaxSteps
    BY DEF Reload
  <2> QED
    BY <2>1, TypeParts, CrossedTyped
<1>9. PageTyped' /\ StoredTyped'
  BY <1>a, TypeParts DEF Reload, RestTyped, PageTyped
<1>10. RestTyped'
  BY <1>9, InitsTyped DEF RestTyped, Reload
<1> QED
  BY <1>7, <1>8, <1>10

\* The request of the effect that runs when a module is given to a component.
LEMMA EffectIs ==
  ASSUME NEW m \in Entries \cup {None}
  PROVE  /\ Effect(m) = None \/
              (Fresh(Effect(m)) /\ Effect(m).op \in EffectReads /\ Effect(m).on = m)
         /\ m \in Files => Effect(m) # None /\ Effect(m).op = "file"
         /\ Effect(m) # None /\ Effect(m).op = "file" => m \in Files
<1>1. CASE m \in Tasks
  <2>1. Effect(m) = Call("status", m) /\ m \notin Files
    BY <1>1, KindsAssumption DEF Effect, TaskEffect
  <2>2. Fresh(Call("status", m)) /\ Call("status", m).op = "status" /\ Call("status", m).on = m
    BY <1>1, FreshOf DEF Call, TaskOps
  <2> QED
    BY <2>1, <2>2 DEF EffectReads
<1>2. CASE m \in Forums
  <2>1. Effect(m) = Call("topics", m) /\ m \notin Files
    BY <1>2, KindsAssumption DEF Effect, ForumEffect
  <2>2. Fresh(Call("topics", m)) /\ Call("topics", m).op = "topics" /\ Call("topics", m).on = m
    BY <1>2, FreshOf DEF Call, ForumOps
  <2> QED
    BY <2>1, <2>2 DEF EffectReads
<1>3. CASE m \in Pages
  <2>1. Effect(m) = Call("html", m) /\ m \notin Files
    BY <1>3, KindsAssumption DEF Effect, HtmlEffect
  <2>2. Fresh(Call("html", m)) /\ Call("html", m).op = "html" /\ Call("html", m).on = m
    BY <1>3, FreshOf DEF Call
  <2> QED
    BY <2>1, <2>2 DEF EffectReads
<1>4. CASE m \in Files
  <2>1. Effect(m) = Call("file", m)
    BY <1>4, KindsAssumption DEF Effect, FileEffect
  <2>2. /\ Fresh(Call("file", m)) /\ Call("file", m).op = "file" /\ Call("file", m).on = m
        /\ Call("file", m) # None
    BY <1>4, FreshOf, NoneAssumption DEF Call, Fresh
  <2> QED
    BY <1>4, <2>1, <2>2 DEF EffectReads
<1>5. CASE m \notin Tasks \cup Forums \cup Pages \cup Files
  BY <1>5 DEF Effect
<1> QED
  BY <1>1, <1>2, <1>3, <1>4, <1>5
LEMMA OpenSends ==
  ASSUME TypeInv, NEW m \in Outline, OpenModule(m)
  PROVE  /\ RestTyped' /\ m \in Entries
         /\ Sent(ViewOps \cup EffectReads, EffectReads)
         /\ \E j \in 1..Slots :
              /\ calls'[j] = Effect(m)
              /\ \A i \in 1..Slots :
                   \/ i = j \/ Dropped(calls[i], calls'[i])
                   \/ /\ calls'[i] = calls[i] /\ calls[i].op \notin EffectReads
                      /\ Kind(m) = Kind(active) \/ calls[i].op \notin ViewOps
<1>1. m \in Entries
  BY CoursesAssumption, TypeParts DEF Outline, RestTyped, PageTyped, Entries
<1>2. PICK ops : ops = IF Kind(m) = Kind(active) THEN EffectReads ELSE ViewOps \cup EffectReads
  OBVIOUS
<1>3. PICK gone, kept :
        /\ gone \in {ops, ops \cup PostOps} /\ Left(calls, gone, kept)
        /\ RoomIn(kept) /\ calls' = Add(kept, Effect(m))
  <2>1. calls \in [1..Slots -> Calls \cup {None}]
    BY TypeParts DEF CallsTyped
  <2>2. Left(calls, ops, Abandon(calls, ops))
    BY <2>1, AbandonLeaves
  <2>3. Left(calls, ops \cup PostOps, Abandon(Abandon(calls, ops), PostOps))
    BY <2>1, AbandonTwice
  <2> QED
    BY <1>2, <2>2, <2>3 DEF OpenModule
<1>4. gone \subseteq ViewOps \cup EffectReads /\ EffectReads \subseteq gone
      /\ (Kind(m) # Kind(active) => ViewOps \subseteq gone)
  BY <1>2, <1>3 DEF ViewOps, ForumOps
<1>5. PICK j \in 1..Slots :
        /\ Sent(gone, EffectReads) /\ calls'[j] = Effect(m)
        /\ \A i \in 1..Slots : i = j \/ calls'[i] = kept[i]
  <2>1. PICK c : c = Effect(m)
    OBVIOUS
  <2>2. c = None \/ (Fresh(c) /\ c.op \in EffectReads)
    BY <1>1, <2>1, EffectIs
  <2>3. CallsTyped
    BY TypeParts
  <2>4. Left(calls, gone, kept) /\ RoomIn(kept) /\ calls' = Add(kept, c)
    BY <1>3, <2>1
  <2>5. /\ Sent(gone, EffectReads)
        /\ \E j \in 1..Slots : calls'[j] = c /\ \A i \in 1..Slots : i = j \/ calls'[i] = kept[i]
    BY <2>2, <2>3, <2>4, SendsAfter
  <2> QED
    BY <2>1, <2>5
<1>6. Sent(ViewOps \cup EffectReads, EffectReads)
  BY <1>4, <1>5 DEF Sent
<1>7. ASSUME NEW i \in 1..Slots
      PROVE  \/ i = j \/ Dropped(calls[i], calls'[i])
             \/ /\ calls'[i] = calls[i] /\ calls[i].op \notin EffectReads
                /\ Kind(m) = Kind(active) \/ calls[i].op \notin ViewOps
  BY <1>3, <1>4, <1>5 DEF Left, Dropped
<1>8. StoredTyped'
  <2>1. UNCHANGED <<server, pressed>> /\ steps' = steps + 1 /\ steps < MaxSteps
    BY DEF OpenModule, Step
  <2>2. crossed' \in BOOLEAN
    <3>1. PICK b \in BOOLEAN :
            b = (Kind(m) = Kind(active) /\ (crossed \/ InFlight({"submit", "restatus", "topic",
                                                                "retopics", "againTopics"})))
      OBVIOUS
    <3>2. crossed' = b
      BY <3>1 DEF OpenModule
    <3> QED
      BY <3>2
  <2> QED
    BY <2>1, <2>2, TypeParts, CrossedTyped
<1>9. PageTyped'
  BY <1>1, TypeParts DEF OpenModule, Step, RestTyped, PageTyped
<1>10. /\ task' \in TaskStates /\ forum' \in ForumStates /\ posts' \in PostsStates
       /\ file' \in FileStates /\ exam' \in ExamStates
  <2>1. task' = task \/ task' = TaskInit
    BY DEF OpenModule
  <2>2. posts' = posts \/ posts' = PostsInit
    BY DEF OpenModule
  <2>3. exam' = exam \/ exam' = ExamInit
    BY DEF OpenModule
  <2>4. file' = [file EXCEPT !.live = FALSE] \/ file' = FileInit
    BY DEF OpenModule
  <2>5. forum' = Settle(forum, m) \/ forum' = ForumInit
    BY DEF OpenModule
  <2>6. Settle(forum, m) \in ForumStates
    BY TypeParts DEF RestTyped, ForumStates, Settle
  <2>7. [file EXCEPT !.live = FALSE] \in FileStates
    BY TypeParts DEF RestTyped, FileStates
  <2> QED
    BY <2>1, <2>2, <2>3, <2>4, <2>5, <2>6, <2>7, InitsTyped, TypeParts DEF RestTyped
<1> QED
  BY <1>1, <1>5, <1>6, <1>7, <1>8, <1>9, <1>10 DEF RestTyped
\* The answers.
LEMMA Heard ==
  ASSUME CallsTyped, NEW i \in 1..Slots, NEW ops, Answers(i, ops) \/ Fails(i, ops)
  PROVE  /\ calls[i] # None /\ calls[i].mine /\ calls[i].op \in ops
         /\ calls[i] \in Calls /\ Shaped(calls[i])
BY DEF CallsTyped, Held, Answers, Fails

LEMMA Forgets ==
  ASSUME CallsTyped, NEW i \in 1..Slots, NEW ops, Answers(i, ops) \/ Fails(i, ops), Then(i, None)
  PROVE  Sent(ops, {})
<1>1. calls[i] # None /\ calls[i].op \in ops
  BY Heard
<1> QED
  BY <1>1, SlotChanges DEF Then

LEMMA Closes ==
  ASSUME CallsTyped, NEW i \in 1..Slots, NEW ops, Answers(i, ops) \/ Fails(i, ops), Closed(i)
  PROVE  Sent(ops, {})
<1>1. calls[i] # None /\ calls[i].op \in ops
  BY Heard
<1> QED
  BY <1>1, ClosedSlot

LEMMA Follows ==
  ASSUME CallsTyped, NEW i \in 1..Slots, NEW ops, Answers(i, ops) \/ Fails(i, ops),
         NEW new, NEW c, Fresh(c) /\ c.op \in new, Then(i, c)
  PROVE  Sent(ops, new)
<1>1. calls[i] # None /\ calls[i].op \in ops
  BY Heard
<1> QED
  BY <1>1, SlotChanges DEF Then

LEMMA SentMore ==
  ASSUME NEW gone, NEW ops, NEW more, Sent(gone, ops), ops \subseteq more
  PROVE  Sent(gone, more)
BY DEF Sent

LEMMA CourseReadSends ==
  ASSUME TypeInv, NEW i \in 1..Slots, CourseRead(i)
  PROVE  RestTyped' /\ Sent({"contents"}, EffectReads)
<1>1. course \in Courses /\ course.first \in Modules \cup {None}
  BY CoursesAssumption, TypeParts DEF RestTyped, PageTyped
<1>2. StoredTyped'
  BY TypeParts, QuietTyped DEF CourseRead
<1>3. course' = course
  BY DEF CourseRead, Quiet
<1>4. CASE Answers(i, {"contents"}) /\ page' = "ready" /\ done' = calls[i].marks
           /\ active' = course.first /\ Then(i, Effect(course.first))
  <2>1. calls[i] \in Calls /\ calls[i] # None /\ calls[i].op \in {"contents"}
    BY <1>4, TypeParts, Heard
  <2>2. PICK d : d = Effect(course.first)
    OBVIOUS
  <2>3. d = None \/ (Fresh(d) /\ d.op \in EffectReads)
    BY <1>1, <2>2, EffectIs DEF Entries
  <2>4. Sent({"contents"}, EffectReads)
    <3>1. d = None \/ Dropped(calls[i], d) \/ (Fresh(d) /\ d.op \in EffectReads)
      BY <2>3
    <3>2. calls' = [calls EXCEPT ![i] = d]
      BY <1>4, <2>2 DEF Then
    <3>3. CallsTyped
      BY TypeParts
    <3> QED
      BY <2>1, <3>1, <3>2, <3>3, SlotChanges
  <2>5. PageTyped'
    BY <1>1, <1>3, <1>4, <2>1, TypeParts DEF CourseRead, RestTyped, PageTyped, Calls, Entries
  <2> QED
    BY <1>2, <2>4, <2>5, TypeParts DEF CourseRead, RestTyped, views
<1>5. CASE Fails(i, {"contents"}) /\ page' = "error" /\ Closed(i) /\ UNCHANGED <<done, active>>
  <2>1. Sent({"contents"}, EffectReads)
    <3>1. Sent({"contents"}, {})
      BY <1>5, TypeParts, Closes
    <3> QED
      BY <3>1, SentMore
  <2>2. PageTyped'
    BY <1>3, <1>5, TypeParts DEF CourseRead, RestTyped, PageTyped
  <2> QED
    BY <1>2, <2>1, <2>2, TypeParts DEF CourseRead, RestTyped, views
<1> QED
  BY <1>4, <1>5 DEF CourseRead

LEMMA HtmlSends ==
  ASSUME TypeInv, NEW i \in 1..Slots, HtmlReady(i)
  PROVE  RestTyped' /\ Sent({"html"}, {})
<1>1. Answers(i, {"html"}) \/ Fails(i, {"html"})
  BY DEF HtmlReady
<1>2. calls[i].on \in Pages
  <2>1. calls[i].op \in {"html"} /\ Shaped(calls[i])
    BY <1>1, TypeParts, Heard
  <2> QED
    BY <2>1 DEF Shaped
<1>3. Sent({"html"}, {})
  BY <1>1, TypeParts, Forgets DEF HtmlReady
<1>4. StoredTyped' /\ PageTyped'
  BY <1>2, TypeParts, QuietTyped DEF HtmlReady, Quiet, RestTyped, PageTyped
<1> QED
  BY <1>3, <1>4, TypeParts DEF RestTyped, HtmlReady, views

LEMMA MarkedSends ==
  ASSUME TypeInv, NEW i \in 1..Slots, Marked(i)
  PROVE  RestTyped' /\ Sent({"mark"}, {})
<1>1. Answers(i, {"mark"}) \/ Fails(i, {"mark"})
  BY DEF Marked
<1>2. calls[i].on \in Modules
  <2>1. calls[i].op \in {"mark"} /\ Shaped(calls[i])
    BY <1>1, TypeParts, Heard
  <2> QED
    BY <2>1 DEF Shaped
<1>3. Sent({"mark"}, {})
  BY <1>1, TypeParts, Closes DEF Marked
<1>4. StoredTyped'
  BY TypeParts, QuietTyped DEF Marked
<1>5. PageTyped'
  <2>1. done' = done \cup {calls[i].on} \/ done' = done
    BY DEF Marked
  <2>2. done' \subseteq Modules
    BY <1>2, <2>1, TypeParts DEF RestTyped, PageTyped
  <2> QED
    BY <2>2, TypeParts DEF Marked, Quiet, RestTyped, PageTyped
<1> QED
  BY <1>3, <1>4, <1>5, TypeParts DEF RestTyped, Marked, views

LEMMA StatusSends ==
  ASSUME TypeInv, NEW i \in 1..Slots, StatusRead(i)
  PROVE  RestTyped' /\ Sent({"status", "restatus"}, {})
<1>1. Answers(i, {"status", "restatus"}) \/ Fails(i, {"status", "restatus"})
  BY DEF StatusRead
<1>2. calls[i].on \in Tasks
  BY <1>1, TypeParts, Heard DEF Shaped, TaskOps
<1>3. Sent({"status", "restatus"}, {})
  BY <1>1, TypeParts, Forgets DEF StatusRead
<1>4. StoredTyped'
  BY TypeParts, QuietTyped DEF StatusRead
<1>5. task' \in TaskStates
  <2>1. task \in TaskStates
    BY TypeParts DEF RestTyped
  <2>2. ASSUME NEW b \in BOOLEAN
        PROVE  /\ [task EXCEPT !.status = calls[i].on, !.for = calls[i].on, !.misread = FALSE,
                                !.submitting = b] \in TaskStates
               /\ [task EXCEPT !.for = calls[i].on, !.misread = TRUE, !.submitting = b] \in TaskStates
    BY <1>2, <2>1 DEF TaskStates
  <2>3. (task.submitting /\ calls[i].op # "restatus") \in BOOLEAN
    OBVIOUS
  <2> QED
    BY <2>2, <2>3 DEF StatusRead
<1> QED
  BY <1>3, <1>4, <1>5, TypeParts, PageKept DEF RestTyped, StatusRead, Quiet

LEMMA TaskSubmittedSends ==
  ASSUME TypeInv, NEW i \in 1..Slots, TaskSubmitted(i)
  PROVE  RestTyped' /\ Sent({"submit"}, {"restatus"})
<1>1. StoredTyped'
  BY TypeParts, QuietTyped DEF TaskSubmitted
<1>2. CASE Answers(i, {"submit"}) /\ Then(i, Call("restatus", calls[i].on)) /\ UNCHANGED task
  <2>1. calls[i].on \in Tasks
    BY <1>2, TypeParts, Heard DEF Shaped, TaskOps
  <2>2. Fresh(Call("restatus", calls[i].on)) /\ Call("restatus", calls[i].on).op \in {"restatus"}
    BY <2>1, FreshOf DEF Call, TaskOps
  <2>3. Sent({"submit"}, {"restatus"})
    BY <1>2, <2>2, TypeParts, Follows
  <2> QED
    BY <1>1, <1>2, <2>3, TypeParts, PageKept DEF RestTyped, TaskSubmitted, Quiet
<1>3. CASE Fails(i, {"submit"}) /\ Closed(i) /\ task' = [task EXCEPT !.submitting = FALSE]
  <2>1. Sent({"submit"}, {"restatus"})
    BY <1>3, TypeParts, Closes, SentMore
  <2>2. task' \in TaskStates
    BY <1>3, TypeParts DEF RestTyped, TaskStates
  <2> QED
    BY <1>1, <2>1, <2>2, TypeParts, PageKept DEF RestTyped, TaskSubmitted, Quiet
<1> QED
  BY <1>2, <1>3 DEF TaskSubmitted
LEMMA TopicsSends ==
  ASSUME TypeInv, NEW i \in 1..Slots, TopicsRead(i)
  PROVE  RestTyped' /\ Sent(ForumOps, {}) /\ \E f \in ForumStates : forum' = Settle(f, active)
<1> DEFINE ops == {"topics", "retopics", "againTopics"}
           free == [forum EXCEPT !.sending = @ /\ calls[i].op # "retopics"]
           good == [free EXCEPT !.topics = calls[i].on, !.error = FALSE, !.key = calls[i].on]
           bad == [free EXCEPT !.error = TRUE, !.key = calls[i].on]
           cs == [calls EXCEPT ![i] = None]
<1>0. calls \in [1..Slots -> Calls \cup {None}]
  BY TypeParts DEF CallsTyped
<1>1. Answers(i, ops) \/ Fails(i, ops)
  BY DEF TopicsRead
<1>2. calls[i].op \in ops /\ calls[i] # None /\ Shaped(calls[i]) /\ calls[i] \in Calls
  BY <1>1, TypeParts, Heard
<1>3. calls[i].on \in Forums
  BY <1>2 DEF Shaped, ForumOps
<1>4. free \in ForumStates
  <2>1. (forum.sending /\ calls[i].op # "retopics") \in BOOLEAN /\ forum \in ForumStates
    BY TypeParts DEF RestTyped
  <2> QED
    BY <2>1 DEF ForumStates
<1>5. good \in ForumStates /\ bad \in ForumStates
  BY <1>3, <1>4 DEF ForumStates
<1>6. PICK f \in ForumStates : Renders(f, cs)
  BY <1>5 DEF TopicsRead
<1>7. forum' = Settle(f, active) /\ Settle(f, active) \in ForumStates
  BY <1>6 DEF Renders, Settle, ForumStates
<1>8. posts' \in PostsStates
  BY <1>6, TypeParts, InitsTyped DEF Renders, RestTyped
<1>9. cs \in [1..Slots -> Calls \cup {None}] /\ cs[i] = None
      /\ \A j \in 1..Slots : j = i \/ cs[j] = calls[j]
  BY <1>0
<1>10. Left(cs, PostOps, calls') \/ calls' = cs
  <2>1. Left(cs, PostOps, Abandon(cs, PostOps))
    BY <1>9, AbandonLeaves
  <2> QED
    BY <1>6, <2>1 DEF Renders
<1> HIDE DEF cs, ops
<1>11. Sent(ForumOps, {})
  <2>1. calls' \in [1..Slots -> Calls \cup {None}]
    BY <1>9, <1>10 DEF Left
  <2>2. ASSUME NEW j \in 1..Slots
        PROVE  \/ calls'[j] = calls[j]
               \/ (calls[j] = None \/ calls[j].op \in ForumOps) /\ Dropped(calls[j], calls'[j])
    <3>1. \/ calls'[j] = cs[j]
          \/ cs[j] # None /\ cs[j].op \in PostOps /\ Dropped(cs[j], calls'[j])
      BY <1>10 DEF Left
    <3>2. CASE j = i
      <4>1. calls'[i] = None /\ calls[i].op \in ForumOps
        BY <1>2, <1>9, <3>1, <3>2 DEF ops, ForumOps
      <4> QED
        BY <3>2, <4>1 DEF Dropped
    <3>3. CASE j # i
      BY <1>9, <3>1, <3>3 DEF ForumOps
    <3> QED
      BY <3>2, <3>3
  <2> QED
    BY <2>1, <2>2 DEF Sent
<1>12. StoredTyped'
  BY TypeParts, QuietTyped DEF TopicsRead
<1>13. PageTyped' /\ UNCHANGED <<task, file, exam>>
  BY TypeParts, PageKept DEF TopicsRead, Quiet
<1> QED
  BY <1>7, <1>8, <1>11, <1>12, <1>13, TypeParts DEF RestTyped

LEMMA TopicCreatedSends ==
  ASSUME TypeInv, NEW i \in 1..Slots, TopicCreated(i)
  PROVE  RestTyped' /\ Sent({"topic"}, {"retopics"})
<1>1. StoredTyped'
  BY TypeParts, QuietTyped DEF TopicCreated
<1>2. CASE Answers(i, {"topic"}) /\ Then(i, Call("retopics", calls[i].on)) /\ UNCHANGED forum
  <2>1. calls[i].on \in Forums
    <3>1. calls[i].op \in {"topic"} /\ Shaped(calls[i])
      BY <1>2, TypeParts, Heard
    <3> QED
      BY <3>1 DEF Shaped, ForumOps
  <2>2. Fresh(Call("retopics", calls[i].on)) /\ Call("retopics", calls[i].on).op \in {"retopics"}
    BY <2>1, FreshOf DEF Call, ForumOps
  <2>3. Sent({"topic"}, {"retopics"})
    BY <1>2, <2>2, TypeParts, Follows
  <2> QED
    BY <1>1, <1>2, <2>3, TypeParts, PageKept DEF RestTyped, TopicCreated, Quiet
<1>3. CASE Fails(i, {"topic"}) /\ Closed(i) /\ forum' = [forum EXCEPT !.sending = FALSE]
  <2>1. Sent({"topic"}, {"retopics"})
    BY <1>3, TypeParts, Closes, SentMore
  <2>2. forum' \in ForumStates
    BY <1>3, TypeParts DEF RestTyped, ForumStates
  <2> QED
    BY <1>1, <2>1, <2>2, TypeParts, PageKept DEF RestTyped, TopicCreated, Quiet
<1> QED
  BY <1>2, <1>3 DEF TopicCreated

LEMMA PostsReadSends ==
  ASSUME TypeInv, NEW i \in 1..Slots, PostsRead(i)
  PROVE  RestTyped' /\ Sent(PostOps, {})
<1> DEFINE ops == {"posts", "reposts", "againPosts"}
<1>1. Answers(i, ops) \/ Fails(i, ops)
  BY DEF PostsRead
<1>2. calls[i] # None /\ calls[i].op \in ops
  BY <1>1, TypeParts, Heard
<1>3. Sent(PostOps, {})
  <2>1. calls[i].op \in PostOps
    BY <1>2 DEF PostOps
  <2>2. CallsTyped /\ calls' = [calls EXCEPT ![i] = None]
    BY TypeParts DEF PostsRead, Then
  <2> QED
    BY <1>2, <2>1, <2>2, SlotChanges
<1>4. StoredTyped'
  BY TypeParts, QuietTyped DEF PostsRead
<1>5. posts' \in PostsStates
  <2>1. PICK ok \in BOOLEAN :
          posts' = [loaded |-> TRUE, error |-> ~ok, sending |-> posts.sending /\ calls[i].op # "reposts"]
    BY DEF PostsRead
  <2>2. (posts.sending /\ calls[i].op # "reposts") \in BOOLEAN /\ (~ok) \in BOOLEAN
    OBVIOUS
  <2> QED
    BY <2>1, <2>2 DEF PostsStates
<1> QED
  BY <1>3, <1>4, <1>5, TypeParts, PageKept DEF RestTyped, PostsRead, Quiet

LEMMA ReplySentSends ==
  ASSUME TypeInv, NEW i \in 1..Slots, ReplySent(i)
  PROVE  RestTyped' /\ Sent({"reply"}, {"reposts"})
<1>1. StoredTyped'
  BY TypeParts, QuietTyped DEF ReplySent
<1>2. CASE Answers(i, {"reply"}) /\ Then(i, Call("reposts", calls[i].on)) /\ UNCHANGED posts
  <2>1. calls[i].on \in Forums
    <3>1. calls[i].op \in {"reply"} /\ Shaped(calls[i])
      BY <1>2, TypeParts, Heard
    <3> QED
      BY <3>1 DEF Shaped, ForumOps, PostOps
  <2>2. Fresh(Call("reposts", calls[i].on)) /\ Call("reposts", calls[i].on).op \in {"reposts"}
    BY <2>1, FreshOf DEF Call, ForumOps, PostOps
  <2>3. Sent({"reply"}, {"reposts"})
    BY <1>2, <2>2, TypeParts, Follows
  <2> QED
    BY <1>1, <1>2, <2>3, TypeParts, PageKept DEF RestTyped, ReplySent, Quiet
<1>3. CASE Fails(i, {"reply"}) /\ Closed(i) /\ posts' = [posts EXCEPT !.sending = FALSE]
  <2>1. Sent({"reply"}, {"reposts"})
    BY <1>3, TypeParts, Closes, SentMore
  <2>2. posts' \in PostsStates
    BY <1>3, TypeParts DEF RestTyped, PostsStates
  <2> QED
    BY <1>1, <2>1, <2>2, TypeParts, PageKept DEF RestTyped, ReplySent, Quiet
<1> QED
  BY <1>2, <1>3 DEF ReplySent

LEMMA FileReadSends ==
  ASSUME TypeInv, NEW i \in 1..Slots, FileRead(i)
  PROVE  RestTyped' /\ Sent({"file"}, {})
<1>1. Answers(i, {"file"}) \/ Fails(i, {"file"})
  BY DEF FileRead
<1>2. calls[i].on \in Files
  <2>1. calls[i].op \in {"file"} /\ Shaped(calls[i])
    BY <1>1, TypeParts, Heard
  <2> QED
    BY <2>1 DEF Shaped
<1>3. Sent({"file"}, {})
  BY <1>1, TypeParts, Forgets DEF FileRead
<1>4. StoredTyped'
  BY TypeParts, QuietTyped DEF FileRead
<1>5. file' \in FileStates
  BY <1>2 DEF FileRead, FileStates
<1> QED
  BY <1>3, <1>4, <1>5, TypeParts, PageKept DEF RestTyped, FileRead, Quiet
LEMMA ExamsReadSends ==
  ASSUME TypeInv, NEW i \in 1..Slots, ExamsRead(i)
  PROVE  RestTyped' /\ Sent({"exams"}, {})
<1>1. Answers(i, {"exams"}) \/ Fails(i, {"exams"})
  BY DEF ExamsRead
<1>2. Sent({"exams"}, {})
  BY <1>1, TypeParts, Forgets DEF ExamsRead
<1>3. StoredTyped'
  BY TypeParts, QuietTyped DEF ExamsRead
<1>4. exam' \in ExamStates
  <2>1. exam \in ExamStates /\ (course.exams # {}) \in BOOLEAN
    BY TypeParts DEF RestTyped
  <2>2. /\ [exam EXCEPT !.list = (course.exams # {}), !.loading = FALSE] \in ExamStates
        /\ [exam EXCEPT !.loading = FALSE] \in ExamStates
    BY <2>1 DEF ExamStates
  <2> QED
    BY <2>2 DEF ExamsRead, OnExam
<1> QED
  BY <1>2, <1>3, <1>4, TypeParts, PageKept DEF RestTyped, ExamsRead, OnExam, Quiet

LEMMA ExamReadSends ==
  ASSUME TypeInv, NEW i \in 1..Slots, ExamRead(i)
  PROVE  RestTyped' /\ Sent({"exam"}, {})
<1>1. Answers(i, {"exam"}) \/ Fails(i, {"exam"})
  BY DEF ExamRead
<1>2. calls[i].on \in Exams /\ calls[i].used \in Nat
  <2>1. calls[i].op \in {"exam"} /\ Shaped(calls[i]) /\ calls[i] \in Calls
    BY <1>1, TypeParts, Heard
  <2> QED
    BY <2>1 DEF Shaped, Calls
<1>3. Sent({"exam"}, {})
  BY <1>1, TypeParts, Forgets DEF ExamRead
<1>4. StoredTyped'
  BY TypeParts, QuietTyped DEF ExamRead
<1>5. exam' \in ExamStates
  <2>1. exam \in ExamStates
    BY TypeParts DEF RestTyped
  <2>2. ASSUME NEW used \in Nat,
               exam' = [exam EXCEPT !.open = calls[i].on, !.used = used, !.loading = FALSE,
                                    !.result = FALSE, !.finished = FALSE]
        PROVE  exam' \in ExamStates
    BY <1>2, <2>1, <2>2 DEF ExamStates
  <2>3. ASSUME exam' = [exam EXCEPT !.loading = FALSE] PROVE exam' \in ExamStates
    BY <2>1, <2>3 DEF ExamStates
  <2>4. CASE \E used \in {calls[i].used, 0} :
               exam' = [exam EXCEPT !.open = calls[i].on, !.used = used, !.loading = FALSE,
                                    !.result = FALSE, !.finished = FALSE]
    BY <1>2, <2>2, <2>4
  <2> QED
    BY <2>3, <2>4 DEF ExamRead, OnExam
<1>6. UNCHANGED <<shown, task, forum, posts, file>>
  BY DEF ExamRead, OnExam
<1> QED
  BY <1>3, <1>4, <1>5, <1>6, TypeParts, PageKept DEF RestTyped, ExamRead, Quiet

LEMMA ExamSubmittedSends ==
  ASSUME TypeInv, NEW i \in 1..Slots, ExamSubmitted(i)
  PROVE  RestTyped' /\ Sent({"attempt"}, {"autoMark"})
<1>0. exam \in ExamStates
  BY TypeParts DEF RestTyped
<1>1. StoredTyped'
  BY TypeParts, QuietTyped DEF ExamSubmitted
<1>2. UNCHANGED <<shown, task, forum, posts, file>>
  BY DEF ExamSubmitted, OnExam
<1>3. CASE /\ Answers(i, {"attempt"}) /\ exam' = [exam EXCEPT !.result = TRUE, !.used = @ + 1]
           /\ Then(i, Call("autoMark", calls[i].by))
  <2>1. calls[i].by \in Entries \cup {None}
    <3>1. calls[i] \in Calls
      BY <1>3, TypeParts, Heard
    <3> QED
      BY <3>1 DEF Calls
  <2>2. Fresh(Call("autoMark", calls[i].by)) /\ Call("autoMark", calls[i].by).op \in {"autoMark"}
    BY <2>1, FreshOf DEF Call
  <2>3. Sent({"attempt"}, {"autoMark"})
    BY <1>3, <2>2, TypeParts, Follows
  <2>4. exam' \in ExamStates
    <3>1. exam.used + 1 \in Nat
      BY <1>0 DEF ExamStates
    <3> QED
      BY <1>0, <1>3, <3>1 DEF ExamStates
  <2> QED
    BY <1>1, <1>2, <2>3, <2>4, TypeParts, PageKept DEF RestTyped, ExamSubmitted, Quiet
<1>4. CASE /\ Fails(i, {"attempt"}) /\ Closed(i)
           /\ exam' = [exam EXCEPT !.submitting = FALSE, !.confirm = FALSE]
  <2>1. Sent({"attempt"}, {"autoMark"})
    BY <1>4, TypeParts, Closes, SentMore
  <2>2. exam' \in ExamStates
    BY <1>0, <1>4 DEF ExamStates
  <2> QED
    BY <1>1, <1>2, <2>1, <2>2, TypeParts, PageKept DEF RestTyped, ExamSubmitted, Quiet
<1> QED
  BY <1>3, <1>4 DEF ExamSubmitted, OnExam

LEMMA AutoMarkedSends ==
  ASSUME TypeInv, NEW i \in 1..Slots, AutoMarked(i)
  PROVE  RestTyped' /\ Sent({"autoMark"}, {})
<1>1. Answers(i, {"autoMark"}) \/ Fails(i, {"autoMark"})
  BY DEF AutoMarked
<1>2. Sent({"autoMark"}, {})
  BY <1>1, TypeParts, Closes DEF AutoMarked
<1>3. StoredTyped'
  BY TypeParts, QuietTyped DEF AutoMarked
<1>4. exam' \in ExamStates
  BY TypeParts DEF AutoMarked, OnExam, RestTyped, ExamStates
<1> QED
  BY <1>2, <1>3, <1>4, TypeParts, PageKept DEF RestTyped, AutoMarked, OnExam, Quiet

-----------------------------------------------------------------------------
(* What the server does.                                                   *)

\* A write makes at most one object, and one that is told of made it: the
\* groups of a forum are tried only after one that made nothing.
LEMMA TopicMadeOnce ==
  ASSUME NEW t \in Tries
  PROVE  /\ Cardinality({j \in Reached(t) : t[j].made = 1}) \in {0, 1}
<1> DEFINE made == {j \in Reached(t) : t[j].made = 1}
<1>1. PICK n \in Candidates : t \in [1..n -> MoodleCalls]
  BY DEF Tries
<1>2. n \in Nat
  BY <1>1, BoundsAssumption DEF Candidates
<1>3. \A j, k \in made : j = k
  <2> SUFFICES ASSUME NEW j \in made, NEW k \in made, j < k PROVE FALSE
    BY <1>1, <1>2 DEF Reached
  <2>1. j \in 1..n /\ k \in 1..n /\ j \in 1..k - 1
    BY <1>1, <1>2 DEF Reached
  <2>2. TriesNext(t[j])
    BY <2>1 DEF Reached
  <2>3. t[j] \in MoodleCalls /\ t[j].made = 1
    BY <1>1, <2>1
  <2> QED
    BY <2>2, <2>3 DEF TriesNext, MoodleCalls
<1> HIDE DEF made
<1>4. CASE made = {}
  BY <1>4, FS_EmptySet DEF made
<1>5. ASSUME NEW j \in made PROVE Cardinality(made) = 1
  <2>1. made = {j}
    BY <1>3, <1>5
  <2> QED
    BY <2>1, FS_Singleton
<1> QED
  BY <1>4, <1>5 DEF made

LEMMA OutcomesAre ==
  ASSUME NEW c, c.op \in Counted, NEW r \in Outcomes(c)
  PROVE  /\ r.made \in {0, 1} /\ r.ok \in BOOLEAN
         /\ c.op = "attempt" /\ r.ok => r.made = 1
<1>1. CASE c.op = "topic"
  <2>1. PICK t \in Tries :
          r = [made |-> Cardinality({j \in Reached(t) : t[j].made = 1}),
               ok |-> \E j \in Reached(t) : t[j].ok]
    BY <1>1 DEF Outcomes, AddDiscussion
  <2>2. r.made = Cardinality({j \in Reached(t) : t[j].made = 1})
    BY <2>1
  <2>3. r.ok \in BOOLEAN
    BY <2>1
  <2> QED
    BY <1>1, <2>2, <2>3, TopicMadeOnce
<1>2. CASE c.op \in {"submit", "reply"}
  <2>1. r \in {[made |-> q.made, ok |-> q.ok] : q \in MoodleCalls}
    BY <1>2 DEF Outcomes, SavesSubmission, AddDiscussionPost
  <2>2. PICK q \in MoodleCalls : r = [made |-> q.made, ok |-> q.ok]
    BY <2>1
  <2>3. q.made \in {0, 1}
    BY <2>2 DEF MoodleCalls
  <2>4. q.ok = TRUE \/ q.ok = FALSE
    BY <2>2 DEF MoodleCalls
  <2> QED
    BY <1>2, <2>2, <2>3, <2>4
<1>3. CASE c.op = "attempt"
  <2>1. r \in SubmitAttempt(wrote[WroteOf(c)])
    BY <1>3 DEF Outcomes
  <2>2. r = [made |-> 0, ok |-> FALSE] \/ r = [made |-> 1, ok |-> TRUE]
    BY <2>1 DEF SubmitAttempt
  <2>3. CASE r = [made |-> 0, ok |-> FALSE]
    <3>1. r.made = 0 /\ r.ok = FALSE
      BY <2>3
    <3> QED
      BY <3>1
  <2>4. CASE r = [made |-> 1, ok |-> TRUE]
    <3>1. r.made = 1 /\ r.ok = TRUE
      BY <2>4
    <3> QED
      BY <3>1
  <2> QED
    BY <2>2, <2>3, <2>4
<1> QED
  BY <1>1, <1>2, <1>3 DEF Counted
\* The server deals with the request in slot i, which is q then, unless the
\* page has forgotten it.
Answering(i, q) ==
  /\ calls[i] # None /\ calls[i].stage = "sent"
  /\ q \in Calls /\ q.stage \in {"done", "refused"}
  /\ q.op = calls[i].op /\ q.on = calls[i].on /\ q.mine = calls[i].mine
  /\ calls' \in [1..Slots -> Calls \cup {None}]
  /\ calls'[i] = q \/ (calls'[i] = None /\ ~calls[i].mine)
  /\ \A j \in 1..Slots : j = i \/ calls'[j] = calls[j]

LEMMA AnsweringTyped ==
  ASSUME CallsTyped, NEW i \in 1..Slots, NEW q, Answering(i, q)
  PROVE  CallsTyped'
<1> SUFFICES ASSUME NEW j \in 1..Slots, calls'[j] # None PROVE Shaped(calls'[j])
  BY DEF CallsTyped, Held, Answering
<1>1. \A k \in 1..Slots : calls[k] # None => Shaped(calls[k])
  BY DEF CallsTyped, Held
<1>2. CASE j = i
  <2>1. calls'[j] = q /\ Shaped(calls[i])
    BY <1>1, <1>2 DEF Answering
  <2> QED
    BY <2>1 DEF Shaped, Answering
<1>3. CASE j # i
  BY <1>1, <1>3 DEF Answering
<1> QED
  BY <1>2, <1>3

LEMMA ServeDoes ==
  ASSUME TypeInv, NEW i \in 1..Slots, Serve(i)
  PROVE  /\ RestTyped' /\ calls[i].op \in Counted /\ WroteOf(calls[i]) \in Written
         /\ \E r \in Outcomes(calls[i]), q \in Calls :
              /\ Answering(i, q) /\ q.stage = Stage(r.ok)
              /\ q.marks = calls[i].marks /\ q.used = calls[i].used
              /\ r.made \in {0, 1} /\ r.ok \in BOOLEAN
              /\ calls[i].op = "attempt" /\ r.ok => r.made = 1
              /\ wrote' = [wrote EXCEPT ![WroteOf(calls[i])] = @ + r.made]
<1>0. calls \in [1..Slots -> Calls \cup {None}] /\ wrote \in [Written -> Nat]
  BY TypeParts DEF CallsTyped, RestTyped, StoredTyped
<1>1. /\ calls[i] # None /\ calls[i].stage = "sent" /\ calls[i].op \in Counted
      /\ calls[i] \in Calls /\ Shaped(calls[i])
  BY <1>0, TypeParts DEF Serve, CallsTyped, Held
<1>2. PICK r \in Outcomes(calls[i]) :
        /\ wrote' = [wrote EXCEPT ![WroteOf(calls[i])] = @ + r.made]
        /\ Handled(i, [calls[i] EXCEPT !.stage = Stage(r.ok)])
  BY DEF Serve
<1>3. /\ r.made \in {0, 1} /\ r.ok \in BOOLEAN
      /\ calls[i].op = "attempt" /\ r.ok => r.made = 1
  BY <1>1, OutcomesAre
<1>4. PICK q : q = [calls[i] EXCEPT !.stage = Stage(r.ok)]
  OBVIOUS
<1>5. /\ q \in Calls /\ q.stage = Stage(r.ok) /\ q.stage \in {"done", "refused"}
      /\ q.op = calls[i].op /\ q.on = calls[i].on /\ q.mine = calls[i].mine
      /\ q.marks = calls[i].marks /\ q.used = calls[i].used
  BY <1>1, <1>4 DEF Calls, Stage
<1>6. calls' = [calls EXCEPT ![i] = IF calls[i].mine THEN q ELSE None]
  BY <1>2, <1>4 DEF Handled
<1>7. Answering(i, q)
  BY <1>0, <1>1, <1>5, <1>6 DEF Answering
<1>8. WroteOf(calls[i]) \in Written
  BY <1>1 DEF WroteOf, Written, Shaped, Counted, TaskOps, ForumOps, PostOps
<1>9. StoredTyped'
  <2>1. wrote' \in [Written -> Nat]
    BY <1>0, <1>2, <1>3, <1>8
  <2> QED
    BY <2>1, TypeParts DEF Serve, RestTyped, StoredTyped
<1>10. RestTyped'
  BY <1>9, TypeParts, PageKept DEF Serve, RestTyped, views
<1> QED
  BY <1>1, <1>2, <1>3, <1>5, <1>7, <1>8, <1>10

LEMMA ServeMarkDoes ==
  ASSUME TypeInv, NEW i \in 1..Slots, ServeMark(i)
  PROVE  /\ RestTyped' /\ calls[i].op \in {"mark", "autoMark"}
         /\ \E q \in Calls :
              /\ Answering(i, q) /\ q.marks = calls[i].marks /\ q.used = calls[i].used
              /\ progress \subseteq progress' /\ (q.stage = "done" => q.on \in progress')
<1>0. calls \in [1..Slots -> Calls \cup {None}]
  BY TypeParts DEF CallsTyped
<1>1. /\ calls[i] # None /\ calls[i].stage = "sent" /\ calls[i].op \in {"mark", "autoMark"}
      /\ calls[i] \in Calls
  BY <1>0 DEF ServeMark
<1>2. PICK ok \in BOOLEAN :
        /\ ok => calls[i].on \in course.mods
        /\ progress' = IF ok THEN progress \cup {calls[i].on} ELSE progress
        /\ Handled(i, [calls[i] EXCEPT !.stage = Stage(ok)])
  BY DEF ServeMark
<1>3. PICK q : q = [calls[i] EXCEPT !.stage = Stage(ok)]
  OBVIOUS
<1>4. /\ q \in Calls /\ q.stage = Stage(ok) /\ q.stage \in {"done", "refused"}
      /\ q.op = calls[i].op /\ q.on = calls[i].on /\ q.mine = calls[i].mine
      /\ q.marks = calls[i].marks /\ q.used = calls[i].used
  BY <1>1, <1>3 DEF Calls, Stage
<1>5. calls' = [calls EXCEPT ![i] = IF calls[i].mine THEN q ELSE None]
  BY <1>2, <1>3 DEF Handled
<1>6. Answering(i, q)
  BY <1>0, <1>1, <1>4, <1>5 DEF Answering
<1>7. progress \subseteq progress' /\ (q.stage = "done" => q.on \in progress')
  BY <1>2, <1>4 DEF Stage
<1>8. StoredTyped'
  <2>1. course.mods \subseteq Modules
    BY CoursesAssumption, TypeParts DEF RestTyped, PageTyped
  <2>2. progress' \subseteq Modules
    BY <1>2, <2>1, TypeParts DEF RestTyped, StoredTyped
  <2> QED
    BY <2>2, TypeParts DEF ServeMark, RestTyped, StoredTyped
<1>9. RestTyped'
  BY <1>8, TypeParts, PageKept DEF ServeMark, RestTyped, views
<1> QED
  BY <1>1, <1>4, <1>6, <1>7, <1>9

LEMMA ServeReadDoes ==
  ASSUME TypeInv, NEW i \in 1..Slots, ServeRead(i)
  PROVE  /\ RestTyped' /\ calls[i].op \in {"contents", "exam"}
         /\ \E q \in Calls :
              /\ Answering(i, q) /\ q.marks \subseteq progress
              /\ q.op = "exam" => q.used = wrote[<<"attempt", q.on>>]
<1>0. calls \in [1..Slots -> Calls \cup {None}]
  BY TypeParts DEF CallsTyped
<1>1. /\ calls[i] # None /\ calls[i].stage = "sent" /\ calls[i].op \in {"contents", "exam"}
      /\ calls[i] \in Calls /\ Shaped(calls[i])
  BY <1>0, TypeParts DEF ServeRead, CallsTyped, Held
<1>2. PICK q : q = [calls[i] EXCEPT !.stage = "done",
                      !.marks = IF calls[i].op = "contents" THEN progress \ Forums ELSE {},
                      !.used = IF calls[i].op = "exam" THEN wrote[<<"attempt", calls[i].on>>] ELSE 0]
  OBVIOUS
<1>3. calls[i].op = "exam" => wrote[<<"attempt", calls[i].on>>] \in Nat
  <2>1. calls[i].op = "exam" => <<"attempt", calls[i].on>> \in Written
    BY <1>1 DEF Shaped, Written
  <2> QED
    BY <2>1, TypeParts DEF RestTyped, StoredTyped
<1>4. progress \ Forums \subseteq Modules
  BY TypeParts DEF RestTyped, StoredTyped
<1>5. /\ q \in Calls /\ q.stage = "done"
      /\ q.op = calls[i].op /\ q.on = calls[i].on /\ q.mine = calls[i].mine
      /\ q.marks \subseteq progress
      /\ q.op = "exam" => q.used = wrote[<<"attempt", q.on>>]
  BY <1>1, <1>2, <1>3, <1>4 DEF Calls
<1>6. calls' = [calls EXCEPT ![i] = q]
  BY <1>2 DEF ServeRead
<1>7. Answering(i, q)
  BY <1>0, <1>1, <1>5, <1>6 DEF Answering
<1>8. RestTyped'
  BY TypeParts, PageKept DEF ServeRead, RestTyped, StoredTyped, views, server
<1> QED
  BY <1>1, <1>5, <1>7, <1>8
-----------------------------------------------------------------------------
(* What a step that leaves a component alone keeps of its invariant.       *)

\* A request after a step of the page: as it was, given up, or new.
LEMMA SentOne ==
  ASSUME CallsTyped, NEW gone, NEW ops, Sent(gone, ops), NEW i \in 1..Slots, calls'[i] # None
  PROVE  \/ calls'[i] = calls[i]
         \/ Fresh(calls'[i]) /\ calls'[i].op \in ops /\ (calls[i] = None \/ calls[i].op \in gone)
         \/ /\ calls[i] # None /\ calls[i].op \in gone /\ calls[i].op \in Writes
            /\ calls[i].stage = "sent" /\ ~calls'[i].mine
            /\ calls'[i].op = calls[i].op /\ calls'[i].on = calls[i].on
            /\ calls'[i].stage = "sent" /\ calls'[i].marks = calls[i].marks
            /\ calls'[i].used = calls[i].used
<1>1. calls[i] # None => calls[i] \in Calls
  BY DEF CallsTyped
<1>2. CASE calls[i] # None /\ calls[i].op \in gone /\ calls[i].op \in Writes
           /\ calls[i].stage = "sent" /\ calls'[i] = [calls[i] EXCEPT !.mine = FALSE]
  BY <1>1, <1>2 DEF Calls
<1> QED
  BY <1>2 DEF Sent, Dropped

LEMMA BadgeFrame ==
  ASSUME TypeInv, BadgeInv, NEW gone, NEW ops, Sent(gone, ops),
         progress' = progress, done' \subseteq progress
  PROVE  BadgeInv'
<1> SUFFICES ASSUME NEW i \in 1..Slots, calls'[i] # None
             PROVE  /\ calls'[i].marks \subseteq progress
                    /\ calls'[i].op = "mark" /\ calls'[i].stage = "done" => calls'[i].on \in progress
  BY DEF BadgeInv, Held
<1>1. calls[i] # None =>
        /\ calls[i].marks \subseteq progress
        /\ calls[i].op = "mark" /\ calls[i].stage = "done" => calls[i].on \in progress
  BY DEF BadgeInv, Held
<1>2. \/ calls'[i] = calls[i]
      \/ Fresh(calls'[i])
      \/ calls[i] # None /\ calls'[i].stage = "sent" /\ calls'[i].marks = calls[i].marks
  BY TypeParts, SentOne
<1> QED
  BY <1>1, <1>2 DEF Fresh

LEMMA FewRequests ==
  ASSUME NEW S, S \subseteq 1..Slots
  PROVE  /\ IsFiniteSet(S) /\ Cardinality(S) \in Nat
         /\ \A T \in SUBSET S : Cardinality(T) \in Nat /\ Cardinality(T) <= Cardinality(S)
<1>1. IsFiniteSet(1..Slots)
  <2>1. 1 \in Int /\ Slots \in Int
    BY BoundsAssumption
  <2> QED
    BY <2>1, FS_Interval
<1>2. IsFiniteSet(S)
  BY <1>1, FS_Subset
<1>3. ASSUME NEW T \in SUBSET S PROVE Cardinality(T) \in Nat /\ Cardinality(T) <= Cardinality(S)
  BY <1>2, FS_Subset, FS_CardinalityType
<1> QED
  BY <1>2, <1>3, FS_CardinalityType

LEMMA OneRequestMore ==
  ASSUME NEW S, S \subseteq 1..Slots, NEW j \in 1..Slots, j \notin S, NEW T, T = S \cup {j}
  PROVE  Cardinality(T) = Cardinality(S) + 1
<1>1. IsFiniteSet(S)
  BY FewRequests
<1> QED
  BY <1>1, FS_AddElement

LEMMA PressFrame ==
  ASSUME TypeInv, PressInv, NEW gone, NEW ops, Sent(gone, ops), ops \cap Counted = {},
         wrote' = wrote, pressed' = pressed
  PROVE  PressInv'
<1> SUFFICES ASSUME NEW w \in Written
             PROVE  wrote[w] + Cardinality(Pending(w)') <= pressed[w]
  BY DEF PressInv
<1>1. Pending(w)' \subseteq Pending(w)
  <2> SUFFICES ASSUME NEW i \in 1..Slots, calls'[i] # None, calls'[i].op \in Counted,
                      calls'[i].stage = "sent", WroteOf(calls'[i]) = w
               PROVE  i \in Pending(w)
    BY DEF Pending, Held
  <2>1. CallsTyped /\ ~(calls'[i].op \in ops)
    BY TypeParts
  <2>2. \/ calls'[i] = calls[i]
        \/ /\ calls[i] # None /\ calls[i].stage = "sent"
           /\ calls'[i].op = calls[i].op /\ calls'[i].on = calls[i].on
    BY <2>1, SentOne
  <2>3. calls[i] # None /\ calls[i].op \in Counted /\ calls[i].stage = "sent" /\ WroteOf(calls[i]) = w
    BY <2>2 DEF WroteOf
  <2> QED
    BY <2>3 DEF Pending, Held
<1>2. Pending(w) \subseteq 1..Slots
  BY DEF Pending, Held
<1>3. /\ Cardinality(Pending(w)) \in Nat /\ Cardinality(Pending(w)') \in Nat
      /\ Cardinality(Pending(w)') <= Cardinality(Pending(w))
  BY <1>1, <1>2, FewRequests
<1>4. wrote[w] \in Nat /\ pressed[w] \in Nat /\ wrote[w] + Cardinality(Pending(w)) <= pressed[w]
  BY TypeParts DEF RestTyped, StoredTyped, PressInv
<1> QED
  BY <1>3, <1>4

\* A press and the write it sends.
LEMMA PressSends ==
  ASSUME TypeInv, PressInv, NEW c, Fresh(c), c.op \in Counted, WroteOf(c) \in Written,
         Presses(WroteOf(c)), wrote' = wrote, RoomIn(calls), calls' = Add(calls, c)
  PROVE  PressInv'
<1>1. PICK j \in 1..Slots :
        calls[j] = None /\ calls'[j] = c /\ \A i \in 1..Slots : i = j \/ calls'[i] = calls[i]
  BY TypeParts, SendsOne
<1> SUFFICES ASSUME NEW w \in Written
             PROVE  wrote[w] + Cardinality(Pending(w)') <= pressed'[w]
  BY DEF PressInv
<1>2. /\ wrote[w] \in Nat /\ pressed \in [Written -> Nat]
      /\ wrote[w] + Cardinality(Pending(w)) <= pressed[w]
  BY TypeParts DEF RestTyped, StoredTyped, PressInv
<1>3. Pending(w) \subseteq 1..Slots /\ Pending(w)' \subseteq 1..Slots
  BY DEF Pending, Held
<1>4. Cardinality(Pending(w)) \in Nat
  BY <1>3, FewRequests
<1>5. CASE w = WroteOf(c)
  <2>1. Pending(w)' = Pending(w) \cup {j} /\ j \notin Pending(w)
    <3>1. j \in Pending(w)'
      BY <1>1, <1>5, NoneAssumption DEF Pending, Held, Fresh
    <3>2. \A i \in 1..Slots : i # j => (i \in Pending(w)' <=> i \in Pending(w))
      <4>1. ASSUME NEW i \in 1..Slots, i # j PROVE i \in Pending(w)' <=> i \in Pending(w)
        <5>1. calls'[i] = calls[i]
          BY <1>1, <4>1
        <5> QED
          BY <5>1 DEF Pending, Held
      <4> QED
        BY <4>1
    <3>3. j \notin Pending(w)
      BY <1>1 DEF Pending, Held
    <3> QED
      BY <1>3, <3>1, <3>2, <3>3
  <2>2. Cardinality(Pending(w)') = Cardinality(Pending(w)) + 1
    BY <1>3, <2>1, OneRequestMore
  <2>3. pressed'[w] = pressed[w] + 1
    BY <1>2, <1>5 DEF Presses
  <2> QED
    BY <1>2, <1>4, <2>2, <2>3
<1>6. CASE w # WroteOf(c)
  <2>1. Pending(w)' = Pending(w)
    BY <1>1, <1>6 DEF Pending, Held
  <2>2. pressed'[w] = pressed[w]
    BY <1>2, <1>6 DEF Presses
  <2> QED
    BY <1>2, <2>1, <2>2
<1> QED
  BY <1>5, <1>6

LEMMA PageFrame ==
  ASSUME TypeInv, PageInv, NEW gone, NEW ops, Sent(gone, ops), "contents" \notin ops,
         page # "loading", page' = page
  PROVE  PageInv'
<1>1. ASSUME NEW i \in Live' PROVE calls'[i].op # "contents"
  <2>0. i \in 1..Slots /\ calls'[i] # None /\ calls'[i].mine
    BY <1>1 DEF Live, Held
  <2>1. calls[i] # None /\ calls[i].mine => calls[i].op # "contents"
    BY DEF PageInv, Live, Held
  <2>2. \/ calls'[i] = calls[i]
        \/ calls'[i].op \in ops
        \/ ~calls'[i].mine
    BY <2>0, TypeParts, SentOne
  <2> QED
    BY <2>0, <2>1, <2>2
<1> QED
  BY <1>1 DEF PageInv, Alone, LiveIn

\* An answer that is not about the course comes to a page that has it.
LEMMA PageThere ==
  ASSUME CallsTyped, PageInv, NEW i \in 1..Slots, NEW ops, Answers(i, ops) \/ Fails(i, ops),
         "contents" \notin ops
  PROVE  page # "loading"
<1>1. calls[i] # None /\ calls[i].mine /\ calls[i].op \in ops
  BY Heard
<1> QED
  BY <1>1 DEF PageInv, Live, Held

LEMMA FileFrame ==
  ASSUME TypeInv, FileInv, NEW gone, NEW ops, Sent(gone, ops), "file" \notin gone \cup ops,
         UNCHANGED <<file, active>>
  PROVE  FileInv'
<1>1. ASSUME NEW i \in 1..Slots, calls'[i] # None, calls'[i].op = "file"
      PROVE  calls'[i] = calls[i]
  <2>1. CallsTyped /\ calls'[i].op \notin ops /\ calls'[i].op \notin Writes
    BY <1>1, TypeParts DEF Writes, Counted
  <2> QED
    BY <1>1, <2>1, SentOne
<1>2. ASSUME NEW i \in 1..Slots, calls[i] # None, calls[i].op = "file"
      PROVE  calls'[i] = calls[i]
  BY <1>2 DEF Sent
<1> QED
  BY <1>1, <1>2 DEF FileInv, Held

LEMMA ExamFrame ==
  ASSUME TypeInv, ExamInv, NEW gone, NEW ops, Sent(gone, ops),
         ops \cap {"exam", "exams", "attempt", "autoMark"} = {},
         UNCHANGED <<exam, wrote>>
  PROVE  ExamInv'
<1> DEFINE Kept == {"exam", "exams", "attempt", "autoMark"}
<1>1. ASSUME NEW i \in 1..Slots, calls'[i] # None, calls'[i].op \in Kept
      PROVE  \/ calls'[i] = calls[i]
             \/ /\ calls[i] # None /\ ~calls'[i].mine /\ calls[i].op \in Writes
                /\ calls'[i].op = calls[i].op /\ calls'[i].on = calls[i].on
                /\ calls'[i].used = calls[i].used
  BY <1>1, TypeParts, SentOne
<1>2. ASSUME NEW s \in SUBSET Kept, NEW i \in LiveIn(s)'
      PROVE  i \in LiveIn(s) /\ calls'[i] = calls[i]
  BY <1>1, <1>2 DEF LiveIn, Live, Held
<1>3. ASSUME NEW i \in Held', calls'[i].op = "exam" PROVE i \in Held /\ calls'[i] = calls[i]
  BY <1>1, <1>3 DEF Held, Writes, Counted
<1> DEFINE reads == {"exam", "exams"}
           tries == {"attempt"}
           takes == {"attempt", "autoMark"}
<1>4. reads \in SUBSET Kept /\ tries \in SUBSET Kept /\ takes \in SUBSET Kept
  OBVIOUS
<1> HIDE DEF reads, tries, takes, Kept
<1>5. \A i \in LiveIn(reads)' : i \in LiveIn(reads) /\ calls'[i] = calls[i]
  BY <1>2, <1>4
<1>6. \A i \in LiveIn(tries)' : i \in LiveIn(tries) /\ calls'[i] = calls[i]
  BY <1>2, <1>4
<1>7. \A i \in LiveIn(takes)' : i \in LiveIn(takes) /\ calls'[i] = calls[i]
  BY <1>2, <1>4
<1>8. /\ Alone(reads) => Alone(reads)'
      /\ Alone(takes) => Alone(takes)'
  BY <1>5, <1>7 DEF Alone
<1>9. AttemptsNotOverstated => AttemptsNotOverstated'
  BY DEF AttemptsNotOverstated
<1> QED
  BY <1>3, <1>5, <1>6, <1>7, <1>8, <1>9 DEF ExamInv, reads, tries, takes

-----------------------------------------------------------------------------
(* The requests the server deals with.                                     *)

LEMMA AnsweredOne ==
  ASSUME CallsTyped, NEW i \in 1..Slots, NEW q, Answering(i, q),
         NEW j \in 1..Slots, calls'[j] # None
  PROVE  /\ calls[j] # None
         /\ calls'[j].op = calls[j].op /\ calls'[j].on = calls[j].on
         /\ calls'[j].mine = calls[j].mine
         /\ \/ j = i /\ calls'[j] = q
            \/ j # i /\ calls'[j] = calls[j]
BY DEF Answering

LEMMA PageAnswered ==
  ASSUME TypeInv, PageInv, NEW i \in 1..Slots, NEW q, Answering(i, q),
         UNCHANGED <<page, active, file>>
  PROVE  PageInv'
<1>1. ASSUME NEW j \in Live'
      PROVE  j \in Live /\ calls'[j].op = calls[j].op
  <2>1. CallsTyped /\ j \in 1..Slots /\ calls'[j] # None /\ calls'[j].mine
    BY <1>1, TypeParts DEF Live, Held
  <2>2. calls[j] # None /\ calls'[j].op = calls[j].op /\ calls'[j].mine = calls[j].mine
    BY <2>1, AnsweredOne
  <2> QED
    BY <2>1, <2>2 DEF Live, Held
<1> QED
  BY <1>1 DEF PageInv, Alone, LiveIn

LEMMA FileAnswered ==
  ASSUME TypeInv, FileInv, NEW i \in 1..Slots, NEW q, Answering(i, q), calls[i].op # "file",
         UNCHANGED <<active, file>>
  PROVE  FileInv'
<1>1. ASSUME NEW j \in Held'
      PROVE  j \in Held /\ calls'[j].op = calls[j].op /\ calls'[j].on = calls[j].on
  <2>1. CallsTyped /\ j \in 1..Slots /\ calls'[j] # None
    BY <1>1, TypeParts DEF Held
  <2>2. calls[j] # None /\ calls'[j].op = calls[j].op /\ calls'[j].on = calls[j].on
    BY <2>1, AnsweredOne
  <2> QED
    BY <2>1, <2>2 DEF Held
<1>2. ASSUME NEW j \in Held, calls[j].op = "file" PROVE j \in Held' /\ calls'[j].op = "file"
  BY <1>2 DEF Answering, Held
<1> QED
  BY <1>1, <1>2 DEF FileInv

LEMMA BadgeAnswered ==
  ASSUME TypeInv, BadgeInv, NEW i \in 1..Slots, NEW q, Answering(i, q),
         q.marks \subseteq progress', q.op = "mark" /\ q.stage = "done" => q.on \in progress',
         progress \subseteq progress', done' = done
  PROVE  BadgeInv'
<1>1. ASSUME NEW j \in 1..Slots, calls'[j] # None
      PROVE  /\ calls'[j].marks \subseteq progress'
             /\ calls'[j].op = "mark" /\ calls'[j].stage = "done" => calls'[j].on \in progress'
  <2>1. CallsTyped
    BY TypeParts
  <2>2. calls[j] # None /\ (calls'[j] = q \/ calls'[j] = calls[j])
    BY <1>1, <2>1, AnsweredOne
  <2> QED
    BY <2>2 DEF BadgeInv, Held
<1> QED
  BY <1>1 DEF BadgeInv, Held

LEMMA AnsweredPending ==
  ASSUME CallsTyped, NEW i \in 1..Slots, NEW q, Answering(i, q), NEW w
  PROVE  Pending(w)' \subseteq Pending(w) /\ i \notin Pending(w)'
<1>1. ASSUME NEW j \in 1..Slots, calls'[j] # None, calls'[j].stage = "sent"
      PROVE  j # i /\ calls'[j] = calls[j]
  BY <1>1 DEF Answering
<1>2. ASSUME NEW j \in Pending(w)' PROVE j \in Pending(w) /\ j # i
  <2>1. j # i /\ calls'[j] = calls[j]
    BY <1>1, <1>2 DEF Pending, Held
  <2> QED
    BY <1>2, <2>1 DEF Pending, Held
<1> QED
  BY <1>2

LEMMA PressAnswered ==
  ASSUME TypeInv, PressInv, NEW i \in 1..Slots, NEW q, Answering(i, q),
         UNCHANGED <<wrote, pressed>>
  PROVE  PressInv'
<1> SUFFICES ASSUME NEW w \in Written
             PROVE  wrote[w] + Cardinality(Pending(w)') <= pressed[w]
  BY DEF PressInv
<1>1. CallsTyped
  BY TypeParts
<1>2. Pending(w)' \subseteq Pending(w) /\ Pending(w) \subseteq 1..Slots
  BY <1>1, AnsweredPending DEF Pending, Held
<1>3. /\ Cardinality(Pending(w)) \in Nat /\ Cardinality(Pending(w)') \in Nat
      /\ Cardinality(Pending(w)') <= Cardinality(Pending(w))
  BY <1>2, FewRequests
<1>4. wrote[w] \in Nat /\ pressed[w] \in Nat /\ wrote[w] + Cardinality(Pending(w)) <= pressed[w]
  BY TypeParts DEF RestTyped, StoredTyped, PressInv
<1> QED
  BY <1>3, <1>4

\* What a write makes is what its press asked for.
LEMMA PressServed ==
  ASSUME TypeInv, PressInv, NEW i \in 1..Slots, Serve(i)
  PROVE  PressInv'
<1>1. PICK r \in Outcomes(calls[i]), q \in Calls :
        /\ Answering(i, q) /\ r.made \in {0, 1}
        /\ wrote' = [wrote EXCEPT ![WroteOf(calls[i])] = @ + r.made]
  BY ServeDoes
<1>2. calls[i].op \in Counted /\ WroteOf(calls[i]) \in Written
  BY ServeDoes
<1>3. calls[i] # None /\ calls[i].stage = "sent" /\ pressed' = pressed
  BY DEF Serve
<1> SUFFICES ASSUME NEW w \in Written
             PROVE  wrote'[w] + Cardinality(Pending(w)') <= pressed[w]
  BY <1>3 DEF PressInv
<1>4. CallsTyped
  BY TypeParts
<1>5. /\ Pending(w)' \subseteq Pending(w) /\ i \notin Pending(w)'
      /\ Pending(w) \subseteq 1..Slots /\ Pending(w)' \subseteq 1..Slots
  BY <1>1, <1>4, AnsweredPending DEF Pending, Held
<1>6. /\ Cardinality(Pending(w)) \in Nat /\ Cardinality(Pending(w)') \in Nat
      /\ Cardinality(Pending(w)') <= Cardinality(Pending(w))
  BY <1>5, FewRequests
<1>7. /\ wrote \in [Written -> Nat] /\ pressed[w] \in Nat
      /\ wrote[w] + Cardinality(Pending(w)) <= pressed[w]
  BY TypeParts DEF RestTyped, StoredTyped, PressInv
<1>8. CASE w = WroteOf(calls[i])
  <2>1. i \in Pending(w)
    BY <1>2, <1>3, <1>8 DEF Pending, Held
  <2>2. PICK all : all = Pending(w)' \cup {i}
    OBVIOUS
  <2>3. PICK S : S = Pending(w)'
    OBVIOUS
  <2>4. Cardinality(all) = Cardinality(S) + 1
    BY <1>5, <2>2, <2>3, OneRequestMore
  <2>5. Cardinality(all) <= Cardinality(Pending(w)) /\ Cardinality(all) \in Nat
    <3>1. all \in SUBSET Pending(w)
      BY <1>5, <2>1, <2>2
    <3> QED
      BY <1>5, <3>1, FewRequests
  <2>6. wrote'[w] = wrote[w] + r.made
    BY <1>1, <1>7, <1>8
  <2> QED
    BY <1>1, <1>6, <1>7, <2>3, <2>4, <2>5, <2>6
<1>9. CASE w # WroteOf(calls[i])
  <2>1. wrote'[w] = wrote[w] /\ wrote[w] \in Nat
    BY <1>1, <1>7, <1>9
  <2> QED
    BY <1>6, <1>7, <2>1
<1> QED
  BY <1>8, <1>9

LEMMA ExamAnswered ==
  ASSUME TypeInv, ExamInv, NEW i \in 1..Slots, NEW q, Answering(i, q), exam' = exam,
         wrote' \in [Written -> Nat], \A w \in Written : wrote[w] <= wrote'[w],
         q.op = "exam" => q.used <= wrote'[<<"attempt", q.on>>],
         q.op = "attempt" /\ q.stage = "done" =>
           wrote[<<"attempt", q.on>>] < wrote'[<<"attempt", q.on>>]
  PROVE  ExamInv'
<1>0. CallsTyped /\ exam.used \in Nat /\ wrote \in [Written -> Nat]
  BY TypeParts DEF RestTyped, ExamStates, StoredTyped
<1>1. \A e \in Exams : /\ wrote[<<"attempt", e>>] <= wrote'[<<"attempt", e>>]
                       /\ wrote[<<"attempt", e>>] \in Nat /\ wrote'[<<"attempt", e>>] \in Nat
  BY <1>0 DEF Written
<1>2. ASSUME NEW j \in Held'
      PROVE  /\ j \in Held /\ calls'[j].op = calls[j].op /\ calls'[j].on = calls[j].on
             /\ calls'[j].mine = calls[j].mine /\ calls[j] \in Calls /\ Shaped(calls[j])
             /\ calls'[j] = q \/ calls'[j] = calls[j]
  <2>1. j \in 1..Slots /\ calls'[j] # None
    BY <1>2 DEF Held
  <2>2. /\ calls[j] # None /\ calls'[j].op = calls[j].op /\ calls'[j].on = calls[j].on
        /\ calls'[j].mine = calls[j].mine /\ (calls'[j] = q \/ calls'[j] = calls[j])
    BY <1>0, <2>1, AnsweredOne
  <2> QED
    BY <1>0, <2>1, <2>2 DEF Held, CallsTyped
<1>3. ASSUME NEW ops, NEW j \in LiveIn(ops)'
      PROVE  j \in LiveIn(ops) /\ j \in Held'
  BY <1>2, <1>3 DEF LiveIn, Live
<1>4. ASSUME NEW j \in Held', calls'[j].op = "exam"
      PROVE  calls'[j].used <= wrote'[<<"attempt", calls'[j].on>>]
  <2>1. CASE calls'[j] = q
    BY <1>4, <2>1
  <2>2. CASE calls'[j] = calls[j]
    <3>1. calls[j].on \in Exams /\ calls[j].used \in Nat
      BY <1>2, <1>4 DEF Shaped, Calls
    <3>2. calls[j].used <= wrote[<<"attempt", calls[j].on>>]
      BY <1>2, <1>4 DEF ExamInv
    <3> QED
      BY <1>1, <2>2, <3>1, <3>2
  <2> QED
    BY <1>2, <1>4, <2>1, <2>2
<1>5. ASSUME NEW j \in LiveIn({"attempt"})'
      PROVE  /\ exam.open = calls'[j].on /\ ~exam.result /\ exam.used < MaxAttempts
             /\ calls'[j].stage = "done" => exam.used < wrote'[<<"attempt", calls'[j].on>>]
  <2>1. j \in LiveIn({"attempt"}) /\ j \in Held' /\ calls'[j].op = "attempt"
    BY <1>3, <1>5 DEF LiveIn
  <2>2. /\ exam.open = calls[j].on /\ ~exam.result /\ exam.used < MaxAttempts
        /\ calls[j].stage = "done" => exam.used < wrote[<<"attempt", calls[j].on>>]
    BY <2>1 DEF ExamInv
  <2>3. calls'[j].on = calls[j].on /\ calls[j].on \in Exams
    BY <1>2, <2>1 DEF Shaped
  <2>4. exam.used <= wrote[<<"attempt", calls[j].on>>]
    BY <2>2, <2>3, NoneAssumption DEF ExamInv, AttemptsNotOverstated
  <2>5. calls'[j].stage = "done" => exam.used < wrote'[<<"attempt", calls'[j].on>>]
    <3>1. CASE calls'[j] = q
      BY <1>0, <1>1, <2>1, <2>3, <2>4, <3>1
    <3>2. CASE calls'[j] = calls[j]
      BY <1>0, <1>1, <2>2, <2>3, <3>2
    <3> QED
      BY <1>2, <2>1, <3>1, <3>2
  <2> QED
    BY <2>2, <2>3, <2>5
<1>6. AttemptsNotOverstated'
  <2>1. exam.open # None => exam.open \in Exams /\ exam.used <= wrote[<<"attempt", exam.open>>]
    BY TypeParts DEF RestTyped, ExamStates, ExamInv, AttemptsNotOverstated
  <2> QED
    BY <1>0, <1>1, <2>1 DEF AttemptsNotOverstated
<1>7. /\ Alone({"exam", "exams"})' /\ Alone({"attempt", "autoMark"})'
  BY <1>3 DEF ExamInv, Alone
<1>8. \A j \in LiveIn({"exam", "exams"})' : exam.loading /\ exam.open = None
  BY <1>3 DEF ExamInv
<1>9. \A j \in LiveIn({"attempt", "autoMark"})' : exam.submitting /\ exam.confirm
  BY <1>3 DEF ExamInv
<1>10. exam.confirm /\ ~exam.submitting =>
         exam.open # None /\ exam.finished /\ ~exam.result /\ exam.used < MaxAttempts
  BY DEF ExamInv
<1> QED
  BY <1>4, <1>5, <1>6, <1>7, <1>8, <1>9, <1>10 DEF ExamInv

-----------------------------------------------------------------------------
(* Every step keeps the invariant.                                         *)

LEMMA SameForum ==
  ASSUME ForumInv, TaskInv, UNCHANGED <<forum, active, task>>
  PROVE  ForumInv' /\ TaskInv'
BY DEF ForumInv, TaskInv

\* A step of the page once its course is read, that opens no other module.
LEMMA PageParts ==
  ASSUME ClassInv, NEW gone, NEW ops, Sent(gone, ops), RestTyped', page # "loading",
         UNCHANGED <<page, active, file, progress>>,
         "file" \notin gone \cup ops, "contents" \notin ops, done' \subseteq progress
  PROVE  TypeInv' /\ BadgeInv' /\ PageInv' /\ FileInv'
<1>1. TypeInv /\ BadgeInv /\ PageInv /\ FileInv /\ CallsTyped
  BY TypeParts DEF ClassInv
<1>2. TypeInv'
  BY <1>1, SentTyped, TypeParts
<1>3. BadgeInv'
  BY <1>1, BadgeFrame
<1>4. PageInv'
  BY <1>1, PageFrame
<1>5. FileInv'
  BY <1>1, FileFrame
<1> QED
  BY <1>2, <1>3, <1>4, <1>5

LEMMA ViewStep ==
  ASSUME ClassInv, NEW gone, NEW ops, Sent(gone, ops), RestTyped', page # "loading",
         UNCHANGED <<page, active, file, exam, server, pressed>>,
         "file" \notin gone \cup ops, "contents" \notin ops,
         ops \cap {"exam", "exams", "autoMark"} = {}, ops \cap Counted = {},
         done' \subseteq progress, ForumInv', TaskInv'
  PROVE  ClassInv'
<1>1. TypeInv' /\ BadgeInv' /\ PageInv' /\ FileInv'
  BY PageParts DEF server
<1>2. PressInv'
  BY PressFrame DEF ClassInv, server
<1>3. ExamInv'
  <2>1. ops \cap {"exam", "exams", "attempt", "autoMark"} = {}
    BY DEF Counted
  <2> QED
    BY <2>1, ExamFrame DEF ClassInv, server
<1> QED
  BY <1>1, <1>2, <1>3 DEF ClassInv

\* A press that writes to a task or a forum.
LEMMA PressStep ==
  ASSUME ClassInv, NEW c, Fresh(c), c.op \in {"submit", "topic", "reply"},
         WroteOf(c) \in Written, Presses(WroteOf(c)), RoomIn(calls), calls' = Add(calls, c),
         RestTyped', page # "loading", UNCHANGED <<page, active, done, file, exam, server>>,
         ForumInv', TaskInv'
  PROVE  ClassInv'
<1>1. TypeInv /\ CallsTyped
  BY TypeParts DEF ClassInv
<1>2. Sent({}, {c.op})
  BY <1>1, SendsOne
<1>3. TypeInv' /\ BadgeInv' /\ PageInv' /\ FileInv'
  <2>1. done' \subseteq progress
    BY DEF ClassInv, BadgeInv
  <2>2. /\ "file" \notin {} \cup {c.op} /\ "contents" \notin {c.op}
        /\ UNCHANGED <<page, active, file, progress>>
    BY DEF server
  <2> QED
    BY <1>2, <2>1, <2>2, PageParts
<1>4. PressInv'
  <2>1. PressInv /\ c.op \in Counted /\ wrote' = wrote
    BY DEF ClassInv, Counted, server
  <2> QED
    BY <1>1, <2>1, PressSends
<1>5. ExamInv'
  <2>1. {c.op} \cap {"exam", "exams", "attempt", "autoMark"} = {} /\ ExamInv
    BY DEF ClassInv
  <2> QED
    BY <1>1, <1>2, <2>1, ExamFrame DEF server
<1> QED
  BY <1>3, <1>4, <1>5 DEF ClassInv

LEMMA MarkKeeps ==
  ASSUME ClassInv, MarkAsCompleted
  PROVE  ClassInv'
<1>1. RestTyped' /\ Sent({}, {"mark"})
  BY MarkSends DEF ClassInv
<1>2. ForumInv' /\ TaskInv'
  BY SameForum DEF ClassInv, MarkAsCompleted, views
<1>3. page # "loading" /\ UNCHANGED <<page, active, file, exam, server, pressed>> /\ done' \subseteq progress
  BY DEF ClassInv, BadgeInv, MarkAsCompleted, Step, views
<1> QED
  BY <1>1, <1>2, <1>3, ViewStep DEF Counted

LEMMA SubmitKeeps ==
  ASSUME ClassInv, SubmitTask
  PROVE  ClassInv'
<1>1. RestTyped' /\ active \in Tasks
  BY SubmitSends DEF ClassInv
<1>2. PICK c : c = Call("submit", active)
  OBVIOUS
<1>3. Fresh(c) /\ c.op = "submit" /\ c.on = active
  BY <1>1, <1>2, FreshOf DEF Call, TaskOps
<1>4. WroteOf(c) = <<"submit", active>> /\ WroteOf(c) \in Written
  BY <1>1, <1>3 DEF WroteOf, Written
<1>5. ForumInv' /\ TaskInv'
  <2>1. task' = [task EXCEPT !.submitting = TRUE] /\ task \in TaskStates
    BY TypeParts DEF SubmitTask, ClassInv, RestTyped
  <2>2. task'.for = task.for /\ task'.misread = task.misread /\ task'.status = task.status
    BY <2>1 DEF TaskStates
  <2> QED
    BY <2>2 DEF ClassInv, ForumInv, TaskInv, SubmitTask, shown
<1>6. /\ Presses(WroteOf(c)) /\ RoomIn(calls) /\ calls' = Add(calls, c) /\ page # "loading"
      /\ UNCHANGED <<page, active, done, file, exam, server>>
  BY <1>2, <1>4 DEF SubmitTask, Step, shown
<1> QED
  BY <1>1, <1>3, <1>4, <1>5, <1>6, PressStep

LEMMA CreateTopicKeeps ==
  ASSUME ClassInv, CreateTopic
  PROVE  ClassInv'
<1>1. RestTyped' /\ active \in Forums
  BY CreateTopicSends DEF ClassInv
<1>2. PICK c : c = Call("topic", active)
  OBVIOUS
<1>3. Fresh(c) /\ c.op = "topic" /\ c.on = active
  BY <1>1, <1>2, FreshOf DEF Call, ForumOps
<1>4. WroteOf(c) = <<"topic", active>> /\ WroteOf(c) \in Written
  BY <1>1, <1>3 DEF WroteOf, Written
<1>5. ForumInv' /\ TaskInv'
  <2>1. forum' = [forum EXCEPT !.sending = TRUE] /\ forum \in ForumStates
    BY TypeParts DEF CreateTopic, ClassInv, RestTyped
  <2>2. /\ forum'.key = forum.key /\ forum'.topics = forum.topics
        /\ forum'.error = forum.error /\ forum'.disc = forum.disc
    BY <2>1 DEF ForumStates
  <2> QED
    BY <2>2 DEF ClassInv, ForumInv, TaskInv, CreateTopic, shown
<1>6. /\ Presses(WroteOf(c)) /\ RoomIn(calls) /\ calls' = Add(calls, c) /\ page # "loading"
      /\ UNCHANGED <<page, active, done, file, exam, server>>
  BY <1>2, <1>4 DEF CreateTopic, Step, shown
<1> QED
  BY <1>1, <1>3, <1>4, <1>5, <1>6, PressStep

LEMMA ReplyKeeps ==
  ASSUME ClassInv, Reply
  PROVE  ClassInv'
<1>1. RestTyped' /\ forum.disc \in Forums
  BY ReplySends DEF ClassInv
<1>2. PICK c : c = Call("reply", forum.disc)
  OBVIOUS
<1>3. Fresh(c) /\ c.op = "reply" /\ c.on = forum.disc
  BY <1>1, <1>2, FreshOf DEF Call, ForumOps, PostOps
<1>4. WroteOf(c) = <<"reply", forum.disc>> /\ WroteOf(c) \in Written
  BY <1>1, <1>3 DEF WroteOf, Written
<1>5. ForumInv' /\ TaskInv'
  BY SameForum DEF ClassInv, Reply, shown
<1>6. /\ Presses(WroteOf(c)) /\ RoomIn(calls) /\ calls' = Add(calls, c) /\ page # "loading"
      /\ UNCHANGED <<page, active, done, file, exam, server>>
  BY <1>2, <1>4 DEF Reply, Step, shown
<1> QED
  BY <1>1, <1>3, <1>4, <1>5, <1>6, PressStep

\* "Try again" of the topics and of the posts.
LEMMA RetryKeeps ==
  ASSUME ClassInv, RetryTopics \/ RetryPosts
  PROVE  ClassInv'
<1>1. RestTyped' /\ (Sent({}, {"againTopics"}) \/ Sent({}, {"againPosts"}))
  BY RetryTopicsSends, RetryPostsSends DEF ClassInv
<1>2. ForumInv' /\ TaskInv'
  BY SameForum DEF ClassInv, RetryTopics, RetryPosts, views, shown
<1>3. page # "loading" /\ UNCHANGED <<page, active, file, exam, server, pressed>> /\ done' \subseteq progress
  BY DEF ClassInv, BadgeInv, RetryTopics, RetryPosts, Step, views, shown
<1>4. CASE Sent({}, {"againTopics"})
  BY <1>1, <1>2, <1>3, <1>4, ViewStep DEF Counted
<1>5. CASE Sent({}, {"againPosts"})
  BY <1>1, <1>2, <1>3, <1>5, ViewStep DEF Counted
<1> QED
  BY <1>1, <1>4, <1>5

LEMMA OpenDiscussionKeeps ==
  ASSUME ClassInv, OpenDiscussion
  PROVE  ClassInv'
<1>1. RestTyped' /\ Sent({}, {"posts"})
  BY OpenDiscussionSends DEF ClassInv
<1>2. forum.key = active /\ forum.topics = active
  BY NoneAssumption DEF OpenDiscussion, TopicsShown, ClassInv, ForumInv, Entries, Modules
<1>3. ForumInv' /\ TaskInv'
  <2>1. forum' = [forum EXCEPT !.disc = forum.topics] /\ forum \in ForumStates
    BY TypeParts DEF OpenDiscussion, ClassInv, RestTyped
  <2>2. /\ forum'.key = forum.key /\ forum'.topics = forum.topics
        /\ forum'.error = forum.error /\ forum'.disc = active
    BY <1>2, <2>1 DEF ForumStates
  <2> QED
    BY <1>2, <2>2 DEF ClassInv, ForumInv, TaskInv, OpenDiscussion, shown
<1>4. page # "loading" /\ UNCHANGED <<page, active, file, exam, server, pressed>> /\ done' \subseteq progress
  BY DEF ClassInv, BadgeInv, OpenDiscussion, Step, shown
<1> QED
  BY <1>1, <1>3, <1>4, ViewStep DEF Counted

LEMMA BackToTopicsKeeps ==
  ASSUME ClassInv, BackToTopics
  PROVE  ClassInv'
<1>1. RestTyped' /\ Sent(PostOps, {})
  BY BackToTopicsSends DEF ClassInv
<1>3. ForumInv' /\ TaskInv'
  <2>1. forum' = [forum EXCEPT !.disc = None] /\ forum \in ForumStates
    BY TypeParts DEF BackToTopics, ClassInv, RestTyped
  <2>2. /\ forum'.key = forum.key /\ forum'.topics = forum.topics
        /\ forum'.error = forum.error /\ forum'.disc = None
    BY <2>1 DEF ForumStates
  <2> QED
    BY <2>2 DEF ClassInv, ForumInv, TaskInv, BackToTopics, shown
<1>4. page # "loading" /\ UNCHANGED <<page, active, file, exam, server, pressed>> /\ done' \subseteq progress
  BY DEF ClassInv, BadgeInv, BackToTopics, Step, shown
<1> QED
  BY <1>1, <1>3, <1>4, ViewStep DEF PostOps

LEMMA HtmlKeeps ==
  ASSUME ClassInv, NEW i \in 1..Slots, HtmlReady(i)
  PROVE  ClassInv'
<1>1. RestTyped' /\ Sent({"html"}, {})
  BY HtmlSends DEF ClassInv
<1>2. page # "loading"
  BY TypeParts, PageThere DEF ClassInv, HtmlReady
<1>3. ForumInv' /\ TaskInv'
  BY SameForum DEF ClassInv, HtmlReady, views
<1>4. UNCHANGED <<page, active, file, exam, server, pressed>> /\ done' \subseteq progress
  BY DEF ClassInv, BadgeInv, HtmlReady, Quiet, views
<1> QED
  BY <1>1, <1>2, <1>3, <1>4, ViewStep

LEMMA MarkedKeeps ==
  ASSUME ClassInv, NEW i \in 1..Slots, Marked(i)
  PROVE  ClassInv'
<1>1. RestTyped' /\ Sent({"mark"}, {})
  BY MarkedSends DEF ClassInv
<1>2. page # "loading"
  BY TypeParts, PageThere DEF ClassInv, Marked
<1>3. ForumInv' /\ TaskInv'
  BY SameForum DEF ClassInv, Marked, views
<1>4. done' \subseteq progress
  <2>1. done \subseteq progress
    BY DEF ClassInv, BadgeInv
  <2>2. CASE Answers(i, {"mark"}) /\ done' = done \cup {calls[i].on}
    <3>1. calls[i] # None /\ calls[i].op = "mark" /\ calls[i].stage = "done"
      BY <2>2 DEF Answers, PlainReads, EffectReads, Refetches
    <3>2. calls[i].on \in progress
      BY <3>1 DEF ClassInv, BadgeInv, Held
    <3> QED
      BY <2>1, <2>2, <3>2
  <2> QED
    BY <2>1, <2>2 DEF Marked
<1>5. UNCHANGED <<page, active, file, exam, server, pressed>>
  BY DEF Marked, Quiet, views
<1> QED
  BY <1>1, <1>2, <1>3, <1>4, <1>5, ViewStep

LEMMA StatusKeeps ==
  ASSUME ClassInv, NEW i \in 1..Slots, StatusRead(i)
  PROVE  ClassInv'
<1>1. RestTyped' /\ Sent({"status", "restatus"}, {})
  BY StatusSends DEF ClassInv
<1>2. page # "loading"
  BY TypeParts, PageThere DEF ClassInv, StatusRead
<1>3. TaskInv'
  BY TypeParts DEF ClassInv, RestTyped, TaskStates, TaskInv, StatusRead
<1>4. ForumInv'
  BY DEF ClassInv, ForumInv, StatusRead, shown
<1>5. UNCHANGED <<page, active, file, exam, server, pressed>> /\ done' \subseteq progress
  BY DEF ClassInv, BadgeInv, StatusRead, Quiet, shown
<1> QED
  BY <1>1, <1>2, <1>3, <1>4, <1>5, ViewStep

LEMMA TaskSubmittedKeeps ==
  ASSUME ClassInv, NEW i \in 1..Slots, TaskSubmitted(i)
  PROVE  ClassInv'
<1>1. RestTyped' /\ Sent({"submit"}, {"restatus"})
  BY TaskSubmittedSends DEF ClassInv
<1>2. page # "loading"
  BY TypeParts, PageThere DEF ClassInv, TaskSubmitted
<1>3. TaskInv'
  BY TypeParts DEF ClassInv, RestTyped, TaskStates, TaskInv, TaskSubmitted
<1>4. ForumInv'
  BY DEF ClassInv, ForumInv, TaskSubmitted, shown
<1>5. UNCHANGED <<page, active, file, exam, server, pressed>> /\ done' \subseteq progress
  BY DEF ClassInv, BadgeInv, TaskSubmitted, Quiet, shown
<1> QED
  BY <1>1, <1>2, <1>3, <1>4, <1>5, ViewStep DEF Counted

LEMMA TopicsKeeps ==
  ASSUME ClassInv, NEW i \in 1..Slots, TopicsRead(i)
  PROVE  ClassInv'
<1> DEFINE ops == {"topics", "retopics", "againTopics"}
           free == [forum EXCEPT !.sending = @ /\ calls[i].op # "retopics"]
           good == [free EXCEPT !.topics = calls[i].on, !.error = FALSE, !.key = calls[i].on]
           bad == [free EXCEPT !.error = TRUE, !.key = calls[i].on]
<1>1. RestTyped' /\ Sent(ForumOps, {})
  BY TopicsSends DEF ClassInv
<1>a. Answers(i, ops) \/ Fails(i, ops)
  BY DEF TopicsRead
<1>2. page # "loading"
  BY <1>a, TypeParts, PageThere DEF ClassInv
<1>b. calls[i].on \in Forums
  <2>1. calls[i].op \in ops /\ Shaped(calls[i])
    BY <1>a, TypeParts, Heard DEF ClassInv
  <2> QED
    BY <2>1 DEF Shaped, ForumOps
<1>c. calls[i].on # None
  BY <1>b, NoneAssumption DEF Entries, Modules
<1>3. ForumInv'
  <2>1. forum \in ForumStates
    BY TypeParts DEF ClassInv, RestTyped
  <2>2. PICK f : f \in {good, bad} /\ forum' = Settle(f, active)
    BY DEF TopicsRead, Renders
  <2>3. /\ f.key = calls[i].on /\ f.disc = forum.disc /\ f.error \in BOOLEAN
        /\ f.error \/ f.topics = calls[i].on
        /\ f \in ForumStates
    BY <1>b, <2>1, <2>2 DEF ForumStates
  <2>4. CASE calls[i].on = active
    <3>1. forum' = f
      BY <2>2, <2>3, <2>4 DEF Settle
    <3> QED
      BY <2>3, <2>4, <3>1 DEF ClassInv, ForumInv, TopicsRead, shown
  <2>5. CASE calls[i].on # active
    <3>1. forum' = [f EXCEPT !.key = None, !.disc = None]
      BY <1>c, <2>2, <2>3, <2>5 DEF Settle
    <3>2. forum'.key = None /\ forum'.disc = None
      BY <2>3, <3>1 DEF ForumStates
    <3> QED
      BY <3>2 DEF ForumInv
  <2> QED
    BY <2>4, <2>5
<1>4. TaskInv'
  BY DEF ClassInv, TaskInv, TopicsRead
<1>5. UNCHANGED <<page, active, file, exam, server, pressed>> /\ done' \subseteq progress
  BY DEF ClassInv, BadgeInv, TopicsRead, Quiet, shown
<1> QED
  BY <1>1, <1>2, <1>3, <1>4, <1>5, ViewStep DEF ForumOps, PostOps

LEMMA TopicCreatedKeeps ==
  ASSUME ClassInv, NEW i \in 1..Slots, TopicCreated(i)
  PROVE  ClassInv'
<1>1. RestTyped' /\ Sent({"topic"}, {"retopics"})
  BY TopicCreatedSends DEF ClassInv
<1>2. page # "loading"
  BY TypeParts, PageThere DEF ClassInv, TopicCreated
<1>3. ForumInv'
  <2>1. forum \in ForumStates /\ (forum' = forum \/ forum' = [forum EXCEPT !.sending = FALSE])
    BY TypeParts DEF ClassInv, RestTyped, TopicCreated
  <2>2. /\ forum'.key = forum.key /\ forum'.topics = forum.topics
        /\ forum'.error = forum.error /\ forum'.disc = forum.disc
    BY <2>1 DEF ForumStates
  <2> QED
    BY <2>2 DEF ClassInv, ForumInv, TopicCreated, shown
<1>4. TaskInv'
  BY DEF ClassInv, TaskInv, TopicCreated
<1>5. UNCHANGED <<page, active, file, exam, server, pressed>> /\ done' \subseteq progress
  BY DEF ClassInv, BadgeInv, TopicCreated, Quiet, shown
<1> QED
  BY <1>1, <1>2, <1>3, <1>4, <1>5, ViewStep DEF Counted

LEMMA PostsReadKeeps ==
  ASSUME ClassInv, NEW i \in 1..Slots, PostsRead(i)
  PROVE  ClassInv'
<1>1. RestTyped' /\ Sent(PostOps, {})
  BY PostsReadSends DEF ClassInv
<1>2. page # "loading"
  <2>1. Answers(i, {"posts", "reposts", "againPosts"}) \/ Fails(i, {"posts", "reposts", "againPosts"})
    BY DEF PostsRead
  <2> QED
    BY <2>1, TypeParts, PageThere DEF ClassInv
<1>3. ForumInv' /\ TaskInv'
  BY SameForum DEF ClassInv, PostsRead, shown
<1>5. UNCHANGED <<page, active, file, exam, server, pressed>> /\ done' \subseteq progress
  BY DEF ClassInv, BadgeInv, PostsRead, Quiet, shown
<1> QED
  BY <1>1, <1>2, <1>3, <1>5, ViewStep DEF PostOps

LEMMA ReplySentKeeps ==
  ASSUME ClassInv, NEW i \in 1..Slots, ReplySent(i)
  PROVE  ClassInv'
<1>1. RestTyped' /\ Sent({"reply"}, {"reposts"})
  BY ReplySentSends DEF ClassInv
<1>2. page # "loading"
  BY TypeParts, PageThere DEF ClassInv, ReplySent
<1>3. ForumInv' /\ TaskInv'
  BY SameForum DEF ClassInv, ReplySent, shown
<1>5. UNCHANGED <<page, active, file, exam, server, pressed>> /\ done' \subseteq progress
  BY DEF ClassInv, BadgeInv, ReplySent, Quiet, shown
<1> QED
  BY <1>1, <1>2, <1>3, <1>5, ViewStep DEF Counted

LEMMA FileReadKeeps ==
  ASSUME ClassInv, NEW i \in 1..Slots, FileRead(i)
  PROVE  ClassInv'
<1>0. TypeInv /\ CallsTyped
  BY TypeParts DEF ClassInv
<1>1. RestTyped' /\ Sent({"file"}, {})
  BY <1>0, FileReadSends
<1>2. page # "loading"
  <2>1. Answers(i, {"file"}) \/ Fails(i, {"file"})
    BY DEF FileRead
  <2> QED
    BY <1>0, <2>1, PageThere DEF ClassInv
<1>3. ForumInv' /\ TaskInv'
  BY SameForum DEF ClassInv, FileRead, shown
<1>4. UNCHANGED <<page, active, exam, server, pressed, done>>
  BY DEF FileRead, Quiet, shown
<1>5. TypeInv' /\ BadgeInv'
  <2>1. BadgeInv /\ progress' = progress /\ done' \subseteq progress
    BY <1>4 DEF ClassInv, BadgeInv, server
  <2> QED
    BY <1>0, <1>1, <2>1, SentTyped, TypeParts, BadgeFrame
<1>6. PressInv'
  BY <1>0, <1>1, <1>4, PressFrame DEF ClassInv, server
<1>7. PageInv'
  BY <1>0, <1>1, <1>2, <1>4, PageFrame DEF ClassInv
<1>8. ExamInv'
  BY <1>0, <1>1, <1>4, ExamFrame DEF ClassInv, server
<1>9. FileInv'
  <2>1. ASSUME NEW j \in 1..Slots, calls'[j] # None, calls'[j].op = "file"
        PROVE  calls'[j].on = active
    <3>1. calls'[j] = calls[j]
      <4>1. calls'[j].op \notin Writes /\ calls'[j].op \notin {}
        BY <2>1 DEF Writes, Counted
      <4> QED
        BY <1>0, <1>1, <2>1, <4>1, SentOne
    <3> QED
      BY <2>1, <3>1 DEF ClassInv, FileInv, Held
  <2>2. file'.error \/ file'.live
    <3>1. PICK ok \in BOOLEAN : file' = [key |-> calls[i].on, live |-> ok, error |-> ~ok]
      BY DEF FileRead
    <3> QED
      BY <3>1
  <2> QED
    BY <1>4, <2>1, <2>2 DEF FileInv, Held
<1> QED
  BY <1>3, <1>5, <1>6, <1>7, <1>8, <1>9 DEF ClassInv

LEMMA CourseReadKeeps ==
  ASSUME ClassInv, NEW i \in 1..Slots, CourseRead(i)
  PROVE  ClassInv'
<1>0. TypeInv /\ CallsTyped
  BY TypeParts DEF ClassInv
<1>1. RestTyped' /\ Sent({"contents"}, EffectReads)
  BY <1>0, CourseReadSends
<1>a. Answers(i, {"contents"}) \/ Fails(i, {"contents"})
  BY DEF CourseRead
<1>b. calls[i] # None /\ calls[i].mine /\ calls[i].op = "contents" /\ calls[i] \in Calls
  <2>1. calls[i] # None /\ calls[i].mine /\ calls[i].op \in {"contents"} /\ calls[i] \in Calls
    BY <1>0, <1>a, Heard
  <2> QED
    BY <2>1
<1>2. page = "loading" /\ active = None /\ file.key = None
  BY <1>b DEF ClassInv, PageInv, Live, Held
<1>c. course.first \in Entries \cup {None}
  BY CoursesAssumption, <1>0, TypeParts DEF RestTyped, PageTyped, Entries
<1>d. UNCHANGED <<task, forum, posts, file, exam, server, pressed>>
  BY DEF CourseRead, views, Quiet
<1>e. page' # "loading" /\ done' \subseteq progress
  <2>1. done \subseteq progress /\ calls[i].marks \subseteq progress
    BY <1>b DEF ClassInv, BadgeInv, Held
  <2> QED
    BY <2>1 DEF CourseRead
<1>f. \/ calls'[i] = Effect(course.first) /\ active' = course.first
      \/ calls'[i] = None /\ active' = None
  <2>1. calls \in [1..Slots -> Calls \cup {None}]
    BY <1>0 DEF CallsTyped
  <2>2. calls[i].op \notin Writes
    BY <1>b DEF Writes, Counted
  <2> QED
    BY <1>2, <2>1, <2>2 DEF CourseRead, Then, Closed
<1>g. calls'[i] # None => calls'[i].op \in EffectReads /\ calls'[i].on = active'
  BY <1>c, <1>f, EffectIs
<1>h. ASSUME NEW j \in 1..Slots, j # i
      PROVE  calls'[j] = calls[j] /\ (calls[j] # None => ~calls[j].mine)
  <2>1. calls \in [1..Slots -> Calls \cup {None}]
    BY <1>0 DEF CallsTyped
  <2>2. calls'[j] = calls[j]
    BY <1>h, <2>1 DEF CourseRead, Then, Closed
  <2>3. ASSUME calls[j] # None, calls[j].mine PROVE FALSE
    <3>1. j \in Live /\ i \in Live
      BY <1>b, <2>3 DEF Live, Held
    <3>2. calls[j].op = "contents"
      BY <1>2, <3>1 DEF ClassInv, PageInv
    <3> QED
      BY <1>b, <1>h, <3>1, <3>2 DEF ClassInv, PageInv, Alone, LiveIn
  <2> QED
    BY <2>2, <2>3
<1>3. TypeInv' /\ BadgeInv'
  <2>1. BadgeInv /\ progress' = progress /\ done' \subseteq progress
    BY <1>d, <1>e DEF ClassInv, server
  <2> QED
    BY <1>0, <1>1, <2>1, SentTyped, TypeParts, BadgeFrame
<1>4. PressInv'
  <2>1. EffectReads \cap Counted = {} /\ wrote' = wrote /\ pressed' = pressed /\ PressInv
    BY <1>d DEF EffectReads, Counted, server, ClassInv
  <2> QED
    BY <1>0, <1>1, <2>1, PressFrame
<1>5. PageInv'
  <2>1. ASSUME NEW j \in Live' PROVE calls'[j].op # "contents"
    BY <1>g, <1>h, <2>1 DEF Live, Held, EffectReads
  <2> QED
    BY <1>e, <2>1 DEF PageInv, Alone, LiveIn
<1>6. ForumInv' /\ TaskInv'
  <2>1. forum.key = None /\ forum.disc = None
    BY <1>2 DEF ClassInv, ForumInv
  <2> QED
    BY <1>d, <2>1 DEF ClassInv, ForumInv, TaskInv
<1>7. FileInv'
  <2>1. ASSUME NEW j \in 1..Slots, calls'[j] # None, calls'[j].op = "file"
        PROVE  calls'[j].on = active'
    <3>1. CASE j = i
      BY <1>g, <2>1, <3>1
    <3>2. CASE j # i
      <4>1. calls[j] # None /\ calls[j].op = "file" /\ ~calls[j].mine
        BY <1>h, <2>1, <3>2
      <4>2. Shaped(calls[j])
        BY <1>0, <4>1 DEF CallsTyped, Held
      <4> QED
        BY <4>1, <4>2 DEF Shaped, Writes, Counted
    <3> QED
      BY <3>1, <3>2
  <2> QED
    BY <1>2, <1>d, <2>1 DEF FileInv, Held
<1>8. ExamInv'
  <2>1. EffectReads \cap {"exam", "exams", "attempt", "autoMark"} = {} /\ ExamInv
        /\ UNCHANGED <<exam, wrote>>
    BY <1>d DEF EffectReads, ClassInv, server
  <2> QED
    BY <1>0, <1>1, <2>1, ExamFrame
<1> QED
  BY <1>3, <1>4, <1>5, <1>6, <1>7, <1>8 DEF ClassInv

\* The exams.
LEMMA ExamStep ==
  ASSUME ClassInv, NEW gone, NEW ops, Sent(gone, ops), RestTyped', page # "loading",
         UNCHANGED <<shown, task, forum, posts, file>>, UNCHANGED server,
         "file" \notin gone \cup ops, "contents" \notin ops, PressInv', ExamInv'
  PROVE  ClassInv'
<1>1. TypeInv' /\ BadgeInv' /\ PageInv' /\ FileInv'
  <2>1. UNCHANGED <<page, active, file, progress>> /\ done' \subseteq progress
    BY DEF shown, server, ClassInv, BadgeInv
  <2> QED
    BY <2>1, PageParts
<1>2. ForumInv' /\ TaskInv'
  BY SameForum DEF ClassInv, shown
<1> QED
  BY <1>1, <1>2 DEF ClassInv

LEMMA LiveKept ==
  ASSUME CallsTyped, NEW gone, NEW ops, Sent(gone, ops), NEW s, s \cap ops = {},
         NEW i \in LiveIn(s)'
  PROVE  i \in LiveIn(s) /\ calls'[i] = calls[i]
<1>1. i \in 1..Slots /\ calls'[i] # None /\ calls'[i].mine /\ calls'[i].op \in s
  BY DEF LiveIn, Live, Held
<1>2. calls'[i] = calls[i]
  <2>1. calls'[i].op \notin ops
    BY <1>1
  <2> QED
    BY <1>1, <2>1, SentOne
<1> QED
  BY <1>1, <1>2 DEF LiveIn, Live, Held

LEMMA AttemptsRead ==
  ASSUME CallsTyped, ExamInv, NEW gone, NEW ops, Sent(gone, ops),
         wrote \in [Written -> Nat], wrote' = wrote
  PROVE  \A i \in Held' : calls'[i].op = "exam" =>
           calls'[i].used <= wrote'[<<"attempt", calls'[i].on>>]
<1> SUFFICES ASSUME NEW i \in 1..Slots, calls'[i] # None, calls'[i].op = "exam"
             PROVE  calls'[i].used <= wrote[<<"attempt", calls'[i].on>>]
  BY DEF Held
<1>1. calls'[i] = calls[i] \/ Fresh(calls'[i])
  <2>1. calls'[i].op \notin Writes
    BY DEF Writes, Counted
  <2> QED
    BY <2>1, SentOne
<1>2. CASE calls'[i] = calls[i]
  BY <1>2 DEF ExamInv, Held
<1>3. CASE Fresh(calls'[i])
  <2>1. calls'[i].used = 0 /\ calls'[i].on \in Exams
    BY <1>3 DEF Fresh, Shaped
  <2>2. wrote[<<"attempt", calls'[i].on>>] \in Nat
    BY <2>1 DEF Written
  <2> QED
    BY <2>1, <2>2
<1> QED
  BY <1>1, <1>2, <1>3

LEMMA OneEnds ==
  ASSUME CallsTyped, NEW gone, NEW ops, Sent(gone, ops), NEW s, s \cap ops = {},
         Alone(s), NEW i \in LiveIn(s), calls'[i] # calls[i]
  PROVE  LiveIn(s)' = {}
<1> SUFFICES ASSUME NEW j \in LiveIn(s)' PROVE FALSE
  OBVIOUS
<1>1. j \in LiveIn(s) /\ calls'[j] = calls[j]
  BY LiveKept
<1> QED
  BY <1>1 DEF Alone

\* While no exam is open there is no attempt under way, and the
\* confirmation, if it is set at all, waits for the module to be marked.
LEMMA NoneOpen ==
  ASSUME TypeInv, ExamInv, exam.open = None
  PROVE  LiveIn({"attempt"}) = {} /\ ~(exam.confirm /\ ~exam.submitting)
<1>1. ASSUME NEW i \in LiveIn({"attempt"}) PROVE FALSE
  <2>1. calls[i].on = None
    BY <1>1 DEF ExamInv
  <2>2. Shaped(calls[i]) /\ calls[i].op = "attempt"
    BY <1>1, TypeParts DEF CallsTyped, LiveIn, Live
  <2> QED
    BY <2>1, <2>2, NoneAssumption DEF Shaped
<1> QED
  BY <1>1 DEF ExamInv

\* "Load assessments" and "Start".
LEMMA AskKeeps ==
  ASSUME ClassInv, NEW c, Fresh(c), c.op \in {"exam", "exams"}, RoomIn(calls),
         calls' = Add(calls, c), RestTyped', page # "loading",
         exam' = [exam EXCEPT !.loading = TRUE], exam.open = None, ~exam.loading,
         UNCHANGED <<shown, task, forum, posts, file>>, UNCHANGED <<server, pressed>>
  PROVE  ClassInv'
<1>0. TypeInv /\ CallsTyped /\ ExamInv /\ PressInv
  BY TypeParts DEF ClassInv
<1>1. PICK j \in 1..Slots :
        calls[j] = None /\ calls'[j] = c /\ \A i \in 1..Slots : i = j \/ calls'[i] = calls[i]
  BY <1>0, SendsOne
<1>2. Sent({}, {c.op})
  BY <1>0, SendsOne
<1>3. exam \in ExamStates /\ wrote \in [Written -> Nat]
  BY <1>0, TypeParts DEF RestTyped, StoredTyped
<1>4. /\ exam'.open = None /\ exam'.loading /\ exam'.confirm = exam.confirm
      /\ exam'.submitting = exam.submitting
  BY <1>3 DEF ExamStates
<1>5. LiveIn({"exam", "exams"}) = {}
  BY <1>0 DEF ExamInv
<1>6. Alone({"exam", "exams"})'
  <2>1. ASSUME NEW i \in LiveIn({"exam", "exams"})' PROVE i = j
    <3>1. CASE calls'[i] = calls[i]
      BY <1>5, <2>1, <3>1 DEF LiveIn, Live, Held
    <3> QED
      BY <1>1, <2>1, <3>1 DEF LiveIn, Live, Held
  <2> QED
    BY <2>1 DEF Alone
<1>7. LiveIn({"attempt"})' = {} /\ ~(exam.confirm /\ ~exam.submitting)
  <2>1. {"attempt"} \cap {c.op} = {}
    OBVIOUS
  <2>2. LiveIn({"attempt"}) = {} /\ ~(exam.confirm /\ ~exam.submitting)
    BY <1>0, NoneOpen
  <2>3. \A i \in LiveIn({"attempt"})' : i \in LiveIn({"attempt"})
    BY <1>0, <1>2, <2>1, LiveKept
  <2> QED
    BY <2>2, <2>3
<1>8. \A i \in LiveIn({"attempt", "autoMark"})' : i \in LiveIn({"attempt", "autoMark"})
  <2>1. {"attempt", "autoMark"} \cap {c.op} = {}
    OBVIOUS
  <2> QED
    BY <1>0, <1>2, <2>1, LiveKept
<1>9. \A i \in Held' : calls'[i].op = "exam" =>
        calls'[i].used <= wrote'[<<"attempt", calls'[i].on>>]
  BY <1>0, <1>2, <1>3, AttemptsRead DEF server
<1>10. ExamInv'
  <2>1. \A i \in LiveIn({"attempt", "autoMark"})' : exam'.submitting /\ exam'.confirm
    BY <1>0, <1>4, <1>8 DEF ExamInv
  <2>2. Alone({"attempt", "autoMark"})'
    BY <1>0, <1>8 DEF ExamInv, Alone
  <2> QED
    BY <1>4, <1>6, <1>7, <1>9, <2>1, <2>2 DEF ExamInv, AttemptsNotOverstated
<1>11. PressInv'
  <2>1. {c.op} \cap Counted = {} /\ wrote' = wrote /\ pressed' = pressed
    BY DEF Counted, server
  <2> QED
    BY <1>0, <1>2, <2>1, PressFrame
<1> QED
  <2>1. "file" \notin {} \cup {c.op} /\ "contents" \notin {c.op}
    OBVIOUS
  <2> QED
    BY <1>2, <1>10, <1>11, <2>1, ExamStep

LEMMA FetchExamKeeps ==
  ASSUME ClassInv, FetchExam
  PROVE  ClassInv'
<1>1. RestTyped'
  BY FetchExamSends DEF ClassInv
<1>2. PICK c : c = Call("exams", None)
  OBVIOUS
<1>3. Fresh(c) /\ c.op \in {"exam", "exams"}
  BY <1>2, FreshOf DEF Call
<1>4. exam.open = None /\ ~exam.loading /\ page # "loading"
  BY DEF FetchExam, ExamScreen, Step
<1>5. /\ RoomIn(calls) /\ calls' = Add(calls, c) /\ exam' = [exam EXCEPT !.loading = TRUE]
      /\ UNCHANGED <<shown, task, forum, posts, file>> /\ UNCHANGED <<server, pressed>>
  BY <1>2 DEF FetchExam, Sends, OnExam
<1> QED
  BY <1>1, <1>3, <1>4, <1>5, AskKeeps

LEMMA SelectExamKeeps ==
  ASSUME ClassInv, NEW e \in course.exams, SelectExam(e)
  PROVE  ClassInv'
<1>1. RestTyped' /\ e \in Exams
  <2>1. TypeInv
    BY DEF ClassInv
  <2> QED
    BY <2>1, SelectExamSends, CoursesAssumption, TypeParts DEF RestTyped, PageTyped
<1>2. PICK c : c = Call("exam", e)
  OBVIOUS
<1>3. Fresh(c) /\ c.op \in {"exam", "exams"}
  BY <1>1, <1>2, FreshOf DEF Call
<1>4. exam.open = None /\ ~exam.loading /\ page # "loading"
  BY DEF SelectExam, ExamScreen, Step
<1>5. /\ RoomIn(calls) /\ calls' = Add(calls, c) /\ exam' = [exam EXCEPT !.loading = TRUE]
      /\ UNCHANGED <<shown, task, forum, posts, file>> /\ UNCHANGED <<server, pressed>>
  BY <1>2 DEF SelectExam, Sends, OnExam
<1> QED
  BY <1>1, <1>3, <1>4, <1>5, AskKeeps

\* The buttons that send nothing.
LEMMA ExamButtonsKeep ==
  ASSUME ClassInv, FinishExam \/ ReviewAnswers \/ BackToStart
  PROVE  ClassInv'
<1>0. TypeInv /\ CallsTyped /\ ExamInv /\ PressInv
  BY TypeParts DEF ClassInv
<1>1. RestTyped' /\ Sent({}, {})
  BY <1>0, ExamButtons
<1>2. /\ page # "loading" /\ UNCHANGED <<shown, task, forum, posts, file>>
      /\ UNCHANGED server /\ calls' = calls /\ wrote' = wrote /\ pressed' = pressed
  BY DEF FinishExam, ReviewAnswers, BackToStart, Step, OnExam, server
<1>3. exam \in ExamStates /\ MaxAttempts \in Nat
  BY <1>0, TypeParts, BoundsAssumption DEF RestTyped
<1>4. PressInv'
  BY <1>0, <1>1, <1>2, PressFrame
<1>5. /\ \A s : LiveIn(s)' = LiveIn(s)
      /\ Held' = Held
  BY <1>2 DEF LiveIn, Live, Held
<1>6. CASE FinishExam
  <2>1. exam.open # None /\ ~exam.result /\ exam.used < MaxAttempts
    BY <1>3, <1>6 DEF FinishExam, ExamScreen, ExamStates
  <2>2. /\ exam'.open = exam.open /\ exam'.used = exam.used /\ exam'.loading = exam.loading
        /\ exam'.confirm /\ exam'.finished /\ exam'.submitting = exam.submitting
        /\ exam'.result = exam.result
    BY <1>3, <1>6 DEF FinishExam, OnExam, ExamStates
  <2>3. ExamInv'
    BY <1>0, <1>2, <1>5, <2>1, <2>2 DEF ExamInv, Alone, AttemptsNotOverstated
  <2> QED
    BY <1>1, <1>2, <1>4, <2>3, ExamStep
<1>7. CASE ReviewAnswers
  <2>1. ~exam.submitting
    BY <1>7 DEF ReviewAnswers
  <2>2. /\ exam'.open = exam.open /\ exam'.used = exam.used /\ exam'.loading = exam.loading
        /\ ~exam'.confirm /\ exam'.finished = exam.finished /\ exam'.submitting = exam.submitting
        /\ exam'.result = exam.result
    BY <1>3, <1>7 DEF ReviewAnswers, OnExam, ExamStates
  <2>3. LiveIn({"attempt", "autoMark"}) = {}
    BY <1>0, <2>1 DEF ExamInv
  <2>4. ExamInv'
    BY <1>0, <1>2, <1>5, <2>2, <2>3 DEF ExamInv, Alone, AttemptsNotOverstated
  <2> QED
    BY <1>1, <1>2, <1>4, <2>4, ExamStep
<1>8. CASE BackToStart
  <2>1. exam.open # None /\ (exam.result \/ ~(exam.used < MaxAttempts))
    BY <1>3, <1>8 DEF BackToStart, ExamScreen, ExamStates
  <2>2. /\ exam'.open = None /\ exam'.loading = exam.loading
        /\ exam'.confirm = exam.confirm /\ exam'.submitting = exam.submitting
    BY <1>3, <1>8 DEF BackToStart, OnExam, ExamStates
  <2>3. LiveIn({"attempt"}) = {} /\ LiveIn({"exam", "exams"}) = {}
    BY <1>0, <2>1 DEF ExamInv
  <2>4. ~(exam.confirm /\ ~exam.submitting)
    BY <1>0, <2>1 DEF ExamInv
  <2>5. ExamInv'
    BY <1>0, <1>2, <1>5, <2>2, <2>3, <2>4 DEF ExamInv, Alone, AttemptsNotOverstated
  <2> QED
    BY <1>1, <1>2, <1>4, <2>5, ExamStep
<1> QED
  BY <1>6, <1>7, <1>8

\* The answers to the two reads.
LEMMA AskEnds ==
  ASSUME ClassInv, NEW i \in 1..Slots, NEW ops, ops \subseteq {"exam", "exams"},
         Answers(i, ops) \/ Fails(i, ops), Then(i, None), wrote' = wrote
  PROVE  /\ i \in LiveIn({"exam", "exams"}) /\ exam.open = None
         /\ LiveIn({"exam", "exams"})' = {} /\ LiveIn({"attempt"})' = {}
         /\ ~(exam.confirm /\ ~exam.submitting)
         /\ \A j \in LiveIn({"attempt", "autoMark"})' : j \in LiveIn({"attempt", "autoMark"})
         /\ \A j \in Held' : calls'[j].op = "exam" =>
              calls'[j].used <= wrote'[<<"attempt", calls'[j].on>>]
<1>0. TypeInv /\ CallsTyped /\ ExamInv /\ wrote \in [Written -> Nat]
  BY TypeParts DEF ClassInv, RestTyped, StoredTyped
<1>1. calls[i] # None /\ calls[i].mine /\ calls[i].op \in {"exam", "exams"}
  BY <1>0, Heard
<1>2. i \in LiveIn({"exam", "exams"})
  BY <1>1 DEF LiveIn, Live, Held
<1>3. exam.open = None
  BY <1>0, <1>2 DEF ExamInv
<1>4. Sent(ops, {})
  BY <1>0, Forgets
<1>5. calls'[i] # calls[i]
  BY <1>0, <1>1 DEF Then, CallsTyped
<1>6. LiveIn({"exam", "exams"})' = {}
  <2>1. {"exam", "exams"} \cap {} = {} /\ Alone({"exam", "exams"})
    BY <1>0 DEF ExamInv
  <2> QED
    BY <1>0, <1>2, <1>4, <1>5, <2>1, OneEnds
<1>7. LiveIn({"attempt"})' = {} /\ ~(exam.confirm /\ ~exam.submitting)
  <2>1. {"attempt"} \cap {} = {}
    OBVIOUS
  <2>2. LiveIn({"attempt"}) = {} /\ ~(exam.confirm /\ ~exam.submitting)
    BY <1>0, <1>3, NoneOpen
  <2>3. \A j \in LiveIn({"attempt"})' : j \in LiveIn({"attempt"})
    BY <1>0, <1>4, <2>1, LiveKept
  <2> QED
    BY <2>2, <2>3
<1>8. \A j \in LiveIn({"attempt", "autoMark"})' : j \in LiveIn({"attempt", "autoMark"})
  <2>1. {"attempt", "autoMark"} \cap {} = {}
    OBVIOUS
  <2> QED
    BY <1>0, <1>4, <2>1, LiveKept
<1>9. \A j \in Held' : calls'[j].op = "exam" =>
        calls'[j].used <= wrote'[<<"attempt", calls'[j].on>>]
  BY <1>0, <1>4, AttemptsRead
<1> QED
  BY <1>2, <1>3, <1>6, <1>7, <1>8, <1>9

LEMMA ExamsReadKeeps ==
  ASSUME ClassInv, NEW i \in 1..Slots, ExamsRead(i)
  PROVE  ClassInv'
<1>0. TypeInv /\ CallsTyped /\ ExamInv /\ PressInv /\ PageInv /\ exam \in ExamStates
  BY TypeParts DEF ClassInv, RestTyped
<1>1. RestTyped' /\ Sent({"exams"}, {})
  BY <1>0, ExamsReadSends
<1>2. Answers(i, {"exams"}) \/ Fails(i, {"exams"})
  BY DEF ExamsRead
<1>3. page # "loading"
  BY <1>0, <1>2, PageThere
<1>4. /\ UNCHANGED <<shown, task, forum, posts, file>> /\ Then(i, None)
      /\ UNCHANGED server /\ wrote' = wrote /\ pressed' = pressed
  BY DEF ExamsRead, OnExam, Quiet, server
<1>5. /\ exam.open = None /\ LiveIn({"exam", "exams"})' = {} /\ LiveIn({"attempt"})' = {}
      /\ ~(exam.confirm /\ ~exam.submitting)
      /\ \A j \in LiveIn({"attempt", "autoMark"})' : j \in LiveIn({"attempt", "autoMark"})
      /\ \A j \in Held' : calls'[j].op = "exam" =>
           calls'[j].used <= wrote'[<<"attempt", calls'[j].on>>]
  <2>1. {"exams"} \subseteq {"exam", "exams"}
    OBVIOUS
  <2> QED
    BY <1>2, <1>4, <2>1, AskEnds
<1>6. exam'.open = None /\ exam'.confirm = exam.confirm /\ exam'.submitting = exam.submitting
  BY <1>0, <1>5 DEF ExamsRead, OnExam, ExamStates
<1>7. ExamInv'
  <2>1. \A j \in LiveIn({"attempt", "autoMark"})' : exam'.submitting /\ exam'.confirm
    BY <1>0, <1>5, <1>6 DEF ExamInv
  <2>2. Alone({"attempt", "autoMark"})' /\ Alone({"exam", "exams"})'
    BY <1>0, <1>5 DEF ExamInv, Alone
  <2> QED
    BY <1>5, <1>6, <2>1, <2>2 DEF ExamInv, AttemptsNotOverstated
<1>8. PressInv'
  BY <1>0, <1>1, <1>4, PressFrame
<1> QED
  BY <1>1, <1>3, <1>4, <1>7, <1>8, ExamStep

LEMMA ExamReadKeeps ==
  ASSUME ClassInv, NEW i \in 1..Slots, ExamRead(i)
  PROVE  ClassInv'
<1>0. /\ TypeInv /\ CallsTyped /\ ExamInv /\ PressInv /\ PageInv /\ exam \in ExamStates
      /\ wrote \in [Written -> Nat]
  BY TypeParts DEF ClassInv, RestTyped, StoredTyped
<1>1. RestTyped' /\ Sent({"exam"}, {})
  BY <1>0, ExamReadSends
<1>2. Answers(i, {"exam"}) \/ Fails(i, {"exam"})
  BY DEF ExamRead
<1>3. page # "loading"
  BY <1>0, <1>2, PageThere
<1>4. /\ UNCHANGED <<shown, task, forum, posts, file>> /\ Then(i, None)
      /\ UNCHANGED server /\ wrote' = wrote /\ pressed' = pressed
  BY DEF ExamRead, OnExam, Quiet, server
<1>5. /\ i \in LiveIn({"exam", "exams"}) /\ exam.open = None
      /\ LiveIn({"exam", "exams"})' = {} /\ LiveIn({"attempt"})' = {}
      /\ ~(exam.confirm /\ ~exam.submitting)
      /\ \A j \in LiveIn({"attempt", "autoMark"})' : j \in LiveIn({"attempt", "autoMark"})
      /\ \A j \in Held' : calls'[j].op = "exam" =>
           calls'[j].used <= wrote'[<<"attempt", calls'[j].on>>]
  <2>1. {"exam"} \subseteq {"exam", "exams"}
    OBVIOUS
  <2> QED
    BY <1>2, <1>4, <2>1, AskEnds
<1>a. /\ calls[i].on \in Exams /\ calls[i].used \in Nat
      /\ calls[i].used <= wrote[<<"attempt", calls[i].on>>]
      /\ wrote[<<"attempt", calls[i].on>>] \in Nat
  <2>1. calls[i] # None /\ calls[i].op \in {"exam"} /\ Shaped(calls[i]) /\ calls[i] \in Calls
    BY <1>0, <1>2, Heard
  <2>2. calls[i].on \in Exams /\ calls[i].used \in Nat
    BY <2>1 DEF Shaped, Calls
  <2>3. calls[i].used <= wrote[<<"attempt", calls[i].on>>]
    BY <1>0, <2>1 DEF ExamInv, Held
  <2>4. wrote[<<"attempt", calls[i].on>>] \in Nat
    BY <1>0, <2>2 DEF Written
  <2> QED
    BY <2>2, <2>3, <2>4
<1>b. \/ /\ exam' = [exam EXCEPT !.loading = FALSE]
      \/ \E used \in {calls[i].used, 0} :
           exam' = [exam EXCEPT !.open = calls[i].on, !.used = used, !.loading = FALSE,
                                !.result = FALSE, !.finished = FALSE]
  BY DEF ExamRead, OnExam
<1>6. /\ exam'.confirm = exam.confirm /\ exam'.submitting = exam.submitting
      /\ exam'.open # None => exam'.used <= wrote[<<"attempt", exam'.open>>]
  <2>1. CASE exam' = [exam EXCEPT !.loading = FALSE]
    BY <1>0, <1>5, <2>1 DEF ExamStates
  <2>2. ASSUME NEW used \in {calls[i].used, 0},
               exam' = [exam EXCEPT !.open = calls[i].on, !.used = used, !.loading = FALSE,
                                    !.result = FALSE, !.finished = FALSE]
        PROVE  /\ exam'.confirm = exam.confirm /\ exam'.submitting = exam.submitting
               /\ exam'.used <= wrote[<<"attempt", exam'.open>>]
    <3>1. /\ exam'.confirm = exam.confirm /\ exam'.submitting = exam.submitting
          /\ exam'.open = calls[i].on /\ exam'.used = used
      BY <1>0, <2>2 DEF ExamStates
    <3>2. used <= wrote[<<"attempt", calls[i].on>>]
      BY <1>a, <2>2
    <3> QED
      BY <3>1, <3>2
  <2> QED
    BY <1>b, <2>1, <2>2
<1>7. ExamInv'
  <2>1. \A j \in LiveIn({"attempt", "autoMark"})' : exam'.submitting /\ exam'.confirm
    BY <1>0, <1>5, <1>6 DEF ExamInv
  <2>2. Alone({"attempt", "autoMark"})' /\ Alone({"exam", "exams"})'
    BY <1>0, <1>5 DEF ExamInv, Alone
  <2>3. AttemptsNotOverstated'
    BY <1>4, <1>6 DEF AttemptsNotOverstated
  <2> QED
    BY <1>5, <1>6, <2>1, <2>2, <2>3 DEF ExamInv
<1>8. PressInv'
  BY <1>0, <1>1, <1>4, PressFrame
<1> QED
  BY <1>1, <1>3, <1>4, <1>7, <1>8, ExamStep

\* The confirmed exam is sent.
LEMMA SubmitExamKeeps ==
  ASSUME ClassInv, SubmitExam
  PROVE  ClassInv'
<1>0. /\ TypeInv /\ CallsTyped /\ ExamInv /\ PressInv /\ PageInv /\ exam \in ExamStates
      /\ wrote \in [Written -> Nat] /\ MaxAttempts \in Nat /\ active \in Entries \cup {None}
  BY TypeParts, BoundsAssumption DEF ClassInv, RestTyped, StoredTyped, PageTyped
<1>1. RestTyped' /\ exam.open \in Exams
  BY <1>0, SubmitExamSends
<1>2. PICK c : c = CallBy("attempt", exam.open, active)
  OBVIOUS
<1>3. Fresh(c) /\ c.op = "attempt" /\ c.on = exam.open
  BY <1>0, <1>1, <1>2, FreshOf
<1>4. WroteOf(c) = <<"attempt", exam.open>> /\ WroteOf(c) \in Written
  BY <1>1, <1>3 DEF WroteOf, Written
<1>5. /\ Presses(WroteOf(c)) /\ RoomIn(calls) /\ calls' = Add(calls, c) /\ page # "loading"
      /\ UNCHANGED <<shown, task, forum, posts, file>> /\ UNCHANGED server /\ wrote' = wrote
      /\ ~exam.submitting /\ exam' = [exam EXCEPT !.submitting = TRUE]
  BY <1>2, <1>4 DEF SubmitExam, Step, OnExam, Sends, server
<1>6. /\ exam.open # None /\ ~exam.result /\ exam.used < MaxAttempts /\ exam.confirm
      /\ exam.used \in Nat
  BY <1>0 DEF SubmitExam, ExamScreen, ExamStates
<1>7. /\ exam'.open = exam.open /\ exam'.used = exam.used /\ exam'.loading = exam.loading
      /\ exam'.confirm /\ exam'.submitting /\ ~exam'.result
  BY <1>0, <1>5, <1>6 DEF ExamStates
<1>8. PICK j \in 1..Slots :
        calls[j] = None /\ calls'[j] = c /\ \A i \in 1..Slots : i = j \/ calls'[i] = calls[i]
  BY <1>0, <1>3, <1>5, SendsOne
<1>9. Sent({}, {"attempt"})
  BY <1>0, <1>3, <1>5, SendsOne
<1>10. LiveIn({"exam", "exams"}) = {} /\ LiveIn({"attempt", "autoMark"}) = {}
  BY <1>0, <1>5, <1>6 DEF ExamInv
<1>11. ASSUME NEW i \in LiveIn({"attempt", "autoMark"})' PROVE i = j
  <2>1. CASE calls'[i] = calls[i]
    BY <1>10, <1>11, <2>1 DEF LiveIn, Live, Held
  <2> QED
    BY <1>8, <1>11, <2>1 DEF LiveIn, Live, Held
<1>12. LiveIn({"exam", "exams"})' = {}
  <2>1. {"exam", "exams"} \cap {"attempt"} = {}
    OBVIOUS
  <2> QED
    BY <1>0, <1>9, <1>10, <2>1, LiveKept
<1>13. \A i \in LiveIn({"attempt"})' : i = j
  BY <1>11 DEF LiveIn
<1>14. \A i \in Held' : calls'[i].op = "exam" =>
         calls'[i].used <= wrote'[<<"attempt", calls'[i].on>>]
  BY <1>0, <1>5, <1>9, AttemptsRead
<1>15. ExamInv'
  <2>1. Alone({"attempt", "autoMark"})' /\ Alone({"exam", "exams"})'
    BY <1>11, <1>12 DEF Alone
  <2>2. AttemptsNotOverstated'
    BY <1>0, <1>5, <1>7 DEF ExamInv, AttemptsNotOverstated
  <2>3. \A i \in LiveIn({"attempt"})' :
          /\ exam'.open = calls'[i].on /\ ~exam'.result /\ exam'.used < MaxAttempts
          /\ calls'[i].stage # "done"
    BY <1>3, <1>6, <1>7, <1>8, <1>13 DEF Fresh
  <2> QED
    BY <1>7, <1>12, <1>14, <2>1, <2>2, <2>3 DEF ExamInv
<1>16. PressInv'
  <2>1. c.op \in Counted
    BY <1>3 DEF Counted
  <2> QED
    BY <1>0, <1>3, <1>4, <1>5, <2>1, PressSends
<1> QED
  BY <1>1, <1>5, <1>9, <1>15, <1>16, ExamStep

\* Its answer, and that of the mark of its module.
LEMMA ExamSubmittedKeeps ==
  ASSUME ClassInv, NEW i \in 1..Slots, ExamSubmitted(i)
  PROVE  ClassInv'
<1>0. /\ TypeInv /\ CallsTyped /\ ExamInv /\ PressInv /\ PageInv /\ exam \in ExamStates
      /\ wrote \in [Written -> Nat]
  BY TypeParts DEF ClassInv, RestTyped, StoredTyped
<1>1. RestTyped' /\ Sent({"attempt"}, {"autoMark"})
  BY <1>0, ExamSubmittedSends
<1>2. Answers(i, {"attempt"}) \/ Fails(i, {"attempt"})
  BY DEF ExamSubmitted
<1>3. page # "loading"
  BY <1>0, <1>2, PageThere
<1>4. /\ UNCHANGED <<shown, task, forum, posts, file>>
      /\ UNCHANGED server /\ wrote' = wrote /\ pressed' = pressed
  BY DEF ExamSubmitted, OnExam, Quiet, server
<1>5. /\ calls[i] # None /\ calls[i].mine /\ calls[i].op \in {"attempt"}
      /\ calls[i] \in Calls /\ Shaped(calls[i])
  BY <1>0, <1>2, Heard
<1>6. i \in LiveIn({"attempt"}) /\ i \in LiveIn({"attempt", "autoMark"})
  BY <1>5 DEF LiveIn, Live, Held
<1>7. /\ exam.open = calls[i].on /\ calls[i].on \in Exams /\ exam.open # None
      /\ exam.used \in Nat /\ wrote[<<"attempt", calls[i].on>>] \in Nat
      /\ calls[i].stage = "done" => exam.used < wrote[<<"attempt", calls[i].on>>]
      /\ exam.submitting /\ exam.confirm
  <2>1. calls[i].on \in Exams
    BY <1>5 DEF Shaped
  <2>2. wrote[<<"attempt", calls[i].on>>] \in Nat /\ exam.used \in Nat
    BY <1>0, <2>1 DEF Written, ExamStates
  <2> QED
    BY <1>0, <1>6, <2>1, <2>2, NoneAssumption DEF ExamInv
<1>8. LiveIn({"exam", "exams"})' = {}
  <2>1. {"exam", "exams"} \cap {"autoMark"} = {} /\ LiveIn({"exam", "exams"}) = {}
    BY <1>0, <1>7 DEF ExamInv
  <2> QED
    BY <1>0, <1>1, <2>1, LiveKept
<1>9. \A j \in Held' : calls'[j].op = "exam" =>
         calls'[j].used <= wrote'[<<"attempt", calls'[j].on>>]
  BY <1>0, <1>1, <1>4, AttemptsRead
<1>10. PressInv'
  <2>1. {"autoMark"} \cap Counted = {}
    BY DEF Counted
  <2> QED
    BY <1>0, <1>1, <1>4, <2>1, PressFrame
<1>a. calls \in [1..Slots -> Calls \cup {None}]
  BY <1>0 DEF CallsTyped
<1>11. CASE /\ Answers(i, {"attempt"}) /\ exam' = [exam EXCEPT !.result = TRUE, !.used = @ + 1]
            /\ Then(i, Call("autoMark", calls[i].by))
  <2>1. calls[i].stage = "done"
    BY <1>5, <1>11 DEF Answers, PlainReads, EffectReads, Refetches
  <2>2. /\ exam'.open = exam.open /\ exam'.used = exam.used + 1 /\ exam'.confirm /\ exam'.submitting
    BY <1>0, <1>7, <1>11 DEF ExamStates
  <2>3. calls'[i].op = "autoMark"
    BY <1>a, <1>11 DEF Then, Call, CallBy
  <2>4. ASSUME NEW j \in LiveIn({"attempt", "autoMark"})' PROVE j = i
    <3>1. ASSUME j # i PROVE j \in LiveIn({"attempt", "autoMark"})
      <4>1. calls'[j] = calls[j]
        BY <1>a, <1>11, <2>4, <3>1 DEF Then, LiveIn, Live, Held
      <4> QED
        BY <2>4, <4>1 DEF LiveIn, Live, Held
    <3> QED
      BY <1>0, <1>6, <3>1 DEF ExamInv, Alone
  <2>5. LiveIn({"attempt"})' = {}
    BY <2>3, <2>4 DEF LiveIn
  <2>6. AttemptsNotOverstated'
    BY <1>4, <1>7, <2>1, <2>2 DEF AttemptsNotOverstated
  <2>7. Alone({"attempt", "autoMark"})' /\ Alone({"exam", "exams"})'
    BY <1>8, <2>4 DEF Alone
  <2>8. ExamInv'
    BY <1>8, <1>9, <2>2, <2>5, <2>6, <2>7 DEF ExamInv
  <2> QED
    BY <1>1, <1>3, <1>4, <1>10, <2>8, ExamStep
<1>12. CASE /\ Fails(i, {"attempt"}) /\ Closed(i)
            /\ exam' = [exam EXCEPT !.submitting = FALSE, !.confirm = FALSE]
  <2>1. /\ exam'.open = exam.open /\ exam'.used = exam.used
        /\ ~exam'.confirm /\ ~exam'.submitting
    BY <1>0, <1>12 DEF ExamStates
  <2>2. Sent({"attempt"}, {})
    BY <1>0, <1>12, Closes
  <2>3. LiveIn({"attempt", "autoMark"})' = {}
    <3>1. calls'[i] # calls[i]
      <4>1. calls'[i] = None \/ calls'[i] = [calls[i] EXCEPT !.mine = FALSE]
        BY <1>a, <1>12 DEF Closed
      <4> QED
        BY <1>5, <4>1 DEF Calls
    <3>2. Alone({"attempt", "autoMark"}) /\ {"attempt", "autoMark"} \cap {} = {}
      BY <1>0 DEF ExamInv
    <3> QED
      BY <1>0, <1>6, <2>2, <3>1, <3>2, OneEnds
  <2>4. LiveIn({"attempt"})' = {}
    BY <2>3 DEF LiveIn
  <2>5. AttemptsNotOverstated'
    BY <1>0, <1>4, <2>1 DEF ExamInv, AttemptsNotOverstated
  <2>6. ExamInv'
    BY <1>8, <1>9, <2>1, <2>3, <2>4, <2>5 DEF ExamInv, Alone
  <2> QED
    BY <1>1, <1>3, <1>4, <1>10, <2>6, ExamStep
<1> QED
  BY <1>11, <1>12 DEF ExamSubmitted, OnExam

LEMMA AutoMarkedKeeps ==
  ASSUME ClassInv, NEW i \in 1..Slots, AutoMarked(i)
  PROVE  ClassInv'
<1>0. /\ TypeInv /\ CallsTyped /\ ExamInv /\ PressInv /\ PageInv /\ exam \in ExamStates
      /\ wrote \in [Written -> Nat] /\ calls \in [1..Slots -> Calls \cup {None}]
  BY TypeParts DEF ClassInv, RestTyped, StoredTyped, CallsTyped
<1>1. RestTyped' /\ Sent({"autoMark"}, {})
  BY <1>0, AutoMarkedSends
<1>2. Answers(i, {"autoMark"}) \/ Fails(i, {"autoMark"})
  BY DEF AutoMarked
<1>3. page # "loading"
  BY <1>0, <1>2, PageThere
<1>4. /\ UNCHANGED <<shown, task, forum, posts, file>>
      /\ UNCHANGED server /\ wrote' = wrote /\ pressed' = pressed
      /\ exam' = [exam EXCEPT !.submitting = FALSE, !.confirm = FALSE]
  BY DEF AutoMarked, OnExam, Quiet, server
<1>5. calls[i] # None /\ calls[i].mine /\ calls[i].op \in {"autoMark"} /\ calls[i] \in Calls
  BY <1>0, <1>2, Heard
<1>6. i \in LiveIn({"attempt", "autoMark"})
  BY <1>5 DEF LiveIn, Live, Held
<1>7. LiveIn({"attempt", "autoMark"})' = {}
  <2>1. calls'[i] # calls[i]
    <3>1. calls'[i] = None \/ calls'[i] = [calls[i] EXCEPT !.mine = FALSE]
      BY <1>0 DEF AutoMarked, Closed
    <3> QED
      BY <1>5, <3>1 DEF Calls
  <2>2. Alone({"attempt", "autoMark"}) /\ {"attempt", "autoMark"} \cap {} = {}
    BY <1>0 DEF ExamInv
  <2> QED
    BY <1>0, <1>1, <1>6, <2>1, <2>2, OneEnds
<1>8. LiveIn({"attempt"})' = {}
  BY <1>7 DEF LiveIn
<1>9. /\ exam'.open = exam.open /\ exam'.used = exam.used /\ exam'.loading = exam.loading
      /\ ~exam'.confirm
  BY <1>0, <1>4 DEF ExamStates
<1>10. \A j \in LiveIn({"exam", "exams"})' : j \in LiveIn({"exam", "exams"})
  <2>1. {"exam", "exams"} \cap {} = {}
    OBVIOUS
  <2> QED
    BY <1>0, <1>1, <2>1, LiveKept
<1>11. \A j \in Held' : calls'[j].op = "exam" =>
         calls'[j].used <= wrote'[<<"attempt", calls'[j].on>>]
  BY <1>0, <1>1, <1>4, AttemptsRead
<1>12. ExamInv'
  <2>1. AttemptsNotOverstated'
    BY <1>0, <1>4, <1>9 DEF ExamInv, AttemptsNotOverstated
  <2>2. \A j \in LiveIn({"exam", "exams"})' : exam'.loading /\ exam'.open = None
    BY <1>0, <1>9, <1>10 DEF ExamInv
  <2>3. Alone({"exam", "exams"})' /\ Alone({"attempt", "autoMark"})'
    BY <1>0, <1>7, <1>10 DEF ExamInv, Alone
  <2> QED
    BY <1>7, <1>8, <1>9, <1>11, <2>1, <2>2, <2>3 DEF ExamInv
<1>13. PressInv'
  BY <1>0, <1>1, <1>4, PressFrame
<1> QED
  BY <1>1, <1>3, <1>4, <1>12, <1>13, ExamStep

\* The page is loaded again.
LEMMA ReloadKeeps ==
  ASSUME ClassInv, Reload
  PROVE  ClassInv'
<1>0. TypeInv /\ CallsTyped /\ BadgeInv /\ PressInv /\ ExamInv
      /\ wrote \in [Written -> Nat]
  BY TypeParts DEF ClassInv, RestTyped, StoredTyped
<1>1. RestTyped' /\ Sent(Ops, {"contents"})
  BY <1>0, ReloadSends
<1>2. PICK j \in 1..Slots :
        /\ calls'[j] = Call("contents", None)
        /\ \A i \in 1..Slots : i = j \/ Dropped(calls[i], calls'[i])
  BY <1>0, ReloadSends
<1>3. ASSUME NEW i \in 1..Slots, i # j, calls'[i] # None
      PROVE  ~calls'[i].mine /\ calls'[i].op \in Writes
  <2>1. calls[i] # None /\ calls[i].op \in Writes /\ calls'[i] = [calls[i] EXCEPT !.mine = FALSE]
    BY <1>2, <1>3 DEF Dropped
  <2>2. calls[i] \in Calls
    BY <1>0, <2>1 DEF CallsTyped
  <2> QED
    BY <2>1, <2>2 DEF Calls
<1>4. calls'[j].op = "contents"
  BY <1>2 DEF Call, CallBy
<1>5. /\ page' = "loading" /\ active' = None /\ done' = {} /\ task' = TaskInit /\ forum' = ForumInit
      /\ file' = FileInit /\ exam' = ExamInit /\ progress' = progress /\ wrote' = wrote
      /\ pressed' = pressed
  BY DEF Reload, server
<1>6. \A i \in Live' : i = j
  BY <1>3 DEF Live, Held
<1>7. TypeInv' /\ BadgeInv'
  <2>1. done' \subseteq progress
    BY <1>5
  <2> QED
    BY <1>0, <1>1, <1>5, <2>1, SentTyped, TypeParts, BadgeFrame
<1>8. PressInv'
  <2>1. {"contents"} \cap Counted = {}
    BY DEF Counted
  <2> QED
    BY <1>0, <1>1, <1>5, <2>1, PressFrame
<1>9. PageInv'
  <2>1. Alone({"contents"})'
    BY <1>6 DEF Alone, LiveIn
  <2> QED
    BY <1>4, <1>5, <1>6, <2>1 DEF PageInv, FileInit
<1>10. ForumInv' /\ TaskInv'
  BY <1>5 DEF ForumInv, ForumInit, TaskInv, TaskInit
<1>11. FileInv'
  <2>1. ASSUME NEW i \in Held' PROVE calls'[i].op # "file"
    BY <1>3, <1>4, <2>1 DEF Held, Writes, Counted
  <2> QED
    BY <1>5, <2>1 DEF FileInv, FileInit
<1>12. ExamInv'
  <2>1. ASSUME NEW i \in Held' PROVE calls'[i].op # "exam"
    BY <1>3, <1>4, <2>1 DEF Held, Writes, Counted
  <2>2. ASSUME NEW s, s \in SUBSET ExamOps, NEW i \in LiveIn(s)' PROVE FALSE
    <3>1. i = j /\ calls'[i].op \in ExamOps
      BY <1>6, <2>2 DEF LiveIn
    <3> QED
      BY <1>4, <3>1 DEF ExamOps
  <2>3. /\ {"exam", "exams"} \in SUBSET ExamOps /\ {"attempt"} \in SUBSET ExamOps
        /\ {"attempt", "autoMark"} \in SUBSET ExamOps
    BY DEF ExamOps
  <2>4. /\ LiveIn({"exam", "exams"})' = {} /\ LiveIn({"attempt"})' = {}
        /\ LiveIn({"attempt", "autoMark"})' = {}
    BY <2>2, <2>3
  <2> QED
    BY <1>5, <2>1, <2>4 DEF ExamInv, ExamInit, Alone, AttemptsNotOverstated
<1> QED
  BY <1>7, <1>8, <1>9, <1>10, <1>11, <1>12 DEF ClassInv

\* Another module is opened: the component stays, with what it knows, or a
\* new one takes its place.
LEMMA OpenKeeps ==
  ASSUME ClassInv, NEW m \in Outline, OpenModule(m)
  PROVE  ClassInv'
<1>0. /\ TypeInv /\ CallsTyped /\ BadgeInv /\ PressInv /\ PageInv /\ ForumInv /\ TaskInv /\ ExamInv
      /\ wrote \in [Written -> Nat]
  BY TypeParts DEF ClassInv, RestTyped, StoredTyped
<1>1. RestTyped' /\ m \in Entries /\ Sent(ViewOps \cup EffectReads, EffectReads)
  BY <1>0, OpenSends
<1>2. PICK j \in 1..Slots :
        /\ calls'[j] = Effect(m)
        /\ \A i \in 1..Slots :
             \/ i = j \/ Dropped(calls[i], calls'[i])
             \/ /\ calls'[i] = calls[i] /\ calls[i].op \notin EffectReads
                /\ Kind(m) = Kind(active) \/ calls[i].op \notin ViewOps
  BY <1>0, OpenSends
<1>a. ASSUME NEW i \in 1..Slots, i # j, calls'[i] # None
      PROVE  \/ ~calls'[i].mine /\ calls'[i].op \in Writes
             \/ /\ calls'[i] = calls[i] /\ calls[i].op \notin EffectReads
                /\ Kind(m) = Kind(active) \/ calls[i].op \notin ViewOps
  <2>1. CASE Dropped(calls[i], calls'[i])
    <3>1. calls[i] # None /\ calls[i].op \in Writes /\ calls'[i] = [calls[i] EXCEPT !.mine = FALSE]
      BY <1>a, <2>1 DEF Dropped
    <3>2. calls[i] \in Calls
      BY <1>0, <3>1 DEF CallsTyped
    <3> QED
      BY <3>1, <3>2 DEF Calls
  <2> QED
    BY <1>2, <1>a, <2>1
<1>b. calls'[j] # None => /\ calls'[j].op \in EffectReads /\ calls'[j].on = m
                          /\ calls'[j].op = "file" <=> m \in Files
  BY <1>1, <1>2, EffectIs
<1>c. m \in Files => calls'[j] # None /\ calls'[j].op = "file"
  BY <1>1, <1>2, EffectIs
<1>3. /\ page # "loading" /\ active' = m /\ UNCHANGED <<page, done, progress, wrote, pressed>>
  BY DEF OpenModule, Step, server
<1>4. TypeInv' /\ BadgeInv'
  <2>1. done' \subseteq progress
    BY <1>0, <1>3 DEF BadgeInv
  <2> QED
    BY <1>0, <1>1, <1>3, <2>1, SentTyped, TypeParts, BadgeFrame
<1>5. PressInv'
  <2>1. EffectReads \cap Counted = {}
    BY DEF Counted, EffectReads
  <2> QED
    BY <1>0, <1>1, <1>3, <2>1, PressFrame
<1>6. PageInv'
  <2>1. "contents" \notin EffectReads
    BY DEF EffectReads
  <2> QED
    BY <1>0, <1>1, <1>3, <2>1, PageFrame
<1>7. ForumInv' /\ TaskInv'
  <2>1. TaskInv'
    BY <1>0 DEF OpenModule, TaskInv, TaskInit
  <2>2. CASE forum' = ForumInit
    BY <2>1, <2>2 DEF ForumInv, ForumInit
  <2>3. CASE forum' = Settle(forum, m)
    <3>1. forum \in ForumStates
      BY <1>0, TypeParts DEF RestTyped
    <3>2. CASE forum.key \in {None, m}
      <4>1. forum' = forum
        BY <2>3, <3>2 DEF Settle
      <4>2. m # active /\ m # None
        BY <1>1, NoneAssumption DEF OpenModule
      <4>3. forum.key = None
        BY <1>0, <3>2, <4>2 DEF ForumInv
      <4>4. forum.disc = None
        <5>1. forum.disc # None => active = None /\ forum.disc = active
          BY <1>0, <4>3 DEF ForumInv
        <5> QED
          BY <5>1
      <4> QED
        BY <2>1, <4>1, <4>3, <4>4 DEF ForumInv
    <3>3. CASE forum.key \notin {None, m}
      <4>1. forum' = [forum EXCEPT !.key = None, !.disc = None]
        BY <2>3, <3>3 DEF Settle
      <4>2. forum'.key = None /\ forum'.disc = None
        BY <3>1, <4>1 DEF ForumStates
      <4> QED
        BY <2>1, <4>2 DEF ForumInv
    <3> QED
      BY <3>2, <3>3
  <2>4. forum' = ForumInit \/ forum' = Settle(forum, m)
    BY DEF OpenModule
  <2> QED
    BY <2>1, <2>2, <2>3, <2>4
<1>8. FileInv'
  <2>1. ASSUME NEW i \in Held', calls'[i].op = "file" PROVE calls'[i].on = m
    <3>1. CASE i = j
      BY <1>b, <2>1, <3>1 DEF Held
    <3>2. CASE i # j
      BY <1>a, <2>1, <3>2 DEF Held, Writes, Counted, EffectReads
    <3> QED
      BY <3>1, <3>2
  <2>2. m \in Files => \E i \in Held' : calls'[i].op = "file"
    BY <1>c DEF Held
  <2> QED
    BY <1>3, <2>1, <2>2 DEF FileInv
<1>9. ExamInv'
  <2>1. CASE exam' = exam
    <3>1. EffectReads \cap {"exam", "exams", "attempt", "autoMark"} = {}
      BY DEF EffectReads
    <3> QED
      BY <1>0, <1>1, <1>3, <2>1, <3>1, ExamFrame
  <2>2. CASE Kind(m) # Kind(active) /\ exam' = ExamInit
    <3>1. ASSUME NEW i \in LiveIn(ExamOps)' PROVE FALSE
      <4>1. i \in 1..Slots /\ calls'[i] # None /\ calls'[i].mine /\ calls'[i].op \in ExamOps
        BY <3>1 DEF LiveIn, Live, Held
      <4>2. i # j
        BY <1>b, <4>1 DEF ExamOps, EffectReads
      <4>3. calls[i].op \notin ViewOps /\ calls'[i] = calls[i]
        BY <1>a, <2>2, <4>1, <4>2
      <4> QED
        BY <4>1, <4>3 DEF ViewOps
    <3>2. ASSUME NEW s \in SUBSET ExamOps PROVE LiveIn(s)' = {}
      BY <3>1, <3>2 DEF LiveIn
    <3>3. /\ {"exam", "exams"} \in SUBSET ExamOps /\ {"attempt"} \in SUBSET ExamOps
          /\ {"attempt", "autoMark"} \in SUBSET ExamOps
      BY DEF ExamOps
    <3>4. /\ LiveIn({"exam", "exams"})' = {} /\ LiveIn({"attempt"})' = {}
          /\ LiveIn({"attempt", "autoMark"})' = {}
      BY <3>2, <3>3
    <3>5. \A i \in Held' : calls'[i].op = "exam" =>
            calls'[i].used <= wrote'[<<"attempt", calls'[i].on>>]
      BY <1>0, <1>1, <1>3, AttemptsRead
    <3> QED
      BY <2>2, <3>4, <3>5 DEF ExamInv, ExamInit, Alone, AttemptsNotOverstated
  <2> QED
    BY <2>1, <2>2 DEF OpenModule
<1> QED
  BY <1>4, <1>5, <1>6, <1>7, <1>8, <1>9 DEF ClassInv

\* The server.
LEMMA ServerKeeps ==
  ASSUME ClassInv, NEW i \in 1..Slots, Serve(i) \/ ServeMark(i) \/ ServeRead(i)
  PROVE  ClassInv'
<1>0. /\ TypeInv /\ CallsTyped /\ BadgeInv /\ PressInv /\ PageInv /\ ForumInv /\ TaskInv
      /\ FileInv /\ ExamInv /\ wrote \in [Written -> Nat] /\ calls[i] # None
  BY TypeParts DEF ClassInv, RestTyped, StoredTyped, Serve, ServeMark, ServeRead
<1>1. calls[i] \in Calls /\ Shaped(calls[i])
  BY <1>0 DEF CallsTyped, Held
<1>2. UNCHANGED <<page, active, done, task, forum, file, exam, pressed>>
  BY DEF Serve, ServeMark, ServeRead, shown, views
<1>3. ForumInv' /\ TaskInv'
  BY <1>0, <1>2, SameForum
<1>4. calls[i].marks \subseteq progress
      /\ (calls[i].op = "exam" => calls[i].used <= wrote[<<"attempt", calls[i].on>>])
  BY <1>0 DEF BadgeInv, ExamInv, Held
<1>5. CASE Serve(i)
  <2>1. RestTyped' /\ calls[i].op \in Counted /\ WroteOf(calls[i]) \in Written
    BY <1>0, <1>5, ServeDoes
  <2>2. PICK r \in Outcomes(calls[i]), q \in Calls :
          /\ Answering(i, q) /\ q.stage = Stage(r.ok) /\ q.marks = calls[i].marks
          /\ r.made \in {0, 1} /\ r.ok \in BOOLEAN
          /\ calls[i].op = "attempt" /\ r.ok => r.made = 1
          /\ wrote' = [wrote EXCEPT ![WroteOf(calls[i])] = @ + r.made]
    BY <1>0, <1>5, ServeDoes
  <2>3. q.op = calls[i].op /\ q.on = calls[i].on
    BY <2>2 DEF Answering
  <2>4. progress' = progress
    BY <1>5 DEF Serve
  <2>5. TypeInv'
    BY <1>0, <2>1, <2>2, AnsweringTyped, TypeParts
  <2>6. BadgeInv'
    <3>1. q.op # "mark" /\ q.marks \subseteq progress' /\ progress \subseteq progress' /\ done' = done
      BY <1>2, <1>4, <2>1, <2>2, <2>3, <2>4 DEF Counted
    <3> QED
      BY <1>0, <2>2, <3>1, BadgeAnswered
  <2>7. PressInv'
    BY <1>0, <1>5, PressServed
  <2>8. PageInv' /\ FileInv'
    <3>1. calls[i].op # "file"
      BY <2>1 DEF Counted
    <3> QED
      BY <1>0, <1>2, <2>2, <3>1, PageAnswered, FileAnswered
  <2>9. ExamInv'
    <3>1. wrote' \in [Written -> Nat] /\ \A w \in Written : wrote[w] <= wrote'[w]
      BY <1>0, <2>1, <2>2
    <3>2. q.op # "exam"
      BY <2>1, <2>3 DEF Counted
    <3>3. ASSUME q.op = "attempt", q.stage = "done"
          PROVE  wrote[<<"attempt", q.on>>] < wrote'[<<"attempt", q.on>>]
      <4>1. r.ok
        BY <2>2, <3>3 DEF Stage
      <4>2. r.made = 1 /\ WroteOf(calls[i]) = <<"attempt", q.on>>
        BY <2>2, <2>3, <3>3, <4>1 DEF WroteOf
      <4> QED
        BY <1>0, <2>1, <2>2, <4>2
    <3> QED
      BY <1>0, <1>2, <2>2, <3>1, <3>2, <3>3, ExamAnswered
  <2> QED
    BY <1>3, <2>5, <2>6, <2>7, <2>8, <2>9 DEF ClassInv
<1>6. CASE ServeMark(i)
  <2>1. RestTyped' /\ calls[i].op \in {"mark", "autoMark"}
    BY <1>0, <1>6, ServeMarkDoes
  <2>2. PICK q \in Calls :
          /\ Answering(i, q) /\ q.marks = calls[i].marks
          /\ progress \subseteq progress' /\ (q.stage = "done" => q.on \in progress')
    BY <1>0, <1>6, ServeMarkDoes
  <2>3. q.op = calls[i].op /\ q.on = calls[i].on
    BY <2>2 DEF Answering
  <2>4. wrote' = wrote /\ pressed' = pressed
    BY <1>6 DEF ServeMark
  <2>5. TypeInv'
    BY <1>0, <2>1, <2>2, AnsweringTyped, TypeParts
  <2>6. BadgeInv'
    <3>1. /\ q.marks \subseteq progress' /\ progress \subseteq progress' /\ done' = done
          /\ q.op = "mark" /\ q.stage = "done" => q.on \in progress'
      BY <1>2, <1>4, <2>2
    <3> QED
      BY <1>0, <2>2, <3>1, BadgeAnswered
  <2>7. PressInv'
    BY <1>0, <2>2, <2>4, PressAnswered
  <2>8. PageInv' /\ FileInv'
    <3>1. calls[i].op # "file"
      BY <2>1
    <3> QED
      BY <1>0, <1>2, <2>2, <3>1, PageAnswered, FileAnswered
  <2>9. ExamInv'
    <3>1. wrote' \in [Written -> Nat] /\ \A w \in Written : wrote[w] <= wrote'[w]
      BY <1>0, <2>4
    <3>2. q.op # "exam" /\ q.op # "attempt"
      BY <2>1, <2>3
    <3> QED
      BY <1>0, <1>2, <2>2, <3>1, <3>2, ExamAnswered
  <2> QED
    BY <1>3, <2>5, <2>6, <2>7, <2>8, <2>9 DEF ClassInv
<1>7. CASE ServeRead(i)
  <2>1. RestTyped' /\ calls[i].op \in {"contents", "exam"}
    BY <1>0, <1>7, ServeReadDoes
  <2>2. PICK q \in Calls :
          /\ Answering(i, q) /\ q.marks \subseteq progress
          /\ q.op = "exam" => q.used = wrote[<<"attempt", q.on>>]
    BY <1>0, <1>7, ServeReadDoes
  <2>3. q.op = calls[i].op /\ q.on = calls[i].on
    BY <2>2 DEF Answering
  <2>4. wrote' = wrote /\ pressed' = pressed /\ progress' = progress
    BY <1>7 DEF ServeRead, server
  <2>5. TypeInv'
    BY <1>0, <2>1, <2>2, AnsweringTyped, TypeParts
  <2>6. BadgeInv'
    <3>1. /\ q.marks \subseteq progress' /\ progress \subseteq progress' /\ done' = done
          /\ q.op # "mark"
      BY <1>2, <2>1, <2>2, <2>3, <2>4
    <3> QED
      BY <1>0, <2>2, <3>1, BadgeAnswered
  <2>7. PressInv'
    BY <1>0, <2>2, <2>4, PressAnswered
  <2>8. PageInv' /\ FileInv'
    <3>1. calls[i].op # "file"
      BY <2>1
    <3> QED
      BY <1>0, <1>2, <2>2, <3>1, PageAnswered, FileAnswered
  <2>9. ExamInv'
    <3>1. wrote' \in [Written -> Nat] /\ \A w \in Written : wrote[w] <= wrote'[w]
      BY <1>0, <2>4
    <3>2. q.op # "attempt" /\ (q.op = "exam" => q.used <= wrote'[<<"attempt", q.on>>])
      <4>1. ASSUME q.op = "exam" PROVE q.used <= wrote'[<<"attempt", q.on>>]
        <5>1. q.used = wrote[<<"attempt", q.on>>] /\ q.used \in Nat
          BY <2>2, <4>1 DEF Calls
        <5> QED
          BY <2>4, <5>1
      <4> QED
        BY <2>1, <2>3, <4>1
    <3> QED
      BY <1>0, <1>2, <2>2, <3>1, <3>2, ExamAnswered
  <2> QED
    BY <1>3, <2>5, <2>6, <2>7, <2>8, <2>9 DEF ClassInv
<1> QED
  BY <1>5, <1>6, <1>7

-----------------------------------------------------------------------------
(* The theorems.                                                           *)

LEMMA ClassInit ==
  ASSUME Init
  PROVE  ClassInv
<1>1. PICK c : c = Call("contents", None)
  OBVIOUS
<1>2. Fresh(c) /\ c.op = "contents" /\ c.on = None /\ c # None
  BY <1>1, FreshOf, NoneAssumption DEF Call, Fresh
<1>3. calls = [i \in 1..Slots |-> IF i = 1 THEN c ELSE None]
  BY <1>1 DEF Init
<1>4. calls \in [1..Slots -> Calls \cup {None}]
  BY <1>2, <1>3 DEF Fresh
<1>5. ASSUME NEW i \in Held PROVE i = 1 /\ calls[i] = c
  BY <1>3, <1>5 DEF Held
<1>6. CallsTyped
  BY <1>2, <1>4, <1>5 DEF CallsTyped, Fresh
<1>7. RestTyped
  <2>1. PageTyped
    BY DEF Init, PageTyped
  <2>2. StoredTyped
    <3>0. /\ wrote = [w \in Written |-> 0] /\ pressed = wrote
          /\ progress = {} /\ crossed = FALSE /\ steps = 0
      BY DEF Init
    <3>1. wrote \in [Written -> Nat] /\ pressed \in [Written -> Nat]
      BY <3>0
    <3>2. MaxSteps \in Nat
      BY BoundsAssumption
    <3>3. progress \subseteq Modules /\ steps \in 0..MaxSteps
      BY <3>0, <3>2
    <3>4. crossed \in BOOLEAN
      BY <3>0
    <3> QED
      BY <3>1, <3>3, <3>4 DEF StoredTyped
  <2> QED
    BY <2>1, <2>2, InitsTyped DEF Init, RestTyped
<1>8. BadgeInv
  BY <1>2, <1>5 DEF Init, BadgeInv, Fresh
<1>9. PressInv
  <2>1. ASSUME NEW w \in Written PROVE Cardinality(Pending(w)) = 0
    <3>1. Pending(w) = {}
      BY <1>2, <1>5 DEF Pending, Counted
    <3> QED
      BY <3>1, FS_EmptySet
  <2>2. ASSUME NEW w \in Written PROVE wrote[w] = 0 /\ pressed[w] = 0
    BY <2>2 DEF Init
  <2> QED
    BY <2>1, <2>2 DEF PressInv
<1>10. PageInv
  <2>1. \A i \in Live : calls[i].op = "contents"
    BY <1>2, <1>5 DEF Live
  <2>2. Alone({"contents"})
    BY <1>5 DEF Alone, LiveIn, Live
  <2> QED
    BY <2>1, <2>2 DEF Init, PageInv, FileInit
<1>11. ForumInv /\ TaskInv
  BY DEF Init, ForumInv, ForumInit, TaskInv, TaskInit
<1>12. FileInv
  BY <1>2, <1>5 DEF Init, FileInv, FileInit
<1>13. ExamInv
  <2>1. \A i \in Held : calls[i].op = "contents"
    BY <1>2, <1>5
  <2>2. /\ LiveIn({"exam", "exams"}) = {} /\ LiveIn({"attempt"}) = {}
        /\ LiveIn({"attempt", "autoMark"}) = {}
    BY <2>1 DEF LiveIn, Live
  <2>3. exam = ExamInit
    BY DEF Init
  <2> QED
    BY <2>1, <2>2, <2>3 DEF ExamInv, ExamInit, Alone, AttemptsNotOverstated
<1> QED
  BY <1>6, <1>7, <1>8, <1>9, <1>10, <1>11, <1>12, <1>13, TypeParts DEF ClassInv

LEMMA ClassStutter ==
  ASSUME ClassInv, UNCHANGED vars
  PROVE  ClassInv'
<1>1. /\ UNCHANGED <<course, page, active, done, marking, html, task, forum, posts, file>>
      /\ UNCHANGED <<exam, calls, progress, wrote, pressed, crossed, steps>>
  BY DEF vars, shown, views, server
<1>2. /\ Held' = Held /\ Live' = Live /\ (\A s : LiveIn(s)' = LiveIn(s))
  BY <1>1 DEF Held, Live, LiveIn
<1>3. TypeInv'
  BY <1>1, <1>2 DEF ClassInv, TypeInv, TypeOK, CallsTyped
<1>4. BadgeInv' /\ PageInv' /\ ForumInv' /\ TaskInv' /\ FileInv'
  BY <1>1, <1>2 DEF ClassInv, BadgeInv, PageInv, ForumInv, TaskInv, FileInv, Alone
<1>5. PressInv'
  <2>1. \A w : Pending(w)' = Pending(w)
    BY <1>1, <1>2 DEF Pending
  <2> QED
    BY <1>1, <2>1 DEF ClassInv, PressInv
<1>6. ExamInv'
  BY <1>1, <1>2 DEF ClassInv, ExamInv, Alone, AttemptsNotOverstated
<1> QED
  BY <1>3, <1>4, <1>5, <1>6 DEF ClassInv

LEMMA ClassStep ==
  ASSUME ClassInv, [Next]_vars
  PROVE  ClassInv'
<1>1. CASE Student
  <2>1. ASSUME NEW m \in Outline, OpenModule(m) PROVE ClassInv'
    BY <2>1, OpenKeeps
  <2>2. ASSUME NEW e \in course.exams, SelectExam(e) PROVE ClassInv'
    BY <2>2, SelectExamKeeps
  <2>3. CASE Reload \/ MarkAsCompleted \/ SubmitTask
    BY <2>3, ReloadKeeps, MarkKeeps, SubmitKeeps
  <2>4. CASE RetryTopics \/ CreateTopic \/ OpenDiscussion \/ BackToTopics \/ RetryPosts \/ Reply
    BY <2>4, RetryKeeps, CreateTopicKeeps, OpenDiscussionKeeps, BackToTopicsKeeps, ReplyKeeps
  <2>5. CASE FetchExam \/ FinishExam \/ ReviewAnswers \/ SubmitExam \/ BackToStart
    BY <2>5, FetchExamKeeps, ExamButtonsKeep, SubmitExamKeeps
  <2> QED
    BY <1>1, <2>1, <2>2, <2>3, <2>4, <2>5 DEF Student
<1>2. ASSUME NEW i \in 1..Slots, Receive(i) PROVE ClassInv'
  <2>1. CASE CourseRead(i) \/ HtmlReady(i) \/ Marked(i) \/ StatusRead(i) \/ TaskSubmitted(i)
    BY <2>1, CourseReadKeeps, HtmlKeeps, MarkedKeeps, StatusKeeps, TaskSubmittedKeeps
  <2>2. CASE TopicsRead(i) \/ TopicCreated(i) \/ PostsRead(i) \/ ReplySent(i) \/ FileRead(i)
    BY <2>2, TopicsKeeps, TopicCreatedKeeps, PostsReadKeeps, ReplySentKeeps, FileReadKeeps
  <2>3. CASE ExamsRead(i) \/ ExamRead(i) \/ ExamSubmitted(i) \/ AutoMarked(i)
    BY <2>3, ExamsReadKeeps, ExamReadKeeps, ExamSubmittedKeeps, AutoMarkedKeeps
  <2> QED
    BY <1>2, <2>1, <2>2, <2>3 DEF Receive
<1>3. ASSUME NEW i \in 1..Slots, Serve(i) \/ ServeMark(i) \/ ServeRead(i) PROVE ClassInv'
  BY <1>3, ServerKeeps
<1>4. CASE UNCHANGED vars
  BY <1>4, ClassStutter
<1> QED
  BY <1>1, <1>2, <1>3, <1>4 DEF Next

\* The invariant holds in every state, however the answers of a classroom
\* page interleave with what its student does (CourseView.tsx and the
\* components it shows).
THEOREM ClassAlways == Spec => []ClassInv
<1>1. Init => ClassInv
  BY ClassInit
<1>2. ClassInv /\ [Next]_vars => ClassInv'
  BY ClassStep
<1> QED
  BY <1>1, <1>2, PTL DEF Spec

\* The state of the page keeps its types.
THEOREM ClassTyped == Spec => []TypeOK
<1>1. ClassInv => TypeOK
  BY DEF ClassInv, TypeInv
<1> QED
  BY <1>1, ClassAlways, PTL

\* A lesson with the badge "completed" is completed in the database
\* (handleMarkAsCompleted).
THEOREM BadgeStored == Spec => []BadgeIsStored
<1>1. ClassInv => BadgeIsStored
  BY DEF ClassInv, BadgeInv, BadgeIsStored
<1> QED
  BY <1>1, ClassAlways, PTL

\* One press stores at most one submission, topic, reply or attempt, whatever
\* answers are lost and however many groups a forum has (addDiscussion).
THEOREM PressedOnce == Spec => []OnePressOneWrite
<1>1. ClassInv => OnePressOneWrite
  <2> SUFFICES ASSUME ClassInv, NEW w \in Written PROVE wrote[w] <= pressed[w]
    BY DEF OnePressOneWrite
  <2>1. wrote[w] \in Nat /\ pressed[w] \in Nat /\ wrote[w] + Cardinality(Pending(w)) <= pressed[w]
    BY TypeParts DEF ClassInv, RestTyped, StoredTyped, PressInv
  <2>2. Pending(w) \subseteq 1..Slots
    BY DEF Pending, Held
  <2>3. Cardinality(Pending(w)) \in Nat
    BY <2>2, FewRequests
  <2> QED
    BY <2>1, <2>3
<1> QED
  BY <1>1, ClassAlways, PTL

\* ExamView never withholds an attempt that is left.
THEOREM AttemptsLeft == Spec => []AttemptsNotOverstated
<1>1. ClassInv => AttemptsNotOverstated
  BY DEF ClassInv, ExamInv
<1> QED
  BY <1>1, ClassAlways, PTL

\* What "Yes, submit exam" sends is the taking that was finished.
THEOREM ConfirmOwn == Spec => []ConfirmIsForThisTaking
<1>1. ClassInv => ConfirmIsForThisTaking
  <2> SUFFICES ASSUME ClassInv, ExamScreen = "confirm", ~exam.submitting PROVE exam.finished
    BY DEF ConfirmIsForThisTaking
  <2>1. exam.confirm
    BY DEF ExamScreen
  <2> QED
    BY <2>1 DEF ClassInv, ExamInv
<1> QED
  BY <1>1, ClassAlways, PTL

\* A list of topics, a discussion and a status are those of the module that is
\* open, whatever late answers arrive (ForumView, TaskView).
THEOREM ShownIsOpen == Spec => []ShownBelongsToOpen
<1>1. ClassInv => ShownBelongsToOpen
  <2> SUFFICES ASSUME ClassInv PROVE ShownBelongsToOpen
    OBVIOUS
  <2>1. active \in Tasks \cup Forums => active # None
    BY NoneAssumption DEF Entries, Modules
  <2>2. TopicsShown => forum.topics = active
    BY <2>1 DEF TopicsShown, ClassInv, ForumInv
  <2>3. active \in Forums /\ forum.disc # None => forum.disc = active
    BY DEF ClassInv, ForumInv
  <2>4. StatusShown /\ ~task.misread => task.status = active
    BY <2>1 DEF StatusShown, ClassInv, TaskInv
  <2> QED
    BY <2>2, <2>3, <2>4 DEF ShownBelongsToOpen
<1> QED
  BY <1>1, ClassAlways, PTL

\* A revoked blob is on the page only while its file is being read again
\* (ResourceFileViewer).
THEOREM RevokedRead == Spec => []RevokedIsRefetched
<1>1. ClassInv => RevokedIsRefetched
  <2> SUFFICES ASSUME ClassInv, FileShown, ~file.live
               PROVE  \E i \in 1..Slots : calls[i] # None /\ calls[i].op = "file"
                                            /\ calls[i].on = active
    BY DEF RevokedIsRefetched
  <2>1. active \in Files /\ file.key = active /\ ~file.error /\ file.key # None
    BY NoneAssumption DEF FileShown, Entries, Modules
  <2> QED
    BY <2>1 DEF ClassInv, FileInv, Held
<1> QED
  BY <1>1, ClassAlways, PTL
=============================================================================
