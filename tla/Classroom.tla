----------------------------- MODULE Classroom -----------------------------
(***************************************************************************)
(* The course page of a student (CourseView.tsx and the components it      *)
(* shows: TaskView, ForumView, ForumDiscussion, ExamView and               *)
(* ResourceFileViewer) with the handlers its requests reach.               *)
(*                                                                         *)
(* React keeps the state of a component as long as the page shows the same *)
(* component in the same place: going from one task to another keeps the   *)
(* state of TaskView, going from a task to a forum discards it.  The code  *)
(* after an await runs with the properties it was started with, and its    *)
(* assignments to a discarded component do nothing.                        *)
(***************************************************************************)
EXTENDS Naturals, FiniteSets

CONSTANTS
  Tasks, Forums, Pages, Files,  \* course modules, by the component shown
  Quizzes,      \* Moodle quizzes: not in the outline, shown as exams
  AllExams,     \* the entry "Course exams" of the outline, with id -1
  Exams,        \* exams of the program
  Courses,      \* the courses a student may open
  MaxAttempts,  \* exam.maxAttempts
  Groups,       \* bound: groups of a forum the program tries in turn
  Slots,        \* bound: requests under way at once
  MaxSteps,     \* bound: what the student does
  None

Modules == Tasks \cup Forums \cup Pages \cup Files \cup Quizzes
Entries == Modules \cup {AllExams}

ASSUME CoursesAssumption ==
  Courses \subseteq [mods: SUBSET Modules, first: Modules \cup {None}, exams: SUBSET Exams]
ASSUME BoundsAssumption == {MaxAttempts, Groups, Slots, MaxSteps} \subseteq Nat
\* A module is of one kind.
ASSUME KindsAssumption ==
  /\ Forums \cap Tasks = {} /\ Pages \cap (Tasks \cup Forums) = {}
  /\ Files \cap (Tasks \cup Forums \cup Pages) = {}
  /\ Quizzes \cap (Tasks \cup Forums \cup Pages \cup Files) = {} /\ AllExams \notin Modules

VARIABLES
  course,     \* the course of the URL
  page,       \* CourseView: loading, ready or error
  active,     \* CourseView: activeModule
  done,       \* CourseView: completedModuleIds
  marking,    \* CourseView: markingId
  html,       \* CourseView: the module renderedHtml is for
  task,       \* the state of TaskView
  forum,      \* the state of ForumView
  posts,      \* the state of ForumDiscussion
  file,       \* the state of ResourceFileViewer
  exam,       \* the state of ExamView
  calls,      \* the requests under way
  progress,   \* rows of user_progress of this student and course
  wrote,      \* submissions, topics, replies and attempts stored
  pressed,    \* history: how often the student asked for each
  crossed,    \* history: left a component for another of its kind in mid-write
  steps       \* what the student has done so far

shown == <<page, active, done, marking, html>>
views == <<task, forum, posts, file, exam>>
server == <<progress, wrote>>
vars == <<course, shown, views, calls, server, pressed, crossed, steps>>

-----------------------------------------------------------------------------
(* Requests.                                                               *)

\* Reads of an effect, whose clean-up cancels them.
EffectReads == {"status", "topics", "posts", "file", "html"}

\* Reads outside of one: a view read again after a write or by "Try again".
Refetches == {"restatus", "retopics", "againTopics", "reposts", "againPosts"}
PlainReads == EffectReads \cup Refetches \cup {"exams"}
Counted == {"submit", "topic", "reply", "attempt"}
Writes == Counted \cup {"mark", "autoMark"}
Ops == PlainReads \cup Writes \cup {"contents", "exam"}

\* marks and used are what a read of the progress or of the attempts found.
Calls == [op: Ops, on: Entries \cup Exams \cup {None},
          stage: {"sent", "done", "refused"}, mine: BOOLEAN,
          by: Entries \cup {None}, marks: SUBSET Modules, used: Nat]
ASSUME NoneAssumption == None \notin Entries \cup Exams /\ None \notin Calls

\* by is the module on the page when the code before the await ran.
CallBy(op, on, by) == [op |-> op, on |-> on, stage |-> "sent", mine |-> TRUE,
                       by |-> by, marks |-> {}, used |-> 0]
Call(op, on) == CallBy(op, on, None)

Written == ({"submit"} \X Tasks) \cup ({"topic", "reply"} \X Forums)
             \cup ({"attempt"} \X Exams)
WroteOf(c) == <<c.op, c.on>>

InFlight(op) == \E i \in 1..Slots : calls[i] # None /\ calls[i].mine /\ calls[i].op \in op

Add(cs, c) ==
  IF c = None THEN cs
  ELSE [cs EXCEPT ![CHOOSE i \in 1..Slots : cs[i] = None] = c]

RoomIn(cs) == \E i \in 1..Slots : cs[i] = None

\* A component is discarded, or an effect is cleaned up: its reads do not
\* matter any more, its writes may still reach the server.
Abandon(cs, ops) ==
  [i \in 1..Slots |->
     IF cs[i] = None \/ cs[i].op \notin ops THEN cs[i]
     ELSE IF cs[i].op \in Writes /\ cs[i].stage = "sent"
            THEN [cs[i] EXCEPT !.mine = FALSE] ELSE None]

TaskOps == {"status", "restatus", "submit"}
PostOps == {"posts", "reposts", "againPosts", "reply"}
ForumOps == PostOps \cup {"topics", "retopics", "againTopics", "topic"}
ExamOps == {"exams", "exam", "attempt", "autoMark"}
ViewOps == TaskOps \cup ForumOps \cup ExamOps \cup {"file"}

\* A request answers (the server has dealt with it) or fails (the server
\* refused it, or the 30 s of axios are over, whatever the server did).
Answers(i, ops) == calls[i] # None /\ calls[i].mine /\ calls[i].op \in ops
                     /\ (calls[i].op \in PlainReads \/ calls[i].stage = "done")
Fails(i, ops) == calls[i] # None /\ calls[i].mine /\ calls[i].op \in ops
                   /\ calls[i].stage # "done"

Then(i, c) == calls' = [calls EXCEPT ![i] = c]
Closed(i) ==
  calls' = [calls EXCEPT ![i] =
              IF @.op \in Writes /\ @.stage = "sent" THEN [@ EXCEPT !.mine = FALSE] ELSE None]

-----------------------------------------------------------------------------
(* What the page shows.                                                    *)

\* The component of a module.
Kind(m) ==
  CASE m = None -> "none"
    [] m \in Tasks -> "task"
    [] m \in Forums -> "forum"
    [] m \in Pages -> "html"
    [] m \in Files -> "file"
    [] OTHER -> "exam"

IsManualOrTest(m) == m \notin Forums
IsManualModule(m) == m \in Tasks \cup Pages \cup Files

\* The request of the effect that runs when module m is given to a component.
TaskEffect(m) == Call("status", m)
ForumEffect(m) == Call("topics", m)
HtmlEffect(m) == Call("html", m)
FileEffectCached(m) == IF file.key = m THEN None ELSE Call("file", m)
FileEffect(m) == Call("file", m)
Effect(m) ==
  CASE m \in Tasks -> TaskEffect(m)
    [] m \in Forums -> ForumEffect(m)
    [] m \in Pages -> HtmlEffect(m)
    [] m \in Files -> FileEffect(m)
    [] OTHER -> None

TaskInit == [status |-> None, for |-> None, submitting |-> FALSE, misread |-> FALSE]
ForumInit == [key |-> None, topics |-> None, error |-> FALSE, disc |-> None, sending |-> FALSE]
PostsInit == [loaded |-> FALSE, error |-> FALSE, sending |-> FALSE]
FileInit == [key |-> None, live |-> FALSE, error |-> FALSE]
ExamInit == [list |-> FALSE, open |-> None, used |-> 0, loading |-> FALSE,
             confirm |-> FALSE, submitting |-> FALSE, result |-> FALSE, finished |-> FALSE]

\* Every render of ForumView: a list of another forum is dropped, and the
\* discussion chosen from it with it.
SettleKey(f, m) == IF f.key \notin {None, m} THEN [f EXCEPT !.key = None] ELSE f
Settle(f, m) ==
  IF f.key \notin {None, m} THEN [f EXCEPT !.key = None, !.disc = None] ELSE f

StatusShown == active \in Tasks /\ task.for = active
FileShown == active \in Files /\ file.key = active /\ ~file.error
TopicsShown == active \in Forums /\ forum.key = active /\ forum.disc = None /\ ~forum.error
PostsShown == active \in Forums /\ forum.disc # None /\ posts.loaded /\ ~posts.error

ExamScreen ==
  IF Kind(active) # "exam" THEN "none"
  ELSE IF exam.open = None THEN "start"
  ELSE IF exam.result THEN "result"
  ELSE IF exam.used >= MaxAttempts THEN "exhausted"
  ELSE IF exam.confirm THEN "confirm" ELSE "question"

Loading ==
  \/ page = "loading"
  \/ active \in Tasks /\ task.for # active
  \/ active \in Forums /\ IF forum.disc = None THEN forum.key # active ELSE ~posts.loaded
  \/ active \in Files /\ file.key # active
  \/ Kind(active) = "exam" /\ exam.loading

-----------------------------------------------------------------------------
(* CourseView.                                                             *)

Init ==
  /\ course \in Courses
  /\ page = "loading" /\ active = None /\ done = {} /\ marking = None /\ html = None
  /\ task = TaskInit /\ forum = ForumInit /\ posts = PostsInit
  /\ file = FileInit /\ exam = ExamInit
  /\ calls = [i \in 1..Slots |-> IF i = 1 THEN Call("contents", None) ELSE None]
  /\ progress = {} /\ wrote = [w \in Written |-> 0] /\ pressed = wrote
  /\ crossed = FALSE /\ steps = 0

Step == page = "ready" /\ steps < MaxSteps /\ steps' = steps + 1
Presses(w) == pressed' = [pressed EXCEPT ![w] = @ + 1]
Quiet == UNCHANGED <<course, server, pressed, crossed, steps>>

\* fetchContents ends.
CourseRead(i) ==
  /\ \/ /\ Answers(i, {"contents"})
        /\ page' = "ready" /\ done' = calls[i].marks /\ active' = course.first
        /\ Then(i, Effect(course.first))
     \/ /\ Fails(i, {"contents"})
        /\ page' = "error" /\ Closed(i) /\ UNCHANGED <<done, active>>
  /\ UNCHANGED <<marking, html, views>> /\ Quiet

\* The browser loads the page again: "Try again", or at any time.
Reload ==
  /\ page # "loading" /\ steps < MaxSteps /\ steps' = steps + 1
  /\ LET left == Abandon(calls, Ops)
     IN RoomIn(left) /\ calls' = Add(left, Call("contents", None))
  /\ page' = "loading" /\ active' = None /\ done' = {} /\ marking' = None /\ html' = None
  /\ task' = TaskInit /\ forum' = ForumInit /\ posts' = PostsInit
  /\ file' = FileInit /\ exam' = ExamInit /\ crossed' = FALSE
  /\ UNCHANGED <<course, server, pressed>>

Outline == (course.mods \ Quizzes) \cup (IF course.exams = {} THEN {} ELSE {AllExams})

\* The student opens an entry of the outline.
OpenModule(m) ==
  LET same == Kind(m) = Kind(active)
      left == Abandon(calls, IF same THEN EffectReads ELSE ViewOps \cup EffectReads)
      next == Settle(forum, m)
      kept == IF next.disc = forum.disc THEN left ELSE Abandon(left, PostOps)
  IN /\ Step /\ m # active
     /\ RoomIn(kept)
     /\ active' = m
     /\ calls' = Add(kept, Effect(m))
     /\ task' = IF same THEN task ELSE TaskInit
     /\ forum' = IF same THEN next ELSE ForumInit
     /\ posts' = IF same /\ next.disc = forum.disc THEN posts ELSE PostsInit
     /\ file' = IF same THEN [file EXCEPT !.live = FALSE] ELSE FileInit
     /\ exam' = IF same THEN exam ELSE ExamInit
     /\ crossed' = (same /\ (crossed \/ InFlight({"submit", "restatus", "topic",
                                                  "retopics", "againTopics"})))
     /\ UNCHANGED <<course, page, done, marking, html, server, pressed>>

\* rewriteMoodleMedia ends, with tickets for the images or without them.
HtmlReady(i) ==
  /\ \/ Answers(i, {"html"})
     \/ Fails(i, {"html"})
  /\ html' = calls[i].on
  /\ Then(i, None)
  /\ UNCHANGED <<page, active, done, marking, views>> /\ Quiet

\* "Mark as done".
MarkAsCompleted ==
  /\ Step /\ IsManualModule(active)
  /\ active \notin done /\ marking # active
  /\ marking' = active
  /\ RoomIn(calls) /\ calls' = Add(calls, Call("mark", active))
  /\ UNCHANGED <<course, page, active, done, html, views, server, pressed, crossed>>

MarkedOpen(i) ==
  /\ \/ Answers(i, {"mark"}) /\ done' = done \cup {active}
     \/ Fails(i, {"mark"}) /\ UNCHANGED done
  /\ marking' = None
  /\ Closed(i)
  /\ UNCHANGED <<page, active, html, views>> /\ Quiet
Marked(i) ==
  /\ \/ Answers(i, {"mark"}) /\ done' = done \cup {calls[i].on}
     \/ Fails(i, {"mark"}) /\ UNCHANGED done
  /\ marking' = None
  /\ Closed(i)
  /\ UNCHANGED <<page, active, html, views>> /\ Quiet

-----------------------------------------------------------------------------
(* TaskView.                                                               *)

\* fetchStatus, or the effect: a failure keeps the status held.  misread is
\* history.  After a submission the form is free again.
StatusReadSilent(i) ==
  /\ \/ /\ Answers(i, {"status", "restatus"})
        /\ task' = [task EXCEPT !.status = calls[i].on, !.for = calls[i].on, !.misread = FALSE,
                       !.submitting = @ /\ calls[i].op # "restatus"]
     \/ /\ Fails(i, {"status", "restatus"})
        /\ task' = [task EXCEPT !.misread = TRUE,
                       !.submitting = @ /\ calls[i].op # "restatus"]
  /\ Then(i, None)
  /\ UNCHANGED <<shown, forum, posts, file, exam>> /\ Quiet
StatusRead(i) ==
  /\ \/ /\ Answers(i, {"status", "restatus"})
        /\ task' = [task EXCEPT !.status = calls[i].on, !.for = calls[i].on, !.misread = FALSE,
                       !.submitting = @ /\ calls[i].op # "restatus"]
     \/ /\ Fails(i, {"status", "restatus"})
        /\ task' = [task EXCEPT !.for = calls[i].on, !.misread = TRUE,
                       !.submitting = @ /\ calls[i].op # "restatus"]
  /\ Then(i, None)
  /\ UNCHANGED <<shown, forum, posts, file, exam>> /\ Quiet

\* handleSubmit, up to its request.
SubmitTask ==
  /\ Step /\ StatusShown /\ ~task.submitting
  /\ task' = [task EXCEPT !.submitting = TRUE]
  /\ RoomIn(calls) /\ calls' = Add(calls, Call("submit", active))
  /\ Presses(<<"submit", active>>)
  /\ UNCHANGED <<course, shown, forum, posts, file, exam, server, crossed>>

\* The rest of handleSubmit: the status is read again.
TaskSubmitted(i) ==
  /\ \/ Answers(i, {"submit"}) /\ Then(i, Call("restatus", calls[i].on)) /\ UNCHANGED task
     \/ Fails(i, {"submit"}) /\ Closed(i) /\ task' = [task EXCEPT !.submitting = FALSE]
  /\ UNCHANGED <<shown, forum, posts, file, exam>> /\ Quiet

-----------------------------------------------------------------------------
(* ForumView and ForumDiscussion.                                          *)

\* The state of ForumView and ForumDiscussion after f replaces the first: a
\* discussion no longer shown is discarded.
Renders(f, cs) ==
  LET next == Settle(f, active)
  IN /\ forum' = next
     /\ IF next.disc = forum.disc THEN posts' = posts /\ calls' = cs
        ELSE posts' = PostsInit /\ calls' = Abandon(cs, PostOps)

\* fetchDiscussions, or the effect, ends.
TopicsReadHere(i) ==
  LET free == [forum EXCEPT !.sending = @ /\ calls[i].op # "retopics"]
      cs == [calls EXCEPT ![i] = None]
      ops == {"topics", "retopics", "againTopics"}
  IN /\ \/ /\ Answers(i, ops)
           /\ Renders([free EXCEPT !.topics = calls[i].on, !.error = FALSE, !.key = active], cs)
        \/ /\ Fails(i, ops)
           /\ Renders([free EXCEPT !.error = TRUE, !.key = active], cs)
     /\ UNCHANGED <<shown, task, file, exam>> /\ Quiet
TopicsRead(i) ==
  LET free == [forum EXCEPT !.sending = @ /\ calls[i].op # "retopics"]
      cs == [calls EXCEPT ![i] = None]
      ops == {"topics", "retopics", "againTopics"}
  IN /\ \/ /\ Answers(i, ops)
           /\ Renders([free EXCEPT !.topics = calls[i].on, !.error = FALSE,
                                   !.key = calls[i].on], cs)
        \/ /\ Fails(i, ops)
           /\ Renders([free EXCEPT !.error = TRUE, !.key = calls[i].on], cs)
     /\ UNCHANGED <<shown, task, file, exam>> /\ Quiet

\* "Try again".
RetryTopics ==
  /\ Step /\ active \in Forums /\ forum.key = active /\ forum.disc = None /\ forum.error
  /\ RoomIn(calls) /\ calls' = Add(calls, Call("againTopics", active))
  /\ UNCHANGED <<course, shown, views, server, pressed, crossed>>

\* handleCreateTopic, up to its request.
CreateTopic ==
  /\ Step /\ TopicsShown /\ ~forum.sending
  /\ forum' = [forum EXCEPT !.sending = TRUE]
  /\ RoomIn(calls) /\ calls' = Add(calls, Call("topic", active))
  /\ Presses(<<"topic", active>>)
  /\ UNCHANGED <<course, shown, task, posts, file, exam, server, crossed>>

TopicCreated(i) ==
  /\ \/ Answers(i, {"topic"}) /\ Then(i, Call("retopics", calls[i].on)) /\ UNCHANGED forum
     \/ Fails(i, {"topic"}) /\ Closed(i) /\ forum' = [forum EXCEPT !.sending = FALSE]
  /\ UNCHANGED <<shown, task, posts, file, exam>> /\ Quiet

\* A discussion is opened (each forum has one here) or left.
OpenDiscussion ==
  /\ Step /\ TopicsShown
  /\ forum' = [forum EXCEPT !.disc = forum.topics]
  /\ RoomIn(calls) /\ calls' = Add(calls, Call("posts", forum.topics))
  /\ UNCHANGED <<course, shown, task, posts, file, exam, server, pressed, crossed>>

BackToTopics ==
  /\ Step /\ PostsShown
  /\ forum' = [forum EXCEPT !.disc = None]
  /\ posts' = PostsInit /\ calls' = Abandon(calls, PostOps)
  /\ UNCHANGED <<course, shown, task, file, exam, server, pressed, crossed>>

\* fetchPosts, or the effect, ends.
PostsRead(i) ==
  LET ops == {"posts", "reposts", "againPosts"}
  IN /\ \E ok \in BOOLEAN :
          /\ IF ok THEN Answers(i, ops) ELSE Fails(i, ops)
          /\ posts' = [loaded |-> TRUE, error |-> ~ok,
                       sending |-> posts.sending /\ calls[i].op # "reposts"]
     /\ Then(i, None)
     /\ UNCHANGED <<shown, task, forum, file, exam>> /\ Quiet

RetryPosts ==
  /\ Step /\ active \in Forums /\ forum.disc # None /\ posts.loaded /\ posts.error
  /\ RoomIn(calls) /\ calls' = Add(calls, Call("againPosts", forum.disc))
  /\ UNCHANGED <<course, shown, views, server, pressed, crossed>>

\* handleReply, up to its request.
Reply ==
  /\ Step /\ PostsShown /\ ~posts.sending
  /\ posts' = [posts EXCEPT !.sending = TRUE]
  /\ RoomIn(calls) /\ calls' = Add(calls, Call("reply", forum.disc))
  /\ Presses(<<"reply", forum.disc>>)
  /\ UNCHANGED <<course, shown, task, forum, file, exam, server, crossed>>

ReplySent(i) ==
  /\ \/ Answers(i, {"reply"}) /\ Then(i, Call("reposts", calls[i].on)) /\ UNCHANGED posts
     \/ Fails(i, {"reply"}) /\ Closed(i) /\ posts' = [posts EXCEPT !.sending = FALSE]
  /\ UNCHANGED <<shown, task, forum, file, exam>> /\ Quiet

-----------------------------------------------------------------------------
(* ResourceFileViewer: the blob of a file, revoked when the file changes.  *)

FileRead(i) ==
  /\ \E ok \in BOOLEAN :
       /\ IF ok THEN Answers(i, {"file"}) ELSE Fails(i, {"file"})
       /\ file' = [key |-> calls[i].on, live |-> ok, error |-> ~ok]
  /\ Then(i, None)
  /\ UNCHANGED <<shown, task, forum, posts, exam>> /\ Quiet

-----------------------------------------------------------------------------
(* ExamView.                                                               *)

Sends(c) == RoomIn(calls) /\ calls' = Add(calls, c)
OnExam(e) == exam' = e /\ UNCHANGED <<shown, task, forum, posts, file>>

\* "Load assessments", and its answer.
FetchExam ==
  /\ Step /\ ExamScreen = "start" /\ ~exam.list /\ ~exam.loading
  /\ Sends(Call("exams", None))
  /\ OnExam([exam EXCEPT !.loading = TRUE])
  /\ UNCHANGED <<course, server, pressed, crossed>>

ExamsRead(i) ==
  /\ \/ Answers(i, {"exams"}) /\ OnExam([exam EXCEPT !.list = (course.exams # {}), !.loading = FALSE])
     \/ Fails(i, {"exams"}) /\ OnExam([exam EXCEPT !.loading = FALSE])
  /\ Then(i, None) /\ Quiet

\* "Start": the exam and the attempts are read together.
SelectExam(e) ==
  /\ Step /\ ExamScreen = "start" /\ exam.list /\ ~exam.loading
  /\ Sends(Call("exam", e))
  /\ OnExam([exam EXCEPT !.loading = TRUE])
  /\ UNCHANGED <<course, server, pressed, crossed>>

\* Attempts that could not be read count as none.  finished is history.
ExamRead(i) ==
  /\ \/ /\ Answers(i, {"exam"})
        /\ \E used \in {calls[i].used, 0} :
             OnExam([exam EXCEPT !.open = calls[i].on, !.used = used, !.loading = FALSE,
                                 !.result = FALSE, !.finished = FALSE])
     \/ Fails(i, {"exam"}) /\ OnExam([exam EXCEPT !.loading = FALSE])
  /\ Then(i, None) /\ Quiet

\* "Finish exam" on the last question, and "Review answers".
FinishExam ==
  /\ Step /\ ExamScreen = "question"
  /\ OnExam([exam EXCEPT !.confirm = TRUE, !.finished = TRUE])
  /\ UNCHANGED <<course, calls, server, pressed, crossed>>

ReviewAnswers ==
  /\ Step /\ ExamScreen = "confirm" /\ ~exam.submitting
  /\ OnExam([exam EXCEPT !.confirm = FALSE])
  /\ UNCHANGED <<course, calls, server, pressed, crossed>>

\* submitExam, up to its request.
SubmitExam ==
  /\ Step /\ ExamScreen = "confirm" /\ ~exam.submitting
  /\ Sends(CallBy("attempt", exam.open, active))
  /\ Presses(<<"attempt", exam.open>>)
  /\ OnExam([exam EXCEPT !.submitting = TRUE])
  /\ UNCHANGED <<course, server, crossed>>

\* The result is shown, and the module is marked before the form is free.
ExamSubmittedAnyway(i) ==
  /\ \/ /\ Answers(i, {"attempt"})
        /\ OnExam([exam EXCEPT !.result = TRUE, !.used = @ + 1])
        /\ Then(i, Call("autoMark", calls[i].by))
     \/ /\ Fails(i, {"attempt"})
        /\ OnExam([exam EXCEPT !.submitting = FALSE, !.confirm = FALSE, !.used = @ + 1])
        /\ Closed(i)
  /\ Quiet
ExamSubmitted(i) ==
  /\ \/ /\ Answers(i, {"attempt"})
        /\ OnExam([exam EXCEPT !.result = TRUE, !.used = @ + 1])
        /\ Then(i, Call("autoMark", calls[i].by))
     \/ /\ Fails(i, {"attempt"})
        /\ OnExam([exam EXCEPT !.submitting = FALSE, !.confirm = FALSE])
        /\ Closed(i)
  /\ Quiet

\* finally: the form is free and the confirmation is taken back.
AutoMarkedOnly(i) ==
  /\ Answers(i, {"autoMark"}) \/ Fails(i, {"autoMark"})
  /\ OnExam([exam EXCEPT !.submitting = FALSE])
  /\ Closed(i) /\ Quiet
AutoMarked(i) ==
  /\ Answers(i, {"autoMark"}) \/ Fails(i, {"autoMark"})
  /\ OnExam([exam EXCEPT !.submitting = FALSE, !.confirm = FALSE])
  /\ Closed(i) /\ Quiet

\* "Back to start" under a result, "Back" when no attempt is left.
BackToStart ==
  /\ Step /\ ExamScreen \in {"result", "exhausted"}
  /\ OnExam([exam EXCEPT !.open = None, !.result = FALSE])
  /\ UNCHANGED <<course, calls, server, pressed, crossed>>

-----------------------------------------------------------------------------
(* The server.                                                             *)

\* What one call of Moodle comes to: the object is made or not, and the
\* program learns of it or not.
MoodleCalls == {[made |-> 1, ok |-> TRUE, refused |-> FALSE],
                [made |-> 1, ok |-> FALSE, refused |-> FALSE],
                [made |-> 0, ok |-> FALSE, refused |-> FALSE],
                [made |-> 0, ok |-> FALSE, refused |-> TRUE]}

\* isCreateDiscussionFailure: Moodle says that it refused to create.
TriesOnAny(r) == ~r.ok
TriesNext(r) == r.refused

\* resolveGroupCandidates: the groups of the student and then "all" and
\* "default"; nothing to try when the forum has groups and the student none.
Candidates == {0} \cup 2..Groups

\* addDiscussion: the groups are tried in turn, until one is not refused.
Tries == UNION {[1..n -> MoodleCalls] : n \in Candidates}
Reached(t) == {j \in DOMAIN t : \A k \in 1..j - 1 : TriesNext(t[k])}
AddDiscussion ==
  {[made |-> Cardinality({j \in Reached(t) : t[j].made = 1}),
    ok   |-> \E j \in Reached(t) : t[j].ok] : t \in Tries}

\* submitTask and addDiscussionPost: one call that writes.  A file goes to the
\* student's draft area first, in a call that submits nothing.
SavesSubmission == {[made |-> r.made, ok |-> r.ok] : r \in MoodleCalls}
AddDiscussionPost == {[made |-> r.made, ok |-> r.ok] : r \in MoodleCalls}

\* submitAttempt: an attempt is stored unless none is left (ExamAttempts).
SubmitAttempt(taken) ==
  {[made |-> 0, ok |-> FALSE]}
    \cup (IF taken < MaxAttempts THEN {[made |-> 1, ok |-> TRUE]} ELSE {})

\* What the server makes of a request, and whether it answers well.
Outcomes(c) ==
  CASE c.op = "topic" -> AddDiscussion
    [] c.op = "submit" -> SavesSubmission
    [] c.op = "reply" -> AddDiscussionPost
    [] c.op = "attempt" -> SubmitAttempt(wrote[WroteOf(c)])

Handled(i, c) == calls' = [calls EXCEPT ![i] = IF @.mine THEN c ELSE None]
Stage(ok) == IF ok THEN "done" ELSE "refused"

Serve(i) ==
  /\ calls[i] # None /\ calls[i].stage = "sent" /\ calls[i].op \in Counted
  /\ \E r \in Outcomes(calls[i]) :
       /\ wrote' = [wrote EXCEPT ![WroteOf(calls[i])] = @ + r.made]
       /\ Handled(i, [calls[i] EXCEPT !.stage = Stage(r.ok)])
  /\ UNCHANGED <<course, shown, views, progress, pressed, crossed, steps>>

\* markAsCompleted: the row of a module of the course, once.
ServeMark(i) ==
  /\ calls[i] # None /\ calls[i].stage = "sent" /\ calls[i].op \in {"mark", "autoMark"}
  /\ \E ok \in BOOLEAN :
       /\ ok => calls[i].on \in course.mods
       /\ progress' = IF ok THEN progress \cup {calls[i].on} ELSE progress
       /\ Handled(i, [calls[i] EXCEPT !.stage = Stage(ok)])
  /\ UNCHANGED <<course, shown, views, wrote, pressed, crossed, steps>>

\* getCourseProgress leaves out the forums, getMyAttempts reads the attempts.
ServeRead(i) ==
  /\ calls[i] # None /\ calls[i].stage = "sent" /\ calls[i].op \in {"contents", "exam"}
  /\ calls' = [calls EXCEPT ![i] =
       [@ EXCEPT !.stage = "done",
                 !.marks = IF calls[i].op = "contents" THEN progress \ Forums ELSE {},
                 !.used = IF calls[i].op = "exam" THEN wrote[<<"attempt", calls[i].on>>] ELSE 0]]
  /\ UNCHANGED <<course, shown, views, server, pressed, crossed, steps>>

-----------------------------------------------------------------------------
Student ==
  \/ Reload \/ MarkAsCompleted \/ SubmitTask
  \/ \E m \in Outline : OpenModule(m)
  \/ RetryTopics \/ CreateTopic \/ OpenDiscussion \/ BackToTopics \/ RetryPosts \/ Reply
  \/ FetchExam \/ FinishExam \/ ReviewAnswers \/ SubmitExam \/ BackToStart
  \/ \E e \in course.exams : SelectExam(e)

Receive(i) ==
  \/ CourseRead(i) \/ HtmlReady(i) \/ Marked(i)
  \/ StatusRead(i) \/ TaskSubmitted(i)
  \/ TopicsRead(i) \/ TopicCreated(i) \/ PostsRead(i) \/ ReplySent(i)
  \/ FileRead(i)
  \/ ExamsRead(i) \/ ExamRead(i) \/ ExamSubmitted(i) \/ AutoMarked(i)

Next ==
  \/ Student
  \/ \E i \in 1..Slots : Receive(i) \/ Serve(i) \/ ServeMark(i) \/ ServeRead(i)

\* axios gives a request up after 30 s and the file proxy gives Moodle up
\* after 30 s an URL, so every request ends for the page.
Spec == Init /\ [][Next]_vars /\ \A i \in 1..Slots : WF_vars(Receive(i))

-----------------------------------------------------------------------------
TypeOK ==
  /\ course \in Courses
  /\ page \in {"loading", "ready", "error"}
  /\ active \in Entries \cup {None} /\ html \in Pages \cup {None}
  /\ done \subseteq Modules /\ marking \in Modules \cup {None}
  /\ task \in [status: Tasks \cup {None}, for: Tasks \cup {None},
               submitting: BOOLEAN, misread: BOOLEAN]
  /\ forum \in [key: Forums \cup {None}, topics: Forums \cup {None}, error: BOOLEAN,
                disc: Forums \cup {None}, sending: BOOLEAN]
  /\ posts \in [loaded: BOOLEAN, error: BOOLEAN, sending: BOOLEAN]
  /\ file \in [key: Files \cup {None}, live: BOOLEAN, error: BOOLEAN]
  /\ exam \in [list: BOOLEAN, open: Exams \cup {None}, used: Nat, loading: BOOLEAN,
               confirm: BOOLEAN, submitting: BOOLEAN, result: BOOLEAN, finished: BOOLEAN]
  /\ calls \in [1..Slots -> Calls \cup {None}]
  /\ progress \subseteq Modules
  /\ wrote \in [Written -> Nat] /\ pressed \in [Written -> Nat]
  /\ crossed \in BOOLEAN /\ steps \in 0..MaxSteps

\* Late answers never show the content of one module under the name of
\* another: a list of topics and a discussion are those of the open forum
\* (the render-time reset of ForumView), and a status is that of the open
\* task unless reading a status failed since.
ShownBelongsToOpen ==
  /\ TopicsShown => forum.topics = active
  /\ active \in Forums /\ forum.disc # None => forum.disc = active
  /\ StatusShown /\ ~task.misread => task.status = active

\* A lesson with the badge "completed" is completed in the database, however
\* the answers of several marks and module changes interleave
\* (handleMarkAsCompleted).
BadgeIsStored == done \subseteq progress

\* One press of a button stores at most one submission, topic, reply or
\* attempt: neither the page nor the loop over the groups of a forum
\* (addDiscussion) repeats a write whose answer was lost.
OnePressOneWrite == \A w \in Written : wrote[w] <= pressed[w]

\* ExamView never tells a student that more attempts are used than were
\* stored, so it never withholds an attempt that is left.
AttemptsNotOverstated == exam.open # None => exam.used <= wrote[<<"attempt", exam.open>>]

\* The button "Yes, submit exam" can be pressed only for the taking on which
\* "Finish exam" was pressed, although the confirmation of a submitted exam
\* stays set while its module is being marked and another exam may be opened.
ConfirmIsForThisTaking ==
  ExamScreen = "confirm" /\ ~exam.submitting => exam.finished

\* A blob that was revoked (another file was opened in between) is shown only
\* while the file is being read again (ResourceFileViewer).
RevokedIsRefetched ==
  FileShown /\ ~file.live =>
    \E i \in 1..Slots : calls[i] # None /\ calls[i].op = "file" /\ calls[i].on = active

\* Every loading screen ends, unless the student went from one task to
\* another, or one forum to another, while the first was being written to or
\* read again: that answer, when it comes, sets the key of the wrong module.
Waiting == Loading /\ ~crossed
LoadingEnds == Waiting ~> ~Waiting
=============================================================================
