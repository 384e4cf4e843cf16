# TLA+ models of the Hopee academy platform

The platform is a NestJS backend (`src/plataforma-ingles-backend`) in front of
Moodle, with a PostgreSQL database of its own and a React client
(`src/plataforma-ingles-frontend`). The backend is one Node process; its
handlers are `async` functions that interleave at every `await`. Most of them
hold no lock and open no transaction: what they read before an await may be
stale when they use it. The models here take each handler apart at its awaits,
let the handlers of several requests interleave, and ask what the database and
Moodle look like afterwards.

## The system

| Part | State | Operations | What is hard | What makes it correct | Module |
|---|---|---|---|---|---|
| Exam attempts (`exams/exam-student.service.ts`, `exam-admin.service.ts`) | tables `exams`, `attempts` with the unique index (examId, userId, attemptNumber) | submit; create, update, delete an exam | count and insert are separate statements under READ COMMITTED; edits save a stale entity | numbers without gap or repetition, the limit kept, every answer backed by the table | ExamAttempts, AttemptLedger |
| Attendance (`attendance/attendance.service.ts`) | sessions and check-ins, two unique indexes | create or get, open, mark, close | no transaction; whole-entity saves; a close reads, compares, then inserts | a close leaves nobody out and overwrites nothing | Attendance |
| Rosters (`calendar/shift-roster.service.ts`), program enrolment (`courses/program-enrollment-sync.service.ts`), course links | members of shifts by role, courses linked to folders, enrolments in Moodle | enrol, unenrol, assign and unassign teachers, link, unlink, create and delete shifts | two tables and a remote system kept in step by compensation; lost answers | members have the courses of their program; a compensation undoes its own row or link only | RosterSync |
| Course catalogue (`courses/courses-catalog.service.ts`) | folders, links; cached trees with a version | create, seed, move, hide, delete, link, unlink, read | check-then-save of moves; cache fills that outlive an invalidation | no cycles, nothing dangling; a read after an answered change sees it | Catalog |
| Microlearning (`microlearning/`, its hook and widget) | history, streak, contents; the query and the button of a page | today's bite, complete, add bites | two clocks for one day, midnight, double completion, exhausted catalogue | the streak is the run of days; the page says what is so | Microlearning |
| Classroom pages (`CourseView`, `TaskView`, `ForumView`, `ForumDiscussion`, `ExamView`, `ResourceFileViewer`) with progress, tasks and forums behind them | what is open, loaded, being sent; completed modules | open a module, submit, post, mark, take an exam, reload | answers that come after another module was opened; lost answers | what is shown belongs to what is open; one press, one write; loading ends | Classroom |
| Client session and account (`AuthContext`, `axios`, routes, layouts, logins, `ProfilePage`, `users.service.ts`, `auth/`) | storage and cookie shared by tabs, React state, profile | sign in and out, save name, photo, colour and password, 401s | late answers, two tabs, one header fed by many requests | own details only, what is shown is stored, no page waits for what another session asked | Account |
| Shift administration, calendar events (`calendar/`) | shifts, events | edit; expand into occurrences | civil dates, UTC windows | every class of a range once, none outside | creation and deletion of shifts only (RosterSync) |
| Moodle client, tickets, caches (`moodle/`, `files/`) | cached roles, tickets | requests, enrolments, tickets | timeouts, errors taken for success | callers see one of the modelled outcomes | outcomes in the callers' modules |
| Grading, gradebook, media, lessons, recordings, other pages, configuration | none beyond single rows | — | pure functions, pass-through or rendering | — | none |

Handlers interact through the tables, through Moodle, and through an in-memory
cache. `unenroll`, `enroll` and `assignCourse` call the program sync, which
calls Moodle; attendance and the gradebook read the rosters; exams and progress
ask Moodle, through a cache, who is enrolled. In the browser components
interact through the axios interceptors, the storage shared by all tabs, and
React state that outlives the module it was loaded for.

## The modules

**ExamAttempts** has one action per await of `submitAttempt`: `SubmitLoad`
(the read outside the transaction), `SubmitCheckAccess` (Moodle),
`SubmitReadExam`, `SubmitCount`, `SubmitInsert`, `SubmitCommit`, and
`SubmitFail` for any error before the commit. The transaction sees committed
rows only. PostgreSQL's behaviour on a unique index is the operators `Held`
(an uncommitted row of the same key makes the insert wait) and `Taken` (a
committed one makes it fail). After the commit the answer arrives or is lost.
Administrators create an exam, load and patch one and save the whole entity
later (which inserts it again if it was deleted meanwhile), or delete it; the
attempts of a deleted exam stay, for no foreign key ties them. An update sets
one field: the entity saved is stale in the others, which is what matters.
`allowance` is a history variable, the largest limit an exam ever had.
**AttemptLedger** is what the module promises, with no request in it: a counter
per student and exam that moves by one under an allowance.

**Attendance** models one shift with its class days. Requests load a session
and keep what they loaded: a mark keeps only that it found the session open,
a retitle keeps the whole row (`entity`) and writes it back, status included.
`closeSession` is five steps: load, read the roster, read the records, insert
the absences in one transaction, save the session. The administrators' changes
of the roster happen at any moment.

**RosterSync** models members (students and teachers, by seat), links (by
place) and Moodle. A row is known by the request that inserted it, which is how
the model tells a row from another one inserted later for the same seat: the
code deletes by id. `EnrolUsers` is one call with three outcomes: done; refused;
done with the answer lost. The `read` set of a request lets the two parallel
reads of `syncCourseToExistingMembers` happen in either order. `lost` is a
history variable: pairs of a row and a course such that Moodle dropped the
row's user from that course while the row existed.

**Catalog** models `course_folders` and `course_folder_links` with both cached
trees. A request is cut at its awaits on PostgreSQL and Moodle; runs of
operations on the in-memory cache belong to the step next to them, for the
cache settles before any such answer is processed. `updateFolder` is the check
(`MoveBegin`, `MoveFindParent`, one `MoveClimb` per folder of `isDescendant`)
and `UpdateSave`, which writes the whole entity, inserts it again when the row
was deleted meanwhile, and is refused by the foreign key when its parent was.
`deleteFolder` takes the branch with it (ON DELETE CASCADE). `rev` numbers the
committed changes, a tree carries the `rev` it was built from, and a request
the newest answered change when it began (`floor`): these three are history.
What `assignCourse` does in Moodle is one step with two outcomes here (done,
refused) and several in RosterSync.

**Microlearning** models one student, his browser windows and a clock of half
days. `Day` is the date in APP_TZ, `ProcessDay` that of the process's time
zone, in which `resolveTodayContentId` looks for the rows of today; `Ahead` is
the difference (a process in UTC is five hours ahead of Guayaquil).
`markAsCompleted` is two steps, the check and the transaction, so that midnight,
another window or a new bite may fall between them. `Advanced` keeps the code's
mix of the day of the request and the day of the transaction. A window has the
query (`FetchToday`, `TodayFails`) and the mutation (`HandleComplete` ...
`CompletionEnds`); a mutation that times out or whose page is left goes on
among the `orphans`. An answer of the query is shown when it is read: one that
arrives later only keeps older data on the page longer, which may stay there as
long anyway.

**Classroom** models `CourseView` and everything it can show, with the server
behind it: one student, one course, two requests under way at once. The state
variables are the React states of the components (`task`, `forum`, `posts`,
`file`, `exam`) and of the page (`course`, `active`, `done`, `marking`). React's
rules are in `OpenModule`: a component shown again in the same place keeps its
state, another one starts anew; an effect is cleaned up when its key changes
(`Abandon`), while a handler that is waiting goes on with the properties it was
called with, and its assignments reach the component if it is still there.
`Settle` is the reset during rendering of ForumView. A request is answered,
fails, or times out after the server did its work; `AddDiscussion` is the loop
over the groups of a forum. `pressed` and `wrote` count presses and stored
writes; `misread`, `crossed` and `finished` are history.

**Account** models the tabs of one browser over one localStorage and one
cookie. A tab has its React state (`user`, `adm`, the page it is at, the
profile page's copy and its busy buttons); `Becomes` puts a tab where the
routes send it, cleans up the effects of what goes away and runs those of what
comes. Every request takes its token from the storage when it is sent
(`Request`) and a 401 of any but the authentication endpoints clears the
storage and reloads (`Unauthorized`). Any request may be refused so, whatever
its token (`Refused`): profiles are read with the program's own token, which may
be missing or refused too, and a name or a photo is read back after it was saved
(`Refusable`). On the server are each student's profile
(a value is known by its owner and the save that wrote it), the number of his
expired tokens, and the administrator's session. `mixed`, `doubt` and
`admDoubt` are history: they say which of the exceptions below applies.

Each `MC*` module gives an instance, each `.cfg` the bounds and the properties.
`*Proofs` modules hold the theorems.

Common abstractions. A statement or a `save` is atomic (TypeORM wraps each in
a transaction of its own). A request may fail at any await (`RequestFails`,
`SubmitFail`), which also stands for the process stopping. A request that
answers 404 to an administrator changes nothing and is not a step. Names,
titles, dates and scores are abstracted to what the handlers compare. In
RosterSync the folder tree and a shift's folder are constants (Catalog moves
folders), a shift once deleted does not come back, and a Moodle exception about an unsent
notification counts as success with the enrolment in place, which is what the
client's comment says of it.

## What the runs show

| Run | Shows |
|---|---|
| `exam_attempts` | Three submits of two students against two administrator requests: numbers contiguous, allowance respected, an accepted answer owns its row, a conflict has a winner, a status only advances while the exam is not edited, and the ledger is implemented. |
| `exam_answers` | Under fairness every submit that found its exam is answered, also through a chain of inserts waiting for each other. |
| `exam_conflict` | Violation. The comment in `submitAttempt` says the loser of a number would exceed the limit; with two attempts allowed and one used it is refused all the same. |
| `attendance` | A close that answered covers the roster it read; a record changes only by a mark of that student. |
| `attendance_mark` | Violation. `BREAKING_CHANGES.md` says the roster is marked only while the session is open; the status checked may be stale. |
| `roster_sync` | A join and a link that both answered did not miss each other; undoing a refused join or link removes no other row or link. |
| `roster_unenrol` | Violation. `BREAKING_CHANGES.md` says a member is unenrolled only if in no other shift of the tree; another role's membership is not looked at. |
| `catalog` | A student's tree is never older than a change answered before he asked; no folder and no link hangs from a deleted folder, with reads and changes crossing at every await. |
| `folder_cycle` | Violation. `updateFolder` refuses a move that makes a cycle; two moves that each pass the check make one together. |
| `micro` | Two windows over three days: the stored streak is the run of days, a day has one bite, "done" means completed today, and the button's "+1 day" comes true, but for the cases below. |
| `classroom` | Nothing of another module is shown, a badge is stored, a press writes at most once, no attempt is withheld, a confirmation is for the taking on the screen, a revoked blob is not left on screen; every loading screen ends but one. |
| `account` | What is shown, kept and stored agree across two tabs, saves, sign-outs and 401s; the panel is shown while there is a session; whatever a page of the campus still waits for was asked in the session it shows. |

Exceptions. Some properties of the last four passing runs hold only up to
exceptions, each of which is something the code does and none of which can be
left out (without it TLC finds a counterexample):

* `StreakIsTheRun`: a completion checked before midnight and committed after it
  gets the date of the check while "yesterday" is computed after midnight
  (`microlearning.service.ts:150-163`): the run may be cut or a day counted
  twice.
* `DoneMeansToday`, `OneBiteADay`: the rows of "today" are searched between
  midnights of the process (`:34-45`), the dates are of APP_TZ. With the process
  in UTC, a bite completed in the evening counts as the next day's: that day
  shows as done already, and this one offers a second bite.
* `PromiseKept`: once every bite has been seen, a completion is a no-op and the
  streak stays (`:59-70`, `:145-148`); a stale page promises what was true when
  it was read.
* `LoadingEnds`: an assignment submitted, or a topic created (or tried again),
  before the student went to another task or forum is followed by a read that
  sets the key of the module left (`TaskView.tsx:41`, `ForumView.tsx:133`), and
  the one on screen shows "Loading" until something is opened.
  `ShownBelongsToOpen`: a failed read of a status shows the status held from the
  task before (`TaskView.tsx:43-46`).
* `AskedInThisSession` is about the answers somebody waits for. The interceptor
  sees the others too: the late 401 of a page left, or of the other tab, ends
  whatever session the storage holds by then (`axios.ts:73-78`). A 401 ends a
  session whose token is valid, moreover: of a wrong current password
  (`users.service.ts:191`), of "not enrolled" (`moodle-client.service.ts:144`), of
  the program's own token (`:36-39`, `:121-128`, `:206-208`), of an
  administrator's request without a session. No property says that a valid
  session stays, because the code does not keep it; the refusals are modelled,
  and the other properties hold across them.
* `OwnDetails`: a save is not cancelled by a sign-out, and two tabs may hold two
  students while the storage holds one token.
* `ShownIsStored`: a save under way together with another request for the same
  field, or a failed one. `PanelIsBacked`: a query of the session under way together
  with a login or a logout, whose answer may overwrite the newer status, and a
  sign-out of the administrator that failed, which leaves the cookie
  (`AuthContext.tsx:123-133` says so).

So the hazard behind each exception is not caught by the property that excepts
it: the model takes the step the code takes, and the property shows that nothing
else leads there. `PROJECT.json` notes it at each such hazard.

Bounds. Two requests are enough for a check and a write to cross; a third lets
somebody else act in between (a leave and a new join during a join's undoing, a
third insert waiting on a second). Four requests on the attendance of one day
let a create, an open, a mark and a close meet. One exam, one day, one user and
one course suffice because the handlers never relate two of them, except where
an instance has two: two students share an exam and a roster, two courses let an
exam be moved, and two shifts on two levels of a folder tree let a link lie
below a shift and a user belong to a tree twice. Limits are 1 and 2, so that a
second attempt is allowed, refused, and raised or lowered under a running
submit. `CHECK_DEADLOCK FALSE` where requests are finitely many: all of them
end, and the system stops.

Two more bounds are of the browser: two requests under way at once are what it
takes for one answer to overtake another, and the numbers of presses (6 in
Classroom, 5 in Account, 3 completions in Microlearning) let every property's
counterexample under its mutant appear with steps to spare. Microlearning runs
over three days of two halves, one of which belongs to the process's tomorrow, so
that a run of three days, a missed day, the evening and midnight all occur; one
late request (`MaxLate`) is enough to commit after midnight or after a retry.
Catalog has two folders, which is what a cycle needs, and three requests, so that
a fill, a change and a later read overlap. In Account only one of the two tabs
opens the administrator's pages and asks for his session (`AdminTabs`).

Fairness. `exam_answers` assumes weak fairness of each step of a submit. Node
resumes every handler whose promise settled, Moodle calls have a timeout of 30 s,
and PostgreSQL wakes a waiting insert when the transaction it waits for ends. `classroom` assumes weak fairness of the end of each
request on the page (`Receive`), whatever the server does: axios gives up after
30 s, and the browser runs every settled promise. Nothing forces an administrator or
a student to begin, to press or to go on.

## What is proved

Every safety property and every action property of a passing run is a theorem of
a `*Proofs` module: for any number of requests, students, exams, shifts,
courses, folders, windows and tabs, and any value of the bounds in the guards.

| Module | Theorems, by the property they state |
|---|---|
| ExamAttemptsProofs | `TypeOK`, `NumbersContiguous`, `WithinAllowance`, `ConflictHasWinner`, `AcceptedOwnsNumber`, `StatusOnlyAdvances`, `ImplementsLedger` |
| AttendanceProofs | `TypeOK`, `CloseCoversRoster`, `RecordsOnlyByMarks` |
| RosterSyncProofs | `TypeOK`, `MembersHaveCourses`, `UndoSparesOthers` |
| CatalogProofs | `TypeOK`, `NothingDangles`, `StudentTreeFresh` |
| MicrolearningProofs | `TypeOK`, `StreakIsTheRun`, `OneBiteADay`, `DoneMeansToday`, `PromiseKept` |
| ClassroomProofs | `TypeOK`, `ShownBelongsToOpen`, `BadgeIsStored`, `OnePressOneWrite`, `AttemptsNotOverstated`, `ConfirmIsForThisTaking`, `RevokedIsRefetched` |
| AccountProofs | `TypeOK`, `ReloadKeepsHeader`, `PanelIsBacked`, `AskedInThisSession` |
| AccountDetailsProofs | `OwnDetails`, `ShownIsStored` |

The four properties that the violation runs refute are theorems under the
condition that the counterexample lacks, so that the theorem and the run together
say when the code keeps what is said of it:

| Refuted in general | Theorem | Holds as long as |
|---|---|---|
| `NoCycle` | `MovesOneByOne` (CatalogProofs) | no two updates of folders are under way together (`OneUpdate`); creations, deletions, links and reads may be |
| `ConflictMeansLimit` | `LastConflict` (ExamAttemptsProofs) | the submit that loses counted with one attempt left (`LastConflictMeansLimit`) |
| `MarkOnlyWhileOpen` | `MarksMeetOpen` (AttendanceProofs) | no request is at the save that closes a session while a mark of it is on its way (`MarksApart`) |
| `UnenrolsOnlyOrphans` | `OrphansLeave`, `OrphansLeaveAlone` (RosterSyncProofs) | the user taken off is not joining a shift meanwhile (`NoJoinMeanwhile`) and has no seat in the other role in the tree (`OneRole`) |

`OneClock` (MicrolearningProofs) does the same for two exceptions of the `micro`
run: in a process that runs in APP_TZ (`Ahead = 0`) a day has one bite and shows
as done exactly when it has it, while no completion straddles midnight and the
catalogue does not grow between two completions of a day (`Undisturbed`).

Hardly any of them is inductive as it stands. What each needs besides:

* **ExamAttemptsProofs.** Type correctness; contiguity; the allowance; accepted
  and conflicting answers; the refinement of AttemptLedger; `StatusOnlyAdvances`,
  because committed attempts are only ever added. Contiguity is not
  inductive alone. The invariant adds that what a transaction counted is at
  most what is committed now, that committed numbers are an initial segment,
  and that at most one transaction holds a number. Then a commit of
  `prior + 1`, not taken and held by nobody else, extends the segment by one.
  `LastConflict` reads contiguity the other way: a number that is taken counts
  the attempts up to it.
* **AttendanceProofs.** Type correctness; `CloseCoversRoster`, from an invariant
  that follows a close: after it read the records everyone on its roster is
  recorded or on its list, after the insert all are recorded, and records never
  disappear; `RecordsOnlyByMarks` as an action property of the same invariant.
  `MarksMeetOpen` needs `MarksOpen`: the session a mark loaded open is open still,
  because the only saves that close one are of a close or of a change of title that
  loaded it before it was opened.
* **RosterSyncProofs.** Type correctness; `MembersHaveCourses`; and
  `UndoSparesOthers`, for rows and links. The argument is that of two processes each raising a flag
  before looking at the other's: a join saves its row before it reads the
  links, a link its own before it reads the rows, so whoever saved second sees
  the first. `Pending` says it: the grant is there, or one of the two requests
  still has it to do, or one of them gave up. The lemmas `JoinSees` and
  `LinkSees` keep it through each request's own steps, `GrantsKept` through
  everybody else's. `OrphansLeave` needs `LeavesKnow`: the shifts a removal finds
  hold every seat of the user in the tree, and once it has looked for them there
  is none, of the role it looked for.
* **CatalogProofs.** Type correctness; `NothingDangles`, inductive once typing is
  known, because whatever is above a folder's parent is above the folder, so a
  deletion takes a folder whenever it takes its parent; and
  `StudentTreeFresh`, which alone is not inductive. `Fresh` adds what makes it
  so: the version rises in the step before a change is answered, so a tree
  filed under today's version shows every answered change, and a reader whose
  version is still today's has seen no answer since he began (`Timely`).
  `Onward` is all a step of another request can do to them. `MovesOneByOne` needs
  `MoveInv`: the folders above a folder form the least set closed under parents
  (`Above`), so no induction is needed to say that the climb, if the folder moved is
  above its new parent, has yet to meet it (`Apart`); a creation puts nothing above
  a folder that was there, and a parent deleted meanwhile cannot come back, as ids
  are not handed out twice.
* **MicrolearningProofs.** The bites form an order in which each day of choice
  has its place (`Choice`), so the invariant `BiteInv` can say that every row not
  late is of the bite its day and catalogue chose, that what a page shows was the
  server's answer for the rows and bites there were, and that a completion
  checked today for both clocks is of today's bite. `OneBiteADay` follows because
  a bite has one row; the promise, because a page still true names a bite nobody
  has. The streak has an invariant of its own (`RunInv`): the last `n` days have
  a completion and the day before them has none, while nothing crossed a
  midnight.
* **ClassroomProofs.** One invariant (`ClassInv`) of named parts, one for each
  promise. `PressInv` counts the writes on their way along with those stored.
  `ExamInv` has what the buttons rely on: one read of the exams and one attempt
  at a time, an attempt of the exam that is open. The proof describes once what a
  step does to the requests (which end, which are forgotten, which are sent) and
  each handler cites that.
* **AccountProofs.** Every handler ends in `Becomes`, so each invariant has one
  lemma about `Becomes` and a short one per handler. `TypeInv` adds to the types
  which pages can be listening to a request. `ReloadKeepsHeader` is inductive
  with it: tab and storage take the same fields of the same answer. So is
  `AskedInThisSession`: the token of the storage changes when a tab signs in,
  at the login page, where nothing is listened to that a page of the campus
  asked (`AskedLoggedIn`), and goes when one signs out or a 401 comes; `Cleaned`
  and the routes see to the rest. `AdmInv`: a session without doubt has one
  request at most, whose answer is what the cookie is; a refused key tells
  nothing, and leaves a tab that knew the cookie as it was (`Tells`).
* **AccountDetailsProofs.** `OwnInv`: while nothing is mixed, there is one student
  such that every tab, the storage, and every answer still heard are his.
  `ShownInv`, field by field and separately for header and page: whatever may
  change the field at the server is heard here, the answers that have come are
  what is stored, a save is alone, and what is shown is stored or a request that
  will renew it is under way. When none is under way the last part is the
  property.

Assumptions: the named `ASSUME`s of the modules. Limits are positive naturals, the
bounds are naturals, the distance of the two clocks is less than a day, a shift's
folder is a folder, modules of different kinds are different modules
(`KindsAssumption`: Moodle's module ids are one sequence), and `Nil` or `None` is
none of the values it is set apart from. TLC evaluates them in every run.

Only model-checked: liveness (`SubmitsAnswered`, `LoadingEnds`), which the prover
does not reach, and that the four violations do happen. What the mutants of
`PROJECT.json` show is that each property of a passing run is broken by a
plausible slip in the code.

## Plan

Done: all modules with their runs, and the proofs listed above.

1. Refinements of abstract specifications of single components: attendance as a
   register that only marks and closes write, the classroom's writes as a ledger
   of presses.
2. Conditions in place of the other exceptions of the passing runs, as in
   `OneClock`: a browser with one tab (`OwnDetails`, `ShownIsStored`), a page that
   is never left while an answer is due (`ShownBelongsToOpen`).

## Not modelled

* Calendar occurrences and events: date arithmetic on names of weekdays and
  single-statement changes of rows; no two requests share anything there.
* Updates of shifts: names and times matter to no model here; a new folder
  changes no enrolment (listed as a hazard), and FolderOf is a constant.
* Grading, the gradebook, question validation: pure functions of their input.
* The attendance page, the exam pages outside the classroom, the administrators'
  pages, the calendar pages: forms and lists over handlers that are modelled.
  The attendance page has a hazard of its own, a read for one classroom shown
  under another (`AttendancePage.tsx:137`), listed without a property.
* Exam media, recordings, the file proxy: uploads and streams, single rows.
* The caches of Moodle's answers (90 s for roles and user ids): the
  models take what Moodle says as it is at the time of the question.
* In the client: the colour ProfilePage keeps in a state of its own beside the
  profile (`avatarColor`; Account has one colour on the page for both), the 800 ms Login waits before it goes to
  the campus, the browser's Back button.
* Moodle itself, HTTP, rendering, throttling, the CSRF header.
