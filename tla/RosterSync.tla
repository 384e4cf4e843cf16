----------------------------- MODULE RosterSync -----------------------------
(***************************************************************************)
(* Keeping Moodle's enrolments in step with the rosters of the shifts and  *)
(* the courses linked to the folders (calendar/shift-roster.service.ts,    *)
(* courses/courses-catalog.service.ts assignCourse/unassignCourse,         *)
(* courses/program-enrollment-sync.service.ts).                            *)
(*                                                                         *)
(* A member who joins a shift is enrolled in every course linked under the *)
(* shift's folder; a course linked to a folder is given to the members of  *)
(* every shift on or above it.  Each side saves its own row first, then    *)
(* reads the other's table, then calls Moodle, and takes its row back when *)
(* Moodle refuses.  Nothing is transactional and nothing is locked.        *)
(***************************************************************************)
EXTENDS FiniteSets

CONSTANTS
  Folders, Parent,    \* Parent[f]: the folder above f, Nil at the root
  Shifts, FolderOf,   \* FolderOf[s]: the folder of shift s
  Users, Courses,
  Requests,           \* ids of administrator requests
  Nil                 \* no row, no id

Roles == {"student", "teacher"}

\* A seat is the key of shift_enrollments or shift_teachers, a place that of
\* course_folder_links; both keys are unique.
Seats == [role: Roles, shift: Shifts, user: Users]
Places == [folder: Folders, course: Courses]

ASSUME NilAssumption == Nil \notin Requests \cup Seats \cup Places
ASSUME FolderAssumption == FolderOf \in [Shifts -> Folders]

VARIABLES
  shifts,    \* table schedule_shifts: whether a shift is still to be created,
             \* open, or deleted
  rows,      \* the row of a seat, known by the request that inserted it, or Nil
  links,     \* the row of a place, likewise
  enrolled,  \* Moodle: who has which course in which role
  request,   \* the state of each request
  lost       \* history: <<row, course>> such that Moodle dropped the row's
             \* user from the course while the row existed

vars == <<shifts, rows, links, enrolled, request, lost>>

Grants == [user: Users, course: Courses, role: Roles]
Members == [user: Users, role: Roles]

JoinStages == {"joining", "joinReading", "joinEnrolling", "joinUndoing"}
LeaveStages == {"leaving", "leaveShifts", "leaveOthers", "leaveReading",
                "leaveUnenrolling"}
LinkStages == {"linking", "linkShifts", "linkMembers", "linkEnrolling",
               "linkUndoing"}
Running == JoinStages \cup LeaveStages \cup LinkStages
Ended == {"done", "refused", "failed"}

RequestStates == [pc: {"idle"} \cup Running \cup Ended,
                  seat: Seats \cup {Nil}, place: Places \cup {Nil},
                  row: Requests \cup {Nil}, shifts: SUBSET Shifts,
                  read: SUBSET Roles, members: SUBSET Members,
                  courses: SUBSET Courses]

TypeOK ==
  /\ shifts \in [Shifts -> {"future", "open", "deleted"}]
  /\ rows \in [Seats -> Requests \cup {Nil}]
  /\ links \in [Places -> Requests \cup {Nil}]
  /\ enrolled \subseteq Grants
  /\ request \in [Requests -> RequestStates]
  /\ lost \subseteq Requests \X Courses

-----------------------------------------------------------------------------
(* The two walks of the folder tree.                                       *)

\* collectAncestorIdsIncludingSelf: a folder and its parents up to the root.
Ancestors[f \in Folders] ==
  {f} \cup IF Parent[f] = Nil THEN {} ELSE Ancestors[Parent[f]]

\* getFolderTreeIds: a folder and everything below it.
FolderTree(f) == {g \in Folders : f \in Ancestors[g]}

\* getCourseIdsForFolderTree: the courses linked anywhere in the tree.
CoursesShallow(f) == {c \in Courses : links[[folder |-> f, course |-> c]] # Nil}
CoursesUnder(f) ==
  {c \in Courses : \E g \in FolderTree(f) :
                      links[[folder |-> g, course |-> c]] # Nil}

\* A link at the place concerns the seat: its shift is on the folder or above.
Below(place, seat) == FolderOf[seat.shift] \in Ancestors[place.folder]

OpenShifts == {s \in Shifts : shifts[s] = "open"}

\* A role's members of a set of shifts.
MembersBare(role, in) ==
  {u \in Users : \E s \in in : rows[[role |-> role, shift |-> s, user |-> u]] # Nil}
MembersOf(role, in) ==
  {m \in Members : /\ m.role = role
                   /\ \E s \in in : rows[[role |-> role, shift |-> s,
                                          user |-> m.user]] # Nil}

-----------------------------------------------------------------------------
Idle == [pc |-> "idle", seat |-> Nil, place |-> Nil, row |-> Nil, shifts |-> {},
         read |-> {}, members |-> {}, courses |-> {}]

\* The rows that are there at first belong to requests that are over, and
\* Moodle has what they call for.
Inserted(table) ==
  \A x, y \in DOMAIN table : table[x] = table[y] /\ table[x] # Nil => x = y

CalledFor(seat, place) ==
  /\ rows[seat] # Nil /\ links[place] # Nil
  /\ Below(place, seat)

Init ==
  /\ shifts \in [Shifts -> {"future", "open"}]
  /\ rows \in [Seats -> Requests \cup {Nil}] /\ Inserted(rows)
  /\ links \in [Places -> Requests \cup {Nil}] /\ Inserted(links)
  /\ \A seat \in Seats : rows[seat] # Nil =>
       /\ shifts[seat.shift] = "open"
       /\ \A place \in Places : rows[seat] # links[place]
  /\ enrolled = {g \in Grants : \E seat \in Seats, place \in Places :
                    /\ CalledFor(seat, place)
                    /\ g = [user |-> seat.user, course |-> place.course,
                            role |-> seat.role]}
  /\ request = [r \in Requests |->
       IF (\E seat \in Seats : r = rows[seat])
            \/ \E place \in Places : r = links[place]
       THEN [Idle EXCEPT !.pc = "done"] ELSE Idle]
  /\ lost = {}

Become(r, state) == request' = [request EXCEPT ![r] = state]

Goto(r, pc) == request' = [request EXCEPT ![r].pc = pc]

End(r, outcome) == Become(r, [Idle EXCEPT !.pc = outcome])

\* enrolUsers: one call, one Moodle transaction.  It takes effect and is
\* answered, or is refused; or it takes effect and the answer is lost, which
\* the caller cannot tell from a refusal.
EnrolUsers(r, grants, undoing) ==
  \/ enrolled' = enrolled \cup grants /\ End(r, "done")
  \/ enrolled' = enrolled \cup grants /\ Goto(r, undoing)
  \/ UNCHANGED enrolled /\ Goto(r, undoing)

-----------------------------------------------------------------------------
(* enroll and assignTeacher.                                               *)

\* A member who is already there is answered at once.
JoinFind(r, seat) ==
  /\ request[r].pc = "idle"
  /\ IF shifts[seat.shift] # "open" THEN End(r, "refused")
     ELSE IF rows[seat] # Nil THEN End(r, "done")
     ELSE Become(r, [Idle EXCEPT !.pc = "joining", !.seat = seat])
  /\ UNCHANGED <<shifts, rows, links, enrolled, lost>>

\* The unique key refuses a second row, the foreign key a deleted shift.
JoinSave(r) ==
  LET seat == request[r].seat IN
  /\ request[r].pc = "joining"
  /\ \/ /\ shifts[seat.shift] = "open" /\ rows[seat] = Nil
        /\ rows' = [rows EXCEPT ![seat] = r]
        /\ Goto(r, "joinReading")
     \/ /\ shifts[seat.shift] # "open" \/ rows[seat] # Nil
        /\ End(r, "failed")
        /\ UNCHANGED rows
  /\ UNCHANGED <<shifts, links, enrolled, lost>>

\* enrolUserInProgram reads the tree and its links; a failure is undone too.
JoinReadCourses(r) ==
  LET courses == CoursesUnder(FolderOf[request[r].seat.shift]) IN
  /\ request[r].pc = "joinReading"
  /\ \/ courses = {} /\ End(r, "done")
     \/ courses # {} /\ request' = [request EXCEPT ![r].pc = "joinEnrolling",
                                                   ![r].courses = courses]
     \/ Goto(r, "joinUndoing")
  /\ UNCHANGED <<shifts, rows, links, enrolled, lost>>

JoinEnrol(r) ==
  LET seat == request[r].seat IN
  /\ request[r].pc = "joinEnrolling"
  /\ EnrolUsers(r, {g \in Grants : /\ g.user = seat.user /\ g.role = seat.role
                                   /\ g.course \in request[r].courses},
                "joinUndoing")
  /\ UNCHANGED <<shifts, rows, links, lost>>

\* remove() deletes by the id of the row: a row somebody else inserted for
\* the same seat is another row.
RemoveSeat(seat, row) == rows' = [rows EXCEPT ![seat] = Nil]
RemoveRow(seat, row) ==
  rows' = [rows EXCEPT ![seat] = IF @ = row THEN Nil ELSE @]

JoinUndo(r) ==
  /\ request[r].pc = "joinUndoing"
  /\ RemoveRow(request[r].seat, r)
  /\ End(r, "failed")
  /\ UNCHANGED <<shifts, links, enrolled, lost>>

-----------------------------------------------------------------------------
(* unenroll and unassignTeacher, then unenrolUserFromProgramIfOrphan.      *)

LeaveFind(r, seat) ==
  /\ request[r].pc = "idle"
  /\ IF rows[seat] = Nil THEN End(r, "refused")
     ELSE Become(r, [Idle EXCEPT !.pc = "leaving", !.seat = seat,
                                 !.row = rows[seat]])
  /\ UNCHANGED <<shifts, rows, links, enrolled, lost>>

LeaveRemove(r) ==
  /\ request[r].pc = "leaving"
  /\ RemoveRow(request[r].seat, request[r].row)
  /\ Goto(r, "leaveShifts")
  /\ UNCHANGED <<shifts, links, enrolled, lost>>

\* The shifts of the tree below the folder of the shift left.
LeaveReadShifts(r) ==
  LET tree == FolderTree(FolderOf[request[r].seat.shift])
      found == {s \in OpenShifts : FolderOf[s] \in tree}
  IN /\ request[r].pc = "leaveShifts"
     /\ request' = [request EXCEPT
          ![r].shifts = found,
          ![r].pc = IF found = {} THEN "leaveReading" ELSE "leaveOthers"]
     /\ UNCHANGED <<shifts, rows, links, enrolled, lost>>

\* Another seat in the same role keeps the user enrolled.
LeaveCheckOthers(r) ==
  LET seat == request[r].seat
      still == [user |-> seat.user, role |-> seat.role]
                 \in MembersOf(seat.role, request[r].shifts)
  IN /\ request[r].pc = "leaveOthers"
     /\ IF still THEN End(r, "done") ELSE Goto(r, "leaveReading")
     /\ UNCHANGED <<shifts, rows, links, enrolled, lost>>

LeaveReadCourses(r) ==
  LET courses == CoursesUnder(FolderOf[request[r].seat.shift]) IN
  /\ request[r].pc = "leaveReading"
  /\ IF courses = {} THEN End(r, "done")
     ELSE request' = [request EXCEPT ![r].pc = "leaveUnenrolling",
                                     ![r].courses = courses]
  /\ UNCHANGED <<shifts, rows, links, enrolled, lost>>

\* unenrolUsers: Moodle drops the user from the courses in every role.  The
\* answer does not matter: nothing is undone, so a refusal ends as a failure.
LeaveUnenrol(r) ==
  LET seat == request[r].seat
      courses == request[r].courses
      mine == {k \in Seats : k.user = seat.user /\ rows[k] # Nil}
  IN /\ request[r].pc = "leaveUnenrolling"
     /\ enrolled' = {g \in enrolled : g.user # seat.user \/ g.course \notin courses}
     /\ lost' = lost \cup ({rows[k] : k \in mine} \X courses)
     /\ End(r, "done") \/ End(r, "failed")
     /\ UNCHANGED <<shifts, rows, links>>

-----------------------------------------------------------------------------
(* assignCourse, then syncCourseToExistingMembers; unassignCourse.         *)

LinkFind(r, place) ==
  /\ request[r].pc = "idle"
  /\ IF links[place] # Nil THEN End(r, "done")
     ELSE Become(r, [Idle EXCEPT !.pc = "linking", !.place = place])
  /\ UNCHANGED <<shifts, rows, links, enrolled, lost>>

LinkSave(r) ==
  LET place == request[r].place IN
  /\ request[r].pc = "linking"
  /\ \/ /\ links[place] = Nil
        /\ links' = [links EXCEPT ![place] = r]
        /\ Goto(r, "linkShifts")
     \/ /\ links[place] # Nil
        /\ End(r, "failed")
        /\ UNCHANGED links
  /\ UNCHANGED <<shifts, rows, enrolled, lost>>

\* The shifts on the folder or on one of its ancestors.
LinkReadShifts(r) ==
  LET found == {s \in OpenShifts :
                  FolderOf[s] \in Ancestors[request[r].place.folder]}
  IN /\ request[r].pc = "linkShifts"
     /\ \/ found = {} /\ End(r, "done")
        \/ found # {} /\ request' = [request EXCEPT ![r].pc = "linkMembers",
                                                    ![r].shifts = found]
        \/ Goto(r, "linkUndoing")
     /\ UNCHANGED <<shifts, rows, links, enrolled, lost>>

\* Promise.all over the two tables: they are read apart, in either order.
LinkReadMembers(r, role) ==
  LET read == request[r].read \cup {role}
      members == request[r].members \cup MembersOf(role, request[r].shifts)
  IN /\ request[r].pc = "linkMembers"
     /\ role \notin request[r].read
     /\ \/ read = Roles /\ members = {} /\ End(r, "done")
        \/ /\ ~(read = Roles /\ members = {})
           /\ request' = [request EXCEPT
                ![r].read = read, ![r].members = members,
                ![r].pc = IF read = Roles THEN "linkEnrolling" ELSE @]
        \/ Goto(r, "linkUndoing")
     /\ UNCHANGED <<shifts, rows, links, enrolled, lost>>

LinkEnrol(r) ==
  /\ request[r].pc = "linkEnrolling"
  /\ EnrolUsers(r, {g \in Grants : /\ g.course = request[r].place.course
                                   /\ [user |-> g.user, role |-> g.role]
                                        \in request[r].members},
                "linkUndoing")
  /\ UNCHANGED <<shifts, rows, links, lost>>

RemoveLink(place, row) ==
  links' = [links EXCEPT ![place] = IF @ = row THEN Nil ELSE @]

LinkUndo(r) ==
  /\ request[r].pc = "linkUndoing"
  /\ RemoveLink(request[r].place, r)
  /\ End(r, "failed")
  /\ UNCHANGED <<shifts, rows, enrolled, lost>>

\* unassignCourse deletes the link; nobody is unenrolled.
Unassign(r, place) ==
  /\ request[r].pc = "idle"
  /\ links[place] # Nil
  /\ links' = [links EXCEPT ![place] = Nil]
  /\ End(r, "done")
  /\ UNCHANGED <<shifts, rows, enrolled, lost>>

-----------------------------------------------------------------------------
(* adminCreateShift and adminDeleteShift: the rows of a deleted shift go   *)
(* with it (ON DELETE CASCADE), its members stay enrolled in Moodle.       *)

CreateShift(s) ==
  /\ shifts[s] = "future"
  /\ shifts' = [shifts EXCEPT ![s] = "open"]
  /\ UNCHANGED <<rows, links, enrolled, request, lost>>

DeleteShift(s) ==
  /\ shifts[s] = "open"
  /\ shifts' = [shifts EXCEPT ![s] = "deleted"]
  /\ rows' = [k \in Seats |-> IF k.shift = s THEN Nil ELSE rows[k]]
  /\ UNCHANGED <<links, enrolled, request, lost>>

\* The database fails outside the handler's try, or the process stops.
RequestFails(r) ==
  /\ request[r].pc \in Running
  /\ End(r, "failed")
  /\ UNCHANGED <<shifts, rows, links, enrolled, lost>>

RequestStep(r) ==
  \/ \E seat \in Seats : JoinFind(r, seat) \/ LeaveFind(r, seat)
  \/ \E place \in Places : LinkFind(r, place) \/ Unassign(r, place)
  \/ JoinSave(r) \/ JoinReadCourses(r) \/ JoinEnrol(r) \/ JoinUndo(r)
  \/ LeaveRemove(r) \/ LeaveReadShifts(r) \/ LeaveCheckOthers(r)
  \/ LeaveReadCourses(r) \/ LeaveUnenrol(r)
  \/ LinkSave(r) \/ LinkReadShifts(r) \/ LinkEnrol(r) \/ LinkUndo(r)
  \/ \E role \in Roles : LinkReadMembers(r, role)
  \/ RequestFails(r)

Next ==
  \/ \E r \in Requests : RequestStep(r)
  \/ \E s \in Shifts : CreateShift(s) \/ DeleteShift(s)

Spec == Init /\ [][Next]_vars

-----------------------------------------------------------------------------
(* Properties.                                                             *)

Settled(row) == row # Nil /\ request[row].pc = "done"

\* A join and a link that both answered never miss each other, whichever
\* wrote or read first: the member has the course in Moodle, unless a removal
\* reached Moodle after the member's row was there.
MembersHaveCourses ==
  \A seat \in Seats, place \in Places :
    (/\ Settled(rows[seat]) /\ Settled(links[place])
     /\ Below(place, seat)
     /\ <<rows[seat], place.course>> \notin lost)
    => [user |-> seat.user, course |-> place.course, role |-> seat.role]
         \in enrolled

\* Undoing what Moodle refused takes back the request's own row or link only:
\* never the row of a member who left and joined again meanwhile, nor the link
\* of a course that was unlinked and linked again.
UndoSparesOthers ==
  [][\A r \in Requests :
       request'[r].pc = "failed" =>
         /\ request[r].pc = "joinUndoing" =>
              \A seat \in Seats : rows'[seat] = rows[seat] \/ rows[seat] = r
         /\ request[r].pc = "linkUndoing" =>
              \A place \in Places : links'[place] = links[place] \/ links[place] = r]_vars

\* BREAKING_CHANGES.md: who leaves a shift is unenrolled only if he belongs
\* to no other shift of the same folder tree.  Stated for a removal that runs
\* alone, so that no race excuses it.
UnenrolsOnlyOrphans ==
  [][\A r \in Requests :
       (/\ request[r].pc = "leaveUnenrolling" /\ enrolled' # enrolled
        /\ \A q \in Requests \ {r} : request[q].pc \in {"idle", "done"})
       => \A seat \in Seats :
            (/\ seat.user = request[r].seat.user
             /\ seat.shift # request[r].seat.shift
             /\ FolderOf[seat.shift] \in FolderTree(FolderOf[request[r].seat.shift]))
            => rows[seat] = Nil]_vars
=============================================================================
