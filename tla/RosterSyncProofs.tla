-------------------------- MODULE RosterSyncProofs --------------------------
(***************************************************************************)
(* Proofs about RosterSync, for every folder tree and any number of        *)
(* shifts, users, courses and requests.                                    *)
(*                                                                         *)
(* The argument is that of two processes raising a flag before they look   *)
(* at the other's: a join saves its row before it reads the links, a link  *)
(* its own before it reads the rows.  Whoever saved second sees the first, *)
(* so as long as neither has given up, the course is granted or one of     *)
(* the two still has it on its list.                                       *)
(***************************************************************************)
EXTENDS RosterSync, TLAPS

JoinOwner == {"joinReading", "joinEnrolling", "joinUndoing", "done", "failed"}
LinkOwner == {"linkShifts", "linkMembers", "linkEnrolling", "linkUndoing",
              "done", "failed"}

\* What a request knows at each of its stages.
Shaped(q) ==
  /\ q.pc \in JoinStages \cup LeaveStages => q.seat \in Seats
  /\ q.pc \in LinkStages => q.place \in Places
  /\ q.pc \in {"linking", "linkShifts"} => q.read = {}

RequestsShaped == \A r \in Requests : Shaped(request[r])

\* A row belongs to the request that inserted it, a link likewise, and the
\* shift of a row exists.
RowsOwned ==
  \A k \in Seats : rows[k] # Nil =>
    /\ shifts[k.shift] = "open"
    /\ request[rows[k]].pc \in JoinOwner
    /\ request[rows[k]].pc \in JoinStages => request[rows[k]].seat = k

LinksOwned ==
  \A p \in Places : links[p] # Nil =>
    /\ request[links[p]].pc \in LinkOwner
    /\ request[links[p]].pc \in LinkStages => request[links[p]].place = p

Grant(k, p) == [user |-> k.user, course |-> p.course, role |-> k.role]
Member(k) == [user |-> k.user, role |-> k.role]

\* Either the grant is there, or one of the two requests will see to it, or
\* one of them has given up.
Pending(r, l, k, p) ==
  \/ Grant(k, p) \in enrolled
  \/ request[r].pc \in {"joinReading", "joinUndoing", "failed"}
  \/ request[r].pc = "joinEnrolling" /\ p.course \in request[r].courses
  \/ request[l].pc \in {"linkShifts", "linkUndoing", "failed"}
  \/ /\ request[l].pc = "linkMembers"
     /\ k.role \notin request[l].read /\ k.shift \in request[l].shifts
  \/ /\ request[l].pc \in {"linkMembers", "linkEnrolling"}
     /\ Member(k) \in request[l].members

NeverMissed ==
  \A k \in Seats, p \in Places :
    (/\ rows[k] # Nil /\ links[p] # Nil /\ Below(p, k)
     /\ <<rows[k], p.course>> \notin lost)
    => Pending(rows[k], links[p], k, p)

SyncInv == TypeOK /\ RequestsShaped /\ RowsOwned /\ LinksOwned /\ NeverMissed

-----------------------------------------------------------------------------
(* Facts about steps.                                                      *)

LEMMA GrantTyped ==
  ASSUME NEW k \in Seats, NEW p \in Places
  PROVE  Grant(k, p) \in Grants /\ Member(k) \in Members
BY DEF Seats, Places, Grant, Member, Grants, Members

LEMMA IdleTyped == Idle \in RequestStates /\ Shaped(Idle)
BY DEF Idle, RequestStates, Shaped, JoinStages, LeaveStages, LinkStages

\* A step of one request leaves the others alone.
LEMMA OthersKept ==
  ASSUME TypeOK, NEW r \in Requests, RequestStep(r),
         NEW other \in Requests, other # r
  PROVE  request'[other] = request[other]
BY DEF TypeOK, RequestStep, JoinFind, JoinSave, JoinReadCourses, JoinEnrol, JoinUndo,
       LeaveFind, LeaveRemove, LeaveReadShifts, LeaveCheckOthers, LeaveReadCourses,
       LeaveUnenrol, LinkFind, LinkSave, LinkReadShifts, LinkReadMembers, LinkEnrol,
       LinkUndo, Unassign, RequestFails, EnrolUsers, Become, Goto, End

\* The forms a step of a request gives its own state.
LEMMA BecomeShape ==
  ASSUME TypeOK, RequestsShaped, NEW r \in Requests,
         NEW x \in RequestStates, Shaped(x), Become(r, x)
  PROVE  /\ request' \in [Requests -> RequestStates] /\ RequestsShaped'
         /\ request'[r] = x
BY DEF TypeOK, RequestsShaped, Become

LEMMA EndShape ==
  ASSUME TypeOK, RequestsShaped, NEW r \in Requests, NEW pc \in Ended, End(r, pc)
  PROVE  /\ request' \in [Requests -> RequestStates] /\ RequestsShaped'
         /\ request'[r].pc = pc
<1> DEFINE x == [Idle EXCEPT !.pc = pc]
<1>1. x \in RequestStates /\ Shaped(x) /\ x.pc = pc
  BY IdleTyped DEF Idle, RequestStates, Shaped, Ended, JoinStages, LeaveStages,
     LinkStages
<1>2. Become(r, x)
  BY DEF End
<1> HIDE DEF x
<1> QED
  BY <1>1, <1>2, BecomeShape

LEMMA GotoShape ==
  ASSUME TypeOK, RequestsShaped, NEW r \in Requests, NEW pc \in Running,
         Goto(r, pc), Shaped([request[r] EXCEPT !.pc = pc])
  PROVE  /\ request' \in [Requests -> RequestStates] /\ RequestsShaped'
         /\ request'[r] = [request[r] EXCEPT !.pc = pc]
<1>1. request[r] \in RequestStates
  BY DEF TypeOK
<1>2. request' = [request EXCEPT ![r] = [request[r] EXCEPT !.pc = pc]]
  BY DEF Goto, TypeOK
<1>3. [request[r] EXCEPT !.pc = pc] \in RequestStates
  BY <1>1 DEF RequestStates
<1> QED
  BY <1>2, <1>3 DEF TypeOK, RequestsShaped

-----------------------------------------------------------------------------
(* Typing.                                                                 *)

\* Moving on with what is known, in a stage of the same operation.
LEMMA OnwardShape ==
  ASSUME TypeOK, RequestsShaped, NEW r \in Requests, NEW pc \in Running, Goto(r, pc),
         \/ request[r].pc \in JoinStages /\ pc \in JoinStages
         \/ request[r].pc \in LeaveStages /\ pc \in LeaveStages
         \/ request[r].pc \in LinkStages /\ pc \in LinkStages \ {"linking", "linkShifts"}
  PROVE  /\ request' \in [Requests -> RequestStates] /\ RequestsShaped'
         /\ request'[r] = [request[r] EXCEPT !.pc = pc]
<1>1. request[r] \in RequestStates /\ Shaped(request[r])
  BY DEF TypeOK, RequestsShaped
<1>2. Shaped([request[r] EXCEPT !.pc = pc])
  BY <1>1 DEF RequestStates, Shaped, JoinStages, LeaveStages, LinkStages
<1> QED
  BY <1>2, GotoShape

LEMMA RequestsTyped ==
  ASSUME TypeOK, RequestsShaped, NEW r \in Requests, RequestStep(r)
  PROVE  request' \in [Requests -> RequestStates] /\ RequestsShaped'
<1> DEFINE Goal == request' \in [Requests -> RequestStates] /\ RequestsShaped'
<1>0. request[r] \in RequestStates /\ Shaped(request[r])
  BY DEF TypeOK, RequestsShaped
<1>1. ASSUME NEW pc \in Ended, End(r, pc) PROVE Goal
  BY <1>1, EndShape
<1>2. ASSUME NEW seat \in Seats, JoinFind(r, seat) \/ LeaveFind(r, seat) PROVE Goal
  <2> DEFINE x == [Idle EXCEPT !.pc = "joining", !.seat = seat]
             y == [Idle EXCEPT !.pc = "leaving", !.seat = seat, !.row = rows[seat]]
  <2>1. /\ x \in RequestStates /\ Shaped(x)
        /\ y \in RequestStates /\ Shaped(y)
    <3>1. rows[seat] \in Requests \cup {Nil}
      BY DEF TypeOK
    <3> QED
      BY <3>1 DEF Idle, RequestStates, Shaped, Running, JoinStages, LeaveStages,
                  LinkStages
  <2>2. \/ End(r, "refused") \/ End(r, "done") \/ Become(r, x) \/ Become(r, y)
    BY <1>2 DEF JoinFind, LeaveFind
  <2> HIDE DEF x, y
  <2> QED
    BY <1>1, <2>1, <2>2, BecomeShape DEF Ended
<1>3. ASSUME NEW place \in Places, LinkFind(r, place) \/ Unassign(r, place) PROVE Goal
  <2> DEFINE x == [Idle EXCEPT !.pc = "linking", !.place = place]
  <2>1. x \in RequestStates /\ Shaped(x)
    BY DEF Idle, RequestStates, Shaped, Running, JoinStages, LeaveStages, LinkStages
  <2>2. End(r, "done") \/ Become(r, x)
    BY <1>3 DEF LinkFind, Unassign
  <2> HIDE DEF x
  <2> QED
    BY <1>1, <2>1, <2>2, BecomeShape DEF Ended
<1>4. CASE JoinSave(r) \/ JoinEnrol(r) \/ JoinUndo(r)
  <2>1. request[r].pc \in JoinStages
    BY <1>4 DEF JoinSave, JoinEnrol, JoinUndo, JoinStages
  <2>2. \/ End(r, "failed") \/ End(r, "done")
        \/ Goto(r, "joinReading") \/ Goto(r, "joinUndoing")
    BY <1>4 DEF JoinSave, JoinEnrol, JoinUndo, EnrolUsers
  <2> QED
    BY <1>1, <2>1, <2>2, OnwardShape DEF Ended, Running, JoinStages
<1>5. CASE JoinReadCourses(r) \/ LeaveReadCourses(r)
  <2> DEFINE courses == CoursesUnder(FolderOf[request[r].seat.shift])
             x(pc) == [request[r] EXCEPT !.pc = pc, !.courses = courses]
  <2>1. courses \in SUBSET Courses
    BY DEF CoursesUnder
  <2>2. request[r].pc \in {"joinReading", "leaveReading"}
    BY <1>5 DEF JoinReadCourses, LeaveReadCourses
  <2>3. \A pc \in {"joinEnrolling", "leaveUnenrolling"} :
          x(pc) \in RequestStates /\ Shaped(x(pc))
    BY <1>0, <2>1, <2>2 DEF RequestStates, Shaped, Running, JoinStages, LeaveStages,
       LinkStages
  <2>4. \/ End(r, "done")
        \/ Goto(r, "joinUndoing") /\ request[r].pc = "joinReading"
        \/ Become(r, x("joinEnrolling")) \/ Become(r, x("leaveUnenrolling"))
    <3>1. request' = [request EXCEPT ![r].pc = "joinEnrolling", ![r].courses = courses]
            => Become(r, x("joinEnrolling"))
      BY <1>0 DEF Become, TypeOK
    <3>2. request' = [request EXCEPT ![r].pc = "leaveUnenrolling", ![r].courses = courses]
            => Become(r, x("leaveUnenrolling"))
      BY <1>0 DEF Become, TypeOK
    <3>3. CASE JoinReadCourses(r)
      BY <3>1, <3>3 DEF JoinReadCourses
    <3>4. CASE LeaveReadCourses(r)
      BY <3>2, <3>4 DEF LeaveReadCourses
    <3> HIDE DEF x
    <3> QED
      BY <1>5, <3>3, <3>4
  <2> HIDE DEF x
  <2> QED
    BY <1>1, <2>3, <2>4, BecomeShape, OnwardShape DEF Ended, Running, JoinStages
<1>6. CASE LeaveRemove(r) \/ LeaveCheckOthers(r) \/ LeaveUnenrol(r)
  <2>1. request[r].pc \in LeaveStages
    BY <1>6 DEF LeaveRemove, LeaveCheckOthers, LeaveUnenrol, LeaveStages
  <2>2. \/ End(r, "failed") \/ End(r, "done")
        \/ Goto(r, "leaveShifts") \/ Goto(r, "leaveReading")
    BY <1>6 DEF LeaveRemove, LeaveCheckOthers, LeaveUnenrol
  <2> QED
    BY <1>1, <2>1, <2>2, OnwardShape DEF Ended, Running, LeaveStages
<1>7. CASE LeaveReadShifts(r) \/ LinkReadShifts(r)
  <2>1. PICK found \in SUBSET Shifts,
             pc \in {"leaveReading", "leaveOthers", "linkMembers", "linkUndoing", "done"} :
          \/ End(r, "done")
          \/ Goto(r, "linkUndoing") /\ request[r].pc = "linkShifts"
          \/ /\ Become(r, [request[r] EXCEPT !.pc = pc, !.shifts = found])
             /\ \/ request[r].pc = "linkShifts" /\ pc = "linkMembers"
                \/ request[r].pc = "leaveShifts" /\ pc \in {"leaveReading", "leaveOthers"}
    <3>1. CASE LeaveReadShifts(r)
      <4> DEFINE found == {s \in OpenShifts :
                     FolderOf[s] \in FolderTree(FolderOf[request[r].seat.shift])}
                 pc == IF found = {} THEN "leaveReading" ELSE "leaveOthers"
      <4>1. found \in SUBSET Shifts
        BY DEF OpenShifts
      <4>2. Become(r, [request[r] EXCEPT !.pc = pc, !.shifts = found])
            /\ request[r].pc = "leaveShifts"
        BY <1>0, <3>1 DEF LeaveReadShifts, Become, TypeOK
      <4>3. pc \in {"leaveReading", "leaveOthers"}
        OBVIOUS
      <4> HIDE DEF found, pc
      <4> QED
        BY <4>1, <4>2, <4>3
    <3>2. CASE LinkReadShifts(r)
      <4> DEFINE found == {s \in OpenShifts :
                     FolderOf[s] \in Ancestors[request[r].place.folder]}
      <4>1. found \in SUBSET Shifts
        BY DEF OpenShifts
      <4>2. \/ End(r, "done")
            \/ Goto(r, "linkUndoing") /\ request[r].pc = "linkShifts"
            \/ /\ Become(r, [request[r] EXCEPT !.pc = "linkMembers", !.shifts = found])
               /\ request[r].pc = "linkShifts"
        BY <1>0, <3>2 DEF LinkReadShifts, Become, TypeOK
      <4> HIDE DEF found
      <4> QED
        BY <4>1, <4>2
    <3> QED
      BY <1>7, <3>1, <3>2
  <2> DEFINE x == [request[r] EXCEPT !.pc = pc, !.shifts = found]
  <2>2. \/ request[r].pc = "linkShifts" /\ pc = "linkMembers"
        \/ request[r].pc = "leaveShifts" /\ pc \in {"leaveReading", "leaveOthers"}
        => x \in RequestStates /\ Shaped(x)
    BY <1>0 DEF RequestStates, Shaped, Running, JoinStages, LeaveStages, LinkStages
  <2> HIDE DEF x
  <2> QED
    BY <1>1, <2>1, <2>2, BecomeShape, OnwardShape DEF x, Ended, Running, LinkStages
<1>8. ASSUME NEW role \in Roles, LinkReadMembers(r, role) PROVE Goal
  <2> DEFINE read == request[r].read \cup {role}
             members == request[r].members \cup MembersOf(role, request[r].shifts)
             pc == IF read = Roles THEN "linkEnrolling" ELSE request[r].pc
             x == [request[r] EXCEPT !.read = read, !.members = members, !.pc = pc]
  <2>1. read \in SUBSET Roles /\ members \in SUBSET Members
    BY <1>0 DEF RequestStates, MembersOf
  <2>2. request[r].pc = "linkMembers"
    BY <1>8 DEF LinkReadMembers
  <2>3. pc \in {"linkEnrolling", "linkMembers"}
    BY <2>2
  <2>4. End(r, "done") \/ Goto(r, "linkUndoing") \/ Become(r, x)
    BY <1>0, <1>8 DEF LinkReadMembers, Become, TypeOK
  <2> HIDE DEF read, members, pc
  <2>5. x \in RequestStates /\ Shaped(x)
    BY <1>0, <2>1, <2>2, <2>3 DEF RequestStates, Shaped, Running, JoinStages,
       LeaveStages, LinkStages
  <2> HIDE DEF x
  <2> QED
    BY <1>1, <2>2, <2>4, <2>5, BecomeShape, OnwardShape DEF Ended, Running, LinkStages
<1>9. CASE LinkEnrol(r) \/ LinkUndo(r)
  <2>1. request[r].pc \in LinkStages
    BY <1>9 DEF LinkEnrol, LinkUndo, LinkStages
  <2>2. End(r, "failed") \/ End(r, "done") \/ Goto(r, "linkUndoing")
    BY <1>9 DEF LinkEnrol, LinkUndo, EnrolUsers
  <2> QED
    BY <1>1, <2>1, <2>2, OnwardShape DEF Ended, Running, LinkStages
<1>10. CASE LinkSave(r)
  <2>1. request[r].pc = "linking"
    BY <1>10 DEF LinkSave
  <2>2. Shaped([request[r] EXCEPT !.pc = "linkShifts"])
    BY <1>0, <2>1 DEF RequestStates, Shaped, JoinStages, LeaveStages, LinkStages
  <2>3. End(r, "failed") \/ Goto(r, "linkShifts")
    BY <1>10 DEF LinkSave
  <2> QED
    BY <1>1, <2>2, <2>3, GotoShape DEF Ended, Running, LinkStages
<1>11. CASE RequestFails(r)
  BY <1>1, <1>11 DEF RequestFails, Ended
<1> QED
  BY <1>2, <1>3, <1>4, <1>5, <1>6, <1>7, <1>8, <1>9, <1>10, <1>11 DEF RequestStep

\* What each step does to the rows, and to the links.
LEMMA RowsAfter ==
  ASSUME NEW r \in Requests, RequestStep(r)
  PROVE  \/ UNCHANGED rows
         \/ /\ JoinSave(r) /\ Goto(r, "joinReading")
            /\ shifts[request[r].seat.shift] = "open" /\ rows[request[r].seat] = Nil
            /\ rows' = [rows EXCEPT ![request[r].seat] = r]
         \/ JoinUndo(r) /\ RemoveRow(request[r].seat, r)
         \/ LeaveRemove(r) /\ RemoveRow(request[r].seat, request[r].row)
BY DEF RequestStep, JoinFind, JoinSave, JoinReadCourses, JoinEnrol, JoinUndo,
       LeaveFind, LeaveRemove, LeaveReadShifts, LeaveCheckOthers, LeaveReadCourses,
       LeaveUnenrol, LinkFind, LinkSave, LinkReadShifts, LinkReadMembers, LinkEnrol,
       LinkUndo, Unassign, RequestFails

LEMMA LinksAfter ==
  ASSUME NEW r \in Requests, RequestStep(r)
  PROVE  \/ UNCHANGED links
         \/ /\ LinkSave(r) /\ Goto(r, "linkShifts")
            /\ links[request[r].place] = Nil
            /\ links' = [links EXCEPT ![request[r].place] = r]
         \/ LinkUndo(r) /\ RemoveLink(request[r].place, r)
         \/ \E place \in Places : links' = [links EXCEPT ![place] = Nil]
BY DEF RequestStep, JoinFind, JoinSave, JoinReadCourses, JoinEnrol, JoinUndo,
       LeaveFind, LeaveRemove, LeaveReadShifts, LeaveCheckOthers, LeaveReadCourses,
       LeaveUnenrol, LinkFind, LinkSave, LinkReadShifts, LinkReadMembers, LinkEnrol,
       LinkUndo, Unassign, RequestFails

LEMMA TablesTyped ==
  ASSUME TypeOK, RequestsShaped, NEW r \in Requests, RequestStep(r)
  PROVE  /\ UNCHANGED shifts
         /\ rows' \in [Seats -> Requests \cup {Nil}]
         /\ links' \in [Places -> Requests \cup {Nil}]
         /\ enrolled' \subseteq Grants
         /\ lost' \subseteq Requests \X Courses
<1>0. /\ rows \in [Seats -> Requests \cup {Nil}]
      /\ links \in [Places -> Requests \cup {Nil}]
      /\ enrolled \subseteq Grants /\ lost \subseteq Requests \X Courses
      /\ request[r] \in RequestStates
  BY DEF TypeOK
<1>1. UNCHANGED shifts
  BY DEF RequestStep, JoinFind, JoinSave, JoinReadCourses, JoinEnrol, JoinUndo,
     LeaveFind, LeaveRemove, LeaveReadShifts, LeaveCheckOthers, LeaveReadCourses,
     LeaveUnenrol, LinkFind, LinkSave, LinkReadShifts, LinkReadMembers, LinkEnrol,
     LinkUndo, Unassign, RequestFails
<1>2. rows' \in [Seats -> Requests \cup {Nil}]
  BY <1>0, RowsAfter DEF RemoveRow
<1>3. links' \in [Places -> Requests \cup {Nil}]
  BY <1>0, LinksAfter DEF RemoveLink
<1>4. CASE LeaveUnenrol(r)
  <2> DEFINE courses == request[r].courses
             mine == {k \in Seats : k.user = request[r].seat.user /\ rows[k] # Nil}
  <2>1. courses \subseteq Courses
    BY <1>0 DEF RequestStates
  <2>2. {rows[k] : k \in mine} \subseteq Requests
    BY <1>0
  <2>3. lost' = lost \cup ({rows[k] : k \in mine} \X courses)
    BY <1>4 DEF LeaveUnenrol
  <2>4. lost' \subseteq Requests \X Courses
    <3> HIDE DEF mine, courses
    <3> QED
      BY <1>0, <2>1, <2>2, <2>3
  <2>5. enrolled' \subseteq Grants
    BY <1>0, <1>4 DEF LeaveUnenrol
  <2> QED
    BY <1>1, <1>2, <1>3, <2>4, <2>5
<1>5. CASE ~LeaveUnenrol(r)
  <2>1. UNCHANGED lost
    BY <1>5 DEF RequestStep, JoinFind, JoinSave, JoinReadCourses, JoinEnrol, JoinUndo,
       LeaveFind, LeaveRemove, LeaveReadShifts, LeaveCheckOthers, LeaveReadCourses,
       LinkFind, LinkSave, LinkReadShifts, LinkReadMembers, LinkEnrol,
       LinkUndo, Unassign, RequestFails
  <2>2. enrolled' \subseteq Grants
    BY <1>0, <1>5 DEF RequestStep, JoinFind, JoinSave, JoinReadCourses, JoinEnrol,
       JoinUndo, LeaveFind, LeaveRemove, LeaveReadShifts, LeaveCheckOthers,
       LeaveReadCourses, LinkFind, LinkSave, LinkReadShifts, LinkReadMembers,
       LinkEnrol, LinkUndo, Unassign, RequestFails, EnrolUsers
  <2> QED
    BY <1>0, <1>1, <1>2, <1>3, <2>1, <2>2
<1> QED
  BY <1>4, <1>5

-----------------------------------------------------------------------------
(* Ownership.                                                              *)

\* An owner only moves along its own operation.
LEMMA OwnerMoves ==
  ASSUME TypeOK, RequestsShaped, NEW r \in Requests, RequestStep(r)
  PROVE  /\ request[r].pc \in JoinOwner =>
              /\ request'[r].pc \in JoinOwner
              /\ request'[r].pc \in JoinStages =>
                   /\ request[r].pc \in JoinStages
                   /\ request'[r].seat = request[r].seat
         /\ request[r].pc \in LinkOwner =>
              /\ request'[r].pc \in LinkOwner
              /\ request'[r].pc \in LinkStages =>
                   /\ request[r].pc \in LinkStages
                   /\ request'[r].place = request[r].place
<1>0. request[r] \in RequestStates /\ request \in [Requests -> RequestStates]
  BY DEF TypeOK
<1>1. ASSUME NEW pc \in Ended, End(r, pc)
      PROVE  request'[r].pc = pc
  BY <1>1, EndShape
<1>2. ASSUME NEW pc, Goto(r, pc)
      PROVE  /\ request'[r].pc = pc /\ request'[r].seat = request[r].seat
             /\ request'[r].place = request[r].place
  BY <1>0, <1>2 DEF Goto, RequestStates
<1>3. CASE request[r].pc \in {"joinReading", "joinEnrolling", "joinUndoing"}
  <2>1. JoinReadCourses(r) \/ JoinEnrol(r) \/ JoinUndo(r) \/ RequestFails(r)
    BY <1>3 DEF RequestStep, JoinFind, JoinSave, LeaveFind, LeaveRemove,
       LeaveReadShifts, LeaveCheckOthers, LeaveReadCourses, LeaveUnenrol, LinkFind,
       LinkSave, LinkReadShifts, LinkReadMembers, LinkEnrol, LinkUndo, Unassign
  <2>2. \/ End(r, "done") \/ End(r, "failed") \/ Goto(r, "joinUndoing")
        \/ /\ request'[r].pc = "joinEnrolling" /\ request'[r].seat = request[r].seat
    BY <1>0, <2>1 DEF JoinReadCourses, JoinEnrol, JoinUndo, RequestFails, EnrolUsers,
       RequestStates
  <2> QED
    BY <1>1, <1>2, <1>3, <2>2 DEF Ended, JoinOwner, JoinStages, LinkOwner
<1>4. CASE request[r].pc \in {"linkShifts", "linkMembers", "linkEnrolling", "linkUndoing"}
  <2>1. \/ LinkReadShifts(r) \/ LinkEnrol(r) \/ LinkUndo(r) \/ RequestFails(r)
        \/ \E role \in Roles : LinkReadMembers(r, role)
    BY <1>4 DEF RequestStep, JoinFind, JoinSave, JoinReadCourses, JoinEnrol, JoinUndo,
       LeaveFind, LeaveRemove, LeaveReadShifts, LeaveCheckOthers, LeaveReadCourses,
       LeaveUnenrol, LinkFind, LinkSave, Unassign
  <2>2. \/ End(r, "done") \/ End(r, "failed") \/ Goto(r, "linkUndoing")
        \/ /\ request'[r].pc \in {"linkMembers", "linkEnrolling"}
           /\ request'[r].place = request[r].place
    <3>1. CASE LinkReadShifts(r)
      BY <1>0, <3>1 DEF LinkReadShifts, RequestStates
    <3>2. ASSUME NEW role \in Roles, LinkReadMembers(r, role)
          PROVE  \/ End(r, "done") \/ Goto(r, "linkUndoing")
                 \/ /\ request'[r].pc \in {"linkMembers", "linkEnrolling"}
                    /\ request'[r].place = request[r].place
      BY <1>0, <3>2 DEF LinkReadMembers, RequestStates
    <3>3. CASE LinkEnrol(r) \/ LinkUndo(r) \/ RequestFails(r)
      BY <3>3 DEF LinkEnrol, LinkUndo, RequestFails, EnrolUsers
    <3> QED
      BY <2>1, <3>1, <3>2, <3>3
  <2> QED
    BY <1>1, <1>2, <1>4, <2>2 DEF Ended, JoinOwner, LinkStages, LinkOwner
<1>5. request[r].pc \notin {"done", "failed"}
  BY DEF RequestStep, JoinFind, JoinSave, JoinReadCourses, JoinEnrol, JoinUndo,
     LeaveFind, LeaveRemove, LeaveReadShifts, LeaveCheckOthers, LeaveReadCourses,
     LeaveUnenrol, LinkFind, LinkSave, LinkReadShifts, LinkReadMembers, LinkEnrol,
     LinkUndo, Unassign, RequestFails, Running, JoinStages, LeaveStages, LinkStages
<1> QED
  BY <1>3, <1>4, <1>5 DEF JoinOwner, LinkOwner

LEMMA RowsOwnedStep ==
  ASSUME SyncInv, NEW r \in Requests, RequestStep(r)
  PROVE  RowsOwned'
<1> SUFFICES ASSUME NEW k \in Seats, rows'[k] # Nil
             PROVE  /\ shifts'[k.shift] = "open"
                    /\ request'[rows'[k]].pc \in JoinOwner
                    /\ request'[rows'[k]].pc \in JoinStages => request'[rows'[k]].seat = k
  BY DEF RowsOwned
<1>0. /\ TypeOK /\ RequestsShaped /\ UNCHANGED shifts
      /\ rows \in [Seats -> Requests \cup {Nil}] /\ request[r] \in RequestStates
      /\ request \in [Requests -> RequestStates]
  BY TablesTyped DEF SyncInv, TypeOK
<1>1. CASE rows'[k] = rows[k]
  <2>1. /\ rows[k] \in Requests
        /\ shifts[k.shift] = "open"
        /\ request[rows[k]].pc \in JoinOwner
        /\ request[rows[k]].pc \in JoinStages => request[rows[k]].seat = k
    BY <1>0, <1>1 DEF SyncInv, RowsOwned
  <2> QED
    BY <1>0, <1>1, <2>1, OthersKept, OwnerMoves
<1>2. CASE rows'[k] # rows[k]
  <2>1. /\ Goto(r, "joinReading") /\ rows'[k] = r /\ k = request[r].seat
        /\ shifts[k.shift] = "open"
    BY <1>0, <1>2, RowsAfter DEF RemoveRow
  <2> QED
    BY <1>0, <2>1 DEF Goto, RequestStates, JoinOwner
<1> QED
  BY <1>1, <1>2

LEMMA LinksOwnedStep ==
  ASSUME SyncInv, NEW r \in Requests, RequestStep(r)
  PROVE  LinksOwned'
<1> SUFFICES ASSUME NEW p \in Places, links'[p] # Nil
             PROVE  /\ request'[links'[p]].pc \in LinkOwner
                    /\ request'[links'[p]].pc \in LinkStages => request'[links'[p]].place = p
  BY DEF LinksOwned
<1>0. /\ TypeOK /\ RequestsShaped
      /\ links \in [Places -> Requests \cup {Nil}] /\ request[r] \in RequestStates
      /\ request \in [Requests -> RequestStates]
  BY DEF SyncInv, TypeOK
<1>1. CASE links'[p] = links[p]
  <2>1. /\ links[p] \in Requests
        /\ request[links[p]].pc \in LinkOwner
        /\ request[links[p]].pc \in LinkStages => request[links[p]].place = p
    BY <1>0, <1>1 DEF SyncInv, LinksOwned
  <2> QED
    BY <1>0, <1>1, <2>1, OthersKept, OwnerMoves
<1>2. CASE links'[p] # links[p]
  <2>1. /\ Goto(r, "linkShifts") /\ links'[p] = r /\ p = request[r].place
    BY <1>0, <1>2, LinksAfter DEF RemoveLink
  <2> QED
    BY <1>0, <2>1 DEF Goto, RequestStates, LinkOwner
<1> QED
  BY <1>1, <1>2

-----------------------------------------------------------------------------
(* A join and a link never miss each other.                                *)

\* Moodle only forgets a grant by an unenrolment, and that is recorded.
LEMMA GrantsKept ==
  ASSUME NEW r \in Requests, RequestStep(r), NEW k \in Seats, NEW p \in Places,
         rows[k] # Nil, Grant(k, p) \in enrolled,
         <<rows[k], p.course>> \notin lost'
  PROVE  Grant(k, p) \in enrolled'
<1>1. CASE LeaveUnenrol(r)
  <2> DEFINE mine == {j \in Seats : j.user = request[r].seat.user /\ rows[j] # Nil}
  <2>1. lost' = lost \cup ({rows[j] : j \in mine} \X request[r].courses)
    BY <1>1 DEF LeaveUnenrol
  <2>2. k.user # request[r].seat.user \/ p.course \notin request[r].courses
    BY <2>1
  <2> QED
    BY <1>1, <2>2 DEF LeaveUnenrol, Grant
<1>2. CASE ~LeaveUnenrol(r)
  BY <1>2 DEF RequestStep, JoinFind, JoinSave, JoinReadCourses, JoinEnrol,
     JoinUndo, LeaveFind, LeaveRemove, LeaveReadShifts, LeaveCheckOthers,
     LeaveReadCourses, LinkFind, LinkSave, LinkReadShifts, LinkReadMembers,
     LinkEnrol, LinkUndo, Unassign, RequestFails, EnrolUsers
<1> QED
  BY <1>1, <1>2

\* A request that owns something and moves is not over.
LEMMA MoversRun ==
  ASSUME NEW r \in Requests, RequestStep(r)
  PROVE  request[r].pc \notin {"done", "failed"}
BY DEF RequestStep, JoinFind, JoinSave, JoinReadCourses, JoinEnrol, JoinUndo,
   LeaveFind, LeaveRemove, LeaveReadShifts, LeaveCheckOthers, LeaveReadCourses,
   LeaveUnenrol, LinkFind, LinkSave, LinkReadShifts, LinkReadMembers, LinkEnrol,
   LinkUndo, Unassign, RequestFails, Running, JoinStages, LeaveStages, LinkStages

\* The join's own steps: it sees every link that is already there.
LEMMA JoinSees ==
  ASSUME SyncInv, NEW r \in Requests, RequestStep(r),
         NEW k \in Seats, NEW p \in Places, NEW l \in Requests,
         rows[k] = r, links[p] = l, Below(p, k),
         <<r, p.course>> \notin lost', Pending(r, l, k, p)
  PROVE  Pending(r, l, k, p)'
<1>0. /\ TypeOK /\ RequestsShaped /\ request[r] \in RequestStates
      /\ request \in [Requests -> RequestStates] /\ r # Nil /\ l # Nil
  BY NilAssumption DEF SyncInv, TypeOK
<1>1. /\ request[r].pc \in {"joinReading", "joinEnrolling", "joinUndoing"}
      /\ request[r].seat = k
  BY <1>0, MoversRun DEF SyncInv, RowsOwned, JoinOwner, JoinStages
<1>2. l # r
  BY <1>0, <1>1 DEF SyncInv, LinksOwned, LinkOwner
<1>3. request'[l] = request[l]
  BY <1>0, <1>2, OthersKept
<1>4. Grant(k, p) \in enrolled => Grant(k, p) \in enrolled'
  BY <1>0, GrantsKept
<1>5. JoinReadCourses(r) \/ JoinEnrol(r) \/ JoinUndo(r) \/ RequestFails(r)
  BY <1>1 DEF RequestStep, JoinFind, JoinSave, LeaveFind, LeaveRemove,
     LeaveReadShifts, LeaveCheckOthers, LeaveReadCourses, LeaveUnenrol, LinkFind,
     LinkSave, LinkReadShifts, LinkReadMembers, LinkEnrol, LinkUndo, Unassign
<1>6. \A pc \in Ended : End(r, pc) => request'[r].pc = pc
  BY <1>0, EndShape
<1>7. \A pc : Goto(r, pc) => request'[r].pc = pc
  BY <1>0 DEF Goto, RequestStates
<1>8. CASE JoinReadCourses(r)
  <2>1. p.course \in CoursesUnder(FolderOf[k.shift])
    <3>1. p.folder \in FolderTree(FolderOf[k.shift])
      BY DEF Below, FolderTree, Places
    <3>2. p = [folder |-> p.folder, course |-> p.course] /\ p.course \in Courses
      BY DEF Places
    <3> QED
      BY <1>0, <3>1, <3>2 DEF CoursesUnder
  <2>2. \/ Goto(r, "joinUndoing")
        \/ /\ request'[r].pc = "joinEnrolling"
           /\ p.course \in request'[r].courses
    BY <1>0, <1>1, <1>8, <2>1 DEF JoinReadCourses, RequestStates
  <2> QED
    BY <1>7, <2>2 DEF Pending
<1>9. CASE JoinEnrol(r)
  <2>1. request[r].pc = "joinEnrolling"
    BY <1>9 DEF JoinEnrol
  <2>2. CASE Goto(r, "joinUndoing")
    BY <1>7, <2>2 DEF Pending
  <2>3. CASE enrolled' = enrolled \cup
               {g \in Grants : /\ g.user = k.user /\ g.role = k.role
                               /\ g.course \in request[r].courses}
    <3>1. CASE p.course \in request[r].courses
      <4>1. Grant(k, p) \in enrolled'
        BY <2>3, <3>1, GrantTyped DEF Grant
      <4> QED
        BY <4>1 DEF Pending
    <3>2. CASE p.course \notin request[r].courses
      BY <1>3, <1>4, <2>1, <3>2 DEF Pending
    <3> QED
      BY <3>1, <3>2
  <2> QED
    BY <1>1, <1>9, <2>2, <2>3 DEF JoinEnrol, EnrolUsers
<1>10. CASE JoinUndo(r) \/ RequestFails(r)
  BY <1>6, <1>10 DEF JoinUndo, RequestFails, Pending, Ended
<1> QED
  BY <1>5, <1>8, <1>9, <1>10

\* The link's own steps: it sees every member who is already there.
LEMMA LinkSees ==
  ASSUME SyncInv, NEW l \in Requests, RequestStep(l),
         NEW k \in Seats, NEW p \in Places, NEW r \in Requests,
         rows[k] = r, links[p] = l, Below(p, k),
         <<r, p.course>> \notin lost', Pending(r, l, k, p)
  PROVE  Pending(r, l, k, p)'
<1>0. /\ TypeOK /\ RequestsShaped /\ request[l] \in RequestStates
      /\ request \in [Requests -> RequestStates] /\ r # Nil /\ l # Nil
      /\ Shaped(request[l])
  BY NilAssumption DEF SyncInv, TypeOK, RequestsShaped
<1>1. /\ request[l].pc \in {"linkShifts", "linkMembers", "linkEnrolling", "linkUndoing"}
      /\ request[l].place = p
  BY <1>0, MoversRun DEF SyncInv, LinksOwned, LinkOwner, LinkStages
<1>2. l # r
  BY <1>0, <1>1 DEF SyncInv, RowsOwned, JoinOwner
<1>3. request'[r] = request[r]
  BY <1>0, <1>2, OthersKept
<1>4. Grant(k, p) \in enrolled => Grant(k, p) \in enrolled'
  BY <1>0, GrantsKept
<1>5. \/ LinkReadShifts(l) \/ LinkEnrol(l) \/ LinkUndo(l) \/ RequestFails(l)
      \/ \E role \in Roles : LinkReadMembers(l, role)
  BY <1>1 DEF RequestStep, JoinFind, JoinSave, JoinReadCourses, JoinEnrol, JoinUndo,
     LeaveFind, LeaveRemove, LeaveReadShifts, LeaveCheckOthers, LeaveReadCourses,
     LeaveUnenrol, LinkFind, LinkSave, Unassign
<1>6. \A pc \in Ended : End(l, pc) => request'[l].pc = pc
  BY <1>0, EndShape
<1>7. \A pc : Goto(l, pc) => request'[l].pc = pc
  BY <1>0 DEF Goto, RequestStates
<1>8. CASE LinkReadShifts(l)
  <2>1. k.shift \in {s \in OpenShifts : FolderOf[s] \in Ancestors[p.folder]}
    BY <1>0 DEF SyncInv, RowsOwned, OpenShifts, Below, Seats
  <2>2. \/ Goto(l, "linkUndoing")
        \/ /\ request'[l].pc = "linkMembers"
           /\ k.shift \in request'[l].shifts
           /\ request'[l].read = request[l].read
    BY <1>0, <1>1, <1>8, <2>1 DEF LinkReadShifts, RequestStates
  <2>3. request[l].read = {}
    BY <1>0, <1>8 DEF LinkReadShifts, Shaped
  <2> QED
    BY <1>7, <2>2, <2>3 DEF Pending
<1>9. ASSUME NEW role \in Roles, LinkReadMembers(l, role)
      PROVE  Pending(r, l, k, p)'
  <2> DEFINE read == request[l].read \cup {role}
             members == request[l].members \cup MembersOf(role, request[l].shifts)
  <2>1. request[l].pc = "linkMembers"
    BY <1>9 DEF LinkReadMembers
  <2>2. \/ read = Roles /\ members = {} /\ End(l, "done")
        \/ Goto(l, "linkUndoing")
        \/ /\ request'[l].pc = IF read = Roles THEN "linkEnrolling" ELSE "linkMembers"
           /\ request'[l].read = read /\ request'[l].members = members
           /\ request'[l].shifts = request[l].shifts
    BY <1>0, <1>9, <2>1 DEF LinkReadMembers, RequestStates
  <2>3. CASE \/ Grant(k, p) \in enrolled
             \/ request[r].pc \in {"joinReading", "joinUndoing", "failed"}
             \/ request[r].pc = "joinEnrolling" /\ p.course \in request[r].courses
    BY <1>3, <1>4, <2>3 DEF Pending
  <2>4. ASSUME Member(k) \in members
        PROVE  Pending(r, l, k, p)'
    <3>1. \/ Goto(l, "linkUndoing")
          \/ /\ request'[l].pc \in {"linkEnrolling", "linkMembers"}
             /\ Member(k) \in request'[l].members
      BY <2>2, <2>4
    <3> QED
      BY <1>7, <3>1 DEF Pending
  <2>5. CASE k.role \notin request[l].read /\ k.shift \in request[l].shifts
    <3>1. CASE role = k.role
      <4>1. k = [role |-> role, shift |-> k.shift, user |-> k.user]
        BY <3>1 DEF Seats
      <4>2. rows[[role |-> role, shift |-> k.shift, user |-> k.user]] # Nil
        BY <1>0, <4>1
      <4>3. Member(k) \in MembersOf(role, request[l].shifts)
        BY <2>5, <3>1, <4>2, GrantTyped DEF MembersOf, Member
      <4> QED
        BY <2>4, <4>3
    <3>2. CASE role # k.role
      <4>1. k.role \notin read /\ read # Roles
        BY <2>5, <3>2 DEF Seats
      <4> QED
        BY <1>7, <2>2, <2>5, <4>1 DEF Pending
    <3> QED
      BY <3>1, <3>2
  <2> QED
    BY <2>1, <2>3, <2>4, <2>5 DEF Pending
<1>10. CASE LinkEnrol(l)
  <2>1. request[l].pc = "linkEnrolling"
    BY <1>10 DEF LinkEnrol
  <2>2. CASE Goto(l, "linkUndoing")
    BY <1>7, <2>2 DEF Pending
  <2>3. CASE enrolled' = enrolled \cup
               {g \in Grants : /\ g.course = p.course
                               /\ [user |-> g.user, role |-> g.role]
                                    \in request[l].members}
    <3>1. CASE Member(k) \in request[l].members
      <4>1. Grant(k, p) \in enrolled'
        BY <2>3, <3>1, GrantTyped DEF Grant, Member
      <4> QED
        BY <4>1 DEF Pending
    <3>2. CASE Member(k) \notin request[l].members
      BY <1>3, <1>4, <2>1, <3>2 DEF Pending
    <3> QED
      BY <3>1, <3>2
  <2> QED
    BY <1>1, <1>10, <2>2, <2>3 DEF LinkEnrol, EnrolUsers
<1>11. CASE LinkUndo(l) \/ RequestFails(l)
  BY <1>6, <1>11 DEF LinkUndo, RequestFails, Pending, Ended
<1> QED
  BY <1>5, <1>8, <1>9, <1>10, <1>11

LEMMA LostGrows ==
  ASSUME NEW r \in Requests, RequestStep(r)
  PROVE  lost \subseteq lost'
BY DEF RequestStep, JoinFind, JoinSave, JoinReadCourses, JoinEnrol, JoinUndo,
   LeaveFind, LeaveRemove, LeaveReadShifts, LeaveCheckOthers, LeaveReadCourses,
   LeaveUnenrol, LinkFind, LinkSave, LinkReadShifts, LinkReadMembers, LinkEnrol,
   LinkUndo, Unassign, RequestFails

LEMMA NeverMissedStep ==
  ASSUME SyncInv, NEW q \in Requests, RequestStep(q)
  PROVE  NeverMissed'
<1> SUFFICES ASSUME NEW k \in Seats, NEW p \in Places,
                    rows'[k] # Nil, links'[p] # Nil, Below(p, k),
                    <<rows'[k], p.course>> \notin lost'
             PROVE  Pending(rows[k], links[p], k, p)'
  BY DEF NeverMissed, Below
<1>0. /\ TypeOK /\ RequestsShaped /\ request[q] \in RequestStates
      /\ rows \in [Seats -> Requests \cup {Nil}]
      /\ links \in [Places -> Requests \cup {Nil}]
      /\ request \in [Requests -> RequestStates]
  BY DEF SyncInv, TypeOK
<1>1. \A pc : Goto(q, pc) => request'[q].pc = pc
  BY <1>0 DEF Goto, RequestStates
<1>2. CASE rows'[k] # rows[k]
  <2>1. Goto(q, "joinReading") /\ rows'[k] = q
    BY <1>0, <1>2, RowsAfter DEF RemoveRow
  <2> QED
    BY <1>1, <2>1 DEF Pending
<1>3. CASE links'[p] # links[p]
  <2>1. Goto(q, "linkShifts") /\ links'[p] = q
    BY <1>0, <1>3, LinksAfter DEF RemoveLink
  <2> QED
    BY <1>1, <2>1 DEF Pending
<1>4. CASE rows'[k] = rows[k] /\ links'[p] = links[p]
  <2>1. PICK r \in Requests, l \in Requests :
          rows[k] = r /\ links[p] = l /\ rows'[k] = r /\ links'[p] = l
    BY <1>0, <1>4
  <2>2. <<r, p.course>> \notin lost' /\ <<r, p.course>> \notin lost
    BY <2>1, LostGrows
  <2>3. Pending(r, l, k, p)
    BY <1>0, <2>1, <2>2 DEF SyncInv, NeverMissed
  <2>4. Pending(r, l, k, p)'
    <3>1. CASE q = r
      BY <2>1, <2>2, <2>3, <3>1, JoinSees
    <3>2. CASE q = l
      BY <2>1, <2>2, <2>3, <3>2, LinkSees
    <3>3. CASE q # r /\ q # l
      <4>1. request'[r] = request[r] /\ request'[l] = request[l]
        BY <1>0, <3>3, OthersKept
      <4>2. Grant(k, p) \in enrolled => Grant(k, p) \in enrolled'
        BY <1>0, <2>1, <2>2, GrantsKept
      <4> QED
        BY <2>3, <4>1, <4>2 DEF Pending
    <3> QED
      BY <3>1, <3>2, <3>3
  <2> QED
    BY <2>1, <2>4 DEF Pending
<1> QED
  BY <1>2, <1>3, <1>4

-----------------------------------------------------------------------------
(* The invariant holds at first and is kept.                               *)

LEMMA SyncInit == Init => SyncInv
<1> SUFFICES ASSUME Init PROVE SyncInv
  OBVIOUS
<1> DEFINE Owns(r) == (\E seat \in Seats : r = rows[seat])
                        \/ \E place \in Places : r = links[place]
<1>1. /\ rows \in [Seats -> Requests \cup {Nil}]
      /\ links \in [Places -> Requests \cup {Nil}]
      /\ lost = {}
      /\ shifts \in [Shifts -> {"future", "open"}]
  BY DEF Init
<1>2. ASSUME NEW r \in Requests
      PROVE  /\ request[r] \in RequestStates
             /\ request[r].pc \in {"idle", "done"}
             /\ Owns(r) => request[r].pc = "done"
  <2>1. request[r] = IF Owns(r) THEN [Idle EXCEPT !.pc = "done"] ELSE Idle
    BY DEF Init
  <2> HIDE DEF Owns
  <2> QED
    BY <2>1 DEF Idle, RequestStates, Ended
<1>3. TypeOK
  <2>1. request \in [Requests -> RequestStates]
    <3>1. request = [r \in Requests |-> request[r]]
      BY DEF Init
    <3> QED
      BY <1>2, <3>1
  <2>2. enrolled \subseteq Grants
    BY DEF Init
  <2> QED
    BY <1>1, <2>1, <2>2 DEF TypeOK
<1>4. RequestsShaped
  BY <1>2 DEF RequestsShaped, Shaped, JoinStages, LeaveStages, LinkStages
<1>5. RowsOwned
  <2> SUFFICES ASSUME NEW k \in Seats, rows[k] # Nil
               PROVE  shifts[k.shift] = "open" /\ request[rows[k]].pc = "done"
    BY DEF RowsOwned, JoinOwner, JoinStages
  <2>1. shifts[k.shift] = "open"
    BY DEF Init
  <2>2. rows[k] \in Requests /\ Owns(rows[k])
    BY <1>1
  <2> QED
    BY <1>2, <2>1, <2>2
<1>6. LinksOwned
  <2> SUFFICES ASSUME NEW p \in Places, links[p] # Nil
               PROVE  request[links[p]].pc = "done"
    BY DEF LinksOwned, LinkOwner, LinkStages
  <2>1. links[p] \in Requests /\ Owns(links[p])
    BY <1>1
  <2> QED
    BY <1>2, <2>1
<1>7. NeverMissed
  <2> SUFFICES ASSUME NEW k \in Seats, NEW p \in Places,
                      rows[k] # Nil, links[p] # Nil, Below(p, k)
               PROVE  Grant(k, p) \in enrolled
    BY DEF NeverMissed, Pending
  <2> QED
    BY GrantTyped DEF Init, CalledFor, Grant
<1> QED
  BY <1>3, <1>4, <1>5, <1>6, <1>7 DEF SyncInv

LEMMA SyncInductive == SyncInv /\ [Next]_vars => SyncInv'
<1> SUFFICES ASSUME SyncInv, [Next]_vars PROVE SyncInv'
  OBVIOUS
<1> USE DEF SyncInv
<1>1. CASE UNCHANGED vars
  BY <1>1 DEF vars, TypeOK, RequestsShaped, RowsOwned, LinksOwned, NeverMissed,
     Pending, Below
<1>2. ASSUME NEW s \in Shifts, CreateShift(s) PROVE SyncInv'
  <2>1. TypeOK'
    BY <1>2 DEF CreateShift, TypeOK
  <2>2. RowsOwned'
    BY <1>2 DEF CreateShift, TypeOK, RowsOwned, Seats
  <2>3. RequestsShaped' /\ LinksOwned' /\ NeverMissed'
    BY <1>2 DEF CreateShift, RequestsShaped, LinksOwned, NeverMissed, Pending, Below
  <2> QED
    BY <2>1, <2>2, <2>3
<1>3. ASSUME NEW s \in Shifts, DeleteShift(s) PROVE SyncInv'
  <2>1. TypeOK'
    BY <1>3 DEF DeleteShift, TypeOK
  <2>2. ASSUME NEW k \in Seats, rows'[k] # Nil
        PROVE  rows'[k] = rows[k] /\ k.shift # s
    BY <1>3, <2>2 DEF DeleteShift
  <2>3. RowsOwned'
    BY <1>3, <2>2 DEF DeleteShift, TypeOK, RowsOwned, Seats
  <2>4. NeverMissed'
    BY <1>3, <2>2 DEF DeleteShift, NeverMissed, Pending, Below
  <2>5. RequestsShaped' /\ LinksOwned'
    BY <1>3 DEF DeleteShift, RequestsShaped, LinksOwned
  <2> QED
    BY <2>1, <2>3, <2>4, <2>5
<1>4. ASSUME NEW r \in Requests, RequestStep(r) PROVE SyncInv'
  <2>1. TypeOK' /\ RequestsShaped'
    BY <1>4, RequestsTyped, TablesTyped DEF TypeOK
  <2> QED
    BY <1>4, <2>1, RowsOwnedStep, LinksOwnedStep, NeverMissedStep
<1> QED
  BY <1>1, <1>2, <1>3, <1>4 DEF Next

LEMMA SyncAlways == Spec => []SyncInv
BY SyncInit, SyncInductive, PTL DEF Spec

\* Type correctness: every reachable state of the tables, of Moodle's
\* enrolments and of the requests has the declared shape.
THEOREM SyncTyped == Spec => []TypeOK
<1>1. SyncInv => TypeOK
  BY DEF SyncInv
<1> QED
  BY <1>1, SyncAlways, PTL

\* A join and a link that both answered left the member enrolled in the
\* course, for every folder tree and any number of concurrent requests.
THEOREM JoinsMeetLinks == Spec => []MembersHaveCourses
<1>1. SyncInv => MembersHaveCourses
  <2> SUFFICES ASSUME SyncInv, NEW k \in Seats, NEW p \in Places,
                      Settled(rows[k]), Settled(links[p]), Below(p, k),
                      <<rows[k], p.course>> \notin lost
               PROVE  Grant(k, p) \in enrolled
    BY DEF MembersHaveCourses, Grant
  <2>1. Pending(rows[k], links[p], k, p)
    BY DEF SyncInv, NeverMissed, Settled
  <2> QED
    BY <2>1 DEF Pending, Settled
<1> QED
  BY <1>1, SyncAlways, PTL

LEMMA UndoTakesOwn ==
  ASSUME SyncInv, [Next]_vars, NEW r \in Requests, request'[r].pc = "failed"
  PROVE  /\ request[r].pc = "joinUndoing" =>
              \A seat \in Seats : rows'[seat] = rows[seat] \/ rows[seat] = r
         /\ request[r].pc = "linkUndoing" =>
              \A place \in Places : links'[place] = links[place] \/ links[place] = r
<1> SUFFICES ASSUME request[r].pc \in {"joinUndoing", "linkUndoing"}
             PROVE  /\ \A seat \in Seats :
                         request[r].pc = "joinUndoing" => rows'[seat] = rows[seat] \/ rows[seat] = r
                    /\ \A place \in Places :
                         request[r].pc = "linkUndoing" => links'[place] = links[place] \/ links[place] = r
  OBVIOUS
<1>0. rows \in [Seats -> Requests \cup {Nil}] /\ links \in [Places -> Requests \cup {Nil}]
  BY DEF SyncInv, TypeOK
<1>1. PICK q \in Requests : RequestStep(q)
  BY DEF Next, vars, CreateShift, DeleteShift
<1>2. q = r
  BY <1>1, OthersKept DEF SyncInv
<1>3. JoinUndo(r) \/ LinkUndo(r) \/ RequestFails(r)
  BY <1>1, <1>2 DEF RequestStep, JoinFind, JoinSave, JoinReadCourses, JoinEnrol,
     LeaveFind, LeaveRemove, LeaveReadShifts, LeaveCheckOthers, LeaveReadCourses,
     LeaveUnenrol, LinkFind, LinkSave, LinkReadShifts, LinkReadMembers, LinkEnrol,
     Unassign
<1>4. ASSUME NEW seat \in Seats, request[r].pc = "joinUndoing"
      PROVE  rows'[seat] = rows[seat] \/ rows[seat] = r
  BY <1>0, <1>3, <1>4 DEF JoinUndo, LinkUndo, RequestFails, RemoveRow
<1>5. ASSUME NEW place \in Places, request[r].pc = "linkUndoing"
      PROVE  links'[place] = links[place] \/ links[place] = r
  BY <1>0, <1>3, <1>5 DEF JoinUndo, LinkUndo, RequestFails, RemoveLink
<1> QED
  BY <1>4, <1>5

\* Undoing what Moodle refused deletes no row and no link but the request's
\* own, whoever has joined the same seat or linked the same course meanwhile.
THEOREM UndoIsOwn == Spec => UndoSparesOthers
<1> DEFINE Spared == \A r \in Requests :
       request'[r].pc = "failed" =>
         /\ request[r].pc = "joinUndoing" =>
              \A seat \in Seats : rows'[seat] = rows[seat] \/ rows[seat] = r
         /\ request[r].pc = "linkUndoing" =>
              \A place \in Places : links'[place] = links[place] \/ links[place] = r
<1>1. SyncInv /\ [Next]_vars => [Spared]_vars
  BY UndoTakesOwn
<1> QED
  BY <1>1, SyncAlways, PTL DEF Spec, UndoSparesOthers
-----------------------------------------------------------------------------
(* Removals: when only orphans are unenrolled.                             *)

LeaveLate == {"leaveOthers", "leaveReading", "leaveUnenrolling"}

\* Seat k is another membership of the user that request r takes off a shift,
\* in the tree that the request looks through.
Near(r, k) ==
  /\ k.user = request[r].seat.user
  /\ FolderOf[k.shift] \in FolderTree(FolderOf[request[r].seat.shift])

\* No join of the same user is about to save its row while a leave of his is
\* past its removal.
NoJoinMeanwhile ==
  \A r, q \in Requests :
    (request[r].pc \in LeaveLate \cup {"leaveShifts"} /\ request[q].pc = "joining")
      => request[q].seat.user # request[r].seat.user

\* Whoever is being unenrolled has no seat in the other role in the tree.
OneRole ==
  \A r \in Requests, k \in Seats :
    (request[r].pc = "leaveUnenrolling" /\ Near(r, k) /\ rows[k] # Nil)
      => k.role = request[r].seat.role

\* What a leave has made sure of, as long as NoJoinMeanwhile: first that the
\* shifts found hold every seat that matters, then that there is none.
LeavesKnow ==
  \A r \in Requests, k \in Seats :
    (/\ request[r].pc \in LeaveLate /\ Near(r, k)
     /\ k.role = request[r].seat.role /\ rows[k] # Nil)
    => request[r].pc = "leaveOthers" /\ k.shift \in request[r].shifts

\* UnenrolsOnlyOrphans, whatever else is under way.
OnlyOrphansUnenrolled ==
  [][\A r \in Requests :
       (request[r].pc = "leaveUnenrolling" /\ enrolled' # enrolled)
         => \A k \in Seats :
              (Near(r, k) /\ k.shift # request[r].seat.shift) => rows[k] = Nil]_vars

\* Only a leave brings a request to its later stages.
LEMMA LeaveStepsOnly ==
  ASSUME TypeOK, RequestsShaped, NEW r \in Requests, RequestStep(r),
         request'[r].pc \in LeaveLate
  PROVE  /\ LeaveReadShifts(r) \/ LeaveCheckOthers(r) \/ LeaveReadCourses(r)
         /\ UNCHANGED rows /\ request'[r].seat = request[r].seat
<1>0. request[r] \in RequestStates /\ request \in [Requests -> RequestStates]
  BY DEF TypeOK
<1>1. ASSUME NEW pc, pc \notin LeaveLate, Goto(r, pc) \/ End(r, pc) PROVE FALSE
  BY <1>0, <1>1 DEF Goto, End, Become, Idle, RequestStates
<1>2. ASSUME NEW seat \in Seats, JoinFind(r, seat) \/ LeaveFind(r, seat) PROVE FALSE
  <2>1. request'[r].pc \in {"refused", "done", "joining", "leaving"}
    BY <1>0, <1>2 DEF JoinFind, LeaveFind, Become, End, Idle
  <2> QED
    BY <2>1 DEF LeaveLate
<1>3. ASSUME NEW place \in Places, LinkFind(r, place) \/ Unassign(r, place) PROVE FALSE
  <2>1. request'[r].pc \in {"done", "linking"}
    BY <1>0, <1>3 DEF LinkFind, Unassign, Become, End, Idle
  <2> QED
    BY <2>1 DEF LeaveLate
<1>4. ~(JoinSave(r) \/ JoinEnrol(r) \/ JoinUndo(r) \/ RequestFails(r))
  BY <1>1 DEF JoinSave, JoinEnrol, JoinUndo, RequestFails, EnrolUsers, LeaveLate
<1>5. ~(LinkSave(r) \/ LinkEnrol(r) \/ LinkUndo(r) \/ LeaveRemove(r) \/ LeaveUnenrol(r))
  BY <1>1 DEF LinkSave, LinkEnrol, LinkUndo, LeaveRemove, LeaveUnenrol, EnrolUsers,
     LeaveLate
<1>6. ~(JoinReadCourses(r) \/ LinkReadShifts(r))
  <2>1. ASSUME JoinReadCourses(r) \/ LinkReadShifts(r)
        PROVE  \/ End(r, "done") \/ Goto(r, "joinUndoing") \/ Goto(r, "linkUndoing")
               \/ request'[r].pc \in {"joinEnrolling", "linkMembers"}
    BY <1>0, <2>1 DEF JoinReadCourses, LinkReadShifts, RequestStates
  <2> QED
    BY <1>1, <2>1 DEF LeaveLate
<1>7. ASSUME NEW role \in Roles, LinkReadMembers(r, role) PROVE FALSE
  <2>1. \/ End(r, "done") \/ Goto(r, "linkUndoing")
        \/ request'[r].pc \in {"linkMembers", "linkEnrolling"}
    BY <1>0, <1>7 DEF LinkReadMembers, RequestStates
  <2> QED
    BY <1>1, <2>1 DEF LeaveLate
<1>8. LeaveReadShifts(r) \/ LeaveCheckOthers(r) \/ LeaveReadCourses(r)
  BY <1>2, <1>3, <1>4, <1>5, <1>6, <1>7 DEF RequestStep
<1>9. request'[r].seat = request[r].seat
  <2>1. CASE LeaveReadShifts(r)
    BY <1>0, <2>1 DEF LeaveReadShifts, RequestStates
  <2>2. CASE LeaveCheckOthers(r)
    <3>1. \E pc : Goto(r, pc)
      BY <1>1, <2>2 DEF LeaveCheckOthers, LeaveLate
    <3> QED
      BY <1>0, <3>1 DEF Goto, RequestStates
  <2>3. CASE LeaveReadCourses(r)
    <3>1. ~End(r, "done")
      BY <1>1 DEF LeaveLate
    <3> QED
      BY <1>0, <2>3, <3>1 DEF LeaveReadCourses, RequestStates
  <2> QED
    BY <1>8, <2>1, <2>2, <2>3
<1> QED
  BY <1>8, <1>9 DEF LeaveReadShifts, LeaveCheckOthers, LeaveReadCourses

\* The steps of a leave: the shifts it finds hold every seat of the tree, and
\* the seats it then looks for are all of them.
LEMMA LeaveLooks ==
  ASSUME SyncInv, LeavesKnow, NEW r \in Requests, RequestStep(r), NEW k \in Seats,
         request'[r].pc \in LeaveLate, Near(r, k),
         k.role = request[r].seat.role, rows[k] # Nil
  PROVE  request'[r].pc = "leaveOthers" /\ k.shift \in request'[r].shifts
<1>0. /\ TypeOK /\ RequestsShaped /\ request[r] \in RequestStates
      /\ request \in [Requests -> RequestStates]
  BY DEF SyncInv, TypeOK
<1>1. LeaveReadShifts(r) \/ LeaveCheckOthers(r) \/ LeaveReadCourses(r)
  BY <1>0, LeaveStepsOnly
<1>2. k.shift \in Shifts /\ k.user \in Users /\ k.role \in Roles
      /\ k = [role |-> k.role, shift |-> k.shift, user |-> k.user]
  BY DEF Seats
<1>3. CASE LeaveReadShifts(r)
  <2> DEFINE found == {s \in OpenShifts :
                         FolderOf[s] \in FolderTree(FolderOf[request[r].seat.shift])}
  <2>1. k.shift \in found
    BY <1>2 DEF SyncInv, RowsOwned, OpenShifts, Near
  <2>2. request' = [request EXCEPT
          ![r].shifts = found,
          ![r].pc = IF found = {} THEN "leaveReading" ELSE "leaveOthers"]
    BY <1>3 DEF LeaveReadShifts
  <2> HIDE DEF found
  <2> QED
    BY <1>0, <2>1, <2>2 DEF RequestStates
<1>4. CASE LeaveCheckOthers(r)
  <2>1. k.shift \in request[r].shifts
    BY <1>4 DEF LeavesKnow, LeaveCheckOthers, LeaveLate
  <2>2. Member(k) \in MembersOf(request[r].seat.role, request[r].shifts)
    BY <1>2, <2>1 DEF MembersOf, Member, Members
  <2>3. Member(k) = [user |-> request[r].seat.user, role |-> request[r].seat.role]
    BY DEF Member, Near
  <2>4. End(r, "done")
    BY <1>4, <2>2, <2>3 DEF LeaveCheckOthers
  <2> QED
    BY <1>0, <2>4 DEF End, Become, Idle, LeaveLate
<1>5. CASE LeaveReadCourses(r)
  BY <1>5 DEF LeavesKnow, LeaveReadCourses, LeaveLate
<1> QED
  BY <1>1, <1>3, <1>4, <1>5

\* While a leave is on its way, no seat of its user gets a row.
LEMMA SeatsNotTaken ==
  ASSUME SyncInv, NoJoinMeanwhile, [Next]_vars, NEW r \in Requests, NEW k \in Seats,
         request[r].pc \in LeaveLate \cup {"leaveShifts"},
         k.user = request[r].seat.user, rows'[k] # Nil
  PROVE  rows[k] # Nil
<1>0. rows \in [Seats -> Requests \cup {Nil}]
  BY DEF SyncInv, TypeOK
<1>1. ASSUME NEW q \in Requests, RequestStep(q) PROVE rows[k] # Nil
  <2>1. CASE UNCHANGED rows
    BY <2>1
  <2>2. CASE JoinSave(q) /\ rows' = [rows EXCEPT ![request[q].seat] = q]
    <3>1. request[q].seat # k
      BY <2>2 DEF NoJoinMeanwhile, JoinSave
    <3> QED
      BY <1>0, <2>2, <3>1
  <2>3. CASE RemoveRow(request[q].seat, q) \/ RemoveRow(request[q].seat, request[q].row)
    BY <1>0, <2>3 DEF RemoveRow
  <2> QED
    BY <1>1, <2>1, <2>2, <2>3, RowsAfter
<1>2. ASSUME NEW s \in Shifts, CreateShift(s) \/ DeleteShift(s) PROVE rows[k] # Nil
  BY <1>2 DEF CreateShift, DeleteShift
<1> QED
  BY <1>1, <1>2 DEF Next, vars

LEMMA LeavesKnowStep ==
  ASSUME SyncInv, NoJoinMeanwhile, LeavesKnow, [Next]_vars
  PROVE  LeavesKnow'
<1> SUFFICES ASSUME NEW r \in Requests, NEW k \in Seats,
                    request'[r].pc \in LeaveLate, Near(r, k)',
                    k.role = request'[r].seat.role, rows'[k] # Nil
             PROVE  request'[r].pc = "leaveOthers" /\ k.shift \in request'[r].shifts
  BY DEF LeavesKnow
<1>0. TypeOK /\ RequestsShaped
  BY DEF SyncInv
<1>1. CASE request'[r] = request[r]
  <2>1. rows[k] # Nil
    BY <1>1, SeatsNotTaken DEF Near
  <2>2. Near(r, k)
    BY <1>1 DEF Near
  <2> QED
    BY <1>1, <2>1, <2>2 DEF LeavesKnow
<1>2. CASE RequestStep(r)
  <2>1. UNCHANGED rows /\ request'[r].seat = request[r].seat
    BY <1>0, <1>2, LeaveStepsOnly
  <2>2. Near(r, k)
    BY <2>1 DEF Near
  <2> QED
    BY <1>2, <2>1, <2>2, LeaveLooks
<1>3. ASSUME NEW q \in Requests, RequestStep(q), q # r
      PROVE  request'[r] = request[r]
  BY <1>0, <1>3, OthersKept
<1> QED
  BY <1>1, <1>2, <1>3 DEF Next, CreateShift, DeleteShift, vars

LEMMA OrphansOnly ==
  ASSUME SyncInv, LeavesKnow, OneRole, NEW r \in Requests,
         request[r].pc = "leaveUnenrolling", NEW k \in Seats, Near(r, k)
  PROVE  rows[k] = Nil
BY DEF LeavesKnow, OneRole, LeaveLate

\* Who is taken off a shift is unenrolled only if he belongs to no other shift
\* of the same tree, whatever else is under way, as long as he does not join
\* one meanwhile and holds no seat there in the other role.
THEOREM OrphansLeave ==
  Spec /\ []NoJoinMeanwhile /\ []OneRole => OnlyOrphansUnenrolled
<1> DEFINE Orphans == \A r \in Requests :
       (request[r].pc = "leaveUnenrolling" /\ enrolled' # enrolled)
         => \A k \in Seats :
              (Near(r, k) /\ k.shift # request[r].seat.shift) => rows[k] = Nil
<1>1. Init => LeavesKnow
  BY DEF Init, LeavesKnow, LeaveLate, Idle
<1>2. SyncInv /\ NoJoinMeanwhile /\ LeavesKnow /\ [Next]_vars => LeavesKnow'
  BY LeavesKnowStep
<1>3. SyncInv /\ LeavesKnow /\ OneRole => [Orphans]_vars
  BY OrphansOnly
<1> QED
  BY <1>1, <1>2, <1>3, SyncAlways, PTL DEF Spec, OnlyOrphansUnenrolled

\* In particular for a removal that runs alone, as BREAKING_CHANGES.md has it:
\* the role is the only thing that the check of a removal overlooks.
THEOREM OrphansLeaveAlone ==
  Spec /\ []NoJoinMeanwhile /\ []OneRole => UnenrolsOnlyOrphans
<1> DEFINE Orphans == \A r \in Requests :
       (request[r].pc = "leaveUnenrolling" /\ enrolled' # enrolled)
         => \A k \in Seats :
              (Near(r, k) /\ k.shift # request[r].seat.shift) => rows[k] = Nil
           Alone == \A r \in Requests :
       (/\ request[r].pc = "leaveUnenrolling" /\ enrolled' # enrolled
        /\ \A q \in Requests \ {r} : request[q].pc \in {"idle", "done"})
       => \A seat \in Seats :
            (/\ seat.user = request[r].seat.user
             /\ seat.shift # request[r].seat.shift
             /\ FolderOf[seat.shift] \in FolderTree(FolderOf[request[r].seat.shift]))
            => rows[seat] = Nil
<1>1. [Orphans]_vars => [Alone]_vars
  BY DEF Near
<1> QED
  BY <1>1, OrphansLeave, PTL DEF OnlyOrphansUnenrolled, UnenrolsOnlyOrphans
=============================================================================
