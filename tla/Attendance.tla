----------------------------- MODULE Attendance -----------------------------
(***************************************************************************)
(* Attendance of one shift: teachers create, open, mark and close the      *)
(* sessions of its class days while the roster changes                     *)
(* (attendance/attendance.service.ts).                                     *)
(*                                                                         *)
(* No handler runs in a transaction: each works on the session it loaded   *)
(* before its other awaits and saves that entity back whole.  The unique   *)
(* indexes over (shiftId, sessionDate) and (sessionId, moodleUserId) are   *)
(* the only protection.                                                    *)
(***************************************************************************)
EXTENDS FiniteSets

CONSTANTS
  Days,      \* class days; the shift has at most one session on each
  Students,
  Requests,  \* ids of requests of the shift's teachers
  Nil        \* no row

ASSUME NilAssumption ==
  Nil \notin {"present", "absent"}
               \cup [status: {"open", "closed"}, closedAt: BOOLEAN]

VARIABLES
  sessions,  \* table attendance_sessions: the row of a day, or Nil
  records,   \* table attendance_checkins: the status of a student on a day
  roster,    \* table shift_enrollments: the students of the shift
  request    \* the state of each request

vars == <<sessions, records, roster, request>>

SessionRows == [status: {"open", "closed"}, closedAt: BOOLEAN]

Statuses == {"present", "absent"}

Running == {"checking", "finding", "updating", "inserting",
            "rostering", "comparing", "recording", "closing",
            "creating", "refinding", "retitling", "reloading", "opening"}

Ended == {"marked", "closed", "created", "opened", "refused", "failed"}

RequestStates == [pc: {"idle"} \cup Running \cup Ended,
                  day: Days \cup {Nil}, student: Students \cup {Nil},
                  status: Statuses \cup {Nil}, entity: SessionRows \cup {Nil},
                  roster: SUBSET Students, missing: SUBSET Students,
                  open: BOOLEAN]

TypeOK ==
  /\ sessions \in [Days -> SessionRows \cup {Nil}]
  /\ records \in [Days -> [Students -> Statuses \cup {Nil}]]
  /\ roster \subseteq Students
  /\ request \in [Requests -> RequestStates]

Idle == [pc |-> "idle", day |-> Nil, student |-> Nil, status |-> Nil,
         entity |-> Nil, roster |-> {}, missing |-> {}, open |-> FALSE]

Init ==
  /\ sessions = [d \in Days |-> Nil]
  /\ records = [d \in Days |-> [u \in Students |-> Nil]]
  /\ roster \in SUBSET Students
  /\ request = [r \in Requests |-> Idle]

-----------------------------------------------------------------------------
Become(r, state) == request' = [request EXCEPT ![r] = state]

Goto(r, pc) == request' = [request EXCEPT ![r].pc = pc]

End(r, outcome) == Become(r, [Idle EXCEPT !.pc = outcome])

Recorded(d) == {u \in Students : records[d][u] # Nil}

\* save() of a loaded session writes the whole entity over the row.
SaveSession(d, row) == sessions' = [sessions EXCEPT ![d] = row]

-----------------------------------------------------------------------------
(* markAttendance.  The session is loaded once, and its status checked on  *)
(* that copy; the roster and the record are read later.                    *)

MarkLoad(r, d, u, status) ==
  /\ request[r].pc = "idle" /\ sessions[d] # Nil
  /\ IF sessions[d].status = "open"
     THEN Become(r, [Idle EXCEPT !.pc = "checking", !.day = d, !.student = u,
                                 !.status = status])
     ELSE End(r, "refused")
  /\ UNCHANGED <<sessions, records, roster>>

MarkCheckEnrolled(r) ==
  /\ request[r].pc = "checking"
  /\ IF request[r].student \in roster THEN Goto(r, "finding")
                                      ELSE End(r, "refused")
  /\ UNCHANGED <<sessions, records, roster>>

MarkFind(r) ==
  /\ request[r].pc = "finding"
  /\ Goto(r, IF request[r].student \in Recorded(request[r].day)
             THEN "updating" ELSE "inserting")
  /\ UNCHANGED <<sessions, records, roster>>

SetRecord(r) ==
  records' = [records EXCEPT
                ![request[r].day][request[r].student] = request[r].status]

MarkUpdate(r) ==
  /\ request[r].pc = "updating"
  /\ SetRecord(r)
  /\ Goto(r, "marked")
  /\ UNCHANGED <<sessions, roster>>

\* The unique index refuses a second record of the student.
MarkInsert(r) ==
  /\ request[r].pc = "inserting"
  /\ \/ /\ request[r].student \notin Recorded(request[r].day)
        /\ SetRecord(r)
        /\ Goto(r, "marked")
     \/ /\ request[r].student \in Recorded(request[r].day)
        /\ End(r, "failed")
        /\ UNCHANGED records
  /\ UNCHANGED <<sessions, roster>>

-----------------------------------------------------------------------------
(* closeSession and finalizeAbsences.                                      *)

CloseLoad(r, d) ==
  /\ request[r].pc = "idle" /\ sessions[d] # Nil
  /\ Become(r, [Idle EXCEPT !.pc = "rostering", !.day = d])
  /\ UNCHANGED <<sessions, records, roster>>

\* With nobody enrolled finalizeAbsences returns at once.
CloseReadRoster(r) ==
  /\ request[r].pc = "rostering"
  /\ request' = [request EXCEPT
       ![r].roster = roster,
       ![r].pc = IF roster = {} THEN "closing" ELSE "comparing"]
  /\ UNCHANGED <<sessions, records, roster>>

\* Who on the roster has no record yet.
MissingMarkedOnly(on, d) == on \cap Recorded(d)
MissingOf(on, d) == on \ Recorded(d)

CloseReadRecords(r) ==
  /\ request[r].pc = "comparing"
  /\ LET missing == MissingOf(request[r].roster, request[r].day) IN
       request' = [request EXCEPT
         ![r].missing = missing,
         ![r].pc = IF missing = {} THEN "closing" ELSE "recording"]
  /\ UNCHANGED <<sessions, records, roster>>

\* One transaction inserts all the absences, or none when a mark came first.
ClashesNever(missing, d) == FALSE
Clashes(missing, d) == missing \cap Recorded(d) # {}

CloseInsertAbsences(r) ==
  LET d == request[r].day
      missing == request[r].missing
  IN /\ request[r].pc = "recording"
     /\ \/ /\ ~Clashes(missing, d)
           /\ records' = [records EXCEPT ![d] =
                [u \in Students |-> IF u \in missing THEN "absent" ELSE @[u]]]
           /\ Goto(r, "closing")
        \/ /\ Clashes(missing, d)
           /\ End(r, "failed")
           /\ UNCHANGED records
     /\ UNCHANGED <<sessions, roster>>

ClosedRowUndated == [status |-> "closed"]
ClosedRow == [status |-> "closed", closedAt |-> TRUE]

CloseSave(r) ==
  /\ request[r].pc = "closing"
  /\ SaveSession(request[r].day, ClosedRow)
  /\ Goto(r, "closed")
  /\ UNCHANGED <<records, roster>>

-----------------------------------------------------------------------------
(* createOrGetSession and openSession.                                     *)

\* What follows once the session is in hand: open it when the request asks.
Proceed(r, open) ==
  IF open THEN Goto(r, "reloading") ELSE End(r, "created")

CreateFind(r, d, retitle, open) ==
  /\ request[r].pc = "idle"
  /\ IF sessions[d] # Nil /\ ~retitle /\ ~open THEN End(r, "created")
     ELSE Become(r, [Idle EXCEPT !.day = d, !.open = open,
                       !.entity = IF retitle THEN sessions[d] ELSE Nil,
                       !.pc = IF sessions[d] = Nil THEN "creating"
                              ELSE IF retitle THEN "retitling"
                              ELSE "reloading"])
  /\ UNCHANGED <<sessions, records, roster>>

\* Sessions are born closed; the unique index refuses a second one of the
\* day, and the handler then takes the one that is there.
CreateInsert(r) ==
  LET d == request[r].day IN
  /\ request[r].pc = "creating"
  /\ \/ /\ sessions[d] = Nil
        /\ SaveSession(d, [status |-> "closed", closedAt |-> FALSE])
        /\ Proceed(r, request[r].open)
     \/ /\ sessions[d] # Nil
        /\ Goto(r, "refinding")
        /\ UNCHANGED sessions
  /\ UNCHANGED <<records, roster>>

CreateRefind(r) ==
  /\ request[r].pc = "refinding"
  /\ sessions[request[r].day] # Nil
  /\ Proceed(r, request[r].open)
  /\ UNCHANGED <<sessions, records, roster>>

\* Only the title changed in memory, but the status loaded with it is saved.
RetitleSave(r) ==
  /\ request[r].pc = "retitling"
  /\ SaveSession(request[r].day, request[r].entity)
  /\ Proceed(r, request[r].open)
  /\ UNCHANGED <<records, roster>>

OpenLoad(r, d) ==
  /\ \/ request[r].pc = "idle" /\ sessions[d] # Nil
     \/ request[r].pc = "reloading" /\ request[r].day = d
  /\ Become(r, [Idle EXCEPT !.pc = "opening", !.day = d])
  /\ UNCHANGED <<sessions, records, roster>>

OpenSave(r) ==
  /\ request[r].pc = "opening"
  /\ SaveSession(request[r].day, [status |-> "open", closedAt |-> FALSE])
  /\ End(r, "opened")
  /\ UNCHANGED <<records, roster>>

-----------------------------------------------------------------------------
\* assertTeacherShift refuses the caller, Moodle or the database fails, or
\* the process stops: the request ends where it stands.
RequestFails(r) ==
  /\ request[r].pc \in Running
  /\ End(r, "failed")
  /\ UNCHANGED <<sessions, records, roster>>

\* The administrators' roster changes (calendar/shift-roster.service.ts).
RosterChange(u) ==
  /\ roster' = IF u \in roster THEN roster \ {u} ELSE roster \cup {u}
  /\ UNCHANGED <<sessions, records, request>>

RequestStep(r) ==
  \/ \E d \in Days :
       \/ \E u \in Students, status \in Statuses : MarkLoad(r, d, u, status)
       \/ CloseLoad(r, d) \/ OpenLoad(r, d)
       \/ \E retitle, open \in BOOLEAN : CreateFind(r, d, retitle, open)
  \/ MarkCheckEnrolled(r) \/ MarkFind(r) \/ MarkUpdate(r) \/ MarkInsert(r)
  \/ CloseReadRoster(r) \/ CloseReadRecords(r) \/ CloseInsertAbsences(r)
  \/ CloseSave(r)
  \/ CreateInsert(r) \/ CreateRefind(r) \/ RetitleSave(r) \/ OpenSave(r)
  \/ RequestFails(r)

Next == (\E r \in Requests : RequestStep(r)) \/ (\E u \in Students : RosterChange(u))

Spec == Init /\ [][Next]_vars

-----------------------------------------------------------------------------
(* Properties.                                                             *)

\* A close that answered left nobody out: every student on the roster it read
\* has a record of the day, whatever marks, other closes and roster changes
\* happened between its steps, and keeps it.
CloseCoversRoster ==
  \A r \in Requests :
    request[r].pc = "closed" => request[r].roster \subseteq Recorded(request[r].day)

\* A record, once there, changes only by a teacher's explicit mark of that
\* student: a close that read the records before a mark came in never turns
\* a present into an absent, and no record is ever lost.
RecordsOnlyByMarks ==
  [][\A d \in Days, u \in Students :
       (records[d][u] # Nil /\ records'[d][u] # records[d][u])
         => \E r \in Requests :
              /\ request[r].pc = "updating" /\ request'[r].pc = "marked"
              /\ request[r].day = d /\ request[r].student = u
              /\ request[r].status = records'[d][u]]_vars

\* BREAKING_CHANGES.md: the roster is marked only while the session is open.
MarkOnlyWhileOpen ==
  [][\A r \in Requests :
       (request'[r].pc = "marked" /\ request[r].pc # "marked")
         => sessions[request[r].day].status = "open"]_vars
=============================================================================
