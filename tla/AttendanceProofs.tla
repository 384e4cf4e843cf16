-------------------------- MODULE AttendanceProofs --------------------------
(***************************************************************************)
(* Proofs about Attendance, for any number of days, students and requests. *)
(*                                                                         *)
(* The argument: records are only ever added or re-marked, so what a close *)
(* has covered stays covered; between its two reads and its batch insert   *)
(* the only change that matters is a mark arriving first, and then the     *)
(* unique index refuses the whole batch and the close does not answer.     *)
(***************************************************************************)
EXTENDS Attendance, TLAPS

\* What a request knows at each of its stages.
Shaped(q) ==
  /\ q.pc \in Running \cup {"marked", "closed"} => q.day \in Days
  /\ q.pc \in {"checking", "finding", "updating", "inserting", "marked"} =>
       q.student \in Students /\ q.status \in Statuses
  /\ q.pc = "retitling" => q.entity \in SessionRows

RequestsShaped == \A r \in Requests : Shaped(request[r])

\* A close on its way: the roster it read is recorded, or about to be.
ClosesSound ==
  \A r \in Requests, d \in Days : request[r].day = d =>
    /\ request[r].pc = "recording" =>
         request[r].roster \subseteq Recorded(d) \cup request[r].missing
    /\ request[r].pc \in {"closing", "closed"} =>
         request[r].roster \subseteq Recorded(d)

RecordingInv == TypeOK /\ RequestsShaped /\ ClosesSound

LEMMA RecordingInit == Init => RecordingInv
<1> SUFFICES ASSUME Init PROVE RecordingInv
  OBVIOUS
<1>1. Idle \in RequestStates /\ Shaped(Idle)
  BY DEF Idle, RequestStates, Shaped, Running
<1>2. TypeOK
  BY <1>1 DEF Init, TypeOK
<1>3. RequestsShaped
  BY <1>1 DEF Init, RequestsShaped
<1>4. ClosesSound
  BY DEF Init, Idle, ClosesSound
<1> QED
  BY <1>2, <1>3, <1>4 DEF RecordingInv

\* Ending a request, and moving it on without touching what it knows.
LEMMA EndShape ==
  ASSUME TypeOK, RequestsShaped, NEW r \in Requests,
         NEW pc \in Ended \ {"marked", "closed"}, End(r, pc)
  PROVE  request' \in [Requests -> RequestStates] /\ RequestsShaped'
BY DEF TypeOK, RequestStates, RequestsShaped, Shaped, Running, Ended, Idle,
       Become, End

LEMMA GotoShape ==
  ASSUME TypeOK, RequestsShaped, NEW r \in Requests,
         NEW pc \in Running \cup Ended, Goto(r, pc),
         Shaped([request[r] EXCEPT !.pc = pc])
  PROVE  request' \in [Requests -> RequestStates] /\ RequestsShaped'
<1>1. request[r] \in RequestStates
  BY DEF TypeOK
<1>2. request' = [request EXCEPT ![r] = [request[r] EXCEPT !.pc = pc]]
  BY DEF Goto, TypeOK
<1>3. [request[r] EXCEPT !.pc = pc] \in RequestStates
  BY <1>1 DEF RequestStates
<1> QED
  BY <1>2, <1>3 DEF TypeOK, RequestsShaped

LEMMA BecomeShape ==
  ASSUME TypeOK, RequestsShaped, NEW r \in Requests,
         NEW x \in RequestStates, Shaped(x), Become(r, x)
  PROVE  request' \in [Requests -> RequestStates] /\ RequestsShaped'
BY DEF TypeOK, RequestsShaped, Become

LEMMA ProceedShape ==
  ASSUME TypeOK, RequestsShaped, NEW r \in Requests, NEW open \in BOOLEAN,
         request[r].day \in Days, Proceed(r, open)
  PROVE  request' \in [Requests -> RequestStates] /\ RequestsShaped'
<1>1. CASE open
  <2>1. request[r] \in RequestStates
    BY DEF TypeOK
  <2>2. Shaped([request[r] EXCEPT !.pc = "reloading"])
    BY <2>1 DEF Shaped, RequestStates
  <2> QED
    BY <1>1, <2>2, GotoShape DEF Proceed, Running
<1>2. CASE ~open
  BY <1>2, EndShape DEF Proceed, Ended
<1> QED
  BY <1>1, <1>2

LEMMA TypeStep ==
  ASSUME TypeOK, RequestsShaped, NEW r \in Requests, RequestStep(r)
  PROVE  TypeOK' /\ RequestsShaped'
<1> DEFINE Goal == request' \in [Requests -> RequestStates] /\ RequestsShaped'
<1>0. /\ request[r] \in RequestStates /\ Shaped(request[r])
      /\ sessions \in [Days -> SessionRows \cup {Nil}]
      /\ records \in [Days -> [Students -> Statuses \cup {Nil}]]
      /\ roster \in SUBSET Students
  BY DEF TypeOK, RequestsShaped
<1>1. ASSUME NEW d \in Days, NEW u \in Students, NEW status \in Statuses,
             MarkLoad(r, d, u, status)
      PROVE  TypeOK' /\ RequestsShaped'
  <2>1. Goal
    BY <1>1, EndShape, BecomeShape
       DEF MarkLoad, Idle, RequestStates, Shaped, Running, Ended
  <2> QED
    BY <1>1, <2>1 DEF MarkLoad, TypeOK
<1>2. ASSUME NEW d \in Days, CloseLoad(r, d) \/ OpenLoad(r, d)
      PROVE  TypeOK' /\ RequestsShaped'
  <2>1. Goal
    BY <1>2, BecomeShape
       DEF CloseLoad, OpenLoad, Idle, RequestStates, Shaped, Running
  <2> QED
    BY <1>2, <2>1 DEF CloseLoad, OpenLoad, TypeOK
<1>3. ASSUME NEW d \in Days, NEW retitle \in BOOLEAN, NEW open \in BOOLEAN,
             CreateFind(r, d, retitle, open)
      PROVE  TypeOK' /\ RequestsShaped'
  <2> DEFINE x == [Idle EXCEPT !.day = d, !.open = open,
                       !.entity = IF retitle THEN sessions[d] ELSE Nil,
                       !.pc = IF sessions[d] = Nil THEN "creating"
                              ELSE IF retitle THEN "retitling"
                              ELSE "reloading"]
  <2>1. x \in RequestStates /\ Shaped(x)
    <3>1. sessions[d] \in SessionRows \cup {Nil}
      BY <1>0
    <3>2. CASE retitle
      BY <3>1, <3>2 DEF Idle, RequestStates, Shaped, Running
    <3>3. CASE ~retitle
      BY <3>1, <3>3 DEF Idle, RequestStates, Shaped, Running
    <3> QED
      BY <3>2, <3>3
  <2>2. End(r, "created") \/ Become(r, x)
    BY <1>3 DEF CreateFind
  <2> HIDE DEF x
  <2>3. Goal
    BY <2>1, <2>2, EndShape, BecomeShape DEF Ended
  <2> QED
    BY <1>3, <2>3 DEF CreateFind, TypeOK
<1>4. CASE MarkCheckEnrolled(r) \/ MarkFind(r)
  <2>1. \A pc \in {"finding", "updating", "inserting"} :
          request[r].pc \in {"checking", "finding"} =>
            Shaped([request[r] EXCEPT !.pc = pc])
    BY <1>0 DEF RequestStates, Shaped, Running
  <2>2. Goal
    BY <1>4, <2>1, EndShape, GotoShape
       DEF MarkCheckEnrolled, MarkFind, Running, Ended
  <2> QED
    BY <1>4, <2>2 DEF MarkCheckEnrolled, MarkFind, TypeOK
<1>5. CASE MarkUpdate(r) \/ MarkInsert(r)
  <2>1. request[r].pc \in {"updating", "inserting"}
    BY <1>5 DEF MarkUpdate, MarkInsert
  <2>2. Shaped([request[r] EXCEPT !.pc = "marked"])
    BY <1>0, <2>1 DEF RequestStates, Shaped, Running
  <2>3. Goal
    BY <1>5, <2>2, EndShape, GotoShape DEF MarkUpdate, MarkInsert, Ended
  <2>4. SetRecord(r) => records' \in [Days -> [Students -> Statuses \cup {Nil}]]
    BY <1>0, <2>1 DEF SetRecord, Shaped, Running
  <2> QED
    BY <1>5, <2>3, <2>4 DEF MarkUpdate, MarkInsert, TypeOK
<1>6. CASE CloseReadRoster(r) \/ CloseReadRecords(r)
  <2>1. PICK on \in SUBSET Students, out \in SUBSET Students,
             pc \in {"closing", "comparing", "recording"} :
          request' = [request EXCEPT ![r] =
            [request[r] EXCEPT !.roster = on, !.missing = out, !.pc = pc]]
    <3>1. CASE CloseReadRoster(r)
      <4> DEFINE pc == IF roster = {} THEN "closing" ELSE "comparing"
      <4>1. request' = [request EXCEPT ![r] =
              [request[r] EXCEPT !.roster = roster,
                 !.missing = request[r].missing, !.pc = pc]]
        BY <1>0, <3>1 DEF CloseReadRoster, RequestStates, TypeOK
      <4>2. request[r].missing \in SUBSET Students
        BY <1>0 DEF RequestStates
      <4>3. pc \in {"closing", "comparing", "recording"}
        OBVIOUS
      <4> QED
        BY <1>0, <4>1, <4>2, <4>3
    <3>2. CASE CloseReadRecords(r)
      <4> DEFINE out == MissingOf(request[r].roster, request[r].day)
                 pc == IF out = {} THEN "closing" ELSE "recording"
      <4>1. request' = [request EXCEPT ![r] =
              [request[r] EXCEPT !.roster = request[r].roster,
                 !.missing = out, !.pc = pc]]
        BY <1>0, <3>2 DEF CloseReadRecords, RequestStates, TypeOK
      <4>2. request[r].roster \in SUBSET Students
        BY <1>0 DEF RequestStates
      <4>3. out \in SUBSET Students
        BY <4>2 DEF MissingOf
      <4>4. pc \in {"closing", "comparing", "recording"}
        OBVIOUS
      <4> HIDE DEF out, pc
      <4> QED
        BY <4>1, <4>2, <4>3, <4>4
    <3> QED
      BY <1>6, <3>1, <3>2
  <2> DEFINE x == [request[r] EXCEPT !.roster = on, !.missing = out, !.pc = pc]
  <2>2. x \in RequestStates
    BY <1>0 DEF RequestStates, Running
  <2>3. request[r].pc \in {"rostering", "comparing"}
    BY <1>6 DEF CloseReadRoster, CloseReadRecords
  <2>4. Shaped(x)
    BY <1>0, <2>3 DEF RequestStates, Shaped, Running
  <2>5. Goal
    BY <2>1, <2>2, <2>4, BecomeShape DEF Become
  <2> QED
    BY <1>6, <2>5 DEF CloseReadRoster, CloseReadRecords, TypeOK
<1>7. CASE CloseInsertAbsences(r)
  <2>1. Shaped([request[r] EXCEPT !.pc = "closing"])
    BY <1>0, <1>7 DEF CloseInsertAbsences, RequestStates, Shaped, Running
  <2>2. Goal
    BY <1>7, <2>1, EndShape, GotoShape DEF CloseInsertAbsences, Running, Ended
  <2>3. records' \in [Days -> [Students -> Statuses \cup {Nil}]]
    BY <1>0, <1>7 DEF CloseInsertAbsences, Statuses
  <2> QED
    BY <1>7, <2>2, <2>3 DEF CloseInsertAbsences, TypeOK
<1>8. CASE CloseSave(r)
  <2>1. Shaped([request[r] EXCEPT !.pc = "closed"])
    BY <1>0, <1>8 DEF CloseSave, RequestStates, Shaped, Running
  <2>2. Goal
    BY <1>8, <2>1, GotoShape DEF CloseSave, Ended
  <2> QED
    BY <1>8, <2>2 DEF CloseSave, SaveSession, ClosedRow, SessionRows, TypeOK
<1>9. CASE CreateInsert(r) \/ CreateRefind(r) \/ RetitleSave(r)
  <2>1. request[r].day \in Days /\ request[r].open \in BOOLEAN
    BY <1>0, <1>9 DEF CreateInsert, CreateRefind, RetitleSave, Shaped, Running,
                     RequestStates
  <2>2. Shaped([request[r] EXCEPT !.pc = "refinding"])
    BY <1>0, <2>1 DEF RequestStates, Shaped, Running
  <2>3. Goal
    BY <1>9, <2>1, <2>2, ProceedShape, GotoShape
       DEF CreateInsert, CreateRefind, RetitleSave, Running
  <2>4. sessions' \in [Days -> SessionRows \cup {Nil}]
    <3>1. RetitleSave(r) => request[r].entity \in SessionRows
      BY <1>0 DEF RetitleSave, Shaped
    <3>2. [status |-> "closed", closedAt |-> FALSE] \in SessionRows
      BY DEF SessionRows
    <3> QED
      BY <1>0, <1>9, <3>1, <3>2 DEF CreateInsert, CreateRefind, RetitleSave, SaveSession
  <2> QED
    BY <1>9, <2>3, <2>4 DEF CreateInsert, CreateRefind, RetitleSave, TypeOK
<1>10. CASE OpenSave(r)
  <2>1. Goal
    BY <1>10, EndShape DEF OpenSave, Ended
  <2> QED
    BY <1>10, <2>1 DEF OpenSave, SaveSession, SessionRows, TypeOK
<1>11. CASE RequestFails(r)
  <2>1. Goal
    BY <1>11, EndShape DEF RequestFails, Ended
  <2> QED
    BY <1>11, <2>1 DEF RequestFails, TypeOK
<1> QED
  BY <1>1, <1>2, <1>3, <1>4, <1>5, <1>6, <1>7, <1>8, <1>9, <1>10, <1>11
     DEF RequestStep

-----------------------------------------------------------------------------
(* Records are only added or re-marked.                                    *)

LEMMA StatusesAreRows == Nil \notin Statuses
BY NilAssumption DEF Statuses

\* The three ways a step leaves the records.
LEMMA RecordsAfter ==
  ASSUME NEW r \in Requests, RequestStep(r)
  PROVE  \/ UNCHANGED records
         \/ SetRecord(r) /\ Goto(r, "marked") /\ MarkUpdate(r)
         \/ SetRecord(r) /\ MarkInsert(r)
            /\ request[r].student \notin Recorded(request[r].day)
         \/ CloseInsertAbsences(r)
            /\ ~Clashes(request[r].missing, request[r].day)
            /\ records' = [records EXCEPT ![request[r].day] =
                 [u \in Students |->
                    IF u \in request[r].missing THEN "absent" ELSE @[u]]]
BY DEF RequestStep, MarkLoad, CloseLoad, OpenLoad, CreateFind, MarkCheckEnrolled,
       MarkFind, MarkUpdate, MarkInsert, CloseReadRoster, CloseReadRecords,
       CloseInsertAbsences, CloseSave, CreateInsert, CreateRefind, RetitleSave,
       OpenSave, RequestFails

LEMMA RecordsGrow ==
  ASSUME TypeOK, RequestsShaped, NEW r \in Requests, RequestStep(r),
         NEW d \in Days
  PROVE  Recorded(d) \subseteq Recorded(d)'
<1>0. records \in [Days -> [Students -> Statuses \cup {Nil}]]
  BY DEF TypeOK
<1>1. CASE UNCHANGED records
  BY <1>1 DEF Recorded
<1>2. CASE SetRecord(r) /\ (MarkUpdate(r) \/ MarkInsert(r))
  <2>1. request[r].status # Nil
    BY <1>2, StatusesAreRows DEF MarkUpdate, MarkInsert, RequestsShaped, Shaped
  <2> QED
    BY <1>0, <1>2, <2>1 DEF SetRecord, Recorded
<1>3. CASE records' = [records EXCEPT ![request[r].day] =
             [u \in Students |->
                IF u \in request[r].missing THEN "absent" ELSE @[u]]]
  BY <1>0, <1>3, NilAssumption DEF Recorded
<1> QED
  BY <1>1, <1>2, <1>3, RecordsAfter

LEMMA OthersKept ==
  ASSUME TypeOK, NEW r \in Requests, RequestStep(r),
         NEW other \in Requests, other # r
  PROVE  request'[other] = request[other]
BY DEF TypeOK, RequestStep, MarkLoad, CloseLoad, OpenLoad, CreateFind,
       MarkCheckEnrolled, MarkFind, MarkUpdate, MarkInsert, CloseReadRoster,
       CloseReadRecords, CloseInsertAbsences, CloseSave, CreateInsert,
       CreateRefind, RetitleSave, OpenSave, RequestFails, Become, Goto, End, Proceed

-----------------------------------------------------------------------------
(* What a close has seen or made recorded stays so.                        *)

CloseStages == {"recording", "closing", "closed"}

\* Only the steps of a close itself bring a request to these stages.
LEMMA CloseStepsOnly ==
  ASSUME TypeOK, RequestsShaped, NEW r \in Requests, RequestStep(r)
  PROVE  \/ CloseReadRoster(r) \/ CloseReadRecords(r)
         \/ CloseInsertAbsences(r) \/ CloseSave(r)
         \/ request'[r].pc \notin CloseStages
<1>0. request[r] \in RequestStates
  BY DEF TypeOK
<1>1. CASE \E pc \in Running \cup Ended : pc \notin CloseStages
             /\ (Goto(r, pc) \/ End(r, pc))
  BY <1>0, <1>1 DEF Goto, End, Become, Idle, RequestStates, TypeOK
<1>2. ASSUME NEW d \in Days, CloseLoad(r, d) \/ OpenLoad(r, d)
      PROVE  request'[r].pc \notin CloseStages
  BY <1>2 DEF CloseLoad, OpenLoad, Become, Idle, TypeOK, CloseStages
<1>3. ASSUME NEW d \in Days, NEW u \in Students, NEW status \in Statuses,
             MarkLoad(r, d, u, status)
      PROVE  request'[r].pc \notin CloseStages
  <2>1. request'[r].pc \in {"checking", "refused"}
    BY <1>0, <1>3 DEF MarkLoad, Become, End, Idle, TypeOK
  <2> QED
    BY <2>1 DEF CloseStages
<1>4. ASSUME NEW d \in Days, NEW retitle \in BOOLEAN, NEW open \in BOOLEAN,
             CreateFind(r, d, retitle, open)
      PROVE  request'[r].pc \notin CloseStages
  <2>1. request'[r].pc \in {"created", "creating", "retitling", "reloading"}
    BY <1>0, <1>4 DEF CreateFind, Become, End, Idle, TypeOK
  <2> QED
    BY <2>1 DEF CloseStages
<1>5. CASE \/ MarkCheckEnrolled(r) \/ MarkFind(r) \/ MarkUpdate(r) \/ MarkInsert(r)
           \/ OpenSave(r) \/ RequestFails(r)
  BY <1>1, <1>5 DEF MarkCheckEnrolled, MarkFind, MarkUpdate, MarkInsert, OpenSave,
     RequestFails, Running, Ended, CloseStages
<1>6. CASE CreateInsert(r) \/ CreateRefind(r) \/ RetitleSave(r)
  BY <1>1, <1>6 DEF CreateInsert, CreateRefind, RetitleSave, Proceed, Running,
     Ended, CloseStages
<1> QED
  BY <1>2, <1>3, <1>4, <1>5, <1>6 DEF RequestStep

LEMMA ClosesSoundStep ==
  ASSUME TypeOK, RequestsShaped, ClosesSound, NEW r \in Requests, RequestStep(r)
  PROVE  ClosesSound'
<1> SUFFICES ASSUME NEW p \in Requests, NEW d \in Days, request'[p].day = d
             PROVE  /\ request'[p].pc = "recording" =>
                         request'[p].roster \subseteq
                           Recorded(d)' \cup request'[p].missing
                    /\ request'[p].pc \in {"closing", "closed"} =>
                         request'[p].roster \subseteq Recorded(d)'
  BY DEF ClosesSound
<1>0. /\ request[r] \in RequestStates
      /\ request \in [Requests -> RequestStates]
      /\ records \in [Days -> [Students -> Statuses \cup {Nil}]]
  BY DEF TypeOK
<1>1. Recorded(d) \subseteq Recorded(d)'
  BY RecordsGrow
<1>2. CASE p # r
  BY <1>1, <1>2, OthersKept DEF ClosesSound
<1>3. CASE p = r /\ CloseReadRoster(r)
  BY <1>0, <1>3 DEF CloseReadRoster
<1>4. CASE p = r /\ CloseReadRecords(r)
  <2>1. request[r].day = d /\ Recorded(d)' = Recorded(d)
    BY <1>0, <1>4 DEF CloseReadRecords, Recorded, RequestStates
  <2> QED
    BY <1>0, <1>4, <2>1 DEF CloseReadRecords, MissingOf, RequestStates
<1>5. CASE p = r /\ CloseInsertAbsences(r)
  <2>1. CASE Goto(r, "closing")
    <3>1. /\ request[r].day = d /\ request[r].pc = "recording"
          /\ request'[r].roster = request[r].roster
      BY <1>0, <1>5, <2>1 DEF CloseInsertAbsences, Goto, RequestStates
    <3>2. request[r].roster \subseteq Recorded(d) \cup request[r].missing
      BY <3>1 DEF ClosesSound
    <3>3. records' = [records EXCEPT ![d] =
             [u \in Students |-> IF u \in request[r].missing THEN "absent" ELSE @[u]]]
      BY <1>0, <1>5, <2>1, <3>1
         DEF CloseInsertAbsences, Goto, End, Become, Idle, RequestStates
    <3>4. request[r].missing \subseteq Recorded(d)'
      BY <1>0, <3>3, NilAssumption DEF Recorded, RequestStates
    <3>5. request'[r].pc = "closing"
      BY <1>0, <2>1 DEF Goto, RequestStates
    <3> QED
      BY <1>1, <1>5, <3>1, <3>2, <3>4, <3>5
  <2>2. CASE End(r, "failed")
    BY <1>0, <1>5, <2>2 DEF End, Become, Idle
  <2> QED
    BY <1>5, <2>1, <2>2 DEF CloseInsertAbsences
<1>6. CASE p = r /\ CloseSave(r)
  <2>1. /\ request[r].day = d /\ request[r].pc = "closing"
        /\ request'[r].roster = request[r].roster /\ request'[r].pc = "closed"
    BY <1>0, <1>6 DEF CloseSave, Goto, RequestStates
  <2> QED
    BY <1>1, <1>6, <2>1 DEF ClosesSound
<1>7. CASE p = r /\ request'[r].pc \notin CloseStages
  BY <1>7 DEF CloseStages
<1> QED
  BY <1>2, <1>3, <1>4, <1>5, <1>6, <1>7, CloseStepsOnly

LEMMA RecordingInductive == RecordingInv /\ [Next]_vars => RecordingInv'
<1> SUFFICES ASSUME RecordingInv, [Next]_vars PROVE RecordingInv'
  OBVIOUS
<1> USE DEF RecordingInv
<1>1. CASE UNCHANGED vars
  BY <1>1 DEF vars, TypeOK, RequestsShaped, ClosesSound, Recorded
<1>2. ASSUME NEW u \in Students, RosterChange(u)
      PROVE  RecordingInv'
  BY <1>2 DEF RosterChange, TypeOK, RequestsShaped, ClosesSound, Recorded
<1>3. ASSUME NEW r \in Requests, RequestStep(r)
      PROVE  RecordingInv'
  BY <1>3, TypeStep, ClosesSoundStep
<1> QED
  BY <1>1, <1>2, <1>3 DEF Next

LEMMA RecordingAlways == Spec => []RecordingInv
BY RecordingInit, RecordingInductive, PTL DEF Spec

\* Type correctness: every reachable state of the attendance tables and of the
\* requests on them has the declared shape.
THEOREM AttendanceTyped == Spec => []TypeOK
<1>1. RecordingInv => TypeOK
  BY DEF RecordingInv
<1> QED
  BY <1>1, RecordingAlways, PTL

\* A close that answered recorded everyone on the roster it read, for any
\* number of concurrent marks, closes and roster changes.
THEOREM ClosesCover == Spec => []CloseCoversRoster
<1>1. RecordingInv => CloseCoversRoster
  <2> SUFFICES ASSUME RecordingInv, NEW r \in Requests, request[r].pc = "closed"
               PROVE  request[r].roster \subseteq Recorded(request[r].day)
    BY DEF CloseCoversRoster
  <2>1. request[r].day \in Days
    BY DEF RecordingInv, RequestsShaped, Shaped
  <2> QED
    BY <2>1 DEF RecordingInv, ClosesSound
<1> QED
  BY <1>1, RecordingAlways, PTL

\* The step of RecordsOnlyByMarks.
MarkedBy(d, u, r) ==
  /\ request[r].pc = "updating" /\ request'[r].pc = "marked"
  /\ request[r].day = d /\ request[r].student = u
  /\ request[r].status = records'[d][u]

LEMMA OnlyMarksOverwrite ==
  ASSUME RecordingInv, NEW r \in Requests, RequestStep(r),
         NEW d \in Days, NEW u \in Students,
         records[d][u] # Nil, records'[d][u] # records[d][u]
  PROVE  MarkedBy(d, u, r)
<1>0. /\ records \in [Days -> [Students -> Statuses \cup {Nil}]]
      /\ request \in [Requests -> RequestStates]
      /\ request[r] \in RequestStates
  BY DEF RecordingInv, TypeOK
<1>1. CASE SetRecord(r) /\ Goto(r, "marked") /\ MarkUpdate(r)
  BY <1>0, <1>1 DEF SetRecord, Goto, MarkUpdate, MarkedBy, RequestStates
<1>2. CASE SetRecord(r) /\ request[r].student \notin Recorded(request[r].day)
  BY <1>0, <1>2 DEF SetRecord, Recorded
<1>3. CASE /\ ~Clashes(request[r].missing, request[r].day)
           /\ records' = [records EXCEPT ![request[r].day] =
                [v \in Students |->
                   IF v \in request[r].missing THEN "absent" ELSE @[v]]]
  BY <1>0, <1>3 DEF Clashes, Recorded
<1> QED
  BY <1>1, <1>2, <1>3, RecordsAfter

\* A record changes only by an explicit mark of that student: no close, late
\* or concurrent, overwrites one, and none is lost.
THEOREM OnlyMarksChangeRecords == Spec => RecordsOnlyByMarks
<1> DEFINE Kept == \A d \in Days, u \in Students :
       (records[d][u] # Nil /\ records'[d][u] # records[d][u])
         => \E r \in Requests :
              /\ request[r].pc = "updating" /\ request'[r].pc = "marked"
              /\ request[r].day = d /\ request[r].student = u
              /\ request[r].status = records'[d][u]
<1>1. RecordingInv /\ [Next]_vars => [Kept]_vars
  <2> SUFFICES ASSUME RecordingInv, Next, NEW d \in Days, NEW u \in Students,
                      records[d][u] # Nil, records'[d][u] # records[d][u]
               PROVE  \E r \in Requests : MarkedBy(d, u, r)
    BY DEF MarkedBy
  <2>1. PICK r \in Requests : RequestStep(r)
    BY DEF Next, RosterChange
  <2> QED
    BY <2>1, OnlyMarksOverwrite
<1> QED
  BY <1>1, RecordingAlways, PTL DEF Spec, RecordsOnlyByMarks
-----------------------------------------------------------------------------
(* Marks against closes: when the roster is marked only while open.        *)

MarkStages == {"checking", "finding", "updating", "inserting"}

\* A request about to save the session closed: a close at its last write, or a
\* change of title that loaded the session before it was opened.
SavesClosed(q) ==
  \/ request[q].pc = "closing"
  \/ request[q].pc = "retitling" /\ request[q].entity.status = "closed"

\* The one meeting that markAttendance, which looks at the status once, does
\* not survive.
MarksApart ==
  \A m, q \in Requests :
    (request[m].pc \in MarkStages /\ SavesClosed(q))
      => request[m].day # request[q].day

\* What a mark on its way knows of the session it loaded, as long as MarksApart.
MarksOpen ==
  \A m \in Requests : request[m].pc \in MarkStages =>
    /\ sessions[request[m].day] # Nil
    /\ sessions[request[m].day].status = "open"

\* Which steps save a session, and what.
LEMMA SessionsAfter ==
  ASSUME NEW r \in Requests, RequestStep(r)
  PROVE  \/ UNCHANGED sessions
         \/ CloseSave(r)
         \/ /\ request[r].pc = "creating" /\ sessions[request[r].day] = Nil
            /\ \E row : SaveSession(request[r].day, row)
         \/ RetitleSave(r) \/ OpenSave(r)
BY DEF RequestStep, MarkLoad, CloseLoad, OpenLoad, CreateFind, MarkCheckEnrolled,
       MarkFind, MarkUpdate, MarkInsert, CloseReadRoster, CloseReadRecords,
       CloseInsertAbsences, CreateInsert, CreateRefind, RequestFails

\* A request gets to a stage of a mark by loading an open session or by moving
\* on from another of those stages, on the same day.
LEMMA MarkStepsOnly ==
  ASSUME TypeOK, RequestsShaped, NEW r \in Requests, RequestStep(r),
         request'[r].pc \in MarkStages
  PROVE  /\ UNCHANGED sessions
         /\ \/ /\ request[r].pc \in MarkStages
               /\ request'[r].day = request[r].day
            \/ /\ request'[r].day \in Days
               /\ sessions[request'[r].day] # Nil
               /\ sessions[request'[r].day].status = "open"
<1>0. request[r] \in RequestStates /\ request \in [Requests -> RequestStates]
  BY DEF TypeOK
<1>1. ASSUME NEW pc, pc \notin MarkStages, Goto(r, pc) \/ End(r, pc)
      PROVE  FALSE
  BY <1>0, <1>1 DEF Goto, End, Become, Idle, RequestStates
<1>2. ASSUME NEW d \in Days, NEW u \in Students, NEW status \in Statuses,
             MarkLoad(r, d, u, status)
      PROVE  /\ UNCHANGED sessions /\ request'[r].day \in Days
             /\ sessions[request'[r].day] # Nil
             /\ sessions[request'[r].day].status = "open"
  <2>1. sessions[d].status = "open"
    BY <1>1, <1>2 DEF MarkLoad, MarkStages
  <2>2. request'[r].day = d
    BY <1>0, <1>2, <2>1 DEF MarkLoad, Become, Idle
  <2> QED
    BY <1>2, <2>1, <2>2 DEF MarkLoad
<1>3. CASE MarkCheckEnrolled(r) \/ MarkFind(r)
  <2>1. request[r].pc \in MarkStages /\ UNCHANGED sessions
    BY <1>3 DEF MarkCheckEnrolled, MarkFind, MarkStages
  <2>2. \E pc : Goto(r, pc)
    BY <1>1, <1>3 DEF MarkCheckEnrolled, MarkFind, MarkStages
  <2>3. request'[r].day = request[r].day
    BY <1>0, <2>2 DEF Goto, RequestStates
  <2> QED
    BY <2>1, <2>3
<1>4. ASSUME NEW d \in Days, CloseLoad(r, d) \/ OpenLoad(r, d) PROVE FALSE
  BY <1>0, <1>4 DEF CloseLoad, OpenLoad, Become, Idle, MarkStages
<1>5. ASSUME NEW d \in Days, NEW retitle \in BOOLEAN, NEW open \in BOOLEAN,
             CreateFind(r, d, retitle, open)
      PROVE  FALSE
  <2>1. request'[r].pc \in {"created", "creating", "retitling", "reloading"}
    BY <1>0, <1>5 DEF CreateFind, Become, End, Idle
  <2> QED
    BY <2>1 DEF MarkStages
<1>6. ~(MarkUpdate(r) \/ MarkInsert(r) \/ OpenSave(r) \/ RequestFails(r) \/ CloseSave(r))
  BY <1>1 DEF MarkUpdate, MarkInsert, OpenSave, RequestFails, CloseSave, MarkStages
<1>7. ~(CreateInsert(r) \/ CreateRefind(r) \/ RetitleSave(r))
  BY <1>1 DEF CreateInsert, CreateRefind, RetitleSave, Proceed, MarkStages
<1>8. ~(CloseReadRoster(r) \/ CloseReadRecords(r) \/ CloseInsertAbsences(r))
  <2>1. CASE CloseReadRoster(r) \/ CloseReadRecords(r)
    <3>1. request'[r].pc \in {"closing", "comparing", "recording"}
      BY <1>0, <2>1 DEF CloseReadRoster, CloseReadRecords, RequestStates
    <3> QED
      BY <3>1 DEF MarkStages
  <2>2. ~CloseInsertAbsences(r)
    BY <1>1 DEF CloseInsertAbsences, MarkStages
  <2> QED
    BY <2>1, <2>2
<1> QED
  BY <1>2, <1>3, <1>4, <1>5, <1>6, <1>7, <1>8 DEF RequestStep

\* A session saved while a mark is on its way stays open.
LEMMA OpenStays ==
  ASSUME TypeOK, RequestsShaped, MarksApart, NEW r \in Requests, RequestStep(r),
         NEW m \in Requests, request[m].pc \in MarkStages,
         sessions[request[m].day] # Nil, sessions[request[m].day].status = "open"
  PROVE  /\ sessions'[request[m].day] # Nil
         /\ sessions'[request[m].day].status = "open"
<1> DEFINE d == request[m].day
<1>0. /\ d \in Days
      /\ sessions \in [Days -> SessionRows \cup {Nil}]
      /\ sessions' \in [Days -> SessionRows \cup {Nil}]
      /\ request[r] \in RequestStates
  BY TypeStep DEF TypeOK, RequestsShaped, Shaped, MarkStages, Running
<1>1. CASE UNCHANGED sessions
  BY <1>1
<1>2. ASSUME NEW row, SaveSession(request[r].day, row), request[r].day # d
      PROVE  sessions'[d] = sessions[d]
  BY <1>0, <1>2 DEF SaveSession
<1>3. ASSUME SavesClosed(r), NEW row, SaveSession(request[r].day, row)
      PROVE  sessions'[d] = sessions[d]
  BY <1>2, <1>3 DEF MarksApart
<1>4. CASE CloseSave(r)
  BY <1>3, <1>4 DEF CloseSave, SavesClosed
<1>5. CASE /\ sessions[request[r].day] = Nil
           /\ \E row : SaveSession(request[r].day, row)
  BY <1>2, <1>5
<1>6. CASE RetitleSave(r)
  <2>1. request[r].entity \in SessionRows
    BY <1>6 DEF RetitleSave, RequestsShaped, Shaped
  <2>2. CASE request[r].entity.status = "closed"
    BY <1>3, <1>6, <2>2 DEF RetitleSave, SavesClosed
  <2>3. CASE request[r].entity.status = "open" /\ request[r].day = d
    <3>1. sessions'[d] = request[r].entity
      BY <1>0, <1>6, <2>3 DEF RetitleSave, SaveSession
    <3> QED
      BY <2>1, <2>3, <3>1, NilAssumption DEF SessionRows
  <2>4. CASE request[r].day # d
    BY <1>2, <1>6, <2>4 DEF RetitleSave
  <2> QED
    BY <2>1, <2>2, <2>3, <2>4 DEF SessionRows
<1>7. CASE OpenSave(r)
  <2>1. CASE request[r].day = d
    <3>1. sessions'[d] = [status |-> "open", closedAt |-> FALSE]
      BY <1>0, <1>7, <2>1 DEF OpenSave, SaveSession
    <3>2. [status |-> "open", closedAt |-> FALSE] \in SessionRows
      BY DEF SessionRows
    <3>3. sessions'[d] # Nil
      BY <3>1, <3>2, NilAssumption DEF SessionRows
    <3> QED
      BY <3>1, <3>3
  <2>2. CASE request[r].day # d
    BY <1>2, <1>7, <2>2 DEF OpenSave
  <2> QED
    BY <2>1, <2>2
<1> QED
  BY <1>1, <1>4, <1>5, <1>6, <1>7, SessionsAfter

LEMMA MarksOpenStep ==
  ASSUME RecordingInv, MarksApart, MarksOpen, [Next]_vars
  PROVE  MarksOpen'
<1> SUFFICES ASSUME NEW m \in Requests, request'[m].pc \in MarkStages
             PROVE  /\ sessions'[request'[m].day] # Nil
                    /\ sessions'[request'[m].day].status = "open"
  BY DEF MarksOpen
<1>0. TypeOK /\ RequestsShaped
  BY DEF RecordingInv
<1>1. ASSUME NEW r \in Requests, RequestStep(r)
      PROVE  /\ sessions'[request'[m].day] # Nil
             /\ sessions'[request'[m].day].status = "open"
  <2>1. CASE m = r
    BY <1>0, <1>1, <2>1, MarkStepsOnly DEF MarksOpen
  <2>2. CASE m # r
    <3>1. request'[m] = request[m]
      BY <1>0, <1>1, <2>2, OthersKept
    <3> QED
      BY <1>0, <1>1, <3>1, OpenStays DEF MarksOpen
  <2> QED
    BY <2>1, <2>2
<1>2. CASE UNCHANGED <<sessions, request>>
  BY <1>2 DEF MarksOpen
<1> QED
  BY <1>1, <1>2 DEF Next, RosterChange, vars

\* Only a mark at its last write ends as marked.
LEMMA MarkedByMark ==
  ASSUME RecordingInv, NEW r \in Requests, NEW q \in Requests, RequestStep(q),
         request'[r].pc = "marked", request[r].pc # "marked"
  PROVE  request[r].pc \in MarkStages
<1>0. TypeOK /\ RequestsShaped
  BY DEF RecordingInv
<1>1. q = r
  BY <1>0, OthersKept
<1>2. request[r] \in RequestStates /\ request \in [Requests -> RequestStates]
  BY <1>0 DEF TypeOK
<1>3. ASSUME NEW pc, pc # "marked", Goto(r, pc) \/ End(r, pc) PROVE FALSE
  BY <1>2, <1>3 DEF Goto, End, Become, Idle, RequestStates
<1>4. ASSUME NEW d \in Days, CloseLoad(r, d) \/ OpenLoad(r, d) PROVE FALSE
  BY <1>2, <1>4 DEF CloseLoad, OpenLoad, Become, Idle
<1>5. ASSUME NEW d \in Days, NEW retitle \in BOOLEAN, NEW open \in BOOLEAN,
             CreateFind(r, d, retitle, open)
      PROVE  FALSE
  <2>1. request'[r].pc \in {"created", "creating", "retitling", "reloading"}
    BY <1>2, <1>5 DEF CreateFind, Become, End, Idle
  <2> QED
    BY <2>1
<1>6. ASSUME NEW d \in Days, NEW u \in Students, NEW status \in Statuses,
             MarkLoad(r, d, u, status)
      PROVE  FALSE
  <2>1. request'[r].pc \in {"checking", "refused"}
    BY <1>2, <1>6 DEF MarkLoad, Become, End, Idle
  <2> QED
    BY <2>1
<1>7. ~(CloseReadRoster(r) \/ CloseReadRecords(r))
  BY <1>2 DEF CloseReadRoster, CloseReadRecords, RequestStates
<1>8. ~(\/ CreateInsert(r) \/ CreateRefind(r) \/ RetitleSave(r) \/ OpenSave(r)
        \/ RequestFails(r) \/ CloseSave(r) \/ CloseInsertAbsences(r))
  BY <1>3 DEF CreateInsert, CreateRefind, RetitleSave, OpenSave, RequestFails,
     CloseSave, CloseInsertAbsences, Proceed
<1> QED
  BY <1>1, <1>4, <1>5, <1>6, <1>7, <1>8
     DEF RequestStep, MarkCheckEnrolled, MarkFind, MarkUpdate, MarkInsert, MarkStages

\* The roster is marked only while the session is open, as long as no request
\* is about to save a session closed while a mark of that session is on its
\* way: the exact meeting that the counterexample of MarkOnlyWhileOpen shows,
\* and the only one, for any number of marks, opens, closes and changes of
\* title.
THEOREM MarksMeetOpen == Spec /\ []MarksApart => MarkOnlyWhileOpen
<1> DEFINE Open == \A r \in Requests :
       (request'[r].pc = "marked" /\ request[r].pc # "marked")
         => sessions[request[r].day].status = "open"
<1>1. Init => MarksOpen
  BY DEF Init, MarksOpen, Idle, MarkStages
<1>2. RecordingInv /\ MarksApart /\ MarksOpen /\ [Next]_vars => MarksOpen'
  BY MarksOpenStep
<1>3. RecordingInv /\ MarksOpen /\ [Next]_vars => [Open]_vars
  <2> SUFFICES ASSUME RecordingInv, MarksOpen, Next, NEW r \in Requests,
                      request'[r].pc = "marked", request[r].pc # "marked"
               PROVE  sessions[request[r].day].status = "open"
    OBVIOUS
  <2>1. PICK q \in Requests : RequestStep(q)
    BY DEF Next, RosterChange
  <2> QED
    BY <2>1, MarkedByMark DEF MarksOpen
<1> QED
  BY <1>1, <1>2, <1>3, RecordingAlways, PTL DEF Spec, MarkOnlyWhileOpen
=============================================================================
