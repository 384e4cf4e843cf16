--------------------------- MODULE Microlearning ---------------------------
(***************************************************************************)
(* The daily bite of a student and his streak                              *)
(* (microlearning.service.ts, useMicrolearningToday.ts and                 *)
(* MicrolearningWidget.tsx): one bite is assigned per day, completing it   *)
(* writes a row of history and the streak in one transaction.              *)
(*                                                                         *)
(* Two clocks name the day.  "Today" and the streak use APP_TZ; the rows   *)
(* of today are looked for between midnights of the process's time zone,   *)
(* which is ahead of America/Guayaquil when the process runs in UTC: a row *)
(* written in the evening belongs to the process's tomorrow.               *)
(***************************************************************************)
EXTENDS Naturals, FiniteSets, FiniteSetsExt

CONSTANTS
  Windows,      \* browser windows of the student, each with its query cache
  Period,       \* periods in a day
  Ahead,        \* how many of them the process's clock is ahead of APP_TZ
  Student,      \* the id of the student
  First,        \* the bites the catalogue begins with
  MaxContents,  \* bound: bites the administrator adds up to
  MaxPresses,   \* bound: presses of the button
  MaxLate,      \* bound: requests nobody waits for, under way at once
  MaxTime,      \* bound: the last period
  None

ASSUME ClockAssumption == {Period, Ahead, MaxTime} \subseteq Nat /\ Ahead < Period
ASSUME BoundsAssumption ==
  {Student, MaxContents, MaxPresses, MaxLate} \subseteq Nat /\ First \in 1..MaxContents

VARIABLES
  now,       \* the period
  catalog,   \* the bites are 1..catalog, in order of insertion
  history,   \* rows of user_microlearning_history
  streak,    \* the row of user_streak
  views,     \* the query and the mutation of every window
  orphans,   \* requests to complete whose window has given up
  presses    \* how often the button was pressed

tables == <<history, streak>>
vars == <<now, catalog, tables, views, orphans, presses>>

Day(t) == t \div Period
ProcessDay(t) == (t + Ahead) \div Period
Days == 0..Day(MaxTime)
Contents == 1..MaxContents

\* A row knows its day (of APP_TZ, when the request came) and, for the
\* properties, how many bites there were then.
Rows == [content: Contents, at: 0..MaxTime, day: Days, catalog: Contents]
Streaks == [n: Nat \ {0}, last: Days]
ASSUME NoneAssumption == None \notin Nat /\ None \notin Streaks
Seen == {h.content : h \in history}

\* What GET /microlearning/today answers, and from what it was answered.  A
\* request to complete remembers the answer its button was shown with, and,
\* once checked, the day and the catalogue of the check.
Replies == [content: Contents, done: BOOLEAN, streak: Nat, day: Days,
            catalog: Contents, rows: Nat]
Requests == [shown: Replies, day: Days \cup {None}, catalog: Contents \cup {None},
             stage: {"sent", "checked", "ok", "refused"}]
\* data is None while the page is loading or could not load.
Views == [data: Replies \cup {None}, req: Requests \cup {None}]

-----------------------------------------------------------------------------
(* microlearning.service.ts                                                *)

\* The row found between the midnights of today.
TodayByProcess(h) == ProcessDay(h.at) = ProcessDay(now)
Today(h) == ProcessDay(h.at) = Day(now)
TodayRows == {h \in history : Today(h)}

\* An unordered read returns the bites in order of insertion (no row of the
\* table is ever changed); which one is the sum of the date and the student.
InOrder(s, i) == CHOOSE c \in s : Cardinality({d \in s : d < c}) = i
PickNow(s) == InOrder(s, (now + Student) % Cardinality(s))
Pick(s) == InOrder(s, (Day(now) + Student) % Cardinality(s))

\* resolveTodayContentId: today's, or one not seen yet, or any.
Assigned ==
  IF TodayRows # {} THEN (CHOOSE h \in TodayRows : TRUE).content
  ELSE LET unseen == 1..catalog \ Seen
       IN Pick(IF unseen = {} THEN 1..catalog ELSE unseen)

\* A streak that yesterday did not continue is shown as 0.
StreakShown ==
  IF streak = None THEN 0
  ELSE IF TodayRows = {} /\ streak.last + 1 < Day(now) THEN 0 ELSE streak.n

GetTodayContent ==
  [content |-> Assigned, done |-> TodayRows # {}, streak |-> StreakShown,
   day |-> Day(now), catalog |-> catalog, rows |-> Cardinality(history)]

\* The streak after a completion whose request came on day d.
AdvancedAlways(d) ==
  IF streak = None THEN [n |-> 1, last |-> d] ELSE [n |-> streak.n + 1, last |-> d]
Advanced(d) ==
  IF streak = None THEN [n |-> 1, last |-> d]
  ELSE [n |-> IF streak.last + 1 = Day(now) THEN streak.n + 1
              ELSE IF streak.last # d THEN 1 ELSE streak.n,
        last |-> d]

\* markAsCompleted: the bite must be the one assigned; one completed before is
\* left as it is.
CheckedAnyBite(r) ==
  [r EXCEPT !.day = Day(now), !.catalog = catalog,
            !.stage = IF r.shown.content \in Seen THEN "ok" ELSE "checked"]
Checked(r) ==
  [r EXCEPT !.day = Day(now), !.catalog = catalog,
            !.stage = IF Assigned # r.shown.content THEN "refused"
                      ELSE IF r.shown.content \in Seen THEN "ok" ELSE "checked"]

\* Then the transaction, in which the unique index refuses a second row for a
\* bite: the request after its next step, and what the step writes.
Served(r) ==
  IF r.stage = "sent" THEN Checked(r)
  ELSE [r EXCEPT !.stage = IF r.shown.content \in Seen THEN "refused" ELSE "ok"]

RowOf(r) ==
  [content |-> r.shown.content, at |-> now, day |-> r.day, catalog |-> r.catalog]

WritesNoFirst(r) ==
  IF r.stage = "checked" /\ r.shown.content \notin Seen
    THEN /\ history' = history \cup {RowOf(r)}
         /\ streak' = IF streak = None THEN None ELSE Advanced(r.day)
    ELSE UNCHANGED tables
Writes(r) ==
  IF r.stage = "checked" /\ r.shown.content \notin Seen
    THEN history' = history \cup {RowOf(r)} /\ streak' = Advanced(r.day)
    ELSE UNCHANGED tables

-----------------------------------------------------------------------------
(* The window.                                                             *)

Idle == UNCHANGED <<now, catalog, orphans, presses>>

\* The query runs when a page that uses it is shown and its data is stale, on
\* "Try again", and after a success.  Its answer is shown as soon as it is read:
\* a later arrival only keeps the older data on the page longer, which may stay
\* there as long anyway.
FetchToday(w) ==
  /\ views' = [views EXCEPT ![w].data = GetTodayContent]
  /\ UNCHANGED tables /\ Idle

\* "Couldn't load your daily bite", also over a bite that was there.
TodayFails(w) ==
  /\ views' = [views EXCEPT ![w].data = None]
  /\ UNCHANGED tables /\ Idle

\* "Got it! +1 day to my streak", disabled while a completion is under way.
HandleComplete(w) ==
  /\ presses < MaxPresses /\ presses' = presses + 1
  /\ IF views[w].data = None THEN FALSE ELSE ~views[w].data.done
  /\ views[w].req = None
  /\ views' = [views EXCEPT ![w].req =
                 [shown |-> views[w].data, day |-> None, catalog |-> None, stage |-> "sent"]]
  /\ UNCHANGED <<now, catalog, tables, orphans>>

ServeHeard(w) ==
  /\ views[w].req # None /\ views[w].req.stage \in {"sent", "checked"}
  /\ views' = [views EXCEPT ![w].req = Served(views[w].req)]
  /\ Writes(views[w].req)
  /\ Idle

\* The success of one nobody waits for makes the query run too.
ServeOrphan(r) ==
  /\ orphans' = (orphans \ {r}) \cup
                  (IF Served(r).stage = "checked" THEN {Served(r)} ELSE {})
  /\ Writes(r)
  /\ UNCHANGED <<now, catalog, views, presses>>

\* A success makes the query run again (FetchToday, with the button back until
\* it has); an error only says "Failed to save progress".
CompletionEnds(w) ==
  /\ views[w].req # None /\ views[w].req.stage \in {"ok", "refused"}
  /\ views' = [views EXCEPT ![w].req = None]
  /\ UNCHANGED tables /\ Idle

\* The 30 s are over, or the page is left and shown again with a mutation of
\* its own: the button is there, whatever the server did or does.
CompletionGivenUp(w) ==
  /\ views[w].req # None
  /\ views' = [views EXCEPT ![w].req = None]
  /\ orphans' = orphans \cup
       (IF views[w].req.stage \in {"sent", "checked"} THEN {views[w].req} ELSE {})
  /\ Cardinality(orphans') <= MaxLate
  /\ UNCHANGED <<now, catalog, tables, presses>>

-----------------------------------------------------------------------------
\* The administrator adds a bite, or imports several.
CreateContent ==
  /\ catalog' \in catalog + 1..MaxContents
  /\ UNCHANGED <<now, tables, views, orphans, presses>>

Tick ==
  /\ now < MaxTime /\ now' = now + 1
  /\ UNCHANGED <<catalog, tables, views, orphans, presses>>

Init ==
  /\ now = 0 /\ catalog = First
  /\ history = {} /\ streak = None
  /\ views = [w \in Windows |-> [data |-> None, req |-> None]]
  /\ orphans = {} /\ presses = 0

Next ==
  \/ \E w \in Windows :
       \/ FetchToday(w) \/ TodayFails(w)
       \/ HandleComplete(w) \/ ServeHeard(w) \/ CompletionEnds(w) \/ CompletionGivenUp(w)
  \/ \E r \in orphans : ServeOrphan(r)
  \/ CreateContent \/ Tick

Spec == Init /\ [][Next]_vars

-----------------------------------------------------------------------------
\* Every row is of a bite of the catalogue, written not before its request,
\* and there is a streak as soon as there is a row.
TypeOK ==
  /\ now \in 0..MaxTime /\ catalog \in Contents /\ presses \in 0..MaxPresses
  /\ history \subseteq Rows /\ \A h \in history : h.content <= catalog /\ h.day <= Day(h.at)
  /\ streak \in Streaks \cup {None} /\ (streak = None) = (history = {})
  /\ \A w \in Windows : views[w] \in Views
  /\ orphans \subseteq Requests

\* A row that the process puts on another day than its student's.
Late(h) == ProcessDay(h.at) # h.day
AcrossMidnight(h) == Day(h.at) # h.day

\* The stored streak is the number of consecutive days, up to the last one
\* with a completion, that have one, whichever windows, retries and late
\* requests the completions came from - unless a completion was checked before
\* midnight and committed after it, which may cut the run or count a day twice.
StreakIsTheRun ==
  (history # {} /\ ~\E h \in history : AcrossMidnight(h)) =>
    LET days == {h.day : h \in history}
    IN /\ streak.last = Max(days)
       /\ streak.n = Max({k \in 1..streak.last + 1 : \A i \in 0..k - 1 : streak.last - i \in days})

\* The program says that the bite of today is done if and only if one was
\* completed today - unless one was completed yesterday or today in the hours
\* in which it is already tomorrow for the process, or committed after the
\* midnight that followed its check.
DoneMeansToday ==
  [][\A w \in Windows :
       FetchToday(w)
         => \/ views'[w].data.done = \E h \in history : h.day = Day(now)
            \/ \E h \in history :
                 (Late(h) /\ h.day + 1 >= Day(now)) \/ AcrossMidnight(h)]_vars

\* A student completes at most one bite a day, from however many windows -
\* unless it is tomorrow for the process, or the catalogue grew while the
\* first completion was under way.
OneBiteADay ==
  \A g, h \in history :
    g.day = h.day => g = h \/ Late(g) \/ Late(h) \/ g.catalog # h.catalog

\* The button keeps its promise: when a completion is answered the streak is
\* one more than the page showed - unless the page was stale (another day,
\* more bites, another completion), the student had completed a bite that day
\* already (DoneMeansToday), or he has seen every bite of the catalogue.
PromiseKept ==
  [][\A w \in Windows :
       LET r == views[w].req
           q == views'[w].req
       IN (r # None /\ r.stage \in {"sent", "checked"} /\ q # None /\ q.stage \in {"ok", "refused"})
            => \/ streak' # None /\ streak'.n = r.shown.streak + 1
               \/ r.shown.day # Day(now) \/ r.shown.catalog # catalog
               \/ r.shown.rows # Cardinality(history)
               \/ \E h \in history : h.day = Day(now)
               \/ 1..catalog \subseteq Seen]_vars
=============================================================================
