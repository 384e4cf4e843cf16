------------------------- MODULE MicrolearningProofs -------------------------
(***************************************************************************)
(* Proofs about Microlearning, for any number of windows, presses, late    *)
(* requests, bites and days, and whatever the length of a day and the      *)
(* distance between the two clocks.                                        *)
(***************************************************************************)
EXTENDS Microlearning, FiniteSetTheorems, FunctionTheorems, TLAPS

-----------------------------------------------------------------------------
(* The two clocks.                                                         *)

\* Both go forward, and the process's is ahead by less than a day.
LEMMA Clocks ==
  ASSUME NEW s \in Nat, NEW t \in Nat, s <= t
  PROVE  /\ Day(s) \in Nat /\ ProcessDay(s) \in Nat
         /\ Day(s) <= Day(t) /\ ProcessDay(s) <= ProcessDay(t)
         /\ Day(s) <= ProcessDay(s) /\ ProcessDay(s) <= Day(s) + 1
<1>1. Period \in Nat /\ Ahead \in Nat /\ 0 < Period /\ Ahead < Period
  BY ClockAssumption
<1>2. ASSUME NEW a \in Nat, NEW b \in Nat, a <= b
      PROVE  a \div Period \in Nat /\ a \div Period <= b \div Period
  BY <1>1, <1>2
<1>3. (s + Period) \div Period = (s \div Period) + 1
  BY <1>1
<1>4. /\ s + Ahead \in Nat /\ t + Ahead \in Nat /\ s + Period \in Nat
      /\ s <= s + Ahead /\ s + Ahead <= t + Ahead /\ s + Ahead <= s + Period
  BY <1>1
<1> QED
  BY <1>2, <1>3, <1>4 DEF Day, ProcessDay

-----------------------------------------------------------------------------
(* The order of the bites.                                                 *)

Before(s, c) == {d \in s : d < c}

\* Every place in the order of a finite set of numbers is taken: the number
\* of elements below is another for each element, and less than their number.
LEMMA InOrderChosen ==
  ASSUME NEW s, s \subseteq Nat, IsFiniteSet(s), NEW i \in 0..Cardinality(s) - 1
  PROVE  InOrder(s, i) \in s
<1> DEFINE n == Cardinality(s)
           f == [c \in s |-> Cardinality(Before(s, c))]
<1>1. n \in Nat
  BY FS_CardinalityType
<1>2. ASSUME NEW c \in s
      PROVE  IsFiniteSet(Before(s, c)) /\ Cardinality(Before(s, c)) \in 0..n - 1
  <2>1. Before(s, c) \in SUBSET s /\ c \notin Before(s, c)
    BY DEF Before
  <2>2. /\ IsFiniteSet(Before(s, c)) /\ Cardinality(Before(s, c)) <= n
        /\ n # Cardinality(Before(s, c))
    BY <2>1, FS_Subset
  <2>3. Cardinality(Before(s, c)) \in Nat
    BY <2>2, FS_CardinalityType
  <2> QED
    BY <1>1, <2>2, <2>3
<1>3. ASSUME NEW c \in s, NEW d \in s, c < d PROVE f[c] < f[d]
  <2>1. Before(s, c) \in SUBSET Before(s, d) /\ c \in Before(s, d) /\ c \notin Before(s, c)
    <3>1. \A e \in s : e \in Nat
      OBVIOUS
    <3>2. \A e \in s : e < c => e < d
      BY <1>3, <3>1
    <3>3. Before(s, c) \subseteq Before(s, d)
      BY <3>2 DEF Before
    <3>4. c \in Before(s, d) /\ c \notin Before(s, c)
      BY <1>3, <3>1 DEF Before
    <3> QED
      BY <3>3, <3>4
  <2>2. /\ Cardinality(Before(s, c)) <= Cardinality(Before(s, d))
        /\ Cardinality(Before(s, c)) # Cardinality(Before(s, d))
    BY <1>2, <2>1, FS_Subset
  <2> QED
    BY <1>2, <2>2
<1>4. f \in Injection(s, 0..n - 1)
  <2>1. f \in [s -> 0..n - 1]
    BY <1>2
  <2>2. \A c, d \in s : c # d => f[c] # f[d]
    <3> TAKE c, d \in s
    <3>1. f[c] \in Nat /\ f[d] \in Nat
      BY <1>2
    <3> HIDE DEF f
    <3>2. c # d => c < d \/ d < c
      OBVIOUS
    <3> QED
      BY <1>3, <3>1, <3>2
  <2> QED
    BY <2>1, <2>2 DEF Injection, IsInjective
<1>5. IsFiniteSet(0..n - 1) /\ Cardinality(0..n - 1) = n
  BY <1>1, FS_Interval
<1>6. f \in Surjection(s, 0..n - 1)
  BY <1>4, <1>5, FS_Injection
<1>7. PICK c \in s : f[c] = i
  BY <1>6 DEF Surjection
<1>8. c \in s /\ Cardinality({d \in s : d < c}) = i
  BY <1>7 DEF Before
<1> QED
  BY <1>8 DEF InOrder

-----------------------------------------------------------------------------
(* The invariant.                                                          *)

\* The bite of day d when there are c of them, from the rows whose day for the
\* process is before d: all there are until the first completion of d that is
\* not late.
SeenBefore(d) == {h.content : h \in {g \in history : ProcessDay(g.at) < d}}
ChosenOn(d, c, seen) ==
  LET unseen == 1..c \ seen
      from == IF unseen = {} THEN 1..c ELSE unseen
  IN InOrder(from, (d + Student) % Cardinality(from))
Choice(d, c) == ChosenOn(d, c, SeenBefore(d))

\* What a page shows was true when it was read, and still is if it is of today,
\* of as many bites and of as many rows as there are.
ReplyInv(p) ==
  /\ p \in Replies
  /\ p.content <= catalog /\ p.catalog <= catalog /\ p.day <= Day(now)
  /\ p.rows <= Cardinality(history)
  /\ (p.day = Day(now) /\ p.catalog = catalog /\ p.rows = Cardinality(history))
       => /\ p.content = Assigned /\ p.streak = StreakShown
          /\ p.done = (TodayRows # {})

\* A completion checked today for both clocks is of the bite of today.
RequestInv(r) ==
  /\ r \in Requests /\ ReplyInv(r.shown) /\ ~r.shown.done
  /\ r.stage = "checked" =>
       /\ r.day \in Days /\ r.catalog \in Contents
       /\ r.shown.day <= r.day /\ r.day <= Day(now) /\ r.catalog <= catalog
       /\ ProcessDay(now) = r.day => r.shown.content = Choice(r.day, r.catalog)

UnderWay(r) == RequestInv(r) /\ r.stage \in {"sent", "checked"}

ViewInv(v) ==
  /\ v \in Views
  /\ v.data # None => ReplyInv(v.data)
  /\ v.req # None => RequestInv(v.req)

HistoryInv ==
  /\ IsFiniteSet(history)
  /\ \A h \in history : h.at <= now
  /\ \A h \in history : Late(h) \/ h.content = Choice(h.day, h.catalog)
  /\ \A g, h \in history : g.content = h.content => g = h

Completed == {h.day : h \in history}

\* The days of the run, and the one before it, while no completion crossed a
\* midnight.
RunInv ==
  /\ \A h \in history : h.day <= streak.last
  /\ streak.n <= streak.last + 1
  /\ \A i \in 0..streak.n - 1 : streak.last - i \in Completed
  /\ streak.last - streak.n \notin Completed

StreakInv ==
  /\ history # {} => streak.last \in Completed
  /\ history # {} /\ (\A h \in history : ~AcrossMidnight(h)) => RunInv

BiteInv ==
  /\ TypeOK /\ views \in [Windows -> Views]
  /\ HistoryInv /\ StreakInv
  /\ \A w \in Windows : ViewInv(views[w])
  /\ \A r \in orphans : UnderWay(r)

-----------------------------------------------------------------------------
(* What the handlers compute.                                              *)

\* The bite chosen is one that was left, when one was.
LEMMA ChosenFits ==
  ASSUME NEW d \in Nat, NEW c \in Nat \ {0}, NEW seen
  PROVE  /\ ChosenOn(d, c, seen) \in 1..c
         /\ ~(1..c \subseteq seen) => ChosenOn(d, c, seen) \notin seen
<1> DEFINE unseen == 1..c \ seen
           from == IF unseen = {} THEN 1..c ELSE unseen
           i == (d + Student) % Cardinality(from)
<1>1. from \subseteq 1..c /\ from # {} /\ (~(1..c \subseteq seen) => from = unseen)
  BY 1 \in 1..c
<1>2. IsFiniteSet(1..c)
  BY FS_Interval
<1> HIDE DEF from
<1>3. IsFiniteSet(from) /\ Cardinality(from) \in Nat /\ Cardinality(from) # 0
  BY <1>1, <1>2, FS_Subset, FS_CardinalityType, FS_EmptySet
<1>4. i \in 0..Cardinality(from) - 1
  BY <1>3, BoundsAssumption
<1>a. from \subseteq Nat
  BY <1>1
<1>5. InOrder(from, i) \in from
  <2> HIDE DEF i
  <2> QED
    BY <1>a, <1>3, <1>4, InOrderChosen
<1>6. ChosenOn(d, c, seen) = InOrder(from, i)
  BY DEF ChosenOn, from
<1> QED
  BY <1>1, <1>5, <1>6

LEMMA Numbers ==
  ASSUME TypeOK
  PROVE  /\ now \in Nat /\ MaxTime \in Nat /\ now <= MaxTime
         /\ Day(now) \in Days /\ Day(now) \in Nat /\ Days \subseteq Nat
         /\ catalog \in Nat \ {0} /\ catalog \in Contents /\ Contents \subseteq Nat
<1>1. now \in Nat /\ MaxTime \in Nat /\ now <= MaxTime
  BY ClockAssumption DEF TypeOK
<1> QED
  BY <1>1, Clocks DEF TypeOK, Days, Contents

\* resolveTodayContentId, in both its cases.
LEMMA AssignedForm ==
  ASSUME TypeOK
  PROVE  /\ TodayRows = {} => Assigned = ChosenOn(Day(now), catalog, Seen)
         /\ TodayRows # {} => Assigned \in Seen
         /\ Assigned \in 1..catalog
<1>1. CASE TodayRows = {}
  <2>1. Assigned = ChosenOn(Day(now), catalog, Seen)
    BY <1>1 DEF Assigned, Pick, ChosenOn
  <2> QED
    BY <1>1, <2>1, Numbers, ChosenFits
<1>2. CASE TodayRows # {}
  <2>1. PICK h \in TodayRows : Assigned = h.content
    BY <1>2 DEF Assigned
  <2>2. h \in history /\ h \in Rows /\ h.content <= catalog
    BY <2>1 DEF TodayRows, TypeOK
  <2>3. h.content \in 1..catalog
    BY <2>2, Numbers DEF Rows, Contents
  <2> QED
    BY <1>2, <2>1, <2>2, <2>3 DEF Seen
<1> QED
  BY <1>1, <1>2

\* When both clocks name the same day, every row the process does not see as
\* of today is of a day before for it, so the bite assigned is that of the day.
LEMMA AssignedIsChoice ==
  ASSUME TypeOK, HistoryInv, ProcessDay(now) = Day(now), TodayRows = {}
  PROVE  Assigned = Choice(Day(now), catalog)
<1>1. ASSUME NEW h \in history PROVE ProcessDay(h.at) < Day(now)
  <2>1. h.at \in Nat /\ h.at <= now
    BY ClockAssumption DEF TypeOK, Rows, HistoryInv
  <2>2. ProcessDay(h.at) <= ProcessDay(now) /\ ProcessDay(h.at) \in Nat
    BY <2>1, Numbers, Clocks
  <2>3. ProcessDay(h.at) # Day(now)
    BY DEF TodayRows, Today
  <2> QED
    BY <2>2, <2>3, Numbers
<1>2. Seen = SeenBefore(Day(now))
  BY <1>1 DEF Seen, SeenBefore
<1> QED
  BY <1>2, AssignedForm DEF Choice

LEMMA StreakTyped ==
  ASSUME TypeOK
  PROVE  /\ StreakShown \in Nat
         /\ \A d \in Days : Advanced(d) \in Streaks
<1>1. CASE streak = None
  BY <1>1 DEF StreakShown, Advanced, Streaks
<1>2. CASE streak # None
  <2>1. streak \in Streaks
    BY <1>2 DEF TypeOK
  <2>2. streak.n \in Nat \ {0} /\ streak.last \in Days
    BY <2>1 DEF Streaks
  <2> QED
    BY <1>2, <2>2 DEF StreakShown, Advanced, Streaks
<1> QED
  BY <1>1, <1>2

LEMMA FetchedTrue ==
  ASSUME TypeOK, HistoryInv
  PROVE  ReplyInv(GetTodayContent)
<1>1. Cardinality(history) \in Nat
  BY FS_CardinalityType DEF HistoryInv
<1>2. Assigned \in Contents /\ Assigned <= catalog
  <2>1. Assigned \in 1..catalog
    BY AssignedForm
  <2>2. MaxContents \in Nat /\ catalog \in Nat /\ catalog <= MaxContents
    BY BoundsAssumption, Numbers DEF Contents
  <2> HIDE DEF Assigned
  <2> QED
    BY <2>1, <2>2 DEF Contents
<1>3. (TodayRows # {}) \in BOOLEAN
  OBVIOUS
<1>4. GetTodayContent \in Replies
  BY <1>1, <1>2, Numbers, StreakTyped DEF GetTodayContent, Replies
<1> QED
  BY <1>1, <1>2, <1>4, Numbers DEF ReplyInv, GetTodayContent
-----------------------------------------------------------------------------
(* What every step leaves true.                                            *)

\* Time, the catalogue and the history only grow, a row is of the period it
\* was written in, and the streak changes with the history.
Onward ==
  /\ now <= now' /\ now' \in 0..MaxTime
  /\ catalog <= catalog' /\ catalog' \in Contents
  /\ history \subseteq history' /\ IsFiniteSet(history')
  /\ \A h \in history' \ history : h.at = now
  /\ history' = history => streak' = streak

LEMMA Later ==
  ASSUME TypeOK, Onward
  PROVE  /\ now \in Nat /\ now' \in Nat
         /\ Day(now) \in Nat /\ Day(now') \in Nat /\ Day(now) <= Day(now')
         /\ ProcessDay(now) \in Nat /\ ProcessDay(now') \in Nat
         /\ ProcessDay(now) <= ProcessDay(now') /\ Day(now) <= ProcessDay(now)
<1>1. now \in Nat /\ now' \in Nat /\ now <= now'
  BY ClockAssumption DEF TypeOK, Onward
<1>2. now' <= now'
  BY <1>1
<1> QED
  BY <1>1, <1>2, Clocks

\* The bite of a day is settled once the day has come for the process.
LEMMA ChoiceKept ==
  ASSUME TypeOK, Onward, NEW d \in Nat, NEW c, d <= ProcessDay(now)
  PROVE  Choice(d, c)' = Choice(d, c)
<1>1. ProcessDay(now) \in Nat
  BY Numbers, Clocks
<1>2. {g \in history' : ProcessDay(g.at) < d} = {g \in history : ProcessDay(g.at) < d}
  <2>1. ASSUME NEW g \in history' \ history PROVE ~(ProcessDay(g.at) < d)
    BY <1>1, <2>1 DEF Onward
  <2> QED
    BY <2>1 DEF Onward
<1>3. SeenBefore(d)' = SeenBefore(d)
  BY <1>2 DEF SeenBefore
<1> QED
  BY <1>3 DEF Choice, ChosenOn

LEMMA ReplyKept ==
  ASSUME TypeOK, HistoryInv, Onward, NEW p, ReplyInv(p)
  PROVE  ReplyInv(p)'
<1>1. p.content \in Nat /\ p.catalog \in Nat /\ p.day \in Nat /\ p.rows \in Nat
  BY Numbers DEF ReplyInv, Replies
<1>2. catalog \in Nat /\ catalog' \in Nat
  BY BoundsAssumption DEF TypeOK, Contents, Onward
<1>3. /\ Cardinality(history) \in Nat /\ Cardinality(history') \in Nat
      /\ Cardinality(history) <= Cardinality(history')
      /\ Cardinality(history) = Cardinality(history') => history = history'
  BY FS_Subset, FS_CardinalityType DEF Onward
<1>4. /\ p \in Replies
      /\ p.content <= catalog' /\ p.catalog <= catalog' /\ p.day <= Day(now')
      /\ p.rows <= Cardinality(history')
  BY <1>1, <1>2, <1>3, Later DEF ReplyInv, Onward
<1>5. ASSUME p.day = Day(now'), p.catalog = catalog', p.rows = Cardinality(history')
      PROVE  p.content = Assigned' /\ p.streak = StreakShown' /\ p.done = (TodayRows # {})'
  <2>1. p.day <= Day(now) /\ p.catalog <= catalog /\ p.rows <= Cardinality(history)
    BY DEF ReplyInv
  <2>2. Day(now) = Day(now') /\ catalog = catalog' /\ history = history'
    BY <1>1, <1>2, <1>3, <1>5, <2>1, Later DEF Onward
  <2>3. TodayRows' = TodayRows /\ Seen' = Seen
    BY <2>2 DEF TodayRows, Today, Seen
  <2>4. Assigned' = Assigned
    BY <2>2, <2>3 DEF Assigned, Pick
  <2>5. StreakShown' = StreakShown
    BY <2>2, <2>3 DEF StreakShown, Onward
  <2>6. p.content = Assigned /\ p.streak = StreakShown /\ p.done = (TodayRows # {})
    BY <1>5, <2>2 DEF ReplyInv
  <2> QED
    BY <2>3, <2>4, <2>5, <2>6
<1> QED
  BY <1>4, <1>5 DEF ReplyInv

LEMMA RequestKept ==
  ASSUME TypeOK, HistoryInv, Onward, NEW r, RequestInv(r)
  PROVE  RequestInv(r)'
<1>1. r \in Requests /\ ReplyInv(r.shown)' /\ ~r.shown.done
  BY ReplyKept DEF RequestInv
<1>2. ASSUME r.stage = "checked"
      PROVE  /\ r.day \in Days /\ r.catalog \in Contents
             /\ r.shown.day <= r.day /\ r.day <= Day(now') /\ r.catalog <= catalog'
             /\ ProcessDay(now') = r.day => r.shown.content = Choice(r.day, r.catalog)'
  <2>1. /\ r.day \in Days /\ r.catalog \in Contents
        /\ r.shown.day <= r.day /\ r.day <= Day(now) /\ r.catalog <= catalog
        /\ ProcessDay(now) = r.day => r.shown.content = Choice(r.day, r.catalog)
    BY <1>2 DEF RequestInv
  <2>2. /\ r.day \in Nat /\ r.catalog \in Nat
        /\ catalog \in Nat /\ catalog' \in Nat /\ catalog <= catalog'
    BY <2>1, Numbers, BoundsAssumption DEF TypeOK, Contents, Onward
  <2>3. r.day <= Day(now') /\ r.catalog <= catalog' /\ r.day <= ProcessDay(now)
    BY <2>1, <2>2, Later
  <2>4. ProcessDay(now') = r.day => ProcessDay(now) = r.day
    BY <2>1, <2>2, Later
  <2>5. Choice(r.day, r.catalog)' = Choice(r.day, r.catalog)
    BY <2>2, <2>3, ChoiceKept
  <2> QED
    BY <2>1, <2>3, <2>4, <2>5
<1> QED
  BY <1>1, <1>2 DEF RequestInv
LEMMA ViewKept ==
  ASSUME TypeOK, HistoryInv, Onward, NEW v, ViewInv(v)
  PROVE  ViewInv(v)'
<1>1. /\ v \in Views
      /\ v.data # None => ReplyInv(v.data)'
      /\ v.req # None => RequestInv(v.req)'
  BY ReplyKept, RequestKept DEF ViewInv
<1> QED
  BY <1>1 DEF ViewInv

\* The parts of TypeOK that are not about the windows and their requests.
TablesTyped ==
  /\ now \in 0..MaxTime /\ catalog \in Contents
  /\ history \subseteq Rows /\ \A h \in history : h.content <= catalog /\ h.day <= Day(h.at)
  /\ streak \in Streaks \cup {None} /\ (streak = None) = (history = {})

TablesInv == TablesTyped /\ HistoryInv /\ StreakInv

LEMMA TablesKept ==
  ASSUME TypeOK, HistoryInv, StreakInv, UNCHANGED tables,
         now <= now', now' \in 0..MaxTime, catalog <= catalog', catalog' \in Contents
  PROVE  Onward /\ TablesInv'
<1>1. Onward
  BY DEF Onward, HistoryInv, tables
<1>2. TablesTyped'
  <2>1. catalog \in Nat /\ catalog' \in Nat
    BY BoundsAssumption DEF TypeOK, Contents
  <2>2. ASSUME NEW h \in history PROVE h.content <= catalog' /\ h.day <= Day(h.at)
    <3>1. h \in Rows /\ h.content <= catalog /\ h.day <= Day(h.at)
      BY DEF TypeOK
    <3>2. h.content \in Nat
      BY <3>1, Numbers DEF Rows
    <3> QED
      BY <2>1, <3>1, <3>2
  <2>3. history' = history /\ streak' = streak
    BY DEF tables
  <2>4. history \subseteq Rows /\ streak \in Streaks \cup {None} /\ (streak = None) = (history = {})
    BY DEF TypeOK
  <2> QED
    BY <2>2, <2>3, <2>4 DEF TablesTyped
<1>3. HistoryInv'
  <2>1. history' = history /\ IsFiniteSet(history')
    BY DEF HistoryInv, tables
  <2>2. ASSUME NEW h \in history
        PROVE  h.at <= now' /\ (Late(h) \/ h.content = Choice(h.day, h.catalog)')
    <3>1. h.at \in Nat /\ h.day \in Nat /\ h.at <= now
      BY Numbers, ClockAssumption DEF HistoryInv, TypeOK, Rows
    <3>2. h.at <= now'
      BY <3>1, Later, <1>1 DEF Onward
    <3>3. ASSUME ~Late(h) PROVE h.content = Choice(h.day, h.catalog)'
      <4>1. h.day <= ProcessDay(now)
        BY <3>1, <3>3, Numbers, Clocks DEF Late
      <4>2. Choice(h.day, h.catalog)' = Choice(h.day, h.catalog)
        BY <1>1, <3>1, <4>1, ChoiceKept
      <4> QED
        BY <3>3, <4>2 DEF HistoryInv
    <3> QED
      BY <3>2, <3>3
  <2>3. \A g, h \in history : g.content = h.content => g = h
    BY DEF HistoryInv
  <2> QED
    BY <2>1, <2>2, <2>3 DEF HistoryInv
<1>4. StreakInv'
  BY DEF StreakInv, RunInv, Completed, tables
<1> QED
  BY <1>1, <1>2, <1>3, <1>4 DEF TablesInv

\* The run after a completion of the day it was checked on.
LEMMA RunGrows ==
  ASSUME TypeOK, HistoryInv, StreakInv, NEW row \in Rows,
         row.day = Day(now), history' = history \cup {row}, streak' = Advanced(row.day),
         \A h \in history : ~AcrossMidnight(h)
  PROVE  RunInv'
<1> DEFINE d == Day(now)
<1>1. d \in Nat /\ row.day = d
  BY Numbers
<1>2. Completed' = Completed \cup {d}
  BY <1>1 DEF Completed
<1>3. Completed \subseteq Nat /\ \A k \in Completed : k <= d
  <2>1. ASSUME NEW h \in history PROVE h.day \in Nat /\ h.day <= d
    <3>1. h.at \in Nat /\ h.at <= now /\ h.day \in Nat /\ h.day <= Day(h.at)
      BY Numbers, ClockAssumption DEF HistoryInv, TypeOK, Rows
    <3> QED
      BY <1>1, <3>1, Numbers, Clocks
  <2> QED
    BY <2>1 DEF Completed
<1>4. ASSUME /\ streak'.n \in Nat /\ streak'.last = d
             /\ streak'.n <= d + 1
             /\ \A i \in 0..streak'.n - 1 : d - i \in Completed \cup {d}
             /\ d - streak'.n \notin Completed \cup {d}
      PROVE  RunInv'
  <2>1. \A h \in history' : h.day \in Completed \cup {d}
    BY <1>1 DEF Completed
  <2>2. \A h \in history' : h.day <= d
    <3> HIDE DEF d
    <3>1. \A k \in Completed \cup {d} : k <= d
      BY <1>1, <1>3
    <3> QED
      BY <2>1, <3>1
  <2> QED
    BY <1>2, <1>4, <2>2 DEF RunInv
<1> HIDE DEF d
<1>5. CASE streak = None
  <2>1. Completed = {}
    BY <1>5 DEF TypeOK, Completed
  <2>2. streak'.n = 1 /\ streak'.last = d
    BY <1>1, <1>5 DEF Advanced
  <2> QED
    BY <1>1, <1>4, <2>1, <2>2
<1>6. CASE streak # None
  <2> DEFINE n == streak.n
             l == streak.last
  <2>1. n \in Nat \ {0} /\ l \in Nat /\ history # {}
    BY <1>6, Numbers DEF TypeOK, Streaks
  <2>2. RunInv /\ l \in Completed
    BY <2>1 DEF StreakInv
  <2>3. /\ n <= l + 1 /\ l <= d
        /\ \A i \in 0..n - 1 : l - i \in Completed
        /\ l - n \notin Completed
        /\ \A k \in Completed : k <= l
    BY <1>3, <2>2 DEF RunInv, Completed
  <2>4. /\ streak'.last = d
        /\ streak'.n = IF l + 1 = d THEN n + 1 ELSE IF l # d THEN 1 ELSE n
    BY <1>1, <1>6 DEF Advanced, d
  <2> HIDE DEF n, l
  <2>5. CASE l + 1 = d
    <3>1. streak'.n = n + 1 /\ n + 1 <= d + 1 /\ d \notin Completed
      BY <1>1, <2>1, <2>3, <2>4, <2>5
    <3>2. ASSUME NEW i \in 0..n PROVE d - i \in Completed \cup {d}
      <4>1. CASE i = 0
        BY <1>1, <4>1
      <4>2. CASE i # 0
        <5>1. i - 1 \in 0..n - 1 /\ d - i = l - (i - 1)
          BY <2>1, <2>5, <4>2
        <5> QED
          BY <2>3, <5>1
      <4> QED
        BY <4>1, <4>2
    <3>3. d - (n + 1) = l - n /\ d - (n + 1) # d
      BY <1>1, <2>1, <2>5
    <3>4. n + 1 \in Nat /\ (n + 1) - 1 = n
      BY <2>1
    <3> QED
      BY <1>4, <2>3, <2>4, <3>1, <3>2, <3>3, <3>4
  <2>6. CASE l = d
    <3>1. streak'.n = n /\ Completed \cup {d} = Completed
      BY <1>1, <2>2, <2>4, <2>6 DEF l
    <3> QED
      BY <1>4, <2>1, <2>3, <2>4, <2>6, <3>1
  <2>7. CASE l + 1 < d
    <3>1. streak'.n = 1
      BY <1>1, <2>1, <2>4, <2>7
    <3>2. d - 1 \notin Completed /\ d - 1 # d
      BY <1>1, <1>3, <2>1, <2>3, <2>7
    <3>3. 1 <= d + 1 /\ \A i \in 0..0 : d - i \in Completed \cup {d}
      BY <1>1
    <3> QED
      BY <1>4, <2>4, <3>1, <3>2, <3>3
  <2> QED
    BY <1>1, <2>1, <2>3, <2>5, <2>6, <2>7
<1> QED
  BY <1>5, <1>6
LEMMA Written ==
  ASSUME TypeOK, HistoryInv, StreakInv, NEW r, RequestInv(r), r.stage = "checked",
         r.shown.content \notin Seen, Writes(r), UNCHANGED <<now, catalog>>
  PROVE  Onward /\ TablesInv'
<1> DEFINE row == RowOf(r)
<1>1. /\ r.day \in Days /\ r.catalog \in Contents /\ r.day <= Day(now)
      /\ ProcessDay(now) = r.day => r.shown.content = Choice(r.day, r.catalog)
      /\ r.shown.content \in Contents /\ r.shown.content <= catalog
  BY DEF RequestInv, ReplyInv, Replies
<1>2. now \in 0..MaxTime /\ now \in Nat /\ now <= now /\ catalog \in Nat
  BY Numbers DEF TypeOK
<1>3. row \in Rows /\ row.content = r.shown.content /\ row.at = now /\ row.day = r.day
      /\ row.catalog = r.catalog
  BY <1>1, <1>2 DEF RowOf, Rows
<1>4. history' = history \cup {row} /\ streak' = Advanced(r.day)
  BY DEF Writes
<1> HIDE DEF row
<1>5. row \notin history
  BY <1>3 DEF Seen
<1>6. IsFiniteSet(history')
  BY <1>4, FS_AddElement DEF HistoryInv
<1>7. Onward
  <2>1. catalog \in Contents /\ catalog <= catalog
    BY <1>2, Numbers
  <2>2. now' = now /\ catalog' = catalog
    OBVIOUS
  <2>3. history' # history
    BY <1>4, <1>5
  <2> QED
    BY <1>2, <1>3, <1>4, <1>6, <2>1, <2>2, <2>3 DEF Onward
<1>8. TablesTyped'
  <2>1. history' \subseteq Rows
    BY <1>3, <1>4 DEF TypeOK
  <2>2. \A h \in history' : h.content <= catalog /\ h.day <= Day(h.at)
    BY <1>1, <1>3, <1>4 DEF TypeOK
  <2>3. streak' \in Streaks /\ streak' # None
    BY <1>1, <1>4, StreakTyped, NoneAssumption
  <2>4. history' # {}
    BY <1>4
  <2> QED
    BY <1>2, <2>1, <2>2, <2>3, <2>4 DEF TablesTyped, TypeOK
<1>9. HistoryInv'
  <2>1. \A h \in history' : h.at <= now'
    BY <1>2, <1>3, <1>4 DEF HistoryInv
  <2>2. ASSUME NEW h \in history', ~Late(h) PROVE h.content = Choice(h.day, h.catalog)'
    <3>1. h.at \in Nat /\ h.day \in Nat /\ h.at <= now
      BY <1>2, <1>3, <1>4, <2>1, Numbers, ClockAssumption DEF TypeOK, Rows
    <3>2. h.day <= ProcessDay(now)
      BY <1>2, <2>2, <3>1, Clocks DEF Late
    <3>3. Choice(h.day, h.catalog)' = Choice(h.day, h.catalog)
      BY <1>7, <3>1, <3>2, ChoiceKept
    <3>4. CASE h \in history
      BY <2>2, <3>3, <3>4 DEF HistoryInv
    <3>5. CASE h = row
      <4>1. ProcessDay(now) = r.day
        BY <1>3, <2>2, <3>5 DEF Late
      <4> QED
        BY <1>1, <1>3, <3>3, <3>5, <4>1
    <3> QED
      BY <1>4, <3>4, <3>5
  <2>3. \A g, h \in history' : g.content = h.content => g = h
    BY <1>3, <1>4 DEF HistoryInv, Seen
  <2> QED
    BY <1>6, <2>1, <2>2, <2>3 DEF HistoryInv
<1>10. StreakInv'
  <2>1. streak'.last = r.day
    BY <1>4 DEF Advanced
  <2>2. streak'.last \in Completed'
    BY <1>3, <1>4, <2>1 DEF Completed
  <2>3. ASSUME \A h \in history' : ~AcrossMidnight(h) PROVE RunInv'
    <3>1. row.day = Day(now)
      BY <1>3, <1>4, <2>3 DEF AcrossMidnight
    <3>2. \A h \in history : ~AcrossMidnight(h)
      BY <1>4, <2>3
    <3> QED
      BY <1>3, <1>4, <3>1, <3>2, RunGrows
  <2> QED
    BY <2>2, <2>3 DEF StreakInv
<1> QED
  BY <1>7, <1>8, <1>9, <1>10 DEF TablesInv

\* A request is checked, refused or answered; checked, it is of the bite of
\* today if it is today for the process too.
LEMMA CheckedFits ==
  ASSUME TypeOK, HistoryInv, NEW r, RequestInv(r)
  PROVE  /\ Checked(r) \in Requests /\ Checked(r).shown = r.shown
         /\ Checked(r).day = Day(now) /\ Checked(r).catalog = catalog
         /\ (Checked(r).stage = "checked" /\ ProcessDay(now) = Day(now))
              => r.shown.content = Choice(Day(now), catalog)
<1>1. r \in Requests /\ Day(now) \in Days /\ catalog \in Contents
  BY Numbers DEF RequestInv
<1>2. /\ Checked(r) \in Requests /\ Checked(r).shown = r.shown
      /\ Checked(r).day = Day(now) /\ Checked(r).catalog = catalog
      /\ Checked(r).stage = IF Assigned # r.shown.content THEN "refused"
                            ELSE IF r.shown.content \in Seen THEN "ok" ELSE "checked"
  BY <1>1 DEF Checked, Requests
<1>3. Checked(r).stage = "checked" => Assigned = r.shown.content /\ TodayRows = {}
  BY <1>2, AssignedForm
<1> QED
  BY <1>2, <1>3, AssignedIsChoice

LEMMA ServedKeeps ==
  ASSUME TypeOK, HistoryInv, StreakInv, NEW r, RequestInv(r), r.stage \in {"sent", "checked"},
         Writes(r), UNCHANGED <<now, catalog>>, NEW q, q = Served(r)
  PROVE  Onward /\ TablesInv' /\ RequestInv(q)'
<1>1. Onward /\ TablesInv'
  <2>1. CASE r.stage = "checked" /\ r.shown.content \notin Seen
    BY <2>1, Written
  <2>2. CASE ~(r.stage = "checked" /\ r.shown.content \notin Seen)
    <3>1. now <= now' /\ now' \in 0..MaxTime /\ catalog <= catalog' /\ catalog' \in Contents
      BY Numbers DEF TypeOK
    <3>2. UNCHANGED tables
      BY <2>2 DEF Writes
    <3> QED
      BY <3>1, <3>2, TablesKept
  <2> QED
    BY <2>1, <2>2
<1>2. r \in Requests /\ ReplyInv(r.shown)' /\ ~r.shown.done
  BY <1>1, ReplyKept DEF RequestInv
<1>3. CASE r.stage = "sent"
  <2>1. /\ q \in Requests /\ q.shown = r.shown /\ q.day = Day(now) /\ q.catalog = catalog
        /\ (q.stage = "checked" /\ ProcessDay(now) = Day(now))
             => r.shown.content = Choice(Day(now), catalog)
    BY <1>3, CheckedFits DEF Served
  <2>2. Choice(q.day, q.catalog)' = Choice(q.day, q.catalog)
    <3>1. Day(now) \in Nat /\ Day(now) <= ProcessDay(now)
      BY Numbers, Clocks
    <3> QED
      BY <1>1, <2>1, <3>1, ChoiceKept
  <2>3. q.shown.day <= Day(now)
    BY <2>1 DEF RequestInv, ReplyInv
  <2>4. now' = now /\ catalog' = catalog
    OBVIOUS
  <2>5. Day(now) \in Days /\ Day(now) <= Day(now) /\ catalog \in Contents /\ catalog <= catalog
    BY Numbers
  <2> QED
    BY <1>1, <1>2, <2>1, <2>2, <2>3, <2>4, <2>5 DEF RequestInv
<1>4. CASE r.stage = "checked"
  <2>1. q \in Requests /\ q.shown = r.shown /\ q.stage # "checked"
    BY <1>2, <1>4 DEF Served, Requests
  <2> QED
    BY <1>1, <1>2, <2>1 DEF RequestInv
<1> QED
  BY <1>3, <1>4
-----------------------------------------------------------------------------
(* The invariant holds.                                                    *)

LEMMA BiteInit == Init => BiteInv
<1> SUFFICES ASSUME Init PROVE BiteInv
  OBVIOUS
<1>1. MaxTime \in Nat /\ MaxPresses \in Nat /\ First \in Contents
  BY ClockAssumption, BoundsAssumption DEF Contents
<1>2. views \in [Windows -> Views] /\ \A w \in Windows : views[w].data = None /\ views[w].req = None
  BY DEF Init, Views
<1>3. TypeOK
  BY <1>1, <1>2 DEF Init, TypeOK
<1>4. HistoryInv /\ StreakInv
  BY FS_EmptySet DEF Init, HistoryInv, StreakInv
<1>5. \A w \in Windows : ViewInv(views[w])
  BY <1>2 DEF ViewInv
<1> QED
  BY <1>2, <1>3, <1>4, <1>5 DEF Init, BiteInv

LEMMA Assembled ==
  ASSUME BiteInv, Onward, TablesInv', presses' \in 0..MaxPresses,
         views' \in [Windows -> Views],
         \A w \in Windows : views'[w] = views[w] \/ ViewInv(views[w])',
         \A r \in orphans' : r \in orphans \/ UnderWay(r)'
  PROVE  BiteInv'
<1>0. TypeOK /\ HistoryInv
  BY DEF BiteInv
<1>1. \A w \in Windows : ViewInv(views[w])'
  <2> TAKE w \in Windows
  <2>1. CASE views'[w] = views[w]
    <3>1. PICK v : v = views[w]
      OBVIOUS
    <3>2. ViewInv(v)
      BY <3>1 DEF BiteInv
    <3>3. ViewInv(v)'
      BY <1>0, <3>2, ViewKept
    <3>4. v = views'[w]
      BY <2>1, <3>1
    <3> QED
      BY <3>3, <3>4 DEF ViewInv
  <2> QED
    BY <2>1
<1>2. \A r \in orphans' : UnderWay(r)'
  <2> TAKE r \in orphans'
  <2>1. CASE r \in orphans
    <3>1. RequestInv(r) /\ r.stage \in {"sent", "checked"}
      BY <2>1 DEF BiteInv, UnderWay
    <3>2. RequestInv(r)'
      BY <1>0, <3>1, RequestKept
    <3> QED
      BY <3>1, <3>2 DEF UnderWay
  <2> QED
    BY <2>1
<1>3. TypeOK'
  <2>1. orphans' \subseteq Requests
    BY <1>2 DEF UnderWay, RequestInv
  <2>2. TablesTyped'
    BY DEF TablesInv
  <2> QED
    BY <2>1, <2>2 DEF TypeOK, TablesTyped
<1>4. HistoryInv' /\ StreakInv'
  BY DEF TablesInv
<1> QED
  BY <1>1, <1>2, <1>3, <1>4 DEF BiteInv

\* The steps that change no table.
LEMMA Quiet ==
  ASSUME BiteInv, UNCHANGED <<now, catalog, tables>>
  PROVE  Onward /\ TablesInv'
<1>1. now <= now' /\ now' \in 0..MaxTime /\ catalog <= catalog' /\ catalog' \in Contents
  BY Numbers DEF BiteInv, TypeOK
<1> QED
  BY <1>1, TablesKept DEF BiteInv

LEMMA OneView ==
  ASSUME BiteInv, Onward, TablesInv', presses' \in 0..MaxPresses,
         NEW w \in Windows, NEW v, ViewInv(v)', views' = [views EXCEPT ![w] = v],
         \A r \in orphans' : r \in orphans \/ UnderWay(r)'
  PROVE  BiteInv'
<1>1. v \in Views
  BY DEF ViewInv
<1>2. views' \in [Windows -> Views] /\ views'[w] = v
      /\ \A x \in Windows : x = w \/ views'[x] = views[x]
  BY <1>1 DEF BiteInv
<1>3. ViewInv(views[w])'
  BY <1>2 DEF ViewInv
<1> QED
  BY <1>2, <1>3, Assembled

\* The request of a window, one of the pieces of what its page holds.
LEMMA AtWindow ==
  ASSUME BiteInv, NEW w \in Windows
  PROVE  /\ views[w] \in Views
         /\ views[w].data # None => ReplyInv(views[w].data)
         /\ views[w].req # None => RequestInv(views[w].req)
BY DEF BiteInv, ViewInv

LEMMA BiteFetch ==
  ASSUME BiteInv, NEW w \in Windows, FetchToday(w)
  PROVE  BiteInv'
<1>1. Onward /\ TablesInv'
  BY Quiet DEF FetchToday, Idle
<1>2. PICK p : p = GetTodayContent
  OBVIOUS
<1>3. ReplyInv(p)'
  BY <1>1, <1>2, FetchedTrue, ReplyKept DEF BiteInv
<1>4. PICK v : v = [views[w] EXCEPT !.data = p]
  OBVIOUS
<1>5. v \in Views /\ v.data = p /\ v.req = views[w].req
  BY <1>3, <1>4, AtWindow DEF ReplyInv, Views
<1>6. v.req # None => RequestInv(v.req)'
  BY <1>1, <1>5, AtWindow, RequestKept DEF BiteInv
<1>7. ViewInv(v)'
  BY <1>3, <1>5, <1>6 DEF ViewInv
<1>8. views' = [views EXCEPT ![w] = v]
  BY <1>2, <1>4 DEF FetchToday
<1>9. presses' \in 0..MaxPresses /\ orphans' = orphans
  BY DEF FetchToday, Idle, BiteInv, TypeOK
<1> QED
  BY <1>1, <1>7, <1>8, <1>9, OneView

LEMMA BiteFails ==
  ASSUME BiteInv, NEW w \in Windows, TodayFails(w)
  PROVE  BiteInv'
<1>1. Onward /\ TablesInv'
  BY Quiet DEF TodayFails, Idle
<1>2. PICK v : v = [views[w] EXCEPT !.data = None]
  OBVIOUS
<1>3. v \in Views /\ v.data = None /\ v.req = views[w].req
  BY <1>2, AtWindow DEF Views
<1>4. v.req # None => RequestInv(v.req)'
  BY <1>1, <1>3, AtWindow, RequestKept DEF BiteInv
<1>5. ViewInv(v)'
  BY <1>3, <1>4 DEF ViewInv
<1>6. views' = [views EXCEPT ![w] = v]
  BY <1>2 DEF TodayFails
<1>7. presses' \in 0..MaxPresses /\ orphans' = orphans
  BY DEF TodayFails, Idle, BiteInv, TypeOK
<1> QED
  BY <1>1, <1>5, <1>6, <1>7, OneView

\* A step that gives a window another request, or none.
LEMMA BiteRequest ==
  ASSUME BiteInv, Onward, TablesInv', presses' \in 0..MaxPresses, NEW w \in Windows,
         NEW q, q = None \/ RequestInv(q)', views' = [views EXCEPT ![w].req = q],
         \A r \in orphans' : r \in orphans \/ UnderWay(r)'
  PROVE  BiteInv'
<1>1. PICK v : v = [views[w] EXCEPT !.req = q]
  OBVIOUS
<1>2. v \in Views /\ v.data = views[w].data /\ v.req = q
  BY <1>1, AtWindow DEF Views, RequestInv
<1>3. v.data # None => ReplyInv(v.data)'
  BY <1>2, AtWindow, ReplyKept DEF BiteInv
<1>4. ViewInv(v)'
  BY <1>2, <1>3 DEF ViewInv
<1>5. views' = [views EXCEPT ![w] = v]
  BY <1>1
<1> QED
  BY <1>4, <1>5, OneView

LEMMA BitePress ==
  ASSUME BiteInv, NEW w \in Windows, HandleComplete(w)
  PROVE  BiteInv'
<1>1. Onward /\ TablesInv'
  BY Quiet DEF HandleComplete
<1>2. views[w].data # None /\ ~views[w].data.done
  BY DEF HandleComplete
<1>3. PICK q : q = [shown |-> views[w].data, day |-> None, catalog |-> None, stage |-> "sent"]
  OBVIOUS
<1>4. ReplyInv(views[w].data)
  BY <1>2, AtWindow
<1>5. q \in Requests /\ q.stage # "checked" /\ q.shown = views[w].data
  BY <1>3, <1>4 DEF Requests, ReplyInv
<1>6. ReplyInv(q.shown)'
  BY <1>1, <1>4, <1>5, ReplyKept DEF BiteInv
<1>7. RequestInv(q)'
  BY <1>2, <1>5, <1>6 DEF RequestInv
<1>8. presses' \in 0..MaxPresses
  BY BoundsAssumption DEF HandleComplete, BiteInv, TypeOK
<1>9. views' = [views EXCEPT ![w].req = q] /\ orphans' = orphans
  BY <1>3 DEF HandleComplete
<1> QED
  BY <1>1, <1>7, <1>8, <1>9, BiteRequest

LEMMA BiteHeard ==
  ASSUME BiteInv, NEW w \in Windows, ServeHeard(w)
  PROVE  BiteInv'
<1>1. PICK r, q : r = views[w].req /\ q = Served(r)
  OBVIOUS
<1>2. RequestInv(r) /\ r.stage \in {"sent", "checked"} /\ Writes(r) /\ UNCHANGED <<now, catalog>>
  BY <1>1, AtWindow DEF ServeHeard, Idle
<1>3. Onward /\ TablesInv' /\ RequestInv(q)'
  BY <1>1, <1>2, ServedKeeps DEF BiteInv
<1>4. views' = [views EXCEPT ![w].req = q]
  BY <1>1 DEF ServeHeard
<1>5. presses' \in 0..MaxPresses /\ orphans' = orphans
  BY DEF ServeHeard, Idle, BiteInv, TypeOK
<1> QED
  BY <1>3, <1>4, <1>5, BiteRequest

LEMMA BiteOrphan ==
  ASSUME BiteInv, NEW r \in orphans, ServeOrphan(r)
  PROVE  BiteInv'
<1>1. PICK q : q = Served(r)
  OBVIOUS
<1>2. Onward /\ TablesInv' /\ RequestInv(q)'
  <2>1. RequestInv(r) /\ r.stage \in {"sent", "checked"}
    BY DEF BiteInv, UnderWay
  <2> QED
    BY <1>1, <2>1, ServedKeeps DEF BiteInv, ServeOrphan
<1>3. \A o \in orphans' : o \in orphans \/ (o = q /\ q.stage = "checked")
  BY <1>1 DEF ServeOrphan
<1>4. \A o \in orphans' : o \in orphans \/ UnderWay(o)'
  BY <1>2, <1>3 DEF UnderWay
<1>5. presses' \in 0..MaxPresses /\ views' = views /\ views \in [Windows -> Views]
  BY DEF ServeOrphan, BiteInv, TypeOK
<1> QED
  BY <1>2, <1>4, <1>5, Assembled

LEMMA BiteEnds ==
  ASSUME BiteInv, NEW w \in Windows, CompletionEnds(w)
  PROVE  BiteInv'
<1>1. Onward /\ TablesInv'
  BY Quiet DEF CompletionEnds, Idle
<1>2. presses' \in 0..MaxPresses /\ orphans' = orphans /\ views' = [views EXCEPT ![w].req = None]
  BY DEF CompletionEnds, Idle, BiteInv, TypeOK
<1> QED
  BY <1>1, <1>2, BiteRequest

LEMMA BiteGivenUp ==
  ASSUME BiteInv, NEW w \in Windows, CompletionGivenUp(w)
  PROVE  BiteInv'
<1>1. Onward /\ TablesInv'
  BY Quiet DEF CompletionGivenUp
<1>2. presses' \in 0..MaxPresses /\ views' = [views EXCEPT ![w].req = None]
  BY DEF CompletionGivenUp, BiteInv, TypeOK
<1>3. PICK r : r = views[w].req
  OBVIOUS
<1>4. RequestInv(r)'
  <2>1. RequestInv(r)
    BY <1>3, AtWindow DEF CompletionGivenUp
  <2> QED
    BY <1>1, <2>1, RequestKept DEF BiteInv
<1>5. \A o \in orphans' : o \in orphans \/ (o = r /\ r.stage \in {"sent", "checked"})
  BY <1>3 DEF CompletionGivenUp
<1>6. \A o \in orphans' : o \in orphans \/ UnderWay(o)'
  BY <1>4, <1>5 DEF UnderWay
<1> QED
  BY <1>1, <1>2, <1>6, BiteRequest

LEMMA BiteElsewhere ==
  ASSUME BiteInv, CreateContent \/ Tick \/ UNCHANGED vars
  PROVE  BiteInv'
<1>1. TypeOK /\ HistoryInv /\ StreakInv
  BY DEF BiteInv
<1>2. now <= now' /\ now' \in 0..MaxTime
  BY <1>1, Numbers, ClockAssumption DEF TypeOK, CreateContent, Tick, vars
<1>3. catalog <= catalog' /\ catalog' \in Contents
  BY <1>1, Numbers, BoundsAssumption DEF CreateContent, Tick, vars, Contents
<1>4. UNCHANGED <<tables, views, orphans, presses>>
  BY DEF CreateContent, Tick, vars, tables
<1>5. Onward /\ TablesInv'
  BY <1>1, <1>2, <1>3, <1>4, TablesKept
<1> QED
  BY <1>4, <1>5, Assembled DEF BiteInv, TypeOK
LEMMA BiteStep == BiteInv /\ [Next]_vars => BiteInv'
<1> SUFFICES ASSUME BiteInv, [Next]_vars PROVE BiteInv'
  OBVIOUS
<1>1. ASSUME NEW w \in Windows,
             \/ FetchToday(w) \/ TodayFails(w)
             \/ HandleComplete(w) \/ ServeHeard(w) \/ CompletionEnds(w) \/ CompletionGivenUp(w)
      PROVE  BiteInv'
  BY <1>1, BiteFetch, BiteFails, BitePress, BiteHeard, BiteEnds, BiteGivenUp
<1>2. ASSUME NEW r \in orphans, ServeOrphan(r) PROVE BiteInv'
  BY <1>2, BiteOrphan
<1>3. CASE CreateContent \/ Tick \/ UNCHANGED vars
  BY <1>3, BiteElsewhere
<1> QED
  BY <1>1, <1>2, <1>3 DEF Next

\* Whatever the windows, retries and late requests do, what a page shows of
\* today is what the server would answer, a completion checked today is of
\* today's bite, and the streak follows the rows.
THEOREM BiteAlways == Spec => []BiteInv
BY BiteInit, BiteStep, PTL DEF Spec

-----------------------------------------------------------------------------
(* What follows.                                                           *)

\* Every reachable state has the declared shape, and there is a streak as soon
\* as there is a row.
THEOREM MicroTyped == Spec => []TypeOK
<1>1. BiteInv => TypeOK
  BY DEF BiteInv
<1> QED
  BY <1>1, BiteAlways, PTL

\* A student completes at most one bite a day: two rows of a day with the same
\* catalogue, neither late, are of the choice of that day, and a bite has one
\* row only.
THEOREM OneBite == Spec => []OneBiteADay
<1>1. BiteInv => OneBiteADay
  BY DEF BiteInv, HistoryInv, OneBiteADay
<1> QED
  BY <1>1, BiteAlways, PTL

LEMMA MaxIs ==
  ASSUME NEW s, NEW m \in s, \A k \in s : m >= k, s \subseteq Nat
  PROVE  Max(s) = m
<1>1. PICK x : x = Max(s)
  OBVIOUS
<1>2. x \in s /\ \A k \in s : x >= k
  BY <1>1 DEF Max
<1>3. x \in Nat /\ m \in Nat /\ x >= m /\ m >= x
  BY <1>2
<1> QED
  BY <1>1, <1>3

\* The stored streak is the number of consecutive days with a completion up to
\* the last one, while no completion was checked before a midnight and
\* committed after it.
THEOREM StreakCounts == Spec => []StreakIsTheRun
<1>1. ASSUME BiteInv PROVE StreakIsTheRun
  <2> SUFFICES ASSUME history # {}, ~\E h \in history : AcrossMidnight(h)
               PROVE  /\ streak.last = Max(Completed)
                      /\ streak.n = Max({k \in 1..streak.last + 1 :
                                           \A i \in 0..k - 1 : streak.last - i \in Completed})
    BY DEF StreakIsTheRun, Completed
  <2> DEFINE runs == {k \in 1..streak.last + 1 :
                        \A i \in 0..k - 1 : streak.last - i \in Completed}
  <2>1. streak.n \in Nat \ {0} /\ streak.last \in Nat
    BY <1>1, Numbers DEF BiteInv, TypeOK, Streaks
  <2>2. RunInv /\ streak.last \in Completed
    BY <1>1 DEF BiteInv, StreakInv
  <2>3. Completed \subseteq Nat
    BY <1>1, Numbers DEF BiteInv, TypeOK, Rows, Completed
  <2>4. \A d \in Completed : streak.last >= d
    BY <2>1, <2>2, <2>3 DEF RunInv, Completed
  <2>5. streak.last = Max(Completed)
    BY <2>2, <2>3, <2>4, MaxIs
  <2>6. streak.n \in runs
    BY <2>1, <2>2 DEF RunInv
  <2>7. ASSUME NEW k \in runs PROVE streak.n >= k
    <3>1. k \in Nat /\ \A i \in 0..k - 1 : streak.last - i \in Completed
      BY <2>1
    <3>2. k > streak.n => streak.n \in 0..k - 1
      BY <2>1, <3>1
    <3> QED
      BY <2>1, <2>2, <3>1, <3>2 DEF RunInv
  <2>8. runs \subseteq Nat
    BY <2>1
  <2>9. streak.n = Max(runs)
    <3> HIDE DEF runs
    <3> QED
      BY <2>6, <2>7, <2>8, MaxIs
  <2> QED
    BY <2>5, <2>9
<1> QED
  BY <1>1, BiteAlways, PTL

\* What the program says of today is what the rows say, but for a row that is
\* of another day for the process, or of another day when it was committed.
THEOREM DoneIsToday == Spec => DoneMeansToday
<1> DEFINE Told == \A w \in Windows :
       FetchToday(w)
         => \/ views'[w].data.done = \E h \in history : h.day = Day(now)
            \/ \E h \in history :
                 (Late(h) /\ h.day + 1 >= Day(now)) \/ AcrossMidnight(h)
<1>1. ASSUME BiteInv, NEW w \in Windows, FetchToday(w)
      PROVE  \/ views'[w].data.done = \E h \in history : h.day = Day(now)
             \/ \E h \in history : (Late(h) /\ h.day + 1 >= Day(now)) \/ AcrossMidnight(h)
  <2>1. views'[w].data.done = (TodayRows # {})
    BY <1>1 DEF FetchToday, GetTodayContent, BiteInv
  <2>2. ASSUME NEW h \in history
        PROVE  /\ h.day \in Nat /\ ProcessDay(h.at) <= Day(h.at) + 1
               /\ ProcessDay(h.at) \in Nat /\ Day(h.at) \in Nat
    <3>1. h.at \in Nat /\ h.day \in Nat /\ h.at <= h.at
      BY <1>1, Numbers, ClockAssumption DEF BiteInv, TypeOK, Rows
    <3> QED
      BY <3>1, Clocks
  <2>3. CASE TodayRows # {}
    <3>1. PICK h \in history : ProcessDay(h.at) = Day(now)
      BY <2>3 DEF TodayRows, Today
    <3>2. h.day = Day(now) \/ Late(h)
      BY <3>1 DEF Late
    <3>3. AcrossMidnight(h) \/ h.day + 1 >= Day(now)
      BY <2>2, <3>1 DEF AcrossMidnight
    <3>4. CASE h.day = Day(now)
      BY <2>1, <2>3, <3>4
    <3>5. CASE Late(h)
      BY <3>3, <3>5
    <3> QED
      BY <3>2, <3>4, <3>5
  <2>4. CASE TodayRows = {}
    <3>1. ASSUME NEW h \in history, h.day = Day(now)
          PROVE  Late(h) /\ h.day + 1 >= Day(now)
      <4>1. ProcessDay(h.at) # Day(now)
        BY <2>4 DEF TodayRows, Today
      <4> QED
        BY <2>2, <3>1, <4>1 DEF Late
    <3> QED
      BY <2>1, <2>4, <3>1
  <2> QED
    BY <2>3, <2>4
<1>2. BiteInv /\ [Next]_vars => [Told]_vars
  BY <1>1
<1> QED
  BY <1>2, BiteAlways, PTL DEF Spec, DoneMeansToday

\* The streak a completion writes when the page was of today, true, and there
\* was a bite left to see.
LEMMA Promised ==
  ASSUME BiteInv, NEW r, RequestInv(r), r.stage \in {"sent", "checked"}, Writes(r),
         NEW q, q = Served(r), q.stage \in {"ok", "refused"},
         r.shown.day = Day(now), r.shown.catalog = catalog,
         r.shown.rows = Cardinality(history),
         ~\E h \in history : h.day = Day(now), ~(1..catalog \subseteq Seen)
  PROVE  streak' # None /\ streak'.n = r.shown.streak + 1
<1>0. TypeOK /\ HistoryInv
  BY DEF BiteInv
<1>1. /\ r.shown.content = Assigned /\ r.shown.streak = StreakShown
      /\ TodayRows = {}
  BY DEF RequestInv, ReplyInv
<1>2. Assigned = ChosenOn(Day(now), catalog, Seen)
  BY <1>0, <1>1, AssignedForm
<1>3. r.shown.content \notin Seen
  BY <1>0, <1>1, <1>2, Numbers, ChosenFits
<1>4. r.stage = "checked"
  <2> SUFFICES ASSUME r.stage = "sent" PROVE FALSE
    OBVIOUS
  <2>1. q = Checked(r)
    BY DEF Served
  <2>2. r \in Requests
    BY DEF RequestInv
  <2>3. q.stage = "checked"
    BY <1>1, <1>3, <2>1, <2>2 DEF Checked, Requests
  <2> QED
    BY <2>3
<1>5. streak' = Advanced(r.day)
  BY <1>3, <1>4 DEF Writes
<1>6. r.day = Day(now)
  <2>1. r.day \in Days /\ r.shown.day <= r.day /\ r.day <= Day(now)
    BY <1>4 DEF RequestInv
  <2> QED
    BY <1>0, <2>1, Numbers
<1>7. streak' # None
  BY <1>0, <1>5, <1>6, Numbers, StreakTyped, NoneAssumption
<1>8. CASE streak = None
  <2>1. streak' = [n |-> 1, last |-> r.day]
    BY <1>5, <1>8 DEF Advanced
  <2>2. r.shown.streak = 0
    BY <1>1, <1>8 DEF StreakShown
  <2> QED
    BY <1>7, <2>1, <2>2
<1>9. CASE streak # None
  <2>1. streak.n \in Nat /\ streak.last \in Nat /\ history # {}
    BY <1>0, <1>9, Numbers DEF TypeOK, Streaks
  <2>2. PICK h \in history : h.day = streak.last
    BY <2>1 DEF BiteInv, StreakInv, Completed
  <2>3. streak.last <= Day(now) /\ streak.last # Day(now)
    <3>1. h.at \in Nat /\ h.at <= now /\ h.day <= Day(h.at) /\ h.day \in Nat
      BY <1>0, Numbers, ClockAssumption DEF HistoryInv, TypeOK, Rows
    <3>2. Day(h.at) <= Day(now) /\ Day(h.at) \in Nat
      BY <1>0, <3>1, Numbers, Clocks
    <3> QED
      BY <1>0, <2>2, <3>1, <3>2, Numbers
  <2>4. r.shown.streak = IF streak.last + 1 < Day(now) THEN 0 ELSE streak.n
    BY <1>1, <1>9 DEF StreakShown
  <2>5. streak'.n = IF streak.last + 1 = Day(now) THEN streak.n + 1 ELSE 1
    BY <1>5, <1>6, <1>9, <2>3 DEF Advanced
  <2> QED
    BY <1>0, <1>7, <2>1, <2>3, <2>4, <2>5, Numbers
<1> QED
  BY <1>7, <1>8, <1>9

\* Only the server answers a completion that a window waits for.
LEMMA AnsweredByServer ==
  ASSUME BiteInv, [Next]_vars, NEW w \in Windows,
         views[w].req # None, views[w].req.stage \in {"sent", "checked"},
         views'[w].req # None, views'[w].req.stage \in {"ok", "refused"}
  PROVE  ServeHeard(w)
<1>1. views'[w].req # views[w].req /\ views'[w] # views[w]
  OBVIOUS
<1>2. views \in [Windows -> Views]
  BY DEF BiteInv
<1>3. ASSUME NEW x \in Windows,
             \/ FetchToday(x) \/ TodayFails(x)
             \/ HandleComplete(x) \/ CompletionEnds(x) \/ CompletionGivenUp(x)
      PROVE  FALSE
  <2>1. CASE FetchToday(x) \/ TodayFails(x)
    <3>1. PICK y : views' = [views EXCEPT ![x].data = y]
      BY <2>1 DEF FetchToday, TodayFails
    <3>2. views'[w].req = views[w].req
      BY <1>2, <3>1 DEF Views
    <3> QED
      BY <1>1, <3>2
  <2>2. CASE HandleComplete(x) \/ CompletionEnds(x) \/ CompletionGivenUp(x)
    <3>1. x = w
      BY <1>1, <1>2, <2>2 DEF HandleComplete, CompletionEnds, CompletionGivenUp
    <3>2. ~HandleComplete(x)
      BY <3>1 DEF HandleComplete
    <3>3. views' = [views EXCEPT ![w].req = None]
      BY <2>2, <3>1, <3>2 DEF CompletionEnds, CompletionGivenUp
    <3>4. views'[w].req = None
      BY <1>2, <3>3 DEF Views
    <3> QED
      BY <3>4
  <2> QED
    BY <1>3, <2>1, <2>2
<1>4. ASSUME NEW x \in Windows, ServeHeard(x) PROVE x = w
  BY <1>1, <1>2, <1>4 DEF ServeHeard
<1>5. (\E r \in orphans : ServeOrphan(r)) \/ CreateContent \/ Tick \/ UNCHANGED vars => views' = views
  BY DEF ServeOrphan, CreateContent, Tick, vars
<1> QED
  BY <1>1, <1>3, <1>4, <1>5 DEF Next

\* The button keeps its promise whatever the other windows and the late
\* requests do: a page that is still true names the bite the server would
\* assign, which nobody has completed, so the check passes and the row is
\* written.
THEOREM ButtonKeepsPromise == Spec => PromiseKept
<1> DEFINE Kept == \A w \in Windows :
       LET r == views[w].req
           q == views'[w].req
       IN (r # None /\ r.stage \in {"sent", "checked"} /\ q # None /\ q.stage \in {"ok", "refused"})
            => \/ streak' # None /\ streak'.n = r.shown.streak + 1
               \/ r.shown.day # Day(now) \/ r.shown.catalog # catalog
               \/ r.shown.rows # Cardinality(history)
               \/ \E h \in history : h.day = Day(now)
               \/ 1..catalog \subseteq Seen
<1>1. ASSUME BiteInv, [Next]_vars, NEW w \in Windows,
             views[w].req # None, views[w].req.stage \in {"sent", "checked"},
             views'[w].req # None, views'[w].req.stage \in {"ok", "refused"}
      PROVE  \/ streak' # None /\ streak'.n = views[w].req.shown.streak + 1
             \/ views[w].req.shown.day # Day(now) \/ views[w].req.shown.catalog # catalog
             \/ views[w].req.shown.rows # Cardinality(history)
             \/ \E h \in history : h.day = Day(now)
             \/ 1..catalog \subseteq Seen
  <2>1. ServeHeard(w)
    BY <1>1, AnsweredByServer
  <2>2. PICK r, q : r = views[w].req /\ q = Served(r)
    OBVIOUS
  <2>3. RequestInv(r) /\ r.stage \in {"sent", "checked"} /\ Writes(r)
    BY <1>1, <2>1, <2>2, AtWindow DEF ServeHeard
  <2>4. views'[w].req = q
    BY <1>1, <2>1, <2>2 DEF ServeHeard, BiteInv, Views
  <2>5. q.stage \in {"ok", "refused"}
    BY <1>1, <2>4
  <2> QED
    BY <1>1, <2>2, <2>3, <2>5, Promised
<1>2. BiteInv /\ [Next]_vars => [Kept]_vars
  BY <1>1
<1> QED
  BY <1>2, BiteAlways, PTL DEF Spec, PromiseKept

-----------------------------------------------------------------------------
(* A process whose clock shows the student's time.                         *)

\* No completion was checked before a midnight and committed after it, and those
\* of one day were checked against the same catalogue.
Undisturbed ==
  /\ \A h \in history : ~AcrossMidnight(h)
  /\ \A g, h \in history : g.day = h.day => g.catalog = h.catalog

\* What the program promises of a day, without exceptions.
OneBiteOnly == \A g, h \in history : g.day = h.day => g = h

DoneIfDone ==
  [][\A w \in Windows :
       FetchToday(w) => views'[w].data.done = \E h \in history : h.day = Day(now)]_vars

LEMMA NeverLate ==
  ASSUME Ahead = 0, BiteInv, Undisturbed, NEW h \in history
  PROVE  ~Late(h) /\ ~AcrossMidnight(h)
<1>1. h.at \in Nat
  BY Numbers DEF BiteInv, TypeOK, Rows
<1>2. ProcessDay(h.at) = Day(h.at)
  BY <1>1 DEF ProcessDay, Day
<1> QED
  BY <1>2 DEF Undisturbed, Late, AcrossMidnight

\* A process that runs in APP_TZ has one "today", and then a day has one bite and
\* shows as done exactly when it has it, from any number of windows and late
\* requests: of the exceptions of OneBiteADay and DoneMeansToday, those of the two
\* clocks come from the process's time zone alone.
THEOREM OneClock ==
  ASSUME Ahead = 0
  PROVE  Spec /\ []Undisturbed => []OneBiteOnly /\ DoneIfDone
<1> DEFINE Told == \A w \in Windows :
       FetchToday(w)
         => \/ views'[w].data.done = \E h \in history : h.day = Day(now)
            \/ \E h \in history :
                 (Late(h) /\ h.day + 1 >= Day(now)) \/ AcrossMidnight(h)
           Exact == \A w \in Windows :
       FetchToday(w) => views'[w].data.done = \E h \in history : h.day = Day(now)
<1>1. BiteInv /\ Undisturbed /\ OneBiteADay => OneBiteOnly
  BY NeverLate DEF OneBiteADay, OneBiteOnly, Undisturbed
<1>2. BiteInv /\ Undisturbed /\ [Told]_vars => [Exact]_vars
  BY NeverLate
<1> QED
  BY <1>1, <1>2, BiteAlways, OneBite, DoneIsToday, PTL DEF DoneMeansToday, DoneIfDone
=============================================================================
