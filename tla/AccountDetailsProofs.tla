------------------------ MODULE AccountDetailsProofs ------------------------
(***************************************************************************)
(* Proofs about the name, photo and colour that the tabs of Account show,  *)
(* for any tabs and students, any number of requests and of steps.         *)
(*                                                                         *)
(* OwnInv: some student is the only one in the browser, and whatever is    *)
(* still heard about a profile was asked for with a token of his.          *)
(* ShownInv: for a field nobody doubts, in a header or a page that is      *)
(* open, every answer that has come is what is stored, a save is alone,    *)
(* and what is shown is stored or will be brought by a request under way.  *)
(***************************************************************************)
EXTENDS AccountProofs

-----------------------------------------------------------------------------
(* What a tab shows is its student's own.                                  *)

\* A session of s, with nobody else's details.
Theirs(session, s) ==
  Owner(session.tok) = s /\ \A f \in Fields : session.of[f] # None => Owner(session.of[f]) = s

\* Student s is the only one in the browser, and what a tab still hears about
\* a profile was asked for with a token of his.
OwnBy(s) ==
  /\ \A t \in Tabs : tabs[t].user # None => Theirs(tabs[t].user, s)
  /\ held.tok # None => Theirs(held, s)
  /\ \A c \in calls : c.heard # "nobody" /\ c.op \in Shows =>
       tabs[c.tab].user # None /\ (c.tok # None => Owner(c.tok) = s)

OwnInv == mixed \/ \E s \in Students \cup {None} : OwnBy(s)

\* Whoever hears an answer about the profile is on a page of a student.
LEMMA HeardByUser ==
  ASSUME TypeInv, NEW c \in calls, c.heard # "nobody"
  PROVE  /\ c \in CallTypes /\ Known(c) /\ c.tab \in Tabs /\ tabs[c.tab] \in TabTypes
         /\ Placed(c, tabs[c.tab].at)
         /\ c.op \in {"me", "profile"} \/ (c.op \in Saves /\ c.heard = "page") => tabs[c.tab].user # None
<1>1. c \in CallTypes /\ Known(c) /\ c.tab \in Tabs /\ Placed(c, tabs[c.tab].at)
  BY TypeParts DEF TabsTyped, PlacedInv, Known, CallTypes
<1>2. tabs[c.tab] \in TabTypes /\ Routed(tabs[c.tab]) = tabs[c.tab]
  BY <1>1, TypeParts DEF TabsTyped
<1>3. tabs[c.tab].at \in Campus => tabs[c.tab].user # None
  BY <1>2, RoutedSame DEF RoutedAt
<1> QED
  BY <1>1, <1>2, <1>3 DEF Placed, Campus

LEMMA HeardByUserNext ==
  ASSUME TypeInv', NEW c \in calls', c.heard # "nobody"
  PROVE  /\ c \in CallTypes /\ Known(c) /\ c.tab \in Tabs /\ tabs'[c.tab] \in TabTypes
         /\ Placed(c, tabs'[c.tab].at)
         /\ c.op \in {"me", "profile"} \/ (c.op \in Saves /\ c.heard = "page") => tabs'[c.tab].user # None
<1>1. c \in CallTypes /\ Known(c) /\ c.tab \in Tabs /\ Placed(c, tabs'[c.tab].at)
  BY TypeParts DEF TabsTyped, PlacedInv, Known, CallTypes
<1>2. tabs'[c.tab] \in TabTypes /\ Routed(tabs'[c.tab]) = tabs'[c.tab]
  BY <1>1, TypeParts DEF TabsTyped
<1>3. tabs'[c.tab].at \in Campus => tabs'[c.tab].user # None
  BY <1>2, RoutedSame DEF RoutedAt
<1> QED
  BY <1>1, <1>2, <1>3 DEF Placed, Campus

LEMMA OwnMove ==
  ASSUME TypeInv, TypeInv', NEW t \in Tabs, NEW old, NEW new \in TabTypes, NEW h \in Stored,
         NEW cs \in SUBSET CallTypes, NEW ds, Becomes(t, old, new, h, cs, ds),
         NEW s \in Students \cup {None},
         \A u \in Tabs : u # t /\ tabs[u].user # None => Theirs(tabs[u].user, s),
         new.user # None => Theirs(new.user, s),
         h.tok # None => Theirs(h, s),
         \A c \in cs : c.heard # "nobody" /\ c.op \in Shows =>
           /\ c.tok # None => Owner(c.tok) = s
           /\ c.op \in Saves => IF c.tab = t THEN new.user # None ELSE tabs[c.tab].user # None
  PROVE  OwnInv'
<1>0. TabsTyped
  BY TypeParts
<1>1. tabs'[t].user = new.user /\ \A u \in Tabs : u # t => tabs'[u] = tabs[u]
  BY <1>0, MoveTabs
<1>2. held' = h
  BY DEF Becomes
<1>3. \A u \in Tabs : tabs'[u].user # None => Theirs(tabs'[u].user, s)
  BY <1>1
<1>4. ASSUME NEW k \in calls', k.heard # "nobody", k.op \in Shows
      PROVE  tabs'[k.tab].user # None /\ (k.tok # None => Owner(k.tok) = s)
  <2>1. Fresh(k, t, h.tok) \/ \E c \in cs : Follows(k, c)
    BY MoveCalls
  <2>2. k.tok # None => Owner(k.tok) = s
    BY <1>4, <2>1 DEF Fresh, Follows, Theirs
  <2>3. CASE k.op \in Saves
    <3>1. PICK c \in cs : Follows(k, c)
      BY <2>1, <2>3 DEF Fresh, Saves
    <3>2. IF k.tab = t THEN new.user # None ELSE tabs[k.tab].user # None
      BY <1>4, <2>3, <3>1 DEF Follows
    <3>3. k.tab \in Tabs
      BY <1>4, HeardByUserNext
    <3> QED
      BY <1>1, <2>2, <3>2, <3>3
  <2>4. CASE k.op \notin Saves
    <3>1. k.op \in {"me", "profile"}
      BY <1>4, <2>4 DEF Shows
    <3> QED
      BY <1>4, <2>2, <3>1, HeardByUserNext
  <2> QED
    BY <2>3, <2>4
<1>5. OwnBy(s)'
  BY <1>2, <1>3, <1>4 DEF OwnBy
<1> QED
  BY <1>5 DEF OwnInv

\* What is sent, with the token of the storage, by the page.
LEMMA OwnSend ==
  ASSUME TypeInv', OwnInv, held' = held, mixed' = mixed,
         \A u \in Tabs : tabs'[u].user = tabs[u].user,
         \A k \in calls' : \/ \E c \in calls : k.op = c.op /\ k.tab = c.tab /\ k.heard = c.heard /\ k.tok = c.tok
                           \/ k.tok = held.tok /\ k.heard = "page"
  PROVE  OwnInv'
<1>1. CASE mixed
  BY <1>1 DEF OwnInv
<1>2. ASSUME NEW s \in Students \cup {None}, OwnBy(s)
      PROVE  OwnInv'
  <2>1. ASSUME NEW k \in calls', k.heard # "nobody", k.op \in Shows
        PROVE  tabs'[k.tab].user # None /\ (k.tok # None => Owner(k.tok) = s)
    <3>1. k.tab \in Tabs
      BY <2>1, HeardByUserNext
    <3>2. CASE \E c \in calls : k.op = c.op /\ k.tab = c.tab /\ k.heard = c.heard /\ k.tok = c.tok
      BY <1>2, <2>1, <3>1, <3>2 DEF OwnBy
    <3>3. CASE k.tok = held.tok /\ k.heard = "page"
      <4>1. k.tok # None => Owner(k.tok) = s
        BY <1>2, <3>3 DEF OwnBy, Theirs
      <4>2. tabs'[k.tab].user # None
        BY <2>1, <3>3, HeardByUserNext DEF Shows
      <4> QED
        BY <4>1, <4>2
    <3> QED
      BY <3>2, <3>3
  <2>2. OwnBy(s)'
    BY <1>2, <2>1 DEF OwnBy
  <2> QED
    BY <2>2 DEF OwnInv
<1> QED
  BY <1>1, <1>2 DEF OwnInv

LEMMA OwnLoad ==
  ASSUME TypeInv, TypeInv', OwnInv, NEW t \in Tabs, NEW p \in Places, LoadPage(t, p)
  PROVE  OwnInv'
<1>0. held \in Stored
  BY TypeParts DEF TabsTyped
<1>1. mixed' = mixed
  BY DEF LoadPage
<1>2. PICK old : \E new \in TabTypes, cs \in SUBSET CallTypes :
           /\ Becomes(t, old, new, held, cs, {})
           /\ new.user = ReadStudent
           /\ \A c \in cs : \/ c \in calls /\ c.tab # t
                            \/ \E d \in calls : d.tab = t /\ Forgotten(c, d)
                            \/ c \in Probe(t, held.tok)
           /\ \A c \in Probe(t, held.tok) : c.op = "probe"
  BY LoadMeans
<1>3. PICK new \in TabTypes, cs \in SUBSET CallTypes :
           /\ Becomes(t, old, new, held, cs, {})
           /\ new.user = ReadStudent
           /\ \A c \in cs : \/ c \in calls /\ c.tab # t
                            \/ \E d \in calls : d.tab = t /\ Forgotten(c, d)
                            \/ c \in Probe(t, held.tok)
           /\ \A c \in Probe(t, held.tok) : c.op = "probe"
  BY <1>2
<1>4. ASSUME NEW s \in Students \cup {None}, OwnBy(s)
      PROVE  OwnInv'
  <2>1. new.user # None => Theirs(new.user, s)
    BY <1>3, <1>4 DEF ReadStudent, OwnBy
  <2>2. ASSUME NEW c \in cs, c.heard # "nobody", c.op \in Shows
        PROVE  /\ c.tok # None => Owner(c.tok) = s
               /\ c.op \in Saves => IF c.tab = t THEN new.user # None ELSE tabs[c.tab].user # None
    <3>1. c \in calls /\ c.tab # t
      BY <1>3, <2>2 DEF Forgotten, Shows, Saves
    <3> QED
      BY <1>4, <2>2, <3>1 DEF OwnBy
  <2>3. /\ \A u \in Tabs : u # t /\ tabs[u].user # None => Theirs(tabs[u].user, s)
        /\ held.tok # None => Theirs(held, s)
    BY <1>4 DEF OwnBy
  <2>4. \A c \in cs : c.heard # "nobody" /\ c.op \in Shows =>
          /\ c.tok # None => Owner(c.tok) = s
          /\ c.op \in Saves => IF c.tab = t THEN new.user # None ELSE tabs[c.tab].user # None
    BY <2>2
  <2>5. Becomes(t, old, new, held, cs, {})
    BY <1>3
  <2> QED
    BY <1>0, <2>1, <2>3, <2>4, <2>5, OwnMove, SMTT(60)
<1> QED
  BY <1>1, <1>4 DEF OwnInv

LEMMA OwnGoes ==
  ASSUME TypeInv, TypeInv', OwnInv, NEW t \in Tabs, NEW p \in Places, Goes(t, p)
  PROVE  OwnInv'
<1>0. held \in Stored /\ calls \in SUBSET CallTypes
  BY TypeParts DEF TabsTyped
<1>1. PICK new \in TabTypes : Becomes(t, tabs[t], new, held, calls, doubt[t]) /\ new.user = tabs[t].user
  BY GoesMeans
<1>2. mixed' = mixed
  BY DEF Goes
<1>3. ASSUME NEW s \in Students \cup {None}, OwnBy(s)
      PROVE  OwnInv'
  <2>1. new.user # None => Theirs(new.user, s)
    BY <1>1, <1>3 DEF OwnBy
  <2>2. ASSUME NEW c \in calls, c.heard # "nobody", c.op \in Shows
        PROVE  /\ c.tok # None => Owner(c.tok) = s
               /\ c.op \in Saves => IF c.tab = t THEN new.user # None ELSE tabs[c.tab].user # None
    BY <1>1, <1>3, <2>2 DEF OwnBy
  <2>3. /\ \A u \in Tabs : u # t /\ tabs[u].user # None => Theirs(tabs[u].user, s)
        /\ held.tok # None => Theirs(held, s)
    BY <1>3 DEF OwnBy
  <2>4. \A c \in calls : c.heard # "nobody" /\ c.op \in Shows =>
          /\ c.tok # None => Owner(c.tok) = s
          /\ c.op \in Saves => IF c.tab = t THEN new.user # None ELSE tabs[c.tab].user # None
    BY <2>2
  <2>5. Becomes(t, tabs[t], new, held, calls, doubt[t])
    BY <1>1
  <2> QED
    BY <1>0, <2>1, <2>3, <2>4, <2>5, OwnMove
<1> QED
  BY <1>2, <1>3 DEF OwnInv

\* Signing out with no save under way.
LEMMA OwnLogout ==
  ASSUME TypeInv, TypeInv', OwnInv, NEW t \in Tabs, LogoutStudent(t)
  PROVE  OwnInv'
<1>0. calls \in SUBSET CallTypes /\ NoSession \in Stored /\ NoSession.tok = None
  BY TypeParts, StoredFacts DEF TabsTyped
<1>1. PICK new \in TabTypes : Becomes(t, tabs[t], new, NoSession, calls, doubt[t]) /\ new.user = None
  BY LogoutMeans
<1>2. mixed' = (mixed \/ Underway(t, Saves))
  BY DEF LogoutStudent
<1>3. ASSUME NEW s \in Students \cup {None}, OwnBy(s), ~Underway(t, Saves)
      PROVE  OwnInv'
  <2>1. new.user # None => Theirs(new.user, s)
    BY <1>1
  <2>2. ASSUME NEW c \in calls, c.heard # "nobody", c.op \in Shows
        PROVE  /\ c.tok # None => Owner(c.tok) = s
               /\ c.op \in Saves => IF c.tab = t THEN new.user # None ELSE tabs[c.tab].user # None
    BY <1>3, <2>2 DEF OwnBy, Underway
  <2>3. /\ \A u \in Tabs : u # t /\ tabs[u].user # None => Theirs(tabs[u].user, s)
        /\ NoSession.tok # None => Theirs(NoSession, s)
    BY <1>0, <1>3 DEF OwnBy
  <2> QED
    BY <1>0, <1>1, <2>1, <2>2, <2>3, OwnMove
<1> QED
  BY <1>2, <1>3 DEF OwnInv

\* Signing in where no other tab shows another student.
LEMMA OwnLoggedIn ==
  ASSUME TypeInv, TypeInv', OwnInv, NEW c \in calls, LoggedIn(c)
  PROVE  OwnInv'
<1>0. calls \ {c} \in SUBSET CallTypes /\ TabsTyped
  BY TypeParts DEF TabsTyped
<1>1. /\ c.tab \in Tabs /\ c.who \in Students /\ tabs[c.tab].at = "login"
      /\ \E t \in Tabs, new \in TabTypes, session \in Sessions :
              /\ t = c.tab /\ Becomes(t, tabs[t], new, session, calls \ {c}, {})
              /\ new.user = session /\ Owner(session.tok) = c.who
              /\ \A f \in Fields : session.of[f] # None => Owner(session.of[f]) = c.who
  BY LoggedInMeans
<1>2. PICK t \in Tabs, new \in TabTypes, session \in Sessions :
              /\ t = c.tab /\ Becomes(t, tabs[t], new, session, calls \ {c}, {})
              /\ new.user = session /\ Owner(session.tok) = c.who
              /\ \A f \in Fields : session.of[f] # None => Owner(session.of[f]) = c.who
  BY <1>1
<1>3. mixed' = (mixed \/ \E u \in Tabs \ {t} : tabs[u].user # None /\ Owner(tabs[u].user.tok) # c.who)
  BY <1>2 DEF LoggedIn
<1>4. ASSUME NEW s \in Students \cup {None}, OwnBy(s),
             \A u \in Tabs \ {t} : tabs[u].user # None => Owner(tabs[u].user.tok) = c.who
      PROVE  OwnInv'
  <2>1. PICK who \in Students \cup {None} : who = c.who
    BY <1>1
  <2>2. Theirs(session, who) /\ session \in Stored
    BY <1>2, <2>1, StoredFacts DEF Theirs
  <2>3. ASSUME NEW u \in Tabs, u # t, tabs[u].user # None
        PROVE  s = who /\ Theirs(tabs[u].user, s)
    BY <1>4, <2>1, <2>3 DEF OwnBy, Theirs
  <2>4. ASSUME NEW d \in calls \ {c}, d.heard # "nobody", d.op \in Shows
        PROVE  /\ d.tok # None => Owner(d.tok) = who
               /\ d.op \in Saves => IF d.tab = t THEN new.user # None ELSE tabs[d.tab].user # None
    <3>1. tabs[d.tab].user # None /\ (d.tok # None => Owner(d.tok) = s)
      BY <1>4, <2>4 DEF OwnBy
    <3>2. d.tab \in Tabs
      BY <2>4, HeardByUser
    <3>3. tabs[t].user = None
      <4>1. tabs[t] \in TabTypes /\ Routed(tabs[t]) = tabs[t] /\ tabs[t].at = "login"
        BY <1>0, <1>1, <1>2 DEF TabsTyped
      <4> QED
        BY <4>1, RoutedSame DEF RoutedAt
    <3>4. d.tab # t
      BY <3>1, <3>3
    <3> QED
      BY <2>3, <3>1, <3>2, <3>4
  <2>5. \A u \in Tabs : u # t /\ tabs[u].user # None => Theirs(tabs[u].user, who)
    BY <2>3
  <2> QED
    BY <1>0, <1>2, <2>1, <2>2, <2>4, <2>5, OwnMove
<1> QED
  BY <1>3, <1>4 DEF OwnInv

LEMMA OwnAnswers ==
  ASSUME TypeInv, TypeInv', OwnInv, NEW c \in calls, Answers(c)
  PROVE  OwnInv'
<1>0. held \in Stored /\ calls \ {c} \in SUBSET CallTypes
  BY TypeParts DEF TabsTyped
<1>1. /\ c.tab # None /\ c.stage = "ok" /\ c.heard # "nobody"
      /\ InHeader(c.op) \in SUBSET Fields /\ (InHeader(c.op) = {} \/ c.got \in Details)
      /\ InHeader(c.op) # {} => c.op \in Shows
      /\ \E shown \in TabTypes : Shown(c, shown, tabs[c.tab])
  BY AnswersMean
<1>2. PICK shown \in TabTypes : Shown(c, shown, tabs[c.tab])
  BY <1>1
<1>3. shown.at = tabs[c.tab].at /\ shown.user = tabs[c.tab].user /\ Updates(c, shown, InHeader(c.op))
  BY <1>2 DEF Shown
<1>4. PICK t \in Tabs, new \in TabTypes, h \in Stored :
           /\ t = c.tab /\ Becomes(t, tabs[t], new, h, calls \ {c}, doubt[t])
           /\ (new.user = None) <=> (tabs[t].user = None)
           /\ tabs[t].user = None => h = held
           /\ tabs[t].user # None =>
                /\ new.user.tok = tabs[t].user.tok
                /\ \A f \in Fields : new.user.of[f] = IF f \in InHeader(c.op) THEN c.got[f] ELSE tabs[t].user.of[f]
                /\ h.tok = held.tok
                /\ \A f \in Fields : h.of[f] = IF f \in InHeader(c.op) THEN c.got[f] ELSE held.of[f]
  BY <1>1, <1>3, UpdatesMeans
<1>5. mixed' = mixed
  BY <1>3 DEF Updates
<1>6. ASSUME NEW s \in Students \cup {None}, OwnBy(s)
      PROVE  OwnInv'
  <2>1. ASSUME NEW f \in Fields, f \in InHeader(c.op)
        PROVE  Owner(c.got[f]) = s
    <3>1. c.op \in Shows
      BY <1>1, <2>1
    <3>2. c.tok \in Tokens /\ c.got \in Of(Owner(c.tok))
      BY <1>1, <3>1, GotFacts
    <3>3. Owner(c.tok) \in Students /\ c.tok # None
      BY <3>2, TokenFacts
    <3>4. Owner(c.got[f]) = Owner(c.tok)
      BY <3>2, <3>3, OfFacts
    <3>5. Owner(c.tok) = s
      BY <1>1, <1>6, <3>1, <3>3 DEF OwnBy
    <3> QED
      BY <3>4, <3>5
  <2>2. new.user # None => Theirs(new.user, s)
    BY <1>4, <1>6, <2>1 DEF OwnBy, Theirs
  <2>3. h.tok # None => Theirs(h, s)
    BY <1>4, <1>6, <2>1 DEF OwnBy, Theirs
  <2>4. ASSUME NEW d \in calls \ {c}, d.heard # "nobody", d.op \in Shows
        PROVE  /\ d.tok # None => Owner(d.tok) = s
               /\ d.op \in Saves => IF d.tab = t THEN new.user # None ELSE tabs[d.tab].user # None
    BY <1>4, <1>6, <2>4 DEF OwnBy
  <2>5. \A u \in Tabs : u # t /\ tabs[u].user # None => Theirs(tabs[u].user, s)
    BY <1>6 DEF OwnBy
  <2>6. \A d \in calls \ {c} : d.heard # "nobody" /\ d.op \in Shows =>
          /\ d.tok # None => Owner(d.tok) = s
          /\ d.op \in Saves => IF d.tab = t THEN new.user # None ELSE tabs[d.tab].user # None
    BY <2>4
  <2>7. Becomes(t, tabs[t], new, h, calls \ {c}, doubt[t])
    BY <1>4
  <2> QED
    BY <1>0, <2>2, <2>3, <2>5, <2>6, <2>7, OwnMove
<1> QED
  BY <1>5, <1>6 DEF OwnInv

LEMMA OwnUnauthorized ==
  ASSUME TypeInv, TypeInv', OwnInv, NEW c \in calls, Unauthorized(c)
  PROVE  OwnInv'
<1>0. calls \ {c} \in SUBSET CallTypes
  BY TypeParts DEF TabsTyped
<1>1. PICK t \in Tabs, new \in TabTypes, h \in Stored :
           /\ t = c.tab /\ Becomes(t, tabs[t], new, h, calls \ {c}, doubt[t] \cup DoubtOf(c))
           /\ Failing(new, tabs[t], c)
           /\ h = held \/ (h = NoSession /\ EndsSession(t, c))
  BY UnauthorizedMeans
<1>2. mixed' = mixed
  BY DEF Unauthorized
<1>3. ASSUME NEW s \in Students \cup {None}, OwnBy(s)
      PROVE  OwnInv'
  <2>1. new.user # None => Theirs(new.user, s)
    BY <1>1, <1>3 DEF OwnBy, Failing
  <2>2. ASSUME NEW d \in calls \ {c}, d.heard # "nobody", d.op \in Shows
        PROVE  /\ d.tok # None => Owner(d.tok) = s
               /\ d.op \in Saves => IF d.tab = t THEN new.user # None ELSE tabs[d.tab].user # None
    BY <1>1, <1>3, <2>2 DEF OwnBy, Failing
  <2>3. /\ \A u \in Tabs : u # t /\ tabs[u].user # None => Theirs(tabs[u].user, s)
        /\ h.tok # None => Theirs(h, s)
    BY <1>1, <1>3, StoredFacts DEF OwnBy
  <2> QED
    BY <1>0, <1>1, <2>1, <2>2, <2>3, OwnMove
<1> QED
  BY <1>2, <1>3 DEF OwnInv

LEMMA OwnFails ==
  ASSUME TypeInv, TypeInv', OwnInv, NEW c \in calls, Fails(c)
  PROVE  OwnInv'
<1>0. held \in Stored /\ calls \in SUBSET CallTypes
  BY TypeParts DEF TabsTyped
<1>1. PICK t \in Tabs, new \in TabTypes, left \in SUBSET CallTypes :
           /\ t = c.tab
           /\ Becomes(t, tabs[t], new, held, (calls \ {c}) \cup left, doubt[t] \cup DoubtOf(c))
           /\ Failing(new, tabs[t], c)
           /\ \A d \in left : Forgotten(d, c)
  BY FailsMeans
<1>2. mixed' = mixed
  BY DEF Fails
<1>3. PICK cs : cs = (calls \ {c}) \cup left
  OBVIOUS
<1>4. ASSUME NEW s \in Students \cup {None}, OwnBy(s)
      PROVE  OwnInv'
  <2>1. new.user # None => Theirs(new.user, s)
    BY <1>1, <1>4 DEF OwnBy, Failing
  <2>2. ASSUME NEW d \in cs, d.heard # "nobody", d.op \in Shows
        PROVE  /\ d.tok # None => Owner(d.tok) = s
               /\ d.op \in Saves => IF d.tab = t THEN new.user # None ELSE tabs[d.tab].user # None
    <3>1. d \in calls
      BY <1>1, <1>3, <2>2 DEF Forgotten
    <3> QED
      BY <1>1, <1>4, <2>2, <3>1 DEF OwnBy, Failing
  <2>3. /\ \A u \in Tabs : u # t /\ tabs[u].user # None => Theirs(tabs[u].user, s)
        /\ held.tok # None => Theirs(held, s)
    BY <1>4 DEF OwnBy
  <2>4. cs \in SUBSET CallTypes
    BY <1>0, <1>1, <1>3
  <2> QED
    BY <1>0, <1>1, <1>3, <2>1, <2>2, <2>3, <2>4, OwnMove
<1> QED
  BY <1>2, <1>4 DEF OwnInv

LEMMA OwnSends ==
  ASSUME TypeInv, TypeInv', OwnInv, NEW t \in Tabs,
         \/ OpenCourse(t) \/ (\E s \in Students : SubmitLogin(t, s))
         \/ LoginAdmin(t) \/ LogoutAdmin(t) \/ AdminWork(t)
         \/ SubmitName(t) \/ SubmitAvatar(t) \/ RemoveAvatar(t) \/ SaveColor(t)
         \/ \E right \in {0, 1} : SubmitPassword(t, right)
  PROVE  OwnInv'
<1>1. /\ mixed' = mixed /\ held' = held /\ \A u \in Tabs : tabs'[u].user = tabs[u].user
      /\ \E op, who, val : calls' = calls \cup {Request(t, op, held.tok, who, val)}
  <2>1. CASE \/ OpenCourse(t) \/ (\E s \in Students : SubmitLogin(t, s))
             \/ LoginAdmin(t) \/ LogoutAdmin(t) \/ AdminWork(t)
    <3>1. UNCHANGED <<held, tabs, mixed>>
      BY <2>1 DEF OpenCourse, SubmitLogin, LoginAdmin, LogoutAdmin, AdminWork, AdminCall
    <3>2. \E op, who : calls' = calls \cup {Request(t, op, held.tok, who, 0)}
      BY <2>1 DEF OpenCourse, SubmitLogin, LoginAdmin, LogoutAdmin, AdminWork, AdminCall, Send
    <3> QED
      BY <3>1, <3>2
  <2>2. CASE \/ SubmitName(t) \/ SubmitAvatar(t) \/ RemoveAvatar(t) \/ SaveColor(t)
             \/ \E right \in {0, 1} : SubmitPassword(t, right)
    <3>1. PICK op, val, prof : Save(t, op, val, prof)
      BY <2>2 DEF SubmitName, SubmitAvatar, RemoveAvatar, SaveColor, SubmitPassword
    <3>2. /\ mixed' = mixed /\ calls' = calls \cup {Request(t, op, held.tok, None, val)}
      BY <3>1 DEF Save
    <3>3. held' = held /\ \A u \in Tabs : tabs'[u].user = tabs[u].user
      BY <3>1, SaveMeans
    <3> QED
      BY <3>2, <3>3
  <2> QED
    BY <2>1, <2>2
<1>2. PICK op, who, val : calls' = calls \cup {Request(t, op, held.tok, who, val)}
  BY <1>1
<1>3. ASSUME NEW k \in calls'
      PROVE  \/ \E c \in calls : k.op = c.op /\ k.tab = c.tab /\ k.heard = c.heard /\ k.tok = c.tok
             \/ k.tok = held.tok /\ k.heard = "page"
  <2>1. k \in calls \/ k = Request(t, op, held.tok, who, val)
    BY <1>2
  <2> QED
    BY <2>1 DEF Request
<1> QED
  BY <1>1, <1>3, OwnSend

\* What the server makes of request c.
Resolved(k, c) ==
  /\ k.op = c.op /\ k.tab = c.tab /\ k.heard = c.heard /\ k.tok = c.tok /\ k.stage \in {"ok", "unauthorized"}
  /\ k.stage = "ok" /\ c.op \in Shows => Valid(c) /\ k.got = Answer(c) /\ account' = Saved(c)

\* Only a save that succeeds changes what is stored, and its answer is there
\* if anybody hears it.
LEMMA ServeMeans ==
  ASSUME TypeInv, NEW c \in calls, Serve(c)
  PROVE  /\ c \in CallTypes /\ c.stage = "sent" /\ UNCHANGED <<held, tabs, mixed, doubt>>
         /\ \A d \in calls : d = c \/ d \in calls'
         /\ \A k \in calls' : (k \in calls /\ k # c) \/ Resolved(k, c)
         /\ \A k, l \in calls' \ calls : k = l
         /\ account' = account \/ (c.op \in Saves /\ Valid(c) /\ account' = Saved(c))
         /\ c.heard # "nobody" => \E k \in calls' : Resolved(k, c)
<1>1. c \in CallTypes /\ Known(c) /\ c.stage = "sent" /\ UNCHANGED <<held, tabs, mixed, doubt>>
  BY TypeParts DEF TabsTyped, PlacedInv, Serve, history
<1>2. ASSUME NEW got, Answered(c, got),
             c.op \in Shows => Valid(c) /\ got = Answer(c) /\ account' = Saved(c)
      PROVE  /\ \A d \in calls : d = c \/ d \in calls'
             /\ \A k \in calls' : (k \in calls /\ k # c) \/ Resolved(k, c)
             /\ \A k, l \in calls' \ calls : k = l
             /\ c.heard # "nobody" => \E k \in calls' : Resolved(k, c)
  <2>1. PICK k : k = [c EXCEPT !.stage = "ok", !.got = got] OBVIOUS
  <2>2. k.op = c.op /\ k.tab = c.tab /\ k.heard = c.heard /\ k.tok = c.tok /\ k.stage = "ok" /\ k.got = got
    BY <1>1, <2>1 DEF CallTypes
  <2>3. Resolved(k, c)
    BY <1>2, <2>2 DEF Resolved
  <2>4. calls' = (calls \ {c}) \cup (IF c.heard = "nobody" THEN {} ELSE {k})
    BY <1>2, <2>1 DEF Answered
  <2> QED
    BY <2>3, <2>4
<1>3. ASSUME Refused(c)
      PROVE  /\ \A d \in calls : d = c \/ d \in calls'
             /\ \A k \in calls' : (k \in calls /\ k # c) \/ Resolved(k, c)
             /\ \A k, l \in calls' \ calls : k = l
             /\ c.heard # "nobody" => \E k \in calls' : Resolved(k, c)
  <2>1. PICK k : k = [c EXCEPT !.stage = "unauthorized"] OBVIOUS
  <2>2. k.op = c.op /\ k.tab = c.tab /\ k.heard = c.heard /\ k.tok = c.tok /\ k.stage = "unauthorized"
    BY <1>1, <2>1 DEF CallTypes
  <2>3. Resolved(k, c)
    BY <2>2 DEF Resolved
  <2>4. calls' = (calls \ {c}) \cup (IF c.tab = None THEN {} ELSE {k})
    BY <1>3, <2>1 DEF Refused
  <2>5. c.heard # "nobody" => c.tab # None
    BY <1>1 DEF Known
  <2> QED
    BY <2>3, <2>4, <2>5
<1>4. CASE ServeLogin(c) /\ ~Refused(c)
  <2>1. PICK k : k = [c EXCEPT !.stage = "ok", !.val = gen[c.who], !.got = Profile(c.who, account)] OBVIOUS
  <2>2. /\ k.op = c.op /\ k.tab = c.tab /\ k.heard = c.heard /\ k.tok = c.tok /\ k.stage = "ok"
        /\ c.op \notin Shows
    BY <1>1, <1>4, <2>1 DEF CallTypes, ServeLogin, Shows, Saves
  <2>3. Resolved(k, c)
    BY <2>2 DEF Resolved
  <2>4. calls' = (calls \ {c}) \cup (IF c.heard = "nobody" THEN {} ELSE {k}) /\ account' = account
    BY <1>4, <2>1 DEF ServeLogin, server
  <2> QED
    BY <1>1, <2>3, <2>4
<1>5. CASE ServeStudent(c)
  <2>1. CASE Valid(c) /\ Answered(c, Answer(c)) /\ account' = Saved(c)
    <3>1. c.op \notin Saves => account' = account
      BY <2>1 DEF Saved
    <3> QED
      BY <1>1, <1>2, <2>1, <3>1
  <2>2. CASE Refused(c) /\ account' \in Refusable(c)
    <3>1. account' = account \/ (c.op \in Saves /\ Valid(c) /\ account' = Saved(c))
      BY <2>2 DEF Refusable, Saves
    <3> QED
      BY <1>1, <1>3, <2>2, <3>1
  <2> QED
    BY <1>5, <2>1, <2>2 DEF ServeStudent
<1>6. CASE ServeCourse(c) \/ ServePassword(c) \/ ServeAdmin(c)
  <2>1. c.op \notin Shows
    BY <1>6 DEF ServeCourse, ServePassword, ServeAdmin, Shows, Saves, AdminWrites
  <2>2. (Answered(c, None) \/ Refused(c)) /\ account' = account
    BY <1>6 DEF ServeCourse, ServePassword, ServeAdmin, server
  <2> QED
    BY <1>1, <1>2, <1>3, <2>1, <2>2
<1>7. CASE ServeLogin(c) /\ Refused(c)
  <2>1. account' = account
    BY <1>7 DEF ServeLogin, server
  <2> QED
    BY <1>1, <1>3, <1>7, <2>1
<1> QED
  BY <1>4, <1>5, <1>6, <1>7 DEF Serve

LEMMA OwnServe ==
  ASSUME TypeInv, TypeInv', OwnInv, NEW c \in calls, Serve(c)
  PROVE  OwnInv'
<1>1. UNCHANGED <<held, tabs, mixed>> /\ \A k \in calls' : (k \in calls /\ k # c) \/ Resolved(k, c)
  BY ServeMeans
<1>2. ASSUME NEW k \in calls'
      PROVE  \E d \in calls : k.op = d.op /\ k.tab = d.tab /\ k.heard = d.heard /\ k.tok = d.tok
  BY <1>1 DEF Resolved
<1> QED
  BY <1>1, <1>2, OwnSend

LEMMA OwnClocks ==
  ASSUME TypeInv', OwnInv, CookieExpires \/ (\E s \in Students : Expire(s)) \/ UNCHANGED vars
  PROVE  OwnInv'
<1>1. UNCHANGED <<held, tabs, calls, mixed>>
  BY DEF CookieExpires, Expire, vars, history
<1> QED
  BY <1>1, OwnSend

LEMMA OwnInit == Init => OwnInv
<1> SUFFICES ASSUME Init
             PROVE  OwnBy(None)
  BY DEF OwnInv
<1>1. \A t \in Tabs : tabs[t].user = None
  BY DEF Init, Loaded
<1>2. held.tok = None
  BY StoredFacts DEF Init
<1>3. ASSUME NEW c \in calls
      PROVE  c.op \notin Shows
  <2>1. PICK u \in Tabs : c \in Probe(u, None)
    BY DEF Init
  <2>2. c.op = "probe"
    BY <2>1 DEF Probe, Request
  <2> QED
    BY <2>2 DEF Shows, Saves
<1> QED
  BY <1>1, <1>2, <1>3 DEF OwnBy

LEMMA OwnNext == TypeInv /\ OwnInv /\ [Next]_vars => OwnInv'
<1> SUFFICES ASSUME TypeInv, OwnInv, [Next]_vars
             PROVE  OwnInv'
  OBVIOUS
<1>0. TypeInv'
  BY TypeNext
<1>1. ASSUME NEW t \in Tabs, Presses(t)
      PROVE  OwnInv'
  <2>1. CASE \E p \in Places : OpenAddress(t, p)
    BY <1>0, <2>1, OwnLoad DEF OpenAddress
  <2>2. CASE OpenProfile(t) \/ LeaveProfile(t) \/ GoAdmin(t) \/ GoCampus(t)
    <3>1. {"profile", "campus", "gate"} \subseteq Places
      BY DEF Places, Campus, AdminPlaces
    <3> QED
      BY <1>0, <2>2, <3>1, OwnGoes DEF OpenProfile, LeaveProfile, GoAdmin, GoCampus
  <2>3. CASE LogoutStudent(t)
    BY <1>0, <2>3, OwnLogout
  <2>4. CASE \/ OpenCourse(t) \/ (\E s \in Students : SubmitLogin(t, s))
             \/ LoginAdmin(t) \/ LogoutAdmin(t) \/ AdminWork(t)
             \/ SubmitName(t) \/ SubmitAvatar(t) \/ RemoveAvatar(t) \/ SaveColor(t)
             \/ \E right \in {0, 1} : SubmitPassword(t, right)
    BY <1>0, <2>4, OwnSends
  <2> QED
    BY <1>1, <2>1, <2>2, <2>3, <2>4, Zenon DEF Presses
<1>2. ASSUME NEW t \in Tabs, Leave(t)
      PROVE  OwnInv'
  BY <1>0, <1>2, OwnLoad DEF Leave, Places
<1>3. ASSUME NEW c \in calls, Arrivals(c)
      PROVE  OwnInv'
  BY <1>0, <1>3, OwnLoggedIn, OwnAnswers, OwnUnauthorized, OwnFails DEF Arrivals, Answers
<1> QED
  BY <1>0, <1>1, <1>2, <1>3, OwnServe, OwnClocks, Zenon DEF Next

\* The name, photo and colour a tab shows, and those the storage keeps, are
\* those of the student signed in, however late an answer comes.
THEOREM DetailsOwn == Spec => []OwnDetails
<1>1. OwnInv => OwnDetails
  BY DEF OwnInv, OwnBy, Theirs, OwnDetails
<1> QED
  BY <1>1, TypeInit, TypeNext, OwnInit, OwnNext, PTL DEF Spec

-----------------------------------------------------------------------------
(* What a tab shows is what is stored.                                     *)

Where == {"header", "page"}

\* Whose answer part x of tab t shows, and which fields of it.
Hears(x, t, c) == c.tab = t /\ IF x = "header" THEN c.heard # "nobody" ELSE c.heard = "page"
Sees(x, op) == IF x = "header" THEN InHeader(op) ELSE OnPage(op)
Open(x, at) == IF x = "header" THEN at \in Campus ELSE at = "profile"

Changes(c, f) == c.op \in Saves /\ FieldOf(c.op) = f
Touches(x, t, f, c) == Hears(x, t, c) /\ f \in Sees(x, c.op)
\* A request that brings the field up to date when its answer comes.
Renews(x, t, f, c) == Hears(x, t, c) /\ (Changes(c, f) \/ (x = "header" /\ c.op = "me"))

\* While nothing about the field overlapped or failed: whatever may still
\* change it at the server is heard here, the answers that have come are what
\* is stored, a save is alone, and what is shown is up to date or is going to be.
Faith(cs, x, t, f, is, current) ==
  /\ \A c \in cs : Changes(c, f) /\ c.stage = "sent" => Hears(x, t, c)
  /\ \A c \in cs : Touches(x, t, f, c) /\ c.stage = "ok" => c.got[f] = is
  /\ \A c, d \in cs : Hears(x, t, c) /\ Changes(c, f) /\ Touches(x, t, f, d) => c = d
  /\ current \/ \E c \in cs : Renews(x, t, f, c)

Current(x, tab, f, is) ==
  IF x = "header" THEN tab.user.of[f] = is ELSE tab.page = "ready" => tab.prof[f] = is

Is(t, f) == Profile(Owner(tabs[t].user.tok), account)[f]
Faithful(x, t, f) == Faith(calls, x, t, f, Is(t, f), Current(x, tabs[t], f, Is(t, f)))

ShownInv ==
  mixed \/ \A t \in Tabs, f \in Fields, x \in Where :
             Open(x, tabs[t].at) /\ <<f, x>> \notin doubt[t] => Faithful(x, t, f)

LEMMA SeesFacts ==
  ASSUME NEW x \in Where, NEW f \in Fields
  PROVE  /\ \A c : Changes(c, f) => f \in Sees(x, c.op)
         /\ f \in Sees("header", "me") /\ f \in Sees(x, "profile")
         /\ \A op : f \in Sees(x, op) => op \in Shows
         /\ \A c : f \in Sees("header", c.op) => c.op \in {"me", "profile"} \/ Changes(c, f)
         /\ f \notin Sees("page", "me")
BY DEF Where, Sees, Changes, InHeader, OnPage, Fields, Saves, FieldOf, Shows

LEMMA RenewsTouches ==
  ASSUME NEW x \in Where, NEW f \in Fields, NEW t, NEW c, Renews(x, t, f, c)
  PROVE  Touches(x, t, f, c)
BY SeesFacts DEF Renews, Touches

LEMMA OverlapFacts ==
  ASSUME NEW x \in Where, NEW f \in Fields, NEW c, NEW d,
         f \in Sees(x, c.op), f \in Sees(x, d.op), c.op \in Saves \/ d.op \in Saves
  PROVE  <<f, x>> \in Overlap(c, d)
<1>1. {c.op, d.op} \cap Saves # {}
  OBVIOUS
<1>2. CASE x = "header"
  BY <1>1, <1>2 DEF Overlap, Sees
<1>3. CASE x = "page"
  BY <1>1, <1>3 DEF Overlap, Sees
<1> QED
  BY <1>2, <1>3 DEF Where

\* A page that is cleaned up hears no more than before; saves reach the header.
LEMMA CleanHears ==
  ASSUME NEW t \in Tabs, NEW there \in TabTypes, NEW c \in CallTypes, NEW k, k = Clean(t, there, c),
         NEW x \in Where, NEW u \in Tabs, NEW f \in Fields
  PROVE  /\ Touches(x, u, f, k) => Touches(x, u, f, c)
         /\ Changes(k, f) <=> Changes(c, f)
         /\ Hears(x, u, c) /\ Changes(c, f) /\ (u = t => Open(x, there.at)) => Hears(x, u, k)
         /\ Renews(x, u, f, c) /\ (u = t => Open(x, there.at)) => Renews(x, u, f, k)
<1>1. /\ k.op = c.op /\ k.tab = c.tab
      /\ k.heard = c.heard \/ (k.heard = "nobody" /\ c.op \in {"me", "course", "profile"})
              \/ (k.heard = "tab" /\ c.heard = "page" /\ c.op \in Saves \cup {"password"})
      /\ c.tab # t => k = c
      /\ c.heard = "nobody" => k = c
      /\ there.at = "profile" => k = c
      /\ c.op \in {"me", "course"} /\ there.at \in Campus => k = c
  BY CleanFacts
<1>2. Hears(x, u, k) => Hears(x, u, c)
  BY <1>1 DEF Hears
<1>3. Changes(k, f) <=> Changes(c, f)
  BY <1>1 DEF Changes
<1>4. Hears(x, u, c) /\ Changes(c, f) /\ (u = t => Open(x, there.at)) => Hears(x, u, k)
  <2>1. Changes(c, f) => c.op \notin {"me", "course", "profile"}
    BY DEF Changes, Saves
  <2>2. CASE x = "header"
    BY <1>1, <2>1, <2>2 DEF Hears
  <2>3. CASE x = "page"
    BY <1>1, <2>3 DEF Hears, Open
  <2> QED
    BY <2>2, <2>3 DEF Where
<1>5. ASSUME Hears(x, u, c), x = "header", c.op = "me", u = t => Open(x, there.at)
      PROVE  k = c
  BY <1>1, <1>5 DEF Hears, Open
<1> QED
  BY <1>1, <1>2, <1>3, <1>4, <1>5 DEF Touches, Renews

\* Becomes, once more: what it sends, what it keeps and what it doubts.
Moved(t, from, there, cs, ds, sent) ==
  /\ \A k \in sent : /\ k \in calls' /\ k.tab = t /\ k.heard = "page" /\ k.stage = "sent"
                     /\ k.op \in {"me", "profile"}
                     /\ k.op = "me" => from \notin Campus
                     /\ k.op = "profile" => from # "profile"
  /\ there.at \in Campus /\ from \notin Campus => \E k \in sent : k.op = "me"
  /\ there.at = "profile" /\ from # "profile" => \E k \in sent : k.op = "profile"
  /\ \A k \in calls' : k \in sent \/ \E c \in cs : c \in CallTypes /\ k = Clean(t, there, c)
  /\ \A c \in cs : Clean(t, there, c).heard # "nobody" => Clean(t, there, c) \in calls'
  /\ \A f \in Fields, x \in Where : <<f, x>> \notin doubt'[t] =>
       /\ there.at = from \/ x = "header" => <<f, x>> \notin ds
       /\ \A k \in sent, d \in calls' :
            ~(f \in Sees(x, k.op) /\ Changes(d, f))

LEMMA MovedFacts ==
  ASSUME TabsTyped, NEW t \in Tabs, NEW old, NEW new \in TabTypes, NEW h \in Stored,
         NEW cs \in SUBSET CallTypes, NEW ds, Becomes(t, old, new, h, cs, ds),
         NEW there, there = There(old, new)
  PROVE  \E sent : Moved(t, old.at, there, cs, ds, sent)
<1>0. there \in TabTypes
  BY ThereFacts
<1>1. PICK tok \in Tokens \cup {None} : tok = h.tok
  BY DEF Stored
<1>2. PICK sent : sent = Effects(t, old, there, tok) OBVIOUS
<1>3. PICK kept : kept = Kept(t, there, cs) OBVIOUS
<1>4. Became(t, old, there, h, kept, sent, ds)
  BY <1>1, <1>2, <1>3, BecomesMeans
<1>5. calls' = kept \cup sent
  BY <1>4 DEF Became
<1>6. \A k \in sent : /\ k \in calls' /\ k.tab = t /\ k.heard = "page" /\ k.stage = "sent"
                      /\ k.op \in {"me", "profile"}
                      /\ k.op = "me" => old.at \notin Campus
                      /\ k.op = "profile" => old.at # "profile"
  <2> SUFFICES ASSUME NEW k \in sent
               PROVE  /\ k \in calls' /\ k.tab = t /\ k.heard = "page" /\ k.stage = "sent"
                      /\ k.op \in {"me", "profile"}
                      /\ k.op = "me" => old.at \notin Campus
                      /\ k.op = "profile" => old.at # "profile"
    OBVIOUS
  <2>1. k \in Effects(t, old, there, tok) /\ k \in calls'
    BY <1>2, <1>5
  <2> QED
    BY <1>0, <2>1, EffectsFacts
<1>7. \A op : Request(t, op, tok, None, 0).op = op
  BY DEF Request
<1>8. there.at \in Campus /\ old.at \notin Campus => \E k \in sent : k.op = "me"
  <2>1. there.at \in Campus /\ old.at \notin Campus => Request(t, "me", tok, None, 0) \in sent
    BY <1>2 DEF Effects
  <2> QED
    BY <1>7, <2>1
<1>9. there.at = "profile" /\ old.at # "profile" => \E k \in sent : k.op = "profile"
  <2>1. there.at = "profile" /\ old.at # "profile" => Request(t, "profile", tok, None, 0) \in sent
    BY <1>2 DEF Effects
  <2> QED
    BY <1>7, <2>1
<1>10. \A k \in calls' : k \in sent \/ \E c \in cs : c \in CallTypes /\ k = Clean(t, there, c)
  <2> SUFFICES ASSUME NEW k \in kept
               PROVE  \E c \in cs : c \in CallTypes /\ k = Clean(t, there, c)
    BY <1>5
  <2> QED
    BY <1>0, <1>3, KeptFacts
<1>11. \A c \in cs : Clean(t, there, c).heard # "nobody" => Clean(t, there, c) \in calls'
  <2> SUFFICES ASSUME NEW c \in cs, Clean(t, there, c).heard # "nobody"
               PROVE  Clean(t, there, c) \in kept
    BY <1>5
  <2> QED
    BY <1>3, Zenon DEF Kept
<1>12. ASSUME NEW f \in Fields, NEW x \in Where, <<f, x>> \notin doubt'[t]
       PROVE  /\ there.at = old.at \/ x = "header" => <<f, x>> \notin ds
              /\ \A k \in sent, d \in calls' : ~(f \in Sees(x, k.op) /\ Changes(d, f))
  <2>1. doubt'[t] = NewDoubt(old, there, kept, sent, ds)
    BY <1>4 DEF Became, TabsTyped
  <2>2. there.at = old.at \/ x = "header" => <<f, x>> \notin ds
    BY <1>12, <2>1 DEF NewDoubt
  <2>3. ASSUME NEW k \in sent, NEW d \in calls', f \in Sees(x, k.op), Changes(d, f)
        PROVE  FALSE
    <3>1. d \in kept
      BY <1>5, <1>6, <2>3 DEF Changes, Saves
    <3>2. f \in Sees(x, d.op) /\ d.op \in Saves
      BY <2>3, SeesFacts DEF Changes
    <3>3. <<f, x>> \in Overlap(k, d)
      BY <2>3, <3>2, OverlapFacts
    <3>4. <<f, x>> \in UNION {Overlap(c, e) : c \in sent, e \in kept}
      BY <3>1, <3>3
    <3> QED
      BY <1>12, <2>1, <3>4 DEF NewDoubt
  <2> QED
    BY <2>2, <2>3
<1>13. Moved(t, old.at, there, cs, ds, sent)
  BY <1>6, <1>8, <1>9, <1>10, <1>11, <1>12 DEF Moved
<1> QED
  BY <1>13

\* A part of a page that stays open: the answers still heard are those heard
\* before.
LEMMA FaithStays ==
  ASSUME NEW t \in Tabs, NEW from, NEW there \in TabTypes, NEW cs \in SUBSET CallTypes, NEW ds, NEW sent,
         Moved(t, from, there, cs, ds, sent),
         NEW f \in Fields, NEW x \in Where, Open(x, from), Open(x, there.at), <<f, x>> \notin doubt'[t],
         NEW is, NEW current, NEW now, Faith(calls, x, t, f, is, current),
         \A c \in cs : c \in calls \/ (~Changes(c, f) /\ c.tab # t),
         now \/ \E c \in cs : Renews(x, t, f, c)
  PROVE  Faith(calls', x, t, f, is, now)
<1>1. ASSUME NEW k \in calls', Changes(k, f)
      PROVE  \E c \in calls : c \in CallTypes /\ k = Clean(t, there, c) /\ Changes(c, f)
  <2>1. k \notin sent
    BY <1>1 DEF Moved, Changes, Saves
  <2>2. PICK c \in cs : c \in CallTypes /\ k = Clean(t, there, c)
    BY <2>1 DEF Moved
  <2>3. Changes(c, f)
    BY <1>1, <2>2, CleanHears
  <2> QED
    BY <2>2, <2>3
<1>2. ASSUME NEW k \in calls', k \notin sent, Touches(x, t, f, k)
      PROVE  \E c \in calls : c \in CallTypes /\ k = Clean(t, there, c) /\ Touches(x, t, f, c)
  <2>1. PICK c \in cs : c \in CallTypes /\ k = Clean(t, there, c)
    BY <1>2 DEF Moved
  <2>2. Touches(x, t, f, c)
    BY <1>2, <2>1, CleanHears
  <2> QED
    BY <2>1, <2>2 DEF Touches, Hears
<1>3. ASSUME NEW k \in calls', Changes(k, f), k.stage = "sent"
      PROVE  Hears(x, t, k)
  <2>1. PICK c \in calls : c \in CallTypes /\ k = Clean(t, there, c) /\ Changes(c, f)
    BY <1>1, <1>3
  <2>2. c.stage = "sent"
    BY <1>3, <2>1, CleanFacts
  <2>3. Hears(x, t, c)
    BY <2>1, <2>2 DEF Faith
  <2> QED
    BY <2>1, <2>3, CleanHears
<1>4. ASSUME NEW k \in calls', Touches(x, t, f, k), k.stage = "ok"
      PROVE  k.got[f] = is
  <2>1. k \notin sent
    BY <1>4 DEF Moved
  <2>2. PICK c \in calls : c \in CallTypes /\ k = Clean(t, there, c) /\ Touches(x, t, f, c)
    BY <1>2, <1>4, <2>1
  <2>3. c.stage = "ok" /\ k.got = c.got
    BY <1>4, <2>2, CleanFacts
  <2> QED
    BY <2>2, <2>3 DEF Faith
<1>5. ASSUME NEW k \in calls', NEW l \in calls', Hears(x, t, k), Changes(k, f), Touches(x, t, f, l)
      PROVE  k = l
  <2>1. l \notin sent
    BY <1>5 DEF Moved, Touches
  <2>2. PICK d \in calls : d \in CallTypes /\ l = Clean(t, there, d) /\ Touches(x, t, f, d)
    BY <1>2, <1>5, <2>1
  <2>3. PICK c \in calls : c \in CallTypes /\ k = Clean(t, there, c) /\ Changes(c, f)
    BY <1>1, <1>5
  <2>4. Touches(x, t, f, k)
    BY <1>5, SeesFacts DEF Touches
  <2>5. Touches(x, t, f, c)
    BY <2>3, <2>4, CleanHears
  <2>6. c = d
    BY <2>2, <2>3, <2>5 DEF Faith, Touches
  <2> QED
    BY <2>2, <2>3, <2>6
<1>6. ASSUME NEW c \in cs, Renews(x, t, f, c)
      PROVE  \E k \in calls' : Renews(x, t, f, k)
  <2>1. PICK k : k = Clean(t, there, c) OBVIOUS
  <2>2. Renews(x, t, f, k)
    BY <1>6, <2>1, CleanHears
  <2>3. k.heard # "nobody"
    BY <2>2 DEF Renews, Hears
  <2>4. k \in calls'
    BY <2>1, <2>3 DEF Moved
  <2> QED
    BY <2>2, <2>4
<1>7. now \/ \E k \in calls' : Renews(x, t, f, k)
  BY <1>6
<1> QED
  BY <1>3, <1>4, <1>5, <1>7 DEF Faith

\* A part of a page that opens reads the profile anew.
LEMMA FaithOpens ==
  ASSUME NEW t \in Tabs, NEW from, NEW there \in TabTypes, NEW cs \in SUBSET CallTypes, NEW ds, NEW sent,
         Moved(t, from, there, cs, ds, sent),
         NEW f \in Fields, NEW x \in Where, ~Open(x, from), Open(x, there.at), <<f, x>> \notin doubt'[t],
         NEW is, NEW now,
         \A c \in cs : Touches(x, t, f, c) => Changes(c, f),
         x = "page" => now
  PROVE  Faith(calls', x, t, f, is, now)
<1>1. PICK j \in sent : f \in Sees(x, j.op) /\ (x = "header" => j.op = "me")
  <2>1. CASE x = "header"
    BY <2>1, SeesFacts DEF Moved, Open
  <2>2. CASE x = "page"
    BY <2>2, SeesFacts DEF Moved, Open
  <2> QED
    BY <2>1, <2>2 DEF Where
<1>2. \A k \in calls' : ~Changes(k, f)
  BY <1>1 DEF Moved
<1>3. ASSUME NEW k \in calls', Touches(x, t, f, k), k.stage = "ok"
      PROVE  FALSE
  <2>1. k \notin sent
    BY <1>3 DEF Moved
  <2>2. PICK c \in cs : c \in CallTypes /\ k = Clean(t, there, c)
    BY <2>1 DEF Moved
  <2>3. Touches(x, t, f, c)
    BY <1>3, <2>2, CleanHears
  <2>4. Changes(k, f)
    BY <2>2, <2>3, CleanHears
  <2> QED
    BY <1>2, <2>4
<1>4. now \/ \E k \in calls' : Renews(x, t, f, k)
  <2>1. CASE x = "header"
    BY <1>1, <2>1 DEF Moved, Renews, Hears
  <2> QED
    BY <2>1 DEF Where
<1> QED
  BY <1>2, <1>3, <1>4 DEF Faith

\* Another tab: what it hears is nothing the moving tab can touch.
LEMMA FaithAside ==
  ASSUME NEW t \in Tabs, NEW from, NEW there \in TabTypes, NEW cs \in SUBSET CallTypes, NEW ds, NEW sent,
         Moved(t, from, there, cs, ds, sent),
         NEW u \in Tabs, u # t, NEW f \in Fields, NEW x \in Where,
         NEW is, NEW current, Faith(calls, x, u, f, is, current), calls \in SUBSET CallTypes,
         \A c \in calls : c.tab # t => c \in cs,
         \A c \in cs : \/ c \in calls
                       \/ \E d \in calls : d.tab = t /\ Forgotten(c, d)
                       \/ c.op \notin Shows
  PROVE  Faith(calls', x, u, f, is, current)
<1>1. ASSUME NEW k \in calls', Changes(k, f), k.stage = "sent"
      PROVE  Hears(x, u, k)
  <2>1. k \notin sent
    BY <1>1 DEF Moved, Changes, Saves
  <2>2. PICK c \in cs : c \in CallTypes /\ k = Clean(t, there, c)
    BY <2>1 DEF Moved
  <2>3. Changes(c, f) /\ c.stage = "sent"
    BY <1>1, <2>2, CleanHears, CleanFacts
  <2>4. CASE c \in calls
    <3>1. Hears(x, u, c)
      BY <2>3, <2>4 DEF Faith
    <3>2. k = c
      BY <2>2, <3>1, CleanFacts DEF Hears
    <3> QED
      BY <3>1, <3>2
  <2>5. ASSUME NEW d \in calls, d.tab = t, Forgotten(c, d)
        PROVE  FALSE
    <3>1. Changes(d, f) /\ d.stage = "sent"
      BY <2>3, <2>5 DEF Forgotten, Changes
    <3>2. Hears(x, u, d)
      BY <3>1 DEF Faith
    <3> QED
      BY <2>5, <3>2 DEF Hears
  <2>6. c.op \in Shows
    BY <2>3 DEF Changes, Shows
  <2> QED
    BY <2>4, <2>5, <2>6
<1>2. ASSUME NEW k \in calls', Touches(x, u, f, k)
      PROVE  k \in calls
  <2>1. k.tab = u /\ k.op \in Shows
    BY <1>2, SeesFacts DEF Touches, Hears
  <2>2. k \notin sent
    BY <2>1 DEF Moved
  <2>3. PICK c \in cs : c \in CallTypes /\ k = Clean(t, there, c)
    BY <2>2 DEF Moved
  <2>4. c.tab = u
    BY <2>1, <2>3, CleanFacts
  <2>5. k = c
    BY <2>3, <2>4, CleanFacts
  <2> QED
    BY <2>1, <2>5, Constants DEF Forgotten
<1>3. ASSUME NEW k \in calls', NEW l \in calls', Hears(x, u, k), Changes(k, f), Touches(x, u, f, l)
      PROVE  k = l
  <2>1. Touches(x, u, f, k)
    BY <1>3, SeesFacts DEF Touches
  <2> QED
    BY <1>2, <1>3, <2>1 DEF Faith
<1>4. ASSUME NEW c \in calls, Renews(x, u, f, c)
      PROVE  \E k \in calls' : Renews(x, u, f, k)
  <2>1. c.tab = u /\ c.heard # "nobody" /\ c \in cs
    BY <1>4 DEF Renews, Hears
  <2>2. PICK k : k = Clean(t, there, c) OBVIOUS
  <2>3. k = c
    BY <2>1, <2>2, CleanFacts
  <2>4. c \in calls'
    BY <2>1, <2>2, <2>3 DEF Moved
  <2> QED
    BY <1>4, <2>4
<1>5. \A k \in calls' : Touches(x, u, f, k) /\ k.stage = "ok" => k.got[f] = is
  BY <1>2 DEF Faith
<1>6. current \/ \E k \in calls' : Renews(x, u, f, k)
  BY <1>4 DEF Faith
<1> QED
  BY <1>1, <1>3, <1>5, <1>6 DEF Faith

\* Becomes, seen from the other tabs.
LEMMA ShownAside ==
  ASSUME TypeInv, ShownInv, ~mixed, NEW t \in Tabs, NEW old, NEW new \in TabTypes, NEW h \in Stored,
         NEW cs \in SUBSET CallTypes, NEW ds, Becomes(t, old, new, h, cs, ds), account' = account,
         \A c \in calls : c.tab # t => c \in cs,
         \A c \in cs : \/ c \in calls
                       \/ \E d \in calls : d.tab = t /\ Forgotten(c, d)
                       \/ c.op \notin Shows,
         \A f \in Fields, x \in Where :
           Open(x, tabs'[t].at) /\ <<f, x>> \notin doubt'[t] => Faithful(x, t, f)'
  PROVE  ShownInv'
<1>0. TabsTyped
  BY TypeParts
<1>1. PICK there \in TabTypes : there = There(old, new)
  BY ThereFacts
<1>2. PICK sent : Moved(t, old.at, there, cs, ds, sent)
  BY <1>0, <1>1, MovedFacts
<1>3. ASSUME NEW u \in Tabs, u # t, NEW f \in Fields, NEW x \in Where,
             Open(x, tabs'[u].at), <<f, x>> \notin doubt'[u]
      PROVE  Faithful(x, u, f)'
  <2>1. tabs'[u] = tabs[u]
    BY <1>0, <1>3, MoveTabs
  <2>2. doubt'[u] = doubt[u]
    BY <1>0, <1>3 DEF Becomes, TabsTyped
  <2>3. Faithful(x, u, f)
    BY <1>3, <2>1, <2>2 DEF ShownInv
  <2>4. PICK is : is = Is(u, f) OBVIOUS
  <2>5. PICK current : current = Current(x, tabs[u], f, is) OBVIOUS
  <2>6. Faith(calls, x, u, f, is, current)
    BY <2>3, <2>4, <2>5 DEF Faithful
  <2>7. calls \in SUBSET CallTypes
    BY <1>0 DEF TabsTyped
  <2>8. Faith(calls', x, u, f, is, current)
    BY <1>2, <1>3, <2>6, <2>7, FaithAside
  <2>9. Is(u, f)' = is
    BY <2>1, <2>4 DEF Is, Profile
  <2>10. Current(x, tabs'[u], f, is) = current
    BY <2>1, <2>5
  <2> QED
    BY <2>8, <2>9, <2>10 DEF Faithful
<1> QED
  BY <1>3 DEF ShownInv

\* A tab that goes from where it is: what it showed and goes on showing must
\* be as up to date as before, what it now opens is read.
LEMMA ShownStep ==
  ASSUME TypeInv, ShownInv, ~mixed, NEW t \in Tabs, NEW new \in TabTypes, NEW h \in Stored,
         NEW cs \in SUBSET CallTypes, NEW ds, Becomes(t, tabs[t], new, h, cs, ds), account' = account,
         tabs[t].user # None /\ new.user # None => Owner(new.user.tok) = Owner(tabs[t].user.tok),
         \A c \in calls : c.tab # t => c \in cs,
         \A c \in cs : c \in calls \/ \E d \in calls : d.tab = t /\ Forgotten(c, d),
         \A f \in Fields, x \in Where :
           Open(x, tabs[t].at) /\ new.user # None /\ <<f, x>> \notin ds =>
             /\ <<f, x>> \notin doubt[t]
             /\ \A c \in cs : Changes(c, f) => c \in calls
             /\ Faithful(x, t, f) => \/ Current(x, new, f, Is(t, f))
                                     \/ \E c \in cs : Renews(x, t, f, c)
  PROVE  ShownInv'
<1>0. TabsTyped
  BY TypeParts
<1>1. PICK there \in TabTypes : there = There(tabs[t], new)
  BY ThereFacts
<1>2. PICK sent : Moved(t, tabs[t].at, there, cs, ds, sent)
  BY <1>0, <1>1, MovedFacts
<1>3. tabs'[t] = there
  BY <1>0, <1>1, MoveTabs
<1>4. there.user = new.user /\ RoutedAt(there)
      /\ (there.at = "profile" /\ tabs[t].at = "profile" => there.page = new.page /\ there.prof = new.prof)
      /\ (there.at = "profile" /\ tabs[t].at # "profile" => there.page = "loading")
  BY <1>1, ThereFacts
<1>5. tabs[t] \in TabTypes /\ RoutedAt(tabs[t])
  BY <1>0, RoutedSame DEF TabsTyped
<1>6. ASSUME NEW f \in Fields, NEW x \in Where, Open(x, there.at), <<f, x>> \notin doubt'[t]
      PROVE  Faithful(x, t, f)'
  <2>1. there.user # None
    BY <1>4, <1>6 DEF RoutedAt, Open, Campus
  <2>2. PICK is : is = Is(t, f)' OBVIOUS
  <2>3. PICK now : now = Current(x, there, f, is) OBVIOUS
  <2> SUFFICES Faith(calls', x, t, f, is, now)
    BY <1>3, <2>2, <2>3 DEF Faithful
  <2>4. CASE Open(x, tabs[t].at)
    <3>1. tabs[t].user # None
      BY <1>5, <2>4 DEF RoutedAt, Open, Campus
    <3>2. is = Is(t, f)
      BY <1>3, <1>4, <2>1, <2>2, <3>1 DEF Is, Profile
    <3>3. there.at = tabs[t].at \/ x = "header"
      BY <1>6, <2>4 DEF Open
    <3>4. <<f, x>> \notin ds
      BY <1>2, <1>6, <3>3 DEF Moved
    <3>5. /\ <<f, x>> \notin doubt[t]
          /\ \A c \in cs : Changes(c, f) => c \in calls
          /\ Faithful(x, t, f) => \/ Current(x, new, f, Is(t, f))
                                  \/ \E c \in cs : Renews(x, t, f, c)
      BY <1>4, <2>1, <2>4, <3>4
    <3>6. Faithful(x, t, f)
      BY <2>4, <3>5 DEF ShownInv
    <3>7. Current(x, new, f, is) => now
      BY <1>4, <1>6, <2>3, <2>4 DEF Current, Open
    <3>8. now \/ \E c \in cs : Renews(x, t, f, c)
      BY <3>2, <3>5, <3>6, <3>7
    <3>9. \A c \in cs : c \in calls \/ (~Changes(c, f) /\ c.tab # t)
      BY <3>5, Constants DEF Forgotten
    <3>10. PICK current : current = Current(x, tabs[t], f, is) OBVIOUS
    <3>11. Faith(calls, x, t, f, is, current)
      BY <3>2, <3>6, <3>10 DEF Faithful
    <3> QED
      BY <1>2, <1>6, <2>4, <3>8, <3>9, <3>11, FaithStays
  <2>5. CASE ~Open(x, tabs[t].at)
    <3>1. ASSUME NEW c \in cs, Touches(x, t, f, c)
          PROVE  Changes(c, f)
      <4>1. c.tab = t /\ c.heard # "nobody" /\ (x = "page" => c.heard = "page") /\ f \in Sees(x, c.op)
        BY <3>1 DEF Touches, Hears
      <4>2. c \in calls
        BY <4>1, Constants DEF Forgotten
      <4>3. Placed(c, tabs[t].at)
        BY <4>1, <4>2, HeardByUser
      <4>4. CASE x = "header"
        BY <2>5, <4>1, <4>3, <4>4, SeesFacts DEF Placed, Open, Campus
      <4>5. CASE x = "page"
        <5>1. c.op \in Shows /\ c.op # "me"
          BY <4>1, <4>5, SeesFacts
        <5> QED
          BY <2>5, <4>1, <4>3, <4>5, <5>1 DEF Placed, Open, Shows
      <4> QED
        BY <4>4, <4>5 DEF Where
    <3>2. x = "page" => now
      BY <1>4, <1>6, <2>3, <2>5 DEF Current, Open
    <3> QED
      BY <1>2, <1>6, <2>5, <3>1, <3>2, FaithOpens
  <2> QED
    BY <2>4, <2>5
<1>7. \A f \in Fields, x \in Where :
        Open(x, tabs'[t].at) /\ <<f, x>> \notin doubt'[t] => Faithful(x, t, f)'
  BY <1>3, <1>6
<1> QED
  BY <1>7, ShownAside

LEMMA ShownLoad ==
  ASSUME TypeInv, ShownInv, NEW t \in Tabs, NEW p \in Places, LoadPage(t, p)
  PROVE  ShownInv'
<1>0. TabsTyped /\ held \in Stored
  BY TypeParts DEF TabsTyped
<1>1. account' = account /\ mixed' = mixed
  BY DEF LoadPage, server
<1>2. PICK old : \E new \in TabTypes, cs \in SUBSET CallTypes :
           /\ Becomes(t, old, new, held, cs, {})
           /\ old.at = "nowhere" /\ cs = Unlistened(t) \cup Probe(t, held.tok)
           /\ \A c \in cs : \/ c \in calls /\ c.tab # t
                            \/ \E d \in calls : d.tab = t /\ Forgotten(c, d)
                            \/ c \in Probe(t, held.tok)
           /\ \A c \in Probe(t, held.tok) : c.op = "probe"
  BY LoadMeans
<1>3. PICK new \in TabTypes, cs \in SUBSET CallTypes :
           /\ Becomes(t, old, new, held, cs, {})
           /\ old.at = "nowhere" /\ cs = Unlistened(t) \cup Probe(t, held.tok)
           /\ \A c \in cs : \/ c \in calls /\ c.tab # t
                            \/ \E d \in calls : d.tab = t /\ Forgotten(c, d)
                            \/ c \in Probe(t, held.tok)
           /\ \A c \in Probe(t, held.tok) : c.op = "probe"
  BY <1>2
<1>4. PICK there \in TabTypes : there = There(old, new)
  BY ThereFacts
<1>5. Becomes(t, old, new, held, cs, {})
  BY <1>3
<1>6. PICK sent : Moved(t, old.at, there, cs, {}, sent)
  BY <1>0, <1>4, <1>5, MovedFacts
<1>7. tabs'[t] = there
  BY <1>0, <1>4, <1>5, MoveTabs
<1>8. there.at = "profile" => there.page = "loading"
  <2>1. old.at # "profile"
    BY <1>3
  <2> QED
    BY <1>4, <2>1, ThereFacts
<1>9. ASSUME NEW f \in Fields, NEW x \in Where, Open(x, there.at), <<f, x>> \notin doubt'[t]
      PROVE  Faithful(x, t, f)'
  <2>1. PICK is : is = Is(t, f)' OBVIOUS
  <2>2. PICK now : now = Current(x, there, f, is) OBVIOUS
  <2>3. x = "page" => now
    BY <1>8, <1>9, <2>2 DEF Current, Open
  <2>4. ~Open(x, old.at)
    BY <1>3 DEF Open, Campus
  <2>5. ASSUME NEW c \in cs, Touches(x, t, f, c)
        PROVE  Changes(c, f)
    <3>1. c.op \in Shows /\ c.tab = t
      BY <2>5, SeesFacts DEF Touches, Hears
    <3>2. c.op # "probe"
      BY <3>1 DEF Shows, Saves
    <3>3. c.tab # None
      BY <3>1, Constants
    <3> QED
      BY <1>3, <3>1, <3>2, <3>3 DEF Forgotten
  <2>6. Faith(calls', x, t, f, is, now)
    BY <1>6, <1>9, <2>3, <2>4, <2>5, FaithOpens
  <2> QED
    BY <1>7, <2>1, <2>2, <2>6 DEF Faithful
<1>10. \A f \in Fields, x \in Where :
        Open(x, tabs'[t].at) /\ <<f, x>> \notin doubt'[t] => Faithful(x, t, f)'
  BY <1>7, <1>9
<1>11. \A c \in calls : c.tab # t => c \in cs
  BY <1>3 DEF Unlistened
<1>12. \A c \in cs : \/ c \in calls
                     \/ \E d \in calls : d.tab = t /\ Forgotten(c, d)
                     \/ c.op \notin Shows
  BY <1>3 DEF Shows, Saves
<1>13. CASE mixed
  BY <1>1, <1>13 DEF ShownInv
<1>14. CASE ~mixed
  BY <1>0, <1>1, <1>5, <1>10, <1>11, <1>12, <1>14, ShownAside
<1> QED
  BY <1>13, <1>14

LEMMA ShownGoes ==
  ASSUME TypeInv, ShownInv, NEW t \in Tabs, NEW p \in Places, Goes(t, p)
  PROVE  ShownInv'
<1>0. held \in Stored /\ calls \in SUBSET CallTypes
  BY TypeParts DEF TabsTyped
<1>1. PICK new \in TabTypes :
           /\ Becomes(t, tabs[t], new, held, calls, doubt[t])
           /\ new.user = tabs[t].user /\ new.page = tabs[t].page /\ new.prof = tabs[t].prof
  BY GoesMeans
<1>2. account' = account /\ mixed' = mixed
  BY DEF Goes, server
<1>3. ASSUME NEW f \in Fields, NEW x \in Where, Faithful(x, t, f)
      PROVE  Current(x, new, f, Is(t, f)) \/ \E c \in calls : Renews(x, t, f, c)
  <2>1. Current(x, new, f, Is(t, f)) <=> Current(x, tabs[t], f, Is(t, f))
    BY <1>1 DEF Current
  <2> QED
    BY <1>3, <2>1 DEF Faithful, Faith
<1>4. CASE mixed
  BY <1>2, <1>4 DEF ShownInv
<1>5. CASE ~mixed
  <2>1. Becomes(t, tabs[t], new, held, calls, doubt[t])
    BY <1>1
  <2>2. tabs[t].user # None /\ new.user # None => Owner(new.user.tok) = Owner(tabs[t].user.tok)
    BY <1>1
  <2> QED
    BY <1>0, <1>2, <1>3, <1>5, <2>1, <2>2, ShownStep
<1> QED
  BY <1>4, <1>5

LEMMA ShownLogout ==
  ASSUME TypeInv, ShownInv, NEW t \in Tabs, LogoutStudent(t)
  PROVE  ShownInv'
<1>0. NoSession \in Stored /\ calls \in SUBSET CallTypes
  BY TypeParts, StoredFacts DEF TabsTyped
<1>1. PICK new \in TabTypes : Becomes(t, tabs[t], new, NoSession, calls, doubt[t]) /\ new.user = None
  BY LogoutMeans
<1>2. account' = account /\ mixed' = (mixed \/ Underway(t, Saves))
  BY DEF LogoutStudent, server
<1>4. CASE mixed
  BY <1>2, <1>4 DEF ShownInv
<1>5. CASE ~mixed
  <2>1. Becomes(t, tabs[t], new, NoSession, calls, doubt[t])
    BY <1>1
  <2>2. new.user = None
    BY <1>1
  <2> QED
    BY <1>0, <1>2, <1>5, <2>1, <2>2, ShownStep
<1> QED
  BY <1>4, <1>5

LEMMA ShownLoggedIn ==
  ASSUME TypeInv, ShownInv, NEW c \in calls, LoggedIn(c)
  PROVE  ShownInv'
<1>0. calls \ {c} \in SUBSET CallTypes /\ TabsTyped
  BY TypeParts DEF TabsTyped
<1>1. /\ tabs[c.tab].at = "login"
      /\ \E t \in Tabs, new \in TabTypes, session \in Sessions :
              /\ t = c.tab /\ Becomes(t, tabs[t], new, session, calls \ {c}, {})
  BY LoggedInMeans
<1>2. PICK t \in Tabs, new \in TabTypes, session \in Sessions :
              /\ t = c.tab /\ Becomes(t, tabs[t], new, session, calls \ {c}, {})
  BY <1>1
<1>3. account' = account /\ (mixed => mixed')
  BY DEF LoggedIn, server
<1>4. CASE mixed
  BY <1>3, <1>4 DEF ShownInv
<1>5. CASE ~mixed
  <2>1. Becomes(t, tabs[t], new, session, calls \ {c}, {})
    BY <1>2
  <2>2. tabs[t].at = "login"
    BY <1>1, <1>2
  <2>3. tabs[t] \in TabTypes /\ Routed(tabs[t]) = tabs[t]
    BY <1>0 DEF TabsTyped
  <2>4. tabs[t].user = None
    BY <2>2, <2>3, RoutedSame DEF RoutedAt
  <2>5. \A x \in Where : ~Open(x, tabs[t].at)
    BY <2>2 DEF Open, Campus
  <2>6. session \in Stored
    BY StoredFacts
  <2>7. \A d \in calls : d.tab # t => d \in calls \ {c}
    BY <1>2
  <2>8. \A d \in calls \ {c} : d \in calls
    OBVIOUS
  <2> QED
    BY <1>0, <1>3, <1>5, <2>1, <2>4, <2>5, <2>6, <2>7, <2>8, ShownStep
<1> QED
  BY <1>4, <1>5

LEMMA ShownAnswers ==
  ASSUME TypeInv, ShownInv, NEW c \in calls, Answers(c)
  PROVE  ShownInv'
<1>0. calls \ {c} \in SUBSET CallTypes
  BY TypeParts DEF TabsTyped
<1>1. /\ c.tab # None /\ c.stage = "ok" /\ c.heard # "nobody"
      /\ InHeader(c.op) \in SUBSET Fields /\ (InHeader(c.op) = {} \/ c.got \in Details)
      /\ \E shown \in TabTypes : Shown(c, shown, tabs[c.tab])
  BY AnswersMean
<1>2. PICK shown \in TabTypes : Shown(c, shown, tabs[c.tab])
  BY <1>1
<1>3. shown.at = tabs[c.tab].at /\ shown.user = tabs[c.tab].user /\ Updates(c, shown, InHeader(c.op))
  BY <1>2 DEF Shown
<1>4. PICK t \in Tabs, new \in TabTypes, h \in Stored :
           /\ t = c.tab /\ Becomes(t, tabs[t], new, h, calls \ {c}, doubt[t])
           /\ new.page = shown.page /\ new.prof = shown.prof
           /\ (new.user = None) <=> (tabs[t].user = None)
           /\ tabs[t].user # None =>
                /\ new.user.tok = tabs[t].user.tok
                /\ \A f \in Fields : new.user.of[f] = IF f \in InHeader(c.op) THEN c.got[f] ELSE tabs[t].user.of[f]
  BY <1>1, <1>3, UpdatesMeans
<1>5. mixed' = mixed /\ account' = account
  BY <1>3 DEF Updates, server
<1>6. Known(c)
  BY <1>1, ArrivesFacts
<1>7. ASSUME NEW f \in Fields, NEW x \in Where, new.user # None, Faithful(x, t, f)
      PROVE  Current(x, new, f, Is(t, f)) \/ \E d \in calls \ {c} : Renews(x, t, f, d)
  <2>1. PICK is : is = Is(t, f) OBVIOUS
  <2>2. CASE Touches(x, t, f, c)
    <3>1. c.got[f] = is
      BY <1>1, <1>7, <2>1, <2>2 DEF Faithful, Faith
    <3>2. CASE x = "header"
      BY <1>4, <1>7, <2>1, <2>2, <3>1, <3>2 DEF Touches, Sees, Current
    <3>3. CASE x = "page"
      <4>1. c.heard = "page" /\ f \in OnPage(c.op)
        BY <2>2, <3>3 DEF Touches, Hears, Sees
      <4>2. new.prof[f] = is
        BY <1>2, <1>4, <3>1, <4>1 DEF Shown
      <4> QED
        BY <2>1, <3>3, <4>2 DEF Current
    <3> QED
      BY <3>2, <3>3 DEF Where
  <2>3. CASE ~Touches(x, t, f, c)
    <3>1. Current(x, tabs[t], f, is) \/ \E d \in calls \ {c} : Renews(x, t, f, d)
      BY <1>7, <2>1, <2>3, RenewsTouches DEF Faithful, Faith
    <3>2. ASSUME Current(x, tabs[t], f, is), x = "header"
          PROVE  Current(x, new, f, is)
      <4>1. f \notin InHeader(c.op)
        BY <1>1, <1>4, <2>3, <3>2 DEF Touches, Hears, Sees
      <4> QED
        BY <1>4, <1>7, <3>2, <4>1 DEF Current
    <3>3. ASSUME Current(x, tabs[t], f, is), x = "page"
          PROVE  Current(x, new, f, is)
      <4>1. ~(c.heard = "page" /\ f \in OnPage(c.op))
        BY <1>4, <2>3, <3>3 DEF Touches, Hears, Sees
      <4>2. c.op # "profile"
        <5>1. c.op = "profile" => f \in OnPage(c.op)
          BY DEF OnPage
        <5>2. c.op = "profile" => c.heard = "page"
          <6>1. c \in CallTypes
            BY <1>1, ArrivesFacts
          <6> QED
            BY <1>1, <1>6, <6>1 DEF Known, Saves, CallTypes
        <5> QED
          BY <4>1, <5>1, <5>2
      <4>3. new.prof[f] = tabs[t].prof[f] /\ new.page = tabs[t].page
        BY <1>2, <1>4, <4>1, <4>2 DEF Shown
      <4> QED
        BY <3>3, <4>3 DEF Current
    <3> QED
      BY <2>1, <3>1, <3>2, <3>3 DEF Where
  <2> QED
    BY <2>2, <2>3
<1>8. CASE mixed
  BY <1>5, <1>8 DEF ShownInv
<1>9. CASE ~mixed
  <2>1. Becomes(t, tabs[t], new, h, calls \ {c}, doubt[t])
    BY <1>4
  <2>2. tabs[t].user # None /\ new.user # None => Owner(new.user.tok) = Owner(tabs[t].user.tok)
    BY <1>4
  <2>3. \A d \in calls : d.tab # t => d \in calls \ {c}
    BY <1>4
  <2>4. \A d \in calls \ {c} : d \in calls
    OBVIOUS
  <2> QED
    BY <1>0, <1>5, <1>7, <1>9, <2>1, <2>2, <2>3, <2>4, ShownStep
<1> QED
  BY <1>8, <1>9

\* A request that fails puts what it would have renewed in doubt.
LEMMA DoubtOfFacts ==
  ASSUME NEW x \in Where, NEW f \in Fields, NEW t, NEW c
  PROVE  /\ Changes(c, f) => <<f, x>> \in DoubtOf(c)
         /\ Renews(x, t, f, c) => <<f, x>> \in DoubtOf(c)
<1>1. Changes(c, f) => <<f, x>> \in DoubtOf(c)
  BY DEF Changes, DoubtOf, OfField, Where
<1>2. x = "header" /\ c.op = "me" => <<f, x>> \in DoubtOf(c)
  BY DEF DoubtOf, Saves
<1> QED
  BY <1>1, <1>2 DEF Renews

LEMMA FailingCurrent ==
  ASSUME NEW new, NEW tab, NEW c, Failing(new, tab, c), NEW x \in Where, NEW f, NEW is, Current(x, tab, f, is)
  PROVE  Current(x, new, f, is)
BY DEF Failing, Current

LEMMA ShownUnauthorized ==
  ASSUME TypeInv, ShownInv, NEW c \in calls, Unauthorized(c)
  PROVE  ShownInv'
<1>0. calls \ {c} \in SUBSET CallTypes
  BY TypeParts DEF TabsTyped
<1>1. PICK t \in Tabs, new \in TabTypes, h \in Stored :
           /\ t = c.tab /\ Becomes(t, tabs[t], new, h, calls \ {c}, doubt[t] \cup DoubtOf(c))
           /\ Failing(new, tabs[t], c)
  BY UnauthorizedMeans
<1>2. mixed' = mixed /\ account' = account
  BY DEF Unauthorized, server
<1>3. PICK ds : ds = doubt[t] \cup DoubtOf(c) OBVIOUS
<1>4. ASSUME NEW f \in Fields, NEW x \in Where, <<f, x>> \notin ds, Faithful(x, t, f)
      PROVE  Current(x, new, f, Is(t, f)) \/ \E d \in calls \ {c} : Renews(x, t, f, d)
  <2>1. ~Renews(x, t, f, c)
    BY <1>3, <1>4, DoubtOfFacts
  <2>2. PICK is : is = Is(t, f) OBVIOUS
  <2>3. Current(x, tabs[t], f, is) \/ \E d \in calls \ {c} : Renews(x, t, f, d)
    BY <1>4, <2>1, <2>2 DEF Faithful, Faith
  <2>4. Current(x, tabs[t], f, is) => Current(x, new, f, is)
    BY <1>1, FailingCurrent
  <2> QED
    BY <2>2, <2>3, <2>4
<1>5. CASE mixed
  BY <1>2, <1>5 DEF ShownInv
<1>6. CASE ~mixed
  <2>1. Becomes(t, tabs[t], new, h, calls \ {c}, ds)
    BY <1>1, <1>3
  <2>2. tabs[t].user # None /\ new.user # None => Owner(new.user.tok) = Owner(tabs[t].user.tok)
    BY <1>1 DEF Failing
  <2>3. \A d \in calls : d.tab # t => d \in calls \ {c}
    BY <1>1
  <2>4. \A d \in calls \ {c} : d \in calls
    OBVIOUS
  <2>5. \A f \in Fields, x \in Where : <<f, x>> \notin ds => <<f, x>> \notin doubt[t]
    BY <1>3
  <2> QED
    BY <1>0, <1>2, <1>4, <1>6, <2>1, <2>2, <2>3, <2>4, <2>5, ShownStep
<1> QED
  BY <1>5, <1>6

LEMMA ShownFails ==
  ASSUME TypeInv, ShownInv, NEW c \in calls, Fails(c)
  PROVE  ShownInv'
<1>0. held \in Stored /\ calls \in SUBSET CallTypes
  BY TypeParts DEF TabsTyped
<1>1. PICK t \in Tabs, new \in TabTypes, left \in SUBSET CallTypes :
           /\ t = c.tab
           /\ Becomes(t, tabs[t], new, held, (calls \ {c}) \cup left, doubt[t] \cup DoubtOf(c))
           /\ Failing(new, tabs[t], c)
           /\ \A d \in left : Forgotten(d, c)
  BY FailsMeans
<1>2. mixed' = mixed /\ account' = account
  BY DEF Fails, server
<1>3. PICK ds : ds = doubt[t] \cup DoubtOf(c) OBVIOUS
<1>4. PICK cs : cs = (calls \ {c}) \cup left OBVIOUS
<1>5. ASSUME NEW f \in Fields, NEW x \in Where, <<f, x>> \notin ds, Faithful(x, t, f)
      PROVE  Current(x, new, f, Is(t, f)) \/ \E d \in cs : Renews(x, t, f, d)
  <2>1. ~Renews(x, t, f, c)
    BY <1>3, <1>5, DoubtOfFacts
  <2>2. PICK is : is = Is(t, f) OBVIOUS
  <2>3. Current(x, tabs[t], f, is) \/ \E d \in cs : Renews(x, t, f, d)
    BY <1>4, <1>5, <2>1, <2>2 DEF Faithful, Faith
  <2>4. Current(x, tabs[t], f, is) => Current(x, new, f, is)
    BY <1>1, FailingCurrent
  <2> QED
    BY <2>2, <2>3, <2>4
<1>6. ASSUME NEW f \in Fields, NEW x \in Where, <<f, x>> \notin ds, NEW d \in cs, Changes(d, f)
      PROVE  d \in calls
  <2>1. CASE d \in left
    <3>1. Changes(c, f)
      BY <1>1, <1>6, <2>1 DEF Forgotten, Changes
    <3> QED
      BY <1>3, <1>6, <3>1, DoubtOfFacts
  <2> QED
    BY <1>4, <2>1
<1>7. CASE mixed
  BY <1>2, <1>7 DEF ShownInv
<1>8. CASE ~mixed
  <2>1. Becomes(t, tabs[t], new, held, cs, ds)
    BY <1>1, <1>3, <1>4
  <2>2. tabs[t].user # None /\ new.user # None => Owner(new.user.tok) = Owner(tabs[t].user.tok)
    BY <1>1 DEF Failing
  <2>3. \A d \in calls : d.tab # t => d \in cs
    BY <1>1, <1>4
  <2>4. \A d \in cs : d \in calls \/ \E e \in calls : e.tab = t /\ Forgotten(d, e)
    BY <1>1, <1>4
  <2>5. \A f \in Fields, x \in Where : <<f, x>> \notin ds => <<f, x>> \notin doubt[t]
    BY <1>3
  <2>6. cs \in SUBSET CallTypes
    BY <1>0, <1>1, <1>4
  <2> QED
    BY <1>0, <1>2, <1>5, <1>6, <1>8, <2>1, <2>2, <2>3, <2>4, <2>5, <2>6, ShownStep
<1> QED
  BY <1>7, <1>8

\* A request about something else is sent.
LEMMA ShownSend ==
  ASSUME ShownInv, mixed' = mixed, account' = account, NEW k, k.op \notin Shows, calls' = calls \cup {k},
         \A u \in Tabs : /\ tabs'[u].user = tabs[u].user /\ tabs'[u].at = tabs[u].at
                         /\ tabs'[u].page = tabs[u].page /\ tabs'[u].prof = tabs[u].prof
                         /\ doubt[u] \subseteq doubt'[u]
  PROVE  ShownInv'
<1>1. CASE mixed
  BY <1>1 DEF ShownInv
<1>2. ASSUME ~mixed, NEW u \in Tabs, NEW f \in Fields, NEW x \in Where,
             Open(x, tabs'[u].at), <<f, x>> \notin doubt'[u]
      PROVE  Faithful(x, u, f)'
  <2>1. PICK is : is = Is(u, f) OBVIOUS
  <2>2. PICK current : current = Current(x, tabs[u], f, is) OBVIOUS
  <2>3. Open(x, tabs[u].at) /\ <<f, x>> \notin doubt[u]
    BY <1>2
  <2>4. Faith(calls, x, u, f, is, current)
    BY <1>2, <2>1, <2>2, <2>3 DEF ShownInv, Faithful
  <2>5. ~Changes(k, f) /\ ~Touches(x, u, f, k)
    <3>1. Changes(k, f) => k.op \in Shows
      BY DEF Changes, Shows
    <3> QED
      BY <3>1, SeesFacts DEF Touches
  <2>6. Faith(calls', x, u, f, is, current)
    BY <2>4, <2>5 DEF Faith
  <2>7. Is(u, f)' = is
    BY <2>1 DEF Is, Profile
  <2>8. Current(x, tabs'[u], f, is) <=> current
    BY <2>2 DEF Current
  <2>9. Faith(calls', x, u, f, is, Current(x, tabs'[u], f, is))
    BY <2>6, <2>8 DEF Faith
  <2> QED
    BY <2>7, <2>9 DEF Faithful
<1> QED
  BY <1>1, <1>2 DEF ShownInv

LEMMA ShownAsks ==
  ASSUME TypeInv, ShownInv, NEW t \in Tabs,
         \/ OpenCourse(t) \/ (\E s \in Students : SubmitLogin(t, s))
         \/ LoginAdmin(t) \/ LogoutAdmin(t) \/ AdminWork(t)
  PROVE  ShownInv'
<1>0. TabsTyped
  BY TypeParts
<1>1. UNCHANGED <<tabs, mixed, account>>
  BY DEF OpenCourse, SubmitLogin, LoginAdmin, LogoutAdmin, AdminWork, AdminCall, server
<1>2. \E op, who : /\ op \in {"course", "login", "adminLogin", "adminLogout", "adminWork"}
                   /\ Send(t, {Request(t, op, held.tok, who, 0)})
  <2>1. CASE OpenCourse(t)
    <3>1. Send(t, {Request(t, "course", held.tok, None, 0)})
      BY <2>1 DEF OpenCourse
    <3> QED
      BY <3>1
  <2>2. CASE \E s \in Students : SubmitLogin(t, s)
    <3>1. PICK s \in Students : Send(t, {Request(t, "login", held.tok, s, 0)})
      BY <2>2 DEF SubmitLogin
    <3> QED
      BY <3>1
  <2>3. CASE LoginAdmin(t)
    <3>1. Send(t, {Request(t, "adminLogin", held.tok, None, 0)})
      BY <2>3 DEF LoginAdmin, AdminCall
    <3> QED
      BY <3>1
  <2>4. CASE LogoutAdmin(t)
    <3>1. Send(t, {Request(t, "adminLogout", held.tok, None, 0)})
      BY <2>4 DEF LogoutAdmin, AdminCall
    <3> QED
      BY <3>1
  <2>5. CASE AdminWork(t)
    <3>1. Send(t, {Request(t, "adminWork", held.tok, None, 0)})
      BY <2>5 DEF AdminWork
    <3> QED
      BY <3>1
  <2> QED
    BY <2>1, <2>2, <2>3, <2>4, <2>5
<1>3. PICK op, who : /\ op \in {"course", "login", "adminLogin", "adminLogout", "adminWork"}
                     /\ Send(t, {Request(t, op, held.tok, who, 0)})
  BY <1>2
<1>4. PICK k : k = Request(t, op, held.tok, who, 0) OBVIOUS
<1>5. k.op \notin Shows
  BY <1>3, <1>4 DEF Request, Shows, Saves
<1>6. calls' = calls \cup {k} /\ \A u \in Tabs : doubt[u] \subseteq doubt'[u]
  BY <1>0, <1>3, <1>4 DEF Send, TabsTyped
<1> QED
  BY <1>1, <1>5, <1>6, ShownSend

\* A button of the profile page that saves a field.
LEMMA ShownSave ==
  ASSUME TypeInv, ShownInv, NEW t \in Tabs, NEW op \in Saves, NEW val, NEW prof, Save(t, op, val, prof),
         \A f \in Fields : f # FieldOf(op) => prof[f] = tabs[t].prof[f]
  PROVE  ShownInv'
<1>0. TabsTyped
  BY TypeParts
<1>1. PICK k : k = Request(t, op, held.tok, None, val) OBVIOUS
<1>2. k.op = op /\ k.tab = t /\ k.heard = "page" /\ k.stage = "sent"
  BY <1>1 DEF Request
<1>3. calls' = calls \cup {k} /\ mixed' = mixed /\ account' = account
  BY <1>1 DEF Save, server
<1>4. /\ \A u \in Tabs : u # t => tabs'[u] = tabs[u]
      /\ \A u \in Tabs : /\ tabs'[u].user = tabs[u].user /\ tabs'[u].at = tabs[u].at
                         /\ tabs'[u].page = tabs[u].page
      /\ tabs'[t].prof = prof
  BY SaveMeans
<1>5. \A u \in Tabs : doubt'[u] = doubt[u] \cup IF u # t THEN OfField({FieldOf(op)} \cap Fields)
                                               ELSE UNION {Overlap(k, d) : d \in calls}
  BY <1>1 DEF Save
<1>6. FieldOf(op) \in Fields
  BY FieldFacts
<1>7. CASE mixed
  BY <1>3, <1>7 DEF ShownInv
<1>8. ASSUME ~mixed, NEW u \in Tabs, NEW f \in Fields, NEW x \in Where,
             Open(x, tabs'[u].at), <<f, x>> \notin doubt'[u]
      PROVE  Faithful(x, u, f)'
  <2>1. PICK is : is = Is(u, f) OBVIOUS
  <2>2. PICK current : current = Current(x, tabs[u], f, is) OBVIOUS
  <2>3. Open(x, tabs[u].at) /\ <<f, x>> \notin doubt[u]
    BY <1>4, <1>5, <1>8
  <2>4. Faith(calls, x, u, f, is, current)
    BY <1>8, <2>1, <2>2, <2>3 DEF ShownInv, Faithful
  <2>5. Is(u, f)' = is
    BY <1>3, <1>4, <2>1 DEF Is, Profile
  <2>6. PICK now : now = Current(x, tabs'[u], f, is) OBVIOUS
  <2> SUFFICES Faith(calls', x, u, f, is, now)
    BY <2>5, <2>6 DEF Faithful
  <2>7. f # FieldOf(op) => (now <=> current)
    BY <1>4, <2>2, <2>6 DEF Current
  <2>8. f # FieldOf(op) => ~Changes(k, f)
    BY <1>2 DEF Changes
  <2>9. CASE u # t
    <3>1. f # FieldOf(op)
      BY <1>5, <1>6, <1>8, <2>9 DEF OfField, Where
    <3>2. ~Touches(x, u, f, k)
      BY <1>2, <2>9 DEF Touches, Hears
    <3> QED
      BY <1>3, <2>4, <2>7, <2>8, <3>1, <3>2 DEF Faith
  <2>10. ASSUME u = t, f \in Sees(x, op)
         PROVE  \A d \in calls : f \notin Sees(x, d.op)
    <3> SUFFICES ASSUME NEW d \in calls, f \in Sees(x, d.op)
                 PROVE  FALSE
      OBVIOUS
    <3>1. <<f, x>> \in Overlap(k, d)
      BY <1>2, <2>10, OverlapFacts
    <3>2. <<f, x>> \in UNION {Overlap(k, e) : e \in calls}
      BY <3>1
    <3> QED
      BY <1>5, <1>8, <2>10, <3>2
  <2>11. CASE u = t /\ f = FieldOf(op)
    <3>1. Changes(k, f) /\ Hears(x, u, k) /\ f \in Sees(x, op)
      BY <1>2, <2>11, SeesFacts DEF Changes, Hears
    <3>2. \A d \in calls : ~Changes(d, f) /\ ~Touches(x, u, f, d)
      BY <2>10, <2>11, <3>1, SeesFacts DEF Touches
    <3>3. Renews(x, u, f, k)
      BY <3>1 DEF Renews
    <3> QED
      BY <1>2, <1>3, <3>1, <3>2, <3>3 DEF Faith
  <2>12. CASE u = t /\ f # FieldOf(op)
    <3>1. CASE f \in Sees(x, op)
      <4>1. \A d \in calls : ~Changes(d, f)
        BY <2>10, <2>12, <3>1, SeesFacts
      <4> QED
        BY <1>2, <1>3, <2>4, <2>7, <2>8, <2>12, <4>1 DEF Faith
    <3>2. CASE f \notin Sees(x, op)
      <4>1. ~Touches(x, u, f, k)
        BY <1>2, <3>2 DEF Touches
      <4> QED
        BY <1>3, <2>4, <2>7, <2>8, <2>12, <4>1 DEF Faith
    <3> QED
      BY <3>1, <3>2
  <2> QED
    BY <2>9, <2>11, <2>12
<1> QED
  BY <1>7, <1>8 DEF ShownInv

LEMMA ShownSaves ==
  ASSUME TypeInv, ShownInv, NEW t \in Tabs,
         \/ SubmitName(t) \/ SubmitAvatar(t) \/ RemoveAvatar(t) \/ SaveColor(t)
         \/ \E right \in {0, 1} : SubmitPassword(t, right)
  PROVE  ShownInv'
<1>0. TabsTyped
  BY TypeParts
<1>1. {"name", "avatar", "remove", "color"} \subseteq Saves
  BY DEF Saves
<1>2. CASE SubmitName(t) \/ SubmitAvatar(t) \/ RemoveAvatar(t)
  <2>1. PICK op, val : op \in Saves /\ Save(t, op, val, tabs[t].prof)
    BY <1>1, <1>2 DEF SubmitName, SubmitAvatar, RemoveAvatar
  <2> QED
    BY <2>1, ShownSave
<1>3. CASE SaveColor(t)
  <2>1. PICK prof : prof = [tabs[t].prof EXCEPT !["color"] = <<Owner(tabs[t].user.tok), steps + 1>>] OBVIOUS
  <2>2. Save(t, "color", steps + 1, prof)
    BY <1>3, <2>1 DEF SaveColor
  <2>3. \A f \in Fields : f # FieldOf("color") => prof[f] = tabs[t].prof[f]
    <3>1. tabs[t].prof \in Details
      BY <1>0 DEF TabsTyped, TabTypes
    <3> QED
      BY <2>1, <3>1 DEF Details, FieldOf
  <2> QED
    BY <1>1, <2>2, <2>3, ShownSave
<1>4. ASSUME NEW right, SubmitPassword(t, right)
      PROVE  ShownInv'
  <2>1. PICK k : k = Request(t, "password", held.tok, None, right) OBVIOUS
  <2>2. Save(t, "password", right, tabs[t].prof)
    BY <1>4 DEF SubmitPassword
  <2>3. k.op \notin Shows
    BY <2>1 DEF Request, Shows, Saves
  <2>4. calls' = calls \cup {k} /\ mixed' = mixed /\ account' = account
    BY <2>1, <2>2 DEF Save, server
  <2>5. /\ \A u \in Tabs : u # t => tabs'[u] = tabs[u]
        /\ \A u \in Tabs : /\ tabs'[u].user = tabs[u].user /\ tabs'[u].at = tabs[u].at
                           /\ tabs'[u].page = tabs[u].page
        /\ tabs'[t].prof = tabs[t].prof
    BY <2>2, SaveMeans
  <2>6. \A u \in Tabs : doubt[u] \subseteq doubt'[u]
    BY <2>2 DEF Save
  <2> QED
    BY <2>3, <2>4, <2>5, <2>6, ShownSend
<1> QED
  BY <1>2, <1>3, <1>4

\* What the server stores becomes what the one request about it brings.
LEMMA ShownServe ==
  ASSUME TypeInv, OwnInv, ShownInv, NEW c \in calls, Serve(c)
  PROVE  ShownInv'
<1>0. TabsTyped /\ RestTyped
  BY TypeParts
<1>1. /\ c \in CallTypes /\ c.stage = "sent" /\ UNCHANGED <<held, tabs, mixed, doubt>>
      /\ \A d \in calls : d = c \/ d \in calls'
      /\ \A k \in calls' : (k \in calls /\ k # c) \/ Resolved(k, c)
      /\ \A k, l \in calls' \ calls : k = l
      /\ account' = account \/ (c.op \in Saves /\ Valid(c) /\ account' = Saved(c))
      /\ c.heard # "nobody" => \E k \in calls' : Resolved(k, c)
  BY ServeMeans
<1>2. CASE mixed
  BY <1>1, <1>2 DEF ShownInv
<1>3. ASSUME ~mixed, NEW t \in Tabs, NEW f \in Fields, NEW x \in Where,
             Open(x, tabs'[t].at), <<f, x>> \notin doubt'[t]
      PROVE  Faithful(x, t, f)'
  <2>1. PICK s \in Students \cup {None} : OwnBy(s)
    BY <1>3 DEF OwnInv
  <2>2. tabs[t] \in TabTypes /\ RoutedAt(tabs[t])
    BY <1>0, RoutedSame DEF TabsTyped
  <2>3. tabs[t].user # None
    BY <1>1, <1>3, <2>2 DEF RoutedAt, Open, Campus
  <2>4. Owner(tabs[t].user.tok) = s /\ s \in Students
    <3>1. tabs[t].user \in Sessions
      BY <2>2, <2>3 DEF TabTypes
    <3>2. tabs[t].user.tok \in Tokens
      BY <3>1 DEF Sessions
    <3> QED
      BY <2>1, <2>3, <3>2, TokenFacts DEF OwnBy, Theirs
  <2>5. PICK is : is = Is(t, f) OBVIOUS
  <2>6. PICK become : become = Is(t, f)' OBVIOUS
  <2>7. is = Profile(s, account)[f] /\ become = Profile(s, account')[f]
    <3>1. is = Profile(s, account)[f]
      BY <2>4, <2>5 DEF Is
    <3>2. become = Profile(Owner(tabs'[t].user.tok), account')[f]
      BY <2>6 DEF Is
    <3> QED
      BY <1>1, <2>4, <3>1, <3>2
  <2>8. become = is \/ Changes(c, f)
    <3>1. CASE account' = account
      BY <2>7, <3>1
    <3>2. CASE c.op \in Saves /\ Valid(c) /\ account' = Saved(c)
      <4>1. PICK acc : acc = Saved(c) OBVIOUS
      <4>2. account \in [Students -> [Fields -> 0..MaxSteps]] /\ c.tok # None
        BY <1>0, <3>2 DEF RestTyped, Valid
      <4>3. FieldOf(c.op) # f => acc[s][f] = account[s][f]
        BY <1>1, <2>4, <4>1, <4>2, SavedFacts
      <4>4. is = <<s, account[s][f]>> /\ become = <<s, acc[s][f]>>
        BY <2>7, <3>2, <4>1 DEF Profile
      <4> QED
        BY <3>2, <4>3, <4>4 DEF Changes
    <3> QED
      BY <1>1, <3>1, <3>2
  <2>9. PICK current : current = Current(x, tabs[t], f, is) OBVIOUS
  <2>10. PICK now : now = Current(x, tabs[t], f, become) OBVIOUS
  <2>11. Faith(calls, x, t, f, is, current)
    BY <1>1, <1>3, <2>5, <2>9 DEF ShownInv, Faithful
  <2> SUFFICES Faith(calls', x, t, f, become, now)
    BY <1>1, <2>6, <2>10 DEF Faithful
  <2>12. ASSUME NEW k, Resolved(k, c)
         PROVE  /\ Hears(x, t, k) <=> Hears(x, t, c)
                /\ Changes(k, f) <=> Changes(c, f)
                /\ Touches(x, t, f, k) <=> Touches(x, t, f, c)
                /\ Renews(x, t, f, k) <=> Renews(x, t, f, c)
                /\ k.stage # "sent"
    BY <2>12 DEF Resolved, Hears, Changes, Touches, Renews
  <2>13. Changes(c, f) => Hears(x, t, c)
    BY <1>1, <2>11 DEF Faith
  <2>14. \A k \in calls' : Changes(k, f) /\ k.stage = "sent" => Hears(x, t, k)
    BY <1>1, <2>11, <2>12 DEF Faith
  <2>15. ASSUME NEW k \in calls', Touches(x, t, f, k), k.stage = "ok"
         PROVE  k.got[f] = become
    <3>1. CASE k \in calls /\ k # c
      <4>1. k.got[f] = is
        BY <2>11, <2>15, <3>1 DEF Faith
      <4>2. ~Changes(c, f)
        BY <2>11, <2>13, <2>15, <3>1 DEF Faith
      <4> QED
        BY <2>8, <4>1, <4>2
    <3>2. CASE Resolved(k, c)
      <4>1. Touches(x, t, f, c)
        BY <2>12, <2>15, <3>2
      <4>2. c.op \in Shows /\ c.heard # "nobody"
        BY <4>1, SeesFacts DEF Touches, Hears
      <4>3. Valid(c) /\ k.got = Answer(c) /\ account' = Saved(c)
        BY <2>15, <3>2, <4>2 DEF Resolved
      <4>4. Owner(c.tok) = s
        BY <2>1, <4>2, <4>3 DEF OwnBy, Valid
      <4> QED
        BY <2>7, <4>3, <4>4 DEF Answer
    <3> QED
      BY <1>1, <3>1, <3>2
  <2>16. ASSUME NEW k \in calls', NEW l \in calls', Hears(x, t, k), Changes(k, f), Touches(x, t, f, l)
         PROVE  k = l
    <3>2. k # c /\ l # c
      BY <1>1, <2>12
    <3>3. Touches(x, t, f, k)
      BY <2>16, SeesFacts DEF Touches
    <3>4. CASE k \in calls /\ l \in calls
      BY <2>11, <2>16, <3>4 DEF Faith
    <3>5. CASE k \in calls /\ l \notin calls
      <4>1. Touches(x, t, f, c)
        BY <1>1, <2>12, <2>16, <3>5
      <4>2. k = c
        BY <2>11, <2>16, <3>5, <4>1 DEF Faith
      <4> QED
        BY <3>2, <4>2
    <3>6. CASE k \notin calls /\ l \in calls
      <4>1. Hears(x, t, c) /\ Changes(c, f)
        BY <1>1, <2>12, <2>16, <3>6
      <4>2. l = c
        BY <2>11, <2>16, <3>6, <4>1 DEF Faith
      <4> QED
        BY <3>2, <4>2
    <3>7. CASE k \notin calls /\ l \notin calls
      BY <1>1, <3>7
    <3> QED
      BY <3>4, <3>5, <3>6, <3>7
  <2>17. ASSUME NEW d \in calls, Renews(x, t, f, d)
         PROVE  \E k \in calls' : Renews(x, t, f, k)
    <3>1. CASE d = c
      <4>1. c.heard # "nobody"
        BY <2>17, <3>1 DEF Renews, Hears
      <4> QED
        BY <1>1, <2>12, <2>17, <3>1, <4>1
    <3> QED
      BY <1>1, <2>17, <3>1
  <2>18. now \/ \E k \in calls' : Renews(x, t, f, k)
    <3>1. CASE become = is
      BY <2>9, <2>10, <2>11, <2>17, <3>1 DEF Faith
    <3>2. CASE Changes(c, f)
      BY <2>13, <2>17, <3>2 DEF Renews
    <3> QED
      BY <2>8, <3>1, <3>2
  <2> QED
    BY <2>14, <2>15, <2>16, <2>18 DEF Faith
<1> QED
  BY <1>2, <1>3 DEF ShownInv


LEMMA ShownClocks ==
  ASSUME ShownInv, CookieExpires \/ (\E s \in Students : Expire(s)) \/ UNCHANGED vars
  PROVE  ShownInv'
<1>1. UNCHANGED <<tabs, calls, account, mixed, doubt>>
  BY DEF CookieExpires, Expire, vars, history, server
<1> QED
  BY <1>1 DEF ShownInv, Faithful, Faith, Is, Profile

LEMMA ShownInit == Init => ShownInv
<1> SUFFICES ASSUME Init, NEW t \in Tabs, NEW x \in Where
             PROVE  ~Open(x, tabs[t].at)
  BY DEF ShownInv
<1>1. tabs[t].at = "login"
  BY DEF Init, Loaded
<1> QED
  BY <1>1 DEF Open, Campus

LEMMA ShownNext == TypeInv /\ OwnInv /\ ShownInv /\ [Next]_vars => ShownInv'
<1> SUFFICES ASSUME TypeInv, OwnInv, ShownInv, [Next]_vars
             PROVE  ShownInv'
  OBVIOUS
<1>1. ASSUME NEW t \in Tabs, Presses(t)
      PROVE  ShownInv'
  <2>1. CASE \E p \in Places : OpenAddress(t, p)
    BY <2>1, ShownLoad DEF OpenAddress
  <2>2. CASE OpenProfile(t) \/ LeaveProfile(t) \/ GoAdmin(t) \/ GoCampus(t)
    <3>1. {"profile", "campus", "gate"} \subseteq Places
      BY DEF Places, Campus, AdminPlaces
    <3> QED
      BY <2>2, <3>1, ShownGoes DEF OpenProfile, LeaveProfile, GoAdmin, GoCampus
  <2>3. CASE LogoutStudent(t)
    BY <2>3, ShownLogout
  <2>4. CASE \/ OpenCourse(t) \/ (\E s \in Students : SubmitLogin(t, s))
             \/ LoginAdmin(t) \/ LogoutAdmin(t) \/ AdminWork(t)
    BY <2>4, ShownAsks
  <2>5. CASE \/ SubmitName(t) \/ SubmitAvatar(t) \/ RemoveAvatar(t) \/ SaveColor(t)
             \/ \E right \in {0, 1} : SubmitPassword(t, right)
    BY <2>5, ShownSaves
  <2> QED
    BY <1>1, <2>1, <2>2, <2>3, <2>4, <2>5, Zenon DEF Presses
<1>2. ASSUME NEW t \in Tabs, Leave(t)
      PROVE  ShownInv'
  BY <1>2, ShownLoad DEF Leave, Places
<1>3. ASSUME NEW c \in calls, Arrivals(c)
      PROVE  ShownInv'
  BY <1>3, ShownLoggedIn, ShownAnswers, ShownUnauthorized, ShownFails DEF Arrivals, Answers
<1> QED
  BY <1>1, <1>2, <1>3, ShownServe, ShownClocks, Zenon DEF Next

\* Once the requests of a tab are answered, its header and its profile page
\* show what is stored, but for the fields whose requests overlapped or failed.
THEOREM DetailsStored == Spec => []ShownIsStored
<1>1. ASSUME TypeInv, ShownInv, ~mixed, NEW t \in Tabs, NEW f \in Fields, tabs[t].user # None,
             ~Underway(t, {"me", "profile"} \cup Saves)
      PROVE  /\ <<f, "header">> \notin doubt[t] /\ tabs[t].at \in Campus => tabs[t].user.of[f] = Is(t, f)
             /\ <<f, "page">> \notin doubt[t] /\ tabs[t].page = "ready" => tabs[t].prof[f] = Is(t, f)
  <2>1. ASSUME NEW x \in Where, NEW c \in calls
        PROVE  ~Renews(x, t, f, c)
    BY <1>1, <2>1 DEF Renews, Hears, Changes, Underway
  <2>2. ASSUME NEW x \in Where, Open(x, tabs[t].at), <<f, x>> \notin doubt[t]
        PROVE  Current(x, tabs[t], f, Is(t, f))
    BY <1>1, <2>1, <2>2 DEF ShownInv, Faithful, Faith
  <2>3. tabs[t].page = "ready" => tabs[t].at = "profile"
    BY <1>1 DEF TypeInv, PlacedInv
  <2> QED
    BY <2>2, <2>3 DEF Where, Open, Current
<1>2. TypeInv /\ ShownInv => ShownIsStored
  BY <1>1 DEF ShownIsStored, Is
<1> QED
  BY <1>2, TypeInit, TypeNext, OwnInit, OwnNext, ShownInit, ShownNext, PTL DEF Spec

=============================================================================
