--------------------------- MODULE AccountProofs ---------------------------
(***************************************************************************)
(* Proofs about Account, for any tabs and students, any number of requests *)
(* under way and of steps that people take: the types, the header after a  *)
(* reload, the administrator's panel, and whose requests a page waits for. *)
(* What the tabs show is in AccountDetailsProofs.                          *)
(*                                                                         *)
(* Every handler ends in Becomes, where the routes, the pages that go and  *)
(* those that come send, keep and drop requests.  What Becomes does is     *)
(* stated once for each invariant; the handlers are then told apart by     *)
(* what they hand to it.                                                   *)
(*                                                                         *)
(* TypeInv says of each request which pages can be listening to it.  With  *)
(* it, ReloadKeepsHeader and AskedInThisSession are inductive.  AdmInv     *)
(* says that a session nobody doubts has one request at most, whose answer *)
(* is the cookie, or else tells nothing new to a tab that knows it.        *)
(***************************************************************************)
EXTENDS Account, TLAPS

-----------------------------------------------------------------------------
(* The invariant, part by part.                                            *)

Shows == {"me", "profile"} \cup Saves
AdmOps == {"probe"} \cup AdminWrites
Stored == [tok: Tokens \cup {None}, of: Details]
Doubts == SUBSET (Fields \X {"header", "page"})
Of(s) == [Fields -> {s} \X (0..MaxSteps)]

\* What a request is, whoever else is under way: a page that is gone hears
\* nothing, and what the server answers with is the asking student's.
Known(c) ==
  /\ c.tab = None => c.heard = "nobody" /\ c.stage = "sent"
  /\ c.heard = "tab" => c.op \in Saves \cup {"password"}
  /\ c.op = "login" => c.who \in Students
  /\ c.stage = "ok" /\ c.op \in Shows => c.tok # None /\ c.got \in Of(Owner(c.tok))
  /\ c.stage = "ok" /\ c.op = "login" => c.got \in Of(c.who)
  /\ c.op \in AdmOps => c.heard \in {"page", "nobody"} /\ ((c.heard = "nobody") = (c.tab = None))

\* An answer is listened to on the pages that asked for it.
Placed(c, at) ==
  /\ c.op \in {"me", "course"} => at \in Campus
  /\ c.op = "profile" => at = "profile"
  /\ c.op \in Saves \cup {"password"} /\ c.heard = "page" => at = "profile"
  /\ c.op = "login" => at = "login"

LoginsDiffer(cs) ==
  \A c, d \in cs : c.op = "login" /\ d.op = "login" /\ c.heard # "nobody" /\ d.heard # "nobody"
                     /\ c.tab = d.tab => c = d

PlacedInv ==
  /\ \A c \in calls : Known(c) /\ (c.heard # "nobody" => Placed(c, tabs[c.tab].at))
  /\ LoginsDiffer(calls)
  /\ \A t \in Tabs : (tabs[t].page = "off") <=> (tabs[t].at # "profile")

TypeInv == TypeOK /\ (\A s \in Students : gen[s] <= steps) /\ PlacedInv

-----------------------------------------------------------------------------
(* Constants.                                                              *)

LEMMA Constants ==
  /\ MaxSteps \in Nat /\ MaxCalls \in Nat
  /\ None \notin Tabs /\ None \notin Students /\ None \notin Tokens /\ None \notin Sessions
  /\ AdminTabs \subseteq Tabs
BY TabsAssumption, BoundsAssumption, NoneAssumption

LEMMA StoredFacts ==
  /\ NoDetails \in Details /\ NoSession \in Stored /\ NoSession.tok = None
  /\ \A h \in Stored : h.tok = None \/ h \in Sessions
  /\ \A h \in Sessions : h \in Stored /\ h.tok # None /\ h # None
BY Constants DEF NoDetails, Details, Values, NoSession, Stored, Sessions

-----------------------------------------------------------------------------
(* Becomes: what the routes, the pages and their clean-up do to a tab.     *)

There(old, new) == Mounted(old, Routed(new))

\* What becomes of one request when tab t goes to a place.
Clean(t, there, c) ==
  IF c.tab = t /\ c.op \in {"me", "course"} /\ there.at \notin Campus THEN [c EXCEPT !.heard = "nobody"]
  ELSE IF c.tab = t /\ c.op = "profile" /\ there.at # "profile" THEN [c EXCEPT !.heard = "nobody"]
  ELSE IF c.tab = t /\ c.op \in Saves \cup {"password"} /\ there.at # "profile" /\ c.heard = "page"
    THEN [c EXCEPT !.heard = "tab"] ELSE c

\* Those that somebody may still notice.
Kept(t, there, cs) ==
  {c \in {Clean(t, there, d) : d \in cs} : c.heard # "nobody" \/ c.stage # "ok"}

LEMMA KeptMeans ==
  ASSUME NEW t, NEW there, NEW cs
  PROVE  {c \in Cleaned(t, there, cs) : c.heard # "nobody" \/ c.stage # "ok"} = Kept(t, there, cs)
<1>1. Cleaned(t, there, cs) = {Clean(t, there, d) : d \in cs}
  BY Zenon DEF Cleaned, Clean
<1> QED
  BY <1>1, Zenon DEF Kept

NewDoubt(old, there, kept, sent, ds) ==
  (IF there.at = old.at THEN ds ELSE ds \ (Fields \X {"page"}))
    \cup UNION {Overlap(c, d) : c \in sent, d \in kept}

Became(t, old, there, h, kept, sent, ds) ==
  /\ tabs' = [tabs EXCEPT ![t] = there]
  /\ held' = h
  /\ calls' = kept \cup sent
  /\ doubt' = [doubt EXCEPT ![t] = NewDoubt(old, there, kept, sent, ds)]

LEMMA BecomesMeans ==
  ASSUME NEW t, NEW old, NEW new, NEW h, NEW cs, NEW ds, Becomes(t, old, new, h, cs, ds),
         NEW there, there = There(old, new)
  PROVE  Became(t, old, there, h, Kept(t, there, cs), Effects(t, old, there, h.tok), ds)
<1> DEFINE to == Mounted(old, Routed(new))
           kept == {c \in Cleaned(t, to, cs) : c.heard # "nobody" \/ c.stage # "ok"}
           sent == Effects(t, old, to, h.tok)
<1>1. to = there
  BY DEF There
<1>2. kept = Kept(t, to, cs)
  BY KeptMeans
<1>3. Became(t, old, to, h, kept, sent, ds)
  BY DEF Becomes, Became, NewDoubt
<1> HIDE DEF to, kept
<1> QED
  BY <1>1, <1>2, <1>3

LEMMA RoutedFacts ==
  ASSUME NEW new \in TabTypes, NEW r, r = Routed(new)
  PROVE  /\ r \in TabTypes /\ r = [new EXCEPT !.at = r.at]
         /\ r.user = new.user /\ r.adm = new.adm /\ r.page = new.page /\ r.prof = new.prof
         /\ r.busy = new.busy /\ r.leaving = new.leaving
         /\ r.at = "login" => r.user = None
         /\ r.at \in Campus => r.user # None
         /\ r.at = "panel" => r.adm # "anonymous"
         /\ r.at = "gate" => r.adm # "authenticated"
         /\ r.at # new.at => r.at \in {"campus", "login", "gate", "panel"}
         /\ new.at \in Campus /\ new.user # None => r.at = new.at
         /\ new.at \in AdminPlaces => r.at \in AdminPlaces
         /\ new.at \in Campus => r.at \in {"login", new.at}
<1>1. r.at \in Places
  BY DEF Routed, TabTypes, Places, AdminPlaces, Campus
<1>2. r = [new EXCEPT !.at = r.at]
  BY DEF Routed, TabTypes
<1> QED
  BY <1>1, <1>2 DEF Routed, TabTypes, Places, AdminPlaces, Campus

\* Where the routes leave a tab alone.
RoutedAt(tab) ==
  /\ tab.at = "login" => tab.user = None
  /\ tab.at \in Campus => tab.user # None
  /\ tab.at = "panel" => tab.adm # "anonymous"
  /\ tab.at = "gate" => tab.adm # "authenticated"

LEMMA RoutedSame ==
  ASSUME NEW tab \in TabTypes
  PROVE  (Routed(tab) = tab) <=> RoutedAt(tab)
<1>1. ASSUME RoutedAt(tab)
      PROVE  Routed(tab) = tab
  BY <1>1 DEF RoutedAt, Routed, TabTypes, Places, AdminPlaces, Campus
<1>2. ASSUME Routed(tab) = tab
      PROVE  RoutedAt(tab)
  BY <1>2, RoutedFacts DEF RoutedAt
<1> QED
  BY <1>1, <1>2

LEMMA ThereFacts ==
  ASSUME NEW old, NEW new \in TabTypes, NEW there, there = There(old, new)
  PROVE  /\ there \in TabTypes
         /\ there.user = new.user /\ there.adm = new.adm /\ there.leaving = new.leaving
         /\ there.at = Routed(new).at
         /\ Routed(there) = there
         /\ RoutedAt(there)
         /\ there.at = "profile" /\ old.at = "profile" =>
              there.page = new.page /\ there.prof = new.prof /\ there.busy = new.busy
         /\ there.at # "profile" \/ old.at # "profile" =>
              /\ there.page = (IF there.at = "profile" THEN "loading" ELSE "off")
              /\ there.prof = NoDetails /\ there.busy = {}
<1> DEFINE r == Routed(new)
<1>1. r \in TabTypes /\ RoutedAt(r) /\ r.user = new.user /\ r.adm = new.adm /\ r.page = new.page
      /\ r.prof = new.prof /\ r.busy = new.busy /\ r.leaving = new.leaving
  BY RoutedFacts DEF RoutedAt
<1>2. there = IF r.at = "profile" /\ old.at = "profile" THEN r
              ELSE [r EXCEPT !.page = IF r.at = "profile" THEN "loading" ELSE "off",
                             !.prof = NoDetails, !.busy = {}]
  BY DEF There, Mounted
<1> HIDE DEF r
<1>3. /\ there \in TabTypes /\ there.at = r.at
      /\ there.user = r.user /\ there.adm = r.adm /\ there.leaving = r.leaving
  <2>1. CASE r.at = "profile" /\ old.at = "profile"
    BY <1>1, <1>2, <2>1
  <2>2. CASE ~(r.at = "profile" /\ old.at = "profile")
    <3> DEFINE p == IF r.at = "profile" THEN "loading" ELSE "off"
    <3>1. p \in {"off", "loading", "ready", "error"} /\ {} \in SUBSET (Fields \cup {"password"})
          /\ NoDetails \in Details
      BY StoredFacts
    <3>2. there = [r EXCEPT !.page = p, !.prof = NoDetails, !.busy = {}]
      BY <1>2, <2>2
    <3> HIDE DEF p
    <3> QED
      BY <1>1, <3>1, <3>2 DEF TabTypes
  <2> QED
    BY <2>1, <2>2
<1>4. RoutedAt(there)
  BY <1>1, <1>3 DEF RoutedAt
<1>5. /\ there.at = "profile" /\ old.at = "profile" =>
              there.page = new.page /\ there.prof = new.prof /\ there.busy = new.busy
      /\ there.at # "profile" \/ old.at # "profile" =>
              /\ there.page = (IF there.at = "profile" THEN "loading" ELSE "off")
              /\ there.prof = NoDetails /\ there.busy = {}
  BY <1>1, <1>2, <1>3 DEF TabTypes
<1> QED
  BY <1>1, <1>3, <1>4, <1>5, RoutedSame DEF r

LEMMA CleanFacts ==
  ASSUME NEW t \in Tabs, NEW there \in TabTypes, NEW c \in CallTypes, NEW k, k = Clean(t, there, c)
  PROVE  /\ k \in CallTypes /\ k.op = c.op /\ k.tab = c.tab /\ k.tok = c.tok /\ k.who = c.who
         /\ k.val = c.val /\ k.stage = c.stage /\ k.got = c.got
         /\ k.heard = c.heard \/ (k.heard = "nobody" /\ c.op \in {"me", "course", "profile"})
              \/ (k.heard = "tab" /\ c.heard = "page" /\ c.op \in Saves \cup {"password"})
         /\ c.tab # t => k = c
         /\ k.heard = c.heard => k = c
         /\ c.heard = "nobody" => k = c
         /\ c.tab = t /\ k.heard # "nobody" =>
              /\ c.op \in {"me", "course"} => there.at \in Campus
              /\ c.op = "profile" => there.at = "profile"
              /\ c.op \in Saves \cup {"password"} /\ k.heard = "page" => there.at = "profile"
         /\ there.at = "profile" => k = c
         /\ c.op \in {"me", "course"} /\ there.at \in Campus => k = c
BY DEF Clean, CallTypes, Saves, Campus

\* The profile page hears the "nobody" of a request that was not heard.
LEMMA EffectsFacts ==
  ASSUME NEW t \in Tabs, NEW old, NEW there \in TabTypes, NEW tok \in Tokens \cup {None},
         NEW c \in Effects(t, old, there, tok)
  PROVE  /\ c \in CallTypes /\ c = Request(t, c.op, tok, None, 0)
         /\ c.op \in {"me", "profile"} /\ c.tab = t /\ c.heard = "page" /\ c.tok = tok
         /\ c.stage = "sent" /\ c.got = None /\ c.val = 0 /\ c.who = None
         /\ c.op = "me" => there.at \in Campus /\ old.at \notin Campus
         /\ c.op = "profile" => there.at = "profile" /\ old.at # "profile"
<1>1. PICK op \in {"me", "profile"} :
        /\ c = Request(t, op, tok, None, 0)
        /\ op = "me" => there.at \in Campus /\ old.at \notin Campus
        /\ op = "profile" => there.at = "profile" /\ old.at # "profile"
  BY DEF Effects
<1>2. c.op = op /\ c.tab = t /\ c.heard = "page" /\ c.tok = tok /\ c.stage = "sent"
      /\ c.got = None /\ c.val = 0 /\ c.who = None
  BY <1>1 DEF Request
<1>3. c \in CallTypes
  BY <1>1, Constants DEF Request, CallTypes, Reads, Writes
<1> QED
  BY <1>1, <1>2, <1>3

LEMMA KeptFacts ==
  ASSUME NEW t \in Tabs, NEW there \in TabTypes, NEW cs \in SUBSET CallTypes, NEW k \in Kept(t, there, cs)
  PROVE  /\ k.heard # "nobody" \/ k.stage # "ok"
         /\ \E c \in cs : c \in CallTypes /\ k = Clean(t, there, c)
BY Zenon DEF Kept

LEMMA OverlapTyped ==
  ASSUME NEW c, NEW d
  PROVE  Overlap(c, d) \subseteq Fields \X {"header", "page"}
<1>1. \A op : InHeader(op) \subseteq Fields /\ OnPage(op) \subseteq Fields
  BY DEF InHeader, OnPage, FieldOf, Fields, Saves
<1> QED
  BY <1>1 DEF Overlap

LEMMA BecameCalls ==
  ASSUME NEW t \in Tabs, NEW old, NEW there \in TabTypes, NEW h, NEW cs \in SUBSET CallTypes,
         NEW ds, NEW sent, Became(t, old, there, h, Kept(t, there, cs), sent, ds),
         NEW k \in calls'
  PROVE  \/ k \in sent
         \/ \E c \in cs : /\ c \in CallTypes /\ k = Clean(t, there, c)
                          /\ k.heard # "nobody" \/ k.stage # "ok"
<1>1. calls' = Kept(t, there, cs) \cup sent
  BY Zenon DEF Became
<1>2. CASE k \in Kept(t, there, cs)
  BY <1>2, KeptFacts
<1> QED
  BY <1>1, <1>2

LEMMA BecomesTyped ==
  ASSUME NEW t \in Tabs, NEW old, NEW new \in TabTypes, NEW h \in Stored, NEW cs \in SUBSET CallTypes,
         NEW ds \in Doubts, Becomes(t, old, new, h, cs, ds),
         tabs \in [Tabs -> TabTypes], \A u \in Tabs : Routed(tabs[u]) = tabs[u],
         doubt \in [Tabs -> Doubts]
  PROVE  /\ held' \in Stored /\ tabs' \in [Tabs -> TabTypes]
         /\ \A u \in Tabs : Routed(tabs'[u]) = tabs'[u]
         /\ calls' \subseteq CallTypes /\ doubt' \in [Tabs -> Doubts]
<1>1. PICK there : there = There(old, new) OBVIOUS
<1>2. there \in TabTypes /\ Routed(there) = there
  BY <1>1, ThereFacts
<1>3. PICK kept : kept = Kept(t, there, cs) OBVIOUS
<1>4. PICK sent : sent = Effects(t, old, there, h.tok) OBVIOUS
<1>5. Became(t, old, there, h, kept, sent, ds)
  BY <1>1, <1>3, <1>4, BecomesMeans
<1>6. h.tok \in Tokens \cup {None}
  BY DEF Stored
<1>7. kept \subseteq CallTypes
  BY <1>2, <1>3, KeptFacts, CleanFacts
<1>8. sent \subseteq CallTypes
  BY <1>2, <1>4, <1>6, EffectsFacts
<1>9. held' \in Stored /\ calls' \subseteq CallTypes
  BY <1>5, <1>7, <1>8 DEF Became
<1>10. tabs' = [tabs EXCEPT ![t] = there]
  BY <1>5 DEF Became
<1>11. tabs' \in [Tabs -> TabTypes] /\ \A u \in Tabs : Routed(tabs'[u]) = tabs'[u]
  BY <1>2, <1>10
<1>12. PICK ns : ns = NewDoubt(old, there, kept, sent, ds) OBVIOUS
<1>13. ASSUME NEW x \in UNION {Overlap(c, d) : c \in sent, d \in kept}
       PROVE  x \in Fields \X {"header", "page"}
  <2>1. PICK c \in sent, d \in kept : x \in Overlap(c, d)
    OBVIOUS
  <2> QED
    BY <2>1, OverlapTyped
<1>14. ns \in Doubts
  BY <1>12, <1>13 DEF Doubts, NewDoubt
<1>15. doubt' = [doubt EXCEPT ![t] = ns]
  BY <1>5, <1>12 DEF Became
<1> QED
  BY <1>9, <1>11, <1>14, <1>15

\* What a handler hands to Becomes: the requests cs are known, those of other
\* tabs are listened to where they were, and a login only on the login page.
Fits(t, old, new, cs) ==
  /\ \A c \in cs : Known(c)
  /\ \A c \in cs : c.heard # "nobody" /\ c.tab # t => Placed(c, tabs[c.tab].at)
  /\ \A c \in cs : c.heard # "nobody" /\ c.tab = t /\ c.op = "login" => There(old, new).at = "login"
  /\ LoginsDiffer(cs)
  /\ old.at = "profile" /\ There(old, new).at = "profile" => new.page # "off"

LEMMA BecomesPlaced ==
  ASSUME NEW t \in Tabs, NEW old, NEW new \in TabTypes, NEW h \in Stored, NEW cs \in SUBSET CallTypes,
         NEW ds, Becomes(t, old, new, h, cs, ds), Fits(t, old, new, cs), PlacedInv,
         tabs \in [Tabs -> TabTypes]
  PROVE  PlacedInv'
<1>1. PICK there : there = There(old, new) OBVIOUS
<1>2. there \in TabTypes
  BY <1>1, ThereFacts
<1>3. Became(t, old, there, h, Kept(t, there, cs), Effects(t, old, there, h.tok), ds)
  BY <1>1, BecomesMeans
<1>4. PICK tok \in Tokens \cup {None} : tok = h.tok
  BY DEF Stored
<1>10. ASSUME NEW c \in Effects(t, old, there, tok)
       PROVE
          /\ c.op \in {"me", "profile"} /\ c.tab = t /\ c.heard = "page" /\ c.stage = "sent"
          /\ c.op = "me" => there.at \in Campus
          /\ c.op = "profile" => there.at = "profile"
  BY <1>2, EffectsFacts
<1>5. tabs' = [tabs EXCEPT ![t] = there]
  BY <1>3 DEF Became
<1>6. tabs'[t] = there /\ \A u \in Tabs : u # t => tabs'[u] = tabs[u]
  BY <1>5
<1>11. PICK sent : sent = Effects(t, old, there, tok) OBVIOUS
<1>12. Became(t, old, there, h, Kept(t, there, cs), sent, ds)
  BY <1>3, <1>4, <1>11
<1>0. ASSUME NEW k \in calls'
      PROVE  \/ k \in sent
             \/ \E c \in cs : /\ c \in CallTypes /\ k = Clean(t, there, c)
                              /\ k.heard # "nobody" \/ k.stage # "ok"
  BY <1>2, <1>12, BecameCalls
<1>7. ASSUME NEW k \in calls'
      PROVE  Known(k) /\ (k.heard # "nobody" => Placed(k, tabs'[k.tab].at))
  <2>1. CASE k \in sent
    <3>1. /\ k.op \in {"me", "profile"} /\ k.tab = t /\ k.heard = "page" /\ k.stage = "sent"
          /\ k.op = "me" => there.at \in Campus
          /\ k.op = "profile" => there.at = "profile"
      BY <1>10, <1>11, <2>1
    <3>2. Known(k)
      BY <3>1, Constants DEF Known, AdmOps, AdminWrites, Saves
    <3>3. Placed(k, there.at)
      BY <3>1 DEF Placed, Saves
    <3> QED
      BY <1>6, <3>1, <3>2, <3>3
  <2>2. ASSUME NEW c \in cs, c \in CallTypes, k = Clean(t, there, c)
        PROVE  Known(k) /\ (k.heard # "nobody" => Placed(k, tabs'[k.tab].at))
    <3>1. /\ k.op = c.op /\ k.tab = c.tab /\ k.tok = c.tok /\ k.who = c.who
          /\ k.stage = c.stage /\ k.got = c.got
          /\ k.heard = c.heard \/ (k.heard = "nobody" /\ c.op \in {"me", "course", "profile"})
               \/ (k.heard = "tab" /\ c.heard = "page" /\ c.op \in Saves \cup {"password"})
          /\ c.tab # t => k = c
          /\ c.heard = "nobody" => k = c
          /\ c.tab = t /\ k.heard # "nobody" =>
              /\ c.op \in {"me", "course"} => there.at \in Campus
              /\ c.op = "profile" => there.at = "profile"
              /\ c.op \in Saves \cup {"password"} /\ k.heard = "page" => there.at = "profile"
      BY <1>2, <2>2, CleanFacts
    <3>2. Known(c) /\ c.heard \in {"page", "tab", "nobody"}
      BY <2>2 DEF Fits, CallTypes
    <3>3. Known(k)
      <4>1. CASE k = c
        BY <3>2, <4>1
      <4>2. CASE k.heard = "nobody" /\ c.op \in {"me", "course", "profile"}
        <5>1. k.op \notin AdmOps /\ k.op # "login"
          BY <3>1, <4>2 DEF AdmOps, AdminWrites
        <5> QED
          BY <3>1, <3>2, <4>2, <5>1 DEF Known
      <4>3. CASE k.heard = "tab" /\ c.heard = "page" /\ c.op \in Saves \cup {"password"}
        <5>1. k.op \notin AdmOps /\ k.op # "login" /\ k.op \in Saves \cup {"password"}
          BY <3>1, <4>3 DEF AdmOps, AdminWrites, Saves
        <5> QED
          BY <3>1, <3>2, <4>3, <5>1 DEF Known
      <4> QED
        BY <1>2, <2>2, <3>1, <4>1, <4>2, <4>3, CleanFacts
    <3>4. CASE k.heard # "nobody" /\ c.tab # t
      <4>1. c.heard # "nobody" /\ k = c /\ c.tab \in Tabs
        BY <3>1, <3>2, <3>4, <2>2 DEF Known, CallTypes
      <4> QED
        BY <1>6, <3>3, <3>4, <4>1 DEF Fits
    <3>5. CASE k.heard # "nobody" /\ c.tab = t
      <4>1. c.heard # "nobody"
        BY <3>1, <3>5
      <4>2. c.op = "login" => there.at = "login"
        BY <1>1, <3>5, <4>1 DEF Fits
      <4>3. Placed(k, there.at)
        BY <3>1, <3>5, <4>2 DEF Placed
      <4> QED
        BY <1>6, <3>1, <3>3, <3>5, <4>3
    <3> QED
      BY <3>3, <3>4, <3>5
  <2> QED
    BY <1>0, <2>1, <2>2
<1>8. LoginsDiffer(calls)'
  <2> SUFFICES ASSUME NEW k \in calls', NEW l \in calls', k.op = "login", l.op = "login",
                      k.heard # "nobody", l.heard # "nobody", k.tab = l.tab
               PROVE  k = l
    BY DEF LoginsDiffer
  <2>1. ASSUME NEW m \in calls', m.op = "login", m.heard # "nobody"
        PROVE  m \in cs
    <3>1. m \notin sent
      BY <1>10, <1>11, <2>1
    <3>2. PICK c \in cs : c \in CallTypes /\ m = Clean(t, there, c)
      BY <1>0, <3>1
    <3>3. m.op = c.op /\ (m.heard = c.heard => m = c)
          /\ (m.heard = c.heard \/ (m.heard = "nobody" /\ c.op \in {"me", "course", "profile"})
               \/ (m.heard = "tab" /\ c.heard = "page" /\ c.op \in Saves \cup {"password"}))
      BY <1>2, <3>2, CleanFacts
    <3>4. m = c
      BY <2>1, <3>3 DEF Saves
    <3> QED
      BY <3>2, <3>4
  <2> QED
    BY <2>1 DEF Fits, LoginsDiffer
<1>9. ASSUME NEW u \in Tabs
      PROVE  (tabs'[u].page = "off") <=> (tabs'[u].at # "profile")
  <2>1. CASE u # t
    BY <1>6, <2>1 DEF PlacedInv
  <2>2. CASE u = t
    <3>1. /\ there.at = "profile" /\ old.at = "profile" => there.page = new.page
          /\ there.at # "profile" \/ old.at # "profile" =>
              there.page = (IF there.at = "profile" THEN "loading" ELSE "off")
      BY <1>1, ThereFacts
    <3>2. there.at = "profile" /\ old.at = "profile" => new.page # "off"
      BY <1>1 DEF Fits
    <3>3. (there.page = "off") <=> (there.at # "profile")
      BY <3>1, <3>2
    <3> QED
      BY <1>6, <2>2, <3>3
  <2> QED
    BY <2>1, <2>2
<1> QED
  BY <1>7, <1>8, <1>9 DEF PlacedInv

-----------------------------------------------------------------------------
(* The types.                                                              *)

\* What Becomes leaves alone.
RestTyped ==
  /\ account \in [Students -> [Fields -> 0..MaxSteps]]
  /\ gen \in [Students -> 0..MaxSteps] /\ \A s \in Students : gen[s] <= steps
  /\ cookie \in BOOLEAN /\ mixed \in BOOLEAN /\ admDoubt \in [Tabs -> BOOLEAN]
  /\ steps \in 0..MaxSteps

TabsTyped ==
  /\ held \in Stored /\ tabs \in [Tabs -> TabTypes] /\ \A u \in Tabs : Routed(tabs[u]) = tabs[u]
  /\ calls \in SUBSET CallTypes /\ doubt \in [Tabs -> Doubts]

LEMMA TypeParts ==
  /\ TypeInv <=> RestTyped /\ TabsTyped /\ PlacedInv
  /\ TypeInv' <=> RestTyped' /\ TabsTyped' /\ PlacedInv'
BY DEF TypeInv, TypeOK, RestTyped, TabsTyped, Stored, Doubts

LEMMA BecomesKeeps ==
  ASSUME TypeInv, RestTyped',
         NEW t \in Tabs, NEW old, NEW new \in TabTypes, NEW h \in Stored, NEW cs \in SUBSET CallTypes,
         NEW ds \in Doubts, Becomes(t, old, new, h, cs, ds), Fits(t, old, new, cs)
  PROVE  TypeInv'
<1>1. TabsTyped /\ PlacedInv
  BY TypeParts
<1>2. TabsTyped'
  BY <1>1, BecomesTyped DEF TabsTyped
<1>3. PlacedInv'
  BY <1>1, BecomesPlaced DEF TabsTyped
<1> QED
  BY <1>2, <1>3, TypeParts

\* A tab that stays where it was, for as long as its user does.
LEMMA StaysPut ==
  ASSUME NEW old \in TabTypes, Routed(old) = old, NEW new \in TabTypes,
         new.at = old.at, (new.user = None) <=> (old.user = None),
         new.adm = old.adm \/ old.at \notin AdminPlaces
  PROVE  There(old, new).at = old.at
<1>1. RoutedAt(old)
  BY RoutedSame
<1>2. RoutedAt(new)
  BY <1>1 DEF RoutedAt, AdminPlaces
<1>3. Routed(new) = new
  BY <1>2, RoutedSame
<1> QED
  BY <1>3, ThereFacts

\* Wherever the administrator's status sends it, it was no page of a student.
LEMMA StaysApart ==
  ASSUME NEW old \in TabTypes, Routed(old) = old, NEW new \in TabTypes,
         new.at = old.at, (new.user = None) <=> (old.user = None)
  PROVE  /\ old.at \notin AdminPlaces => There(old, new).at = old.at
         /\ old.at \in AdminPlaces => There(old, new).at \in AdminPlaces
<1>1. old.at \notin AdminPlaces => There(old, new).at = old.at
  BY StaysPut
<1>2. old.at \in AdminPlaces => There(old, new).at \in AdminPlaces
  BY ThereFacts, RoutedFacts
<1> QED
  BY <1>1, <1>2

LEMMA LoadedFacts ==
  ASSUME TabsTyped, NEW p \in Places
  PROVE  /\ Loaded(p) \in TabTypes /\ Loaded(p).at = p /\ Loaded(p).user = ReadStudent
         /\ Loaded(p).adm = "unknown" /\ Loaded(p).leaving = FALSE
<1>1. ReadStudent \in Sessions \cup {None}
  BY StoredFacts DEF ReadStudent, TabsTyped
<1> QED
  BY <1>1, StoredFacts DEF Loaded, TabTypes

LEMMA ProbeFacts ==
  ASSUME NEW t \in Tabs, NEW tok \in Tokens \cup {None}, NEW c \in Probe(t, tok)
  PROVE  /\ c \in CallTypes /\ c.op = "probe" /\ c.tab = t /\ c.heard = "page" /\ c.stage = "sent"
         /\ c.tok = tok /\ t \in AdminTabs /\ c = Request(t, "probe", tok, None, 0)
         /\ Known(c)
<1>1. c = Request(t, "probe", tok, None, 0) /\ t \in AdminTabs
  BY DEF Probe
<1>2. /\ c.op = "probe" /\ c.tab = t /\ c.heard = "page" /\ c.stage = "sent" /\ c.tok = tok
  BY <1>1 DEF Request
<1>3. c \in CallTypes
  BY <1>1, Constants DEF Request, CallTypes, Reads, Writes
<1>4. Known(c)
  BY <1>2, Constants DEF Known, AdmOps, AdminWrites, Saves, Shows
<1> QED
  BY <1>1, <1>2, <1>3, <1>4

LEMMA ForgottenFacts ==
  ASSUME NEW d \in CallTypes, d.stage = "sent", Known(d),
         NEW c, c = [d EXCEPT !.tab = None, !.heard = "nobody"]
  PROVE  /\ c \in CallTypes /\ c.op = d.op /\ c.tab = None /\ c.heard = "nobody" /\ c.tok = d.tok
         /\ c.who = d.who /\ c.val = d.val /\ c.stage = "sent" /\ Known(c)
<1>1. /\ c \in CallTypes /\ c.op = d.op /\ c.tab = None /\ c.heard = "nobody" /\ c.tok = d.tok
      /\ c.who = d.who /\ c.val = d.val /\ c.stage = "sent"
  BY DEF CallTypes
<1>2. Known(c)
  BY <1>1 DEF Known
<1> QED
  BY <1>1, <1>2

LEMMA TypeLoad ==
  ASSUME TypeInv, NEW t \in Tabs, NEW p \in Places, LoadPage(t, p), steps' \in {steps, steps + 1},
         steps' <= MaxSteps
  PROVE  TypeInv'
<1>0. RestTyped /\ TabsTyped /\ PlacedInv
  BY TypeParts
<1> DEFINE cs == Unlistened(t) \cup Probe(t, held.tok)
           old == [tabs[t] EXCEPT !.at = "nowhere"]
<1>1. Becomes(t, old, Loaded(p), held, cs, {}) /\ UNCHANGED <<account, gen, cookie, mixed>>
  BY DEF LoadPage, server
<1>2. Loaded(p) \in TabTypes /\ held \in Stored /\ {} \in Doubts
  BY <1>0, LoadedFacts DEF TabsTyped, Doubts
<1>3. held.tok \in Tokens \cup {None}
  BY <1>0 DEF TabsTyped, Stored
<1>4. ASSUME NEW c \in cs
      PROVE  /\ c \in CallTypes /\ Known(c)
             /\ c.heard # "nobody" => (c \in calls /\ c.tab # t) \/ (c.op = "probe" /\ c.tab = t)
  <2>1. CASE c \in Probe(t, held.tok)
    <3>1. PICK tok \in Tokens \cup {None} : tok = held.tok
      BY <1>3
    <3>2. c \in Probe(t, tok)
      BY <2>1, <3>1
    <3> QED
      BY <3>2, ProbeFacts
  <2>2. CASE c \in calls /\ c.tab # t
    BY <1>0, <2>2 DEF TabsTyped, PlacedInv
  <2>3. ASSUME NEW d \in calls, d.stage = "sent", c = [d EXCEPT !.tab = None, !.heard = "nobody"]
        PROVE  c \in CallTypes /\ Known(c) /\ c.heard = "nobody"
    <3>1. d \in CallTypes /\ Known(d)
      BY <1>0 DEF TabsTyped, PlacedInv
    <3> QED
      BY <2>3, <3>1, ForgottenFacts
  <2>4. CASE c \in Unlistened(t)
    <3>1. \/ c \in calls /\ c.tab # t
          \/ \E d \in calls : /\ d.tab = t /\ d.op \in Writes /\ d.stage = "sent"
                              /\ c = [d EXCEPT !.tab = None, !.heard = "nobody"]
      BY <2>4 DEF Unlistened
    <3> QED
      BY <2>2, <2>3, <3>1
  <2> QED
    BY <2>1, <2>4
<1> HIDE DEF cs
<1>5. old.at = "nowhere"
  BY <1>0 DEF TabsTyped, TabTypes
<1>6. LoginsDiffer(cs)
  BY <1>0, <1>4 DEF LoginsDiffer, PlacedInv
<1>7. Fits(t, old, Loaded(p), cs)
  BY <1>0, <1>4, <1>5, <1>6 DEF Fits, PlacedInv
<1>8. RestTyped'
  <2>1. steps' \in 0..MaxSteps /\ \A s \in Students : gen'[s] <= steps'
    BY <1>0, <1>1, Constants DEF RestTyped
  <2>2. admDoubt' \in [Tabs -> BOOLEAN]
    BY <1>0 DEF LoadPage, RestTyped
  <2> QED
    BY <1>0, <1>1, <2>1, <2>2 DEF RestTyped
<1>9. cs \in SUBSET CallTypes
  BY <1>4
<1> HIDE DEF old
<1> QED
  BY <1>1, <1>2, <1>7, <1>8, <1>9, BecomesKeeps

\* Some of the requests under way, while the tab goes somewhere.
LEMMA FitsSome ==
  ASSUME TypeInv, NEW t \in Tabs, NEW new \in TabTypes, NEW cs \in SUBSET calls,
         tabs[t].at = "login" =>
           There(tabs[t], new).at = "login" \/ \A c \in cs : ~(c.op = "login" /\ c.tab = t /\ c.heard # "nobody"),
         tabs[t].page # "off" => new.page # "off"
  PROVE  Fits(t, tabs[t], new, cs) /\ cs \in SUBSET CallTypes
<1>0. TabsTyped /\ PlacedInv
  BY TypeParts
<1>1. \A c \in cs : Known(c) /\ (c.heard # "nobody" => Placed(c, tabs[c.tab].at))
  BY <1>0 DEF PlacedInv
<1>2. LoginsDiffer(cs)
  BY <1>0 DEF PlacedInv, LoginsDiffer
<1>3. ASSUME NEW c \in cs, c.heard # "nobody", c.tab = t, c.op = "login"
      PROVE  There(tabs[t], new).at = "login"
  <2>1. tabs[t].at = "login"
    BY <1>1, <1>3 DEF Placed
  <2> QED
    BY <1>3, <2>1
<1>4. tabs[t].at = "profile" => tabs[t].page # "off"
  BY <1>0 DEF PlacedInv
<1> QED
  BY <1>0, <1>1, <1>2, <1>3, <1>4 DEF Fits, TabsTyped

LEMMA FitsStay ==
  ASSUME TypeInv, NEW t \in Tabs, NEW new \in TabTypes, NEW cs \in SUBSET calls,
         new.at = tabs[t].at, (new.user = None) <=> (tabs[t].user = None),
         tabs[t].page # "off" => new.page # "off"
  PROVE  Fits(t, tabs[t], new, cs) /\ cs \in SUBSET CallTypes
<1>0. tabs[t] \in TabTypes /\ Routed(tabs[t]) = tabs[t]
  BY TypeParts DEF TabsTyped
<1>1. tabs[t].at = "login" => There(tabs[t], new).at = "login"
  BY <1>0, StaysApart DEF AdminPlaces
<1> QED
  BY <1>1, FitsSome

LEMMA TypeGoes ==
  ASSUME TypeInv, NEW t \in Tabs, NEW p \in Places, tabs[t].at # "login", Press(t), Goes(t, p)
  PROVE  TypeInv'
<1>0. RestTyped /\ TabsTyped /\ PlacedInv
  BY TypeParts
<1> DEFINE new == [tabs[t] EXCEPT !.at = p]
<1>1. Becomes(t, tabs[t], new, held, calls, doubt[t])
      /\ UNCHANGED <<account, gen, cookie, mixed, admDoubt>> /\ steps' = steps + 1 /\ steps < MaxSteps
  BY DEF Goes, server, Press
<1>2. new \in TabTypes /\ new.page = tabs[t].page
  BY <1>0 DEF TabsTyped, TabTypes
<1>3. held \in Stored /\ calls \in SUBSET calls /\ doubt[t] \in Doubts
  BY <1>0 DEF TabsTyped
<1>4. RestTyped'
  BY <1>0, <1>1, Constants DEF RestTyped
<1> HIDE DEF new
<1>5. Fits(t, tabs[t], new, calls) /\ calls \in SUBSET CallTypes
  BY <1>2, <1>3, FitsSome
<1> QED
  BY <1>1, <1>2, <1>3, <1>4, <1>5, BecomesKeeps

LEMMA TypeLogout ==
  ASSUME TypeInv, NEW t \in Tabs, LogoutStudent(t)
  PROVE  TypeInv'
<1>0. RestTyped /\ TabsTyped /\ PlacedInv
  BY TypeParts
<1> DEFINE new == [tabs[t] EXCEPT !.user = None]
<1>1. Becomes(t, tabs[t], new, NoSession, calls, doubt[t])
      /\ UNCHANGED <<account, gen, cookie, admDoubt>> /\ steps' = steps + 1 /\ steps < MaxSteps
      /\ mixed' = (mixed \/ Underway(t, Saves)) /\ tabs[t].at \in Campus
  BY DEF LogoutStudent, server, Press
<1>2. new \in TabTypes /\ new.page = tabs[t].page
  BY <1>0 DEF TabsTyped, TabTypes
<1>3. NoSession \in Stored /\ calls \in SUBSET calls /\ doubt[t] \in Doubts
  BY <1>0, StoredFacts DEF TabsTyped
<1>4. mixed' \in BOOLEAN
  BY <1>0, <1>1, Zenon DEF RestTyped
<1>5. RestTyped'
  BY <1>0, <1>1, <1>4, Constants DEF RestTyped
<1> HIDE DEF new
<1>6. Fits(t, tabs[t], new, calls) /\ calls \in SUBSET CallTypes
  BY <1>1, <1>2, <1>3, FitsSome DEF Campus
<1> QED
  BY <1>1, <1>2, <1>3, <1>5, <1>6, BecomesKeeps

LEMMA SessionFacts ==
  ASSUME NEW c \in CallTypes, Known(c), c.stage = "ok", c.op = "login"
  PROVE  LoginStudent(<<c.who, c.val>>, c.got["name"]) \in Sessions
<1>1. c.who \in Students /\ c.val \in 0..MaxSteps /\ c.got \in Of(c.who)
  BY DEF Known, CallTypes
<1>2. c.got["name"] \in Values
  BY <1>1 DEF Of, Values, Fields
<1>3. [NoDetails EXCEPT !.name = c.got["name"]] \in Details
  BY <1>2, StoredFacts DEF Details, NoDetails
<1>4. <<c.who, c.val>> \in Tokens
  BY <1>1 DEF Tokens
<1> QED
  BY <1>3, <1>4 DEF LoginStudent, Sessions

LEMMA TypeLoggedIn ==
  ASSUME TypeInv, NEW c \in calls, LoggedIn(c)
  PROVE  TypeInv'
<1>0. RestTyped /\ TabsTyped /\ PlacedInv
  BY TypeParts
<1>1. c \in CallTypes /\ Known(c) /\ c.tab # None /\ c.heard # "nobody" /\ c.stage = "ok" /\ c.op = "login"
  BY <1>0 DEF LoggedIn, Arrives, TabsTyped, PlacedInv
<1>2. PICK t \in Tabs : t = c.tab
  BY <1>1 DEF CallTypes
<1> DEFINE session == LoginStudent(<<c.who, c.val>>, c.got["name"])
           new == [tabs[t] EXCEPT !.user = session]
           more == \E u \in Tabs \ {t} : tabs[u].user # None /\ Owner(tabs[u].user.tok) # c.who
<1>3. Becomes(t, tabs[t], new, session, calls \ {c}, {})
      /\ UNCHANGED <<account, gen, cookie, admDoubt, steps>> /\ mixed' = (mixed \/ more)
  BY <1>2 DEF LoggedIn, server
<1>4. session \in Sessions
  BY <1>1, SessionFacts
<1> HIDE DEF session, more
<1>5. new \in TabTypes /\ new.page = tabs[t].page
  BY <1>0, <1>4 DEF TabsTyped, TabTypes
<1>6. session \in Stored /\ {} \in Doubts /\ calls \ {c} \in SUBSET calls
  BY <1>4, StoredFacts DEF Doubts
<1>7. mixed' \in BOOLEAN
  BY <1>0, <1>3, Zenon DEF RestTyped, more
<1>8. RestTyped'
  BY <1>0, <1>3, <1>7 DEF RestTyped
<1> HIDE DEF new
<1>9. \A d \in calls \ {c} : ~(d.op = "login" /\ d.tab = t /\ d.heard # "nobody")
  BY <1>0, <1>1, <1>2 DEF PlacedInv, LoginsDiffer
<1>10. Fits(t, tabs[t], new, calls \ {c}) /\ calls \ {c} \in SUBSET CallTypes
  BY <1>5, <1>6, <1>9, FitsSome
<1> QED
  BY <1>3, <1>5, <1>6, <1>8, <1>10, BecomesKeeps

LEMMA OfFacts ==
  ASSUME NEW s \in Students, NEW d \in Of(s)
  PROVE  /\ d \in Details
         /\ \A f \in Fields : d[f] # None /\ Owner(d[f]) = s /\ d[f] \in Tokens
<1>1. \A f \in Fields : d[f] \in {s} \X (0..MaxSteps)
  BY DEF Of
<1>2. \A x \in {s} \X (0..MaxSteps) : x \in Tokens /\ x \in Values /\ Owner(x) = s
  BY DEF Tokens, Values, Owner
<1>3. d \in Details
  BY <1>1, <1>2 DEF Details, Of
<1> QED
  BY <1>1, <1>2, <1>3, Constants

LEMMA TokenFacts ==
  ASSUME NEW tok \in Tokens
  PROVE  Owner(tok) \in Students /\ tok[2] \in 0..MaxSteps /\ tok[1] = Owner(tok) /\ tok # None
BY Constants DEF Tokens, Owner

LEMMA PatchFacts ==
  ASSUME NEW session, NEW patch, NEW fs \in SUBSET Fields, fs = {} \/ patch \in Details,
         NEW p, p = Patch(session, patch, fs)
  PROVE  /\ session \in Sessions => p \in Sessions
         /\ session \in Stored => p \in Stored
         /\ session \in Stored => p.tok = session.tok
                                  /\ \A f \in Fields : p.of[f] = IF f \in fs THEN patch[f] ELSE session.of[f]
<1> DEFINE of == [f \in Fields |-> IF f \in fs THEN patch[f] ELSE session.of[f]]
<1>1. ASSUME session \in Stored
      PROVE  of \in Details
  BY <1>1 DEF Stored, Details
<1>2. p = [session EXCEPT !.of = of]
  BY DEF Patch
<1>3. session \in Sessions => session \in Stored
  BY StoredFacts
<1>4. \A f \in Fields : of[f] = IF f \in fs THEN patch[f] ELSE session.of[f]
  OBVIOUS
<1> HIDE DEF of
<1>5. session \in Stored => p \in Stored /\ p.of = of /\ p.tok = session.tok
  BY <1>1, <1>2 DEF Stored
<1>6. session \in Sessions => p \in Sessions
  BY <1>1, <1>2, <1>3 DEF Sessions
<1> QED
  BY <1>4, <1>5, <1>6

LEMMA TypeUpdates ==
  ASSUME TypeInv, NEW c \in calls, c.tab # None, NEW shown \in TabTypes,
         shown.at = tabs[c.tab].at, shown.user = tabs[c.tab].user,
         tabs[c.tab].page # "off" => shown.page # "off",
         NEW fs \in SUBSET Fields, fs = {} \/ c.got \in Details, Updates(c, shown, fs)
  PROVE  TypeInv'
<1>0. RestTyped /\ TabsTyped /\ PlacedInv
  BY TypeParts
<1>1. PICK t \in Tabs : t = c.tab
  BY <1>0 DEF TabsTyped, CallTypes
<1>2. PICK user : user = tabs[t].user OBVIOUS
<1> DEFINE u == UpdateStudentProfile(user, c.got, fs)
           new == [shown EXCEPT !.user = u]
           h == StoredProfile(user, c.got, fs)
<1>3. Becomes(t, tabs[t], new, h, calls \ {c}, doubt[t])
      /\ UNCHANGED <<account, gen, cookie, mixed, admDoubt, steps>>
  BY <1>1, <1>2 DEF Updates, server
<1>4. user \in Sessions \cup {None} /\ held \in Stored
  BY <1>0, <1>2 DEF TabsTyped, TabTypes
<1>5. u \in Sessions \cup {None} /\ ((u = None) <=> (user = None))
  BY <1>4, PatchFacts, Constants DEF UpdateStudentProfile
<1>6. h \in Stored
  BY <1>4, PatchFacts DEF StoredProfile
<1> HIDE DEF u, h
<1>7. new \in TabTypes /\ new.page = shown.page /\ new.at = shown.at /\ new.user = u
  BY <1>5 DEF TabTypes
<1> HIDE DEF new
<1>8. Fits(t, tabs[t], new, calls \ {c}) /\ calls \ {c} \in SUBSET CallTypes
  <2>1. calls \ {c} \in SUBSET calls
    OBVIOUS
  <2>2. new.at = tabs[t].at /\ ((new.user = None) <=> (tabs[t].user = None))
        /\ (tabs[t].page # "off" => new.page # "off")
    BY <1>1, <1>2, <1>5, <1>7
  <2> QED
    BY <1>7, <2>1, <2>2, FitsStay
<1>9. RestTyped' /\ doubt[t] \in Doubts
  BY <1>0, <1>3 DEF RestTyped, TabsTyped
<1> QED
  BY <1>3, <1>6, <1>7, <1>8, <1>9, BecomesKeeps

LEMMA ArrivesFacts ==
  ASSUME TypeInv, NEW c \in calls, c.tab # None
  PROVE  c \in CallTypes /\ Known(c) /\ c.tab \in Tabs /\ tabs[c.tab] \in TabTypes
BY TypeParts, Constants DEF TabsTyped, PlacedInv, CallTypes

LEMMA DoneFacts ==
  ASSUME NEW tab \in TabTypes, NEW c, NEW d, d = Done(tab, c)
  PROVE  d \in TabTypes /\ d.at = tab.at /\ d.user = tab.user /\ d.page = tab.page /\ d.adm = tab.adm
         /\ d.prof = tab.prof /\ d.leaving = tab.leaving
BY DEF Done, TabTypes

LEMMA GotFacts ==
  ASSUME TypeInv, NEW c \in calls, c.stage = "ok", c.op \in Shows
  PROVE  c.tok \in Tokens /\ c.got \in Of(Owner(c.tok)) /\ c.got \in Details
<1>1. c \in CallTypes /\ Known(c)
  BY TypeParts DEF TabsTyped, PlacedInv
<1>2. c.tok \in Tokens /\ c.got \in Of(Owner(c.tok))
  BY <1>1 DEF Known, CallTypes
<1> QED
  BY <1>2, TokenFacts, OfFacts

LEMMA FieldFacts == \A op \in Saves : FieldOf(op) \in Fields
BY DEF Saves, FieldOf, Fields

Answers(c) == ProfileRead(c) \/ FieldSaved(c) \/ PasswordSaved(c) \/ OtherAnswered(c)

\* The answer of a request that is neither a login nor an error: what the tab
\* becomes before the routes, and which fields go to the header.
Shown(c, shown, tab) ==
  /\ Updates(c, shown, InHeader(c.op))
  /\ shown.at = tab.at /\ shown.user = tab.user /\ shown.leaving = tab.leaving
  /\ shown.page = (IF c.op = "profile" THEN "ready" ELSE tab.page)
  /\ shown.adm = AdminStatus(c.op, TRUE, tab.adm)
  /\ \A f \in Fields :
       shown.prof[f] = IF c.heard = "page" /\ f \in OnPage(c.op) THEN c.got[f] ELSE tab.prof[f]

LEMMA AnswersMean ==
  ASSUME TypeInv, NEW c \in calls, Answers(c)
  PROVE  /\ c.tab # None /\ c.stage = "ok" /\ c.heard # "nobody"
         /\ InHeader(c.op) \in SUBSET Fields /\ (InHeader(c.op) = {} \/ c.got \in Details)
         /\ InHeader(c.op) # {} => c.op \in Shows
         /\ \E shown \in TabTypes : Shown(c, shown, tabs[c.tab])
<1>1. /\ c.tab # None /\ c.stage = "ok" /\ c.heard # "nobody"
      /\ c.op # "login"
  BY DEF Answers, ProfileRead, FieldSaved, PasswordSaved, OtherAnswered, Arrives, Saves, AdminWrites
<1>2. PICK tab \in TabTypes : tab = tabs[c.tab]
  BY <1>1, ArrivesFacts
<1>3. c \in CallTypes /\ Known(c) /\ c.heard \in {"page", "tab"}
  BY <1>1, ArrivesFacts DEF CallTypes
<1>4. /\ InHeader(c.op) \in SUBSET Fields /\ (InHeader(c.op) = {} \/ c.op \in Shows)
      /\ OnPage(c.op) \in SUBSET Fields
  BY FieldFacts DEF InHeader, OnPage, Shows
<1>5. c.op \in Shows => c.got \in Details
  BY <1>1, GotFacts
<1>6. \A was : c.op \notin AdmOps => AdminStatus(c.op, TRUE, was) = was
  BY DEF AdminStatus, AdmOps, AdminWrites
<1>7. CASE ProfileRead(c)
  <2>1. c.op \in {"me", "profile"} /\ c.op \notin AdmOps
    BY <1>7 DEF ProfileRead, Arrives, AdmOps, AdminWrites
  <2>2. InHeader(c.op) = Fields /\ (c.op = "me" => OnPage(c.op) = {}) /\ (c.op = "profile" => OnPage(c.op) = Fields)
    BY <2>1 DEF InHeader, OnPage, Saves
  <2>3. c.heard = "page" /\ c.got \in Details
    BY <1>3, <1>5, <2>1 DEF Known, Saves, Shows
  <2>4. PICK shown : shown = IF c.op = "me" THEN tab ELSE [tab EXCEPT !.page = "ready", !.prof = c.got] OBVIOUS
  <2>5. Updates(c, shown, Fields)
    BY <1>2, <1>7, <2>4 DEF ProfileRead
  <2>6. /\ shown \in TabTypes /\ shown.at = tab.at /\ shown.user = tab.user /\ shown.leaving = tab.leaving
        /\ shown.page = (IF c.op = "profile" THEN "ready" ELSE tab.page) /\ shown.adm = tab.adm
        /\ shown.prof = IF c.op = "profile" THEN c.got ELSE tab.prof
    BY <2>1, <2>3, <2>4 DEF TabTypes
  <2>7. Shown(c, shown, tab)
    BY <1>6, <2>1, <2>2, <2>3, <2>5, <2>6 DEF Shown
  <2> QED
    BY <1>1, <1>2, <1>4, <1>5, <2>6, <2>7
<1>8. CASE FieldSaved(c)
  <2>1. c.op \in Saves /\ c.op # "profile" /\ c.op \notin AdmOps
    BY <1>8 DEF FieldSaved, Arrives, AdmOps, AdminWrites, Saves
  <2>2. PICK f \in Fields : f = FieldOf(c.op)
    BY <2>1, FieldFacts
  <2>3. c.got \in Details
    BY <1>5, <2>1 DEF Shows
  <2>4. InHeader(c.op) = {f} /\ OnPage(c.op) = IF f = "name" THEN Fields ELSE {f}
    BY <2>1, <2>2 DEF InHeader, OnPage, Saves, FieldOf
  <2>5. PICK prof : prof = IF c.heard = "tab" THEN tab.prof
                           ELSE IF f = "name" THEN c.got ELSE [tab.prof EXCEPT ![f] = c.got[f]] OBVIOUS
  <2>6. prof \in Details
    BY <2>3, <2>5 DEF TabTypes, Details
  <2>7. \A g \in Fields : prof[g] = IF c.heard = "page" /\ g \in OnPage(c.op) THEN c.got[g] ELSE tab.prof[g]
    BY <1>3, <2>3, <2>4, <2>5 DEF TabTypes, Details
  <2>8. PICK shown : shown = [Done(tab, c) EXCEPT !.prof = prof] OBVIOUS
  <2>9. Updates(c, shown, {f})
    BY <1>2, <1>8, <2>2, <2>5, <2>8 DEF FieldSaved
  <2>10. /\ shown \in TabTypes /\ shown.at = tab.at /\ shown.user = tab.user /\ shown.leaving = tab.leaving
         /\ shown.page = tab.page /\ shown.adm = tab.adm /\ shown.prof = prof
    BY <2>6, <2>8, DoneFacts DEF TabTypes
  <2>11. Shown(c, shown, tab)
    BY <1>6, <2>1, <2>4, <2>7, <2>9, <2>10 DEF Shown
  <2> QED
    BY <1>1, <1>2, <1>4, <1>5, <2>10, <2>11
<1>9. CASE PasswordSaved(c)
  <2>1. c.op = "password" /\ c.op \notin AdmOps
    BY <1>9 DEF PasswordSaved, Arrives, AdmOps, AdminWrites
  <2>2. InHeader(c.op) = {} /\ OnPage(c.op) = {}
    BY <2>1 DEF InHeader, OnPage, Saves
  <2>3. PICK shown : shown = Done(tab, c) OBVIOUS
  <2>4. Updates(c, shown, {})
    BY <1>2, <1>9, <2>3 DEF PasswordSaved
  <2>5. /\ shown \in TabTypes /\ shown.at = tab.at /\ shown.user = tab.user /\ shown.leaving = tab.leaving
        /\ shown.page = tab.page /\ shown.adm = tab.adm /\ shown.prof = tab.prof
    BY <2>3, DoneFacts
  <2>6. Shown(c, shown, tab)
    BY <1>6, <2>1, <2>2, <2>4, <2>5 DEF Shown
  <2> QED
    BY <1>1, <1>2, <1>4, <1>5, <2>5, <2>6
<1>10. CASE OtherAnswered(c)
  <2>1. c.op \in {"course", "probe", "adminWork"} \cup AdminWrites /\ c.op # "profile"
    BY <1>10 DEF OtherAnswered, Arrives, AdminWrites
  <2>2. InHeader(c.op) = {} /\ OnPage(c.op) = {}
    BY <2>1 DEF InHeader, OnPage, Saves, AdminWrites
  <2>3. PICK adm : adm = AdminStatus(c.op, TRUE, tab.adm) OBVIOUS
  <2>4. adm \in {"unknown", "authenticated", "anonymous"}
    BY <2>3 DEF AdminStatus, TabTypes
  <2>5. PICK shown : shown = [tab EXCEPT !.adm = adm] OBVIOUS
  <2>6. Updates(c, shown, {})
    BY <1>2, <1>10, <2>3, <2>5 DEF OtherAnswered
  <2>7. /\ shown \in TabTypes /\ shown.at = tab.at /\ shown.user = tab.user /\ shown.leaving = tab.leaving
        /\ shown.page = tab.page /\ shown.adm = adm /\ shown.prof = tab.prof
    BY <2>4, <2>5 DEF TabTypes
  <2>8. Shown(c, shown, tab)
    BY <2>1, <2>2, <2>3, <2>6, <2>7 DEF Shown
  <2> QED
    BY <1>1, <1>2, <1>4, <1>5, <2>7, <2>8
<1> QED
  BY <1>7, <1>8, <1>9, <1>10 DEF Answers

LEMMA TypeAnswers ==
  ASSUME TypeInv, NEW c \in calls, Answers(c)
  PROVE  TypeInv'
<1>1. /\ c.tab # None /\ InHeader(c.op) \in SUBSET Fields /\ (InHeader(c.op) = {} \/ c.got \in Details)
      /\ \E shown \in TabTypes : Shown(c, shown, tabs[c.tab])
  BY AnswersMean
<1>2. PICK shown \in TabTypes : Shown(c, shown, tabs[c.tab])
  BY <1>1
<1> QED
  BY <1>1, <1>2, TypeUpdates DEF Shown

LEMMA FailedFacts ==
  ASSUME NEW tab \in TabTypes, NEW c, NEW d, d = Failed(tab, c)
  PROVE  /\ d \in TabTypes /\ d.at = tab.at /\ d.user = tab.user /\ d.prof = tab.prof
         /\ d.leaving = tab.leaving
         /\ d.page = (IF c.heard # "nobody" /\ c.op = "profile" THEN "error" ELSE tab.page)
         /\ d.adm = (IF c.heard = "nobody" THEN tab.adm ELSE AdminStatus(c.op, FALSE, tab.adm))
<1>1. CASE c.heard = "nobody"
  BY <1>1 DEF Failed
<1>2. CASE c.heard # "nobody"
  <2>1. PICK e : e = Done(tab, c) OBVIOUS
  <2>2. e \in TabTypes /\ e.at = tab.at /\ e.user = tab.user /\ e.page = tab.page /\ e.adm = tab.adm
         /\ e.prof = tab.prof /\ e.leaving = tab.leaving
    BY <2>1, DoneFacts
  <2>3. PICK adm : adm = AdminStatus(c.op, FALSE, e.adm) OBVIOUS
  <2>4. adm \in {"unknown", "authenticated", "anonymous"}
    BY <2>2, <2>3 DEF AdminStatus, TabTypes
  <2>5. PICK page : page = IF c.op = "profile" THEN "error" ELSE e.page OBVIOUS
  <2>6. page \in {"off", "loading", "ready", "error"}
    BY <2>2, <2>5 DEF TabTypes
  <2>7. d = [e EXCEPT !.adm = adm, !.page = page]
    BY <1>2, <2>1, <2>3, <2>5 DEF Failed
  <2>8. d \in TabTypes /\ d.at = e.at /\ d.user = e.user /\ d.prof = e.prof /\ d.leaving = e.leaving
        /\ d.page = page /\ d.adm = adm
    BY <2>2, <2>4, <2>6, <2>7 DEF TabTypes
  <2> QED
    BY <1>2, <2>2, <2>3, <2>5, <2>8
<1> QED
  BY <1>1, <1>2

LEMMA DoubtOfTyped ==
  ASSUME NEW c
  PROVE  DoubtOf(c) \in Doubts
BY FieldFacts DEF DoubtOf, OfField, Doubts

LEMMA TypeUnauthorized ==
  ASSUME TypeInv, NEW c \in calls, Unauthorized(c)
  PROVE  TypeInv'
<1>0. RestTyped /\ TabsTyped /\ PlacedInv
  BY TypeParts
<1>1. c \in CallTypes /\ Known(c) /\ c.stage = "unauthorized"
  BY <1>0 DEF Unauthorized, TabsTyped, PlacedInv
<1>2. PICK t \in Tabs : t = c.tab
  BY <1>1 DEF Known, CallTypes
<1>3. PICK tab \in TabTypes : tab = tabs[t]
  BY <1>0 DEF TabsTyped
<1>4. PICK f : f = Failed(tab, c) OBVIOUS
<1>5. f \in TabTypes /\ f.at = tab.at /\ f.user = tab.user /\ (tab.page # "off" => f.page # "off")
  BY <1>4, FailedFacts
<1>6. PICK ends \in BOOLEAN : ends = EndsSession(t, c)
  BY DEF EndsSession
<1>7. PICK new : new = [f EXCEPT !.leaving = @ \/ ends] OBVIOUS
<1>8. PICK h : h = IF ends THEN NoSession ELSE held OBVIOUS
<1>9. Becomes(t, tabs[t], new, h, calls \ {c}, doubt[t] \cup DoubtOf(c))
      /\ UNCHANGED <<account, gen, cookie, mixed, admDoubt, steps>>
  BY <1>2, <1>3, <1>4, <1>6, <1>7, <1>8 DEF Unauthorized, server
<1>10. new \in TabTypes /\ new.at = tab.at /\ new.user = tab.user /\ new.page = f.page
  <2>1. (f.leaving \/ ends) \in BOOLEAN
    BY <1>5, <1>6 DEF TabTypes
  <2> QED
    BY <1>5, <1>7, <2>1 DEF TabTypes
<1>11. h \in Stored
  BY <1>0, <1>8, StoredFacts DEF TabsTyped
<1>12. RestTyped' /\ doubt[t] \cup DoubtOf(c) \in Doubts
  BY <1>0, <1>9, DoubtOfTyped DEF RestTyped, TabsTyped, Doubts
<1>13. calls \ {c} \in SUBSET calls
  OBVIOUS
<1>14. Fits(t, tabs[t], new, calls \ {c}) /\ calls \ {c} \in SUBSET CallTypes
  BY <1>3, <1>5, <1>10, <1>13, FitsStay
<1> QED
  BY <1>9, <1>10, <1>11, <1>12, <1>14, BecomesKeeps

LEMMA TypeFails ==
  ASSUME TypeInv, NEW c \in calls, Fails(c)
  PROVE  TypeInv'
<1>0. RestTyped /\ TabsTyped /\ PlacedInv
  BY TypeParts
<1>1. c \in CallTypes /\ Known(c) /\ c.tab # None /\ c.heard # "nobody"
  BY <1>0 DEF Fails, TabsTyped, PlacedInv
<1>2. PICK t \in Tabs : t = c.tab
  BY <1>1 DEF CallTypes
<1>3. PICK tab \in TabTypes : tab = tabs[t]
  BY <1>0 DEF TabsTyped
<1>4. PICK new : new = Failed(tab, c) OBVIOUS
<1>5. new \in TabTypes /\ new.at = tab.at /\ new.user = tab.user /\ (tab.page # "off" => new.page # "off")
  BY <1>4, FailedFacts
<1> DEFINE left == IF c.op \in Writes /\ c.stage = "sent"
                     THEN {[c EXCEPT !.tab = None, !.heard = "nobody"]} ELSE {}
           cs == (calls \ {c}) \cup left
<1>6. Becomes(t, tabs[t], new, held, cs, doubt[t] \cup DoubtOf(c))
      /\ UNCHANGED <<account, gen, cookie, mixed>> /\ steps < MaxSteps /\ steps' = steps + 1
  BY <1>2, <1>3, <1>4 DEF Fails, server
<1>7. ASSUME NEW d \in left
      PROVE  d \in CallTypes /\ Known(d) /\ d.heard = "nobody"
  BY <1>1, <1>7, ForgottenFacts
<1> HIDE DEF left
<1>8. admDoubt' \in [Tabs -> BOOLEAN]
  BY <1>0 DEF Fails, RestTyped
<1>9. RestTyped' /\ doubt[t] \cup DoubtOf(c) \in Doubts
  BY <1>0, <1>6, <1>8, DoubtOfTyped, Constants DEF RestTyped, TabsTyped, Doubts
<1>10. cs \in SUBSET CallTypes
  BY <1>0, <1>7 DEF TabsTyped
<1>11. Fits(t, tabs[t], new, calls \ {c})
  <2>1. calls \ {c} \in SUBSET calls
    OBVIOUS
  <2> QED
    BY <1>3, <1>5, <2>1, FitsStay
<1>12. Fits(t, tabs[t], new, cs)
  <2>1. LoginsDiffer(cs)
    BY <1>7, <1>11 DEF LoginsDiffer, Fits
  <2> QED
    BY <1>7, <1>11, <2>1 DEF Fits
<1> HIDE DEF cs
<1>13. held \in Stored
  BY <1>0 DEF TabsTyped
<1> QED
  BY <1>5, <1>6, <1>9, <1>10, <1>12, <1>13, BecomesKeeps

LEMMA RequestFacts ==
  ASSUME NEW t \in Tabs, NEW op \in Reads \cup Writes, NEW tok \in Tokens \cup {None},
         NEW who \in Students \cup {None}, NEW val \in 0..MaxSteps,
         NEW c, c = Request(t, op, tok, who, val)
  PROVE  /\ c \in CallTypes /\ c.op = op /\ c.tab = t /\ c.heard = "page" /\ c.tok = tok
         /\ c.who = who /\ c.val = val /\ c.stage = "sent" /\ c.got = None
         /\ (op = "login" => who \in Students) => Known(c)
<1>1. /\ c \in CallTypes /\ c.op = op /\ c.tab = t /\ c.heard = "page" /\ c.tok = tok
      /\ c.who = who /\ c.val = val /\ c.stage = "sent" /\ c.got = None
  BY DEF Request, CallTypes
<1>2. (op = "login" => who \in Students) => Known(c)
  BY <1>1, Constants DEF Known, Saves
<1> QED
  BY <1>1, <1>2

\* A request more, of a tab that keeps its place.
LEMMA TypeAsk ==
  ASSUME TypeInv, RestTyped', NEW t \in Tabs, NEW c \in CallTypes, Known(c), c.tab = t,
         calls' = calls \cup {c}, held' = held,
         tabs' \in [Tabs -> TabTypes], \A u \in Tabs : tabs'[u].at = tabs[u].at /\ tabs'[u].page = tabs[u].page,
         \A u \in Tabs : Routed(tabs'[u]) = tabs'[u],
         doubt' \in [Tabs -> Doubts],
         Placed(c, tabs[t].at), c.op = "login" => ~Underway(t, {"login"})
  PROVE  TypeInv'
<1>0. TabsTyped /\ PlacedInv
  BY TypeParts
<1>1. TabsTyped'
  BY <1>0 DEF TabsTyped
<1>2. ASSUME NEW d \in calls'
      PROVE  Known(d) /\ (d.heard # "nobody" => Placed(d, tabs'[d.tab].at))
  <2>1. CASE d = c
    BY <2>1
  <2>2. CASE d \in calls
    <3>1. Known(d) /\ d \in CallTypes /\ (d.heard # "nobody" => Placed(d, tabs[d.tab].at))
      BY <1>0, <2>2 DEF PlacedInv, TabsTyped
    <3>2. d.heard # "nobody" => d.tab \in Tabs
      BY <3>1 DEF Known, CallTypes
    <3> QED
      BY <3>1, <3>2
  <2> QED
    BY <2>1, <2>2
<1>3. LoginsDiffer(calls)'
  BY <1>0 DEF PlacedInv, LoginsDiffer, Underway
<1>4. \A u \in Tabs : (tabs'[u].page = "off") <=> (tabs'[u].at # "profile")
  BY <1>0 DEF PlacedInv
<1>5. PlacedInv'
  BY <1>2, <1>3, <1>4 DEF PlacedInv
<1> QED
  BY <1>1, <1>5, TypeParts

LEMMA TypeSend ==
  ASSUME TypeInv, NEW t \in Tabs, Press(t), NEW op \in Reads \cup Writes, NEW who \in Students \cup {None},
         Send(t, {Request(t, op, held.tok, who, 0)}), admDoubt' \in [Tabs -> BOOLEAN],
         UNCHANGED <<held, tabs, account, gen, cookie, mixed>>,
         op \notin {"me", "profile", "password"} \cup Saves,
         op = "course" => tabs[t].at \in Campus,
         op = "login" => tabs[t].at = "login" /\ who \in Students /\ ~Underway(t, {"login"})
  PROVE  TypeInv'
<1>0. RestTyped /\ TabsTyped
  BY TypeParts
<1>1. steps < MaxSteps /\ steps' = steps + 1
  BY DEF Press
<1>2. RestTyped'
  BY <1>0, <1>1, Constants DEF RestTyped
<1>3. held.tok \in Tokens \cup {None}
  BY <1>0 DEF TabsTyped, Stored
<1>4. PICK tok \in Tokens \cup {None} : tok = held.tok
  BY <1>3
<1>5. PICK c : c = Request(t, op, tok, who, 0) OBVIOUS
<1>6. 0 \in 0..MaxSteps
  BY Constants
<1>7. c \in CallTypes /\ c.op = op /\ c.tab = t /\ Known(c)
  BY <1>5, <1>6, RequestFacts
<1>8. calls' = calls \cup {c}
  BY <1>4, <1>5 DEF Send
<1> DEFINE more == UNION {Overlap(x, d) : x \in {c}, d \in calls}
<1>10. more \in Doubts
  <2> SUFFICES ASSUME NEW x \in more
               PROVE  x \in Fields \X {"header", "page"}
    BY DEF Doubts
  <2>1. PICK d \in calls : x \in Overlap(c, d)
    OBVIOUS
  <2> QED
    BY <2>1, OverlapTyped
<1>11. doubt' = [doubt EXCEPT ![t] = @ \cup more]
  BY <1>4, <1>5 DEF Send
<1> HIDE DEF more
<1>12. doubt' \in [Tabs -> Doubts]
  BY <1>0, <1>10, <1>11 DEF TabsTyped, Doubts
<1>13. Placed(c, tabs[t].at)
  BY <1>7 DEF Placed
<1> QED
  BY <1>0, <1>2, <1>7, <1>8, <1>12, <1>13, TypeAsk DEF TabsTyped

LEMMA TypeAsks ==
  ASSUME TypeInv, NEW t \in Tabs,
         \/ OpenCourse(t) \/ (\E s \in Students : SubmitLogin(t, s))
         \/ LoginAdmin(t) \/ LogoutAdmin(t) \/ AdminWork(t)
  PROVE  TypeInv'
<1>0. RestTyped
  BY TypeParts
<1>1. {"course", "login", "adminLogin", "adminLogout", "adminWork"} \subseteq Reads \cup Writes
  BY DEF Reads, Writes, AdminWrites
<1>2. \A op \in {"course", "login", "adminLogin", "adminLogout", "adminWork"} :
        op \notin {"me", "profile", "password"} \cup Saves
  BY DEF Saves
<1>3. CASE OpenCourse(t)
  <2>1. /\ Press(t) /\ tabs[t].at \in Campus /\ Send(t, {Request(t, "course", held.tok, None, 0)})
        /\ UNCHANGED <<held, tabs, account, gen, cookie, mixed, admDoubt>>
    BY <1>3 DEF OpenCourse, server, Campus
  <2> QED
    BY <1>0, <1>1, <1>2, <2>1, TypeSend DEF RestTyped
<1>4. ASSUME NEW s \in Students, SubmitLogin(t, s)
      PROVE  TypeInv'
  <2>1. /\ Press(t) /\ tabs[t].at = "login" /\ ~Underway(t, {"login"})
        /\ Send(t, {Request(t, "login", held.tok, s, 0)})
        /\ UNCHANGED <<held, tabs, account, gen, cookie, mixed, admDoubt>>
    BY <1>4 DEF SubmitLogin, server
  <2> QED
    BY <1>0, <1>1, <1>2, <2>1, TypeSend DEF RestTyped
<1>5. ASSUME NEW op \in {"adminLogin", "adminLogout"}, Press(t), AdminCall(t, op)
      PROVE  TypeInv'
  <2>1. /\ Send(t, {Request(t, op, held.tok, None, 0)})
        /\ UNCHANGED <<held, tabs, account, gen, cookie, mixed>>
    BY <1>5 DEF AdminCall, server
  <2>2. admDoubt' \in [Tabs -> BOOLEAN]
    <3>1. \A u \in Tabs : (admDoubt[u] \/ u # t \/ Underway(t, {"probe"} \cup AdminWrites)) \in BOOLEAN
      BY <1>0, Zenon DEF RestTyped
    <3> QED
      BY <1>5, <3>1 DEF AdminCall
  <2> QED
    BY <1>1, <1>2, <1>5, <2>1, <2>2, TypeSend
<1>6. CASE AdminWork(t)
  <2>1. /\ Press(t) /\ Send(t, {Request(t, "adminWork", held.tok, None, 0)})
        /\ UNCHANGED <<held, tabs, account, gen, cookie, mixed, admDoubt>>
    BY <1>6 DEF AdminWork, server
  <2> QED
    BY <1>0, <1>1, <1>2, <2>1, TypeSend DEF RestTyped
<1> QED
  BY <1>3, <1>4, <1>5, <1>6 DEF LoginAdmin, LogoutAdmin

\* The tab of a button that was pressed.
Pressed(tab, op, prof) == [tab EXCEPT !.busy = @ \cup {FieldOf(op)}, !.prof = prof]

LEMMA SavedTab ==
  ASSUME NEW tab \in TabTypes, NEW op \in Saves \cup {"password"}, NEW prof \in Details,
         NEW n, n = Pressed(tab, op, prof)
  PROVE  /\ n \in TabTypes /\ n.at = tab.at /\ n.user = tab.user /\ n.adm = tab.adm /\ n.page = tab.page
         /\ n.leaving = tab.leaving /\ n.prof = prof
         /\ Routed(tab) = tab => Routed(n) = n
<1>1. FieldOf(op) \in Fields \cup {"password"}
  BY DEF FieldOf, Fields, Saves
<1>2. PICK busy \in SUBSET (Fields \cup {"password"}) : busy = tab.busy \cup {FieldOf(op)}
  BY <1>1 DEF TabTypes
<1>3. n = [tab EXCEPT !.busy = busy, !.prof = prof]
  BY <1>2 DEF Pressed
<1>5. /\ n \in TabTypes /\ n.at = tab.at /\ n.user = tab.user /\ n.adm = tab.adm /\ n.page = tab.page
      /\ n.leaving = tab.leaving /\ n.prof = prof
  BY <1>3 DEF TabTypes
<1>6. Routed(tab) = tab => Routed(n) = n
  BY <1>5, RoutedSame DEF RoutedAt
<1> QED
  BY <1>5, <1>6

LEMMA TypeSave ==
  ASSUME TypeInv, NEW t \in Tabs, NEW op \in Saves \cup {"password"}, NEW val \in 0..MaxSteps,
         NEW prof \in Details, Save(t, op, val, prof)
  PROVE  TypeInv'
<1>0. RestTyped /\ TabsTyped /\ PlacedInv
  BY TypeParts
<1>1. /\ steps < MaxSteps /\ steps' = steps + 1 /\ tabs[t].page = "ready"
      /\ UNCHANGED <<held, account, gen, cookie, mixed, admDoubt>>
  BY DEF Save, Press, CanSave, server
<1>2. RestTyped'
  BY <1>0, <1>1, Constants DEF RestTyped
<1>3. PICK tok \in Tokens \cup {None} : tok = held.tok
  BY <1>0 DEF TabsTyped, Stored
<1>4. PICK c : c = Request(t, op, tok, None, val) OBVIOUS
<1>5. op \in Reads \cup Writes /\ op # "login" /\ op \notin {"me", "course", "profile", "login"}
  BY DEF Reads, Writes, Saves
<1>6. c \in CallTypes /\ c.op = op /\ c.tab = t /\ Known(c)
  BY <1>4, <1>5, RequestFacts
<1>7. calls' = calls \cup {c}
  BY <1>3, <1>4 DEF Save
<1>8. PICK tab \in TabTypes : tab = tabs[t]
  BY <1>0 DEF TabsTyped
<1>9. PICK n : n = Pressed(tab, op, prof) OBVIOUS
<1>10. tabs' = [tabs EXCEPT ![t] = n]
  <2>1. tabs' = [tabs EXCEPT ![t].busy = @ \cup {FieldOf(op)}, ![t].prof = prof]
    BY DEF Save
  <2>2. tabs \in [Tabs -> TabTypes]
    BY <1>0 DEF TabsTyped
  <2> QED
    BY <1>8, <1>9, <2>1, <2>2 DEF Pressed
<1>11. n \in TabTypes /\ n.at = tab.at /\ n.page = tab.page /\ Routed(n) = n
  <2>1. Routed(tab) = tab
    BY <1>0, <1>8 DEF TabsTyped
  <2> QED
    BY <1>9, <2>1, SavedTab
<1>12. /\ tabs' \in [Tabs -> TabTypes] /\ \A u \in Tabs : tabs'[u].at = tabs[u].at /\ tabs'[u].page = tabs[u].page
       /\ \A u \in Tabs : Routed(tabs'[u]) = tabs'[u]
  BY <1>0, <1>8, <1>10, <1>11 DEF TabsTyped
<1>13. doubt' \in [Tabs -> Doubts]
  <2> DEFINE more(u) == IF u # t THEN OfField({FieldOf(op)} \cap Fields)
                        ELSE UNION {Overlap(c, d) : d \in calls}
  <2>1. doubt' = [u \in Tabs |-> doubt[u] \cup more(u)]
    BY <1>3, <1>4 DEF Save
  <2>2. ASSUME NEW u \in Tabs
        PROVE  more(u) \in Doubts
    <3>1. OfField({FieldOf(op)} \cap Fields) \in Doubts
      BY DEF OfField, Doubts
    <3>2. UNION {Overlap(c, d) : d \in calls} \in Doubts
      <4> SUFFICES ASSUME NEW x \in UNION {Overlap(c, d) : d \in calls}
                   PROVE  x \in Fields \X {"header", "page"}
        BY DEF Doubts
      <4>1. PICK d \in calls : x \in Overlap(c, d)
        OBVIOUS
      <4> QED
        BY <4>1, OverlapTyped
    <3> QED
      BY <3>1, <3>2
  <2> HIDE DEF more
  <2>3. \A u \in Tabs : doubt[u] \cup more(u) \in Doubts
    BY <1>0, <2>2 DEF Doubts, TabsTyped
  <2> QED
    BY <2>1, <2>3
<1>14. Placed(c, tabs[t].at)
  <2>1. tabs[t].at = "profile"
    BY <1>0, <1>1 DEF PlacedInv
  <2> QED
    BY <1>5, <1>6, <2>1 DEF Placed
<1> QED
  BY <1>1, <1>2, <1>5, <1>6, <1>7, <1>12, <1>13, <1>14, TypeAsk

LEMMA TypeSaves ==
  ASSUME TypeInv, NEW t \in Tabs,
         \/ SubmitName(t) \/ SubmitAvatar(t) \/ RemoveAvatar(t) \/ SaveColor(t)
         \/ \E right \in {0, 1} : SubmitPassword(t, right)
  PROVE  TypeInv'
<1>0. RestTyped /\ TabsTyped
  BY TypeParts
<1>1. PICK tab \in TabTypes : tab = tabs[t]
  BY <1>0 DEF TabsTyped
<1>2. tab.prof \in Details /\ tab.user \in Sessions \cup {None}
  BY DEF TabTypes
<1>3. steps < MaxSteps
  BY DEF SubmitName, SubmitAvatar, RemoveAvatar, SaveColor, SubmitPassword, Save, Press
<1>4. steps + 1 \in 0..MaxSteps /\ {0, 1} \subseteq 0..MaxSteps
  BY <1>0, <1>3, Constants DEF RestTyped
<1>5. {"name", "avatar", "remove", "color", "password"} \subseteq Saves \cup {"password"}
  BY DEF Saves
<1>6. CASE SubmitName(t)
  BY <1>1, <1>2, <1>4, <1>5, <1>6, TypeSave DEF SubmitName
<1>7. CASE SubmitAvatar(t)
  BY <1>1, <1>2, <1>4, <1>5, <1>7, TypeSave DEF SubmitAvatar
<1>8. CASE RemoveAvatar(t)
  BY <1>1, <1>2, <1>4, <1>5, <1>8, TypeSave DEF RemoveAvatar
<1>9. CASE SaveColor(t)
  <2>1. tab.user \in Sessions
    BY <1>1, <1>2, <1>9 DEF SaveColor
  <2>2. tab.user.tok \in Tokens
    BY <2>1 DEF Sessions
  <2>3. PICK v : v = <<Owner(tab.user.tok), steps + 1>> OBVIOUS
  <2>4. v \in Values
    BY <1>4, <2>2, <2>3, TokenFacts DEF Values
  <2>5. PICK prof : prof = [tab.prof EXCEPT !["color"] = v] OBVIOUS
  <2>6. prof \in Details
    BY <1>2, <2>4, <2>5 DEF Details
  <2>7. Save(t, "color", steps + 1, prof)
    BY <1>1, <1>9, <2>3, <2>5 DEF SaveColor
  <2> QED
    BY <1>4, <1>5, <2>6, <2>7, TypeSave
<1>10. ASSUME NEW right \in {0, 1}, SubmitPassword(t, right)
       PROVE  TypeInv'
  BY <1>1, <1>2, <1>4, <1>5, <1>10, TypeSave DEF SubmitPassword
<1> QED
  BY <1>6, <1>7, <1>8, <1>9, <1>10

\* The server handles a request: it is gone, or stands there answered.
LEMMA TypeReplaced ==
  ASSUME TypeInv, RestTyped', NEW c \in calls, c.tab # None,
         NEW k \in CallTypes, Known(k), k.op = c.op, k.tab = c.tab, k.heard = c.heard,
         calls' = (calls \ {c}) \cup {k}, UNCHANGED <<held, tabs, doubt>>
  PROVE  TypeInv'
<1>0. TabsTyped /\ PlacedInv
  BY TypeParts
<1>1. TabsTyped'
  BY <1>0 DEF TabsTyped
<1>2. c \in CallTypes /\ Known(c) /\ (c.heard # "nobody" => Placed(c, tabs[c.tab].at))
  BY <1>0 DEF PlacedInv, TabsTyped
<1>3. k.heard # "nobody" => Placed(k, tabs[k.tab].at)
  BY <1>2 DEF Placed
<1>4. \A d \in calls' : Known(d) /\ (d.heard # "nobody" => Placed(d, tabs[d.tab].at))
  BY <1>0, <1>3 DEF PlacedInv
<1>5. LoginsDiffer(calls)'
  BY <1>0 DEF PlacedInv, LoginsDiffer
<1>6. PlacedInv'
  BY <1>0, <1>4, <1>5 DEF PlacedInv
<1> QED
  BY <1>1, <1>6, TypeParts

LEMMA TypeDropped ==
  ASSUME TypeInv, RestTyped', NEW c \in calls, calls' = calls \ {c}, UNCHANGED <<held, tabs, doubt>>
  PROVE  TypeInv'
<1>0. TabsTyped /\ PlacedInv
  BY TypeParts
<1>1. TabsTyped' /\ PlacedInv'
  BY <1>0 DEF TabsTyped, PlacedInv, LoginsDiffer
<1> QED
  BY <1>1, TypeParts

LEMMA TypeAnswered ==
  ASSUME TypeInv, RestTyped', NEW c \in calls, NEW got \in Details \cup {None},
         c.op \in Shows => c.tok # None /\ got \in Of(Owner(c.tok)), c.op # "login",
         Answered(c, got), UNCHANGED <<held, tabs, doubt>>
  PROVE  TypeInv'
<1>1. c \in CallTypes /\ Known(c)
  BY TypeParts DEF TabsTyped, PlacedInv
<1>2. CASE c.heard = "nobody"
  BY <1>2, TypeDropped DEF Answered
<1>3. CASE c.heard # "nobody"
  <2>1. PICK k : k = [c EXCEPT !.stage = "ok", !.got = got] OBVIOUS
  <2>2. /\ k \in CallTypes /\ k.op = c.op /\ k.tab = c.tab /\ k.heard = c.heard /\ k.tok = c.tok
        /\ k.who = c.who /\ k.stage = "ok" /\ k.got = got
    BY <1>1, <2>1 DEF CallTypes
  <2>3. c.tab # None
    BY <1>1, <1>3 DEF Known
  <2>4. Known(k)
    BY <1>1, <2>2, <2>3 DEF Known
  <2>5. calls' = (calls \ {c}) \cup {k}
    BY <1>3, <2>1 DEF Answered
  <2> QED
    BY <2>2, <2>3, <2>4, <2>5, TypeReplaced
<1> QED
  BY <1>2, <1>3

LEMMA TypeRefused ==
  ASSUME TypeInv, RestTyped', NEW c \in calls, Refused(c), UNCHANGED <<held, tabs, doubt>>
  PROVE  TypeInv'
<1>1. c \in CallTypes /\ Known(c)
  BY TypeParts DEF TabsTyped, PlacedInv
<1>2. CASE c.tab = None
  BY <1>2, TypeDropped DEF Refused
<1>3. CASE c.tab # None
  <2>1. PICK k : k = [c EXCEPT !.stage = "unauthorized"] OBVIOUS
  <2>2. /\ k \in CallTypes /\ k.op = c.op /\ k.tab = c.tab /\ k.heard = c.heard /\ k.tok = c.tok
        /\ k.who = c.who /\ k.stage = "unauthorized"
    BY <1>1, <2>1 DEF CallTypes
  <2>3. Known(k)
    BY <1>1, <1>3, <2>2 DEF Known
  <2>4. calls' = (calls \ {c}) \cup {k}
    BY <1>3, <2>1 DEF Refused
  <2> QED
    BY <1>3, <2>2, <2>3, <2>4, TypeReplaced
<1> QED
  BY <1>2, <1>3

\* What the server stores and answers with.
LEMMA SavedFacts ==
  ASSUME account \in [Students -> [Fields -> 0..MaxSteps]], NEW c \in CallTypes, c.tok # None,
         NEW acc, acc = Saved(c)
  PROVE  /\ acc \in [Students -> [Fields -> 0..MaxSteps]]
         /\ \A s \in Students, f \in Fields :
              acc[s][f] = IF c.op \in Saves /\ s = Owner(c.tok) /\ f = FieldOf(c.op) THEN c.val
                          ELSE account[s][f]
<1>1. Owner(c.tok) \in Students /\ c.val \in 0..MaxSteps
  BY TokenFacts DEF CallTypes
<1>2. CASE c.op \in Saves
  <2>1. PICK o \in Students : o = Owner(c.tok)
    BY <1>1
  <2>2. PICK g \in Fields : g = FieldOf(c.op)
    BY <1>2, FieldFacts
  <2>3. acc = [account EXCEPT ![o][g] = c.val]
    BY <1>2, <2>1, <2>2 DEF Saved
  <2> QED
    BY <1>1, <1>2, <2>1, <2>2, <2>3
<1>3. CASE c.op \notin Saves
  BY <1>3 DEF Saved
<1> QED
  BY <1>2, <1>3

LEMMA ProfileFacts ==
  ASSUME NEW acc \in [Students -> [Fields -> 0..MaxSteps]], NEW s \in Students
  PROVE  /\ Profile(s, acc) \in Of(s) /\ Profile(s, acc) \in Details
         /\ \A f \in Fields : Profile(s, acc)[f] = <<s, acc[s][f]>>
<1>1. \A f \in Fields : <<s, acc[s][f]>> \in {s} \X (0..MaxSteps)
  OBVIOUS
<1>2. Profile(s, acc) \in Of(s)
  BY <1>1 DEF Profile, Of
<1> QED
  BY <1>2, OfFacts DEF Profile

LEMMA TypeServe ==
  ASSUME TypeInv, NEW c \in calls, Serve(c)
  PROVE  TypeInv'
<1>0. RestTyped /\ TabsTyped
  BY TypeParts
<1>1. c \in CallTypes /\ Known(c) /\ c.stage = "sent"
  BY TypeParts DEF TabsTyped, PlacedInv, Serve
<1>2. UNCHANGED <<held, tabs, doubt, mixed, admDoubt, steps>>
  BY DEF Serve, history
<1>3. CASE ServeStudent(c)
  <2>1. c.op \in Shows /\ c.op # "login" /\ UNCHANGED <<gen, cookie>>
    BY <1>3 DEF ServeStudent, Shows, Saves
  <2>2. CASE Valid(c) /\ Answered(c, Answer(c)) /\ account' = Saved(c)
    <3>1. c.tok # None /\ Owner(c.tok) \in Students
      BY <1>1, <2>2, TokenFacts DEF Valid, CallTypes
    <3>2. account \in [Students -> [Fields -> 0..MaxSteps]]
      BY <1>0 DEF RestTyped
    <3>3. PICK acc : acc = Saved(c) OBVIOUS
    <3>4. acc \in [Students -> [Fields -> 0..MaxSteps]]
      BY <1>1, <3>1, <3>2, <3>3, SavedFacts
    <3>5. PICK got : got = Profile(Owner(c.tok), acc) OBVIOUS
    <3>6. got \in Of(Owner(c.tok)) /\ got \in Details
      BY <3>1, <3>4, <3>5, ProfileFacts
    <3>7. RestTyped'
      BY <1>0, <1>2, <2>1, <2>2, <3>3, <3>4 DEF RestTyped
    <3>8. Answered(c, got)
      BY <2>2, <3>3, <3>5 DEF Answer
    <3> QED
      BY <1>2, <2>1, <3>1, <3>6, <3>7, <3>8, TypeAnswered
  <2>3. CASE Refused(c) /\ account' \in Refusable(c)
    <3>1. account' = account \/ (c.tok # None /\ account' = Saved(c))
      BY <2>3 DEF Refusable, Valid
    <3>2. account \in [Students -> [Fields -> 0..MaxSteps]]
      BY <1>0 DEF RestTyped
    <3>3. account' \in [Students -> [Fields -> 0..MaxSteps]]
      BY <1>1, <3>1, <3>2, SavedFacts
    <3>4. RestTyped'
      BY <1>0, <1>2, <2>1, <3>3 DEF RestTyped
    <3> QED
      BY <1>2, <2>3, <3>4, TypeRefused
  <2> QED
    BY <1>3, <2>2, <2>3 DEF ServeStudent
<1>4. ASSUME c.op \notin Shows \cup {"login"}, UNCHANGED <<account, gen>>, cookie' \in BOOLEAN,
             Answered(c, None) \/ Refused(c)
      PROVE  TypeInv'
  <2>1. RestTyped'
    BY <1>0, <1>2, <1>4 DEF RestTyped
  <2>2. CASE Answered(c, None)
    <3>1. None \in Details \cup {None} /\ c.op \notin Shows /\ c.op # "login"
      BY <1>4
    <3> QED
      BY <1>2, <2>1, <2>2, <3>1, TypeAnswered
  <2>3. CASE Refused(c)
    BY <1>2, <2>1, <2>3, TypeRefused
  <2> QED
    BY <1>4, <2>2, <2>3
<1>5. CASE ServeCourse(c)
  <2>1. c.op \notin Shows \cup {"login"} /\ UNCHANGED <<account, gen, cookie>>
        /\ (Answered(c, None) \/ Refused(c))
    BY <1>5 DEF ServeCourse, Shows, Saves, server
  <2> QED
    BY <1>0, <1>4, <2>1 DEF RestTyped
<1>6. CASE ServePassword(c)
  <2>1. c.op \notin Shows \cup {"login"} /\ UNCHANGED <<account, gen, cookie>>
        /\ (Answered(c, None) \/ Refused(c))
    BY <1>6 DEF ServePassword, Shows, Saves, server
  <2> QED
    BY <1>0, <1>4, <2>1 DEF RestTyped
<1>7. CASE ServeAdmin(c)
  <2>1. c.op \notin Shows \cup {"login"} /\ UNCHANGED <<account, gen>>
        /\ (Answered(c, None) \/ Refused(c))
    BY <1>7 DEF ServeAdmin, Shows, Saves, AdminWrites
  <2>2. cookie' \in BOOLEAN
    <3>1. cookie \in BOOLEAN /\ ((cookie \/ c.op = "adminLogin") /\ ~ClearsCookie(c)) \in BOOLEAN
      BY <1>0 DEF RestTyped
    <3> QED
      BY <1>7, <3>1, Zenon DEF ServeAdmin
  <2> QED
    BY <1>4, <2>1, <2>2
<1>8. CASE ServeLogin(c)
  <2>1. c.op = "login" /\ UNCHANGED <<account, gen, cookie>>
    BY <1>8 DEF ServeLogin, server
  <2>2. RestTyped'
    BY <1>0, <1>2, <2>1 DEF RestTyped
  <2>5. CASE Refused(c)
    BY <1>2, <2>2, <2>5, TypeRefused
  <2>3. CASE c.heard = "nobody" /\ ~Refused(c)
    <3>1. calls' = calls \ {c}
      BY <1>8, <2>3 DEF ServeLogin
    <3> QED
      BY <1>2, <2>2, <3>1, TypeDropped
  <2>4. CASE c.heard # "nobody" /\ ~Refused(c)
    <3>1. c.who \in Students /\ c.tab # None
      BY <1>1, <2>1, <2>4 DEF Known
    <3>2. PICK val \in 0..MaxSteps : val = gen[c.who]
      BY <1>0, <3>1 DEF RestTyped
    <3>3. PICK got \in Of(c.who) : got = Profile(c.who, account)
      BY <1>0, <3>1, ProfileFacts DEF RestTyped
    <3>4. got \in Details
      BY <3>1, OfFacts
    <3>5. PICK k : k = [c EXCEPT !.stage = "ok", !.val = val, !.got = got] OBVIOUS
    <3>6. /\ k \in CallTypes /\ k.op = c.op /\ k.tab = c.tab /\ k.heard = c.heard /\ k.tok = c.tok
          /\ k.who = c.who /\ k.stage = "ok" /\ k.got = got
      BY <1>1, <3>4, <3>5 DEF CallTypes
    <3>7. Known(k)
      BY <1>1, <2>1, <3>1, <3>6 DEF Known, Shows, Saves, AdmOps, AdminWrites
    <3>8. calls' = (calls \ {c}) \cup {k}
      BY <1>8, <2>4, <3>2, <3>3, <3>5 DEF ServeLogin
    <3> QED
      BY <1>2, <2>2, <3>1, <3>6, <3>7, <3>8, TypeReplaced
  <2> QED
    BY <2>3, <2>4, <2>5
<1> QED
  BY <1>3, <1>5, <1>6, <1>7, <1>8 DEF Serve

LEMMA TypeClocks ==
  ASSUME TypeInv, CookieExpires \/ \E s \in Students : Expire(s)
  PROVE  TypeInv'
<1>0. RestTyped /\ TabsTyped /\ PlacedInv
  BY TypeParts
<1>1. steps < MaxSteps /\ steps' = steps + 1 /\ UNCHANGED <<held, tabs, calls, account, mixed, doubt>>
  BY DEF CookieExpires, Expire, history
<1>2. steps' \in 0..MaxSteps
  BY <1>0, <1>1, Constants DEF RestTyped
<1>3. CASE CookieExpires
  <2>2. cookie' \in BOOLEAN /\ admDoubt' \in [Tabs -> BOOLEAN] /\ gen' = gen
    BY <1>3 DEF CookieExpires
  <2>3. gen' \in [Students -> 0..MaxSteps] /\ \A s \in Students : gen'[s] <= steps'
    BY <1>0, <1>1, <2>2, Constants DEF RestTyped
  <2>1. RestTyped'
    BY <1>0, <1>1, <1>2, <2>2, <2>3 DEF RestTyped
  <2> QED
    BY <1>0, <1>1, <2>1, TypeParts DEF TabsTyped, PlacedInv
<1>4. ASSUME NEW s \in Students, Expire(s)
      PROVE  TypeInv'
  <2>1. gen' = [gen EXCEPT ![s] = @ + 1] /\ UNCHANGED <<cookie, admDoubt>>
    BY <1>4 DEF Expire, history
  <2>2. gen \in [Students -> 0..MaxSteps] /\ \A u \in Students : gen[u] <= steps
    BY <1>0 DEF RestTyped
  <2>3. ASSUME NEW u \in Students
        PROVE  gen'[u] \in 0..MaxSteps /\ gen'[u] <= steps'
    BY <1>0, <1>1, <2>1, <2>2, Constants DEF RestTyped
  <2>4. gen' \in [Students -> 0..MaxSteps]
    BY <2>1, <2>2, <2>3
  <2>5. RestTyped'
    BY <1>0, <1>1, <1>2, <2>1, <2>3, <2>4 DEF RestTyped
  <2> QED
    BY <1>0, <1>1, <2>5, TypeParts DEF TabsTyped, PlacedInv
<1> QED
  BY <1>3, <1>4

LEMMA TypeInit == Init => TypeInv
<1> SUFFICES ASSUME Init
             PROVE  TypeInv
  OBVIOUS
<1>1. held = NoSession /\ held \in Stored /\ held.tok = None
  BY StoredFacts DEF Init
<1>2. ASSUME NEW t \in Tabs
      PROVE  /\ tabs[t] \in TabTypes /\ tabs[t].at = "login" /\ tabs[t].user = None /\ tabs[t].page = "off"
             /\ tabs[t].adm = "unknown"
  <2>1. tabs[t] = [Loaded("login") EXCEPT !.user = None]
    BY DEF Init
  <2>2. tabs[t] = [user |-> None, adm |-> "unknown", at |-> "login", page |-> "off",
                   prof |-> NoDetails, busy |-> {}, leaving |-> FALSE]
    BY <2>1 DEF Loaded
  <2> QED
    BY <2>2, StoredFacts DEF TabTypes, Places
<1>3. tabs \in [Tabs -> TabTypes]
  BY <1>2 DEF Init
<1>4. \A t \in Tabs : Routed(tabs[t]) = tabs[t]
  BY <1>2, RoutedSame DEF RoutedAt, Campus
<1>5. ASSUME NEW c \in calls
      PROVE  c \in CallTypes /\ Known(c) /\ c.op = "probe"
  <2>1. PICK t \in Tabs : c \in Probe(t, None)
    BY DEF Init
  <2> QED
    BY <2>1, ProbeFacts
<1>6. TabsTyped
  <2>1. doubt \in [Tabs -> Doubts]
    BY DEF Init, Doubts
  <2> QED
    BY <1>1, <1>3, <1>4, <1>5, <2>1 DEF TabsTyped
<1>7. RestTyped
  <2>1. 0 \in 0..MaxSteps
    BY Constants
  <2>2. account \in [Students -> [Fields -> 0..MaxSteps]]
    BY <2>1 DEF Init
  <2>3. gen \in [Students -> 0..MaxSteps] /\ \A s \in Students : gen[s] <= steps
    BY <2>1 DEF Init
  <2>4. cookie \in BOOLEAN /\ mixed \in BOOLEAN /\ admDoubt \in [Tabs -> BOOLEAN]
    BY DEF Init
  <2> QED
    BY <2>1, <2>2, <2>3, <2>4 DEF Init, RestTyped
<1>8. PlacedInv
  BY <1>2, <1>5 DEF PlacedInv, LoginsDiffer, Placed, Saves
<1> QED
  BY <1>6, <1>7, <1>8, TypeParts

LEMMA TypeNext == TypeInv /\ [Next]_vars => TypeInv'
<1> SUFFICES ASSUME TypeInv, [Next]_vars
             PROVE  TypeInv'
  OBVIOUS
<1>0. RestTyped /\ TabsTyped /\ PlacedInv
  BY TypeParts
<1>1. ASSUME NEW t \in Tabs, Presses(t)
      PROVE  TypeInv'
  <2>1. ASSUME NEW p \in Places, OpenAddress(t, p)
        PROVE  TypeInv'
    <3>1. LoadPage(t, p) /\ steps < MaxSteps /\ steps' = steps + 1
      BY <2>1 DEF OpenAddress, Press
    <3>2. steps' \in {steps, steps + 1} /\ steps' <= MaxSteps
      BY <1>0, <3>1, Constants DEF RestTyped
    <3> QED
      BY <3>1, <3>2, TypeLoad
  <2>2. CASE OpenProfile(t)
    BY <2>2, TypeGoes DEF OpenProfile, Places, Campus
  <2>3. CASE LeaveProfile(t)
    BY <2>3, TypeGoes DEF LeaveProfile, Places, Campus
  <2>4. CASE GoAdmin(t)
    BY <2>4, TypeGoes DEF GoAdmin, Places, Campus, AdminPlaces
  <2>5. CASE GoCampus(t)
    BY <2>5, TypeGoes DEF GoCampus, Places, Campus
  <2>6. CASE LogoutStudent(t)
    BY <2>6, TypeLogout
  <2>7. CASE \/ OpenCourse(t) \/ (\E s \in Students : SubmitLogin(t, s))
             \/ LoginAdmin(t) \/ LogoutAdmin(t) \/ AdminWork(t)
    BY <2>7, TypeAsks
  <2>8. CASE \/ SubmitName(t) \/ SubmitAvatar(t) \/ RemoveAvatar(t) \/ SaveColor(t)
             \/ \E right \in {0, 1} : SubmitPassword(t, right)
    BY <2>8, TypeSaves
  <2> QED
    BY <1>1, <2>1, <2>2, <2>3, <2>4, <2>5, <2>6, <2>7, <2>8, Zenon DEF Presses
<1>2. ASSUME NEW t \in Tabs, Leave(t)
      PROVE  TypeInv'
  <2>1. LoadPage(t, "login") /\ steps' = steps /\ "login" \in Places
    BY <1>2 DEF Leave, Places
  <2>2. steps' \in {steps, steps + 1} /\ steps' <= MaxSteps
    BY <1>0, <2>1, Constants DEF RestTyped
  <2> QED
    BY <2>1, <2>2, TypeLoad
<1>3. ASSUME NEW c \in calls, Arrivals(c)
      PROVE  TypeInv'
  BY <1>3, TypeLoggedIn, TypeAnswers, TypeUnauthorized, TypeFails DEF Arrivals, Answers
<1>4. CASE UNCHANGED vars
  <2>1. RestTyped' /\ TabsTyped' /\ PlacedInv'
    BY <1>0, <1>4 DEF vars, server, history, RestTyped, TabsTyped, PlacedInv, LoginsDiffer
  <2> QED
    BY <2>1, TypeParts
<1> QED
  BY <1>1, <1>2, <1>3, <1>4, TypeServe, TypeClocks, Zenon DEF Next

\* Every tab shows a page its session allows, with the state that page has,
\* and every request is one a page can have sent.
THEOREM AccountTyped == Spec => []TypeOK
<1>1. TypeInv => TypeOK
  BY DEF TypeInv
<1> QED
  BY <1>1, TypeInit, TypeNext, PTL DEF Spec

-----------------------------------------------------------------------------
(* What every step of Becomes does, seen from outside.                     *)

Follows(k, d) ==
  /\ k.op = d.op /\ k.tok = d.tok /\ k.who = d.who /\ k.val = d.val /\ k.stage = d.stage /\ k.got = d.got
  /\ k.tab = d.tab /\ (k.heard # "nobody" => d.heard # "nobody")
  /\ k.heard = "page" => d.heard = "page"

Fresh(k, t, tok) ==
  k.op \in {"me", "profile"} /\ k.tab = t /\ k.heard = "page" /\ k.tok = tok /\ k.stage = "sent"

LEMMA MoveTabs ==
  ASSUME TabsTyped, NEW t \in Tabs, NEW old, NEW new \in TabTypes, NEW h, NEW cs, NEW ds,
         Becomes(t, old, new, h, cs, ds)
  PROVE  /\ tabs'[t] = There(old, new) /\ \A u \in Tabs : u # t => tabs'[u] = tabs[u]
         /\ tabs'[t].user = new.user /\ tabs'[t].adm = new.adm /\ tabs'[t].leaving = new.leaving
         /\ tabs'[t].at = There(old, new).at
         /\ held' = h
<1>1. PICK there : there = There(old, new) OBVIOUS
<1>2. there \in TabTypes /\ there.user = new.user /\ there.adm = new.adm /\ there.leaving = new.leaving
  BY <1>1, ThereFacts
<1>3. Became(t, old, there, h, Kept(t, there, cs), Effects(t, old, there, h.tok), ds)
  BY <1>1, BecomesMeans
<1>4. tabs' = [tabs EXCEPT ![t] = there] /\ held' = h
  BY <1>3 DEF Became
<1> QED
  BY <1>1, <1>2, <1>4 DEF TabsTyped

LEMMA MoveCalls ==
  ASSUME NEW t \in Tabs, NEW old, NEW new \in TabTypes, NEW h \in Stored, NEW cs \in SUBSET CallTypes, NEW ds,
         Becomes(t, old, new, h, cs, ds), NEW k \in calls'
  PROVE  \/ Fresh(k, t, h.tok)
         \/ \E c \in cs : Follows(k, c)
<1>1. PICK there \in TabTypes : there = There(old, new)
  BY ThereFacts
<1>2. PICK tok \in Tokens \cup {None} : tok = h.tok
  BY DEF Stored
<1>3. PICK sent : sent = Effects(t, old, there, tok) OBVIOUS
<1>4. Became(t, old, there, h, Kept(t, there, cs), sent, ds)
  BY <1>1, <1>2, <1>3, BecomesMeans
<1>5. \/ k \in sent
      \/ \E c \in cs : c \in CallTypes /\ k = Clean(t, there, c) /\ (k.heard # "nobody" \/ k.stage # "ok")
  BY <1>4, BecameCalls
<1>6. CASE k \in sent
  <2>1. k \in Effects(t, old, there, tok)
    BY <1>3, <1>6
  <2>2. k.op \in {"me", "profile"} /\ k.tab = t /\ k.heard = "page" /\ k.tok = tok /\ k.stage = "sent"
    <3>1. PICK op \in {"me", "profile"} : k = Request(t, op, tok, None, 0)
      BY <2>1 DEF Effects
    <3> QED
      BY <3>1 DEF Request
  <2> QED
    BY <1>2, <2>2 DEF Fresh
<1>7. ASSUME NEW c \in cs, c \in CallTypes, k = Clean(t, there, c)
      PROVE  Follows(k, c)
  <2>1. /\ k.op = c.op /\ k.tab = c.tab /\ k.tok = c.tok /\ k.who = c.who
        /\ k.val = c.val /\ k.stage = c.stage /\ k.got = c.got
        /\ k.heard = c.heard \/ k.heard = "nobody" \/ (k.heard = "tab" /\ c.heard = "page")
    BY <1>7, CleanFacts
  <2> QED
    BY <2>1 DEF Follows
<1> QED
  BY <1>5, <1>6, <1>7

-----------------------------------------------------------------------------
(* A reload shows the header as it was.                                    *)

LEMMA HeaderMoves ==
  ASSUME TypeInv, ReloadKeepsHeader, NEW t \in Tabs, NEW old, NEW new \in TabTypes, NEW h \in Stored,
         NEW cs, NEW ds, Becomes(t, old, new, h, cs, ds),
         \/ h.tok = None
         \/ new.user = h
         \/ new.user = tabs[t].user /\ h = held
         \/ /\ tabs[t].user # None /\ new.user # None /\ held.tok = h.tok
            /\ tabs[t].user = held => new.user = h
  PROVE  ReloadKeepsHeader'
<1>0. TabsTyped
  BY TypeParts
<1>1. tabs'[t].user = new.user /\ held' = h /\ \A u \in Tabs : u # t => tabs'[u] = tabs[u]
  <2>1. held' = h
    BY DEF Becomes
  <2>2. tabs'[t].user = new.user /\ \A u \in Tabs : u # t => tabs'[u] = tabs[u]
    BY <1>0, MoveTabs
  <2> QED
    BY <2>1, <2>2
<1>2. h.tok # None => h # None
  BY StoredFacts
<1> SUFFICES ASSUME NEW u \in Tabs, tabs'[u].user # None, held'.tok # None,
                    \A v \in Tabs \ {u} : tabs'[v].user = None
             PROVE  tabs'[u].user = held'
  BY DEF ReloadKeepsHeader
<1>3. CASE u = t
  <2>1. \A v \in Tabs \ {t} : tabs[v].user = None
    BY <1>1, <1>3
  <2> QED
    BY <1>1, <1>3, <2>1 DEF ReloadKeepsHeader
<1>4. CASE u # t
  <2>1. new.user = None /\ h.tok # None /\ h # None
    BY <1>1, <1>2, <1>4
  <2>2. tabs[t].user = None /\ h = held
    BY <2>1
  <2>3. \A v \in Tabs \ {u} : tabs[v].user = None
    BY <1>1, <1>4, <2>2
  <2> QED
    BY <1>1, <1>4, <2>1, <2>2, <2>3 DEF ReloadKeepsHeader
<1> QED
  BY <1>3, <1>4

LEMMA HeaderStays ==
  ASSUME ReloadKeepsHeader, held' = held, \A u \in Tabs : tabs'[u].user = tabs[u].user
  PROVE  ReloadKeepsHeader'
BY DEF ReloadKeepsHeader

LEMMA HeaderLoad ==
  ASSUME TypeInv, ReloadKeepsHeader, NEW t \in Tabs, NEW p \in Places, LoadPage(t, p)
  PROVE  ReloadKeepsHeader'
<1>0. TabsTyped
  BY TypeParts
<1>1. PICK old, cs : Becomes(t, old, Loaded(p), held, cs, {})
  BY DEF LoadPage
<1>2. PICK new \in TabTypes : new = Loaded(p) /\ new.user = ReadStudent
  BY <1>0, LoadedFacts
<1>3. held.tok = None \/ new.user = held
  BY <1>2 DEF ReadStudent
<1>4. held \in Stored
  BY <1>0 DEF TabsTyped
<1> QED
  BY <1>1, <1>2, <1>3, <1>4, HeaderMoves

LEMMA HeaderGoes ==
  ASSUME TypeInv, ReloadKeepsHeader, NEW t \in Tabs, NEW p \in Places, Goes(t, p)
  PROVE  ReloadKeepsHeader'
<1>0. tabs[t] \in TabTypes /\ held \in Stored
  BY TypeParts DEF TabsTyped
<1>1. PICK new : new = [tabs[t] EXCEPT !.at = p] OBVIOUS
<1>3. new \in TabTypes /\ new.user = tabs[t].user
  BY <1>0, <1>1 DEF TabTypes
<1>2. Becomes(t, tabs[t], new, held, calls, doubt[t])
  BY <1>1 DEF Goes
<1> QED
  BY <1>0, <1>2, <1>3, HeaderMoves

LEMMA HeaderLogout ==
  ASSUME TypeInv, ReloadKeepsHeader, NEW t \in Tabs, LogoutStudent(t)
  PROVE  ReloadKeepsHeader'
<1>0. tabs[t] \in TabTypes
  BY TypeParts DEF TabsTyped
<1>1. PICK new : new = [tabs[t] EXCEPT !.user = None] OBVIOUS
<1>3. new \in TabTypes
  BY <1>0, <1>1 DEF TabTypes
<1>2. Becomes(t, tabs[t], new, NoSession, calls, doubt[t])
  BY <1>1 DEF LogoutStudent
<1> QED
  BY <1>2, <1>3, HeaderMoves, StoredFacts

LEMMA HeaderLoggedIn ==
  ASSUME TypeInv, ReloadKeepsHeader, NEW c \in calls, LoggedIn(c)
  PROVE  ReloadKeepsHeader'
<1>1. c.tab \in Tabs /\ c \in CallTypes /\ Known(c) /\ c.stage = "ok" /\ c.op = "login"
  BY ArrivesFacts DEF LoggedIn, Arrives
<1>2. PICK t \in Tabs : t = c.tab
  BY <1>1
<1>3. PICK session : session = LoginStudent(<<c.who, c.val>>, c.got["name"]) OBVIOUS
<1>4. session \in Sessions
  BY <1>1, <1>3, SessionFacts
<1>5. PICK new : new = [tabs[t] EXCEPT !.user = session] OBVIOUS
<1>6. Becomes(t, tabs[t], new, session, calls \ {c}, {})
  BY <1>2, <1>3, <1>5 DEF LoggedIn
<1>7. tabs[t] \in TabTypes
  BY TypeParts DEF TabsTyped
<1>8. new \in TabTypes /\ new.user = session
  BY <1>4, <1>5, <1>7 DEF TabTypes
<1> QED
  BY <1>4, <1>6, <1>8, HeaderMoves, StoredFacts

\* What Updates does to the tab and the storage.
LEMMA UpdatesMeans ==
  ASSUME TypeInv, NEW c \in calls, c.tab # None, NEW shown \in TabTypes,
         shown.at = tabs[c.tab].at, shown.user = tabs[c.tab].user,
         NEW fs \in SUBSET Fields, fs = {} \/ c.got \in Details, Updates(c, shown, fs)
  PROVE  \E t \in Tabs, new \in TabTypes, h \in Stored :
           /\ t = c.tab /\ Becomes(t, tabs[t], new, h, calls \ {c}, doubt[t])
           /\ new.at = shown.at /\ new.adm = shown.adm /\ new.page = shown.page /\ new.prof = shown.prof
           /\ new.leaving = shown.leaving
           /\ new.user = UpdateStudentProfile(tabs[t].user, c.got, fs)
           /\ h = StoredProfile(tabs[t].user, c.got, fs)
           /\ (new.user = None) <=> (tabs[t].user = None)
           /\ tabs[t].user = None => h = held
           /\ tabs[t].user # None =>
                /\ new.user = Patch(tabs[t].user, c.got, fs) /\ h = Patch(held, c.got, fs)
                /\ new.user \in Sessions
                /\ new.user.tok = tabs[t].user.tok
                /\ \A f \in Fields : new.user.of[f] = IF f \in fs THEN c.got[f] ELSE tabs[t].user.of[f]
                /\ h.tok = held.tok
                /\ \A f \in Fields : h.of[f] = IF f \in fs THEN c.got[f] ELSE held.of[f]
<1>0. TabsTyped
  BY TypeParts
<1>1. PICK t \in Tabs : t = c.tab
  BY ArrivesFacts
<1>2. PICK user \in Sessions \cup {None} : user = tabs[t].user
  BY <1>0 DEF TabsTyped, TabTypes
<1>3. PICK u : u = UpdateStudentProfile(user, c.got, fs) OBVIOUS
<1>4. PICK h : h = StoredProfile(user, c.got, fs) OBVIOUS
<1>5. PICK new : new = [shown EXCEPT !.user = u] OBVIOUS
<1>6. Becomes(t, tabs[t], new, h, calls \ {c}, doubt[t])
  BY <1>1, <1>2, <1>3, <1>4, <1>5 DEF Updates
<1>7. held \in Stored
  BY <1>0 DEF TabsTyped
<1>8. user = None => u = None /\ h = held
  BY <1>3, <1>4 DEF UpdateStudentProfile, StoredProfile
<1>9. ASSUME user # None
      PROVE  /\ u = Patch(user, c.got, fs) /\ h = Patch(held, c.got, fs) /\ u \in Sessions /\ h \in Stored
             /\ u.tok = user.tok
             /\ \A f \in Fields : u.of[f] = IF f \in fs THEN c.got[f] ELSE user.of[f]
             /\ h.tok = held.tok
             /\ \A f \in Fields : h.of[f] = IF f \in fs THEN c.got[f] ELSE held.of[f]
  <2>1. u = Patch(user, c.got, fs) /\ h = Patch(held, c.got, fs)
    BY <1>3, <1>4, <1>9 DEF UpdateStudentProfile, StoredProfile
  <2>2. user \in Sessions /\ user \in Stored
    BY <1>2, <1>9, StoredFacts
  <2> QED
    BY <1>7, <2>1, <2>2, PatchFacts
<1>10. u \in Sessions \cup {None} /\ ((u = None) <=> (user = None)) /\ h \in Stored
  BY <1>7, <1>8, <1>9, StoredFacts
<1>11. /\ new \in TabTypes /\ new.at = shown.at /\ new.adm = shown.adm /\ new.page = shown.page
       /\ new.prof = shown.prof /\ new.leaving = shown.leaving /\ new.user = u
  BY <1>5, <1>10 DEF TabTypes
<1>12. /\ (new.user = None) <=> (tabs[t].user = None)
       /\ tabs[t].user = None => h = held
       /\ new.user = UpdateStudentProfile(tabs[t].user, c.got, fs)
       /\ h = StoredProfile(tabs[t].user, c.got, fs)
  BY <1>2, <1>3, <1>4, <1>8, <1>10, <1>11
<1>13. tabs[t].user # None =>
          /\ new.user = Patch(tabs[t].user, c.got, fs) /\ h = Patch(held, c.got, fs)
          /\ new.user \in Sessions
          /\ new.user.tok = tabs[t].user.tok
          /\ \A f \in Fields : new.user.of[f] = IF f \in fs THEN c.got[f] ELSE tabs[t].user.of[f]
          /\ h.tok = held.tok
          /\ \A f \in Fields : h.of[f] = IF f \in fs THEN c.got[f] ELSE held.of[f]
  BY <1>2, <1>9, <1>11
<1> QED
  BY <1>1, <1>6, <1>10, <1>11, <1>12, <1>13

LEMMA HeaderUpdates ==
  ASSUME TypeInv, ReloadKeepsHeader, NEW c \in calls, c.tab # None, NEW shown \in TabTypes,
         shown.at = tabs[c.tab].at, shown.user = tabs[c.tab].user,
         NEW fs \in SUBSET Fields, fs = {} \/ c.got \in Details, Updates(c, shown, fs)
  PROVE  ReloadKeepsHeader'
<1>1. PICK t \in Tabs, new \in TabTypes, h \in Stored :
        /\ t = c.tab /\ Becomes(t, tabs[t], new, h, calls \ {c}, doubt[t])
        /\ (new.user = None) <=> (tabs[t].user = None)
        /\ tabs[t].user = None => h = held
        /\ tabs[t].user # None =>
             new.user = Patch(tabs[t].user, c.got, fs) /\ h = Patch(held, c.got, fs) /\ h.tok = held.tok
  BY UpdatesMeans
<1>2. CASE tabs[t].user = None
  BY <1>1, <1>2, HeaderMoves
<1>3. CASE tabs[t].user # None
  <2>1. tabs[t].user = held => new.user = h
    BY <1>1, <1>3
  <2> QED
    BY <1>1, <1>3, <2>1, HeaderMoves
<1> QED
  BY <1>2, <1>3

\* A button changes nothing of the tab but what the profile page shows.
LEMMA SaveMeans ==
  ASSUME TypeInv, NEW t \in Tabs, NEW op, NEW val, NEW prof, Save(t, op, val, prof)
  PROVE  /\ held' = held
         /\ \A u \in Tabs : u # t => tabs'[u] = tabs[u]
         /\ \A u \in Tabs : /\ tabs'[u].user = tabs[u].user /\ tabs'[u].adm = tabs[u].adm /\ tabs'[u].at = tabs[u].at
                            /\ tabs'[u].page = tabs[u].page /\ tabs'[u].leaving = tabs[u].leaving
         /\ tabs'[t].prof = prof
<1>0. tabs \in [Tabs -> TabTypes]
  BY TypeParts DEF TabsTyped
<1>1. tabs' = [tabs EXCEPT ![t].busy = @ \cup {FieldOf(op)}, ![t].prof = prof] /\ held' = held
  BY DEF Save
<1>2. PICK tab \in TabTypes : tab = tabs[t]
  BY <1>0
<1>3. PICK n : n = [tab EXCEPT !.busy = @ \cup {FieldOf(op)}, !.prof = prof] OBVIOUS
<1>4. tabs' = [tabs EXCEPT ![t] = n]
  BY <1>0, <1>1, <1>2, <1>3
<1>5. /\ n.user = tab.user /\ n.adm = tab.adm /\ n.at = tab.at /\ n.page = tab.page /\ n.leaving = tab.leaving
      /\ n.prof = prof
  BY <1>3 DEF TabTypes
<1> QED
  BY <1>0, <1>1, <1>2, <1>4, <1>5

\* What the tab becomes of an error, and what an error leaves behind.
Failing(new, tab, c) ==
  /\ new.at = tab.at /\ new.user = tab.user /\ new.prof = tab.prof
  /\ new.page = (IF c.heard # "nobody" /\ c.op = "profile" THEN "error" ELSE tab.page)
  /\ new.adm = (IF c.heard = "nobody" THEN tab.adm ELSE AdminStatus(c.op, FALSE, tab.adm))

LEMMA UnauthorizedMeans ==
  ASSUME TypeInv, NEW c \in calls, Unauthorized(c)
  PROVE  \E t \in Tabs, new \in TabTypes, h \in Stored :
           /\ t = c.tab /\ Becomes(t, tabs[t], new, h, calls \ {c}, doubt[t] \cup DoubtOf(c))
           /\ Failing(new, tabs[t], c)
           /\ h = held \/ (h = NoSession /\ EndsSession(t, c))
<1>0. TabsTyped /\ PlacedInv
  BY TypeParts
<1>1. c \in CallTypes /\ Known(c) /\ c.stage = "unauthorized"
  BY <1>0 DEF Unauthorized, TabsTyped, PlacedInv
<1>2. PICK t \in Tabs : t = c.tab
  BY <1>1 DEF Known, CallTypes
<1>3. PICK tab \in TabTypes : tab = tabs[t]
  BY <1>0 DEF TabsTyped
<1>4. PICK f : f = Failed(tab, c) OBVIOUS
<1>5. f \in TabTypes /\ Failing(f, tab, c)
  BY <1>4, FailedFacts DEF Failing
<1>6. PICK ends \in BOOLEAN : ends = EndsSession(t, c)
  BY DEF EndsSession
<1>7. PICK new : new = [f EXCEPT !.leaving = @ \/ ends] OBVIOUS
<1>8. PICK h : h = IF ends THEN NoSession ELSE held OBVIOUS
<1>9. Becomes(t, tabs[t], new, h, calls \ {c}, doubt[t] \cup DoubtOf(c))
  BY <1>2, <1>3, <1>4, <1>6, <1>7, <1>8 DEF Unauthorized
<1>10. new \in TabTypes /\ new.at = f.at /\ new.user = f.user /\ new.page = f.page /\ new.adm = f.adm
       /\ new.prof = f.prof
  <2>1. (f.leaving \/ ends) \in BOOLEAN
    BY <1>5, <1>6 DEF TabTypes
  <2> QED
    BY <1>5, <1>7, <2>1 DEF TabTypes
<1>11. Failing(new, tab, c)
  BY <1>5, <1>10 DEF Failing
<1>12. h \in Stored /\ (h = held \/ (h = NoSession /\ EndsSession(t, c)))
  BY <1>0, <1>6, <1>8, StoredFacts DEF TabsTyped
<1> QED
  BY <1>2, <1>3, <1>9, <1>10, <1>11, <1>12

\* What a request that failed left at the server.
Forgotten(k, d) ==
  /\ k.op = d.op /\ k.tok = d.tok /\ k.who = d.who /\ k.val = d.val /\ k.stage = "sent" /\ d.stage = "sent"
  /\ k.tab = None /\ k.heard = "nobody" /\ k.op \in Writes /\ k \in CallTypes /\ Known(k)

LEMMA FailsMeans ==
  ASSUME TypeInv, NEW c \in calls, Fails(c)
  PROVE  \E t \in Tabs, new \in TabTypes, left \in SUBSET CallTypes :
           /\ t = c.tab
           /\ Becomes(t, tabs[t], new, held, (calls \ {c}) \cup left, doubt[t] \cup DoubtOf(c))
           /\ Failing(new, tabs[t], c)
           /\ \A d \in left : Forgotten(d, c)
           /\ c.heard # "nobody" /\ c.stage \in {"sent", "ok"}
           /\ left = {} => c.op \notin Writes \/ c.stage # "sent"
<1>0. TabsTyped /\ PlacedInv
  BY TypeParts
<1>1. c \in CallTypes /\ Known(c) /\ c.tab # None /\ c.heard # "nobody" /\ c.stage \in {"sent", "ok"}
  BY <1>0 DEF Fails, TabsTyped, PlacedInv
<1>2. PICK t \in Tabs : t = c.tab
  BY <1>1 DEF CallTypes
<1>3. PICK tab \in TabTypes : tab = tabs[t]
  BY <1>0 DEF TabsTyped
<1>4. PICK new : new = Failed(tab, c) OBVIOUS
<1>5. new \in TabTypes /\ Failing(new, tab, c)
  BY <1>4, FailedFacts DEF Failing
<1>6. PICK left : left = IF c.op \in Writes /\ c.stage = "sent"
                         THEN {[c EXCEPT !.tab = None, !.heard = "nobody"]} ELSE {} OBVIOUS
<1>7. Becomes(t, tabs[t], new, held, (calls \ {c}) \cup left, doubt[t] \cup DoubtOf(c))
  BY <1>2, <1>3, <1>4, <1>6 DEF Fails
<1>8. ASSUME NEW d \in left
      PROVE  d \in CallTypes /\ Forgotten(d, c)
  <2>1. c.stage = "sent" /\ c.op \in Writes /\ d = [c EXCEPT !.tab = None, !.heard = "nobody"]
    BY <1>6, <1>8
  <2>2. /\ d \in CallTypes /\ d.op = c.op /\ d.tab = None /\ d.heard = "nobody" /\ d.tok = c.tok
        /\ d.who = c.who /\ d.val = c.val /\ d.stage = "sent" /\ Known(d)
    BY <1>1, <2>1, ForgottenFacts
  <2> QED
    BY <2>1, <2>2 DEF Forgotten
<1>9. left \in SUBSET CallTypes /\ (left = {} => c.op \notin Writes \/ c.stage # "sent")
  BY <1>6, <1>8
<1> QED
  BY <1>1, <1>2, <1>3, <1>5, <1>7, <1>8, <1>9

LEMMA LoadMeans ==
  ASSUME TypeInv, NEW t \in Tabs, NEW p \in Places, LoadPage(t, p)
  PROVE  \E old : \E new \in TabTypes, cs \in SUBSET CallTypes :
           /\ Becomes(t, old, new, held, cs, {})
           /\ new = Loaded(p) /\ new.at = p /\ new.user = ReadStudent /\ new.adm = "unknown" /\ old.at = "nowhere"
           /\ cs = Unlistened(t) \cup Probe(t, held.tok)
           /\ \A c \in cs : \/ c \in calls /\ c.tab # t
                            \/ \E d \in calls : d.tab = t /\ Forgotten(c, d)
                            \/ c \in Probe(t, held.tok)
           /\ \A c \in Probe(t, held.tok) :
                c.op = "probe" /\ c.tab = t /\ c.heard = "page" /\ c.stage = "sent" /\ c.tok = held.tok
<1>0. TabsTyped /\ PlacedInv
  BY TypeParts
<1>1. PICK old : old = [tabs[t] EXCEPT !.at = "nowhere"] OBVIOUS
<1>2. PICK new \in TabTypes : new = Loaded(p) /\ new.at = p /\ new.user = ReadStudent /\ new.adm = "unknown"
  BY <1>0, LoadedFacts
<1>3. PICK cs : cs = Unlistened(t) \cup Probe(t, held.tok) OBVIOUS
<1>4. PICK tok \in Tokens \cup {None} : tok = held.tok
  BY <1>0 DEF TabsTyped, Stored
<1>5. Becomes(t, old, new, held, cs, {})
  BY <1>1, <1>2, <1>3 DEF LoadPage
<1>6. old.at = "nowhere"
  BY <1>0, <1>1 DEF TabsTyped, TabTypes
<1>7. ASSUME NEW c \in Probe(t, held.tok)
      PROVE  c \in CallTypes /\ c.op = "probe" /\ c.tab = t /\ c.heard = "page" /\ c.stage = "sent" /\ c.tok = held.tok
  <2>1. c \in Probe(t, tok)
    BY <1>4, <1>7
  <2>2. c \in CallTypes /\ c.op = "probe" /\ c.tab = t /\ c.heard = "page" /\ c.stage = "sent"
    BY <2>1, ProbeFacts
  <2>3. c.tok = tok
    BY <2>1 DEF Probe, Request
  <2> QED
    BY <1>4, <2>2, <2>3
<1>8. ASSUME NEW c \in Unlistened(t)
      PROVE  /\ c \in CallTypes
             /\ \/ c \in calls /\ c.tab # t
                \/ \E d \in calls : d.tab = t /\ Forgotten(c, d)
  <2>1. CASE c \in calls /\ c.tab # t
    BY <1>0, <2>1 DEF TabsTyped
  <2>2. ASSUME NEW d \in calls, d.tab = t, d.op \in Writes, d.stage = "sent",
               c = [d EXCEPT !.tab = None, !.heard = "nobody"]
        PROVE  c \in CallTypes /\ Forgotten(c, d)
    <3>1. d \in CallTypes /\ Known(d)
      BY <1>0 DEF TabsTyped, PlacedInv
    <3>2. /\ c \in CallTypes /\ c.op = d.op /\ c.tab = None /\ c.heard = "nobody" /\ c.tok = d.tok
          /\ c.who = d.who /\ c.val = d.val /\ c.stage = "sent" /\ Known(c)
      BY <2>2, <3>1, ForgottenFacts
    <3> QED
      BY <2>2, <3>2 DEF Forgotten
  <2> QED
    BY <2>1, <2>2 DEF Unlistened
<1>9. cs \in SUBSET CallTypes
  BY <1>3, <1>7, <1>8
<1>10. \A c \in cs : \/ c \in calls /\ c.tab # t
                     \/ \E d \in calls : d.tab = t /\ Forgotten(c, d)
                     \/ c \in Probe(t, held.tok)
  BY <1>3, <1>8
<1> QED
  BY <1>2, <1>3, <1>5, <1>6, <1>7, <1>9, <1>10

LEMMA HeaderNext == TypeInv /\ ReloadKeepsHeader /\ [Next]_vars => ReloadKeepsHeader'
<1> SUFFICES ASSUME TypeInv, ReloadKeepsHeader, [Next]_vars
             PROVE  ReloadKeepsHeader'
  OBVIOUS
<1>0. TabsTyped
  BY TypeParts
<1>1. ASSUME NEW t \in Tabs, Presses(t)
      PROVE  ReloadKeepsHeader'
  <2>1. CASE \E p \in Places : OpenAddress(t, p)
    BY <2>1, HeaderLoad DEF OpenAddress
  <2>2. CASE OpenProfile(t) \/ LeaveProfile(t) \/ GoAdmin(t) \/ GoCampus(t)
    <3>1. {"profile", "campus", "gate"} \subseteq Places
      BY DEF Places, Campus, AdminPlaces
    <3> QED
      BY <2>2, <3>1, HeaderGoes DEF OpenProfile, LeaveProfile, GoAdmin, GoCampus
  <2>3. CASE LogoutStudent(t)
    BY <2>3, HeaderLogout
  <2>4. CASE \/ OpenCourse(t) \/ (\E s \in Students : SubmitLogin(t, s))
             \/ LoginAdmin(t) \/ LogoutAdmin(t) \/ AdminWork(t)
    <3>1. held' = held /\ tabs' = tabs
      BY <2>4 DEF OpenCourse, SubmitLogin, LoginAdmin, LogoutAdmin, AdminWork, AdminCall
    <3> QED
      BY <3>1, HeaderStays
  <2>5. CASE \/ SubmitName(t) \/ SubmitAvatar(t) \/ RemoveAvatar(t) \/ SaveColor(t)
             \/ \E right \in {0, 1} : SubmitPassword(t, right)
    <3>1. PICK op, val, prof : Save(t, op, val, prof)
      BY <2>5 DEF SubmitName, SubmitAvatar, RemoveAvatar, SaveColor, SubmitPassword
    <3> QED
      BY <3>1, SaveMeans, HeaderStays
  <2> QED
    BY <1>1, <2>1, <2>2, <2>3, <2>4, <2>5, Zenon DEF Presses
<1>2. ASSUME NEW t \in Tabs, Leave(t)
      PROVE  ReloadKeepsHeader'
  BY <1>2, HeaderLoad DEF Leave, Places
<1>3. ASSUME NEW c \in calls, Answers(c)
      PROVE  ReloadKeepsHeader'
  <2>1. /\ c.tab # None /\ InHeader(c.op) \in SUBSET Fields /\ (InHeader(c.op) = {} \/ c.got \in Details)
        /\ \E shown \in TabTypes : Shown(c, shown, tabs[c.tab])
    BY <1>3, AnswersMean
  <2>2. PICK shown \in TabTypes : Shown(c, shown, tabs[c.tab])
    BY <2>1
  <2> QED
    BY <2>1, <2>2, HeaderUpdates DEF Shown
<1>4. ASSUME NEW c \in calls, Unauthorized(c)
      PROVE  ReloadKeepsHeader'
  <2>1. PICK t \in Tabs, new \in TabTypes, h \in Stored :
           /\ t = c.tab /\ Becomes(t, tabs[t], new, h, calls \ {c}, doubt[t] \cup DoubtOf(c))
           /\ Failing(new, tabs[t], c)
           /\ h = held \/ (h = NoSession /\ EndsSession(t, c))
    BY <1>4, UnauthorizedMeans
  <2>2. new.user = tabs[t].user /\ (h = held \/ h.tok = None)
    BY <2>1, StoredFacts DEF Failing
  <2> QED
    BY <2>1, <2>2, HeaderMoves
<1>5. ASSUME NEW c \in calls, Fails(c)
      PROVE  ReloadKeepsHeader'
  <2>1. PICK t \in Tabs, new \in TabTypes, left \in SUBSET CallTypes :
           /\ Becomes(t, tabs[t], new, held, (calls \ {c}) \cup left, doubt[t] \cup DoubtOf(c))
           /\ Failing(new, tabs[t], c)
    BY <1>5, FailsMeans
  <2>2. new.user = tabs[t].user /\ held \in Stored
    BY <1>0, <2>1 DEF Failing, TabsTyped
  <2> QED
    BY <2>1, <2>2, HeaderMoves
<1>6. ASSUME NEW c \in calls, Serve(c)
      PROVE  ReloadKeepsHeader'
  BY <1>6, HeaderStays DEF Serve
<1>7. CASE CookieExpires \/ (\E s \in Students : Expire(s)) \/ UNCHANGED vars
  BY <1>7, HeaderStays DEF CookieExpires, Expire, vars
<1>8. ASSUME NEW c \in calls, Arrivals(c)
      PROVE  ReloadKeepsHeader'
  BY <1>3, <1>4, <1>5, <1>8, HeaderLoggedIn DEF Arrivals, Answers
<1> QED
  BY <1>1, <1>2, <1>6, <1>7, <1>8, Zenon DEF Next

\* As long as no other tab has a student, the storage keeps what the tab
\* shows: a reload shows the header as it was.
THEOREM ReloadSame == Spec => []ReloadKeepsHeader
<1>1. Init => ReloadKeepsHeader
  BY DEF Init, ReloadKeepsHeader, NoSession
<1> QED
  BY <1>1, TypeInit, TypeNext, HeaderNext, PTL DEF Spec

-----------------------------------------------------------------------------
(* The administrator's session.                                            *)

AdmCalls(t) == {c \in calls : c.op \in AdmOps /\ c.tab = t}

Knows(t) == tabs[t].adm = "unknown" \/ ((tabs[t].adm = "authenticated") <=> cookie)

\* What the tab learns of a request, whose key may be refused.
Tells(c, t) ==
  /\ c.stage = "ok" => (cookie <=> c.op # "adminLogout")
  /\ c.stage = "unauthorized" => c.op = "adminLogin" \/ (c.op = "probe" /\ ~cookie)
  /\ c.op = "adminLogin" /\ c.stage # "ok" => Knows(t)

\* While nothing overlapped or failed, at most one request of a tab concerns
\* the session, its answer tells what the cookie is, and without one the tab
\* knows it.  No other tab, and no page that is gone, is changing it.
AdmOf(t) ==
  /\ \A c \in calls : c.op \in AdminWrites => c.tab = t
  /\ \A c, d \in AdmCalls(t) : c = d
  /\ \A c \in AdmCalls(t) : Tells(c, t)
  /\ Knows(t) \/ AdmCalls(t) # {}

AdmInv == \A t \in Tabs : ~admDoubt[t] => AdmOf(t)

LEMMA AdmHeard ==
  ASSUME TypeInv, NEW t \in Tabs, NEW c \in AdmCalls(t)
  PROVE  c \in calls /\ c.op \in AdmOps /\ c.tab = t /\ c.heard = "page"
<1>1. c \in calls /\ c.op \in AdmOps /\ c.tab = t /\ c.tab # None
  BY Constants DEF AdmCalls
<1>2. c \in CallTypes /\ Known(c)
  BY <1>1, ArrivesFacts
<1> QED
  BY <1>1, <1>2 DEF Known

\* Nothing of a tab's session changes.
LEMMA AdmFrame ==
  ASSUME NEW t \in Tabs, AdmOf(t), AdmCalls(t)' = AdmCalls(t), cookie' = cookie,
         tabs'[t].adm = tabs[t].adm, \A k \in calls' : k.op \in AdminWrites => k \in calls \/ k.tab = t
  PROVE  AdmOf(t)'
<1>1. \A c \in calls' : c.op \in AdminWrites => c.tab = t
  BY DEF AdmOf
<1>2. \A c, d \in AdmCalls(t)' : c = d
  BY DEF AdmOf
<1>3. (Knows(t) <=> Knows(t)') /\ (Knows(t)' \/ AdmCalls(t)' # {})
  BY DEF AdmOf, Knows
<1>4. \A c \in AdmCalls(t)' : Tells(c, t)'
  BY <1>3 DEF AdmOf, Tells
<1> QED
  BY <1>1, <1>2, <1>3, <1>4 DEF AdmOf

\* Becomes passes on the requests about the session.
LEMMA AdmMove ==
  ASSUME TypeInv, NEW t \in Tabs, NEW old, NEW new \in TabTypes, NEW h \in Stored, NEW cs \in SUBSET CallTypes,
         NEW ds, Becomes(t, old, new, h, cs, ds)
  PROVE  /\ \A k \in calls' : k.op \in AdmOps => k \in cs
         /\ \A c \in cs : c.op \in AdmOps /\ c.heard # "nobody" => c \in calls'
         /\ \A u \in Tabs : u # t => tabs'[u].adm = tabs[u].adm
         /\ tabs'[t].adm = new.adm
<1>0. TabsTyped
  BY TypeParts
<1>1. PICK there \in TabTypes : there = There(old, new)
  BY ThereFacts
<1>2. PICK tok \in Tokens \cup {None} : tok = h.tok
  BY DEF Stored
<1>3. PICK sent : sent = Effects(t, old, there, tok) OBVIOUS
<1>4. Became(t, old, there, h, Kept(t, there, cs), sent, ds)
  BY <1>1, <1>2, <1>3, BecomesMeans
<1>5. \A c \in CallTypes : c.op \in AdmOps => Clean(t, there, c) = c
  BY DEF Clean, AdmOps, AdminWrites, Saves
<1>6. ASSUME NEW k \in calls', k.op \in AdmOps
      PROVE  k \in cs
  <2>1. \/ k \in sent
        \/ \E c \in cs : c \in CallTypes /\ k = Clean(t, there, c) /\ (k.heard # "nobody" \/ k.stage # "ok")
    BY <1>4, BecameCalls
  <2>2. CASE k \in sent
    <3>1. k \in Effects(t, old, there, tok)
      BY <1>3, <2>2
    <3>2. PICK op \in {"me", "profile"} : k = Request(t, op, tok, None, 0)
      BY <3>1 DEF Effects
    <3> QED
      BY <1>6, <3>2 DEF Request, AdmOps, AdminWrites
  <2>3. ASSUME NEW c \in cs, c \in CallTypes, k = Clean(t, there, c)
        PROVE  k \in cs
    <3>1. k.op = c.op
      BY <2>3, CleanFacts
    <3> QED
      BY <1>5, <1>6, <2>3, <3>1
  <2> QED
    BY <2>1, <2>2, <2>3
<1>7. ASSUME NEW c \in cs, c.op \in AdmOps, c.heard # "nobody"
      PROVE  c \in calls'
  <2>1. Clean(t, there, c) = c
    BY <1>5, <1>7
  <2>2. c \in Kept(t, there, cs)
    BY <1>7, <2>1, Zenon DEF Kept
  <2> QED
    BY <1>4, <2>2 DEF Became
<1>8. \A u \in Tabs : u # t => tabs'[u].adm = tabs[u].adm
  BY <1>0, MoveTabs
<1>9. tabs'[t].adm = new.adm
  BY <1>0, MoveTabs
<1> QED
  BY <1>6, <1>7, <1>8, <1>9

\* Becomes with requests that were under way, the session of tab u left alone.
LEMMA AdmSame ==
  ASSUME TypeInv, NEW t \in Tabs, NEW old, NEW new \in TabTypes, NEW h \in Stored, NEW cs \in SUBSET CallTypes,
         NEW ds, Becomes(t, old, new, h, cs, ds), cookie' = cookie,
         NEW u \in Tabs, AdmOf(u), u = t => new.adm = tabs[u].adm,
         \A c \in AdmCalls(u) : c \in cs,
         \A k \in cs : k.op \in AdmOps => k \in calls \/ (k.tab # u /\ k.op \notin AdminWrites)
  PROVE  AdmOf(u)'
<1>1. /\ \A k \in calls' : k.op \in AdmOps => k \in cs
      /\ \A c \in cs : c.op \in AdmOps /\ c.heard # "nobody" => c \in calls'
      /\ \A v \in Tabs : v # t => tabs'[v].adm = tabs[v].adm
  BY AdmMove
<1>2. tabs'[t].adm = new.adm
  BY AdmMove
<1>3. tabs'[u].adm = tabs[u].adm
  BY <1>1, <1>2
<1>4. ASSUME NEW k \in AdmCalls(u)'
      PROVE  k \in AdmCalls(u)
  <2>1. k \in calls' /\ k.op \in AdmOps /\ k.tab = u
    BY <1>4, Constants DEF AdmCalls
  <2> QED
    BY <1>1, <2>1 DEF AdmCalls
<1>5. ASSUME NEW c \in AdmCalls(u)
      PROVE  c \in AdmCalls(u)'
  <2>1. c \in cs /\ c.op \in AdmOps /\ c.tab = u /\ c.heard # "nobody"
    BY AdmHeard, <1>5
  <2> QED
    BY <1>1, <2>1 DEF AdmCalls
<1>6. AdmCalls(u)' = AdmCalls(u)
  BY <1>4, <1>5
<1>7. \A k \in calls' : k.op \in AdminWrites => k \in calls
  BY <1>1 DEF AdmOps
<1> QED
  BY <1>3, <1>6, <1>7, AdmFrame

LEMMA AdmLoad ==
  ASSUME TypeInv, AdmInv, NEW t \in Tabs, NEW p \in Places, LoadPage(t, p)
  PROVE  AdmInv'
<1>1. PICK old : \E new \in TabTypes, cs \in SUBSET CallTypes :
        /\ Becomes(t, old, new, held, cs, {})
        /\ new = Loaded(p) /\ new.adm = "unknown"
        /\ cs = Unlistened(t) \cup Probe(t, held.tok)
        /\ \A c \in cs : \/ c \in calls /\ c.tab # t
                         \/ \E d \in calls : d.tab = t /\ Forgotten(c, d)
                         \/ c \in Probe(t, held.tok)
        /\ \A c \in Probe(t, held.tok) :
             c.op = "probe" /\ c.tab = t /\ c.heard = "page" /\ c.stage = "sent" /\ c.tok = held.tok
  BY LoadMeans
<1>2. PICK new \in TabTypes, cs \in SUBSET CallTypes :
        /\ Becomes(t, old, new, held, cs, {})
        /\ new = Loaded(p) /\ new.adm = "unknown"
        /\ cs = Unlistened(t) \cup Probe(t, held.tok)
        /\ \A c \in cs : \/ c \in calls /\ c.tab # t
                         \/ \E d \in calls : d.tab = t /\ Forgotten(c, d)
                         \/ c \in Probe(t, held.tok)
        /\ \A c \in Probe(t, held.tok) :
             c.op = "probe" /\ c.tab = t /\ c.heard = "page" /\ c.stage = "sent" /\ c.tok = held.tok
  BY <1>1
<1>3. cookie' = cookie /\ held \in Stored
  BY TypeParts DEF LoadPage, server, TabsTyped
<1>4. admDoubt' = [admDoubt EXCEPT ![t] = \E c \in Unlistened(t) : c.op \in AdminWrites]
  BY DEF LoadPage
<1>5. admDoubt \in [Tabs -> BOOLEAN]
  BY TypeParts DEF RestTyped
<1>6. ASSUME NEW u \in Tabs, u # t, ~admDoubt'[u]
      PROVE  AdmOf(u)'
  <2>1. ~admDoubt[u]
    BY <1>4, <1>5, <1>6
  <2>2. AdmOf(u)
    BY <2>1 DEF AdmInv
  <2>3. \A c \in AdmCalls(u) : c \in cs
    BY <1>2, <1>6 DEF AdmCalls, Unlistened
  <2>4. ASSUME NEW k \in cs, k.op \in AdmOps
        PROVE  k \in calls \/ (k.tab # u /\ k.op \notin AdminWrites)
    <3>1. CASE k \in Probe(t, held.tok)
      BY <1>2, <1>6, <3>1 DEF AdminWrites
    <3>2. ASSUME NEW d \in calls, d.tab = t, Forgotten(k, d)
          PROVE  k.tab # u /\ k.op \notin AdminWrites
      BY <1>6, <2>2, <3>2, Constants DEF Forgotten, AdmOf
    <3> QED
      BY <1>2, <3>1, <3>2
  <2> QED
    BY <1>2, <1>3, <1>6, <2>2, <2>3, <2>4, AdmSame
<1>7. ASSUME ~admDoubt'[t]
      PROVE  AdmOf(t)'
  <2>1. \A c \in Unlistened(t) : c.op \notin AdminWrites
    BY <1>4, <1>5, <1>7
  <2>2. \A k \in calls' : k.op \in AdmOps => k \in cs
    BY <1>2, <1>3, AdmMove
  <2>3. tabs'[t].adm = "unknown"
    BY <1>2, <1>3, AdmMove
  <2>4. ASSUME NEW k \in calls', k.op \in AdmOps
        PROVE  k.op \notin AdminWrites /\ (k.tab = t => k \in Probe(t, held.tok))
    <3>1. k \in cs
      BY <2>2, <2>4
    <3>2. CASE k \in Probe(t, held.tok)
      BY <1>2, <3>2 DEF AdminWrites
    <3>3. CASE k \in Unlistened(t)
      <4>1. k.op \notin AdminWrites
        BY <2>1, <3>3
      <4>2. k.tab # t \/ k \in Probe(t, held.tok)
        BY <1>2, <3>1, Constants DEF Forgotten
      <4> QED
        BY <4>1, <4>2
    <3> QED
      BY <1>2, <3>1, <3>2, <3>3
  <2>5. \A k \in AdmCalls(t)' : k \in Probe(t, held.tok)
    BY <2>4 DEF AdmCalls
  <2>6. \A k, l \in Probe(t, held.tok) : k = l
    BY DEF Probe
  <2>7. \A k \in AdmCalls(t)' : k.stage = "sent"
    BY <1>2, <2>5
  <2>8. /\ \A c \in calls' : c.op \in AdminWrites => c.tab = t
        /\ \A c, d \in AdmCalls(t)' : c = d
        /\ Knows(t)' /\ \A c \in AdmCalls(t)' : Tells(c, t)'
    BY <2>3, <2>4, <2>5, <2>6, <2>7 DEF AdmOps, Tells, Knows
  <2> QED
    BY <2>8 DEF AdmOf
<1> QED
  BY <1>6, <1>7 DEF AdmInv

\* A step of Becomes, with some of the requests under way, that leaves the
\* session alone.
LEMMA AdmAside ==
  ASSUME TypeInv, AdmInv, NEW t \in Tabs, NEW old, NEW new \in TabTypes, NEW h \in Stored, NEW cs \in SUBSET calls,
         NEW ds, Becomes(t, old, new, h, cs, ds), cookie' = cookie, admDoubt' = admDoubt,
         new.adm = tabs[t].adm, \A c \in calls : c.op \in AdmOps => c \in cs
  PROVE  AdmInv'
<1>1. cs \in SUBSET CallTypes
  BY TypeParts DEF TabsTyped
<1> SUFFICES ASSUME NEW u \in Tabs, ~admDoubt'[u]
             PROVE  AdmOf(u)'
  BY DEF AdmInv
<1>2. AdmOf(u)
  BY DEF AdmInv
<1>3. \A c \in AdmCalls(u) : c \in cs
  BY DEF AdmCalls
<1>4. u = t => new.adm = tabs[u].adm
  OBVIOUS
<1>5. \A k \in cs : k.op \in AdmOps => k \in calls \/ (k.tab # u /\ k.op \notin AdminWrites)
  OBVIOUS
<1> QED
  BY <1>1, <1>2, <1>3, <1>4, <1>5, AdmSame

LEMMA AdmGoes ==
  ASSUME TypeInv, AdmInv, NEW t \in Tabs, NEW p \in Places, Goes(t, p)
  PROVE  AdmInv'
<1>0. tabs[t] \in TabTypes /\ held \in Stored
  BY TypeParts DEF TabsTyped
<1>1. PICK new : new = [tabs[t] EXCEPT !.at = p] OBVIOUS
<1>2. Becomes(t, tabs[t], new, held, calls, doubt[t]) /\ cookie' = cookie /\ admDoubt' = admDoubt
  BY <1>1 DEF Goes, server
<1>3. new \in TabTypes /\ new.adm = tabs[t].adm
  BY <1>0, <1>1 DEF TabTypes
<1>4. calls \in SUBSET calls
  OBVIOUS
<1> QED
  BY <1>0, <1>2, <1>3, <1>4, AdmAside

LEMMA AdmLogoutStudent ==
  ASSUME TypeInv, AdmInv, NEW t \in Tabs, LogoutStudent(t)
  PROVE  AdmInv'
<1>0. tabs[t] \in TabTypes
  BY TypeParts DEF TabsTyped
<1>1. PICK new : new = [tabs[t] EXCEPT !.user = None] OBVIOUS
<1>2. Becomes(t, tabs[t], new, NoSession, calls, doubt[t]) /\ cookie' = cookie /\ admDoubt' = admDoubt
  BY <1>1 DEF LogoutStudent, server
<1>3. new \in TabTypes /\ new.adm = tabs[t].adm
  BY <1>0, <1>1 DEF TabTypes
<1>4. calls \in SUBSET calls /\ NoSession \in Stored
  BY StoredFacts
<1> QED
  BY <1>2, <1>3, <1>4, AdmAside

LEMMA AdmLoggedIn ==
  ASSUME TypeInv, AdmInv, NEW c \in calls, LoggedIn(c)
  PROVE  AdmInv'
<1>1. c.tab \in Tabs /\ c \in CallTypes /\ Known(c) /\ c.stage = "ok" /\ c.op = "login"
  BY ArrivesFacts DEF LoggedIn, Arrives
<1>2. PICK t \in Tabs : t = c.tab
  BY <1>1
<1>3. PICK session : session = LoginStudent(<<c.who, c.val>>, c.got["name"]) OBVIOUS
<1>4. session \in Sessions /\ session \in Stored
  BY <1>1, <1>3, SessionFacts, StoredFacts
<1>5. PICK new : new = [tabs[t] EXCEPT !.user = session] OBVIOUS
<1>6. Becomes(t, tabs[t], new, session, calls \ {c}, {}) /\ cookie' = cookie /\ admDoubt' = admDoubt
  BY <1>2, <1>3, <1>5 DEF LoggedIn, server
<1>7. tabs[t] \in TabTypes
  BY TypeParts DEF TabsTyped
<1>8. new \in TabTypes /\ new.adm = tabs[t].adm
  BY <1>4, <1>5, <1>7 DEF TabTypes
<1>9. calls \ {c} \in SUBSET calls /\ \A d \in calls : d.op \in AdmOps => d \in calls \ {c}
  BY <1>1 DEF AdmOps, AdminWrites
<1> QED
  BY <1>4, <1>6, <1>8, <1>9, AdmAside

\* The answer, or the error, of a request about the session arrives.
LEMMA AdmArrives ==
  ASSUME TypeInv, AdmInv, NEW c \in calls, c.op \in AdmOps, NEW t \in Tabs, t = c.tab,
         NEW new \in TabTypes, NEW h \in Stored, NEW ds,
         Becomes(t, tabs[t], new, h, calls \ {c}, ds), cookie' = cookie, admDoubt' = admDoubt,
         AdmOf(t) => new.adm = "unknown" \/ ((new.adm = "authenticated") <=> cookie)
  PROVE  AdmInv'
<1>1. calls \ {c} \in SUBSET CallTypes
  BY TypeParts DEF TabsTyped
<1> SUFFICES ASSUME NEW u \in Tabs, ~admDoubt'[u]
             PROVE  AdmOf(u)'
  BY DEF AdmInv
<1>2. AdmOf(u)
  BY DEF AdmInv
<1>3. CASE u # t
  <2>1. \A d \in AdmCalls(u) : d \in calls \ {c}
    BY <1>3 DEF AdmCalls
  <2>2. \A k \in calls \ {c} : k.op \in AdmOps => k \in calls \/ (k.tab # u /\ k.op \notin AdminWrites)
    OBVIOUS
  <2>3. u = t => new.adm = tabs[u].adm
    BY <1>3
  <2> QED
    BY <1>1, <1>2, <2>1, <2>2, <2>3, AdmSame
<1>4. CASE u = t
  <2>1. \A k \in calls' : k.op \in AdmOps => k \in calls \ {c}
    BY <1>1, AdmMove
  <2>2. tabs'[t].adm = new.adm
    BY <1>1, AdmMove
  <2>3. c \in AdmCalls(t)
    BY DEF AdmCalls
  <2>4. AdmCalls(t)' = {}
    BY <1>2, <1>4, <2>1, <2>3 DEF AdmCalls, AdmOf
  <2>5. \A k \in calls' : k.op \in AdminWrites => k.tab = t
    BY <1>2, <1>4, <2>1 DEF AdmOf, AdmOps
  <2>6. Knows(t)'
    BY <1>2, <1>4, <2>2 DEF Knows
  <2> QED
    BY <1>4, <2>4, <2>5, <2>6 DEF AdmOf
<1> QED
  BY <1>3, <1>4

LEMMA AdminStatusFacts ==
  /\ \A op, was : op \notin AdmOps => AdminStatus(op, TRUE, was) = was /\ AdminStatus(op, FALSE, was) = was
  /\ \A was : AdminStatus("adminLogout", TRUE, was) = "anonymous"
  /\ \A was : AdminStatus("adminLogin", TRUE, was) = "authenticated"
  /\ \A was : AdminStatus("probe", TRUE, was) = "authenticated"
  /\ \A was : AdminStatus("probe", FALSE, was) = "anonymous"
  /\ \A was : AdminStatus("adminLogin", FALSE, was) = was
BY DEF AdminStatus, AdmOps, AdminWrites

LEMMA AdmAnswers ==
  ASSUME TypeInv, AdmInv, NEW c \in calls, Answers(c)
  PROVE  AdmInv'
<1>1. /\ c.tab # None /\ c.stage = "ok" /\ InHeader(c.op) \in SUBSET Fields
      /\ (InHeader(c.op) = {} \/ c.got \in Details)
      /\ \E shown \in TabTypes : Shown(c, shown, tabs[c.tab])
  BY AnswersMean
<1>2. PICK shown \in TabTypes : Shown(c, shown, tabs[c.tab])
  BY <1>1
<1>8. shown.at = tabs[c.tab].at /\ shown.user = tabs[c.tab].user /\ Updates(c, shown, InHeader(c.op))
  BY <1>2 DEF Shown
<1>3. PICK t \in Tabs, new \in TabTypes, h \in Stored :
        /\ t = c.tab /\ Becomes(t, tabs[t], new, h, calls \ {c}, doubt[t])
        /\ new.adm = shown.adm
  BY <1>1, <1>8, UpdatesMeans
<1>4. cookie' = cookie /\ admDoubt' = admDoubt
  BY <1>2 DEF Shown, Updates, server
<1>5. new.adm = AdminStatus(c.op, TRUE, tabs[t].adm)
  BY <1>2, <1>3 DEF Shown
<1>6. CASE c.op \in AdmOps
  <2>1. c.op \in {"probe", "adminLogin", "adminLogout"}
    BY <1>6 DEF AdmOps, AdminWrites
  <2>2. AdmOf(t) => (cookie <=> c.op # "adminLogout")
    BY <1>1, <1>3, <1>6 DEF AdmOf, AdmCalls, Tells
  <2>3. (new.adm = "authenticated") <=> c.op # "adminLogout"
    BY <1>5, <2>1, AdminStatusFacts
  <2> QED
    BY <1>3, <1>4, <1>6, <2>2, <2>3, AdmArrives
<1>7. CASE c.op \notin AdmOps
  <2>1. new.adm = tabs[t].adm
    BY <1>5, <1>7, AdminStatusFacts
  <2>2. calls \ {c} \in SUBSET calls /\ \A d \in calls : d.op \in AdmOps => d \in calls \ {c}
    BY <1>7
  <2> QED
    BY <1>3, <1>4, <2>1, <2>2, AdmAside
<1> QED
  BY <1>6, <1>7

LEMMA AdmUnauthorized ==
  ASSUME TypeInv, AdmInv, NEW c \in calls, Unauthorized(c)
  PROVE  AdmInv'
<1>1. PICK t \in Tabs, new \in TabTypes, h \in Stored :
           /\ t = c.tab /\ Becomes(t, tabs[t], new, h, calls \ {c}, doubt[t] \cup DoubtOf(c))
           /\ Failing(new, tabs[t], c)
  BY UnauthorizedMeans
<1>2. cookie' = cookie /\ admDoubt' = admDoubt /\ c.stage = "unauthorized"
  BY DEF Unauthorized, server
<1>3. new.adm = (IF c.heard = "nobody" THEN tabs[t].adm ELSE AdminStatus(c.op, FALSE, tabs[t].adm))
  BY <1>1 DEF Failing
<1>4. CASE c.op \in AdmOps
  <2>1. c \in AdmCalls(t)
    BY <1>1, <1>4 DEF AdmCalls
  <2>2. c.heard = "page"
    BY <2>1, AdmHeard
  <2>3. AdmOf(t) => (c.op = "probe" /\ ~cookie) \/ (c.op = "adminLogin" /\ Knows(t))
    BY <1>2, <2>1 DEF AdmOf, Tells
  <2>4. /\ c.op = "probe" => new.adm = "anonymous"
        /\ c.op = "adminLogin" => new.adm = tabs[t].adm
    BY <1>3, <2>2, AdminStatusFacts
  <2>5. AdmOf(t) => new.adm = "unknown" \/ ((new.adm = "authenticated") <=> cookie)
    BY <2>3, <2>4 DEF Knows
  <2> QED
    BY <1>1, <1>2, <1>4, <2>5, AdmArrives
<1>5. CASE c.op \notin AdmOps
  <2>1. new.adm = tabs[t].adm
    BY <1>3, <1>5, AdminStatusFacts
  <2>2. calls \ {c} \in SUBSET calls /\ \A d \in calls : d.op \in AdmOps => d \in calls \ {c}
    BY <1>5
  <2> QED
    BY <1>1, <1>2, <2>1, <2>2, AdmAside
<1> QED
  BY <1>4, <1>5

LEMMA AdmFails ==
  ASSUME TypeInv, AdmInv, NEW c \in calls, Fails(c)
  PROVE  AdmInv'
<1>0. held \in Stored /\ admDoubt \in [Tabs -> BOOLEAN] /\ calls \in SUBSET CallTypes
  BY TypeParts DEF TabsTyped, RestTyped
<1>1. PICK t \in Tabs, new \in TabTypes, left \in SUBSET CallTypes :
           /\ t = c.tab
           /\ Becomes(t, tabs[t], new, held, (calls \ {c}) \cup left, doubt[t] \cup DoubtOf(c))
           /\ Failing(new, tabs[t], c)
           /\ \A d \in left : Forgotten(d, c)
           /\ c.heard # "nobody"
  BY FailsMeans
<1>2. cookie' = cookie /\ admDoubt' = [admDoubt EXCEPT ![t] = @ \/ c.op \in {"probe"} \cup AdminWrites]
  BY <1>1 DEF Fails, server
<1>3. PICK cs \in SUBSET CallTypes : cs = (calls \ {c}) \cup left
  BY <1>0
<1> SUFFICES ASSUME NEW u \in Tabs, ~admDoubt'[u]
             PROVE  AdmOf(u)'
  BY DEF AdmInv
<1>4. ~admDoubt[u] /\ (u = t => c.op \notin AdmOps)
  BY <1>0, <1>2 DEF AdmOps
<1>5. AdmOf(u)
  BY <1>4 DEF AdmInv
<1>6. u = t => new.adm = tabs[u].adm
  <2>1. new.adm = AdminStatus(c.op, FALSE, tabs[t].adm)
    BY <1>1 DEF Failing
  <2> QED
    BY <1>4, <2>1, AdminStatusFacts
<1>7. \A d \in AdmCalls(u) : d \in cs
  BY <1>1, <1>3, <1>4 DEF AdmCalls
<1>8. ASSUME NEW k \in cs, k.op \in AdmOps
      PROVE  k \in calls \/ (k.tab # u /\ k.op \notin AdminWrites)
  <2>1. CASE k \in left
    <3>1. k.op = c.op /\ k.tab = None
      BY <1>1, <2>1 DEF Forgotten
    <3>2. c.op \in AdmOps /\ u # t
      BY <1>4, <1>8, <3>1
    <3>3. c.op \notin AdminWrites
      BY <1>1, <1>5, <3>2 DEF AdmOf
    <3> QED
      BY <3>1, <3>3, Constants
  <2> QED
    BY <1>3, <2>1
<1>9. Becomes(t, tabs[t], new, held, cs, doubt[t] \cup DoubtOf(c))
  BY <1>1, <1>3
<1> QED
  BY <1>0, <1>2, <1>5, <1>6, <1>7, <1>8, <1>9, AdmSame

\* Requests about other things, and what they are answered with.
LEMMA AdmStill ==
  ASSUME TypeInv, AdmInv, cookie' = cookie, \A u \in Tabs : tabs'[u].adm = tabs[u].adm,
         admDoubt' = admDoubt, \A k \in calls' : k.op \in AdmOps => k \in calls,
         \A c \in calls : c.op \in AdmOps => c \in calls'
  PROVE  AdmInv'
<1> SUFFICES ASSUME NEW u \in Tabs, ~admDoubt'[u]
             PROVE  AdmOf(u)'
  BY DEF AdmInv
<1>1. AdmOf(u)
  BY DEF AdmInv
<1>2. AdmCalls(u)' = AdmCalls(u)
  BY DEF AdmCalls
<1>3. \A k \in calls' : k.op \in AdminWrites => k \in calls \/ k.tab = u
  BY DEF AdmOps
<1> QED
  BY <1>1, <1>2, <1>3, AdmFrame

LEMMA AdmSend ==
  ASSUME TypeInv, AdmInv, NEW t, NEW op, NEW tok, NEW who, NEW val, op \notin AdmOps,
         calls' = calls \cup {Request(t, op, tok, who, val)}, cookie' = cookie, admDoubt' = admDoubt,
         \A u \in Tabs : tabs'[u].adm = tabs[u].adm
  PROVE  AdmInv'
<1>1. PICK c : c = Request(t, op, tok, who, val) OBVIOUS
<1>2. c.op \notin AdmOps
  BY <1>1 DEF Request
<1>3. calls' = calls \cup {c}
  BY <1>1
<1> QED
  BY <1>2, <1>3, AdmStill

LEMMA AdmAsks ==
  ASSUME TypeInv, AdmInv, NEW t \in Tabs,
         OpenCourse(t) \/ (\E s \in Students : SubmitLogin(t, s)) \/ AdminWork(t)
  PROVE  AdmInv'
<1>1. cookie' = cookie /\ admDoubt' = admDoubt /\ tabs' = tabs
  BY DEF OpenCourse, SubmitLogin, AdminWork, server
<1>2. PICK op, who : op \in {"course", "login", "adminWork"} /\ Send(t, {Request(t, op, held.tok, who, 0)})
  <2>1. CASE OpenCourse(t)
    <3>1. Send(t, {Request(t, "course", held.tok, None, 0)})
      BY <2>1 DEF OpenCourse
    <3> QED
      BY <3>1
  <2>2. CASE \E s \in Students : SubmitLogin(t, s)
    <3>1. PICK s \in Students : Send(t, {Request(t, "login", held.tok, s, 0)})
      BY <2>2 DEF SubmitLogin
    <3> QED
      BY <3>1
  <2>3. CASE AdminWork(t)
    <3>1. Send(t, {Request(t, "adminWork", held.tok, None, 0)})
      BY <2>3 DEF AdminWork
    <3> QED
      BY <3>1
  <2> QED
    BY <2>1, <2>2, <2>3
<1>3. calls' = calls \cup {Request(t, op, held.tok, who, 0)} /\ op \notin AdmOps
  BY <1>2 DEF Send, AdmOps, AdminWrites
<1> QED
  BY <1>1, <1>3, AdmSend

LEMMA AdmSaves ==
  ASSUME TypeInv, AdmInv, NEW t \in Tabs, NEW op \in Saves \cup {"password"}, NEW val, NEW prof,
         Save(t, op, val, prof)
  PROVE  AdmInv'
<1>1. cookie' = cookie /\ admDoubt' = admDoubt
  BY DEF Save, server
<1>2. \A u \in Tabs : tabs'[u].adm = tabs[u].adm
  BY SaveMeans
<1>3. calls' = calls \cup {Request(t, op, held.tok, None, val)} /\ op \notin AdmOps
  BY DEF Save, AdmOps, AdminWrites, Saves
<1> QED
  BY <1>1, <1>2, <1>3, AdmSend

LEMMA AdmCall ==
  ASSUME TypeInv, AdmInv, NEW t \in Tabs, NEW op \in AdminWrites, AdminCall(t, op)
  PROVE  AdmInv'
<1>1. cookie' = cookie /\ tabs' = tabs
      /\ admDoubt' = [u \in Tabs |-> admDoubt[u] \/ u # t \/ Underway(t, {"probe"} \cup AdminWrites)]
  BY DEF AdminCall, server
<1>2. PICK c : c = Request(t, op, held.tok, None, 0) OBVIOUS
<1>3. calls' = calls \cup {c}
  BY <1>2 DEF AdminCall, Send
<1>4. c.op = op /\ c.tab = t /\ c.stage = "sent" /\ c.op \in AdmOps
  BY <1>2 DEF Request, AdmOps
<1> SUFFICES ASSUME NEW u \in Tabs, ~admDoubt'[u]
             PROVE  AdmOf(u)'
  BY DEF AdmInv
<1>5. u = t /\ ~admDoubt[t] /\ ~Underway(t, AdmOps)
  BY <1>1 DEF AdmOps
<1>6. AdmOf(t)
  BY <1>5 DEF AdmInv
<1>7. AdmCalls(t) = {}
  <2> SUFFICES ASSUME NEW d \in AdmCalls(t)
               PROVE  FALSE
    OBVIOUS
  <2>1. d \in calls /\ d.op \in AdmOps /\ d.tab = t /\ d.heard = "page"
    BY AdmHeard
  <2> QED
    BY <1>5, <2>1 DEF Underway
<1>8. AdmCalls(t)' = {c}
  BY <1>3, <1>4, <1>7 DEF AdmCalls
<1>9. \A d \in calls' : d.op \in AdminWrites => d.tab = t
  BY <1>3, <1>4, <1>6 DEF AdmOf
<1>10. \A d \in AdmCalls(t)' : d.stage = "sent"
  BY <1>4, <1>8
<1>11. \A d, e \in AdmCalls(t)' : d = e
  BY <1>8
<1>12. Knows(t)'
  BY <1>1, <1>6, <1>7 DEF AdmOf, Knows
<1>13. \A d \in AdmCalls(t)' : Tells(d, t)'
  BY <1>10, <1>12 DEF Tells
<1> QED
  BY <1>5, <1>9, <1>11, <1>12, <1>13 DEF AdmOf

LEMMA AdmServe ==
  ASSUME TypeInv, AdmInv, NEW c \in calls, Serve(c)
  PROVE  AdmInv'
<1>1. c \in CallTypes /\ Known(c) /\ c.stage = "sent" /\ tabs' = tabs /\ admDoubt' = admDoubt
  BY TypeParts DEF TabsTyped, PlacedInv, Serve, history
<1>2. PICK new : /\ calls' = (calls \ {c}) \cup new
                 /\ \A k \in new : k.op = c.op /\ k.tab = c.tab /\ k.stage \in {"ok", "unauthorized"}
                 /\ \A k, l \in new : k = l
  <2>1. ASSUME NEW got, Answered(c, got)
        PROVE  \E new : /\ calls' = (calls \ {c}) \cup new
                        /\ \A k \in new : k.op = c.op /\ k.tab = c.tab /\ k.stage \in {"ok", "unauthorized"}
                        /\ \A k, l \in new : k = l
    <3>1. PICK k : k = [c EXCEPT !.stage = "ok", !.got = got] OBVIOUS
    <3>2. k.op = c.op /\ k.tab = c.tab /\ k.stage = "ok"
      BY <1>1, <3>1 DEF CallTypes
    <3> DEFINE kept == IF c.heard = "nobody" THEN {} ELSE {k}
    <3>3. calls' = (calls \ {c}) \cup kept
      BY <2>1, <3>1 DEF Answered
    <3>4. \A l \in kept : l = k
      OBVIOUS
    <3> HIDE DEF kept
    <3> QED
      BY <3>2, <3>3, <3>4
  <2>2. ASSUME Refused(c)
        PROVE  \E new : /\ calls' = (calls \ {c}) \cup new
                        /\ \A k \in new : k.op = c.op /\ k.tab = c.tab /\ k.stage \in {"ok", "unauthorized"}
                        /\ \A k, l \in new : k = l
    <3>1. PICK k : k = [c EXCEPT !.stage = "unauthorized"] OBVIOUS
    <3>2. k.op = c.op /\ k.tab = c.tab /\ k.stage = "unauthorized"
      BY <1>1, <3>1 DEF CallTypes
    <3> DEFINE kept == IF c.tab = None THEN {} ELSE {k}
    <3>3. calls' = (calls \ {c}) \cup kept
      BY <2>2, <3>1 DEF Refused
    <3>4. \A l \in kept : l = k
      OBVIOUS
    <3> HIDE DEF kept
    <3> QED
      BY <3>2, <3>3, <3>4
  <2>3. CASE ServeLogin(c) /\ ~Refused(c)
    <3>1. PICK k : k = [c EXCEPT !.stage = "ok", !.val = gen[c.who], !.got = Profile(c.who, account)] OBVIOUS
    <3>2. k.op = c.op /\ k.tab = c.tab /\ k.stage = "ok"
      BY <1>1, <3>1 DEF CallTypes
    <3> DEFINE kept == IF c.heard = "nobody" THEN {} ELSE {k}
    <3>3. calls' = (calls \ {c}) \cup kept
      BY <2>3, <3>1 DEF ServeLogin
    <3>4. \A l \in kept : l = k
      OBVIOUS
    <3> HIDE DEF kept
    <3> QED
      BY <3>2, <3>3, <3>4
  <2>4. ServeLogin(c) \/ Refused(c) \/ \E got : Answered(c, got)
    BY DEF Serve, ServeStudent, ServeCourse, ServePassword, ServeAdmin
  <2> QED
    BY <2>1, <2>2, <2>3, <2>4
<1>3. CASE c.op \notin AdmOps
  <2>1. cookie' = cookie
    <3>1. CASE ServeAdmin(c)
      <4>1. cookie' = cookie \/ cookie' = ((cookie \/ c.op = "adminLogin") /\ c.op # "adminLogout")
        BY <3>1 DEF ServeAdmin, ClearsCookie
      <4>2. c.op # "adminLogin" /\ c.op # "adminLogout"
        BY <1>3 DEF AdmOps, AdminWrites
      <4>3. cookie \in BOOLEAN
        BY TypeParts DEF RestTyped
      <4> QED
        BY <4>1, <4>2, <4>3
    <3> QED
      BY <3>1 DEF Serve, ServeStudent, ServeCourse, ServePassword, ServeLogin, server
  <2>2. \A k \in calls' : k.op \in AdmOps => k \in calls
    BY <1>2, <1>3
  <2>3. \A d \in calls : d.op \in AdmOps => d \in calls'
    BY <1>2, <1>3
  <2> QED
    BY <1>1, <2>1, <2>2, <2>3, AdmStill
<1>4. CASE c.op \in AdmOps
  <2>1. ServeAdmin(c)
    BY <1>4 DEF Serve, ServeStudent, ServeCourse, ServePassword, ServeLogin, AdmOps, AdminWrites, Saves
  <2>2. \/ /\ c.op \in AdminWrites \/ cookie
           /\ cookie' = ((cookie \/ c.op = "adminLogin") /\ c.op # "adminLogout") /\ Answered(c, None)
        \/ /\ c.op = "adminLogin" \/ (c.op = "probe" /\ ~cookie)
           /\ cookie' = cookie /\ Refused(c)
    BY <1>4, <2>1 DEF ServeAdmin, ClearsCookie, AdmOps, AdminWrites
  <2> SUFFICES ASSUME NEW u \in Tabs, ~admDoubt'[u]
               PROVE  AdmOf(u)'
    BY DEF AdmInv
  <2>3. AdmOf(u)
    BY <1>1 DEF AdmInv
  <2>4. CASE c.tab # u
    <3>1. c.op = "probe"
      BY <1>4, <2>3, <2>4 DEF AdmOf, AdmOps
    <3>2. cookie' = cookie
      <4>1. cookie \in BOOLEAN
        BY TypeParts DEF RestTyped
      <4> QED
        BY <2>2, <3>1, <4>1
    <3>3. AdmCalls(u)' = AdmCalls(u)
      BY <1>2, <2>4 DEF AdmCalls
    <3>4. \A k \in calls' : k.op \in AdminWrites => k \in calls \/ k.tab = u
      BY <1>2, <3>1 DEF AdminWrites
    <3> QED
      BY <1>1, <2>3, <3>2, <3>3, <3>4, AdmFrame
  <2>5. CASE c.tab = u
    <3>1. c \in AdmCalls(u)
      BY <1>4, <2>5 DEF AdmCalls
    <3>2. c.heard = "page" /\ c.tab # None
      BY <2>5, <3>1, AdmHeard, Constants
    <3>4. \A k \in calls' : k.op \in AdminWrites => k.tab = u
      BY <1>2, <2>3, <2>5 DEF AdmOf
    <3>5. PICK k : /\ calls' = (calls \ {c}) \cup {k} /\ k.op = c.op /\ k.tab = u
                   /\ \/ k.stage = "ok" /\ cookie' = ((cookie \/ c.op = "adminLogin") /\ c.op # "adminLogout")
                         /\ (c.op \in AdminWrites \/ cookie)
                      \/ /\ k.stage = "unauthorized" /\ cookie' = cookie
                         /\ c.op = "adminLogin" \/ (c.op = "probe" /\ ~cookie)
      <4>1. CASE /\ c.op \in AdminWrites \/ cookie
                 /\ cookie' = ((cookie \/ c.op = "adminLogin") /\ c.op # "adminLogout") /\ Answered(c, None)
        <5>1. PICK k : k = [c EXCEPT !.stage = "ok", !.got = None] OBVIOUS
        <5>2. k.op = c.op /\ k.tab = c.tab /\ k.stage = "ok"
          BY <1>1, <5>1 DEF CallTypes
        <5>3. calls' = (calls \ {c}) \cup {k}
          BY <3>2, <4>1, <5>1 DEF Answered
        <5> QED
          BY <2>5, <4>1, <5>2, <5>3
      <4>2. CASE /\ c.op = "adminLogin" \/ (c.op = "probe" /\ ~cookie)
                 /\ cookie' = cookie /\ Refused(c)
        <5>1. PICK k : k = [c EXCEPT !.stage = "unauthorized"] OBVIOUS
        <5>2. k.op = c.op /\ k.tab = c.tab /\ k.stage = "unauthorized"
          BY <1>1, <5>1 DEF CallTypes
        <5>3. calls' = (calls \ {c}) \cup {k}
          BY <3>2, <4>2, <5>1 DEF Refused
        <5> QED
          BY <2>5, <4>2, <5>2, <5>3
      <4> QED
        BY <2>2, <4>1, <4>2
    <3>6. AdmCalls(u)' = {k}
      <4>1. ASSUME NEW d \in AdmCalls(u)'
            PROVE  d = k
        BY <2>3, <3>1, <3>5 DEF AdmCalls, AdmOf
      <4>2. k \in AdmCalls(u)'
        BY <1>4, <3>5 DEF AdmCalls
      <4> QED
        BY <4>1, <4>2
    <3>7. cookie \in BOOLEAN
      BY TypeParts DEF RestTyped
    <3>8. Tells(k, u)'
      <4>1. k.op \in {"probe", "adminLogin", "adminLogout"}
        BY <1>4, <3>5 DEF AdmOps, AdminWrites
      <4>2. CASE k.stage = "ok"
        <5>1. cookie' <=> k.op # "adminLogout"
          BY <3>5, <3>7, <4>1, <4>2 DEF AdminWrites
        <5> QED
          BY <4>2, <5>1 DEF Tells
      <4>3. CASE k.stage # "ok"
        <5>1. /\ k.stage = "unauthorized" /\ cookie' = cookie
              /\ k.op = "adminLogin" \/ (k.op = "probe" /\ ~cookie)
          BY <3>5, <4>3
        <5>2. k.op = "adminLogin" => Knows(u)
          BY <1>1, <2>3, <3>1, <3>5 DEF AdmOf, Tells
        <5>3. k.op = "adminLogin" => Knows(u)'
          BY <1>1, <5>1, <5>2 DEF Knows
        <5> QED
          BY <4>3, <5>1, <5>3 DEF Tells
      <4> QED
        BY <4>2, <4>3
    <3> QED
      BY <3>4, <3>6, <3>8 DEF AdmOf
  <2> QED
    BY <2>4, <2>5
<1> QED
  BY <1>3, <1>4

LEMMA AdmClocks ==
  ASSUME TypeInv, AdmInv, CookieExpires \/ (\E s \in Students : Expire(s)) \/ UNCHANGED vars
  PROVE  AdmInv'
<1>1. CASE CookieExpires
  BY <1>1 DEF CookieExpires, AdmInv
<1>2. CASE (\E s \in Students : Expire(s)) \/ UNCHANGED vars
  <2>1. cookie' = cookie /\ tabs' = tabs /\ calls' = calls /\ admDoubt' = admDoubt
    BY <1>2 DEF Expire, vars, server, history
  <2> QED
    BY <2>1, AdmStill
<1> QED
  BY <1>1, <1>2

LEMMA AdmInit == Init => AdmInv
<1> SUFFICES ASSUME Init, NEW t \in Tabs
             PROVE  AdmOf(t)
  BY DEF AdmInv
<1>1. ASSUME NEW c \in calls
      PROVE  c.op = "probe" /\ c.stage = "sent" /\ c.tab \in AdminTabs
             /\ c = Request(c.tab, "probe", None, None, 0)
  <2>1. PICK u \in Tabs : c \in Probe(u, None)
    BY DEF Init
  <2>2. u \in AdminTabs /\ c = Request(u, "probe", None, None, 0)
    BY <2>1 DEF Probe
  <2> QED
    BY <2>2 DEF Request
<1>2. tabs[t].adm = "unknown"
  BY DEF Init, Loaded
<1>3. \A c \in calls : c.op \notin AdminWrites
  BY <1>1 DEF AdminWrites
<1>4. \A c, d \in AdmCalls(t) : c = d
  <2>1. \A c \in AdmCalls(t) : c = Request(t, "probe", None, None, 0)
    BY <1>1 DEF AdmCalls
  <2> QED
    BY <2>1
<1>5. \A c \in AdmCalls(t) : c.stage = "sent"
  BY <1>1 DEF AdmCalls
<1>6. Knows(t) /\ \A c \in AdmCalls(t) : Tells(c, t)
  BY <1>2, <1>5 DEF Knows, Tells
<1> QED
  BY <1>3, <1>4, <1>6 DEF AdmOf

LEMMA AdmNext == TypeInv /\ AdmInv /\ [Next]_vars => AdmInv'
<1> SUFFICES ASSUME TypeInv, AdmInv, [Next]_vars
             PROVE  AdmInv'
  OBVIOUS
<1>1. ASSUME NEW t \in Tabs, Presses(t)
      PROVE  AdmInv'
  <2>1. CASE \E p \in Places : OpenAddress(t, p)
    BY <2>1, AdmLoad DEF OpenAddress
  <2>2. CASE OpenProfile(t) \/ LeaveProfile(t) \/ GoAdmin(t) \/ GoCampus(t)
    <3>1. {"profile", "campus", "gate"} \subseteq Places
      BY DEF Places, Campus, AdminPlaces
    <3> QED
      BY <2>2, <3>1, AdmGoes DEF OpenProfile, LeaveProfile, GoAdmin, GoCampus
  <2>3. CASE LogoutStudent(t)
    BY <2>3, AdmLogoutStudent
  <2>4. CASE OpenCourse(t) \/ (\E s \in Students : SubmitLogin(t, s)) \/ AdminWork(t)
    BY <2>4, AdmAsks
  <2>5. CASE LoginAdmin(t) \/ LogoutAdmin(t)
    <3>1. {"adminLogin", "adminLogout"} \subseteq AdminWrites
      BY DEF AdminWrites
    <3> QED
      BY <2>5, <3>1, AdmCall DEF LoginAdmin, LogoutAdmin
  <2>6. CASE \/ SubmitName(t) \/ SubmitAvatar(t) \/ RemoveAvatar(t) \/ SaveColor(t)
             \/ \E right \in {0, 1} : SubmitPassword(t, right)
    <3>1. {"name", "avatar", "remove", "color", "password"} \subseteq Saves \cup {"password"}
      BY DEF Saves
    <3>2. PICK op, val, prof : op \in Saves \cup {"password"} /\ Save(t, op, val, prof)
      <4>1. \E val, prof : \/ Save(t, "name", val, prof) \/ Save(t, "avatar", val, prof)
                           \/ Save(t, "remove", val, prof) \/ Save(t, "color", val, prof)
                           \/ Save(t, "password", val, prof)
        BY <2>6 DEF SubmitName, SubmitAvatar, RemoveAvatar, SaveColor, SubmitPassword
      <4> QED
        BY <3>1, <4>1
    <3> QED
      BY <3>2, AdmSaves
  <2> QED
    BY <1>1, <2>1, <2>2, <2>3, <2>4, <2>5, <2>6, Zenon DEF Presses
<1>2. ASSUME NEW t \in Tabs, Leave(t)
      PROVE  AdmInv'
  BY <1>2, AdmLoad DEF Leave, Places
<1>3. ASSUME NEW c \in calls, Arrivals(c)
      PROVE  AdmInv'
  BY <1>3, AdmLoggedIn, AdmAnswers, AdmUnauthorized, AdmFails DEF Arrivals, Answers
<1> QED
  BY <1>1, <1>2, <1>3, AdmServe, AdmClocks, Zenon DEF Next

\* Once its administrator's requests are answered, a tab is in the panel if
\* and only if the browser has a valid session.
THEOREM PanelBacked == Spec => []PanelIsBacked
<1>1. TypeInv /\ AdmInv => PanelIsBacked
  <2> SUFFICES ASSUME TypeInv, AdmInv, NEW t \in Tabs,
                      tabs[t].adm # "unknown", ~admDoubt[t], ~Underway(t, {"probe"} \cup AdminWrites)
               PROVE  (tabs[t].adm = "authenticated") = cookie
    BY DEF PanelIsBacked
  <2>1. AdmCalls(t) = {}
    <3> SUFFICES ASSUME NEW c \in AdmCalls(t)
                 PROVE  FALSE
      OBVIOUS
    <3> QED
      BY AdmHeard DEF Underway, AdmOps
  <2>2. (tabs[t].adm = "authenticated") <=> cookie
    BY <2>1 DEF AdmInv, AdmOf, Knows
  <2>3. cookie \in BOOLEAN
    BY TypeParts DEF RestTyped
  <2> QED
    BY <2>2, <2>3
<1> QED
  BY <1>1, TypeInit, TypeNext, AdmInit, AdmNext, PTL DEF Spec

-----------------------------------------------------------------------------
(* The requests a page waits for carry the token of the session.           *)

Asks == {"me", "profile", "course", "password"} \cup Saves

Asked(c) == c.heard = "page" /\ c.op \in Asks

LEMMA AskedMoves ==
  ASSUME TypeInv, AskedInThisSession, NEW t \in Tabs, NEW old, NEW new \in TabTypes, NEW h \in Stored,
         NEW cs \in SUBSET CallTypes, NEW ds, Becomes(t, old, new, h, cs, ds),
         \A c \in cs : Asked(c) => c \in calls,
         \/ h.tok = None
         \/ new.user = h /\ \A c \in cs : ~(Asked(c) /\ c.tab = t)
         \/ h.tok = held.tok /\ (new.user = None => tabs[t].user = None)
  PROVE  AskedInThisSession'
<1>0. TabsTyped
  BY TypeParts
<1>1. tabs'[t].user = new.user /\ held' = h /\ \A u \in Tabs : u # t => tabs'[u] = tabs[u]
  BY <1>0, MoveTabs
<1>2. h.tok # None => h # None
  BY StoredFacts
<1> SUFFICES ASSUME NEW k \in calls', Asked(k), held'.tok # None,
                    \A u \in Tabs \ {k.tab} : tabs'[u].user = None
             PROVE  k.tok = held'.tok
  BY DEF AskedInThisSession, Asked, Asks
<1>3. Fresh(k, t, h.tok) \/ \E c \in cs : Follows(k, c)
  BY MoveCalls
<1>4. ASSUME NEW c \in cs, Follows(k, c)
      PROVE  k.tok = held'.tok
  <2>1. /\ c.heard = "page" /\ c.op \in Asks /\ Asked(c) /\ c.tab = k.tab /\ c.tok = k.tok
    BY <1>4 DEF Follows, Asked
  <2>2. c \in calls
    BY <2>1
  <2>3. h.tok = held.tok /\ (new.user = None => tabs[t].user = None)
    <3>1. CASE new.user = h /\ \A d \in cs : ~(Asked(d) /\ d.tab = t)
      <4>1. k.tab # t
        BY <1>4, <2>1, <3>1
      <4>2. new.user = None
        BY <1>1, <4>1
      <4> QED
        BY <1>1, <1>2, <3>1, <4>2
    <3> QED
      BY <1>1, <3>1
  <2>4. \A u \in Tabs \ {c.tab} : tabs[u].user = None
    BY <1>1, <2>1, <2>3
  <2>5. c.tok = held.tok
    BY <1>1, <2>1, <2>2, <2>3, <2>4 DEF AskedInThisSession, Asks
  <2> QED
    BY <1>1, <2>1, <2>3, <2>5
<1> QED
  BY <1>1, <1>3, <1>4 DEF Fresh

\* Requests that are sent, or answered, while the pages stay.
LEMMA AskedStays ==
  ASSUME AskedInThisSession, held' = held, \A u \in Tabs : tabs'[u].user = tabs[u].user,
         \A k \in calls' : \/ k.tok = held.tok
                           \/ \E c \in calls : k.op = c.op /\ k.tab = c.tab /\ k.heard = c.heard /\ k.tok = c.tok
  PROVE  AskedInThisSession'
BY DEF AskedInThisSession

LEMMA AskedLoad ==
  ASSUME TypeInv, AskedInThisSession, NEW t \in Tabs, NEW p \in Places, LoadPage(t, p)
  PROVE  AskedInThisSession'
<1>0. held \in Stored
  BY TypeParts DEF TabsTyped
<1>1. PICK old : \E new \in TabTypes, cs \in SUBSET CallTypes :
           /\ Becomes(t, old, new, held, cs, {})
           /\ new.user = ReadStudent
           /\ \A c \in cs : \/ c \in calls /\ c.tab # t
                            \/ \E d \in calls : d.tab = t /\ Forgotten(c, d)
                            \/ c \in Probe(t, held.tok)
  BY LoadMeans
<1>2. PICK new \in TabTypes, cs \in SUBSET CallTypes :
           /\ Becomes(t, old, new, held, cs, {})
           /\ new.user = ReadStudent
           /\ \A c \in cs : \/ c \in calls /\ c.tab # t
                            \/ \E d \in calls : d.tab = t /\ Forgotten(c, d)
                            \/ c \in Probe(t, held.tok)
  BY <1>1
<1>3. \A c \in Probe(t, held.tok) : c.op = "probe"
  BY DEF Probe, Request
<1>4. \A c \in cs : Asked(c) => c \in calls /\ c.tab # t
  <2>1. "probe" \notin Asks
    BY DEF Asks, Saves
  <2> QED
    BY <1>2, <1>3, <2>1 DEF Asked, Forgotten
<1>5. held.tok = None \/ new.user = held
  BY <1>2 DEF ReadStudent
<1> QED
  BY <1>0, <1>2, <1>4, <1>5, AskedMoves

\* The pages a student walks between, his sign-out and his login, as Becomes.
LEMMA GoesMeans ==
  ASSUME TypeInv, NEW t \in Tabs, NEW p \in Places, Goes(t, p)
  PROVE  \E new \in TabTypes :
           /\ Becomes(t, tabs[t], new, held, calls, doubt[t])
           /\ new.at = p /\ new.user = tabs[t].user /\ new.adm = tabs[t].adm /\ new.page = tabs[t].page
           /\ new.prof = tabs[t].prof
<1>0. tabs[t] \in TabTypes
  BY TypeParts DEF TabsTyped
<1>1. PICK new : new = [tabs[t] EXCEPT !.at = p] OBVIOUS
<1>2. /\ new \in TabTypes
      /\ new.at = p /\ new.user = tabs[t].user /\ new.adm = tabs[t].adm /\ new.page = tabs[t].page
      /\ new.prof = tabs[t].prof
  BY <1>0, <1>1 DEF TabTypes
<1>3. Becomes(t, tabs[t], new, held, calls, doubt[t])
  BY <1>1 DEF Goes
<1> QED
  BY <1>2, <1>3

LEMMA LogoutMeans ==
  ASSUME TypeInv, NEW t \in Tabs, LogoutStudent(t)
  PROVE  \E new \in TabTypes :
           Becomes(t, tabs[t], new, NoSession, calls, doubt[t]) /\ new.user = None
<1>0. tabs[t] \in TabTypes
  BY TypeParts DEF TabsTyped
<1>1. PICK new : new = [tabs[t] EXCEPT !.user = None] OBVIOUS
<1>2. new \in TabTypes /\ new.user = None
  BY <1>0, <1>1 DEF TabTypes
<1>3. Becomes(t, tabs[t], new, NoSession, calls, doubt[t])
  BY <1>1 DEF LogoutStudent
<1> QED
  BY <1>2, <1>3

LEMMA LoggedInMeans ==
  ASSUME TypeInv, NEW c \in calls, LoggedIn(c)
  PROVE  /\ c \in CallTypes /\ c.tab \in Tabs /\ c.who \in Students /\ c.stage = "ok" /\ c.op = "login"
         /\ c.heard # "nobody" /\ tabs[c.tab].at = "login"
         /\ \E t \in Tabs, new \in TabTypes, session \in Sessions :
              /\ t = c.tab /\ Becomes(t, tabs[t], new, session, calls \ {c}, {})
              /\ new.user = session /\ new.at = tabs[t].at
              /\ session.tok = <<c.who, c.val>> /\ Owner(session.tok) = c.who
              /\ \A f \in Fields : session.of[f] # None => Owner(session.of[f]) = c.who
<1>1. /\ c \in CallTypes /\ Known(c) /\ c.tab \in Tabs /\ c.stage = "ok" /\ c.op = "login"
      /\ c.heard # "nobody"
  BY ArrivesFacts DEF LoggedIn, Arrives
<1>2. PICK t \in Tabs : t = c.tab
  BY <1>1
<1>3. tabs[t] \in TabTypes
  BY TypeParts DEF TabsTyped
<1>4. PICK session : session = LoginStudent(<<c.who, c.val>>, c.got["name"]) OBVIOUS
<1>5. session \in Sessions
  BY <1>1, <1>4, SessionFacts
<1>6. c.who \in Students /\ c.got \in Of(c.who)
  BY <1>1 DEF Known
<1>7. session.tok = <<c.who, c.val>> /\ Owner(session.tok) = c.who
  BY <1>4 DEF LoginStudent, Owner
<1>8. ASSUME NEW f \in Fields, session.of[f] # None
      PROVE  Owner(session.of[f]) = c.who
  <2>1. session.of[f] = IF f = "name" THEN c.got["name"] ELSE None
    BY <1>4 DEF LoginStudent, NoDetails, Fields
  <2>2. Owner(c.got["name"]) = c.who
    BY <1>6, OfFacts DEF Fields
  <2> QED
    BY <1>8, <2>1, <2>2
<1>9. PICK new : new = [tabs[t] EXCEPT !.user = session] OBVIOUS
<1>10. new \in TabTypes /\ new.user = session /\ new.at = tabs[t].at
  BY <1>3, <1>5, <1>9 DEF TabTypes
<1>11. Becomes(t, tabs[t], new, session, calls \ {c}, {})
  BY <1>2, <1>4, <1>9 DEF LoggedIn
<1>12. tabs[c.tab].at = "login"
  BY <1>1, TypeParts DEF PlacedInv, Placed
<1> QED
  BY <1>1, <1>2, <1>5, <1>6, <1>7, <1>8, <1>10, <1>11, <1>12

LEMMA AskedGoes ==
  ASSUME TypeInv, AskedInThisSession, NEW t \in Tabs, NEW p \in Places, Goes(t, p)
  PROVE  AskedInThisSession'
<1>0. held \in Stored /\ calls \in SUBSET CallTypes
  BY TypeParts DEF TabsTyped
<1>1. PICK new \in TabTypes : Becomes(t, tabs[t], new, held, calls, doubt[t]) /\ new.user = tabs[t].user
  BY GoesMeans
<1> QED
  BY <1>0, <1>1, AskedMoves

LEMMA AskedLogout ==
  ASSUME TypeInv, AskedInThisSession, NEW t \in Tabs, LogoutStudent(t)
  PROVE  AskedInThisSession'
<1>0. calls \in SUBSET CallTypes /\ NoSession \in Stored /\ NoSession.tok = None
  BY TypeParts, StoredFacts DEF TabsTyped
<1>1. PICK new \in TabTypes : Becomes(t, tabs[t], new, NoSession, calls, doubt[t])
  BY LogoutMeans
<1> QED
  BY <1>0, <1>1, AskedMoves

\* At the login page nothing is listened to that a page of the campus asked.
LEMMA AskedLoggedIn ==
  ASSUME TypeInv, AskedInThisSession, NEW c \in calls, LoggedIn(c)
  PROVE  AskedInThisSession'
<1>0. calls \ {c} \in SUBSET CallTypes
  BY TypeParts DEF TabsTyped
<1>1. /\ tabs[c.tab].at = "login"
      /\ \E t \in Tabs, new \in TabTypes, session \in Sessions :
           /\ t = c.tab /\ Becomes(t, tabs[t], new, session, calls \ {c}, {})
           /\ new.user = session
  BY LoggedInMeans
<1>2. PICK t \in Tabs, new \in TabTypes, session \in Sessions :
           /\ t = c.tab /\ Becomes(t, tabs[t], new, session, calls \ {c}, {})
           /\ new.user = session
  BY <1>1
<1>3. session \in Stored
  BY StoredFacts
<1>4. ASSUME NEW d \in calls, Asked(d)
      PROVE  d.tab # t
  <2>1. d.tab = t => Placed(d, tabs[t].at)
    BY <1>4, TypeParts DEF PlacedInv, Asked
  <2> QED
    BY <1>1, <1>2, <1>4, <2>1 DEF Placed, Asked, Asks, Campus
<1> QED
  BY <1>0, <1>2, <1>3, <1>4, AskedMoves

LEMMA AskedAnswers ==
  ASSUME TypeInv, AskedInThisSession, NEW c \in calls, Answers(c)
  PROVE  AskedInThisSession'
<1>0. calls \ {c} \in SUBSET CallTypes
  BY TypeParts DEF TabsTyped
<1>1. /\ c.tab # None /\ InHeader(c.op) \in SUBSET Fields /\ (InHeader(c.op) = {} \/ c.got \in Details)
      /\ \E shown \in TabTypes : Shown(c, shown, tabs[c.tab])
  BY AnswersMean
<1>2. PICK shown \in TabTypes : Shown(c, shown, tabs[c.tab])
  BY <1>1
<1>3. shown.at = tabs[c.tab].at /\ shown.user = tabs[c.tab].user /\ Updates(c, shown, InHeader(c.op))
  BY <1>2 DEF Shown
<1>4. PICK t \in Tabs, new \in TabTypes, h \in Stored :
           /\ t = c.tab /\ Becomes(t, tabs[t], new, h, calls \ {c}, doubt[t])
           /\ tabs[t].user = None => h = held
           /\ tabs[t].user # None => h.tok = held.tok
           /\ new.user = None => tabs[t].user = None
  BY <1>1, <1>3, UpdatesMeans
<1>5. h.tok = held.tok
  BY <1>4
<1> QED
  BY <1>0, <1>4, <1>5, AskedMoves

LEMMA AskedUnauthorized ==
  ASSUME TypeInv, AskedInThisSession, NEW c \in calls, Unauthorized(c)
  PROVE  AskedInThisSession'
<1>0. calls \ {c} \in SUBSET CallTypes /\ NoSession.tok = None
  BY TypeParts, StoredFacts DEF TabsTyped
<1>1. PICK t \in Tabs, new \in TabTypes, h \in Stored :
           /\ Becomes(t, tabs[t], new, h, calls \ {c}, doubt[t] \cup DoubtOf(c))
           /\ h = held \/ (h = NoSession /\ EndsSession(t, c))
           /\ Failing(new, tabs[t], c)
  BY UnauthorizedMeans
<1>2. new.user = tabs[t].user
  BY <1>1 DEF Failing
<1> QED
  BY <1>0, <1>1, <1>2, AskedMoves

LEMMA AskedFails ==
  ASSUME TypeInv, AskedInThisSession, NEW c \in calls, Fails(c)
  PROVE  AskedInThisSession'
<1>0. held \in Stored /\ calls \in SUBSET CallTypes
  BY TypeParts DEF TabsTyped
<1>1. PICK t \in Tabs, new \in TabTypes, left \in SUBSET CallTypes :
           /\ Becomes(t, tabs[t], new, held, (calls \ {c}) \cup left, doubt[t] \cup DoubtOf(c))
           /\ Failing(new, tabs[t], c)
           /\ \A d \in left : Forgotten(d, c)
  BY FailsMeans
<1>2. PICK cs : cs = (calls \ {c}) \cup left
  OBVIOUS
<1>3. \A d \in cs : Asked(d) => d \in calls
  BY <1>1, <1>2 DEF Asked, Forgotten
<1>4. cs \in SUBSET CallTypes
  BY <1>0, <1>1, <1>2
<1>5. new.user = tabs[t].user
  BY <1>1 DEF Failing
<1> QED
  BY <1>0, <1>1, <1>2, <1>3, <1>4, <1>5, AskedMoves

LEMMA AskedSends ==
  ASSUME TypeInv, AskedInThisSession, NEW t \in Tabs,
         \/ OpenCourse(t) \/ (\E s \in Students : SubmitLogin(t, s))
         \/ LoginAdmin(t) \/ LogoutAdmin(t) \/ AdminWork(t)
         \/ SubmitName(t) \/ SubmitAvatar(t) \/ RemoveAvatar(t) \/ SaveColor(t)
         \/ \E right \in {0, 1} : SubmitPassword(t, right)
  PROVE  AskedInThisSession'
<1>1. /\ held' = held /\ \A u \in Tabs : tabs'[u].user = tabs[u].user
      /\ \E op, who, val : calls' = calls \cup {Request(t, op, held.tok, who, val)}
  <2>1. CASE \/ OpenCourse(t) \/ (\E s \in Students : SubmitLogin(t, s))
             \/ LoginAdmin(t) \/ LogoutAdmin(t) \/ AdminWork(t)
    <3>1. UNCHANGED <<held, tabs>>
      BY <2>1 DEF OpenCourse, SubmitLogin, LoginAdmin, LogoutAdmin, AdminWork, AdminCall
    <3>2. \E op, who : calls' = calls \cup {Request(t, op, held.tok, who, 0)}
      BY <2>1 DEF OpenCourse, SubmitLogin, LoginAdmin, LogoutAdmin, AdminWork, AdminCall, Send
    <3> QED
      BY <3>1, <3>2
  <2>2. CASE \/ SubmitName(t) \/ SubmitAvatar(t) \/ RemoveAvatar(t) \/ SaveColor(t)
             \/ \E right \in {0, 1} : SubmitPassword(t, right)
    <3>1. PICK op, val, prof : Save(t, op, val, prof)
      BY <2>2 DEF SubmitName, SubmitAvatar, RemoveAvatar, SaveColor, SubmitPassword
    <3>2. held' = held /\ calls' = calls \cup {Request(t, op, held.tok, None, val)}
      BY <3>1 DEF Save
    <3>3. \A u \in Tabs : tabs'[u].user = tabs[u].user
      BY <3>1, TypeParts DEF Save, TabsTyped, TabTypes
    <3> QED
      BY <3>2, <3>3
  <2> QED
    BY <2>1, <2>2
<1>2. PICK op, who, val : calls' = calls \cup {Request(t, op, held.tok, who, val)}
  BY <1>1
<1>3. \A k \in calls' : k \in calls \/ k.tok = held.tok
  BY <1>2 DEF Request
<1> QED
  BY <1>1, <1>3, AskedStays

LEMMA AskedServe ==
  ASSUME TypeInv, AskedInThisSession, NEW c \in calls, Serve(c)
  PROVE  AskedInThisSession'
<1>1. c \in CallTypes /\ held' = held /\ tabs' = tabs
  BY TypeParts DEF TabsTyped, Serve
<1>2. ASSUME NEW k \in calls', k \notin calls
      PROVE  k.op = c.op /\ k.tab = c.tab /\ k.heard = c.heard /\ k.tok = c.tok
  <2>1. \/ \E got : k = [c EXCEPT !.stage = "ok", !.got = got]
        \/ k = [c EXCEPT !.stage = "unauthorized"]
        \/ \E val, got : k = [c EXCEPT !.stage = "ok", !.val = val, !.got = got]
    <3>1. CASE Refused(c)
      BY <1>2, <3>1 DEF Refused
    <3>2. ASSUME NEW got, Answered(c, got)
          PROVE  k = [c EXCEPT !.stage = "ok", !.got = got]
      BY <1>2, <3>2 DEF Answered
    <3>3. CASE ServeLogin(c)
      BY <1>2, <3>1, <3>3 DEF ServeLogin
    <3> QED
      BY <3>1, <3>2, <3>3 DEF Serve, ServeStudent, ServeCourse, ServePassword, ServeAdmin
  <2> QED
    BY <1>1, <2>1 DEF CallTypes
<1> QED
  BY <1>1, <1>2, AskedStays

LEMMA AskedNext == TypeInv /\ AskedInThisSession /\ [Next]_vars => AskedInThisSession'
<1> SUFFICES ASSUME TypeInv, AskedInThisSession, [Next]_vars
             PROVE  AskedInThisSession'
  OBVIOUS
<1>1. ASSUME NEW t \in Tabs, Presses(t)
      PROVE  AskedInThisSession'
  <2>1. CASE \E p \in Places : OpenAddress(t, p)
    BY <2>1, AskedLoad DEF OpenAddress
  <2>2. CASE OpenProfile(t) \/ LeaveProfile(t) \/ GoAdmin(t) \/ GoCampus(t)
    <3>1. {"profile", "campus", "gate"} \subseteq Places
      BY DEF Places, Campus, AdminPlaces
    <3> QED
      BY <2>2, <3>1, AskedGoes DEF OpenProfile, LeaveProfile, GoAdmin, GoCampus
  <2>3. CASE LogoutStudent(t)
    BY <2>3, AskedLogout
  <2>4. CASE \/ OpenCourse(t) \/ (\E s \in Students : SubmitLogin(t, s))
             \/ LoginAdmin(t) \/ LogoutAdmin(t) \/ AdminWork(t)
             \/ SubmitName(t) \/ SubmitAvatar(t) \/ RemoveAvatar(t) \/ SaveColor(t)
             \/ \E right \in {0, 1} : SubmitPassword(t, right)
    BY <2>4, AskedSends
  <2> QED
    BY <1>1, <2>1, <2>2, <2>3, <2>4, Zenon DEF Presses
<1>2. ASSUME NEW t \in Tabs, Leave(t)
      PROVE  AskedInThisSession'
  BY <1>2, AskedLoad DEF Leave, Places
<1>3. ASSUME NEW c \in calls, Arrivals(c)
      PROVE  AskedInThisSession'
  BY <1>3, AskedLoggedIn, AskedAnswers, AskedUnauthorized, AskedFails DEF Arrivals, Answers
<1>4. CASE CookieExpires \/ (\E s \in Students : Expire(s)) \/ UNCHANGED vars
  <2>1. held' = held /\ tabs' = tabs /\ calls' = calls
    BY <1>4 DEF CookieExpires, Expire, vars
  <2> QED
    BY <2>1, AskedStays
<1> QED
  BY <1>1, <1>2, <1>3, <1>4, AskedServe, Zenon DEF Next

\* A page of the campus does not wait for anything that was asked before the
\* sign-in it shows: as long as no other tab has a student, every request it
\* still listens to carries the token the storage holds.
THEOREM AskedNow == Spec => []AskedInThisSession
<1>1. Init => AskedInThisSession
  BY DEF Init, AskedInThisSession, NoSession
<1> QED
  BY <1>1, TypeInit, TypeNext, AskedNext, PTL DEF Spec
=============================================================================
