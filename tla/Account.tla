------------------------------ MODULE Account ------------------------------
(***************************************************************************)
(* Who is signed in, and what the program shows of him: the session a      *)
(* student keeps in the browser's storage (AuthContext.tsx, axios.ts), the *)
(* header and the profile page that show and change his name, photo and    *)
(* colour (StudentLayout.tsx, ProfilePage.tsx, users.service.ts), and the  *)
(* administrator's session in a cookie (admin-session.service.ts).         *)
(*                                                                         *)
(* The tabs of a browser share the storage and the cookie.  What a tab     *)
(* shows is its React state, read from the storage when the page loads;    *)
(* every request carries the token the storage holds when it is sent.      *)
(***************************************************************************)
EXTENDS Naturals, FiniteSets

CONSTANTS
  Tabs,         \* tabs of one browser
  AdminTabs,    \* bound: the tabs that ask for the administrator's session
  Students,
  MaxCalls,     \* bound: requests under way when somebody presses a button
  MaxSteps,     \* bound: what people do, expiries and failed requests
  None

ASSUME TabsAssumption == AdminTabs \subseteq Tabs
ASSUME BoundsAssumption == {MaxCalls, MaxSteps} \subseteq Nat

VARIABLES
  held,      \* localStorage: the token and the fields kept with it
  tabs,      \* the React state of every tab
  calls,     \* the requests under way
  account,   \* Moodle's profile and the colour stored for each student
  gen,       \* the number of tokens of a student that have expired
  cookie,    \* the browser holds a valid administrator session
  mixed,     \* history: a sign-out in mid-save, or tabs of two students
  doubt,     \* history: fields whose requests overlapped, or failed
  admDoubt,  \* history: the same for the administrator's session
  steps      \* how much of that has happened

history == <<mixed, doubt, admDoubt>>
server == <<account, gen, cookie>>
vars == <<held, tabs, calls, server, history, steps>>

Fields == {"name", "avatar", "color"}

\* A stored value is known by its owner and by the save that wrote it: 0 is
\* what he began with, and for the photo that there is none.
Values == (Students \X (0..MaxSteps)) \cup {None}
Details == [Fields -> Values]
Tokens == Students \X (0..MaxSteps)
Owner(token) == token[1]

Sessions == [tok: Tokens, of: Details]
ASSUME NoneAssumption == None \notin Tabs \cup Students \cup Tokens \cup Sessions
NoDetails == [f \in Fields |-> None]

-----------------------------------------------------------------------------
(* Requests.                                                               *)

Saves == {"name", "avatar", "remove", "color"}
AdminWrites == {"adminLogin", "adminLogout"}
Writes == Saves \cup AdminWrites \cup {"password", "login"}
Reads == {"me", "profile", "course", "probe", "adminWork"}

\* The endpoints whose 401 leaves the student's session alone.
AuthEndpoints == {"login", "probe", "adminLogin", "adminLogout"}

\* "who" signs in; "val" is the value saved, or whether the current password
\* was typed right; "got" is what the server answered with.  The answer is
\* heard by the page that asked, or, when a save outlives its page, by the tab.
CallTypes == [op: Reads \cup Writes, tab: Tabs \cup {None},
              heard: {"page", "tab", "nobody"}, tok: Tokens \cup {None}, who: Students \cup {None}, val: 0..MaxSteps,
              stage: {"sent", "ok", "unauthorized"}, got: Details \cup {None}]

\* The request interceptor takes the token from the storage.
Request(t, op, token, who, val) ==
  [op |-> op, tab |-> t, heard |-> "page", tok |-> token, who |-> who, val |-> val,
   stage |-> "sent", got |-> None]

FieldOf(op) == IF op = "remove" THEN "avatar" ELSE op

\* What the answer of a request puts in the header, and on the profile page.
InHeader(op) ==
  IF op \in {"me", "profile"} THEN Fields
  ELSE IF op \in Saves THEN {FieldOf(op)} ELSE {}
OnPage(op) ==
  IF op \in {"profile", "name"} THEN Fields
  ELSE IF op \in Saves THEN {FieldOf(op)} ELSE {}

Underway(t, ops) == \E c \in calls : c.tab = t /\ c.heard # "nobody" /\ c.op \in ops

\* Two requests of which one saves, both under way at once.
Overlap(c, d) ==
  IF {c.op, d.op} \cap Saves = {} THEN {}
  ELSE ((InHeader(c.op) \cap InHeader(d.op)) \X {"header"})
         \cup ((OnPage(c.op) \cap OnPage(d.op)) \X {"page"})

OfField(fs) == fs \X {"header", "page"}

-----------------------------------------------------------------------------
(* Pages.                                                                  *)

Campus == {"campus", "profile"}
AdminPlaces == {"gate", "panel"}
Places == {"login"} \cup AdminPlaces \cup Campus

\* The routes: a page of the campus without a student goes to the login, the
\* login with one goes to the campus, and so for the administrator's pages.
Routed(tab) ==
  [tab EXCEPT !.at =
     IF @ = "login" /\ tab.user # None THEN "campus"
     ELSE IF @ \in Campus /\ tab.user = None THEN "login"
     ELSE IF @ = "panel" /\ tab.adm = "anonymous" THEN "gate"
     ELSE IF @ = "gate" /\ tab.adm = "authenticated" THEN "panel" ELSE @]

\* Clean-up of the pages that go away: the reads of their effects are not
\* listened to any more (the interceptor still sees the answer), a save still
\* reaches the header.
CleanedNever(t, new, cs) == cs
Cleaned(t, new, cs) ==
  {IF c.tab = t /\ c.op \in {"me", "course"} /\ new.at \notin Campus THEN [c EXCEPT !.heard = "nobody"]
   ELSE IF c.tab = t /\ c.op = "profile" /\ new.at # "profile" THEN [c EXCEPT !.heard = "nobody"]
   ELSE IF c.tab = t /\ c.op \in Saves \cup {"password"} /\ new.at # "profile" /\ c.heard = "page"
     THEN [c EXCEPT !.heard = "tab"] ELSE c : c \in cs}

\* The effects of the pages that come: each reads GET /users/me.
Effects(t, old, new, token) ==
  {Request(t, op, token, None, 0) : op \in
     (IF new.at \in Campus /\ old.at \notin Campus THEN {"me"} ELSE {})
       \cup (IF new.at = "profile" /\ old.at # "profile" THEN {"profile"} ELSE {})}

\* The profile page begins without a profile and with every button enabled.
Mounted(old, new) ==
  IF new.at = "profile" /\ old.at = "profile" THEN new
  ELSE [new EXCEPT !.page = IF new.at = "profile" THEN "loading" ELSE "off",
                   !.prof = NoDetails, !.busy = {}]

Send(t, new) ==
  /\ calls' = calls \cup new
  /\ doubt' = [doubt EXCEPT ![t] = @ \cup UNION {Overlap(c, d) : c \in new, d \in calls}]

\* Tab t, which was old, becomes new and goes where the routes send it, with
\* storage h, the requests cs under way and the doubts ds about its pages.
Becomes(t, old, new, h, cs, ds) ==
  LET there == Mounted(old, Routed(new))
      kept == {c \in Cleaned(t, there, cs) : c.heard # "nobody" \/ c.stage # "ok"}
      sent == Effects(t, old, there, h.tok)
  IN /\ tabs' = [tabs EXCEPT ![t] = there]
     /\ held' = h
     /\ calls' = kept \cup sent
     /\ doubt' = [doubt EXCEPT ![t] =
                    (IF there.at = old.at THEN ds ELSE ds \ (Fields \X {"page"}))
                      \cup UNION {Overlap(c, d) : c \in sent, d \in kept}]

-----------------------------------------------------------------------------
(* The context (AuthContext.tsx) and the interceptor (axios.ts).           *)

NoSession == [tok |-> None, of |-> NoDetails]

\* readStudent: what a page that loads finds in the storage.
ReadStudent == IF held.tok = None THEN None ELSE held

LoginStudent(token, name) ==
  [tok |-> token, of |-> [NoDetails EXCEPT !.name = name]]

\* The fields fs of patch replace those of a session, if there is one.
Patch(session, patch, fs) ==
  [session EXCEPT !.of = [f \in Fields |-> IF f \in fs THEN patch[f] ELSE @[f]]]
UpdateStudentProfileAlways(user, patch, fs) ==
  IF user = None THEN Patch(NoSession, patch, fs) ELSE Patch(user, patch, fs)
UpdateStudentProfile(user, patch, fs) == IF user = None THEN None ELSE Patch(user, patch, fs)

\* The storage is written along, when somebody is signed in in this tab.
StoredPresent(user, patch, fs) ==
  IF user = None THEN held ELSE Patch(held, patch, {f \in fs : patch[f] # None /\ patch[f][2] # 0})
StoredProfile(user, patch, fs) == IF user = None THEN held ELSE Patch(held, patch, fs)

\* The response interceptor: the first 401 of a page ends the student's
\* session and loads the login page.
EndsSession(t, c) ==
  /\ c.op \notin AuthEndpoints
  /\ ~tabs[t].leaving
  /\ held.tok # None

Loaded(p) ==
  [user |-> ReadStudent, adm |-> "unknown", at |-> p, page |-> "off",
   prof |-> NoDetails, busy |-> {}, leaving |-> FALSE]

\* A page that goes away listens to nothing; what it sent may still be served.
Unlistened(t) ==
  {c \in calls : c.tab # t}
    \cup {[c EXCEPT !.tab = None, !.heard = "nobody"] :
            c \in {d \in calls : d.tab = t /\ d.op \in Writes /\ d.stage = "sent"}}

Probe(t, token) ==
  IF t \in AdminTabs THEN {Request(t, "probe", token, None, 0)} ELSE {}

\* Tab t loads the page at address p: everything of it starts again, with
\* the storage, and asks whether there is an administrator's session.
LoadPage(t, p) ==
  LET left == Unlistened(t)
  IN /\ Becomes(t, [tabs[t] EXCEPT !.at = "nowhere"], Loaded(p), held,
                left \cup Probe(t, held.tok), {})
     /\ admDoubt' = [admDoubt EXCEPT ![t] = \E c \in left : c.op \in AdminWrites]
     /\ UNCHANGED <<server, mixed>>

-----------------------------------------------------------------------------
(* What people do.  A page that is being replaced takes no more presses.   *)

Press(t) ==
  /\ steps < MaxSteps /\ steps' = steps + 1
  /\ Cardinality(calls) < MaxCalls
  /\ ~tabs[t].leaving

\* An address is typed, or the page is reloaded.
OpenAddress(t, p) ==
  /\ Press(t)
  /\ p \in AdminPlaces => t \in AdminTabs
  /\ LoadPage(t, p)

Goes(t, p) ==
  /\ Becomes(t, tabs[t], [tabs[t] EXCEPT !.at = p], held, calls, doubt[t])
  /\ UNCHANGED <<server, mixed, admDoubt>>

OpenProfile(t) == Press(t) /\ tabs[t].at = "campus" /\ Goes(t, "profile")
LeaveProfile(t) == Press(t) /\ tabs[t].at = "profile" /\ Goes(t, "campus")

\* The link to the panel, which teachers see, and the one back.
GoAdmin(t) == Press(t) /\ t \in AdminTabs /\ tabs[t].at \in Campus /\ Goes(t, "gate")
GoCampus(t) == Press(t) /\ tabs[t].at = "panel" /\ tabs[t].adm = "authenticated" /\ Goes(t, "campus")

\* Any other page of the campus asks for a course or something in it.
OpenCourse(t) ==
  /\ Press(t)
  /\ tabs[t].at = "campus" /\ ~Underway(t, {"course"})
  /\ Send(t, {Request(t, "course", held.tok, None, 0)})
  /\ UNCHANGED <<held, tabs, server, mixed, admDoubt>>

\* Login.tsx: the button is disabled while a login is under way.
SubmitLogin(t, s) ==
  /\ Press(t)
  /\ tabs[t].at = "login" /\ ~Underway(t, {"login"})
  /\ Send(t, {Request(t, "login", held.tok, s, 0)})
  /\ UNCHANGED <<held, tabs, server, mixed, admDoubt>>

LogoutStudent(t) ==
  /\ Press(t)
  /\ tabs[t].at \in Campus
  /\ Becomes(t, tabs[t], [tabs[t] EXCEPT !.user = None], NoSession, calls, doubt[t])
  /\ mixed' = (mixed \/ Underway(t, Saves))
  /\ UNCHANGED <<server, admDoubt>>

\* The profile page shows its forms once it has the profile, each with a
\* button that is disabled until the answer.
CanSave(t, op) == tabs[t].page = "ready" /\ FieldOf(op) \notin tabs[t].busy

\* A button sends op with val; prof is what the page shows meanwhile.
Save(t, op, val, prof) ==
  /\ Press(t)
  /\ CanSave(t, op)
  /\ tabs' = [tabs EXCEPT ![t].busy = @ \cup {FieldOf(op)}, ![t].prof = prof]
  /\ LET c == Request(t, op, held.tok, None, val) IN
     /\ calls' = calls \cup {c}
     /\ doubt' = [u \in Tabs |->
                    doubt[u] \cup IF u # t THEN OfField({FieldOf(op)} \cap Fields)
                                 ELSE UNION {Overlap(c, d) : d \in calls}]
  /\ UNCHANGED <<held, server, mixed, admDoubt>>

SubmitName(t) == Save(t, "name", steps + 1, tabs[t].prof)
SubmitAvatar(t) == Save(t, "avatar", steps + 1, tabs[t].prof)
RemoveAvatar(t) ==
  tabs[t].prof["avatar"] # None /\ tabs[t].prof["avatar"][2] # 0 /\ Save(t, "remove", 0, tabs[t].prof)

\* The colour is shown before it is saved.  Its swatches are there while no
\* photo is shown, be it that there is none or that it cannot be loaded.
SaveColor(t) ==
  /\ tabs[t].user # None
  /\ Save(t, "color", steps + 1,
          [tabs[t].prof EXCEPT !["color"] = <<Owner(tabs[t].user.tok), steps + 1>>])

\* The current password is typed right (1) or wrong (0).
SubmitPassword(t, right) == Save(t, "password", right, tabs[t].prof)

\* AdminLogin.tsx and AdminLayout.tsx.
AdminCall(t, op) ==
  /\ ~Underway(t, {op})
  /\ Send(t, {Request(t, op, held.tok, None, 0)})
  /\ admDoubt' = [u \in Tabs |-> admDoubt[u] \/ u # t \/ Underway(t, {"probe"} \cup AdminWrites)]
  /\ UNCHANGED <<held, tabs, server, mixed>>

\* Signing out also navigates to the gate, from where the routes send the tab
\* back to the panel until the answer comes: the place does not change here.
LoginAdmin(t) == Press(t) /\ tabs[t].at = "gate" /\ AdminCall(t, "adminLogin")
LogoutAdmin(t) ==
  Press(t) /\ tabs[t].at = "panel" /\ tabs[t].adm = "authenticated" /\ AdminCall(t, "adminLogout")

\* Any request of the panel, all of them guarded by AdminGuard.
AdminWork(t) ==
  /\ Press(t)
  /\ tabs[t].at = "panel" /\ tabs[t].adm = "authenticated" /\ ~Underway(t, {"adminWork"})
  /\ Send(t, {Request(t, "adminWork", held.tok, None, 0)})
  /\ UNCHANGED <<held, tabs, server, mixed, admDoubt>>

-----------------------------------------------------------------------------
(* The server.                                                             *)

\* GET /users/me and what a save answers with: names and photo from Moodle,
\* the colour from the table of preferences.
Profile(s, acc) == [f \in Fields |-> <<s, acc[s][f]>>]

Saved(c) ==
  IF c.op \in Saves THEN [account EXCEPT ![Owner(c.tok)][FieldOf(c.op)] = c.val] ELSE account

\* Updating reads the profile again after Moodle has taken the change.
AnswerBefore(c) == Profile(Owner(c.tok), account)
Answer(c) == Profile(Owner(c.tok), Saved(c))

Valid(c) == c.tok # None /\ c.tok[2] = gen[Owner(c.tok)]

\* The request is answered: an answer nobody hears is dropped.
Answered(c, got) ==
  calls' = (calls \ {c}) \cup
    (IF c.heard = "nobody" THEN {} ELSE {[c EXCEPT !.stage = "ok", !.got = got]})
Refused(c) ==
  calls' = (calls \ {c}) \cup (IF c.tab = None THEN {} ELSE {[c EXCEPT !.stage = "unauthorized"]})

\* A refusal of Moodle becomes a 401 whatever token it was for: the profile is
\* read with the program's own, a save is made with either, and the name and
\* the photo are read back after they are saved.
Refusable(c) ==
  IF Valid(c) /\ c.op \in {"name", "avatar"} THEN {account, Saved(c)} ELSE {account}

ServeStudent(c) ==
  /\ c.op \in {"me", "profile"} \cup Saves
  /\ \/ Valid(c) /\ Answered(c, Answer(c)) /\ account' = Saved(c)
     \/ Refused(c) /\ account' \in Refusable(c)
  /\ UNCHANGED <<gen, cookie>>

\* Another page of the campus: Moodle answers "not enrolled" with that error
\* too, and what the program remembers (90 s) it answers without Moodle.
ServeCourse(c) ==
  /\ c.op = "course"
  /\ (c.tok # None /\ Answered(c, None)) \/ Refused(c)
  /\ UNCHANGED server

\* users.service.ts answers 401 also when the current password is wrong, and
\* Moodle may refuse the profile or the new password.
ServePassword(c) ==
  /\ c.op = "password"
  /\ (Valid(c) /\ c.val = 1 /\ Answered(c, None)) \/ Refused(c)
  /\ UNCHANGED server

\* A token of Moodle and the name, the student's own; or a wrong password.
ServeLogin(c) ==
  /\ c.op = "login"
  /\ \/ calls' = (calls \ {c}) \cup
            IF c.heard = "nobody" THEN {}
            ELSE {[c EXCEPT !.stage = "ok", !.val = gen[c.who], !.got = Profile(c.who, account)]}
     \/ Refused(c)
  /\ UNCHANGED server

\* The cookie is signed and carries its own expiry: no table remembers it.
ClearsNothing(c) == FALSE
ClearsCookie(c) == c.op = "adminLogout"

\* The key may be wrong, and Moodle may refuse what the panel asks of it.
ServeAdmin(c) ==
  /\ c.op \in {"probe", "adminWork"} \cup AdminWrites
  /\ \/ /\ c.op \in AdminWrites \/ cookie
        /\ cookie' = ((cookie \/ c.op = "adminLogin") /\ ~ClearsCookie(c))
        /\ Answered(c, None)
     \/ /\ c.op \in {"adminLogin", "adminWork"} \/ (c.op = "probe" /\ ~cookie)
        /\ UNCHANGED cookie /\ Refused(c)
  /\ UNCHANGED <<account, gen>>

Serve(c) ==
  /\ c.stage = "sent"
  /\ ServeStudent(c) \/ ServeCourse(c) \/ ServePassword(c) \/ ServeLogin(c) \/ ServeAdmin(c)
  /\ UNCHANGED <<held, tabs, history, steps>>

\* Moodle's token of a student expires; two hours of the panel are over.
Expire(s) ==
  /\ steps < MaxSteps /\ steps' = steps + 1
  /\ held.tok = <<s, gen[s]>>
  /\ gen' = [gen EXCEPT ![s] = @ + 1]
  /\ UNCHANGED <<held, tabs, calls, account, cookie, history>>

CookieExpires ==
  /\ steps < MaxSteps /\ steps' = steps + 1
  /\ cookie /\ cookie' = FALSE
  /\ admDoubt' = [t \in Tabs |-> TRUE]
  /\ UNCHANGED <<held, tabs, calls, account, gen, mixed, doubt>>

-----------------------------------------------------------------------------
(* The answers arrive.                                                     *)

Arrives(c, stage, ops) == c.tab # None /\ c.heard # "nobody" /\ c.stage = stage /\ c.op \in ops

Done(tab, c) == IF c.heard = "page" THEN [tab EXCEPT !.busy = @ \ {FieldOf(c.op)}] ELSE tab

LoggedIn(c) ==
  /\ Arrives(c, "ok", {"login"})
  /\ LET t == c.tab
         session == LoginStudent(<<c.who, c.val>>, c.got["name"])
     IN /\ Becomes(t, tabs[t], [tabs[t] EXCEPT !.user = session], session, calls \ {c}, {})
        /\ mixed' = (mixed \/ \E u \in Tabs \ {t} :
                       tabs[u].user # None /\ Owner(tabs[u].user.tok) # c.who)
  /\ UNCHANGED <<server, admDoubt, steps>>

\* The tab becomes shown; the fields fs of the answer go to the context.
Updates(c, shown, fs) ==
  LET t == c.tab
      user == tabs[t].user
  IN /\ Becomes(t, tabs[t], [shown EXCEPT !.user = UpdateStudentProfile(user, c.got, fs)],
                StoredProfile(user, c.got, fs), calls \ {c}, doubt[t])
     /\ UNCHANGED <<server, mixed, admDoubt, steps>>

\* The layout's and the profile page's GET /users/me.
ProfileRead(c) ==
  /\ Arrives(c, "ok", {"me", "profile"})
  /\ Updates(c, IF c.op = "me" THEN tabs[c.tab]
                ELSE [tabs[c.tab] EXCEPT !.page = "ready", !.prof = c.got], Fields)

\* Saving the name replaces the whole profile of the page, the other saves
\* their field of it; the header takes the saved field only.
FieldSaved(c) ==
  /\ Arrives(c, "ok", Saves)
  /\ LET tab == tabs[c.tab]
         f == FieldOf(c.op)
         prof == IF c.heard = "tab" THEN tab.prof
                 ELSE IF f = "name" THEN c.got ELSE [tab.prof EXCEPT ![f] = c.got[f]]
     IN Updates(c, [Done(tab, c) EXCEPT !.prof = prof], {f})

PasswordSaved(c) == Arrives(c, "ok", {"password"}) /\ Updates(c, Done(tabs[c.tab], c), {})

\* What the administrator's requests make of adminStatus.
AdminStatus(op, ok, was) ==
  CASE op = "adminLogout" -> "anonymous"
    [] op = "probe" -> IF ok THEN "authenticated" ELSE "anonymous"
    [] op = "adminLogin" /\ ok -> "authenticated"
    [] OTHER -> was

OtherAnswered(c) ==
  /\ Arrives(c, "ok", {"course", "probe", "adminWork"} \cup AdminWrites)
  /\ Updates(c, [tabs[c.tab] EXCEPT !.adm = AdminStatus(c.op, TRUE, @)], {})

\* An error: the page shows its message, the busy button is enabled again.
Failed(tab, c) ==
  IF c.heard = "nobody" THEN tab
  ELSE [Done(tab, c) EXCEPT !.adm = AdminStatus(c.op, FALSE, @),
                            !.page = IF c.op = "profile" THEN "error" ELSE @]

DoubtOf(c) ==
  IF c.op \in Saves THEN OfField({FieldOf(c.op)})
  ELSE IF c.op = "me" THEN Fields \X {"header"} ELSE {}

\* A 401, which the interceptor sees before the page does.
Unauthorized(c) ==
  /\ c.stage = "unauthorized"
  /\ LET t == c.tab
         ends == EndsSession(t, c)
     IN Becomes(t, tabs[t], [Failed(tabs[t], c) EXCEPT !.leaving = @ \/ ends],
                IF ends THEN NoSession ELSE held, calls \ {c}, doubt[t] \cup DoubtOf(c))
  /\ UNCHANGED <<server, mixed, admDoubt, steps>>

\* No answer within 30 s, or another error, whatever the server did or does.
Fails(c) ==
  /\ c.tab # None /\ c.heard # "nobody"
  /\ c.stage = "sent" \/ (c.stage = "ok" /\ c.op \in Writes)
  /\ steps < MaxSteps /\ steps' = steps + 1
  /\ LET left == IF c.op \in Writes /\ c.stage = "sent"
                   THEN {[c EXCEPT !.tab = None, !.heard = "nobody"]} ELSE {}
     IN Becomes(c.tab, tabs[c.tab], Failed(tabs[c.tab], c), held, (calls \ {c}) \cup left,
                doubt[c.tab] \cup DoubtOf(c))
  /\ admDoubt' = [admDoubt EXCEPT ![c.tab] = @ \/ c.op \in {"probe"} \cup AdminWrites]
  /\ UNCHANGED <<server, mixed>>

\* The browser replaces the page by the login page.
Leave(t) == tabs[t].leaving /\ LoadPage(t, "login") /\ UNCHANGED steps

-----------------------------------------------------------------------------
\* A browser without a session; its tabs have just loaded the login page.
Init ==
  /\ held = NoSession
  /\ tabs = [t \in Tabs |-> [Loaded("login") EXCEPT !.user = None]]
  /\ calls = UNION {Probe(t, None) : t \in Tabs}
  /\ account = [s \in Students |-> [f \in Fields |-> 0]]
  /\ gen = [s \in Students |-> 0]
  /\ cookie = FALSE
  /\ mixed = FALSE /\ doubt = [t \in Tabs |-> {}] /\ admDoubt = [t \in Tabs |-> FALSE]
  /\ steps = 0

Presses(t) ==
  \/ \E p \in Places : OpenAddress(t, p)
  \/ OpenProfile(t) \/ LeaveProfile(t) \/ OpenCourse(t) \/ GoAdmin(t) \/ GoCampus(t)
  \/ \E s \in Students : SubmitLogin(t, s)
  \/ LogoutStudent(t)
  \/ SubmitName(t) \/ SubmitAvatar(t) \/ RemoveAvatar(t) \/ SaveColor(t)
  \/ \E right \in {0, 1} : SubmitPassword(t, right)
  \/ LoginAdmin(t) \/ LogoutAdmin(t) \/ AdminWork(t)

Arrivals(c) ==
  \/ LoggedIn(c) \/ ProfileRead(c) \/ FieldSaved(c) \/ PasswordSaved(c) \/ OtherAnswered(c)
  \/ Unauthorized(c) \/ Fails(c)

Next ==
  \/ \E t \in Tabs : Presses(t) \/ Leave(t)
  \/ \E c \in calls : Serve(c) \/ Arrivals(c)
  \/ \E s \in Students : Expire(s)
  \/ CookieExpires

Spec == Init /\ [][Next]_vars

-----------------------------------------------------------------------------
TabTypes == [user: Sessions \cup {None}, adm: {"unknown", "authenticated", "anonymous"},
             at: Places, page: {"off", "loading", "ready", "error"}, prof: Details,
             busy: SUBSET (Fields \cup {"password"}), leaving: BOOLEAN]

\* Every tab shows a page its session allows, with the state that page has.
TypeOK ==
  /\ held \in [tok: Tokens \cup {None}, of: Details]
  /\ tabs \in [Tabs -> TabTypes] /\ \A t \in Tabs : Routed(tabs[t]) = tabs[t]
  /\ calls \subseteq CallTypes
  /\ account \in [Students -> [Fields -> 0..MaxSteps]]
  /\ gen \in [Students -> 0..MaxSteps] /\ cookie \in BOOLEAN /\ mixed \in BOOLEAN
  /\ doubt \in [Tabs -> SUBSET (Fields \X {"header", "page"})]
  /\ admDoubt \in [Tabs -> BOOLEAN] /\ steps \in 0..MaxSteps

\* The name, photo and colour a tab shows, and those the storage keeps, are
\* those of the student signed in, however late an answer comes - unless he
\* signed out before the answer of a save came, or another tab shows another
\* student.
OwnDetails ==
  mixed \/
    /\ \A t \in Tabs, f \in Fields :
         tabs[t].user # None /\ tabs[t].user.of[f] # None
           => Owner(tabs[t].user.of[f]) = Owner(tabs[t].user.tok)
    /\ \A f \in Fields :
         held.tok # None /\ held.of[f] # None => Owner(held.of[f]) = Owner(held.tok)

\* A page of the campus does not wait for anything that was asked before the
\* sign-in it shows: as long as no other tab has a student, every request that
\* it still listens to carries the token the storage holds.  What it is told,
\* the error of a 401 included, is of its own session, although signing out
\* and in again loads no page and ends no request.
AskedInThisSession ==
  \A c \in calls :
    (/\ c.heard = "page" /\ c.op \in {"me", "profile", "course", "password"} \cup Saves
     /\ held.tok # None /\ \A u \in Tabs \ {c.tab} : tabs[u].user = None)
      => c.tok = held.tok

\* Once the requests of a tab are answered, its header and its profile page
\* show what is stored - unless a save was under way together with another
\* request that shows the same field, or failed, or came from another tab.
ShownIsStored ==
  mixed \/ \A t \in Tabs, f \in Fields :
    LET user == tabs[t].user
        is == Profile(Owner(user.tok), account)[f]
    IN user # None /\ ~Underway(t, {"me", "profile"} \cup Saves) =>
         /\ <<f, "header">> \notin doubt[t] /\ tabs[t].at \in Campus => user.of[f] = is
         /\ <<f, "page">> \notin doubt[t] /\ tabs[t].page = "ready" => tabs[t].prof[f] = is

\* A reload shows the header as it was: as long as no other tab has a
\* student, the storage keeps what the tab shows, however saves, reads,
\* sign-outs and 401s follow one another.
ReloadKeepsHeader ==
  \A t \in Tabs :
    (tabs[t].user # None /\ held.tok # None /\ \A u \in Tabs \ {t} : tabs[u].user = None)
      => tabs[t].user = held

\* Once its administrator's requests are answered, a tab is in the panel if
\* and only if the browser has a valid session - unless a request failed or
\* overlapped another, the session expired, or another tab changed it.
PanelIsBacked ==
  \A t \in Tabs :
    (tabs[t].adm # "unknown" /\ ~admDoubt[t] /\ ~Underway(t, {"probe"} \cup AdminWrites))
      => (tabs[t].adm = "authenticated") = cookie
=============================================================================
