---------------------------- MODULE CatalogProofs ----------------------------
(***************************************************************************)
(* Proofs about Catalog, for any number of folders, courses, students and  *)
(* requests, and any number of committed changes.                          *)
(***************************************************************************)
EXTENDS Catalog, TLAPS

Reading == {"courses", "folders", "links"}
Creating == {"creating", "created"}
Moving == {"parent", "climbing", "saving"}
Linking == {"linking", "syncing", "unlinking"}

\* What a request knows at each of its stages.
Shaped(q) ==
  /\ q.pc \in Reading => q.who \in Readers
  /\ q.pc = "links" => q.rows \in Tables
  /\ q.pc \in Creating \cup {"seeding"} => q.left \in 1..3
  /\ q.pc \in Creating =>
       q.folder \in Parents /\ (~q.seed /\ q.left # 1 => q.folder \in Folders)
  /\ q.pc \in {"created", "climbing"} => q.cursor \in Folders
  /\ q.pc \in Moving \cup Linking \cup {"seeding", "deleting"} => q.folder \in Folders
  /\ q.pc \in Moving => q.entity \in Rows
  /\ q.pc = "parent" => q.entity.parent \in Folders
  /\ q.pc \in Linking => q.course \in Courses

RequestsShaped == \A r \in Requests : Shaped(request[r])

Typed == TypeOK /\ RequestsShaped

-----------------------------------------------------------------------------
(* Typing.                                                                 *)

LEMMA BlankTyped == Blank \in RequestStates /\ Shaped(Blank)
BY DEF Blank, RequestStates, Shaped, PCs, Answers, Reading, Creating, Moving, Linking

\* A step of a request gives its own state a form, and leaves the others alone.
LEMMA SetShape ==
  ASSUME Typed, NEW r \in Requests, NEW x \in RequestStates, Shaped(x), Set(r, x)
  PROVE  /\ request' \in [Requests -> RequestStates] /\ RequestsShaped'
         /\ request'[r] = x
         /\ \A other \in Requests \ {r} : request'[other] = request[other]
BY DEF Typed, TypeOK, RequestsShaped, Set

LEMMA AnswerShape ==
  ASSUME Typed, NEW r \in Requests, NEW pc \in Answers, Answer(r, pc)
  PROVE  /\ request' \in [Requests -> RequestStates] /\ RequestsShaped'
         /\ request'[r] = [Blank EXCEPT !.pc = pc]
         /\ \A other \in Requests \ {r} : request'[other] = request[other]
<1> DEFINE x == [Blank EXCEPT !.pc = pc]
<1>1. x \in RequestStates /\ Shaped(x)
  BY BlankTyped DEF Blank, RequestStates, Shaped, PCs, Answers, Reading, Creating,
     Moving, Linking
<1>2. Set(r, x)
  BY DEF Answer
<1> HIDE DEF x
<1>3. /\ request' \in [Requests -> RequestStates] /\ RequestsShaped'
      /\ request'[r] = x
      /\ \A other \in Requests \ {r} : request'[other] = request[other]
  BY <1>1, <1>2, SetShape
<1> QED
  BY <1>3 DEF x

\* The tree built from typed tables is one, whoever reads it.
LEMMA TreeTyped ==
  ASSUME NEW who \in Readers, NEW rows \in Tables, NEW placed \in SUBSET Links,
         NEW courses, NEW n \in Nat
  PROVE  TreeFor(who, rows, placed, courses, n) \in Trees
<1> DEFINE shown == Visible(rows)
           kept == {l \in placed : l[1] \in shown /\ l[2] \in courses}
<1>1. shown \subseteq Folders
  BY DEF Visible, Present
<1>2. kept \subseteq Links
  OBVIOUS
<1>3. Pruned(rows, shown, kept) \subseteq shown
  BY DEF Pruned
<1> QED
  BY <1>1, <1>2, <1>3 DEF TreeFor, Trees

LEMMA KeyTyped ==
  ASSUME NEW v \in Nat, NEW who \in Readers
  PROVE  Key(v, who) \in Keys
BY DEF Key, Keys, Readers

LEMMA TypedInit == Init => Typed
BY BlankTyped DEF Init, Typed, TypeOK, RequestsShaped, Present, Tables, Links, Keys, Trees

LEMMA CommitShape ==
  ASSUME Typed, NEW r \in Requests, NEW x \in RequestStates, Shaped(x), Commit(r, x)
  PROVE  /\ request' \in [Requests -> RequestStates] /\ RequestsShaped'
         /\ rev' = rev + 1 /\ rev' \in Nat
         /\ request'[r] = [x EXCEPT !.change = rev + 1]
         /\ \A other \in Requests \ {r} : request'[other] = request[other]
<1> DEFINE y == [x EXCEPT !.change = rev + 1]
<1>1. y \in RequestStates /\ Shaped(y)
  BY DEF Typed, TypeOK, RequestStates, Shaped
<1>2. Set(r, y) /\ rev' = rev + 1
  BY DEF Commit
<1> HIDE DEF y
<1>3. /\ request' \in [Requests -> RequestStates] /\ RequestsShaped'
      /\ request'[r] = y
      /\ \A other \in Requests \ {r} : request'[other] = request[other]
  BY <1>1, <1>2, SetShape
<1> QED
  BY <1>2, <1>3 DEF y, Typed, TypeOK

LEMMA InvalidateTyped ==
  ASSUME Typed, NEW r \in Requests, InvalidateTreeCache, Acknowledge(r)
  PROVE  version' \in Nat /\ trees' \subseteq Keys \X Trees /\ answered' \in Nat
BY DEF Typed, TypeOK, InvalidateTreeCache, Acknowledge, Without, RequestStates

\* A step that changes requests alone.
LEMMA RequestAlone ==
  ASSUME Typed, request' \in [Requests -> RequestStates], RequestsShaped',
         UNCHANGED <<tables, version, trees, answered>>
  PROVE  Typed'
BY DEF Typed, TypeOK, tables

LEMMA ReadTyped ==
  ASSUME Typed, NEW r \in Requests, ReadStep(r)
  PROVE  Typed'
<1>0. request[r] \in RequestStates /\ Shaped(request[r])
  BY DEF Typed, TypeOK, RequestsShaped
<1>1. ASSUME NEW who \in Readers, ReadBegin(r, who) PROVE Typed'
  <2> DEFINE begun == [Blank EXCEPT !.who = who, !.version = version,
                                    !.floor = answered]
             miss == [begun EXCEPT !.pc = "courses"]
  <2>0. begun \in RequestStates /\ begun.who = who
    BY BlankTyped DEF Typed, TypeOK, RequestStates
  <2> HIDE DEF begun
  <2>1. miss \in RequestStates /\ Shaped(miss)
    BY <2>0 DEF RequestStates, Shaped, PCs, Answers, Reading, Creating, Moving, Linking
  <2>2. ASSUME NEW t \in Trees
        PROVE  LET hit == [begun EXCEPT !.pc = "done", !.tree = t]
               IN hit \in RequestStates /\ Shaped(hit)
    <3> DEFINE hit == [begun EXCEPT !.pc = "done", !.tree = t]
    <3>1. hit \in RequestStates
      BY <2>0 DEF RequestStates, PCs, Answers
    <3>2. hit.pc = "done"
      BY <2>0 DEF RequestStates
    <3> HIDE DEF hit
    <3>3. Shaped(hit)
      BY <3>2 DEF Shaped, Reading, Creating, Moving, Linking
    <3> QED
      BY <3>1, <3>3 DEF hit
  <2>3. ASSUME NEW t \in trees PROVE t[2] \in Trees
    BY DEF Typed, TypeOK
  <2>4. request' \in [Requests -> RequestStates] /\ RequestsShaped'
    <3>1. CASE Set(r, miss)
      <4> HIDE DEF miss
      <4> QED BY <2>1, <3>1, SetShape
    <3>2. CASE \E t \in trees : Set(r, [begun EXCEPT !.pc = "done", !.tree = t[2]])
      <4>1. PICK t \in trees : Set(r, [begun EXCEPT !.pc = "done", !.tree = t[2]])
        BY <3>2
      <4> DEFINE hit == [begun EXCEPT !.pc = "done", !.tree = t[2]]
      <4>2. hit \in RequestStates /\ Shaped(hit)
        BY <2>2, <2>3
      <4>3. Set(r, hit)
        BY <4>1
      <4> HIDE DEF hit
      <4> QED BY <4>2, <4>3, SetShape
    <3> QED BY <1>1, <3>1, <3>2 DEF ReadBegin, begun
  <2> QED
    BY <1>1, <2>4, RequestAlone DEF ReadBegin
<1>2. CASE ReadCourses(r)
  <2>1. PICK known \in SUBSET Courses :
          Set(r, [request[r] EXCEPT !.pc = "folders", !.courses = known])
    BY <1>2 DEF ReadCourses
  <2> DEFINE x == [request[r] EXCEPT !.pc = "folders", !.courses = known]
  <2>2. x \in RequestStates /\ Shaped(x)
    BY <1>0, <1>2 DEF ReadCourses, RequestStates, Shaped, PCs, Answers, Reading,
       Creating, Moving, Linking
  <2>3. Set(r, x)
    BY <2>1
  <2> HIDE DEF x
  <2> QED
    BY <1>2, <2>2, <2>3, SetShape, RequestAlone DEF ReadCourses
<1>3. CASE ReadFolders(r)
  <2> DEFINE x == [request[r] EXCEPT !.pc = "links", !.rows = folders, !.change = rev]
  <2>2. x \in RequestStates /\ Shaped(x)
    BY <1>0, <1>3 DEF Typed, TypeOK, ReadFolders, RequestStates, Shaped, PCs, Answers,
       Reading, Creating, Moving, Linking
  <2>3. Set(r, x)
    BY <1>3 DEF ReadFolders
  <2> HIDE DEF x
  <2> QED
    BY <1>3, <2>2, <2>3, SetShape, RequestAlone DEF ReadFolders
<1>4. CASE ReadLinks(r)
  <2> DEFINE q == request[r]
             tree == TreeFor(q.who, q.rows, links, q.courses, q.change)
             key == Key(q.version, q.who)
             x == [Blank EXCEPT !.pc = "done", !.who = q.who,
                                !.floor = q.floor, !.tree = tree]
  <2>1. /\ q.who \in Readers /\ q.rows \in Tables /\ q.change \in Nat
        /\ q.version \in Nat /\ q.floor \in Nat
    BY <1>0, <1>4 DEF ReadLinks, Shaped, RequestStates, Reading
  <2>2. tree \in Trees /\ key \in Keys
    BY <2>1, TreeTyped, KeyTyped DEF Typed, TypeOK
  <2>3. trees' = Without(key) \cup {<<key, tree>>} /\ Set(r, x)
    BY <1>4 DEF ReadLinks
  <2> HIDE DEF tree, key
  <2>4. x \in RequestStates /\ Shaped(x)
    <3>1. x \in RequestStates
      BY <2>1, <2>2, BlankTyped DEF RequestStates, PCs, Answers
    <3>2. x.pc = "done"
      BY BlankTyped DEF RequestStates
    <3> HIDE DEF x
    <3> QED
      BY <3>1, <3>2 DEF Shaped, Reading, Creating, Moving, Linking
  <2> HIDE DEF x
  <2>5. request' \in [Requests -> RequestStates] /\ RequestsShaped'
    BY <2>3, <2>4, SetShape
  <2>6. trees' \subseteq Keys \X Trees
    BY <2>2, <2>3 DEF Without, Typed, TypeOK
  <2> QED
    BY <1>4, <2>5, <2>6 DEF ReadLinks, Typed, TypeOK, tables
<1> QED
  BY <1>1, <1>2, <1>3, <1>4 DEF ReadStep

\* Stages in which a request knows nothing its row must show.
LEMMA PlainShape ==
  ASSUME NEW q, q.pc \in Answers \cup {"idle", "changed"}
  PROVE  Shaped(q)
BY DEF Shaped, Answers, Reading, Creating, Moving, Linking

LEMMA FolderRow ==
  ASSUME Typed, NEW f \in Folders
  PROVE  folders[f] \in Rows \cup {Nil}
BY DEF Typed, TypeOK, Tables

LEMMA CountTyped == 1 \in 0..3 /\ 3 \in 0..3
OBVIOUS

LEMMA CreateTyped ==
  ASSUME Typed, NEW r \in Requests, CreateStep(r)
  PROVE  Typed'
<1> DEFINE q == request[r]
<1>0. q \in RequestStates /\ Shaped(q)
  BY DEF Typed, TypeOK, RequestsShaped
<1>a. Blank \in RequestStates
  BY BlankTyped
<1>1. ASSUME NEW p \in Parents, CreateBegin(r, p) PROVE Typed'
  <2> DEFINE x == [Blank EXCEPT !.pc = "creating", !.folder = p, !.left = 1]
  <2>1. x \in RequestStates /\ Shaped(x)
    <3>1. x \in RequestStates
      BY <1>a, CountTyped DEF RequestStates, PCs
    <3>2. x.pc = "creating" /\ x.folder \in Folders \cup {Root} /\ x.left = 1
      BY <1>a DEF RequestStates, Parents
    <3> HIDE DEF x
    <3> QED
      BY <3>1, <3>2 DEF Shaped, Parents, Reading, Creating, Moving, Linking
  <2>2. Answer(r, "notFound") \/ Set(r, x)
    BY <1>1 DEF CreateBegin
  <2> HIDE DEF x
  <2>3. request' \in [Requests -> RequestStates] /\ RequestsShaped'
    BY <2>1, <2>2, SetShape, AnswerShape DEF Answers
  <2> QED
    BY <1>1, <2>3, RequestAlone DEF CreateBegin
<1>2. CASE SeedFind(r)
  <2> DEFINE x == [Blank EXCEPT !.pc = "creating", !.folder = Root, !.left = 3,
                                !.seed = TRUE]
  <2>1. x \in RequestStates /\ Shaped(x)
    <3>1. x \in RequestStates
      BY <1>a, CountTyped DEF RequestStates, PCs, Parents
    <3>2. x.pc = "creating" /\ x.folder = Root /\ x.left = 3 /\ x.seed
      BY <1>a DEF RequestStates
    <3> HIDE DEF x
    <3> QED
      BY <3>1, <3>2 DEF Shaped, Parents, Reading, Creating, Moving, Linking
  <2>2. Answer(r, "done") \/ Set(r, x)
    BY <1>2 DEF SeedFind
  <2> HIDE DEF x
  <2>3. request' \in [Requests -> RequestStates] /\ RequestsShaped'
    BY <2>1, <2>2, SetShape, AnswerShape DEF Answers
  <2> QED
    BY <1>2, <2>3, RequestAlone DEF SeedFind
<1>3. CASE SeedFindParent(r)
  <2> DEFINE x == [q EXCEPT !.pc = "creating"]
  <2>1. x \in RequestStates /\ Shaped(x)
    BY <1>0, <1>3 DEF SeedFindParent, RequestStates, Shaped, PCs, Parents, Reading,
       Creating, Moving, Linking
  <2>2. Answer(r, "notFound") \/ Set(r, x)
    BY <1>3 DEF SeedFindParent
  <2> HIDE DEF x
  <2>3. request' \in [Requests -> RequestStates] /\ RequestsShaped'
    BY <2>1, <2>2, SetShape, AnswerShape DEF Answers
  <2> QED
    BY <1>3, <2>3, RequestAlone DEF SeedFindParent
<1>4. CASE CreateSave(r)
  <2> DEFINE p == q.folder
  <2>1. CASE Answer(r, "failed") /\ UNCHANGED tables
    <3>1. request' \in [Requests -> RequestStates] /\ RequestsShaped'
      BY <2>1, AnswerShape DEF Answers
    <3> QED
      BY <1>4, <2>1, <3>1, RequestAlone DEF CreateSave
  <2>2. ASSUME NEW f \in Folders \ minted,
               minted' = minted \cup {f},
               folders' = [folders EXCEPT ![f] = NewRow(p, q.seed)],
               Commit(r, [q EXCEPT !.pc = "created", !.cursor = f]),
               UNCHANGED links
        PROVE  Typed'
    <3> DEFINE x == [q EXCEPT !.pc = "created", !.cursor = f]
    <3>1. x \in RequestStates /\ Shaped(x)
      <4>1. x \in RequestStates
        BY <1>0 DEF RequestStates, PCs, Parents
      <4>2. /\ x.pc = "created" /\ x.cursor = f /\ x.folder = q.folder
            /\ x.left = q.left /\ x.seed = q.seed
        BY <1>0 DEF RequestStates
      <4>3. /\ q.left \in 1..3 /\ q.folder \in Parents
            /\ ~q.seed /\ q.left # 1 => q.folder \in Folders
        BY <1>0, <1>4 DEF CreateSave, Shaped, Creating
      <4> HIDE DEF x
      <4> QED
        BY <4>1, <4>2, <4>3 DEF Shaped, Reading, Creating, Moving, Linking
    <3>2. NewRow(p, q.seed) \in Rows
      BY <1>0, <1>4 DEF CreateSave, NewRow, Rows, RequestStates, Shaped, Creating
    <3> HIDE DEF x
    <3>3. /\ request' \in [Requests -> RequestStates] /\ RequestsShaped'
          /\ rev' \in Nat
      BY <2>2, <3>1, CommitShape DEF x
    <3>4. folders' \in Tables /\ minted' \subseteq Folders /\ links' \subseteq Links
      BY <2>2, <3>2 DEF Typed, TypeOK, Tables
    <3> QED
      BY <1>4, <3>3, <3>4 DEF CreateSave, Typed, TypeOK
  <2> QED
    BY <1>4, <2>1, <2>2 DEF CreateSave
<1>5. CASE CreateDone(r)
  <2> DEFINE top == IF q.seed THEN q.cursor ELSE q.folder
             x == [q EXCEPT !.pc = "seeding", !.left = @ - 1, !.seed = FALSE,
                            !.folder = top, !.cursor = Nil]
  <2>0. /\ q.pc = "created" /\ q.seed \in BOOLEAN /\ q.left \in 1..3 /\ q.cursor \in Folders
        /\ ~q.seed /\ q.left # 1 => q.folder \in Folders
    BY <1>0, <1>5 DEF CreateDone, RequestStates, Shaped, Creating
  <2>1. ASSUME q.left # 1 PROVE x \in RequestStates /\ Shaped(x)
    <3>1. top \in Folders /\ q.left - 1 \in 1..3 /\ q.left - 1 \in 0..3
      BY <2>0, <2>1
    <3> HIDE DEF top
    <3>2. x \in RequestStates
      BY <1>0, <3>1 DEF RequestStates, PCs, Parents
    <3>3. x.pc = "seeding" /\ x.left = q.left - 1 /\ x.folder = top
      BY <1>0 DEF RequestStates
    <3> HIDE DEF x
    <3> QED
      BY <3>1, <3>2, <3>3 DEF Shaped, Reading, Creating, Moving, Linking
  <2>2. Answer(r, "done") \/ (q.left # 1 /\ Set(r, x))
    BY <1>5 DEF CreateDone
  <2> HIDE DEF x
  <2>3. request' \in [Requests -> RequestStates] /\ RequestsShaped'
    BY <2>1, <2>2, SetShape, AnswerShape DEF Answers
  <2>4. version' \in Nat /\ trees' \subseteq Keys \X Trees /\ answered' \in Nat
    BY <1>5, InvalidateTyped DEF CreateDone
  <2> QED
    BY <1>5, <2>3, <2>4 DEF CreateDone, Typed, TypeOK, tables
<1> QED
  BY <1>1, <1>2, <1>3, <1>4, <1>5 DEF CreateStep

\* Two ways to go on: save what was loaded, or act on the folder found.
LEMMA MovingShape ==
  ASSUME NEW q, q.pc = "saving", q.folder \in Folders, q.entity \in Rows
  PROVE  Shaped(q)
BY DEF Shaped, Reading, Creating, Moving, Linking

LEMMA UpdateTyped ==
  ASSUME Typed, NEW r \in Requests, UpdateStep(r)
  PROVE  Typed'
<1> DEFINE q == request[r]
<1>0. q \in RequestStates /\ Shaped(q)
  BY DEF Typed, TypeOK, RequestsShaped
<1>a. Blank \in RequestStates
  BY BlankTyped
<1>1. ASSUME NEW f \in Folders, NEW active \in BOOLEAN, UpdateActive(r, f, active)
      PROVE Typed'
  <2> DEFINE row == [folders[f] EXCEPT !.active = active]
             x == [Blank EXCEPT !.pc = "saving", !.folder = f, !.entity = row]
  <2>1. ASSUME folders[f] # Nil PROVE x \in RequestStates /\ Shaped(x)
    <3>1. row \in Rows
      BY <2>1, FolderRow DEF Rows
    <3> HIDE DEF row
    <3>2. x \in RequestStates
      BY <1>a, <3>1 DEF RequestStates, PCs, Parents
    <3>3. x.pc = "saving" /\ x.folder = f /\ x.entity = row
      BY <1>a DEF RequestStates
    <3> HIDE DEF x
    <3> QED
      BY <3>1, <3>2, <3>3, MovingShape
  <2>2. Answer(r, "notFound") \/ (folders[f] # Nil /\ Set(r, x))
    BY <1>1 DEF UpdateActive
  <2> HIDE DEF x
  <2>3. request' \in [Requests -> RequestStates] /\ RequestsShaped'
    BY <2>1, <2>2, SetShape, AnswerShape DEF Answers
  <2> QED
    BY <1>1, <2>3, RequestAlone DEF UpdateActive
<1>2. ASSUME NEW f \in Folders, NEW p \in Parents, MoveBegin(r, f, p) PROVE Typed'
  <2> DEFINE row == [folders[f] EXCEPT !.parent = p]
             pc == IF p = Root THEN "saving" ELSE "parent"
             x == [Blank EXCEPT !.folder = f, !.entity = row, !.pc = pc]
  <2>1. ASSUME folders[f] # Nil PROVE x \in RequestStates /\ Shaped(x)
    <3>1. row \in Rows /\ row.parent = p
      BY <2>1, FolderRow DEF Rows
    <3> HIDE DEF row
    <3>2. pc \in {"saving", "parent"} /\ (pc = "parent" => p \in Folders)
      BY DEF Parents
    <3> HIDE DEF pc
    <3>3. x \in RequestStates
      BY <1>a, <3>1, <3>2 DEF RequestStates, PCs, Parents
    <3>4. x.pc = pc /\ x.folder = f /\ x.entity = row
      BY <1>a DEF RequestStates
    <3> HIDE DEF x
    <3> QED
      BY <3>1, <3>2, <3>3, <3>4 DEF Shaped, Reading, Creating, Moving, Linking
  <2>2. \/ Answer(r, "notFound") \/ Answer(r, "badRequest")
        \/ folders[f] # Nil /\ Set(r, x)
    BY <1>2 DEF MoveBegin
  <2> HIDE DEF x
  <2>3. request' \in [Requests -> RequestStates] /\ RequestsShaped'
    BY <2>1, <2>2, SetShape, AnswerShape DEF Answers
  <2> QED
    BY <1>2, <2>3, RequestAlone DEF MoveBegin
<1>3. ASSUME NEW f \in Folders, DeleteBegin(r, f) PROVE Typed'
  <2> DEFINE x == [Blank EXCEPT !.pc = "deleting", !.folder = f]
  <2>1. x \in RequestStates /\ Shaped(x)
    <3>1. x \in RequestStates
      BY <1>a DEF RequestStates, PCs, Parents
    <3>2. x.pc = "deleting" /\ x.folder = f
      BY <1>a DEF RequestStates
    <3> HIDE DEF x
    <3> QED
      BY <3>1, <3>2 DEF Shaped, Reading, Creating, Moving, Linking
  <2>2. Answer(r, "notFound") \/ Set(r, x)
    BY <1>3 DEF DeleteBegin
  <2> HIDE DEF x
  <2>3. request' \in [Requests -> RequestStates] /\ RequestsShaped'
    BY <2>1, <2>2, SetShape, AnswerShape DEF Answers
  <2> QED
    BY <1>3, <2>3, RequestAlone DEF DeleteBegin
<1>4. CASE MoveFindParent(r)
  <2> DEFINE p == q.entity.parent
             x == [q EXCEPT !.pc = "climbing", !.cursor = p]
  <2>1. x \in RequestStates /\ Shaped(x)
    <3>1. q.pc = "parent" /\ p \in Folders /\ q.folder \in Folders /\ q.entity \in Rows
      BY <1>0, <1>4 DEF MoveFindParent, Shaped, Moving
    <3> HIDE DEF p
    <3>2. x \in RequestStates
      BY <1>0, <3>1 DEF RequestStates, PCs, Parents
    <3>3. x.pc = "climbing" /\ x.cursor = p /\ x.folder = q.folder /\ x.entity = q.entity
      BY <1>0 DEF RequestStates
    <3> HIDE DEF x
    <3> QED
      BY <3>1, <3>2, <3>3 DEF Shaped, Reading, Creating, Moving, Linking
  <2>2. Answer(r, "notFound") \/ Set(r, x)
    BY <1>4 DEF MoveFindParent
  <2> HIDE DEF x
  <2>3. request' \in [Requests -> RequestStates] /\ RequestsShaped'
    BY <2>1, <2>2, SetShape, AnswerShape DEF Answers
  <2> QED
    BY <1>4, <2>3, RequestAlone DEF MoveFindParent
<1>5. CASE MoveClimb(r)
  <2> DEFINE row == folders[q.cursor]
             up == IF row = Nil THEN Root ELSE row.parent
             x == [q EXCEPT !.pc = "saving", !.cursor = Nil]
             y == [q EXCEPT !.cursor = up]
  <2>0. /\ q.pc = "climbing" /\ q.folder \in Folders /\ q.entity \in Rows
        /\ q.cursor \in Folders
    BY <1>0, <1>5 DEF MoveClimb, Shaped, Moving
  <2>1. x \in RequestStates /\ Shaped(x)
    <3>1. x \in RequestStates
      BY <1>0 DEF RequestStates, PCs
    <3>2. x.pc = "saving" /\ x.folder = q.folder /\ x.entity = q.entity
      BY <1>0 DEF RequestStates
    <3> HIDE DEF x
    <3> QED
      BY <2>0, <3>1, <3>2, MovingShape
  <2>2. ASSUME up # Root PROVE y \in RequestStates /\ Shaped(y)
    <3>1. up \in Folders
      BY <2>0, <2>2, FolderRow DEF Rows, Parents
    <3> HIDE DEF up
    <3>2. y \in RequestStates
      BY <1>0, <3>1 DEF RequestStates, Parents
    <3>3. y.pc = q.pc /\ y.cursor = up /\ y.folder = q.folder /\ y.entity = q.entity
      BY <1>0 DEF RequestStates
    <3> HIDE DEF y
    <3> QED
      BY <2>0, <3>1, <3>2, <3>3 DEF Shaped, Reading, Creating, Moving, Linking
  <2>3. Answer(r, "badRequest") \/ Set(r, x) \/ (up # Root /\ Set(r, y))
    BY <1>5 DEF MoveClimb
  <2> HIDE DEF x, y
  <2>4. request' \in [Requests -> RequestStates] /\ RequestsShaped'
    BY <2>1, <2>2, <2>3, SetShape, AnswerShape DEF Answers
  <2> QED
    BY <1>5, <2>4, RequestAlone DEF MoveClimb
<1>b. LET x == [q EXCEPT !.pc = "changed"] IN x \in RequestStates /\ Shaped(x)
  <2> DEFINE x == [q EXCEPT !.pc = "changed"]
  <2>1. x \in RequestStates /\ x.pc = "changed"
    BY <1>0 DEF RequestStates, PCs
  <2> HIDE DEF x
  <2>2. Shaped(x)
    BY <2>1, PlainShape
  <2> QED
    BY <2>1, <2>2 DEF x
<1>6. CASE UpdateSave(r)
  <2>1. CASE Answer(r, "failed") /\ UNCHANGED tables
    <3>1. request' \in [Requests -> RequestStates] /\ RequestsShaped'
      BY <2>1, AnswerShape DEF Answers
    <3> QED
      BY <1>6, <2>1, <3>1, RequestAlone DEF UpdateSave
  <2>2. CASE /\ folders' = [folders EXCEPT ![q.folder] = q.entity]
             /\ Commit(r, [q EXCEPT !.pc = "changed"])
             /\ UNCHANGED <<minted, links>>
    <3> DEFINE x == [q EXCEPT !.pc = "changed"]
    <3>1. x \in RequestStates /\ Shaped(x) /\ Commit(r, x)
      BY <1>b, <2>2
    <3> HIDE DEF x
    <3>2. /\ request' \in [Requests -> RequestStates] /\ RequestsShaped'
          /\ rev' \in Nat
      BY <3>1, CommitShape
    <3>3. q.folder \in Folders /\ q.entity \in Rows
      BY <1>0, <1>6 DEF UpdateSave, Shaped, Moving
    <3>4. folders' \in Tables
      BY <2>2, <3>3 DEF Typed, TypeOK, Tables
    <3> QED
      BY <1>6, <2>2, <3>2, <3>4 DEF UpdateSave, Typed, TypeOK
  <2> QED
    BY <1>6, <2>1, <2>2 DEF UpdateSave
<1>7. CASE DeleteRows(r)
  <2> DEFINE gone == Branch(folders, q.folder)
             x == [q EXCEPT !.pc = "changed"]
  <2>1. x \in RequestStates /\ Shaped(x) /\ Commit(r, x)
    BY <1>b, <1>7 DEF DeleteRows
  <2> HIDE DEF x
  <2>2. /\ request' \in [Requests -> RequestStates] /\ RequestsShaped'
        /\ rev' \in Nat
    BY <2>1, CommitShape
  <2>3. /\ folders' = [f \in Folders |-> IF f \in gone THEN Nil ELSE folders[f]]
        /\ links' = {l \in links : l[1] \notin gone}
    BY <1>7 DEF DeleteRows
  <2> HIDE DEF gone
  <2>4. folders' \in Tables /\ links' \subseteq Links
    BY <2>3 DEF Typed, TypeOK, Tables
  <2> QED
    BY <1>7, <2>2, <2>4 DEF DeleteRows, Typed, TypeOK
<1> QED
  BY <1>1, <1>2, <1>3, <1>4, <1>5, <1>6, <1>7 DEF UpdateStep

LEMMA LinkingShape ==
  ASSUME NEW q, q.pc \in Linking, q.folder \in Folders, q.course \in Courses
  PROVE  Shaped(q)
BY DEF Shaped, Reading, Creating, Moving, Linking

LEMMA LinkTyped ==
  ASSUME Typed, NEW r \in Requests, LinkStep(r)
  PROVE  Typed'
<1> DEFINE q == request[r]
<1>0. q \in RequestStates /\ Shaped(q)
  BY DEF Typed, TypeOK, RequestsShaped
<1>a. Blank \in RequestStates
  BY BlankTyped
<1>b. ASSUME NEW pc \in Linking, q.pc \in Linking
      PROVE  LET x == [q EXCEPT !.pc = pc] IN x \in RequestStates /\ Shaped(x)
  <2> DEFINE x == [q EXCEPT !.pc = pc]
  <2>1. x \in RequestStates
    BY <1>0 DEF RequestStates, PCs, Linking
  <2>2. x.pc = pc /\ x.folder = q.folder /\ x.course = q.course
    BY <1>0 DEF RequestStates
  <2>3. q.folder \in Folders /\ q.course \in Courses
    BY <1>0, <1>b DEF Shaped
  <2> HIDE DEF x
  <2>4. Shaped(x)
    BY <2>2, <2>3, LinkingShape
  <2> QED
    BY <2>1, <2>4 DEF x
<1>c. ASSUME NEW s \in RequestStates
      PROVE  LET x == [s EXCEPT !.pc = "changed"] IN x \in RequestStates /\ Shaped(x)
  <2> DEFINE x == [s EXCEPT !.pc = "changed"]
  <2>1. x \in RequestStates /\ x.pc = "changed"
    BY DEF RequestStates, PCs
  <2> HIDE DEF x
  <2>2. Shaped(x)
    BY <2>1, PlainShape
  <2> QED
    BY <2>1, <2>2 DEF x
<1>1. ASSUME NEW f \in Folders, NEW c \in Courses, AssignBegin(r, f, c) PROVE Typed'
  <2> DEFINE x == [Blank EXCEPT !.pc = "linking", !.folder = f, !.course = c]
  <2>1. x \in RequestStates /\ Shaped(x)
    <3>1. x \in RequestStates
      BY <1>a DEF RequestStates, PCs, Parents
    <3>2. x.pc = "linking" /\ x.folder = f /\ x.course = c
      BY <1>a DEF RequestStates
    <3> HIDE DEF x
    <3> QED
      BY <3>1, <3>2, LinkingShape DEF Linking
  <2>2. Answer(r, "notFound") \/ Answer(r, "done") \/ Set(r, x)
    BY <1>1 DEF AssignBegin
  <2> HIDE DEF x
  <2>3. request' \in [Requests -> RequestStates] /\ RequestsShaped'
    BY <2>1, <2>2, SetShape, AnswerShape DEF Answers
  <2> QED
    BY <1>1, <2>3, RequestAlone DEF AssignBegin
<1>2. ASSUME NEW l \in Links, UnassignCourse(r, l) PROVE Typed'
  <2> DEFINE x == [Blank EXCEPT !.pc = "changed"]
  <2>1. x \in RequestStates /\ Shaped(x) /\ Commit(r, x)
    BY <1>a, <1>c, <1>2 DEF UnassignCourse
  <2> HIDE DEF x
  <2>2. /\ request' \in [Requests -> RequestStates] /\ RequestsShaped'
        /\ rev' \in Nat
    BY <2>1, CommitShape
  <2> QED
    BY <1>2, <2>2 DEF UnassignCourse, Typed, TypeOK
<1>3. CASE AssignSave(r)
  <2> DEFINE l == <<q.folder, q.course>>
             x == [q EXCEPT !.pc = "syncing"]
  <2>1. CASE Answer(r, "failed") /\ UNCHANGED tables
    <3>1. request' \in [Requests -> RequestStates] /\ RequestsShaped'
      BY <2>1, AnswerShape DEF Answers
    <3> QED
      BY <1>3, <2>1, <3>1, RequestAlone DEF AssignSave
  <2>2. CASE links' = links \cup {l} /\ Commit(r, x) /\ UNCHANGED <<folders, minted>>
    <3>1. q.pc = "linking"
      BY <1>3 DEF AssignSave
    <3>2. x \in RequestStates /\ Shaped(x)
      BY <1>b, <3>1 DEF Linking
    <3>3. l \in Links
      BY <1>0, <3>1 DEF Shaped, Linking, Links
    <3> HIDE DEF x, l
    <3>4. /\ request' \in [Requests -> RequestStates] /\ RequestsShaped'
          /\ rev' \in Nat
      BY <2>2, <3>2, CommitShape
    <3> QED
      BY <1>3, <2>2, <3>3, <3>4 DEF AssignSave, Typed, TypeOK
  <2> QED
    BY <1>3, <2>1, <2>2 DEF AssignSave
<1>4. CASE AssignInvalidate(r)
  <2> DEFINE x == [q EXCEPT !.pc = "unlinking"]
  <2>1. x \in RequestStates /\ Shaped(x)
    BY <1>b, <1>4 DEF AssignInvalidate, Linking
  <2>2. Answer(r, "done") \/ Set(r, x)
    BY <1>4 DEF AssignInvalidate
  <2> HIDE DEF x
  <2>3. request' \in [Requests -> RequestStates] /\ RequestsShaped'
    BY <2>1, <2>2, SetShape, AnswerShape DEF Answers
  <2>4. version' \in Nat /\ trees' \subseteq Keys \X Trees /\ answered' \in Nat
    BY <1>4, InvalidateTyped DEF AssignInvalidate
  <2> QED
    BY <1>4, <2>3, <2>4 DEF AssignInvalidate, Typed, TypeOK, tables
<1>5. CASE Unlink(r)
  <2> DEFINE x == [q EXCEPT !.pc = "changed"]
  <2>1. x \in RequestStates /\ Shaped(x) /\ Commit(r, x)
    BY <1>0, <1>c, <1>5 DEF Unlink
  <2> HIDE DEF x
  <2>2. /\ request' \in [Requests -> RequestStates] /\ RequestsShaped'
        /\ rev' \in Nat
    BY <2>1, CommitShape
  <2>3. links' \subseteq links
    BY <1>5 DEF Unlink
  <2> QED
    BY <1>5, <2>2, <2>3 DEF Unlink, Typed, TypeOK
<1> QED
  BY <1>1, <1>2, <1>3, <1>4, <1>5 DEF LinkStep

LEMMA ChangeDoneTyped ==
  ASSUME Typed, NEW r \in Requests, ChangeDone(r)
  PROVE  Typed'
<1>1. request' \in [Requests -> RequestStates] /\ RequestsShaped'
  BY AnswerShape DEF ChangeDone, Answers
<1>2. version' \in Nat /\ trees' \subseteq Keys \X Trees /\ answered' \in Nat
  BY InvalidateTyped DEF ChangeDone
<1> QED
  BY <1>1, <1>2 DEF ChangeDone, Typed, TypeOK, tables

LEMMA RequestFailsTyped ==
  ASSUME Typed, NEW r \in Requests, RequestFails(r)
  PROVE  Typed'
<1>1. request' \in [Requests -> RequestStates] /\ RequestsShaped'
  BY AnswerShape DEF RequestFails, Answers
<1> QED
  BY <1>1, RequestAlone DEF RequestFails

LEMMA TypedStep == Typed /\ [Next]_vars => Typed'
<1> SUFFICES ASSUME Typed, [Next]_vars PROVE Typed'
  OBVIOUS
<1>1. ASSUME NEW r \in Requests,
             \/ ReadStep(r) \/ CreateStep(r) \/ UpdateStep(r)
             \/ LinkStep(r) \/ ChangeDone(r) \/ RequestFails(r)
      PROVE  Typed'
  BY <1>1, ReadTyped, CreateTyped, UpdateTyped, LinkTyped, ChangeDoneTyped,
     RequestFailsTyped
<1>2. ASSUME NEW t \in trees, Expire(t) PROVE Typed'
  BY <1>2 DEF Expire, Typed, TypeOK, RequestsShaped, tables
<1>3. CASE UNCHANGED vars
  BY <1>3 DEF vars, Typed, TypeOK, RequestsShaped
<1> QED
  BY <1>1, <1>2, <1>3 DEF Next

\* The tables, the trees and every request keep the shape the steps rely on.
THEOREM AlwaysTyped == Spec => []Typed
BY TypedInit, TypedStep, PTL DEF Spec

\* The tables, the cached trees and the locals of every request keep their
\* declared shape, whatever the requests do and wherever they fail.
THEOREM CatalogTyped == Spec => []TypeOK
<1>1. Typed => TypeOK
  BY DEF Typed
<1> QED
  BY <1>1, AlwaysTyped, PTL

-----------------------------------------------------------------------------
(* Nothing dangles.  A deletion takes the folder and everything below it,  *)
(* so the parent of a folder that stays stays too; a save that would hang  *)
(* a folder from one that is gone is refused by the foreign key.           *)

LEMMA AboveParent ==
  ASSUME NEW rows \in Tables, NEW g \in Present(rows),
         NEW f \in Above(rows, rows[g].parent)
  PROVE  f \in Above(rows, g)
BY DEF Above, Closed

\* What a folder hangs from is above it, and a folder stays only when
\* everything above it does.
LEMMA DeleteKeeps ==
  ASSUME Typed, NothingDangles, NEW r \in Requests, DeleteRows(r)
  PROVE  NothingDangles'
<1> DEFINE f == request[r].folder
           gone == Branch(folders, f)
<1>0. /\ folders \in Tables
      /\ folders' = [g \in Folders |-> IF g \in gone THEN Nil ELSE folders[g]]
      /\ links' = {l \in links : l[1] \notin gone}
      /\ links \subseteq Links
  BY DEF Typed, TypeOK, DeleteRows
<1>1. ASSUME NEW g \in Present(folders), folders[g].parent \in gone
      PROVE  g \in gone
  <2>1. f \in Above(folders, folders[g].parent)
    BY <1>1 DEF Branch
  <2>2. f \in Above(folders, g)
    BY <1>0, <1>1, <2>1, AboveParent
  <2> QED
    BY <2>2 DEF Branch
<1>2. /\ gone \subseteq Present(folders)
      /\ \A g \in Folders : g \in Present(folders)' <=> g \in Present(folders) /\ g \notin gone
  BY <1>0 DEF Branch, Present
<1> HIDE DEF gone
<1>3. ASSUME NEW g \in Present(folders)'
      PROVE  folders'[g].parent \in Present(folders)' \cup {Root}
  <2>1. g \in Present(folders) /\ g \notin gone /\ g \in Folders
    BY <1>2, <1>3 DEF Present
  <2>2. folders'[g] = folders[g]
    BY <1>0, <2>1
  <2>3. folders[g].parent \in Present(folders) \cup {Root}
    BY <2>1 DEF NothingDangles
  <2>4. folders[g].parent \notin gone
    BY <1>1, <2>1
  <2>5. Present(folders) \subseteq Folders
    BY DEF Present
  <2> QED
    BY <1>2, <2>2, <2>3, <2>4, <2>5
<1>4. ASSUME NEW l \in links' PROVE l[1] \in Present(folders)'
  BY <1>0, <1>2, <1>4 DEF NothingDangles, Links
<1> QED
  BY <1>3, <1>4 DEF NothingDangles

\* A row written under a parent that is there.
LEMMA RowKeeps ==
  ASSUME Typed, NothingDangles, NEW f \in Folders, NEW row \in Rows,
         row.parent = Root \/ folders[row.parent] # Nil,
         folders' = [folders EXCEPT ![f] = row], UNCHANGED links
  PROVE  NothingDangles'
<1>1. /\ \A g \in Folders : folders'[g] = IF g = f THEN row ELSE folders[g]
      /\ Present(folders)' = Present(folders) \cup {f}
  BY NilAssumption DEF Typed, TypeOK, Tables, Present
<1>2. row.parent \in Present(folders) \cup {Root}
  BY DEF Rows, Parents, Present
<1>3. Present(folders) \subseteq Folders
  BY DEF Present
<1>4. ASSUME NEW g \in Present(folders)'
      PROVE  folders'[g].parent \in Present(folders)' \cup {Root}
  <2>1. CASE g = f
    BY <1>1, <1>2, <2>1
  <2>2. CASE g # f
    BY <1>1, <1>3, <1>4, <2>2 DEF NothingDangles
  <2> QED BY <2>1, <2>2
<1>5. ASSUME NEW l \in links' PROVE l[1] \in Present(folders)'
  BY <1>1, <1>5 DEF NothingDangles
<1> QED
  BY <1>4, <1>5 DEF NothingDangles

\* A link saved under a folder that is there, or links taken away.
LEMMA LinksKeep ==
  ASSUME NothingDangles, UNCHANGED folders,
         \A l \in links' : l \in links \/ l[1] \in Present(folders)
  PROVE  NothingDangles'
BY DEF NothingDangles, Present

LEMMA TablesKeep ==
  ASSUME NothingDangles, UNCHANGED tables
  PROVE  NothingDangles'
BY DEF NothingDangles, Present, tables

LEMMA DanglesStep ==
  ASSUME Typed, NothingDangles, NEW r \in Requests,
         \/ ReadStep(r) \/ CreateStep(r) \/ UpdateStep(r)
         \/ LinkStep(r) \/ ChangeDone(r) \/ RequestFails(r)
  PROVE  NothingDangles'
<1> DEFINE q == request[r]
<1>0. q \in RequestStates /\ Shaped(q)
  BY DEF Typed, TypeOK, RequestsShaped
<1>1. CASE ReadStep(r) \/ ChangeDone(r) \/ RequestFails(r)
  BY <1>1, TablesKeep DEF ReadStep, ReadBegin, ReadCourses, ReadFolders, ReadLinks,
     ChangeDone, RequestFails, tables
<1>2. CASE CreateStep(r) /\ ~CreateSave(r)
  BY <1>2, TablesKeep DEF CreateStep, CreateBegin, SeedFind, SeedFindParent, CreateDone,
     tables
<1>3. CASE CreateSave(r)
  <2>1. CASE UNCHANGED tables
    BY <2>1, TablesKeep
  <2>2. CASE \E f \in Folders :
               /\ q.folder = Root \/ folders[q.folder] # Nil
               /\ folders' = [folders EXCEPT ![f] = NewRow(q.folder, q.seed)]
               /\ UNCHANGED links
    <3>1. /\ NewRow(q.folder, q.seed) \in Rows
          /\ NewRow(q.folder, q.seed).parent = q.folder
      BY <1>0, <1>3 DEF CreateSave, NewRow, Rows, RequestStates, Shaped, Creating
    <3> QED
      BY <2>2, <3>1, RowKeeps
  <2> QED
    BY <1>3, <2>1, <2>2 DEF CreateSave
<1>4. CASE UpdateStep(r) /\ ~UpdateSave(r) /\ ~DeleteRows(r)
  BY <1>4, TablesKeep DEF UpdateStep, UpdateActive, MoveBegin, DeleteBegin,
     MoveFindParent, MoveClimb, tables
<1>5. CASE UpdateSave(r)
  <2>1. q.folder \in Folders /\ q.entity \in Rows
    BY <1>0, <1>5 DEF UpdateSave, Shaped, Moving
  <2>2. \/ UNCHANGED tables
        \/ /\ q.entity.parent = Root \/ folders[q.entity.parent] # Nil
           /\ folders' = [folders EXCEPT ![q.folder] = q.entity]
           /\ UNCHANGED links
    BY <1>5 DEF UpdateSave
  <2> QED
    BY <2>1, <2>2, RowKeeps, TablesKeep
<1>6. CASE LinkStep(r) /\ ~AssignSave(r)
  <2>1. UNCHANGED folders /\ links' \subseteq links
    BY <1>6 DEF LinkStep, AssignBegin, UnassignCourse, AssignInvalidate, Unlink, tables
  <2> QED
    BY <2>1, LinksKeep
<1>7. CASE AssignSave(r)
  <2>1. q.folder \in Folders
    BY <1>0, <1>7 DEF AssignSave, Shaped, Linking
  <2>2. /\ UNCHANGED folders
        /\ \A l \in links' : l \in links \/ (l[1] = q.folder /\ folders[q.folder] # Nil)
    BY <1>7 DEF AssignSave, tables
  <2> QED
    BY <2>1, <2>2, LinksKeep DEF Present
<1> QED
  BY <1>1, <1>2, <1>3, <1>4, <1>5, <1>6, <1>7, DeleteKeeps DEF UpdateStep

\* A folder whose parent is missing has a closed set without the root: itself
\* and that parent.
LEMMA DanglesInit == Init => NothingDangles
<1> SUFFICES ASSUME Init PROVE NothingDangles
  OBVIOUS
<1>1. ASSUME NEW f \in Present(folders)
      PROVE  folders[f].parent \in Present(folders) \cup {Root}
  <2> DEFINE p == folders[f].parent
  <2>1. f \in Folders /\ folders[f] \in Rows
    BY <1>1 DEF Init, Present, Tables
  <2>2. p \in Parents
    BY <2>1 DEF Rows
  <2> SUFFICES ASSUME p \notin Present(folders), p # Root PROVE FALSE
    OBVIOUS
  <2>3. Closed(folders, {f, p}) /\ {f, p} \in SUBSET Parents
    BY <2>1, <2>2 DEF Closed, Parents
  <2>4. Root \in {f, p}
    BY <1>1, <2>3 DEF Init, Above
  <2> QED
    BY <2>1, <2>4, NilAssumption
<1>2. ASSUME NEW l \in links PROVE l[1] \in Present(folders)
  BY <1>2 DEF Init, Links, Present
<1> QED
  BY <1>1, <1>2 DEF NothingDangles

\* In every reachable state a folder's parent and a link's folder exist: no
\* interleaving of creations, moves, late saves, deletions and links leaves a
\* row hanging from a folder that deleteFolder removed.
THEOREM NothingLeftDangling == Spec => []NothingDangles
<1>1. Typed /\ NothingDangles /\ [Next]_vars => NothingDangles'
  <2> SUFFICES ASSUME Typed, NothingDangles, [Next]_vars PROVE NothingDangles'
    OBVIOUS
  <2>1. ASSUME NEW t \in trees, Expire(t) PROVE NothingDangles'
    BY <2>1, TablesKeep DEF Expire
  <2>2. CASE UNCHANGED vars
    BY <2>2, TablesKeep DEF vars, tables
  <2> QED
    BY <2>1, <2>2, DanglesStep DEF Next
<1> QED
  BY <1>1, DanglesInit, AlwaysTyped, PTL DEF Spec

-----------------------------------------------------------------------------
(* Freshness.  Every change raises the version before it is answered, so a *)
(* tree found under the version of today was built after every change      *)
(* answered, and a reader who still has that version has seen none since.  *)

\* What a request has read is no older than what was answered when it began.
Timely(q) ==
  /\ q.change <= rev
  /\ q.pc \in Reading =>
       /\ q.version <= version /\ q.floor <= answered
       /\ q.version = version => q.floor = answered
  /\ q.pc = "links" => q.floor <= q.change
  /\ q.pc = "done" /\ q.who \in Students => q.floor <= q.tree.rev

\* No tree of a student is filed under a version still to come, and those
\* under the present one show every change answered.
TreesTimely ==
  \A t \in trees : t[1][2] \in Students =>
    /\ t[1][1] <= version
    /\ t[1][1] = version => answered <= t[2].rev

Fresh ==
  /\ answered <= rev
  /\ \A r \in Requests : Timely(request[r])
  /\ TreesTimely

\* How the clocks of the process move: together, and forwards.
Onward ==
  /\ rev <= rev' /\ answered <= answered' /\ version <= version'
  /\ answered' <= rev'
  /\ version' = version => answered' = answered

LEMMA TimelyKept ==
  ASSUME Typed, Typed', Fresh, Onward, NEW r \in Requests, request'[r] = request[r]
  PROVE  Timely(request[r])'
BY DEF Typed, TypeOK, RequestStates, Fresh, Onward, Timely

\* Trees filed before stay timely, whether the version moves or not.
LEMMA TreesKept ==
  ASSUME Typed, Typed', Fresh, Onward, trees' \subseteq trees
  PROVE  TreesTimely'
BY DEF Typed, TypeOK, Keys, Trees, Fresh, Onward, TreesTimely

LEMMA FreshByStep ==
  ASSUME Typed, Typed', Fresh, Onward, NEW r \in Requests,
         \A other \in Requests \ {r} : request'[other] = request[other],
         Timely(request[r])', TreesTimely'
  PROVE  Fresh'
<1>1. \A other \in Requests : Timely(request[other])'
  BY TimelyKept
<1> QED
  BY <1>1 DEF Fresh, Onward

\* A request that writes serves no tree.
Writing(q) == q.pc \notin Reading /\ (q.pc = "done" => q.who \notin Students)

LEMMA WritingTimely ==
  ASSUME NEW r \in Requests, Writing(request'[r]), request'[r].change <= rev'
  PROVE  Timely(request[r])'
BY DEF Writing, Timely, Reading

WriteStep(r) ==
  CreateStep(r) \/ UpdateStep(r) \/ LinkStep(r) \/ ChangeDone(r) \/ RequestFails(r)

LEMMA OthersKept ==
  ASSUME Typed, NEW r \in Requests, ReadStep(r) \/ WriteStep(r),
         NEW other \in Requests, other # r
  PROVE  request'[other] = request[other]
BY DEF Typed, TypeOK, ReadStep, WriteStep, CreateStep, UpdateStep, LinkStep,
       ReadBegin, ReadCourses, ReadFolders, ReadLinks, CreateBegin, SeedFind,
       SeedFindParent, CreateSave, CreateDone, UpdateActive, MoveBegin, DeleteBegin,
       MoveFindParent, MoveClimb, UpdateSave, DeleteRows, AssignBegin, UnassignCourse,
       AssignSave, AssignInvalidate, Unlink, ChangeDone, RequestFails, Set, Answer,
       Commit

\* The version moves with the newest change answered.
LEMMA InvalidateOnward ==
  ASSUME Typed, Fresh, NEW r \in Requests, InvalidateTreeCache, Acknowledge(r),
         UNCHANGED tables
  PROVE  Onward /\ trees' \subseteq trees
<1>1. /\ request[r].change \in Nat /\ answered \in Nat /\ rev \in Nat /\ version \in Nat
      /\ answered <= rev /\ request[r].change <= rev
  BY DEF Typed, TypeOK, RequestStates, Fresh, Timely
<1>2. rev' = rev /\ version' = version + 1
  BY DEF InvalidateTreeCache, tables
<1>3. answered' \in Nat /\ answered <= answered' /\ answered' <= rev
  BY <1>1 DEF Acknowledge
<1>4. trees' \subseteq trees
  BY DEF InvalidateTreeCache, Without
<1> QED
  BY <1>1, <1>2, <1>3, <1>4 DEF Onward

LEMMA StillOnward ==
  ASSUME Typed, Fresh, UNCHANGED <<version, trees, answered>>, rev' \in {rev, rev + 1}
  PROVE  Onward /\ trees' \subseteq trees
BY DEF Typed, TypeOK, Fresh, Onward

LEMMA WriteOnward ==
  ASSUME Typed, Fresh, NEW r \in Requests, WriteStep(r)
  PROVE  Onward /\ trees' \subseteq trees
<1>1. CASE CreateDone(r) \/ AssignInvalidate(r) \/ ChangeDone(r)
  BY <1>1, InvalidateOnward DEF CreateDone, AssignInvalidate, ChangeDone
<1>2. CASE CreateStep(r) /\ ~CreateDone(r)
  BY <1>2, StillOnward DEF CreateStep, CreateBegin, SeedFind, SeedFindParent,
     CreateSave, Commit, tables
<1>3. CASE UpdateStep(r)
  BY <1>3, StillOnward DEF UpdateStep, UpdateActive, MoveBegin, DeleteBegin,
     MoveFindParent, MoveClimb, UpdateSave, DeleteRows, Commit, tables
<1>4. CASE LinkStep(r) /\ ~AssignInvalidate(r)
  BY <1>4, StillOnward DEF LinkStep, AssignBegin, UnassignCourse, AssignSave, Unlink,
     Commit, tables
<1>5. CASE RequestFails(r)
  BY <1>5, StillOnward DEF RequestFails, tables
<1> QED
  BY <1>1, <1>2, <1>3, <1>4, <1>5 DEF WriteStep

LEMMA AnswerWrites ==
  ASSUME Typed, NEW r \in Requests, NEW pc \in Answers, Answer(r, pc)
  PROVE  Writing(request'[r]) /\ request'[r].change = 0
<1>1. request'[r] = [Blank EXCEPT !.pc = pc]
  BY AnswerShape
<1>2. request'[r].pc = pc /\ request'[r].who = Nil /\ request'[r].change = 0
  BY <1>1 DEF Blank
<1> QED
  BY <1>2, NilAssumption DEF Writing, Reading, Answers

LEMMA SetWrites ==
  ASSUME Typed, NEW r \in Requests, NEW x, Set(r, x),
         x.pc \notin Reading \cup {"done"}
  PROVE  Writing(request'[r]) /\ request'[r].change = x.change
BY DEF Typed, TypeOK, Set, Writing

LEMMA CommitWrites ==
  ASSUME Typed, NEW r \in Requests, NEW x \in RequestStates, Commit(r, x),
         x.pc \notin Reading \cup {"done"}
  PROVE  Writing(request'[r]) /\ request'[r].change = rev'
<1> DEFINE y == [x EXCEPT !.change = rev + 1]
<1>1. y.pc = x.pc /\ y.change = rev + 1
  BY DEF RequestStates
<1>2. Set(r, y) /\ rev' = rev + 1
  BY DEF Commit
<1> HIDE DEF y
<1> QED
  BY <1>1, <1>2, SetWrites

\* The request of a write step ends up writing, with a change already made.
LEMMA WriteWrites ==
  ASSUME Typed, Fresh, NEW r \in Requests, WriteStep(r)
  PROVE  Writing(request'[r]) /\ request'[r].change <= rev'
<1> DEFINE q == request[r]
           Goal == Writing(request'[r]) /\ request'[r].change <= rev'
<1>0. /\ q \in RequestStates /\ q.change <= rev /\ q.change \in Nat
      /\ Blank \in RequestStates /\ Blank.change = 0
      /\ rev \in Nat
  BY BlankTyped DEF Typed, TypeOK, Fresh, Timely, RequestStates, Blank
<1>1. rev <= rev' /\ rev' \in Nat
  BY WriteOnward, <1>0, TypedStep DEF Onward, Typed, TypeOK, WriteStep, Next
<1>2. ASSUME NEW pc \in Answers, Answer(r, pc) PROVE Goal
  BY <1>1, <1>2, AnswerWrites
<1>3. ASSUME NEW x, Set(r, x), x.pc \notin Reading \cup {"done"},
             x.change = q.change \/ x.change = 0
      PROVE  Goal
  BY <1>0, <1>1, <1>3, SetWrites
<1>4. ASSUME NEW x \in RequestStates, Commit(r, x), x.pc \notin Reading \cup {"done"}
      PROVE  Goal
  BY <1>1, <1>4, CommitWrites
<1>5. CASE CreateStep(r)
  <2>1. ASSUME NEW p \in Parents, CreateBegin(r, p) PROVE Goal
    <3> DEFINE x == [Blank EXCEPT !.pc = "creating", !.folder = p, !.left = 1]
    <3>1. x.pc = "creating" /\ x.change = 0
      BY <1>0 DEF RequestStates
    <3>2. Answer(r, "notFound") \/ Set(r, x)
      BY <2>1 DEF CreateBegin
    <3> HIDE DEF x
    <3> QED
      BY <3>1, <3>2, <1>2, <1>3 DEF Answers, Reading
  <2>2. CASE SeedFind(r)
    <3> DEFINE x == [Blank EXCEPT !.pc = "creating", !.folder = Root, !.left = 3,
                                  !.seed = TRUE]
    <3>1. x.pc = "creating" /\ x.change = 0
      BY <1>0 DEF RequestStates
    <3>2. Answer(r, "done") \/ Set(r, x)
      BY <2>2 DEF SeedFind
    <3> HIDE DEF x
    <3> QED
      BY <3>1, <3>2, <1>2, <1>3 DEF Answers, Reading
  <2>3. CASE SeedFindParent(r)
    <3> DEFINE x == [q EXCEPT !.pc = "creating"]
    <3>1. x.pc = "creating" /\ x.change = q.change
      BY <1>0 DEF RequestStates
    <3>2. Answer(r, "notFound") \/ Set(r, x)
      BY <2>3 DEF SeedFindParent
    <3> HIDE DEF x
    <3> QED
      BY <3>1, <3>2, <1>2, <1>3 DEF Answers, Reading
  <2>4. CASE CreateSave(r)
    <3>1. ASSUME NEW f \in Folders, Commit(r, [q EXCEPT !.pc = "created", !.cursor = f])
          PROVE  Goal
      <4> DEFINE x == [q EXCEPT !.pc = "created", !.cursor = f]
      <4>1. x \in RequestStates /\ x.pc = "created"
        <5>1. q \in RequestStates /\ f \in Parents
          BY <1>0, <3>1 DEF Parents
        <5> HIDE DEF q
        <5> QED
          BY <5>1 DEF RequestStates, PCs
      <4>2. Commit(r, x)
        BY <3>1
      <4> HIDE DEF x
      <4> QED
        BY <4>1, <4>2, <1>4 DEF Reading
    <3> QED
      BY <2>4, <3>1, <1>2 DEF CreateSave, Answers
  <2>5. CASE CreateDone(r)
    <3> DEFINE top == IF q.seed THEN q.cursor ELSE q.folder
               x == [q EXCEPT !.pc = "seeding", !.left = @ - 1, !.seed = FALSE,
                              !.folder = top, !.cursor = Nil]
    <3>1. x.pc = "seeding" /\ x.change = q.change
      BY <1>0 DEF RequestStates
    <3>2. Answer(r, "done") \/ Set(r, x)
      BY <2>5 DEF CreateDone
    <3> HIDE DEF x
    <3> QED
      BY <3>1, <3>2, <1>2, <1>3 DEF Answers, Reading
  <2> QED
    BY <1>5, <2>1, <2>2, <2>3, <2>4, <2>5 DEF CreateStep
<1>6. CASE UpdateStep(r)
  <2>1. ASSUME NEW f \in Folders, NEW active \in BOOLEAN, UpdateActive(r, f, active)
        PROVE  Goal
    <3> DEFINE row == [folders[f] EXCEPT !.active = active]
               x == [Blank EXCEPT !.pc = "saving", !.folder = f, !.entity = row]
    <3>1. x.pc = "saving" /\ x.change = 0
      BY <1>0 DEF RequestStates
    <3>2. Answer(r, "notFound") \/ Set(r, x)
      BY <2>1 DEF UpdateActive
    <3> HIDE DEF x
    <3> QED
      BY <3>1, <3>2, <1>2, <1>3 DEF Answers, Reading
  <2>2. ASSUME NEW f \in Folders, NEW p \in Parents, MoveBegin(r, f, p) PROVE Goal
    <3> DEFINE row == [folders[f] EXCEPT !.parent = p]
               x == [Blank EXCEPT !.folder = f, !.entity = row,
                       !.pc = IF p = Root THEN "saving" ELSE "parent"]
    <3>1. x.pc \in {"saving", "parent"} /\ x.change = 0
      BY <1>0 DEF RequestStates
    <3>2. Answer(r, "notFound") \/ Answer(r, "badRequest") \/ Set(r, x)
      BY <2>2 DEF MoveBegin
    <3> HIDE DEF x
    <3> QED
      BY <3>1, <3>2, <1>2, <1>3 DEF Answers, Reading
  <2>3. ASSUME NEW f \in Folders, DeleteBegin(r, f) PROVE Goal
    <3> DEFINE x == [Blank EXCEPT !.pc = "deleting", !.folder = f]
    <3>1. x.pc = "deleting" /\ x.change = 0
      BY <1>0 DEF RequestStates
    <3>2. Answer(r, "notFound") \/ Set(r, x)
      BY <2>3 DEF DeleteBegin
    <3> HIDE DEF x
    <3> QED
      BY <3>1, <3>2, <1>2, <1>3 DEF Answers, Reading
  <2>4. CASE MoveFindParent(r)
    <3> DEFINE p == q.entity.parent
               x == [q EXCEPT !.pc = "climbing", !.cursor = p]
    <3>1. x.pc = "climbing" /\ x.change = q.change
      BY <1>0 DEF RequestStates
    <3>2. Answer(r, "notFound") \/ Set(r, x)
      BY <2>4 DEF MoveFindParent
    <3> HIDE DEF x
    <3> QED
      BY <3>1, <3>2, <1>2, <1>3 DEF Answers, Reading
  <2>5. CASE MoveClimb(r)
    <3> DEFINE row == folders[q.cursor]
               up == IF row = Nil THEN Root ELSE row.parent
               x == [q EXCEPT !.pc = "saving", !.cursor = Nil]
               y == [q EXCEPT !.cursor = up]
    <3>1. /\ x.pc = "saving" /\ x.change = q.change
          /\ y.pc = "climbing" /\ y.change = q.change
      BY <1>0, <2>5 DEF MoveClimb, RequestStates
    <3>2. Answer(r, "badRequest") \/ Set(r, x) \/ Set(r, y)
      BY <2>5 DEF MoveClimb
    <3> HIDE DEF x, y
    <3> QED
      BY <3>1, <3>2, <1>2, <1>3 DEF Answers, Reading
  <2>6. CASE UpdateSave(r) \/ DeleteRows(r)
    <3> DEFINE x == [q EXCEPT !.pc = "changed"]
    <3>1. x \in RequestStates /\ x.pc = "changed"
      BY <1>0 DEF RequestStates, PCs
    <3>2. Answer(r, "failed") \/ Commit(r, x)
      BY <2>6 DEF UpdateSave, DeleteRows
    <3> HIDE DEF x
    <3> QED
      BY <3>1, <3>2, <1>2, <1>4 DEF Answers, Reading
  <2> QED
    BY <1>6, <2>1, <2>2, <2>3, <2>4, <2>5, <2>6 DEF UpdateStep
<1>7. CASE LinkStep(r)
  <2>1. ASSUME NEW f \in Folders, NEW c \in Courses, AssignBegin(r, f, c) PROVE Goal
    <3> DEFINE x == [Blank EXCEPT !.pc = "linking", !.folder = f, !.course = c]
    <3>1. x.pc = "linking" /\ x.change = 0
      BY <1>0 DEF RequestStates
    <3>2. Answer(r, "notFound") \/ Answer(r, "done") \/ Set(r, x)
      BY <2>1 DEF AssignBegin
    <3> HIDE DEF x
    <3> QED
      BY <3>1, <3>2, <1>2, <1>3 DEF Answers, Reading
  <2>2. ASSUME NEW l \in Links, UnassignCourse(r, l) PROVE Goal
    <3> DEFINE x == [Blank EXCEPT !.pc = "changed"]
    <3>1. x \in RequestStates /\ x.pc = "changed"
      BY <1>0 DEF RequestStates, PCs
    <3>2. Commit(r, x)
      BY <2>2 DEF UnassignCourse
    <3> HIDE DEF x
    <3> QED
      BY <3>1, <3>2, <1>4 DEF Reading
  <2>3. CASE AssignSave(r) \/ Unlink(r)
    <3> DEFINE x == [q EXCEPT !.pc = "syncing"]
               y == [q EXCEPT !.pc = "changed"]
    <3>1. /\ x \in RequestStates /\ x.pc = "syncing"
          /\ y \in RequestStates /\ y.pc = "changed"
      BY <1>0 DEF RequestStates, PCs
    <3>2. Answer(r, "failed") \/ Commit(r, x) \/ Commit(r, y)
      BY <2>3 DEF AssignSave, Unlink
    <3> HIDE DEF x, y
    <3> QED
      BY <3>1, <3>2, <1>2, <1>4 DEF Answers, Reading
  <2>4. CASE AssignInvalidate(r)
    <3> DEFINE x == [q EXCEPT !.pc = "unlinking"]
    <3>1. x.pc = "unlinking" /\ x.change = q.change
      BY <1>0 DEF RequestStates
    <3>2. Answer(r, "done") \/ Set(r, x)
      BY <2>4 DEF AssignInvalidate
    <3> HIDE DEF x
    <3> QED
      BY <3>1, <3>2, <1>2, <1>3 DEF Answers, Reading
  <2> QED
    BY <1>7, <2>1, <2>2, <2>3, <2>4 DEF LinkStep
<1>8. CASE ChangeDone(r) \/ RequestFails(r)
  BY <1>2, <1>8 DEF ChangeDone, RequestFails, Answers
<1> QED
  BY <1>5, <1>6, <1>7, <1>8 DEF WriteStep

LEMMA FreshWrite ==
  ASSUME Typed, Fresh, NEW r \in Requests, WriteStep(r)
  PROVE  Fresh'
<1>1. Typed'
  BY TypedStep DEF WriteStep, Next
<1>2. Onward /\ trees' \subseteq trees
  BY WriteOnward
<1>3. Timely(request[r])'
  BY WriteWrites, WritingTimely
<1>4. TreesTimely'
  BY <1>1, <1>2, TreesKept
<1>5. \A other \in Requests \ {r} : request'[other] = request[other]
  BY OthersKept
<1> QED
  BY <1>1, <1>2, <1>3, <1>4, <1>5, FreshByStep

\* A hit is filed under the version of today; what a reader builds was read
\* after he began.
LEMMA FreshRead ==
  ASSUME Typed, Fresh, NEW r \in Requests, ReadStep(r)
  PROVE  Fresh'
<1> DEFINE q == request[r]
<1>0. /\ q \in RequestStates /\ Shaped(q) /\ Timely(q)
      /\ Blank \in RequestStates /\ Blank.change = 0
      /\ rev \in Nat /\ answered \in Nat /\ version \in Nat /\ answered <= rev
  BY BlankTyped DEF Typed, TypeOK, RequestsShaped, Fresh, Blank
<1>1. Typed'
  BY TypedStep DEF Next
<1>2. UNCHANGED <<rev, version, answered>>
  BY DEF ReadStep, ReadBegin, ReadCourses, ReadFolders, ReadLinks, tables
<1>3. Onward
  BY <1>0, <1>2 DEF Onward
<1>4. \A other \in Requests \ {r} : request'[other] = request[other]
  BY OthersKept
<1>5. ASSUME NEW x, Set(r, x), Timely(x) PROVE Timely(request[r])'
  BY <1>2, <1>5 DEF Set, Typed, TypeOK, Timely
<1>6. ASSUME NEW who \in Readers, ReadBegin(r, who) PROVE Fresh'
  <2> DEFINE begun == [Blank EXCEPT !.who = who, !.version = version,
                                    !.floor = answered]
             miss == [begun EXCEPT !.pc = "courses"]
  <2>0. /\ begun \in RequestStates /\ begun.who = who /\ begun.version = version
        /\ begun.floor = answered /\ begun.change = 0
    BY <1>0, <1>6 DEF RequestStates
  <2> HIDE DEF begun
  <2>1. Timely(miss)
    <3>1. /\ miss.pc = "courses" /\ miss.version = version
          /\ miss.floor = answered /\ miss.change = 0
      BY <2>0 DEF RequestStates
    <3> HIDE DEF miss
    <3> QED
      BY <1>0, <3>1 DEF Timely
  <2>2. ASSUME NEW t \in trees, t[1] = Key(version, who)
        PROVE  Timely([begun EXCEPT !.pc = "done", !.tree = t[2]])
    <3> DEFINE hit == [begun EXCEPT !.pc = "done", !.tree = t[2]]
    <3>1. /\ hit.pc = "done" /\ hit.floor = answered /\ hit.change = 0
          /\ hit.who = who /\ hit.tree = t[2]
      BY <2>0 DEF RequestStates
    <3>2. who \in Students => answered <= t[2].rev
      BY <1>0, <2>2, ReaderAssumption DEF Key, Fresh, TreesTimely
    <3> HIDE DEF hit
    <3>3. Timely(hit)
      BY <1>0, <3>1, <3>2 DEF Timely, Reading
    <3> QED
      BY <3>3 DEF hit
  <2>3. Timely(request[r])'
    <3>1. CASE Set(r, miss)
      BY <1>5, <2>1, <3>1
    <3>2. ASSUME NEW t \in trees, t[1] = Key(version, who),
                 Set(r, [begun EXCEPT !.pc = "done", !.tree = t[2]])
          PROVE  Timely(request[r])'
      BY <1>5, <2>2, <3>2
    <3> QED
      BY <1>6, <3>1, <3>2 DEF ReadBegin, begun
  <2>4. trees' = trees
    BY <1>6 DEF ReadBegin
  <2> QED
    BY <1>1, <1>3, <1>4, <2>3, <2>4, TreesKept, FreshByStep
<1>7. CASE ReadCourses(r)
  <2>1. PICK known \in SUBSET Courses :
          Set(r, [q EXCEPT !.pc = "folders", !.courses = known])
    BY <1>7 DEF ReadCourses
  <2> DEFINE x == [q EXCEPT !.pc = "folders", !.courses = known]
  <2>2. /\ x.pc = "folders" /\ x.change = q.change /\ x.version = q.version
        /\ x.floor = q.floor
    BY <1>0 DEF RequestStates
  <2>3. Set(r, x)
    BY <2>1
  <2> HIDE DEF x
  <2>4. Timely(x)
    BY <1>0, <1>7, <2>2 DEF Timely, ReadCourses, Reading
  <2>5. trees' = trees
    BY <1>7 DEF ReadCourses
  <2> QED
    BY <1>1, <1>3, <1>4, <1>5, <2>3, <2>4, <2>5, TreesKept, FreshByStep
<1>8. CASE ReadFolders(r)
  <2> DEFINE x == [q EXCEPT !.pc = "links", !.rows = folders, !.change = rev]
  <2>1. /\ x.pc = "links" /\ x.change = rev /\ x.version = q.version
        /\ x.floor = q.floor
    BY <1>0 DEF RequestStates
  <2>2. Set(r, x) /\ trees' = trees
    BY <1>8 DEF ReadFolders
  <2> HIDE DEF x
  <2>3. q.floor \in Nat /\ q.floor <= answered /\ q.pc \in Reading
    BY <1>0, <1>8 DEF ReadFolders, Timely, Reading, RequestStates
  <2>4. x.floor <= x.change
    BY <1>0, <2>1, <2>3
  <2>5. Timely(x)
    BY <1>0, <2>1, <2>3, <2>4 DEF Timely
  <2> QED
    BY <1>1, <1>3, <1>4, <1>5, <2>2, <2>5, TreesKept, FreshByStep
<1>9. CASE ReadLinks(r)
  <2> DEFINE tree == TreeFor(q.who, q.rows, links, q.courses, q.change)
             key == Key(q.version, q.who)
             x == [Blank EXCEPT !.pc = "done", !.who = q.who,
                                !.floor = q.floor, !.tree = tree]
  <2>1. trees' = Without(key) \cup {<<key, tree>>} /\ Set(r, x)
    BY <1>9 DEF ReadLinks
  <2>2. tree.rev = q.change
    BY DEF TreeFor
  <2>3. /\ q.floor <= q.change /\ q.version <= version
        /\ q.version = version => q.floor = answered
    BY <1>0, <1>9 DEF ReadLinks, Timely, Reading
  <2>4. q.who \in Students => key = <<q.version, q.who>>
    BY ReaderAssumption DEF Key
  <2>5. key[2] = q.who
    BY DEF Key
  <2> HIDE DEF tree, key
  <2>6. /\ x.pc = "done" /\ x.floor = q.floor /\ x.change = 0
        /\ x.who = q.who /\ x.tree = tree
    BY <1>0 DEF RequestStates
  <2> HIDE DEF x
  <2>7. Timely(x)
    BY <1>0, <2>2, <2>3, <2>6 DEF Timely, Reading
  <2>8. TreesTimely'
    <3> SUFFICES ASSUME NEW t \in trees', t[1][2] \in Students
                 PROVE  /\ t[1][1] <= version
                        /\ t[1][1] = version => answered <= t[2].rev
      BY <1>2 DEF TreesTimely
    <3>1. CASE t \in trees
      BY <3>1 DEF Fresh, TreesTimely
    <3>2. CASE t = <<key, tree>>
      BY <2>2, <2>3, <2>4, <2>5, <3>2
    <3> QED
      BY <2>1, <3>1, <3>2 DEF Without
  <2> QED
    BY <1>1, <1>3, <1>4, <1>5, <2>1, <2>7, <2>8, FreshByStep
<1> QED
  BY <1>6, <1>7, <1>8, <1>9 DEF ReadStep

LEMMA FreshInit == Init => Fresh
<1> SUFFICES ASSUME Init PROVE Fresh
  OBVIOUS
<1>1. ASSUME NEW r \in Requests PROVE Timely(request[r])
  BY <1>1 DEF Init, Blank, Timely, Reading
<1> QED
  BY <1>1 DEF Init, Fresh, TreesTimely

LEMMA FreshStep == Typed /\ Fresh /\ [Next]_vars => Fresh'
<1> SUFFICES ASSUME Typed, Fresh, [Next]_vars PROVE Fresh'
  OBVIOUS
<1>1. ASSUME NEW r \in Requests, WriteStep(r) \/ ReadStep(r) PROVE Fresh'
  BY <1>1, FreshWrite, FreshRead
<1>2. ASSUME NEW t \in trees, Expire(t) PROVE Fresh'
  <2>1. /\ trees' \subseteq trees
        /\ UNCHANGED <<rev, answered, version, request>>
    BY <1>2 DEF Expire, tables
  <2> QED
    BY <2>1 DEF Fresh, Timely, TreesTimely
<1>3. CASE UNCHANGED vars
  BY <1>3 DEF vars, Fresh, Timely, TreesTimely
<1> QED
  BY <1>1, <1>2, <1>3 DEF Next, WriteStep

\* A student is never served a tree older than a change of the catalogue that
\* was answered before his request began, for any number of requests that
\* fill the cache, hit it, invalidate it or fail half way.
THEOREM StudentsServedFresh == Spec => []StudentTreeFresh
<1>1. Typed /\ Fresh => StudentTreeFresh
  BY DEF Typed, TypeOK, Fresh, Timely, StudentTreeFresh, RequestStates, Trees
<1> QED
  BY <1>1, FreshInit, FreshStep, AlwaysTyped, PTL DEF Spec

-----------------------------------------------------------------------------
(* No cycle, as long as no two updates are under way together.             *)

\* Above(rows, p) is the least set that holds p and is closed.
LEMMA AboveClosed ==
  ASSUME NEW rows, NEW p \in Parents, \A g \in Present(rows) : rows[g].parent \in Parents
  PROVE  Above(rows, p) \subseteq Parents /\ p \in Above(rows, p) /\ Closed(rows, Above(rows, p))
BY DEF Above, Closed

LEMMA AboveLeast ==
  ASSUME NEW rows, NEW p, NEW set \in SUBSET Parents, p \in set, Closed(rows, set)
  PROVE  Above(rows, p) \subseteq set
BY DEF Above

\* The chain of a folder that is not there ends with it.
LEMMA AboveEnd ==
  ASSUME NEW rows, NEW p \in Parents, p \notin Present(rows)
  PROVE  Above(rows, p) = {p}
<1>1. {p} \in SUBSET Parents /\ Closed(rows, {p})
  BY DEF Closed
<1>2. Above(rows, p) \subseteq {p}
  BY <1>1, AboveLeast
<1>3. p \in Above(rows, p)
  BY DEF Above
<1> QED
  BY <1>2, <1>3

LEMMA RootEnds ==
  ASSUME NEW rows
  PROVE  Root \in Parents /\ Root \notin Present(rows) /\ Above(rows, Root) = {Root}
<1>1. Root \in Parents /\ Root \notin Present(rows)
  BY NilAssumption DEF Parents, Present
<1> QED
  BY <1>1, AboveEnd

\* Tables give every folder a parent.
LEMMA ParentsTyped ==
  ASSUME NEW rows \in Tables
  PROVE  \A g \in Present(rows) : g \in Folders /\ g \in Parents /\ rows[g] \in Rows /\ rows[g].parent \in Parents
BY DEF Tables, Rows, Present, Parents

LEMMA AboveStep ==
  ASSUME NEW rows \in Tables, NEW g \in Present(rows)
  PROVE  Above(rows, g) = {g} \cup Above(rows, rows[g].parent)
<1> DEFINE p == rows[g].parent
<1>1. p \in Parents /\ g \in Parents
  BY ParentsTyped
<1>2. Above(rows, p) \subseteq Parents /\ p \in Above(rows, p) /\ Closed(rows, Above(rows, p))
  BY <1>1, AboveClosed, ParentsTyped
<1>3. Closed(rows, {g} \cup Above(rows, p))
  BY <1>2 DEF Closed
<1>4. Above(rows, g) \subseteq {g} \cup Above(rows, p)
  BY <1>1, <1>2, <1>3, AboveLeast
<1>5. g \in Above(rows, g)
  BY <1>1, AboveClosed, ParentsTyped
<1>6. Above(rows, p) \subseteq Above(rows, g)
  BY AboveParent
<1> QED
  BY <1>4, <1>5, <1>6

LEMMA AboveAbove ==
  ASSUME NEW rows \in Tables, NEW p \in Parents, NEW g \in Above(rows, p)
  PROVE  Above(rows, g) \subseteq Above(rows, p)
<1>1. Above(rows, p) \in SUBSET Parents /\ Closed(rows, Above(rows, p))
  BY AboveClosed, ParentsTyped
<1> QED
  BY <1>1, AboveLeast

\* What is above a folder changes only with a row above it.
LEMMA AboveSame ==
  ASSUME NEW rows \in Tables, NEW new \in Tables, NEW p \in Parents,
         \A g \in Above(rows, p) \cap Folders : new[g] = rows[g]
  PROVE  Above(new, p) = Above(rows, p)
<1>1. /\ Above(rows, p) \in SUBSET Parents /\ p \in Above(rows, p) /\ Closed(rows, Above(rows, p))
      /\ Above(new, p) \in SUBSET Parents /\ p \in Above(new, p) /\ Closed(new, Above(new, p))
  BY AboveClosed, ParentsTyped
<1>2. Above(new, p) \subseteq Above(rows, p)
  <2>1. Closed(new, Above(rows, p))
    BY <1>1 DEF Closed, Present
  <2> QED
    BY <1>1, <2>1, AboveLeast
<1>3. Above(rows, p) \subseteq Above(new, p)
  <2>1. Closed(rows, Above(new, p))
    BY <1>1, <1>2 DEF Closed, Present
  <2> QED
    BY <1>1, <2>1, AboveLeast
<1> QED
  BY <1>2, <1>3

\* A folder that hangs from the root is not above its own parent: otherwise
\* the folders below itself that are above it would be closed without the root.
LEMMA NoLoop ==
  ASSUME NEW rows \in Tables, NEW g \in Present(rows), Root \in Above(rows, g)
  PROVE  g \notin Above(rows, rows[g].parent)
<1> SUFFICES ASSUME g \in Above(rows, rows[g].parent)
             PROVE  FALSE
  OBVIOUS
<1> DEFINE loop == {h \in Above(rows, g) : g \in Above(rows, h)}
<1>1. g \in Parents /\ g # Root
  BY ParentsTyped, RootEnds
<1>2. Above(rows, g) \in SUBSET Parents /\ g \in Above(rows, g) /\ Closed(rows, Above(rows, g))
  BY <1>1, AboveClosed, ParentsTyped
<1>3. ASSUME NEW h \in loop, h \in Present(rows)
      PROVE  rows[h].parent \in loop
  <2>1. rows[h].parent \in Above(rows, g)
    BY <1>2, <1>3 DEF Closed
  <2>2. h # g => g \in Above(rows, rows[h].parent)
    BY <1>3, AboveStep
  <2> QED
    BY <2>1, <2>2
<1>4. loop \in SUBSET Parents /\ g \in loop /\ Closed(rows, loop)
  BY <1>2, <1>3 DEF Closed
<1>5. Root \in loop
  BY <1>4, AboveLeast
<1> QED
  BY <1>1, <1>5, RootEnds

\* Moving a folder below one it is not above leaves every chain with its end.
LEMMA MoveKeeps ==
  ASSUME NEW rows \in Tables, \A g \in Present(rows) : Root \in Above(rows, g),
         NEW f \in Folders, NEW row \in Rows, row.parent = Root \/ row.parent \in Present(rows),
         f \notin Above(rows, row.parent), NEW new \in Tables, new = [rows EXCEPT ![f] = row]
  PROVE  \A g \in Present(new) : Root \in Above(new, g)
<1> DEFINE p == row.parent
<1>1. /\ p \in Parents /\ f \in Parents
      /\ \A g \in Folders : new[g] = IF g = f THEN row ELSE rows[g]
      /\ f \in Present(new)
  BY NilAssumption DEF Rows, Parents, Tables, Present
<1>2. Above(new, p) = Above(rows, p)
  <2>1. \A g \in Above(rows, p) \cap Folders : new[g] = rows[g]
    BY <1>1
  <2> HIDE DEF p
  <2> QED
    BY <1>1, <2>1, AboveSame
<1>3. Root \in Above(new, p)
  BY <1>2, RootEnds
<1>4. Root \in Above(new, f)
  <2>1. Above(new, f) = {f} \cup Above(new, new[f].parent)
    BY <1>1, AboveStep
  <2>2. new[f].parent = p
    BY <1>1
  <2> QED
    BY <1>3, <2>1, <2>2
<1>5. ASSUME NEW g \in Present(new), Root \notin Above(new, g)
      PROVE  FALSE
  <2>1. g \in Parents /\ g \in Present(rows)
    BY <1>1, <1>4, <1>5 DEF Present, Parents
  <2>2. Above(new, g) \in SUBSET Parents /\ g \in Above(new, g) /\ Closed(new, Above(new, g))
    BY <2>1, AboveClosed, ParentsTyped
  <2>3. f \notin Above(new, g)
    BY <1>4, <1>5, <2>1, AboveAbove
  <2>4. Closed(rows, Above(new, g))
    BY <1>1, <2>2, <2>3 DEF Closed, Present
  <2>5. Above(rows, g) \subseteq Above(new, g)
    BY <2>2, <2>4, AboveLeast
  <2> QED
    BY <1>5, <2>1, <2>5
<1> QED
  BY <1>5

Updating == {r \in Requests : request[r].pc \in Moving}

\* One update at a time, from the reading of its folder to its save; requests
\* that create and delete folders may come in between.
OneUpdate == \A r, s \in Updating : r = s

\* The folder an update writes back is another than the parent it gets; the
\* climb meets it if it is above that parent, and has not met it yet; after
\* the climb it is not above.  A parent that is gone since cannot come back.
Apart(q) ==
  /\ q.folder \in minted /\ q.entity.parent # q.folder
  /\ q.pc \in {"climbing", "saving"} => q.entity.parent \in minted \cup {Root}
  /\ q.pc = "climbing" =>
       /\ q.cursor # q.folder
       /\ q.entity.parent \in Present(folders) =>
            /\ q.cursor \in Above(folders, q.entity.parent)
            /\ q.folder \in Above(folders, q.entity.parent) => q.folder \in Above(folders, q.cursor)
  /\ q.pc = "saving" => q.folder \notin Above(folders, q.entity.parent)

MoveInv ==
  /\ NoCycle /\ Present(folders) \subseteq minted
  /\ \A r \in Requests : request[r].pc \in Moving => Apart(request[r])

LEMMA MoveInit == Init => MoveInv
<1> SUFFICES ASSUME Init PROVE MoveInv
  OBVIOUS
<1>1. NoCycle /\ Present(folders) \subseteq minted
  BY DEF Init, NoCycle
<1>2. \A r \in Requests : request[r].pc = "idle"
  BY DEF Init, Blank
<1> QED
  BY <1>1, <1>2 DEF MoveInv, Moving

\* A step that leaves the folders alone, of a request that does not update or
\* whose update is apart.
LEMMA MoveAside ==
  ASSUME Typed, MoveInv, NEW r \in Requests, NEW x, Set(r, x), UNCHANGED <<folders, minted>>,
         x.pc \notin Moving \/ Apart(x)
  PROVE  MoveInv'
<1>1. \A s \in Requests : request'[s] = IF s = r THEN x ELSE request[s]
  BY DEF Typed, TypeOK, Set
<1>2. NoCycle' /\ (Present(folders) \subseteq minted)'
  BY DEF MoveInv, NoCycle, Present, Above, Closed
<1>3. ASSUME NEW q, Apart(q)
      PROVE  Apart(q)'
  BY <1>3 DEF Apart, Present, Above, Closed
<1>4. ASSUME NEW s \in Requests, request'[s].pc \in Moving
      PROVE  Apart(request[s])'
  <2>1. Apart(request'[s])
    BY <1>1, <1>4 DEF MoveInv
  <2>2. PICK q : q = request'[s] OBVIOUS
  <2>3. Apart(q)'
    BY <1>3, <2>1, <2>2
  <2>4. q.folder \in minted' /\ q = request[s]'
    BY <2>2, <2>3 DEF Apart
  <2> QED
    BY <2>2, <2>3 DEF Apart
<1> QED
  BY <1>2, <1>4 DEF MoveInv

LEMMA AnswerAside ==
  ASSUME Typed, MoveInv, NEW r \in Requests, NEW pc \in Answers, Answer(r, pc),
         UNCHANGED <<folders, minted>>
  PROVE  MoveInv'
<1>1. PICK x : x = [Blank EXCEPT !.pc = pc] OBVIOUS
<1>2. Set(r, x) /\ x.pc = pc
  BY <1>1 DEF Answer, Blank
<1> QED
  BY <1>2, MoveAside DEF Answers, Moving

\* The folders a chain meets have been handed out: a new one is not among them.
LEMMA ChainMinted ==
  ASSUME Typed, NothingDangles, MoveInv, NEW p \in minted \cup {Root}
  PROVE  Above(folders, p) \subseteq minted \cup {Root}
<1>1. minted \cup {Root} \in SUBSET Parents
  BY RootEnds DEF Typed, TypeOK, Parents
<1>2. Closed(folders, minted \cup {Root})
  BY DEF Closed, NothingDangles, MoveInv
<1> QED
  BY <1>1, <1>2, AboveLeast

\* Whatever the folders become: an update under way goes on as long as what is
\* above its new parent does, or that parent is gone.
LEMMA ApartKept ==
  ASSUME Typed, NEW q \in RequestStates, q.pc \in Moving, q.folder \in Folders, q.entity.parent \in Parents,
         q.pc = "climbing" => q.cursor \in Parents,
         Apart(q), folders' \in Tables, minted \subseteq minted', minted \subseteq Folders,
         \A p \in minted \cup {Root} : \/ Above(folders', p) = Above(folders, p) /\ (p \in Present(folders') => p \in Present(folders))
                                       \/ p \notin Present(folders'),
         \A p \in minted \cup {Root}, g \in Parents :
           p \in Present(folders') /\ g \in Above(folders, p) => Above(folders', g) = Above(folders, g)
  PROVE  Apart(q)'
<1> DEFINE p == q.entity.parent
<1>1. q.folder \in minted' /\ p # q.folder
  BY DEF Apart
<1>2. CASE q.pc = "parent"
  BY <1>1, <1>2 DEF Apart
<1>3. CASE q.pc = "climbing"
  <2>1. p \in minted \cup {Root} /\ q.cursor # q.folder
    BY <1>3 DEF Apart
  <2>2. ASSUME p \in Present(folders')
        PROVE  /\ q.cursor \in Above(folders', p)
               /\ q.folder \in Above(folders', p) => q.folder \in Above(folders', q.cursor)
    <3>1. p \in Present(folders) /\ Above(folders', p) = Above(folders, p)
      BY <2>1, <2>2
    <3>2. q.cursor \in Above(folders, p)
      BY <1>3, <3>1 DEF Apart
    <3>3. Above(folders', q.cursor) = Above(folders, q.cursor)
      BY <1>3, <2>1, <2>2, <3>2
    <3> QED
      BY <1>3, <3>1, <3>2, <3>3 DEF Apart
  <2>3. Present(folders)' = Present(folders')
    BY DEF Present
  <2> QED
    BY <1>1, <1>3, <2>1, <2>2, <2>3 DEF Apart, Above, Closed, Present
<1>4. CASE q.pc = "saving"
  <2>1. p \in minted \cup {Root} /\ q.folder \notin Above(folders, p)
    BY <1>4 DEF Apart
  <2>2. q.folder \notin Above(folders', p)
    <3>1. CASE p \in Present(folders')
      BY <2>1, <3>1
    <3>2. CASE p \notin Present(folders')
      BY <1>1, <3>2, AboveEnd
    <3> QED
      BY <3>1, <3>2
  <2> QED
    BY <1>1, <1>4, <2>1, <2>2 DEF Apart, Above, Closed, Present
<1> QED
  BY <1>2, <1>3, <1>4 DEF Moving

\* The rows of the chains that still begin are the same as before.
LEMMA ChainsKeep ==
  ASSUME Typed, Typed', MoveInv, minted \subseteq minted',
         \A p \in minted \cup {Root} :
           p \in Present(folders') => \A g \in Above(folders, p) \cap Folders : folders'[g] = folders[g],
         NEW q \in RequestStates, Shaped(q), q.pc \in Moving, Apart(q)
  PROVE  Apart(q)'
<1>1. folders \in Tables /\ folders' \in Tables /\ minted \subseteq Folders /\ minted \cup {Root} \subseteq Parents
  BY RootEnds DEF Typed, TypeOK, Parents
<1>2. q.folder \in Folders /\ q.entity.parent \in Parents /\ (q.pc = "climbing" => q.cursor \in Parents)
  BY DEF Shaped, Rows, Parents, Moving
<1>3. ASSUME NEW p \in minted \cup {Root}, p \in Present(folders'), NEW g \in Above(folders, p)
      PROVE  Above(folders', g) = Above(folders, g)
  <2>1. g \in Parents /\ Above(folders, g) \subseteq Above(folders, p)
    BY <1>1, AboveAbove, AboveClosed, ParentsTyped
  <2>2. \A h \in Above(folders, g) \cap Folders : folders'[h] = folders[h]
    BY <1>3, <2>1
  <2> QED
    BY <1>1, <2>1, <2>2, AboveSame
<1>4. ASSUME NEW p \in minted \cup {Root}, p \in Present(folders')
      PROVE  Above(folders', p) = Above(folders, p) /\ p \in Present(folders)
  <2>1. p \in Above(folders, p) /\ p \in Folders
    BY <1>1, <1>4 DEF Above, Present
  <2>2. folders'[p] = folders[p]
    BY <1>4, <2>1
  <2> QED
    BY <1>3, <1>4, <2>1, <2>2 DEF Present
<1> QED
  BY <1>1, <1>2, <1>3, <1>4, ApartKept

\* A new folder is in no chain.
LEMMA CreateMoves ==
  ASSUME Typed, Typed', NothingDangles, MoveInv, NEW r \in Requests, CreateSave(r)
  PROVE  MoveInv'
<1>1. CASE UNCHANGED tables
  <2>1. Answer(r, "failed") \/ folders' # folders \/ minted' # minted \/ rev' # rev
    BY DEF CreateSave, Commit, Typed, TypeOK
  <2> QED
    BY <1>1, <2>1, AnswerAside DEF tables, Answers
<1>2. ASSUME NEW f \in Folders \ minted, folders' = [folders EXCEPT ![f] = NewRow(request[r].folder, request[r].seed)],
             minted' = minted \cup {f}, request[r].folder = Root \/ folders[request[r].folder] # Nil,
             Commit(r, [request[r] EXCEPT !.pc = "created", !.cursor = f])
      PROVE  MoveInv'
  <2>1. PICK row : row = NewRow(request[r].folder, request[r].seed) OBVIOUS
  <2>2. /\ row \in Rows /\ row.parent = request[r].folder
        /\ row.parent = Root \/ row.parent \in Present(folders)
    BY <1>2, <2>1 DEF CreateSave, NewRow, Rows, RequestStates, Shaped, Creating, Typed, TypeOK, RequestsShaped,
       Present, Parents
  <2>3. folders \in Tables /\ folders' \in Tables /\ folders' = [folders EXCEPT ![f] = row]
    BY <1>2, <2>1 DEF Typed, TypeOK
  <2>4. row.parent \in minted \cup {Root} /\ Present(folders) \subseteq minted
    BY <2>2 DEF MoveInv
  <2>5. f \notin Above(folders, row.parent)
    BY <1>2, <2>4, ChainMinted, NilAssumption
  <2>6. \A g \in Present(folders) : Root \in Above(folders, g)
    BY DEF MoveInv, NoCycle
  <2>7. \A g \in Present(folders') : Root \in Above(folders', g)
    BY <1>2, <2>2, <2>3, <2>5, <2>6, MoveKeeps
  <2>8. Present(folders') \subseteq minted'
    BY <1>2, <2>3, <2>4 DEF Present, Tables
  <2>9. ASSUME NEW p \in minted \cup {Root}, NEW g \in Above(folders, p) \cap Folders
        PROVE  folders'[g] = folders[g]
    <3>1. g \in minted \cup {Root}
      BY <2>9, ChainMinted
    <3> QED
      BY <1>2, <2>3, <2>9, <3>1, NilAssumption DEF Tables
  <2>10. request'[r].pc = "created" /\ \A s \in Requests \ {r} : request'[s] = request[s]
    BY <1>2 DEF Commit, Set, Typed, TypeOK, RequestStates
  <2>11. ASSUME NEW s \in Requests, request'[s].pc \in Moving
         PROVE  Apart(request[s])'
    <3>1. s # r
      BY <2>10, <2>11 DEF Moving
    <3>2. PICK q : q = request[s] OBVIOUS
    <3>3. q \in RequestStates /\ Shaped(q) /\ q.pc \in Moving /\ Apart(q)
      BY <2>10, <2>11, <3>1, <3>2 DEF Typed, TypeOK, RequestsShaped, MoveInv
    <3>4. Apart(q)'
      BY <1>2, <2>9, <3>3, ChainsKeep
    <3>5. q = request'[s]
      BY <2>10, <3>1, <3>2
    <3> QED
      BY <3>4, <3>5 DEF Apart
  <2> QED
    BY <2>7, <2>8, <2>11 DEF MoveInv, NoCycle, Above, Closed, Present
<1> QED
  BY <1>1, <1>2 DEF CreateSave

\* A deletion takes whole branches: the chain of a folder that stays, stays.
LEMMA DeleteMoves ==
  ASSUME Typed, Typed', MoveInv, NEW r \in Requests, DeleteRows(r)
  PROVE  MoveInv'
<1>1. PICK gone : gone = Branch(folders, request[r].folder) OBVIOUS
<1>2. PICK f : f = request[r].folder OBVIOUS
<1>3. /\ folders' = [g \in Folders |-> IF g \in gone THEN Nil ELSE folders[g]]
      /\ minted' = minted /\ Commit(r, [request[r] EXCEPT !.pc = "changed"])
  BY <1>1 DEF DeleteRows
<1>4. folders \in Tables /\ folders' \in Tables /\ minted \subseteq Folders
  BY DEF Typed, TypeOK
<1>5. \A g : g \in gone <=> g \in Present(folders) /\ f \in Above(folders, g)
  BY <1>1, <1>2 DEF Branch
<1>6. ASSUME NEW p \in Parents, p \notin gone, p \in Present(folders) \cup {Root}, NEW g \in Above(folders, p) \cap Folders
      PROVE  folders'[g] = folders[g]
  <2>1. CASE p = Root
    BY <1>6, <2>1, RootEnds, NilAssumption
  <2>2. CASE p # Root
    <3>1. f \notin Above(folders, p)
      BY <1>5, <1>6, <2>2
    <3>2. f \notin Above(folders, g)
      BY <1>4, <1>6, <3>1, AboveAbove
    <3> QED
      BY <1>3, <1>5, <1>6, <3>2
  <2> QED
    BY <2>1, <2>2
<1>7. ASSUME NEW p \in Present(folders')
      PROVE  p \in Parents /\ p \notin gone /\ p \in Present(folders)
  BY <1>3, <1>7 DEF Present, Parents
<1>8. \A g \in Present(folders') : Root \in Above(folders', g)
  <2> SUFFICES ASSUME NEW g \in Present(folders')
               PROVE  Root \in Above(folders', g)
    OBVIOUS
  <2>1. \A h \in Above(folders, g) \cap Folders : folders'[h] = folders[h]
    BY <1>6, <1>7
  <2>2. Above(folders', g) = Above(folders, g)
    BY <1>4, <1>7, <2>1, AboveSame
  <2> QED
    BY <1>7, <2>2 DEF MoveInv, NoCycle
<1>9. Present(folders') \subseteq minted'
  BY <1>3, <1>7 DEF MoveInv
<1>10. request'[r].pc = "changed" /\ \A s \in Requests \ {r} : request'[s] = request[s]
  BY <1>3 DEF Commit, Set, Typed, TypeOK, RequestStates
<1>11. ASSUME NEW s \in Requests, request'[s].pc \in Moving
       PROVE  Apart(request[s])'
  <2>1. s # r
    BY <1>10, <1>11 DEF Moving
  <2>2. PICK q : q = request[s] OBVIOUS
  <2>3. q \in RequestStates /\ Shaped(q) /\ q.pc \in Moving /\ Apart(q)
    BY <1>10, <1>11, <2>1, <2>2 DEF Typed, TypeOK, RequestsShaped, MoveInv
  <2>4. \A p \in minted \cup {Root} :
          p \in Present(folders') => \A g \in Above(folders, p) \cap Folders : folders'[g] = folders[g]
    BY <1>6, <1>7
  <2>5. Apart(q)'
    BY <1>3, <2>3, <2>4, ChainsKeep
  <2>6. q = request'[s]
    BY <1>10, <2>1, <2>2
  <2> QED
    BY <2>5, <2>6 DEF Apart
<1> QED
  BY <1>8, <1>9, <1>11 DEF MoveInv, NoCycle, Above, Closed, Present

\* The save of the only update: the folder is not above its new parent.
LEMMA SaveMoves ==
  ASSUME Typed, Typed', MoveInv, OneUpdate, NEW r \in Requests, UpdateSave(r)
  PROVE  MoveInv'
<1>1. PICK q : q = request[r] OBVIOUS
<1>2. q \in RequestStates /\ Shaped(q) /\ Apart(q) /\ q.pc = "saving"
  BY <1>1 DEF UpdateSave, Typed, TypeOK, RequestsShaped, MoveInv, Moving
<1>3. /\ q.folder \in Folders /\ q.entity \in Rows /\ q.folder \in minted
      /\ q.folder \notin Above(folders, q.entity.parent)
  BY <1>2 DEF Shaped, Moving, Apart
<1>4. CASE Answer(r, "failed") /\ UNCHANGED tables
  BY <1>4, AnswerAside DEF tables, Answers
<1>5. CASE /\ q.entity.parent = Root \/ folders[q.entity.parent] # Nil
           /\ folders' = [folders EXCEPT ![q.folder] = q.entity]
           /\ Commit(r, [q EXCEPT !.pc = "changed"]) /\ minted' = minted
  <2>1. folders \in Tables /\ folders' \in Tables
    BY DEF Typed, TypeOK
  <2>2. q.entity.parent = Root \/ q.entity.parent \in Present(folders)
    BY <1>3, <1>5 DEF Present, Rows, Parents
  <2>3. \A g \in Present(folders) : Root \in Above(folders, g)
    BY DEF MoveInv, NoCycle
  <2>4. \A g \in Present(folders') : Root \in Above(folders', g)
    BY <1>3, <1>5, <2>1, <2>2, <2>3, MoveKeeps
  <2>5. Present(folders') \subseteq minted'
    BY <1>3, <1>5, <2>1 DEF Present, Tables, MoveInv
  <2>6. request'[r].pc = "changed" /\ \A s \in Requests \ {r} : request'[s] = request[s]
    BY <1>2, <1>5 DEF Commit, Set, Typed, TypeOK, RequestStates
  <2>7. \A s \in Requests : request'[s].pc \notin Moving
    BY <1>1, <1>2, <2>6 DEF OneUpdate, Updating, Moving
  <2> QED
    BY <2>4, <2>5, <2>7 DEF MoveInv, NoCycle, Above, Closed, Present
<1> QED
  BY <1>1, <1>4, <1>5 DEF UpdateSave

\* The update of a field begins: a folder is not above its own parent.
LEMMA ActiveMoves ==
  ASSUME Typed, NothingDangles, MoveInv, NEW r \in Requests, NEW f \in Folders, NEW active \in BOOLEAN,
         UpdateActive(r, f, active)
  PROVE  MoveInv'
<1>0. UNCHANGED <<folders, minted>> /\ folders \in Tables
  BY DEF UpdateActive, tables, Typed, TypeOK
<1>1. CASE folders[f] = Nil
  BY <1>0, <1>1, AnswerAside DEF UpdateActive, Answers
<1>2. CASE folders[f] # Nil
  <2>1. f \in Present(folders) /\ folders[f] \in Rows
    BY <1>0, <1>2 DEF Present, Tables
  <2>2. PICK row : row = [folders[f] EXCEPT !.active = active] OBVIOUS
  <2>3. row.parent = folders[f].parent
    BY <2>1, <2>2 DEF Rows
  <2>4. PICK x : x = [Blank EXCEPT !.pc = "saving", !.folder = f, !.entity = row] OBVIOUS
  <2>5. Set(r, x)
    BY <1>2, <2>2, <2>4 DEF UpdateActive
  <2>6. x.pc = "saving" /\ x.folder = f /\ x.entity = row
    BY <2>4 DEF Blank
  <2>7. f \notin Above(folders, row.parent)
    BY <1>0, <2>1, <2>3, NoLoop DEF MoveInv, NoCycle
  <2>8. f \in minted /\ row.parent \in minted \cup {Root}
    BY <2>1, <2>3 DEF MoveInv, NothingDangles
  <2>9. row.parent # f
    <3>1. row.parent \in Above(folders, row.parent)
      BY <1>0, <2>1, <2>3, ParentsTyped, AboveClosed
    <3> QED
      BY <2>7, <3>1
  <2>10. Apart(x)
    BY <2>6, <2>7, <2>8, <2>9 DEF Apart
  <2> QED
    BY <1>0, <2>5, <2>10, MoveAside
<1> QED
  BY <1>1, <1>2

LEMMA BeginMoves ==
  ASSUME Typed, MoveInv, NEW r \in Requests, NEW f \in Folders, NEW parent \in Parents,
         MoveBegin(r, f, parent)
  PROVE  MoveInv'
<1>0. UNCHANGED <<folders, minted>> /\ folders \in Tables
  BY DEF MoveBegin, tables, Typed, TypeOK
<1>1. CASE Answer(r, "notFound") \/ Answer(r, "badRequest")
  BY <1>0, <1>1, AnswerAside DEF Answers
<1>2. CASE /\ folders[f] # Nil /\ parent # f
           /\ Set(r, [Blank EXCEPT !.folder = f, !.entity = [folders[f] EXCEPT !.parent = parent],
                                   !.pc = IF parent = Root THEN "saving" ELSE "parent"])
  <2>1. f \in Present(folders) /\ folders[f] \in Rows
    BY <1>0, <1>2 DEF Present, Tables
  <2>2. PICK row : row = [folders[f] EXCEPT !.parent = parent] OBVIOUS
  <2>3. row.parent = parent
    BY <2>1, <2>2 DEF Rows
  <2>4. PICK x : x = [Blank EXCEPT !.folder = f, !.entity = row,
                                   !.pc = IF parent = Root THEN "saving" ELSE "parent"] OBVIOUS
  <2>5. Set(r, x)
    BY <1>2, <2>2, <2>4
  <2>6. x.pc = (IF parent = Root THEN "saving" ELSE "parent") /\ x.folder = f /\ x.entity = row
    BY <2>4 DEF Blank
  <2>7. parent = Root => f \notin Above(folders, parent)
    BY <1>2, RootEnds
  <2>8. f \in minted
    BY <2>1 DEF MoveInv
  <2>9. Apart(x)
    BY <1>2, <2>3, <2>6, <2>7, <2>8 DEF Apart
  <2> QED
    BY <1>0, <2>5, <2>9, MoveAside
<1> QED
  BY <1>1, <1>2 DEF MoveBegin

LEMMA FindMoves ==
  ASSUME Typed, MoveInv, NEW r \in Requests, MoveFindParent(r)
  PROVE  MoveInv'
<1>0. UNCHANGED <<folders, minted>> /\ folders \in Tables
  BY DEF MoveFindParent, tables, Typed, TypeOK
<1>1. PICK q : q = request[r] OBVIOUS
<1>2. q \in RequestStates /\ Apart(q) /\ q.pc = "parent" /\ q.entity.parent \in Folders
  BY <1>1 DEF MoveFindParent, Typed, TypeOK, RequestsShaped, Shaped, MoveInv, Moving
<1>3. PICK p : p = q.entity.parent OBVIOUS
<1>4. CASE folders[p] = Nil
  BY <1>0, <1>1, <1>3, <1>4, AnswerAside DEF MoveFindParent, Answers
<1>5. CASE folders[p] # Nil
  <2>1. PICK x : x = [q EXCEPT !.pc = "climbing", !.cursor = p] OBVIOUS
  <2>2. Set(r, x)
    BY <1>1, <1>3, <1>5, <2>1 DEF MoveFindParent
  <2>3. x.pc = "climbing" /\ x.cursor = p /\ x.folder = q.folder /\ x.entity = q.entity
    BY <1>2, <2>1 DEF RequestStates
  <2>4. p \in Present(folders) /\ p \in Parents
    BY <1>2, <1>3, <1>5 DEF Present, Parents
  <2>5. p \in minted /\ p \in Above(folders, p)
    BY <2>4 DEF MoveInv, Above
  <2>6. Apart(x)
    BY <1>2, <1>3, <2>3, <2>5 DEF Apart
  <2> QED
    BY <1>0, <2>2, <2>6, MoveAside
<1> QED
  BY <1>4, <1>5

\* One row up: the folder above the cursor is the cursor, or above the next one.
LEMMA ClimbMoves ==
  ASSUME Typed, MoveInv, NEW r \in Requests, MoveClimb(r)
  PROVE  MoveInv'
<1>0. UNCHANGED <<folders, minted>> /\ folders \in Tables
  BY DEF MoveClimb, tables, Typed, TypeOK
<1>1. PICK q : q = request[r] OBVIOUS
<1>2. q \in RequestStates /\ Apart(q) /\ q.pc = "climbing" /\ q.cursor \in Folders
      /\ q.entity.parent \in Parents /\ q.folder \in Folders
  BY <1>1 DEF MoveClimb, Typed, TypeOK, RequestsShaped, Shaped, MoveInv, Moving, Rows
<1>3. PICK up : up = IF folders[q.cursor] = Nil THEN Root ELSE folders[q.cursor].parent OBVIOUS
<1>4. PICK p : p = q.entity.parent OBVIOUS
<1>5. /\ q.cursor # q.folder /\ p # q.folder /\ q.folder \in minted /\ p \in minted \cup {Root}
      /\ p \in Present(folders) =>
           /\ q.cursor \in Above(folders, p)
           /\ q.folder \in Above(folders, p) => q.folder \in Above(folders, q.cursor)
  BY <1>2, <1>4 DEF Apart
<1>6. q.cursor \in Parents /\ q.folder # Root
  BY <1>2, NilAssumption DEF Parents
<1>7. q.folder \in Above(folders, q.cursor) =>
        q.cursor \in Present(folders) /\ up = folders[q.cursor].parent /\ q.folder \in Above(folders, up)
  <2>1. CASE q.cursor \in Present(folders)
    <3>1. Above(folders, q.cursor) = {q.cursor} \cup Above(folders, folders[q.cursor].parent)
      BY <1>0, <2>1, AboveStep
    <3> QED
      BY <1>3, <1>5, <2>1, <3>1 DEF Present
  <2>2. CASE q.cursor \notin Present(folders)
    BY <1>5, <1>6, <2>2, AboveEnd
  <2> QED
    BY <2>1, <2>2
<1>8. CASE Answer(r, "badRequest")
  BY <1>0, <1>8, AnswerAside DEF Answers
<1>9. CASE up = Root /\ Set(r, [q EXCEPT !.pc = "saving", !.cursor = Nil])
  <2>1. PICK x : x = [q EXCEPT !.pc = "saving", !.cursor = Nil] OBVIOUS
  <2>2. x.pc = "saving" /\ x.folder = q.folder /\ x.entity = q.entity
    BY <1>2, <2>1 DEF RequestStates
  <2>3. q.folder \notin Above(folders, q.cursor)
    BY <1>6, <1>7, <1>9, RootEnds
  <2>4. q.folder \notin Above(folders, p)
    <3>1. CASE p \in Present(folders)
      BY <1>5, <2>3, <3>1
    <3>2. CASE p \notin Present(folders)
      BY <1>2, <1>4, <1>5, <3>2, AboveEnd
    <3> QED
      BY <3>1, <3>2
  <2>5. Apart(x)
    BY <1>4, <1>5, <2>2, <2>4 DEF Apart
  <2> QED
    BY <1>0, <1>9, <2>1, <2>5, MoveAside
<1>10. CASE up \notin {Root, q.folder} /\ Set(r, [q EXCEPT !.cursor = up])
  <2>1. PICK x : x = [q EXCEPT !.cursor = up] OBVIOUS
  <2>2. x.pc = "climbing" /\ x.cursor = up /\ x.folder = q.folder /\ x.entity = q.entity
    BY <1>2, <2>1 DEF RequestStates
  <2>3. q.cursor \in Present(folders) /\ up = folders[q.cursor].parent
    BY <1>2, <1>3, <1>10 DEF Present
  <2>4. up \in Above(folders, q.cursor)
    <3>1. Above(folders, q.cursor) = {q.cursor} \cup Above(folders, up)
      BY <1>0, <2>3, AboveStep
    <3>2. up \in Parents
      BY <1>0, <2>3, ParentsTyped
    <3> QED
      BY <3>1, <3>2 DEF Above
  <2>5. p \in Present(folders) => up \in Above(folders, p)
    BY <1>0, <1>2, <1>4, <1>5, <2>4, AboveAbove
  <2>6. Apart(x)
    BY <1>4, <1>5, <1>7, <1>10, <2>2, <2>5 DEF Apart
  <2> QED
    BY <1>0, <1>10, <2>1, <2>6, MoveAside
<1> QED
  BY <1>1, <1>3, <1>8, <1>9, <1>10 DEF MoveClimb

LEMMA CommitAside ==
  ASSUME Typed, MoveInv, NEW r \in Requests, NEW x \in RequestStates, Commit(r, x), x.pc \notin Moving,
         UNCHANGED <<folders, minted>>
  PROVE  MoveInv'
<1>1. PICK y : y = [x EXCEPT !.change = rev + 1] OBVIOUS
<1>2. Set(r, y) /\ y.pc = x.pc
  BY <1>1 DEF Commit, RequestStates
<1> QED
  BY <1>2, MoveAside

\* What a request that updates nothing does.
LEMMA OtherMoves ==
  ASSUME Typed, MoveInv, NEW r \in Requests,
         \/ ReadStep(r) \/ (CreateStep(r) /\ ~CreateSave(r)) \/ (\E f \in Folders : DeleteBegin(r, f))
         \/ LinkStep(r) \/ ChangeDone(r) \/ RequestFails(r)
  PROVE  MoveInv'
<1>0. UNCHANGED <<folders, minted>>
  BY DEF ReadStep, ReadBegin, ReadCourses, ReadFolders, ReadLinks, CreateStep, CreateBegin, SeedFind,
         SeedFindParent, CreateDone, DeleteBegin, LinkStep, AssignBegin, UnassignCourse, AssignSave,
         AssignInvalidate, Unlink, ChangeDone, RequestFails, tables
<1>1. PICK q : q = request[r] OBVIOUS
<1>2. q \in RequestStates /\ Blank \in RequestStates
  BY <1>1, BlankTyped DEF Typed, TypeOK
<1>3. ASSUME NEW x, Set(r, x), x.pc \notin Moving
      PROVE  MoveInv'
  BY <1>0, <1>3, MoveAside
<1>4. ASSUME NEW x \in RequestStates, Commit(r, x), x.pc \notin Moving
      PROVE  MoveInv'
  BY <1>0, <1>4, CommitAside
<1>5. ASSUME NEW pc \in Answers, Answer(r, pc)
      PROVE  MoveInv'
  BY <1>0, <1>5, AnswerAside
<1>6. CASE ReadStep(r)
  <2>1. \E x : Set(r, x) /\ x.pc \in Reading \cup {"done"}
    <3>1. ASSUME NEW who \in Readers, ReadBegin(r, who)
          PROVE  \E x : Set(r, x) /\ x.pc \in Reading \cup {"done"}
      <4>1. PICK b : b = [Blank EXCEPT !.who = who, !.version = version, !.floor = answered] OBVIOUS
      <4>2. \A tree : [b EXCEPT !.pc = "done", !.tree = tree].pc = "done"
        BY <4>1 DEF Blank
      <4>3. [b EXCEPT !.pc = "courses"].pc = "courses"
        BY <4>1 DEF Blank
      <4>4. (\E tree : Set(r, [b EXCEPT !.pc = "done", !.tree = tree])) \/ Set(r, [b EXCEPT !.pc = "courses"])
        BY <3>1, <4>1 DEF ReadBegin
      <4> QED
        BY <4>2, <4>3, <4>4 DEF Reading
    <3>2. CASE ReadCourses(r)
      <4>1. PICK known : Set(r, [q EXCEPT !.pc = "folders", !.courses = known])
        BY <1>1, <3>2 DEF ReadCourses
      <4>2. [q EXCEPT !.pc = "folders", !.courses = known].pc = "folders"
        BY <1>2 DEF RequestStates
      <4> QED
        BY <4>1, <4>2 DEF Reading
    <3>3. CASE ReadFolders(r)
      <4>1. Set(r, [q EXCEPT !.pc = "links", !.rows = folders, !.change = rev])
        BY <1>1, <3>3 DEF ReadFolders
      <4>2. [q EXCEPT !.pc = "links", !.rows = folders, !.change = rev].pc = "links"
        BY <1>2 DEF RequestStates
      <4> QED
        BY <4>1, <4>2 DEF Reading
    <3>4. CASE ReadLinks(r)
      <4>1. PICK tree : Set(r, [Blank EXCEPT !.pc = "done", !.who = q.who, !.floor = q.floor, !.tree = tree])
        BY <1>1, <3>4 DEF ReadLinks
      <4>2. [Blank EXCEPT !.pc = "done", !.who = q.who, !.floor = q.floor, !.tree = tree].pc = "done"
        BY DEF Blank
      <4> QED
        BY <4>1, <4>2
    <3> QED
      BY <1>6, <3>1, <3>2, <3>3, <3>4 DEF ReadStep
  <2> QED
    BY <1>3, <2>1 DEF Reading, Moving
<1>7. CASE CreateStep(r) /\ ~CreateSave(r)
  <2>1. ASSUME NEW p \in Parents, CreateBegin(r, p)
        PROVE  MoveInv'
    <3>1. PICK x : x = [Blank EXCEPT !.pc = "creating", !.folder = p, !.left = 1] OBVIOUS
    <3>2. x.pc = "creating"
      BY <3>1 DEF Blank
    <3>3. Answer(r, "notFound") \/ Set(r, x)
      BY <2>1, <3>1 DEF CreateBegin
    <3> QED
      BY <1>3, <1>5, <3>2, <3>3 DEF Answers, Moving
  <2>2. CASE SeedFind(r)
    <3>1. PICK x : x = [Blank EXCEPT !.pc = "creating", !.folder = Root, !.left = 3, !.seed = TRUE] OBVIOUS
    <3>2. x.pc = "creating"
      BY <3>1 DEF Blank
    <3>3. Answer(r, "done") \/ Set(r, x)
      BY <2>2, <3>1 DEF SeedFind
    <3> QED
      BY <1>3, <1>5, <3>2, <3>3 DEF Answers, Moving
  <2>3. CASE SeedFindParent(r)
    <3>1. PICK x : x = [q EXCEPT !.pc = "creating"] OBVIOUS
    <3>2. x.pc = "creating"
      BY <1>2, <3>1 DEF RequestStates
    <3>3. Answer(r, "notFound") \/ Set(r, x)
      BY <1>1, <2>3, <3>1 DEF SeedFindParent
    <3> QED
      BY <1>3, <1>5, <3>2, <3>3 DEF Answers, Moving
  <2>4. CASE CreateDone(r)
    <3>1. PICK top : top = IF q.seed THEN q.cursor ELSE q.folder OBVIOUS
    <3>2. PICK x : x = [q EXCEPT !.pc = "seeding", !.left = @ - 1, !.seed = FALSE, !.folder = top,
                                 !.cursor = Nil] OBVIOUS
    <3>3. x.pc = "seeding"
      BY <1>2, <3>2 DEF RequestStates
    <3>4. Answer(r, "done") \/ Set(r, x)
      BY <1>1, <2>4, <3>1, <3>2 DEF CreateDone
    <3> QED
      BY <1>3, <1>5, <3>3, <3>4 DEF Answers, Moving
  <2> QED
    BY <1>7, <2>1, <2>2, <2>3, <2>4 DEF CreateStep
<1>8. ASSUME NEW f \in Folders, DeleteBegin(r, f)
      PROVE  MoveInv'
  <2>1. PICK x : x = [Blank EXCEPT !.pc = "deleting", !.folder = f] OBVIOUS
  <2>2. x.pc = "deleting"
    BY <2>1 DEF Blank
  <2>3. Answer(r, "notFound") \/ Set(r, x)
    BY <1>8, <2>1 DEF DeleteBegin
  <2> QED
    BY <1>3, <1>5, <2>2, <2>3 DEF Answers, Moving
<1>9. CASE LinkStep(r)
  <2>1. ASSUME NEW f \in Folders, NEW c \in Courses, AssignBegin(r, f, c)
        PROVE  MoveInv'
    <3>1. PICK x : x = [Blank EXCEPT !.pc = "linking", !.folder = f, !.course = c] OBVIOUS
    <3>2. x.pc = "linking"
      BY <3>1 DEF Blank
    <3>3. Answer(r, "notFound") \/ Answer(r, "done") \/ Set(r, x)
      BY <2>1, <3>1 DEF AssignBegin
    <3> QED
      BY <1>3, <1>5, <3>2, <3>3 DEF Answers, Moving
  <2>2. ASSUME NEW s \in RequestStates, NEW pc \in {"changed", "syncing"}, Commit(r, [s EXCEPT !.pc = pc])
        PROVE  MoveInv'
    <3>1. PICK x : x = [s EXCEPT !.pc = pc] OBVIOUS
    <3>2. x \in RequestStates /\ x.pc = pc
      BY <3>1 DEF RequestStates, PCs
    <3> QED
      BY <1>4, <2>2, <3>1, <3>2 DEF Moving
  <2>3. CASE AssignSave(r)
    <3>1. Answer(r, "failed") \/ Commit(r, [q EXCEPT !.pc = "syncing"])
      BY <1>1, <2>3 DEF AssignSave
    <3> QED
      BY <1>2, <1>5, <2>2, <3>1 DEF Answers
  <2>4. CASE AssignInvalidate(r)
    <3>1. PICK x : x = [q EXCEPT !.pc = "unlinking"] OBVIOUS
    <3>2. x.pc = "unlinking"
      BY <1>2, <3>1 DEF RequestStates
    <3>3. Answer(r, "done") \/ Set(r, x)
      BY <1>1, <2>4, <3>1 DEF AssignInvalidate
    <3> QED
      BY <1>3, <1>5, <3>2, <3>3 DEF Answers, Moving
  <2>5. CASE Unlink(r)
    BY <1>1, <1>2, <2>2, <2>5 DEF Unlink
  <2>6. CASE \E l \in Links : UnassignCourse(r, l)
    BY <1>2, <2>2, <2>6 DEF UnassignCourse
  <2> QED
    BY <1>9, <2>1, <2>3, <2>4, <2>5, <2>6 DEF LinkStep
<1>10. CASE ChangeDone(r) \/ RequestFails(r)
  BY <1>5, <1>10 DEF ChangeDone, RequestFails, Answers
<1> QED
  BY <1>6, <1>7, <1>8, <1>9, <1>10

LEMMA MoveStep == Typed /\ NothingDangles /\ MoveInv /\ OneUpdate /\ [Next]_vars => MoveInv'
<1> SUFFICES ASSUME Typed, NothingDangles, MoveInv, OneUpdate, [Next]_vars
             PROVE  MoveInv'
  OBVIOUS
<1>0. Typed'
  BY TypedStep
<1>1. ASSUME NEW r \in Requests, UpdateStep(r)
      PROVE  MoveInv'
  BY <1>0, <1>1, ActiveMoves, BeginMoves, FindMoves, ClimbMoves, SaveMoves, DeleteMoves, OtherMoves DEF UpdateStep
<1>2. ASSUME NEW r \in Requests,
             ReadStep(r) \/ CreateStep(r) \/ LinkStep(r) \/ ChangeDone(r) \/ RequestFails(r)
      PROVE  MoveInv'
  BY <1>0, <1>2, CreateMoves, OtherMoves
<1>3. CASE (\E t \in trees : Expire(t)) \/ UNCHANGED vars
  <2>1. UNCHANGED <<folders, minted, request>>
    BY <1>3 DEF Expire, vars, tables
  <2> QED
    BY <2>1 DEF MoveInv, NoCycle, Apart, Present, Above, Closed
<1> QED
  BY <1>1, <1>2, <1>3 DEF Next

\* The check of updateFolder is right by itself: as long as no two updates are
\* under way together, every folder hangs from the root, whatever is created,
\* deleted and linked while a move climbs or waits to be saved.
THEOREM MovesOneByOne == Spec /\ []OneUpdate => []NoCycle
<1>1. MoveInv => NoCycle
  BY DEF MoveInv
<1> QED
  BY <1>1, MoveInit, MoveStep, AlwaysTyped, NothingLeftDangling, PTL DEF Spec
=============================================================================
