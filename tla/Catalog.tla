------------------------------- MODULE Catalog -------------------------------
(***************************************************************************)
(* The course catalogue (courses-catalog.service.ts): folders in a tree,   *)
(* links from folders to Moodle courses, and the trees served from the     *)
(* in-memory cache of the process.                                         *)
(*                                                                         *)
(* A handler is cut at its awaits on PostgreSQL and Moodle.  An await on   *)
(* the in-memory cache settles before any answer of the two is processed,  *)
(* so a run of cache operations belongs to the step before or after it.    *)
(***************************************************************************)
EXTENDS Naturals, FiniteSets

CONSTANTS
  Folders,      \* ids of course_folders
  Courses,      \* Moodle course ids
  Students,     \* Moodle user ids that read their tree
  Requests,     \* HTTP requests
  MaxChanges,   \* bound: committed changes of the two tables in a behaviour
  Root,         \* the parent of a top-level folder (NULL)
  Admin,        \* the reader of the administrators' tree
  Nil

ASSUME ReaderAssumption == Admin \notin Students
ASSUME MaxChangesAssumption == MaxChanges \in Nat

VARIABLES
  folders,    \* [Folders -> row or Nil]
  minted,     \* ids the sequence has handed out
  links,      \* rows of course_folder_links
  version,    \* cache: courses:tree:version
  trees,      \* cache: the trees, by key
  request,    \* the requests and their locals
  rev,        \* history: changes committed so far
  answered    \* history: the newest change whose request has answered

vars == <<folders, minted, links, version, trees, request, rev, answered>>
tables == <<folders, minted, links, rev>>

Readers == Students \cup {Admin}
Parents == Folders \cup {Root}
Rows == [parent: Parents, active: BOOLEAN, seed: BOOLEAN]
ASSUME NilAssumption == /\ Root \notin Folders
                        /\ Nil \notin Folders /\ Nil \notin Rows /\ Nil \notin Students
Tables == [Folders -> Rows \cup {Nil}]
Links == Folders \X Courses

\* What a tree shows, with the number of the last change it was built from.
Trees == [rev: Nat, folders: SUBSET Folders, links: SUBSET Links]

\* The student's key carries the version, the administrators' does not.
\* The cache holds pairs of a key and a tree.
Keys == Nat \X Readers
KeyUnversioned(v, who) == <<0, who>>
Key(v, who) == IF who = Admin THEN <<0, Admin>> ELSE <<v, who>>

Answers == {"done", "notFound", "badRequest", "failed"}
PCs == Answers \cup {"idle", "courses", "folders", "links",
                     "creating", "created", "seeding", "parent", "climbing", "saving",
                     "deleting", "linking", "syncing", "unlinking", "changed"}

RequestStates ==
  [pc: PCs, who: Readers \cup {Nil}, version: Nat, floor: Nat,
   courses: SUBSET Courses, rows: Tables \cup {Nil}, tree: Trees \cup {Nil},
   folder: Parents \cup {Nil}, cursor: Parents \cup {Nil},
   entity: Rows \cup {Nil}, course: Courses \cup {Nil},
   left: 0..3, seed: BOOLEAN, change: Nat]

TypeOK ==
  /\ folders \in Tables
  /\ minted \subseteq Folders
  /\ links \subseteq Links
  /\ version \in Nat
  /\ trees \subseteq Keys \X Trees
  /\ request \in [Requests -> RequestStates]
  /\ rev \in Nat /\ answered \in Nat

-----------------------------------------------------------------------------
(* Trees of rows.                                                          *)

Present(rows) == {f \in Folders : rows[f] # Nil}

\* f and the folders above it, Root included when the chain ends there: what
\* is in every set that holds f and the parents of its folders.
Closed(rows, set) == \A g \in set \cap Present(rows) : rows[g].parent \in set
Above(rows, f) ==
  {p \in Parents : \A set \in SUBSET Parents : f \in set /\ Closed(rows, set) => p \in set}

\* ON DELETE CASCADE on parentId and folderId: the folder and everything below it.
BranchAlone(rows, f) == {f} \cap Present(rows)
Branch(rows, f) == {g \in Present(rows) : f \in Above(rows, g)}

\* buildTree: folders whose chain of active folders ends at the root.
Visible(rows) ==
  {f \in Present(rows) : /\ Root \in Above(rows, f)
                         /\ \A g \in Above(rows, f) \ {Root} : rows[g].active}

\* pruneEmptyFolders: those with a course in them or below them.
Pruned(rows, shown, placed) ==
  {f \in shown : \E l \in placed : l[1] \in shown /\ f \in Above(rows, l[1])}

TreeFor(who, rows, placed, courses, n) ==
  LET shown == Visible(rows)
      kept == {l \in placed : l[1] \in shown /\ l[2] \in courses}
  IN [rev |-> n, links |-> kept,
      folders |-> IF who = Admin THEN shown ELSE Pruned(rows, shown, kept)]

-----------------------------------------------------------------------------
Blank == [pc |-> "idle", who |-> Nil, version |-> 0, floor |-> 0,
          courses |-> {}, rows |-> Nil, tree |-> Nil, folder |-> Nil,
          cursor |-> Nil, entity |-> Nil, course |-> Nil, left |-> 0,
          seed |-> FALSE, change |-> 0]

Init ==
  /\ folders \in Tables
  /\ \A f \in Present(folders) : Root \in Above(folders, f) /\ ~folders[f].seed
  /\ minted = Present(folders)
  /\ links \in SUBSET {l \in Links : folders[l[1]] # Nil}
  /\ version = 0
  /\ trees = {}
  /\ request = [r \in Requests |-> Blank]
  /\ rev = 0 /\ answered = 0

Set(r, state) == request' = [request EXCEPT ![r] = state]
Answer(r, pc) == Set(r, [Blank EXCEPT !.pc = pc])

\* A statement that changes a table, kept in the request until it answers.
Commit(r, state) ==
  /\ rev < MaxChanges
  /\ rev' = rev + 1
  /\ Set(r, [state EXCEPT !.change = rev + 1])

Acknowledge(r) ==
  answered' = IF request[r].change > answered THEN request[r].change ELSE answered

\* What the cache holds under other keys than k.
Without(k) == {t \in trees : t[1] # k}

InvalidateTreeCache ==
  /\ trees' = Without(Key(0, Admin))
  /\ version' = version + 1

-----------------------------------------------------------------------------
(* getTreeForStudent, getTreeForAdmin.                                     *)

\* Look the tree up under the version found; a hit answers at once.
ReadBegin(r, who) ==
  /\ request[r].pc = "idle"
  /\ LET hits == {t \in trees : t[1] = Key(version, who)}
         begun == [Blank EXCEPT !.who = who, !.version = version,
                                !.floor = answered]
     IN \/ \E t \in hits : Set(r, [begun EXCEPT !.pc = "done", !.tree = t[2]])
        \/ hits = {} /\ Set(r, [begun EXCEPT !.pc = "courses"])
  /\ UNCHANGED <<tables, version, trees, answered>>

\* findAllForUser or findAll: what Moodle says now or said up to 90 s ago.
ReadCourses(r) ==
  /\ request[r].pc = "courses"
  /\ \E known \in SUBSET Courses :
       Set(r, [request[r] EXCEPT !.pc = "folders", !.courses = known])
  /\ UNCHANGED <<tables, version, trees, answered>>

ReadFolders(r) ==
  /\ request[r].pc = "folders"
  /\ Set(r, [request[r] EXCEPT !.pc = "links", !.rows = folders,
                               !.change = rev])
  /\ UNCHANGED <<tables, version, trees, answered>>

\* The links are a second query; then build, prune, store and answer.
ReadLinks(r) ==
  /\ request[r].pc = "links"
  /\ LET q == request[r]
         tree == TreeFor(q.who, q.rows, links, q.courses, q.change)
         key == Key(q.version, q.who)
     IN /\ trees' = Without(key) \cup {<<key, tree>>}
        /\ Set(r, [Blank EXCEPT !.pc = "done", !.who = q.who,
                                !.floor = q.floor, !.tree = tree])
  /\ UNCHANGED <<tables, version, answered>>

-----------------------------------------------------------------------------
(* createFolder, alone or from seedDefaultFolders, which creates a root    *)
(* and, one after the other, two folders in it.                            *)

NewRowBare(parent, seed) == [parent |-> parent, seed |-> seed]
NewRow(parent, seed) == [parent |-> parent, active |-> TRUE, seed |-> seed]

CreateBegin(r, parent) ==
  /\ request[r].pc = "idle"
  /\ IF parent # Root /\ folders[parent] = Nil
     THEN Answer(r, "notFound")
     ELSE Set(r, [Blank EXCEPT !.pc = "creating", !.folder = parent,
                               !.left = 1])
  /\ UNCHANGED <<tables, version, trees, answered>>

SeedFind(r) ==
  /\ request[r].pc = "idle"
  /\ IF \E f \in Present(folders) : folders[f].seed
     THEN Answer(r, "done")
     ELSE Set(r, [Blank EXCEPT !.pc = "creating", !.folder = Root,
                               !.left = 3, !.seed = TRUE])
  /\ UNCHANGED <<tables, version, trees, answered>>

\* The foreign key refuses a parent that is gone.
CreateSave(r) ==
  /\ request[r].pc = "creating"
  /\ LET parent == request[r].folder IN
     IF parent # Root /\ folders[parent] = Nil
     THEN Answer(r, "failed") /\ UNCHANGED tables
     ELSE \E f \in Folders \ minted :
            /\ minted' = minted \cup {f}
            /\ folders' = [folders EXCEPT ![f] = NewRow(parent, request[r].seed)]
            /\ Commit(r, [request[r] EXCEPT !.pc = "created",
                                            !.cursor = f])
            /\ UNCHANGED links
  /\ UNCHANGED <<version, trees, answered>>

\* Invalidate and answer, or go on to the next seed folder: its parent is the
\* root just created, which is looked up again.
CreateDone(r) ==
  /\ request[r].pc = "created"
  /\ InvalidateTreeCache
  /\ Acknowledge(r)
  /\ LET q == request[r]
         top == IF q.seed THEN q.cursor ELSE q.folder
     IN IF q.left = 1 THEN Answer(r, "done")
        ELSE Set(r, [q EXCEPT !.pc = "seeding", !.left = @ - 1, !.seed = FALSE,
                              !.folder = top, !.cursor = Nil])
  /\ UNCHANGED tables

SeedFindParent(r) ==
  /\ request[r].pc = "seeding"
  /\ IF folders[request[r].folder] = Nil
     THEN Answer(r, "notFound")
     ELSE Set(r, [request[r] EXCEPT !.pc = "creating"])
  /\ UNCHANGED <<tables, version, trees, answered>>

-----------------------------------------------------------------------------
(* updateFolder.  A patch sets one field; the entity keeps the others as   *)
(* they were loaded.                                                       *)

UpdateActive(r, f, active) ==
  /\ request[r].pc = "idle"
  /\ IF folders[f] = Nil THEN Answer(r, "notFound")
     ELSE Set(r, [Blank EXCEPT !.pc = "saving", !.folder = f,
                               !.entity = [folders[f] EXCEPT !.active = active]])
  /\ UNCHANGED <<tables, version, trees, answered>>

MoveBegin(r, f, parent) ==
  /\ request[r].pc = "idle"
  /\ LET moved == [folders[f] EXCEPT !.parent = parent] IN
       \/ folders[f] = Nil /\ Answer(r, "notFound")
       \/ folders[f] # Nil /\ parent = f /\ Answer(r, "badRequest")
       \/ /\ folders[f] # Nil /\ parent # f
          /\ Set(r, [Blank EXCEPT !.folder = f, !.entity = moved,
                       !.pc = IF parent = Root THEN "saving" ELSE "parent"])
  /\ UNCHANGED <<tables, version, trees, answered>>

\* ensureFolder of the new parent.
MoveFindParent(r) ==
  /\ request[r].pc = "parent"
  /\ LET p == request[r].entity.parent IN
     IF folders[p] = Nil THEN Answer(r, "notFound")
     ELSE Set(r, [request[r] EXCEPT !.pc = "climbing", !.cursor = p])
  /\ UNCHANGED <<tables, version, trees, answered>>

\* isDescendant, one row per query: stop above the root or at a row that is
\* gone, refuse at the folder being moved, climb otherwise.
MoveClimb(r) ==
  /\ request[r].pc = "climbing"
  /\ LET q == request[r]
         row == folders[q.cursor]
         up == IF row = Nil THEN Root ELSE row.parent
     IN \/ up = q.folder /\ Answer(r, "badRequest")
        \/ up = Root /\ Set(r, [q EXCEPT !.pc = "saving", !.cursor = Nil])
        \/ up \notin {Root, q.folder} /\ Set(r, [q EXCEPT !.cursor = up])
  /\ UNCHANGED <<tables, version, trees, answered>>

\* save() writes the whole entity, and inserts it again when the row is gone.
UpdateSave(r) ==
  /\ request[r].pc = "saving"
  /\ LET q == request[r] IN
     IF q.entity.parent # Root /\ folders[q.entity.parent] = Nil
     THEN Answer(r, "failed") /\ UNCHANGED tables
     ELSE /\ folders' = [folders EXCEPT ![q.folder] = q.entity]
          /\ Commit(r, [q EXCEPT !.pc = "changed"])
          /\ UNCHANGED <<minted, links>>
  /\ UNCHANGED <<version, trees, answered>>

-----------------------------------------------------------------------------
(* deleteFolder, assignCourse, unassignCourse.                             *)

DeleteBegin(r, f) ==
  /\ request[r].pc = "idle"
  /\ IF folders[f] = Nil THEN Answer(r, "notFound")
     ELSE Set(r, [Blank EXCEPT !.pc = "deleting", !.folder = f])
  /\ UNCHANGED <<tables, version, trees, answered>>

DeleteRows(r) ==
  /\ request[r].pc = "deleting"
  /\ LET gone == Branch(folders, request[r].folder) IN
       /\ folders' = [f \in Folders |-> IF f \in gone THEN Nil ELSE folders[f]]
       /\ links' = {l \in links : l[1] \notin gone}
       /\ Commit(r, [request[r] EXCEPT !.pc = "changed"])
  /\ UNCHANGED <<minted, version, trees, answered>>

AssignBegin(r, f, c) ==
  /\ request[r].pc = "idle"
  /\ \/ folders[f] = Nil /\ Answer(r, "notFound")
     \/ folders[f] # Nil /\ <<f, c>> \in links /\ Answer(r, "done")
     \/ /\ folders[f] # Nil /\ <<f, c>> \notin links
        /\ Set(r, [Blank EXCEPT !.pc = "linking", !.folder = f, !.course = c])
  /\ UNCHANGED <<tables, version, trees, answered>>

\* The index on (folderId, moodleCourseId) and the foreign key may refuse.
AssignSave(r) ==
  /\ request[r].pc = "linking"
  /\ LET l == <<request[r].folder, request[r].course>> IN
     IF l \in links \/ folders[l[1]] = Nil
     THEN Answer(r, "failed") /\ UNCHANGED tables
     ELSE /\ links' = links \cup {l}
          /\ Commit(r, [request[r] EXCEPT !.pc = "syncing"])
          /\ UNCHANGED <<folders, minted>>
  /\ UNCHANGED <<version, trees, answered>>

\* Invalidate, then let syncCourseToExistingMembers run (RosterSync): on an
\* error the link is deleted by its id.
AssignInvalidate(r) ==
  /\ request[r].pc = "syncing"
  /\ InvalidateTreeCache
  /\ Acknowledge(r)
  /\ \/ Answer(r, "done")
     \/ Set(r, [request[r] EXCEPT !.pc = "unlinking"])
  /\ UNCHANGED tables

Unlink(r) ==
  /\ request[r].pc = "unlinking"
  /\ links' = links \ {<<request[r].folder, request[r].course>>}
  /\ Commit(r, [request[r] EXCEPT !.pc = "changed"])
  /\ UNCHANGED <<folders, minted, version, trees, answered>>

UnassignCourse(r, l) ==
  /\ request[r].pc = "idle"
  /\ l \in links
  /\ links' = links \ {l}
  /\ Commit(r, [Blank EXCEPT !.pc = "changed"])
  /\ UNCHANGED <<folders, minted, version, trees, answered>>

\* invalidateTreeCache after an update, a deletion or an unlinking; answer.
ChangeDone(r) ==
  /\ request[r].pc = "changed"
  /\ InvalidateTreeCache
  /\ Acknowledge(r)
  /\ Answer(r, "done")
  /\ UNCHANGED tables

-----------------------------------------------------------------------------
\* An await throws: what was committed stays, without an invalidation.
RequestFails(r) ==
  /\ request[r].pc \notin Answers \cup {"idle"}
  /\ Answer(r, "failed")
  /\ UNCHANGED <<tables, version, trees, answered>>

\* TREE_TTL_MS: a tree is dropped; the version is stored without expiry.
Expire(t) ==
  /\ trees' = trees \ {t}
  /\ UNCHANGED <<tables, version, request, answered>>

ReadStep(r) ==
  \/ \E who \in Readers : ReadBegin(r, who)
  \/ ReadCourses(r) \/ ReadFolders(r) \/ ReadLinks(r)

CreateStep(r) ==
  \/ \E p \in Parents : CreateBegin(r, p)
  \/ SeedFind(r) \/ SeedFindParent(r) \/ CreateSave(r) \/ CreateDone(r)

UpdateStep(r) ==
  \/ \E f \in Folders : \/ \E active \in BOOLEAN : UpdateActive(r, f, active)
                        \/ \E p \in Parents : MoveBegin(r, f, p)
                        \/ DeleteBegin(r, f)
  \/ MoveFindParent(r) \/ MoveClimb(r) \/ UpdateSave(r) \/ DeleteRows(r)

LinkStep(r) ==
  \/ \E f \in Folders, c \in Courses : AssignBegin(r, f, c)
  \/ \E l \in Links : UnassignCourse(r, l)
  \/ AssignSave(r) \/ AssignInvalidate(r) \/ Unlink(r)

Next ==
  \/ \E r \in Requests : \/ ReadStep(r) \/ CreateStep(r) \/ UpdateStep(r)
                         \/ LinkStep(r) \/ ChangeDone(r) \/ RequestFails(r)
  \/ \E t \in trees : Expire(t)

Spec == Init /\ [][Next]_vars

-----------------------------------------------------------------------------
(* Properties.                                                             *)

\* A student whose request began after a change of the catalogue was answered
\* is served a tree built from that change, though trees are cached for 90 s,
\* filled by requests that began before the change, and looked up by others
\* that began after it.
StudentTreeFresh ==
  \A r \in Requests :
    (request[r].pc = "done" /\ request[r].who \in Students)
      => request[r].tree.rev >= request[r].floor

\* A deleted folder leaves nothing behind: every folder hangs from a folder
\* that exists, and so does every link, through moves, late saves of folders
\* already deleted, and links saved while their folder goes.
NothingDangles ==
  /\ \A f \in Present(folders) : folders[f].parent \in Present(folders) \cup {Root}
  /\ \A l \in links : l[1] \in Present(folders)

\* updateFolder refuses a move that would make a cycle ("No se puede mover:
\* crearia un ciclo en el arbol"), so that every folder hangs from the root.
NoCycle == \A f \in Present(folders) : Root \in Above(folders, f)
=============================================================================
