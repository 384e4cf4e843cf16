SPECIFICATION Spec
CONSTANTS
  program = program
  level = level
  s1 = s1
  s2 = s2
  Folders = {program, level}
  Parent <- MCParent
  Shifts = {s1, s2}
  FolderOf <- MCFolderOf
  Users = {u1}
  Courses = {c1}
  Requests = {r1, r2, r3}
  Nil = Nil
INVARIANTS
  TypeOK
  MembersHaveCourses
PROPERTIES
  UndoSparesOthers
SYMMETRY Symmetry
CHECK_DEADLOCK FALSE
