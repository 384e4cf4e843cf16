SPECIFICATION Spec
CONSTANTS
  Folders = {f1, f2}
  Courses = {c1}
  Students = {u1}
  Requests = {r1, r2, r3}
  MaxChanges = 2
  Root = Root
  Admin = Admin
  Nil = Nil
INVARIANTS
  TypeOK
  StudentTreeFresh
  NothingDangles
SYMMETRY Symmetry
CHECK_DEADLOCK FALSE
