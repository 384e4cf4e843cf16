SPECIFICATION Spec
CONSTANTS
  Folders = {f1, f2}
  Courses = {c1}
  Students = {}
  Requests = {r1, r2}
  MaxChanges = 2
  Root = Root
  Admin = Admin
  Nil = Nil
INVARIANT NoCycle
SYMMETRY Symmetry
CHECK_DEADLOCK FALSE
