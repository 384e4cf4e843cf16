SPECIFICATION Spec
CONSTANTS
  u1 = u1
  u2 = u2
  c1 = c1
  c2 = c2
  Exams = {e1}
  Students = {u1, u2}
  Courses = {c1, c2}
  Enrolled <- MCEnrolled
  Limits <- MCLimits
  Thresholds <- MCThresholds
  Scores <- MCScores
  Submits = {s1, s2, s3}
  Edits = {a1, a2}
  Nil = Nil
INVARIANTS
  TypeOK
  NumbersContiguous
  WithinAllowance
  AcceptedOwnsNumber
  ConflictHasWinner
PROPERTIES
  StatusOnlyAdvances
  ImplementsLedger
SYMMETRY Symmetry
CHECK_DEADLOCK FALSE
