SPECIFICATION Spec
CONSTANTS
  Windows = {w1, w2}
  Period = 2
  Ahead = 1
  Student = 1
  First = 2
  MaxContents = 3
  MaxPresses = 3
  MaxLate = 1
  MaxTime = 4
  None = None
INVARIANTS
  TypeOK
  StreakIsTheRun
  OneBiteADay
PROPERTIES
  DoneMeansToday
  PromiseKept
SYMMETRY Symmetry
CHECK_DEADLOCK FALSE
