SPECIFICATION Spec
CONSTANTS
  t1 = t1  t2 = t2  f1 = f1  f2 = f2  p1 = p1  p2 = p2
  r1 = r1  r2 = r2  q1 = q1  e1 = e1  e2 = e2
  Tasks = {t1, t2}
  Forums = {f1, f2}
  Pages = {p1, p2}
  Files = {r1, r2}
  Quizzes = {q1}
  Exams = {e1, e2}
  AllExams = AllExams
  Courses <- MCCourses
  MaxAttempts = 2
  Groups = 3
  Slots = 2
  MaxSteps = 6
  None = None
INVARIANTS
  TypeOK
  ShownBelongsToOpen
  BadgeIsStored
  OnePressOneWrite
  AttemptsNotOverstated
  ConfirmIsForThisTaking
  RevokedIsRefetched
PROPERTIES
  LoadingEnds
CHECK_DEADLOCK FALSE
