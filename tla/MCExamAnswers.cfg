SPECIFICATION FairSpec
CONSTANTS
  u1 = u1
  u2 = u2
  c1 = c1
  c2 = c2
  Exams = {e1}
  Students = {u1}
  Courses = {c1, c2}
  Enrolled <- MCEnrolled
  Limits <- MCLimits
  Thresholds <- MCThresholds
  Scores <- MCScores
  Submits = {s1, s2, s3}
  Edits = {a1}
  Nil = Nil
PROPERTIES
  SubmitsAnswered
CHECK_DEADLOCK FALSE
