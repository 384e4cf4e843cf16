SPECIFICATION Spec
CONSTANTS
  Days = {d1}
  Students = {u1, u2}
  Requests = {r1, r2, r3, r4}
  Nil = Nil
INVARIANTS
  TypeOK
  CloseCoversRoster
PROPERTIES
  RecordsOnlyByMarks
SYMMETRY Symmetry
