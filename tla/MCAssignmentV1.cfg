SPECIFICATION MCSpec
CONSTANTS
  Supervisors = {s1,s2}
  Cleaners = {c1}
  Reports = {r1}
  Requests = {q1,q2}
  Nobody = Nobody
  NoReport = NoReport
SYMMETRY Symmetry
VIEW View
INVARIANTS AssignmentInv OrderlyRest
PROPERTIES WritesByRight OneByOneIsSequential
