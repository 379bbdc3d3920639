SPECIFICATION ReliableSpec
CONSTANTS
  Supervisors = {s1}
  Cleaners = {c1,c2}
  Reports = {r1}
  Requests = {q1,q2}
  Nobody = Nobody
  NoReport = NoReport
SYMMETRY Symmetry
INVARIANTS ResolvedFreesCleaners
