SPECIFICATION ReviewSpec
CONSTANTS
  sup = sup
  cl1 = cl1
  r1 = r1
  Users = {sup, sup2, cl1}
  Supervisors = {sup, sup2}
  Cleaners = {cl1}
  Reports = {r1}
  Requests = {h1, h2}
  NoUser = NoUser
  NoReport = NoReport
  NoRequest = NoRequest
  MaxSeq = 9
SYMMETRY RequestSymmetry
INVARIANTS IInv LastEventTellsStatus EvidenceHasEvent
PROPERTIES EndorsementIsFinal
