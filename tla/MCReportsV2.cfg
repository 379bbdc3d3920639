SPECIFICATION Spec
CONSTANTS
  sup = sup
  cl1 = cl1
  r1 = r1
  Users = {sup, cl1, cl2}
  Supervisors = {sup}
  Cleaners = {cl1, cl2}
  Reports = {r1}
  Requests = {h1, h2}
  NoUser = NoUser
  NoReport = NoReport
  NoRequest = NoRequest
  MaxSeq = 5
SYMMETRY Symmetry
INVARIANTS VersionCountsEvents WorkByAssignee NextActorNotified
PROPERTIES ImplementsLifecycle
