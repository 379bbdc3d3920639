SPECIFICATION Spec
CONSTANTS
  Users = {u1,u2}
  Devices = {d1}
  Sessions = {s1,s2,s3}
  Requests = {h1,h2}
  NoUser = NoUser
  NoDevice = NoDevice
  NoSession = NoSession
  MaxTime = 2
SYMMETRY Symmetry
INVARIANTS SessionInv NewestTokenRefreshes
PROPERTIES RevokedForGood
