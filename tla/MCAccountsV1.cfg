SPECIFICATION MCSpec
CONSTANTS
  IdNumbers = {i1,i2}
  Usernames = {m1,m2}
  Subs = {g1,g2}
  Emails = {e1,e2}
  Requests = {q1,q2}
  NoAccount = NoAccount
  NoEmail = NoEmail
  NoSub = NoSub
  MaxVersion = 1
SYMMETRY Symmetry
INVARIANTS AccountsInv LogoutEndsSessions
PROPERTIES MastersInviteMasters
