SPECIFICATION Spec
CONSTANTS
  \* push
  t2 = t2  Users = {u1}  Masters = {m1}  Tokens = {t1, t2}  NoOne = NoOne  Gone = Gone
  Callers = {c1}  Deliveries = {v1}  BatchSize = 1  MaxRegistrations = 2
  \* phone
  Fingerprints = {f1}  PushTokens = {p1, p2}  NoToken = NoToken  Absent = Absent
  Notices = {n1, n2}  Readers = {r1}  Asks = {a1, a2}  MaxTime = 2
  \* photos
  d1 = d1  d2 = d2  Drafts = {d1, d2}  Inline = {d2}  PhotosOf <- DraftPhotos
  NoKey = NoKey  Missing = Missing  FirstNumber = 2  OldNumbers = {1, 3}  MaxTries <- DraftTries
  \* geo
  l1 = l1  l2 = l2  bad = bad  Landmarks = {l1, l2}  Boundaries <- Rings  Malformed = bad
  GpsPoints <- Grid  Quarters <- Distances  Radii <- LandmarkRadii  NotConfigured = NotConfigured
  \* monitor
  o1 = o1  o2 = o2  Orgs = {o1, o2}  MonReports = {1, 2}  OrgOf <- Org
  PageLimit = 1  NoOrg = NoOrg  MaxMoves = 1
  \* status board
  b1 = b1  b2 = b2  k1 = k1  BoardReports = {b1, b2}  BoardCleaners = {w1}  BoardLoads = {k1, k2}
  OtherStatuses = {"Open"}  NoTask = NoTask  MaxChanges = 1
  \* tenants
  ta = ta  q2 = q2  Tenants = {ta, tb}  NoTenant = NoTenant  ApiCalls = {q1, q2}  TenantRows = {row1}
  \* access
  x1 = x1  x2 = x2  Accounts = {x1, x2}  NoAccount = NoAccount  NoReportYet = NoReportYet
  AccessCalls = {e1}  Folders = {g1}
  \* bootstrap
  LoginIds = {"s1", "s2", "c1"}  Locations = {"A", "B"}
  SupervisorSheets <- Supervisors  CleanerSheets <- CleanerLines
  invalid = invalid  Invalid = invalid  NoAccountYet = NoAccountYet  MaxRuns = 3  MaxCards = 1
  \* migration
  UserDocs = {1, 2, 3}  NoIdNumber = {2}  CleanerDocs = {11, 12}  ReportDocs = {21}
  NoDoc = NoDoc  MaxMigrations = 2
INVARIANTS
  PushInv
  RepeatsChangeNothing
  NumbersAreFresh PhotosAreSound DraftsAreReports
  InsideIsParity NearestWhenRounded
  FiguresAgree RowsMatchFilter
  RowsUnderTile
  TenantsAreApart
  RightsHaveGround
  BootstrapInv
  RefsResolve
PROPERTIES
  RegistrationLeavesByRight BoardNotOlder
CHECK_DEADLOCK FALSE
