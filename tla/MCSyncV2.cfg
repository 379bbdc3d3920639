SPECIFICATION SyncFairSpec
CONSTANTS
  sup = sup
  cl1 = cl1
  r1 = r1
  r2 = r2
  Users = {sup, cl1}
  Supervisors = {sup}
  Cleaners = {cl1}
  Admins = {}
  Reports = {r1}
  Requests = {h1, h2}
  NoUser = NoUser
  NoReport = NoReport
  NoRequest = NoRequest
  AllReports = AllReports
  MaxSeq = 3
  PageSize = 2
  Feeds <- ReportFeeds

INVARIANTS ReportFeedComplete
PROPERTIES PagesAreExact FeedCatchesUp
