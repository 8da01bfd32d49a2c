SPECIFICATION RequestsSpec
CONSTANTS
  outsider = outsider
  holder = holder
  boss = boss
  u1 = u1
  s1 = s1
  m1 = m1
  v1 = v1
  p1 = p1
  p2 = p2
  l1 = l1
  l2 = l2
  t1 = t1
  t2 = t2
  \* Contests
  Users = {outsider, holder, boss}
  Staff = {boss}
  Members = {outsider}
  CodeHolders = {holder}
  Banned = {}
  Problems = {"p"}
  Limit = 1
  TimeLimit = 1
  FirstRows <- MCRows
  Edits <- MCEdits
  Wants <- MCWants
  Requests <- MCTasks
  Horizon = 2
  MaxEntries = 2
  MaxEdits = 2
  \* SubmissionDesk
  DeskUsers = {u1, s1, m1, v1}
  DeskStaff = {s1}
  Maintainers <- MCMaintainers
  Accessible <- MCAccessible
  Contending <- MCContending
  DeskProblems = {p1, p2}
  Packaged = {p1}
  Languages = {l1, l2}
  Enabled = {l1}
  LanguagesOf <- MCLanguagesOf
  RowLimit <- MCRowLimit
  RowWindow = 1
  Retention = 1
  DeskTasks <- MCTasks
  Nobody = Nobody
  MaxRows = 3
  MaxTokens = 2
  MaxSettings = 3
  \* Accounts
  AccountTasks <- MCTasks
  Feeds = {"f"}
  AccessTicks = 2
  RefreshTicks = 3
  MaxLogins = 2
  MaxChanges = 3
  \* Community
  Authors = {"a", "b"}
  Writers <- MCTasks
  MaxSegment = 2
  MaxDepth = 2
  MaxActs = 4
  MaxVotes = 2
  \* PackageRegistry
  Digests = {"d1", "d2", "d3"}
  PackageTasks <- MCTasks
  Free = Free
  MaxRequests = 4
  \* Organizations
  OrgUsers = {"boss", "ann", "bob"}
  OrgStaff = {"boss"}
  OrgRequests <- MCTasks
  MaxJoins = 2
  \* Pages
  Readers = {"guest", "boss", "author", "tester", "ann"}
  Guest = "guest"
  PageStaff = {"boss"}
  Author = "author"
  Testers = {"tester"}
  Nothing = Nothing
  \* LegacyBridge
  Names = {"j", "k"}
  Connections = {"c1", "c2", "c3"}
  NameOf <- MCNameOf
  Able = {"j"}
  Submissions = {"s"}
  None = None
  \* RateLimit
  ApiRequests <- MCTasks
  ApiLimit = 2
  ApiWindow = 2
  LimitHorizon = 5
  MaxCount = 3
  Missing = Missing
SYMMETRY Symmetry
CHECK_DEADLOCK FALSE
INVARIANTS
  LimitHolds
  NoBootstrap
  ScheduleValid
  RateBounded
  DeadTokensStayDead
  ViewsAgree
  RevokedStaysRevoked
  BannedIsCutOff
  ScoreIsSumOfVotes
  OwnPlaces
  OneActivePackage
  NoPreview
  Membership
  RegistryIsLive
