SPECIFICATION PartsSpec
CONSTANTS
  Phones = {p1, p2}
  Launches = {l1, l2}
  PanelSize = 1
  MaxSays = 4
  MaxLists = 3
  Urls = {u1, u2}
  NoUrl = none
  Renders = {r1, r2}
  Holders = {h1}
  MaxPuts = 1
  MaxResets = 1
  MaxRenders = 2
  MaxCacheRestarts = 1
  Posts = {c1, c2, c3}
  Nonces = {n1, n2}
  NoNonce = none
  MaxApiRestarts = 1
  HeadChecks = {}
  PageChecks = {"title"}
  LinkCheck = "link"
  AuxOrder <- MCAux
  Linkable = {"privacy"}
  ScanChecks = {"commerce"}
  Space <- MCSpace
  Budget = 2
  MaxPages = 2
  MaxLinks = 1
  PerId = 1
  ReportClaims <- MCReportClaims
  CheckOf <- MCCheckOf
  Gap <- MCGap
  Consensus <- MCConsensus
  MaxVotes = 2
  Judging = {"runs", "craft"}
  Heavy = {"runs"}
  Sponsors = {"terac"}
  Required = {"terac"}
  Autonomy = {"stall", "spend"}
  ItemClaims <- MCItemClaims
  Capabilities = 3
  Personas = 2
  Odds = {20, 50, 90}
  Respondents = {a, b}
  Sources = {local, linq}
  LastClaim = 1
  Extras = {x1, x2}
  MaxForms = 2
  MaxPageRestarts = 1
  Flows = {f1}
  Refreshers = {v1, v2}
  Redeploys = {d1}
  Intake = intake
  Never = never
  NoBugs = nobugs
  MaxTicks = 1
  MaxCalls = 3
INVARIANTS PartsTypeOK StopIsHeeded ShownIsAsked ProbedIsAsked NonceOnce ProbedIsSeen
  PassIsUncontested StampIsJudged ComparisonIsMeasured CountedOnce DeltaIsMeasured
SYMMETRY Fellows
CHECK_DEADLOCK FALSE
