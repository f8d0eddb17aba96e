SPECIFICATION ServingSpec
CONSTANTS
  Components <- MCComponents
  Callers = {c1, c2, c3}
  Second = 3
  SlowInterval = 4
  RouteLimit = 2
  ApiLimit = 0
  HighLimit = 1
  RLMaxTime = 5
  InitialWindow = 3
  InitialLimit = 2
  MinWindow = 1
  MaxWindow = 6
  MaxLimit = 4
  MaxHistory = 4
  MaxDetections = 3
  Enough = 3
  Sample = 4
  ManySuccesses = 1
  MaxReports = 4
  Searches = {search1}
  Fallbacks <- MCFallbacks
  RarbgMirrors <- MCRarbgMirrors
  Hosts = {"yts.gg", "yts.am"}
  Configured = Configured
  MaxReloads = 1
  HttpRequestIds = {r1, r2}
  MaxFrames = 1
  MaxFrame = 2
  TaskNames = {n1, n2}
  MaxRecords = 4
  ChunkLengths = {2, 3}
  MaxFileLength = 2
  MaxFiles = 3
  SharedNames = FALSE
  Profiles = {s1, s2}
  Accounts = {u1, u2}
  HttpCalls = {call1, call2}
  CookieLimit = 1
  MaxRotations = 2
  Players = {p1, p2}
  FileLength = 3
  RangeHeaders <- MCRangeHeaders
  SourceTable <- MCSourceTable
  Qualities = {"auto", "hd", "sd"}
  Keys = {k1}
  Verifications = {v1, v2}
  TTLs = {1, 3}
  Salts = {a, b}
  MaxTTL = 3
  MaxKeyTime = 7
  NoRow = NoRow
  NoVerification = NoVerification
SYMMETRY MCSymmetry
INVARIANTS
  ServingTypeOK
  AdmissionsSpaced
  EstimatesUsable
  MirrorInStep
  OneVerdict
  OnlyStragglersWork
  ReadsWhatWasPut
  BrowserKeepsItsSessions
  StreamsSendWhatWasAsked
PROPERTIES
  CacheLagBounded
CHECK_DEADLOCK FALSE
