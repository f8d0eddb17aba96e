SPECIFICATION CataloguingSpec
CONSTANTS
  Components <- MCComponents
  SMovies = {1}
  Hashes = {1}
  Visitors = {v1, v2}
  BatchSize = 1
  Characters = {"a", "(", ")"}
  NameLength = 5
  MaxMatches = 2
  Kinds = 2
  Titles = {m1}
  Day = 2
  WindowDays = 2
  Ttl = 2
  MaxTime = 6
  MaxChanges = 2
  Shows = {1, 2}
  MaxEpisodes = 2
  Greedy = FALSE
  ListVisitors = {lv1, lv2}
  PageCount = 4
  PageLimit = 3
  MissingPages = {2}
  TraktMembers = {u1, u2}
  Slugs = {slug1, slug2}
  MaxRows = 2
  ytsUrl = ytsUrl
  securityKey = securityKey
  Variables = {ytsUrl, securityKey}
  Secrets = {}
  Generated = {securityKey}
  ReadOnce = {securityKey}
  Updates = {put1, put2}
  Restartable = {"YTS", "SOURCE"}
  ServiceOf <- MCServiceOf
  Environments <- MCEnvironments
  StatSources = {tracked}
  Unreachable = {}
  StatsBatch = 1
  MinInterval = 6
  MaxInterval = 72
  QuietChecks = 5
SYMMETRY MCSymmetry
INVARIANTS
  CataloguingTypeOK
  OneFlightPerMovie
  SegmentsCoverText
  NoChangeSkipped
  SyncedSeasonsComplete
  ListIsWhole
  LinksAreEarned
  SuccessMeansInForce
  RestartKeepsSettings
  IntervalsAdapt
PROPERTIES
  NeverEmptiedAgain
CHECK_DEADLOCK FALSE
