\* Liveness, so no symmetry: one source that is never reached.
SPECIFICATION StatsFairSpec
CONSTANTS
  StatSources = {s1, s2, s3}
  Unreachable = {s3}
  StatsBatch = 2
  MinInterval = 1
  MaxInterval = 2
  QuietChecks = 1
PROPERTIES
  ReachableSourcesAreChecked
