\* One secret, set once, and a restart.
SPECIFICATION CfSpec
CONSTANTS
  Variables = {ytsUrl, traktSecret}
  ytsUrl = ytsUrl
  traktSecret = traktSecret
  Secrets = {traktSecret}
  Generated = {}
  ReadOnce = {}
  Updates = {put1}
  Restartable = {"YTS", "TRAKT"}
  ServiceOf <- MCServiceOf
  Environments <- MCEnvironments
INVARIANTS
  RestartKeepsSecrets
CHECK_DEADLOCK FALSE
