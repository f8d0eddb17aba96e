SPECIFICATION Spec
CONSTANTS
    Users = {u1, u2}
    Sessions = {s1, s2, s3}
    Tokens = {t1, t2, t3}
    Requests = {r1, r2}
    MaxDeviceSlotsPerUser = 2
    RefreshTokenTTL = 0
    MaxRefreshAge = 0
    MaxTime = 1
    NoRow = NoRow
    NoTask = NoTask
    Unopened = Unopened
    Closed = Closed
SYMMETRY MCSymmetry
INVARIANTS
    TypeOK
    ChainNeverForks
    SpentTokensAreDead
    SerialLoginsRespectSlots
PROPERTIES
    ImplementsSessionChains
CHECK_DEADLOCK FALSE
