\* Two concurrent logins against one device slot.
SPECIFICATION Spec
CONSTANTS
    Users = {u1}
    Sessions = {s1, s2}
    Tokens = {t1, t2}
    Requests = {r1, r2}
    MaxDeviceSlotsPerUser = 1
    RefreshTokenTTL = 1
    MaxRefreshAge = 1
    MaxTime = 0
    NoRow = NoRow
    NoTask = NoTask
    Unopened = Unopened
    Closed = Closed
INVARIANTS
    DeviceSlotsRespected
CHECK_DEADLOCK FALSE
