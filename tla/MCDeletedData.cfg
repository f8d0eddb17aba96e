\* A restart, then the eviction of a record whose torrent is not running.
SPECIFICATION Spec
CONSTANTS
    s1 = s1
    s2 = s2
    s3 = s3
    Sources = {s1, s2}
    Requests = {r1}
    DeclaredSize <- MCDeclaredSize
    Length <- MCLength
    MaxStorageBytes = 0
    MaxCleanupAttempts = 2
    NoRecord = NoRecord
    NoTask = NoTask
INVARIANTS
    DeletedDataLeavesDisk
