\* Two requests over two sources, one request over three.
SPECIFICATION Spec
CONSTANTS
    s1 = s1
    s2 = s2
    s3 = s3
    Sources = {s1, s2, s3}
    Requests = {r1, r2}
    DeclaredSize <- MCDeclaredSize
    Length <- MCLength
    MaxStorageBytes = 1
    MaxCleanupAttempts = 2
    NoRecord = NoRecord
    NoTask = NoTask
SYMMETRY MCSymmetry
CONSTRAINT MCThirdIsAlone
INVARIANTS
    TypeOK
    NothingAdrift
    CleanupAloneIsExact
PROPERTIES
    ImplementsStoredSources
