\* One key and two lifetimes: an entry made just before the key expires
\* outlives it.  The clock goes as far as an entry of the longer one can last.
SPECIFICATION KSpec
CONSTANTS
    Keys = {k1}
    Verifications = {r1, r2}
    TTLs = {4, 10}
    Salts = {a, b}
    MaxTTL = 10
    MaxKeyTime = 20
    NoRow = NoRow
    NoVerification = NoVerification
SYMMETRY MCSymmetry
INVARIANTS
    CachedOnlyWhileValid
