-------------------------- MODULE StreamingKeysProofs --------------------------
(***************************************************************************)
(* Proofs about StreamingKeys: the types, and the bound on how long a key  *)
(* is accepted.  The bound needs an invariant: an entry of the cache never *)
(* outlives the row it was filled from by a whole CacheTTL, because it is  *)
(* only made while the row is valid and never renewed by a hit.            *)
(***************************************************************************)
EXTENDS StreamingKeys, TLAPS

LEMMA CacheTTLMonotone ==
    ASSUME NEW t \in TTLs
    PROVE  /\ CacheTTL(t) \in Nat /\ CacheTTL(MaxTTL) \in Nat
           /\ CacheTTL(t) <= CacheTTL(MaxTTL)
BY SMT, TTLAssumption DEF CacheTTL

(* The entries of the cache and the rows they were filled from.            *)
EntriesBounded ==
    \A k \in Keys : cached[k] > 0 =>
        rows[k] # NoRow /\ cached[k] < AcceptedAtMostUntil(k)

(* A key is hashed to be stored only once: its row does not change.        *)
StoredOnce == \A k \in Keys : hashing[k] # {} => rows[k] = NoRow

FoundRows == \A r \in Verifications : pc[r] = "found" => rows[verifying[r].key] # NoRow

KInv == KTypeOK /\ EntriesBounded /\ StoredOnce /\ FoundRows

LEMMA KInvInit == KInit => KInv
<1> SUFFICES ASSUME KInit PROVE KInv
    OBVIOUS
<1>1. KTypeOK
  BY NoVerificationAssumption DEF KInit, KTypeOK, VerificationSteps
<1>2. EntriesBounded /\ StoredOnce /\ FoundRows
  BY DEF KInit, EntriesBounded, StoredOnce, FoundRows
<1> QED
  BY <1>1, <1>2 DEF KInv
--------------------------------------------------------------------------------
LEMMA KTypesStep == KTypeOK /\ [KNext]_keyVars => KTypeOK'
<1> SUFFICES ASSUME KTypeOK, [KNext]_keyVars PROVE KTypeOK'
    OBVIOUS
<1> USE DEF KTypeOK, VerificationSteps, keyConfig, keys, verifications
<1>1. CASE KTick
  BY <1>1 DEF KTick
<1>2. CASE ReloadKeys
  BY <1>2 DEF ReloadKeys
<1>3. CASE CacheCleanup
  BY <1>3 DEF CacheCleanup, EntryAfterGet
<1>4. CASE KRestart
  BY <1>4, NoVerificationAssumption DEF KRestart
<1>5. ASSUME NEW k \in Keys, HashKey(k) PROVE KTypeOK'
  BY <1>5 DEF HashKey
<1>6. ASSUME NEW k \in Keys, StoreKey(k) PROVE KTypeOK'
  <2>1. PICK s \in hashing[k] :
            rows' = [rows EXCEPT ![k] = [salt |-> s, expiresAt |-> keyNow + ttl]]
    BY <1>6 DEF StoreKey
  <2>2. [salt |-> s, expiresAt |-> keyNow + ttl] \in KeyRow
    BY TTLAssumption DEF KeyRow
  <2> QED
    BY <1>6, <2>1, <2>2 DEF StoreKey
<1>7. ASSUME NEW r \in Verifications, NEW k \in Keys, VerifyStreamingKey(r, k) PROVE KTypeOK'
  <2>1. [key |-> k, salt |-> salt] \in Verification
    BY DEF Verification
  <2> QED
    BY <1>7, <2>1 DEF VerifyStreamingKey, EntryAfterGet, Go
<1>8. ASSUME NEW r \in Verifications, FindByKeyHash(r) PROVE KTypeOK'
  BY <1>8 DEF FindByKeyHash, Go
<1>9. ASSUME NEW r \in Verifications, Decide(r) PROVE KTypeOK'
  <2>1. verifying[r].key \in Keys
    BY <1>9 DEF Decide, Verification
  <2>2. CachedFor(verifying[r].key) \in Nat
    BY CacheTTLMonotone DEF CachedFor
  <2> QED
    BY <1>9, <2>1, <2>2 DEF Decide, Go
<1>10. ASSUME NEW r \in Verifications, KAnswer(r) PROVE KTypeOK'
  BY <1>10, NoVerificationAssumption DEF KAnswer, Go
<1>11. CASE UNCHANGED keyVars
  BY <1>11 DEF keyVars
<1> QED
  BY <1>1, <1>2, <1>3, <1>4, <1>5, <1>6, <1>7, <1>8, <1>9, <1>10, <1>11 DEF KNext
--------------------------------------------------------------------------------
LEMMA KInvStep == KInv /\ [KNext]_keyVars => KInv'
<1> SUFFICES ASSUME KInv, [KNext]_keyVars PROVE KInv'
    OBVIOUS
<1>0. KTypeOK /\ KTypeOK'
  BY KTypesStep DEF KInv
<1> USE DEF KInv, EntriesBounded, StoredOnce, FoundRows, AcceptedAtMostUntil,
            keyConfig, keys, verifications
<1>1. CASE KTick \/ ReloadKeys
  BY <1>0, <1>1 DEF KTick, ReloadKeys
<1>2. CASE CacheCleanup
  BY <1>0, <1>2 DEF CacheCleanup, EntryAfterGet, KTypeOK
<1>3. CASE KRestart
  BY <1>0, <1>3 DEF KRestart
<1>4. ASSUME NEW k \in Keys, HashKey(k) PROVE KInv'
  BY <1>0, <1>4 DEF HashKey, KTypeOK
<1>5. ASSUME NEW k \in Keys, StoreKey(k) PROVE KInv'
  <2>1. rows[k] = NoRow /\ hashing[k] # {}
    BY <1>5 DEF StoreKey
  <2>2. ~ (cached[k] > 0)
    BY <2>1
  <2>3. rows'[k] # NoRow /\ \A j \in Keys \ {k} : rows'[j] = rows[j]
    BY <1>0, <1>5, TTLAssumption, NoRowAssumption DEF StoreKey, KTypeOK, KeyRow
  <2> QED
    BY <1>0, <1>5, <2>1, <2>2, <2>3 DEF StoreKey, KTypeOK, Verification
<1>6. ASSUME NEW r \in Verifications, NEW k \in Keys, VerifyStreamingKey(r, k) PROVE KInv'
  BY <1>0, <1>6 DEF VerifyStreamingKey, EntryAfterGet, Go, KTypeOK
<1>7. ASSUME NEW r \in Verifications, FindByKeyHash(r) PROVE KInv'
  BY <1>0, <1>7 DEF FindByKeyHash, Matches, Go, KTypeOK
<1>8. ASSUME NEW r \in Verifications, Decide(r) PROVE KInv'
  <2>1. PICK k \in Keys : k = verifying[r].key
    BY <1>0, <1>8 DEF Decide, KTypeOK, Verification
  <2>2. rows[k] \in KeyRow
    BY <1>0, <1>8, <2>1 DEF Decide, KTypeOK
  <2>3. rows[k].expiresAt \in Nat
    BY <2>2 DEF KeyRow
  <2>4. StillValid(k) => keyNow + CachedFor(k) < AcceptedAtMostUntil(k)
    BY <1>0, <2>3, CacheTTLMonotone, SMT DEF StillValid, CachedFor, KTypeOK
  <2>5. EntriesBounded'
    BY <1>0, <1>8, <2>1, <2>2, <2>4, NoRowAssumption DEF Decide, KTypeOK
  <2> QED
    BY <1>0, <1>8, <2>5 DEF Decide, Go, KTypeOK
<1>9. ASSUME NEW r \in Verifications, KAnswer(r) PROVE KInv'
  BY <1>0, <1>9 DEF KAnswer, Go, KTypeOK
<1>10. CASE UNCHANGED keyVars
  BY <1>0, <1>10 DEF keyVars
<1> QED
  BY <1>1, <1>2, <1>3, <1>4, <1>5, <1>6, <1>7, <1>8, <1>9, <1>10 DEF KNext
--------------------------------------------------------------------------------
(* Every variable keeps its type: what the cache, the rows and the         *)
(* verifications of AuthService hold.                                      *)
THEOREM KeysTypeCorrect == KSpec => []KTypeOK
<1>1. KInv => KTypeOK
  BY DEF KInv
<1> QED
  BY <1>1, KInvInit, KInvStep, PTL DEF KSpec

LEMMA KStepBounded ==
    ASSUME KInv, KNext, NEW r \in Verifications, Accepts(r)
    PROVE  rows[KeyOf(r)] # NoRow /\ keyNow < AcceptedAtMostUntil(KeyOf(r))
<1>0. KTypeOK
  BY DEF KInv
<1> USE DEF Accepts, KeyOf, keyConfig, keys, verifications
<1>1. ASSUME NEW q \in Verifications, NEW k \in Keys, VerifyStreamingKey(q, k)
      PROVE  rows[KeyOf(r)] # NoRow /\ keyNow < AcceptedAtMostUntil(KeyOf(r))
  <2>1. q = r /\ cached[k] > keyNow /\ KeyOf(r) = k
    BY <1>0, <1>1 DEF VerifyStreamingKey, InCache, Go, KTypeOK
  <2>2. cached[k] \in Nat /\ keyNow \in Nat /\ cached[k] > 0
    BY <1>0, <2>1 DEF KTypeOK
  <2>3. rows[k] # NoRow /\ cached[k] < AcceptedAtMostUntil(k)
    BY <2>2 DEF KInv, EntriesBounded
  <2>4. rows[k].expiresAt \in Nat
    BY <1>0, <2>3 DEF KTypeOK, KeyRow
  <2>5. CacheTTL(MaxTTL) \in Nat
    BY <1>0, CacheTTLMonotone DEF KTypeOK
  <2> QED
    BY <2>1, <2>2, <2>3, <2>4, <2>5, SMT DEF AcceptedAtMostUntil
<1>2. ASSUME NEW q \in Verifications, Decide(q)
      PROVE  rows[KeyOf(r)] # NoRow /\ keyNow < AcceptedAtMostUntil(KeyOf(r))
  <2>1. q = r /\ KeyOf(r) = verifying[r].key /\ StillValid(KeyOf(r))
    BY <1>0, <1>2 DEF Decide, Go, KTypeOK
  <2>2. KeyOf(r) \in Keys /\ rows[KeyOf(r)] # NoRow
    BY <1>0, <1>2, <2>1 DEF Decide, KTypeOK, Verification, KInv, FoundRows
  <2>3. rows[KeyOf(r)].expiresAt \in Nat /\ keyNow \in Nat
    BY <1>0, <2>2 DEF KTypeOK, KeyRow
  <2>4. CacheTTL(MaxTTL) \in Nat
    BY <1>0, CacheTTLMonotone DEF KTypeOK
  <2>5. keyNow < rows[KeyOf(r)].expiresAt
    BY <2>1, <2>3 DEF StillValid
  <2> QED
    BY <2>2, <2>3, <2>4, <2>5 DEF AcceptedAtMostUntil
<1>3. CASE KTick \/ ReloadKeys \/ CacheCleanup \/ KRestart
  BY <1>0, <1>3 DEF KTick, ReloadKeys, CacheCleanup, KRestart, KTypeOK
<1>4. ASSUME NEW k \in Keys, HashKey(k) \/ StoreKey(k) PROVE FALSE
  BY <1>0, <1>4 DEF HashKey, StoreKey, KTypeOK
<1>5. ASSUME NEW q \in Verifications, FindByKeyHash(q) \/ KAnswer(q) PROVE FALSE
  BY <1>0, <1>5 DEF FindByKeyHash, KAnswer, Go, KTypeOK
<1> QED
  BY <1>1, <1>2, <1>3, <1>4, <1>5 DEF KNext

(* A streaming key is accepted for at most 0.9 of the longest lifetime     *)
(* past its own expiry, whatever is cached, reloaded, restarted or retried *)
(* in between.                                                             *)
THEOREM KeyLagBounded == KSpec => CacheLagBounded
<1>1. KInv /\ [KNext]_keyVars =>
        [\A r \in Verifications :
            Accepts(r) => /\ rows[KeyOf(r)] # NoRow
                          /\ keyNow < AcceptedAtMostUntil(KeyOf(r))]_keyVars
  BY KStepBounded
<1>2. KSpec => []KInv
  BY KInvInit, KInvStep, PTL DEF KSpec
<1> QED
  BY <1>1, <1>2, PTL DEF KSpec, CacheLagBounded
================================================================================
