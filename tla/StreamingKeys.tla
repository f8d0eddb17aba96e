----------------------------- MODULE StreamingKeys -----------------------------
(***************************************************************************)
(* The streaming keys of AuthService: a key is stored as a salted hash     *)
(* with the time it expires, and verified with a cache first.  The cache   *)
(* (InMemoryCache) is filled from the database and lives in the process.   *)
(* An administrator can change the lifetime of keys and their salt while   *)
(* requests are under way; the cache is not cleared then.                  *)
(* Time is counted in the units of Date.now().                             *)
(***************************************************************************)
EXTENDS Integers, FiniteSets

CONSTANTS
    Keys,           \* the random part of a key, drawn once
    Verifications,  \* verifications that can be in flight together
    TTLs,           \* values of STREAM_TOKEN_EXPIRATION
    Salts,          \* values of STREAM_KEY_SALT
    MaxTTL,         \* a bound of TTLs
    MaxKeyTime,     \* bound of the clock
    NoRow,          \* the key is not in the database
    NoVerification  \* the request is not being served

ASSUME TTLAssumption == TTLs \subseteq 1..MaxTTL /\ MaxTTL \in Nat /\ MaxKeyTime \in Nat

KeyRow == [salt : Salts, expiresAt : Nat]
ASSUME NoRowAssumption == NoRow \notin KeyRow

Verification == [key : Keys, salt : Salts]
ASSUME NoVerificationAssumption == NoVerification \notin Verification

VARIABLES
    keyNow,     \* Date.now()
    ttl,        \* streamingKeyTTL
    salt,       \* streamingKeySalt
    rows,       \* rows[k]: the row of k in the database
    hashing,    \* hashing[k]: {the salt} while k is hashed to be stored
    cached,     \* cached[k]: the time its entry in the cache expires, or 0
    pc,         \* pc[r]: where verification r is
    verifying   \* verifying[r]: its key, and the salt it has read

keyConfig == <<ttl, salt>>
keys == <<rows, hashing>>
verifications == <<pc, verifying>>
keyVars == <<keyNow, keyConfig, keys, cached, verifications>>

VerificationSteps == {"idle", "finding", "found", "accepted", "denied"}
--------------------------------------------------------------------------------
(* 0.9 of a lifetime, up to the first instant at which it is over.         *)
CacheTTL(t) == (9 * t + 9) \div 10

CachedFor(k) == CacheTTL(ttl)

InCache(k) == cached[k] > keyNow

Go(r, step) == pc' = [pc EXCEPT ![r] = step]

KInit ==
    /\ keyNow = 0
    /\ ttl \in TTLs /\ salt \in Salts
    /\ rows = [k \in Keys |-> NoRow]
    /\ hashing = [k \in Keys |-> {}]
    /\ cached = [k \in Keys |-> 0]
    /\ pc = [r \in Verifications |-> "idle"]
    /\ verifying = [r \in Verifications |-> NoVerification]

KTick ==
    /\ keyNow < MaxKeyTime
    /\ keyNow' = keyNow + 1
    /\ UNCHANGED <<keyConfig, keys, cached, verifications>>

(* reload, after a change of the configuration.                            *)
ReloadKeys ==
    /\ ttl' \in TTLs /\ salt' \in Salts
    /\ UNCHANGED <<keyNow, keys, cached, verifications>>
--------------------------------------------------------------------------------
(* generateStreamingKey: the hash is computed before the row is inserted.  *)
HashKey(k) ==
    /\ rows[k] = NoRow /\ hashing[k] = {}
    /\ hashing' = [hashing EXCEPT ![k] = {salt}]
    /\ UNCHANGED <<keyNow, keyConfig, rows, cached, verifications>>

StoreKey(k) ==
    /\ \E s \in hashing[k] :
          rows' = [rows EXCEPT ![k] = [salt |-> s, expiresAt |-> keyNow + ttl]]
    /\ hashing' = [hashing EXCEPT ![k] = {}]
    /\ UNCHANGED <<keyNow, keyConfig, cached, verifications>>

(* verifyStreamingKey: a hit is the answer, and does not extend the entry. *)
SlidingEntry(k) == IF InCache(k) THEN keyNow + CacheTTL(ttl) ELSE 0    \* mutant
EntryAfterGet(k) == IF InCache(k) THEN cached[k] ELSE 0

VerifyStreamingKey(r, k) ==
    /\ pc[r] = "idle"
    /\ cached' = [cached EXCEPT ![k] = EntryAfterGet(k)]
    /\ Go(r, IF InCache(k) THEN "accepted" ELSE "finding")
    /\ verifying' = [verifying EXCEPT ![r] = [key |-> k, salt |-> salt]]
    /\ UNCHANGED <<keyNow, keyConfig, keys>>

(* findByKeyHash: the hash of another salt finds nothing.                  *)
Matches(r) ==
    LET k == verifying[r].key
    IN  rows[k] # NoRow /\ rows[k].salt = verifying[r].salt

FindByKeyHash(r) ==
    /\ pc[r] = "finding"
    /\ Go(r, IF Matches(r) THEN "found" ELSE "denied")
    /\ UNCHANGED <<keyNow, keyConfig, keys, cached, verifying>>

(* findStreamingKey and verifyStreamingKey, once the row has arrived.      *)
StillValid(k) == rows[k].expiresAt > keyNow

Decide(r) ==
    /\ pc[r] = "found"
    /\ LET k == verifying[r].key
       IN  \/ /\ StillValid(k)
              /\ cached' = [cached EXCEPT ![k] = keyNow + CachedFor(k)]
              /\ Go(r, "accepted")
           \/ /\ ~StillValid(k)
              /\ Go(r, "denied")
              /\ UNCHANGED cached
    /\ UNCHANGED <<keyNow, keyConfig, keys, verifying>>

KAnswer(r) ==
    /\ pc[r] \in {"accepted", "denied"}
    /\ Go(r, "idle")
    /\ verifying' = [verifying EXCEPT ![r] = NoVerification]
    /\ UNCHANGED <<keyNow, keyConfig, keys, cached>>

(* The periodic cleanup of InMemoryCache.                                  *)
CacheCleanup ==
    /\ cached' = [k \in Keys |-> EntryAfterGet(k)]
    /\ UNCHANGED <<keyNow, keyConfig, keys, verifications>>

(* The process dies: the rows stay.                                        *)
KRestart ==
    /\ cached' = [k \in Keys |-> 0]
    /\ hashing' = [k \in Keys |-> {}]
    /\ pc' = [r \in Verifications |-> "idle"]
    /\ verifying' = [r \in Verifications |-> NoVerification]
    /\ UNCHANGED <<keyNow, keyConfig, rows>>

KNext ==
    \/ KTick \/ ReloadKeys \/ CacheCleanup \/ KRestart
    \/ \E k \in Keys : HashKey(k) \/ StoreKey(k)
    \/ \E r \in Verifications :
          \/ \E k \in Keys : VerifyStreamingKey(r, k)
          \/ FindByKeyHash(r) \/ Decide(r) \/ KAnswer(r)

KSpec == KInit /\ [][KNext]_keyVars
--------------------------------------------------------------------------------
KTypeOK ==
    /\ keyNow \in Nat /\ ttl \in TTLs /\ salt \in Salts
    /\ rows \in [Keys -> KeyRow \cup {NoRow}]
    /\ hashing \in [Keys -> SUBSET Salts]
    /\ cached \in [Keys -> Nat]
    /\ pc \in [Verifications -> VerificationSteps]
    /\ verifying \in [Verifications -> Verification \cup {NoVerification}]
    /\ \A r \in Verifications : verifying[r] \in Verification <=> pc[r] # "idle"

Accepts(r) == pc[r] # "accepted" /\ pc'[r] = "accepted"
KeyOf(r) == verifying'[r].key

(* However often it is used, and whatever the configuration is changed to, *)
(* a key is accepted for no longer than one entry of the cache can outlive *)
(* it: a client cannot keep a key alive by using it.                       *)
AcceptedAtMostUntil(k) == rows[k].expiresAt + CacheTTL(MaxTTL)

CacheLagBounded ==
    [][\A r \in Verifications :
          Accepts(r) => /\ rows[KeyOf(r)] # NoRow
                        /\ keyNow < AcceptedAtMostUntil(KeyOf(r))]_keyVars

(* What the comment at auth.service.ts:684 says of the cache: an entry     *)
(* lasts "until the key expires (or slightly before to be safe)".  It is   *)
(* made for 0.9 of a lifetime from the verification on, so that the key of *)
(* an entry that still answers may have expired.                           *)
CachedOnlyWhileValid == \A k \in Keys : InCache(k) => StillValid(k)
================================================================================
