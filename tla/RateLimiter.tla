----------------------------- MODULE RateLimiter -----------------------------
(***************************************************************************)
(* The in-memory rate limiter (utils/rateLimiter.ts) and its three users:  *)
(* the API clients, which wait (throttle) on a default limiter or on one   *)
(* of high priority; the HTTP middleware, which rejects; and               *)
(* SourceService, which asks whether it may make a request and then waits  *)
(* for the same limiter, so that one request is counted twice.             *)
(*                                                                         *)
(* Time is counted in ticks, the unit in which a limiter forgets (one      *)
(* millisecond in the code).  Each caller makes one request.               *)
(***************************************************************************)
EXTENDS Integers, Sequences, FiniteSets

CONSTANTS
    Callers,       \* requests to make
    Second,        \* ticks in which a limiter of a rate >= 1 permits Rate requests
    SlowInterval,  \* ticks between two requests of a limiter of a rate < 1
    RouteLimit,    \* the limit of the middleware
    ApiLimit,      \* the rate of an API client (zero: a rate below one)
    HighLimit,     \* the rate of its queue of high priority
    RLMaxTime      \* bound on the clock

ASSUME RLAssumption ==
    /\ Second \in Nat \ {0, 1} /\ SlowInterval \in Nat \ {0, 1}
    /\ RouteLimit \in Nat \ {0} /\ ApiLimit \in Nat /\ HighLimit \in Nat \ {0}
    /\ RLMaxTime \in Nat

VARIABLES
    rlNow,     \* Date.now()
    stamps,    \* requestTimestamps of each limiter
    grants     \* what each caller was told: the limiter, and when it may go ahead

rlVars == <<rlNow, stamps, grants>>

Limiters == {"route", "default", "highPriority", "source"}

Pending == [limiter |-> "none", at |-> -1]

Rate(l) == CASE l = "route" -> RouteLimit
             [] l = "default" -> ApiLimit
             [] l = "highPriority" -> HighLimit
             [] l = "source" -> 0

\* A limit below one, for which the timestamps are spaced out.
Fractional(l) == Rate(l) = 0

IntervalOf(l) == IF Fractional(l) THEN SlowInterval ELSE Second

OldestOf(s) == CHOOSE t \in {s[i] : i \in DOMAIN s} : \A i \in DOMAIN s : t <= s[i]

\* The timestamps of a limiter that are later than a cut-off, in their order.
Later(s, cutoff) ==
    LET kept[i \in 0..Len(s)] ==
            IF i = 0 THEN <<>>
            ELSE IF s[i] > cutoff THEN Append(kept[i - 1], s[i]) ELSE kept[i - 1]
    IN  kept[Len(s)]

\* Mutation: the cut-off is one tick later.
RecentForgetful(l) == Later(stamps[l], rlNow - IntervalOf(l) + 2)

\* filterOldTimestamps: a timestamp is forgotten one tick before the interval
\* is over.
Recent(l) == Later(stamps[l], rlNow - IntervalOf(l) + 1)

\* getDelay: behind the last slot for a fractional rate; until the oldest
\* timestamp leaves the window for a full one.
GetDelay(l) ==
    LET kept == Recent(l)
    IN  IF Fractional(l)
        THEN IF kept = <<>> THEN 0
             ELSE LET d == kept[Len(kept)] + SlowInterval - rlNow
                  IN  IF d > 0 THEN d ELSE 0
        ELSE IF Len(kept) >= Rate(l) THEN OldestOf(kept) + Second - rlNow ELSE 0

RLInit ==
    /\ rlNow = 0
    /\ stamps = [l \in Limiters |-> <<>>]
    /\ grants = [c \in Callers |-> Pending]

Tick ==
    /\ rlNow < RLMaxTime
    /\ rlNow' = rlNow + 1
    /\ UNCHANGED <<stamps, grants>>

Granted(c, l, t) == grants' = [grants EXCEPT ![c] = [limiter |-> l, at |-> t]]

\* shouldReject, as the middleware calls it: no delay, or no request.
RejectOrServe(c) ==
    /\ grants[c] = Pending
    /\ IF GetDelay("route") > 0
       THEN /\ stamps' = [stamps EXCEPT !["route"] = Recent("route")]
            /\ Granted(c, "rejected", rlNow)
       ELSE /\ stamps' = [stamps EXCEPT !["route"] = Append(Recent("route"), rlNow)]
            /\ Granted(c, "route", rlNow)
    /\ UNCHANGED rlNow

\* throttle: the slot is booked at once and the caller sleeps until then.
Book(c, l) ==
    LET at == rlNow + GetDelay(l)
    IN  /\ stamps' = [stamps EXCEPT ![l] = Append(Recent(l), at)]
        /\ Granted(c, l, at)

\* Api.throttle: a request of high priority takes the queue that is shorter.
ApiThrottle(c, high) ==
    /\ grants[c] = Pending
    /\ IF high /\ GetDelay("highPriority") < GetDelay("default")
       THEN Book(c, "highPriority")
       ELSE Book(c, "default")
    /\ UNCHANGED rlNow

\* A source's file: canMakeSourceRequest books a slot, and the download books
\* the next one and waits for it.
FetchSource(c) ==
    /\ grants[c] = Pending
    /\ IF GetDelay("source") > 0
       THEN /\ stamps' = [stamps EXCEPT !["source"] = Recent("source")]
            /\ Granted(c, "rejected", rlNow)
       ELSE LET at == rlNow + SlowInterval
            IN  /\ stamps' = [stamps EXCEPT
                                !["source"] = Append(Append(Recent("source"), rlNow), at)]
                /\ Granted(c, "source", at)
    /\ UNCHANGED rlNow

RLNext ==
    \/ Tick
    \/ \E c \in Callers :
          \/ RejectOrServe(c)
          \/ \E high \in BOOLEAN : ApiThrottle(c, high)
          \/ FetchSource(c)

RLSpec == RLInit /\ [][RLNext]_rlVars

-----------------------------------------------------------------------------
RLTypeOK ==
    /\ rlNow \in 0..RLMaxTime
    /\ \A l \in Limiters : \A i \in DOMAIN stamps[l] : stamps[l][i] \in Nat
    /\ grants \in [Callers -> [limiter : Limiters \cup {"none", "rejected"}, at : Int]]

\* Requests a limiter let go ahead in the ticks t .. t + n - 1.
Within(l, t, n) == {c \in Callers : grants[c].limiter = l /\ grants[c].at \in t..(t + n - 1)}

(***************************************************************************)
(* What the limiter does guarantee (rateLimiter.ts:27, 45, 68): however    *)
(* the requests fall, one less than the interval never holds more requests *)
(* of a route than its limit, and two requests of a limiter of a rate      *)
(* below one are never closer than that.  The tick that                    *)
(* filterOldTimestamps gives away is the whole slack; for the waiting      *)
(* callers of a full window there is no such bound, since all of them are  *)
(* told the same instant.                                                  *)
(***************************************************************************)
AdmissionsSpaced ==
    /\ \A t \in 0..RLMaxTime : Cardinality(Within("route", t, Second - 1)) <= RouteLimit
    /\ \A l \in Limiters, c, d \in Callers :
          (Fractional(l) /\ c # d /\ grants[c].limiter = l /\ grants[d].limiter = l) =>
             \/ grants[c].at - grants[d].at >= SlowInterval - 1
             \/ grants[d].at - grants[c].at >= SlowInterval - 1
=============================================================================
