--------------------------- MODULE DynamicRateLimit ---------------------------
(***************************************************************************)
(* The rate limiter that learns the limit of a server from its responses   *)
(* (utils/dynamic-rate-limit.ts).  It keeps an estimate of a window and of *)
(* the requests allowed in it, the recent responses (newest first) and the *)
(* instants it was limited at.                                             *)
(*                                                                         *)
(* The confidence is counted in hundredths, and the products with decimal  *)
(* weights are carried out on integers and rounded where the code rounds.  *)
(* The sizes of the histories and of the sample behind the sporadic test   *)
(* are constants, so that a few responses reach them.                      *)
(***************************************************************************)
EXTENDS Integers, Sequences, FiniteSets

CONSTANTS
    InitialWindow, InitialLimit,
    MinWindow, MaxWindow, MaxLimit,
    MaxHistory,        \* MAX_HISTORY_ITEMS
    MaxDetections,     \* MAX_RATE_LIMIT_DETECTIONS
    Enough,            \* responses before behaviour is judged sporadic (10)
    Sample,            \* responses it is judged on (20)
    ManySuccesses,     \* successes in a row before the limit is raised (5)
    MaxReports         \* bound on the responses

ASSUME DRAssumption ==
    /\ {MinWindow, MaxWindow, MaxLimit} \subseteq Nat
    /\ InitialWindow \in 1..MaxWindow /\ InitialLimit \in 1..MaxLimit
    /\ MaxHistory \in Nat \ {0} /\ MaxDetections \in Nat \ {0}
    /\ {Enough, Sample, ManySuccesses, MaxReports} \subseteq Nat

VARIABLES
    drNow,
    est,        \* [window, limit, confidence, iterations]
    history,    \* responseHistory: [at, limited], newest first
    detections, \* rateLimitDetections, newest first
    runs,       \* [success, failure, limited]: consecutive ones, and all limited
    reports,    \* totalRequests
    saved       \* what was last written to the storage file

drVars == <<drNow, est, history, detections, runs, reports, saved>>

Least(a, b) == IF a < b THEN a ELSE b
Most(a, b) == IF a > b THEN a ELSE b
Distance(a, b) == Most(a - b, b - a)
Rounded(num, den) == (2 * num + den) \div (2 * den)      \* Math.round(num / den)
Ceiling(num, den) == (num + den - 1) \div den
First(s, n) == SubSeq(s, 1, Least(n, Len(s)))

InitialEstimate == [window |-> InitialWindow, limit |-> InitialLimit,
                    confidence |-> 10, iterations |-> 0]

NoRuns == [success |-> 0, failure |-> 0, limited |-> 0]

DRInit ==
    /\ drNow = 0
    /\ est = InitialEstimate
    /\ history = <<>>
    /\ detections = <<>>
    /\ runs = NoRuns
    /\ reports = 0
    /\ saved = [est |-> InitialEstimate, history |-> <<>>, detections |-> <<>>,
                runs |-> NoRuns]

\* The reset header that is read for the window, the first with a number in
\* it: which one, and the window it names, from now or up to an epoch.
NoReset == [header |-> "none", epoch |-> FALSE, window |-> 0]
Seconds(h, n) == [header |-> h, epoch |-> FALSE, window |-> n]
UpToEpoch(h, n) == [header |-> h, epoch |-> TRUE, window |-> n]
Resets == {NoReset, UpToEpoch("x-ratelimit-reset", MinWindow)}
            \cup {Seconds(h, n) : h \in {"x-ratelimit-reset", "retry-after"}, n \in {2, MaxWindow}}

\* A response: whether its status, no remaining requests or a header beside
\* the one that is read tells of a limitation; the limit its headers name
\* (zero for a header that is missing or no number), and the reset.
Responses == [tooMany : BOOLEAN, limit : {0, 1, 5}, reset : Resets]

\* isRateLimited: x-ratelimit-reset is no limitation, as retry-after is (and
\* ratelimit-reset, which is read like it).
IsRateLimited(r) == r.tooMany \/ r.reset.header = "retry-after"

\* A window of seconds is to be inside both bounds, one up to an epoch only
\* below the upper one.
NamesWindow(reset) ==
    /\ reset.window > (IF reset.epoch THEN 0 ELSE MinWindow)
    /\ reset.window < MaxWindow

\* extractRateLimitInfoFromHeaders: a limit more than a fifth off is taken
\* over, and so is the window that is named, of whatever response.
FromHeaders(e, r) ==
    LET l == IF r.limit > 0 /\ 5 * Distance(r.limit, e.limit) > e.limit
             THEN [e EXCEPT !.limit = r.limit, !.confidence = Least(100, @ + 30)]
             ELSE e
    IN  IF NamesWindow(r.reset)
        THEN [l EXCEPT !.window = r.reset.window, !.confidence = Least(100, @ + 30)]
        ELSE l

\* Mutation: the limit is rounded down to zero.
LimitedUnfloored(e, h, now) ==
    LET ok == Cardinality({i \in DOMAIN h : /\ h[i].at \in (now - e.window)..now
                                            /\ ~h[i].limited})
        new == (9 * ok) \div 10
    IN  IF ok = 0 THEN e
        ELSE IF 10 * new < 8 * e.limit
             THEN [e EXCEPT !.limit = new, !.confidence = Least(90, @ + 20)]
             ELSE [e EXCEPT !.limit = Rounded(7 * @ + 3 * new, 10)]

\* handleRateLimitedResponse: nine tenths of the successes in the window.
Limited(e, h, now) ==
    LET ok == Cardinality({i \in DOMAIN h : /\ h[i].at \in (now - e.window)..now
                                            /\ ~h[i].limited})
        new == Most(1, (9 * ok) \div 10)
    IN  IF ok = 0 THEN e
        ELSE IF 10 * new < 8 * e.limit
             THEN [e EXCEPT !.limit = new, !.confidence = Least(90, @ + 20)]
             ELSE [e EXCEPT !.limit = Rounded(7 * @ + 3 * new, 10)]

\* handleSuccessfulResponse: a run of successes raises the limit and may try a
\* larger window; the first one after a limitation measures the window.
Succeeded(e, success, now, explore) ==
    LET raised == IF success > ManySuccesses
                  THEN [e EXCEPT !.limit = Least(MaxLimit,
                                    Ceiling(@ * Least(110, 100 + success), 100))]
                  ELSE e
        wider == IF success > ManySuccesses /\ e.iterations > 1 /\ explore
                 THEN [raised EXCEPT !.window = Least(MaxWindow, Rounded(12 * @, 10))]
                 ELSE raised
        since == now - detections[1]
    IN  IF /\ detections # <<>> /\ success = 1
           /\ since > 0 /\ since < MaxWindow
        THEN [wider EXCEPT
                !.window = IF e.iterations = 0 THEN since
                           ELSE Rounded(7 * @ + 3 * since, 10),
                !.iterations = @ + 1,
                !.confidence = Least(85, @ + 10)]
        ELSE wider

\* findRequestsBeforeRateLimit: the runs of successes that a limitation ended,
\* as their number and their total length (oldest response last).
Scan(limited, acc) ==
    IF ~limited THEN [acc EXCEPT !.open = @ + 1]
    ELSE IF acc.open = 0 THEN acc
    ELSE [open |-> 0, total |-> acc.total + acc.open, count |-> acc.count + 1]

Segments(h) ==
    LET scanned[n \in 0..Len(h)] ==
            IF n = 0 THEN [open |-> 0, total |-> 0, count |-> 0]
            ELSE Scan(h[Len(h) + 1 - n].limited, scanned[n - 1])
    IN  scanned[Len(h)]

\* The intervals between detections that lie within the bounds.
Intervals(d) ==
    {i \in 1..(Len(d) - 1) :
        d[i] - d[i + 1] > MinWindow /\ d[i] - d[i + 1] < MaxWindow}

\* updateRateLimitEstimates, the limit: the average run before a limitation,
\* weighted with the confidence.
RefinedLimit(e, h) ==
    LET s == Segments(h)
        new == Most(1, (9 * s.total) \div (10 * s.count))
    IN  IF Len(h) > 1 /\ s.count > 0
        THEN [e EXCEPT !.limit =
                Rounded(@ * (200 - e.confidence) + new * e.confidence, 200)]
        ELSE e

\* Their sum.
TotalInterval(d) ==
    LET sum[n \in 0..Len(d)] ==
            IF n = 0 THEN 0
            ELSE sum[n - 1] + (IF n \in Intervals(d) THEN d[n] - d[n + 1] ELSE 0)
    IN  sum[Len(d)]

\* updateRateLimitEstimates, the window: the average interval between
\* detections, if that changes it by more than a tenth.
RefinedWindow(e, d) ==
    LET n == Cardinality(Intervals(d))
        weight == Least(90, 30 + 6 * n)
        new == Rounded(n * e.window * (100 - weight) + TotalInterval(d) * weight, 100 * n)
    IN  IF n > 0 /\ 10 * Distance(new, e.window) > e.window
        THEN [e EXCEPT !.window = new, !.confidence = Most(@, weight)]
        ELSE e

\* checkForSporadicBehavior: limited now and then, with many changes.
Sporadic(e, h, limited) ==
    LET recent == First(h, Sample)
        Was(i) == i > 0 /\ recent[i].limited
        changes == Cardinality({i \in DOMAIN recent : recent[i].limited # Was(i - 1)})
        hits == Cardinality({i \in DOMAIN recent : recent[i].limited})
    IN  IF /\ Len(h) >= Enough /\ 2 * changes > Enough
           /\ 2 * hits < Len(recent) /\ 20 * hits > Len(recent)
        THEN [e EXCEPT !.confidence = Least(@, 70),
                       !.limit = IF limited > 3 THEN Most(1, (85 * @) \div 100) ELSE @]
        ELSE e

\* cleanHistory, at each request for a throttle.
Cleaned(h, now, window) ==
    LET old == {i \in DOMAIN h : h[i].at < now - 2 * window}
        cut == Least((CHOOSE i \in old : \A j \in old : i <= j) - 1, Len(h) - Enough)
    IN  IF old # {} /\ cut > 0 THEN First(h, cut) ELSE h

\* getThrottle, in hundredths of a tick: how long to wait before a request,
\* with the backoff after failures at its cap of half a window.
Throttle(h, now) ==
    LET recent == Cardinality({i \in DOMAIN h : h[i].at >= now - est.window})
        opens == h[Len(h) - est.limit + 1].at + est.window - now
        wait == Most(0, 100 * Ceiling(opens * (200 - est.confidence), 100))
        backoff == IF est.confidence < 70 /\ runs.failure > 0 THEN 50 * est.window ELSE 0
    IN  IF recent < est.limit THEN 0
        ELSE IF recent > 0 /\ Len(h) > est.limit THEN wait + backoff
        ELSE (100 * est.window) \div (est.limit + 1)

\* reportResponse: count it, learn from the headers, then from the outcome,
\* then from the history; the estimate is saved when there was enough of it.
ReportResponse(r, explore) ==
    LET limited == IsRateLimited(r)
        h == First(<<[at |-> drNow, limited |-> limited]>> \o history, MaxHistory)
        d == IF limited THEN First(<<drNow>> \o detections, MaxDetections) ELSE detections
        u == [success |-> IF limited THEN 0 ELSE runs.success + 1,
              failure |-> IF limited THEN runs.failure + 1 ELSE 0,
              limited |-> runs.limited + (IF limited THEN 1 ELSE 0)]
        heard == FromHeaders(est, r)
        learnt == IF limited THEN Limited(heard, h, drNow)
                  ELSE Succeeded(heard, u.success, drNow, explore)
        enough == Len(d) >= 2 /\ learnt.iterations # 0
        refined == IF enough
                   THEN Sporadic(RefinedWindow(RefinedLimit(learnt, h), d), h, u.limited)
                   ELSE learnt
    IN  /\ reports < MaxReports
        /\ history' = h
        /\ detections' = d
        /\ runs' = u
        /\ est' = Sporadic(refined, h, u.limited)
        /\ saved' = IF enough
                     THEN [est |-> refined, history |-> h, detections |-> d, runs |-> u]
                     ELSE saved
        /\ reports' = reports + 1
        /\ UNCHANGED drNow

\* A larger window is tried at random, and not at first.
Draws == IF est.iterations > 1 THEN BOOLEAN ELSE {FALSE}

\* getThrottle as the caller sees it: old responses are dropped.
AskThrottle ==
    /\ history' = Cleaned(history, drNow, est.window)
    /\ history' # history
    /\ UNCHANGED <<drNow, est, detections, runs, reports, saved>>

Pass(n) ==
    /\ reports < MaxReports
    /\ drNow' = drNow + n
    /\ drNow' <= 3 * reports
    /\ UNCHANGED <<est, history, detections, runs, reports, saved>>

\* loadStatus, after a restart: everything that was written, or the defaults.
LoadStatus ==
    /\ est' = saved.est
    /\ history' = saved.history
    /\ detections' = saved.detections
    /\ runs' = saved.runs
    /\ UNCHANGED <<drNow, reports, saved>>

DRNext ==
    \/ \E r \in Responses, explore \in Draws : ReportResponse(r, explore)
    \/ AskThrottle
    \/ \E n \in {1, 3} : Pass(n)
    \/ LoadStatus

DRSpec == DRInit /\ [][DRNext]_drVars

-----------------------------------------------------------------------------
DRTypeOK ==
    /\ drNow \in Nat
    /\ Len(history) <= MaxHistory /\ Len(detections) <= MaxDetections
    /\ runs \in [success : Nat, failure : Nat, limited : Nat]
    /\ reports \in 0..MaxReports

(***************************************************************************)
(* Whatever a server answers, and in whatever order, the estimates stay    *)
(* usable (dynamic-rate-limit.ts:406, 456, 515, 595): a limit of zero      *)
(* would make every request wait, a window of zero would let every one     *)
(* through, and the weights need a confidence of at most one.  With them   *)
(* getThrottle never asks for more than two and a half windows.            *)
(***************************************************************************)
EstimatesUsable ==
    /\ est.limit >= 1
    /\ est.window \in 1..MaxWindow
    /\ est.confidence \in 10..100
    /\ Throttle(Cleaned(history, drNow, est.window), drNow) <= 250 * est.window
=============================================================================
