---------------------------- MODULE HttpRequests ----------------------------
(***************************************************************************)
(* RequestService and what StatsService keeps of its requests.  A request  *)
(* is a fetch with the cookies and the user agent of its domain; when it   *)
(* is forbidden and FlareSolverr is enabled, the solver is asked, and its  *)
(* cookies and user agent are kept for the domain.  Three measures are     *)
(* started for every request, of which two are to be recorded.             *)
(*                                                                         *)
(* One domain.  Time is counted in the timeframes of StatsService.         *)
(***************************************************************************)
EXTENDS Integers, FiniteSets

CONSTANTS
    HttpRequestIds,
    MaxFrames,     \* maxTimeframes
    MaxFrame       \* bound on the clock

ASSUME HttpAssumption == MaxFrames \in Nat \ {0} /\ MaxFrame \in Nat

VARIABLES
    frame,         \* getCurrentTimeframeIndex()
    flareEnabled,  \* isFlareSolverrEnabled
    clearance,     \* the cookie jar has cf_clearance for the domain
    agent,         \* userAgentByDomain: "unset", "random" or "solver"
    reqs,          \* the requests: stage, result, and the headers they carry
    starts,        \* metricStarts: a set of [of, name, frame]
    kept           \* metricData and eventData: a set of [of, name, frame]

httpVars == <<frame, flareEnabled, clearance, agent, reqs, starts, kept>>

Measures == {"request", "request.success", "request.error"}
Stages == {"idle", "fetching", "solving", "reading", "over", "unaddressed"}
NotSent == [stage |-> "idle", agent |-> "unset", cleared |-> FALSE, result |-> "none"]

HInit ==
    /\ frame = 0
    /\ flareEnabled = TRUE
    /\ clearance = FALSE
    /\ agent = "unset"
    /\ reqs = [r \in HttpRequestIds |-> NotSent]
    /\ starts = {} /\ kept = {}

\* cleanupOldTimeframes: what is older than the cut-off is dropped, a measure
\* that is still open too.
Retained(S) == {x \in S : x.frame >= frame - MaxFrames}

\* metricStart
MeasuresStarted(r) == starts' = starts \cup {[of |-> r, name |-> n, frame |-> frame] : n \in Measures}

StatEvent(r, name) == [of |-> r, name |-> name, frame |-> frame]

OpenMeasures(r, names) == {x \in starts : x.of = r /\ x.name \in names}

\* Mutation: a measure that is not wanted stays open.
SettledUncancelled(r, verdict, events) ==
    LET ended == OpenMeasures(r, {"request", verdict})
    IN  /\ kept' = Retained(kept \cup ended \cup events)
        /\ starts' = Retained(starts \ ended)

\* metricEnd for the request and for its verdict, metricCancel for the other
\* verdict.  A measure that is not open is ignored, so the first verdict of a
\* request is the one that stays.
Settled(r, verdict, events) ==
    LET ended == OpenMeasures(r, {"request", verdict})
    IN  /\ kept' = IF ended # {} \/ events # {} THEN Retained(kept \cup ended \cup events) ELSE kept
        /\ starts' = IF ended # {} \/ events # {} THEN Retained(starts \ OpenMeasures(r, Measures))
                                                  ELSE starts \ OpenMeasures(r, Measures)

ReqBecomes(r, stage, result) ==
    reqs' = [reqs EXCEPT ![r].stage = stage, ![r].result = result]

\* Without an agent for the domain one is picked at random.
AgentOfDomain == IF agent = "unset" THEN "random" ELSE agent

\* CookieJar.setCookies; a cookie is never dropped from the jar.
JarAfter(cookies) == clearance \/ cookies

\* requestViaFlareSolverr: what the solver may bring, cookies and an agent.
Solutions == [cookies : BOOLEAN, named : BOOLEAN]

\* parseResponseBody: whether the body can be read as what it says it is.
Readings == {"answered", "rejected"}

\* request: the measures are started and the headers are built from what is
\* known of the domain.
SendRequest(r) ==
    /\ reqs[r].stage = "idle"
    /\ MeasuresStarted(r)
    /\ reqs' = [reqs EXCEPT ![r] = [@ EXCEPT !.stage = "fetching",
                    !.agent = AgentOfDomain,
                    !.cleared = flareEnabled /\ clearance]]
    /\ UNCHANGED <<frame, flareEnabled, clearance, agent, kept>>

\* The address cannot be read (buildUrlWithQuery, extractDomain): the request is
\* rejected after its measures were started and before the try that ends them.
RejectAddress(r) ==
    /\ reqs[r].stage = "idle"
    /\ MeasuresStarted(r)
    /\ ReqBecomes(r, "unaddressed", "rejected")
    /\ UNCHANGED <<frame, flareEnabled, clearance, agent, kept>>

\* The network, the timeout or the caller's signal ends the fetch.
FetchFails(r) ==
    /\ reqs[r].stage = "fetching"
    /\ Settled(r, "request.error", {})
    /\ ReqBecomes(r, "over", "rejected")
    /\ UNCHANGED <<frame, flareEnabled, clearance, agent>>

\* Forbidden, and there is a solver to ask.
AskFlareSolverr(r) ==
    /\ reqs[r].stage = "fetching" /\ flareEnabled
    /\ kept' = Retained(kept \cup {StatEvent(r, "request.flaresolverr")})
    /\ starts' = Retained(starts)
    /\ ReqBecomes(r, "solving", "none")
    /\ UNCHANGED <<frame, flareEnabled, clearance, agent>>

\* Any other response (a forbidden one too, when there is no solver): its
\* cookies and the agent of this request become those of the domain, and the
\* request is a success before its body is read.
SiteResponds(r, forbidden) ==
    /\ reqs[r].stage = "fetching" /\ (forbidden => ~flareEnabled)
    /\ agent' = reqs[r].agent
    /\ \E cookies \in BOOLEAN : clearance' = JarAfter(cookies)
    /\ Settled(r, "request.success", IF reqs[r].cleared THEN {StatEvent(r, "request.solved")} ELSE {})
    /\ ReqBecomes(r, "reading", "none")
    /\ UNCHANGED <<frame, flareEnabled>>

\* The solver has answered the request in place of the site.
Solve(r) ==
    /\ reqs[r].stage = "solving" /\ flareEnabled
    /\ \E solution \in Solutions :
          /\ clearance' = JarAfter(solution.cookies)
          /\ agent' = IF solution.named THEN "solver" ELSE agent
    /\ Settled(r, "request.success", {})
    /\ ReqBecomes(r, "over", "solved")
    /\ UNCHANGED <<frame, flareEnabled>>

\* It fails, or is not configured any more: the forbidden response stands.
SolverFails(r) ==
    /\ reqs[r].stage = "solving"
    /\ Settled(r, "request.error", {})
    /\ ReqBecomes(r, "reading", "none")
    /\ UNCHANGED <<frame, flareEnabled, clearance, agent>>

\* A body that says it is JSON and is not cannot be read a second time as
\* text: the request is rejected after its verdict.
ReadBody(r) ==
    /\ reqs[r].stage = "reading"
    /\ \E reading \in Readings :
          /\ ReqBecomes(r, "over", reading)
          /\ IF reading = "rejected" THEN Settled(r, "request.error", {}) ELSE UNCHANGED <<starts, kept>>
    /\ UNCHANGED <<frame, flareEnabled, clearance, agent>>

\* ENABLE_FLARESOLVERR, read at every use.
Reconfigure ==
    /\ flareEnabled' = ~flareEnabled
    /\ UNCHANGED <<frame, clearance, agent, reqs, starts, kept>>

NextFrame ==
    /\ frame < MaxFrame
    /\ frame' = frame + 1
    /\ UNCHANGED <<flareEnabled, clearance, agent, reqs, starts, kept>>

HNext ==
    \/ \E r \in HttpRequestIds :
          \/ SendRequest(r) \/ RejectAddress(r) \/ FetchFails(r) \/ AskFlareSolverr(r)
          \/ \E forbidden \in BOOLEAN : SiteResponds(r, forbidden)
          \/ Solve(r) \/ SolverFails(r) \/ ReadBody(r)
    \/ Reconfigure
    \/ NextFrame

HSpec == HInit /\ [][HNext]_httpVars

-----------------------------------------------------------------------------
EntriesOf(S, r) == {x \in S : x.of = r}

\* report: how often a name was recorded in a timeframe.
Reported(name, f) == Cardinality({x \in kept : x.name = name /\ x.frame = f})

HTypeOK ==
    /\ frame \in 0..MaxFrame
    /\ flareEnabled \in BOOLEAN /\ clearance \in BOOLEAN
    /\ agent \in {"unset", "random", "solver"}
    /\ \A r \in HttpRequestIds : reqs[r].stage \in Stages
    /\ \A x \in starts \cup kept : x.of \in HttpRequestIds /\ x.frame \in 0..MaxFrame

(***************************************************************************)
(* A request that is fetched gets one verdict, whichever way it goes:      *)
(* through the solver, through its failure, through a body that cannot be  *)
(* read after the verdict was given (request.service.ts:309-424).  When it *)
(* is over, no measure of it is left open, and what was recorded is at     *)
(* most the request with either a success or an error; all of that unless  *)
(* its timeframe was dropped meanwhile.  A request whose address cannot be *)
(* read is rejected before the try: nothing of it is ever recorded, and    *)
(* its measures, which nothing ends (278-287), are all open or were all    *)
(* dropped with their timeframe.  So in every timeframe that is reported   *)
(* as many requests ended as verdicts were given.                          *)
(***************************************************************************)
OneVerdict ==
    /\ \A r \in HttpRequestIds :
          LET names == {x.name : x \in EntriesOf(kept, r)} \cap Measures
          IN  /\ reqs[r].stage = "over" =>
                    /\ EntriesOf(starts, r) = {}
                    /\ names \in {{}, {"request", "request.success"}, {"request", "request.error"}}
              /\ reqs[r].stage = "unaddressed" =>
                    names = {} /\ {x.name : x \in EntriesOf(starts, r)} \in {{}, Measures}
    /\ \A f \in 0..MaxFrame :
          Reported("request", f) = Reported("request.success", f) + Reported("request.error", f)
=============================================================================
