------------------------------- MODULE Mirrors -------------------------------
(***************************************************************************)
(* The clients of the content directories YTS and TheRARBG: the mirrors    *)
(* they fall back on, what they count of their requests (TrackStatus), and *)
(* the cache in front of a search (Cacheable).  A client is shared by all  *)
(* of its calls, and a call that fails moves the whole client to the next  *)
(* mirror before it tries again.                                           *)
(***************************************************************************)
EXTENDS Integers, Sequences, FiniteSets, FiniteSetsExt, SequencesExt

CONSTANTS
    Searches,       \* calls of getMovie
    Fallbacks,      \* the mirrors of YTS that are hard-coded, in order
    RarbgMirrors,   \* those of TheRARBG
    Hosts,          \* domains the status page of YTS may list
    Configured,     \* the address that is configured, whatever it is
    MaxReloads      \* bound on the number of reloads

Domains == Hosts \cup {Fallbacks[i] : i \in DOMAIN Fallbacks}
                 \cup {RarbgMirrors[i] : i \in DOMAIN RarbgMirrors}

Lists == Seq(Domains) \ {<<>>}

ASSUME MirrorsAssumption ==
    /\ Fallbacks \in Lists /\ RarbgMirrors \in Lists
    /\ IsFiniteSet(Hosts) /\ Configured \notin Domains
    /\ MaxReloads \in Nat

VARIABLES
    api,        \* the client: "yts" or "rarbg" (never changes)
    apiUrl,     \* Configured, or the mirror the client talks to
    mirrorIdx,  \* currentDomainIndex, currentMirrorIndex
    mirrors,    \* the list of mirrors
    movedIn,    \* history: the list in which the client last moved on
    discovery,  \* YTS: the number of domainMirrorsPromise; those not settled yet
    calls,      \* the calls of the client, the connectivity tests included
    queueCount, \* requestQueueCount
    found,      \* what is cached for the movie: "nothing", "null" or "answer"
    apiStatus   \* _initStatus

mirrorVars == <<api, apiUrl, mirrorIdx, mirrors, movedIn, discovery, calls, queueCount, found,
                apiStatus>>

Tests == 0..MaxReloads
Calls == Searches \cup Tests
Unsent == [stage |-> "idle", depth |-> 0, at |-> Configured, waitsFor |-> 0]

\* What comes back: an answer with and without movies, no such movie (404, or
\* a redirect to the home page), a page or a status that is an error, and no
\* answer at all.
Replies == {"movies", "empty", "gone", "bad", "network"}
Good == {"movies", "empty"}

\* The constructor runs init: TheRARBG has two mirrors, YTS starts to look
\* for its own; the connectivity test is the first call.
MInit(a) ==
    /\ api = a
    /\ apiUrl = Configured
    /\ mirrorIdx = 0
    /\ mirrors = IF a = "yts" THEN Fallbacks ELSE RarbgMirrors
    /\ movedIn = mirrors
    /\ discovery = [current |-> 1, open |-> IF a = "yts" THEN {1} ELSE {}]
    /\ calls = [c \in Calls |-> IF c = 0 THEN [Unsent EXCEPT !.stage = "entered", !.depth = 1,
                                                             !.waitsFor = 1]
                                         ELSE Unsent]
    /\ queueCount = 1
    /\ found = "nothing"
    /\ apiStatus = "initializing"

To(c, stage) == calls' = [calls EXCEPT ![c].stage = stage]

\* A level of the request begins: it waits for the mirrors first.
Enters(c, depth, d) ==
    calls' = [calls EXCEPT ![c] = [@ EXCEPT !.stage = "entered", !.depth = depth, !.waitsFor = d]]

\* validateImdbId refuses an identifier before there is a request.
Refuse(c) ==
    /\ api = "rarbg" /\ c \in Searches /\ calls[c].stage = "idle"
    /\ To(c, "failed")
    /\ UNCHANGED <<api, apiUrl, mirrorIdx, mirrors, movedIn, discovery, queueCount, found, apiStatus>>

\* Every endpoint is one request behind a cache: a cached answer is returned;
\* nothing, null and a cache that fails are a miss.
Search(c) ==
    /\ c \in Searches /\ calls[c].stage = "idle"
    /\ \/ found = "answer" /\ To(c, "done") /\ UNCHANGED queueCount
       \/ /\ Enters(c, 1, discovery.current)
          /\ queueCount' = queueCount + 1
    /\ UNCHANGED <<api, apiUrl, mirrorIdx, mirrors, movedIn, discovery, found, apiStatus>>

\* request: after the mirrors are known and its turn has come, the call reads
\* the address of the client as it is then.
Send(c) ==
    /\ calls[c].stage = "entered" /\ calls[c].waitsFor \notin discovery.open
    /\ calls' = [calls EXCEPT ![c].stage = "sent", ![c].at = apiUrl]
    /\ UNCHANGED <<api, apiUrl, mirrorIdx, mirrors, movedIn, discovery, queueCount, found, apiStatus>>

\* A bad answer of YTS is as good as none; of TheRARBG it is final.
Switches(reply) == IF api = "yts" THEN reply \notin Good ELSE reply = "network"

\* The outcome of init: the test failed or not.
Verdict(c, ok) == IF c \in Tests THEN apiStatus' = IF ok THEN "ready" ELSE "error"
                                 ELSE UNCHANGED apiStatus

\* What test says of a good answer: YTS may name a status that is not "ok".
TestOutcomes == IF api = "yts" THEN BOOLEAN ELSE {TRUE}

\* Mutation: the decorator counts a retry as a call that is over.
LeaveUncounted(c) == queueCount' = queueCount - 1

\* TrackStatus is around every level of the recursion: all of them end.
Leave(c) == queueCount' = LET n == queueCount - calls[c].depth IN IF n > 0 THEN n ELSE 0

Answer(c, reply) ==
    /\ calls[c].stage = "sent"
    /\ IF reply \in Good
       THEN /\ To(c, IF c \in Tests THEN "done" ELSE "storing")
            /\ Leave(c) /\ (\E ok \in TestOutcomes : Verdict(c, ok))
            /\ UNCHANGED <<mirrorIdx, apiUrl, movedIn>>
       ELSE IF Switches(reply) /\ mirrorIdx < Len(mirrors) - 1
       THEN /\ mirrorIdx' = mirrorIdx + 1
            /\ apiUrl' = mirrors[mirrorIdx + 2]
            /\ movedIn' = mirrors
            /\ Enters(c, calls[c].depth + 1, discovery.current)
            /\ queueCount' = queueCount + 1
            /\ UNCHANGED apiStatus
       ELSE /\ To(c, IF api = "rarbg" /\ reply = "gone" /\ c \in Searches THEN "storingNull"
                     ELSE "failed")
            /\ Leave(c) /\ Verdict(c, FALSE)
            /\ UNCHANGED <<mirrorIdx, apiUrl, movedIn>>
    /\ UNCHANGED <<api, mirrors, discovery, found>>

\* Cacheable: the answer is stored before it is returned; a store that fails
\* fails the call.  getMovie has no source for a movie that is not known.
Store(c) ==
    /\ calls[c].stage \in {"storing", "storingNull"}
    /\ \/ /\ found' = IF calls[c].stage = "storing" THEN "answer" ELSE "null"
          /\ To(c, "done")
       \/ To(c, "failed") /\ UNCHANGED found
    /\ UNCHANGED <<api, apiUrl, mirrorIdx, mirrors, movedIn, discovery, queueCount, apiStatus>>

\* An hour later; CacheService.cleanup deletes what has expired.
Forget ==
    /\ found # "nothing" /\ found' = "nothing"
    /\ UNCHANGED <<api, apiUrl, mirrorIdx, mirrors, movedIn, discovery, calls, queueCount, apiStatus>>

\* parseDomainsFromHTML: the hosts of the links that are addresses, once each.
ListedOn(page) == page \ {"broken"}

\* discoverYTSMirrors ends, with the mirrors cached, listed or hard-coded:
\* they replace the list under a client that may be somewhere in the old one.
\* Its address stays (YTS_API_URL always has a value), and so does its index.
Discovered(d) ==
    /\ d \in discovery.open
    /\ discovery' = [discovery EXCEPT !.open = @ \ {d}]
    /\ \E page \in SUBSET (Hosts \cup {"broken"}) :
          IF ListedOn(page) = {} THEN mirrors' = Fallbacks
                                 ELSE mirrors' \in SetToSeqs(ListedOn(page))
    /\ UNCHANGED <<api, apiUrl, mirrorIdx, movedIn, calls, queueCount, found, apiStatus>>

Fresh == {t \in Tests : calls[t].stage = "idle"}

\* Mutation: the client keeps its place in the list of mirrors.
ReloadedIdxKept == mirrorIdx

\* TheRARBG starts its list again; YTS keeps its place in it.
ReloadedIdx == IF api = "rarbg" THEN 0 ELSE mirrorIdx

\* reload: the address is configured anew and init runs.  Its discovery is
\* the next one; its test waits for it.
Reload ==
    /\ Fresh # {}
    /\ apiUrl' = Configured
    /\ mirrorIdx' = ReloadedIdx
    /\ discovery' = [current |-> discovery.current + 1,
                     open |-> IF api = "yts" THEN discovery.open \cup {discovery.current + 1} ELSE {}]
    /\ Enters(Min(Fresh), 1, discovery.current + 1)
    /\ queueCount' = queueCount + 1
    /\ apiStatus' = "initializing"
    /\ UNCHANGED <<api, mirrors, movedIn, found>>

MNext ==
    \/ \E c \in Calls :
          \/ Refuse(c)
          \/ Search(c)
          \/ Send(c)
          \/ \E reply \in Replies : Answer(c, reply)
          \/ Store(c)
    \/ \E d \in Tests \cup {MaxReloads + 1} : Discovered(d)
    \/ Forget
    \/ Reload

MSpec == (\E a \in {"yts", "rarbg"} : MInit(a)) /\ [][MNext]_mirrorVars

-----------------------------------------------------------------------------
Open(c) == calls[c].stage \in {"entered", "sent"}

\* The requests that are open: the levels of the recursion of every call.
OpenLevels == UNION {{c} \X (1..calls[c].depth) : c \in {b \in Calls : Open(b)}}

MTypeOK ==
    /\ api \in {"yts", "rarbg"}
    /\ apiUrl \in Domains \cup {Configured} /\ mirrorIdx \in Nat
    /\ mirrors \in Lists /\ movedIn \in Lists /\ queueCount \in Nat
    /\ discovery.open \subseteq 1..discovery.current
    /\ \A c \in Calls : calls[c].stage \in {"idle", "entered", "sent", "storing", "storingNull",
                                            "done", "failed"}
    /\ found \in {"nothing", "null", "answer"}
    /\ apiStatus \in {"initializing", "ready", "error"}

(***************************************************************************)
(* However calls, failures, reloads and discoveries interleave, the        *)
(* address of a client is the configured one or the mirror that its index  *)
(* names in the list in which it moved there; so it always is an address,  *)
(* though a list that was discovered since may be shorter or have that     *)
(* mirror elsewhere or not at all (yts.api.ts:89-108, 165-175).  For       *)
(* TheRARBG, whose list stays, it is the configured one exactly at the     *)
(* start of the list (therarbg.api.ts:63-67, 135-141).  And                *)
(* requestQueueCount, decremented in a finally around every level of the   *)
(* retries, is the number of requests that are open, retries included      *)
(* (trackStatus.util.ts:16-45).                                            *)
(***************************************************************************)
MirrorInStep ==
    /\ \/ apiUrl = Configured
       \/ mirrorIdx + 1 \in DOMAIN movedIn /\ apiUrl = movedIn[mirrorIdx + 1]
    /\ api = "rarbg" => (apiUrl = Configured <=> mirrorIdx = 0)
    /\ queueCount = Cardinality(OpenLevels)
=============================================================================
