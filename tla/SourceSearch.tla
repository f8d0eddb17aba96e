---------------------------- MODULE SourceSearch ----------------------------
(***************************************************************************)
(* The search for the sources of a movie: the background task, the search  *)
(* on demand of the movie and stream routes, the single flight that joins  *)
(* searches of one movie, the content directories asked in turn, and the   *)
(* fetch of the metadata file of each source found.                        *)
(*                                                                         *)
(* A movie's number is its rank of popularity; a hash's number is its rank *)
(* among the sources of a movie (playability, quality, size).              *)
(***************************************************************************)
EXTENDS Integers, Sequences, FiniteSets

CONSTANTS
    SMovies,     \* a set of ranks of popularity
    Hashes,      \* a set of ranks of sources
    Visitors,    \* requests to the movie and stream routes
    BatchSize    \* sources fetched at a time (available concurrency of the fetcher)

ASSUME SSAssumption ==
    /\ SMovies \subseteq Nat /\ Hashes \subseteq Nat /\ BatchSize \in Nat \ {0}

Directories == <<"YTS", "TheRARBG">>        \* in the order they are asked

VARIABLES
    searched,   \* contentDirectoriesSearched of each movie
    rows,       \* the hashes stored for each movie
    filed,      \* those of them with a metadata file
    due,        \* movies whose nextSourceSearchAt is past
    flights,    \* inFlight: the searches under way, by key
    task,       \* the key the background task awaits, or NoKey
    visits,     \* what each request does
    fetching,   \* sources of the batch whose file is awaited
    gateOpen    \* checkForVpnConnection lets searches through

ssVars == <<searched, rows, filed, due, flights, task, visits, fetching, gateOpen>>

NoKey == <<>>

AtHome == [step |-> "home", route |-> "none", movie |-> -1, dirs |-> {}, sources |-> {}, key |-> NoKey]

SSInit ==
    /\ searched = [m \in SMovies |-> {}]
    /\ rows = [m \in SMovies |-> {}]
    /\ filed = [m \in SMovies |-> {}]
    /\ due = SMovies
    /\ flights = {}
    /\ task = NoKey
    /\ visits = [v \in Visitors |-> AtHome]
    /\ fetching = {}
    /\ gateOpen = TRUE

\* Mutation: the decorator's default key, made of all the arguments.
KeyOfArguments(m, dirs, onDemand) == <<m, dirs, onDemand>>

\* The key of the single flight: the movie and the directories the caller
\* knows to be searched.
FlightKey(m, dirs, onDemand) == <<m, dirs>>

InFlight(k) == \E f \in flights : f.key = k

\* SingleFlight: join the search of the same key, or start one.
Join(m, dirs, onDemand) ==
    LET k == FlightKey(m, dirs, onDemand)
    IN  flights' = IF InFlight(k) THEN flights
                   ELSE flights \cup {[key |-> k, movie |-> m, asked |-> dirs,
                                       step |-> "start", from |-> "none", found |-> {}]}

\* searchSourcesForMovies: the most popular movie never searched whose time
\* has come.
Pending(m) == searched[m] = {} /\ m \in due

BackgroundSearch ==
    /\ task = NoKey
    /\ gateOpen
    /\ \E m \in SMovies :
          /\ Pending(m)
          /\ \A n \in SMovies : Pending(n) => m <= n
          /\ Join(m, searched[m], FALSE)
          /\ task' = FlightKey(m, searched[m], FALSE)
    /\ UNCHANGED <<searched, rows, filed, due, visits, fetching, gateOpen>>

(***************************************************************************)
(* A flight: the gate, the directories in turn, the sources one by one and *)
(* the mark on the movie.  Each ends a flight's turn in the event loop.    *)
(***************************************************************************)
Becomes(f, g) == flights' = (flights \ {f}) \cup {g}

\* The promise settles: the entry goes and everyone who awaits it resumes.
Land(f, sources) ==
    /\ flights' = flights \ {f}
    /\ task' = IF task = f.key THEN NoKey ELSE task
    /\ visits' = [v \in Visitors |->
                    IF visits[v].step = "await" /\ visits[v].key = f.key
                    THEN [visits[v] EXCEPT !.step = "answered", !.sources = sources, !.key = NoKey]
                    ELSE visits[v]]

PassGate(f) ==
    /\ f.step = "start"
    /\ IF gateOpen
       THEN Becomes(f, [f EXCEPT !.step = "ask"]) /\ UNCHANGED <<task, visits>>
       ELSE Land(f, {})
    /\ UNCHANGED <<searched, rows, filed, due, fetching, gateOpen>>

NextDirectory(asked) ==
    LET left == {i \in DOMAIN Directories : Directories[i] \notin asked}
    IN  IF left = {} THEN "none"
        ELSE Directories[CHOOSE i \in left : \A j \in left : i <= j]

\* markSourceSearchAttempt: no search in the background for about an hour.
MarkAttempt(f) ==
    /\ due' = due \ {f.movie}
    /\ Land(f, {})
    /\ UNCHANGED <<searched, rows, filed, fetching, gateOpen>>

\* A directory answers with sources, or with none and the next is asked; an
\* error ends the search without asking the others.
AskDirectory(f, found) ==
    /\ f.step = "ask"
    /\ NextDirectory(f.asked) # "none"
    /\ IF found = {}
       THEN Becomes(f, [f EXCEPT !.asked = @ \cup {NextDirectory(f.asked)}])
       ELSE Becomes(f, [f EXCEPT !.step = "save", !.from = NextDirectory(f.asked),
                                 !.found = found])
    /\ UNCHANGED <<searched, rows, filed, due, task, visits, fetching, gateOpen>>

NothingFound(f) ==
    /\ f.step = "ask"
    /\ MarkAttempt(f)

\* createMany: a source is stored unless the movie has its hash already.
SaveSource(f) ==
    /\ f.step = "save"
    /\ f.found \ rows[f.movie] # {}
    /\ \E h \in f.found \ rows[f.movie] : rows' = [rows EXCEPT ![f.movie] = @ \cup {h}]
    /\ UNCHANGED <<searched, filed, due, flights, task, visits, fetching, gateOpen>>

\* A statement fails: the error is logged and nothing marked.
SaveFails(f) ==
    /\ f.step = "save"
    /\ Land(f, {})
    /\ UNCHANGED <<searched, rows, filed, due, fetching, gateOpen>>

MarkSearched(f) ==
    /\ f.step = "save"
    /\ f.found \subseteq rows[f.movie]
    /\ searched' = [searched EXCEPT ![f.movie] = @ \cup {f.from}]
    /\ Land(f, f.found)
    /\ UNCHANGED <<rows, filed, due, fetching, gateOpen>>

-----------------------------------------------------------------------------
(* A request: read the movie, look for sources, search on demand, and for  *)
(* a stream pick a source with a file.  A key asks twice: once itself, and  *)
(* once through getBestSourceForStreaming.                                  *)
ReadMovie(v, m, route) ==
    /\ visits[v].step = "home"
    /\ visits' = [visits EXCEPT ![v] = [AtHome EXCEPT !.step = "look", !.route = route,
                                            !.movie = m, !.dirs = searched[m]]]
    /\ UNCHANGED <<searched, rows, filed, due, flights, task, fetching, gateOpen>>

FindSources(v) ==
    LET r == visits[v]
    IN  /\ r.step = "look"
        /\ visits' = [visits EXCEPT ![v].step =
                        IF rows[r.movie] # {} THEN "answered" ELSE "search",
                        ![v].sources = rows[r.movie]]
        /\ UNCHANGED <<searched, rows, filed, due, flights, task, fetching, gateOpen>>

SearchOnDemand(v) ==
    LET r == visits[v]
    IN  /\ r.step = "search"
        /\ Join(r.movie, r.dirs, TRUE)
        /\ visits' = [visits EXCEPT ![v].step = "await",
                                    ![v].key = FlightKey(r.movie, r.dirs, TRUE)]
        /\ UNCHANGED <<searched, rows, filed, due, task, fetching, gateOpen>>

\* The race is lost: an empty answer, and the search goes on without it.
TimeOut(v) ==
    /\ visits[v].step = "await"
    /\ visits' = [visits EXCEPT ![v].step = "answered", ![v].sources = {}, ![v].key = NoKey]
    /\ UNCHANGED <<searched, rows, filed, due, flights, task, fetching, gateOpen>>

\* getBestSourceForStreaming and the routes: the request ends, or a key goes
\* on to the choice of a source when there are any.
Respond(v) ==
    LET r == visits[v]
    IN  /\ r.step = "answered"
        /\ visits' = [visits EXCEPT ![v] =
                IF r.route = "key" /\ r.sources # {}
                THEN [r EXCEPT !.step = "look", !.route = "stream"]
                ELSE AtHome]
        /\ UNCHANGED <<searched, rows, filed, due, flights, task, fetching, gateOpen>>

-----------------------------------------------------------------------------
(* syncMissingSourceFiles                                                   *)
Fileless == {s \in SMovies \X Hashes : s[2] \in rows[s[1]] \ filed[s[1]]}

\* within_movie_rank, then completion_ratio: the order of the batch.
Before(s, t) ==
    LET Rank(x) == Cardinality({h \in Hashes : <<x[1], h>> \in Fileless /\ h < x[2]})
        Done(x, y) == Cardinality(filed[x[1]]) * Cardinality(rows[y[1]])
    IN  \/ Rank(s) < Rank(t)
        \/ Rank(s) = Rank(t) /\ Done(s, t) < Done(t, s)

StartBatch ==
    /\ fetching = {}
    /\ gateOpen
    /\ \E B \in SUBSET Fileless :
          /\ B # {}
          /\ Cardinality(B) <= BatchSize
          /\ Cardinality(B) = BatchSize \/ B = Fileless
          /\ \A s \in B, t \in Fileless \ B : ~Before(t, s)
          /\ fetching' = B
    /\ UNCHANGED <<searched, rows, filed, due, flights, task, visits, gateOpen>>

\* downloadSourceFileForSource: from its URL or through the fetcher, or not at
\* all; the batch ends when all its sources have.
FetchFile(s, found) ==
    /\ s \in fetching
    /\ fetching' = fetching \ {s}
    /\ filed' = IF found THEN [filed EXCEPT ![s[1]] = @ \cup {s[2]}] ELSE filed
    /\ UNCHANGED <<searched, rows, due, flights, task, visits, gateOpen>>

-----------------------------------------------------------------------------
GateMoves ==
    /\ gateOpen' = ~gateOpen
    /\ UNCHANGED <<searched, rows, filed, due, flights, task, visits, fetching>>

TimePasses ==
    /\ due # SMovies
    /\ due' = SMovies
    /\ UNCHANGED <<searched, rows, filed, flights, task, visits, fetching, gateOpen>>

Flight(f) ==
    \/ PassGate(f)
    \/ \E found \in SUBSET Hashes : AskDirectory(f, found)
    \/ NothingFound(f)
    \/ SaveSource(f)
    \/ SaveFails(f)
    \/ MarkSearched(f)

SSNext ==
    \/ BackgroundSearch
    \/ \E f \in flights : Flight(f)
    \/ \E v \in Visitors :
          \/ \E m \in SMovies, route \in {"details", "key", "stream"} : ReadMovie(v, m, route)
          \/ FindSources(v) \/ SearchOnDemand(v) \/ TimeOut(v) \/ Respond(v)
    \/ StartBatch
    \/ \E s \in fetching, found \in BOOLEAN : FetchFile(s, found)
    \/ GateMoves \/ TimePasses

SSSpec == SSInit /\ [][SSNext]_ssVars

-----------------------------------------------------------------------------
SSTypeOK ==
    /\ searched \in [SMovies -> SUBSET {Directories[i] : i \in DOMAIN Directories}]
    /\ rows \in [SMovies -> SUBSET Hashes]
    /\ \A m \in SMovies : filed[m] \subseteq rows[m]
    /\ due \subseteq SMovies
    /\ task = NoKey \/ InFlight(task)
    /\ \A v \in Visitors : visits[v].step = "await" => InFlight(visits[v].key)

(***************************************************************************)
(* A movie is never searched twice at once (source.service.ts:184), though *)
(* the key of the single flight holds a list that a caller may have read   *)
(* long before: the list changes only after sources were stored, and with  *)
(* sources stored nobody searches.  createMany looks for a hash and then   *)
(* inserts it, which is safe only because of that.                         *)
(***************************************************************************)
OneFlightPerMovie ==
    /\ \A f, g \in flights : f.movie = g.movie => f = g
    /\ \A m \in SMovies : searched[m] # {} => rows[m] # {}
=============================================================================
