----------------------------- MODULE SeasonSync -----------------------------
(***************************************************************************)
(* The seasons of the shows: a show that is opened is created with its     *)
(* seasons and marked as watched; syncTVShows reports a season that        *)
(* changed; and syncIncompleteSeasons, once a second, fetches the episodes *)
(* of the first season that is incomplete, of all the shows (GREEDY) or of *)
(* the shows that are watched (ON_DEMAND).  TMDB's answers are cached.     *)
(*                                                                         *)
(* A show has one season here and is named by its number at TMDB; its id   *)
(* in the database is the order in which it was created.                   *)
(***************************************************************************)
EXTENDS Integers, FiniteSets

CONSTANTS
    Shows,         \* numbers of shows at TMDB
    MaxEpisodes,   \* bound on the episodes of a season
    Greedy         \* EPISODE_SYNC_MODE is GREEDY

ASSUME SeasonAssumption == Shows \subseteq Nat \ {0} /\ MaxEpisodes \in Nat \ {0} /\ Greedy \in BOOLEAN

VARIABLES
    atTmdb,        \* episodes of the season at TMDB
    cachedSeason,  \* episodes in the cached answer; NoAnswer
    dbId,          \* id of the show in the database; 0: it is not there
    watching,      \* ids of the shows marked as watched
    episodes,      \* episodes of the season in the database
    synced,        \* shows whose season is marked as synced
    hydrating,     \* the season the task is at: its show, or 0; what TMDB answered
    reported,      \* history: episodes when the season was created or reported last
    overtaken      \* history: the report came with an older answer under way or cached

seasonVars == <<atTmdb, cachedSeason, dbId, watching, episodes, synced, hydrating,
                reported, overtaken>>

NoAnswer == -1
NoHydration == [show |-> 0, answer |-> 0]

KnownShows == {s \in Shows : dbId[s] # 0}

SeInit ==
    /\ atTmdb = [s \in Shows |-> 1]
    /\ cachedSeason = [s \in Shows |-> NoAnswer]
    /\ dbId = [s \in Shows |-> 0]
    /\ watching = {} /\ synced = {}
    /\ episodes = [s \in Shows |-> 0]
    /\ hydrating = NoHydration
    /\ reported = [s \in Shows |-> 0]
    /\ overtaken = [s \in Shows |-> FALSE]

NewEpisode(s) ==
    /\ atTmdb[s] < MaxEpisodes
    /\ atTmdb' = [atTmdb EXCEPT ![s] = @ + 1]
    /\ UNCHANGED <<cachedSeason, dbId, watching, episodes, synced, hydrating, reported,
                   overtaken>>

\* The id a row gets.
NewRow == Cardinality(KnownShows) + 1

\* getTVShowFromRepoOrFetchIt: the show and its seasons, in one transaction;
\* a list that names it or the page of the show asks for it.
CreateShow(s) ==
    /\ dbId[s] = 0
    /\ dbId' = [dbId EXCEPT ![s] = NewRow]
    /\ reported' = [reported EXCEPT ![s] = atTmdb[s]]
    /\ overtaken' = [overtaken EXCEPT ![s] = cachedSeason[s] # NoAnswer]
    /\ UNCHANGED <<atTmdb, cachedSeason, watching, episodes, synced, hydrating>>

\* The update of markAsWatching: the row with this id, if there is one.
MarkAsWatching(id) == watching' = watching \cup ({id} \cap {dbId[s] : s \in KnownShows})

\* The route of a show: the number in the path is TMDB's, and it is what
\* markShowAsWatching is given.
OpenShow(s) ==
    /\ s \in KnownShows
    /\ MarkAsWatching(s)
    /\ UNCHANGED <<atTmdb, cachedSeason, dbId, episodes, synced, hydrating, reported, overtaken>>

\* findIncompleteSeasons, findIncompleteSeasonsByShowIds
Incomplete == {s \in KnownShows \ synced : Greedy \/ dbId[s] \in watching}

FirstIncomplete == CHOOSE s \in Incomplete : \A q \in Incomplete : dbId[s] <= dbId[q]

\* tmdbApi.getSeason: the cached answer, or a new one.
AnswerOf(s) == IF cachedSeason[s] = NoAnswer THEN atTmdb[s] ELSE cachedSeason[s]

\* syncIncompleteSeasons takes the first season and asks for its episodes.
Hydrate ==
    /\ hydrating = NoHydration /\ Incomplete # {}
    /\ LET s == FirstIncomplete
       IN  /\ hydrating' = [show |-> s, answer |-> AnswerOf(s)]
           /\ cachedSeason' = [cachedSeason EXCEPT ![s] = AnswerOf(s)]
    /\ UNCHANGED <<atTmdb, dbId, watching, episodes, synced, reported, overtaken>>

\* createEpisode, for the episodes that are missing, one after the other.
CreateEpisode ==
    /\ hydrating # NoHydration /\ episodes[hydrating.show] < hydrating.answer
    /\ episodes' = [episodes EXCEPT ![hydrating.show] = @ + 1]
    /\ UNCHANGED <<atTmdb, cachedSeason, dbId, watching, synced, hydrating, reported,
                   overtaken>>

\* Mutation: the season is marked whether its episodes were created or not.
MarkAsSyncedEarly ==
    /\ hydrating # NoHydration
    /\ synced' = synced \cup {hydrating.show}
    /\ overtaken' = [overtaken EXCEPT ![hydrating.show] = @ /\ hydrating.answer < reported[hydrating.show]]
    /\ hydrating' = NoHydration
    /\ UNCHANGED <<atTmdb, cachedSeason, dbId, watching, episodes, reported>>

\* markSeasonAsSynced, when all of them are there.
MarkAsSynced ==
    /\ hydrating # NoHydration /\ episodes[hydrating.show] >= hydrating.answer
    /\ synced' = synced \cup {hydrating.show}
    /\ overtaken' = [overtaken EXCEPT ![hydrating.show] = @ /\ hydrating.answer < reported[hydrating.show]]
    /\ hydrating' = NoHydration
    /\ UNCHANGED <<atTmdb, cachedSeason, dbId, watching, episodes, reported>>

\* TMDB, the database or the process fails under it; the season stays first.
HydrationLost ==
    /\ hydrating # NoHydration
    /\ hydrating' = NoHydration
    /\ UNCHANGED <<atTmdb, cachedSeason, dbId, watching, episodes, synced, reported,
                   overtaken>>

\* syncTVShows: a season of a known show is among the changes of the show.
ReportChange(s) ==
    /\ s \in KnownShows /\ atTmdb[s] > reported[s]
    /\ synced' = synced \ {s}
    /\ reported' = [reported EXCEPT ![s] = atTmdb[s]]
    /\ overtaken' = [overtaken EXCEPT ![s] = @ \/ hydrating.show = s \/ cachedSeason[s] # NoAnswer]
    /\ UNCHANGED <<atTmdb, cachedSeason, dbId, watching, episodes, hydrating>>

\* The answer leaves the cache.
CacheExpires(s) ==
    /\ cachedSeason[s] # NoAnswer
    /\ cachedSeason' = [cachedSeason EXCEPT ![s] = NoAnswer]
    /\ UNCHANGED <<atTmdb, dbId, watching, episodes, synced, hydrating, reported, overtaken>>

SeNext ==
    \/ \E s \in Shows : \/ NewEpisode(s) \/ CreateShow(s) \/ OpenShow(s)
                        \/ ReportChange(s) \/ CacheExpires(s)
    \/ Hydrate
    \/ CreateEpisode
    \/ MarkAsSynced
    \/ HydrationLost

SeSpec == SeInit /\ [][SeNext]_seasonVars

-----------------------------------------------------------------------------
SeTypeOK ==
    /\ \A s \in Shows : /\ atTmdb[s] \in 1..MaxEpisodes /\ episodes[s] \in 0..MaxEpisodes
                        /\ cachedSeason[s] \in -1..MaxEpisodes
                        /\ dbId[s] \in 0..Cardinality(KnownShows)
    /\ synced \subseteq Shows
    /\ hydrating.show \in Shows \cup {0}

(***************************************************************************)
(* A season that is marked as synced has the episodes it had at TMDB when  *)
(* it was last reported as changed, through every failure of the task      *)
(* between the episodes (tmdb.service.ts:686-731).  The one exception the  *)
(* code has is an answer older than the report: the report (:866) comes    *)
(* while the task holds it or the cache (tmdb.api.ts:208) still gives it,  *)
(* and the task then marks the season over the report.                     *)
(***************************************************************************)
SyncedSeasonsComplete ==
    \A s \in synced : episodes[s] < reported[s] => overtaken[s]
=============================================================================
