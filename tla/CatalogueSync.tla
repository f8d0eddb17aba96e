---------------------------- MODULE CatalogueSync ----------------------------
(***************************************************************************)
(* TmdbService keeps the movies and the shows of the database up to date:  *)
(* syncMovies and syncTVShows ask TMDB for what changed since the last     *)
(* sync, one chunk (a day) after the other, update what the database       *)
(* knows, and store after every chunk how far they came, so that a sync    *)
(* that fails or a process that dies goes on from there.  Both are the     *)
(* same loop; one of them is modelled.  The details of a title are cached  *)
(* for an hour, so an update may write what was fetched before the change. *)
(*                                                                         *)
(* Time is counted in ticks; a day has Day of them and the least time      *)
(* between two syncs (one hour) is one.                                    *)
(***************************************************************************)
EXTENDS Integers, Sequences, FiniteSets, FiniteSetsExt

CONSTANTS
    Titles,
    Day,          \* ticks of a day
    WindowDays,   \* how far back TMDB is asked (14 days)
    Ttl,          \* ticks for which the details of a title are cached
    MaxTime,      \* bound on the clock
    MaxChanges    \* bound on the changes of a title

ASSUME CatalogueAssumption ==
    /\ Day \in Nat \ {0} /\ WindowDays \in Nat \ {0} /\ Ttl \in Nat \ {0}
    /\ MaxTime \in Nat /\ MaxChanges \in Nat

VARIABLES
    clock,
    changes,      \* TMDB: the times at which each title changed
    fetchedAt,    \* when the details in the database were fetched; -1: not in it
    cachedAt,     \* when the details in the cache were fetched; -1: not in it
    givenUpAt,    \* when an update of the title was last tried and failed
    lastSync,     \* SyncState; NeverSynced
    sync,         \* the sync that is running: the chunks left, its start, its titles
    horizon       \* history: the latest start that left earlier changes out

catalogueVars == <<clock, changes, fetchedAt, cachedAt, givenUpAt, lastSync, sync, horizon>>

NeverSynced == -1
NoSync == [on |-> FALSE, now |-> 0, chunks |-> <<>>, todo |-> {}, asked |-> FALSE]

CInit ==
    /\ clock = 0
    /\ changes = [m \in Titles |-> {}]
    /\ fetchedAt = [m \in Titles |-> -1]
    /\ cachedAt = [m \in Titles |-> -1]
    /\ givenUpAt = [m \in Titles |-> -1]
    /\ lastSync = NeverSynced
    /\ sync = NoSync
    /\ horizon = 0

StartOfDay(t) == (t \div Day) * Day

\* A title changes at TMDB.
ChangesAtTmdb(m) ==
    /\ Cardinality(changes[m]) < MaxChanges
    /\ changes' = [changes EXCEPT ![m] = @ \cup {clock}]
    /\ UNCHANGED <<clock, fetchedAt, cachedAt, givenUpAt, lastSync, sync, horizon>>

\* getMovieDetails, getTVShowDetails: the answer in the cache while it is
\* fresh, and a new one otherwise.
FreshDetails(m) == IF cachedAt[m] # -1 /\ clock - cachedAt[m] < Ttl THEN cachedAt[m] ELSE clock
Fetch(m) == cachedAt' = [cachedAt EXCEPT ![m] = FreshDetails(m)]

\* The row, its translations and its genres.
Written(m) == [fetchedAt EXCEPT ![m] = FreshDetails(m)]

\* getMovieFromRepoOrFetchIt, getTVShowFromRepoOrFetchIt: a title that is
\* asked for and unknown is fetched and created; the creation may fail.
FetchTitle(m) ==
    /\ fetchedAt[m] = -1
    /\ Fetch(m)
    /\ fetchedAt' \in {Written(m), fetchedAt}
    /\ UNCHANGED <<clock, changes, givenUpAt, lastSync, sync, horizon>>

\* The midnights from the start to now.
ChunksFrom(start, now) ==
    [i \in 1..(IF start < now THEN (now - start + Day - 1) \div Day ELSE 0) |->
        start + (i - 1) * Day]

\* Where a sync starts to look: the last sync, a day ago when there was none,
\* and no further back than TMDB answers.
Since(now) ==
    LET from == IF lastSync = NeverSynced THEN now - Day ELSE lastSync
    IN  IF from < now - WindowDays * Day THEN now - WindowDays * Day ELSE from

\* The scheduler starts a sync; within an hour of the last one it returns.
StartSync ==
    /\ ~sync.on
    /\ clock - (IF lastSync = NeverSynced THEN clock - Day ELSE lastSync) >= 1
    /\ sync' = [on |-> TRUE, now |-> clock, chunks |-> ChunksFrom(StartOfDay(Since(clock)), clock),
                todo |-> {}, asked |-> FALSE]
    /\ horizon' = IF Since(clock) # lastSync THEN Max({horizon, StartOfDay(Since(clock))})
                  ELSE horizon
    /\ UNCHANGED <<clock, changes, fetchedAt, cachedAt, givenUpAt, lastSync>>

\* getAllChangedMovieIds: dates only, so the whole of the first and of the
\* last day of the chunk; then findByTMDBId, which drops what is unknown.
ChangedIn(from, to) ==
    {m \in Titles : \E c \in changes[m] : StartOfDay(from) <= c /\ c < StartOfDay(to) + Day}

\* The end of the chunk: a second before midnight, or now for the last one.
ChunkEnd == IF Len(sync.chunks) > 1 THEN sync.chunks[1] + Day - 1 ELSE sync.now

AskForChanges ==
    /\ sync.on /\ ~sync.asked /\ sync.chunks # <<>>
    /\ sync' = [sync EXCEPT !.asked = TRUE,
                            !.todo = {m \in ChangedIn(sync.chunks[1], ChunkEnd) : fetchedAt[m] # -1}]
    /\ UNCHANGED <<clock, changes, fetchedAt, cachedAt, givenUpAt, lastSync, horizon>>

\* updateMovie, updateTVShow.  An update that fails, before or after the
\* details were fetched, is logged, and the sync goes on.
UpdateTitle(m) ==
    /\ sync.on /\ m \in sync.todo
    /\ sync' = [sync EXCEPT !.todo = @ \ {m}]
    /\ \/ Fetch(m) /\ fetchedAt' = Written(m) /\ UNCHANGED givenUpAt
       \/ /\ givenUpAt' = [givenUpAt EXCEPT ![m] = clock]
          /\ UNCHANGED fetchedAt
          /\ Fetch(m) \/ UNCHANGED cachedAt
    /\ UNCHANGED <<clock, changes, lastSync, horizon>>

\* Mutation: the time the sync started is stored after every chunk.
ReachedNow == sync.now

\* What is stored after a chunk: the midnight that ends it, or now.
Reached == IF Len(sync.chunks) > 1 THEN sync.chunks[1] + Day ELSE sync.now

EndChunk ==
    /\ sync.on /\ sync.asked /\ sync.todo = {}
    /\ lastSync' = Reached
    /\ sync' = IF Len(sync.chunks) = 1 THEN NoSync
               ELSE [sync EXCEPT !.chunks = Tail(@), !.asked = FALSE]
    /\ UNCHANGED <<clock, changes, fetchedAt, cachedAt, givenUpAt, horizon>>

\* TMDB does not answer, or the process dies: the sync is gone.
SyncLost ==
    /\ sync.on
    /\ sync' = NoSync
    /\ UNCHANGED <<clock, changes, fetchedAt, cachedAt, givenUpAt, lastSync, horizon>>

CatalogueTime ==
    /\ clock < MaxTime
    /\ clock' = clock + 1
    /\ UNCHANGED <<changes, fetchedAt, cachedAt, givenUpAt, lastSync, sync, horizon>>

CNext ==
    \/ \E m \in Titles : ChangesAtTmdb(m) \/ FetchTitle(m) \/ UpdateTitle(m)
    \/ StartSync
    \/ AskForChanges
    \/ EndChunk
    \/ SyncLost
    \/ CatalogueTime

CSpec == CInit /\ [][CNext]_catalogueVars

-----------------------------------------------------------------------------
CTypeOK ==
    /\ clock \in 0..MaxTime
    /\ \A m \in Titles : /\ changes[m] \subseteq 0..MaxTime
                         /\ fetchedAt[m] \in -1..MaxTime /\ cachedAt[m] \in -1..MaxTime /\ givenUpAt[m] \in -1..MaxTime
    /\ lastSync \in -1..MaxTime /\ horizon \in 0..MaxTime
    /\ sync.on \in BOOLEAN /\ sync.todo \subseteq Titles

(***************************************************************************)
(* A sync never passes over a change.  Whatever fails, dies and is         *)
(* repeated, a change before the stored date of the last sync is either in *)
(* the database, up to the age of a cached answer, or an update of its     *)
(* title was tried after it and failed, or it lies before what a sync      *)
(* could still ask for (tmdb.service.ts:730-897).                          *)
(***************************************************************************)
NoChangeSkipped ==
    \A m \in Titles : fetchedAt[m] # -1 =>
        \A c \in changes[m] :
            (c < lastSync /\ c >= horizon) =>
                fetchedAt[m] > c - Ttl \/ givenUpAt[m] >= c
=============================================================================
