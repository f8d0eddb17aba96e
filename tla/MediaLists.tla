----------------------------- MODULE MediaLists -----------------------------
(***************************************************************************)
(* A list of the catalogue: visitors ask for it (ListService), which fills *)
(* an empty list with its first page, and the synchronizer loads its pages *)
(* and replaces it.  Every media of a page is looked up in the database or *)
(* fetched and created, with its genres; a genre is kept in a cache of the *)
(* process and in the database.                                            *)
(***************************************************************************)
EXTENDS Naturals, FiniteSets, FiniteSetsExt

CONSTANTS
    ListVisitors,
    PageCount,     \* pages of the list at TMDB
    PageLimit,     \* pages that are loaded (6)
    MissingPages        \* pages whose media TMDB lists but does not know (404)

ASSUME MediaListAssumption ==
    PageCount \in Nat \ {0} /\ PageLimit \in Nat \ {0} /\ MissingPages \subseteq 2..PageCount

VARIABLES
    row,           \* the list in the database: exists, and its media
    loaders,       \* who loads the list: the visitors and the synchronizer
    medias,        \* media in the database; a page stands for its media
    genres         \* of a media that is not in the database yet: known to
                   \* the cache of genres, to the database

mediaListVars == <<row, loaders, medias, genres>>

Loaders == ListVisitors \cup {"synchronizer"}
ListPages == 1..PageCount
LoaderIdle == [stage |-> "idle", page |-> 1, got |-> {}]

LInit ==
    /\ row = [exists |-> FALSE, content |-> {}]
    /\ loaders = [l \in Loaders |-> LoaderIdle]
    /\ medias = {}
    /\ genres = [cached |-> FALSE, stored |-> FALSE]

LStage(l, stage) == loaders' = [loaders EXCEPT ![l].stage = stage]
Leaves(l) == loaders' = [loaders EXCEPT ![l] = LoaderIdle]

\* What a loader does with a list that has its first page: a visitor is given
\* it in a language, the synchronizer goes on with all of the pages.
Filled(l) == [LoaderIdle EXCEPT !.stage = IF l = "synchronizer" THEN "syncing" ELSE "translating"]

\* getListBySlug: the row is looked up with its media.
AskForList(l) ==
    /\ loaders[l].stage = "idle"
    /\ loaders' = [loaders EXCEPT ![l] = IF ~row.exists THEN [@ EXCEPT !.stage = "creating"]
                                         ELSE IF row.content = {} THEN [@ EXCEPT !.stage = "loading"]
                                         ELSE Filled(l)]
    /\ UNCHANGED <<row, medias, genres>>

\* getOrCreateList: two that both create the row hit its unique slug, and one
\* of them fails.
CreateList(l) ==
    /\ loaders[l].stage = "creating"
    /\ IF row.exists
       THEN Leaves(l) /\ UNCHANGED row
       ELSE LStage(l, "loading") /\ row' = [row EXCEPT !.exists = TRUE]
    /\ UNCHANGED <<medias, genres>>

\* ensureGenres: the cache is refreshed from the database, and a genre that
\* is still unknown is fetched, put in the cache and then stored.  A store
\* that fails fails the page and leaves the cache ahead of the database.
EnsureGenres(l) ==
    /\ loaders[l].stage \in {"loading", "syncing", "translating"} /\ ~genres.cached
    /\ \/ genres' = [cached |-> TRUE, stored |-> TRUE] /\ UNCHANGED loaders
       \/ genres' = [genres EXCEPT !.cached = TRUE] /\ ~genres.stored /\ Leaves(l)
       \/ Leaves(l) /\ UNCHANGED genres
    /\ UNCHANGED <<row, medias>>

\* A process that starts has an empty cache.
ForgetGenres ==
    /\ genres.cached /\ \A l \in Loaders : loaders[l].stage = "idle"
    /\ genres' = [genres EXCEPT !.cached = FALSE]
    /\ UNCHANGED <<row, loaders, medias>>

\* getList: what TMDB lists on a page.
Listed(p) == {p}

\* getMovieByTmdbId, getTVShowByTmdbId: a media is found, or created, or not
\* known to TMDB and left out.
FoundOn(p) == Listed(p) \ MissingPages

\* Mutation: the synchronizer goes on until it has asked for a page too many.
LastPageAndOne == PageCount + 1

\* The synchronizer goes on while there are pages it may load.
LastPage == Min({PageCount, PageLimit})

\* Mutation: the synchronizer stores after every page.
LoadPageIncrementally(l) ==
    /\ loaders[l].stage \in {"loading", "syncing"} /\ genres.cached
    /\ LET t == loaders[l]
           p == t.page
       IN  /\ medias' = medias \cup FoundOn(p)
           /\ row' = IF t.stage = "syncing" THEN [row EXCEPT !.content = FoundOn(p)] ELSE row
           /\ loaders' = [loaders EXCEPT ![l] = [t EXCEPT !.page = p + 1, !.got = @ \cup FoundOn(p),
                              !.stage = IF @ = "loading" THEN "storingFirst"
                                        ELSE IF p = LastPage THEN "storing" ELSE "syncing"]]
    /\ UNCHANGED genres

\* getListContentFromApi for the loader's page.
LoadPage(l) ==
    /\ loaders[l].stage \in {"loading", "syncing"} /\ genres.cached
    /\ LET t == loaders[l]
           p == t.page
       IN  /\ medias' = medias \cup FoundOn(p)
           /\ loaders' = [loaders EXCEPT ![l] = [t EXCEPT !.page = p + 1, !.got = @ \cup FoundOn(p),
                              !.stage = IF @ = "loading" THEN "storingFirst"
                                        ELSE IF p = LastPage THEN "storing" ELSE "syncing"]]
    /\ UNCHANGED <<row, genres>>

\* TMDB or the database fails: the request or the run of the task is over.
LoadFails(l) ==
    /\ loaders[l].stage \in {"loading", "syncing"}
    /\ Leaves(l)
    /\ UNCHANGED <<row, medias, genres>>

\* Mutation: the content is cleared in the table before it is filled.
StoreClearing(l) ==
    /\ loaders[l].stage \in {"storingFirst", "storing"}
    /\ IF row.content = {}
       THEN /\ row' = [row EXCEPT !.content = loaders[l].got]
            /\ loaders' = [loaders EXCEPT ![l] = IF @.stage = "storing" THEN LoaderIdle ELSE Filled(l)]
       ELSE row' = [row EXCEPT !.content = {}] /\ UNCHANGED loaders
    /\ UNCHANGED <<medias, genres>>

\* updateListContent: the whole content is replaced by what was loaded.
StoreList(l) ==
    /\ loaders[l].stage \in {"storingFirst", "storing"}
    /\ row' = [row EXCEPT !.content = loaders[l].got]
    /\ loaders' = [loaders EXCEPT ![l] = IF @.stage = "storing" THEN LoaderIdle ELSE Filled(l)]
    /\ UNCHANGED <<medias, genres>>

\* mediasWithLanguage, once the genres are known: the visitor is answered.
Translate(l) ==
    /\ loaders[l].stage = "translating" /\ genres.cached
    /\ Leaves(l)
    /\ UNCHANGED <<row, medias, genres>>

LNext ==
    \/ \E l \in Loaders :
          \/ AskForList(l) \/ CreateList(l) \/ EnsureGenres(l)
          \/ LoadPage(l) \/ LoadFails(l) \/ StoreList(l) \/ Translate(l)
    \/ ForgetGenres

LSpec == LInit /\ [][LNext]_mediaListVars

-----------------------------------------------------------------------------
FirstPage == {1}
AllPages == (1..LastPage) \ MissingPages

LTypeOK ==
    /\ row.exists \in BOOLEAN /\ row.content \subseteq ListPages
    /\ \A l \in Loaders : loaders[l].stage \in {"idle", "creating", "loading", "syncing", "storingFirst",
                                                "storing", "translating"}
    /\ medias \subseteq ListPages
    /\ genres \in [cached : BOOLEAN, stored : BOOLEAN]

(***************************************************************************)
(* "Not liking the idea of incremental loading, it can lead to problems    *)
(* where the list gets periodically empty" (list.syncronizer.ts:40).  With *)
(* visitors who load the list at the same time, and loads that fail at any *)
(* page, what a visitor finds is nothing before the first load, the first  *)
(* page or all of the pages, and every media of it is in the database.     *)
(***************************************************************************)
ListIsWhole ==
    /\ row.content \in {{}, FirstPage, AllPages}
    /\ row.content \subseteq medias
    /\ row.content # {} => row.exists

(***************************************************************************)
(* A list that was filled is never empty again, although every load starts *)
(* by clearing it (list.service.ts:74-91).                                 *)
(***************************************************************************)
NeverEmptiedAgain == [][row.content # {} => row'.content # {}]_mediaListVars
=============================================================================
