--------------------------- MODULE CataloguingProofs ---------------------------
(***************************************************************************)
(* Proofs about the components that keep the catalogue (the search for     *)
(* sources, the seasons, the lists, the changes at TMDB), the links of     *)
(* users and the configuration.                                            *)
(***************************************************************************)
EXTENDS MCCataloguing, TLAPS, FiniteSetTheorems, FunctionTheorems, SequenceTheorems,
        WellFoundedInduction
--------------------------------------------------------------------------------
(* SourceSearch.  Every search starts from a movie none of whose           *)
(* directories has been searched, so that all searches of one movie have   *)
(* one key: with directories searched there are sources, and with sources  *)
(* nobody searches.                                                        *)
Names == {"YTS", "TheRARBG"}
FirstKey(m) == <<m, {}>>

Searching == [key : {FirstKey(m) : m \in SMovies}, movie : SMovies, asked : SUBSET Names,
              step : {"start", "ask", "save"}, from : Names \cup {"none"}, found : SUBSET Hashes]

Visiting == [step : {"home", "look", "search", "await", "answered"},
             route : {"none", "details", "key", "stream"}, movie : SMovies \cup {-1},
             dirs : SUBSET Names, sources : SUBSET Hashes,
             key : {NoKey} \cup {FirstKey(m) : m \in SMovies}]

SearchTyped ==
    /\ searched \in [SMovies -> SUBSET Names]
    /\ rows \in [SMovies -> SUBSET Hashes]
    /\ flights \subseteq Searching
    /\ visits \in [Visitors -> Visiting]

OneKeyPerMovie ==
    /\ \A m \in SMovies : searched[m] # {} => rows[m] # {}
    /\ \A f \in flights : /\ f.key = FirstKey(f.movie)
                          /\ f.step = "save" => f.found # {} /\ f.from \in Names
    /\ \A f, g \in flights : f.movie = g.movie => f = g
    /\ \A v \in Visitors :
          LET r == visits[v]
          IN  r.step # "home" =>
                 /\ r.movie \in SMovies
                 /\ r.dirs # {} => rows[r.movie] # {} /\ r.step # "search"

SearchInv == SearchTyped /\ OneKeyPerMovie

LEMMA DirectoryNamed == \A asked : NextDirectory(asked) \in Names \cup {"none"}
<1> SUFFICES ASSUME NEW asked, NextDirectory(asked) # "none"
             PROVE  NextDirectory(asked) \in Names
    OBVIOUS
<1> DEFINE left == {i \in DOMAIN Directories : Directories[i] \notin asked}
<1>1. DOMAIN Directories = 1 .. 2 /\ Directories[1] = "YTS" /\ Directories[2] = "TheRARBG"
  BY DEF Directories
<1>2. left # {} /\ NextDirectory(asked) = Directories[CHOOSE i \in left : \A j \in left : i <= j]
  BY DEF NextDirectory
<1>3. \E i \in left : \A j \in left : i <= j
  <2>1. CASE 1 \in left
    BY <1>1, <2>1
  <2>2. CASE 1 \notin left
    BY <1>1, <1>2, <2>2
  <2> QED
    BY <2>1, <2>2
<1>4. (CHOOSE i \in left : \A j \in left : i <= j) \in left
  BY <1>3
<1> QED
  BY <1>1, <1>2, <1>4 DEF Names

(* A search that is joined or started has the one key of its movie.        *)
LEMMA JoinKeeps ==
    ASSUME SearchInv, NEW m \in SMovies, NEW demand, Join(m, {}, demand)
    PROVE  /\ flights' \subseteq Searching
           /\ \A f \in flights' : /\ f.key = FirstKey(f.movie)
                                  /\ f.step = "save" => f.found # {} /\ f.from \in Names
           /\ \A f, g \in flights' : f.movie = g.movie => f = g
<1> DEFINE new == [key |-> FirstKey(m), movie |-> m, asked |-> {}, step |-> "start",
                   from |-> "none", found |-> {}]
<1>1. new \in Searching
  BY DEF Searching
<1>2. \/ flights' = flights
      \/ flights' = flights \cup {new} /\ \A f \in flights : f.key # FirstKey(m)
  BY DEF Join, FlightKey, InFlight, FirstKey
<1>3. new.key = FirstKey(new.movie) /\ new.step # "save" /\ new.movie = m
  OBVIOUS
<1> HIDE DEF new
<1> QED
  BY <1>1, <1>2, <1>3 DEF SearchInv, SearchTyped, OneKeyPerMovie

(* A search that goes on stays the search of its movie.                    *)
LEMMA BecomesKeeps ==
    ASSUME SearchInv, NEW f \in flights, NEW g \in Searching, Becomes(f, g),
           g.key = f.key, g.movie = f.movie,
           g.step = "save" => g.found # {} /\ g.from \in Names
    PROVE  /\ flights' \subseteq Searching
           /\ \A h \in flights' : /\ h.key = FirstKey(h.movie)
                                  /\ h.step = "save" => h.found # {} /\ h.from \in Names
           /\ \A h, i \in flights' : h.movie = i.movie => h = i
  BY DEF SearchInv, SearchTyped, OneKeyPerMovie, Becomes

(* A search that ends wakes the requests that wait for it.                 *)
LEMMA LandKeeps ==
    ASSUME SearchInv, NEW f \in flights, NEW sources \in SUBSET Hashes, Land(f, sources)
    PROVE  /\ flights' \subseteq flights
           /\ visits' \in [Visitors -> Visiting]
           /\ \A v \in Visitors : /\ visits'[v].movie = visits[v].movie
                                  /\ visits'[v].dirs = visits[v].dirs
                                  /\ visits'[v].step = "home" <=> visits[v].step = "home"
                                  /\ visits'[v].step = "search" <=> visits[v].step = "search"
<1>1. flights' \subseteq flights
  BY DEF Land
<1>2. ASSUME NEW v \in Visitors
      PROVE  /\ visits'[v] \in Visiting
             /\ visits'[v].movie = visits[v].movie
             /\ visits'[v].dirs = visits[v].dirs
             /\ visits'[v].step = "home" <=> visits[v].step = "home"
             /\ visits'[v].step = "search" <=> visits[v].step = "search"
  <2>1. visits[v] \in Visiting
    BY DEF SearchInv, SearchTyped
  <2>2. CASE visits'[v] = visits[v]
    BY <2>1, <2>2
  <2>3. CASE /\ visits[v].step = "await"
             /\ visits'[v] = [visits[v] EXCEPT !.step = "answered", !.sources = sources, !.key = NoKey]
    BY <2>1, <2>3 DEF Visiting
  <2> QED
    BY <2>2, <2>3 DEF Land
<1>3. visits' \in [Visitors -> Visiting]
  BY <1>2 DEF Land
<1> QED
  BY <1>1, <1>2, <1>3

LEMMA SearchStep == SearchInv /\ [SSNext]_ssVars => SearchInv'
<1> SUFFICES ASSUME SearchInv, [SSNext]_ssVars PROVE SearchInv'
    OBVIOUS
<1> USE DEF SearchInv
<1> USE SSAssumption
<1>1. CASE BackgroundSearch
  <2>1. PICK m \in SMovies : searched[m] = {} /\ Join(m, {}, FALSE)
    BY <1>1 DEF BackgroundSearch, Pending
  <2>2. UNCHANGED <<searched, rows, visits>>
    BY <1>1 DEF BackgroundSearch
  <2> QED
    BY <2>1, <2>2, JoinKeeps DEF SearchTyped, OneKeyPerMovie
<1>2. ASSUME NEW f \in flights, NEW sources \in SUBSET Hashes, Land(f, sources),
             UNCHANGED <<searched, rows>>
      PROVE  SearchInv'
  BY <1>2, LandKeeps DEF SearchTyped, OneKeyPerMovie
<1>3. ASSUME NEW f \in flights, NEW g \in Searching, Becomes(f, g),
             g.key = f.key, g.movie = f.movie,
             g.step = "save" => g.found # {} /\ g.from \in Names,
             UNCHANGED <<searched, rows, visits>>
      PROVE  SearchInv'
  BY <1>3, BecomesKeeps DEF SearchTyped, OneKeyPerMovie
<1>4. ASSUME NEW f \in flights, PassGate(f) PROVE SearchInv'
  <2>1. f \in Searching
    BY DEF SearchTyped
  <2>2. CASE gateOpen
    <3>1. [f EXCEPT !.step = "ask"] \in Searching
      BY <2>1 DEF Searching
    <3>2. /\ [f EXCEPT !.step = "ask"].step = "ask"
          /\ [f EXCEPT !.step = "ask"].key = f.key
          /\ [f EXCEPT !.step = "ask"].movie = f.movie
      BY <2>1 DEF Searching
    <3> QED
      BY <1>3, <1>4, <2>2, <3>1, <3>2 DEF PassGate
  <2>3. CASE ~gateOpen
    BY <1>2, <1>4, <2>3 DEF PassGate
  <2> QED
    BY <2>2, <2>3
<1>5. ASSUME NEW f \in flights, NEW found \in SUBSET Hashes, AskDirectory(f, found)
      PROVE  SearchInv'
  <2> DEFINE next == NextDirectory(f.asked)
             asked == [f EXCEPT !.asked = @ \cup {next}]
             saving == [f EXCEPT !.step = "save", !.from = next, !.found = found]
  <2>1. f \in Searching /\ f.step = "ask" /\ next \in Names
    BY <1>5, DirectoryNamed DEF AskDirectory, SearchTyped, Names
  <2>2. CASE found = {}
    <3>1. /\ asked \in Searching /\ asked.step = "ask"
          /\ asked.key = f.key /\ asked.movie = f.movie
      BY <2>1 DEF Searching
    <3>2. Becomes(f, asked) /\ UNCHANGED <<searched, rows, visits>>
      BY <1>5, <2>2 DEF AskDirectory
    <3> HIDE DEF asked
    <3> QED
      BY <1>3, <3>1, <3>2
  <2>3. CASE found # {}
    <3>1. /\ saving \in Searching /\ saving.found = found /\ saving.from = next
          /\ saving.key = f.key /\ saving.movie = f.movie
      BY <2>1 DEF Searching
    <3>2. Becomes(f, saving) /\ UNCHANGED <<searched, rows, visits>>
      BY <1>5, <2>3 DEF AskDirectory
    <3> HIDE DEF saving
    <3> QED
      BY <1>3, <2>1, <2>3, <3>1, <3>2
  <2> QED
    BY <2>2, <2>3
<1>6. ASSUME NEW f \in flights, NothingFound(f) \/ SaveFails(f) PROVE SearchInv'
  BY <1>2, <1>6 DEF NothingFound, MarkAttempt, SaveFails
<1>7. ASSUME NEW f \in flights, SaveSource(f) PROVE SearchInv'
  <2>1. f \in Searching
    BY DEF SearchTyped
  <2>2. PICK h \in f.found \ rows[f.movie] : rows' = [rows EXCEPT ![f.movie] = @ \cup {h}]
    BY <1>7 DEF SaveSource
  <2>3. /\ rows' \in [SMovies -> SUBSET Hashes]
        /\ \A m \in SMovies : rows[m] \subseteq rows'[m]
    BY <2>1, <2>2 DEF SearchTyped, Searching
  <2>4. UNCHANGED <<searched, flights, visits>>
    BY <1>7 DEF SaveSource
  <2> QED
    BY <2>3, <2>4 DEF SearchTyped, OneKeyPerMovie
<1>8. ASSUME NEW f \in flights, MarkSearched(f) PROVE SearchInv'
  <2>1. f \in Searching /\ f.found # {} /\ f.from \in Names
    BY <1>8 DEF MarkSearched, SearchTyped, OneKeyPerMovie
  <2>2. rows[f.movie] # {} /\ f.movie \in SMovies /\ f.found \in SUBSET Hashes
    BY <1>8, <2>1 DEF MarkSearched, Searching
  <2>3. /\ searched' \in [SMovies -> SUBSET Names]
        /\ \A m \in SMovies : searched'[m] # {} => rows[m] # {}
    BY <1>8, <2>1, <2>2 DEF MarkSearched, SearchTyped, OneKeyPerMovie
  <2>4. Land(f, f.found) /\ UNCHANGED rows
    BY <1>8 DEF MarkSearched
  <2> QED
    BY <2>2, <2>3, <2>4, LandKeeps DEF SearchTyped, OneKeyPerMovie
<1>9. ASSUME NEW v \in Visitors, NEW new \in Visiting, visits' = [visits EXCEPT ![v] = new],
             new.step # "home" => /\ new.movie \in SMovies
                                  /\ new.dirs # {} => rows[new.movie] # {} /\ new.step # "search",
             UNCHANGED <<searched, rows, flights>>
      PROVE  SearchInv'
  BY <1>9 DEF SearchTyped, OneKeyPerMovie
<1>10. ASSUME NEW v \in Visitors, NEW m \in SMovies, NEW route \in {"details", "key", "stream"},
              ReadMovie(v, m, route)
       PROVE  SearchInv'
  <2> DEFINE new == [AtHome EXCEPT !.step = "look", !.route = route, !.movie = m,
                                   !.dirs = searched[m]]
  <2>1. /\ new \in Visiting /\ new.step = "look" /\ new.movie = m /\ new.dirs = searched[m]
    BY DEF AtHome, Visiting, SearchTyped
  <2>2. visits' = [visits EXCEPT ![v] = new] /\ UNCHANGED <<searched, rows, flights>>
    BY <1>10 DEF ReadMovie
  <2> HIDE DEF new
  <2> QED
    BY <1>9, <2>1, <2>2 DEF OneKeyPerMovie
<1>11. ASSUME NEW v \in Visitors, FindSources(v) PROVE SearchInv'
  <2> DEFINE r == visits[v]
             new == [r EXCEPT !.step = IF rows[r.movie] # {} THEN "answered" ELSE "search",
                              !.sources = rows[r.movie]]
  <2>1. r \in Visiting /\ r.movie \in SMovies /\ (r.dirs # {} => rows[r.movie] # {})
    BY <1>11 DEF FindSources, SearchTyped, OneKeyPerMovie
  <2>2. /\ new \in Visiting /\ new.movie = r.movie /\ new.dirs = r.dirs
        /\ rows[r.movie] # {} => new.step # "search"
    BY <2>1 DEF Visiting, SearchTyped
  <2>3. visits' = [visits EXCEPT ![v] = new] /\ UNCHANGED <<searched, rows, flights>>
    BY <1>11 DEF FindSources, SearchTyped
  <2> HIDE DEF new
  <2> QED
    BY <1>9, <2>1, <2>2, <2>3
<1>12. ASSUME NEW v \in Visitors, SearchOnDemand(v) PROVE SearchInv'
  <2> DEFINE r == visits[v]
             new == [r EXCEPT !.step = "await", !.key = FirstKey(r.movie)]
  <2>1. r \in Visiting /\ r.movie \in SMovies /\ r.dirs = {}
    BY <1>12 DEF SearchOnDemand, SearchTyped, OneKeyPerMovie
  <2>2. Join(r.movie, {}, TRUE) /\ UNCHANGED <<searched, rows>>
    BY <1>12, <2>1 DEF SearchOnDemand
  <2>3. new \in Visiting /\ new.movie = r.movie /\ new.dirs = r.dirs
    BY <2>1 DEF Visiting
  <2>4. visits' = [visits EXCEPT ![v] = new]
    BY <1>12, <2>1 DEF SearchOnDemand, FlightKey, FirstKey, SearchTyped
  <2> HIDE DEF new
  <2> QED
    BY <2>1, <2>2, <2>3, <2>4, JoinKeeps DEF SearchTyped, OneKeyPerMovie
<1>13. ASSUME NEW v \in Visitors, TimeOut(v) PROVE SearchInv'
  <2> DEFINE r == visits[v]
             new == [r EXCEPT !.step = "answered", !.sources = {}, !.key = NoKey]
  <2>1. r \in Visiting /\ r.movie \in SMovies /\ (r.dirs # {} => rows[r.movie] # {})
    BY <1>13 DEF TimeOut, SearchTyped, OneKeyPerMovie
  <2>2. new \in Visiting /\ new.movie = r.movie /\ new.dirs = r.dirs /\ new.step = "answered"
    BY <2>1 DEF Visiting
  <2>3. visits' = [visits EXCEPT ![v] = new] /\ UNCHANGED <<searched, rows, flights>>
    BY <1>13 DEF TimeOut, SearchTyped
  <2> HIDE DEF new
  <2> QED
    BY <1>9, <2>1, <2>2, <2>3
<1>14. ASSUME NEW v \in Visitors, Respond(v) PROVE SearchInv'
  <2> DEFINE r == visits[v]
             new == [r EXCEPT !.step = "look", !.route = "stream"]
  <2>1. r \in Visiting /\ r.movie \in SMovies /\ (r.dirs # {} => rows[r.movie] # {})
    BY <1>14 DEF Respond, SearchTyped, OneKeyPerMovie
  <2>2. new \in Visiting /\ new.movie = r.movie /\ new.dirs = r.dirs /\ new.step = "look"
    BY <2>1 DEF Visiting
  <2>3. AtHome \in Visiting /\ AtHome.step = "home"
    BY DEF AtHome, Visiting
  <2>4. /\ visits' = [visits EXCEPT ![v] = new] \/ visits' = [visits EXCEPT ![v] = AtHome]
        /\ UNCHANGED <<searched, rows, flights>>
    BY <1>14 DEF Respond
  <2> HIDE DEF new
  <2> QED
    BY <1>9, <2>1, <2>2, <2>3, <2>4
<1>15. CASE UNCHANGED <<searched, rows, flights, visits>>
  BY <1>15 DEF SearchTyped, OneKeyPerMovie
<1> QED
  BY <1>1, <1>4, <1>5, <1>6, <1>7, <1>8, <1>10, <1>11, <1>12, <1>13, <1>14, <1>15
     DEF SSNext, Flight, ssVars, StartBatch, FetchFile, GateMoves, TimePasses

(* A movie is never searched twice at once, whoever asks for it and        *)
(* whenever they read what was searched: for any movies and requests.      *)
THEOREM SearchedOnce == SSSpec => []OneFlightPerMovie
<1>1. SSInit => SearchInv
  BY DEF SSInit, SearchInv, SearchTyped, OneKeyPerMovie, AtHome, Visiting
<1>2. SearchInv => OneFlightPerMovie
  BY DEF SearchInv, OneKeyPerMovie, OneFlightPerMovie
<1> QED
  BY <1>1, <1>2, SearchStep, PTL DEF SSSpec
--------------------------------------------------------------------------------
(* SeasonSync.  An answer that is under way or in the cache and is older   *)
(* than the last report of its season was there when the report came.     *)
Hydrations == [show : KnownShows, answer : Nat] \cup {NoHydration}

SeasonTyped ==
    /\ atTmdb \in [Shows -> Nat] /\ episodes \in [Shows -> Nat] /\ reported \in [Shows -> Nat]
    /\ cachedSeason \in [Shows -> Nat \cup {NoAnswer}]
    /\ dbId \in [Shows -> Nat]
    /\ overtaken \in [Shows -> BOOLEAN]
    /\ IsFiniteSet(KnownShows)
    /\ synced \subseteq KnownShows
    /\ hydrating \in Hydrations

OldOvertaken(s) ==
    /\ reported[s] <= atTmdb[s]
    /\ cachedSeason[s] # NoAnswer => cachedSeason[s] >= reported[s] \/ overtaken[s]
    /\ hydrating.show = s => /\ hydrating.answer >= reported[s] \/ overtaken[s]
                             /\ cachedSeason[s] \in {NoAnswer, hydrating.answer}

OldAnswersOvertaken == \A s \in KnownShows : OldOvertaken(s)

SeasonInv == SeasonTyped /\ OldAnswersOvertaken /\ SyncedSeasonsComplete

LEMMA LeastNatural ==
    ASSUME NEW S \in SUBSET Nat, S # {}
    PROVE  \E i \in S : \A j \in S : i <= j
<1> DEFINE R == OpToRel(<, Nat)
<1>1. IsWellFoundedOn(R, Nat)
  BY NatLessThanWellFounded
<1>2. R = {ss \in Nat \X Nat : ss[1] < ss[2]}
  BY DEF OpToRel
<1> HIDE DEF R
<1>3. PICK i \in S : \A j \in S : ~(<<j, i>> \in R)
  BY <1>1, WFMin, Zenon
<1>4. ASSUME NEW j \in S PROVE i <= j
  <2>1. <<j, i>> \in Nat \X Nat /\ <<j, i>>[1] = j /\ <<j, i>>[2] = i
    OBVIOUS
  <2>2. j < i => <<j, i>> \in R
    BY <1>2, <2>1
  <2> QED
    BY <1>3, <2>2
<1> QED
  BY <1>3, <1>4

(* The task takes a season, the one of the lowest id, when there is one.   *)
LEMMA FirstIsIncomplete ==
    ASSUME SeasonTyped, Incomplete # {}
    PROVE  FirstIncomplete \in Incomplete
<1> DEFINE ids == {dbId[s] : s \in Incomplete}
<1>1. ids \in SUBSET Nat /\ ids # {}
  BY DEF Incomplete, KnownShows, SeasonTyped
<1>2. PICK i \in ids : \A j \in ids : i <= j
  BY <1>1, LeastNatural, Zenon
<1>3. \E s \in Incomplete : \A q \in Incomplete : dbId[s] <= dbId[q]
  BY <1>2
<1> QED
  BY <1>3 DEF FirstIncomplete

LEMMA SeasonStep == SeasonInv /\ [SeNext]_seasonVars => SeasonInv'
<1> SUFFICES ASSUME SeasonInv, [SeNext]_seasonVars PROVE SeasonInv'
    OBVIOUS
<1> USE SeasonAssumption
<1>t. SeasonTyped
  BY DEF SeasonInv
<1>0. /\ 0 \notin Shows /\ NoAnswer = -1 /\ NoHydration.show = 0
      /\ KnownShows \subseteq Shows /\ \A s \in Shows : s \in KnownShows <=> dbId[s] # 0
  BY DEF NoAnswer, NoHydration, KnownShows
<1>h. /\ hydrating # NoHydration => hydrating.show \in KnownShows /\ hydrating.answer \in Nat
      /\ hydrating.show = 0 <=> hydrating = NoHydration
  BY <1>t, <1>0 DEF SeasonTyped, Hydrations
<1>v. \A q \in Shows : /\ atTmdb[q] \in Nat /\ reported[q] \in Nat /\ episodes[q] \in Nat
                       /\ cachedSeason[q] \in Nat \cup {NoAnswer} /\ overtaken[q] \in BOOLEAN
  BY <1>t DEF SeasonTyped
<1>1. ASSUME UNCHANGED dbId PROVE KnownShows' = KnownShows /\ (hydrating' = hydrating => hydrating' \in Hydrations')
  BY <1>1, <1>t DEF KnownShows, SeasonTyped, Hydrations
<1>2. ASSUME NEW s \in Shows, NewEpisode(s) PROVE SeasonInv'
  <2>1. SeasonTyped'
    BY <1>1, <1>2, <1>t DEF NewEpisode, SeasonTyped
  <2>2. \A q \in Shows : atTmdb'[q] \in Nat /\ atTmdb'[q] >= atTmdb[q]
    BY <1>2, <1>t DEF NewEpisode, SeasonTyped
  <2>3. ASSUME NEW q \in KnownShows PROVE OldOvertaken(q)'
    <3>1. /\ OldOvertaken(q) /\ q \in Shows
          /\ UNCHANGED <<cachedSeason, reported, overtaken, hydrating>>
      BY <1>0, <1>2 DEF NewEpisode, SeasonInv, OldAnswersOvertaken
    <3>2. reported[q] <= atTmdb'[q]
      BY <1>v, <2>2, <3>1 DEF OldOvertaken
    <3> QED
      BY <3>1, <3>2 DEF OldOvertaken
  <2> QED
    BY <1>1, <1>2, <2>1, <2>3 DEF NewEpisode, SeasonInv, OldAnswersOvertaken, SyncedSeasonsComplete
<1>3. ASSUME NEW s \in Shows, CreateShow(s) PROVE SeasonInv'
  <2>1. Cardinality(KnownShows) \in Nat
    BY <1>t, FS_CardinalityType DEF SeasonTyped
  <2>2. NewRow \in Nat /\ NewRow # 0
    BY <2>1 DEF NewRow
  <2>3. dbId' = [dbId EXCEPT ![s] = NewRow]
    BY <1>3 DEF CreateShow
  <2>4. dbId' \in [Shows -> Nat] /\ KnownShows' = KnownShows \cup {s}
    BY <1>t, <2>2, <2>3 DEF SeasonTyped, KnownShows
  <2>5. IsFiniteSet(KnownShows')
    BY <1>t, <2>4, FS_AddElement DEF SeasonTyped
  <2>6. s \notin KnownShows
    BY <1>3 DEF CreateShow, KnownShows
  <2>7. hydrating' \in Hydrations'
    BY <1>3, <1>t, <2>4 DEF CreateShow, SeasonTyped, Hydrations
  <2>8. SeasonTyped'
    BY <1>3, <1>t, <2>4, <2>5, <2>7 DEF CreateShow, SeasonTyped
  <2>9. ASSUME NEW q \in KnownShows' PROVE OldOvertaken(q)'
    <3>1. CASE q \in KnownShows
      BY <1>0, <1>3, <1>t, <2>6, <3>1
         DEF CreateShow, SeasonTyped, OldAnswersOvertaken, OldOvertaken, SeasonInv
    <3>2. CASE q = s
      <4>1. /\ reported'[q] = atTmdb[q] /\ atTmdb'[q] = atTmdb[q] /\ cachedSeason'[q] = cachedSeason[q]
            /\ hydrating' = hydrating
        BY <1>3, <1>t, <3>2 DEF CreateShow, SeasonTyped
      <4>3. cachedSeason[q] # NoAnswer => overtaken'[q]
        BY <1>3, <1>t, <3>2 DEF CreateShow, SeasonTyped
      <4>2. hydrating.show # q
        BY <1>0, <1>h, <2>6, <3>2
      <4> QED
        BY <1>v, <4>1, <4>2, <4>3, <3>2 DEF OldOvertaken
    <3> QED
      BY <2>4, <3>1, <3>2
  <2>10. SyncedSeasonsComplete'
    BY <1>3, <1>t, <2>6 DEF CreateShow, SeasonTyped, SyncedSeasonsComplete, SeasonInv
  <2> QED
    BY <2>8, <2>9, <2>10 DEF SeasonInv, OldAnswersOvertaken
<1>4. ASSUME NEW s \in Shows, OpenShow(s) PROVE SeasonInv'
  BY <1>1, <1>4 DEF OpenShow, SeasonInv, SeasonTyped, OldAnswersOvertaken, OldOvertaken, SyncedSeasonsComplete
<1>5. CASE Hydrate
  <2> DEFINE s == FirstIncomplete
             a == AnswerOf(s)
  <2>1. s \in KnownShows
    BY <1>5, <1>t, FirstIsIncomplete DEF Hydrate, Incomplete
  <2>2. a \in Nat /\ (a >= reported[s] \/ overtaken[s])
    <3> HIDE DEF s
    <3>1. OldOvertaken(s) /\ s \in Shows
      BY <1>0, <2>1 DEF SeasonInv, OldAnswersOvertaken
    <3>2. AnswerOf(s) \in Nat /\ (AnswerOf(s) >= reported[s] \/ overtaken[s])
      BY <1>0, <1>v, <3>1 DEF AnswerOf, OldOvertaken
    <3> QED
      BY <3>2
  <2>3. /\ hydrating' = [show |-> s, answer |-> a]
        /\ cachedSeason' = [cachedSeason EXCEPT ![s] = a]
        /\ UNCHANGED <<atTmdb, dbId, watching, episodes, synced, reported, overtaken>>
    BY <1>5 DEF Hydrate
  <2> HIDE DEF s, a
  <2>4. SeasonTyped'
    <3>1. KnownShows' = KnownShows /\ hydrating' \in Hydrations'
      BY <1>1, <2>1, <2>2, <2>3 DEF Hydrations
    <3> QED
      BY <1>0, <1>t, <2>1, <2>2, <2>3, <3>1 DEF SeasonTyped
  <2>5. OldAnswersOvertaken'
    BY <1>0, <1>1, <1>t, <2>1, <2>2, <2>3 DEF SeasonInv, SeasonTyped, OldAnswersOvertaken, OldOvertaken
  <2> QED
    BY <2>3, <2>4, <2>5 DEF SeasonInv, SyncedSeasonsComplete
<1>6. CASE CreateEpisode
  <2>1. SeasonTyped'
    <3>0. hydrating # NoHydration
      BY <1>6 DEF CreateEpisode
    <3>1. PICK s \in Shows : s = hydrating.show
      BY <1>0, <1>h, <3>0
    <3>2. episodes' = [episodes EXCEPT ![s] = @ + 1]
      BY <1>6, <3>1 DEF CreateEpisode
    <3>3. episodes' \in [Shows -> Nat]
      BY <1>t, <3>2 DEF SeasonTyped
    <3> QED
      BY <1>1, <1>6, <1>t, <3>3 DEF CreateEpisode, SeasonTyped
  <2>2. \A q \in Shows : episodes'[q] \in Nat /\ episodes'[q] >= episodes[q]
    BY <1>0, <1>6, <1>h, <1>t DEF CreateEpisode, SeasonTyped
  <2>3. SyncedSeasonsComplete'
    BY <1>0, <1>6, <1>t, <1>v, <2>2 DEF CreateEpisode, SeasonInv, SeasonTyped, SyncedSeasonsComplete
  <2> QED
    BY <1>1, <1>6, <2>1, <2>3 DEF CreateEpisode, SeasonInv, OldAnswersOvertaken, OldOvertaken
<1>7. CASE MarkAsSynced
  <2> DEFINE s == hydrating.show
  <2>1. s \in KnownShows /\ hydrating.answer \in Nat /\ episodes[s] >= hydrating.answer
    BY <1>7, <1>h DEF MarkAsSynced
  <2>2. /\ synced' = synced \cup {s}
        /\ overtaken' = [overtaken EXCEPT ![s] = @ /\ hydrating.answer < reported[s]]
        /\ hydrating' = NoHydration
        /\ UNCHANGED <<atTmdb, cachedSeason, dbId, watching, episodes, reported>>
    BY <1>7 DEF MarkAsSynced
  <2>a. hydrating.show = s /\ OldOvertaken(s) /\ s \in Shows
    BY <1>0, <2>1 DEF SeasonInv, OldAnswersOvertaken
  <2>b. PICK a \in Nat : a = hydrating.answer
    BY <2>1
  <2> HIDE DEF s
  <2>3. SeasonTyped'
    BY <1>0, <1>1, <1>t, <2>1, <2>2 DEF SeasonTyped, Hydrations
  <2>4. ASSUME NEW q \in synced', episodes'[q] < reported'[q] PROVE overtaken'[q]
    <3>1. q \in KnownShows /\ q \in Shows /\ s \in Shows
      BY <1>0, <1>t, <2>1, <2>2 DEF SeasonTyped
    <3>2. CASE q # s
      <4>1. overtaken'[q] = overtaken[q] /\ q \in synced
        BY <1>t, <2>2, <3>1, <3>2 DEF SeasonTyped
      <4> QED
        BY <2>2, <2>4, <4>1 DEF SeasonInv, SyncedSeasonsComplete
    <3>3. CASE q = s
      <4>1. overtaken[s] /\ hydrating.answer < reported[s] => overtaken'[s]
        BY <1>t, <2>2, <3>1 DEF SeasonTyped
      <4>2. episodes[s] < reported[s] /\ episodes[s] >= a
        BY <2>1, <2>2, <2>4, <2>b, <3>3
      <4>3. a < reported[s]
        BY <1>v, <2>a, <4>2
      <4>4. overtaken[s]
        BY <1>v, <2>a, <2>b, <4>3 DEF OldOvertaken
      <4> QED
        BY <2>b, <3>3, <4>1, <4>3, <4>4
    <3> QED
      BY <3>2, <3>3
  <2>5. ASSUME NEW q \in KnownShows PROVE OldOvertaken(q)'
    <3>1. /\ q # s => overtaken'[q] = overtaken[q]
          /\ overtaken[s] /\ hydrating.answer < reported[s] => overtaken'[s]
      BY <1>0, <1>t, <2>1, <2>2 DEF SeasonTyped
    <3>2. OldOvertaken(q) /\ q \in Shows
      BY <1>0 DEF SeasonInv, OldAnswersOvertaken
    <3>3. CASE q # s
      BY <1>0, <2>2, <3>1, <3>2, <3>3 DEF OldOvertaken
    <3>4. CASE q = s
      <4>1. /\ hydrating'.show # s /\ reported'[s] <= atTmdb'[s]
            /\ cachedSeason'[s] = cachedSeason[s] /\ reported'[s] = reported[s]
        BY <1>0, <2>2, <2>a DEF OldOvertaken
      <4>2. cachedSeason[s] # NoAnswer => cachedSeason[s] = a
        BY <2>a, <2>b DEF OldOvertaken
      <4>3. a >= reported[s] \/ (overtaken[s] /\ a < reported[s])
        BY <1>v, <2>a, <2>b DEF OldOvertaken
      <4>4. cachedSeason[s] # NoAnswer => cachedSeason[s] >= reported[s] \/ overtaken'[s]
        BY <2>b, <3>1, <4>2, <4>3
      <4> QED
        BY <3>4, <4>1, <4>4 DEF OldOvertaken
    <3> QED
      BY <3>3, <3>4
  <2> QED
    BY <1>1, <2>2, <2>3, <2>4, <2>5 DEF SeasonInv, OldAnswersOvertaken, SyncedSeasonsComplete
<1>8. CASE HydrationLost
  BY <1>0, <1>1, <1>8
     DEF HydrationLost, SeasonInv, SeasonTyped, Hydrations, OldAnswersOvertaken, OldOvertaken, SyncedSeasonsComplete
<1>9. ASSUME NEW s \in Shows, ReportChange(s) PROVE SeasonInv'
  <2>1. SeasonTyped'
    BY <1>0, <1>1, <1>9, <1>t DEF ReportChange, SeasonTyped
  <2>2. ASSUME NEW q \in KnownShows PROVE OldOvertaken(q)'
    <3>1. /\ q # s => overtaken'[q] = overtaken[q] /\ reported'[q] = reported[q]
          /\ hydrating.show = s \/ cachedSeason[s] # NoAnswer => overtaken'[s]
          /\ reported'[s] = atTmdb[s]
      BY <1>0, <1>9, <1>t DEF ReportChange, SeasonTyped
    <3>2. OldOvertaken(q) /\ q \in Shows /\ UNCHANGED <<atTmdb, cachedSeason, hydrating>>
      BY <1>0, <1>9 DEF SeasonInv, OldAnswersOvertaken, ReportChange
    <3>3. CASE q # s
      BY <1>0, <3>1, <3>2, <3>3 DEF OldOvertaken
    <3>4. CASE q = s
      BY <1>0, <1>v, <3>1, <3>2, <3>4 DEF OldOvertaken
    <3> QED
      BY <3>3, <3>4
  <2>3. SyncedSeasonsComplete'
    BY <1>0, <1>9, <1>t DEF ReportChange, SeasonInv, SeasonTyped, SyncedSeasonsComplete
  <2> QED
    BY <1>1, <1>9, <2>1, <2>2, <2>3 DEF ReportChange, SeasonInv, OldAnswersOvertaken
<1>10. ASSUME NEW s \in Shows, CacheExpires(s) PROVE SeasonInv'
  BY <1>0, <1>1, <1>10
     DEF CacheExpires, SeasonInv, SeasonTyped, OldAnswersOvertaken, OldOvertaken, SyncedSeasonsComplete
<1>11. CASE UNCHANGED seasonVars
  BY <1>1, <1>11 DEF seasonVars, SeasonInv, SeasonTyped, OldAnswersOvertaken, OldOvertaken, SyncedSeasonsComplete
<1> QED
  BY <1>2, <1>3, <1>4, <1>5, <1>6, <1>7, <1>8, <1>9, <1>10, <1>11 DEF SeNext

(* A season that counts as synced is complete, unless a report overtook    *)
(* the answer it was synced with: for any shows and either mode.           *)
THEOREM SyncedSeasonsAreComplete == SeSpec => []SyncedSeasonsComplete
<1>1. SeInit => SeasonInv
  <2> SUFFICES ASSUME SeInit PROVE SeasonInv
      OBVIOUS
  <2>1. KnownShows = {}
    BY DEF SeInit, KnownShows
  <2>2. IsFiniteSet(KnownShows)
    BY <2>1, FS_EmptySet
  <2> QED
    BY <2>1, <2>2
       DEF SeInit, SeasonInv, SeasonTyped, Hydrations, OldAnswersOvertaken, OldOvertaken, SyncedSeasonsComplete
<1>2. SeasonInv => SyncedSeasonsComplete
  BY DEF SeasonInv
<1> QED
  BY <1>1, <1>2, SeasonStep, PTL DEF SeSpec
--------------------------------------------------------------------------------
(* MediaLists.  Every loader holds exactly the pages it has been through,  *)
(* and what it is about to store is the first page or all of the pages.    *)
LoaderStates ==
    [stage : {"idle", "creating", "loading", "syncing", "storingFirst", "storing", "translating"},
     page : Nat, got : SUBSET Nat]

Progress(t) ==
    /\ t.stage \in {"idle", "creating", "loading", "translating"} => t.page = 1 /\ t.got = {}
    /\ t.stage = "syncing" => t.page \in 1..LastPage /\ t.got = (1..(t.page - 1)) \ MissingPages
    /\ t.stage = "storing" => t.got = AllPages
    /\ t.stage = "storingFirst" => t.got = FirstPage
    /\ t.got \subseteq medias
    /\ t.stage \notin {"idle", "creating"} => row.exists

ListInv ==
    /\ row \in [exists : BOOLEAN, content : SUBSET Nat]
    /\ loaders \in [Loaders -> LoaderStates]
    /\ ListIsWhole
    /\ \A l \in Loaders : Progress(loaders[l])

LEMMA SomethingToLoad == LastPage \in Nat /\ 1 <= LastPage
<1> DEFINE a == PageCount
           b == PageLimit
<1>1. a \in Nat /\ b \in Nat /\ 1 <= a /\ 1 <= b
  BY MediaListAssumption
<1>2. LastPage = CHOOSE x \in {a, b} : \A y \in {a, b} : x <= y
  BY DEF LastPage, Min
<1>3. \E x \in {a, b} : \A y \in {a, b} : x <= y
  <2>1. CASE a <= b
    BY <1>1, <2>1
  <2>2. CASE ~(a <= b)
    BY <1>1, <2>2
  <2> QED
    BY <2>1, <2>2
<1>4. LastPage \in {a, b}
  BY <1>2, <1>3
<1> QED
  BY <1>1, <1>4

LEMMA FirstPageKnown ==
    /\ 1 \in AllPages /\ FirstPage = {1} /\ FoundOn(1) = {1}
    /\ AllPages \subseteq Nat
<1>1. 1 \notin MissingPages
  BY MediaListAssumption
<1> QED
  BY <1>1, SomethingToLoad DEF AllPages, FirstPage, FoundOn, Listed

(* A step of a loader that leaves the list and the media alone.            *)
LEMMA LoaderMoves ==
    ASSUME ListInv, NEW l \in Loaders, NEW t \in LoaderStates, loaders' = [loaders EXCEPT ![l] = t],
           Progress(t), UNCHANGED <<row, medias>>
    PROVE  ListInv'
<1>1. /\ loaders' \in [Loaders -> LoaderStates]
      /\ \A k \in Loaders : loaders'[k] = loaders[k] \/ loaders'[k] = t
  BY DEF ListInv
<1> QED
  BY <1>1 DEF ListInv, ListIsWhole, Progress

(* A list that has its first page goes on from the first page.             *)
LEMMA StartsOver ==
    ASSUME ListInv, NEW l \in Loaders, row.exists
    PROVE  /\ Filled(l) \in LoaderStates /\ LoaderIdle \in LoaderStates
           /\ Progress(Filled(l)) /\ Progress(LoaderIdle)
<1>1. /\ Filled(l).stage \in {"syncing", "translating"} /\ Filled(l).page = 1 /\ Filled(l).got = {}
      /\ Filled(l) \in LoaderStates
  BY DEF Filled, LoaderIdle, LoaderStates
<1>2. /\ LoaderIdle.stage = "idle" /\ LoaderIdle.page = 1 /\ LoaderIdle.got = {}
      /\ LoaderIdle \in LoaderStates
  BY DEF LoaderIdle, LoaderStates
<1>3. 1 \in 1..LastPage /\ 1..(1 - 1) = {}
  BY SomethingToLoad
<1> QED
  BY <1>1, <1>2, <1>3 DEF Progress

LEMMA GivesUp ==
    ASSUME ListInv, NEW l \in Loaders, Leaves(l), UNCHANGED <<row, medias>>
    PROVE  ListInv'
<1>1. LoaderIdle \in LoaderStates /\ Progress(LoaderIdle)
  BY DEF LoaderIdle, LoaderStates, Progress
<1> QED
  BY <1>1, LoaderMoves DEF Leaves

(* What a page adds to the pages before it.                                *)
LEMMA PageAdds ==
    ASSUME NEW p \in Nat, 1 <= p
    PROVE  ((1..(p - 1)) \ MissingPages) \cup FoundOn(p) = (1..p) \ MissingPages
  BY DEF FoundOn, Listed

LEMMA ListStep ==
    ListInv /\ [LNext]_mediaListVars
       => ListInv' /\ (row.content # {} => row'.content # {})
<1> SUFFICES ASSUME ListInv, [LNext]_mediaListVars
             PROVE  ListInv' /\ (row.content # {} => row'.content # {})
    OBVIOUS
<1> USE MediaListAssumption
<1>1. ASSUME NEW l \in Loaders, AskForList(l) PROVE ListInv' /\ UNCHANGED row
  <2>1. loaders[l] \in LoaderStates /\ Progress(loaders[l]) /\ loaders[l].stage = "idle"
    BY <1>1 DEF ListInv, AskForList
  <2>2. CASE ~row.exists
    <3> DEFINE t == [loaders[l] EXCEPT !.stage = "creating"]
    <3>1. /\ t \in LoaderStates /\ t.stage = "creating" /\ t.page = loaders[l].page
          /\ t.got = loaders[l].got
      BY <2>1 DEF LoaderStates
    <3>2. loaders' = [loaders EXCEPT ![l] = t] /\ UNCHANGED <<row, medias>>
      BY <1>1, <2>2 DEF AskForList
    <3> HIDE DEF t
    <3> QED
      BY <2>1, <3>1, <3>2, LoaderMoves DEF Progress
  <2>3. CASE row.exists /\ row.content = {}
    <3> DEFINE t == [loaders[l] EXCEPT !.stage = "loading"]
    <3>1. /\ t \in LoaderStates /\ t.stage = "loading" /\ t.page = loaders[l].page
          /\ t.got = loaders[l].got
      BY <2>1 DEF LoaderStates
    <3>2. loaders' = [loaders EXCEPT ![l] = t] /\ UNCHANGED <<row, medias>>
      BY <1>1, <2>3 DEF AskForList
    <3> HIDE DEF t
    <3> QED
      BY <2>1, <2>3, <3>1, <3>2, LoaderMoves DEF Progress
  <2>4. CASE row.exists /\ row.content # {}
    <3>1. loaders' = [loaders EXCEPT ![l] = Filled(l)] /\ UNCHANGED <<row, medias>>
      BY <1>1, <2>4 DEF AskForList
    <3> QED
      BY <2>4, <3>1, StartsOver, LoaderMoves
  <2> QED
    BY <2>2, <2>3, <2>4
<1>2. ASSUME NEW l \in Loaders, CreateList(l) PROVE ListInv' /\ row'.content = row.content
  <2>1. loaders[l] \in LoaderStates /\ Progress(loaders[l]) /\ loaders[l].stage = "creating"
    BY <1>2 DEF ListInv, CreateList
  <2>2. CASE row.exists
    BY <1>2, <2>2, GivesUp DEF CreateList
  <2>3. CASE ~row.exists
    <3> DEFINE t == [loaders[l] EXCEPT !.stage = "loading"]
    <3>1. /\ t \in LoaderStates /\ t.stage = "loading" /\ t.page = loaders[l].page
          /\ t.got = loaders[l].got
      BY <2>1 DEF LoaderStates
    <3>2. /\ loaders' = [loaders EXCEPT ![l] = t] /\ UNCHANGED medias
          /\ row' = [row EXCEPT !.exists = TRUE]
      BY <1>2, <2>3 DEF CreateList, LStage
    <3> HIDE DEF t
    <3>3. /\ row' \in [exists : BOOLEAN, content : SUBSET Nat] /\ row'.exists = TRUE
          /\ row'.content = row.content
      BY <3>2 DEF ListInv
    <3>4. ListIsWhole'
      BY <3>2, <3>3 DEF ListInv, ListIsWhole, FirstPage, AllPages
    <3>5. /\ loaders' \in [Loaders -> LoaderStates]
          /\ \A k \in Loaders : loaders'[k] = loaders[k] \/ loaders'[k] = t
      BY <3>1, <3>2 DEF ListInv
    <3>6. \A k \in Loaders : Progress(loaders[k])'
      BY <2>1, <3>1, <3>2, <3>3, <3>5 DEF ListInv, Progress
    <3> QED
      BY <3>3, <3>4, <3>5, <3>6 DEF ListInv
  <2> QED
    BY <2>2, <2>3
<1>3. ASSUME NEW l \in Loaders, EnsureGenres(l) \/ LoadFails(l) \/ Translate(l)
      PROVE  ListInv' /\ UNCHANGED row
  BY <1>3, GivesUp DEF EnsureGenres, LoadFails, Translate, ListInv, ListIsWhole, Progress
<1>4. ASSUME NEW l \in Loaders, LoadPage(l) PROVE ListInv' /\ UNCHANGED row
  <2> DEFINE p == loaders[l].page
             got == loaders[l].got \cup FoundOn(p)
             next == IF loaders[l].stage = "loading" THEN "storingFirst"
                     ELSE IF p = LastPage THEN "storing" ELSE "syncing"
             t == [loaders[l] EXCEPT !.page = p + 1, !.got = @ \cup FoundOn(p),
                                     !.stage = IF @ = "loading" THEN "storingFirst"
                                               ELSE IF p = LastPage THEN "storing" ELSE "syncing"]
  <2>1. /\ loaders[l] \in LoaderStates /\ Progress(loaders[l])
        /\ loaders[l].stage \in {"loading", "syncing"}
    BY <1>4 DEF ListInv, LoadPage
  <2>2. p \in 1..LastPage /\ p \in Nat /\ FoundOn(p) \subseteq Nat
    BY <2>1, SomethingToLoad DEF Progress, FoundOn, Listed
  <2>4. /\ medias' = medias \cup FoundOn(p) /\ UNCHANGED row
        /\ loaders' = [loaders EXCEPT ![l] = t]
    BY <1>4 DEF LoadPage
  <2>5. next \in {"loading", "storingFirst"} => got = FirstPage
    BY <2>1, FirstPageKnown DEF Progress
  <2>6. loaders[l].stage = "syncing" => got = (1..p) \ MissingPages
    BY <2>1, <2>2, PageAdds DEF Progress
  <2>7. got \subseteq medias' /\ row.exists /\ row'.exists
    BY <2>1, <2>4 DEF Progress
  <2>8. next = "storing" => got = AllPages
    BY <2>1, <2>6 DEF AllPages
  <2>9. next = "syncing" => p + 1 \in 1..LastPage /\ got = (1..((p + 1) - 1)) \ MissingPages
    BY <2>1, <2>2, <2>6, SomethingToLoad
  <2>10. next \in {"storingFirst", "storing", "syncing"}
    OBVIOUS
  <2>14. /\ t \in LoaderStates /\ t.stage = next /\ t.page = p + 1 /\ t.got = got
    <3> DEFINE next1 == p + 1
               u == [loaders[l] EXCEPT !.page = next1, !.got = got, !.stage = next]
    <3>1. t = u
      OBVIOUS
    <3>2. /\ loaders[l] \in LoaderStates /\ next1 \in Nat /\ got \in SUBSET Nat
          /\ next \in {"storingFirst", "storing", "syncing"}
      BY <2>1, <2>2, <2>10 DEF LoaderStates
    <3> HIDE DEF t, next, got, next1
    <3>3. u \in LoaderStates /\ u.page = next1 /\ u.got = got /\ u.stage = next
      BY <3>2 DEF LoaderStates
    <3> HIDE DEF u
    <3> QED
      BY <3>1, <3>3 DEF next1
  <2> HIDE DEF t, next, got
  <2>11. /\ loaders' \in [Loaders -> LoaderStates]
         /\ \A k \in Loaders : loaders'[k] = loaders[k] \/ loaders'[k] = t
    BY <2>4, <2>14 DEF ListInv
  <2>12. \A k \in Loaders : Progress(loaders[k])'
    <3>1. ASSUME NEW k \in Loaders, loaders'[k] = t PROVE Progress(loaders[k])'
      BY <2>14, <2>5, <2>7, <2>8, <2>9, <2>10, <3>1 DEF Progress, AllPages, FirstPage
    <3>2. ASSUME NEW k \in Loaders, loaders'[k] = loaders[k] PROVE Progress(loaders[k])'
      BY <2>4, <3>2 DEF ListInv, Progress, AllPages, FirstPage
    <3> QED
      BY <2>11, <3>1, <3>2
  <2>13. ListIsWhole'
    BY <2>4 DEF ListInv, ListIsWhole, FirstPage, AllPages
  <2> QED
    BY <2>4, <2>11, <2>12, <2>13 DEF ListInv
<1>5. ASSUME NEW l \in Loaders, StoreList(l) PROVE ListInv' /\ row'.content # {}
  <2>1. /\ loaders[l] \in LoaderStates /\ Progress(loaders[l])
        /\ loaders[l].stage \in {"storingFirst", "storing"}
    BY <1>5 DEF ListInv, StoreList
  <2> DEFINE t == IF loaders[l].stage = "storing" THEN LoaderIdle ELSE Filled(l)
  <2>2. /\ row.exists /\ loaders[l].got \in {FirstPage, AllPages}
        /\ loaders[l].got \subseteq medias
    BY <2>1 DEF Progress
  <2>3. t \in LoaderStates /\ Progress(t)
    BY <2>2, StartsOver
  <2>4. /\ row' = [row EXCEPT !.content = loaders[l].got] /\ loaders' = [loaders EXCEPT ![l] = t]
        /\ UNCHANGED medias
    BY <1>5 DEF StoreList
  <2> HIDE DEF t
  <2>5. /\ row' \in [exists : BOOLEAN, content : SUBSET Nat] /\ row'.exists = row.exists
        /\ row'.content = loaders[l].got
    BY <2>1, <2>4 DEF ListInv, LoaderStates
  <2>6. /\ loaders' \in [Loaders -> LoaderStates]
        /\ \A k \in Loaders : loaders'[k] = loaders[k] \/ loaders'[k] = t
    BY <2>3, <2>4 DEF ListInv
  <2>7. \A k \in Loaders : Progress(loaders[k])'
    BY <2>3, <2>4, <2>5, <2>6 DEF ListInv, Progress
  <2>8. ListIsWhole' /\ row'.content # {}
    BY <2>2, <2>4, <2>5, FirstPageKnown DEF ListIsWhole, FirstPage, AllPages
  <2> QED
    BY <2>5, <2>6, <2>7, <2>8 DEF ListInv
<1>6. CASE ForgetGenres \/ UNCHANGED mediaListVars
  BY <1>6 DEF ForgetGenres, mediaListVars, ListInv, ListIsWhole, Progress
<1> QED
  BY <1>1, <1>2, <1>3, <1>4, <1>5, <1>6 DEF LNext

LEMMA ListStarts == LInit => ListInv
<1> SUFFICES ASSUME LInit PROVE ListInv
    OBVIOUS
<1>1. LoaderIdle \in LoaderStates /\ Progress(LoaderIdle)
  BY DEF LoaderIdle, LoaderStates, Progress, LInit
<1> QED
  BY <1>1 DEF LInit, ListInv, ListIsWhole

(* A visitor finds nothing, the first page or the whole list, whoever      *)
(* loads it and whatever fails: for any numbers of pages and visitors.     *)
THEOREM ListsAreWhole == LSpec => []ListIsWhole
<1>1. ListInv => ListIsWhole
  BY DEF ListInv
<1> QED
  BY <1>1, ListStarts, ListStep, PTL DEF LSpec

(* No step empties a list that was filled.                                 *)
THEOREM ListsStayFilled == LSpec => NeverEmptiedAgain
<1>1. ListInv /\ [LNext]_mediaListVars => [row.content # {} => row'.content # {}]_mediaListVars
  BY ListStep
<1> QED
  BY <1>1, ListStarts, ListStep, PTL DEF LSpec, NeverEmptiedAgain
--------------------------------------------------------------------------------
(* CatalogueSync.  Everything before the first chunk that is left is       *)
(* covered, and within a chunk every title but those still to be updated:  *)
(* whatever is written later was fetched, or given up, after the change.   *)
Syncs == [on : BOOLEAN, now : Int, chunks : Seq(Int), todo : SUBSET Titles, asked : BOOLEAN]

CatalogueTyped ==
    /\ clock \in Nat /\ horizon \in Int
    /\ changes \in [Titles -> SUBSET Nat] /\ \A m \in Titles : \A c \in changes[m] : c <= clock
    /\ fetchedAt \in [Titles -> Int] /\ cachedAt \in [Titles -> Int] /\ givenUpAt \in [Titles -> Int]
    /\ lastSync \in Int /\ lastSync <= clock
    /\ sync \in Syncs /\ sync.now <= clock

\* The chunks are the days up to the start of the sync.
ChunksInOrder ==
    sync.on => /\ sync.chunks # <<>>
               /\ \A i \in 1..Len(sync.chunks) : sync.chunks[i] < sync.now
               /\ \A i \in 1..(Len(sync.chunks) - 1) : sync.chunks[i + 1] = sync.chunks[i] + Day

Seen(m, c) == fetchedAt[m] > c - Ttl \/ givenUpAt[m] >= c
CoveredFor(m, t) == fetchedAt[m] # -1 => \A c \in changes[m] : c < t /\ c >= horizon => Seen(m, c)

Covered ==
    \A m \in Titles :
       /\ CoveredFor(m, lastSync)
       /\ sync.on => CoveredFor(m, sync.chunks[1])
       /\ sync.on /\ sync.asked => m \in sync.todo \/ CoveredFor(m, Reached)

CatalogueInv == CatalogueTyped /\ ChunksInOrder /\ Covered

(* The arithmetic of the days.                                             *)
LEMMA DayAround == \A t \in Int : StartOfDay(t) \in Int /\ StartOfDay(t) <= t /\ t < StartOfDay(t) + Day
  BY CatalogueAssumption DEF StartOfDay

LEMMA TimesMonotone == \A i, j, d \in Nat : i <= j => i * d <= j * d
  OBVIOUS

LEMMA ChunksOfDays ==
    ASSUME NEW start \in Int, NEW now \in Int, start < now
    PROVE  LET chunks == ChunksFrom(start, now)
           IN  /\ chunks \in Seq(Int) /\ chunks # <<>> /\ chunks[1] = start
               /\ \A i \in 1..Len(chunks) : chunks[i] < now
               /\ \A i \in 1..(Len(chunks) - 1) : chunks[i + 1] = chunks[i] + Day
<1> DEFINE n == (now - start + Day - 1) \div Day
           chunks == ChunksFrom(start, now)
<1>1. Day \in Nat /\ Day > 0
  BY CatalogueAssumption
<1>2. n \in Int /\ n * Day <= now - start + Day - 1 /\ now - start + Day - 1 < n * Day + Day
  BY <1>1
<1>3. n \in Nat /\ n >= 1
  BY <1>1, <1>2
<1>4. chunks = [i \in 1..n |-> start + (i - 1) * Day]
  BY DEF ChunksFrom
<1> HIDE DEF n, chunks
<1>5. \A i \in 1..n : (i - 1) * Day \in Int
  BY <1>1, <1>3
<1>6. chunks \in Seq(Int) /\ Len(chunks) = n
  BY <1>3, <1>4, <1>5
<1>7. ASSUME NEW i \in 1..n PROVE chunks[i] < now
  <2>1. (i - 1) * Day <= (n - 1) * Day
    BY <1>1, <1>3, TimesMonotone
  <2>2. (n - 1) * Day = n * Day - Day
    BY <1>1, <1>3
  <2>3. n * Day \in Int /\ (i - 1) * Day \in Int /\ (n - 1) * Day \in Int
    BY <1>1, <1>3
  <2> QED
    BY <1>1, <1>2, <1>4, <2>1, <2>2, <2>3
<1>8. ASSUME NEW i \in 1..(n - 1) PROVE chunks[i + 1] = chunks[i] + Day
  <2>1. i + 1 \in 1..n /\ i \in 1..n
    BY <1>3
  <2>2. chunks[i + 1] = start + ((i + 1) - 1) * Day /\ chunks[i] = start + (i - 1) * Day
    BY <1>4, <2>1
  <2>3. ((i + 1) - 1) * Day = (i - 1) * Day + Day
    BY <1>1
  <2>4. (i - 1) * Day \in Int
    BY <1>1
  <2> QED
    BY <1>1, <2>2, <2>3, <2>4
<1>9. chunks # <<>> /\ chunks[1] = start
  <2>1. 1 \in 1..n /\ (1 - 1) * Day = 0
    BY <1>1, <1>3
  <2> QED
    BY <1>3, <1>4, <1>6, <2>1
<1> QED
  BY <1>6, <1>7, <1>8, <1>9 DEF chunks

(* What is written now was fetched less than Ttl ago.                      *)
LEMMA DetailsAreFresh ==
    ASSUME CatalogueTyped, NEW m \in Titles
    PROVE  /\ FreshDetails(m) \in Int /\ FreshDetails(m) > clock - Ttl
           /\ Fetch(m) => cachedAt' \in [Titles -> Int]
           /\ Written(m) \in [Titles -> Int] /\ Written(m)[m] = FreshDetails(m)
           /\ \A q \in Titles : q # m => Written(m)[q] = fetchedAt[q]
<1>1. FreshDetails(m) \in Int /\ FreshDetails(m) > clock - Ttl
  BY CatalogueAssumption DEF CatalogueTyped, FreshDetails
<1> QED
  BY <1>1 DEF CatalogueTyped, Fetch, Written

LEMMA ReachedInTime ==
    ASSUME CatalogueTyped, ChunksInOrder, sync.on
    PROVE  /\ sync.chunks \in Seq(Int) /\ sync.chunks # <<>> /\ Len(sync.chunks) \in Nat
           /\ Len(sync.chunks) >= 1
           /\ sync.now \in Int /\ sync.chunks[1] \in Int /\ sync.chunks[1] < sync.now
           /\ Reached \in Int /\ Reached <= sync.now
           /\ Len(sync.chunks) > 1 => Reached = sync.chunks[2]
<1>1. sync.chunks \in Seq(Int) /\ sync.now \in Int
  BY DEF CatalogueTyped, Syncs
<1>2. sync.chunks # <<>> /\ Len(sync.chunks) \in Nat /\ Len(sync.chunks) >= 1
  BY <1>1 DEF ChunksInOrder
<1>3. sync.chunks[1] \in Int /\ sync.chunks[1] < sync.now
  BY <1>1, <1>2 DEF ChunksInOrder
<1>4. CASE Len(sync.chunks) > 1
  <2>1. sync.chunks[2] = sync.chunks[1] + Day /\ sync.chunks[2] < sync.now /\ sync.chunks[2] \in Int
    <3>1. 1 \in 1..(Len(sync.chunks) - 1) /\ 2 \in 1..Len(sync.chunks) /\ 1 + 1 = 2
      BY <1>2, <1>4
    <3> QED
      BY <1>1, <3>1 DEF ChunksInOrder
  <2> QED
    BY <1>1, <1>2, <1>3, <1>4, <2>1 DEF Reached
<1>5. CASE ~(Len(sync.chunks) > 1)
  BY <1>1, <1>2, <1>3, <1>5 DEF Reached
<1> QED
  BY <1>1, <1>2, <1>3, <1>4, <1>5

(* A step that leaves the times alone and either leaves a title as it was, *)
(* or fetches it, or gives it up now, covers what was covered.             *)
LEMMA StaysCovered ==
    ASSUME CatalogueTyped, NEW m \in Titles, UNCHANGED <<changes, horizon>>,
           fetchedAt'[m] \in Int, givenUpAt'[m] \in Int, NEW t,
           \/ fetchedAt'[m] = fetchedAt[m] /\ givenUpAt'[m] = givenUpAt[m] /\ CoveredFor(m, t)
           \/ fetchedAt'[m] > clock - Ttl
           \/ givenUpAt'[m] = clock
    PROVE  CoveredFor(m, t)'
<1>1. CASE fetchedAt'[m] = fetchedAt[m] /\ givenUpAt'[m] = givenUpAt[m] /\ CoveredFor(m, t)
  BY <1>1 DEF CoveredFor, Seen
<1>2. CASE fetchedAt'[m] > clock - Ttl \/ givenUpAt'[m] = clock
  <2>1. ASSUME NEW c \in changes[m] PROVE fetchedAt'[m] > c - Ttl \/ givenUpAt'[m] >= c
    BY <1>2, CatalogueAssumption DEF CatalogueTyped
  <2> QED
    BY <2>1 DEF CoveredFor, Seen
<1> QED
  BY <1>1, <1>2

LEMMA RestOfChunks ==
    ASSUME NEW s \in Seq(Int), Len(s) > 1
    PROVE  /\ Tail(s) \in Seq(Int) /\ Len(Tail(s)) = Len(s) - 1 /\ Tail(s) # <<>>
           /\ \A i \in 1..Len(Tail(s)) : Tail(s)[i] = s[i + 1]
<1>1. Len(s) \in Nat /\ s # <<>>
  OBVIOUS
<1>2. Tail(s) \in Seq(Int) /\ Len(Tail(s)) = Len(s) - 1
  BY <1>1
<1>0. \A n \in Nat : n > 1 => n - 1 \in Nat /\ n - 1 # 0
  OBVIOUS
<1>3. Len(Tail(s)) \in Nat /\ Len(Tail(s)) # 0
  BY <1>0, <1>1, <1>2
<1>4. Tail(s) # <<>>
  <2>1. Len(<<>>) = 0
    OBVIOUS
  <2> QED
    BY <1>3, <2>1
<1>5. \A i \in 1..(Len(s) - 1) : Tail(s)[i] = s[i + 1]
  BY <1>1
<1> QED
  BY <1>2, <1>4, <1>5

LEMMA CatalogueStep == CatalogueInv /\ [CNext]_catalogueVars => CatalogueInv'
<1> SUFFICES ASSUME CatalogueInv, [CNext]_catalogueVars PROVE CatalogueInv'
    OBVIOUS
<1>t. CatalogueTyped /\ ChunksInOrder
  BY DEF CatalogueInv
<1>a. Day \in Nat /\ Day > 0 /\ Ttl \in Nat /\ Ttl > 0
  BY CatalogueAssumption
<1>1. ASSUME NEW m \in Titles, ChangesAtTmdb(m) PROVE CatalogueInv'
  <2>1. /\ changes' = [changes EXCEPT ![m] = @ \cup {clock}]
        /\ UNCHANGED <<clock, fetchedAt, cachedAt, givenUpAt, lastSync, sync, horizon>>
    BY <1>1 DEF ChangesAtTmdb
  <2>2. CatalogueTyped'
    BY <1>t, <2>1 DEF CatalogueTyped
  <2>3. ASSUME NEW q \in Titles, NEW t \in Int, t <= clock, CoveredFor(q, t)
        PROVE  CoveredFor(q, t)'
    <3>1. \A c \in changes'[q] : c < t => c \in changes[q]
      BY <1>t, <2>1, <2>3 DEF CatalogueTyped
    <3> QED
      BY <2>1, <2>3, <3>1 DEF CoveredFor, Seen
  <2>4. sync.on => Reached <= clock /\ sync.chunks[1] <= clock /\ Reached \in Int /\ sync.chunks[1] \in Int
    <3> SUFFICES ASSUME sync.on PROVE Reached <= clock /\ sync.chunks[1] <= clock /\ Reached \in Int /\ sync.chunks[1] \in Int
        OBVIOUS
    <3>1. sync.now <= clock /\ clock \in Int
      BY <1>t DEF CatalogueTyped
    <3> QED
      BY <1>t, <3>1, ReachedInTime
  <2>5. Reached' = Reached
    BY <2>1 DEF Reached
  <2>6. Covered'
    <3> SUFFICES ASSUME NEW q \in Titles
                 PROVE  /\ CoveredFor(q, lastSync)'
                        /\ sync.on => CoveredFor(q, sync.chunks[1])'
                        /\ sync.on /\ sync.asked => q \in sync.todo \/ CoveredFor(q, Reached)'
        BY <2>1 DEF Covered
    <3>1. \A t : t = lastSync \/ (sync.on /\ t \in {sync.chunks[1], Reached}) => t \in Int /\ t <= clock
      BY <1>t, <2>4 DEF CatalogueTyped
    <3>2. \A t : CoveredFor(q, t) /\ (t = lastSync \/ (sync.on /\ t \in {sync.chunks[1], Reached}))
                    => CoveredFor(q, t)'
      BY <2>3, <3>1
    <3> QED
      BY <2>1, <2>5, <3>2 DEF CatalogueInv, Covered, CoveredFor, Seen
  <2> QED
    BY <1>t, <2>1, <2>2, <2>6 DEF CatalogueInv, ChunksInOrder
<1>2. ASSUME NEW m \in Titles, fetchedAt' \in [Titles -> Int], givenUpAt' \in [Titles -> Int],
             cachedAt' \in [Titles -> Int],
             \A q \in Titles : q # m => fetchedAt'[q] = fetchedAt[q] /\ givenUpAt'[q] = givenUpAt[q],
             \/ fetchedAt'[m] = fetchedAt[m] /\ givenUpAt'[m] = givenUpAt[m] /\ UNCHANGED sync
             \/ fetchedAt'[m] > clock - Ttl
             \/ givenUpAt'[m] = clock,
             \/ UNCHANGED sync
             \/ sync' = [sync EXCEPT !.todo = @ \ {m}],
             UNCHANGED <<clock, changes, lastSync, horizon>>
      PROVE  CatalogueInv'
  <2>1. /\ sync' \in Syncs /\ sync'.on = sync.on /\ sync'.now = sync.now /\ sync'.chunks = sync.chunks
        /\ sync'.asked = sync.asked /\ sync'.todo \in {sync.todo, sync.todo \ {m}}
    BY <1>t, <1>2 DEF CatalogueTyped, Syncs
  <2>2. CatalogueTyped' /\ ChunksInOrder'
    <3>1. CatalogueTyped'
      BY <1>t, <1>2, <2>1 DEF CatalogueTyped
    <3> QED
      BY <1>t, <2>1, <3>1 DEF ChunksInOrder
  <2>3. Reached' = Reached
    BY <2>1 DEF Reached
  <2>4. ASSUME NEW q \in Titles, NEW t, CoveredFor(q, t) \/ (q = m /\ ~UNCHANGED sync) PROVE CoveredFor(q, t)'
    <3>1. fetchedAt'[q] \in Int /\ givenUpAt'[q] \in Int
      BY <1>2
    <3>2. \/ fetchedAt'[q] = fetchedAt[q] /\ givenUpAt'[q] = givenUpAt[q] /\ CoveredFor(q, t)
          \/ fetchedAt'[q] > clock - Ttl
          \/ givenUpAt'[q] = clock
      BY <1>2, <2>4
    <3> QED
      BY <1>t, <1>2, <3>1, <3>2, StaysCovered
  <2>5. Covered'
    <3> SUFFICES ASSUME NEW q \in Titles
                 PROVE  /\ CoveredFor(q, lastSync)'
                        /\ sync.on => CoveredFor(q, sync.chunks[1])'
                        /\ sync.on /\ sync.asked => q \in sync'.todo \/ CoveredFor(q, Reached)'
        BY <2>1 DEF Covered
    <3>1. \A t : CoveredFor(q, t) => CoveredFor(q, t)'
      BY <2>4
    <3>2. q \in sync.todo /\ q \notin sync'.todo => \A t : CoveredFor(q, t)'
      BY <1>2, <2>1, <2>4
    <3> QED
      BY <1>2, <2>1, <2>3, <3>1, <3>2 DEF CatalogueInv, Covered, CoveredFor, Seen
  <2> QED
    BY <2>2, <2>5 DEF CatalogueInv
<1>3. ASSUME NEW m \in Titles, FetchTitle(m) PROVE CatalogueInv'
  <2>1. /\ cachedAt' \in [Titles -> Int] /\ Written(m) \in [Titles -> Int]
        /\ FreshDetails(m) > clock - Ttl /\ Written(m)[m] = FreshDetails(m)
        /\ \A q \in Titles : q # m => Written(m)[q] = fetchedAt[q]
    BY <1>t, <1>3, DetailsAreFresh DEF FetchTitle
  <2>2. fetchedAt' = Written(m) \/ fetchedAt' = fetchedAt
    BY <1>3 DEF FetchTitle
  <2>3. fetchedAt \in [Titles -> Int] /\ givenUpAt \in [Titles -> Int]
    BY <1>t DEF CatalogueTyped
  <2>4. UNCHANGED <<clock, changes, givenUpAt, lastSync, sync, horizon>>
    BY <1>3 DEF FetchTitle
  <2> QED
    BY <1>2, <2>1, <2>2, <2>3, <2>4
<1>4. ASSUME NEW m \in Titles, UpdateTitle(m) PROVE CatalogueInv'
  <2>1. /\ Fetch(m) => cachedAt' \in [Titles -> Int]
        /\ Written(m) \in [Titles -> Int]
        /\ FreshDetails(m) > clock - Ttl /\ Written(m)[m] = FreshDetails(m)
        /\ \A q \in Titles : q # m => Written(m)[q] = fetchedAt[q]
    BY <1>t, DetailsAreFresh
  <2>2. /\ sync' = [sync EXCEPT !.todo = @ \ {m}]
        /\ UNCHANGED <<clock, changes, lastSync, horizon>>
    BY <1>4 DEF UpdateTitle
  <2>3. /\ fetchedAt \in [Titles -> Int] /\ givenUpAt \in [Titles -> Int] /\ cachedAt \in [Titles -> Int]
        /\ clock \in Int
    BY <1>t DEF CatalogueTyped
  <2>4. CASE Fetch(m) /\ fetchedAt' = Written(m) /\ UNCHANGED givenUpAt
    BY <1>2, <2>1, <2>2, <2>3, <2>4
  <2>5. CASE /\ givenUpAt' = [givenUpAt EXCEPT ![m] = clock]
             /\ UNCHANGED fetchedAt
             /\ Fetch(m) \/ UNCHANGED cachedAt
    <3>1. /\ givenUpAt' \in [Titles -> Int] /\ givenUpAt'[m] = clock
          /\ \A q \in Titles : q # m => givenUpAt'[q] = givenUpAt[q]
      BY <2>3, <2>5
    <3>2. cachedAt' \in [Titles -> Int]
      BY <2>1, <2>3, <2>5
    <3> QED
      BY <1>2, <2>2, <2>3, <2>5, <3>1, <3>2
  <2> QED
    BY <1>4, <2>4, <2>5 DEF UpdateTitle
<1>5. CASE StartSync
  <2> DEFINE start == StartOfDay(Since(clock))
             chunks == ChunksFrom(start, clock)
  <2>1. clock \in Nat /\ lastSync \in Int /\ lastSync <= clock /\ horizon \in Int
    BY <1>t DEF CatalogueTyped
  <2>2. Since(clock) \in Int /\ Since(clock) < clock
    <3>1. clock - (IF lastSync = NeverSynced THEN clock - Day ELSE lastSync) >= 1
      BY <1>5 DEF StartSync
    <3>2. WindowDays * Day \in Nat /\ WindowDays * Day > 0
      BY CatalogueAssumption
    <3>3. ASSUME NEW w \in Nat, w > 0, w = WindowDays * Day PROVE Since(clock) \in Int /\ Since(clock) < clock
      BY <1>a, <2>1, <3>1, <3>3 DEF Since
    <3> QED
      BY <3>2, <3>3
  <2>3. start \in Int /\ start <= Since(clock) /\ start < clock
    BY <2>1, <2>2, DayAround
  <2>4. /\ chunks \in Seq(Int) /\ chunks # <<>> /\ chunks[1] = start
        /\ \A i \in 1..Len(chunks) : chunks[i] < clock
        /\ \A i \in 1..(Len(chunks) - 1) : chunks[i + 1] = chunks[i] + Day
    <3>1. clock \in Int
      BY <2>1
    <3> QED
      BY <2>3, <3>1, ChunksOfDays
  <2>5. /\ sync' = [on |-> TRUE, now |-> clock, chunks |-> chunks, todo |-> {}, asked |-> FALSE]
        /\ horizon' = IF Since(clock) # lastSync THEN Max({horizon, start}) ELSE horizon
        /\ UNCHANGED <<clock, changes, fetchedAt, cachedAt, givenUpAt, lastSync>>
    BY <1>5 DEF StartSync
  <2> HIDE DEF start, chunks
  <2>6. horizon' \in Int /\ horizon' >= horizon /\ (Since(clock) = lastSync \/ horizon' >= start)
    <3>1. Max({horizon, start}) \in {horizon, start} /\ Max({horizon, start}) >= horizon
          /\ Max({horizon, start}) >= start
      <4>1. \E x \in {horizon, start} : \A y \in {horizon, start} : x >= y
        BY <2>1, <2>3
      <4>2. Max({horizon, start}) = CHOOSE x \in {horizon, start} : \A y \in {horizon, start} : x >= y
        BY DEF Max
      <4> QED
        BY <4>1, <4>2
    <3> QED
      BY <2>1, <2>3, <2>5, <3>1
  <2>7. sync' \in Syncs /\ sync'.chunks = chunks /\ sync'.now = clock /\ ~sync'.asked
    BY <2>1, <2>4, <2>5 DEF Syncs
  <2>8. CatalogueTyped' /\ ChunksInOrder'
    BY <1>t, <2>1, <2>4, <2>5, <2>6, <2>7 DEF CatalogueTyped, ChunksInOrder
  <2>9. ASSUME NEW q \in Titles
        PROVE  CoveredFor(q, lastSync)' /\ CoveredFor(q, sync.chunks[1])'
    <3>1. \A c \in changes[q] : c \in Int
      BY <1>t DEF CatalogueTyped
    <3>2. CoveredFor(q, lastSync)
      BY DEF CatalogueInv, Covered
    <3>3. CoveredFor(q, lastSync)'
      BY <2>1, <2>5, <2>6, <3>1, <3>2 DEF CoveredFor, Seen
    <3>4. sync'.chunks[1] = start
      BY <2>4, <2>7
    <3>5. CoveredFor(q, sync.chunks[1])'
      BY <2>1, <2>3, <2>5, <2>6, <3>1, <3>3, <3>4 DEF CoveredFor, Seen
    <3> QED
      BY <3>3, <3>5
  <2> QED
    BY <2>7, <2>8, <2>9 DEF CatalogueInv, Covered
<1>6. CASE AskForChanges
  <2> DEFINE todo == {m \in ChangedIn(sync.chunks[1], ChunkEnd) : fetchedAt[m] # -1}
  <2>1. /\ sync.on /\ sync' = [sync EXCEPT !.asked = TRUE, !.todo = todo]
        /\ UNCHANGED <<clock, changes, fetchedAt, cachedAt, givenUpAt, lastSync, horizon>>
    BY <1>6 DEF AskForChanges
  <2>2. todo \subseteq Titles /\ sync \in Syncs
    BY <1>t DEF ChangedIn, CatalogueTyped
  <2> HIDE DEF todo
  <2>3. /\ sync' \in Syncs /\ sync'.on = sync.on /\ sync'.now = sync.now /\ sync'.chunks = sync.chunks
        /\ sync'.todo = todo
    BY <2>1, <2>2 DEF Syncs
  <2>4. CatalogueTyped' /\ ChunksInOrder'
    <3>1. CatalogueTyped'
      BY <1>t, <2>1, <2>3 DEF CatalogueTyped
    <3> QED
      BY <1>t, <2>3, <3>1 DEF ChunksInOrder
  <2>5. Reached' = Reached
    BY <2>3 DEF Reached
  <2>6. /\ ChunkEnd \in Int /\ sync.chunks[1] \in Int /\ Reached \in Int
        /\ Reached <= ChunkEnd + 1 /\ (Len(sync.chunks) > 1 \/ Reached = ChunkEnd)
    <3>1. /\ sync.chunks[1] \in Int /\ sync.now \in Int /\ Reached \in Int /\ Len(sync.chunks) \in Nat
      BY <1>t, <2>1, ReachedInTime
    <3>2. CASE Len(sync.chunks) > 1
      BY <1>a, <3>1, <3>2 DEF ChunkEnd, Reached
    <3>3. CASE ~(Len(sync.chunks) > 1)
      BY <3>1, <3>3 DEF ChunkEnd, Reached
    <3> QED
      BY <3>2, <3>3
  <2>7. StartOfDay(sync.chunks[1]) <= sync.chunks[1] /\ Reached <= StartOfDay(ChunkEnd) + Day
        /\ StartOfDay(ChunkEnd) \in Int /\ StartOfDay(sync.chunks[1]) \in Int
    <3>1. /\ StartOfDay(sync.chunks[1]) \in Int /\ StartOfDay(sync.chunks[1]) <= sync.chunks[1]
          /\ StartOfDay(ChunkEnd) \in Int /\ ChunkEnd < StartOfDay(ChunkEnd) + Day
      BY <2>6, DayAround
    <3> QED
      BY <1>a, <2>6, <3>1
  <2>8. ASSUME NEW q \in Titles, q \notin todo PROVE CoveredFor(q, Reached)
    <3>1. CASE fetchedAt[q] = -1
      BY <3>1 DEF CoveredFor
    <3>2. CASE fetchedAt[q] # -1
      <4>1. q \notin ChangedIn(sync.chunks[1], ChunkEnd)
        BY <2>8, <3>2 DEF todo
      <4>2. \A c \in changes[q] : c \in Int /\ (c < Reached => c < sync.chunks[1])
        <5>1. \A c \in changes[q] : ~(StartOfDay(sync.chunks[1]) <= c /\ c < StartOfDay(ChunkEnd) + Day)
          BY <4>1 DEF ChangedIn
        <5>2. \A c \in changes[q] : c \in Int
          BY <1>t DEF CatalogueTyped
        <5> QED
          BY <1>a, <2>6, <2>7, <5>1, <5>2
      <4>3. CoveredFor(q, sync.chunks[1])
        BY <2>1 DEF CatalogueInv, Covered
      <4> QED
        BY <4>2, <4>3 DEF CoveredFor
    <3> QED
      BY <3>1, <3>2
  <2>9. Covered'
    <3> SUFFICES ASSUME NEW q \in Titles
                 PROVE  /\ CoveredFor(q, lastSync)'
                        /\ CoveredFor(q, sync.chunks[1])'
                        /\ q \in sync'.todo \/ CoveredFor(q, Reached)'
        BY DEF Covered
    <3>1. \A t : CoveredFor(q, t) => CoveredFor(q, t)'
      BY <2>1 DEF CoveredFor, Seen
    <3>2. CoveredFor(q, lastSync) /\ CoveredFor(q, sync.chunks[1])
      BY <2>1 DEF CatalogueInv, Covered
    <3> QED
      BY <2>1, <2>3, <2>5, <2>8, <3>1, <3>2 DEF CoveredFor, Seen
  <2> QED
    BY <2>4, <2>9 DEF CatalogueInv
<1>7. CASE EndChunk
  <2>1. /\ sync.on /\ sync.asked /\ sync.todo = {} /\ lastSync' = Reached
        /\ UNCHANGED <<clock, changes, fetchedAt, cachedAt, givenUpAt, horizon>>
    BY <1>7 DEF EndChunk
  <2>2. sync \in Syncs /\ sync.now \in Int /\ sync.now <= clock /\ clock \in Nat
    BY <1>t DEF CatalogueTyped, Syncs
  <2>3. Reached \in Int /\ Reached <= clock
    BY <1>t, <2>1, <2>2, ReachedInTime
  <2>4. \A q \in Titles : CoveredFor(q, Reached)
    BY <2>1 DEF CatalogueInv, Covered
  <2>5. \A q \in Titles : CoveredFor(q, lastSync)'
    BY <2>1, <2>4 DEF CoveredFor, Seen
  <2>6. CASE Len(sync.chunks) = 1
    <3>1. sync' = NoSync
      BY <1>7, <2>6 DEF EndChunk
    <3>2. NoSync \in Syncs /\ ~NoSync.on /\ NoSync.now = 0
      BY DEF NoSync, Syncs
    <3>3. CatalogueTyped' /\ ChunksInOrder'
      BY <1>t, <2>1, <2>2, <2>3, <3>1, <3>2 DEF CatalogueTyped, ChunksInOrder
    <3> QED
      BY <2>5, <3>1, <3>2, <3>3 DEF CatalogueInv, Covered
  <2>7. CASE Len(sync.chunks) # 1
    <3> DEFINE rest == Tail(sync.chunks)
    <3>1. sync' = [sync EXCEPT !.chunks = rest, !.asked = FALSE]
      BY <1>7, <2>7 DEF EndChunk
    <3>2. /\ sync.chunks \in Seq(Int) /\ Len(sync.chunks) \in Nat /\ Len(sync.chunks) > 1
          /\ Reached = sync.chunks[2]
      <4>1. /\ sync.chunks \in Seq(Int) /\ Len(sync.chunks) \in Nat /\ Len(sync.chunks) >= 1
            /\ Len(sync.chunks) > 1 => Reached = sync.chunks[2]
        BY <1>t, <2>1, ReachedInTime
      <4>2. Len(sync.chunks) > 1
        <5>1. \A n \in Nat : n >= 1 /\ n # 1 => n > 1
          OBVIOUS
        <5> QED
          BY <2>7, <4>1, <5>1
      <4> QED
        BY <4>1, <4>2
    <3>3. /\ rest \in Seq(Int) /\ Len(rest) = Len(sync.chunks) - 1 /\ rest # <<>>
          /\ \A i \in 1..Len(rest) : rest[i] = sync.chunks[i + 1]
      BY <3>2, RestOfChunks
    <3> HIDE DEF rest
    <3>4. /\ sync' \in Syncs /\ sync'.on = sync.on /\ sync'.now = sync.now /\ sync'.chunks = rest
          /\ ~sync'.asked
      BY <2>2, <3>1, <3>3 DEF Syncs
    <3>5. CatalogueTyped'
      BY <1>t, <2>1, <2>2, <2>3, <3>4 DEF CatalogueTyped
    <3>6. ASSUME NEW i \in 1..Len(rest) PROVE rest[i] < sync.now
      <4>1. i + 1 \in 1..Len(sync.chunks) /\ rest[i] = sync.chunks[i + 1]
        BY <3>2, <3>3
      <4> QED
        BY <1>t, <2>1, <4>1 DEF ChunksInOrder
    <3>7. ASSUME NEW i \in 1..(Len(rest) - 1) PROVE rest[i + 1] = rest[i] + Day
      <4>1. /\ i + 1 \in 1..(Len(sync.chunks) - 1)
            /\ rest[i] = sync.chunks[i + 1] /\ rest[i + 1] = sync.chunks[(i + 1) + 1]
        <5>0. \A n, k \in Nat : k = n - 1 /\ i \in 1..(k - 1)
                 => i \in 1..k /\ i + 1 \in 1..k /\ i + 1 \in 1..(n - 1)
          OBVIOUS
        <5>1. i \in 1..Len(rest) /\ i + 1 \in 1..Len(rest) /\ i + 1 \in 1..(Len(sync.chunks) - 1)
          BY <3>2, <3>3, <5>0
        <5> QED
          BY <3>3, <5>1
      <4> QED
        BY <1>t, <2>1, <4>1 DEF ChunksInOrder
    <3>8. ChunksInOrder'
      BY <2>1, <3>3, <3>4, <3>6, <3>7 DEF ChunksInOrder
    <3>9. sync'.chunks[1] = lastSync'
      <4>1. 1 \in 1..Len(rest) /\ 1 + 1 = 2
        BY <3>2, <3>3
      <4> QED
        BY <2>1, <3>2, <3>3, <3>4, <4>1
    <3>10. \A q \in Titles : CoveredFor(q, sync.chunks[1])'
      BY <2>5, <3>9 DEF CoveredFor
    <3>11. Covered'
      BY <2>5, <3>4, <3>10 DEF Covered
    <3> QED
      BY <3>5, <3>8, <3>11 DEF CatalogueInv
  <2> QED
    BY <2>6, <2>7
<1>8. CASE SyncLost
  <2>1. NoSync \in Syncs /\ ~NoSync.on /\ NoSync.now = 0
    BY DEF NoSync, Syncs
  <2>2. sync' = NoSync /\ UNCHANGED <<clock, changes, fetchedAt, cachedAt, givenUpAt, lastSync, horizon>>
    BY <1>8 DEF SyncLost
  <2>3. CatalogueTyped' /\ ChunksInOrder'
    BY <1>t, <2>1, <2>2 DEF CatalogueTyped, ChunksInOrder
  <2>4. \A q \in Titles : CoveredFor(q, lastSync)'
    BY <2>2 DEF CatalogueInv, Covered, CoveredFor, Seen
  <2> QED
    BY <2>1, <2>2, <2>3, <2>4 DEF CatalogueInv, Covered
<1>9. ASSUME UNCHANGED <<changes, fetchedAt, cachedAt, givenUpAt, lastSync, sync, horizon>>,
             clock' \in {clock, clock + 1}
      PROVE  CatalogueInv'
  <2>1. clock' \in Nat /\ clock' >= clock
    BY <1>9, <1>t DEF CatalogueTyped
  <2>2. CatalogueTyped'
    <3>1. /\ sync \in Syncs /\ sync.now \in Int /\ clock \in Nat
          /\ \A m \in Titles : \A c \in changes[m] : c \in Nat
      BY <1>t DEF CatalogueTyped, Syncs
    <3> QED
      BY <1>9, <1>t, <2>1, <3>1 DEF CatalogueTyped
  <2>3. Reached' = Reached /\ ChunksInOrder'
    BY <1>9, <1>t DEF Reached, ChunksInOrder
  <2> QED
    BY <1>9, <2>2, <2>3 DEF CatalogueInv, Covered, CoveredFor, Seen
<1>10. CASE CatalogueTime \/ UNCHANGED catalogueVars
  BY <1>9, <1>10 DEF CatalogueTime, catalogueVars
<1> QED
  BY <1>1, <1>3, <1>4, <1>5, <1>6, <1>7, <1>8, <1>10 DEF CNext

(* Whatever fails, dies and is repeated, no sync passes over a change: for *)
(* any titles, days, windows and ages of cached answers.                   *)
THEOREM NoChangeIsSkipped == CSpec => []NoChangeSkipped
<1>1. CInit => CatalogueInv
  <2> SUFFICES ASSUME CInit PROVE CatalogueInv
      OBVIOUS
  <2>1. NoSync \in Syncs /\ ~NoSync.on /\ NoSync.now = 0
    BY DEF NoSync, Syncs
  <2> QED
    BY <2>1 DEF CInit, CatalogueInv, CatalogueTyped, ChunksInOrder, Covered, CoveredFor, NeverSynced
<1>2. CatalogueInv => NoChangeSkipped
  BY DEF CatalogueInv, Covered, CoveredFor, Seen, NoChangeSkipped
<1> QED
  BY <1>1, <1>2, CatalogueStep, PTL DEF CSpec
--------------------------------------------------------------------------------
(* TraktLinks.  What a task is about to write was earned, a task that      *)
(* saves a row knows the slug and the user that row has or had, and no two *)
(* tasks that save one row disagree about them.                            *)
LinkRows == [id : Nat, slug : Slugs, user : TraktMembers, tokens : BOOLEAN]

LinkTasks ==
    [stage : {"idle", "approved", "dropping", "deletingOther", "storing", "saving", "associating",
              "unlinking", "deletingOwn", "creating", "linked", "refused"},
     slug : Slugs \cup {"none"}, user : TraktMembers \cup {"none"}, found : Nat,
     owner : TraktMembers \cup {"none"}]

AtWork(t) == t.stage \notin {"idle", "linked", "refused"}

TaskEarned(t) ==
    /\ AtWork(t) => t.slug \in Slugs /\ t.user \in TraktMembers /\ <<t.slug, t.user>> \in earned
    /\ t.stage = "saving" =>
          /\ t.found <= rowsMade /\ t.owner \in TraktMembers /\ <<t.slug, t.owner>> \in earned
          /\ \A r \in links : r.id = t.found => r.slug = t.slug /\ r.user = t.owner

SameRow(t, u) ==
    t.stage = "saving" /\ u.stage = "saving" /\ t.found = u.found => t.slug = u.slug /\ t.owner = u.owner

LinksInv ==
    /\ links \subseteq LinkRows /\ rowsMade \in Nat
    /\ tasks \in [Linkers -> LinkTasks]
    /\ \A r \in links : r.id <= rowsMade /\ \A q \in links : q.id = r.id => q = r
    /\ LinksAreEarned
    /\ \A a \in Linkers : TaskEarned(tasks[a])
    /\ \A a, b \in Linkers : SameRow(tasks[a], tasks[b])

(* A step that only moves a task on.                                       *)
LEMMA TaskMoves ==
    ASSUME LinksInv, NEW a \in Linkers, NEW t \in LinkTasks, tasks' = [tasks EXCEPT ![a] = t],
           TaskEarned(t), t.stage # "saving", UNCHANGED <<links, rowsMade, earned>>
    PROVE  LinksInv'
<1>1. /\ tasks' \in [Linkers -> LinkTasks]
      /\ \A b \in Linkers : tasks'[b] = tasks[b] \/ tasks'[b] = t
  BY DEF LinksInv
<1>2. \A b \in Linkers : TaskEarned(tasks[b])'
  BY <1>1 DEF LinksInv, TaskEarned, AtWork
<1>3. \A b, c \in Linkers : SameRow(tasks'[b], tasks'[c])
  BY <1>1 DEF LinksInv, SameRow
<1> QED
  BY <1>1, <1>2, <1>3 DEF LinksInv, LinksAreEarned

LEMMA LinksStep == LinksInv /\ [TNext]_traktVars => LinksInv'
<1> SUFFICES ASSUME LinksInv, [TNext]_traktVars PROVE LinksInv'
    OBVIOUS
<1> USE TraktAssumption
<1>1. ASSUME NEW a \in Linkers, NEW s \in Slugs, NEW u \in TraktMembers,
             NEW stage \in {"approved", "associating"},
             tasks' = [tasks EXCEPT ![a] = [NoTask EXCEPT !.stage = stage, !.slug = s, !.user = u]],
             earned' = earned \cup {<<s, u>>}, UNCHANGED <<links, rowsMade>>
      PROVE  LinksInv'
  <2> DEFINE t == [NoTask EXCEPT !.stage = stage, !.slug = s, !.user = u]
  <2>1. t \in LinkTasks /\ t.stage = stage /\ t.slug = s /\ t.user = u
    BY DEF NoTask, LinkTasks
  <2>2. tasks' = [tasks EXCEPT ![a] = t]
    BY <1>1
  <2> HIDE DEF t
  <2>3. /\ tasks' \in [Linkers -> LinkTasks]
        /\ \A b \in Linkers : tasks'[b] = tasks[b] \/ tasks'[b] = t
    BY <2>1, <2>2 DEF LinksInv
  <2>4. \A b \in Linkers : TaskEarned(tasks[b])'
    BY <1>1, <2>1, <2>3 DEF LinksInv, TaskEarned, AtWork
  <2>5. \A b, c \in Linkers : SameRow(tasks'[b], tasks'[c])
    BY <2>1, <2>3 DEF LinksInv, SameRow
  <2> QED
    BY <1>1, <2>3, <2>4, <2>5 DEF LinksInv, LinksAreEarned
<1>2. ASSUME NEW a \in Linkers, NEW stage \in {"storing", "dropping", "refused", "unlinking", "linked",
                                               "creating"},
             AtWork(tasks[a]), Step(a, stage), UNCHANGED <<links, rowsMade, earned>>
      PROVE  LinksInv'
  <2> DEFINE t == [tasks[a] EXCEPT !.stage = stage]
  <2>1. tasks[a] \in LinkTasks /\ TaskEarned(tasks[a])
    BY DEF LinksInv
  <2>2. /\ t \in LinkTasks /\ t.stage = stage
        /\ t.slug = tasks[a].slug /\ t.user = tasks[a].user
    BY <2>1 DEF LinkTasks
  <2>3. tasks' = [tasks EXCEPT ![a] = t]
    BY <1>2 DEF Step
  <2> HIDE DEF t
  <2>4. TaskEarned(t)
    BY <1>2, <2>1, <2>2 DEF TaskEarned
  <2> QED
    BY <1>2, <2>2, <2>3, <2>4, TaskMoves
<1>3. ASSUME NEW a \in Linkers, NEW stage \in {"deletingOther", "deletingOwn"}, NEW id \in Nat,
             AtWork(tasks[a]), tasks' = [tasks EXCEPT ![a].stage = stage, ![a].found = id],
             UNCHANGED <<links, rowsMade, earned>>
      PROVE  LinksInv'
  <2> DEFINE t == [tasks[a] EXCEPT !.stage = stage, !.found = id]
  <2>1. tasks[a] \in LinkTasks /\ TaskEarned(tasks[a])
    BY DEF LinksInv
  <2>2. /\ t \in LinkTasks /\ t.stage = stage
        /\ t.slug = tasks[a].slug /\ t.user = tasks[a].user
    BY <2>1 DEF LinkTasks
  <2>3. tasks' = [tasks EXCEPT ![a] = t]
    BY <1>3, <2>1 DEF LinksInv, LinkTasks
  <2> HIDE DEF t
  <2>4. TaskEarned(t)
    BY <1>3, <2>1, <2>2 DEF TaskEarned
  <2> QED
    BY <1>3, <2>2, <2>3, <2>4, TaskMoves
<1>4. ASSUME NEW a \in Linkers, FindLink(a) PROVE LinksInv'
  BY <1>2, <1>4 DEF FindLink, AtWork
<1>5. ASSUME NEW a \in Linkers, Disassociate(a) PROVE LinksInv'
  BY <1>2, <1>3, <1>5 DEF Disassociate, AtWork, LinksInv, LinkRows, OfSlug
<1>6. ASSUME NEW a \in Linkers, FindForUser(a) PROVE LinksInv'
  BY <1>2, <1>6 DEF FindForUser, AtWork
<1>7. ASSUME NEW a \in Linkers, FindOwn(a) PROVE LinksInv'
  BY <1>2, <1>3, <1>7 DEF FindOwn, AtWork, LinksInv, LinkRows, OfUser
<1>8. ASSUME NEW a \in Linkers, DeleteFound(a) PROVE LinksInv'
  <2> DEFINE stage == IF tasks[a].stage = "deletingOther" THEN "storing" ELSE "creating"
             t == [tasks[a] EXCEPT !.stage = stage]
  <2>1. tasks[a] \in LinkTasks /\ TaskEarned(tasks[a]) /\ AtWork(tasks[a])
    BY <1>8 DEF LinksInv, DeleteFound, AtWork
  <2>2. /\ t \in LinkTasks /\ t.stage = stage /\ stage \in {"storing", "creating"}
        /\ t.slug = tasks[a].slug /\ t.user = tasks[a].user
    BY <2>1 DEF LinkTasks
  <2>3. /\ tasks' = [tasks EXCEPT ![a] = t]
        /\ links' \subseteq links /\ UNCHANGED <<rowsMade, earned>>
    BY <1>8 DEF DeleteFound, Step
  <2> HIDE DEF t
  <2>4. /\ tasks' \in [Linkers -> LinkTasks]
        /\ \A b \in Linkers : tasks'[b] = tasks[b] \/ tasks'[b] = t
    BY <2>2, <2>3 DEF LinksInv
  <2>5. TaskEarned(t)
    BY <2>1, <2>2 DEF TaskEarned
  <2>6. \A b \in Linkers : TaskEarned(tasks[b])'
    BY <2>2, <2>3, <2>4, <2>5 DEF LinksInv, TaskEarned, AtWork
  <2>7. \A b, c \in Linkers : SameRow(tasks'[b], tasks'[c])
    BY <2>2, <2>4 DEF LinksInv, SameRow
  <2> QED
    BY <2>3, <2>4, <2>6, <2>7 DEF LinksInv, LinksAreEarned
<1>9. ASSUME NEW a \in Linkers, FindForTokens(a) PROVE LinksInv'
  <2>1. tasks[a] \in LinkTasks /\ TaskEarned(tasks[a]) /\ tasks[a].stage = "storing"
    BY <1>9 DEF LinksInv, FindForTokens
  <2>2. CASE Step(a, "refused")
    BY <1>2, <1>9, <2>1, <2>2 DEF FindForTokens, AtWork
  <2>3. ASSUME NEW r \in OfSlug(tasks[a].slug),
               tasks' = [tasks EXCEPT ![a].stage = "saving", ![a].found = r.id, ![a].owner = r.user]
        PROVE  LinksInv'
    <3> DEFINE t == [tasks[a] EXCEPT !.stage = "saving", !.found = r.id, !.owner = r.user]
    <3>1. r \in LinkRows /\ r \in links /\ r.slug = tasks[a].slug
      BY DEF OfSlug, LinksInv
    <3>2. /\ t \in LinkTasks /\ t.stage = "saving" /\ t.found = r.id /\ t.owner = r.user
          /\ t.slug = r.slug /\ t.user = tasks[a].user
      BY <2>1, <3>1 DEF LinkTasks, LinkRows
    <3>3. tasks' = [tasks EXCEPT ![a] = t] /\ UNCHANGED <<links, rowsMade, earned>>
      BY <1>9, <2>1, <2>3 DEF LinksInv, LinkTasks, FindForTokens
    <3> HIDE DEF t
    <3>4. /\ tasks' \in [Linkers -> LinkTasks]
          /\ \A b \in Linkers : tasks'[b] = tasks[b] \/ tasks'[b] = t
      BY <3>2, <3>3 DEF LinksInv
    <3>5. \A q \in links : q.id = r.id => q.slug = r.slug /\ q.user = r.user
      BY <3>1 DEF LinksInv
    <3>6. TaskEarned(t)
      BY <2>1, <3>1, <3>2, <3>5 DEF TaskEarned, AtWork, LinkRows, LinksInv, LinksAreEarned
    <3>7. \A b \in Linkers : SameRow(tasks[b], t) /\ SameRow(t, tasks[b])
      BY <3>1, <3>2 DEF SameRow, LinksInv, TaskEarned
    <3>8. \A b \in Linkers : TaskEarned(tasks[b])'
      BY <3>3, <3>4, <3>6 DEF LinksInv, TaskEarned, AtWork
    <3>9. \A b, c \in Linkers : SameRow(tasks'[b], tasks'[c])
      BY <3>4, <3>7 DEF LinksInv, SameRow
    <3> QED
      BY <3>3, <3>4, <3>8, <3>9 DEF LinksInv, LinksAreEarned
  <2> QED
    BY <1>9, <2>2, <2>3 DEF FindForTokens
<1>10. ASSUME NEW a \in Linkers, SaveTokens(a) PROVE LinksInv'
  <2> DEFINE same == {r \in links : r.id = tasks[a].found}
             saved == [id |-> tasks[a].found, slug |-> tasks[a].slug, user |-> tasks[a].owner, tokens |-> TRUE]
             t == [tasks[a] EXCEPT !.stage = "associating"]
  <2>1. tasks[a] \in LinkTasks /\ TaskEarned(tasks[a]) /\ tasks[a].stage = "saving"
    BY <1>10 DEF LinksInv, SaveTokens
  <2>2. CASE same = {} /\ Taken(tasks[a].slug, tasks[a].owner)
    BY <1>2, <1>10, <2>1, <2>2 DEF SaveTokens, AtWork
  <2>3. CASE ~(same = {} /\ Taken(tasks[a].slug, tasks[a].owner))
    <3>1. /\ t \in LinkTasks /\ t.stage = "associating"
          /\ t.slug = tasks[a].slug /\ t.user = tasks[a].user
      BY <2>1 DEF LinkTasks
    <3>2. /\ saved \in LinkRows /\ saved.id <= rowsMade /\ <<saved.slug, saved.user>> \in earned
          /\ saved.id = tasks[a].found /\ saved.slug = tasks[a].slug /\ saved.user = tasks[a].owner
      BY <2>1 DEF LinkTasks, LinkRows, TaskEarned, AtWork
    <3>3. /\ tasks' = [tasks EXCEPT ![a] = t] /\ links' = (links \ same) \cup {saved}
          /\ UNCHANGED <<rowsMade, earned>>
      BY <1>10, <2>3 DEF SaveTokens, Step
    <3>4. \A r \in same : r \in links /\ r.slug = saved.slug /\ r.user = saved.user
      BY <2>1, <3>2 DEF TaskEarned
    <3>5. \A q \in links \ same : q.slug # saved.slug /\ q.user # saved.user /\ q.id # saved.id
      BY <2>3, <3>2, <3>4 DEF Taken, OfSlug, OfUser, LinksInv, LinksAreEarned
    <3> HIDE DEF t, saved, same
    <3>6. /\ links' \subseteq LinkRows /\ LinksAreEarned'
          /\ \A r \in links' : r.id <= rowsMade' /\ \A q \in links' : q.id = r.id => q = r
      BY <3>2, <3>3, <3>5 DEF LinksInv, LinksAreEarned
    <3>7. /\ tasks' \in [Linkers -> LinkTasks]
          /\ \A b \in Linkers : tasks'[b] = tasks[b] \/ tasks'[b] = t
      BY <3>1, <3>3 DEF LinksInv
    <3>8. TaskEarned(t)
      BY <2>1, <3>1 DEF TaskEarned, AtWork
    <3>9. \A b \in Linkers, u \in LinkTasks : u = tasks[b] => TaskEarned(u)'
      <4> SUFFICES ASSUME NEW b \in Linkers, NEW u \in LinkTasks, u = tasks[b] PROVE TaskEarned(u)'
          OBVIOUS
      <4>1. TaskEarned(tasks[b]) /\ SameRow(tasks[b], tasks[a])
        BY DEF LinksInv
      <4>2. ASSUME tasks[b].stage = "saving", saved.id = tasks[b].found
            PROVE  saved.slug = tasks[b].slug /\ saved.user = tasks[b].owner
        BY <2>1, <3>2, <4>1, <4>2 DEF SameRow
      <4> QED
        BY <3>3, <4>1, <4>2 DEF TaskEarned, AtWork
    <3>10. \A b \in Linkers : TaskEarned(tasks[b])'
      BY <3>1, <3>3, <3>7, <3>8, <3>9 DEF TaskEarned, AtWork, LinksInv
    <3>11. \A b, c \in Linkers : SameRow(tasks'[b], tasks'[c])
      BY <3>1, <3>7 DEF LinksInv, SameRow
    <3> QED
      BY <3>3, <3>6, <3>7, <3>10, <3>11 DEF LinksInv
  <2> QED
    BY <2>2, <2>3
<1>11. ASSUME NEW a \in Linkers, CreateLink(a) PROVE LinksInv'
  <2> DEFINE made == [id |-> rowsMade + 1, slug |-> tasks[a].slug, user |-> tasks[a].user, tokens |-> FALSE]
             t == [tasks[a] EXCEPT !.stage = "linked"]
  <2>1. tasks[a] \in LinkTasks /\ TaskEarned(tasks[a]) /\ tasks[a].stage = "creating"
    BY <1>11 DEF LinksInv, CreateLink
  <2>2. CASE Taken(tasks[a].slug, tasks[a].user)
    BY <1>2, <1>11, <2>1, <2>2 DEF CreateLink, AtWork
  <2>3. CASE ~Taken(tasks[a].slug, tasks[a].user)
    <3>1. t \in LinkTasks /\ t.stage = "linked"
      BY <2>1 DEF LinkTasks
    <3>2. /\ made \in LinkRows /\ <<made.slug, made.user>> \in earned
          /\ made.id = rowsMade + 1 /\ made.slug = tasks[a].slug /\ made.user = tasks[a].user
      BY <2>1 DEF LinkRows, TaskEarned, AtWork, LinksInv
    <3>3. /\ tasks' = [tasks EXCEPT ![a] = t] /\ links' = links \cup {made}
          /\ rowsMade' = rowsMade + 1 /\ rowsMade \in Nat /\ UNCHANGED earned
      BY <1>11, <2>3 DEF CreateLink, Step, LinksInv
    <3>4. \A q \in links : /\ q.slug # made.slug /\ q.user # made.user
                           /\ q.id \in Nat /\ q.id <= rowsMade
      BY <2>3, <3>2 DEF Taken, OfSlug, OfUser, LinksInv, LinkRows
    <3> HIDE DEF t, made
    <3>5. /\ links' \subseteq LinkRows /\ LinksAreEarned'
          /\ \A r \in links' : r.id <= rowsMade' /\ \A q \in links' : q.id = r.id => q = r
      <4>1. links' \subseteq LinkRows /\ LinksAreEarned'
        BY <3>2, <3>3, <3>4 DEF LinksInv, LinksAreEarned
      <4>2. \A r \in links' : r.id <= rowsMade'
        BY <3>2, <3>3, <3>4
      <4>3. \A r, q \in links' : q.id = r.id => q = r
        BY <3>2, <3>3, <3>4 DEF LinksInv
      <4> QED
        BY <4>1, <4>2, <4>3
    <3>6. /\ tasks' \in [Linkers -> LinkTasks]
          /\ \A b \in Linkers : tasks'[b] = tasks[b] \/ tasks'[b] = t
      BY <3>1, <3>3 DEF LinksInv
    <3>7. \A b \in Linkers, u \in LinkTasks : u = tasks[b] => TaskEarned(u)'
      <4> SUFFICES ASSUME NEW b \in Linkers, NEW u \in LinkTasks, u = tasks[b] PROVE TaskEarned(u)'
          OBVIOUS
      <4>1. TaskEarned(tasks[b]) /\ tasks[b] \in LinkTasks
        BY DEF LinksInv
      <4>2. tasks[b].stage = "saving" => tasks[b].found # made.id /\ tasks[b].found <= rowsMade'
        BY <3>2, <3>3, <4>1 DEF TaskEarned, LinkTasks
      <4> QED
        BY <3>3, <4>1, <4>2 DEF TaskEarned, AtWork
    <3>8. \A b \in Linkers : TaskEarned(tasks[b])'
      BY <3>1, <3>3, <3>6, <3>7 DEF TaskEarned, AtWork, LinksInv
    <3>9. \A b, c \in Linkers : SameRow(tasks'[b], tasks'[c])
      BY <3>1, <3>6 DEF LinksInv, SameRow
    <3>10. rowsMade' \in Nat
      BY <3>3
    <3> QED
      BY <3>5, <3>6, <3>8, <3>9, <3>10 DEF LinksInv
  <2> QED
    BY <2>2, <2>3
<1>12. CASE UNCHANGED traktVars
  BY <1>12 DEF traktVars, LinksInv, LinksAreEarned, TaskEarned, SameRow
<1>13. ASSUME NEW s \in Slugs, NEW u \in TraktMembers, Approve(u, s) \/ AdminAssociates(s, u)
       PROVE  LinksInv'
  BY <1>1, <1>13 DEF Approve, AdminAssociates, Linkers
<1> QED
  BY <1>4, <1>5, <1>6, <1>7, <1>8, <1>9, <1>10, <1>11, <1>12, <1>13 DEF TNext

(* Whatever comes between the statements of checks and associations, an    *)
(* account is only ever linked to who earned it, and one to one: for any   *)
(* users and accounts.                                                     *)
THEOREM LinksEarned == TSpec => []LinksAreEarned
<1>1. TInit => LinksInv
  BY DEF TInit, LinksInv, LinksAreEarned, TaskEarned, AtWork, SameRow, NoTask, LinkTasks
<1>2. LinksInv => LinksAreEarned
  BY DEF LinksInv
<1> QED
  BY <1>1, <1>2, LinksStep, PTL DEF TSpec
--------------------------------------------------------------------------------
(* Configuration.  A variable that a service has not read yet is one its   *)
(* request still has to reload it for, unless the request fails or only    *)
(* the constructor of the service reads it; and what should be in the file *)
(* gives every setting its value in force, whatever is drawn, since a      *)
(* value that was drawn is in the .env file.                               *)
Plain == {"a", "A", "b", "bad", "unset"}
Stored == Plain \cup {OnDisk(k, v) : k \in Variables, v \in Plain}
Services == {ServiceOf[k] : k \in Variables}

\* What a variable may be given, by a request or by the wizard.
Given(k) == ValuesOf(k) \cup WizardValues

Todos == {f \in UNION {[K -> Plain] : K \in SUBSET Variables} :
             \A k \in DOMAIN f : f[k] \in Given(k)}

Requests ==
    [stage : {"idle", "setting", "reloading", "failed", "succeeded"}, todo : Todos,
     changed : SUBSET Services, refused : BOOLEAN]

WillReload(u, s) ==
    \/ u.stage = "setting" /\ (u.refused \/ s \in u.changed)
    \/ u.stage = "reloading" /\ s \in u.changed
    \/ u.stage = "failed"

ConfigTyped ==
    /\ env \in [Variables -> Plain] /\ dotenv \in [Variables -> Plain]
    /\ computed \in [Variables -> Stored]
    /\ fileData \in [Variables -> Stored] /\ file \in [Variables -> Stored]
    /\ updates \in [Updates -> Requests]

ReloadsOwed ==
    \A r \in Updates, k \in Variables \ ReadOnce :
       <<r, k>> \in owed /\ ServiceOf[k] \in Restartable => WillReload(updates[r], ServiceOf[k])

FileGivesSettings ==
    /\ \A k \in Variables \ Secrets : \A d \in Defaults :
          Computed(k, Loaded(Overlaid(env, dotenv), fileData, d, k)) = computed[k]
    /\ ~unsaved => file = fileData

\* Only drawn values are saved to .env.
OnlyDrawnSaved == \A k \in Variables \ Generated : dotenv[k] = "unset"

ConfigInv == ConfigTyped /\ ReloadsOwed /\ FileGivesSettings /\ OnlyDrawnSaved

LEMMA TodoValues ==
    ASSUME NEW f \in Todos
    PROVE  /\ DOMAIN f \subseteq Variables
           /\ \A k \in DOMAIN f : f[k] \in Given(k) /\ f[k] \in Plain /\ f[k] # "unset"
<1>1. PICK K \in SUBSET Variables : f \in [K -> Plain]
  BY DEF Todos
<1> QED
  BY <1>1 DEF Todos, Given, ValuesOf, WizardValues

LEMMA TodoOf ==
    ASSUME NEW K \in SUBSET Variables, NEW f \in [K -> Plain], \A k \in K : f[k] \in Given(k)
    PROVE  f \in Todos
  BY DEF Todos

LEMMA LessToDo ==
    ASSUME NEW f \in Todos, NEW k
    PROVE  [q \in DOMAIN f \ {k} |-> f[q]] \in Todos
<1> DEFINE K == DOMAIN f \ {k}
           g == [q \in K |-> f[q]]
<1>1. K \in SUBSET Variables /\ g \in [K -> Plain] /\ \A q \in K : g[q] \in Given(q)
  BY TodoValues
<1> HIDE DEF K, g
<1>2. g \in Todos
  BY <1>1, TodoOf
<1> QED
  BY <1>2 DEF K, g

LEMMA Fresh ==
    /\ NoUpdate \in Requests /\ NoUpdate.stage = "idle"
    /\ \A stage \in {"failed", "succeeded"} :
          Ended(stage) \in Requests /\ Ended(stage).stage = stage
<1> DEFINE none == [k \in {} |-> "unset"]
<1>1. none \in Todos
  <2>1. {} \in SUBSET Variables /\ none \in [{} -> Plain] /\ \A k \in {} : none[k] \in Given(k)
    BY DEF Plain
  <2> HIDE DEF none
  <2> QED
    BY <2>1, TodoOf, Zenon
<1>2. NoUpdate = [stage |-> "idle", todo |-> none, changed |-> {}, refused |-> FALSE]
  BY DEF NoUpdate
<1> HIDE DEF none
<1> QED
  BY <1>1, <1>2 DEF Ended, Requests

LEMMA ValuesStored ==
    ASSUME NEW k \in Variables
    PROVE  /\ ValuesOf(k) \subseteq Plain /\ Plain \subseteq Stored /\ "unset" \in Plain
           /\ FixedDefault \in Plain /\ \A d \in Defaults : d[k] \in Plain
           /\ \A v \in Stored : Transformed(k, v) \in Stored /\ Computed(k, v) \in Stored
           /\ \A v \in Plain : OnDisk(k, v) \in Stored
           /\ k \notin Secrets => \A v : OnDisk(k, v) = v
<1>1. /\ ValuesOf(k) \subseteq Plain /\ Plain \subseteq Stored /\ "unset" \in Plain
      /\ FixedDefault \in Plain /\ \A d \in Defaults : d[k] \in Plain
  <2>1. ValuesOf(k) \subseteq Plain
    BY DEF ValuesOf, Plain
  <2>2. FixedDefault \in Plain /\ "unset" \in Plain /\ \A d \in Defaults : d[k] \in Plain
    BY DEF FixedDefault, Defaults, Plain
  <2>3. Plain \subseteq Stored
    BY DEF Stored
  <2> QED
    BY <2>1, <2>2, <2>3
<1>2. \A v \in Stored : Transformed(k, v) \in Stored
  BY <1>1 DEF Transformed, Plain
<1>3. \A v \in Stored : Computed(k, v) \in Stored
  BY <1>1, <1>2 DEF Computed
<1>4. \A v \in Plain : OnDisk(k, v) \in Stored
  BY DEF Stored
<1>5. k \notin Secrets => \A v : OnDisk(k, v) = v
  BY DEF OnDisk
<1> QED
  BY <1>1, <1>2, <1>3, <1>4, <1>5

(* A start that draws the defaults d leaves behind a .env file with which  *)
(* no other draw would be looked at.                                       *)
LEMMA DrawnAreGiven ==
    ASSUME NEW e \in [Variables -> Plain], NEW saved \in [Variables -> Plain], NEW d \in Defaults,
           \A k \in Variables \ Generated : saved[k] = "unset",
           NEW now, now = DrawnSaved(Overlaid(e, saved), saved, d)
    PROVE  /\ now \in [Variables -> Plain] /\ \A k \in Variables \ Generated : now[k] = "unset"
           /\ \A k \in Variables \ Secrets : \A c \in Defaults : \A f :
                 Loaded(Overlaid(e, now), f, c, k) = Loaded(Overlaid(e, saved), f, d, k)
<1>1. \A k \in Variables : Overlaid(e, saved)[k] = IF e[k] # "unset" THEN e[k] ELSE saved[k]
  BY DEF Overlaid
<1>2. \A k \in Variables : d[k] \in Plain
  BY ValuesStored
<1>3. /\ now \in [Variables -> Plain]
      /\ \A k \in Variables :
            now[k] = IF k \in Generated /\ Overlaid(e, saved)[k] = "unset" THEN d[k] ELSE saved[k]
  BY <1>2 DEF DrawnSaved
<1>4. \A k \in Variables : Overlaid(e, now)[k] = IF e[k] # "unset" THEN e[k] ELSE now[k]
  BY <1>3 DEF Overlaid
<1>5. ASSUME NEW k \in Variables \ Secrets, NEW c \in Defaults, NEW f
      PROVE  Loaded(Overlaid(e, now), f, c, k) = Loaded(Overlaid(e, saved), f, d, k)
  <2>1. CASE k \in Generated
    <3>1. d[k] # "unset"
      BY <2>1 DEF Defaults, DefaultsOf, ValuesOf
    <3>. QED
      BY <1>1, <1>3, <1>4, <2>1, <3>1 DEF Loaded
  <2>2. CASE k \notin Generated
    <3>1. c[k] = d[k]
      BY <2>2 DEF Defaults, DefaultsOf
    <3>. QED
      BY <1>1, <1>3, <1>4, <2>2, <3>1 DEF Loaded
  <2>. QED
    BY <2>1, <2>2
<1>. QED
  BY <1>1, <1>3, <1>5

(* A step of a request that leaves the settings alone.                     *)
LEMMA RequestMoves ==
    ASSUME ConfigInv, NEW r \in Updates, NEW u \in Requests, updates' = [updates EXCEPT ![r] = u],
           owed' \subseteq owed,
           \A k \in Variables \ ReadOnce :
              <<r, k>> \in owed' /\ ServiceOf[k] \in Restartable => WillReload(u, ServiceOf[k]),
           UNCHANGED <<env, dotenv, computed, fileData, file, unsaved>>
    PROVE  ConfigInv'
<1>1. /\ updates' \in [Updates -> Requests] /\ updates'[r] = u
      /\ \A q \in Updates : q # r => updates'[q] = updates[q]
  BY DEF ConfigInv, ConfigTyped
<1>2. ConfigTyped' /\ FileGivesSettings' /\ OnlyDrawnSaved'
  BY <1>1 DEF ConfigInv, ConfigTyped, FileGivesSettings, OnlyDrawnSaved, Computed, Loaded, Overlaid
<1>3. ReloadsOwed'
  BY <1>1 DEF ConfigInv, ReloadsOwed
<1> QED
  BY <1>2, <1>3 DEF ConfigInv

(* A request begins: nothing was owed to it.                               *)
LEMMA RequestBegins ==
    ASSUME ConfigInv, NEW r \in Updates, NEW values \in Todos, Begin(r, values)
    PROVE  ConfigInv'
<1> DEFINE u == [updates[r] EXCEPT !.stage = "setting", !.todo = values]
<1>1. updates[r] \in Requests /\ updates[r].stage = "idle"
  BY DEF ConfigInv, ConfigTyped, Begin
<1>2. u \in Requests
  BY <1>1 DEF Requests
<1>3. updates' = [updates EXCEPT ![r] = u] /\ UNCHANGED <<env, dotenv, computed, fileData, file, unsaved, owed>>
  BY <1>1 DEF Begin, ConfigInv, ConfigTyped, Requests
<1>4. \A k \in Variables \ ReadOnce : <<r, k>> \in owed => ServiceOf[k] \notin Restartable
  BY <1>1 DEF ConfigInv, ReloadsOwed, WillReload
<1> HIDE DEF u
<1> QED
  BY <1>2, <1>3, <1>4, RequestMoves

LEMMA ConfigStep == ConfigInv /\ [CfNext]_configVars => ConfigInv'
<1> SUFFICES ASSUME ConfigInv, [CfNext]_configVars PROVE ConfigInv'
    OBVIOUS
<1>t. ConfigTyped
  BY DEF ConfigInv
<1>1. CASE Start
  <2>1. env' \in [Variables -> Plain]
    BY <1>1, ConfigurationAssumption DEF Start, Plain
  <2>2. PICK saved \in {dotenv, NothingSet}, d \in Defaults :
           /\ dotenv' = DrawnSaved(Overlaid(env', saved), saved, d)
           /\ raw' = [q \in Variables |-> Loaded(Overlaid(env', saved), file, d, q)]
    BY <1>1 DEF Start
  <2>3. /\ computed' = [q \in Variables |-> Computed(q, raw'[q])]
        /\ fileData' = file /\ file' = file /\ owed' = {} /\ updates' = [r \in Updates |-> NoUpdate]
    BY <1>1 DEF Start
  <2>4. saved \in [Variables -> Plain] /\ \A k \in Variables \ Generated : saved[k] = "unset"
    BY <1>t DEF ConfigTyped, ConfigInv, OnlyDrawnSaved, NothingSet, Plain
  <2>5. /\ dotenv' \in [Variables -> Plain] /\ \A k \in Variables \ Generated : dotenv'[k] = "unset"
        /\ \A k \in Variables \ Secrets : \A c \in Defaults : \A f :
              Loaded(Overlaid(env', dotenv'), f, c, k) = Loaded(Overlaid(env', saved), f, d, k)
    BY <2>1, <2>2, <2>4, DrawnAreGiven
  <2>6. \A q \in Variables : Loaded(Overlaid(env', saved), file, d, q) \in Stored
    <3>1. \A q \in Variables : Overlaid(env', saved)[q] \in Plain
      BY <2>1, <2>4 DEF Overlaid
    <3>. QED
      BY <1>t, <3>1, ValuesStored DEF ConfigTyped, Loaded
  <2>7. \A q \in Variables :
           /\ computed'[q] = Computed(q, Loaded(Overlaid(env', saved), file, d, q))
           /\ computed'[q] \in Stored
    BY <2>2, <2>3, <2>6, ValuesStored
  <2>8. computed' \in [Variables -> Stored]
    BY <2>3, <2>7
  <2>9. updates' \in [Updates -> Requests]
    BY <2>3, Fresh
  <2>10. ConfigTyped' /\ OnlyDrawnSaved'
    BY <1>t, <2>1, <2>3, <2>5, <2>8, <2>9 DEF ConfigTyped, OnlyDrawnSaved
  <2>11. ASSUME NEW q \in Variables \ Secrets, NEW c \in Defaults
         PROVE  Computed(q, Loaded(Overlaid(env', dotenv'), fileData', c, q)) = computed'[q]
    BY <2>3, <2>5, <2>7
  <2>12. FileGivesSettings'
    BY <2>3, <2>11 DEF FileGivesSettings, Computed, Loaded, Overlaid
  <2> QED
    BY <2>3, <2>10, <2>12 DEF ConfigInv, ReloadsOwed
<1>2. ASSUME NEW r \in Updates, UpdateConfigs(r) PROVE ConfigInv'
  <2>1. PICK K \in SUBSET Variables \ {{}} :
           \E values \in [K -> UNION {ValuesOf(k) : k \in K}] :
              (\A k \in K : values[k] \in ValuesOf(k)) /\ Begin(r, values)
    BY <1>2 DEF UpdateConfigs
  <2>2. PICK values \in [K -> UNION {ValuesOf(k) : k \in K}] :
           (\A k \in K : values[k] \in ValuesOf(k)) /\ Begin(r, values)
    BY <2>1
  <2>3. K \in SUBSET Variables /\ values \in [K -> Plain]
    BY <2>2, ValuesStored
  <2>4. values \in Todos
    BY <2>2, <2>3, TodoOf DEF Given
  <2> QED
    BY <2>2, <2>4, RequestBegins
<1>3. ASSUME NEW r \in Updates, ConfigureService(r) PROVE ConfigInv'
  <2>1. PICK s \in {ServiceOf[k] : k \in Variables}, v \in WizardValues :
           Begin(r, [k \in {q \in Variables : ServiceOf[q] = s} |-> v])
    BY <1>3 DEF ConfigureService
  <2> DEFINE K == {q \in Variables : ServiceOf[q] = s}
             values == [k \in K |-> v]
  <2>2. /\ K \in SUBSET Variables /\ values \in [K -> Plain]
        /\ \A k \in K : values[k] \in Given(k)
    BY DEF WizardValues, Plain, Given
  <2>3. Begin(r, values)
    BY <2>1
  <2> HIDE DEF K, values
  <2>4. values \in Todos
    BY <2>2, TodoOf
  <2> QED
    BY <2>3, <2>4, RequestBegins
<1>4. ASSUME NEW r \in Updates, NEW k \in Variables, SetValue(r, k) PROVE ConfigInv'
  <2> DEFINE v == updates[r].todo[k]
             todo == [q \in DOMAIN updates[r].todo \ {k} |-> updates[r].todo[q]]
             left == [updates[r] EXCEPT !.todo = todo]
             refused == [left EXCEPT !.refused = TRUE]
             set == [left EXCEPT !.changed = ServicesChanged(r, k)]
  <2>1. updates[r] \in Requests /\ updates[r].stage = "setting" /\ k \in DOMAIN updates[r].todo
    BY <1>4, <1>t DEF SetValue, ConfigTyped
  <2>2. updates[r].todo \in Todos
    BY <2>1 DEF Requests
  <2>3. todo \in Todos /\ v \in Given(k) /\ v \in Plain /\ v # "unset"
    BY <2>1, <2>2, LessToDo, TodoValues
  <2>4. \/ /\ Unchanged(k, v)
           /\ updates' = [updates EXCEPT ![r] = left]
           /\ UNCHANGED <<raw, computed, fileData, file, unsaved, owed>>
        \/ /\ ~Unchanged(k, v) /\ ~IsValid(v)
           /\ updates' = [updates EXCEPT ![r] = refused]
           /\ UNCHANGED <<raw, computed, fileData, file, unsaved, owed>>
        \/ /\ ~Unchanged(k, v) /\ IsValid(v)
           /\ raw' = [raw EXCEPT ![k] = v]
           /\ computed' = [computed EXCEPT ![k] = Transformed(k, v)]
           /\ fileData' = [fileData EXCEPT ![k] = OnDisk(k, v)]
           /\ owed' = owed \cup {<<r, k>>}
           /\ \/ /\ file' = fileData' /\ unsaved' = FALSE
                 /\ updates' = [updates EXCEPT ![r] = set]
              \/ /\ unsaved' = TRUE /\ UNCHANGED file
                 /\ updates' = [updates EXCEPT ![r] = refused]
    BY <1>4 DEF SetValue
  <2>5. UNCHANGED <<env, dotenv>>
    BY <1>4 DEF SetValue
  <2>6. ServicesChanged(r, k) = updates[r].changed \cup {ServiceOf[k]} /\ ServiceOf[k] \in Services
    BY DEF ServicesChanged, Services
  <2> HIDE DEF todo, v
  <2>7. /\ left \in Requests /\ left.stage = "setting" /\ left.changed = updates[r].changed
        /\ left.refused = updates[r].refused
    BY <2>1, <2>3 DEF Requests
  <2> HIDE DEF left
  <2>8. refused \in Requests /\ refused.stage = "setting" /\ refused.refused = TRUE
    BY <2>7 DEF Requests
  <2>9. /\ set \in Requests /\ set.stage = "setting" /\ set.refused = left.refused
        /\ set.changed = updates[r].changed \cup {ServiceOf[k]}
    BY <2>6, <2>7 DEF Requests
  <2> HIDE DEF refused, set
  <2>10. CASE updates' = [updates EXCEPT ![r] = left]
              /\ UNCHANGED <<raw, computed, fileData, file, unsaved, owed>>
    <3>1. \A q \in Variables \ ReadOnce :
             <<r, q>> \in owed /\ ServiceOf[q] \in Restartable => WillReload(left, ServiceOf[q])
      BY <2>1, <2>7 DEF ConfigInv, ReloadsOwed, WillReload
    <3> QED
      BY <2>5, <2>7, <2>10, <3>1, RequestMoves
  <2>11. CASE updates' = [updates EXCEPT ![r] = refused]
              /\ UNCHANGED <<raw, computed, fileData, file, unsaved, owed>>
    BY <2>5, <2>8, <2>11, RequestMoves DEF WillReload
  <2>12. ASSUME IsValid(v), computed' = [computed EXCEPT ![k] = Transformed(k, v)],
                fileData' = [fileData EXCEPT ![k] = OnDisk(k, v)],
                owed' = owed \cup {<<r, k>>},
                \/ file' = fileData' /\ unsaved' = FALSE
                \/ unsaved' = TRUE /\ UNCHANGED file,
                NEW u \in Requests, updates' = [updates EXCEPT ![r] = u],
                u.stage = "setting",
                \/ u.refused = TRUE
                \/ /\ u.changed = updates[r].changed \cup {ServiceOf[k]}
                   /\ u.refused = updates[r].refused
         PROVE  ConfigInv'
    <3>1. /\ updates' \in [Updates -> Requests] /\ updates'[r] = u
          /\ \A q \in Updates : q # r => updates'[q] = updates[q]
      BY <1>t, <2>12 DEF ConfigTyped
    <3>2. Transformed(k, v) \in Stored /\ OnDisk(k, v) \in Stored
      BY <2>3, ValuesStored
    <3>3. ConfigTyped' /\ OnlyDrawnSaved'
      BY <1>t, <2>5, <2>12, <3>1, <3>2 DEF ConfigTyped, ConfigInv, OnlyDrawnSaved
    <3>4. ASSUME NEW q \in Variables \ Secrets, NEW d \in Defaults
          PROVE  Computed(q, Loaded(Overlaid(env, dotenv), fileData', d, q)) = computed'[q]
      <4>1. CASE q = k
        <5>1. fileData'[q] = v /\ computed'[q] = Transformed(k, v)
          BY <1>t, <2>12, <3>2, <4>1, ValuesStored DEF ConfigTyped
        <5> QED
          BY <2>3, <2>12, <4>1, <5>1 DEF Computed, Loaded
      <4>2. CASE q # k
        <5>1. fileData'[q] = fileData[q] /\ computed'[q] = computed[q]
          BY <1>t, <2>12, <4>2 DEF ConfigTyped
        <5> QED
          BY <5>1 DEF ConfigInv, FileGivesSettings, Loaded
      <4> QED
        BY <4>1, <4>2
    <3>5. FileGivesSettings'
      BY <2>5, <2>12, <3>4 DEF FileGivesSettings, Loaded, Computed, Overlaid
    <3>6. ASSUME NEW q \in Updates, NEW j \in Variables \ ReadOnce, <<q, j>> \in owed', ServiceOf[j] \in Restartable
          PROVE  WillReload(updates'[q], ServiceOf[j])
      <4>1. CASE q # r
        BY <2>12, <3>1, <3>6, <4>1 DEF ConfigInv, ReloadsOwed
      <4>2. CASE q = r
        <5>1. j = k \/ <<r, j>> \in owed
          BY <2>12, <3>6, <4>2
        <5>2. u.refused \/ ServiceOf[j] \in u.changed
          BY <2>1, <2>12, <3>6, <5>1 DEF ConfigInv, ReloadsOwed, WillReload
        <5> QED
          BY <2>12, <3>1, <4>2, <5>2 DEF WillReload
      <4> QED
        BY <4>1, <4>2
    <3>7. ReloadsOwed'
      BY <3>6 DEF ReloadsOwed, WillReload
    <3> QED
      BY <3>3, <3>5, <3>7 DEF ConfigInv
  <2>13. CASE /\ IsValid(v)
              /\ computed' = [computed EXCEPT ![k] = Transformed(k, v)]
              /\ fileData' = [fileData EXCEPT ![k] = OnDisk(k, v)]
              /\ owed' = owed \cup {<<r, k>>}
              /\ \/ /\ file' = fileData' /\ unsaved' = FALSE
                    /\ updates' = [updates EXCEPT ![r] = set]
                 \/ /\ unsaved' = TRUE /\ UNCHANGED file
                    /\ updates' = [updates EXCEPT ![r] = refused]
    <3>1. CASE file' = fileData' /\ unsaved' = FALSE /\ updates' = [updates EXCEPT ![r] = set]
      <4>1. /\ set.changed = updates[r].changed \cup {ServiceOf[k]}
            /\ set.refused = updates[r].refused
        BY <2>7, <2>9
      <4>2. set \in Requests /\ set.stage = "setting"
        BY <2>9
      <4> QED
        BY <2>12, <2>13, <3>1, <4>1, <4>2
    <3>2. CASE unsaved' = TRUE /\ UNCHANGED file /\ updates' = [updates EXCEPT ![r] = refused]
      BY <2>8, <2>12, <2>13, <3>2
    <3> QED
      BY <2>13, <3>1, <3>2
  <2> QED
    BY <2>4, <2>10, <2>11, <2>13, Zenon
<1>5. ASSUME NEW r \in Updates, EndSetting(r) PROVE ConfigInv'
  <2>1. updates[r] \in Requests /\ updates[r].stage = "setting"
    BY <1>5, <1>t DEF EndSetting, ConfigTyped
  <2>2. UNCHANGED <<env, dotenv, computed, fileData, file, unsaved, owed>>
    BY <1>5 DEF EndSetting
  <2>3. CASE updates[r].refused
    <3>1. updates' = [updates EXCEPT ![r] = Ended("failed")]
      BY <1>5, <2>3 DEF EndSetting
    <3> QED
      BY <2>2, <3>1, Fresh, RequestMoves DEF WillReload
  <2>4. CASE ~updates[r].refused
    <3> DEFINE u == [updates[r] EXCEPT !.stage = "reloading"]
    <3>1. updates' = [updates EXCEPT ![r] = u]
      BY <1>5, <2>4 DEF EndSetting
    <3>2. u \in Requests /\ u.stage = "reloading" /\ u.changed = updates[r].changed
      BY <2>1 DEF Requests
    <3> HIDE DEF u
    <3>3. \A k \in Variables \ ReadOnce :
             <<r, k>> \in owed /\ ServiceOf[k] \in Restartable => WillReload(u, ServiceOf[k])
      BY <2>1, <2>4, <3>2 DEF ConfigInv, ReloadsOwed, WillReload
    <3> QED
      BY <2>2, <3>1, <3>2, <3>3, RequestMoves
  <2> QED
    BY <2>3, <2>4
<1>6. ASSUME NEW r \in Updates, ReloadChanged(r) PROVE ConfigInv'
  <2>1. updates[r] \in Requests /\ updates[r].stage = "reloading"
    BY <1>6, <1>t DEF ReloadChanged, ConfigTyped
  <2>2. UNCHANGED <<env, dotenv, computed, fileData, file, unsaved>>
    BY <1>6 DEF ReloadChanged
  <2>3. CASE updates' = [updates EXCEPT ![r] = Ended("failed")] /\ UNCHANGED owed
    BY <2>2, <2>3, Fresh, RequestMoves DEF WillReload
  <2>4. ASSUME NEW s \in updates[r].changed,
               updates' = [updates EXCEPT ![r].changed = @ \ {s}],
               IF s \in Restartable THEN Reads(s) ELSE UNCHANGED owed
        PROVE  ConfigInv'
    <3> DEFINE u == [updates[r] EXCEPT !.changed = @ \ {s}]
    <3>1. u \in Requests /\ u.stage = "reloading" /\ u.changed = updates[r].changed \ {s}
      BY <2>1 DEF Requests
    <3>2. updates' = [updates EXCEPT ![r] = u]
      BY <2>4
    <3> HIDE DEF u
    <3>3. /\ owed' \subseteq owed
          /\ \A k \in Variables \ ReadOnce : <<r, k>> \in owed' /\ ServiceOf[k] \in Restartable => ServiceOf[k] # s
      BY <2>4 DEF Reads
    <3>4. \A k \in Variables \ ReadOnce :
             <<r, k>> \in owed' /\ ServiceOf[k] \in Restartable => WillReload(u, ServiceOf[k])
      BY <2>1, <3>1, <3>3 DEF ConfigInv, ReloadsOwed, WillReload
    <3> QED
      BY <2>2, <3>1, <3>2, <3>3, <3>4, RequestMoves
  <2> QED
    BY <1>6, <2>3, <2>4 DEF ReloadChanged
<1>7. ASSUME NEW r \in Updates, AnswerUpdate(r) PROVE ConfigInv'
  <2>1. /\ updates[r].stage = "reloading" /\ updates[r].changed = {}
        /\ updates' = [updates EXCEPT ![r] = Ended("succeeded")]
        /\ UNCHANGED <<env, dotenv, computed, fileData, file, unsaved, owed>>
    BY <1>7 DEF AnswerUpdate
  <2>2. \A k \in Variables \ ReadOnce : <<r, k>> \in owed => ServiceOf[k] \notin Restartable
    BY <2>1 DEF ConfigInv, ReloadsOwed, WillReload
  <2> QED
    BY <2>1, <2>2, Fresh, RequestMoves
<1>8. ASSUME NEW s \in Restartable, RestartService(s) PROVE ConfigInv'
  <2>1. owed' \subseteq owed /\ UNCHANGED <<env, dotenv, computed, fileData, file, updates, unsaved>>
    BY <1>8 DEF RestartService, Reads
  <2>2. ConfigTyped' /\ FileGivesSettings' /\ OnlyDrawnSaved'
    BY <2>1 DEF ConfigInv, ConfigTyped, FileGivesSettings, OnlyDrawnSaved, Computed, Loaded, Overlaid
  <2>3. ReloadsOwed'
    BY <2>1 DEF ConfigInv, ReloadsOwed
  <2> QED
    BY <2>2, <2>3 DEF ConfigInv
<1>9. CASE EndSetup \/ UNCHANGED configVars
  BY <1>9 DEF EndSetup, configVars, ConfigInv, ConfigTyped, ReloadsOwed, FileGivesSettings,
              OnlyDrawnSaved, Computed, Loaded, Overlaid
<1> QED
  BY <1>1, <1>2, <1>3, <1>4, <1>5, <1>6, <1>7, <1>8, <1>9 DEF CfNext

LEMMA ConfigStarts == CfInit => ConfigInv
<1> SUFFICES ASSUME CfInit PROVE ConfigInv
    OBVIOUS
<1>1. NothingSet \in [Variables -> Plain] /\ \A k \in Variables : NothingSet[k] = "unset"
  BY DEF NothingSet, Plain
<1>2. PICK d \in Defaults : raw = d /\ dotenv = DrawnSaved(env, NothingSet, d)
  BY DEF CfInit
<1>3. env = Overlaid(env, NothingSet)
  BY DEF CfInit, NothingSet, Overlaid
<1>4. /\ dotenv \in [Variables -> Plain] /\ \A k \in Variables \ Generated : dotenv[k] = "unset"
      /\ \A k \in Variables \ Secrets : \A c \in Defaults : \A f :
            Loaded(Overlaid(env, dotenv), f, c, k) = Loaded(env, f, d, k)
  <2>1. dotenv = DrawnSaved(Overlaid(env, NothingSet), NothingSet, d) /\ env \in [Variables -> Plain]
    BY <1>1, <1>2, <1>3 DEF CfInit
  <2>. QED
    BY <1>1, <1>3, <2>1, DrawnAreGiven
<1>5. \A k \in Variables : computed[k] = Computed(k, d[k]) /\ computed[k] \in Stored
  <2>1. \A k \in Variables : d[k] \in Stored
    BY ValuesStored
  <2>. QED
    BY <1>2, <2>1, ValuesStored DEF CfInit
<1>6. computed \in [Variables -> Stored] /\ NothingSet \in [Variables -> Stored]
  BY <1>1, <1>5, ValuesStored DEF CfInit
<1>7. updates \in [Updates -> Requests]
  BY Fresh DEF CfInit
<1>8. ConfigTyped /\ OnlyDrawnSaved
  BY <1>1, <1>4, <1>6, <1>7 DEF CfInit, ConfigTyped, OnlyDrawnSaved
<1>9. \A k \in Variables : Loaded(env, fileData, d, k) = d[k]
  BY <1>1 DEF CfInit, Loaded
<1>10. FileGivesSettings
  BY <1>4, <1>5, <1>9 DEF CfInit, FileGivesSettings
<1> QED
  BY <1>8, <1>10 DEF CfInit, ConfigInv, ReloadsOwed

(* An update that succeeds has reached every service it concerns, whatever *)
(* else is set, saved and reloaded meanwhile, but for the variables that a *)
(* service reads only when it is built (updateConfigs, 464-510): for any   *)
(* variables, services and number of requests.                             *)
THEOREM SuccessIsInForce == CfSpec => []SuccessMeansInForce
<1>1. ConfigInv => SuccessMeansInForce
  BY DEF ConfigInv, ReloadsOwed, WillReload, SuccessMeansInForce
<1> QED
  BY <1>1, ConfigStarts, ConfigStep, PTL DEF CfSpec

(* A restart finds the settings that were in force, whatever it draws and  *)
(* as long as no save failed: those with a fixed default always, those     *)
(* whose default is drawn when it finds the .env file it was saved to      *)
(* (configuration.service.ts:171-194).                                     *)
THEOREM SettingsSurviveRestart == CfSpec => []RestartKeepsSettings
<1>1. ASSUME ConfigInv
      PROVE  RestartKeepsSettings
  <2>1. \A k \in Variables \ Secrets : SurvivesRestart(k, dotenv)
    BY <1>1 DEF ConfigInv, FileGivesSettings, SurvivesRestart
  <2>2. ASSUME NEW k \in Variables \ (Secrets \cup Generated)
        PROVE  SurvivesRestart(k, NothingSet)
    <3>1. dotenv[k] = "unset" /\ NothingSet[k] = "unset"
      BY <1>1 DEF ConfigInv, OnlyDrawnSaved, NothingSet
    <3>2. Overlaid(env, NothingSet)[k] = Overlaid(env, dotenv)[k]
      BY <3>1 DEF Overlaid
    <3>3. \A f, d : Loaded(Overlaid(env, NothingSet), f, d, k) = Loaded(Overlaid(env, dotenv), f, d, k)
      BY <3>2 DEF Loaded
    <3>. QED
      BY <2>1, <3>3 DEF SurvivesRestart
  <2>. QED
    BY <2>1, <2>2 DEF RestartKeepsSettings
<1> QED
  BY <1>1, ConfigStarts, ConfigStep, PTL DEF CfSpec
--------------------------------------------------------------------------------
(* TitleExtraction.  A sequence of segments covers the places from a to b: *)
(* each begins where the one before it ends, and none is empty.            *)
TitleSegment == [start : Nat, end : Nat]
TextMatch == [index : Nat, length : Nat \ {0}]

Covers(s, a, b) ==
    /\ s \in Seq(TitleSegment)
    /\ \A i \in 1..Len(s) :
          /\ s[i].start < s[i].end
          /\ s[i].start = IF i = 1 THEN a ELSE s[i - 1].end
    /\ b = IF Len(s) = 0 THEN a ELSE s[Len(s)].end

(* Where a place of the text is once a match was removed.                  *)
PlaceWithout(x, m) ==
    IF x <= m.index THEN x
    ELSE IF x <= m.index + m.length THEN m.index ELSE x - m.length

NamePlaces == 1..NameLength

TitleInv == text \in Seq(NamePlaces) /\ Covers(segments, 0, Len(text))

(* Segments that cover neighbouring parts cover both.                      *)
LEMMA CoversTogether ==
    ASSUME NEW s, NEW t, NEW a, NEW b, NEW c, Covers(s, a, b), Covers(t, b, c)
    PROVE  Covers(s \o t, a, c)
<1>. DEFINE st == s \o t
<1>1. s \in Seq(TitleSegment) /\ t \in Seq(TitleSegment) /\ Len(s) \in Nat /\ Len(t) \in Nat
  BY LenProperties DEF Covers
<1>2. /\ st \in Seq(TitleSegment) /\ Len(st) = Len(s) + Len(t)
      /\ \A i \in 1..Len(s) + Len(t) : st[i] = IF i <= Len(s) THEN s[i] ELSE t[i - Len(s)]
  BY <1>1, ConcatProperties
<1>. HIDE DEF st
<1>3. ASSUME NEW i \in 1..Len(st)
      PROVE  /\ st[i].start < st[i].end
             /\ st[i].start = IF i = 1 THEN a ELSE st[i - 1].end
  <2>1. CASE i <= Len(s)
    <3>1. i \in 1..Len(s) /\ st[i] = s[i]
      BY <1>1, <1>2, <2>1
    <3>2. i # 1 => i - 1 \in 1..Len(s) + Len(t) /\ i - 1 <= Len(s)
      BY <1>1, <1>2, <3>1
    <3>3. i # 1 => st[i - 1] = s[i - 1]
      BY <1>2, <3>2
    <3>. QED
      BY <3>1, <3>3 DEF Covers
  <2>2. CASE ~(i <= Len(s))
    <3>. DEFINE j == i - Len(s)
    <3>1. j \in 1..Len(t) /\ st[i] = t[j]
      BY <1>1, <1>2, <2>2
    <3>2. t[j].start < t[j].end /\ t[j].start = IF j = 1 THEN b ELSE t[j - 1].end
      BY <3>1 DEF Covers
    <3>3. CASE j = 1
      <4>1. i = Len(s) + 1
        BY <1>1, <1>2, <3>3
      <4>2. Len(s) # 0 => st[i - 1] = s[Len(s)]
        BY <1>1, <1>2, <4>1
      <4>3. b = IF Len(s) = 0 THEN a ELSE s[Len(s)].end
        BY DEF Covers
      <4>4. i = 1 <=> Len(s) = 0
        BY <1>1, <4>1
      <4>. QED
        BY <3>1, <3>2, <3>3, <4>2, <4>3, <4>4
    <3>4. CASE j # 1
      <4>1. i # 1 /\ i - 1 \in 1..Len(s) + Len(t) /\ ~(i - 1 <= Len(s)) /\ i - 1 - Len(s) = j - 1
        BY <1>1, <1>2, <3>1, <3>4
      <4>2. st[i - 1] = t[j - 1]
        BY <1>2, <4>1
      <4>. QED
        BY <3>1, <3>2, <3>4, <4>1, <4>2
    <3>. QED
      BY <3>3, <3>4
  <2>. QED
    BY <2>1, <2>2
<1>4. c = IF Len(st) = 0 THEN a ELSE st[Len(st)].end
  <2>1. CASE Len(t) = 0
    <3>1. c = b /\ b = IF Len(s) = 0 THEN a ELSE s[Len(s)].end
      BY <2>1 DEF Covers
    <3>2. Len(st) = Len(s) /\ (Len(s) # 0 => st[Len(s)] = s[Len(s)])
      BY <1>1, <1>2, <2>1
    <3>. QED
      BY <3>1, <3>2
  <2>2. CASE Len(t) # 0
    <3>1. c = t[Len(t)].end
      BY <2>2 DEF Covers
    <3>2. Len(st) # 0 /\ st[Len(st)] = t[Len(t)]
      BY <1>1, <1>2, <2>2
    <3>. QED
      BY <3>1, <3>2
  <2>. QED
    BY <2>1, <2>2
<1>. QED
  BY <1>2, <1>3, <1>4 DEF Covers, st

(* One segment covers its places, and no segment covers no place.          *)
LEMMA OneCovers ==
    ASSUME NEW a \in Nat, NEW b \in Nat, a < b
    PROVE  Covers(<<[start |-> a, end |-> b]>>, a, b)
<1>. DEFINE x == [start |-> a, end |-> b]
<1>1. x \in TitleSegment /\ x.start = a /\ x.end = b
  BY DEF TitleSegment
<1>. HIDE DEF x
<1>2. <<x>> \in Seq(TitleSegment) /\ Len(<<x>>) = 1 /\ <<x>>[1] = x
  BY <1>1
<1>3. \A i \in 1..1 : i = 1
  OBVIOUS
<1>4. Covers(<<x>>, a, b)
  BY <1>1, <1>2, <1>3 DEF Covers
<1>. QED
  BY <1>4 DEF x

LEMMA NoneCovers == \A a : Covers(<<>>, a, a)
<1>1. <<>> \in Seq(TitleSegment) /\ Len(<<>>) = 0
  OBVIOUS
<1>. QED
  BY <1>1 DEF Covers

(* What is kept of a segment covers what is left of its places.            *)
LEMMA KeptCovers ==
    ASSUME NEW s \in TitleSegment, s.start < s.end, NEW m \in TextMatch
    PROVE  Covers(Kept(s, m), PlaceWithout(s.start, m), PlaceWithout(s.end, m))
<1>. DEFINE a == s.start
            b == s.end
            i == m.index
            l == m.length
            before == <<[start |-> a, end |-> i]>>
            after == <<[start |-> i, end |-> b - l]>>
<1>1. a \in Nat /\ b \in Nat /\ a < b /\ i \in Nat /\ l \in Nat /\ l > 0
  BY DEF TitleSegment, TextMatch
<1>2. s = [start |-> a, end |-> b]
  BY DEF TitleSegment
<1>3. Kept(s, m) =
        IF b <= i THEN <<s>>
        ELSE IF a >= i + l THEN <<[start |-> a - l, end |-> b - l]>>
        ELSE (IF a < i THEN before ELSE <<>>) \o (IF b > i + l THEN after ELSE <<>>)
  BY DEF Kept
<1>4. /\ PlaceWithout(a, m) = IF a <= i THEN a ELSE IF a <= i + l THEN i ELSE a - l
      /\ PlaceWithout(b, m) = IF b <= i THEN b ELSE IF b <= i + l THEN i ELSE b - l
  BY DEF PlaceWithout
<1>. DEFINE pa == PlaceWithout(a, m)
            pb == PlaceWithout(b, m)
<1>. HIDE DEF a, b, i, l, pa, pb
<1>5. CASE b <= i
  <2>1. pa = a /\ pb = b /\ Kept(s, m) = <<[start |-> a, end |-> b]>>
    BY <1>1, <1>2, <1>3, <1>4, <1>5 DEF pa, pb
  <2>. QED
    BY <1>1, <2>1, OneCovers DEF pa, pb, a, b
<1>6. CASE ~(b <= i) /\ a >= i + l
  <2>1. pa = a - l /\ pb = b - l /\ Kept(s, m) = <<[start |-> a - l, end |-> b - l]>>
    BY <1>1, <1>3, <1>4, <1>6 DEF pa, pb
  <2>2. a - l \in Nat /\ b - l \in Nat /\ a - l < b - l
    BY <1>1, <1>6
  <2>3. Covers(<<[start |-> a - l, end |-> b - l]>>, a - l, b - l)
    BY <2>2, OneCovers
  <2>. QED
    BY <2>1, <2>3 DEF pa, pb, a, b
<1>7. CASE ~(b <= i) /\ ~(a >= i + l)
  <2>. DEFINE x == IF a < i THEN before ELSE <<>>
              y == IF b > i + l THEN after ELSE <<>>
  <2>1. Kept(s, m) = x \o y
    BY <1>3, <1>7
  <2>2. Covers(x, pa, i)
    <3>1. CASE a < i
      <4>1. pa = a /\ x = before
        BY <1>1, <1>4, <3>1 DEF pa
      <4>. QED
        BY <1>1, <3>1, <4>1, OneCovers
    <3>2. CASE ~(a < i)
      <4>1. pa = i /\ x = <<>>
        BY <1>1, <1>4, <1>7, <3>2 DEF pa
      <4>. QED
        BY <4>1, NoneCovers
    <3>. QED
      BY <3>1, <3>2
  <2>3. Covers(y, i, pb)
    <3>1. CASE b > i + l
      <4>1. pb = b - l /\ y = after /\ b - l \in Nat /\ i < b - l
        BY <1>1, <1>4, <3>1 DEF pb
      <4>. QED
        BY <1>1, <4>1, OneCovers
    <3>2. CASE ~(b > i + l)
      <4>1. pb = i /\ y = <<>>
        BY <1>1, <1>4, <1>7, <3>2 DEF pb
      <4>. QED
        BY <4>1, NoneCovers
    <3>. QED
      BY <3>1, <3>2
  <2>. HIDE DEF x, y
  <2>4. Covers(x \o y, pa, pb)
    BY <2>2, <2>3, CoversTogether
  <2>. QED
    BY <2>1, <2>4 DEF pa, pb, a, b
<1>. QED
  BY <1>5, <1>6, <1>7

(* The functions that the loops of the extraction compute.                 *)
KeepNext(segs, m, done, i) == done \o Kept(segs[i], m)
KeptUpTo(f, segs, m, n) ==
    f = [i \in 0..n |-> IF i = 0 THEN <<>> ELSE KeepNext(segs, m, f[i - 1], i)]

MergeNext(ms, merged, i) == IF i = 1 THEN <<ms[1]>> ELSE MergeOne(ms[1], merged, ms[i])
MergedUpTo(f, ms, n) ==
    f = [i \in 0..n |-> IF i = 0 THEN <<>> ELSE MergeNext(ms, f[i - 1], i)]

RemoveNext(list, left, i) == RemoveOne(left, list[Len(list) + 1 - i])
RemovedUpTo(f, list, whole, n) ==
    f = [i \in 0..n |-> IF i = 0 THEN whole ELSE RemoveNext(list, f[i - 1], i)]

(* The loops over segments and matches are recursive functions, which      *)
(* exist for every length: a least length without one would follow on one  *)
(* that has it.                                                            *)
LEMMA KeptUpToExists ==
    ASSUME NEW segs, NEW m, NEW n \in Nat
    PROVE  \E f : KeptUpTo(f, segs, m, n)
<1>. DEFINE None == {k \in Nat : ~\E f : KeptUpTo(f, segs, m, k)}
<1>1. SUFFICES ASSUME None # {}
               PROVE  FALSE
  OBVIOUS
<1>2. PICK k \in None : \A j \in None : k <= j
  BY <1>1, LeastNatural, Zenon
<1>3. CASE k = 0
  <2>. DEFINE g == [i \in 0..0 |-> <<>>]
  <2>1. KeptUpTo(g, segs, m, 0)
    BY DEF KeptUpTo
  <2>. QED
    BY <1>2, <1>3, <2>1
<1>4. CASE k # 0
  <2>1. k - 1 \in Nat /\ k - 1 \notin None
    BY <1>2, <1>4
  <2>2. PICK f : KeptUpTo(f, segs, m, k - 1)
    BY <2>1
  <2>. DEFINE g == [i \in 0..k |-> IF i = k THEN KeepNext(segs, m, f[k - 1], k) ELSE f[i]]
  <2>3. \A i \in 0..(k - 1) : f[i] = IF i = 0 THEN <<>> ELSE KeepNext(segs, m, f[i - 1], i)
    BY <2>2 DEF KeptUpTo
  <2>4. \A i \in 0..(k - 1) : g[i] = f[i]
    BY <2>1
  <2>5. ASSUME NEW i \in 0..k
        PROVE  g[i] = IF i = 0 THEN <<>> ELSE KeepNext(segs, m, g[i - 1], i)
    <3>1. CASE i = k
      <4>1. g[i] = KeepNext(segs, m, f[k - 1], k) /\ g[k - 1] = f[k - 1]
        BY <2>1, <2>4, <3>1
      <4>. HIDE DEF g
      <4>. QED
        BY <1>4, <3>1, <4>1
    <3>2. CASE i # k
      <4>1. i \in 0..(k - 1)
        BY <2>1, <3>2
      <4>2. i # 0 => i - 1 \in 0..(k - 1)
        BY <4>1
      <4>. HIDE DEF g
      <4>. QED
        BY <2>3, <2>4, <4>1, <4>2
    <3>. QED
      BY <3>1, <3>2
  <2>6. g = [i \in 0..k |-> g[i]]
    OBVIOUS
  <2>. HIDE DEF g
  <2>7. KeptUpTo(g, segs, m, k)
    BY <2>5, <2>6 DEF KeptUpTo
  <2>. QED
    BY <1>2, <2>7
<1>. QED
  BY <1>3, <1>4

(* The same of the loop that merges matches.                               *)
LEMMA MergedUpToExists ==
    ASSUME NEW ms, NEW n \in Nat
    PROVE  \E f : MergedUpTo(f, ms, n)
<1>. DEFINE None == {k \in Nat : ~\E f : MergedUpTo(f, ms, k)}
<1>1. SUFFICES ASSUME None # {}
               PROVE  FALSE
  OBVIOUS
<1>2. PICK k \in None : \A j \in None : k <= j
  BY <1>1, LeastNatural, Zenon
<1>3. CASE k = 0
  <2>. DEFINE g == [i \in 0..0 |-> <<>>]
  <2>1. MergedUpTo(g, ms, 0)
    BY DEF MergedUpTo
  <2>. QED
    BY <1>2, <1>3, <2>1
<1>4. CASE k # 0
  <2>1. k - 1 \in Nat /\ k - 1 \notin None
    BY <1>2, <1>4
  <2>2. PICK f : MergedUpTo(f, ms, k - 1)
    BY <2>1
  <2>. DEFINE g == [i \in 0..k |-> IF i = k THEN MergeNext(ms, f[k - 1], k) ELSE f[i]]
  <2>3. \A i \in 0..(k - 1) : f[i] = IF i = 0 THEN <<>> ELSE MergeNext(ms, f[i - 1], i)
    BY <2>2 DEF MergedUpTo
  <2>4. \A i \in 0..(k - 1) : g[i] = f[i]
    BY <2>1
  <2>5. ASSUME NEW i \in 0..k
        PROVE  g[i] = IF i = 0 THEN <<>> ELSE MergeNext(ms, g[i - 1], i)
    <3>1. CASE i = k
      <4>1. g[i] = MergeNext(ms, f[k - 1], k) /\ g[k - 1] = f[k - 1]
        BY <2>1, <2>4, <3>1
      <4>. HIDE DEF g
      <4>. QED
        BY <1>4, <3>1, <4>1
    <3>2. CASE i # k
      <4>1. i \in 0..(k - 1)
        BY <2>1, <3>2
      <4>2. i # 0 => i - 1 \in 0..(k - 1)
        BY <4>1
      <4>. HIDE DEF g
      <4>. QED
        BY <2>3, <2>4, <4>1, <4>2
    <3>. QED
      BY <3>1, <3>2
  <2>6. g = [i \in 0..k |-> g[i]]
    OBVIOUS
  <2>. HIDE DEF g
  <2>7. MergedUpTo(g, ms, k)
    BY <2>5, <2>6 DEF MergedUpTo
  <2>. QED
    BY <1>2, <2>7
<1>. QED
  BY <1>3, <1>4

(* The same of the loop that removes them.                                 *)
LEMMA RemovedUpToExists ==
    ASSUME NEW list, NEW whole, NEW n \in Nat
    PROVE  \E f : RemovedUpTo(f, list, whole, n)
<1>. DEFINE None == {k \in Nat : ~\E f : RemovedUpTo(f, list, whole, k)}
<1>1. SUFFICES ASSUME None # {}
               PROVE  FALSE
  OBVIOUS
<1>2. PICK k \in None : \A j \in None : k <= j
  BY <1>1, LeastNatural, Zenon
<1>3. CASE k = 0
  <2>. DEFINE g == [i \in 0..0 |-> whole]
  <2>1. RemovedUpTo(g, list, whole, 0)
    BY DEF RemovedUpTo
  <2>. QED
    BY <1>2, <1>3, <2>1
<1>4. CASE k # 0
  <2>1. k - 1 \in Nat /\ k - 1 \notin None
    BY <1>2, <1>4
  <2>2. PICK f : RemovedUpTo(f, list, whole, k - 1)
    BY <2>1
  <2>. DEFINE g == [i \in 0..k |-> IF i = k THEN RemoveNext(list, f[k - 1], k) ELSE f[i]]
  <2>3. \A i \in 0..(k - 1) : f[i] = IF i = 0 THEN whole ELSE RemoveNext(list, f[i - 1], i)
    BY <2>2 DEF RemovedUpTo
  <2>4. \A i \in 0..(k - 1) : g[i] = f[i]
    BY <2>1
  <2>5. ASSUME NEW i \in 0..k
        PROVE  g[i] = IF i = 0 THEN whole ELSE RemoveNext(list, g[i - 1], i)
    <3>1. CASE i = k
      <4>1. g[i] = RemoveNext(list, f[k - 1], k) /\ g[k - 1] = f[k - 1]
        BY <2>1, <2>4, <3>1
      <4>. HIDE DEF g
      <4>. QED
        BY <1>4, <3>1, <4>1
    <3>2. CASE i # k
      <4>1. i \in 0..(k - 1)
        BY <2>1, <3>2
      <4>2. i # 0 => i - 1 \in 0..(k - 1)
        BY <4>1
      <4>. HIDE DEF g
      <4>. QED
        BY <2>3, <2>4, <4>1, <4>2
    <3>. QED
      BY <3>1, <3>2
  <2>6. g = [i \in 0..k |-> g[i]]
    OBVIOUS
  <2>. HIDE DEF g
  <2>7. RemovedUpTo(g, list, whole, k)
    BY <2>5, <2>6 DEF RemovedUpTo
  <2>. QED
    BY <1>2, <2>7
<1>. QED
  BY <1>3, <1>4

(* Removing a match leaves segments that cover what is left of the text.   *)
LEMMA RecalculatedCovers ==
    ASSUME NEW segs, NEW n \in Nat, Covers(segs, 0, n), NEW m \in TextMatch
    PROVE  Covers(Recalculated(segs, m), 0, PlaceWithout(n, m))
<1>. DEFINE f == CHOOSE x : KeptUpTo(x, segs, m, Len(segs))
            EndOf(i) == IF i = 0 THEN 0 ELSE segs[i].end
            Good(i) == Covers(f[i], 0, PlaceWithout(EndOf(i), m))
            Bad == {i \in 0..Len(segs) : ~Good(i)}
<1>1. /\ segs \in Seq(TitleSegment) /\ Len(segs) \in Nat
      /\ \A i \in 1..Len(segs) :
            /\ segs[i] \in TitleSegment /\ segs[i].start < segs[i].end
            /\ segs[i].start = EndOf(i - 1)
      /\ n = EndOf(Len(segs))
  <2>1. segs \in Seq(TitleSegment) /\ Len(segs) \in Nat
    BY LenProperties DEF Covers
  <2>2. \A i \in 1..Len(segs) : segs[i] \in TitleSegment
    BY <2>1, ElementOfSeq
  <2>3. ASSUME NEW i \in 1..Len(segs)
        PROVE  segs[i].start < segs[i].end /\ segs[i].start = EndOf(i - 1)
    <3>1. /\ segs[i].start < segs[i].end
          /\ segs[i].start = IF i = 1 THEN 0 ELSE segs[i - 1].end
      BY DEF Covers
    <3>2. i - 1 = 0 <=> i = 1
      BY <2>1
    <3>. QED
      BY <3>1, <3>2
  <2>. QED
    BY <2>1, <2>2, <2>3 DEF Covers
<1>2. KeptUpTo(f, segs, m, Len(segs))
  BY <1>1, KeptUpToExists
<1>3. Recalculated(segs, m) = f[Len(segs)]
  BY DEF Recalculated, KeptUpTo, KeepNext
<1>. HIDE DEF f, EndOf
<1>4. \A i \in 0..Len(segs) : f[i] = IF i = 0 THEN <<>> ELSE KeepNext(segs, m, f[i - 1], i)
  BY <1>2 DEF KeptUpTo
<1>. HIDE DEF Good
<1>5. Bad = {}
  <2>1. SUFFICES ASSUME Bad # {}
                 PROVE  FALSE
    OBVIOUS
  <2>2. Bad \in SUBSET Nat
    OBVIOUS
  <2>3. PICK k \in Bad : \A j \in Bad : k <= j
    BY <2>1, <2>2, LeastNatural, Zenon
  <2>4. CASE k = 0
    <3>1. f[k] = <<>>
      BY <1>1, <1>4, <2>3, <2>4
    <3>2. EndOf(k) = 0 /\ PlaceWithout(0, m) = 0
      BY <2>4 DEF EndOf, PlaceWithout, TextMatch
    <3>3. Covers(f[k], 0, PlaceWithout(EndOf(k), m))
      BY <3>1, <3>2, NoneCovers
    <3>. QED
      BY <2>3, <3>3 DEF Good
  <2>5. CASE k # 0
    <3>1. k - 1 \in 0..Len(segs) /\ k - 1 \notin Bad /\ k \in 1..Len(segs)
      BY <1>1, <2>3, <2>5
    <3>. DEFINE s == segs[k]
                q == f[k - 1]
    <3>2. Covers(q, 0, PlaceWithout(s.start, m))
      BY <1>1, <3>1 DEF Good
    <3>3. f[k] = q \o Kept(s, m)
      BY <1>4, <2>3, <2>5 DEF KeepNext
    <3>4. s \in TitleSegment /\ s.start < s.end
      BY <1>1, <3>1
    <3>5. EndOf(k) = s.end
      BY <2>5 DEF EndOf
    <3>. HIDE DEF s, q
    <3>6. Covers(Kept(s, m), PlaceWithout(s.start, m), PlaceWithout(s.end, m))
      BY <3>4, KeptCovers
    <3>7. Covers(q \o Kept(s, m), 0, PlaceWithout(s.end, m))
      BY <3>2, <3>6, CoversTogether
    <3>. QED
      BY <2>3, <3>3, <3>5, <3>7 DEF Good
  <2>. QED
    BY <2>4, <2>5
<1>6. Good(Len(segs))
  <2>1. Len(segs) \in 0..Len(segs)
    BY <1>1
  <2>. QED
    BY <1>5, <2>1
<1>. QED
  BY <1>1, <1>3, <1>6 DEF Good

(* A piece of a text.                                                      *)
LEMMA PieceIs ==
    ASSUME NEW t \in Seq(NamePlaces), NEW a \in Nat, NEW b \in Nat, a >= 1, b <= Len(t)
    PROVE  /\ SubSeq(t, a, b) \in Seq(NamePlaces)
           /\ Len(SubSeq(t, a, b)) = IF a <= b THEN b - a + 1 ELSE 0
<1>1. Len(t) \in Nat
  BY LenProperties
<1>2. CASE a <= b
  <2>1. \A j \in a..b : t[j] \in NamePlaces
    BY <1>1, ElementOfSeq
  <2>. QED
    BY <1>1, <1>2, <2>1
<1>3. CASE ~(a <= b)
  <2>1. SubSeq(t, a, b) = <<>>
    BY <1>1, <1>3
  <2>. QED
    BY <1>3, <2>1
<1>. QED
  BY <1>2, <1>3

(* A match removed leaves a text, as long as the place of its end says.    *)
LEMMA WithoutIs ==
    ASSUME NEW t \in Seq(NamePlaces), NEW m \in TextMatch
    PROVE  Without(t, m) \in Seq(NamePlaces) /\ Len(Without(t, m)) = PlaceWithout(Len(t), m)
<1>1. m.index \in Nat /\ m.length \in Nat /\ m.length > 0 /\ Len(t) \in Nat
  BY LenProperties DEF TextMatch
<1>2. LeastOf(m.index, Len(t)) \in Nat /\ LeastOf(m.index, Len(t)) <= Len(t)
  BY <1>1 DEF LeastOf
<1>3. m.index + m.length + 1 \in Nat /\ m.index + m.length + 1 >= 1
  BY <1>1
<1>. DEFINE head == SubSeq(t, 1, LeastOf(m.index, Len(t)))
            tail == SubSeq(t, m.index + m.length + 1, Len(t))
<1>4. /\ head \in Seq(NamePlaces)
      /\ Len(head) = IF 1 <= LeastOf(m.index, Len(t)) THEN LeastOf(m.index, Len(t)) - 1 + 1 ELSE 0
  BY <1>2, PieceIs
<1>5. /\ tail \in Seq(NamePlaces)
      /\ Len(tail) = IF m.index + m.length + 1 <= Len(t)
                     THEN Len(t) - (m.index + m.length + 1) + 1 ELSE 0
  BY <1>1, <1>3, PieceIs
<1>6. Without(t, m) = head \o tail
  BY DEF Without
<1>. HIDE DEF head, tail
<1>7. head \o tail \in Seq(NamePlaces) /\ Len(head \o tail) = Len(head) + Len(tail)
  BY <1>4, <1>5, ConcatProperties
<1>8. Len(head) + Len(tail) = PlaceWithout(Len(t), m)
  <2>1. \A i \in Nat, l \in Nat, n \in Nat :
           (IF 1 <= LeastOf(i, n) THEN LeastOf(i, n) - 1 + 1 ELSE 0)
             + (IF i + l + 1 <= n THEN n - (i + l + 1) + 1 ELSE 0)
           = IF n <= i THEN n ELSE IF n <= i + l THEN i ELSE n - l
    BY DEF LeastOf
  <2>2. (IF 1 <= LeastOf(m.index, Len(t)) THEN LeastOf(m.index, Len(t)) - 1 + 1 ELSE 0)
          + (IF m.index + m.length + 1 <= Len(t) THEN Len(t) - (m.index + m.length + 1) + 1 ELSE 0)
        = IF Len(t) <= m.index THEN Len(t)
          ELSE IF Len(t) <= m.index + m.length THEN m.index ELSE Len(t) - m.length
    BY <1>1, <2>1, Zenon
  <2>3. PlaceWithout(Len(t), m)
        = IF Len(t) <= m.index THEN Len(t)
          ELSE IF Len(t) <= m.index + m.length THEN m.index ELSE Len(t) - m.length
    BY DEF PlaceWithout
  <2>4. Len(head) = IF 1 <= LeastOf(m.index, Len(t)) THEN LeastOf(m.index, Len(t)) - 1 + 1 ELSE 0
    BY <1>4
  <2>5. Len(tail) = IF m.index + m.length + 1 <= Len(t)
                    THEN Len(t) - (m.index + m.length + 1) + 1 ELSE 0
    BY <1>5
  <2>. QED
    BY <2>2, <2>3, <2>4, <2>5
<1>. QED
  BY <1>6, <1>7, <1>8

(* A match that is widened is still a match.                               *)
LEMMA ExpandedIs ==
    ASSUME NEW t, NEW m \in TextMatch
    PROVE  Expanded(t, m) \in TextMatch
<1>. DEFINE depths == {d \in 0..m.index :
                \A e \in 0..(d - 1) : Surrounded(t, [index |-> m.index - e, length |-> m.length + 2 * e])}
            depth == CHOOSE d \in depths : \A e \in depths : e <= d
            inner == [index |-> m.index - depth, length |-> m.length + 2 * depth]
<1>1. m.index \in Nat /\ m.length \in Nat \ {0}
  BY DEF TextMatch
<1>2. 0 \in depths
  BY <1>1
<1>3. Expanded(t, m) =
        IF /\ inner.index > 0 /\ Len(t) > inner.index + inner.length
           /\ CharacterAt(t, inner.index - 1) = CharacterAt(t, inner.index + inner.length)
        THEN [index |-> inner.index - 1, length |-> inner.length + 1]
        ELSE inner
  BY DEF Expanded
<1>4. depths \in SUBSET (0..m.index)
  OBVIOUS
<1>. HIDE DEF depths
<1>5. \E d \in depths : \A e \in depths : e <= d
  <2>. DEFINE gaps == {m.index - d : d \in depths}
  <2>1. gaps \in SUBSET Nat /\ gaps # {}
    BY <1>1, <1>2, <1>4
  <2>2. PICK g \in gaps : \A h \in gaps : g <= h
    BY <2>1, LeastNatural, Zenon
  <2>3. PICK d \in depths : g = m.index - d
    BY <2>2
  <2>4. ASSUME NEW e \in depths
        PROVE  e <= d
    <3>1. m.index - d <= m.index - e
      BY <2>2, <2>3
    <3>. QED
      BY <1>1, <1>4, <3>1
  <2>. QED
    BY <2>4
<1>6. depth \in 0..m.index
  BY <1>4, <1>5
<1>. HIDE DEF depth
<1>7. inner.index \in Nat /\ inner.length \in Nat \ {0}
  BY <1>1, <1>6
<1>8. inner \in TextMatch
  BY <1>7 DEF TextMatch
<1>. HIDE DEF inner
<1>9. inner.index > 0 => [index |-> inner.index - 1, length |-> inner.length + 1] \in TextMatch
  BY <1>7 DEF TextMatch
<1>. QED
  BY <1>3, <1>8, <1>9

Workable(w) == w.text \in Seq(NamePlaces) /\ Covers(w.segments, 0, Len(w.text))

(* Removing a match moves text and segments alike.                         *)
LEMMA RemoveOneCovers ==
    ASSUME NEW w, Workable(w), NEW m \in TextMatch
    PROVE  Workable(RemoveOne(w, m))
<1>. DEFINE wide == Expanded(w.text, m)
<1>1. wide \in TextMatch
  BY ExpandedIs
<1>2. /\ RemoveOne(w, m).text = Without(w.text, wide)
      /\ RemoveOne(w, m).segments = Recalculated(w.segments, wide)
  BY DEF RemoveOne
<1>. HIDE DEF wide
<1>3. w.text \in Seq(NamePlaces) /\ Len(w.text) \in Nat /\ Covers(w.segments, 0, Len(w.text))
  BY LenProperties DEF Workable
<1>4. Without(w.text, wide) \in Seq(NamePlaces) /\ Len(Without(w.text, wide)) = PlaceWithout(Len(w.text), wide)
  BY <1>1, <1>3, WithoutIs
<1>5. Covers(Recalculated(w.segments, wide), 0, PlaceWithout(Len(w.text), wide))
  BY <1>1, <1>3, RecalculatedCovers
<1>. QED
  BY <1>2, <1>4, <1>5 DEF Workable

(* Merging leaves matches.                                                 *)
LEMMA MergeOneIs ==
    ASSUME NEW first \in TextMatch, NEW merged \in Seq(TextMatch), Len(merged) # 0,
           NEW next \in TextMatch
    PROVE  MergeOne(first, merged, next) \in Seq(TextMatch) /\ Len(MergeOne(first, merged, next)) # 0
<1>. DEFINE current == Last(merged)
            currentEnd == current.index + current.length
            mergedEnd == MostOf(currentEnd, next.index + next.length)
            added == LeastOf(mergedEnd - currentEnd, next.length)
            longer == [current EXCEPT !.length = first.length + added]
<1>1. Len(merged) \in Nat
  BY LenProperties
<1>2. current \in TextMatch
  <2>1. Len(merged) \in 1..Len(merged)
    BY <1>1
  <2>. QED
    BY <2>1, ElementOfSeq DEF Last
<1>3. MergeOne(first, merged, next) =
        IF next.index <= currentEnd + 1 THEN Front(merged) \o <<longer>> ELSE Append(merged, next)
  BY DEF MergeOne
<1>. HIDE DEF current
<1>4. added \in Nat
  <2>1. currentEnd \in Nat /\ next.index + next.length \in Nat /\ next.length \in Nat
    BY <1>2 DEF TextMatch
  <2>. HIDE DEF currentEnd
  <2>. QED
    BY <2>1 DEF LeastOf, MostOf
<1>. HIDE DEF added, currentEnd
<1>5. longer \in TextMatch
  <2>1. first.length + added \in Nat \ {0}
    BY <1>4 DEF TextMatch
  <2>. QED
    BY <1>2, <2>1 DEF TextMatch
<1>. HIDE DEF longer
<1>6. Front(merged) \in Seq(TextMatch)
  <2>1. \A j \in 1..(Len(merged) - 1) : merged[j] \in TextMatch
    BY <1>1, ElementOfSeq
  <2>. QED
    BY <1>1, <2>1 DEF Front
<1>7. Front(merged) \o <<longer>> \in Seq(TextMatch) /\ Len(Front(merged) \o <<longer>>) # 0
  <2>1. <<longer>> \in Seq(TextMatch) /\ Len(<<longer>>) = 1
    BY <1>5
  <2>2. Len(Front(merged)) \in Nat
    BY <1>6, LenProperties
  <2>. HIDE DEF Front
  <2>. QED
    BY <1>6, <2>1, <2>2, ConcatProperties
<1>8. Append(merged, next) \in Seq(TextMatch) /\ Len(Append(merged, next)) # 0
  BY <1>1, AppendProperties
<1>. QED
  BY <1>3, <1>7, <1>8

(* What is merged of matches is matches.                                   *)
LEMMA MergedIs ==
    ASSUME NEW ms \in Seq(TextMatch)
    PROVE  Merged(ms) \in Seq(TextMatch)
<1>. DEFINE f == CHOOSE x : MergedUpTo(x, ms, Len(ms))
            Good(i) == f[i] \in Seq(TextMatch) /\ (i # 0 => Len(f[i]) # 0)
            Bad == {i \in 0..Len(ms) : ~Good(i)}
<1>1. Len(ms) \in Nat /\ \A i \in 1..Len(ms) : ms[i] \in TextMatch
  BY LenProperties, ElementOfSeq
<1>2. MergedUpTo(f, ms, Len(ms))
  BY <1>1, MergedUpToExists
<1>3. Merged(ms) = f[Len(ms)]
  BY DEF Merged, MergedUpTo, MergeNext
<1>. HIDE DEF f
<1>4. \A i \in 0..Len(ms) : f[i] = IF i = 0 THEN <<>> ELSE MergeNext(ms, f[i - 1], i)
  BY <1>2 DEF MergedUpTo
<1>. HIDE DEF Good
<1>5. Bad = {}
  <2>1. SUFFICES ASSUME Bad # {}
                 PROVE  FALSE
    OBVIOUS
  <2>2. Bad \in SUBSET Nat
    OBVIOUS
  <2>3. PICK k \in Bad : \A j \in Bad : k <= j
    BY <2>1, <2>2, LeastNatural, Zenon
  <2>4. CASE k = 0
    <3>1. f[k] = <<>>
      BY <1>1, <1>4, <2>3, <2>4
    <3>2. <<>> \in Seq(TextMatch)
      OBVIOUS
    <3>. QED
      BY <2>3, <2>4, <3>1, <3>2 DEF Good
  <2>5. CASE k # 0
    <3>1. k - 1 \in 0..Len(ms) /\ k - 1 \notin Bad /\ k \in 1..Len(ms) /\ 1 \in 1..Len(ms)
      BY <1>1, <2>3, <2>5
    <3>. DEFINE q == f[k - 1]
    <3>2. q \in Seq(TextMatch) /\ (k - 1 # 0 => Len(q) # 0)
      BY <3>1 DEF Good
    <3>3. f[k] = IF k = 1 THEN <<ms[1]>> ELSE MergeOne(ms[1], q, ms[k])
      BY <1>4, <2>3, <2>5 DEF MergeNext
    <3>. HIDE DEF q
    <3>4. <<ms[1]>> \in Seq(TextMatch) /\ Len(<<ms[1]>>) = 1
      BY <1>1, <3>1
    <3>5. k # 1 => MergeOne(ms[1], q, ms[k]) \in Seq(TextMatch) /\ Len(MergeOne(ms[1], q, ms[k])) # 0
      <4>1. k # 1 => Len(q) # 0
        BY <3>1, <3>2
      <4>. QED
        BY <1>1, <3>1, <3>2, <4>1, MergeOneIs
    <3>6. f[k] \in Seq(TextMatch) /\ Len(f[k]) # 0
      <4>1. CASE k = 1
        <5>1. f[k] = <<ms[1]>>
          BY <3>3, <4>1
        <5>. QED
          BY <3>4, <5>1
      <4>2. CASE k # 1
        <5>1. f[k] = MergeOne(ms[1], q, ms[k])
          BY <3>3, <4>2
        <5>. QED
          BY <3>5, <4>2, <5>1
      <4>. QED
        BY <4>1, <4>2
    <3>. QED
      BY <2>3, <3>6 DEF Good
  <2>. QED
    BY <2>4, <2>5
<1>6. Good(Len(ms))
  <2>1. Len(ms) \in 0..Len(ms)
    BY <1>1
  <2>. QED
    BY <1>5, <2>1
<1>. QED
  BY <1>3, <1>6 DEF Good

(* Removing one match after another keeps segments and text in step.       *)
LEMMA RemoveMatchesCovers ==
    ASSUME TitleInv, NEW ms \in Seq(TextMatch)
    PROVE  Workable(RemoveMatches(ms))
<1>. DEFINE list == Merged(ms)
            whole == [text |-> text, segments |-> segments]
            f == CHOOSE x : RemovedUpTo(x, list, whole, Len(list))
            Good(i) == Workable(f[i])
            Bad == {i \in 0..Len(list) : ~Good(i)}
<1>1. list \in Seq(TextMatch)
  BY MergedIs
<1>2. RemoveMatches(ms) = f[Len(list)]
  BY DEF RemoveMatches, RemovedUpTo, RemoveNext
<1>. HIDE DEF list
<1>3. Len(list) \in Nat /\ \A i \in 1..Len(list) : list[i] \in TextMatch
  BY <1>1, LenProperties, ElementOfSeq
<1>4. Workable(whole)
  BY DEF TitleInv, Workable
<1>. HIDE DEF whole
<1>5. RemovedUpTo(f, list, whole, Len(list))
  BY <1>3, RemovedUpToExists
<1>. HIDE DEF f
<1>6. \A i \in 0..Len(list) : f[i] = IF i = 0 THEN whole ELSE RemoveNext(list, f[i - 1], i)
  BY <1>5 DEF RemovedUpTo
<1>. HIDE DEF Good
<1>7. Bad = {}
  <2>1. SUFFICES ASSUME Bad # {}
                 PROVE  FALSE
    OBVIOUS
  <2>2. Bad \in SUBSET Nat
    OBVIOUS
  <2>3. PICK k \in Bad : \A j \in Bad : k <= j
    BY <2>1, <2>2, LeastNatural, Zenon
  <2>4. CASE k = 0
    <3>1. f[k] = whole
      BY <1>3, <1>6, <2>3, <2>4
    <3>. QED
      BY <1>4, <2>3, <3>1 DEF Good
  <2>5. CASE k # 0
    <3>1. k - 1 \in 0..Len(list) /\ k - 1 \notin Bad /\ Len(list) + 1 - k \in 1..Len(list)
      BY <1>3, <2>3, <2>5
    <3>. DEFINE q == f[k - 1]
                m == list[Len(list) + 1 - k]
    <3>2. Workable(q) /\ m \in TextMatch
      BY <1>3, <3>1 DEF Good
    <3>3. f[k] = RemoveOne(q, m)
      BY <1>6, <2>3, <2>5 DEF RemoveNext
    <3>. HIDE DEF q, m
    <3>4. Workable(RemoveOne(q, m))
      BY <3>2, RemoveOneCovers
    <3>. QED
      BY <2>3, <3>3, <3>4 DEF Good
  <2>. QED
    BY <2>4, <2>5
<1>8. Good(Len(list))
  <2>1. Len(list) \in 0..Len(list)
    BY <1>3
  <2>. QED
    BY <1>7, <2>1
<1>. QED
  BY <1>2, <1>8 DEF Good

(* What a kind finds is matches.                                           *)
LEMMA MatchListsAre ==
    ASSUME text \in Seq(NamePlaces), NEW ms \in MatchLists
    PROVE  ms \in Seq(TextMatch)
<1>1. Matches \subseteq TextMatch
  <2>1. Len(text) \in Nat
    BY LenProperties
  <2>. QED
    BY <2>1 DEF Matches, TextMatch
<1>2. PICK n \in 1..MaxMatches : ms \in [1..n -> Matches]
  BY DEF MatchLists
<1>3. n \in Nat /\ \A i \in 1..n : ms[i] \in TextMatch
  BY <1>1, <1>2, TitleExtractionAssumption
<1>4. ms = [i \in 1..n |-> ms[i]]
  BY <1>2
<1>. QED
  BY <1>3, <1>4, IsASeq

(* Every kind that is looked for keeps the segments the text.              *)
LEMMA TitleInvStep == TitleInv /\ [TiNext]_titleVars => TitleInv'
<1>. SUFFICES ASSUME TitleInv, [TiNext]_titleVars
              PROVE  TitleInv'
  OBVIOUS
<1>1. CASE ExtractSourceMetadata
  <2>1. NameLength \in Nat /\ 0 < NameLength /\ 0 \in Nat
    BY TitleExtractionAssumption
  <2>2. text' = [i \in 1..NameLength |-> i] /\ segments' = <<[start |-> 0, end |-> NameLength]>>
    BY <1>1 DEF ExtractSourceMetadata
  <2>3. [i \in 1..NameLength |-> i] \in Seq(NamePlaces) /\ Len([i \in 1..NameLength |-> i]) = NameLength
    BY <2>1 DEF NamePlaces
  <2>4. Covers(<<[start |-> 0, end |-> NameLength]>>, 0, NameLength)
    BY <2>1, OneCovers
  <2>. QED
    BY <2>2, <2>3, <2>4 DEF TitleInv, Covers
<1>2. CASE ExtractKind
  <2>1. PICK ms \in MatchLists :
           text' = RemoveMatches(ms).text /\ segments' = RemoveMatches(ms).segments
    BY <1>2 DEF ExtractKind
  <2>2. ms \in Seq(TextMatch)
    BY MatchListsAre DEF TitleInv
  <2>3. Workable(RemoveMatches(ms))
    BY <2>2, RemoveMatchesCovers
  <2>. QED
    BY <2>1, <2>3 DEF Workable, TitleInv, Covers
<1>3. CASE NoTitleFound
  BY <1>3 DEF NoTitleFound, TitleInv, Covers
<1>4. CASE CleanTitle
  <2>1. text' = <<>> /\ segments' = <<>>
    BY <1>4 DEF CleanTitle
  <2>2. <<>> \in Seq(NamePlaces) /\ Len(<<>>) = 0
    OBVIOUS
  <2>3. Covers(<<>>, 0, 0)
    BY NoneCovers
  <2>. QED
    BY <2>1, <2>2, <2>3 DEF TitleInv, Covers
<1>5. CASE UNCHANGED titleVars
  BY <1>5 DEF titleVars, TitleInv, Covers
<1>. QED
  BY <1>1, <1>2, <1>3, <1>4, <1>5 DEF TiNext

(***************************************************************************)
(* Of every name, and whatever the patterns match in it, the segments are  *)
(* all that is left of the text, one after another: merged matches,        *)
(* brackets and borders never make the two disagree                        *)
(* (segment-manager.ts:14-105, pattern-matcher.ts:29-101).                 *)
(***************************************************************************)
THEOREM SegmentsStayTheText == TiSpec => []SegmentsCoverText
<1>1. TiInit => TitleInv
  <2>1. <<>> \in Seq(NamePlaces) /\ Len(<<>>) = 0
    OBVIOUS
  <2>. QED
    BY <2>1, NoneCovers DEF TiInit, TitleInv
<1>2. TitleInv => SegmentsCoverText
  <2>. SUFFICES ASSUME TitleInv
                PROVE  SegmentsCoverText
    OBVIOUS
  <2>1. segments \in Seq(TitleSegment) /\ Len(segments) \in Nat
    BY LenProperties DEF TitleInv, Covers
  <2>2. segments = <<>> <=> Len(segments) = 0
    BY <2>1, EmptySeq
  <2>. QED
    BY <2>2 DEF TitleInv, Covers, SegmentsCoverText, Last
<1>. QED
  BY <1>1, <1>2, TitleInvStep, PTL DEF TiSpec
--------------------------------------------------------------------------------
(* SourceStats.  A quiet check takes the interval of a source at least as  *)
(* far as the randomness at its worst lets it, and so do several.          *)
GrowsFrom(i) == Within((8 * Within(2 * i) + 9) \div 10)

QuietFunction(f, n) ==
    f = [i \in 0..n |-> IF i = 0 THEN MinInterval ELSE GrowsFrom(f[i - 1])]

StatsInv ==
    /\ interval \in [StatSources -> {NeverChecked} \cup MinInterval..MaxInterval]
    /\ dueIn \in [StatSources -> Nat]
    /\ streak \in [StatSources -> Huge..QuietChecks]
    /\ \A s \in StatSources :
          /\ dueIn[s] <= interval[s]
          /\ interval[s] = NeverChecked => streak[s] = 0
          /\ interval[s] # NeverChecked =>
                /\ streak[s] \in 1..(QuietChecks - 1) => interval[s] >= LeastQuiet[streak[s]]
                /\ streak[s] = QuietChecks => 10 * interval[s] >= 8 * MaxInterval
                /\ streak[s] = Huge => 10 * interval[s] <= 12 * MinInterval

(* The intervals after quiet checks are a recursive function, which        *)
(* exists for every number of checks.                                      *)
LEMMA QuietFunctionExists ==
    ASSUME NEW n \in Nat
    PROVE  \E f : QuietFunction(f, n)
<1>. DEFINE None == {k \in Nat : ~\E f : QuietFunction(f, k)}
<1>1. SUFFICES ASSUME None # {}
               PROVE  FALSE
  OBVIOUS
<1>2. PICK k \in None : \A j \in None : k <= j
  BY <1>1, LeastNatural, Zenon
<1>3. CASE k = 0
  <2>. DEFINE g == [i \in 0..0 |-> MinInterval]
  <2>1. QuietFunction(g, 0)
    BY DEF QuietFunction
  <2>. QED
    BY <1>2, <1>3, <2>1
<1>4. CASE k # 0
  <2>1. k - 1 \in Nat /\ k - 1 \notin None
    BY <1>2, <1>4
  <2>2. PICK f : QuietFunction(f, k - 1)
    BY <2>1
  <2>. DEFINE g == [i \in 0..k |-> IF i = k THEN GrowsFrom(f[k - 1]) ELSE f[i]]
  <2>3. \A i \in 0..(k - 1) : f[i] = IF i = 0 THEN MinInterval ELSE GrowsFrom(f[i - 1])
    BY <2>2 DEF QuietFunction
  <2>4. \A i \in 0..(k - 1) : g[i] = f[i]
    BY <2>1
  <2>5. ASSUME NEW i \in 0..k
        PROVE  g[i] = IF i = 0 THEN MinInterval ELSE GrowsFrom(g[i - 1])
    <3>1. CASE i = k
      <4>1. g[i] = GrowsFrom(f[k - 1]) /\ g[k - 1] = f[k - 1]
        BY <2>1, <2>4, <3>1
      <4>. HIDE DEF g
      <4>. QED
        BY <1>4, <3>1, <4>1
    <3>2. CASE i # k
      <4>1. i \in 0..(k - 1)
        BY <2>1, <3>2
      <4>2. i # 0 => i - 1 \in 0..(k - 1)
        BY <4>1
      <4>. HIDE DEF g
      <4>. QED
        BY <2>3, <2>4, <4>1, <4>2
    <3>. QED
      BY <3>1, <3>2
  <2>6. g = [i \in 0..k |-> g[i]]
    OBVIOUS
  <2>. HIDE DEF g
  <2>7. QuietFunction(g, k)
    BY <2>5, <2>6 DEF QuietFunction
  <2>. QED
    BY <1>2, <2>7
<1>. QED
  BY <1>3, <1>4

(* The least interval after n quiet checks follows from that after one     *)
(* less, and stays within the bounds.                                      *)
LEMMA LeastQuietIs ==
    /\ LeastQuiet[0] = MinInterval
    /\ \A n \in 1..QuietChecks : LeastQuiet[n] = GrowsFrom(LeastQuiet[n - 1])
    /\ \A n \in 0..QuietChecks : LeastQuiet[n] \in MinInterval..MaxInterval
<1>1. QuietFunction(LeastQuiet, QuietChecks)
  <2>1. \E f : QuietFunction(f, QuietChecks)
    BY QuietFunctionExists, StatsAssumption
  <2>2. LeastQuiet = CHOOSE f : QuietFunction(f, QuietChecks)
    BY DEF LeastQuiet, QuietFunction, GrowsFrom
  <2>. QED
    BY <2>1, <2>2
<1>2. \A n \in 0..QuietChecks :
         LeastQuiet[n] = IF n = 0 THEN MinInterval ELSE GrowsFrom(LeastQuiet[n - 1])
  BY <1>1 DEF QuietFunction
<1>3. QuietChecks \in Nat /\ MinInterval \in Nat /\ MaxInterval \in Nat /\ MinInterval <= MaxInterval
  BY StatsAssumption
<1>. DEFINE Out == {n \in 0..QuietChecks : LeastQuiet[n] \notin MinInterval..MaxInterval}
<1>4. Out = {}
  <2>1. SUFFICES ASSUME Out # {}
                 PROVE  FALSE
    OBVIOUS
  <2>2. Out \in SUBSET Nat
    BY <1>3
  <2>3. PICK k \in Out : \A j \in Out : k <= j
    BY <2>1, <2>2, LeastNatural, Zenon
  <2>4. CASE k = 0
    BY <1>2, <1>3, <2>3, <2>4
  <2>5. CASE k # 0
    <3>1. k - 1 \in 0..QuietChecks /\ k - 1 \notin Out
      BY <1>3, <2>3, <2>5
    <3>. DEFINE q == LeastQuiet[k - 1]
    <3>2. q \in MinInterval..MaxInterval
      BY <3>1
    <3>3. LeastQuiet[k] = GrowsFrom(q)
      BY <1>2, <2>3, <2>5
    <3>. HIDE DEF q
    <3>4. GrowsFrom(q) \in MinInterval..MaxInterval
      BY <1>3, <3>2 DEF GrowsFrom, Within
    <3>. QED
      BY <2>3, <3>3, <3>4
  <2>. QED
    BY <2>4, <2>5
<1>. QED
  BY <1>2, <1>3, <1>4

(* What the next interval is like, after a check that came back quiet or   *)
(* with a huge change.                                                     *)
LEMMA NextInterval ==
    ASSUME NEW last \in {NeverChecked} \cup MinInterval..MaxInterval, NEW change \in Changes,
           NEW i \in Randomised(BackoffInterval(last, change))
    PROVE  /\ i \in MinInterval..MaxInterval
           /\ change > 50 => 10 * i <= 12 * MinInterval
           /\ change < 5 => i >= GrowsFrom(IF last = NeverChecked THEN MinInterval ELSE last)
<1>. DEFINE l == IF last = NeverChecked THEN MinInterval ELSE last
            b == BackoffInterval(last, change)
<1>1. MinInterval \in Nat \ {0} /\ MaxInterval \in Nat /\ MinInterval <= MaxInterval
  BY StatsAssumption
<1>2. l \in MinInterval..MaxInterval
  BY <1>1
<1>3. \A x \in Int : Within(x) \in MinInterval..MaxInterval
  BY <1>1 DEF Within
<1>4. /\ b \in MinInterval..MaxInterval
      /\ change < 5 => b = Within(2 * l)
      /\ change > 50 => b = MinInterval
  BY <1>1, <1>2 DEF BackoffInterval, Changes, Within
<1>. HIDE DEF l, b
<1>5. PICK x \in (8 * b + 9) \div 10 .. (12 * b) \div 10 : i = Within(x)
  BY DEF Randomised, b
<1>6. i \in MinInterval..MaxInterval
  BY <1>1, <1>4, <1>5 DEF Within
<1>7. change > 50 => 10 * i <= 12 * MinInterval
  BY <1>1, <1>4, <1>5 DEF Within
<1>8. change < 5 => i >= Within((8 * b + 9) \div 10)
  BY <1>1, <1>4, <1>5 DEF Within
<1>9. change < 5 => i >= GrowsFrom(l)
  BY <1>4, <1>8 DEF GrowsFrom
<1>. QED
  BY <1>6, <1>7, <1>9 DEF l

(* A longer interval grows into a longer one.                              *)
LEMMA GrowsOrdered ==
    ASSUME NEW i \in Nat, NEW j \in Nat, i <= j
    PROVE  GrowsFrom(i) <= GrowsFrom(j)
BY StatsAssumption DEF GrowsFrom, Within

(* Every check of a source keeps the interval in step with the streak of   *)
(* quiet checks.                                                           *)
LEMMA StatsInvStep == StatsInv /\ [StatsNext]_statsVars => StatsInv'
<1>. SUFFICES ASSUME StatsInv, [StatsNext]_statsVars
              PROVE  StatsInv'
  OBVIOUS
<1>0. /\ MinInterval \in Nat \ {0} /\ MaxInterval \in Nat /\ MinInterval <= MaxInterval
      /\ QuietChecks \in Nat \ {0} /\ NeverChecked = 0 /\ Huge = -1
  BY StatsAssumption DEF NeverChecked, Huge
<1>1. ASSUME NEW s \in StatSources, NEW change \in Changes, Scraped(s, change)
      PROVE  StatsInv'
  <2>1. PICK i \in Randomised(BackoffInterval(interval[s], change)) :
           /\ interval' = [interval EXCEPT ![s] = i]
           /\ dueIn' = [dueIn EXCEPT ![s] = i]
    BY <1>1 DEF Scraped
  <2>. DEFINE last == interval[s]
              before == streak[s]
              after == CASE change > 50 -> Huge
                         [] change < 5  -> IF before = Huge THEN 1
                                           ELSE IF before < QuietChecks THEN before + 1 ELSE before
                         [] OTHER       -> 0
              l == IF last = NeverChecked THEN MinInterval ELSE last
  <2>2. streak' = [streak EXCEPT ![s] = after]
    BY <1>1 DEF Scraped
  <2>3. last \in {NeverChecked} \cup MinInterval..MaxInterval /\ before \in Huge..QuietChecks
    BY DEF StatsInv
  <2>4. /\ i \in MinInterval..MaxInterval
        /\ change > 50 => 10 * i <= 12 * MinInterval
        /\ change < 5 => i >= GrowsFrom(l)
    BY <2>1, <2>3, NextInterval
  <2>5. change \in Int /\ (change > 50 => after = Huge)
        /\ (change < 5 => after = IF before = Huge THEN 1
                                  ELSE IF before < QuietChecks THEN before + 1 ELSE before)
        /\ (~(change > 50) /\ ~(change < 5) => after = 0)
    BY DEF Changes
  <2>6. /\ last = NeverChecked => before = 0
        /\ last # NeverChecked =>
              /\ before \in 1..(QuietChecks - 1) => last >= LeastQuiet[before]
              /\ before = QuietChecks => 10 * last >= 8 * MaxInterval
    BY DEF StatsInv
  <2>7. l \in MinInterval..MaxInterval
    BY <1>0, <2>3
  <2>8. before \in 0..(QuietChecks - 1) => l >= LeastQuiet[before]
    BY <1>0, <2>3, <2>6, LeastQuietIs
  <2>9. before = QuietChecks => 10 * l >= 8 * MaxInterval
    BY <1>0, <2>6
  <2>. HIDE DEF last, before, after, l
  <2>10. after \in Huge..QuietChecks
    BY <1>0, <2>3, <2>5
  <2>11. after = Huge => 10 * i <= 12 * MinInterval
    BY <1>0, <2>3, <2>4, <2>5
  <2>12. after \in 1..QuietChecks =>
            /\ i >= GrowsFrom(l)
            /\ \/ before = Huge /\ after = 1
               \/ before \in 0..(QuietChecks - 1) /\ after = before + 1
               \/ before = QuietChecks /\ after = QuietChecks
    BY <1>0, <2>3, <2>4, <2>5
  <2>13. after \in 1..QuietChecks /\ before # QuietChecks => i >= LeastQuiet[after]
    <3>1. ASSUME after \in 1..QuietChecks, before # QuietChecks
          PROVE  i >= LeastQuiet[after]
      <4>1. LeastQuiet[after] = GrowsFrom(LeastQuiet[after - 1])
        BY <3>1, LeastQuietIs
      <4>2. l >= LeastQuiet[after - 1] /\ LeastQuiet[after - 1] \in Nat
        <5>1. after - 1 \in 0..QuietChecks
          BY <1>0, <3>1
        <5>2. LeastQuiet[after - 1] \in MinInterval..MaxInterval
          BY <5>1, LeastQuietIs
        <5>3. CASE before = Huge
          <6>1. after - 1 = 0
            BY <1>0, <2>12, <3>1, <5>3
          <6>2. LeastQuiet[after - 1] = MinInterval
            BY <6>1, LeastQuietIs
          <6>. QED
            BY <1>0, <2>7, <6>2
        <5>4. CASE before \in 0..(QuietChecks - 1)
          <6>1. after - 1 = before
            BY <1>0, <2>12, <3>1, <5>4
          <6>. QED
            BY <1>0, <2>8, <5>2, <5>4, <6>1
        <5>. QED
          BY <1>0, <2>3, <3>1, <5>3, <5>4
      <4>3. GrowsFrom(LeastQuiet[after - 1]) <= GrowsFrom(l)
        BY <1>0, <2>7, <4>2, GrowsOrdered
      <4>4. GrowsFrom(LeastQuiet[after - 1]) \in Int /\ GrowsFrom(l) \in Int
        BY <1>0, <2>7, <4>2 DEF GrowsFrom, Within
      <4>. QED
        BY <2>4, <2>12, <3>1, <4>1, <4>3, <4>4
    <3>. QED
      BY <3>1
  <2>14. after = QuietChecks => 10 * i >= 8 * MaxInterval
    <3>1. CASE before # QuietChecks
      <4>1. after = QuietChecks => i >= LeastQuiet[QuietChecks]
        BY <1>0, <2>13, <3>1
      <4>2. LeastQuiet[QuietChecks] \in MinInterval..MaxInterval
        BY <1>0, LeastQuietIs
      <4>. QED
        BY <1>0, <2>4, <4>1, <4>2, QuietAssumption
    <3>2. CASE before = QuietChecks
      <4>1. 10 * l >= 8 * MaxInterval
        BY <2>9, <3>2
      <4>2. 10 * GrowsFrom(l) >= 8 * MaxInterval /\ GrowsFrom(l) \in Int
        BY <1>0, <2>7, <4>1 DEF GrowsFrom, Within
      <4>. QED
        BY <1>0, <2>4, <2>12, <4>2
    <3>. QED
      BY <3>1, <3>2
  <2>15. ASSUME NEW t \in StatSources
         PROVE  /\ dueIn'[t] <= interval'[t]
                /\ interval'[t] = NeverChecked => streak'[t] = 0
                /\ interval'[t] # NeverChecked =>
                      /\ streak'[t] \in 1..(QuietChecks - 1) => interval'[t] >= LeastQuiet[streak'[t]]
                      /\ streak'[t] = QuietChecks => 10 * interval'[t] >= 8 * MaxInterval
                      /\ streak'[t] = Huge => 10 * interval'[t] <= 12 * MinInterval
    <3>1. CASE t = s
      <4>1. dueIn'[t] = i /\ interval'[t] = i /\ streak'[t] = after
        BY <2>1, <2>2, <3>1 DEF StatsInv
      <4>2. after \in 1..(QuietChecks - 1) => before # QuietChecks /\ after \in 1..QuietChecks
        BY <1>0, <2>12
      <4>. QED
        BY <1>0, <2>4, <2>11, <2>13, <2>14, <4>1, <4>2
    <3>2. CASE t # s
      <4>1. dueIn'[t] = dueIn[t] /\ interval'[t] = interval[t] /\ streak'[t] = streak[t]
        BY <2>1, <2>2, <3>2 DEF StatsInv
      <4>. QED
        BY <4>1 DEF StatsInv
    <3>. QED
      BY <3>1, <3>2
  <2>16. interval' \in [StatSources -> {NeverChecked} \cup MinInterval..MaxInterval]
    BY <2>1, <2>4 DEF StatsInv
  <2>17. dueIn' \in [StatSources -> Nat]
    <3>1. i \in Nat
      BY <1>0, <2>4
    <3>. QED
      BY <2>1, <3>1 DEF StatsInv
  <2>18. streak' \in [StatSources -> Huge..QuietChecks]
    BY <2>2, <2>10 DEF StatsInv
  <2>. QED
    BY <2>15, <2>16, <2>17, <2>18 DEF StatsInv
<1>2. CASE StatsTimePasses
  <2>. DEFINE left == {dueIn[s] : s \in {t \in StatSources : dueIn[t] > 0}}
              d == CHOOSE x \in left : \A y \in left : x <= y
  <2>1. /\ left # {} /\ interval' = interval /\ streak' = streak
        /\ dueIn' = [s \in StatSources |-> IF dueIn[s] = 0 THEN 0 ELSE dueIn[s] - d]
    BY <1>2 DEF StatsTimePasses
  <2>2. left \in SUBSET Nat
    BY DEF StatsInv
  <2>3. \E x \in left : \A y \in left : x <= y
    BY <2>1, <2>2, LeastNatural, Zenon
  <2>4. d \in left /\ \A y \in left : d <= y
    BY <2>3
  <2>5. d \in Nat
    BY <2>2, <2>4
  <2>. HIDE DEF d
  <2>6. ASSUME NEW s \in StatSources
        PROVE  dueIn'[s] \in Nat /\ dueIn'[s] <= dueIn[s]
    <3>1. dueIn[s] \in Nat
      BY DEF StatsInv
    <3>2. dueIn[s] # 0 => d <= dueIn[s]
      BY <2>4, <3>1
    <3>3. dueIn'[s] = IF dueIn[s] = 0 THEN 0 ELSE dueIn[s] - d
      BY <2>1
    <3>. QED
      BY <2>5, <3>1, <3>2, <3>3
  <2>7. dueIn' \in [StatSources -> Nat]
    <3>1. dueIn' = [s \in StatSources |-> dueIn'[s]]
      BY <2>1
    <3>. QED
      BY <2>6, <3>1
  <2>8. \A s \in StatSources : dueIn'[s] <= interval'[s]
    <3>1. \A s \in StatSources : interval[s] \in Int /\ dueIn[s] \in Int /\ dueIn[s] <= interval[s]
      BY <1>0 DEF StatsInv
    <3>. QED
      BY <2>1, <2>6, <3>1
  <2>. QED
    BY <2>1, <2>7, <2>8 DEF StatsInv
<1>3. CASE UNCHANGED <<dueIn, interval, streak>>
  BY <1>3 DEF StatsInv
<1>4. CASE SyncStatsForSources
  BY <1>3, <1>4 DEF SyncStatsForSources
<1>5. ASSUME NEW s \in StatSources, ScrapeFails(s)
      PROVE  StatsInv'
  BY <1>3, <1>5 DEF ScrapeFails
<1>6. CASE VpnMoves
  BY <1>3, <1>6 DEF VpnMoves
<1>7. CASE UNCHANGED statsVars
  BY <1>3, <1>7 DEF statsVars
<1>. QED
  BY <1>1, <1>2, <1>4, <1>5, <1>6, <1>7 DEF StatsNext, Answered

(***************************************************************************)
(* However the numbers of a source change and whatever the randomness, its *)
(* interval follows: nearly the longest after a few quiet checks, nearly   *)
(* the shortest after a huge change (scheduling.util.ts:22-48).            *)
(***************************************************************************)
THEOREM IntervalsFollow == StatsSpec => []IntervalsAdapt
<1>1. StatsInit => StatsInv
  BY StatsAssumption DEF StatsInit, StatsInv, NeverChecked, Huge
<1>2. StatsInv => IntervalsAdapt
  BY DEF StatsInv, IntervalsAdapt
<1>. QED
  BY <1>1, <1>2, StatsInvStep, PTL DEF StatsSpec
--------------------------------------------------------------------------------
(* What the variables hold, for the type invariant of the run.             *)
(* What the types of SourceSearch need besides SearchInv: whoever awaits a *)
(* search awaits one that is under way, and a file belongs to a source     *)
(* that is stored.                                                         *)
KeysInFlight ==
    /\ task = NoKey \/ InFlight(task)
    /\ \A v \in Visitors : visits[v].step = "await" => InFlight(visits[v].key)

FilesStored ==
    /\ filed \in [SMovies -> SUBSET Hashes] /\ \A m \in SMovies : filed[m] \subseteq rows[m]
    /\ due \subseteq SMovies
    /\ fetching \subseteq SMovies \X Hashes /\ \A s \in fetching : s[2] \in rows[s[1]]

SearchKnown == KeysInFlight /\ FilesStored

LEMMA LandKeepsKeys ==
    ASSUME KeysInFlight, visits \in [Visitors -> Visiting], NEW f \in flights, NEW sources,
           Land(f, sources)
    PROVE  KeysInFlight'
<1>1. \A k : InFlight(k) /\ k # f.key => InFlight(k)'
  BY DEF Land, InFlight
<1>2. task' = NoKey \/ InFlight(task)'
  BY <1>1 DEF Land, KeysInFlight
<1>3. ASSUME NEW v \in Visitors, visits'[v].step = "await"
      PROVE  \E g \in flights' : g.key = visits'[v].key
  <2>1. CASE visits[v].step = "await" /\ visits[v].key = f.key
    <3>1. visits'[v] = [visits[v] EXCEPT !.step = "answered", !.sources = sources, !.key = NoKey]
      BY <2>1 DEF Land
    <3>2. visits[v] \in Visiting
      OBVIOUS
    <3>3. visits'[v].step = "answered"
      BY <3>1, <3>2 DEF Visiting
    <3>. QED
      BY <1>3, <3>3
  <2>2. CASE ~(visits[v].step = "await" /\ visits[v].key = f.key)
    <3>1. visits'[v] = visits[v]
      BY <2>2 DEF Land
    <3>. QED
      BY <1>1, <1>3, <2>2, <3>1 DEF KeysInFlight, InFlight
  <2>. QED
    BY <2>1, <2>2
<1>. QED
  BY <1>2, <1>3 DEF KeysInFlight, InFlight

LEMMA BecomesKeepsKeys ==
    ASSUME KeysInFlight, NEW f \in flights, NEW g, g.key = f.key, Becomes(f, g),
           UNCHANGED <<task, visits>>
    PROVE  KeysInFlight'
<1>1. \A k : InFlight(k) => InFlight(k)'
  BY DEF Becomes, InFlight
<1>. QED
  BY <1>1 DEF KeysInFlight

LEMMA JoinFinds ==
    ASSUME NEW m, NEW dirs, NEW onDemand, Join(m, dirs, onDemand)
    PROVE  /\ \E f \in flights' : f.key = FlightKey(m, dirs, onDemand)
           /\ \A k : InFlight(k) => \E f \in flights' : f.key = k
<1>. DEFINE k == FlightKey(m, dirs, onDemand)
            new == [key |-> k, movie |-> m, asked |-> dirs, step |-> "start", from |-> "none",
                    found |-> {}]
<1>1. flights' = IF InFlight(k) THEN flights ELSE flights \cup {new}
  BY DEF Join
<1>2. new.key = k
  OBVIOUS
<1>. HIDE DEF k, new
<1>3. (\E f \in flights' : f.key = k) /\ \A j : InFlight(j) => \E f \in flights' : f.key = j
  BY <1>1, <1>2 DEF InFlight
<1>. QED
  BY <1>3 DEF k

\* A step of one visitor that does not begin to await.
LEMMA VisitKeepsKeys ==
    ASSUME KeysInFlight, visits \in [Visitors -> Visiting], NEW v \in Visitors, NEW new,
           new.step # "await", visits' = [visits EXCEPT ![v] = new], UNCHANGED <<task, flights>>
    PROVE  KeysInFlight'
  BY DEF KeysInFlight, InFlight

LEMMA SearchKnownStep == SearchInv /\ SearchKnown /\ [SSNext]_ssVars => SearchKnown'
<1>. SUFFICES ASSUME SearchInv, SearchKnown, [SSNext]_ssVars
              PROVE  SearchKnown'
  OBVIOUS
<1>t. /\ visits \in [Visitors -> Visiting] /\ flights \subseteq Searching
      /\ rows \in [SMovies -> SUBSET Hashes] /\ KeysInFlight /\ FilesStored
  BY DEF SearchInv, SearchTyped, SearchKnown
<1>f. UNCHANGED <<rows, filed, due, fetching>> => FilesStored'
  BY <1>t DEF FilesStored
<1>1. CASE BackgroundSearch
  <2>1. PICK m \in SMovies : Join(m, searched[m], FALSE) /\ task' = FlightKey(m, searched[m], FALSE)
    BY <1>1 DEF BackgroundSearch
  <2>2. UNCHANGED <<rows, filed, due, fetching, visits>>
    BY <1>1 DEF BackgroundSearch
  <2>3. (\E f \in flights' : f.key = task') /\ \A k : InFlight(k) => \E f \in flights' : f.key = k
    BY <2>1, JoinFinds
  <2>. QED
    BY <1>t, <1>f, <2>2, <2>3 DEF SearchKnown, KeysInFlight, InFlight
<1>2. ASSUME NEW f \in flights, Flight(f)
      PROVE  SearchKnown'
  <2>0. f \in Searching
    BY <1>t
  <2>1. CASE PassGate(f)
    <3>1. UNCHANGED <<rows, filed, due, fetching>>
      BY <2>1 DEF PassGate
    <3>2. CASE gateOpen
      <4>1. [f EXCEPT !.step = "ask"].key = f.key
        BY <2>0 DEF Searching
      <4>2. Becomes(f, [f EXCEPT !.step = "ask"]) /\ UNCHANGED <<task, visits>>
        BY <2>1, <3>2 DEF PassGate
      <4>. QED
        BY <1>t, <1>f, <3>1, <4>1, <4>2, BecomesKeepsKeys DEF SearchKnown
    <3>3. CASE ~gateOpen
      BY <1>t, <1>f, <2>1, <3>1, <3>3, LandKeepsKeys DEF SearchKnown, PassGate
    <3>. QED
      BY <3>2, <3>3
  <2>2. ASSUME NEW found \in SUBSET Hashes, AskDirectory(f, found)
        PROVE  SearchKnown'
    <3>. DEFINE next == NextDirectory(f.asked)
                asked == [f EXCEPT !.asked = @ \cup {next}]
                saving == [f EXCEPT !.step = "save", !.from = next, !.found = found]
    <3>1. UNCHANGED <<rows, filed, due, fetching, task, visits>>
      BY <2>2 DEF AskDirectory
    <3>2. asked.key = f.key /\ saving.key = f.key
      BY <2>0 DEF Searching
    <3>3. Becomes(f, asked) \/ Becomes(f, saving)
      BY <2>2 DEF AskDirectory
    <3>. HIDE DEF asked, saving
    <3>. QED
      BY <1>t, <1>f, <3>1, <3>2, <3>3, BecomesKeepsKeys DEF SearchKnown
  <2>3. CASE NothingFound(f)
    <3>1. due' = due \ {f.movie} /\ Land(f, {}) /\ UNCHANGED <<rows, filed, fetching>>
      BY <2>3 DEF NothingFound, MarkAttempt
    <3>2. FilesStored'
      BY <1>t, <3>1 DEF FilesStored
    <3>. QED
      BY <1>t, <3>1, <3>2, LandKeepsKeys DEF SearchKnown
  <2>4. CASE SaveSource(f)
    <3>1. UNCHANGED <<flights, task, visits>> /\ UNCHANGED <<filed, due, fetching>>
      BY <2>4 DEF SaveSource
    <3>2. \A m \in SMovies : rows[m] \subseteq rows'[m]
      BY <1>t, <2>4 DEF SaveSource
    <3>3. FilesStored'
      BY <1>t, <3>1, <3>2 DEF FilesStored
    <3>. QED
      BY <1>t, <3>1, <3>3 DEF SearchKnown, KeysInFlight, InFlight
  <2>5. CASE SaveFails(f)
    BY <1>t, <1>f, <2>5, LandKeepsKeys DEF SearchKnown, SaveFails
  <2>6. CASE MarkSearched(f)
    BY <1>t, <1>f, <2>6, LandKeepsKeys DEF SearchKnown, MarkSearched
  <2>. QED
    BY <1>2, <2>1, <2>2, <2>3, <2>4, <2>5, <2>6 DEF Flight
<1>3. ASSUME NEW v \in Visitors, NEW m \in SMovies, NEW route, ReadMovie(v, m, route)
      PROVE  SearchKnown'
  <2>. DEFINE new == [AtHome EXCEPT !.step = "look", !.route = route, !.movie = m, !.dirs = searched[m]]
  <2>1. new.step # "await"
    BY DEF AtHome
  <2>2. /\ visits' = [visits EXCEPT ![v] = new]
        /\ UNCHANGED <<rows, filed, due, flights, task, fetching>>
    BY <1>3 DEF ReadMovie
  <2>. HIDE DEF new
  <2>. QED
    BY <1>t, <1>f, <2>1, <2>2, VisitKeepsKeys DEF SearchKnown
<1>4. ASSUME NEW v \in Visitors, FindSources(v)
      PROVE  SearchKnown'
  <2>. DEFINE r == visits[v]
              new == [r EXCEPT !.step = IF rows[r.movie] # {} THEN "answered" ELSE "search",
                               !.sources = rows[r.movie]]
  <2>1. r \in Visiting
    BY <1>t
  <2>2. new.step # "await"
    BY <2>1 DEF Visiting
  <2>3. visits' = [visits EXCEPT ![v] = new] /\ UNCHANGED <<rows, filed, due, flights, task, fetching>>
    BY <1>4, <1>t DEF FindSources
  <2>. HIDE DEF new
  <2>. QED
    BY <1>t, <1>f, <2>2, <2>3, VisitKeepsKeys DEF SearchKnown
<1>5. ASSUME NEW v \in Visitors, SearchOnDemand(v)
      PROVE  SearchKnown'
  <2>. DEFINE r == visits[v]
              k == FlightKey(r.movie, r.dirs, TRUE)
              new == [r EXCEPT !.step = "await", !.key = k]
  <2>1. Join(r.movie, r.dirs, TRUE) /\ UNCHANGED <<rows, filed, due, task, fetching>>
    BY <1>5 DEF SearchOnDemand
  <2>2. (\E f \in flights' : f.key = k) /\ \A j : InFlight(j) => \E f \in flights' : f.key = j
    BY <2>1, JoinFinds
  <2>3. r \in Visiting
    BY <1>t
  <2>4. new.key = k
    BY <2>3 DEF Visiting
  <2>5. visits' = [visits EXCEPT ![v] = new]
    BY <1>5, <1>t DEF SearchOnDemand
  <2>. HIDE DEF new, k
  <2>. QED
    BY <1>t, <1>f, <2>1, <2>2, <2>4, <2>5 DEF SearchKnown, KeysInFlight, InFlight
<1>6. ASSUME NEW v \in Visitors, TimeOut(v)
      PROVE  SearchKnown'
  <2>. DEFINE r == visits[v]
              new == [r EXCEPT !.step = "answered", !.sources = {}, !.key = NoKey]
  <2>1. r \in Visiting
    BY <1>t
  <2>2. new.step # "await"
    BY <2>1 DEF Visiting
  <2>3. visits' = [visits EXCEPT ![v] = new] /\ UNCHANGED <<rows, filed, due, flights, task, fetching>>
    BY <1>6, <1>t DEF TimeOut
  <2>. HIDE DEF new
  <2>. QED
    BY <1>t, <1>f, <2>2, <2>3, VisitKeepsKeys DEF SearchKnown
<1>7. ASSUME NEW v \in Visitors, Respond(v)
      PROVE  SearchKnown'
  <2>. DEFINE r == visits[v]
              new == [r EXCEPT !.step = "look", !.route = "stream"]
  <2>1. r \in Visiting
    BY <1>t
  <2>2. new.step # "await" /\ AtHome.step # "await"
    BY <2>1 DEF Visiting, AtHome
  <2>3. /\ visits' = [visits EXCEPT ![v] = new] \/ visits' = [visits EXCEPT ![v] = AtHome]
        /\ UNCHANGED <<rows, filed, due, flights, task, fetching>>
    BY <1>7 DEF Respond
  <2>. HIDE DEF new
  <2>. QED
    BY <1>t, <1>f, <2>2, <2>3, VisitKeepsKeys DEF SearchKnown
<1>8. CASE StartBatch
  <2>1. fetching' \subseteq Fileless /\ UNCHANGED <<rows, filed, due, flights, task, visits>>
    BY <1>8 DEF StartBatch
  <2>2. \A s \in Fileless : s \in SMovies \X Hashes /\ s[2] \in rows[s[1]]
    BY DEF Fileless
  <2>3. FilesStored'
    BY <1>t, <2>1, <2>2 DEF FilesStored
  <2>. QED
    BY <1>t, <2>1, <2>3 DEF SearchKnown, KeysInFlight, InFlight
<1>9. ASSUME NEW s \in fetching, NEW found \in BOOLEAN, FetchFile(s, found)
      PROVE  SearchKnown'
  <2>1. s \in SMovies \X Hashes /\ s[2] \in rows[s[1]] /\ s[1] \in SMovies /\ s[2] \in Hashes
    BY <1>t DEF FilesStored
  <2>2. /\ UNCHANGED <<rows, due, flights, task, visits>> /\ fetching' = fetching \ {s}
        /\ filed' = filed \/ filed' = [filed EXCEPT ![s[1]] = @ \cup {s[2]}]
    BY <1>9 DEF FetchFile
  <2>3. filed' \in [SMovies -> SUBSET Hashes] /\ \A m \in SMovies : filed'[m] \subseteq rows[m]
    BY <1>t, <2>1, <2>2 DEF FilesStored
  <2>4. FilesStored'
    BY <1>t, <2>2, <2>3 DEF FilesStored
  <2>. QED
    BY <1>t, <2>2, <2>4 DEF SearchKnown, KeysInFlight, InFlight
<1>10. CASE GateMoves \/ UNCHANGED ssVars
  BY <1>t, <1>f, <1>10 DEF GateMoves, ssVars, SearchKnown, KeysInFlight, InFlight
<1>11. CASE TimePasses
  <2>1. due' = SMovies /\ UNCHANGED <<rows, filed, flights, task, visits, fetching>>
    BY <1>11 DEF TimePasses
  <2>2. FilesStored'
    BY <1>t, <2>1 DEF FilesStored
  <2>. QED
    BY <1>t, <2>1, <2>2 DEF SearchKnown, KeysInFlight, InFlight
<1>. QED
  BY <1>1, <1>2, <1>3, <1>4, <1>5, <1>6, <1>7, <1>8, <1>9, <1>10, <1>11 DEF SSNext

LEMMA SearchTypes ==
    /\ SSInit => SearchInv /\ SearchKnown
    /\ SearchInv /\ SearchKnown => SSTypeOK
<1>1. ASSUME SSInit
      PROVE  SearchInv /\ SearchKnown
  <2>1. AtHome \in Visiting /\ AtHome.step = "home"
    BY DEF AtHome, Visiting
  <2>. QED
    BY <1>1, <2>1 DEF SSInit, SearchInv, SearchTyped, OneKeyPerMovie, SearchKnown, KeysInFlight,
                      FilesStored
<1>2. Names \subseteq {Directories[i] : i \in DOMAIN Directories}
  <2>1. DOMAIN Directories = 1..2 /\ Directories[1] = "YTS" /\ Directories[2] = "TheRARBG"
    BY DEF Directories
  <2>. QED
    BY <2>1 DEF Names
<1>. QED
  BY <1>1, <1>2 DEF SearchInv, SearchTyped, SearchKnown, KeysInFlight, FilesStored, SSTypeOK

(* No segment reaches beyond what the segments cover.                      *)
LEMMA SegmentsInside ==
    ASSUME NEW s, NEW b \in Nat, Covers(s, 0, b), NEW i \in 1..Len(s)
    PROVE  s[i].start \in Nat /\ s[i].end \in Nat /\ s[i].end <= b
<1>1. s \in Seq(TitleSegment) /\ Len(s) \in Nat
  BY LenProperties DEF Covers
<1>2. \A j \in 1..Len(s) : s[j].start \in Nat /\ s[j].end \in Nat
  <2>1. \A j \in 1..Len(s) : s[j] \in TitleSegment
    BY <1>1, ElementOfSeq
  <2> QED
    BY <2>1 DEF TitleSegment
<1> DEFINE Beyond == {j \in 1..Len(s) : s[j].end > b}
           gaps == {Len(s) - j : j \in Beyond}
<1>3. Beyond = {}
  <2>1. SUFFICES ASSUME Beyond # {} PROVE FALSE
    OBVIOUS
  <2>2. gaps \in SUBSET Nat /\ gaps # {}
    BY <1>1, <2>1
  <2>3. PICK g \in gaps : \A h \in gaps : g <= h
    BY <2>2, LeastNatural, Zenon
  <2>4. PICK j \in Beyond : g = Len(s) - j
    BY <2>3
  <2>5. j \in 1..Len(s) /\ s[j].end > b
    BY <2>4
  <2>6. j # Len(s)
    BY <1>1, <2>5 DEF Covers
  <2>7. j + 1 \in 1..Len(s) /\ j + 1 # 1 /\ (j + 1) - 1 = j
    BY <1>1, <2>5, <2>6
  <2>8. s[j + 1].start < s[j + 1].end /\ s[j + 1].start = s[j].end
    BY <2>7 DEF Covers
  <2>9. s[j + 1].end > b
    BY <1>2, <2>5, <2>7, <2>8
  <2>10. Len(s) - (j + 1) \in gaps
    BY <2>7, <2>9
  <2>11. g <= Len(s) - (j + 1)
    BY <2>3, <2>10
  <2> QED
    BY <1>1, <2>4, <2>5, <2>11
<1> QED
  BY <1>2, <1>3

(* The kinds are looked for one after another, and the title is made of    *)
(* the name.                                                               *)
TitleKnown == kind \in 0..Kinds /\ title \subseteq NamePlaces

LEMMA PlacesOfTheName == TitleInv => \A s \in RemainingSegments : Places(s) \subseteq NamePlaces
<1> SUFFICES ASSUME TitleInv, NEW s \in RemainingSegments, NEW i \in s.start..(s.end - 1)
             PROVE  text[i + 1] \in NamePlaces
    BY DEF Places
<1>1. text \in Seq(NamePlaces) /\ Len(text) \in Nat /\ Covers(segments, 0, Len(text))
  BY LenProperties DEF TitleInv
<1>2. PICK j \in 1..Len(segments) : s = segments[j]
  <2>1. DOMAIN segments = 1..Len(segments)
    BY <1>1, LenProperties DEF Covers
  <2> QED
    BY <2>1 DEF RemainingSegments, ToSet
<1>3. s.start \in Nat /\ s.end \in Nat /\ s.end <= Len(text)
  BY <1>1, <1>2, SegmentsInside
<1>4. i + 1 \in 1..Len(text)
  BY <1>1, <1>3
<1> QED
  BY <1>1, <1>4, ElementOfSeq

LEMMA TitleKnownStep == TitleInv /\ TitleKnown /\ [TiNext]_titleVars => TitleKnown'
<1> SUFFICES ASSUME TitleInv, TitleKnown, [TiNext]_titleVars PROVE TitleKnown'
    OBVIOUS
<1>1. 0 \in 0..Kinds
  BY TitleExtractionAssumption
<1>2. CASE ExtractSourceMetadata
  BY <1>1, <1>2 DEF ExtractSourceMetadata, TitleKnown
<1>3. CASE ExtractKind \/ NoTitleFound
  <2>1. kind < Kinds /\ kind' = kind + 1 /\ title' = title
    BY <1>3 DEF ExtractKind, NoTitleFound
  <2> QED
    BY <2>1, TitleExtractionAssumption DEF TitleKnown
<1>4. CASE CleanTitle
  <2>1. kind' = 0
    BY <1>4 DEF CleanTitle
  <2>2. CASE title' = 1..NameLength
    BY <1>1, <2>1, <2>2 DEF TitleKnown, NamePlaces
  <2>3. ASSUME NEW chosen \in SUBSET RemainingSegments,
               title' = UNION {Places(s) : s \in chosen}
        PROVE  TitleKnown'
    <3>1. title' \subseteq NamePlaces
      BY <2>3, PlacesOfTheName
    <3> QED
      BY <1>1, <2>1, <3>1 DEF TitleKnown, NamePlaces
  <2> QED
    BY <1>4, <2>2, <2>3 DEF CleanTitle
<1>5. CASE UNCHANGED titleVars
  BY <1>5 DEF titleVars, TitleKnown
<1> QED
  BY <1>2, <1>3, <1>4, <1>5 DEF TiNext

LEMMA TitleTypes ==
    /\ TiInit => TitleInv /\ TitleKnown
    /\ TitleInv /\ TitleKnown => TiTypeOK
<1>1. <<>> \in Seq(NamePlaces) /\ Len(<<>>) = 0
  OBVIOUS
<1>2. TiInit => TitleInv
  BY <1>1, NoneCovers DEF TiInit, TitleInv
<1>3. TiInit => TitleKnown
  BY TitleExtractionAssumption DEF TiInit, TitleKnown
<1>4. TitleInv /\ TitleKnown => TiTypeOK
  BY DEF TitleInv, TitleKnown, TiTypeOK, NamePlaces
<1> QED
  BY <1>2, <1>3, <1>4

(* A sync that starts has something to look for: the day it starts to look *)
(* begins before now.                                                      *)
LEMMA SyncBegins ==
    ASSUME CatalogueTyped, StartSync
    PROVE  LET start == StartOfDay(Since(clock))
               chunks == ChunksFrom(start, clock)
           IN  /\ Since(clock) \in Int /\ Since(clock) < clock
               /\ start \in Int /\ start <= Since(clock) /\ start < clock
               /\ chunks \in Seq(Int) /\ chunks # <<>> /\ chunks[1] = start
               /\ \A i \in 1..Len(chunks) : chunks[i] < clock
               /\ \A i \in 1..(Len(chunks) - 1) : chunks[i + 1] = chunks[i] + Day
               /\ Max({horizon, start}) \in {horizon, start} /\ Max({horizon, start}) >= horizon
               /\ Max({horizon, start}) >= start
<1>. DEFINE start == StartOfDay(Since(clock))
            chunks == ChunksFrom(start, clock)
<1>1. /\ clock \in Nat /\ clock \in Int /\ lastSync \in Int /\ lastSync <= clock /\ horizon \in Int
      /\ Day \in Nat /\ Day > 0
  BY CatalogueAssumption DEF CatalogueTyped
<1>2. Since(clock) \in Int /\ Since(clock) < clock
  <2>1. clock - (IF lastSync = NeverSynced THEN clock - Day ELSE lastSync) >= 1
    BY DEF StartSync
  <2>2. WindowDays * Day \in Nat /\ WindowDays * Day > 0
    BY CatalogueAssumption
  <2>3. ASSUME NEW w \in Nat, w > 0, w = WindowDays * Day
        PROVE  Since(clock) \in Int /\ Since(clock) < clock
    BY <1>1, <2>1, <2>3 DEF Since
  <2>. QED
    BY <2>2, <2>3
<1>3. start \in Int /\ start <= Since(clock) /\ start < clock
  BY <1>1, <1>2, DayAround
<1>4. /\ chunks \in Seq(Int) /\ chunks # <<>> /\ chunks[1] = start
      /\ \A i \in 1..Len(chunks) : chunks[i] < clock
      /\ \A i \in 1..(Len(chunks) - 1) : chunks[i + 1] = chunks[i] + Day
  BY <1>1, <1>3, ChunksOfDays
<1>. HIDE DEF start, chunks
<1>5. /\ Max({horizon, start}) \in {horizon, start} /\ Max({horizon, start}) >= horizon
      /\ Max({horizon, start}) >= start
  <2>1. \E x \in {horizon, start} : \A y \in {horizon, start} : x >= y
    BY <1>1, <1>3
  <2>2. Max({horizon, start}) = CHOOSE x \in {horizon, start} : \A y \in {horizon, start} : x >= y
    BY DEF Max
  <2>. QED
    BY <2>1, <2>2
<1>. QED
  BY <1>2, <1>3, <1>4, <1>5 DEF start, chunks

(* What the types of CatalogueSync need besides CatalogueInv: every time   *)
(* lies between the first tick and now.                                    *)
FetchTimes(m) == fetchedAt[m] \in -1..clock /\ cachedAt[m] \in -1..clock /\ givenUpAt[m] \in -1..clock

TimesKnown ==
    /\ clock <= MaxTime
    /\ \A m \in Titles : FetchTimes(m)
    /\ lastSync >= -1 /\ horizon \in 0..clock
    /\ sync.now >= 0
    /\ sync.on => sync.chunks[1] + Day >= 0

\* A day that ends after the first tick began at most a day before it.
LEMMA FirstDay == \A t \in Int : t >= -Day => StartOfDay(t) >= -Day
<1>. SUFFICES ASSUME NEW t \in Int, t >= -Day
              PROVE  StartOfDay(t) >= -Day
  OBVIOUS
<1>. DEFINE k == t \div Day
<1>1. Day \in Nat /\ Day > 0
  BY CatalogueAssumption
<1>2. k \in Int /\ k * Day \in Int /\ t < k * Day + Day
  BY <1>1
<1>3. StartOfDay(t) = k * Day
  BY DEF StartOfDay
<1>. HIDE DEF k
<1>4. CASE k >= -1
  <2>1. k + 1 \in Nat
    BY <1>2, <1>4
  <2>2. 0 * Day <= (k + 1) * Day
    BY <1>1, <2>1, TimesMonotone
  <2>3. (k + 1) * Day = k * Day + Day /\ 0 * Day = 0
    BY <1>1, <1>2
  <2>. QED
    BY <1>1, <1>2, <1>3, <2>2, <2>3
<1>5. CASE k < -1
  <2>1. -k \in Nat /\ 2 <= -k
    BY <1>2, <1>5
  <2>2. 2 * Day <= (-k) * Day
    BY <1>1, <2>1, TimesMonotone
  <2>3. (-k) * Day = -(k * Day) /\ 2 * Day = Day + Day
    BY <1>1, <1>2
  <2>. QED
    BY <1>1, <1>2, <2>2, <2>3
<1>. QED
  BY <1>2, <1>4, <1>5

LEMMA FetchedNow ==
    ASSUME CatalogueTyped, NEW m \in Titles, FetchTimes(m)
    PROVE  /\ FreshDetails(m) \in -1..clock
           /\ Fetch(m) => /\ cachedAt'[m] \in -1..clock
                          /\ \A q \in Titles : q # m => cachedAt'[q] = cachedAt[q]
           /\ Written(m)[m] \in -1..clock
           /\ \A q \in Titles : q # m => Written(m)[q] = fetchedAt[q]
<1>1. FreshDetails(m) \in -1..clock
  BY DEF FreshDetails, FetchTimes, CatalogueTyped
<1>. QED
  BY <1>1 DEF Fetch, Written, CatalogueTyped

LEMMA TimesKnownStep == CatalogueInv /\ TimesKnown /\ [CNext]_catalogueVars => TimesKnown'
<1>. SUFFICES ASSUME CatalogueInv, TimesKnown, [CNext]_catalogueVars
              PROVE  TimesKnown'
  OBVIOUS
<1>t. CatalogueTyped /\ ChunksInOrder
  BY DEF CatalogueInv
<1>a. Day \in Nat /\ Day > 0 /\ MaxTime \in Nat
  BY CatalogueAssumption
<1>b. clock \in Nat /\ lastSync \in Int /\ horizon \in Int /\ sync \in Syncs
  BY <1>t DEF CatalogueTyped
<1>1. ASSUME NEW m \in Titles, FetchTitle(m)
      PROVE  TimesKnown'
  <2>1. /\ Fetch(m) /\ (fetchedAt' = Written(m) \/ fetchedAt' = fetchedAt)
        /\ UNCHANGED <<clock, givenUpAt, lastSync, sync, horizon>>
    BY <1>1 DEF FetchTitle
  <2>2. FetchTimes(m)
    BY DEF TimesKnown
  <2>3. \A q \in Titles : FetchTimes(q)'
    BY <1>t, <2>1, <2>2, FetchedNow DEF TimesKnown, FetchTimes
  <2>. QED
    BY <2>1, <2>3 DEF TimesKnown
<1>2. ASSUME NEW m \in Titles, UpdateTitle(m)
      PROVE  TimesKnown'
  <2>1. /\ sync' = [sync EXCEPT !.todo = @ \ {m}]
        /\ UNCHANGED <<clock, lastSync, horizon>>
    BY <1>2 DEF UpdateTitle
  <2>2. sync'.on = sync.on /\ sync'.now = sync.now /\ sync'.chunks = sync.chunks
    BY <1>b, <2>1 DEF Syncs
  <2>3. FetchTimes(m)
    BY DEF TimesKnown
  <2>4. \A q \in Titles : FetchTimes(q)'
    <3>1. CASE Fetch(m) /\ fetchedAt' = Written(m) /\ UNCHANGED givenUpAt
      BY <1>t, <2>1, <2>3, <3>1, FetchedNow DEF TimesKnown, FetchTimes
    <3>2. CASE /\ givenUpAt' = [givenUpAt EXCEPT ![m] = clock]
               /\ UNCHANGED fetchedAt
               /\ Fetch(m) \/ UNCHANGED cachedAt
      <4>1. clock \in -1..clock
        BY <1>b
      <4>2. \A q \in Titles : givenUpAt'[q] \in -1..clock
        BY <1>t, <3>2, <4>1 DEF TimesKnown, FetchTimes, CatalogueTyped
      <4>3. \A q \in Titles : cachedAt'[q] \in -1..clock
        BY <1>t, <2>3, <3>2, FetchedNow DEF TimesKnown, FetchTimes
      <4>. QED
        BY <2>1, <3>2, <4>2, <4>3 DEF TimesKnown, FetchTimes
    <3>. QED
      BY <1>2, <3>1, <3>2 DEF UpdateTitle
  <2>. QED
    BY <2>1, <2>2, <2>4 DEF TimesKnown
<1>3. CASE StartSync
  <2>. DEFINE start == StartOfDay(Since(clock))
              chunks == ChunksFrom(start, clock)
  <2>1. /\ sync' = [on |-> TRUE, now |-> clock, chunks |-> chunks, todo |-> {}, asked |-> FALSE]
        /\ horizon' = IF Since(clock) # lastSync THEN Max({horizon, start}) ELSE horizon
        /\ UNCHANGED <<clock, fetchedAt, cachedAt, givenUpAt, lastSync>>
    BY <1>3 DEF StartSync
  <2>2. /\ Since(clock) \in Int /\ Since(clock) < clock /\ start \in Int /\ start < clock
        /\ chunks[1] = start
        /\ Max({horizon, start}) \in {horizon, start} /\ Max({horizon, start}) >= horizon
    BY <1>t, <1>3, SyncBegins
  <2>3. Since(clock) >= -Day
    <3>1. (IF lastSync = NeverSynced THEN clock - Day ELSE lastSync) >= -Day
      BY <1>a, <1>b DEF TimesKnown, NeverSynced
    <3>2. WindowDays * Day \in Nat
      BY CatalogueAssumption
    <3>3. ASSUME NEW w \in Nat, w = WindowDays * Day
          PROVE  Since(clock) >= -Day
      BY <1>a, <1>b, <3>1, <3>3 DEF Since
    <3>. QED
      BY <3>2, <3>3
  <2>4. start >= -Day
    BY <2>2, <2>3, FirstDay
  <2>. HIDE DEF start, chunks
  <2>5. horizon' \in 0..clock
    BY <1>b, <2>1, <2>2 DEF TimesKnown
  <2>6. sync'.now = clock /\ sync'.chunks = chunks
    BY <2>1
  <2>. QED
    BY <1>a, <1>b, <2>1, <2>2, <2>4, <2>5, <2>6 DEF TimesKnown, FetchTimes
<1>4. CASE AskForChanges
  <2>1. /\ sync' = [sync EXCEPT !.asked = TRUE,
                       !.todo = {m \in ChangedIn(sync.chunks[1], ChunkEnd) : fetchedAt[m] # -1}]
        /\ UNCHANGED <<clock, fetchedAt, cachedAt, givenUpAt, lastSync, horizon>>
    BY <1>4 DEF AskForChanges
  <2>2. sync'.on = sync.on /\ sync'.now = sync.now /\ sync'.chunks = sync.chunks
    BY <1>b, <2>1 DEF Syncs
  <2>. QED
    BY <2>1, <2>2 DEF TimesKnown, FetchTimes
<1>5. CASE EndChunk
  <2>1. /\ sync.on /\ lastSync' = Reached
        /\ sync' = IF Len(sync.chunks) = 1 THEN NoSync
                   ELSE [sync EXCEPT !.chunks = Tail(@), !.asked = FALSE]
        /\ UNCHANGED <<clock, fetchedAt, cachedAt, givenUpAt, horizon>>
    BY <1>5 DEF EndChunk
  <2>2. /\ sync.chunks \in Seq(Int) /\ Len(sync.chunks) \in Nat /\ Len(sync.chunks) >= 1
        /\ sync.now \in Int /\ sync.chunks[1] \in Int /\ Reached \in Int
        /\ Len(sync.chunks) > 1 => Reached = sync.chunks[2]
    BY <1>t, <2>1, ReachedInTime
  <2>3. Reached >= 0
    BY <1>a, <2>1, <2>2 DEF Reached, TimesKnown
  <2>4. CASE Len(sync.chunks) = 1
    <3>1. sync'.now = 0 /\ sync'.on = FALSE
      BY <2>1, <2>4 DEF NoSync
    <3>. QED
      BY <2>1, <2>2, <2>3, <3>1 DEF TimesKnown, FetchTimes
  <2>5. CASE Len(sync.chunks) # 1
    <3>1. Len(sync.chunks) > 1
      <4>1. \A n \in Nat : n >= 1 /\ n # 1 => n > 1
        OBVIOUS
      <4>. QED
        BY <2>2, <2>5, <4>1, Zenon
    <3>2. Tail(sync.chunks)[1] = sync.chunks[2]
      <4>1. Len(Tail(sync.chunks)) \in Nat /\ Len(Tail(sync.chunks)) >= 1
        BY <2>2, <3>1, RestOfChunks
      <4>2. 1 \in 1..Len(Tail(sync.chunks)) /\ 1 + 1 = 2
        BY <4>1
      <4>. QED
        BY <2>2, <3>1, <4>2, RestOfChunks
    <3>3. sync'.now = sync.now /\ sync'.chunks = Tail(sync.chunks)
      BY <1>b, <2>1, <2>5 DEF Syncs
    <3>4. \A m \in Titles : FetchTimes(m)'
      BY <2>1 DEF TimesKnown, FetchTimes
    <3>5. sync'.now >= 0
      BY <3>3 DEF TimesKnown
    <3>6. sync'.chunks[1] + Day >= 0
      <4>1. sync'.chunks[1] = Reached
        BY <2>2, <3>1, <3>2, <3>3
      <4>. QED
        BY <1>a, <2>2, <2>3, <4>1
    <3>7. lastSync' = Reached /\ clock' = clock /\ horizon' = horizon
      BY <2>1
    <3>8. lastSync' >= -1
      BY <2>2, <2>3, <3>7
    <3>9. clock' <= MaxTime /\ horizon' \in 0..clock'
      BY <1>a, <3>7 DEF TimesKnown
    <3>. QED
      BY <3>4, <3>5, <3>6, <3>8, <3>9 DEF TimesKnown
  <2>. QED
    BY <2>4, <2>5
<1>6. CASE SyncLost
  <2>1. sync'.now = 0 /\ sync'.on = FALSE
    BY <1>6 DEF SyncLost, NoSync
  <2>2. UNCHANGED <<clock, fetchedAt, cachedAt, givenUpAt, lastSync, horizon>>
    BY <1>6 DEF SyncLost
  <2>. QED
    BY <2>1, <2>2 DEF TimesKnown, FetchTimes
<1>7. CASE CatalogueTime
  <2>1. /\ clock < MaxTime /\ clock' = clock + 1
        /\ UNCHANGED <<fetchedAt, cachedAt, givenUpAt, lastSync, sync, horizon>>
    BY <1>7 DEF CatalogueTime
  <2>2. \A m \in Titles : FetchTimes(m)'
    BY <1>b, <2>1 DEF TimesKnown, FetchTimes
  <2>3. clock' <= MaxTime /\ horizon' \in 0..clock'
    BY <1>a, <1>b, <2>1 DEF TimesKnown
  <2>. QED
    BY <2>1, <2>2, <2>3 DEF TimesKnown
<1>8. CASE (\E m \in Titles : ChangesAtTmdb(m)) \/ UNCHANGED catalogueVars
  <2>1. UNCHANGED <<clock, fetchedAt, cachedAt, givenUpAt, lastSync, sync, horizon>>
    BY <1>8 DEF ChangesAtTmdb, catalogueVars
  <2>. QED
    BY <2>1 DEF TimesKnown, FetchTimes
<1>. QED
  BY <1>1, <1>2, <1>3, <1>4, <1>5, <1>6, <1>7, <1>8 DEF CNext

LEMMA CatalogueTypes ==
    /\ CInit => CatalogueInv /\ TimesKnown
    /\ CatalogueInv /\ TimesKnown => CTypeOK
<1>0. /\ NoSync \in Syncs /\ ~NoSync.on /\ NoSync.now = 0 /\ MaxTime \in Nat
  BY CatalogueAssumption DEF NoSync, Syncs
<1>1. ASSUME CInit
      PROVE  CatalogueInv /\ TimesKnown
  <2>1. CatalogueInv
    BY <1>0, <1>1 DEF CInit, CatalogueInv, CatalogueTyped, ChunksInOrder, Covered, CoveredFor, NeverSynced
  <2>2. TimesKnown
    BY <1>0, <1>1 DEF CInit, TimesKnown, FetchTimes, NeverSynced
  <2>. QED
    BY <2>1, <2>2
<1>2. ASSUME CatalogueInv, TimesKnown
      PROVE  CTypeOK
  <2>1. CatalogueTyped
    BY <1>2 DEF CatalogueInv
  <2>2. \A t : t \in -1..clock => t \in -1..MaxTime
    BY <1>0, <1>2, <2>1 DEF CatalogueTyped, TimesKnown
  <2>3. ASSUME NEW m \in Titles
        PROVE  /\ changes[m] \subseteq 0..MaxTime
               /\ fetchedAt[m] \in -1..MaxTime /\ cachedAt[m] \in -1..MaxTime /\ givenUpAt[m] \in -1..MaxTime
    BY <1>0, <1>2, <2>1, <2>2 DEF CatalogueTyped, TimesKnown, FetchTimes
  <2>4. lastSync \in -1..MaxTime /\ horizon \in 0..MaxTime /\ clock \in 0..MaxTime
    BY <1>0, <1>2, <2>1 DEF CatalogueTyped, TimesKnown
  <2>5. sync.on \in BOOLEAN /\ sync.todo \subseteq Titles
    BY <2>1 DEF CatalogueTyped, Syncs
  <2>. QED
    BY <2>3, <2>4, <2>5 DEF CTypeOK
<1>. QED
  BY <1>1, <1>2

(* What the types of SeasonSync need besides SeasonInv: the bounds.        *)
EpisodesBounded(s) ==
    /\ atTmdb[s] \in 1..MaxEpisodes /\ episodes[s] <= MaxEpisodes /\ cachedSeason[s] <= MaxEpisodes

SeasonsKnown ==
    /\ \A s \in Shows : EpisodesBounded(s)
    /\ hydrating.answer <= MaxEpisodes
    /\ \A s \in Shows : dbId[s] <= Cardinality(KnownShows)

LEMMA SeasonsKnownStep == SeasonInv /\ SeasonsKnown /\ [SeNext]_seasonVars => SeasonsKnown'
<1>. SUFFICES ASSUME SeasonInv, SeasonsKnown, [SeNext]_seasonVars
              PROVE  SeasonsKnown'
  OBVIOUS
<1>t. SeasonTyped
  BY DEF SeasonInv
<1>0. /\ MaxEpisodes \in Nat \ {0} /\ NoAnswer = -1 /\ NoHydration.answer = 0
      /\ NoHydration = [show |-> 0, answer |-> 0]
  BY SeasonAssumption DEF NoAnswer, NoHydration
<1>d. UNCHANGED dbId => \A s \in Shows : dbId'[s] <= Cardinality(KnownShows')
  BY DEF SeasonsKnown, KnownShows
<1>k. KnownShows \subseteq Shows /\ IsFiniteSet(KnownShows)
  BY <1>t DEF KnownShows, SeasonTyped
<1>1. ASSUME NEW s \in Shows, NewEpisode(s)
      PROVE  SeasonsKnown'
  <2>1. /\ atTmdb[s] < MaxEpisodes /\ atTmdb' = [atTmdb EXCEPT ![s] = @ + 1]
        /\ UNCHANGED <<cachedSeason, dbId, episodes, hydrating>>
    BY <1>1 DEF NewEpisode
  <2>2. \A q \in Shows : atTmdb'[q] \in 1..MaxEpisodes
    BY <1>0, <1>t, <2>1 DEF SeasonsKnown, EpisodesBounded, SeasonTyped
  <2>. QED
    BY <1>d, <2>1, <2>2 DEF SeasonsKnown, EpisodesBounded
<1>2. ASSUME NEW s \in Shows, CreateShow(s)
      PROVE  SeasonsKnown'
  <2>1. /\ dbId[s] = 0 /\ dbId' = [dbId EXCEPT ![s] = Cardinality(KnownShows) + 1]
        /\ UNCHANGED <<atTmdb, cachedSeason, episodes, hydrating>>
    BY <1>2 DEF CreateShow, NewRow
  <2>2. Cardinality(KnownShows) \in Nat
    BY <1>k, FS_CardinalityType
  <2>3. KnownShows' = KnownShows \cup {s} /\ s \notin KnownShows
    <3>. DEFINE id == Cardinality(KnownShows) + 1
    <3>1. id # 0
      BY <2>2
    <3>. HIDE DEF id
    <3>2. \A q \in Shows : dbId'[q] = IF q = s THEN id ELSE dbId[q]
      BY <1>t, <2>1 DEF SeasonTyped, id
    <3>3. \A q \in Shows : dbId'[q] # 0 <=> dbId[q] # 0 \/ q = s
      BY <2>1, <3>1, <3>2
    <3>. QED
      BY <2>1, <3>3 DEF KnownShows
  <2>4. Cardinality(KnownShows') = Cardinality(KnownShows) + 1
    BY <1>k, <2>3, FS_AddElement
  <2>5. \A q \in Shows : dbId'[q] <= Cardinality(KnownShows')
    BY <1>t, <2>1, <2>2, <2>4 DEF SeasonsKnown, SeasonTyped
  <2>. QED
    BY <2>1, <2>5 DEF SeasonsKnown, EpisodesBounded
<1>3. CASE Hydrate
  <2>. DEFINE s == FirstIncomplete
  <2>1. s \in Shows
    BY <1>3, <1>t, FirstIsIncomplete DEF Hydrate, Incomplete, KnownShows
  <2>2. AnswerOf(s) <= MaxEpisodes
    BY <2>1 DEF AnswerOf, SeasonsKnown, EpisodesBounded
  <2>3. /\ hydrating' = [show |-> s, answer |-> AnswerOf(s)]
        /\ cachedSeason' = [cachedSeason EXCEPT ![s] = AnswerOf(s)]
        /\ UNCHANGED <<atTmdb, dbId, episodes>>
    BY <1>3 DEF Hydrate
  <2>. HIDE DEF s
  <2>4. \A q \in Shows : cachedSeason'[q] <= MaxEpisodes
    BY <1>t, <2>2, <2>3 DEF SeasonsKnown, EpisodesBounded, SeasonTyped
  <2>. QED
    BY <1>d, <2>2, <2>3, <2>4 DEF SeasonsKnown, EpisodesBounded
<1>4. CASE CreateEpisode
  <2>1. hydrating.show \in Shows /\ hydrating.answer \in Nat
    BY <1>4, <1>k, <1>t DEF CreateEpisode, SeasonTyped, Hydrations
  <2>2. /\ episodes[hydrating.show] < hydrating.answer
        /\ episodes' = [episodes EXCEPT ![hydrating.show] = @ + 1]
        /\ UNCHANGED <<atTmdb, cachedSeason, dbId, hydrating>>
    BY <1>4 DEF CreateEpisode
  <2>3. \A q \in Shows : episodes'[q] <= MaxEpisodes
    BY <1>0, <1>t, <2>1, <2>2 DEF SeasonsKnown, EpisodesBounded, SeasonTyped
  <2>. QED
    BY <1>d, <2>2, <2>3 DEF SeasonsKnown, EpisodesBounded
<1>5. CASE MarkAsSynced \/ HydrationLost
  <2>1. hydrating' = NoHydration /\ UNCHANGED <<atTmdb, cachedSeason, dbId, episodes>>
    BY <1>5 DEF MarkAsSynced, HydrationLost
  <2>. QED
    BY <1>0, <1>d, <2>1 DEF SeasonsKnown, EpisodesBounded
<1>6. ASSUME NEW s \in Shows, CacheExpires(s)
      PROVE  SeasonsKnown'
  <2>1. /\ cachedSeason' = [cachedSeason EXCEPT ![s] = NoAnswer]
        /\ UNCHANGED <<atTmdb, dbId, episodes, hydrating>>
    BY <1>6 DEF CacheExpires
  <2>2. \A q \in Shows : cachedSeason'[q] <= MaxEpisodes
    BY <1>0, <1>t, <2>1 DEF SeasonsKnown, EpisodesBounded, SeasonTyped
  <2>. QED
    BY <1>d, <2>1, <2>2 DEF SeasonsKnown, EpisodesBounded
<1>7. CASE (\E s \in Shows : OpenShow(s) \/ ReportChange(s)) \/ UNCHANGED seasonVars
  <2>1. UNCHANGED <<atTmdb, cachedSeason, dbId, episodes, hydrating>>
    BY <1>7 DEF OpenShow, ReportChange, seasonVars
  <2>. QED
    BY <1>d, <2>1 DEF SeasonsKnown, EpisodesBounded
<1>. QED
  BY <1>1, <1>2, <1>3, <1>4, <1>5, <1>6, <1>7 DEF SeNext

LEMMA SeasonTypes ==
    /\ SeInit => SeasonInv /\ SeasonsKnown
    /\ SeasonInv /\ SeasonsKnown => SeTypeOK
<1>0. /\ MaxEpisodes \in Nat \ {0} /\ NoAnswer = -1
      /\ NoHydration = [show |-> 0, answer |-> 0]
  BY SeasonAssumption DEF NoAnswer, NoHydration
<1>1. ASSUME SeInit
      PROVE  SeasonInv /\ SeasonsKnown
  <2>1. KnownShows = {}
    BY <1>1 DEF SeInit, KnownShows
  <2>2. IsFiniteSet(KnownShows) /\ Cardinality(KnownShows) = 0
    BY <2>1, FS_EmptySet
  <2>3. SeasonInv
    BY <1>0, <1>1, <2>1, <2>2
       DEF SeInit, SeasonInv, SeasonTyped, Hydrations, OldAnswersOvertaken, OldOvertaken,
           SyncedSeasonsComplete
  <2>. QED
    BY <1>0, <1>1, <2>2, <2>3 DEF SeInit, SeasonsKnown, EpisodesBounded
<1>2. ASSUME SeasonInv, SeasonsKnown
      PROVE  SeTypeOK
  <2>1. SeasonTyped /\ KnownShows \subseteq Shows
    BY <1>2 DEF SeasonInv, KnownShows
  <2>2. Cardinality(KnownShows) \in Nat
    BY <2>1, FS_CardinalityType DEF SeasonTyped
  <2>3. hydrating.show \in Shows \cup {0}
    BY <1>0, <2>1 DEF SeasonTyped, Hydrations
  <2>. QED
    BY <1>0, <1>2, <2>1, <2>2, <2>3 DEF SeasonTyped, SeasonsKnown, EpisodesBounded, SeTypeOK
<1>. QED
  BY <1>1, <1>2

(* What the types of MediaLists need besides ListInv: media are of pages   *)
(* there are.                                                              *)
ListsKnown ==
    /\ medias \subseteq ListPages /\ genres \in [cached : BOOLEAN, stored : BOOLEAN]

LEMMA LastPageExists == LastPage <= PageCount
<1>. DEFINE a == PageCount
            b == PageLimit
<1>1. a \in Nat /\ b \in Nat
  BY MediaListAssumption
<1>2. LastPage = CHOOSE x \in {a, b} : \A y \in {a, b} : x <= y
  BY DEF LastPage, Min
<1>3. \E x \in {a, b} : \A y \in {a, b} : x <= y
  <2>1. CASE a <= b
    BY <1>1, <2>1
  <2>2. CASE ~(a <= b)
    BY <1>1, <2>2
  <2>. QED
    BY <2>1, <2>2
<1>. HIDE DEF a, b
<1>4. \A y \in {a, b} : LastPage <= y
  BY <1>2, <1>3
<1>. QED
  BY <1>4 DEF a, b

LEMMA ListsKnownStep == ListInv /\ ListsKnown /\ [LNext]_mediaListVars => ListsKnown'
<1>. SUFFICES ASSUME ListInv, ListsKnown, [LNext]_mediaListVars
              PROVE  ListsKnown'
  OBVIOUS
<1>1. ASSUME NEW l \in Loaders, EnsureGenres(l)
      PROVE  ListsKnown'
  <2>1. UNCHANGED medias
    BY <1>1 DEF EnsureGenres
  <2>2. genres' \in [cached : BOOLEAN, stored : BOOLEAN]
    <3>1. \/ genres' = [cached |-> TRUE, stored |-> TRUE]
          \/ genres' = [genres EXCEPT !.cached = TRUE]
          \/ genres' = genres
      BY <1>1 DEF EnsureGenres
    <3>2. genres \in [cached : BOOLEAN, stored : BOOLEAN]
      BY DEF ListsKnown
    <3>3. [genres EXCEPT !.cached = TRUE] \in [cached : BOOLEAN, stored : BOOLEAN]
      BY <3>2
    <3>4. [cached |-> TRUE, stored |-> TRUE] \in [cached : BOOLEAN, stored : BOOLEAN]
      OBVIOUS
    <3>. QED
      BY <3>1, <3>2, <3>3, <3>4, Zenon
  <2>. QED
    BY <2>1, <2>2 DEF ListsKnown, ListPages
<1>2. ASSUME NEW l \in Loaders, LoadPage(l)
      PROVE  ListsKnown'
  <2>. DEFINE t == loaders[l]
  <2>1. t.stage \in {"loading", "syncing"} /\ t \in LoaderStates /\ Progress(t)
    BY <1>2 DEF LoadPage, ListInv
  <2>2. t.page \in 1..PageCount
    BY <2>1, SomethingToLoad, LastPageExists, MediaListAssumption DEF Progress
  <2>3. medias' = medias \cup FoundOn(t.page) /\ UNCHANGED genres
    BY <1>2 DEF LoadPage
  <2>4. FoundOn(t.page) \subseteq 1..PageCount
    BY <2>2 DEF FoundOn, Listed
  <2>. QED
    BY <2>3, <2>4 DEF ListsKnown, ListPages
<1>3. CASE ForgetGenres
  BY <1>3 DEF ForgetGenres, ListsKnown, ListPages
<1>4. CASE UNCHANGED <<medias, genres>>
  BY <1>4 DEF ListsKnown, ListPages
<1>5. ASSUME NEW l \in Loaders,
             AskForList(l) \/ CreateList(l) \/ LoadFails(l) \/ StoreList(l) \/ Translate(l)
      PROVE  ListsKnown'
  BY <1>4, <1>5 DEF AskForList, CreateList, LoadFails, StoreList, Translate
<1>. QED
  BY <1>1, <1>2, <1>3, <1>4, <1>5 DEF LNext, mediaListVars

LEMMA ListTypes ==
    /\ LInit => ListInv /\ ListsKnown
    /\ ListInv /\ ListsKnown => LTypeOK
<1>1. LInit => ListInv /\ ListsKnown
  BY ListStarts DEF LInit, ListsKnown
<1>. QED
  BY <1>1 DEF ListInv, ListsKnown, ListIsWhole, LoaderStates, LTypeOK

(* What the types of TraktLinks need besides LinksInv: rows are numbered   *)
(* from one, and no more are made than there may be.                       *)
LinksKnown ==
    /\ \A r \in links : r.id >= 1
    /\ \A a \in Linkers : tasks[a].stage = "saving" => tasks[a].found >= 1
    /\ rowsMade <= MaxRows
    /\ earned \subseteq Slugs \X TraktMembers

LEMMA LinksKnownStep == LinksInv /\ LinksKnown /\ [TNext]_traktVars => LinksKnown'
<1>. SUFFICES ASSUME LinksInv, LinksKnown, [TNext]_traktVars
              PROVE  LinksKnown'
  OBVIOUS
<1>t. /\ tasks \in [Linkers -> LinkTasks] /\ links \subseteq LinkRows /\ rowsMade \in Nat
      /\ "admin" \in Linkers /\ TraktMembers \subseteq Linkers
  BY DEF LinksInv, Linkers
<1>1. ASSUME NEW a \in Linkers, NEW stage, Step(a, stage), stage # "saving"
      PROVE  \A b \in Linkers : tasks'[b].stage = "saving" => tasks'[b].found >= 1
  <2>1. tasks[a] \in LinkTasks
    BY <1>t
  <2>2. [tasks[a] EXCEPT !.stage = stage].stage = stage
    BY <2>1 DEF LinkTasks
  <2>. QED
    BY <1>t, <1>1, <2>2 DEF Step, LinksKnown
<1>2. ASSUME NEW a \in Linkers, NEW new, tasks' = [tasks EXCEPT ![a] = new],
             new.stage = "saving" => new.found >= 1
      PROVE  \A b \in Linkers : tasks'[b].stage = "saving" => tasks'[b].found >= 1
  BY <1>t, <1>2 DEF LinksKnown
<1>3. ASSUME NEW s \in Slugs, NEW u \in TraktMembers, Approve(u, s) \/ AdminAssociates(s, u)
      PROVE  LinksKnown'
  <2>. DEFINE new(stage) == [NoTask EXCEPT !.stage = stage, !.slug = s, !.user = u]
  <2>1. new("approved").stage = "approved" /\ new("associating").stage = "associating"
    BY DEF NoTask
  <2>2. /\ \/ tasks' = [tasks EXCEPT ![u] = new("approved")]
           \/ tasks' = [tasks EXCEPT !["admin"] = new("associating")]
        /\ earned' = earned \cup {<<s, u>>} /\ UNCHANGED <<links, rowsMade>>
    BY <1>3 DEF Approve, AdminAssociates
  <2>. HIDE DEF new
  <2>3. \A b \in Linkers : tasks'[b].stage = "saving" => tasks'[b].found >= 1
    BY <1>2, <1>t, <2>1, <2>2
  <2>. QED
    BY <2>2, <2>3 DEF LinksKnown
<1>4. ASSUME NEW a \in Linkers, FindLink(a)
      PROVE  LinksKnown'
  <2>1. UNCHANGED <<links, rowsMade, earned>> /\ (Step(a, "dropping") \/ Step(a, "storing"))
    BY <1>4 DEF FindLink
  <2>. QED
    BY <1>1, <2>1 DEF LinksKnown
<1>5. ASSUME NEW a \in Linkers, Disassociate(a)
      PROVE  LinksKnown'
  <2>0. tasks[a] \in LinkTasks
    BY <1>t
  <2>1. UNCHANGED <<links, rowsMade, earned>>
    BY <1>5 DEF Disassociate
  <2>2. CASE Step(a, "storing")
    BY <1>1, <2>1, <2>2 DEF LinksKnown
  <2>3. ASSUME NEW r, tasks' = [tasks EXCEPT ![a].stage = "deletingOther", ![a].found = r.id]
        PROVE  LinksKnown'
    <3>. DEFINE new == [tasks[a] EXCEPT !.stage = "deletingOther", !.found = r.id]
    <3>1. new.stage # "saving"
      BY <2>0 DEF LinkTasks
    <3>2. tasks' = [tasks EXCEPT ![a] = new]
      BY <1>t, <2>3
    <3>. HIDE DEF new
    <3>. QED
      BY <1>2, <2>1, <3>1, <3>2 DEF LinksKnown
  <2>. QED
    BY <1>5, <2>2, <2>3 DEF Disassociate
<1>6. ASSUME NEW a \in Linkers, DeleteFound(a)
      PROVE  LinksKnown'
  <2>1. /\ links' \subseteq links /\ UNCHANGED <<rowsMade, earned>>
        /\ Step(a, "storing") \/ Step(a, "creating")
    BY <1>6 DEF DeleteFound
  <2>. QED
    BY <1>1, <2>1 DEF LinksKnown
<1>7. ASSUME NEW a \in Linkers, FindForTokens(a)
      PROVE  LinksKnown'
  <2>0. tasks[a] \in LinkTasks
    BY <1>t
  <2>1. UNCHANGED <<links, rowsMade, earned>>
    BY <1>7 DEF FindForTokens
  <2>2. CASE Step(a, "refused")
    BY <1>1, <2>1, <2>2 DEF LinksKnown
  <2>3. ASSUME NEW r \in links,
               tasks' = [tasks EXCEPT ![a].stage = "saving", ![a].found = r.id, ![a].owner = r.user]
        PROVE  LinksKnown'
    <3>. DEFINE new == [tasks[a] EXCEPT !.stage = "saving", !.found = r.id, !.owner = r.user]
    <3>1. new.found = r.id /\ r.id >= 1
      BY <2>0 DEF LinkTasks, LinksKnown
    <3>2. tasks' = [tasks EXCEPT ![a] = new]
      BY <1>t, <2>3
    <3>. HIDE DEF new
    <3>. QED
      BY <1>2, <2>1, <3>1, <3>2 DEF LinksKnown
  <2>. QED
    BY <1>7, <2>2, <2>3 DEF FindForTokens, OfSlug
<1>8. ASSUME NEW a \in Linkers, SaveTokens(a)
      PROVE  LinksKnown'
  <2>. DEFINE saved == [id |-> tasks[a].found, slug |-> tasks[a].slug, user |-> tasks[a].owner, tokens |-> TRUE]
  <2>1. tasks[a].found >= 1
    BY <1>8 DEF SaveTokens, LinksKnown
  <2>2. /\ UNCHANGED <<rowsMade, earned>> /\ (Step(a, "refused") \/ Step(a, "associating"))
        /\ links' \subseteq links \cup {saved}
    BY <1>8 DEF SaveTokens
  <2>3. saved.id >= 1
    BY <2>1
  <2>. HIDE DEF saved
  <2>. QED
    BY <1>1, <2>2, <2>3 DEF LinksKnown
<1>9. ASSUME NEW a \in Linkers, FindForUser(a)
      PROVE  LinksKnown'
  <2>1. /\ UNCHANGED <<links, rowsMade, earned>>
        /\ Step(a, "unlinking") \/ Step(a, "linked") \/ Step(a, "refused")
    BY <1>9 DEF FindForUser
  <2>. QED
    BY <1>1, <2>1 DEF LinksKnown
<1>10. ASSUME NEW a \in Linkers, FindOwn(a)
       PROVE  LinksKnown'
  <2>0. tasks[a] \in LinkTasks
    BY <1>t
  <2>1. UNCHANGED <<links, rowsMade, earned>>
    BY <1>10 DEF FindOwn
  <2>2. CASE Step(a, "creating")
    BY <1>1, <2>1, <2>2 DEF LinksKnown
  <2>3. ASSUME NEW r, tasks' = [tasks EXCEPT ![a].stage = "deletingOwn", ![a].found = r.id]
        PROVE  LinksKnown'
    <3>. DEFINE new == [tasks[a] EXCEPT !.stage = "deletingOwn", !.found = r.id]
    <3>1. new.stage # "saving"
      BY <2>0 DEF LinkTasks
    <3>2. tasks' = [tasks EXCEPT ![a] = new]
      BY <1>t, <2>3
    <3>. HIDE DEF new
    <3>. QED
      BY <1>2, <2>1, <3>1, <3>2 DEF LinksKnown
  <2>. QED
    BY <1>10, <2>2, <2>3 DEF FindOwn
<1>11. ASSUME NEW a \in Linkers, CreateLink(a)
       PROVE  LinksKnown'
  <2>. DEFINE new == [id |-> rowsMade + 1, slug |-> tasks[a].slug, user |-> tasks[a].user, tokens |-> FALSE]
  <2>1. /\ UNCHANGED earned /\ (Step(a, "refused") \/ Step(a, "linked"))
        /\ links' \subseteq links \cup {new} /\ rowsMade < MaxRows
        /\ rowsMade' = rowsMade \/ rowsMade' = rowsMade + 1
    BY <1>11 DEF CreateLink
  <2>2. new.id >= 1 /\ rowsMade' <= MaxRows
    BY <1>t, <2>1, TraktAssumption
  <2>. HIDE DEF new
  <2>. QED
    BY <1>1, <2>1, <2>2 DEF LinksKnown
<1>12. CASE UNCHANGED traktVars
  BY <1>12 DEF traktVars, LinksKnown
<1>. QED
  BY <1>3, <1>4, <1>5, <1>6, <1>7, <1>8, <1>9, <1>10, <1>11, <1>12 DEF TNext

LEMMA LinkTypes ==
    /\ TInit => LinksInv /\ LinksKnown
    /\ LinksInv /\ LinksKnown => TTypeOK
<1>1. ASSUME TInit
      PROVE  LinksInv /\ LinksKnown
  <2>1. NoTask \in LinkTasks /\ NoTask.stage = "idle"
    BY DEF NoTask, LinkTasks
  <2>. QED
    BY <1>1, <2>1, TraktAssumption
       DEF TInit, LinksInv, LinksKnown, LinksAreEarned, TaskEarned, AtWork, SameRow
<1>2. ASSUME LinksInv, LinksKnown
      PROVE  TTypeOK
  <2>1. \A r \in links : r.id \in 1..rowsMade /\ r.slug \in Slugs /\ r.user \in TraktMembers
    BY <1>2 DEF LinksInv, LinksKnown, LinkRows
  <2>2. rowsMade \in 0..MaxRows
    BY <1>2, TraktAssumption DEF LinksInv, LinksKnown
  <2>3. \A a \in Linkers : ~Free(a) => tasks[a].slug \in Slugs /\ tasks[a].user \in TraktMembers
    BY <1>2 DEF LinksInv, TaskEarned, AtWork, Free
  <2>. QED
    BY <1>2, <2>1, <2>2, <2>3 DEF TTypeOK, LinksKnown
<1>. QED
  BY <1>1, <1>2

(* What the maps of the configuration hold: a value a variable may have, or *)
(* the form a secret has in the file.                                      *)
SettingsKnown ==
    /\ env \in [Variables -> AllValues] /\ dotenv \in [Variables -> AllValues]
    /\ raw \in [Variables -> AllValues]
    /\ computed \in [Variables -> AllValues] /\ fileData \in [Variables -> AllValues]
    /\ file \in [Variables -> AllValues]
    /\ inSetup \in BOOLEAN /\ unsaved \in BOOLEAN
    /\ owed \subseteq Updates \X Variables

LEMMA ValuesAmongAll ==
    ASSUME NEW k \in Variables
    PROVE  /\ ValuesOf(k) \cup {"unset"} \subseteq AllValues /\ \A d \in Defaults : d[k] \in AllValues
           /\ \A v \in AllValues : Transformed(k, v) \in AllValues /\ Computed(k, v) \in AllValues
           /\ \A v \in Given(k) : v \in AllValues /\ OnDisk(k, v) \in AllValues
<1>1. {"a", "A", "b", "bad", "unset"} \subseteq AllValues
  BY DEF AllValues
<1>2. \A v \in {"a", "b"} : ("enc:" \o v) \in AllValues
  BY DEF AllValues
<1>3. ValuesOf(k) \cup {"unset"} \subseteq AllValues
  BY <1>1 DEF ValuesOf
<1>4. FixedDefault \in AllValues /\ \A d \in Defaults : d[k] \in AllValues
  BY <1>1 DEF FixedDefault, Defaults
<1>5. \A v \in AllValues : Transformed(k, v) \in AllValues
  BY <1>1 DEF Transformed
<1>6. \A v \in AllValues : Computed(k, v) \in AllValues
  BY <1>4, <1>5 DEF Computed
<1>7. ASSUME NEW v \in Given(k) PROVE v \in AllValues /\ OnDisk(k, v) \in AllValues
  <2>1. v \in AllValues
    BY <1>1, <1>7 DEF Given, ValuesOf, WizardValues
  <2>2. CASE k \in Secrets
    <3>1. v \in {"a", "b"} /\ OnDisk(k, v) = "enc:" \o v
      BY <1>7, <2>2 DEF Given, ValuesOf, WizardValues, OnDisk
    <3>. QED
      BY <1>2, <2>1, <3>1
  <2>3. CASE k \notin Secrets
    BY <2>1, <2>3 DEF OnDisk
  <2> QED
    BY <2>2, <2>3
<1> QED
  BY <1>3, <1>4, <1>5, <1>6, <1>7

LEMMA LoadedAmongAll ==
    ASSUME NEW e \in [Variables -> AllValues], NEW f \in [Variables -> AllValues],
           NEW d \in Defaults, NEW k \in Variables
    PROVE  Loaded(e, f, d, k) \in AllValues
  BY ValuesAmongAll DEF Loaded

LEMMA SettingsKnownStep == ConfigInv /\ SettingsKnown /\ [CfNext]_configVars => SettingsKnown'
<1> SUFFICES ASSUME ConfigInv, SettingsKnown, [CfNext]_configVars PROVE SettingsKnown'
    OBVIOUS
<1>t. updates \in [Updates -> Requests]
  BY DEF ConfigInv, ConfigTyped
<1>1. CASE Start
  <2>1. PICK saved \in {dotenv, NothingSet}, d \in Defaults :
           /\ dotenv' = DrawnSaved(Overlaid(env', saved), saved, d)
           /\ raw' = [q \in Variables |-> Loaded(Overlaid(env', saved), file, d, q)]
    BY <1>1 DEF Start
  <2>2. /\ computed' = [q \in Variables |-> Computed(q, raw'[q])]
        /\ fileData' = file /\ file' = file /\ owed' = {} /\ inSetup' = TRUE /\ unsaved' = FALSE
    BY <1>1 DEF Start
  <2>3. Plain \subseteq AllValues /\ "unset" \in AllValues
    BY DEF Plain, AllValues
  <2>4. env' \in [Variables -> AllValues] /\ saved \in [Variables -> AllValues]
    <3>1. env' \in [Variables -> Plain]
      BY <1>1, ConfigurationAssumption DEF Start, Plain
    <3>. QED
      BY <2>3, <3>1 DEF SettingsKnown, NothingSet
  <2>5. Overlaid(env', saved) \in [Variables -> AllValues] /\ file \in [Variables -> AllValues]
    BY <2>4 DEF Overlaid, SettingsKnown
  <2>6. raw' \in [Variables -> AllValues]
    <3>1. \A q \in Variables : Loaded(Overlaid(env', saved), file, d, q) \in AllValues
      BY <2>5, LoadedAmongAll
    <3>. QED
      BY <2>1, <3>1
  <2>7. dotenv' \in [Variables -> AllValues]
    BY <2>1, <2>4, ValuesAmongAll DEF DrawnSaved
  <2>8. \A q \in Variables : Computed(q, raw'[q]) \in AllValues
    BY <2>6, ValuesAmongAll
  <2>9. computed' \in [Variables -> AllValues]
    BY <2>2, <2>8
  <2> QED
    BY <2>2, <2>4, <2>5, <2>6, <2>7, <2>9 DEF SettingsKnown
<1>2. ASSUME NEW r \in Updates, NEW k \in Variables, SetValue(r, k) PROVE SettingsKnown'
  <2> DEFINE v == updates[r].todo[k]
  <2>1. updates[r].todo \in Todos /\ k \in DOMAIN updates[r].todo
    BY <1>2, <1>t DEF SetValue, Requests
  <2>2. v \in Given(k)
    BY <2>1, TodoValues
  <2>3. UNCHANGED <<env, dotenv, inSetup>>
    BY <1>2 DEF SetValue
  <2>4. \/ UNCHANGED <<raw, computed, fileData, file, unsaved, owed>>
        \/ /\ raw' = [raw EXCEPT ![k] = v]
           /\ computed' = [computed EXCEPT ![k] = Transformed(k, v)]
           /\ fileData' = [fileData EXCEPT ![k] = OnDisk(k, v)]
           /\ owed' = owed \cup {<<r, k>>}
           /\ \/ file' = fileData' /\ unsaved' = FALSE
              \/ unsaved' = TRUE /\ UNCHANGED file
    BY <1>2 DEF SetValue
  <2> HIDE DEF v
  <2>5. v \in AllValues /\ Transformed(k, v) \in AllValues /\ OnDisk(k, v) \in AllValues
    BY <2>2, ValuesAmongAll
  <2>6. CASE UNCHANGED <<raw, computed, fileData, file, unsaved, owed>>
    BY <2>3, <2>6 DEF SettingsKnown
  <2>7. CASE /\ raw' = [raw EXCEPT ![k] = v]
             /\ computed' = [computed EXCEPT ![k] = Transformed(k, v)]
             /\ fileData' = [fileData EXCEPT ![k] = OnDisk(k, v)]
             /\ owed' = owed \cup {<<r, k>>}
             /\ \/ file' = fileData' /\ unsaved' = FALSE
                \/ unsaved' = TRUE /\ UNCHANGED file
    <3>1. raw' \in [Variables -> AllValues] /\ computed' \in [Variables -> AllValues]
      BY <2>5, <2>7 DEF SettingsKnown
    <3>2. fileData' \in [Variables -> AllValues]
      BY <2>5, <2>7 DEF SettingsKnown
    <3>3. file' \in [Variables -> AllValues] /\ unsaved' \in BOOLEAN
      BY <2>7, <3>2 DEF SettingsKnown
    <3>4. owed' \subseteq Updates \X Variables
      BY <2>7 DEF SettingsKnown
    <3> QED
      BY <2>3, <3>1, <3>2, <3>3, <3>4 DEF SettingsKnown
  <2> QED
    BY <2>4, <2>6, <2>7
<1>3. ASSUME UNCHANGED <<env, dotenv, raw, computed, fileData, file, unsaved>>,
             inSetup' \in {inSetup, FALSE}, owed' \subseteq owed
      PROVE  SettingsKnown'
  BY <1>3 DEF SettingsKnown
<1>4. ASSUME NEW r \in Updates, NEW values, Begin(r, values) PROVE SettingsKnown'
  BY <1>3, <1>4 DEF Begin
<1>5. ASSUME NEW r \in Updates, UpdateConfigs(r) PROVE SettingsKnown'
  <2>1. PICK K \in SUBSET Variables \ {{}} :
           \E values \in [K -> UNION {ValuesOf(k) : k \in K}] : Begin(r, values)
    BY <1>5 DEF UpdateConfigs
  <2> QED
    BY <1>4, <2>1
<1>6. ASSUME NEW r \in Updates, ConfigureService(r) PROVE SettingsKnown'
  <2>1. PICK s \in {ServiceOf[k] : k \in Variables}, v \in WizardValues :
           Begin(r, [k \in {q \in Variables : ServiceOf[q] = s} |-> v])
    BY <1>6 DEF ConfigureService
  <2> QED
    BY <1>4, <2>1
<1>7. ASSUME NEW r \in Updates, EndSetting(r) \/ ReloadChanged(r) \/ AnswerUpdate(r)
      PROVE  SettingsKnown'
  <2>1. UNCHANGED <<env, dotenv, raw, computed, fileData, file, inSetup, unsaved>>
    BY <1>7 DEF EndSetting, ReloadChanged, AnswerUpdate
  <2>2. owed' \subseteq owed
    BY <1>7 DEF EndSetting, ReloadChanged, AnswerUpdate, Reads
  <2> QED
    BY <1>3, <2>1, <2>2
<1>8. ASSUME NEW s \in Restartable, RestartService(s) PROVE SettingsKnown'
  BY <1>3, <1>8 DEF RestartService, Reads
<1>9. CASE EndSetup \/ UNCHANGED configVars
  BY <1>3, <1>9 DEF EndSetup, configVars
<1> QED
  BY <1>1, <1>2, <1>5, <1>6, <1>7, <1>8, <1>9 DEF CfNext

LEMMA SettingTypes ==
    /\ CfInit => ConfigInv /\ SettingsKnown
    /\ ConfigInv /\ SettingsKnown => CfTypeOK
<1>1. CfInit => SettingsKnown
  <2> SUFFICES ASSUME CfInit PROVE SettingsKnown
      OBVIOUS
  <2>1. "unset" \in AllValues
    BY DEF AllValues
  <2>2. NothingSet \in [Variables -> AllValues]
    BY <2>1 DEF NothingSet
  <2>3. PICK d \in Defaults : raw = d /\ dotenv = DrawnSaved(env, NothingSet, d)
    BY DEF CfInit
  <2>4. \A k \in Variables : d[k] \in AllValues /\ Computed(k, d[k]) \in AllValues
    BY ValuesAmongAll
  <2>5. raw \in [Variables -> AllValues]
    BY <2>3, <2>4 DEF Defaults
  <2>6. computed \in [Variables -> AllValues]
    BY <2>3, <2>4 DEF CfInit
  <2>7. dotenv \in [Variables -> AllValues]
    BY <2>2, <2>3, <2>4 DEF DrawnSaved
  <2> QED
    BY <2>2, <2>5, <2>6, <2>7 DEF CfInit, SettingsKnown
<1>2. ASSUME ConfigInv, SettingsKnown PROVE CfTypeOK
  BY <1>2 DEF ConfigInv, ConfigTyped, SettingsKnown, CfTypeOK, Requests
<1> QED
  BY <1>1, <1>2, ConfigStarts

(* What is left of a sequence without one of its elements.                 *)
ClosedUp(seq, i, j) == IF j < i THEN seq[j] ELSE seq[j + 1]

LEMMA RemoveAtElements ==
    ASSUME NEW S, NEW seq \in Seq(S), NEW i \in 1 .. Len(seq)
    PROVE  /\ RemoveAt(seq, i) \in Seq(S)
           /\ Len(RemoveAt(seq, i)) = Len(seq) - 1
           /\ \A j \in 1 .. Len(seq) - 1 : RemoveAt(seq, i)[j] = ClosedUp(seq, i, j)
<1> DEFINE front == SubSeq(seq, 1, i - 1)
           back == SubSeq(seq, i + 1, Len(seq))
<1>1. Len(seq) \in Nat /\ \A j \in 1 .. Len(seq) : seq[j] \in S
  BY LenProperties, ElementOfSeq
<1>2. /\ front \in Seq(S) /\ Len(front) = i - 1
      /\ \A j \in 1 .. i - 1 : front[j] = seq[j]
  <2>1. \A j \in 1 .. i - 1 : seq[j] \in S
    BY <1>1
  <2> QED
    BY <1>1, <2>1, SubSeqProperties
<1>3. /\ back \in Seq(S) /\ Len(back) = Len(seq) - i
      /\ \A j \in 1 .. Len(seq) - i : back[j] = seq[i + j]
  <2>1. \A j \in i + 1 .. Len(seq) : seq[j] \in S
    BY <1>1
  <2> QED
    BY <1>1, <2>1, SubSeqProperties
<1>4. RemoveAt(seq, i) = front \o back
  BY DEF RemoveAt
<1> HIDE DEF front, back
<1>5. /\ front \o back \in Seq(S) /\ Len(front \o back) = Len(seq) - 1
      /\ \A j \in 1 .. Len(seq) - 1 :
            (front \o back)[j] = IF j <= i - 1 THEN front[j] ELSE back[j - (i - 1)]
  <2>1. /\ front \o back \in Seq(S) /\ Len(front \o back) = Len(front) + Len(back)
        /\ \A j \in 1 .. Len(front) + Len(back) :
              (front \o back)[j] = IF j <= Len(front) THEN front[j] ELSE back[j - Len(front)]
    <3>1. front \in Seq(S) /\ back \in Seq(S)
      BY <1>2, <1>3
    <3> QED
      BY <3>1, ConcatProperties, Zenon
  <2>2. Len(front) + Len(back) = Len(seq) - 1 /\ Len(front) = i - 1
    BY <1>1, <1>2, <1>3
  <2> QED
    BY <2>1, <2>2
<1>6. ASSUME NEW j \in 1 .. Len(seq) - 1
      PROVE  (front \o back)[j] = ClosedUp(seq, i, j)
  <2>1. CASE j < i
    BY <1>1, <1>2, <1>5, <2>1 DEF ClosedUp
  <2>2. CASE ~(j < i)
    <3>1. j - (i - 1) \in 1 .. Len(seq) - i /\ i + (j - (i - 1)) = j + 1
      BY <1>1, <2>2
    <3> QED
      BY <1>1, <1>3, <1>5, <2>2, <3>1 DEF ClosedUp
  <2> QED
    BY <2>1, <2>2
<1> QED
  BY <1>4, <1>5, <1>6

(* An order of a set names each of its elements once.                      *)
LEMMA OrderNamesAll ==
    ASSUME NEW S, IsFiniteSet(S), NEW f \in SetToSeqs(S)
    PROVE  /\ f \in Seq(S)
           /\ \A i, j \in 1..Len(f) : f[i] = f[j] => i = j
           /\ \A s \in S : \E i \in 1..Len(f) : f[i] = s
<1>1. Cardinality(S) \in Nat
  BY FS_CardinalityType
<1> DEFINE D == 1..Cardinality(S)
<1>2. f \in [D -> S] /\ \A i, j \in D : i # j => f[i] # f[j]
  BY DEF SetToSeqs
<1>3. IsFiniteSet(D) /\ Cardinality(D) = Cardinality(S)
  BY <1>1, FS_Interval
<1>4. f \in Injection(D, S)
  BY <1>2, Fun_IsInj
<1>5. f \in Surjection(D, S)
  BY <1>3, <1>4, FS_Injection
<1>6. f \in Seq(S) /\ Len(f) = Cardinality(S)
  <2>1. f = [i \in 1..Cardinality(S) |-> f[i]] /\ \A i \in 1..Cardinality(S) : f[i] \in S
    BY <1>2
  <2> QED
    BY <1>1, <2>1, IsASeq
<1> QED
  BY <1>2, <1>5, <1>6 DEF Surjection

(* The sources that are due are listed, each once, and only those are      *)
(* asked for.                                                              *)
DueListed ==
    /\ overdue \in Seq(StatSources)
    /\ \A i, j \in 1..Len(overdue) : overdue[i] = overdue[j] => i = j
    /\ \A s \in StatSources : dueIn[s] = 0 <=> \E i \in 1..Len(overdue) : overdue[i] = s
    /\ \A s \in scraping : s \in StatSources /\ dueIn[s] = 0
    /\ vpnConnected \in BOOLEAN

LEMMA DueListedStep == StatsInv /\ DueListed /\ [StatsNext]_statsVars => DueListed'
<1> SUFFICES ASSUME StatsInv, DueListed, [StatsNext]_statsVars PROVE DueListed'
    OBVIOUS
<1>0. /\ overdue \in Seq(StatSources) /\ Len(overdue) \in Nat /\ DOMAIN overdue = 1..Len(overdue)
      /\ \A i \in 1..Len(overdue) : overdue[i] \in StatSources
  BY LenProperties, ElementOfSeq DEF DueListed
<1>1. ASSUME NEW s \in StatSources, NEW change \in Changes, Scraped(s, change) PROVE DueListed'
  <2> DEFINE k == CHOOSE i \in DOMAIN overdue : overdue[i] = s
  <2>1. PICK i \in Randomised(BackoffInterval(interval[s], change)) : dueIn' = [dueIn EXCEPT ![s] = i]
    BY <1>1 DEF Scraped
  <2>2. /\ s \in scraping /\ overdue' = RemoveAt(overdue, k)
        /\ scraping' = scraping \ {s} /\ vpnConnected' = vpnConnected
    BY <1>1 DEF Scraped
  <2>3. i # 0
    <3>1. interval[s] \in {NeverChecked} \cup MinInterval..MaxInterval
      BY DEF StatsInv
    <3>2. i \in MinInterval..MaxInterval
      BY <2>1, <3>1, NextInterval
    <3> QED
      BY <3>2, StatsAssumption
  <2>4. k \in 1..Len(overdue) /\ overdue[k] = s
    <3>1. \E j \in 1..Len(overdue) : overdue[j] = s
      BY <2>2 DEF DueListed
    <3> QED
      BY <1>0, <3>1
  <2> HIDE DEF k
  <2>5. /\ overdue' \in Seq(StatSources) /\ Len(overdue') = Len(overdue) - 1
        /\ \A j \in 1 .. Len(overdue) - 1 : overdue'[j] = ClosedUp(overdue, k, j)
    BY <1>0, <2>2, <2>4, RemoveAtElements
  <2> DEFINE Old(j) == IF j < k THEN j ELSE j + 1
  <2>6. \A j \in 1..Len(overdue') : Old(j) \in 1..Len(overdue) /\ Old(j) # k /\ overdue'[j] = overdue[Old(j)]
    BY <1>0, <2>4, <2>5 DEF ClosedUp
  <2>7. \A i1, j1 \in 1..Len(overdue') : Old(i1) = Old(j1) => i1 = j1
    BY <1>0, <2>4, <2>5
  <2>8. ASSUME NEW j \in 1..Len(overdue), j # k
        PROVE  \E i1 \in 1..Len(overdue') : Old(i1) = j
    <3>1. CASE j < k
      <4>1. j \in 1..Len(overdue') /\ Old(j) = j
        BY <1>0, <2>4, <2>5, <3>1
      <4> QED
        BY <4>1
    <3>2. CASE j > k
      <4>1. j - 1 \in 1..Len(overdue') /\ Old(j - 1) = j
        BY <1>0, <2>4, <2>5, <3>2
      <4> QED
        BY <4>1
    <3> QED
      BY <1>0, <2>4, <2>8, <3>1, <3>2
  <2> HIDE DEF Old
  <2>9. dueIn'[s] = i /\ \A t \in StatSources : t # s => dueIn'[t] = dueIn[t]
    BY <2>1 DEF StatsInv
  <2>10. \A i1, j1 \in 1..Len(overdue') : overdue'[i1] = overdue'[j1] => i1 = j1
    BY <2>6, <2>7 DEF DueListed
  <2>11. \A j \in 1..Len(overdue') : overdue'[j] # s
    BY <2>4, <2>6 DEF DueListed
  <2>12. ASSUME NEW t \in StatSources
         PROVE  dueIn'[t] = 0 <=> \E j \in 1..Len(overdue') : overdue'[j] = t
    <3>1. CASE t = s
      BY <2>3, <2>9, <2>11, <3>1
    <3>2. CASE t # s
      <4>1. dueIn'[t] = 0 <=> \E j \in 1..Len(overdue) : overdue[j] = t
        BY <2>9, <3>2 DEF DueListed
      <4>2. ASSUME NEW j \in 1..Len(overdue), overdue[j] = t
            PROVE  \E i1 \in 1..Len(overdue') : overdue'[i1] = t
        <5>1. j # k
          BY <2>4, <3>2, <4>2
        <5>2. PICK i1 \in 1..Len(overdue') : Old(i1) = j
          BY <2>8, <5>1
        <5> QED
          BY <2>6, <4>2, <5>2
      <4>3. ASSUME NEW j \in 1..Len(overdue'), overdue'[j] = t
            PROVE  \E i1 \in 1..Len(overdue) : overdue[i1] = t
        BY <2>6, <4>3
      <4> QED
        BY <4>1, <4>2, <4>3
    <3> QED
      BY <3>1, <3>2
  <2>13. \A t \in scraping' : t \in StatSources /\ dueIn'[t] = 0
    BY <2>2, <2>9 DEF DueListed
  <2>14. vpnConnected' \in BOOLEAN
    BY <2>2 DEF DueListed
  <2> QED
    BY <2>5, <2>10, <2>12, <2>13, <2>14 DEF DueListed
<1>2. CASE StatsTimePasses
  <2> DEFINE left == {dueIn[s] : s \in {t \in StatSources : dueIn[t] > 0}}
             d == CHOOSE x \in left : \A y \in left : x <= y
             next == {s \in StatSources : dueIn[s] = d}
  <2>1. /\ left # {} /\ scraping' = scraping /\ vpnConnected' = vpnConnected
        /\ dueIn' = [s \in StatSources |-> IF dueIn[s] = 0 THEN 0 ELSE dueIn[s] - d]
        /\ \E order \in SetToSeqs(next) : overdue' = overdue \o order
    BY <1>2 DEF StatsTimePasses
  <2>2. \A s \in StatSources : dueIn[s] \in Nat
    BY DEF StatsInv
  <2>3. \E x \in left : \A y \in left : x <= y
    <3>1. left \in SUBSET Nat
      BY <2>2
    <3> QED
      BY <2>1, <3>1, LeastNatural, Zenon
  <2>4. d \in left /\ \A y \in left : d <= y
    BY <2>3
  <2>5. d \in Nat /\ d > 0
    BY <2>2, <2>4
  <2> HIDE DEF d
  <2>6. \A s \in StatSources : dueIn[s] > 0 => d <= dueIn[s]
    BY <2>4
  <2>7. \A s \in StatSources : dueIn'[s] = 0 <=> dueIn[s] = 0 \/ s \in next
    BY <2>1, <2>2, <2>5, <2>6
  <2>8. PICK order \in SetToSeqs(next) : overdue' = overdue \o order
    BY <2>1
  <2>9. next \subseteq StatSources /\ \A s \in next : dueIn[s] # 0
    BY <2>5
  <2>10. IsFiniteSet(next)
    BY <2>9, FS_Subset, StatsAssumption
  <2> HIDE DEF left, next
  <2>11. /\ order \in Seq(next) /\ \A i, j \in 1..Len(order) : order[i] = order[j] => i = j
         /\ \A s \in next : \E i \in 1..Len(order) : order[i] = s
    BY <2>10, OrderNamesAll
  <2>12. /\ order \in Seq(StatSources) /\ Len(order) \in Nat
         /\ \A i \in 1..Len(order) : order[i] \in next
    <3>1. Len(order) \in Nat /\ order = [i \in 1..Len(order) |-> order[i]]
          /\ \A i \in 1..Len(order) : order[i] \in next
      BY <2>11, LenProperties, ElementOfSeq
    <3>2. order \in Seq(StatSources)
      BY <2>9, <3>1, IsASeq
    <3> QED
      BY <3>1, <3>2
  <2> DEFINE n == Len(overdue)
  <2>13. /\ overdue' \in Seq(StatSources) /\ Len(overdue') = n + Len(order)
         /\ \A i \in 1 .. n + Len(order) : overdue'[i] = IF i <= n THEN overdue[i] ELSE order[i - n]
    BY <1>0, <2>8, <2>12, ConcatProperties, Zenon
  <2>14. \A i \in 1..n : i \in 1..Len(overdue') /\ overdue'[i] = overdue[i]
    BY <1>0, <2>12, <2>13
  <2>15. \A i \in 1..Len(order) : n + i \in 1..Len(overdue') /\ overdue'[n + i] = order[i]
    <3> SUFFICES ASSUME NEW i \in 1..Len(order)
                 PROVE  n + i \in 1..Len(overdue') /\ overdue'[n + i] = order[i]
        OBVIOUS
    <3>1. n + i \in 1 .. n + Len(order) /\ ~(n + i <= n) /\ (n + i) - n = i
      BY <1>0, <2>12
    <3> HIDE DEF n
    <3>2. overdue'[n + i] = order[(n + i) - n]
      BY <2>13, <3>1
    <3> QED
      BY <2>13, <3>1, <3>2
  <2>16. \A i \in 1..Len(overdue') :
            \/ i \in 1..n /\ overdue'[i] = overdue[i] /\ dueIn[overdue'[i]] = 0
            \/ i - n \in 1..Len(order) /\ overdue'[i] = order[i - n] /\ overdue'[i] \in next
    <3>1. \A i \in 1..n : dueIn[overdue[i]] = 0
      BY <1>0 DEF DueListed
    <3> QED
      BY <1>0, <2>12, <2>13, <3>1
  <2>17. ASSUME NEW i \in 1..Len(overdue'), NEW j \in 1..Len(overdue'), overdue'[i] = overdue'[j]
         PROVE  i = j
    <3>1. CASE i \in 1..n /\ overdue'[i] = overdue[i] /\ dueIn[overdue'[i]] = 0
      <4>1. j \in 1..n /\ overdue'[j] = overdue[j]
        BY <2>9, <2>16, <2>17, <3>1
      <4>2. overdue[i] = overdue[j] /\ i \in 1..Len(overdue) /\ j \in 1..Len(overdue)
        BY <2>17, <3>1, <4>1
      <4> QED
        BY <4>2 DEF DueListed
    <3>2. CASE i - n \in 1..Len(order) /\ overdue'[i] = order[i - n] /\ overdue'[i] \in next
      <4>1. j - n \in 1..Len(order) /\ overdue'[j] = order[j - n]
        BY <2>9, <2>16, <2>17, <3>2
      <4>2. i - n = j - n
        BY <2>11, <2>17, <3>2, <4>1
      <4>3. i \in Int /\ j \in Int
        BY <1>0, <2>12, <2>13
      <4> HIDE DEF n
      <4>4. n \in Int
        BY <1>0 DEF n
      <4> QED
        BY <4>2, <4>3, <4>4
    <3> QED
      BY <2>16, <3>1, <3>2
  <2>18. ASSUME NEW s \in StatSources
         PROVE  dueIn'[s] = 0 <=> \E i \in 1..Len(overdue') : overdue'[i] = s
    <3>1. ASSUME dueIn[s] = 0 PROVE \E i \in 1..Len(overdue') : overdue'[i] = s
      <4>1. PICK i \in 1..n : overdue[i] = s
        BY <3>1 DEF DueListed
      <4> QED
        BY <2>14, <4>1
    <3>2. ASSUME s \in next PROVE \E i \in 1..Len(overdue') : overdue'[i] = s
      <4>1. PICK i \in 1..Len(order) : order[i] = s
        BY <2>11, <3>2
      <4> QED
        BY <2>15, <4>1
    <3>3. ASSUME NEW i \in 1..Len(overdue'), overdue'[i] = s PROVE dueIn[s] = 0 \/ s \in next
      BY <2>16, <3>3
    <3> QED
      BY <2>7, <3>1, <3>2, <3>3
  <2>19. \A s \in scraping' : s \in StatSources /\ dueIn'[s] = 0
    BY <2>1, <2>7 DEF DueListed
  <2>20. vpnConnected' \in BOOLEAN
    BY <2>1 DEF DueListed
  <2> QED
    BY <2>13, <2>17, <2>18, <2>19, <2>20 DEF DueListed
<1>3. ASSUME UNCHANGED <<overdue, dueIn>>, vpnConnected' \in BOOLEAN,
             \A s \in scraping' : s \in StatSources /\ dueIn[s] = 0
      PROVE  DueListed'
  BY <1>3 DEF DueListed
<1>4. CASE SyncStatsForSources
  <2>1. /\ UNCHANGED <<overdue, dueIn, vpnConnected>>
        /\ scraping' = {overdue[i] : i \in {j \in DOMAIN overdue : j <= StatsBatch}}
    BY <1>4 DEF SyncStatsForSources, MostOverdue
  <2>2. \A s \in scraping' : \E i \in 1..Len(overdue) : overdue[i] = s
    BY <1>0, <2>1
  <2>3. \A s \in scraping' : s \in StatSources /\ dueIn[s] = 0
    BY <1>0, <2>2 DEF DueListed
  <2>4. vpnConnected' \in BOOLEAN
    BY <2>1 DEF DueListed
  <2> QED
    BY <1>3, <2>1, <2>3, <2>4
<1>5. ASSUME NEW s \in StatSources, ScrapeFails(s) PROVE DueListed'
  <2>1. UNCHANGED <<overdue, dueIn, vpnConnected>> /\ scraping' \subseteq scraping
    BY <1>5 DEF ScrapeFails
  <2> QED
    BY <1>3, <2>1 DEF DueListed
<1>6. CASE VpnMoves
  BY <1>3, <1>6 DEF VpnMoves, DueListed
<1>7. CASE UNCHANGED statsVars
  BY <1>3, <1>7 DEF statsVars, DueListed
<1> QED
  BY <1>1, <1>2, <1>4, <1>5, <1>6, <1>7 DEF StatsNext, Answered

LEMMA StatsTypes ==
    /\ StatsInit => StatsInv /\ DueListed
    /\ StatsInv /\ DueListed => StatsTypeOK
<1>1. StatsInit => StatsInv
  BY StatsAssumption DEF StatsInit, StatsInv, NeverChecked, Huge
<1>2. ASSUME StatsInit PROVE DueListed
  <2>1. overdue \in SetToSeqs(StatSources) /\ IsFiniteSet(StatSources)
    BY <1>2, StatsAssumption DEF StatsInit
  <2>2. /\ overdue \in Seq(StatSources)
        /\ \A i, j \in 1..Len(overdue) : overdue[i] = overdue[j] => i = j
        /\ \A s \in StatSources : \E i \in 1..Len(overdue) : overdue[i] = s
    BY <2>1, OrderNamesAll
  <2> QED
    BY <1>2, <2>2 DEF StatsInit, DueListed
<1>3. ASSUME StatsInv, DueListed PROVE StatsTypeOK
  <2>1. DOMAIN overdue = 1..Len(overdue) /\ \A i \in 1..Len(overdue) : overdue[i] \in StatSources
    BY <1>3, LenProperties, ElementOfSeq DEF DueListed
  <2>2. {overdue[i] : i \in DOMAIN overdue} = {s \in StatSources : dueIn[s] = 0}
    BY <1>3, <2>1 DEF DueListed
  <2> QED
    BY <1>3, <2>1, <2>2 DEF DueListed, StatsInv, StatsTypeOK
<1> QED
  BY <1>1, <1>2, <1>3

(* A step of the composition is a step of one component, and of the others *)
(* a stutter.                                                              *)
LEMMA EachComponentSteps ==
    ASSUME [CataloguingNext]_<<focus, ssVars, titleVars, catalogueVars, seasonVars,
                               mediaListVars, traktVars, configVars, statsVars>>
    PROVE  /\ [SSNext]_ssVars /\ [TiNext]_titleVars /\ [CNext]_catalogueVars /\ [SeNext]_seasonVars
           /\ [LNext]_mediaListVars /\ [TNext]_traktVars /\ [CfNext]_configVars /\ [StatsNext]_statsVars
  BY DEF CataloguingNext, RestSS, RestTi, RestC, RestSe, RestL, RestT, RestCf, RestSt

CataloguingInv ==
    /\ SearchInv /\ SearchKnown
    /\ TitleInv /\ TitleKnown
    /\ CatalogueInv /\ TimesKnown
    /\ SeasonInv /\ SeasonsKnown
    /\ ListInv /\ ListsKnown
    /\ LinksInv /\ LinksKnown
    /\ ConfigInv /\ SettingsKnown
    /\ StatsInv /\ DueListed

LEMMA CataloguingInvInit == CataloguingInit => CataloguingInv
  BY SearchTypes, TitleTypes, CatalogueTypes, SeasonTypes, ListTypes, LinkTypes, SettingTypes,
     StatsTypes DEF CataloguingInit, CataloguingInv

LEMMA CataloguingInvStep ==
    CataloguingInv /\ [CataloguingNext]_<<focus, ssVars, titleVars, catalogueVars, seasonVars,
                                          mediaListVars, traktVars, configVars, statsVars>>
    => CataloguingInv'
<1> SUFFICES ASSUME CataloguingInv,
                    [CataloguingNext]_<<focus, ssVars, titleVars, catalogueVars, seasonVars,
                                        mediaListVars, traktVars, configVars, statsVars>>
             PROVE  CataloguingInv'
    OBVIOUS
<1>s. /\ [SSNext]_ssVars /\ [TiNext]_titleVars /\ [CNext]_catalogueVars /\ [SeNext]_seasonVars
      /\ [LNext]_mediaListVars /\ [TNext]_traktVars /\ [CfNext]_configVars /\ [StatsNext]_statsVars
  BY EachComponentSteps
<1>1. SearchInv' /\ SearchKnown' /\ TitleInv' /\ TitleKnown'
  BY <1>s, SearchStep, SearchKnownStep, TitleInvStep, TitleKnownStep DEF CataloguingInv
<1>2. CatalogueInv' /\ TimesKnown' /\ SeasonInv' /\ SeasonsKnown'
  BY <1>s, CatalogueStep, TimesKnownStep, SeasonStep, SeasonsKnownStep DEF CataloguingInv
<1>3. ListInv' /\ ListsKnown' /\ LinksInv' /\ LinksKnown'
  BY <1>s, ListStep, ListsKnownStep, LinksStep, LinksKnownStep DEF CataloguingInv
<1>4. ConfigInv' /\ SettingsKnown' /\ StatsInv' /\ DueListed'
  BY <1>s, ConfigStep, SettingsKnownStep, StatsInvStep, DueListedStep DEF CataloguingInv
<1> QED
  BY <1>1, <1>2, <1>3, <1>4 DEF CataloguingInv

(***************************************************************************)
(* Every variable of the components keeps its type, for every value of     *)
(* their constants: the sources that are due are listed once each and only *)
(* they are asked for (source.service.ts:353-388), the title is made of    *)
(* characters of the name (segment-manager.ts:14-105), whoever waits for a *)
(* search waits for one in flight (source.service.ts:184), what the        *)
(* configuration holds is a value of a variable or the form a secret has   *)
(* in the file (configuration.service.ts:234-262).                         *)
(***************************************************************************)
THEOREM CataloguingKeepsItsTypes == CataloguingSpec => []CataloguingTypeOK
<1>1. CataloguingInv => CataloguingTypeOK
  BY SearchTypes, TitleTypes, CatalogueTypes, SeasonTypes, ListTypes, LinkTypes, SettingTypes,
     StatsTypes DEF CataloguingInv, CataloguingTypeOK
<1> QED
  BY <1>1, CataloguingInvInit, CataloguingInvStep, PTL DEF CataloguingSpec
================================================================================
