----------------------------- MODULE StoredSources -----------------------------
(***************************************************************************)
(* What storage promises of each movie source, whatever requests, torrents *)
(* and cleanups do side by side (storage.service.ts: "Remove storage       *)
(* record and associated data"): a torrent runs only for a source that was *)
(* recorded, what it fetches is noted, and a record that is evicted takes  *)
(* its torrent and the data with it, except for data that a restart has    *)
(* left without a torrent.  The module Downloads, which follows the code   *)
(* statement by statement, implements this specification.                  *)
(***************************************************************************)
CONSTANT Sources

VARIABLES
    stored,     \* sources with a record
    running,    \* sources with a torrent
    data,       \* sources with data on the disk
    leaving,    \* sources that were evicted and whose torrent is still to go
    stranded    \* data whose torrent a restart has taken away

storedVars == <<stored, running, data, leaving, stranded>>

StoredInit == stored = {} /\ running = {} /\ data = {} /\ leaving = {} /\ stranded = {}

\* Fetched by the torrent that is running.
Fetched == data \ stranded

\* A source is recorded with its torrent, which may be there from before.
Record(s) ==
    /\ s \notin stored
    /\ stored' = stored \cup {s} /\ running' = running \cup {s}
    /\ UNCHANGED <<data, leaving, stranded>>

Run(s) ==
    /\ s \in stored \ running
    /\ running' = running \cup {s}
    /\ UNCHANGED <<stored, data, leaving, stranded>>

Fetch(s) ==
    /\ s \in running \ Fetched
    /\ data' = data \cup {s} /\ stranded' = stranded \ {s}
    /\ UNCHANGED <<stored, running, leaving>>

Fail(s) ==
    /\ s \in running \ Fetched
    /\ running' = running \ {s}
    /\ UNCHANGED <<stored, data, leaving, stranded>>

Evict(s) ==
    /\ s \in stored
    /\ stored' = stored \ {s} /\ leaving' = leaving \cup {s}
    /\ UNCHANGED <<running, data, stranded>>

\* The torrent goes, and the data it has fetched.
Remove(s) ==
    /\ s \in leaving
    /\ leaving' = leaving \ {s} /\ running' = running \ {s}
    /\ data' = data \ ({s} \cap Fetched)
    /\ UNCHANGED <<stored, stranded>>

Crash ==
    /\ running # {}
    /\ running' = {} /\ leaving' = {} /\ stranded' = data
    /\ UNCHANGED <<stored, data>>

StoredNext ==
    \/ \E s \in Sources :
          Record(s) \/ Run(s) \/ Fetch(s) \/ Fail(s) \/ Evict(s) \/ Remove(s)
    \/ Crash

StoredSpec == StoredInit /\ [][StoredNext]_storedVars
================================================================================
