------------------------------- MODULE Downloads -------------------------------
(***************************************************************************)
(* StorageService and DownloadService: a request to stream a movie source  *)
(* starts its download, which may evict other sources first.  Storage      *)
(* records are rows of the database; torrents live in the WebTorrent       *)
(* client of the process; the data is on the disk.  The 'delete' event of  *)
(* the storage service is all that ties the three together.                *)
(* An action is one statement of the database, or one callback, with the   *)
(* code that follows it up to the next await.                              *)
(***************************************************************************)
EXTENDS Integers, Sequences, FiniteSets, SequencesExt

CONSTANTS
    Sources,            \* movie sources
    Requests,           \* stream requests that can be in flight together
    DeclaredSize,       \* source.size: what the catalogue says, 0 if it does not
    Length,             \* torrent.length: the real size, known with the metadata
    MaxStorageBytes,    \* STORAGE_THRESHOLD
    MaxCleanupAttempts, \* maxCleanupAttempts, 100 in the code
    NoRecord,           \* the source has no storage record
    NoTask              \* the request is not being served

ASSUME SizesAssumption ==
    /\ DeclaredSize \in [Sources -> Nat]
    /\ Length \in [Sources -> Nat \ {0}]
    /\ MaxStorageBytes \in Nat /\ MaxCleanupAttempts \in Nat \ {0}
    /\ NoRecord \notin Nat

Task == [source : Sources,              \* the source to stream
         victim : Sources,              \* removalCandidate
         freed : Nat,                   \* the size in its record when r read it
         attempts : Nat,                \* cleanupAttempts
         stuck : BOOLEAN,               \* "we can't continue": cleanup broke off
         alone : BOOLEAN,               \* history: no other request ran meanwhile
         needless : BOOLEAN]            \* history: it evicted below the threshold

ASSUME NoTaskAssumption == NoTask \notin Task

VARIABLES
    size,       \* size[s]: the size in the storage record of s, or NoRecord
    byStaleness,\* the records in the order of findMostStaleStorage
    accessed,   \* records whose lastAccessAt is not null
    torrent,    \* torrent[s]: the torrent of s in the client
    tracked,    \* sources whose torrent has the listeners of setupBitfieldTracking
    disk,       \* sources with data on the disk
    removing,   \* sources whose 'delete' event waits for client.get
    pc,         \* pc[r]: where request r is
    task,       \* task[r]: the locals of request r
    lost        \* history: data whose torrent a restart took from the client

records == <<size, byStaleness, accessed>>
client == <<torrent, tracked, disk, removing, lost>>
vars == <<records, client, pc, task>>

CleanupSteps == {"usage", "findStalest", "findVictim", "deleteVictim", "recalculate"}
Steps == CleanupSteps \cup {"idle", "findExisting", "create", "awaitTorrent",
                            "awaitTimeout", "patch", "streaming", "hung"}
--------------------------------------------------------------------------------
HasRecord(s) == size[s] # NoRecord
Usage == SumFunctionOnSet(size, {s \in Sources : HasRecord(s)})
OverThreshold == Usage > MaxStorageBytes

StalestRemoved(s) == Tail(byStaleness)                          \* mutant
Without(s) == RemoveAt(byStaleness, CHOOSE i \in DOMAIN byStaleness : byStaleness[i] = s)

(* ORDER BY lastAccessAt, createdAt puts the rows never accessed first.    *)
NeverAccessed == {i \in DOMAIN byStaleness : byStaleness[i] \notin accessed}
Inserted(s) == InsertAt(byStaleness, Cardinality(NeverAccessed) + 1, s)

Goto(r, step) == pc' = [pc EXCEPT ![r] = step]
Busy(r) == pc[r] \notin {"idle", "streaming", "hung"}

(* The locals of a request for s before its cleanup, and after it.         *)
Fresh(s, alone) ==
    [source |-> s, victim |-> s, freed |-> 0, attempts |-> 0, stuck |-> FALSE,
     alone |-> alone, needless |-> FALSE]

(* Nothing of a request is read again once it streams or hangs.            *)
Finish(r, step) ==
    /\ Goto(r, step)
    /\ task' = [task EXCEPT ![r] = NoTask]

Init ==
    /\ size = [s \in Sources |-> NoRecord]
    /\ byStaleness = <<>> /\ accessed = {}
    /\ torrent = [s \in Sources |-> "absent"]
    /\ tracked = {} /\ disk = {} /\ removing = {} /\ lost = {}
    /\ pc = [r \in Requests |-> "idle"]
    /\ task = [r \in Requests |-> NoTask]

(* GET /stream: streamFile, startDownload, the start of createStorage.     *)
StreamFile(r, s) ==
    /\ pc[r] = "idle"
    /\ Goto(r, "findExisting")
    /\ task' = [q \in Requests |->
                  IF q = r
                  THEN Fresh(s, \A p \in Requests : ~Busy(p))
                  ELSE IF Busy(q) THEN [task[q] EXCEPT !.alone = FALSE] ELSE task[q]]
    /\ UNCHANGED <<records, client>>

(* addTorrent: a torrent the client has is used as it is.  If it has no    *)
(* metadata yet, its piece count is undefined and the update that follows  *)
(* fails: the progress it computes is NaN.                                 *)
AddTorrent(r, s) ==
    \/ /\ torrent[s] = "absent"
       /\ torrent' = [torrent EXCEPT ![s] = "adding"]
       /\ Goto(r, "awaitTorrent")
       /\ task' = [task EXCEPT ![r] = Fresh(s, FALSE)]
    \/ /\ torrent[s] = "adding"
       /\ Finish(r, "hung")
       /\ UNCHANGED torrent
    \/ /\ torrent[s] = "ready"
       /\ Goto(r, "patch")
       /\ task' = [task EXCEPT ![r] = Fresh(s, FALSE)]
       /\ UNCHANGED torrent

FindExisting(r) ==
    /\ pc[r] = "findExisting"
    /\ LET s == task[r].source
       IN  \/ /\ HasRecord(s)
              /\ AddTorrent(r, s)
           \/ /\ ~HasRecord(s)
              /\ Goto(r, "usage")
              /\ UNCHANGED <<torrent, task>>
    /\ UNCHANGED <<records, tracked, disk, removing, lost>>
--------------------------------------------------------------------------------
(* cleanup(true), which createStorage runs before it inserts a record.     *)
FirstUsage(r) ==
    /\ pc[r] = "usage"
    /\ Goto(r, IF OverThreshold THEN "findStalest" ELSE "create")
    /\ UNCHANGED <<records, client, task>>

FindStalest(r) ==
    /\ pc[r] = "findStalest"
    /\ \/ /\ byStaleness = <<>>
          /\ Goto(r, "create")
          /\ UNCHANGED task
       \/ /\ byStaleness # <<>>
          /\ task' = [task EXCEPT ![r].victim = Head(byStaleness)]
          /\ Goto(r, "findVictim")
    /\ UNCHANGED <<records, client>>

(* The cleanup returns; its locals are gone.                               *)
Return(r, k) ==
    /\ Goto(r, "create")
    /\ task' = [task EXCEPT ![r] = [k EXCEPT !.victim = k.source, !.freed = 0]]

(* A removal that frees nothing ends the cleanup.                          *)
BreakOff(r, k) == Return(r, [k EXCEPT !.stuck = TRUE])

(* removeStorage: the lookup.                                              *)
FindVictim(r) ==
    /\ pc[r] = "findVictim"
    /\ LET v == task[r].victim
       IN  \/ ~HasRecord(v) /\ BreakOff(r, task[r])
           \/ /\ HasRecord(v)
              /\ task' = [task EXCEPT ![r].freed = size[v]]
              /\ Goto(r, "deleteVictim")
    /\ UNCHANGED <<records, client>>

NothingEmitted(v) == removing                                   \* mutant
DeleteEmitted(v) == removing \cup {v}

(* removeStorage: the delete, the 'delete' event and the return.           *)
DeleteVictim(r) ==
    /\ pc[r] = "deleteVictim"
    /\ LET k == task[r]
           v == k.victim
       IN  \/ /\ ~HasRecord(v)
              /\ BreakOff(r, k)
              /\ UNCHANGED <<records, removing>>
           \/ /\ HasRecord(v)
              /\ size' = [size EXCEPT ![v] = NoRecord]
              /\ byStaleness' = Without(v)
              /\ accessed' = accessed \ {v}
              /\ removing' = DeleteEmitted(v)
              /\ LET n == k.needless \/ ~OverThreshold
                 IN  IF k.freed > 0
                     THEN /\ Goto(r, "recalculate")
                          /\ task' = [task EXCEPT ![r].needless = n]
                     ELSE BreakOff(r, [k EXCEPT !.needless = n])
    /\ UNCHANGED <<torrent, tracked, disk, lost>>

StaleUsage(r) ==                                                \* mutant
    task[r].attempts + 1 < MaxCleanupAttempts
GoesOn(r) == OverThreshold /\ task[r].attempts + 1 < MaxCleanupAttempts

Recalculate(r) ==
    /\ pc[r] = "recalculate"
    /\ LET k == [task[r] EXCEPT !.attempts = IF @ < MaxCleanupAttempts THEN @ + 1 ELSE @]
       IN  IF GoesOn(r)
           THEN Goto(r, "findStalest") /\ task' = [task EXCEPT ![r] = k]
           ELSE Return(r, k)
    /\ UNCHANGED <<records, client>>

(* The insert.  movieSourceId is unique: a second insert fails, and with   *)
(* it startDownload.  streamFile ignores a failure: it never answers.      *)
Create(r) ==
    /\ pc[r] = "create"
    /\ LET s == task[r].source
       IN  \/ /\ HasRecord(s)
              /\ Finish(r, "hung")
              /\ UNCHANGED <<records, torrent>>
           \/ /\ ~HasRecord(s)
              /\ size' = [size EXCEPT ![s] = DeclaredSize[s]]
              /\ byStaleness' = Inserted(s)
              /\ AddTorrent(r, s)
              /\ UNCHANGED accessed
    /\ UNCHANGED <<tracked, disk, removing, lost>>
--------------------------------------------------------------------------------
(* The torrent client, external.  A request whose torrent was removed      *)
(* meanwhile waits for nothing but its timeout.                            *)
Awaiting(s) == {r \in Requests : pc[r] = "awaitTorrent" /\ task[r].source = s}
Move(R, step) == pc' = [r \in Requests |-> IF r \in R THEN step ELSE pc[r]]

TorrentReady(s) ==
    /\ torrent[s] = "adding"
    /\ torrent' = [torrent EXCEPT ![s] = "ready"]
    /\ disk' = disk \cup {s}
    /\ lost' = lost \ {s}
    /\ Move(Awaiting(s), "patch")
    /\ UNCHANGED <<records, tracked, removing, task>>

TorrentFails(s) ==
    /\ torrent[s] = "adding"
    /\ torrent' = [torrent EXCEPT ![s] = "absent"]
    /\ Move(Awaiting(s), "hung")
    /\ task' = [r \in Requests |-> IF r \in Awaiting(s) THEN NoTask ELSE task[r]]
    /\ UNCHANGED <<records, tracked, disk, removing, lost>>

(* 30 s have passed.  The torrent stays in the client.                     *)
AddTimeout(r) ==
    /\ pc[r] \in {"awaitTorrent", "awaitTimeout"}
    /\ Finish(r, "hung")
    /\ UNCHANGED <<records, client>>

(* updateDownloadProgress with the real size, then the listeners and the   *)
(* response.  A record that was evicted meanwhile is not found.  (Here and *)
(* in the listeners a lookup and the update of the row it found are one    *)
(* step: they differ from two only if the row is evicted and the source    *)
(* recorded again in between, when the second row keeps its declared size.)*)
PatchedSize(s) == IF HasRecord(s) THEN Length[s] ELSE NoRecord

Patch(r) ==
    /\ pc[r] = "patch"
    /\ LET s == task[r].source
       IN  /\ size' = [size EXCEPT ![s] = PatchedSize(s)]
           /\ tracked' = IF torrent[s] = "ready" THEN tracked \cup {s} ELSE tracked
    /\ Finish(r, "streaming")
    /\ UNCHANGED <<byStaleness, accessed, torrent, disk, removing, lost>>

(* The 'verified' listener.                                                *)
Verified(s) ==
    /\ s \in tracked
    /\ size[s] # PatchedSize(s)
    /\ size' = [size EXCEPT ![s] = PatchedSize(s)]
    /\ UNCHANGED <<byStaleness, accessed, client, pc, task>>

(* The 'done' listener: markAsAccessed.                                    *)
Done(s) ==
    /\ s \in tracked
    /\ HasRecord(s)
    /\ byStaleness' = Append(Without(s), s)
    /\ accessed' = accessed \cup {s}
    /\ UNCHANGED <<size, client, pc, task>>

(* The listener of DownloadService for 'delete': the torrent goes, and the *)
(* data with it if the torrent has opened its store.                       *)
KeptOnDisk(s) == disk                                           \* mutant
StoreDestroyed(s) == IF torrent[s] = "ready" THEN disk \ {s} ELSE disk

HandleDelete(s) ==
    /\ s \in removing
    /\ removing' = removing \ {s}
    /\ torrent' = [torrent EXCEPT ![s] = "absent"]
    /\ tracked' = tracked \ {s}
    /\ disk' = StoreDestroyed(s)
    /\ Move(Awaiting(s), "awaitTimeout")
    /\ UNCHANGED <<records, lost, task>>
--------------------------------------------------------------------------------
(* The client has all it wants, or gives up on an answer that never comes. *)
Leave(r) ==
    /\ pc[r] \in {"streaming", "hung"}
    /\ Goto(r, "idle")
    /\ UNCHANGED <<records, client, task>>

(* The process dies.  Records and data stay, torrents and events do not.   *)
Restart ==
    /\ \E s \in Sources : torrent[s] # "absent"
    /\ torrent' = [s \in Sources |-> "absent"]
    /\ tracked' = {} /\ removing' = {}
    /\ lost' = disk
    /\ pc' = [r \in Requests |-> "idle"]
    /\ task' = [r \in Requests |-> NoTask]
    /\ UNCHANGED <<records, disk>>

Cleanup(r) ==
    \/ FirstUsage(r) \/ FindStalest(r) \/ FindVictim(r)
    \/ DeleteVictim(r) \/ Recalculate(r)

Next ==
    \/ \E r \in Requests :
          \/ \E s \in Sources : StreamFile(r, s)
          \/ FindExisting(r) \/ Cleanup(r) \/ Create(r) \/ AddTimeout(r)
          \/ Patch(r) \/ Leave(r)
    \/ \E s \in Sources :
          \/ TorrentReady(s) \/ TorrentFails(s) \/ Verified(s) \/ Done(s)
          \/ HandleDelete(s)
    \/ Restart

Spec == Init /\ [][Next]_vars
--------------------------------------------------------------------------------
RecordsTyped ==
    /\ size \in [Sources -> Nat \cup {NoRecord}]
    /\ byStaleness \in Seq(Sources)
    /\ IsInjective(byStaleness)
    /\ Range(byStaleness) = {s \in Sources : HasRecord(s)}
    /\ accessed \subseteq Range(byStaleness)

ClientTyped ==
    /\ torrent \in [Sources -> {"absent", "adding", "ready"}]
    /\ tracked \subseteq Sources /\ disk \subseteq Sources
    /\ removing \subseteq Sources /\ lost \subseteq disk

RequestsTyped ==
    /\ pc \in [Requests -> Steps]
    /\ task \in [Requests -> Task \cup {NoTask}]
    /\ \A r \in Requests : Busy(r) <=> task[r] \in Task

TypeOK == RecordsTyped /\ ClientTyped /\ RequestsTyped

(* No torrent is left running for a source without a storage record, and   *)
(* so uses space that no cleanup knows of: a record that is evicted, even  *)
(* in the middle of a start of its download, takes its torrent with it.    *)
NoOrphanTorrent ==
    \A s \in Sources : torrent[s] # "absent" => HasRecord(s) \/ s \in removing

(* Data on the disk is accounted for by a record, or about to be deleted,  *)
(* as long as the process that wrote it lives.                             *)
DataAccountedFor ==
    \A s \in disk : HasRecord(s) \/ s \in removing \/ s \in lost

(* Nothing is adrift: no torrent and no data that no cleanup would find.   *)
NothingAdrift == NoOrphanTorrent /\ DataAccountedFor

(* The same without the exception: removeStorage says "Remove storage      *)
(* record and associated data".  After a restart there is no torrent to    *)
(* destroy the store through, and the data stays.                          *)
DeletedDataLeavesDisk == \A s \in disk : HasRecord(s) \/ s \in removing

(* "Checks storage pressure and performs cleanup if needed before creating *)
(* new storage": a start that runs alone inserts its record below the      *)
(* threshold, unless its cleanup broke off or ran out of attempts, and it  *)
(* evicts a record only while the usage is above the threshold.  (Cleanups *)
(* that run side by side may evict too much: the usage one has read is     *)
(* stale when another has evicted meanwhile.)                              *)
MakesRoom(r) ==
    pc[r] = "create" /\ ~task[r].stuck /\ task[r].attempts < MaxCleanupAttempts => ~OverThreshold

CleanupAloneIsExact ==
    \A r \in Requests : Busy(r) /\ task[r].alone => MakesRoom(r) /\ ~task[r].needless
--------------------------------------------------------------------------------
(* What a source shows of itself: a record, a torrent, data on the disk.   *)
Recorded == {s \in Sources : HasRecord(s)}
Running == {s \in Sources : torrent[s] # "absent"}

Storage == INSTANCE StoredSources
    WITH stored <- Recorded, running <- Running, data <- disk, leaving <- removing, stranded <- lost

(* Seen from one source, record, torrent and data come and go together,    *)
(* whichever requests, cleanups and callbacks the steps belong to.         *)
ImplementsStoredSources == Storage!StoredSpec
================================================================================
