----------------------------- MODULE ChunkStore -----------------------------
(***************************************************************************)
(* The chunk stores of a torrent: FSChunkStore, and EncryptedChunkStore,   *)
(* which the downloads use.  Both lay the chunks of a torrent over its     *)
(* files, so that a chunk may lie in several files and a file in several   *)
(* chunks, and read any range of a chunk back.                             *)
(***************************************************************************)
EXTENDS Integers, FiniteSets, Sequences

CONSTANTS
    ChunkLengths,
    MaxFileLength, MaxFiles,
    SharedNames  \* a torrent may hold files alike in name: of two directories, or but
                 \* for a character that a file system reserves

ASSUME ChunkStoreAssumption ==
    /\ ChunkLengths \subseteq Nat \ {0}
    /\ MaxFileLength \in Nat \ {0} /\ MaxFiles \in Nat \ {0}
    /\ SharedNames \in BOOLEAN

VARIABLES
    store,      \* the arguments of the constructor, or NoStore
    disk,       \* the bytes of each path
    puts,       \* _put calls at work: their chunk and the files left to write
    whole,      \* history: the chunks whose last put succeeded
    closed

chunkStoreVars == <<store, disk, puts, whole, closed>>

\* The path of a file in the torrent: the directory, the name without its reserved
\* characters, and whether it has any.
FileNames(n) == [dir : 1..n, base : 1..n, reserved : {0, 1}]
OwnName(f) == [dir |-> 1, base |-> f, reserved |-> 0]

NoStore == [kind |-> "none", chunkLength |-> 1, lengths |-> <<0>>, names |-> <<OwnName(1)>>]
Blank == <<-1, -1>>

-----------------------------------------------------------------------------
(* The constructor: the files one after another, and the chunk map.        *)
Files == 1..Len(store.lengths)
FileStart(f) ==
    LET start[g \in Files] == IF g = 1 THEN 0 ELSE start[g - 1] + store.lengths[g - 1]
    IN  start[f]
FileEnd(f) == FileStart(f) + store.lengths[f]
Length == FileEnd(Len(store.lengths))
Chunks == 0..((Length - 1) \div store.chunkLength)

LengthOf(p) == LET rest == Length - p * store.chunkLength
               IN  IF rest < store.chunkLength THEN rest ELSE store.chunkLength

Target(p, f) ==
    LET chunkStart == p * store.chunkLength
        chunkEnd == chunkStart + store.chunkLength
    IN  [from |-> IF FileStart(f) < chunkStart THEN 0 ELSE FileStart(f) - chunkStart,
         to |-> IF FileEnd(f) > chunkEnd THEN store.chunkLength ELSE FileEnd(f) - chunkStart,
         offset |-> IF FileStart(f) > chunkStart THEN 0 ELSE chunkStart - FileStart(f)]

\* The files with a target of the chunk, each has one.
ChunkMap(p) == {f \in Files : FileStart(f) \div store.chunkLength <= p
                              /\ p <= (FileEnd(f) - 1) \div store.chunkLength}

\* A plain file is stored in its directory, without the reserved characters of its
\* name; the encrypted store drops the directories and derives its name from the
\* name as it is.
PathOf(f) ==
    LET name == store.names[f]
    IN  IF store.kind = "encrypted" THEN <<name.base, name.reserved>> ELSE <<name.dir, name.base>>
Paths == (1..MaxFiles) \X (0..MaxFiles)

-----------------------------------------------------------------------------
(* A byte is known by its chunk and its place there; one that is encrypted *)
(* by the place of the key stream it was combined with, too.               *)
Plain(p, at) == <<p, at>>

\* encryptBuffer and decryptBuffer: AES in counter mode, started at the chunk;
\* a byte comes back where it was encrypted.
Encrypted(p, at) == IF store.kind = "encrypted" THEN <<p, at, Plain(p, at)>> ELSE Plain(p, at)
Decrypted(p, at, cell) == IF cell[1] = p /\ cell[2] = at THEN cell[3] ELSE Blank

Readable(path, from, length) == \A i \in from..(from + length - 1) : i \in DOMAIN disk[path]
BytesAt(path, from, length) == [i \in 1..length |-> disk[path][from + i - 1]]

\* Buffer.concat of what is read from each file.
Joined(parts) ==
    LET all[n \in 0..Len(parts)] == IF n = 0 THEN <<>> ELSE all[n - 1] \o parts[n]
    IN  all[Len(parts)]

ReadTo(t, rangeTo) == IF t.to > rangeTo THEN rangeTo ELSE t.to
ReadFrom(t, rangeFrom) == IF t.from < rangeFrom THEN rangeFrom ELSE t.from

FilesOf(p, files, rangeTo) ==
    Joined([f \in Files |->
        LET t == Target(p, f)
        IN  IF f \in files THEN BytesAt(PathOf(f), t.offset, ReadTo(t, rangeTo) - t.from) ELSE <<>>])
FirstFile(files) == CHOOSE f \in files : \A g \in files : f <= g
Padding(p, files) == [i \in 1..Target(p, FirstFile(files)).from |-> <<0, 0, Blank>>]

\* Mutation: the part of a chunk that is read is decrypted as if it started it.
ReadTargetsAtStart(p, files, rangeTo) == FilesOf(p, files, rangeTo) \o Padding(p, files)

\* EncryptedChunkStore: from the first file of the range on, up to its end.
ReadTargets(p, files, rangeTo) == Padding(p, files) \o FilesOf(p, files, rangeTo)

\* FSChunkStore: the range alone.
ReadRange(p, files, rangeFrom, rangeTo) ==
    Joined([f \in Files |->
        LET t == Target(p, f)
            from == ReadFrom(t, rangeFrom)
        IN  IF f \in files
            THEN BytesAt(PathOf(f), t.offset + from - t.from, ReadTo(t, rangeTo) - from) ELSE <<>>])

\* _get of [rangeFrom, rangeTo), in the files that hold a part of it; it fails in a
\* store that is closed, and so does a read past what was written.
InRange(p, rangeFrom, rangeTo) ==
    {f \in ChunkMap(p) : Target(p, f).to > rangeFrom /\ Target(p, f).from < rangeTo}

Get(p, rangeFrom, rangeTo) ==
    LET files == InRange(p, rangeFrom, rangeTo)
        enough == \A f \in files :
            LET t == Target(p, f) IN Readable(PathOf(f), t.offset, ReadTo(t, rangeTo) - t.from)
    IN  IF closed \/ files = {} \/ ~enough THEN <<>>
        ELSE IF store.kind = "plain" THEN ReadRange(p, files, rangeFrom, rangeTo)
        ELSE LET chunk == ReadTargets(p, files, rangeTo)
             IN  SubSeq([i \in 1..Len(chunk) |-> Decrypted(p, i - 1, chunk[i])], rangeFrom + 1, rangeTo)

-----------------------------------------------------------------------------
ChInit ==
    /\ store = NoStore /\ disk = [path \in Paths |-> <<>>]
    /\ puts = {} /\ whole = {} /\ closed = FALSE

NamesOf(n) == IF SharedNames THEN [1..n -> FileNames(n)] ELSE {[f \in 1..n |-> OwnName(f)]}

\* The torrent is added with its files; what lies on the disk is another's.
Create ==
    /\ store = NoStore
    /\ \E kind \in {"plain", "encrypted"}, cl \in ChunkLengths, n \in 1..MaxFiles :
       \E lengths \in [1..n -> 0..MaxFileLength], names \in NamesOf(n) :
          /\ store' = [kind |-> kind, chunkLength |-> cl, lengths |-> lengths, names |-> names]
          /\ \E f \in 1..n : lengths[f] > 0
    /\ disk' = [path \in Paths |-> [i \in {} |-> Blank]]
    /\ UNCHANGED <<puts, whole, closed>>

\* put, with a buffer of the length of the chunk: one write for each file.
Put(p) ==
    /\ store # NoStore /\ ~closed
    /\ \A u \in puts : u.chunk # p
    /\ puts' = puts \cup {[chunk |-> p, left |-> ChunkMap(p), failed |-> FALSE]}
    /\ whole' = whole \ {p}
    /\ UNCHANGED <<store, disk, closed>>

\* The write to one file is through, after the file was opened.
Write(u, f) ==
    /\ f \in u.left
    /\ LET t == Target(u.chunk, f)
           written == t.offset..(t.offset + t.to - t.from - 1)
       IN  disk' = [disk EXCEPT ![PathOf(f)] =
              [b \in DOMAIN @ \cup written |->
                  IF b \in written THEN Encrypted(u.chunk, t.from + b - t.offset) ELSE @[b]]]
    /\ puts' = (puts \ {u}) \cup {[u EXCEPT !.left = @ \ {f}]}
    /\ UNCHANGED <<store, whole, closed>>

\* A write fails, or finds the store closed before its file is open.
WriteFails(u, f) ==
    /\ f \in u.left
    /\ puts' = (puts \ {u}) \cup {[u EXCEPT !.left = @ \ {f}, !.failed = TRUE]}
    /\ UNCHANGED <<store, disk, whole, closed>>

\* The callback of put.  A put that failed is called back before its other
\* writes are through; the torrent is given up then, and the chunk not put again.
PutEnds(u) ==
    /\ u.left = {}
    /\ puts' = puts \ {u}
    /\ whole' = IF u.failed THEN whole ELSE whole \cup {u.chunk}
    /\ UNCHANGED <<store, disk, closed>>

\* close lets no call begin; the calls at work end.
CloseStore ==
    /\ store # NoStore /\ ~closed
    /\ closed' = TRUE
    /\ UNCHANGED <<store, disk, puts, whole>>

\* destroy closes the store and removes its files when the writes have ended.
DestroyStore ==
    /\ closed /\ puts = {}
    /\ disk' = [path \in Paths |-> <<>>]
    /\ store' = NoStore /\ whole' = {} /\ closed' = FALSE
    /\ UNCHANGED puts

ChNext ==
    \/ Create
    \/ \E p \in Chunks : Put(p)
    \/ \E u \in puts : (\E f \in u.left : Write(u, f) \/ WriteFails(u, f)) \/ PutEnds(u)
    \/ CloseStore \/ DestroyStore

ChSpec == ChInit /\ [][ChNext]_chunkStoreVars

-----------------------------------------------------------------------------
\* Types of the state of the stores.
ChTypeOK ==
    /\ store.kind \in {"none", "plain", "encrypted"} /\ closed \in BOOLEAN
    /\ whole \subseteq Chunks
    /\ \A u \in puts : u.chunk \in Chunks /\ u.left \subseteq ChunkMap(u.chunk)

\* What was put is what is read: as long as the store is open and no other put of the
\* chunk has begun, every range of it is given back as it was put, wherever the borders of the
\* files lie and whatever was put in the other chunks (_get against _put of both
\* stores).
ReadsWhatWasPut ==
    ~closed => \A p \in whole : \A from \in 0..(LengthOf(p) - 1) : \A to \in (from + 1)..LengthOf(p) :
        Get(p, from, to) = [i \in 1..(to - from) |-> Plain(p, from + i - 1)]

=============================================================================
