---------------------------- MODULE DownloadsProofs ----------------------------
(***************************************************************************)
(* Proofs about Downloads, for any sources, sizes, requests and threshold: *)
(* the types, that torrents and data stay accounted for, and what a        *)
(* cleanup does that nothing else disturbs.                                *)
(***************************************************************************)
EXTENDS Downloads, TLAPS, FiniteSetTheorems, SequenceTheorems

USE SizesAssumption, NoTaskAssumption
--------------------------------------------------------------------------------
(* The order of the records: one is taken out, or put in, at its place.    *)
ClosedUp(seq, i, j) == IF j < i THEN seq[j] ELSE seq[j + 1]
MadeRoom(seq, i, e, j) == IF j < i THEN seq[j] ELSE IF j = i THEN e ELSE seq[j - 1]

LEMMA RemoveAtElements ==
    ASSUME NEW S, NEW seq \in Seq(S), NEW i \in 1 .. Len(seq)
    PROVE  /\ RemoveAt(seq, i) \in Seq(S)
           /\ Len(RemoveAt(seq, i)) = Len(seq) - 1
           /\ \A j \in 1 .. Len(seq) - 1 : RemoveAt(seq, i)[j] = ClosedUp(seq, i, j)
<1> DEFINE front == SubSeq(seq, 1, i - 1)
           back == SubSeq(seq, i + 1, Len(seq))
<1>1. Len(seq) \in Nat /\ \A j \in 1 .. Len(seq) : seq[j] \in S
  BY LenProperties, ElementOfSeq
<1>2. /\ front \in Seq(S) /\ Len(front) = i - 1
      /\ \A j \in 1 .. i - 1 : front[j] = seq[j]
  <2>1. \A j \in 1 .. i - 1 : seq[j] \in S
    BY <1>1
  <2> QED
    BY <1>1, <2>1, SubSeqProperties
<1>3. /\ back \in Seq(S) /\ Len(back) = Len(seq) - i
      /\ \A j \in 1 .. Len(seq) - i : back[j] = seq[i + j]
  <2>1. \A j \in i + 1 .. Len(seq) : seq[j] \in S
    BY <1>1
  <2> QED
    BY <1>1, <2>1, SubSeqProperties
<1>4. RemoveAt(seq, i) = front \o back
  BY DEF RemoveAt
<1> HIDE DEF front, back
<1>5. /\ front \o back \in Seq(S) /\ Len(front \o back) = Len(seq) - 1
      /\ \A j \in 1 .. Len(seq) - 1 :
            (front \o back)[j] = IF j <= i - 1 THEN front[j] ELSE back[j - (i - 1)]
  <2>1. /\ front \o back \in Seq(S) /\ Len(front \o back) = Len(front) + Len(back)
        /\ \A j \in 1 .. Len(front) + Len(back) :
              (front \o back)[j] = IF j <= Len(front) THEN front[j] ELSE back[j - Len(front)]
    <3>1. front \in Seq(S) /\ back \in Seq(S)
      BY <1>2, <1>3
    <3> QED
      BY <3>1, ConcatProperties, ZenonT(40)
  <2>2. Len(front) + Len(back) = Len(seq) - 1 /\ Len(front) = i - 1
    BY <1>1, <1>2, <1>3
  <2> QED
    BY <2>1, <2>2
<1>6. ASSUME NEW j \in 1 .. Len(seq) - 1
      PROVE  (front \o back)[j] = ClosedUp(seq, i, j)
  <2>1. CASE j < i
    BY <1>1, <1>2, <1>5, <2>1 DEF ClosedUp
  <2>2. CASE ~(j < i)
    <3>1. j - (i - 1) \in 1 .. Len(seq) - i /\ i + (j - (i - 1)) = j + 1
      BY <1>1, <2>2
    <3> QED
      BY <1>1, <1>3, <1>5, <2>2, <3>1 DEF ClosedUp
  <2> QED
    BY <2>1, <2>2
<1> QED
  BY <1>4, <1>5, <1>6

LEMMA InsertAtElements ==
    ASSUME NEW S, NEW seq \in Seq(S), NEW i \in 1 .. Len(seq) + 1, NEW e \in S
    PROVE  /\ InsertAt(seq, i, e) \in Seq(S)
           /\ Len(InsertAt(seq, i, e)) = Len(seq) + 1
           /\ \A j \in 1 .. Len(seq) + 1 : InsertAt(seq, i, e)[j] = MadeRoom(seq, i, e, j)
<1> DEFINE front == SubSeq(seq, 1, i - 1)
           back == SubSeq(seq, i, Len(seq))
           start == front \o <<e>>
<1>1. Len(seq) \in Nat /\ \A j \in 1 .. Len(seq) : seq[j] \in S
  BY LenProperties, ElementOfSeq
<1>2. /\ front \in Seq(S) /\ Len(front) = i - 1
      /\ \A j \in 1 .. i - 1 : front[j] = seq[j]
  <2>1. \A j \in 1 .. i - 1 : seq[j] \in S
    BY <1>1
  <2> QED
    BY <1>1, <2>1, SubSeqProperties
<1>3. /\ back \in Seq(S) /\ Len(back) = Len(seq) - i + 1
      /\ \A j \in 1 .. Len(seq) - i + 1 : back[j] = seq[i + j - 1]
  <2>1. \A j \in i .. Len(seq) : seq[j] \in S
    BY <1>1
  <2> QED
    BY <1>1, <2>1, SubSeqProperties
<1>4. InsertAt(seq, i, e) = start \o back
  BY DEF InsertAt
<1>5. <<e>> \in Seq(S) /\ Len(<<e>>) = 1 /\ <<e>>[1] = e
  OBVIOUS
<1> HIDE DEF front, back
<1>6. /\ start \in Seq(S) /\ Len(start) = i
      /\ \A j \in 1 .. i : start[j] = IF j < i THEN seq[j] ELSE e
  BY <1>2, <1>5, ConcatProperties
<1> HIDE DEF start
<1>7. /\ start \o back \in Seq(S) /\ Len(start \o back) = Len(seq) + 1
      /\ \A j \in 1 .. Len(seq) + 1 :
            (start \o back)[j] = IF j <= i THEN start[j] ELSE back[j - i]
  <2>1. /\ start \o back \in Seq(S) /\ Len(start \o back) = Len(start) + Len(back)
        /\ \A j \in 1 .. Len(start) + Len(back) :
              (start \o back)[j] = IF j <= Len(start) THEN start[j] ELSE back[j - Len(start)]
    <3>1. start \in Seq(S) /\ back \in Seq(S)
      BY <1>3, <1>6
    <3> QED
      BY <3>1, ConcatProperties, ZenonT(40)
  <2>2. Len(start) + Len(back) = Len(seq) + 1 /\ Len(start) = i
    BY <1>1, <1>3, <1>6
  <2> QED
    BY <2>1, <2>2
<1>8. ASSUME NEW j \in 1 .. Len(seq) + 1
      PROVE  (start \o back)[j] = MadeRoom(seq, i, e, j)
  <2>1. CASE j <= i
    BY <1>1, <1>6, <1>7, <2>1 DEF MadeRoom
  <2>2. CASE ~(j <= i)
    <3>1. j - i \in 1 .. Len(seq) - i + 1 /\ i + (j - i) - 1 = j - 1
      BY <1>1, <2>2
    <3> QED
      BY <1>1, <1>3, <1>7, <2>2, <3>1 DEF MadeRoom
  <2> QED
    BY <2>1, <2>2
<1> QED
  BY <1>4, <1>7, <1>8

LEMMA RemoveAtKeeps ==
    ASSUME NEW S, NEW seq \in Seq(S), IsInjective(seq), NEW i \in DOMAIN seq
    PROVE  /\ RemoveAt(seq, i) \in Seq(S)
           /\ IsInjective(RemoveAt(seq, i))
           /\ Range(RemoveAt(seq, i)) = Range(seq) \ {seq[i]}
<1> DEFINE rest == RemoveAt(seq, i)
<1>1. Len(seq) \in Nat /\ DOMAIN seq = 1 .. Len(seq)
  BY LenProperties
<1>2. /\ rest \in Seq(S)
      /\ Len(rest) = Len(seq) - 1
      /\ \A j \in 1 .. Len(seq) - 1 : rest[j] = ClosedUp(seq, i, j)
  <2>1. i \in 1 .. Len(seq)
    BY <1>1
  <2> QED
    BY <2>1, RemoveAtElements, Zenon
<1>3. DOMAIN rest = 1 .. Len(seq) - 1
  BY <1>2, LenProperties
<1> HIDE DEF rest
<1>4. ASSUME NEW j \in DOMAIN rest
      PROVE  \E k \in DOMAIN seq : k # i /\ rest[j] = seq[k] /\ k = IF j < i THEN j ELSE j + 1
  BY <1>1, <1>2, <1>3 DEF ClosedUp
<1>5. ASSUME NEW k \in DOMAIN seq, k # i
      PROVE  \E j \in DOMAIN rest : rest[j] = seq[k]
  <2>1. CASE k < i
    <3>1. k \in DOMAIN rest /\ rest[k] = seq[k]
      BY <1>1, <1>2, <1>3, <2>1 DEF ClosedUp
    <3> QED
      BY <3>1
  <2>2. CASE ~(k < i)
    <3>1. k - 1 \in DOMAIN rest /\ rest[k - 1] = seq[k]
      BY <1>1, <1>2, <1>3, <1>5, <2>2 DEF ClosedUp
    <3> QED
      BY <3>1
  <2> QED
    BY <2>1, <2>2
<1>6. IsInjective(rest)
  BY <1>1, <1>3, <1>4 DEF IsInjective
<1>7. Range(rest) = Range(seq) \ {seq[i]}
  <2>1. ASSUME NEW j \in DOMAIN rest
        PROVE  \E k \in DOMAIN seq : rest[j] = seq[k] /\ seq[k] # seq[i]
    BY <1>4 DEF IsInjective
  <2>2. ASSUME NEW k \in DOMAIN seq, seq[k] # seq[i]
        PROVE  \E j \in DOMAIN rest : rest[j] = seq[k]
    BY <1>5, <2>2
  <2> QED
    BY <2>1, <2>2 DEF Range
<1> QED
  BY <1>2, <1>6, <1>7 DEF rest

LEMMA InsertAtKeeps ==
    ASSUME NEW S, NEW seq \in Seq(S), IsInjective(seq),
           NEW i \in 1 .. Len(seq) + 1, NEW e \in S, e \notin Range(seq)
    PROVE  /\ InsertAt(seq, i, e) \in Seq(S)
           /\ IsInjective(InsertAt(seq, i, e))
           /\ Range(InsertAt(seq, i, e)) = Range(seq) \cup {e}
<1> DEFINE longer == InsertAt(seq, i, e)
<1>1. Len(seq) \in Nat /\ DOMAIN seq = 1 .. Len(seq)
  BY LenProperties
<1>2. /\ longer \in Seq(S)
      /\ Len(longer) = Len(seq) + 1
      /\ \A j \in 1 .. Len(seq) + 1 : longer[j] = MadeRoom(seq, i, e, j)
  BY <1>1, InsertAtElements
<1>3. DOMAIN longer = 1 .. Len(seq) + 1
  BY <1>2, LenProperties
<1> HIDE DEF longer
<1>4. ASSUME NEW j \in DOMAIN longer, j # i
      PROVE  \E k \in DOMAIN seq : longer[j] = seq[k] /\ k = IF j < i THEN j ELSE j - 1
  BY <1>1, <1>2, <1>3, <1>4 DEF MadeRoom
<1>5. i \in DOMAIN longer /\ longer[i] = e
  BY <1>1, <1>2, <1>3 DEF MadeRoom
<1>6. ASSUME NEW k \in DOMAIN seq
      PROVE  \E j \in DOMAIN longer : longer[j] = seq[k]
  <2>1. CASE k < i
    <3>1. k \in DOMAIN longer /\ longer[k] = seq[k]
      BY <1>1, <1>2, <1>3, <2>1 DEF MadeRoom
    <3> QED
      BY <3>1
  <2>2. CASE ~(k < i)
    <3>1. k + 1 \in DOMAIN longer /\ longer[k + 1] = seq[k]
      BY <1>1, <1>2, <1>3, <2>2 DEF MadeRoom
    <3> QED
      BY <3>1
  <2> QED
    BY <2>1, <2>2
<1>7. \A k \in DOMAIN seq : seq[k] # e
  BY DEF Range
<1>8. IsInjective(longer)
  <2> SUFFICES ASSUME NEW j \in DOMAIN longer, NEW k \in DOMAIN longer, longer[j] = longer[k]
               PROVE  j = k
      BY DEF IsInjective
  <2>1. CASE j = i \/ k = i
    BY <1>4, <1>5, <1>7, <2>1
  <2>2. CASE j # i /\ k # i
    BY <1>1, <1>3, <1>4, <2>2 DEF IsInjective
  <2> QED
    BY <2>1, <2>2
<1>9. Range(longer) = Range(seq) \cup {e}
  BY <1>4, <1>5, <1>6 DEF Range
<1> QED
  BY <1>2, <1>8, <1>9 DEF longer

LEMMA AppendKeeps ==
    ASSUME NEW S, NEW seq \in Seq(S), IsInjective(seq), NEW e \in S, e \notin Range(seq)
    PROVE  /\ Append(seq, e) \in Seq(S)
           /\ IsInjective(Append(seq, e))
           /\ Range(Append(seq, e)) = Range(seq) \cup {e}
<1>1. /\ Len(seq) \in Nat /\ DOMAIN seq = 1 .. Len(seq)
      /\ Append(seq, e) \in Seq(S)
      /\ DOMAIN Append(seq, e) = 1 .. Len(seq) + 1
      /\ \A j \in 1 .. Len(seq) : Append(seq, e)[j] = seq[j]
      /\ Append(seq, e)[Len(seq) + 1] = e
  BY AppendProperties, LenProperties
<1>2. \A k \in DOMAIN seq : seq[k] # e
  BY DEF Range
<1>3. IsInjective(Append(seq, e))
  BY <1>1, <1>2 DEF IsInjective
<1>4. Range(Append(seq, e)) = Range(seq) \cup {e}
  <2>1. ASSUME NEW j \in DOMAIN Append(seq, e)
        PROVE  Append(seq, e)[j] = e \/ \E k \in DOMAIN seq : Append(seq, e)[j] = seq[k]
    BY <1>1
  <2>2. \E j \in DOMAIN Append(seq, e) : Append(seq, e)[j] = e
    BY <1>1
  <2>3. ASSUME NEW k \in DOMAIN seq
        PROVE  \E j \in DOMAIN Append(seq, e) : Append(seq, e)[j] = seq[k]
    BY <1>1
  <2> QED
    BY <2>1, <2>2, <2>3 DEF Range
<1> QED
  BY <1>1, <1>3, <1>4
--------------------------------------------------------------------------------
(* Each way a statement changes the table leaves it consistent.            *)
LEMMA RemovedTyped ==
    ASSUME RecordsTyped, NEW s \in Sources, HasRecord(s)
    PROVE  /\ Without(s) \in Seq(Sources)
           /\ IsInjective(Without(s))
           /\ Range(Without(s)) = Range(byStaleness) \ {s}
<1>1. \E i \in DOMAIN byStaleness : byStaleness[i] = s
  BY DEF RecordsTyped, Range
<1> DEFINE i == CHOOSE i \in DOMAIN byStaleness : byStaleness[i] = s
<1>2. i \in DOMAIN byStaleness /\ byStaleness[i] = s
  BY <1>1, Zenon
<1>3. Without(s) = RemoveAt(byStaleness, i)
  BY DEF Without
<1> HIDE DEF i
<1> QED
  BY <1>2, <1>3, RemoveAtKeeps DEF RecordsTyped

LEMMA DeletedTyped ==
    ASSUME RecordsTyped, NEW v \in Sources, HasRecord(v),
           size' = [size EXCEPT ![v] = NoRecord], byStaleness' = Without(v),
           accessed' = accessed \ {v}
    PROVE  RecordsTyped'
  BY RemovedTyped DEF RecordsTyped, HasRecord

LEMMA CreatedTyped ==
    ASSUME RecordsTyped, NEW s \in Sources, ~HasRecord(s),
           size' = [size EXCEPT ![s] = DeclaredSize[s]], byStaleness' = Inserted(s),
           UNCHANGED accessed
    PROVE  RecordsTyped'
<1>1. Len(byStaleness) \in Nat /\ DOMAIN byStaleness = 1 .. Len(byStaleness)
  BY LenProperties DEF RecordsTyped
<1>2. IsFiniteSet(1 .. Len(byStaleness)) /\ Cardinality(1 .. Len(byStaleness)) <= Len(byStaleness)
  <2>1. ASSUME NEW n \in Nat PROVE IsFiniteSet(1 .. n) /\ Cardinality(1 .. n) <= n
    <3>1. 1 \in Int /\ n \in Int
      OBVIOUS
    <3>2. IsFiniteSet(1 .. n) /\ Cardinality(1 .. n) = IF 1 > n THEN 0 ELSE n - 1 + 1
      BY <3>1, FS_Interval, Zenon
    <3> QED
      BY <3>2
  <2> QED
    BY <1>1, <2>1
<1>3. NeverAccessed \in SUBSET (1 .. Len(byStaleness))
  BY <1>1 DEF NeverAccessed
<1>4. /\ Cardinality(NeverAccessed) \in Nat
      /\ Cardinality(NeverAccessed) <= Cardinality(1 .. Len(byStaleness))
      /\ Cardinality(1 .. Len(byStaleness)) \in Nat
  BY <1>2, <1>3, FS_Subset, FS_CardinalityType
<1>5. Cardinality(NeverAccessed) + 1 \in 1 .. Len(byStaleness) + 1
  BY <1>1, <1>2, <1>4
<1>6. s \notin Range(byStaleness)
  BY DEF RecordsTyped
<1>7. /\ byStaleness' \in Seq(Sources)
      /\ IsInjective(byStaleness')
      /\ Range(byStaleness') = Range(byStaleness) \cup {s}
  BY <1>5, <1>6, InsertAtKeeps DEF RecordsTyped, Inserted
<1> QED
  BY <1>7 DEF RecordsTyped, HasRecord

LEMMA PatchedTyped ==
    ASSUME RecordsTyped, NEW s \in Sources, size' = [size EXCEPT ![s] = PatchedSize(s)],
           UNCHANGED <<byStaleness, accessed>>
    PROVE  RecordsTyped'
  BY DEF RecordsTyped, HasRecord, PatchedSize

LEMMA DoneTyped ==
    ASSUME RecordsTyped, NEW s \in Sources, Done(s)
    PROVE  RecordsTyped'
<1>1. HasRecord(s)
  BY DEF Done
<1>2. /\ byStaleness' \in Seq(Sources)
      /\ IsInjective(byStaleness')
      /\ Range(byStaleness') = (Range(byStaleness) \ {s}) \cup {s}
  BY <1>1, RemovedTyped, AppendKeeps DEF Done
<1> QED
  BY <1>1, <1>2 DEF Done, RecordsTyped, HasRecord
--------------------------------------------------------------------------------
(* A request is served as long as it has its locals.                       *)
LEMMA FinishTyped ==
    ASSUME RequestsTyped, NEW r \in Requests, NEW step \in {"streaming", "hung"},
           Finish(r, step)
    PROVE  RequestsTyped'
  BY DEF RequestsTyped, Finish, Goto, Steps, CleanupSteps, Busy

LEMMA GotoTyped ==
    ASSUME RequestsTyped, NEW r \in Requests,
           NEW step \in Steps \ {"idle", "streaming", "hung"}, Goto(r, step),
           NEW k \in Task, task' = [task EXCEPT ![r] = k]
    PROVE  RequestsTyped'
  BY DEF RequestsTyped, Goto, Steps, CleanupSteps, Busy

LEMMA GoOnTyped ==
    ASSUME RequestsTyped, NEW r \in Requests, Busy(r),
           NEW step \in Steps \ {"idle", "streaming", "hung"}, Goto(r, step),
           UNCHANGED task
    PROVE  RequestsTyped'
  BY DEF RequestsTyped, Goto, Steps, CleanupSteps, Busy

LEMMA MoveTyped ==
    ASSUME RequestsTyped, NEW s \in Sources, NEW step \in {"patch", "awaitTimeout"},
           Move(Awaiting(s), step), UNCHANGED task
    PROVE  RequestsTyped'
  BY DEF RequestsTyped, Move, Awaiting, Steps, CleanupSteps, Busy

LEMMA FreshTyped ==
    ASSUME NEW s \in Sources, NEW alone \in BOOLEAN
    PROVE  Fresh(s, alone) \in Task
  BY DEF Fresh, Task

LEMMA BusyTyped ==
    ASSUME RequestsTyped, NEW r \in Requests,
           pc[r] \notin {"idle", "streaming", "hung"}
    PROVE  Busy(r) /\ task[r] \in Task
  BY DEF RequestsTyped, Busy

LEMMA ReturnTyped ==
    ASSUME RequestsTyped, NEW r \in Requests, NEW k \in Task, Return(r, k)
    PROVE  RequestsTyped'
<1>1. [k EXCEPT !.victim = k.source, !.freed = 0] \in Task
  BY DEF Task
<1> QED
  BY <1>1, GotoTyped DEF Return, Steps

LEMMA BreakOffTyped ==
    ASSUME RequestsTyped, NEW r \in Requests, NEW k \in Task, BreakOff(r, k)
    PROVE  RequestsTyped'
<1>1. [k EXCEPT !.stuck = TRUE] \in Task
  BY DEF Task
<1> QED
  BY <1>1, ReturnTyped DEF BreakOff

LEMMA AddTorrentTyped ==
    ASSUME RequestsTyped, ClientTyped, NEW r \in Requests, NEW s \in Sources, AddTorrent(r, s)
    PROVE  /\ RequestsTyped'
           /\ torrent' \in [Sources -> {"absent", "adding", "ready"}]
<1>1. Fresh(s, FALSE) \in Task
  BY FreshTyped
<1>2. RequestsTyped'
  BY <1>1, GotoTyped, FinishTyped DEF AddTorrent, Steps
<1> QED
  BY <1>2 DEF AddTorrent, ClientTyped
--------------------------------------------------------------------------------
(* The data on the disk is that of the torrents that are ready, which have *)
(* opened their stores in this process, and what restarts have left.       *)
StoresOpen ==
    \A s \in Sources :
       /\ torrent[s] = "ready" => s \in disk \ lost
       /\ s \in disk \ lost => torrent[s] = "ready"

LEMMA InitTyped == Init => TypeOK /\ StoresOpen
<1> SUFFICES ASSUME Init PROVE TypeOK /\ StoresOpen
    OBVIOUS
<1>1. RecordsTyped
  BY EmptySeq DEF Init, RecordsTyped, HasRecord, IsInjective, Range
<1>2. ClientTyped
  BY DEF Init, ClientTyped
<1>3. RequestsTyped
  BY DEF Init, RequestsTyped, Busy, Steps
<1>4. StoresOpen
  BY DEF Init, StoresOpen
<1> QED
  BY <1>1, <1>2, <1>3, <1>4 DEF TypeOK

LEMMA TypeStep == TypeOK /\ StoresOpen /\ [Next]_vars => TypeOK'
<1> SUFFICES ASSUME TypeOK, StoresOpen, [Next]_vars PROVE TypeOK'
    OBVIOUS
<1> USE DEF TypeOK
<1>1. ASSUME NEW r \in Requests, NEW s \in Sources, StreamFile(r, s) PROVE TypeOK'
  <2>1. RequestsTyped'
    <3>1. Fresh(s, \A p \in Requests : ~Busy(p)) \in Task
      BY FreshTyped
    <3>2. \A k \in Task : [k EXCEPT !.alone = FALSE] \in Task
      BY DEF Task
    <3> QED
      BY <1>1, <3>1, <3>2 DEF StreamFile, RequestsTyped, Goto, Steps, CleanupSteps, Busy
  <2> QED
    BY <1>1, <2>1 DEF StreamFile, records, client, RecordsTyped, ClientTyped, HasRecord
<1>2. ASSUME NEW r \in Requests, FindExisting(r) PROVE TypeOK'
  <2>1. Busy(r) /\ task[r] \in Task /\ task[r].source \in Sources
    BY <1>2, BusyTyped DEF FindExisting, Task
  <2>2. RequestsTyped' /\ torrent' \in [Sources -> {"absent", "adding", "ready"}]
    BY <1>2, <2>1, AddTorrentTyped, GoOnTyped DEF FindExisting, ClientTyped, Steps, CleanupSteps
  <2> QED
    BY <1>2, <2>2 DEF FindExisting, records, RecordsTyped, ClientTyped, HasRecord
<1>3. ASSUME NEW r \in Requests, FirstUsage(r) PROVE TypeOK'
  <2>1. RequestsTyped'
    BY <1>3, BusyTyped, GoOnTyped DEF FirstUsage, Steps, CleanupSteps
  <2> QED
    BY <1>3, <2>1 DEF FirstUsage, records, client, RecordsTyped, ClientTyped, HasRecord
<1>4. ASSUME NEW r \in Requests, FindStalest(r) PROVE TypeOK'
  <2>1. Busy(r) /\ task[r] \in Task
    BY <1>4, BusyTyped DEF FindStalest
  <2>2. CASE byStaleness = <<>>
    <3>1. RequestsTyped'
      BY <1>4, <2>1, <2>2, GoOnTyped DEF FindStalest, Steps
    <3> QED
      BY <1>4, <3>1 DEF FindStalest, records, client, RecordsTyped, ClientTyped, HasRecord
  <2>3. CASE byStaleness # <<>>
    <3>1. Head(byStaleness) \in Sources
      BY <2>3, HeadTailProperties DEF RecordsTyped
    <3>2. [task[r] EXCEPT !.victim = Head(byStaleness)] \in Task
      BY <2>1, <3>1 DEF Task
    <3>3. RequestsTyped'
      BY <1>4, <2>3, <3>2, GotoTyped DEF FindStalest, Steps, CleanupSteps
    <3> QED
      BY <1>4, <3>3 DEF FindStalest, records, client, RecordsTyped, ClientTyped, HasRecord
  <2> QED
    BY <2>2, <2>3
<1>5. ASSUME NEW r \in Requests, FindVictim(r) PROVE TypeOK'
  <2>1. task[r] \in Task /\ task[r].victim \in Sources
    BY <1>5, BusyTyped DEF FindVictim, Task
  <2>2. HasRecord(task[r].victim) => [task[r] EXCEPT !.freed = size[task[r].victim]] \in Task
    BY <2>1 DEF HasRecord, RecordsTyped, Task
  <2>3. RequestsTyped'
    BY <1>5, <2>1, <2>2, GotoTyped, BreakOffTyped DEF FindVictim, Steps, CleanupSteps
  <2> QED
    BY <1>5, <2>3 DEF FindVictim, records, client, RecordsTyped, ClientTyped, HasRecord
<1>6. ASSUME NEW r \in Requests, DeleteVictim(r) PROVE TypeOK'
  <2> DEFINE k == task[r]
             n == k.needless \/ ~OverThreshold
  <2>1. k \in Task /\ k.victim \in Sources
    BY <1>6, BusyTyped DEF DeleteVictim, Task
  <2>2. CASE ~HasRecord(k.victim)
    <3>1. RequestsTyped' /\ UNCHANGED <<records, removing>>
      BY <1>6, <2>1, <2>2, BreakOffTyped DEF DeleteVictim
    <3> QED
      BY <1>6, <3>1 DEF DeleteVictim, records, RecordsTyped, ClientTyped, HasRecord
  <2>3. CASE HasRecord(k.victim)
    <3>1. [k EXCEPT !.needless = n] \in Task
      BY <2>1 DEF Task
    <3>2. RequestsTyped'
      BY <1>6, <2>3, <3>1, GotoTyped, BreakOffTyped DEF DeleteVictim, Steps, CleanupSteps
    <3>3. RecordsTyped'
      BY <1>6, <2>1, <2>3, DeletedTyped DEF DeleteVictim
    <3> QED
      BY <1>6, <2>1, <2>3, <3>2, <3>3 DEF DeleteVictim, DeleteEmitted, ClientTyped
  <2> QED
    BY <2>2, <2>3
<1>7. ASSUME NEW r \in Requests, Recalculate(r) PROVE TypeOK'
  <2> DEFINE k == [task[r] EXCEPT !.attempts = IF @ < MaxCleanupAttempts THEN @ + 1 ELSE @]
  <2>1. task[r] \in Task
    BY <1>7, BusyTyped DEF Recalculate
  <2>2. k \in Task
    BY <2>1 DEF Task
  <2>3. RequestsTyped'
    BY <1>7, <2>2, GotoTyped, ReturnTyped DEF Recalculate, Steps, CleanupSteps
  <2> QED
    BY <1>7, <2>3 DEF Recalculate, records, client, RecordsTyped, ClientTyped, HasRecord
<1>8. ASSUME NEW r \in Requests, Create(r) PROVE TypeOK'
  <2> DEFINE s == task[r].source
  <2>1. s \in Sources
    BY <1>8, BusyTyped DEF Create, Task
  <2>2. CASE HasRecord(s)
    <3>1. RequestsTyped' /\ UNCHANGED <<records, torrent>>
      BY <1>8, <2>2, FinishTyped DEF Create
    <3> QED
      BY <1>8, <3>1 DEF Create, records, RecordsTyped, ClientTyped, HasRecord
  <2>3. CASE ~HasRecord(s)
    <3>1. RequestsTyped' /\ torrent' \in [Sources -> {"absent", "adding", "ready"}]
      BY <1>8, <2>1, <2>3, AddTorrentTyped DEF Create
    <3>2. RecordsTyped'
      BY <1>8, <2>1, <2>3, CreatedTyped DEF Create
    <3> QED
      BY <1>8, <3>1, <3>2 DEF Create, ClientTyped
  <2> QED
    BY <2>2, <2>3
<1>9. ASSUME NEW r \in Requests, AddTimeout(r) \/ Leave(r) PROVE TypeOK'
  <2>1. RequestsTyped'
    <3>1. CASE AddTimeout(r)
      BY <3>1, FinishTyped DEF AddTimeout
    <3>2. CASE Leave(r)
      BY <3>2 DEF Leave, RequestsTyped, Goto, Steps, Busy
    <3> QED
      BY <1>9, <3>1, <3>2
  <2> QED
    BY <1>9, <2>1 DEF AddTimeout, Leave, records, client, RecordsTyped, ClientTyped, HasRecord
<1>10. ASSUME NEW r \in Requests, Patch(r) PROVE TypeOK'
  <2>1. task[r].source \in Sources
    BY <1>10, BusyTyped DEF Patch, Task
  <2>2. RequestsTyped'
    BY <1>10, FinishTyped DEF Patch
  <2>3. RecordsTyped'
    BY <1>10, <2>1, PatchedTyped DEF Patch
  <2> QED
    BY <1>10, <2>1, <2>2, <2>3 DEF Patch, ClientTyped
<1>11. ASSUME NEW s \in Sources, TorrentReady(s) PROVE TypeOK'
  <2>1. RequestsTyped'
    BY <1>11, MoveTyped DEF TorrentReady
  <2> QED
    BY <1>11, <2>1 DEF TorrentReady, records, RecordsTyped, ClientTyped, HasRecord
<1>12. ASSUME NEW s \in Sources, TorrentFails(s) PROVE TypeOK'
  <2>1. RequestsTyped'
    BY <1>12 DEF TorrentFails, RequestsTyped, Move, Awaiting, Busy, Steps, CleanupSteps
  <2> QED
    BY <1>12, <2>1 DEF TorrentFails, records, RecordsTyped, ClientTyped, HasRecord
<1>13. ASSUME NEW s \in Sources, Verified(s) PROVE TypeOK'
  BY <1>13, PatchedTyped DEF Verified, client, ClientTyped, RequestsTyped, Busy
<1>14. ASSUME NEW s \in Sources, Done(s) PROVE TypeOK'
  BY <1>14, DoneTyped DEF Done, client, ClientTyped, RequestsTyped, Busy
<1>15. ASSUME NEW s \in Sources, HandleDelete(s) PROVE TypeOK'
  <2>1. RequestsTyped'
    BY <1>15, MoveTyped DEF HandleDelete
  <2> QED
    BY <1>15, <2>1 DEF HandleDelete, StoreDestroyed, StoresOpen, records, RecordsTyped, ClientTyped, HasRecord
<1>16. CASE Restart
  BY <1>16 DEF Restart, records, RecordsTyped, ClientTyped, HasRecord, RequestsTyped, Busy, Steps
<1>17. CASE UNCHANGED vars
  BY <1>17 DEF vars, records, client, RecordsTyped, ClientTyped, HasRecord, RequestsTyped, Busy
<1> QED
  BY <1>1, <1>2, <1>3, <1>4, <1>5, <1>6, <1>7, <1>8, <1>9, <1>10, <1>11, <1>12, <1>13,
     <1>14, <1>15, <1>16, <1>17 DEF Next, Cleanup

(* What a step that is not the client's own may do to its torrents.        *)
LEMMA AddingIsNew ==
    ASSUME torrent \in [Sources -> {"absent", "adding", "ready"}], NEW r \in Requests,
           NEW t \in Sources, AddTorrent(r, t), NEW s \in Sources
    PROVE  \/ torrent'[s] = torrent[s]
           \/ s = t /\ torrent[s] = "absent" /\ torrent'[s] = "adding"
<1>1. CASE torrent' = torrent
  BY <1>1
<1>2. CASE torrent[t] = "absent" /\ torrent' = [torrent EXCEPT ![t] = "adding"]
  BY <1>2
<1> QED
  BY <1>1, <1>2 DEF AddTorrent

LEMMA TorrentAdded ==
    ASSUME TypeOK, NEW r \in Requests, FindExisting(r) \/ Create(r), NEW s \in Sources
    PROVE  \/ torrent'[s] = torrent[s]
           \/ torrent[s] = "absent" /\ torrent'[s] = "adding" /\ HasRecord(s)'
<1>1. task[r].source \in Sources
  BY BusyTyped DEF FindExisting, Create, Task, TypeOK
<1>2. CASE FindExisting(r)
  BY <1>1, <1>2 DEF FindExisting, AddTorrent, TypeOK, ClientTyped, RecordsTyped, HasRecord, records
<1>3. CASE Create(r)
  <2>1. DeclaredSize[task[r].source] # NoRecord
    BY <1>1
  <2>2. torrent \in [Sources -> {"absent", "adding", "ready"}] /\ size \in [Sources -> Nat \cup {NoRecord}]
    BY DEF TypeOK, ClientTyped, RecordsTyped
  <2>3. CASE HasRecord(task[r].source)
    BY <1>3, <2>3 DEF Create
  <2>4. CASE ~HasRecord(task[r].source)
    <3>1. size'[task[r].source] # NoRecord
      <4>1. size' = [size EXCEPT ![task[r].source] = DeclaredSize[task[r].source]]
        BY <1>3, <2>4 DEF Create
      <4>2. size'[task[r].source] = DeclaredSize[task[r].source]
        BY <1>1, <2>2, <4>1
      <4> QED
        BY <2>1, <4>2
    <3>2. AddTorrent(r, task[r].source)
      BY <1>3, <2>4 DEF Create
    <3> QED
      BY <1>1, <2>2, <3>1, <3>2, AddingIsNew DEF HasRecord
  <2> QED
    BY <2>3, <2>4
<1> QED
  BY <1>2, <1>3

LEMMA StoresOpenStep == TypeOK /\ StoresOpen /\ [Next]_vars => StoresOpen'
<1> SUFFICES ASSUME TypeOK, StoresOpen, [Next]_vars PROVE StoresOpen'
    OBVIOUS
<1> USE DEF StoresOpen
<1>1. ASSUME NEW r \in Requests, FindExisting(r) \/ Create(r) PROVE StoresOpen'
  <2>1. UNCHANGED <<disk, lost>>
    BY <1>1 DEF FindExisting, Create
  <2> QED
    BY <1>1, <2>1, TorrentAdded
<1>2. ASSUME NEW s \in Sources, TorrentReady(s) \/ TorrentFails(s) \/ HandleDelete(s)
      PROVE  StoresOpen'
  BY <1>2 DEF TorrentReady, TorrentFails, HandleDelete, StoreDestroyed, TypeOK, ClientTyped
<1>3. CASE Restart
  BY <1>3 DEF Restart
<1>4. CASE UNCHANGED <<torrent, disk, lost>>
  BY <1>4
<1> QED
  BY <1>1, <1>2, <1>3, <1>4
     DEF Next, Cleanup, vars, client, StreamFile, FirstUsage, FindStalest, FindVictim,
         DeleteVictim, Recalculate, AddTimeout, Patch, Leave, Verified, Done

(* Every variable of the downloads keeps its type; the order of the table  *)
(* lists each record once, and a request has locals while it is served.    *)
THEOREM DownloadsTypeCorrect == Spec => []TypeOK
  BY InitTyped, TypeStep, StoresOpenStep, PTL DEF Spec
--------------------------------------------------------------------------------
(* The steps by which a record comes or goes.                              *)
LEMMA RecordChange ==
    ASSUME TypeOK, [Next]_vars, NEW s \in Sources, HasRecord(s), ~HasRecord(s)'
    PROVE  \E r \in Requests : DeleteVictim(r) /\ s \in removing'
<1> USE DEF HasRecord
<1>1. size' # size
  OBVIOUS
<1>2. ASSUME NEW r \in Requests, Create(r) PROVE FALSE
  <2>1. task[r].source \in Sources
    BY <1>2, BusyTyped DEF Create, Task, TypeOK
  <2> QED
    BY <1>2, <2>1 DEF Create, TypeOK, RecordsTyped, records
<1>3. ASSUME NEW r \in Requests, Patch(r) PROVE FALSE
  <2>1. task[r].source \in Sources
    BY <1>3, BusyTyped DEF Patch, Task, TypeOK
  <2> QED
    BY <1>3, <2>1 DEF Patch, PatchedSize, TypeOK, RecordsTyped
<1>4. ASSUME NEW t \in Sources, Verified(t) PROVE FALSE
  BY <1>4 DEF Verified, PatchedSize, TypeOK, RecordsTyped
<1>5. ASSUME NEW r \in Requests, DeleteVictim(r) PROVE s \in removing'
  <2>1. task[r].victim \in Sources
    BY <1>5, BusyTyped DEF DeleteVictim, Task, TypeOK
  <2> QED
    BY <1>5, <2>1 DEF DeleteVictim, DeleteEmitted, TypeOK, RecordsTyped, records
<1> QED
  BY <1>1, <1>2, <1>3, <1>4, <1>5
     DEF Next, Cleanup, vars, records, StreamFile, FindExisting, FirstUsage, FindStalest,
         FindVictim, Recalculate, AddTimeout, Leave, TorrentReady, TorrentFails, Done,
         HandleDelete, Restart

(* An eviction is noted until the listener has handled it.                 *)
LEMMA StillNoted ==
    ASSUME TypeOK, [Next]_vars, NEW s \in Sources, HasRecord(s) \/ s \in removing
    PROVE  HasRecord(s)' \/ s \in removing' \/ HandleDelete(s) \/ Restart
<1>1. CASE HasRecord(s)
  BY <1>1, RecordChange
<1>2. CASE s \in removing
  <2>1. ASSUME NEW r \in Requests, DeleteVictim(r) PROVE s \in removing'
    BY <1>2, <2>1 DEF DeleteVictim, DeleteEmitted
  <2>2. ASSUME NEW t \in Sources, HandleDelete(t) PROVE s \in removing' \/ HandleDelete(s)
    BY <1>2, <2>2 DEF HandleDelete
  <2>3. CASE UNCHANGED removing
    BY <1>2, <2>3
  <2> QED
    BY <2>1, <2>2, <2>3
       DEF Next, Cleanup, vars, client, StreamFile, FindExisting, FirstUsage, FindStalest,
           FindVictim, Recalculate, Create, AddTimeout, Patch, Leave, TorrentReady,
           TorrentFails, Verified, Done
<1> QED
  BY <1>1, <1>2

LEMMA NoOrphanStep == TypeOK /\ NoOrphanTorrent /\ [Next]_vars => NoOrphanTorrent'
<1> SUFFICES ASSUME TypeOK, NoOrphanTorrent, [Next]_vars,
                    NEW s \in Sources, torrent'[s] # "absent"
             PROVE  HasRecord(s)' \/ s \in removing'
    BY DEF NoOrphanTorrent
<1>1. ~HandleDelete(s) /\ ~Restart
  BY DEF HandleDelete, Restart, TypeOK, ClientTyped
<1>2. CASE torrent[s] # "absent"
  BY <1>1, <1>2, StillNoted DEF NoOrphanTorrent
<1>3. ASSUME torrent[s] = "absent", NEW r \in Requests, FindExisting(r) \/ Create(r)
      PROVE  HasRecord(s)' \/ s \in removing'
  BY <1>3, TorrentAdded
<1>4. CASE torrent[s] = "absent" /\ torrent' # torrent
  <2>1. ASSUME NEW t \in Sources, TorrentReady(t) \/ TorrentFails(t) \/ HandleDelete(t)
        PROVE  FALSE
    BY <1>4, <2>1 DEF TorrentReady, TorrentFails, HandleDelete, TypeOK, ClientTyped
  <2> QED
    BY <1>1, <1>3, <1>4, <2>1
       DEF Next, Cleanup, vars, client, StreamFile, FirstUsage, FindStalest, FindVictim,
           DeleteVictim, Recalculate, AddTimeout, Patch, Leave, Verified, Done
<1> QED
  BY <1>2, <1>3, <1>4

(* No torrent is left in the client for a source that has no record, for   *)
(* any number of requests, evictions and restarts.                         *)
THEOREM NoOrphans == Spec => []NoOrphanTorrent
<1>1. Init => NoOrphanTorrent
  BY DEF Init, NoOrphanTorrent
<1> QED
  BY <1>1, DownloadsTypeCorrect, NoOrphanStep, PTL DEF Spec

LEMMA AccountedStep ==
    TypeOK /\ StoresOpen /\ NoOrphanTorrent /\ DataAccountedFor /\ [Next]_vars
       => DataAccountedFor'
<1> SUFFICES ASSUME TypeOK, StoresOpen, NoOrphanTorrent, DataAccountedFor, [Next]_vars,
                    NEW s \in disk'
             PROVE  HasRecord(s)' \/ s \in removing' \/ s \in lost'
    BY DEF DataAccountedFor
<1>1. CASE Restart
  BY <1>1 DEF Restart
<1>2. ASSUME NEW t \in Sources, TorrentReady(t)
      PROVE  HasRecord(s)' \/ s \in removing' \/ s \in lost'
  BY <1>2 DEF TorrentReady, NoOrphanTorrent, DataAccountedFor, HasRecord, records
<1>3. ASSUME NEW t \in Sources, HandleDelete(t)
      PROVE  HasRecord(s)' \/ s \in removing' \/ s \in lost'
  <2>1. CASE s = t
    BY <1>3, <2>1 DEF HandleDelete, StoreDestroyed, StoresOpen
  <2>2. CASE s # t
    BY <1>3, <2>2 DEF HandleDelete, StoreDestroyed, DataAccountedFor, HasRecord, records
  <2> QED
    BY <2>1, <2>2
<1>4. ASSUME UNCHANGED <<disk, lost>>, ~Restart, \A t \in Sources : ~HandleDelete(t)
      PROVE  HasRecord(s)' \/ s \in removing' \/ s \in lost'
  BY <1>4, StillNoted DEF DataAccountedFor, TypeOK, ClientTyped
<1> QED
  BY <1>1, <1>2, <1>3, <1>4
     DEF Next, Cleanup, vars, client, StreamFile, FindExisting, FirstUsage, FindStalest,
         FindVictim, DeleteVictim, Recalculate, Create, AddTimeout, Patch, Leave,
         TorrentFails, Verified, Done

(* Data on the disk has a record, is about to be deleted, or was left by a *)
(* restart, for any number of requests, evictions and restarts.            *)
THEOREM DataStaysAccountedFor == Spec => []DataAccountedFor
<1>1. Init => DataAccountedFor
  BY DEF Init, DataAccountedFor
<1> QED
  BY <1>1, InitTyped, TypeStep, StoresOpenStep, NoOrphans, AccountedStep, PTL DEF Spec

(* No torrent and no data of a source is left behind that no cleanup finds *)
(* (storage.service.ts:157-179, download.service.ts:91-107).               *)
THEOREM NothingGoesAdrift == Spec => []NothingAdrift
  BY NoOrphans, DataStaysAccountedFor, PTL DEF NothingAdrift
--------------------------------------------------------------------------------
(* The sum over no rows: the recursion of the fold ends at once.           *)
LEMMA SumOfNothing == ASSUME NEW f PROVE SumFunctionOnSet(f, {}) = 0
<1> DEFINE step(g) ==
             [s \in SUBSET {} |->
                IF s = {} THEN 0
                ELSE LET x == CHOOSE x \in s : TRUE IN f[x] + g[s \ {x}]]
<1>1. \E g : g = step(g)
  <2>1. [s \in SUBSET {} |-> 0] = step([s \in SUBSET {} |-> 0])
    OBVIOUS
  <2> QED
    BY <2>1, Zenon
<1> DEFINE iter == CHOOSE g : g = step(g)
<1>2. iter = step(iter)
  BY <1>1, Zenon
<1>3. iter[{}] = 0
  BY <1>2
<1>4. SumFunctionOnSet(f, {}) = iter[{}]
  BY Zenon DEF SumFunctionOnSet, FoldFunctionOnSet, MapThenFoldSet
<1> QED
  BY <1>3, <1>4

LEMMA SomethingToEvict == TypeOK /\ OverThreshold => byStaleness # <<>>
<1> SUFFICES ASSUME TypeOK, byStaleness = <<>> PROVE ~OverThreshold
    OBVIOUS
<1>1. {s \in Sources : HasRecord(s)} = {}
  BY DEF TypeOK, RecordsTyped, Range
<1>2. Usage = 0
  BY <1>1, SumOfNothing, Zenon DEF Usage
<1> QED
  BY <1>2 DEF OverThreshold

LEMMA SameUsage == UNCHANGED size => (OverThreshold' <=> OverThreshold)
<1> SUFFICES ASSUME UNCHANGED size PROVE OverThreshold' <=> OverThreshold
    OBVIOUS
<1>1. {s \in Sources : HasRecord(s)}' = {s \in Sources : HasRecord(s)}
  BY DEF HasRecord
<1>2. Usage' = Usage
  BY <1>1, Zenon DEF Usage
<1> QED
  BY <1>2, Zenon DEF OverThreshold

(* The listeners are on torrents that are ready, and the sizes they would  *)
(* store are stored, except where a start is about to do so itself.        *)
ListenersInStep ==
    \A s \in tracked :
       /\ torrent[s] = "ready"
       /\ HasRecord(s) => \/ size[s] = Length[s]
                          \/ \E r \in Requests : pc[r] = "patch" /\ task[r].source = s

(* A start that runs alone: nobody else is served, and where it evicts the *)
(* usage is above the threshold.                                           *)
AloneFor(r) ==
    /\ \A q \in Requests \ {r} : ~Busy(q)
    /\ pc[r] \in CleanupSteps \cup {"findExisting", "create"}
    /\ ~task[r].needless
    /\ pc[r] \in {"findStalest", "findVictim", "deleteVictim"} => OverThreshold
    /\ MakesRoom(r)

AloneInv == \A r \in Requests : Busy(r) /\ task[r].alone => AloneFor(r)

LEMMA Bystander ==
    ASSUME AloneInv, UNCHANGED size, NEW r \in Requests, pc'[r] = pc[r], task'[r] = task[r],
           Busy(r)', task'[r].alone,
           \A q \in Requests : Busy(q)' => Busy(q)
    PROVE  AloneFor(r)'
<1>1. AloneFor(r)
  BY DEF AloneInv, Busy
<1> QED
  BY <1>1, SameUsage DEF AloneFor, MakesRoom

(* Steps of a request that is served disturb no start that runs alone, as  *)
(* there is none but perhaps the request itself.                           *)
LEMMA OnlyItself ==
    ASSUME AloneInv, NEW q \in Requests, Busy(q), NEW r \in Requests,
           pc'[r] = pc[r], task'[r] = task[r], Busy(r)', task'[r].alone
    PROVE  r = q
  BY DEF AloneInv, AloneFor, Busy

(* A request that has its torrent loses neither its place nor its source.  *)
LEMMA StillPatching ==
    ASSUME TypeOK, [Next]_vars, NEW p \in Requests, pc[p] = "patch"
    PROVE  \/ Patch(p) \/ Restart
           \/ pc'[p] = "patch" /\ task'[p].source = task[p].source
<1> SUFFICES ASSUME ~Patch(p), ~Restart
             PROVE  pc'[p] = "patch" /\ task'[p].source = task[p].source
    OBVIOUS
<1> USE DEF TypeOK, RequestsTyped
<1>1. task[p] \in Task
  BY DEF Busy
<1>2. ASSUME NEW r \in Requests, NEW s \in Sources, StreamFile(r, s)
      PROVE  pc'[p] = "patch" /\ task'[p].source = task[p].source
  BY <1>1, <1>2 DEF StreamFile, Goto, Busy, Task
<1>3. ASSUME NEW r \in Requests, r # p, pc' = [pc EXCEPT ![r] = pc'[r]],
             task' = [task EXCEPT ![r] = task'[r]]
      PROVE  pc'[p] = "patch" /\ task'[p].source = task[p].source
  BY <1>3
<1>4. ASSUME NEW r \in Requests, \/ FindExisting(r) \/ Cleanup(r) \/ Create(r)
                                 \/ AddTimeout(r) \/ Patch(r) \/ Leave(r)
      PROVE  pc'[p] = "patch" /\ task'[p].source = task[p].source
  <2>1. r # p
    BY <1>4
       DEF FindExisting, Cleanup, FirstUsage, FindStalest, FindVictim, DeleteVictim,
           Recalculate, Create, AddTimeout, Leave
  <2>2. pc' = [pc EXCEPT ![r] = pc'[r]] /\ task' = [task EXCEPT ![r] = task'[r]]
    BY <1>4
       DEF FindExisting, AddTorrent, Cleanup, FirstUsage, FindStalest, FindVictim,
           DeleteVictim, Recalculate, Create, AddTimeout, Leave, Patch, Goto, Finish,
           Return, BreakOff
  <2> QED
    BY <1>3, <2>1, <2>2
<1>5. ASSUME NEW s \in Sources, \/ TorrentReady(s) \/ TorrentFails(s) \/ Verified(s)
                                \/ Done(s) \/ HandleDelete(s)
      PROVE  pc'[p] = "patch" /\ task'[p].source = task[p].source
  BY <1>5 DEF TorrentReady, TorrentFails, Verified, Done, HandleDelete, Move, Awaiting
<1> QED
  BY <1>2, <1>4, <1>5 DEF Next, vars

LEMMA ListenersStep == TypeOK /\ ListenersInStep /\ [Next]_vars => ListenersInStep'
<1> SUFFICES ASSUME TypeOK, ListenersInStep, [Next]_vars, NEW s \in tracked'
             PROVE  /\ torrent'[s] = "ready"
                    /\ HasRecord(s)' => \/ size'[s] = Length[s]
                                        \/ \E r \in Requests : pc'[r] = "patch" /\ task'[r].source = s
    BY DEF ListenersInStep, HasRecord
<1> USE DEF TypeOK
<1> DEFINE InStep == /\ torrent'[s] = "ready"
                     /\ HasRecord(s)' =>
                          \/ size'[s] = Length[s]
                          \/ \E r \in Requests : pc'[r] = "patch" /\ task'[r].source = s
<1>1. ~Restart
  BY DEF Restart
<1>2. ASSUME NEW p \in Requests, Patch(p) PROVE InStep
  <2> DEFINE t == task[p].source
  <2>1. t \in Sources
    BY <1>2, BusyTyped DEF Patch, Task
  <2>2. CASE s = t
    BY <1>2, <2>1, <2>2 DEF Patch, PatchedSize, HasRecord, RecordsTyped, ListenersInStep
  <2>3. CASE s # t
    <3>1. s \in tracked /\ torrent'[s] = torrent[s] /\ size'[s] = size[s]
      BY <1>2, <2>3 DEF Patch, RecordsTyped, ClientTyped
    <3>2. ASSUME NEW r \in Requests, pc[r] = "patch", task[r].source = s
          PROVE  pc'[r] = "patch" /\ task'[r].source = s
      <4>1. r # p
        BY <2>3, <3>2
      <4> QED
        BY <1>2, <3>2, <4>1 DEF Patch, Finish, Goto
    <3> QED
      BY <3>1, <3>2 DEF ListenersInStep, HasRecord
  <2> QED
    BY <2>2, <2>3
<1> SUFFICES ASSUME \A p \in Requests : ~Patch(p) PROVE InStep
    BY <1>2
<1>3. ASSUME s \in tracked, torrent'[s] = torrent[s], size'[s] = size[s]
      PROVE  InStep
  <2>1. ASSUME NEW r \in Requests, pc[r] = "patch", task[r].source = s
        PROVE  pc'[r] = "patch" /\ task'[r].source = s
    BY <1>1, <2>1, StillPatching
  <2> QED
    BY <1>3, <2>1 DEF ListenersInStep, HasRecord
<1>4. s \in tracked /\ s \in Sources /\ torrent[s] = "ready"
  <2>1. s \in tracked
    BY <1>1
       DEF Next, Cleanup, vars, client, StreamFile, FindExisting, FirstUsage,
           FindStalest, FindVictim, DeleteVictim, Recalculate, Create, AddTimeout, Leave,
           TorrentReady, TorrentFails, Verified, Done, HandleDelete
  <2> QED
    BY <2>1 DEF ClientTyped, ListenersInStep
<1>5. ASSUME NEW r \in Requests, Create(r) PROVE InStep
  <2>1. task[r].source \in Sources
    BY <1>5, BusyTyped DEF Create, Task
  <2>3. torrent'[s] = "ready"
    BY <1>4, <1>5, TorrentAdded
  <2>4. CASE size'[s] = size[s]
    BY <1>3, <1>4, <2>3, <2>4
  <2>5. CASE size'[s] # size[s]
    <3>1. s = task[r].source /\ AddTorrent(r, s)
      BY <1>4, <1>5, <2>1, <2>5 DEF Create, records, RecordsTyped
    <3>2. pc'[r] = "patch" /\ task'[r] = Fresh(s, FALSE)
      BY <1>4, <3>1 DEF AddTorrent, Goto, RequestsTyped
    <3> QED
      BY <2>3, <3>2 DEF Fresh
  <2> QED
    BY <2>4, <2>5
<1>6. ASSUME NEW r \in Requests, DeleteVictim(r) PROVE InStep
  <2>1. task[r].victim \in Sources
    BY <1>6, BusyTyped DEF DeleteVictim, Task
  <2>2. s \in tracked /\ torrent'[s] = torrent[s]
    BY <1>6 DEF DeleteVictim
  <2>3. size'[s] = size[s] \/ ~HasRecord(s)'
    BY <1>4, <1>6, <2>1 DEF DeleteVictim, records, HasRecord, RecordsTyped
  <2> QED
    BY <1>3, <1>4, <2>2, <2>3
<1>7. ASSUME NEW t \in Sources, Verified(t) PROVE InStep
  <2>1. s \in tracked /\ torrent'[s] = torrent[s]
    BY <1>7 DEF Verified, client
  <2>2. size'[s] = size[s] \/ (HasRecord(s)' => size'[s] = Length[s])
    BY <1>4, <1>7 DEF Verified, PatchedSize, HasRecord, RecordsTyped
  <2> QED
    BY <1>3, <1>4, <2>1, <2>2
<1>8. ASSUME NEW t \in Sources, TorrentReady(t) \/ TorrentFails(t) \/ HandleDelete(t)
      PROVE  InStep
  <2>1. s \in tracked /\ size'[s] = size[s]
    BY <1>8 DEF TorrentReady, TorrentFails, HandleDelete, records
  <2>2. torrent'[s] = torrent[s]
    BY <1>4, <1>8, <2>1 DEF TorrentReady, TorrentFails, HandleDelete, ClientTyped, ListenersInStep
  <2> QED
    BY <1>3, <2>1, <2>2
<1>9. CASE UNCHANGED <<size, torrent, tracked>>
  BY <1>3, <1>4, <1>9
<1>10. ASSUME NEW r \in Requests, FindExisting(r) PROVE InStep
  <2>1. size'[s] = size[s]
    BY <1>10 DEF FindExisting, records
  <2> QED
    BY <1>3, <1>4, <1>10, <2>1, TorrentAdded
<1> QED
  BY <1>1, <1>5, <1>6, <1>7, <1>8, <1>9, <1>10
     DEF Next, Cleanup, vars, records, client, StreamFile, FirstUsage,
         FindStalest, FindVictim, Recalculate, AddTimeout, Leave, Done

(* The steps of a start that runs alone, in the order of the code.         *)
LEMMA OwnStep ==
    ASSUME TypeOK, AloneInv, NEW r \in Requests,
           FindExisting(r) \/ Cleanup(r) \/ Create(r) \/ AddTimeout(r) \/ Patch(r),
           Busy(r)', task'[r].alone
    PROVE  AloneFor(r)'
<1> USE DEF TypeOK, RequestsTyped
<1> DEFINE k == task[r]
<1>1. k \in Task /\ Busy(r)
  BY BusyTyped
     DEF FindExisting, Cleanup, FirstUsage, FindStalest, FindVictim, DeleteVictim,
         Recalculate, Create, AddTimeout, Patch
<1>2. \A q \in Requests \ {r} : pc'[q] = pc[q]
  BY DEF FindExisting, AddTorrent, Cleanup, FirstUsage, FindStalest, FindVictim, DeleteVictim,
         Recalculate, Create, AddTimeout, Patch, Goto, Finish, Return, BreakOff
<1>3. ~AddTimeout(r) /\ ~Patch(r) /\ ~Create(r)
  BY DEF AddTimeout, Patch, Create, AddTorrent, Finish, Goto, Busy, Fresh
<1>4. task'[r].alone = k.alone
  <2>1. ASSUME NEW l \in Task, l.alone = k.alone, Return(r, l)
        PROVE  task'[r].alone = k.alone
    BY <2>1 DEF Return, Task
  <2>2. ASSUME NEW l \in Task, l.alone = k.alone, BreakOff(r, l)
        PROVE  task'[r].alone = k.alone
    <3>1. /\ [l EXCEPT !.stuck = TRUE] \in Task
          /\ [l EXCEPT !.stuck = TRUE].alone = k.alone
      BY <2>2 DEF Task
    <3> QED
      BY <2>1, <2>2, <3>1 DEF BreakOff
  <2>3. CASE FindExisting(r) \/ FirstUsage(r)
    <3>1. CASE task' = task
      BY <3>1
    <3>2. CASE \E s : task' = [task EXCEPT ![r] = Fresh(s, FALSE)]
      BY <3>2 DEF Fresh
    <3>3. CASE Finish(r, "hung")
      BY <3>3 DEF Finish, Goto, Busy
    <3> QED
      BY <2>3, <3>1, <3>2, <3>3 DEF FindExisting, AddTorrent, FirstUsage
  <2>4. CASE FindStalest(r) \/ FindVictim(r)
    <3>1. CASE task' = task \/ BreakOff(r, k)
      BY <1>1, <2>2, <3>1
    <3>2. CASE \E v : task' = [task EXCEPT ![r].victim = v]
      <4>1. PICK v : task' = [task EXCEPT ![r].victim = v]
        BY <3>2
      <4>2. task'[r] = [k EXCEPT !.victim = v]
        BY <4>1
      <4>3. [k EXCEPT !.victim = v].alone = k.alone
        BY <1>1 DEF Task
      <4> QED
        BY <4>2, <4>3
    <3>3. CASE \E n : task' = [task EXCEPT ![r].freed = n]
      <4>1. PICK n : task' = [task EXCEPT ![r].freed = n]
        BY <3>3
      <4>2. task'[r] = [k EXCEPT !.freed = n]
        BY <4>1
      <4>3. [k EXCEPT !.freed = n].alone = k.alone
        BY <1>1 DEF Task
      <4> QED
        BY <4>2, <4>3
    <3> QED
      BY <2>4, <3>1, <3>2, <3>3 DEF FindStalest, FindVictim
  <2>5. CASE DeleteVictim(r)
    <3>1. /\ [k EXCEPT !.needless = k.needless \/ ~OverThreshold] \in Task
          /\ [k EXCEPT !.needless = k.needless \/ ~OverThreshold].alone = k.alone
      BY <1>1 DEF Task
    <3> QED
      BY <1>1, <2>2, <2>5, <3>1 DEF DeleteVictim
  <2>6. CASE Recalculate(r)
    <3> DEFINE l == [k EXCEPT !.attempts = IF @ < MaxCleanupAttempts THEN @ + 1 ELSE @]
    <3>1. l \in Task /\ l.alone = k.alone
      BY <1>1 DEF Task
    <3> QED
      BY <2>1, <2>6, <3>1 DEF Recalculate
  <2> QED
    BY <1>3, <2>3, <2>4, <2>5, <2>6 DEF Cleanup
<1>5. AloneFor(r) /\ \A q \in Requests \ {r} : ~Busy(q)'
  BY <1>1, <1>2, <1>4 DEF AloneInv, AloneFor, Busy
<1>6. SUFFICES /\ pc'[r] \in CleanupSteps \cup {"create"}
               /\ ~task'[r].needless
               /\ pc'[r] \in {"findStalest", "findVictim", "deleteVictim"} => OverThreshold'
               /\ MakesRoom(r)'
  BY <1>5 DEF AloneFor
<1> USE DEF CleanupSteps
<1>7. CASE FindExisting(r)
  <2>1. task' = task /\ pc'[r] = "usage"
    BY <1>1, <1>7 DEF FindExisting, AddTorrent, Finish, Goto, Busy, Fresh
  <2> QED
    BY <1>5, <2>1 DEF AloneFor, MakesRoom
<1>8. CASE FirstUsage(r)
  <2>1. /\ task' = task /\ UNCHANGED size
        /\ pc'[r] = IF OverThreshold THEN "findStalest" ELSE "create"
    BY <1>8 DEF FirstUsage, Goto, records
  <2> QED
    BY <1>5, <2>1, SameUsage DEF AloneFor, MakesRoom
<1>9. CASE FindStalest(r)
  <2>1. OverThreshold /\ byStaleness # <<>>
    BY <1>5, <1>9, SomethingToEvict DEF FindStalest, AloneFor
  <2>2. /\ UNCHANGED size /\ pc'[r] = "findVictim"
        /\ task'[r] = [k EXCEPT !.victim = Head(byStaleness)]
    BY <1>9, <2>1 DEF FindStalest, Goto, records
  <2>3. task'[r].needless = k.needless
    BY <1>1, <2>2 DEF Task
  <2> QED
    BY <1>5, <2>1, <2>2, <2>3, SameUsage DEF AloneFor, MakesRoom
<1>10. ASSUME NEW l \in Task, l.needless = FALSE, BreakOff(r, l)
       PROVE  pc'[r] = "create" /\ ~task'[r].needless /\ MakesRoom(r)'
  <2>1. pc'[r] = "create" /\ task'[r].stuck /\ task'[r].needless = FALSE
    BY <1>10 DEF BreakOff, Return, Goto, Task
  <2> QED
    BY <2>1 DEF MakesRoom
<1>11. CASE FindVictim(r)
  <2>1. k.needless = FALSE /\ OverThreshold /\ UNCHANGED size
    BY <1>1, <1>5, <1>11 DEF AloneFor, FindVictim, Task, records
  <2>2. CASE ~HasRecord(k.victim)
    BY <1>1, <1>10, <1>11, <2>1, <2>2 DEF FindVictim
  <2>3. CASE HasRecord(k.victim)
    <3>1. pc'[r] = "deleteVictim" /\ task'[r] = [k EXCEPT !.freed = size[k.victim]]
      BY <1>11, <2>3 DEF FindVictim, Goto
    <3>2. task'[r].needless = FALSE
      BY <1>1, <2>1, <3>1 DEF Task
    <3> QED
      BY <2>1, <3>1, <3>2, SameUsage DEF MakesRoom
  <2> QED
    BY <2>2, <2>3
<1>12. CASE DeleteVictim(r)
  <2>1. k.needless = FALSE /\ OverThreshold
    BY <1>1, <1>5, <1>12 DEF AloneFor, DeleteVictim, Task
  <2>2. CASE \E l \in Task : l.needless = FALSE /\ BreakOff(r, l)
    BY <1>10, <2>2
  <2>3. [k EXCEPT !.needless = FALSE] \in Task
    BY <1>1 DEF Task
  <2>4. CASE /\ pc'[r] = "recalculate"
             /\ task'[r] = [k EXCEPT !.needless = k.needless \/ ~OverThreshold]
    <3>1. task'[r].needless = FALSE
      BY <1>1, <2>1, <2>4 DEF Task
    <3> QED
      BY <2>4, <3>1 DEF MakesRoom
  <2>5. BreakOff(r, [k EXCEPT !.needless = k.needless \/ ~OverThreshold])
           => BreakOff(r, [k EXCEPT !.needless = FALSE])
    BY <2>1, Zenon
  <2> QED
    BY <1>1, <1>12, <2>1, <2>2, <2>3, <2>4, <2>5 DEF DeleteVictim, Goto, Task
<1>13. CASE Recalculate(r)
  <2> DEFINE l == [k EXCEPT !.attempts = IF @ < MaxCleanupAttempts THEN @ + 1 ELSE @]
  <2>1. /\ l \in Task /\ l.needless = k.needless /\ l.stuck = k.stuck
        /\ l.attempts = IF k.attempts < MaxCleanupAttempts THEN k.attempts + 1 ELSE k.attempts
    BY <1>1 DEF Task
  <2>2. UNCHANGED size /\ ~k.needless
    BY <1>5, <1>13 DEF Recalculate, records, AloneFor
  <2>3. CASE GoesOn(r)
    <3>1. pc'[r] = "findStalest" /\ task'[r] = l /\ OverThreshold
      BY <1>13, <2>3 DEF Recalculate, Goto, GoesOn
    <3> QED
      BY <2>1, <2>2, <3>1, SameUsage DEF MakesRoom
  <2>4. CASE ~GoesOn(r)
    <3>1. pc'[r] = "create" /\ task'[r] = [l EXCEPT !.victim = l.source, !.freed = 0]
      BY <1>13, <2>4 DEF Recalculate, Return, Goto
    <3>2. task'[r].needless = l.needless /\ task'[r].attempts = l.attempts
      BY <2>1, <3>1 DEF Task
    <3>3. OverThreshold => l.attempts >= MaxCleanupAttempts
      BY <1>1, <2>1, <2>4 DEF GoesOn, Task
    <3> QED
      BY <2>1, <2>2, <3>1, <3>2, <3>3, SameUsage DEF MakesRoom, Task
  <2> QED
    BY <2>3, <2>4
<1> QED
  BY <1>3, <1>7, <1>8, <1>9, <1>11, <1>12, <1>13 DEF Cleanup

LEMMA AloneStep == TypeOK /\ ListenersInStep /\ AloneInv /\ [Next]_vars => AloneInv'
<1> SUFFICES ASSUME TypeOK, ListenersInStep, AloneInv, [Next]_vars,
                    NEW r \in Requests, Busy(r)', task'[r].alone
             PROVE  AloneFor(r)'
    BY DEF AloneInv
<1> USE DEF TypeOK, RequestsTyped
<1>1. ASSUME NEW q \in Requests, NEW s \in Sources, StreamFile(q, s) PROVE AloneFor(r)'
  <2>1. CASE r = q
    <3>1. /\ pc'[r] = "findExisting" /\ task'[r].needless = FALSE
          /\ \A p \in Requests : ~Busy(p)
      BY <1>1, <2>1 DEF StreamFile, Goto, Fresh
    <3>2. \A p \in Requests \ {r} : ~Busy(p)'
      BY <1>1, <2>1, <3>1 DEF StreamFile, Goto, Busy
    <3> QED
      BY <3>1, <3>2 DEF AloneFor, MakesRoom
  <2>2. CASE r # q
    <3>1. pc'[r] = pc[r]
      BY <1>1, <2>2 DEF StreamFile, Goto
    <3>2. Busy(r) /\ task[r] \in Task
      BY <3>1 DEF Busy
    <3>3. task'[r] = [task[r] EXCEPT !.alone = FALSE]
      BY <1>1, <2>2, <3>2 DEF StreamFile
    <3> QED
      BY <3>2, <3>3 DEF Task
  <2> QED
    BY <2>1, <2>2
<1>2. ASSUME NEW q \in Requests, FindExisting(q) \/ Cleanup(q) \/ Create(q) \/ AddTimeout(q) \/ Patch(q)
      PROVE  AloneFor(r)'
  <2>1. Busy(q)
    BY <1>2
       DEF FindExisting, Cleanup, FirstUsage, FindStalest, FindVictim, DeleteVictim,
           Recalculate, Create, AddTimeout, Patch, Busy
  <2>2. r # q => pc'[r] = pc[r] /\ task'[r] = task[r]
    BY <1>2
       DEF FindExisting, AddTorrent, Cleanup, FirstUsage, FindStalest, FindVictim,
           DeleteVictim, Recalculate, Create, AddTimeout, Patch, Goto, Finish, Return, BreakOff
  <2> QED
    BY <1>2, <2>1, <2>2, OnlyItself, OwnStep
<1>3. ASSUME UNCHANGED size, pc'[r] = pc[r], task'[r] = task[r],
             \A q \in Requests : Busy(q)' => Busy(q)
      PROVE  AloneFor(r)'
  BY <1>3, Bystander
<1>4. ASSUME NEW q \in Requests, Leave(q) PROVE AloneFor(r)'
  <2>1. r # q
    BY <1>4 DEF Leave, Goto, Busy
  <2> QED
    BY <1>3, <1>4, <2>1 DEF Leave, Goto, Busy, records
<1>5. ASSUME NEW s \in Sources, TorrentReady(s) \/ TorrentFails(s) \/ HandleDelete(s)
      PROVE  AloneFor(r)'
  <2>1. UNCHANGED size /\ \A q \in Requests : Busy(q)' => Busy(q)
    BY <1>5 DEF TorrentReady, TorrentFails, HandleDelete, records, Move, Awaiting, Busy
  <2>2. task'[r] = task[r]
    BY <1>5 DEF TorrentReady, TorrentFails, HandleDelete, Move, Busy
  <2>3. pc[r] # "awaitTorrent"
    BY <2>1, <2>2 DEF AloneInv, AloneFor, CleanupSteps
  <2>4. pc'[r] = pc[r]
    BY <1>5, <2>3 DEF TorrentReady, TorrentFails, HandleDelete, Move, Awaiting
  <2> QED
    BY <1>3, <2>1, <2>2, <2>4
<1>6. ASSUME NEW s \in Sources, Verified(s) PROVE FALSE
  <2>1. s \in tracked /\ HasRecord(s) /\ size[s] # Length[s]
    BY <1>6 DEF Verified, PatchedSize, HasRecord
  <2>2. PICK q \in Requests : pc[q] = "patch"
    BY <2>1 DEF ListenersInStep
  <2>3. Busy(q) /\ Busy(r) /\ task[r].alone
    BY <1>6, <2>2 DEF Verified, Busy
  <2> QED
    BY <2>2, <2>3 DEF AloneInv, AloneFor, CleanupSteps
<1>7. ASSUME NEW s \in Sources, Done(s) PROVE AloneFor(r)'
  BY <1>3, <1>7 DEF Done, Busy
<1>8. CASE Restart
  BY <1>8 DEF Restart, Busy
<1>9. CASE UNCHANGED vars
  BY <1>3, <1>9 DEF vars, records, Busy
<1> QED
  BY <1>1, <1>2, <1>4, <1>5, <1>6, <1>7, <1>8, <1>9 DEF Next

(* A start that runs alone inserts its record below the threshold, unless  *)
(* its cleanup broke off or ran out of attempts, and evicts nothing while  *)
(* the usage is below it: for any sizes, threshold and bound on attempts.  *)
THEOREM CleanupExact == Spec => []CleanupAloneIsExact
<1>1. Init => ListenersInStep /\ AloneInv
  BY DEF Init, ListenersInStep, AloneInv, Busy
<1>2. AloneInv => CleanupAloneIsExact
  BY DEF AloneInv, AloneFor, CleanupAloneIsExact
<1> QED
  BY <1>1, <1>2, DownloadsTypeCorrect, ListenersStep, AloneStep, PTL DEF Spec
--------------------------------------------------------------------------------
(* What storage promises: each step of the code is a step of StoredSources *)
(* or leaves what it tells of unchanged.                                   *)
LEMMA StorageUnmoved ==
    ASSUME UNCHANGED <<torrent, disk, removing, lost>>, \A s \in Sources : HasRecord(s)' <=> HasRecord(s)
    PROVE  UNCHANGED Storage!storedVars
  BY DEF Storage!storedVars, Recorded, Running

LEMMA StarterMoves ==
    ASSUME TypeOK, NEW r \in Requests, FindExisting(r)
    PROVE  [Storage!StoredNext]_Storage!storedVars
<1> DEFINE s == task[r].source
<1>1. s \in Sources
  BY BusyTyped DEF FindExisting, Task, TypeOK
<1>2. UNCHANGED <<size, disk, removing, lost>>
  BY DEF FindExisting, records
<1>3. CASE torrent' = torrent
  BY <1>2, <1>3, StorageUnmoved DEF HasRecord
<1>4. CASE torrent' # torrent
  <2>1. HasRecord(s) /\ torrent[s] = "absent" /\ torrent' = [torrent EXCEPT ![s] = "adding"]
    BY <1>4 DEF FindExisting, AddTorrent
  <2> HIDE DEF s
  <2>2. s \in Recorded \ Running /\ Running' = Running \cup {s} /\ Recorded' = Recorded
    BY <1>1, <1>2, <2>1 DEF Recorded, Running, HasRecord, TypeOK, ClientTyped
  <2>3. Storage!Run(s)
    BY <1>2, <2>2 DEF Storage!Run
  <2> QED
    BY <1>1, <2>3 DEF Storage!StoredNext
<1> QED
  BY <1>3, <1>4

LEMMA CreatorMoves ==
    ASSUME TypeOK, NEW r \in Requests, Create(r)
    PROVE  [Storage!StoredNext]_Storage!storedVars
<1> DEFINE s == task[r].source
<1>1. s \in Sources
  BY BusyTyped DEF Create, Task, TypeOK
<1>2. UNCHANGED <<disk, removing, lost>>
  BY DEF Create
<1>3. CASE HasRecord(s)
  <2>1. UNCHANGED <<size, torrent>>
    BY <1>3 DEF Create, records
  <2> QED
    BY <1>2, <2>1, StorageUnmoved DEF HasRecord
<1>4. CASE ~HasRecord(s)
  <2>1. size' = [size EXCEPT ![s] = DeclaredSize[s]]
        /\ \/ torrent[s] = "absent" /\ torrent' = [torrent EXCEPT ![s] = "adding"]
           \/ torrent[s] # "absent" /\ torrent' = torrent
    BY <1>4 DEF Create, AddTorrent
  <2>2. DeclaredSize[s] # NoRecord
    BY <1>1
  <2> HIDE DEF s
  <2>3. Recorded' = Recorded \cup {s} /\ s \notin Recorded
    BY <1>1, <1>4, <2>1, <2>2 DEF Recorded, HasRecord, TypeOK, RecordsTyped
  <2>4. Running' = Running \cup {s}
    BY <1>1, <2>1 DEF Running, TypeOK, ClientTyped
  <2>5. Storage!Record(s)
    BY <1>2, <2>3, <2>4 DEF Storage!Record
  <2> QED
    BY <1>1, <2>5 DEF Storage!StoredNext
<1> QED
  BY <1>3, <1>4

LEMMA EvictionMoves ==
    ASSUME TypeOK, NEW r \in Requests, DeleteVictim(r)
    PROVE  [Storage!StoredNext]_Storage!storedVars
<1> DEFINE v == task[r].victim
<1>1. v \in Sources
  BY BusyTyped DEF DeleteVictim, Task, TypeOK
<1>2. UNCHANGED <<torrent, disk, lost>>
  BY DEF DeleteVictim
<1>3. CASE ~HasRecord(v)
  <2>1. UNCHANGED <<size, removing>>
    BY <1>3 DEF DeleteVictim, records
  <2> QED
    BY <1>2, <2>1, StorageUnmoved DEF HasRecord
<1>4. CASE HasRecord(v)
  <2>1. size' = [size EXCEPT ![v] = NoRecord] /\ removing' = removing \cup {v}
    BY <1>4 DEF DeleteVictim, DeleteEmitted
  <2> HIDE DEF v
  <2>2. v \in Recorded /\ Recorded' = Recorded \ {v}
    BY <1>1, <1>4, <2>1 DEF Recorded, HasRecord, TypeOK, RecordsTyped
  <2>3. Running' = Running
    BY <1>2 DEF Running
  <2>4. Storage!Evict(v)
    BY <1>2, <2>1, <2>2, <2>3 DEF Storage!Evict
  <2> QED
    BY <1>1, <2>4 DEF Storage!StoredNext
<1> QED
  BY <1>3, <1>4

(* Only the torrent that opened the store of the data can destroy it.      *)
LEMMA ClientMoves ==
    ASSUME TypeOK, StoresOpen, NEW s \in Sources, TorrentReady(s) \/ TorrentFails(s) \/ HandleDelete(s)
    PROVE  [Storage!StoredNext]_Storage!storedVars
<1>1. UNCHANGED size /\ Recorded' = Recorded
  BY DEF TorrentReady, TorrentFails, HandleDelete, records, Recorded, HasRecord
<1>2. torrent \in [Sources -> {"absent", "adding", "ready"}]
  BY DEF TypeOK, ClientTyped
<1>3. CASE TorrentReady(s)
  <2>1. /\ torrent[s] = "adding" /\ torrent' = [torrent EXCEPT ![s] = "ready"]
        /\ disk' = disk \cup {s} /\ lost' = lost \ {s} /\ removing' = removing
    BY <1>3 DEF TorrentReady
  <2>2. s \in Running \ Storage!Fetched /\ Running' = Running
    BY <1>2, <2>1 DEF Running, StoresOpen, Storage!Fetched
  <2>3. Storage!Fetch(s)
    BY <1>1, <2>1, <2>2 DEF Storage!Fetch
  <2> QED
    BY <2>3 DEF Storage!StoredNext
<1>4. CASE TorrentFails(s)
  <2>1. /\ torrent[s] = "adding" /\ torrent' = [torrent EXCEPT ![s] = "absent"]
        /\ UNCHANGED <<disk, lost, removing>>
    BY <1>4 DEF TorrentFails
  <2>2. s \in Running \ Storage!Fetched /\ Running' = Running \ {s}
    BY <1>2, <2>1 DEF Running, StoresOpen, Storage!Fetched
  <2>3. Storage!Fail(s)
    BY <1>1, <2>1, <2>2 DEF Storage!Fail
  <2> QED
    BY <2>3 DEF Storage!StoredNext
<1>5. CASE HandleDelete(s)
  <2>1. /\ s \in removing /\ removing' = removing \ {s} /\ lost' = lost
        /\ torrent' = [torrent EXCEPT ![s] = "absent"]
        /\ disk' = IF torrent[s] = "ready" THEN disk \ {s} ELSE disk
    BY <1>5 DEF HandleDelete, StoreDestroyed
  <2>2. Running' = Running \ {s}
    BY <1>2, <2>1 DEF Running
  <2>3. disk' = disk \ ({s} \cap Storage!Fetched)
    <3>1. s \in Storage!Fetched <=> torrent[s] = "ready"
      BY DEF StoresOpen, Storage!Fetched
    <3> QED
      BY <2>1, <3>1
  <2>4. Storage!Remove(s)
    BY <1>1, <2>1, <2>2, <2>3 DEF Storage!Remove
  <2> QED
    BY <2>4 DEF Storage!StoredNext
<1> QED
  BY <1>3, <1>4, <1>5

LEMMA RestartMoves ==
    ASSUME TypeOK, Restart
    PROVE  [Storage!StoredNext]_Storage!storedVars
<1>1. /\ torrent' = [s \in Sources |-> "absent"] /\ removing' = {} /\ lost' = disk
      /\ UNCHANGED <<size, disk>> /\ \E s \in Sources : torrent[s] # "absent"
  BY DEF Restart, records
<1>2. Recorded' = Recorded /\ Running # {} /\ Running' = {}
  BY <1>1 DEF Recorded, HasRecord, Running
<1>3. Storage!Crash
  BY <1>1, <1>2 DEF Storage!Crash
<1> QED
  BY <1>3 DEF Storage!StoredNext

(* A record keeps or changes its size; that moves nothing.                 *)
LEMMA SizesMove ==
    ASSUME TypeOK, NEW s \in Sources, size' = [size EXCEPT ![s] = PatchedSize(s)],
           UNCHANGED <<torrent, disk, removing, lost>>
    PROVE  UNCHANGED Storage!storedVars
<1>1. Length[s] # NoRecord
  OBVIOUS
<1>2. \A t \in Sources : HasRecord(t)' <=> HasRecord(t)
  BY <1>1 DEF HasRecord, PatchedSize, TypeOK, RecordsTyped
<1> QED
  BY <1>2, StorageUnmoved

LEMMA StorageStep == TypeOK /\ StoresOpen /\ [Next]_vars => [Storage!StoredNext]_Storage!storedVars
<1> SUFFICES ASSUME TypeOK, StoresOpen, [Next]_vars
             PROVE  [Storage!StoredNext]_Storage!storedVars
    OBVIOUS
<1>1. ASSUME NEW r \in Requests, Patch(r) PROVE UNCHANGED Storage!storedVars
  <2>1. task[r].source \in Sources
    BY <1>1, BusyTyped DEF Patch, Task, TypeOK
  <2>2. /\ size' = [size EXCEPT ![task[r].source] = PatchedSize(task[r].source)]
        /\ UNCHANGED <<torrent, disk, removing, lost>>
    BY <1>1 DEF Patch
  <2> QED
    BY <2>1, <2>2, SizesMove
<1>2. ASSUME NEW s \in Sources, Verified(s) PROVE UNCHANGED Storage!storedVars
  BY <1>2, SizesMove DEF Verified, client
<1>3. CASE UNCHANGED <<size, torrent, disk, removing, lost>>
  BY <1>3, StorageUnmoved DEF HasRecord
<1> QED
  BY <1>1, <1>2, <1>3, StarterMoves, CreatorMoves, EvictionMoves, ClientMoves, RestartMoves
     DEF Next, Cleanup, vars, records, client, StreamFile, FirstUsage, FindStalest, FindVictim,
         Recalculate, AddTimeout, Leave, Done

(* Storage keeps its promise for any sources, requests and sizes: however  *)
(* starts, evictions, failures and restarts interleave, each of them moves *)
(* record, torrent and data of a source as the promise has it              *)
(* (storage.service.ts:42-89, 157-179, download.service.ts:91-107).        *)
THEOREM StorageImplemented == Spec => ImplementsStoredSources
<1>1. Init => Storage!StoredInit
  BY DEF Init, Storage!StoredInit, Recorded, Running, HasRecord
<1> QED
  BY <1>1, InitTyped, TypeStep, StoresOpenStep, StorageStep, PTL
     DEF Spec, ImplementsStoredSources, Storage!StoredSpec
================================================================================
