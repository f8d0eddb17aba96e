---------------------------- MODULE StreamingProofs -----------------------------
(***************************************************************************)
(* Proofs about the way of a file to its reader: the chunk stores and the  *)
(* streams. For the stores, every length of the chunks, every number of    *)
(* files and every length of each: the files lie one after another, so a   *)
(* place of the torrent is a place of one file, and what is read of a      *)
(* chunk is joined of what each file holds of it. For the streams, every   *)
(* length of the file and every header.                                    *)
(***************************************************************************)
EXTENDS ChunkStore, Streaming,
        TLAPS, SequenceTheorems, WellFoundedInduction
--------------------------------------------------------------------------------
(* A set of natural numbers that is not empty has a least element.         *)
LEMMA LeastNatural ==
    ASSUME NEW S \in SUBSET Nat, S # {}
    PROVE  \E i \in S : \A j \in S : i <= j
<1> DEFINE R == OpToRel(<, Nat)
<1>1. IsWellFoundedOn(R, Nat)
  BY NatLessThanWellFounded
<1>2. R = {ss \in Nat \X Nat : ss[1] < ss[2]}
  BY DEF OpToRel
<1> HIDE DEF R
<1>3. PICK i \in S : \A j \in S : ~(<<j, i>> \in R)
  BY <1>1, WFMin, Zenon
<1>4. ASSUME NEW j \in S PROVE i <= j
  <2>1. <<j, i>> \in Nat \X Nat /\ <<j, i>>[1] = j /\ <<j, i>>[2] = i
    OBVIOUS
  <2>2. j < i => <<j, i>> \in R
    BY <1>2, <2>1
  <2> QED
    BY <1>3, <2>2
<1> QED
  BY <1>3, <1>4

(* What the constructor makes of its arguments.                            *)
LayoutOK ==
    /\ store.kind \in {"none", "plain", "encrypted"}
    /\ store.chunkLength \in Nat \ {0}
    /\ store.lengths \in Seq(Nat) /\ Len(store.lengths) \in 1..MaxFiles
    /\ \A f \in Files : PathOf(f) \in Paths

(* No two files are stored under one path.                                 *)
PathsDiffer == \A f, g \in Files : PathOf(f) = PathOf(g) => f = g

StoreOK == LayoutOK /\ PathsDiffer

(* The loops over files are recursive functions, which exist for every     *)
(* number of files.                                                        *)
StartsUpTo(s, lengths, n) ==
    s = [g \in 1..n |-> IF g = 1 THEN 0 ELSE s[g - 1] + lengths[g - 1]]

LEMMA StartsExist ==
    ASSUME NEW lengths, NEW n \in Nat, n >= 1
    PROVE  \E s : StartsUpTo(s, lengths, n)
<1>. DEFINE None == {k \in Nat : k >= 1 /\ ~\E s : StartsUpTo(s, lengths, k)}
<1>1. SUFFICES ASSUME None # {}
               PROVE  FALSE
  OBVIOUS
<1>2. PICK k \in None : \A j \in None : k <= j
  BY <1>1, LeastNatural, Zenon
<1>3. CASE k = 1
  <2>. DEFINE g == [i \in 1..1 |-> 0]
  <2>1. StartsUpTo(g, lengths, 1)
    <3>1. g = [i \in 1..1 |-> IF i = 1 THEN 0 ELSE g[i - 1] + lengths[i - 1]]
      OBVIOUS
    <3>. QED
      BY <3>1 DEF StartsUpTo
  <2>. QED
    BY <1>2, <1>3, <2>1
<1>4. CASE k # 1
  <2>1. k - 1 \in Nat /\ k - 1 >= 1 /\ k - 1 \notin None
    BY <1>2, <1>4
  <2>2. PICK s : StartsUpTo(s, lengths, k - 1)
    BY <2>1
  <2>. DEFINE g == [i \in 1..k |-> IF i < k THEN s[i] ELSE s[k - 1] + lengths[k - 1]]
  <2>3. s = [i \in 1..(k - 1) |-> IF i = 1 THEN 0 ELSE s[i - 1] + lengths[i - 1]]
    BY <2>2 DEF StartsUpTo
  <2>4. \A i \in 1..k : g[i] = IF i = 1 THEN 0 ELSE g[i - 1] + lengths[i - 1]
    <3>1. SUFFICES ASSUME NEW i \in 1..k
                   PROVE  g[i] = IF i = 1 THEN 0 ELSE g[i - 1] + lengths[i - 1]
      OBVIOUS
    <3>2. CASE i = 1
      <4>1. i < k /\ i \in 1..(k - 1)
        BY <2>1, <3>2
      <4>. QED
        BY <2>3, <3>2, <4>1
    <3>3. CASE i # 1 /\ i < k
      <4>1. i \in 1..(k - 1) /\ i - 1 \in 1..k /\ i - 1 < k
        BY <2>1, <3>3
      <4>2. s[i] = s[i - 1] + lengths[i - 1]
        BY <2>3, <3>3, <4>1
      <4>. QED
        BY <3>3, <4>1, <4>2
    <3>4. CASE i = k
      <4>1. k - 1 \in 1..k /\ k - 1 < k /\ ~(k < k)
        BY <2>1
      <4>. QED
        BY <1>4, <3>4, <4>1
    <3>. QED
      BY <1>2, <3>2, <3>3, <3>4
  <2>. HIDE DEF g
  <2>5. g = [i \in 1..k |-> g[i]]
    BY DEF g
  <2>6. StartsUpTo(g, lengths, k)
    BY <2>4, <2>5 DEF StartsUpTo
  <2>. QED
    BY <1>2, <2>6
<1>. QED
  BY <1>3, <1>4

(* Each file starts where the one before it ends.                          *)
LEMMA FilesFollow ==
    ASSUME StoreOK
    PROVE  /\ 1 \in Files /\ Len(store.lengths) \in Files /\ Len(store.lengths) \in Nat
           /\ \A f \in Files : store.lengths[f] \in Nat /\ f \in Nat /\ f >= 1
           /\ FileStart(1) = 0
           /\ \A f \in Files : f # 1 => f - 1 \in Files /\ FileStart(f) = FileEnd(f - 1)
           /\ \A f \in Files : FileStart(f) \in Nat /\ FileEnd(f) \in Nat /\ FileStart(f) <= FileEnd(f)
<1>. DEFINE n == Len(store.lengths)
            s == CHOOSE x : StartsUpTo(x, store.lengths, n)
<1>1. n \in Nat /\ n >= 1 /\ Files = 1..n
  BY LenProperties DEF StoreOK, LayoutOK, Files
<1>2. \A f \in Files : store.lengths[f] \in Nat /\ f \in Nat /\ f >= 1
  BY <1>1, ElementOfSeq DEF StoreOK, LayoutOK
<1>3. StartsUpTo(s, store.lengths, n)
  BY <1>1, StartsExist
<1>4. \A f : FileStart(f) = s[f]
  BY <1>1 DEF FileStart, StartsUpTo, Files
<1>5. s = [g \in 1..n |-> IF g = 1 THEN 0 ELSE s[g - 1] + store.lengths[g - 1]]
  BY <1>3 DEF StartsUpTo
<1>. HIDE DEF s, n
<1>6. s[1] = 0
  BY <1>1, <1>5
<1>7. \A f \in 1..n : f # 1 => f - 1 \in 1..n /\ s[f] = s[f - 1] + store.lengths[f - 1]
  BY <1>1, <1>5
<1>8. \A f \in Files : s[f] \in Nat
  <2>. DEFINE Bad == {f \in 1..n : s[f] \notin Nat}
  <2>1. SUFFICES ASSUME Bad # {}
                 PROVE  FALSE
    BY <1>1
  <2>2. Bad \in SUBSET Nat
    BY <1>1
  <2>3. PICK f \in Bad : \A g \in Bad : f <= g
    BY <2>1, <2>2, LeastNatural, Zenon
  <2>4. f # 1
    BY <1>6, <2>3
  <2>5. f - 1 \in 1..n /\ f - 1 \notin Bad
    BY <1>1, <2>3, <2>4
  <2>6. f \in 1..n /\ s[f] \notin Nat /\ s[f - 1] \in Nat
    BY <2>3, <2>5
  <2>7. store.lengths[f - 1] \in Nat
    BY <1>1, <1>2, <2>5
  <2>8. s[f] = s[f - 1] + store.lengths[f - 1]
    BY <1>7, <2>4, <2>6
  <2>. QED
    BY <2>6, <2>7, <2>8
<1>9. n = Len(store.lengths)
  BY DEF n
<1>. QED
  BY <1>1, <1>2, <1>4, <1>6, <1>7, <1>8, <1>9 DEF FileEnd

(* Files do not overlap, and end where the torrent ends at the latest.     *)
LEMMA FilesOrdered ==
    ASSUME StoreOK
    PROVE  /\ \A f, g \in Files : f < g => FileEnd(f) <= FileStart(g)
           /\ \A f \in Files : FileEnd(f) <= Length
           /\ Length \in Nat
<1>. DEFINE n == Len(store.lengths)
<1>1. Files = 1..n /\ n \in Nat /\ n >= 1
  BY FilesFollow DEF Files
<1>2. ASSUME NEW f \in Files, NEW h \in Files, f < h
      PROVE  FileEnd(f) <= FileStart(h)
  <2>. DEFINE Bad == {g \in 1..n : f < g /\ ~(FileEnd(f) <= FileStart(g))}
  <2>1. SUFFICES ASSUME Bad # {}
                 PROVE  FALSE
    BY <1>1, <1>2
  <2>2. Bad \in SUBSET Nat
    BY <1>1
  <2>3. PICK g \in Bad : \A k \in Bad : g <= k
    BY <2>1, <2>2, LeastNatural, Zenon
  <2>4. g \in Files /\ g # 1 /\ g \in Nat /\ f \in Nat
    BY <1>1, <2>3
  <2>5. g - 1 \in Files /\ FileStart(g) = FileEnd(g - 1) /\ g - 1 \notin Bad
    BY <1>1, <2>3, <2>4, FilesFollow
  <2>6. CASE g - 1 = f
    BY <2>3, <2>4, <2>5, <2>6, FilesFollow
  <2>7. CASE g - 1 # f
    <3>1. f < g - 1
      BY <2>3, <2>4, <2>7
    <3>2. FileEnd(f) <= FileStart(g - 1)
      BY <1>1, <2>5, <3>1
    <3>3. /\ FileEnd(f) \in Nat /\ FileStart(g - 1) \in Nat /\ FileEnd(g - 1) \in Nat
          /\ FileStart(g - 1) <= FileEnd(g - 1)
      BY <2>5, FilesFollow
    <3>. QED
      BY <2>3, <2>5, <3>2, <3>3
  <2>. QED
    BY <2>6, <2>7
<1>3. n \in Files /\ Length = FileEnd(n) /\ Length \in Nat
  BY FilesFollow DEF Length
<1>4. ASSUME NEW f \in Files
      PROVE  FileEnd(f) <= Length
  <2>1. CASE f = n
    BY <1>3, <2>1
  <2>2. CASE f # n
    <3>1. f < n
      BY <1>1, <2>2
    <3>2. FileEnd(f) <= FileStart(n) /\ FileStart(n) <= FileEnd(n)
      BY <1>2, <1>3, <3>1, FilesFollow
    <3>3. FileEnd(f) \in Nat /\ FileStart(n) \in Nat /\ FileEnd(n) \in Nat
      BY <1>3, FilesFollow
    <3>. QED
      BY <1>3, <3>2, <3>3
  <2>. QED
    BY <2>1, <2>2
<1>. QED
  BY <1>2, <1>3, <1>4

(* A quotient against a product.                                           *)
LEMMA QuotientIs ==
    ASSUME NEW a \in Int, NEW b \in Nat \ {0}, NEW p \in Int
    PROVE  /\ a \div b <= p <=> a < p * b + b
           /\ p <= a \div b <=> p * b <= a
<1>. DEFINE q == a \div b
            r == a % b
<1>1. q \in Int /\ r \in Int /\ 0 <= r /\ r < b /\ a = b * q + r
  OBVIOUS
<1>. HIDE DEF q, r
<1>2. CASE q <= p
  <2>1. b * q <= p * b
    BY <1>1, <1>2
  <2>2. a < p * b + b
    BY <1>1, <2>1
  <2>3. p <= q => q = p
    BY <1>1, <1>2
  <2>4. p * b <= a => p <= q
    <3>1. CASE q + 1 <= p
      <4>1. b * (q + 1) <= p * b
        BY <1>1, <3>1
      <4>2. b * (q + 1) = b * q + b
        BY <1>1
      <4>. QED
        BY <1>1, <4>1, <4>2
    <3>. QED
      BY <1>1, <3>1
  <2>5. q = p => p * b <= a
    BY <1>1
  <2>. QED
    BY <1>2, <2>2, <2>3, <2>4, <2>5 DEF q
<1>3. CASE p + 1 <= q
  <2>1. p * b + b <= b * q
    <3>1. (p + 1) * b <= b * q
      BY <1>1, <1>3
    <3>2. (p + 1) * b = p * b + b
      OBVIOUS
    <3>. QED
      BY <3>1, <3>2
  <2>2. p * b \in Int /\ b * q \in Int
    BY <1>1
  <2>3. p * b <= a /\ ~(a < p * b + b)
    BY <1>1, <2>1, <2>2
  <2>. QED
    BY <1>1, <1>3, <2>3 DEF q
<1>. QED
  BY <1>1, <1>2, <1>3

(* The place in the torrent where a chunk starts.                          *)
ChunkStart(p) == p * store.chunkLength

(* What a target says: the part of the chunk that lies in the file.        *)
TargetOf(p, f, t) ==
    /\ t.from \in Nat /\ t.to \in Nat /\ t.offset \in Nat
    /\ t.from <= t.to /\ t.to <= store.chunkLength
    /\ t.from = IF FileStart(f) < ChunkStart(p) THEN 0 ELSE FileStart(f) - ChunkStart(p)
    /\ t.to = IF FileEnd(f) > ChunkStart(p) + store.chunkLength
              THEN store.chunkLength ELSE FileEnd(f) - ChunkStart(p)
    /\ FileStart(f) + t.offset = ChunkStart(p) + t.from

LEMMA ChunksAre ==
    ASSUME StoreOK, NEW p \in Chunks
    PROVE  /\ p \in Nat /\ ChunkStart(p) \in Nat
           /\ LengthOf(p) \in Nat /\ LengthOf(p) >= 1 /\ LengthOf(p) <= store.chunkLength
           /\ ChunkStart(p) + LengthOf(p) <= Length
<1>1. Length \in Nat /\ store.chunkLength \in Nat \ {0}
  BY FilesOrdered DEF StoreOK, LayoutOK
<1>2. (Length - 1) \div store.chunkLength \in Int
  BY <1>1
<1>3. p \in Nat /\ p <= (Length - 1) \div store.chunkLength
  BY <1>2 DEF Chunks
<1>4. p * store.chunkLength \in Nat
  BY <1>1, <1>3
<1>5. p * store.chunkLength <= Length - 1
  <2>1. Length - 1 \in Int /\ p \in Int
    BY <1>1, <1>3
  <2>. QED
    BY <1>1, <1>3, <2>1, QuotientIs
<1>6. LengthOf(p) = IF Length - ChunkStart(p) < store.chunkLength
                    THEN Length - ChunkStart(p) ELSE store.chunkLength
  BY DEF LengthOf, ChunkStart
<1>7. ChunkStart(p) \in Nat /\ ChunkStart(p) <= Length - 1
  BY <1>4, <1>5 DEF ChunkStart
<1>. QED
  BY <1>1, <1>3, <1>6, <1>7

(* The files of a chunk are those with places in it, or between two.       *)
LEMMA MapIs ==
    ASSUME StoreOK, NEW p \in Nat, NEW f \in Files
    PROVE  f \in ChunkMap(p) <=> /\ FileStart(f) < ChunkStart(p) + store.chunkLength
                                 /\ FileEnd(f) > ChunkStart(p)
<1>1. FileStart(f) \in Int /\ FileEnd(f) \in Int /\ FileEnd(f) - 1 \in Int /\ p \in Int
  BY FilesFollow
<1>2. store.chunkLength \in Nat \ {0}
  BY DEF StoreOK, LayoutOK
<1>3. FileStart(f) \div store.chunkLength <= p <=> FileStart(f) < ChunkStart(p) + store.chunkLength
  BY <1>1, <1>2, QuotientIs DEF ChunkStart
<1>4. p <= (FileEnd(f) - 1) \div store.chunkLength <=> ChunkStart(p) <= FileEnd(f) - 1
  BY <1>1, <1>2, QuotientIs DEF ChunkStart
<1>5. ChunkStart(p) \in Int
  BY <1>1, <1>2 DEF ChunkStart
<1>6. ChunkStart(p) <= FileEnd(f) - 1 <=> FileEnd(f) > ChunkStart(p)
  BY <1>1, <1>5
<1>. QED
  BY <1>3, <1>4, <1>6 DEF ChunkMap

LEMMA TargetIs ==
    ASSUME StoreOK, NEW p \in Nat, NEW f \in Files, f \in ChunkMap(p)
    PROVE  TargetOf(p, f, Target(p, f))
<1>1. /\ FileStart(f) \in Nat /\ FileEnd(f) \in Nat /\ FileStart(f) <= FileEnd(f)
      /\ store.chunkLength \in Nat \ {0}
  BY FilesFollow DEF StoreOK, LayoutOK
<1>2. ChunkStart(p) \in Nat
  BY <1>1 DEF ChunkStart
<1>3. FileStart(f) < ChunkStart(p) + store.chunkLength /\ FileEnd(f) > ChunkStart(p)
  BY MapIs
<1>4. Target(p, f) =
        [from |-> IF FileStart(f) < ChunkStart(p) THEN 0 ELSE FileStart(f) - ChunkStart(p),
         to |-> IF FileEnd(f) > ChunkStart(p) + store.chunkLength
                THEN store.chunkLength ELSE FileEnd(f) - ChunkStart(p),
         offset |-> IF FileStart(f) > ChunkStart(p) THEN 0 ELSE ChunkStart(p) - FileStart(f)]
  BY DEF Target, ChunkStart
<1>. QED
  BY <1>1, <1>2, <1>3, <1>4 DEF TargetOf

(* What is joined of parts: with the place where each part ends, and what  *)
(* each place holds, the parts one after another are the places from the   *)
(* first to the last.                                                      *)
JoinedUpTo(f, parts, n) ==
    f = [i \in 0..n |-> IF i = 0 THEN <<>> ELSE f[i - 1] \o parts[i]]

LEMMA JoinedUpToExists ==
    ASSUME NEW parts, NEW n \in Nat
    PROVE  \E f : JoinedUpTo(f, parts, n)
<1>. DEFINE None == {k \in Nat : ~\E f : JoinedUpTo(f, parts, k)}
<1>1. SUFFICES ASSUME None # {}
               PROVE  FALSE
  OBVIOUS
<1>2. PICK k \in None : \A j \in None : k <= j
  BY <1>1, LeastNatural, Zenon
<1>3. CASE k = 0
  <2>. DEFINE g == [i \in 0..0 |-> <<>>]
  <2>1. g = [i \in 0..0 |-> IF i = 0 THEN <<>> ELSE g[i - 1] \o parts[i]]
    OBVIOUS
  <2>2. JoinedUpTo(g, parts, 0)
    BY <2>1 DEF JoinedUpTo
  <2>. QED
    BY <1>2, <1>3, <2>2
<1>4. CASE k # 0
  <2>1. k - 1 \in Nat /\ k - 1 \notin None
    BY <1>2, <1>4
  <2>2. PICK f : JoinedUpTo(f, parts, k - 1)
    BY <2>1
  <2>. DEFINE g == [i \in 0..k |-> IF i < k THEN f[i] ELSE f[k - 1] \o parts[k]]
  <2>3. f = [i \in 0..(k - 1) |-> IF i = 0 THEN <<>> ELSE f[i - 1] \o parts[i]]
    BY <2>2 DEF JoinedUpTo
  <2>4. \A i \in 0..k : g[i] = IF i = 0 THEN <<>> ELSE g[i - 1] \o parts[i]
    <3>1. SUFFICES ASSUME NEW i \in 0..k
                   PROVE  g[i] = IF i = 0 THEN <<>> ELSE g[i - 1] \o parts[i]
      OBVIOUS
    <3>2. CASE i < k
      <4>1. i \in 0..(k - 1) /\ (i # 0 => i - 1 \in 0..k /\ i - 1 < k)
        BY <1>2, <3>2
      <4>2. f[i] = IF i = 0 THEN <<>> ELSE f[i - 1] \o parts[i]
        BY <2>3, <4>1
      <4>. QED
        BY <3>2, <4>1, <4>2
    <3>3. CASE i = k
      <4>1. k - 1 \in 0..k /\ k - 1 < k /\ ~(k < k)
        BY <1>2, <2>1
      <4>. QED
        BY <1>4, <3>3, <4>1
    <3>. QED
      BY <1>2, <3>2, <3>3
  <2>. HIDE DEF g
  <2>5. g = [i \in 0..k |-> g[i]]
    BY DEF g
  <2>6. JoinedUpTo(g, parts, k)
    BY <2>4, <2>5 DEF JoinedUpTo
  <2>. QED
    BY <1>2, <2>6
<1>. QED
  BY <1>3, <1>4

Laid(parts, n, S, ends, places) ==
    /\ DOMAIN parts = 1..n /\ parts \in Seq(Seq(S)) /\ ends \in [0..n -> Nat]
    /\ \A i \in 1..n :
          /\ parts[i] \in Seq(S)
          /\ ends[i - 1] + Len(parts[i]) = ends[i]
          /\ \A k \in 1..Len(parts[i]) : parts[i][k] = places[ends[i - 1] + k]

LEMMA JoinedIs ==
    ASSUME NEW n \in Nat, NEW parts, NEW S, NEW ends, NEW places, Laid(parts, n, S, ends, places)
    PROVE  /\ Joined(parts) \in Seq(S)
           /\ ends[0] + Len(Joined(parts)) = ends[n]
           /\ \A k \in 1..Len(Joined(parts)) : Joined(parts)[k] = places[ends[0] + k]
<1>. DEFINE f == CHOOSE x : JoinedUpTo(x, parts, n)
            InPlace(i) == /\ f[i] \in Seq(S)
                       /\ ends[0] + Len(f[i]) = ends[i]
                       /\ \A k \in 1..Len(f[i]) : f[i][k] = places[ends[0] + k]
            Bad == {i \in 0..n : ~InPlace(i)}
<1>0. /\ DOMAIN parts = 1..n /\ parts \in Seq(Seq(S)) /\ ends \in [0..n -> Nat]
      /\ \A i \in 1..n :
            /\ parts[i] \in Seq(S)
            /\ ends[i - 1] + Len(parts[i]) = ends[i]
            /\ \A k \in 1..Len(parts[i]) : parts[i][k] = places[ends[i - 1] + k]
  BY DEF Laid
<1>1. JoinedUpTo(f, parts, n)
  BY JoinedUpToExists
<1>2. Len(parts) = n
  BY <1>0, LenProperties
<1>3. Joined(parts) = f[n]
  BY <1>2 DEF Joined, JoinedUpTo
<1>4. f = [i \in 0..n |-> IF i = 0 THEN <<>> ELSE f[i - 1] \o parts[i]]
  BY <1>1 DEF JoinedUpTo
<1>. HIDE DEF f
<1>5. Bad = {}
  <2>1. SUFFICES ASSUME Bad # {}
                 PROVE  FALSE
    OBVIOUS
  <2>2. Bad \in SUBSET Nat
    OBVIOUS
  <2>3. PICK i \in Bad : \A j \in Bad : i <= j
    BY <2>1, <2>2, LeastNatural, Zenon
  <2>4. CASE i = 0
    <3>1. f[0] = <<>>
      BY <1>4
    <3>2. f[0] \in Seq(S) /\ Len(f[0]) = 0 /\ ends[0] \in Nat
      BY <1>0, <3>1
    <3>3. InPlace(0)
      BY <3>2
    <3>. QED
      BY <2>3, <2>4, <3>3
  <2>5. CASE i # 0
    <3>0. i \in 0..n
      BY <2>3
    <3>1. i \in 1..n /\ i - 1 \in 0..n /\ i - 1 \notin Bad
      <4>. HIDE DEF Bad
      <4>. QED
        BY <2>3, <2>5, <3>0
    <3>2. InPlace(i - 1)
      BY <3>1
    <3>. DEFINE before == f[i - 1]
                part == parts[i]
    <3>3. f[i] = before \o part
      BY <1>4, <2>5, <3>1
    <3>4. /\ before \in Seq(S) /\ ends[0] + Len(before) = ends[i - 1]
          /\ \A k \in 1..Len(before) : before[k] = places[ends[0] + k]
      BY <3>2
    <3>5. /\ part \in Seq(S) /\ ends[i - 1] + Len(part) = ends[i]
          /\ \A k \in 1..Len(part) : part[k] = places[ends[i - 1] + k]
      BY <1>0, <3>1
    <3>6. ends[0] \in Nat /\ ends[i - 1] \in Nat /\ ends[i] \in Nat
      BY <1>0, <3>1
    <3>. HIDE DEF before, part
    <3>7. Len(before) \in Nat /\ Len(part) \in Nat
      BY <3>4, <3>5, LenProperties
    <3>8. /\ before \o part \in Seq(S) /\ Len(before \o part) = Len(before) + Len(part)
          /\ \A k \in 1..(Len(before) + Len(part)) :
                (before \o part)[k] = IF k <= Len(before) THEN before[k] ELSE part[k - Len(before)]
      BY <3>4, <3>5, ConcatProperties
    <3>9. ASSUME NEW k \in 1..(Len(before) + Len(part))
          PROVE  (before \o part)[k] = places[ends[0] + k]
      <4>1. CASE k <= Len(before)
        BY <3>4, <3>7, <3>8, <4>1
      <4>2. CASE ~(k <= Len(before))
        <5>1. k - Len(before) \in 1..Len(part)
          BY <3>7, <4>2
        <5>2. ends[i - 1] + (k - Len(before)) = ends[0] + k
          BY <3>4, <3>6, <3>7
        <5>3. part[k - Len(before)] = places[ends[i - 1] + (k - Len(before))]
          BY <3>5, <5>1
        <5>. QED
          BY <3>8, <3>9, <4>2, <5>2, <5>3
      <4>. QED
        BY <4>1, <4>2
    <3>10. ends[0] + (Len(before) + Len(part)) = ends[i]
      BY <3>4, <3>5, <3>6, <3>7
    <3>11. InPlace(i)
      BY <3>3, <3>8, <3>9, <3>10
    <3>. QED
      BY <2>3, <3>11
  <2>. QED
    BY <2>4, <2>5
<1>6. n \in 0..n
  OBVIOUS
<1>7. InPlace(n)
  BY <1>5, <1>6
<1>. QED
  BY <1>3, <1>7

(* A file holds its part of a chunk: every place of the torrent that lies  *)
(* in both was written as the chunk's.                                     *)
InBoth(p, f, x) ==
    /\ FileStart(f) <= x /\ x < FileEnd(f)
    /\ ChunkStart(p) <= x /\ x < ChunkStart(p) + store.chunkLength

Held(p, f) ==
    \A x \in Nat : InBoth(p, f, x) =>
        /\ x - FileStart(f) \in DOMAIN disk[PathOf(f)]
        /\ disk[PathOf(f)][x - FileStart(f)] = Encrypted(p, x - ChunkStart(p))

(* What is read of a file between two places of the torrent.               *)
Furthest(x, y) == IF x < y THEN y ELSE x
Nearest(x, y) == IF x < y THEN x ELSE y

Piece(f, a, b) ==
    IF FileStart(f) < b /\ FileEnd(f) > a
    THEN BytesAt(PathOf(f), Furthest(FileStart(f), a) - FileStart(f),
                 Nearest(FileEnd(f), b) - Furthest(FileStart(f), a))
    ELSE <<>>

CellsOf(p) == {Encrypted(p, x) : x \in Int}

LEMMA FilePieceIs ==
    ASSUME StoreOK, NEW p \in Chunks, NEW f \in Files, Held(p, f),
           NEW a \in Nat, NEW b \in Nat, a < b, ChunkStart(p) <= a,
           b <= ChunkStart(p) + store.chunkLength,
           FileStart(f) < b, FileEnd(f) > a
    PROVE  /\ Piece(f, a, b) \in Seq(CellsOf(p))
           /\ Furthest(FileStart(f), a) + Len(Piece(f, a, b)) = Nearest(FileEnd(f), b)
           /\ \A k \in 1..Len(Piece(f, a, b)) :
                 Piece(f, a, b)[k] = Encrypted(p, Furthest(FileStart(f), a) + k - 1 - ChunkStart(p))
<1>. DEFINE l == Nearest(FileEnd(f), b) - Furthest(FileStart(f), a)
            c == Furthest(FileStart(f), a)
            o == c - FileStart(f)
<1>1. /\ FileStart(f) \in Nat /\ FileEnd(f) \in Nat /\ FileStart(f) <= FileEnd(f)
      /\ ChunkStart(p) \in Nat /\ store.chunkLength \in Nat
  BY FilesFollow, ChunksAre DEF StoreOK, LayoutOK
<1>2. /\ c \in Nat /\ FileStart(f) <= c /\ a <= c /\ l \in Nat /\ c + l = Nearest(FileEnd(f), b)
      /\ c + l <= FileEnd(f) /\ c + l <= b
  BY <1>1 DEF Furthest, Nearest
<1>3. Piece(f, a, b) = [i \in 1..l |-> disk[PathOf(f)][o + i - 1]]
  BY DEF Piece, BytesAt
<1>. HIDE DEF l, c
<1>4. ASSUME NEW i \in 1..l
      PROVE  disk[PathOf(f)][o + i - 1] = Encrypted(p, c + i - 1 - ChunkStart(p))
  <2>. DEFINE x == c + i - 1
  <2>1. x \in Nat /\ c <= x /\ x < c + l
    BY <1>2
  <2>2. InBoth(p, f, x)
    BY <1>1, <1>2, <2>1 DEF InBoth
  <2>3. x - FileStart(f) = o + i - 1 /\ x - ChunkStart(p) = c + i - 1 - ChunkStart(p)
    BY <1>1, <1>2
  <2>. HIDE DEF x, o
  <2>4. disk[PathOf(f)][x - FileStart(f)] = Encrypted(p, x - ChunkStart(p))
    BY <2>1, <2>2 DEF Held
  <2>. QED
    BY <2>3, <2>4, Zenon
<1>5. \A i \in 1..l : disk[PathOf(f)][o + i - 1] \in CellsOf(p)
  <2>1. \A i \in 1..l : c + i - 1 - ChunkStart(p) \in Int
    BY <1>1, <1>2
  <2>. QED
    BY <1>4, <2>1 DEF CellsOf
<1>6. Piece(f, a, b) \in Seq(CellsOf(p)) /\ Len(Piece(f, a, b)) = l
  <2>. DEFINE piece == [i \in 1..l |-> disk[PathOf(f)][o + i - 1]]
  <2>1. piece \in [1..l -> CellsOf(p)]
    BY <1>5
  <2>. HIDE DEF piece
  <2>2. piece \in Seq(CellsOf(p)) /\ Len(piece) = l
    BY <1>2, <2>1
  <2>. QED
    BY <1>3, <2>2 DEF piece
<1>. QED
  BY <1>2, <1>3, <1>4, <1>6 DEF c

(* What the files give between two places of a chunk is what the chunk     *)
(* has between them.                                                       *)
LEMMA PiecesJoined ==
    ASSUME StoreOK, NEW p \in Chunks, \A f \in ChunkMap(p) : Held(p, f),
           NEW a \in Nat, NEW b \in Nat, a < b, ChunkStart(p) <= a,
           b <= ChunkStart(p) + LengthOf(p)
    PROVE  Joined([f \in Files |-> Piece(f, a, b)])
           = [k \in 1..(b - a) |-> Encrypted(p, a + k - 1 - ChunkStart(p))]
<1>. DEFINE n == Len(store.lengths)
            parts == [f \in Files |-> Piece(f, a, b)]
            Bounded(x) == IF x < a THEN a ELSE IF x > b THEN b ELSE x
            ends == [i \in 0..n |-> IF i = 0 THEN a ELSE Bounded(FileEnd(i))]
            places == [x \in Int |-> Encrypted(p, x - 1 - ChunkStart(p))]
            S == CellsOf(p)
<1>1. /\ n \in Nat /\ n >= 1 /\ Files = 1..n
      /\ \A f \in Files : FileStart(f) \in Nat /\ FileEnd(f) \in Nat /\ FileStart(f) <= FileEnd(f)
  BY FilesFollow DEF Files
<1>2. p \in Nat /\ ChunkStart(p) \in Nat /\ store.chunkLength \in Nat /\ LengthOf(p) \in Nat
      /\ b <= ChunkStart(p) + store.chunkLength /\ b <= Length /\ Length \in Nat
  BY ChunksAre, FilesOrdered DEF StoreOK, LayoutOK
<1>3. ends \in [0..n -> Nat] /\ ends[0] = a
  BY <1>1
<1>4. ends[n] = b
  <2>1. n \in 0..n /\ n # 0 /\ FileEnd(n) = Length
    BY <1>1 DEF Length
  <2>2. ends[n] = Bounded(Length)
    BY <2>1
  <2>. QED
    BY <1>2, <2>2
<1>5. \A f \in Files : ends[f] = Bounded(FileEnd(f))
  BY <1>1
<1>6. \A f \in Files : ends[f - 1] = Bounded(FileStart(f))
  <2>1. SUFFICES ASSUME NEW f \in Files
                 PROVE  ends[f - 1] = Bounded(FileStart(f))
    OBVIOUS
  <2>2. CASE f = 1
    <3>1. FileStart(f) = 0 /\ f - 1 = 0
      BY <2>2, FilesFollow
    <3>. QED
      BY <1>3, <3>1
  <2>3. CASE f # 1
    <3>1. f - 1 \in Files /\ FileStart(f) = FileEnd(f - 1)
      BY <2>3, FilesFollow
    <3>. QED
      BY <1>5, <3>1
  <2>. QED
    BY <2>2, <2>3
<1>. HIDE DEF ends
<1>7. \A x \in Int : places[x] = Encrypted(p, x - 1 - ChunkStart(p))
  OBVIOUS
<1>. HIDE DEF places
<1>8. ASSUME NEW f \in Files
      PROVE  /\ parts[f] \in Seq(S)
             /\ ends[f - 1] + Len(parts[f]) = ends[f]
             /\ \A k \in 1..Len(parts[f]) : parts[f][k] = places[ends[f - 1] + k]
  <2>0. parts[f] = Piece(f, a, b)
    OBVIOUS
  <2>1. CASE FileStart(f) < b /\ FileEnd(f) > a
    <3>1. f \in ChunkMap(p)
      <4>1. FileStart(f) < ChunkStart(p) + store.chunkLength /\ FileEnd(f) > ChunkStart(p)
        BY <1>1, <1>2, <2>1
      <4>. QED
        BY <1>2, <4>1, MapIs
    <3>2. Held(p, f)
      BY <3>1
    <3>3. /\ Piece(f, a, b) \in Seq(S)
          /\ Furthest(FileStart(f), a) + Len(Piece(f, a, b)) = Nearest(FileEnd(f), b)
          /\ \A k \in 1..Len(Piece(f, a, b)) :
                Piece(f, a, b)[k] = Encrypted(p, Furthest(FileStart(f), a) + k - 1 - ChunkStart(p))
      BY <1>2, <2>1, <3>2, FilePieceIs
    <3>4. Furthest(FileStart(f), a) = ends[f - 1] /\ Nearest(FileEnd(f), b) = ends[f]
      BY <1>1, <1>5, <1>6, <2>1 DEF Furthest, Nearest
    <3>5. ends[f - 1] \in Nat /\ ends[f] \in Nat
      BY <1>1, <1>5, <1>6
    <3>6. \A k \in 1..Len(Piece(f, a, b)) :
             places[ends[f - 1] + k] = Encrypted(p, ends[f - 1] + k - 1 - ChunkStart(p))
      <4>1. Len(Piece(f, a, b)) \in Nat
        BY <3>3, LenProperties
      <4>2. SUFFICES ASSUME NEW k \in 1..Len(Piece(f, a, b))
                     PROVE  places[ends[f - 1] + k] = Encrypted(p, ends[f - 1] + k - 1 - ChunkStart(p))
        OBVIOUS
      <4>. DEFINE x == ends[f - 1] + k
      <4>3. x \in Int /\ ends[f - 1] + k = x
        BY <3>5, <4>1
      <4>4. ends[f - 1] + k - 1 - ChunkStart(p) = x - 1 - ChunkStart(p)
        BY <1>2, <3>5, <4>1
      <4>. HIDE DEF x
      <4>5. places[x] = Encrypted(p, x - 1 - ChunkStart(p))
        BY <1>7, <4>3
      <4>. QED
        BY <4>3, <4>4, <4>5, Zenon
    <3>. QED
      BY <2>0, <3>3, <3>4, <3>6
  <2>2. CASE ~(FileStart(f) < b /\ FileEnd(f) > a)
    <3>1. parts[f] = <<>>
      BY <2>0, <2>2 DEF Piece
    <3>2. ends[f - 1] = ends[f] /\ ends[f] \in Nat
      BY <1>1, <1>5, <1>6, <2>2
    <3>3. <<>> \in Seq(S) /\ Len(<<>>) = 0
      OBVIOUS
    <3>. QED
      BY <3>1, <3>2, <3>3
  <2>. QED
    BY <2>1, <2>2
<1>9. DOMAIN parts = 1..n
  BY <1>1
<1>10. parts \in Seq(Seq(S))
  <2>1. parts \in [1..n -> Seq(S)]
    BY <1>1, <1>8
  <2>. HIDE DEF parts, n, S
  <2>. QED
    BY <1>1, <2>1, IsASeq
<1>. HIDE DEF parts, n, S
<1>8a. \A i \in 1..n :
          /\ parts[i] \in Seq(S)
          /\ ends[i - 1] + Len(parts[i]) = ends[i]
          /\ \A k \in 1..Len(parts[i]) : parts[i][k] = places[ends[i - 1] + k]
  BY <1>1, <1>8, Zenon
<1>11. /\ Joined(parts) \in Seq(S)
       /\ ends[0] + Len(Joined(parts)) = ends[n]
       /\ \A k \in 1..Len(Joined(parts)) : Joined(parts)[k] = places[ends[0] + k]
  <2>1. Laid(parts, n, S, ends, places)
    BY <1>3, <1>8a, <1>9, <1>10 DEF Laid
  <2>. QED
    BY <1>1, <2>1, JoinedIs
<1>12. Len(Joined(parts)) = b - a
  <2>1. Len(Joined(parts)) \in Nat
    BY <1>11, LenProperties
  <2>. QED
    BY <1>3, <1>4, <1>11, <2>1
<1>13. \A k \in 1..(b - a) : Joined(parts)[k] = Encrypted(p, a + k - 1 - ChunkStart(p))
  <2>1. SUFFICES ASSUME NEW k \in 1..(b - a)
                 PROVE  Joined(parts)[k] = Encrypted(p, a + k - 1 - ChunkStart(p))
    OBVIOUS
  <2>2. Joined(parts)[k] = places[a + k]
    BY <1>3, <1>11, <1>12
  <2>. DEFINE x == a + k
  <2>3. x \in Int /\ a + k = x
    OBVIOUS
  <2>4. a + k - 1 - ChunkStart(p) = x - 1 - ChunkStart(p)
    BY <1>2
  <2>. HIDE DEF x
  <2>5. places[x] = Encrypted(p, x - 1 - ChunkStart(p))
    BY <1>7, <2>3
  <2>. QED
    BY <2>2, <2>3, <2>4, <2>5, Zenon
<1>14. Joined(parts) = [k \in 1..(b - a) |-> Joined(parts)[k]]
  BY <1>11, <1>12
<1>15. Joined(parts) = [k \in 1..(b - a) |-> Encrypted(p, a + k - 1 - ChunkStart(p))]
  BY <1>13, <1>14
<1>. QED
  BY <1>15 DEF parts

(* The files a range of a chunk is read from.                              *)
RangeOK(p, from, to) ==
    p \in Chunks /\ from \in Nat /\ to \in Nat /\ from < to /\ to <= LengthOf(p)

LEMMA InRangeIs ==
    ASSUME StoreOK, NEW p, NEW from, NEW to, RangeOK(p, from, to), NEW f \in Files
    PROVE  f \in InRange(p, from, to) <=> /\ FileStart(f) < ChunkStart(p) + to
                                          /\ FileEnd(f) > ChunkStart(p) + from
<1>1. /\ p \in Chunks /\ p \in Nat /\ ChunkStart(p) \in Nat /\ LengthOf(p) \in Nat
      /\ LengthOf(p) <= store.chunkLength /\ store.chunkLength \in Nat
      /\ from \in Nat /\ to \in Nat /\ from < to /\ to <= LengthOf(p)
  BY ChunksAre DEF RangeOK, StoreOK, LayoutOK
<1>2. FileStart(f) \in Nat /\ FileEnd(f) \in Nat
  BY FilesFollow
<1>3. f \in InRange(p, from, to)
      <=> f \in ChunkMap(p) /\ Target(p, f).to > from /\ Target(p, f).from < to
  BY DEF InRange
<1>4. CASE f \in ChunkMap(p)
  <2>1. TargetOf(p, f, Target(p, f))
    BY <1>1, <1>4, TargetIs
  <2>. QED
    BY <1>1, <1>2, <1>3, <1>4, <2>1 DEF TargetOf
<1>5. CASE f \notin ChunkMap(p)
  <2>1. ~(FileStart(f) < ChunkStart(p) + store.chunkLength /\ FileEnd(f) > ChunkStart(p))
    BY <1>1, <1>5, MapIs
  <2>. QED
    BY <1>1, <1>2, <1>3, <1>5, <2>1
<1>. QED
  BY <1>4, <1>5

LEMMA FirstOfRange ==
    ASSUME StoreOK, NEW p, NEW from, NEW to, RangeOK(p, from, to)
    PROVE  \E g \in InRange(p, from, to) :
              /\ FirstFile(InRange(p, from, to)) = g
              /\ g \in Files /\ FileStart(g) <= ChunkStart(p) + from
              /\ \A h \in InRange(p, from, to) : g <= h
<1>. DEFINE n == Len(store.lengths)
            lo == ChunkStart(p) + from
            Ends == {f \in Files : FileEnd(f) > lo}
            files == InRange(p, from, to)
<1>1. /\ p \in Chunks /\ p \in Nat /\ ChunkStart(p) \in Nat /\ LengthOf(p) \in Nat
      /\ ChunkStart(p) + LengthOf(p) <= Length
      /\ from \in Nat /\ to \in Nat /\ from < to /\ to <= LengthOf(p)
  BY ChunksAre DEF RangeOK
<1>2. n \in Files /\ FileEnd(n) = Length /\ Length \in Nat /\ Files = 1..n /\ n \in Nat
  BY FilesFollow, FilesOrdered DEF Length, Files
<1>3. n \in Ends
  BY <1>1, <1>2
<1>4. Ends \in SUBSET Nat
  BY <1>2
<1>5. PICK g \in Ends : \A h \in Ends : g <= h
  BY <1>3, <1>4, LeastNatural, Zenon
<1>6. g \in Files /\ g \in Nat /\ FileStart(g) \in Nat /\ FileEnd(g) > lo
  BY <1>5, FilesFollow
<1>7. FileStart(g) <= lo
  <2>1. CASE g = 1
    BY <1>1, <2>1, FilesFollow
  <2>2. CASE g # 1
    <3>1. g - 1 \in Files /\ FileStart(g) = FileEnd(g - 1)
      BY <1>6, <2>2, FilesFollow
    <3>2. g - 1 \notin Ends
      BY <1>5, <1>6
    <3>. QED
      BY <1>1, <1>6, <3>1, <3>2
  <2>. QED
    BY <2>1, <2>2
<1>8. g \in files
  <2>1. FileStart(g) < ChunkStart(p) + to
    BY <1>1, <1>6, <1>7
  <2>. QED
    BY <1>6, <2>1, InRangeIs
<1>9. \A h \in files : h \in Files /\ h \in Nat /\ g <= h
  <2>1. SUFFICES ASSUME NEW h \in files
                 PROVE  h \in Files /\ h \in Nat /\ g <= h
    OBVIOUS
  <2>2. h \in Files
    BY <2>1 DEF InRange, ChunkMap
  <2>3. h \in Ends
    BY <2>1, <2>2, InRangeIs
  <2>. QED
    BY <1>2, <1>5, <2>2, <2>3
<1>. HIDE DEF files
<1>10. FirstFile(files) = g
  <2>. DEFINE c == CHOOSE f \in files : \A h \in files : f <= h
  <2>1. c \in files /\ \A h \in files : c <= h
    BY <1>8, <1>9
  <2>. HIDE DEF c
  <2>2. c <= g /\ g <= c /\ c \in Nat
    BY <1>8, <1>9, <2>1
  <2>3. c = g
    BY <1>6, <2>2
  <2>. QED
    BY <2>3 DEF FirstFile, c
<1>. QED
  BY <1>6, <1>7, <1>8, <1>9, <1>10 DEF files

(* Where the chunk is held, none of its files is too short to be read.     *)
LEMMA EnoughHeld ==
    ASSUME StoreOK, NEW p, NEW from, NEW to, RangeOK(p, from, to),
           NEW f \in InRange(p, from, to), Held(p, f)
    PROVE  LET t == Target(p, f) IN Readable(PathOf(f), t.offset, ReadTo(t, to) - t.from)
<1>. DEFINE t == Target(p, f)
            l == ReadTo(t, to) - t.from
<1>1. /\ p \in Chunks /\ p \in Nat /\ ChunkStart(p) \in Nat /\ LengthOf(p) \in Nat
      /\ LengthOf(p) <= store.chunkLength /\ store.chunkLength \in Nat
      /\ from \in Nat /\ to \in Nat /\ from < to /\ to <= LengthOf(p)
  BY ChunksAre DEF RangeOK, StoreOK, LayoutOK
<1>2. f \in Files /\ f \in ChunkMap(p)
  BY DEF InRange, ChunkMap
<1>3. FileStart(f) \in Nat /\ FileEnd(f) \in Nat
  BY <1>2, FilesFollow
<1>4. TargetOf(p, f, t) /\ t.from < to
  BY <1>1, <1>2, TargetIs DEF InRange
<1>. HIDE DEF t
<1>5. ASSUME NEW i \in t.offset..(t.offset + l - 1)
      PROVE  i \in DOMAIN disk[PathOf(f)]
  <2>1. l \in Nat /\ t.from + l <= t.to
    BY <1>1, <1>4 DEF TargetOf, ReadTo
  <2>. HIDE DEF l
  <2>2. i \in Nat /\ t.offset <= i /\ i < t.offset + l
    BY <1>4, <2>1 DEF TargetOf
  <2>. DEFINE x == FileStart(f) + i
  <2>3. x \in Nat /\ x - FileStart(f) = i
    BY <1>3, <2>2
  <2>4. ChunkStart(p) + t.from <= x /\ x < ChunkStart(p) + t.to
    BY <1>1, <1>3, <1>4, <2>1, <2>2 DEF TargetOf
  <2>. HIDE DEF x
  <2>4a. ChunkStart(p) + t.to <= FileEnd(f) /\ t.to \in Nat /\ t.to <= store.chunkLength
    BY <1>1, <1>3, <1>4 DEF TargetOf
  <2>4b. FileStart(f) <= ChunkStart(p) + t.from /\ t.from \in Nat
    BY <1>1, <1>3, <1>4 DEF TargetOf
  <2>4c. InBoth(p, f, x)
    BY <1>1, <1>3, <2>3, <2>4, <2>4a, <2>4b DEF InBoth
  <2>5. x - FileStart(f) \in DOMAIN disk[PathOf(f)]
    BY <2>3, <2>4c DEF Held
  <2>. QED
    BY <2>3, <2>5, Zenon
<1>6. Readable(PathOf(f), t.offset, l)
  BY <1>3, <1>5 DEF Readable
<1>. QED
  BY <1>6 DEF t

(* FSChunkStore reads what lies between the ends of the range.             *)
LEMMA RangeIsPieces ==
    ASSUME StoreOK, NEW p, NEW from, NEW to, RangeOK(p, from, to)
    PROVE  ReadRange(p, InRange(p, from, to), from, to)
           = Joined([f \in Files |-> Piece(f, ChunkStart(p) + from, ChunkStart(p) + to)])
<1>. DEFINE files == InRange(p, from, to)
            part(f) == BytesAt(PathOf(f),
                          Target(p, f).offset + ReadFrom(Target(p, f), from) - Target(p, f).from,
                          ReadTo(Target(p, f), to) - ReadFrom(Target(p, f), from))
            parts == [f \in Files |-> IF f \in files THEN part(f) ELSE <<>>]
<1>1. /\ p \in Chunks /\ p \in Nat /\ ChunkStart(p) \in Nat /\ LengthOf(p) \in Nat
      /\ LengthOf(p) <= store.chunkLength /\ store.chunkLength \in Nat
      /\ from \in Nat /\ to \in Nat /\ from < to /\ to <= LengthOf(p)
  BY ChunksAre DEF RangeOK, StoreOK, LayoutOK
<1>2. ReadRange(p, files, from, to) = Joined(parts)
  BY DEF ReadRange
<1>3. ASSUME NEW f \in Files
      PROVE  (IF f \in files THEN part(f) ELSE <<>>) = Piece(f, ChunkStart(p) + from, ChunkStart(p) + to)
  <2>1. f \in files <=> FileStart(f) < ChunkStart(p) + to /\ FileEnd(f) > ChunkStart(p) + from
    BY InRangeIs
  <2>2. CASE f \in files
    <3>. DEFINE t == Target(p, f)
                lo == ChunkStart(p) + from
                hi == ChunkStart(p) + to
    <3>1. f \in ChunkMap(p) /\ FileStart(f) < hi /\ FileEnd(f) > lo
      BY <2>1, <2>2 DEF InRange
    <3>2. TargetOf(p, f, t)
      BY <1>1, <3>1, TargetIs
    <3>3. FileStart(f) \in Nat /\ FileEnd(f) \in Nat
      BY FilesFollow
    <3>. HIDE DEF t
    <3>4a. /\ ChunkStart(p) + ReadFrom(t, from) = Furthest(FileStart(f), lo)
           /\ ReadFrom(t, from) \in Nat
      BY <1>1, <3>1, <3>2, <3>3 DEF TargetOf, ReadFrom, Furthest
    <3>5a. ChunkStart(p) + ReadTo(t, to) = Nearest(FileEnd(f), hi) /\ ReadTo(t, to) \in Nat
      BY <1>1, <3>1, <3>2, <3>3 DEF TargetOf, ReadTo, Nearest
    <3>. HIDE DEF lo, hi
    <3>4. t.offset + ReadFrom(t, from) - t.from = Furthest(FileStart(f), lo) - FileStart(f)
      BY <1>1, <3>2, <3>3, <3>4a DEF TargetOf
    <3>5. ReadTo(t, to) - ReadFrom(t, from) = Nearest(FileEnd(f), hi) - Furthest(FileStart(f), lo)
      BY <1>1, <3>4a, <3>5a
    <3>6. part(f) = BytesAt(PathOf(f), t.offset + ReadFrom(t, from) - t.from, ReadTo(t, to) - ReadFrom(t, from))
      BY <3>3 DEF t
    <3>7. Piece(f, lo, hi) = BytesAt(PathOf(f), Furthest(FileStart(f), lo) - FileStart(f),
                                     Nearest(FileEnd(f), hi) - Furthest(FileStart(f), lo))
      BY <3>1 DEF Piece
    <3>8. part(f) = Piece(f, lo, hi)
      <4>. HIDE DEF part, lo, hi
      <4>. QED
        BY <3>4, <3>5, <3>6, <3>7, Zenon
    <3>. QED
      BY <2>2, <3>8 DEF lo, hi
  <2>3. CASE f \notin files
    BY <2>1, <2>3 DEF Piece
  <2>. QED
    BY <2>2, <2>3
<1>4. parts = [f \in Files |-> Piece(f, ChunkStart(p) + from, ChunkStart(p) + to)]
  BY <1>3
<1>. QED
  BY <1>2, <1>4

(* EncryptedChunkStore reads from where the first file of the range enters *)
(* the chunk.                                                              *)
LEMMA FilesArePieces ==
    ASSUME StoreOK, NEW p, NEW from, NEW to, RangeOK(p, from, to),
           NEW g \in InRange(p, from, to), FileStart(g) <= ChunkStart(p) + from,
           \A h \in InRange(p, from, to) : g <= h
    PROVE  FilesOf(p, InRange(p, from, to), to)
           = Joined([f \in Files |-> Piece(f, ChunkStart(p) + Target(p, g).from, ChunkStart(p) + to)])
<1>. DEFINE files == InRange(p, from, to)
            lo == ChunkStart(p) + from
            hi == ChunkStart(p) + to
            a == ChunkStart(p) + Target(p, g).from
            part(f) == BytesAt(PathOf(f), Target(p, f).offset,
                               ReadTo(Target(p, f), to) - Target(p, f).from)
            parts == [f \in Files |-> IF f \in files THEN part(f) ELSE <<>>]
<1>1. /\ p \in Chunks /\ p \in Nat /\ ChunkStart(p) \in Nat /\ LengthOf(p) \in Nat
      /\ LengthOf(p) <= store.chunkLength /\ store.chunkLength \in Nat
      /\ from \in Nat /\ to \in Nat /\ from < to /\ to <= LengthOf(p)
  BY ChunksAre DEF RangeOK, StoreOK, LayoutOK
<1>2. FilesOf(p, files, to) = Joined(parts)
  BY DEF FilesOf
<1>3. g \in Files /\ g \in ChunkMap(p) /\ FileEnd(g) > lo
  <2>1. g \in Files /\ g \in ChunkMap(p)
    BY DEF InRange, ChunkMap
  <2>. QED
    BY <2>1, InRangeIs
<1>4. FileStart(g) \in Nat /\ FileEnd(g) \in Nat /\ g \in Nat
  BY <1>3, FilesFollow
<1>5. a \in Nat /\ FileStart(g) <= a /\ a <= lo /\ ChunkStart(p) <= a
      /\ (a = FileStart(g) \/ a = ChunkStart(p))
  <2>1. TargetOf(p, g, Target(p, g))
    BY <1>1, <1>3, TargetIs
  <2>. QED
    BY <1>1, <1>4, <2>1 DEF TargetOf
<1>6. lo \in Nat /\ hi \in Nat /\ lo < hi /\ hi <= ChunkStart(p) + store.chunkLength
  BY <1>1
<1>. HIDE DEF a
<1>7. ASSUME NEW f \in Files
      PROVE  (IF f \in files THEN part(f) ELSE <<>>) = Piece(f, a, hi)
  <2>1. f \in files <=> FileStart(f) < hi /\ FileEnd(f) > lo
    BY InRangeIs
  <2>2. FileStart(f) \in Nat /\ FileEnd(f) \in Nat /\ FileStart(f) <= FileEnd(f)
        /\ f \in Nat
    BY FilesFollow
  <2>3. CASE f \in files
    <3>. DEFINE t == Target(p, f)
    <3>1. f \in ChunkMap(p) /\ FileStart(f) < hi /\ FileEnd(f) > lo /\ g <= f
      BY <2>1, <2>3 DEF InRange
    <3>2. TargetOf(p, f, t)
      BY <1>1, <3>1, TargetIs
    <3>3. FileStart(g) <= FileStart(f)
      <4>1. CASE g = f
        BY <1>4, <4>1
      <4>2. CASE g # f
        <5>1. g < f
          BY <1>4, <2>2, <3>1, <4>2
        <5>2. FileEnd(g) <= FileStart(f)
          BY <1>3, <5>1, FilesOrdered
        <5>3. FileStart(g) <= FileEnd(g)
          BY <1>3, FilesFollow
        <5>. QED
          BY <1>4, <2>2, <5>2, <5>3
      <4>. QED
        BY <4>1, <4>2
    <3>. HIDE DEF t, lo
    <3>4. t.offset = Furthest(FileStart(f), a) - FileStart(f)
      BY <1>1, <1>4, <1>5, <2>2, <3>2, <3>3 DEF TargetOf, Furthest
    <3>5. ReadTo(t, to) - t.from = Nearest(FileEnd(f), hi) - Furthest(FileStart(f), a)
      <4>1. ChunkStart(p) + t.from = Furthest(FileStart(f), a)
        BY <1>1, <1>4, <1>5, <2>2, <3>2, <3>3 DEF TargetOf, Furthest
      <4>2. ChunkStart(p) + ReadTo(t, to) = Nearest(FileEnd(f), hi)
        BY <1>1, <1>6, <2>2, <3>1, <3>2 DEF TargetOf, ReadTo, Nearest
      <4>3. t.from \in Nat /\ ReadTo(t, to) \in Nat
        BY <1>1, <3>2 DEF TargetOf, ReadTo
      <4>. HIDE DEF hi
      <4>. QED
        BY <1>1, <4>1, <4>2, <4>3
    <3>6. part(f) = BytesAt(PathOf(f), t.offset, ReadTo(t, to) - t.from)
      BY <2>2 DEF t
    <3>7. FileEnd(f) > a
      BY <1>5, <1>6, <2>2, <3>1
    <3>8. Piece(f, a, hi) = BytesAt(PathOf(f), Furthest(FileStart(f), a) - FileStart(f),
                                    Nearest(FileEnd(f), hi) - Furthest(FileStart(f), a))
      BY <3>1, <3>7 DEF Piece
    <3>9. part(f) = Piece(f, a, hi)
      <4>. HIDE DEF part, hi
      <4>. QED
        BY <3>4, <3>5, <3>6, <3>8, Zenon
    <3>. QED
      BY <2>3, <3>9
  <2>4. CASE f \notin files
    <3>1. ~(FileStart(f) < hi /\ FileEnd(f) > a)
      <4>1. SUFFICES ASSUME FileStart(f) < hi, FileEnd(f) > a
                     PROVE  FALSE
        OBVIOUS
      <4>2. ~(FileEnd(f) > lo)
        BY <2>1, <2>4, <4>1
      <4>3. CASE f = g
        BY <2>4, <4>3
      <4>4. CASE f < g
        <5>1. FileEnd(f) <= FileStart(g)
          BY <1>3, <4>4, FilesOrdered
        <5>. QED
          BY <1>4, <1>5, <2>2, <4>1, <5>1
      <4>5. CASE g < f
        <5>1. FileEnd(g) <= FileStart(f)
          BY <1>3, <4>5, FilesOrdered
        <5>. QED
          BY <1>3, <1>4, <1>6, <2>2, <4>2, <5>1
      <4>. QED
        BY <1>4, <2>2, <4>3, <4>4, <4>5
    <3>. QED
      BY <2>4, <3>1 DEF Piece
  <2>. QED
    BY <2>3, <2>4
<1>8. parts = [f \in Files |-> Piece(f, a, hi)]
  BY <1>7
<1>. QED
  BY <1>2, <1>8 DEF a

(* A range of a chunk that its files hold is read as it was put.           *)
LEMMA DecryptedIs ==
    ASSUME NEW p, NEW at
    PROVE  store.kind = "encrypted" => Decrypted(p, at, Encrypted(p, at)) = Plain(p, at)
<1>1. SUFFICES ASSUME store.kind = "encrypted"
               PROVE  Decrypted(p, at, Encrypted(p, at)) = Plain(p, at)
  OBVIOUS
<1>2. Encrypted(p, at) = <<p, at, Plain(p, at)>>
  BY <1>1 DEF Encrypted
<1>3. /\ <<p, at, Plain(p, at)>>[1] = p /\ <<p, at, Plain(p, at)>>[2] = at
      /\ <<p, at, Plain(p, at)>>[3] = Plain(p, at)
  OBVIOUS
<1>. QED
  BY <1>2, <1>3 DEF Decrypted

LEMMA PlainRead ==
    ASSUME StoreOK, NEW p, NEW from, NEW to, RangeOK(p, from, to),
           \A f \in ChunkMap(p) : Held(p, f), store.kind = "plain"
    PROVE  ~closed => Get(p, from, to) = [i \in 1..(to - from) |-> Plain(p, from + i - 1)]
<1>. SUFFICES ASSUME ~closed
             PROVE  Get(p, from, to) = [i \in 1..(to - from) |-> Plain(p, from + i - 1)]
  OBVIOUS
<1>. DEFINE files == InRange(p, from, to)
            a == ChunkStart(p) + from
            b == ChunkStart(p) + to
<1>1. /\ p \in Chunks /\ p \in Nat /\ ChunkStart(p) \in Nat /\ LengthOf(p) \in Nat
      /\ from \in Nat /\ to \in Nat /\ from < to /\ to <= LengthOf(p)
  BY ChunksAre DEF RangeOK
<1>2. files # {} /\ files \subseteq ChunkMap(p)
  BY FirstOfRange DEF InRange
<1>3. \A f \in files :
         LET t == Target(p, f) IN Readable(PathOf(f), t.offset, ReadTo(t, to) - t.from)
  BY <1>2, EnoughHeld
<1>4. Get(p, from, to) = ReadRange(p, files, from, to)
  BY <1>2, <1>3 DEF Get
<1>5. ReadRange(p, files, from, to) = Joined([f \in Files |-> Piece(f, a, b)])
  BY RangeIsPieces
<1>6. /\ a \in Nat /\ b \in Nat /\ a < b /\ ChunkStart(p) <= a
      /\ b <= ChunkStart(p) + LengthOf(p) /\ b - a = to - from
  BY <1>1
<1>7. \A i : Encrypted(p, i) = Plain(p, i)
  BY DEF Encrypted
<1>8. \A k \in 1..(to - from) : a + k - 1 - ChunkStart(p) = from + k - 1
  BY <1>1
<1>. HIDE DEF a, b
<1>9. Joined([f \in Files |-> Piece(f, a, b)])
      = [k \in 1..(to - from) |-> Encrypted(p, a + k - 1 - ChunkStart(p))]
  <2>1. Joined([f \in Files |-> Piece(f, a, b)])
        = [k \in 1..(b - a) |-> Encrypted(p, a + k - 1 - ChunkStart(p))]
    BY <1>1, <1>6, PiecesJoined
  <2>. QED
    BY <1>6, <2>1
<1>10. ASSUME NEW k \in 1..(to - from)
       PROVE  Encrypted(p, a + k - 1 - ChunkStart(p)) = Plain(p, from + k - 1)
  <2>1. a + k - 1 - ChunkStart(p) = from + k - 1
    BY <1>8
  <2>2. Encrypted(p, from + k - 1) = Plain(p, from + k - 1)
    BY <1>7, Zenon
  <2>. QED
    BY <2>1, <2>2, Zenon
<1>11. [k \in 1..(to - from) |-> Encrypted(p, a + k - 1 - ChunkStart(p))]
       = [k \in 1..(to - from) |-> Plain(p, from + k - 1)]
  BY <1>10
<1>. QED
  BY <1>4, <1>5, <1>9, <1>11

LEMMA EncryptedRead ==
    ASSUME StoreOK, NEW p, NEW from, NEW to, RangeOK(p, from, to),
           \A f \in ChunkMap(p) : Held(p, f), store.kind = "encrypted"
    PROVE  ~closed => Get(p, from, to) = [i \in 1..(to - from) |-> Plain(p, from + i - 1)]
<1>. SUFFICES ASSUME ~closed
             PROVE  Get(p, from, to) = [i \in 1..(to - from) |-> Plain(p, from + i - 1)]
  OBVIOUS
<1>. DEFINE files == InRange(p, from, to)
<1>1. /\ p \in Chunks /\ p \in Nat /\ ChunkStart(p) \in Nat /\ LengthOf(p) \in Nat
      /\ from \in Nat /\ to \in Nat /\ from < to /\ to <= LengthOf(p)
  BY ChunksAre DEF RangeOK
<1>2. PICK g \in files :
         /\ FirstFile(files) = g /\ g \in Files /\ FileStart(g) <= ChunkStart(p) + from
         /\ \A h \in files : g <= h
  BY FirstOfRange
<1>3. \A f \in files :
         LET t == Target(p, f) IN Readable(PathOf(f), t.offset, ReadTo(t, to) - t.from)
  <2>1. files \subseteq ChunkMap(p)
    BY DEF InRange
  <2>. QED
    BY <2>1, EnoughHeld
<1>. DEFINE before == Target(p, g).from
            a == ChunkStart(p) + before
            b == ChunkStart(p) + to
            pad == [i \in 1..before |-> <<0, 0, Blank>>]
            rest == [k \in 1..(to - before) |-> Encrypted(p, before + k - 1)]
            chunk == pad \o rest
            clear == [i \in 1..Len(chunk) |-> Decrypted(p, i - 1, chunk[i])]
<1>4. before \in Nat /\ before <= from
  <2>1. g \in ChunkMap(p)
    BY DEF InRange
  <2>2. TargetOf(p, g, Target(p, g))
    BY <1>1, <1>2, <2>1, TargetIs
  <2>3. FileStart(g) \in Nat
    BY <1>2, FilesFollow
  <2>. QED
    BY <1>1, <1>2, <2>2, <2>3 DEF TargetOf
<1>5. Padding(p, files) = pad
  BY <1>2 DEF Padding
<1>6. FilesOf(p, files, to) = rest
  <2>1. FilesOf(p, files, to) = Joined([f \in Files |-> Piece(f, a, b)])
    BY <1>2, FilesArePieces
  <2>. HIDE DEF before
  <2>2. /\ a \in Nat /\ b \in Nat /\ a < b /\ ChunkStart(p) <= a
        /\ b <= ChunkStart(p) + LengthOf(p) /\ b - a = to - before
    BY <1>1, <1>4
  <2>3. \A k \in 1..(to - before) : a + k - 1 - ChunkStart(p) = before + k - 1
    BY <1>1, <1>4
  <2>. HIDE DEF a, b
  <2>4. Joined([f \in Files |-> Piece(f, a, b)])
        = [k \in 1..(to - before) |-> Encrypted(p, a + k - 1 - ChunkStart(p))]
    <3>1. Joined([f \in Files |-> Piece(f, a, b)])
          = [k \in 1..(b - a) |-> Encrypted(p, a + k - 1 - ChunkStart(p))]
      BY <1>1, <2>2, PiecesJoined
    <3>. QED
      BY <2>2, <3>1
  <2>5. ASSUME NEW k \in 1..(to - before)
        PROVE  Encrypted(p, a + k - 1 - ChunkStart(p)) = Encrypted(p, before + k - 1)
    BY <2>3, Zenon
  <2>. QED
    BY <2>1, <2>4, <2>5
<1>. HIDE DEF before
<1>7. Get(p, from, to) = SubSeq(clear, from + 1, to)
  <2>1. ReadTargets(p, files, to) = chunk
    BY <1>5, <1>6 DEF ReadTargets
  <2>. HIDE DEF chunk, files
  <2>2. files # {}
    BY <1>2
  <2>3. Get(p, from, to) = SubSeq([i \in 1..Len(chunk) |-> Decrypted(p, i - 1, chunk[i])], from + 1, to)
    BY <1>3, <2>1, <2>2 DEF Get, files
  <2>. QED
    BY <2>3
<1>8. /\ Len(chunk) = to
      /\ \A i \in (from + 1)..to : chunk[i] = Encrypted(p, i - 1)
  <2>. DEFINE S == CellsOf(p) \cup {<<0, 0, Blank>>}
              m == to - before
  <2>1. m \in Nat /\ before + m = to
    BY <1>1, <1>4
  <2>2. pad \in Seq(S) /\ Len(pad) = before
    <3>1. pad \in [1..before -> S]
      OBVIOUS
    <3>. HIDE DEF pad, S
    <3>. QED
      BY <1>4, <3>1
  <2>3. rest \in Seq(S) /\ Len(rest) = m
    <3>1. \A k \in 1..m : Encrypted(p, before + k - 1) \in S
      <4>1. \A k \in 1..m : before + k - 1 \in Int
        BY <1>4, <2>1
      <4>. QED
        BY <4>1 DEF CellsOf
    <3>2. rest \in [1..m -> S]
      BY <3>1
    <3>. HIDE DEF rest, S, m
    <3>. QED
      BY <2>1, <3>2
  <2>4. \A k \in 1..m : rest[k] = Encrypted(p, before + k - 1)
    OBVIOUS
  <2>. HIDE DEF pad, rest, S, m
  <2>5. /\ Len(chunk) = before + m
        /\ \A i \in 1..(before + m) :
              chunk[i] = IF i <= before THEN pad[i] ELSE rest[i - before]
    BY <2>2, <2>3, ConcatProperties
  <2>. HIDE DEF chunk
  <2>6. ASSUME NEW i \in (from + 1)..to
        PROVE  chunk[i] = Encrypted(p, i - 1)
    <3>1. i \in 1..(before + m) /\ ~(i <= before) /\ i - before \in 1..m
      BY <1>1, <1>4, <2>1
    <3>2. before + (i - before) - 1 = i - 1
      BY <1>4, <3>1
    <3>. DEFINE k == i - before
    <3>3. k \in 1..m /\ before + k - 1 = i - 1 /\ chunk[i] = rest[k]
      BY <2>5, <3>1, <3>2
    <3>. HIDE DEF k
    <3>4. rest[k] = Encrypted(p, before + k - 1)
      BY <2>4, <3>3
    <3>. QED
      BY <3>3, <3>4, Zenon
  <2>. QED
    BY <2>1, <2>5, <2>6
<1>. HIDE DEF chunk
<1>9. ASSUME NEW i \in (from + 1)..to
      PROVE  clear[i] = Plain(p, i - 1)
  <2>1. i \in 1..Len(chunk)
    BY <1>1, <1>8
  <2>2. clear[i] = Decrypted(p, i - 1, chunk[i])
    BY <2>1
  <2>3. chunk[i] = Encrypted(p, i - 1)
    BY <1>8
  <2>4. Decrypted(p, i - 1, Encrypted(p, i - 1)) = Plain(p, i - 1)
    BY DecryptedIs
  <2>. HIDE DEF clear
  <2>. QED
    BY <2>2, <2>3, <2>4, Zenon
<1>. HIDE DEF clear
<1>10. /\ SubSeq(clear, from + 1, to) \in Seq({clear[i] : i \in (from + 1)..to})
       /\ Len(SubSeq(clear, from + 1, to)) = to - from
       /\ \A i \in 1..(to - from) : SubSeq(clear, from + 1, to)[i] = clear[from + i]
  <2>. DEFINE S == {clear[i] : i \in (from + 1)..to}
              m == from + 1
  <2>1. m \in Int /\ to \in Int /\ \A i \in m..to : clear[i] \in S
    BY <1>1
  <2>. HIDE DEF S
  <2>2. /\ SubSeq(clear, m, to) \in Seq(S)
        /\ Len(SubSeq(clear, m, to)) = IF m <= to THEN to - m + 1 ELSE 0
        /\ \A i \in 1..(to - m + 1) : SubSeq(clear, m, to)[i] = clear[m + i - 1]
    <3>. HIDE DEF m
    <3>. QED
      BY <2>1, SubSeqProperties
  <2>3. m <= to /\ to - m + 1 = to - from
    BY <1>1
  <2>4. \A i \in 1..(to - from) : m + i - 1 = from + i
    BY <1>1
  <2>. QED
    BY <2>2, <2>3, <2>4 DEF S
<1>. DEFINE got == SubSeq(clear, from + 1, to)
<1>11. ASSUME NEW i \in 1..(to - from)
       PROVE  got[i] = Plain(p, from + i - 1)
  <2>. DEFINE j == from + i
  <2>1. j \in (from + 1)..to /\ from + i - 1 = j - 1 /\ got[i] = clear[j]
    BY <1>1, <1>10
  <2>. HIDE DEF j, got
  <2>2. clear[j] = Plain(p, j - 1)
    BY <1>9, <2>1
  <2>. QED
    BY <2>1, <2>2, Zenon
<1>12. got = [i \in 1..(to - from) |-> got[i]]
  <2>. HIDE DEF got
  <2>. QED
    BY <1>10 DEF got
<1>. QED
  BY <1>7, <1>11, <1>12

(* The types of the stores, whatever the names of the files are.           *)
StoresOK ==
    /\ ChTypeOK
    /\ DOMAIN disk = Paths
    /\ store.kind = "none" => store = NoStore /\ whole = {} /\ puts = {}
    /\ puts \subseteq [chunk : Chunks, left : SUBSET Files, failed : BOOLEAN]

LEMMA LayoutKept ==
    ASSUME UNCHANGED store
    PROVE  /\ Files' = Files /\ Length' = Length /\ Chunks' = Chunks
           /\ \A f : FileStart(f)' = FileStart(f) /\ FileEnd(f)' = FileEnd(f) /\ PathOf(f)' = PathOf(f)
           /\ \A p : ChunkMap(p)' = ChunkMap(p)
BY DEF FileStart, FileEnd, Files, Length, Chunks, PathOf, ChunkMap

LEMMA StoresInit == ChInit => StoresOK
<1>1. SUFFICES ASSUME ChInit
               PROVE  StoresOK
  OBVIOUS
<1>2. store = NoStore /\ puts = {} /\ whole = {} /\ closed = FALSE /\ store.kind = "none"
      /\ DOMAIN disk = Paths
  BY <1>1 DEF ChInit, NoStore
<1>. QED
  BY <1>2 DEF StoresOK, ChTypeOK

LEMMA StoresStep == StoresOK /\ [ChNext]_chunkStoreVars => StoresOK'
<1>1. SUFFICES ASSUME StoresOK, [ChNext]_chunkStoreVars
               PROVE  StoresOK'
  OBVIOUS
<1>2. CASE Create
  <2>1. puts = {} /\ whole = {}
    BY <1>1, <1>2 DEF Create, StoresOK, NoStore
  <2>2. store'.kind \in {"plain", "encrypted"}
    BY <1>2 DEF Create
  <2>3. DOMAIN disk' = Paths /\ puts' = {} /\ whole' = {} /\ closed' = closed
    BY <1>2, <2>1 DEF Create
  <2>. QED
    BY <1>1, <2>2, <2>3 DEF StoresOK, ChTypeOK
<1>3. CASE \E p \in Chunks : Put(p)
  <2>1. PICK p \in Chunks : Put(p)
    BY <1>3
  <2>2. store # NoStore /\ UNCHANGED <<store, disk, closed>>
        /\ puts' = puts \cup {[chunk |-> p, left |-> ChunkMap(p), failed |-> FALSE]}
        /\ whole' = whole \ {p}
    BY <2>1 DEF Put
  <2>3. Files' = Files /\ Chunks' = Chunks /\ \A q : ChunkMap(q)' = ChunkMap(q)
    BY <2>2, LayoutKept
  <2>4. store.kind # "none"
    BY <1>1, <2>2 DEF StoresOK
  <2>5. ChunkMap(p) \subseteq Files
    BY DEF ChunkMap
  <2>6. puts' \subseteq [chunk : Chunks, left : SUBSET Files, failed : BOOLEAN]
    <3>1. [chunk |-> p, left |-> ChunkMap(p), failed |-> FALSE]
          \in [chunk : Chunks, left : SUBSET Files, failed : BOOLEAN]
      BY <2>5
    <3>. QED
      BY <1>1, <2>2, <3>1 DEF StoresOK
  <2>7. \A u \in puts' : u.chunk \in Chunks /\ u.left \subseteq ChunkMap(u.chunk)
    BY <1>1, <2>2 DEF StoresOK, ChTypeOK
  <2>. QED
    BY <1>1, <2>2, <2>3, <2>4, <2>6, <2>7 DEF StoresOK, ChTypeOK
<1>4. ASSUME NEW u \in puts, NEW f \in u.left, Write(u, f) \/ WriteFails(u, f)
      PROVE  StoresOK'
  <2>1. PICK b \in BOOLEAN : puts' = (puts \ {u}) \cup {[u EXCEPT !.left = @ \ {f}, !.failed = b]}
    <3>0. u \in [chunk : Chunks, left : SUBSET Files, failed : BOOLEAN]
      BY <1>1 DEF StoresOK
    <3>1. CASE Write(u, f)
      <4>1. [u EXCEPT !.left = @ \ {f}] = [u EXCEPT !.left = @ \ {f}, !.failed = u.failed]
        BY <3>0
      <4>. QED
        BY <3>0, <3>1, <4>1 DEF Write
    <3>2. CASE WriteFails(u, f)
      BY <3>2 DEF WriteFails
    <3>. QED
      BY <1>4, <3>1, <3>2
  <2>2. UNCHANGED <<store, whole, closed>> /\ DOMAIN disk' = DOMAIN disk
    BY <1>4 DEF Write, WriteFails
  <2>3. Files' = Files /\ Chunks' = Chunks /\ \A q : ChunkMap(q)' = ChunkMap(q)
    BY <2>2, LayoutKept
  <2>. DEFINE w == [u EXCEPT !.left = @ \ {f}, !.failed = b]
  <2>4. /\ w \in [chunk : Chunks, left : SUBSET Files, failed : BOOLEAN]
        /\ w.chunk = u.chunk /\ w.left \subseteq u.left
    BY <1>1 DEF StoresOK
  <2>. HIDE DEF w
  <2>5. puts' \subseteq [chunk : Chunks, left : SUBSET Files, failed : BOOLEAN]
    BY <1>1, <2>1, <2>4 DEF StoresOK, w
  <2>6. \A v \in puts' : v.chunk \in Chunks /\ v.left \subseteq ChunkMap(v.chunk)
    <3>1. u.chunk \in Chunks /\ u.left \subseteq ChunkMap(u.chunk)
      BY <1>1 DEF StoresOK, ChTypeOK
    <3>2. \A v \in puts' : v = w \/ v \in puts
      BY <2>1 DEF w
    <3>. QED
      BY <1>1, <2>4, <3>1, <3>2 DEF StoresOK, ChTypeOK
  <2>7. store.kind # "none"
    BY <1>1 DEF StoresOK
  <2>. QED
    BY <1>1, <2>2, <2>3, <2>5, <2>6, <2>7 DEF StoresOK, ChTypeOK
<1>5. CASE \E u \in puts : PutEnds(u)
  <2>1. PICK u \in puts : PutEnds(u)
    BY <1>5
  <2>2. UNCHANGED <<store, disk, closed>> /\ puts' = puts \ {u}
        /\ whole' \subseteq whole \cup {u.chunk}
    BY <2>1 DEF PutEnds
  <2>3. Files' = Files /\ Chunks' = Chunks /\ \A q : ChunkMap(q)' = ChunkMap(q)
    BY <2>2, LayoutKept
  <2>4. u.chunk \in Chunks /\ store.kind # "none"
    BY <1>1 DEF StoresOK, ChTypeOK
  <2>. QED
    BY <1>1, <2>2, <2>3, <2>4 DEF StoresOK, ChTypeOK
<1>6. CASE CloseStore
  <2>1. UNCHANGED <<store, disk, puts, whole>> /\ closed' = TRUE
    BY <1>6 DEF CloseStore
  <2>2. Files' = Files /\ Chunks' = Chunks /\ \A q : ChunkMap(q)' = ChunkMap(q)
    BY <2>1, LayoutKept
  <2>. QED
    BY <1>1, <2>1, <2>2 DEF StoresOK, ChTypeOK
<1>7. CASE DestroyStore
  <2>1. store' = NoStore /\ store'.kind = "none" /\ puts' = {} /\ whole' = {} /\ closed' = FALSE
        /\ DOMAIN disk' = Paths
    BY <1>7 DEF DestroyStore, NoStore
  <2>. QED
    BY <2>1 DEF StoresOK, ChTypeOK
<1>8. CASE UNCHANGED chunkStoreVars
  <2>1. UNCHANGED <<store, disk, puts, whole, closed>>
    BY <1>8 DEF chunkStoreVars
  <2>2. Files' = Files /\ Chunks' = Chunks /\ \A q : ChunkMap(q)' = ChunkMap(q)
    BY <2>1, LayoutKept
  <2>. QED
    BY <1>1, <2>1, <2>2 DEF StoresOK, ChTypeOK
<1>. QED
  BY <1>1, <1>2, <1>3, <1>4, <1>5, <1>6, <1>7, <1>8 DEF ChNext

(* The inductive invariant: unless two files share a path, the files of a  *)
(* whole chunk hold it, and those a put has written hold its chunk.        *)
Kept ==
    /\ \A p \in whole : \A f \in ChunkMap(p) : Held(p, f)
    /\ \A u \in puts : ~u.failed => \A f \in ChunkMap(u.chunk) \ u.left : Held(u.chunk, f)

ChunkInv ==
    /\ StoresOK /\ LayoutOK
    /\ \A u \in puts : u.chunk \notin whole
    /\ \A u, v \in puts : u.chunk = v.chunk => u = v
    /\ PathsDiffer => Kept

LEMMA ChunksApart ==
    ASSUME StoreOK, NEW p \in Nat, NEW q \in Nat, p # q, NEW x \in Int,
           ChunkStart(p) <= x, x < ChunkStart(p) + store.chunkLength,
           ChunkStart(q) <= x, x < ChunkStart(q) + store.chunkLength
    PROVE  FALSE
<1>1. store.chunkLength \in Nat \ {0} /\ p \in Int /\ q \in Int
  BY DEF StoreOK, LayoutOK
<1>2. p <= x \div store.chunkLength /\ x \div store.chunkLength <= p
  BY <1>1, QuotientIs DEF ChunkStart
<1>3. q <= x \div store.chunkLength /\ x \div store.chunkLength <= q
  BY <1>1, QuotientIs DEF ChunkStart
<1>4. x \div store.chunkLength \in Int
  BY <1>1
<1>. QED
  BY <1>1, <1>2, <1>3, <1>4

LEMMA HeldNext ==
    ASSUME UNCHANGED store, NEW p, NEW f
    PROVE  Held(p, f)' <=> \A x \in Nat : InBoth(p, f, x) =>
                             /\ x - FileStart(f) \in DOMAIN disk'[PathOf(f)]
                             /\ disk'[PathOf(f)][x - FileStart(f)] = Encrypted(p, x - ChunkStart(p))
<1>1. FileStart(f)' = FileStart(f) /\ FileEnd(f)' = FileEnd(f) /\ PathOf(f)' = PathOf(f)
  BY LayoutKept
<1>2. ChunkStart(p)' = ChunkStart(p) /\ \A x : InBoth(p, f, x)' <=> InBoth(p, f, x)
  BY <1>1 DEF ChunkStart, InBoth
<1>3. \A x : (Encrypted(p, x - ChunkStart(p)))' = Encrypted(p, x - ChunkStart(p))
  BY DEF Encrypted, Plain, ChunkStart
<1>4. \A x : (x - FileStart(f))' = x - FileStart(f)
  BY <1>1, Zenon
<1>5. disk'[PathOf(f)'] = disk'[PathOf(f)]
  BY <1>1, Zenon
<1>6. Held(p, f)' <=> \A x \in Nat : InBoth(p, f, x)' =>
                        /\ (x - FileStart(f))' \in DOMAIN disk'[PathOf(f)']
                        /\ disk'[PathOf(f)'][(x - FileStart(f))'] = (Encrypted(p, x - ChunkStart(p)))'
  BY DEF Held
<1>. QED
  BY <1>2, <1>3, <1>4, <1>5, <1>6

(* A write leaves its file with its part of the chunk, and takes no other  *)
(* chunk from it.                                                          *)
LEMMA WriteHolds ==
    ASSUME StoresOK, StoreOK, NEW u \in puts, NEW f \in u.left, Write(u, f)
    PROVE  /\ Held(u.chunk, f)'
           /\ \A q \in Chunks, g \in Files :
                 Held(q, g) /\ (q # u.chunk \/ g # f) => Held(q, g)'
<1>. DEFINE p == u.chunk
            t == Target(p, f)
            path == PathOf(f)
            written == t.offset..(t.offset + t.to - t.from - 1)
            new == [b \in DOMAIN disk[path] \cup written |->
                       IF b \in written THEN Encrypted(p, t.from + b - t.offset) ELSE disk[path][b]]
<1>1. p \in Chunks /\ p \in Nat /\ f \in ChunkMap(p) /\ f \in Files /\ ChunkStart(p) \in Nat
  <2>1. p \in Chunks /\ f \in ChunkMap(p)
    BY DEF StoresOK, ChTypeOK
  <2>. QED
    BY <2>1, ChunksAre DEF ChunkMap
<1>2. /\ TargetOf(p, f, t) /\ path \in Paths
      /\ FileStart(f) \in Nat /\ FileEnd(f) \in Nat
  <2>1. path \in Paths
    BY <1>1 DEF StoreOK, LayoutOK
  <2>. QED
    BY <1>1, <2>1, TargetIs, FilesFollow
<1>3. UNCHANGED store
  BY DEF Write
<1>. HIDE DEF t, path
<1>4. disk' = [disk EXCEPT ![path] = new]
  <2>1. disk' = [disk EXCEPT ![PathOf(f)] =
              [b \in DOMAIN @ \cup written |->
                  IF b \in written THEN Encrypted(p, t.from + b - t.offset) ELSE @[b]]]
    BY DEF Write, t
  <2>. QED
    BY <2>1 DEF path
<1>5. disk'[path] = new /\ \A g : g # path /\ g \in Paths => disk'[g] = disk[g]
  <2>. HIDE DEF new
  <2>. QED
    BY <1>2, <1>4 DEF StoresOK
<1>6. /\ DOMAIN new = DOMAIN disk[path] \cup written
      /\ \A b \in DOMAIN new :
            new[b] = IF b \in written THEN Encrypted(p, t.from + b - t.offset) ELSE disk[path][b]
  BY DEF new
<1>7. store.chunkLength \in Nat
  BY DEF StoreOK, LayoutOK
<1>. HIDE DEF new
<1>8. ASSUME NEW x \in Nat, InBoth(p, f, x)
      PROVE  /\ x - FileStart(f) \in DOMAIN new
             /\ new[x - FileStart(f)] = Encrypted(p, x - ChunkStart(p))
  <2>. DEFINE b == x - FileStart(f)
  <2>1. t.offset <= b /\ b <= t.offset + t.to - t.from - 1 /\ t.offset \in Nat
        /\ t.offset + t.to - t.from - 1 \in Int /\ b \in Int
    BY <1>1, <1>2, <1>7, <1>8 DEF InBoth, TargetOf
  <2>2. b \in written
    BY <2>1
  <2>3. t.from + b - t.offset = x - ChunkStart(p)
    BY <1>1, <1>2 DEF TargetOf
  <2>. HIDE DEF b, written
  <2>4. b \in DOMAIN new /\ new[b] = Encrypted(p, t.from + b - t.offset)
    BY <1>6, <2>2
  <2>5. Encrypted(p, t.from + b - t.offset) = Encrypted(p, x - ChunkStart(p))
    BY <2>3, Zenon
  <2>. QED
    BY <2>4, <2>5 DEF b
<1>9. Held(p, f)'
  <2>1. \A x \in Nat : InBoth(p, f, x) =>
           /\ x - FileStart(f) \in DOMAIN disk'[PathOf(f)]
           /\ disk'[PathOf(f)][x - FileStart(f)] = Encrypted(p, x - ChunkStart(p))
    BY <1>5, <1>8 DEF path
  <2>. HIDE DEF p
  <2>. QED
    BY <1>3, <2>1, HeldNext
<1>10. ASSUME NEW q \in Chunks, NEW g \in Files, Held(q, g), q # p \/ g # f
       PROVE  Held(q, g)'
  <2>1. q \in Nat /\ PathOf(g) \in Paths /\ (g # f => PathOf(g) # path)
    <3>1. PathOf(g) \in Paths /\ (g # f => PathOf(g) # path)
      BY <1>1 DEF StoreOK, LayoutOK, PathsDiffer, path
    <3>. QED
      BY <3>1, ChunksAre
  <2>2. ASSUME NEW x \in Nat, InBoth(q, g, x)
        PROVE  /\ x - FileStart(g) \in DOMAIN disk'[PathOf(g)]
               /\ disk'[PathOf(g)][x - FileStart(g)] = Encrypted(q, x - ChunkStart(q))
    <3>1. /\ x - FileStart(g) \in DOMAIN disk[PathOf(g)]
          /\ disk[PathOf(g)][x - FileStart(g)] = Encrypted(q, x - ChunkStart(q))
      BY <1>10, <2>2 DEF Held
    <3>2. CASE g # f
      BY <1>5, <2>1, <3>1, <3>2
    <3>3. CASE g = f
      <4>. DEFINE b == x - FileStart(f)
      <4>1. b \notin written
        <5>1. SUFFICES ASSUME b \in written
                       PROVE  FALSE
          OBVIOUS
        <5>2. ChunkStart(p) <= x /\ x < ChunkStart(p) + store.chunkLength
          BY <1>1, <1>2, <1>7, <5>1 DEF TargetOf
        <5>3. ChunkStart(q) <= x /\ x < ChunkStart(q) + store.chunkLength
          BY <2>2 DEF InBoth
        <5>4. q # p /\ x \in Int
          BY <1>10, <3>3
        <5>. QED
          BY <1>1, <2>1, <5>2, <5>3, <5>4, ChunksApart
      <4>2. b \in DOMAIN disk[path] /\ disk[path][b] = Encrypted(q, x - ChunkStart(q))
        BY <3>1, <3>3 DEF path
      <4>. HIDE DEF b, written
      <4>3. b \in DOMAIN new /\ new[b] = disk[path][b]
        BY <1>6, <4>1, <4>2
      <4>. QED
        BY <1>5, <3>3, <4>2, <4>3 DEF b, path
    <3>. QED
      BY <3>2, <3>3
  <2>. QED
    BY <1>3, <2>2, HeldNext
<1>. QED
  BY <1>9, <1>10

LEMMA FunctionIsSeq ==
    ASSUME NEW n \in Nat, NEW T, NEW s \in [1..n -> T]
    PROVE  s \in Seq(T) /\ Len(s) = n
OBVIOUS

(* What is said of the layout, of a record of the arguments alone.         *)
Arguments(s) ==
    /\ s.kind \in {"none", "plain", "encrypted"} /\ s.chunkLength \in Nat \ {0}
    /\ s.lengths \in Seq(Nat) /\ Len(s.lengths) \in 1..MaxFiles
    /\ \A f \in 1..Len(s.lengths) : s.names[f] \in FileNames(MaxFiles)

LEMMA NoArguments == Arguments(NoStore)
<1>1. <<0>> \in Seq(Nat) /\ Len(<<0>>) = 1 /\ MaxFiles \in Nat /\ 1 \in 1..MaxFiles
  BY ChunkStoreAssumption
<1>2. /\ NoStore.kind = "none" /\ NoStore.chunkLength = 1
      /\ NoStore.lengths = <<0>> /\ NoStore.names = <<OwnName(1)>>
  BY DEF NoStore
<1>3. \A f \in 1..Len(<<0>>) : f = 1 /\ <<OwnName(1)>>[f] = OwnName(1)
  BY <1>1
<1>4. OwnName(1) \in FileNames(MaxFiles)
  BY <1>1 DEF OwnName, FileNames
<1>. QED
  BY <1>1, <1>2, <1>3, <1>4 DEF Arguments

LEMMA LayoutFrom ==
    ASSUME NEW s, Arguments(s)
    PROVE  (store = s => LayoutOK) /\ (store' = s => LayoutOK')
<1>. DEFINE path(name) ==
               IF s.kind = "encrypted" THEN <<name.base, name.reserved>> ELSE <<name.dir, name.base>>
<1>1. \A name \in FileNames(MaxFiles) : path(name) \in Paths
  BY ChunkStoreAssumption DEF FileNames, Paths
<1>2. \A f \in 1..Len(s.lengths) : path(s.names[f]) \in Paths
  BY <1>1 DEF Arguments
<1>3. store = s => LayoutOK
  BY <1>2 DEF Arguments, LayoutOK, Files, PathOf
<1>4. store' = s => LayoutOK'
  BY <1>2 DEF Arguments, LayoutOK, Files, PathOf
<1>. QED
  BY <1>3, <1>4

LEMMA NoLayout == (store = NoStore => LayoutOK) /\ (store' = NoStore => LayoutOK')
BY NoArguments, LayoutFrom

LEMMA ChunkInvInit == ChInit => ChunkInv
<1>1. SUFFICES ASSUME ChInit
               PROVE  ChunkInv
  OBVIOUS
<1>2. store = NoStore /\ puts = {} /\ whole = {}
  BY <1>1 DEF ChInit
<1>3. StoresOK
  BY <1>1, StoresInit
<1>4. LayoutOK
  BY <1>2, NoLayout
<1>. QED
  BY <1>2, <1>3, <1>4 DEF ChunkInv, Kept

LEMMA LayoutOKKept ==
    ASSUME LayoutOK, UNCHANGED store
    PROVE  LayoutOK' /\ (PathsDiffer' <=> PathsDiffer)
BY DEF LayoutOK, PathsDiffer, Files, PathOf

LEMMA CreateStep ==
    ASSUME ChunkInv, Create
    PROVE  ChunkInv'
<1>1. puts' = {} /\ whole' = {}
  BY DEF Create, ChunkInv, StoresOK, NoStore
<1>2. StoresOK'
  BY StoresStep DEF ChunkInv, ChNext
<1>3. PICK kind \in {"plain", "encrypted"}, cl \in ChunkLengths, n \in 1..MaxFiles :
        \E lengths \in [1..n -> 0..MaxFileLength], names \in NamesOf(n) :
           store' = [kind |-> kind, chunkLength |-> cl, lengths |-> lengths, names |-> names]
  BY DEF Create
<1>4. PICK lengths \in [1..n -> 0..MaxFileLength], names \in NamesOf(n) :
        store' = [kind |-> kind, chunkLength |-> cl, lengths |-> lengths, names |-> names]
  BY <1>3
<1>5. n \in Nat /\ n <= MaxFiles /\ cl \in Nat \ {0} /\ MaxFiles \in Nat /\ MaxFileLength \in Nat
  BY ChunkStoreAssumption
<1>6. lengths \in Seq(Nat) /\ Len(lengths) = n
  <2>1. lengths \in [1..n -> Nat]
    <3>1. 0..MaxFileLength \subseteq Nat
      OBVIOUS
    <3>. QED
      BY <3>1
  <2>. QED
    BY <1>5, <2>1, FunctionIsSeq
<1>7. \A f \in 1..n : names[f] \in FileNames(MaxFiles)
  <2>1. FileNames(n) \subseteq FileNames(MaxFiles)
    BY <1>5 DEF FileNames
  <2>2. \A f \in 1..n : OwnName(f) \in FileNames(n)
    BY <1>5 DEF OwnName, FileNames
  <2>3. \A f \in 1..n : names[f] \in FileNames(n)
    BY <1>4, <2>2 DEF NamesOf
  <2>. QED
    BY <2>1, <2>3
<1>8. Arguments(store')
  BY <1>3, <1>4, <1>5, <1>6, <1>7 DEF Arguments
<1>9. LayoutOK'
  BY <1>8, LayoutFrom
<1>. QED
  BY <1>1, <1>2, <1>9 DEF ChunkInv, Kept

LEMMA PutStep ==
    ASSUME ChunkInv, NEW p \in Chunks, Put(p)
    PROVE  ChunkInv'
<1>1. StoresOK'
  BY StoresStep DEF ChunkInv, ChNext
<1>2. /\ UNCHANGED <<store, disk>> /\ whole' = whole \ {p}
      /\ puts' = puts \cup {[chunk |-> p, left |-> ChunkMap(p), failed |-> FALSE]}
      /\ \A u \in puts : u.chunk # p
  BY DEF Put
<1>3. LayoutOK' /\ (PathsDiffer' <=> PathsDiffer) /\ \A q : ChunkMap(q)' = ChunkMap(q)
  BY <1>2, LayoutOKKept, LayoutKept DEF ChunkInv
<1>4. \A q, f : Held(q, f) => Held(q, f)'
  BY <1>2, HeldNext DEF Held
<1>. DEFINE w == [chunk |-> p, left |-> ChunkMap(p), failed |-> FALSE]
<1>5. w.chunk = p /\ w.left = ChunkMap(p) /\ puts' = puts \cup {w}
  BY <1>2
<1>. HIDE DEF w
<1>6. \A u \in puts' : u.chunk \notin whole'
  BY <1>2, <1>5 DEF ChunkInv
<1>7. \A u, v \in puts' : u.chunk = v.chunk => u = v
  BY <1>2, <1>5 DEF ChunkInv
<1>8. PathsDiffer => \A q \in whole' : \A f \in ChunkMap(q)' : Held(q, f)'
  <2>1. SUFFICES ASSUME PathsDiffer, NEW q \in whole', NEW f \in ChunkMap(q)'
                 PROVE  Held(q, f)'
    OBVIOUS
  <2>2. q \in whole /\ f \in ChunkMap(q)
    BY <1>2, <1>3
  <2>3. Held(q, f)
    BY <2>1, <2>2 DEF ChunkInv, Kept
  <2>. QED
    BY <1>4, <2>3
<1>9. PathsDiffer => \A u \in puts' : ~u.failed => \A f \in ChunkMap(u.chunk)' \ u.left : Held(u.chunk, f)'
  <2>1. SUFFICES ASSUME PathsDiffer, NEW u \in puts', ~u.failed, NEW f \in ChunkMap(u.chunk)' \ u.left
                 PROVE  Held(u.chunk, f)'
    OBVIOUS
  <2>2. f \in ChunkMap(u.chunk) \ u.left
    BY <1>3
  <2>3. u \in puts
    BY <1>5, <2>2
  <2>4. Held(u.chunk, f)
    BY <2>1, <2>2, <2>3 DEF ChunkInv, Kept
  <2>. QED
    BY <1>4, <2>4
<1>. QED
  BY <1>1, <1>3, <1>6, <1>7, <1>8, <1>9 DEF ChunkInv, Kept

LEMMA WriteStep ==
    ASSUME ChunkInv, NEW u \in puts, NEW f \in u.left, Write(u, f) \/ WriteFails(u, f)
    PROVE  ChunkInv'
<1>1. StoresOK'
  BY StoresStep DEF ChunkInv, ChNext
<1>2. u \in [chunk : Chunks, left : SUBSET Files, failed : BOOLEAN]
  BY DEF ChunkInv, StoresOK
<1>3. PICK b \in BOOLEAN :
        /\ puts' = (puts \ {u}) \cup {[u EXCEPT !.left = @ \ {f}, !.failed = b]}
        /\ ~b => ~u.failed /\ Write(u, f)
  <2>1. CASE Write(u, f)
    <3>1. [u EXCEPT !.left = @ \ {f}] = [u EXCEPT !.left = @ \ {f}, !.failed = u.failed]
      BY <1>2
    <3>. QED
      BY <1>2, <2>1, <3>1 DEF Write
  <2>2. CASE WriteFails(u, f)
    BY <2>2 DEF WriteFails
  <2>. QED
    BY <2>1, <2>2
<1>4. UNCHANGED <<store, whole>> /\ (WriteFails(u, f) => UNCHANGED disk)
  BY DEF Write, WriteFails
<1>5. /\ LayoutOK' /\ LayoutOK /\ StoresOK /\ (PathsDiffer' <=> PathsDiffer)
      /\ \A q : ChunkMap(q)' = ChunkMap(q)
  BY <1>4, LayoutOKKept, LayoutKept DEF ChunkInv
<1>. DEFINE w == [u EXCEPT !.left = @ \ {f}, !.failed = b]
<1>6. w.chunk = u.chunk /\ w.left = u.left \ {f} /\ w.failed = b /\ puts' = (puts \ {u}) \cup {w}
  BY <1>2, <1>3
<1>. HIDE DEF w
<1>7. PathsDiffer => \A q \in Chunks, g \in Files : Held(q, g) /\ (q # u.chunk \/ g # f) => Held(q, g)'
  <2>1. CASE Write(u, f)
    BY <1>5, <2>1, WriteHolds DEF StoreOK
  <2>2. CASE WriteFails(u, f)
    <3>1. UNCHANGED <<store, disk>>
      BY <1>4, <2>2
    <3>. QED
      BY <3>1, HeldNext DEF Held
  <2>. QED
    BY <2>1, <2>2
<1>8. \A v \in puts' : v.chunk \notin whole'
  BY <1>4, <1>6 DEF ChunkInv
<1>9. \A v, z \in puts' : v.chunk = z.chunk => v = z
  BY <1>6 DEF ChunkInv
<1>10. PathsDiffer => \A q \in whole' : \A g \in ChunkMap(q)' : Held(q, g)'
  <2>1. SUFFICES ASSUME PathsDiffer, NEW q \in whole', NEW g \in ChunkMap(q)'
                 PROVE  Held(q, g)'
    OBVIOUS
  <2>2. q \in whole /\ g \in ChunkMap(q) /\ g \in Files /\ q \in Chunks /\ q # u.chunk
    BY <1>4, <1>5 DEF ChunkMap, ChunkInv, StoresOK, ChTypeOK
  <2>3. Held(q, g)
    BY <2>1, <2>2 DEF ChunkInv, Kept
  <2>. QED
    BY <1>7, <2>1, <2>2, <2>3
<1>11. PathsDiffer => \A v \in puts' : ~v.failed => \A g \in ChunkMap(v.chunk)' \ v.left : Held(v.chunk, g)'
  <2>1. SUFFICES ASSUME PathsDiffer, NEW v \in puts', ~v.failed, NEW g \in ChunkMap(v.chunk)' \ v.left
                 PROVE  Held(v.chunk, g)'
    OBVIOUS
  <2>2. g \in ChunkMap(v.chunk) \ v.left /\ g \in Files
    BY <1>5 DEF ChunkMap
  <2>3. CASE v \in puts \ {u}
    <3>1. v.chunk # u.chunk /\ v.chunk \in Chunks
      BY <2>3 DEF ChunkInv, StoresOK, ChTypeOK
    <3>2. Held(v.chunk, g)
      BY <2>1, <2>2, <2>3 DEF ChunkInv, Kept
    <3>. QED
      BY <1>7, <2>1, <2>2, <3>1, <3>2
  <2>4. CASE v = w
    <3>1. Write(u, f) /\ ~u.failed
      BY <1>3, <1>6, <2>1, <2>4
    <3>2. v.chunk = u.chunk /\ u.chunk \in Chunks
      BY <1>2, <1>6, <2>4
    <3>3. CASE g = f
      BY <1>5, <2>1, <3>1, <3>2, <3>3, WriteHolds DEF StoreOK
    <3>4. CASE g # f
      <4>1. g \in ChunkMap(u.chunk) \ u.left
        BY <1>6, <2>2, <2>4, <3>4
      <4>2. Held(u.chunk, g)
        BY <2>1, <3>1, <4>1 DEF ChunkInv, Kept
      <4>. QED
        BY <1>7, <2>1, <2>2, <3>2, <3>4, <4>2
    <3>. QED
      BY <3>3, <3>4
  <2>. QED
    BY <1>6, <2>3, <2>4
<1>. QED
  BY <1>1, <1>5, <1>8, <1>9, <1>10, <1>11 DEF ChunkInv, Kept

LEMMA PutEndsStep ==
    ASSUME ChunkInv, NEW u \in puts, PutEnds(u)
    PROVE  ChunkInv'
<1>1. StoresOK'
  BY StoresStep DEF ChunkInv, ChNext
<1>2. /\ UNCHANGED <<store, disk>> /\ puts' = puts \ {u} /\ u.left = {}
      /\ whole' = IF u.failed THEN whole ELSE whole \cup {u.chunk}
  BY DEF PutEnds
<1>3. LayoutOK' /\ (PathsDiffer' <=> PathsDiffer) /\ \A q : ChunkMap(q)' = ChunkMap(q)
  BY <1>2, LayoutOKKept, LayoutKept DEF ChunkInv
<1>4. \A q, f : Held(q, f) => Held(q, f)'
  BY <1>2, HeldNext DEF Held
<1>5. \A v \in puts' : v.chunk \notin whole'
  BY <1>2 DEF ChunkInv
<1>6. \A v, z \in puts' : v.chunk = z.chunk => v = z
  BY <1>2 DEF ChunkInv
<1>7. PathsDiffer => \A q \in whole' : \A f \in ChunkMap(q)' : Held(q, f)'
  <2>1. SUFFICES ASSUME PathsDiffer, NEW q \in whole', NEW f \in ChunkMap(q)'
                 PROVE  Held(q, f)'
    OBVIOUS
  <2>2. f \in ChunkMap(q)
    BY <1>3
  <2>3. Held(q, f)
    <3>1. CASE q \in whole
      BY <2>1, <2>2, <3>1 DEF ChunkInv, Kept
    <3>2. CASE q \notin whole
      <4>1. q = u.chunk /\ ~u.failed
        BY <1>2, <3>2
      <4>. QED
        BY <1>2, <2>1, <2>2, <4>1 DEF ChunkInv, Kept
    <3>. QED
      BY <3>1, <3>2
  <2>. QED
    BY <1>4, <2>3
<1>8. PathsDiffer => \A v \in puts' : ~v.failed => \A f \in ChunkMap(v.chunk)' \ v.left : Held(v.chunk, f)'
  <2>1. SUFFICES ASSUME PathsDiffer, NEW v \in puts', ~v.failed, NEW f \in ChunkMap(v.chunk)' \ v.left
                 PROVE  Held(v.chunk, f)'
    OBVIOUS
  <2>2. f \in ChunkMap(v.chunk) \ v.left /\ v \in puts
    BY <1>2, <1>3
  <2>3. Held(v.chunk, f)
    BY <2>1, <2>2 DEF ChunkInv, Kept
  <2>. QED
    BY <1>4, <2>3
<1>. QED
  BY <1>1, <1>3, <1>5, <1>6, <1>7, <1>8 DEF ChunkInv, Kept

LEMMA ChunkInvStep == ChunkInv /\ [ChNext]_chunkStoreVars => ChunkInv'
<1>1. SUFFICES ASSUME ChunkInv, [ChNext]_chunkStoreVars
               PROVE  ChunkInv'
  OBVIOUS
<1>2. StoresOK'
  BY <1>1, StoresStep DEF ChunkInv
<1>3. ASSUME UNCHANGED <<store, disk, puts, whole>>
      PROVE  ChunkInv'
  <2>1. LayoutOK' /\ (PathsDiffer' <=> PathsDiffer) /\ \A q : ChunkMap(q)' = ChunkMap(q)
    BY <1>1, <1>3, LayoutOKKept, LayoutKept DEF ChunkInv
  <2>2. \A q, f : Held(q, f)' <=> Held(q, f)
    BY <1>3, HeldNext DEF Held
  <2>3. PathsDiffer => \A q \in whole' : \A f \in ChunkMap(q)' : Held(q, f)'
    <3>1. SUFFICES ASSUME PathsDiffer, NEW q \in whole', NEW f \in ChunkMap(q)'
                   PROVE  Held(q, f)'
      OBVIOUS
    <3>2. Held(q, f)
      BY <1>1, <1>3, <2>1, <3>1 DEF ChunkInv, Kept
    <3>. QED
      BY <2>2, <3>2
  <2>4. PathsDiffer => \A u \in puts' : ~u.failed => \A f \in ChunkMap(u.chunk)' \ u.left : Held(u.chunk, f)'
    <3>1. SUFFICES ASSUME PathsDiffer, NEW u \in puts', ~u.failed, NEW f \in ChunkMap(u.chunk)' \ u.left
                   PROVE  Held(u.chunk, f)'
      OBVIOUS
    <3>2. f \in ChunkMap(u.chunk) \ u.left /\ u \in puts
      BY <1>3, <2>1
    <3>3. Held(u.chunk, f)
      BY <1>1, <3>1, <3>2 DEF ChunkInv, Kept
    <3>. QED
      BY <2>2, <3>3
  <2>5. /\ \A u \in puts' : u.chunk \notin whole'
        /\ \A u, v \in puts' : u.chunk = v.chunk => u = v
    BY <1>1, <1>3 DEF ChunkInv
  <2>. QED
    BY <1>2, <2>1, <2>3, <2>4, <2>5 DEF ChunkInv, Kept
<1>4. CASE Create
  BY <1>1, <1>4, CreateStep
<1>5. CASE \E p \in Chunks : Put(p)
  BY <1>1, <1>5, PutStep
<1>6. CASE \E u \in puts : (\E f \in u.left : Write(u, f) \/ WriteFails(u, f)) \/ PutEnds(u)
  BY <1>1, <1>6, WriteStep, PutEndsStep
<1>7. CASE CloseStore
  BY <1>3, <1>7 DEF CloseStore
<1>8. CASE DestroyStore
  <2>1. store' = NoStore /\ puts' = {} /\ whole' = {}
    BY <1>8 DEF DestroyStore
  <2>. QED
    BY <1>2, <2>1, NoLayout DEF ChunkInv, Kept
<1>9. CASE UNCHANGED chunkStoreVars
  BY <1>3, <1>9 DEF chunkStoreVars
<1>. QED
  BY <1>1, <1>4, <1>5, <1>6, <1>7, <1>8, <1>9 DEF ChNext

LEMMA HeldIsRead == ChunkInv => (PathsDiffer => ReadsWhatWasPut)
<1>1. SUFFICES ASSUME ChunkInv, PathsDiffer, ~closed, NEW p \in whole,
                      NEW from \in 0..(LengthOf(p) - 1), NEW to \in (from + 1)..LengthOf(p)
               PROVE  Get(p, from, to) = [i \in 1..(to - from) |-> Plain(p, from + i - 1)]
  BY DEF ReadsWhatWasPut
<1>2. StoreOK /\ p \in Chunks /\ \A f \in ChunkMap(p) : Held(p, f)
  BY <1>1 DEF ChunkInv, StoresOK, ChTypeOK, StoreOK, Kept
<1>3. LengthOf(p) \in Nat
  BY <1>2, ChunksAre
<1>4. RangeOK(p, from, to)
  BY <1>2, <1>3 DEF RangeOK
<1>5. store.kind \in {"plain", "encrypted"}
  BY <1>1 DEF ChunkInv, StoresOK, ChTypeOK
<1>. QED
  BY <1>1, <1>2, <1>4, <1>5, PlainRead, EncryptedRead

(* Both chunk stores read what was put, as long as no two files of the     *)
(* torrent are stored under one path: every range of a whole chunk comes   *)
(* back as it was put, whatever was put in the others meanwhile, whichever *)
(* files it lies in and wherever their borders are (_get against _put of   *)
(* FSChunkStore and EncryptedChunkStore).                                  *)
THEOREM ChunksReadBack == ChSpec => [](PathsDiffer => ReadsWhatWasPut)
<1>. QED
  BY ChunkInvInit, ChunkInvStep, HeldIsRead, PTL DEF ChSpec

(* No two files of the torrent are alike in name, but for their directory  *)
(* and the characters that a file system reserves.                         *)
NamesDiffer == \A f, g \in Files : store.names[f].base = store.names[g].base => f = g

NamesKnown == ~SharedNames => NamesDiffer

LEMMA NamesKnownStep == NamesKnown /\ [ChNext]_chunkStoreVars => NamesKnown'
<1>1. SUFFICES ASSUME NamesKnown, ~SharedNames, [ChNext]_chunkStoreVars
               PROVE  NamesDiffer'
  BY DEF NamesKnown
<1>2. CASE Create
  <2>1. PICK kind \in {"plain", "encrypted"}, cl \in ChunkLengths, n \in 1..MaxFiles :
          \E lengths \in [1..n -> 0..MaxFileLength], names \in NamesOf(n) :
             store' = [kind |-> kind, chunkLength |-> cl, lengths |-> lengths, names |-> names]
    BY <1>2 DEF Create
  <2>2. PICK lengths \in [1..n -> 0..MaxFileLength], names \in NamesOf(n) :
          store' = [kind |-> kind, chunkLength |-> cl, lengths |-> lengths, names |-> names]
    BY <2>1
  <2>3. n \in Nat /\ Len(lengths) = n
    <3>1. n \in Nat
      BY ChunkStoreAssumption
    <3>. QED
      BY <2>2, <3>1, FunctionIsSeq
  <2>4. Files' = 1..n /\ store'.names = [f \in 1..n |-> OwnName(f)]
    BY <1>1, <2>2, <2>3 DEF Files, NamesOf
  <2>5. \A f \in 1..n : store'.names[f].base = f
    BY <2>4 DEF OwnName
  <2>. QED
    BY <2>4, <2>5 DEF NamesDiffer
<1>3. CASE DestroyStore
  <2>1. Files' = 1..1
    BY <1>3 DEF DestroyStore, NoStore, Files
  <2>. QED
    BY <2>1 DEF NamesDiffer
<1>4. CASE UNCHANGED store
  BY <1>1, <1>4 DEF NamesKnown, NamesDiffer, Files
<1>. QED
  BY <1>1, <1>2, <1>3, <1>4
     DEF ChNext, Put, Write, WriteFails, PutEnds, CloseStore, chunkStoreVars

LEMMA NamesKnownInit == ChInit => NamesKnown
<1>1. SUFFICES ASSUME ChInit
               PROVE  NamesDiffer
  BY DEF NamesKnown
<1>2. Files = 1..1
  BY <1>1 DEF ChInit, NoStore, Files
<1>. QED
  BY <1>2 DEF NamesDiffer

(* So both stores read back what was put in a torrent whose files differ   *)
(* in name.  The plain one keeps the directories but strips the reserved   *)
(* characters (fs-chunk-store.ts:102-109), the encrypted one drops the     *)
(* directories (encrypted-chunk-store.ts:142-154): neither tells all files *)
(* apart.                                                                  *)
THEOREM ChunksReadBackWhere == ChSpec => [](NamesDiffer \/ ~SharedNames => ReadsWhatWasPut)
<1>1. NamesDiffer => PathsDiffer
  BY DEF NamesDiffer, PathsDiffer, PathOf
<1>2. NamesKnown => (NamesDiffer \/ ~SharedNames => PathsDiffer)
  BY <1>1 DEF NamesKnown
<1>. QED
  BY <1>2, NamesKnownInit, NamesKnownStep, ChunksReadBack, PTL DEF ChSpec
--------------------------------------------------------------------------------
(* Streaming. A response is made for the range that its header asks for,   *)
(* and its pump stands between the start of that range and the byte after  *)
(* its last one.                                                           *)
StreamFields ==
    {"stage", "source", "header", "status", "range", "length", "at", "queued", "state",
     "left", "broken"}

\* The last byte that the pump of a stream is to send.
LastOf(s) == IF s.status = 200 THEN FileLength - 1 ELSE s.range.end

(* What holds of a stream from the moment its response is made.            *)
Pumped(s) ==
    /\ s.header \in RangeHeaders /\ s.range = ParsedRange(s.header)
    /\ s.status = IF s.range = NoRange THEN 200 ELSE 206
    /\ s.length = IF s.range = NoRange THEN FileLength ELSE s.range.end - s.range.start + 1
    /\ s.at \in Nat
    /\ s.at = s.range.start \/ (s.range.start < s.at /\ s.at <= LastOf(s) + 1)
    /\ s.state = "closed" => (s.left = TRUE) \/ (s.stage = "ended" /\ s.at > LastOf(s))
    /\ s.stage = "blocked" => s.at <= LastOf(s)
    /\ s.stage = "ended" => s.state \in {"closed", "errored"}

(* And before: there is no stream to be cancelled or to fail.              *)
StreamInStep(s) ==
    /\ DOMAIN s = StreamFields
    /\ s.stage \in {"waiting", "starting"} => s.header \in RangeHeaders
    /\ IF s.stage \in {"reading", "blocked", "ended"} THEN Pumped(s) ELSE s.state = "none"

StreamInv == DOMAIN streams = Players /\ \A p \in Players : StreamInStep(streams[p])

(* A header that is served is served as RFC 9110 has it.                   *)
LEMMA RangeServed ==
    ASSUME NEW h \in RangeHeaders
    PROVE  /\ ParsedRange(h).start \in Nat
           /\ ParsedRange(h) = NoRange => ParsedRange(h).start = 0
           /\ ParsedRange(h) # NoRange =>
                 /\ ParsedRange(h).end \in Nat
                 /\ ParsedRange(h).start <= ParsedRange(h).end =>
                       ParsedRange(h).start..ParsedRange(h).end = Wanted(h[1])
<1>1. h \in Seq(RangeSpec) /\ FileLength \in Nat /\ FileLength > 0
  BY StreamAssumption
<1>2. CASE h = <<>> \/ \E i \in DOMAIN h : IsInvalid(h[i])
  BY <1>2 DEF ParsedRange, NoRange
<1>3. CASE ~(h = <<>> \/ \E i \in DOMAIN h : IsInvalid(h[i]))
  <2>1. 1 \in DOMAIN h
    BY <1>1, <1>3
  <2> DEFINE spec == h[1]
             f == spec.first
             l == spec.last
  <2>2. spec \in RangeSpec /\ ~IsInvalid(spec)
    BY <1>1, <1>3, <2>1
  <2>3. ParsedRange(h) = RangeOf(spec)
    BY <1>3 DEF ParsedRange
  <2>4. f \in Nat \cup {-1} /\ l \in Nat \cup {-1}
    BY <2>2 DEF RangeSpec, NaN
  <2>5. ~(f = -1 /\ l = -1) /\ ~(f # -1 /\ l # -1 /\ (f > l \/ l >= FileLength))
    BY <2>2, <2>4, <1>1 DEF IsInvalid, NaN
  <2>6. /\ RangeOf(spec).start = IF f # -1 THEN f
                                 ELSE IF l > FileLength THEN 0 ELSE FileLength - l
        /\ RangeOf(spec).end = IF f # -1 /\ l # -1 THEN l ELSE FileLength - 1
    BY DEF RangeOf, NaN
  <2>7. Wanted(spec) = {b \in 0..(FileLength - 1) :
                           IF f = -1 THEN b >= FileLength - l
                           ELSE b >= f /\ (l = -1 \/ b <= l)}
    BY DEF Wanted, NaN
  <2>. HIDE DEF f, l
  <2>8. RangeOf(spec).start \in Nat /\ RangeOf(spec).end \in Nat
    BY <1>1, <2>4, <2>5, <2>6
  <2>9. ASSUME NEW b \in Int
        PROVE  b \in RangeOf(spec).start..RangeOf(spec).end <=> b \in Wanted(spec)
    BY <1>1, <2>4, <2>5, <2>6, <2>7
  <2>10. RangeOf(spec).start..RangeOf(spec).end = Wanted(spec)
    <3>1. /\ \A b \in RangeOf(spec).start..RangeOf(spec).end : b \in Int
          /\ \A b \in Wanted(spec) : b \in Int
      BY <2>7, <2>8
    <3>. QED
      BY <2>9, <3>1
  <2>11. NoRange.end = -1 /\ NoRange.start = 0
    BY DEF NoRange, NaN
  <2>. QED
    BY <2>3, <2>8, <2>10, <2>11
<1>. QED
  BY <1>2, <1>3

(* A stream that ended as it should has sent what was asked for.           *)
LEMMA PumpedIsWhatWasAsked == StreamInv => StreamsSendWhatWasAsked
<1>. SUFFICES ASSUME StreamInv, NEW p \in Players, NEW s, s = streams[p],
                     At(p, "ended"), s.state # "errored", ~s.left, s.length > 0
              PROVE  /\ s.range.start..(s.at - 1)
                           = IF s.status = 206 THEN Wanted(s.header[1]) ELSE 0..(FileLength - 1)
                     /\ s.at = s.range.start + s.length
  BY DEF StreamsSendWhatWasAsked
<1>1. Pumped(s) /\ s.stage = "ended" /\ s.header \in RangeHeaders /\ s.range = ParsedRange(s.header)
  BY DEF StreamInv, StreamInStep, Pumped, At
<1>2. s.at > LastOf(s)
  BY <1>1 DEF Pumped
<1>3. /\ s.range.start \in Nat /\ s.at \in Nat /\ FileLength \in Nat /\ FileLength > 0
      /\ s.at = s.range.start \/ (s.range.start < s.at /\ s.at <= LastOf(s) + 1)
  BY <1>1, RangeServed, StreamAssumption DEF Pumped
<1>4. CASE s.range = NoRange
  <2>1. s.status = 200 /\ s.length = FileLength /\ s.range.start = 0 /\ LastOf(s) = FileLength - 1
    BY <1>1, <1>4, RangeServed DEF Pumped, LastOf
  <2>2. s.at = FileLength
    BY <1>2, <1>3, <2>1
  <2>. QED
    BY <1>3, <2>1, <2>2
<1>5. CASE s.range # NoRange
  <2>1. s.status = 206 /\ s.length = s.range.end - s.range.start + 1 /\ LastOf(s) = s.range.end
    BY <1>1, <1>5 DEF Pumped, LastOf
  <2>2. s.range.end \in Nat /\ (s.range.start <= s.range.end =>
                                  s.range.start..s.range.end = Wanted(s.header[1]))
    BY <1>1, <1>5, RangeServed
  <2>3. s.range.start <= s.range.end /\ s.at = s.range.end + 1
    BY <1>2, <1>3, <2>1, <2>2
  <2>4. s.at - 1 = s.range.end /\ s.at = s.range.start + s.length
    BY <1>3, <2>1, <2>2, <2>3
  <2>5. s.range.start..(s.at - 1) = Wanted(s.header[1])
    BY <2>2, <2>3, <2>4
  <2>. QED
    BY <2>1, <2>4, <2>5
<1>. QED
  BY <1>4, <1>5

(* What a step leaves of the stream it moves, and of the others.           *)
LEMMA BecomesIs ==
    ASSUME StreamInv, NEW p \in Players, NEW fields, DOMAIN fields \subseteq StreamFields,
           StreamBecomes(p, fields)
    PROVE  /\ DOMAIN streams' = Players
           /\ \A q \in Players : q # p => streams'[q] = streams[q]
           /\ DOMAIN streams'[p] = StreamFields
           /\ \A f \in StreamFields :
                 streams'[p][f] = IF f \in DOMAIN fields THEN fields[f] ELSE streams[p][f]
  BY DEF StreamInv, StreamInStep, StreamBecomes

LEMMA OneMoves ==
    ASSUME StreamInv, NEW p \in Players, DOMAIN streams' = Players,
           \A q \in Players : q # p => streams'[q] = streams[q],
           StreamInStep(streams'[p])
    PROVE  StreamInv'
  BY DEF StreamInv

(* Every field of a stream after a step that sets some of them.            *)
LEMMA FieldsAfter ==
    ASSUME StreamInv, NEW p \in Players, NEW fields, DOMAIN fields \subseteq StreamFields,
           StreamBecomes(p, fields), NEW t, t = streams'[p], NEW s, s = streams[p]
    PROVE  /\ DOMAIN t = StreamFields
           /\ t.stage = IF "stage" \in DOMAIN fields THEN fields.stage ELSE s.stage
           /\ t.header = IF "header" \in DOMAIN fields THEN fields.header ELSE s.header
           /\ t.status = IF "status" \in DOMAIN fields THEN fields.status ELSE s.status
           /\ t.range = IF "range" \in DOMAIN fields THEN fields.range ELSE s.range
           /\ t.length = IF "length" \in DOMAIN fields THEN fields.length ELSE s.length
           /\ t.at = IF "at" \in DOMAIN fields THEN fields.at ELSE s.at
           /\ t.state = IF "state" \in DOMAIN fields THEN fields.state ELSE s.state
           /\ t.left = IF "left" \in DOMAIN fields THEN fields.left ELSE s.left
  BY BecomesIs DEF StreamFields

LEMMA StreamInvStep == StreamInv /\ [StNext]_streamVars => StreamInv'
<1>. SUFFICES ASSUME StreamInv, [StNext]_streamVars
              PROVE  StreamInv'
  OBVIOUS
<1>a. ASSUME NEW p \in Players, NEW fields, DOMAIN fields \subseteq StreamFields,
             StreamBecomes(p, fields), StreamInStep(streams'[p])
      PROVE  StreamInv'
  BY <1>a, BecomesIs, OneMoves
<1>1. ASSUME ClientReady \/ TorrentRemoved
      PROVE  StreamInv'
  <2>1. DOMAIN streams' = Players
    BY <1>1 DEF ClientReady, TorrentRemoved
  <2>2. ASSUME NEW p \in Players
        PROVE  StreamInStep(streams'[p])
    <3>1. StreamInStep(streams[p])
      BY DEF StreamInv
    <3>2. \/ streams'[p] = streams[p]
          \/ streams[p].stage = "waiting" /\ streams'[p] = [streams[p] EXCEPT !.stage = "starting"]
          \/ \E b \in BOOLEAN : streams'[p] = [streams[p] EXCEPT !.broken = b]
      <4>1. CASE ClientReady
        BY <4>1 DEF ClientReady, At
      <4>2. CASE TorrentRemoved
        <5> DEFINE b == streams[p].broken \/ streams[p].state # "none"
        <5>1. streams'[p] = [streams[p] EXCEPT !.broken = b]
          BY <4>2 DEF TorrentRemoved
        <5>2. b \in BOOLEAN
          OBVIOUS
        <5>. QED
          BY <5>1, <5>2
      <4>. QED
        BY <1>1, <4>1, <4>2
    <3>3. CASE streams'[p] = streams[p]
      BY <3>1, <3>3
    <3>4. CASE streams[p].stage = "waiting" /\ streams'[p] = [streams[p] EXCEPT !.stage = "starting"]
      BY <3>1, <3>4 DEF StreamInStep, StreamFields
    <3>5. ASSUME NEW b \in BOOLEAN, streams'[p] = [streams[p] EXCEPT !.broken = b]
          PROVE  StreamInStep(streams'[p])
      BY <3>1, <3>5 DEF StreamInStep, StreamFields, Pumped, LastOf
    <3>. QED
      BY <3>2, <3>3, <3>4, <3>5
  <2>. QED
    BY <2>1, <2>2 DEF StreamInv
<1>2. ASSUME NEW i \in DOMAIN sources, FileFound(i)
      PROVE  StreamInv'
  BY <1>2 DEF FileFound, StreamInv
<1>3. ASSUME NEW p \in Players,
             \/ RefuseStream(p) \/ OpenStream(p) \/ StartFails(p) \/ ReadBlock(p) \/ Cancel(p)
             \/ \E h \in RangeHeaders, q \in Qualities, hevc \in BOOLEAN : Choose(p, h, q, hevc)
             \/ NextBlock(p) \/ CheckBackpressure(p) \/ Finished(p) \/ PumpFails(p)
      PROVE  StreamInv'
  <2> DEFINE s == streams[p]
             t == streams'[p]
  <2>s. StreamInStep(s)
    BY DEF StreamInv
  <2>at. \A stage : At(p, stage) <=> s.stage = stage
    BY DEF At
  <2>1. CASE RefuseStream(p) \/ StartFails(p)
    <3>1. PICK fields : /\ StreamBecomes(p, fields)
                        /\ \/ fields = [stage |-> "refused", status |-> 401] /\ s.stage = "idle"
                           \/ fields = [stage |-> "unanswered"] /\ s.stage = "starting"
      BY <2>1 DEF RefuseStream, StartFails, At
    <3>2. DOMAIN fields \subseteq StreamFields
      BY <3>1 DEF StreamFields
    <3>3. DOMAIN t = StreamFields /\ t.stage \in {"refused", "unanswered"} /\ t.state = "none"
      <4>1. "state" \notin DOMAIN fields /\ "stage" \in DOMAIN fields
            /\ fields.stage \in {"refused", "unanswered"}
        BY <3>1
      <4>2. s.state = "none"
        BY <2>s, <3>1 DEF StreamInStep
      <4>. QED
        BY <3>1, <3>2, <4>1, <4>2, FieldsAfter
    <3>. QED
      BY <1>a, <3>1, <3>2, <3>3 DEF StreamInStep
  <2>2. CASE OpenStream(p)
    <3> DEFINE range == ParsedRange(s.header)
               entire == range = NoRange
               fields == [stage |-> "reading", state |-> "readable", range |-> range,
                          status |-> IF entire THEN 200 ELSE 206,
                          at |-> range.start,
                          length |-> IF entire THEN FileLength ELSE range.end - range.start + 1]
    <3>1. StreamBecomes(p, fields) /\ s.stage = "starting"
      BY <2>2 DEF OpenStream, At
    <3>2. DOMAIN fields \subseteq StreamFields
      BY DEF StreamFields
    <3>3. /\ DOMAIN t = StreamFields
          /\ t.stage = "reading" /\ t.state = "readable" /\ t.range = range
          /\ t.status = IF entire THEN 200 ELSE 206
          /\ t.at = range.start
          /\ t.length = IF entire THEN FileLength ELSE range.end - range.start + 1
          /\ t.header = s.header
      <4>1. /\ DOMAIN fields = {"stage", "state", "range", "status", "at", "length"}
            /\ fields.stage = "reading" /\ fields.state = "readable" /\ fields.range = range
            /\ fields.status = IF entire THEN 200 ELSE 206
            /\ fields.at = range.start
            /\ fields.length = IF entire THEN FileLength ELSE range.end - range.start + 1
        OBVIOUS
      <4>. HIDE DEF fields, range
      <4>. QED
        BY <3>1, <3>2, <4>1, FieldsAfter
    <3>4. s.header \in RangeHeaders
      BY <2>s, <3>1 DEF StreamInStep
    <3>5. range.start \in Nat
      BY <3>4, RangeServed
    <3>. HIDE DEF fields, t, s
    <3>6. Pumped(t)
      BY <3>3, <3>4, <3>5 DEF Pumped
    <3>7. StreamInStep(t)
      BY <3>3, <3>6 DEF StreamInStep
    <3>. QED
      BY <1>a, <3>1, <3>2, <3>7 DEF t
  <2>3. CASE ReadBlock(p)
    <3> DEFINE fields == [queued |-> s.queued - 1]
    <3>1. StreamBecomes(p, fields)
      BY <2>3 DEF ReadBlock
    <3>2. DOMAIN fields = {"queued"} /\ DOMAIN fields \subseteq StreamFields
      BY DEF StreamFields
    <3>. HIDE DEF fields
    <3>3. /\ DOMAIN t = StreamFields
          /\ t.stage = s.stage /\ t.header = s.header /\ t.status = s.status /\ t.range = s.range
          /\ t.length = s.length /\ t.at = s.at /\ t.state = s.state /\ t.left = s.left
      BY <3>1, <3>2, FieldsAfter
    <3>4. StreamInStep(t)
      BY <2>s, <3>3 DEF StreamInStep, Pumped, LastOf
    <3>. QED
      BY <1>a, <3>1, <3>2, <3>4
  <2>4. CASE Cancel(p)
    <3> DEFINE fields == [state |-> "closed", queued |-> 0, left |-> TRUE]
    <3>1. StreamBecomes(p, fields) /\ s.state = "readable"
      BY <2>4 DEF Cancel
    <3>2. /\ DOMAIN fields = {"state", "queued", "left"} /\ DOMAIN fields \subseteq StreamFields
          /\ fields.state = "closed" /\ fields.left = TRUE
      BY DEF StreamFields
    <3>. HIDE DEF fields
    <3>3. /\ DOMAIN t = StreamFields
          /\ t.stage = s.stage /\ t.header = s.header /\ t.status = s.status /\ t.range = s.range
          /\ t.length = s.length /\ t.at = s.at /\ t.state = "closed" /\ t.left = TRUE
      BY <3>1, <3>2, FieldsAfter
    <3>4. StreamInStep(t)
      BY <2>s, <3>1, <3>3 DEF StreamInStep, Pumped, LastOf
    <3>. QED
      BY <1>a, <3>1, <3>2, <3>4
  <2>5. ASSUME NEW h \in RangeHeaders, NEW q \in Qualities, NEW hevc \in BOOLEAN, Choose(p, h, q, hevc)
        PROVE  StreamInv'
    <3>1. PICK fields : /\ StreamBecomes(p, fields) /\ s.stage = "idle"
                        /\ \/ fields = [stage |-> "refused", status |-> 404]
                           \/ \E stage \in {"starting", "waiting"} : \E source :
                                 fields = [stage |-> stage, header |-> h, source |-> source]
      BY <2>5 DEF Choose, At
    <3>2. DOMAIN fields \subseteq StreamFields
      BY <3>1 DEF StreamFields
    <3>3. /\ "stage" \in DOMAIN fields /\ "state" \notin DOMAIN fields
          /\ fields.stage \in {"refused", "starting", "waiting"}
          /\ fields.stage # "refused" => "header" \in DOMAIN fields /\ fields.header = h
      BY <3>1
    <3>4. /\ DOMAIN t = StreamFields /\ t.stage \in {"refused", "starting", "waiting"}
          /\ t.stage # "refused" => t.header = h
          /\ t.state = s.state
      BY <3>1, <3>2, <3>3, FieldsAfter
    <3>5. StreamInStep(t)
      BY <2>s, <3>1, <3>4 DEF StreamInStep
    <3>. QED
      BY <1>a, <3>1, <3>2, <3>5
  <2>6. CASE NextBlock(p) \/ CheckBackpressure(p)
    <3>1. PICK fields : /\ StreamBecomes(p, fields) /\ s.stage \in {"reading", "blocked"}
                        /\ s.stage = "reading" => s.at <= LastOf(s)
                        /\ \/ fields = [stage |-> "ended"] /\ s.state = "errored"
                           \/ fields = [stage |-> "blocked"] /\ s.stage = "reading"
                           \/ /\ s.state # "closed"
                              /\ \/ fields = [at |-> s.at + 1, queued |-> s.queued + 1]
                                    /\ s.stage = "reading"
                                 \/ fields = [stage |-> "reading", at |-> s.at + 1, queued |-> s.queued + 1]
      <4>1. LastByte(p) = LastOf(s) /\ (GivesUp(p) <=> s.state = "errored")
            /\ (s.state = "closed" => Desired(p) = 0) /\ ~(0 > 0)
        BY DEF LastByte, LastOf, GivesUp, Desired
      <4>2. CASE NextBlock(p)
        BY <4>1, <4>2 DEF NextBlock, At
      <4>3. CASE CheckBackpressure(p)
        BY <4>1, <4>3 DEF CheckBackpressure, At
      <4>. QED
        BY <2>6, <4>2, <4>3
    <3>2. DOMAIN fields \subseteq StreamFields
      BY <3>1 DEF StreamFields
    <3>p. Pumped(s)
      BY <2>s, <3>1 DEF StreamInStep
    <3>r. s.at \in Nat /\ s.range.start \in Nat
          /\ s.at <= LastOf(s) /\ (LastOf(s) \in Int)
      <4>1. s.range.start \in Nat /\ (s.range # NoRange => s.range.end \in Nat)
        BY <3>p, RangeServed DEF Pumped
      <4>2. LastOf(s) \in Int
        BY <4>1, <3>p, StreamAssumption DEF LastOf, Pumped
      <4>. QED
        BY <4>1, <4>2, <3>p, <3>1 DEF Pumped
    <3>3. CASE fields = [stage |-> "ended"] /\ s.state = "errored"
      <4>1. DOMAIN fields = {"stage"} /\ fields.stage = "ended"
        BY <3>3
      <4>2. /\ DOMAIN t = StreamFields
            /\ t.stage = "ended" /\ t.header = s.header /\ t.status = s.status /\ t.range = s.range
            /\ t.length = s.length /\ t.at = s.at /\ t.state = s.state /\ t.left = s.left
        BY <4>1, <3>1, <3>2, FieldsAfter
      <4>3. StreamInStep(t)
        BY <4>2, <3>p, <3>3 DEF StreamInStep, Pumped, LastOf
      <4>. QED
        BY <1>a, <3>1, <3>2, <4>3
    <3>4. CASE fields = [stage |-> "blocked"] /\ s.stage = "reading"
      <4>1. DOMAIN fields = {"stage"} /\ fields.stage = "blocked"
        BY <3>4
      <4>2. /\ DOMAIN t = StreamFields
            /\ t.stage = "blocked" /\ t.header = s.header /\ t.status = s.status /\ t.range = s.range
            /\ t.length = s.length /\ t.at = s.at /\ t.state = s.state /\ t.left = s.left
        BY <4>1, <3>1, <3>2, FieldsAfter
      <4>3. StreamInStep(t)
        BY <4>2, <3>p, <3>4, <3>1 DEF StreamInStep, Pumped, LastOf
      <4>. QED
        BY <1>a, <3>1, <3>2, <4>3
    <3>5. CASE /\ s.state # "closed"
               /\ \/ fields = [at |-> s.at + 1, queued |-> s.queued + 1] /\ s.stage = "reading"
                  \/ fields = [stage |-> "reading", at |-> s.at + 1, queued |-> s.queued + 1]
      <4>1. /\ DOMAIN fields \in {{"at", "queued"}, {"stage", "at", "queued"}}
            /\ "at" \in DOMAIN fields /\ fields.at = s.at + 1
            /\ IF "stage" \in DOMAIN fields THEN fields.stage = "reading" ELSE s.stage = "reading"
        BY <3>5
      <4>2. /\ DOMAIN t = StreamFields
            /\ t.stage = "reading" /\ t.header = s.header /\ t.status = s.status /\ t.range = s.range
            /\ t.length = s.length /\ t.at = s.at + 1 /\ t.state = s.state /\ t.left = s.left
        BY <4>1, <3>1, <3>2, FieldsAfter
      <4>3. LastOf(t) = LastOf(s)
        BY <4>2 DEF LastOf
      <4>4. t.at \in Nat /\ t.range.start < t.at /\ t.at <= LastOf(t) + 1
        BY <3>r, <4>2, <4>3, <3>p DEF Pumped
      <4>5. StreamInStep(t)
        BY <4>2, <4>4, <3>p, <3>5 DEF StreamInStep, Pumped
      <4>. QED
        BY <1>a, <3>1, <3>2, <4>5
    <3>. QED
      BY <3>1, <3>3, <3>4, <3>5
  <2>7. CASE Finished(p) \/ PumpFails(p)
    <3>1. PICK fields : /\ StreamBecomes(p, fields) /\ s.stage = "reading"
                        /\ \/ fields = [stage |-> "ended", state |-> "closed"] /\ s.at > LastOf(s)
                           \/ fields = [stage |-> "ended", queued |-> 0,
                                        state |-> IF s.state = "closed" THEN "closed" ELSE "errored"]
      BY <2>7 DEF Finished, PumpFails, At, LastByte, LastOf
    <3>2. DOMAIN fields \subseteq StreamFields
      BY <3>1 DEF StreamFields
    <3>3. /\ "stage" \in DOMAIN fields /\ "state" \in DOMAIN fields /\ fields.stage = "ended"
          /\ DOMAIN fields \subseteq {"stage", "state", "queued"}
          /\ \/ fields.state = "closed" /\ (s.at > LastOf(s) \/ s.state = "closed")
             \/ fields.state = "errored"
      BY <3>1
    <3>4. /\ DOMAIN t = StreamFields
          /\ t.stage = "ended" /\ t.header = s.header /\ t.status = s.status /\ t.range = s.range
          /\ t.length = s.length /\ t.at = s.at /\ t.state = fields.state /\ t.left = s.left
      BY <3>1, <3>2, <3>3, FieldsAfter
    <3>5. Pumped(s)
      BY <2>s, <3>1 DEF StreamInStep
    <3>6. StreamInStep(t)
      BY <3>1, <3>3, <3>4, <3>5 DEF StreamInStep, Pumped, LastOf
    <3>. QED
      BY <1>a, <3>1, <3>2, <3>6
  <2>. QED
    BY <1>3, <2>1, <2>2, <2>3, <2>4, <2>5, <2>6, <2>7
<1>4. CASE UNCHANGED streamVars
  BY <1>4 DEF streamVars, StreamInv
<1>. QED
  BY <1>1, <1>2, <1>3, <1>4 DEF StNext

LEMMA StreamInvInit == StInit => StreamInv
  BY DEF StInit, NoStream, StreamInv, StreamInStep, StreamFields

(***************************************************************************)
(* Whatever the length of the file and the ranges asked for, and however   *)
(* slowly the clients read, a stream that neither failed nor was left has  *)
(* sent exactly the bytes that were asked for (download.service.ts:633-690,*)
(* download.utils.ts:101-141).                                             *)
(***************************************************************************)
THEOREM StreamsAreComplete == StSpec => []StreamsSendWhatWasAsked
<1>. QED
  BY StreamInvInit, StreamInvStep, PumpedIsWhatWasAsked, PTL DEF StSpec

(* The type of a stream.                                                   *)
StreamKnown(s) ==
    /\ s.queued \in 0..HighWaterMark
    /\ s.state \in {"none", "readable", "closed", "errored"}
    /\ s.status \in {0, 200, 206, 401, 404}

StreamsKnown == ready \in BOOLEAN /\ torrent \in BOOLEAN /\ \A p \in Players : StreamKnown(streams[p])

(* A queue holds what its stream has room for.                             *)
LEMMA StreamsStep == StreamInv /\ StreamsKnown /\ [StNext]_streamVars => StreamsKnown'
<1>. SUFFICES ASSUME StreamInv, StreamsKnown, [StNext]_streamVars
              PROVE  StreamsKnown'
  OBVIOUS
<1>t. DOMAIN streams = Players /\ \A p \in Players : DOMAIN streams[p] = StreamFields
  BY DEF StreamInv, StreamInStep
<1>w. HighWaterMark = 1
  BY DEF HighWaterMark
<1>a. ASSUME NEW p \in Players, NEW fields, StreamBecomes(p, fields), DOMAIN fields \subseteq StreamFields,
             "queued" \in DOMAIN fields => fields.queued \in 0..HighWaterMark,
             "state" \in DOMAIN fields => fields.state \in {"readable", "closed", "errored"},
             "status" \in DOMAIN fields => fields.status \in {200, 206, 401, 404},
             ready' = ready, torrent' \in BOOLEAN
      PROVE  StreamsKnown'
  <2>1. /\ \A q \in Players : q # p => streams'[q] = streams[q]
        /\ \A f \in StreamFields :
              streams'[p][f] = IF f \in DOMAIN fields THEN fields[f] ELSE streams[p][f]
    BY <1>a, BecomesIs
  <2>2. StreamKnown(streams[p])
    BY DEF StreamsKnown
  <2>3. StreamKnown(streams'[p])
    BY <1>a, <2>1, <2>2 DEF StreamKnown, StreamFields
  <2>. QED
    BY <1>a, <2>1, <2>3 DEF StreamsKnown
<1>1. CASE ClientReady \/ TorrentRemoved
  <2>1. ready' \in BOOLEAN /\ torrent' \in BOOLEAN
    BY <1>1 DEF ClientReady, TorrentRemoved, StreamsKnown
  <2>2. ASSUME NEW p \in Players
        PROVE  StreamKnown(streams'[p])
    <3>d. DOMAIN streams[p] = StreamFields
      BY <1>t
    <3>e. \/ streams'[p] = streams[p]
          \/ streams'[p] = [streams[p] EXCEPT !.stage = "starting"]
          \/ streams'[p] = [streams[p] EXCEPT !.broken = @ \/ streams[p].state # "none"]
      BY <1>1 DEF ClientReady, TorrentRemoved
    <3>1. /\ streams'[p].queued = streams[p].queued /\ streams'[p].state = streams[p].state
          /\ streams'[p].status = streams[p].status
      BY <3>d, <3>e DEF StreamFields
    <3>. QED
      BY <3>1 DEF StreamKnown, StreamsKnown
  <2>. QED
    BY <2>1, <2>2 DEF StreamsKnown
<1>2. ASSUME NEW i \in DOMAIN sources, FileFound(i)
      PROVE  StreamsKnown'
  BY <1>2 DEF FileFound, StreamsKnown
<1>3. ASSUME NEW p \in Players, RefuseStream(p) \/ StartFails(p) \/ Finished(p)
      PROVE  StreamsKnown'
  <2>1. UNCHANGED <<ready, torrent>>
    BY <1>3 DEF RefuseStream, StartFails, Finished
  <2>2. PICK fields : /\ StreamBecomes(p, fields)
                      /\ \/ fields = [stage |-> "refused", status |-> 401]
                         \/ fields = [stage |-> "unanswered"]
                         \/ fields = [stage |-> "ended", state |-> "closed"]
    BY <1>3 DEF RefuseStream, StartFails, Finished
  <2>3. /\ DOMAIN fields \subseteq StreamFields /\ "queued" \notin DOMAIN fields
        /\ "state" \in DOMAIN fields => fields.state = "closed"
        /\ "status" \in DOMAIN fields => fields.status = 401
    BY <2>2 DEF StreamFields
  <2>. QED
    BY <1>a, <2>1, <2>2, <2>3 DEF StreamsKnown
<1>c. ASSUME NEW p \in Players,
             NEW h \in RangeHeaders, NEW q \in Qualities, NEW hevc \in BOOLEAN, Choose(p, h, q, hevc)
      PROVE  StreamsKnown'
  <2>1. UNCHANGED <<ready, torrent>>
    BY <1>c DEF Choose
  <2>2. CASE StreamBecomes(p, [stage |-> "refused", status |-> 404])
    BY <1>a, <2>1, <2>2 DEF StreamFields, StreamsKnown
  <2>3. ASSUME NEW stage, NEW source,
               StreamBecomes(p, [stage |-> stage, header |-> h, source |-> source])
        PROVE  StreamsKnown'
    BY <1>a, <2>1, <2>3 DEF StreamFields, StreamsKnown
  <2>. QED
    BY <1>c, <2>2, <2>3 DEF Choose
<1>4. ASSUME NEW p \in Players, OpenStream(p)
      PROVE  StreamsKnown'
  <2>1. ready' = ready /\ torrent' = TRUE
    BY <1>4 DEF OpenStream
  <2> DEFINE range == ParsedRange(streams[p].header)
             n == IF range = NoRange THEN 200 ELSE 206
             length == IF range = NoRange THEN FileLength ELSE range.end - range.start + 1
             fields == [stage |-> "reading", state |-> "readable", range |-> range,
                        status |-> n, at |-> range.start, length |-> length]
  <2>2. StreamBecomes(p, fields)
    BY <1>4 DEF OpenStream
  <2>3. n \in {200, 206}
    OBVIOUS
  <2>. HIDE DEF n, length, range
  <2>4. /\ DOMAIN fields \subseteq StreamFields /\ "queued" \notin DOMAIN fields
        /\ fields.state = "readable" /\ fields.status \in {200, 206}
    BY <2>3 DEF StreamFields
  <2>. HIDE DEF fields
  <2>. QED
    BY <1>a, <2>1, <2>2, <2>4
<1>5. ASSUME NEW p \in Players, ReadBlock(p) \/ Cancel(p) \/ PumpFails(p)
      PROVE  StreamsKnown'
  <2>1. UNCHANGED <<ready, torrent>>
    BY <1>5 DEF ReadBlock, Cancel, PumpFails
  <2>2. PICK fields : /\ StreamBecomes(p, fields)
                      /\ \/ fields = [queued |-> streams[p].queued - 1] /\ streams[p].queued > 0
                         \/ fields = [state |-> "closed", queued |-> 0, left |-> TRUE]
                         \/ \E state \in {"closed", "errored"} :
                               fields = [stage |-> "ended", queued |-> 0, state |-> state]
    <3>1. CASE ReadBlock(p)
      BY <3>1 DEF ReadBlock
    <3>2. CASE Cancel(p)
      BY <3>2 DEF Cancel
    <3>3. CASE PumpFails(p)
      <4> DEFINE state == IF streams[p].state = "closed" THEN "closed" ELSE "errored"
      <4>1. StreamBecomes(p, [stage |-> "ended", queued |-> 0, state |-> state])
        BY <3>3 DEF PumpFails
      <4>2. state \in {"closed", "errored"}
        OBVIOUS
      <4>. HIDE DEF state
      <4>. QED
        BY <4>1, <4>2
    <3>. QED
      BY <1>5, <3>1, <3>2, <3>3
  <2>3. streams[p].queued \in 0..HighWaterMark
    BY DEF StreamsKnown, StreamKnown
  <2>4. /\ DOMAIN fields \subseteq StreamFields /\ fields.queued \in 0..HighWaterMark
        /\ "status" \notin DOMAIN fields
        /\ "state" \in DOMAIN fields => fields.state \in {"closed", "errored"}
    BY <1>w, <2>2, <2>3 DEF StreamFields
  <2>. QED
    BY <1>a, <2>1, <2>2, <2>4 DEF StreamsKnown
<1>6. ASSUME NEW p \in Players, NextBlock(p) \/ CheckBackpressure(p)
      PROVE  StreamsKnown'
  <2>1. UNCHANGED <<ready, torrent>>
    BY <1>6 DEF NextBlock, CheckBackpressure
  <2>2. streams[p].queued \in 0..HighWaterMark
    BY DEF StreamsKnown, StreamKnown
  <2>3. Desired(p) > 0 => streams[p].queued = 0
    BY <1>w, <2>2 DEF Desired
  <2>3a. Desired(p) \in Int
    BY <1>w, <2>2 DEF Desired
  <2>4. PICK fields : /\ StreamBecomes(p, fields)
                      /\ \/ \E stage : fields = [stage |-> stage]
                         \/ /\ Desired(p) > 0
                            /\ \/ fields = [at |-> streams[p].at + 1, queued |-> streams[p].queued + 1]
                               \/ fields = [stage |-> "reading", at |-> streams[p].at + 1,
                                            queued |-> streams[p].queued + 1]
    <3>1. ~(Desired(p) <= 0) => Desired(p) > 0
      BY <2>3a
    <3>2. CASE NextBlock(p)
      BY <3>1, <3>2 DEF NextBlock
    <3>3. CASE CheckBackpressure(p)
      BY <3>3 DEF CheckBackpressure
    <3>. QED
      BY <1>6, <3>2, <3>3
  <2>5. /\ DOMAIN fields \subseteq StreamFields
        /\ "queued" \in DOMAIN fields => fields.queued \in 0..HighWaterMark
        /\ "status" \notin DOMAIN fields /\ "state" \notin DOMAIN fields
    BY <1>w, <2>3, <2>4 DEF StreamFields
  <2>. QED
    BY <1>a, <2>1, <2>4, <2>5 DEF StreamsKnown
<1>7. CASE UNCHANGED streamVars
  BY <1>7 DEF streamVars, StreamsKnown
<1>. QED
  BY <1>1, <1>2, <1>3, <1>c, <1>4, <1>5, <1>6, <1>7 DEF StNext
================================================================================
