--------------------------- MODULE Archive_proofs ---------------------------
(***************************************************************************)
(* createArchive: the archives kept are the newest, and one that is whole  *)
(* restores the database of one instant, for any number of shards, writes, *)
(* compactions and archives and any ArchiveRetention.                      *)
(***************************************************************************)
EXTENDS Archive, FiniteSetTheorems, SequenceTheorems, TLAPS

-----------------------------------------------------------------------------
(* Sequences and numbers *)

LEMMA AppendFacts ==
  ASSUME NEW S, NEW l \in Seq(S), NEW e \in S
  PROVE  /\ Append(l, e) \in Seq(S) /\ Len(Append(l, e)) = Len(l) + 1 /\ Append(l, e) # <<>>
         /\ DOMAIN Append(l, e) = 1 .. Len(l) + 1 /\ Len(l) \in Nat /\ DOMAIN l = 1 .. Len(l)
         /\ Append(l, e)[Len(l) + 1] = e /\ Last(Append(l, e)) = e
         /\ \A i \in 1 .. Len(l) : Append(l, e)[i] = l[i]
BY AppendProperties DEF Last

LEMMA PrefixFacts ==
  ASSUME NEW S, NEW l \in Seq(S), NEW n \in Nat, n <= Len(l)
  PROVE  /\ SubSeq(l, 1, n) \in Seq(S) /\ Len(SubSeq(l, 1, n)) = n
         /\ DOMAIN SubSeq(l, 1, n) = 1 .. n
         /\ \A i \in 1 .. n : SubSeq(l, 1, n)[i] = l[i] /\ l[i] \in S
<1>1. \A i \in 1 .. n : l[i] \in S
  OBVIOUS
<1>2. /\ SubSeq(l, 1, n) \in Seq(S)
      /\ Len(SubSeq(l, 1, n)) = IF 1 <= n THEN n - 1 + 1 ELSE 0
      /\ \A i \in 1 .. n - 1 + 1 : SubSeq(l, 1, n)[i] = l[1 + i - 1]
  BY <1>1, SubSeqProperties
<1>3. Len(SubSeq(l, 1, n)) = n
  BY <1>2
<1> QED
  BY <1>1, <1>2, <1>3

-----------------------------------------------------------------------------
(* The folder *)

(* What an archive whose name is at most n may be. *)
Entries(n) == [name : 1 .. n, whole : BOOLEAN, exact : BOOLEAN, stuck : BOOLEAN]

NamesOf(f) == {a.name : a \in f}

(* After the name m come at most n - m of the names up to n. *)
LEMMA NewerFacts ==
  ASSUME NEW n \in Nat, NEW f, NamesOf(f) \subseteq 1 .. n, NEW m \in 1 .. n
  PROVE  /\ IsFiniteSet(Newer(f, m)) /\ Cardinality(Newer(f, m)) \in Nat
         /\ Cardinality(Newer(f, m)) <= n - m
<1>1. Newer(f, m) \subseteq m + 1 .. n
  BY DEF Newer, NamesOf
<1>2. /\ IsFiniteSet(m + 1 .. n)
      /\ Cardinality(m + 1 .. n) = IF m + 1 > n THEN 0 ELSE n - (m + 1) + 1
  BY FS_Interval
<1>3. /\ IsFiniteSet(Newer(f, m))
      /\ Cardinality(Newer(f, m)) <= Cardinality(m + 1 .. n)
  BY <1>1, <1>2, FS_Subset
<1>4. Cardinality(Newer(f, m)) \in Nat
  BY <1>3, FS_CardinalityType
<1>5. Cardinality(m + 1 .. n) = n - m
  BY <1>2
<1> QED
  BY <1>3, <1>4, <1>5

(* Fewer names, fewer newer ones. *)
LEMMA NewerMonotone ==
  ASSUME NEW n \in Nat, NEW f, NEW g, NamesOf(f) \subseteq NamesOf(g), NamesOf(g) \subseteq 1 .. n,
         NEW m \in 1 .. n
  PROVE  Cardinality(Newer(f, m)) <= Cardinality(Newer(g, m))
<1>1. Newer(f, m) \subseteq Newer(g, m)
  BY DEF Newer, NamesOf
<1>2. IsFiniteSet(Newer(g, m))
  BY NewerFacts
<1> QED
  BY <1>1, <1>2, FS_Subset

LEMMA PutFacts ==
  ASSUME FolderInv, NEW n \in {named, named + 1}, NEW whole \in BOOLEAN, NEW exact \in BOOLEAN,
         NEW f, f = PutArchive(n, whole, exact)
  PROVE  /\ n \in Nat \ {0} /\ f \subseteq Entries(n)
         /\ Archived(n, whole, exact) \in f /\ Archived(n, whole, exact).name = n
         /\ \A a \in f : a = Archived(n, whole, exact) \/ (a \in folder /\ a.name < n)
         /\ \A k \in 1 .. n : Retention = 0 \/ k + Retention > n => k \in NamesOf(f)
<1>1. /\ named \in Nat \ {0} /\ n \in Nat \ {0} /\ n >= named /\ Retention \in Nat
      /\ folder \subseteq Entries(named)
  BY ArchiveAssumption DEF FolderInv, Entries
<1>2. PICK e : e = Archived(n, whole, exact)
  OBVIOUS
<1>3. e \in Entries(n) /\ e.name = n
  BY <1>1, <1>2 DEF Archived, Entries
<1>4. f = {a \in folder : a.name # n} \cup {e}
  BY <1>2 DEF PutArchive
<1>5. \A a \in folder : a \in Entries(n) /\ a.name \in 1 .. named
  BY <1>1 DEF Entries
<1>6. \A a \in f : a = e \/ (a \in folder /\ a.name < n)
  BY <1>1, <1>4, <1>5
<1>7. ASSUME NEW k \in 1 .. n, Retention = 0 \/ k + Retention > n
      PROVE  k \in NamesOf(f)
  <2>1. CASE k = n
    BY <1>3, <1>4, <2>1 DEF NamesOf
  <2>2. CASE k # n
    <3>1. k \in 1 .. named /\ (Retention = 0 \/ k + Retention > named)
      BY <1>1, <1>7, <2>2
    <3>2. PICK a \in folder : a.name = k
      BY <3>1 DEF FolderInv, RetentionKeeps
    <3> QED
      BY <1>4, <2>2, <3>2 DEF NamesOf
  <2> QED
    BY <2>1, <2>2
<1> QED
  BY <1>1, <1>2, <1>3, <1>4, <1>5, <1>6, <1>7

(* The two ways an archive comes into the folder. *)
Stuck(K) == {[a EXCEPT !.stuck = TRUE] : a \in K}

Makes == \E exact \in BOOLEAN :
    /\ named' \in NewNames
    /\ \E f, K : /\ f = PutArchive(named', TRUE, exact) /\ K \subseteq f
                 /\ folder' = Retain(f) \cup Stuck(K)
    /\ exact = \A s \in Shards : Restored(image, s) \in arch.must[s]

Lacks == named' \in NewNames /\ folder' = PutArchive(named', FALSE, FALSE)

(* What is left of a folder keeps its names and its contents. *)
LEMMA StuckFacts ==
  ASSUME NEW n \in Nat, NEW K, K \subseteq Entries(n), NEW a \in Stuck(K)
  PROVE  /\ a \in Entries(n) /\ a.stuck
         /\ \E b \in K : a.name = b.name /\ a.whole = b.whole /\ a.exact = b.exact
<1>1. PICK b \in K : a = [b EXCEPT !.stuck = TRUE]
  BY DEF Stuck
<1>2. b \in Entries(n)
  OBVIOUS
<1> QED
  BY <1>1, <1>2 DEF Entries

LEMMA FolderStep ==
  ASSUME FolderInv, Makes \/ Lacks \/ UNCHANGED <<folder, named>> PROVE FolderInv'
<1>1. named \in Nat \ {0} /\ Retention \in Nat
  BY ArchiveAssumption DEF FolderInv
<1>2. PICK n : n = named'
  OBVIOUS
<1>3. CASE Makes
  <2>0. PICK exact \in BOOLEAN :
           /\ named' \in NewNames
           /\ \E f, K : /\ f = PutArchive(named', TRUE, exact) /\ K \subseteq f
                        /\ folder' = Retain(f) \cup Stuck(K)
           /\ exact = \A s \in Shards : Restored(image, s) \in arch.must[s]
    BY <1>3 DEF Makes
  <2>1. PICK f, K : /\ named' \in NewNames /\ f = PutArchive(named', TRUE, exact) /\ K \subseteq f
                    /\ folder' = Retain(f) \cup Stuck(K)
    BY <2>0
  <2>2. n \in {named, named + 1} /\ f = PutArchive(n, TRUE, exact)
    BY <1>1, <1>2, <2>1 DEF NewNames
  <2>3. PICK yes \in BOOLEAN : yes = TRUE
    OBVIOUS
  <2>4. f = PutArchive(n, yes, exact)
    BY <2>2, <2>3
  <2>5. /\ n \in Nat \ {0} /\ f \subseteq Entries(n)
        /\ \A k \in 1 .. n : Retention = 0 \/ k + Retention > n => k \in NamesOf(f)
    BY <2>2, <2>4, PutFacts
  <2>6. PICK g : g = folder'
    OBVIOUS
  <2>7. g = Retain(f) \cup Stuck(K) /\ K \subseteq Entries(n) /\ Retain(f) \subseteq f
    BY <2>1, <2>5, <2>6 DEF Retain
  <2>8. NamesOf(f) \subseteq 1 .. n
    BY <2>5 DEF NamesOf, Entries
  <2>9. ASSUME NEW a \in g PROVE a \in Entries(n) /\ a.name \in NamesOf(f)
    <3>1. CASE a \in f
      BY <2>5, <3>1 DEF NamesOf
    <3>2. CASE a \in Stuck(K)
      <4>1. a \in Entries(n) /\ \E b \in K : a.name = b.name
        BY <2>5, <2>7, <3>2, StuckFacts
      <4> QED
        BY <2>1, <4>1 DEF NamesOf
    <3> QED
      BY <2>7, <3>1, <3>2
  <2>10. ASSUME NEW k \in 1 .. n, Retention = 0 \/ k + Retention > n
         PROVE  \E a \in g : a.name = k
    <3>1. PICK a \in f : a.name = k
      BY <2>5, <2>10 DEF NamesOf
    <3>2. PICK c \in Nat : c = Cardinality(Newer(f, k)) /\ c <= n - k
      BY <2>5, <2>8, NewerFacts
    <3>3. Retention = 0 \/ c < Retention
      BY <1>1, <2>5, <2>10, <3>2
    <3>4. a \in Retain(f)
      BY <3>1, <3>2, <3>3 DEF Retain
    <3> QED
      BY <2>7, <3>1, <3>4
  <2>11. ASSUME NEW a \in g, Retention # 0, Cardinality(Newer(g, a.name)) >= Retention
         PROVE  a.stuck
    <3>1. a.name \in 1 .. n
      BY <2>9 DEF Entries
    <3>2. NamesOf(g) \subseteq NamesOf(f)
      BY <2>9 DEF NamesOf
    <3>3. PICK m \in 1 .. n : m = a.name
      BY <3>1
    <3>4. PICK c \in Nat : c = Cardinality(Newer(f, m))
      BY <2>5, <2>8, NewerFacts
    <3>5. PICK d \in Nat : d = Cardinality(Newer(g, m))
      <4>1. NamesOf(g) \subseteq 1 .. n
        BY <2>8, <3>2
      <4> QED
        BY <2>5, <4>1, NewerFacts
    <3>6. d <= c
      BY <2>5, <2>8, <3>2, <3>4, <3>5, NewerMonotone
    <3>7. c >= Retention
      BY <1>1, <2>11, <3>3, <3>5, <3>6
    <3>8. a \notin Retain(f)
      BY <1>1, <2>11, <3>3, <3>4, <3>7 DEF Retain
    <3>9. a \in Stuck(K)
      BY <2>7, <3>8
    <3> QED
      BY <2>5, <2>7, <3>9, StuckFacts
  <2> QED
    BY <1>2, <2>5, <2>6, <2>9, <2>10, <2>11 DEF FolderInv, RetentionKeeps, Entries, Newer
<1>4. CASE Lacks
  <2>1. PICK no \in BOOLEAN : no = FALSE
    OBVIOUS
  <2>2. PICK f : f = PutArchive(n, no, no)
    OBVIOUS
  <2>3. n \in {named, named + 1} /\ folder' = f
    BY <1>1, <1>2, <1>4, <2>1, <2>2 DEF Lacks, NewNames
  <2>4. PICK e : e = Archived(n, no, no)
    OBVIOUS
  <2>5. /\ n \in Nat \ {0} /\ f \subseteq Entries(n) /\ e \in f /\ e.name = n
        /\ \A a \in f : a = e \/ (a \in folder /\ a.name < n)
        /\ \A k \in 1 .. n : Retention = 0 \/ k + Retention > n => k \in NamesOf(f)
    BY <2>2, <2>3, <2>4, PutFacts
  <2>6. ~e.whole
    BY <2>1, <2>4 DEF Archived
  <2>7. ASSUME NEW a \in f, Retention # 0, Cardinality(Newer(f, a.name)) >= Retention
        PROVE  \E b \in f : b.name > a.name /\ ~b.whole
    <3>1. CASE a = e
      <4>1. NamesOf(f) \subseteq 1 .. n
        BY <2>5 DEF NamesOf, Entries
      <4>2. Cardinality(Newer(f, n)) \in Nat /\ Cardinality(Newer(f, n)) <= n - n
        BY <2>5, <4>1, NewerFacts
      <4> QED
        BY <1>1, <2>5, <2>7, <3>1, <4>2
    <3>2. CASE a # e
      BY <2>5, <2>6, <3>2
    <3> QED
      BY <3>1, <3>2
  <2>8. \A k \in 1 .. n : Retention = 0 \/ k + Retention > n => \E a \in f : a.name = k
    BY <2>5 DEF NamesOf
  <2> QED
    BY <1>2, <2>3, <2>5, <2>7, <2>8 DEF FolderInv, RetentionKeeps, Entries, Newer
<1>5. CASE UNCHANGED <<folder, named>>
  BY <1>5 DEF FolderInv, RetentionKeeps, Newer
<1> QED
  BY <1>3, <1>4, <1>5

LEMMA FolderInit == ArchiveInit => FolderInv
<1> SUFFICES ASSUME ArchiveInit PROVE FolderInv
  OBVIOUS
<1>1. PICK a : a = Archived(1, TRUE, TRUE)
  OBVIOUS
<1>2. PICK b : b = Archived(2, FALSE, FALSE)
  OBVIOUS
<1>3. a \in Entries(2) /\ b \in Entries(2) /\ a.name = 1 /\ b.name = 2 /\ ~b.whole
  BY <1>1, <1>2 DEF Entries, Archived
<1>4. folder = {a, b} /\ named = 2 /\ Retention \in Nat
  BY <1>1, <1>2, ArchiveAssumption DEF ArchiveInit, OldFolder
<1>5. Cardinality(Newer(folder, 2)) \in Nat /\ Cardinality(Newer(folder, 2)) <= 0
  <2>1. NamesOf(folder) \subseteq 1 .. 2
    BY <1>3, <1>4 DEF NamesOf
  <2>2. Cardinality(Newer(folder, 2)) \in Nat /\ Cardinality(Newer(folder, 2)) <= 2 - 2
    BY <2>1, NewerFacts
  <2> QED
    BY <2>2
<1>6. \A n \in 1 .. named : \E c \in folder : c.name = n
  BY <1>3, <1>4
<1>7. ASSUME NEW c \in folder, Retention # 0, Cardinality(Newer(folder, c.name)) >= Retention
      PROVE  \E d \in folder : d.name > c.name /\ ~d.whole
  <2>1. CASE c = a
    BY <1>3, <1>4, <2>1
  <2>2. CASE c = b
    BY <1>3, <1>4, <1>5, <1>7, <2>2
  <2> QED
    BY <1>4, <2>1, <2>2
<1> QED
  BY <1>3, <1>4, <1>6, <1>7 DEF FolderInv, RetentionKeeps, Entries

-----------------------------------------------------------------------------
(* A shard *)

LEMMA SoundFacts ==
  ASSUME NEW sh, Sound(sh)
  PROVE  /\ sh \in ShardType /\ sh.idx \in Seq(SegIds) /\ sh.fidx \in Nat /\ sh.seg \in [SegIds -> 0 .. MaxWrites]
         /\ sh.fseg \in SUBSET SegIds /\ sh.wal \in Seq(1 .. MaxWrites) /\ sh.fwal \in Nat /\ sh.moved \in BOOLEAN
         /\ Len(sh.idx) \in Nat /\ DOMAIN sh.idx = 1 .. Len(sh.idx) /\ Len(sh.wal) \in Nat
         /\ sh.fidx <= Len(sh.idx) /\ sh.fwal <= Len(sh.wal)
         /\ sh.idx # <<>> => /\ Len(sh.idx) \in DOMAIN sh.idx /\ Last(sh.idx) \in SegIds /\ Last(sh.idx) \in Nat
                             /\ Held(sh) = sh.seg[Last(sh.idx)] /\ Held(sh) \in 1 .. MaxWrites
         /\ sh.idx = <<>> => Held(sh) = 0
<1>1. /\ sh \in ShardType /\ sh.idx \in Seq(SegIds) /\ sh.fidx \in Nat /\ sh.seg \in [SegIds -> 0 .. MaxWrites]
      /\ sh.fseg \in SUBSET SegIds /\ sh.wal \in Seq(1 .. MaxWrites) /\ sh.fwal \in Nat /\ sh.moved \in BOOLEAN
      /\ sh.fidx <= Len(sh.idx) /\ sh.fwal <= Len(sh.wal)
      /\ sh.idx # <<>> => sh.seg[Last(sh.idx)] # 0
  BY DEF Sound, ShardType
<1>2. Len(sh.idx) \in Nat /\ DOMAIN sh.idx = 1 .. Len(sh.idx) /\ Len(sh.wal) \in Nat
  BY <1>1
<1>3. ASSUME sh.idx # <<>> PROVE Len(sh.idx) \in DOMAIN sh.idx /\ Last(sh.idx) \in SegIds /\ Last(sh.idx) \in Nat
  <2>1. Len(sh.idx) \in DOMAIN sh.idx
    BY <1>1, <1>2, <1>3
  <2>2. Last(sh.idx) \in SegIds
    BY <1>1, <2>1 DEF Last
  <2> QED
    BY <2>1, <2>2, ArchiveAssumption DEF SegIds
<1>4. MaxWrites \in Nat
  BY ArchiveAssumption
<1> QED
  BY <1>1, <1>2, <1>3, <1>4 DEF Held

Values == 1 .. MaxWrites

(* The segment the next value goes to. *)
NextSeg(sh) == IF sh.idx = <<>> THEN 1 ELSE Last(sh.idx) + 1

LEMMA AppendToFacts ==
  ASSUME NEW sh, Sound(sh), NEW v \in Values, NextSeg(sh) \in SegIds, NEW r, r = AppendTo(sh, v)
  PROVE  /\ r \in ShardType /\ r.idx \in Seq(SegIds) /\ r.idx = Append(sh.idx, NextSeg(sh)) /\ r.idx # <<>>
         /\ Len(r.idx) = Len(sh.idx) + 1 /\ Last(r.idx) = NextSeg(sh)
         /\ r.seg = [sh.seg EXCEPT ![NextSeg(sh)] = v] /\ r.fidx = sh.fidx /\ r.fseg = sh.fseg
         /\ r.wal = sh.wal /\ r.fwal = sh.fwal /\ r.moved = sh.moved
         /\ Files(r) = Files(sh) \cup {NextSeg(sh)} /\ Held(r) = v
         /\ \A i \in Files(sh) : i < NextSeg(sh)
<1>0. /\ sh \in ShardType /\ sh.idx \in Seq(SegIds) /\ sh.seg \in [SegIds -> 0 .. MaxWrites]
      /\ sh.idx # <<>> => Last(sh.idx) \in Nat
  BY SoundFacts
<1>1. PICK i \in SegIds : i = NextSeg(sh)
  OBVIOUS
<1>2. r = [sh EXCEPT !.seg[i] = v, !.idx = Append(@, i)]
  BY <1>1 DEF AppendTo, NextSeg
<1>3. /\ r.idx = Append(sh.idx, i) /\ r.seg = [sh.seg EXCEPT ![i] = v] /\ r.fidx = sh.fidx /\ r.fseg = sh.fseg
      /\ r.wal = sh.wal /\ r.fwal = sh.fwal /\ r.moved = sh.moved
  BY <1>0, <1>2 DEF ShardType
<1>4. v \in 0 .. MaxWrites /\ v # 0 /\ MaxWrites \in Nat
  BY ArchiveAssumption DEF Values
<1>5. r \in ShardType
  <2>1. Append(sh.idx, i) \in Seq(SegIds) /\ [sh.seg EXCEPT ![i] = v] \in [SegIds -> 0 .. MaxWrites]
    BY <1>0, <1>4, AppendFacts
  <2>2. r = [idx |-> r.idx, fidx |-> sh.fidx, seg |-> r.seg, fseg |-> sh.fseg,
             wal |-> sh.wal, fwal |-> sh.fwal, moved |-> sh.moved]
    BY <1>0, <1>2 DEF ShardType
  <2> QED
    BY <1>0, <1>3, <2>1, <2>2 DEF ShardType
<1>6. Len(r.idx) = Len(sh.idx) + 1 /\ Last(r.idx) = i /\ r.idx # <<>> /\ r.idx \in Seq(SegIds)
  BY <1>0, <1>3, AppendFacts
<1>7. Files(r) = Files(sh) \cup {i}
  BY <1>0, <1>3, <1>4 DEF Files
<1>8. Held(r) = v
  BY <1>0, <1>3, <1>6 DEF Held
<1>9. \A j \in Files(sh) : j < i
  <2>1. sh.idx = <<>> => Files(sh) = {}
    BY DEF Sound
  <2>2. ASSUME sh.idx # <<>>, NEW j \in Files(sh) PROVE j < i
    <3>1. j <= Last(sh.idx) /\ i = Last(sh.idx) + 1
      BY <1>1, <2>2 DEF Sound, NextSeg
    <3>2. j \in Nat
      BY ArchiveAssumption DEF Files, SegIds
    <3> QED
      BY <1>0, <2>2, <3>1, <3>2
  <2> QED
    BY <2>1, <2>2
<1> QED
  BY <1>1, <1>3, <1>5, <1>6, <1>7, <1>8, <1>9

LEMMA WrittenSound ==
  ASSUME NEW sh, Sound(sh), NEW v \in Values, NextSeg(sh) \in SegIds,
         NEW r, r = Written(sh, v)
  PROVE  Sound(r) /\ r.idx = Append(sh.idx, NextSeg(sh)) /\ Last(r.idx) = NextSeg(sh) /\ r.idx # <<>>
         /\ r.seg = [sh.seg EXCEPT ![NextSeg(sh)] = v] /\ \A i \in Files(sh) : i < NextSeg(sh)
<1>1. PICK a : a = AppendTo(sh, v)
  OBVIOUS
<1>2. /\ a \in ShardType /\ a.idx \in Seq(SegIds) /\ a.idx = Append(sh.idx, NextSeg(sh)) /\ a.idx # <<>>
      /\ Len(a.idx) = Len(sh.idx) + 1 /\ Last(a.idx) = NextSeg(sh)
      /\ a.seg = [sh.seg EXCEPT ![NextSeg(sh)] = v] /\ a.fidx = sh.fidx /\ a.fseg = sh.fseg
      /\ a.wal = sh.wal /\ a.fwal = sh.fwal /\ a.moved = sh.moved
      /\ Files(a) = Files(sh) \cup {NextSeg(sh)} /\ Held(a) = v
      /\ \A i \in Files(sh) : i < NextSeg(sh)
  BY <1>1, AppendToFacts
<1>3. /\ sh.wal \in Seq(1 .. MaxWrites) /\ Len(sh.idx) \in Nat /\ Len(sh.wal) \in Nat
      /\ sh.fidx \in Nat /\ sh.fwal \in Nat /\ sh.fidx <= Len(sh.idx) /\ sh.fwal <= Len(sh.wal)
  BY SoundFacts
<1>4. PICK l : l = Append(sh.wal, v)
  OBVIOUS
<1>5. l \in Seq(1 .. MaxWrites) /\ Len(l) = Len(sh.wal) + 1 /\ l # <<>> /\ Last(l) = v
  <2>1. PICK W : W = 1 .. MaxWrites
    OBVIOUS
  <2>2. sh.wal \in Seq(W) /\ v \in W
    BY <1>3, <2>1 DEF Values
  <2>3. l \in Seq(W) /\ Len(l) = Len(sh.wal) + 1 /\ l # <<>> /\ Last(l) = v
    BY <1>4, <2>2, AppendFacts
  <2> QED
    BY <2>1, <2>3
<1>6. r = [a EXCEPT !.wal = l]
  BY <1>1, <1>2, <1>4 DEF Written
<1>7. /\ r \in ShardType /\ r.idx = a.idx /\ r.seg = a.seg /\ r.fidx = a.fidx /\ r.fwal = a.fwal
      /\ r.wal = l
  BY <1>2, <1>5, <1>6 DEF ShardType
<1>8. Files(r) = Files(a) /\ Held(r) = v
  <2>1. Files(r) = Files(a)
    BY <1>7 DEF Files
  <2>2. Held(r) = Held(a)
    BY <1>7 DEF Held
  <2> QED
    BY <1>2, <2>1, <2>2
<1>9. \A i \in Files(r) : i <= Last(r.idx)
  <2>1. SegIds \subseteq Nat
    BY ArchiveAssumption DEF SegIds
  <2>2. Files(sh) \subseteq Nat /\ NextSeg(sh) \in Nat
    BY <2>1 DEF Files
  <2>3. PICK n \in Nat : n = NextSeg(sh)
    BY <2>2
  <2>4. Files(r) = Files(sh) \cup {n} /\ Last(r.idx) = n /\ \A i \in Files(sh) : i < n
    BY <1>2, <1>7, <1>8, <2>3
  <2> QED
    BY <2>2, <2>4
<1>10. r.seg[Last(r.idx)] # 0
  <2>1. v # 0
    BY ArchiveAssumption DEF Values
  <2> QED
    BY <1>2, <1>7, <1>8, <2>1 DEF Held
<1>11. r.fidx <= Len(r.idx) /\ r.fwal <= Len(r.wal)
  BY <1>2, <1>3, <1>5, <1>7
<1> QED
  BY <1>2, <1>5, <1>7, <1>8, <1>9, <1>10, <1>11 DEF Sound

LEMMA FlushedSound ==
  ASSUME NEW sh, Sound(sh), NEW r, r = Flushed(sh)
  PROVE  /\ Sound(r) /\ r.idx = sh.idx /\ r.seg = sh.seg /\ r.wal = sh.wal /\ Forced(r) /\ r.moved = FALSE
         /\ r.fwal = sh.fwal
<1>1. /\ sh \in ShardType /\ sh.idx \in Seq(SegIds) /\ sh.seg \in [SegIds -> 0 .. MaxWrites] /\ Len(sh.idx) \in Nat
      /\ sh.idx # <<>> => Last(sh.idx) \in SegIds
  BY SoundFacts
<1>2. Files(sh) \in SUBSET SegIds
  BY DEF Files
<1>3. /\ r \in ShardType /\ r.idx = sh.idx /\ r.seg = sh.seg /\ r.wal = sh.wal /\ r.fwal = sh.fwal
      /\ r.fidx = Len(sh.idx) /\ r.fseg = Files(sh) /\ r.moved = FALSE
  BY <1>1, <1>2 DEF Flushed, ShardType
<1>4. Files(r) = Files(sh) /\ Held(r) = Held(sh)
  BY <1>3 DEF Files, Held
<1>5. sh.idx # <<>> => Last(sh.idx) \in Files(sh)
  BY <1>1 DEF Sound, Files
<1>6. Forced(r)
  BY <1>3, <1>5 DEF Forced
<1> QED
  BY <1>1, <1>3, <1>4, <1>6 DEF Sound

LEMMA ClearedSound ==
  ASSUME NEW sh, Sound(sh), Forced(sh), NEW r, r = [sh EXCEPT !.wal = <<>>, !.fwal = 0]
  PROVE  /\ Sound(r) /\ r.idx = sh.idx /\ r.seg = sh.seg /\ r.wal = <<>> /\ r.fwal = 0
         /\ r.moved = sh.moved
<1>1. sh \in ShardType
  BY DEF Sound
<1>2. <<>> \in Seq(1 .. MaxWrites) /\ Len(<<>>) = 0
  OBVIOUS
<1>3. /\ r \in ShardType /\ r.idx = sh.idx /\ r.seg = sh.seg /\ r.fidx = sh.fidx /\ r.fseg = sh.fseg
      /\ r.wal = <<>> /\ r.fwal = 0 /\ r.moved = sh.moved
  BY <1>1, <1>2 DEF ShardType
<1>4. Files(r) = Files(sh) /\ Held(r) = Held(sh) /\ Forced(r)
  BY <1>3 DEF Files, Held, Forced
<1> QED
  BY <1>2, <1>3, <1>4 DEF Sound

LEMMA OnlyUsedSound ==
  ASSUME NEW sh, Sound(sh), sh.idx # <<>>, NEW r, r = OnlyUsed(sh)
  PROVE  Sound(r) /\ r.idx = sh.idx
<1>0. PICK n : n = Last(sh.idx)
  OBVIOUS
<1>1. /\ sh \in ShardType /\ sh.seg \in [SegIds -> 0 .. MaxWrites] /\ n \in SegIds /\ n \in Nat /\ sh.seg[n] # 0
  BY <1>0, SoundFacts DEF Sound
<1>2. PICK g : g = [i \in SegIds |-> IF i = n THEN sh.seg[i] ELSE 0]
  OBVIOUS
<1>3. g \in [SegIds -> 0 .. MaxWrites] /\ g[n] = sh.seg[n] /\ \A i \in SegIds : i # n => g[i] = 0
  <2>1. 0 \in 0 .. MaxWrites
    BY ArchiveAssumption
  <2> QED
    BY <1>1, <1>2, <2>1
<1>4. /\ r \in ShardType /\ r.idx = sh.idx /\ r.seg = g /\ r.fidx = sh.fidx /\ r.fseg = sh.fseg \cap {n}
      /\ r.wal = sh.wal /\ r.fwal = sh.fwal /\ r.moved = sh.moved
  BY <1>0, <1>1, <1>2, <1>3 DEF OnlyUsed, ShardType
<1>5. \A i \in Files(r) : i = n
  BY <1>3, <1>4 DEF Files
<1>6. Held(r) = Held(sh)
  BY <1>0, <1>3, <1>4 DEF Held
<1>7. Forced(sh) => Forced(r)
  BY <1>0, <1>4 DEF Forced
<1> QED
  BY <1>0, <1>1, <1>3, <1>4, <1>5, <1>6, <1>7 DEF Sound

LEMMA IndexCompactedSound ==
  ASSUME NEW sh, Sound(sh), sh.idx # <<>>, NEW r \in IndexCompacted(sh)
  PROVE  Sound(r) /\ r.idx # <<>> /\ Last(r.idx) = Last(sh.idx)
<1>1. CASE r = sh
  BY <1>1
<1>2. CASE r = [sh EXCEPT !.idx = <<Last(@)>>, !.fidx = 1]
  <2>1. PICK n \in SegIds : n = Last(sh.idx)
    BY SoundFacts
  <2>2. PICK l : l = <<n>>
    OBVIOUS
  <2>3. l \in Seq(SegIds) /\ Len(l) = 1 /\ l # <<>> /\ Last(l) = n
    BY <2>2 DEF Last
  <2>4. sh \in ShardType
    BY DEF Sound
  <2>5. /\ r \in ShardType /\ r.idx = l /\ r.seg = sh.seg /\ r.fidx = 1 /\ r.fseg = sh.fseg
        /\ r.wal = sh.wal /\ r.fwal = sh.fwal /\ r.moved = sh.moved
    BY <1>2, <2>1, <2>2, <2>3, <2>4 DEF ShardType
  <2>6. Files(r) = Files(sh)
    BY <2>5 DEF Files
  <2>7. Held(r) = Held(sh)
    BY <2>1, <2>3, <2>5 DEF Held
  <2>8. Forced(sh) => Forced(r)
    BY <2>1, <2>3, <2>5 DEF Forced
  <2> QED
    BY <2>1, <2>3, <2>5, <2>6, <2>7, <2>8 DEF Sound
<1> QED
  BY <1>1, <1>2 DEF IndexCompacted

LEMMA MovedSound ==
  ASSUME NEW sh, Sound(sh), sh.idx # <<>>, NextSeg(sh) \in SegIds,
         NEW r, r = Moved(sh)
  PROVE  Sound(r) /\ r.idx # <<>> /\ Last(r.idx) = Last(sh.idx) + 1
<1>1. PICK v \in Values : v = Held(sh)
  BY SoundFacts DEF Values
<1>2. v \in Values
  OBVIOUS
<1>3. PICK a : a = AppendTo(sh, v)
  OBVIOUS
<1>4. /\ a \in ShardType /\ a.idx \in Seq(SegIds) /\ a.idx = Append(sh.idx, NextSeg(sh)) /\ a.idx # <<>>
      /\ Len(a.idx) = Len(sh.idx) + 1 /\ Last(a.idx) = NextSeg(sh)
      /\ a.seg = [sh.seg EXCEPT ![NextSeg(sh)] = v] /\ a.fidx = sh.fidx /\ a.fseg = sh.fseg
      /\ a.wal = sh.wal /\ a.fwal = sh.fwal /\ a.moved = sh.moved
      /\ Files(a) = Files(sh) \cup {NextSeg(sh)} /\ Held(a) = v
      /\ \A i \in Files(sh) : i < NextSeg(sh)
  BY <1>2, <1>3, AppendToFacts
<1>5. /\ Len(sh.idx) \in Nat /\ Len(sh.wal) \in Nat
      /\ sh.fidx \in Nat /\ sh.fwal \in Nat /\ sh.fidx <= Len(sh.idx) /\ sh.fwal <= Len(sh.wal)
  BY SoundFacts
<1>6. /\ r \in ShardType /\ r.idx = a.idx /\ r.seg = a.seg /\ r.fidx = a.fidx /\ r.fwal = a.fwal
      /\ r.wal = a.wal /\ r.moved = TRUE
  <2>1. r = [a EXCEPT !.moved = TRUE]
    BY <1>1, <1>3 DEF Moved
  <2> QED
    BY <1>4, <2>1 DEF ShardType
<1>7. Files(r) = Files(a)
  BY <1>6 DEF Files
<1>8. Held(r) = Held(a)
  BY <1>6 DEF Held
<1>9. \A i \in Files(r) : i <= Last(r.idx)
  <2>1. SegIds \subseteq Nat
    BY ArchiveAssumption DEF SegIds
  <2>2. Files(sh) \subseteq Nat
    BY <2>1 DEF Files
  <2>3. PICK n \in Nat : n = NextSeg(sh)
    BY <2>1
  <2>4. Files(r) = Files(sh) \cup {n} /\ Last(r.idx) = n /\ \A i \in Files(sh) : i < n
    BY <1>4, <1>6, <1>7, <2>3
  <2> QED
    BY <2>2, <2>4
<1>10. r.seg[Last(r.idx)] # 0
  <2>1. Held(a) = a.seg[Last(a.idx)]
    BY <1>4 DEF Held
  <2>2. v # 0
    BY <1>2, ArchiveAssumption DEF Values
  <2> QED
    BY <1>4, <1>6, <2>1, <2>2
<1>11. r.fidx <= Len(r.idx) /\ r.fwal <= Len(r.wal)
  BY <1>4, <1>5, <1>6
<1>12. sh.wal # <<>> => Last(sh.wal) = v
  BY <1>1 DEF Sound
<1>13. Last(r.idx) = Last(sh.idx) + 1
  BY <1>4, <1>6 DEF NextSeg
<1> QED
  BY <1>4, <1>6, <1>8, <1>9, <1>10, <1>11, <1>12, <1>13 DEF Sound

LEMMA CompactedSound ==
  ASSUME NEW sh, Sound(sh), sh.idx # <<>>, NextSeg(sh) \in SegIds,
         NEW r \in UNION {Compacted(c) : c \in IndexCompacted(sh)}
  PROVE  Sound(r) /\ r.idx # <<>> /\ Last(r.idx) \in {Last(sh.idx), Last(sh.idx) + 1}
<1>1. PICK c \in IndexCompacted(sh) : r \in Compacted(c)
  OBVIOUS
<1>2. Sound(c) /\ c.idx # <<>> /\ Last(c.idx) = Last(sh.idx) /\ NextSeg(c) \in SegIds
  BY IndexCompactedSound DEF NextSeg
<1>3. PICK m : m = Moved(c)
  OBVIOUS
<1>4. Sound(m) /\ m.idx # <<>> /\ Last(m.idx) = Last(sh.idx) + 1
  BY <1>2, <1>3, MovedSound
<1>5. CASE r = OnlyUsed(c)
  BY <1>2, <1>5, OnlyUsedSound
<1>6. CASE r = OnlyUsed(Flushed(m))
  <2>1. PICK f : f = Flushed(m)
    OBVIOUS
  <2>2. Sound(f) /\ f.idx = m.idx
    BY <1>4, <2>1, FlushedSound
  <2> QED
    BY <1>4, <1>6, <2>1, <2>2, OnlyUsedSound
<1>7. CASE r = m
  BY <1>4, <1>7
<1> QED
  BY <1>1, <1>3, <1>5, <1>6, <1>7 DEF Compacted

(* What FlushShards leaves of each shard. *)
LEMMA FlushShardsSound ==
  ASSUME NEW S \in SUBSET Shards, NEW s \in Shards, Sound(shard[s]), NEW r, r = FlushShards(S)[s]
  PROVE  /\ Sound(r) /\ r.idx = shard[s].idx /\ r.seg = shard[s].seg
         /\ S = Shards => r.wal = <<>> /\ r.moved = FALSE /\ r.fwal = 0
<1>0. PICK f : f = Flushed(shard[s])
  OBVIOUS
<1>1. Sound(f) /\ f.idx = shard[s].idx /\ f.seg = shard[s].seg /\ Forced(f) /\ f.moved = FALSE
  BY <1>0, FlushedSound
<1>2. r = IF S = Shards THEN [f EXCEPT !.wal = <<>>, !.fwal = 0]
          ELSE IF s \in S THEN f ELSE shard[s]
  BY <1>0 DEF FlushShards
<1>3. CASE S = Shards
  <2>1. PICK c : c = [f EXCEPT !.wal = <<>>, !.fwal = 0]
    OBVIOUS
  <2>2. Sound(c) /\ c.idx = f.idx /\ c.seg = f.seg /\ c.wal = <<>> /\ c.fwal = 0 /\ c.moved = f.moved
    BY <1>1, <2>1, ClearedSound
  <2> QED
    BY <1>1, <1>2, <1>3, <2>1, <2>2
<1>4. CASE S # Shards
  BY <1>1, <1>2, <1>4
<1> QED
  BY <1>3, <1>4

(* What the invariant gives for one shard. *)
LEMMA RoomFacts ==
  ASSUME ShardsInv, NEW s \in Shards
  PROVE  /\ shard[s] \in ShardType /\ Sound(shard[s]) /\ Room(s) /\ Newest(shard[s]) \in Nat
         /\ NextSeg(shard[s]) = Newest(shard[s]) + 1
         /\ shard[s].idx # <<>> => Newest(shard[s]) = Last(shard[s].idx)
         /\ compactor[s] \in {"idle", "waiting", "holding"}
         /\ writes \in Nat /\ compactions \in Nat /\ writes <= MaxWrites /\ compactions <= MaxCompactions
         /\ MaxWrites \in Nat /\ MaxCompactions \in Nat
         /\ \A n \in Nat : n + 1 <= MaxWrites + MaxCompactions => n + 1 \in SegIds
<1>1. MaxWrites \in Nat /\ MaxCompactions \in Nat
  BY ArchiveAssumption
<1>2. shard[s] \in ShardType /\ Sound(shard[s]) /\ Room(s) /\ compactor[s] \in {"idle", "waiting", "holding"}
  BY DEF ShardsInv
<1>3. shard[s].idx # <<>> => Last(shard[s].idx) \in Nat
  BY <1>2, SoundFacts
<1>4. writes \in Nat /\ compactions \in Nat /\ writes <= MaxWrites /\ compactions <= MaxCompactions
  BY <1>1 DEF ShardsInv
<1>5. \A n \in Nat : n + 1 <= MaxWrites + MaxCompactions => n + 1 \in SegIds
  BY <1>1 DEF SegIds
<1> QED
  BY <1>1, <1>2, <1>3, <1>4, <1>5 DEF Newest, NextSeg

(* A command leaves the index entries and the segments there are as they are. *)
LEMMA WriteFacts ==
  ASSUME ShardsInv, NEW s \in Shards, Write(s)
  PROVE  /\ Sound(shard[s]') /\ NextSeg(shard[s]) \in SegIds
         /\ shard[s]'.idx = Append(shard[s].idx, NextSeg(shard[s])) /\ Newest(shard[s]') = NextSeg(shard[s])
         /\ shard[s]'.seg = [shard[s].seg EXCEPT ![NextSeg(shard[s])] = writes + 1] /\ writes + 1 \in 1 .. MaxWrites
         /\ \A i \in Files(shard[s]) : i < NextSeg(shard[s])
         /\ \A t \in Shards : t # s => shard[t]' = shard[t]
         /\ shard' \in [Shards -> ShardType]
<1>1. PICK sh : sh = shard[s]
  OBVIOUS
<1>2. PICK v : v = writes + 1 /\ v \in Values
  <2>1. writes + 1 \in Values
    BY RoomFacts DEF Write, Values
  <2> QED
    BY <2>1
<1>3. Sound(sh) /\ NextSeg(sh) \in SegIds
  <2>1. PICK n \in Nat : n = Newest(sh)
    BY <1>1, RoomFacts
  <2>2. n <= writes + compactions /\ writes < MaxWrites
    BY <1>1, <2>1, RoomFacts DEF Room, Write
  <2>3. n + 1 <= MaxWrites + MaxCompactions
    BY <2>2, RoomFacts
  <2> QED
    BY <1>1, <2>1, <2>3, RoomFacts
<1>4. PICK r : r = Written(sh, v)
  OBVIOUS
<1>5. /\ Sound(r) /\ r.idx = Append(sh.idx, NextSeg(sh)) /\ Last(r.idx) = NextSeg(sh) /\ r.idx # <<>>
      /\ r.seg = [sh.seg EXCEPT ![NextSeg(sh)] = v] /\ \A i \in Files(sh) : i < NextSeg(sh)
  BY <1>2, <1>3, <1>4, WrittenSound
<1>6. shard \in [Shards -> ShardType] /\ shard' = [shard EXCEPT ![s] = r]
  <2>1. shard' = [shard EXCEPT ![s] = Written(@, writes + 1)] /\ shard \in [Shards -> ShardType]
    BY DEF Write, ShardsInv
  <2> QED
    BY <1>1, <1>2, <1>4, <2>1
<1>7. shard[s]' = r /\ \A t \in Shards : t # s => shard[t]' = shard[t]
  BY <1>6
<1>8. shard' \in [Shards -> ShardType]
  BY <1>5, <1>6 DEF Sound
<1> QED
  BY <1>1, <1>2, <1>3, <1>5, <1>7, <1>8 DEF Newest, Values

LEMMA FlushStep ==
  ASSUME ShardsInv, NEW S \in SUBSET Shards, shard' = FlushShards(S)
  PROVE  /\ shard' \in [Shards -> ShardType]
         /\ \A s \in Shards : Sound(shard[s]') /\ shard[s]'.idx = shard[s].idx /\ shard[s]'.seg = shard[s].seg
         /\ S = Shards => \A s \in Shards : shard[s]'.wal = <<>> /\ shard[s]'.moved = FALSE /\ shard[s]'.fwal = 0
<1>1. ASSUME NEW s \in Shards
      PROVE  /\ Sound(shard[s]') /\ shard[s]'.idx = shard[s].idx /\ shard[s]'.seg = shard[s].seg
             /\ S = Shards => shard[s]'.wal = <<>> /\ shard[s]'.moved = FALSE /\ shard[s]'.fwal = 0
             /\ shard[s]' \in ShardType
  <2>1. Sound(shard[s])
    BY DEF ShardsInv
  <2>2. PICK r : r = FlushShards(S)[s]
    OBVIOUS
  <2>3. /\ Sound(r) /\ r.idx = shard[s].idx /\ r.seg = shard[s].seg
        /\ S = Shards => r.wal = <<>> /\ r.moved = FALSE /\ r.fwal = 0
    BY <2>1, <2>2, FlushShardsSound
  <2>4. r \in ShardType
    BY <2>3 DEF Sound
  <2> QED
    BY <2>2, <2>3, <2>4
<1>2. shard' = [s \in Shards |-> shard[s]']
  BY DEF FlushShards
<1>3. shard' \in [Shards -> ShardType]
  BY <1>1, <1>2
<1> QED
  BY <1>1, <1>3

LEMMA SyncStep ==
  ASSUME ShardsInv, SyncWAL
  PROVE  /\ shard' \in [Shards -> ShardType]
         /\ \A s \in Shards : Sound(shard[s]') /\ shard[s]'.idx = shard[s].idx /\ shard[s]'.seg = shard[s].seg
<1>1. ASSUME NEW s \in Shards
      PROVE  Sound(shard[s]') /\ shard[s]'.idx = shard[s].idx /\ shard[s]'.seg = shard[s].seg
             /\ shard[s]' \in ShardType
  <2>1. PICK sh : sh = shard[s]
    OBVIOUS
  <2>2. Sound(sh) /\ sh \in ShardType /\ Len(sh.wal) \in Nat
    BY <2>1, RoomFacts, SoundFacts
  <2>3. PICK r : r = [sh EXCEPT !.fwal = Len(sh.wal)]
    OBVIOUS
  <2>4. /\ r \in ShardType /\ r.idx = sh.idx /\ r.fidx = sh.fidx /\ r.seg = sh.seg /\ r.fseg = sh.fseg
        /\ r.wal = sh.wal /\ r.fwal = Len(sh.wal) /\ r.moved = sh.moved
    BY <2>2, <2>3 DEF ShardType
  <2>5. Files(r) = Files(sh) /\ Held(r) = Held(sh) /\ (Forced(sh) => Forced(r))
    BY <2>4 DEF Files, Held, Forced
  <2>6. Sound(r)
    BY <2>2, <2>4, <2>5 DEF Sound
  <2>7. shard[s]' = r
    BY <2>1, <2>3 DEF SyncWAL
  <2> QED
    BY <2>1, <2>4, <2>6, <2>7
<1>2. shard' = [s \in Shards |-> shard[s]']
  BY DEF SyncWAL
<1> QED
  BY <1>1, <1>2

(* A compactor moves one value at most and is idle then. *)
LEMMA CompactStep ==
  ASSUME ShardsInv, NEW s \in Shards, Compact(s) PROVE ShardsInv'
<1>1. compactor[s] = "holding" /\ compactor' = [compactor EXCEPT ![s] = "idle"] /\ UNCHANGED bounds
  BY DEF Compact
<1>2. writes' = writes /\ compactions' = compactions
  BY <1>1 DEF bounds
<1>3. compactor' \in [Shards -> {"idle", "waiting", "holding"}] /\ compactor[s]' = "idle"
      /\ \A t \in Shards : t # s => compactor[t]' = compactor[t]
  BY <1>1 DEF ShardsInv
<1>4. /\ shard' \in [Shards -> ShardType] /\ Sound(shard[s]') /\ Newest(shard[s]') <= Newest(shard[s]) + 1
      /\ Newest(shard[s]') \in Nat
      /\ \A t \in Shards : t # s => shard[t]' = shard[t]
  <2>1. CASE shard[s].idx = <<>>
    <3>1. shard' = shard
      BY <2>1 DEF Compact
    <3>2. shard \in [Shards -> ShardType] /\ Sound(shard[s]) /\ Newest(shard[s]) \in Nat
      BY RoomFacts DEF ShardsInv
    <3> QED
      BY <3>1, <3>2
  <2>2. CASE shard[s].idx # <<>>
    <3>1. PICK r \in UNION {Compacted(c) : c \in IndexCompacted(shard[s])} : shard' = [shard EXCEPT ![s] = r]
      BY <2>2 DEF Compact
    <3>2. NextSeg(shard[s]) \in SegIds
      <4>1. PICK n \in Nat : n = Newest(shard[s])
        BY RoomFacts
      <4>2. n + 1 <= MaxWrites + MaxCompactions
        BY <1>1, <4>1, RoomFacts DEF Room
      <4> QED
        BY <4>1, <4>2, RoomFacts
    <3>3. Sound(shard[s])
      BY RoomFacts
    <3>4. Sound(r) /\ r.idx # <<>> /\ Last(r.idx) \in {Last(shard[s].idx), Last(shard[s].idx) + 1}
      BY <2>2, <3>2, <3>3, CompactedSound
    <3>5. Newest(r) \in Nat /\ Newest(r) <= Newest(shard[s]) + 1
      BY <2>2, <3>4, RoomFacts DEF Newest
    <3>6. shard \in [Shards -> ShardType] /\ r \in ShardType
      BY <3>4 DEF ShardsInv, Sound
    <3> QED
      BY <3>1, <3>4, <3>5, <3>6
  <2> QED
    BY <2>1, <2>2
<1>5. ASSUME NEW t \in Shards PROVE Sound(shard[t]') /\ Room(t)'
  <2>1. CASE t = s
    BY <1>1, <1>2, <1>3, <1>4, <2>1, RoomFacts DEF Room
  <2>2. CASE t # s
    <3>1. shard[t]' = shard[t] /\ compactor[t]' = compactor[t] /\ Sound(shard[t]) /\ Room(t)
      BY <1>3, <1>4, <2>2, RoomFacts
    <3> QED
      BY <1>2, <3>1 DEF Room
  <2> QED
    BY <2>1, <2>2
<1>6. writes' \in 0 .. MaxWrites /\ compactions' \in 0 .. MaxCompactions
  BY <1>2 DEF ShardsInv
<1> QED
  BY <1>3, <1>4, <1>5, <1>6 DEF ShardsInv

(* A step that touches neither the segments nor the compactors. *)
LEMMA SameSegments ==
  ASSUME ShardsInv, UNCHANGED <<compactor, writes, compactions>>, shard' \in [Shards -> ShardType],
         \A s \in Shards : Sound(shard[s]') /\ shard[s]'.idx = shard[s].idx
  PROVE  ShardsInv'
<1>1. ASSUME NEW s \in Shards PROVE Room(s)'
  <2>1. Newest(shard[s]') = Newest(shard[s])
    BY DEF Newest
  <2> QED
    BY <2>1, RoomFacts DEF Room
<1> QED
  BY <1>1 DEF ShardsInv

LEMMA WriteStep ==
  ASSUME ShardsInv, NEW s \in Shards, Write(s) PROVE ShardsInv'
<1>1. writes' = writes + 1 /\ compactions' = compactions /\ compactor' = compactor
  BY DEF Write
<1>2. ASSUME NEW t \in Shards PROVE Sound(shard[t]') /\ Room(t)'
  <2>1. CASE t = s
    <3>1. Sound(shard[s]') /\ Newest(shard[s]') = Newest(shard[s]) + 1
      BY WriteFacts, RoomFacts
    <3> QED
      BY <1>1, <2>1, <3>1, RoomFacts DEF Room
  <2>2. CASE t # s
    <3>1. shard[t]' = shard[t]
      BY <2>2, WriteFacts
    <3> QED
      BY <1>1, <3>1, RoomFacts DEF Room
  <2> QED
    BY <2>1, <2>2
<1>3. writes' \in 0 .. MaxWrites
  BY <1>1, RoomFacts DEF Write
<1> QED
  BY <1>1, <1>2, <1>3, WriteFacts DEF ShardsInv

LEMMA CompactorStep ==
  ASSUME ShardsInv, NEW s \in Shards, CompactorWakes(s) \/ CompactorLocks(s) PROVE ShardsInv'
<1>1. shard' = shard /\ writes' = writes /\ compactions' \in 0 .. MaxCompactions
  BY RoomFacts DEF CompactorWakes, CompactorLocks, bounds, ShardsInv
<1>2. compactor' \in [Shards -> {"idle", "waiting", "holding"}]
  BY DEF CompactorWakes, CompactorLocks, ShardsInv
<1>3. ASSUME NEW t \in Shards PROVE Room(t)'
  <2>1. PICK n \in Nat : n = Newest(shard[t])
    BY RoomFacts
  <2>2. Newest(shard[t]') = n
    BY <1>1, <2>1
  <2>3. n + (IF compactor[t] = "idle" THEN 0 ELSE 1) <= writes + compactions /\ writes \in Nat /\ compactions \in Nat
    BY <2>1, RoomFacts DEF Room
  <2>4. CASE CompactorWakes(s)
    <3>1. compactions' = compactions + 1 /\ compactor' = [compactor EXCEPT ![s] = "waiting"] /\ compactor[s] = "idle"
          /\ compactor \in [Shards -> {"idle", "waiting", "holding"}]
      BY <2>4 DEF CompactorWakes, ShardsInv
    <3>2. compactor[t]' = IF t = s THEN "waiting" ELSE compactor[t]
      BY <3>1
    <3> QED
      BY <1>1, <2>2, <2>3, <3>1, <3>2 DEF Room
  <2>5. CASE CompactorLocks(s)
    <3>1. compactions' = compactions /\ compactor' = [compactor EXCEPT ![s] = "holding"] /\ compactor[s] = "waiting"
          /\ compactor \in [Shards -> {"idle", "waiting", "holding"}]
      BY <2>5 DEF CompactorLocks, ShardsInv, bounds
    <3>2. compactor[t]' = IF t = s THEN "holding" ELSE compactor[t]
      BY <3>1
    <3> QED
      BY <1>1, <2>2, <2>3, <3>1, <3>2 DEF Room
  <2> QED
    BY <2>4, <2>5
<1> QED
  BY <1>1, <1>2, <1>3 DEF ShardsInv

(* The steps of createArchive but the one that flushes. *)
ArchiveOnly == UNCHANGED <<shard, compactor, writes, compactions>>

LEMMA ShardsStep ==
  ASSUME ShardsInv, [ArchiveNext]_vars PROVE ShardsInv'
<1>1. CASE ArchiveOnly
  BY <1>1 DEF ArchiveOnly, ShardsInv, Room
<1>2. ASSUME NEW S \in SUBSET Shards, shard' = FlushShards(S), UNCHANGED <<compactor, writes, compactions>>
      PROVE  ShardsInv'
  <2>1. /\ shard' \in [Shards -> ShardType]
        /\ \A s \in Shards : Sound(shard[s]') /\ shard[s]'.idx = shard[s].idx /\ shard[s]'.seg = shard[s].seg
    BY <1>2, FlushStep
  <2>2. \A s \in Shards : Sound(shard[s]') /\ shard[s]'.idx = shard[s].idx
    BY <2>1
  <2>3. shard' \in [Shards -> ShardType] /\ UNCHANGED <<compactor, writes, compactions>>
    BY <1>2, <2>1
  <2> QED
    BY <2>2, <2>3, SameSegments
<1>3. CASE Snapshot
  <2>1. \E S \in SUBSET Shards : shard' = FlushShards(S)
    BY <1>3 DEF Snapshot
  <2>2. UNCHANGED <<compactor, writes, compactions>>
    BY <1>3 DEF Snapshot, bounds
  <2> QED
    BY <1>2, <2>1, <2>2
<1>4. CASE BackgroundFlush
  BY <1>2, <1>4 DEF BackgroundFlush, bounds
<1>5. CASE SyncWAL
  <2>1. UNCHANGED <<compactor, writes, compactions>>
    BY <1>5 DEF SyncWAL, bounds
  <2> QED
    BY <1>5, <2>1, SyncStep, SameSegments
<1>6. ASSUME NEW s \in Shards, Write(s) \/ CompactorWakes(s) \/ CompactorLocks(s) \/ Compact(s) PROVE ShardsInv'
  BY <1>6, WriteStep, CompactorStep, CompactStep
<1>7. CASE UNCHANGED vars
  BY <1>1, <1>7 DEF vars, bounds, ArchiveOnly
<1>8. CASE \/ Begin \/ PauseCompaction \/ SnapshotFails \/ CopyFails \/ ReleaseCompaction
           \/ MakeZip \/ ZipLacksFile \/ ZipFails \/ \E s \in Shards, i \in SegIds \cup {0} : CopyFile(s, i)
  <2>1. ArchiveOnly
    BY <1>8 DEF Begin, PauseCompaction, SnapshotFails, CopyFails, ReleaseCompaction, MakeZip, ZipLacksFile,
                ZipFails, CopyFile, Fails, bounds, ArchiveOnly
  <2> QED
    BY <1>1, <2>1
<1> QED
  BY <1>3, <1>4, <1>5, <1>6, <1>7, <1>8 DEF ArchiveNext, ArchiveStep

LEMMA ShardsInit == ArchiveInit => ShardsInv
<1> SUFFICES ASSUME ArchiveInit PROVE ShardsInv
  OBVIOUS
<1>1. MaxWrites \in Nat /\ MaxCompactions \in Nat
  BY ArchiveAssumption
<1>2. PICK sh : sh = NewShard
  OBVIOUS
<1>3. PICK g : g = [i \in SegIds |-> 0]
  OBVIOUS
<1>4. g \in [SegIds -> 0 .. MaxWrites] /\ \A i \in SegIds : g[i] = 0
  <2>1. 0 \in 0 .. MaxWrites
    BY <1>1
  <2> QED
    BY <1>3, <2>1
<1>5. sh = [idx |-> <<>>, fidx |-> 0, seg |-> g, fseg |-> {}, wal |-> <<>>, fwal |-> 0, moved |-> FALSE]
  BY <1>2, <1>3 DEF NewShard
<1>6. sh \in ShardType /\ sh.idx = <<>> /\ sh.seg = g /\ sh.wal = <<>> /\ sh.fidx = 0 /\ sh.fwal = 0
  BY <1>4, <1>5 DEF ShardType
<1>7. Files(sh) = {}
  BY <1>4, <1>6 DEF Files
<1>8. Sound(sh)
  BY <1>6, <1>7 DEF Sound, Forced
<1>9. shard = [s \in Shards |-> sh] /\ compactor = [s \in Shards |-> "idle"] /\ writes = 0 /\ compactions = 0
  BY <1>2 DEF ArchiveInit
<1>10. \A s \in Shards : Room(s)
  BY <1>6, <1>9 DEF Room, Newest
<1> QED
  BY <1>1, <1>6, <1>8, <1>9, <1>10 DEF ShardsInv

-----------------------------------------------------------------------------
(* createArchive *)

Work == arch \in ArchType /\ image \in ImageType /\ PausedInv /\ CopyInv /\ ZipInv

LEMMA EmptyFacts ==
  /\ NoArchive \in ArchType /\ NoArchive.pc = "none" /\ NoArchive.paused = {} /\ NoArchive.left = {}
  /\ EmptyImage \in ImageType
  /\ \A s \in Shards : /\ EmptyImage.wal[s] = <<>> /\ EmptyImage.idx[s] = <<>>
                        /\ \A i \in SegIds : EmptyImage.seg[s][i] = 0
<1>1. NoArchive \in ArchType /\ NoArchive.pc = "none" /\ NoArchive.paused = {} /\ NoArchive.left = {}
  BY DEF NoArchive, ArchType
<1>2. 0 \in 0 .. MaxWrites
  BY ArchiveAssumption
<1>3. PICK g : g = [i \in SegIds |-> 0]
  OBVIOUS
<1>4. g \in [SegIds -> 0 .. MaxWrites] /\ \A i \in SegIds : g[i] = 0
  BY <1>2, <1>3
<1>5. EmptyImage = [idx |-> [s \in Shards |-> <<>>], seg |-> [s \in Shards |-> g], wal |-> [s \in Shards |-> <<>>]]
  BY <1>3 DEF EmptyImage
<1>6. EmptyImage \in ImageType
  BY <1>4, <1>5 DEF ImageType
<1>7. \A s \in Shards : EmptyImage.wal[s] = <<>> /\ EmptyImage.idx[s] = <<>> /\ EmptyImage.seg[s] = g
  BY <1>5
<1> QED
  BY <1>1, <1>4, <1>6, <1>7

(* A call that is over. *)
LEMMA ResetStep ==
  ASSUME arch' = NoArchive, image' = EmptyImage PROVE Work'
<1>1. arch'.pc = "none" /\ arch'.paused = {}
  BY EmptyFacts
<1>2. PausedInv'
  BY <1>1 DEF PausedInv
<1>3. CopyInv' /\ ZipInv'
  BY <1>1 DEF CopyInv, ZipInv
<1> QED
  BY <1>2, <1>3, EmptyFacts DEF Work

LEMMA BeginStep ==
  ASSUME Work, Begin PROVE Work'
<1>1. arch' = [NoArchive EXCEPT !.pc = "pause"] /\ image' = image
  BY DEF Begin
<1>2. arch' \in ArchType /\ arch'.pc = "pause" /\ arch'.paused = {}
  BY <1>1, EmptyFacts DEF ArchType
<1>3. 0 \in 0 .. NumShards - 1 /\ {} = 1 .. 0
  BY ArchiveAssumption
<1>4. PausedInv'
  BY <1>2, <1>3 DEF PausedInv
<1>5. CopyInv' /\ ZipInv'
  BY <1>2 DEF CopyInv, ZipInv
<1> QED
  BY <1>1, <1>2, <1>4, <1>5 DEF Work

LEMMA PauseStep ==
  ASSUME Work, PauseCompaction PROVE Work'
<1>0. NumShards \in Nat \ {0} /\ arch.pc = "pause" /\ arch \in ArchType
  BY ArchiveAssumption DEF PauseCompaction, Work
<1>1. PICK m \in 0 .. NumShards - 1 : arch.paused = 1 .. m
  BY <1>0 DEF Work, PausedInv
<1>2. m \in Nat /\ m + 1 \in Shards
  BY <1>0 DEF Shards
<1>3. Cardinality(1 .. m) = m
  <2>1. Cardinality(1 .. m) = IF 1 > m THEN 0 ELSE m - 1 + 1
    BY <1>2, FS_Interval
  <2> QED
    BY <1>2, <2>1
<1>4. PICK s : s = Cardinality(arch.paused) + 1 /\ s = m + 1
  BY <1>1, <1>3
<1>5. /\ compactor[s] # "holding" /\ UNCHANGED <<compactor, image>>
      /\ arch' = [arch EXCEPT !.paused = @ \cup {s}, !.pc = IF s = NumShards THEN "snapshot" ELSE @]
  BY <1>4 DEF PauseCompaction
<1>6. s \in Shards
  BY <1>2, <1>4
<1>7. /\ arch' \in ArchType /\ arch'.paused = arch.paused \cup {s}
      /\ arch'.pc = IF s = NumShards THEN "snapshot" ELSE "pause"
  BY <1>0, <1>5, <1>6 DEF ArchType
<1>8. arch'.paused = 1 .. s
  <2>1. (1 .. m) \cup {m + 1} = 1 .. m + 1
    BY <1>2
  <2> QED
    BY <1>1, <1>4, <1>7, <2>1
<1>9. \A t \in arch'.paused : compactor'[t] # "holding"
  BY <1>5, <1>7 DEF Work, PausedInv
<1>10. s # NumShards => s \in 0 .. NumShards - 1
  BY <1>0, <1>2, <1>4
<1>11. PausedInv'
  BY <1>7, <1>8, <1>9, <1>10 DEF PausedInv, Shards
<1>12. CopyInv' /\ ZipInv'
  BY <1>7 DEF CopyInv, ZipInv
<1> QED
  BY <1>5, <1>7, <1>11, <1>12 DEF Work

(* The image of a shard taken by a snapshot, with w commands of its WAL and *)
(* the sizes z: what it restores.                                           *)
RestoredFrom(sh, z, w) ==
    IF SubSeq(sh.wal, 1, w) # <<>> THEN Last(SubSeq(sh.wal, 1, w))
    ELSE IF SubSeq(sh.idx, 1, z.idx) = <<>> THEN 0
    ELSE IF Last(SubSeq(sh.idx, 1, z.idx)) \in z.segs THEN sh.seg[Last(SubSeq(sh.idx, 1, z.idx))] ELSE 0

LEMMA WholePrefix ==
  ASSUME NEW S, NEW l \in Seq(S) PROVE SubSeq(l, 1, Len(l)) = l
<1>1. PICK n \in Nat : n = Len(l)
  OBVIOUS
<1>2. PICK p : p = SubSeq(l, 1, n)
  OBVIOUS
<1>3. p \in Seq(S) /\ Len(p) = n /\ \A i \in 1 .. n : p[i] = l[i]
  BY <1>1, <1>2, PrefixFacts
<1> QED
  BY <1>1, <1>2, <1>3, SeqEqual

LEMMA LastOf ==
  ASSUME NEW S, NEW l \in Seq(S), l # <<>> PROVE Last(l) \in S
<1>1. Len(l) \in DOMAIN l
  OBVIOUS
<1> QED
  BY <1>1 DEF Last

LEMMA SnapshotRestores ==
  ASSUME NEW sh, Sound(sh), NEW z \in SizesNow(sh), NEW w \in Nat, sh.fwal <= w, w <= Len(sh.wal)
  PROVE  /\ z.idx \in Nat /\ z.idx <= Len(sh.idx) /\ z.segs \in SUBSET SegIds /\ z.segs \subseteq Files(sh)
         /\ z \in [idx : Nat, segs : SUBSET SegIds]
         /\ RestoredFrom(sh, z, w) \in 0 .. MaxWrites
         /\ sh.fwal = Len(sh.wal) /\ ~sh.moved => RestoredFrom(sh, z, w) = Held(sh)
<1>1. /\ sh.idx \in Seq(SegIds) /\ sh.fidx \in Nat /\ sh.seg \in [SegIds -> 0 .. MaxWrites]
      /\ sh.wal \in Seq(1 .. MaxWrites) /\ sh.fwal \in Nat /\ Len(sh.idx) \in Nat /\ Len(sh.wal) \in Nat
      /\ sh.idx # <<>> => Held(sh) = sh.seg[Last(sh.idx)] /\ Last(sh.idx) \in SegIds
      /\ sh.idx = <<>> => Held(sh) = 0
  BY SoundFacts
<1>2. z.idx \in sh.fidx .. Len(sh.idx) /\ z.segs \in SUBSET Files(sh) /\ sh.fseg \subseteq z.segs
      /\ z = [idx |-> z.idx, segs |-> z.segs]
  BY DEF SizesNow
<1>3. z.idx \in Nat /\ z.idx <= Len(sh.idx) /\ z.segs \in SUBSET SegIds /\ z \in [idx : Nat, segs : SUBSET SegIds]
  <2>1. z.idx \in Nat /\ z.idx <= Len(sh.idx)
    BY <1>1, <1>2
  <2>2. z.segs \in SUBSET SegIds
    BY <1>2 DEF Files
  <2> QED
    BY <1>2, <2>1, <2>2
<1>4. PICK l : l = SubSeq(sh.wal, 1, w)
  OBVIOUS
<1>5. PICK x : x = SubSeq(sh.idx, 1, z.idx)
  OBVIOUS
<1>6. RestoredFrom(sh, z, w) = IF l # <<>> THEN Last(l) ELSE IF x = <<>> THEN 0
                               ELSE IF Last(x) \in z.segs THEN sh.seg[Last(x)] ELSE 0
  BY <1>4, <1>5 DEF RestoredFrom
<1>7. PICK W : W = 1 .. MaxWrites
  OBVIOUS
<1>8. sh.wal \in Seq(W)
  BY <1>1, <1>7
<1>9. l \in Seq(W) /\ x \in Seq(SegIds)
  BY <1>1, <1>3, <1>4, <1>5, <1>8, PrefixFacts
<1>10. MaxWrites \in Nat /\ 0 \in 0 .. MaxWrites /\ \A v \in W : v \in 0 .. MaxWrites
  BY <1>7, ArchiveAssumption
<1>11. RestoredFrom(sh, z, w) \in 0 .. MaxWrites
  <2>1. l # <<>> => Last(l) \in W
    BY <1>9, LastOf
  <2>2. x # <<>> => Last(x) \in SegIds
    BY <1>9, LastOf
  <2>3. x # <<>> => sh.seg[Last(x)] \in 0 .. MaxWrites
    BY <1>1, <2>2
  <2> QED
    BY <1>6, <1>10, <2>1, <2>3
<1>12. ASSUME sh.fwal = Len(sh.wal), ~sh.moved PROVE RestoredFrom(sh, z, w) = Held(sh)
  <2>1. w = Len(sh.wal)
    BY <1>1, <1>12
  <2>2. l = sh.wal
    BY <1>4, <1>8, <2>1, WholePrefix
  <2>3. CASE sh.wal # <<>>
    <3>1. Last(sh.wal) = Held(sh)
      BY <2>3 DEF Sound
    <3> QED
      BY <1>6, <2>2, <2>3, <3>1
  <2>4. CASE sh.wal = <<>>
    <3>1. sh.fidx = Len(sh.idx) /\ (sh.idx # <<>> => Last(sh.idx) \in sh.fseg)
      BY <1>12, <2>4 DEF Sound, Forced
    <3>2. z.idx = Len(sh.idx)
      BY <1>1, <1>2, <3>1
    <3>3. x = sh.idx
      BY <1>1, <1>5, <3>2, WholePrefix
    <3> QED
      BY <1>1, <1>2, <1>6, <2>2, <2>4, <3>1, <3>3
  <2> QED
    BY <2>3, <2>4
<1> QED
  BY <1>2, <1>3, <1>11, <1>12

(* What Snapshot takes down of shards b, of which those of S are flushed. *)
LeftOf(b) == UNION {{<<s, 0>>} \cup {<<s, i>> : i \in Files(b[s])} : s \in Shards}

MustOf(b, S) == [s \in Shards |-> IF S = Shards \/ (b[s].fwal = Len(b[s].wal) /\ ~b[s].moved)
                                 THEN {Held(b[s])} ELSE 0 .. MaxWrites]

WalsOf(b, w) == [s \in Shards |-> SubSeq(b[s].wal, 1, w[s])]

LEMMA LeftFacts ==
  ASSUME NEW b PROVE /\ LeftOf(b) \in SUBSET (Shards \X (SegIds \cup {0}))
                     /\ \A s \in Shards : <<s, 0>> \in LeftOf(b)
                     /\ \A s \in Shards, i \in SegIds : <<s, i>> \in LeftOf(b) <=> i \in Files(b[s])
<1>1. \A s \in Shards : Files(b[s]) \subseteq SegIds
  BY DEF Files
<1>2. 0 \notin SegIds
  BY ArchiveAssumption DEF SegIds
<1>3. \A f : f \in LeftOf(b) <=> \E s \in Shards : f = <<s, 0>> \/ \E i \in Files(b[s]) : f = <<s, i>>
  BY DEF LeftOf
<1>4. LeftOf(b) \in SUBSET (Shards \X (SegIds \cup {0}))
  BY <1>1, <1>3
<1>5. ASSUME NEW s \in Shards, NEW i \in SegIds PROVE <<s, i>> \in LeftOf(b) <=> i \in Files(b[s])
  BY <1>2, <1>3
<1> QED
  BY <1>3, <1>4, <1>5

LEMMA SnapshotStep ==
  ASSUME ShardsInv, Work, Snapshot PROVE Work'
<1>1. PICK S \in SUBSET Shards :
          /\ shard' = FlushShards(S)
          /\ \E size \in [Shards -> UNION {SizesNow(shard'[s]) : s \in Shards}],
                w \in [Shards -> 0 .. MaxWrites] :
                /\ \A s \in Shards : size[s] \in SizesNow(shard'[s])
                /\ \A s \in Shards : shard'[s].fwal <= w[s] /\ w[s] <= Len(shard'[s].wal)
                /\ image' = [EmptyImage EXCEPT !.wal = WalsOf(shard', w)]
                /\ arch' = [arch EXCEPT !.pc = "copy", !.size = size, !.left = LeftOf(shard'),
                                        !.must = MustOf(shard', S)]
  BY DEF Snapshot, WalsOf, LeftOf, MustOf
<1>2. PICK b : b = shard'
  OBVIOUS
<1>2a. PICK size \in [Shards -> UNION {SizesNow(shard'[s]) : s \in Shards}], w \in [Shards -> 0 .. MaxWrites] :
          /\ \A s \in Shards : size[s] \in SizesNow(shard'[s])
          /\ \A s \in Shards : shard'[s].fwal <= w[s] /\ w[s] <= Len(shard'[s].wal)
          /\ image' = [EmptyImage EXCEPT !.wal = WalsOf(shard', w)]
          /\ arch' = [arch EXCEPT !.pc = "copy", !.size = size, !.left = LeftOf(shard'),
                                  !.must = MustOf(shard', S)]
  BY <1>1
<1>3. /\ size = [s \in Shards |-> size[s]] /\ w \in [Shards -> 0 .. MaxWrites]
      /\ \A s \in Shards : size[s] \in SizesNow(b[s])
      /\ \A s \in Shards : b[s].fwal <= w[s] /\ w[s] <= Len(b[s].wal)
      /\ image' = [EmptyImage EXCEPT !.wal = WalsOf(b, w)]
      /\ arch' = [arch EXCEPT !.pc = "copy", !.size = size, !.left = LeftOf(b), !.must = MustOf(b, S)]
  BY <1>2, <1>2a
<1>4. /\ b \in [Shards -> ShardType]
      /\ \A s \in Shards : Sound(b[s])
      /\ S = Shards => \A s \in Shards : b[s].wal = <<>> /\ b[s].moved = FALSE /\ b[s].fwal = 0
  BY <1>1, <1>2, FlushStep
<1>5. ASSUME NEW s \in Shards
      PROVE  /\ size[s].idx \in Nat /\ size[s].idx <= Len(b[s].idx) /\ size[s].segs \subseteq Files(b[s])
             /\ size[s] \in [idx : Nat, segs : SUBSET SegIds]
             /\ RestoredFrom(b[s], size[s], w[s]) \in MustOf(b, S)[s]
             /\ MustOf(b, S)[s] \in SUBSET (0 .. MaxWrites) /\ w[s] \in Nat /\ w[s] <= Len(b[s].wal)
  <2>1. PICK sh : sh = b[s]
    OBVIOUS
  <2>2. PICK z : z = size[s]
    OBVIOUS
  <2>3. PICK n : n = w[s]
    OBVIOUS
  <2>4. Sound(sh) /\ z \in SizesNow(sh) /\ n \in Nat /\ sh.fwal <= n /\ n <= Len(sh.wal)
    BY <1>3, <1>4, <2>1, <2>2, <2>3, ArchiveAssumption
  <2>5. /\ z.idx \in Nat /\ z.idx <= Len(sh.idx) /\ z.segs \in SUBSET SegIds /\ z.segs \subseteq Files(sh)
        /\ z \in [idx : Nat, segs : SUBSET SegIds]
        /\ RestoredFrom(sh, z, n) \in 0 .. MaxWrites
        /\ sh.fwal = Len(sh.wal) /\ ~sh.moved => RestoredFrom(sh, z, n) = Held(sh)
    BY <2>4, SnapshotRestores
  <2>6. Held(sh) \in 0 .. MaxWrites
    <3>1. MaxWrites \in Nat /\ 0 \in 0 .. MaxWrites
      BY ArchiveAssumption
    <3>2. sh.idx # <<>> => Held(sh) \in 1 .. MaxWrites
      BY <2>4, SoundFacts
    <3>3. sh.idx = <<>> => Held(sh) = 0
      BY <2>4, SoundFacts
    <3> QED
      BY <3>1, <3>2, <3>3
  <2>7. S = Shards => sh.fwal = Len(sh.wal) /\ ~sh.moved
    BY <1>4, <2>1
  <2>8. MustOf(b, S)[s] = IF S = Shards \/ (sh.fwal = Len(sh.wal) /\ ~sh.moved) THEN {Held(sh)} ELSE 0 .. MaxWrites
    BY <2>1 DEF MustOf
  <2>9. RestoredFrom(sh, z, n) \in MustOf(b, S)[s] /\ MustOf(b, S)[s] \in SUBSET (0 .. MaxWrites)
    BY <2>5, <2>6, <2>7, <2>8
  <2> QED
    BY <2>1, <2>2, <2>3, <2>4, <2>5, <2>9
<1>6. /\ arch' \in ArchType /\ arch'.pc = "copy" /\ arch'.size = size /\ arch'.left = LeftOf(b)
      /\ arch'.must = MustOf(b, S) /\ arch'.paused = arch.paused
  <2>1. arch \in ArchType
    BY DEF Work
  <2>2. size \in [Shards -> [idx : Nat, segs : SUBSET SegIds]]
    BY <1>3, <1>5
  <2>3. MustOf(b, S) \in [Shards -> SUBSET (0 .. MaxWrites)]
    <3>1. MustOf(b, S) = [s \in Shards |-> MustOf(b, S)[s]]
      BY DEF MustOf
    <3> QED
      BY <1>5, <3>1
  <2>4. LeftOf(b) \in SUBSET (Shards \X (SegIds \cup {0}))
    BY LeftFacts
  <2> QED
    BY <1>3, <2>1, <2>2, <2>3, <2>4 DEF ArchType
<1>7. /\ image' \in ImageType /\ image'.wal = WalsOf(b, w) /\ image'.idx = EmptyImage.idx
      /\ image'.seg = EmptyImage.seg
  <2>1. WalsOf(b, w) \in [Shards -> Seq(1 .. MaxWrites)]
    <3>1. ASSUME NEW s \in Shards PROVE SubSeq(b[s].wal, 1, w[s]) \in Seq(1 .. MaxWrites)
      <4>1. PICK W : W = 1 .. MaxWrites
        OBVIOUS
      <4>2. PICK l : l = b[s].wal
        OBVIOUS
      <4>3. PICK n : n = w[s]
        OBVIOUS
      <4>4. l \in Seq(W) /\ n \in Nat /\ n <= Len(l)
        BY <1>4, <1>5, <4>1, <4>2, <4>3 DEF ShardType
      <4>5. SubSeq(l, 1, n) \in Seq(W)
        BY <4>4, PrefixFacts
      <4> QED
        BY <4>1, <4>2, <4>3, <4>5
    <3> QED
      BY <3>1 DEF WalsOf
  <2> QED
    BY <1>3, <2>1, EmptyFacts DEF ImageType
<1>8. PausedInv'
  <2>1. arch.pc = "snapshot" /\ compactor' = compactor
    BY DEF Snapshot
  <2> QED
    BY <1>6, <2>1 DEF Work, PausedInv
<1>9. size # <<>> /\ MustOf(b, S) # <<>>
  <2>1. 1 \in Shards
    BY ArchiveAssumption DEF Shards
  <2>2. DOMAIN size = Shards /\ DOMAIN MustOf(b, S) = Shards
    BY <1>3 DEF MustOf
  <2> QED
    BY <2>1, <2>2
<1>10. ASSUME NEW s \in Shards PROVE RestoredToBe(s)' = RestoredFrom(b[s], size[s], w[s])
  <2>1. PICK x : x = SubSeq(b[s].idx, 1, size[s].idx)
    OBVIOUS
  <2>2. IndexToBe(s)' = x
    <3>1. <<s, 0>> \in LeftOf(b)
      BY LeftFacts
    <3> QED
      BY <1>2, <1>6, <2>1, <3>1 DEF IndexToBe, CopyPrefix
  <2>3. image'.wal[s] = SubSeq(b[s].wal, 1, w[s])
    BY <1>7 DEF WalsOf
  <2>4. ASSUME NEW i \in SegIds PROVE SegToBe(s, i)' = IF i \in size[s].segs THEN b[s].seg[i] ELSE 0
    <3>1. SegToBe(s, i)' = IF <<s, i>> \in LeftOf(b) THEN IF i \in size[s].segs THEN b[s].seg[i] ELSE 0
                           ELSE image'.seg[s][i]
      BY <1>2, <1>6 DEF SegToBe
    <3>2. image'.seg[s][i] = 0
      BY <1>7, EmptyFacts
    <3>3. <<s, i>> \in LeftOf(b) <=> i \in Files(b[s])
      BY LeftFacts
    <3> QED
      BY <1>5, <3>1, <3>2, <3>3
  <2>5. x # <<>> => Last(x) \in SegIds
    <3>1. b[s].idx \in Seq(SegIds) /\ size[s].idx \in Nat /\ size[s].idx <= Len(b[s].idx)
      BY <1>4, <1>5 DEF ShardType
    <3>2. x \in Seq(SegIds)
      BY <2>1, <3>1, PrefixFacts
    <3> QED
      BY <3>2, LastOf
  <2>6. RestoredToBe(s)' = IF image'.wal[s] # <<>> THEN Last(image'.wal[s])
                           ELSE IF x = <<>> THEN 0 ELSE SegToBe(s, Last(x))'
    BY <2>2 DEF RestoredToBe
  <2>7. x # <<>> => SegToBe(s, Last(x))' = IF Last(x) \in size[s].segs THEN b[s].seg[Last(x)] ELSE 0
    BY <2>4, <2>5
  <2> QED
    BY <2>1, <2>3, <2>6, <2>7 DEF RestoredFrom
<1>11. CopyInv'
  <2> SUFFICES ASSUME NEW s \in Shards
               PROVE  /\ arch'.size # <<>> /\ arch'.must # <<>>
                      /\ arch'.size[s].idx <= Len(shard'[s].idx)
                      /\ \A i \in SegIds : <<s, i>> \in arch'.left => i \in Files(shard'[s])
                      /\ RestoredToBe(s)' \in arch'.must[s]
    BY DEF CopyInv
  <2>1. \A i \in SegIds : <<s, i>> \in LeftOf(b) => i \in Files(b[s])
    BY LeftFacts
  <2> QED
    BY <1>2, <1>5, <1>6, <1>9, <1>10, <2>1
<1>12. ZipInv'
  BY <1>6 DEF ZipInv
<1> QED
  BY <1>6, <1>7, <1>8, <1>11, <1>12 DEF Work

(* What the invariants give for a shard during the copy. *)
LEMMA CopyFacts ==
  ASSUME ShardsInv, Work, arch.pc = "copy", NEW s \in Shards
  PROVE  /\ arch.size[s].idx \in Nat /\ arch.size[s].idx <= Len(shard[s].idx) /\ shard[s].idx \in Seq(SegIds)
         /\ IndexToBe(s) \in Seq(SegIds) /\ (IndexToBe(s) # <<>> => Last(IndexToBe(s)) \in SegIds)
         /\ CopyPrefix(shard[s].idx, arch.size[s].idx) \in Seq(SegIds)
         /\ \A i \in SegIds : <<s, i>> \in arch.left => i \in Files(shard[s])
         /\ RestoredToBe(s) \in arch.must[s] /\ arch.size # <<>> /\ arch.must # <<>>
         /\ Sound(shard[s])
<1>1. /\ arch.size # <<>> /\ arch.must # <<>> /\ arch.size[s].idx <= Len(shard[s].idx)
      /\ \A i \in SegIds : <<s, i>> \in arch.left => i \in Files(shard[s])
      /\ RestoredToBe(s) \in arch.must[s]
  BY DEF Work, CopyInv
<1>2. arch.size[s].idx \in Nat
  BY <1>1 DEF Work, ArchType
<1>3. shard[s].idx \in Seq(SegIds) /\ Sound(shard[s])
  BY RoomFacts DEF ShardType
<1>4. PICK n : n = arch.size[s].idx
  OBVIOUS
<1>5. PICK l : l = shard[s].idx
  OBVIOUS
<1>6. SubSeq(l, 1, n) \in Seq(SegIds)
  BY <1>1, <1>2, <1>3, <1>4, <1>5, PrefixFacts
<1>7. CopyPrefix(shard[s].idx, arch.size[s].idx) \in Seq(SegIds)
  BY <1>4, <1>5, <1>6 DEF CopyPrefix
<1>8. image.idx[s] \in Seq(SegIds)
  BY DEF Work, ImageType
<1>9. IndexToBe(s) \in Seq(SegIds)
  BY <1>7, <1>8 DEF IndexToBe
<1> QED
  BY <1>1, <1>2, <1>3, <1>7, <1>9, LastOf

(* The files of a shard grow at their ends. *)
Grows(a, b) ==
    /\ Len(a.idx) <= Len(b.idx)
    /\ \A n \in Nat : n <= Len(a.idx) => SubSeq(b.idx, 1, n) = SubSeq(a.idx, 1, n)
    /\ \A i \in Files(a) : i \in Files(b) /\ b.seg[i] = a.seg[i]

LEMMA GrowStep ==
  ASSUME ShardsInv, ShardsInv', Work, UNCHANGED <<arch, image>>, PausedInv',
         arch.pc = "copy" => \A s \in Shards : Grows(shard[s], shard[s]')
  PROVE  Work'
<1>1. ASSUME arch.pc = "copy", NEW s \in Shards
      PROVE  /\ arch'.size # <<>> /\ arch'.must # <<>> /\ arch'.size[s].idx <= Len(shard'[s].idx)
             /\ \A i \in SegIds : <<s, i>> \in arch'.left => i \in Files(shard'[s])
             /\ RestoredToBe(s)' \in arch'.must[s]
  <2>1. Grows(shard[s], shard[s]')
    BY <1>1
  <2>2. arch.size[s].idx <= Len(shard'[s].idx)
    <3>1. arch.size[s].idx \in Nat /\ arch.size[s].idx <= Len(shard[s].idx) /\ Len(shard[s].idx) \in Nat
      BY <1>1, CopyFacts
    <3>2. Len(shard[s].idx) <= Len(shard'[s].idx) /\ Len(shard'[s].idx) \in Nat
      <4>1. shard'[s].idx \in Seq(SegIds)
        BY DEF ShardsInv, ShardType
      <4> QED
        BY <2>1, <4>1 DEF Grows
    <3> QED
      BY <3>1, <3>2
  <2>3. PICK x : x = IndexToBe(s)
    OBVIOUS
  <2>4. IndexToBe(s)' = x
    <3>1. CopyPrefix(shard'[s].idx, arch.size[s].idx) = CopyPrefix(shard[s].idx, arch.size[s].idx)
      BY <1>1, <2>1, CopyFacts DEF Grows, CopyPrefix
    <3> QED
      BY <2>3, <3>1 DEF IndexToBe
  <2>5. ASSUME NEW i \in SegIds PROVE SegToBe(s, i)' = SegToBe(s, i)
    <3>1. <<s, i>> \in arch.left => shard'[s].seg[i] = shard[s].seg[i]
      BY <1>1, <2>1, CopyFacts DEF Grows
    <3> QED
      BY <3>1 DEF SegToBe
  <2>6. x # <<>> => SegToBe(s, Last(x))' = SegToBe(s, Last(x))
    BY <1>1, <2>3, <2>5, CopyFacts
  <2>7. /\ RestoredToBe(s) = IF image.wal[s] # <<>> THEN Last(image.wal[s]) ELSE IF x = <<>> THEN 0
                             ELSE SegToBe(s, Last(x))
        /\ RestoredToBe(s)' = IF image'.wal[s] # <<>> THEN Last(image'.wal[s]) ELSE IF x = <<>> THEN 0
                              ELSE SegToBe(s, Last(x))'
    BY <2>3, <2>4 DEF RestoredToBe
  <2>8. RestoredToBe(s)' = RestoredToBe(s)
    BY <2>6, <2>7
  <2>9. \A i \in SegIds : <<s, i>> \in arch.left => i \in Files(shard'[s])
    BY <1>1, <2>1, CopyFacts DEF Grows
  <2> QED
    BY <1>1, <2>2, <2>8, <2>9, CopyFacts
<1>2. CopyInv'
  BY <1>1 DEF CopyInv
<1>3. ZipInv'
  BY DEF Work, ZipInv, Restored
<1> QED
  BY <1>2, <1>3 DEF Work

LEMMA SameGrows ==
  ASSUME NEW a, NEW b, a \in ShardType, b.idx = a.idx, b.seg = a.seg PROVE Grows(a, b)
<1>1. Len(a.idx) \in Nat
  BY DEF ShardType
<1> QED
  BY <1>1 DEF Grows, Files

LEMMA WrittenGrows ==
  ASSUME NEW a, NEW b, Sound(a), NextSeg(a) \in SegIds, NEW v, b.idx = Append(a.idx, NextSeg(a)),
         b.seg = [a.seg EXCEPT ![NextSeg(a)] = v], \A i \in Files(a) : i < NextSeg(a)
  PROVE  Grows(a, b)
<1>1. /\ a.idx \in Seq(SegIds) /\ Len(a.idx) \in Nat /\ a.seg \in [SegIds -> 0 .. MaxWrites]
  BY SoundFacts
<1>2. PICK g \in SegIds : g = NextSeg(a)
  OBVIOUS
<1>3. PICK l \in Seq(SegIds) : l = a.idx
  BY <1>1
<1>4. PICK k : k = Append(l, g)
  OBVIOUS
<1>5. /\ k \in Seq(SegIds) /\ Len(k) = Len(l) + 1 /\ Len(l) \in Nat
      /\ \A i \in 1 .. Len(l) : k[i] = l[i]
  BY <1>4, AppendFacts
<1>6. ASSUME NEW n \in Nat, n <= Len(l) PROVE SubSeq(k, 1, n) = SubSeq(l, 1, n)
  <2>1. n <= Len(k)
    BY <1>5, <1>6
  <2>2. PICK p : p = SubSeq(k, 1, n)
    OBVIOUS
  <2>3. PICK q : q = SubSeq(l, 1, n)
    OBVIOUS
  <2>4. p \in Seq(SegIds) /\ Len(p) = n /\ \A i \in 1 .. n : p[i] = k[i]
    BY <1>5, <2>1, <2>2, PrefixFacts
  <2>5. q \in Seq(SegIds) /\ Len(q) = n /\ \A i \in 1 .. n : q[i] = l[i]
    BY <1>3, <1>6, <2>3, PrefixFacts
  <2>6. \A i \in 1 .. n : p[i] = q[i]
    <3>1. \A i \in 1 .. n : i \in 1 .. Len(l)
      BY <1>5, <1>6
    <3>2. \A i \in 1 .. n : k[i] = l[i]
      BY <1>5, <3>1
    <3> QED
      BY <2>4, <2>5, <3>2
  <2> QED
    BY <2>2, <2>3, <2>4, <2>5, <2>6, SeqEqual
<1>7. \A i \in Files(a) : i \in Files(b) /\ b.seg[i] = a.seg[i]
  <2>1. \A i \in Files(a) : i \in SegIds /\ i # g /\ a.seg[i] # 0
    <3>1. SegIds \subseteq Nat
      BY ArchiveAssumption DEF SegIds
    <3> QED
      BY <1>2, <3>1 DEF Files
  <2>2. b.seg = [a.seg EXCEPT ![g] = v]
    BY <1>2
  <2> QED
    BY <1>1, <2>1, <2>2 DEF Files
<1>8. b.idx = k
  BY <1>2, <1>3, <1>4
<1> QED
  BY <1>3, <1>5, <1>6, <1>7, <1>8 DEF Grows

(* The steps beside createArchive. *)
LEMMA BesideStep ==
  ASSUME ShardsInv, ShardsInv', Work,
         \/ SyncWAL \/ BackgroundFlush \/ UNCHANGED vars
         \/ \E s \in Shards : Write(s) \/ CompactorWakes(s) \/ CompactorLocks(s) \/ Compact(s)
  PROVE  Work'
<1>1. \A s \in Shards : shard[s] \in ShardType
  BY DEF ShardsInv
<1>2. CASE SyncWAL \/ BackgroundFlush \/ UNCHANGED vars
  <2>1. UNCHANGED <<arch, image, compactor>>
    BY <1>2 DEF SyncWAL, BackgroundFlush, vars
  <2>2. PausedInv'
    BY <2>1 DEF Work, PausedInv
  <2>3. ASSUME NEW s \in Shards PROVE shard[s]'.idx = shard[s].idx /\ shard[s]'.seg = shard[s].seg
    <3>1. CASE SyncWAL
      BY <3>1, SyncStep
    <3>2. CASE BackgroundFlush
      <4>1. PICK S \in SUBSET Shards : shard' = FlushShards(S)
        BY <3>2 DEF BackgroundFlush
      <4>2. \A t \in Shards : Sound(shard[t]') /\ shard[t]'.idx = shard[t].idx /\ shard[t]'.seg = shard[t].seg
        BY <4>1, FlushStep
      <4> QED
        BY <4>2
    <3>3. CASE UNCHANGED vars
      BY <3>3 DEF vars
    <3> QED
      BY <1>2, <3>1, <3>2, <3>3
  <2>4. \A s \in Shards : Grows(shard[s], shard[s]')
    BY <1>1, <2>3, SameGrows
  <2> QED
    BY <2>1, <2>2, <2>4, GrowStep
<1>3. ASSUME NEW s \in Shards, Write(s) PROVE Work'
  <2>1. UNCHANGED <<arch, image, compactor>>
    BY <1>3 DEF Write
  <2>2. PausedInv'
    BY <2>1 DEF Work, PausedInv
  <2>3. ASSUME NEW t \in Shards PROVE Grows(shard[t], shard[t]')
    <3>1. CASE t = s
      <4>1. PICK a : a = shard[s]
        OBVIOUS
      <4>2. PICK b : b = shard[s]'
        OBVIOUS
      <4>3. PICK v : v = writes + 1
        OBVIOUS
      <4>4. /\ Sound(a) /\ NextSeg(a) \in SegIds /\ b.idx = Append(a.idx, NextSeg(a))
            /\ b.seg = [a.seg EXCEPT ![NextSeg(a)] = v] /\ \A i \in Files(a) : i < NextSeg(a)
        BY <1>3, <4>1, <4>2, <4>3, WriteFacts, RoomFacts
      <4>5. Grows(a, b)
        BY <4>4, WrittenGrows
      <4> QED
        BY <3>1, <4>1, <4>2, <4>5
    <3>2. CASE t # s
      <4>1. shard[t]' = shard[t]
        BY <1>3, <3>2, WriteFacts
      <4> QED
        BY <1>1, <4>1, SameGrows
    <3> QED
      BY <3>1, <3>2
  <2> QED
    BY <2>1, <2>2, <2>3, GrowStep
<1>4. ASSUME NEW s \in Shards, CompactorWakes(s) \/ CompactorLocks(s) PROVE Work'
  <2>1. UNCHANGED <<arch, image, shard>>
    BY <1>4 DEF CompactorWakes, CompactorLocks
  <2>2. \A t \in Shards : Grows(shard[t], shard[t]')
    BY <1>1, <2>1, SameGrows
  <2>3. compactor \in [Shards -> {"idle", "waiting", "holding"}]
    BY DEF ShardsInv
  <2>4. CASE CompactorWakes(s)
    <3>1. \A t \in Shards : compactor'[t] = "holding" => compactor[t] = "holding"
      BY <2>3, <2>4 DEF CompactorWakes
    <3>2. arch.paused \subseteq Shards
      BY DEF Work, ArchType
    <3>3. PausedInv'
      BY <2>1, <3>1, <3>2 DEF Work, PausedInv
    <3> QED
      BY <2>1, <2>2, <3>3, GrowStep
  <2>5. CASE CompactorLocks(s)
    <3>1. s \notin arch.paused /\ \A t \in Shards : t # s => compactor'[t] = compactor[t]
      BY <2>3, <2>5 DEF CompactorLocks
    <3>2. arch.paused \subseteq Shards
      BY DEF Work, ArchType
    <3>3. PausedInv'
      BY <2>1, <3>1, <3>2 DEF Work, PausedInv
    <3> QED
      BY <2>1, <2>2, <3>3, GrowStep
  <2> QED
    BY <1>4, <2>4, <2>5
<1>5. ASSUME NEW s \in Shards, Compact(s) PROVE Work'
  <2>1. UNCHANGED <<arch, image>> /\ compactor[s] = "holding" /\ compactor' = [compactor EXCEPT ![s] = "idle"]
    BY <1>5 DEF Compact
  <2>2. compactor \in [Shards -> {"idle", "waiting", "holding"}]
    BY DEF ShardsInv
  <2>3. \A t \in Shards : compactor'[t] = "holding" => compactor[t] = "holding"
    BY <2>1, <2>2
  <2>4. arch.paused \subseteq Shards
    BY DEF Work, ArchType
  <2>5. PausedInv'
    BY <2>1, <2>3, <2>4 DEF Work, PausedInv
  <2>6. arch.pc # "copy"
    BY <2>1 DEF Work, PausedInv
  <2> QED
    BY <2>1, <2>5, <2>6, GrowStep
<1> QED
  BY <1>2, <1>3, <1>4, <1>5

LEMMA CopyStep ==
  ASSUME ShardsInv, Work, NEW s \in Shards, NEW i \in SegIds \cup {0}, CopyFile(s, i) PROVE Work'
<1>1. /\ arch.pc = "copy" /\ <<s, i>> \in arch.left /\ UNCHANGED <<shard, compactor>>
      /\ arch' = [arch EXCEPT !.left = @ \ {<<s, i>>}] /\ arch \in ArchType /\ image \in ImageType
  BY DEF CopyFile, Work
<1>2. /\ arch' \in ArchType /\ arch'.pc = "copy" /\ arch'.left = arch.left \ {<<s, i>>}
      /\ arch'.size = arch.size /\ arch'.must = arch.must /\ arch'.paused = arch.paused
  BY <1>1 DEF ArchType
<1>3. 0 \notin SegIds /\ 0 \in 0 .. MaxWrites
  BY ArchiveAssumption DEF SegIds
<1>4. PICK x : x = CopyPrefix(shard[s].idx, arch.size[s].idx)
  OBVIOUS
<1>5. PICK v : v = IF i \in arch.size[s].segs THEN shard[s].seg[i] ELSE 0
  OBVIOUS
<1>6. x \in Seq(SegIds)
  BY <1>1, <1>4, CopyFacts
<1>7. i # 0 => v \in 0 .. MaxWrites /\ i \in SegIds
  <2>1. shard[s].seg \in [SegIds -> 0 .. MaxWrites]
    BY RoomFacts DEF ShardType
  <2> QED
    BY <1>3, <1>5, <2>1
<1>8. image' = IF i = 0 THEN [image EXCEPT !.idx[s] = x] ELSE [image EXCEPT !.seg[s][i] = v]
  BY <1>4, <1>5 DEF CopyFile
<1>9. /\ image' \in ImageType /\ image'.wal = image.wal
      /\ image'.idx[s] = (IF i = 0 THEN x ELSE image.idx[s])
      /\ \A j \in SegIds : image'.seg[s][j] = (IF i = j THEN v ELSE image.seg[s][j])
      /\ \A t \in Shards : t # s => image'.idx[t] = image.idx[t] /\ image'.seg[t] = image.seg[t]
  <2>1. CASE i = 0
    BY <1>1, <1>3, <1>6, <1>8, <2>1 DEF ImageType
  <2>2. CASE i # 0
    BY <1>1, <1>3, <1>7, <1>8, <2>2 DEF ImageType
  <2> QED
    BY <2>1, <2>2
<1>10. PausedInv'
  BY <1>1, <1>2 DEF Work, PausedInv
<1>11. ASSUME NEW t \in Shards PROVE RestoredToBe(t)' = RestoredToBe(t)
  <2>1. \A j : <<t, j>> \in arch'.left <=> <<t, j>> \in arch.left /\ ~(t = s /\ j = i)
    BY <1>2
  <2>2. PICK y : y = IndexToBe(t)
    OBVIOUS
  <2>3. IndexToBe(t)' = y
    <3>1. CASE t = s /\ i = 0
      BY <1>1, <1>2, <1>4, <1>9, <2>1, <2>2, <3>1 DEF IndexToBe
    <3>2. CASE ~(t = s /\ i = 0)
      <4>1. <<t, 0>> \in arch'.left <=> <<t, 0>> \in arch.left
        BY <2>1, <3>2
      <4>2. image'.idx[t] = image.idx[t]
        BY <1>9, <3>2
      <4> QED
        BY <1>1, <1>2, <2>2, <4>1, <4>2 DEF IndexToBe
    <3> QED
      BY <3>1, <3>2
  <2>4. ASSUME NEW j \in SegIds PROVE SegToBe(t, j)' = SegToBe(t, j)
    <3>1. CASE t = s /\ i = j
      <4>1. <<s, j>> \notin arch'.left /\ image'.seg[s][j] = v
        BY <1>2, <1>9, <3>1
      <4> QED
        BY <1>1, <1>5, <3>1, <4>1 DEF SegToBe
    <3>2. CASE ~(t = s /\ i = j)
      <4>1. <<t, j>> \in arch'.left <=> <<t, j>> \in arch.left
        BY <2>1, <3>2
      <4>2. image'.seg[t][j] = image.seg[t][j]
        BY <1>9, <3>2
      <4> QED
        BY <1>1, <1>2, <4>1, <4>2 DEF SegToBe
    <3> QED
      BY <3>1, <3>2
  <2>5. y # <<>> => SegToBe(t, Last(y))' = SegToBe(t, Last(y))
    BY <1>1, <2>2, <2>4, CopyFacts
  <2>6. /\ RestoredToBe(t) = IF image.wal[t] # <<>> THEN Last(image.wal[t]) ELSE IF y = <<>> THEN 0
                             ELSE SegToBe(t, Last(y))
        /\ RestoredToBe(t)' = IF image'.wal[t] # <<>> THEN Last(image'.wal[t]) ELSE IF y = <<>> THEN 0
                              ELSE SegToBe(t, Last(y))'
    BY <2>2, <2>3 DEF RestoredToBe
  <2> QED
    BY <1>9, <2>5, <2>6
<1>12. CopyInv'
  <2> SUFFICES ASSUME NEW t \in Shards
               PROVE  /\ arch'.size # <<>> /\ arch'.must # <<>>
                      /\ arch'.size[t].idx <= Len(shard'[t].idx)
                      /\ \A j \in SegIds : <<t, j>> \in arch'.left => j \in Files(shard'[t])
                      /\ RestoredToBe(t)' \in arch'.must[t]
    BY DEF CopyInv
  <2> QED
    BY <1>1, <1>2, <1>11, CopyFacts
<1>13. ZipInv'
  BY <1>2 DEF ZipInv
<1> QED
  BY <1>2, <1>9, <1>10, <1>12, <1>13 DEF Work

LEMMA ReleaseStep ==
  ASSUME ShardsInv, Work, ReleaseCompaction PROVE Work'
<1>1. /\ arch.pc = "copy" /\ arch.left = {} /\ UNCHANGED <<image, compactor>> /\ arch \in ArchType
      /\ arch' = [arch EXCEPT !.pc = "zip", !.paused = {}, !.size = <<>>]
  BY DEF ReleaseCompaction, Work
<1>2. arch' \in ArchType /\ arch'.pc = "zip" /\ arch'.paused = {} /\ arch'.must = arch.must
  BY <1>1 DEF ArchType
<1>3. PausedInv' /\ CopyInv'
  BY <1>2 DEF PausedInv, CopyInv
<1>4. ASSUME NEW s \in Shards PROVE Restored(image, s) = RestoredToBe(s)
  BY <1>1 DEF Restored, RestoredToBe, IndexToBe, SegToBe
<1>5. \A s \in Shards : RestoredToBe(s) \in arch.must[s]
  BY <1>1, CopyFacts
<1>6. ZipInv'
  BY <1>1, <1>2, <1>4, <1>5 DEF ZipInv
<1> QED
  BY <1>1, <1>2, <1>3, <1>6 DEF Work

LEMMA WorkInit == ArchiveInit => Work
<1> SUFFICES ASSUME ArchiveInit PROVE Work
  OBVIOUS
<1>1. arch = NoArchive /\ image = EmptyImage
  BY DEF ArchiveInit
<1>2. arch.pc = "none" /\ arch.paused = {}
  BY <1>1, EmptyFacts
<1> QED
  BY <1>1, <1>2, EmptyFacts DEF Work, PausedInv, CopyInv, ZipInv

LEMMA WorkStep ==
  ASSUME ShardsInv, ShardsInv', Work, [ArchiveNext]_vars PROVE Work'
<1>1. CASE SnapshotFails \/ CopyFails \/ MakeZip \/ ZipLacksFile \/ ZipFails
  <2>1. arch' = NoArchive /\ image' = EmptyImage
    BY <1>1 DEF SnapshotFails, CopyFails, MakeZip, ZipLacksFile, ZipFails, Fails, Failed, Returned
  <2> QED
    BY <2>1, ResetStep
<1>2. CASE \E s \in Shards, i \in SegIds \cup {0} : CopyFile(s, i)
  BY <1>2, CopyStep
<1>3. CASE \/ SyncWAL \/ BackgroundFlush \/ UNCHANGED vars
           \/ \E s \in Shards : Write(s) \/ CompactorWakes(s) \/ CompactorLocks(s) \/ Compact(s)
  BY <1>3, BesideStep
<1>4. CASE Begin \/ PauseCompaction \/ Snapshot \/ ReleaseCompaction
  BY <1>4, BeginStep, PauseStep, SnapshotStep, ReleaseStep
<1> QED
  BY <1>1, <1>2, <1>3, <1>4 DEF ArchiveNext, ArchiveStep

(* The folder changes in these ways only. *)
LEMMA FolderChanges ==
  ASSUME [ArchiveNext]_vars
  PROVE  \/ Makes /\ arch.pc = "zip"
         \/ Lacks
         \/ UNCHANGED <<folder, named>>
<1>1. CASE MakeZip
  <2>1. PICK exact \in BOOLEAN : exact = \A s \in Shards : Restored(image, s) \in arch.must[s]
    OBVIOUS
  <2>2. PICK f : f = PutArchive(named', TRUE, exact)
    OBVIOUS
  <2>3. f = PutArchive(named', TRUE, \A s \in Shards : Restored(image, s) \in arch.must[s])
    BY <2>1, <2>2
  <2>4. named' \in NewNames /\ arch.pc = "zip"
    BY <1>1 DEF MakeZip
  <2>5. PICK K \in SUBSET (f \ Retain(f)) : folder' = Retain(f) \cup {[a EXCEPT !.stuck = TRUE] : a \in K}
    BY <1>1, <2>3 DEF MakeZip
  <2> QED
    BY <2>1, <2>2, <2>4, <2>5 DEF Makes, Stuck
<1>2. CASE ZipLacksFile
  BY <1>2 DEF ZipLacksFile, Lacks
<1>3. CASE ~MakeZip /\ ~ZipLacksFile
  <2>1. UNCHANGED <<folder, named>>
    BY <1>3 DEF ArchiveNext, ArchiveStep, Begin, PauseCompaction, Snapshot, SnapshotFails, CopyFails,
                ReleaseCompaction, ZipFails, Fails, CopyFile, SyncWAL, BackgroundFlush, Write,
                CompactorWakes, CompactorLocks, Compact, vars
  <2> QED
    BY <2>1
<1> QED
  BY <1>1, <1>2, <1>3

LEMMA ExactStep ==
  ASSUME FolderInv, Work, ArchivesExact, [ArchiveNext]_vars PROVE ArchivesExact'
<1>1. CASE Makes /\ arch.pc = "zip"
  <2>0. PICK exact \in BOOLEAN :
           /\ exact = \A s \in Shards : Restored(image, s) \in arch.must[s]
           /\ named' \in NewNames
           /\ \E f, K : /\ f = PutArchive(named', TRUE, exact) /\ K \subseteq f
                      /\ folder' = Retain(f) \cup Stuck(K)
    BY <1>1 DEF Makes
  <2>1. PICK f, K :
           /\ named' \in NewNames /\ f = PutArchive(named', TRUE, exact) /\ K \subseteq f
           /\ folder' = Retain(f) \cup Stuck(K)
    BY <2>0
  <2>2. exact = TRUE
    BY <1>1, <2>0 DEF Work, ZipInv
  <2>3. PICK n : n = named'
    OBVIOUS
  <2>4. n \in {named, named + 1}
    BY <2>1, <2>3 DEF NewNames, FolderInv
  <2>5. PICK yes \in BOOLEAN : yes = TRUE
    OBVIOUS
  <2>6. f = PutArchive(n, yes, yes)
    BY <2>1, <2>2, <2>3, <2>5
  <2>7. PICK e : e = Archived(n, yes, yes)
    OBVIOUS
  <2>8. n \in Nat /\ f \subseteq Entries(n) /\ \A a \in f : a = e \/ a \in folder
    BY <2>4, <2>6, <2>7, PutFacts
  <2>9. e.exact
    BY <2>5, <2>7 DEF Archived
  <2>10. \A a \in f : a.whole => a.exact
    BY <2>8, <2>9 DEF ArchivesExact
  <2>11. ASSUME NEW a \in Stuck(K) PROVE a.whole => a.exact
    <3>1. K \subseteq Entries(n)
      BY <2>1, <2>8
    <3>2. PICK b \in K : a.whole = b.whole /\ a.exact = b.exact
      BY <2>8, <3>1, StuckFacts
    <3> QED
      BY <2>1, <2>10, <3>2
  <2>12. Retain(f) \subseteq f
    BY DEF Retain
  <2> QED
    BY <2>1, <2>10, <2>11, <2>12 DEF ArchivesExact
<1>2. CASE Lacks
  <2>1. PICK n : n = named'
    OBVIOUS
  <2>2. n \in {named, named + 1}
    BY <1>2, <2>1 DEF Lacks, NewNames
  <2>3. PICK no \in BOOLEAN : no = FALSE
    OBVIOUS
  <2>4. PICK f : f = PutArchive(n, no, no)
    OBVIOUS
  <2>5. PICK e : e = Archived(n, no, no)
    OBVIOUS
  <2>6. \A a \in f : a = e \/ a \in folder
    BY <2>2, <2>4, <2>5, PutFacts
  <2>7. ~e.whole
    BY <2>3, <2>5 DEF Archived
  <2>8. folder' = f
    BY <1>2, <2>1, <2>3, <2>4 DEF Lacks
  <2> QED
    BY <2>6, <2>7, <2>8 DEF ArchivesExact
<1>3. CASE UNCHANGED <<folder, named>>
  BY <1>3 DEF ArchivesExact
<1> QED
  BY <1>1, <1>2, <1>3, FolderChanges

LEMMA ExactInit == ArchiveInit => ArchivesExact
<1> SUFFICES ASSUME ArchiveInit, NEW c \in folder PROVE c.whole => c.exact
  BY DEF ArchivesExact
<1>1. c = Archived(1, TRUE, TRUE) \/ c = Archived(2, FALSE, FALSE)
  BY DEF ArchiveInit, OldFolder
<1> QED
  BY <1>1 DEF Archived

-----------------------------------------------------------------------------
(***************************************************************************)
(* The folder always has the newest ArchiveRetention archives; beyond them *)
(* are only archives that could not be removed and those older than one a  *)
(* failed call left incomplete: createArchive's last loop.                 *)
(***************************************************************************)
THEOREM NewestArchivesKept == ArchiveSpec => []RetentionKeeps
<1>1. ArchiveInit => FolderInv
  BY FolderInit
<1>2. FolderInv /\ [ArchiveNext]_vars => FolderInv'
  BY FolderStep, FolderChanges
<1>3. FolderInv => RetentionKeeps
  BY DEF FolderInv
<1> QED
  BY <1>1, <1>2, <1>3, PTL DEF ArchiveSpec

(* Whatever comes into the folder, a whole archive goes for a whole one. *)
LEMMA WholeStep ==
  ASSUME FolderInv, Makes \/ Lacks \/ UNCHANGED <<folder, named>> PROVE GoesForWhole
<1>1. named \in Nat \ {0} /\ Retention \in Nat /\ folder \subseteq Entries(named)
  BY ArchiveAssumption DEF FolderInv, Entries
<1>2. PICK n : n = named'
  OBVIOUS
<1>3. \A a \in folder : a.name \in Nat /\ a.name <= named
  BY <1>1 DEF Entries
<1>4. CASE Makes
  <2>0. PICK exact \in BOOLEAN :
           /\ named' \in NewNames
           /\ \E f, K : /\ f = PutArchive(named', TRUE, exact) /\ K \subseteq f
                        /\ folder' = Retain(f) \cup Stuck(K)
           /\ exact = \A s \in Shards : Restored(image, s) \in arch.must[s]
    BY <1>4 DEF Makes
  <2>1. PICK f, K : /\ named' \in NewNames /\ f = PutArchive(named', TRUE, exact) /\ K \subseteq f
                    /\ folder' = Retain(f) \cup Stuck(K)
    BY <2>0
  <2>2. n \in {named, named + 1}
    BY <1>1, <1>2, <2>1 DEF NewNames
  <2>3. PICK yes \in BOOLEAN : yes = TRUE
    OBVIOUS
  <2>4. f = PutArchive(n, yes, exact)
    BY <1>2, <2>1, <2>3
  <2>5. PICK e : e = Archived(n, yes, exact)
    OBVIOUS
  <2>6. n \in Nat \ {0} /\ f \subseteq Entries(n) /\ e \in f /\ e.name = n
    BY <2>2, <2>4, <2>5, PutFacts
  <2>7. e.whole
    BY <2>3, <2>5 DEF Archived
  <2>8. NamesOf(f) \subseteq 1 .. n
    BY <2>6 DEF NamesOf, Entries
  <2>9. PICK c \in Nat : c = Cardinality(Newer(f, n)) /\ c <= n - n
    BY <2>6, <2>8, NewerFacts
  <2>10. Retention = 0 \/ c < Retention
    BY <1>1, <2>6, <2>9
  <2>11. e \in Retain(f)
    BY <2>6, <2>9, <2>10 DEF Retain
  <2>12. e \in folder'
    BY <2>1, <2>11
  <2>13. \A a \in folder : e.name >= a.name
    BY <1>1, <1>3, <2>2, <2>6
  <2> QED
    BY <2>7, <2>12, <2>13 DEF GoesForWhole
<1>5. CASE Lacks
  <2>1. PICK no \in BOOLEAN : no = FALSE
    OBVIOUS
  <2>2. n \in {named, named + 1} /\ folder' = PutArchive(n, no, no)
    BY <1>1, <1>2, <1>5, <2>1 DEF Lacks, NewNames
  <2>3. PICK e : e = Archived(n, no, no)
    OBVIOUS
  <2>4. e \in folder' /\ e.name = n
    BY <2>2, <2>3, PutFacts
  <2>5. \A a \in folder : a.name # n => a \in folder'
    BY <2>2 DEF PutArchive
  <2> QED
    BY <1>3, <2>4, <2>5 DEF GoesForWhole
<1>6. CASE UNCHANGED <<folder, named>>
  BY <1>3, <1>6 DEF GoesForWhole
<1> QED
  BY <1>4, <1>5, <1>6

(***************************************************************************)
(* createArchive removes a whole archive only for a newer whole one, or    *)
(* replaces it under its name: retention never takes the last whole one.   *)
(***************************************************************************)
THEOREM LastWholeArchiveStays == ArchiveSpec => WholeOneStays
<1>1. ArchiveInit => FolderInv
  BY FolderInit
<1>2. FolderInv /\ [ArchiveNext]_vars => FolderInv'
  BY FolderStep, FolderChanges
<1>3. FolderInv /\ [ArchiveNext]_vars => [GoesForWhole]_vars
  BY WholeStep, FolderChanges
<1> QED
  BY <1>1, <1>2, <1>3, PTL DEF ArchiveSpec, WholeOneStays

(* The invariant behind the archives' contents. *)
LEMMA ArchiveInvHolds == ArchiveSpec => []ArchiveInv
<1>1. ArchiveInit => ArchiveInv
  BY ShardsInit, WorkInit, FolderInit, ExactInit DEF ArchiveInv, Work
<1>2. ArchiveInv /\ [ArchiveNext]_vars => ArchiveInv'
  <2> SUFFICES ASSUME ArchiveInv, [ArchiveNext]_vars PROVE ArchiveInv'
    OBVIOUS
  <2>1. ShardsInv /\ Work /\ FolderInv /\ ArchivesExact
    BY DEF ArchiveInv, Work
  <2>2. ShardsInv'
    BY <2>1, ShardsStep
  <2>3. Work'
    BY <2>1, <2>2, WorkStep
  <2>4. FolderInv'
    BY <2>1, FolderStep, FolderChanges
  <2>5. ArchivesExact'
    BY <2>1, ExactStep
  <2> QED
    BY <2>2, <2>3, <2>4, <2>5 DEF ArchiveInv, Work
<1> QED
  BY <1>1, <1>2, PTL DEF ArchiveSpec

(***************************************************************************)
(* An archive that createArchive reports as made restores the database of  *)
(* the instant of its snapshot, whatever is written, flushed and compacted *)
(* while its files are copied: copyPrefix and the paused compactors.       *)
(***************************************************************************)
THEOREM ArchivesRestore == ArchiveSpec => []ArchivesExact
<1>1. ArchiveInv => ArchivesExact
  BY DEF ArchiveInv
<1> QED
  BY <1>1, ArchiveInvHolds, PTL

=============================================================================
