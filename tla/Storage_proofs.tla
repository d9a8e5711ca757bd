--------------------------- MODULE Storage_proofs ---------------------------
(***************************************************************************)
(* The invariants of the segments and of the index, for every set of keys  *)
(* and values, every segment size and every number of segments; the lemmas *)
(* are stated per action, so that a specification composed of the same     *)
(* actions can cite them.                                                  *)
(***************************************************************************)
EXTENDS Segments, IndexLog, FiniteSetTheorems, TLAPS

-----------------------------------------------------------------------------
(* Segments *)

(* A freshly created shard satisfies the invariant (StorageManager::boot). *)
LEMMA SegInitInv == SegInit => SegInv
BY LocationsAssumption, SegSizesAssumption
   DEF SegInit, SegInv, SegTypeOK, ExtentsApart, NextIdsFresh, SegIds, Extent, End

(***************************************************************************)
(* Where append writes: an open, not yet full segment, or a fresh one, and *)
(* in both cases the latest of all from then on.                           *)
(***************************************************************************)
LEMMA AppendTarget ==
  ASSUME SegInv, NEW v \in Values, NEW fails \in WriteFails,
         Target \in SegIds, LastTried(v, fails) \in SegIds
  PROVE  /\ Target \in {latest, latest + 1}
         /\ LastTried(v, fails) \in {Target, Target + 1}
         /\ \A s \in segs : s <= LastTried(v, fails)
BY LocationsAssumption, SegSizesAssumption
   DEF SegInv, SegTypeOK, NextIdsFresh, Target, LastTried, SegIds

(* StorageManager::append keeps every value apart from every other. *)
LEMMA AppendInv ==
  ASSUME SegInv, NEW v \in Values, NEW fails \in WriteFails, AppendValue(v, fails)
  PROVE  SegInv'
<1> DEFINE s == LastTried(v, fails)
<1>1. /\ Target \in SegIds /\ s \in SegIds
      /\ segs' = segs \cup {Target, s} /\ latest' = s
      /\ synced' = synced /\ segSize' = segSize
  BY DEF AppendValue
<1>2. /\ Target \in {latest, latest + 1} /\ s \in {Target, Target + 1}
      /\ \A t \in segs : t <= s
  BY <1>1, AppendTarget
<1>3. \A t \in segs' : t <= latest'
  BY <1>1, <1>2 DEF SegInv, SegTypeOK, SegIds
<1>4. CASE ~Written(v, fails)
  <2>1. len' = len /\ ext' = ext
    BY <1>4 DEF AppendValue
  <2> QED
    BY <1>1, <1>3, <2>1 DEF SegInv, SegTypeOK, ExtentsApart, NextIdsFresh, End
<1>5. CASE Written(v, fails)
  <2> DEFINE new == [seg |-> s, off |-> len[s], val |-> v]
  <2>1. /\ len' = [len EXCEPT ![s] = @ + SizeOf[v]]
        /\ ext' = ext \cup {new}
    BY <1>5 DEF AppendValue, Advanced
  <2>2. /\ SizeOf[v] \in Nat \ {0} /\ len[s] \in 0 .. MaxSegSize
        /\ len[s] + SizeOf[v] \in 0 .. MaxSegSize
    BY <1>1, <1>5, LocationsAssumption, SegSizesAssumption
       DEF Written, Fits, SegInv, SegTypeOK
  <2>3. SegTypeOK'
    BY <1>1, <2>1, <2>2 DEF SegInv, SegTypeOK, Extent
  <2>4. ExtentsApart'
    <3>1. \A e \in ext : /\ e.seg \in SegIds /\ e.off \in Nat /\ SizeOf[e.val] \in Nat \ {0}
                         /\ e.seg \in segs /\ End(e) <= len[e.seg]
      BY LocationsAssumption DEF SegInv, SegTypeOK, Extent, ExtentsApart
    <3>2. \A t \in SegIds : len[t] \in Nat /\ len'[t] \in Nat /\ len[t] <= len'[t]
      BY <1>1, <2>1, <2>2, LocationsAssumption DEF SegInv, SegTypeOK
    <3>3. \A e \in ext' : e.seg \in segs' /\ End(e) <= len'[e.seg]
      BY <1>1, <2>1, <2>2, <3>1, <3>2 DEF End, SegInv, SegTypeOK
    <3>4. \A e \in ext : e.seg = s => End(e) <= new.off
      BY <3>1
    <3>5. \A e, f \in ext' : e.seg = f.seg /\ e # f => End(e) <= f.off \/ End(f) <= e.off
      BY <2>1, <3>4 DEF SegInv, ExtentsApart
    <3> QED
      BY <3>3, <3>5 DEF ExtentsApart, End
  <2>5. NextIdsFresh'
    BY <1>1, <1>3, <2>1 DEF SegInv, SegTypeOK, NextIdsFresh
  <2>6. \A t \in SegIds : synced'[t] <= len'[t]
    BY <1>1, <2>1, <2>2 DEF SegInv, SegTypeOK
  <2> QED
    BY <2>3, <2>4, <2>5, <2>6 DEF SegInv
<1> QED
  BY <1>4, <1>5

(* StorageManager::flush, whatever segments it reaches. *)
LEMMA FlushInv ==
  ASSUME SegInv, NEW S \in SUBSET segs, SegFlush(S)
  PROVE  SegInv'
BY DEF SegInv, SegTypeOK, ExtentsApart, NextIdsFresh, End, SegFlush

(* StorageManager::removeUnusedSegments, whatever segments are in use. *)
LEMMA RemoveInv ==
  ASSUME SegInv, NEW used, RemoveUnused(used)
  PROVE  SegInv'
<1>1. SegTypeOK'
  BY LocationsAssumption DEF SegInv, SegTypeOK, RemoveUnused
<1>2. ExtentsApart'
  BY DEF SegInv, SegTypeOK, ExtentsApart, End, RemoveUnused, Extent
<1>3. NextIdsFresh' /\ \A s \in SegIds : synced'[s] <= len'[s]
  BY DEF SegInv, SegTypeOK, NextIdsFresh, RemoveUnused
<1> QED
  BY <1>1, <1>2, <1>3 DEF SegInv

(* Shard::reloadSettings: a smaller SegSize does not disturb what is stored. *)
LEMMA ResizeInv ==
  ASSUME SegInv, NEW size \in SegSizes, SegResize(size)
  PROVE  SegInv'
BY DEF SegInv, SegTypeOK, ExtentsApart, NextIdsFresh, End, SegResize

(* A crash and StorageManager::boot. *)
LEMMA CrashInv ==
  ASSUME SegInv, NEW cut \in Cuts, SegCrash(cut)
  PROVE  SegInv'
<1>1. SegTypeOK'
  <2>1. segs' \subseteq SegIds /\ latest' \in segs'
    BY LocationsAssumption DEF SegInv, SegTypeOK, SegCrash, LatestOf, SegIds
  <2>2. cut \in [SegIds -> 0 .. MaxSegSize]
    BY DEF Cuts
  <2> QED
    BY <2>1, <2>2 DEF SegInv, SegTypeOK, SegCrash, Reopened
<1>2. ExtentsApart'
  BY DEF SegInv, SegTypeOK, ExtentsApart, End, SegCrash, Extent
<1>3. NextIdsFresh'
  <2>1. \A s \in SegIds : cut[s] \in Nat /\ len[s] \in Nat /\ cut[s] <= len[s]
    BY LocationsAssumption DEF Cuts, SegInv, SegTypeOK
  <2>2. \A s \in SegIds \ segs' : len'[s] = 0
    BY <2>1, LocationsAssumption DEF SegCrash, Reopened, SegInv, SegTypeOK, NextIdsFresh
  <2> QED
    BY <2>2 DEF NextIdsFresh, SegCrash, LatestOf
<1>4. \A s \in SegIds : synced'[s] <= len'[s]
  BY LocationsAssumption DEF SegCrash, Cuts, Reopened
<1> QED
  BY <1>1, <1>2, <1>3, <1>4 DEF SegInv

(* Every step of the segments keeps the invariant. *)
LEMMA SegNextInv == SegInv /\ [SegNext]_segVars => SegInv'
<1> SUFFICES ASSUME SegInv, [SegNext]_segVars PROVE SegInv'
  OBVIOUS
<1>1. ASSUME NEW v \in Values, NEW fails \in WriteFails, AppendValue(v, fails) PROVE SegInv'
  BY <1>1, AppendInv
<1>2. ASSUME NEW S \in SUBSET segs, SegFlush(S) PROVE SegInv'
  BY <1>2, FlushInv
<1>3. ASSUME NEW used \in SUBSET SegIds, RemoveUnused(used) PROVE SegInv'
  BY <1>3, RemoveInv
<1>4. ASSUME NEW size \in SegSizes, SegResize(size) PROVE SegInv'
  BY <1>4, ResizeInv
<1>5. ASSUME NEW cut \in Cuts, SegCrash(cut) PROVE SegInv'
  BY <1>5, CrashInv
<1>6. CASE UNCHANGED segVars
  BY <1>6 DEF segVars, SegInv, SegTypeOK, ExtentsApart, NextIdsFresh, End
<1> QED
  BY <1>1, <1>2, <1>3, <1>4, <1>5, <1>6 DEF SegNext

(* The segments' invariant holds in every reachable state. *)
LEMMA SegInvHolds == SegSpec => []SegInv
BY SegInitInv, SegNextInv, PTL DEF SegSpec

(***************************************************************************)
(* StorageManager never lets two values share bytes and never reuses an    *)
(* existing segment file for a new segment, whatever sequence of appends,  *)
(* failed writes, flushes, removals, reloads and crashes it goes through.  *)
(***************************************************************************)
THEOREM SegmentsSound == SegSpec => [](SegTypeOK /\ ExtentsApart /\ NextIdsFresh)
BY SegInvHolds, PTL DEF SegInv

(* StorageManager: no write position passes the largest segment size, and  *)
(* every value lies inside it, through refused writes, resizes and boots.  *)
THEOREM SegmentsTyped == SegSpec => []SegTypeOK
BY SegInvHolds, PTL DEF SegInv

(***************************************************************************)
(* NextIdsFresh holds of every behaviour, also after removeUnusedSegments  *)
(* has taken the latest segment: append never reopens an old file.         *)
(***************************************************************************)
THEOREM SegmentIdsFresh == SegSpec => []NextIdsFresh
BY SegInvHolds, PTL DEF SegInv

(***************************************************************************)
(* No step but a removal of the segment or a crash before the fsync takes  *)
(* a value away.                                                           *)
(***************************************************************************)
THEOREM SegmentsKeepValues == SegSpec => ValuesStay
<1> DEFINE Stay == \A e \in ext \ ext' : \/ e.seg \notin segs'
                                         \/ synced[e.seg] < End(e) /\ len'[e.seg] < End(e)
<1>1. SegInv /\ [SegNext]_segVars => [Stay]_segVars
  <2> SUFFICES ASSUME SegInv, SegNext PROVE Stay
    OBVIOUS
  <2>1. ASSUME NEW v \in Values, NEW fails \in WriteFails, AppendValue(v, fails) PROVE Stay
    BY <2>1 DEF AppendValue
  <2>2. ASSUME NEW used \in SUBSET SegIds, RemoveUnused(used) PROVE Stay
    BY <2>2 DEF RemoveUnused, SegInv, ExtentsApart
  <2>3. ASSUME NEW cut \in Cuts, SegCrash(cut) PROVE Stay
    <3> SUFFICES ASSUME NEW e \in ext, e \notin ext'
                 PROVE  synced[e.seg] < End(e) /\ len'[e.seg] < End(e)
      OBVIOUS
    <3>1. ~(End(e) <= cut[e.seg]) /\ len' = cut
      BY <2>3 DEF SegCrash, Reopened, End
    <3>2. e.seg \in SegIds /\ End(e) \in Int
      BY LocationsAssumption DEF SegInv, SegTypeOK, Extent, End
    <3>3. cut[e.seg] \in Int /\ synced[e.seg] \in Int /\ synced[e.seg] <= cut[e.seg]
      BY <3>2, LocationsAssumption DEF Cuts, SegInv, SegTypeOK
    <3> QED
      BY <3>1, <3>2, <3>3
  <2>4. ASSUME UNCHANGED ext PROVE Stay
    BY <2>4
  <2> QED
    BY <2>1, <2>2, <2>3, <2>4 DEF SegNext, SegFlush, SegResize
<1> QED
  BY <1>1, SegInvHolds, PTL DEF SegSpec, ValuesStay

-----------------------------------------------------------------------------
(* Index *)

Maps == [Keys -> Location \cup {NoLoc}]

(* One more record changes what its key resolves to and nothing else. *)
LEMMA AppendLoads ==
  ASSUME NEW l \in Seq(Record), NEW m \in Maps, Loads(l, m),
         NEW k \in Keys, NEW loc \in Location \cup {NoLoc}
  PROVE  Loads(Append(l, [key |-> k, loc |-> loc]), [m EXCEPT ![k] = loc])
<1> DEFINE r == [key |-> k, loc |-> loc]
           l2 == Append(l, r)
           m2 == [m EXCEPT ![k] = loc]
<1>1. /\ Len(l) \in Nat /\ DOMAIN l = 1 .. Len(l) /\ DOMAIN l2 = 1 .. (Len(l) + 1)
      /\ l2[Len(l) + 1] = r /\ \A i \in 1 .. Len(l) : l2[i] = l[i]
  OBVIOUS
<1>2. Resolves(l2, k, m2[k])
  <2>1. m2[k] = loc /\ Len(l) + 1 \in DOMAIN l2
    BY <1>1 DEF Maps
  <2>2. \A j \in DOMAIN l2 : ~(j > Len(l) + 1)
    BY <1>1
  <2> QED
    BY <1>1, <2>1, <2>2 DEF Resolves
<1>3. ASSUME NEW q \in Keys, q # k PROVE Resolves(l2, q, m2[q])
  <2>1. m2[q] = m[q] /\ Resolves(l, q, m[q])
    BY <1>3 DEF Maps, Loads
  <2>2. r.key # q
    BY <1>3
  <2>3. CASE m[q] = NoLoc /\ \A i \in DOMAIN l : l[i].key # q
    <3>1. \A i \in DOMAIN l2 : l2[i].key # q
      BY <1>1, <2>2, <2>3
    <3> QED
      BY <2>1, <2>3, <3>1 DEF Resolves
  <2>4. CASE \E i \in DOMAIN l : /\ l[i] = [key |-> q, loc |-> m[q]]
                                 /\ \A j \in DOMAIN l : j > i => l[j].key # q
    <3>1. PICK i \in DOMAIN l : /\ l[i] = [key |-> q, loc |-> m[q]]
                                /\ \A j \in DOMAIN l : j > i => l[j].key # q
      BY <2>4
    <3>2. i \in DOMAIN l2 /\ l2[i] = [key |-> q, loc |-> m[q]]
      BY <1>1, <3>1
    <3>3. \A j \in DOMAIN l2 : j > i => l2[j].key # q
      BY <1>1, <2>2, <3>1
    <3> QED
      BY <2>1, <3>2, <3>3 DEF Resolves
  <2> QED
    BY <2>1, <2>3, <2>4 DEF Resolves
<1> QED
  BY <1>2, <1>3 DEF Loads

(* A compacted INDEX loads to the map it was written from. *)
LEMMA SnapshotLoads ==
  ASSUME NEW m \in Maps, NEW l \in Snapshots(m)
  PROVE  l \in Seq(Record) /\ Loads(l, m)
<1> DEFINE n == Cardinality(Live(m))
<1>1. n \in Nat
  BY IndexLogAssumption, FS_Subset, FS_CardinalityType DEF Live
<1>2. PICK order \in Bijection(1 .. n, Live(m)) :
         l = [i \in 1 .. n |-> [key |-> order[i], loc |-> m[order[i]]]]
  BY DEF Snapshots
<1>3. /\ order \in [1 .. n -> Live(m)]
      /\ \A i, j \in 1 .. n : order[i] = order[j] => i = j
      /\ \A k \in Live(m) : \E i \in 1 .. n : order[i] = k
  BY DEF Bijection, Injection, IsInjective, Surjection
<1>4. \A i \in 1 .. n : order[i] \in Keys /\ m[order[i]] \in Location \cup {NoLoc}
  BY <1>3 DEF Live, Maps
<1>5. l \in Seq(Record) /\ DOMAIN l = 1 .. n
  <2>1. \A i \in 1 .. n : [key |-> order[i], loc |-> m[order[i]]] \in Record
    BY <1>4 DEF Record
  <2> QED
    BY <1>1, <1>2, <2>1
<1>6. ASSUME NEW k \in Keys PROVE Resolves(l, k, m[k])
  <2>1. CASE k \in Live(m)
    <3>1. PICK i \in 1 .. n : order[i] = k
      BY <1>3, <2>1
    <3>2. l[i] = [key |-> k, loc |-> m[k]]
      BY <1>2, <3>1
    <3>3. \A j \in 1 .. n : j > i => l[j].key # k
      BY <1>1, <1>2, <1>3, <3>1
    <3> QED
      BY <1>5, <3>2, <3>3 DEF Resolves
  <2>2. CASE k \notin Live(m)
    <3>1. m[k] = NoLoc
      BY <2>2 DEF Live
    <3>2. \A i \in 1 .. n : l[i].key # k
      BY <1>2, <1>3, <2>2
    <3> QED
      BY <1>5, <3>1, <3>2 DEF Resolves
  <2> QED
    BY <2>1, <2>2
<1> QED
  BY <1>5, <1>6 DEF Loads

(* When the whole file is on disk, a crash leaves the file as it is. *)
LEMMA SyncedCrash ==
  ASSUME NEW l \in Seq(Record)
  PROVE  {SubSeq(l, 1, n) : n \in Len(l) .. Len(l)} = {l}
<1>1. SubSeq(l, 1, Len(l)) = l /\ Len(l) \in Nat
  OBVIOUS
<1>2. Len(l) .. Len(l) = {Len(l)}
  BY <1>1
<1> QED
  BY <1>1, <1>2

(* A map whose log is wholly on disk satisfies the invariant. *)
LEMMA SyncedInv ==
  ASSUME mem' \in Maps, log' \in Seq(Record), Loads(log', mem'),
         logSynced' = Len(log'), past' = {mem'}
  PROVE  IndexInv'
<1>1. CrashLogs' = {log'}
  BY SyncedCrash DEF CrashLogs
<1>2. CrashIsPointInTime'
  BY <1>1 DEF CrashIsPointInTime
<1>3. IndexTypeOK'
  BY DEF IndexTypeOK, Maps
<1> QED
  BY <1>2, <1>3 DEF IndexInv, LogMatchesMemory, Maps

(* IndexManager::append, with the change of memoryTree its callers make. *)
LEMMA RecordInv ==
  ASSUME IndexInv, NEW k \in Keys, NEW loc \in Location \cup {NoLoc},
         AppendRecord(k, loc), mem' = [mem EXCEPT ![k] = loc]
  PROVE  IndexInv'
<1> DEFINE r == [key |-> k, loc |-> loc]
<1>1. /\ log \in Seq(Record) /\ mem \in Maps /\ r \in Record
      /\ Len(log) \in Nat /\ logSynced \in 0 .. Len(log)
  BY DEF IndexInv, IndexTypeOK, Maps, Record
<1>2. log' = Append(log, r) /\ logSynced' = logSynced /\ past' = past \cup {mem'}
  BY DEF AppendRecord
<1>3. log' \in Seq(Record) /\ Len(log') = Len(log) + 1
  BY <1>1, <1>2
<1>4. mem' \in Maps
  BY <1>1 DEF Maps
<1>5. Loads(log', mem')
  BY <1>1, <1>2, AppendLoads DEF IndexInv, LogMatchesMemory
<1>6. ASSUME NEW n \in logSynced' .. Len(log')
      PROVE  \E m \in past' : Loads(SubSeq(log', 1, n), m)
  <2>1. CASE n = Len(log')
    <3>1. SubSeq(log', 1, n) = log'
      BY <1>3, <2>1
    <3> QED
      BY <1>2, <1>5, <3>1
  <2>2. CASE n # Len(log')
    <3>1. n \in logSynced .. Len(log)
      BY <1>1, <1>2, <1>3, <2>2
    <3>2. SubSeq(log', 1, n) = SubSeq(log, 1, n)
      BY <1>1, <1>2, <1>3, <3>1
    <3>3. SubSeq(log, 1, n) \in CrashLogs
      BY <3>1 DEF CrashLogs
    <3>4. \E m \in past : Loads(SubSeq(log, 1, n), m)
      BY <3>3 DEF IndexInv, CrashIsPointInTime
    <3> QED
      BY <1>2, <3>2, <3>4
  <2> QED
    BY <2>1, <2>2
<1>7. CrashIsPointInTime'
  BY <1>6 DEF CrashIsPointInTime, CrashLogs
<1>8. IndexTypeOK'
  BY <1>1, <1>2, <1>3, <1>4 DEF IndexTypeOK, Maps
<1> QED
  BY <1>2, <1>4, <1>5, <1>7, <1>8 DEF IndexInv, LogMatchesMemory, Maps

(* Every step of the index keeps the invariant. *)
LEMMA IndexNextInv == IndexInv /\ [IndexNext]_indexVars => IndexInv'
<1> SUFFICES ASSUME IndexInv, [IndexNext]_indexVars PROVE IndexInv'
  OBVIOUS
<1>0. mem \in Maps /\ log \in Seq(Record) /\ Loads(log, mem)
  BY DEF IndexInv, IndexTypeOK, LogMatchesMemory, Maps
<1>1. ASSUME NEW k \in Keys, NEW loc \in Location, Insert(k, loc) PROVE IndexInv'
  BY <1>1, RecordInv DEF Insert
<1>2. ASSUME NEW k \in Keys, Tombstone(k) PROVE IndexInv'
  <2>1. CASE mem[k] = NoLoc
    BY <1>2, <2>1 DEF Tombstone, indexVars, IndexInv, IndexTypeOK, LogMatchesMemory,
                      CrashIsPointInTime, CrashLogs
  <2>2. CASE mem[k] # NoLoc
    BY <1>2, <2>2, RecordInv DEF Tombstone
  <2> QED
    BY <2>1, <2>2
<1>3. ASSUME IndexFlush PROVE IndexInv'
  BY <1>0, <1>3, SyncedInv DEF IndexFlush
<1>4. ASSUME IndexCompact PROVE IndexInv'
  BY <1>0, <1>4, SnapshotLoads, SyncedInv DEF IndexCompact
<1>5. ASSUME IndexCrash PROVE IndexInv'
  <2>0. PICK l \in CrashLogs : \E m \in Loaded(l) :
           /\ mem' = m /\ past' = {m}
           /\ log' \in {l} \cup Snapshots(m) /\ logSynced' = Len(log')
    BY <1>5 DEF IndexCrash
  <2>1. PICK m \in Loaded(l) :
           /\ mem' = m /\ past' = {m}
           /\ log' \in {l} \cup Snapshots(m) /\ logSynced' = Len(log')
    BY <2>0
  <2>2. l \in Seq(Record)
    BY <1>0 DEF CrashLogs, IndexInv, IndexTypeOK
  <2>3. \A i \in DOMAIN l : l[i].loc \in Location \cup {NoLoc}
    <3>1. \A i \in DOMAIN l : l[i] \in Record
      BY <2>2
    <3> QED
      BY <3>1 DEF Record
  <2>4. m \in Maps /\ Loads(l, m)
    BY <2>3 DEF Loaded, Maps
  <2>5. log' \in Seq(Record) /\ Loads(log', m)
    BY <2>1, <2>2, <2>4, SnapshotLoads
  <2> QED
    BY <2>1, <2>4, <2>5, SyncedInv
<1>6. CASE UNCHANGED indexVars
  BY <1>6 DEF indexVars, IndexInv, IndexTypeOK, LogMatchesMemory,
              CrashIsPointInTime, CrashLogs
<1> QED
  BY <1>1, <1>2, <1>3, <1>4, <1>5, <1>6 DEF IndexNext

(* The empty INDEX of a new shard. *)
LEMMA IndexInitInv == IndexInit => IndexInv
<1> SUFFICES ASSUME IndexInit PROVE IndexInv
  OBVIOUS
<1>1. mem \in Maps /\ past = {mem} /\ log = <<>> /\ logSynced = 0
  BY DEF IndexInit, Maps
<1>2. Loads(log, mem)
  <2>1. DOMAIN log = {} /\ \A k \in Keys : mem[k] = NoLoc
    BY <1>1 DEF IndexInit
  <2> QED
    BY <2>1 DEF Loads, Resolves
<1>3. CrashLogs = {log}
  <2>1. log \in Seq(Record) /\ Len(log) = 0
    BY <1>1
  <2> QED
    BY <1>1, <2>1, SyncedCrash DEF CrashLogs
<1> QED
  BY <1>1, <1>2, <1>3 DEF IndexInv, IndexTypeOK, LogMatchesMemory, CrashIsPointInTime, Maps

(* The index's invariant holds in every reachable state. *)
LEMMA IndexInvHolds == IndexSpec => []IndexInv
BY IndexInitInv, IndexNextInv, PTL DEF IndexSpec

(***************************************************************************)
(* IndexManager: the INDEX file always loads to the map in memory, and     *)
(* what a crash leaves of it loads to a map memory held since the last     *)
(* fsync.                                                                  *)
(***************************************************************************)
THEOREM IndexSound == IndexSpec => [](LogMatchesMemory /\ CrashIsPointInTime)
BY IndexInvHolds, PTL DEF IndexInv

(* IndexManager: the map, the log and what of it is synced stay of their   *)
(* types through inserts, removals, compactions and crashes.               *)
THEOREM IndexTyped == IndexSpec => []IndexTypeOK
BY IndexInvHolds, PTL DEF IndexInv

(***************************************************************************)
(* LogMatchesMemory holds of every behaviour: a clean restart, which loads *)
(* INDEX as it is, finds the map that was in memory.                       *)
(***************************************************************************)
THEOREM IndexMatchesLog == IndexSpec => []LogMatchesMemory
BY IndexInvHolds, PTL DEF IndexInv
=============================================================================
