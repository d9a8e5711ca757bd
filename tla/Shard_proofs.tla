---------------------------- MODULE Shard_proofs ----------------------------
(***************************************************************************)
(* The shard's reads are exact, its index entries readable, it keeps the   *)
(* promise of DurableMap and its compactor reclaims space, for any keys,   *)
(* values, segments, capacities and readers.  LRUCache_proofs declares the *)
(* history variable newer of Recency, which the shard does not have and no *)
(* statement here mentions.                                                *)
(***************************************************************************)
EXTENDS Shard, Storage_proofs, LRUCache_proofs

-----------------------------------------------------------------------------
(* Reads *)

(* ExtentsApart and the types, of the segments S with lengths L and extents E. *)
Sound(S, L, E) ==
    /\ E \subseteq Extent /\ L \in [SegIds -> 0 .. MaxSegSize]
    /\ \A e \in E : e.seg \in S /\ End(e) <= L[e.seg]
    /\ \A e, f \in E : e.seg = f.seg /\ e # f => End(e) <= f.off \/ End(f) <= e.off

(* The extent that v at loc is. *)
Ext(loc, v) == [seg |-> loc.seg, off |-> loc.off, val |-> v]

LEMMA SegInvSound == (SegInv => Sound(segs, len, ext)) /\ (SegInv' => Sound(segs', len', ext'))
BY DEF SegInv, SegTypeOK, ExtentsApart, Sound, End

(* What lies at a location is what a read of it returns, ... *)
LEMMA HeldIsRead ==
  ASSUME NEW S, NEW L, NEW E, Sound(S, L, E), NEW loc \in Location, NEW v \in Values,
         Ext(loc, v) \in E, SizeOf[v] = loc.size
  PROVE  ContainsIn(S, L, loc) /\ ReadIn(S, L, E, loc) = v
<1>1. ContainsIn(S, L, loc)
  BY DEF Sound, Ext, End, ContainsIn
<1>2. ASSUME NEW e \in At(E, loc) PROVE e.val = v
  <2>1. /\ e \in E /\ e.seg = loc.seg /\ e.off = loc.off /\ SizeOf[e.val] = loc.size
    BY DEF At
  <2>2. loc.off \in Nat /\ loc.size \in Nat /\ loc.size > 0
    BY LocationsAssumption DEF Location
  <2>3. e = Ext(loc, v)
    BY <2>1, <2>2 DEF Sound, Ext, End
  <2> QED
    BY <2>3 DEF Ext
<1>3. Ext(loc, v) \in At(E, loc)
  BY DEF At, Ext
<1> QED
  BY <1>1, <1>2, <1>3 DEF ReadIn

(* ... and a value is only read where it lies. *)
LEMMA ReadIsHeld ==
  ASSUME NEW S, NEW L, NEW E, E \subseteq Extent, NEW loc, ReadIn(S, L, E, loc) \in Values
  PROVE  LET v == ReadIn(S, L, E, loc)
         IN Ext(loc, v) \in E /\ SizeOf[v] = loc.size /\ ContainsIn(S, L, loc)
<1>1. ContainsIn(S, L, loc) /\ At(E, loc) # {}
  BY LocationsAssumption DEF ReadIn
<1> DEFINE e == CHOOSE x \in At(E, loc) : TRUE
<1>2. e \in At(E, loc) /\ ReadIn(S, L, E, loc) = e.val
  BY <1>1 DEF ReadIn
<1> HIDE DEF e
<1>3. e \in Extent /\ e.seg = loc.seg /\ e.off = loc.off /\ SizeOf[e.val] = loc.size
  BY <1>2 DEF At
<1>4. e = Ext(loc, e.val)
  BY <1>3 DEF Extent, Ext
<1> QED
  BY <1>1, <1>2, <1>3, <1>4 DEF At

(* The value of k on disk. *)
Val(k) == IF mem[k] = NoLoc THEN NoVal ELSE Read(mem[k])

LEMMA ReadNext2 == ASSUME NEW loc PROVE Read(loc)' = ReadIn(segs', len', ext', loc)
BY DEF Read, ReadIn, ContainsIn, At

LEMMA ValNext ==
  ASSUME NEW k
  PROVE  Val(k)' = IF mem'[k] = NoLoc THEN NoVal ELSE ReadIn(segs', len', ext', mem'[k])
BY DEF Val, Read, ReadIn, ContainsIn, At

(* Readers and the cache agree with the disk. *)
Coherent == /\ \A k \in Keys : Hit(k) => cval[k] = Val(k)
            /\ \A r \in Readers : rd[r] # Idle => rd[r].val = Val(rd[r].key)

LEMMA CoherentIs ==
  ASSUME ShardTypeOK
  PROVE  CacheCoherent <=> Coherent
<1>1. \A r \in Readers : rd[r] # Idle => rd[r].val # NoVal
  BY LocationsAssumption DEF ShardTypeOK
<1> QED
  BY <1>1 DEF CacheCoherent, Coherent, Val, Hit

LEMMA CoherentNext ==
  ASSUME ShardTypeOK', Coherent'
  PROVE  CacheCoherent'
<1>1. \A r \in Readers : rd'[r] # Idle => rd'[r].val # NoVal
  BY LocationsAssumption DEF ShardTypeOK, Idle
<1> QED
  BY <1>1 DEF CacheCoherent, Coherent, Val, Hit, Idle

-----------------------------------------------------------------------------
(* What appends, flushes and reloads leave alone *)

SegFrame ==
    /\ ext \subseteq ext' /\ segs \subseteq segs' /\ latest <= latest'
    /\ \A s \in segs' \ segs : s > latest
    /\ \A s \in SegIds : len[s] <= len'[s] /\ synced[s] <= synced'[s]

LEMMA AppendFrame ==
  ASSUME SegInv, NEW v \in Values, NEW fails \in WriteFails, AppendValue(v, fails)
  PROVE  SegFrame
<1> DEFINE s == LastTried(v, fails)
<1>1. /\ Target \in SegIds /\ s \in SegIds
      /\ segs' = segs \cup {Target, s} /\ latest' = s /\ synced' = synced
  BY DEF AppendValue
<1>2. Target \in {latest, latest + 1} /\ s \in {Target, Target + 1} /\ latest \in Int
  BY <1>1, AppendTarget DEF SegInv, SegTypeOK, SegIds
<1>3. Target \in segs \/ Target = latest + 1
  BY DEF Target
<1>4. \A t \in segs' \ segs : t > latest
  BY <1>1, <1>2, <1>3
<1>5. latest <= latest'
  BY <1>1, <1>2
<1>6. \A t \in SegIds : len[t] \in Int /\ synced[t] \in Int /\ len[t] <= len'[t]
  <2>1. \A t \in SegIds : len[t] \in Int /\ synced[t] \in Int
    BY DEF SegInv, SegTypeOK
  <2>2. CASE Written(v, fails)
    <3>1. len' = [len EXCEPT ![s] = @ + SizeOf[v]] /\ SizeOf[v] \in Nat
      BY <2>2, LocationsAssumption DEF AppendValue, Advanced
    <3> QED
      BY <1>1, <2>1, <3>1 DEF SegInv, SegTypeOK
  <2>3. CASE ~Written(v, fails)
    BY <2>1, <2>3 DEF AppendValue
  <2> QED
    BY <2>1, <2>2, <2>3
<1>7. ext \subseteq ext'
  BY DEF AppendValue
<1> QED
  BY <1>1, <1>4, <1>5, <1>6, <1>7 DEF SegFrame

LEMMA FlushFrame == ASSUME SegInv, NEW S \in SUBSET segs, SegFlush(S) PROVE SegFrame
BY DEF SegInv, SegTypeOK, SegFlush, SegFrame, SegIds

LEMMA ResizeFrame == ASSUME SegInv, NEW size, SegResize(size) PROVE SegFrame
BY DEF SegInv, SegTypeOK, SegResize, SegFrame, SegIds

LEMMA SameFrame == ASSUME SegInv, UNCHANGED segVars PROVE SegFrame /\ SegInv'
<1>1. SegFrame
  BY DEF SegInv, SegTypeOK, segVars, SegFrame, SegIds
<1>2. SegInv'
  BY SegNextInv
<1> QED
  BY <1>1, <1>2

(* A value once read at a location is read there again. *)
LEMMA ReadKept ==
  ASSUME SegInv, SegInv', ext \subseteq ext', NEW loc \in Location, Read(loc) \in Values
  PROVE  Read(loc)' = Read(loc)
<1> DEFINE v == Read(loc)
<1>1. v = ReadIn(segs, len, ext, loc)
  BY DEF Read
<1>2. Sound(segs, len, ext) /\ Sound(segs', len', ext')
  BY SegInvSound
<1>3. Ext(loc, v) \in ext' /\ SizeOf[v] = loc.size
  BY <1>1, <1>2, ReadIsHeld DEF Sound
<1>4. ReadIn(segs', len', ext', loc) = v
  BY <1>2, <1>3, HeldIsRead
<1> QED
  BY <1>4, ReadNext2

(* The values of the keys that keep their location. *)
LEMMA ValKept ==
  ASSUME ShardInv, SegInv', ext \subseteq ext', job.kind # "verify",
         NEW k \in Keys, mem'[k] = mem[k]
  PROVE  Val(k)' = Val(k)
<1>1. CASE mem[k] = NoLoc
  BY <1>1, ValNext DEF Val
<1>2. CASE mem[k] # NoLoc
  <2>1. mem[k] \in Location /\ Read(mem[k]) \in Values /\ SegInv
    BY <1>2 DEF ShardInv, IndexInv, IndexTypeOK, EntriesReadable, Live
  <2> DEFINE loc == mem[k]
  <2>2. ReadIn(segs', len', ext', mem[k]) = Read(mem[k])
    <3>1. PICK c : c = mem[k]
      OBVIOUS
    <3>2. Read(c)' = Read(c)
      BY <2>1, <3>1, ReadKept
    <3> QED
      BY <3>1, <3>2, ReadNext2
  <2> QED
    BY <1>2, <2>2, ValNext DEF Val
<1> QED
  BY <1>1, <1>2

-----------------------------------------------------------------------------
(* What a crash may bring back *)

(* Nothing is forgotten of the history. *)
HistGrows == /\ \A k \in Keys : hist[k] \subseteq hist'[k]
             /\ Exposed \subseteq Exposed'

LEMMA EntryKept ==
  ASSUME SegInv, SegInv', SegFrame, HistGrows, job.kind # "verify",
         NEW m \in Maps, NEW k \in Keys, EntrySafe(m, k)
  PROVE  EntrySafe(m, k)'
<1> DEFINE l == m[k]
<1>1. CASE l = NoLoc
  BY <1>1 DEF EntrySafe, HistGrows
<1>2. CASE l # NoLoc
  <2>1. l \in Location
    BY <1>2 DEF Maps
  <2>2. /\ l.seg \in SegIds /\ l.off \in Int /\ l.size \in Int
        /\ len[l.seg] \in Int /\ len'[l.seg] \in Int
        /\ synced[l.seg] \in Int /\ synced'[l.seg] \in Int
        /\ latest \in Int /\ latest' \in Int
    <3>1. l.seg \in SegIds /\ l.off \in Int /\ l.size \in Int
      BY <2>1, LocationsAssumption DEF Location
    <3>2. latest \in Int /\ latest' \in Int
      BY DEF SegInv, SegTypeOK, SegIds
    <3>3. len[l.seg] \in Int /\ len'[l.seg] \in Int /\ synced[l.seg] \in Int /\ synced'[l.seg] \in Int
      BY <3>1, LocationsAssumption DEF SegInv, SegTypeOK
    <3> QED
      BY <3>1, <3>2, <3>3
  <2>3. /\ ContainsIn(segs, len, l) => \E v \in Values \cap hist[k] : Holds(l, v)
        /\ l.seg <= latest /\ (l.seg \in segs => ContainsIn(segs, len, l))
        /\ k \in Exposed \/ NoVal \in hist[k] \/ OnDisk(l)
    BY <1>2 DEF EntrySafe
  <2> HIDE DEF l
  <2>4. l.seg \in segs' => ContainsIn(segs, len, l)
    BY <2>2, <2>3 DEF SegFrame, SegIds
  <2>5. ContainsIn(segs, len, l) => ContainsIn(segs', len', l)
    BY <2>2 DEF SegFrame, ContainsIn
  <2>6. ContainsIn(segs', len', l) => \E v \in Values \cap hist'[k] : Ext(l, v) \in ext' /\ SizeOf[v] = l.size
    BY <2>3, <2>4 DEF SegFrame, HistGrows, ContainsIn, Holds, Ext
  <2>7. l.seg <= latest'
    BY <2>2, <2>3 DEF SegFrame, SegIds
  <2>8. OnDisk(l) => l.seg \in segs' /\ l.off + l.size <= synced'[l.seg]
    BY <2>2 DEF SegFrame, OnDisk
  <2>9. k \in Exposed' \/ NoVal \in hist'[k] \/ (l.seg \in segs' /\ l.off + l.size <= synced'[l.seg])
    BY <2>3, <2>8 DEF HistGrows
  <2>10. /\ ContainsIn(segs', len', l) => \E v \in Values \cap hist'[k] : Ext(l, v) \in ext' /\ SizeOf[v] = l.size
         /\ l.seg \in segs' => ContainsIn(segs', len', l)
    BY <2>4, <2>5, <2>6
  <2> QED
    BY <1>2, <2>7, <2>9, <2>10 DEF EntrySafe, ContainsIn, Holds, Ext, OnDisk, l
<1> QED
  BY <1>1, <1>2

(* The history of an index that does not change, or is synced. *)
LEMMA PastKept ==
  ASSUME ShardInv, SegInv', SegFrame, HistGrows, job.kind # "verify", mem' = mem,
         (past' = past /\ unverified' = unverified) \/ past' = {mem}
  PROVE  PastSafe'
<1> SUFFICES ASSUME NEW m \in past', m = mem' \/ ~unverified', NEW k \in Keys
             PROVE  EntrySafe(m, k)' /\ SameEntry(m, k)'
  BY DEF PastSafe
<1>1. m \in past /\ m \in Maps /\ (m = mem \/ ~unverified) /\ SegInv
  BY DEF ShardInv, IndexInv, Maps
<1>2. EntrySafe(m, k) /\ SameEntry(m, k)
  BY <1>1 DEF ShardInv, PastSafe
<1>3. EntrySafe(m, k)'
  BY <1>1, <1>2, EntryKept
<1>4. SameEntry(m, k)'
  BY <1>2 DEF SameEntry, HistGrows
<1> QED
  BY <1>3, <1>4

(* The history of an index where k is given another entry. *)
LEMMA PastAdded ==
  ASSUME ShardInv, SegInv', SegFrame, HistGrows, job.kind # "verify",
         NEW k \in Keys, NEW loc \in Location \cup {NoLoc}, mem' = [mem EXCEPT ![k] = loc],
         past' = past \cup {mem'}, unverified' = unverified,
         k \in Exposed' \/ loc = NoLoc,
         NEW m2, m2 = mem', EntrySafe(m2, k)'
  PROVE  PastSafe'
<1> SUFFICES ASSUME NEW m \in past', m = mem' \/ ~unverified', NEW q \in Keys
             PROVE  EntrySafe(m, q)' /\ SameEntry(m, q)'
  BY DEF PastSafe
<1>0. mem \in Maps /\ mem' \in Maps /\ past \subseteq Maps /\ mem \in past /\ SegInv
      /\ \A x \in Keys \ {k} : mem'[x] = mem[x]
      /\ mem'[k] = loc
  BY DEF ShardInv, IndexInv, IndexTypeOK, Maps
<1>1. CASE m = mem'
  <2>1. SameEntry(m, q)'
    BY <1>1 DEF SameEntry
  <2>2. EntrySafe(m, q)'
    <3>1. CASE q = k
      BY <1>1, <3>1
    <3>2. CASE q # k
      <4>1. PICK c : c = mem
        OBVIOUS
      <4>2. EntrySafe(c, q) /\ c \in Maps
        BY <1>0, <4>1 DEF ShardInv, PastSafe
      <4>3. EntrySafe(c, q)'
        BY <1>0, <4>2, EntryKept
      <4>4. m[q] = c[q]
        BY <1>0, <1>1, <3>2, <4>1
      <4> QED
        BY <4>3, <4>4 DEF EntrySafe
    <3> QED
      BY <3>1, <3>2
  <2> QED
    BY <2>1, <2>2
<1>2. CASE m # mem'
  <2>1. m \in past /\ m \in Maps /\ ~unverified
    BY <1>0, <1>2
  <2>2. EntrySafe(m, q) /\ SameEntry(m, q)
    BY <2>1 DEF ShardInv, PastSafe
  <2>3. EntrySafe(m, q)'
    BY <1>0, <2>1, <2>2, EntryKept
  <2>4. SameEntry(m, q)'
    BY <1>0, <2>2 DEF SameEntry, HistGrows
  <2> QED
    BY <2>3, <2>4
<1> QED
  BY <1>1, <1>2

-----------------------------------------------------------------------------
(* Steps of a shard that is up *)

(* ShardTypeOK, without the components and fill. *)
Jobs == [kind : {"none", "setBy", "delBy", "compact", "verify"},
         todo : SUBSET Keys, val : Values \cup {NoVal},
         moved : BOOLEAN, kept : BOOLEAN, current : SegIds \cup {0}]

RestTypeOK ==
    /\ rd \in [Readers -> {Idle} \cup [key : Keys, val : Values \cup {Garbage}]]
    /\ job \in Jobs
    /\ hist \in [Keys -> SUBSET (Values \cup {NoVal})]
    /\ written \subseteq Keys /\ movedKeys \subseteq Keys
    /\ unverified \in BOOLEAN

LEMMA TypeNext ==
  ASSUME SegInv', IndexInv', CacheInv', RestTypeOK', DOMAIN fill' \subseteq Live(mem')
  PROVE  ShardTypeOK'
BY DEF ShardTypeOK, RestTypeOK, Jobs, SegInv, IndexInv, CacheInv, Live, Idle

LEMMA UpInv ==
  ASSUME SegInv', IndexInv', CacheInv', RestTypeOK', PastSafe', FillSafe', LockSafe',
         job'.kind # "verify", DOMAIN fill' \subseteq Live(mem'), Coherent',
         \A k \in Keys : mem'[k] # NoLoc => Val(k)' \in Values
  PROVE  ShardInv'
<1>1. ShardTypeOK'
  BY TypeNext
<1>2. CacheCoherent'
  BY <1>1, CoherentNext
<1>3. EntriesReadable'
  BY DEF EntriesReadable, Live, Val
<1>4. VerifySafe'
  BY DEF VerifySafe
<1> QED
  BY <1>1, <1>2, <1>3, <1>4 DEF ShardInv

LEMMA Values0 ==
  ASSUME ShardInv, job.kind # "verify"
  PROVE  \A k \in Keys : mem[k] # NoLoc => Val(k) \in Values
BY DEF ShardInv, EntriesReadable, Live, Val

(* fillCache's list, when the keys on it keep their values. *)
LEMMA FillKept ==
  ASSUME ShardInv, SegInv', SegFrame, job.kind # "verify",
         DOMAIN fill' \subseteq DOMAIN fill,
         \A k \in DOMAIN fill' : /\ fill'[k] = fill[k] /\ mem'[k] # NoLoc
                                 /\ Val(k)' = Val(k)
  PROVE  FillSafe' /\ DOMAIN fill' \subseteq Live(mem')
<1>1. \A k \in DOMAIN fill : k \in Keys /\ mem[k] # NoLoc
  BY DEF ShardInv, ShardTypeOK, Live
<1>2. DOMAIN fill' \subseteq Live(mem')
  BY <1>1 DEF Live
<1>3. ASSUME NEW k \in DOMAIN fill'
      PROVE  /\ fill'[k] \in Location /\ fill'[k].seg <= latest'
             /\ fill'[k].seg \in segs' => ReadIn(segs', len', ext', fill'[k]) = ReadIn(segs', len', ext', mem'[k])
  <2>1. PICK c : c = fill[k]
    OBVIOUS
  <2>2. /\ k \in Keys /\ mem[k] # NoLoc /\ fill'[k] = c /\ c \in Location /\ c.seg <= latest
        /\ c.seg \in segs => Read(c) = Val(k)
    BY <1>1, <2>1 DEF ShardInv, FillSafe, Val
  <2>3. c.seg \in Int /\ latest \in Int /\ latest' \in Int
    BY <2>2 DEF Location, ShardInv, SegInv, SegTypeOK, SegIds
  <2>4. c.seg <= latest' /\ (c.seg \in segs' => c.seg \in segs)
    BY <2>2, <2>3 DEF SegFrame
  <2>5. Val(k) \in Values
    BY <2>2, Values0
  <2>6. c.seg \in segs' => ReadIn(segs', len', ext', c) = Val(k)
    BY <2>2, <2>4, <2>5, ReadKept, ReadNext2 DEF ShardInv, SegFrame
  <2>7. ReadIn(segs', len', ext', mem'[k]) = Val(k)
    BY ValNext
  <2> QED
    BY <2>2, <2>4, <2>6, <2>7
<1>4. FillSafe'
  BY <1>3 DEF FillSafe, Read, ReadIn, ContainsIn, At
<1> QED
  BY <1>2, <1>4

(* A step that gives no key another entry. *)
LEMMA QuietUp ==
  ASSUME ShardInv, SegInv', SegFrame, IndexInv', CacheInv', RestTypeOK', PastSafe', LockSafe',
         job.kind # "verify", job'.kind # "verify", mem' = mem,
         DOMAIN fill' \subseteq DOMAIN fill, \A k \in DOMAIN fill' : fill'[k] = fill[k],
         \A k \in Keys : cval'[k] \in {cval[k], NoVal, Val(k)},
         \A r \in Readers : rd'[r] \in {rd[r], Idle} \/ rd'[r].val = Val(rd'[r].key)
  PROVE  ShardInv' /\ \A k \in Keys : Val(k)' = Val(k)
<1>1. \A k \in Keys : Val(k)' = Val(k)
  BY ValKept DEF SegFrame
<1>2. \A k \in Keys : mem'[k] # NoLoc => Val(k)' \in Values
  BY <1>1, Values0
<1>3. FillSafe' /\ DOMAIN fill' \subseteq Live(mem')
  <2>1. \A k \in DOMAIN fill : k \in Keys /\ mem[k] # NoLoc
    BY DEF ShardInv, ShardTypeOK, Live
  <2> QED
    BY <1>1, <2>1, FillKept
<1>4. Coherent'
  <2>1. Coherent
    BY CoherentIs DEF ShardInv
  <2>2. \A k \in Keys : cval'[k] # NoVal => cval'[k] = Val(k)'
    BY <1>1, <2>1 DEF Coherent, Hit
  <2>3. \A r \in Readers : rd'[r] # Idle => rd'[r].key \in Keys
    BY DEF RestTypeOK, Idle
  <2>4. \A r \in Readers : rd'[r] # Idle => rd'[r].val = Val(rd'[r].key)
    BY <2>1 DEF Coherent
  <2>5. \A r \in Readers : rd'[r] # Idle =>
           rd'[r].val = IF mem'[rd'[r].key] = NoLoc THEN NoVal ELSE ReadIn(segs', len', ext', mem'[rd'[r].key])
    BY <1>1, <2>3, <2>4, ValNext
  <2> QED
    BY <2>2, <2>5 DEF Coherent, Hit, Val, Idle, Read, ReadIn, ContainsIn, At
<1> QED
  BY <1>1, <1>2, <1>3, <1>4, UpInv

(* A step that gives k another entry, or none. *)
LEMMA ChangeUp ==
  ASSUME ShardInv, SegInv', SegFrame, IndexInv', CacheInv', RestTypeOK', PastSafe', LockSafe',
         job.kind # "verify", job'.kind # "verify",
         NEW k \in Keys, NEW loc, mem' = [mem EXCEPT ![k] = loc],
         loc # NoLoc => Val(k)' \in Values,
         fill' = fill, DOMAIN fill = {} \/ (loc # NoLoc /\ Val(k)' = Val(k)),
         \A q \in Keys \ {k} : cval'[q] \in {cval[q], NoVal},
         cval'[k] \in {NoVal, Val(k)'},
         \A r \in Readers : rd'[r] = Idle
  PROVE  ShardInv' /\ \A q \in Keys \ {k} : Val(q)' = Val(q)
<1>0. /\ \A q \in Keys \ {k} : mem'[q] = mem[q]
      /\ mem'[k] = loc
  BY DEF ShardInv, IndexInv, IndexTypeOK
<1>1. \A q \in Keys \ {k} : Val(q)' = Val(q)
  BY <1>0, ValKept DEF SegFrame
<1>2. \A q \in Keys : mem'[q] # NoLoc => Val(q)' \in Values
  BY <1>0, <1>1, Values0
<1>3. FillSafe' /\ DOMAIN fill' \subseteq Live(mem')
  <2>1. \A q \in DOMAIN fill : q \in Keys /\ mem[q] # NoLoc
    BY DEF ShardInv, ShardTypeOK, Live
  <2>2. \A q \in DOMAIN fill : mem'[q] # NoLoc /\ Val(q)' = Val(q)
    BY <1>0, <1>1, <2>1
  <2> QED
    BY <2>2, FillKept
<1>4. Coherent'
  <2>1. Coherent
    BY CoherentIs DEF ShardInv
  <2>2. \A q \in Keys : cval'[q] # NoVal => cval'[q] = Val(q)'
    BY <1>1, <2>1 DEF Coherent, Hit
  <2> QED
    BY <2>2 DEF Coherent, Hit, Idle
<1> QED
  BY <1>1, <1>2, <1>3, <1>4, UpInv

(* LRUCache::put shows k its new value or nothing, and others nothing new. *)
LEMMA PutShows ==
  ASSUME CacheInv, NEW k \in Keys, NEW v, CachePut(k, v)
  PROVE  /\ cval'[k] \in {v, NoVal}
         /\ \A q \in Keys \ {k} : cval'[q] \in {cval[q], NoVal}
<1>1. CASE capacity = 0
  <2>1. In(lru) = {q \in Keys : cval[q] # NoVal} /\ lru \in Seq(Keys) /\ Len(lru) <= 0
    BY <1>1, CacheInvIs DEF Match
  <2>2. In(lru) = {}
    BY <2>1 DEF In
  <2> QED
    BY <1>1, <2>1, <2>2 DEF CachePut
<1>2. CASE capacity # 0
  <2>1. cval' = [q \in Keys |-> IF q = k THEN v ELSE IF q \in Evicted(k) THEN NoVal ELSE cval[q]]
    BY <1>2 DEF CachePut
  <2> QED
    BY <2>1
<1> QED
  BY <1>1, <1>2

LEMMA NoLocIsNone == NoLoc \notin Location
BY DEF NoLoc, Location, SegIds

(* Where append writes, its value is read. *)
LEMMA AppendReads ==
  ASSUME SegInv, NEW v \in Values, NEW fails \in WriteFails, AppendValue(v, fails), Written(v, fails)
  PROVE  LET loc == AppendLoc(v, fails)
         IN /\ loc \in Location /\ loc.seg = latest'
            /\ Ext(loc, v) \in ext' /\ SizeOf[v] = loc.size
            /\ ContainsIn(segs', len', loc) /\ ReadIn(segs', len', ext', loc) = v
<1> DEFINE loc == AppendLoc(v, fails)
           s == LastTried(v, fails)
<1>1. loc = [seg |-> s, off |-> len[s], size |-> SizeOf[v]]
  BY DEF AppendLoc
<1>2. s \in SegIds /\ latest' = s /\ ext' = ext \cup {[seg |-> s, off |-> len[s], val |-> v]}
  BY DEF AppendValue
<1>3. len[s] \in 0 .. MaxSegSize /\ SizeOf[v] \in 1 .. MaxSegSize
  <2>1. len[s] \in Nat /\ SizeOf[v] \in Nat \ {0} /\ segSize \in Nat /\ segSize <= MaxSegSize /\ MaxSegSize \in Nat
        /\ len[s] \in 0 .. MaxSegSize
    BY <1>2, LocationsAssumption, SegSizesAssumption DEF SegInv, SegTypeOK
  <2>2. len[s] + SizeOf[v] <= segSize
    BY DEF Written, Fits
  <2> QED
    BY <2>1, <2>2
<1>4. loc \in Location /\ loc.seg = latest' /\ Ext(loc, v) \in ext' /\ SizeOf[v] = loc.size
  BY <1>1, <1>2, <1>3 DEF Location, Ext
<1> HIDE DEF loc
<1>5. Sound(segs', len', ext')
  BY AppendInv, SegInvSound
<1>6. ContainsIn(segs', len', loc) /\ ReadIn(segs', len', ext', loc) = v
  BY <1>4, <1>5, HeldIsRead
<1> QED
  BY <1>4, <1>6 DEF loc

(* A new entry, of a key that counts as exposed. *)
LEMMA EntryNew ==
  ASSUME NEW m, NEW k \in Keys, m[k] # NoLoc, m[k].seg <= latest', NEW v \in Values,
         Ext(m[k], v) \in ext', SizeOf[v] = m[k].size, v \in hist'[k],
         ContainsIn(segs', len', m[k]), k \in Exposed'
  PROVE  EntrySafe(m, k)'
BY DEF EntrySafe, Holds, Ext, ContainsIn

(***************************************************************************)
(* A value is appended and indexed under k: set, setBy and compaction.     *)
(***************************************************************************)
LEMMA PlaceUp ==
  ASSUME ShardInv, job.kind # "verify", job'.kind # "verify",
         NEW k \in Keys, NEW v \in Values, NEW fails \in WriteFails,
         AppendValue(v, fails), Written(v, fails), Insert(k, AppendLoc(v, fails)),
         CacheInv', RestTypeOK', LockSafe', HistGrows, k \in Exposed', v \in hist'[k],
         unverified' = unverified, fill' = fill, DOMAIN fill = {} \/ (v = Val(k) /\ mem[k] # NoLoc),
         \A q \in Keys \ {k} : cval'[q] \in {cval[q], NoVal}, cval'[k] \in {NoVal, v},
         \A r \in Readers : rd'[r] = Idle
  PROVE  ShardInv' /\ Val(k)' = v /\ \A q \in Keys \ {k} : Val(q)' = Val(q)
<1>0. SegInv /\ IndexInv /\ mem \in Maps
  BY DEF ShardInv, IndexInv, IndexTypeOK, Maps
<1>1. PICK loc : loc = AppendLoc(v, fails)
  OBVIOUS
<1>2. /\ loc \in Location /\ loc.seg = latest' /\ Ext(loc, v) \in ext' /\ SizeOf[v] = loc.size
      /\ ContainsIn(segs', len', loc) /\ ReadIn(segs', len', ext', loc) = v
  BY <1>0, <1>1, AppendReads
<1>3. SegInv' /\ SegFrame
  BY <1>0, AppendInv, AppendFrame
<1>4. /\ mem' = [mem EXCEPT ![k] = loc] /\ past' = past \cup {mem'} /\ mem'[k] = loc /\ loc # NoLoc
  BY <1>0, <1>1, <1>2, NoLocIsNone DEF Insert, AppendRecord, Maps
<1>5. IndexInv'
  BY <1>0, <1>1, <1>2, IndexNextInv DEF IndexNext
<1>6. Val(k)' = v
  BY <1>2, <1>4, ValNext
<1>7. PastSafe'
  <2>1. PICK m2 : m2 = mem'
    OBVIOUS
  <2>2. latest' \in Int
    BY <1>3 DEF SegInv, SegTypeOK, SegIds
  <2>3. EntrySafe(m2, k)'
    <3>1. m2[k] = loc /\ loc.seg <= latest'
      BY <1>2, <1>4, <2>1, <2>2
    <3>2. /\ m2[k] # NoLoc /\ m2[k].seg <= latest' /\ Ext(m2[k], v) \in ext' /\ SizeOf[v] = m2[k].size
          /\ ContainsIn(segs', len', m2[k])
      BY <1>2, <1>4, <3>1
    <3> QED
      BY <3>2, EntryNew
  <2> QED
    BY <1>2, <1>3, <1>4, <2>1, <2>3, PastAdded
<1>8. ShardInv' /\ \A q \in Keys \ {k} : Val(q)' = Val(q)
  BY <1>3, <1>4, <1>5, <1>6, <1>7, ChangeUp
<1> QED
  BY <1>6, <1>8

LEMMA InvParts ==
  ShardInv => /\ SegInv /\ IndexInv /\ CacheInv /\ RestTypeOK /\ LockSafe /\ Coherent
              /\ mem \in Maps /\ mem \in past /\ past \subseteq Maps
<1> SUFFICES ASSUME ShardInv PROVE /\ SegInv /\ IndexInv /\ CacheInv /\ RestTypeOK /\ LockSafe /\ Coherent
                                   /\ mem \in Maps /\ mem \in past /\ past \subseteq Maps
  OBVIOUS
<1>1. SegInv /\ IndexInv /\ CacheInv /\ LockSafe /\ ShardTypeOK /\ CacheCoherent
  BY DEF ShardInv
<1>2. RestTypeOK
  BY <1>1 DEF ShardTypeOK, RestTypeOK, Jobs
<1>3. Coherent
  BY <1>1, CoherentIs
<1>4. mem \in Maps /\ mem \in past /\ past \subseteq Maps
  BY <1>1 DEF IndexInv, IndexTypeOK, Maps
<1> QED
  BY <1>1, <1>2, <1>3, <1>4

(* A step that leaves the disk and the history as they are. *)
LEMMA StillUp ==
  ASSUME ShardInv, UNCHANGED <<segVars, indexVars, histVars>>, CacheInv', RestTypeOK', LockSafe',
         job.kind # "verify", job'.kind # "verify",
         DOMAIN fill' \subseteq DOMAIN fill, \A k \in DOMAIN fill' : fill'[k] = fill[k],
         \A k \in Keys : cval'[k] \in {cval[k], NoVal, Val(k)},
         \A r \in Readers : rd'[r] \in {rd[r], Idle} \/ rd'[r].val = Val(rd'[r].key)
  PROVE  ShardInv' /\ \A k \in Keys : Val(k)' = Val(k)
<1>1. SegInv /\ IndexInv
  BY InvParts
<1>2. SegInv' /\ SegFrame
  BY <1>1, SameFrame
<1>3. IndexInv'
  BY <1>1, IndexNextInv
<1>4. HistGrows /\ mem' = mem /\ past' = past /\ unverified' = unverified
  BY DEF HistGrows, Exposed, histVars, indexVars
<1>5. PastSafe'
  BY <1>2, <1>4, PastKept
<1> QED
  BY <1>2, <1>3, <1>4, <1>5, QuietUp

-----------------------------------------------------------------------------
(* The actions: each keeps the invariant, and changes the values it should *)

LEMMA GetUp ==
  ASSUME ShardInv, NEW r \in Readers, NEW k \in Keys, Get(r, k)
  PROVE  ShardInv' /\ \A q \in Keys : Val(q)' = Val(q)
<1>1. CacheInv /\ RestTypeOK /\ LockSafe
  BY InvParts
<1>2. /\ UNCHANGED <<segVars, indexVars, histVars>> /\ job' = job /\ fill' = fill
      /\ job.kind = "none" /\ CacheGet(k)
      /\ \/ rd' = rd
         \/ /\ rd' = [rd EXCEPT ![r] = [key |-> k, val |-> Read(mem[k])]]
            /\ mem[k] # NoLoc
  BY DEF Get, SharedLock
<1>3. CacheInv' /\ cval' = cval
  BY <1>1, <1>2, GetInv DEF CacheGet
<1>4. mem[k] # NoLoc => Read(mem[k]) \in Values /\ Val(k) = Read(mem[k])
  BY <1>2, Values0 DEF Val
<1>5. RestTypeOK'
  BY <1>1, <1>2, <1>4 DEF RestTypeOK, histVars, Idle
<1>6. LockSafe'
  BY <1>2 DEF LockSafe
<1>7. \A q \in Readers : rd'[q] = rd[q] \/ rd'[q].val = Val(rd'[q].key)
  BY <1>1, <1>2, <1>4 DEF RestTypeOK
<1> QED
  BY <1>2, <1>3, <1>5, <1>6, <1>7, StillUp

LEMMA GetFillUp ==
  ASSUME ShardInv, NEW r \in Readers, GetFill(r)
  PROVE  ShardInv' /\ \A q \in Keys : Val(q)' = Val(q)
<1>1. CacheInv /\ RestTypeOK /\ LockSafe /\ Coherent
  BY InvParts
<1>2. /\ UNCHANGED <<segVars, indexVars, histVars>> /\ job' = job /\ fill' = fill
      /\ rd[r] # Idle /\ rd' = [rd EXCEPT ![r] = Idle]
  BY DEF GetFill
<1>3. PICK k, v : k = rd[r].key /\ v = rd[r].val
  OBVIOUS
<1>4. CachePut(k, v) /\ k \in Keys /\ v \in Values \cup {Garbage} /\ v = Val(k)
  BY <1>1, <1>2, <1>3 DEF GetFill, RestTypeOK, Coherent
<1>5. CacheInv' /\ cval'[k] \in {v, NoVal} /\ \A q \in Keys \ {k} : cval'[q] \in {cval[q], NoVal}
  BY <1>1, <1>4, PutInv, PutShows
<1>6. job.kind = "none"
  BY <1>1, <1>2 DEF LockSafe
<1>7. RestTypeOK' /\ LockSafe'
  BY <1>1, <1>2, <1>6 DEF RestTypeOK, LockSafe, histVars, Idle
<1>8. \A q \in Readers : rd'[q] \in {rd[q], Idle}
  BY <1>1, <1>2 DEF RestTypeOK
<1> QED
  BY <1>2, <1>4, <1>5, <1>6, <1>7, <1>8, StillUp

LEMMA FillCacheUp ==
  ASSUME ShardInv, NEW k \in Keys, FillCache(k)
  PROVE  ShardInv' /\ \A q \in Keys : Val(q)' = Val(q)
<1>1. CacheInv /\ RestTypeOK /\ LockSafe /\ Coherent
  BY InvParts
<1>2. /\ UNCHANGED <<segVars, indexVars, histVars>> /\ job' = job /\ rd' = rd
      /\ k \in DOMAIN fill /\ fill' = [j \in DOMAIN fill \ {k} |-> fill[j]]
  BY DEF FillCache
<1>3. job.kind \notin {"setBy", "delBy", "verify"}
  BY <1>1, <1>2 DEF LockSafe, NoFill
<1>4. mem[k] # NoLoc /\ Val(k) \in Values /\ Val(k) = Read(mem[k])
  BY <1>2, <1>3, Values0 DEF ShardInv, ShardTypeOK, Live, Val
<1>5. PICK v : v = Read(fill[k])
  OBVIOUS
<1>6. v = NoVal \/ v = Val(k)
  <2>1. fill[k].seg \in segs => v = Val(k)
    BY <1>2, <1>4, <1>5 DEF ShardInv, FillSafe
  <2>2. fill[k].seg \notin segs => v = NoVal
    BY <1>5 DEF Read, ReadIn, ContainsIn
  <2> QED
    BY <2>1, <2>2
<1>7. CacheInv' /\ \A q \in Keys : cval'[q] \in {cval[q], NoVal, Val(q)}
  <2>1. CASE v # NoVal
    <3>1. CachePut(k, v) /\ v = Val(k)
      BY <1>5, <1>6, <2>1 DEF FillCache
    <3>2. CacheInv' /\ cval'[k] \in {v, NoVal} /\ \A q \in Keys \ {k} : cval'[q] \in {cval[q], NoVal}
      BY <1>1, <1>4, <3>1, PutInv, PutShows
    <3> QED
      BY <3>1, <3>2
  <2>2. CASE v = NoVal
    <3>1. UNCHANGED cacheVars
      BY <1>5, <2>2 DEF FillCache
    <3> QED
      BY <1>1, <3>1, CacheNextInv DEF cacheVars
  <2> QED
    BY <2>1, <2>2
<1>8. RestTypeOK' /\ LockSafe'
  BY <1>1, <1>2, <1>3 DEF RestTypeOK, LockSafe, histVars, Idle
<1> QED
  BY <1>2, <1>3, <1>7, <1>8, StillUp

LEMMA BulkBeginUp ==
  ASSUME ShardInv, NEW kind \in {"setBy", "delBy"}, NEW matching, NEW v \in Values \cup {NoVal},
         kind = "setBy" => v \in Values, BulkBegin(kind, matching, v)
  PROVE  ShardInv' /\ \A q \in Keys : Val(q)' = Val(q)
<1>1. CacheInv /\ RestTypeOK /\ LockSafe
  BY InvParts
<1>2. /\ UNCHANGED <<segVars, indexVars, histVars>> /\ UNCHANGED cacheVars /\ rd' = rd /\ fill' = fill
      /\ job' = Job(kind, matching, v) /\ matching \subseteq Keys
      /\ fill = NoFill /\ job.kind = "none" /\ \A r \in Readers : rd[r] = Idle
  BY DEF BulkBegin, Booted, ExclusiveLock, Live
<1>3. CacheInv' /\ cval' = cval
  BY <1>1, <1>2, CacheNextInv DEF cacheVars
<1>4. job' \in Jobs /\ job'.kind = kind /\ job'.val = v
  BY <1>2 DEF Job, Jobs
<1>5. RestTypeOK' /\ LockSafe'
  BY <1>1, <1>2, <1>4 DEF RestTypeOK, LockSafe, histVars, Idle, NoFill
<1> QED
  BY <1>2, <1>3, <1>4, <1>5, StillUp

(***************************************************************************)
(* set, and setBy for one key: the key has the new value, or, when append  *)
(* finds no room, nothing has changed.                                     *)
(***************************************************************************)
LEMMA StoreUp ==
  ASSUME ShardInv, NEW k \in Keys, NEW v \in Values, NEW fails \in WriteFails, Store(k, v, fails),
         job.kind # "verify", job'.kind # "verify", job' \in Jobs, LockSafe',
         fill = NoFill, fill' = fill, rd' = rd, \A r \in Readers : rd[r] = Idle
  PROVE  /\ ShardInv'
         /\ \/ /\ Val(k)' = v /\ \A q \in Keys \ {k} : Val(q)' = Val(q)
               /\ hist' = [hist EXCEPT ![k] = @ \cup {v}] /\ Exposed' = Exposed \cup {k}
            \/ (\A q \in Keys : Val(q)' = Val(q)) /\ UNCHANGED histVars
<1>1. SegInv /\ IndexInv /\ CacheInv /\ RestTypeOK /\ AppendValue(v, fails)
  BY InvParts DEF Store
<1>2. CASE Written(v, fails)
  <2>1. /\ Insert(k, AppendLoc(v, fails)) /\ CachePut(k, v)
        /\ hist' = [hist EXCEPT ![k] = @ \cup {v}] /\ written' = written \cup {k}
        /\ movedKeys' = movedKeys /\ unverified' = unverified
    BY <1>2 DEF Store
  <2>2. CacheInv' /\ cval'[k] \in {v, NoVal} /\ \A q \in Keys \ {k} : cval'[q] \in {cval[q], NoVal}
    BY <1>1, <2>1, PutInv, PutShows
  <2>3. RestTypeOK' /\ HistGrows /\ v \in hist'[k] /\ k \in Exposed' /\ Exposed' = Exposed \cup {k}
    BY <1>1, <2>1 DEF RestTypeOK, HistGrows, Exposed, Idle
  <2>4. DOMAIN fill = {} /\ \A r \in Readers : rd'[r] = Idle
    BY DEF NoFill
  <2> QED
    BY <1>1, <1>2, <2>1, <2>2, <2>3, <2>4, PlaceUp
<1>3. CASE ~Written(v, fails)
  <2>1. UNCHANGED <<indexVars, histVars>> /\ UNCHANGED cacheVars
    BY <1>3 DEF Store
  <2>2. SegInv' /\ SegFrame
    BY <1>1, AppendInv, AppendFrame
  <2>3. IndexInv' /\ CacheInv' /\ cval' = cval
    BY <1>1, <2>1, IndexNextInv, CacheNextInv DEF cacheVars
  <2>4. HistGrows /\ mem' = mem /\ past' = past /\ unverified' = unverified
    BY <2>1 DEF HistGrows, Exposed, histVars, indexVars
  <2>5. PastSafe'
    BY <2>2, <2>4, PastKept
  <2>6. RestTypeOK'
    BY <1>1, <2>1 DEF RestTypeOK, histVars, Idle
  <2> QED
    BY <2>1, <2>2, <2>3, <2>4, <2>5, <2>6, QuietUp
<1> QED
  BY <1>2, <1>3

(* del, and delBy for one key. *)
LEMMA EraseUp ==
  ASSUME ShardInv, NEW k \in Keys, Erase(k),
         job.kind # "verify", job'.kind # "verify", job' \in Jobs, LockSafe',
         fill = NoFill, fill' = fill, rd' = rd, \A r \in Readers : rd[r] = Idle
  PROVE  /\ ShardInv'
         /\ Val(k)' = NoVal /\ \A q \in Keys \ {k} : Val(q)' = Val(q)
         /\ hist' = [hist EXCEPT ![k] = @ \cup {NoVal}] /\ Exposed' = Exposed
<1>1. SegInv /\ IndexInv /\ CacheInv /\ RestTypeOK /\ mem \in Maps
  BY InvParts
<1>2. /\ CacheRemove(k) /\ Tombstone(k) /\ hist' = [hist EXCEPT ![k] = @ \cup {NoVal}]
      /\ UNCHANGED segVars /\ UNCHANGED <<written, movedKeys, unverified>>
  BY DEF Erase
<1>3. SegInv' /\ SegFrame /\ IndexInv'
  BY <1>1, <1>2, SameFrame, IndexNextInv DEF IndexNext
<1>4. CacheInv' /\ cval'[k] = NoVal /\ \A q \in Keys \ {k} : cval'[q] = cval[q]
  <2>1. cval \in [Keys -> ReadResult]
    BY <1>1 DEF CacheInv, CacheTypeOK
  <2> QED
    BY <1>1, <1>2, <2>1, CacheRemoveInv DEF CacheRemove
<1>5. RestTypeOK' /\ HistGrows /\ Exposed' = Exposed /\ NoVal \in hist'[k]
  BY <1>1, <1>2 DEF RestTypeOK, HistGrows, Exposed, Idle
<1>6. DOMAIN fill = {} /\ \A r \in Readers : rd'[r] = Idle
  BY DEF NoFill
<1>7. CASE mem[k] = NoLoc
  <2>1. mem' = mem /\ past' = past
    BY <1>2, <1>7 DEF Tombstone, indexVars
  <2>2. PastSafe'
    BY <1>2, <1>3, <1>5, <2>1, PastKept
  <2>3. ShardInv' /\ \A q \in Keys : Val(q)' = Val(q)
    BY <1>3, <1>4, <1>5, <1>6, <2>1, <2>2, QuietUp
  <2> QED
    BY <1>2, <1>5, <1>7, <2>3 DEF Val
<1>8. CASE mem[k] # NoLoc
  <2>1. mem' = [mem EXCEPT ![k] = NoLoc] /\ past' = past \cup {mem'} /\ mem'[k] = NoLoc
    BY <1>1, <1>2, <1>8 DEF Tombstone, AppendRecord, Maps
  <2>2. PICK m2 : m2 = mem'
    OBVIOUS
  <2>3. EntrySafe(m2, k)'
    BY <1>5, <2>1, <2>2 DEF EntrySafe
  <2>4. PastSafe'
    BY <1>2, <1>3, <1>5, <2>1, <2>2, <2>3, PastAdded
  <2>5. Val(k)' = NoVal
    BY <2>1, ValNext
  <2>6. ShardInv' /\ \A q \in Keys \ {k} : Val(q)' = Val(q)
    BY <1>3, <1>4, <1>5, <1>6, <2>1, <2>4, <2>5, ChangeUp
  <2> QED
    BY <1>2, <1>5, <2>5, <2>6
<1> QED
  BY <1>7, <1>8

(* Shard::get returns what is on disk. *)
LEMMA GetIsVal == ShardInv => \A k \in Keys : GetResult(k) = Val(k)
BY InvParts DEF GetResult, Coherent, Val

(***************************************************************************)
(* A flush that succeeds: nothing that is indexed now can be lost.         *)
(***************************************************************************)
LEMMA FlushPast ==
  ASSUME ShardInv, FlushSuccess, job.kind # "verify"
  PROVE  PastSafe'
<1> SUFFICES ASSUME NEW m, m = mem, NEW k \in Keys
             PROVE  EntrySafe(m, k)' /\ SameEntry(m, k)'
  BY DEF PastSafe, FlushSuccess, IndexFlush
<1>1. /\ mem' = mem /\ hist'[k] = {Val(k)}
      /\ segs' = segs /\ len' = len /\ ext' = ext /\ latest' = latest
      /\ synced' = [s \in SegIds |-> IF s \in segs THEN len[s] ELSE synced[s]]
  BY GetIsVal DEF FlushSuccess, SegFlush, IndexFlush
<1>2. SameEntry(m, k)'
  BY <1>1 DEF SameEntry
<1>3. CASE m[k] = NoLoc
  BY <1>1, <1>2, <1>3 DEF EntrySafe, Val
<1>4. CASE m[k] # NoLoc
  <2>1. Val(k) \in Values /\ Val(k) = ReadIn(segs, len, ext, m[k])
    BY <1>4, Values0 DEF Val, Read
  <2>2. /\ Ext(m[k], Val(k)) \in ext /\ SizeOf[Val(k)] = m[k].size /\ ContainsIn(segs, len, m[k])
    BY <2>1, InvParts, SegInvSound, ReadIsHeld DEF Sound
  <2>3. /\ m[k].seg \in segs /\ m[k].seg <= latest /\ m[k].seg \in SegIds
        /\ m[k].off + m[k].size <= len[m[k].seg]
    BY <2>2, InvParts DEF ContainsIn, SegInv, NextIdsFresh, SegTypeOK
  <2>4. synced'[m[k].seg] = len[m[k].seg]
    BY <1>1, <2>3
  <2> QED
    BY <1>1, <1>2, <1>4, <2>1, <2>2, <2>3, <2>4 DEF EntrySafe, Holds, Ext, ContainsIn, OnDisk
<1> QED
  BY <1>3, <1>4

LEMMA FlushSuccessUp ==
  ASSUME ShardInv, FlushSuccess, UNCHANGED <<cacheVars, rd, fill>>,
         job.kind # "verify", job'.kind # "verify", job' \in Jobs, LockSafe'
  PROVE  /\ ShardInv' /\ \A k \in Keys : Val(k)' = Val(k)
         /\ hist' = [k \in Keys |-> {Val(k)}] /\ Exposed' = {}
<1>1. SegInv /\ IndexInv /\ CacheInv /\ RestTypeOK /\ Coherent
  BY InvParts
<1>2. /\ SegFlush(segs) /\ IndexFlush /\ hist' = [k \in Keys |-> {GetResult(k)}]
      /\ written' = {} /\ movedKeys' = {} /\ unverified' = FALSE
  BY DEF FlushSuccess
<1>3. SegInv' /\ SegFrame /\ IndexInv' /\ mem' = mem
  BY <1>1, <1>2, FlushInv, FlushFrame, IndexNextInv DEF IndexNext, IndexFlush
<1>4. CacheInv' /\ cval' = cval
  BY <1>1, CacheNextInv DEF cacheVars
<1>5. \A k \in Keys : GetResult(k) = Val(k) /\ Val(k) \in Values \cup {NoVal}
  BY GetIsVal, Values0 DEF Val
<1>6. RestTypeOK'
  BY <1>1, <1>2, <1>5 DEF RestTypeOK, Idle
<1>7. PastSafe'
  BY FlushPast
<1>8. ShardInv' /\ \A k \in Keys : Val(k)' = Val(k)
  BY <1>3, <1>4, <1>6, <1>7, QuietUp
<1> QED
  BY <1>2, <1>5, <1>8 DEF Exposed

LEMMA FlushFailureUp ==
  ASSUME ShardInv, NEW S \in SUBSET segs, FlushFailure(S), UNCHANGED <<cacheVars, rd, fill>>,
         job.kind # "verify", job'.kind # "verify", job' \in Jobs, LockSafe'
  PROVE  ShardInv' /\ (\A k \in Keys : Val(k)' = Val(k)) /\ UNCHANGED histVars
<1>1. SegInv /\ IndexInv /\ CacheInv /\ RestTypeOK
  BY InvParts
<1>2. SegFlush(S) /\ UNCHANGED <<indexVars, histVars>>
  BY DEF FlushFailure
<1>3. SegInv' /\ SegFrame /\ IndexInv'
  BY <1>1, <1>2, FlushInv, FlushFrame, IndexNextInv
<1>4. CacheInv' /\ cval' = cval
  BY <1>1, CacheNextInv DEF cacheVars
<1>5. HistGrows /\ mem' = mem /\ past' = past /\ unverified' = unverified
  BY <1>2 DEF HistGrows, Exposed, histVars, indexVars
<1>6. RestTypeOK'
  BY <1>1, <1>2 DEF RestTypeOK, histVars, Idle
<1>7. PastSafe'
  BY <1>3, <1>5, PastKept
<1>8. ShardInv' /\ \A k \in Keys : Val(k)' = Val(k)
  BY <1>3, <1>4, <1>5, <1>6, <1>7, QuietUp
<1> QED
  BY <1>2, <1>8

-----------------------------------------------------------------------------
(* What a step does to the map of the values, in the terms of DurableMap *)

Still == (\A q \in Keys : Val(q)' = Val(q)) /\ hist' = hist /\ Exposed' = Exposed

Wrote(k, v) == /\ Val(k)' = v /\ \A q \in Keys \ {k} : Val(q)' = Val(q)
               /\ hist' = [hist EXCEPT ![k] = @ \cup {v}] /\ Exposed' = Exposed \cup {k}

Deleted(k) == /\ Val(k)' = NoVal /\ \A q \in Keys \ {k} : Val(q)' = Val(q)
              /\ hist' = [hist EXCEPT ![k] = @ \cup {NoVal}] /\ Exposed' = Exposed

Moved(k) == (\A q \in Keys : Val(q)' = Val(q)) /\ hist' = hist /\ Exposed' = Exposed \cup {k}

Flushed == /\ \A q \in Keys : Val(q)' = Val(q)
           /\ hist' = [q \in Keys |-> {Val(q)}] /\ Exposed' = {}

Crashed == /\ \A q \in Keys : /\ Val(q)' \in Values \cup {NoVal}
                              /\ Val(q)' \in hist[q] \/ (q \in Exposed /\ Val(q)' = NoVal)
                              /\ hist'[q] = {Val(q)'}
           /\ hist' \in [Keys -> SUBSET (Values \cup {NoVal})] /\ Exposed' = {}

MapStep == \/ Still \/ Flushed \/ Crashed
           \/ \E k \in Keys : Deleted(k) \/ Moved(k) \/ \E v \in Values : Wrote(k, v)

LEMMA SetUp ==
  ASSUME ShardInv, NEW k \in Keys, NEW v \in Values, NEW fails \in WriteFails, Set(k, v, fails)
  PROVE  ShardInv' /\ MapStep
<1>1. /\ Store(k, v, fails) /\ fill = NoFill /\ job.kind = "none" /\ \A r \in Readers : rd[r] = Idle
      /\ job' = job /\ fill' = fill /\ rd' = rd
  BY DEF Set, Booted, ExclusiveLock, lockVars
<1>2. job' \in Jobs /\ LockSafe'
  BY <1>1, InvParts DEF RestTypeOK, LockSafe
<1>3. ShardInv' /\ (Wrote(k, v) \/ ((\A q \in Keys : Val(q)' = Val(q)) /\ UNCHANGED histVars))
  BY <1>1, <1>2, StoreUp DEF Wrote
<1> QED
  BY <1>3 DEF MapStep, Still, histVars, Exposed

LEMMA DelUp ==
  ASSUME ShardInv, NEW k \in Keys, Del(k)
  PROVE  ShardInv' /\ MapStep
<1>1. /\ Erase(k) /\ fill = NoFill /\ job.kind = "none" /\ \A r \in Readers : rd[r] = Idle
      /\ job' = job /\ fill' = fill /\ rd' = rd
  BY DEF Del, Booted, ExclusiveLock, lockVars
<1>2. job' \in Jobs /\ LockSafe'
  BY <1>1, InvParts DEF RestTypeOK, LockSafe
<1>3. ShardInv' /\ Deleted(k)
  BY <1>1, <1>2, EraseUp DEF Deleted
<1> QED
  BY <1>3 DEF MapStep

LEMMA BulkStepUp ==
  ASSUME ShardInv, NEW k \in Keys, NEW fails \in WriteFails, BulkStep(k, fails)
  PROVE  ShardInv' /\ MapStep
<1>0. RestTypeOK /\ LockSafe
  BY InvParts
<1>1. /\ job.kind \in {"setBy", "delBy"} /\ fill' = fill /\ rd' = rd
      /\ job' = IF job.todo = {k} THEN Free ELSE [job EXCEPT !.todo = @ \ {k}]
      /\ \/ job.kind = "setBy" /\ Store(k, job.val, fails)
         \/ Erase(k)
  BY DEF BulkStep
<1>2. /\ fill = NoFill /\ \A r \in Readers : rd[r] = Idle
      /\ job.kind = "setBy" => job.val \in Values
  BY <1>0, <1>1 DEF LockSafe
<1>3. /\ job' \in Jobs /\ job'.kind \in {"none", "setBy", "delBy"}
      /\ job'.kind = "setBy" => job'.val \in Values
  <2>1. job \in Jobs
    BY <1>0 DEF RestTypeOK
  <2>2. Free \in Jobs /\ Free.kind = "none"
    BY DEF Free, Job, Jobs
  <2>3. [job EXCEPT !.todo = @ \ {k}] \in Jobs
    BY <2>1 DEF Jobs
  <2> QED
    BY <1>1, <1>2, <2>1, <2>2, <2>3 DEF Jobs
<1>4. LockSafe'
  BY <1>1, <1>2, <1>3 DEF LockSafe, Idle, NoFill
<1>5. CASE job.kind = "setBy" /\ Store(k, job.val, fails)
  <2>1. PICK v : v = job.val
    OBVIOUS
  <2>2. v \in Values /\ Store(k, v, fails)
    BY <1>2, <1>5, <2>1 DEF Store, AppendValue, Advanced, Written, Fits, LastTried, AppendLoc, CachePut
  <2>3. ShardInv' /\ (Wrote(k, v) \/ ((\A q \in Keys : Val(q)' = Val(q)) /\ UNCHANGED histVars))
    BY <1>1, <1>2, <1>3, <1>4, <2>2, StoreUp DEF Wrote
  <2> QED
    BY <2>2, <2>3 DEF MapStep, Still, histVars, Exposed
<1>6. CASE Erase(k)
  <2>1. ShardInv' /\ Deleted(k)
    BY <1>1, <1>2, <1>3, <1>4, <1>6, EraseUp DEF Deleted
  <2> QED
    BY <2>1 DEF MapStep
<1> QED
  BY <1>1, <1>5, <1>6

LEMMA FlushDataUp ==
  ASSUME ShardInv, FlushData
  PROVE  ShardInv' /\ MapStep
<1>1. /\ job.kind = "none" /\ job' = job /\ UNCHANGED <<cacheVars, rd, fill>>
      /\ FlushSuccess \/ \E S \in SUBSET segs : FlushFailure(S)
  BY DEF FlushData, ExclusiveLock, lockVars, cacheVars
<1>2. job' \in Jobs /\ LockSafe'
  BY <1>1, InvParts DEF RestTypeOK, LockSafe
<1>3. CASE FlushSuccess
  <2>1. ShardInv' /\ Flushed
    BY <1>1, <1>2, <1>3, FlushSuccessUp DEF Flushed
  <2> QED
    BY <2>1 DEF MapStep
<1>4. CASE \E S \in SUBSET segs : FlushFailure(S)
  <2>1. ShardInv' /\ (\A q \in Keys : Val(q)' = Val(q)) /\ UNCHANGED histVars
    BY <1>1, <1>2, <1>4, FlushFailureUp
  <2> QED
    BY <2>1 DEF MapStep, Still, histVars, Exposed
<1> QED
  BY <1>1, <1>3, <1>4

LEMMA ReloadUp ==
  ASSUME ShardInv, NEW cap \in Capacities, NEW size \in SegSizes, ReloadSettings(cap, size)
  PROVE  ShardInv' /\ MapStep
<1>1. SegInv /\ IndexInv /\ CacheInv /\ RestTypeOK /\ LockSafe
  BY InvParts
<1>2. /\ job.kind = "none" /\ CacheResize(cap) /\ SegResize(size)
      /\ UNCHANGED <<indexVars, histVars>> /\ job' = job /\ rd' = rd /\ fill' = fill
  BY DEF ReloadSettings, ExclusiveLock, lockVars
<1>3. SegInv' /\ SegFrame /\ IndexInv'
  BY <1>1, <1>2, ResizeInv, ResizeFrame, IndexNextInv
<1>4. CacheInv' /\ \A q \in Keys : cval'[q] \in {cval[q], NoVal}
  <2>1. CacheInv'
    BY <1>1, <1>2, CacheResizeInv
  <2>2. \A q \in Keys : cval'[q] \in {cval[q], NoVal}
    BY <1>2 DEF CacheResize, CutTo
  <2> QED
    BY <2>1, <2>2
<1>5. HistGrows /\ mem' = mem /\ past' = past /\ unverified' = unverified
  BY <1>2 DEF HistGrows, Exposed, histVars, indexVars
<1>6. RestTypeOK' /\ LockSafe'
  BY <1>1, <1>2 DEF RestTypeOK, LockSafe, histVars, Idle
<1>7. PastSafe'
  BY <1>2, <1>3, <1>5, PastKept
<1>8. ShardInv' /\ \A q \in Keys : Val(q)' = Val(q)
  BY <1>2, <1>3, <1>4, <1>5, <1>6, <1>7, QuietUp
<1> QED
  BY <1>2, <1>8 DEF MapStep, Still, histVars, Exposed

-----------------------------------------------------------------------------
(* Compaction *)

LEMMA CompactBeginUp ==
  ASSUME ShardInv, CompactBegin
  PROVE  ShardInv' /\ MapStep
<1>1. SegInv /\ IndexInv /\ CacheInv /\ RestTypeOK /\ LockSafe
  BY InvParts
<1>2. /\ job.kind = "none" /\ \A r \in Readers : rd[r] = Idle
      /\ job' = [Job("compact", ToMove, NoVal) EXCEPT !.current = latest]
      /\ UNCHANGED segVars /\ UNCHANGED cacheVars /\ UNCHANGED <<rd, fill, hist, written, movedKeys>>
      /\ \/ IndexCompact /\ unverified' = FALSE
         \/ UNCHANGED <<indexVars, unverified>>
  BY DEF CompactBegin, ExclusiveLock
<1>3. SegInv' /\ SegFrame /\ CacheInv' /\ cval' = cval
  BY <1>1, <1>2, SameFrame, CacheNextInv DEF cacheVars
<1>4. IndexInv' /\ mem' = mem /\ ((past' = past /\ unverified' = unverified) \/ past' = {mem})
  BY <1>1, <1>2, IndexNextInv DEF IndexNext, IndexCompact, indexVars
<1>5. job' \in Jobs /\ job'.kind = "compact"
  <2>1. ToMove \subseteq Keys /\ latest \in SegIds
    BY <1>1 DEF ToMove, Live, SegInv, SegTypeOK
  <2> QED
    BY <1>2, <2>1 DEF Job, Jobs
<1>6. HistGrows /\ Exposed' = Exposed
  BY <1>2 DEF HistGrows, Exposed
<1>7. RestTypeOK' /\ LockSafe'
  <2>1. unverified' \in BOOLEAN
    BY <1>1, <1>2 DEF RestTypeOK
  <2> QED
    BY <1>1, <1>2, <1>5, <2>1 DEF RestTypeOK, LockSafe, Idle
<1>8. PastSafe'
  BY <1>2, <1>3, <1>4, <1>6, PastKept
<1>9. ShardInv' /\ \A q \in Keys : Val(q)' = Val(q)
  BY <1>2, <1>3, <1>4, <1>5, <1>7, <1>8, QuietUp
<1> QED
  BY <1>2, <1>6, <1>9 DEF MapStep, Still

(* The value of a key is one it had since the last flush. *)
LEMMA ValInHist ==
  ASSUME ShardInv, NEW k \in Keys, mem[k] # NoLoc, Read(mem[k]) \in Values
  PROVE  Read(mem[k]) \in hist[k]
<1>1. EntrySafe(mem, k) /\ mem[k] \in Location /\ Sound(segs, len, ext)
  BY InvParts, SegInvSound DEF ShardInv, PastSafe, Maps
<1>2. ContainsIn(segs, len, mem[k])
  BY LocationsAssumption DEF Read, ReadIn
<1>3. PICK w \in Values \cap hist[k] : Holds(mem[k], w)
  BY <1>1, <1>2 DEF EntrySafe
<1>4. ReadIn(segs, len, ext, mem[k]) = w
  BY <1>1, <1>3, HeldIsRead DEF Holds, Ext
<1> QED
  BY <1>3, <1>4 DEF Read

LEMMA RelocateUp ==
  ASSUME ShardInv, NEW k \in Keys, NEW fails \in WriteFails, Relocate(k, fails)
  PROVE  ShardInv' /\ MapStep
<1>1. SegInv /\ IndexInv /\ CacheInv /\ RestTypeOK /\ LockSafe /\ Coherent
  BY InvParts
<1>2. PICK v : v = Read(mem[k])
  OBVIOUS
<1> DEFINE done == v \in Values /\ Written(v, fails)
<1>3. /\ job.kind = "compact" /\ UNCHANGED cacheVars /\ UNCHANGED <<rd, fill, hist, written, unverified>>
      /\ IF v \in Values THEN AppendValue(v, fails) ELSE UNCHANGED segVars
      /\ IF done
         THEN Insert(k, AppendLoc(v, fails)) /\ movedKeys' = movedKeys \cup {k}
         ELSE UNCHANGED <<indexVars, movedKeys>>
      /\ job' = [job EXCEPT !.todo = @ \ {k}, !.moved = @ \/ done, !.kept = @ \/ ~done]
  BY <1>2 DEF Relocate, AppendValue, Advanced, Written, Fits, LastTried, AppendLoc, Target
<1>4. job' \in Jobs /\ job'.kind = "compact"
  <2>1. job \in Jobs
    BY <1>1 DEF RestTypeOK
  <2>2. \A x, y \in BOOLEAN, T \in SUBSET Keys :
            LET j == [job EXCEPT !.todo = T, !.moved = x, !.kept = y]
            IN  j \in Jobs /\ j.kind = job.kind
    BY <2>1 DEF Jobs
  <2>3. job.todo \ {k} \in SUBSET Keys
    BY <2>1 DEF Jobs
  <2>4. PICK x \in BOOLEAN : x = (job.moved \/ done)
    OBVIOUS
  <2>5. PICK y \in BOOLEAN : y = (job.kept \/ ~done)
    OBVIOUS
  <2>6. job' = [job EXCEPT !.todo = job.todo \ {k}, !.moved = x, !.kept = y]
    <3>1. job' = [job EXCEPT !.todo = @ \ {k}, !.moved = @ \/ done, !.kept = @ \/ ~done]
      BY <1>3
    <3> HIDE DEF done
    <3> QED
      BY <2>1, <2>4, <2>5, <3>1, Zenon DEF Jobs
  <2>7. job.kind = "compact"
    BY <1>3
  <2> QED
    BY <2>2, <2>3, <2>6, <2>7
<1>5. CacheInv' /\ cval' = cval
  BY <1>1, <1>3, CacheNextInv DEF cacheVars
<1>6. RestTypeOK' /\ LockSafe' /\ HistGrows
  <2>1. movedKeys' \subseteq Keys /\ movedKeys \subseteq movedKeys'
    BY <1>1, <1>3 DEF RestTypeOK
  <2> QED
    BY <1>1, <1>3, <1>4, <2>1 DEF RestTypeOK, LockSafe, HistGrows, Exposed, Idle
<1>7. \A r \in Readers : rd[r] = Idle
  BY <1>1, <1>3 DEF LockSafe
<1>8. CASE done
  <2>1. v \in Values /\ Written(v, fails) /\ AppendValue(v, fails) /\ Insert(k, AppendLoc(v, fails))
        /\ movedKeys' = movedKeys \cup {k}
    BY <1>3, <1>8
  <2>2. mem[k] # NoLoc
    BY <1>1, <1>2, <2>1, LocationsAssumption
       DEF Read, ReadIn, ContainsIn, NoLoc, SegInv, SegTypeOK, SegIds
  <2>3. v = Val(k) /\ v \in hist'[k] /\ k \in Exposed' /\ Exposed' = Exposed \cup {k}
    BY <1>2, <1>3, <2>1, <2>2, ValInHist DEF Val, Exposed
  <2>4. cval'[k] \in {NoVal, v}
    BY <1>1, <1>5, <2>3 DEF Coherent, Hit
  <2>5. ShardInv' /\ Val(k)' = v /\ \A q \in Keys \ {k} : Val(q)' = Val(q)
    BY <1>3, <1>4, <1>5, <1>6, <1>7, <2>1, <2>2, <2>3, <2>4, PlaceUp
  <2> QED
    BY <1>3, <2>3, <2>5 DEF MapStep, Moved
<1>9. CASE ~done
  <2>1. SegInv' /\ SegFrame
    BY <1>1, <1>3, AppendInv, AppendFrame, SameFrame
  <2>2. IndexInv' /\ mem' = mem /\ past' = past /\ Exposed' = Exposed
    BY <1>1, <1>3, <1>9, IndexNextInv DEF indexVars, Exposed
  <2>3. PastSafe'
    BY <1>3, <1>6, <2>1, <2>2, PastKept
  <2>4. ShardInv' /\ \A q \in Keys : Val(q)' = Val(q)
    BY <1>3, <1>4, <1>5, <1>6, <2>1, <2>2, <2>3, QuietUp
  <2> QED
    BY <1>3, <2>2, <2>4 DEF MapStep, Still
<1> QED
  BY <1>8, <1>9

LEMMA CompactFlushUp ==
  ASSUME ShardInv, CompactFlush
  PROVE  ShardInv' /\ MapStep
<1>1. RestTypeOK /\ LockSafe
  BY InvParts
<1>2. /\ job.kind = "compact" /\ UNCHANGED <<cacheVars, rd, fill>>
      /\ \/ FlushSuccess /\ job' = [job EXCEPT !.moved = FALSE]
         \/ job' = Free /\ \E S \in SUBSET segs : FlushFailure(S)
  BY DEF CompactFlush, cacheVars
<1>3. job' \in Jobs /\ job'.kind \in {"none", "compact"}
  <2>1. job \in Jobs /\ Free \in Jobs /\ Free.kind = "none"
    BY <1>1 DEF RestTypeOK, Free, Job, Jobs
  <2> QED
    BY <1>2, <2>1 DEF Jobs
<1>4. LockSafe'
  BY <1>1, <1>2, <1>3 DEF LockSafe, Idle, NoFill
<1>5. CASE FlushSuccess
  <2>1. ShardInv' /\ Flushed
    BY <1>2, <1>3, <1>4, <1>5, FlushSuccessUp DEF Flushed
  <2> QED
    BY <2>1 DEF MapStep
<1>6. CASE \E S \in SUBSET segs : FlushFailure(S)
  <2>1. ShardInv' /\ (\A q \in Keys : Val(q)' = Val(q)) /\ UNCHANGED histVars
    BY <1>2, <1>3, <1>4, <1>6, FlushFailureUp
  <2> QED
    BY <2>1 DEF MapStep, Still, histVars, Exposed
<1> QED
  BY <1>2, <1>5, <1>6

(* What removeUnusedSegments leaves is read as before. *)
LEMMA RemoveReads ==
  ASSUME SegInv, NEW U, RemoveUnused(U), NEW loc \in Location, loc.seg \in U, Read(loc) \in Values
  PROVE  ReadIn(segs', len', ext', loc) = Read(loc)
<1> DEFINE v == Read(loc)
<1>1. Sound(segs, len, ext) /\ Sound(segs', len', ext')
  BY RemoveInv, SegInvSound
<1>2. v \in Values /\ v = ReadIn(segs, len, ext, loc)
  BY DEF Read
<1>3. Ext(loc, v) \in ext /\ SizeOf[v] = loc.size
  BY <1>1, <1>2, ReadIsHeld DEF Sound
<1>4. Ext(loc, v) \in ext'
  BY <1>3 DEF RemoveUnused, Ext
<1> HIDE DEF v
<1>5. ReadIn(segs', len', ext', loc) = v
  BY <1>1, <1>2, <1>3, <1>4, HeldIsRead
<1> QED
  BY <1>5 DEF v

(* It takes no entry a crash may bring back but of keys that may be lost. *)
LEMMA RemovePast ==
  ASSUME ShardInv, RemoveUnused(UsedSegments), UNCHANGED <<indexVars, histVars>>,
         job.kind # "verify"
  PROVE  PastSafe'
<1> SUFFICES ASSUME NEW m \in past', m = mem' \/ ~unverified', NEW k \in Keys
             PROVE  EntrySafe(m, k)' /\ SameEntry(m, k)'
  BY DEF PastSafe
<1>0. /\ mem' = mem /\ past' = past /\ hist' = hist /\ unverified' = unverified
      /\ written' = written /\ movedKeys' = movedKeys
  BY DEF indexVars, histVars
<1>1. /\ m \in past /\ m \in Maps /\ mem \in Maps /\ mem \in past /\ SegInv
      /\ (m = mem \/ ~unverified)
  BY <1>0, InvParts
<1>2. EntrySafe(m, k) /\ SameEntry(m, k) /\ EntrySafe(mem, k)
  BY <1>1 DEF ShardInv, PastSafe
<1>3. SameEntry(m, k)'
  BY <1>0, <1>2 DEF SameEntry, Exposed
<1>4. CASE m[k] = NoLoc
  BY <1>0, <1>2, <1>3, <1>4 DEF EntrySafe
<1>5. CASE m[k] # NoLoc
  <2> DEFINE l == m[k]
  <2>1. PICK U : U = UsedSegments
    OBVIOUS
  <2>2. /\ segs' = segs \cap U /\ latest' = latest
        /\ len' = [s \in SegIds |-> IF s \in U THEN len[s] ELSE 0]
        /\ synced' = [s \in SegIds |-> IF s \in U THEN synced[s] ELSE 0]
        /\ ext' = {e \in ext : e.seg \in U}
    BY <2>1 DEF RemoveUnused
  <2>3. l \in Location /\ l.seg \in SegIds
    BY <1>1, <1>5 DEF Maps, Location
  <2>4. /\ ContainsIn(segs, len, l) => \E v \in Values \cap hist[k] : Holds(l, v)
        /\ l.seg <= latest /\ (l.seg \in segs => ContainsIn(segs, len, l))
        /\ k \in Exposed \/ NoVal \in hist[k] \/ OnDisk(l)
    BY <1>2, <1>5 DEF EntrySafe
  <2>5. l.seg \in U \/ k \in Exposed \/ NoVal \in hist[k]
    <3>1. CASE mem[k] = NoLoc
      BY <1>2, <3>1 DEF EntrySafe
    <3>2. CASE mem[k] # NoLoc /\ m[k] = mem[k]
      BY <2>1, <3>2 DEF UsedSegments, Live
    <3> QED
      BY <1>2, <1>5, <3>1, <3>2 DEF SameEntry
  <2> HIDE DEF l
  <2>6. l.seg \in segs' => /\ l.seg \in segs /\ l.seg \in U
                           /\ len'[l.seg] = len[l.seg] /\ synced'[l.seg] = synced[l.seg]
    BY <2>2, <2>3
  <2>7. ContainsIn(segs', len', l) => \E v \in Values \cap hist'[k] : Ext(l, v) \in ext' /\ SizeOf[v] = l.size
    BY <1>0, <2>2, <2>4, <2>6 DEF ContainsIn, Holds, Ext
  <2>8. l.seg <= latest' /\ (l.seg \in segs' => ContainsIn(segs', len', l))
    BY <2>2, <2>4, <2>6 DEF ContainsIn
  <2>9. k \in Exposed' \/ NoVal \in hist'[k] \/ (l.seg \in segs' /\ l.off + l.size <= synced'[l.seg])
    BY <1>0, <2>2, <2>3, <2>4, <2>5 DEF OnDisk, Exposed
  <2> QED
    BY <1>3, <1>5, <2>7, <2>8, <2>9 DEF EntrySafe, ContainsIn, Holds, Ext, OnDisk, l
<1> QED
  BY <1>4, <1>5

LEMMA CompactEndUp ==
  ASSUME ShardInv, CompactEnd
  PROVE  ShardInv' /\ MapStep
<1>1. SegInv /\ IndexInv /\ CacheInv /\ RestTypeOK /\ LockSafe /\ Coherent /\ mem \in Maps
  BY InvParts
<1>2. /\ job.kind = "compact" /\ RemoveUnused(UsedSegments) /\ job' = Free
      /\ UNCHANGED <<indexVars, histVars>> /\ UNCHANGED cacheVars /\ rd' = rd /\ fill' = fill
  BY DEF CompactEnd
<1>3. SegInv' /\ IndexInv' /\ CacheInv'
  BY <1>1, <1>2, RemoveInv, IndexNextInv, CacheNextInv
<1>4. mem' = mem /\ cval' = cval /\ \A r \in Readers : rd'[r] = Idle
  BY <1>1, <1>2 DEF indexVars, cacheVars, LockSafe
<1>5. Free \in Jobs /\ Free.kind = "none"
  BY DEF Free, Job, Jobs
<1>6. RestTypeOK' /\ LockSafe'
  BY <1>1, <1>2, <1>5 DEF RestTypeOK, LockSafe, histVars, Idle
<1>7. PastSafe'
  BY <1>2, RemovePast
<1>8. PICK U : U = UsedSegments
  OBVIOUS
<1>9. RemoveUnused(U) /\ \A k \in Keys : mem[k] # NoLoc => mem[k].seg \in U
  BY <1>2, <1>8 DEF RemoveUnused, UsedSegments, Live
<1>10. ASSUME NEW k \in Keys PROVE Val(k)' = Val(k)
  <2>1. CASE mem[k] = NoLoc
    BY <1>4, <2>1, ValNext DEF Val
  <2>2. CASE mem[k] # NoLoc
    <3>1. PICK c : c = mem[k]
      OBVIOUS
    <3>2. c \in Location /\ c.seg \in U /\ Read(c) \in Values
      BY <1>1, <1>2, <1>9, <2>2, <3>1, Values0 DEF Maps, Val
    <3>3. ReadIn(segs', len', ext', c) = Read(c)
      BY <1>1, <1>9, <3>2, RemoveReads
    <3> QED
      BY <1>4, <2>2, <3>1, <3>3, ValNext DEF Val
  <2> QED
    BY <2>1, <2>2
<1>11. \A k \in Keys : mem'[k] # NoLoc => Val(k)' \in Values
  BY <1>2, <1>4, <1>10, Values0
<1>12. Coherent'
  BY <1>1, <1>4, <1>10 DEF Coherent, Hit, Idle
<1>13. DOMAIN fill' \subseteq Live(mem') /\ FillSafe'
  <2>1. DOMAIN fill \subseteq Live(mem)
    BY DEF ShardInv, ShardTypeOK
  <2>2. ASSUME NEW k \in DOMAIN fill
        PROVE  /\ fill[k] \in Location /\ fill[k].seg <= latest'
               /\ fill[k].seg \in segs' => ReadIn(segs', len', ext', fill[k]) = ReadIn(segs', len', ext', mem[k])
    <3>1. PICK c : c = fill[k]
      OBVIOUS
    <3>2. k \in Keys /\ mem[k] # NoLoc
      BY <2>1 DEF Live
    <3>3. /\ c \in Location /\ c.seg <= latest /\ (c.seg \in segs => Read(c) = Val(k))
          /\ Val(k) \in Values
      BY <1>2, <3>1, <3>2, Values0 DEF ShardInv, FillSafe, Val
    <3>4. latest' = latest /\ segs' = segs \cap U
      BY <1>9 DEF RemoveUnused
    <3>5. c.seg \in segs' => ReadIn(segs', len', ext', c) = Val(k)
      BY <1>1, <1>9, <3>3, <3>4, RemoveReads
    <3>6. ReadIn(segs', len', ext', mem[k]) = Val(k)
      BY <1>4, <1>10, <3>2, ValNext
    <3> QED
      BY <3>1, <3>3, <3>4, <3>5, <3>6
  <2>3. FillSafe'
    BY <1>2, <1>4, <2>2 DEF FillSafe, Read, ReadIn, ContainsIn, At
  <2> QED
    BY <1>2, <1>4, <2>1, <2>3 DEF Live
<1>14. ShardInv'
  BY <1>2, <1>3, <1>5, <1>6, <1>7, <1>11, <1>12, <1>13, UpInv
<1> QED
  BY <1>2, <1>10, <1>14 DEF MapStep, Still, histVars, Exposed

-----------------------------------------------------------------------------
(* Crash and boot *)

(* An INDEX loads into one map only. *)
LEMMA LoadsOnce ==
  ASSUME NEW l \in Seq(Record), NEW m \in Maps, NEW n \in Maps, Loads(l, m), Loads(l, n)
  PROVE  m = n
<1>1. ASSUME NEW k \in Keys PROVE m[k] = n[k]
  <2>1. Resolves(l, k, m[k]) /\ Resolves(l, k, n[k])
    BY DEF Loads
  <2>2. DOMAIN l = 1 .. Len(l) /\ Len(l) \in Nat
    OBVIOUS
  <2>3. CASE \A i \in DOMAIN l : l[i].key # k
    BY <2>1, <2>3 DEF Resolves
  <2>4. CASE ~ \A i \in DOMAIN l : l[i].key # k
    <3>1. PICK i \in DOMAIN l : /\ l[i] = [key |-> k, loc |-> m[k]]
                                /\ \A h \in DOMAIN l : h > i => l[h].key # k
      BY <2>1, <2>4 DEF Resolves
    <3>2. PICK j \in DOMAIN l : /\ l[j] = [key |-> k, loc |-> n[k]]
                                /\ \A h \in DOMAIN l : h > j => l[h].key # k
      BY <2>1, <2>4 DEF Resolves
    <3>3. i = j
      BY <2>2, <3>1, <3>2
    <3> QED
      BY <3>1, <3>2, <3>3
  <2> QED
    BY <2>3, <2>4
<1> QED
  BY <1>1 DEF Maps

(* The map a crash brings back was in memory since the last sync. *)
LEMMA CrashIsPast ==
  ASSUME IndexInv, IndexCrash
  PROVE  mem' \in past /\ past' = {mem'}
<1>1. PICK l \in CrashLogs : \E m \in Loaded(l) : mem' = m /\ past' = {m}
  BY DEF IndexCrash
<1>2. PICK m \in Loaded(l) : mem' = m /\ past' = {m}
  BY <1>1
<1>3. l \in Seq(Record)
  BY DEF CrashLogs, IndexInv, IndexTypeOK
<1>4. PICK n \in past : Loads(l, n)
  BY DEF IndexInv, CrashIsPointInTime
<1>5. Loads(l, m) /\ m \in Maps
  <2>1. \A i \in DOMAIN l : l[i] \in Record
    BY <1>3
  <2>2. \A i \in DOMAIN l : l[i].loc \in Location \cup {NoLoc}
    BY <2>1 DEF Record
  <2> QED
    BY <2>2 DEF Loaded, Maps
<1>6. n \in Maps
  BY DEF IndexInv, Maps
<1>7. m = n
  BY <1>3, <1>4, <1>5, <1>6, LoadsOnce
<1> QED
  BY <1>2, <1>4, <1>7

(* What a boot makes of an entry. *)
LEMMA CrashEntry ==
  ASSUME SegInv, NEW cut \in Cuts, SegCrash(cut),
         NEW m \in Maps, NEW k \in Keys, m[k] # NoLoc, EntrySafe(m, k),
         NEW w, w = ReadIn(segs', len', ext', m[k])
  PROVE  /\ w \in hist[k] \/ (k \in Exposed /\ w = NoVal)
         /\ \/ /\ ContainsIn(segs', len', m[k]) /\ w \in Values
               /\ Ext(m[k], w) \in ext' /\ SizeOf[w] = m[k].size
               /\ m[k].seg \in segs' /\ m[k].off + m[k].size <= synced'[m[k].seg]
            \/ ~ContainsIn(segs', len', m[k]) /\ w = NoVal
<1> DEFINE l == m[k]
<1>1. l \in Location
  BY DEF Maps
<1>2. l.seg \in SegIds /\ l.off \in Nat /\ l.size \in Nat /\ l.size > 0
  BY <1>1, LocationsAssumption DEF Location
<1>3. /\ segs' = IF segs = {} THEN {1} ELSE segs
      /\ len' = cut /\ synced' = cut
      /\ ext' = {e \in ext : e.off + SizeOf[e.val] <= len'[e.seg]}
  BY DEF SegCrash, Reopened
<1>4. /\ synced[l.seg] <= cut[l.seg] /\ cut[l.seg] <= len[l.seg]
      /\ synced[l.seg] \in Nat /\ cut[l.seg] \in Nat /\ len[l.seg] \in Nat
  BY <1>2, LocationsAssumption DEF Cuts, SegInv, SegTypeOK
<1>5. /\ ContainsIn(segs, len, l) => \E v \in Values \cap hist[k] : Holds(l, v)
      /\ k \in Exposed \/ NoVal \in hist[k] \/ OnDisk(l)
  BY DEF EntrySafe
<1>6. SegInv'
  BY CrashInv
<1> HIDE DEF l
<1>7. CASE ContainsIn(segs', len', l)
  <2>1. l.seg \in segs
    BY <1>2, <1>3, <1>4, <1>7 DEF ContainsIn, SegInv, NextIdsFresh
  <2>2. ContainsIn(segs, len, l) /\ l.off + l.size <= cut[l.seg]
    BY <1>2, <1>3, <1>4, <1>7, <2>1 DEF ContainsIn
  <2>3. PICK v \in Values \cap hist[k] : Holds(l, v)
    BY <1>5, <2>2
  <2>4. Ext(l, v) \in ext' /\ SizeOf[v] = l.size
    BY <1>3, <2>2, <2>3 DEF Holds, Ext
  <2>5. ReadIn(segs', len', ext', l) = v
    BY <1>1, <1>6, <2>3, <2>4, HeldIsRead, SegInvSound
  <2> QED
    BY <1>3, <1>7, <2>2, <2>3, <2>4, <2>5 DEF l, ContainsIn
<1>8. CASE ~ContainsIn(segs', len', l)
  <2>1. ReadIn(segs', len', ext', l) = NoVal
    BY <1>8 DEF ReadIn
  <2>2. ~OnDisk(l)
    BY <1>2, <1>3, <1>4, <1>8 DEF OnDisk, ContainsIn
  <2> QED
    BY <1>5, <1>8, <2>1, <2>2 DEF l
<1> QED
  BY <1>7, <1>8

(* The invariant of a shard that is verifying its index. *)
LEMMA BootInv ==
  ASSUME SegInv', IndexInv', CacheInv', RestTypeOK', PastSafe', VerifySafe',
         job'.kind = "verify", fill' = NoFill, \A r \in Readers : rd'[r] = Idle
  PROVE  ShardInv'
<1>1. DOMAIN fill' = {}
  BY DEF NoFill
<1>2. ShardTypeOK'
  BY <1>1, TypeNext
<1>3. \A k \in Keys : cval'[k] = NoVal
  BY DEF VerifySafe, Hit
<1>4. CacheCoherent'
  BY <1>3 DEF CacheCoherent, Hit, Idle
<1>5. FillSafe' /\ EntriesReadable' /\ LockSafe'
  BY <1>1 DEF FillSafe, EntriesReadable, LockSafe, Idle, NoFill
<1> QED
  BY <1>2, <1>4, <1>5 DEF ShardInv

LEMMA CrashUp ==
  ASSUME ~CrashAfterVerify, ShardInv, Crash
  PROVE  ShardInv' /\ MapStep
<1>1. SegInv /\ IndexInv /\ CacheInv /\ past \subseteq Maps
  BY InvParts
<1>2. PICK cut \in Cuts : SegCrash(cut)
  BY DEF Crash
<1>3. /\ ~unverified /\ IndexCrash
      /\ cval' = [k \in Keys |-> NoVal] /\ lru' = <<>> /\ capacity' = capacity
      /\ rd' = [r \in Readers |-> Idle] /\ fill' = NoFill
      /\ job' = Job("verify", Dangling(segs', len', mem'), NoVal)
      /\ hist' = [k \in Keys |-> {IF mem'[k] = NoLoc THEN NoVal
                                  ELSE ReadIn(segs', len', ext', mem'[k])}]
      /\ written' = {} /\ movedKeys' = {} /\ unverified' = FALSE
  BY DEF Crash
<1>4. SegInv'
  BY <1>1, <1>2, CrashInv
<1>5. IndexInv'
  BY <1>1, <1>3, IndexNextInv DEF IndexNext
<1>6. PICK m : m = mem'
  OBVIOUS
<1>7. m \in past /\ m \in Maps /\ past' = {m}
  BY <1>1, <1>3, <1>6, CrashIsPast
<1>8. \A k \in Keys : EntrySafe(m, k)
  BY <1>3, <1>7 DEF ShardInv, PastSafe
<1>9. CacheInv'
  <2>1. lru' \in Seq(Keys) /\ DOMAIN lru' = {} /\ Len(lru') = 0
    BY <1>3
  <2>2. cval' \in [Keys -> ReadResult]
    BY <1>3 DEF ReadResult
  <2>3. capacity' \in Capacities /\ capacity' \in Nat
    BY <1>1, <1>3, CapacitiesAssumption DEF CacheInv, CacheTypeOK
  <2>4. Match(lru', cval')
    BY <1>3, <2>1 DEF Match, Once, In
  <2> QED
    BY <2>1, <2>2, <2>3, <2>4, CacheInvAfter
<1> DEFINE w(k) == IF m[k] = NoLoc THEN NoVal ELSE ReadIn(segs', len', ext', m[k])
<1>10. \A k \in Keys : Val(k)' = w(k) /\ hist'[k] = {w(k)}
  BY <1>3, <1>6, ValNext
<1>11. \A k \in Keys : m[k] # NoLoc =>
          /\ w(k) \in hist[k] \/ (k \in Exposed /\ w(k) = NoVal)
          /\ \/ /\ ContainsIn(segs', len', m[k]) /\ w(k) \in Values
                /\ Ext(m[k], w(k)) \in ext' /\ SizeOf[w(k)] = m[k].size
                /\ m[k].seg \in segs' /\ m[k].off + m[k].size <= synced'[m[k].seg]
             \/ ~ContainsIn(segs', len', m[k]) /\ w(k) = NoVal
  BY <1>1, <1>2, <1>7, <1>8, CrashEntry
<1>12. \A k \in Keys : m[k] = NoLoc => w(k) = NoVal /\ NoVal \in hist[k]
  BY <1>8 DEF EntrySafe
<1> HIDE DEF w
<1>13. job'.kind = "verify" /\ job'.todo = Dangling(segs', len', mem') /\ job' \in Jobs
  BY <1>3 DEF Job, Jobs, Dangling, Live
<1>14. ASSUME NEW k \in Keys PROVE EntrySafe(m, k)'
  <2>1. CASE m[k] = NoLoc
    BY <1>10, <1>12, <2>1 DEF EntrySafe
  <2>2. CASE m[k] # NoLoc /\ ContainsIn(segs', len', m[k])
    BY <1>10, <1>11, <1>13, <2>2 DEF EntrySafe, Holds, Ext, OnDisk
  <2>3. CASE m[k] # NoLoc /\ ~ContainsIn(segs', len', m[k])
    BY <1>10, <1>11, <1>13, <2>3 DEF EntrySafe, ContainsIn
  <2> QED
    BY <2>1, <2>2, <2>3
<1>15. PastSafe'
  BY <1>6, <1>7, <1>14 DEF PastSafe, SameEntry
<1>16. VerifySafe'
  <2>1. ASSUME NEW k \in job'.todo PROVE NoVal \in hist'[k]
    BY <1>6, <1>10, <1>11, <1>13 DEF Dangling, Live
  <2>2. \A k \in Keys : cval'[k] = NoVal
    BY <1>3
  <2> QED
    BY <1>6, <1>7, <1>13, <2>1, <2>2 DEF VerifySafe, Hit, Dangling, Live, ContainsIn
<1>17. RestTypeOK'
  <2>1. hist' \in [Keys -> SUBSET (Values \cup {NoVal})]
    <3>1. \A k \in Keys : w(k) \in Values \cup {NoVal}
      BY <1>11, <1>12
    <3> QED
      BY <1>3, <1>10, <3>1
  <2> QED
    BY <1>3, <1>13, <2>1 DEF RestTypeOK, Idle
<1>18. ShardInv'
  BY <1>3, <1>4, <1>5, <1>9, <1>13, <1>15, <1>16, <1>17, BootInv
<1>19. Crashed
  BY <1>3, <1>10, <1>11, <1>12, <1>17 DEF Crashed, RestTypeOK, Exposed
<1> QED
  BY <1>18, <1>19 DEF MapStep

LEMMA VerifyUp ==
  ASSUME ShardInv, NEW k \in Keys, VerifyIndexEntry(k)
  PROVE  ShardInv' /\ MapStep
<1>1. /\ SegInv /\ IndexInv /\ CacheInv /\ RestTypeOK /\ LockSafe /\ VerifySafe /\ PastSafe
      /\ mem \in Maps /\ mem \in past
  BY InvParts DEF ShardInv
<1>2. /\ job.kind = "verify" /\ k \in job.todo /\ Tombstone(k) /\ unverified' = TRUE
      /\ job' = [job EXCEPT !.todo = @ \ {k}]
      /\ UNCHANGED segVars /\ UNCHANGED cacheVars /\ UNCHANGED <<rd, fill, hist, written, movedKeys>>
  BY DEF VerifyIndexEntry
<1>3. SegInv' /\ CacheInv' /\ IndexInv'
  BY <1>1, <1>2, SameFrame, CacheNextInv, IndexNextInv DEF IndexNext
<1>4. /\ job.todo = Dangling(segs, len, mem) /\ NoVal \in hist[k] /\ \A q \in Keys : cval[q] = NoVal
      /\ \A q \in job.todo : NoVal \in hist[q]
  BY <1>1, <1>2 DEF VerifySafe, Hit
<1>5. mem[k] # NoLoc /\ ~ContainsIn(segs, len, mem[k])
  BY <1>2, <1>4 DEF Dangling, Live
<1>6. mem' = [mem EXCEPT ![k] = NoLoc]
  BY <1>2, <1>5 DEF Tombstone
<1>7. mem'[k] = NoLoc /\ \A q \in Keys \ {k} : mem'[q] = mem[q]
  BY <1>1, <1>6 DEF Maps
<1>8. segs' = segs /\ len' = len /\ ext' = ext /\ synced' = synced /\ latest' = latest
  BY <1>2 DEF segVars
<1>9. job' \in Jobs /\ job'.kind = "verify" /\ job'.todo = job.todo \ {k}
  BY <1>1, <1>2 DEF RestTypeOK, Jobs
<1>10. RestTypeOK'
  BY <1>1, <1>2, <1>9 DEF RestTypeOK, Idle
<1>11. PICK m : m = mem'
  OBVIOUS
<1>12. ASSUME NEW q \in Keys PROVE EntrySafe(m, q)'
  <2>1. CASE q = k
    BY <1>2, <1>4, <1>7, <1>11, <2>1 DEF EntrySafe
  <2>2. CASE q # k
    <3>1. PICK c : c = mem
      OBVIOUS
    <3>2. EntrySafe(c, q) /\ m[q] = c[q]
      BY <1>1, <1>7, <1>11, <2>2, <3>1 DEF PastSafe
    <3>3. Exposed' = Exposed
      BY <1>2 DEF Exposed
    <3> QED
      BY <1>2, <1>8, <1>9, <3>2, <3>3 DEF EntrySafe, Holds, OnDisk, ContainsIn
  <2> QED
    BY <2>1, <2>2
<1>13. PastSafe'
  BY <1>2, <1>11, <1>12 DEF PastSafe, SameEntry
<1>14. VerifySafe'
  <2>1. Dangling(segs, len, mem') = job.todo \ {k}
    BY <1>4, <1>7 DEF Dangling, Live
  <2>2. job'.todo = Dangling(segs', len', mem') /\ \A q \in job'.todo : NoVal \in hist'[q]
    BY <1>2, <1>4, <1>8, <1>9, <2>1
  <2>3. \A q \in Keys : cval'[q] = NoVal
    BY <1>2, <1>4 DEF cacheVars
  <2> QED
    BY <1>2, <2>2, <2>3 DEF VerifySafe, Hit, Dangling, Live, ContainsIn
<1>15. fill' = NoFill /\ \A r \in Readers : rd'[r] = Idle
  BY <1>1, <1>2 DEF LockSafe
<1>16. ShardInv'
  BY <1>3, <1>9, <1>10, <1>13, <1>14, <1>15, BootInv
<1>17. ASSUME NEW q \in Keys PROVE Val(q)' = Val(q)
  <2>1. Val(k) = NoVal
    BY <1>5 DEF Val, Read, ReadIn
  <2> QED
    BY <1>7, <1>8, <2>1, ValNext DEF Val, Read
<1> QED
  BY <1>2, <1>16, <1>17 DEF MapStep, Still, Exposed

LEMMA FillBeginUp ==
  ASSUME ShardInv, FillBegin
  PROVE  ShardInv' /\ MapStep
<1>1. /\ SegInv /\ IndexInv /\ CacheInv /\ RestTypeOK /\ LockSafe /\ VerifySafe /\ PastSafe
      /\ mem \in Maps /\ mem \in past
  BY InvParts DEF ShardInv
<1>2. /\ job.kind = "verify" /\ job.todo = {} /\ job' = Free
      /\ UNCHANGED segVars /\ UNCHANGED indexVars /\ UNCHANGED cacheVars /\ rd' = rd
      /\ UNCHANGED histVars
      /\ \E K \in SUBSET Live(mem) : fill' = [k \in K |-> mem[k]]
  BY DEF FillBegin
<1>3. SegInv' /\ CacheInv' /\ IndexInv'
  BY <1>1, <1>2, SameFrame, CacheNextInv, IndexNextInv
<1>4. /\ \A k \in Keys : mem[k] # NoLoc => ContainsIn(segs, len, mem[k])
      /\ \A k \in Keys : cval[k] = NoVal
      /\ unverified \/ past = {mem}
  BY <1>1, <1>2 DEF VerifySafe, Hit, Dangling, Live
<1>5. /\ segs' = segs /\ len' = len /\ ext' = ext /\ synced' = synced /\ latest' = latest
      /\ mem' = mem /\ past' = past /\ hist' = hist /\ Exposed' = Exposed /\ unverified' = unverified
  BY <1>2 DEF segVars, indexVars, histVars, Exposed
<1>6. Free \in Jobs /\ Free.kind = "none"
  BY DEF Free, Job, Jobs
<1>7. RestTypeOK' /\ LockSafe' /\ \A r \in Readers : rd'[r] = Idle
  BY <1>1, <1>2, <1>6 DEF RestTypeOK, LockSafe, histVars, Idle
<1>8. ASSUME NEW k \in Keys, mem[k] # NoLoc
      PROVE  /\ mem[k] \in Location /\ Read(mem[k]) \in Values
             /\ mem[k].seg \in segs /\ mem[k].seg <= latest
  <2>1. EntrySafe(mem, k) /\ ContainsIn(segs, len, mem[k]) /\ mem[k] \in Location
    BY <1>1, <1>4, <1>8 DEF PastSafe, Maps
  <2>2. PICK v \in Values \cap hist[k] : Holds(mem[k], v)
    BY <1>8, <2>1 DEF EntrySafe
  <2>3. ReadIn(segs, len, ext, mem[k]) = v
    BY <1>1, <2>1, <2>2, HeldIsRead, SegInvSound DEF Holds, Ext
  <2> QED
    BY <1>1, <2>1, <2>2, <2>3 DEF Read, ContainsIn, SegInv, NextIdsFresh
<1>9. PastSafe'
  <2> SUFFICES ASSUME NEW m \in past', m = mem' \/ ~unverified', NEW k \in Keys
               PROVE  EntrySafe(m, k)' /\ SameEntry(m, k)'
    BY DEF PastSafe
  <2>1. m = mem /\ EntrySafe(m, k)
    BY <1>1, <1>4, <1>5 DEF PastSafe
  <2>2. m[k] # NoLoc => m[k].seg <= latest /\ ContainsIn(segs, len, m[k])
    BY <1>4, <1>8, <2>1
  <2> QED
    BY <1>5, <2>1, <2>2 DEF EntrySafe, SameEntry, Holds, OnDisk, ContainsIn
<1>10. ASSUME NEW k \in Keys PROVE Val(k)' = Val(k)
  BY <1>5, ValNext DEF Val, Read
<1>11. \A k \in Keys : mem'[k] # NoLoc => Val(k)' \in Values
  BY <1>5, <1>8, <1>10 DEF Val
<1>12. Coherent'
  BY <1>2, <1>4, <1>7 DEF Coherent, Hit, cacheVars, Idle
<1>13. DOMAIN fill' \subseteq Live(mem') /\ FillSafe'
  <2>1. PICK K \in SUBSET Live(mem) : fill' = [k \in K |-> mem[k]]
    BY <1>2
  <2>2. \A k \in K : k \in Keys /\ mem[k] # NoLoc
    BY DEF Live
  <2> QED
    BY <1>5, <1>8, <2>1, <2>2 DEF FillSafe, Live
<1>14. ShardInv'
  BY <1>2, <1>3, <1>6, <1>7, <1>9, <1>11, <1>12, <1>13, UpInv
<1> QED
  BY <1>5, <1>10, <1>14 DEF MapStep, Still

-----------------------------------------------------------------------------
(* The theorems *)

LEMMA ShardInitInv == ShardInit => ShardInv
<1> SUFFICES ASSUME ShardInit PROVE ShardInv
  OBVIOUS
<1>1. /\ SegInit /\ IndexInit /\ CacheInit /\ rd = [r \in Readers |-> Idle] /\ job = Free
      /\ fill = NoFill /\ hist = [k \in Keys |-> {NoVal}]
      /\ written = {} /\ movedKeys = {} /\ unverified = FALSE
  BY DEF ShardInit
<1>2. SegInv /\ IndexInv /\ CacheInv
  BY <1>1, SegInitInv, IndexInitInv, CacheInitInv
<1>3. mem = [k \in Keys |-> NoLoc] /\ past = {mem} /\ cval = [k \in Keys |-> NoVal]
  BY <1>1 DEF IndexInit, CacheInit
<1>4. job.kind = "none" /\ job \in Jobs /\ DOMAIN fill = {}
  BY <1>1 DEF Free, Job, Jobs, NoFill
<1>5. ShardTypeOK
  BY <1>1, <1>2, <1>4 DEF ShardTypeOK, SegInv, IndexInv, CacheInv, Jobs
<1>6. CacheCoherent /\ EntriesReadable
  BY <1>1, <1>3 DEF CacheCoherent, EntriesReadable, Hit, Live
<1>7. PastSafe
  BY <1>1, <1>3 DEF PastSafe, EntrySafe, SameEntry
<1>8. VerifySafe /\ FillSafe /\ LockSafe
  BY <1>4 DEF VerifySafe, FillSafe, LockSafe
<1> QED
  BY <1>2, <1>5, <1>6, <1>7, <1>8 DEF ShardInv

(* Every step keeps the invariant, and is a step of the map or none. *)
LEMMA ShardStep ==
  ASSUME ~CrashAfterVerify, ShardInv, [ShardNext]_shardVars
  PROVE  ShardInv' /\ MapStep
<1>1. CASE ReadNext
  <2>1. ShardInv' /\ (\A q \in Keys : Val(q)' = Val(q)) /\ UNCHANGED histVars
    BY <1>1, GetUp, GetFillUp DEF ReadNext, Get, GetFill
  <2> QED
    BY <2>1 DEF MapStep, Still, histVars, Exposed
<1>2. CASE WriteNext
  BY <1>2, SetUp, DelUp DEF WriteNext
<1>3. CASE BulkNext
  <2>1. ASSUME NEW matching \in SUBSET Live(mem), NEW v \in Values, BulkBegin("setBy", matching, v)
        PROVE  ShardInv' /\ (\A q \in Keys : Val(q)' = Val(q)) /\ UNCHANGED histVars
    BY <2>1, BulkBeginUp DEF BulkBegin
  <2>2. ASSUME NEW matching \in SUBSET Live(mem), BulkBegin("delBy", matching, NoVal)
        PROVE  ShardInv' /\ (\A q \in Keys : Val(q)' = Val(q)) /\ UNCHANGED histVars
    BY <2>2, BulkBeginUp DEF BulkBegin
  <2>3. ASSUME ShardInv' /\ (\A q \in Keys : Val(q)' = Val(q)) /\ UNCHANGED histVars
        PROVE  ShardInv' /\ MapStep
    BY <2>3 DEF MapStep, Still, histVars, Exposed
  <2> QED
    BY <1>3, <2>1, <2>2, <2>3, BulkStepUp DEF BulkNext
<1>4. CASE FlushData
  BY <1>4, FlushDataUp
<1>5. CASE ReloadNext
  BY <1>5, ReloadUp DEF ReloadNext
<1>6. CASE CompactNext
  BY <1>6, CompactBeginUp, RelocateUp, CompactFlushUp, CompactEndUp DEF CompactNext
<1>7. CASE CrashNext
  <2>1. ASSUME NEW k \in Keys, FillCache(k) PROVE ShardInv' /\ MapStep
    <3>1. ShardInv' /\ (\A q \in Keys : Val(q)' = Val(q)) /\ UNCHANGED histVars
      BY <2>1, FillCacheUp DEF FillCache
    <3> QED
      BY <3>1 DEF MapStep, Still, histVars, Exposed
  <2> QED
    BY <1>7, <2>1, CrashUp, VerifyUp, FillBeginUp DEF CrashNext
<1>8. CASE UNCHANGED shardVars
  <2>1. /\ UNCHANGED segVars /\ UNCHANGED indexVars /\ UNCHANGED cacheVars
        /\ UNCHANGED lockVars /\ UNCHANGED histVars
    BY <1>8 DEF shardVars
  <2>2. ShardInv'
    <3>1. /\ segs' = segs /\ len' = len /\ synced' = synced /\ ext' = ext /\ latest' = latest
          /\ mem' = mem /\ past' = past /\ cval' = cval /\ rd' = rd /\ job' = job /\ fill' = fill
          /\ hist' = hist /\ written' = written /\ movedKeys' = movedKeys /\ unverified' = unverified
      BY <2>1 DEF segVars, indexVars, cacheVars, lockVars, histVars
    <3>2. SegInv' /\ IndexInv' /\ CacheInv'
      BY <2>1, InvParts, SameFrame, IndexNextInv, CacheNextInv
    <3>3. RestTypeOK' /\ DOMAIN fill' \subseteq Live(mem')
      BY <3>1, InvParts DEF RestTypeOK, Idle, ShardInv, ShardTypeOK
    <3>4. ShardTypeOK'
      BY <3>2, <3>3, TypeNext
    <3>5. CacheCoherent' /\ EntriesReadable'
      <4>1. \A e : Read(e)' = Read(e)
        BY <3>1 DEF Read, ReadIn, ContainsIn, At
      <4>2. \A k : Hit(k)' <=> Hit(k)
        BY <3>1 DEF Hit
      <4>3. CacheCoherent /\ EntriesReadable
        BY DEF ShardInv
      <4>4. CacheCoherent'
        BY <3>1, <4>1, <4>2, <4>3 DEF CacheCoherent
      <4>5. EntriesReadable'
        BY <3>1, <4>1, <4>3 DEF EntriesReadable, Live
      <4> QED
        BY <4>4, <4>5
    <3>6. PastSafe'
      BY <3>1 DEF ShardInv, PastSafe, EntrySafe, SameEntry, Exposed, Holds, OnDisk, ContainsIn
    <3>7. VerifySafe' /\ LockSafe'
      BY <3>1 DEF ShardInv, VerifySafe, LockSafe, Dangling, Live, ContainsIn, Hit, Idle, NoFill
    <3>8. FillSafe'
      BY <3>1 DEF ShardInv, FillSafe, Read, ReadIn, ContainsIn, At
    <3> QED
      BY <3>2, <3>4, <3>5, <3>6, <3>7, <3>8 DEF ShardInv
  <2>3. Still
    BY <2>1 DEF Still, Val, Read, ReadIn, ContainsIn, At, Exposed, segVars, indexVars, histVars
  <2> QED
    BY <2>2, <2>3 DEF MapStep
<1> QED
  BY <1>1, <1>2, <1>3, <1>4, <1>5, <1>6, <1>7, <1>8 DEF ShardNext

LEMMA ShardInvHolds == ASSUME ~CrashAfterVerify PROVE ShardSpec => []ShardInv
<1>1. ShardInv /\ [ShardNext]_shardVars => ShardInv'
  BY ShardStep
<1> QED
  BY <1>1, ShardInitInv, PTL DEF ShardSpec

(* Shard: the steps of its threads, the boot and the cache filler leave    *)
(* its state of its type, under the condition of the theorems below.       *)
THEOREM ShardTyped == ASSUME ~CrashAfterVerify PROVE ShardSpec => []ShardTypeOK
<1>1. ShardInv => ShardTypeOK
  BY DEF ShardInv
<1> QED
  BY <1>1, ShardInvHolds, PTL

(***************************************************************************)
(* No read of a shard is ever stale (Shard::get, compactSegments,          *)
(* fillCache), if no crash falls between a boot that dropped entries and   *)
(* the next sync of the INDEX.                                             *)
(***************************************************************************)
THEOREM ShardReadsExact == ASSUME ~CrashAfterVerify PROVE ShardSpec => []CacheCoherent
<1>1. ShardInv => CacheCoherent
  BY DEF ShardInv
<1> QED
  BY <1>1, ShardInvHolds, PTL

(***************************************************************************)
(* Once booted, every index entry points at a whole value, and compaction  *)
(* removes no segment that one points into (verifyIndexEntries,            *)
(* compactSegments), under the same condition.                             *)
(***************************************************************************)
THEOREM ShardEntriesReadable == ASSUME ~CrashAfterVerify PROVE ShardSpec => []EntriesReadable
<1>1. ShardInv => EntriesReadable
  BY DEF ShardInv
<1> QED
  BY <1>1, ShardInvHolds, PTL

(* The map of the values is the abstract one, before and after a step. *)
LEMMA MapIsVal ==
  ASSUME ShardInv, ShardInv'
  PROVE  /\ [k \in Keys |-> GetResult(k)] = [k \in Keys |-> Val(k)]
         /\ [k \in Keys |-> GetResult(k)]' = [k \in Keys |-> Val(k)']
<1>1. \A k \in Keys : GetResult(k) = Val(k)
  BY GetIsVal
<1>2. (ShardInv => \A k \in Keys : GetResult(k) = Val(k))'
  BY GetIsVal, PTL
<1>3. \A k \in Keys : GetResult(k)' = Val(k)'
  BY <1>2
<1> QED
  BY <1>1, <1>3

LEMMA MapRefines ==
  ASSUME ShardInv, ShardInv', MapStep
  PROVE  [D!MapNext]_(D!mapVars)
<1> DEFINE G == [k \in Keys |-> GetResult(k)]
           H == [k \in Keys |-> GetResult(k)']
<1>1. (\A k \in Keys : G[k] = Val(k) /\ H[k] = Val(k)') /\ [k \in Keys |-> GetResult(k)]' = H
  BY MapIsVal
<1>2. hist \in [Keys -> SUBSET (Values \cup {NoVal})] /\ hist' \in [Keys -> SUBSET (Values \cup {NoVal})]
  BY DEF ShardInv, ShardTypeOK
<1>3. Exposed = written \cup movedKeys /\ Exposed' = written' \cup movedKeys'
  BY DEF Exposed
<1>4. CASE Still
  <2>1. H = G /\ hist' = hist /\ Exposed' = Exposed
    BY <1>1, <1>4 DEF Still
  <2> QED
    BY <1>1, <1>3, <2>1 DEF D!mapVars
<1>5. CASE Flushed
  <2>1. H = G /\ hist' = [k \in Keys |-> {G[k]}] /\ Exposed' = {}
    BY <1>1, <1>5 DEF Flushed
  <2>2. Exposed \subseteq Keys
    BY <1>3 DEF ShardInv, ShardTypeOK
  <2>3. D!Flush(Keys)
    BY <1>1, <1>3, <2>1, <2>2 DEF D!Flush
  <2> QED
    BY <2>3 DEF D!MapNext
<1>6. CASE Crashed
  <2>1. /\ \A k \in Keys : H[k] \in Values \cup {NoVal}
        /\ \A k \in Keys : H[k] \in hist[k] \/ (k \in Exposed /\ H[k] = NoVal)
        /\ hist' = [k \in Keys |-> {H[k]}] /\ Exposed' = {}
    BY <1>1, <1>2, <1>6 DEF Crashed
  <2>2. H \in [Keys -> Values \cup {NoVal}]
    BY <2>1
  <2>3. D!Crash(written \cup movedKeys)
    BY <1>1, <1>3, <2>1, <2>2 DEF D!Crash
  <2> QED
    BY <2>3 DEF D!MapNext
<1>7. ASSUME NEW k \in Keys, Deleted(k) PROVE D!MapNext
  <2>1. /\ H = [q \in Keys |-> IF q \in {k} THEN NoVal ELSE G[q]]
        /\ hist' = [q \in Keys |-> IF q \in {k} THEN hist[q] \cup {NoVal} ELSE hist[q]]
        /\ Exposed' = Exposed
    BY <1>1, <1>2, <1>7 DEF Deleted
  <2>2. D!Delete({k})
    BY <1>1, <1>3, <2>1 DEF D!Delete
  <2> QED
    BY <2>2 DEF D!MapNext
<1>8. ASSUME NEW k \in Keys, Moved(k) PROVE D!MapNext
  <2>1. H = G /\ hist' = hist /\ Exposed' = Exposed \cup {k}
    BY <1>1, <1>8 DEF Moved
  <2>2. D!Move(k)
    BY <1>1, <1>3, <2>1 DEF D!Move
  <2> QED
    BY <2>2 DEF D!MapNext
<1>9. ASSUME NEW k \in Keys, NEW v \in Values, Wrote(k, v) PROVE D!MapNext
  <2>1. /\ H = [G EXCEPT ![k] = v]
        /\ hist' = [hist EXCEPT ![k] = @ \cup {v}]
        /\ Exposed' = Exposed \cup {k}
    BY <1>1, <1>2, <1>9 DEF Wrote
  <2>2. D!Write(k, v)
    BY <1>1, <1>3, <2>1 DEF D!Write
  <2> QED
    BY <2>2 DEF D!MapNext
<1> QED
  BY <1>4, <1>5, <1>6, <1>7, <1>8, <1>9 DEF MapStep

(***************************************************************************)
(* The shard implements DurableMap: reads are exact, and a crash at any    *)
(* instant loses only what was written or moved since the last completed   *)
(* flush, under the same condition on the crashes.                         *)
(***************************************************************************)
THEOREM ShardKeepsPromise == ASSUME ~CrashAfterVerify PROVE ShardSpec => KeepsPromise
<1>1. ShardInit => D!MapInit
  <2> SUFFICES ASSUME ShardInit PROVE D!MapInit
    OBVIOUS
  <2>1. /\ hist = [k \in Keys |-> {NoVal}] /\ written \cup movedKeys = {}
        /\ mem = [k \in Keys |-> NoLoc] /\ cval = [k \in Keys |-> NoVal]
    BY DEF ShardInit, IndexInit, CacheInit
  <2>2. \A k \in Keys : GetResult(k) = NoVal
    BY <2>1 DEF GetResult, Hit
  <2> QED
    BY <2>1, <2>2 DEF D!MapInit
<1>2. ShardInv /\ [ShardNext]_shardVars => ShardInv' /\ MapStep
  BY ShardStep
<1>3. ShardInv /\ ShardInv' /\ MapStep => [D!MapNext]_(D!mapVars)
  BY MapRefines
<1>4. ShardInv /\ [ShardNext]_shardVars => [D!MapNext]_(D!mapVars)
  BY <1>2, <1>3
<1> QED
  BY <1>1, <1>4, ShardInvHolds, PTL DEF ShardSpec, KeepsPromise, D!MapSpec

-----------------------------------------------------------------------------
(* What compaction reclaims *)

(* The invariant needs no more than the types beside it, and no assumption *)
(* on crashes.                                                             *)
ReclaimInv ==
    /\ segs \subseteq SegIds /\ latest \in SegIds /\ DOMAIN mem = Keys /\ job \in Jobs
    /\ ReclaimSafe

(* A job that is no compaction. *)
LEMMA JobIs ==
  ASSUME NEW kind \in {"none", "setBy", "delBy", "compact", "verify"}, NEW todo \in SUBSET Keys,
         NEW v \in Values \cup {NoVal}
  PROVE  /\ Job(kind, todo, v) \in Jobs /\ Free \in Jobs /\ Free.kind = "none"
         /\ Job(kind, todo, v).kind = kind
BY DEF Job, Jobs, Free

(* Steps that move nothing while a compaction runs. *)
LEMMA ReclaimStays ==
  ASSUME ReclaimInv, segs' \subseteq SegIds, latest' \in SegIds, DOMAIN mem' = Keys, job' \in Jobs,
         \/ job'.kind # "compact"
         \/ /\ UNCHANGED <<mem, latest, segSize>> /\ job'.kind = job.kind /\ job'.todo = job.todo
            /\ job'.kept = job.kept /\ job'.current = job.current
  PROVE  ReclaimInv'
<1>1. CASE job'.kind # "compact"
  BY <1>1 DEF ReclaimInv, ReclaimSafe
<1>2. CASE /\ UNCHANGED <<mem, latest, segSize>> /\ job'.kind = job.kind /\ job'.todo = job.todo
           /\ job'.kept = job.kept /\ job'.current = job.current
  <2>1. ReclaimSafe'
    BY <1>2 DEF ReclaimInv, ReclaimSafe, HalfAlive
  <2> QED
    BY <2>1 DEF ReclaimInv
<1> QED
  BY <1>1, <1>2

LEMMA AppendKeepsIds ==
  ASSUME ReclaimInv, NEW v, NEW fails, AppendValue(v, fails)
  PROVE  /\ segs' \subseteq SegIds /\ latest' \in SegIds /\ latest <= latest' /\ segSize' = segSize
         /\ latest' = LastTried(v, fails)
BY DEF ReclaimInv, AppendValue, Target, LastTried, SegIds

(* Only entries of k change, and they were and are in other segments. *)
LEMMA SameHalfAlive ==
  ASSUME DOMAIN mem = Keys, NEW k \in Keys, NEW loc, mem' = [mem EXCEPT ![k] = loc],
         segSize' = segSize, NEW s, loc.seg # s, mem[k].seg # s
  PROVE  HalfAlive(mem, s)' <=> HalfAlive(mem, s)
<1>1. \A q \in Keys : mem'[q] = IF q = k THEN loc ELSE mem[q]
  OBVIOUS
<1>2. {q \in Live(mem) : mem[q].seg = s}' = {q \in Live(mem) : mem[q].seg = s}
  BY <1>1 DEF Live
<1>3. EntriesIn(mem, s)' = EntriesIn(mem, s)
  BY <1>1, <1>2 DEF EntriesIn, Live
<1> QED
  BY <1>3 DEF HalfAlive, LiveBytes

LEMMA CompactBeginReclaim == ASSUME ReclaimInv, CompactBegin PROVE ReclaimInv'
<1>1. /\ UNCHANGED <<segs, latest, segSize, mem>>
      /\ job' = [Job("compact", ToMove, NoVal) EXCEPT !.current = latest]
  BY DEF CompactBegin, IndexCompact, indexVars, segVars
<1>2. ToMove \in SUBSET Keys /\ latest \in SegIds
  BY DEF ToMove, Live, ReclaimInv
<1>3. job' \in Jobs /\ job'.kind = "compact" /\ job'.todo = ToMove /\ job'.current = latest
  BY <1>1, <1>2 DEF Job, Jobs
<1>4. \A k \in Live(mem) :
        \/ mem[k].seg >= latest \/ k \in ToMove
        \/ HalfAlive(mem, mem[k].seg) /\ \A q \in ToMove : mem[q].seg # mem[k].seg
  BY <1>2 DEF ToMove, SegIds
<1>5. ReclaimSafe'
  BY <1>1, <1>2, <1>3, <1>4 DEF ReclaimSafe, Live, HalfAlive, SegIds
<1> QED
  BY <1>1, <1>2, <1>3, <1>5 DEF ReclaimInv

(* An entry goes to the segment being written, not older than current. *)
LEMMA RelocateReclaim ==
  ASSUME ReclaimInv, NEW k \in Keys, NEW fails \in WriteFails, Relocate(k, fails) PROVE ReclaimInv'
<1> DEFINE v == Read(mem[k])
           done == v \in Values /\ Written(v, fails)
<1>1. /\ job.kind = "compact" /\ k \in job.todo /\ job \in Jobs /\ DOMAIN mem = Keys
      /\ job' = [job EXCEPT !.todo = @ \ {k}, !.moved = @ \/ done, !.kept = @ \/ ~done]
  BY DEF Relocate, ReclaimInv
<1>2. /\ job' \in Jobs /\ job'.todo = job.todo \ {k} /\ job'.current = job.current
      /\ job'.kind = "compact" /\ (job'.kept <=> job.kept \/ ~done)
  <2> HIDE DEF done
  <2>1. done \in BOOLEAN
    BY DEF done
  <2> QED
    BY <1>1, <2>1 DEF Jobs
<1>3. segs' \subseteq SegIds /\ latest' \in SegIds /\ latest <= latest' /\ segSize' = segSize
  <2>1. CASE v \in Values
    BY <2>1, AppendKeepsIds DEF Relocate
  <2>2. CASE v \notin Values
    BY <2>2 DEF Relocate, segVars, ReclaimInv, SegIds
  <2> QED
    BY <2>1, <2>2
<1>4. DOMAIN mem' = Keys
  BY <1>1 DEF Relocate, Insert, indexVars
<1>5. ReclaimSafe'
  <2> SUFFICES ASSUME ~job.kept, done PROVE ReclaimSafe'
    BY <1>2 DEF ReclaimSafe
  <2>1. PICK loc : loc = AppendLoc(v, fails) /\ mem' = [mem EXCEPT ![k] = loc]
    BY DEF Relocate, Insert
  <2>2. loc.seg = latest'
    <3>1. AppendValue(v, fails)
      BY DEF Relocate
    <3> QED
      BY <2>1, <3>1, AppendKeepsIds DEF AppendLoc
  <2>3. job.current <= latest /\ job.current \in Int
    BY <1>1 DEF ReclaimInv, ReclaimSafe, Jobs, SegIds
  <2>4. job.current <= latest' /\ loc.seg >= job.current
    BY <1>3, <2>2, <2>3 DEF ReclaimInv, SegIds
  <2>5. \A q \in Keys : mem'[q] = IF q = k THEN loc ELSE mem[q]
    BY <1>1, <2>1
  <2>6. ASSUME NEW q \in Keys, mem'[q] # NoLoc
        PROVE  \/ mem'[q].seg >= job.current \/ q \in job.todo \ {k}
               \/ HalfAlive(mem, mem[q].seg)' /\ mem'[q].seg = mem[q].seg
                  /\ \A p \in job.todo \ {k} : mem'[p].seg # mem'[q].seg
    <3>1. CASE q = k
      BY <2>4, <2>5, <3>1
    <3>2. CASE q # k /\ ~(mem[q].seg >= job.current) /\ q \notin job.todo
      <4>1. HalfAlive(mem, mem[q].seg) /\ \A p \in job.todo : mem[p].seg # mem[q].seg
        BY <1>1, <2>5, <2>6, <3>2 DEF ReclaimInv, ReclaimSafe, Live
      <4>2. PICK s : s = mem[q].seg
        OBVIOUS
      <4>3. loc.seg # s /\ mem[k].seg # s
        BY <1>1, <2>4, <3>2, <4>1, <4>2
      <4>4. HalfAlive(mem, s)'
        BY <1>1, <1>3, <2>1, <4>1, <4>2, <4>3, SameHalfAlive
      <4>5. job.todo \subseteq Keys
        BY <1>1 DEF Jobs
      <4> QED
        BY <2>5, <3>2, <4>1, <4>2, <4>4, <4>5
    <3>3. CASE q # k /\ (mem[q].seg >= job.current \/ q \in job.todo)
      BY <2>5, <3>3
    <3> QED
      BY <3>1, <3>2, <3>3
  <2> QED
    BY <1>2, <2>4, <2>6 DEF ReclaimSafe, Live
<1> QED
  BY <1>2, <1>3, <1>4, <1>5 DEF ReclaimInv

LEMMA ReclaimInit == ShardInit => ReclaimInv
BY LocationsAssumption, JobIs
   DEF ShardInit, SegInit, IndexInit, Free, ReclaimInv, ReclaimSafe, SegIds

(* What a write or a delete of one key leaves alone. *)
LEMMA WriteKeepsIds ==
  ASSUME ReclaimInv, NEW k \in Keys, NEW v, NEW fails, Store(k, v, fails) \/ Erase(k)
  PROVE  segs' \subseteq SegIds /\ latest' \in SegIds /\ DOMAIN mem' = Keys
<1>1. CASE Store(k, v, fails)
  <2>1. segs' \subseteq SegIds /\ latest' \in SegIds
    BY <1>1, AppendKeepsIds DEF Store
  <2> QED
    BY <1>1, <2>1 DEF Store, Insert, indexVars, ReclaimInv
<1>2. CASE Erase(k)
  BY <1>2 DEF Erase, Tombstone, indexVars, segVars, ReclaimInv
<1> QED
  BY <1>1, <1>2

LEMMA ReclaimStep == ASSUME ReclaimInv, [ShardNext]_shardVars PROVE ReclaimInv'
<1>0. /\ segs \subseteq SegIds /\ latest \in SegIds /\ DOMAIN mem = Keys /\ job \in Jobs
      /\ NoVal \in Values \cup {NoVal}
  BY DEF ReclaimInv
<1>1. CASE ReadNext \/ UNCHANGED shardVars
  BY <1>0, <1>1, ReclaimStays
  DEF ReadNext, Get, GetFill, shardVars, segVars, indexVars, lockVars
<1>2. CASE WriteNext
  <2>1. ASSUME NEW k \in Keys, NEW v, NEW fails, Set(k, v, fails) \/ Del(k) PROVE ReclaimInv'
    <3>1. (Store(k, v, fails) \/ Erase(k)) /\ ExclusiveLock /\ UNCHANGED job
      BY <2>1 DEF Set, Del, lockVars
    <3>2. segs' \subseteq SegIds /\ latest' \in SegIds /\ DOMAIN mem' = Keys
      BY <1>0, <3>1, WriteKeepsIds
    <3> QED
      BY <1>0, <3>1, <3>2, ReclaimStays DEF ExclusiveLock
  <2> QED
    BY <1>2, <2>1 DEF WriteNext
<1>3. CASE BulkNext
  <2>1. ASSUME NEW kind \in {"setBy", "delBy"}, NEW matching \in SUBSET Live(mem),
               NEW v \in Values \cup {NoVal}, BulkBegin(kind, matching, v)
        PROVE  ReclaimInv'
    <3>1. job' = Job(kind, matching, v) /\ UNCHANGED <<segs, latest, mem>> /\ matching \in SUBSET Keys
      BY <2>1 DEF BulkBegin, segVars, indexVars, Live
    <3>2. job' \in Jobs /\ job'.kind # "compact"
      BY <3>1, JobIs
    <3> QED
      BY <1>0, <3>1, <3>2, ReclaimStays
  <2>2. ASSUME NEW k \in Keys, NEW fails \in WriteFails, BulkStep(k, fails) PROVE ReclaimInv'
    <3>1. /\ job.kind \in {"setBy", "delBy"} /\ (Store(k, job.val, fails) \/ Erase(k))
          /\ job' = IF job.todo = {k} THEN Free ELSE [job EXCEPT !.todo = @ \ {k}]
      BY <2>2 DEF BulkStep
    <3>2. segs' \subseteq SegIds /\ latest' \in SegIds /\ DOMAIN mem' = Keys
      BY <3>1, WriteKeepsIds
    <3>3. job' \in Jobs /\ job'.kind # "compact"
      BY <1>0, <3>1 DEF Jobs, Free, Job
    <3> QED
      BY <3>2, <3>3, ReclaimStays
  <2> QED
    BY <1>3, <2>1, <2>2 DEF BulkNext
<1>4. CASE FlushData \/ ReloadNext
  <2>1. UNCHANGED <<segs, latest, mem, job>> /\ job.kind # "compact"
    BY <1>4 DEF FlushData, FlushSuccess, FlushFailure, SegFlush, IndexFlush, ReloadNext,
                ReloadSettings, SegResize, indexVars, lockVars, ExclusiveLock
  <2> QED
    BY <1>0, <2>1, ReclaimStays
<1>5. CASE CompactNext
  <2>1. CASE CompactBegin
    BY <2>1, CompactBeginReclaim
  <2>2. ASSUME NEW k \in Keys, NEW fails \in WriteFails, Relocate(k, fails) PROVE ReclaimInv'
    BY <2>2, RelocateReclaim
  <2>3. CASE CompactFlush
    <3>1. /\ UNCHANGED <<segs, latest, segSize, mem>>
          /\ job' = [job EXCEPT !.moved = FALSE] \/ job' = Free
      BY <2>3 DEF CompactFlush, FlushSuccess, FlushFailure, SegFlush, IndexFlush, indexVars
    <3>2. job' \in Jobs
      <4>1. Free \in Jobs
        BY DEF Jobs, Free, Job
      <4>2. [job EXCEPT !.moved = FALSE] \in Jobs
        BY <1>0 DEF Jobs
      <4> QED
        BY <3>1, <4>1, <4>2
    <3>3. \/ job'.kind # "compact"
          \/ /\ job'.kind = job.kind /\ job'.todo = job.todo
             /\ job'.kept = job.kept /\ job'.current = job.current
      BY <1>0, <3>1, JobIs DEF Jobs
    <3> QED
      BY <1>0, <3>1, <3>2, <3>3, ReclaimStays
  <2>4. CASE CompactEnd
    <3>1. segs' \subseteq SegIds /\ UNCHANGED <<latest, mem>> /\ job' = Free
      BY <1>0, <2>4 DEF CompactEnd, RemoveUnused, indexVars
    <3> QED
      BY <1>0, <3>1, JobIs, ReclaimStays
  <2> QED
    BY <1>5, <2>1, <2>2, <2>3, <2>4 DEF CompactNext
<1>6. CASE CrashNext
  <2>1. CASE Crash
    <3>1. segs' \subseteq SegIds /\ latest' \in SegIds
      BY <1>0, <2>1, LocationsAssumption DEF Crash, SegCrash, LatestOf, SegIds
    <3>2. DOMAIN mem' = Keys
      BY <2>1 DEF Crash, IndexCrash, Loaded
    <3>3. job' \in Jobs /\ job'.kind # "compact"
      <4>1. PICK T \in SUBSET Keys : job' = Job("verify", T, NoVal)
        BY <2>1 DEF Crash, Dangling, Live
      <4> QED
        BY <1>0, <4>1, JobIs
    <3> QED
      BY <3>1, <3>2, <3>3, ReclaimStays
  <2>2. CASE FillBegin
    <3>1. UNCHANGED <<segs, latest, mem>> /\ job' = Free
      BY <2>2 DEF FillBegin, segVars, indexVars
    <3> QED
      BY <1>0, <3>1, JobIs, ReclaimStays
  <2>3. ASSUME NEW k \in Keys, VerifyIndexEntry(k) PROVE ReclaimInv'
    <3>1. /\ UNCHANGED <<segs, latest>> /\ job' = [job EXCEPT !.todo = @ \ {k}]
          /\ job.kind = "verify" /\ DOMAIN mem' = Keys
      BY <1>0, <2>3 DEF VerifyIndexEntry, Tombstone, segVars, indexVars
    <3>2. job' \in Jobs /\ job'.kind # "compact"
      BY <1>0, <3>1 DEF Jobs
    <3> QED
      BY <1>0, <3>1, <3>2, ReclaimStays
  <2>4. ASSUME NEW k \in Keys, FillCache(k) PROVE ReclaimInv'
    BY <1>0, <2>4, ReclaimStays DEF FillCache, segVars, indexVars
  <2> QED
    BY <1>6, <2>1, <2>2, <2>3, <2>4 DEF CrashNext
<1> QED
  BY <1>1, <1>2, <1>3, <1>4, <1>5, <1>6 DEF ShardNext

(***************************************************************************)
(* Compaction reclaims space (Shard::compactSegments): the old segment     *)
(* files that are left are at least half alive, whatever crashed before.   *)
(***************************************************************************)
THEOREM ShardCompactionReclaims == ShardSpec => CompactionReclaims
<1> DEFINE Reclaims == job.kind = "compact" /\ ~job.kept /\ CompactEnd =>
                         \A s \in segs' : s >= job.current \/ HalfAlive(mem, s)
<1>1. ASSUME ReclaimInv PROVE Reclaims
  <2> SUFFICES ASSUME job.kind = "compact", ~job.kept, CompactEnd, NEW s \in segs'
               PROVE  s >= job.current \/ HalfAlive(mem, s)
    OBVIOUS
  <2>1. PICK k \in Live(mem) : mem[k].seg = s
    BY DEF CompactEnd, RemoveUnused, UsedSegments
  <2>2. job.todo = {}
    BY DEF CompactEnd
  <2> QED
    BY <1>1, <2>1, <2>2 DEF ReclaimInv, ReclaimSafe
<1>2. ReclaimInv /\ [ShardNext]_shardVars => [Reclaims]_shardVars
  BY <1>1
<1>3. ReclaimInv /\ [ShardNext]_shardVars => ReclaimInv'
  BY ReclaimStep
<1>4. ShardSpec => [][Reclaims]_shardVars
  BY ReclaimInit, <1>2, <1>3, PTL DEF ShardSpec
<1> QED
  BY <1>4 DEF CompactionReclaims
=============================================================================
