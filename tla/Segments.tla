------------------------------ MODULE Segments ------------------------------
(***************************************************************************)
(* StorageManager and DataSegment: the value files seg/<id>.seg of one     *)
(* shard.  A file is its length, the length known to be on disk, and the   *)
(* extents of the values written to it; bytes of no extent are what is     *)
(* left of a value torn by a crash.                                        *)
(***************************************************************************)
EXTENDS Locations, FiniteSets

CONSTANTS
    SegSizes,    \* the values of the SegSize setting
    WriteFails   \* how many writes of one append the disk may refuse

ASSUME SegSizesAssumption == SegSizes \subseteq 1 .. MaxSegSize /\ WriteFails \subseteq 0 .. 2

VARIABLES
    segs,        \* ids of the open segments, those of the files in seg/
    len,         \* len[s]: write position of s (currentOffset)
    synced,      \* synced[s]: the bytes of s that survive any crash
    ext,         \* the extents [seg, off, val] written
    latest,      \* latestSegmentId
    segSize      \* settings.SegSize

segVars == <<segs, len, synced, ext, latest, segSize>>

Extent == [seg : SegIds, off : 0 .. MaxSegSize, val : Values]

SegInit ==
    /\ segs = {1}
    /\ len = [s \in SegIds |-> 0]
    /\ synced = [s \in SegIds |-> 0]
    /\ ext = {}
    /\ latest = 1
    /\ segSize \in SegSizes

-----------------------------------------------------------------------------
(* Reads *)

(* StorageManager::contains, on the segments S of lengths L. *)
ContainsIn(S, L, loc) == loc.seg \in S /\ loc.off + loc.size <= L[loc.seg]

(* The extents at a location of the extents E. *)
At(E, loc) == {e \in E : e.seg = loc.seg /\ e.off = loc.off /\ SizeOf[e.val] = loc.size}

(* StorageManager::read: "" when the segment is unknown or the read is short. *)
ReadIn(S, L, E, loc) ==
    IF ~ContainsIn(S, L, loc) THEN NoVal
    ELSE IF At(E, loc) = {} THEN Garbage
    ELSE (CHOOSE e \in At(E, loc) : TRUE).val

Read(loc) == ReadIn(segs, len, ext, loc)

-----------------------------------------------------------------------------
(* StorageManager::append *)

(* Mutant: the value's own size is left out of the comparison. *)
FitsBySizeSoFar(s, v) == len[s] <= segSize

(* DataSegment::write refuses a value that would cross segSize. *)
Fits(s, v) == len[s] + SizeOf[v] <= segSize

(* The segment tried first: the latest one unless it is full or removed. *)
Target == IF latest \in segs /\ len[latest] < segSize THEN latest ELSE latest + 1

(***************************************************************************)
(* fails is the number of write attempts the disk refuses.  A first        *)
(* attempt that fails, for lack of room or by an I/O error, opens one more *)
(* segment for the second; there is no third.                              *)
(***************************************************************************)
LastTried(v, fails) == IF fails = 0 /\ Fits(Target, v) THEN Target ELSE Target + 1

(* Whether append finds room, and the location it returns. *)
Written(v, fails) == fails <= 1 /\ Fits(LastTried(v, fails), v)

AppendLoc(v, fails) ==
    IF Written(v, fails)
    THEN [seg |-> LastTried(v, fails), off |-> len[LastTried(v, fails)], size |-> SizeOf[v]]
    ELSE NoLoc

(* Mutant: the write position advances by one byte whatever is written. *)
AdvancedByOne(s, v) == [len EXCEPT ![s] = @ + 1]

(* DataSegment::write moves the write position past the value. *)
Advanced(s, v) == [len EXCEPT ![s] = @ + SizeOf[v]]

AppendValue(v, fails) ==
    LET s == LastTried(v, fails) IN
    /\ Target \in SegIds /\ s \in SegIds       \* bound
    /\ segs' = segs \cup {Target, s}
    /\ latest' = s
    /\ IF Written(v, fails)
       THEN /\ len' = Advanced(s, v)
            /\ ext' = ext \cup {[seg |-> s, off |-> len[s], val |-> v]}
       ELSE UNCHANGED <<len, ext>>
    /\ UNCHANGED <<synced, segSize>>

-----------------------------------------------------------------------------
(***************************************************************************)
(* StorageManager::flush reaches every segment; those of S are flushed and *)
(* fsynced, the fsync of the others fails.                                 *)
(***************************************************************************)
SegFlush(S) ==
    /\ synced' = [s \in SegIds |-> IF s \in S THEN len[s] ELSE synced[s]]
    /\ UNCHANGED <<segs, len, ext, latest, segSize>>

(* StorageManager::removeUnusedSegments; it may remove the latest segment. *)
RemoveUnused(used) ==
    /\ segs' = segs \cap used
    /\ len' = [s \in SegIds |-> IF s \in used THEN len[s] ELSE 0]
    /\ synced' = [s \in SegIds |-> IF s \in used THEN synced[s] ELSE 0]
    /\ ext' = {e \in ext : e.seg \in used}
    /\ UNCHANGED <<latest, segSize>>

(* Shard::reloadSettings assigns the settings the segments refer to. *)
SegResize(size) == segSize' = size /\ UNCHANGED <<segs, len, synced, ext, latest>>

(* Mutant: the number of segments is taken for the latest id. *)
CountAsLatest(S) == {Cardinality(S)}

(* StorageManager::boot: the largest id of the segments S. *)
LatestOf(S) == {s \in S : \A t \in S : t <= s}

(* Mutant: an existing file is opened with trunc. *)
Truncated(cut) == [s \in SegIds |-> 0]

(* DataSegment::openSegment and refreshFullStatus: appends go to the end. *)
Reopened(cut) == cut

(***************************************************************************)
(* A crash keeps of each file its fsynced bytes and any prefix of the      *)
(* rest; StorageManager::boot reopens the files, makes segment 1 when      *)
(* there is none and takes the largest id as the latest.                   *)
(***************************************************************************)
SegCrash(cut) ==
    /\ \A s \in SegIds : synced[s] <= cut[s] /\ cut[s] <= len[s]
    /\ segs' = IF segs = {} THEN {1} ELSE segs
    /\ latest' \in LatestOf(segs')
    /\ len' = Reopened(cut)
    /\ synced' = Reopened(cut)
    /\ ext' = {e \in ext : e.off + SizeOf[e.val] <= len'[e.seg]}
    /\ UNCHANGED segSize

(* The lengths a crash may leave. *)
Cuts == {cut \in [SegIds -> 0 .. MaxSegSize] :
            \A s \in SegIds : synced[s] <= cut[s] /\ cut[s] <= len[s]}

SegNext ==
    \/ \E v \in Values, fails \in WriteFails : AppendValue(v, fails)
    \/ \E S \in SUBSET segs : SegFlush(S)
    \/ \E used \in SUBSET SegIds : RemoveUnused(used)
    \/ \E size \in SegSizes : SegResize(size)
    \/ \E cut \in Cuts : SegCrash(cut)

SegSpec == SegInit /\ [][SegNext]_segVars

-----------------------------------------------------------------------------
(* Properties *)

SegTypeOK ==
    /\ segs \subseteq SegIds
    /\ len \in [SegIds -> 0 .. MaxSegSize]
    /\ synced \in [SegIds -> 0 .. MaxSegSize]
    /\ ext \subseteq Extent
    /\ latest \in SegIds
    /\ segSize \in SegSizes

End(e) == e.off + SizeOf[e.val]

(***************************************************************************)
(* No write lands on the bytes of another value (StorageManager::append,   *)
(* DataSegment::write): an extent lies within the write position of an     *)
(* open segment and overlaps no other, so that a location append returned  *)
(* reads back its value.                                                   *)
(***************************************************************************)
ExtentsApart ==
    /\ \A e \in ext : e.seg \in segs /\ End(e) <= len[e.seg]
    /\ \A e, f \in ext : e.seg = f.seg /\ e # f => End(e) <= f.off \/ End(f) <= e.off

(***************************************************************************)
(* The ids append takes next are of files that do not exist: opening one   *)
(* never reopens an older file and appends to stale bytes.                 *)
(***************************************************************************)
NextIdsFresh ==
    /\ \A s \in segs : s <= latest
    /\ \A s \in SegIds \ segs : len[s] = 0

(* The inductive invariant of the segments. *)
SegInv ==
    /\ SegTypeOK
    /\ ExtentsApart
    /\ NextIdsFresh
    /\ \A s \in SegIds : synced[s] <= len[s]

(***************************************************************************)
(* A value once written stays where it is through appends, flushes and     *)
(* reloads: it goes only with its whole segment file (the compactor's      *)
(* removeUnusedSegments), or, if its bytes were never fsynced, in a crash  *)
(* that takes the end of its segment with it.                              *)
(***************************************************************************)
ValuesStay ==
    [][\A e \in ext \ ext' : \/ e.seg \notin segs'
                             \/ synced[e.seg] < End(e) /\ len'[e.seg] < End(e)]_segVars
=============================================================================
