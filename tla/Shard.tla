------------------------------- MODULE Shard -------------------------------
(***************************************************************************)
(* One shard: the segments, the index and the cache behind readMtx.        *)
(*                                                                         *)
(* Readers share the lock: Shard::get looks the key up in one step and     *)
(* fills the cache in a later one.  Writers, the compactor, flushData and  *)
(* reloadSettings hold it exclusively; their work is one step per key, all *)
(* of it excluding others, so that a crash can fall between any two.       *)
(***************************************************************************)
EXTENDS Segments, IndexLog, LRUCache

LOCAL FX == INSTANCE FiniteSetsExt

CONSTANTS
    Readers,         \* threads inside Shard::get
    CrashAfterVerify \* whether a crash may fall between a boot that dropped
                     \* index entries and the first sync of the INDEX

ASSUME ShardAssumption == CrashAfterVerify \in BOOLEAN

VARIABLES
    rd,          \* rd[r]: what a reader is about to put in the cache
    job,         \* what the exclusive holder of readMtx is doing
    fill,        \* fill[k]: the index entry fillCache has still to read for k
    hist,        \* history: the values of each key since the last flush
    written,     \* history: the keys set since the last flush
    movedKeys,   \* history: the keys the compactor moved since the last flush
    unverified   \* history: tombstones of verifyIndexEntries await a sync

lockVars == <<rd, job, fill>>
histVars == <<hist, written, movedKeys, unverified>>
shardVars == <<segVars, indexVars, cacheVars, lockVars, histVars>>

Idle == [key |-> "none", val |-> NoVal]

(***************************************************************************)
(* todo: the keys a loop has still to visit; val: the value setBy writes;  *)
(* moved: compactSegments' flag; current: its local of that name; kept:    *)
(* whether it left behind an entry it meant to move.                       *)
(***************************************************************************)
Job(kind, todo, val) ==
    [kind |-> kind, todo |-> todo, val |-> val,
     moved |-> FALSE, kept |-> FALSE, current |-> 0]

Free == Job("none", {}, NoVal)

NoFill == [k \in {} |-> NoLoc]

ShardInit ==
    /\ SegInit /\ IndexInit /\ CacheInit
    /\ rd = [r \in Readers |-> Idle]
    /\ job = Free /\ fill = NoFill
    /\ hist = [k \in Keys |-> {NoVal}]
    /\ written = {} /\ movedKeys = {} /\ unverified = FALSE

(* Mutant: boot starts the cache's thread and does not wait for it. *)
NotWaiting == TRUE

(* boot waits for fillCache, and the shard has no callers before its end. *)
Booted == fill = NoFill

(* readMtx is free for a reader, or for a writer. *)
SharedLock == job.kind = "none"

(* Mutant: a writer takes the lock without waiting for the readers. *)
LockIgnoringReaders == job.kind = "none"

ExclusiveLock == job.kind = "none" /\ \A r \in Readers : rd[r] = Idle

(* The value Shard::get returns for k now. *)
GetResult(k) ==
    IF Hit(k) THEN cval[k]
    ELSE IF mem[k] = NoLoc THEN NoVal ELSE Read(mem[k])

-----------------------------------------------------------------------------
(* Shard::get: a hit only reorders the cache; a miss reads the segment. *)
Get(r, k) ==
    /\ Booted /\ SharedLock /\ rd[r] = Idle
    /\ CacheGet(k)
    /\ rd' = IF ~Hit(k) /\ mem[k] # NoLoc /\ Read(mem[k]) # NoVal
             THEN [rd EXCEPT ![r] = [key |-> k, val |-> Read(mem[k])]]
             ELSE rd
    /\ UNCHANGED <<segVars, indexVars, job, fill, histVars>>

(* ... and puts what it read in the cache before it releases the lock. *)
GetFill(r) ==
    /\ rd[r] # Idle
    /\ CachePut(rd[r].key, rd[r].val)
    /\ rd' = [rd EXCEPT ![r] = Idle]
    /\ UNCHANGED <<segVars, indexVars, job, fill, histVars>>

-----------------------------------------------------------------------------
(* What set and setBy do for one key: append, then index, then cache. *)
Store(k, v, fails) ==
    /\ AppendValue(v, fails)
    /\ IF Written(v, fails)
       THEN /\ Insert(k, AppendLoc(v, fails))
            /\ CachePut(k, v)
            /\ hist' = [hist EXCEPT ![k] = @ \cup {v}]
            /\ written' = written \cup {k}
            /\ UNCHANGED <<movedKeys, unverified>>
       ELSE UNCHANGED <<indexVars, cacheVars, histVars>>

(* Mutant: the cache is left alone. *)
EraseKeepsCache(k) ==
    /\ Tombstone(k)
    /\ hist' = [hist EXCEPT ![k] = @ \cup {NoVal}]
    /\ UNCHANGED <<segVars, cacheVars, written, movedKeys, unverified>>

(* What del and delBy do for one key: the cache entry goes in any case. *)
Erase(k) ==
    /\ CacheRemove(k)
    /\ Tombstone(k)
    /\ hist' = [hist EXCEPT ![k] = @ \cup {NoVal}]
    /\ UNCHANGED <<segVars, written, movedKeys, unverified>>

(* Shard::set and Shard::del. *)
Set(k, v, fails) == Booted /\ ExclusiveLock /\ Store(k, v, fails) /\ UNCHANGED lockVars

Del(k) == Booted /\ ExclusiveLock /\ Erase(k) /\ UNCHANGED lockVars

(* Shard::setBy and delBy: findMatching, then one key at a time. *)
BulkBegin(kind, matching, v) ==
    /\ Booted /\ ExclusiveLock
    /\ matching \subseteq Live(mem) /\ matching # {}
    /\ job' = Job(kind, matching, v)
    /\ UNCHANGED <<segVars, indexVars, cacheVars, rd, fill, histVars>>

BulkStep(k, fails) ==
    /\ k \in job.todo
    /\ \/ job.kind = "setBy" /\ Store(k, job.val, fails)
       \/ job.kind = "delBy" /\ Erase(k)
    /\ job' = IF job.todo = {k} THEN Free ELSE [job EXCEPT !.todo = @ \ {k}]
    /\ UNCHANGED <<rd, fill>>

-----------------------------------------------------------------------------
(* Mutant: only the INDEX is flushed. *)
FlushIndexOnly ==
    /\ SegFlush({})
    /\ IndexFlush
    /\ hist' = [k \in Keys |-> {GetResult(k)}]
    /\ written' = {} /\ movedKeys' = {} /\ unverified' = FALSE

(***************************************************************************)
(* Shard::flushData: the segments, then the index, each fsynced; a failure *)
(* stops it half-way.  Nothing is cleared from the history before both     *)
(* succeed.                                                                *)
(***************************************************************************)
FlushSuccess ==
    /\ SegFlush(segs)
    /\ IndexFlush
    /\ hist' = [k \in Keys |-> {GetResult(k)}]
    /\ written' = {} /\ movedKeys' = {} /\ unverified' = FALSE

FlushFailure(S) ==
    /\ SegFlush(S)
    /\ UNCHANGED <<indexVars, histVars>>

FlushData ==
    /\ Booted /\ ExclusiveLock
    /\ FlushSuccess \/ \E S \in SUBSET segs : FlushFailure(S)
    /\ UNCHANGED <<cacheVars, lockVars>>

(* Shard::reloadSettings. *)
ReloadSettings(cap, size) ==
    /\ Booted /\ ExclusiveLock
    /\ CacheResize(cap) /\ SegResize(size)
    /\ UNCHANGED <<indexVars, lockVars, histVars>>

-----------------------------------------------------------------------------
(* Shard::compactSegments *)

(* The entries of the index m that point into segment s, and their bytes. *)
EntriesIn(m, s) == {[key |-> k, loc |-> m[k]] : k \in {q \in Live(m) : m[q].seg = s}}

Bytes(entries) == FX!MapThenSumSet(LAMBDA e : e.loc.size, entries)

LiveBytes(m, s) == Bytes(EntriesIn(m, s))

HalfAlive(m, s) == LiveBytes(m, s) * 2 >= segSize

(* Mutant: only segments under a quarter alive are emptied. *)
ToMoveUnderQuarter == {k \in Live(mem) : /\ mem[k].seg # latest
                                         /\ LiveBytes(mem, mem[k].seg) * 4 < segSize}

(* The entries whose segment is neither the current one nor half alive. *)
ToMove == {k \in Live(mem) : mem[k].seg # latest /\ ~HalfAlive(mem, mem[k].seg)}

(* The compactor wakes up and rewrites the INDEX, or fails to. *)
CompactBegin ==
    /\ ExclusiveLock
    /\ \/ IndexCompact /\ unverified' = FALSE
       \/ UNCHANGED <<indexVars, unverified>>
    /\ job' = [Job("compact", ToMove, NoVal) EXCEPT !.current = latest]
    /\ UNCHANGED <<segVars, cacheVars, rd, fill, hist, written, movedKeys>>

(* One entry is read, appended again and indexed; or left where it is. *)
Relocate(k, fails) ==
    LET v == Read(mem[k])
        done == v \in Values /\ Written(v, fails) IN
    /\ job.kind = "compact" /\ k \in job.todo
    /\ IF v \in Values THEN AppendValue(v, fails) ELSE UNCHANGED segVars
    /\ IF done
       THEN Insert(k, AppendLoc(v, fails)) /\ movedKeys' = movedKeys \cup {k}
       ELSE UNCHANGED <<indexVars, movedKeys>>
    /\ job' = [job EXCEPT !.todo = @ \ {k}, !.moved = @ \/ done, !.kept = @ \/ ~done]
    /\ UNCHANGED <<cacheVars, rd, fill, hist, written, unverified>>

(* What was moved is flushed; when that fails the old segments are kept. *)
CompactFlush ==
    /\ job.kind = "compact" /\ job.todo = {} /\ job.moved
    /\ \/ FlushSuccess /\ job' = [job EXCEPT !.moved = FALSE]
       \/ job' = Free /\ \E S \in SUBSET segs : FlushFailure(S)
    /\ UNCHANGED <<cacheVars, rd, fill>>

(* Mutant: only the segment being written counts as used. *)
UsedIsLatest == {latest}

(* The usedSegmentIds of compactSegments. *)
UsedSegments == {mem[k].seg : k \in Live(mem)}

(* The segments no entry points into go. *)
CompactEnd ==
    /\ job.kind = "compact" /\ job.todo = {} /\ ~job.moved
    /\ RemoveUnused(UsedSegments)
    /\ job' = Free
    /\ UNCHANGED <<indexVars, cacheVars, rd, fill, histVars>>

-----------------------------------------------------------------------------
(* Mutant: an entry whose segment exists is taken for valid. *)
MissingSegment(S, L, m) == {k \in Live(m) : m[k].seg \notin S}

(* The entries verifyIndexEntries removes. *)
Dangling(S, L, m) == {k \in Live(m) : ~ContainsIn(S, L, m[k])}

(***************************************************************************)
(* The process or the machine dies and Shard::boot runs: the INDEX is      *)
(* loaded and compacted, the segments are reopened, then                   *)
(* verifyIndexEntries writes a tombstone for every entry that no segment   *)
(* contains, and fillCache reads the first entries into the cache while    *)
(* the compactor's thread is running already.                              *)
(***************************************************************************)
Crash ==
    /\ ~unverified \/ CrashAfterVerify
    /\ \E cut \in Cuts : SegCrash(cut)
    /\ IndexCrash
    /\ cval' = [k \in Keys |-> NoVal] /\ lru' = <<>> /\ UNCHANGED capacity
    /\ rd' = [r \in Readers |-> Idle] /\ fill' = NoFill
    /\ job' = Job("verify", Dangling(segs', len', mem'), NoVal)
    /\ hist' = [k \in Keys |-> {IF mem'[k] = NoLoc THEN NoVal
                                ELSE ReadIn(segs', len', ext', mem'[k])}]
    /\ written' = {} /\ movedKeys' = {} /\ unverified' = FALSE

VerifyIndexEntry(k) ==
    /\ job.kind = "verify" /\ k \in job.todo
    /\ Tombstone(k)
    /\ unverified' = TRUE
    /\ job' = [job EXCEPT !.todo = @ \ {k}]
    /\ UNCHANGED <<segVars, cacheVars, rd, fill, hist, written, movedKeys>>

(* fillCache lists as many entries as the cache holds, of the map's        *)
(* unspecified order.                                                      *)
FillBegin ==
    /\ job.kind = "verify" /\ job.todo = {}
    /\ \E K \in SUBSET Live(mem) :
          /\ Cardinality(K) = FX!Min({capacity, Cardinality(Live(mem))})
          /\ fill' = [k \in K |-> mem[k]]
    /\ job' = Free
    /\ UNCHANGED <<segVars, indexVars, cacheVars, rd, histVars>>

(* It reads each of them where it was then, with no lock of the shard, and *)
(* skips the ones it cannot read any more.                                 *)
FillCache(k) ==
    /\ k \in DOMAIN fill
    /\ IF Read(fill[k]) # NoVal THEN CachePut(k, Read(fill[k])) ELSE UNCHANGED cacheVars
    /\ fill' = [j \in DOMAIN fill \ {k} |-> fill[j]]
    /\ UNCHANGED <<segVars, indexVars, rd, job, histVars>>

-----------------------------------------------------------------------------
ReadNext == \E r \in Readers : GetFill(r) \/ \E k \in Keys : Get(r, k)

WriteNext ==
    \/ \E k \in Keys, v \in Values, fails \in WriteFails : Set(k, v, fails)
    \/ \E k \in Keys : Del(k)

BulkNext ==
    \/ \E matching \in SUBSET Live(mem) :
          \/ \E v \in Values : BulkBegin("setBy", matching, v)
          \/ BulkBegin("delBy", matching, NoVal)
    \/ \E k \in Keys, fails \in WriteFails : BulkStep(k, fails)

ReloadNext == \E cap \in Capacities, size \in SegSizes : ReloadSettings(cap, size)

CompactNext ==
    \/ CompactBegin
    \/ \E k \in Keys, fails \in WriteFails : Relocate(k, fails)
    \/ CompactFlush
    \/ CompactEnd

CrashNext ==
    \/ Crash
    \/ FillBegin
    \/ \E k \in Keys : VerifyIndexEntry(k) \/ FillCache(k)

ShardNext ==
    \/ ReadNext \/ WriteNext \/ BulkNext \/ FlushData
    \/ ReloadNext \/ CompactNext \/ CrashNext

ShardSpec == ShardInit /\ [][ShardNext]_shardVars

-----------------------------------------------------------------------------
(* Properties *)

ShardTypeOK ==
    /\ SegTypeOK /\ IndexTypeOK /\ CacheTypeOK
    /\ rd \in [Readers -> {Idle} \cup [key : Keys, val : Values \cup {Garbage}]]
    /\ job \in [kind : {"none", "setBy", "delBy", "compact", "verify"},
                todo : SUBSET Keys, val : Values \cup {NoVal},
                moved : BOOLEAN, kept : BOOLEAN, current : SegIds \cup {0}]
    /\ DOMAIN fill \subseteq Live(mem)
    /\ hist \in [Keys -> SUBSET (Values \cup {NoVal})]
    /\ written \subseteq Keys /\ movedKeys \subseteq Keys
    /\ unverified \in BOOLEAN

(***************************************************************************)
(* No read is ever stale: a cached value, and a value a reader has read    *)
(* but not yet cached, is the one the index and the segments hold, through *)
(* overwrites, deletes, compactions that move the value, and reboots.      *)
(***************************************************************************)
CacheCoherent ==
    /\ \A k \in Keys : Hit(k) => mem[k] # NoLoc /\ Read(mem[k]) = cval[k]
    /\ \A r \in Readers : rd[r] # Idle =>
          mem[rd[r].key] # NoLoc /\ Read(mem[rd[r].key]) = rd[r].val

(***************************************************************************)
(* "A verification pass on boot detects and removes index entries that no  *)
(* longer point to valid on-disk data" (README): once booted, every index  *)
(* entry points at a whole value.  No get answers "read failed" and none   *)
(* returns bytes of something else (verifyIndexEntries; compactSegments    *)
(* removing a segment).                                                    *)
(***************************************************************************)
EntriesReadable ==
    job.kind # "verify" => \A k \in Live(mem) : Read(mem[k]) \in Values

(***************************************************************************)
(* The shard keeps the promise of DurableMap: reads are exact, and a crash *)
(* at any instant, in the middle of a bulk write, a flush or a compaction, *)
(* loses only what was written or moved since the last completed flush.    *)
(***************************************************************************)
D == INSTANCE DurableMap WITH
        kv <- [k \in Keys |-> GetResult(k)], exposed <- written \cup movedKeys

KeepsPromise == D!MapSpec

(***************************************************************************)
(* Compaction reclaims space: when a compaction that could write and flush *)
(* ends, each segment file left but the one it started from, and the ones  *)
(* it has just filled, is at least half alive.                             *)
(***************************************************************************)
CompactionReclaims ==
    [][job.kind = "compact" /\ ~job.kept /\ CompactEnd =>
          \A s \in segs' : s >= job.current \/ HalfAlive(mem, s)]_shardVars

(***************************************************************************)
(* The compactor's own claim, "flush failed after relocating values,       *)
(* keeping the old segments": moving a value never endangers it, so a      *)
(* crash loses no key that was flushed and not written since.              *)
(***************************************************************************)
CompactionIsSafe ==
    [][Crash => \A k \in Keys \ written : GetResult(k)' \in hist[k]]_shardVars

-----------------------------------------------------------------------------
(***************************************************************************)
(* The inductive invariant.  What a crash may bring back is one of the     *)
(* maps past; each entry of those is judged by what a boot makes of it.    *)
(* After a boot that dropped entries this is so again once the INDEX is    *)
(* synced; until then only of the map in memory.                           *)
(***************************************************************************)
Exposed == written \cup movedKeys

(* The value v lies at loc in a segment file. *)
Holds(loc, v) == [seg |-> loc.seg, off |-> loc.off, val |-> v] \in ext /\ SizeOf[v] = loc.size

(* What is at loc survives any crash. *)
OnDisk(loc) == loc.seg \in segs /\ loc.off + loc.size <= synced[loc.seg]

(***************************************************************************)
(* An entry a boot would find valid has a value its key had since the last *)
(* flush, and stays so: no later append gets to bytes it points at.  One   *)
(* it would drop is of a key that may be lost, or was absent since then.   *)
(***************************************************************************)
EntrySafe(m, k) ==
    IF m[k] = NoLoc THEN NoVal \in hist[k]
    ELSE /\ ContainsIn(segs, len, m[k]) => \E v \in Values \cap hist[k] : Holds(m[k], v)
         /\ job.kind # "verify" =>
               m[k].seg <= latest /\ (m[k].seg \in segs => ContainsIn(segs, len, m[k]))
         /\ k \in Exposed \/ NoVal \in hist[k] \/ OnDisk(m[k])

(* A key whose location is flushed has no other since. *)
SameEntry(m, k) == k \in Exposed \/ m[k] = NoLoc \/ mem[k] = NoLoc \/ m[k] = mem[k]

PastSafe == \A m \in past : m = mem \/ ~unverified =>
                \A k \in Keys : EntrySafe(m, k) /\ SameEntry(m, k)

(* Boot verifies the index before anything is cached. *)
VerifySafe == job.kind = "verify" =>
    /\ job.todo = Dangling(segs, len, mem) /\ \A k \in job.todo : NoVal \in hist[k]
    /\ \A k \in Keys : ~Hit(k)
    /\ unverified \/ past = {mem}

(* What fillCache is about to read is the key's value, or gone. *)
FillSafe == \A k \in DOMAIN fill :
    /\ fill[k] \in Location /\ fill[k].seg <= latest
    /\ fill[k].seg \in segs => Read(fill[k]) = Read(mem[k])

(* readMtx: no reader beside a writer, and no writer before boot ends. *)
LockSafe ==
    /\ job.kind # "none" => \A r \in Readers : rd[r] = Idle
    /\ job.kind \in {"setBy", "delBy", "verify"} => fill = NoFill
    /\ job.kind = "setBy" => job.val \in Values

(***************************************************************************)
(* A compaction that has moved all it visited: an entry in a segment older *)
(* than the one it started from is still to be moved, or in a segment that *)
(* was half alive then and from which nothing is taken.                    *)
(***************************************************************************)
ReclaimSafe == job.kind = "compact" /\ ~job.kept =>
    /\ job.current <= latest
    /\ \A k \in Live(mem) :
          \/ mem[k].seg >= job.current \/ k \in job.todo
          \/ HalfAlive(mem, mem[k].seg) /\ \A q \in job.todo : mem[q].seg # mem[k].seg

ShardInv ==
    /\ ShardTypeOK /\ SegInv /\ IndexInv /\ CacheInv
    /\ CacheCoherent /\ EntriesReadable
    /\ PastSafe /\ VerifySafe /\ FillSafe /\ LockSafe
=============================================================================
