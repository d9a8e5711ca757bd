------------------------------ MODULE IndexLog ------------------------------
(***************************************************************************)
(* IndexManager: the INDEX file of one shard, a log of records (key,       *)
(* location) and (key, tombstone), and memoryTree, the map it is loaded    *)
(* into.  Records reach the file in order through the stream's buffer; the *)
(* first logSynced of them are known to be on disk.                        *)
(***************************************************************************)
EXTENDS Locations, Sequences, FiniteSets, Functions

CONSTANT
    MaxLog       \* bound: the longest INDEX of an instance, in records

ASSUME IndexLogAssumption == MaxLog \in Nat /\ IsFiniteSet(Keys)

VARIABLES
    mem,         \* memoryTree; NoLoc for an absent key
    log,         \* the records written to INDEX, a tombstone's loc is NoLoc
    logSynced,   \* how many of them are on disk whatever happens
    past         \* history: the maps memoryTree went through since then

indexVars == <<mem, log, logSynced, past>>

Record == [key : Keys, loc : Location \cup {NoLoc}]

Live(m) == {k \in Keys : m[k] # NoLoc}

IndexInit ==
    /\ mem = [k \in Keys |-> NoLoc]
    /\ log = <<>>
    /\ logSynced = 0
    /\ past = {mem}

-----------------------------------------------------------------------------
(* IndexManager::append. *)
AppendRecord(k, loc) ==
    /\ Len(log) < MaxLog                        \* bound
    /\ log' = Append(log, [key |-> k, loc |-> loc])
    /\ past' = past \cup {mem'}
    /\ UNCHANGED logSynced

(* IndexManager::insert. *)
Insert(k, loc) == mem' = [mem EXCEPT ![k] = loc] /\ AppendRecord(k, loc)

(***************************************************************************)
(* insert when the stream refuses the record, on a full disk: append does  *)
(* not ask.  IndexNext leaves it out, MCSentences has it.                  *)
(***************************************************************************)
InsertUnwritten(k, loc) ==
    mem' = [mem EXCEPT ![k] = loc] /\ past' = past \cup {mem'} /\ UNCHANGED <<log, logSynced>>

(* Mutant: the key is erased from memory and nothing is written to INDEX. *)
TombstoneUnlogged(k) ==
    mem' = [mem EXCEPT ![k] = NoLoc] /\ past' = past \cup {mem'} /\ UNCHANGED <<log, logSynced>>

(* IndexManager::update with a tombstone; it ignores an unknown key. *)
Tombstone(k) ==
    IF mem[k] = NoLoc THEN UNCHANGED indexVars
    ELSE mem' = [mem EXCEPT ![k] = NoLoc] /\ AppendRecord(k, NoLoc)

(* IndexManager::flush. *)
IndexFlush == logSynced' = Len(log) /\ past' = {mem} /\ UNCHANGED <<mem, log>>

(* Mutant: the last entry is not written. *)
SnapshotsShortByOne(m) ==
    {[i \in 1 .. Cardinality(Live(m)) - 1 |-> [key |-> order[i], loc |-> m[order[i]]]] :
        order \in Bijection(1 .. Cardinality(Live(m)), Live(m))}

(* One record per live key of m, in the map's unspecified order. *)
Snapshots(m) ==
    {[i \in 1 .. Cardinality(Live(m)) |-> [key |-> order[i], loc |-> m[order[i]]]] :
        order \in Bijection(1 .. Cardinality(Live(m)), Live(m))}

(* Mutant: INDEX.tmp is renamed without an fsync. *)
IndexCompactUnsynced ==
    log' \in Snapshots(mem) /\ logSynced' = 0 /\ past' = {mem} /\ UNCHANGED mem

(* IndexManager::compact: INDEX.tmp is fsynced, then renamed over INDEX. *)
IndexCompact ==
    /\ log' \in Snapshots(mem)
    /\ logSynced' = Len(log')
    /\ past' = {mem}
    /\ UNCHANGED mem

-----------------------------------------------------------------------------
(* IndexManager::loadIndexIntoMemory *)

(* What replaying the records of l leaves for k: its last record. *)
Resolves(l, k, loc) ==
    \/ loc = NoLoc /\ \A i \in DOMAIN l : l[i].key # k
    \/ \E i \in DOMAIN l : /\ l[i] = [key |-> k, loc |-> loc]
                           /\ \A j \in DOMAIN l : j > i => l[j].key # k

Loads(l, m) == \A k \in Keys : Resolves(l, k, m[k])

Loaded(l) == {m \in [Keys -> {l[i].loc : i \in DOMAIN l} \cup {NoLoc}] : Loads(l, m)}

(* The files a crash may leave: an unreadable last record is truncated. *)
CrashLogs == {SubSeq(log, 1, n) : n \in logSynced .. Len(log)}

(* The constructor after a crash, when its compaction fails or succeeds. *)
IndexCrash ==
    \E l \in CrashLogs : \E m \in Loaded(l) :
        /\ mem' = m
        /\ log' \in {l} \cup Snapshots(m)
        /\ logSynced' = Len(log')
        /\ past' = {m}

IndexNext ==
    \/ \E k \in Keys, loc \in Location : Insert(k, loc)
    \/ \E k \in Keys : Tombstone(k)
    \/ IndexFlush
    \/ IndexCompact
    \/ IndexCrash

IndexSpec == IndexInit /\ [][IndexNext]_indexVars

-----------------------------------------------------------------------------
(* Properties *)

IndexTypeOK ==
    /\ mem \in [Keys -> Location \cup {NoLoc}]
    /\ log \in Seq(Record)
    /\ logSynced \in 0 .. Len(log)

(***************************************************************************)
(* The INDEX file and memoryTree never drift apart: loading the file as it *)
(* is now gives the map in memory, after any sequence of inserts,          *)
(* tombstones, compactions and restarts.  A clean restart is exact.        *)
(***************************************************************************)
LogMatchesMemory == Loads(log, mem)

(***************************************************************************)
(* A crash takes the index back in time, never to a mixture: whatever part *)
(* of the unsynced tail of INDEX survives, loading it gives, for all keys  *)
(* together, a map that was in memory since the last sync.                 *)
(***************************************************************************)
CrashIsPointInTime == \A l \in CrashLogs : \E m \in past : Loads(l, m)

(* The inductive invariant of the index. *)
IndexInv == IndexTypeOK /\ LogMatchesMemory /\ CrashIsPointInTime
    /\ mem \in past /\ past \subseteq [Keys -> Location \cup {NoLoc}]
=============================================================================
