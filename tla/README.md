# ZestDB: a TLA+ verification project

ZestDB is a key-value server. Clients send batches of commands over TCP; keys are hashed over 32
shards; each shard keeps its values in segment files, their locations in an INDEX file and a hash
map, recent values in an LRU cache, and its writes in a write-ahead log (WAL). The questions this
project asks are the ones a test of the code hardly reaches: what is on disk when the process dies
between two steps, which steps of sessions, flush thread and compactors can overlap, and whether an
acknowledged write is still there afterwards.

Paths below are relative to the repository; `Shard.cpp:145` means `src/Shard.cpp`, line 145.

## 1. Inventory

| Component | State | Operations | Interacts with |
|---|---|---|---|
| `DataSegment`, `StorageManager` | one open file per segment, its write position and dirty flag; the latest segment id | append (latest segment, else a new one, one retry in another new one), read, contains, flush (fsync), removeUnusedSegments, boot | called by `Shard` under `readMtx`; own mutexes |
| `IndexManager` | `memoryTree`, the INDEX file (an append-only log), dirty flag | insert, update (tombstone), search, getAll, findMatching, flush, compact (INDEX.tmp, fsync, rename), load | called by `Shard` under `readMtx` |
| `LRUCache` | `map`, `lru_list`, capacity | get, put, remove, resize | called by `Shard`; own mutex, so shared-lock readers may fill it |
| `Shard` | the three above, `readMtx`, the compactor thread, `compactionMutex` | get, set, del, getBy, setBy, delBy, flushData, compactSegments, verifyIndexEntries, fillCache, reloadSettings, stop | thread pool tasks, sessions, compactor |
| `WAL` | the log file, process-wide `nextSeq`, `dirty`, `canClear` | append, sync, clear, getCmds, advanceSequence | one per shard |
| `ShardManager` | shards, thread pool | routing, getBy/setBy/delBy over all shards, flush then clearAllWAL, replayAllWAL, syncWAL | `ZestDB` |
| `ZestDB` | `writeMtx`, settings, users, `replaying`, flush, save and HTTP threads | execCmd, flush, replayWAL, createArchive, authentication, configuration | sessions, console |
| `Server`, `Session` | streams, buffers, write queue, deadlines, connection count, a session's role | read size, read batch, execute, syncWAL once per batch, queue the reply, deadlines | `ZestDB` |
| `ThreadPool`, `Settings`, `PerfMonitoring`, `Logger`, `main` | queue; values; counters; a file | helpers | all |

What is hard: crashes between two files that are only ordered by an fsync at the end (`Shard.cpp:150`,
`Shard.cpp:410`), a lock taken shared by writers (`ZestDB.cpp:954`) so that apply and log are two steps,
group commit (`Server.cpp:150`), a flush that clears logs after the shards flushed in parallel, one of
which may fail (`ShardManager.cpp:163`), and a restart that serves clients while it replays
(`ZestDB.cpp:87`); tasks and wake-ups of a pool every bulk command waits for (`ThreadPool.cpp:20`), a limit that the
tasks of all shards share (`Shard.cpp:294`), asynchronous reads, writes and timers of a session that complete in any
order (`Server.cpp:64`), checks that are stale when used (`Server.cpp:167`), and an archive copied beside all of it
(`ZestDB.cpp:500`). `PROJECT.json` lists each of these hazards at its line with the properties aimed at it.

What makes each part correct: values never share bytes and stay where the index says (segments); file and
map agree, and a crash is a step back in time (index); recency order (cache); exact reads, no dangling
entry, bounded loss, space reclaimed (shard); acknowledged writes survive but for named causes, logs are cleared only when
useless, the recovery ends (WAL, ShardManager, ZestDB); limits hold over all shards and every bulk command ends
(ShardManager, ThreadPool); the lock-out overshoots by at most one attempt per session and a role
change misses at most one command of each, no reply is stuck, every session ends
(sessions); an archive restores one instant and leaves nothing paused (archive); settings never contradict one
another and, once saved, are what a restart loads (configuration).

## 2. Modules

    Locations ---- Segments --------.                    DurableMap (abstract)
        |   `----- IndexLog ---------+--- Shard  --implements-->  |
        `--------- LRUCache --------'                             | extended by
                      `---- Recency                           Durability
    ThreadPool ---- Bulk                Sessions      Archive      Config
    X_proofs: the theorems about X (LRUCache with Recency, Shard, Durability, Bulk,
    Sessions, Archive, Config); Storage_proofs: those about Segments and IndexLog
    MCParts (Segments, IndexLog, Recency, Config), MCSentences (IndexLog, Config),
    MCShard, MCDurability, MCCauses (Durability), MCBulk, MCSessions, MCArchive: instances for TLC

**Locations** fixes keys, values with a size in bytes, and the location `(seg, off, size)` of a value.
A value is atomic: only its size matters to the segments.

**Segments** (`StorageManager`, `DataSegment`). `len[s]` is `currentOffset`, `synced[s]` the bytes the last
fsync covered, `ext` the extents written. `AppendValue(v, fails)` is the whole of `StorageManager::append`:
latest segment or the next, `fails` refused writes, the one retry, the ids consumed even when nothing is
written. A refused write leaves no trace, as the code reseeks before the next one. `SegCrash(cut)` keeps any
prefix between `synced` and `len` of each file, then boots: `Reopened` puts the write position at the end of
the file, `LatestOf` takes the largest id.

**IndexLog** (`IndexManager`). `mem` is `memoryTree`, `log` the records of INDEX. `IndexCompact` writes one record per
live key in any order (an `unordered_map`), fsynced, renamed. `IndexCrash` is a crash and the constructor:
some prefix of the log not shorter than what was synced is loaded, a torn record truncated, and the log
compacted (or not, when that fails). `past` is a history variable: the maps in memory since the last sync.
`InsertUnwritten` is an insert whose record a full disk refuses, which `append` does not notice; it is no part of `IndexNext`
and of what is proved, **MCSentences** adds it.

**LRUCache** is the list and the map. **Recency** adds a history variable, `newer`: which key was used after which.
It models no code; it is what the choice of the key to evict is judged by.

**Shard** composes the three under `readMtx`. `job` is what the exclusive holder is in the middle of, `rd[r]` what a
reader inside `Shard::get` has read and not yet cached. Loops (`setBy`, `delBy`, `compactSegments`,
`verifyIndexEntries`) take one step per key, so that a crash can fall between any two; nobody else may take
the lock meanwhile. `Crash` is the death of the process or the machine followed by `Shard::boot` up to the
verification pass. Then `fillCache` lists entries (`FillBegin`) and reads them one by one (`FillCache`) without the
lock, while the compactor, which runs by then, may move and remove what they point at; callers wait for `Booted`. `hist`, `written`, `movedKeys`, `unverified` are history variables. `stop` is `flushData` and a
restart.

**DurableMap** is what a shard promises by itself: exact reads; a crash may take a key back to a value it had since
the last completed flush, and may lose a key altogether if it was given a new location since (`exposed`).
`Shard!KeepsPromise` is the refinement `kv <- GetResult`, `exposed <- written \cup movedKeys`.

**Durability** builds on that promise: `Apply` is `execCmd` up to the effect on the shard, `Log` its end
(`WAL::append` when `replaying` is not set), `Acknowledge`/`SyncFails` the group commit at the end of
`Session::do_read_command`; `FlushBegin`, `FlushShard` (succeeds or fails, shards in any order),
`FlushKeepsWAL`, `ClearBegin`, `ClearWAL` are `ZestDB::flush` and `ShardManager::flush`; `Restart` is a crash and the
restart up to the sorted list of WAL entries, `Replay` executes the next of them, and the flush that ends
`replayAllWAL` is the same `FlushBegin` ... without the lock. `writeMtx` is `SharedLockFree` and the guard of
`FlushBegin`. Commands are `set`, `del`, and `setby` and `delby` with and without a limit; a `setby` may be refused some of its keys.
`tail[k]` is a history variable: the writes of `k` from the last-applied acknowledged one on,
each with its place in the order of application.

*Causes.* The code lets things happen that cost acknowledged writes, and the model has all of them in every run. `risk[k]` is a
history variable: which of them happened to `k` since the last flush that ended and cleared the WALs. `AckedSurvive` is about
the keys nothing happened to, at each instant; the other keys of the same run may be hit. The causes are `race` (two sessions
write the key at the same time), `early` (it is written before `replayWAL` is over), `torn` (its record is behind a cut one),
`refused` (its replay is refused), `overwrite` and `move` (a crash leaves the INDEX record of an overwrite not yet acknowledged,
or of a value the compactor moves, and not the value), `pattern` and `limit` (a command on a pattern is given, without or with a
limit; this counts for all keys, as its replay may concern any). That each is needed is shown by the run
`durability_causes` of **MCCauses**: one database for each cause, to which nothing else of them happens, and the next one's turn
only once an acknowledged write is lost. `exposed` is DurableMap's: a crash of Durability may lose every key that has a new
location, by a write or by `Relocate`, exactly as Shard's may.

**ThreadPool** is the queue and the workers' states. The critical section of `enqueue` and its `notify_one` are two
steps, as the code releases the mutex in between; a sleeping worker may wake by itself. **Bulk** extends it with
`getBy`, `setBy` and `delBy` of ShardManager and Shard: `Enqueue`/`Notify` per shard, `Collected` once the futures are ready.
A `getBy` task holds its shard's lock shared from `LookUp` to its end and counts with `fetch_add` (`Visit`) and `fetch_sub`
(`UndoCount`); an entry that cannot be read stays counted and is not returned. A limited `setBy` or `delBy` collects the
smallest keys and applies them one by one without a lock (`ApplyOne`), where a set may be refused and a key be gone; a
`setBy` without a limit skips the keys whose value cannot be appended (`BulkWrite`). `failed` is a history variable: the keys a
command chose and could not read or write. A shard is the set of its keys that are present. `seen` is a history variable: what was present all the
time, and at some time, since the command was given.

**Sessions** is `Session` and `Server` with asio's contract: an operation waits, the system completes it, its
handler is queued and then run, the handlers of one session one at a time. A handler is one step, except that a
batch stops between the critical sections of ZestDB (`authAllowed`, `authenticate`, `recordAuthResult`, `roleOf`,
`execCmd`), where sessions and a reload meet. `close_stream` cancels what waits and not what is queued. There is one
user; messages have no contents.

**Archive** is `createArchive` beside the shards, each seen from one key: an INDEX, one segment per value and a WAL,
of which any prefix beyond the last flush may be in the file. Under `writeMtx` the flush (which may fail in any set
of shards), the sizes and the WAL copies are one step, as writers are kept out; then every file is copied in a step
of its own. `must` is a history variable: what the archive has to restore. The folder is a set of archives in the order of
their names, two of one second sharing one; removing an old one may fail unnoticed (`stuck`), and an archive that lacks a file
stays where it is.

**Config** is `config.yaml`, the settings of ZestDB and those of the shards, through `loadConfig`, `setConfig`, `scfg`, `reload`,
edits by hand and restarts. It keeps the fields that constrain one another. The text of the file is a mapping, empty (it loads
as the defaults without users, and a save into it throws) or not YAML. `setConfig` does not look at its stream: `scfg` may succeed
with the file not written or left empty, and a crash may leave it empty. `edited` and `lost` are history variables: the
sections edited by hand, and those a save has lost.

Operators commented `Mutant:` are wrong versions of the definition below them. No specification uses them;
replacing the definition by one must violate the property `PROJECT.json` pairs it with.

## 3. What the runs show

| Run | Instance | Shows |
|---|---|---|
| `parts` | segments: 3 values of sizes 1..3, 3 segments, SegSize 2 or 3 and changing, up to 2 refused writes; index: 2 keys, 2 locations, 4 records; cache: 3 keys, 3 values and an unreadable one, capacities 0..3; settings: sizes 1..3, broken, empty and refused files, saves that fail. The parts take no steps together | `ExtentsApart`, `NextIdsFresh`, `ValuesStay`; `LogMatchesMemory`, `CrashIsPointInTime`; `ListMatchesMap`, `EvictsOldest`, `KeepsWhatFits`; `SettingsSane`, `RestartKeeps`, `AcceptedFits` |
| `shard` | 2 keys, 2 values, 2 segments; either one reader, refused writes, SegSize and CacheSize changing, and no crash, or crashes at every step, a cache of 1, the compactor during `fillCache`, and no reader and no reload | `CacheCoherent`, `EntriesReadable`, `KeepsPromise`, `CompactionReclaims`, while it is up and after boots |
| `durability` | 2 keys in 2 shards, 2 sessions, 2 values, `set`, `del`, `setby` and a `delby` of limit 1, 2 writes, 2 crashes, compactors | `AckedSurvive` of the keys nothing happened to, `SeqsIncrease`, `ClearedIsDurable` |
| `durability_live` | 1 key, 1 value, 2 sessions, `set` and `setby`, 2 writes, 2 crashes, compactors | `ComesUp`, `BatchesEnd` |
| `bulk` | 3 keys in 2 shards, 2 workers, a client with a `getby` or `setby` of limit 2, a `delby` of limit 1 or a `setby` without one, another with a `delby`, one write of another session | `LimitIsGlobal`: a limit is not exceeded, and wasted only on an entry that cannot be read or written; `TasksConserved`, `NoLostWakeUp`, `BulkEnds`, `PoolEnds`: no task and no wake-up is lost |
| `sessions` | 2 sessions at a time, 3 in all, batches of 2, one failure allowed, one reload, stop at any time; one of the connections fails, times out or goes silent | `FailuresBounded`, `ReloadApplies`: what a check and its use may be apart; `RepliesMove`, `SessionsEnd` |
| `archive` | 2 shards, 2 writes, one compaction, one archive, retention 1, a folder with a whole and an incomplete archive, removals that fail | `ArchivesExact`, `RetentionKeeps`; `WholeOneStays`: retention takes a whole archive only when a newer whole one was made; `ArchiveEnds`, `CompactionResumes` |

*Findings* (runs expected to be violated; the counterexample is the argument):

- `shard_relocation` - the compactor indexes a moved value before either file is flushed. A crash with the
  INDEX record on disk and the value not loses a value that was flushed long ago; its old copy is still in
  the old segment and unreachable. Flushing the segments before inserting the records would do.
- `shard_recrash` - the tombstones of the boot-time verification are not flushed, and the constructor's
  compaction has just made the dangling records permanent. After a second crash a removed entry is back and
  points into bytes written since: `get` answers with parts of other values. The passing runs exclude a crash
  in that window (`CrashAfterVerify = FALSE`).
- `durability_causes` - acknowledged writes are lost in eight ways, each by itself; one counterexample goes through all of them,
  a new database for each:
  - `race`: apply and log are two steps under a shared lock; two sessions writing one key can be applied in one order and logged
    in the other.
  - `early`: a write accepted during the replay is acknowledged and not logged.
  - `overwrite`: an overwrite not yet acknowledged leaves its INDEX record and not its value; the acknowledged value before it
    was flushed and is no longer in the WAL.
  - `move`: the same of a value the compactor moved: the loss of `shard_relocation`, seen from the client.
  - `torn`: a cut record stays in the WAL and hides the acknowledged ones behind it.
  - `refused`: a set whose replay fails is only reported, and its record cleared.
  - `pattern`: WALs are cleared one by one and a `delby` is logged in the shard of its mode word: a crash in between replays it
    over a key whose later, acknowledged `set` has been cleared.
  - `limit`: a `delby` with a limit, replayed over another state than the one it was executed on, takes other keys.
- `bulk_deleted` - a limited `setby` chooses its keys, gives the locks back and sets them one by one: a key deleted meanwhile
  comes back.
- `parts_sentences` - three sentences on what is stored do not hold; one counterexample contradicts them in turn:
  - "A `set` appends the new entry" (line 57, `FlushedIsLogged`): an INDEX record that a full disk refused is forgotten by the
    next append; a flush then succeeds, and the WALs are cleared, with the key missing from the INDEX.
  - `scfg` persists (line 100, `ScfgPersists`): it answers success although `config.yaml` was not written, or was left empty; a
    restart does not have the setting.
  - a value fits a segment (line 205, `ShardsFit`): `scfg` assigns a setting, throws when it saves the file, and does not tell
    the shards: ZestDB then accepts values no segment of a shard can hold. `AcceptedFits` of the passing run says that it happens
    in no other way.

Three sentences of the repository's README differ from the code without a run of their own: replay sorts by sequence number, not
timestamp (line 69); the cache is warmed in the hash map's order, not with "the most recently stored
entries" (line 62); and retention counts archives that lack a file, so that one of them may push out a whole one (lines 103 and
107). `WholeOneStays` says how far the last goes: retention
removes a whole archive only when a newer whole one has just been made, so the last one is lost only to an archive of the same
second that takes its name.

**Bounds.** `MaxSeg`, `MaxLog`, `MaxWrites`, `MaxCrashes` stop the system (hence `CHECK_DEADLOCK FALSE` in the shard's
runs; in the archive's and the sessions' the end of calls and connections is a state where nothing need happen). Two segments are enough for a value to be moved from one to the other and the first to be removed, three
for a refused write to open two; two sizes in a segment of three bytes reach exactly full, one byte left, and
too long; three records are two keys and an overwrite, the shortest log a compaction shortens. Two writes,
one flush and two crashes are more than each of the findings on acknowledged writes needs, but for the cause `limit`, which
has a third write; so `durability` would meet such an order without its cause.
Three keys in two shards make a limit end on a shard boundary and inside a shard; two tasks per command and two workers
let a worker sleep while the other finds the queue refilled. Two sessions are enough to pass the lock-out check together
and a batch of two commands for a role to go stale inside it; only one connection misbehaves, the other shows that this
does not depend on the first. One write before and one after the snapshot, with a compaction on either side of it, are
what an inexact copy needs.
Symmetry is over keys, or sessions and values, in safety runs only.

**Crash images.** Of each file, any prefix between the last fsync and what was written; files are
independent; creating, renaming and removing are immediate. Bytes that survived a crash count as on disk.
With `fsyncOnWrite` off, `WAL::sync` only hands the records to the system: read `Restart` then as a crash of the
process. An acknowledged write may then be lost in a power failure, which the setting announces.

**Fairness** (`FairSpec`). Weak fairness for what a running thread does next: the end of a command that holds
`writeMtx`, the end of a batch, the next replay entry, the flush after the replay, and a flush once begun.
These threads wait for nothing but each other. Clients need not write and flushes need not begin.
In `BulkSpec` each client's thread, each worker and the destructor run when they can. In `SessionsSpec` queued handlers
run and timers expire; nothing is assumed of the client, which may send and read nothing, but for the short refusal
an address that is not allowed is sent before any timer is set. In `ArchiveSpec` the archive and the compactors run, and a
compactor that finds its lock free gets it; `std::shared_mutex` promises no turn against readers without end, for which
the bounds stand.

## 4. What is proved

With TLAPS, for every value of the constants that the named assumptions of the modules allow. Each invariant is
proved from an inductive one, which stands at the end of the module it is about and which TLC checked first; the
proofs have one lemma per action.

| Theorem | States | Along which argument |
|---|---|---|
| `SegmentsSound`, `SegmentsTyped`, `SegmentIdsFresh` | `ExtentsApart`, `SegTypeOK`, `NextIdsFresh` | `SegInv` adds `synced[s] <= len[s]`. `ExtentsApart` is not inductive alone: that a fresh segment starts empty is `NextIdsFresh`, which needs `latest` to bound the open ids (`AppendTarget`), or a new id could reopen an old file |
| `SegmentsKeepValues` | `ValuesStay` (an action property) | from the same invariant |
| `IndexSound`, `IndexTyped`, `IndexMatchesLog` | `CrashIsPointInTime`, `IndexTypeOK` (a part of `ShardTypeOK`), `LogMatchesMemory` | `IndexInv` adds that the present map is among `past`. The lemmas say what appending a record does to the map a log loads into, that a log loads into one map only, and that a snapshot loads back |
| `CacheListMatchesMap`, `CacheKeepsWhatFits` | `ListMatchesMap`, `KeepsWhatFits` (an action property) | `CacheInv`; the lemmas are about a list without repetitions from which one element is erased or the tail cut off |
| `CacheEvictsOldest` | `EvictsOldest` (an action property) | `RecencyInv` adds that the list is sorted by last use: erasing and cutting keep it sorted, a key moved to the front becomes the newest, and a key asked for in vain or put into a cache of capacity 0 is not in the list |
| `SettingsAlwaysSane`, `SettingsSurviveRestart`, `AcceptedValuesFit` | `SettingsSane`, `RestartKeeps`, `AcceptedFits` | `ConfigInv`: settings in memory passed the checks of a load, and the copies differ only after an `scfg` that failed |
| `ShardTyped`, `ShardReadsExact`, `ShardEntriesReadable` | `ShardTypeOK`, `CacheCoherent`, `EntriesReadable` | `ShardInv`: the invariants of the three parts; every map a crash may bring back names for each key a value of `hist`, or one whose loss `hist` allows (`PastSafe`); boot has exactly the dangling entries still to remove and nothing cached (`VerifySafe`); what `fillCache` is about to read is the key's value, or its segment is gone (`FillSafe`); no reader is beside the holder of `readMtx` (`LockSafe`) |
| `ShardKeepsPromise` | `KeepsPromise`, the refinement of DurableMap | every step of a shard is a step of the map or a stutter: writes change one key, flushes forget, compaction and cache change nothing, a crash brings back what `hist` allows |
| `ShardCompactionReclaims` | `CompactionReclaims` (an action property) | `ReclaimSafe`: a live key in an older segment is still to be moved, or its segment was half alive and nothing is taken from it. The threshold adds up sizes over a set of entries; the proof needs only that it is the same sum while the set is the same, so no induction over the set |
| `DurabilityTyped`, `SeqsAlwaysIncrease` | `TypeOK` (in no run of its own), `SeqsIncrease` | directly inductive; sorting is a set of bijections, so that no recursion is needed |
| `WALClearedWhenDurable` | `ClearedIsDurable` (an action property) | a flush keeps writers out, so what a shard has flushed is all it has until the clear, though the compactor may move it (`FlushSafe`) |
| `AckedWritesSurvive` | `AckedSurvive` | `DurabilityInv`, below |
| `LockoutIsBounded`, `ReloadsApply`, `RepliesAlwaysMove` | `FailuresBounded`, `ReloadApplies`, `RepliesMove` | `SessionsInv`: while the lock-out is on, the failures and the attempts under way together stay within the bound (`LockoutHolds`); a session about to act with a role that a reload has taken away has not done so yet (`OldRoleUnused`) |
| `NewestArchivesKept` | `RetentionKeeps` | `FolderInv` is inductive by itself: the names after `n` in the folder are among `n + 1 .. named`, so one of the last names is never among those to go; what stays beyond them is marked `stuck` or has an incomplete one after it |
| `LastWholeArchiveStays` | `WholeOneStays` (an action property) | only `MakeZip` removes archives, and the one it has just made is whole and among those that stay |
| `ArchivesRestore` | `ArchivesExact` | `ArchiveInv`, below |
| `TasksNeverLost`, `LimitsHoldGlobally`, `WakeUpsNeverLost` | `TasksConserved`, `LimitIsGlobal`, `NoLostWakeUp` | `BulkInv`, below (`BulkAlwaysSafe`) |

*`DurabilityInv`.* For each key with `risk[k] = {}`: the record with which a replay of any crash image of the WAL would end is of a
write `AckedSurvive` allows, that is of `tail[k]` (`LogSafe`); where a crash may leave no record, every value the disk
may have is of such a write (`DiskSafe`); a key that a crash may lose altogether has a record no crash can take, or a write over
its last acknowledged one, whose loss would be the cause `overwrite`, or was moved (`LossSafe`); a replay under way ends with
the last record, or has nothing to do for the key and its value is the only one on disk (`ReplaySafe`). What lets each hand
over to the next: a write that is applied and not logged or synced is newer than every record (`CmdSafe`, `Awaits`), a flush keeps
writers out, so that what it has flushed stays flushed until the WALs are cleared (`FlushSafe`), and nothing is logged during a
replay (`Quiet`). Writes are numbered in the order of application (`Numbered`). A key is in no danger only while no
command on a pattern is in a WAL (`NoPattern`), so that the records of a key are all in its own WAL. Every other key may be
in any of the dangers meanwhile: the invariant speaks of one key at a time.

*`ArchiveInv`.* For each shard of the snapshot, `RestoredToBe`, what the image would restore if the files still
to copy were copied now, is among the values `must` allows. Commands only append behind the listed sizes and
open segments that are not listed; a compactor would break it and is paused; copying a file leaves it as it is;
once nothing is left to copy it is what the archive restores. That the snapshot establishes it needs, of every
shard, that a value is in the WAL or forced into the files unless it was moved (`Sound`), and that there
is a segment id left for each write and each compaction under way (`Room`).

*`BulkInv`.* A task that was handed over and has no result is in the queue once or with one worker, and nothing else is
in either (`QueueSafe`, `NoneLost`). A queue that is not empty has somebody to look at it: a worker that does not sleep,
or the `enqueue` that is about to notify (`SleepSafe`); a worker falls asleep only over an empty queue, and leaves only
when the pool stops. From these it follows that a command that waits has somebody awake.
For the limit: `globalMatchCount` is the number of entries returned or found unreadable plus the number of workers about to take one back,
of which there are none before the limit is reached (`CountSafe`), so the overshoot of `fetch_add` never makes another
shard give up too early. A key that could not be read or written is one of those chosen (`FailedInv`). Each key found belongs to a shard that is done or being visited (`ChosenSafe`), was present at
some time (`SeenSafe`), and a key that was present all the time is found or still to be visited unless there is enough
(`GatherSafe`). A limited `setBy` or `delBy` has the smallest keys of each shard (`CollectSafe`), and the smallest of
their union are the smallest of all. That a finite set has a part of a given size below the rest is the one
place that needs induction; it goes by the least counterexample, from the library's theorem that `<` on the naturals is
well-founded.

Assumptions of single theorems, beside the modules' own:

- Shard's theorems but `ShardCompactionReclaims` have `~CrashAfterVerify`: no crash between a boot that dropped entries
  and the next sync of the INDEX. The run `shard_recrash` shows that reads are not exact without it.

Durability's theorems have no hypotheses: every command, crash and failure of the model is in them, and what `AckedWritesSurvive`
exempts is in the property, per key.

The modules' assumptions: sizes are positive (`ZestDB::set` refuses an empty value), SegSizes do not exceed
`MaxSegSize`, at most two writes of an append are refused, keys and session slots are finitely many, a load
does not refuse the defaults, the pool has finitely many threads and at least one (`ShardManager.cpp:17`), every key has a
shard, and the markers are no values. The bounds on writes, crashes, records, segments and calls are
constants: the theorems hold for each value of them.

Every invariant and every action property of the passing runs is stated by a theorem. Model-checked only is liveness
(`ComesUp`, `BatchesEnd`, `BulkEnds`, `PoolEnds`, `SessionsEnd`, `ArchiveEnds`, `CompactionResumes`): fairness is out of the prover's reach. Of
`BulkEnds` and `PoolEnds` the safety part, that no wake-up is lost, is `WakeUpsNeverLost`. The findings are counterexamples
and need no proof.

## 5. Not modelled

Left out:

- `src/lib` (json, httplib, node: 64 000 of the repository's 68 000 lines of C++) is third-party code; the
  modules cover about 60% of the project's own 3 600 lines that are not blank. Most of the rest is headers,
  argument checks and messages.
- The logger, the performance counters and the HTTP endpoint that shows them, the console in `main`: output that
  nothing of the above reads.
- Validation of keys, values and patterns, the parsing of commands, of YAML and of numbers: functions on strings
  without state.
- `ThreadPool::waitAll`: no part of the program calls it.

Simplified:

- An INDEX record that the stream refuses (`IndexManager.cpp:73`) is in MCSentences only, as a record that is missing; one of
  which a part was written would also cut off the records behind it. Segments and WAL have their failed writes.
- `StorageManager::read` takes no lock, so at boot `fillCache` reads the map of segments while the compactor may change
  it. The model has the interleavings of whole reads, and a crash at any step; not what a torn map might return.
- A client's `flush` or `save` before the replay is over; a command logged in the instant before `replaying` is set
  (`ZestDB.cpp:87`).
- In Durability a `setby` or `delby` is one step, as is what it writes to each shard (Bulk and Shard have the steps), a pattern
  matches every key, and a limit is 1. `ClearedIsDurable` is about every key, so it covers records of pattern commands, which are
  in the WAL of another shard than their keys.
- Shard's `Relocate` leaves an entry that points at bytes of other values where it is, while `compactSegments` moves any bytes
  that are not empty (`Shard.cpp:136`). Such entries exist in the `CrashAfterVerify` window only.
- The counting of `Shard::setBy` and `delBy` (`Shard.cpp:327`, `Shard.cpp:374`) is dead code: ShardManager calls them without a limit.
- Bulk knows no values and lets all keys match.
- Sessions has one user and does not tell the effects of roles apart. README:82 locks a user out after 5 failures;
  `FailuresBounded` is looser than that by one for each session but the first, as the code is. The TLS handshake is part of `Start`.
- Archive keeps one key per shard; an archive made while the flush fails is held to exactness only if every
  command had been synced and no value was moved since the last flush.
- Config: a file that a full disk or a crash cuts short is empty; a part of a YAML file, which may load as other settings, is
  not told apart.
