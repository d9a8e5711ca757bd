------------------------------ MODULE Archive ------------------------------
(***************************************************************************)
(* ZestDB::createArchive beside the commands, the background flush and the *)
(* compactors of the shards: which bytes of which files end up in an       *)
(* archive, and what a database started from them holds.                   *)
(*                                                                         *)
(* The shards are those of module Shard, seen from one key each: an INDEX  *)
(* whose last record names the segment of the value, segments, filled up   *)
(* by other keys after each value, and a WAL.  A file grows at its end; of *)
(* what no flush has forced out, any prefix may be in the file.            *)
(***************************************************************************)
EXTENDS Naturals, Sequences, SequencesExt, FiniteSets

CONSTANTS
    NumShards,
    Retention,     \* ArchiveRetention
    MaxWrites,     \* bound: commands that write
    MaxCompactions,\* bound: compactions, of all shards
    MaxArchives    \* bound: calls of createArchive

Shards == 1 .. NumShards

SegIds == 1 .. MaxWrites + MaxCompactions

ASSUME ArchiveAssumption ==
    NumShards \in Nat \ {0} /\ {Retention, MaxWrites, MaxCompactions, MaxArchives} \subseteq Nat

VARIABLES
    shard,       \* shard[s], see NewShard
    compactor,   \* compactor[s]: "idle", "waiting" for compactionMtx or "holding" it
    arch,        \* the createArchive that has set archiving, see NoArchive
    image,       \* the .snapshot folder
    folder,      \* the archives, see Archived
    named,       \* history: how many names have been given
    writes, compactions, calls

bounds == <<writes, compactions, calls>>
vars == <<shard, compactor, arch, image, folder, named, bounds>>

(***************************************************************************)
(* idx, seg, wal: what the process has written to the INDEX, to each       *)
(* segment (0 when there is no such file) and to the WAL; fidx, fseg,      *)
(* fwal: how much of it a flush or a sync has forced into the files;       *)
(* moved: history, the compactor has moved the value since the last flush. *)
(***************************************************************************)
NewShard ==
    [idx |-> <<>>, fidx |-> 0, seg |-> [i \in SegIds |-> 0], fseg |-> {}, wal |-> <<>>, fwal |-> 0,
     moved |-> FALSE]

Files(sh) == {i \in SegIds : sh.seg[i] # 0}

(* The value a shard holds, 0 for none. *)
Held(sh) == IF sh.idx = <<>> THEN 0 ELSE sh.seg[Last(sh.idx)]

(* paused: the shards whose compactionMtx is held shared; size: the sizes  *)
(* of toCopy, segs the segments with the value in them; left: the files of *)
(* it still to copy, <<shard, 0>> an INDEX; must: history, what each shard *)
(* may hold once restored.                                                 *)
NoArchive == [pc |-> "none", paused |-> {}, size |-> <<>>, left |-> {}, must |-> <<>>]

EmptyImage == [idx |-> [s \in Shards |-> <<>>], seg |-> [s \in Shards |-> [i \in SegIds |-> 0]],
               wal |-> [s \in Shards |-> <<>>]]

(***************************************************************************)
(* name: the place in the order of the names; whole: it lacks no file;     *)
(* history, exact: it restores what it must; stuck: it could not be        *)
(* removed when its time had come.                                         *)
(***************************************************************************)
Archived(n, whole, exact) == [name |-> n, whole |-> whole, exact |-> exact, stuck |-> FALSE]

(* What earlier runs have left: an archive, and one that lacks a file. *)
OldFolder == {Archived(1, TRUE, TRUE), Archived(2, FALSE, FALSE)}

ArchiveInit ==
    /\ shard = [s \in Shards |-> NewShard]
    /\ compactor = [s \in Shards |-> "idle"]
    /\ arch = NoArchive /\ image = EmptyImage
    /\ folder = OldFolder /\ named = 2
    /\ writes = 0 /\ compactions = 0 /\ calls = 0

-----------------------------------------------------------------------------
(* The shards *)

(* StorageManager::append, then IndexManager::insert. *)
AppendTo(sh, v) ==
    LET i == IF sh.idx = <<>> THEN 1 ELSE Last(sh.idx) + 1
    IN [sh EXCEPT !.seg[i] = v, !.idx = Append(@, i)]

(* A command is applied, then logged. *)
Written(sh, v) == [AppendTo(sh, v) EXCEPT !.wal = Append(@, v)]

(***************************************************************************)
(* A command that writes: applied and logged under writeMtx shared, which  *)
(* keeps flushes and snapshots out, and what else goes on meanwhile does   *)
(* not look at the WAL (module Durability has the steps).                  *)
(***************************************************************************)
Write(s) ==
    /\ writes < MaxWrites                                  \* bound
    /\ compactor[s] # "holding"
    /\ writes' = writes + 1
    /\ shard' = [shard EXCEPT ![s] = Written(@, writes + 1)]
    /\ UNCHANGED <<compactor, arch, image, folder, named, compactions, calls>>

(* syncWAL, at the end of the batch. *)
SyncWAL ==
    /\ \E s \in Shards : shard[s].fwal < Len(shard[s].wal)
    /\ shard' = [s \in Shards |-> [shard[s] EXCEPT !.fwal = Len(shard[s].wal)]]
    /\ UNCHANGED <<compactor, arch, image, folder, named, bounds>>

(* flushData, when it succeeds. *)
Flushed(sh) == [sh EXCEPT !.fidx = Len(sh.idx), !.fseg = Files(sh), !.moved = FALSE]

(* ShardManager::flush: the shards of S succeed; all, or no WAL is cleared. *)
FlushShards(S) ==
    [s \in Shards |->
        IF S = Shards THEN [Flushed(shard[s]) EXCEPT !.wal = <<>>, !.fwal = 0]
        ELSE IF s \in S THEN Flushed(shard[s]) ELSE shard[s]]

(* ZestDB::flush has writeMtx to itself. *)
BackgroundFlush ==
    /\ \E S \in SUBSET Shards : shard' = FlushShards(S)
    /\ UNCHANGED <<compactor, arch, image, folder, named, bounds>>

-----------------------------------------------------------------------------
(* The compactors *)

CompactorWakes(s) ==
    /\ compactor[s] = "idle" /\ compactions < MaxCompactions  \* bound
    /\ compactor' = [compactor EXCEPT ![s] = "waiting"]
    /\ compactions' = compactions + 1
    /\ UNCHANGED <<shard, arch, image, folder, named, writes, calls>>

CompactorLocks(s) ==
    /\ compactor[s] = "waiting" /\ s \notin arch.paused
    /\ compactor' = [compactor EXCEPT ![s] = "holding"]
    /\ UNCHANGED <<shard, arch, image, folder, named, bounds>>

(* IndexManager::compact replaces the INDEX file by one that has the live  *)
(* entry only, or fails to;                                                *)
IndexCompacted(sh) == {sh, [sh EXCEPT !.idx = <<Last(@)>>, !.fidx = 1]}

(* the segments without an entry are removed.                              *)
OnlyUsed(sh) == [sh EXCEPT !.seg = [i \in SegIds |-> IF i = Last(sh.idx) THEN @[i] ELSE 0],
                           !.fseg = @ \cap {Last(sh.idx)}]

(* The value is appended once more, and the entry names its new place. *)
Moved(sh) == [AppendTo(sh, Held(sh)) EXCEPT !.moved = TRUE]

(* compactSegments: the value stays, or it is moved, and then flushed      *)
(* before any segment is removed.                                          *)
Compacted(sh) == {OnlyUsed(sh), OnlyUsed(Flushed(Moved(sh))), Moved(sh)}

Compact(s) ==
    /\ compactor[s] = "holding"
    /\ IF shard[s].idx = <<>> THEN UNCHANGED shard
       ELSE \E sh \in UNION {Compacted(c) : c \in IndexCompacted(shard[s])} :
               shard' = [shard EXCEPT ![s] = sh]
    /\ compactor' = [compactor EXCEPT ![s] = "idle"]
    /\ UNCHANGED <<arch, image, folder, named, bounds>>

-----------------------------------------------------------------------------
(* createArchive *)

(* Called by the save thread or for a save command; a call that finds      *)
(* archiving set returns at once.                                          *)
Begin ==
    /\ arch = NoArchive /\ calls < MaxArchives             \* bound
    /\ calls' = calls + 1
    /\ arch' = [NoArchive EXCEPT !.pc = "pause"]
    /\ UNCHANGED <<shard, compactor, image, folder, named, writes, compactions>>

(* pauseCompaction, a shard after the other. *)
PauseCompaction ==
    LET s == Cardinality(arch.paused) + 1 IN
    /\ arch.pc = "pause" /\ compactor[s] # "holding"
    /\ arch' = [arch EXCEPT !.paused = @ \cup {s}, !.pc = IF s = NumShards THEN "snapshot" ELSE @]
    /\ UNCHANGED <<shard, compactor, image, folder, named, bounds>>

(* The end of a call, by any return: the locks and the flag are released. *)
Returned == NoArchive

(* Mutant: an error returns before the flag is reset. *)
FailedFlagSet == [arch EXCEPT !.pc = "stuck", !.paused = {}]

(* Mutant: an error returns and keeps the compactors paused. *)
FailedKeepsPaused == [NoArchive EXCEPT !.paused = arch.paused]

(* An error on the way; what the snapshot folder has is removed. *)
Failed == Returned

Fails ==
    /\ arch' = Failed /\ image' = EmptyImage
    /\ UNCHANGED <<shard, compactor, folder, named, bounds>>

(* What a failed flush and the streams have put into the files by now. *)
SizesNow(sh) == [idx : sh.fidx .. Len(sh.idx), segs : {S \in SUBSET Files(sh) : sh.fseg \subseteq S}]

(***************************************************************************)
(* Under writeMtx: flushLocked, the list of the files with their sizes,    *)
(* and the copy of each WAL.  The archive must restore the values of this  *)
(* instant, unless the flush failed and a command had not been synced yet, *)
(* or a value had been moved that no flush has reached since.              *)
(***************************************************************************)
Snapshot ==
    /\ arch.pc = "snapshot"
    /\ \E S \in SUBSET Shards :
          /\ shard' = FlushShards(S)
          /\ \E size \in [Shards -> UNION {SizesNow(shard'[s]) : s \in Shards}],
                w \in [Shards -> 0 .. MaxWrites] :
                /\ \A s \in Shards : size[s] \in SizesNow(shard'[s])
                /\ \A s \in Shards : shard'[s].fwal <= w[s] /\ w[s] <= Len(shard'[s].wal)
                /\ image' = [EmptyImage EXCEPT !.wal = [s \in Shards |-> SubSeq(shard'[s].wal, 1, w[s])]]
                /\ arch' = [arch EXCEPT
                     !.pc = "copy", !.size = size,
                     !.left = UNION {{<<s, 0>>} \cup {<<s, i>> : i \in Files(shard'[s])} : s \in Shards},
                     !.must = [s \in Shards |->
                                 IF S = Shards \/ (shard'[s].fwal = Len(shard'[s].wal) /\ ~shard'[s].moved)
                                 THEN {Held(shard'[s])} ELSE 0 .. MaxWrites]]
    /\ UNCHANGED <<compactor, folder, named, bounds>>

(* An exception, before or after the flush. *)
SnapshotFails == arch.pc = "snapshot" /\ Fails

(* Mutant: the file is copied to its present end. *)
CopyWhole(l, n) == l

(* copyPrefix. *)
CopyPrefix(l, n) == SubSeq(l, 1, n)

(* One file is copied, while commands and flushes go on; toCopy has the    *)
(* files of a shard's directory together, in no particular order.          *)
CopyFile(s, i) ==
    /\ arch.pc = "copy" /\ <<s, i>> \in arch.left
    /\ \A f \in arch.left : s <= f[1]
    /\ IF i = 0
       THEN /\ arch.size[s].idx <= Len(shard[s].idx)
            /\ image' = [image EXCEPT !.idx[s] = CopyPrefix(shard[s].idx, arch.size[s].idx)]
       ELSE /\ i \in Files(shard[s])
            /\ image' = [image EXCEPT !.seg[s][i] = IF i \in arch.size[s].segs THEN shard[s].seg[i] ELSE 0]
    /\ arch' = [arch EXCEPT !.left = @ \ {<<s, i>>}]
    /\ UNCHANGED <<shard, compactor, folder, named, bounds>>

CopyFails == arch.pc = "copy" /\ arch.left # {} /\ Fails

(* The compactors go on, and the archive is made from the copy. *)
ReleaseCompaction ==
    /\ arch.pc = "copy" /\ arch.left = {}
    /\ arch' = [arch EXCEPT !.pc = "zip", !.paused = {}, !.size = <<>>]
    /\ UNCHANGED <<shard, compactor, image, folder, named, bounds>>

(***************************************************************************)
(* What a database started on image im holds in shard s: the INDEX entry,  *)
(* unless verifyIndexEntries drops it, then the WAL's commands.            *)
(***************************************************************************)
Restored(im, s) ==
    IF im.wal[s] # <<>> THEN Last(im.wal[s])
    ELSE IF im.idx[s] = <<>> THEN 0
    ELSE im.seg[s][Last(im.idx[s])]

(* The name of an archive is the time in seconds: that of the last again,  *)
(* or a later one.                                                         *)
NewNames == {named, named + 1} \ {0}

(* The folder with a new archive; one of the same name is replaced. *)
PutArchive(n, whole, exact) == {a \in folder : a.name # n} \cup {Archived(n, whole, exact)}

(* The names in f that come after n. *)
Newer(f, n) == {m \in {a.name : a \in f} : m > n}

(* Mutant: the archive just made counts twice. *)
RetainOneLess(f) == {a \in f : Retention = 0 \/ Cardinality(Newer(f, a.name)) + 1 < Retention}

(* The oldest archives beyond ArchiveRetention are to go; 0 keeps all. *)
Retain(f) == {a \in f : Retention = 0 \/ Cardinality(Newer(f, a.name)) < Retention}

(***************************************************************************)
(* The archive is made and the old ones removed.  That a removal fails is  *)
(* ignored; when the folder cannot be listed, which comes after the        *)
(* archive was made, none is removed.                                      *)
(***************************************************************************)
MakeZip ==
    /\ arch.pc = "zip"
    /\ named' \in NewNames
    /\ LET f == PutArchive(named', TRUE, \A s \in Shards : Restored(image, s) \in arch.must[s]) IN
       \E K \in SUBSET (f \ Retain(f)) :
          folder' = Retain(f) \cup {[a EXCEPT !.stuck = TRUE] : a \in K}
    /\ arch' = Returned /\ image' = EmptyImage
    /\ UNCHANGED <<shard, compactor, bounds>>

(* Mutant: createArchive goes on when a file cannot be added. *)
ZipLacksFileGoesOn ==
    /\ arch.pc = "zip"
    /\ named' \in NewNames
    /\ folder' = Retain(PutArchive(named', FALSE, FALSE))
    /\ arch' = Returned /\ image' = EmptyImage
    /\ UNCHANGED <<shard, compactor, bounds>>

(* A file cannot be added: close writes an archive that lacks it. *)
ZipLacksFile ==
    /\ arch.pc = "zip"
    /\ named' \in NewNames
    /\ folder' = PutArchive(named', FALSE, FALSE)
    /\ arch' = Failed /\ image' = EmptyImage
    /\ UNCHANGED <<shard, compactor, bounds>>

(* The archive cannot be created, or not be closed. *)
ZipFails == arch.pc = "zip" /\ Fails

ArchiveStep ==
    \/ PauseCompaction \/ Snapshot \/ SnapshotFails \/ CopyFails \/ ReleaseCompaction
    \/ MakeZip \/ ZipLacksFile \/ ZipFails
    \/ \E s \in Shards, i \in SegIds \cup {0} : CopyFile(s, i)

ArchiveNext ==
    \/ Begin \/ ArchiveStep
    \/ SyncWAL \/ BackgroundFlush
    \/ \E s \in Shards : Write(s) \/ CompactorWakes(s) \/ CompactorLocks(s) \/ Compact(s)

(***************************************************************************)
(* Threads run, and a lock that is free is granted.  std::shared_mutex     *)
(* does not promise its writers a turn against readers without end: the    *)
(* bounds stand for an end of them.                                        *)
(***************************************************************************)
ArchiveSpec ==
    /\ ArchiveInit /\ [][ArchiveNext]_vars
    /\ WF_vars(ArchiveStep)
    /\ \A s \in Shards : WF_vars(CompactorLocks(s)) /\ WF_vars(Compact(s))

-----------------------------------------------------------------------------
(* Properties *)

(***************************************************************************)
(* An archive that createArchive reports as made restores the database of  *)
(* one instant, whatever was written, flushed and compacted while its      *)
(* files were copied; when the flush before it failed, through the WALs    *)
(* that were kept.                                                         *)
(***************************************************************************)
ArchivesExact == \A a \in folder : a.whole => a.exact

(***************************************************************************)
(* "ArchiveRetention keeps the N most recent archives and deletes the      *)
(* older ones" (README:107): the newest are there, all of them when it is  *)
(* 0, and beyond them only archives that could not be removed, or that are *)
(* older than one a failed call left incomplete: such a call removes none. *)
(***************************************************************************)
RetentionKeeps ==
    /\ \A n \in 1 .. named : Retention = 0 \/ n + Retention > named => \E a \in folder : a.name = n
    /\ \A a \in folder : Retention # 0 /\ Cardinality(Newer(folder, a.name)) >= Retention =>
          a.stuck \/ \E b \in folder : b.name > a.name /\ ~b.whole

(***************************************************************************)
(* Incomplete archives count for retention, so they push whole ones out;   *)
(* but never the last: a whole archive is removed only when a newer whole  *)
(* one has been made.  It may be replaced by an archive of the same second,*)
(* which has its name.                                                     *)
(***************************************************************************)
GoesForWhole ==
    \A a \in folder : a.whole =>
        \E b \in folder' : b.name >= a.name /\ (b.whole \/ b.name = a.name)

WholeOneStays == [][GoesForWhole]_vars

(* Every call of createArchive ends, so that the next one is not refused. *)
ArchiveEnds == arch.pc # "none" ~> arch.pc = "none"

(* A compactor held up by an archive runs after it, however the call ended. *)
CompactionResumes == \A s \in Shards : compactor[s] = "waiting" ~> compactor[s] = "idle"
-----------------------------------------------------------------------------
(* The inductive invariants *)

ShardType ==
    [idx : Seq(SegIds), fidx : Nat, seg : [SegIds -> 0 .. MaxWrites], fseg : SUBSET SegIds,
     wal : Seq(1 .. MaxWrites), fwal : Nat, moved : BOOLEAN]

(* All a start would need of the value is forced into the files. *)
Forced(sh) == sh.fidx = Len(sh.idx) /\ (sh.idx # <<>> => Last(sh.idx) \in sh.fseg)

(* A value is in the newest segment, and in the WAL or on disk. *)
Sound(sh) ==
    /\ sh \in ShardType /\ sh.fidx <= Len(sh.idx) /\ sh.fwal <= Len(sh.wal)
    /\ sh.idx = <<>> => sh.wal = <<>> /\ Files(sh) = {}
    /\ sh.idx # <<>> => sh.seg[Last(sh.idx)] # 0 /\ \A i \in Files(sh) : i <= Last(sh.idx)
    /\ sh.wal # <<>> => Last(sh.wal) = Held(sh)
    /\ sh.wal = <<>> /\ ~sh.moved => Forced(sh)

(* The newest segment, 0 when there is none. *)
Newest(sh) == IF sh.idx = <<>> THEN 0 ELSE Last(sh.idx)

(* A segment for each write and compaction to come. *)
Room(s) == Newest(shard[s]) + (IF compactor[s] = "idle" THEN 0 ELSE 1) <= writes + compactions

ShardsInv ==
    /\ shard \in [Shards -> ShardType] /\ \A s \in Shards : Sound(shard[s]) /\ Room(s)
    /\ compactor \in [Shards -> {"idle", "waiting", "holding"}]
    /\ writes \in 0 .. MaxWrites /\ compactions \in 0 .. MaxCompactions

ArchType ==
    [pc : {"none", "pause", "snapshot", "copy", "zip"}, paused : SUBSET Shards,
     size : {<<>>} \cup [Shards -> [idx : Nat, segs : SUBSET SegIds]],
     left : SUBSET (Shards \X (SegIds \cup {0})),
     must : {<<>>} \cup [Shards -> SUBSET (0 .. MaxWrites)]]

ImageType ==
    [idx : [Shards -> Seq(SegIds)], seg : [Shards -> [SegIds -> 0 .. MaxWrites]],
     wal : [Shards -> Seq(1 .. MaxWrites)]]

(* No compactor works while it is paused, and all are during the copy. *)
PausedInv ==
    /\ arch.pc = "pause" => \E m \in 0 .. NumShards - 1 : arch.paused = 1 .. m
    /\ arch.pc \in {"snapshot", "copy"} => arch.paused = Shards
    /\ arch.pc \in {"none", "zip"} => arch.paused = {}
    /\ \A s \in arch.paused : compactor[s] # "holding"

(* The files of the image, as they will be once all are copied. *)
IndexToBe(s) ==
    IF <<s, 0>> \in arch.left THEN CopyPrefix(shard[s].idx, arch.size[s].idx) ELSE image.idx[s]

SegToBe(s, i) ==
    IF <<s, i>> \in arch.left THEN IF i \in arch.size[s].segs THEN shard[s].seg[i] ELSE 0
    ELSE image.seg[s][i]

RestoredToBe(s) ==
    IF image.wal[s] # <<>> THEN Last(image.wal[s])
    ELSE IF IndexToBe(s) = <<>> THEN 0
    ELSE SegToBe(s, Last(IndexToBe(s)))

CopyInv == arch.pc = "copy" => \A s \in Shards :
    /\ arch.size # <<>> /\ arch.must # <<>>
    /\ arch.size[s].idx <= Len(shard[s].idx)
    /\ \A i \in SegIds : <<s, i>> \in arch.left => i \in Files(shard[s])
    /\ RestoredToBe(s) \in arch.must[s]

ZipInv == arch.pc = "zip" => \A s \in Shards : Restored(image, s) \in arch.must[s]

FolderInv ==
    /\ named \in Nat \ {0}
    /\ folder \subseteq [name : 1 .. named, whole : BOOLEAN, exact : BOOLEAN, stuck : BOOLEAN]
    /\ RetentionKeeps

ArchiveInv ==
    /\ ShardsInv /\ arch \in ArchType /\ image \in ImageType /\ PausedInv /\ CopyInv /\ ZipInv
    /\ FolderInv /\ ArchivesExact
=============================================================================
