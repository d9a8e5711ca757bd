----------------------------- MODULE Durability -----------------------------
(***************************************************************************)
(* ZestDB::execCmd, ShardManager, WAL and the sessions' group commit: how  *)
(* an acknowledged write survives a crash.  The shards keep the promise of *)
(* DurableMap; on top of it a write is applied, logged in its shard's WAL, *)
(* synced and acknowledged, flushes clear the WALs, and a restart replays  *)
(* what is left of them.                                                   *)
(***************************************************************************)
EXTENDS DurableMap, Integers, Sequences, FiniteSets, Functions

SE == INSTANCE SequencesExt

CONSTANTS
    NumShards,   \* NUM_SHARDS
    ShardOf,     \* getShardId
    ModeShard,   \* the shard whose WAL logs pattern commands (see LogShard)
    Sessions,    \* client sessions, one thread each
    Ops,         \* the commands that write clients use, among AllOps
    MaxWrites,   \* bound: commands that write, over all runs of the process
    MaxCrashes   \* bound: crashes

Shards == 1 .. NumShards

(* set, setby and delby without a limit, with one (of one key), and del. *)
Sets == {"s", "sb", "sb1"}
Limited == {"sb1", "db1"}
Patterns == {"sb", "db"} \cup Limited
AllOps == {"s", "d"} \cup Patterns

ASSUME DurabilityAssumption ==
    /\ NumShards \in Nat \ {0} /\ MaxWrites \in Nat /\ MaxCrashes \in Nat
    /\ ShardOf \in [Keys -> Shards] /\ ModeShard \in Shards
    /\ NoVal \notin Values /\ Ops \subseteq AllOps

VARIABLES
    wal,         \* wal[s]: the records of shard s's WAL a replay can read
    walSynced,   \* walSynced[s]: how many of them survive any crash
    torn,        \* torn[s]: a cut record hides whatever is appended after it
    nextSeq,     \* WAL's nextSeq
    phase,       \* "up", or "replay" while replayWAL runs (replaying)
    todo,        \* the entries replayAllWAL has still to execute
    flushing,    \* the flush in progress, in ShardManager::flush
    cmd,         \* cmd[t]: the write t has applied and not yet logged
    batch,       \* batch[t]: ids of the writes of t's batch that await the sync
    tail,        \* history: tail[k]: the writes of k from the last-applied
                 \* acknowledged one on; ids are in the order they were applied
    risk,        \* history: risk[k]: why an acknowledged write of k may be lost
    moved,       \* history: the keys the compactors moved since their last flush
    writes,      \* history: writes so far, the id of the latest
    crashes      \* history: crashes so far

(***************************************************************************)
(* What the code lets happen to a key, since the last flush that ended,    *)
(* and what costs it acknowledged writes:                                  *)
(* "race":      two sessions wrote it at the same time;                    *)
(* "early":     it was written before replayWAL was done;                  *)
(* "torn":      its record was appended to a WAL after a cut one;          *)
(* "refused":   a set of it was refused when it was replayed (a smaller    *)
(*              SegSize since, a full disk);                               *)
(* "pattern":   some command wrote all keys that match a pattern;          *)
(* "limit":     some command did so with a limit;                          *)
(* "overwrite": a crash left the INDEX record of its last write and not    *)
(*              the value, before that write was acknowledged;             *)
(* "move":      the same, of the new location compaction gave it.          *)
(***************************************************************************)
Causes == {"race", "early", "torn", "refused", "pattern", "limit", "overwrite", "move"}

walVars == <<wal, walSynced, torn, nextSeq>>
sessionVars == <<cmd, batch>>
histVars == <<tail, risk, moved, writes, crashes>>
vars == <<mapVars, walVars, phase, todo, flushing, sessionVars, histVars>>

NoCmd == [op |-> "none", key |-> NoVal, val |-> NoVal, id |-> 0]

(* stage: "none", "shards" (flushData on each) or "clear" (clearAllWAL). *)
NoFlush == [stage |-> "none", left |-> {}, ok |-> TRUE]

KeysOf(s) == {k \in Keys : ShardOf[k] = s}

Init ==
    /\ MapInit
    /\ wal = [s \in Shards |-> <<>>] /\ walSynced = [s \in Shards |-> 0]
    /\ torn = [s \in Shards |-> FALSE] /\ nextSeq = 0
    /\ phase = "up" /\ todo = <<>> /\ flushing = NoFlush
    /\ cmd = [t \in Sessions |-> NoCmd] /\ batch = [t \in Sessions |-> {}]
    /\ tail = [k \in Keys |-> {[id |-> 0, val |-> NoVal]}]
    /\ risk = [k \in Keys |-> {}] /\ moved = {} /\ writes = 0 /\ crashes = 0

-----------------------------------------------------------------------------
(* A command that writes *)

(* A limited command takes the smallest key; here keys are in shard order. *)
Smallest(K) == {k \in K : \A j \in K : ShardOf[k] <= ShardOf[j]}

(* The keys a command is about; a pattern matches every key. *)
Affected(c) ==
    LET matching == {k \in Keys : kv[k] # NoVal} IN
    IF c.op \in Limited THEN Smallest(matching)
    ELSE IF c.op \in Patterns THEN matching ELSE {c.key}

(***************************************************************************)
(* execCmd's effect on the shards.  A setby goes on when a shard refuses   *)
(* one of its keys; a set that is refused, and a del of an absent key,     *)
(* answer an error and are not logged.                                     *)
(***************************************************************************)
Execute(c, K) ==
    /\ K = Affected(c) \/ (K \subseteq Affected(c) /\ c.op \in Sets \cap Patterns)
    /\ \/ c.op \in Sets /\ WriteAll(K, c.val)
       \/ c.op \notin Sets /\ (c.op = "d" => kv[c.key] # NoVal) /\ Delete(K)

Commands(id) ==
    [op : Ops \cap {"s"}, key : Keys, val : Values, id : {id}]
    \cup [op : Ops \cap {"d"}, key : Keys, val : {NoVal}, id : {id}]
    \cup [op : Ops \cap Sets \cap Patterns, key : {NoVal}, val : Values, id : {id}]
    \cup [op : (Ops \cap Patterns) \ Sets, key : {NoVal}, val : {NoVal}, id : {id}]

(* What applying c, which writes the keys of K, may cost k. *)
Dangers(c, K, k) ==
    {x \in Causes :
        \/ x = "race" /\ k \in K /\ \E u \in Sessions :
              cmd[u] # NoCmd /\ (cmd[u].key = k \/ cmd[u].op \in Patterns)
        \/ x = "early" /\ phase = "replay" /\ k \in K
        \/ x = "pattern" /\ c.op \in Patterns \ Limited
        \/ x = "limit" /\ c.op \in Limited}

(* Mutant: a command takes no lock. *)
NoLockTaken == TRUE

(* writeMtx can be taken shared; the flush of a replay does not take it. *)
SharedLockFree == flushing.stage = "none" \/ phase = "replay"

(***************************************************************************)
(* execCmd applies the command under writeMtx shared, which it holds until *)
(* the command is logged.  ZestDB's constructor starts the server before   *)
(* it replays the WAL.                                                     *)
(***************************************************************************)
Apply(t) ==
    /\ writes < MaxWrites                                          \* bound
    /\ SharedLockFree
    /\ cmd[t] = NoCmd
    /\ \E c \in Commands(writes + 1) : \E K \in SUBSET Keys :
          /\ Execute(c, K)
          /\ tail' = [k \in Keys |-> IF k \in K THEN tail[k] \cup {[id |-> c.id, val |-> c.val]}
                                     ELSE tail[k]]
          /\ risk' = [k \in Keys |-> risk[k] \cup Dangers(c, K, k)]
          /\ cmd' = [cmd EXCEPT ![t] = c]
    /\ writes' = writes + 1
    /\ UNCHANGED <<walVars, phase, todo, flushing, batch, moved, crashes>>

(* ShardManager::appendToWAL hashes words[1]: the key, or a pattern's mode. *)
LogShard(c) == IF c.op \in Patterns THEN ModeShard ELSE ShardOf[c.key]

(* WAL::append; what follows a cut record cannot be read back. *)
WalAppend(c) ==
    LET s == LogShard(c) IN
    /\ nextSeq' = nextSeq + 1
    /\ wal' = IF torn[s] THEN wal
              ELSE [wal EXCEPT ![s] = Append(@, [seq |-> nextSeq, cmd |-> c])]
    /\ risk' = [k \in Keys |-> IF torn[s] /\ (k = c.key \/ c.op \in Patterns)
                               THEN risk[k] \cup {"torn"} ELSE risk[k]]
    /\ UNCHANGED <<walSynced, torn>>

(* WAL::append answers false, with part of the record written or nothing. *)
WalAppendFails(c) ==
    /\ nextSeq' = nextSeq + 1
    /\ torn' \in {torn, [torn EXCEPT ![LogShard(c)] = TRUE]}
    /\ UNCHANGED <<wal, walSynced, risk>>

(* The end of execCmd: logged, unless a replay is going on, and unlocked. *)
Log(t) ==
    /\ cmd[t] # NoCmd
    /\ \/ /\ phase = "replay" /\ UNCHANGED <<walVars, risk>>
          /\ batch' = [batch EXCEPT ![t] = @ \cup {cmd[t].id}]
       \/ /\ phase = "up" /\ WalAppend(cmd[t])
          /\ batch' = [batch EXCEPT ![t] = @ \cup {cmd[t].id}]
       \/ phase = "up" /\ WalAppendFails(cmd[t]) /\ UNCHANGED batch
    /\ cmd' = [cmd EXCEPT ![t] = NoCmd]
    /\ UNCHANGED <<mapVars, phase, todo, flushing, tail, moved, writes, crashes>>

(* Of the writes of a key, those from the last of the ids acknowledged on. *)
Since(ws, ids) == {w \in ws : \A a \in ws : a.id \in ids => a.id <= w.id}

(***************************************************************************)
(* The end of a batch: syncWAL visits every shard, and only when all       *)
(* succeed is the batch acknowledged (its reply queued).                   *)
(***************************************************************************)
SyncWAL(S) == walSynced' = [s \in Shards |-> IF s \in S THEN Len(wal[s]) ELSE walSynced[s]]

Acknowledge(t) ==
    /\ cmd[t] = NoCmd /\ batch[t] # {}
    /\ SyncWAL(Shards)
    /\ tail' = [k \in Keys |-> Since(tail[k], batch[t])]
    /\ batch' = [batch EXCEPT ![t] = {}]
    /\ UNCHANGED <<mapVars, wal, torn, nextSeq, phase, todo, flushing, cmd, risk, moved, writes, crashes>>

(* A failed sync closes the session without an answer. *)
SyncFails(t) ==
    /\ cmd[t] = NoCmd /\ batch[t] # {}
    /\ \E S \in SUBSET Shards : S # Shards /\ SyncWAL(S)
    /\ batch' = [batch EXCEPT ![t] = {}]
    /\ UNCHANGED <<mapVars, wal, torn, nextSeq, phase, todo, flushing, cmd, histVars>>

-----------------------------------------------------------------------------
(***************************************************************************)
(* ZestDB::flush takes writeMtx exclusively; the flush that ends a replay  *)
(* takes no lock.  The shards flush in any order.                          *)
(***************************************************************************)
FlushBegin ==
    /\ flushing.stage = "none"
    /\ \/ phase = "up" /\ \A t \in Sessions : cmd[t] = NoCmd
       \/ phase = "replay" /\ todo = <<>>
    /\ flushing' = [stage |-> "shards", left |-> Shards, ok |-> TRUE]
    /\ UNCHANGED <<mapVars, walVars, phase, todo, sessionVars, histVars>>

FlushShard(s) ==
    /\ flushing.stage = "shards" /\ s \in flushing.left
    /\ \/ /\ Flush(KeysOf(s)) /\ moved' = moved \ KeysOf(s)
          /\ flushing' = [flushing EXCEPT !.left = @ \ {s}]
       \/ /\ flushing' = [flushing EXCEPT !.left = @ \ {s}, !.ok = FALSE]
          /\ UNCHANGED <<mapVars, moved>>
    /\ UNCHANGED <<walVars, phase, todo, sessionVars, tail, risk, writes, crashes>>

(* The end of a flush; replayWAL ends with it, and with it the recovery. *)
FlushDone ==
    /\ flushing' = NoFlush
    /\ phase' = "up"

(* What a replay recovered, among the writes it may recover. *)
Recovered(k) == IF phase = "up" THEN tail[k] ELSE {w \in tail[k] : w.val = kv[k]}

(* All is on disk and no WAL is left: whatever endangered k is over. *)
FreshStart(k) == phase = "up" /\ risk[k] # {}

(* Mutant: a flush that failed starts over. *)
FlushRetries ==
    /\ flushing.stage = "shards" /\ flushing.left = {} /\ ~flushing.ok
    /\ flushing' = [stage |-> "shards", left |-> Shards, ok |-> TRUE]
    /\ UNCHANGED <<mapVars, walVars, phase, todo, sessionVars, histVars>>

(* "a shard failed to flush, keeping every WAL". *)
FlushKeepsWAL ==
    /\ flushing.stage = "shards" /\ flushing.left = {} /\ ~flushing.ok
    /\ FlushDone
    /\ tail' = [k \in Keys |-> Recovered(k)]
    /\ UNCHANGED <<mapVars, walVars, todo, sessionVars, risk, moved, writes, crashes>>

(* ShardManager::clearAllWAL, one shard after the other. *)
ClearBegin ==
    /\ flushing.stage = "shards" /\ flushing.left = {} /\ flushing.ok
    /\ flushing' = [flushing EXCEPT !.stage = "clear", !.left = Shards]
    /\ UNCHANGED <<mapVars, walVars, phase, todo, sessionVars, histVars>>

ClearWAL(s) ==
    /\ flushing.stage = "clear" /\ s \in flushing.left
    /\ \A u \in flushing.left : s <= u
    /\ wal' = [wal EXCEPT ![s] = <<>>]
    /\ walSynced' = [walSynced EXCEPT ![s] = 0]
    /\ torn' = [torn EXCEPT ![s] = FALSE]
    /\ \/ /\ flushing.left # {s} /\ flushing' = [flushing EXCEPT !.left = @ \ {s}]
          /\ UNCHANGED <<phase, tail, risk>>
       \/ /\ flushing.left = {s} /\ FlushDone
          /\ tail' = [k \in Keys |-> IF FreshStart(k) THEN {[id |-> 0, val |-> kv[k]]}
                                     ELSE Recovered(k)]
          /\ risk' = [k \in Keys |-> IF FreshStart(k) THEN {} ELSE risk[k]]
    /\ UNCHANGED <<mapVars, nextSeq, todo, sessionVars, moved, writes, crashes>>

(* A shard's compactor moves a value (Shard::compactSegments). *)
Relocate(k) ==
    /\ kv[k] # NoVal /\ Move(k)
    /\ moved' = moved \cup {k}
    /\ UNCHANGED <<walVars, phase, todo, flushing, sessionVars, tail, risk, writes, crashes>>

-----------------------------------------------------------------------------
(* Mutant: the newest entry comes first. *)
SortNewestFirst(entries) ==
    {l \in Bijection(1 .. Cardinality(entries), entries) :
        \A i, j \in DOMAIN l : i < j => l[i].seq >= l[j].seq}

(* Mutant: the process counts from 0 again. *)
NextSeqFromZero(l) == 0

(***************************************************************************)
(* A crash, and the restart up to replayAllWAL: each shard recovers, what  *)
(* is left of the WALs is sorted by sequence number, and nextSeq resumes   *)
(* after it.                                                               *)
(***************************************************************************)
SortBySeq(entries) ==
    {l \in Bijection(1 .. Cardinality(entries), entries) :
        \A i, j \in DOMAIN l : i < j => l[i].seq <= l[j].seq}

NextSeqAfter(l) == IF l = <<>> THEN 0 ELSE SE!Last(l).seq + 1

(* k has a write over its last acknowledged one. *)
Overwritten(k) == \E a, w \in tail[k] : a.id < w.id

(* Of a key whose value does not come back from a crash, the reasons. *)
LostBy(k) == {x \in {"overwrite", "move"} :
                 /\ kv'[k] \notin hist[k]
                 /\ \/ x = "overwrite" /\ Overwritten(k)
                    \/ x = "move" /\ k \in moved}

Restart ==
    /\ crashes < MaxCrashes                                        \* bound
    /\ Crash(exposed)
    /\ risk' = [k \in Keys |-> risk[k] \cup LostBy(k)] /\ moved' = {}
    /\ \E n \in [Shards -> 0 .. MaxWrites] :
          /\ \A s \in Shards : walSynced[s] <= n[s] /\ n[s] <= Len(wal[s])
          /\ wal' = [s \in Shards |-> SubSeq(wal[s], 1, n[s])]
          /\ torn' \in {T \in [Shards -> BOOLEAN] : \A s \in Shards :
                           T[s] = torn[s] \/ (T[s] /\ n[s] < Len(wal[s]))}
          /\ walSynced' = n
    /\ todo' \in SortBySeq(UNION {SE!ToSet(wal'[s]) : s \in Shards})
    /\ nextSeq' = NextSeqAfter(todo')
    /\ phase' = "replay" /\ flushing' = NoFlush
    /\ cmd' = [t \in Sessions |-> NoCmd] /\ batch' = [t \in Sessions |-> {}]
    /\ crashes' = crashes + 1
    /\ UNCHANGED <<tail, writes>>

(***************************************************************************)
(* replayAllWAL executes the next entry; one that fails is only reported:  *)
(* the keys of R are refused the value.                                    *)
(***************************************************************************)
Replay ==
    /\ phase = "replay" /\ todo # <<>>
    /\ LET c == Head(todo).cmd IN
          \/ c.op = "d" /\ kv[c.key] = NoVal /\ UNCHANGED <<mapVars, risk>>
          \/ c.op \notin Sets /\ Execute(c, Affected(c)) /\ UNCHANGED risk
          \/ \E R \in SUBSET Affected(c) :
                /\ c.op \in Sets /\ WriteAll(Affected(c) \ R, c.val)
                /\ risk' = [k \in Keys |-> IF k \in R THEN risk[k] \cup {"refused"} ELSE risk[k]]
    /\ todo' = Tail(todo)
    /\ UNCHANGED <<walVars, phase, flushing, sessionVars, tail, moved, writes, crashes>>

-----------------------------------------------------------------------------
SessionNext == \E t \in Sessions : Apply(t) \/ Log(t) \/ Acknowledge(t) \/ SyncFails(t)

FlushNext ==
    \/ FlushBegin \/ FlushKeepsWAL \/ ClearBegin
    \/ \E s \in Shards : FlushShard(s) \/ ClearWAL(s)

Next == SessionNext \/ FlushNext \/ Restart \/ Replay \/ (\E k \in Keys : Relocate(k))

Spec == Init /\ [][Next]_vars

(***************************************************************************)
(* A thread that holds or has been granted a lock is scheduled: a session  *)
(* in the middle of a batch, a flush once begun, the replay of a restart.  *)
(* A flush need not begin and nothing forces clients to write.             *)
(***************************************************************************)
Fairness ==
    /\ \A t \in Sessions : WF_vars(Log(t)) /\ WF_vars(Acknowledge(t) \/ SyncFails(t))
    /\ WF_vars(Replay)
    /\ WF_vars(phase = "replay" /\ FlushBegin)
    /\ WF_vars(ClearBegin \/ FlushKeepsWAL)
    /\ \A s \in Shards : WF_vars(FlushShard(s)) /\ WF_vars(ClearWAL(s))

FairSpec == Spec /\ Fairness

-----------------------------------------------------------------------------
(* Properties *)

AnyCommand == UNION {Commands(n) : n \in 1 .. MaxWrites}

Entry == [seq : Nat, cmd : AnyCommand]

TypeOK ==
    /\ kv \in [Keys -> Values \cup {NoVal}]
    /\ hist \in [Keys -> SUBSET (Values \cup {NoVal})] /\ exposed \subseteq Keys
    /\ wal \in [Shards -> Seq(Entry)] /\ todo \in Seq(Entry)
    /\ walSynced \in [Shards -> Nat] /\ \A s \in Shards : walSynced[s] <= Len(wal[s])
    /\ torn \in [Shards -> BOOLEAN] /\ nextSeq \in Nat
    /\ phase \in {"up", "replay"}
    /\ flushing \in [stage : {"none", "shards", "clear"}, left : SUBSET Shards, ok : BOOLEAN]
    /\ cmd \in [Sessions -> {NoCmd} \cup AnyCommand]
    /\ batch \in [Sessions -> SUBSET (1 .. MaxWrites)]
    /\ tail \in [Keys -> SUBSET [id : 0 .. MaxWrites, val : Values \cup {NoVal}]]
    /\ risk \in [Keys -> SUBSET Causes] /\ moved \subseteq Keys
    /\ writes \in 0 .. MaxWrites /\ crashes \in 0 .. MaxCrashes

(***************************************************************************)
(* "Every successful mutating command is appended to a WAL file, which     *)
(* guarantees durability across unexpected shutdowns" (README:67): after a *)
(* recovery each key that nothing in Causes happened to has the value of   *)
(* its last-applied acknowledged write, or of a write applied after that   *)
(* one; never an older one, never none.                                    *)
(***************************************************************************)
AckedSurvive ==
    phase = "up" => \A k \in Keys : risk[k] = {} => \E w \in tail[k] : w.val = kv[k]

(***************************************************************************)
(* A WAL is cleared only when every shard has all its writes on disk, but  *)
(* for the writes served before replayWAL was done: no session can slip a  *)
(* write between a shard's flushData and the clear.                        *)
(***************************************************************************)
ClearsDurable ==
    \A s \in Shards : ClearWAL(s) /\ wal[s] # <<>> =>
        \A k \in Keys : "early" \in risk[k] \/ hist[k] = {kv[k]}

ClearedIsDurable == [][ClearsDurable]_vars

(***************************************************************************)
(* Sequence numbers order the log across restarts: a record appended now   *)
(* replays after every record already in a WAL, in whatever shard.         *)
(***************************************************************************)
SeqsIncrease ==
    \A s \in Shards : \A i \in DOMAIN wal[s] :
        /\ wal[s][i].seq < nextSeq
        /\ \A j \in DOMAIN wal[s] : i < j => wal[s][i].seq < wal[s][j].seq

(***************************************************************************)
(* After a crash the database comes up again, whatever is in the WALs and  *)
(* whichever shards fail to flush.                                         *)
(***************************************************************************)
ComesUp == (phase = "replay") ~> (phase = "up")

(***************************************************************************)
(* A command that was applied gets logged and gives writeMtx back, every   *)
(* batch is answered or its session closed, and a flush ends.              *)
(***************************************************************************)
BatchesEnd ==
    /\ \A t \in Sessions : (cmd[t] # NoCmd) ~> (cmd[t] = NoCmd)
    /\ \A t \in Sessions : (batch[t] # {}) ~> (batch[t] = {})
    /\ (flushing.stage # "none") ~> (flushing.stage = "none")

-----------------------------------------------------------------------------
(***************************************************************************)
(* The inductive invariant, of the keys nothing endangers: whichever       *)
(* prefix of the WALs a crash leaves, and whichever value since the last   *)
(* flush it takes a key back to, replaying the one over the other gives    *)
(* one of the writes of tail.                                              *)
(***************************************************************************)

(* The records of k in its WAL, and the write one of them is of. *)
Records(k) == {i \in DOMAIN wal[ShardOf[k]] : wal[ShardOf[k]][i].cmd.key = k}

Rec(k, i) == wal[ShardOf[k]][i].cmd

WriteOf(c) == [id |-> c.id, val |-> c.val]

Logged(k, id) == \E i \in Records(k) : Rec(k, i).id = id

(* The write id awaits its sync; the same, or it is still to be logged. *)
Awaits(id) == \E t \in Sessions : id \in batch[t]

Pending(id) == Awaits(id) \/ \E t \in Sessions : cmd[t] # NoCmd /\ cmd[t].id = id

(* The record a replay may end with is of a write of tail, ... *)
LogSafe(k) ==
    /\ \A i, j \in Records(k) : i < j => Rec(k, i).id < Rec(k, j).id
    /\ \A i \in Records(k) :
          (\A j \in Records(k) : j > i => j > walSynced[ShardOf[k]]) => WriteOf(Rec(k, i)) \in tail[k]
    /\ \A a \in tail[k] : Awaits(a.id) /\ ~Logged(k, a.id) =>
          \A i \in Records(k) : a.id < Rec(k, i).id

(* ... and so is any value of k, when there may be no record of it left. *)
DiskSafe(k) ==
    (\A i \in Records(k) : i > walSynced[ShardOf[k]]) =>
        \A v \in hist[k] : \E w \in tail[k] :
            w.val = v /\ \A a \in tail[k] : Awaits(a.id) /\ ~Logged(k, a.id) => a.id <= w.id

(***************************************************************************)
(* A key that a crash may lose altogether, and which was not moved, has a  *)
(* record no crash can take, or a write over the last acknowledged one; an *)
(* acknowledgement to come makes the first true or leaves the second so.   *)
(***************************************************************************)
LossSafe(k) == k \in exposed \ moved =>
    \/ \E i \in Records(k) : i <= walSynced[ShardOf[k]]
    \/ phase = "up" /\ \E a, w \in tail[k] :
          /\ a.id < w.id
          /\ Records(k) = {} => \A b \in tail[k] : Awaits(b.id) => b.id < w.id

(* The value in memory is of a write no acknowledgement to come excludes. *)
ValueSafe(k) == phase = "up" =>
    \E w \in tail[k] : w.val = kv[k] /\ \A a \in tail[k] : Pending(a.id) => a.id <= w.id

(* A write of k being logged is the last of its key, the only one, and k's. *)
CmdSafe(k) == \A t \in Sessions : cmd[t] # NoCmd =>
    /\ cmd[t].key = k =>
          /\ WriteOf(cmd[t]) \in tail[k] /\ \A a \in tail[k] : a.id <= cmd[t].id
          /\ \A i \in Records(k) : Rec(k, i).id < cmd[t].id
          /\ \A u \in Sessions \ {t} : cmd[u].key # k \/ cmd[u] = NoCmd
    /\ cmd[t].key # k => \A a \in tail[k] : a.id # cmd[t].id

NoTodo(k) == \A q \in DOMAIN todo : todo[q].cmd.key # k

(***************************************************************************)
(* A replay ends with the last record of k, or has nothing to do for k,    *)
(* and no session has to do with k meanwhile.                              *)
(***************************************************************************)
ReplaySafe(k) == phase = "replay" =>
    /\ \A i \in Records(k) : (\A j \in Records(k) : j <= i) =>
          \/ NoTodo(k) /\ kv[k] = Rec(k, i).val
          \/ \E q \in DOMAIN todo : /\ todo[q].cmd = Rec(k, i)
                                    /\ \A p \in DOMAIN todo : p > q => todo[p].cmd.key # k
    /\ Records(k) = {} => NoTodo(k) /\ hist[k] = {kv[k]}
    /\ \A a \in tail[k] : ~Pending(a.id)

KeySafe(k) ==
    /\ LogSafe(k) /\ DiskSafe(k) /\ LossSafe(k) /\ ValueSafe(k) /\ CmdSafe(k) /\ ReplaySafe(k)

(* A set or a del; a record of one is in the WAL of its key. *)
KeyCmd(c) == c.op \in {"s", "d"} /\ c.key \in Keys /\ (c.op = "d" => c.val = NoVal)

(* No command on a pattern is under way, in a WAL or to be replayed. *)
NoPattern ==
    /\ \A t \in Sessions : cmd[t] = NoCmd \/ KeyCmd(cmd[t])
    /\ \A s \in Shards : \A i \in DOMAIN wal[s] :
          KeyCmd(wal[s][i].cmd) /\ ShardOf[wal[s][i].cmd.key] = s
    /\ \A q \in DOMAIN todo : KeyCmd(todo[q].cmd)

(* What has a number has one already given. *)
Numbered ==
    /\ \A k \in Keys : \A a \in tail[k] : a.id <= writes
    /\ \A t \in Sessions : batch[t] \subseteq 1 .. writes /\ (cmd[t] = NoCmd \/ cmd[t].id <= writes)
    /\ \A s \in Shards : \A i \in DOMAIN wal[s] : wal[s][i].cmd.id <= writes

(* Nothing is logged during a replay, and nothing is left to replay after. *)
Quiet ==
    /\ phase = "replay" => \A s \in Shards : walSynced[s] = Len(wal[s])
    /\ phase = "up" => todo = <<>>

(* A flush has reached k. *)
Flushed(k) == flushing.stage = "clear" \/ ShardOf[k] \notin flushing.left

(***************************************************************************)
(* A flush keeps writers out, except from a replay, so that what it has    *)
(* flushed stays flushed, though it may be moved, and its WAL cleared.     *)
(***************************************************************************)
FlushSafe == flushing.stage # "none" =>
    /\ todo = <<>>
    /\ phase = "up" => \A t \in Sessions : cmd[t] = NoCmd
    /\ flushing.stage = "clear" =>
          flushing.ok /\ \A s \in Shards \ flushing.left : wal[s] = <<>>
    /\ flushing.ok => \A k \in Keys : Flushed(k) /\ (phase = "up" \/ "early" \notin risk[k]) =>
          hist[k] = {kv[k]} /\ (k \in exposed => k \in moved)

DurabilityInv ==
    /\ TypeOK /\ SeqsIncrease /\ FlushSafe /\ Numbered /\ Quiet
    /\ \A k \in Keys : kv[k] \in hist[k]
    /\ \A k \in Keys : risk[k] = {} => NoPattern /\ KeySafe(k)
=============================================================================
