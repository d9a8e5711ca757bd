------------------------------ MODULE MCShard ------------------------------
EXTENDS Shard, TLC

CONSTANTS k1, k2, v1, v2, r1

VARIABLE
    crashes      \* whether the shard crashes, or stays up

MCKeys == {k1, k2}
MCValues == {v1, v2}
MCSizeOf == [v \in Values |-> IF v = v1 THEN 1 ELSE 2]
MCSymmetry == Permutations(MCKeys)

(* A bulk write over both keys; smaller ones are single writes to the disk. *)
BulkOfBoth ==
    \/ Live(mem) = Keys /\ BulkBegin("setBy", Keys, v1)
    \/ \E k \in Keys, fails \in WriteFails : BulkStep(k, fails)

(* The steps that change what is on disk, in every order, with crashes.    *)
DiskNext == WriteNext \/ BulkOfBoth \/ FlushData \/ CompactNext \/ CrashNext

DiskInit == ShardInit /\ crashes = TRUE /\ segSize = MaxSegSize

DiskSpec == DiskInit /\ [][DiskNext /\ UNCHANGED crashes]_<<shardVars, crashes>>

(* The steps of a shard that stays up; only the compactor flushes.         *)
UpNext == ReadNext \/ WriteNext \/ BulkNext \/ ReloadNext \/ CompactNext

(* Either; the cache of one that crashes holds a key.                      *)
MCInit ==
    \/ crashes = FALSE /\ ShardInit
    \/ crashes = TRUE /\ ShardInit /\ segSize = MaxSegSize /\ capacity = 1

MCNext == UNCHANGED crashes /\ IF crashes THEN DiskNext ELSE UpNext

MCSpec == MCInit /\ [][MCNext]_<<shardVars, crashes>>
=============================================================================
