------------------------------ MODULE MCParts -------------------------------
(***************************************************************************)
(* The components with an interface of their own, each on its own: one     *)
(* part is chosen and takes all the steps.                                 *)
(***************************************************************************)
EXTENDS Segments, IndexLog, Recency, Config, TLC

CONSTANTS k1, k2, k3, v1, v2, v3, u1, u2, u3

VARIABLE
    part         \* the component that is checked

MCKeys == {k1, k2, k3}
MCValues == {v1, v2, v3}
MCSizeOf == v1 :> 1 @@ v2 :> 2 @@ v3 :> 3
MCSegSizes == {2, 3}
MCCapacities == 0 .. 3
MCDefaults == [SegSize |-> 2, MaxValueSize |-> 1, MaxKeySize |-> 1, Interval |-> 1, Fixed |-> 1]

Indexed == {[seg |-> s, off |-> 0, size |-> 1] : s \in {1, 2}}

SegPart == part = "segments" /\ SegNext

IndexPart ==
    /\ part = "index"
    /\ \/ \E k \in {k1, k2}, loc \in Indexed : Insert(k, loc)
       \/ \E k \in {k1, k2} : Tombstone(k)
       \/ IndexFlush
       \/ IndexCompact
       \/ IndexCrash

CachePart == part = "cache" /\ RecencyNext

ConfigPart == part = "config" /\ ConfigNext

MCInit ==
    /\ part \in {"segments", "index", "cache", "config"}
    /\ SegInit /\ (part # "segments" => segSize = 2)
    /\ IndexInit
    /\ RecencyInit /\ (part # "cache" => capacity = 0)
    /\ ConfigInit /\ (part # "config" => file.set = MCDefaults /\ file.users = u1)

MCNext ==
    /\ UNCHANGED part
    /\ \/ SegPart /\ UNCHANGED <<indexVars, recencyVars, configVars>>
       \/ IndexPart /\ UNCHANGED <<segVars, recencyVars, configVars>>
       \/ CachePart /\ UNCHANGED <<segVars, indexVars, configVars>>
       \/ ConfigPart /\ UNCHANGED <<segVars, indexVars, recencyVars>>

MCSpec == MCInit /\ [][MCNext]_<<segVars, indexVars, recencyVars, configVars, part>>
=============================================================================
