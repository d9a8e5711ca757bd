----------------------------- MODULE Locations -----------------------------
(***************************************************************************)
(* The data the storage components of one shard share: keys, values and    *)
(* the location (segmentId, offset, size) of a value in a segment file.    *)
(* A value is atomic; only its size in bytes is kept.                      *)
(***************************************************************************)
EXTENDS Integers

CONSTANTS
    Keys,        \* the keys of the shard
    Values,      \* the values a client may store
    SizeOf,      \* SizeOf[v]: the size of v in bytes
    MaxSegSize,  \* bound: the largest SegSize a configuration gives
    MaxSeg,      \* bound: the largest segment id of an instance
    NoVal,       \* "no value": key not found, not cached, or a failed read
    Garbage      \* the string a read returns when its bytes are no value

(***************************************************************************)
(* ZestDB::set refuses an empty value, so sizes are positive; a value may  *)
(* be longer than a segment.                                               *)
(***************************************************************************)
ASSUME LocationsAssumption ==
    /\ MaxSegSize \in Nat \ {0}
    /\ MaxSeg \in Nat \ {0}
    /\ SizeOf \in [Values -> Nat \ {0}]
    /\ NoVal \notin Values /\ Garbage \notin Values /\ NoVal # Garbage

SegIds == 1 .. MaxSeg

(* IndexManager::Location. *)
Location == [seg : SegIds, off : 0 .. MaxSegSize, size : 1 .. MaxSegSize]

(* The invalid entry {INVALID_OFFSET, INVALID_SEGMENT_ID, 0}. *)
NoLoc == [seg |-> 0, off |-> 0, size |-> 0]

(* What a read may return. *)
ReadResult == Values \cup {NoVal, Garbage}
=============================================================================
