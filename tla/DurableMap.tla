----------------------------- MODULE DurableMap -----------------------------
(***************************************************************************)
(* What one shard promises of its keys by itself, without the write-ahead  *)
(* log: a map whose reads are exact until a crash, and which a crash may   *)
(* take back, key by key, to a value the key had since the last completed  *)
(* flush.  A key given a new location since then may be lost altogether    *)
(* (Shard::verifyIndexEntries drops what does not point into a segment);   *)
(* ZestDB makes up for it by replaying the log of the writes.              *)
(***************************************************************************)
CONSTANTS Keys, Values, NoVal

VARIABLES
    kv,          \* the value of each key, NoVal for an absent key
    hist,        \* hist[k]: the values k had since the last flush
    exposed      \* the keys given a new location since the last flush

mapVars == <<kv, hist, exposed>>

MapInit ==
    /\ kv = [k \in Keys |-> NoVal]
    /\ hist = [k \in Keys |-> {NoVal}]
    /\ exposed = {}

Write(k, v) ==
    /\ kv' = [kv EXCEPT ![k] = v]
    /\ hist' = [hist EXCEPT ![k] = @ \cup {v}]
    /\ exposed' = exposed \cup {k}

(* The keys of K are given the value v: what a setby writes of its keys. *)
WriteAll(K, v) ==
    /\ kv' = [k \in Keys |-> IF k \in K THEN v ELSE kv[k]]
    /\ hist' = [k \in Keys |-> IF k \in K THEN hist[k] \cup {v} ELSE hist[k]]
    /\ exposed' = exposed \cup K

(* The keys of K go together: a del, or a delBy over a whole shard. *)
Delete(K) ==
    /\ kv' = [k \in Keys |-> IF k \in K THEN NoVal ELSE kv[k]]
    /\ hist' = [k \in Keys |-> IF k \in K THEN hist[k] \cup {NoVal} ELSE hist[k]]
    /\ UNCHANGED exposed

(* The compactor gives k a new location. *)
Move(k) == exposed' = exposed \cup {k} /\ UNCHANGED <<kv, hist>>

(* The keys of K are flushed. *)
Flush(K) ==
    /\ hist' = [k \in Keys |-> IF k \in K THEN {kv[k]} ELSE hist[k]]
    /\ exposed' = exposed \ K
    /\ UNCHANGED kv

(* A crash that may lose the keys of lost altogether. *)
Crash(lost) ==
    /\ kv' \in [Keys -> Values \cup {NoVal}]
    /\ \A k \in Keys : kv'[k] \in hist[k] \/ (k \in lost /\ kv'[k] = NoVal)
    /\ hist' = [k \in Keys |-> {kv'[k]}]
    /\ exposed' = {}

MapNext ==
    \/ \E k \in Keys : Delete({k}) \/ Move(k) \/ \E v \in Values : Write(k, v)
    \/ Flush(Keys)
    \/ Crash(exposed)

MapSpec == MapInit /\ [][MapNext]_mapVars
=============================================================================
