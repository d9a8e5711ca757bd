------------------------------ MODULE Recency -------------------------------
(***************************************************************************)
(* The cache with a history of its use, against which its choice of the    *)
(* key to evict is checked.                                                *)
(***************************************************************************)
EXTENDS LRUCache

VARIABLE
    newer        \* history: the pairs <<k, q>> of which k was read or written
                 \* and q was not, or not since

recencyVars == <<cacheVars, newer>>

MadeNewest(order, k) == (order \ (Keys \X {k})) \cup ({k} \X (Keys \ {k}))

Use(k) == newer' = MadeNewest(newer, k)

RecencyInit == CacheInit /\ newer = {}

RecencyNext ==
    \/ \E k \in Keys : CacheGet(k) /\ Use(k)
    \/ \E k \in Keys : CacheRemove(k) /\ UNCHANGED newer
    \/ \E k \in Keys, v \in Values \cup {Garbage} : CachePut(k, v) /\ Use(k)
    \/ \E cap \in Capacities : CacheResize(cap) /\ UNCHANGED newer

RecencySpec == RecencyInit /\ [][RecencyNext]_recencyVars

-----------------------------------------------------------------------------
(* Properties *)

(* The list is sorted by recency. *)
Sorted(l, order) == \A i, j \in DOMAIN l : i < j => <<l[i], l[j]>> \in order

(* The inductive invariant. *)
RecencyInv == CacheInv /\ Sorted(lru, newer)

(* A key that goes unasked is older than all that stay. *)
DropsOlder == \A k, q \in Keys :
    Hit(k) /\ ~Hit(k)' /\ ~CacheRemove(k) /\ Hit(q)' => <<q, k>> \in newer'

(***************************************************************************)
(* LRUCache evicts what was used longest ago, whatever the order of gets,  *)
(* puts, removes and resizes: each key that put or resize drops was last   *)
(* used before every key they keep.                                        *)
(***************************************************************************)
EvictsOldest == [][DropsOlder]_recencyVars
=============================================================================
