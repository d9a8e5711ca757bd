------------------------------ MODULE LRUCache ------------------------------
(***************************************************************************)
(* LRUCache: map and lru_list, the most recently used key first.  Only the *)
(* value of a CacheEntry is kept: of its index entry the callers only ask  *)
(* whether it is valid, which it is for every key in the map.              *)
(***************************************************************************)
EXTENDS Locations, Sequences

SE == INSTANCE SequencesExt

CONSTANT
    Capacities   \* the values of the CacheSize setting

ASSUME CapacitiesAssumption == Capacities \subseteq Nat

VARIABLES
    cval,        \* map; NoVal for a key that is not cached
    lru,         \* lru_list
    capacity     \* capacity

cacheVars == <<cval, lru, capacity>>

CacheInit ==
    /\ cval = [k \in Keys |-> NoVal]
    /\ lru = <<>>
    /\ capacity \in Capacities

Hit(k) == cval[k] # NoVal

(* The iterator to the node of k in the list l, kept in the map. *)
Node(l, k) == CHOOSE i \in DOMAIN l : l[i] = k

(* The list without the node of k. *)
Erased(l, k) == IF SE!Contains(l, k) THEN SE!RemoveAt(l, Node(l, k)) ELSE l

(* Moves or adds k to the front of the list l. *)
ToFront(l, k) == <<k>> \o Erased(l, k)

(* Mutant: a hit does not count as a use. *)
CacheGetUnordered(k) == k \in Keys /\ UNCHANGED cacheVars

(* LRUCache::get. *)
CacheGet(k) ==
    /\ lru' = IF Hit(k) THEN ToFront(lru, k) ELSE lru
    /\ UNCHANGED <<cval, capacity>>

(* Mutant: one entry too many fits. *)
EvictedLate(k) == IF ~Hit(k) /\ Len(lru) > capacity THEN {SE!Last(lru)} ELSE {}

(* The keys put(k) drops: the last of the list when a new key finds it full. *)
Evicted(k) == IF ~Hit(k) /\ Len(lru) >= capacity THEN {SE!Last(lru)} ELSE {}

(* LRUCache::put. *)
CachePut(k, v) ==
    /\ IF capacity = 0 THEN UNCHANGED <<cval, lru>>
       ELSE /\ cval' = [q \in Keys |-> IF q = k THEN v
                                       ELSE IF q \in Evicted(k) THEN NoVal ELSE cval[q]]
            /\ lru' = ToFront(IF Evicted(k) = {} THEN lru ELSE SE!Front(lru), k)
    /\ UNCHANGED capacity

(* LRUCache::remove. *)
CacheRemove(k) ==
    /\ cval' = [cval EXCEPT ![k] = NoVal]
    /\ lru' = Erased(lru, k)
    /\ UNCHANGED capacity

(* The map once the list has been cut to l. *)
CutTo(l) == [k \in Keys |-> IF SE!Contains(l, k) THEN cval[k] ELSE NoVal]

(* Mutant: resize pops while the size is at least the capacity. *)
CacheResizeTooFar(cap) ==
    /\ capacity' = cap
    /\ lru' = SubSeq(lru, 1, IF cap <= Len(lru) THEN cap - 1 ELSE Len(lru))
    /\ cval' = CutTo(lru')

(* LRUCache::resize. *)
CacheResize(cap) ==
    /\ capacity' = cap
    /\ lru' = SubSeq(lru, 1, IF cap < Len(lru) THEN cap ELSE Len(lru))
    /\ cval' = CutTo(lru')

(* What the shard asks of its cache. *)
CacheNext ==
    \/ \E k \in Keys : CacheGet(k) \/ CacheRemove(k)
    \/ \E k \in Keys, v \in Values \cup {Garbage} : CachePut(k, v)
    \/ \E cap \in Capacities : CacheResize(cap)

CacheSpec == CacheInit /\ [][CacheNext]_cacheVars

-----------------------------------------------------------------------------
(* Properties *)

CacheTypeOK ==
    /\ cval \in [Keys -> ReadResult]
    /\ lru \in Seq(Keys)
    /\ capacity \in Capacities

(***************************************************************************)
(* The list and the map hold the same keys, once each, and no more than    *)
(* the capacity: put never calls back() on an empty list and get never     *)
(* follows an iterator to an erased node.                                  *)
(***************************************************************************)
ListMatchesMap ==
    /\ SE!ToSet(lru) = {k \in Keys : Hit(k)}
    /\ \A i, j \in DOMAIN lru : lru[i] = lru[j] => i = j
    /\ Len(lru) <= capacity

(* The inductive invariant of the cache. *)
CacheInv == CacheTypeOK /\ ListMatchesMap

(* A key that goes is removed, or goes from a full cache. *)
DropsFromFull == \A k \in Keys : Hit(k) /\ ~Hit(k)' => Len(lru') = capacity' \/ CacheRemove(k)

(***************************************************************************)
(* Eviction is never premature: put and resize drop a key only when the    *)
(* cache is full of keys used later.                                       *)
(***************************************************************************)
KeepsWhatFits == [][DropsFromFull]_cacheVars
=============================================================================
