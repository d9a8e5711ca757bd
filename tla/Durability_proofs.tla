------------------------- MODULE Durability_proofs -------------------------
(***************************************************************************)
(* The write-ahead log: acknowledged writes survive, WALs are cleared of   *)
(* durable writes only and sequence numbers order them, for any keys,      *)
(* values, shards, sessions and numbers of writes and crashes.             *)
(***************************************************************************)
EXTENDS Durability, FiniteSetTheorems, SequenceTheorems, TLAPS

-----------------------------------------------------------------------------
(* Sets and sequences *)

LEMMA MaxExists ==
  ASSUME NEW n \in Nat, NEW S \in SUBSET (0 .. n), S # {}
  PROVE  \E x \in S : \A y \in S : y <= x
<1> DEFINE T == {n - x : x \in S}
<1>0. \A x \in S : x \in Int /\ n - x \in Nat
  OBVIOUS
<1>1. T \subseteq Nat /\ T # {}
  BY <1>0
<1>2. PICK m \in T : \A y \in T : ~(<<y, m>> \in OpToRel(<, Nat))
  BY <1>1, NatLessThanWellFounded, WFMin
<1>3. ASSUME NEW y \in T PROVE m <= y
  <2>1. m \in Nat /\ y \in Nat
    BY <1>1
  <2>2. ~(y < m)
    BY <1>2, <2>1, Zenon DEF OpToRel
  <2> QED
    BY <2>1, <2>2
<1>4. PICK x \in S : m = n - x
  OBVIOUS
<1>5. ASSUME NEW y \in S PROVE y <= x
  <2>1. n - y \in T /\ y \in Int /\ x \in Int
    BY <1>0
  <2>2. m <= n - y
    BY <1>3, <2>1
  <2> QED
    BY <1>4, <2>1, <2>2
<1> QED
  BY <1>5

(* The entries of WALs, sorted, are a sequence of all of them. *)
LEMMA SortedEntries ==
  ASSUME NEW w, w \in [Shards -> Seq(Entry)],
         NEW l \in SortBySeq(UNION {SE!ToSet(w[s]) : s \in Shards})
  PROVE  /\ l \in Seq(Entry)
         /\ \A s \in Shards : \A i \in DOMAIN w[s] : \E q \in DOMAIN l : l[q] = w[s][i]
         /\ \A q \in DOMAIN l : \E s \in Shards : \E i \in DOMAIN w[s] : l[q] = w[s][i]
         /\ \A q, p \in DOMAIN l : q < p => l[q].seq <= l[p].seq /\ l[q] # l[p]
<1> DEFINE E == UNION {SE!ToSet(w[s]) : s \in Shards}
           R == {SE!ToSet(w[s]) : s \in Shards}
<1>1. ASSUME NEW s \in Shards
      PROVE  IsFiniteSet(SE!ToSet(w[s])) /\ SE!ToSet(w[s]) \subseteq Entry
  <2>1. w[s] \in Seq(Entry)
    OBVIOUS
  <2>2. DOMAIN w[s] = 1 .. Len(w[s]) /\ Len(w[s]) \in Nat /\ IsFiniteSet(1 .. Len(w[s]))
    BY <2>1, FS_Interval
  <2>3. w[s] \in Surjection(DOMAIN w[s], SE!ToSet(w[s]))
    BY <2>1, <2>2 DEF Surjection, SE!ToSet
  <2>4. \A i \in DOMAIN w[s] : w[s][i] \in Entry
    BY <2>1
  <2> QED
    BY <2>2, <2>3, <2>4, FS_Surjection DEF SE!ToSet
<1>2. IsFiniteSet(R)
  <2> DEFINE f == [s \in Shards |-> SE!ToSet(w[s])]
  <2>1. IsFiniteSet(Shards)
    <3>1. 1 \in Int /\ NumShards \in Int
      BY DurabilityAssumption
    <3> QED
      BY <3>1, FS_Interval DEF Shards
  <2>2. f \in Surjection(Shards, R)
    BY DEF Surjection
  <2> QED
    BY <2>1, <2>2, FS_Surjection
<1>3. IsFiniteSet(E) /\ E \subseteq Entry
  BY <1>1, <1>2, FS_UNION
<1>4. Cardinality(E) \in Nat
  BY <1>3, FS_CardinalityType
<1>5. l \in [1 .. Cardinality(E) -> E] /\ \A e \in E : \E q \in 1 .. Cardinality(E) : l[q] = e
  BY DEF SortBySeq, Bijection, Injection, Surjection
<1>6. l \in Seq(Entry) /\ DOMAIN l = 1 .. Cardinality(E)
  <2>1. PICK n \in Nat : n = Cardinality(E)
    BY <1>4
  <2>2. l \in [1 .. n -> Entry]
    BY <1>3, <1>5, <2>1
  <2>3. l \in Seq(Entry)
    BY <2>2, SeqDef
  <2> QED
    BY <1>5, <2>3
<1>7. \A s \in Shards : \A i \in DOMAIN w[s] : w[s][i] \in E
  BY DEF SE!ToSet
<1>8. \A e \in E : \E s \in Shards : \E i \in DOMAIN w[s] : e = w[s][i]
  BY DEF SE!ToSet
<1>9. \A q, p \in DOMAIN l : q < p => l[q].seq <= l[p].seq
  BY DEF SortBySeq
<1>10. \A q, p \in DOMAIN l : q < p => l[q] # l[p]
  <2>1. \A q, p \in DOMAIN l : l[q] = l[p] => q = p
    BY DEF SortBySeq, Bijection, Injection, IsInjective
  <2>2. \A q, p \in DOMAIN l : q < p => q # p
    BY <1>4, <1>6
  <2> QED
    BY <2>1, <2>2
<1> QED
  BY <1>5, <1>6, <1>7, <1>8, <1>9, <1>10

-----------------------------------------------------------------------------
(* Types and sequence numbers *)

MapOK == /\ kv \in [Keys -> Values \cup {NoVal}]
         /\ hist \in [Keys -> SUBSET (Values \cup {NoVal})] /\ exposed \subseteq Keys

WalOK == /\ wal \in [Shards -> Seq(Entry)] /\ walSynced \in [Shards -> Nat]
         /\ \A s \in Shards : walSynced[s] <= Len(wal[s])
         /\ torn \in [Shards -> BOOLEAN] /\ nextSeq \in Nat /\ SeqsIncrease

RunOK == /\ todo \in Seq(Entry) /\ phase \in {"up", "replay"}
         /\ flushing \in [stage : {"none", "shards", "clear"}, left : SUBSET Shards, ok : BOOLEAN]

SessionOK == /\ cmd \in [Sessions -> {NoCmd} \cup AnyCommand]
             /\ batch \in [Sessions -> SUBSET (1 .. MaxWrites)]

HistOK == /\ tail \in [Keys -> SUBSET [id : 0 .. MaxWrites, val : Values \cup {NoVal}]]
          /\ risk \in [Keys -> SUBSET Causes] /\ moved \subseteq Keys
          /\ writes \in 0 .. MaxWrites /\ crashes \in 0 .. MaxCrashes

AllOK == MapOK /\ WalOK /\ RunOK /\ SessionOK /\ HistOK

LEMMA AllOKIs == AllOK <=> TypeOK /\ SeqsIncrease
BY DEF AllOK, TypeOK, MapOK, WalOK, RunOK, SessionOK, HistOK

LEMMA AllOKNext == AllOK' <=> TypeOK' /\ SeqsIncrease'
BY AllOKIs, PTL

LEMMA CommandTyped ==
  ASSUME NEW n \in 1 .. MaxWrites, NEW c \in Commands(n)
  PROVE  c \in AnyCommand /\ c.id = n
<1>1. \/ c \in [op : Ops \cap {"s"}, key : Keys, val : Values, id : {n}]
      \/ c \in [op : Ops \cap {"d"}, key : Keys, val : {NoVal}, id : {n}]
      \/ c \in [op : Ops \cap Sets \cap Patterns, key : {NoVal}, val : Values, id : {n}]
      \/ c \in [op : (Ops \cap Patterns) \ Sets, key : {NoVal}, val : {NoVal}, id : {n}]
  BY DEF Commands
<1> QED
  BY <1>1 DEF AnyCommand

LEMMA AnyCommandTyped ==
  ASSUME NEW c \in AnyCommand
  PROVE  /\ c.op \in {"s", "d"} \cup Patterns /\ c.val \in Values \cup {NoVal} /\ c.id \in 1 .. MaxWrites
         /\ c.op \notin Patterns => KeyCmd(c)
         /\ LogShard(c) \in Shards
<1>1. PICK n \in 1 .. MaxWrites : c \in Commands(n)
  BY DEF AnyCommand
<1>2. \/ c \in [op : Ops \cap {"s"}, key : Keys, val : Values, id : {n}]
      \/ c \in [op : Ops \cap {"d"}, key : Keys, val : {NoVal}, id : {n}]
      \/ c \in [op : Ops \cap Sets \cap Patterns, key : {NoVal}, val : Values, id : {n}]
      \/ c \in [op : (Ops \cap Patterns) \ Sets, key : {NoVal}, val : {NoVal}, id : {n}]
  BY <1>1 DEF Commands
<1>3. /\ c.op \in {"s", "d"} \cup Patterns /\ c.val \in Values \cup {NoVal} /\ c.id \in 1 .. MaxWrites
      /\ c.op \notin Patterns => KeyCmd(c)
  BY <1>2 DEF KeyCmd
<1>4. LogShard(c) \in Shards
  BY <1>3, DurabilityAssumption DEF LogShard, KeyCmd
<1> QED
  BY <1>3, <1>4

LEMMA WriteAllTyped ==
  ASSUME MapOK, NEW K \in SUBSET Keys, NEW v \in Values \cup {NoVal}, WriteAll(K, v) PROVE MapOK'
BY DEF MapOK, WriteAll

LEMMA DeleteTyped ==
  ASSUME MapOK, NEW K, Delete(K) PROVE MapOK'
BY DEF MapOK, Delete

LEMMA AffectedTyped ==
  ASSUME NEW c \in AnyCommand
  PROVE  Affected(c) \subseteq Keys /\ (c.op \in {"s", "d"} => Affected(c) = {c.key} /\ KeyCmd(c))
BY AnyCommandTyped DEF Affected, Smallest, Limited, Patterns, KeyCmd

LEMMA ExecuteTyped ==
  ASSUME MapOK, NEW c \in AnyCommand, NEW K, Execute(c, K) PROVE MapOK' /\ K \in SUBSET Keys
<1>1. K \in SUBSET Keys /\ c.val \in Values \cup {NoVal}
  BY AnyCommandTyped, AffectedTyped DEF Execute
<1>2. WriteAll(K, c.val) \/ Delete(K)
  BY DEF Execute
<1> QED
  BY <1>1, <1>2, WriteAllTyped, DeleteTyped

LEMMA WalFacts ==
  ASSUME WalOK, NEW r \in Shards
  PROVE  /\ wal[r] \in Seq(Entry) /\ DOMAIN wal[r] = 1 .. Len(wal[r]) /\ Len(wal[r]) \in Nat
         /\ nextSeq \in Nat /\ walSynced[r] \in Nat /\ walSynced[r] <= Len(wal[r])
         /\ \A i \in DOMAIN wal[r] : wal[r][i] \in Entry /\ wal[r][i].seq \in Nat /\ wal[r][i].cmd \in AnyCommand
         /\ \A i \in DOMAIN wal[r] : wal[r][i].seq < nextSeq
         /\ \A i, j \in DOMAIN wal[r] : i < j => wal[r][i].seq < wal[r][j].seq
<1>1. wal[r] \in Seq(Entry) /\ nextSeq \in Nat /\ walSynced[r] \in Nat /\ walSynced[r] <= Len(wal[r])
  BY DEF WalOK
<1>2. DOMAIN wal[r] = 1 .. Len(wal[r]) /\ Len(wal[r]) \in Nat /\ \A i \in DOMAIN wal[r] : wal[r][i] \in Entry
  BY <1>1
<1>3. \A i \in DOMAIN wal[r] : wal[r][i].seq \in Nat /\ wal[r][i].cmd \in AnyCommand
  BY <1>2 DEF Entry
<1>4. \A i \in DOMAIN wal[r] : wal[r][i].seq < nextSeq
  BY DEF WalOK, SeqsIncrease
<1>5. \A i, j \in DOMAIN wal[r] : i < j => wal[r][i].seq < wal[r][j].seq
  BY DEF WalOK, SeqsIncrease
<1> QED
  BY <1>1, <1>2, <1>3, <1>4, <1>5

LEMMA AppendTyped ==
  ASSUME WalOK, NEW c \in AnyCommand, WalAppend(c) \/ WalAppendFails(c)
  PROVE  WalOK'
<1>0. LogShard(c) \in Shards
  BY AnyCommandTyped
<1> DEFINE s == LogShard(c)
           e == [seq |-> nextSeq, cmd |-> c]
<1>1. CASE WalAppend(c) /\ ~torn[s]
  <2>1. /\ nextSeq' = nextSeq + 1 /\ wal' = [wal EXCEPT ![s] = Append(wal[s], e)]
        /\ walSynced' = walSynced /\ torn' = torn
    BY <1>1 DEF WalAppend, WalOK
  <2>2. e \in Entry /\ wal[s] \in Seq(Entry) /\ s \in Shards
    BY <1>0 DEF WalOK, Entry
  <2> HIDE DEF e, s
  <2>3. /\ Append(wal[s], e) \in Seq(Entry) /\ Len(Append(wal[s], e)) = Len(wal[s]) + 1
        /\ \A i \in 1 .. Len(wal[s]) : Append(wal[s], e)[i] = wal[s][i]
        /\ Append(wal[s], e)[Len(wal[s]) + 1] = e
    BY <2>2, AppendProperties
  <2>4. /\ wal' \in [Shards -> Seq(Entry)] /\ \A r \in Shards : walSynced'[r] <= Len(wal'[r])
    <3>1. \A r \in Shards : Len(wal[r]) \in Nat /\ walSynced[r] \in Nat
      BY DEF WalOK
    <3> QED
      BY <2>1, <2>2, <2>3, <3>1 DEF WalOK
  <2>5. ASSUME NEW r \in Shards, NEW i \in DOMAIN wal'[r]
        PROVE  /\ wal'[r][i].seq < nextSeq'
               /\ \A j \in DOMAIN wal'[r] : i < j => wal'[r][i].seq < wal'[r][j].seq
    <3>1. /\ nextSeq \in Nat
          /\ \A k \in DOMAIN wal[r] : wal[r][k].seq \in Nat /\ wal[r][k].seq < nextSeq
          /\ \A k, j \in DOMAIN wal[r] : k < j => wal[r][k].seq < wal[r][j].seq
          /\ wal[r] \in Seq(Entry) /\ DOMAIN wal[r] = 1 .. Len(wal[r]) /\ Len(wal[r]) \in Nat
      BY WalFacts
    <3>2. CASE r # s
      <4>1. wal'[r] = wal[r]
        BY <2>1, <2>2, <3>2 DEF WalOK
      <4>2. i \in DOMAIN wal[r] /\ wal[r][i].seq \in Nat /\ wal[r][i].seq < nextSeq
        BY <3>1, <4>1
      <4>3. \A j \in DOMAIN wal[r] : i < j => wal[r][i].seq < wal[r][j].seq
        BY <3>1, <4>2
      <4>4. wal[r][i].seq < nextSeq'
        BY <2>1, <3>1, <4>2
      <4> QED
        BY <4>1, <4>3, <4>4
    <3>3. CASE r = s
      <4>1. wal'[r] = Append(wal[r], e) /\ e.seq = nextSeq
        BY <2>1, <2>2, <3>3 DEF WalOK, e
      <4>2. DOMAIN wal'[r] = 1 .. Len(wal[r]) + 1
        BY <2>3, <3>3, <4>1
      <4>3. \A k \in DOMAIN wal'[r] : \/ k \in DOMAIN wal[r] /\ wal'[r][k] = wal[r][k]
                                      \/ k = Len(wal[r]) + 1 /\ wal'[r][k] = e
        BY <2>3, <3>1, <3>3, <4>1, <4>2
      <4> QED
        BY <2>1, <3>1, <4>1, <4>2, <4>3
    <3> QED
      BY <3>2, <3>3
  <2>6. SeqsIncrease'
    BY <2>5 DEF SeqsIncrease
  <2> QED
    BY <2>1, <2>4, <2>6 DEF WalOK
<1>2. CASE wal' = wal /\ walSynced' = walSynced /\ nextSeq' = nextSeq + 1 /\ torn' \in [Shards -> BOOLEAN]
  <2>1. \A r \in Shards : \A k \in DOMAIN wal[r] : wal[r][k].seq \in Nat
    <3>1. \A r \in Shards : \A k \in DOMAIN wal[r] : wal[r][k] \in Entry
      BY DEF WalOK
    <3> QED
      BY <3>1 DEF Entry
  <2>2. SeqsIncrease'
    BY <1>2, <2>1 DEF WalOK, SeqsIncrease
  <2> QED
    BY <1>2, <2>2 DEF WalOK
<1> QED
  BY <1>0, <1>1, <1>2 DEF WalAppend, WalAppendFails, WalOK

(* What a crash leaves of the WALs, and the entries it leaves to replay. *)
Left(n) ==
    /\ n \in [Shards -> 0 .. MaxWrites]
    /\ \A s \in Shards : walSynced[s] <= n[s] /\ n[s] <= Len(wal[s])
    /\ wal' = [s \in Shards |-> SubSeq(wal[s], 1, n[s])] /\ walSynced' = n
    /\ todo' \in SortBySeq(UNION {SE!ToSet(wal'[s]) : s \in Shards})
    /\ nextSeq' = NextSeqAfter(todo')

LEMMA RestartLeft ==
  ASSUME Restart PROVE \E n : Left(n)
BY DEF Restart, Left

LEMMA LeftPrefix ==
  ASSUME WalOK, NEW n, Left(n), NEW s \in Shards
  PROVE  /\ wal'[s] \in Seq(Entry) /\ Len(wal'[s]) = n[s] /\ n[s] \in Nat /\ n[s] <= Len(wal[s])
         /\ DOMAIN wal'[s] = 1 .. n[s] /\ walSynced[s] <= n[s] /\ walSynced'[s] = n[s]
         /\ \A i \in 1 .. n[s] : i \in DOMAIN wal[s] /\ wal'[s][i] = wal[s][i]
<1>1. /\ wal[s] \in Seq(Entry) /\ n[s] \in Nat /\ n[s] <= Len(wal[s]) /\ wal'[s] = SubSeq(wal[s], 1, n[s])
      /\ Len(wal[s]) \in Nat /\ DOMAIN wal[s] = 1 .. Len(wal[s])
      /\ walSynced[s] <= n[s] /\ walSynced'[s] = n[s]
  BY WalFacts DEF Left
<1>2. \A i \in 1 .. n[s] : i \in DOMAIN wal[s] /\ wal[s][i] \in Entry
  BY <1>1
<1>3. PICK m \in Nat : m = n[s]
  BY <1>1
<1>4. /\ SubSeq(wal[s], 1, m) \in Seq(Entry)
      /\ Len(SubSeq(wal[s], 1, m)) = IF 1 <= m THEN m - 1 + 1 ELSE 0
      /\ \A i \in 1 .. m - 1 + 1 : SubSeq(wal[s], 1, m)[i] = wal[s][1 + i - 1]
  BY <1>2, <1>3, SubSeqProperties
<1>5. Len(wal'[s]) = m /\ wal'[s] \in Seq(Entry)
  BY <1>1, <1>3, <1>4
<1>6. \A i \in 1 .. m : wal'[s][i] = wal[s][i]
  BY <1>1, <1>3, <1>4
<1> QED
  BY <1>1, <1>2, <1>3, <1>5, <1>6

LEMMA LeftTyped ==
  ASSUME WalOK, NEW n, Left(n), torn' \in [Shards -> BOOLEAN]
  PROVE  WalOK' /\ todo' \in Seq(Entry)
<1>1. wal' \in [Shards -> Seq(Entry)] /\ walSynced' \in [Shards -> Nat]
      /\ \A s \in Shards : walSynced'[s] <= Len(wal'[s])
  <2>1. \A s \in Shards : wal'[s] \in Seq(Entry) /\ walSynced'[s] \in Nat /\ walSynced'[s] <= Len(wal'[s])
    BY LeftPrefix
  <2> QED
    BY <2>1 DEF Left
<1>2. PICK w : w = wal'
  OBVIOUS
<1>3. PICK l : l = todo'
  OBVIOUS
<1>4. w \in [Shards -> Seq(Entry)] /\ l \in SortBySeq(UNION {SE!ToSet(w[s]) : s \in Shards})
  BY <1>1, <1>2, <1>3 DEF Left
<1>5. /\ l \in Seq(Entry)
      /\ \A s \in Shards : \A i \in DOMAIN w[s] : \E q \in DOMAIN l : l[q] = w[s][i]
      /\ \A q, p \in DOMAIN l : q < p => l[q].seq <= l[p].seq
  BY <1>4, SortedEntries
<1>6. /\ DOMAIN l = 1 .. Len(l) /\ Len(l) \in Nat /\ \A q \in DOMAIN l : l[q].seq \in Nat
  <2>1. DOMAIN l = 1 .. Len(l) /\ Len(l) \in Nat /\ \A q \in DOMAIN l : l[q] \in Entry
    BY <1>5
  <2> QED
    BY <2>1 DEF Entry
<1>7. nextSeq' = IF l = <<>> THEN 0 ELSE l[Len(l)].seq + 1
  BY <1>3 DEF Left, NextSeqAfter, SE!Last
<1>8. nextSeq' \in Nat /\ \A q \in DOMAIN l : l[q].seq < nextSeq'
  <2>1. CASE l = <<>>
    BY <1>6, <1>7, <2>1
  <2>2. CASE l # <<>>
    <3>1. Len(l) \in DOMAIN l
      BY <1>5, <1>6, <2>2
    <3>2. \A q \in DOMAIN l : l[q].seq <= l[Len(l)].seq
      BY <1>5, <1>6, <3>1
    <3> QED
      BY <1>6, <1>7, <2>2, <3>1, <3>2
  <2> QED
    BY <2>1, <2>2
<1>9. SeqsIncrease'
  <2> SUFFICES ASSUME NEW s \in Shards, NEW i \in DOMAIN wal'[s]
               PROVE  /\ wal'[s][i].seq < nextSeq'
                      /\ \A j \in DOMAIN wal'[s] : i < j => wal'[s][i].seq < wal'[s][j].seq
    BY DEF SeqsIncrease
  <2>1. wal'[s][i].seq < nextSeq'
    BY <1>2, <1>5, <1>8
  <2>2. \A j \in DOMAIN wal'[s] : j \in DOMAIN wal[s] /\ wal'[s][j] = wal[s][j]
    BY LeftPrefix
  <2>3. \A k, j \in DOMAIN wal[s] : k < j => wal[s][k].seq < wal[s][j].seq
    BY WalFacts
  <2> QED
    BY <2>1, <2>2, <2>3
<1> QED
  BY <1>1, <1>3, <1>5, <1>8, <1>9 DEF WalOK

LEMMA ApplyTyped == ASSUME AllOK, NEW t \in Sessions, Apply(t) PROVE AllOK'
<1>1. PICK c \in Commands(writes + 1) : \E K \in SUBSET Keys :
         /\ Execute(c, K) /\ cmd' = [cmd EXCEPT ![t] = c]
         /\ tail' = [k \in Keys |-> IF k \in K THEN tail[k] \cup {[id |-> c.id, val |-> c.val]} ELSE tail[k]]
         /\ risk' = [k \in Keys |-> risk[k] \cup Dangers(c, K, k)]
  BY DEF Apply
<1>2. PICK K \in SUBSET Keys :
         /\ Execute(c, K) /\ cmd' = [cmd EXCEPT ![t] = c]
         /\ tail' = [k \in Keys |-> IF k \in K THEN tail[k] \cup {[id |-> c.id, val |-> c.val]} ELSE tail[k]]
         /\ risk' = [k \in Keys |-> risk[k] \cup Dangers(c, K, k)]
  BY <1>1
<1>3. /\ writes + 1 \in 1 .. MaxWrites /\ writes' = writes + 1
      /\ UNCHANGED <<walVars, phase, todo, flushing, batch, moved, crashes>>
  BY DurabilityAssumption DEF Apply, AllOK, HistOK
<1>4. c \in AnyCommand /\ c.id = writes + 1
  BY <1>3, CommandTyped
<1>5. c.val \in Values \cup {NoVal} /\ c.id \in 0 .. MaxWrites
  BY <1>3, <1>4, AnyCommandTyped
<1>6. MapOK'
  BY <1>2, <1>4, ExecuteTyped DEF AllOK
<1>7. HistOK'
  <2>1. writes' \in 0 .. MaxWrites /\ crashes' = crashes /\ moved' = moved
    BY <1>3
  <2>2. [id |-> c.id, val |-> c.val] \in [id : 0 .. MaxWrites, val : Values \cup {NoVal}]
    BY <1>5
  <2>3. risk' \in [Keys -> SUBSET Causes]
    BY <1>2 DEF AllOK, HistOK, Dangers
  <2>4. tail' \in [Keys -> SUBSET [id : 0 .. MaxWrites, val : Values \cup {NoVal}]]
    BY <1>2, <2>2 DEF AllOK, HistOK
  <2> QED
    BY <2>1, <2>3, <2>4 DEF AllOK, HistOK
<1>8. SessionOK'
  BY <1>2, <1>3, <1>4 DEF AllOK, SessionOK
<1>9. WalOK' /\ RunOK'
  BY <1>3 DEF AllOK, WalOK, RunOK, walVars, SeqsIncrease
<1> QED
  BY <1>6, <1>7, <1>8, <1>9 DEF AllOK

LEMMA LogTyped == ASSUME AllOK, NEW t \in Sessions, Log(t) PROVE AllOK'
<1>1. PICK c : c = cmd[t]
  OBVIOUS
<1>2. /\ c # NoCmd /\ cmd' = [cmd EXCEPT ![t] = NoCmd]
      /\ UNCHANGED <<mapVars, phase, todo, flushing, tail, moved, writes, crashes>>
      /\ UNCHANGED walVars \/ WalAppend(c) \/ WalAppendFails(c)
      /\ UNCHANGED risk \/ WalAppend(c)
      /\ batch' = batch \/ batch' = [batch EXCEPT ![t] = @ \cup {c.id}]
  BY <1>1 DEF Log, WalAppend, WalAppendFails, LogShard
<1>3. c \in AnyCommand
  BY <1>1, <1>2 DEF AllOK, SessionOK
<1>4. c.id \in 1 .. MaxWrites
  BY <1>3, AnyCommandTyped
<1>5. WalOK'
  <2>1. CASE UNCHANGED walVars
    BY <2>1 DEF AllOK, WalOK, walVars, SeqsIncrease
  <2> QED
    BY <1>2, <1>3, <2>1, AppendTyped DEF AllOK
<1>6. SessionOK'
  BY <1>2, <1>4 DEF AllOK, SessionOK
<1>7. MapOK' /\ RunOK'
  BY <1>2 DEF AllOK, MapOK, RunOK, mapVars
<1>8. HistOK'
  <2>1. risk' \in [Keys -> SUBSET Causes]
    BY <1>2 DEF AllOK, HistOK, WalAppend, Causes
  <2> QED
    BY <1>2, <2>1 DEF AllOK, HistOK
<1> QED
  BY <1>5, <1>6, <1>7, <1>8 DEF AllOK

LEMMA SyncTyped ==
  ASSUME WalOK, NEW S, SyncWAL(S), UNCHANGED <<wal, torn, nextSeq>> PROVE WalOK'
<1>1. \A s \in Shards : Len(wal[s]) \in Nat /\ walSynced[s] \in Nat /\ walSynced[s] <= Len(wal[s])
  BY WalFacts
<1>2. walSynced' \in [Shards -> Nat] /\ \A s \in Shards : walSynced'[s] <= Len(wal'[s])
  BY <1>1 DEF SyncWAL
<1> QED
  BY <1>2 DEF WalOK, SeqsIncrease

LEMMA BatchTyped ==
  ASSUME AllOK, NEW t \in Sessions, Acknowledge(t) \/ SyncFails(t) PROVE AllOK'
<1>1. WalOK'
  BY SyncTyped DEF AllOK, Acknowledge, SyncFails
<1>2. SessionOK' /\ MapOK' /\ RunOK'
  BY DEF AllOK, Acknowledge, SyncFails, SessionOK, MapOK, RunOK, mapVars
<1>3. HistOK'
  BY DEF AllOK, Acknowledge, SyncFails, HistOK, histVars, Since
<1> QED
  BY <1>1, <1>2, <1>3 DEF AllOK

LEMMA RecoveredTyped ==
  ASSUME AllOK, NEW k \in Keys
  PROVE  Recovered(k) \subseteq tail[k]
         /\ {[id |-> 0, val |-> kv[k]]} \subseteq [id : 0 .. MaxWrites, val : Values \cup {NoVal}]
<1>1. kv[k] \in Values \cup {NoVal} /\ 0 \in 0 .. MaxWrites
  BY DurabilityAssumption DEF AllOK, MapOK
<1> QED
  BY <1>1 DEF Recovered

LEMMA FlushDoneTyped ==
  ASSUME AllOK, FlushDone, UNCHANGED <<todo>> PROVE RunOK'
BY DEF AllOK, FlushDone, RunOK, NoFlush

LEMMA ClearTyped ==
  ASSUME AllOK, NEW s \in Shards, ClearWAL(s) PROVE AllOK'
<1>1. /\ wal' = [wal EXCEPT ![s] = <<>>] /\ walSynced' = [walSynced EXCEPT ![s] = 0]
      /\ torn' = [torn EXCEPT ![s] = FALSE] /\ nextSeq' = nextSeq
  BY DEF ClearWAL
<1>2. wal' \in [Shards -> Seq(Entry)] /\ walSynced' \in [Shards -> Nat] /\ torn' \in [Shards -> BOOLEAN]
  BY <1>1 DEF AllOK, WalOK
<1>3. ASSUME NEW r \in Shards
      PROVE  \/ wal'[r] = wal[r] /\ walSynced'[r] = walSynced[r]
             \/ DOMAIN wal'[r] = {} /\ Len(wal'[r]) = 0 /\ walSynced'[r] = 0
  <2>1. CASE r = s
    <3>1. wal'[r] = <<>> /\ walSynced'[r] = 0
      BY <1>1, <2>1 DEF AllOK, WalOK
    <3> QED
      BY <3>1
  <2>2. CASE r # s
    BY <1>1, <2>2 DEF AllOK, WalOK
  <2> QED
    BY <2>1, <2>2
<1>4. SeqsIncrease'
  BY <1>1, <1>3 DEF AllOK, WalOK, SeqsIncrease
<1>5. \A r \in Shards : walSynced'[r] <= Len(wal'[r])
  BY <1>3 DEF AllOK, WalOK
<1>6. WalOK'
  BY <1>1, <1>2, <1>4, <1>5 DEF AllOK, WalOK
<1>7. RunOK' /\ HistOK'
  <2>1. CASE /\ FlushDone /\ risk' = [k \in Keys |-> IF FreshStart(k) THEN {} ELSE risk[k]]
             /\ tail' = [k \in Keys |-> IF FreshStart(k) THEN {[id |-> 0, val |-> kv[k]]} ELSE Recovered(k)]
    <3>1. tail' \in [Keys -> SUBSET [id : 0 .. MaxWrites, val : Values \cup {NoVal}]]
      <4>1. ASSUME NEW k \in Keys PROVE tail'[k] \subseteq [id : 0 .. MaxWrites, val : Values \cup {NoVal}]
        BY <2>1, RecoveredTyped DEF AllOK, HistOK
      <4> QED
        BY <2>1, <4>1
    <3>2. risk' \in [Keys -> SUBSET Causes]
      BY <2>1 DEF AllOK, HistOK
    <3> QED
      BY <2>1, <3>1, <3>2, FlushDoneTyped DEF ClearWAL, AllOK, HistOK
  <2>2. CASE flushing' = [flushing EXCEPT !.left = @ \ {s}] /\ UNCHANGED <<phase, tail, risk>>
    BY <2>2 DEF ClearWAL, AllOK, RunOK, HistOK
  <2> QED
    BY <2>1, <2>2 DEF ClearWAL
<1>8. MapOK' /\ SessionOK'
  BY DEF ClearWAL, AllOK, MapOK, SessionOK, mapVars, sessionVars
<1> QED
  BY <1>6, <1>7, <1>8 DEF AllOK

LEMMA FlushTyped == ASSUME AllOK, FlushNext PROVE AllOK'
<1>1. CASE FlushBegin \/ ClearBegin
  <2>0. flushing \in [stage : {"none", "shards", "clear"}, left : SUBSET Shards, ok : BOOLEAN]
    BY DEF AllOK, RunOK
  <2>1. RunOK'
    <3>1. CASE FlushBegin
      BY <3>1 DEF FlushBegin, AllOK, RunOK
    <3>2. CASE ClearBegin
      <4>1. flushing' = [flushing EXCEPT !.stage = "clear", !.left = Shards]
        BY <3>2 DEF ClearBegin
      <4>2. flushing' \in [stage : {"none", "shards", "clear"}, left : SUBSET Shards, ok : BOOLEAN]
        BY <2>0, <4>1
      <4> QED
        BY <3>2, <4>2 DEF ClearBegin, AllOK, RunOK
    <3> QED
      BY <1>1, <3>1, <3>2
  <2>2. UNCHANGED <<mapVars, walVars, sessionVars, histVars>>
    BY <1>1 DEF FlushBegin, ClearBegin
  <2> QED
    BY <2>1, <2>2 DEF AllOK, MapOK, WalOK, SeqsIncrease, SessionOK, HistOK,
                      mapVars, walVars, sessionVars, histVars
<1>2. CASE FlushKeepsWAL
  <2>1. RunOK'
    BY <1>2, FlushDoneTyped DEF FlushKeepsWAL
  <2>3. HistOK'
    <3>1. ASSUME NEW k \in Keys PROVE tail'[k] \subseteq [id : 0 .. MaxWrites, val : Values \cup {NoVal}]
      BY <1>2, RecoveredTyped DEF FlushKeepsWAL, AllOK, HistOK
    <3> QED
      BY <1>2, <3>1 DEF FlushKeepsWAL, AllOK, HistOK
  <2>2. UNCHANGED <<mapVars, walVars, sessionVars>>
    BY <1>2 DEF FlushKeepsWAL
  <2> QED
    BY <2>1, <2>2, <2>3 DEF AllOK, MapOK, WalOK, SeqsIncrease, SessionOK, mapVars, walVars, sessionVars
<1>3. ASSUME NEW s \in Shards, FlushShard(s) PROVE AllOK'
  <2>1. RunOK'
    BY <1>3 DEF FlushShard, AllOK, RunOK
  <2>2. MapOK'
    BY <1>3 DEF FlushShard, AllOK, MapOK, Flush, mapVars
  <2>3. UNCHANGED <<walVars, sessionVars>>
    BY <1>3 DEF FlushShard
  <2>4. HistOK'
    BY <1>3 DEF FlushShard, AllOK, HistOK
  <2> QED
    BY <2>1, <2>2, <2>3, <2>4 DEF AllOK, WalOK, SeqsIncrease, SessionOK, walVars, sessionVars
<1> QED
  BY <1>1, <1>2, <1>3, ClearTyped DEF FlushNext

LEMMA RestartTyped == ASSUME AllOK, Restart PROVE AllOK'
<1>1. PICK n : Left(n)
  BY RestartLeft
<1>2. torn' \in [Shards -> BOOLEAN]
  BY DEF Restart
<1>3. WalOK' /\ todo' \in Seq(Entry)
  BY <1>1, <1>2, LeftTyped DEF AllOK
<1>4. MapOK'
  <2>1. /\ kv' \in [Keys -> Values \cup {NoVal}] /\ exposed' = {}
        /\ hist' = [k \in Keys |-> {kv'[k]}]
    BY DEF Restart, Crash
  <2>2. \A k \in Keys : {kv'[k]} \in SUBSET (Values \cup {NoVal})
    BY <2>1
  <2>3. hist' \in [Keys -> SUBSET (Values \cup {NoVal})]
    BY <2>1, <2>2
  <2> QED
    BY <2>1, <2>3 DEF MapOK
<1>5. RunOK' /\ SessionOK'
  BY <1>3 DEF Restart, RunOK, SessionOK, NoFlush
<1>6. HistOK'
  <2>1. risk' \in [Keys -> SUBSET Causes]
    BY DEF Restart, AllOK, HistOK, LostBy, Causes
  <2> QED
    BY <2>1, DurabilityAssumption DEF Restart, AllOK, HistOK
<1> QED
  BY <1>3, <1>4, <1>5, <1>6 DEF AllOK

LEMMA ReplayTyped == ASSUME AllOK, Replay PROVE AllOK'
<1>1. PICK c : c = Head(todo).cmd
  OBVIOUS
<1>2. todo \in Seq(Entry) /\ todo # <<>>
  BY DEF AllOK, RunOK, Replay
<1>3. Head(todo) \in Entry /\ Tail(todo) \in Seq(Entry)
  BY <1>2, HeadTailProperties
<1>4. c \in AnyCommand
  BY <1>1, <1>3 DEF Entry
<1>5. UNCHANGED <<walVars, phase, flushing, sessionVars, tail, moved, writes, crashes>> /\ todo' = Tail(todo)
  BY DEF Replay
<1>6. MapOK' /\ HistOK'
  <2>1. CASE UNCHANGED <<mapVars, risk>>
    BY <1>5, <2>1 DEF AllOK, MapOK, mapVars, HistOK
  <2>2. CASE Execute(c, Affected(c)) /\ UNCHANGED risk
    BY <1>4, <1>5, <2>2, ExecuteTyped DEF AllOK, HistOK
  <2>3. ASSUME NEW R \in SUBSET Affected(c), WriteAll(Affected(c) \ R, c.val),
               risk' = [k \in Keys |-> IF k \in R THEN risk[k] \cup {"refused"} ELSE risk[k]]
        PROVE  MapOK' /\ HistOK'
    <3>1. Affected(c) \ R \in SUBSET Keys /\ c.val \in Values \cup {NoVal}
      BY <1>4, AffectedTyped, AnyCommandTyped
    <3>2. MapOK'
      BY <2>3, <3>1, WriteAllTyped DEF AllOK
    <3>3. risk' \in [Keys -> SUBSET Causes]
      BY <2>3 DEF AllOK, HistOK, Causes
    <3> QED
      BY <1>5, <3>2, <3>3 DEF AllOK, HistOK
  <2> QED
    BY <1>1, <2>1, <2>2, <2>3 DEF Replay
<1>7. RunOK'
  BY <1>3, <1>5 DEF AllOK, RunOK
<1>8. WalOK' /\ SessionOK'
  BY <1>5 DEF AllOK, WalOK, SeqsIncrease, SessionOK, walVars, sessionVars
<1> QED
  BY <1>6, <1>7, <1>8 DEF AllOK

LEMMA StutterTyped == ASSUME AllOK, UNCHANGED vars PROVE AllOK'
BY DEF AllOK, MapOK, WalOK, SeqsIncrease, RunOK, SessionOK, HistOK,
       vars, mapVars, walVars, sessionVars, histVars

LEMMA NextTyped == ASSUME AllOK, [Next]_vars PROVE AllOK'
<1>1. CASE \E k \in Keys : Relocate(k)
  <2>1. MapOK' /\ HistOK'
    BY <1>1 DEF Relocate, Move, AllOK, MapOK, HistOK
  <2>2. UNCHANGED <<walVars, phase, todo, flushing, sessionVars>>
    BY <1>1 DEF Relocate
  <2> QED
    BY <2>1, <2>2 DEF AllOK, WalOK, SeqsIncrease, RunOK, SessionOK, walVars, sessionVars
<1> QED
  BY <1>1, ApplyTyped, LogTyped, BatchTyped, FlushTyped, RestartTyped, ReplayTyped, StutterTyped
     DEF Next, SessionNext

LEMMA InitTyped == Init => AllOK
<1> SUFFICES ASSUME Init PROVE AllOK
  OBVIOUS
<1>1. MapOK
  BY DEF Init, MapInit, MapOK
<1>2. WalOK
  <2>1. \A s \in Shards : wal[s] = <<>> /\ walSynced[s] = 0
    BY DEF Init
  <2>2. \A s \in Shards : DOMAIN wal[s] = {} /\ Len(wal[s]) = 0
    BY <2>1
  <2>3. SeqsIncrease
    BY <2>2 DEF SeqsIncrease
  <2> QED
    BY <2>1, <2>2, <2>3 DEF Init, WalOK
<1>3. RunOK /\ SessionOK
  BY DEF Init, RunOK, SessionOK, NoFlush
<1>4. HistOK
  BY DurabilityAssumption DEF Init, HistOK
<1> QED
  BY <1>1, <1>2, <1>3, <1>4 DEF AllOK

LEMMA AlwaysOK == Spec => []AllOK
<1>1. AllOK /\ [Next]_vars => AllOK'
  BY NextTyped
<1> QED
  BY <1>1, InitTyped, PTL DEF Spec

(***************************************************************************)
(* ShardManager, WAL and the sessions keep their variables well formed; in *)
(* particular no WAL is synced beyond what was written to it.              *)
(***************************************************************************)
THEOREM DurabilityTyped == Spec => []TypeOK
BY AlwaysOK, AllOKIs, PTL

(***************************************************************************)
(* WAL::append and replayAllWAL: whatever a crash cuts off the WALs, and   *)
(* wherever nextSeq resumes, a record replays after all those before it.   *)
(***************************************************************************)
THEOREM SeqsAlwaysIncrease == Spec => []SeqsIncrease
BY AlwaysOK, AllOKIs, PTL
-----------------------------------------------------------------------------
(* Flushes *)

LEMMA FlushSafeKept ==
  ASSUME FlushSafe, UNCHANGED <<flushing, phase, todo, kv, hist, wal, cmd>>,
         \A k \in Keys : k \in exposed' => k \in moved' \/ k \in exposed,
         \A k \in Keys : k \in moved => k \in moved',
         \A k \in Keys : "early" \in risk[k] => "early" \in risk'[k]
  PROVE  FlushSafe'
BY DEF FlushSafe, Flushed

LEMMA FlushNextSafe == ASSUME AllOK, FlushSafe, Quiet, FlushNext PROVE FlushSafe'
<1>0. /\ flushing \in [stage : {"none", "shards", "clear"}, left : SUBSET Shards, ok : BOOLEAN]
      /\ \A k \in Keys : ShardOf[k] \in Shards
      /\ phase \in {"up", "replay"}
  BY DurabilityAssumption DEF AllOK, RunOK
<1>1. CASE FlushBegin
  <2>1. /\ flushing' = [stage |-> "shards", left |-> Shards, ok |-> TRUE] /\ todo = <<>>
        /\ phase = "up" => \A t \in Sessions : cmd[t] = NoCmd
        /\ UNCHANGED <<phase, todo, cmd>>
    BY <1>0, <1>1 DEF FlushBegin, Quiet, sessionVars
  <2> QED
    BY <1>0, <2>1 DEF FlushSafe, Flushed
<1>2. CASE FlushKeepsWAL
  BY <1>2 DEF FlushKeepsWAL, FlushDone, NoFlush, FlushSafe
<1>3. CASE ClearBegin
  <2>1. /\ flushing' = [stage |-> "clear", left |-> Shards, ok |-> flushing.ok]
        /\ flushing.stage = "shards" /\ flushing.left = {} /\ flushing.ok
        /\ UNCHANGED <<kv, hist, exposed, moved, risk, cmd, phase, todo>>
    BY <1>0, <1>3 DEF ClearBegin, mapVars, histVars, sessionVars
  <2> QED
    BY <2>1 DEF FlushSafe, Flushed
<1>4. ASSUME NEW s \in Shards, FlushShard(s) PROVE FlushSafe'
  <2>1. flushing.stage = "shards" /\ UNCHANGED <<phase, todo, cmd, risk>>
    BY <1>4 DEF FlushShard, sessionVars
  <2>2. CASE /\ Flush(KeysOf(s)) /\ moved' = moved \ KeysOf(s)
             /\ flushing' = [flushing EXCEPT !.left = @ \ {s}]
    <3>1. flushing' = [stage |-> "shards", left |-> flushing.left \ {s}, ok |-> flushing.ok]
      BY <1>0, <2>1, <2>2
    <3>2. /\ kv' = kv /\ \A k \in Keys : hist'[k] = IF ShardOf[k] = s THEN {kv[k]} ELSE hist[k]
          /\ \A k \in Keys : k \in exposed' <=> k \in exposed /\ ShardOf[k] # s
          /\ \A k \in Keys : k \in moved' <=> k \in moved /\ ShardOf[k] # s
      BY <2>2 DEF Flush, KeysOf
    <3> QED
      BY <2>1, <3>1, <3>2 DEF FlushSafe, Flushed
  <2>3. CASE flushing' = [flushing EXCEPT !.left = @ \ {s}, !.ok = FALSE] /\ UNCHANGED mapVars
    <3>1. flushing' = [stage |-> "shards", left |-> flushing.left \ {s}, ok |-> FALSE]
      BY <1>0, <2>1, <2>3
    <3> QED
      BY <2>1, <3>1 DEF FlushSafe
  <2> QED
    BY <1>4, <2>2, <2>3 DEF FlushShard
<1>5. ASSUME NEW s \in Shards, ClearWAL(s) PROVE FlushSafe'
  <2>1. CASE FlushDone
    BY <2>1 DEF FlushDone, NoFlush, FlushSafe
  <2>2. CASE flushing' = [flushing EXCEPT !.left = @ \ {s}] /\ UNCHANGED <<phase, tail, risk>>
    <3>1. flushing' = [stage |-> "clear", left |-> flushing.left \ {s}, ok |-> flushing.ok]
      BY <1>0, <1>5, <2>2 DEF ClearWAL
    <3>2. flushing.stage = "clear" /\ UNCHANGED <<kv, hist, exposed, moved, risk, cmd, phase, todo>>
      BY <1>5, <2>2 DEF ClearWAL, mapVars, sessionVars
    <3>3. \A r \in Shards : wal'[r] = IF r = s THEN <<>> ELSE wal[r]
      BY <1>5 DEF ClearWAL, AllOK, WalOK
    <3> QED
      BY <3>1, <3>2, <3>3 DEF FlushSafe, Flushed
  <2> QED
    BY <1>5, <2>1, <2>2 DEF ClearWAL
<1> QED
  BY <1>1, <1>2, <1>3, <1>4, <1>5 DEF FlushNext

(* What a command writes, and what it leaves alone. *)
LEMMA ExecuteChanges ==
  ASSUME AllOK, NEW c, NEW K, Execute(c, K)
  PROVE  /\ \A k \in Keys : k \notin K => kv'[k] = kv[k] /\ hist'[k] = hist[k]
         /\ \A k \in Keys : k \in K => hist'[k] = hist[k] \cup {kv'[k]}
         /\ \A k \in Keys : k \in exposed' => k \in exposed \/ (k \in K /\ c.op \in Sets)
         /\ \A k \in Keys : k \in K => kv'[k] = IF c.op \in Sets THEN c.val ELSE NoVal
<1>1. CASE c.op \in Sets /\ WriteAll(K, c.val)
  BY <1>1 DEF WriteAll, AllOK, MapOK
<1>2. CASE c.op \notin Sets /\ Delete(K)
  BY <1>2 DEF Delete, AllOK, MapOK
<1> QED
  BY <1>1, <1>2 DEF Execute

(* What Apply does. *)
Applies(t, c, K) ==
    /\ c \in AnyCommand /\ c.id = writes + 1 /\ K \in SUBSET Keys /\ Execute(c, K)
    /\ cmd[t] = NoCmd /\ cmd' = [cmd EXCEPT ![t] = c] /\ SharedLockFree
    /\ tail' = [k \in Keys |-> IF k \in K THEN tail[k] \cup {WriteOf(c)} ELSE tail[k]]
    /\ risk' = [k \in Keys |-> risk[k] \cup Dangers(c, K, k)]
    /\ writes' = writes + 1
    /\ UNCHANGED <<wal, walSynced, torn, phase, todo, flushing, batch, moved>>

LEMMA ApplyApplies ==
  ASSUME AllOK, NEW t \in Sessions, Apply(t) PROVE \E c, K : Applies(t, c, K)
<1>1. PICK c \in Commands(writes + 1) : \E K \in SUBSET Keys :
         /\ Execute(c, K) /\ cmd' = [cmd EXCEPT ![t] = c]
         /\ tail' = [k \in Keys |-> IF k \in K THEN tail[k] \cup {[id |-> c.id, val |-> c.val]} ELSE tail[k]]
         /\ risk' = [k \in Keys |-> risk[k] \cup Dangers(c, K, k)]
  BY DEF Apply
<1>2. PICK K \in SUBSET Keys :
         /\ Execute(c, K) /\ cmd' = [cmd EXCEPT ![t] = c]
         /\ tail' = [k \in Keys |-> IF k \in K THEN tail[k] \cup {[id |-> c.id, val |-> c.val]} ELSE tail[k]]
         /\ risk' = [k \in Keys |-> risk[k] \cup Dangers(c, K, k)]
  BY <1>1
<1>3. /\ writes + 1 \in 1 .. MaxWrites /\ writes' = writes + 1 /\ cmd[t] = NoCmd /\ SharedLockFree
      /\ UNCHANGED <<walVars, phase, todo, flushing, batch, moved>>
  BY DurabilityAssumption DEF Apply, AllOK, HistOK
<1>4. c \in AnyCommand /\ c.id = writes + 1
  BY <1>3, CommandTyped
<1> QED
  BY <1>2, <1>3, <1>4 DEF Applies, WriteOf, walVars

LEMMA NextFlushSafe ==
  ASSUME AllOK, FlushSafe, Quiet, [Next]_vars PROVE FlushSafe'
<1>1. ASSUME NEW t \in Sessions, Apply(t) PROVE FlushSafe'
  <2>1. PICK c, K : Applies(t, c, K)
    BY <1>1, ApplyApplies
  <2>2. CASE flushing.stage = "none"
    BY <2>1, <2>2 DEF Applies, FlushSafe
  <2>3. CASE phase = "replay"
    <3>1. \A k \in Keys : k \in K => "early" \in risk'[k]
      BY <2>1, <2>3 DEF Applies, Dangers, Causes
    <3>2. \A k \in Keys : "early" \in risk[k] => "early" \in risk'[k]
      BY <2>1 DEF Applies
    <3>3. \A k \in Keys : k \notin K => kv'[k] = kv[k] /\ hist'[k] = hist[k] /\ (k \in exposed' => k \in exposed)
      BY <2>1, ExecuteChanges DEF Applies
    <3>4. UNCHANGED <<flushing, phase, todo, wal, moved>>
      BY <2>1 DEF Applies
    <3> QED
      BY <2>3, <3>1, <3>2, <3>3, <3>4 DEF FlushSafe, Flushed
  <2> QED
    BY <2>1, <2>2, <2>3 DEF Applies, SharedLockFree
<1>2. ASSUME NEW t \in Sessions, Log(t) PROVE FlushSafe'
  <2>1. CASE flushing.stage = "none"
    BY <1>2, <2>1 DEF Log, FlushSafe
  <2>2. CASE flushing.stage # "none"
    <3>1. phase = "replay" /\ UNCHANGED <<walVars, risk, mapVars, phase, todo, flushing, moved>>
      BY <1>2, <2>2 DEF Log, FlushSafe
    <3> QED
      BY <3>1 DEF FlushSafe, Flushed, walVars, mapVars
  <2> QED
    BY <2>1, <2>2
<1>3. ASSUME NEW t \in Sessions, Acknowledge(t) \/ SyncFails(t) PROVE FlushSafe'
  BY <1>3, FlushSafeKept DEF Acknowledge, SyncFails, mapVars, histVars
<1>4. CASE Restart
  BY <1>4 DEF Restart, NoFlush, FlushSafe
<1>5. CASE Replay
  BY <1>5 DEF Replay, FlushSafe
<1>6. ASSUME NEW k \in Keys, Relocate(k) PROVE FlushSafe'
  BY <1>6, FlushSafeKept DEF Relocate, Move, walVars, sessionVars
<1>7. CASE UNCHANGED vars
  BY <1>7, FlushSafeKept DEF vars, mapVars, walVars, sessionVars, histVars
<1> QED
  BY <1>1, <1>2, <1>3, <1>4, <1>5, <1>6, <1>7, FlushNextSafe DEF Next, SessionNext

LEMMA NextQuiet == ASSUME AllOK, FlushSafe, Quiet, [Next]_vars PROVE Quiet'
<1>0. \A s \in Shards : Len(wal[s]) \in Nat
  BY WalFacts DEF AllOK
<1>1. ASSUME NEW t \in Sessions, Apply(t) \/ Log(t) PROVE Quiet'
  BY <1>1 DEF Apply, Log, walVars, Quiet
<1>2. ASSUME NEW t \in Sessions, Acknowledge(t) \/ SyncFails(t) PROVE Quiet'
  BY <1>0, <1>2 DEF Acknowledge, SyncFails, SyncWAL, Quiet
<1>3. CASE FlushBegin \/ ClearBegin \/ (\E s \in Shards : FlushShard(s)) \/ (\E k \in Keys : Relocate(k))
  BY <1>3 DEF FlushBegin, ClearBegin, FlushShard, Relocate, walVars, Quiet
<1>4. CASE FlushKeepsWAL
  BY <1>4 DEF FlushKeepsWAL, FlushDone, FlushSafe, Quiet
<1>5. ASSUME NEW s \in Shards, ClearWAL(s) PROVE Quiet'
  <2>1. \A r \in Shards : /\ wal'[r] = (IF r = s THEN <<>> ELSE wal[r])
                          /\ walSynced'[r] = IF r = s THEN 0 ELSE walSynced[r]
    BY <1>5 DEF ClearWAL, AllOK, WalOK
  <2>2. todo = <<>> /\ todo' = todo /\ (phase' = phase \/ phase' = "up")
    BY <1>5 DEF ClearWAL, FlushDone, FlushSafe
  <2>3. phase' = "replay" => \A r \in Shards : walSynced'[r] = Len(wal'[r])
    BY <2>1, <2>2 DEF Quiet
  <2> QED
    BY <2>2, <2>3 DEF Quiet
<1>6. CASE Restart
  <2>1. PICK n : Left(n)
    BY <1>6, RestartLeft
  <2>2. \A s \in Shards : walSynced'[s] = Len(wal'[s])
    BY <2>1, LeftPrefix DEF AllOK
  <2> QED
    BY <1>6, <2>2 DEF Restart, Quiet
<1>7. CASE Replay
  BY <1>7 DEF Replay, walVars, Quiet
<1>8. CASE UNCHANGED vars
  BY <1>8 DEF vars, walVars, Quiet
<1> QED
  BY <1>1, <1>2, <1>3, <1>4, <1>5, <1>6, <1>7, <1>8 DEF Next, SessionNext, FlushNext

LEMMA FlushSafeHolds == Spec => []FlushSafe
<1>1. Init => FlushSafe /\ Quiet
  BY DEF Init, NoFlush, FlushSafe, Quiet
<1>2. AllOK /\ FlushSafe /\ Quiet /\ [Next]_vars => FlushSafe' /\ Quiet'
  BY NextFlushSafe, NextQuiet
<1> QED
  BY <1>1, <1>2, AlwaysOK, PTL DEF Spec

(***************************************************************************)
(* ShardManager::flush and clearAllWAL: a WAL is cleared only when every   *)
(* write is on disk, whatever shards fail to flush and wherever crashes    *)
(* fall, except a write served before replayWAL was done.                  *)
(***************************************************************************)
THEOREM WALClearedWhenDurable == Spec => ClearedIsDurable
<1>1. FlushSafe => [ClearsDurable]_vars
  <2> SUFFICES ASSUME FlushSafe, NEW s \in Shards, ClearWAL(s), NEW k \in Keys, "early" \notin risk[k]
               PROVE  hist[k] = {kv[k]}
    BY DEF ClearsDurable
  <2> QED
    BY DEF FlushSafe, Flushed, ClearWAL
<1> QED
  BY <1>1, FlushSafeHolds, PTL DEF Spec, ClearedIsDurable

-----------------------------------------------------------------------------
(* Acknowledged writes: what holds of all keys *)

Histories == \A k \in Keys : kv[k] \in hist[k]

Base == AllOK /\ FlushSafe /\ Numbered /\ Quiet /\ Histories

(* The records of a key, and its shard. *)
LEMMA RecordFacts ==
  ASSUME AllOK, Numbered, NEW k \in Keys
  PROVE  /\ ShardOf[k] \in Shards /\ Records(k) \subseteq 1 .. Len(wal[ShardOf[k]])
         /\ Len(wal[ShardOf[k]]) \in Nat /\ walSynced[ShardOf[k]] \in Nat
         /\ walSynced[ShardOf[k]] <= Len(wal[ShardOf[k]])
         /\ \A i \in Records(k) : /\ i \in Nat /\ i <= Len(wal[ShardOf[k]])
                                  /\ Rec(k, i).key = k /\ Rec(k, i).id \in Nat
                                  /\ Rec(k, i).id <= writes
         /\ tail[k] \subseteq [id : 0 .. MaxWrites, val : Values \cup {NoVal}]
         /\ \A a \in tail[k] : a.id \in Nat /\ a.id <= writes
         /\ writes \in Nat
<1>1. ShardOf[k] \in Shards
  BY DurabilityAssumption
<1>2. PICK s \in Shards : s = ShardOf[k]
  BY <1>1
<1>3. /\ Len(wal[s]) \in Nat /\ walSynced[s] \in Nat /\ DOMAIN wal[s] = 1 .. Len(wal[s])
      /\ walSynced[s] <= Len(wal[s]) /\ \A i \in DOMAIN wal[s] : wal[s][i].cmd \in AnyCommand
  BY WalFacts DEF AllOK
<1>4. writes \in Nat
  BY DEF AllOK, HistOK
<1>5. \A i \in DOMAIN wal[s] : wal[s][i].cmd.id \in Nat /\ wal[s][i].cmd.id <= writes
  <2>1. \A i \in DOMAIN wal[s] : wal[s][i].cmd.id \in 1 .. MaxWrites
    BY <1>3, AnyCommandTyped
  <2> QED
    BY <2>1 DEF Numbered
<1>6. tail[k] \subseteq [id : 0 .. MaxWrites, val : Values \cup {NoVal}]
  BY DEF AllOK, HistOK
<1>7. \A a \in tail[k] : a.id \in Nat /\ a.id <= writes
  BY <1>6 DEF Numbered
<1> QED
  BY <1>1, <1>2, <1>3, <1>4, <1>5, <1>6, <1>7 DEF Records, Rec

(* The entry e is appended to the WAL of S. *)
LEMMA AppendedTo ==
  ASSUME WalOK, NEW S \in Shards, NEW e, NEW n \in Nat, n = Len(wal[S]) + 1,
         wal' = [wal EXCEPT ![S] = Append(@, e)]
  PROVE  /\ DOMAIN wal'[S] = 1 .. n /\ DOMAIN wal[S] = 1 .. n - 1 /\ n - 1 \in Nat /\ wal'[S][n] = e
         /\ \A i \in 1 .. n - 1 : wal'[S][i] = wal[S][i]
         /\ \A s \in Shards : s # S => wal'[s] = wal[s]
         /\ \A s \in Shards : \A i \in DOMAIN wal'[s] :
               \/ i \in DOMAIN wal[s] /\ wal'[s][i] = wal[s][i]
               \/ s = S /\ i = n /\ wal'[s][i] = e
<1>1. wal[S] \in Seq(Entry) /\ DOMAIN wal[S] = 1 .. n - 1 /\ Len(wal[S]) = n - 1
  BY WalFacts
<1>2. n - 1 \in Nat
  BY WalFacts
<1>3. wal'[S] = Append(wal[S], e) /\ \A s \in Shards : s # S => wal'[s] = wal[s]
  BY DEF WalOK
<1>4. DOMAIN wal'[S] = 1 .. n /\ wal'[S][n] = e /\ \A i \in 1 .. n - 1 : wal'[S][i] = wal[S][i]
  BY <1>1, <1>2, <1>3
<1>5. \A s \in Shards : \A i \in DOMAIN wal'[s] :
         \/ i \in DOMAIN wal[s] /\ wal'[s][i] = wal[s][i]
         \/ s = S /\ i = n /\ wal'[s][i] = e
  BY SMTT(20), <1>1, <1>2, <1>3, <1>4
<1> QED
  BY <1>1, <1>2, <1>3, <1>4, <1>5

(* What Log does. *)
Logs(t, c) ==
    /\ c = cmd[t] /\ c # NoCmd /\ c \in AnyCommand /\ cmd' = [cmd EXCEPT ![t] = NoCmd]
    /\ UNCHANGED <<kv, hist, exposed, phase, todo, flushing, tail, moved, writes, walSynced>>
    /\ \/ /\ phase = "replay" /\ UNCHANGED <<wal, risk>>
          /\ batch' = [batch EXCEPT ![t] = @ \cup {c.id}]
       \/ /\ phase = "up" /\ UNCHANGED <<wal, risk, batch>>
       \/ /\ phase = "up" /\ batch' = [batch EXCEPT ![t] = @ \cup {c.id}]
          /\ wal' = wal /\ \A k \in Keys : k = c.key \/ c.op \in Patterns => risk'[k] # {}
          /\ \A k \in Keys : risk[k] \subseteq risk'[k]
       \/ /\ phase = "up" /\ batch' = [batch EXCEPT ![t] = @ \cup {c.id}] /\ UNCHANGED risk
          /\ wal' = [wal EXCEPT ![LogShard(c)] = Append(@, [seq |-> nextSeq, cmd |-> c])]

LEMMA LogLogs == ASSUME AllOK, NEW t \in Sessions, Log(t) PROVE \E c : Logs(t, c)
<1>1. PICK c : c = cmd[t]
  OBVIOUS
<1>2. /\ c # NoCmd /\ cmd' = [cmd EXCEPT ![t] = NoCmd]
      /\ UNCHANGED <<kv, hist, exposed, phase, todo, flushing, tail, moved, writes>>
  BY <1>1 DEF Log, mapVars
<1>3. c \in AnyCommand
  BY <1>1, <1>2 DEF AllOK, SessionOK
<1>4. CASE phase = "replay" /\ UNCHANGED <<walVars, risk>> /\ batch' = [batch EXCEPT ![t] = @ \cup {cmd[t].id}]
  BY <1>1, <1>2, <1>3, <1>4 DEF Logs, walVars
<1>5. CASE phase = "up" /\ WalAppendFails(cmd[t]) /\ UNCHANGED batch
  BY <1>1, <1>2, <1>3, <1>5 DEF Logs, WalAppendFails
<1>6. CASE phase = "up" /\ WalAppend(cmd[t]) /\ batch' = [batch EXCEPT ![t] = @ \cup {cmd[t].id}]
  <2>1. CASE torn[LogShard(c)]
    <3>1. wal' = wal /\ walSynced' = walSynced
      BY <1>1, <1>6, <2>1 DEF WalAppend
    <3>2. \A k \in Keys : risk'[k] = IF k = c.key \/ c.op \in Patterns THEN risk[k] \cup {"torn"} ELSE risk[k]
      BY <1>1, <1>6, <2>1 DEF WalAppend
    <3> QED
      BY <1>1, <1>2, <1>3, <1>6, <3>1, <3>2 DEF Logs
  <2>2. CASE ~torn[LogShard(c)]
    <3>1. /\ wal' = [wal EXCEPT ![LogShard(c)] = Append(@, [seq |-> nextSeq, cmd |-> c])] /\ walSynced' = walSynced
      BY <1>1, <1>6, <2>2 DEF WalAppend
    <3>2. risk' = risk
      BY <1>1, <1>6, <2>2 DEF WalAppend, AllOK, HistOK
    <3> QED
      BY <1>1, <1>2, <1>3, <1>6, <3>1, <3>2 DEF Logs
  <2> QED
    BY <2>1, <2>2
<1> QED
  BY <1>4, <1>5, <1>6 DEF Log

LEMMA ClearWALs ==
  ASSUME AllOK, NEW s \in Shards, ClearWAL(s)
  PROVE  /\ \A r \in Shards : /\ wal'[r] = (IF r = s THEN <<>> ELSE wal[r])
                              /\ walSynced'[r] = IF r = s THEN 0 ELSE walSynced[r]
         /\ UNCHANGED <<kv, hist, exposed, todo, cmd, batch, moved, writes>>
BY DEF ClearWAL, AllOK, WalOK, mapVars, sessionVars

LEMMA NextNumbered == ASSUME AllOK, Numbered, [Next]_vars PROVE Numbered'
<1>0. writes \in Nat
  BY DEF AllOK, HistOK
<1>1. ASSUME NEW t \in Sessions, Apply(t) PROVE Numbered'
  <2>1. PICK c, K : Applies(t, c, K)
    BY <1>1, ApplyApplies
  <2>2. WriteOf(c).id = writes + 1 /\ c.id = writes + 1 /\ writes' = writes + 1 /\ UNCHANGED <<wal, batch>>
    BY <2>1 DEF Applies, WriteOf
  <2>3. \A k \in Keys : \A a \in tail'[k] : a.id <= writes'
    <3>1. \A k \in Keys : \A a \in tail[k] : a.id \in Nat /\ a.id <= writes
      BY RecordFacts
    <3>2. \A k \in Keys : \A a \in tail'[k] : a \in tail[k] \/ a = WriteOf(c)
      BY <2>1 DEF Applies
    <3> QED
      BY <1>0, <2>2, <3>1, <3>2
  <2>4. \A u \in Sessions : batch'[u] \subseteq 1 .. writes'
    BY <1>0, <2>2 DEF Numbered
  <2>5. \A u \in Sessions : cmd'[u] = NoCmd \/ cmd'[u].id <= writes'
    <3>1. \A u \in Sessions : cmd'[u] = IF u = t THEN c ELSE cmd[u]
      BY <2>1 DEF Applies, AllOK, SessionOK
    <3>2. \A u \in Sessions : cmd[u] = NoCmd \/ (cmd[u].id \in Nat /\ cmd[u].id <= writes)
      BY AnyCommandTyped DEF Numbered, AllOK, SessionOK
    <3> QED
      BY <1>0, <2>2, <3>1, <3>2
  <2>6. \A s \in Shards : \A i \in DOMAIN wal'[s] : wal'[s][i].cmd.id <= writes'
    <3>1. \A s \in Shards : \A i \in DOMAIN wal[s] : wal[s][i].cmd.id \in 1 .. MaxWrites
      BY WalFacts, AnyCommandTyped DEF AllOK
    <3> QED
      BY <1>0, <2>2, <3>1 DEF Numbered
  <2> QED
    BY <2>3, <2>4, <2>5, <2>6 DEF Numbered
<1>2. ASSUME NEW t \in Sessions, Log(t) PROVE Numbered'
  <2>1. PICK c : Logs(t, c)
    BY <1>2, LogLogs
  <2>2. c.id \in 1 .. writes /\ LogShard(c) \in Shards
    BY <1>0, <2>1, AnyCommandTyped DEF Logs, Numbered
  <2>3. UNCHANGED <<tail, writes>> /\ \A u \in Sessions : cmd'[u] = IF u = t THEN NoCmd ELSE cmd[u]
    BY <2>1 DEF Logs, AllOK, SessionOK
  <2>4. \A u \in Sessions : batch'[u] \subseteq batch[u] \cup {c.id}
    BY <2>1 DEF Logs, AllOK, SessionOK
  <2>5. \A s \in Shards : \A i \in DOMAIN wal'[s] : wal'[s][i].cmd.id <= writes
    <3>1. CASE wal' = wal
      BY <3>1 DEF Numbered
    <3>2. CASE wal' = [wal EXCEPT ![LogShard(c)] = Append(@, [seq |-> nextSeq, cmd |-> c])]
      <4>1. PICK S \in Shards : S = LogShard(c)
        BY <2>2
      <4>2. PICK e : e = [seq |-> nextSeq, cmd |-> c]
        OBVIOUS
      <4>3. PICK n \in Nat : n = Len(wal[S]) + 1
        BY WalFacts DEF AllOK
      <4>4. wal' = [wal EXCEPT ![S] = Append(@, e)]
        BY <3>2, <4>1, <4>2
      <4>5. \A s \in Shards : \A i \in DOMAIN wal'[s] :
               (i \in DOMAIN wal[s] /\ wal'[s][i] = wal[s][i]) \/ wal'[s][i] = e
        BY <4>3, <4>4, AppendedTo DEF AllOK
      <4> QED
        BY <1>0, <2>2, <4>2, <4>5 DEF Numbered
    <3> QED
      BY <2>1, <3>1, <3>2 DEF Logs
  <2> QED
    BY <2>2, <2>3, <2>4, <2>5 DEF Numbered
<1>3. ASSUME NEW t \in Sessions, Acknowledge(t) \/ SyncFails(t) PROVE Numbered'
  <2>1. UNCHANGED <<wal, cmd, writes>> /\ \A u \in Sessions : batch'[u] \subseteq batch[u]
    BY <1>3 DEF Acknowledge, SyncFails, histVars, AllOK, SessionOK
  <2>2. \A k \in Keys : tail'[k] \subseteq tail[k]
    BY <1>3 DEF Acknowledge, SyncFails, histVars, Since
  <2> QED
    BY <2>1, <2>2 DEF Numbered
<1>4. CASE FlushBegin \/ ClearBegin \/ (\E s \in Shards : FlushShard(s)) \/ (\E k \in Keys : Relocate(k))
           \/ Replay \/ UNCHANGED vars
  BY <1>4 DEF FlushBegin, ClearBegin, FlushShard, Relocate, Replay, vars, walVars, sessionVars, histVars, Numbered
<1>5. CASE FlushKeepsWAL
  <2>1. \A k \in Keys : tail'[k] \subseteq tail[k]
    BY <1>5, RecoveredTyped DEF FlushKeepsWAL
  <2> QED
    BY <1>5, <2>1 DEF FlushKeepsWAL, walVars, sessionVars, Numbered
<1>6. ASSUME NEW s \in Shards, ClearWAL(s) PROVE Numbered'
  <2>1. \A r \in Shards : wal'[r] = (IF r = s THEN <<>> ELSE wal[r])
    BY <1>6, ClearWALs
  <2>2. UNCHANGED <<cmd, batch, writes>>
    BY <1>6, ClearWALs
  <2>3. \A k \in Keys : \A a \in tail'[k] : a \in tail[k] \/ a.id = 0
    <3>1. \A k \in Keys : \/ tail'[k] = tail[k] \/ tail'[k] = Recovered(k)
                          \/ tail'[k] = {[id |-> 0, val |-> kv[k]]}
      BY <1>6 DEF ClearWAL
    <3> QED
      BY <3>1, RecoveredTyped
  <2>4. \A r \in Shards : \A i \in DOMAIN wal'[r] : wal'[r][i].cmd.id <= writes
    <3>1. \A r \in Shards : \A i \in DOMAIN wal'[r] : i \in DOMAIN wal[r] /\ wal'[r][i] = wal[r][i]
      BY <2>1
    <3> QED
      BY <3>1 DEF Numbered
  <2>5. \A k \in Keys : \A a \in tail'[k] : a.id <= writes
    BY <1>0, <2>3 DEF Numbered
  <2> QED
    BY <2>2, <2>4, <2>5 DEF Numbered
<1>7. CASE Restart
  <2>1. PICK n : Left(n)
    BY <1>7, RestartLeft
  <2>2. \A s \in Shards : \A i \in DOMAIN wal'[s] : i \in DOMAIN wal[s] /\ wal'[s][i] = wal[s][i]
    BY <2>1, LeftPrefix DEF AllOK
  <2>3. UNCHANGED <<tail, writes>> /\ \A t \in Sessions : cmd'[t] = NoCmd /\ batch'[t] = {}
    BY <1>7 DEF Restart
  <2> QED
    BY <2>2, <2>3 DEF Numbered
<1> QED
  BY <1>1, <1>2, <1>3, <1>4, <1>5, <1>6, <1>7 DEF Next, SessionNext, FlushNext

LEMMA NextHistories == ASSUME AllOK, Histories, [Next]_vars PROVE Histories'
<1>1. ASSUME NEW t \in Sessions, Apply(t) PROVE Histories'
  <2>1. PICK c, K : Applies(t, c, K)
    BY <1>1, ApplyApplies
  <2> QED
    BY <2>1, ExecuteChanges DEF Applies, Histories
<1>2. CASE Replay
  <2>1. PICK c : c = Head(todo).cmd
    OBVIOUS
  <2>2. CASE UNCHANGED mapVars
    BY <2>2 DEF Histories, mapVars
  <2>3. CASE Execute(c, Affected(c))
    BY <2>3, ExecuteChanges DEF Histories
  <2>4. ASSUME NEW R, WriteAll(Affected(c) \ R, c.val) PROVE Histories'
    BY <2>4 DEF WriteAll, Histories, AllOK, MapOK
  <2> QED
    BY <1>2, <2>1, <2>2, <2>3, <2>4 DEF Replay
<1>3. CASE Restart
  BY <1>3 DEF Restart, Crash, Histories
<1>4. ASSUME NEW s \in Shards, FlushShard(s) PROVE Histories'
  BY <1>4 DEF FlushShard, Flush, mapVars, Histories, AllOK, MapOK
<1>5. CASE SessionNext /\ ~(\E t \in Sessions : Apply(t))
  BY <1>5 DEF SessionNext, Log, Acknowledge, SyncFails, mapVars, Histories
<1>6. CASE FlushBegin \/ ClearBegin \/ FlushKeepsWAL \/ (\E s \in Shards : ClearWAL(s))
           \/ (\E k \in Keys : Relocate(k)) \/ UNCHANGED vars
  BY <1>6 DEF FlushBegin, ClearBegin, FlushKeepsWAL, ClearWAL, Relocate, Move, vars, mapVars, Histories
<1> QED
  BY <1>1, <1>2, <1>3, <1>4, <1>5, <1>6 DEF Next, SessionNext, FlushNext

LEMMA NextBase == ASSUME Base, [Next]_vars PROVE Base'
BY NextTyped, NextFlushSafe, NextQuiet, NextNumbered, NextHistories DEF Base

-----------------------------------------------------------------------------
(* Acknowledged writes: a key that nothing endangers *)

LEMMA NoPatternKept ==
  ASSUME NoPattern, \A t \in Sessions : cmd'[t] = cmd[t] \/ cmd'[t] = NoCmd,
         \A s \in Shards : \A i \in DOMAIN wal'[s] : i \in DOMAIN wal[s] /\ wal'[s][i] = wal[s][i],
         \A q \in DOMAIN todo' : \/ \E p \in DOMAIN todo : todo'[q] = todo[p]
                                 \/ \E s \in Shards : \E i \in DOMAIN wal[s] : todo'[q] = wal[s][i]
  PROVE  NoPattern'
<1>1. \A c : KeyCmd(c) <=> c.op \in {"s", "d"} /\ c.key \in Keys /\ (c.op = "d" => c.val = NoVal)
  BY DEF KeyCmd
<1>2. \A t \in Sessions : cmd'[t] = NoCmd \/ KeyCmd(cmd[t])'
  BY <1>1 DEF NoPattern, KeyCmd
<1>3. \A s \in Shards : \A i \in DOMAIN wal'[s] : KeyCmd(wal[s][i].cmd)' /\ ShardOf[wal'[s][i].cmd.key] = s
  BY <1>1 DEF NoPattern, KeyCmd
<1>4. \A q \in DOMAIN todo' : KeyCmd(todo[q].cmd)'
  BY <1>1 DEF NoPattern, KeyCmd
<1> QED
  BY <1>2, <1>3, <1>4 DEF NoPattern

LEMMA ReplayPops ==
  ASSUME AllOK, NEW l, l = todo, NEW c, c = Head(l).cmd, l # <<>>, todo' = Tail(l)
  PROVE  /\ 1 \in DOMAIN l /\ c = l[1].cmd /\ todo' \in Seq(Entry)
         /\ \A q \in DOMAIN l : q \in Nat
         /\ \A q \in DOMAIN l : q # 1 => q - 1 \in DOMAIN todo' /\ todo'[q - 1] = l[q]
         /\ \A q \in DOMAIN todo' : q + 1 \in DOMAIN l /\ todo'[q] = l[q + 1] /\ q \in Nat
<1>1. l \in Seq(Entry)
  BY DEF AllOK, RunOK
<1>2. /\ Len(l) \in Nat /\ DOMAIN l = 1 .. Len(l) /\ Len(l) # 0 /\ Head(l) = l[1]
  BY <1>1
<1>3. /\ Tail(l) \in Seq(Entry) /\ Len(Tail(l)) = Len(l) - 1
      /\ \A i \in 1 .. Len(Tail(l)) : Tail(l)[i] = l[i + 1]
  BY <1>1, HeadTailProperties
<1>4. DOMAIN Tail(l) = 1 .. Len(l) - 1
  BY <1>3
<1> QED
  BY <1>2, <1>3, <1>4

LEMMA LeftSorted ==
  ASSUME WalOK, NEW n, Left(n), NEW w, w = wal', NEW l, l = todo'
  PROVE  /\ \A s \in Shards : \A i \in DOMAIN w[s] : i \in DOMAIN wal[s] /\ w[s][i] = wal[s][i]
         /\ \A s \in Shards : \A i \in DOMAIN w[s] : \E q \in DOMAIN l : l[q] = w[s][i]
         /\ \A q \in DOMAIN l : \E s \in Shards : \E i \in DOMAIN w[s] : l[q] = w[s][i]
         /\ \A q, p \in DOMAIN l : q < p => l[q].seq <= l[p].seq /\ l[q] # l[p]
         /\ \A q \in DOMAIN l : q \in Nat
<1>1. \A s \in Shards : \A i \in DOMAIN w[s] : i \in DOMAIN wal[s] /\ w[s][i] = wal[s][i]
  BY LeftPrefix
<1>2. w \in [Shards -> Seq(Entry)] /\ l \in SortBySeq(UNION {SE!ToSet(w[s]) : s \in Shards})
  <2>1. \A s \in Shards : wal'[s] \in Seq(Entry)
    BY LeftPrefix
  <2> QED
    BY <2>1 DEF Left
<1>3. /\ l \in Seq(Entry)
      /\ \A s \in Shards : \A i \in DOMAIN w[s] : \E q \in DOMAIN l : l[q] = w[s][i]
      /\ \A q \in DOMAIN l : \E s \in Shards : \E i \in DOMAIN w[s] : l[q] = w[s][i]
      /\ \A q, p \in DOMAIN l : q < p => l[q].seq <= l[p].seq /\ l[q] # l[p]
  BY <1>2, SortedEntries
<1> QED
  BY <1>1, <1>3

(* An unendangered key has only seen sets and dels. *)
LEMMA AppliesKeyCmd ==
  ASSUME NEW t, NEW c, NEW K, Applies(t, c, K), NEW k \in Keys, risk'[k] = {}
  PROVE  KeyCmd(c) /\ K = {c.key}
<1>1. c.op \notin Patterns
  BY DEF Applies, Dangers, Causes
<1>2. c.op \in {"s", "d"} /\ KeyCmd(c)
  BY <1>1, AnyCommandTyped DEF Applies
<1>3. Affected(c) = {c.key}
  BY <1>2, AffectedTyped DEF Applies
<1> QED
  BY <1>1, <1>2, <1>3 DEF Applies, Execute

LEMMA NextNoPattern ==
  ASSUME Base, NoPattern, [Next]_vars, NEW k \in Keys, risk'[k] = {} PROVE NoPattern'
<1>1. ASSUME NEW t \in Sessions, Apply(t) PROVE NoPattern'
  <2>1. PICK c, K : Applies(t, c, K)
    BY <1>1, ApplyApplies DEF Base
  <2>2. KeyCmd(c)
    BY <2>1, AppliesKeyCmd
  <2>3. UNCHANGED <<wal, todo>> /\ \A u \in Sessions : cmd'[u] = IF u = t THEN c ELSE cmd[u]
    BY <2>1 DEF Applies, Base, AllOK, SessionOK
  <2>4. \A u \in Sessions : cmd'[u] = NoCmd \/ KeyCmd(cmd[u])'
    BY <2>2, <2>3 DEF NoPattern, KeyCmd
  <2> QED
    BY <2>3, <2>4 DEF NoPattern, KeyCmd
<1>2. ASSUME NEW t \in Sessions, Log(t) PROVE NoPattern'
  <2>1. PICK c : Logs(t, c)
    BY <1>2, LogLogs DEF Base
  <2>2. todo' = todo /\ \A u \in Sessions : cmd'[u] = cmd[u] \/ cmd'[u] = NoCmd
    BY <2>1 DEF Logs, Base, AllOK, SessionOK
  <2>3. CASE wal' = wal
    BY <2>2, <2>3, NoPatternKept
  <2>4. CASE wal' = [wal EXCEPT ![LogShard(c)] = Append(@, [seq |-> nextSeq, cmd |-> c])]
    <3>0. KeyCmd(c) /\ LogShard(c) = ShardOf[c.key] /\ LogShard(c) \in Shards
      <4>1. KeyCmd(c)
        BY <2>1 DEF Logs, NoPattern
      <4> QED
        BY <2>1, <4>1, AnyCommandTyped DEF Logs, KeyCmd, LogShard, Patterns, Limited
    <3>1. PICK S \in Shards : S = LogShard(c)
      BY <3>0
    <3>2. PICK e : e = [seq |-> nextSeq, cmd |-> c]
      OBVIOUS
    <3>3. PICK n \in Nat : n = Len(wal[S]) + 1
      BY WalFacts DEF Base, AllOK
    <3>4. wal' = [wal EXCEPT ![S] = Append(@, e)]
      BY <2>4, <3>1, <3>2
    <3>5. \A s \in Shards : \A i \in DOMAIN wal'[s] :
             (i \in DOMAIN wal[s] /\ wal'[s][i] = wal[s][i]) \/ (s = S /\ wal'[s][i] = e)
      BY <3>3, <3>4, AppendedTo DEF Base, AllOK
    <3>6. e.cmd = c
      BY <3>2
    <3>7. \A s \in Shards : \A i \in DOMAIN wal'[s] :
             KeyCmd(wal'[s][i].cmd) /\ ShardOf[wal'[s][i].cmd.key] = s
      BY <3>0, <3>1, <3>5, <3>6 DEF NoPattern
    <3>8. \A s \in Shards : \A i \in DOMAIN wal'[s] :
             KeyCmd(wal[s][i].cmd)' /\ ShardOf[wal'[s][i].cmd.key] = s
      BY <3>7 DEF KeyCmd
    <3>9. \A u \in Sessions : cmd'[u] = NoCmd \/ KeyCmd(cmd[u])'
      BY <2>2 DEF NoPattern, KeyCmd
    <3> QED
      BY <2>2, <3>8, <3>9 DEF NoPattern, KeyCmd
  <2> QED
    BY <2>1, <2>3, <2>4 DEF Logs
<1>3. CASE Restart
  <2>1. PICK n : Left(n)
    BY <1>3, RestartLeft
  <2>2. PICK w : w = wal'
    OBVIOUS
  <2>3. PICK l : l = todo'
    OBVIOUS
  <2>4. /\ \A s \in Shards : \A i \in DOMAIN w[s] : i \in DOMAIN wal[s] /\ w[s][i] = wal[s][i]
        /\ \A q \in DOMAIN l : \E s \in Shards : \E i \in DOMAIN w[s] : l[q] = w[s][i]
    BY <2>1, <2>2, <2>3, LeftSorted DEF Base, AllOK
  <2>5. \A t \in Sessions : cmd'[t] = NoCmd
    BY <1>3 DEF Restart
  <2>6. \A q \in DOMAIN l : \E s \in Shards : \E i \in DOMAIN wal[s] : l[q] = wal[s][i]
    BY <2>4
  <2> QED
    BY <2>2, <2>3, <2>4, <2>5, <2>6, NoPatternKept
<1>4. CASE Replay
  <2>1. PICK l : l = todo
    OBVIOUS
  <2>2. PICK c : c = Head(l).cmd
    OBVIOUS
  <2>3. todo' = Tail(l) /\ l # <<>> /\ UNCHANGED <<wal, cmd>>
    BY <1>4, <2>1 DEF Replay, walVars, sessionVars
  <2>4. \A q \in DOMAIN todo' : q + 1 \in DOMAIN l /\ todo'[q] = l[q + 1]
    BY <2>1, <2>2, <2>3, ReplayPops DEF Base
  <2> QED
    BY <2>1, <2>3, <2>4, NoPatternKept
<1>5. ASSUME NEW s \in Shards, ClearWAL(s) PROVE NoPattern'
  <2>1. (\A r \in Shards : wal'[r] = (IF r = s THEN <<>> ELSE wal[r])) /\ UNCHANGED <<todo, cmd>>
    BY <1>5, ClearWALs DEF Base
  <2>2. \A r \in Shards : \A i \in DOMAIN wal'[r] : i \in DOMAIN wal[r] /\ wal'[r][i] = wal[r][i]
    BY <2>1
  <2> QED
    BY <2>1, <2>2, NoPatternKept
<1>6. CASE UNCHANGED <<wal, cmd, todo>>
  BY <1>6 DEF NoPattern, KeyCmd
<1>7. ASSUME NEW t \in Sessions, Acknowledge(t) \/ SyncFails(t) PROVE UNCHANGED <<wal, cmd, todo>>
  BY <1>7 DEF Acknowledge, SyncFails
<1>8. CASE FlushBegin \/ ClearBegin \/ FlushKeepsWAL \/ (\E s \in Shards : FlushShard(s))
           \/ (\E j \in Keys : Relocate(j)) \/ UNCHANGED vars
  BY <1>6, <1>8 DEF FlushBegin, ClearBegin, FlushKeepsWAL, FlushShard, Relocate, vars, walVars, sessionVars
<1> QED
  BY <1>1, <1>2, <1>3, <1>4, <1>5, <1>6, <1>7, <1>8 DEF Next, SessionNext, FlushNext

(* Nothing that a key's safety depends on has changed. *)
LEMMA Kept ==
  ASSUME NEW k \in Keys, KeySafe(k),
         Records(k)' = Records(k), \A i \in Records(k) : Rec(k, i)' = Rec(k, i),
         walSynced[ShardOf[k]] \in Int, walSynced'[ShardOf[k]] \in Int,
         walSynced[ShardOf[k]] <= walSynced'[ShardOf[k]],
         Records(k) \subseteq Int, tail'[k] = tail[k], kv'[k] = kv[k],
         hist'[k] = hist[k] \/ hist'[k] = {kv[k]}, kv[k] \in hist[k], phase' = phase, todo' = todo,
         k \in exposed' \ moved' => k \in exposed \ moved,
         \A a \in tail[k] : Awaits(a.id)' => Awaits(a.id),
         \A a \in tail[k] : Pending(a.id)' => Pending(a.id),
         \A u \in Sessions : \/ cmd'[u] = cmd[u] \/ cmd'[u] = NoCmd
                             \/ cmd'[u].key # k /\ \A a \in tail[k] : a.id # cmd'[u].id
  PROVE  KeySafe(k)'
<1>1. \A id : Logged(k, id)' <=> Logged(k, id)
  BY DEF Logged
<1>2. LogSafe(k)'
  BY <1>1 DEF KeySafe, LogSafe
<1>3. DiskSafe(k)'
  BY <1>1 DEF KeySafe, DiskSafe
<1>4. ValueSafe(k)'
  BY DEF KeySafe, ValueSafe
<1>5. ReplaySafe(k)'
  BY DEF KeySafe, ReplaySafe, NoTodo
<1>6. LossSafe(k)'
  <2> SUFFICES ASSUME k \in exposed' \ moved'
               PROVE  \/ \E i \in Records(k) : i <= walSynced'[ShardOf[k]]
                      \/ phase = "up" /\ \E a, w \in tail[k] :
                            a.id < w.id /\ (Records(k) = {} => \A b \in tail[k] : Awaits(b.id)' => b.id < w.id)
    BY DEF LossSafe
  <2>1. LossSafe(k) /\ k \in exposed \ moved
    BY DEF KeySafe
  <2>2. CASE \E i \in Records(k) : i <= walSynced[ShardOf[k]]
    BY <2>2
  <2>3. CASE phase = "up" /\ \E a, w \in tail[k] :
                a.id < w.id /\ (Records(k) = {} => \A b \in tail[k] : Awaits(b.id) => b.id < w.id)
    BY <2>3
  <2> QED
    BY <2>1, <2>2, <2>3 DEF LossSafe
<1>7. CmdSafe(k)'
  <2> SUFFICES ASSUME NEW u \in Sessions, cmd'[u] # NoCmd
               PROVE  /\ cmd'[u].key = k =>
                           /\ WriteOf(cmd[u])' \in tail[k] /\ \A a \in tail[k] : a.id <= cmd'[u].id
                           /\ \A i \in Records(k) : Rec(k, i).id < cmd'[u].id
                           /\ \A v \in Sessions \ {u} : cmd'[v].key # k \/ cmd'[v] = NoCmd
                      /\ cmd'[u].key # k => \A a \in tail[k] : a.id # cmd'[u].id
    BY DEF CmdSafe
  <2>1. CmdSafe(k)
    BY DEF KeySafe
  <2>2. CASE cmd'[u] = cmd[u]
    BY <2>1, <2>2 DEF CmdSafe, WriteOf
  <2>3. CASE cmd'[u].key # k /\ \A a \in tail[k] : a.id # cmd'[u].id
    BY <2>3
  <2> QED
    BY <2>2, <2>3
<1> QED
  BY <1>2, <1>3, <1>4, <1>5, <1>6, <1>7 DEF KeySafe

(* The same, when the WALs are left alone. *)
LEMMA KeyKept ==
  ASSUME Base, NEW k \in Keys, KeySafe(k),
         UNCHANGED <<wal, kv, phase, todo, tail>>,
         walSynced'[ShardOf[k]] \in Nat, walSynced[ShardOf[k]] <= walSynced'[ShardOf[k]],
         hist'[k] = hist[k] \/ hist'[k] = {kv[k]},
         k \in exposed' \ moved' => k \in exposed \ moved,
         \A id : Awaits(id)' => Awaits(id), \A id : Pending(id)' => Pending(id),
         \A u \in Sessions : cmd'[u] = cmd[u] \/ cmd'[u] = NoCmd
  PROVE  KeySafe(k)'
<1>1. Records(k)' = Records(k) /\ \A i \in Records(k) : Rec(k, i)' = Rec(k, i)
  BY DEF Records, Rec
<1>2. walSynced[ShardOf[k]] \in Int /\ Records(k) \subseteq Int /\ kv[k] \in hist[k]
  BY RecordFacts DEF Base, Histories
<1> QED
  BY <1>1, <1>2, Kept

LEMMA SyncFailsSafe ==
  ASSUME Base, NEW k \in Keys, KeySafe(k), NEW t \in Sessions, SyncFails(t) PROVE KeySafe(k)'
<1>1. walSynced'[ShardOf[k]] \in Nat /\ walSynced[ShardOf[k]] <= walSynced'[ShardOf[k]]
  <2>1. ShardOf[k] \in Shards
    BY DurabilityAssumption
  <2>2. \A s \in Shards : Len(wal[s]) \in Nat /\ walSynced[s] \in Nat /\ walSynced[s] <= Len(wal[s])
    BY WalFacts DEF Base, AllOK
  <2> QED
    BY <2>1, <2>2 DEF SyncFails, SyncWAL
<1>2. \A u \in Sessions : batch'[u] \subseteq batch[u]
  BY DEF SyncFails, Base, AllOK, SessionOK
<1>3. UNCHANGED <<wal, kv, hist, exposed, moved, phase, todo, tail, cmd>>
  BY DEF SyncFails, mapVars, histVars
<1>4. \A id : Awaits(id)' => Awaits(id)
  BY <1>2 DEF Awaits
<1>5. \A id : Pending(id)' => Pending(id)
  BY <1>3, <1>4 DEF Pending
<1> QED
  BY <1>1, <1>3, <1>4, <1>5, KeyKept

LEMMA FlushStepSafe ==
  ASSUME Base, NEW k \in Keys, KeySafe(k),
         \/ FlushBegin \/ ClearBegin \/ UNCHANGED vars
         \/ (\E s \in Shards : FlushShard(s)) \/ \E j \in Keys : Relocate(j)
  PROVE  KeySafe(k)'
<1>1. UNCHANGED <<walVars, kv, phase, todo, sessionVars, tail>>
  BY DEF FlushBegin, ClearBegin, FlushShard, Relocate, Flush, Move, mapVars, vars, histVars
<1>2. UNCHANGED <<wal, walSynced, kv, phase, todo, tail, cmd, batch>>
  BY <1>1 DEF walVars, sessionVars
<1>3. hist'[k] = hist[k] \/ hist'[k] = {kv[k]}
  BY DEF FlushBegin, ClearBegin, FlushShard, Relocate, Flush, Move, mapVars, vars
<1>4. k \in exposed' \ moved' => k \in exposed \ moved
  BY DEF FlushBegin, ClearBegin, FlushShard, Relocate, Flush, Move, mapVars, vars, histVars
<1>5. walSynced[ShardOf[k]] \in Nat /\ walSynced[ShardOf[k]] <= walSynced[ShardOf[k]]
  BY RecordFacts DEF Base
<1>6. \A id : Awaits(id)' => Awaits(id)
  BY <1>2 DEF Awaits
<1>7. \A id : Pending(id)' => Pending(id)
  BY <1>2, <1>6 DEF Pending
<1> QED
  BY <1>2, <1>3, <1>4, <1>5, <1>6, <1>7, KeyKept

LEMMA ApplySafe ==
  ASSUME Base, NoPattern, NEW k \in Keys, KeySafe(k), NEW t \in Sessions, Apply(t), risk'[k] = {}
  PROVE  KeySafe(k)'
<1>0. PICK c, KK : Applies(t, c, KK)
  BY ApplyApplies DEF Base
<1>1. KeyCmd(c) /\ KK = {c.key}
  BY <1>0, AppliesKeyCmd
<1>2. PICK W : W = WriteOf(c)
  OBVIOUS
<1>3. W.id = writes + 1 /\ W.val = c.val /\ writes \in Nat /\ c.id = writes + 1
  BY <1>0, <1>2 DEF Applies, WriteOf, Base, AllOK, HistOK
<1>4. \A a \in tail[k] : a.id \in Nat /\ a.id <= writes /\ a.id # writes + 1
  BY <1>3, RecordFacts DEF Base
<1>5. Records(k)' = Records(k) /\ \A i \in Records(k) : Rec(k, i)' = Rec(k, i)
  BY <1>0 DEF Applies, Records, Rec
<1>6. \A id : Awaits(id)' <=> Awaits(id)
  BY <1>0 DEF Applies, Awaits
<1>7. \A u \in Sessions : cmd'[u] = IF u = t THEN c ELSE cmd[u]
  BY <1>0 DEF Applies, Base, AllOK, SessionOK
<1>8. \A id : id # writes + 1 => (Pending(id)' => Pending(id))
  BY <1>3, <1>6, <1>7 DEF Pending
<1>9. \A id : Logged(k, id)' <=> Logged(k, id)
  BY <1>5 DEF Logged
<1>10. ~Awaits(writes + 1)
  BY <1>3 DEF Awaits, Base, Numbered
<1>11. walSynced[ShardOf[k]] \in Nat /\ Records(k) \subseteq Int
  BY RecordFacts DEF Base
<1>12. UNCHANGED <<walSynced, todo, phase, moved>>
  BY <1>0 DEF Applies
<1>13. /\ k \notin KK => kv'[k] = kv[k] /\ hist'[k] = hist[k] /\ (k \in exposed' => k \in exposed)
       /\ k \in KK => hist'[k] = hist[k] \cup {kv'[k]} /\ kv'[k] = IF c.op \in Sets THEN c.val ELSE NoVal
  BY <1>0, ExecuteChanges DEF Applies, Base
<1>14. tail'[k] = IF k \in KK THEN tail[k] \cup {W} ELSE tail[k]
  BY <1>0, <1>2 DEF Applies
<1>15. CASE k # c.key
  <2>1. /\ kv'[k] = kv[k] /\ hist'[k] = hist[k] /\ tail'[k] = tail[k]
        /\ k \in exposed' \ moved' => k \in exposed \ moved
    BY <1>1, <1>12, <1>13, <1>14, <1>15
  <2>2. \A u \in Sessions : \/ cmd'[u] = cmd[u]
                            \/ cmd'[u].key # k /\ \A a \in tail[k] : a.id # cmd'[u].id
    BY <1>3, <1>4, <1>7, <1>15
  <2>3. kv[k] \in hist[k]
    BY DEF Base, Histories
  <2>4. /\ \A a \in tail[k] : Awaits(a.id)' => Awaits(a.id)
        /\ \A a \in tail[k] : Pending(a.id)' => Pending(a.id)
    BY <1>4, <1>6, <1>8
  <2> QED
    BY <1>5, <1>11, <1>12, <2>1, <2>2, <2>3, <2>4, Kept
<1>16. CASE k = c.key
  <2>1. Dangers(c, KK, k) = {} /\ k \in KK
    BY <1>0, <1>1, <1>16 DEF Applies
  <2>2. phase = "up"
    BY <2>1 DEF Dangers, Causes, Base, AllOK, RunOK
  <2>3. \A u \in Sessions : cmd[u] = NoCmd \/ cmd[u].key # k
    BY <2>1 DEF Dangers, Causes
  <2>4. kv'[k] = W.val /\ hist'[k] = hist[k] \cup {W.val} /\ tail'[k] = tail[k] \cup {W}
    BY <1>1, <1>3, <1>13, <1>14, <2>1 DEF KeyCmd, Sets
  <2>5. LogSafe(k)'
    BY <1>3, <1>5, <1>6, <1>9, <1>10, <1>12, <2>4 DEF KeySafe, LogSafe
  <2>6. \A a \in tail'[k] : a.id <= W.id
    BY <1>3, <1>4, <2>4
  <2>7. DiskSafe(k)'
    BY <1>3, <1>5, <1>6, <1>9, <1>10, <1>12, <2>4, <2>6 DEF KeySafe, DiskSafe
  <2>8. ValueSafe(k)'
    BY <2>4, <2>6 DEF ValueSafe
  <2>9. ReplaySafe(k)'
    BY <1>12, <2>2 DEF ReplaySafe
  <2>10. LossSafe(k)'
    <3>1. PICK a \in tail[k] : TRUE
      BY <2>2 DEF KeySafe, ValueSafe
    <3>2. a.id < W.id /\ a \in tail'[k] /\ W \in tail'[k]
      BY <1>3, <1>4, <2>4
    <3>3. \A b \in tail'[k] : Awaits(b.id)' => b.id < W.id
      BY <1>3, <1>4, <1>6, <1>10, <2>4
    <3> QED
      BY <1>12, <2>2, <3>2, <3>3 DEF LossSafe
  <2>11. CmdSafe(k)'
    <3>1. \A i \in Records(k) : Rec(k, i).id < c.id
      BY <1>3, RecordFacts DEF Base
    <3>2. \A u \in Sessions : u # t => cmd'[u] = NoCmd \/ (cmd'[u].key # k /\ \A a \in tail'[k] : a.id # cmd'[u].id)
      <4>1. ASSUME NEW u \in Sessions, u # t, cmd[u] # NoCmd
            PROVE  cmd[u].key # k /\ \A a \in tail'[k] : a.id # cmd[u].id
        <5>1. cmd[u].key # k
          BY <2>3, <4>1
        <5>2. \A a \in tail[k] : a.id # cmd[u].id
          BY <4>1, <5>1 DEF KeySafe, CmdSafe
        <5>3. cmd[u].id \in Nat /\ cmd[u].id <= writes
          <6>1. cmd[u] \in AnyCommand
            BY <4>1 DEF Base, AllOK, SessionOK
          <6> QED
            BY <4>1, <6>1, AnyCommandTyped DEF Base, Numbered
        <5> QED
          BY <1>3, <2>4, <5>1, <5>2, <5>3
      <4> QED
        BY <1>7, <4>1
    <3>3. cmd'[t] = c /\ WriteOf(c) \in tail'[k] /\ \A a \in tail'[k] : a.id <= c.id
      BY <1>2, <1>3, <1>7, <2>4, <2>6
    <3>4. WriteOf(cmd[t])' = WriteOf(c)
      BY <3>3 DEF WriteOf
    <3> QED
      BY <1>5, <1>16, <3>1, <3>2, <3>3, <3>4 DEF CmdSafe
  <2> QED
    BY <2>5, <2>7, <2>8, <2>9, <2>10, <2>11 DEF KeySafe
<1> QED
  BY <1>15, <1>16

(* The entry e is appended to the WAL of K: what it changes of the records. *)
Appends(K, e) == wal' = [wal EXCEPT ![ShardOf[K]] = Append(@, e)]

LEMMA Appended ==
  ASSUME AllOK, NEW K \in Keys, NEW e, e.cmd.key = K,
         NEW n \in Nat, n = Len(wal[ShardOf[K]]) + 1, Appends(K, e)
  PROVE  /\ \A k \in Keys : k # K => /\ Records(k)' = Records(k)
                                     /\ \A i \in Records(k) : Rec(k, i)' = Rec(k, i)
         /\ Records(K)' = Records(K) \cup {n}
         /\ \A i \in Records(K) : Rec(K, i)' = Rec(K, i)
         /\ Rec(K, n)' = e.cmd
<1>1. PICK S \in Shards : S = ShardOf[K]
  BY DurabilityAssumption
<1>2. wal'[S] = Append(wal[S], e) /\ \A s \in Shards : s # S => wal'[s] = wal[s]
  BY <1>1 DEF Appends, AllOK, WalOK
<1>3. /\ DOMAIN wal'[S] = 1 .. n /\ DOMAIN wal[S] = 1 .. n - 1 /\ n - 1 \in Nat /\ wal'[S][n] = e
      /\ \A i \in 1 .. n - 1 : wal'[S][i] = wal[S][i]
      /\ \A s \in Shards : s # S => wal'[s] = wal[s]
  <2>1. wal[S] \in Seq(Entry) /\ DOMAIN wal[S] = 1 .. n - 1 /\ Len(wal[S]) = n - 1
    BY <1>1, WalFacts DEF AllOK
  <2>2. n - 1 \in Nat
    BY <1>1, WalFacts DEF AllOK
  <2>3. DOMAIN wal'[S] = 1 .. n /\ wal'[S][n] = e /\ \A i \in 1 .. n - 1 : wal'[S][i] = wal[S][i]
    BY <1>2, <2>1, <2>2
  <2> QED
    BY <1>2, <2>1, <2>2, <2>3
<1>4. ASSUME NEW k \in Keys, k # K
      PROVE  Records(k)' = Records(k) /\ \A i \in Records(k) : Rec(k, i)' = Rec(k, i)
  <2>1. ShardOf[k] \in Shards
    BY DurabilityAssumption
  <2>2. CASE ShardOf[k] # S
    BY <1>3, <2>1, <2>2 DEF Records, Rec
  <2>3. CASE ShardOf[k] = S
    <3>1. /\ DOMAIN wal'[S] = DOMAIN wal[S] \cup {n}
          /\ \A i \in DOMAIN wal[S] : wal'[S][i] = wal[S][i]
          /\ wal'[S][n].cmd.key # k
      BY <1>3, <1>4
    <3> QED
      BY <2>3, <3>1 DEF Records, Rec
  <2> QED
    BY <2>2, <2>3
<1>5. /\ Records(K)' = Records(K) \cup {n} /\ \A i \in Records(K) : Rec(K, i)' = Rec(K, i)
      /\ Rec(K, n)' = e.cmd
  BY SMTT(20), <1>1, <1>3 DEF Records, Rec
<1> QED
  BY <1>4, <1>5

LEMMA LogStepSafe ==
  ASSUME Base, NoPattern, NEW k \in Keys, KeySafe(k), NEW t \in Sessions, Log(t), risk'[k] = {}
  PROVE  KeySafe(k)'
<1>0. PICK c : Logs(t, c)
  BY LogLogs DEF Base
<1>1. /\ c = cmd[t] /\ c # NoCmd /\ cmd[t] # NoCmd /\ c \in AnyCommand
      /\ UNCHANGED <<kv, hist, exposed, phase, todo, tail, moved, writes, walSynced>>
  BY <1>0 DEF Logs
<1>2. \A u \in Sessions : cmd'[u] = IF u = t THEN NoCmd ELSE cmd[u]
  BY <1>0 DEF Logs, Base, AllOK, SessionOK
<1>3. KeyCmd(c) /\ LogShard(c) = ShardOf[c.key]
  <2>1. KeyCmd(c)
    BY <1>1 DEF NoPattern
  <2> QED
    BY <2>1 DEF KeyCmd, LogShard, Patterns, Limited
<1>4. PICK K \in Keys : K = c.key
  BY <1>3 DEF KeyCmd
<1>5. \A u \in Sessions : batch'[u] \subseteq batch[u] \cup {c.id}
  BY <1>0 DEF Logs, Base, AllOK, SessionOK
<1>6. \A id : id # c.id => (Awaits(id)' => Awaits(id))
  BY <1>5 DEF Awaits
<1>7. \A id : Pending(id)' => Pending(id)
  <2>1. Pending(c.id)
    BY <1>1 DEF Pending
  <2> QED
    BY <1>2, <1>6, <2>1 DEF Pending
<1>8. walSynced[ShardOf[k]] \in Nat /\ Records(k) \subseteq Int /\ kv[k] \in hist[k]
  BY RecordFacts DEF Base, Histories
<1>9. k # K => \A a \in tail[k] : a.id # c.id
  BY <1>1, <1>4 DEF KeySafe, CmdSafe
<1>10. \A u \in Sessions : cmd'[u] = cmd[u] \/ cmd'[u] = NoCmd
  BY <1>2
<1>11. ASSUME wal' = wal, \A a \in tail[k] : Awaits(a.id)' => Awaits(a.id) PROVE KeySafe(k)'
  <2>1. Records(k)' = Records(k) /\ \A i \in Records(k) : Rec(k, i)' = Rec(k, i)
    BY <1>11 DEF Records, Rec
  <2> QED
    BY <1>1, <1>7, <1>8, <1>10, <1>11, <2>1, Kept
<1>12. CASE phase = "replay" /\ wal' = wal
  <2>1. \A a \in tail[k] : a.id # c.id
    BY <1>1, <1>12 DEF KeySafe, ReplaySafe, Pending
  <2> QED
    BY <1>6, <1>11, <1>12, <2>1
<1>13. CASE wal' = wal /\ batch' = batch
  BY <1>11, <1>13 DEF Awaits
<1>14. CASE wal' = wal /\ \A j \in Keys : j = c.key \/ c.op \in Patterns => risk'[j] # {}
  BY <1>4, <1>6, <1>9, <1>11, <1>14
<1>15. CASE /\ phase = "up" /\ batch' = [batch EXCEPT ![t] = @ \cup {c.id}]
            /\ wal' = [wal EXCEPT ![LogShard(c)] = Append(@, [seq |-> nextSeq, cmd |-> c])]
  <2>1. PICK e : e = [seq |-> nextSeq, cmd |-> c]
    OBVIOUS
  <2>2. e.cmd = c /\ e.cmd.key = K /\ Appends(K, e)
    BY <1>3, <1>4, <1>15, <2>1 DEF Appends
  <2>3. PICK n \in Nat : n = Len(wal[ShardOf[K]]) + 1
    BY RecordFacts DEF Base
  <2>4. /\ \A j \in Keys : j # K => /\ Records(j)' = Records(j)
                                    /\ \A i \in Records(j) : Rec(j, i)' = Rec(j, i)
        /\ Records(K)' = Records(K) \cup {n} /\ \A i \in Records(K) : Rec(K, i)' = Rec(K, i)
        /\ Rec(K, n)' = e.cmd
    BY <2>2, <2>3, Appended DEF Base
  <2>5. CASE k # K
    <3>1. \A a \in tail[k] : Awaits(a.id)' => Awaits(a.id)
      BY <1>6, <1>9, <2>5
    <3> QED
      BY <1>1, <1>7, <1>8, <1>10, <2>4, <2>5, <3>1, Kept
  <2>6. CASE k = K
    <3>0. /\ Records(k)' = Records(k) \cup {n} /\ \A i \in Records(k) : Rec(k, i)' = Rec(k, i)
          /\ Rec(k, n)' = c
      BY <2>2, <2>4, <2>6
    <3>1. /\ WriteOf(c) \in tail[k] /\ \A a \in tail[k] : a.id <= c.id
          /\ \A i \in Records(k) : Rec(k, i).id < c.id
          /\ \A u \in Sessions \ {t} : cmd[u].key # k \/ cmd[u] = NoCmd
      BY <1>1, <1>4, <2>6 DEF KeySafe, CmdSafe
    <3>2. \A i \in Records(k) : i \in Nat /\ i < n /\ Rec(k, i).id \in Nat
      BY <2>3, <2>6, RecordFacts DEF Base
    <3>3. c.id \in Nat
      BY <1>1, AnyCommandTyped
    <3>4. ASSUME NEW id, Awaits(id)', ~Logged(k, id)' PROVE id # c.id /\ Awaits(id) /\ ~Logged(k, id)
      BY <1>6, <3>0, <3>4 DEF Logged
    <3>5. LogSafe(k)'
      <4>1. \A i, j \in Records(k)' : i < j => Rec(k, i)'.id < Rec(k, j)'.id
        BY <3>0, <3>1, <3>2 DEF KeySafe, LogSafe
      <4>2. ASSUME NEW i \in Records(k)', \A j \in Records(k)' : j > i => j > walSynced'[ShardOf[k]]
            PROVE  WriteOf(Rec(k, i))' \in tail'[k]
        <5>1. CASE i = n
          BY <1>1, <3>0, <3>1, <5>1 DEF WriteOf
        <5>2. CASE i \in Records(k)
          <6>1. WriteOf(Rec(k, i)) \in tail[k]
            BY <1>1, <3>0, <4>2, <5>2 DEF KeySafe, LogSafe
          <6> QED
            BY <1>1, <3>0, <5>2, <6>1 DEF WriteOf
        <5> QED
          BY <3>0, <5>1, <5>2
      <4>3. ASSUME NEW a \in tail'[k], Awaits(a.id)', ~Logged(k, a.id)', NEW i \in Records(k)'
            PROVE  a.id < Rec(k, i)'.id
        <5>1. a \in tail[k] /\ a.id # c.id /\ Awaits(a.id) /\ ~Logged(k, a.id)
          BY <1>1, <3>4, <4>3
        <5>2. CASE i = n
          <6>1. a.id \in Nat /\ a.id <= c.id
            BY <3>1, <5>1, RecordFacts DEF Base
          <6> QED
            BY <3>0, <3>3, <5>1, <5>2, <6>1
        <5>3. CASE i \in Records(k)
          BY <3>0, <5>1, <5>3 DEF KeySafe, LogSafe
        <5> QED
          BY <3>0, <5>2, <5>3
      <4> QED
        BY <4>1, <4>2, <4>3 DEF LogSafe
    <3>6. DiskSafe(k)'
      BY <1>1, <3>0, <3>4 DEF KeySafe, DiskSafe
    <3>7. ValueSafe(k)'
      BY <1>1, <1>7 DEF KeySafe, ValueSafe
    <3>8. ReplaySafe(k)'
      BY <1>1, <1>15 DEF ReplaySafe
    <3>9. LossSafe(k)'
      BY <1>1, <3>0 DEF KeySafe, LossSafe
    <3>10. CmdSafe(k)'
      <4> SUFFICES ASSUME NEW u \in Sessions, cmd'[u] # NoCmd
                   PROVE  cmd'[u].key # k /\ \A a \in tail'[k] : a.id # cmd'[u].id
        BY DEF CmdSafe
      <4>1. u # t /\ cmd'[u] = cmd[u] /\ cmd[u] # NoCmd
        BY <1>2
      <4>2. cmd[u].key # k
        BY <3>1, <4>1
      <4> QED
        BY <1>1, <4>1, <4>2 DEF KeySafe, CmdSafe
    <3> QED
      BY <3>5, <3>6, <3>7, <3>8, <3>9, <3>10 DEF KeySafe
  <2> QED
    BY <2>5, <2>6
<1> QED
  BY <1>0, <1>12, <1>13, <1>14, <1>15 DEF Logs

LEMMA AcknowledgeSafe ==
  ASSUME Base, NEW k \in Keys, KeySafe(k), NEW t \in Sessions, Acknowledge(t) PROVE KeySafe(k)'
<1>1. PICK B : B = batch[t]
  OBVIOUS
<1>2. /\ UNCHANGED <<kv, hist, exposed, moved, wal, phase, todo, cmd, writes>>
      /\ tail'[k] = Since(tail[k], B) /\ B # {}
      /\ \A s \in Shards : walSynced'[s] = Len(wal[s])
  BY <1>1 DEF Acknowledge, mapVars, SyncWAL
<1>3. \A u \in Sessions : batch'[u] \subseteq batch[u]
  BY DEF Acknowledge, Base, AllOK, SessionOK
<1>4. \A id \in B : Awaits(id) /\ Pending(id)
  BY <1>1 DEF Awaits, Pending
<1>5. /\ \A id : Awaits(id)' => Awaits(id)
      /\ \A id : Pending(id)' => Pending(id)
  BY <1>2, <1>3 DEF Awaits, Pending
<1>6. tail'[k] \subseteq tail[k]
  BY <1>2 DEF Since
<1>7. \A w \in tail[k] : (\A a \in tail[k] : a.id \in B => a.id <= w.id) => w \in tail'[k]
  BY <1>2 DEF Since
<1>8. Records(k)' = Records(k) /\ \A i \in Records(k) : Rec(k, i)' = Rec(k, i)
  BY <1>2 DEF Records, Rec
<1>9. /\ ShardOf[k] \in Shards /\ \A a \in tail[k] : a.id \in Nat /\ a.id <= writes
      /\ walSynced[ShardOf[k]] \in Nat /\ walSynced'[ShardOf[k]] \in Nat
      /\ walSynced[ShardOf[k]] <= walSynced'[ShardOf[k]] /\ writes \in Nat
      /\ \A i \in Records(k) : /\ i \in Nat /\ i <= walSynced'[ShardOf[k]] /\ Rec(k, i).id \in Nat
  BY <1>2, RecordFacts DEF Base
<1>10. CASE phase = "replay"
  <2>1. \A a \in tail[k] : a.id \notin B
    BY <1>4, <1>10 DEF KeySafe, ReplaySafe
  <2>2. tail'[k] = tail[k]
    BY <1>6, <1>7, <2>1
  <2>3. Records(k) \subseteq Int /\ kv[k] \in hist[k]
    BY <1>9 DEF Base, Histories
  <2> QED
    BY <1>2, <1>5, <1>8, <1>9, <2>2, <2>3, Kept
<1>11. CASE phase = "up"
  <2>1. \A id : Logged(k, id)' <=> Logged(k, id)
    BY <1>8 DEF Logged
  <2>2. \A i \in Records(k) : ~(i > walSynced'[ShardOf[k]])
    BY <1>9
  <2>3. LogSafe(k)'
    <3>1. ASSUME NEW i \in Records(k), \A j \in Records(k) : j > i => j > walSynced'[ShardOf[k]]
          PROVE  WriteOf(Rec(k, i)) \in tail'[k]
      <4>1. \A j \in Records(k) : ~(j > i)
        BY <2>2, <3>1
      <4>2. PICK W : W = WriteOf(Rec(k, i))
        OBVIOUS
      <4>3. W \in tail[k] /\ W.id = Rec(k, i).id
        BY <4>1, <4>2 DEF KeySafe, LogSafe, WriteOf
      <4>4. ASSUME NEW a \in tail[k], a.id \in B PROVE a.id <= W.id
        <5>1. CASE Logged(k, a.id)
          <6>1. PICK j \in Records(k) : Rec(k, j).id = a.id
            BY <5>1 DEF Logged
          <6>2. j = i \/ j < i
            BY <1>9, <4>1, <6>1
          <6> QED
            BY <1>9, <4>3, <6>1, <6>2 DEF KeySafe, LogSafe
        <5>2. CASE ~Logged(k, a.id)
          BY <1>4, <1>9, <4>3, <4>4, <5>2 DEF KeySafe, LogSafe
        <5> QED
          BY <5>1, <5>2
      <4> QED
        BY <1>7, <4>2, <4>3, <4>4
    <3>2. \A i \in Records(k) : WriteOf(Rec(k, i))' = WriteOf(Rec(k, i))
      BY <1>8 DEF WriteOf
    <3> QED
      BY <1>5, <1>6, <1>8, <2>1, <3>1, <3>2 DEF KeySafe, LogSafe
  <2>4. DiskSafe(k)'
    <3> SUFFICES ASSUME \A i \in Records(k) : i > walSynced'[ShardOf[k]], NEW v \in hist[k]
                 PROVE  \E w \in tail'[k] : w.val = v /\ \A a \in tail'[k] :
                            Awaits(a.id)' /\ ~Logged(k, a.id)' => a.id <= w.id
      BY <1>2, <1>8 DEF DiskSafe
    <3>1. Records(k) = {}
      BY <2>2
    <3>2. PICK w \in tail[k] : w.val = v /\ \A a \in tail[k] : Awaits(a.id) /\ ~Logged(k, a.id) => a.id <= w.id
      BY <3>1 DEF KeySafe, DiskSafe
    <3>3. \A id : ~Logged(k, id)
      BY <3>1 DEF Logged
    <3>4. w \in tail'[k]
      BY <1>4, <1>7, <3>2, <3>3
    <3> QED
      BY <1>5, <1>6, <3>2, <3>3, <3>4
  <2>5. ValueSafe(k)'
    <3>1. PICK w \in tail[k] : w.val = kv[k] /\ \A a \in tail[k] : Pending(a.id) => a.id <= w.id
      BY <1>11 DEF KeySafe, ValueSafe
    <3>2. w \in tail'[k]
      BY <1>4, <1>7, <3>1
    <3> QED
      BY <1>2, <1>5, <1>6, <3>1, <3>2 DEF ValueSafe
  <2>6. ReplaySafe(k)'
    BY <1>2, <1>11 DEF ReplaySafe
  <2>7. LossSafe(k)'
    <3> SUFFICES ASSUME k \in exposed \ moved, Records(k) = {}
                 PROVE  \E a, w \in tail'[k] : a.id < w.id /\ \A b \in tail'[k] : Awaits(b.id)' => b.id < w.id
      BY <1>2, <1>8, <1>9, <1>11 DEF LossSafe
    <3>1. PICK a \in tail[k], w \in tail[k] : a.id < w.id /\ \A b \in tail[k] : Awaits(b.id) => b.id < w.id
      BY DEF KeySafe, LossSafe
    <3>2. \A b \in tail[k] : b.id \in B => b.id < w.id
      BY <1>4, <3>1
    <3>3. w \in tail'[k]
      BY <1>7, <1>9, <3>2
    <3>4. \E x \in tail'[k] : x.id < w.id
      <4>1. CASE \A b \in tail[k] : b.id \notin B
        BY <1>7, <3>1, <4>1
      <4>2. CASE \E b \in tail[k] : b.id \in B
        <5>1. PICK n \in Nat : n = writes
          BY <1>9
        <5>2. PICK S : S = {b.id : b \in {x \in tail[k] : x.id \in B}}
          OBVIOUS
        <5>3. S \in SUBSET (0 .. n) /\ S # {}
          BY <1>9, <4>2, <5>1, <5>2
        <5>4. PICK m \in S : \A y \in S : y <= m
          BY <5>3, MaxExists
        <5>5. PICK x \in tail[k] : x.id = m /\ x.id \in B
          BY <5>2, <5>4
        <5>6. \A b \in tail[k] : b.id \in B => b.id <= x.id
          BY <5>2, <5>4, <5>5
        <5> QED
          BY <1>7, <3>2, <5>5, <5>6
      <4> QED
        BY <4>1, <4>2
    <3> QED
      BY <1>5, <1>6, <3>1, <3>3, <3>4
  <2>8. CmdSafe(k)'
    <3> SUFFICES ASSUME NEW u \in Sessions, cmd[u] # NoCmd
                 PROVE  /\ cmd[u].key = k =>
                             /\ WriteOf(cmd[u]) \in tail'[k] /\ \A a \in tail'[k] : a.id <= cmd[u].id
                             /\ \A i \in Records(k) : Rec(k, i).id < cmd[u].id
                             /\ \A v \in Sessions \ {u} : cmd[v].key # k \/ cmd[v] = NoCmd
                        /\ cmd[u].key # k => \A a \in tail'[k] : a.id # cmd[u].id
      BY <1>2, <1>8 DEF CmdSafe, WriteOf
    <3>1. CmdSafe(k)
      BY DEF KeySafe
    <3>2. CASE cmd[u].key = k
      <4>1. PICK W : W = WriteOf(cmd[u])
        OBVIOUS
      <4>2. W \in tail[k] /\ W.id = cmd[u].id /\ \A a \in tail[k] : a.id <= W.id
        BY <3>1, <3>2, <4>1 DEF CmdSafe, WriteOf
      <4>3. W \in tail'[k]
        BY <1>7, <4>2
      <4> QED
        BY <1>6, <3>1, <3>2, <4>1, <4>3 DEF CmdSafe
    <3>3. CASE cmd[u].key # k
      BY <1>6, <3>1, <3>3 DEF CmdSafe
    <3> QED
      BY <3>2, <3>3
  <2> QED
    BY <2>3, <2>4, <2>5, <2>6, <2>7, <2>8 DEF KeySafe
<1> QED
  BY <1>10, <1>11 DEF Base, AllOK, RunOK

(* The last record of a key that has any. *)
LEMMA LastRecord ==
  ASSUME AllOK, Numbered, NEW k \in Keys, Records(k) # {}
  PROVE  \E i \in Records(k) : \A j \in Records(k) : j <= i
<1>1. PICK n \in Nat : n = Len(wal[ShardOf[k]])
  BY RecordFacts
<1>2. PICK S : S = Records(k)
  OBVIOUS
<1>3. S \in SUBSET (0 .. n) /\ S # {}
  BY <1>1, <1>2, RecordFacts
<1> QED
  BY <1>2, <1>3, MaxExists

(* When a replay is over, a key has the value of its last record. *)
LEMMA Replayed ==
  ASSUME Base, phase = "replay", todo = <<>>, NEW k \in Keys, KeySafe(k)
  PROVE  /\ \A i \in Records(k) : (\A j \in Records(k) : ~(j > i)) =>
               WriteOf(Rec(k, i)) \in tail[k] /\ kv[k] = Rec(k, i).val
         /\ Records(k) = {} => hist[k] = {kv[k]}
         /\ \E w \in tail[k] : w.val = kv[k]
<1>1. \A i \in Records(k) : i \in Nat
  BY RecordFacts DEF Base
<1>2. DOMAIN todo = {}
  OBVIOUS
<1>3. ASSUME NEW i \in Records(k), \A j \in Records(k) : ~(j > i)
      PROVE  WriteOf(Rec(k, i)) \in tail[k] /\ kv[k] = Rec(k, i).val
  <2>1. \A j \in Records(k) : j <= i
    BY <1>1, <1>3
  <2> QED
    BY <1>2, <1>3, <2>1 DEF KeySafe, LogSafe, ReplaySafe
<1>4. Records(k) = {} => hist[k] = {kv[k]}
  BY DEF KeySafe, ReplaySafe
<1>5. \E w \in tail[k] : w.val = kv[k]
  <2>1. CASE Records(k) = {}
    BY <1>4, <2>1 DEF KeySafe, DiskSafe
  <2>2. CASE Records(k) # {}
    <3>1. PICK i \in Records(k) : \A j \in Records(k) : j <= i
      BY <2>2, LastRecord DEF Base
    <3>2. \A j \in Records(k) : ~(j > i)
      BY <1>1, <3>1
    <3> QED
      BY <1>3, <3>1, <3>2 DEF WriteOf
  <2> QED
    BY <2>1, <2>2
<1> QED
  BY <1>3, <1>4, <1>5

(* A flush goes on, clearing WALs, or ends; records of k kept or cleared. *)
RecordsKept(k) ==
    /\ Records(k)' = Records(k) /\ \A i \in Records(k) : Rec(k, i)' = Rec(k, i)
    /\ walSynced'[ShardOf[k]] = walSynced[ShardOf[k]]

RecordsCleared(k) == Records(k)' = {} /\ hist[k] = {kv[k]} /\ (k \in exposed => k \in moved)

LEMMA ClearedKey ==
  ASSUME Base, phase = "replay" => todo = <<>>, NEW k \in Keys, KeySafe(k), RecordsCleared(k),
         UNCHANGED <<kv, hist, exposed, moved, todo, cmd, batch, phase>>, tail'[k] = tail[k]
  PROVE  KeySafe(k)'
<1>1. \A id : (Awaits(id)' <=> Awaits(id)) /\ (Pending(id)' <=> Pending(id)) /\ (Awaits(id) => Pending(id))
  BY DEF Awaits, Pending
<1>2. LogSafe(k)' /\ LossSafe(k)'
  BY DEF RecordsCleared, LogSafe, LossSafe
<1>3. DiskSafe(k)'
  <2>1. CASE phase = "up"
    BY <1>1, <2>1 DEF RecordsCleared, KeySafe, ValueSafe, DiskSafe
  <2>2. CASE phase = "replay"
    <3>1. \E w \in tail[k] : w.val = kv[k]
      BY <2>2, Replayed
    <3>2. \A a \in tail[k] : ~Awaits(a.id)
      BY <1>1, <2>2 DEF KeySafe, ReplaySafe
    <3> QED
      BY <1>1, <3>1, <3>2 DEF RecordsCleared, DiskSafe
  <2> QED
    BY <2>1, <2>2 DEF Base, AllOK, RunOK
<1>4. ValueSafe(k)'
  BY <1>1 DEF KeySafe, ValueSafe
<1>5. ReplaySafe(k)'
  <2>1. phase = "replay" => DOMAIN todo = {}
    OBVIOUS
  <2> QED
    BY <1>1, <2>1 DEF RecordsCleared, KeySafe, ReplaySafe, NoTodo
<1>6. CmdSafe(k)'
  BY DEF RecordsCleared, KeySafe, CmdSafe, WriteOf
<1> QED
  BY <1>2, <1>3, <1>4, <1>5, <1>6 DEF KeySafe

LEMMA UpAgain ==
  ASSUME Base, phase = "replay", todo = <<>>, NEW k \in Keys, KeySafe(k),
         RecordsKept(k) \/ RecordsCleared(k), UNCHANGED <<kv, hist, exposed, moved, cmd, batch>>,
         phase' = "up", tail'[k] = {w \in tail[k] : w.val = kv[k]}
  PROVE  KeySafe(k)'
<1>1. ShardOf[k] \in Shards
  BY DurabilityAssumption
<1>2. \A a \in tail[k] : ~Awaits(a.id) /\ ~Pending(a.id)
  BY DEF Pending, KeySafe, ReplaySafe
<1>3. \A a \in tail'[k] : a \in tail[k] /\ ~Awaits(a.id)' /\ ~Pending(a.id)'
  BY <1>2 DEF Awaits, Pending
<1>4. \E w \in tail'[k] : w.val = kv'[k]
  BY Replayed
<1>5. /\ \A i \in Records(k) : (\A j \in Records(k) : ~(j > i)) =>
             WriteOf(Rec(k, i)) \in tail[k] /\ kv[k] = Rec(k, i).val
      /\ Records(k) = {} => hist[k] = {kv[k]}
  BY Replayed
<1>6. \A i \in Records(k) : i \in Nat /\ ~(i > walSynced[ShardOf[k]])
  BY <1>1, RecordFacts DEF Base, Quiet
<1>7. ValueSafe(k)' /\ ReplaySafe(k)'
  BY <1>3, <1>4 DEF ValueSafe, ReplaySafe
<1>8. CmdSafe(k)'
  <2> SUFFICES ASSUME NEW u \in Sessions, cmd[u] # NoCmd
               PROVE  cmd[u].key # k /\ \A a \in tail'[k] : a.id # cmd[u].id
    BY DEF CmdSafe
  <2>1. \A a \in tail[k] : a.id # cmd[u].id
    BY <1>2 DEF Pending
  <2>2. cmd[u].key = k => WriteOf(cmd[u]) \in tail[k]
    BY DEF KeySafe, CmdSafe
  <2>3. WriteOf(cmd[u]).id = cmd[u].id
    BY DEF WriteOf
  <2> QED
    BY <1>3, <2>1, <2>2, <2>3
<1>9. CASE RecordsKept(k)
  <2>1. ASSUME NEW i \in Records(k), \A j \in Records(k) : j > i => j > walSynced[ShardOf[k]]
        PROVE  WriteOf(Rec(k, i))' \in tail'[k]
    <3>1. PICK W : W = WriteOf(Rec(k, i))
      OBVIOUS
    <3>2. W \in tail[k] /\ kv[k] = W.val
      BY <1>5, <1>6, <2>1, <3>1 DEF WriteOf
    <3>3. WriteOf(Rec(k, i))' = W
      BY <1>9, <3>1 DEF RecordsKept, WriteOf
    <3> QED
      BY <3>2, <3>3
  <2>2. LogSafe(k)'
    BY <1>3, <1>9, <2>1 DEF RecordsKept, KeySafe, LogSafe
  <2>3. DiskSafe(k)'
    BY <1>3, <1>4, <1>5, <1>6, <1>9 DEF RecordsKept, DiskSafe
  <2>4. LossSafe(k)'
    BY <1>9 DEF RecordsKept, KeySafe, LossSafe
  <2> QED
    BY <1>7, <1>8, <2>2, <2>3, <2>4 DEF KeySafe
<1>10. CASE RecordsCleared(k)
  <2>1. LogSafe(k)' /\ LossSafe(k)'
    BY <1>10 DEF RecordsCleared, LogSafe, LossSafe
  <2>2. DiskSafe(k)'
    BY <1>3, <1>4, <1>10 DEF RecordsCleared, DiskSafe
  <2> QED
    BY <1>7, <1>8, <2>1, <2>2 DEF KeySafe
<1> QED
  BY <1>9, <1>10

LEMMA FlushKeepsSafe ==
  ASSUME Base, NEW k \in Keys, KeySafe(k), FlushKeepsWAL PROVE KeySafe(k)'
<1>1. /\ UNCHANGED <<kv, hist, exposed, moved, todo, cmd, batch, wal, walSynced>> /\ phase' = "up"
      /\ tail'[k] = Recovered(k) /\ todo = <<>>
  BY DEF FlushKeepsWAL, FlushDone, mapVars, walVars, sessionVars, Base, FlushSafe
<1>2. RecordsKept(k)
  BY <1>1 DEF RecordsKept, Records, Rec
<1>3. CASE phase = "replay"
  BY <1>1, <1>2, <1>3, UpAgain DEF Recovered
<1>4. CASE phase = "up"
  <2>1. \A id : (Awaits(id)' => Awaits(id)) /\ (Pending(id)' => Pending(id))
    BY <1>1 DEF Awaits, Pending
  <2>2. walSynced[ShardOf[k]] \in Nat /\ Records(k) \subseteq Int /\ kv[k] \in hist[k]
    BY RecordFacts DEF Base, Histories
  <2>3. tail'[k] = tail[k]
    BY <1>1, <1>4 DEF Recovered
  <2> QED
    BY <1>1, <1>2, <1>4, <2>1, <2>2, <2>3, Kept DEF RecordsKept
<1> QED
  BY <1>3, <1>4 DEF Base, AllOK, RunOK

(* A flush that was not endangered by an early write clears what is on disk. *)
LEMMA ClearWALSafe ==
  ASSUME Base, NEW k \in Keys, KeySafe(k), NEW s \in Shards, ClearWAL(s), risk[k] = {}
  PROVE  KeySafe(k)'
<1>1. /\ \A r \in Shards : /\ wal'[r] = (IF r = s THEN <<>> ELSE wal[r])
                           /\ walSynced'[r] = IF r = s THEN 0 ELSE walSynced[r]
      /\ UNCHANGED <<kv, hist, exposed, moved, todo, cmd, batch>>
  BY ClearWALs DEF Base
<1>2. todo = <<>> /\ hist[k] = {kv[k]} /\ (k \in exposed => k \in moved)
  BY DEF ClearWAL, Base, FlushSafe, Flushed
<1>3. ShardOf[k] \in Shards
  BY DurabilityAssumption
<1>4. RecordsKept(k) \/ RecordsCleared(k)
  <2>1. CASE ShardOf[k] # s
    BY <1>1, <1>3, <2>1 DEF RecordsKept, Records, Rec
  <2>2. CASE ShardOf[k] = s
    <3>1. DOMAIN wal'[s] = {}
      BY <1>1
    <3> QED
      BY <1>2, <2>2, <3>1 DEF RecordsCleared, Records
  <2> QED
    BY <2>1, <2>2
<1>5. \/ phase' = phase /\ tail'[k] = tail[k]
      \/ phase' = "up" /\ tail'[k] = Recovered(k)
  <2>1. CASE UNCHANGED <<phase, tail, risk>>
    BY <2>1
  <2>2. CASE /\ FlushDone
             /\ tail' = [j \in Keys |-> IF FreshStart(j) THEN {[id |-> 0, val |-> kv[j]]} ELSE Recovered(j)]
    <3>1. ~FreshStart(k)
      BY DEF FreshStart
    <3> QED
      BY <2>2, <3>1 DEF FlushDone
  <2> QED
    BY <2>1, <2>2 DEF ClearWAL
<1>6. CASE phase = "replay" /\ phase' = "up" /\ tail'[k] = Recovered(k)
  BY <1>1, <1>2, <1>4, <1>6, UpAgain DEF Recovered
<1>7. CASE phase' = phase /\ tail'[k] = tail[k]
  <2>1. CASE RecordsCleared(k)
    BY <1>1, <1>2, <1>7, <2>1, ClearedKey
  <2>2. CASE RecordsKept(k)
    <3>1. \A id : (Awaits(id)' => Awaits(id)) /\ (Pending(id)' => Pending(id))
      BY <1>1 DEF Awaits, Pending
    <3>2. walSynced[ShardOf[k]] \in Nat /\ Records(k) \subseteq Int /\ kv[k] \in hist[k]
      BY RecordFacts DEF Base, Histories
    <3> QED
      BY <1>1, <1>7, <2>2, <3>1, <3>2, Kept DEF RecordsKept
  <2> QED
    BY <1>4, <2>1, <2>2
<1> QED
  BY <1>5, <1>6, <1>7 DEF Recovered, Base, AllOK, RunOK

(* The end of a flush is the end of what endangered k. *)
LEMMA FreshStartSafe ==
  ASSUME Base, NEW k \in Keys, NEW s \in Shards, ClearWAL(s), risk[k] # {}, risk'[k] = {}
  PROVE  NoPattern' /\ KeySafe(k)'
<1>1. /\ flushing.left = {s} /\ flushing.stage = "clear" /\ phase = "up" /\ phase' = "up"
      /\ tail'[k] = {[id |-> 0, val |-> kv[k]]}
  BY DEF ClearWAL, FlushDone, FreshStart
<1>2. /\ \A r \in Shards : wal'[r] = (IF r = s THEN <<>> ELSE wal[r])
      /\ UNCHANGED <<kv, hist, exposed, moved, todo, cmd, batch>>
  BY ClearWALs DEF Base
<1>3. /\ todo = <<>> /\ hist[k] = {kv[k]} /\ (k \in exposed => k \in moved)
      /\ \A t \in Sessions : cmd[t] = NoCmd
      /\ \A r \in Shards : r # s => wal[r] = <<>>
  BY <1>1 DEF Base, FlushSafe, Flushed
<1>4. \A r \in Shards : wal'[r] = <<>>
  BY <1>2, <1>3
<1>5. (\A r \in Shards : DOMAIN wal'[r] = {}) /\ DOMAIN todo' = {}
  BY <1>2, <1>3, <1>4
<1>6. NoPattern'
  BY <1>2, <1>3, <1>5 DEF NoPattern
<1>7. Records(k)' = {}
  BY <1>5, DurabilityAssumption DEF Records
<1>8. PICK W : W = [id |-> 0, val |-> kv[k]]
  OBVIOUS
<1>9. W.id = 0 /\ W.val = kv[k] /\ tail'[k] = {W}
  BY <1>1, <1>8
<1>10. LogSafe(k)' /\ LossSafe(k)' /\ ReplaySafe(k)' /\ CmdSafe(k)'
  BY <1>1, <1>2, <1>3, <1>7 DEF LogSafe, LossSafe, ReplaySafe, CmdSafe
<1>11. DiskSafe(k)' /\ ValueSafe(k)'
  BY <1>2, <1>3, <1>9 DEF DiskSafe, ValueSafe
<1> QED
  BY <1>6, <1>10, <1>11 DEF KeySafe

(* A crash leaves k the value of one of its writes, or a record to replay. *)
LEMMA CrashKeeps ==
  ASSUME Base, NEW k \in Keys, KeySafe(k), Restart, risk'[k] = {}
  PROVE  kv'[k] \in hist[k] \/ \E i \in Records(k) : i <= walSynced[ShardOf[k]]
<1> SUFFICES ASSUME kv'[k] \notin hist[k] PROVE \E i \in Records(k) : i <= walSynced[ShardOf[k]]
  OBVIOUS
<1>1. k \in exposed /\ LostBy(k) = {}
  BY DEF Restart, Crash
<1>2. k \notin moved /\ ~Overwritten(k)
  BY <1>1 DEF LostBy
<1> QED
  BY <1>1, <1>2 DEF KeySafe, LossSafe, Overwritten

LEMMA RestartSafe ==
  ASSUME Base, NoPattern, NEW k \in Keys, KeySafe(k), Restart, risk'[k] = {} PROVE KeySafe(k)'
<1>1. /\ hist'[k] = {kv'[k]} /\ exposed' = {}
      /\ kv'[k] \in hist[k] \/ \E i \in Records(k) : i <= walSynced[ShardOf[k]]
  BY CrashKeeps DEF Restart, Crash
<1>2. /\ phase' = "replay" /\ tail' = tail
      /\ cmd' = [t \in Sessions |-> NoCmd] /\ batch' = [t \in Sessions |-> {}]
  BY DEF Restart
<1>3. PICK n : Left(n)
  BY RestartLeft
<1>4. PICK w : w = wal'
  OBVIOUS
<1>5. PICK l : l = todo'
  OBVIOUS
<1>6. /\ \A s \in Shards : \A i \in DOMAIN w[s] : i \in DOMAIN wal[s] /\ w[s][i] = wal[s][i]
      /\ \A s \in Shards : \A i \in DOMAIN w[s] : \E q \in DOMAIN l : l[q] = w[s][i]
      /\ \A q \in DOMAIN l : \E s \in Shards : \E i \in DOMAIN w[s] : l[q] = w[s][i]
      /\ \A q, p \in DOMAIN l : q < p => l[q].seq <= l[p].seq /\ l[q] # l[p]
      /\ \A q \in DOMAIN l : q \in Nat
  BY <1>3, <1>4, <1>5, LeftSorted DEF Base, AllOK
<1>7. \A s \in Shards : \A i \in DOMAIN w[s] : ShardOf[w[s][i].cmd.key] = s
  BY <1>6 DEF NoPattern
<1>8. \A id : ~Awaits(id)' /\ ~Pending(id)'
  BY <1>2 DEF Awaits, Pending
<1>9. PICK S \in Shards : S = ShardOf[k]
  BY DurabilityAssumption
<1>10. PICK m \in Nat : m = n[S]
  BY <1>3, LeftPrefix DEF Base, AllOK
<1>11. /\ DOMAIN wal'[S] = 1 .. m /\ walSynced'[S] = m /\ walSynced[S] <= m /\ walSynced[S] \in Nat
       /\ \A i \in 1 .. m : i \in DOMAIN wal[S] /\ wal'[S][i] = wal[S][i]
  <2>1. /\ DOMAIN wal'[S] = 1 .. n[S] /\ walSynced'[S] = n[S] /\ walSynced[S] <= n[S]
        /\ \A i \in 1 .. n[S] : i \in DOMAIN wal[S] /\ wal'[S][i] = wal[S][i]
    BY <1>3, LeftPrefix DEF Base, AllOK
  <2>2. walSynced[S] \in Nat
    BY <1>9, RecordFacts DEF Base
  <2> QED
    BY <1>10, <2>1, <2>2
<1>12. /\ \A i : i \in Records(k)' <=> i \in Records(k) /\ i <= m
       /\ \A i \in Records(k)' : Rec(k, i)' = Rec(k, i) /\ i \in Nat
       /\ \A i \in Records(k) : i \in Nat
  <2>1. \A i \in Records(k) : i \in Nat /\ 1 <= i
    BY RecordFacts DEF Base
  <2> QED
    BY <1>9, <1>11, <2>1 DEF Records, Rec
<1>13. LogSafe(k)'
  <2>1. \A i, j \in Records(k)' : i < j => Rec(k, i)'.id < Rec(k, j)'.id
    BY <1>12 DEF KeySafe, LogSafe
  <2>2. ASSUME NEW i \in Records(k)', \A j \in Records(k)' : j > i => j > walSynced'[ShardOf[k]]
        PROVE  WriteOf(Rec(k, i))' \in tail'[k]
    <3>1. \A j \in Records(k) : j > i => j > walSynced[ShardOf[k]]
      BY <1>9, <1>11, <1>12, <2>2
    <3>2. WriteOf(Rec(k, i)) \in tail[k]
      BY <1>12, <3>1 DEF KeySafe, LogSafe
    <3> QED
      BY <1>2, <1>12, <3>2 DEF WriteOf
  <2> QED
    BY <1>8, <2>1, <2>2 DEF LogSafe
<1>14. DiskSafe(k)'
  <2> SUFFICES ASSUME \A i \in Records(k)' : i > walSynced'[ShardOf[k]]
               PROVE  \E x \in tail[k] : x.val = kv'[k]
    BY <1>1, <1>2, <1>8 DEF DiskSafe
  <2>1. \A i \in Records(k) : i > walSynced[ShardOf[k]] /\ ~(i <= walSynced[ShardOf[k]])
    BY <1>9, <1>11, <1>12
  <2>2. kv'[k] \in hist[k]
    BY <1>1, <2>1
  <2> QED
    BY <2>1, <2>2 DEF KeySafe, DiskSafe
<1>15. ValueSafe(k)' /\ LossSafe(k)' /\ CmdSafe(k)'
  BY <1>1, <1>2 DEF ValueSafe, LossSafe, CmdSafe
<1>16. ASSUME NEW p \in DOMAIN l, l[p].cmd.key = k
       PROVE  \E j \in Records(k)' : l[p] = w[S][j]
  <2>1. PICK s \in Shards : \E i \in DOMAIN w[s] : l[p] = w[s][i]
    BY <1>6
  <2>2. PICK i \in DOMAIN w[s] : l[p] = w[s][i]
    BY <2>1
  <2>3. s = S
    BY <1>7, <1>9, <1>16, <2>2
  <2> QED
    BY <1>4, <1>9, <1>16, <2>2, <2>3 DEF Records
<1>17. ASSUME NEW i \in Records(k)', \A j \in Records(k)' : j <= i
       PROVE  \E q \in DOMAIN l : /\ l[q].cmd = Rec(k, i)'
                                  /\ \A p \in DOMAIN l : p > q => l[p].cmd.key # k
  <2>1. i \in DOMAIN w[S] /\ w[S][i].cmd = Rec(k, i)'
    BY <1>4, <1>9 DEF Records, Rec
  <2>2. PICK q \in DOMAIN l : l[q] = w[S][i]
    BY <1>6, <2>1
  <2>3. ASSUME NEW p \in DOMAIN l, p > q, l[p].cmd.key = k PROVE FALSE
    <3>1. PICK j \in Records(k)' : l[p] = w[S][j]
      BY <1>16, <2>3
    <3>2. l[q] # l[p] /\ l[q].seq <= l[p].seq
      <4>1. q < p
        BY <1>6, <2>3
      <4> QED
        BY <1>6, <4>1
    <3>3. j # i /\ j <= i /\ i \in Nat /\ j \in Nat
      BY <1>12, <1>17, <2>2, <3>1, <3>2
    <3>4. j < i
      BY <3>3
    <3>5. j \in DOMAIN wal[S] /\ i \in DOMAIN wal[S] /\ w[S][i] = wal[S][i] /\ w[S][j] = wal[S][j]
      <4>1. j \in DOMAIN wal'[S] /\ i \in DOMAIN wal'[S]
        BY <1>9 DEF Records
      <4> QED
        BY <1>4, <1>11, <4>1
    <3>6. wal[S][j].seq < wal[S][i].seq /\ wal[S][j].seq \in Nat /\ wal[S][i].seq \in Nat
      BY <3>4, <3>5, WalFacts DEF Base, AllOK
    <3> QED
      BY <2>2, <3>1, <3>2, <3>5, <3>6
  <2> QED
    BY <2>1, <2>2, <2>3
<1>18. ReplaySafe(k)'
  <2>1. Records(k)' = {} => \A p \in DOMAIN l : l[p].cmd.key # k
    BY <1>16
  <2> QED
    BY <1>1, <1>5, <1>8, <1>17, <2>1 DEF ReplaySafe, NoTodo
<1> QED
  BY <1>13, <1>14, <1>15, <1>18 DEF KeySafe

(* What the replay of a record does to an unendangered key. *)
LEMMA ReplayWrites ==
  ASSUME Base, NEW c \in AnyCommand, c = Head(todo).cmd, KeyCmd(c), Replay, NEW k \in Keys, risk'[k] = {}
  PROVE  /\ k = c.key => kv'[k] = c.val /\ hist'[k] = hist[k] \cup {c.val}
         /\ k # c.key => kv'[k] = kv[k] /\ hist'[k] = hist[k] /\ (k \in exposed' => k \in exposed)
<1>1. c.op \in {"s", "d"} /\ (c.op = "d" => c.val = NoVal) /\ Affected(c) = {c.key}
  BY AffectedTyped DEF KeyCmd
<1>2. CASE c.op = "d" /\ kv[c.key] = NoVal /\ UNCHANGED <<mapVars, risk>>
  <2>1. kv[k] \in hist[k] /\ UNCHANGED <<kv, hist, exposed>>
    BY <1>2 DEF Base, Histories, mapVars
  <2> QED
    BY <1>1, <1>2, <2>1
<1>3. CASE c.op \notin Sets /\ Execute(c, Affected(c))
  <2>1. /\ k \notin Affected(c) => kv'[k] = kv[k] /\ hist'[k] = hist[k]
        /\ k \in Affected(c) => hist'[k] = hist[k] \cup {kv'[k]}
        /\ k \in exposed' => k \in exposed \/ (k \in Affected(c) /\ c.op \in Sets)
        /\ k \in Affected(c) => kv'[k] = IF c.op \in Sets THEN c.val ELSE NoVal
    BY <1>3, ExecuteChanges DEF Base
  <2>2. c.op = "d"
    BY <1>1, <1>3 DEF Sets
  <2> QED
    BY <1>1, <1>3, <2>1, <2>2
<1>4. ASSUME NEW R \in SUBSET Affected(c), c.op \in Sets, WriteAll(Affected(c) \ R, c.val),
             risk' = [j \in Keys |-> IF j \in R THEN risk[j] \cup {"refused"} ELSE risk[j]]
      PROVE  /\ k = c.key => kv'[k] = c.val /\ hist'[k] = hist[k] \cup {c.val}
             /\ k # c.key => kv'[k] = kv[k] /\ hist'[k] = hist[k] /\ (k \in exposed' => k \in exposed)
  <2>1. k \notin R
    BY <1>4
  <2>2. k \in Affected(c) \ R <=> k = c.key
    BY <1>1, <2>1
  <2> QED
    BY <1>4, <2>2 DEF WriteAll
<1> QED
  BY <1>2, <1>3, <1>4 DEF Replay

LEMMA ReplayStepSafe ==
  ASSUME Base, NoPattern, NEW k \in Keys, KeySafe(k), Replay, risk'[k] = {} PROVE KeySafe(k)'
<1>1. PICK l : l = todo
  OBVIOUS
<1>2. PICK c : c = Head(l).cmd
  OBVIOUS
<1>3. l \in Seq(Entry) /\ l # <<>> /\ phase = "replay" /\ todo' = Tail(l)
  BY <1>1 DEF Replay, Base, AllOK, RunOK
<1>4. /\ 1 \in DOMAIN l /\ c = l[1].cmd /\ todo' \in Seq(Entry)
      /\ \A q \in DOMAIN l : q \in Nat
      /\ \A q \in DOMAIN l : q # 1 => q - 1 \in DOMAIN todo' /\ todo'[q - 1] = l[q]
      /\ \A q \in DOMAIN todo' : q + 1 \in DOMAIN l /\ todo'[q] = l[q + 1] /\ q \in Nat
  BY <1>1, <1>2, <1>3, ReplayPops DEF Base
<1>5. KeyCmd(c) /\ c \in AnyCommand
  <2>1. KeyCmd(c)
    BY <1>1, <1>4 DEF NoPattern
  <2>2. l[1] \in Entry
    BY <1>3, <1>4
  <2> QED
    BY <1>4, <2>1, <2>2 DEF Entry
<1>6. PICK K \in Keys : K = c.key
  BY <1>5 DEF KeyCmd
<1>7. UNCHANGED <<wal, walSynced, phase, cmd, batch, tail, moved>>
  BY DEF Replay, walVars, sessionVars
<1>8. /\ k = K => kv'[k] = c.val /\ hist'[k] = hist[k] \cup {c.val}
      /\ k # K => kv'[k] = kv[k] /\ hist'[k] = hist[k] /\ (k \in exposed' => k \in exposed)
  BY <1>1, <1>2, <1>5, <1>6, ReplayWrites
<1>9. Records(k)' = Records(k) /\ \A i \in Records(k) : Rec(k, i)' = Rec(k, i) /\ Rec(k, i).key = k
  BY <1>7 DEF Records, Rec
<1>10. \A id : (Logged(k, id)' <=> Logged(k, id)) /\ (Awaits(id)' <=> Awaits(id)) /\ (Pending(id)' <=> Pending(id))
  BY <1>7, <1>9 DEF Logged, Awaits, Pending
<1>11. LogSafe(k)'
  BY <1>7, <1>9, <1>10 DEF KeySafe, LogSafe
<1>12. k = K => Records(k) # {}
  BY <1>1, <1>3, <1>4, <1>6 DEF KeySafe, ReplaySafe, NoTodo
<1>13. \A i \in Records(k) : ~(i > walSynced[ShardOf[k]]) /\ i <= walSynced[ShardOf[k]]
  BY <1>3, RecordFacts DEF Base, Quiet
<1>14. DiskSafe(k)'
  <2>1. CASE k # K
    BY <1>7, <1>8, <1>9, <1>10, <2>1 DEF KeySafe, DiskSafe
  <2>2. CASE k = K
    BY <1>7, <1>9, <1>12, <1>13, <2>2 DEF DiskSafe
  <2> QED
    BY <2>1, <2>2
<1>15. ValueSafe(k)'
  BY <1>3, <1>7 DEF ValueSafe
<1>16. LossSafe(k)'
  <2>1. CASE k # K
    BY <1>3, <1>7, <1>8, <1>9, <2>1 DEF KeySafe, LossSafe
  <2>2. CASE k = K
    BY <1>7, <1>9, <1>12, <1>13, <2>2 DEF LossSafe
  <2> QED
    BY <2>1, <2>2
<1>17. CmdSafe(k)'
  BY <1>7, <1>9 DEF KeySafe, CmdSafe, WriteOf
<1>18. ASSUME NEW i \in Records(k), \A j \in Records(k) : j <= i
       PROVE  \/ NoTodo(k)' /\ kv'[k] = Rec(k, i).val
              \/ \E q \in DOMAIN todo' : /\ todo'[q].cmd = Rec(k, i)
                                         /\ \A p \in DOMAIN todo' : p > q => todo'[p].cmd.key # k
  <2>1. \/ NoTodo(k) /\ kv[k] = Rec(k, i).val
        \/ \E q \in DOMAIN l : /\ l[q].cmd = Rec(k, i)
                               /\ \A p \in DOMAIN l : p > q => l[p].cmd.key # k
    BY <1>1, <1>3, <1>18 DEF KeySafe, ReplaySafe
  <2>2. CASE NoTodo(k) /\ kv[k] = Rec(k, i).val
    <3>1. k # K
      BY <1>1, <1>4, <1>6, <2>2 DEF NoTodo
    <3> QED
      BY <1>1, <1>4, <1>8, <2>2, <3>1 DEF NoTodo
  <2>3. ASSUME NEW q \in DOMAIN l, l[q].cmd = Rec(k, i),
               \A p \in DOMAIN l : p > q => l[p].cmd.key # k
        PROVE  \/ NoTodo(k)' /\ kv'[k] = Rec(k, i).val
               \/ \E x \in DOMAIN todo' : /\ todo'[x].cmd = Rec(k, i)
                                          /\ \A p \in DOMAIN todo' : p > x => todo'[p].cmd.key # k
    <3>1. CASE q = 1
      <4>1. k = K /\ Rec(k, i) = c
        BY <1>4, <1>6, <1>9, <2>3, <3>1
      <4>2. \A p \in DOMAIN todo' : todo'[p].cmd.key # k
        <5>1. \A p \in DOMAIN todo' : p >= 1
          BY <1>4
        <5>2. \A p \in DOMAIN todo' : p + 1 > q
          BY <1>4, <3>1, <5>1
        <5> QED
          BY <1>4, <2>3, <5>2
      <4> QED
        BY <1>8, <4>1, <4>2 DEF NoTodo
    <3>2. CASE q # 1
      <4>1. q - 1 \in DOMAIN todo' /\ todo'[q - 1].cmd = Rec(k, i)
        BY <1>4, <2>3, <3>2
      <4>2. ASSUME NEW p \in DOMAIN todo', p > q - 1 PROVE todo'[p].cmd.key # k
        <5>1. p + 1 \in DOMAIN l /\ todo'[p] = l[p + 1] /\ p + 1 > q
          BY <1>4, <4>2
        <5> QED
          BY <2>3, <5>1
      <4> QED
        BY <4>1, <4>2
    <3> QED
      BY <3>1, <3>2
  <2> QED
    BY <2>1, <2>2, <2>3
<1>19. ASSUME Records(k) = {} PROVE NoTodo(k)' /\ hist'[k] = {kv'[k]}
  <2>1. k # K /\ NoTodo(k) /\ hist[k] = {kv[k]}
    BY <1>3, <1>12, <1>19 DEF KeySafe, ReplaySafe
  <2> QED
    BY <1>1, <1>4, <1>8, <2>1 DEF NoTodo
<1>20. ReplaySafe(k)'
  <2>1. \A a \in tail'[k] : ~Pending(a.id)'
    BY <1>3, <1>7, <1>10 DEF KeySafe, ReplaySafe
  <2> QED
    BY <1>9, <1>18, <1>19, <2>1 DEF ReplaySafe
<1> QED
  BY <1>11, <1>14, <1>15, <1>16, <1>17, <1>20 DEF KeySafe

(* What DurabilityInv says, with AllOK for its types. *)
Good == Base /\ \A k \in Keys : risk[k] = {} => NoPattern /\ KeySafe(k)

LEMMA GoodIs == Good <=> DurabilityInv
BY AllOKIs DEF Good, Base, Histories, DurabilityInv

LEMMA InitGood == Init => Good
<1> SUFFICES ASSUME Init PROVE Good
  OBVIOUS
<1>1. AllOK
  BY InitTyped
<1>2. /\ kv = [k \in Keys |-> NoVal] /\ hist = [k \in Keys |-> {NoVal}] /\ exposed = {}
      /\ phase = "up" /\ cmd = [t \in Sessions |-> NoCmd] /\ batch = [t \in Sessions |-> {}]
      /\ tail = [k \in Keys |-> {[id |-> 0, val |-> NoVal]}] /\ writes = 0 /\ todo = <<>>
  BY DEF Init, MapInit
<1>3. DOMAIN todo = {} /\ \A s \in Shards : DOMAIN wal[s] = {}
  BY DEF Init
<1>4. FlushSafe
  BY DEF Init, FlushSafe, NoFlush
<1>5. Numbered
  BY <1>2, <1>3 DEF Numbered
<1>6. Quiet /\ Histories
  BY <1>2 DEF Quiet, Histories
<1>7. NoPattern
  BY <1>2, <1>3 DEF NoPattern
<1>8. ASSUME NEW k \in Keys PROVE KeySafe(k)
  <2>1. Records(k) = {}
    BY <1>3, DurabilityAssumption DEF Records
  <2>2. \A id : ~Awaits(id) /\ ~Pending(id)
    BY <1>2 DEF Awaits, Pending
  <2>3. PICK W : W = [id |-> 0, val |-> NoVal]
    OBVIOUS
  <2>4. W.val = NoVal /\ tail[k] = {W} /\ kv[k] = NoVal /\ hist[k] = {NoVal}
    BY <1>2, <2>3
  <2>5. LogSafe(k)
    BY <2>1 DEF LogSafe
  <2>6. DiskSafe(k) /\ ValueSafe(k)
    BY <2>2, <2>4 DEF DiskSafe, ValueSafe
  <2>7. ReplaySafe(k) /\ LossSafe(k) /\ CmdSafe(k)
    BY <1>2 DEF ReplaySafe, LossSafe, CmdSafe
  <2> QED
    BY <2>5, <2>6, <2>7 DEF KeySafe
<1> QED
  BY <1>1, <1>4, <1>5, <1>6, <1>7, <1>8 DEF Good, Base

(* Only the end of a flush takes k out of danger. *)
LEMMA RiskStays ==
  ASSUME Base, NEW k \in Keys, [Next]_vars, risk[k] # {}, risk'[k] = {}
  PROVE  \E s \in Shards : ClearWAL(s)
<1>1. ASSUME NEW t \in Sessions, Apply(t) PROVE FALSE
  <2>1. PICK c, K : Applies(t, c, K)
    BY <1>1, ApplyApplies DEF Base
  <2> QED
    BY <2>1 DEF Applies
<1>2. ASSUME NEW t \in Sessions, Log(t) PROVE FALSE
  <2>1. PICK c : Logs(t, c)
    BY <1>2, LogLogs DEF Base
  <2> QED
    BY <2>1 DEF Logs
<1>3. CASE Restart
  BY <1>3 DEF Restart
<1>4. CASE Replay
  BY <1>4 DEF Replay
<1>5. CASE UNCHANGED risk
  BY <1>5
<1>6. ASSUME NEW t \in Sessions, Acknowledge(t) \/ SyncFails(t) PROVE UNCHANGED risk
  BY <1>6 DEF Acknowledge, SyncFails, histVars
<1>7. CASE FlushBegin \/ ClearBegin \/ FlushKeepsWAL \/ (\E s \in Shards : FlushShard(s))
           \/ (\E j \in Keys : Relocate(j)) \/ UNCHANGED vars
  BY <1>5, <1>7 DEF FlushBegin, ClearBegin, FlushKeepsWAL, FlushShard, Relocate, vars, histVars
<1> QED
  BY <1>1, <1>2, <1>3, <1>4, <1>5, <1>6, <1>7 DEF Next, SessionNext, FlushNext

LEMMA NextGood == ASSUME Good, [Next]_vars PROVE Good'
<1>1. Base'
  BY NextBase DEF Good
<1>2. ASSUME NEW k \in Keys, risk'[k] = {} PROVE NoPattern' /\ KeySafe(k)'
  <2>1. Base
    BY DEF Good
  <2>2. CASE risk[k] # {}
    BY <1>2, <2>1, <2>2, RiskStays, FreshStartSafe
  <2>3. CASE risk[k] = {}
    <3>1. NoPattern /\ KeySafe(k)
      BY <2>3 DEF Good
    <3>2. NoPattern'
      BY <1>2, <2>1, <3>1, NextNoPattern
    <3>3. KeySafe(k)'
      <4>1. ASSUME NEW t \in Sessions, Apply(t) \/ Log(t) \/ Acknowledge(t) \/ SyncFails(t) PROVE KeySafe(k)'
        BY <1>2, <2>1, <3>1, <4>1, ApplySafe, LogStepSafe, AcknowledgeSafe, SyncFailsSafe
      <4>2. CASE FlushNext
        BY <2>1, <2>3, <3>1, <4>2, FlushStepSafe, FlushKeepsSafe, ClearWALSafe DEF FlushNext
      <4> QED
        BY <1>2, <2>1, <3>1, <4>1, <4>2, FlushStepSafe, RestartSafe, ReplayStepSafe DEF Next, SessionNext
    <3> QED
      BY <3>2, <3>3
  <2> QED
    BY <2>2, <2>3
<1> QED
  BY <1>1, <1>2 DEF Good

(***************************************************************************)
(* ZestDB's durability, with every operation of the module enabled:        *)
(* however sessions, failing appends and syncs, flushes, compaction,       *)
(* crashes and replays interleave, whatever part of the WALs and of the    *)
(* shards a crash leaves, a key has the value of its last acknowledged     *)
(* write or of a later one, unless one of the named Causes happened to     *)
(* that key since the last completed flush (for the two that concern       *)
(* patterns: to any key).                                                  *)
(***************************************************************************)
THEOREM AckedWritesSurvive == Spec => []AckedSurvive
<1>1. Good /\ [Next]_vars => Good'
  BY NextGood
<1>2. Good => AckedSurvive
  BY DEF Good, KeySafe, ValueSafe, AckedSurvive
<1> QED
  BY <1>1, <1>2, InitGood, PTL DEF Spec
=============================================================================
