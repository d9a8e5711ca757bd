---------------------------- MODULE Bulk_proofs ----------------------------
(***************************************************************************)
(* The pool and the bulk commands, for any shards, keys, clients, workers  *)
(* and limits.                                                             *)
(***************************************************************************)
EXTENDS Bulk, Integers, FiniteSetTheorems, WellFoundedInduction, TLAPS

-----------------------------------------------------------------------------
(* Smallest *)

(* A set of numbers that is not empty has a least one. *)
LEMMA LeastExists ==
  ASSUME NEW T \in SUBSET Nat, T # {}
  PROVE  \E x \in T : \A y \in T : x <= y
<1> DEFINE R == OpToRel(<, Nat)
<1>1. IsWellFoundedOn(R, Nat)
  BY NatLessThanWellFounded
<1>2. PICK x \in T : \A y \in T : <<y, x>> \notin R
  <2> HIDE DEF R
  <2> QED
    BY <1>1, WFMin
<1>3. \A y \in T : ~(y < x)
  BY <1>2 DEF OpToRel
<1> QED
  BY <1>3

(* S is of size n and has none but the smallest elements of K. *)
IsLeast(S, K, n) == S \in SUBSET K /\ Cardinality(S) = n /\ \A k \in S, q \in K \ S : k < q

LEMMA LeastGrows ==
  ASSUME NEW K \in SUBSET Nat, IsFiniteSet(K), NEW n \in Nat, n < Cardinality(K),
         NEW S, IsLeast(S, K, n)
  PROVE  \E U : IsLeast(U, K, n + 1)
<1>1. IsFiniteSet(S) /\ Cardinality(S) # Cardinality(K)
  <2>1. IsFiniteSet(S)
    BY FS_Subset DEF IsLeast
  <2>2. Cardinality(K) \in Nat
    BY FS_CardinalityType
  <2> QED
    BY <2>1, <2>2 DEF IsLeast
<1>2. K \ S # {}
  BY <1>1 DEF IsLeast
<1>3. PICK m \in K \ S : \A y \in K \ S : m <= y
  BY <1>2, LeastExists
<1>4. Cardinality(S \cup {m}) = n + 1
  BY <1>1, <1>3, FS_AddElement DEF IsLeast
<1>5. \A k \in S \cup {m}, q \in K \ (S \cup {m}) : k < q
  BY <1>3 DEF IsLeast
<1> QED
  BY <1>3, <1>4, <1>5 DEF IsLeast

(* By induction, as the least number without such a set. *)
LEMMA LeastOfSize ==
  ASSUME NEW K \in SUBSET Nat, IsFiniteSet(K), NEW n \in Nat, n <= Cardinality(K)
  PROVE  \E S : IsLeast(S, K, n)
<1> DEFINE Bad == {i \in Nat : i <= Cardinality(K) /\ ~\E S : IsLeast(S, K, i)}
<1> SUFFICES ASSUME Bad # {} PROVE FALSE
  OBVIOUS
<1>1. PICK i \in Bad : \A j \in Bad : i <= j
  BY LeastExists
<1>2. Cardinality(K) \in Nat
  BY FS_CardinalityType
<1>3. i # 0
  <2>1. IsLeast({}, K, 0)
    BY FS_EmptySet DEF IsLeast
  <2> QED
    BY <1>1, <2>1
<1>4. i - 1 \in Nat /\ i - 1 < Cardinality(K) /\ (i - 1) + 1 = i /\ i - 1 \notin Bad
  BY <1>1, <1>2, <1>3
<1>5. PICK S : IsLeast(S, K, i - 1)
  BY <1>2, <1>4
<1>6. \E U : IsLeast(U, K, (i - 1) + 1)
  BY <1>4, <1>5, LeastGrows
<1> QED
  BY <1>1, <1>4, <1>6

(* What firstMatchingKeys and matchingKeys keep of K. *)
LEMMA SmallestIs ==
  ASSUME NEW K \in SUBSET Keys, NEW lim \in Nat
  PROVE  /\ Smallest(K, lim) \in SUBSET K
         /\ IsFiniteSet(K) /\ IsFiniteSet(Smallest(K, lim))
         /\ Cardinality(Smallest(K, lim)) \in Nat
         /\ Cardinality(Smallest(K, lim)) <= lim
         /\ Cardinality(Smallest(K, lim)) < lim => Smallest(K, lim) = K
         /\ \A k \in Smallest(K, lim), q \in K \ Smallest(K, lim) : k < q
<1>1. K \in SUBSET Nat /\ IsFiniteSet(K) /\ Cardinality(K) \in Nat
  BY BulkAssumption, FS_Subset, FS_CardinalityType
<1>2. CASE Cardinality(K) <= lim
  BY <1>1, <1>2 DEF Smallest
<1>3. CASE ~(Cardinality(K) <= lim)
  <2>1. \E U : IsLeast(U, K, lim)
    BY <1>1, <1>3, LeastOfSize
  <2>2. IsLeast(Smallest(K, lim), K, lim)
    <3> DEFINE P(S) == Cardinality(S) = lim /\ \A k \in S, q \in K \ S : k < q
    <3>1. Smallest(K, lim) = CHOOSE S \in SUBSET K : P(S)
      BY <1>3 DEF Smallest
    <3>2. \E S \in SUBSET K : P(S)
      BY <2>1 DEF IsLeast
    <3>3. Smallest(K, lim) \in SUBSET K /\ P(Smallest(K, lim))
      BY <3>1, <3>2, Zenon
    <3> QED
      BY <3>3 DEF IsLeast
  <2>3. IsFiniteSet(Smallest(K, lim))
    BY <1>1, <2>2, FS_Subset DEF IsLeast
  <2> QED
    BY <1>1, <2>2, <2>3 DEF IsLeast
<1> QED
  BY <1>2, <1>3

-----------------------------------------------------------------------------
(* What the steps do to a command *)

(* The fields of a command. *)
LEMMA CommandHas ==
  ASSUME NEW m \in Command
  PROVE  /\ m.op \in {"none", "getby", "setby", "delby"} /\ m.limit \in Nat \cup {NoLimit}
         /\ m.at \in {"idle", "push", "notify", "wait", "apply", "reply"}
         /\ m.next \in 0 .. NumShards + 1
         /\ m.done \in SUBSET Shards /\ m.chosen \in SUBSET Keys /\ m.left \in SUBSET Keys
BY DEF Command

LEMMA IdleIs ==
  /\ Idle \in Command /\ Idle.op = "none" /\ Idle.limit = NoLimit /\ Idle.at = "idle"
  /\ Idle.done = {} /\ Idle.chosen = {} /\ Idle.left = {}
BY BulkAssumption DEF Idle, Command

(* All but the stage of the command of c stays. *)
SameData(c) ==
    /\ cmd'[c].op = cmd[c].op /\ cmd'[c].limit = cmd[c].limit
    /\ cmd'[c].done = cmd[c].done /\ cmd'[c].chosen = cmd[c].chosen

(* Only the command of c changes, to one with stage at and next n. *)
Only(c, at, n) ==
    /\ cmd' \in [Clients -> Command]
    /\ \A d \in Clients \ {c} : cmd'[d] = cmd[d]
    /\ cmd'[c].at = at /\ cmd'[c].next = n

Begin(i, op, lim) == [i EXCEPT !.op = op, !.limit = lim, !.at = "push", !.next = 1]

LEMMA BeginIs ==
  ASSUME NEW i \in Command, NEW op \in {"getby", "setby", "delby"}, NEW lim \in Nat \cup {NoLimit}
  PROVE  /\ Begin(i, op, lim) \in Command
         /\ Begin(i, op, lim).op = op /\ Begin(i, op, lim).limit = lim
         /\ Begin(i, op, lim).at = "push"
         /\ Begin(i, op, lim).done = i.done /\ Begin(i, op, lim).chosen = i.chosen
<1>1. 1 \in 0 .. NumShards + 1
  BY BulkAssumption
<1> QED
  BY <1>1 DEF Command, Begin

LEMMA GiveDoes ==
  ASSUME BulkInv, NEW c \in Clients, NEW op \in {"getby", "setby", "delby"},
         NEW lim \in Nat \cup {NoLimit}, Give(c, op, lim)
  PROVE  /\ Only(c, "push", 1) /\ cmd'[c].done = {} /\ cmd'[c].chosen = {}
         /\ cmd'[c].op = op /\ cmd'[c].limit = lim
<1> DEFINE m == Begin(Idle, op, lim)
<1>1. cmd \in [Clients -> Command] /\ cmd' = [cmd EXCEPT ![c] = m]
  BY DEF Give, BulkInv, BulkTypeOK, Begin
<1>2. /\ m \in Command /\ m.op = op /\ m.limit = lim /\ m.at = "push"
      /\ m.done = Idle.done /\ m.chosen = Idle.chosen
  BY BeginIs, IdleIs
<1>3. m.next = 1
  BY DEF Begin, Idle
<1> HIDE DEF m
<1> QED
  BY <1>1, <1>2, <1>3, IdleIs DEF Only

LEMMA StageDoes ==
  ASSUME cmd \in [Clients -> Command], NEW c \in Clients,
         NEW at \in {"push", "notify", "wait", "reply"}, NEW n \in 0 .. NumShards + 1,
         cmd' = [cmd EXCEPT ![c].at = at, ![c].next = n]
  PROVE  Only(c, at, n) /\ SameData(c)
<1> DEFINE m == [cmd[c] EXCEPT !.at = at, !.next = n]
<1>1. m \in Command /\ m.at = at /\ m.next = n
  BY DEF Command
<1>2. m.op = cmd[c].op /\ m.limit = cmd[c].limit /\ m.done = cmd[c].done /\ m.chosen = cmd[c].chosen
  BY DEF Command
<1>3. cmd' = [cmd EXCEPT ![c] = m]
  OBVIOUS
<1> QED
  BY <1>1, <1>2, <1>3 DEF Only, SameData

LEMMA EnqueueDoes ==
  ASSUME BulkInv, NEW c \in Clients, Enqueue(c)
  PROVE  Only(c, "notify", cmd[c].next) /\ SameData(c)
<1>1. cmd \in [Clients -> Command] /\ cmd[c].next \in 0 .. NumShards + 1
  BY CommandHas DEF BulkInv, BulkTypeOK
<1>2. [cmd EXCEPT ![c].at = "notify"] = [cmd EXCEPT ![c].at = "notify", ![c].next = cmd[c].next]
  BY <1>1 DEF Command
<1> QED
  BY <1>1, <1>2, StageDoes DEF Enqueue

LEMMA NotifyDoes ==
  ASSUME BulkInv, NEW c \in Clients, Notify(c)
  PROVE  /\ Only(c, IF cmd[c].next < NumShards THEN "push" ELSE "wait", cmd[c].next + 1)
         /\ SameData(c)
<1>1. cmd \in [Clients -> Command] /\ cmd[c].next + 1 \in 0 .. NumShards + 1
  BY BulkAssumption DEF BulkInv, BulkTypeOK, PoolInv, StageSafe, Notify, Shards
<1> QED
  BY <1>1, StageDoes DEF Notify

LEMMA AppliedDoes ==
  ASSUME BulkInv, NEW c \in Clients, Applied(c)
  PROVE  Only(c, "reply", cmd[c].next) /\ SameData(c)
<1>1. cmd \in [Clients -> Command] /\ cmd[c].next \in 0 .. NumShards + 1
  BY CommandHas DEF BulkInv, BulkTypeOK
<1>2. [cmd EXCEPT ![c].at = "reply"] = [cmd EXCEPT ![c].at = "reply", ![c].next = cmd[c].next]
  BY <1>1 DEF Command
<1> QED
  BY <1>1, <1>2, StageDoes DEF Applied

LEMMA ReplyDoes == ASSUME BulkInv, NEW c \in Clients, Reply(c) PROVE Only(c, "idle", 0) /\ cmd'[c] = Idle
<1>1. cmd \in [Clients -> Command] /\ cmd' = [cmd EXCEPT ![c] = Idle] /\ Idle.next = 0
  BY DEF Reply, BulkInv, BulkTypeOK, Idle
<1> QED
  BY <1>1, IdleIs DEF Only

LEMMA ApplyOneDoes ==
  ASSUME BulkInv, NEW c \in Clients, ApplyOne(c)
  PROVE  /\ Only(c, "apply", cmd[c].next) /\ SameData(c)
         /\ \E P \in SUBSET Keys : Becomes(P, c)
<1> DEFINE k == CHOOSE x \in cmd[c].left : \A y \in cmd[c].left : x <= y
           m == [cmd[c] EXCEPT !.left = @ \ {k}]
<1>1. cmd \in [Clients -> Command] /\ cmd[c].left \in SUBSET Keys /\ present \in SUBSET Keys
  BY CommandHas DEF BulkInv, BulkTypeOK
<1>2. k \in Keys
  <2>1. \E x \in cmd[c].left : \A y \in cmd[c].left : x <= y
    BY <1>1, BulkAssumption, LeastExists DEF ApplyOne
  <2> QED
    BY <1>1, <2>1
<1>3. \E P \in SUBSET Keys : Becomes(P, c)
  BY <1>1, <1>2 DEF ApplyOne
<1>4. cmd' = [cmd EXCEPT ![c] = m]
  BY DEF ApplyOne
<1>5. /\ m \in Command /\ m.at = cmd[c].at /\ m.next = cmd[c].next /\ m.op = cmd[c].op
      /\ m.limit = cmd[c].limit /\ m.done = cmd[c].done /\ m.chosen = cmd[c].chosen
  <2> HIDE DEF k
  <2> QED
    BY <1>1 DEF Command
<1> HIDE DEF m
<1> QED
  BY <1>1, <1>3, <1>4, <1>5 DEF Only, SameData, ApplyOne

LEMMA CollectedDoes ==
  ASSUME BulkInv, NEW c \in Clients, Collected(c)
  PROVE  /\ Only(c, IF Collects(c) THEN "apply" ELSE "reply", cmd[c].next)
         /\ cmd'[c].op = cmd[c].op /\ cmd'[c].limit = cmd[c].limit /\ cmd'[c].done = cmd[c].done
         /\ cmd'[c].chosen = IF Collects(c) THEN Smallest(cmd[c].chosen, cmd[c].limit)
                             ELSE cmd[c].chosen
<1> DEFINE K == Smallest(cmd[c].chosen, cmd[c].limit)
           m == [cmd[c] EXCEPT !.at = "apply", !.chosen = K, !.left = K]
           n == [cmd[c] EXCEPT !.at = "reply"]
<1>1. cmd \in [Clients -> Command] /\ cmd' = [cmd EXCEPT ![c] = IF Collects(c) THEN m ELSE n]
  BY DEF Collected, BulkInv, BulkTypeOK
<1>2. ASSUME Collects(c) PROVE K \in SUBSET Keys
  <2>1. cmd[c].chosen \in SUBSET Keys /\ cmd[c].limit \in Nat
    BY <1>1, <1>2, CommandHas DEF Collects
  <2> QED
    BY <2>1, SmallestIs
<1>3. /\ n \in Command /\ n.at = "reply" /\ n.next = cmd[c].next /\ n.op = cmd[c].op
      /\ n.limit = cmd[c].limit /\ n.done = cmd[c].done /\ n.chosen = cmd[c].chosen
  BY <1>1 DEF Command
<1>4. /\ Collects(c) => m \in Command
      /\ m.at = "apply" /\ m.next = cmd[c].next /\ m.op = cmd[c].op
      /\ m.limit = cmd[c].limit /\ m.done = cmd[c].done /\ m.chosen = K
  <2> HIDE DEF K
  <2> QED
    BY <1>1, <1>2 DEF Command
<1> HIDE DEF m, n
<1>5. CASE Collects(c)
  BY <1>1, <1>4, <1>5 DEF Only
<1>6. CASE ~Collects(c)
  BY <1>1, <1>3, <1>6 DEF Only
<1> QED
  BY <1>5, <1>6

(* The future of w's task gets its value. *)
LEMMA ResolveDoes ==
  ASSUME BulkInv, NEW w \in Workers, worker[w] = "busy", NEW K \in SUBSET Keys, Resolve(w, K)
  PROVE  /\ job[w] \in Tasks /\ job[w] # NoTask /\ Client(w) \in Clients /\ job[w].shard \in Shards
         /\ Only(Client(w), cmd[Client(w)].at, cmd[Client(w)].next)
         /\ cmd'[Client(w)].op = cmd[Client(w)].op /\ cmd'[Client(w)].limit = cmd[Client(w)].limit
         /\ cmd'[Client(w)].done = cmd[Client(w)].done \cup {job[w].shard}
         /\ cmd'[Client(w)].chosen = cmd[Client(w)].chosen \cup K
<1>1. job[w] \in Tasks /\ job[w] # NoTask
  BY DEF BulkInv, BulkTypeOK, PoolInv, QueueSafe
<1>2. Client(w) \in Clients /\ job[w].shard \in Shards
  BY <1>1 DEF Tasks, Client
<1> DEFINE c == Client(w)
           s == job[w].shard
           m == [cmd[c] EXCEPT !.done = @ \cup {s}, !.chosen = @ \cup K]
<1>3. cmd \in [Clients -> Command] /\ cmd' = [cmd EXCEPT ![c] = m]
  BY <1>2 DEF Resolve, BulkInv, BulkTypeOK
<1> HIDE DEF c, s
<1>4. /\ m \in Command /\ m.at = cmd[c].at /\ m.next = cmd[c].next /\ m.op = cmd[c].op
      /\ m.limit = cmd[c].limit /\ m.done = cmd[c].done \cup {s} /\ m.chosen = cmd[c].chosen \cup K
  BY <1>2, <1>3 DEF Command, c, s
<1> HIDE DEF m
<1> QED
  BY <1>1, <1>2, <1>3, <1>4 DEF Only, c, s

-----------------------------------------------------------------------------
(* The pool *)

(* Nothing that matters to the pool changes in the command of d. *)
SameStage(d) == cmd'[d].at = cmd[d].at /\ cmd'[d].next = cmd[d].next /\ cmd'[d].done = cmd[d].done

SamePending == \A t \in Tasks : Pending(t)' <=> Pending(t)

LEMMA PendingSame ==
  ASSUME NEW t \in Tasks, SameStage(t.client) PROVE Pending(t)' <=> Pending(t)
BY DEF Pending, Gathers, SameStage

LEMMA TaskHas == \A t \in Tasks : t.client \in Clients /\ t.shard \in Shards
BY DEF Tasks

LEMMA TaskIs ==
  ASSUME NEW t \in Tasks, NEW c, NEW s, t.client = c, t.shard = s
  PROVE  t = [client |-> c, shard |-> s]
BY DEF Tasks

(* Workers go to sleep or wake up, and no task moves. *)
LEMMA QueueStill ==
  ASSUME BulkInv, tasks' = tasks, job' = job, SamePending,
         \A w \in Workers : worker'[w] = "busy" <=> worker[w] = "busy"
  PROVE  QueueSafe' /\ NoneLost'
<1>1. /\ \A i \in DOMAIN tasks : tasks[i] \in Tasks
      /\ \A w \in Workers : job[w] # NoTask => job[w] \in Tasks
  BY DEF BulkInv, BulkTypeOK
<1>2. QueueSafe /\ NoneLost
  BY DEF BulkInv, PoolInv
<1>3. QueueSafe'
  BY <1>1, <1>2 DEF QueueSafe, SamePending
<1>4. NoneLost'
  BY <1>1, <1>2 DEF NoneLost, SamePending
<1> QED
  BY <1>3, <1>4

LEMMA PoolStill ==
  ASSUME BulkInv, UNCHANGED poolVars, SamePending,
         \A c \in Clients : cmd[c].at = "notify" => cmd'[c].at = "notify",
         stopFlag => \A c \in Clients : cmd'[c].at = "idle"
  PROVE  QueueSafe' /\ NoneLost' /\ SleepSafe'
<1>1. QueueSafe' /\ NoneLost'
  BY QueueStill DEF poolVars
<1>2. SleepSafe'
  BY DEF BulkInv, PoolInv, SleepSafe, Awake, Sleepers, poolVars
<1> QED
  BY <1>1, <1>2

LEMMA EnqueuePool ==
  ASSUME BulkInv, NEW c \in Clients, Enqueue(c) PROVE QueueSafe' /\ NoneLost' /\ SleepSafe'
<1>1. /\ cmd[c].next \in Shards /\ cmd[c].next \notin cmd[c].done
      /\ QueueSafe /\ NoneLost /\ SleepSafe
  BY DEF BulkInv, PoolInv, StageSafe, Enqueue
<1>2. PICK t0 \in Tasks : t0 = [client |-> c, shard |-> cmd[c].next]
  BY <1>1 DEF Tasks
<1>3. /\ Only(c, "notify", cmd[c].next) /\ cmd'[c].done = cmd[c].done /\ cmd[c].at = "push"
      /\ tasks' = Append(tasks, t0) /\ UNCHANGED <<worker, job, stopFlag, joining>>
  BY <1>2, EnqueueDoes DEF Enqueue, Push, SameData
<1>4. t0.client = c /\ t0.shard = cmd[c].next
  BY <1>2
<1>5. /\ tasks \in Seq(Tasks) /\ \A i \in DOMAIN tasks : tasks[i] \in Tasks
      /\ \A w \in Workers : job[w] # NoTask => job[w] \in Tasks
  BY DEF BulkInv, BulkTypeOK
<1>6. Pending(t0)' /\ ~Pending(t0)
  BY <1>1, <1>3, <1>4 DEF Pending, Gathers, Only, Shards
<1>7. \A t \in Tasks : Pending(t)' <=> Pending(t) \/ t = t0
  <2> TAKE t \in Tasks
  <2>1. CASE t.client # c
    <3>1. SameStage(t.client)
      BY <1>3, <2>1, TaskHas DEF SameStage, Only
    <3> QED
      BY <2>1, <3>1, <1>4, PendingSame
  <2>2. CASE t.client = c
    <3>1. CASE t.shard = cmd[c].next
      BY <1>2, <1>6, <2>2, <3>1, TaskIs
    <3>2. CASE t.shard # cmd[c].next
      BY <1>3, <1>4, <2>2, <3>2 DEF Pending, Gathers, Only
    <3> QED
      BY <3>1, <3>2
  <2> QED
    BY <2>1, <2>2
<1>8. /\ DOMAIN tasks = 1 .. Len(tasks) /\ Len(tasks) \in Nat /\ DOMAIN tasks' = 1 .. Len(tasks) + 1
      /\ tasks'[Len(tasks) + 1] = t0 /\ \A i \in 1 .. Len(tasks) : tasks'[i] = tasks[i]
  BY <1>3, <1>5
<1>9. (\A i \in DOMAIN tasks : tasks[i] # t0) /\ (\A w \in Workers : job[w] # NoTask => job[w] # t0)
  BY <1>1, <1>6 DEF QueueSafe
<1>10. QueueSafe'
  <2>1. (\A i \in DOMAIN tasks : Pending(tasks[i]))'
    BY <1>1, <1>4, <1>5, <1>7, <1>8 DEF QueueSafe
  <2>2. \A i, j \in DOMAIN tasks' : tasks'[i] = tasks'[j] => i = j
    BY <1>1, <1>8, <1>9 DEF QueueSafe
  <2>3. (\A w \in Workers : job[w] # NoTask =>
           Pending(job[w]) /\ \A i \in DOMAIN tasks : tasks[i] # job[w])'
    BY <1>1, <1>3, <1>5, <1>7, <1>8, <1>9 DEF QueueSafe
  <2> QED
    BY <1>1, <1>3, <2>1, <2>2, <2>3 DEF QueueSafe
<1>11. NoneLost'
  <2> SUFFICES ASSUME NEW t \in Tasks, Pending(t)'
               PROVE  (\E i \in DOMAIN tasks' : tasks'[i] = t) \/ (\E w \in Workers : job'[w] = t)
    BY DEF NoneLost
  <2>1. CASE t = t0
    BY <1>8, <2>1
  <2>2. CASE t # t0
    BY <1>1, <1>3, <1>7, <1>8, <2>2 DEF NoneLost
  <2> QED
    BY <2>1, <2>2
<1>12. SleepSafe'
  BY <1>1, <1>3 DEF SleepSafe, Awake, Sleepers, Only
<1> QED
  BY <1>10, <1>11, <1>12

LEMMA NotifyPool ==
  ASSUME BulkInv, NEW c \in Clients, Notify(c) PROVE QueueSafe' /\ NoneLost' /\ SleepSafe'
<1>1. /\ Only(c, IF cmd[c].next < NumShards THEN "push" ELSE "wait", cmd[c].next + 1)
      /\ cmd'[c].done = cmd[c].done /\ cmd[c].at = "notify" /\ NotifyOne
  BY NotifyDoes DEF Notify, SameData
<1>2. cmd[c].next \in Shards /\ SleepSafe
  BY <1>1 DEF BulkInv, PoolInv, StageSafe
<1>3. SamePending
  <2> SUFFICES ASSUME NEW t \in Tasks PROVE Pending(t)' <=> Pending(t)
    BY DEF SamePending
  <2>1. CASE t.client # c
    BY <1>1, <2>1, TaskHas, PendingSame DEF SameStage, Only
  <2>2. CASE t.client = c
    BY <1>1, <1>2, <2>2, TaskHas DEF Pending, Gathers, Only, Shards
  <2> QED
    BY <2>1, <2>2
<1>4. worker \in [Workers -> {"ready", "waiting", "busy", "exited"}]
  BY DEF BulkInv, BulkTypeOK
<1>5. /\ tasks' = tasks /\ job' = job /\ stopFlag' = stopFlag /\ joining' = joining
      /\ \A w \in Workers : worker'[w] = "busy" <=> worker[w] = "busy"
      /\ \A w \in Workers : worker'[w] # worker[w] => worker'[w] = "ready"
  BY <1>1, <1>4 DEF NotifyOne, Sleepers
<1>6. QueueSafe' /\ NoneLost'
  BY <1>3, <1>5, QueueStill
<1>7. ~stopFlag
  BY <1>1, <1>2 DEF SleepSafe
<1>8. \E w \in Workers : worker'[w] \in {"ready", "busy"}
  <2>1. CASE Sleepers = {}
    BY <1>1, <1>2, <1>4, <1>7, <2>1, PoolAssumption DEF Sleepers, SleepSafe, NotifyOne
  <2>2. CASE Sleepers # {}
    BY <1>1, <1>4, <2>2 DEF Sleepers, NotifyOne
  <2> QED
    BY <2>1, <2>2
<1>9. SleepSafe'
  BY <1>2, <1>5, <1>7, <1>8 DEF SleepSafe, Awake, Sleepers
<1> QED
  BY <1>6, <1>9

(* The oldest task goes from the queue to w, or w sleeps or leaves. *)
LEMMA TakeTaskPool ==
  ASSUME BulkInv, NEW w \in Workers, TakeTask(w), UNCHANGED bulkVars
  PROVE  QueueSafe' /\ NoneLost' /\ SleepSafe'
<1>1. /\ tasks \in Seq(Tasks) /\ job \in [Workers -> Tasks \cup {NoTask}]
      /\ worker \in [Workers -> {"ready", "waiting", "busy", "exited"}] /\ worker[w] = "ready"
      /\ QueueSafe /\ NoneLost /\ SleepSafe /\ cmd' = cmd
  BY DEF BulkInv, BulkTypeOK, PoolInv, TakeTask, bulkVars
<1>2. SamePending
  BY <1>1, PendingSame DEF SamePending, SameStage
<1>3. CASE tasks = <<>>
  <2>1. /\ tasks' = tasks /\ job' = job /\ stopFlag' = stopFlag /\ joining' = joining
        /\ worker' = [worker EXCEPT ![w] = IF stopFlag THEN "exited" ELSE "waiting"]
    BY <1>3 DEF TakeTask
  <2>2. \A x \in Workers : worker'[x] = "busy" <=> worker[x] = "busy"
    BY <1>1, <2>1
  <2>3. SleepSafe'
    BY <1>1, <1>3, <2>1 DEF SleepSafe, Awake, Sleepers
  <2> QED
    BY <1>2, <2>1, <2>2, <2>3, QueueStill
<1>4. CASE tasks # <<>>
  <2>1. /\ tasks' = Tail(tasks) /\ job' = [job EXCEPT ![w] = Head(tasks)]
        /\ worker' = [worker EXCEPT ![w] = "busy"] /\ stopFlag' = stopFlag /\ joining' = joining
    BY <1>4 DEF TakeTask, TakenOff
  <2>2. /\ Len(tasks) \in Nat \ {0} /\ DOMAIN tasks = 1 .. Len(tasks) /\ Head(tasks) = tasks[1]
        /\ DOMAIN tasks' = 1 .. Len(tasks) - 1 /\ \A i \in 1 .. Len(tasks) - 1 : tasks'[i] = tasks[i + 1]
    BY <1>1, <1>4, <2>1
  <2>3. PICK t0 \in Tasks : t0 = tasks[1]
    BY <1>1, <2>2
  <2>4. /\ \A i \in DOMAIN tasks' : tasks'[i] \in Tasks /\ i + 1 \in DOMAIN tasks /\ tasks'[i] = tasks[i + 1]
        /\ job'[w] = t0 /\ t0 # NoTask /\ \A x \in Workers \ {w} : job'[x] = job[x]
        /\ job[w] = NoTask /\ 1 \in DOMAIN tasks
    BY <1>1, <2>1, <2>2, <2>3, BulkAssumption DEF QueueSafe
  <2>5. QueueSafe'
    <3>1. (\A i \in DOMAIN tasks : Pending(tasks[i]))'
      BY <1>1, <1>2, <2>2, <2>4 DEF QueueSafe, SamePending
    <3>2. \A i, j \in DOMAIN tasks' : tasks'[i] = tasks'[j] => i = j
      BY <1>1, <2>2, <2>4 DEF QueueSafe
    <3>3. \A x \in Workers : worker'[x] = "busy" <=> job'[x] # NoTask
      BY <1>1, <2>1, <2>4 DEF QueueSafe
    <3>4. (\A x \in Workers : job[x] # NoTask => Pending(job[x]))'
      BY <1>1, <1>2, <2>3, <2>4 DEF QueueSafe, SamePending
    <3>5. \A x \in Workers : job'[x] # NoTask => \A i \in DOMAIN tasks' : tasks'[i] # job'[x]
      <4> SUFFICES ASSUME NEW x \in Workers, job'[x] # NoTask, NEW i \in DOMAIN tasks'
                   PROVE  tasks[i + 1] # job'[x] /\ i + 1 \in DOMAIN tasks
        BY <2>4
      <4>1. CASE x = w
        BY <1>1, <2>2, <2>3, <2>4, <4>1 DEF QueueSafe
      <4>2. CASE x # w
        BY <1>1, <2>4, <4>2 DEF QueueSafe
      <4> QED
        BY <4>1, <4>2
    <3>6. \A x, y \in Workers : job'[x] # NoTask /\ job'[x] = job'[y] => x = y
      <4>1. \A x \in Workers \ {w} : job'[x] # t0 \/ job'[x] = NoTask
        BY <1>1, <2>3, <2>4 DEF QueueSafe
      <4> QED
        BY <1>1, <2>4, <4>1 DEF QueueSafe
    <3> QED
      BY <3>1, <3>2, <3>3, <3>4, <3>5, <3>6 DEF QueueSafe
  <2>6. NoneLost'
    <3> SUFFICES ASSUME NEW t \in Tasks, Pending(t)'
                 PROVE  (\E i \in DOMAIN tasks' : tasks'[i] = t) \/ (\E x \in Workers : job'[x] = t)
      BY DEF NoneLost
    <3>1. Pending(t)
      BY <1>2 DEF SamePending
    <3>2. CASE \E x \in Workers : job[x] = t
      BY <2>4, <3>2, BulkAssumption
    <3>3. ASSUME NEW i \in DOMAIN tasks, tasks[i] = t
          PROVE  (\E j \in DOMAIN tasks' : tasks'[j] = t) \/ (\E x \in Workers : job'[x] = t)
      <4>1. CASE i = 1
        BY <2>3, <2>4, <3>3, <4>1
      <4>2. CASE i # 1
        <5>1. i - 1 \in DOMAIN tasks' /\ (i - 1) + 1 = i
          BY <2>2, <4>2
        <5> QED
          BY <2>4, <3>3, <5>1
      <4> QED
        BY <4>1, <4>2
    <3> QED
      BY <1>1, <3>1, <3>2, <3>3 DEF NoneLost
  <2>7. SleepSafe'
    BY <1>1, <2>1 DEF SleepSafe, Awake, Sleepers
  <2> QED
    BY <2>5, <2>6, <2>7
<1> QED
  BY <1>3, <1>4

(* The task of w is over. *)
LEMMA ResolvePool ==
  ASSUME BulkInv, NEW w \in Workers, worker[w] = "busy", NEW K \in SUBSET Keys, Resolve(w, K)
  PROVE  QueueSafe' /\ NoneLost' /\ SleepSafe'
<1>1. /\ tasks \in Seq(Tasks) /\ job \in [Workers -> Tasks \cup {NoTask}]
      /\ worker \in [Workers -> {"ready", "waiting", "busy", "exited"}]
      /\ QueueSafe /\ NoneLost /\ SleepSafe
  BY DEF BulkInv, BulkTypeOK, PoolInv
<1>2. PICK t0 \in Tasks : t0 = job[w] /\ t0 # NoTask
  BY ResolveDoes
<1>3. /\ Only(t0.client, cmd[t0.client].at, cmd[t0.client].next) /\ t0.client \in Clients
      /\ cmd'[t0.client].done = cmd[t0.client].done \cup {t0.shard}
  BY <1>2, ResolveDoes DEF Client
<1>4. /\ tasks' = tasks /\ stopFlag' = stopFlag /\ joining' = joining
      /\ job' = [job EXCEPT ![w] = NoTask] /\ worker' = [worker EXCEPT ![w] = "ready"]
  BY DEF Resolve, TaskOver
<1>5. \A t \in Tasks : Pending(t)' <=> Pending(t) /\ t # t0
  <2> TAKE t \in Tasks
  <2>1. CASE t.client # t0.client
    <3>1. SameStage(t.client)
      BY <1>3, <2>1, TaskHas DEF SameStage, Only
    <3> QED
      BY <2>1, <3>1, PendingSame
  <2>2. CASE t.client = t0.client /\ t.shard = t0.shard
    BY <1>3, <2>2, TaskIs DEF Pending
  <2>3. CASE t.client = t0.client /\ t.shard # t0.shard
    BY <1>3, <2>3 DEF Pending, Gathers, Only
  <2> QED
    BY <2>1, <2>2, <2>3
<1>6. /\ \A i \in DOMAIN tasks : tasks[i] \in Tasks /\ tasks[i] # t0
      /\ \A x \in Workers : x # w /\ job[x] # NoTask => job[x] \in Tasks /\ job[x] # t0
  BY <1>1, <1>2 DEF QueueSafe
<1>7. QueueSafe'
  <2>1. (\A i \in DOMAIN tasks : Pending(tasks[i]))'
    BY <1>1, <1>4, <1>5, <1>6 DEF QueueSafe
  <2>2. \A x \in Workers : worker'[x] = "busy" <=> job'[x] # NoTask
    BY <1>1, <1>4 DEF QueueSafe
  <2>3. (\A x \in Workers : job[x] # NoTask =>
            Pending(job[x]) /\ \A i \in DOMAIN tasks : tasks[i] # job[x])'
    BY <1>1, <1>4, <1>5, <1>6 DEF QueueSafe
  <2>4. \A x, y \in Workers : job'[x] # NoTask /\ job'[x] = job'[y] => x = y
    BY <1>1, <1>4 DEF QueueSafe
  <2> QED
    BY <1>1, <1>4, <2>1, <2>2, <2>3, <2>4 DEF QueueSafe
<1>8. NoneLost'
  BY <1>1, <1>2, <1>4, <1>5 DEF NoneLost
<1>9. SleepSafe'
  <2>1. \A c \in Clients : cmd'[c].at = cmd[c].at
    BY <1>3 DEF Only
  <2> QED
    BY <1>1, <1>4, <2>1 DEF SleepSafe, Awake, Sleepers
<1> QED
  BY <1>7, <1>8, <1>9

LEMMA WakePool ==
  ASSUME BulkInv, NEW w \in Workers, WakeSpuriously(w), UNCHANGED bulkVars
  PROVE  QueueSafe' /\ NoneLost' /\ SleepSafe'
<1>1. /\ worker \in [Workers -> {"ready", "waiting", "busy", "exited"}] /\ SleepSafe /\ cmd' = cmd
      /\ UNCHANGED <<tasks, job, stopFlag, joining>> /\ worker' = [worker EXCEPT ![w] = "ready"]
      /\ worker[w] = "waiting"
  BY DEF BulkInv, BulkTypeOK, PoolInv, WakeSpuriously, bulkVars
<1>2. SamePending
  BY <1>1, PendingSame DEF SamePending, SameStage
<1>3. SleepSafe'
  BY <1>1 DEF SleepSafe, Awake, Sleepers
<1>4. \A x \in Workers : worker'[x] = "busy" <=> worker[x] = "busy"
  BY <1>1
<1> QED
  BY <1>1, <1>2, <1>3, <1>4, QueueStill

LEMMA StopPoolSafe == ASSUME BulkInv, Stop PROVE QueueSafe' /\ NoneLost' /\ SleepSafe'
<1>1. /\ UNCHANGED <<tasks, job, worker, joining>> /\ SleepSafe /\ cmd' = cmd /\ ~stopFlag
      /\ \A c \in Clients : cmd[c].at = "idle"
  BY DEF BulkInv, PoolInv, Stop, StopPool, bulkVars
<1>2. SamePending
  BY <1>1, PendingSame DEF SamePending, SameStage
<1>3. SleepSafe'
  BY <1>1 DEF SleepSafe, Awake, Sleepers, BulkInv, BulkTypeOK, Stop, StopPool
<1> QED
  BY <1>1, <1>2, <1>3, QueueStill

LEMMA NotifyAllPool ==
  ASSUME BulkInv, NotifyAll, UNCHANGED bulkVars PROVE QueueSafe' /\ NoneLost' /\ SleepSafe'
<1>1. /\ worker \in [Workers -> {"ready", "waiting", "busy", "exited"}] /\ SleepSafe /\ cmd' = cmd
      /\ UNCHANGED <<tasks, job, stopFlag>> /\ stopFlag /\ joining'
      /\ worker' = [w \in Workers |-> IF worker[w] = "waiting" THEN "ready" ELSE worker[w]]
  BY DEF BulkInv, BulkTypeOK, PoolInv, NotifyAll, Sleepers, bulkVars
<1>2. SamePending
  BY <1>1, PendingSame DEF SamePending, SameStage
<1>3. SleepSafe'
  BY <1>1 DEF SleepSafe, Awake, Sleepers
<1>4. \A x \in Workers : worker'[x] = "busy" <=> worker[x] = "busy"
  BY <1>1
<1> QED
  BY <1>1, <1>2, <1>3, <1>4, QueueStill

(* Steps of a command while none of its tasks is pending. *)
LEMMA BetweenPool ==
  ASSUME BulkInv, UNCHANGED poolVars, NEW c \in Clients, NEW at, NEW n, Only(c, at, n),
         cmd[c].at # "notify", ~stopFlag \/ at = "idle",
         \A t \in Tasks : t.client = c => ~Pending(t) /\ ~Pending(t)'
  PROVE  QueueSafe' /\ NoneLost' /\ SleepSafe'
<1>1. SamePending
  <2> SUFFICES ASSUME NEW t \in Tasks PROVE Pending(t)' <=> Pending(t)
    BY DEF SamePending
  <2>1. CASE t.client # c
    BY <2>1, TaskHas, PendingSame DEF SameStage, Only
  <2>2. CASE t.client = c
    BY <2>2
  <2> QED
    BY <2>1, <2>2
<1>2. SleepSafe
  BY DEF BulkInv, PoolInv
<1>3. \A d \in Clients : cmd[d].at = "notify" => cmd'[d].at = "notify"
  BY DEF Only
<1>4. stopFlag => \A d \in Clients : cmd'[d].at = "idle"
  BY <1>2 DEF SleepSafe, Only
<1> QED
  BY <1>1, <1>3, <1>4, PoolStill

LEMMA GivePool ==
  ASSUME BulkInv, NEW c \in Clients, NEW op \in {"getby", "setby", "delby"},
         NEW lim \in Nat \cup {NoLimit}, Give(c, op, lim)
  PROVE  QueueSafe' /\ NoneLost' /\ SleepSafe'
<1>1. UNCHANGED poolVars /\ Only(c, "push", 1) /\ cmd[c].at = "idle" /\ ~stopFlag
  BY GiveDoes DEF Give
<1>2. \A t \in Tasks : t.client = c => ~Pending(t) /\ ~Pending(t)'
  BY <1>1, TaskHas, BulkAssumption DEF Pending, Gathers, Only, Shards
<1> QED
  BY <1>1, <1>2, BetweenPool

LEMMA CollectedPool ==
  ASSUME BulkInv, NEW c \in Clients, Collected(c) PROVE QueueSafe' /\ NoneLost' /\ SleepSafe'
<1>1. /\ UNCHANGED poolVars /\ cmd[c].at = "wait" /\ cmd[c].done = Shards
      /\ Only(c, IF Collects(c) THEN "apply" ELSE "reply", cmd[c].next)
  BY CollectedDoes DEF Collected
<1>2. \A t \in Tasks : t.client = c => ~Pending(t) /\ ~Pending(t)'
  BY <1>1, TaskHas DEF Pending, Gathers, Only
<1>3. ~stopFlag
  BY <1>1 DEF BulkInv, PoolInv, SleepSafe
<1> QED
  BY <1>1, <1>2, <1>3, BetweenPool

LEMMA AppliedPool ==
  ASSUME BulkInv, NEW c \in Clients, ApplyOne(c) \/ Applied(c) \/ Reply(c)
  PROVE  QueueSafe' /\ NoneLost' /\ SleepSafe'
<1>1. PICK at \in {"apply", "reply", "idle"} : \E n : Only(c, at, n)
  BY ApplyOneDoes, AppliedDoes, ReplyDoes
<1>2. UNCHANGED poolVars /\ cmd[c].at \in {"apply", "reply"}
  BY DEF ApplyOne, Applied, Reply
<1>3. \A t \in Tasks : t.client = c => ~Pending(t) /\ ~Pending(t)'
  BY <1>1, <1>2 DEF Pending, Gathers, Only
<1>4. ~stopFlag
  BY <1>2 DEF BulkInv, PoolInv, SleepSafe
<1> QED
  BY <1>1, <1>2, <1>3, <1>4, BetweenPool

-----------------------------------------------------------------------------
(* Stages *)

LEMMA StageKept ==
  ASSUME NEW d \in Clients, StageSafe(d), cmd'[d] = cmd[d], cmd[d].at = "idle" => seen'[d] = seen[d]
  PROVE  StageSafe(d)'
BY DEF StageSafe, Collects

(* What every step does to the histories but the beginning and end of a command. *)
LEMMA StagesKept ==
  ASSUME BulkInv, NEW c \in Clients, NEW at, NEW n, Only(c, at, n), StageSafe(c)',
         \A d \in Clients \ {c} : cmd[d].at = "idle" => seen'[d] = seen[d]
  PROVE  \A d \in Clients : StageSafe(d)'
<1> SUFFICES ASSUME NEW d \in Clients, d # c PROVE StageSafe(d)'
  OBVIOUS
<1> QED
  BY StageKept DEF Only, BulkInv, PoolInv

LEMMA GiveStage ==
  ASSUME BulkInv, NEW c \in Clients, NEW op \in {"getby", "setby", "delby"},
         NEW lim \in Nat \cup {NoLimit}, Give(c, op, lim)
  PROVE  \A d \in Clients : StageSafe(d)'
<1>1. Only(c, "push", 1) /\ cmd'[c].done = {}
  BY GiveDoes
<1>2. \A d \in Clients \ {c} : seen'[d] = seen[d]
  BY DEF Give, BulkInv, BulkTypeOK
<1>3. StageSafe(c)'
  BY <1>1, BulkAssumption DEF StageSafe, Only, Shards
<1> QED
  BY <1>1, <1>2, <1>3, StagesKept

LEMMA EnqueueStage ==
  ASSUME BulkInv, NEW c \in Clients, Enqueue(c) PROVE \A d \in Clients : StageSafe(d)'
<1>1. Only(c, "notify", cmd[c].next) /\ cmd'[c].done = cmd[c].done /\ cmd[c].at = "push" /\ seen' = seen
  BY EnqueueDoes DEF Enqueue, SameData
<1>2. StageSafe(c)'
  BY <1>1 DEF StageSafe, Only, BulkInv, PoolInv
<1> QED
  BY <1>1, <1>2, StagesKept

LEMMA NotifyStage ==
  ASSUME BulkInv, NEW c \in Clients, Notify(c) PROVE \A d \in Clients : StageSafe(d)'
<1>1. /\ Only(c, IF cmd[c].next < NumShards THEN "push" ELSE "wait", cmd[c].next + 1)
      /\ cmd'[c].done = cmd[c].done /\ cmd[c].at = "notify" /\ seen' = seen
  BY NotifyDoes DEF Notify, SameData
<1>2. cmd[c].next \in Shards /\ cmd[c].done \subseteq 1 .. cmd[c].next
  BY <1>1 DEF StageSafe, BulkInv, PoolInv
<1>3. StageSafe(c)'
  BY <1>1, <1>2, BulkAssumption DEF StageSafe, Only, Shards
<1> QED
  BY <1>1, <1>3, StagesKept

LEMMA CollectedStage ==
  ASSUME BulkInv, NEW c \in Clients, Collected(c) PROVE \A d \in Clients : StageSafe(d)'
<1>1. /\ Only(c, IF Collects(c) THEN "apply" ELSE "reply", cmd[c].next) /\ seen' = seen
      /\ cmd'[c].op = cmd[c].op /\ cmd'[c].limit = cmd[c].limit
  BY CollectedDoes DEF Collected
<1>2. StageSafe(c)'
  BY <1>1 DEF StageSafe, Only, Collects
<1> QED
  BY <1>1, <1>2, StagesKept

LEMMA ApplyOneStage ==
  ASSUME BulkInv, NEW c \in Clients, ApplyOne(c) PROVE \A d \in Clients : StageSafe(d)'
<1>1. Only(c, "apply", cmd[c].next) /\ SameData(c) /\ cmd[c].at = "apply"
  BY ApplyOneDoes DEF ApplyOne
<1>2. \A d \in Clients : cmd[d].at = "idle" => seen'[d] = seen[d]
  BY ApplyOneDoes DEF Becomes
<1>3. StageSafe(c)'
  BY <1>1 DEF StageSafe, Only, Collects, SameData, BulkInv, PoolInv
<1> QED
  BY <1>1, <1>2, <1>3, StagesKept

LEMMA AppliedStage ==
  ASSUME BulkInv, NEW c \in Clients, Applied(c) PROVE \A d \in Clients : StageSafe(d)'
<1>1. Only(c, "reply", cmd[c].next) /\ seen' = seen
  BY AppliedDoes DEF Applied
<1>2. StageSafe(c)'
  BY <1>1 DEF StageSafe, Only
<1> QED
  BY <1>1, <1>2, StagesKept

LEMMA ReplyStage ==
  ASSUME BulkInv, NEW c \in Clients, Reply(c) PROVE \A d \in Clients : StageSafe(d)'
<1>1. /\ Only(c, "idle", 0) /\ cmd'[c] = Idle /\ seen'[c] = NoWatch
      /\ \A d \in Clients \ {c} : seen'[d] = seen[d]
  BY ReplyDoes DEF Reply, BulkInv, BulkTypeOK
<1>2. StageSafe(c)'
  BY <1>1 DEF StageSafe, Only
<1> QED
  BY <1>1, <1>2, StagesKept

LEMMA ResolveStage ==
  ASSUME BulkInv, NEW w \in Workers, worker[w] = "busy", NEW K \in SUBSET Keys, Resolve(w, K),
         \A d \in Clients : cmd[d].at = "idle" => seen'[d] = seen[d]
  PROVE  \A d \in Clients : StageSafe(d)'
<1>1. PICK c \in Clients, s \in Shards : c = Client(w) /\ s = job[w].shard
  BY ResolveDoes
<1>2. Only(c, cmd[c].at, cmd[c].next) /\ cmd'[c].done = cmd[c].done \cup {s}
  BY <1>1, ResolveDoes
<1>3. Pending(job[w]) /\ StageSafe(c)
  BY ResolveDoes DEF BulkInv, PoolInv, QueueSafe
<1>4. Gathers(c) /\ (s < cmd[c].next \/ (s = cmd[c].next /\ cmd[c].at = "notify"))
  BY <1>1, <1>3 DEF Pending, Client
<1>5. StageSafe(c)'
  BY <1>2, <1>3, <1>4, BulkAssumption DEF StageSafe, Only, Gathers, Shards
<1> QED
  BY <1>2, <1>5, StagesKept

-----------------------------------------------------------------------------
(* Types *)

LEMMA BecomesDoes ==
  ASSUME BulkInv, NEW P \in SUBSET Keys, NEW by, Becomes(P, by)
  PROVE  /\ present' = P /\ seen' \in [Clients -> [steady : SUBSET Keys, ever : SUBSET Keys]]
         /\ \A d \in Clients :
              /\ cmd[d].at = "idle" => seen'[d] = seen[d]
              /\ seen'[d].steady \subseteq seen[d].steady /\ seen[d].ever \subseteq seen'[d].ever
              /\ cmd[d].at # "idle" => P \subseteq seen'[d].ever
              /\ cmd[d].at # "idle" /\ d # by => seen'[d].steady \subseteq P
              /\ d = by => seen'[d].steady = seen[d].steady
BY DEF Becomes, BulkInv, BulkTypeOK

LEMMA ResolveType ==
  ASSUME BulkInv, NEW w \in Workers, worker[w] = "busy", NEW K \in SUBSET Keys, Resolve(w, K)
  PROVE  /\ tasks' \in Seq(Tasks) /\ job' \in [Workers -> Tasks \cup {NoTask}]
         /\ worker' \in [Workers -> {"ready", "waiting", "busy", "exited"}]
         /\ stopFlag' \in BOOLEAN /\ joining' \in BOOLEAN /\ cmd' \in [Clients -> Command]
<1>1. cmd' \in [Clients -> Command]
  BY ResolveDoes DEF Only
<1> QED
  BY <1>1 DEF Resolve, TaskOver, BulkInv, BulkTypeOK

LEMMA PoolType ==
  ASSUME BulkInv, NEW w \in Workers,
         TakeTask(w) \/ NotifyOne \/ WakeSpuriously(w) \/ StopPool \/ NotifyAll \/ UNCHANGED poolVars
  PROVE  /\ tasks' \in Seq(Tasks) /\ job' \in [Workers -> Tasks \cup {NoTask}]
         /\ worker' \in [Workers -> {"ready", "waiting", "busy", "exited"}]
         /\ stopFlag' \in BOOLEAN /\ joining' \in BOOLEAN
<1>1. /\ tasks \in Seq(Tasks) /\ job \in [Workers -> Tasks \cup {NoTask}]
      /\ worker \in [Workers -> {"ready", "waiting", "busy", "exited"}]
      /\ stopFlag \in BOOLEAN /\ joining \in BOOLEAN
  BY DEF BulkInv, BulkTypeOK
<1>2. CASE TakeTask(w)
  <2>1. tasks # <<>> => Head(tasks) \in Tasks /\ Tail(tasks) \in Seq(Tasks)
    BY <1>1
  <2> QED
    BY <1>1, <1>2, <2>1 DEF TakeTask, TakenOff
<1>3. CASE NotifyOne
  BY <1>1, <1>3 DEF NotifyOne, Sleepers
<1>4. CASE WakeSpuriously(w) \/ StopPool \/ NotifyAll \/ UNCHANGED poolVars
  BY <1>1, <1>4 DEF WakeSpuriously, StopPool, NotifyAll, poolVars, Sleepers
<1> QED
  BY <1>2, <1>3, <1>4

-----------------------------------------------------------------------------
(* Frames *)

Unmoved(x) == todo'[x] = todo[x] /\ undo'[x] = undo[x] /\ (Begun(x) => job'[x] = job[x])

Aside(x, d) == Unmoved(x) \/ (~Serves(x, d) /\ ~Serves(x, d)')

(* A step that does not concern the command of d. *)
Untouched(d) ==
    /\ SameData(d) /\ matches'[d] = matches[d]
    /\ (Gathers(d)' <=> Gathers(d)) /\ (cmd'[d].at = "idle" <=> cmd[d].at = "idle")
    /\ seen'[d].steady \subseteq seen[d].steady /\ seen[d].ever \subseteq seen'[d].ever
    /\ cmd[d].at # "idle" => present' \subseteq seen'[d].ever
    /\ Gathers(d) => \A k \in seen'[d].steady : k \in present => k \in present'
    /\ \A x \in Workers : Aside(x, d)

(* x works for the command of d on the shard s. *)
WorksOn(x, d, s) == Begun(x) /\ job[x] = [client |-> d, shard |-> s]

LEMMA WorksServes ==
  ASSUME NEW x \in Workers, NEW d \in Clients, NEW s \in Shards
  PROVE  WorksOn(x, d, s) => Serves(x, d)
<1>1. [client |-> d, shard |-> s] \in Tasks /\ [client |-> d, shard |-> s].client = d
  BY DEF Tasks
<1> QED
  BY <1>1, BulkAssumption DEF WorksOn, Serves, Client

LEMMA WorksServesNext ==
  ASSUME NEW x \in Workers, NEW d \in Clients, NEW s \in Shards
  PROVE  WorksOn(x, d, s)' => Serves(x, d)'
<1>1. [client |-> d, shard |-> s] \in Tasks /\ [client |-> d, shard |-> s].client = d
  BY DEF Tasks
<1> QED
  BY <1>1, BulkAssumption DEF WorksOn, Serves, Client

(* A worker of d goes on as before. *)
LEMMA AsideUndo ==
  ASSUME NEW d \in Clients, NEW x \in Workers, Aside(x, d)
  PROVE  (undo[x] /\ Serves(x, d))' <=> (undo[x] /\ Serves(x, d))
BY DEF Unmoved, Begun, Serves, Client, Aside

LEMMA AsideWorks ==
  ASSUME NEW d \in Clients, NEW x \in Workers, NEW s \in Shards, Aside(x, d)
  PROVE  (WorksOn(x, d, s)' <=> WorksOn(x, d, s)) /\ (WorksOn(x, d, s) => todo'[x] = todo[x])
<1>1. CASE Unmoved(x)
  BY <1>1 DEF Unmoved, Begun, WorksOn
<1>2. CASE ~Serves(x, d) /\ ~Serves(x, d)'
  BY <1>2, WorksServes, WorksServesNext
<1> QED
  BY <1>1, <1>2 DEF Aside

LEMMA UntouchedSame ==
  ASSUME BulkTypeOK, NEW d \in Clients, Untouched(d)
  PROVE  /\ Undoing(d)' = Undoing(d) /\ (Enough(d)' <=> Enough(d)) /\ (Collects(d)' <=> Collects(d))
         /\ \A x \in Workers, s \in Shards :
              /\ WorksOn(x, d, s)' <=> WorksOn(x, d, s)
              /\ WorksOn(x, d, s) => todo'[x] = todo[x]
<1>1. \A x \in Workers : (undo[x] /\ Serves(x, d))' <=> (undo[x] /\ Serves(x, d))
  BY AsideUndo DEF Untouched
<1>2. Undoing(d)' = Undoing(d)
  BY <1>1 DEF Undoing
<1>3. \A x \in Workers, s \in Shards :
        (WorksOn(x, d, s)' <=> WorksOn(x, d, s)) /\ (WorksOn(x, d, s) => todo'[x] = todo[x])
  <2> TAKE x \in Workers, s \in Shards
  <2>1. Aside(x, d)
    BY DEF Untouched
  <2> QED
    BY <2>1, AsideWorks
<1> QED
  BY <1>2, <1>3 DEF Untouched, SameData, Enough, Collects

LEMMA UntouchedSafe ==
  ASSUME BulkInv, BulkTypeOK', NEW d \in Clients, Untouched(d)
  PROVE  CommandSafe(d)'
<1>1. BulkTypeOK /\ CommandSafe(d)
  BY DEF BulkInv
<1>2. /\ Undoing(d)' = Undoing(d) /\ (Enough(d)' <=> Enough(d)) /\ (Collects(d)' <=> Collects(d))
      /\ \A x \in Workers, s \in Shards :
           /\ WorksOn(x, d, s)' <=> WorksOn(x, d, s)
           /\ WorksOn(x, d, s) => todo'[x] = todo[x]
  BY <1>1, UntouchedSame
<1>3. /\ cmd'[d].op = cmd[d].op /\ cmd'[d].limit = cmd[d].limit
      /\ cmd'[d].done = cmd[d].done /\ cmd'[d].chosen = cmd[d].chosen
      /\ matches'[d] = matches[d]
      /\ (Gathers(d)' <=> Gathers(d)) /\ (cmd'[d].at = "idle" <=> cmd[d].at = "idle")
      /\ seen'[d].steady \subseteq seen[d].steady /\ seen[d].ever \subseteq seen'[d].ever
      /\ cmd[d].at # "idle" => present' \subseteq seen'[d].ever
      /\ Gathers(d) => \A k \in seen'[d].steady : k \in present => k \in present'
  BY DEF Untouched, SameData
<1>4. cmd[d] \in Command /\ cmd'[d] \in Command /\ cmd[d].chosen \in SUBSET Keys /\ seen[d].steady \in SUBSET Keys
  BY <1>1, CommandHas DEF BulkTypeOK
<1>5. \A k \in Keys : ShardOf[k] \in Shards
  BY BulkAssumption
<1>6. CountSafe(d)'
  BY <1>1, <1>2, <1>3 DEF CommandSafe, CountSafe
<1>7. ChosenSafe(d)'
  BY <1>1, <1>2, <1>3, <1>4, <1>5 DEF CommandSafe, ChosenSafe, WorksOn
<1>8. SeenSafe(d)'
  BY <1>1, <1>3 DEF CommandSafe, SeenSafe
<1>9. CollectSafe(d)'
  BY <1>1, <1>2, <1>3 DEF CommandSafe, CollectSafe
<1>10. GatherSafe(d)'
  BY <1>1, <1>2, <1>3, <1>4, <1>5 DEF CommandSafe, GatherSafe, WorksOn
<1>11. CountHolds(d)'
  <2>1. cmd'[d].at \in {"apply", "reply"} <=> cmd[d].at \in {"apply", "reply"}
    BY <1>3, <1>4, CommandHas DEF Gathers
  <2> QED
    BY <1>1, <1>2, <1>3, <2>1 DEF CommandSafe, CountHolds
<1> QED
  BY <1>6, <1>7, <1>8, <1>9, <1>10, <1>11 DEF CommandSafe

(* A worker goes on with its getBy. *)
LEMMA VisitKept ==
  ASSUME BulkInv, NEW x \in Workers, Unmoved(x),
         Begun(x) => LET c == Client(x) IN
             /\ cmd'[c].op = cmd[c].op /\ todo[x] \cap cmd'[c].chosen = {}
             /\ seen[c].ever \subseteq seen'[c].ever
  PROVE  VisitSafe(x)'
<1>1. VisitSafe(x) /\ (Begun(x)' <=> Begun(x))
  BY DEF BulkInv, Unmoved, Begun
<1>2. CASE Begun(x)
  BY <1>1, <1>2 DEF VisitSafe, Unmoved, Client
<1>3. CASE ~Begun(x)
  BY <1>1, <1>3 DEF VisitSafe
<1> QED
  BY <1>2, <1>3

(* Steps that touch no command: of the pool, of other sessions, between commands. *)
LEMMA AllUntouched ==
  ASSUME BulkInv, BulkTypeOK', \A d \in Clients : Untouched(d), \A x \in Workers : Unmoved(x)
  PROVE  (\A d \in Clients : CommandSafe(d)') /\ (\A x \in Workers : VisitSafe(x)')
<1>1. \A d \in Clients : CommandSafe(d)'
  BY UntouchedSafe
<1>2. ASSUME NEW x \in Workers PROVE VisitSafe(x)'
  <2>1. ASSUME Begun(x)
        PROVE  LET c == Client(x) IN
             /\ cmd'[c].op = cmd[c].op /\ todo[x] \cap cmd'[c].chosen = {}
             /\ seen[c].ever \subseteq seen'[c].ever
    <3>1. VisitSafe(x) /\ Client(x) \in Clients
      BY <2>1 DEF BulkInv, BulkTypeOK, VisitSafe, Tasks, Client
    <3>2. Untouched(Client(x))
      BY <3>1
    <3> QED
      BY <2>1, <3>1, <3>2 DEF VisitSafe, Untouched, SameData
  <2> QED
    BY <2>1, VisitKept
<1> QED
  BY <1>1, <1>2

(* A step that leaves the keys, the counts and the histories alone. *)
LEMMA QuietUntouched ==
  ASSUME BulkInv, NEW d \in Clients, SameData(d), present' = present,
         matches'[d] = matches[d], seen'[d] = seen[d],
         Gathers(d)' <=> Gathers(d), cmd'[d].at = "idle" <=> cmd[d].at = "idle",
         \A x \in Workers : Aside(x, d)
  PROVE  Untouched(d)
<1>1. cmd[d].at # "idle" => present \subseteq seen[d].ever
  BY DEF BulkInv, CommandSafe, SeenSafe
<1> QED
  BY <1>1 DEF Untouched

(* A step that changes the keys as Becomes says, by another than d. *)
LEMMA BecomesUntouched ==
  ASSUME BulkInv, NEW d \in Clients, SameData(d), UNCHANGED matches,
         NEW P \in SUBSET Keys, NEW by, Becomes(P, by), d = by => ~Gathers(d),
         Gathers(d)' <=> Gathers(d), cmd'[d].at = "idle" <=> cmd[d].at = "idle",
         \A x \in Workers : Aside(x, d)
  PROVE  Untouched(d)
<1>1. /\ present' = P
      /\ seen'[d].steady \subseteq seen[d].steady /\ seen[d].ever \subseteq seen'[d].ever
      /\ cmd[d].at # "idle" => P \subseteq seen'[d].ever
      /\ cmd[d].at # "idle" /\ d # by => seen'[d].steady \subseteq P
  BY BecomesDoes
<1> QED
  BY <1>1 DEF Untouched, Gathers

LEMMA EnqueueSafe == ASSUME BulkInv, NEW c \in Clients, Enqueue(c) PROVE BulkInv'
<1>1. Only(c, "notify", cmd[c].next) /\ SameData(c)
  BY EnqueueDoes
<1>2. /\ cmd[c].at = "push" /\ UNCHANGED <<present, matches, todo, undo, seen, worker, job, stopFlag, joining>>
      /\ tasks' = Append(tasks, [client |-> c, shard |-> cmd[c].next]) /\ cmd[c].next \in Shards
  BY DEF Enqueue, Push, BulkInv, PoolInv, StageSafe
<1>3. BulkTypeOK'
  <2>1. tasks' \in Seq(Tasks)
    BY <1>2 DEF BulkInv, BulkTypeOK, Tasks
  <2> QED
    BY <1>1, <1>2, <2>1 DEF BulkInv, BulkTypeOK, Only
<1>4. \A x \in Workers : Unmoved(x)
  BY <1>2 DEF Unmoved
<1>5. ASSUME NEW d \in Clients PROVE Untouched(d)
  <2>1. SameData(d) /\ (Gathers(d)' <=> Gathers(d)) /\ (cmd'[d].at = "idle" <=> cmd[d].at = "idle")
    BY <1>1, <1>2 DEF SameData, Gathers, Only
  <2> QED
    BY <1>2, <1>4, <2>1, QuietUntouched DEF Aside
<1>6. (\A d \in Clients : CommandSafe(d)') /\ (\A x \in Workers : VisitSafe(x)')
  BY <1>3, <1>4, <1>5, AllUntouched
<1>7. QueueSafe' /\ NoneLost' /\ SleepSafe' /\ \A d \in Clients : StageSafe(d)'
  BY EnqueuePool, EnqueueStage
<1> QED
  BY <1>3, <1>6, <1>7 DEF BulkInv, PoolInv

LEMMA NotifySafe == ASSUME BulkInv, NEW c \in Clients, Notify(c) PROVE BulkInv'
<1>1. /\ Only(c, IF cmd[c].next < NumShards THEN "push" ELSE "wait", cmd[c].next + 1)
      /\ SameData(c)
  BY NotifyDoes
<1>2. /\ cmd[c].at = "notify" /\ NotifyOne
      /\ UNCHANGED <<present, matches, todo, undo, seen, job>>
  BY DEF Notify, NotifyOne
<1>3. BulkTypeOK'
  BY <1>1, <1>2, PoolType, PoolAssumption DEF BulkInv, BulkTypeOK, Only
<1>4. \A x \in Workers : Unmoved(x)
  BY <1>2 DEF Unmoved
<1>5. ASSUME NEW d \in Clients PROVE Untouched(d)
  <2>1. SameData(d) /\ (Gathers(d)' <=> Gathers(d)) /\ (cmd'[d].at = "idle" <=> cmd[d].at = "idle")
    BY <1>1, <1>2 DEF SameData, Gathers, Only
  <2> QED
    BY <1>2, <1>4, <2>1, QuietUntouched DEF Aside
<1>6. (\A d \in Clients : CommandSafe(d)') /\ (\A x \in Workers : VisitSafe(x)')
  BY <1>3, <1>4, <1>5, AllUntouched
<1>7. QueueSafe' /\ NoneLost' /\ SleepSafe' /\ \A d \in Clients : StageSafe(d)'
  BY NotifyPool, NotifyStage
<1> QED
  BY <1>3, <1>6, <1>7 DEF BulkInv, PoolInv

LEMMA AppliedSafe == ASSUME BulkInv, NEW c \in Clients, Applied(c) PROVE BulkInv'
<1>1. Only(c, "reply", cmd[c].next) /\ SameData(c)
  BY AppliedDoes
<1>2. /\ cmd[c].at = "apply" /\ UNCHANGED poolVars /\ UNCHANGED <<present, matches, todo, undo, seen, job>>
  BY DEF Applied, poolVars
<1>3. BulkTypeOK'
  BY <1>1, <1>2 DEF BulkInv, BulkTypeOK, Only, poolVars
<1>4. \A x \in Workers : Unmoved(x)
  BY <1>2 DEF Unmoved
<1>5. ASSUME NEW d \in Clients PROVE Untouched(d)
  <2>1. SameData(d) /\ (Gathers(d)' <=> Gathers(d)) /\ (cmd'[d].at = "idle" <=> cmd[d].at = "idle")
    BY <1>1, <1>2 DEF SameData, Gathers, Only
  <2> QED
    BY <1>2, <1>4, <2>1, QuietUntouched DEF Aside
<1>6. (\A d \in Clients : CommandSafe(d)') /\ (\A x \in Workers : VisitSafe(x)')
  BY <1>3, <1>4, <1>5, AllUntouched
<1>7. QueueSafe' /\ NoneLost' /\ SleepSafe' /\ \A d \in Clients : StageSafe(d)'
  BY AppliedPool, AppliedStage
<1> QED
  BY <1>3, <1>6, <1>7 DEF BulkInv, PoolInv

LEMMA ApplyOneSafe == ASSUME BulkInv, NEW c \in Clients, ApplyOne(c) PROVE BulkInv'
<1>1. Only(c, "apply", cmd[c].next) /\ SameData(c)
  BY ApplyOneDoes
<1>2. /\ cmd[c].at = "apply" /\ UNCHANGED poolVars /\ UNCHANGED <<matches, todo, undo, job>>
  BY DEF ApplyOne, poolVars
<1>3. PICK P \in SUBSET Keys : Becomes(P, c)
  BY ApplyOneDoes
<1>4. BulkTypeOK'
  <2>1. present' \in SUBSET Keys /\ seen' \in [Clients -> [steady : SUBSET Keys, ever : SUBSET Keys]]
    BY <1>3, BecomesDoes
  <2> QED
    BY <1>1, <1>2, <2>1 DEF BulkInv, BulkTypeOK, Only, poolVars
<1>5. \A x \in Workers : Unmoved(x)
  BY <1>2 DEF Unmoved
<1>6. ASSUME NEW d \in Clients PROVE Untouched(d)
  <2>1. SameData(d) /\ (Gathers(d)' <=> Gathers(d)) /\ (cmd'[d].at = "idle" <=> cmd[d].at = "idle")
    BY <1>1, <1>2 DEF SameData, Gathers, Only
  <2>2. d = c => ~Gathers(d)
    BY <1>2 DEF Gathers
  <2> QED
    BY <1>2, <1>3, <1>5, <2>1, <2>2, BecomesUntouched DEF Aside
<1>7. (\A d \in Clients : CommandSafe(d)') /\ (\A x \in Workers : VisitSafe(x)')
  BY <1>4, <1>5, <1>6, AllUntouched
<1>8. QueueSafe' /\ NoneLost' /\ SleepSafe' /\ \A d \in Clients : StageSafe(d)'
  BY AppliedPool, ApplyOneStage
<1> QED
  BY <1>4, <1>7, <1>8 DEF BulkInv, PoolInv

LEMMA OtherWriteSafe == ASSUME BulkInv, NEW k \in Keys, OtherWrite(k) PROVE BulkInv'
<1>1. UNCHANGED poolVars /\ UNCHANGED <<cmd, matches, todo, undo, job>>
  BY DEF OtherWrite, poolVars
<1>2. PICK P \in SUBSET Keys : Becomes(P, NoTask)
  <2>1. present \cup {k} \in SUBSET Keys /\ present \ {k} \in SUBSET Keys
    BY DEF BulkInv, BulkTypeOK
  <2> QED
    BY <2>1 DEF OtherWrite
<1>3. BulkTypeOK'
  <2>1. present' \in SUBSET Keys /\ seen' \in [Clients -> [steady : SUBSET Keys, ever : SUBSET Keys]]
    BY <1>2, BecomesDoes
  <2> QED
    BY <1>1, <2>1 DEF BulkInv, BulkTypeOK, poolVars
<1>4. \A x \in Workers : Unmoved(x)
  BY <1>1 DEF Unmoved
<1>5. ASSUME NEW d \in Clients PROVE Untouched(d)
  <2>1. SameData(d) /\ (Gathers(d)' <=> Gathers(d)) /\ (cmd'[d].at = "idle" <=> cmd[d].at = "idle")
    BY <1>1 DEF SameData, Gathers
  <2>2. d # NoTask
    BY BulkAssumption
  <2> QED
    BY <1>1, <1>2, <1>4, <2>1, <2>2, BecomesUntouched DEF Aside
<1>6. (\A d \in Clients : CommandSafe(d)') /\ (\A x \in Workers : VisitSafe(x)')
  BY <1>3, <1>4, <1>5, AllUntouched
<1>7. QueueSafe' /\ NoneLost' /\ SleepSafe'
  <2>1. SamePending
    BY <1>1, PendingSame DEF SamePending, SameStage
  <2>2. stopFlag => \A c \in Clients : cmd'[c].at = "idle"
    BY <1>1 DEF BulkInv, PoolInv, SleepSafe
  <2> QED
    BY <1>1, <2>1, <2>2, PoolStill
<1>8. ASSUME NEW d \in Clients PROVE StageSafe(d)'
  <2>1. StageSafe(d) /\ (cmd[d].at = "idle" => seen'[d] = seen[d])
    BY <1>2, BecomesDoes DEF BulkInv, PoolInv
  <2> QED
    BY <1>1, <2>1, StageKept
<1> QED
  BY <1>3, <1>6, <1>7, <1>8 DEF BulkInv, PoolInv

(* The pool's own steps. *)
LEMMA PoolStepSafe ==
  ASSUME BulkInv, UNCHANGED bulkVars,
         \/ \E w \in Workers : TakeTask(w) \/ WakeSpuriously(w)
         \/ StopPool /\ \A c \in Clients : cmd[c].at = "idle"
         \/ NotifyAll
  PROVE  BulkInv'
<1>1. UNCHANGED <<present, cmd, matches, todo, undo, seen>>
  BY DEF bulkVars
<1>2. BulkTypeOK'
  <2>1. /\ tasks' \in Seq(Tasks) /\ job' \in [Workers -> Tasks \cup {NoTask}]
        /\ worker' \in [Workers -> {"ready", "waiting", "busy", "exited"}]
        /\ stopFlag' \in BOOLEAN /\ joining' \in BOOLEAN
    BY PoolType, PoolAssumption
  <2> QED
    BY <1>1, <2>1 DEF BulkInv, BulkTypeOK
<1>3. ASSUME NEW x \in Workers PROVE Unmoved(x)
  <2>1. Begun(x) => worker[x] = "busy"
    BY DEF BulkInv, PoolInv, QueueSafe, VisitSafe
  <2>2. worker[x] = "busy" => job'[x] = job[x]
    BY DEF TakeTask, WakeSpuriously, StopPool, NotifyAll, BulkInv, BulkTypeOK
  <2> QED
    BY <1>1, <2>1, <2>2 DEF Unmoved
<1>4. ASSUME NEW d \in Clients PROVE Untouched(d)
  <2>1. SameData(d) /\ (Gathers(d)' <=> Gathers(d)) /\ (cmd'[d].at = "idle" <=> cmd[d].at = "idle")
    BY <1>1 DEF SameData, Gathers
  <2> QED
    BY <1>1, <1>3, <2>1, QuietUntouched DEF Aside
<1>5. (\A d \in Clients : CommandSafe(d)') /\ (\A x \in Workers : VisitSafe(x)')
  BY <1>2, <1>3, <1>4, AllUntouched
<1>6. QueueSafe' /\ NoneLost' /\ SleepSafe'
  BY TakeTaskPool, WakePool, NotifyAllPool, StopPoolSafe DEF Stop
<1>7. ASSUME NEW d \in Clients PROVE StageSafe(d)'
  BY <1>1, StageKept DEF BulkInv, PoolInv
<1> QED
  BY <1>2, <1>5, <1>6, <1>7 DEF BulkInv, PoolInv

-----------------------------------------------------------------------------
(* Beginning and end of a command *)

(* A task is at work only for a command that waits for it. *)
LEMMA ServesGathers ==
  ASSUME BulkInv, NEW x \in Workers, NEW c \in Clients, Serves(x, c)
  PROVE  Gathers(c) /\ job[x].shard \in Shards \ cmd[c].done
<1>1. job[x] \in Tasks /\ Pending(job[x]) /\ job[x].client = c
  BY DEF Serves, Client, BulkInv, BulkTypeOK, PoolInv, QueueSafe
<1> QED
  BY <1>1, TaskHas DEF Pending

LEMMA SetsFinite ==
  ASSUME BulkTypeOK, NEW c \in Clients
  PROVE  /\ IsFiniteSet(cmd[c].chosen) /\ Cardinality(cmd[c].chosen) \in Nat
         /\ IsFiniteSet(Undoing(c)) /\ Cardinality(Undoing(c)) \in Nat
         /\ Cardinality(Undoing(c)) = 0 <=> Undoing(c) = {}
<1>1. cmd[c].chosen \in SUBSET Keys /\ Undoing(c) \in SUBSET Workers
  BY CommandHas DEF BulkTypeOK, Undoing
<1>2. IsFiniteSet(cmd[c].chosen) /\ IsFiniteSet(Undoing(c))
  BY <1>1, BulkAssumption, PoolAssumption, FS_Subset
<1> QED
  BY <1>2, FS_CardinalityType, FS_EmptySet

LEMMA GiveSafe ==
  ASSUME BulkInv, NEW c \in Clients, NEW op \in {"getby", "setby", "delby"},
         NEW lim \in Nat \cup {NoLimit}, Give(c, op, lim)
  PROVE  BulkInv'
<1>1. /\ Only(c, "push", 1) /\ cmd'[c].done = {} /\ cmd'[c].chosen = {}
      /\ cmd'[c].op = op /\ cmd'[c].limit = lim
  BY GiveDoes
<1>2. /\ cmd[c].at = "idle" /\ UNCHANGED poolVars /\ UNCHANGED <<present, matches, todo, undo, job>>
      /\ seen' = [seen EXCEPT ![c] = [steady |-> present, ever |-> present]]
  BY DEF Give, poolVars, Watch
<1>3. BulkTypeOK'
  BY <1>1, <1>2 DEF BulkInv, BulkTypeOK, Only, poolVars
<1>4. \A x \in Workers : Unmoved(x)
  BY <1>2 DEF Unmoved
<1>5. seen'[c] = [steady |-> present, ever |-> present] /\ \A d \in Clients \ {c} : seen'[d] = seen[d]
  BY <1>2 DEF BulkInv, BulkTypeOK
<1>6. ASSUME NEW d \in Clients, d # c PROVE Untouched(d)
  <2>1. SameData(d) /\ (Gathers(d)' <=> Gathers(d)) /\ (cmd'[d].at = "idle" <=> cmd[d].at = "idle")
    BY <1>1, <1>6 DEF SameData, Gathers, Only
  <2> QED
    BY <1>2, <1>4, <1>5, <1>6, <2>1, QuietUntouched DEF Aside
<1>7. \A x \in Workers : ~Serves(x, c) /\ ~Serves(x, c)'
  <2>1. \A x \in Workers : ~Serves(x, c)
    BY <1>2, ServesGathers DEF Gathers
  <2> QED
    BY <1>2, <2>1 DEF Serves, Client
<1>8. CommandSafe(c)'
  <2>1. Undoing(c) = {} /\ Undoing(c)' = {}
    BY <1>7 DEF Undoing
  <2>2. matches[c] = 0
    <3>1. cmd[c].chosen = {} /\ CountSafe(c)
      BY <1>2, IdleIs DEF BulkInv, PoolInv, StageSafe, CommandSafe
    <3> QED
      BY <1>2, <2>1, <3>1, FS_EmptySet DEF CountSafe
  <2>3. CountSafe(c)'
    BY <1>1, <1>2, <2>1, <2>2, FS_EmptySet DEF CountSafe
  <2>4. SeenSafe(c)'
    BY <1>1, <1>2, <1>5 DEF SeenSafe
  <2>5. GatherSafe(c)'
    <3> SUFFICES ASSUME NEW k \in Keys, NEW x \in Workers
                 PROVE  ~(Begun(x) /\ job[x] = [client |-> c, shard |-> ShardOf[k]])'
      BY <1>1, <1>2, <1>5 DEF GatherSafe, BulkInv, BulkTypeOK
    <3>1. ShardOf[k] \in Shards /\ ~WorksOn(x, c, ShardOf[k])'
      BY <1>7, WorksServesNext, BulkAssumption
    <3> QED
      BY <3>1 DEF WorksOn
  <2> QED
    BY <1>1, <2>3, <2>4, <2>5
    DEF CommandSafe, ChosenSafe, CollectSafe, CountHolds, Only
<1>9. ASSUME NEW x \in Workers PROVE VisitSafe(x)'
  <2>1. ASSUME Begun(x)
        PROVE  LET e == Client(x) IN
             /\ cmd'[e].op = cmd[e].op /\ todo[x] \cap cmd'[e].chosen = {}
             /\ seen[e].ever \subseteq seen'[e].ever
    <3>1. VisitSafe(x) /\ Client(x) \in Clients /\ Serves(x, Client(x))
      BY <2>1 DEF BulkInv, BulkTypeOK, VisitSafe, Tasks, Client, Serves
    <3>2. Client(x) # c
      BY <1>7, <3>1
    <3> QED
      BY <1>1, <1>5, <2>1, <3>1, <3>2 DEF VisitSafe, Only
  <2> QED
    BY <1>4, <2>1, VisitKept
<1>10. \A d \in Clients : CommandSafe(d)'
  BY <1>3, <1>6, <1>8, UntouchedSafe
<1>11. QueueSafe' /\ NoneLost' /\ SleepSafe' /\ \A d \in Clients : StageSafe(d)'
  BY GivePool, GiveStage
<1> QED
  BY <1>3, <1>9, <1>10, <1>11 DEF BulkInv, PoolInv

LEMMA ReplySafe == ASSUME BulkInv, NEW c \in Clients, Reply(c) PROVE BulkInv'
<1>1. Only(c, "idle", 0) /\ cmd'[c] = Idle
  BY ReplyDoes
<1>2. /\ cmd[c].at = "reply" /\ UNCHANGED poolVars /\ UNCHANGED <<present, todo, undo, job>>
      /\ seen' = [seen EXCEPT ![c] = NoWatch] /\ matches' = [matches EXCEPT ![c] = 0]
  BY DEF Reply, poolVars
<1>3. BulkTypeOK'
  BY <1>1, <1>2 DEF BulkInv, BulkTypeOK, Only, poolVars, NoWatch
<1>4. \A x \in Workers : Unmoved(x)
  BY <1>2 DEF Unmoved
<1>5. matches'[c] = 0 /\ \A d \in Clients \ {c} : seen'[d] = seen[d] /\ matches'[d] = matches[d]
  BY <1>2 DEF BulkInv, BulkTypeOK
<1>6. ASSUME NEW d \in Clients, d # c PROVE Untouched(d)
  <2>1. SameData(d) /\ (Gathers(d)' <=> Gathers(d)) /\ (cmd'[d].at = "idle" <=> cmd[d].at = "idle")
    BY <1>1, <1>6 DEF SameData, Gathers, Only
  <2> QED
    BY <1>2, <1>4, <1>5, <1>6, <2>1, QuietUntouched DEF Aside
<1>7. \A x \in Workers : ~Serves(x, c) /\ ~Serves(x, c)'
  <2>1. \A x \in Workers : ~Serves(x, c)
    BY <1>2, ServesGathers DEF Gathers
  <2> QED
    BY <1>2, <2>1 DEF Serves, Client
<1>8. CommandSafe(c)'
  <2>1. Undoing(c)' = {}
    BY <1>7 DEF Undoing
  <2>2. cmd'[c].chosen = {} /\ cmd'[c].at = "idle" /\ cmd'[c].op = "none"
    BY <1>1, IdleIs
  <2>3. CountSafe(c)'
    BY <1>5, <2>1, <2>2, FS_EmptySet DEF CountSafe
  <2> QED
    BY <2>2, <2>3
    DEF CommandSafe, ChosenSafe, CollectSafe, SeenSafe, GatherSafe, Gathers, CountHolds
<1>9. ASSUME NEW x \in Workers PROVE VisitSafe(x)'
  <2>1. ASSUME Begun(x)
        PROVE  LET e == Client(x) IN
             /\ cmd'[e].op = cmd[e].op /\ todo[x] \cap cmd'[e].chosen = {}
             /\ seen[e].ever \subseteq seen'[e].ever
    <3>1. VisitSafe(x) /\ Client(x) \in Clients /\ Serves(x, Client(x))
      BY <2>1 DEF BulkInv, BulkTypeOK, VisitSafe, Tasks, Client, Serves
    <3>2. Client(x) # c
      BY <1>7, <3>1
    <3> QED
      BY <1>1, <1>5, <2>1, <3>1, <3>2 DEF VisitSafe, Only
  <2> QED
    BY <1>4, <2>1, VisitKept
<1>10. \A d \in Clients : CommandSafe(d)'
  BY <1>3, <1>6, <1>8, UntouchedSafe
<1>11. QueueSafe' /\ NoneLost' /\ SleepSafe' /\ \A d \in Clients : StageSafe(d)'
  BY AppliedPool, ReplyStage
<1> QED
  BY <1>3, <1>9, <1>10, <1>11 DEF BulkInv, PoolInv

(***************************************************************************)
(* What firstMatchingKeys keeps of the shards' smallest keys: a key that   *)
(* its own shard passes over is larger than limit keys of that shard, so   *)
(* all the keys kept are smaller.                                          *)
(***************************************************************************)
LEMMA CollectedLimit ==
  ASSUME BulkInv, NEW c \in Clients, cmd[c].at = "wait", cmd[c].done = Shards, Collects(c),
         NEW K, K = Smallest(cmd[c].chosen, cmd[c].limit)
  PROVE  /\ K \subseteq cmd[c].chosen /\ Cardinality(K) <= cmd[c].limit
         /\ Cardinality(K) < cmd[c].limit => seen[c].steady \subseteq K
         /\ \A k \in K, q \in seen[c].steady \ K : k < q
<1>1. PICK C \in SUBSET Keys, lim \in Nat, T \in SUBSET Keys :
        C = cmd[c].chosen /\ lim = cmd[c].limit /\ T = seen[c].steady
  BY CommandHas DEF BulkInv, BulkTypeOK, Collects
<1>2. /\ K \in SUBSET C /\ IsFiniteSet(C) /\ IsFiniteSet(K) /\ Cardinality(K) \in Nat
      /\ Cardinality(K) <= lim /\ (Cardinality(K) < lim => K = C)
      /\ \A k \in K, q \in C \ K : k < q
  <2>1. K = Smallest(C, lim)
    BY <1>1
  <2> QED
    BY <2>1, SmallestIs
<1>3. \A s \in Shards :
        /\ Cardinality(C \cap KeysOf(s)) <= lim
        /\ Cardinality(C \cap KeysOf(s)) < lim => T \cap KeysOf(s) \subseteq C \cap KeysOf(s)
        /\ \A k \in C \cap KeysOf(s), q \in (T \cap KeysOf(s)) \ (C \cap KeysOf(s)) : k < q
  <2>1. CollectSafe(c) /\ Gathers(c)
    BY DEF BulkInv, CommandSafe, Gathers
  <2> QED
    BY <1>1, <2>1 DEF CollectSafe
<1>4. \A q \in T : ShardOf[q] \in Shards /\ q \in KeysOf(ShardOf[q])
  BY <1>1, BulkAssumption DEF KeysOf
<1>5. \A s \in Shards : /\ IsFiniteSet(C \cap KeysOf(s)) /\ Cardinality(C \cap KeysOf(s)) \in Nat
                        /\ Cardinality(C \cap KeysOf(s)) <= Cardinality(C)
  BY <1>2, FS_Subset, FS_CardinalityType
<1>6. ASSUME Cardinality(K) < lim PROVE T \subseteq K
  <2>1. SUFFICES ASSUME NEW q \in T PROVE q \in C
    BY <1>2, <1>6
  <2>2. Cardinality(C \cap KeysOf(ShardOf[q])) < lim
    BY <1>2, <1>4, <1>5, <1>6
  <2> QED
    BY <1>3, <1>4, <2>2
<1>7. ASSUME NEW k \in K, NEW q \in T \ K PROVE k < q
  <2>1. CASE q \in C
    BY <1>2, <2>1
  <2>2. CASE q \notin C
    <3>1. PICK s \in Shards : s = ShardOf[q] /\ q \in KeysOf(s)
      BY <1>4
    <3> DEFINE D == C \cap KeysOf(s)
    <3>2. /\ IsFiniteSet(D) /\ Cardinality(D) = lim /\ \A x \in D : x < q
      BY <1>3, <1>5, <2>2, <3>1
    <3>3. k \in Nat /\ q \in Nat /\ D \subseteq Nat
      BY <1>1, <1>2, BulkAssumption
    <3>4. ASSUME ~(k < q) PROVE FALSE
      <4>1. k \notin D
        BY <3>2, <3>4
      <4>2. D \subseteq K
        <5> SUFFICES ASSUME NEW x \in D, x \notin K PROVE FALSE
          OBVIOUS
        <5>1. k < x /\ x < q
          BY <1>2, <3>2
        <5> QED
          BY <3>3, <3>4, <5>1
      <4>3. Cardinality(D \cup {k}) = lim + 1
        BY <3>2, <4>1, FS_AddElement
      <4>4. Cardinality(D \cup {k}) <= Cardinality(K)
        BY <1>2, <4>2, FS_Subset
      <4> QED
        BY <1>2, <4>3, <4>4
    <3> QED
      BY <3>4
  <2> QED
    BY <2>1, <2>2
<1> QED
  BY <1>1, <1>2, <1>6, <1>7

LEMMA CollectedSafe == ASSUME BulkInv, NEW c \in Clients, Collected(c) PROVE BulkInv'
<1>1. /\ Only(c, IF Collects(c) THEN "apply" ELSE "reply", cmd[c].next)
      /\ cmd'[c].op = cmd[c].op /\ cmd'[c].limit = cmd[c].limit
      /\ cmd'[c].chosen = IF Collects(c) THEN Smallest(cmd[c].chosen, cmd[c].limit)
                          ELSE cmd[c].chosen
  BY CollectedDoes
<1>2. /\ cmd[c].at = "wait" /\ cmd[c].done = Shards /\ UNCHANGED poolVars
      /\ UNCHANGED <<present, matches, todo, undo, seen, job>>
  BY DEF Collected, poolVars
<1>3. BulkTypeOK'
  BY <1>1, <1>2 DEF BulkInv, BulkTypeOK, Only, poolVars
<1>4. \A x \in Workers : Unmoved(x)
  BY <1>2 DEF Unmoved
<1>5. ASSUME NEW d \in Clients, d # c PROVE Untouched(d)
  <2>1. SameData(d) /\ (Gathers(d)' <=> Gathers(d)) /\ (cmd'[d].at = "idle" <=> cmd[d].at = "idle")
    BY <1>1, <1>5 DEF SameData, Gathers, Only
  <2> QED
    BY <1>2, <1>4, <2>1, QuietUntouched DEF Aside
<1>6. \A x \in Workers : ~Serves(x, c) /\ ~Serves(x, c)'
  <2>1. \A x \in Workers : ~Serves(x, c)
    BY <1>2, ServesGathers
  <2> QED
    BY <1>2, <2>1 DEF Serves, Client
<1>7. CommandSafe(c)'
  <2>1. Undoing(c) = {} /\ Undoing(c)' = {} /\ (Collects(c)' <=> Collects(c))
    BY <1>1, <1>6 DEF Undoing, Collects
  <2>2. cmd'[c].at \in {"apply", "reply"} /\ ~Gathers(c)'
    BY <1>1 DEF Only, Gathers
  <2>3. CommandSafe(c) /\ Gathers(c)
    BY <1>2 DEF BulkInv, Gathers
  <2>4. cmd[c].chosen \subseteq seen[c].ever /\ present \subseteq seen[c].ever
    BY <1>2, <2>3 DEF CommandSafe, SeenSafe
  <2>5. CASE Collects(c)
    <3>1. PICK K : K = Smallest(cmd[c].chosen, cmd[c].limit)
      OBVIOUS
    <3>2. /\ K \subseteq cmd[c].chosen /\ Cardinality(K) <= cmd[c].limit
          /\ Cardinality(K) < cmd[c].limit => seen[c].steady \subseteq K
          /\ \A k \in K, q \in seen[c].steady \ K : k < q
      BY <1>2, <2>5, <3>1, CollectedLimit
    <3>3. cmd'[c].chosen = K
      BY <1>1, <2>5, <3>1
    <3>4. CountSafe(c)'
      BY <1>1, <2>1, <2>2, <2>5 DEF CountSafe, Collects
    <3>5. SeenSafe(c)'
      BY <1>2, <2>2, <2>4, <3>2, <3>3 DEF SeenSafe
    <3>6. CountHolds(c)'
      BY <1>1, <1>2, <2>4, <2>5, <3>2, <3>3 DEF CountHolds, Collects
    <3> QED
      BY <2>2, <3>4, <3>5, <3>6 DEF CommandSafe, ChosenSafe, CollectSafe, GatherSafe
  <2>6. CASE ~Collects(c)
    <3>1. cmd'[c].chosen = cmd[c].chosen
      BY <1>1, <2>6
    <3>2. CountSafe(c)'
      BY <1>1, <1>2, <2>1, <2>2, <2>3, <3>1 DEF CommandSafe, CountSafe
    <3>3. SeenSafe(c)'
      BY <1>2, <2>2, <2>4, <3>1 DEF SeenSafe
    <3>4. cmd[c].limit # NoLimit => Cardinality(cmd[c].chosen) <= cmd[c].limit
      BY <2>3, <2>6 DEF CommandSafe, CountSafe, Collects
    <3>5. ASSUME cmd[c].limit = NoLimit \/ Cardinality(cmd[c].chosen) < cmd[c].limit
          PROVE  seen[c].steady \subseteq cmd[c].chosen
      <4>1. ~Enough(c)
        <5>1. Cardinality(cmd[c].chosen) \in Nat /\ cmd[c].limit \in Nat \cup {NoLimit}
          BY SetsFinite, CommandHas DEF BulkInv, BulkTypeOK
        <5> QED
          BY <3>5, <5>1 DEF Enough
      <4>2. \A k \in seen[c].steady \ cmd[c].chosen : ShardOf[k] \notin Shards
        BY <1>2, <2>3, <2>6, <4>1 DEF CommandSafe, GatherSafe
      <4>3. \A k \in seen[c].steady : ShardOf[k] \in Shards
        BY BulkAssumption DEF BulkInv, BulkTypeOK
      <4> QED
        BY <4>2, <4>3
    <3>6. CountHolds(c)'
      BY <1>1, <1>2, <2>1, <2>4, <2>6, <3>1, <3>4, <3>5 DEF CountHolds
    <3> QED
      BY <2>2, <3>2, <3>3, <3>6 DEF CommandSafe, ChosenSafe, CollectSafe, GatherSafe
  <2> QED
    BY <2>5, <2>6
<1>8. ASSUME NEW x \in Workers PROVE VisitSafe(x)'
  <2>1. ASSUME Begun(x)
        PROVE  LET e == Client(x) IN
             /\ cmd'[e].op = cmd[e].op /\ todo[x] \cap cmd'[e].chosen = {}
             /\ seen[e].ever \subseteq seen'[e].ever
    <3>1. VisitSafe(x) /\ Client(x) \in Clients /\ Serves(x, Client(x))
      BY <2>1 DEF BulkInv, BulkTypeOK, VisitSafe, Tasks, Client, Serves
    <3>2. Client(x) # c
      BY <1>6, <3>1
    <3> QED
      BY <1>1, <1>2, <2>1, <3>1, <3>2 DEF VisitSafe, Only
  <2> QED
    BY <1>4, <2>1, VisitKept
<1>9. \A d \in Clients : CommandSafe(d)'
  BY <1>3, <1>5, <1>7, UntouchedSafe
<1>10. QueueSafe' /\ NoneLost' /\ SleepSafe' /\ \A d \in Clients : StageSafe(d)'
  BY CollectedPool, CollectedStage
<1> QED
  BY <1>3, <1>8, <1>9, <1>10 DEF BulkInv, PoolInv

-----------------------------------------------------------------------------
(* The tasks *)

(* w has the task of the command of c for the shard s. *)
HasTask(w, c, s) ==
    /\ job[w] = [client |-> c, shard |-> s] /\ Client(w) = c /\ job[w].shard = s
    /\ worker[w] = "busy" /\ Serves(w, c) /\ Gathers(c) /\ s \notin cmd[c].done

LEMMA AtWork ==
  ASSUME BulkInv, NEW w \in Workers, worker[w] = "busy" \/ Begun(w)
  PROVE  \E c \in Clients, s \in Shards : HasTask(w, c, s)
<1>1. job[w] # NoTask /\ job[w] \in Tasks /\ worker[w] = "busy"
  BY DEF BulkInv, BulkTypeOK, PoolInv, QueueSafe, VisitSafe
<1>2. PICK c \in Clients, s \in Shards : c = job[w].client /\ s = job[w].shard
  BY <1>1, TaskHas
<1>3. job[w] = [client |-> c, shard |-> s]
  BY <1>1, <1>2, TaskIs
<1>4. Serves(w, c)
  BY <1>1, <1>2 DEF Serves, Client
<1>5. Gathers(c) /\ s \notin cmd[c].done
  BY <1>2, <1>4, ServesGathers
<1> QED
  BY <1>1, <1>2, <1>3, <1>4, <1>5 DEF HasTask, Client

(* Nobody else has it. *)
LEMMA NoDouble ==
  ASSUME BulkInv, NEW w \in Workers, NEW c \in Clients, NEW s \in Shards, HasTask(w, c, s),
         NEW x \in Workers, x # w
  PROVE  job[x] # [client |-> c, shard |-> s]
BY DEF HasTask, Serves, BulkInv, PoolInv, QueueSafe

(* A task that has not begun has chosen nothing yet. *)
LEMMA ShardFresh ==
  ASSUME BulkInv, NEW w \in Workers, NEW c \in Clients, NEW s \in Shards, HasTask(w, c, s), ~Begun(w)
  PROVE  cmd[c].chosen \cap KeysOf(s) = {}
<1> SUFFICES ASSUME NEW k \in cmd[c].chosen, k \in KeysOf(s) PROVE FALSE
  OBVIOUS
<1>1. ShardOf[k] = s
  BY DEF KeysOf
<1>2. \E x \in Workers : Begun(x) /\ job[x] = [client |-> c, shard |-> s]
  BY <1>1 DEF HasTask, BulkInv, CommandSafe, ChosenSafe
<1> QED
  BY <1>2, NoDouble

(* Only a getBy is done in several steps. *)
LEMMA NobodyBegun ==
  ASSUME BulkInv, NEW c \in Clients, cmd[c].op # "getby", NEW x \in Workers, Serves(x, c)
  PROVE  ~Begun(x) /\ ~undo[x]
BY DEF BulkInv, VisitSafe, Serves, Begun

LEMMA ResolveEnds ==
  ASSUME BulkInv, NEW w \in Workers, NEW c \in Clients, NEW s \in Shards, HasTask(w, c, s),
         NEW K \in SUBSET Keys, Resolve(w, K)
  PROVE  /\ Only(c, cmd[c].at, cmd[c].next)
         /\ cmd'[c].op = cmd[c].op /\ cmd'[c].limit = cmd[c].limit
         /\ cmd'[c].done = cmd[c].done \cup {s} /\ cmd'[c].chosen = cmd[c].chosen \cup K
         /\ Gathers(c)' /\ (Collects(c)' <=> Collects(c)) /\ cmd'[c].at \notin {"idle", "apply", "reply"}
         /\ job'[w] = NoTask /\ ~Serves(w, c)' /\ \A x \in Workers \ {w} : job'[x] = job[x]
<1>1. c = Client(w) /\ s = job[w].shard /\ worker[w] = "busy" /\ Gathers(c)
  BY DEF HasTask
<1>2. /\ Only(c, cmd[c].at, cmd[c].next)
      /\ cmd'[c].op = cmd[c].op /\ cmd'[c].limit = cmd[c].limit
      /\ cmd'[c].done = cmd[c].done \cup {s} /\ cmd'[c].chosen = cmd[c].chosen \cup K
  BY <1>1, ResolveDoes
<1>3. Gathers(c)' /\ (Collects(c)' <=> Collects(c)) /\ cmd'[c].at \notin {"idle", "apply", "reply"}
  BY <1>1, <1>2 DEF Gathers, Collects, Only
<1>4. job'[w] = NoTask /\ \A x \in Workers \ {w} : job'[x] = job[x]
  BY DEF Resolve, TaskOver, BulkInv, BulkTypeOK
<1> QED
  BY <1>2, <1>3, <1>4 DEF Serves

(* The other commands go on as they were. *)
LEMMA OthersSafe ==
  ASSUME BulkInv, BulkTypeOK', NEW w \in Workers, NEW c \in Clients, NEW s \in Shards, HasTask(w, c, s),
         \A d \in Clients \ {c} : cmd'[d] = cmd[d] /\ matches'[d] = matches[d],
         UNCHANGED <<present, seen>>
           \/ (UNCHANGED matches /\ \E P \in SUBSET Keys : Becomes(P, c)),
         \A x \in Workers \ {w} : Unmoved(x), job'[w] = job[w] \/ job'[w] = NoTask
  PROVE  \A d \in Clients \ {c} : CommandSafe(d)'
<1> SUFFICES ASSUME NEW d \in Clients, d # c PROVE Untouched(d)
  BY UntouchedSafe
<1>1. SameData(d) /\ (Gathers(d)' <=> Gathers(d)) /\ (cmd'[d].at = "idle" <=> cmd[d].at = "idle")
  BY DEF SameData, Gathers
<1>2. \A x \in Workers : Aside(x, d)
  <2>1. ~Serves(w, d) /\ ~Serves(w, d)'
    BY DEF HasTask, Serves, Client
  <2> QED
    BY <2>1 DEF Aside
<1>3. CASE UNCHANGED <<present, seen>>
  BY <1>1, <1>2, <1>3, QuietUntouched
<1>4. CASE UNCHANGED matches /\ \E P \in SUBSET Keys : Becomes(P, c)
  BY <1>1, <1>2, <1>4, BecomesUntouched
<1> QED
  BY <1>3, <1>4

(* The other workers go on as they were. *)
LEMMA OthersVisit ==
  ASSUME BulkInv, NEW w \in Workers, NEW c \in Clients, NEW s \in Shards, HasTask(w, c, s),
         \A d \in Clients \ {c} : cmd'[d] = cmd[d], cmd'[c].op = cmd[c].op,
         \A d \in Clients : seen[d].ever \subseteq seen'[d].ever,
         NEW K \in SUBSET Keys, cmd'[c].chosen \subseteq cmd[c].chosen \cup K,
         K \subseteq KeysOf(s),
         \A x \in Workers \ {w} : Unmoved(x)
  PROVE  \A x \in Workers \ {w} : VisitSafe(x)'
<1> SUFFICES ASSUME NEW x \in Workers, x # w PROVE VisitSafe(x)'
  OBVIOUS
<1>1. ASSUME Begun(x)
      PROVE  LET e == Client(x) IN
           /\ cmd'[e].op = cmd[e].op /\ todo[x] \cap cmd'[e].chosen = {}
           /\ seen[e].ever \subseteq seen'[e].ever
  <2>1. PICK e \in Clients, r \in Shards : HasTask(x, e, r)
    BY <1>1, AtWork
  <2>2. VisitSafe(x) /\ Client(x) = e /\ job[x] = [client |-> e, shard |-> r] /\ job[x].shard = r
    BY <2>1 DEF BulkInv, HasTask
  <2>3. CASE e # c
    BY <1>1, <2>2, <2>3 DEF VisitSafe
  <2>4. CASE e = c
    <3>1. r # s
      BY <2>2, <2>4, NoDouble
    <3>2. todo[x] \subseteq KeysOf(r) /\ todo[x] \cap cmd[c].chosen = {}
      BY <1>1, <2>2, <2>4 DEF VisitSafe
    <3>3. todo[x] \cap K = {}
      BY <3>1, <3>2 DEF KeysOf
    <3> QED
      BY <2>2, <2>4, <3>2, <3>3
  <2> QED
    BY <2>3, <2>4
<1> QED
  BY <1>1, VisitKept

(* No task of a setBy or delBy is ever in the middle of its work. *)
LEMMA WritersWhole ==
  ASSUME BulkInv, NEW c \in Clients, cmd[c].op # "getby", UNCHANGED <<todo, undo>>,
         \A x \in Workers : job'[x] = job[x] \/ job'[x] = NoTask
  PROVE  /\ Undoing(c) = {} /\ Undoing(c)' = {}
         /\ \A x \in Workers, s \in Shards : ~WorksOn(x, c, s) /\ ~WorksOn(x, c, s)'
<1>1. \A x \in Workers : Serves(x, c) => ~Begun(x) /\ ~undo[x]
  BY NobodyBegun
<1>2. \A x \in Workers : Serves(x, c)' => Serves(x, c) /\ ~Begun(x)' /\ ~undo'[x]
  BY <1>1 DEF Serves, Client, Begun
<1>3. Undoing(c) = {} /\ Undoing(c)' = {}
  BY <1>1, <1>2 DEF Undoing
<1>4. ASSUME NEW x \in Workers, NEW s \in Shards PROVE ~WorksOn(x, c, s) /\ ~WorksOn(x, c, s)'
  <2>1. (WorksOn(x, c, s) => Serves(x, c)) /\ (WorksOn(x, c, s)' => Serves(x, c)')
    BY WorksServes, WorksServesNext
  <2> QED
    BY <1>1, <1>2, <2>1 DEF WorksOn
<1> QED
  BY <1>3, <1>4

LEMMA ChosenDone ==
  ASSUME BulkInv, NEW c \in Clients, Gathers(c),
         \A x \in Workers, s \in Shards : ~WorksOn(x, c, s)
  PROVE  \A k \in cmd[c].chosen : ShardOf[k] \in cmd[c].done
<1> TAKE k \in cmd[c].chosen
<1>1. cmd[c].chosen \in SUBSET Keys /\ ChosenSafe(c)
  BY CommandHas DEF BulkInv, BulkTypeOK, CommandSafe
<1>2. ShardOf[k] \in Shards
  BY <1>1, BulkAssumption
<1>3. \A x \in Workers : ~(Begun(x) /\ job[x] = [client |-> c, shard |-> ShardOf[k]])
  BY <1>2 DEF WorksOn
<1> QED
  BY <1>1, <1>3 DEF ChosenSafe

LEMMA MatchingKeysCommand ==
  ASSUME BulkInv, NEW w \in Workers, NEW c \in Clients, NEW s \in Shards, HasTask(w, c, s),
         MatchingKeys(w)
  PROVE  CommandSafe(c)'
<1>1. /\ Client(w) = c /\ job[w].shard = s /\ Gathers(c) /\ s \notin cmd[c].done /\ Serves(w, c)
      /\ Collects(c) /\ cmd[c].op # "getby" /\ UNCHANGED <<present, matches, todo, undo, seen>>
  BY DEF HasTask, MatchingKeys, Collects
<1>2. PICK F \in SUBSET Keys, lim \in Nat : F = present \cap KeysOf(s) /\ lim = cmd[c].limit
  BY <1>1, CommandHas DEF BulkInv, BulkTypeOK, Collects
<1>3. PICK K \in SUBSET Keys : K = Smallest(F, lim) /\ K \subseteq F
  <2>1. Smallest(F, lim) \in SUBSET F
    BY SmallestIs
  <2> QED
    BY <2>1
<1>4. Resolve(w, K)
  BY <1>1, <1>2, <1>3 DEF MatchingKeys, Found
<1>5. /\ cmd'[c].op = cmd[c].op /\ cmd'[c].limit = cmd[c].limit
      /\ cmd'[c].done = cmd[c].done \cup {s} /\ cmd'[c].chosen = cmd[c].chosen \cup K
      /\ Gathers(c)' /\ Collects(c)' /\ cmd'[c].at \notin {"idle", "apply", "reply"}
      /\ job'[w] = NoTask /\ \A x \in Workers \ {w} : job'[x] = job[x]
  BY <1>1, <1>4, ResolveEnds
<1>6. Undoing(c)' = {} /\ \A x \in Workers, r \in Shards : ~WorksOn(x, c, r)
  BY <1>1, <1>5, WritersWhole
<1>7. ~Begun(w)
  BY <1>1, NobodyBegun
<1>8. cmd[c].chosen \cap KeysOf(s) = {}
  BY <1>7, ShardFresh
<1>9. CommandSafe(c) /\ cmd[c].at # "idle" /\ cmd[c].chosen \in SUBSET Keys /\ seen[c].steady \in SUBSET Keys
  BY <1>1, CommandHas DEF BulkInv, BulkTypeOK, Gathers
<1>10. CountSafe(c)'
  BY <1>1, <1>5, <1>6 DEF CountSafe
<1>11. ChosenSafe(c)'
  <2>1. \A k \in cmd[c].chosen : ShardOf[k] \in cmd[c].done
    BY <1>1, <1>6, ChosenDone
  <2>2. \A k \in K : ShardOf[k] = s
    BY <1>2, <1>3 DEF KeysOf
  <2> QED
    BY <1>5, <2>1, <2>2 DEF ChosenSafe
<1>12. SeenSafe(c)'
  BY <1>1, <1>2, <1>3, <1>5, <1>9 DEF CommandSafe, SeenSafe
<1>13. CollectSafe(c)'
  <2> DEFINE T(r) == seen[c].steady \cap KeysOf(r)
  <2>1. SUFFICES ASSUME NEW r \in cmd[c].done \cup {s}, NEW C, C = cmd'[c].chosen \cap KeysOf(r)
                 PROVE  /\ Cardinality(C) <= lim /\ (Cardinality(C) < lim => T(r) \subseteq C)
                        /\ \A k \in C, q \in T(r) \ C : k < q
    BY <1>1, <1>2, <1>5 DEF CollectSafe
  <2>2. CASE r # s
    <3>1. C = cmd[c].chosen \cap KeysOf(r)
      BY <1>2, <1>3, <1>5, <2>1, <2>2 DEF KeysOf
    <3> QED
      BY <1>1, <1>2, <1>9, <2>2, <3>1 DEF CommandSafe, CollectSafe
  <2>3. CASE r = s
    <3>1. C = K
      BY <1>2, <1>3, <1>5, <1>8, <2>1, <2>3
    <3>2. T(r) \subseteq F
      BY <1>1, <1>2, <1>9, <2>3 DEF CommandSafe, SeenSafe, KeysOf
    <3>3. /\ Cardinality(K) <= lim /\ (Cardinality(K) < lim => K = F)
          /\ \A k \in K, q \in F \ K : k < q
      BY <1>3, SmallestIs
    <3> QED
      BY <3>1, <3>2, <3>3
  <2> QED
    BY <2>2, <2>3
<1> QED
  BY <1>5, <1>10, <1>11, <1>12, <1>13 DEF CommandSafe, GatherSafe, CountHolds

LEMMA MatchingKeysSafe == ASSUME BulkInv, NEW w \in Workers, MatchingKeys(w) PROVE BulkInv'
<1>1. PICK c \in Clients, s \in Shards : HasTask(w, c, s)
  BY AtWork DEF MatchingKeys
<1>2. /\ Client(w) = c /\ job[w].shard = s /\ Gathers(c) /\ worker[w] = "busy"
      /\ Collects(c) /\ UNCHANGED <<present, matches, todo, undo, seen>>
  BY <1>1 DEF HasTask, MatchingKeys
<1>3. PICK F \in SUBSET Keys, lim \in Nat : F = present \cap KeysOf(s) /\ lim = cmd[c].limit
  BY <1>2, CommandHas DEF BulkInv, BulkTypeOK, Collects
<1>4. PICK K \in SUBSET Keys : K = Smallest(F, lim) /\ K \subseteq F
  <2>1. Smallest(F, lim) \in SUBSET F
    BY SmallestIs
  <2> QED
    BY <2>1
<1>5. Resolve(w, K)
  BY <1>2, <1>3, <1>4 DEF MatchingKeys, Found
<1>6. /\ Only(c, cmd[c].at, cmd[c].next) /\ cmd'[c].op = cmd[c].op /\ cmd'[c].chosen = cmd[c].chosen \cup K
      /\ job'[w] = NoTask /\ \A x \in Workers \ {w} : job'[x] = job[x]
  BY <1>1, <1>5, ResolveEnds
<1>7. BulkTypeOK'
  BY <1>2, <1>5, ResolveType DEF BulkInv, BulkTypeOK
<1>8. (\A x \in Workers \ {w} : Unmoved(x)) /\ (\A d \in Clients \ {c} : cmd'[d] = cmd[d])
  BY <1>2, <1>6 DEF Unmoved, Only
<1>9. CommandSafe(c)'
  BY <1>1, MatchingKeysCommand
<1>10. \A d \in Clients : CommandSafe(d)'
  BY <1>1, <1>2, <1>6, <1>7, <1>8, <1>9, OthersSafe
<1>11. \A x \in Workers \ {w} : VisitSafe(x)'
  BY <1>1, <1>2, <1>3, <1>4, <1>6, <1>8, OthersVisit
<1>12. VisitSafe(w)'
  <2>1. ~Begun(w)
    BY <1>1, <1>2, NobodyBegun DEF Collects, HasTask
  <2> QED
    BY <1>2, <2>1 DEF VisitSafe, Begun
<1>13. QueueSafe' /\ NoneLost' /\ SleepSafe' /\ \A d \in Clients : StageSafe(d)'
  BY <1>2, <1>5, ResolvePool, ResolveStage
<1> QED
  BY <1>7, <1>10, <1>11, <1>12, <1>13 DEF BulkInv, PoolInv

LEMMA BulkWriteCommand ==
  ASSUME BulkInv, NEW w \in Workers, NEW c \in Clients, NEW s \in Shards, HasTask(w, c, s),
         BulkWrite(w)
  PROVE  CommandSafe(c)'
<1>1. /\ Client(w) = c /\ job[w].shard = s /\ Gathers(c) /\ s \notin cmd[c].done /\ Serves(w, c)
      /\ ~Collects(c) /\ cmd[c].op # "getby" /\ UNCHANGED <<matches, todo, undo>>
  BY DEF HasTask, BulkWrite, Collects
<1>2. PICK F \in SUBSET Keys : F = present \cap KeysOf(s) /\ F = Found(w)
  BY <1>1 DEF BulkInv, BulkTypeOK, Found
<1>3. PICK P \in SUBSET Keys : Becomes(P, c) /\ P \subseteq present /\ present \ F \subseteq P
  BY <1>1, <1>2 DEF BulkWrite, BulkInv, BulkTypeOK
<1>4. Resolve(w, F)
  BY <1>2 DEF BulkWrite
<1>5. /\ cmd'[c].op = cmd[c].op /\ cmd'[c].limit = cmd[c].limit
      /\ cmd'[c].done = cmd[c].done \cup {s} /\ cmd'[c].chosen = cmd[c].chosen \cup F
      /\ Gathers(c)' /\ ~Collects(c)' /\ cmd'[c].at \notin {"idle", "apply", "reply"}
      /\ job'[w] = NoTask /\ \A x \in Workers \ {w} : job'[x] = job[x]
  BY <1>1, <1>4, ResolveEnds
<1>6. Undoing(c)' = {} /\ \A x \in Workers, r \in Shards : ~WorksOn(x, c, r) /\ ~WorksOn(x, c, r)'
  BY <1>1, <1>5, WritersWhole
<1>7. CommandSafe(c) /\ cmd[c].at # "idle" /\ cmd[c].chosen \in SUBSET Keys /\ seen[c].steady \in SUBSET Keys
  BY <1>1, CommandHas DEF BulkInv, BulkTypeOK, Gathers
<1>8. present' = P /\ seen'[c].steady = seen[c].steady /\ seen[c].ever \subseteq seen'[c].ever
      /\ P \subseteq seen'[c].ever
  BY <1>3, <1>7, BecomesDoes
<1>9. CountSafe(c)'
  BY <1>1, <1>5, <1>6 DEF CountSafe
<1>10. ChosenSafe(c)'
  <2>1. \A k \in cmd[c].chosen : ShardOf[k] \in cmd[c].done
    BY <1>1, <1>6, ChosenDone
  <2>2. \A k \in F : ShardOf[k] = s
    BY <1>2 DEF KeysOf
  <2> QED
    BY <1>5, <2>1, <2>2 DEF ChosenSafe
<1>11. \A k \in seen[c].steady : ShardOf[k] \in cmd[c].done \/ k \in present
  BY <1>1, <1>7 DEF CommandSafe, SeenSafe
<1>12. SeenSafe(c)'
  <2>1. present \subseteq seen[c].ever /\ cmd[c].chosen \subseteq seen[c].ever
    BY <1>7 DEF CommandSafe, SeenSafe
  <2>2. \A k \in seen[c].steady : ShardOf[k] \in cmd[c].done \cup {s} \/ k \in P
    BY <1>2, <1>3, <1>11 DEF KeysOf
  <2> QED
    BY <1>2, <1>5, <1>8, <2>1, <2>2 DEF SeenSafe
<1>13. GatherSafe(c)'
  <2> SUFFICES ASSUME NEW k \in seen[c].steady \ (cmd[c].chosen \cup F)
               PROVE  /\ ShardOf[k] \notin cmd[c].done \cup {s}
                      /\ \A x \in Workers : ~(Begun(x) /\ job[x] = [client |-> c, shard |-> ShardOf[k]])'
    BY <1>5, <1>8 DEF GatherSafe
  <2>1. ~Enough(c)
    BY <1>1 DEF Enough, Collects
  <2>2. ShardOf[k] \notin cmd[c].done
    BY <1>1, <1>7, <2>1 DEF CommandSafe, GatherSafe
  <2>3. ShardOf[k] # s
    BY <1>2, <1>7, <1>11, <2>2 DEF KeysOf
  <2>4. \A x \in Workers : ~WorksOn(x, c, ShardOf[k])'
    BY <1>6, <1>7, BulkAssumption
  <2> QED
    BY <2>2, <2>3, <2>4 DEF WorksOn
<1> QED
  BY <1>5, <1>9, <1>10, <1>12, <1>13 DEF CommandSafe, CollectSafe, CountHolds

LEMMA BulkWriteSafe == ASSUME BulkInv, NEW w \in Workers, BulkWrite(w) PROVE BulkInv'
<1>1. PICK c \in Clients, s \in Shards : HasTask(w, c, s)
  BY AtWork DEF BulkWrite
<1>2. /\ Client(w) = c /\ job[w].shard = s /\ worker[w] = "busy" /\ Serves(w, c)
      /\ cmd[c].op # "getby" /\ UNCHANGED <<matches, todo, undo>>
  BY <1>1 DEF HasTask, BulkWrite
<1>3. PICK F \in SUBSET Keys : F = present \cap KeysOf(s) /\ F = Found(w)
  BY <1>2 DEF BulkInv, BulkTypeOK, Found
<1>4. PICK P \in SUBSET Keys : Becomes(P, c)
  <2>1. present \in SUBSET Keys /\ present \ Found(w) \in SUBSET Keys
    BY DEF BulkInv, BulkTypeOK
  <2> QED
    BY <1>2, <2>1 DEF BulkWrite
<1>5. Resolve(w, F)
  BY <1>3 DEF BulkWrite
<1>6. /\ Only(c, cmd[c].at, cmd[c].next) /\ cmd'[c].op = cmd[c].op /\ cmd'[c].chosen = cmd[c].chosen \cup F
      /\ job'[w] = NoTask /\ \A x \in Workers \ {w} : job'[x] = job[x]
  BY <1>1, <1>5, ResolveEnds
<1>7. /\ present' \in SUBSET Keys /\ seen' \in [Clients -> [steady : SUBSET Keys, ever : SUBSET Keys]]
      /\ \A d \in Clients : seen[d].ever \subseteq seen'[d].ever /\ (cmd[d].at = "idle" => seen'[d] = seen[d])
  BY <1>4, BecomesDoes
<1>8. BulkTypeOK'
  BY <1>2, <1>5, <1>7, ResolveType DEF BulkInv, BulkTypeOK
<1>9. (\A x \in Workers \ {w} : Unmoved(x)) /\ (\A d \in Clients \ {c} : cmd'[d] = cmd[d])
  BY <1>2, <1>6 DEF Unmoved, Only
<1>10. CommandSafe(c)'
  BY <1>1, BulkWriteCommand
<1>11. \A d \in Clients : CommandSafe(d)'
  BY <1>1, <1>2, <1>4, <1>6, <1>8, <1>9, <1>10, OthersSafe
<1>12. \A x \in Workers \ {w} : VisitSafe(x)'
  BY <1>1, <1>3, <1>6, <1>7, <1>9, OthersVisit
<1>13. VisitSafe(w)'
  <2>1. ~Begun(w)
    BY <1>2, NobodyBegun
  <2> QED
    BY <1>2, <2>1 DEF VisitSafe, Begun
<1>14. QueueSafe' /\ NoneLost' /\ SleepSafe' /\ \A d \in Clients : StageSafe(d)'
  BY <1>2, <1>5, <1>7, ResolvePool, ResolveStage
<1> QED
  BY <1>8, <1>11, <1>12, <1>13, <1>14 DEF BulkInv, PoolInv

(* The tasks of a getBy *)

(* Only with enough keys is the limit reached. *)
LEMMA ReachedEnough ==
  ASSUME BulkInv, NEW c \in Clients, cmd[c].op = "getby"
  PROVE  /\ Reached(c) <=> Enough(c)
         /\ matches[c] = Cardinality(cmd[c].chosen) + Cardinality(Undoing(c))
         /\ ~Enough(c) => Undoing(c) = {}
<1>1. CountSafe(c) /\ cmd[c].limit \in Nat \cup {NoLimit}
  BY CommandHas DEF BulkInv, BulkTypeOK, CommandSafe
<1>2. /\ Cardinality(cmd[c].chosen) \in Nat /\ Cardinality(Undoing(c)) \in Nat
      /\ Cardinality(Undoing(c)) = 0 <=> Undoing(c) = {}
  BY SetsFinite DEF BulkInv
<1> QED
  BY <1>1, <1>2 DEF CountSafe, Reached, Enough

(* The other tasks of the command go on. *)
LEMMA OthersWork ==
  ASSUME NEW w \in Workers, NEW c \in Clients, \A x \in Workers \ {w} : Unmoved(x)
  PROVE  /\ Undoing(c)' \ {w} = Undoing(c) \ {w}
         /\ \A x \in Workers \ {w}, s \in Shards :
               /\ WorksOn(x, c, s)' <=> WorksOn(x, c, s)
               /\ WorksOn(x, c, s) => todo'[x] = todo[x]
<1>1. \A x \in Workers \ {w} : Aside(x, c)
  BY DEF Aside
<1>2. \A x \in Workers \ {w} : (undo[x] /\ Serves(x, c))' <=> (undo[x] /\ Serves(x, c))
  BY <1>1, AsideUndo
<1>3. ASSUME NEW x \in Workers \ {w}, NEW s \in Shards
      PROVE  (WorksOn(x, c, s)' <=> WorksOn(x, c, s)) /\ (WorksOn(x, c, s) => todo'[x] = todo[x])
  BY <1>1, AsideWorks
<1>4. Undoing(c)' \ {w} = Undoing(c) \ {w}
  BY <1>2 DEF Undoing
<1> QED
  BY <1>3, <1>4

(***************************************************************************)
(* What a step of w does to ChosenSafe and GatherSafe of its command: it   *)
(* chooses K of its shard, and either is over or goes on.                  *)
(***************************************************************************)
LEMMA ChosenStep ==
  ASSUME BulkInv, NEW w \in Workers, NEW c \in Clients, NEW s \in Shards, HasTask(w, c, s),
         \A x \in Workers \ {w} : Unmoved(x), NEW K \in SUBSET Keys, K \subseteq KeysOf(s),
         cmd'[c].chosen \subseteq cmd[c].chosen \cup K, cmd[c].done \subseteq cmd'[c].done,
         s \in cmd'[c].done \/ WorksOn(w, c, s)'
  PROVE  ChosenSafe(c)'
<1> SUFFICES ASSUME NEW k \in cmd'[c].chosen
             PROVE  ShardOf[k] \in cmd'[c].done \/ \E x \in Workers : WorksOn(x, c, ShardOf[k])'
  BY DEF ChosenSafe, WorksOn
<1>1. k \in Keys /\ ShardOf[k] \in Shards
  BY CommandHas, BulkAssumption DEF BulkInv, BulkTypeOK
<1>2. CASE ShardOf[k] = s
  BY <1>2
<1>3. CASE ShardOf[k] # s
  <2>1. k \in cmd[c].chosen /\ ChosenSafe(c) /\ Gathers(c)
    BY <1>3 DEF KeysOf, BulkInv, CommandSafe, HasTask
  <2>2. CASE ShardOf[k] \in cmd[c].done
    BY <2>2
  <2>3. ASSUME NEW x \in Workers, WorksOn(x, c, ShardOf[k])
        PROVE  WorksOn(x, c, ShardOf[k])'
    <3>1. x # w
      BY <1>3, <2>3 DEF HasTask, WorksOn
    <3> QED
      BY <1>1, <2>3, <3>1, OthersWork
  <2> QED
    BY <2>1, <2>2, <2>3 DEF ChosenSafe, WorksOn
<1> QED
  BY <1>2, <1>3

LEMMA GatherStep ==
  ASSUME BulkInv, NEW w \in Workers, NEW c \in Clients, NEW s \in Shards, HasTask(w, c, s),
         \A x \in Workers \ {w} : Unmoved(x), cmd[c].op = "getby", seen' = seen,
         cmd[c].chosen \subseteq cmd'[c].chosen,
         cmd'[c].done = cmd[c].done \/ cmd'[c].done = cmd[c].done \cup {s},
         Enough(c) => Enough(c)',
         ~Enough(c)' => \A k \in seen[c].steady \ cmd'[c].chosen : ShardOf[k] = s =>
             s \notin cmd'[c].done /\ (WorksOn(w, c, s)' => k \in todo'[w]),
         \A r \in Shards : WorksOn(w, c, r)' => r = s
  PROVE  GatherSafe(c)'
<1> SUFFICES ASSUME ~Enough(c)', NEW k \in seen[c].steady \ cmd'[c].chosen
             PROVE  /\ ShardOf[k] \notin cmd'[c].done
                    /\ \A x \in Workers : WorksOn(x, c, ShardOf[k])' => k \in todo'[x]
  BY DEF GatherSafe, WorksOn
<1>1. k \in Keys /\ ShardOf[k] \in Shards /\ k \notin cmd[c].chosen
  BY BulkAssumption DEF BulkInv, BulkTypeOK
<1>2. GatherSafe(c) /\ Gathers(c) /\ ~Collects(c) /\ ~Enough(c)
  BY DEF BulkInv, CommandSafe, HasTask, Collects
<1>3. /\ ShardOf[k] \notin cmd[c].done
      /\ \A x \in Workers : WorksOn(x, c, ShardOf[k]) => k \in todo[x]
  BY <1>1, <1>2 DEF GatherSafe, WorksOn
<1>4. ShardOf[k] \notin cmd'[c].done
  BY <1>3
<1>5. ASSUME NEW x \in Workers, WorksOn(x, c, ShardOf[k])' PROVE k \in todo'[x]
  <2>1. CASE x = w
    BY <1>1, <1>5, <2>1
  <2>2. CASE x # w
    <3>1. WorksOn(x, c, ShardOf[k]) /\ todo'[x] = todo[x]
      BY <1>1, <1>5, <2>2, OthersWork
    <3> QED
      BY <1>3, <3>1
  <2> QED
    BY <2>1, <2>2
<1> QED
  BY <1>4, <1>5

(* The rest of BulkInv, when w's task is over or goes on and no command but c's is concerned. *)
LEMMA TaskStepSafe ==
  ASSUME BulkInv, NEW w \in Workers, NEW c \in Clients, NEW s \in Shards, HasTask(w, c, s),
         BulkTypeOK', CommandSafe(c)', VisitSafe(w)', UNCHANGED <<present, seen>>,
         \A d \in Clients \ {c} : cmd'[d] = cmd[d] /\ matches'[d] = matches[d],
         cmd'[c].op = cmd[c].op, NEW K \in SUBSET Keys, K \subseteq KeysOf(s),
         cmd'[c].chosen \subseteq cmd[c].chosen \cup K,
         \A x \in Workers \ {w} : Unmoved(x), job'[w] = job[w] \/ job'[w] = NoTask,
         \/ Resolve(w, K)
         \/ UNCHANGED poolVars /\ Only(c, cmd[c].at, cmd[c].next) /\ cmd'[c].done = cmd[c].done
  PROVE  BulkInv'
<1>1. \A d \in Clients : CommandSafe(d)'
  BY OthersSafe
<1>2. \A x \in Workers : VisitSafe(x)'
  BY OthersVisit
<1>3. QueueSafe' /\ NoneLost' /\ SleepSafe' /\ \A d \in Clients : StageSafe(d)'
  <2>1. CASE Resolve(w, K)
    BY <2>1, ResolvePool, ResolveStage DEF HasTask
  <2>2. CASE UNCHANGED poolVars /\ Only(c, cmd[c].at, cmd[c].next) /\ cmd'[c].done = cmd[c].done
    <3>1. \A d \in Clients : SameStage(d)
      BY <2>2 DEF SameStage, Only
    <3>2. SamePending
      BY <3>1, PendingSame, TaskHas DEF SamePending
    <3>3. SleepSafe /\ StageSafe(c) /\ Gathers(c)
      BY DEF BulkInv, PoolInv, HasTask
    <3>4. stopFlag => \A d \in Clients : cmd'[d].at = "idle"
      BY <3>1, <3>3 DEF SleepSafe, SameStage
    <3>5. QueueSafe' /\ NoneLost' /\ SleepSafe'
      BY <2>2, <3>1, <3>2, <3>4, PoolStill DEF SameStage
    <3>6. StageSafe(c)'
      BY <3>1, <3>3 DEF StageSafe, SameStage, Gathers
    <3>7. \A d \in Clients : StageSafe(d)'
      BY <2>2, <3>6, StagesKept
    <3> QED
      BY <3>5, <3>7
  <2> QED
    BY <2>1, <2>2
<1> QED
  BY <1>1, <1>2, <1>3 DEF BulkInv, PoolInv

(* Either the look-up finds nothing more to return, *)
LEMMA LookUpEmpty ==
  ASSUME BulkInv, NEW w \in Workers, NEW c \in Clients, NEW s \in Shards, HasTask(w, c, s),
         cmd[c].op = "getby", ~Begun(w), Reached(c) \/ Found(w) = {}, Resolve(w, {}),
         UNCHANGED <<present, matches, todo, undo, seen>>
  PROVE  BulkInv'
<1>1. /\ Only(c, cmd[c].at, cmd[c].next) /\ cmd'[c].op = cmd[c].op /\ cmd'[c].limit = cmd[c].limit
      /\ cmd'[c].done = cmd[c].done \cup {s} /\ cmd'[c].chosen = cmd[c].chosen
      /\ Gathers(c)' /\ (Collects(c)' <=> Collects(c)) /\ cmd'[c].at \notin {"idle", "apply", "reply"}
      /\ job'[w] = NoTask /\ ~Serves(w, c)' /\ \A x \in Workers \ {w} : job'[x] = job[x]
  <2>1. {} \in SUBSET Keys /\ cmd[c].chosen \cup {} = cmd[c].chosen
    OBVIOUS
  <2> QED
    BY <2>1, ResolveEnds
<1>2. BulkTypeOK'
  BY ResolveType DEF BulkInv, BulkTypeOK, HasTask
<1>3. \A x \in Workers \ {w} : Unmoved(x)
  BY <1>1 DEF Unmoved
<1>4. CommandSafe(c) /\ cmd[c].at # "idle" /\ Gathers(c) /\ s \notin cmd[c].done /\ ~Collects(c)
  BY DEF BulkInv, HasTask, Gathers, Collects
<1>5. CountSafe(c)'
  <2>1. Undoing(c)' = Undoing(c)
    BY <1>1, <1>3, OthersWork DEF Undoing, Begun
  <2>2. Enough(c)' <=> Enough(c)
    BY <1>1 DEF Enough
  <2> QED
    BY <1>1, <1>4, <2>1, <2>2 DEF CommandSafe, CountSafe
<1>6. ChosenSafe(c)'
  <2>1. {} \in SUBSET Keys /\ {} \subseteq KeysOf(s) /\ cmd'[c].chosen \subseteq cmd[c].chosen \cup {}
    BY <1>1
  <2> QED
    BY <1>1, <1>3, <2>1, ChosenStep
<1>7. SeenSafe(c)'
  BY <1>1, <1>4 DEF CommandSafe, SeenSafe
<1>8. GatherSafe(c)'
  <2>1. Enough(c)' <=> Enough(c)
    BY <1>1 DEF Enough
  <2>2. \A r \in Shards : ~WorksOn(w, c, r)'
    BY <1>1, WorksServesNext
  <2>3. ASSUME ~Enough(c), NEW k \in seen[c].steady \ cmd[c].chosen PROVE ShardOf[k] # s
    <3>1. Found(w) = {} /\ job[w].shard = s
      BY <2>3, ReachedEnough DEF HasTask
    <3>2. ShardOf[k] \in cmd[c].done \/ k \in present
      BY <1>4 DEF CommandSafe, SeenSafe
    <3> QED
      BY <1>4, <3>1, <3>2 DEF Found, KeysOf, BulkInv, BulkTypeOK
  <2> QED
    BY <1>1, <1>3, <2>1, <2>2, <2>3, GatherStep
<1>9. CommandSafe(c)'
  BY <1>1, <1>4, <1>5, <1>6, <1>7, <1>8 DEF CommandSafe, CollectSafe, CountHolds
<1>10. VisitSafe(w)'
  BY DEF VisitSafe, Begun
<1>11. \A d \in Clients \ {c} : cmd'[d] = cmd[d] /\ matches'[d] = matches[d]
  BY <1>1 DEF Only
<1>12. {} \in SUBSET Keys /\ {} \subseteq KeysOf(s) /\ cmd'[c].chosen \subseteq cmd[c].chosen \cup {}
  BY <1>1
<1> QED
  BY <1>1, <1>2, <1>3, <1>9, <1>10, <1>11, <1>12, TaskStepSafe

(* or it finds K. *)
LEMMA LookUpFinds ==
  ASSUME BulkInv, NEW w \in Workers, NEW c \in Clients, NEW s \in Shards, HasTask(w, c, s),
         cmd[c].op = "getby", ~Begun(w), NEW K \in SUBSET Keys, K \subseteq Found(w),
         Reached(c) \/ K = Found(w), todo' = [todo EXCEPT ![w] = K], UNCHANGED poolVars,
         UNCHANGED <<present, cmd, matches, undo, seen>>
  PROVE  BulkInv'
<1>1. UNCHANGED job /\ job[w] = [client |-> c, shard |-> s] /\ job[w].shard = s /\ todo'[w] = K
      /\ ~undo[w]
  BY DEF poolVars, HasTask, BulkInv, BulkTypeOK, Begun
<1>2. BulkTypeOK'
  BY DEF BulkInv, BulkTypeOK, poolVars
<1>3. \A x \in Workers \ {w} : Unmoved(x)
  BY <1>1 DEF Unmoved, BulkInv, BulkTypeOK
<1>4. CommandSafe(c) /\ cmd[c].at # "idle" /\ Gathers(c) /\ s \notin cmd[c].done /\ ~Collects(c)
  BY DEF BulkInv, HasTask, Gathers, Collects
<1>5. CountSafe(c)'
  <2>1. Undoing(c)' = Undoing(c)
    BY <1>1 DEF Undoing, Serves, Client
  <2>2. Enough(c)' <=> Enough(c)
    BY DEF Enough
  <2> QED
    BY <1>4, <2>1, <2>2 DEF CommandSafe, CountSafe
<1>6. K = {} \/ WorksOn(w, c, s)'
  BY <1>1 DEF WorksOn, Begun
<1>7. ChosenSafe(c)'
  <2>1. cmd[c].chosen \cap KeysOf(s) = {}
    BY ShardFresh
  <2> SUFFICES ASSUME NEW k \in cmd[c].chosen
               PROVE  ShardOf[k] \in cmd[c].done \/ \E x \in Workers : WorksOn(x, c, ShardOf[k])'
    BY DEF ChosenSafe, WorksOn
  <2>2. k \in Keys /\ ShardOf[k] \in Shards /\ ShardOf[k] # s
    BY <2>1, CommandHas, BulkAssumption DEF KeysOf, BulkInv, BulkTypeOK
  <2>3. ShardOf[k] \in cmd[c].done \/ \E x \in Workers : WorksOn(x, c, ShardOf[k])
    BY <1>4 DEF CommandSafe, ChosenSafe, WorksOn
  <2>4. ASSUME NEW x \in Workers, WorksOn(x, c, ShardOf[k]) PROVE WorksOn(x, c, ShardOf[k])'
    <3>1. x # w
      BY <2>4 DEF WorksOn
    <3> QED
      BY <1>3, <2>2, <2>4, <3>1, OthersWork
  <2> QED
    BY <2>3, <2>4
<1>8. SeenSafe(c)'
  BY <1>4 DEF CommandSafe, SeenSafe, Gathers
<1>9. GatherSafe(c)'
  <2>1. Enough(c)' <=> Enough(c)
    BY DEF Enough
  <2>2. \A r \in Shards : WorksOn(w, c, r)' => r = s
    BY <1>1 DEF WorksOn
  <2>3. ASSUME ~Enough(c), NEW k \in seen[c].steady \ cmd[c].chosen, ShardOf[k] = s PROVE k \in K
    <3>1. K = present \cap KeysOf(s)
      BY <1>1, <2>3, ReachedEnough DEF Found
    <3>2. k \in present /\ k \in Keys
      BY <1>4, <2>3 DEF CommandSafe, SeenSafe, BulkInv, BulkTypeOK
    <3> QED
      BY <2>3, <3>1, <3>2 DEF KeysOf
  <2> QED
    BY <1>1, <1>3, <1>4, <2>1, <2>2, <2>3, GatherStep
<1>10. CommandSafe(c)'
  BY <1>4, <1>5, <1>7, <1>8, <1>9
  DEF CommandSafe, CollectSafe, CountHolds, Gathers, Collects
<1>11. VisitSafe(w)'
  <2>1. cmd[c].chosen \cap KeysOf(s) = {}
    BY ShardFresh
  <2>2. K \subseteq KeysOf(s) /\ K \subseteq seen[c].ever
    BY <1>1, <1>4 DEF Found, CommandSafe, SeenSafe
  <2>3. job[w] # NoTask /\ Client(w) = c
    BY DEF HasTask, Serves
  <2> QED
    BY <1>1, <2>1, <2>2, <2>3 DEF VisitSafe, Client
<1>12. Only(c, cmd[c].at, cmd[c].next)
  BY <1>2 DEF Only, BulkTypeOK
<1>13. {} \in SUBSET Keys /\ {} \subseteq KeysOf(s) /\ cmd'[c].chosen \subseteq cmd[c].chosen \cup {}
  OBVIOUS
<1> QED
  BY <1>1, <1>2, <1>3, <1>10, <1>11, <1>12, <1>13, TaskStepSafe

LEMMA LookUpSafe == ASSUME BulkInv, NEW w \in Workers, LookUp(w) PROVE BulkInv'
<1>1. PICK c \in Clients, s \in Shards : HasTask(w, c, s)
  BY AtWork DEF LookUp
<1>2. Client(w) = c /\ cmd[c].op = "getby" /\ ~Begun(w) /\ UNCHANGED <<present, matches, undo, seen>>
  BY <1>1 DEF HasTask, LookUp
<1>3. PICK K \in IF Reached(c) THEN SUBSET Found(w) ELSE {Found(w)} :
        IF K = {} THEN Resolve(w, {}) /\ UNCHANGED todo
        ELSE todo' = [todo EXCEPT ![w] = K] /\ UNCHANGED <<poolVars, cmd>>
  BY <1>2 DEF LookUp
<1>4. K \in SUBSET Keys /\ K \subseteq Found(w) /\ (Reached(c) \/ K = Found(w))
  BY <1>3 DEF Found, BulkInv, BulkTypeOK
<1>5. CASE K = {}
  BY <1>1, <1>2, <1>3, <1>4, <1>5, LookUpEmpty
<1>6. CASE K # {}
  BY <1>1, <1>2, <1>3, <1>4, <1>6, LookUpFinds
<1> QED
  BY <1>5, <1>6

LEMMA ChosenDoes ==
  ASSUME cmd \in [Clients -> Command], NEW c \in Clients, NEW k \in Keys,
         cmd' = [cmd EXCEPT ![c].chosen = @ \cup {k}]
  PROVE  /\ Only(c, cmd[c].at, cmd[c].next)
         /\ cmd'[c].op = cmd[c].op /\ cmd'[c].limit = cmd[c].limit
         /\ cmd'[c].done = cmd[c].done /\ cmd'[c].chosen = cmd[c].chosen \cup {k}
<1> DEFINE m == [cmd[c] EXCEPT !.chosen = @ \cup {k}]
<1>1. /\ m \in Command /\ m.at = cmd[c].at /\ m.next = cmd[c].next /\ m.op = cmd[c].op
      /\ m.limit = cmd[c].limit /\ m.done = cmd[c].done /\ m.chosen = cmd[c].chosen \cup {k}
  BY DEF Command
<1>2. cmd' = [cmd EXCEPT ![c] = m]
  OBVIOUS
<1> HIDE DEF m
<1> QED
  BY <1>1, <1>2 DEF Only

(* One entry of a getBy: too many, *)
LEMMA VisitTooMany ==
  ASSUME BulkInv, NEW w \in Workers, NEW c \in Clients, NEW s \in Shards, HasTask(w, c, s),
         Begun(w), ~undo[w], Reached(c), UNCHANGED poolVars, UNCHANGED <<present, cmd, seen>>,
         matches' = [matches EXCEPT ![c] = @ + 1], undo' = [undo EXCEPT ![w] = TRUE],
         todo' = [todo EXCEPT ![w] = {}]
  PROVE  BulkInv'
<1>1. /\ UNCHANGED job /\ job[w] = [client |-> c, shard |-> s] /\ todo'[w] = {} /\ undo'[w] = TRUE
      /\ matches'[c] = matches[c] + 1 /\ matches[c] \in Nat /\ Serves(w, c) /\ Client(w) = c
  BY DEF poolVars, HasTask, BulkInv, BulkTypeOK
<1>2. BulkTypeOK'
  BY <1>1 DEF BulkInv, BulkTypeOK, poolVars
<1>3. \A x \in Workers \ {w} : Unmoved(x)
  BY <1>1 DEF Unmoved, BulkInv, BulkTypeOK
<1>4. CommandSafe(c) /\ cmd[c].at # "idle" /\ Gathers(c) /\ cmd[c].op = "getby" /\ ~Collects(c)
  BY <1>1 DEF BulkInv, HasTask, Gathers, Collects, VisitSafe
<1>5. Enough(c) /\ Enough(c)' /\ matches[c] = Cardinality(cmd[c].chosen) + Cardinality(Undoing(c))
  BY <1>4, ReachedEnough DEF Enough
<1>6. CountSafe(c)'
  <2>1. Undoing(c)' = Undoing(c) \cup {w} /\ w \notin Undoing(c)
    <3>1. w \in Undoing(c)' /\ w \notin Undoing(c)
      BY <1>1 DEF Undoing, Serves, Client
    <3> QED
      BY <1>3, <3>1, OthersWork
  <2>2. /\ IsFiniteSet(Undoing(c)) /\ Cardinality(Undoing(c)) \in Nat
        /\ Cardinality(cmd[c].chosen) \in Nat
    BY SetsFinite DEF BulkInv
  <2>3. Cardinality(Undoing(c)') = Cardinality(Undoing(c)) + 1
    BY <2>1, <2>2, FS_AddElement
  <2> QED
    BY <1>1, <1>4, <1>5, <2>2, <2>3 DEF CommandSafe, CountSafe
<1>7. ChosenSafe(c)'
  <2>1. PICK K \in SUBSET Keys : K \subseteq KeysOf(s) /\ cmd'[c].chosen \subseteq cmd[c].chosen \cup K
    <3>1. {} \in SUBSET Keys /\ {} \subseteq KeysOf(s) /\ cmd'[c].chosen \subseteq cmd[c].chosen \cup {}
      OBVIOUS
    <3> QED
      BY <3>1
  <2>2. WorksOn(w, c, s)' /\ cmd[c].done \subseteq cmd'[c].done
    BY <1>1 DEF WorksOn, Begun
  <2> QED
    BY <1>3, <2>1, <2>2, ChosenStep
<1>8. SeenSafe(c)'
  BY <1>4 DEF CommandSafe, SeenSafe, Gathers
<1>9. CommandSafe(c)'
  BY <1>4, <1>5, <1>6, <1>7, <1>8
  DEF CommandSafe, CollectSafe, GatherSafe, CountHolds, Gathers, Collects
<1>10. VisitSafe(w)'
  BY <1>1, <1>4 DEF VisitSafe, Serves, Client
<1>11. Only(c, cmd[c].at, cmd[c].next)
  BY <1>2 DEF Only, BulkTypeOK
<1>12. \A d \in Clients \ {c} : cmd'[d] = cmd[d] /\ matches'[d] = matches[d]
  BY DEF BulkInv, BulkTypeOK
<1>13. {} \in SUBSET Keys /\ {} \subseteq KeysOf(s) /\ cmd'[c].chosen \subseteq cmd[c].chosen \cup {}
  OBVIOUS
<1> QED
  BY <1>1, <1>2, <1>3, <1>9, <1>10, <1>11, <1>12, <1>13, TaskStepSafe

(* or returned, *)
LEMMA VisitReturns ==
  ASSUME BulkInv, NEW w \in Workers, NEW c \in Clients, NEW s \in Shards, HasTask(w, c, s),
         NEW k \in todo[w], ~undo[w], ~Reached(c), UNCHANGED <<present, undo, seen>>,
         matches' = [matches EXCEPT ![c] = @ + 1], todo' = [todo EXCEPT ![w] = @ \ {k}],
         IF todo[w] = {k} THEN Resolve(w, {k})
         ELSE cmd' = [cmd EXCEPT ![c].chosen = @ \cup {k}] /\ UNCHANGED poolVars
  PROVE  BulkInv'
<1>1. /\ job[w] = [client |-> c, shard |-> s] /\ todo'[w] = todo[w] \ {k} /\ Client(w) = c
      /\ todo[w] \in SUBSET Keys /\ {k} \in SUBSET Keys /\ matches'[c] = matches[c] + 1 /\ matches[c] \in Nat
      /\ cmd \in [Clients -> Command] /\ s \notin cmd[c].done
  BY DEF HasTask, BulkInv, BulkTypeOK
<1>2. /\ Begun(w) /\ cmd[c].op = "getby" /\ k \in KeysOf(s) /\ {k} \subseteq KeysOf(s)
      /\ todo[w] \cap cmd[c].chosen = {} /\ k \notin cmd[c].chosen /\ k \in seen[c].ever
      /\ todo[w] \subseteq KeysOf(s) /\ todo[w] \subseteq seen[c].ever
  BY <1>1 DEF BulkInv, VisitSafe, Begun, HasTask
<1>3. /\ Only(c, cmd[c].at, cmd[c].next)
      /\ cmd'[c].op = cmd[c].op /\ cmd'[c].limit = cmd[c].limit /\ cmd'[c].chosen = cmd[c].chosen \cup {k}
      /\ IF todo[w] = {k} THEN cmd'[c].done = cmd[c].done \cup {s} /\ job'[w] = NoTask
         ELSE cmd'[c].done = cmd[c].done /\ job'[w] = job[w]
      /\ \A x \in Workers \ {w} : job'[x] = job[x]
  <2>1. CASE todo[w] = {k}
    <3>1. Resolve(w, {k})
      BY <2>1
    <3> QED
      BY <1>1, <2>1, <3>1, ResolveEnds
  <2>2. CASE todo[w] # {k}
    <3>1. cmd' = [cmd EXCEPT ![c].chosen = @ \cup {k}] /\ UNCHANGED job /\ k \in Keys
      BY <1>1, <2>2 DEF poolVars
    <3> QED
      BY <1>1, <2>2, <3>1, ChosenDoes
  <2> QED
    BY <2>1, <2>2
<1>4. BulkTypeOK'
  <2>1. /\ tasks' \in Seq(Tasks) /\ job' \in [Workers -> Tasks \cup {NoTask}]
        /\ worker' \in [Workers -> {"ready", "waiting", "busy", "exited"}]
        /\ stopFlag' \in BOOLEAN /\ joining' \in BOOLEAN
    <3>1. CASE todo[w] = {k}
      <4>1. Resolve(w, {k}) /\ worker[w] = "busy"
        BY <3>1 DEF HasTask
      <4> QED
        BY <1>1, <4>1, ResolveType
    <3>2. CASE todo[w] # {k}
      BY <3>2 DEF BulkInv, BulkTypeOK, poolVars
    <3> QED
      BY <3>1, <3>2
  <2>2. matches' \in [Clients -> Nat] /\ todo' \in [Workers -> SUBSET Keys]
    BY <1>1 DEF BulkInv, BulkTypeOK
  <2>3. cmd' \in [Clients -> Command]
    BY <1>3 DEF Only
  <2> QED
    BY <2>1, <2>2, <2>3 DEF BulkInv, BulkTypeOK
<1>5. \A x \in Workers \ {w} : Unmoved(x)
  BY <1>3 DEF Unmoved, BulkInv, BulkTypeOK
<1>6. /\ CommandSafe(c) /\ cmd[c].at # "idle" /\ Gathers(c) /\ Gathers(c)' /\ ~Collects(c) /\ ~Collects(c)'
      /\ cmd'[c].at \notin {"idle", "apply", "reply"}
  BY <1>2, <1>3 DEF BulkInv, HasTask, Gathers, Collects, Only
<1>7. /\ ~Enough(c) /\ Undoing(c) = {} /\ matches[c] = Cardinality(cmd[c].chosen)
      /\ Cardinality(cmd'[c].chosen) = Cardinality(cmd[c].chosen) + 1
      /\ Cardinality(cmd[c].chosen) \in Nat
  <2>1. /\ ~Enough(c) /\ Undoing(c) = {} /\ matches[c] = Cardinality(cmd[c].chosen) + Cardinality(Undoing(c))
    BY <1>2, ReachedEnough
  <2>2. IsFiniteSet(cmd[c].chosen) /\ Cardinality(cmd[c].chosen) \in Nat
    BY SetsFinite DEF BulkInv
  <2>3. Cardinality(cmd[c].chosen \cup {k}) = Cardinality(cmd[c].chosen) + 1
    BY <1>2, <2>2, FS_AddElement
  <2>4. Cardinality(Undoing(c)) = 0
    BY <2>1, FS_EmptySet
  <2> QED
    BY <1>3, <2>1, <2>2, <2>3, <2>4
<1>8. CountSafe(c)'
  <2>1. Undoing(c)' = {}
    <3>1. w \notin Undoing(c)'
      BY DEF Undoing
    <3> QED
      BY <1>5, <1>7, <3>1, OthersWork
  <2>2. cmd[c].limit # NoLimit => Cardinality(cmd[c].chosen) + 1 <= cmd[c].limit
    <3>1. cmd[c].limit \in Nat \cup {NoLimit}
      BY <1>1, CommandHas
    <3> QED
      BY <1>7, <3>1 DEF Enough
  <2> QED
    BY <1>1, <1>3, <1>7, <2>1, <2>2, FS_EmptySet DEF CountSafe
<1>9. todo[w] # {k} => WorksOn(w, c, s)'
  BY <1>1, <1>3 DEF WorksOn, Begun
<1>10. ChosenSafe(c)'
  <2>1. s \in cmd'[c].done \/ WorksOn(w, c, s)'
    BY <1>3, <1>9
  <2>2. cmd'[c].chosen \subseteq cmd[c].chosen \cup {k} /\ cmd[c].done \subseteq cmd'[c].done
    BY <1>3
  <2> QED
    BY <1>1, <1>2, <1>5, <2>1, <2>2, ChosenStep
<1>11. SeenSafe(c)'
  BY <1>2, <1>3, <1>6 DEF CommandSafe, SeenSafe
<1>12. GatherSafe(c)'
  <2>1. Enough(c) => Enough(c)'
    BY <1>7
  <2>2. \A r \in Shards : WorksOn(w, c, r)' => r = s
    <3> TAKE r \in Shards
    <3>1. WorksOn(w, c, r)' => Serves(w, c)'
      BY WorksServesNext
    <3> QED
      BY <1>1, <1>3, <3>1 DEF WorksOn, Serves
  <2>3. ASSUME NEW q \in seen[c].steady \ cmd'[c].chosen, ShardOf[q] = s
        PROVE  s \notin cmd'[c].done /\ q \in todo'[w]
    <3>1. q \in todo[w]
      BY <1>1, <1>2, <1>3, <1>6, <1>7, <2>3 DEF CommandSafe, GatherSafe
    <3> QED
      BY <1>1, <1>3, <2>3, <3>1
  <2> QED
    BY <1>2, <1>3, <1>5, <2>1, <2>2, <2>3, GatherStep
<1>13. CommandSafe(c)'
  BY <1>6, <1>8, <1>10, <1>11, <1>12 DEF CommandSafe, CollectSafe, CountHolds
<1>14. VisitSafe(w)'
  <2>1. CASE todo[w] = {k}
    BY <1>1, <2>1 DEF VisitSafe, Begun
  <2>2. CASE todo[w] # {k}
    <3>1. job'[w] = job[w] /\ job[w] # NoTask /\ job[w].client = c /\ job[w].shard = s
      BY <1>3, <2>2 DEF HasTask, Client, Serves
    <3>2. todo'[w] \subseteq KeysOf(s) /\ todo'[w] \subseteq seen[c].ever /\ todo'[w] \cap cmd'[c].chosen = {}
      BY <1>1, <1>2, <1>3
    <3> QED
      BY <1>2, <1>3, <3>1, <3>2 DEF VisitSafe, Client
  <2> QED
    BY <2>1, <2>2
<1>15. \A d \in Clients \ {c} : cmd'[d] = cmd[d] /\ matches'[d] = matches[d]
  BY <1>3 DEF BulkInv, BulkTypeOK, Only
<1>16. cmd'[c].chosen \subseteq cmd[c].chosen \cup {k} /\ (job'[w] = job[w] \/ job'[w] = NoTask)
  BY <1>3
<1>17. \/ Resolve(w, {k})
       \/ UNCHANGED poolVars /\ Only(c, cmd[c].at, cmd[c].next) /\ cmd'[c].done = cmd[c].done
  BY <1>3
<1> QED
  BY <1>1, <1>2, <1>3, <1>4, <1>5, <1>13, <1>14, <1>15, <1>16, <1>17, TaskStepSafe

LEMMA VisitStep == ASSUME BulkInv, NEW w \in Workers, NEW k \in Keys, Visit(w, k) PROVE BulkInv'
<1>1. PICK c \in Clients, s \in Shards : HasTask(w, c, s)
  BY AtWork DEF Visit
<1>2. /\ Client(w) = c /\ k \in todo[w] /\ ~undo[w] /\ Begun(w) /\ UNCHANGED <<present, seen>>
      /\ matches' = [matches EXCEPT ![c] = @ + 1]
  BY <1>1 DEF HasTask, Visit, Begun
<1>3. CASE Reached(c)
  BY <1>1, <1>2, <1>3, VisitTooMany DEF Visit, TooMany
<1>4. CASE ~Reached(c)
  BY <1>1, <1>2, <1>4, VisitReturns DEF Visit, TooMany
<1> QED
  BY <1>3, <1>4

(* and what was too many is taken back. *)
LEMMA UndoCountSafe == ASSUME BulkInv, NEW w \in Workers, UndoCount(w) PROVE BulkInv'
<1>1. undo[w] /\ Begun(w)
  BY DEF UndoCount, Begun
<1>2. PICK c \in Clients, s \in Shards : HasTask(w, c, s)
  BY <1>1, AtWork
<1>3. /\ Client(w) = c /\ UNCHANGED <<present, todo, seen>> /\ Resolve(w, {}) /\ Serves(w, c)
      /\ matches' = [matches EXCEPT ![c] = @ - 1] /\ undo' = [undo EXCEPT ![w] = FALSE]
  BY <1>2 DEF HasTask, UndoCount
<1>4. /\ Only(c, cmd[c].at, cmd[c].next) /\ cmd'[c].op = cmd[c].op /\ cmd'[c].limit = cmd[c].limit
      /\ cmd'[c].done = cmd[c].done \cup {s} /\ cmd'[c].chosen = cmd[c].chosen
      /\ Gathers(c)' /\ (Collects(c)' <=> Collects(c)) /\ cmd'[c].at \notin {"idle", "apply", "reply"}
      /\ job'[w] = NoTask /\ ~Serves(w, c)' /\ \A x \in Workers \ {w} : job'[x] = job[x]
  <2>1. PICK K \in SUBSET Keys : K = {}
    OBVIOUS
  <2>2. Resolve(w, K) /\ cmd[c].chosen \cup K = cmd[c].chosen
    BY <1>3, <2>1
  <2> QED
    BY <1>2, <2>2, ResolveEnds
<1>5. \A x \in Workers \ {w} : Unmoved(x)
  BY <1>3, <1>4 DEF Unmoved, BulkInv, BulkTypeOK
<1>6. /\ CommandSafe(c) /\ cmd[c].at # "idle" /\ Gathers(c) /\ cmd[c].op = "getby" /\ ~Collects(c)
      /\ todo[w] = {}
  BY <1>1, <1>2, <1>3 DEF BulkInv, HasTask, Gathers, Collects, VisitSafe
<1>7. /\ Undoing(c)' = Undoing(c) \ {w} /\ w \in Undoing(c)
  <2>1. w \in Undoing(c) /\ w \notin Undoing(c)'
    BY <1>1, <1>3, <1>4 DEF Undoing
  <2> QED
    BY <1>5, <2>1, OthersWork
<1>8. /\ matches[c] = Cardinality(cmd[c].chosen) + Cardinality(Undoing(c)) /\ Enough(c)
      /\ Cardinality(cmd[c].chosen) \in Nat /\ Cardinality(Undoing(c)) \in Nat \ {0}
      /\ Cardinality(Undoing(c)') = Cardinality(Undoing(c)) - 1
  <2>1. /\ IsFiniteSet(Undoing(c)) /\ Cardinality(cmd[c].chosen) \in Nat
        /\ Cardinality(Undoing(c)) \in Nat /\ (Cardinality(Undoing(c)) = 0 <=> Undoing(c) = {})
    BY SetsFinite DEF BulkInv
  <2>2. Cardinality(Undoing(c) \ {w}) = Cardinality(Undoing(c)) - 1
    BY <1>7, <2>1, FS_RemoveElement
  <2> QED
    BY <1>6, <1>7, <2>1, <2>2 DEF CommandSafe, CountSafe
<1>9. matches'[c] = matches[c] - 1 /\ matches[c] - 1 \in Nat
  BY <1>3, <1>8 DEF BulkInv, BulkTypeOK
<1>10. BulkTypeOK'
  <2>1. matches' \in [Clients -> Nat]
    BY <1>3, <1>9 DEF BulkInv, BulkTypeOK
  <2>2. worker[w] = "busy" /\ {} \in SUBSET Keys
    BY <1>2 DEF HasTask
  <2>3. /\ tasks' \in Seq(Tasks) /\ job' \in [Workers -> Tasks \cup {NoTask}]
        /\ worker' \in [Workers -> {"ready", "waiting", "busy", "exited"}]
        /\ stopFlag' \in BOOLEAN /\ joining' \in BOOLEAN /\ cmd' \in [Clients -> Command]
    BY <1>3, <2>2, ResolveType
  <2> QED
    BY <1>3, <2>1, <2>3 DEF BulkInv, BulkTypeOK
<1>11. Enough(c)'
  BY <1>4, <1>8 DEF Enough
<1>12. CountSafe(c)'
  BY <1>4, <1>6, <1>8, <1>9, <1>11 DEF CommandSafe, CountSafe
<1>13. {} \in SUBSET Keys /\ {} \subseteq KeysOf(s) /\ cmd'[c].chosen \subseteq cmd[c].chosen \cup {}
  BY <1>4
<1>14. ChosenSafe(c)'
  <2>1. PICK K \in SUBSET Keys : K \subseteq KeysOf(s) /\ cmd'[c].chosen \subseteq cmd[c].chosen \cup K
    BY <1>13
  <2>2. s \in cmd'[c].done /\ cmd[c].done \subseteq cmd'[c].done
    BY <1>4
  <2> QED
    BY <1>2, <1>5, <2>1, <2>2, ChosenStep
<1>15. SeenSafe(c)'
  BY <1>3, <1>4, <1>6 DEF CommandSafe, SeenSafe
<1>16. CommandSafe(c)'
  BY <1>4, <1>6, <1>11, <1>12, <1>14, <1>15 DEF CommandSafe, CollectSafe, GatherSafe, CountHolds
<1>17. VisitSafe(w)'
  BY <1>3, <1>6 DEF VisitSafe, Begun, BulkInv, BulkTypeOK
<1>18. \A d \in Clients \ {c} : cmd'[d] = cmd[d] /\ matches'[d] = matches[d]
  BY <1>3, <1>4 DEF BulkInv, BulkTypeOK, Only
<1> QED
  BY <1>2, <1>3, <1>4, <1>5, <1>10, <1>13, <1>16, <1>17, <1>18, TaskStepSafe

-----------------------------------------------------------------------------
(* The theorems *)

LEMMA BulkInitSafe == BulkInit => BulkInv
<1> SUFFICES ASSUME BulkInit PROVE BulkInv
  OBVIOUS
<1>1. /\ \A c \in Clients : cmd[c] = Idle /\ matches[c] = 0 /\ seen[c] = NoWatch
      /\ \A w \in Workers : todo[w] = {} /\ ~undo[w] /\ job[w] = NoTask /\ worker[w] = "ready"
      /\ tasks = <<>> /\ stopFlag = FALSE /\ joining = FALSE
  BY DEF BulkInit, PoolInit
<1>2. \A c \in Clients : /\ cmd[c].at = "idle" /\ cmd[c].op = "none" /\ cmd[c].limit = NoLimit
                         /\ cmd[c].chosen = {} /\ ~Gathers(c)
  BY <1>1, IdleIs DEF Gathers
<1>3. BulkTypeOK
  <2>1. tasks \in Seq(Tasks) /\ present \in SUBSET Keys /\ cmd \in [Clients -> Command]
    BY <1>1, IdleIs, BulkAssumption DEF BulkInit
  <2> QED
    BY <1>1, <2>1 DEF BulkTypeOK, BulkInit, PoolInit, NoWatch
<1>4. PoolInv
  <2>1. QueueSafe
    BY <1>1 DEF QueueSafe
  <2>2. NoneLost
    BY <1>2, TaskHas DEF NoneLost, Pending
  <2>3. SleepSafe
    BY <1>1, <1>2 DEF SleepSafe
  <2>4. \A c \in Clients : StageSafe(c)
    BY <1>1, <1>2 DEF StageSafe
  <2> QED
    BY <2>1, <2>2, <2>3, <2>4 DEF PoolInv
<1>5. \A w \in Workers : VisitSafe(w)
  BY <1>1 DEF VisitSafe, Begun
<1>6. ASSUME NEW c \in Clients PROVE CommandSafe(c)
  <2>1. Undoing(c) = {}
    BY <1>1 DEF Undoing
  <2>2. CountSafe(c)
    <3>1. Cardinality(cmd[c].chosen) = 0 /\ Cardinality(Undoing(c)) = 0 /\ matches[c] = 0
      BY <1>1, <1>2, <2>1, FS_EmptySet
    <3> QED
      BY <1>2, <2>1, <3>1 DEF CountSafe
  <2> QED
    BY <1>2, <2>2 DEF CommandSafe, ChosenSafe, SeenSafe, CollectSafe, GatherSafe, CountHolds
<1> QED
  BY <1>3, <1>4, <1>5, <1>6 DEF BulkInv

LEMMA BulkStutters == ASSUME BulkInv, UNCHANGED vars PROVE BulkInv'
<1>1. UNCHANGED <<tasks, worker, job, stopFlag, joining, present, cmd, matches, todo, undo, seen>>
  BY DEF vars, poolVars, bulkVars
<1>2. BulkTypeOK'
  BY <1>1 DEF BulkInv, BulkTypeOK
<1>3. \A x \in Workers : Unmoved(x)
  BY <1>1 DEF Unmoved
<1>4. ASSUME NEW d \in Clients PROVE Untouched(d)
  <2>1. SameData(d) /\ (Gathers(d)' <=> Gathers(d)) /\ (cmd'[d].at = "idle" <=> cmd[d].at = "idle")
    BY <1>1 DEF SameData, Gathers
  <2> QED
    BY <1>1, <1>3, <2>1, QuietUntouched DEF Aside
<1>5. (\A d \in Clients : CommandSafe(d)') /\ (\A x \in Workers : VisitSafe(x)')
  BY <1>2, <1>3, <1>4, AllUntouched
<1>6. QueueSafe' /\ NoneLost' /\ SleepSafe'
  <2>1. SamePending
    BY <1>1, PendingSame DEF SamePending, SameStage
  <2>2. stopFlag => \A c \in Clients : cmd'[c].at = "idle"
    BY <1>1 DEF BulkInv, PoolInv, SleepSafe
  <2> QED
    BY <1>1, <2>1, <2>2, PoolStill DEF poolVars
<1>7. ASSUME NEW d \in Clients PROVE StageSafe(d)'
  BY <1>1, StageKept DEF BulkInv, PoolInv
<1> QED
  BY <1>2, <1>5, <1>6, <1>7 DEF BulkInv, PoolInv

LEMMA BulkNextSafe == ASSUME BulkInv, BulkNext PROVE BulkInv'
<1>1. ASSUME NEW c \in Clients, NEW g \in Gives[c], Give(c, g[1], g[2]) PROVE BulkInv'
  <2>1. g[1] \in {"getby", "setby", "delby"} /\ g[2] \in Nat \cup {NoLimit}
    BY BulkAssumption
  <2> QED
    BY <1>1, <2>1, GiveSafe
<1>2. ASSUME NEW c \in Clients, ClientStep(c) PROVE BulkInv'
  BY <1>2, EnqueueSafe, NotifySafe, CollectedSafe, ApplyOneSafe, AppliedSafe, ReplySafe DEF ClientStep
<1>3. ASSUME NEW w \in Workers, TaskStep(w) PROVE BulkInv'
  BY <1>3, MatchingKeysSafe, BulkWriteSafe, LookUpSafe, VisitStep, UndoCountSafe DEF TaskStep
<1>4. ASSUME NEW w \in Workers, TakeTask(w) \/ WakeSpuriously(w), UNCHANGED bulkVars PROVE BulkInv'
  BY <1>4, PoolStepSafe
<1>5. ASSUME NEW k \in Keys, OtherWrite(k) PROVE BulkInv'
  BY <1>5, OtherWriteSafe
<1>6. CASE Stop
  BY <1>6, PoolStepSafe DEF Stop
<1>7. CASE NotifyAll /\ UNCHANGED bulkVars
  BY <1>7, PoolStepSafe
<1>8. CASE Exited /\ UNCHANGED vars
  BY <1>8, BulkStutters
<1> QED
  BY <1>1, <1>2, <1>3, <1>4, <1>5, <1>6, <1>7, <1>8 DEF BulkNext, WorkerStep

-----------------------------------------------------------------------------
(* The keys that failed *)

(* The command of c alone changes, ... *)
LEMMA FailedOne ==
  ASSUME FailedInv, NEW c \in Clients, failed' \in [Clients -> SUBSET Keys], FailedSafe(c)',
         \A d \in Clients \ {c} : cmd'[d] = cmd[d] /\ failed'[d] = failed[d]
  PROVE  FailedInv'
<1>1. ASSUME NEW d \in Clients \ {c} PROVE FailedSafe(d)'
  BY <1>1 DEF FailedInv, FailedSafe, Gathers, Collects
<1> QED
  BY <1>1 DEF FailedInv

(* ... and fails with no key more, ... *)
LEMMA FailedStill ==
  ASSUME FailedInv, NEW c \in Clients, failed' = failed,
         \A d \in Clients \ {c} : cmd'[d] = cmd[d],
         cmd'[c].op = cmd[c].op, cmd'[c].limit = cmd[c].limit, cmd'[c].left = cmd[c].left,
         cmd[c].chosen \subseteq cmd'[c].chosen, Gathers(c)' => Gathers(c)
  PROVE  FailedInv'
<1>1. FailedSafe(c)'
  BY DEF FailedInv, FailedSafe, Collects
<1> QED
  BY <1>1, FailedOne DEF FailedInv

(* ... or with some of the keys it counts. *)
LEMMA FailedMore ==
  ASSUME FailedInv, NEW c \in Clients, NEW R \in SUBSET Keys, Fail(c, R),
         \A d \in Clients \ {c} : cmd'[d] = cmd[d],
         ~(Gathers(c)' /\ Collects(c)'), R \subseteq cmd'[c].chosen,
         cmd'[c].left \subseteq cmd[c].left, cmd[c].chosen \subseteq cmd'[c].chosen
  PROVE  FailedInv'
<1>1. /\ failed \in [Clients -> SUBSET Keys]
      /\ failed' = [failed EXCEPT ![c] = failed[c] \cup R]
  BY DEF FailedInv, Fail
<1>2. failed' \in [Clients -> SUBSET Keys] /\ failed'[c] = failed[c] \cup R
      /\ \A d \in Clients \ {c} : failed'[d] = failed[d]
  BY <1>1
<1>3. FailedSafe(c)'
  BY <1>2 DEF FailedInv, FailedSafe
<1> QED
  BY <1>2, <1>3, FailedOne

(* A step that leaves the commands and what failed as they are. *)
LEMMA FailedAside == ASSUME FailedInv, UNCHANGED <<cmd, failed>> PROVE FailedInv'
BY DEF FailedInv, FailedSafe, Gathers, Collects

LEMMA FailedClient ==
  ASSUME BulkInv, FailedInv, NEW c \in Clients, ClientStep(c) PROVE FailedInv'
<1>1. cmd \in [Clients -> Command] /\ cmd[c] \in Command /\ FailedSafe(c)
  BY DEF BulkInv, BulkTypeOK, FailedInv
<1>2. CASE Enqueue(c) \/ Notify(c) \/ Applied(c)
  <2>1. (\A d \in Clients \ {c} : cmd'[d] = cmd[d]) /\ SameData(c)
    BY <1>2, EnqueueDoes, NotifyDoes, AppliedDoes DEF Only
  <2>2. /\ cmd'[c].left = cmd[c].left /\ failed' = failed
        /\ cmd[c].at \in {"push", "notify"} \/ cmd'[c].at = "reply"
    <3>1. CASE Enqueue(c)
      BY <1>1, <3>1 DEF Enqueue, Command
    <3>2. CASE Notify(c)
      BY <1>1, <3>2 DEF Notify, Command
    <3>3. CASE Applied(c)
      BY <1>1, <3>3 DEF Applied, Command
    <3> QED
      BY <1>2, <3>1, <3>2, <3>3
  <2>3. Gathers(c)' => Gathers(c)
    BY <2>2 DEF Gathers
  <2> QED
    BY <2>1, <2>2, <2>3, FailedStill DEF SameData
<1>3. CASE Collected(c)
  <2> DEFINE K == Smallest(cmd[c].chosen, cmd[c].limit)
  <2>1. /\ \A d \in Clients \ {c} : cmd'[d] = cmd[d] /\ failed'[d] = failed[d]
        /\ cmd'[c].at \in {"apply", "reply"}
        /\ cmd'[c].chosen = (IF Collects(c) THEN K ELSE cmd[c].chosen)
        /\ failed' = failed /\ Gathers(c)
    BY <1>3, CollectedDoes DEF Only, Collected, Gathers
  <2>2. cmd'[c].left = IF Collects(c) THEN K ELSE cmd[c].left
    BY <1>1, <1>3 DEF Collected, Command
  <2>3. FailedSafe(c)'
    <3>1. failed'[c] \subseteq cmd'[c].chosen /\ cmd'[c].left \subseteq cmd'[c].chosen
      BY <1>1, <2>1, <2>2 DEF FailedSafe
    <3> QED
      BY <2>1, <3>1 DEF FailedSafe, Gathers
  <2> QED
    BY <2>1, <2>3, FailedOne DEF FailedInv
<1>4. CASE ApplyOne(c)
  <2>1. PICK k : k = CHOOSE x \in cmd[c].left : \A y \in cmd[c].left : x <= y
    OBVIOUS
  <2>2. k \in cmd[c].left
    <3>1. cmd[c].left \in SUBSET Keys /\ cmd[c].left # {}
      BY <1>1, <1>4, CommandHas DEF ApplyOne
    <3>2. \E x \in cmd[c].left : \A y \in cmd[c].left : x <= y
      BY <3>1, BulkAssumption, LeastExists
    <3> QED
      BY <2>1, <3>2
  <2>3. /\ \A d \in Clients \ {c} : cmd'[d] = cmd[d]
        /\ SameData(c) /\ cmd'[c].at = "apply" /\ cmd[c].at = "apply"
    BY <1>4, ApplyOneDoes DEF Only, ApplyOne
  <2>4. cmd'[c].left = cmd[c].left \ {k}
    <3>1. cmd' = [cmd EXCEPT ![c].left = @ \ {k}]
      BY <1>4, <2>1 DEF ApplyOne
    <3> QED
      BY <1>1, <3>1 DEF Command
  <2>5. ~(Gathers(c)' /\ Collects(c)') /\ k \in Keys /\ k \in cmd'[c].chosen
    BY <1>1, <2>2, <2>3, CommandHas DEF Gathers, FailedSafe, SameData
  <2>6. failed' = failed \/ \E R \in SUBSET {k} : Fail(c, R)
    BY <1>4, <2>1 DEF ApplyOne
  <2>7. CASE failed' = failed
    <3>1. FailedSafe(c)'
      BY <1>1, <2>3, <2>4, <2>5, <2>7 DEF FailedSafe, SameData
    <3> QED
      BY <2>3, <2>7, <3>1, FailedOne DEF FailedInv
  <2>8. ASSUME NEW R \in SUBSET {k}, Fail(c, R) PROVE FailedInv'
    <3>1. R \in SUBSET Keys /\ R \subseteq cmd'[c].chosen
      BY <2>5
    <3> QED
      BY <2>3, <2>4, <2>5, <2>8, <3>1, FailedMore DEF SameData
  <2> QED
    BY <2>6, <2>7, <2>8
<1>5. CASE Reply(c)
  <2>1. failed \in [Clients -> SUBSET Keys] /\ failed' = [failed EXCEPT ![c] = {}]
    BY <1>5 DEF Reply, FailedInv
  <2>2. (\A d \in Clients \ {c} : cmd'[d] = cmd[d] /\ failed'[d] = failed[d]) /\ cmd'[c] = Idle
    BY <1>5, <2>1, ReplyDoes DEF Only
  <2>3. failed' \in [Clients -> SUBSET Keys] /\ failed'[c] = {} /\ cmd'[c].left = {}
    BY <2>1, <2>2, IdleIs
  <2> QED
    BY <2>2, <2>3, FailedOne DEF FailedSafe
<1> QED
  BY <1>2, <1>3, <1>4, <1>5 DEF ClientStep

LEMMA FailedTask ==
  ASSUME BulkInv, FailedInv, NEW w \in Workers, TaskStep(w) PROVE FailedInv'
<1>1. PICK c \in Clients, s \in Shards : HasTask(w, c, s)
  BY AtWork DEF TaskStep, MatchingKeys, BulkWrite, LookUp, Visit, UndoCount, Begun
<1>2. /\ cmd \in [Clients -> Command] /\ cmd[c] \in Command /\ FailedSafe(c) /\ Client(w) = c
      /\ Found(w) \in SUBSET Keys
  BY <1>1 DEF BulkInv, BulkTypeOK, FailedInv, HasTask, Found
<1>3. ASSUME NEW K \in SUBSET Keys, Resolve(w, K)
      PROVE  /\ \A d \in Clients \ {c} : cmd'[d] = cmd[d]
             /\ cmd'[c].op = cmd[c].op /\ cmd'[c].limit = cmd[c].limit /\ cmd'[c].left = cmd[c].left
             /\ cmd'[c].chosen = cmd[c].chosen \cup K /\ Gathers(c)
             /\ Collects(c)' <=> Collects(c)
  <2>1. cmd'[c].left = cmd[c].left
    BY <1>2, <1>3 DEF Resolve, Command
  <2> QED
    BY <1>1, <1>3, <2>1, ResolveEnds DEF Only, HasTask
<1>4. ASSUME NEW K \in SUBSET Keys, Resolve(w, K), failed' = failed PROVE FailedInv'
  BY <1>3, <1>4, FailedStill
<1>5. CASE MatchingKeys(w)
  <2>1. Collects(c) /\ failed' = failed /\ Resolve(w, Smallest(Found(w), cmd[c].limit))
    BY <1>2, <1>5 DEF MatchingKeys
  <2>2. Smallest(Found(w), cmd[c].limit) \in SUBSET Keys
    <3>1. cmd[c].limit \in Nat
      BY <1>2, <2>1, CommandHas DEF Collects
    <3>2. PICK F \in SUBSET Keys : F = Found(w)
      BY <1>2
    <3>3. Smallest(F, cmd[c].limit) \in SUBSET Keys
      BY <3>1, SmallestIs
    <3> QED
      BY <3>2, <3>3
  <2> QED
    BY <1>4, <2>1, <2>2
<1>6. CASE BulkWrite(w)
  <2>1. Resolve(w, Found(w)) /\ ~Collects(c)
    BY <1>2, <1>6 DEF BulkWrite
  <2>2. failed' = failed \/ \E R \in SUBSET Found(w) : Fail(c, R)
    BY <1>2, <1>6 DEF BulkWrite
  <2>3. ASSUME NEW R \in SUBSET Found(w), Fail(c, R) PROVE FailedInv'
    <3>1. PICK F \in SUBSET Keys : F = Found(w)
      BY <1>2
    <3>2. /\ \A d \in Clients \ {c} : cmd'[d] = cmd[d]
          /\ cmd'[c].left = cmd[c].left /\ cmd'[c].chosen = cmd[c].chosen \cup F /\ ~Collects(c)'
      BY <1>3, <2>1, <3>1
    <3>3. R \in SUBSET Keys /\ R \subseteq cmd'[c].chosen
      BY <2>3, <3>1, <3>2
    <3> QED
      BY <2>3, <3>2, <3>3, FailedMore
  <2> QED
    BY <1>2, <1>4, <2>1, <2>2, <2>3
<1>7. CASE LookUp(w)
  <2>1. failed' = failed /\ (cmd' = cmd \/ Resolve(w, {}))
    BY <1>7 DEF LookUp
  <2>2. CASE cmd' = cmd
    BY <2>1, <2>2, FailedAside
  <2>3. CASE Resolve(w, {})
    BY <1>4, <2>1, <2>3
  <2> QED
    BY <2>1, <2>2, <2>3
<1>8. ASSUME NEW k \in Keys, Visit(w, k) PROVE FailedInv'
  <2>1. cmd[c].op = "getby"
    BY <1>2, <1>8 DEF Visit, Begun, BulkInv, VisitSafe
  <2>2. CASE UNCHANGED <<cmd, failed>>
    BY <2>2, FailedAside
  <2>3. CASE Resolve(w, {k})
    <3>1. PICK K \in SUBSET Keys : K = {k}
      OBVIOUS
    <3>2. /\ \A d \in Clients \ {c} : cmd'[d] = cmd[d]
          /\ cmd'[c].left = cmd[c].left /\ cmd'[c].chosen = cmd[c].chosen \cup K
          /\ cmd'[c].op = cmd[c].op /\ Resolve(w, K)
      BY <1>3, <2>3, <3>1
    <3>3. CASE failed' = failed
      BY <1>4, <3>2, <3>3
    <3>4. CASE Fail(c, K)
      BY <2>1, <3>2, <3>4, FailedMore DEF Collects
    <3>5. failed' = failed \/ Fail(c, K)
      BY <1>2, <1>8, <3>1 DEF Visit
    <3> QED
      BY <3>3, <3>4, <3>5
  <2>4. CASE cmd' = [cmd EXCEPT ![c].chosen = @ \cup {k}]
    <3>1. PICK K \in SUBSET Keys : K = {k}
      OBVIOUS
    <3>2. /\ \A d \in Clients \ {c} : cmd'[d] = cmd[d]
          /\ cmd'[c].left = cmd[c].left /\ cmd'[c].chosen = cmd[c].chosen \cup K
          /\ cmd'[c].op = cmd[c].op /\ cmd'[c].limit = cmd[c].limit /\ cmd'[c].at = cmd[c].at
      BY <1>2, <2>4, <3>1 DEF Command
    <3>3. CASE failed' = failed
      BY <3>2, <3>3, FailedStill DEF Gathers
    <3>4. CASE Fail(c, K)
      BY <2>1, <3>2, <3>4, FailedMore DEF Collects
    <3>5. failed' = failed \/ Fail(c, K)
      BY <1>2, <1>8, <3>1 DEF Visit
    <3> QED
      BY <3>3, <3>4, <3>5
  <2> QED
    BY <1>2, <1>8, <2>2, <2>3, <2>4 DEF Visit
<1>9. CASE UndoCount(w)
  BY <1>4, <1>9 DEF UndoCount
<1> QED
  BY <1>5, <1>6, <1>7, <1>8, <1>9 DEF TaskStep

LEMMA FailedGive ==
  ASSUME BulkInv, FailedInv, NEW c \in Clients, NEW op \in {"getby", "setby", "delby"},
         NEW lim \in Nat \cup {NoLimit}, Give(c, op, lim)
  PROVE  FailedInv'
<1>1. (\A d \in Clients \ {c} : cmd'[d] = cmd[d]) /\ cmd'[c].chosen = {}
  BY GiveDoes DEF Only
<1>2. cmd'[c].left = {}
  BY DEF Give, Idle, BulkInv, BulkTypeOK
<1>3. cmd[c] = Idle /\ failed' = failed
  BY DEF Give, BulkInv, PoolInv, StageSafe
<1>4. failed[c] = {}
  BY <1>3, IdleIs DEF FailedInv, FailedSafe
<1>5. FailedSafe(c)'
  BY <1>1, <1>2, <1>3, <1>4 DEF FailedSafe
<1> QED
  BY <1>1, <1>3, <1>5, FailedOne DEF FailedInv

LEMMA FailedNext == ASSUME BulkInv, FailedInv, [BulkNext]_vars PROVE FailedInv'
<1>1. ASSUME NEW c \in Clients, NEW g \in Gives[c], Give(c, g[1], g[2]) PROVE FailedInv'
  <2>1. g[1] \in {"getby", "setby", "delby"} /\ g[2] \in Nat \cup {NoLimit}
    BY BulkAssumption
  <2> QED
    BY <1>1, <2>1, FailedGive
<1>2. CASE UNCHANGED bulkVars
  BY <1>2, FailedAside DEF bulkVars
<1>3. ASSUME NEW k \in Keys, OtherWrite(k) PROVE FailedInv'
  BY <1>3, FailedAside DEF OtherWrite
<1> QED
  BY <1>1, <1>2, <1>3, FailedClient, FailedTask DEF BulkNext, WorkerStep, Stop, vars

(* The pool and the commands keep the invariant. *)
THEOREM BulkAlwaysSafe == BulkSpec => []BulkInv
<1>1. BulkInv /\ [BulkNext]_vars => BulkInv'
  BY BulkNextSafe, BulkStutters
<1> QED
  BY BulkInitSafe, <1>1, PTL DEF BulkSpec

(***************************************************************************)
(* enqueue and the workers neither lose nor repeat the task of a shard.    *)
(***************************************************************************)
THEOREM TasksNeverLost == BulkSpec => []TasksConserved
<1>1. ASSUME BulkInv PROVE TasksConserved
  <2> SUFFICES ASSUME NEW t \in Tasks, NEW P,
                      P = {i \in DOMAIN tasks : tasks[i] = t} \cup {w \in Workers : job[w] = t}
               PROVE  Cardinality(P) = IF Pending(t) THEN 1 ELSE 0
    BY DEF TasksConserved
  <2>1. t # NoTask /\ QueueSafe /\ NoneLost
    BY <1>1, BulkAssumption DEF BulkInv, PoolInv
  <2>2. CASE ~Pending(t)
    <3>1. P = {}
      BY <2>1, <2>2 DEF QueueSafe
    <3> QED
      BY <2>2, <3>1, FS_EmptySet
  <2>3. CASE Pending(t)
    <3>1. \E p : P = {p}
      <4>1. ASSUME NEW i \in DOMAIN tasks, tasks[i] = t PROVE P = {i}
        BY <2>1, <4>1 DEF QueueSafe
      <4>2. ASSUME NEW w \in Workers, job[w] = t PROVE P = {w}
        BY <2>1, <4>2 DEF QueueSafe
      <4> QED
        BY <2>1, <2>3, <4>1, <4>2 DEF NoneLost
    <3> QED
      BY <2>3, <3>1, FS_Singleton
  <2> QED
    BY <2>2, <2>3
<1> QED
  BY <1>1, BulkAlwaysSafe, PTL

(***************************************************************************)
(* getBy, setBy and delBy keep their limit over all shards, whatever the   *)
(* workers, the shards, the writers and the disks do; of the keys present  *)
(* all the time they pass over none while the keys they answer with and    *)
(* those they could not read or write are fewer than the limit.            *)
(***************************************************************************)
THEOREM LimitsHoldGlobally == BulkSpec => []LimitIsGlobal
<1>1. BulkInit => FailedInv
  BY IdleIs DEF BulkInit, FailedInv, FailedSafe
<1>2. BulkInv /\ FailedInv /\ [BulkNext]_vars => FailedInv'
  BY FailedNext
<1>3. ASSUME BulkInv, FailedInv PROVE LimitIsGlobal
  <2>1. ASSUME NEW c \in Clients PROVE LimitHolds(c)
    <3>1. Result(c) \cup failed[c] = cmd[c].chosen
      BY <1>3 DEF FailedInv, FailedSafe, Result
    <3>2. CountHolds(c)
      BY <1>3 DEF BulkInv, CommandSafe
    <3> QED
      BY <3>1, <3>2 DEF LimitHolds, CountHolds
  <2> QED
    BY <2>1 DEF LimitIsGlobal
<1> QED
  BY <1>1, <1>2, <1>3, BulkAlwaysSafe, PTL DEF BulkSpec

(***************************************************************************)
(* notify_one after the unlock is enough: a command never waits for a task *)
(* that nobody will take, and ~ThreadPool joins no worker that sleeps.     *)
(***************************************************************************)
THEOREM WakeUpsNeverLost == BulkSpec => []NoLostWakeUp
<1>1. ASSUME BulkInv PROVE NoLostWakeUp
  <2>1. QueueSafe /\ NoneLost /\ SleepSafe
    BY <1>1 DEF BulkInv, PoolInv
  <2>2. ASSUME NEW c \in Clients, cmd[c].at = "wait", cmd[c].done # Shards PROVE Awake
    <3>1. PICK s \in Shards : s \notin cmd[c].done
      BY <1>1, <2>2, CommandHas DEF BulkInv, BulkTypeOK
    <3>2. PICK t \in Tasks : t.client = c /\ t.shard = s
      <4>1. [client |-> c, shard |-> s] \in Tasks
        BY DEF Tasks
      <4> QED
        BY <4>1
    <3>3. Pending(t)
      BY <1>1, <2>2, <3>1, <3>2, BulkAssumption
      DEF Pending, Gathers, BulkInv, PoolInv, StageSafe, Shards
    <3>4. CASE \E i \in DOMAIN tasks : tasks[i] = t
      <4>1. tasks # <<>>
        BY <3>4
      <4> QED
        BY <2>1, <4>1 DEF SleepSafe
    <3>5. ASSUME NEW w \in Workers, job[w] = t PROVE Awake
      BY <2>1, <3>5, BulkAssumption DEF QueueSafe, Awake
    <3> QED
      BY <2>1, <3>3, <3>4, <3>5 DEF NoneLost
  <2> QED
    BY <2>1, <2>2 DEF NoLostWakeUp, SleepSafe
<1> QED
  BY <1>1, BulkAlwaysSafe, PTL
=============================================================================
