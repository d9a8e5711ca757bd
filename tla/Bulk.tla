-------------------------------- MODULE Bulk --------------------------------
(***************************************************************************)
(* The commands of ShardManager that concern all shards: getBy, setBy and  *)
(* delBy, which hand one task per shard to the pool and wait for the       *)
(* futures, and the writes of other sessions that go on meanwhile.  The    *)
(* commands choose by key, so values are left out: a shard is the set of   *)
(* its keys that are present, and all keys of the instance match the       *)
(* pattern.  A task works under its shard's readMtx, exclusive for writes: *)
(* a write is one step, and the steps of a getBy keep writers out.         *)
(***************************************************************************)
EXTENDS ThreadPool, FiniteSets

CONSTANTS
    Keys,        \* the keys that match, ordered as numbers
    NumShards,   \* shards are 1 .. NumShards
    ShardOf,     \* ShardOf[k]: the shard of k (getShardId)
    Clients,     \* the sessions that give a bulk command
    Gives,       \* Gives[c]: the commands c may give, pairs of name and limit
    NoLimit,     \* the limit of a command without "lim": UINT_MAX
    Contents,    \* the sets of keys the database may start with
    MaxCommands, \* bound: the number of bulk commands of one client
    MaxWrites    \* bound: the number of writes of other sessions

Shards == 1 .. NumShards

Tasks == [client : Clients, shard : Shards]

ASSUME BulkAssumption ==
    /\ Keys \subseteq Nat /\ IsFiniteSet(Keys)
    /\ NumShards \in Nat \ {0}
    /\ ShardOf \in [Keys -> Shards]
    /\ Gives \in [Clients -> SUBSET ({"getby", "setby", "delby"} \X (Nat \cup {NoLimit}))]
    /\ NoLimit \notin Nat
    /\ Contents \subseteq SUBSET Keys
    /\ NoTask \notin Clients \cup Tasks

VARIABLES
    present,     \* the keys that are present
    cmd,         \* cmd[c]: the bulk command of c
    matches,     \* matches[c]: globalMatchCount
    todo,        \* todo[w]: the entries a getBy task has yet to visit
    undo,        \* undo[w]: a getBy task has counted one too many
    given,       \* given[c]: the number of bulk commands c gave
    writes,      \* the number of other writes
    failed,      \* history: failed[c]: the keys c's command could not read or write
    seen         \* history, see Watch

bulkVars == <<present, cmd, matches, todo, undo, given, writes, failed, seen>>

vars == <<poolVars, bulkVars>>

KeysOf(s) == {k \in Keys : ShardOf[k] = s}

(***************************************************************************)
(* at: "idle", "push" or "notify" (in enqueue, for shard next), "wait" for *)
(* the futures of the shards not in done, "apply" (a limited write goes    *)
(* through the keys it has chosen, left are still to do), "reply".         *)
(***************************************************************************)
Idle == [op |-> "none", limit |-> NoLimit, at |-> "idle", next |-> 0, done |-> {},
         chosen |-> {}, left |-> {}]

(* setBy and delBy with a limit collect keys first. *)
Collects(c) == cmd[c].op # "getby" /\ cmd[c].limit # NoLimit

(***************************************************************************)
(* For the command of c, since it was given: steady, the keys present all  *)
(* the time but for its own deletions; ever, those present at some time.   *)
(***************************************************************************)
Watch == [steady |-> present, ever |-> present]

NoWatch == [steady |-> {}, ever |-> {}]

(* The keys present become P; by is the client that does it, if it is one. *)
Becomes(P, by) ==
    /\ present' = P
    /\ seen' = [c \in Clients |->
          IF cmd[c].at = "idle" THEN seen[c]
          ELSE [steady |-> IF c = by THEN seen[c].steady ELSE seen[c].steady \cap P,
                ever |-> seen[c].ever \cup P]]

BulkInit ==
    /\ PoolInit
    /\ present \in Contents
    /\ cmd = [c \in Clients |-> Idle]
    /\ matches = [c \in Clients |-> 0]
    /\ todo = [w \in Workers |-> {}]
    /\ undo = [w \in Workers |-> FALSE]
    /\ given = [c \in Clients |-> 0]
    /\ writes = 0
    /\ failed = [c \in Clients |-> {}]
    /\ seen = [c \in Clients |-> NoWatch]

-----------------------------------------------------------------------------
(* readMtx *)

(* The workers inside getBy of s, which hold its readMtx shared. *)
Readers(s) == {w \in Workers : worker[w] = "busy" /\ (todo[w] # {} \/ undo[w]) /\ job[w].shard = s}

ExclusiveLock(s) == Readers(s) = {}

(* set and del of another session. *)
OtherWrite(k) ==
    /\ writes < MaxWrites                       \* bound
    /\ ExclusiveLock(ShardOf[k])
    /\ \/ Becomes(present \cup {k}, NoTask)
       \/ Becomes(present \ {k}, NoTask)
    /\ writes' = writes + 1
    /\ UNCHANGED <<poolVars, cmd, matches, todo, undo, given, failed>>

-----------------------------------------------------------------------------
(* ShardManager::getBy, setBy, delBy and firstMatchingKeys *)

Give(c, op, lim) ==
    /\ given[c] < MaxCommands /\ ~stopFlag      \* bound
    /\ cmd[c].at = "idle"
    /\ cmd' = [cmd EXCEPT ![c] = [Idle EXCEPT !.op = op, !.limit = lim, !.at = "push", !.next = 1]]
    /\ given' = [given EXCEPT ![c] = @ + 1]
    /\ seen' = [seen EXCEPT ![c] = Watch]
    /\ UNCHANGED <<poolVars, present, matches, todo, undo, writes, failed>>

Enqueue(c) ==
    /\ cmd[c].at = "push"
    /\ Push([client |-> c, shard |-> cmd[c].next])
    /\ cmd' = [cmd EXCEPT ![c].at = "notify"]
    /\ UNCHANGED <<present, matches, todo, undo, given, writes, failed, seen>>

Notify(c) ==
    /\ cmd[c].at = "notify"
    /\ NotifyOne
    /\ cmd' = [cmd EXCEPT ![c].at = IF cmd[c].next < NumShards THEN "push" ELSE "wait",
                          ![c].next = @ + 1]
    /\ UNCHANGED <<present, matches, todo, undo, given, writes, failed, seen>>

(* nth_element and resize: the lim smallest of K. *)
Smallest(K, lim) ==
    IF Cardinality(K) <= lim THEN K
    ELSE CHOOSE S \in SUBSET K : Cardinality(S) = lim /\ \A k \in S, q \in K \ S : k < q

(* The futures are all ready; a limited write has its keys now. *)
Collected(c) ==
    /\ cmd[c].at = "wait" /\ cmd[c].done = Shards
    /\ LET K == Smallest(cmd[c].chosen, cmd[c].limit) IN
       cmd' = [cmd EXCEPT ![c] =
          IF Collects(c) THEN [@ EXCEPT !.at = "apply", !.chosen = K, !.left = K]
          ELSE [@ EXCEPT !.at = "reply"]]
    /\ UNCHANGED <<poolVars, present, matches, todo, undo, given, writes, failed, seen>>

(* The keys of K are not among the entries the command of c answers with. *)
Fail(c, K) == failed' = [failed EXCEPT ![c] = @ \cup K]

(***************************************************************************)
(* One key of a limited setBy or delBy, in order, with no lock in between: *)
(* its set may be refused, and its del finds nothing when it is gone.      *)
(***************************************************************************)
ApplyOne(c) ==
    /\ cmd[c].at = "apply" /\ cmd[c].left # {}
    /\ LET k == CHOOSE x \in cmd[c].left : \A y \in cmd[c].left : x <= y IN
       /\ ExclusiveLock(ShardOf[k])
       /\ \/ cmd[c].op = "setby" /\ Becomes(present \cup {k}, c) /\ UNCHANGED failed
          \/ cmd[c].op = "setby" /\ Becomes(present, c) /\ Fail(c, {k})
          \/ cmd[c].op = "delby" /\ Becomes(present \ {k}, c) /\ Fail(c, {k} \ present)
       /\ cmd' = [cmd EXCEPT ![c].left = @ \ {k}]
    /\ UNCHANGED <<poolVars, matches, todo, undo, given, writes>>

Applied(c) ==
    /\ cmd[c].at = "apply" /\ cmd[c].left = {}
    /\ cmd' = [cmd EXCEPT ![c].at = "reply"]
    /\ UNCHANGED <<poolVars, present, matches, todo, undo, given, writes, failed, seen>>

Reply(c) ==
    /\ cmd[c].at = "reply"
    /\ cmd' = [cmd EXCEPT ![c] = Idle]
    /\ matches' = [matches EXCEPT ![c] = 0]
    /\ failed' = [failed EXCEPT ![c] = {}]
    /\ seen' = [seen EXCEPT ![c] = NoWatch]
    /\ UNCHANGED <<poolVars, present, todo, undo, given, writes>>

-----------------------------------------------------------------------------
(* The tasks *)

Client(w) == job[w].client
Found(w) == present \cap KeysOf(job[w].shard)
Begun(w) == todo[w] # {} \/ undo[w]

(* The future of w's task gets its value, with the keys K. *)
Resolve(w, K) ==
    /\ TaskOver(w)
    /\ cmd' = [cmd EXCEPT ![Client(w)].done = @ \cup {job[w].shard}, ![Client(w)].chosen = @ \cup K]

(* Shard::matchingKeys keeps the smallest of its shard. *)
MatchingKeys(w) ==
    /\ worker[w] = "busy" /\ Collects(Client(w))
    /\ Resolve(w, Smallest(Found(w), cmd[Client(w)].limit))
    /\ UNCHANGED <<present, matches, todo, undo, given, writes, failed, seen>>

(***************************************************************************)
(* Shard::setBy and delBy without a limit, under the exclusive lock.  A    *)
(* setBy skips the keys whose value cannot be appended.                    *)
(***************************************************************************)
BulkWrite(w) ==
    /\ worker[w] = "busy" /\ cmd[Client(w)].op # "getby" /\ ~Collects(Client(w))
    /\ ExclusiveLock(job[w].shard)
    /\ \/ /\ cmd[Client(w)].op = "setby" /\ Becomes(present, Client(w))
          /\ \E R \in SUBSET Found(w) : Fail(Client(w), R)
       \/ /\ cmd[Client(w)].op = "delby" /\ Becomes(present \ Found(w), Client(w))
          /\ UNCHANGED failed
    /\ Resolve(w, Found(w))
    /\ UNCHANGED <<matches, todo, undo, given, writes>>

(* The limit of a getBy has been reached, by tasks of any shard. *)
Reached(c) == cmd[c].limit # NoLimit /\ matches[c] >= cmd[c].limit

(***************************************************************************)
(* Shard::getBy looks the keys up, in no particular order; its look-up     *)
(* stops early once the limit is reached.                                  *)
(***************************************************************************)
LookUp(w) ==
    /\ worker[w] = "busy" /\ cmd[Client(w)].op = "getby" /\ ~Begun(w)
    /\ \E K \in IF Reached(Client(w)) THEN SUBSET Found(w) ELSE {Found(w)} :
          IF K = {} THEN Resolve(w, {}) /\ UNCHANGED todo
          ELSE todo' = [todo EXCEPT ![w] = K] /\ UNCHANGED <<poolVars, cmd>>
    /\ UNCHANGED <<present, matches, undo, given, writes, failed, seen>>

(* Mutant: the count may reach the limit and then one more is taken. *)
TooManyOffByOne(c) == cmd[c].limit # NoLimit /\ matches[c] > cmd[c].limit

(* fetch_add returned limit or more. *)
TooMany(c) == Reached(c)

(***************************************************************************)
(* One entry of a getBy: it is counted, and if that is not too many, read  *)
(* and returned; an entry that cannot be read is skipped, and stays        *)
(* counted.                                                                *)
(***************************************************************************)
Visit(w, k) ==
    /\ worker[w] = "busy" /\ k \in todo[w] /\ ~undo[w]
    /\ matches' = [matches EXCEPT ![Client(w)] = @ + 1]
    /\ IF TooMany(Client(w))
       THEN /\ undo' = [undo EXCEPT ![w] = TRUE]
            /\ todo' = [todo EXCEPT ![w] = {}]
            /\ UNCHANGED <<poolVars, cmd, failed>>
       ELSE /\ todo' = [todo EXCEPT ![w] = @ \ {k}]
            /\ UNCHANGED undo
            /\ UNCHANGED failed \/ Fail(Client(w), {k})
            /\ IF todo[w] = {k} THEN Resolve(w, {k})
               ELSE /\ cmd' = [cmd EXCEPT ![Client(w)].chosen = @ \cup {k}]
                    /\ UNCHANGED poolVars
    /\ UNCHANGED <<present, given, writes, seen>>

(* fetch_sub, and the loop ends. *)
UndoCount(w) ==
    /\ undo[w]
    /\ matches' = [matches EXCEPT ![Client(w)] = @ - 1]
    /\ undo' = [undo EXCEPT ![w] = FALSE]
    /\ Resolve(w, {})
    /\ UNCHANGED <<present, todo, given, writes, failed, seen>>

-----------------------------------------------------------------------------
(* ~ShardManager, when all commands are over. *)
Stop == (\A c \in Clients : cmd[c].at = "idle") /\ StopPool /\ UNCHANGED bulkVars

ClientStep(c) == Enqueue(c) \/ Notify(c) \/ Collected(c) \/ ApplyOne(c) \/ Applied(c) \/ Reply(c)

TaskStep(w) ==
    MatchingKeys(w) \/ BulkWrite(w) \/ LookUp(w) \/ (\E k \in Keys : Visit(w, k)) \/ UndoCount(w)

WorkerStep(w) == (TakeTask(w) /\ UNCHANGED bulkVars) \/ TaskStep(w)

BulkNext ==
    \/ \E c \in Clients : \E g \in Gives[c] : Give(c, g[1], g[2])
    \/ \E c \in Clients : ClientStep(c)
    \/ \E w \in Workers : WorkerStep(w)
    \/ \E w \in Workers : WakeSpuriously(w) /\ UNCHANGED bulkVars
    \/ \E k \in Keys : OtherWrite(k)
    \/ Stop
    \/ NotifyAll /\ UNCHANGED bulkVars
    \/ Exited /\ UNCHANGED vars

(***************************************************************************)
(* A thread that can run does run; the lock is fair enough that a writer   *)
(* gets it when readers have left, as they must.                           *)
(***************************************************************************)
BulkSpec ==
    /\ BulkInit /\ [][BulkNext]_vars
    /\ \A c \in Clients : WF_vars(ClientStep(c))
    /\ \A w \in Workers : WF_vars(WorkerStep(w))
    /\ WF_vars(NotifyAll /\ UNCHANGED bulkVars)

-----------------------------------------------------------------------------
(* Properties *)

(* The command of c waits for its tasks, or still hands them over. *)
Gathers(c) == cmd[c].at \in {"push", "notify", "wait"}

(* The task t has been handed over and its future has no value yet. *)
Pending(t) ==
    LET m == cmd[t.client] IN
    /\ Gathers(t.client) /\ t.shard \notin m.done
    /\ t.shard < m.next \/ (t.shard = m.next /\ m.at = "notify")

(***************************************************************************)
(* The pool neither loses nor repeats a task: for a command that waits,    *)
(* the task of each shard it has handed over is in the queue, with one     *)
(* worker, or done, and in one place only.                                 *)
(***************************************************************************)
TasksConserved ==
    \A t \in Tasks :
        LET places == {i \in DOMAIN tasks : tasks[i] = t} \cup {w \in Workers : job[w] = t}
        IN Cardinality(places) = IF Pending(t) THEN 1 ELSE 0

(* The keys the answer to c is about. *)
Result(c) == cmd[c].chosen \ failed[c]

(* The command of c, whose keys are known. *)
LimitHolds(c) == cmd[c].at \in {"apply", "reply"} =>
    LET K == Result(c) \cup failed[c]
        lim == cmd[c].limit
    IN /\ K \subseteq seen[c].ever
       /\ lim # NoLimit => Cardinality(K) <= lim
       /\ lim = NoLimit \/ Cardinality(K) < lim => seen[c].steady \subseteq K
       /\ Collects(c) => \A k \in K, q \in seen[c].steady \ K : k < q

(***************************************************************************)
(* A limit holds over all shards: a command succeeds or fails with at most *)
(* limit keys, keys that were present while it ran, and if fewer, with all *)
(* that were present the whole time.  Only an entry that cannot be read or *)
(* written uses up the limit for nothing; the overshoot of fetch_add does  *)
(* not.  A limited setBy or delBy passes over no key for a larger one.     *)
(***************************************************************************)
LimitIsGlobal == \A c \in Clients : LimitHolds(c)

(* Somebody will look at the queue: a worker, or the enqueue that is about *)
(* to notify one.                                                          *)
Awake ==
    \/ \E w \in Workers : worker[w] \in {"ready", "busy"}
    \/ \E c \in Clients : cmd[c].at = "notify"

(***************************************************************************)
(* No wake-up is lost between the check of the queue and condition.wait,   *)
(* or between a push and its notify_one: a command never waits for futures *)
(* while all workers sleep or have left, and none sleeps when ~ThreadPool  *)
(* joins them.                                                             *)
(***************************************************************************)
NoLostWakeUp ==
    /\ \A c \in Clients : cmd[c].at = "wait" /\ cmd[c].done # Shards => Awake
    /\ joining => Sleepers = {}

(* Every bulk command ends: no wake-up of a worker is lost, and no task    *)
(* waits for another.                                                      *)
BulkEnds == \A c \in Clients : cmd[c].at # "idle" ~> cmd[c].at = "idle"

(* Once the pool is told to stop, all its workers leave. *)
PoolEnds == stopFlag ~> Exited

-----------------------------------------------------------------------------
(* The inductive invariant *)

Command ==
    [op : {"none", "getby", "setby", "delby"}, limit : Nat \cup {NoLimit},
     at : {"idle", "push", "notify", "wait", "apply", "reply"}, next : 0 .. NumShards + 1,
     done : SUBSET Shards, chosen : SUBSET Keys, left : SUBSET Keys]

BulkTypeOK ==
    /\ tasks \in Seq(Tasks) /\ job \in [Workers -> Tasks \cup {NoTask}]
    /\ worker \in [Workers -> {"ready", "waiting", "busy", "exited"}]
    /\ stopFlag \in BOOLEAN /\ joining \in BOOLEAN
    /\ present \in SUBSET Keys
    /\ cmd \in [Clients -> Command]
    /\ matches \in [Clients -> Nat]
    /\ todo \in [Workers -> SUBSET Keys] /\ undo \in [Workers -> BOOLEAN]
    /\ seen \in [Clients -> [steady : SUBSET Keys, ever : SUBSET Keys]]

(* How far the command of c has got. *)
StageSafe(c) ==
    /\ cmd[c].at = "idle" => cmd[c] = Idle /\ seen[c] = NoWatch
    /\ cmd[c].at \in {"push", "notify"} => cmd[c].next \in Shards /\ cmd[c].done \subseteq 1 .. cmd[c].next
    /\ cmd[c].at = "push" => cmd[c].next \notin cmd[c].done
    /\ cmd[c].at = "wait" => cmd[c].next = NumShards + 1
    /\ cmd[c].at = "apply" => Collects(c)

(* TasksConserved place by place: a task is pending and in one place, ... *)
QueueSafe ==
    /\ \A i \in DOMAIN tasks : Pending(tasks[i])
    /\ \A i, j \in DOMAIN tasks : tasks[i] = tasks[j] => i = j
    /\ \A w \in Workers : (worker[w] = "busy") <=> (job[w] # NoTask)
    /\ \A w \in Workers : job[w] # NoTask =>
          Pending(job[w]) /\ \A i \in DOMAIN tasks : tasks[i] # job[w]
    /\ \A w, x \in Workers : job[w] # NoTask /\ job[w] = job[x] => w = x

(* ... and every pending task is in one. *)
NoneLost == \A t \in Tasks :
    Pending(t) => (\E i \in DOMAIN tasks : tasks[i] = t) \/ (\E w \in Workers : job[w] = t)

(* Who sleeps, and who has left. *)
SleepSafe ==
    /\ tasks # <<>> => Awake
    /\ stopFlag => \A c \in Clients : cmd[c].at = "idle"
    /\ joining => stopFlag /\ Sleepers = {}
    /\ \A w \in Workers : worker[w] = "exited" => stopFlag

(* A worker in the middle of a getBy. *)
VisitSafe(w) == Begun(w) =>
    /\ job[w] # NoTask /\ cmd[Client(w)].op = "getby"
    /\ todo[w] \subseteq KeysOf(job[w].shard) /\ todo[w] \cap cmd[Client(w)].chosen = {}
    /\ todo[w] \subseteq seen[Client(w)].ever
    /\ undo[w] => todo[w] = {}

(* The workers that have counted one too many for c. *)
Serves(w, c) == job[w] # NoTask /\ Client(w) = c
Undoing(c) == {w \in Workers : undo[w] /\ Serves(w, c)}

(* A getBy has all the keys its limit allows. *)
Enough(c) == cmd[c].limit # NoLimit /\ Cardinality(cmd[c].chosen) >= cmd[c].limit

(***************************************************************************)
(* globalMatchCount is the number of entries returned and of those about   *)
(* to be taken back, which there are only once the limit is reached.       *)
(***************************************************************************)
CountSafe(c) ==
    /\ cmd[c].op = "getby" \/ cmd[c].at = "idle" =>
          matches[c] = Cardinality(cmd[c].chosen) + Cardinality(Undoing(c))
    /\ Undoing(c) # {} => Enough(c)
    /\ cmd[c].op = "getby" /\ cmd[c].limit # NoLimit => Cardinality(cmd[c].chosen) <= cmd[c].limit

(* Keys chosen come from tasks that are over, or in the middle of a getBy. *)
ChosenSafe(c) == Gathers(c) => \A k \in cmd[c].chosen :
    \/ ShardOf[k] \in cmd[c].done
    \/ \E w \in Workers : Begun(w) /\ job[w] = [client |-> c, shard |-> ShardOf[k]]

(* Keys present all the time can still be found where no task has been. *)
SeenSafe(c) == cmd[c].at # "idle" =>
    /\ present \subseteq seen[c].ever /\ cmd[c].chosen \subseteq seen[c].ever
    /\ Gathers(c) => \A k \in seen[c].steady : ShardOf[k] \in cmd[c].done \/ k \in present

(* What a collecting command has of a shard that is done: its smallest. *)
CollectSafe(c) == Gathers(c) /\ Collects(c) => \A s \in cmd[c].done :
    LET C == cmd[c].chosen \cap KeysOf(s)
        T == seen[c].steady \cap KeysOf(s) IN
    /\ Cardinality(C) <= cmd[c].limit
    /\ Cardinality(C) < cmd[c].limit => T \subseteq C
    /\ \A k \in C, q \in T \ C : k < q

(* The other commands pass no key over, unless a getBy has enough. *)
GatherSafe(c) == Gathers(c) /\ ~Collects(c) /\ ~Enough(c) =>
    \A k \in seen[c].steady \ cmd[c].chosen :
        /\ ShardOf[k] \notin cmd[c].done
        /\ \A w \in Workers : Begun(w) /\ job[w] = [client |-> c, shard |-> ShardOf[k]] => k \in todo[w]

(* LimitHolds of the keys counted, whether or not they could be read. *)
CountHolds(c) == cmd[c].at \in {"apply", "reply"} =>
    LET K == cmd[c].chosen
        lim == cmd[c].limit
    IN /\ K \subseteq seen[c].ever
       /\ lim # NoLimit => Cardinality(K) <= lim
       /\ lim = NoLimit \/ Cardinality(K) < lim => seen[c].steady \subseteq K
       /\ Collects(c) => \A k \in K, q \in seen[c].steady \ K : k < q

(* Keys that failed are keys counted; collecting keys does not fail. *)
FailedSafe(c) ==
    /\ failed[c] \subseteq cmd[c].chosen /\ cmd[c].left \subseteq cmd[c].chosen
    /\ Gathers(c) /\ Collects(c) => failed[c] = {}

PoolInv == QueueSafe /\ NoneLost /\ SleepSafe /\ \A c \in Clients : StageSafe(c)

CommandSafe(c) ==
    /\ CountSafe(c) /\ ChosenSafe(c) /\ SeenSafe(c)
    /\ CollectSafe(c) /\ GatherSafe(c) /\ CountHolds(c)

BulkInv ==
    /\ BulkTypeOK /\ PoolInv
    /\ \A w \in Workers : VisitSafe(w)
    /\ \A c \in Clients : CommandSafe(c)

FailedInv == failed \in [Clients -> SUBSET Keys] /\ \A c \in Clients : FailedSafe(c)
=============================================================================
