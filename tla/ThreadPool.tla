----------------------------- MODULE ThreadPool -----------------------------
(***************************************************************************)
(* ThreadPool: a queue of tasks under queueMutex, and workers that sleep   *)
(* on one condition variable.  A step is one critical section, or one      *)
(* notification, which is made after the mutex is released.  What a task   *)
(* does is left to the module that extends this one.  waitAll is called by *)
(* no part of the program and is left out, and activeTasks with it.        *)
(***************************************************************************)
EXTENDS Naturals, Sequences, FiniteSets

CONSTANTS
    Workers,     \* the threads of the pool
    NoTask       \* no task

(* ShardManager makes the pool with at least one thread. *)
ASSUME PoolAssumption == IsFiniteSet(Workers) /\ Workers # {}

VARIABLES
    tasks,       \* the queue
    worker,      \* "ready" to take queueMutex, "waiting" in condition.wait,
                 \* "busy" with a task, or "exited"
    job,         \* the task of a busy worker
    stopFlag,    \* stopFlag
    joining      \* the destructor waits for the workers to leave

poolVars == <<tasks, worker, job, stopFlag, joining>>

PoolInit ==
    /\ tasks = <<>>
    /\ worker = [w \in Workers |-> "ready"]
    /\ job = [w \in Workers |-> NoTask]
    /\ stopFlag = FALSE
    /\ joining = FALSE

(* The critical section of enqueue. *)
Push(t) == tasks' = Append(tasks, t) /\ UNCHANGED <<worker, job, stopFlag, joining>>

Sleepers == {w \in Workers : worker[w] = "waiting"}

(* Mutant: nobody is told of a new task. *)
NotifyNobody == UNCHANGED poolVars

(* condition.notify_one: one of the sleepers, if there is one. *)
NotifyOne ==
    /\ IF Sleepers = {} THEN UNCHANGED worker
       ELSE \E w \in Sleepers : worker' = [worker EXCEPT ![w] = "ready"]
    /\ UNCHANGED <<tasks, job, stopFlag, joining>>

(* A wake-up without a notification, which a condition variable may make. *)
WakeSpuriously(w) ==
    /\ worker[w] = "waiting"
    /\ worker' = [worker EXCEPT ![w] = "ready"]
    /\ UNCHANGED <<tasks, job, stopFlag, joining>>

(* Mutant: a worker copies the front task and does not remove it. *)
TakenLeft == tasks

(* What is left of the queue when its front is taken. *)
TakenOff == Tail(tasks)

(* The worker's critical section: sleep, leave or take the oldest task. *)
TakeTask(w) ==
    /\ worker[w] = "ready"
    /\ IF tasks # <<>>
       THEN /\ worker' = [worker EXCEPT ![w] = "busy"]
            /\ job' = [job EXCEPT ![w] = Head(tasks)]
            /\ tasks' = TakenOff
       ELSE /\ worker' = [worker EXCEPT ![w] = IF stopFlag THEN "exited" ELSE "waiting"]
            /\ UNCHANGED <<tasks, job>>
    /\ UNCHANGED <<stopFlag, joining>>

(* The task of w is over and its future has its value. *)
TaskOver(w) ==
    /\ worker' = [worker EXCEPT ![w] = "ready"]
    /\ job' = [job EXCEPT ![w] = NoTask]
    /\ UNCHANGED <<tasks, stopFlag, joining>>

(* ~ThreadPool sets the flag, *)
StopPool == ~stopFlag /\ stopFlag' = TRUE /\ UNCHANGED <<tasks, worker, job, joining>>

(* Mutant: one sleeper is woken, as for a task. *)
NotifyAllOnce ==
    /\ stopFlag /\ ~joining
    /\ joining' = TRUE
    /\ IF Sleepers = {} THEN UNCHANGED worker
       ELSE \E w \in Sleepers : worker' = [worker EXCEPT ![w] = "ready"]
    /\ UNCHANGED <<tasks, job, stopFlag>>

(* then wakes all sleepers, once, and joins the workers. *)
NotifyAll ==
    /\ stopFlag /\ ~joining
    /\ joining' = TRUE
    /\ worker' = [w \in Workers |-> IF w \in Sleepers THEN "ready" ELSE worker[w]]
    /\ UNCHANGED <<tasks, job, stopFlag>>

Exited == joining /\ \A w \in Workers : worker[w] = "exited"
=============================================================================
