----------------------------- MODULE ThreadPool -----------------------------
(***************************************************************************)
(* ThreadPool of common/thread_pool.h and of benchmarks/02_async_future    *)
(* and benchmarks/03_matrix_multiplication, with the threads that use it.  *)
(* The latter two wrap each task in a packaged_task and return its future  *)
(* (packaged); their client enqueues a round of tasks, waits for all the   *)
(* futures and starts over.  The former takes a plain function.  Both      *)
(* workers and clients hold queue_mutex for one block of code at a time,   *)
(* which is therefore one step; notify_one() and notify_all() come after   *)
(* the block and are steps of their own.                                   *)
(***************************************************************************)
EXTENDS Naturals, Sequences, FiniteSets, CondVar

CONSTANTS Workers, Clients,
          PerRound, Rounds, \* tasks a client enqueues in a round, and rounds
          MayThrow          \* the tasks whose function may throw

ASSUME ConstantsAssumption ==
    /\ Workers # {} /\ Workers \cap Clients = {}
    /\ IsFiniteSet(Workers) /\ IsFiniteSet(Clients)
    /\ PerRound \in Nat \ {0} /\ Rounds \in Nat \ {0}

VARIABLES packaged,     \* which of the two kinds of pool the program has
          tasks, stop,
          condition,    \* the workers blocked in condition.wait()
          wpc,          \* "wait" at the lock or the wait, "run", "returned"
          task,         \* the task a worker that runs has moved out of tasks
          cpc,          \* "enqueue", "notify", "get" (its futures), "left"
          count,        \* how many tasks each client has enqueued
          done,         \* the tasks that have run, their futures being ready
          taken,        \* the tasks each worker has taken, in order
          pool,        \* the destructor: "alive", "notify", "join", "destroyed"
          terminated    \* std::terminate() was called

poolVars == <<packaged, tasks, stop, condition, wpc, task, cpc, count, done, taken,
          pool, terminated>>

Task == Clients \X (1 .. PerRound * Rounds)
NoTask == << >>

PoolInit ==
    /\ packaged \in BOOLEAN
    /\ tasks = << >> /\ stop = FALSE
    /\ condition = {}
    /\ wpc = [w \in Workers |-> "wait"]
    /\ task = [w \in Workers |-> NoTask]
    /\ cpc = [c \in Clients |-> "enqueue"]
    /\ count = [c \in Clients |-> 0]
    /\ done = {}
    /\ taken = [w \in Workers |-> << >>]
    /\ pool = "alive"
    /\ terminated = FALSE

AtLock(w) == wpc[w] = "wait" /\ w \notin condition /\ ~terminated
-----------------------------------------------------------------------------
(* A worker *)

WaitForTask(w) ==
    /\ AtLock(w) /\ ~stop /\ tasks = << >>
    /\ condition' = condition \cup {w}
    /\ UNCHANGED <<packaged, tasks, stop, wpc, task, cpc, count, done, taken,
                   pool, terminated>>

Return(w) ==
    /\ AtLock(w) /\ stop /\ tasks = << >>
    /\ wpc' = [wpc EXCEPT ![w] = "returned"]
    /\ UNCHANGED <<packaged, tasks, stop, condition, task, cpc, count, done,
                   taken, pool, terminated>>

(* Mutant: the front is moved out and popped under two locks. *)
TakeKeeps(w) ==
    /\ AtLock(w) /\ tasks # << >>
    /\ task' = [task EXCEPT ![w] = Head(tasks)]
    /\ taken' = [taken EXCEPT ![w] = Append(@, Head(tasks))]
    /\ tasks' = IF Head(tasks) \in done THEN Tail(tasks) ELSE tasks
    /\ wpc' = [wpc EXCEPT ![w] = "run"]
    /\ UNCHANGED <<packaged, stop, condition, cpc, count, done, pool,
                   terminated>>

Take(w) ==
    /\ AtLock(w) /\ tasks # << >>
    /\ task' = [task EXCEPT ![w] = Head(tasks)]
    /\ taken' = [taken EXCEPT ![w] = Append(@, Head(tasks))]
    /\ tasks' = Tail(tasks)
    /\ wpc' = [wpc EXCEPT ![w] = "run"]
    /\ UNCHANGED <<packaged, stop, condition, cpc, count, done, pool,
                   terminated>>

(* The task returns, or its packaged_task stores what it throws. *)
Run(w) ==
    /\ wpc[w] = "run" /\ ~terminated
    /\ done' = done \cup {task[w]}
    /\ task' = [task EXCEPT ![w] = NoTask]
    /\ wpc' = [wpc EXCEPT ![w] = "wait"]
    /\ UNCHANGED <<packaged, tasks, stop, condition, cpc, count, taken, pool,
                   terminated>>

(* A plain task throws: the exception leaves the function of the thread. *)
Throw(w) ==
    /\ wpc[w] = "run" /\ ~terminated
    /\ ~packaged /\ task[w] \in MayThrow
    /\ terminated' = TRUE
    /\ UNCHANGED <<packaged, tasks, stop, condition, wpc, task, cpc, count,
                   done, taken, pool>>

WakeSpuriously(w) ==
    /\ w \in condition /\ ~terminated
    /\ condition' = condition \ {w}
    /\ UNCHANGED <<packaged, tasks, stop, wpc, task, cpc, count, done, taken,
                   pool, terminated>>
-----------------------------------------------------------------------------
(* A client *)

Enqueue(c) ==
    /\ cpc[c] = "enqueue" /\ ~terminated
    /\ tasks' = Append(tasks, <<c, count[c] + 1>>)
    /\ count' = [count EXCEPT ![c] = @ + 1]
    /\ cpc' = [cpc EXCEPT ![c] = "notify"]
    /\ UNCHANGED <<packaged, stop, condition, wpc, task, done, taken, pool,
                   terminated>>

(* Mutant: a client notifies only for the first task in the queue. *)
NotifyIfFirst(c) ==
    /\ cpc[c] = "notify" /\ ~terminated
    /\ condition' \in IF Len(tasks) = 1
                     THEN NotifyOne(condition) ELSE {condition}
    /\ cpc' = [cpc EXCEPT ![c] =
                   IF count[c] % PerRound # 0 THEN "enqueue"
                   ELSE IF packaged THEN "get" ELSE "left"]
    /\ UNCHANGED <<packaged, tasks, stop, wpc, task, count, done, taken, pool,
                   terminated>>

(* condition.notify_one(), the end of enqueue(); after a round the client   *)
(* of a packaged pool turns to its futures.                                 *)
Notify(c) ==
    /\ cpc[c] = "notify" /\ ~terminated
    /\ condition' \in NotifyOne(condition)
    /\ cpc' = [cpc EXCEPT ![c] =
                   IF count[c] % PerRound # 0 THEN "enqueue"
                   ELSE IF packaged THEN "get" ELSE "left"]
    /\ UNCHANGED <<packaged, tasks, stop, wpc, task, count, done, taken, pool,
                   terminated>>

RoundOf(c, n) == { <<c, i>> : i \in (n - PerRound + 1) .. n }

(* Mutant: the client waits for the last future of the round only. *)
GetLast(c) ==
    /\ cpc[c] = "get" /\ ~terminated
    /\ <<c, count[c]>> \in done
    /\ cpc' = [cpc EXCEPT ![c] =
                   IF count[c] = PerRound * Rounds THEN "left" ELSE "enqueue"]
    /\ UNCHANGED <<packaged, tasks, stop, condition, wpc, task, count, done,
                   taken, pool, terminated>>

(* The last wait() or get() of the round returns, all futures being ready. *)
GetAll(c) ==
    /\ cpc[c] = "get" /\ ~terminated
    /\ RoundOf(c, count[c]) \subseteq done
    /\ cpc' = [cpc EXCEPT ![c] =
                   IF count[c] = PerRound * Rounds THEN "left" ELSE "enqueue"]
    /\ UNCHANGED <<packaged, tasks, stop, condition, wpc, task, count, done,
                   taken, pool, terminated>>
-----------------------------------------------------------------------------
(* The destructor, once no client uses the pool any more *)

SetStop ==
    /\ pool = "alive" /\ \A c \in Clients : cpc[c] = "left" /\ ~terminated
    /\ stop' = TRUE
    /\ pool' = "notify"
    /\ UNCHANGED <<packaged, tasks, condition, wpc, task, cpc, count, done,
                   taken, terminated>>

(* Mutant: notify_one() instead of notify_all(). *)
NotifyOneWorker ==
    /\ pool = "notify" /\ ~terminated
    /\ condition' \in NotifyOne(condition)
    /\ pool' = "join"
    /\ UNCHANGED <<packaged, tasks, stop, wpc, task, cpc, count, done, taken,
                   terminated>>

NotifyWorkers ==
    /\ pool = "notify" /\ ~terminated
    /\ condition' = NotifyAll(condition)
    /\ pool' = "join"
    /\ UNCHANGED <<packaged, tasks, stop, wpc, task, cpc, count, done, taken,
                   terminated>>

DestroyPool ==
    /\ pool = "join" /\ \A w \in Workers : wpc[w] = "returned"
    /\ pool' = "destroyed"
    /\ UNCHANGED <<packaged, tasks, stop, condition, wpc, task, cpc, count,
                   done, taken, terminated>>

Ended == (pool = "destroyed" \/ terminated) /\ UNCHANGED poolVars

WorkerStep(w) == WaitForTask(w) \/ Return(w) \/ Take(w) \/ Run(w) \/ Throw(w)
ClientStep(c) == Enqueue(c) \/ Notify(c) \/ GetAll(c)
OwnerStep == SetStop \/ NotifyWorkers \/ DestroyPool

PoolNext ==
    \/ \E w \in Workers : WorkerStep(w) \/ WakeSpuriously(w)
    \/ \E c \in Clients : ClientStep(c)
    \/ OwnerStep \/ Ended

PoolSpec == PoolInit /\ [][PoolNext]_poolVars

(* The operating system runs every thread that can run, queue_mutex is held *)
(* for a bounded time, and tasks return or throw.                           *)
PoolFairSpec ==
    /\ PoolSpec /\ WF_poolVars(OwnerStep)
    /\ \A w \in Workers : WF_poolVars(WorkerStep(w))
    /\ \A c \in Clients : WF_poolVars(ClientStep(c))
-----------------------------------------------------------------------------
PoolTypeOK ==
    /\ packaged \in BOOLEAN /\ tasks \in Seq(Task) /\ stop \in BOOLEAN
    /\ condition \in SUBSET Workers
    /\ wpc \in [Workers -> {"wait", "run", "returned"}]
    /\ task \in [Workers -> Task \cup {NoTask}]
    /\ cpc \in [Clients -> {"enqueue", "notify", "get", "left"}]
    /\ count \in [Clients -> 0 .. PerRound * Rounds]
    /\ done \in SUBSET Task
    /\ taken \in [Workers -> Seq(Task)]
    /\ pool \in {"alive", "notify", "join", "destroyed"}
    /\ terminated \in BOOLEAN

(* No task waits in the queue while workers sleep and nobody is about to    *)
(* wake one: while a worker is blocked, every queued task is matched by an  *)
(* enqueue() that has yet to notify or by a worker that is at the lock.     *)
WakeupForTask ==
    condition # {} =>
        Len(tasks) <= Cardinality({ c \in Clients : cpc[c] = "notify" })
                      + Cardinality({ w \in Workers \ condition :
                                          wpc[w] = "wait" })

(* The pool ends only when every task that was enqueued has run, even those *)
(* still queued when stop was set.                                          *)
DestroyedWhenDrained ==
    pool = "destroyed" =>
        /\ tasks = << >>
        /\ \A c \in Clients : \A i \in 1 .. count[c] : <<c, i>> \in done

(* A packaged task captures locals of its client's round by reference: none *)
(* is queued or running once the client has gone on to the next round or    *)
(* left, when those locals are gone.                                        *)
Pending(x) ==
    \/ \E i \in DOMAIN tasks : tasks[i] = x
    \/ \E w \in Workers : task[w] = x
NoTaskOutlivesItsRound ==
    packaged => \A c \in Clients : \A i \in 1 .. count[c] :
        /\ Pending(<<c, i>>)
        => /\ cpc[c] # "left"
           /\ cpc[c] = "enqueue" => i > count[c] - (count[c] % PerRound)

(* Every task has ended by the time at which the code relies on it: the     *)
(* pool's destruction, or the end of the locals that it refers to.          *)
TasksEndInTime == DestroyedWhenDrained /\ NoTaskOutlivesItsRound

(* Each task is taken once, by one worker, in the order of the enqueue()s.  *)
Queue == INSTANCE BoundedFifo WITH
             Producers <- Clients, Consumers <- Workers,
             Quota <- [t \in Clients \cup Workers |->
                          PerRound * Rounds * Cardinality(Clients)],
             Bound <- PerRound * Rounds * Cardinality(Clients),
             queue <- tasks, sent <- count, got <- taken
TasksTakenOnceInOrder == Queue!Spec

(* The destructor returns, unless a plain task threw and ended the program  *)
(* or the library wakes the workers spuriously for ever.                    *)
PoolEnds ==
    <>[][~ \E w \in Workers : WakeSpuriously(w)]_poolVars
        => <>(pool = "destroyed" \/ terminated)
=============================================================================
