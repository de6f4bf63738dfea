---------------------------- MODULE ThreadProofs ----------------------------
(***************************************************************************)
(* Threads that meet: the pools of ThreadPool, and the mains of            *)
(* Synchronizers.                                                          *)
(*                                                                         *)
(* For any finite sets of workers and clients, any number of tasks in a    *)
(* round and of rounds, and both kinds of pool: no wakeup is lost, no task *)
(* is still to run when the code relies on its end, and the tasks are      *)
(* taken once and in order.                                                *)
(*                                                                         *)
(* For all mains, any number of threads, rounds and increments and any n   *)
(* that SizesAssumption allows: nothing that threads share is raced for or *)
(* used after its end, but for the exceptions that AccessesSafe names.     *)
(***************************************************************************)
EXTENDS ThreadPool, Synchronizers, CommonTheorems

Total == PerRound * Rounds

(* The end of the last round that is over before task num.                    *)
Base(num) == num - (num % PerRound)

(* A client that enqueues has a task left to enqueue, and one that notifies *)
(* has enqueued one; what turns to its futures does so at the end of a      *)
(* round.                                                                   *)
InRound ==
    \A c \in Clients :
        /\ cpc[c] = "enqueue" => count[c] < Total
        /\ cpc[c] = "notify" => count[c] > 0
        /\ cpc[c] = "get" => count[c] > 0 /\ count[c] % PerRound = 0

(* Blocked workers are in wait(), and the workers that run have a task.     *)
WorkersHold ==
    \A w \in Workers : /\ w \in condition => wpc[w] = "wait"
                       /\ wpc[w] = "run" <=> task[w] # NoTask

(* Once stop is set no client enqueues, once the destructor has notified no *)
(* worker is blocked, and once a worker has returned no task is left in the *)
(* queue.                                                                   *)
Closing ==
    /\ pool # "alive" => stop
    /\ stop => \A c \in Clients : cpc[c] = "left"
    /\ pool \in {"join", "destroyed"} => condition = {}
    /\ \A w \in Workers : wpc[w] = "returned" => stop /\ tasks = << >>
    /\ pool = "destroyed" => \A w \in Workers : wpc[w] = "returned"

(* A task that was enqueued is queued, running or done, and only one of the *)
(* three, in one place; nothing else is.                                    *)
Enqueued(x) == x \in Task /\ x[2] <= count[x[1]]
OnlyEnqueued ==
    /\ \A i \in DOMAIN tasks : Enqueued(tasks[i])
    /\ \A w \in Workers : task[w] # NoTask => Enqueued(task[w])
    /\ \A x \in done : Enqueued(x)
NoneLost ==
    \A c \in Clients : \A i \in 1 .. count[c] :
        Pending(<<c, i>>) \/ <<c, i>> \in done
NoneTwice ==
    /\ \A i, j \in DOMAIN tasks : tasks[i] = tasks[j] => i = j
    /\ \A w, v \in Workers : task[w] # NoTask /\ task[w] = task[v] => w = v
    /\ \A i \in DOMAIN tasks : tasks[i] \notin done
    /\ \A w \in Workers : task[w] \notin done
    /\ \A i \in DOMAIN tasks : \A w \in Workers : task[w] # tasks[i]

(* What a worker has taken is done or is what it runs, and is taken once.   *)
TakenOnce ==
    \A w \in Workers :
        /\ \A i \in DOMAIN taken[w] : taken[w][i] \in done \cup {task[w]}
        /\ \A i \in DOMAIN taken[w] : taken[w][i] # NoTask
        /\ \A i, j \in DOMAIN taken[w] : taken[w][i] = taken[w][j] => i = j

(* The tasks of a packaged pool whose round the client is through with.     *)
Through(point, num) ==
    CASE point = "enqueue" -> Base(num)
      [] point = "notify" -> Base(num - 1)
      [] point = "get" -> num - PerRound
      [] point = "left" -> num
Closed(c) == Through(cpc[c], count[c])
RoundsDone ==
    packaged => \A c \in Clients : \A i \in 1 .. Closed(c) : <<c, i>> \in done

Places == OnlyEnqueued /\ NoneLost /\ NoneTwice /\ TakenOnce

Inside == PoolTypeOK /\ InRound /\ WorkersHold /\ Closing

IInv == Inside /\ WakeupForTask /\ Places /\ RoundsDone

LEMMA Numbers ==
    /\ PerRound \in Nat \ {0} /\ Total \in Nat \ {0}
    /\ Task = Clients \X (1 .. Total)
    /\ Total % PerRound = 0
<1>1. PerRound \in Nat \ {0} /\ Rounds \in Nat \ {0}
  BY ConstantsAssumption
<1>2. \A x, y \in Nat \ {0} : x * y \in Nat \ {0}
  BY SMT
<1>3. Total \in Nat \ {0}
  BY <1>1, <1>2 DEF Total
<1>4. Total % PerRound = 0
  <2> DEFINE q == Total \div PerRound
             r == Total % PerRound
  <2>1. q \in Int /\ r \in 0 .. PerRound - 1 /\ Total = PerRound * q + r
    BY <1>1, <1>3, Division
  <2> HIDE DEF q, r
  <2>2. PerRound * (Rounds - q) = PerRound * Rounds - PerRound * q
    BY <1>1, <2>1
  <2>3. PerRound * (Rounds - q) = r
    BY <1>1, <2>1, <2>2 DEF Total
  <2>4. Rounds - q = 0
    BY <1>1, <2>1, <2>3, NoMultipleBetween
  <2>5. PerRound * (Rounds - q) = 0
    BY <1>1, <2>4
  <2> QED
    BY <2>3, <2>5 DEF r
<1> QED
  BY <1>1, <1>3, <1>4 DEF Task, Total

(* Where rounds begin and end. *)
LEMMA RoundBase ==
    ASSUME NEW num \in Nat
    PROVE  /\ num % PerRound \in Nat /\ Base(num) \in 0 .. num
           /\ num > 0 /\ num % PerRound = 0 => num >= PerRound
           /\ (num + 1) % PerRound # 0 => Base(num + 1) = Base(num)
           /\ (num + 1) % PerRound = 0 => num + 1 - PerRound = Base(num)
<1> DEFINE q == num \div PerRound
           r == num % PerRound
           p == (num + 1) \div PerRound
           s == (num + 1) % PerRound
<1>num. PerRound \in Nat \ {0}
  BY Numbers
<1>1. q \in Int /\ r \in 0 .. PerRound - 1 /\ num = PerRound * q + r
  BY <1>num, Division
<1>2. p \in Int /\ s \in 0 .. PerRound - 1 /\ num + 1 = PerRound * p + s
  <2>1. num + 1 \in Nat
    OBVIOUS
  <2> QED
    BY <1>num, <2>1, Division
<1>h. Base(num) = num - r /\ Base(num + 1) = num + 1 - s
  BY <1>num, <1>1, <1>2 DEF Base
<1> HIDE DEF q, r, p, s
<1>3. q >= 0
  <2> SUFFICES ASSUME q <= -1 PROVE FALSE
    BY <1>1
  <2>1. -q - 1 \in Nat
    BY <1>1
  <2>2. PerRound * (-q - 1) >= 0
    BY <1>num, <2>1, ProductNonnegative
  <2>3. PerRound * q = -(PerRound * (-q - 1)) - PerRound
    BY <1>num, <1>1, SMT
  <2> QED
    BY <1>num, <1>1, <2>2, <2>3
<1>4. PerRound * q >= 0
  BY <1>num, <1>1, <1>3, ProductNonnegative
<1>5. num > 0 /\ r = 0 => num >= PerRound
  <2> SUFFICES ASSUME num > 0, r = 0 PROVE num >= PerRound
    OBVIOUS
  <2>1. q # 0
    <3> SUFFICES ASSUME q = 0 PROVE FALSE
      OBVIOUS
    <3>1. PerRound * q = 0
      BY <1>num
    <3> QED
      BY <1>1, <3>1
  <2>2. q - 1 \in Nat
    BY <1>1, <1>3, <2>1
  <2>3. PerRound * (q - 1) >= 0
    BY <1>num, <2>2, ProductNonnegative
  <2>4. PerRound * (q - 1) = PerRound * q - PerRound
    BY <1>num, <1>1
  <2> QED
    BY <1>num, <1>1, <2>3, <2>4
<1>6. PerRound * (p - q) = PerRound * p - PerRound * q
  BY <1>num, <1>1, <1>2
<1>7. PerRound * (p - q) = 1 + r - s
  BY <1>num, <1>1, <1>2, <1>6
<1>8. s # 0 => s = r + 1
  <2> SUFFICES ASSUME s # 0 PROVE s = r + 1
    OBVIOUS
  <2>1. p - q = 0
    BY <1>num, <1>1, <1>2, <1>7, NoMultipleBetween
  <2>2. PerRound * (p - q) = 0
    BY <1>num, <2>1
  <2> QED
    BY <1>1, <1>2, <1>7, <2>2
<1>9. s = 0 => r = PerRound - 1
  <2> SUFFICES ASSUME s = 0 PROVE r = PerRound - 1
    OBVIOUS
  <2>1. PerRound * (p - q - 1) = PerRound * (p - q) - PerRound
    BY <1>num, <1>1, <1>2
  <2>2. PerRound * (p - q - 1) = 1 + r - PerRound
    BY <1>num, <1>1, <1>7, <2>1
  <2>3. p - q - 1 = 0
    BY <1>num, <1>1, <1>2, <2>2, NoMultipleBetween
  <2>4. PerRound * (p - q - 1) = 0
    BY <1>num, <2>3
  <2> QED
    BY <1>num, <1>1, <2>2, <2>4
<1>10. Base(num) \in 0 .. num
  BY <1>num, <1>1, <1>4, <1>h
<1> QED
  BY <1>num, <1>1, <1>2, <1>5, <1>8, <1>9, <1>10, <1>h DEF r, s

LEMMA NoTaskIsNone == \A x \in Task : x # NoTask /\ x = <<x[1], x[2]>>
  BY DEF Task, NoTask
-----------------------------------------------------------------------------
(* Types, and what each thread knows where it is *)

LEMMA InsideInit == PoolInit => Inside
<1> SUFFICES ASSUME PoolInit PROVE Inside
  OBVIOUS
<1>1. PoolTypeOK
  <2>1. tasks \in Seq(Task) /\ taken \in [Workers -> Seq(Task)]
    BY DEF PoolInit
  <2>2. count \in [Clients -> 0 .. PerRound * Rounds]
    BY Numbers DEF PoolInit, Total
  <2> QED
    BY <2>1, <2>2 DEF PoolInit, PoolTypeOK
<1>2. InRound
  BY Numbers DEF PoolInit, InRound
<1>3. WorkersHold /\ Closing
  BY DEF PoolInit, WorkersHold, Closing
<1> QED
  BY <1>1, <1>2, <1>3 DEF Inside

LEMMA InsideStep == Inside /\ [PoolNext]_poolVars => Inside'
<1> SUFFICES ASSUME Inside, [PoolNext]_poolVars PROVE Inside'
  OBVIOUS
<1> USE DEF Inside, InRound, WorkersHold, Closing
<1>num. PerRound \in Nat \ {0} /\ Total \in Nat /\ Total = PerRound * Rounds
      /\ Task = Clients \X (1 .. Total)
  BY Numbers DEF Total
<1>1. ASSUME NEW w \in Workers, WaitForTask(w) PROVE Inside'
  BY <1>1 DEF WaitForTask, AtLock, PoolTypeOK
<1>2. ASSUME NEW w \in Workers, Return(w) PROVE Inside'
  BY <1>2 DEF Return, AtLock, PoolTypeOK
<1>3. ASSUME NEW w \in Workers, Take(w) PROVE Inside'
  <2>1. Head(tasks) \in Task /\ Tail(tasks) \in Seq(Task) /\ Head(tasks) # NoTask
    BY <1>3, NoTaskIsNone DEF Take, PoolTypeOK
  <2>2. Append(taken[w], Head(tasks)) \in Seq(Task)
    BY <2>1 DEF PoolTypeOK
  <2> HIDE DEF Task, NoTask
  <2>3. PoolTypeOK'
    BY <1>3, <2>1, <2>2 DEF Take, PoolTypeOK
  <2>4. WorkersHold' /\ InRound'
    BY <1>3, <2>1 DEF Take, PoolTypeOK, AtLock
  <2>5. Closing'
    BY <1>3, <2>1 DEF Take, PoolTypeOK, AtLock
  <2> QED
    BY <2>3, <2>4, <2>5
<1>4. ASSUME NEW w \in Workers, Run(w) PROVE Inside'
  BY <1>4, NoTaskIsNone DEF Run, PoolTypeOK
<1>5. ASSUME NEW w \in Workers, Throw(w) PROVE Inside'
  BY <1>5 DEF Throw, PoolTypeOK
<1>6. ASSUME NEW w \in Workers, WakeSpuriously(w) PROVE Inside'
  BY <1>6 DEF WakeSpuriously, PoolTypeOK
<1>7. ASSUME NEW c \in Clients, Enqueue(c) PROVE Inside'
  <2>1. count[c] \in Nat /\ count[c] < Total
    BY <1>7, <1>num DEF Enqueue, PoolTypeOK
  <2>2. <<c, count[c] + 1>> \in Task
    BY <1>num, <2>1
  <2>3. Append(tasks, <<c, count[c] + 1>>) \in Seq(Task)
    BY <2>2 DEF PoolTypeOK
  <2>4. count' \in [Clients -> 0 .. PerRound * Rounds]
    BY <1>num, <1>7, <2>1 DEF Enqueue, PoolTypeOK
  <2> HIDE DEF Task
  <2>5. PoolTypeOK'
    BY <1>7, <2>3, <2>4 DEF Enqueue, PoolTypeOK
  <2>6. InRound'
    BY <1>7, <2>1 DEF Enqueue, PoolTypeOK
  <2> QED
    BY <1>7, <2>5, <2>6 DEF Enqueue, PoolTypeOK
<1>8. ASSUME NEW c \in Clients, Notify(c) PROVE Inside'
  <2>1. condition' \subseteq condition
    BY <1>8 DEF Notify, NotifyOne
  <2>2. PoolTypeOK'
    BY <1>8, <2>1 DEF Notify, PoolTypeOK
  <2>3. count[c] % PerRound # 0 => count[c] < Total
    BY <1>num, Numbers DEF PoolTypeOK
  <2>4. InRound'
    BY <1>8, <2>3 DEF Notify, PoolTypeOK
  <2>5. WorkersHold' /\ Closing'
    BY <1>8, <2>1 DEF Notify, PoolTypeOK
  <2> QED
    BY <2>2, <2>4, <2>5
<1>9. ASSUME NEW c \in Clients, GetAll(c) PROVE Inside'
  <2>1. count[c] # PerRound * Rounds => count[c] < Total
    BY <1>num DEF PoolTypeOK
  <2> QED
    BY <1>9, <2>1 DEF GetAll, PoolTypeOK
<1>10. CASE SetStop
  BY <1>10 DEF SetStop, PoolTypeOK
<1>11. CASE NotifyWorkers
  BY <1>11 DEF NotifyWorkers, NotifyAll, PoolTypeOK
<1>12. CASE DestroyPool
  BY <1>12 DEF DestroyPool, PoolTypeOK
<1>13. CASE Ended \/ UNCHANGED poolVars
  BY <1>13 DEF Ended, poolVars, PoolTypeOK
<1> QED
  BY <1>1, <1>2, <1>3, <1>4, <1>5, <1>6, <1>7, <1>8, <1>9, <1>10, <1>11,
     <1>12, <1>13 DEF PoolNext, WorkerStep, ClientStep, OwnerStep
-----------------------------------------------------------------------------
(* Wakeups *)

NotifyingClients == { c \in Clients : cpc[c] = "notify" }
AwakeWorkers == { w \in Workers \ condition : wpc[w] = "wait" }
notifying == Cardinality(NotifyingClients)
awake == Cardinality(AwakeWorkers)

LEMMA CountsFinite ==
    /\ IsFiniteSet(NotifyingClients) /\ IsFiniteSet(AwakeWorkers)
    /\ notifying \in Nat /\ awake \in Nat
<1>1. IsFiniteSet(Workers) /\ IsFiniteSet(Clients)
  BY ConstantsAssumption
<1>2. NotifyingClients \subseteq Clients /\ AwakeWorkers \subseteq Workers
  BY DEF NotifyingClients, AwakeWorkers
<1>3. IsFiniteSet(NotifyingClients) /\ IsFiniteSet(AwakeWorkers)
  BY <1>1, <1>2, FS_Subset
<1> QED
  BY <1>3, FS_CardinalityType DEF notifying, awake

(* A step changes the counts by the one client and the one worker whose     *)
(* places it changes.                                                       *)
LEMMA NotifyingMove ==
    ASSUME NEW c, \A d \in Clients \ {c} : cpc'[d] = cpc[d]
    PROVE  /\ notifying' \in Nat
           /\ c \in NotifyingClients' /\ c \notin NotifyingClients
                => notifying' = notifying + 1
           /\ c \notin NotifyingClients' /\ c \in NotifyingClients
                => notifying' = notifying - 1
           /\ (c \in NotifyingClients' <=> c \in NotifyingClients)
                => notifying' = notifying
<1>1. NotifyingClients' \ {c} = NotifyingClients \ {c}
  BY DEF NotifyingClients
<1> HIDE DEF NotifyingClients
<1> QED
  BY <1>1, CountsFinite, CardinalityMove DEF notifying

LEMMA AwakeMove ==
    ASSUME NEW w,
           \A v \in Workers \ {w} : /\ wpc'[v] = wpc[v]
                                    /\ v \in condition' <=> v \in condition
    PROVE  /\ awake' \in Nat
           /\ w \in AwakeWorkers' /\ w \notin AwakeWorkers
                => awake' = awake + 1
           /\ w \notin AwakeWorkers' /\ w \in AwakeWorkers
                => awake' = awake - 1
           /\ (w \in AwakeWorkers' <=> w \in AwakeWorkers)
                => awake' = awake
<1>1. AwakeWorkers' \ {w} = AwakeWorkers \ {w}
  BY DEF AwakeWorkers
<1> HIDE DEF AwakeWorkers
<1> QED
  BY <1>1, CountsFinite, CardinalityMove DEF awake

LEMMA WakeupStep ==
    ASSUME Inside, WakeupForTask, [PoolNext]_poolVars
    PROVE  WakeupForTask'
<1>a. /\ PoolTypeOK /\ WorkersHold
      /\ condition \subseteq Workers
      /\ condition # {} => Len(tasks) <= notifying + awake
  BY DEF Inside, WakeupForTask, PoolTypeOK, notifying, awake, NotifyingClients,
         AwakeWorkers
<1>b. notifying \in Nat /\ awake \in Nat /\ Len(tasks) \in Nat
  BY CountsFinite, <1>a DEF PoolTypeOK
<1> SUFFICES ASSUME condition' # {}
             PROVE  Len(tasks') <= notifying' + awake'
  BY DEF WakeupForTask, notifying, awake, NotifyingClients, AwakeWorkers
<1>1. ASSUME NEW w \in Workers, WaitForTask(w)
      PROVE  Len(tasks') <= notifying' + awake'
  <2>1. cpc' = cpc /\ Len(tasks') = 0
    BY <1>1 DEF WaitForTask, AtLock
  <2>2. notifying' = notifying
    BY <2>1 DEF notifying, NotifyingClients
  <2>3. \A v \in Workers \ {w} : /\ wpc'[v] = wpc[v]
                                 /\ v \in condition' <=> v \in condition
    BY <1>1 DEF WaitForTask
  <2>4. awake' \in Nat
    BY <2>3, AwakeMove
  <2>5. notifying' \in Nat
    BY <2>2, CountsFinite
  <2>6. \A m, num \in Nat : 0 <= m + num
    OBVIOUS
  <2> QED
    BY <2>1, <2>4, <2>5, <2>6, Zenon
<1>2. ASSUME NEW w \in Workers, Return(w)
      PROVE  Len(tasks') <= notifying' + awake'
  <2>1. cpc' = cpc /\ Len(tasks') = 0
    BY <1>2 DEF Return, AtLock
  <2>2. notifying' = notifying
    BY <2>1 DEF notifying, NotifyingClients
  <2>3. \A v \in Workers \ {w} : /\ wpc'[v] = wpc[v]
                                 /\ v \in condition' <=> v \in condition
    BY <1>2, <1>a DEF Return, PoolTypeOK
  <2>4. awake' \in Nat
    BY <2>3, AwakeMove
  <2>5. notifying' \in Nat
    BY <2>2, CountsFinite
  <2>6. \A m, num \in Nat : 0 <= m + num
    OBVIOUS
  <2> QED
    BY <2>1, <2>4, <2>5, <2>6, Zenon
(* The worker that takes a task no longer waits for one. *)
<1>3. ASSUME NEW w \in Workers, Take(w)
      PROVE  Len(tasks') <= notifying' + awake'
  <2>1. cpc' = cpc /\ condition' = condition /\ Len(tasks') = Len(tasks) - 1
    BY <1>3, <1>a DEF Take, PoolTypeOK
  <2>2. notifying' = notifying
    BY <2>1 DEF notifying, NotifyingClients
  <2>3. \A v \in Workers \ {w} : /\ wpc'[v] = wpc[v]
                                 /\ v \in condition' <=> v \in condition
    BY <1>3, <1>a DEF Take, PoolTypeOK
  <2>4. w \in AwakeWorkers /\ w \notin AwakeWorkers'
    BY <1>3, <1>a DEF Take, AtLock, AwakeWorkers, PoolTypeOK
  <2>5. awake' = awake - 1
    BY <2>3, <2>4, AwakeMove
  <2> QED
    BY <2>1, <2>2, <2>5, <1>a, <1>b
(* Running a task, or throwing out of it, makes no worker wait less. *)
<1>4. ASSUME NEW w \in Workers, Run(w) \/ Throw(w) \/ WakeSpuriously(w)
      PROVE  Len(tasks') <= notifying' + awake'
  <2>1. cpc' = cpc /\ condition # {} /\ tasks' = tasks
    BY <1>4 DEF Run, Throw, WakeSpuriously
  <2>2. notifying' = notifying
    BY <2>1 DEF notifying, NotifyingClients
  <2>3. \A v \in Workers \ {w} : /\ wpc'[v] = wpc[v]
                                 /\ v \in condition' <=> v \in condition
    BY <1>4, <1>a DEF Run, Throw, WakeSpuriously, PoolTypeOK
  <2>4. w \in AwakeWorkers => w \in AwakeWorkers'
    BY <1>4, <1>a DEF Run, Throw, WakeSpuriously, AwakeWorkers, PoolTypeOK
  <2>5. awake' = awake \/ awake' = awake + 1
    BY <2>3, <2>4, AwakeMove
  <2> QED
    BY <2>1, <2>2, <2>5, <1>a, <1>b
(* The client that enqueues has yet to notify. *)
<1>5. ASSUME NEW c \in Clients, Enqueue(c)
      PROVE  Len(tasks') <= notifying' + awake'
  <2>1. /\ condition' = condition /\ wpc' = wpc
        /\ Len(tasks') = Len(tasks) + 1
    BY <1>5, <1>a DEF Enqueue, PoolTypeOK
  <2>2. awake' = awake
    BY <2>1 DEF awake, AwakeWorkers
  <2>3. \A d \in Clients \ {c} : cpc'[d] = cpc[d]
    BY <1>5, <1>a DEF Enqueue, PoolTypeOK
  <2>4. c \in NotifyingClients' /\ c \notin NotifyingClients
    BY <1>5, <1>a DEF Enqueue, NotifyingClients, PoolTypeOK
  <2>5. notifying' = notifying + 1
    BY <2>3, <2>4, NotifyingMove
  <2> QED
    BY <2>1, <2>2, <2>5, <1>a, <1>b
(* When it does and there is a waiter, one worker wakes up. *)
<1>6. ASSUME NEW c \in Clients, Notify(c)
      PROVE  Len(tasks') <= notifying' + awake'
  <2>1. /\ condition' \in NotifyOne(condition) /\ wpc' = wpc /\ tasks' = tasks
        /\ condition # {}
    BY <1>6 DEF Notify, NotifyOne
  <2>2. PICK w \in condition : condition' = condition \ {w}
    BY <2>1 DEF NotifyOne
  <2>3. \A v \in Workers \ {w} : /\ wpc'[v] = wpc[v]
                                 /\ v \in condition' <=> v \in condition
    BY <2>1, <2>2
  <2>4. w \in AwakeWorkers' /\ w \notin AwakeWorkers
    BY <2>1, <2>2, <1>a DEF WorkersHold, AwakeWorkers
  <2>5. awake' = awake + 1
    BY <2>3, <2>4, AwakeMove
  <2>6. \A d \in Clients \ {c} : cpc'[d] = cpc[d]
    BY <1>6, <1>a DEF Notify, PoolTypeOK
  <2>7. c \notin NotifyingClients' /\ c \in NotifyingClients
    BY <1>6, <1>a DEF Notify, NotifyingClients, PoolTypeOK
  <2>8. notifying' = notifying - 1
    BY <2>6, <2>7, NotifyingMove
  <2> QED
    BY <2>1, <2>5, <2>8, <1>a, <1>b
<1>7. ASSUME NEW c \in Clients, GetAll(c)
      PROVE  Len(tasks') <= notifying' + awake'
  <2>1. condition' = condition /\ wpc' = wpc /\ tasks' = tasks
    BY <1>7 DEF GetAll
  <2>2. awake' = awake
    BY <2>1 DEF awake, AwakeWorkers
  <2>3. \A d \in Clients \ {c} : cpc'[d] = cpc[d]
    BY <1>7, <1>a DEF GetAll, PoolTypeOK
  <2>4. c \notin NotifyingClients' /\ c \notin NotifyingClients
    BY <1>7, <1>a DEF GetAll, NotifyingClients, PoolTypeOK
  <2>5. notifying' = notifying
    BY <2>3, <2>4, NotifyingMove
  <2> QED
    BY <2>1, <2>2, <2>5, <1>a, <1>b
<1>8. CASE SetStop \/ DestroyPool \/ Ended \/ UNCHANGED poolVars
  <2>1. UNCHANGED <<condition, wpc, cpc, tasks>>
    BY <1>8 DEF SetStop, DestroyPool, Ended, poolVars
  <2>2. notifying' = notifying /\ awake' = awake
    BY <2>1 DEF notifying, awake, NotifyingClients, AwakeWorkers
  <2> QED
    BY <2>1, <2>2, <1>a, <1>b
<1>9. CASE NotifyWorkers
  BY <1>9 DEF NotifyWorkers, NotifyAll
<1> QED
  BY <1>1, <1>2, <1>3, <1>4, <1>5, <1>6, <1>7, <1>8, <1>9
  DEF PoolNext, WorkerStep, ClientStep, OwnerStep
-----------------------------------------------------------------------------
(* Where the tasks are *)

LEMMA PlacesInit == PoolInit => Places
<1> SUFFICES ASSUME PoolInit PROVE Places
  OBVIOUS
<1>1. /\ DOMAIN tasks = {} /\ \A w \in Workers : DOMAIN taken[w] = {}
      /\ \A w \in Workers : task[w] = NoTask
      /\ done = {} /\ \A c \in Clients : count[c] = 0
  BY DEF PoolInit
<1>2. OnlyEnqueued /\ NoneTwice /\ TakenOnce
  BY <1>1 DEF OnlyEnqueued, NoneTwice, TakenOnce
<1>3. NoneLost
  BY <1>1 DEF NoneLost
<1> QED
  BY <1>2, <1>3 DEF Places

(* The front of the queue goes to the worker and the rest moves up. *)
LEMMA TakeMoves ==
    ASSUME Inside, NEW w \in Workers, Take(w)
    PROVE  /\ 1 \in DOMAIN tasks /\ Head(tasks) = tasks[1]
           /\ Head(tasks) \in Task /\ Head(tasks) # NoTask
           /\ \A i \in DOMAIN tasks' : i + 1 \in DOMAIN tasks
                                    /\ i + 1 # 1 /\ tasks'[i] = tasks[i + 1]
           /\ \A i \in DOMAIN tasks : i = 1 \/ \E j \in DOMAIN tasks' :
                                    tasks'[j] = tasks[i]
           /\ task[w] = NoTask /\ task' = [task EXCEPT ![w] = tasks[1]]
           /\ UNCHANGED <<count, done>>
<1>1. tasks \in Seq(Task) /\ tasks # << >> /\ tasks' = Tail(tasks)
  BY DEF Inside, PoolTypeOK, Take
<1>2. /\ Len(tasks) \in Nat \ {0} /\ DOMAIN tasks = 1 .. Len(tasks)
      /\ Head(tasks) = tasks[1] /\ Head(tasks) \in Task
  BY <1>1
<1>3. /\ DOMAIN tasks' = 1 .. Len(tasks) - 1
      /\ \A i \in 1 .. Len(tasks) - 1 : tasks'[i] = tasks[i + 1]
  BY <1>1
<1>4. Head(tasks) # NoTask
  BY <1>2, NoTaskIsNone
<1>5. task[w] = NoTask /\ task' = [task EXCEPT ![w] = tasks[1]]
  BY <1>2 DEF Inside, WorkersHold, Take, AtLock
<1>6. ASSUME NEW i \in DOMAIN tasks, i # 1
      PROVE  \E j \in DOMAIN tasks' : tasks'[j] = tasks[i]
  <2>1. i - 1 \in 1 .. Len(tasks) - 1 /\ (i - 1) + 1 = i
    BY <1>2, <1>6
  <2>2. tasks'[i - 1] = tasks[i]
    BY <1>3, <2>1
  <2> QED
    BY <1>3, <2>1, <2>2
<1>7. ASSUME NEW i \in DOMAIN tasks'
      PROVE  i + 1 \in DOMAIN tasks /\ i + 1 # 1 /\ tasks'[i] = tasks[i + 1]
  BY <1>2, <1>3
<1> QED
  BY <1>2, <1>4, <1>5, <1>6, <1>7 DEF Take

LEMMA PlacesTake ==
    ASSUME Inside, Inside', Places, NEW w \in Workers, Take(w)
    PROVE  Places'
<1> DEFINE x == tasks[1]
<1>a. /\ 1 \in DOMAIN tasks /\ x \in Task /\ x # NoTask
      /\ \A i \in DOMAIN tasks' : i + 1 \in DOMAIN tasks
                                    /\ i + 1 # 1 /\ tasks'[i] = tasks[i + 1]
      /\ \A i \in DOMAIN tasks : i = 1 \/ \E j \in DOMAIN tasks' :
                                    tasks'[j] = tasks[i]
      /\ task[w] = NoTask /\ task'[w] = x
      /\ \A v \in Workers \ {w} : task'[v] = task[v]
      /\ UNCHANGED <<count, done>>
  BY TakeMoves DEF Inside, PoolTypeOK
<1>b. /\ taken' = [taken EXCEPT ![w] = Append(@, x)]
      /\ taken \in [Workers -> Seq(Task)] /\ taken' \in [Workers -> Seq(Task)]
      /\ DOMAIN tasks' \subseteq Nat /\ DOMAIN tasks \subseteq Nat
  BY TakeMoves DEF Take, Inside, PoolTypeOK
<1>c. OnlyEnqueued /\ NoneLost /\ NoneTwice /\ TakenOnce
  BY DEF Places
<1> HIDE DEF x
<1>1. OnlyEnqueued'
  <2>1. Enqueued(x)
    BY <1>a, <1>c DEF OnlyEnqueued, x
  <2>2. \A i \in DOMAIN tasks' : Enqueued(tasks'[i])
    BY <1>a, <1>c DEF OnlyEnqueued
  <2>3. \A v \in Workers : task'[v] # NoTask => Enqueued(task'[v])
    BY <1>a, <1>c, <2>1 DEF OnlyEnqueued
  <2>4. \A y \in done' : Enqueued(y)
    BY <1>a, <1>c DEF OnlyEnqueued
  <2>5. count' = count
    BY <1>a
  <2> QED
    BY <2>2, <2>3, <2>4, <2>5 DEF OnlyEnqueued, Enqueued
<1>2. NoneLost'
  <2> SUFFICES ASSUME NEW c \in Clients, NEW i \in 1 .. count[c],
                      <<c, i>> \notin done
               PROVE  Pending(<<c, i>>)'
    BY <1>a DEF NoneLost
  <2> DEFINE y == <<c, i>>
  <2>1. Pending(y)
    BY <1>c DEF NoneLost
  <2>2. y # NoTask
    BY DEF NoTask
  <2> HIDE DEF y
  <2>3. ASSUME NEW j \in DOMAIN tasks, tasks[j] = y
        PROVE  \/ \E k \in DOMAIN tasks' : tasks'[k] = y
               \/ \E v \in Workers : task'[v] = y
    <3>1. CASE j = 1
      BY <1>a, <2>3, <3>1 DEF x
    <3>2. CASE j # 1
      BY <1>a, <2>3, <3>2
    <3> QED
      BY <3>1, <3>2
  <2>4. ASSUME NEW v \in Workers, task[v] = y
        PROVE  task'[v] = y
    BY <1>a, <2>2, <2>4
  <2>5. \/ \E k \in DOMAIN tasks' : tasks'[k] = y
        \/ \E v \in Workers : task'[v] = y
    BY <2>1, <2>3, <2>4 DEF Pending
  <2> QED
    BY <2>5 DEF Pending, y
<1>3. NoneTwice'
  <2>1. \A i, j \in DOMAIN tasks' : tasks'[i] = tasks'[j] => i = j
    <3> SUFFICES ASSUME NEW i \in DOMAIN tasks', NEW j \in DOMAIN tasks',
                        tasks'[i] = tasks'[j]
                 PROVE  i = j
      OBVIOUS
    <3>1. i + 1 = j + 1
      BY <1>a, <1>c DEF NoneTwice
    <3>2. i \in Nat /\ j \in Nat
      BY <1>b
    <3> QED
      BY <3>1, <3>2
  <2>2. \A u, v \in Workers : task'[u] # NoTask /\ task'[u] = task'[v] => u = v
    BY <1>a, <1>c DEF NoneTwice, x
  <2>3. /\ \A i \in DOMAIN tasks' : tasks'[i] \notin done'
        /\ \A v \in Workers : task'[v] \notin done'
    BY <1>a, <1>c DEF NoneTwice, x
  <2>4. \A i \in DOMAIN tasks' : \A v \in Workers : task'[v] # tasks'[i]
    BY <1>a, <1>c DEF NoneTwice, x
  <2> QED
    BY <2>1, <2>2, <2>3, <2>4 DEF NoneTwice
<1>4. TakenOnce'
  <2>1. ASSUME NEW v \in Workers, v # w
        PROVE  taken'[v] = taken[v] /\ task'[v] = task[v]
    BY <1>a, <1>b, <2>1
  <2> DEFINE s == taken[w]
             t == taken'[w]
  <2>2. t = Append(s, x) /\ s \in Seq(Task) /\ x \in Task
    BY <1>a, <1>b
  <2> HIDE DEF s, t
  <2>3. /\ DOMAIN s = 1 .. Len(s) /\ DOMAIN t = 1 .. Len(s) + 1
        /\ Len(s) \in Nat /\ t[Len(s) + 1] = x
        /\ \A i \in 1 .. Len(s) : t[i] = s[i]
    BY <2>2
  <2>4. \A i \in DOMAIN s : s[i] \in done /\ s[i] # NoTask /\ s[i] # x
    BY <1>a, <1>c DEF TakenOnce, NoneTwice, s, x
  <2>5. \A i, j \in DOMAIN s : s[i] = s[j] => i = j
    BY <1>c DEF TakenOnce, s
  <2>6. /\ \A i \in DOMAIN t : t[i] \in done' \cup {x} /\ t[i] # NoTask
        /\ \A i, j \in DOMAIN t : t[i] = t[j] => i = j
    BY <1>a, <2>3, <2>4, <2>5
  <2> QED
    BY <1>a, <1>c, <2>1, <2>6 DEF TakenOnce, t
<1> QED
  BY <1>1, <1>2, <1>3, <1>4 DEF Places

LEMMA PlacesRun ==
    ASSUME Inside, Inside', Places, NEW w \in Workers, Run(w)
    PROVE  Places'
<1> DEFINE x == task[w]
<1>a. /\ x \in Task /\ x # NoTask
      /\ done' = done \cup {x} /\ task'[w] = NoTask
      /\ \A v \in Workers \ {w} : task'[v] = task[v]
      /\ UNCHANGED <<tasks, count, taken>>
      /\ NoTask \notin done'
  <2>1. task[w] # NoTask /\ task[w] \in Task
    BY DEF Inside, WorkersHold, PoolTypeOK, Run
  <2>2. NoTask \notin done'
    BY NoTaskIsNone DEF Inside, PoolTypeOK
  <2> QED
    BY <2>1, <2>2 DEF Run, Inside, PoolTypeOK
<1>c. OnlyEnqueued /\ NoneLost /\ NoneTwice /\ TakenOnce
  BY DEF Places
<1>x. \A v \in Workers \ {w} : task[v] # x
  BY <1>a, <1>c DEF NoneTwice
<1>1. OnlyEnqueued'
  <2>1. /\ \A i \in DOMAIN tasks' : Enqueued(tasks'[i])
        /\ \A v \in Workers : task'[v] # NoTask => Enqueued(task'[v])
        /\ \A y \in done' : Enqueued(y)
    BY <1>a, <1>c DEF OnlyEnqueued
  <2> QED
    BY <1>a, <2>1 DEF OnlyEnqueued, Enqueued
<1> HIDE DEF x
<1>2. NoneLost'
  <2> SUFFICES ASSUME NEW c \in Clients, NEW i \in 1 .. count[c],
                      <<c, i>> \notin done'
               PROVE  Pending(<<c, i>>)'
    BY <1>a DEF NoneLost
  <2> DEFINE y == <<c, i>>
  <2>1. Pending(y) /\ y # x
    BY <1>a, <1>c DEF NoneLost
  <2> HIDE DEF y
  <2>2. \A v \in Workers : task[v] = y => task'[v] = y
    BY <1>a, <2>1 DEF x
  <2>3. \/ \E k \in DOMAIN tasks' : tasks'[k] = y
        \/ \E v \in Workers : task'[v] = y
    BY <1>a, <2>1, <2>2 DEF Pending
  <2> QED
    BY <2>3 DEF Pending, y
<1>3. NoneTwice'
  <2>1. \A i, j \in DOMAIN tasks' : tasks'[i] = tasks'[j] => i = j
    BY <1>a, <1>c DEF NoneTwice
  <2>2. \A u, v \in Workers : task'[u] # NoTask /\ task'[u] = task'[v] => u = v
    BY <1>a, <1>c DEF NoneTwice
  <2>3. \A i \in DOMAIN tasks' : tasks'[i] \notin done'
    BY <1>a, <1>c DEF NoneTwice, x
  <2>4. \A v \in Workers : task'[v] \notin done'
    BY <1>a, <1>c, <1>x DEF NoneTwice
  <2>5. \A i \in DOMAIN tasks' : \A v \in Workers : task'[v] # tasks'[i]
    <3>1. \A i \in DOMAIN tasks : tasks[i] # NoTask
      BY <1>c, NoTaskIsNone DEF OnlyEnqueued, Enqueued
    <3> QED
      BY <1>a, <1>c, <3>1 DEF NoneTwice
  <2> QED
    BY <2>1, <2>2, <2>3, <2>4, <2>5 DEF NoneTwice
<1>4. TakenOnce'
  BY <1>a, <1>c DEF TakenOnce, x
<1> QED
  BY <1>1, <1>2, <1>3, <1>4 DEF Places

LEMMA PlacesEnqueue ==
    ASSUME Inside, Inside', Places, NEW c \in Clients, Enqueue(c)
    PROVE  Places'
<1> DEFINE x == <<c, count[c] + 1>>
           num == Len(tasks)
<1>a. /\ count[c] \in Nat /\ x \in Task /\ x # NoTask /\ num \in Nat
      /\ DOMAIN tasks = 1 .. num /\ DOMAIN tasks' = 1 .. num + 1
      /\ tasks'[num + 1] = x /\ \A i \in 1 .. num : tasks'[i] = tasks[i]
      /\ UNCHANGED <<task, done, taken>>
  <2>1. /\ count[c] \in Nat /\ count[c] < Total
        /\ tasks' = Append(tasks, x) /\ tasks \in Seq(Task)
        /\ UNCHANGED <<task, done, taken>>
    BY Numbers DEF Inside, InRound, PoolTypeOK, Enqueue, Total
  <2>2. x \in Task
    BY <2>1, Numbers
  <2>3. x # NoTask
    BY <2>2, NoTaskIsNone
  <2> HIDE DEF x
  <2> QED
    BY <2>1, <2>2, <2>3
<1>c. OnlyEnqueued /\ NoneLost /\ NoneTwice /\ TakenOnce
  BY DEF Places
<1>d. /\ count \in [Clients -> Nat]
      /\ count' = [count EXCEPT ![c] = count[c] + 1]
  BY Numbers DEF Inside, PoolTypeOK, Enqueue, Total
<1>x. ~ Enqueued(x)
  BY <1>a, <1>d DEF Enqueued
<1>e. \A y : Enqueued(y) \/ y = x => y \in Task /\ y[2] <= count'[y[1]]
  <2>1. \A y \in Task : y[1] \in Clients /\ y[2] \in Nat
    BY Numbers
  <2>2. \A d \in Clients : /\ count[d] \in Nat /\ count'[d] \in Nat
                            /\ count[d] <= count'[d]
    BY <1>d
  <2>3. ASSUME NEW y, Enqueued(y)
        PROVE  y \in Task /\ y[2] <= count'[y[1]]
    <3>1. y \in Task /\ y[2] <= count[y[1]]
      BY <2>3 DEF Enqueued
    <3> QED
      BY <2>1, <2>2, <3>1
  <2>4. x \in Task /\ x[2] <= count'[x[1]]
    BY <1>a, <1>d
  <2> QED
    BY <2>3, <2>4
<1>f. \A d \in Clients : \A i \in 1 .. count'[d] :
          i \in 1 .. count[d] \/ <<d, i>> = x
  BY <1>d
<1> HIDE DEF x, num
<1>1. OnlyEnqueued'
  <2>1. \A i \in DOMAIN tasks' : Enqueued(tasks'[i]) \/ tasks'[i] = x
    BY <1>a, <1>c DEF OnlyEnqueued
  <2>2. \A v \in Workers : task'[v] # NoTask => Enqueued(task'[v])
    BY <1>a, <1>c DEF OnlyEnqueued
  <2>3. \A y \in done' : Enqueued(y)
    BY <1>a, <1>c DEF OnlyEnqueued
  <2>4. /\ \A i \in DOMAIN tasks' :
               tasks'[i] \in Task /\ tasks'[i][2] <= count'[tasks'[i][1]]
        /\ \A v \in Workers : task'[v] # NoTask =>
               task'[v] \in Task /\ task'[v][2] <= count'[task'[v][1]]
        /\ \A y \in done' : y \in Task /\ y[2] <= count'[y[1]]
    BY <1>e, <2>1, <2>2, <2>3
  <2> QED
    BY <2>4 DEF OnlyEnqueued, Enqueued
<1>2. NoneLost'
  <2> SUFFICES ASSUME NEW d \in Clients, NEW i \in 1 .. count'[d],
                      <<d, i>> \notin done'
               PROVE  Pending(<<d, i>>)'
    BY DEF NoneLost
  <2> DEFINE y == <<d, i>>
  <2>1. Pending(y) \/ y = x
    BY <1>a, <1>c, <1>f DEF NoneLost
  <2> HIDE DEF y
  <2>2. num + 1 \in DOMAIN tasks' /\ \A k \in DOMAIN tasks : k \in DOMAIN tasks'
    BY <1>a
  <2>3. \/ \E k \in DOMAIN tasks' : tasks'[k] = y
        \/ \E v \in Workers : task'[v] = y
    BY <1>a, <2>1, <2>2 DEF Pending
  <2> QED
    BY <2>3 DEF Pending, y
<1>3. NoneTwice'
  <2>1. /\ \A i \in 1 .. num : Enqueued(tasks[i])
        /\ \A v \in Workers : task[v] # NoTask => Enqueued(task[v])
        /\ \A y \in done : Enqueued(y)
    BY <1>a, <1>c DEF OnlyEnqueued
  <2>2. /\ \A i \in 1 .. num : tasks[i] # x
        /\ \A v \in Workers : task[v] # x
        /\ x \notin done
    BY <1>a, <1>x, <2>1
  <2>3. \A i, j \in DOMAIN tasks' : tasks'[i] = tasks'[j] => i = j
    <3>1. \A i, j \in 1 .. num : tasks[i] = tasks[j] => i = j
      BY <1>a, <1>c DEF NoneTwice
    <3> QED
      BY <1>a, <2>2, <3>1
  <2>4. /\ \A i \in DOMAIN tasks' : tasks'[i] \notin done'
        /\ \A i \in DOMAIN tasks' : \A v \in Workers : task'[v] # tasks'[i]
    BY <1>a, <1>c, <2>2 DEF NoneTwice
  <2>5. /\ \A u, v \in Workers : task'[u] # NoTask /\ task'[u] = task'[v] => u = v
        /\ \A v \in Workers : task'[v] \notin done'
    BY <1>a, <1>c DEF NoneTwice
  <2> QED
    BY <2>3, <2>4, <2>5 DEF NoneTwice
<1>4. TakenOnce'
  BY <1>a, <1>c DEF TakenOnce
<1> QED
  BY <1>1, <1>2, <1>3, <1>4 DEF Places

LEMMA PlacesStep == Inside /\ Inside' /\ Places /\ [PoolNext]_poolVars => Places'
<1> SUFFICES ASSUME Inside, Inside', Places, [PoolNext]_poolVars PROVE Places'
  OBVIOUS
<1>1. CASE \E w \in Workers : Take(w)
  BY <1>1, PlacesTake
<1>2. CASE \E w \in Workers : Run(w)
  BY <1>2, PlacesRun
<1>3. CASE \E c \in Clients : Enqueue(c)
  BY <1>3, PlacesEnqueue
<1>4. CASE UNCHANGED <<tasks, task, count, done, taken>>
  BY <1>4 DEF Places, OnlyEnqueued, Enqueued, NoneLost, Pending, NoneTwice,
              TakenOnce
<1>5. \/ \E w \in Workers : Take(w) \/ Run(w)
      \/ \E c \in Clients : Enqueue(c)
      \/ UNCHANGED <<tasks, task, count, done, taken>>
  BY DEF PoolNext, WorkerStep, ClientStep, OwnerStep, WaitForTask, Return, Throw,
         WakeSpuriously, Notify, GetAll, SetStop, NotifyWorkers, DestroyPool,
         Ended, poolVars
<1> QED
  BY <1>1, <1>2, <1>3, <1>4, <1>5
-----------------------------------------------------------------------------
(* Rounds *)

LEMMA RoundsInit == PoolInit => RoundsDone
<1> SUFFICES ASSUME PoolInit, NEW c \in Clients PROVE Closed(c) = 0
  BY DEF RoundsDone
<1>1. cpc[c] = "enqueue" /\ count[c] = 0
  BY DEF PoolInit
<1>2. Base(0) = 0
  BY RoundBase
<1> QED
  BY <1>1, <1>2 DEF Closed, Through

LEMMA RoundsStep ==
    ASSUME Inside, Inside', RoundsDone, [PoolNext]_poolVars
    PROVE  RoundsDone'
<1>a. /\ PoolTypeOK /\ InRound /\ PerRound \in Nat \ {0}
      /\ packaged' = packaged /\ done \subseteq done'
      /\ \A c \in Clients : count[c] \in Nat
      /\ cpc \in [Clients -> {"enqueue", "notify", "get", "left"}]
  <2>1. packaged' = packaged /\ done \subseteq done'
    BY DEF PoolNext, WorkerStep, ClientStep, OwnerStep, WaitForTask, Return, Take, Run,
           Throw, WakeSpuriously, Enqueue, Notify, GetAll, SetStop,
           NotifyWorkers, DestroyPool, Ended, poolVars
  <2>2. \A c \in Clients : count[c] \in Nat
    BY Numbers DEF Inside, PoolTypeOK, Total
  <2> QED
    BY <2>1, <2>2, Numbers DEF Inside, PoolTypeOK
<1> SUFFICES ASSUME packaged
             PROVE  \A d \in Clients : \A i \in 1 .. Closed(d)' : <<d, i>> \in done'
  BY <1>a DEF RoundsDone
<1>b. \A d \in Clients : \A i \in 1 .. Closed(d) : <<d, i>> \in done'
  BY <1>a DEF RoundsDone
(* The round that a client is in ends when it has got all the futures. *)
<1>1. ASSUME NEW c \in Clients, Enqueue(c)
      PROVE  \A d \in Clients : Closed(d)' = Closed(d)
  <2>1. /\ cpc[c] = "enqueue" /\ cpc'[c] = "notify"
        /\ count'[c] = count[c] + 1 /\ count[c] \in Nat
        /\ \A d \in Clients \ {c} : cpc'[d] = cpc[d] /\ count'[d] = count[d]
    BY <1>1, <1>a DEF Enqueue, PoolTypeOK
  <2>2. count'[c] - 1 = count[c]
    BY <2>1
  <2>3. Closed(c)' = Closed(c)
    BY <2>1, <2>2 DEF Closed, Through
  <2>4. \A d \in Clients \ {c} : Closed(d)' = Closed(d)
    BY <2>1 DEF Closed, Through
  <2> QED
    BY <2>3, <2>4
<1>2. ASSUME NEW c \in Clients, Notify(c)
      PROVE  \A d \in Clients : Closed(d)' = Closed(d)
  <2>1. /\ cpc[c] = "notify" /\ count'[c] = count[c]
        /\ cpc'[c] = IF count[c] % PerRound # 0 THEN "enqueue" ELSE "get"
        /\ \A d \in Clients \ {c} : cpc'[d] = cpc[d] /\ count'[d] = count[d]
    BY <1>2, <1>a DEF Notify, PoolTypeOK
  <2> DEFINE num == count[c] - 1
  <2>2. num \in Nat /\ count[c] = num + 1 /\ Closed(c) = Base(num)
    BY <1>a, <2>1 DEF InRound, Closed, Through
  <2> HIDE DEF num
  <2>3. /\ (num + 1) % PerRound # 0 => Base(num + 1) = Base(num)
        /\ (num + 1) % PerRound = 0 => num + 1 - PerRound = Base(num)
    BY <2>2, RoundBase
  <2>4. Closed(c)' = Closed(c)
    <3>1. Closed(c)' = Through(cpc'[c], num + 1)
      BY <2>1, <2>2 DEF Closed
    <3>2. CASE (num + 1) % PerRound # 0
      BY <2>1, <2>2, <2>3, <3>1, <3>2 DEF Through
    <3>3. CASE (num + 1) % PerRound = 0
      <4>1. cpc'[c] = "get" /\ num + 1 - PerRound = Base(num)
        BY <2>1, <2>2, <2>3, <3>3
      <4>2. Through("get", num + 1) = num + 1 - PerRound
        BY <1>a, <2>2 DEF Through
      <4> QED
        BY <2>2, <3>1, <4>1, <4>2
    <3> QED
      BY <3>2, <3>3
  <2>5. \A d \in Clients \ {c} : Closed(d)' = Closed(d)
    BY <2>1 DEF Closed, Through
  <2> QED
    BY <2>4, <2>5
<1>3. ASSUME NEW c \in Clients, GetAll(c)
      PROVE  \A d \in Clients : \A i \in 1 .. Closed(d)' : <<d, i>> \in done'
  <2>1. /\ cpc[c] = "get" /\ count' = count /\ count[c] \in Nat
        /\ cpc'[c] = "enqueue" \/ cpc'[c] = "left"
        /\ \A d \in Clients \ {c} : cpc'[d] = cpc[d]
        /\ RoundOf(c, count[c]) \subseteq done'
    BY <1>3, <1>a DEF GetAll, PoolTypeOK
  <2>2. Closed(c) = count[c] - PerRound
    BY <2>1 DEF Closed, Through
  <2>3. Closed(c)' \in 0 .. count[c]
    <3>1. Base(count[c]) \in 0 .. count[c]
      BY <2>1, RoundBase
    <3> QED
      BY <2>1, <3>1 DEF Closed, Through
  <2>4. \A i \in 1 .. count[c] : <<c, i>> \in done'
    <3> SUFFICES ASSUME NEW i \in 1 .. count[c] PROVE <<c, i>> \in done'
      OBVIOUS
    <3>1. CASE i <= count[c] - PerRound
      BY <1>b, <2>2, <3>1
    <3>2. CASE i > count[c] - PerRound
      <4>1. i \in (count[c] - PerRound + 1) .. count[c]
        BY <1>a, <2>1, <3>2
      <4> QED
        BY <2>1, <4>1 DEF RoundOf
    <3> QED
      BY <1>a, <2>1, <3>1, <3>2
  <2>5. \A i \in 1 .. Closed(c)' : <<c, i>> \in done'
    BY <2>1, <2>3, <2>4
  <2>6. \A d \in Clients \ {c} : Closed(d)' = Closed(d)
    BY <2>1 DEF Closed, Through
  <2>7. ASSUME NEW d \in Clients
        PROVE  \A i \in 1 .. Closed(d)' : <<d, i>> \in done'
    <3>1. CASE d = c
      BY <2>5, <3>1
    <3>2. CASE d # c
      BY <1>b, <2>6, <3>2
    <3> QED
      BY <3>1, <3>2
  <2> QED
    BY <2>7
<1>4. CASE UNCHANGED <<cpc, count>>
  BY <1>b, <1>4 DEF Closed, Through
<1>5. \/ \E c \in Clients : Enqueue(c) \/ Notify(c) \/ GetAll(c)
      \/ UNCHANGED <<cpc, count>>
  BY DEF PoolNext, WorkerStep, ClientStep, OwnerStep, WaitForTask, Return, Take, Run,
         Throw, WakeSpuriously, SetStop, NotifyWorkers, DestroyPool, Ended, poolVars
<1> QED
  BY <1>b, <1>1, <1>2, <1>3, <1>4, <1>5
-----------------------------------------------------------------------------
LEMMA InvInit == PoolInit => IInv
<1> SUFFICES ASSUME PoolInit PROVE IInv
  OBVIOUS
<1>1. WakeupForTask
  BY DEF PoolInit, WakeupForTask
<1> QED
  BY <1>1, InsideInit, PlacesInit, RoundsInit DEF IInv

LEMMA InvStep == IInv /\ [PoolNext]_poolVars => IInv'
  BY InsideStep, WakeupStep, PlacesStep, RoundsStep DEF IInv

LEMMA Invariance == PoolSpec => []IInv
  BY InvInit, InvStep, PTL DEF PoolSpec

(* The types of the pool's state, for any number of threads and tasks.      *)
THEOREM TypeCorrect == PoolSpec => []PoolTypeOK
<1>1. IInv => PoolTypeOK
  BY DEF IInv, Inside
<1> QED
  BY <1>1, Invariance, PTL

(* No wakeup is lost, although enqueue() notifies after it has unlocked, a  *)
(* worker may take a task that another was woken up for, and a notification *)
(* that finds no waiter is gone.                                            *)
THEOREM WakeupsKept == PoolSpec => []WakeupForTask
<1>1. IInv => WakeupForTask
  BY DEF IInv
<1> QED
  BY <1>1, Invariance, PTL

(* The destructor has every task run first, and a packaged task is over     *)
(* before the locals of its client's round that it refers to.               *)
THEOREM TasksEnd == PoolSpec => []TasksEndInTime
<1>1. IInv => DestroyedWhenDrained
  <2> SUFFICES ASSUME IInv, pool = "destroyed"
               PROVE  /\ tasks = << >>
                      /\ \A c \in Clients : \A i \in 1 .. count[c] :
                             <<c, i>> \in done
    BY DEF DestroyedWhenDrained
  <2>1. \A w \in Workers : wpc[w] = "returned"
    BY DEF IInv, Inside, Closing
  <2>2. tasks = << >>
    BY <2>1, ConstantsAssumption DEF IInv, Inside, Closing
  <2>3. \A w \in Workers : task[w] = NoTask
    BY <2>1 DEF IInv, Inside, WorkersHold
  <2>4. ASSUME NEW c \in Clients, NEW i \in 1 .. count[c]
        PROVE  <<c, i>> \in done
    <3>0. DOMAIN tasks = {} /\ <<c, i>> # NoTask
      BY <2>2 DEF NoTask
    <3>1. ~ Pending(<<c, i>>)
      BY <2>3, <3>0, Zenon DEF Pending
    <3> QED
      BY <3>1 DEF IInv, Places, NoneLost
  <2> QED
    BY <2>2, <2>4
<1>2. IInv => NoTaskOutlivesItsRound
  <2> SUFFICES ASSUME IInv, packaged, NEW c \in Clients,
                      NEW i \in 1 .. count[c], Pending(<<c, i>>)
               PROVE  /\ cpc[c] # "left"
                      /\ cpc[c] = "enqueue" => i > Base(count[c])
    BY DEF NoTaskOutlivesItsRound, Base
  <2>1. <<c, i>> \notin done
    BY DEF IInv, Places, NoneTwice, Pending
  <2>2. i \notin 1 .. Closed(c)
    BY <2>1 DEF IInv, RoundsDone
  <2>3. count[c] \in Nat /\ i \in Nat /\ i >= 1 /\ i <= count[c]
    BY Numbers DEF IInv, Inside, PoolTypeOK, Total
  <2>4. Base(count[c]) \in Nat
    BY <2>3, RoundBase
  <2>5. cpc[c] # "left"
    BY <2>2, <2>3 DEF Closed, Through
  <2>6. cpc[c] = "enqueue" => i > Base(count[c])
    BY <2>2, <2>3, <2>4 DEF Closed, Through
  <2> QED
    BY <2>5, <2>6
<1>3. IInv => TasksEndInTime
  BY <1>1, <1>2 DEF TasksEndInTime
<1> QED
  BY <1>3, Invariance, PTL
-----------------------------------------------------------------------------
(* The refinement of the FIFO *)

Capacity == PerRound * Rounds * Cardinality(Clients)

LEMMA CapacityIsTasks ==
    ASSUME NEW c \in Clients
    PROVE  /\ IsFiniteSet(Task) /\ Cardinality(Task) = Capacity
           /\ Capacity \in Nat /\ Total <= Capacity
<1> DEFINE k == Cardinality(Clients)
           numbers == 1 .. Total
<1>1. IsFiniteSet(Clients) /\ k \in Nat /\ k # 0
  <2>1. IsFiniteSet(Clients) /\ Clients # {}
    BY ConstantsAssumption
  <2> QED
    BY <2>1, FS_CardinalityType, FS_EmptySet
<1>2. Total \in Nat /\ IsFiniteSet(numbers) /\ Cardinality(numbers) = Total
  <2>1. Total \in Nat \ {0}
    BY Numbers
  <2> QED
    BY <2>1, FS_Interval
<1>3. Task = Clients \X numbers
  BY Numbers
<1>4. Capacity = Total * k
  BY DEF Capacity, Total
<1> HIDE DEF k, numbers
<1>5. IsFiniteSet(Task) /\ Cardinality(Task) = k * Total
  <2>1. /\ IsFiniteSet(Clients \X numbers)
        /\ Cardinality(Clients \X numbers)
              = Cardinality(Clients) * Cardinality(numbers)
    BY <1>1, <1>2, FS_Product
  <2> QED
    BY <1>2, <1>3, <2>1 DEF k
<1>6. k * Total = Total * k /\ Total * k \in Nat
  <2>1. \A x, y \in Nat : x * y = y * x /\ x * y \in Nat
    BY SMT
  <2> QED
    BY <1>1, <1>2, <2>1
<1>7. Total <= Total * k
  <2>1. k - 1 \in Nat
    BY <1>1
  <2>2. Total * (k - 1) >= 0
    BY <1>2, <2>1, ProductNonnegative
  <2>3. Total * (k - 1) = Total * k - Total
    BY <1>1, <1>2
  <2> QED
    BY <1>2, <1>6, <2>2, <2>3
<1> QED
  BY <1>4, <1>5, <1>6, <1>7

(* The workers and the queue take each task once and in the order of the    *)
(* enqueue()s, whatever runs, throws, waits or is notified meanwhile.       *)
THEOREM TasksTakenInOrder == PoolSpec => TasksTakenOnceInOrder
<1>1. PoolInit => Queue!Init
  BY DEF PoolInit, Queue!Init
<1>2. ASSUME IInv, [PoolNext]_poolVars PROVE [Queue!Next]_(Queue!vars)
  <2>a. /\ PoolTypeOK /\ Places /\ Inside
        /\ OnlyEnqueued /\ NoneTwice /\ TakenOnce
    BY <1>2 DEF IInv, Inside, Places
  <2>1. ASSUME NEW c \in Clients, Enqueue(c)
        PROVE  Queue!Put(c)
    <3>1. /\ tasks' = Append(tasks, <<c, count[c] + 1>>)
          /\ count' = [count EXCEPT ![c] = @ + 1] /\ taken' = taken
      BY <2>1 DEF Enqueue
    <3>2. count[c] \in Nat /\ count[c] < Total
      BY <2>1, <2>a, Numbers DEF Inside, InRound, PoolTypeOK, Enqueue, Total
    <3> DEFINE x == <<c, count[c] + 1>>
    <3>3. x \in Task /\ ~ Enqueued(x)
      BY <3>2, Numbers DEF Enqueued
    <3> HIDE DEF x
    <3>4. Len(tasks) < Cardinality(Task)
      <4>1. /\ tasks \in Seq(Task)
            /\ \A i \in DOMAIN tasks : tasks[i] # x
            /\ \A i, j \in DOMAIN tasks : tasks[i] = tasks[j] => i = j
        BY <2>a, <3>3 DEF PoolTypeOK, OnlyEnqueued, NoneTwice
      <4> QED
        BY <3>3, <4>1, CapacityIsTasks, ShorterSeq
    <3>5. Len(tasks) < Capacity
      BY <3>4, CapacityIsTasks
    <3>6. count[c] < Capacity
      <4>1. Total \in Nat /\ Capacity \in Nat /\ Total <= Capacity
        BY Numbers, CapacityIsTasks
      <4> QED
        BY <3>2, <4>1
    <3> QED
      BY <3>1, <3>5, <3>6 DEF Queue!Put, Capacity
  <2>2. ASSUME NEW w \in Workers, Take(w)
        PROVE  Queue!Take(w)
    <3>1. /\ tasks # << >> /\ tasks' = Tail(tasks) /\ count' = count
          /\ taken' = [taken EXCEPT ![w] = Append(@, Head(tasks))]
      BY <2>2 DEF Take
    <3> DEFINE x == tasks[1]
    <3>2. 1 \in DOMAIN tasks /\ x \in Task /\ x # NoTask /\ task[w] = NoTask
      BY <2>2, <2>a, TakeMoves
    <3>3. x \notin done
      BY <2>a, <3>2 DEF NoneTwice
    <3> HIDE DEF x
    <3>4. Len(taken[w]) < Cardinality(Task)
      <4>1. PICK c \in Clients : TRUE
        BY <3>2 DEF Task
      <4>2. /\ taken[w] \in Seq(Task)
            /\ \A i \in DOMAIN taken[w] : taken[w][i] # x
            /\ \A i, j \in DOMAIN taken[w] : taken[w][i] = taken[w][j] => i = j
        BY <2>a, <3>2, <3>3 DEF PoolTypeOK, TakenOnce
      <4>3. IsFiniteSet(Task)
        BY <4>1, CapacityIsTasks
      <4> QED
        BY <3>2, <4>2, <4>3, ShorterSeq
    <3>5. Len(taken[w]) < Capacity
      <4>1. PICK c \in Clients : TRUE
        BY <3>2 DEF Task
      <4> QED
        BY <3>4, <4>1, CapacityIsTasks
    <3> QED
      BY <3>1, <3>5 DEF Queue!Take, Capacity
  <2>3. CASE UNCHANGED <<tasks, count, taken>>
    BY <2>3 DEF Queue!vars
  <2>4. \/ \E w \in Workers : Take(w)
        \/ \E c \in Clients : Enqueue(c)
        \/ UNCHANGED <<tasks, count, taken>>
    BY <1>2 DEF PoolNext, WorkerStep, ClientStep, OwnerStep, WaitForTask, Return, Run,
                Throw, WakeSpuriously, Notify, GetAll, SetStop,
                NotifyWorkers, DestroyPool, Ended, poolVars
  <2> QED
    BY <2>1, <2>2, <2>3, <2>4 DEF Queue!Next
<1> QED
  BY <1>1, <1>2, Invariance, PTL DEF PoolSpec, TasksTakenOnceInOrder, Queue!Spec
-----------------------------------------------------------------------------
(* Progress *)

(* The guards of the workers' steps (a worker at the lock waits, returns or *)
(* takes a task), of the clients' and of the owner's.                       *)
WorkerCanStep(w) == ~terminated /\ (AtLock(w) \/ wpc[w] = "run")
ClientCanStep(c) ==
    ~terminated /\ \/ cpc[c] \in {"enqueue", "notify"}
                   \/ cpc[c] = "get" /\ RoundOf(c, count[c]) \subseteq done
OwnerCanStep ==
    \/ pool = "alive" /\ (\A c \in Clients : cpc[c] = "left") /\ ~terminated
    \/ pool = "notify" /\ ~terminated
    \/ pool = "join" /\ \A w \in Workers : wpc[w] = "returned"
CanStep ==
    \/ \E w \in Workers : WorkerCanStep(w)
    \/ \E c \in Clients : ClientCanStep(c)
    \/ OwnerCanStep

(* Workers, clients and the destructor never wait for each other in a       *)
(* circle: until the pool is destroyed, or a plain task has thrown, one of  *)
(* them can go on, without any spurious wakeup.                             *)
THEOREM NeverStuck == PoolSpec => [](CanStep \/ pool = "destroyed" \/ terminated)
<1>1. ASSUME IInv, pool # "destroyed", ~terminated, ~CanStep
      PROVE  FALSE
  <2>a. /\ Inside /\ PoolTypeOK /\ WorkersHold /\ Closing /\ InRound
        /\ NoneLost /\ WakeupForTask
    BY <1>1 DEF IInv, Inside, Places
  <2>1. \A w \in Workers :
            /\ wpc[w] \in {"wait", "returned"}
            /\ wpc[w] = "wait" => w \in condition
    BY <1>1, <2>a DEF CanStep, WorkerCanStep, AtLock, PoolTypeOK
  <2>2. \A c \in Clients : cpc[c] # "enqueue" /\ cpc[c] # "notify"
    BY <1>1 DEF CanStep, ClientCanStep
  <2>3. tasks = << >>
    <3>1. CASE condition # {}
      <4>1. NotifyingClients = {} /\ AwakeWorkers = {}
        BY <2>1, <2>2 DEF NotifyingClients, AwakeWorkers
      <4>2. notifying = 0 /\ awake = 0
        BY <4>1, FS_EmptySet DEF notifying, awake
      <4>3. Len(tasks) <= 0
        BY <2>a, <3>1, <4>2
        DEF WakeupForTask, notifying, awake, NotifyingClients, AwakeWorkers
      <4> QED
        BY <2>a, <4>3 DEF PoolTypeOK
    <3>2. CASE condition = {}
      <4>1. PICK w \in Workers : TRUE
        BY ConstantsAssumption
      <4>2. wpc[w] = "returned"
        BY <2>a, <2>1, <3>2 DEF PoolTypeOK
      <4> QED
        BY <2>a, <4>2 DEF Closing
    <3> QED
      BY <3>1, <3>2
  <2>4. \A c \in Clients : \A i \in 1 .. count[c] : <<c, i>> \in done
    <3>1. \A w \in Workers : task[w] = NoTask
      BY <2>a, <2>1 DEF WorkersHold
    <3>2. DOMAIN tasks = {}
      BY <2>3
    <3> SUFFICES ASSUME NEW c \in Clients, NEW i \in 1 .. count[c]
                 PROVE  <<c, i>> \in done
      OBVIOUS
    <3>3. <<c, i>> # NoTask
      BY DEF NoTask
    <3>4. ~ Pending(<<c, i>>)
      BY <3>1, <3>2, <3>3, Zenon DEF Pending
    <3> QED
      BY <2>a, <3>4 DEF NoneLost
  <2>5. \A c \in Clients : cpc[c] = "left"
    <3> SUFFICES ASSUME NEW c \in Clients, cpc[c] = "get" PROVE FALSE
      BY <2>a, <2>2 DEF PoolTypeOK
    <3>1. /\ count[c] \in Nat /\ count[c] > 0 /\ count[c] % PerRound = 0
          /\ PerRound \in Nat
      BY <2>a, Numbers DEF PoolTypeOK, Total, InRound
    <3>2. count[c] >= PerRound
      BY <3>1, RoundBase
    <3>3. \A i \in (count[c] - PerRound + 1) .. count[c] : i \in 1 .. count[c]
      BY <3>1, <3>2
    <3>4. RoundOf(c, count[c]) \subseteq done
      BY <2>4, <3>3 DEF RoundOf
    <3> QED
      BY <1>1, <3>4 DEF CanStep, ClientCanStep
  <2>6. pool = "join"
    BY <1>1, <2>a, <2>5 DEF PoolTypeOK, CanStep, OwnerCanStep
  <2>7. \A w \in Workers : wpc[w] = "returned"
    BY <2>a, <2>1, <2>6 DEF PoolTypeOK, Closing
  <2> QED
    BY <1>1, <2>6, <2>7 DEF CanStep, OwnerCanStep
<1>2. IInv => CanStep \/ pool = "destroyed" \/ terminated
  BY <1>1
<1> QED
  BY <1>2, Invariance, PTL
-----------------------------------------------------------------------------
(* Synchronizers: what the threads of all mains have in common.             *)

(* The operations that may go to another place than the next one, and those *)
(* that change the value of an object.                                      *)
Jumps == {"try_lock_for", "call_once", "thrown", "wait_for", "go", "go_unless"}
Changes == {"call_once", "returned", "thrown", "arrive", "write", "write_next", "store",
            "register", "request_stop"}
PlainWrites == {"write", "write_next", "callback"}
PlainAccesses == PlainWrites \cup {"read", "read_and_add", "wait_until"}

(* What every main is like: its threads are sequences of statements, and    *)
(* what they go to is a place of their own.                                 *)
SequenceTyped(c) ==
    /\ Len(c) \in Nat /\ DOMAIN c = 1 .. Len(c)
    /\ \A i \in DOMAIN c : c[i].op \in Jumps => c[i].target \in 1 .. Len(c) + 1
CodeTyped(c) == \A t \in DOMAIN c : SequenceTyped(c[t])

(* The objects of the main that runs.                                       *)
Objects == ObjectsOf(program)

(* All variables are functions on the threads or the objects of the main,   *)
(* every thread is at one of its places, and a mutex is held exclusively by *)
(* one thread at most and by none while others share it.                    *)
SyncBase ==
    /\ program \in Programs
    /\ pc \in [Threads -> Nat]
    /\ \A t \in Threads : pc[t] \in 1 .. Len(Code[program][t]) + 1
    /\ register = [t \in Threads |-> register[t]]
    /\ value = [o \in Objects |-> value[o]]
    /\ owner \in [Objects -> SUBSET Threads] /\ sharers \in [Objects -> SUBSET Threads]
    /\ \A m \in Objects :
         /\ \A t, u \in owner[m] : t = u
         /\ owner[m] = {} \/ sharers[m] = {}

(* The mutexes that a statement takes, shares and gives back.               *)
Takes(s) ==
    CASE s.op \in {"lock", "try_lock_for"} -> {s.object}
      [] s.op = "lock_both" -> {s.object, s.value}
      [] s.op = "wait_until" -> {s.target}
      [] OTHER -> {}
Gives(s) ==
    CASE s.op \in {"unlock", "unlock_shared"} -> {s.object}
      [] s.op = "lock_both" -> {s.object, s.value}
      [] s.op = "wait_until" -> {s.target}
      [] OTHER -> {}

(* What a step of thread t may do: one statement, and nothing to the place  *)
(* and the register of another thread.                                      *)
Moves(t) ==
    /\ \A u \in Threads \ {t} : pc'[u] = pc[u] /\ register'[u] = register[u]
    /\ \/ pc'[t] = pc[t] + 1
       \/ pc'[t] = pc[t] /\ Current(t).op \in {"wait_until", "lock_both"}
       \/ pc'[t] = Current(t).target /\ Current(t).op \in Jumps

(* What a step that waits has waited for.                                   *)
Waits(t) ==
    LET s == Current(t) IN
    /\ s.op = "await_latch" => value[s.object] >= s.value
    /\ s.op = "wait_for" /\ pc'[t] # s.target => value[s.object] >= s.value
    /\ s.op = "await_phase" => value[s.object] \div s.value # register[t]
    /\ s.op = "join" => \A u \in Threads \ {t} : AtEnd(u)
    /\ s.op = "join_thread" => AtEnd(s.value)

(* What a step does to the values and the lifetimes of objects.             *)
Sets(t) ==
    LET s == Current(t) IN
    /\ \A o \in Objects : o # s.object \/ s.op \notin Changes => value'[o] = value[o]
    /\ s.op = "arrive" => /\ value'[s.object] = value[s.object] + 1
                          /\ register'[t] = value[s.object] \div s.value
    /\ dead' = (IF s.op = "destroy" THEN dead \cup {s.object} ELSE dead)

(* What a step does to each mutex: leave it, take it while it is free, share*)
(* it, or give up the own part of it.                                       *)
Locks(t) ==
    \A m \in Objects :
      /\ \/ owner'[m] = owner[m]
         \/ owner[m] = {} /\ sharers[m] = {} /\ owner'[m] = {t} /\ m \in Takes(Current(t))
         \/ owner'[m] = owner[m] \ {t} /\ m \in Gives(Current(t))
      /\ \/ sharers'[m] = sharers[m]
         \/ owner[m] = {} /\ owner'[m] = {} /\ sharers'[m] = sharers[m] \cup {t}
         \/ sharers'[m] = sharers[m] \ {t} /\ m \in Gives(Current(t))
      /\ m \in Takes(Current(t)) /\ Current(t).op # "wait_until" /\ pc'[t] = pc[t] + 1
           /\ (Current(t).op = "try_lock_for" => pc'[t] # Current(t).target)
           => owner'[m] = {t}
      /\ Current(t).op = "lock_shared" /\ m = Current(t).object => t \in sharers'[m]
      /\ Current(t).op = "wait_until" /\ m = Current(t).target /\ pc'[t] # pc[t]
           => t \in owner[m] /\ owner'[m] = owner[m]

(* Every variable is a function on the same set as before. *)
Stays ==
    /\ pc' \in [Threads -> Nat] /\ register' = [u \in Threads |-> register'[u]]
    /\ value' = [o \in Objects |-> value'[o]]
    /\ owner' \in [Objects -> SUBSET Threads] /\ sharers' \in [Objects -> SUBSET Threads]

(* A step of thread t, without the 25 actions that it may be.               *)
Steps(t) ==
    /\ t \in Threads /\ program' = program
    /\ pc[t] \in DOMAIN Code[program][t]
    /\ Current(t).object \in Objects
    /\ Stays /\ Moves(t) /\ Waits(t) /\ Sets(t) /\ Locks(t)

(* Steps that do no more than wake a waiter. *)
Idles == UNCHANGED <<program, pc, register, value, owner, sharers, dead, printed>>

(* A thread that is not at its end is at a statement.                       *)
LEMMA AtStatement ==
    ASSUME SyncBase, CodeTyped(Code[program]), NEW t \in Threads, ~ AtEnd(t)
    PROVE  /\ pc[t] \in DOMAIN Code[program][t] /\ pc[t] \in 1 .. Len(Code[program][t])
           /\ Len(Code[program][t]) \in Nat
           /\ Current(t).object \in Objects
           /\ Current(t).op \in Jumps => Current(t).target \in 1 .. Len(Code[program][t]) + 1
<1>1. SequenceTyped(Code[program][t])
  BY DEF CodeTyped, Threads
<1>2. pc[t] \in DOMAIN Code[program][t] /\ pc[t] \in 1 .. Len(Code[program][t])
  BY <1>1 DEF SyncBase, AtEnd, SequenceTyped
<1>3. Current(t).object \in Objects
  BY <1>2 DEF Current, Objects, ObjectsOf, Threads
<1> QED
  BY <1>1, <1>2, <1>3 DEF SequenceTyped, Current

LEMMA PlacesAreNumbers ==
    ASSUME SyncBase PROVE \A t \in Threads : pc[t] \in Nat
<1>1. pc \in [Threads -> Nat]
  BY DEF SyncBase
<1> QED
  BY <1>1

(* Each of the 25 actions of a thread is such a step.                       *)
LEMMA StepIsMove ==
    ASSUME SyncBase, NEW t \in Threads, Step(t),
           Current(t).object \in Objects,
           Current(t).op \in Jumps => Current(t).target \in Nat
    PROVE  program' = program /\ Stays /\ Moves(t) /\ Waits(t) /\ Sets(t) /\ Locks(t)
<1> DEFINE Goal == program' = program /\ Stays /\ Moves(t) /\ Waits(t) /\ Sets(t) /\ Locks(t)
<1>1. DoLock(t) => Goal
  <2> SUFFICES ASSUME DoLock(t) PROVE Goal
    OBVIOUS
  <2>1. program' = program /\ Moves(t) /\ pc' \in [Threads -> Nat]
    BY DEF DoLock, SyncBase, IsAt, Advance, GoTo, Moves, Jumps
  <2>2. register' = [u \in Threads |-> register'[u]] /\ value' = [o \in Objects |-> value'[o]]
    BY DEF DoLock, SyncBase
  <2>3. Waits(t) /\ Sets(t)
    BY DEF DoLock, SyncBase, IsAt, Advance, GoTo, Waits, Sets, Changes
  <2>4. owner' \in [Objects -> SUBSET Threads] /\ sharers' \in [Objects -> SUBSET Threads]
    BY DEF DoLock, SyncBase
  <2>5. Locks(t)
    BY DEF DoLock, SyncBase, IsAt, Advance, GoTo, Free, Locks, Takes, Gives
  <2> QED
    BY <2>1, <2>2, <2>3, <2>4, <2>5 DEF Stays
<1>2. LockOne(t) => Goal
  <2> SUFFICES ASSUME LockOne(t) PROVE Goal
    OBVIOUS
  <2>1. program' = program /\ Moves(t) /\ pc' \in [Threads -> Nat]
    BY DEF LockOne, SyncBase, IsAt, Moves
  <2>2. register' = [u \in Threads |-> register'[u]] /\ value' = [o \in Objects |-> value'[o]]
    BY DEF LockOne, SyncBase
  <2>3. Waits(t) /\ Sets(t)
    BY DEF LockOne, IsAt, Waits, Sets, Changes
  <2>4. owner' \in [Objects -> SUBSET Threads] /\ sharers' \in [Objects -> SUBSET Threads]
    <3>1. PICK m : owner' = [owner EXCEPT ![m] = {t}]
      BY DEF LockOne
    <3>2. owner \in [Objects -> SUBSET Threads] /\ sharers \in [Objects -> SUBSET Threads]
      BY DEF SyncBase
    <3>3. {t} \in SUBSET Threads /\ sharers' = sharers
      BY DEF LockOne
    <3> QED
      BY <3>1, <3>2, <3>3
  <2>5. Locks(t)
    BY DEF LockOne, Both, SyncBase, IsAt, Free, Locks, Takes, Gives
  <2> QED
    BY <2>1, <2>2, <2>3, <2>4, <2>5 DEF Stays
<1>24. LockOther(t) => Goal
  <2> SUFFICES ASSUME LockOther(t) PROVE Goal
    OBVIOUS
  <2>1. program' = program /\ Moves(t) /\ pc' \in [Threads -> Nat]
    BY DEF LockOther, SyncBase, IsAt, Advance, Moves
  <2>2. register' = [u \in Threads |-> register'[u]] /\ value' = [o \in Objects |-> value'[o]]
    BY DEF LockOther, SyncBase
  <2>3. Waits(t) /\ Sets(t)
    BY DEF LockOther, IsAt, Waits, Sets, Changes
  <2>4. owner' \in [Objects -> SUBSET Threads] /\ sharers' \in [Objects -> SUBSET Threads]
    <3>1. PICK m : owner' = [owner EXCEPT ![m] = {t}]
      BY DEF LockOther
    <3>2. owner \in [Objects -> SUBSET Threads] /\ sharers \in [Objects -> SUBSET Threads]
      BY DEF SyncBase
    <3>3. {t} \in SUBSET Threads /\ sharers' = sharers
      BY DEF LockOther
    <3> QED
      BY <3>1, <3>2, <3>3
  <2>5. Locks(t)
    BY DEF LockOther, Both, SyncBase, IsAt, Free, Locks, Takes, Gives
  <2> QED
    BY <2>1, <2>2, <2>3, <2>4, <2>5 DEF Stays
<1>25. BackOff(t) => Goal
  <2> SUFFICES ASSUME BackOff(t) PROVE Goal
    OBVIOUS
  <2>1. program' = program /\ Moves(t) /\ pc' \in [Threads -> Nat]
    BY DEF BackOff, SyncBase, IsAt, Moves
  <2>2. register' = [u \in Threads |-> register'[u]] /\ value' = [o \in Objects |-> value'[o]]
    BY DEF BackOff, SyncBase
  <2>3. Waits(t) /\ Sets(t)
    BY DEF BackOff, IsAt, Waits, Sets, Changes
  <2>4. owner' \in [Objects -> SUBSET Threads] /\ sharers' \in [Objects -> SUBSET Threads]
    <3>1. PICK m : owner' = [owner EXCEPT ![m] = {}]
      BY DEF BackOff
    <3>2. owner \in [Objects -> SUBSET Threads] /\ sharers \in [Objects -> SUBSET Threads]
      BY DEF SyncBase
    <3>3. {} \in SUBSET Threads /\ sharers' = sharers
      BY DEF BackOff
    <3> QED
      BY <3>1, <3>2, <3>3
  <2>5. Locks(t)
    BY DEF BackOff, Both, SyncBase, IsAt, Locks, Takes, Gives
  <2> QED
    BY <2>1, <2>2, <2>3, <2>4, <2>5 DEF Stays
<1>3. DoLockShared(t) => Goal
  <2> SUFFICES ASSUME DoLockShared(t) PROVE Goal
    OBVIOUS
  <2>1. program' = program /\ Moves(t) /\ pc' \in [Threads -> Nat]
    BY DEF DoLockShared, SyncBase, IsAt, Advance, GoTo, Moves, Jumps
  <2>2. register' = [u \in Threads |-> register'[u]] /\ value' = [o \in Objects |-> value'[o]]
    BY DEF DoLockShared, SyncBase
  <2>3. Waits(t) /\ Sets(t)
    BY DEF DoLockShared, SyncBase, IsAt, Advance, GoTo, Waits, Sets, Changes
  <2>4. owner' \in [Objects -> SUBSET Threads] /\ sharers' \in [Objects -> SUBSET Threads]
    BY DEF DoLockShared, SyncBase
  <2>5. Locks(t)
    BY DEF DoLockShared, SyncBase, IsAt, Advance, GoTo, Free, Locks, Takes, Gives
  <2> QED
    BY <2>1, <2>2, <2>3, <2>4, <2>5 DEF Stays
<1>4. TimeOutLock(t) => Goal
  <2> SUFFICES ASSUME TimeOutLock(t) PROVE Goal
    OBVIOUS
  <2>1. program' = program /\ Moves(t) /\ pc' \in [Threads -> Nat]
    BY DEF TimeOutLock, SyncBase, IsAt, Advance, GoTo, Moves, Jumps
  <2>2. register' = [u \in Threads |-> register'[u]] /\ value' = [o \in Objects |-> value'[o]]
    BY DEF TimeOutLock, SyncBase
  <2>3. Waits(t) /\ Sets(t)
    BY DEF TimeOutLock, SyncBase, IsAt, Advance, GoTo, Waits, Sets, Changes
  <2>4. owner' \in [Objects -> SUBSET Threads] /\ sharers' \in [Objects -> SUBSET Threads]
    BY DEF TimeOutLock, SyncBase
  <2>5. Locks(t)
    BY DEF TimeOutLock, SyncBase, IsAt, Advance, GoTo, Free, Locks, Takes, Gives
  <2> QED
    BY <2>1, <2>2, <2>3, <2>4, <2>5 DEF Stays
<1>5. DoUnlock(t) => Goal
  <2> SUFFICES ASSUME DoUnlock(t) PROVE Goal
    OBVIOUS
  <2>1. program' = program /\ Moves(t) /\ pc' \in [Threads -> Nat]
    BY DEF DoUnlock, SyncBase, IsAt, Advance, GoTo, Moves, Jumps
  <2>2. register' = [u \in Threads |-> register'[u]] /\ value' = [o \in Objects |-> value'[o]]
    BY DEF DoUnlock, SyncBase
  <2>3. Waits(t) /\ Sets(t)
    BY DEF DoUnlock, SyncBase, IsAt, Advance, GoTo, Waits, Sets, Changes
  <2>4. owner' \in [Objects -> SUBSET Threads] /\ sharers' \in [Objects -> SUBSET Threads]
    BY DEF DoUnlock, SyncBase
  <2>5. Locks(t)
    BY DEF DoUnlock, SyncBase, IsAt, Advance, GoTo, Free, Locks, Takes, Gives
  <2> QED
    BY <2>1, <2>2, <2>3, <2>4, <2>5 DEF Stays
<1>6. WaitSatisfied(t) => Goal
  <2> SUFFICES ASSUME WaitSatisfied(t) PROVE Goal
    OBVIOUS
  <2>1. program' = program /\ Moves(t) /\ pc' \in [Threads -> Nat]
    BY DEF WaitSatisfied, SyncBase, IsAt, Advance, GoTo, Moves, Jumps
  <2>2. register' = [u \in Threads |-> register'[u]] /\ value' = [o \in Objects |-> value'[o]]
    BY DEF WaitSatisfied, SyncBase
  <2>3. Waits(t) /\ Sets(t)
    BY DEF WaitSatisfied, SyncBase, IsAt, Advance, GoTo, Waits, Sets, Changes
  <2>4. owner' \in [Objects -> SUBSET Threads] /\ sharers' \in [Objects -> SUBSET Threads]
    BY DEF WaitSatisfied, SyncBase
  <2>5. Locks(t)
    BY DEF WaitSatisfied, SyncBase, IsAt, Advance, GoTo, Free, Locks, Takes, Gives
  <2> QED
    BY <2>1, <2>2, <2>3, <2>4, <2>5 DEF Stays
<1>7. Wait(t) => Goal
  <2> SUFFICES ASSUME Wait(t) PROVE Goal
    OBVIOUS
  <2>1. program' = program /\ Moves(t) /\ pc' \in [Threads -> Nat]
    BY DEF Wait, SyncBase, IsAt, Advance, GoTo, Moves, Jumps
  <2>2. register' = [u \in Threads |-> register'[u]] /\ value' = [o \in Objects |-> value'[o]]
    BY DEF Wait, SyncBase
  <2>3. Waits(t) /\ Sets(t)
    BY DEF Wait, SyncBase, IsAt, Advance, GoTo, Waits, Sets, Changes
  <2>4. owner' \in [Objects -> SUBSET Threads] /\ sharers' \in [Objects -> SUBSET Threads]
    BY DEF Wait, SyncBase
  <2>5. Locks(t)
    BY DEF Wait, SyncBase, IsAt, Advance, GoTo, Free, Locks, Takes, Gives
  <2> QED
    BY <2>1, <2>2, <2>3, <2>4, <2>5 DEF Stays
<1>8. Relock(t) => Goal
  <2> SUFFICES ASSUME Relock(t) PROVE Goal
    OBVIOUS
  <2>1. program' = program /\ Moves(t) /\ pc' \in [Threads -> Nat]
    BY DEF Relock, SyncBase, IsAt, Advance, GoTo, Moves, Jumps
  <2>2. register' = [u \in Threads |-> register'[u]] /\ value' = [o \in Objects |-> value'[o]]
    BY DEF Relock, SyncBase
  <2>3. Waits(t) /\ Sets(t)
    BY DEF Relock, SyncBase, IsAt, Advance, GoTo, Waits, Sets, Changes
  <2>4. owner' \in [Objects -> SUBSET Threads] /\ sharers' \in [Objects -> SUBSET Threads]
    <3>1. owner' = [o \in Objects |-> owner'[o]] /\ sharers' = sharers
      BY DEF Relock, SyncBase
    <3>2. \A o \in Objects : owner'[o] \in {owner[o], {t}}
      BY DEF Relock, SyncBase
    <3> QED
      BY <3>1, <3>2 DEF SyncBase
  <2>5. Locks(t)
    BY DEF Relock, SyncBase, IsAt, Advance, GoTo, Free, Locks, Takes, Gives
  <2> QED
    BY <2>1, <2>2, <2>3, <2>4, <2>5 DEF Stays
<1>9. DoNotifyAll(t) => Goal
  <2> SUFFICES ASSUME DoNotifyAll(t) PROVE Goal
    OBVIOUS
  <2>1. program' = program /\ Moves(t) /\ pc' \in [Threads -> Nat]
    BY DEF DoNotifyAll, SyncBase, IsAt, Advance, GoTo, Moves, Jumps
  <2>2. register' = [u \in Threads |-> register'[u]] /\ value' = [o \in Objects |-> value'[o]]
    BY DEF DoNotifyAll, SyncBase
  <2>3. Waits(t) /\ Sets(t)
    BY DEF DoNotifyAll, SyncBase, IsAt, Advance, GoTo, Waits, Sets, Changes
  <2>4. owner' \in [Objects -> SUBSET Threads] /\ sharers' \in [Objects -> SUBSET Threads]
    BY DEF DoNotifyAll, SyncBase
  <2>5. Locks(t)
    BY DEF DoNotifyAll, SyncBase, IsAt, Advance, GoTo, Free, Locks, Takes, Gives
  <2> QED
    BY <2>1, <2>2, <2>3, <2>4, <2>5 DEF Stays
<1>10. DoCallOnce(t) => Goal
  <2> SUFFICES ASSUME DoCallOnce(t) PROVE Goal
    OBVIOUS
  <2>1. program' = program /\ Moves(t) /\ pc' \in [Threads -> Nat]
    <3>1. \/ pc' = [pc EXCEPT ![t] = pc[t] + 1]
          \/ pc' = [pc EXCEPT ![t] = Current(t).target] /\ Current(t).op \in Jumps
      BY DEF DoCallOnce, IsAt, Advance, GoTo, Jumps
    <3>2. program' = program
      BY DEF DoCallOnce
    <3>3. register' = register
      BY DEF DoCallOnce
    <3> QED
      BY <3>1, <3>2, <3>3 DEF SyncBase, Moves
  <2>2. register' = [u \in Threads |-> register'[u]] /\ value' = [o \in Objects |-> value'[o]]
    BY DEF DoCallOnce, SyncBase
  <2>3. Waits(t) /\ Sets(t)
    BY DEF DoCallOnce, SyncBase, IsAt, Advance, GoTo, Waits, Sets, Changes
  <2>4. owner' \in [Objects -> SUBSET Threads] /\ sharers' \in [Objects -> SUBSET Threads]
    BY DEF DoCallOnce, SyncBase
  <2>5. Locks(t)
    BY DEF DoCallOnce, SyncBase, IsAt, Advance, GoTo, Free, Locks, Takes, Gives
  <2> QED
    BY <2>1, <2>2, <2>3, <2>4, <2>5 DEF Stays
<1>11. FunctionReturns(t) => Goal
  <2> SUFFICES ASSUME FunctionReturns(t) PROVE Goal
    OBVIOUS
  <2>1. program' = program /\ Moves(t) /\ pc' \in [Threads -> Nat]
    BY DEF FunctionReturns, SyncBase, IsAt, Advance, GoTo, Moves, Jumps
  <2>2. register' = [u \in Threads |-> register'[u]] /\ value' = [o \in Objects |-> value'[o]]
    BY DEF FunctionReturns, SyncBase
  <2>3. Waits(t) /\ Sets(t)
    BY DEF FunctionReturns, SyncBase, IsAt, Advance, GoTo, Waits, Sets, Changes
  <2>4. owner' \in [Objects -> SUBSET Threads] /\ sharers' \in [Objects -> SUBSET Threads]
    BY DEF FunctionReturns, SyncBase
  <2>5. Locks(t)
    BY DEF FunctionReturns, SyncBase, IsAt, Advance, GoTo, Free, Locks, Takes, Gives
  <2> QED
    BY <2>1, <2>2, <2>3, <2>4, <2>5 DEF Stays
<1>12. FunctionThrows(t) => Goal
  <2> SUFFICES ASSUME FunctionThrows(t) PROVE Goal
    OBVIOUS
  <2>1. program' = program /\ Moves(t) /\ pc' \in [Threads -> Nat]
    BY DEF FunctionThrows, SyncBase, IsAt, Advance, GoTo, Moves, Jumps
  <2>2. register' = [u \in Threads |-> register'[u]] /\ value' = [o \in Objects |-> value'[o]]
    BY DEF FunctionThrows, SyncBase
  <2>3. Waits(t) /\ Sets(t)
    BY DEF FunctionThrows, SyncBase, IsAt, Advance, GoTo, Waits, Sets, Changes
  <2>4. owner' \in [Objects -> SUBSET Threads] /\ sharers' \in [Objects -> SUBSET Threads]
    BY DEF FunctionThrows, SyncBase
  <2>5. Locks(t)
    BY DEF FunctionThrows, SyncBase, IsAt, Advance, GoTo, Free, Locks, Takes, Gives
  <2> QED
    BY <2>1, <2>2, <2>3, <2>4, <2>5 DEF Stays
<1>13. DoArrive(t) => Goal
  <2> SUFFICES ASSUME DoArrive(t) PROVE Goal
    OBVIOUS
  <2>1. program' = program /\ Moves(t) /\ pc' \in [Threads -> Nat]
    BY DEF DoArrive, SyncBase, IsAt, Advance, GoTo, Moves, Jumps
  <2>2. register' = [u \in Threads |-> register'[u]] /\ value' = [o \in Objects |-> value'[o]]
    BY DEF DoArrive, SyncBase
  <2>3. Waits(t) /\ Sets(t)
    BY DEF DoArrive, SyncBase, IsAt, Advance, GoTo, Waits, Sets, Changes
  <2>4. owner' \in [Objects -> SUBSET Threads] /\ sharers' \in [Objects -> SUBSET Threads]
    BY DEF DoArrive, SyncBase
  <2>5. Locks(t)
    BY DEF DoArrive, SyncBase, IsAt, Advance, GoTo, Free, Locks, Takes, Gives
  <2> QED
    BY <2>1, <2>2, <2>3, <2>4, <2>5 DEF Stays
<1>14. Await(t) => Goal
  <2> SUFFICES ASSUME Await(t) PROVE Goal
    OBVIOUS
  <2>1. program' = program /\ Moves(t) /\ pc' \in [Threads -> Nat]
    BY DEF Await, SyncBase, IsAt, Advance, GoTo, Moves, Jumps
  <2>2. register' = [u \in Threads |-> register'[u]] /\ value' = [o \in Objects |-> value'[o]]
    BY DEF Await, SyncBase
  <2>3. Waits(t) /\ Sets(t)
    BY DEF Await, SyncBase, IsAt, Advance, GoTo, Waits, Sets, Changes
  <2>4. owner' \in [Objects -> SUBSET Threads] /\ sharers' \in [Objects -> SUBSET Threads]
    BY DEF Await, SyncBase
  <2>5. Locks(t)
    BY DEF Await, SyncBase, IsAt, Advance, GoTo, Free, Locks, Takes, Gives
  <2> QED
    BY <2>1, <2>2, <2>3, <2>4, <2>5 DEF Stays
<1>15. TimeOutWait(t) => Goal
  <2> SUFFICES ASSUME TimeOutWait(t) PROVE Goal
    OBVIOUS
  <2>1. program' = program /\ Moves(t) /\ pc' \in [Threads -> Nat]
    BY DEF TimeOutWait, SyncBase, IsAt, Advance, GoTo, Moves, Jumps
  <2>2. register' = [u \in Threads |-> register'[u]] /\ value' = [o \in Objects |-> value'[o]]
    BY DEF TimeOutWait, SyncBase
  <2>3. Waits(t) /\ Sets(t)
    BY DEF TimeOutWait, SyncBase, IsAt, Advance, GoTo, Waits, Sets, Changes
  <2>4. owner' \in [Objects -> SUBSET Threads] /\ sharers' \in [Objects -> SUBSET Threads]
    BY DEF TimeOutWait, SyncBase
  <2>5. Locks(t)
    BY DEF TimeOutWait, SyncBase, IsAt, Advance, GoTo, Free, Locks, Takes, Gives
  <2> QED
    BY <2>1, <2>2, <2>3, <2>4, <2>5 DEF Stays
<1>16. DoRead(t) => Goal
  <2> SUFFICES ASSUME DoRead(t) PROVE Goal
    OBVIOUS
  <2>1. program' = program /\ Moves(t) /\ pc' \in [Threads -> Nat]
    BY DEF DoRead, SyncBase, IsAt, Advance, GoTo, Moves, Jumps
  <2>2. register' = [u \in Threads |-> register'[u]] /\ value' = [o \in Objects |-> value'[o]]
    BY DEF DoRead, SyncBase
  <2>3. Waits(t) /\ Sets(t)
    BY DEF DoRead, SyncBase, IsAt, Advance, GoTo, Waits, Sets, Changes
  <2>4. owner' \in [Objects -> SUBSET Threads] /\ sharers' \in [Objects -> SUBSET Threads]
    BY DEF DoRead, SyncBase
  <2>5. Locks(t)
    BY DEF DoRead, SyncBase, IsAt, Advance, GoTo, Free, Locks, Takes, Gives
  <2> QED
    BY <2>1, <2>2, <2>3, <2>4, <2>5 DEF Stays
<1>17. DoWrite(t) => Goal
  <2> SUFFICES ASSUME DoWrite(t) PROVE Goal
    OBVIOUS
  <2>1. program' = program /\ Moves(t) /\ pc' \in [Threads -> Nat]
    BY DEF DoWrite, SyncBase, IsAt, Advance, GoTo, Moves, Jumps
  <2>2. register' = [u \in Threads |-> register'[u]] /\ value' = [o \in Objects |-> value'[o]]
    BY DEF DoWrite, SyncBase
  <2>3. Waits(t) /\ Sets(t)
    BY DEF DoWrite, SyncBase, IsAt, Advance, GoTo, Waits, Sets, Changes
  <2>4. owner' \in [Objects -> SUBSET Threads] /\ sharers' \in [Objects -> SUBSET Threads]
    BY DEF DoWrite, SyncBase
  <2>5. Locks(t)
    BY DEF DoWrite, SyncBase, IsAt, Advance, GoTo, Free, Locks, Takes, Gives
  <2> QED
    BY <2>1, <2>2, <2>3, <2>4, <2>5 DEF Stays
<1>18. DoDraw(t) => Goal
  <2> SUFFICES ASSUME DoDraw(t) PROVE Goal
    OBVIOUS
  <2>1. program' = program /\ Moves(t) /\ pc' \in [Threads -> Nat]
    BY DEF DoDraw, SyncBase, IsAt, Advance, GoTo, Moves, Jumps
  <2>2. register' = [u \in Threads |-> register'[u]] /\ value' = [o \in Objects |-> value'[o]]
    BY DEF DoDraw, SyncBase
  <2>3. Waits(t) /\ Sets(t)
    BY DEF DoDraw, SyncBase, IsAt, Advance, GoTo, Waits, Sets, Changes
  <2>4. owner' \in [Objects -> SUBSET Threads] /\ sharers' \in [Objects -> SUBSET Threads]
    BY DEF DoDraw, SyncBase
  <2>5. Locks(t)
    BY DEF DoDraw, SyncBase, IsAt, Advance, GoTo, Free, Locks, Takes, Gives
  <2> QED
    BY <2>1, <2>2, <2>3, <2>4, <2>5 DEF Stays
<1>19. DoPrint(t) => Goal
  <2> SUFFICES ASSUME DoPrint(t) PROVE Goal
    OBVIOUS
  <2>1. program' = program /\ Moves(t) /\ pc' \in [Threads -> Nat]
    BY DEF DoPrint, SyncBase, IsAt, Advance, GoTo, Moves, Jumps
  <2>2. register' = [u \in Threads |-> register'[u]] /\ value' = [o \in Objects |-> value'[o]]
    BY DEF DoPrint, SyncBase
  <2>3. Waits(t) /\ Sets(t)
    BY DEF DoPrint, SyncBase, IsAt, Advance, GoTo, Waits, Sets, Changes
  <2>4. owner' \in [Objects -> SUBSET Threads] /\ sharers' \in [Objects -> SUBSET Threads]
    BY DEF DoPrint, SyncBase
  <2>5. Locks(t)
    BY DEF DoPrint, SyncBase, IsAt, Advance, GoTo, Free, Locks, Takes, Gives
  <2> QED
    BY <2>1, <2>2, <2>3, <2>4, <2>5 DEF Stays
<1>20. Branch(t) => Goal
  <2> SUFFICES ASSUME Branch(t) PROVE Goal
    OBVIOUS
  <2>1. program' = program /\ Moves(t) /\ pc' \in [Threads -> Nat]
    <3>1. \/ pc' = [pc EXCEPT ![t] = pc[t] + 1]
          \/ pc' = [pc EXCEPT ![t] = Current(t).target] /\ Current(t).op \in Jumps
      BY DEF Branch, IsAt, Advance, GoTo, Jumps
    <3>2. program' = program
      BY DEF Branch
    <3>3. register' = register
      BY DEF Branch
    <3> QED
      BY <3>1, <3>2, <3>3 DEF SyncBase, Moves
  <2>2. register' = [u \in Threads |-> register'[u]] /\ value' = [o \in Objects |-> value'[o]]
    BY DEF Branch, SyncBase
  <2>3. Waits(t) /\ Sets(t)
    BY DEF Branch, SyncBase, IsAt, Advance, GoTo, Waits, Sets, Changes
  <2>4. owner' \in [Objects -> SUBSET Threads] /\ sharers' \in [Objects -> SUBSET Threads]
    BY DEF Branch, SyncBase
  <2>5. Locks(t)
    BY DEF Branch, SyncBase, IsAt, Advance, GoTo, Free, Locks, Takes, Gives
  <2> QED
    BY <2>1, <2>2, <2>3, <2>4, <2>5 DEF Stays
<1>21. DoRegister(t) => Goal
  <2> SUFFICES ASSUME DoRegister(t) PROVE Goal
    OBVIOUS
  <2>1. program' = program /\ Moves(t) /\ pc' \in [Threads -> Nat]
    BY DEF DoRegister, SyncBase, IsAt, Advance, GoTo, Moves, Jumps
  <2>2. register' = [u \in Threads |-> register'[u]] /\ value' = [o \in Objects |-> value'[o]]
    BY DEF DoRegister, SyncBase
  <2>3. Waits(t) /\ Sets(t)
    BY DEF DoRegister, SyncBase, IsAt, Advance, GoTo, Waits, Sets, Changes
  <2>4. owner' \in [Objects -> SUBSET Threads] /\ sharers' \in [Objects -> SUBSET Threads]
    BY DEF DoRegister, SyncBase
  <2>5. Locks(t)
    BY DEF DoRegister, SyncBase, IsAt, Advance, GoTo, Free, Locks, Takes, Gives
  <2> QED
    BY <2>1, <2>2, <2>3, <2>4, <2>5 DEF Stays
<1>22. DoRequestStop(t) => Goal
  <2> SUFFICES ASSUME DoRequestStop(t) PROVE Goal
    OBVIOUS
  <2>1. program' = program /\ Moves(t) /\ pc' \in [Threads -> Nat]
    BY DEF DoRequestStop, SyncBase, IsAt, Advance, GoTo, Moves, Jumps
  <2>2. register' = [u \in Threads |-> register'[u]] /\ value' = [o \in Objects |-> value'[o]]
    BY DEF DoRequestStop, SyncBase
  <2>3. Waits(t) /\ Sets(t)
    BY DEF DoRequestStop, SyncBase, IsAt, Advance, GoTo, Waits, Sets, Changes
  <2>4. owner' \in [Objects -> SUBSET Threads] /\ sharers' \in [Objects -> SUBSET Threads]
    BY DEF DoRequestStop, SyncBase
  <2>5. Locks(t)
    BY DEF DoRequestStop, SyncBase, IsAt, Advance, GoTo, Free, Locks, Takes, Gives
  <2> QED
    BY <2>1, <2>2, <2>3, <2>4, <2>5 DEF Stays
<1>23. DoDestroy(t) => Goal
  <2> SUFFICES ASSUME DoDestroy(t) PROVE Goal
    OBVIOUS
  <2>1. program' = program /\ Moves(t) /\ pc' \in [Threads -> Nat]
    BY DEF DoDestroy, SyncBase, IsAt, Advance, GoTo, Moves, Jumps
  <2>2. register' = [u \in Threads |-> register'[u]] /\ value' = [o \in Objects |-> value'[o]]
    BY DEF DoDestroy, SyncBase
  <2>3. Waits(t) /\ Sets(t)
    BY DEF DoDestroy, SyncBase, IsAt, Advance, GoTo, Waits, Sets, Changes
  <2>4. owner' \in [Objects -> SUBSET Threads] /\ sharers' \in [Objects -> SUBSET Threads]
    BY DEF DoDestroy, SyncBase
  <2>5. Locks(t)
    BY DEF DoDestroy, SyncBase, IsAt, Advance, GoTo, Free, Locks, Takes, Gives
  <2> QED
    BY <2>1, <2>2, <2>3, <2>4, <2>5 DEF Stays
<1> QED
  BY <1>1, <1>2, <1>3, <1>4, <1>5, <1>6, <1>7, <1>8, <1>9, <1>10, <1>11, <1>12,
     <1>13, <1>14, <1>15, <1>16, <1>17, <1>18, <1>19, <1>20, <1>21, <1>22, <1>23,
     <1>24, <1>25
     DEF Step

(* The proofs of the mains use this in place of Next: a step is one of a    *)
(* thread, or changes nothing but cv.                                       *)
LEMMA NextIsMove ==
    ASSUME SyncBase, CodeTyped(Code[program]), [Next]_vars
    PROVE  (\E t \in Threads : Steps(t)) \/ Idles
<1>1. ASSUME NEW t, Step(t) PROVE \E u \in Threads : Steps(u)
  <2>1. t \in Threads /\ ~ AtEnd(t)
    <3>1. t \in Threads
      BY <1>1 DEF Step
    <3>2. Relock(t) => ~ AtEnd(t)
      BY DEF Relock, IsAt
    <3>3. DoLock(t) \/ LockOne(t) \/ LockOther(t) \/ BackOff(t) \/ DoLockShared(t)
            \/ TimeOutLock(t) \/ DoUnlock(t)
            \/ WaitSatisfied(t) \/ Wait(t) \/ DoNotifyAll(t) \/ DoCallOnce(t)
            \/ FunctionReturns(t) \/ FunctionThrows(t) => ~ AtEnd(t)
      BY 
         DEF DoLock, LockOne, LockOther, BackOff, DoLockShared, TimeOutLock, DoUnlock, WaitSatisfied,
             Wait,
             DoNotifyAll, DoCallOnce, FunctionReturns, FunctionThrows, IsAt
    <3>4. DoArrive(t) \/ Await(t) \/ TimeOutWait(t) \/ DoRead(t) \/ DoWrite(t) \/ DoDraw(t)
            \/ DoPrint(t) \/ Branch(t) \/ DoRegister(t) \/ DoRequestStop(t) \/ DoDestroy(t)
          => ~ AtEnd(t)
      BY DEF DoArrive, Await, TimeOutWait, DoRead, DoWrite, DoDraw, DoPrint, Branch,
             DoRegister, DoRequestStop, DoDestroy, IsAt
    <3> QED
      BY <1>1, <3>1, <3>2, <3>3, <3>4 DEF Step
  <2>2. /\ pc[t] \in DOMAIN Code[program][t] /\ Current(t).object \in Objects
        /\ Current(t).op \in Jumps => Current(t).target \in Nat
    <3>1. /\ pc[t] \in DOMAIN Code[program][t] /\ Current(t).object \in Objects
          /\ Len(Code[program][t]) \in Nat
          /\ Current(t).op \in Jumps => Current(t).target \in 1 .. Len(Code[program][t]) + 1
      BY <2>1, AtStatement
    <3> QED
      BY <3>1
  <2>3. program' = program /\ Stays /\ Moves(t) /\ Waits(t) /\ Sets(t) /\ Locks(t)
    BY <1>1, <2>1, <2>2, StepIsMove
  <2> QED
    BY <2>1, <2>2, <2>3 DEF Steps
<1>2. ASSUME NEW t, SpuriousWakeup(t) PROVE Idles
  BY <1>2 DEF SpuriousWakeup, Idles
<1>3. (Joined \/ UNCHANGED vars) => Idles
  BY DEF Joined, vars, Idles
<1> QED
  BY <1>1, <1>2, <1>3 DEF Next

LEMMA SameCode ==
    ASSUME program' = program
    PROVE  Threads' = Threads /\ Objects' = Objects /\ Code[program]' = Code[program]
  BY DEF Threads, Objects

LEMMA BaseKept ==
    ASSUME SyncBase, CodeTyped(Code[program]), NEW t, Steps(t)
    PROVE  SyncBase'
<1>1. t \in Threads /\ program' = program /\ Stays /\ Moves(t) /\ Locks(t)
      /\ pc[t] \in DOMAIN Code[program][t]
  BY DEF Steps
<1>2. Threads' = Threads /\ Objects' = Objects /\ Code[program]' = Code[program]
  BY <1>1, SameCode
<1>3. \A u \in Threads : pc'[u] \in 1 .. Len(Code[program][u]) + 1
  <2>1. SequenceTyped(Code[program][t])
    BY <1>1 DEF CodeTyped, Threads
  <2>2. pc'[t] \in 1 .. Len(Code[program][t]) + 1
    <3>1. /\ Len(Code[program][t]) \in Nat /\ pc[t] \in 1 .. Len(Code[program][t])
          /\ Current(t).op \in Jumps => Current(t).target \in 1 .. Len(Code[program][t]) + 1
      BY <1>1, <2>1 DEF SequenceTyped, Current
    <3>2. \/ pc'[t] = pc[t] + 1
          \/ pc'[t] = pc[t]
          \/ pc'[t] = Current(t).target /\ Current(t).op \in Jumps
      BY <1>1 DEF Moves
    <3> QED
      BY <3>1, <3>2
  <2> QED
    BY <1>1, <2>2 DEF SyncBase, Moves
<1>4. ASSUME NEW m \in Objects
      PROVE  /\ \A u, w \in owner'[m] : u = w
             /\ owner'[m] = {} \/ sharers'[m] = {}
  <2>1. (\A u, w \in owner[m] : u = w) /\ (owner[m] = {} \/ sharers[m] = {})
    BY DEF SyncBase
  <2>2. \/ owner'[m] = owner[m]
        \/ owner[m] = {} /\ sharers[m] = {} /\ owner'[m] = {t}
        \/ owner'[m] = owner[m] \ {t}
    BY <1>1 DEF Locks
  <2>3. \/ sharers'[m] = sharers[m]
        \/ owner'[m] = {} /\ sharers'[m] = sharers[m] \cup {t}
        \/ sharers'[m] = sharers[m] \ {t}
    BY <1>1 DEF Locks
  <2>4. \A u, w \in owner'[m] : u = w
    BY <2>1, <2>2
  <2>5. owner'[m] = {} \/ sharers'[m] = {}
    <3>1. CASE owner[m] = {} /\ sharers[m] = {} /\ owner'[m] = {t}
      BY <2>3, <3>1
    <3>2. CASE owner'[m] \subseteq owner[m]
      BY <2>1, <2>3, <3>2
    <3> QED
      BY <2>2, <3>1, <3>2
  <2> QED
    BY <2>4, <2>5
<1> QED
  BY <1>1, <1>2, <1>3, <1>4 DEF SyncBase, Stays

LEMMA IdleKept ==
    ASSUME Idles, SyncBase PROVE SyncBase'
<1>1. Threads' = Threads /\ Objects' = Objects /\ Code[program]' = Code[program]
  BY SameCode DEF Idles
<1> QED
  BY <1>1 DEF Idles, SyncBase

LEMMA BaseInit ==
    ASSUME Init, CodeTyped(Code[program]) PROVE SyncBase
<1>1. program \in Programs
  BY DEF Init
<1>2. \A t \in Threads : Len(Code[program][t]) \in Nat
  BY DEF CodeTyped, SequenceTyped, Threads
<1> QED
  BY <1>1, <1>2 DEF Init, SyncBase, Objects

-----------------------------------------------------------------------------
(* What each statement is.                                                  *)
LEMMA AccessFields ==
    /\ \A x : Load(x).op = "load" /\ Load(x).object = x
    /\ \A x, v : Store(x, v).op = "store" /\ Store(x, v).object = x /\ Store(x, v).value = v
    /\ \A x : FetchAdd(x).op = "arrive" /\ FetchAdd(x).object = x /\ FetchAdd(x).value = 1
    /\ \A x : Destroy(x).op = "destroy" /\ Destroy(x).object = x
    /\ Draw.op = "draw" /\ Draw.object = "register"
    /\ \A x : Read(x).op = "read" /\ Read(x).object = x
    /\ \A x : ReadAndAdd(x).op = "read_and_add" /\ ReadAndAdd(x).object = x
    /\ \A x, v : Write(x, v).op = "write" /\ Write(x, v).object = x /\ Write(x, v).value = v
    /\ \A x : 
              WriteNext(x).op = "write_next" /\ WriteNext(x).object = x
              /\ WriteNext(x).value = 1 /\ WriteNext(x).target = 0
    /\ \A x, k : 
              WriteNextModulo(x, k).op = "write_next" /\ WriteNextModulo(x, k).object = x
              /\ WriteNextModulo(x, k).value = 1 /\ WriteNextModulo(x, k).target = k
    /\ \A x : 
              WriteSum(x).op = "write_next" /\ WriteSum(x).object = x
              /\ WriteSum(x).value = 0 /\ WriteSum(x).target = 0
    /\ \A what : Output(what).op = "print" /\ Output(what).object = "sync_cout"
    /\ \A what, i : Callback(what, i).op = "callback" /\ Callback(what, i).object = "output"
  BY 
     DEF Statement, Load, Store, FetchAdd, Destroy, Draw, Read, ReadAndAdd, Write,
         WriteNext, WriteNextModulo, WriteSum, Output, Callback

LEMMA MeetingFields ==
    /\ Start.op = "arrive" /\ Start.object = "started" /\ Start.value = 1
    /\ \A t : 
              Begin(t).op = "await_latch" /\ Begin(t).object = "started"
              /\ Begin(t).value = t - 1
    /\ \A t : 
              JoinThread(t).op = "join_thread" /\ JoinThread(t).object = "threads"
              /\ JoinThread(t).value = t
    /\ \A b, k : 
              Arrive(b, k).op = "arrive" /\ Arrive(b, k).object = b
              /\ Arrive(b, k).value = k
    /\ \A b, k : 
              AwaitPhase(b, k).op = "await_phase" /\ AwaitPhase(b, k).object = b
              /\ AwaitPhase(b, k).value = k
    /\ \A b, k : 
              AwaitLatch(b, k).op = "await_latch" /\ AwaitLatch(b, k).object = b
              /\ AwaitLatch(b, k).value = k
    /\ \A b, timeout : 
              WaitFor(b, timeout).op = "wait_for" /\ WaitFor(b, timeout).object = b
              /\ WaitFor(b, timeout).value = 1 /\ WaitFor(b, timeout).target = timeout
    /\ Join.op = "join" /\ Join.object = "threads"
    /\ \A c : Register(c).op = "register" /\ Register(c).object = c
    /\ \A c : RequestStop(c).op = "request_stop" /\ RequestStop(c).object = "stop_state"
    /\ \A v, target : 
              GoUnless(v, target).op = "go_unless" /\ GoUnless(v, target).object = "register"
              /\ GoUnless(v, target).target = target
    /\ \A target : 
              Go(target).op = "go" /\ Go(target).object = "register"
              /\ Go(target).target = target
  BY 
     DEF Statement, Start, Begin, JoinThread, Arrive, AwaitPhase, AwaitLatch,
         WaitFor, Join, Register, RequestStop, GoUnless, Go

LEMMA LockFields ==
    /\ \A m : Lock(m).op = "lock" /\ Lock(m).object = m
    /\ \A m : Unlock(m).op = "unlock" /\ Unlock(m).object = m
    /\ \A m, m2 : 
              LockBoth(m, m2).op = "lock_both" /\ LockBoth(m, m2).object = m
              /\ LockBoth(m, m2).value = m2
    /\ \A m : LockShared(m).op = "lock_shared" /\ LockShared(m).object = m
    /\ \A m : UnlockShared(m).op = "unlock_shared" /\ UnlockShared(m).object = m
    /\ \A m, failed : 
              TryLockFor(m, failed).op = "try_lock_for" /\ TryLockFor(m, failed).object = m
              /\ TryLockFor(m, failed).target = failed
    /\ \A m, x, v : 
              WaitUntil(m, x, v).op = "wait_until" /\ WaitUntil(m, x, v).object = x
              /\ WaitUntil(m, x, v).value = v /\ WaitUntil(m, x, v).target = m
    /\ NotifyEverybody.op = "notify_all" /\ NotifyEverybody.object = "cv"
    /\ \A f, after : 
              CallOnce(f, after).op = "call_once" /\ CallOnce(f, after).object = f
              /\ CallOnce(f, after).target = after
    /\ \A f : Returned(f).op = "returned" /\ Returned(f).object = f
    /\ \A f, handler : 
              Thrown(f, handler).op = "thrown" /\ Thrown(f, handler).object = f
              /\ Thrown(f, handler).target = handler
  BY 
     DEF Statement, Lock, Unlock, LockBoth, LockShared, UnlockShared, TryLockFor,
         WaitUntil, NotifyEverybody, CallOnce, Returned, Thrown

-----------------------------------------------------------------------------
(* The plain objects that a sequence of statements writes, and those whose  *)
(* lifetime it ends.                                                        *)
Profile(c, writes, ends) ==
    /\ SequenceTyped(c)
    /\ \A i \in DOMAIN c :
         /\ c[i].op \in PlainWrites => c[i].object \in writes
         /\ c[i].op = "destroy" => c[i].object \in ends

(* A sequence without jumps goes on to its end.                             *)
Straight(c) == \A i \in DOMAIN c : c[i].op \notin Jumps

(* No two threads are about to access an object, one of them writing it,    *)
(* unless it is exempt.                                                     *)
RaceFree(exempt) ==
    \A t \in Threads : Writes(t) =>
      \A u \in Threads \ {t} : Accesses(t) \cap Accesses(u) \subseteq exempt

(* An object whose lifetime is over has been destroyed by a statement.      *)
Destroyed ==
    \A o \in dead : \E t \in Threads : \E i \in DOMAIN Code[program][t] :
      Code[program][t][i].op = "destroy" /\ Code[program][t][i].object = o

LEMMA DestroyedKept ==
    ASSUME Destroyed, NEW t, Steps(t) PROVE Destroyed'
<1>1. Threads' = Threads /\ Code[program]' = Code[program]
  BY SameCode DEF Steps
<1>2. \A o \in dead' : o \in dead \/ (Current(t).op = "destroy" /\ o = Current(t).object)
  <2>1. dead' = IF Current(t).op = "destroy" THEN dead \cup {Current(t).object} ELSE dead
    BY DEF Steps, Sets
  <2> QED
    BY <2>1
<1>3. t \in Threads /\ pc[t] \in DOMAIN Code[program][t]
  BY DEF Steps
<1> QED
  BY <1>1, <1>2, <1>3 DEF Destroyed, Current

LEMMA WriteAccess ==
    ASSUME NEW t \in Threads
    PROVE  /\ Accesses(t) # {} => ~ AtEnd(t) /\ Accesses(t) = {Current(t).object}
           /\ Accesses(t) # {} => Current(t).op \in PlainAccesses
           /\ Accesses(t) # {} /\ Current(t).op = "wait_until"
                => t \in owner[Current(t).target]
           /\ Writes(t) => ~ AtEnd(t) /\ Current(t).op \in PlainWrites
  BY DEF Accesses, Writes, IsAt, PlainWrites, PlainAccesses

(* A main that writes none of what it shares.                               *)
LEMMA QuietSafe ==
    ASSUME SyncBase, NEW W, NEW D, \A t \in Threads : Profile(Code[program][t], W, D)
    PROVE  RaceFree(W) /\ (Destroyed => dead \subseteq D)
<1>1. CodeTyped(Code[program])
  BY DEF CodeTyped, Profile, Threads
<1>2. ASSUME NEW t \in Threads, Writes(t) PROVE Accesses(t) \subseteq W
  <2>1. pc[t] \in DOMAIN Code[program][t] /\ Current(t).op \in PlainWrites
    BY <1>1, <1>2, AtStatement, WriteAccess
  <2>2. Current(t).object \in W
    BY <2>1 DEF Profile, Current
  <2> QED
    BY <2>2, WriteAccess
<1>3. Destroyed => dead \subseteq D
  BY DEF Destroyed, Profile
<1> QED
  BY <1>2, <1>3 DEF RaceFree

-----------------------------------------------------------------------------
(* The mains whose threads write nothing that they share: what each sequence*)
(* of their statements writes and ends.                                     *)
LEMMA JobTyped == Profile(job, {}, {})
  BY AccessFields, MeetingFields, LockFields
     DEF Profile, SequenceTyped, Jumps, PlainWrites, job

LEMMA ThreadFunctionTyped == Profile(thread_function, {}, {})
  BY AccessFields, MeetingFields, LockFields
     DEF Profile, SequenceTyped, Jumps, PlainWrites, thread_function

LEMMA PollTyped == Profile(wait_for_counter_10_sleep, {}, {})
  BY AccessFields, MeetingFields, LockFields
     DEF Profile, SequenceTyped, Jumps, PlainWrites, wait_for_counter_10_sleep

LEMMA CaptureTyped ==
    Profile(<< Lock("mtx"), Write("captured_exception", 1), Unlock("mtx") >>, {"captured_exception"}, {})
  BY AccessFields, MeetingFields, LockFields
     DEF Profile, SequenceTyped, Jumps, PlainWrites

LEMMA CapturePollTyped ==
    Profile(<< Read("captured_exception"), GoUnless(1, 1), Read("captured_exception"), Join >>, {}, {})
  BY AccessFields, MeetingFields, LockFields
     DEF Profile, SequenceTyped, Jumps, PlainWrites

LEMMA CreatedTyped == \A t, what : Profile(<< Begin(t), Output(what) >>, {}, {})
  BY AccessFields, MeetingFields, LockFields
     DEF Profile, SequenceTyped, Jumps, PlainWrites

LEMMA AddTyped == \A t : Profile(<< Begin(t), FetchAdd("counter") >>, {}, {})
  BY AccessFields, MeetingFields, LockFields
     DEF Profile, SequenceTyped, Jumps, PlainWrites

LEMMA BeginTyped == \A t : Profile(<< Begin(t) >>, {}, {})
  BY AccessFields, MeetingFields, LockFields
     DEF Profile, SequenceTyped, Jumps, PlainWrites

LEMMA DetachTyped == Profile(<< Start, Read("timeout") >>, {}, {})
  BY AccessFields, MeetingFields, LockFields
     DEF Profile, SequenceTyped, Jumps, PlainWrites

LEMMA DaemonTyped == Profile(daemonThread, {"timeout"}, {})
  BY AccessFields, MeetingFields, LockFields
     DEF Profile, SequenceTyped, Jumps, PlainWrites, daemonThread

LEMMA WorkTyped == \A t : Profile(work(t), {}, {})
  BY AccessFields, MeetingFields, LockFields
     DEF Profile, SequenceTyped, Jumps, PlainWrites, work

LEMMA EndlessTyped == Profile(<< Start, Start, JoinThread(3), JoinThread(2) >>, {}, {})
  BY AccessFields, MeetingFields, LockFields
     DEF Profile, SequenceTyped, Jumps, PlainWrites

LEMMA CounterTyped ==
    Profile((Counter \o CounterStop \o << Destroy("running"), JoinThread(2) >>), {}, {"callback", "running"})
  BY AccessFields, MeetingFields, LockFields
     DEF Profile, SequenceTyped, Jumps, PlainWrites, Counter, CounterStop

LEMMA CounterThreadTyped == Profile(CounterThread, {}, {})
  BY AccessFields, MeetingFields, LockFields
     DEF Profile, SequenceTyped, Jumps, PlainWrites, CounterThread

LEMMA StopTokenTyped ==
    Profile(<< Start, Load("stop_state"), Register("callback"), RequestStop("callback"), JoinThread(2), Load("stop_state") >>, {}, {})
  BY AccessFields, MeetingFields, LockFields
     DEF Profile, SequenceTyped, Jumps, PlainWrites

LEMMA StoppableTyped == Profile(func_with_stop_token, {}, {})
  BY AccessFields, MeetingFields, LockFields
     DEF Profile, SequenceTyped, Jumps, PlainWrites, func_with_stop_token

LEMMA StopSourceTyped == Profile(StopSource[1], {}, {})
  BY AccessFields, MeetingFields, LockFields
     DEF Profile, SequenceTyped, Jumps, PlainWrites, StopSource, ForEach, Unregister,
         func_with_stop_token, stopper

LEMMA StopperTyped == Profile(stopper, {}, {})
  BY AccessFields, MeetingFields, LockFields
     DEF Profile, SequenceTyped, Jumps, PlainWrites, stopper

LEMMA TimerTyped ==
    Profile((Timer \o TimerStop \o << Destroy("val"), JoinThread(2) >>), {}, {"callback", "interval", "val"})
  BY AccessFields, MeetingFields, LockFields
     DEF Profile, SequenceTyped, Jumps, PlainWrites, Timer, TimerStop

LEMMA TimerThreadTyped == Profile(TimerThread, {}, {})
  BY AccessFields, MeetingFields, LockFields
     DEF Profile, SequenceTyped, Jumps, PlainWrites, TimerThread

(* One sequence after the other.                                            *)
LEMMA Concatenated ==
    ASSUME NEW a, NEW b, NEW W, NEW D,
           Profile(a, W, D), Profile(b, W, D), Straight(a), Straight(b)
    PROVE  /\ Profile(a \o b, W, D) /\ Straight(a \o b)
           /\ Len(a \o b) = Len(a) + Len(b)
           /\ \A i \in 1 .. Len(a) : (a \o b)[i] = a[i]
           /\ \A i \in 1 .. Len(b) : (a \o b)[Len(a) + i] = b[i]
<1> DEFINE c == a \o b
<1>1. Len(a) \in Nat /\ Len(b) \in Nat /\ DOMAIN a = 1 .. Len(a) /\ DOMAIN b = 1 .. Len(b)
  BY DEF Profile, SequenceTyped
<1>2. /\ DOMAIN c = 1 .. Len(a) + Len(b) /\ Len(c) = Len(a) + Len(b)
      /\ \A i \in 1 .. Len(a) : c[i] = a[i]
      /\ \A i \in 1 .. Len(b) : c[Len(a) + i] = b[i]
  BY <1>1
<1> HIDE DEF c
<1>3. ASSUME NEW i \in DOMAIN c
      PROVE  (\E j \in DOMAIN a : c[i] = a[j]) \/ \E j \in DOMAIN b : c[i] = b[j]
  <2>1. CASE i <= Len(a)
    BY <1>1, <1>2, <2>1
  <2>2. CASE i > Len(a)
    <3>1. i - Len(a) \in 1 .. Len(b) /\ i = Len(a) + (i - Len(a))
      BY <1>1, <1>2, <2>2
    <3>2. \E j \in DOMAIN b : c[i] = b[j]
      BY <1>1, <1>2, <3>1
    <3> QED
      BY <3>2
  <2> QED
    BY <1>1, <1>2, <2>1, <2>2
<1>4. Straight(c)
  BY <1>3 DEF Straight
<1>5. Profile(c, W, D)
  BY <1>1, <1>2, <1>3, <1>4 DEF Profile, Straight, SequenceTyped
<1> QED
  BY <1>1, <1>2, <1>4, <1>5 DEF c

(* A loop without jumps.                                                    *)
LEMMA TimesTyped ==
    ASSUME NEW k \in Nat, NEW c, NEW W, NEW D, Profile(c, W, D), Straight(c), Len(c) # 0
    PROVE  /\ Profile(Times(k, c), W, D) /\ Straight(Times(k, c))
           /\ Len(Times(k, c)) = k * Len(c) /\ k * Len(c) \in Nat
           /\ \A i \in DOMAIN Times(k, c) :
                /\ ((i - 1) % Len(c)) + 1 \in DOMAIN c
                /\ Times(k, c)[i] = c[((i - 1) % Len(c)) + 1]
<1> DEFINE L == Len(c)
           T == [i \in 1 .. k * L |-> c[((i - 1) % L) + 1]]
<1>0. L \in Nat \ {0} /\ DOMAIN c = 1 .. L
  BY DEF Profile, SequenceTyped
<1>1. k * L \in Nat
  <2> DEFINE j == k * L
  <2>1. j \in Int /\ j >= 0
    BY <1>0, ProductNonnegative
  <2> QED
    BY <2>1
<1>2. T = Times(k, c)
  BY DEF Times
<1>3. \A i \in 1 .. k * L : ((i - 1) % L) + 1 \in 1 .. L
  <2> SUFFICES ASSUME NEW i \in 1 .. k * L PROVE ((i - 1) % L) + 1 \in 1 .. L
    OBVIOUS
  <2>1. i - 1 \in Nat /\ L \in Nat /\ L > 0
    BY <1>0, <1>1
  <2> HIDE DEF L
  <2>2. (i - 1) % L \in 0 .. L - 1
    BY <2>1, Division
  <2> QED
    BY <2>1, <2>2
<1>4. DOMAIN T = 1 .. k * L /\ Len(T) = k * L
  BY <1>1
<1>5. \A i \in 1 .. k * L : T[i] = c[((i - 1) % L) + 1]
  OBVIOUS
<1> HIDE DEF T
<1>6. Profile(T, W, D) /\ Straight(T)
  BY <1>0, <1>1, <1>3, <1>4, <1>5 DEF Profile, SequenceTyped, Straight
<1> QED
  BY <1>0, <1>1, <1>2, <1>3, <1>4, <1>5, <1>6

LEMMA TimedMutexTyped ==
    DOMAIN TimedMutex = 1 .. 4 /\ \A t \in 1 .. 4 : Profile(TimedMutex[t], {}, {})
  BY JobTyped DEF TimedMutex, ForEach

LEMMA RunOnceTyped ==
    DOMAIN RunOnce = 1 .. 3 /\ \A t \in 1 .. 3 : Profile(RunOnce[t], {}, {})
  BY ThreadFunctionTyped DEF RunOnce, ForEach

LEMMA RunOnceExceptionsTyped ==
    /\ DOMAIN RunOnceExceptions = 1 .. 3
    /\ \A t \in 1 .. 3 : Profile(RunOnceExceptions[t], {}, {})
<1>1. RunOnceExceptions = [i \in 1 .. 3 |-> thread_function_1(i < 3)]
  BY DEF RunOnceExceptions, ForEach
<1>2. Profile(thread_function_1(TRUE), {}, {})
  BY AccessFields, LockFields
     DEF thread_function_1, Profile, SequenceTyped, Jumps, PlainWrites
<1>3. Profile(thread_function_1(FALSE), {}, {})
  BY AccessFields, LockFields
     DEF thread_function_1, Profile, SequenceTyped, Jumps, PlainWrites
<1>4. ASSUME NEW i \in 1 .. 3 PROVE Profile(thread_function_1(i < 3), {}, {})
  <2>1. CASE (i < 3) = TRUE
    BY <1>2, <2>1, Zenon
  <2>2. CASE (i < 3) = FALSE
    BY <1>3, <2>2, Zenon
  <2>3. (i < 3) = TRUE \/ (i < 3) = FALSE
    OBVIOUS
  <2> QED
    BY <2>1, <2>2, <2>3, Zenon
<1> QED
  BY <1>1, <1>4

LEMMA IncrementTyped == Profile(increment_counter, {"counter"}, {})
<1> DEFINE c == << Lock("mtx"), Read("counter"), WriteNext("counter"), Unlock("mtx") >>
<1>1. Profile(c, {"counter"}, {}) /\ Straight(c) /\ Len(c) # 0
  BY AccessFields, LockFields DEF Profile, SequenceTyped, Jumps, PlainWrites, Straight
<1>2. INCREMENTS \in Nat
  BY SizesAssumption
<1> HIDE DEF c
<1>3. Profile(Times(INCREMENTS, c), {"counter"}, {})
  BY <1>1, <1>2, TimesTyped
<1> QED
  BY <1>3 DEF c, increment_counter

LEMMA SmallerProfile ==
    ASSUME NEW c, NEW W, NEW D, Profile(c, {}, {}) PROVE Profile(c, W, D)
  BY DEF Profile

LEMMA PollingTyped ==
    DOMAIN Polling = 1 .. 2 /\ \A t \in 1 .. 2 : Profile(Polling[t], {"counter"}, {})
  BY PollTyped, IncrementTyped, SmallerProfile DEF Polling, ForEach

LEMMA CapturedExceptionTyped ==
    DOMAIN CapturedException = 1 .. 2 /\ \A t \in 1 .. 2 : Profile(CapturedException[t], {"captured_exception"}, {})
  BY CaptureTyped, CapturePollTyped, SmallerProfile DEF CapturedException, ForEach

(* The main() of a program that starts k threads and joins them.            *)
LEMMA StartTyped ==
    ASSUME NEW k \in Nat
    PROVE  /\ Profile(Times(k, <<Start>>), {}, {}) /\ Straight(Times(k, <<Start>>))
           /\ Len(Times(k, <<Start>>)) = k
           /\ \A i \in 1 .. k : Times(k, <<Start>>)[i] = Start
<1> DEFINE c == <<Start>>
<1>1. Profile(c, {}, {}) /\ Straight(c) /\ Len(c) = 1 /\ Len(c) # 0 /\ c[1] = Start /\ DOMAIN c = 1 .. 1
  BY MeetingFields DEF Profile, SequenceTyped, Jumps, PlainWrites, Straight
<1> HIDE DEF c
<1>2. /\ Profile(Times(k, c), {}, {}) /\ Straight(Times(k, c))
      /\ Len(Times(k, c)) = k * Len(c)
      /\ \A i \in DOMAIN Times(k, c) :
                /\ ((i - 1) % Len(c)) + 1 \in DOMAIN c
                /\ Times(k, c)[i] = c[((i - 1) % Len(c)) + 1]
  BY <1>1, TimesTyped
<1>3. Len(Times(k, c)) = k /\ DOMAIN Times(k, c) = 1 .. k
  BY <1>1, <1>2 DEF Profile, SequenceTyped
<1>4. \A i \in 1 .. k : Times(k, c)[i] = Start
  BY <1>1, <1>2, <1>3
<1> QED
  BY <1>2, <1>3, <1>4 DEF c

LEMMA JoinAllTyped ==
    ASSUME NEW k \in Nat
    PROVE  Profile(JoinAll(k), {}, {}) /\ Straight(JoinAll(k)) /\ Len(JoinAll(k)) = k
<1>1. DOMAIN JoinAll(k) = 1 .. k /\ Len(JoinAll(k)) = k
      /\ \A i \in 1 .. k : JoinAll(k)[i] = JoinThread(i + 1)
  BY DEF JoinAll, ForEach
<1> QED
  BY <1>1, MeetingFields DEF Profile, SequenceTyped, Jumps, PlainWrites, Straight

LEMMA OneTyped ==
    ASSUME NEW s, s.op \notin Jumps, s.op \notin PlainWrites, s.op # "destroy"
    PROVE  Profile(<<s>>, {}, {}) /\ Straight(<<s>>)
  BY DEF Profile, SequenceTyped, Straight

LEMMA StartAndJoinTyped ==
    ASSUME NEW k \in Nat, NEW s, s.op \notin Jumps, s.op \notin PlainWrites, s.op # "destroy"
    PROVE  /\ Profile(Times(k, <<Start>>) \o JoinAll(k) \o <<s>>, {}, {})
           /\ Straight(Times(k, <<Start>>) \o JoinAll(k) \o <<s>>)
<1>1. /\ Profile(Times(k, <<Start>>) \o JoinAll(k), {}, {})
      /\ Straight(Times(k, <<Start>>) \o JoinAll(k))
  BY StartTyped, JoinAllTyped, Concatenated
<1>2. Profile(<<s>>, {}, {}) /\ Straight(<<s>>)
  BY OneTyped
<1> QED
  BY <1>1, <1>2, Concatenated

LEMMA VariousThreadsTyped ==
    /\ DOMAIN VariousThreads = 1 .. 7
    /\ \A t \in 1 .. 7 : Profile(VariousThreads[t], {}, {})
<1>1. DOMAIN VariousThreads = 1 .. 7
  BY DEF VariousThreads, ForEach
<1>2. \A t \in 1 .. 7 : t # 1 => VariousThreads[t] = << Begin(t), Output(Function[t - 1]) >>
  BY DEF VariousThreads, Creation, ForEach
<1>3. VariousThreads[1] = Times(6, <<Start>>) \o JoinAll(6) \o << Read("oss") >>
  BY DEF VariousThreads, ForEach
<1>4. Profile(VariousThreads[1], {}, {})
  BY <1>3, StartAndJoinTyped, AccessFields DEF Jumps, PlainWrites
<1>5. \A t \in 1 .. 7 : t # 1 => Profile(VariousThreads[t], {}, {})
  BY <1>2, CreatedTyped
<1> QED
  BY <1>1, <1>4, <1>5

LEMMA CounterTestTyped ==
    DOMAIN run_threads = 1 .. 7 /\ \A t \in 1 .. 7 : Profile(run_threads[t], {}, {})
<1>1. DOMAIN run_threads = 1 .. 7
  BY DEF run_threads, ForEach
<1>2. \A t \in 1 .. 7 : t # 1 => run_threads[t] = << Begin(t), FetchAdd("counter") >>
  BY DEF run_threads, ForEach
<1>3. run_threads[1]
        = <<Store("counter", 0)>> \o Times(6, <<Start>>) \o JoinAll(6) \o << Load("counter") >>
  BY DEF run_threads, ForEach
<1>4. Profile(<<Store("counter", 0)>>, {}, {}) /\ Straight(<<Store("counter", 0)>>)
      /\ Profile(<<Load("counter")>>, {}, {}) /\ Straight(<<Load("counter")>>)
  BY OneTyped, AccessFields DEF Jumps, PlainWrites
<1>5. /\ Profile(<<Store("counter", 0)>> \o Times(6, <<Start>>), {}, {})
      /\ Straight(<<Store("counter", 0)>> \o Times(6, <<Start>>))
  BY <1>4, StartTyped, Concatenated
<1>6. /\ Profile(<<Store("counter", 0)>> \o Times(6, <<Start>>) \o JoinAll(6), {}, {})
      /\ Straight(<<Store("counter", 0)>> \o Times(6, <<Start>>) \o JoinAll(6))
  BY <1>5, JoinAllTyped, Concatenated
<1>7. Profile(run_threads[1], {}, {})
  BY <1>3, <1>4, <1>6, Concatenated
<1>8. \A t \in 1 .. 7 : t # 1 => Profile(run_threads[t], {}, {})
  BY <1>2, AddTyped
<1> QED
  BY <1>1, <1>7, <1>8

LEMMA DetachedTyped ==
    DOMAIN Detached = 1 .. 2 /\ \A t \in 1 .. 2 : Profile(Detached[t], {"timeout"}, {})
  BY DetachTyped, DaemonTyped, SmallerProfile DEF Detached, ForEach

LEMMA EndlessMainTyped ==
    DOMAIN Endless = 1 .. 3 /\ \A t \in 1 .. 3 : Profile(Endless[t], {}, {})
  BY EndlessTyped, WorkTyped DEF Endless, ForEach

LEMMA OwnedByCounterTyped ==
    DOMAIN OwnedByCounter = 1 .. 2 /\ \A t \in 1 .. 2 : Profile(OwnedByCounter[t], {}, {"callback", "running"})
  BY CounterTyped, CounterThreadTyped, SmallerProfile DEF OwnedByCounter, ForEach

LEMMA OwnedByTimerTyped ==
    DOMAIN OwnedByTimer = 1 .. 2 /\ \A t \in 1 .. 2 : Profile(OwnedByTimer[t], {}, {"callback", "interval", "val"})
  BY TimerTyped, TimerThreadTyped, SmallerProfile DEF OwnedByTimer, ForEach

LEMMA StopTokenMainTyped ==
    DOMAIN StopToken = 1 .. 2 /\ \A t \in 1 .. 2 : Profile(StopToken[t], {}, {})
  BY StopTokenTyped, StoppableTyped DEF StopToken, ForEach

LEMMA StopSourceMainTyped ==
    DOMAIN StopSource = 1 .. 3 /\ \A t \in 1 .. 3 : Profile(StopSource[t], {}, {})
<1>1. DOMAIN StopSource = 1 .. 3 /\ StopSource[2] = func_with_stop_token /\ StopSource[3] = stopper
  BY DEF StopSource, ForEach
<1> QED
  BY <1>1, StopSourceTyped, StoppableTyped, StopperTyped

LEMMA StartTogetherTyped ==
    /\ Profile(StartTogether, {}, {}) /\ Straight(StartTogether) /\ Len(StartTogether) = 2
    /\ StartTogether[1] = Arrive("start", NUM_THREADS)
    /\ StartTogether[2] = AwaitPhase("start", NUM_THREADS)
  BY MeetingFields
     DEF StartTogether, Profile, SequenceTyped, Straight, Jumps, PlainWrites

LEMMA NothingTyped ==
    \A W, D : Profile(<< >>, W, D) /\ Straight(<< >>) /\ Len(<< >>) = 0
  BY DEF Profile, SequenceTyped, Straight

LEMMA AtomicContentionTyped ==
    /\ DOMAIN BM_AtomicContention = 1 .. NUM_THREADS
    /\ \A t \in 1 .. NUM_THREADS : Profile(BM_AtomicContention[t], {}, {})
<1>1. DOMAIN BM_AtomicContention = 1 .. NUM_THREADS
  BY DEF BM_AtomicContention, ForEach
<1> SUFFICES ASSUME NEW t \in 1 .. NUM_THREADS PROVE Profile(BM_AtomicContention[t], {}, {})
  BY <1>1
<1> DEFINE a == IF t = 1 THEN << Store("counter", 0) >> ELSE << >>
           b == Times(ROUNDS, << FetchAdd("counter") >>)
<1>2. BM_AtomicContention[t] = a \o StartTogether \o b
  BY DEF BM_AtomicContention, ForEach
<1>3. Profile(<<Store("counter", 0)>>, {}, {}) /\ Straight(<<Store("counter", 0)>>)
      /\ Profile(<<FetchAdd("counter")>>, {}, {}) /\ Straight(<<FetchAdd("counter")>>)
  BY OneTyped, AccessFields DEF Jumps, PlainWrites
<1>4. Profile(a, {}, {}) /\ Straight(a)
  BY <1>3, NothingTyped
<1>5. Profile(b, {}, {}) /\ Straight(b)
  <2>1. ROUNDS \in Nat /\ Len(<<FetchAdd("counter")>>) # 0
    BY SizesAssumption
  <2> QED
    BY <1>3, <2>1, TimesTyped
<1> HIDE DEF a, b
<1>6. Profile(a \o StartTogether, {}, {}) /\ Straight(a \o StartTogether)
  BY <1>4, StartTogetherTyped, Concatenated
<1> QED
  BY <1>2, <1>5, <1>6, Concatenated

-----------------------------------------------------------------------------
(* The mains by their names.                                                *)
LEMMA CodeIs ==
    /\ Code["timed_mutex"] = TimedMutex
    /\ Code["run_once"] = RunOnce
    /\ Code["run_once_exceptions"] = RunOnceExceptions
    /\ Code["latches"] = Latches
    /\ Code["barriers"] = Barriers
    /\ Code["shared_mutex"] = ReadersAndWriters
    /\ Code["polling"] = Polling
    /\ Code["ready"] = WaitForReady
    /\ Code["two_promises"] = TwoPromises
    /\ Code["captured_exception"] = CapturedException
    /\ Code["fizz_buzz"] = FizzBuzz
    /\ Code["dining_by_turns"] = DiningByTurns
    /\ Code["dining_by_forks"] = DiningByForks
    /\ Code["creation"] = VariousThreads
    /\ Code["counter_test"] = run_threads
    /\ Code["arguments"] = Arguments
    /\ Code["results"] = Results
    /\ Code["detached"] = Detached
    /\ Code["wrappers"] = Wrappers
    /\ Code["endless"] = Endless
    /\ Code["counter"] = OwnedByCounter
    /\ Code["timer"] = OwnedByTimer
    /\ Code["stop_token"] = StopToken
    /\ Code["stop_source"] = StopSource
    /\ Code["thread_local"] = ThreadLocal
    /\ Code["cancellation"] = Cancellation
    /\ Code["new_thread"] = NewThread
    /\ Code["mutex_contention"] = BM_MutexContention
    /\ Code["atomic_contention"] = BM_AtomicContention
  BY DEF Code

-----------------------------------------------------------------------------
(* The mains whose threads write none of what they share, or nothing but    *)
(* what the exceptions of NoDataRace name, and the others.                  *)
Silent == {"timed_mutex", "run_once", "run_once_exceptions", "creation", "counter_test",
   "endless", "stop_token", "stop_source", "atomic_contention"}
Quiet == Silent \cup {"polling", "captured_exception", "detached", "counter", "timer"}
Busy == {"latches", "barriers", "shared_mutex", "ready", "two_promises", "fizz_buzz",
   "dining_by_turns", "dining_by_forks", "arguments", "results", "wrappers",
   "thread_local", "cancellation", "new_thread", "mutex_contention"}

LEMMA MainsAre == DOMAIN Code = Quiet \cup Busy
  BY DEF Code, Silent, Quiet, Busy

LEMMA SilentTyped ==
    \A p \in Silent : \A t \in DOMAIN Code[p] : Profile(Code[p][t], {}, {})
  BY CodeIs, TimedMutexTyped, RunOnceTyped, RunOnceExceptionsTyped, VariousThreadsTyped,
     CounterTestTyped, EndlessMainTyped, StopTokenMainTyped, StopSourceMainTyped,
     AtomicContentionTyped
     DEF Silent

LEMMA QuietTyped ==
    /\ \A t \in DOMAIN Code["polling"] : Profile(Code["polling"][t], {"counter"}, {})
    /\ \A t \in DOMAIN Code["captured_exception"] :
         Profile(Code["captured_exception"][t], {"captured_exception"}, {})
    /\ \A t \in DOMAIN Code["detached"] : Profile(Code["detached"][t], {"timeout"}, {})
    /\ \A t \in DOMAIN Code["counter"] :
         Profile(Code["counter"][t], {}, {"callback", "running"})
    /\ \A t \in DOMAIN Code["timer"] :
         Profile(Code["timer"][t], {}, {"callback", "interval", "val"})
  BY CodeIs, PollingTyped, CapturedExceptionTyped, DetachedTyped, OwnedByCounterTyped,
     OwnedByTimerTyped

LEMMA QuietCodeTyped == \A p \in Quiet : CodeTyped(Code[p])
  BY SilentTyped, QuietTyped DEF Quiet, CodeTyped, Profile

(* Where no thread races, nothing that is an exception is needed.           *)
LEMMA NoRace ==
    ASSUME RaceFree({}) PROVE NoDataRace
  BY DEF RaceFree, NoDataRace

LEMMA QuietMainsSafe ==
    ASSUME SyncBase, Destroyed, program \in Quiet PROVE AccessesSafe
<1>1. CASE program \in Silent
  <2>1. RaceFree({}) /\ dead \subseteq {}
    BY <1>1, SilentTyped, QuietSafe DEF Threads
  <2> QED
    BY <2>1, NoRace DEF AccessesSafe, NoUseAfterEnd
<1>2. CASE program = "polling"
  <2>1. RaceFree({"counter"}) /\ dead \subseteq {}
    BY <1>2, QuietTyped, QuietSafe DEF Threads
  <2> QED
    BY <1>2, <2>1 DEF AccessesSafe, NoUseAfterEnd, RaceFree, NoDataRace
<1>3. CASE program = "captured_exception"
  <2>1. RaceFree({"captured_exception"}) /\ dead \subseteq {}
    BY <1>3, QuietTyped, QuietSafe DEF Threads
  <2> QED
    BY <1>3, <2>1 DEF AccessesSafe, NoUseAfterEnd, RaceFree, NoDataRace
<1>4. CASE program = "detached"
  <2>1. RaceFree({"timeout"}) /\ dead \subseteq {}
    BY <1>4, QuietTyped, QuietSafe DEF Threads
  <2> QED
    BY <1>4, <2>1 DEF AccessesSafe, NoUseAfterEnd, RaceFree, NoDataRace
<1>5. CASE program = "counter"
  <2>1. RaceFree({}) /\ dead \subseteq {"callback", "running"}
    BY <1>5, QuietTyped, QuietSafe DEF Threads
  <2> QED
    BY <1>5, <2>1, NoRace DEF AccessesSafe, NoUseAfterEnd
<1>6. CASE program = "timer"
  <2>1. RaceFree({}) /\ dead \subseteq {"callback", "interval", "val"}
    BY <1>6, QuietTyped, QuietSafe DEF Threads
  <2> QED
    BY <1>6, <2>1, NoRace DEF AccessesSafe, NoUseAfterEnd
<1> QED
  BY <1>1, <1>2, <1>3, <1>4, <1>5, <1>6 DEF Quiet

-----------------------------------------------------------------------------
(* The threads of the mains that have few statements, one by one.           *)
LEMMA LatchesIs ==
    /\ DOMAIN Latches = 1 .. 5
    /\ \A t \in 1 .. 3 :
         /\ Len(Latches[t]) = 2 /\ DOMAIN Latches[t] = 1 .. 2
         /\ Latches[t][1] = Write(Slice[t], 1)
         /\ Latches[t][2] = Arrive("map_latch", 3)
    /\ /\ Len(Latches[4]) = 6 /\ DOMAIN Latches[4] = 1 .. 6
       /\ Latches[4][1] = AwaitLatch("map_latch", 3)
       /\ Latches[4][2] = Read(Slice[1])
       /\ Latches[4][3] = ReadAndAdd(Slice[2])
       /\ Latches[4][4] = ReadAndAdd(Slice[3])
       /\ Latches[4][5] = WriteSum("sum")
       /\ Latches[4][6] = Arrive("reduce_latch", 1)
    /\ /\ Len(Latches[5]) = 2 /\ DOMAIN Latches[5] = 1 .. 2
       /\ Latches[5][1] = AwaitLatch("reduce_latch", 1)
       /\ Latches[5][2] = Read("sum")
  BY DEF Latches, ForEach, map_thread, reduce_thread

LEMMA BarriersIs ==
    /\ DOMAIN Barriers = 1 .. 4
    /\ \A t \in 1 .. 3 :
         /\ Len(Barriers[t]) = 7 /\ DOMAIN Barriers[t] = 1 .. 7
         /\ Barriers[t][1] = Write(Slice[t], 1)
         /\ Barriers[t][2] = Arrive("map_barrier", 3)
         /\ Barriers[t][3] = AwaitPhase("map_barrier", 3)
         /\ Barriers[t][4] = Read(Sum[t])
         /\ Barriers[t][5] = ReadAndAdd(Slice[t])
         /\ Barriers[t][6] = WriteSum(Sum[t])
         /\ Barriers[t][7] = Arrive("map_barrier", 3)
    /\ /\ Len(Barriers[4]) = 4 /\ DOMAIN Barriers[4] = 1 .. 4
       /\ Barriers[4][1] = Join
       /\ Barriers[4][2] = Read(Sum[1])
       /\ Barriers[4][3] = ReadAndAdd(Sum[2])
       /\ Barriers[4][4] = ReadAndAdd(Sum[3])
  BY DEF Barriers, ForEach, worker_thread

LEMMA TwoPromisesIs ==
    /\ DOMAIN TwoPromises = 1 .. 2
    /\ /\ Len(TwoPromises[1]) = 4 /\ DOMAIN TwoPromises[1] = 1 .. 4
       /\ TwoPromises[1][1] = Write("numbers", 1)
       /\ TwoPromises[1][2] = Arrive("numbers_ready", 1)
       /\ TwoPromises[1][3] = Write("letters", 1)
       /\ TwoPromises[1][4] = Arrive("letters_ready", 1)
    /\ /\ Len(TwoPromises[2]) = 12 /\ DOMAIN TwoPromises[2] = 1 .. 12
       /\ TwoPromises[2][1] = AwaitLatch("numbers_ready", 1)
       /\ TwoPromises[2][2] = Write("numbers", 2)
       /\ TwoPromises[2][3] = WaitFor("letters_ready", 5)
       /\ TwoPromises[2][4] = Go(8)
       /\ TwoPromises[2][5] = Read("numbers")
       /\ TwoPromises[2][6] = Output("numbers")
       /\ TwoPromises[2][7] = Write("numbers", 0)
       /\ TwoPromises[2][8] = AwaitLatch("letters_ready", 1)
       /\ TwoPromises[2][9] = Read("numbers")
       /\ TwoPromises[2][10] = GoUnless(2, 12)
       /\ TwoPromises[2][11] = Output("numbers")
       /\ TwoPromises[2][12] = Read("letters")
  BY DEF TwoPromises, ForEach, input_data_thread, print_in_time

LEMMA ArgumentsIs ==
    /\ DOMAIN Arguments = 1 .. 6
    /\ /\ Len(Arguments[1]) = 13 /\ DOMAIN Arguments[1] = 1 .. 13
       /\ Arguments[1][1] = Start
       /\ Arguments[1][2] = JoinThread(2)
       /\ Arguments[1][3] = Start
       /\ Arguments[1][4] = JoinThread(3)
       /\ Arguments[1][5] = Read("str2")
       /\ Arguments[1][6] = Read("val")
       /\ Arguments[1][7] = Start
       /\ Arguments[1][8] = JoinThread(4)
       /\ Arguments[1][9] = Write("v", 1)
       /\ Arguments[1][10] = Start
       /\ Arguments[1][11] = JoinThread(5)
       /\ Arguments[1][12] = Start
       /\ Arguments[1][13] = JoinThread(6)
    /\ /\ Len(Arguments[2]) = 1 /\ DOMAIN Arguments[2] = 1 .. 1
       /\ Arguments[2][1] = Begin(2)
    /\ /\ Len(Arguments[3]) = 4 /\ DOMAIN Arguments[3] = 1 .. 4
       /\ Arguments[3][1] = Begin(3)
       /\ Arguments[3][2] = Write("str2", 1)
       /\ Arguments[3][3] = Read("val")
       /\ Arguments[3][4] = WriteNext("val")
    /\ /\ Len(Arguments[4]) = 2 /\ DOMAIN Arguments[4] = 1 .. 2
       /\ Arguments[4][1] = Begin(4)
       /\ Arguments[4][2] = Read("v")
    /\ /\ Len(Arguments[5]) = 1 /\ DOMAIN Arguments[5] = 1 .. 1
       /\ Arguments[5][1] = Begin(5)
    /\ /\ Len(Arguments[6]) = 2 /\ DOMAIN Arguments[6] = 1 .. 2
       /\ Arguments[6][1] = Begin(6)
       /\ Arguments[6][2] = Read("str5")
  BY DEF Arguments, ForEach, modifyValues

LEMMA ResultsIs ==
    /\ DOMAIN Results = 1 .. 4
    /\ /\ Len(Results[1]) = 9 /\ DOMAIN Results[1] = 1 .. 9
       /\ Results[1][1] = Start
       /\ Results[1][2] = JoinThread(2)
       /\ Results[1][3] = Read("result")
       /\ Results[1][4] = Start
       /\ Results[1][5] = JoinThread(3)
       /\ Results[1][6] = Read("result")
       /\ Results[1][7] = Start
       /\ Results[1][8] = JoinThread(4)
       /\ Results[1][9] = Read("result")
    /\ /\ Len(Results[2]) = 2 /\ DOMAIN Results[2] = 1 .. 2
       /\ Results[2][1] = Begin(2)
       /\ Results[2][2] = Write("result", 1)
    /\ /\ Len(Results[3]) = 2 /\ DOMAIN Results[3] = 1 .. 2
       /\ Results[3][1] = Begin(3)
       /\ Results[3][2] = Write("result", 2)
    /\ /\ Len(Results[4]) = 4 /\ DOMAIN Results[4] = 1 .. 4
       /\ Results[4][1] = Begin(4)
       /\ Results[4][2] = Lock("mtx")
       /\ Results[4][3] = Write("result", 3)
       /\ Results[4][4] = Unlock("mtx")
  BY DEF Results, ForEach, funcWithMutex

LEMMA WrappersIs ==
    /\ DOMAIN Wrappers = 1 .. 4
    /\ /\ Len(Wrappers[1]) = 18 /\ DOMAIN Wrappers[1] = 1 .. 18
       /\ Wrappers[1][1] = Start
       /\ Wrappers[1][2] = Write(Name[1], 1)
       /\ Wrappers[1][3] = Read(Name[1])
       /\ Wrappers[1][4] = Start
       /\ Wrappers[1][5] = Write(Name[2], 1)
       /\ Wrappers[1][6] = Read(Name[2])
       /\ Wrappers[1][7] = Start
       /\ Wrappers[1][8] = Write(Name[3], 1)
       /\ Wrappers[1][9] = Read(Name[3])
       /\ Wrappers[1][10] = Read(Name[3])
       /\ Wrappers[1][11] = Destroy(Name[3])
       /\ Wrappers[1][12] = JoinThread(4)
       /\ Wrappers[1][13] = Read(Name[2])
       /\ Wrappers[1][14] = Destroy(Name[2])
       /\ Wrappers[1][15] = JoinThread(3)
       /\ Wrappers[1][16] = Read(Name[1])
       /\ Wrappers[1][17] = Destroy(Name[1])
       /\ Wrappers[1][18] = JoinThread(2)
    /\ \A t \in 2 .. 4 :
         /\ Len(Wrappers[t]) = 1 /\ DOMAIN Wrappers[t] = 1 .. 1
         /\ Wrappers[t][1] = Begin(t)
  BY DEF Wrappers, ForEach, JthreadWrapper, JthreadWrapperDestructor

LEMMA CancellationIs ==
    /\ DOMAIN Cancellation = 1 .. 3
    /\ Len(Cancellation[1]) = 9 /\ DOMAIN Cancellation[1] = 1 .. 9
       /\ Cancellation[1][1] = Start
       /\ Cancellation[1][2] = Start
       /\ Cancellation[1][3] = Store("cancellation_token", 1)
       /\ Cancellation[1][4] = AwaitLatch(Ready[1], 1)
       /\ Cancellation[1][5] = Read(Result[1])
       /\ Cancellation[1][6] = AwaitLatch(Ready[2], 1)
       /\ Cancellation[1][7] = ReadAndAdd(Result[2])
       /\ Cancellation[1][8] = JoinThread(3)
       /\ Cancellation[1][9] = JoinThread(2)
    /\ \A t \in 2 .. 3 : Cancellation[t] = long_running_task(t - 1)
  BY DEF Cancellation, ForEach

LEMMA LongRunningTaskIs ==
    \A i : LET c == long_running_task(i) IN
      /\ Len(c) = 9 /\ DOMAIN c = 1 .. 9
      /\ c[1] = Begin(i + 1) /\ c[2] = Draw /\ c[3] = GoUnless(1, 7)
      /\ c[4] = Load("cancellation_token") /\ c[5] = GoUnless(1, 2)
      /\ c[6] = Output("cancelled") /\ c[7] = Load("cancellation_token")
      /\ c[8] = WriteSum(Result[i]) /\ c[9] = Arrive(Ready[i], 1)
  BY DEF long_running_task

LEMMA CancellationTasks ==
    \A t \in 2 .. 3 :
      /\ Len(Cancellation[t]) = 9 /\ DOMAIN Cancellation[t] = 1 .. 9
      /\ Cancellation[t][1] = Begin(t) /\ Cancellation[t][2] = Draw
      /\ Cancellation[t][3] = GoUnless(1, 7)
      /\ Cancellation[t][4] = Load("cancellation_token")
      /\ Cancellation[t][5] = GoUnless(1, 2)
      /\ Cancellation[t][6] = Output("cancelled")
      /\ Cancellation[t][7] = Load("cancellation_token")
      /\ Cancellation[t][8] = WriteSum(Result[t - 1])
      /\ Cancellation[t][9] = Arrive(Ready[t - 1], 1)
<1> SUFFICES ASSUME NEW t \in 2 .. 3
             PROVE  LET c == Cancellation[t] IN
      /\ Len(c) = 9 /\ DOMAIN c = 1 .. 9
      /\ c[1] = Begin(t) /\ c[2] = Draw /\ c[3] = GoUnless(1, 7)
      /\ c[4] = Load("cancellation_token") /\ c[5] = GoUnless(1, 2)
      /\ c[6] = Output("cancelled") /\ c[7] = Load("cancellation_token")
      /\ c[8] = WriteSum(Result[t - 1]) /\ c[9] = Arrive(Ready[t - 1], 1)
  OBVIOUS
<1>1. Cancellation[t] = long_running_task(t - 1) /\ (t - 1) + 1 = t
  BY CancellationIs
<1>2. PICK i : i = t - 1
  OBVIOUS
<1>3. Cancellation[t] = long_running_task(i) /\ i + 1 = t
  BY <1>1, <1>2
<1> QED
  BY <1>2, <1>3, LongRunningTaskIs

LEMMA NewThreadIs ==
    /\ DOMAIN NewThread = 1 .. 2
    /\ /\ Len(NewThread[1]) = 7 /\ DOMAIN NewThread[1] = 1 .. 7
       /\ NewThread[1][1] = Write("frame", 1)
       /\ NewThread[1][2] = Read("frame")
       /\ NewThread[1][3] = Read("out")
       /\ NewThread[1][4] = Start
       /\ NewThread[1][5] = Write("out", 1)
       /\ NewThread[1][6] = Read("out")
       /\ NewThread[1][7] = JoinThread(2)
    /\ /\ Len(NewThread[2]) = 3 /\ DOMAIN NewThread[2] = 1 .. 3
       /\ NewThread[2][1] = Begin(2)
       /\ NewThread[2][2] = Read("frame")
       /\ NewThread[2][3] = Destroy("frame")
  BY DEF NewThread, ForEach, await_suspend, resume

LEMMA WaitForReadyIs ==
    /\ DOMAIN WaitForReady = 1 .. NUM_THREADS + 1
    /\ \A t \in 1 .. NUM_THREADS :
         /\ Len(WaitForReady[t]) = 4 /\ DOMAIN WaitForReady[t] = 1 .. 4
         /\ WaitForReady[t][1] = Lock("mtx")
         /\ WaitForReady[t][2] = WaitUntil("mtx", "ready", 1)
         /\ WaitForReady[t][3] = Read("shared_data")
         /\ WaitForReady[t][4] = Unlock("mtx")
    /\ /\ Len(WaitForReady[NUM_THREADS + 1]) = 5 /\ DOMAIN WaitForReady[NUM_THREADS + 1] = 1 .. 5
       /\ WaitForReady[NUM_THREADS + 1][1] = Lock("mtx")
       /\ WaitForReady[NUM_THREADS + 1][2] = Write("shared_data", 5)
       /\ WaitForReady[NUM_THREADS + 1][3] = Write("ready", 1)
       /\ WaitForReady[NUM_THREADS + 1][4] = Unlock("mtx")
       /\ WaitForReady[NUM_THREADS + 1][5] = NotifyEverybody
  BY SizesAssumption DEF WaitForReady, ForEach

-----------------------------------------------------------------------------
(* What a step of thread t does, by the statement that it executes.         *)
Executes(t, s) ==
    /\ t \in Threads /\ program' = program /\ Threads' = Threads
    /\ pc[t] \in DOMAIN Code[program][t] /\ s = Code[program][t][pc[t]]
    /\ s.object \in Objects
    /\ \A u \in Threads \ {t} : pc'[u] = pc[u] /\ register'[u] = register[u]
    /\ pc'[t] \in Nat
    /\ s.op \notin Jumps \cup {"wait_until", "lock_both"} => pc'[t] = pc[t] + 1
    /\ s.op \in Jumps => pc'[t] = pc[t] + 1 \/ pc'[t] = s.target
    /\ \A o \in Objects : o # s.object \/ s.op \notin Changes => value'[o] = value[o]
    /\ s.op = "arrive" => /\ value'[s.object] = value[s.object] + 1
                          /\ register'[t] = value[s.object] \div s.value
    /\ s.op = "await_latch" => value[s.object] >= s.value
    /\ s.op = "wait_for" /\ pc'[t] # s.target => value[s.object] >= s.value
    /\ s.op = "await_phase" => value[s.object] \div s.value # register[t]
    /\ s.op = "join" => \A u \in Threads \ {t} : AtEnd(u)
    /\ s.op = "join_thread" => AtEnd(s.value)
    /\ dead' = IF s.op = "destroy" THEN dead \cup {s.object} ELSE dead

LEMMA StepExecutes ==
    ASSUME SyncBase, NEW t, Steps(t) PROVE Executes(t, Code[program][t][pc[t]])
<1> DEFINE s == Current(t)
<1>0. s = Code[program][t][pc[t]]
  BY DEF Current
<1>1. /\ t \in Threads /\ program' = program /\ pc[t] \in DOMAIN Code[program][t]
      /\ s.object \in Objects /\ Stays /\ Moves(t) /\ Waits(t) /\ Sets(t)
  BY DEF Steps
<1>2. Threads' = Threads
  BY <1>1, SameCode
<1>3. /\ \A u \in Threads \ {t} : pc'[u] = pc[u] /\ register'[u] = register[u]
      /\ pc'[t] \in Nat
      /\ s.op \notin Jumps \cup {"wait_until", "lock_both"} => pc'[t] = pc[t] + 1
      /\ s.op \in Jumps => pc'[t] = pc[t] + 1 \/ pc'[t] = s.target
  BY <1>1 DEF Moves, Stays, Jumps
<1>4. /\ \A o \in Objects : o # s.object \/ s.op \notin Changes => value'[o] = value[o]
      /\ s.op = "arrive" => /\ value'[s.object] = value[s.object] + 1
                            /\ register'[t] = value[s.object] \div s.value
      /\ dead' = IF s.op = "destroy" THEN dead \cup {s.object} ELSE dead
  BY <1>1 DEF Sets
<1>5. /\ s.op = "await_latch" => value[s.object] >= s.value
      /\ s.op = "wait_for" /\ pc'[t] # s.target => value[s.object] >= s.value
      /\ s.op = "await_phase" => value[s.object] \div s.value # register[t]
      /\ s.op = "join" => \A u \in Threads \ {t} : AtEnd(u)
      /\ s.op = "join_thread" => AtEnd(s.value)
  BY <1>1 DEF Waits
<1> HIDE DEF s
<1>6. Executes(t, s)
  BY <1>0, <1>1, <1>2, <1>3, <1>4, <1>5 DEF Executes
<1> QED
  BY <1>0, <1>6

LEMMA IsObject ==
    ASSUME NEW t \in Threads, NEW i \in DOMAIN Code[program][t]
    PROVE  Code[program][t][i].object \in Objects
  BY DEF Objects, ObjectsOf, Threads

(* Threads t and u are about to access the same plain object, t writing it. *)
Collide(t, u) ==
    LET s == Code[program][t][pc[t]]
        r == Code[program][u][pc[u]]
    IN  /\ t # u /\ pc[t] \in DOMAIN Code[program][t] /\ pc[u] \in DOMAIN Code[program][u]
        /\ s.op \in PlainWrites /\ r.op \in PlainAccesses /\ s.object = r.object
        /\ r.op = "wait_until" => u \in owner[r.target]

(* A main is free of races if no two of its threads collide.                *)
LEMMA NoCollision ==
    ASSUME SyncBase, CodeTyped(Code[program]), \A t, u \in Threads : ~ Collide(t, u)
    PROVE  RaceFree({})
<1> SUFFICES ASSUME NEW t \in Threads, Writes(t), NEW u \in Threads \ {t}
             PROVE  Accesses(t) \cap Accesses(u) = {}
  BY DEF RaceFree
<1>1. ASSUME Accesses(t) \cap Accesses(u) # {} PROVE Collide(t, u)
  <2>1. Accesses(t) # {} /\ Accesses(u) # {}
    BY <1>1
  <2>2. /\ ~ AtEnd(t) /\ Current(t).op \in PlainWrites /\ Accesses(t) = {Current(t).object}
        /\ ~ AtEnd(u) /\ Current(u).op \in PlainAccesses /\ Accesses(u) = {Current(u).object}
        /\ Current(u).op = "wait_until" => u \in owner[Current(u).target]
    BY <2>1, WriteAccess
  <2>3. Current(t).object = Current(u).object
    BY <1>1, <2>2
  <2>4. pc[t] \in DOMAIN Code[program][t] /\ pc[u] \in DOMAIN Code[program][u]
    BY <2>2, AtStatement
  <2> QED
    BY <2>2, <2>3, <2>4 DEF Collide, Current
<1> QED
  BY <1>1

-----------------------------------------------------------------------------
(* chapter_04/program_07a: the latches count the maps and the reduce that are*)
(* over, and nobody passes a latch before those that it waits for.          *)
LatchesInv ==
    /\ value["map_latch"] = (IF pc[1] > 2 THEN 1 ELSE 0) + (IF pc[2] > 2 THEN 1 ELSE 0)
                            + (IF pc[3] > 2 THEN 1 ELSE 0)
    /\ pc[4] > 1 => \A t \in 1 .. 3 : pc[t] > 2
    /\ value["reduce_latch"] = IF pc[4] > 6 THEN 1 ELSE 0
    /\ pc[5] > 1 => pc[4] > 6

LEMMA SliceNames ==
    /\ \A t \in 1 .. 3 : Slice[t] \notin {"map_latch", "reduce_latch", "sum"}
    /\ \A t, u \in 1 .. 3 : Slice[t] = Slice[u] => t = u
  BY DEF Slice

LEMMA LatchesKept ==
    ASSUME SyncBase, program = "latches", LatchesInv, NEW t, Steps(t)
    PROVE  LatchesInv'
<1>0. Code[program] = Latches /\ Threads = 1 .. 5
  BY CodeIs, LatchesIs DEF Threads
<1>1. "map_latch" \in Objects /\ "reduce_latch" \in Objects
  BY <1>0, IsObject, LatchesIs, MeetingFields
<1> DEFINE s == Latches[t][pc[t]]
<1>2. Executes(t, s) /\ t \in 1 .. 5
  BY <1>0, StepExecutes DEF Steps
<1>3. \A u \in 1 .. 5 : pc[u] \in Nat
  BY <1>0, PlacesAreNumbers
<1>4. CASE t \in 1 .. 3 /\ pc[t] = 1
  <2>1. s.op = "write" /\ s.object = Slice[t]
    BY <1>4, LatchesIs, AccessFields
  <2>2. pc'[t] = 2 /\ \A u \in 1 .. 5 \ {t} : pc'[u] = pc[u]
    BY <1>0, <1>2, <1>4, <2>1 DEF Executes, Jumps
  <2>3. value'["map_latch"] = value["map_latch"] /\ value'["reduce_latch"] = value["reduce_latch"]
    BY <1>1, <1>2, <1>4, <2>1, SliceNames DEF Executes
  <2> QED
    BY <1>3, <1>4, <2>2, <2>3 DEF LatchesInv
<1>5. CASE t \in 1 .. 3 /\ pc[t] = 2
  <2>1. s.op = "arrive" /\ s.object = "map_latch"
    BY <1>5, LatchesIs, MeetingFields
  <2>2. pc'[t] = 3 /\ \A u \in 1 .. 5 \ {t} : pc'[u] = pc[u]
    BY <1>0, <1>2, <1>5, <2>1 DEF Executes, Jumps
  <2>3. value'["map_latch"] = value["map_latch"] + 1 /\ value'["reduce_latch"] = value["reduce_latch"]
    BY <1>1, <1>2, <1>5, <2>1 DEF Executes
  <2> QED
    BY <1>3, <1>5, <2>2, <2>3 DEF LatchesInv
<1>6. CASE t = 4
  <2>1. pc[4] \in 1 .. 6
    BY <1>0, <1>2, <1>6, LatchesIs DEF Executes
  <2>2. /\ pc[4] = 1 => s.op = "await_latch" /\ s.object = "map_latch" /\ s.value = 3
        /\ pc[4] \in 2 .. 5 => s.op \in {"read", "read_and_add", "write_next"}
                               /\ s.object \in {Slice[1], Slice[2], Slice[3], "sum"}
        /\ pc[4] = 6 => s.op = "arrive" /\ s.object = "reduce_latch"
    BY <1>6, <2>1, LatchesIs, MeetingFields, AccessFields
  <2>3. pc'[t] = pc[t] + 1 /\ \A u \in 1 .. 5 \ {t} : pc'[u] = pc[u]
    BY <1>0, <1>2, <1>6, <2>1, <2>2 DEF Executes, Jumps
  <2>4. /\ value'["map_latch"] = value["map_latch"]
        /\ pc[4] = 1 => value["map_latch"] >= 3
        /\ value'["reduce_latch"] = value["reduce_latch"] + (IF pc[4] = 6 THEN 1 ELSE 0)
    BY <1>1, <1>2, <1>6, <2>1, <2>2, SliceNames DEF Executes, Changes, LatchesInv
  <2> QED
    BY <1>3, <1>6, <2>1, <2>3, <2>4 DEF LatchesInv
<1>7. CASE t = 5
  <2>1. pc[5] \in 1 .. 2
    BY <1>0, <1>2, <1>7, LatchesIs DEF Executes
  <2>2. /\ pc[5] = 1 => s.op = "await_latch" /\ s.object = "reduce_latch" /\ s.value = 1
        /\ pc[5] = 2 => s.op = "read"
    BY <1>7, <2>1, LatchesIs, MeetingFields, AccessFields
  <2>3. pc'[t] = pc[t] + 1 /\ \A u \in 1 .. 5 \ {t} : pc'[u] = pc[u]
    BY <1>0, <1>2, <1>7, <2>1, <2>2 DEF Executes, Jumps
  <2>4. /\ value'["map_latch"] = value["map_latch"]
        /\ pc[5] = 1 => value["reduce_latch"] >= 1
        /\ value'["reduce_latch"] = value["reduce_latch"]
    BY <1>1, <1>2, <1>7, <2>1, <2>2 DEF Executes, Changes
  <2> QED
    BY <1>3, <1>7, <2>1, <2>3, <2>4 DEF LatchesInv
<1> QED
  <2>1. t \in 1 .. 3 => pc[t] \in 1 .. 2
    BY <1>0, <1>2, LatchesIs DEF Executes
  <2> QED
    BY <1>2, <1>4, <1>5, <1>6, <1>7, <2>1

LEMMA LatchesSafe ==
    ASSUME SyncBase, program = "latches", LatchesInv, NEW t \in Threads, NEW u \in Threads
    PROVE  ~ Collide(t, u)
<1>0. Code[program] = Latches /\ Threads = 1 .. 5
  BY CodeIs, LatchesIs DEF Threads
<1> SUFFICES ASSUME Collide(t, u) PROVE FALSE
  OBVIOUS
<1> DEFINE s == Latches[t][pc[t]]
           r == Latches[u][pc[u]]
<1>1. /\ t # u /\ pc[t] \in DOMAIN Latches[t] /\ pc[u] \in DOMAIN Latches[u]
      /\ s.op \in PlainWrites /\ r.op \in PlainAccesses /\ s.object = r.object
  BY <1>0 DEF Collide
<1>2. \/ t \in 1 .. 3 /\ pc[t] = 1 /\ s.object = Slice[t]
      \/ t = 4 /\ pc[t] = 5 /\ s.object = "sum"
  BY <1>0, <1>1, LatchesIs, AccessFields, MeetingFields DEF PlainWrites
<1>3. \/ u \in 1 .. 3 /\ pc[u] = 1 /\ r.object = Slice[u]
      \/ u = 4 /\ pc[u] > 1
      \/ u = 5 /\ pc[u] = 2 /\ r.object = "sum"
  BY <1>0, <1>1, LatchesIs, AccessFields, MeetingFields DEF PlainAccesses, PlainWrites
<1> HIDE DEF s, r
<1> QED
  BY <1>1, <1>2, <1>3, SliceNames DEF LatchesInv

-----------------------------------------------------------------------------
(* chapter_04/program_07b: an arrival at the barrier counts once for each   *)
(* phase, and a thread adds what it shares only when all have doubled theirs.*)
BarriersInv ==
    /\ value["map_barrier"]
         = (IF pc[1] > 7 THEN 2 ELSE IF pc[1] > 2 THEN 1 ELSE 0)
           + (IF pc[2] > 7 THEN 2 ELSE IF pc[2] > 2 THEN 1 ELSE 0)
           + (IF pc[3] > 7 THEN 2 ELSE IF pc[3] > 2 THEN 1 ELSE 0)
    /\ \A t \in 1 .. 3 : pc[t] = 3 => register[t] = 0
    /\ \A t \in 1 .. 3 : pc[t] > 3 => \A u \in 1 .. 3 : pc[u] > 2
    /\ pc[4] > 1 => \A t \in 1 .. 3 : pc[t] > 7

LEMMA BarrierNames ==
    /\ \A t \in 1 .. 3 : Slice[t] # "map_barrier" /\ Sum[t] # "map_barrier"
    /\ \A t, u \in 1 .. 3 : Slice[t] = Slice[u] => t = u
    /\ \A t, u \in 1 .. 3 : Sum[t] = Sum[u] => t = u
    /\ \A t, u \in 1 .. 3 : Slice[t] # Sum[u]
  BY DEF Slice, Sum

LEMMA BarriersKept ==
    ASSUME SyncBase, program = "barriers", BarriersInv, NEW t, Steps(t)
    PROVE  BarriersInv'
<1>0. Code[program] = Barriers /\ Threads = 1 .. 4
  BY CodeIs, BarriersIs DEF Threads
<1>1. "map_barrier" \in Objects
  BY <1>0, IsObject, BarriersIs, MeetingFields
<1> DEFINE s == Barriers[t][pc[t]]
<1>2. Executes(t, s) /\ t \in 1 .. 4
  BY <1>0, StepExecutes DEF Steps
<1>3. \A u \in 1 .. 4 : pc[u] \in Nat
  BY <1>0, PlacesAreNumbers
<1>4. CASE t \in 1 .. 3
  <2>1. pc[t] \in 1 .. 7
    BY <1>0, <1>2, <1>4, BarriersIs DEF Executes
  <2>2. /\ pc[t] \in {1, 4, 5, 6} => s.op \in {"write", "read", "read_and_add", "write_next"}
                                     /\ s.object \in {Slice[t], Sum[t]}
        /\ pc[t] \in {2, 7} => s.op = "arrive" /\ s.object = "map_barrier" /\ s.value = 3
        /\ pc[t] = 3 => s.op = "await_phase" /\ s.object = "map_barrier" /\ s.value = 3
    BY <1>4, <2>1, BarriersIs, MeetingFields, AccessFields
  <2>3. pc'[t] = pc[t] + 1
    BY <1>2, <2>1, <2>2 DEF Executes, Jumps
  <2>4. \A u \in 1 .. 4 \ {t} : pc'[u] = pc[u] /\ register'[u] = register[u]
    BY <1>0, <1>2 DEF Executes
  <2>5. /\ pc[t] = 2 => register'[t] = value["map_barrier"] \div 3
        /\ pc[t] = 3 => value["map_barrier"] \div 3 # register[t]
        /\ value'["map_barrier"]
             = value["map_barrier"] + (IF pc[t] \in {2, 7} THEN 1 ELSE 0)
    <3>1. CASE pc[t] \in {1, 4, 5, 6}
      BY <1>1, <1>2, <1>4, <2>1, <2>2, <3>1, BarrierNames DEF Executes, BarriersInv
    <3>2. CASE pc[t] \in {2, 7}
      BY <1>1, <1>2, <2>1, <2>2, <3>2 DEF Executes
    <3>3. CASE pc[t] = 3
      BY <1>1, <1>2, <2>1, <2>2, <3>3 DEF Executes, Changes, BarriersInv
    <3> QED
      BY <2>1, <3>1, <3>2, <3>3
  <2>6. pc[t] = 2 => register'[t] = 0
    BY <1>3, <1>4, <2>5 DEF BarriersInv
  <2>7. pc[t] = 3 => \A u \in 1 .. 3 : pc[u] > 2
    <3> SUFFICES ASSUME pc[t] = 3, NEW w \in 1 .. 3, pc[w] <= 2 PROVE FALSE
      BY <1>3
    <3>1. \A u \in 1 .. 3 : pc[u] <= 3
      BY <1>3 DEF BarriersInv
    <3>2. value["map_barrier"] \in 0 .. 2
      BY <1>3, <3>1 DEF BarriersInv
    <3> QED
      BY <1>4, <2>5, <3>2 DEF BarriersInv
  <2>8. value'["map_barrier"]
         = (IF pc'[1] > 7 THEN 2 ELSE IF pc'[1] > 2 THEN 1 ELSE 0)
           + (IF pc'[2] > 7 THEN 2 ELSE IF pc'[2] > 2 THEN 1 ELSE 0)
           + (IF pc'[3] > 7 THEN 2 ELSE IF pc'[3] > 2 THEN 1 ELSE 0)
    BY <1>3, <1>4, <2>1, <2>3, <2>4, <2>5 DEF BarriersInv
  <2> QED
    BY <1>3, <1>4, <2>1, <2>3, <2>4, <2>6, <2>7, <2>8 DEF BarriersInv
<1>5. CASE t = 4
  <2>1. pc[4] \in 1 .. 4
    BY <1>0, <1>2, <1>5, BarriersIs DEF Executes
  <2>2. pc[4] = 1 => s.op = "join"
    BY <1>5, BarriersIs, MeetingFields
  <2>3. pc[4] > 1 => s.op \in {"read", "read_and_add"}
    BY <1>5, <2>1, BarriersIs, AccessFields
  <2>4. pc'[4] = pc[4] + 1
    BY <1>2, <1>5, <2>1, <2>2, <2>3 DEF Executes, Jumps
  <2>5. \A u \in 1 .. 3 : pc'[u] = pc[u] /\ register'[u] = register[u]
    BY <1>0, <1>2, <1>5 DEF Executes
  <2>6. value'["map_barrier"] = value["map_barrier"]
    BY <1>1, <1>2, <2>1, <2>2, <2>3 DEF Executes, Changes
  <2>7. pc[4] = 1 => \A u \in 1 .. 3 : AtEnd(u)
    BY <1>0, <1>2, <1>5, <2>2 DEF Executes
  <2>8. pc[4] = 1 => \A u \in 1 .. 3 : pc[u] > 7
    BY <1>0, <2>7, BarriersIs DEF AtEnd
  <2> QED
    BY <1>3, <2>1, <2>4, <2>5, <2>6, <2>8 DEF BarriersInv
<1> QED
  BY <1>2, <1>4, <1>5

LEMMA BarriersSafe ==
    ASSUME SyncBase, program = "barriers", BarriersInv, NEW t \in Threads, NEW u \in Threads
    PROVE  ~ Collide(t, u)
<1>0. Code[program] = Barriers /\ Threads = 1 .. 4
  BY CodeIs, BarriersIs DEF Threads
<1> SUFFICES ASSUME Collide(t, u) PROVE FALSE
  OBVIOUS
<1> DEFINE s == Barriers[t][pc[t]]
           r == Barriers[u][pc[u]]
<1>1. /\ t # u /\ pc[t] \in DOMAIN Barriers[t] /\ pc[u] \in DOMAIN Barriers[u]
      /\ s.op \in PlainWrites /\ r.op \in PlainAccesses /\ s.object = r.object
  BY <1>0 DEF Collide
<1>2. t \in 1 .. 3 /\ pc[t] \in 1 .. 7 /\ s.object \in {Slice[t], Sum[t]}
  BY <1>0, <1>1, BarriersIs, AccessFields, MeetingFields DEF PlainWrites
<1>3. \/ u \in 1 .. 3 /\ r.object \in {Slice[u], Sum[u]}
      \/ u = 4 /\ pc[u] > 1
  BY <1>0, <1>1, BarriersIs, AccessFields, MeetingFields DEF PlainAccesses, PlainWrites
<1> HIDE DEF s, r
<1> QED
  BY <1>1, <1>2, <1>3, BarrierNames DEF BarriersInv

-----------------------------------------------------------------------------
(* chapter_06/program_03: the promises are set in turn, and main() reads what*)
(* each of them announces after it has been set.                            *)
TwoPromisesInv ==
    /\ value["numbers_ready"] = IF pc[1] > 2 THEN 1 ELSE 0
    /\ value["letters_ready"] = IF pc[1] > 4 THEN 1 ELSE 0
    /\ pc[2] > 1 => pc[1] > 2
    /\ pc[2] > 8 => pc[1] > 4

LEMMA TwoPromisesKept ==
    ASSUME SyncBase, program = "two_promises", TwoPromisesInv, NEW t, Steps(t)
    PROVE  TwoPromisesInv'
<1>0. Code[program] = TwoPromises /\ Threads = 1 .. 2
  BY CodeIs, TwoPromisesIs DEF Threads
<1>1. "numbers_ready" \in Objects /\ "letters_ready" \in Objects
  BY <1>0, IsObject, TwoPromisesIs, MeetingFields, AccessFields
<1> DEFINE s == TwoPromises[t][pc[t]]
<1>2. Executes(t, s) /\ t \in 1 .. 2
  BY <1>0, StepExecutes DEF Steps
<1>3. \A u \in 1 .. 2 : pc[u] \in Nat
  BY <1>0, PlacesAreNumbers
<1>4. CASE t = 1
  <2>1. pc[t] \in 1 .. 4 /\ pc[t] \in DOMAIN TwoPromises[t]
    BY <1>0, <1>2, <1>4, TwoPromisesIs DEF Executes
  <2>2. /\ pc[t] \in {1, 3} => s.op = "write" /\ s.object \in {"numbers", "letters"}
        /\ pc[t] = 2 => s.op = "arrive" /\ s.object = "numbers_ready"
        /\ pc[t] = 4 => s.op = "arrive" /\ s.object = "letters_ready"
    BY <1>4, <2>1, TwoPromisesIs, MeetingFields, AccessFields, LockFields
  <2>3. pc'[t] = pc[t] + 1
    BY <1>2, <2>1, <2>2 DEF Executes, Jumps
  <2>4. \A u \in 1 .. 2 \ {t} : pc'[u] = pc[u] /\ register'[u] = register[u]
    BY <1>0, <1>2 DEF Executes
  <2>5. value'["numbers_ready"] = value["numbers_ready"] + (IF pc[t] = 2 THEN 1 ELSE 0)
    BY <1>0, <1>1, <1>2, <1>4, <2>1, <2>2 DEF Executes, Changes, TwoPromisesInv
  <2>6. value'["letters_ready"] = value["letters_ready"] + (IF pc[t] = 4 THEN 1 ELSE 0)
    BY <1>0, <1>1, <1>2, <1>4, <2>1, <2>2 DEF Executes, Changes, TwoPromisesInv
  <2> QED
    BY <1>3, <1>4, <2>1, <2>3, <2>4, <2>5, <2>6 DEF TwoPromisesInv
<1>5. CASE t = 2
  <2>1. pc[t] \in 1 .. 12 /\ pc[t] \in DOMAIN TwoPromises[t]
    BY <1>0, <1>2, <1>5, TwoPromisesIs DEF Executes
  <2>2. /\ pc[t] \in {2, 5, 6, 7, 9, 11, 12} =>
             s.op \in {"write", "read", "print"} /\ s.object \in {"numbers", "letters", "sync_cout"}
        /\ pc[t] = 1 => s.op = "await_latch" /\ s.object = "numbers_ready" /\ s.value = 1
        /\ pc[t] = 8 => s.op = "await_latch" /\ s.object = "letters_ready" /\ s.value = 1
        /\ pc[t] = 3 => s.op = "wait_for" /\ s.target = 5
        /\ pc[t] = 4 => s.op = "go" /\ s.target = 8
        /\ pc[t] = 10 => s.op = "go_unless" /\ s.target = 12
    BY <1>5, <2>1, TwoPromisesIs, MeetingFields, AccessFields, LockFields
  <2>3. /\ pc'[t] = pc[t] + 1 \/ pc[t] \in {3, 4, 10}
        /\ pc[t] = 3 => pc'[t] \in {4, 5}
        /\ pc[t] = 4 => pc'[t] \in {5, 8}
        /\ pc[t] = 10 => pc'[t] \in {11, 12}
    BY <1>2, <2>1, <2>2 DEF Executes, Jumps
  <2>4. \A u \in 1 .. 2 \ {t} : pc'[u] = pc[u] /\ register'[u] = register[u]
    BY <1>0, <1>2 DEF Executes
  <2>5. value'["numbers_ready"] = value["numbers_ready"]
    BY <1>0, <1>1, <1>2, <1>5, <2>1, <2>2 DEF Executes, Changes, TwoPromisesInv
  <2>6. value'["letters_ready"] = value["letters_ready"]
    BY <1>0, <1>1, <1>2, <1>5, <2>1, <2>2 DEF Executes, Changes, TwoPromisesInv
  <2>7. pc[t] = 1 => value["numbers_ready"] >= 1
    BY <1>0, <1>1, <1>2, <1>5, <2>1, <2>2 DEF Executes, Changes, TwoPromisesInv
  <2>8. pc[t] = 8 => value["letters_ready"] >= 1
    BY <1>0, <1>1, <1>2, <1>5, <2>1, <2>2 DEF Executes, Changes, TwoPromisesInv
  <2> QED
    BY <1>3, <1>5, <2>1, <2>3, <2>4, <2>5, <2>6, <2>7, <2>8 DEF TwoPromisesInv
<1> QED
  BY <1>2, <1>4, <1>5

LEMMA TwoPromisesSafe ==
    ASSUME SyncBase, program = "two_promises", TwoPromisesInv, NEW t \in Threads, NEW u \in Threads
    PROVE  ~ Collide(t, u)
<1>0. Code[program] = TwoPromises /\ Threads = 1 .. 2
  BY CodeIs, TwoPromisesIs DEF Threads
<1> SUFFICES ASSUME Collide(t, u) PROVE FALSE
  OBVIOUS
<1> DEFINE s == TwoPromises[t][pc[t]]
           r == TwoPromises[u][pc[u]]
<1>1. /\ t # u /\ pc[t] \in DOMAIN TwoPromises[t] /\ pc[u] \in DOMAIN TwoPromises[u]
      /\ s.op \in PlainWrites /\ r.op \in PlainAccesses /\ s.object = r.object
  BY <1>0 DEF Collide
<1>2. \/ t = 1 /\ pc[1] = 1 /\ s.object = "numbers"
      \/ t = 1 /\ pc[1] = 3 /\ s.object = "letters"
      \/ t = 2 /\ pc[2] > 1 /\ s.object = "numbers"
  BY <1>0, <1>1, TwoPromisesIs, AccessFields, MeetingFields, LockFields DEF PlainWrites
<1>3. \/ u = 1 /\ pc[1] = 1 /\ r.object = "numbers"
      \/ u = 1 /\ pc[1] = 3 /\ r.object = "letters"
      \/ u = 2 /\ pc[2] > 1 /\ r.object = "numbers"
      \/ u = 2 /\ pc[2] = 12
  BY <1>0, <1>1, TwoPromisesIs, AccessFields, MeetingFields, LockFields
     DEF PlainAccesses, PlainWrites
<1>4. \A w \in 1 .. 2 : pc[w] \in Nat
  BY <1>0, PlacesAreNumbers
<1> HIDE DEF s, r
<1> QED
  BY <1>1, <1>2, <1>3, <1>4 DEF TwoPromisesInv

-----------------------------------------------------------------------------
(* chapter_03/program_3_07: main() reads what a thread has changed by       *)
(* reference after it has joined that thread.                               *)
ArgumentsInv ==
    /\ pc[1] > 4 => pc[3] > 4
    /\ pc[1] > 8 => pc[4] > 2

LEMMA ArgumentsKept ==
    ASSUME SyncBase, program = "arguments", ArgumentsInv, NEW t, Steps(t)
    PROVE  ArgumentsInv'
<1>0. Code[program] = Arguments /\ Threads = 1 .. 6
  BY CodeIs, ArgumentsIs DEF Threads
<1> DEFINE s == Arguments[t][pc[t]]
<1>2. Executes(t, s) /\ t \in 1 .. 6
  BY <1>0, StepExecutes DEF Steps
<1>3. \A u \in 1 .. 6 : pc[u] \in Nat
  BY <1>0, PlacesAreNumbers
<1>4. CASE t = 1
  <2>1. pc[t] \in 1 .. 13 /\ pc[t] \in DOMAIN Arguments[t]
    BY <1>0, <1>2, <1>4, ArgumentsIs DEF Executes
  <2>2. /\ s.op \in {"arrive", "join_thread", "read", "write"}
        /\ pc[t] = 4 => s.op = "join_thread" /\ s.value = 3
        /\ pc[t] = 8 => s.op = "join_thread" /\ s.value = 4
    BY <1>4, <2>1, ArgumentsIs, MeetingFields, AccessFields, LockFields
  <2>3. pc'[t] = pc[t] + 1
    BY <1>2, <2>1, <2>2 DEF Executes, Jumps
  <2>4. \A u \in 1 .. 6 \ {t} : pc'[u] = pc[u] /\ register'[u] = register[u]
    BY <1>0, <1>2 DEF Executes
  <2>5. pc[t] = 4 => pc[3] > 4
    <3>1. pc[t] = 4 => AtEnd(3)
      BY <1>2, <2>2 DEF Executes
    <3> QED
      BY <1>0, <3>1, ArgumentsIs DEF AtEnd
  <2>6. pc[t] = 8 => pc[4] > 2
    <3>1. pc[t] = 8 => AtEnd(4)
      BY <1>2, <2>2 DEF Executes
    <3> QED
      BY <1>0, <3>1, ArgumentsIs DEF AtEnd
  <2> QED
    BY <1>3, <1>4, <2>1, <2>3, <2>4, <2>5, <2>6 DEF ArgumentsInv
<1>5. CASE t \in 2 .. 6
  <2>1. pc[t] \in 1 .. 4 /\ pc[t] \in DOMAIN Arguments[t]
    BY <1>0, <1>2, <1>5, ArgumentsIs DEF Executes
  <2>2. s.op \in {"await_latch", "read", "write", "write_next"}
    BY <1>5, <2>1, ArgumentsIs, MeetingFields, AccessFields, LockFields
  <2>3. pc'[t] = pc[t] + 1
    BY <1>2, <2>1, <2>2 DEF Executes, Jumps
  <2>4. \A u \in 1 .. 6 \ {t} : pc'[u] = pc[u] /\ register'[u] = register[u]
    BY <1>0, <1>2 DEF Executes
  <2>5. TRUE
    BY <1>0, <1>2, <1>5, <2>1, <2>2 DEF Executes, Changes, ArgumentsInv
  <2> QED
    BY <1>3, <1>5, <2>1, <2>3, <2>4, <2>5 DEF ArgumentsInv
<1> QED
  BY <1>2, <1>4, <1>5

LEMMA ArgumentsSafe ==
    ASSUME SyncBase, program = "arguments", ArgumentsInv, NEW t \in Threads, NEW u \in Threads
    PROVE  ~ Collide(t, u)
<1>0. Code[program] = Arguments /\ Threads = 1 .. 6
  BY CodeIs, ArgumentsIs DEF Threads
<1> SUFFICES ASSUME Collide(t, u) PROVE FALSE
  OBVIOUS
<1> DEFINE s == Arguments[t][pc[t]]
           r == Arguments[u][pc[u]]
<1>1. /\ t # u /\ pc[t] \in DOMAIN Arguments[t] /\ pc[u] \in DOMAIN Arguments[u]
      /\ s.op \in PlainWrites /\ r.op \in PlainAccesses /\ s.object = r.object
  BY <1>0 DEF Collide
<1>2. \/ t = 1 /\ pc[1] = 9 /\ s.object = "v"
      \/ t = 3 /\ pc[3] \in 1 .. 4 /\ s.object \in {"str2", "val"}
  BY <1>0, <1>1, ArgumentsIs, AccessFields, MeetingFields, LockFields DEF PlainWrites
<1>3. \/ u = 1 /\ pc[1] \in {5, 6} /\ r.object \in {"str2", "val"}
      \/ u = 1 /\ r.object = "v"
      \/ u = 3 /\ r.object \in {"str2", "val"}
      \/ u = 4 /\ pc[4] = 2 /\ r.object = "v"
      \/ u = 6 /\ r.object = "str5"
  BY <1>0, <1>1, ArgumentsIs, AccessFields, MeetingFields, LockFields
     DEF PlainAccesses, PlainWrites
<1>4. \A w \in 1 .. 6 : pc[w] \in Nat
  BY <1>0, PlacesAreNumbers
<1> HIDE DEF s, r
<1> QED
  BY <1>1, <1>2, <1>3, <1>4 DEF ArgumentsInv

-----------------------------------------------------------------------------
(* chapter_03/program_3_08: a thread begins after it has been started, and its*)
(* result is read after it has been joined.                                 *)
ResultsInv ==
    /\ value["started"] = IF pc[1] > 7 THEN 3 ELSE IF pc[1] > 4 THEN 2
                           ELSE IF pc[1] > 1 THEN 1 ELSE 0
    /\ pc[1] > 2 => pc[2] > 2
    /\ pc[1] > 5 => pc[3] > 2
    /\ pc[1] > 8 => pc[4] > 4
    /\ pc[3] > 1 => pc[1] > 4
    /\ pc[4] > 1 => pc[1] > 7

LEMMA ResultsKept ==
    ASSUME SyncBase, program = "results", ResultsInv, NEW t, Steps(t)
    PROVE  ResultsInv'
<1>0. Code[program] = Results /\ Threads = 1 .. 4
  BY CodeIs, ResultsIs DEF Threads
<1>1. "started" \in Objects
  BY <1>0, IsObject, ResultsIs, MeetingFields, AccessFields
<1> DEFINE s == Results[t][pc[t]]
<1>2. Executes(t, s) /\ t \in 1 .. 4
  BY <1>0, StepExecutes DEF Steps
<1>3. \A u \in 1 .. 4 : pc[u] \in Nat
  BY <1>0, PlacesAreNumbers
<1>4. CASE t = 1
  <2>1. pc[t] \in 1 .. 9 /\ pc[t] \in DOMAIN Results[t]
    BY <1>0, <1>2, <1>4, ResultsIs DEF Executes
  <2>2. /\ pc[t] \in {1, 4, 7} => s.op = "arrive" /\ s.object = "started"
        /\ pc[t] \in {2, 5, 8} => s.op = "join_thread"
        /\ pc[t] = 2 => s.value = 2
        /\ pc[t] = 5 => s.value = 3
        /\ pc[t] = 8 => s.value = 4
        /\ pc[t] \in {3, 6, 9} => s.op = "read"
    BY <1>4, <2>1, ResultsIs, MeetingFields, AccessFields, LockFields
  <2>3. pc'[t] = pc[t] + 1
    BY <1>2, <2>1, <2>2 DEF Executes, Jumps
  <2>4. \A u \in 1 .. 4 \ {t} : pc'[u] = pc[u] /\ register'[u] = register[u]
    BY <1>0, <1>2 DEF Executes
  <2>5. value'["started"] = value["started"] + (IF pc[t] \in {1, 4, 7} THEN 1 ELSE 0)
    BY <1>0, <1>1, <1>2, <1>4, <2>1, <2>2 DEF Executes, Changes, ResultsInv
  <2>6. pc[t] = 2 => pc[2] > 2
    <3>1. pc[t] = 2 => AtEnd(2)
      BY <1>2, <2>2 DEF Executes
    <3> QED
      BY <1>0, <3>1, ResultsIs DEF AtEnd
  <2>7. pc[t] = 5 => pc[3] > 2
    <3>1. pc[t] = 5 => AtEnd(3)
      BY <1>2, <2>2 DEF Executes
    <3> QED
      BY <1>0, <3>1, ResultsIs DEF AtEnd
  <2>8. pc[t] = 8 => pc[4] > 4
    <3>1. pc[t] = 8 => AtEnd(4)
      BY <1>2, <2>2 DEF Executes
    <3> QED
      BY <1>0, <3>1, ResultsIs DEF AtEnd
  <2> QED
    BY <1>3, <1>4, <2>1, <2>3, <2>4, <2>5, <2>6, <2>7, <2>8 DEF ResultsInv
<1>5. CASE t \in 2 .. 4
  <2>1. pc[t] \in 1 .. 4 /\ pc[t] \in DOMAIN Results[t]
    BY <1>0, <1>2, <1>5, ResultsIs DEF Executes
  <2>2. /\ s.op \in {"await_latch", "write", "lock", "unlock"}
        /\ s.op = "write" => s.object = "result"
        /\ pc[t] = 1 => s.op = "await_latch" /\ s.object = "started" /\ s.value = t - 1
    BY <1>5, <2>1, ResultsIs, MeetingFields, AccessFields, LockFields
  <2>3. pc'[t] = pc[t] + 1
    BY <1>2, <2>1, <2>2 DEF Executes, Jumps
  <2>4. \A u \in 1 .. 4 \ {t} : pc'[u] = pc[u] /\ register'[u] = register[u]
    BY <1>0, <1>2 DEF Executes
  <2>5. value'["started"] = value["started"]
    BY <1>0, <1>1, <1>2, <1>5, <2>1, <2>2 DEF Executes, Changes, ResultsInv
  <2>6. pc[t] = 1 => value["started"] >= t - 1
    BY <1>0, <1>1, <1>2, <1>5, <2>1, <2>2 DEF Executes, Changes, ResultsInv
  <2> QED
    BY <1>3, <1>5, <2>1, <2>3, <2>4, <2>5, <2>6 DEF ResultsInv
<1> QED
  BY <1>2, <1>4, <1>5

LEMMA ResultsSafe ==
    ASSUME SyncBase, program = "results", ResultsInv, NEW t \in Threads, NEW u \in Threads
    PROVE  ~ Collide(t, u)
<1>0. Code[program] = Results /\ Threads = 1 .. 4
  BY CodeIs, ResultsIs DEF Threads
<1> SUFFICES ASSUME Collide(t, u) PROVE FALSE
  OBVIOUS
<1> DEFINE s == Results[t][pc[t]]
           r == Results[u][pc[u]]
<1>1. /\ t # u /\ pc[t] \in DOMAIN Results[t] /\ pc[u] \in DOMAIN Results[u]
      /\ s.op \in PlainWrites /\ r.op \in PlainAccesses /\ s.object = r.object
  BY <1>0 DEF Collide
<1>2. \/ t = 2 /\ pc[2] = 2
      \/ t = 3 /\ pc[3] = 2
      \/ t = 4 /\ pc[4] = 3
  BY <1>0, <1>1, ResultsIs, AccessFields, MeetingFields, LockFields DEF PlainWrites
<1>3. \/ u = 1 /\ pc[1] \in {3, 6, 9}
      \/ u = 2 /\ pc[2] = 2
      \/ u = 3 /\ pc[3] = 2
      \/ u = 4 /\ pc[4] = 3
  BY <1>0, <1>1, ResultsIs, AccessFields, MeetingFields, LockFields
     DEF PlainAccesses, PlainWrites
<1>4. \A w \in 1 .. 4 : pc[w] \in Nat
  BY <1>0, PlacesAreNumbers
<1> HIDE DEF s, r
<1> QED
  BY <1>1, <1>2, <1>3, <1>4 DEF ResultsInv

-----------------------------------------------------------------------------
(* chapter_06/program_09: main() reads a result after its future is ready.  *)
CancellationInv ==
    /\ value[Ready[1]] = IF pc[2] > 9 THEN 1 ELSE 0
    /\ value[Ready[2]] = IF pc[3] > 9 THEN 1 ELSE 0
    /\ pc[1] > 4 => pc[2] > 9
    /\ pc[1] > 6 => pc[3] > 9

LEMMA CancellationNames ==
    /\ Ready[1] # Ready[2] /\ Result[1] # Result[2]
    /\ \A i, j \in 1 .. 2 : Ready[i] # Result[j]
    /\ \A i \in 1 .. 2 : Ready[i] \notin {"started", "cancellation_token"}
  BY DEF Ready, Result

LEMMA CancellationKept ==
    ASSUME SyncBase, program = "cancellation", CancellationInv, NEW t, Steps(t)
    PROVE  CancellationInv'
<1>0. Code[program] = Cancellation /\ Threads = 1 .. 3
  BY CodeIs, CancellationIs DEF Threads
<1>1. Ready[1] \in Objects /\ Ready[2] \in Objects
  BY <1>0, IsObject, CancellationIs, MeetingFields, AccessFields, CancellationTasks
<1> DEFINE s == Cancellation[t][pc[t]]
<1>2. Executes(t, s) /\ t \in 1 .. 3
  BY <1>0, StepExecutes DEF Steps
<1>3. \A u \in 1 .. 3 : pc[u] \in Nat
  BY <1>0, PlacesAreNumbers
<1>4. CASE t = 1
  <2>1. pc[t] \in 1 .. 9 /\ pc[t] \in DOMAIN Cancellation[t]
    BY <1>0, <1>2, <1>4, CancellationIs, CancellationTasks DEF Executes
  <2>2. /\ pc[t] \in {1, 2} => s.op = "arrive" /\ s.object = "started"
        /\ pc[t] = 3 => s.op = "store" /\ s.object = "cancellation_token"
        /\ pc[t] = 4 => s.op = "await_latch" /\ s.object = Ready[1] /\ s.value = 1
        /\ pc[t] = 6 => s.op = "await_latch" /\ s.object = Ready[2] /\ s.value = 1
        /\ pc[t] \in {5, 7, 8, 9} => s.op \in {"read", "read_and_add", "join_thread"}
    BY <1>4, <2>1, CancellationIs, CancellationTasks, MeetingFields, AccessFields,
       LockFields
  <2>3. pc'[t] = pc[t] + 1
    BY <1>2, <2>1, <2>2 DEF Executes, Jumps
  <2>4. \A u \in 1 .. 3 \ {t} : pc'[u] = pc[u] /\ register'[u] = register[u]
    BY <1>0, <1>2 DEF Executes
  <2>5. value'[Ready[1]] = value[Ready[1]] /\ value'[Ready[2]] = value[Ready[2]]
    BY <1>0, <1>1, <1>2, <1>4, <2>1, <2>2, CancellationNames
       DEF Executes, Changes, CancellationInv
  <2>6. pc[t] = 4 => pc[2] > 9
    BY <1>0, <1>1, <1>2, <1>4, <2>1, <2>2, CancellationNames, CancellationIs,
       CancellationTasks
       DEF Executes, Changes, CancellationInv, AtEnd
  <2>7. pc[t] = 6 => pc[3] > 9
    BY <1>0, <1>1, <1>2, <1>4, <2>1, <2>2, CancellationNames, CancellationIs,
       CancellationTasks
       DEF Executes, Changes, CancellationInv, AtEnd
  <2> QED
    BY <1>3, <1>4, <2>1, <2>3, <2>4, <2>5, <2>6, <2>7, CancellationNames
       DEF CancellationInv
<1>5. CASE t \in 2 .. 3
  <2>1. pc[t] \in 1 .. 9 /\ pc[t] \in DOMAIN Cancellation[t]
    BY <1>0, <1>2, <1>5, CancellationIs, CancellationTasks DEF Executes
  <2>2. /\ pc[t] \in {1, 2, 4, 6, 7} => s.op \in {"await_latch", "draw", "load", "print"}
        /\ pc[t] = 3 => s.op = "go_unless" /\ s.target = 7
        /\ pc[t] = 5 => s.op = "go_unless" /\ s.target = 2
        /\ pc[t] = 8 => s.op = "write_next" /\ s.object = Result[t - 1]
        /\ pc[t] = 9 => s.op = "arrive" /\ s.object = Ready[t - 1]
    BY <1>5, <2>1, CancellationIs, CancellationTasks, MeetingFields, AccessFields,
       LockFields
  <2>3. /\ pc'[t] = pc[t] + 1 \/ (pc[t] \in {3, 5} /\ pc'[t] \in {2, 7})
    BY <1>2, <2>1, <2>2 DEF Executes, Jumps
  <2>4. \A u \in 1 .. 3 \ {t} : pc'[u] = pc[u] /\ register'[u] = register[u]
    BY <1>0, <1>2 DEF Executes
  <2>5. value'[Ready[1]] = value[Ready[1]] + (IF t = 2 /\ pc[t] = 9 THEN 1 ELSE 0)
    BY <1>0, <1>1, <1>2, <1>5, <2>1, <2>2, CancellationNames
       DEF Executes, Changes, CancellationInv
  <2>6. value'[Ready[2]] = value[Ready[2]] + (IF t = 3 /\ pc[t] = 9 THEN 1 ELSE 0)
    BY <1>0, <1>1, <1>2, <1>5, <2>1, <2>2, CancellationNames
       DEF Executes, Changes, CancellationInv
  <2> QED
    BY <1>3, <1>5, <2>1, <2>3, <2>4, <2>5, <2>6, CancellationNames DEF CancellationInv
<1> QED
  BY <1>2, <1>4, <1>5

LEMMA CancellationSafe ==
    ASSUME SyncBase, program = "cancellation", CancellationInv, NEW t \in Threads, NEW u \in Threads
    PROVE  ~ Collide(t, u)
<1>0. Code[program] = Cancellation /\ Threads = 1 .. 3
  BY CodeIs, CancellationIs DEF Threads
<1> SUFFICES ASSUME Collide(t, u) PROVE FALSE
  OBVIOUS
<1> DEFINE s == Cancellation[t][pc[t]]
           r == Cancellation[u][pc[u]]
<1>1. /\ t # u /\ pc[t] \in DOMAIN Cancellation[t] /\ pc[u] \in DOMAIN Cancellation[u]
      /\ s.op \in PlainWrites /\ r.op \in PlainAccesses /\ s.object = r.object
  BY <1>0 DEF Collide
<1>2. t \in 2 .. 3 /\ pc[t] = 8 /\ s.object = Result[t - 1]
  BY <1>0, <1>1, CancellationIs, CancellationTasks, AccessFields, MeetingFields,
     LockFields
     DEF PlainWrites
<1>3. \/ u = 1 /\ pc[1] = 5 /\ r.object = Result[1]
      \/ u = 1 /\ pc[1] = 7 /\ r.object = Result[2]
      \/ u \in 2 .. 3 /\ r.object = Result[u - 1]
  BY <1>0, <1>1, CancellationIs, CancellationTasks, AccessFields, MeetingFields,
     LockFields
     DEF PlainAccesses, PlainWrites
<1>4. \A w \in 1 .. 3 : pc[w] \in Nat
  BY <1>0, PlacesAreNumbers
<1> HIDE DEF s, r
<1> QED
  BY <1>1, <1>2, <1>3, <1>4, CancellationNames DEF CancellationInv

-----------------------------------------------------------------------------
(* chapter_08/program_03_a: the new thread resumes the coroutine after its  *)
(* start, and the frame ends after its last use.                            *)
NewThreadInv ==
    /\ value["started"] = IF pc[1] > 4 THEN 1 ELSE 0
    /\ pc[2] > 1 => pc[1] > 4
    /\ dead = {} \/ (dead = {"frame"} /\ pc[2] > 3)

LEMMA NewThreadKept ==
    ASSUME SyncBase, program = "new_thread", NewThreadInv, NEW t, Steps(t)
    PROVE  NewThreadInv'
<1>0. Code[program] = NewThread /\ Threads = 1 .. 2
  BY CodeIs, NewThreadIs DEF Threads
<1>1. "started" \in Objects
  BY <1>0, IsObject, NewThreadIs, MeetingFields, AccessFields
<1> DEFINE s == NewThread[t][pc[t]]
<1>2. Executes(t, s) /\ t \in 1 .. 2
  BY <1>0, StepExecutes DEF Steps
<1>3. \A u \in 1 .. 2 : pc[u] \in Nat
  BY <1>0, PlacesAreNumbers
<1>4. CASE t = 1
  <2>1. pc[t] \in 1 .. 7 /\ pc[t] \in DOMAIN NewThread[t]
    BY <1>0, <1>2, <1>4, NewThreadIs DEF Executes
  <2>2. /\ pc[t] = 4 => s.op = "arrive" /\ s.object = "started"
        /\ pc[t] # 4 => s.op \in {"write", "read", "join_thread"} /\ s.object # "started"
    BY <1>4, <2>1, NewThreadIs, MeetingFields, AccessFields, LockFields
  <2>3. pc'[t] = pc[t] + 1
    BY <1>2, <2>1, <2>2 DEF Executes, Jumps
  <2>4. \A u \in 1 .. 2 \ {t} : pc'[u] = pc[u] /\ register'[u] = register[u]
    BY <1>0, <1>2 DEF Executes
  <2>5. value'["started"] = value["started"] + (IF pc[t] = 4 THEN 1 ELSE 0)
    BY <1>0, <1>1, <1>2, <1>4, <2>1, <2>2 DEF Executes, Changes, NewThreadInv
  <2>6. dead' = dead
    BY <1>0, <1>1, <1>2, <1>4, <2>1, <2>2 DEF Executes, Changes, NewThreadInv
  <2> QED
    BY <1>3, <1>4, <2>1, <2>3, <2>4, <2>5, <2>6 DEF NewThreadInv
<1>5. CASE t = 2
  <2>1. pc[t] \in 1 .. 3 /\ pc[t] \in DOMAIN NewThread[t]
    BY <1>0, <1>2, <1>5, NewThreadIs DEF Executes
  <2>2. /\ pc[t] = 1 => s.op = "await_latch" /\ s.object = "started" /\ s.value = 1
        /\ pc[t] = 2 => s.op = "read"
        /\ pc[t] = 3 => s.op = "destroy" /\ s.object = "frame"
    BY <1>5, <2>1, NewThreadIs, MeetingFields, AccessFields, LockFields
  <2>3. pc'[t] = pc[t] + 1
    BY <1>2, <2>1, <2>2 DEF Executes, Jumps
  <2>4. \A u \in 1 .. 2 \ {t} : pc'[u] = pc[u] /\ register'[u] = register[u]
    BY <1>0, <1>2 DEF Executes
  <2>5. value'["started"] = value["started"]
    BY <1>0, <1>1, <1>2, <1>5, <2>1, <2>2 DEF Executes, Changes, NewThreadInv
  <2>6. pc[t] = 1 => value["started"] >= 1
    BY <1>0, <1>1, <1>2, <1>5, <2>1, <2>2 DEF Executes, Changes, NewThreadInv
  <2>7. dead' = IF pc[t] = 3 THEN dead \cup {"frame"} ELSE dead
    <3>1. dead' = IF s.op = "destroy" THEN dead \cup {s.object} ELSE dead
      BY <1>2 DEF Executes
    <3>2. CASE s.op = "destroy"
      <4>1. dead' = dead \cup {s.object}
        BY <3>1, <3>2
      <4> HIDE DEF s
      <4> QED
        BY <2>1, <2>2, <3>2, <4>1
    <3>3. CASE s.op # "destroy"
      <4>1. dead' = dead
        BY <3>1, <3>3
      <4> HIDE DEF s
      <4> QED
        BY <2>1, <2>2, <3>3, <4>1
    <3> QED
      BY <3>2, <3>3
  <2> QED
    BY <1>3, <1>5, <2>1, <2>3, <2>4, <2>5, <2>6, <2>7 DEF NewThreadInv
<1> QED
  BY <1>2, <1>4, <1>5

LEMMA NewThreadSafe ==
    ASSUME SyncBase, program = "new_thread", NewThreadInv, NEW t \in Threads, NEW u \in Threads
    PROVE  ~ Collide(t, u)
<1>0. Code[program] = NewThread /\ Threads = 1 .. 2
  BY CodeIs, NewThreadIs DEF Threads
<1> SUFFICES ASSUME Collide(t, u) PROVE FALSE
  OBVIOUS
<1> DEFINE s == NewThread[t][pc[t]]
           r == NewThread[u][pc[u]]
<1>1. /\ t # u /\ pc[t] \in DOMAIN NewThread[t] /\ pc[u] \in DOMAIN NewThread[u]
      /\ s.op \in PlainWrites /\ r.op \in PlainAccesses /\ s.object = r.object
  BY <1>0 DEF Collide
<1>2. t = 1 /\ (pc[1] = 1 \/ s.object = "out")
  BY <1>0, <1>1, NewThreadIs, AccessFields, MeetingFields, LockFields DEF PlainWrites
<1>3. \/ u = 1
      \/ u = 2 /\ pc[2] > 1 /\ r.object = "frame"
  BY <1>0, <1>1, NewThreadIs, AccessFields, MeetingFields, LockFields
     DEF PlainAccesses, PlainWrites
<1>4. \A w \in 1 .. 2 : pc[w] \in Nat
  BY <1>0, PlacesAreNumbers
<1> HIDE DEF s, r
<1> QED
  BY <1>1, <1>2, <1>3, <1>4 DEF NewThreadInv

-----------------------------------------------------------------------------
(* chapter_03/program_3_13: when a wrapper destroys its name, nothing of what*)
(* main() has yet to do uses that name.                                     *)
WrappersInv ==
    \A o \in dead : \/ o = Name[3] /\ pc[1] > 11
                    \/ o = Name[2] /\ pc[1] > 14
                    \/ o = Name[1] /\ pc[1] > 17

LEMMA WrappersKept ==
    ASSUME SyncBase, program = "wrappers", WrappersInv, NEW t, Steps(t)
    PROVE  WrappersInv'
<1>0. Code[program] = Wrappers /\ Threads = 1 .. 4
  BY CodeIs, WrappersIs DEF Threads
<1> DEFINE s == Wrappers[t][pc[t]]
<1>2. Executes(t, s) /\ t \in 1 .. 4
  BY <1>0, StepExecutes DEF Steps
<1>3. \A u \in 1 .. 4 : pc[u] \in Nat
  BY <1>0, PlacesAreNumbers
<1>4. CASE t = 1
  <2>1. pc[t] \in 1 .. 18 /\ pc[t] \in DOMAIN Wrappers[t]
    BY <1>0, <1>2, <1>4, WrappersIs DEF Executes
  <2>2. /\ s.op \in {"arrive", "write", "read", "destroy", "join_thread"}
        /\ s.op = "destroy" => \/ pc[t] = 11 /\ s.object = Name[3]
                               \/ pc[t] = 14 /\ s.object = Name[2]
                               \/ pc[t] = 17 /\ s.object = Name[1]
    BY <1>4, <2>1, WrappersIs, MeetingFields, AccessFields, LockFields
  <2>3. pc'[t] = pc[t] + 1
    BY <1>2, <2>1, <2>2 DEF Executes, Jumps
  <2>4. \A u \in 1 .. 4 \ {t} : pc'[u] = pc[u] /\ register'[u] = register[u]
    BY <1>0, <1>2 DEF Executes
  <2>5. \A o \in dead' :
          \/ o \in dead
          \/ pc[t] = 11 /\ o = Name[3]
          \/ pc[t] = 14 /\ o = Name[2]
          \/ pc[t] = 17 /\ o = Name[1]
    <3>1. dead' = IF s.op = "destroy" THEN dead \cup {s.object} ELSE dead
      BY <1>2 DEF Executes
    <3>2. CASE s.op = "destroy"
      <4>1. dead' = dead \cup {s.object}
        BY <3>1, <3>2
      <4> HIDE DEF s
      <4> QED
        BY <2>1, <2>2, <3>2, <4>1
    <3>3. CASE s.op # "destroy"
      <4>1. dead' = dead
        BY <3>1, <3>3
      <4> HIDE DEF s
      <4> QED
        BY <2>1, <2>2, <3>3, <4>1
    <3> QED
      BY <3>2, <3>3
  <2> QED
    BY <1>3, <1>4, <2>1, <2>3, <2>4, <2>5 DEF WrappersInv
<1>5. CASE t \in 2 .. 4
  <2>1. pc[t] \in 1 .. 1 /\ pc[t] \in DOMAIN Wrappers[t]
    BY <1>0, <1>2, <1>5, WrappersIs DEF Executes
  <2>2. s.op = "await_latch"
    BY <1>5, <2>1, WrappersIs, MeetingFields, AccessFields, LockFields
  <2>3. pc'[t] = pc[t] + 1
    BY <1>2, <2>1, <2>2 DEF Executes, Jumps
  <2>4. \A u \in 1 .. 4 \ {t} : pc'[u] = pc[u] /\ register'[u] = register[u]
    BY <1>0, <1>2 DEF Executes
  <2>5. dead' = dead
    BY <1>0, <1>2, <1>5, <2>1, <2>2 DEF Executes, Changes, WrappersInv
  <2> QED
    BY <1>3, <1>5, <2>1, <2>3, <2>4, <2>5 DEF WrappersInv
<1> QED
  BY <1>2, <1>4, <1>5

LEMMA WrappersSafe ==
    ASSUME SyncBase, program = "wrappers", WrappersInv, NEW t \in Threads, NEW u \in Threads
    PROVE  ~ Collide(t, u)
<1>0. Code[program] = Wrappers /\ Threads = 1 .. 4
  BY CodeIs, WrappersIs DEF Threads
<1> SUFFICES ASSUME Collide(t, u) PROVE FALSE
  OBVIOUS
<1> DEFINE s == Wrappers[t][pc[t]]
           r == Wrappers[u][pc[u]]
<1>1. /\ t # u /\ pc[t] \in DOMAIN Wrappers[t] /\ pc[u] \in DOMAIN Wrappers[u]
      /\ s.op \in PlainWrites /\ r.op \in PlainAccesses /\ s.object = r.object
  BY <1>0 DEF Collide
<1>2. t = 1
  BY <1>0, <1>1, WrappersIs, AccessFields, MeetingFields, LockFields DEF PlainWrites
<1>3. u = 1
  BY <1>0, <1>1, WrappersIs, AccessFields, MeetingFields, LockFields
     DEF PlainAccesses, PlainWrites
<1>4. \A w \in 1 .. 4 : pc[w] \in Nat
  BY <1>0, PlacesAreNumbers
<1> HIDE DEF s, r
<1> QED
  BY <1>1, <1>2, <1>3, <1>4 DEF WrappersInv

-----------------------------------------------------------------------------
(* The turns of the four threads of FizzBuzz.                               *)
Turns == << {i \in 1 .. n : fizz_condition(i)}, {i \in 1 .. n : i % 3 # 0 /\ i % 5 = 0},
            {i \in 1 .. n : i % 3 = 0 /\ i % 5 = 0}, {i \in 1 .. n : i % 3 # 0 /\ i % 5 # 0} >>

LEMMA TurnsDiffer ==
    \A t, u \in 1 .. 4 : \A i : i \in Turns[t] /\ i \in Turns[u] => t = u
  BY DEF Turns, fizz_condition

LEMMA ThirdsOf ==
    ASSUME NEW x \in Nat
    PROVE  /\ x \div 3 \in Nat /\ x % 3 \in 0 .. 2 /\ x = 3 * (x \div 3) + (x % 3)
           /\ x % 3 = 0 => (x + 1) % 3 = 1 /\ (x + 1) \div 3 = x \div 3
           /\ x % 3 = 1 => (x + 1) % 3 = 2 /\ (x + 1) \div 3 = x \div 3
           /\ x % 3 = 2 => (x + 1) % 3 = 0 /\ (x + 1) \div 3 = (x \div 3) + 1
  OBVIOUS

LEMMA LoopIs ==
    ASSUME NEW what, NEW turns
    PROVE  LET c == fizzbuzz_loop(what, turns) IN
           /\ Len(c) = 3 * n /\ DOMAIN c = 1 .. 3 * n
           /\ \A i \in 1 .. 3 * n :
                /\ i % 3 = 1 => \/ c[i].op = "callback" /\ (i \div 3) + 1 \in turns
                                \/ c[i].op = "go" /\ c[i].target = i + 1 
                                   /\ c[i].object = "register"
                /\ i % 3 = 2 => c[i].op = "arrive" /\ c[i].object = "bar" /\ c[i].value = 4
                /\ i % 3 = 0 => c[i].op = "await_phase" /\ c[i].object = "bar"
                                /\ c[i].value = 4
<1> DEFINE c == fizzbuzz_loop(what, turns)
<1>0. n \in Nat /\ 3 * n \in Nat
  BY SizesAssumption
<1>1. Len(c) = 3 * n /\ DOMAIN c = 1 .. 3 * n
  BY <1>0 DEF fizzbuzz_loop, ForEach
<1>2. ASSUME NEW i \in 1 .. 3 * n, i % 3 = 1
      PROVE  c[i] = IF ((i - 1) \div 3) + 1 \in turns
                    THEN Callback(what, ((i - 1) \div 3) + 1) ELSE Go(i + 1)
  BY <1>0, <1>2 DEF fizzbuzz_loop, ForEach
<1>3. ASSUME NEW i \in 1 .. 3 * n, i % 3 = 2 PROVE c[i] = Arrive("bar", 4)
  BY <1>0, <1>3 DEF fizzbuzz_loop, ForEach
<1>4. ASSUME NEW i \in 1 .. 3 * n, i % 3 = 0 PROVE c[i] = AwaitPhase("bar", 4)
  BY <1>0, <1>4 DEF fizzbuzz_loop, ForEach
<1>5. \A i \in 1 .. 3 * n : i % 3 = 1 => (i - 1) \div 3 = i \div 3
  BY <1>0
<1> HIDE DEF c
<1>6. ASSUME NEW i \in 1 .. 3 * n
      PROVE  /\ i % 3 = 1 => \/ c[i].op = "callback" /\ (i \div 3) + 1 \in turns
                             \/ c[i].op = "go" /\ c[i].target = i + 1 /\ c[i].object = "register"
             /\ i % 3 = 2 => c[i].op = "arrive" /\ c[i].object = "bar" /\ c[i].value = 4
             /\ i % 3 = 0 => c[i].op = "await_phase" /\ c[i].object = "bar" /\ c[i].value = 4
  <2>1. CASE i % 3 = 1
    <3>1. (i \div 3) + 1 \in turns => c[i].op = "callback"
      BY <1>2, <1>5, <2>1, AccessFields
    <3>2. (i \div 3) + 1 \notin turns
            => c[i].op = "go" /\ c[i].target = i + 1 /\ c[i].object = "register"
      BY <1>2, <1>5, <2>1, MeetingFields
    <3> QED
      BY <2>1, <3>1, <3>2
  <2>2. CASE i % 3 = 2
    BY <1>3, <2>2, MeetingFields
  <2>3. CASE i % 3 = 0
    BY <1>4, <2>3, MeetingFields
  <2> QED
    BY <2>1, <2>2, <2>3
<1> QED
  BY <1>1, <1>6 DEF c

LEMMA FizzBuzzIs ==
    /\ DOMAIN FizzBuzz = 1 .. 4
    /\ \A t \in 1 .. 4 :
         /\ Len(FizzBuzz[t]) = 3 * n /\ DOMAIN FizzBuzz[t] = 1 .. 3 * n
         /\ \A i \in 1 .. 3 * n : LET s == FizzBuzz[t][i] IN
              /\ i % 3 = 1 => \/ s.op = "callback" /\ (i \div 3) + 1 \in Turns[t]
                              \/ s.op = "go" /\ s.target = i + 1 /\ s.object = "register"
              /\ i % 3 = 2 => s.op = "arrive" /\ s.object = "bar" /\ s.value = 4
              /\ i % 3 = 0 => s.op = "await_phase" /\ s.object = "bar" /\ s.value = 4
<1>1. DOMAIN FizzBuzz = 1 .. 4
  BY DEF FizzBuzz, ForEach
<1>2. /\ FizzBuzz[1] = fizzbuzz_loop("fizz", Turns[1])
      /\ FizzBuzz[2] = fizzbuzz_loop("buzz", Turns[2])
      /\ FizzBuzz[3] = fizzbuzz_loop("fizzbuzz", Turns[3])
      /\ FizzBuzz[4] = fizzbuzz_loop("number", Turns[4])
  BY DEF FizzBuzz, ForEach, Turns
<1>3. \A t \in 1 .. 4 : \E what : FizzBuzz[t] = fizzbuzz_loop(what, Turns[t])
  BY <1>2
<1> SUFFICES ASSUME NEW t \in 1 .. 4
             PROVE  LET c == FizzBuzz[t] IN
           /\ Len(c) = 3 * n /\ DOMAIN c = 1 .. 3 * n
           /\ \A i \in 1 .. 3 * n :
                /\ i % 3 = 1 => \/ c[i].op = "callback" /\ (i \div 3) + 1 \in Turns[t]
                                \/ c[i].op = "go" /\ c[i].target = i + 1
                                   /\ c[i].object = "register"
                /\ i % 3 = 2 => c[i].op = "arrive" /\ c[i].object = "bar" /\ c[i].value = 4
                /\ i % 3 = 0 => c[i].op = "await_phase" /\ c[i].object = "bar"
                                /\ c[i].value = 4
  BY <1>1
<1>4. PICK what : FizzBuzz[t] = fizzbuzz_loop(what, Turns[t])
  BY <1>3
<1>5. PICK turns : turns = Turns[t]
  OBVIOUS
<1>6. FizzBuzz[t] = fizzbuzz_loop(what, turns)
  BY <1>4, <1>5
<1> QED
  BY <1>5, <1>6, LoopIs

(* How often a thread of FizzBuzz has arrived at bar.                       *)
Arrived(t) == pc[t] \div 3

(* leetcode/02_fizz_buzz: bar counts the arrivals, a thread that has its turn*)
(* at i is behind nobody, and one that awaits the phase is one ahead of     *)
(* others at most.                                                          *)
FizzBuzzInv ==
    /\ n > 0 => value["bar"] = Arrived(1) + Arrived(2) + Arrived(3) + Arrived(4)
    /\ \A t, u \in 1 .. 4 :
         /\ pc[t] % 3 # 0 => Arrived(u) >= Arrived(t)
         /\ pc[t] % 3 = 0 => Arrived(u) >= Arrived(t) - 1 /\ register[t] = Arrived(t) - 1

LEMMA FizzBuzzKept ==
    ASSUME SyncBase, program = "fizz_buzz", FizzBuzzInv, NEW t, Steps(t)
    PROVE  FizzBuzzInv'
<1>0. Code[program] = FizzBuzz /\ Threads = 1 .. 4
  BY CodeIs, FizzBuzzIs DEF Threads
<1> DEFINE s == FizzBuzz[t][pc[t]]
<1>1. Executes(t, s) /\ t \in 1 .. 4
  BY <1>0, StepExecutes DEF Steps
<1>2. pc[t] \in 1 .. 3 * n
  BY <1>0, <1>1, FizzBuzzIs DEF Executes
<1>3. \A u \in 1 .. 4 : pc[u] \in Nat
  BY <1>0, PlacesAreNumbers
<1>4. /\ pc[t] % 3 = 1 => \/ s.op = "callback"
                          \/ s.op = "go" /\ s.target = pc[t] + 1
      /\ pc[t] % 3 = 2 => s.op = "arrive" /\ s.object = "bar" /\ s.value = 4
      /\ pc[t] % 3 = 0 => s.op = "await_phase" /\ s.object = "bar" /\ s.value = 4
  <2>1. PICK i : i = pc[t]
    OBVIOUS
  <2>2. t \in 1 .. 4 /\ i \in 1 .. 3 * n
    BY <1>1, <1>2, <2>1
  <2>3. LET r == FizzBuzz[t][i] IN
        /\ i % 3 = 1 => \/ r.op = "callback"
                        \/ r.op = "go" /\ r.target = i + 1
        /\ i % 3 = 2 => r.op = "arrive" /\ r.object = "bar" /\ r.value = 4
        /\ i % 3 = 0 => r.op = "await_phase" /\ r.object = "bar" /\ r.value = 4
    BY <2>2, FizzBuzzIs
  <2>4. s = FizzBuzz[t][i]
    BY <2>1
  <2> HIDE DEF s
  <2> QED
    BY <2>1, <2>3, <2>4
<1>5. pc'[t] = pc[t] + 1
  <2>1. pc[t] % 3 \in 0 .. 2
    BY <1>1, <1>3
  <2> QED
    BY <1>1, <1>4, <2>1 DEF Executes, Jumps
<1>6. \A u \in 1 .. 4 \ {t} : pc'[u] = pc[u] /\ register'[u] = register[u]
  BY <1>0, <1>1 DEF Executes
<1>7. \A u \in 1 .. 4 : Arrived(u) \in Nat
  BY <1>3, ThirdsOf DEF Arrived
<1>8. \A u \in 1 .. 4 : u # t => Arrived(u)' = Arrived(u)
  BY <1>6 DEF Arrived
<1>9. /\ pc[t] % 3 = 0 => pc'[t] % 3 = 1 /\ Arrived(t)' = Arrived(t)
      /\ pc[t] % 3 = 1 => pc'[t] % 3 = 2 /\ Arrived(t)' = Arrived(t)
      /\ pc[t] % 3 = 2 => pc'[t] % 3 = 0 /\ Arrived(t)' = Arrived(t) + 1
      /\ pc[t] % 3 \in 0 .. 2
  BY <1>1, <1>3, <1>5, ThirdsOf DEF Arrived
<1>10. \A u, w \in 1 .. 4 : Arrived(u) >= Arrived(w) - 1
  BY <1>3, <1>7 DEF FizzBuzzInv
<1>11. pc[t] % 3 # 2 => "bar" \notin Objects \/ value'["bar"] = value["bar"]
  BY <1>1, <1>4, <1>9 DEF Executes, Changes
<1>12. n > 0 /\ "bar" \in Objects
  <2>1. n \in Nat
    BY SizesAssumption
  <2>2. n > 0
    BY <1>2, <2>1
  <2>3. 2 \in 1 .. 3 * n /\ 2 % 3 = 2
    BY <2>1, <2>2
  <2>4. FizzBuzz[1][2].object = "bar" /\ 2 \in DOMAIN FizzBuzz[1]
    BY <2>3, FizzBuzzIs
  <2> QED
    BY <1>0, <2>2, <2>4, IsObject
<1>13. CASE pc[t] % 3 = 1
  <2>1. value'["bar"] = Arrived(1)' + Arrived(2)' + Arrived(3)' + Arrived(4)'
    BY <1>1, <1>8, <1>9, <1>11, <1>12, <1>13 DEF FizzBuzzInv
  <2>2. \A u \in 1 .. 4 : Arrived(u)' = Arrived(u)
    BY <1>8, <1>9, <1>13
  <2>3. \A u \in 1 .. 4 : (pc'[u] % 3 # 0) = (pc[u] % 3 # 0)
    BY <1>6, <1>9, <1>13
  <2> HIDE DEF s
  <2> QED
    BY <1>6, <1>9, <1>13, <2>1, <2>2, <2>3 DEF FizzBuzzInv
<1>14. CASE pc[t] % 3 = 2
  <2>1. value'["bar"] = value["bar"] + 1 /\ register'[t] = value["bar"] \div 4
    BY <1>1, <1>4, <1>14 DEF Executes
  <2>2. value'["bar"] = Arrived(1)' + Arrived(2)' + Arrived(3)' + Arrived(4)'
    BY <1>12, <1>1, <1>7, <1>8, <1>9, <1>14, <2>1 DEF FizzBuzzInv
  <2>3. \A u \in 1 .. 4 : Arrived(u) >= Arrived(t) /\ Arrived(u) <= Arrived(t) + 1
    BY <1>12, <1>1, <1>7, <1>10, <1>14 DEF FizzBuzzInv
  <2>4. register'[t] = Arrived(t)
    <3>1. value["bar"] \in 4 * Arrived(t) .. 4 * Arrived(t) + 3
      BY <1>12, <1>1, <1>7, <2>3 DEF FizzBuzzInv
    <3>2. PICK a, v : a = Arrived(t) /\ v = value["bar"]
      OBVIOUS
    <3>3. a \in Nat /\ v \in 4 * a .. 4 * a + 3
      BY <1>1, <1>7, <3>1, <3>2
    <3>4. v \div 4 = a
      BY <3>3
    <3> QED
      BY <2>1, <3>2, <3>4
  <2>5. \A u, w \in 1 .. 4 : pc'[u] % 3 # 0 => Arrived(w)' >= Arrived(u)'
    BY <1>12, <1>1, <1>6, <1>7, <1>8, <1>9, <1>14 DEF FizzBuzzInv
  <2>6. \A u, w \in 1 .. 4 : pc'[u] % 3 = 0 => Arrived(w)' >= Arrived(u)' - 1
    BY <1>12, <1>1, <1>6, <1>7, <1>8, <1>9, <1>10, <1>14, <2>3 DEF FizzBuzzInv
  <2>7. \A u \in 1 .. 4 : pc'[u] % 3 = 0 => register'[u] = Arrived(u)' - 1
    BY <1>12, <1>1, <1>6, <1>7, <1>8, <1>9, <1>14, <2>4 DEF FizzBuzzInv
  <2> QED
    BY <2>2, <2>5, <2>6, <2>7 DEF FizzBuzzInv
<1>15. CASE pc[t] % 3 = 0
  <2>1. value'["bar"] = Arrived(1)' + Arrived(2)' + Arrived(3)' + Arrived(4)'
    BY <1>1, <1>8, <1>9, <1>11, <1>12, <1>15 DEF FizzBuzzInv
  <2>2. value["bar"] \div 4 # register[t] /\ register[t] = Arrived(t) - 1
    BY <1>1, <1>4, <1>15 DEF Executes, FizzBuzzInv
  <2>3. \A u \in 1 .. 4 : Arrived(u) >= Arrived(t)
    <3> SUFFICES ASSUME NEW w \in 1 .. 4, Arrived(w) < Arrived(t) PROVE FALSE
      BY <1>1, <1>7
    <3>1. \A u \in 1 .. 4 : Arrived(u) >= Arrived(t) - 1 /\ Arrived(u) <= Arrived(t)
      BY <1>12, <1>1, <1>7, <1>10, <1>15 DEF FizzBuzzInv
    <3>2. Arrived(w) = Arrived(t) - 1
      BY <1>1, <1>7, <3>1
    <3>3. value["bar"] \in 4 * (Arrived(t) - 1) .. 4 * (Arrived(t) - 1) + 3
      BY <1>12, <1>1, <1>7, <3>1, <3>2 DEF FizzBuzzInv
    <3>4. PICK a, v : a = Arrived(t) - 1 /\ v = value["bar"]
      OBVIOUS
    <3>5. a \in Nat /\ v \in 4 * a .. 4 * a + 3
      BY <1>1, <1>7, <3>2, <3>3, <3>4
    <3>6. v \div 4 = a
      BY <3>5
    <3> QED
      BY <2>2, <3>4, <3>6
  <2>4. \A u \in 1 .. 4 : Arrived(u)' = Arrived(u)
    BY <1>8, <1>9, <1>15
  <2>5. \A u, w \in 1 .. 4 : pc'[u] % 3 # 0 => Arrived(w)' >= Arrived(u)'
    BY <1>12, <1>1, <1>6, <2>3, <2>4 DEF FizzBuzzInv
  <2>6. \A u, w \in 1 .. 4 : pc'[u] % 3 = 0 =>
           Arrived(w)' >= Arrived(u)' - 1 /\ register'[u] = Arrived(u)' - 1
    BY <1>12, <1>1, <1>6, <1>9, <1>15, <2>4 DEF FizzBuzzInv
  <2> QED
    BY <2>1, <2>5, <2>6 DEF FizzBuzzInv
<1> QED
  BY <1>9, <1>13, <1>14, <1>15

LEMMA FizzBuzzSafe ==
    ASSUME SyncBase, program = "fizz_buzz", FizzBuzzInv, NEW t \in Threads, NEW u \in Threads
    PROVE  ~ Collide(t, u)
<1>0. Code[program] = FizzBuzz /\ Threads = 1 .. 4
  BY CodeIs, FizzBuzzIs DEF Threads
<1> SUFFICES ASSUME Collide(t, u) PROVE FALSE
  OBVIOUS
<1>1. /\ t # u /\ pc[t] \in 1 .. 3 * n /\ pc[u] \in 1 .. 3 * n
      /\ FizzBuzz[t][pc[t]].op \in PlainWrites /\ FizzBuzz[u][pc[u]].op \in PlainAccesses
  BY <1>0, FizzBuzzIs DEF Collide
<1>2. \A w \in 1 .. 4 : pc[w] \in 1 .. 3 * n /\ FizzBuzz[w][pc[w]].op \in PlainAccesses
        => pc[w] % 3 = 1 /\ Arrived(w) + 1 \in Turns[w]
  <2> SUFFICES ASSUME NEW w \in 1 .. 4, pc[w] \in 1 .. 3 * n,
                      FizzBuzz[w][pc[w]].op \in PlainAccesses
               PROVE  pc[w] % 3 = 1 /\ Arrived(w) + 1 \in Turns[w]
    OBVIOUS
  <2>1. pc[w] % 3 \in 0 .. 2
    <3>1. pc[w] \in Nat
      BY <1>0, PlacesAreNumbers
    <3> QED
      BY <3>1, ThirdsOf
  <2>2. PICK i : i = pc[w]
    OBVIOUS
  <2>3. LET r == FizzBuzz[w][i] IN
        /\ i % 3 = 1 => \/ r.op = "callback" /\ (i \div 3) + 1 \in Turns[w]
                        \/ r.op = "go"
        /\ i % 3 = 2 => r.op = "arrive"
        /\ i % 3 = 0 => r.op = "await_phase"
    BY <2>2, FizzBuzzIs
  <2>4. i % 3 = 1 /\ (i \div 3) + 1 \in Turns[w]
    BY <2>1, <2>2, <2>3 DEF PlainAccesses, PlainWrites
  <2> QED
    BY <2>2, <2>4 DEF Arrived
<1>3. Arrived(t) = Arrived(u)
  <2>1. pc[t] \in Nat /\ pc[u] \in Nat
    BY <1>0, PlacesAreNumbers
  <2>2. Arrived(t) \in Nat /\ Arrived(u) \in Nat
    BY <2>1, ThirdsOf DEF Arrived
  <2>3. pc[t] % 3 = 1 /\ pc[u] % 3 = 1
    BY <1>0, <1>1, <1>2 DEF PlainAccesses
  <2>4. Arrived(t) >= Arrived(u) /\ Arrived(u) >= Arrived(t)
    BY <1>0, <2>3 DEF FizzBuzzInv
  <2> QED
    BY <2>2, <2>4
<1> QED
  BY <1>0, <1>1, <1>2, <1>3, TurnsDiffer DEF PlainAccesses

-----------------------------------------------------------------------------
(* What a step of thread t does to the mutexes.                             *)
LEMMA StepLocks ==
    ASSUME SyncBase, NEW t, Steps(t), NEW s, s = Code[program][t][pc[t]]
    PROVE  /\ \A m \in Objects, u \in Threads \ {t} :
                /\ u \in owner[m] => u \in owner'[m]
                /\ u \in sharers[m] => u \in sharers'[m]
           /\ \A m \in Objects : s.op \notin {"unlock", "unlock_shared", "wait_until", "lock_both"}
                                 \/ (s.op \notin {"wait_until", "lock_both"} /\ m # s.object) =>
                /\ t \in owner[m] => t \in owner'[m]
                /\ t \in sharers[m] => t \in sharers'[m]
           /\ s.op = "lock" => t \in owner'[s.object]
           /\ s.op = "lock_both" /\ pc'[t] # pc[t] =>
                pc'[t] = pc[t] + 1 /\ t \in owner'[s.object] /\ (s.value \in Objects => t \in owner'[s.value])
           /\ s.op = "lock_shared" => t \in sharers'[s.object]
           /\ s.op = "wait_until" /\ s.target \in Objects /\ pc'[t] # pc[t] =>
                pc'[t] = pc[t] + 1 /\ t \in owner[s.target] /\ t \in owner'[s.target]
<1>1. /\ s = Current(t) /\ s.object \in Objects /\ Locks(t) /\ Moves(t) /\ t \in Threads
      /\ pc[t] \in Nat
  BY DEF Steps, Current, SyncBase
<1> USE <1>1
<1>2. \A m \in Objects :
      /\ \/ owner'[m] = owner[m]
         \/ owner[m] = {} /\ sharers[m] = {} /\ owner'[m] = {t}
         \/ owner'[m] = owner[m] \ {t} /\ m \in Gives(s)
      /\ \/ sharers'[m] = sharers[m]
         \/ owner[m] = {} /\ owner'[m] = {} /\ sharers'[m] = sharers[m] \cup {t}
         \/ sharers'[m] = sharers[m] \ {t} /\ m \in Gives(s)
  BY DEF Locks
<1>3. \A m \in Objects, u \in Threads \ {t} :
        /\ u \in owner[m] => u \in owner'[m]
        /\ u \in sharers[m] => u \in sharers'[m]
  BY <1>2
<1>4. \A m \in Objects : m \notin Gives(s) =>
        /\ t \in owner[m] => t \in owner'[m]
        /\ t \in sharers[m] => t \in sharers'[m]
  BY <1>2
<1>5. \A m : \/ s.op \notin {"unlock", "unlock_shared", "wait_until", "lock_both"}
             \/ (s.op \notin {"wait_until", "lock_both"} /\ m # s.object)
             => m \notin Gives(s)
  BY DEF Gives
<1>6. s.op = "lock" \/ (s.op = "lock_both" /\ pc'[t] # pc[t]) => pc'[t] = pc[t] + 1
  BY DEF Moves, Jumps
<1>7. \A m \in Objects :
        /\ m \in Takes(s) /\ s.op \in {"lock", "lock_both"} /\ pc'[t] = pc[t] + 1
             => owner'[m] = {t}
        /\ s.op = "lock_shared" /\ m = s.object => t \in sharers'[m]
        /\ s.op = "wait_until" /\ m = s.target /\ pc'[t] # pc[t]
             => t \in owner[m] /\ owner'[m] = owner[m]
  BY DEF Locks
<1>8. /\ s.op = "lock" => s.object \in Takes(s)
      /\ s.op = "lock_both" => s.object \in Takes(s) /\ s.value \in Takes(s)
  BY DEF Takes
<1>9. s.op = "wait_until" /\ pc'[t] # pc[t] => pc'[t] = pc[t] + 1
  BY DEF Moves, Jumps
<1> QED
  BY <1>3, <1>4, <1>5, <1>6, <1>7, <1>8, <1>9

(* Where thread t is in a loop of L statements without jumps, after the     *)
(* first k statements.                                                      *)
Place(t, k, L) == ((pc[t] - k - 1) % L) + 1

LEMMA NextPlace ==
    ASSUME NEW t, NEW k \in Nat, NEW L \in Nat \ {0}, pc[t] \in Nat, pc[t] > k,
           pc'[t] = pc[t] + 1
    PROVE  /\ Place(t, k, L) \in 1 .. L
           /\ Place(t, k, L)' = IF Place(t, k, L) = L THEN 1 ELSE Place(t, k, L) + 1
<1> DEFINE a == pc[t] - k - 1
<1>1. a \in Nat /\ pc'[t] - k - 1 = a + 1
  OBVIOUS
<1>2. Place(t, k, L) = (a % L) + 1
  BY DEF Place
<1>3. Place(t, k, L)' = ((a + 1) % L) + 1
  <2>1. Place(t, k, L)' = ((pc'[t] - k - 1) % L) + 1
    BY DEF Place
  <2> QED
    BY <1>1, <2>1
<1> HIDE DEF a
<1>4. a % L \in 0 .. L - 1
  BY <1>1, Division
<1>5. (a + 1) % L = ((a % L) + 1) % L
  BY <1>1, ModuloSum
<1>6. PICK b : b = (a % L) + 1
  OBVIOUS
<1>7. L > 1 => b % L = IF b < L THEN b ELSE b - L
  <2>1. b \in 1 .. L
    BY <1>4, <1>6
  <2>2. L > 1 => b \in 0 .. 2 * L - 1
    BY <2>1
  <2> QED
    BY <2>2, WithinTwoLaps
<1>8. L = 1 => b % L = 0
  BY <1>4, <1>6
<1> QED
  BY <1>2, <1>3, <1>4, <1>5, <1>6, <1>7, <1>8

-----------------------------------------------------------------------------
(* The statement that a thread is at whose code is a loop q, after the      *)
(* statements a that come first.                                            *)
LEMMA LapIs ==
    ASSUME NEW t \in Threads, NEW k \in Nat, NEW q, NEW W, NEW D, NEW L,
           Profile(q, W, D), Straight(q), Len(q) = L, L # 0,
           Code[program][t] = Times(k, q), pc[t] \in DOMAIN Code[program][t]
    PROVE  /\ pc[t] \in Nat \ {0} /\ Place(t, 0, L) \in 1 .. L /\ L \in Nat \ {0}
           /\ Code[program][t][pc[t]] = q[Place(t, 0, L)]
<1> DEFINE T == Times(k, q)
<1>1. /\ Profile(T, W, D) /\ \A i \in DOMAIN T : /\ ((i - 1) % Len(q)) + 1 \in DOMAIN q
                                                 /\ T[i] = q[((i - 1) % Len(q)) + 1]
  BY TimesTyped
<1>2. DOMAIN q = 1 .. L /\ L \in Nat
  BY DEF Profile, SequenceTyped
<1>3. DOMAIN T = 1 .. Len(T) /\ Len(T) \in Nat
  BY <1>1 DEF Profile, SequenceTyped
<1> HIDE DEF T
<1>4. pc[t] \in Nat \ {0} /\ pc[t] \in DOMAIN T
  BY <1>3 DEF T
<1>5. Place(t, 0, L) = ((pc[t] - 1) % L) + 1
  <2>1. pc[t] - 0 - 1 = pc[t] - 1
    BY <1>4
  <2> QED
    BY <2>1 DEF Place
<1> QED
  BY <1>1, <1>2, <1>4, <1>5 DEF T

(* Statements a, and then a loop q.                                         *)
Loops(c, a, q) ==
    \A i \in DOMAIN c :
      /\ i <= Len(a) => c[i] = a[i]
      /\ i > Len(a) => /\ ((i - Len(a) - 1) % Len(q)) + 1 \in DOMAIN q
                       /\ c[i] = q[((i - Len(a) - 1) % Len(q)) + 1]
Laps(k, q) == k * Len(q)

LEMMA AfterTyped ==
    ASSUME NEW k \in Nat, NEW a, NEW q, NEW W, NEW D,
           Profile(a, W, D), Straight(a), Profile(q, W, D), Straight(q), Len(q) # 0,
           NEW c, c = a \o Times(k, q)
    PROVE  /\ Profile(c, W, D) /\ Straight(c) /\ Loops(c, a, q)
           /\ Len(c) = Len(a) + Laps(k, q) /\ Laps(k, q) \in Nat
<1> DEFINE T == Times(k, q)
<1>1. Profile(T, W, D) /\ Straight(T) /\ Len(T) = k * Len(q) /\ k * Len(q) \in Nat
  BY TimesTyped
<1>2. \A i \in DOMAIN T : /\ ((i - 1) % Len(q)) + 1 \in DOMAIN q
                          /\ T[i] = q[((i - 1) % Len(q)) + 1]
  BY TimesTyped
<1> HIDE DEF T
<1>3. c = a \o T
  BY DEF T
<1>4. /\ Profile(a \o T, W, D) /\ Straight(a \o T) /\ Len(a \o T) = Len(a) + Len(T)
      /\ \A i \in 1 .. Len(a) : (a \o T)[i] = a[i]
      /\ \A i \in 1 .. Len(T) : (a \o T)[Len(a) + i] = T[i]
  BY <1>1, Concatenated
<1>5. /\ Profile(c, W, D) /\ DOMAIN c = 1 .. Len(a) + Len(T)
      /\ Straight(c) /\ Len(c) = Len(a) + Len(T)
      /\ \A i \in 1 .. Len(a) : c[i] = a[i]
      /\ \A i \in 1 .. Len(T) : c[Len(a) + i] = T[i]
  BY <1>3, <1>4 DEF Profile, SequenceTyped
<1>6. Len(a) \in Nat /\ Len(T) \in Nat /\ DOMAIN T = 1 .. Len(T)
  BY <1>1 DEF Profile, SequenceTyped
<1>7. ASSUME NEW i \in DOMAIN c, i > Len(a)
      PROVE  /\ ((i - Len(a) - 1) % Len(q)) + 1 \in DOMAIN q
             /\ c[i] = q[((i - Len(a) - 1) % Len(q)) + 1]
  <2>1. PICK x : x = i - Len(a)
    OBVIOUS
  <2>2. x \in 1 .. Len(T) /\ i = Len(a) + x /\ x - 1 = i - Len(a) - 1
    BY <1>5, <1>6, <1>7, <2>1
  <2>3. c[i] = T[x]
    BY <1>5, <2>2
  <2>4. ((x - 1) % Len(q)) + 1 \in DOMAIN q /\ T[x] = q[((x - 1) % Len(q)) + 1]
    BY <1>2, <1>6, <2>2
  <2> QED
    BY <2>2, <2>3, <2>4
<1>8. \A i \in DOMAIN c : i <= Len(a) => c[i] = a[i]
  BY <1>5, <1>6
<1> QED
  BY <1>1, <1>5, <1>7, <1>8 DEF Loops, Laps

(* Thread w keeps its place while another thread takes a step.              *)
LEMMA SamePlace ==
    ASSUME NEW t, Steps(t), NEW w \in Threads \ {t}, NEW k, NEW L
    PROVE  pc'[w] = pc[w] /\ Place(w, k, L)' = Place(w, k, L)
<1>1. pc'[w] = pc[w]
  BY DEF Steps, Moves
<1> QED
  BY <1>1 DEF Place

-----------------------------------------------------------------------------
(* chapter_06/program_05b: those that wait and the one that makes ready     *)
(* hold the mutex while they access what it protects.                       *)
ReadyInv ==
    /\ \A t \in 1 .. NUM_THREADS : pc[t] \in 3 .. 4 => t \in owner["mtx"]
    /\ pc[NUM_THREADS + 1] \in 2 .. 4 => NUM_THREADS + 1 \in owner["mtx"]

LEMMA ReadyKept ==
    ASSUME SyncBase, program = "ready", ReadyInv, NEW t, Steps(t)
    PROVE  ReadyInv'
<1> DEFINE N == NUM_THREADS
<1>0. Code[program] = WaitForReady /\ Threads = 1 .. N + 1 /\ N \in 1 .. 5
  BY CodeIs, WaitForReadyIs, SizesAssumption DEF Threads
<1>1. "mtx" \in Objects
  <2>1. 1 \in 1 .. N /\ 1 \in Threads
    BY <1>0
  <2>2. 1 \in DOMAIN WaitForReady[1] /\ WaitForReady[1][1].object = "mtx"
    BY <2>1, WaitForReadyIs, LockFields
  <2> QED
    BY <1>0, <2>1, <2>2, IsObject
<1> DEFINE s == WaitForReady[t][pc[t]]
<1>2. Executes(t, s) /\ t \in 1 .. N + 1 /\ s = Code[program][t][pc[t]]
  BY <1>0, StepExecutes DEF Steps
<1>3. \A u \in 1 .. N + 1 : pc[u] \in Nat
  BY <1>0, PlacesAreNumbers
<1>4. /\ \A u \in Threads \ {t} : u \in owner["mtx"] => u \in owner'["mtx"]
      /\ s.op \notin {"unlock", "unlock_shared", "wait_until", "lock_both"} =>
           (t \in owner["mtx"] => t \in owner'["mtx"])
      /\ s.op = "lock" => t \in owner'[s.object]
      /\ s.op = "wait_until" /\ s.target \in Objects /\ pc'[t] # pc[t] =>
           pc'[t] = pc[t] + 1 /\ t \in owner'[s.target]
  BY <1>1, <1>2, StepLocks
<1>5. /\ pc[t] \in Nat /\ pc'[t] \in Nat
      /\ \A u \in 1 .. N + 1 : u # t => pc'[u] = pc[u]
      /\ s.op \notin Jumps \cup {"wait_until", "lock_both"} => pc'[t] = pc[t] + 1
  BY <1>0, <1>2, <1>3 DEF Executes
<1> HIDE DEF s
<1>6. CASE t \in 1 .. N
  <2>1. /\ pc[t] \in 1 .. 4
        /\ pc[t] = 1 => s.op = "lock" /\ s.object = "mtx"
        /\ pc[t] = 2 => s.op = "wait_until" /\ s.target = "mtx"
        /\ pc[t] = 3 => s.op = "read"
        /\ pc[t] = 4 => s.op = "unlock"
    BY <1>0, <1>2, <1>6, WaitForReadyIs, LockFields, AccessFields DEF Executes
  <2>2. pc'[t] \in 3 .. 4 => t \in owner'["mtx"]
    BY <1>1, <1>4, <1>5, <1>6, <2>1 DEF Jumps, ReadyInv
  <2> QED
    BY <1>0, <1>4, <1>5, <1>6, <2>2 DEF ReadyInv
<1>7. CASE t = N + 1
  <2>1. /\ pc[t] \in 1 .. 5
        /\ pc[t] = 1 => s.op = "lock" /\ s.object = "mtx"
        /\ pc[t] \in 2 .. 3 => s.op = "write"
        /\ pc[t] = 4 => s.op = "unlock"
        /\ pc[t] = 5 => s.op = "notify_all"
    BY <1>0, <1>2, <1>7, WaitForReadyIs, LockFields, AccessFields DEF Executes
  <2>2. pc'[t] \in 2 .. 4 => t \in owner'["mtx"]
    BY <1>1, <1>4, <1>5, <1>7, <2>1 DEF Jumps, ReadyInv
  <2> QED
    BY <1>0, <1>4, <1>5, <1>7, <2>2 DEF ReadyInv
<1> QED
  BY <1>0, <1>2, <1>6, <1>7

LEMMA ReadySafe ==
    ASSUME SyncBase, program = "ready", ReadyInv, NEW t \in Threads, NEW u \in Threads
    PROVE  ~ Collide(t, u)
<1> DEFINE N == NUM_THREADS
<1>0. Code[program] = WaitForReady /\ Threads = 1 .. N + 1 /\ N \in 1 .. 5
  BY CodeIs, WaitForReadyIs, SizesAssumption DEF Threads
<1> SUFFICES ASSUME Collide(t, u) PROVE FALSE
  OBVIOUS
<1> DEFINE s == WaitForReady[t][pc[t]]
           r == WaitForReady[u][pc[u]]
<1>1. /\ t # u /\ pc[t] \in DOMAIN WaitForReady[t] /\ pc[u] \in DOMAIN WaitForReady[u]
      /\ s.op \in PlainWrites /\ r.op \in PlainAccesses
      /\ r.op = "wait_until" => u \in owner[r.target]
  BY <1>0 DEF Collide
<1>2. t = N + 1 /\ pc[t] \in 2 .. 3
  <2>1. t \in 1 .. N => s.op \notin PlainWrites
    BY <1>1, WaitForReadyIs, LockFields, AccessFields DEF PlainWrites
  <2>2. t = N + 1 => pc[t] \in 2 .. 3
    BY <1>1, WaitForReadyIs, LockFields, AccessFields DEF PlainWrites
  <2> QED
    BY <1>0, <1>1, <2>1, <2>2
<1>3. u \in owner["mtx"]
  <2>1. u \in 1 .. N
    BY <1>0, <1>1, <1>2
  <2>2. /\ pc[u] \in 1 .. 4
        /\ pc[u] = 1 => r.op = "lock"
        /\ pc[u] = 2 => r.op = "wait_until" /\ r.target = "mtx"
        /\ pc[u] = 4 => r.op = "unlock"
    BY <1>1, <2>1, WaitForReadyIs, LockFields
  <2> HIDE DEF r
  <2> QED
    BY <1>1, <2>1, <2>2 DEF PlainAccesses, PlainWrites, ReadyInv
<1>4. t \in owner["mtx"]
  BY <1>2 DEF ReadyInv
<1>5. "mtx" \in Objects
  BY <1>3, <1>0, IsObject, WaitForReadyIs, LockFields
<1> QED
  BY <1>1, <1>3, <1>4, <1>5 DEF SyncBase

-----------------------------------------------------------------------------
(* chapter_04/program_08: readers share the mutex, writers have it alone.   *)
ReadersInv ==
    \A t \in Threads :
      /\ t <= NUM_THREADS /\ Place(t, 0, 3) > 1 => t \in sharers["mutex"]
      /\ t > NUM_THREADS /\ Place(t, 0, 5) > 1 => t \in owner["mutex"]

LEMMA ReaderIs ==
    ASSUME SyncBase, program = "shared_mutex", NEW t \in Threads, pc[t] \in DOMAIN Code[program][t]
    PROVE  LET s == Code[program][t][pc[t]] IN
           /\ t <= NUM_THREADS =>
                /\ Place(t, 0, 3) \in 1 .. 3
                /\ Place(t, 0, 3) = 1 => s.op = "lock_shared" /\ s.object = "mutex"
                /\ Place(t, 0, 3) = 2 => s.op = "read"
                /\ Place(t, 0, 3) = 3 => s.op = "unlock_shared"
           /\ t > NUM_THREADS =>
                /\ Place(t, 0, 5) \in 1 .. 5
                /\ Place(t, 0, 5) = 1 => s.op = "lock" /\ s.object = "mutex"
                /\ Place(t, 0, 5) \in 2 .. 4 => s.op \in {"read", "write_next"}
                /\ Place(t, 0, 5) = 5 => s.op = "unlock"
           /\ t \in 1 .. NUM_THREADS + 2 /\ NUM_THREADS \in 1 .. 5 /\ pc[t] \in Nat \ {0}
<1>0. Code[program] = ReadersAndWriters /\ Threads = 1 .. NUM_THREADS + 2
      /\ NUM_THREADS \in 1 .. 5 /\ ROUNDS \in Nat
      /\ Code[program][t] = IF t <= NUM_THREADS THEN reader ELSE writer
  BY CodeIs, SizesAssumption DEF Threads, ReadersAndWriters, ForEach
<1>1. PICK s : s = Code[program][t][pc[t]]
  OBVIOUS
<1>2. CASE t <= NUM_THREADS
  <2> DEFINE q == << LockShared("mutex"), Read("counter"), UnlockShared("mutex") >>
  <2>1. Profile(q, {}, {}) /\ Straight(q) /\ Len(q) = 3
    BY AccessFields, LockFields DEF Profile, SequenceTyped, Jumps, PlainWrites, Straight
  <2>2. /\ q[1].op = "lock_shared" /\ q[1].object = "mutex"
        /\ q[2].op = "read" /\ q[3].op = "unlock_shared"
    BY AccessFields, LockFields
  <2>3. Code[program][t] = Times(ROUNDS, q)
    BY <1>0, <1>2 DEF reader
  <2> HIDE DEF q
  <2>4. pc[t] \in Nat \ {0} /\ Place(t, 0, 3) \in 1 .. 3 /\ s = q[Place(t, 0, 3)]
    <3>1. PICK L : L = 3
      OBVIOUS
    <3>2. /\ ROUNDS \in Nat /\ Profile(q, {}, {}) /\ Straight(q) /\ Len(q) = L /\ L # 0
          /\ Code[program][t] = Times(ROUNDS, q)
      BY <1>0, <2>1, <2>3, <3>1
    <3>3. /\ pc[t] \in Nat \ {0} /\ Place(t, 0, L) \in 1 .. L
          /\ Code[program][t][pc[t]] = q[Place(t, 0, L)]
      BY <3>2, LapIs
    <3> QED
      BY <1>1, <3>1, <3>3
  <2> QED
    BY <1>0, <1>1, <1>2, <2>2, <2>4
<1>3. CASE t > NUM_THREADS
  <2> DEFINE q == << Lock("mutex"), Read("counter"), WriteNext("counter"),
                           Read("counter"), Unlock("mutex") >>
  <2>1. Profile(q, {"counter"}, {}) /\ Straight(q) /\ Len(q) = 5
    BY AccessFields, LockFields DEF Profile, SequenceTyped, Jumps, PlainWrites, Straight
  <2>2. /\ q[1].op = "lock" /\ q[1].object = "mutex" /\ q[2].op = "read"
        /\ q[3].op = "write_next" /\ q[4].op = "read" /\ q[5].op = "unlock"
    BY AccessFields, LockFields
  <2>3. Code[program][t] = Times(ROUNDS, q)
    BY <1>0, <1>3 DEF writer
  <2> HIDE DEF q
  <2>4. pc[t] \in Nat \ {0} /\ Place(t, 0, 5) \in 1 .. 5 /\ s = q[Place(t, 0, 5)]
    <3>1. PICK L : L = 5
      OBVIOUS
    <3>2. /\ ROUNDS \in Nat /\ Profile(q, {"counter"}, {}) /\ Straight(q) /\ Len(q) = L /\ L # 0
          /\ Code[program][t] = Times(ROUNDS, q)
      BY <1>0, <2>1, <2>3, <3>1
    <3>3. /\ pc[t] \in Nat \ {0} /\ Place(t, 0, L) \in 1 .. L
          /\ Code[program][t][pc[t]] = q[Place(t, 0, L)]
      BY <3>2, LapIs
    <3> QED
      BY <1>1, <3>1, <3>3
  <2> QED
    BY <1>0, <1>1, <1>3, <2>2, <2>4
<1> QED
  BY <1>0, <1>2, <1>3

LEMMA ReadersKept ==
    ASSUME SyncBase, program = "shared_mutex", ReadersInv, NEW t, Steps(t)
    PROVE  ReadersInv'
<1>0. t \in Threads /\ pc[t] \in DOMAIN Code[program][t] /\ Threads' = Threads
  BY SameCode DEF Steps
<1>1. PICK s : s = Code[program][t][pc[t]]
  OBVIOUS
<1>2. Executes(t, s)
  BY <1>1, StepExecutes
<1>3. /\ t <= NUM_THREADS =>
           /\ Place(t, 0, 3) \in 1 .. 3
           /\ Place(t, 0, 3) = 1 => s.op = "lock_shared" /\ s.object = "mutex"
           /\ Place(t, 0, 3) = 2 => s.op = "read"
           /\ Place(t, 0, 3) = 3 => s.op = "unlock_shared"
      /\ t > NUM_THREADS =>
           /\ Place(t, 0, 5) \in 1 .. 5
           /\ Place(t, 0, 5) = 1 => s.op = "lock" /\ s.object = "mutex"
           /\ Place(t, 0, 5) \in 2 .. 4 => s.op \in {"read", "write_next"}
           /\ Place(t, 0, 5) = 5 => s.op = "unlock"
      /\ t \in 1 .. NUM_THREADS + 2 /\ NUM_THREADS \in 1 .. 5 /\ pc[t] \in Nat \ {0}
  BY <1>0, <1>1, ReaderIs
<1>4. "mutex" \in Objects
  <2>1. ROUNDS \in Nat \ {0} /\ Code[program] = ReadersAndWriters /\ 1 <= NUM_THREADS
        /\ Threads = 1 .. NUM_THREADS + 2 /\ NUM_THREADS \in 1 .. 5
    BY SizesAssumption, CodeIs DEF ReadersAndWriters, ForEach, Threads
  <2>2. 1 \in Threads /\ Code[program][1] = reader
    BY <2>1 DEF ReadersAndWriters, ForEach
  <2>3. 1 \in DOMAIN reader /\ reader[1] = LockShared("mutex")
    BY <2>1 DEF reader, Times
  <2> QED
    BY <2>2, <2>3, IsObject, LockFields
<1>5. pc'[t] = pc[t] + 1
  BY <1>2, <1>3 DEF Executes, Jumps
<1>6. /\ t <= NUM_THREADS /\ Place(t, 0, 3)' > 1 => t \in sharers'["mutex"]
      /\ t > NUM_THREADS /\ Place(t, 0, 5)' > 1 => t \in owner'["mutex"]
  <2>1. Place(t, 0, 3)' = (IF Place(t, 0, 3) = 3 THEN 1 ELSE Place(t, 0, 3) + 1)
        /\ Place(t, 0, 5)' = (IF Place(t, 0, 5) = 5 THEN 1 ELSE Place(t, 0, 5) + 1)
    BY <1>3, <1>5, NextPlace
  <2>2. /\ s.op \notin {"unlock", "unlock_shared", "wait_until", "lock_both"} =>
             /\ t \in owner["mutex"] => t \in owner'["mutex"]
             /\ t \in sharers["mutex"] => t \in sharers'["mutex"]
        /\ s.op = "lock" => t \in owner'[s.object]
        /\ s.op = "lock_shared" => t \in sharers'[s.object]
    BY <1>1, <1>4, StepLocks
  <2>3. t <= NUM_THREADS /\ Place(t, 0, 3)' > 1 => t \in sharers'["mutex"]
    BY <1>0, <1>3, <2>1, <2>2 DEF ReadersInv
  <2>4. t > NUM_THREADS /\ Place(t, 0, 5)' > 1 => t \in owner'["mutex"]
    BY <1>0, <1>3, <2>1, <2>2 DEF ReadersInv
  <2> QED
    BY <2>3, <2>4
<1>7. ASSUME NEW w \in Threads, w # t
      PROVE  /\ w <= NUM_THREADS /\ Place(w, 0, 3)' > 1 => w \in sharers'["mutex"]
             /\ w > NUM_THREADS /\ Place(w, 0, 5)' > 1 => w \in owner'["mutex"]
  <2>1. Place(w, 0, 3)' = Place(w, 0, 3) /\ Place(w, 0, 5)' = Place(w, 0, 5)
    BY <1>7, SamePlace
  <2>2. /\ w \in owner["mutex"] => w \in owner'["mutex"]
        /\ w \in sharers["mutex"] => w \in sharers'["mutex"]
    BY <1>1, <1>4, <1>7, StepLocks
  <2> QED
    BY <2>1, <2>2 DEF ReadersInv
<1> QED
  BY <1>0, <1>6, <1>7 DEF ReadersInv

LEMMA ReadersSafe ==
    ASSUME SyncBase, program = "shared_mutex", ReadersInv, NEW t \in Threads, NEW u \in Threads
    PROVE  ~ Collide(t, u)
<1> SUFFICES ASSUME Collide(t, u) PROVE FALSE
  OBVIOUS
<1>1. /\ t # u /\ pc[t] \in DOMAIN Code[program][t] /\ pc[u] \in DOMAIN Code[program][u]
      /\ Code[program][t][pc[t]].op \in PlainWrites
      /\ Code[program][u][pc[u]].op \in PlainAccesses
  BY DEF Collide
<1>2. t > NUM_THREADS /\ Place(t, 0, 5) > 1
  BY <1>1, ReaderIs DEF PlainWrites
<1>3. /\ u <= NUM_THREADS => Place(u, 0, 3) > 1
      /\ u > NUM_THREADS => Place(u, 0, 5) > 1
      /\ u <= NUM_THREADS \/ u > NUM_THREADS
  BY <1>1, ReaderIs DEF PlainWrites, PlainAccesses
<1>4. t \in owner["mutex"] /\ (u \in owner["mutex"] \/ u \in sharers["mutex"])
  BY <1>2, <1>3 DEF ReadersInv
<1>5. "mutex" \in Objects
  <2>1. CASE Place(t, 0, 5) = 1
    BY <1>2, <2>1
  <2>2. ROUNDS \in Nat \ {0} /\ Code[program] = ReadersAndWriters /\ 1 <= NUM_THREADS
        /\ Threads = 1 .. NUM_THREADS + 2 /\ NUM_THREADS \in 1 .. 5
    BY SizesAssumption, CodeIs DEF ReadersAndWriters, ForEach, Threads
  <2>3. 1 \in Threads /\ Code[program][1] = reader
    BY <2>2 DEF ReadersAndWriters, ForEach
  <2>4. 1 \in DOMAIN reader /\ reader[1] = LockShared("mutex")
    BY <2>2 DEF reader, Times
  <2> QED
    BY <2>3, <2>4, IsObject, LockFields
<1> QED
  BY <1>1, <1>4, <1>5 DEF SyncBase

-----------------------------------------------------------------------------
(* leetcode/03_dining_philosophers.                                         *)
LEMMA WantsToEatIs ==
    ASSUME NEW p
    PROVE  LET c == wantsToEat(p) IN
           /\ Len(c) = 11 /\ DOMAIN c = 1 .. 11
           /\ c[1] = Lock("mtx") /\ c[2] = WaitUntil("mtx", "id", p)
           /\ c[3] = Write(Left(Fork, p), 1) /\ c[4] = Write(Right(Fork, p), 1)
           /\ c[5] = Callback("eat", p)
           /\ c[6] = Write(Left(Fork, p), 0) /\ c[7] = Write(Right(Fork, p), 0)
           /\ c[8] = Read("id") /\ c[9] = WriteNextModulo("id", 5)
           /\ c[10] = NotifyEverybody /\ c[11] = Unlock("mtx")
  BY DEF wantsToEat, PickForks, PutForks

LEMMA WantsToEatTyped ==
    ASSUME NEW p
    PROVE  /\ Straight(wantsToEat(p))
           /\ Profile(wantsToEat(p), {Left(Fork, p), Right(Fork, p), "output", "id"}, {})
<1>1. PICK c : c = wantsToEat(p)
  OBVIOUS
<1>2. /\ Len(c) = 11 /\ DOMAIN c = 1 .. 11
      /\ c[1] = Lock("mtx") /\ c[2] = WaitUntil("mtx", "id", p)
      /\ c[3] = Write(Left(Fork, p), 1) /\ c[4] = Write(Right(Fork, p), 1)
      /\ c[5] = Callback("eat", p)
      /\ c[6] = Write(Left(Fork, p), 0) /\ c[7] = Write(Right(Fork, p), 0)
      /\ c[8] = Read("id") /\ c[9] = WriteNextModulo("id", 5)
      /\ c[10] = NotifyEverybody /\ c[11] = Unlock("mtx")
  BY <1>1, WantsToEatIs
<1>3. Straight(c)
  BY <1>2, AccessFields, LockFields DEF Straight, Jumps
<1>4. Profile(c, {Left(Fork, p), Right(Fork, p), "output", "id"}, {})
  BY <1>2, <1>3, AccessFields, LockFields
     DEF Profile, SequenceTyped, Straight, PlainWrites
<1> QED
  BY <1>1, <1>3, <1>4

LEMMA ByTurnsIs ==
    ASSUME program = "dining_by_turns", NEW t \in Threads, pc[t] \in DOMAIN Code[program][t]
    PROVE  LET s == Code[program][t][pc[t]] IN
           /\ pc[t] \in Nat \ {0} /\ Place(t, 0, 11) \in 1 .. 11
           /\ Place(t, 0, 11) = 1 => s.op = "lock" /\ s.object = "mtx"
           /\ Place(t, 0, 11) = 2 => s.op = "wait_until" /\ s.target = "mtx"
           /\ Place(t, 0, 11) \in 3 .. 10 =>
                s.op \in {"write", "callback", "read", "write_next", "notify_all"}
           /\ Place(t, 0, 11) = 11 => s.op = "unlock" /\ s.object = "mtx"
<1>0. Code[program][t] = Times(ROUNDS, wantsToEat(t - 1)) /\ ROUNDS \in Nat
  BY CodeIs, SizesAssumption DEF Threads, DiningByTurns, ForEach
<1>1. PICK q, p : p = t - 1 /\ q = wantsToEat(p)
  OBVIOUS
<1>2. PICK L, W : L = 11 /\ Profile(q, W, {})
  BY <1>1, WantsToEatTyped
<1>3. /\ ROUNDS \in Nat /\ Profile(q, W, {}) /\ Straight(q) /\ Len(q) = L /\ L # 0
      /\ Code[program][t] = Times(ROUNDS, q)
  <2>1. Straight(q)
    BY <1>1, WantsToEatTyped
  <2>2. Len(q) = 11
    BY <1>1, WantsToEatIs
  <2>3. Code[program][t] = Times(ROUNDS, q)
    BY <1>0, <1>1
  <2> QED
    BY <1>0, <1>2, <2>1, <2>2, <2>3
<1>4. /\ pc[t] \in Nat \ {0} /\ Place(t, 0, L) \in 1 .. L
      /\ Code[program][t][pc[t]] = q[Place(t, 0, L)]
  BY <1>3, LapIs
<1>5. /\ q[1] = Lock("mtx") /\ q[2] = WaitUntil("mtx", "id", p)
      /\ q[3] = Write(Left(Fork, p), 1) /\ q[4] = Write(Right(Fork, p), 1)
      /\ q[5] = Callback("eat", p)
      /\ q[6] = Write(Left(Fork, p), 0) /\ q[7] = Write(Right(Fork, p), 0)
      /\ q[8] = Read("id") /\ q[9] = WriteNextModulo("id", 5)
      /\ q[10] = NotifyEverybody /\ q[11] = Unlock("mtx")
  BY <1>1, WantsToEatIs
<1>6. PICK i, s : i = Place(t, 0, 11) /\ s = Code[program][t][pc[t]]
  OBVIOUS
<1>7. pc[t] \in Nat \ {0} /\ i \in 1 .. 11 /\ s = q[i]
  BY <1>2, <1>4, <1>6
<1>8. /\ i = 1 => s.op = "lock" /\ s.object = "mtx"
      /\ i = 2 => s.op = "wait_until" /\ s.target = "mtx"
      /\ i \in 3 .. 10 => s.op \in {"write", "callback", "read", "write_next", "notify_all"}
      /\ i = 11 => s.op = "unlock" /\ s.object = "mtx"
  BY <1>5, <1>7, LockFields, AccessFields
<1> QED
  BY <1>6, <1>7, <1>8

-----------------------------------------------------------------------------
(* By turns: the philosopher who eats holds the mutex all along.            *)
ByTurnsInv == \A t \in Threads : Place(t, 0, 11) > 2 => t \in owner["mtx"]

LEMMA ByTurnsMutex ==
    ASSUME program = "dining_by_turns" PROVE "mtx" \in Objects
<1>1. 1 \in Threads /\ Code[program][1] = Times(ROUNDS, wantsToEat(1 - 1))
  BY CodeIs DEF Threads, DiningByTurns, ForEach
<1>2. ROUNDS \in Nat \ {0}
  BY SizesAssumption
<1>3. PICK q, p : p = 1 - 1 /\ q = wantsToEat(p)
  OBVIOUS
<1>4. Len(q) = 11 /\ q[1] = Lock("mtx")
  BY <1>3, WantsToEatIs
<1>5. Code[program][1] = Times(ROUNDS, q)
  BY <1>1, <1>3
<1>6. 1 \in DOMAIN Times(ROUNDS, q) /\ Times(ROUNDS, q)[1] = q[1]
  BY <1>2, <1>4 DEF Times
<1> QED
  BY <1>1, <1>4, <1>5, <1>6, IsObject, LockFields

LEMMA ByTurnsKept ==
    ASSUME SyncBase, program = "dining_by_turns", ByTurnsInv, NEW t, Steps(t)
    PROVE  ByTurnsInv'
<1>0. t \in Threads /\ pc[t] \in DOMAIN Code[program][t] /\ Threads' = Threads
      /\ "mtx" \in Objects
  BY SameCode, ByTurnsMutex DEF Steps
<1>1. PICK s : s = Code[program][t][pc[t]]
  OBVIOUS
<1>2. Executes(t, s)
  BY <1>1, StepExecutes
<1>3. /\ pc[t] \in Nat \ {0} /\ Place(t, 0, 11) \in 1 .. 11
      /\ Place(t, 0, 11) = 1 => s.op = "lock" /\ s.object = "mtx"
      /\ Place(t, 0, 11) = 2 => s.op = "wait_until" /\ s.target = "mtx"
      /\ Place(t, 0, 11) \in 3 .. 10 =>
           s.op \in {"write", "callback", "read", "write_next", "notify_all"}
      /\ Place(t, 0, 11) = 11 => s.op = "unlock" /\ s.object = "mtx"
  BY <1>0, <1>1, ByTurnsIs
<1>4. /\ \A u \in Threads \ {t} : u \in owner["mtx"] => u \in owner'["mtx"]
      /\ s.op \notin {"unlock", "unlock_shared", "wait_until", "lock_both"} =>
           (t \in owner["mtx"] => t \in owner'["mtx"])
      /\ s.op = "wait_until" /\ s.target \in Objects /\ pc'[t] # pc[t] =>
           pc'[t] = pc[t] + 1 /\ t \in owner'[s.target]
  BY <1>0, <1>1, StepLocks
<1>5. Place(t, 0, 11)' > 2 => t \in owner'["mtx"]
  <2>1. CASE pc'[t] = pc[t]
    <3>1. Place(t, 0, 11)' = Place(t, 0, 11)
      BY <2>1 DEF Place
    <3>2. Place(t, 0, 11) = 2
      BY <1>2, <1>3, <2>1 DEF Executes, Jumps
    <3> QED
      BY <3>1, <3>2
  <2>2. CASE pc'[t] # pc[t]
    <3>1. pc'[t] = pc[t] + 1
      BY <1>0, <1>2, <1>3, <1>4, <2>2 DEF Executes, Jumps
    <3>2. Place(t, 0, 11)' = (IF Place(t, 0, 11) = 11 THEN 1 ELSE Place(t, 0, 11) + 1)
      BY <1>3, <3>1, NextPlace
    <3>3. CASE Place(t, 0, 11) = 2
      BY <1>0, <1>3, <1>4, <2>2, <3>3
    <3>4. CASE Place(t, 0, 11) \in 3 .. 10
      BY <1>0, <1>3, <1>4, <3>4 DEF ByTurnsInv
    <3> QED
      BY <1>3, <3>2, <3>3, <3>4
  <2> QED
    BY <2>1, <2>2
<1>6. ASSUME NEW w \in Threads, w # t PROVE Place(w, 0, 11)' > 2 => w \in owner'["mtx"]
  <2>1. Place(w, 0, 11)' = Place(w, 0, 11)
    BY <1>6, SamePlace
  <2> QED
    BY <1>4, <1>6, <2>1 DEF ByTurnsInv
<1> QED
  BY <1>0, <1>5, <1>6 DEF ByTurnsInv

LEMMA ByTurnsSafe ==
    ASSUME SyncBase, program = "dining_by_turns", ByTurnsInv, NEW t \in Threads, NEW u \in Threads
    PROVE  ~ Collide(t, u)
<1> SUFFICES ASSUME Collide(t, u) PROVE FALSE
  OBVIOUS
<1>1. PICK s, r : s = Code[program][t][pc[t]] /\ r = Code[program][u][pc[u]]
  OBVIOUS
<1>2. /\ t # u /\ pc[t] \in DOMAIN Code[program][t] /\ pc[u] \in DOMAIN Code[program][u]
      /\ s.op \in PlainWrites /\ r.op \in PlainAccesses
      /\ r.op = "wait_until" => u \in owner[r.target]
  BY <1>1 DEF Collide
<1>3. t \in owner["mtx"]
  <2>1. Place(t, 0, 11) > 2
    BY <1>1, <1>2, ByTurnsIs DEF PlainWrites
  <2> QED
    BY <2>1 DEF ByTurnsInv
<1>4. u \in owner["mtx"]
  <2>1. Place(u, 0, 11) > 2 \/ (r.op = "wait_until" /\ r.target = "mtx")
    BY <1>1, <1>2, ByTurnsIs DEF PlainAccesses, PlainWrites
  <2> QED
    BY <1>2, <2>1 DEF ByTurnsInv
<1> QED
  BY <1>2, <1>3, <1>4, ByTurnsMutex DEF SyncBase

LEMMA WantsToEat2Is ==
    ASSUME NEW p
    PROVE  LET c == wantsToEat2(p) IN
           /\ Len(c) = 8 /\ DOMAIN c = 1 .. 8
           /\ c[1] = LockBoth(Left(Mtx, p), Right(Mtx, p))
           /\ c[2] = Write(Left(Fork, p), 1) /\ c[3] = Write(Right(Fork, p), 1)
           /\ c[4] = Output("eat")
           /\ c[5] = Write(Left(Fork, p), 0) /\ c[6] = Write(Right(Fork, p), 0)
           /\ c[7] = Unlock(Left(Mtx, p)) /\ c[8] = Unlock(Right(Mtx, p))
  BY DEF wantsToEat2, PickForks, PutForks

LEMMA WantsToEat2Typed ==
    ASSUME NEW p
    PROVE  /\ Straight(wantsToEat2(p))
           /\ Profile(wantsToEat2(p), {Left(Fork, p), Right(Fork, p)}, {})
<1>1. PICK c : c = wantsToEat2(p)
  OBVIOUS
<1>2. /\ Len(c) = 8 /\ DOMAIN c = 1 .. 8
      /\ c[1] = LockBoth(Left(Mtx, p), Right(Mtx, p))
      /\ c[2] = Write(Left(Fork, p), 1) /\ c[3] = Write(Right(Fork, p), 1)
      /\ c[4] = Output("eat")
      /\ c[5] = Write(Left(Fork, p), 0) /\ c[6] = Write(Right(Fork, p), 0)
      /\ c[7] = Unlock(Left(Mtx, p)) /\ c[8] = Unlock(Right(Mtx, p))
  BY <1>1, WantsToEat2Is
<1>3. Straight(c)
  BY <1>2, AccessFields, LockFields DEF Straight, Jumps
<1>4. Profile(c, {Left(Fork, p), Right(Fork, p)}, {})
  BY <1>2, <1>3, AccessFields, LockFields
     DEF Profile, SequenceTyped, Straight, PlainWrites
<1> QED
  BY <1>1, <1>3, <1>4

(* The right neighbour of the fork of philosopher t, both counted from 1.   *)
RightOf(t) == IF t = 5 THEN 1 ELSE t + 1

LEMMA ForkNames ==
    /\ \A t \in 1 .. 5 :
         /\ Left(Fork, t - 1) = Fork[t] /\ Right(Fork, t - 1) = Fork[RightOf(t)]
         /\ Left(Mtx, t - 1) = Mtx[t] /\ Right(Mtx, t - 1) = Mtx[RightOf(t)]
         /\ RightOf(t) \in 1 .. 5 /\ RightOf(t) # t
    /\ \A i, j \in 1 .. 5 : Fork[i] = Fork[j] \/ Mtx[i] = Mtx[j] => i = j
<1>1. \A t \in 1 .. 5 : /\ (t - 1) + 1 = t /\ (((t - 1) + 1) % 5) + 1 = RightOf(t)
                        /\ RightOf(t) \in 1 .. 5 /\ RightOf(t) # t
  BY DEF RightOf
<1>2. \A i, j \in 1 .. 5 : Fork[i] = Fork[j] \/ Mtx[i] = Mtx[j] => i = j
  BY DEF Fork, Mtx
<1> QED
  BY <1>1, <1>2 DEF Left, Right

LEMMA ByForksIs ==
    ASSUME program = "dining_by_forks", NEW t \in Threads, pc[t] \in DOMAIN Code[program][t]
    PROVE  LET s == Code[program][t][pc[t]] IN
           /\ pc[t] \in Nat \ {0} /\ Place(t, 0, 8) \in 1 .. 8
           /\ Place(t, 0, 8) = 1 => /\ s.op = "lock_both" /\ s.object = Mtx[t]
                                    /\ s.value = Mtx[RightOf(t)]
           /\ Place(t, 0, 8) \in {2, 3, 5, 6} =>
                s.op = "write" /\ s.object \in {Fork[t], Fork[RightOf(t)]}
           /\ Place(t, 0, 8) = 4 => s.op = "print"
           /\ Place(t, 0, 8) = 7 => s.op = "unlock" /\ s.object = Mtx[t]
           /\ Place(t, 0, 8) = 8 => s.op = "unlock" /\ s.object = Mtx[RightOf(t)]
<1>0. Code[program][t] = Times(ROUNDS, wantsToEat2(t - 1)) /\ ROUNDS \in Nat /\ t \in 1 .. 5
  BY CodeIs, SizesAssumption DEF Threads, DiningByForks, ForEach
<1>1. PICK q, p : p = t - 1 /\ q = wantsToEat2(p)
  OBVIOUS
<1>2. PICK L, W : L = 8 /\ Profile(q, W, {})
  BY <1>1, WantsToEat2Typed
<1>3. /\ ROUNDS \in Nat /\ Profile(q, W, {}) /\ Straight(q) /\ Len(q) = L /\ L # 0
      /\ Code[program][t] = Times(ROUNDS, q)
  <2>1. Straight(q)
    BY <1>1, WantsToEat2Typed
  <2>2. Len(q) = 8
    BY <1>1, WantsToEat2Is
  <2>3. Code[program][t] = Times(ROUNDS, q)
    BY <1>0, <1>1
  <2> QED
    BY <1>0, <1>2, <2>1, <2>2, <2>3
<1>4. /\ pc[t] \in Nat \ {0} /\ Place(t, 0, L) \in 1 .. L
      /\ Code[program][t][pc[t]] = q[Place(t, 0, L)]
  BY <1>3, LapIs
<1>5. /\ q[1] = LockBoth(Mtx[t], Mtx[RightOf(t)])
      /\ q[2] = Write(Fork[t], 1) /\ q[3] = Write(Fork[RightOf(t)], 1)
      /\ q[4] = Output("eat")
      /\ q[5] = Write(Fork[t], 0) /\ q[6] = Write(Fork[RightOf(t)], 0)
      /\ q[7] = Unlock(Mtx[t]) /\ q[8] = Unlock(Mtx[RightOf(t)])
  <2>1. /\ q[1] = LockBoth(Left(Mtx, p), Right(Mtx, p))
        /\ q[2] = Write(Left(Fork, p), 1) /\ q[3] = Write(Right(Fork, p), 1)
        /\ q[4] = Output("eat")
        /\ q[5] = Write(Left(Fork, p), 0) /\ q[6] = Write(Right(Fork, p), 0)
        /\ q[7] = Unlock(Left(Mtx, p)) /\ q[8] = Unlock(Right(Mtx, p))
    BY <1>1, WantsToEat2Is
  <2>2. /\ Left(Fork, p) = Fork[t] /\ Right(Fork, p) = Fork[RightOf(t)]
        /\ Left(Mtx, p) = Mtx[t] /\ Right(Mtx, p) = Mtx[RightOf(t)]
    BY <1>0, <1>1, ForkNames
  <2> QED
    BY <2>1, <2>2
<1>6. PICK i, s : i = Place(t, 0, 8) /\ s = Code[program][t][pc[t]]
  OBVIOUS
<1>7. pc[t] \in Nat \ {0} /\ i \in 1 .. 8 /\ s = q[i]
  BY <1>2, <1>4, <1>6
<1>8. /\ i = 1 => s.op = "lock_both" /\ s.object = Mtx[t] /\ s.value = Mtx[RightOf(t)]
      /\ i \in {2, 3, 5, 6} => s.op = "write" /\ s.object \in {Fork[t], Fork[RightOf(t)]}
      /\ i = 4 => s.op = "print"
      /\ i = 7 => s.op = "unlock" /\ s.object = Mtx[t]
      /\ i = 8 => s.op = "unlock" /\ s.object = Mtx[RightOf(t)]
  BY <1>5, <1>7, LockFields, AccessFields
<1> QED
  BY <1>6, <1>7, <1>8

-----------------------------------------------------------------------------
(* By forks: the philosopher who eats holds the mutexes of both forks.      *)
ByForksInv ==
    \A t \in Threads :
      /\ Place(t, 0, 8) \in 2 .. 7 => t \in owner[Mtx[t]]
      /\ Place(t, 0, 8) \in 2 .. 8 => t \in owner[Mtx[RightOf(t)]]

LEMMA ByForksMutexes ==
    ASSUME program = "dining_by_forks" PROVE Threads = 1 .. 5 /\ \A i \in 1 .. 5 : Mtx[i] \in Objects
<1>0. Threads = 1 .. 5
  BY CodeIs DEF Threads, DiningByForks, ForEach
<1> SUFFICES ASSUME NEW t \in 1 .. 5 PROVE Mtx[t] \in Objects
  BY <1>0
<1>1. t \in Threads /\ Code[program][t] = Times(ROUNDS, wantsToEat2(t - 1))
  BY CodeIs DEF Threads, DiningByForks, ForEach
<1>2. ROUNDS \in Nat \ {0}
  BY SizesAssumption
<1>3. PICK q, p : p = t - 1 /\ q = wantsToEat2(p)
  OBVIOUS
<1>4. Len(q) = 8 /\ q[1] = LockBoth(Left(Mtx, p), Right(Mtx, p))
  BY <1>3, WantsToEat2Is
<1>5. Code[program][t] = Times(ROUNDS, q)
  BY <1>1, <1>3
<1>6. 1 \in DOMAIN Times(ROUNDS, q) /\ Times(ROUNDS, q)[1] = q[1]
  BY <1>2, <1>4 DEF Times
<1>7. Left(Mtx, p) = Mtx[t]
  BY <1>3, ForkNames
<1> QED
  BY <1>1, <1>4, <1>5, <1>6, <1>7, IsObject, LockFields

LEMMA ByForksKept ==
    ASSUME SyncBase, program = "dining_by_forks", ByForksInv, NEW t, Steps(t)
    PROVE  ByForksInv'
<1>0. /\ t \in 1 .. 5 /\ pc[t] \in DOMAIN Code[program][t] /\ Threads' = Threads
      /\ Threads = 1 .. 5 /\ \A i \in 1 .. 5 : Mtx[i] \in Objects
      /\ RightOf(t) \in 1 .. 5 /\ Mtx[RightOf(t)] # Mtx[t]
  <2>1. t \in Threads /\ pc[t] \in DOMAIN Code[program][t] /\ Threads' = Threads
    BY SameCode DEF Steps
  <2> QED
    BY <2>1, ByForksMutexes, ForkNames
<1>1. PICK s, i, left, right :
        /\ s = Code[program][t][pc[t]] /\ i = Place(t, 0, 8)
        /\ left = Mtx[t] /\ right = Mtx[RightOf(t)]
  OBVIOUS
<1>2. Executes(t, s)
  BY <1>1, StepExecutes
<1>3. /\ pc[t] \in Nat \ {0} /\ i \in 1 .. 8
      /\ i = 1 => s.op = "lock_both" /\ s.object = left /\ s.value = right
      /\ i \in {2, 3, 5, 6} => s.op = "write"
      /\ i = 4 => s.op = "print"
      /\ i = 7 => s.op = "unlock" /\ s.object = left
      /\ i = 8 => s.op = "unlock" /\ s.object = right
  BY <1>0, <1>1, ByForksIs
<1>4. /\ left \in Objects /\ right \in Objects /\ left # right
      /\ \A m \in {left, right} :
           s.op \notin {"unlock", "unlock_shared", "wait_until", "lock_both"}
             \/ (s.op \notin {"wait_until", "lock_both"} /\ m # s.object) =>
           (t \in owner[m] => t \in owner'[m])
      /\ s.op = "lock_both" /\ pc'[t] # pc[t] =>
           pc'[t] = pc[t] + 1 /\ t \in owner'[s.object] /\ (s.value \in Objects => t \in owner'[s.value])
  BY <1>0, <1>1, StepLocks
<1>5. pc'[t] = pc[t] \/ pc'[t] = pc[t] + 1
  BY <1>2, <1>3, <1>4 DEF Executes, Jumps
<1>7. (i \in 2 .. 7 => t \in owner[left]) /\ (i \in 2 .. 8 => t \in owner[right])
  BY <1>0, <1>1 DEF ByForksInv
<1>8. /\ Place(t, 0, 8)' \in 2 .. 7 => t \in owner'[left]
      /\ Place(t, 0, 8)' \in 2 .. 8 => t \in owner'[right]
  <2>1. CASE pc'[t] = pc[t]
    <3>1. s.op = "lock_both"
      BY <1>2, <1>3, <2>1 DEF Executes, Jumps
    <3>2. i = 1
      BY <1>3, <3>1
    <3>3. Place(t, 0, 8)' = 1
      BY <1>1, <2>1, <3>2 DEF Place
    <3> QED
      BY <3>3
  <2>2. CASE pc'[t] = pc[t] + 1
    <3>1. Place(t, 0, 8)' = (IF i = 8 THEN 1 ELSE i + 1)
      <4>1. pc[t] \in Nat /\ pc[t] > 0 /\ 0 \in Nat /\ 8 \in Nat \ {0}
        BY <1>3
      <4> QED
        BY <1>1, <2>2, <4>1, NextPlace
    <3>2. pc'[t] # pc[t]
      BY <1>3, <2>2
    <3> QED
      BY <1>3, <1>4, <1>7, <3>1, <3>2
  <2> QED
    BY <1>5, <2>1, <2>2
<1>9. ASSUME NEW w \in Threads, w # t
      PROVE  /\ Place(w, 0, 8)' \in 2 .. 7 => w \in owner'[Mtx[w]]
             /\ Place(w, 0, 8)' \in 2 .. 8 => w \in owner'[Mtx[RightOf(w)]]
  <2>1. Place(w, 0, 8)' = Place(w, 0, 8)
    BY <1>9, SamePlace
  <2>2. w \in 1 .. 5 /\ RightOf(w) \in 1 .. 5
    BY <1>0, ForkNames
  <2>3. \A m \in Objects : w \in owner[m] => w \in owner'[m]
    BY <1>1, <1>9, StepLocks
  <2> QED
    BY <1>0, <2>1, <2>2, <2>3 DEF ByForksInv
<1> QED
  BY <1>0, <1>1, <1>8, <1>9 DEF ByForksInv

LEMMA ByForksSafe ==
    ASSUME SyncBase, program = "dining_by_forks", ByForksInv, NEW t \in Threads, NEW u \in Threads
    PROVE  ~ Collide(t, u)
<1> SUFFICES ASSUME Collide(t, u) PROVE FALSE
  OBVIOUS
<1>1. PICK s, r : s = Code[program][t][pc[t]] /\ r = Code[program][u][pc[u]]
  OBVIOUS
<1>2. /\ t # u /\ pc[t] \in DOMAIN Code[program][t] /\ pc[u] \in DOMAIN Code[program][u]
      /\ s.op \in PlainWrites /\ r.op \in PlainAccesses /\ s.object = r.object
  BY <1>1 DEF Collide
<1>3. /\ Threads = 1 .. 5 /\ RightOf(t) \in 1 .. 5 /\ RightOf(u) \in 1 .. 5
      /\ \A i \in 1 .. 5 : Mtx[i] \in Objects
      /\ \A i, j \in 1 .. 5 : Fork[i] = Fork[j] => i = j
  BY ByForksMutexes, ForkNames
<1>4. PICK i \in {t, RightOf(t)} : s.object = Fork[i] /\ t \in owner[Mtx[i]]
  <2>1. Place(t, 0, 8) \in {2, 3, 5, 6} /\ s.object \in {Fork[t], Fork[RightOf(t)]}
    BY <1>1, <1>2, ByForksIs DEF PlainWrites
  <2>2. t \in owner[Mtx[t]] /\ t \in owner[Mtx[RightOf(t)]]
    BY <2>1 DEF ByForksInv
  <2> QED
    BY <2>1, <2>2
<1>5. PICK j \in {u, RightOf(u)} : r.object = Fork[j] /\ u \in owner[Mtx[j]]
  <2>1. Place(u, 0, 8) \in {2, 3, 5, 6} /\ r.object \in {Fork[u], Fork[RightOf(u)]}
    BY <1>1, <1>2, ByForksIs DEF PlainWrites, PlainAccesses
  <2>2. u \in owner[Mtx[u]] /\ u \in owner[Mtx[RightOf(u)]]
    BY <2>1 DEF ByForksInv
  <2> QED
    BY <2>1, <2>2
<1>6. i = j /\ i \in 1 .. 5
  BY <1>2, <1>3, <1>4, <1>5
<1> QED
  BY <1>2, <1>3, <1>4, <1>5, <1>6 DEF SyncBase

-----------------------------------------------------------------------------
(* benchmarks/01: how many statements thread t executes before its loop.    *)
Before(t) == IF t = 1 THEN 3 ELSE 2

LEMMA ContentionTyped ==
    ASSUME program = "mutex_contention", NEW t \in Threads
    PROVE  \E a, q : /\ Profile(a, {"counter"}, {}) /\ Straight(a) /\ Len(a) = Before(t)
                     /\ t = 1 => a[1] = Write("counter", 0)
                     /\ a[Before(t) - 1] = Arrive("start", NUM_THREADS)
                     /\ a[Before(t)] = AwaitPhase("start", NUM_THREADS)
                     /\ Profile(q, {"counter"}, {}) /\ Straight(q) /\ Len(q) = 4
                     /\ q[1] = Lock("mtx") /\ q[2] = Read("counter")
                     /\ q[3] = WriteNext("counter") /\ q[4] = Unlock("mtx")
                     /\ Code[program][t] = a \o Times(ROUNDS, q)
<1> DEFINE a == (IF t = 1 THEN << Write("counter", 0) >> ELSE << >>) \o StartTogether
           q == << Lock("mtx"), Read("counter"), WriteNext("counter"), Unlock("mtx") >>
<1>1. Profile(q, {"counter"}, {}) /\ Straight(q) /\ Len(q) = 4
      /\ q[1] = Lock("mtx") /\ q[2] = Read("counter")
      /\ q[3] = WriteNext("counter") /\ q[4] = Unlock("mtx")
  BY AccessFields, LockFields DEF Profile, SequenceTyped, Jumps, PlainWrites, Straight
<1>2. Code[program][t] = a \o Times(ROUNDS, q)
  BY CodeIs DEF Threads, BM_MutexContention, ForEach
<1>3. /\ Len(a) = Before(t) /\ DOMAIN a = 1 .. Before(t)
      /\ t = 1 => a[1] = Write("counter", 0)
      /\ a[Before(t) - 1] = Arrive("start", NUM_THREADS)
      /\ a[Before(t)] = AwaitPhase("start", NUM_THREADS)
  <2>1. CASE t = 1
    <3>1. PICK b : b = << Write("counter", 0) >>
      OBVIOUS
    <3>2. a = b \o StartTogether
      BY <2>1, <3>1
    <3>3. /\ Profile(b, {"counter"}, {}) /\ Straight(b) /\ Len(b) = 1
          /\ b[1] = Write("counter", 0)
      BY <3>1, AccessFields DEF Profile, SequenceTyped, Straight, Jumps, PlainWrites
    <3>4. Profile(StartTogether, {"counter"}, {}) /\ Straight(StartTogether)
      BY StartTogetherTyped, SmallerProfile
    <3> HIDE DEF a
    <3>5. /\ Profile(b \o StartTogether, {"counter"}, {})
          /\ Len(b \o StartTogether) = Len(b) + Len(StartTogether)
          /\ \A i \in 1 .. Len(b) : (b \o StartTogether)[i] = b[i]
          /\ \A i \in 1 .. Len(StartTogether) :
               (b \o StartTogether)[Len(b) + i] = StartTogether[i]
      <4>1. PICK W, D, e : W = {"counter"} /\ D = {} /\ e = StartTogether
        OBVIOUS
      <4>2. Profile(b, W, D) /\ Straight(b) /\ Profile(e, W, D) /\ Straight(e)
        BY <3>3, <3>4, <4>1
      <4>3. /\ Profile(b \o e, W, D) /\ Len(b \o e) = Len(b) + Len(e)
            /\ \A i \in 1 .. Len(b) : (b \o e)[i] = b[i]
            /\ \A i \in 1 .. Len(e) : (b \o e)[Len(b) + i] = e[i]
        BY <4>2, Concatenated
      <4> QED
        BY <4>1, <4>3
    <3>6. /\ DOMAIN a = 1 .. 3 /\ Len(a) = 3 /\ a[1] = b[1]
          /\ \A i \in 1 .. 2 : a[1 + i] = StartTogether[i]
      BY <3>2, <3>3, <3>5, StartTogetherTyped DEF Profile, SequenceTyped
    <3>7. a[2] = StartTogether[1] /\ a[3] = StartTogether[2]
      BY <3>6
    <3> QED
      BY <2>1, <3>3, <3>6, <3>7, StartTogetherTyped DEF Before
  <2>2. CASE t # 1
    <3>1. PICK b : b = << >>
      OBVIOUS
    <3>2. a = b \o StartTogether
      BY <2>2, <3>1
    <3>3. Profile(b, {}, {}) /\ Straight(b) /\ Len(b) = 0
      BY <3>1, NothingTyped
    <3> HIDE DEF a
    <3>4. Profile(b \o StartTogether, {}, {}) /\ Len(b \o StartTogether) = 0 + 2
          /\ \A i \in 1 .. 2 : (b \o StartTogether)[0 + i] = StartTogether[i]
      <4>1. PICK W, D, e : W = {} /\ D = {} /\ e = StartTogether
        OBVIOUS
      <4>2. Profile(b, W, D) /\ Straight(b) /\ Profile(e, W, D) /\ Straight(e)
        BY <3>3, <4>1, StartTogetherTyped
      <4>3. /\ Profile(b \o e, W, D) /\ Len(b \o e) = Len(b) + Len(e)
            /\ \A i \in 1 .. Len(e) : (b \o e)[Len(b) + i] = e[i]
        BY <4>2, Concatenated
      <4>4. Len(b) = 0 /\ Len(e) = 2
        BY <3>3, <4>1, StartTogetherTyped
      <4>5. PICK c : c = b \o e
        OBVIOUS
      <4>6. Profile(c, W, D) /\ Len(c) = 0 + 2 /\ \A i \in 1 .. 2 : c[0 + i] = e[i]
        BY <4>3, <4>4, <4>5
      <4> QED
        BY <4>1, <4>5, <4>6
    <3>5. DOMAIN a = 1 .. 2 /\ Len(a) = 2 /\ \A i \in 1 .. 2 : a[i] = StartTogether[i]
      BY <3>2, <3>4 DEF Profile, SequenceTyped
    <3> QED
      BY <2>2, <3>5, StartTogetherTyped DEF Before
  <2> QED
    BY <2>1, <2>2
<1> HIDE DEF a, q
<1>4. Profile(a, {"counter"}, {}) /\ Straight(a)
  <2>1. Before(t) = IF t = 1 THEN 3 ELSE 2
    BY DEF Before
  <2>2. \A i \in DOMAIN a : i = Before(t) - 1 \/ i = Before(t) \/ (i = 1 /\ t = 1)
    BY <1>3, <2>1
  <2>3. \A i \in DOMAIN a : a[i].op \in {"write", "arrive", "await_phase"}
                            /\ (a[i].op = "write" => a[i].object = "counter")
    BY <1>3, <2>2, AccessFields, MeetingFields
  <2>4. Len(a) \in Nat /\ DOMAIN a = 1 .. Len(a)
    BY <1>3, <2>1
  <2> QED
    BY <2>3, <2>4 DEF Profile, SequenceTyped, Straight, Jumps, PlainWrites
<1> QED
  BY <1>1, <1>2, <1>3, <1>4

LEMMA ContentionIs ==
    ASSUME program = "mutex_contention", NEW t \in Threads, pc[t] \in DOMAIN Code[program][t]
    PROVE  LET s == Code[program][t][pc[t]] IN
           /\ pc[t] \in Nat \ {0} /\ Before(t) \in 2 .. 3
           /\ pc[t] < Before(t) - 1 => t = 1 /\ s.op = "write" /\ s.object = "counter"
           /\ pc[t] = Before(t) - 1 =>
                s.op = "arrive" /\ s.object = "start" /\ s.value = NUM_THREADS
           /\ pc[t] = Before(t) =>
                s.op = "await_phase" /\ s.object = "start" /\ s.value = NUM_THREADS
           /\ pc[t] > Before(t) =>
                /\ Place(t, Before(t), 4) \in 1 .. 4
                /\ Place(t, Before(t), 4) = 1 => s.op = "lock" /\ s.object = "mtx"
                /\ Place(t, Before(t), 4) = 2 => s.op = "read"
                /\ Place(t, Before(t), 4) = 3 => s.op = "write_next" /\ s.object = "counter"
                /\ Place(t, Before(t), 4) = 4 => s.op = "unlock" /\ s.object = "mtx"
<1>1. PICK a, q : /\ Profile(a, {"counter"}, {}) /\ Straight(a) /\ Len(a) = Before(t)
                  /\ t = 1 => a[1] = Write("counter", 0)
                  /\ a[Before(t) - 1] = Arrive("start", NUM_THREADS)
                  /\ a[Before(t)] = AwaitPhase("start", NUM_THREADS)
                  /\ Profile(q, {"counter"}, {}) /\ Straight(q) /\ Len(q) = 4
                  /\ q[1] = Lock("mtx") /\ q[2] = Read("counter")
                  /\ q[3] = WriteNext("counter") /\ q[4] = Unlock("mtx")
                  /\ Code[program][t] = a \o Times(ROUNDS, q)
  BY ContentionTyped
<1>2. PICK c, s, j, i : /\ c = a \o Times(ROUNDS, q) /\ s = Code[program][t][pc[t]]
                        /\ j = Before(t) /\ i = Place(t, j, 4)
  OBVIOUS
<1>3. /\ Profile(c, {"counter"}, {})
      /\ Loops(c, a, q)
  <2>1. /\ Profile(a, {"counter"}, {}) /\ Straight(a) /\ Profile(q, {"counter"}, {})
        /\ Straight(q) /\ Len(q) # 0 /\ ROUNDS \in Nat
    BY <1>1, SizesAssumption
  <2> QED
    BY <1>2, <2>1, AfterTyped
<1>4. Len(a) = j /\ Len(q) = 4 /\ DOMAIN q = 1 .. 4 /\ j \in 2 .. 3 /\ (t = 1 <=> j = 3)
  BY <1>1, <1>2 DEF Before, Profile, SequenceTyped
<1>5. pc[t] \in Nat \ {0} /\ pc[t] \in DOMAIN c /\ s = c[pc[t]]
  <2>1. Code[program][t] = c
    BY <1>1, <1>2
  <2> QED
    BY <1>2, <1>3, <2>1 DEF Profile, SequenceTyped
<1>6. CASE pc[t] <= j
  <2>1. s = a[pc[t]]
    BY <1>3, <1>4, <1>5, <1>6 DEF Loops
  <2>2. /\ pc[t] < j - 1 => t = 1 /\ s = Write("counter", 0)
        /\ pc[t] = j - 1 => s = Arrive("start", NUM_THREADS)
        /\ pc[t] = j => s = AwaitPhase("start", NUM_THREADS)
    BY <1>1, <1>2, <1>4, <1>5, <2>1
  <2>3. /\ pc[t] < j - 1 => t = 1 /\ s.op = "write" /\ s.object = "counter"
        /\ pc[t] = j - 1 => s.op = "arrive" /\ s.object = "start" /\ s.value = NUM_THREADS
        /\ pc[t] = j => s.op = "await_phase" /\ s.object = "start" /\ s.value = NUM_THREADS
    BY <2>2, AccessFields, MeetingFields
  <2> QED
    BY <1>2, <1>4, <1>5, <1>6, <2>3
<1>7. CASE pc[t] > j
  <2>1. i \in 1 .. 4 /\ s = q[i]
    <3>1. i = ((pc[t] - j - 1) % 4) + 1
      BY <1>2 DEF Place
    <3> QED
      BY <1>3, <1>4, <1>5, <1>7, <3>1 DEF Loops
  <2>2. /\ i = 1 => s.op = "lock" /\ s.object = "mtx"
        /\ i = 2 => s.op = "read"
        /\ i = 3 => s.op = "write_next" /\ s.object = "counter"
        /\ i = 4 => s.op = "unlock" /\ s.object = "mtx"
    BY <1>1, <2>1, AccessFields, LockFields
  <2> QED
    BY <1>2, <1>4, <1>5, <1>7, <2>1, <2>2
<1> QED
  BY <1>4, <1>5, <1>6, <1>7

(* Nobody takes the mutex before all have arrived, and so before thread 1   *)
(* has cleared the counter.                                                 *)
Started == {t \in Threads : pc[t] >= Before(t)}
ContentionInv ==
    /\ value["start"] = Cardinality(Started)
    /\ \A t \in Threads :
         /\ pc[t] = Before(t) => register[t] = 0
         /\ pc[t] > Before(t) => Started = Threads
         /\ pc[t] > Before(t) /\ Place(t, Before(t), 4) > 1 => t \in owner["mtx"]

LEMMA ContentionObjects ==
    ASSUME program = "mutex_contention"
    PROVE  /\ Threads = 1 .. NUM_THREADS /\ NUM_THREADS \in 1 .. 5
           /\ "start" \in Objects /\ "mtx" \in Objects
<1>0. Threads = 1 .. NUM_THREADS /\ NUM_THREADS \in 1 .. 5 /\ ROUNDS \in Nat \ {0}
  BY CodeIs, SizesAssumption DEF Threads, BM_MutexContention, ForEach
<1>1. 1 \in Threads
  BY <1>0
<1>2. PICK a, q : /\ Profile(a, {"counter"}, {}) /\ Straight(a) /\ Len(a) = Before(1)
                  /\ a[Before(1) - 1] = Arrive("start", NUM_THREADS)
                  /\ Profile(q, {"counter"}, {}) /\ Straight(q) /\ Len(q) = 4
                  /\ q[1] = Lock("mtx")
                  /\ Code[program][1] = a \o Times(ROUNDS, q)
  BY <1>1, ContentionTyped
<1>3. PICK c : c = a \o Times(ROUNDS, q)
  OBVIOUS
<1>4. /\ Profile(a, {"counter"}, {}) /\ Straight(a) /\ Profile(q, {"counter"}, {})
      /\ Straight(q) /\ Len(q) # 0 /\ ROUNDS \in Nat
  BY <1>0, <1>2
<1>5. /\ Profile(c, {"counter"}, {}) /\ Len(c) = Len(a) + Laps(ROUNDS, q)
      /\ Loops(c, a, q)
  BY <1>3, <1>4, AfterTyped
<1>6. Len(a) = 3 /\ Len(q) = 4 /\ a[2] = Arrive("start", NUM_THREADS)
  BY <1>2 DEF Before
<1>7. DOMAIN c = 1 .. 3 + ROUNDS * 4
  BY <1>5, <1>6 DEF Profile, SequenceTyped, Laps
<1>8. 2 \in DOMAIN c /\ 4 \in DOMAIN c
  BY <1>0, <1>7
<1>9. c[2] = a[2] /\ c[4] = q[1]
  BY <1>5, <1>6, <1>8 DEF Loops
<1>10. c[2].object = "start" /\ c[4].object = "mtx"
  BY <1>2, <1>6, <1>9, MeetingFields, LockFields
<1>11. Code[program][1] = c
  BY <1>2, <1>3
<1> QED
  BY <1>0, <1>1, <1>8, <1>10, <1>11, IsObject

LEMMA ContentionKept ==
    ASSUME SyncBase, program = "mutex_contention", ContentionInv, NEW t, Steps(t)
    PROVE  ContentionInv'
<1>0. /\ Threads = 1 .. NUM_THREADS /\ NUM_THREADS \in 1 .. 5 /\ Threads' = Threads
      /\ "start" \in Objects /\ "mtx" \in Objects
      /\ t \in Threads /\ pc[t] \in DOMAIN Code[program][t]
  BY ContentionObjects, SameCode DEF Steps
<1>1. PICK s, j, i : s = Code[program][t][pc[t]] /\ j = Before(t) /\ i = Place(t, j, 4)
  OBVIOUS
<1>2. Executes(t, s)
  BY <1>1, StepExecutes
<1>3. /\ pc[t] \in Nat \ {0} /\ j \in 2 .. 3
      /\ pc[t] < j - 1 => s.op = "write" /\ s.object = "counter"
      /\ pc[t] = j - 1 => s.op = "arrive" /\ s.object = "start" /\ s.value = NUM_THREADS
      /\ pc[t] = j => s.op = "await_phase" /\ s.object = "start" /\ s.value = NUM_THREADS
      /\ pc[t] > j => /\ i \in 1 .. 4
                      /\ i = 1 => s.op = "lock" /\ s.object = "mtx"
                      /\ i = 2 => s.op = "read"
                      /\ i = 3 => s.op = "write_next" /\ s.object = "counter"
                      /\ i = 4 => s.op = "unlock" /\ s.object = "mtx"
  BY <1>0, <1>1, ContentionIs
<1>4. pc'[t] = pc[t] + 1 /\ \A w \in Threads \ {t} : pc'[w] = pc[w] /\ register'[w] = register[w]
  BY <1>2, <1>3 DEF Executes, Jumps
<1>5. /\ \A w \in Threads : Before(w) \in 2 .. 3 /\ pc[w] \in Nat
      /\ Started' = {w \in Threads : pc'[w] >= Before(w)}
  BY <1>0 DEF SyncBase, Before, Started
<1>6. IsFiniteSet(Threads) /\ Cardinality(Threads) = NUM_THREADS
      /\ IsFiniteSet(Started) /\ Started \subseteq Threads
      /\ Cardinality(Started) \in Nat /\ Cardinality(Started) <= NUM_THREADS
      /\ (Cardinality(Started) = NUM_THREADS => Started = Threads)
  <2>1. Started \in SUBSET Threads
    BY DEF Started
  <2>2. IsFiniteSet(Threads) /\ Cardinality(Threads) = NUM_THREADS
    BY <1>0, FS_Interval
  <2>3. /\ IsFiniteSet(Started) /\ Cardinality(Started) <= Cardinality(Threads)
        /\ (Cardinality(Threads) = Cardinality(Started) => Threads = Started)
    BY <2>1, <2>2, FS_Subset
  <2>4. Cardinality(Started) \in Nat
    BY <2>3, FS_CardinalityType
  <2> QED
    BY <2>1, <2>2, <2>3, <2>4
(* Who has arrived. *)
<1>7. /\ value'["start"] = Cardinality(Started')
      /\ pc'[t] = j => register'[t] = 0
      /\ pc'[t] > j => Started = Threads
  <2>1. CASE pc[t] = j - 1
    <3>1. /\ value'["start"] = value["start"] + 1
          /\ register'[t] = value["start"] \div NUM_THREADS
      BY <1>2, <1>3, <2>1 DEF Executes
    <3>2. t \notin Started /\ t \in Started' /\ Started' \ {t} = Started \ {t}
      BY <1>0, <1>1, <1>3, <1>4, <1>5, <2>1 DEF Started
    <3>3. Cardinality(Started') = Cardinality(Started) + 1
      BY <1>6, <3>2, CardinalityMove
    <3>4. Cardinality(Started) < NUM_THREADS
      BY <1>0, <1>6, <3>2
    <3>5. register'[t] = 0
      <4>1. value["start"] \in 0 .. NUM_THREADS - 1
        BY <1>0, <1>6, <3>4 DEF ContentionInv
      <4>2. PICK v, k : v = value["start"] /\ k = NUM_THREADS
        OBVIOUS
      <4>3. k \in 1 .. 5 /\ v \in 0 .. k - 1
        BY <1>0, <4>1, <4>2
      <4>4. v \div k = 0
        BY <4>3
      <4> QED
        BY <3>1, <4>2, <4>4
    <3> QED
      BY <1>3, <1>4, <2>1, <3>1, <3>3, <3>5 DEF ContentionInv
  <2>2. CASE pc[t] # j - 1
    <3>1. Started' = Started
      <4>1. pc'[t] >= Before(t) <=> pc[t] >= Before(t)
        BY <1>1, <1>3, <1>4, <2>2
      <4>2. \A w \in Threads : pc'[w] >= Before(w) <=> pc[w] >= Before(w)
        BY <1>4, <4>1
      <4> QED
        BY <1>5, <4>2 DEF Started
    <3>2. value'["start"] = value["start"]
      <4>1. s.op \notin Changes \/ s.object # "start"
        BY <1>3, <2>2 DEF Changes
      <4> QED
        BY <1>0, <1>2, <4>1 DEF Executes
    <3>3. pc[t] = j => Started = Threads
      <4>1. SUFFICES ASSUME pc[t] = j PROVE Started = Threads
        OBVIOUS
      <4>2. value["start"] \div NUM_THREADS # register[t] /\ register[t] = 0
        BY <1>0, <1>1, <1>2, <1>3, <4>1 DEF Executes, ContentionInv
      <4>3. PICK v, k : v = value["start"] /\ k = NUM_THREADS
        OBVIOUS
      <4>4. k \in 1 .. 5 /\ v \in Nat /\ v \div k # 0 /\ v = Cardinality(Started)
        BY <1>0, <1>6, <4>2, <4>3 DEF ContentionInv
      <4>5. v >= k
        BY <4>4
      <4> QED
        BY <1>6, <4>3, <4>4, <4>5
    <3>4. pc[t] > j => Started = Threads
      BY <1>0, <1>1 DEF ContentionInv
    <3>5. pc'[t] > j => pc[t] >= j
      BY <1>3, <1>4
    <3>6. pc'[t] # j
      BY <1>3, <1>4, <2>2
    <3>7. value["start"] = Cardinality(Started)
      BY DEF ContentionInv
    <3> QED
      BY <1>3, <1>4, <3>1, <3>2, <3>3, <3>4, <3>5, <3>6, <3>7
  <2> QED
    BY <2>1, <2>2
<1>8. Started = Threads => Started' = Threads
  <2>1. pc[t] >= Before(t) => pc'[t] >= Before(t)
    BY <1>1, <1>3, <1>4
  <2>2. \A w \in Threads : pc[w] >= Before(w) => pc'[w] >= Before(w)
    BY <1>4, <2>1
  <2> QED
    BY <1>5, <2>2 DEF Started
(* Who has the mutex. *)
<1>9. pc'[t] > j /\ Place(t, j, 4)' > 1 => t \in owner'["mtx"]
  <2> SUFFICES ASSUME pc'[t] > j, Place(t, j, 4)' > 1 PROVE t \in owner'["mtx"]
    OBVIOUS
  <2>1. CASE pc[t] <= j
    <3>1. Place(t, j, 4)' = ((pc'[t] - j - 1) % 4) + 1
      BY DEF Place
    <3>2. pc'[t] - j - 1 = 0
      BY <1>3, <1>4, <2>1
    <3>3. Place(t, j, 4)' = 1
      BY <3>1, <3>2
    <3> QED
      BY <3>3
  <2>2. CASE pc[t] > j
    <3>1. Place(t, j, 4)' = (IF i = 4 THEN 1 ELSE i + 1)
      BY <1>1, <1>3, <1>4, <2>2, NextPlace
    <3>2. /\ s.op \notin {"unlock", "unlock_shared", "wait_until", "lock_both"} =>
               (t \in owner["mtx"] => t \in owner'["mtx"])
          /\ s.op = "lock" => t \in owner'[s.object]
      BY <1>0, <1>1, StepLocks
    <3>3. i > 1 => t \in owner["mtx"]
      BY <1>0, <1>1, <2>2 DEF ContentionInv
    <3> QED
      BY <1>3, <2>2, <3>1, <3>2, <3>3
  <2> QED
    BY <1>3, <2>1, <2>2
<1>10. ASSUME NEW w \in Threads, w # t
       PROVE  /\ pc'[w] = Before(w) => register'[w] = 0
              /\ pc'[w] > Before(w) => Started = Threads
              /\ pc'[w] > Before(w) /\ Place(w, Before(w), 4)' > 1 => w \in owner'["mtx"]
  <2>1. /\ pc'[w] = pc[w] /\ register'[w] = register[w]
        /\ Place(w, Before(w), 4)' = Place(w, Before(w), 4)
    <3>1. pc'[w] = pc[w] /\ register'[w] = register[w]
      BY <1>4, <1>10
    <3>2. Place(w, Before(w), 4)' = Place(w, Before(w), 4)
      BY <3>1 DEF Place, Before
    <3> QED
      BY <3>1, <3>2
  <2>2. w \in owner["mtx"] => w \in owner'["mtx"]
    BY <1>0, <1>1, <1>10, StepLocks
  <2> QED
    BY <2>1, <2>2 DEF ContentionInv
<1>11. ASSUME NEW w \in Threads
       PROVE  /\ pc'[w] = Before(w) => register'[w] = 0
              /\ pc'[w] > Before(w) => Started' = Threads'
              /\ pc'[w] > Before(w) /\ Place(w, Before(w), 4)' > 1 => w \in owner'["mtx"]
  <2>1. CASE w # t
    BY <1>0, <1>8, <1>10, <2>1
  <2>2. CASE w = t
    <3>1. Place(w, Before(w), 4)' = Place(t, j, 4)'
      BY <1>1, <2>2 DEF Place, Before
    <3> QED
      BY <1>0, <1>1, <1>7, <1>8, <1>9, <2>2, <3>1
  <2> QED
    BY <2>1, <2>2
<1>12. \A w : Before(w)' = Before(w)
  BY DEF Before
<1> QED
  BY <1>0, <1>7, <1>11, <1>12 DEF ContentionInv

LEMMA ContentionSafe ==
    ASSUME SyncBase, program = "mutex_contention", ContentionInv,
           NEW t \in Threads, NEW u \in Threads
    PROVE  ~ Collide(t, u)
<1> SUFFICES ASSUME Collide(t, u) PROVE FALSE
  OBVIOUS
<1>1. PICK s, r : s = Code[program][t][pc[t]] /\ r = Code[program][u][pc[u]]
  OBVIOUS
<1>2. /\ t # u /\ pc[t] \in DOMAIN Code[program][t] /\ pc[u] \in DOMAIN Code[program][u]
      /\ s.op \in PlainWrites /\ r.op \in PlainAccesses
  BY <1>1 DEF Collide
<1>3. \/ t = 1 /\ pc[t] < Before(t) - 1
      \/ pc[t] > Before(t) /\ Place(t, Before(t), 4) > 1
  BY <1>1, <1>2, ContentionIs DEF PlainWrites
<1>4. \/ u = 1 /\ pc[u] < Before(u) - 1
      \/ pc[u] > Before(u) /\ Place(u, Before(u), 4) > 1
  BY <1>1, <1>2, ContentionIs DEF PlainWrites, PlainAccesses
<1>5. \A w \in Threads : pc[w] \in Nat /\ Before(w) \in 2 .. 3
  BY DEF SyncBase, Before
<1>6. \A w \in Threads : Started = Threads => pc[w] >= Before(w)
  BY DEF Started
<1>7. /\ pc[t] > Before(t) => Started = Threads
      /\ pc[u] > Before(u) => Started = Threads
      /\ pc[t] > Before(t) /\ Place(t, Before(t), 4) > 1 => t \in owner["mtx"]
      /\ pc[u] > Before(u) /\ Place(u, Before(u), 4) > 1 => u \in owner["mtx"]
  BY DEF ContentionInv
<1>8. t \in owner["mtx"] /\ u \in owner["mtx"]
  BY <1>2, <1>3, <1>4, <1>5, <1>6, <1>7
<1>9. "mtx" \in Objects
  BY ContentionObjects
<1> QED
  BY <1>2, <1>8, <1>9 DEF SyncBase

-----------------------------------------------------------------------------
(* chapter_03/program_3_18: every thread has a val of its own.              *)
LEMMA ValNames == \A t, u \in 1 .. 4 : Val[t] = Val[u] => t = u
  BY DEF Val

LEMMA MultiplyTyped ==
    ASSUME NEW t
    PROVE  Profile(multiplyByTwo(t), {Val[t]}, {}) /\ Straight(multiplyByTwo(t))
  BY AccessFields
     DEF multiplyByTwo, Profile, SequenceTyped, Straight, Jumps, PlainWrites

(* What a sequence of statements accesses.                                  *)
Uses(c, objects) ==
    \A i \in DOMAIN c : c[i].op \in PlainAccesses => c[i].object \in objects

LEMMA UsesBoth ==
    ASSUME NEW a, NEW b, NEW W, Profile(a, W, {}), Profile(b, W, {}), Straight(a), Straight(b),
           NEW U, Uses(a, U), Uses(b, U)
    PROVE  Uses(a \o b, U)
<1>1. PICK c : c = a \o b
  OBVIOUS
<1>2. /\ Profile(c, W, {}) /\ Len(c) = Len(a) + Len(b)
      /\ \A i \in 1 .. Len(a) : c[i] = a[i]
      /\ \A i \in 1 .. Len(b) : c[Len(a) + i] = b[i]
  BY <1>1, Concatenated
<1>3. Len(a) \in Nat /\ Len(b) \in Nat /\ DOMAIN a = 1 .. Len(a) /\ DOMAIN b = 1 .. Len(b)
      /\ DOMAIN c = 1 .. Len(a) + Len(b)
  BY <1>2 DEF Profile, SequenceTyped
<1>4. ASSUME NEW i \in DOMAIN c, c[i].op \in PlainAccesses PROVE c[i].object \in U
  <2>1. CASE i <= Len(a)
    BY <1>2, <1>3, <1>4, <2>1 DEF Uses
  <2>2. CASE i > Len(a)
    <3>1. PICK x : x = i - Len(a)
      OBVIOUS
    <3>2. x \in 1 .. Len(b) /\ i = Len(a) + x
      BY <1>3, <2>2, <3>1
    <3>3. c[i] = b[x]
      BY <1>2, <3>2
    <3> QED
      BY <1>3, <1>4, <3>2, <3>3 DEF Uses
  <2> QED
    BY <1>3, <2>1, <2>2
<1> QED
  BY <1>1, <1>4 DEF Uses

LEMMA ThreadLocalTyped ==
    /\ DOMAIN ThreadLocal = 1 .. 4
    /\ \A t \in 1 .. 4 : Profile(ThreadLocal[t], {Val[t]}, {}) /\ Uses(ThreadLocal[t], {Val[t]})
<1>0. DOMAIN ThreadLocal = 1 .. 4
  BY DEF ThreadLocal, ForEach
<1>1. Profile(ThreadLocal[1], {Val[1]}, {}) /\ Uses(ThreadLocal[1], {Val[1]})
  <2>1. PICK W, w, s : W = {Val[1]} /\ w = <<Write(Val[1], 1)>> /\ s = <<Read(Val[1])>>
    OBVIOUS
  <2>2. Profile(w, W, {}) /\ Straight(w) /\ Profile(s, W, {}) /\ Straight(s)
    BY <2>1, AccessFields DEF Profile, SequenceTyped, Straight, Jumps, PlainWrites
  <2>3. PICK start, join : start = Times(3, <<Start>>) /\ join = JoinAll(3)
    OBVIOUS
  <2>4. /\ Profile(start, W, {}) /\ Straight(start)
        /\ Profile(join, W, {}) /\ Straight(join)
    BY <2>3, StartTyped, JoinAllTyped, SmallerProfile
  <2>5. Profile(w \o start, W, {}) /\ Straight(w \o start)
    BY <2>2, <2>4, Concatenated
  <2>6. Profile(w \o start \o join, W, {}) /\ Straight(w \o start \o join)
    BY <2>4, <2>5, Concatenated
  <2>7. Uses(w, W) /\ Uses(s, W)
    BY <2>1, AccessFields DEF Uses
  <2>8. Uses(start, W)
    <3>1. Len(start) = 3 /\ \A i \in 1 .. 3 : start[i] = Start
      BY <2>3, StartTyped
    <3>2. DOMAIN start = 1 .. 3
      BY <2>4, <3>1 DEF Profile, SequenceTyped
    <3> QED
      BY <3>1, <3>2, MeetingFields DEF Uses, PlainAccesses, PlainWrites
  <2>9. Uses(join, W)
    <3>1. DOMAIN join = 1 .. 3 /\ \A i \in 1 .. 3 : join[i] = JoinThread(i + 1)
      BY <2>3 DEF JoinAll, ForEach
    <3> QED
      BY <3>1, MeetingFields DEF Uses, PlainAccesses, PlainWrites
  <2>10. Uses(w \o start, W)
    BY <2>2, <2>4, <2>7, <2>8, UsesBoth
  <2>11. Uses(w \o start \o join, W)
    BY <2>4, <2>5, <2>9, <2>10, UsesBoth
  <2>12. Uses(w \o start \o join \o s, W) /\ Profile(w \o start \o join \o s, W, {})
    BY <2>2, <2>6, <2>7, <2>11, UsesBoth, Concatenated
  <2>13. ThreadLocal[1]
          = <<Write(Val[1], 1)>> \o Times(3, <<Start>>) \o JoinAll(3) \o << Read(Val[1]) >>
    BY DEF ThreadLocal, ForEach
  <2> QED
    BY <2>1, <2>3, <2>12, <2>13
<1>2. ASSUME NEW t \in 1 .. 4, t # 1
      PROVE  Profile(ThreadLocal[t], {Val[t]}, {}) /\ Uses(ThreadLocal[t], {Val[t]})
  <2>1. PICK b, m, W : b = <<Begin(t)>> /\ m = multiplyByTwo(t) /\ W = {Val[t]}
    OBVIOUS
  <2>2. Profile(b, {}, {}) /\ Straight(b)
    BY <2>1, MeetingFields DEF Profile, SequenceTyped, Straight, Jumps, PlainWrites
  <2>3. Profile(b, W, {}) /\ Profile(m, W, {}) /\ Straight(m)
    BY <2>1, <2>2, MultiplyTyped, SmallerProfile
  <2>4. Uses(b, W) /\ Uses(m, W)
    BY <2>1, MeetingFields, AccessFields
       DEF Uses, PlainAccesses, PlainWrites, multiplyByTwo
  <2>5. Uses(b \o m, W) /\ Profile(b \o m, W, {})
    BY <2>2, <2>3, <2>4, UsesBoth, Concatenated
  <2>6. ThreadLocal[t] = <<Begin(t)>> \o multiplyByTwo(t)
    BY <1>2 DEF ThreadLocal, ForEach
  <2> QED
    BY <2>1, <2>5, <2>6
<1> QED
  BY <1>0, <1>1, <1>2

LEMMA ThreadLocalSafe ==
    ASSUME program = "thread_local", NEW t \in Threads, NEW u \in Threads
    PROVE  ~ Collide(t, u)
<1>0. Code[program] = ThreadLocal /\ Threads = 1 .. 4
  BY CodeIs, ThreadLocalTyped DEF Threads
<1> SUFFICES ASSUME Collide(t, u) PROVE FALSE
  OBVIOUS
<1>1. PICK s, r : s = ThreadLocal[t][pc[t]] /\ r = ThreadLocal[u][pc[u]]
  OBVIOUS
<1>2. /\ t # u /\ pc[t] \in DOMAIN ThreadLocal[t] /\ pc[u] \in DOMAIN ThreadLocal[u]
      /\ s.op \in PlainAccesses /\ r.op \in PlainAccesses /\ s.object = r.object
  BY <1>0, <1>1 DEF Collide, PlainAccesses
<1>3. s.object = Val[t] /\ r.object = Val[u]
  BY <1>0, <1>1, <1>2, ThreadLocalTyped DEF Uses
<1> QED
  BY <1>0, <1>2, <1>3, ValNames

-----------------------------------------------------------------------------
(* A sequence of statements that ends the lifetime of nothing.              *)
Keeps(c) == SequenceTyped(c) /\ \A i \in DOMAIN c : c[i].op # "destroy"

LEMMA ProfileKeeps ==
    ASSUME NEW c, NEW W, Profile(c, W, {}) PROVE Keeps(c)
  BY DEF Profile, Keeps

LEMMA LatchesTyped == \A t \in DOMAIN Latches : Keeps(Latches[t])
<1> SUFFICES ASSUME NEW t \in 1 .. 5 PROVE Keeps(Latches[t])
  BY LatchesIs
<1>1. PICK c : c = Latches[t]
  OBVIOUS
<1>2. CASE t \in 1 .. 3
  <2>1. PICK x : x = Slice[t]
    OBVIOUS
  <2>2. Len(c) = 2 /\ DOMAIN c = 1 .. 2 /\ c[1] = Write(x, 1) /\ c[2] = Arrive("map_latch", 3)
    BY <1>1, <1>2, <2>1, LatchesIs
  <2>3. Keeps(c)
    BY <2>2, AccessFields, MeetingFields DEF Keeps, SequenceTyped, Jumps
  <2> QED
    BY <1>1, <2>3
<1>3. CASE t = 4
  BY <1>1, <1>3, LatchesIs, AccessFields, MeetingFields DEF Keeps, SequenceTyped, Jumps
<1>4. CASE t = 5
  BY <1>1, <1>4, LatchesIs, AccessFields, MeetingFields DEF Keeps, SequenceTyped, Jumps
<1> QED
  BY <1>1, <1>2, <1>3, <1>4

LEMMA BarriersTyped == \A t \in DOMAIN Barriers : Keeps(Barriers[t])
<1> SUFFICES ASSUME NEW t \in 1 .. 4 PROVE Keeps(Barriers[t])
  BY BarriersIs
<1>1. PICK c : c = Barriers[t]
  OBVIOUS
<1>2. CASE t \in 1 .. 3
  <2>1. PICK x, y : x = Slice[t] /\ y = Sum[t]
    OBVIOUS
  <2>2. /\ Len(c) = 7 /\ DOMAIN c = 1 .. 7
        /\ c[1] = Write(x, 1) /\ c[2] = Arrive("map_barrier", 3)
        /\ c[3] = AwaitPhase("map_barrier", 3) /\ c[4] = Read(y) /\ c[5] = ReadAndAdd(x)
        /\ c[6] = WriteSum(y) /\ c[7] = Arrive("map_barrier", 3)
    BY <1>1, <1>2, <2>1, BarriersIs
  <2>3. Keeps(c)
    BY <2>2, AccessFields, MeetingFields DEF Keeps, SequenceTyped, Jumps
  <2> QED
    BY <1>1, <2>3
<1>3. CASE t = 4
  BY <1>1, <1>3, BarriersIs, AccessFields, MeetingFields DEF Keeps, SequenceTyped, Jumps
<1> QED
  BY <1>1, <1>2, <1>3

LEMMA TwoPromisesTyped == \A t \in DOMAIN TwoPromises : Keeps(TwoPromises[t])
<1>1. Keeps(TwoPromises[1])
  BY TwoPromisesIs, AccessFields, MeetingFields DEF Keeps, SequenceTyped, Jumps
<1>2. Keeps(TwoPromises[2])
  BY TwoPromisesIs, AccessFields, MeetingFields DEF Keeps, SequenceTyped, Jumps
<1> QED
  BY <1>1, <1>2, TwoPromisesIs

LEMMA ArgumentsTyped == \A t \in DOMAIN Arguments : Keeps(Arguments[t])
<1>1. Keeps(Arguments[1])
  BY ArgumentsIs, AccessFields, MeetingFields DEF Keeps, SequenceTyped, Jumps
<1>2. Keeps(Arguments[2]) /\ Keeps(Arguments[5])
  BY ArgumentsIs, AccessFields, MeetingFields DEF Keeps, SequenceTyped, Jumps
<1>3. Keeps(Arguments[3])
  BY ArgumentsIs, AccessFields, MeetingFields DEF Keeps, SequenceTyped, Jumps
<1>4. Keeps(Arguments[4]) /\ Keeps(Arguments[6])
  BY ArgumentsIs, AccessFields, MeetingFields DEF Keeps, SequenceTyped, Jumps
<1> QED
  BY <1>1, <1>2, <1>3, <1>4, ArgumentsIs

LEMMA ResultsTyped == \A t \in DOMAIN Results : Keeps(Results[t])
<1>1. Keeps(Results[1])
  BY ResultsIs, AccessFields, MeetingFields DEF Keeps, SequenceTyped, Jumps
<1>2. Keeps(Results[2]) /\ Keeps(Results[3])
  BY ResultsIs, AccessFields, MeetingFields DEF Keeps, SequenceTyped, Jumps
<1>3. Keeps(Results[4])
  BY ResultsIs, AccessFields, MeetingFields, LockFields DEF Keeps, SequenceTyped, Jumps
<1> QED
  BY <1>1, <1>2, <1>3, ResultsIs

LEMMA CancellationTyped == \A t \in DOMAIN Cancellation : Keeps(Cancellation[t])
<1>1. Keeps(Cancellation[1])
  BY CancellationIs, AccessFields, MeetingFields DEF Keeps, SequenceTyped, Jumps
<1>2. ASSUME NEW t \in 2 .. 3 PROVE Keeps(Cancellation[t])
  <2>1. PICK c, i : c = Cancellation[t] /\ i = t - 1
    OBVIOUS
  <2>2. /\ Len(c) = 9 /\ DOMAIN c = 1 .. 9
        /\ c[1] = Begin(t) /\ c[2] = Draw /\ c[3] = GoUnless(1, 7)
        /\ c[4] = Load("cancellation_token") /\ c[5] = GoUnless(1, 2)
        /\ c[6] = Output("cancelled") /\ c[7] = Load("cancellation_token")
        /\ c[8] = WriteSum(Result[i]) /\ c[9] = Arrive(Ready[i], 1)
    BY <2>1, CancellationTasks
  <2>3. Keeps(c)
    BY <2>2, AccessFields, MeetingFields DEF Keeps, SequenceTyped, Jumps
  <2> QED
    BY <2>1, <2>3
<1>3. DOMAIN Cancellation = {1} \cup (2 .. 3)
  <2>1. DOMAIN Cancellation = 1 .. 3
    BY CancellationIs
  <2> QED
    BY <2>1
<1> QED
  BY <1>1, <1>2, <1>3

LEMMA WaitForReadyTyped == \A t \in DOMAIN WaitForReady : Keeps(WaitForReady[t])
<1> SUFFICES ASSUME NEW t \in 1 .. NUM_THREADS + 1 PROVE Keeps(WaitForReady[t])
  BY WaitForReadyIs
<1>1. PICK c : c = WaitForReady[t]
  OBVIOUS
<1>2. CASE t \in 1 .. NUM_THREADS
  <2>1. /\ Len(c) = 4 /\ DOMAIN c = 1 .. 4 /\ c[1] = Lock("mtx")
        /\ c[2] = WaitUntil("mtx", "ready", 1) /\ c[3] = Read("shared_data")
        /\ c[4] = Unlock("mtx")
    BY <1>1, <1>2, WaitForReadyIs
  <2>2. Keeps(c)
    BY <2>1, AccessFields, LockFields DEF Keeps, SequenceTyped, Jumps
  <2> QED
    BY <1>1, <2>2
<1>3. CASE t = NUM_THREADS + 1
  <2>1. /\ Len(c) = 5 /\ DOMAIN c = 1 .. 5 /\ c[1] = Lock("mtx")
        /\ c[2] = Write("shared_data", 5) /\ c[3] = Write("ready", 1)
        /\ c[4] = Unlock("mtx") /\ c[5] = NotifyEverybody
    BY <1>1, <1>3, WaitForReadyIs
  <2>2. Keeps(c)
    BY <2>1, AccessFields, LockFields DEF Keeps, SequenceTyped, Jumps
  <2> QED
    BY <1>1, <2>2
<1> QED
  BY <1>1, <1>2, <1>3, SizesAssumption

LEMMA FizzBuzzTyped == \A t \in DOMAIN FizzBuzz : Keeps(FizzBuzz[t])
<1> SUFFICES ASSUME NEW t \in 1 .. 4 PROVE Keeps(FizzBuzz[t])
  BY FizzBuzzIs
<1>1. n \in Nat /\ 3 * n \in Nat
  BY SizesAssumption
<1>2. PICK c : c = FizzBuzz[t]
  OBVIOUS
<1>3. /\ Len(c) = 3 * n /\ DOMAIN c = 1 .. 3 * n
      /\ \A i \in 1 .. 3 * n :
           /\ i % 3 = 1 => c[i].op = "callback" \/ (c[i].op = "go" /\ c[i].target = i + 1)
           /\ i % 3 = 2 => c[i].op = "arrive"
           /\ i % 3 = 0 => c[i].op = "await_phase"
  BY <1>2, FizzBuzzIs
<1>4. \A i \in 1 .. 3 * n : /\ c[i].op \in {"callback", "go", "arrive", "await_phase"}
                            /\ c[i].op = "go" => c[i].target = i + 1
  <2> SUFFICES ASSUME NEW i \in 1 .. 3 * n
               PROVE  /\ c[i].op \in {"callback", "go", "arrive", "await_phase"}
                      /\ c[i].op = "go" => c[i].target = i + 1
    OBVIOUS
  <2>1. i % 3 \in 0 .. 2
    BY <1>1
  <2> QED
    BY <1>3, <2>1
<1>5. Keeps(c)
  BY <1>1, <1>3, <1>4 DEF Keeps, SequenceTyped, Jumps
<1> QED
  BY <1>2, <1>5

LEMMA ReadersAndWritersTyped ==
    \A t \in DOMAIN ReadersAndWriters : Keeps(ReadersAndWriters[t])
<1>1. ROUNDS \in Nat
  BY SizesAssumption
<1>2. Keeps(reader)
  <2>1. PICK q : q = << LockShared("mutex"), Read("counter"), UnlockShared("mutex") >>
    OBVIOUS
  <2>2. Profile(q, {}, {}) /\ Straight(q) /\ Len(q) # 0
    BY <2>1, AccessFields, LockFields
       DEF Profile, SequenceTyped, Jumps, PlainWrites, Straight
  <2>3. Profile(Times(ROUNDS, q), {}, {})
    BY <1>1, <2>2, TimesTyped
  <2> QED
    BY <2>1, <2>3, ProfileKeeps DEF reader
<1>3. Keeps(writer)
  <2>1. PICK q : q = << Lock("mutex"), Read("counter"), WriteNext("counter"),
                        Read("counter"), Unlock("mutex") >>
    OBVIOUS
  <2>2. PICK W : W = {"counter"}
    OBVIOUS
  <2>3. Profile(q, W, {}) /\ Straight(q) /\ Len(q) # 0
    BY <2>1, <2>2, AccessFields, LockFields
       DEF Profile, SequenceTyped, Jumps, PlainWrites, Straight
  <2>4. Profile(Times(ROUNDS, q), W, {})
    BY <1>1, <2>3, TimesTyped
  <2> QED
    BY <2>1, <2>4, ProfileKeeps DEF writer
<1> QED
  BY <1>2, <1>3 DEF ReadersAndWriters, ForEach

LEMMA DiningTyped ==
    /\ \A t \in DOMAIN DiningByTurns : Keeps(DiningByTurns[t])
    /\ \A t \in DOMAIN DiningByForks : Keeps(DiningByForks[t])
<1>1. ROUNDS \in Nat
  BY SizesAssumption
<1>2. ASSUME NEW p PROVE Keeps(Times(ROUNDS, wantsToEat(p)))
  <2>1. PICK q, W : q = wantsToEat(p) /\ W = {Left(Fork, p), Right(Fork, p), "output", "id"}
    OBVIOUS
  <2>2. Profile(q, W, {}) /\ Straight(q)
    BY <2>1, WantsToEatTyped
  <2>3. Len(q) # 0
    BY <2>1, WantsToEatIs
  <2>4. Profile(Times(ROUNDS, q), W, {})
    BY <1>1, <2>2, <2>3, TimesTyped
  <2> QED
    BY <2>1, <2>4, ProfileKeeps
<1>3. ASSUME NEW p PROVE Keeps(Times(ROUNDS, wantsToEat2(p)))
  <2>1. PICK q, W : q = wantsToEat2(p) /\ W = {Left(Fork, p), Right(Fork, p)}
    OBVIOUS
  <2>2. Profile(q, W, {}) /\ Straight(q)
    BY <2>1, WantsToEat2Typed
  <2>3. Len(q) # 0
    BY <2>1, WantsToEat2Is
  <2>4. Profile(Times(ROUNDS, q), W, {})
    BY <1>1, <2>2, <2>3, TimesTyped
  <2> QED
    BY <2>1, <2>4, ProfileKeeps
<1>4. \A t \in DOMAIN DiningByTurns : DiningByTurns[t] = Times(ROUNDS, wantsToEat(t - 1))
  BY DEF DiningByTurns, ForEach
<1>5. \A t \in DOMAIN DiningByForks : DiningByForks[t] = Times(ROUNDS, wantsToEat2(t - 1))
  BY DEF DiningByForks, ForEach
<1> QED
  BY <1>2, <1>3, <1>4, <1>5

LEMMA MutexContentionTyped ==
    ASSUME program = "mutex_contention", NEW t \in Threads PROVE Keeps(Code[program][t])
<1>1. PICK a, q : /\ Profile(a, {"counter"}, {}) /\ Straight(a)
                  /\ Profile(q, {"counter"}, {}) /\ Straight(q) /\ Len(q) = 4
                  /\ Code[program][t] = a \o Times(ROUNDS, q)
  BY ContentionTyped
<1>2. PICK W, c : W = {"counter"} /\ c = a \o Times(ROUNDS, q)
  OBVIOUS
<1>3. /\ Profile(a, W, {}) /\ Straight(a) /\ Profile(q, W, {}) /\ Straight(q) /\ Len(q) # 0
      /\ ROUNDS \in Nat
  BY <1>1, <1>2, SizesAssumption
<1>4. Profile(c, W, {})
  BY <1>2, <1>3, AfterTyped
<1> QED
  BY <1>1, <1>2, <1>4, ProfileKeeps

LEMMA EndingTyped == CodeTyped(Wrappers) /\ CodeTyped(NewThread)
<1>1. CodeTyped(Wrappers)
  <2>1. SequenceTyped(Wrappers[1])
    BY WrappersIs, AccessFields, MeetingFields DEF SequenceTyped, Jumps
  <2>2. ASSUME NEW t \in 2 .. 4 PROVE SequenceTyped(Wrappers[t])
    <3>1. PICK c : c = Wrappers[t]
      OBVIOUS
    <3>2. Len(c) = 1 /\ DOMAIN c = 1 .. 1 /\ c[1].op = "await_latch"
      BY <3>1, WrappersIs, AccessFields, MeetingFields
    <3>3. SequenceTyped(c)
      BY <3>2 DEF SequenceTyped, Jumps
    <3> QED
      BY <3>1, <3>3
  <2> QED
    BY <2>1, <2>2, WrappersIs DEF CodeTyped
<1>2. CodeTyped(NewThread)
  <2>1. SequenceTyped(NewThread[1])
    BY NewThreadIs, AccessFields, MeetingFields DEF SequenceTyped, Jumps
  <2>2. SequenceTyped(NewThread[2])
    BY NewThreadIs, AccessFields, MeetingFields DEF SequenceTyped, Jumps
  <2> QED
    BY <2>1, <2>2, NewThreadIs DEF CodeTyped
<1> QED
  BY <1>1, <1>2

Ending == {"wrappers", "new_thread"}

LEMMA BusyKeeps ==
    ASSUME program \in Busy \ Ending PROVE \A t \in Threads : Keeps(Code[program][t])
<1>1. CASE program = "mutex_contention"
  BY <1>1, MutexContentionTyped
<1>2. CASE program = "thread_local"
  BY <1>2, ThreadLocalTyped, ProfileKeeps, CodeIs DEF Threads
<1>3. CASE program \in {"latches", "barriers", "shared_mutex", "ready", "two_promises",
                        "fizz_buzz", "dining_by_turns", "dining_by_forks"}
  BY <1>3, LatchesTyped, BarriersTyped, ReadersAndWritersTyped, WaitForReadyTyped,
     TwoPromisesTyped, FizzBuzzTyped, DiningTyped, CodeIs DEF Threads
<1>4. CASE program \in {"arguments", "results", "cancellation"}
  BY <1>4, ArgumentsTyped, ResultsTyped, CancellationTyped, CodeIs DEF Threads
<1> QED
  BY <1>1, <1>2, <1>3, <1>4 DEF Busy, Ending

LEMMA EveryCodeTyped ==
    ASSUME program \in Programs PROVE CodeTyped(Code[program])
<1>1. program \in Quiet \/ program \in Busy \ Ending \/ program \in Ending
  BY ProgramsAssumption, MainsAre
<1>2. program \in Ending => CodeTyped(Code[program])
  BY EndingTyped, CodeIs DEF Ending
<1>3. program \in Busy \ Ending => CodeTyped(Code[program])
  BY BusyKeeps DEF Keeps, CodeTyped, Threads
<1> QED
  BY <1>1, <1>2, <1>3, QuietCodeTyped

-----------------------------------------------------------------------------
(* Neither the frame nor a name is used by a thread after its end: it is    *)
(* past the place where it could.                                           *)
LEMMA EndingSafe ==
    ASSUME SyncBase, CodeTyped(Code[program]), program \in Ending,
           program = "wrappers" => WrappersInv, program = "new_thread" => NewThreadInv
    PROVE  NoUseAfterEnd
<1> SUFFICES ASSUME NEW t \in Threads, ~ AtEnd(t), Current(t).object \in dead PROVE FALSE
  BY DEF NoUseAfterEnd
<1>0. pc[t] \in DOMAIN Code[program][t]
  BY AtStatement
<1>1. PICK s : s = Code[program][t][pc[t]]
  OBVIOUS
<1>2. s.object \in dead /\ pc[t] \in Nat
  BY <1>1 DEF Current, SyncBase
<1>3. CASE program = "wrappers"
  <2>0. Code[program] = Wrappers /\ Threads = 1 .. 4
    BY <1>3, CodeIs, WrappersIs DEF Threads
  <2>1. \A x \in {Name[1], Name[2], Name[3]} :
             x \notin {"started", "threads"}
    BY DEF Name
  <2>2. Name[1] # Name[2] /\ Name[1] # Name[3] /\ Name[2] # Name[3]
    BY DEF Name
  <2>3. CASE t \in 2 .. 4
    <3>1. s.object = "started"
      BY <1>0, <1>1, <2>0, <2>3, WrappersIs, MeetingFields
    <3> QED
      BY <1>2, <1>3, <2>1, <3>1 DEF WrappersInv
  <2>4. CASE t = 1
    <3>1. pc[1] \in 1 .. 18
      BY <1>0, <2>0, <2>4, WrappersIs
    <3>2. /\ pc[1] > 11 => s.object # Name[3]
          /\ pc[1] > 14 => s.object # Name[2]
          /\ pc[1] > 17 => s.object # Name[1]
      BY <1>1, <2>0, <2>1, <2>2, <2>4, <3>1, WrappersIs, AccessFields, MeetingFields
    <3> QED
      BY <1>2, <1>3, <3>2 DEF WrappersInv
  <2> QED
    BY <2>0, <2>3, <2>4
<1>4. CASE program = "new_thread"
  <2>0. Code[program] = NewThread /\ Threads = 1 .. 2
    BY <1>4, CodeIs, NewThreadIs DEF Threads
  <2>1. s.object = "frame" /\ pc[2] > 3 /\ pc[2] \in Nat /\ pc[1] \in Nat
    BY <1>2, <1>4, <2>0 DEF NewThreadInv, SyncBase
  <2>2. t = 1 /\ pc[1] \in 1 .. 2
    BY <1>0, <1>1, <2>0, <2>1, NewThreadIs, AccessFields, MeetingFields
  <2> QED
    BY <1>4, <2>1, <2>2 DEF NewThreadInv
<1> QED
  BY <1>3, <1>4 DEF Ending

(* The other mains end the lifetime of nothing.                             *)
LEMMA KeptAlive ==
    ASSUME Destroyed, program \in Busy \ Ending PROVE dead = {}
  BY BusyKeeps DEF Destroyed, Keeps

(* What each main keeps to.                                                 *)
MainInv ==
    /\ program = "latches" => LatchesInv
    /\ program = "barriers" => BarriersInv
    /\ program = "shared_mutex" => ReadersInv
    /\ program = "ready" => ReadyInv
    /\ program = "two_promises" => TwoPromisesInv
    /\ program = "fizz_buzz" => FizzBuzzInv
    /\ program = "dining_by_turns" => ByTurnsInv
    /\ program = "dining_by_forks" => ByForksInv
    /\ program = "arguments" => ArgumentsInv
    /\ program = "results" => ResultsInv
    /\ program = "wrappers" => WrappersInv
    /\ program = "cancellation" => CancellationInv
    /\ program = "new_thread" => NewThreadInv
    /\ program = "mutex_contention" => ContentionInv

(* The inductive invariant.                                                 *)
SyncInv == SyncBase /\ Destroyed /\ MainInv

LEMMA BusyMainsSafe ==
    ASSUME SyncInv, program \in Busy PROVE AccessesSafe
<1>0. SyncBase /\ Destroyed /\ MainInv /\ CodeTyped(Code[program])
  BY EveryCodeTyped DEF SyncInv, SyncBase
<1>1. ASSUME NEW t \in Threads, NEW u \in Threads PROVE ~ Collide(t, u)
  <2>1. CASE program \in {"latches", "barriers", "shared_mutex", "ready", "two_promises"}
    BY <1>0, <2>1, LatchesSafe, BarriersSafe, ReadersSafe, ReadySafe,
       TwoPromisesSafe
       DEF MainInv
  <2>2. CASE program \in {"fizz_buzz", "dining_by_turns", "dining_by_forks", "arguments",
                          "results"}
    BY <1>0, <2>2, FizzBuzzSafe, ByTurnsSafe, ByForksSafe, ArgumentsSafe,
       ResultsSafe
       DEF MainInv
  <2>3. CASE program \in {"wrappers", "thread_local", "cancellation", "new_thread",
                          "mutex_contention"}
    BY <1>0, <2>3, WrappersSafe, ThreadLocalSafe, CancellationSafe, NewThreadSafe,
       ContentionSafe
       DEF MainInv
  <2> QED
    BY <2>1, <2>2, <2>3 DEF Busy
<1>2. NoDataRace
  BY <1>0, <1>1, NoCollision, NoRace
<1>3. NoUseAfterEnd
  <2>1. CASE program \in Ending
    BY <1>0, <2>1, EndingSafe DEF MainInv
  <2>2. CASE program \notin Ending
    BY <1>0, <2>2, KeptAlive DEF NoUseAfterEnd
  <2> QED
    BY <2>1, <2>2
<1> QED
  BY <1>2, <1>3 DEF AccessesSafe

LEMMA SyncInvSafe ==
    ASSUME SyncInv PROVE AccessesSafe
<1>1. SyncBase /\ Destroyed /\ (program \in Quiet \/ program \in Busy)
  BY MainsAre, ProgramsAssumption DEF SyncInv, SyncBase
<1> QED
  BY <1>1, QuietMainsSafe, BusyMainsSafe

LEMMA SyncInvKept ==
    ASSUME SyncInv, [Next]_vars PROVE SyncInv'
<1>0. SyncBase /\ Destroyed /\ MainInv /\ CodeTyped(Code[program])
  BY EveryCodeTyped DEF SyncInv, SyncBase
<1>1. ASSUME NEW t, Steps(t) PROVE SyncInv'
  <2>1. SyncBase' /\ Destroyed' /\ program' = program
    BY <1>0, <1>1, BaseKept, DestroyedKept DEF Steps
  <2>2. /\ program = "latches" => LatchesInv'
        /\ program = "barriers" => BarriersInv'
        /\ program = "shared_mutex" => ReadersInv'
        /\ program = "ready" => ReadyInv'
        /\ program = "two_promises" => TwoPromisesInv'
    BY <1>0, <1>1, LatchesKept, BarriersKept, ReadersKept, ReadyKept,
       TwoPromisesKept
       DEF MainInv
  <2>3. /\ program = "fizz_buzz" => FizzBuzzInv'
        /\ program = "dining_by_turns" => ByTurnsInv'
        /\ program = "dining_by_forks" => ByForksInv'
        /\ program = "arguments" => ArgumentsInv'
        /\ program = "results" => ResultsInv'
    BY <1>0, <1>1, FizzBuzzKept, ByTurnsKept, ByForksKept, ArgumentsKept,
       ResultsKept
       DEF MainInv
  <2>4. /\ program = "wrappers" => WrappersInv'
        /\ program = "cancellation" => CancellationInv'
        /\ program = "new_thread" => NewThreadInv'
        /\ program = "mutex_contention" => ContentionInv'
    BY <1>0, <1>1, WrappersKept, CancellationKept, NewThreadKept, ContentionKept
       DEF MainInv
  <2> QED
    BY <2>1, <2>2, <2>3, <2>4 DEF SyncInv, MainInv
<1>2. CASE Idles
  <2>1. SyncBase' /\ program' = program /\ Threads' = Threads /\ Code[program]' = Code[program]
    BY <1>0, <1>2, IdleKept, SameCode DEF Idles
  <2>2. Destroyed'
    BY <1>0, <1>2, <2>1 DEF Idles, Destroyed
  <2>3. \A t, k, L : Place(t, k, L)' = Place(t, k, L)
    BY <1>2 DEF Idles, Place
  <2>4. \A t : Arrived(t)' = Arrived(t) /\ Before(t)' = Before(t)
    BY <1>2 DEF Idles, Arrived, Before
  <2>5. /\ LatchesInv => LatchesInv'
        /\ BarriersInv => BarriersInv'
        /\ ReadyInv => ReadyInv'
        /\ TwoPromisesInv => TwoPromisesInv'
    BY <1>2 DEF Idles, LatchesInv, BarriersInv, ReadyInv, TwoPromisesInv
  <2>6. /\ ArgumentsInv => ArgumentsInv'
        /\ ResultsInv => ResultsInv'
        /\ WrappersInv => WrappersInv'
        /\ CancellationInv => CancellationInv'
        /\ NewThreadInv => NewThreadInv'
    BY <1>2
       DEF Idles, ArgumentsInv, ResultsInv, WrappersInv, CancellationInv,
           NewThreadInv
  <2>7. /\ FizzBuzzInv => FizzBuzzInv'
        /\ ReadersInv => ReadersInv'
        /\ ByTurnsInv => ByTurnsInv'
        /\ ByForksInv => ByForksInv'
    BY <1>2, <2>1, <2>3, <2>4 DEF Idles, FizzBuzzInv, ReadersInv, ByTurnsInv, ByForksInv
  <2>8. ContentionInv => ContentionInv'
    <3>1. Started' = Started
      BY <1>2, <2>1, <2>4 DEF Idles, Started
    <3>2. \A t : Place(t, Before(t), 4)' = Place(t, Before(t), 4)
      BY <1>2 DEF Idles, Place, Before
    <3> QED
      BY <1>2, <2>1, <2>4, <3>1, <3>2 DEF Idles, ContentionInv
  <2> QED
    BY <1>0, <2>1, <2>2, <2>5, <2>6, <2>7, <2>8 DEF SyncInv, MainInv
<1> QED
  BY <1>0, <1>1, <1>2, NextIsMove

LEMMA SyncInvInit ==
    ASSUME Init PROVE SyncInv
<1>1. SyncBase /\ Destroyed
  BY BaseInit, EveryCodeTyped DEF Init, Destroyed
<1>2. \A t \in Threads : pc[t] = 1 /\ register[t] = 0
  BY DEF Init
<1>3. \A o \in Objects : value[o] = 0
  BY DEF Init, Objects
<1>4. dead = {}
  BY DEF Init
<1>5. \A t \in Threads, L \in Nat \ {0} : Place(t, 0, L) = 1
  <2> SUFFICES ASSUME NEW t \in Threads, NEW L \in Nat \ {0} PROVE Place(t, 0, L) = 1
    OBVIOUS
  <2>1. pc[t] - 0 - 1 = 0
    BY <1>2
  <2>2. 0 % L = 0
    OBVIOUS
  <2> QED
    BY <2>1, <2>2 DEF Place
<1>6. program = "latches" => LatchesInv
  <2> SUFFICES ASSUME program = "latches" PROVE LatchesInv
    OBVIOUS
  <2>1. Code[program] = Latches /\ Threads = 1 .. 5
    BY CodeIs, LatchesIs DEF Threads
  <2>2. "map_latch" \in Objects /\ "reduce_latch" \in Objects
    BY <2>1, IsObject, LatchesIs, MeetingFields
  <2> QED
    BY <1>2, <1>3, <2>1, <2>2 DEF LatchesInv
<1>7. program = "barriers" => BarriersInv
  <2> SUFFICES ASSUME program = "barriers" PROVE BarriersInv
    OBVIOUS
  <2>1. Code[program] = Barriers /\ Threads = 1 .. 4
    BY CodeIs, BarriersIs DEF Threads
  <2>2. "map_barrier" \in Objects
    BY <2>1, IsObject, BarriersIs, MeetingFields
  <2> QED
    BY <1>2, <1>3, <2>1, <2>2 DEF BarriersInv
<1>8. program = "ready" => ReadyInv
  <2> SUFFICES ASSUME program = "ready" PROVE ReadyInv
    OBVIOUS
  <2>1. Threads = 1 .. NUM_THREADS + 1 /\ NUM_THREADS \in 1 .. 5
    BY CodeIs, WaitForReadyIs, SizesAssumption DEF Threads
  <2> QED
    BY <1>2, <2>1 DEF ReadyInv
<1>9. program = "shared_mutex" => ReadersInv
  BY <1>5 DEF ReadersInv
<1>10. program = "dining_by_turns" => ByTurnsInv
  BY <1>5 DEF ByTurnsInv
<1>11. program = "dining_by_forks" => ByForksInv
  BY <1>5 DEF ByForksInv
<1>12. program = "two_promises" => TwoPromisesInv
  <2> SUFFICES ASSUME program = "two_promises" PROVE TwoPromisesInv
    OBVIOUS
  <2>1. Code[program] = TwoPromises /\ Threads = 1 .. 2
    BY CodeIs, TwoPromisesIs DEF Threads
  <2>2. "numbers_ready" \in Objects /\ "letters_ready" \in Objects
    BY <2>1, IsObject, TwoPromisesIs, MeetingFields
  <2> QED
    BY <1>2, <1>3, <2>1, <2>2 DEF TwoPromisesInv
<1>13. program = "arguments" => ArgumentsInv
  <2>1. program = "arguments" => 1 \in Threads
    BY CodeIs, ArgumentsIs DEF Threads
  <2> QED
    BY <1>2, <2>1 DEF ArgumentsInv
<1>14. program = "results" => ResultsInv
  <2> SUFFICES ASSUME program = "results" PROVE ResultsInv
    OBVIOUS
  <2>1. Code[program] = Results /\ Threads = 1 .. 4
    BY CodeIs, ResultsIs DEF Threads
  <2>2. "started" \in Objects
    BY <2>1, IsObject, ResultsIs, MeetingFields
  <2> QED
    BY <1>2, <1>3, <2>1, <2>2 DEF ResultsInv
<1>15. program = "wrappers" => WrappersInv
  BY <1>4 DEF WrappersInv
<1>16. program = "cancellation" => CancellationInv
  <2> SUFFICES ASSUME program = "cancellation" PROVE CancellationInv
    OBVIOUS
  <2>1. Code[program] = Cancellation /\ Threads = 1 .. 3
    BY CodeIs, CancellationIs DEF Threads
  <2>2. Ready[1] \in Objects /\ Ready[2] \in Objects
    BY <2>1, IsObject, CancellationIs, MeetingFields
  <2> QED
    BY <1>2, <1>3, <2>1, <2>2 DEF CancellationInv
<1>17. program = "new_thread" => NewThreadInv
  <2> SUFFICES ASSUME program = "new_thread" PROVE NewThreadInv
    OBVIOUS
  <2>1. Code[program] = NewThread /\ Threads = 1 .. 2
    BY CodeIs, NewThreadIs DEF Threads
  <2>2. "started" \in Objects
    BY <2>1, IsObject, NewThreadIs, MeetingFields
  <2> QED
    BY <1>2, <1>3, <1>4, <2>1, <2>2 DEF NewThreadInv
<1>18. program = "fizz_buzz" => FizzBuzzInv
  <2> SUFFICES ASSUME program = "fizz_buzz" PROVE FizzBuzzInv
    OBVIOUS
  <2>1. Code[program] = FizzBuzz /\ Threads = 1 .. 4
    BY CodeIs, FizzBuzzIs DEF Threads
  <2>2. \A t \in 1 .. 4 : Arrived(t) = 0 /\ pc[t] % 3 = 1
    BY <1>2, <2>1 DEF Arrived
  <2>3. n > 0 => value["bar"] = 0
    <3> SUFFICES ASSUME n > 0 PROVE value["bar"] = 0
      OBVIOUS
    <3>1. 2 \in 1 .. 3 * n /\ 2 % 3 = 2
      BY SizesAssumption
    <3>2. 2 \in DOMAIN FizzBuzz[1] /\ FizzBuzz[1][2].object = "bar"
      BY <3>1, FizzBuzzIs
    <3> QED
      BY <1>3, <2>1, <3>2, IsObject
  <2> QED
    BY <2>1, <2>2, <2>3 DEF FizzBuzzInv
<1>19. program = "mutex_contention" => ContentionInv
  <2> SUFFICES ASSUME program = "mutex_contention" PROVE ContentionInv
    OBVIOUS
  <2>1. "start" \in Objects
    BY ContentionObjects
  <2>2. \A t \in Threads : pc[t] < Before(t)
    BY <1>2 DEF Before
  <2>3. \A t \in Threads : pc[t] \in Nat /\ Before(t) \in Nat
    BY <1>2 DEF Before
  <2>4. Started = {}
    BY <2>2, <2>3 DEF Started
  <2>5. value["start"] = Cardinality(Started)
    BY <1>3, <2>1, <2>4, FS_EmptySet
  <2> QED
    BY <2>2, <2>3, <2>5 DEF ContentionInv
<1> QED
  BY <1>1, <1>6, <1>7, <1>8, <1>9, <1>10, <1>11, <1>12, <1>13, <1>14, <1>15, <1>16,
     <1>17,
     <1>18, <1>19 DEF SyncInv, MainInv

-----------------------------------------------------------------------------
(* Every main keeps to its own invariant: mutexes are held by one thread, and*)
(* nobody passes a latch, a barrier, a future, a join() or a predicate before*)
(* what it waits for, for any number of threads and rounds.                 *)
THEOREM SyncInvAlways == Spec => []SyncInv
<1>1. Init => SyncInv
  BY SyncInvInit
<1>2. SyncInv /\ [Next]_vars => SyncInv'
  BY SyncInvKept
<1> QED
  BY <1>1, <1>2, PTL DEF Spec

(* No two threads are ever about to access a plain object, one of them      *)
(* writing it, and none uses an object after its end, in all 29 mains but for*)
(* the exceptions that NoDataRace and NoUseAfterEnd name: the slices, numbers*)
(* and forks, the output of the callbacks, the frame of the coroutine and the*)
(* names of the wrappers are safe whatever the order of the steps.          *)
THEOREM AccessesSafeAlways == Spec => []AccessesSafe
<1>1. SyncInv => AccessesSafe
  BY SyncInvSafe
<1> QED
  BY <1>1, SyncInvAlways, PTL
=============================================================================
