# Verification of the programs of "Asynchronous Programming with C++"

The repository is a library of small concurrent classes (`src/common`, and the
classes next to some chapters), the programs of chapters 3 to 9 that use them or
the standard library directly, three multithreaded exercises (`src/leetcode`) and
three benchmarks.  There is no single main: the parts meet only because a program
uses a class.  This directory holds TLA+ models of those parts, the TLC runs that
check them on small instances, and proofs, checked by TLAPS, of what holds for
every size.

Contents: [inventory](#inventory), [modules](#modules), [runs](#runs-and-bounds),
[fairness](#fairness-and-scheduling), [proofs](#proofs),
[findings](#what-the-models-show-about-the-code),
[limits](#what-is-not-modelled), [plan](#plan).

## Inventory

Each part with the state it keeps, its operations, how it interacts, what is hard
about it, and what makes it correct.

| Part | State | Operations | Hard part | Correct when |
|---|---|---|---|---|
| `common/mutex_queue.h` `Queue`, used by `chapter_04/program_04` | ring `buffer_`, `head_`, `tail_`, mutex, `not_full_`, `not_empty_` | `push`, `pop`, `try_push`, `try_pop` | notifications after the unlock, mixed blocking and non-blocking callers | FIFO, no lost wakeup, loops end |
| `chapter_04/program_06/semaphore_queue.h` `SemaphoreQueue` | ring, `sem_empty_`, `sem_full_`, mutex for the indices | the same four | permits change outside the mutex | permits account for places, FIFO, loops end |
| `common/spsc_lock_free_queue.h`, used by `chapter_05/program_09` | ring, atomics `head_` and `tail_` | `push`, `pop` | outdated acquire loads, wraparound | no overtaking, no data race, FIFO |
| `common/thread_safe_queue.h`, used by `chapter_06/program_12` | `std::queue` of futures, mutex, `cond_var_` | `push`, `pop`, then `get` | a future leaves the queue before its value is set | FIFO, no lost wakeup, every result arrives |
| `common/thread_pool.h` and the pools of benchmarks 02 and 03 | task queue, `stop`, `condition`, workers | `enqueue`, destructor, worker loop | stop against enqueue and wait, tasks that throw, tasks that refer to locals | queued tasks run before the destructor returns |
| `common/task.h`, `common/semaphore_guard.h`, promises, packaged tasks and `std::async` of chapters 6 and 7 and benchmarks 02 and 03 | shared states of futures, permits | launch with a policy, call, get, set, throw, move a guard | deferred, default and shared futures, exceptions on the way, order of calls | functions run once and after what they depend on; failures arrive; permits are conserved; nothing is left unrun |
| `common/spin_lock.h`, atomics and counters of chapters 4 and 5 | histories of stores, what each thread has seen | load, store, fetch_add, compare_exchange, plain accesses | memory order | no data race, exact counts, loops end |
| Chapter 4: mutexes, `call_once`, latches, barriers, shared and timed mutexes; two of chapter 6, one of chapter 3 | synchronisation objects and plain objects they protect | lock, wait, arrive, time out, call once | what protects which object, timeouts, exceptions | no data race, results exact, mains end |
| `leetcode/01_h2o_problem` `H2O`, twice | four semaphores, or mutex, cv and counter | `hydrogen`, `oxygen` | which thread takes which token | atoms come out in molecules |
| `leetcode/02_fizz_buzz`, `leetcode/03_dining_philosophers` (two solutions) | barrier; turn and cv; five mutexes | four loops; `wantsToEat` | order across threads, deadlock | outputs in order, forks exclusive, all eat |
| Chapter 3: threads and the objects that own them (`JthreadWrapper`, `Counter`, `Timer`), stop tokens and callbacks, detached and endless threads, with the tests; cancellation in `chapter_06/program_09`; benchmark 01 | flags, stop state, arguments, results | start, stop, destroy, join | members and arguments destroyed while the thread uses them; a callback registered before or after the stop | nothing used after its end, callbacks once, results exact |
| Chapter 8: coroutines (`async_parser.h`, `generator.h`, programs 1 to 5) | coroutine frames | resume, put, get, next, value, destroy | calls in an order the frame does not expect, data left from the call before | no frame resumed after its end or without input, answers exact |
| `chapter_08/program_08/async_sleep.hpp` | queue of timers, coroutines that sleep | `schedule_after`, `run` | coroutines that are resumed late and sleep again, frames destroyed at the end | sleeps end in the order in which they are due, handles valid, `run` returns |
| Chapter 9: Boost.Asio | handlers of an `io_context`, timer, signal set, sockets | handlers, `cancel`, accept, read, write | cancellation against a queued handler, sessions that interleave, failures | shutdown ends the loop; echoes in order, to their client |

`PROJECT.json` lists every part, with its files, under `components`, and under
`hazards` each line at which something can go wrong that a test would hardly reach,
with the properties that would show it.

## Modules

Data is abstracted to what the properties tell apart (the n-th item of producer p
is `<<p, n>>`, an atom is a count), control is kept.  A block of code run under one
mutex is one step where nothing of it can be seen from outside; anything before
the lock or after the unlock, `notify_one()` above all, is a step of its own.

*Shared.* `CondVar`: a condition variable as the set of its waiters; a spurious
wakeup is always possible.  `Counting`: how many threads are at a point.
`CppAtomics`: an operational C++ memory model.

*Abstract specifications.* `BoundedFifo`: one sequence, appended to by producers
and taken from by consumers, bounded.  `Water`: atoms released in groups of two
hydrogens and one oxygen.

*Queues.*
- `MutexQueue`: state as in the class, a `pc` per thread (`call`, `wait`, `locked`,
  `notify`).  Actions `Lock`, `Relock`, `WaitNotFull`, `WaitNotEmpty`, `GiveUp` (a
  `try_` operation that fails), `Insert`, `Remove`, `NotifyAfter`.  For each item a
  thread picks the blocking or the `try_` operation.
- `SemaphoreQueue`: an operation is acquire, move under the mutex, release, so a
  thread is at `enter`, `admitted` or `moved`.
- `SpscQueue`: positions instead of wrapped indices, `mask(position)` being the
  index; an acquire load returns any store not older than the last one seen.
- `FutureQueue`: the queue, plus which promises are set.
- `ThreadPool`: both kinds of pool (`packaged` tells them apart), clients that
  enqueue rounds of tasks, and the owner's destructor.

The queues, and the pool's queue of tasks, are shown to implement `BoundedFifo` by
a refinement mapping (`IsFifo`, `TasksTakenOnceInOrder`).

*H2O.* `H2OThreads` has the threads of the tests and what they release, which the two
classes share.  `H2OSem` has a step per semaphore call, `H2OMonitor` a step per critical
section; both implement `Water` (`MakesWater`, `MonitorMakesWater`).

*Programs.* Three modules interpret the thread functions of many small mains.  A
constant `Code` gives each main as sequences of statements, named after its
functions; the variable `program`, chosen in `Init`, says which main runs.
- `MemoryOrder` (13 mains): statements are atomic and plain accesses, under
  `CppAtomics`.  A data race is two plain accesses of which neither happens before
  the other.
- `TaskGraph` (27 mains): statements launch, call, get, wait, set and acquire.  Each
  task has its policy: `async`, `deferred`, the default (a choice of the two at the
  launch), called by its owner, or only promised.  A deferred task runs on the
  stack of the thread that gets it first.
- `Synchronizers` (29 mains): statements lock, wait, notify, arrive, await, call
  once, register a callback, request a stop, read, write, destroy, branch.
  `Statements` names them, and `OwnedThreads` writes with them the mains of chapter
  3, benchmark 01, `chapter_06/program_09` and `chapter_08/program_03_a`, in which
  main() is thread 1 and starts, destroys and joins.  Memory is sequentially
  consistent here, which is exact for the race-free programs: a race is a state in
  which two threads are both about to touch a plain object.  `AccessesSafe` says
  that there is none, and that no thread is about to use an object whose lifetime
  is over, except where the code does.

*One thread with a queue.* Four modules with variables of their own, of which
`EventDriven` runs one at a time (the variable `program`):
- `Coroutines`: the frame of a coroutine is a record with the place where it is
  suspended.  A call of the object (`Put`, `GetString`, `GetNumber`, `next`,
  `value`, `Destroy`) resumes it to the next suspension in one step.  A frame that
  is resumed after its end goes to a place of its own, a failed `assert` to another.
  The calls come in every order, with two limits that the mains keep.  The parser is
  put the characters of numbers that `#` ends, with no sign inside a number and no
  character between a `#` and the next `get()`; `get()` itself comes at any moment, and
  out of turn it meets the assertion of `async_parser.h:53`.  And `value()` is called
  where there is a value.
- `SleepLoop`: time in units of 500 ms, the queue of timers, `run()` one timer per
  step, and time that the thread loses.
- `SignalledTimer`: the queue of handlers of an `io_context`, a timer and a signal
  set; `cancel()` aborts a wait only if it has not completed.
- `EchoServer`: connections, the parts of a line that arrive in reads of any size,
  and the writes, each of which may fail.

Mutated definitions, each standing for a plausible bug, sit before the definition
they would replace and are marked as such.

## Runs and bounds

| Run | Instance | Distinct states | Shows |
|---|---|---|---|
| `mutex_queue` | 2 producers, 2 consumers, capacity 3 (2 places), items 2+2 against 3+1 | 63,735 | FIFO with every mix of operations; `NoWakeupLost`: none of `pop`, and none of `push` until a `try_pop` freed a slot; blocking loops end |
| `semaphore_queue` | 2 + 2 threads, 2 places, the same quotas | 1,168 | `PlacesAccounted`: permits in flight and indices agree; FIFO, termination |
| `spsc_queue` | capacity 4, 10 items (more than two laps) | 601 | within one lap, race freedom, FIFO, termination |
| `future_queue` | 2 + 2 threads, the same quotas | 1,104 | no lost wakeup, FIFO, all results |
| `thread_pool` | 3 workers, 1 client, 2 rounds of 3 tasks, one of which may throw, both kinds of pool | 87,539 | wakeups; `TasksEndInTime`: none outlives the pool or its round; tasks once and in order; the pool ends |
| `h2o_sem` | 6 hydrogens, 3 oxygens | 45,386 | accounts of tokens, limits of the semaphores, molecules, termination |
| `h2o_monitor` | the same | 1,026 | only false predicates wait, molecules, termination |
| `memory_order` | 13 mains, 3 threads, 2 iterations | 17,185 | which plain accesses race; `ResultsExact`: counts, and one initializer; one order of seq_cst stores; termination |
| `store_buffer_assert` | `chapter_05/program_07b` | violation | its assertion fails |
| `task_graph` | 27 mains, 3 tasks, 2 permits | 3,422 | dependencies, failures, permits; every main ends with nothing unrun that should have been |
| `synchronizers` | 29 mains, 2 threads of a kind, 2 rounds, n = 15, counter to 4 with target 2 | 254,379 | races and uses after an end, results, termination |
| `event_driven` | 8 coroutines with up to 8 calls; 3 sleepers with delays 0, 1 and 2 and 2 units lost; 2 signals; 2 clients | 136,146 | coroutines resumed in time, the parser's assertion met by a `get()` out of turn only, and exact answers, sleeps in due order, echoes in order, loops make progress |

Why the bounds are enough to be interesting: queues fill, empty and wrap (quotas
exceed places, ten items pass a ring of three places more than twice); with two
threads of each kind a wakeup can go to the wrong one, and the unequal quotas make
one consumer outlast the other; three molecules let a hydrogen of the next molecule
overtake one of the molecule before; fifteen numbers reach each FizzBuzz case; five
philosophers are the program's own number; eight calls reach the end of every
finite generator with calls to spare, and a second number, with a sign, for the
parser; three sleepers, one of which sleeps twice, reach two that are due at once and
one that is overtaken while late; two signals are one more than the program waits for.  `INCREMENTS`, `TARGET`, `NUM_ITEMS`,
`ROUNDS`, `NUM_THREADS`, `NUM_STEPS` and `Quota` bound loops that are longer in the
code, `LIMIT` and `MODULUS` stand for its 10 and 1000000007, and `MAX_CALLS`,
`MAX_SENT`, `SIGNALS` and `LATENESS` bound what the outside does.  `Limit` of
`FutureQueue` is the bound that `BoundedFifo` has and the queue of futures has not:
any number that is at least that of all futures produced (`LimitAssumption`).

Deadlock is checked in every passing run; `Joined` and its like are the step that a
main may repeat after it has joined its threads.

## Fairness and scheduling

Every thread that can take a step eventually takes one: weak fairness of the steps
of each thread, which is what an operating system's scheduler gives.  No fairness is
assumed of the choice among waiters, of `notify_one()`, or of timeouts.  Three further
assumptions, each stated where it is used:
- A store becomes visible to loads in finite time, as the C++ standard recommends:
  `SpscQueue` is fair to the loads that return the newest store, `MemoryOrder`
  strongly fair to them.
- Spurious wakeups do not go on for ever: a premise of the termination properties,
  not of the specification, so that the safety properties hold with any number of
  them.
- A `std::scoped_lock` does not back off for ever: a premise too.  It waits for one of
  its mutexes, either of them, tries the other, and if that is taken gives the first
  one back and begins again.  The C++ standard promises that this does not deadlock,
  and no more; that philosophers who each hold one fork go on is what `Terminates`
  shows (a lock that keeps its first fork violates it).

In `EventDriven` there is one thread, which is scheduled; time passes until a timer
expires, and the operating system delivers what has been sent (weak fairness of
`SleepProgress`, `Expire`, `RunOne`, `Serve` of each client and `ServingEnds`).
Signals, connections and closes are under no fairness: they may never come.

`MutexQueue` terminates under the further premise that finitely many `try_` calls
give up and no `try_pop` has freed a slot.  In `Synchronizers` the main of
`chapter_04/program_10` is excused if its polling thread never looks while the
counter has the value it waits for, and that of `chapter_03/program_3_14`, whose
threads have no way to end, altogether.

## Proofs

All are theorems `Spec => ...` for every value of the constants that the modules'
assumptions allow.  Each theorem of safety goes through an invariant that is
inductive (`Init` establishes it, every step keeps it).  Those of `MutexQueue`,
`SemaphoreQueue`, `FutureQueue`, `ThreadPool`, `SpscQueue` and `Synchronizers` have also
been evaluated by TLC as invariants of the constants of their runs; the others rest on
their proofs.

| Module | Theorems | Argument |
|---|---|---|
| `MutexQueueProofs` | `TypeCorrect`, `WakeupsKept` (`NoWakeupLost`), `NeverStuck`, `BufferIsFifo` (`IsFifo`) | any finite sets of threads, any capacity, any mix of operations.  `NoWakeupLost` compares items with consumers that are awake or about to be notified, and free places with producers.  It is not inductive alone: that a blocked thread is inside `wait()`, that who is inside has an item left to move (else an awake thread would not use up the wakeup), that one thread owns the mutex, and that a consumer that notifies the wrong condition variable has set `try_popped`, go with it (`Inside`).  The refinement maps the ring to the window of `Occupied` places after `head_` |
| `SemaphoreQueueProofs` | `TypeCorrect`, `PermitsHold`, `IndicesAgree`, `PlacesHold` (`PlacesAccounted`), `NeverStuck`, `BufferIsFifo` (`IsFifo`) | permits in semaphores and in flight add up to the capacity, and `tail_` is `head_` plus the occupied places, modulo the capacity: both are needed at once, as a move under the mutex changes indices and flight together.  That no unset place is read, and so the type of what consumers get, needs the refinement's window |
| `FutureProofs`, the queue | `QueueTypeCorrect`, `WakeupsKept` (`WakeupForFuture`), `AnswersCome`, `PoppedOnce`, `NeverStuck`, `QueueIsFifo` (`IsFifo`) | any quotas.  With the count of wakeups: each future pushed is in one place (`OnlyPushed`, `GoneOnce`, `QueuedOnce`) and ready, or its producer still holds the promise (`AllAnswered`).  That the queue stays within `Limit` is by counting distinct futures |
| `FutureProofs`, the programs of `TaskGraph` | `TypeCorrect`, `TasksAfterTheirDependencies` (`DependenciesFirst`), `PermitsGoBack` (`PermitsBoundTasks`), `FailuresReachMain` (`FailuresPropagate`) | all 27 programs, any number of tasks and permits.  Two halves.  What a program has to be like is `WellFormed` (a task is started by one statement of one body, what it gets has been started before, only main catches) and, for the semaphore's program, `OnePermitEach`; `AllWellFormed` shows it of each of the 27.  For any such program `IInv` is inductive: a body has one frame, on one stack (`StacksTyped`), whose place tells which futures it has got (`PlacesKnown`); `ResultsKnown` ties a task's future to how its function ended; a task whose statement lies ahead has not been started (`StartsAhead`), so that its function is called once; an exception has a source and comes to main (`SourceKnown`, `MainKnown`); and each permit is free, with main at the statement after `acquire()`, or with a task that has not returned (`GuardsKnown`, with `OwnThreads` for the semaphore's program) |
| `ThreadProofs`, the pools | `TypeCorrect`, `WakeupsKept` (`WakeupForTask`), `TasksEnd` (`TasksEndInTime`), `TasksTakenInOrder` (`TasksTakenOnceInOrder`), `NeverStuck` | both kinds of pool, any number of workers, clients, rounds and tasks.  A task that was enqueued is queued, with one worker or done (`Places`); what stop and the end of the destructor imply about clients, waiters and the queue is `Closing`; `RoundsDone` says which rounds a client is through with.  `NeverStuck` is, as in the queues, deadlock freedom stated without `ENABLED`: until the pool is destroyed or a task has thrown, some thread has a step other than a spurious wakeup |
| `ThreadProofs`, the mains of `Synchronizers` | `SyncInvAlways`, `AccessesSafeAlways` (`AccessesSafe`) | all 29 mains, any number of threads, rounds and increments, any `n`.  The 25 actions of a thread are first shown to be a step of one statement (`Steps`: what it does to places, values, mutexes and lifetimes, and what it has waited for; `NextIsMove`), and the proofs of the mains use that alone.  In 14 mains threads write nothing that they share, or only what the property exempts: a `Profile` of each thread, kept when loops and sequences are put together, shows it.  `thread_local` gives every thread objects of its own (`Uses`).  Each of the others has an invariant (`MainInv`): counts of latches, barriers and promises agree with the places of those that arrive (`LatchesInv`, `BarriersInv`, `TwoPromisesInv`, `CancellationInv`), nobody is past a `join()` before the thread's end (`ArgumentsInv`, `ResultsInv`), the mutex is held from one end of the critical section to the other (`ReadyInv`, `ReadersInv`, `ByTurnsInv`, `ByForksInv`: `Place` is the place within a lap of the loop), no FizzBuzz thread is more than one arrival ahead of another and none that has its turn is behind (`FizzBuzzInv`), no loop of the benchmark starts before all have arrived (`ContentionInv`), and what is destroyed is past its last use (`NewThreadInv`, `WrappersInv`).  With `SyncBase` (one holder of a mutex, or sharers only) and `Destroyed` it is inductive, and two threads at accesses that collide contradict it |
| `H2OProofs` | semaphores: `TypeCorrect`, `AccountsHold`, `SemaphoresWithinMax`, `ReleasesMakeWater`; monitor: `MonitorTypeCorrect`, `WaitersPredicatesFalse`, `MonitorReleasesWater`, `NeverAllBlocked` | any finite sets of calls.  `Accounts` says where each permit and atom is, and with the types is inductive; the limits follow by arithmetic, and steps map to `Water` or a stutter because the accounts bound how many hydrogens are ahead.  For the monitor, `nH = 2 * nO + hydrogen_count` ties the counter to the atoms; with twice as many hydrogens as oxygens it follows that not all threads are blocked |
| `LockFreeProofs`, the queue | `TypeCorrect`, `OneLap` (`WithinOneLap`), `RaceFree` (`SlotsDoNotRace`), `BufferIsFifo` (`IsFifo`) | any power of two, any number of items.  Besides `WithinOneLap`: a thread past its test has an item to move, and the consumer's own position is not ahead of what it has seen of the producer's (`ItemsSeen`).  Without the latter an outdated load could lie behind `head_`, and `pop()` would take different slots for an item that is there |
| `LockFreeProofs`, the programs of `MemoryOrder` | `OnlyKnownRaces` (`NoDataRace`), `FlagsSeenInOneOrder` (`SeenInOneOrder`), `NothingLost` (`ResultsExact`) | any number of threads and iterations, every outdated value a load may return.  Each access either looks at a history or adds one store (`Looks`, `Adds`), and keeps views within histories (`MemoryInv`).  Lock: who holds it knows every access of the counter made before, and its newest store does while nobody holds it (`LockedInv`).  Flag: a raised flag, and who has seen it, knows the write that it announces (`PublishedInv`).  Two flags: a reader that misses one has fixed that it was raised later (`IriwInv`).  Counts: the newest value is the number of increments made (`CounterInv`), of runs of the place that stores it (`StatisticsInv`), or the one thread that initializes (`InitOnceInv`) |
| `EventDrivenProofs` | `SleepsEndInOrder` (`WokenInDueOrder`), `ClientsGetEchoes` (`EchoesInOrder`), `CoroutinesResumedInTime` (`ResumedInTime`), `CallsAnsweredAsPromised` (`AnswersAsPromised`) | any delays, time lost, clients, parts, and sequences of calls of any length.  Sleeps: exactly the sleeping coroutines are queued, each at the time it asked for, and nothing still queued was due before what was woken (`SleepInv`; needed because a coroutine resumed late asks again).  Sessions: what a session has read and not answered is in its own buffer (`SessionInv`).  Coroutines: where the frame waits is a function of the calls since the last `get` (`ParserWaits`), the assertion has failed if and only if a `get` came out of turn (`AskedOnceMore`), and what it holds is what the calls so far determine (`FrameKeeps`): two Fibonacci terms, the number reckoned so far, the greeting |
| `CommonTheorems` | lemmas | how a count of threads changes when one moves; least elements, induction and recursion over the naturals, stated over sets; a sequence without repetition is no longer than its set; `%` by a modulus that is not a constant; how the window of a ring changes when an index moves (`WindowAppend`, `WindowTail`) |

Assumed: the named `ASSUME`s of the component modules, which TLC evaluates on every
run.  They are finite disjoint thread sets, positive or power-of-two capacities, at
least one worker (the benchmarks' pools have none if `hardware_concurrency()` is 0),
`LimitAssumption`, positive numbers of threads and iterations, and a `MODULUS` above 1
(the code's is 1000000007; by 1 its second Fibonacci term, which is not reduced, would
be wrong).

One thing to know when the proofs are changed: the SMT translation of `tlapm` 1.4.5
takes `Len(s) = n` and `DOMAIN s = 1 .. n` to be equivalent for every value `s`,
which is right for sequences only.  A leaf that has a function that is no sequence among its
facts, as an array indexed from 0 is, can pass because of that.  Every SMT obligation of
these modules has been given to Z3 once more with the equivalence replaced by the
implication from the domain to the length, and holds so; `ItemsSeen` is there because
one did not.

Only model-checked:
- liveness, since it needs `ENABLED` and fairness, which the prover does not handle;
- `ResultsCorrect` of `Synchronizers`: what each of 29 mains has printed and computed.
  It needs, beyond what `SyncInv` says of where threads are, what their registers and
  objects hold at each place, and counts of what has been printed, main by main;
- `SignalledTimer`, whose property is that its loop ends;
- that the mains of `MemoryOrder` are what `Code` says: the proofs are about these
  programs, one by one or in groups of the same shape.

## What the models show about the code

- `chapter_05/program_07b/main.cpp:41` asserts that `z` is not 0; both threads may
  store before either loads, and then it is (run `store_buffer_assert`).
- `chapter_05/program_08a` writes `data` after the release store and
  `chapter_04/program_01` increments without its mutex: the races are named in
  `NoDataRace` of `MemoryOrder`.
- `chapter_05/program_08b` prints that `z == 0` never happens, as does
  `program_07`; with acquire and release only the latter is right.
- `Queue::try_pop()` (`common/mutex_queue.h:78`) notifies `not_empty_` after freeing
  a slot.  A `push()` blocked on a full queue is not woken by it.  No main mixes the
  two, and `WakeupForFreeSlot` holds until the first `try_pop` succeeds.
- `chapter_04/program_10` reads the counter after its unlock, and can poll past the
  value it waits for; `chapter_03/program_3_17` polls an exception pointer without
  the mutex under which it is written; the detached thread of
  `chapter_03/program_3_11` counts `timeout` down at line 19 while main() reads it
  at line 32.  `AccessesSafe` and `Terminates` of `Synchronizers` name these as the
  only exceptions.
- The thread of `Counter` (`chapter_03/program_3_15/counter.cpp:7`) refers to the
  constructor's argument, which ends with the statement that makes the counter, and
  to `running`, which is declared after `t` and so destroyed before `t` is joined.
  `Timer` (`program_3_19/timer.h:26` and `:48`) does the same with `interval`,
  `callback` and `val`.  These too are exceptions in `AccessesSafe`.
- `async_parser.h:93`: `get()` resumes the parser wherever it is.  The first call of
  all finds it before its loop and returns 0; any other `get()` without a `#` before it
  fails the assertion at line 53.  main() makes none.
- `chapter_09/program_03`: a Ctrl+C that comes when the timer has expired and its
  handler is queued cancels nothing; the handler starts the timer again, nobody waits
  for a signal any more, and a further Ctrl+C is swallowed (`CancelsTooLate`).
- `chapter_07/program_02` launches `fut1` with the default policy and may never get
  it: if the launch is deferred, its function is not run (`LeftOut`).
- `chapter_06/program_09` tests the token and reads it again for its result: a task
  that has not been cancelled may say that it was.
- `chapter_08/program_01` keeps no handle of its coroutine, whose frame is left
  behind; `value` of the promise in `chapter_08/program_07/generator.h` is not initialised, so that
  `value()` may be called only after `next()`.
- `chapter_09/program_19` tests `bytes_read == 0` and catches what `run()` throws: an
  end of file is an exception in the coroutine, which is detached, and neither line
  is reached that way.

## What is not modelled

Output, identifiers and moves of single threads (chapter 3, programs 2 to 6, 9, 10 and
12), a future without a state and `make_ready_at_thread_exit` (chapter 6, programs 4
and 7), `std::atomic` of a structure (chapter 5, program 4), benchmark timing and
reports, build files: no choice in the order of steps, or no state.
`MovableSemaphoreGuard::reset()` is called by nothing.  That the end of main() ends
the detached thread of `chapter_03/program_3_11` is left out.  What undefined
behaviour does after the moment at which `AccessesSafe` names it is left out too: the
value of a destroyed object stays.
Numbers, strings and matrices are abstracted away except where a property counts
them.  The C++ standard allows `try_lock_for()` to fail although the mutex is free;
the implementations do not, and the model leaves it out (with it, all four threads of
`chapter_04/program_02b` could fail).  Who eats is recorded for the philosophers that
take turns only: those with two forks eat at once.  A timed wait may time out whenever what it waits for has
not happened; the durations themselves are left out.  `chapter_05/program_08b` is
run for the first of its ten rounds, since the flags it tests are not reset.
`CppAtomics` assumes what its header says of the programs it is used for.

## Plan

Done, in this order: the models of queues, H2O, thread pool, memory order, task graphs,
synchronisation objects, coroutines and event loops, threads owned by objects; proofs of
every safety invariant and refinement of the four queues, the pool, both classes H2O,
the memory-order programs, the event-driven programs and the task graphs, and of the
accesses of the mains that meet at synchronisation objects.

Left: `ResultsCorrect` of `Synchronizers`, main by main: first the counters
(`shared_mutex`, `polling`, the benchmark), whose register equals the counter between
read and write, then the order in which FizzBuzz and the philosophers print.
