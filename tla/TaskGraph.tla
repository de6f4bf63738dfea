----------------------------- MODULE TaskGraph -----------------------------
(***************************************************************************)
(* Programs whose threads only meet at futures: the Task class of          *)
(* common/task.h and of chapter_07/program_13, the promises and packaged   *)
(* tasks of chapter 6, the std::async programs of chapter 7 and of the     *)
(* benchmarks, and the semaphore guard of common/semaphore_guard.h.        *)
(*                                                                         *)
(* A body (main's, or a task's function) is a sequence of statements:      *)
(* start a task, get its future, wait for it, and so on; `program`, chosen *)
(* at the start, says which main() is run.  A task runs on a thread of its *)
(* own ("async"), on the thread that first gets its future ("deferred"), *)
(* on one of the two, as the library likes ("default"), or on the thread   *)
(* that calls it ("called"); a "promise" is set by main.  A thread has a   *)
(* stack of the bodies it is in.  `throws` are the tasks whose functions   *)
(* throw.                                                                  *)
(***************************************************************************)
EXTENDS Naturals, FiniteSets, Sequences, SequencesExt

CONSTANTS Programs,               \* the mains to run, among DOMAIN Code
          total_tasks,            \* how many tasks the loops start
          max_concurrent_tasks    \* permits of the semaphore

ASSUME TasksAssumption == total_tasks \in Nat \ {0}
ASSUME PermitsAssumption == max_concurrent_tasks \in Nat \ {0}

Main == 0
-----------------------------------------------------------------------------
Statement(do, task) == [do |-> do, task |-> task]

Launch(t)  == Statement("launch", t)
Get(t)     == Statement("get", t)
GetFind(t) == Statement("find", t)     \* get, and leave the loop if true
Wait(t)    == Statement("wait", t)     \* ~future of a task still running
Call(t)    == Statement("call", t)
Set(t)     == Statement("set", t)
Acquire    == Statement("acquire", Main)

(* The bodies of loops with one statement, and with two.                    *)
Each(S(_), n) == [i \in 1 .. n |-> S(i)]
EachOfTwo(S(_), S2(_), n) ==
    [k \in 1 .. 2 * n |-> IF k % 2 = 1 THEN S((k + 1) \div 2) ELSE S2(k \div 2)]

(* One body per task, from the futures that it gets.                        *)
Getting(deps) == [t \in DOMAIN deps |-> Each(LAMBDA i : Get(deps[t][i]), Len(deps[t]))]

Independent(n) == Getting(Each(LAMBDA i : << >>, n))

Scenario(main, bodies, policy, throws) ==
    [main |-> main, bodies |-> bodies, policy |-> policy, throws |-> throws]

AllTasks(n, policy) == [t \in 1 .. n |-> policy]

(* task1 <- task2 <- {task3, task4} <- task5 *)
Diamond == Getting(<< << >>, <<1>>, <<2>>, <<2>>, <<3, 4>> >>)

(* Mutant: task3 is called before the task it depends on. *)
PipelineOutOfOrder ==
    Scenario(<< Call(1), Call(3), Call(2), Call(4), Call(5), Get(5) >>,
             Diamond, AllTasks(5, "called"), {})

(* chapter_06/program_11: func_ is a sleep, which does not throw.           *)
Pipeline ==
    Scenario(Each(Call, 5) \o << Get(5) >>, Diamond, AllTasks(5, "called"), {})

(* chapter_07/program_13: the constructor launches the task, deferred, and  *)
(* start() gets its future.                                                 *)
DeferredPipeline ==
    Scenario(Each(Launch, 5) \o << Get(1), Get(5) >>,
             Diamond, AllTasks(5, "deferred"), {})

(* chapter_07/program_12: each stage gets the one before, and the first     *)
(* throws for the negative input.                                           *)
Chain ==
    Scenario(Each(Launch, 3) \o << Get(3) >>,
             Getting(<< << >>, <<1>>, <<2>> >>), AllTasks(3, "async"), {1})

(* chapter_06/program_10: combineFunc is task 1, with two threads.          *)
Combine ==
    Scenario(<< Launch(1), Get(1) >>,
             << << Launch(2), Launch(3), Get(2), Get(3) >>, << >>, << >> >>,
             AllTasks(3, "async"), {})

(* chapter_06/program_01: the thread catches what it throws and sets the    *)
(* promise's exception.                                                     *)
Thrown == Scenario(<< Launch(1), Get(1) >>, Independent(1), AllTasks(1, "async"), {1})

(* chapter_06/program_02: a promise that is set, and one that gets an       *)
(* exception.                                                               *)
OneByOne ==
    Scenario(<< Launch(1), Get(1), Launch(2), Get(2) >>,
             Independent(2), AllTasks(2, "async"), {2})

(* chapter_06/program_05: five threads get one shared future, task 1.       *)
SharedFuture ==
    Scenario(Each(LAMBDA i : Launch(i + 1), total_tasks) \o << Set(1) >>,
             Each(LAMBDA t : IF t = 1 THEN << >> ELSE << Get(1) >>, total_tasks + 1),
             [t \in 1 .. total_tasks + 1 |-> IF t = 1 THEN "promise" ELSE "async"], {})

(* chapter_06/program_06: three packaged_tasks, the first in a jthread.     *)
Packaged ==
    Scenario(<< Launch(1), Get(1), Call(2), Get(2), Call(3), Get(3) >>,
             Independent(3),
             [t \in 1 .. 3 |-> IF t = 1 THEN "async" ELSE "called"], {})

(* chapter_06/program_08: reset() gives the packaged_task a new future.     *)
Reset ==
    Scenario(EachOfTwo(Call, Get, total_tasks),
             Independent(total_tasks), AllTasks(total_tasks, "called"), {})

StartAll == Each(Launch, total_tasks)
AsyncScenario(main) ==
    Scenario(main, Independent(total_tasks), AllTasks(total_tasks, "async"), {})

(* chapter_07/program_01: total_tasks of its six kinds of function,         *)
(* wherever they are run.                                                   *)
Invocations ==
    Scenario(StartAll \o Each(Get, total_tasks),
             Independent(total_tasks), AllTasks(total_tasks, "default"), {})

(* chapter_07/program_02: fut1 is never got.                                *)
Arguments ==
    Scenario(<< Launch(1), Launch(2), Get(2), Launch(3), Get(3),
                Launch(4), Get(4), Launch(5), Get(5) >>,
             Independent(5), AllTasks(5, "default"), {})

(* chapter_07/program_04: one task for each policy.                         *)
Policies ==
    Scenario(Each(Launch, 3) \o Each(Get, 3), Independent(3),
             << "async", "deferred", "default" >>, {})

(* chapter_07/program_05: what func_throwing() throws comes out nested.     *)
Nested == Scenario(<< Launch(1), Get(1) >>, Independent(1), AllTasks(1, "default"), {1})

(* chapter_07/program_03 *)
Map ==
    Scenario(StartAll \o Each(Get, total_tasks),
             Independent(total_tasks), AllTasks(total_tasks, "default"), {})

(* chapter_07/program_08 *)
average_squares == AsyncScenario(StartAll \o Each(Get, total_tasks))

(* chapter_07/program_11, a task per element of the product.                *)
matrix_multiply == AsyncScenario(StartAll \o Each(Get, total_tasks))

(* chapter_07/programs 09 and 10: no get after a future that is true.       *)
Containers == AsyncScenario(StartAll \o Each(GetFind, total_tasks))
Search == AsyncScenario(StartAll \o Each(GetFind, total_tasks))

(* chapter_07/program_06, one loop after the other.  A future that is not   *)
(* kept, or that ends with the loop's body, is waited for at once.          *)
Discarded ==
    AsyncScenario(EachOfTwo(Launch, Wait, total_tasks))

(* The future of the new task replaces that of the one before, whose        *)
(* destruction waits for it.                                                *)
Reuse ==
    AsyncScenario(<< Launch(1) >> \o EachOfTwo(LAMBDA i : Launch(i + 1), Wait, total_tasks - 1))

Stored ==
    AsyncScenario(EachOfTwo(Launch, Get, total_tasks))

FuturesVector == AsyncScenario(StartAll \o Each(Get, total_tasks))

(* The benchmarks of std::async. *)
BM_Async_Discarding == Discarded
BM_Async_Reusing == Reuse
BM_Async_Parallel == FuturesVector
BM_AsyncPerRow == AsyncScenario(StartAll \o Each(Wait, total_tasks))

(* chapter_07/program_07: a permit is taken for each task before it starts. *)
Limited ==
    AsyncScenario(EachOfTwo(LAMBDA i : Acquire, Launch, total_tasks)
                    \o Each(Get, total_tasks))

Code ==
    [ pipeline |-> Pipeline, deferred |-> DeferredPipeline, chain |-> Chain,
      combine |-> Combine, thrown |-> Thrown, one_by_one |-> OneByOne,
      shared |-> SharedFuture, packaged |-> Packaged, reset |-> Reset,
      invocations |-> Invocations, arguments |-> Arguments, policies |-> Policies,
      nested |-> Nested, map |-> Map, average |-> average_squares,
      matrix |-> matrix_multiply, containers |-> Containers, search |-> Search,
      discarded |-> Discarded, reuse |-> Reuse, stored |-> Stored,
      vector |-> FuturesVector, limited |-> Limited,
      bm_discarding |-> BM_Async_Discarding, bm_reusing |-> BM_Async_Reusing,
      bm_parallel |-> BM_Async_Parallel, bm_per_row |-> BM_AsyncPerRow ]

ASSUME ProgramsAssumption == Programs \subseteq DOMAIN Code
-----------------------------------------------------------------------------
VARIABLES program,
          future,   \* of each task: "none", "deferred", "pending", "value", "exception"
          result,   \* what the task's function has ended with
          calls,    \* how many times the function has been run
          stack,    \* of each thread, the bodies it is in, and where in them
          permits,  \* of the semaphore
          guards,   \* who holds a MovableSemaphoreGuard that is not empty
          caught    \* main has caught an exception

vars == <<program, future, result, calls, stack, permits, guards, caught>>

Tasks == DOMAIN Code[program].bodies
Threads == Tasks \cup {Main}
Policy(t) == Code[program].policy[t]
Body(b) == IF b = Main THEN Code[program].main ELSE Code[program].bodies[b]

Frame(b, n) == [body |-> b, at |-> n]
Running(th) == stack[th] # << >>
Top(th) == Last(stack[th])

(* The places of a body after its last statement. *)
Returning(b) == Len(Body(b)) + 1
Finishing(b) == Len(Body(b)) + 2
Leaving(b)   == Len(Body(b)) + 3

Init ==
    /\ program \in Programs
    /\ future = [t \in Tasks |-> IF Policy(t) \in {"called", "promise"} THEN "pending"
                                ELSE "none"]
    /\ result = [t \in Tasks |-> "none"]
    /\ calls = [t \in Tasks |-> 0]
    /\ stack = [th \in Threads |-> IF th = Main THEN << Frame(Main, 1) >> ELSE << >>]
    /\ permits = max_concurrent_tasks
    /\ guards = {}
    /\ caught = FALSE

Ready(t) == future[t] \in {"value", "exception"}

IsAt(th, do, t) ==
    Running(th) /\ Top(th).at < Returning(Top(th).body)
      /\ Body(Top(th).body)[Top(th).at] = Statement(do, t)

(* The stack of th with its top frame at n. *)
At(th, n) == [stack[th] EXCEPT ![Len(stack[th])].at = n]
Continued(th) == At(th, Top(th).at + 1)

(* std::async(std::launch::async, ...) or the constructor of a jthread; a   *)
(* guard of main's is moved into the task.                                  *)
StartTask(th, t) ==
    /\ IsAt(th, "launch", t) /\ Policy(t) \in {"async", "default"}
    /\ stack' = [stack EXCEPT ![th] = Continued(th), ![t] = << Frame(t, 1) >>]
    /\ future' = [future EXCEPT ![t] = "pending"]
    /\ guards' = IF Main \in guards THEN {t} \cup (guards \ {Main}) ELSE guards
    /\ UNCHANGED <<program, result, calls, permits, caught>>

(* std::async(std::launch::deferred, ...), or what the default may be.      *)
DeferTask(th, t) ==
    /\ IsAt(th, "launch", t) /\ Policy(t) \in {"deferred", "default"}
    /\ stack' = [stack EXCEPT ![th] = Continued(th)]
    /\ future' = [future EXCEPT ![t] = "deferred"]
    /\ UNCHANGED <<program, result, calls, permits, guards, caught>>

(* get() of a deferred future runs its function on this thread.             *)
RunDeferred(th, t) ==
    /\ IsAt(th, "get", t) /\ future[t] = "deferred"
    /\ stack' = [stack EXCEPT ![th] = Append(@, Frame(t, 1))]
    /\ future' = [future EXCEPT ![t] = "pending"]
    /\ UNCHANGED <<program, result, calls, permits, guards, caught>>

(* task() by main *)
CallTask(th, t) ==
    /\ IsAt(th, "call", t)
    /\ stack' = [stack EXCEPT ![th] = Append(Continued(th), Frame(t, 1))]
    /\ UNCHANGED <<program, future, result, calls, permits, guards, caught>>

GetValue(th, t) ==
    /\ IsAt(th, "get", t) /\ future[t] = "value"
    /\ stack' = [stack EXCEPT ![th] = Continued(th)]
    /\ UNCHANGED <<program, future, result, calls, permits, guards, caught>>

(* get() rethrows: main's handler, or the end of the task's function, with  *)
(* that exception.                                                          *)
GetException(th, t) ==
    /\ IsAt(th, "get", t) /\ future[t] = "exception"
    /\ LET b == Top(th).body IN
       /\ stack' = [stack EXCEPT ![th] = At(th, Finishing(b))]
       /\ IF b = Main THEN caught' = TRUE /\ UNCHANGED result
          ELSE UNCHANGED caught /\ result' = [result EXCEPT ![b] = "exception"]
    /\ UNCHANGED <<program, future, calls, permits, guards>>

(* if ( fut.get() ) { found = true; break; } *)
GetAndFind(th, t) ==
    /\ IsAt(th, "find", t) /\ future[t] = "value"
    /\ \/ stack' = [stack EXCEPT ![th] = Continued(th)]
       \/ stack' = [stack EXCEPT ![th] = At(th, Returning(Top(th).body))]
    /\ UNCHANGED <<program, future, result, calls, permits, guards, caught>>

WaitReady(th, t) ==
    /\ IsAt(th, "wait", t) /\ Ready(t)
    /\ stack' = [stack EXCEPT ![th] = Continued(th)]
    /\ UNCHANGED <<program, future, result, calls, permits, guards, caught>>

SetPromise(th, t) ==
    /\ IsAt(th, "set", t)
    /\ future' = [future EXCEPT ![t] = "value"]
    /\ stack' = [stack EXCEPT ![th] = Continued(th)]
    /\ UNCHANGED <<program, result, calls, permits, guards, caught>>

(* MovableSemaphoreGuard guard(sem) *)
AcquireGuard(th) ==
    /\ IsAt(th, "acquire", Main) /\ permits > 0
    /\ permits' = permits - 1
    /\ guards' = guards \cup {Main}
    /\ stack' = [stack EXCEPT ![th] = Continued(th)]
    /\ UNCHANGED <<program, future, result, calls, caught>>

(* The function of t ends, and what it held of the semaphore goes back.     *)
Return(th, t, back) ==
    /\ calls' = [calls EXCEPT ![t] = @ + 1]
    /\ result' = [result EXCEPT ![t] = IF t \in Code[program].throws THEN "exception"
                                       ELSE "value"]
    /\ permits' = IF t \in guards THEN permits + back ELSE permits
    /\ guards' = guards \ {t}
    /\ stack' = [stack EXCEPT ![th] = At(th, Finishing(t))]
    /\ UNCHANGED <<program, future, caught>>

(* Mutant: the function starts without waiting for all it depends on. *)
FunctionTooEarly(th, t) ==
    /\ Running(th) /\ Top(th).body = t /\ t # Main
    /\ Top(th).at \in {Len(Body(t)), Returning(t)}
    /\ Return(th, t, 1)

(* Mutant: the guard that was moved from releases the semaphore too. *)
FunctionReleasesTwice(th, t) ==
    /\ Running(th) /\ Top(th) = Frame(t, Returning(t)) /\ t # Main
    /\ Return(th, t, 2)

(* The function proper, once it has all the values: it returns or throws,   *)
(* and the guard it was given is destroyed.                                 *)
Function(th, t) ==
    /\ Running(th) /\ Top(th) = Frame(t, Returning(t)) /\ t # Main
    /\ Return(th, t, 1)

(* Mutant: an exception is dropped, and the future is ready all the same. *)
MakeReadyDropping(th, t) ==
    /\ Running(th) /\ Top(th) = Frame(t, Finishing(t)) /\ t # Main
    /\ future' = [future EXCEPT ![t] = "value"]
    /\ stack' = [stack EXCEPT ![th] = At(th, Leaving(t))]
    /\ UNCHANGED <<program, result, calls, permits, guards, caught>>

(* The result is stored and the future is ready. *)
MakeReady(th, t) ==
    /\ Running(th) /\ Top(th) = Frame(t, Finishing(t)) /\ t # Main
    /\ future' = [future EXCEPT ![t] = result[t]]
    /\ stack' = [stack EXCEPT ![th] = At(th, Leaving(t))]
    /\ UNCHANGED <<program, result, calls, permits, guards, caught>>

(* The end of a scope joins the threads that it has started: destructors of *)
(* jthreads and of futures that come from std::async.                       *)
Leave(th) ==
    /\ Running(th)
    /\ LET b == Top(th).body IN
       /\ Top(th).at \in IF b = Main THEN {Returning(Main), Finishing(Main)}
                         ELSE {Leaving(b)}
       /\ \A t \in Tasks : Launch(t) \in ToSet(Body(b)) => ~ Running(t)
    /\ stack' = [stack EXCEPT ![th] = Front(@)]
    /\ UNCHANGED <<program, future, result, calls, permits, guards, caught>>

Ended == \A th \in Threads : ~ Running(th)
AllDone == Ended /\ UNCHANGED vars

MaxTasks == 5 + total_tasks

Step(th) ==
    /\ th \in Threads
    /\ \/ \E t \in Tasks :
            \/ StartTask(th, t) \/ DeferTask(th, t) \/ RunDeferred(th, t) \/ CallTask(th, t)
            \/ GetValue(th, t) \/ GetException(th, t) \/ GetAndFind(th, t)
            \/ WaitReady(th, t) \/ SetPromise(th, t)
            \/ Function(th, t) \/ MakeReady(th, t)
       \/ AcquireGuard(th)
       \/ Leave(th)

Next == (\E th \in 0 .. MaxTasks : Step(th)) \/ AllDone

(* Every thread that can run does. *)
Spec == Init /\ [][Next]_vars /\ \A th \in 0 .. MaxTasks : WF_vars(Step(th))
-----------------------------------------------------------------------------
Gets(b) == {t \in Tasks : \E i \in DOMAIN Body(b) : Body(b)[i] = Get(t)}

TypeOK ==
    /\ program \in Programs
    /\ future \in [Tasks -> {"none", "deferred", "pending", "value", "exception"}]
    /\ result \in [Tasks -> {"none", "value", "exception"}]
    /\ calls \in [Tasks -> Nat]
    /\ \A th \in Threads : \A i \in DOMAIN stack[th] :
         stack[th][i].body \in Threads /\ stack[th][i].at \in 1 .. Leaving(stack[th][i].body)
    /\ permits \in Nat
    /\ guards \subseteq Threads
    /\ caught \in BOOLEAN

(* The function of a task is run at most once, however many tasks share its *)
(* future and whichever thread gets it first, and only when each future it  *)
(* depends on has a value: it never runs before, and never after a failure. *)
DependenciesFirst ==
    [][\A t \in Tasks : calls'[t] # calls[t] =>
          /\ calls[t] = 0 /\ calls'[t] = 1
          /\ \A d \in Gets(t) : future[d] = "value" /\ calls[d] \in 0 .. 1]_vars

(* No more functions hold a permit than the semaphore had, a permit is held *)
(* by one guard through its moves, and each is given back once.             *)
PermitsBoundTasks ==
    /\ permits + Cardinality(guards) = max_concurrent_tasks
    /\ program = "limited" =>
         \A t \in Tasks : Running(t) /\ Top(t).at <= Returning(t) => t \in guards

(* A future holds a value only if all that its task has got did, it holds an *)
(* exception only if the task threw it or got it, and main catches one just  *)
(* if some function threw: a failure is neither dropped on its way through   *)
(* the futures nor made up.                                                  *)
FailuresPropagate ==
    /\ \A t \in Tasks :
         /\ future[t] = "value" => \A d \in Gets(t) : future[d] = "value"
         /\ future[t] = "exception" =>
              calls[t] = 1 \/ \E d \in Gets(t) : future[d] = "exception"
    /\ Ended => (caught <=> \E t \in Tasks : calls[t] = 1 /\ result[t] = "exception")

(* Every main() ends, and whatever it has started has been run by then: a   *)
(* function is left out only if it depends on one that failed, or was       *)
(* deferred and its future is never got, as fut1 of chapter_07/program_02.  *)
LeftOut(t) ==
    \/ Policy(t) = "promise"
    \/ \E d \in Gets(t) : future[d] = "exception"
    \/ program = "arguments" /\ t = 1 /\ future[t] = "deferred"
Terminates == <>(Ended /\ \A t \in Tasks : calls[t] = 1 \/ LeftOut(t))
=============================================================================
