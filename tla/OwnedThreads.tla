---------------------------- MODULE OwnedThreads ----------------------------
(***************************************************************************)
(* The programs whose threads share little but the objects that own them:  *)
(* chapter 3 with its tests, the first benchmark, the cancellation of      *)
(* chapter 6 and the coroutine of chapter 8 that goes on in a thread of    *)
(* its own.  Thread 1 is main(), and thread t starts with Begin(t) when    *)
(* t - 1 threads have been started.  Module Synchronizers runs them.       *)
(***************************************************************************)
EXTENDS Statements

CONSTANTS NUM_THREADS,          \* of each kind, where the number is no matter
          ROUNDS                \* of a loop whose length is no matter

JoinAll(k) == ForEach(k, LAMBDA i : JoinThread(i + 1))

(* chapter_03/program_3_01 and its tests: a function, a function object, a  *)
(* lambda function, another one, a member function, a static one.           *)
Function == << "func", "FuncObjectClass", "lambda_func", "embedded_lambda",
               "Obj::func", "Obj::static_func" >>

Creation == ForEach(6, LAMBDA i : << Begin(i + 1), Output(Function[i]) >>)

VariousThreads ==
    ForEach(7, LAMBDA t :
        IF t = 1 THEN Times(6, <<Start>>) \o JoinAll(6) \o << Read("oss") >>
        ELSE Creation[t - 1])

run_threads ==
    ForEach(7, LAMBDA t :
        IF t = 1
        THEN <<Store("counter", 0)>> \o Times(6, <<Start>>) \o JoinAll(6)
               \o << Load("counter") >>
        ELSE << Begin(t), FetchAdd("counter") >>)

(* chapter_03/program_3_07: one thread after another, the third of which    *)
(* has a reference to v and the fourth what was moved out of it.            *)
modifyValues == << Write("str2", 1), Read("val"), WriteNext("val") >>

Arguments ==
    ForEach(6, LAMBDA t :
        CASE t = 1 -> << Start, JoinThread(2),
                         Start, JoinThread(3), Read("str2"), Read("val"),
                         Start, JoinThread(4),
                         Write("v", 1), Start, JoinThread(5),
                         Start, JoinThread(6) >>
          [] t = 3 -> <<Begin(t)>> \o modifyValues
          [] t = 4 -> << Begin(t), Read("v") >>
          [] t = 6 -> << Begin(t), Read("str5") >>
          [] OTHER -> << Begin(t) >>)

(* chapter_03/program_3_08 *)
funcWithMutex == << Lock("mtx"), Write("result", 3), Unlock("mtx") >>

Results ==
    ForEach(4, LAMBDA t :
        CASE t = 1 -> << Start, JoinThread(2), Read("result"),
                         Start, JoinThread(3), Read("result"),
                         Start, JoinThread(4), Read("result") >>
          [] t = 4 -> <<Begin(t)>> \o funcWithMutex
          [] OTHER -> << Begin(t), Write("result", t - 1) >>)

(* chapter_03/program_3_11.  The timeout is what it has been counted down   *)
(* by; the daemon goes on until it has found 3, which was 0.                *)
daemonThread == << Begin(2), Read("timeout"), WriteNext("timeout"), GoUnless(3, 2) >>

Detached ==
    ForEach(2, LAMBDA t : IF t = 1 THEN << Start, Read("timeout") >> ELSE daemonThread)

(* chapter_03/program_3_13: main() destroys the wrappers in reverse, each   *)
(* of which destroys its name before it joins its thread.                   *)
Name == << "t1", "t2", "t3" >>

JthreadWrapper(i) == << Start, Write(Name[i], 1), Read(Name[i]) >>
JthreadWrapperDestructor(i) == << Read(Name[i]), Destroy(Name[i]), JoinThread(i + 1) >>

Wrappers ==
    ForEach(4, LAMBDA t :
        IF t = 1
        THEN JthreadWrapper(1) \o JthreadWrapper(2) \o JthreadWrapper(3)
               \o JthreadWrapperDestructor(3) \o JthreadWrapperDestructor(2)
               \o JthreadWrapperDestructor(1)
        ELSE << Begin(t) >>)

(* chapter_03/program_3_14: main() joins two threads that never end.        *)
work(t) == << Begin(t), Draw, GoUnless(1, 2),
              Lock("mtx"), Unlock("mtx"), Go(2) >>

Endless ==
    ForEach(3, LAMBDA t :
        IF t = 1 THEN << Start, Start, JoinThread(3), JoinThread(2) >> ELSE work(t))

(* chapter_03/program_3_15: the callback ends with the statement that has   *)
(* made the counter; running is destroyed before t, which joins the thread. *)
Counter == << Store("running", 1), Start, Destroy("callback") >>
CounterThread == << Begin(2), Load("running"), GoUnless(1, 6), Read("callback"), Go(2) >>
CounterStop == << Store("running", 0) >>

OwnedByCounter ==
    ForEach(2, LAMBDA t :
        IF t = 1 THEN Counter \o CounterStop \o << Destroy("running"), JoinThread(2) >>
        ELSE CounterThread)

(* chapter_03/program_3_16: the stop callback is there before the request.  *)
func_with_stop_token ==
    << Begin(2), Draw, GoUnless(1, 7), Load("stop_state"), GoUnless(1, 2),
       Output("stopping") >>

StopToken ==
    ForEach(2, LAMBDA t :
        IF t = 1 THEN << Start, Load("stop_state"), Register("callback"),
                         RequestStop("callback"), JoinThread(2), Load("stop_state") >>
        ELSE func_with_stop_token)

(* chapter_03/program_3_16b: a callback that is gone when the stopper asks, *)
(* and one that comes after that.                                           *)
stopper == << Begin(3), RequestStop("scoped_callback") >>

StopSource ==
    ForEach(3, LAMBDA t :
        CASE t = 1 -> << Start, Load("stop_state"),
                         Register("scoped_callback"), Unregister("scoped_callback"),
                         Start, JoinThread(3), Load("stop_state"),
                         Register("callback_after_stop"),
                         Unregister("callback_after_stop"), JoinThread(2) >>
          [] t = 2 -> func_with_stop_token
          [] t = 3 -> stopper)

(* chapter_03/program_3_18: each thread has a val of its own.               *)
Val == << "val[main]", "val[t1]", "val[t2]", "val[t3]" >>
multiplyByTwo(t) == << Write(Val[t], t - 1), Read(Val[t]), WriteSum(Val[t]), Read(Val[t]) >>

ThreadLocal ==
    ForEach(4, LAMBDA t :
        IF t = 1
        THEN <<Write(Val[1], 1)>> \o Times(3, <<Start>>) \o JoinAll(3)
               \o << Read(Val[1]) >>
        ELSE <<Begin(t)>> \o multiplyByTwo(t))

(* chapter_03/program_3_19: the callback and the interval end with the      *)
(* constructor; val is destroyed before t, which joins the thread.  How far *)
(* val has got is left out.                                                 *)
Timer == << Start, Destroy("interval"), Destroy("callback") >>
TimerThread ==
    << Begin(2), Load("stop_state"), GoUnless(0, 9), Load("val"), Store("val", 1),
       Read("callback"), Read("interval"), Go(2) >>
TimerStop == << Store("stop_state", 1) >>

OwnedByTimer ==
    ForEach(2, LAMBDA t :
        IF t = 1 THEN Timer \o TimerStop \o << Destroy("val"), JoinThread(2) >>
        ELSE TimerThread)

(* chapter_06/program_09: a task looks for the cancellation from time to    *)
(* time, and once more for its result.                                      *)
Result == << "result1", "result2" >>
Ready  == << "ready1", "ready2" >>

long_running_task(i) ==
    << Begin(i + 1), Draw, GoUnless(1, 7),
       Load("cancellation_token"), GoUnless(1, 2), Output("cancelled"),
       Load("cancellation_token"), WriteSum(Result[i]), Arrive(Ready[i], 1) >>

Cancellation ==
    ForEach(3, LAMBDA t :
        IF t = 1 THEN << Start, Start, Store("cancellation_token", 1),
                         AwaitLatch(Ready[1], 1), Read(Result[1]),
                         AwaitLatch(Ready[2], 1), ReadAndAdd(Result[2]),
                         JoinThread(3), JoinThread(2) >>
        ELSE long_running_task(t - 1))

(* chapter_08/program_03_a: the coroutine goes on in a new thread, and its  *)
(* frame ends there, while main() is still in await_suspend().              *)
await_suspend == << Read("frame"), Read("out"), Start, Write("out", 1), Read("out") >>
resume == << Begin(2), Read("frame"), Destroy("frame") >>

NewThread ==
    ForEach(2, LAMBDA t :
        IF t = 1 THEN <<Write("frame", 1)>> \o await_suspend \o << JoinThread(2) >>
        ELSE resume)

(* benchmarks/01_atomic_mutex: the first thread clears the counter before   *)
(* all of them start.                                                       *)
StartTogether == << Arrive("start", NUM_THREADS), AwaitPhase("start", NUM_THREADS) >>

BM_MutexContention ==
    ForEach(NUM_THREADS, LAMBDA t :
        (IF t = 1 THEN << Write("counter", 0) >> ELSE << >>) \o StartTogether
          \o Times(ROUNDS, << Lock("mtx"), Read("counter"), WriteNext("counter"),
                              Unlock("mtx") >>))

BM_AtomicContention ==
    ForEach(NUM_THREADS, LAMBDA t :
        (IF t = 1 THEN << Store("counter", 0) >> ELSE << >>) \o StartTogether
          \o Times(ROUNDS, << FetchAdd("counter") >>))
=============================================================================
