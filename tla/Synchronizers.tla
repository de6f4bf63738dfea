--------------------------- MODULE Synchronizers ---------------------------
(***************************************************************************)
(* Programs whose threads meet at mutexes, shared and timed mutexes,       *)
(* condition variables, latches, barriers, once_flags and void promises:   *)
(* chapter 4, some of chapters 3 and 6, and two of the leetcode problems.  *)
(* The programs of OwnedThreads are run here too.                          *)
(*                                                                         *)
(* A thread is a sequence of statements, each of which is one step, and    *)
(* `program`, chosen at the start, says which main() is run.  The plain    *)
(* objects that threads share are read and written in steps of their own,  *)
(* so that a data race is a state in which two threads are both about to   *)
(* access an object.                                                       *)
(***************************************************************************)
EXTENDS OwnedThreads, FiniteSets, CondVar

CONSTANTS Programs,             \* the mains to run, among DOMAIN Code
          INCREMENTS, TARGET,   \* of chapter_04/program_10: 20 and 10
          n                     \* of FizzBuzz

ASSUME SizesAssumption ==
    /\ NUM_THREADS \in 1 .. 5 /\ ROUNDS \in Nat \ {0}
    /\ INCREMENTS \in Nat /\ TARGET \in 1 .. INCREMENTS /\ n \in Nat
-----------------------------------------------------------------------------
(* chapter_04/program_02b *)
job == << TryLockFor("mutex", 5), Output("success"), Unlock("mutex"), Go(6),
          Output("failed") >>

TimedMutex == ForEach(4, LAMBDA i : job)

(* chapter_04/program_05 *)
thread_function ==
    << CallOnce("run_once_flag", 4), Output("once"), Returned("run_once_flag"),
       Output("common") >>

thread_function_1(throw_exception) ==
    IF throw_exception
    THEN << CallOnce("flag", 5), Output("throwing"), Thrown("flag", 4), Output("caught") >>
    ELSE << CallOnce("flag", 4), Output("no_exception"), Returned("flag") >>

RunOnce == ForEach(3, LAMBDA i : thread_function)
RunOnceExceptions == ForEach(3, LAMBDA i : thread_function_1(i < 3))

(* chapter_04/program_07a and 07b; doubling a slice writes 1 to it. *)
Slice == << "numbers[1]", "numbers[2]", "numbers[3]" >>
Sum   == << "sum[1]", "sum[2]", "sum[3]" >>

map_thread(i) == << Write(Slice[i], 1), Arrive("map_latch", 3) >>

(* Mutant: the latch is not waited for. *)
ReduceAtOnce ==
    << Read(Slice[1]), ReadAndAdd(Slice[2]), ReadAndAdd(Slice[3]),
       WriteSum("sum"), Arrive("reduce_latch", 1) >>

reduce_thread ==
    << AwaitLatch("map_latch", 3),
       Read(Slice[1]), ReadAndAdd(Slice[2]), ReadAndAdd(Slice[3]),
       WriteSum("sum"), Arrive("reduce_latch", 1) >>

Latches ==
    ForEach(5, LAMBDA i :
        CASE i <= 3 -> map_thread(i)
          [] i = 4 -> reduce_thread
          [] i = 5 -> << AwaitLatch("reduce_latch", 1), Read("sum") >>)

worker_thread(i) ==
    << Write(Slice[i], 1), Arrive("map_barrier", 3), AwaitPhase("map_barrier", 3),
       Read(Sum[i]), ReadAndAdd(Slice[i]), WriteSum(Sum[i]),
       Arrive("map_barrier", 3) >>

Barriers ==
    ForEach(4, LAMBDA i :
        IF i <= 3 THEN worker_thread(i)
        ELSE << Join, Read(Sum[1]), ReadAndAdd(Sum[2]), ReadAndAdd(Sum[3]) >>)

(* chapter_04/program_08 *)
reader == Times(ROUNDS, << LockShared("mutex"), Read("counter"), UnlockShared("mutex") >>)
writer == Times(ROUNDS, << Lock("mutex"), Read("counter"), WriteNext("counter"),
                           Read("counter"), Unlock("mutex") >>)

ReadersAndWriters ==
    ForEach(NUM_THREADS + 2, LAMBDA i : IF i <= NUM_THREADS THEN reader ELSE writer)

(* chapter_04/program_10.  It prints the counter without the mutex.  The    *)
(* thread that would wait for cv is commented out.                          *)
increment_counter ==
    Times(INCREMENTS, << Lock("mtx"), Read("counter"), WriteNext("counter"),
                         Unlock("mtx") >>)

wait_for_counter_10_sleep ==
    << Lock("mtx"), Read("counter"), GoUnless(TARGET, 7),
       Unlock("mtx"), Read("counter"), Go(9),
       Unlock("mtx"), Go(1) >>

Polling ==
    ForEach(2, LAMBDA i : IF i = 1 THEN wait_for_counter_10_sleep ELSE increment_counter)

(* chapter_06/program_05b *)
WaitForReady ==
    ForEach(NUM_THREADS + 1, LAMBDA i :
        IF i <= NUM_THREADS
        THEN << Lock("mtx"), WaitUntil("mtx", "ready", 1), Read("shared_data"),
                Unlock("mtx") >>
        ELSE << Lock("mtx"), Write("shared_data", 5), Write("ready", 1), Unlock("mtx"),
                NotifyEverybody >>)

(* chapter_06/program_03: the numbers are read (1), sorted (2) and, if they *)
(* have been printed, cleared (0).                                          *)
input_data_thread ==
    << Write("numbers", 1), Arrive("numbers_ready", 1),
       Write("letters", 1), Arrive("letters_ready", 1) >>

print_in_time ==
    << AwaitLatch("numbers_ready", 1), Write("numbers", 2),
       WaitFor("letters_ready", 5), Go(8),
       Read("numbers"), Output("numbers"), Write("numbers", 0),
       AwaitLatch("letters_ready", 1),
       Read("numbers"), GoUnless(2, 12), Output("numbers"), Read("letters") >>

TwoPromises ==
    ForEach(2, LAMBDA i : IF i = 1 THEN input_data_thread ELSE print_in_time)

(* chapter_03/program_3_17: the loop reads captured_exception without mtx.  *)
CapturedException ==
    ForEach(2, LAMBDA i :
        IF i = 1 THEN << Lock("mtx"), Write("captured_exception", 1), Unlock("mtx") >>
        ELSE << Read("captured_exception"), GoUnless(1, 1), Read("captured_exception"),
                Join >>)

(* leetcode/02_fizz_buzz: each thread has a turn at each i. *)
divisible_by_3(i) == i % 3 = 0                             \* mutant
fizz_condition(i) == i % 3 = 0 /\ i % 5 # 0
fizzbuzz_loop(what, turns) ==
    ForEach(3 * n, LAMBDA place :
        LET i == ((place - 1) \div 3) + 1 IN
        CASE place % 3 = 1 -> IF i \in turns THEN Callback(what, i) ELSE Go(place + 1)
          [] place % 3 = 2 -> Arrive("bar", 4)
          [] place % 3 = 0 -> AwaitPhase("bar", 4))

FizzBuzz ==
    ForEach(4, LAMBDA t :
        CASE t = 1 -> fizzbuzz_loop("fizz", {i \in 1 .. n : fizz_condition(i)})
          [] t = 2 -> fizzbuzz_loop("buzz", {i \in 1 .. n : i % 3 # 0 /\ i % 5 = 0})
          [] t = 3 -> fizzbuzz_loop("fizzbuzz", {i \in 1 .. n : i % 3 = 0 /\ i % 5 = 0})
          [] t = 4 -> fizzbuzz_loop("number", {i \in 1 .. n : i % 3 # 0 /\ i % 5 # 0}))

(* leetcode/03_dining_philosophers, its two solutions.  A fork is held (1)  *)
(* between its pick and its put.                                            *)
Fork == << "fork[0]", "fork[1]", "fork[2]", "fork[3]", "fork[4]" >>
Mtx  == << "mtx[0]", "mtx[1]", "mtx[2]", "mtx[3]", "mtx[4]" >>
Left(s, p)  == s[p + 1]
Right(s, p) == s[((p + 1) % 5) + 1]

PickForks(p) == << Write(Left(Fork, p), 1), Write(Right(Fork, p), 1) >>
PutForks(p)  == << Write(Left(Fork, p), 0), Write(Right(Fork, p), 0) >>

wantsToEat(p) ==
    << Lock("mtx"), WaitUntil("mtx", "id", p) >>
      \o PickForks(p) \o << Callback("eat", p) >> \o PutForks(p)
      \o << Read("id"), WriteNextModulo("id", 5), NotifyEverybody, Unlock("mtx") >>

(* Philosophers who are no neighbours eat at once: who eats is not recorded.*)
wantsToEat2(p) ==
    << LockBoth(Left(Mtx, p), Right(Mtx, p)) >>
      \o PickForks(p) \o << Output("eat") >> \o PutForks(p)
      \o << Unlock(Left(Mtx, p)), Unlock(Right(Mtx, p)) >>

DiningByTurns == ForEach(5, LAMBDA i : Times(ROUNDS, wantsToEat(i - 1)))
DiningByForks == ForEach(5, LAMBDA i : Times(ROUNDS, wantsToEat2(i - 1)))

(* The threads that each main() has. *)
Code ==
    [ timed_mutex |-> TimedMutex,   run_once |-> RunOnce,
      run_once_exceptions |-> RunOnceExceptions,
      latches |-> Latches,          barriers |-> Barriers,
      shared_mutex |-> ReadersAndWriters,
      polling |-> Polling,          ready |-> WaitForReady,
      two_promises |-> TwoPromises, captured_exception |-> CapturedException,
      fizz_buzz |-> FizzBuzz,       dining_by_turns |-> DiningByTurns,
      dining_by_forks |-> DiningByForks,
      creation |-> VariousThreads,
      counter_test |-> run_threads, arguments |-> Arguments,
      results |-> Results,          detached |-> Detached,
      wrappers |-> Wrappers,        endless |-> Endless,
      counter |-> OwnedByCounter,   timer |-> OwnedByTimer,
      stop_token |-> StopToken,     stop_source |-> StopSource,
      thread_local |-> ThreadLocal, cancellation |-> Cancellation,
      new_thread |-> NewThread,
      mutex_contention |-> BM_MutexContention,
      atomic_contention |-> BM_AtomicContention ]

ASSUME ProgramsAssumption == Programs \subseteq DOMAIN Code
-----------------------------------------------------------------------------
VARIABLES program,
          pc,
          register,  \* of each thread, what it last read or awaits
          value,     \* of each object: data, a count, or a once_flag
          owner,     \* of each mutex, the threads that hold it exclusively
          sharers,   \* of each mutex, those that share it
          cv,        \* the threads blocked in cv.wait()
          dead,      \* the objects whose lifetime is over
          printed    \* what the main has printed

vars == <<program, pc, register, value, owner, sharers, cv, dead, printed>>

Threads == DOMAIN Code[program]
ObjectsOf(p) == UNION {{Code[p][t][i].object : i \in DOMAIN Code[p][t]} :
                          t \in DOMAIN Code[p]}

Init ==
    /\ program \in Programs
    /\ pc = [t \in Threads |-> 1]
    /\ register = [t \in Threads |-> 0]
    /\ value = [o \in ObjectsOf(program) |-> 0]
    /\ owner = [o \in ObjectsOf(program) |-> {}]
    /\ sharers = [o \in ObjectsOf(program) |-> {}]
    /\ cv = {}
    /\ dead = {}
    /\ printed = << >>

AtEnd(t) == pc[t] > Len(Code[program][t])
Current(t) == Code[program][t][pc[t]]
IsAt(t, ops) == ~ AtEnd(t) /\ Current(t).op \in ops
Advance(t) == pc' = [pc EXCEPT ![t] = @ + 1]
GoTo(t, place) == pc' = [pc EXCEPT ![t] = place]

Free(m) == owner[m] = {} /\ sharers[m] = {}

(* lock(), or try_lock_for() in time *)
DoLock(t) ==
    /\ IsAt(t, {"lock", "try_lock_for"}) /\ Free(Current(t).object)
    /\ owner' = [owner EXCEPT ![Current(t).object] = {t}]
    /\ Advance(t)
    /\ UNCHANGED <<program, register, value, sharers, cv, dead, printed>>

(* std::scoped_lock waits for one of its mutexes, either of them, and then  *)
(* tries the other one: if that is taken, it gives the first one back and   *)
(* begins again.                                                            *)
Both(t) == {Current(t).object, Current(t).value}

LockOne(t) ==
    /\ IsAt(t, {"lock_both"}) /\ \A m \in Both(t) : t \notin owner[m]
    /\ \E m \in Both(t) : Free(m) /\ owner' = [owner EXCEPT ![m] = {t}]
    /\ UNCHANGED <<program, pc, register, value, sharers, cv, dead, printed>>

LockOther(t) ==
    /\ IsAt(t, {"lock_both"}) /\ \E m \in Both(t) : t \in owner[m]
    /\ \E m \in Both(t) : Free(m) /\ owner' = [owner EXCEPT ![m] = {t}]
    /\ Advance(t)
    /\ UNCHANGED <<program, register, value, sharers, cv, dead, printed>>

(* Mutant: the first one is kept, as by two lock_guards. *)
KeepFirst(t) ==
    /\ IsAt(t, {"lock_both"}) /\ \A m \in Both(t) : ~ Free(m)
    /\ \E m \in Both(t) : t \in owner[m]
    /\ UNCHANGED vars

BackOff(t) ==
    /\ IsAt(t, {"lock_both"}) /\ \A m \in Both(t) : ~ Free(m)
    /\ \E m \in Both(t) : t \in owner[m] /\ owner' = [owner EXCEPT ![m] = {}]
    /\ UNCHANGED <<program, pc, register, value, sharers, cv, dead, printed>>

DoLockShared(t) ==
    /\ IsAt(t, {"lock_shared"}) /\ owner[Current(t).object] = {}
    /\ sharers' = [sharers EXCEPT ![Current(t).object] = @ \cup {t}]
    /\ Advance(t)
    /\ UNCHANGED <<program, register, value, owner, cv, dead, printed>>

(* The mutex is held when the time is over: the implementations do not fail *)
(* without that, which the C++ standard would allow.                        *)
TimeOutLock(t) ==
    /\ IsAt(t, {"try_lock_for"}) /\ ~ Free(Current(t).object)
    /\ GoTo(t, Current(t).target)
    /\ UNCHANGED <<program, register, value, owner, sharers, cv, dead, printed>>

DoUnlock(t) ==
    /\ IsAt(t, {"unlock", "unlock_shared"})
    /\ owner' = [owner EXCEPT ![Current(t).object] = @ \ {t}]
    /\ sharers' = [sharers EXCEPT ![Current(t).object] = @ \ {t}]
    /\ Advance(t)
    /\ UNCHANGED <<program, register, value, cv, dead, printed>>

(* cv.wait() with a true predicate *)
WaitSatisfied(t) ==
    /\ IsAt(t, {"wait_until"}) /\ t \in owner[Current(t).target]
    /\ value[Current(t).object] = Current(t).value
    /\ Advance(t)
    /\ UNCHANGED <<program, register, value, owner, sharers, cv, dead, printed>>

(* cv.wait() with a false one *)
Wait(t) ==
    /\ IsAt(t, {"wait_until"}) /\ t \in owner[Current(t).target]
    /\ value[Current(t).object] # Current(t).value
    /\ owner' = [owner EXCEPT ![Current(t).target] = {}]
    /\ cv' = cv \cup {t}
    /\ UNCHANGED <<program, pc, register, value, sharers, dead, printed>>

Relock(t) ==
    /\ IsAt(t, {"wait_until"}) /\ t \notin cv /\ Free(Current(t).target)
    /\ owner' = [owner EXCEPT ![Current(t).target] = {t}]
    /\ UNCHANGED <<program, pc, register, value, sharers, cv, dead, printed>>

DoNotifyAll(t) ==
    /\ IsAt(t, {"notify_all"})
    /\ cv' = NotifyAll(cv)
    /\ Advance(t)
    /\ UNCHANGED <<program, register, value, owner, sharers, dead, printed>>

SpuriousWakeup(t) ==
    /\ t \in cv
    /\ cv' = cv \ {t}
    /\ UNCHANGED <<program, pc, register, value, owner, sharers, dead, printed>>
-----------------------------------------------------------------------------
(* A once_flag: 0 at first, 1 while a function runs, 2 when one has         *)
(* returned.  A call_once() meanwhile waits, one after that skips.          *)
DoCallOnce(t) ==
    /\ IsAt(t, {"call_once"}) /\ value[Current(t).object] # 1
    /\ IF value[Current(t).object] = 0
       THEN value' = [value EXCEPT ![Current(t).object] = 1] /\ Advance(t)
       ELSE UNCHANGED value /\ GoTo(t, Current(t).target)
    /\ UNCHANGED <<program, register, owner, sharers, cv, dead, printed>>

FunctionReturns(t) ==
    /\ IsAt(t, {"returned"})
    /\ value' = [value EXCEPT ![Current(t).object] = 2]
    /\ Advance(t)
    /\ UNCHANGED <<program, register, owner, sharers, cv, dead, printed>>

FunctionThrows(t) ==
    /\ IsAt(t, {"thrown"})
    /\ value' = [value EXCEPT ![Current(t).object] = 0]
    /\ GoTo(t, Current(t).target)
    /\ UNCHANGED <<program, register, owner, sharers, cv, dead, printed>>

(* count_down(), set_value(), or arrive(), whose token is the phase. *)
DoArrive(t) ==
    /\ IsAt(t, {"arrive"})
    /\ LET c == Current(t) IN
       /\ value' = [value EXCEPT ![c.object] = @ + 1]
       /\ register' = [register EXCEPT ![t] = value[c.object] \div c.value]
    /\ Advance(t)
    /\ UNCHANGED <<program, owner, sharers, cv, dead, printed>>

(* wait() of a latch or a future, the latter possibly in time; wait(token); *)
(* join().                                                                  *)
Await(t) ==
    /\ \/ /\ IsAt(t, {"await_latch", "wait_for"})
          /\ value[Current(t).object] >= Current(t).value
       \/ /\ IsAt(t, {"await_phase"})
          /\ value[Current(t).object] \div Current(t).value # register[t]
       \/ IsAt(t, {"join"}) /\ \A u \in Threads \ {t} : AtEnd(u)
       \/ IsAt(t, {"join_thread"}) /\ AtEnd(Current(t).value)
    /\ Advance(t)
    /\ UNCHANGED <<program, register, value, owner, sharers, cv, dead, printed>>

TimeOutWait(t) ==
    /\ IsAt(t, {"wait_for"}) /\ value[Current(t).object] < Current(t).value
    /\ GoTo(t, Current(t).target)
    /\ UNCHANGED <<program, register, value, owner, sharers, cv, dead, printed>>
-----------------------------------------------------------------------------
DoRead(t) ==
    /\ IsAt(t, {"read", "read_and_add", "load"})
    /\ LET base == IF Current(t).op = "read_and_add" THEN register[t] ELSE 0 IN
       register' = [register EXCEPT ![t] = base + value[Current(t).object]]
    /\ Advance(t)
    /\ UNCHANGED <<program, value, owner, sharers, cv, dead, printed>>

DoWrite(t) ==
    /\ IsAt(t, {"write", "write_next", "store"})
    /\ LET c == Current(t)
           next == register[t] + c.value IN
       value' = [value EXCEPT ![c.object] =
                    IF c.op # "write_next" THEN c.value
                    ELSE IF c.target = 0 THEN next ELSE next % c.target]
    /\ Advance(t)
    /\ UNCHANGED <<program, register, owner, sharers, cv, dead, printed>>

DoPrint(t) ==
    /\ IsAt(t, {"print", "callback"})
    /\ printed' = Append(printed, Current(t).value)
    /\ Advance(t)
    /\ UNCHANGED <<program, register, value, owner, sharers, cv, dead>>

Branch(t) ==
    /\ IsAt(t, {"go", "go_unless"})
    /\ LET c == Current(t) IN
       IF c.op = "go_unless" /\ register[t] = c.value THEN Advance(t)
       ELSE GoTo(t, c.target)
    /\ UNCHANGED <<program, register, value, owner, sharers, cv, dead, printed>>

DoDraw(t) ==
    /\ IsAt(t, {"draw"})
    /\ \E v \in 0 .. 1 : register' = [register EXCEPT ![t] = v]
    /\ Advance(t)
    /\ UNCHANGED <<program, value, owner, sharers, cv, dead, printed>>

(* The constructor of a stop_callback calls it if the stop has been         *)
(* requested; the request calls those that are registered.                  *)
DoRegister(t) ==
    /\ IsAt(t, {"register"})
    /\ LET c == Current(t) IN
       IF value[c.value] = 1
       THEN printed' = Append(printed, <<c.object>>) /\ UNCHANGED value
       ELSE value' = [value EXCEPT ![c.object] = 1] /\ UNCHANGED printed
    /\ Advance(t)
    /\ UNCHANGED <<program, register, owner, sharers, cv, dead>>

DoRequestStop(t) ==
    /\ IsAt(t, {"request_stop"})
    /\ LET c == Current(t) IN
       /\ value' = [value EXCEPT ![c.object] = 1]
       /\ printed' = IF value[c.object] = 0 /\ value[c.value] = 1
                     THEN Append(printed, <<c.value>>) ELSE printed
    /\ Advance(t)
    /\ UNCHANGED <<program, register, owner, sharers, cv, dead>>

DoDestroy(t) ==
    /\ IsAt(t, {"destroy"})
    /\ dead' = dead \cup {Current(t).object}
    /\ Advance(t)
    /\ UNCHANGED <<program, register, value, owner, sharers, cv, printed>>

(* main() has joined its threads. *)
AllEnded == \A t \in Threads : AtEnd(t)
Joined == AllEnded /\ UNCHANGED vars

AnyThread == 1 .. NUM_THREADS + 6

Step(t) ==
    /\ t \in Threads
    /\ \/ DoLock(t) \/ LockOne(t) \/ LockOther(t) \/ BackOff(t)
       \/ DoLockShared(t) \/ TimeOutLock(t)
       \/ DoUnlock(t) \/ WaitSatisfied(t) \/ Wait(t) \/ Relock(t) \/ DoNotifyAll(t)
       \/ DoCallOnce(t) \/ FunctionReturns(t) \/ FunctionThrows(t)
       \/ DoArrive(t) \/ Await(t) \/ TimeOutWait(t)
       \/ DoRead(t) \/ DoWrite(t) \/ DoDraw(t) \/ DoPrint(t) \/ Branch(t)
       \/ DoRegister(t) \/ DoRequestStop(t) \/ DoDestroy(t)

Next ==
    \/ \E t \in AnyThread : Step(t) \/ SpuriousWakeup(t)
    \/ Joined

Spec == Init /\ [][Next]_vars

(* The operating system runs every thread that can run. *)
FairSpec == Spec /\ \A t \in AnyThread : WF_vars(Step(t))
-----------------------------------------------------------------------------
TypeOK ==
    /\ program \in Programs
    /\ \A t \in Threads : pc[t] \in 1 .. Len(Code[program][t]) + 1
    /\ \A t \in Threads : register[t] \in Nat
    /\ \A o \in DOMAIN value :
         value[o] \in Nat /\ owner[o] \subseteq Threads /\ sharers[o] \subseteq Threads
    /\ cv \subseteq Threads /\ dead \subseteq DOMAIN value

(* The plain object a thread is about to read or write, if any; a predicate *)
(* reads its variable with the mutex held, and a callback of the leetcode   *)
(* tests appends to an output that nothing else protects.                   *)
Accesses(t) ==
    IF \/ IsAt(t, {"read", "read_and_add", "write", "write_next", "callback"})
       \/ IsAt(t, {"wait_until"}) /\ t \in owner[Current(t).target]
    THEN {Current(t).object} ELSE {}
Writes(t) == IsAt(t, {"write", "write_next", "callback"})

(* Two threads never touch a plain object at once, one of them writing it:  *)
(* the slices between the map and the reduce, the numbers that main sorts   *)
(* while the letters are read, the forks, the output of the callbacks.  The *)
(* exceptions are two reads outside the mutex, of the counter that          *)
(* chapter_04/program_10 prints on its way out and of the exception that    *)
(* chapter_03/program_3_17 polls, and the timeout that a detached thread    *)
(* counts down while main() computes how long it sleeps from it.            *)
NoDataRace ==
    \A t \in Threads : Writes(t) =>
      \A u \in Threads \ {t} :
        Accesses(t) \cap Accesses(u)
          \subseteq (CASE program = "polling" -> {"counter"}
                       [] program = "captured_exception" -> {"captured_exception"}
                       [] program = "detached" -> {"timeout"}
                       [] OTHER -> {})

(* No thread uses an object whose lifetime is over: the frame of a          *)
(* coroutine that changes threads, the name that a wrapper of a jthread     *)
(* destroys before it joins.  Two classes of chapter 3 do: the thread of    *)
(* Counter and that of Timer refer to arguments of the constructor that has *)
(* started them, and to a member that is destroyed before they are joined.  *)
NoUseAfterEnd ==
    \A t \in Threads : ~ AtEnd(t) /\ Current(t).object \in dead =>
      Current(t).object \in
        (CASE program = "counter" -> {"callback", "running"}
           [] program = "timer" -> {"callback", "interval", "val"}
           [] OTHER -> {})

(* Whatever a thread touches is there, and nobody else's at that moment.    *)
AccessesSafe == NoDataRace /\ NoUseAfterEnd

HowMany(what) == Cardinality({i \in DOMAIN printed : printed[i] = <<what>>})
Expected(i) ==
    <<CASE i % 15 = 0 -> "fizzbuzz" [] i % 15 \in {3, 6, 9, 12} -> "fizz"
        [] i % 15 \in {5, 10} -> "buzz" [] OTHER -> "number", i>>

(* FizzBuzz comes out in order and the philosophers eat in turn, each step  *)
(* of the way; and nobody passes call_once() before a function has returned *)
(* from it.                                                                 *)
InOrder ==
    /\ program = "fizz_buzz" => \A i \in DOMAIN printed : printed[i] = Expected(i)
    /\ program = "dining_by_turns" =>
         \A i \in DOMAIN printed : printed[i] = <<"eat", (i - 1) % 5>>
    /\ program = "run_once" =>
         HowMany("once") <= 1 /\ (HowMany("common") > 0 => HowMany("once") = 1)
    /\ program = "run_once_exceptions" =>
         \A i \in DOMAIN printed : printed[i] = <<"no_exception">> =>
           \A j \in i + 1 .. Len(printed) : printed[j] = <<"caught">>

(* What the mains have computed once they have joined their threads.        *)
Complete ==
    /\ program = "fizz_buzz" => Len(printed) = n
    /\ program \in {"dining_by_turns", "dining_by_forks"} => Len(printed) = 5 * ROUNDS
    /\ program = "run_once" => HowMany("common") = 3
    /\ program = "run_once_exceptions" =>
         HowMany("no_exception") = 1 /\ HowMany("throwing") = HowMany("caught")
    /\ program = "timed_mutex" =>
         HowMany("success") >= 1 /\ HowMany("success") + HowMany("failed") = 4
    /\ program \in {"latches", "barriers"} => register[Len(Code[program])] = 3
    /\ program = "shared_mutex" => value["counter"] = 2 * ROUNDS
    /\ program = "polling" => value["counter"] = INCREMENTS
    /\ program = "ready" => \A t \in 1 .. NUM_THREADS : register[t] = 5
    /\ program = "two_promises" => printed = <<<<"numbers">>>> /\ register[2] = 1
    /\ program = "creation" =>
         \A i \in 1 .. 6 : HowMany(Function[i]) = 1
    /\ program = "counter_test" => register[1] = 6
    /\ program \in {"mutex_contention", "atomic_contention"} =>
         value["counter"] = ROUNDS * NUM_THREADS
    /\ program = "thread_local" => register[1] = 1
    /\ program = "stop_token" => HowMany("callback") = 1
    /\ program = "stop_source" =>
         HowMany("scoped_callback") = 0 /\ HowMany("callback_after_stop") = 1
    /\ program = "cancellation" => HowMany("cancelled") <= register[1]

ResultsCorrect == InOrder /\ (AllEnded => Complete)

(* Every main() ends, philosophers with one fork each included, unless the  *)
(* library wakes waiters spuriously or a scoped_lock backs off for ever,    *)
(* and except that of chapter_04/program_10 if the thread that polls never  *)
(* looks while the counter has the one value that it waits for, and that of *)
(* chapter_03/program_3_14, whose threads have no way to end.               *)
Terminates ==
    <>[][~ \E t \in Threads : SpuriousWakeup(t) \/ BackOff(t)]_vars =>
      \/ <>AllEnded
      \/ [](program = "polling" /\ register[1] # TARGET)
      \/ program = "endless"
=============================================================================
