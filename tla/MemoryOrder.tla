---------------------------- MODULE MemoryOrder ----------------------------
(***************************************************************************)
(* The programs of chapter 5, the counters of chapter 4 and of benchmark   *)
(* 01, and common/spin_lock.h, run access by access under the C++ memory   *)
(* model of CppAtomics.  Each thread function is the sequence of accesses  *)
(* it makes; `program`, chosen at the start, says which main() is run.     *)
(***************************************************************************)
EXTENDS CppAtomics, TLC

CONSTANTS Programs,      \* the mains to run, among DOMAIN Code
          NUM_THREADS,   \* threads that count, or that race to initialize
          NUM_ITEMS      \* iterations of a counting or a progress loop

ASSUME SizesAssumption == NUM_THREADS \in Nat \ {0} /\ NUM_ITEMS \in Nat \ {0}
-----------------------------------------------------------------------------
(* The accesses.  Load, Read and CompareExchange leave the value they found *)
(* in the thread's register of that object.                                 *)
Access(op, object, value, order) ==
    [op |-> op, object |-> object, value |-> value, order |-> order]

Load(o, order)             == Access("load", o, 0, order)
Store(o, value, order)     == Access("store", o, value, order)
FetchAdd(o, n, order)      == Access("fetch_add", o, n, order)
CompareExchange(o, desired, order) == Access("exchange_if_zero", o, desired, order)
Read(o)                    == Access("read", o, 0, "plain")
Write(o, value)            == Access("write", o, value, "plain")
WriteNext(o)               == Access("write_next", o, 1, "plain") \* o = found + 1
GoUnless(o, value, target) == Access("go_unless", o, value, target)

(* spin_lock::lock() and mutex::lock() return once their test_and_set has   *)
(* found 0; until then it changes nothing.                                  *)
Lock(m)   == Access("lock", m, 1, "acquire")
Unlock(m) == Store(m, 0, "release")

(* A loop of n iterations, each with k accesses. *)
Loop(n, k, Body(_)) ==
    [place \in 1 .. n * k |-> Body(((place - 1) \div k) + 1)[((place - 1) % k) + 1]]
Times(n, accesses) == Loop(n, Len(accesses), LAMBDA i : accesses)
ForEach(n, F(_)) == [i \in 1 .. n |-> F(i)]
-----------------------------------------------------------------------------
(* The thread functions. *)
Increment(o) == << Read(o), WriteNext(o) >>

LockedIncrement(m, o) == << Lock(m), Read(o), WriteNext(o), Unlock(m) >>

AtomicIncrement(o) == << FetchAdd(o, 1, "relaxed") >>

Counters(increment) == ForEach(NUM_THREADS, LAMBDA i : Times(NUM_ITEMS, increment))

(* chapter_04/program_01 without and with its mutex, and chapter_05/01a,    *)
(* 01b and 01c.                                                             *)
Unlocked        == Counters(Increment("counter"))
MutexCounter    == Counters(LockedIncrement("mtx", "counter"))
SpinLockCounter == Counters(LockedIncrement("flag", "counter"))
AtomicCounter   == Counters(AtomicIncrement("counter"))

(* chapter_04/program_02: worker and worker_try count NUM_COUNTS times;     *)
(* worker_exceptions counts once, its lock_guard unlocks and it returns.    *)
ThreeWorkers ==
    ForEach(3, LAMBDA i :
        Times(IF i = 2 THEN 1 ELSE NUM_ITEMS, LockedIncrement("mtx", "counter")))

(* Mutant: the last item is not reported. *)
ProgressButLast ==
    << ForEach(NUM_ITEMS - 1, LAMBDA i : Store("progress", i, "relaxed")),
       << Load("progress", "relaxed"), GoUnless("progress", NUM_ITEMS, 1) >> >>

Progress ==
    << ForEach(NUM_ITEMS, LAMBDA i : Store("progress", i, "relaxed")),
       << Load("progress", "relaxed"), GoUnless("progress", NUM_ITEMS, 1) >> >>

(* The statistics, each number standing for the items it accounts for.  The *)
(* worker's seq_cst loads are of atomics only it stores to: as good relaxed. *)
Statistics ==
    << Loop(NUM_ITEMS, 9, LAMBDA i :
         << FetchAdd("processed_items", 1, "relaxed"),
            FetchAdd("total_time", 1, "relaxed"),
            Load("total_time", "relaxed"), Load("processed_items", "relaxed"),
            Store("average_time", i, "relaxed"),
            Load("m_n", "relaxed"), Load("s_n", "relaxed"),
            Store("m_n", i, "relaxed"), Store("s_n", i, "relaxed") >>),
       << Load("processed_items", "relaxed"), Load("total_time", "relaxed"),
          Load("average_time", "relaxed"), Load("m_n", "relaxed"),
          Load("s_n", "relaxed"), GoUnless("processed_items", NUM_ITEMS, 1) >> >>

(* Mutant: the winner is decided by the load alone. *)
InitOnceByLoad(i) ==
    << Load("init_thread", "seq_cst"), GoUnless("init_thread", 0, 4),
       Store("init_thread", i, "seq_cst") >>

InitOnce(i) ==
    << Load("init_thread", "seq_cst"), GoUnless("init_thread", 0, 4),
       CompareExchange("init_thread", i, "seq_cst") >>

InitOnceThreads == ForEach(NUM_THREADS, InitOnce)

reader == << Load("ready", "seq_cst"), GoUnless("ready", 1, 1), Read("message") >>

(* Mutant: the flag is raised before the message is there. *)
WriterEarly == << Store("ready", 1, "seq_cst"), Write("message", 1) >>

writer == << Write("message", 1), Store("ready", 1, "seq_cst") >>

write(a, order) == << Store(a, 1, order) >>

read_then(a, b, order) ==
    << Load(a, order), GoUnless(a, 1, 1),
       Load(b, order), GoUnless(b, 1, 6), FetchAdd("z", 1, "seq_cst") >>

WritersAndReaders(order) ==
    << write("x", order.store), write("y", order.store),
       read_then("x", "y", order.load), read_then("y", "x", order.load) >>

(* The orders of chapter_05/program_08b; also a mutant of those of          *)
(* chapter_05/program_07, which only keeps their halves.                    *)
AcquireRelease == [store |-> "release", load |-> "acquire"]

SequentiallyConsistent == [store |-> "seq_cst", load |-> "seq_cst"]

write_then_read(a, b) ==
    << Store(a, 1, "relaxed"), Load(b, "relaxed"), GoUnless(b, 0, 5),
       FetchAdd("z", 1, "seq_cst") >>

IriwAcquireRelease == WritersAndReaders(AcquireRelease)

Iriw == WritersAndReaders(SequentiallyConsistent)

producer == << Write("text", 1), Store("msg", 1, "release"), Write("data", 1) >>

consumer ==
    << Load("msg", "acquire"), GoUnless("msg", 1, 1), Read("text"), Read("data") >>

StoreBuffer == << write_then_read("x", "y"), write_then_read("y", "x") >>
Message     == << reader, writer >>
Pointer     == << producer, consumer >>

(* The threads each main() starts. *)
Code ==
    [ unlocked     |-> Unlocked,
      mutex        |-> MutexCounter,
      spin_lock    |-> SpinLockCounter,
      atomic       |-> AtomicCounter,
      workers      |-> ThreeWorkers,
      progress     |-> Progress,
      statistics   |-> Statistics,
      init_once    |-> InitOnceThreads,
      message      |-> Message,
      iriw         |-> Iriw,
      iriw_acq_rel |-> IriwAcquireRelease,
      store_buffer |-> StoreBuffer,
      pointer      |-> Pointer ]

ASSUME ProgramsAssumption == Programs \subseteq DOMAIN Code

ObjectsOf(p) == UNION {{Code[p][t][i].object : i \in DOMAIN Code[p][t]} :
                          t \in DOMAIN Code[p]}
-----------------------------------------------------------------------------
VARIABLES program,
          history,    \* the stores of each object
          view,       \* of each thread
          register,   \* of each thread, the value it last found in an object
          pc,
          accesses,   \* of each object and thread, the clock of its last
                      \* plain read and of its last plain write
          races       \* objects with two plain accesses that race

vars == <<program, history, view, register, pc, accesses, races>>

Objects == DOMAIN history
Threads == DOMAIN Code[program]
AtEnd(t) == pc[t] > Len(Code[program][t])
Current(t) == Code[program][t][pc[t]]

Init ==
    /\ program \in Programs
    /\ LET initially == InitialView(ObjectsOf(program), Threads) IN
       /\ history = [o \in ObjectsOf(program) |-> InitialHistory(initially)]
       /\ view = [t \in Threads |-> initially]
    /\ register = [t \in Threads |-> [o \in Objects |-> 0]]
    /\ pc = [t \in Threads |-> 1]
    /\ accesses = [o \in Objects |-> [t \in Threads |-> [read |-> 0, write |-> 0]]]
    /\ races = {}

IsAt(t, ops) == ~ AtEnd(t) /\ Current(t).op \in ops
Advance(t) == pc' = [pc EXCEPT ![t] = @ + 1]
Find(t, o, value) == register' = [register EXCEPT ![t][o] = value]
Newest(o) == history[o][Len(history[o])]

DoLoad(t, i) ==
    /\ IsAt(t, {"load"})
    /\ LET c == Current(t)
           o == c.object
       IN  /\ i \in Readable(history[o], view[t], o, c.order)
           /\ Find(t, o, history[o][i].value)
           /\ view' = [view EXCEPT ![t] =
                         ViewAfterLoad(history[o], @, o, i, c.order)]
    /\ Advance(t)
    /\ UNCHANGED <<program, history, accesses, races>>

DoStore(t) ==
    /\ IsAt(t, {"store"})
    /\ LET c == Current(t)
           o == c.object
           after == ViewAfterStore(history[o], view[t], o)
       IN  /\ view' = [view EXCEPT ![t] = after]
           /\ history' = [history EXCEPT ![o] =
                HistoryAfterStore(@, after, c.value, c.order,
                                  InitialView(Objects, Threads))]
    /\ Advance(t)
    /\ UNCHANGED <<program, register, accesses, races>>

(* A read-modify-write reads the newest store, whatever its order, and      *)
(* continues the release sequence that store is in.  A failed               *)
(* compare_exchange is a load.                                              *)
DoReadModifyWrite(t) ==
    /\ IsAt(t, {"lock", "fetch_add", "exchange_if_zero"})
    /\ LET c == Current(t)
           o == c.object
           found == Newest(o)
           loaded == ViewAfterLoad(history[o], view[t], o, Len(history[o]), c.order)
           after == ViewAfterStore(history[o], loaded, o)
           stores == c.op = "fetch_add" \/ found.value = 0
       IN  /\ c.op = "lock" => stores
           /\ Find(t, o, found.value)
           /\ view' = [view EXCEPT ![t] = IF stores THEN after ELSE loaded]
           /\ history' = IF ~ stores THEN history ELSE
                [history EXCEPT ![o] = HistoryAfterStore(@, after,
                    IF c.op = "fetch_add" THEN found.value + c.value ELSE c.value,
                    c.order, found.view)]
    /\ Advance(t)
    /\ UNCHANGED <<program, accesses, races>>

(* A plain access races with one of another thread, one of the two being a  *)
(* write, that does not happen before it.                                   *)
PlainAccess(t, kind, o) ==
    LET conflicts == IF kind = "write" THEN {"read", "write"} ELSE {"write"}
        clock == view[t].clock[t] + 1
        unordered == \E u \in Threads \ {t}, k \in conflicts :
                        accesses[o][u][k] > view[t].clock[u]
    IN  /\ races' = IF unordered THEN races \cup {o} ELSE races
        /\ accesses' = [accesses EXCEPT ![o][t][kind] = clock]

Tick(t) == [view[t] EXCEPT !.clock[t] = @ + 1]

(* A racing read finds any store that it may still see. *)
DoRead(t, i) ==
    /\ IsAt(t, {"read"})
    /\ LET o == Current(t).object IN
       /\ i \in Readable(history[o], view[t], o, "relaxed")
       /\ PlainAccess(t, "read", o)
       /\ Find(t, o, history[o][i].value)
       /\ view' = [view EXCEPT ![t] = [Tick(t) EXCEPT !.seen[o] = i]]
    /\ Advance(t)
    /\ UNCHANGED <<program, history>>

DoWrite(t) ==
    /\ IsAt(t, {"write", "write_next"})
    /\ LET c == Current(t)
           o == c.object
           value == IF c.op = "write" THEN c.value ELSE register[t][o] + 1
       IN  /\ PlainAccess(t, "write", o)
           /\ view' = [view EXCEPT ![t] = ViewAfterStore(history[o], Tick(t), o)]
           /\ history' = [history EXCEPT ![o] =
                HistoryAfterStore(@, view[t], value, "plain",
                                  InitialView(Objects, Threads))]
    /\ Advance(t)
    /\ UNCHANGED <<program, register>>

(* The end of a loop body, or an if. *)
Branch(t) ==
    /\ IsAt(t, {"go_unless"})
    /\ LET c == Current(t) IN
       pc' = [pc EXCEPT ![t] = IF register[t][c.object] = c.value THEN @ + 1
                               ELSE c.order]
    /\ UNCHANGED <<program, history, view, register, accesses, races>>

(* main() has joined its threads. *)
AllEnded == \A t \in Threads : AtEnd(t)
Joined == AllEnded /\ UNCHANGED vars

LongestHistory == 2 * Max({NUM_THREADS, 3}) * NUM_ITEMS + 5

Step(t) ==
    /\ t \in Threads
    /\ \/ \E i \in 1 .. LongestHistory : DoLoad(t, i)
       \/ DoStore(t)
       \/ DoReadModifyWrite(t)
       \/ \E i \in 1 .. LongestHistory : DoRead(t, i)
       \/ DoWrite(t)
       \/ Branch(t)

(* A loop around a load of one of these atomics waits for its value. *)
SpunOn == {"progress", "processed_items", "ready", "x", "y", "msg"}

LoadNewest(t) ==
    /\ t \in Threads /\ IsAt(t, {"load"})
    /\ LET o == Current(t).object IN o \in SpunOn /\ DoLoad(t, Len(history[o]))

AnyThread == 1 .. Max({NUM_THREADS, 4})

Next == (\E t \in AnyThread : Step(t)) \/ Joined

Spec == Init /\ [][Next]_vars

(* Threads are scheduled, and a store becomes visible in a finite time: a   *)
(* thread that keeps loading an atomic reads its newest store at last.      *)
FairSpec ==
    /\ Spec
    /\ \A t \in AnyThread : WF_vars(Step(t)) /\ SF_vars(LoadNewest(t))
-----------------------------------------------------------------------------
TypeOK ==
    /\ program \in Programs
    /\ \A o \in Objects : Len(history[o]) \in 1 .. LongestHistory
    /\ \A t \in Threads :
         /\ pc[t] \in 1 .. Len(Code[program][t]) + 1
         /\ DOMAIN register[t] = Objects
         /\ \A o \in Objects : view[t].seen[o] \in 1 .. Len(history[o])
    /\ races \subseteq Objects

(* Two threads never touch a plain object at once, one of them writing it,  *)
(* except the counter that chapter 4 increments without a lock and the data *)
(* that chapter_05/program_08a writes after its release store: the spin     *)
(* lock, the mutexes, the ready flag and the pointer order all the others.  *)
NoDataRace ==
    races \subseteq (CASE program = "unlocked" -> {"counter"}
                       [] program = "pointer" -> {"data"}
                       [] OTHER -> {})

(* What the mains print once they have joined: every increment made under a *)
(* lock or by fetch_add counts, for whatever the order of the accesses, and *)
(* the lost updates of the unlocked counter never make it exceed the sum.   *)
CountersExact ==
    AllEnded =>
      /\ program \in {"mutex", "spin_lock", "atomic"} =>
           Newest("counter").value = NUM_THREADS * NUM_ITEMS
      /\ program = "workers" => Newest("counter").value = 2 * NUM_ITEMS + 1
      /\ program = "unlocked" =>
           Newest("counter").value \in 1 .. NUM_THREADS * NUM_ITEMS
      /\ program = "statistics" =>
           \A o \in Objects : Newest(o).value = NUM_ITEMS

(* One thread only of chapter_05/program_05 finds that it is the one to     *)
(* initialize, and init_thread names it; it is never set twice.             *)
OneInitializer ==
    program = "init_once" /\ AllEnded =>
      \E winner \in Threads :
        /\ \A t \in Threads : register[t]["init_thread"] = 0 <=> t = winner
        /\ Newest("init_thread").value = winner

(* The threads' results do not depend on the order in which they ran.       *)
ResultsExact == CountersExact /\ OneInitializer

(* "This will never happen" of chapter_05/program_07 is right: the readers  *)
(* cannot both miss the other flag, seq_cst stores being seen in one order. *)
(* A message that has been announced is there when it is read.              *)
SeenInOneOrder ==
    AllEnded =>
      /\ program = "iriw" => Newest("z").value \in {1, 2}
      /\ program = "message" => register[1]["message"] = 1
      /\ program = "pointer" => register[2]["text"] = 1

(* Every main() ends: the spinning loops see what they wait for, and the    *)
(* exact comparison with NUM_ITEMS meets its value.                         *)
Terminates == <>AllEnded

(* assert( z.load() != 0 ) of chapter_05/program_07b, line 41. *)
AssertZNotZero == program = "store_buffer" /\ AllEnded => Newest("z").value # 0
=============================================================================
