----------------------------- MODULE Statements -----------------------------
(***************************************************************************)
(* The statements of the threads that module Synchronizers runs, and ways  *)
(* to put them together.                                                   *)
(***************************************************************************)
EXTENDS Naturals, Sequences

(* Statements.  A latch or a barrier counts the arrivals so far, and those  *)
(* that wait say how many there have to be.                                 *)
Statement(op, object, value, target) ==
    [op |-> op, object |-> object, value |-> value, target |-> target]

Start            == Statement("arrive", "started", 1, 0)        \* a new thread
Begin(t)         == Statement("await_latch", "started", t - 1, 0)
JoinThread(t)    == Statement("join_thread", "threads", t, 0)

Lock(m)          == Statement("lock", m, 0, 0)
Unlock(m)        == Statement("unlock", m, 0, 0)
LockBoth(m, m2)  == Statement("lock_both", m, m2, 0)            \* scoped_lock
LockShared(m)    == Statement("lock_shared", m, 0, 0)
UnlockShared(m)  == Statement("unlock_shared", m, 0, 0)
TryLockFor(m, failed) == Statement("try_lock_for", m, 0, failed)
WaitUntil(m, x, v)    == Statement("wait_until", x, v, m)       \* cv.wait(m, x == v)
NotifyEverybody       == Statement("notify_all", "cv", 0, 0)
CallOnce(flag, after) == Statement("call_once", flag, 0, after)
Returned(flag)        == Statement("returned", flag, 0, 0)      \* the function has
Thrown(flag, handler) == Statement("thrown", flag, 0, handler)
Arrive(b, number)     == Statement("arrive", b, number, 0)      \* or count_down()
AwaitPhase(b, number) == Statement("await_phase", b, number, 0)
AwaitLatch(l, number) == Statement("await_latch", l, number, 0) \* or a future
WaitFor(l, timeout)   == Statement("wait_for", l, 1, timeout)
Join                  == Statement("join", "threads", 0, 0)

Load(x)          == Statement("load", x, 0, 0)                  \* of an atomic
Store(x, v)      == Statement("store", x, v, 0)
FetchAdd(x)      == Statement("arrive", x, 1, 0)
Register(c)      == Statement("register", c, "stop_state", 0)   \* a stop_callback
Unregister(c)    == Store(c, 0)
RequestStop(c)   == Statement("request_stop", "stop_state", c, 0)
Destroy(x)       == Statement("destroy", x, 0, 0)
Draw             == Statement("draw", "register", 0, 0)         \* a random number, or
                                                  \* a count that is left open

Read(x)          == Statement("read", x, 0, 0)
ReadAndAdd(x)    == Statement("read_and_add", x, 0, 0)
Write(x, v)      == Statement("write", x, v, 0)
WriteNext(x)     == Statement("write_next", x, 1, 0)
WriteNextModulo(x, k) == Statement("write_next", x, 1, k)
WriteSum(x)      == Statement("write_next", x, 0, 0)
GoUnless(v, target) == Statement("go_unless", "register", v, target)
Go(target)       == Statement("go", "register", 0, target)
Output(what)     == Statement("print", "sync_cout", <<what>>, 0)
Callback(what, i) == Statement("callback", "output", <<what, i>>, 0)

Times(k, statements) ==
    [i \in 1 .. k * Len(statements) |-> statements[((i - 1) % Len(statements)) + 1]]
ForEach(k, S(_)) == [i \in 1 .. k |-> S(i)]
=============================================================================
