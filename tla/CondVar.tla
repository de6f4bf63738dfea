------------------------------ MODULE CondVar ------------------------------
(***************************************************************************)
(* std::condition_variable, as the classes of this repository use it.  A   *)
(* condition variable is the set of threads blocked in its wait().         *)
(* wait(lock, pred) is `while (!pred()) wait(lock)`: a thread whose        *)
(* predicate is false joins the set and releases the mutex in one step,    *)
(* and a thread that leaves the set takes the mutex again and re-evaluates *)
(* the predicate, whatever took it out of the set.                         *)
(***************************************************************************)
EXTENDS Naturals

(* The sets that notify_one() can leave behind: the library chooses which  *)
(* waiter it wakes, and a notification nobody waits for is lost.           *)
NotifyOne(waiting) ==
    IF waiting = {} THEN {{}} ELSE { waiting \ {t} : t \in waiting }

(* What notify_all() leaves behind. *)
NotifyAll(waiting) == {}
=============================================================================
