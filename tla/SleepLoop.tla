------------------------------ MODULE SleepLoop ------------------------------
(***************************************************************************)
(* chapter_08/program_08: an event loop resumes, on one thread, coroutines *)
(* that sleep by queueing their handle with the time at which it is due.   *)
(*                                                                         *)
(* A unit of time stands for 500 ms.  Time passes while the loop sleeps,   *)
(* and LATENESS more units at any moment: the thread is not scheduled, or  *)
(* sleeps longer than it has asked for.                                    *)
(***************************************************************************)
EXTENDS Integers, Sequences, FiniteSets

CONSTANTS DELAYS,     \* the delays that a worker may be given
          LATENESS    \* bound: units of time that the loop loses

ASSUME SleepLoopAssumption == DELAYS \subseteq Nat /\ LATENESS \in Nat

Task == << "foo", "worker1", "worker2" >>
Tasks == {Task[i] : i \in 1 .. 3}
-----------------------------------------------------------------------------
VARIABLES sleeps,    \* of each coroutine, the durations it sleeps one by one
          suspended, \* of each, in which of them it is: 0 at its start, and
                     \* one more than there are when it is finished
          started,   \* how many main() has started
          timers,    \* the loop's queue
          now,       \* Clock::now()
          lost,      \* of the LATENESS units, those that have gone by
          asked,     \* since when the coroutine sleeps
          woken,     \* the ends of sleeps, in their order
          returned   \* main() has returned and destroyed the frames

sleepVars == <<sleeps, suspended, started, timers, now, lost, asked, woken, returned>>

SleepInit ==
    /\ \E d, e \in DELAYS :
         sleeps = [t \in Tasks |-> IF t = "foo" THEN << 2, 1 >>
                                   ELSE IF t = "worker1" THEN << d >> ELSE << e >>]
    /\ suspended = [t \in Tasks |-> 0]
    /\ started = 0
    /\ timers = {}
    /\ now = 0 /\ lost = 0
    /\ asked = [t \in Tasks |-> 0]
    /\ woken = << >>
    /\ returned = FALSE

Finished(t) == suspended[t] > Len(sleeps[t])

(* A coroutine runs until a Sleep that is not ready: one of length 0 is.    *)
Earliest(S) == CHOOSE x \in S : \A y \in S : x <= y
NextSleep(t) ==
    LET ahead == suspended[t] + 1 .. Len(sleeps[t]) IN
    Earliest({k \in ahead : sleeps[t][k] # 0} \cup {Len(sleeps[t]) + 1})

(* h.resume(), with what it leaves of the queue: schedule_after() computes  *)
(* the time from the clock as it is now.                                    *)
ResumeTask(t, queue) ==
    LET k == NextSleep(t) IN
    /\ suspended' = [suspended EXCEPT ![t] = k]
    /\ IF k <= Len(sleeps[t])
       THEN /\ timers' = queue \cup {[when |-> now + sleeps[t][k], h |-> t]}
            /\ asked' = [asked EXCEPT ![t] = now]
       ELSE timers' = queue /\ UNCHANGED asked

Start ==
    /\ started < 3
    /\ ResumeTask(Task[started + 1], timers)
    /\ started' = started + 1
    /\ UNCHANGED <<sleeps, now, lost, woken, returned>>

Running == started = 3 /\ ~ returned

(* The queue's order puts the earliest at the top, and says nothing of two  *)
(* with the same time.                                                      *)
(* Mutant: the default order of a priority_queue puts the latest there. *)
TopOfDefault(e) == e \in timers /\ \A f \in timers : e.when >= f.when

Top(e) == e \in timers /\ \A f \in timers : e.when <= f.when

(* One turn of run(), once it has slept: pop() and resume(). *)
Fire(e) ==
    /\ Running /\ Top(e) /\ e.when <= now
    /\ woken' = Append(woken, [task |-> e.h, sleep |-> suspended[e.h],
                               asked |-> asked[e.h], at |-> now])
    /\ ResumeTask(e.h, timers \ {e})
    /\ UNCHANGED <<sleeps, started, now, lost, returned>>

(* sleep_for(next.when - now) *)
SleepFor ==
    /\ Running /\ \E e \in timers : Top(e) /\ e.when > now
    /\ now' = now + 1
    /\ UNCHANGED <<sleeps, suspended, started, timers, lost, asked, woken, returned>>

LoseTime ==
    /\ ~ returned /\ lost < LATENESS
    /\ lost' = lost + 1 /\ now' = now + 1
    /\ UNCHANGED <<sleeps, suspended, started, timers, asked, woken, returned>>

(* run() finds no timer; main() returns and the Tasks destroy their frames. *)
Return ==
    /\ Running /\ timers = {}
    /\ returned' = TRUE
    /\ UNCHANGED <<sleeps, suspended, started, timers, now, lost, asked, woken>>

FireAny == \E e \in timers : Fire(e)
SleepProgress == Start \/ FireAny \/ SleepFor \/ Return
SleepNext == SleepProgress \/ LoseTime
-----------------------------------------------------------------------------
(* A sleep never ends before its time, and sleeps end in the order in which *)
(* they are due, whenever they were asked for: a coroutine that is resumed  *)
(* late and sleeps again does not overtake one that was due before.         *)
Due(w) == w.asked + sleeps[w.task][w.sleep]
WokenInDueOrder ==
    \A j \in DOMAIN woken :
      /\ woken[j].at >= Due(woken[j])
      /\ \A i \in 1 .. j - 1 : Due(woken[i]) <= Due(woken[j])

(* The handles in the queue are of coroutines that are suspended in a       *)
(* sleep, each there once; and when main() destroys the frames the          *)
(* coroutines have all finished.                                            *)
HandlesValid ==
    /\ \A e, f \in timers : e.h = f.h => e = f
    /\ \A e \in timers : suspended[e.h] > 0 /\ ~ Finished(e.h) /\ ~ returned
    /\ returned => \A t \in Tasks : Finished(t)
=============================================================================
