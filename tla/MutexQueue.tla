----------------------------- MODULE MutexQueue -----------------------------
(***************************************************************************)
(* async_prog::Queue of common/mutex_queue.h, a circular buffer under one  *)
(* mutex with two condition variables, and the producer and consumer loops *)
(* of chapters/chapter_04/program_04/main.cpp that drive it.               *)
(*                                                                         *)
(* For each item a producer calls push() or try_push() and a consumer      *)
(* pop() or try_pop(); push_pop() uses the blocking ones throughout,       *)
(* try_push_try_pop() the other ones.  The pc of a thread is               *)
(*    "call"    about to start an operation                                *)
(*    "wait"    in wait(): blocked while the condition variable holds it,  *)
(*              and then in need of the mutex                              *)
(*    "locked"  owns the mutex and is about to test the predicate          *)
(*    "notify"  released the mutex after moving an item and is about to    *)
(*              call notify_one() without it                               *)
(***************************************************************************)
EXTENDS Naturals, Sequences, FiniteSets, CondVar

CONSTANTS Producers, Consumers,
          Capacity,     \* the constructor's argument
          Quota         \* how many items the loop of each thread moves

Thread == Producers \cup Consumers

ASSUME CapacityAssumption == Capacity \in Nat \ {0}
ASSUME ThreadAssumption ==
    /\ IsFiniteSet(Thread) /\ Producers \cap Consumers = {}
    /\ Quota \in [Thread -> Nat]

VARIABLES mtx_,         \* the set of threads that own the mutex
          not_full_,    \* the threads blocked in not_full_.wait()
          not_empty_,   \* the threads blocked in not_empty_.wait()
          head_, tail_, buffer_,
          pc,           \* where each thread is
          trying,       \* the threads whose operation is a try_ one
          moved,        \* how many items each thread has moved (loop index i)
          got,          \* what each consumer received, in order
          try_popped    \* has a try_pop() taken an item so far?

vars == <<mtx_, not_full_, not_empty_, head_, tail_, buffer_, pc, trying,
          moved, got, try_popped>>

Index == 0 .. Capacity - 1
Item == Producers \X Nat
Unset == << >>                      \* a slot nothing was written to yet

Init ==
    /\ mtx_ = {}
    /\ not_full_ = {} /\ not_empty_ = {}
    /\ head_ = 0 /\ tail_ = 0
    /\ buffer_ = [i \in Index |-> Unset]
    /\ pc = [t \in Thread |-> "call"]
    /\ trying = {}
    /\ moved = [t \in Thread |-> 0]
    /\ got = [c \in Consumers |-> << >>]
    /\ try_popped = FALSE

next(idx) == (idx + 1) % Capacity
is_empty == head_ = tail_
is_full_never == FALSE                                      \* mutant
is_full == next(tail_) = head_

Goto(t, label) == pc' = [pc EXCEPT ![t] = label]

-----------------------------------------------------------------------------
(* unique_lock(mtx_) of the blocking operations, or a unique_lock(mtx_,     *)
(* try_to_lock) that succeeds.  One that fails returns false having changed *)
(* nothing, and the caller calls again: a stuttering step.                  *)
Lock(t) ==
    /\ pc[t] = "call" /\ moved[t] < Quota[t]
    /\ mtx_ = {}
    /\ mtx_' = {t}
    /\ trying' \in {trying, trying \cup {t}}
    /\ Goto(t, "locked")
    /\ UNCHANGED <<not_full_, not_empty_, head_, tail_, buffer_, moved, got,
                   try_popped>>

(* A thread that was taken out of a condition variable gets the mutex back  *)
(* and tests its predicate again.                                           *)
Relock(t) ==
    /\ pc[t] = "wait" /\ t \notin not_full_ \cup not_empty_
    /\ mtx_ = {}
    /\ mtx_' = {t}
    /\ Goto(t, "locked")
    /\ UNCHANGED <<not_full_, not_empty_, head_, tail_, buffer_, trying, moved,
                   got, try_popped>>

(* push(): not_full_.wait() with a false predicate. *)
WaitNotFull(t) ==
    /\ pc[t] = "locked" /\ t \in Producers \ trying /\ is_full
    /\ not_full_' = not_full_ \cup {t}
    /\ mtx_' = {}
    /\ Goto(t, "wait")
    /\ UNCHANGED <<not_empty_, head_, tail_, buffer_, trying, moved, got,
                   try_popped>>

(* pop(): not_empty_.wait() with a false predicate. *)
WaitNotEmpty(t) ==
    /\ pc[t] = "locked" /\ t \in Consumers \ trying /\ is_empty
    /\ not_empty_' = not_empty_ \cup {t}
    /\ mtx_' = {}
    /\ Goto(t, "wait")
    /\ UNCHANGED <<not_full_, head_, tail_, buffer_, trying, moved, got,
                   try_popped>>

(* try_push() on a full queue and try_pop() on an empty one: return false,  *)
(* and the unique_lock goes out of scope.                                   *)
GiveUp(t) ==
    /\ pc[t] = "locked" /\ t \in trying
    /\ IF t \in Producers THEN is_full ELSE is_empty
    /\ mtx_' = {}
    /\ trying' = trying \ {t}
    /\ Goto(t, "call")
    /\ UNCHANGED <<not_full_, not_empty_, head_, tail_, buffer_, moved, got,
                   try_popped>>

(* push() and try_push(): store the item, advance tail_, unlock. *)
Insert(t) ==
    /\ pc[t] = "locked" /\ t \in Producers /\ ~is_full
    /\ buffer_' = [buffer_ EXCEPT ![tail_] = <<t, moved[t] + 1>>]
    /\ tail_' = next(tail_)
    /\ moved' = [moved EXCEPT ![t] = @ + 1]
    /\ mtx_' = {}
    /\ Goto(t, "notify")
    /\ UNCHANGED <<not_full_, not_empty_, head_, trying, got, try_popped>>

(* pop() and try_pop(): fetch the item, advance head_, unlock. *)
Remove(t) ==
    /\ pc[t] = "locked" /\ t \in Consumers /\ ~is_empty
    /\ got' = [got EXCEPT ![t] = Append(@, buffer_[head_])]
    /\ head_' = next(head_)
    /\ moved' = [moved EXCEPT ![t] = @ + 1]
    /\ mtx_' = {}
    /\ try_popped' = (try_popped \/ t \in trying)
    /\ Goto(t, "notify")
    /\ UNCHANGED <<not_full_, not_empty_, tail_, buffer_, trying>>

(* Mutant: pop() notifies like try_pop(). *)
NotifyNotEmpty(t) ==
    /\ pc[t] = "notify"
    /\ not_empty_' \in NotifyOne(not_empty_) /\ UNCHANGED not_full_
    /\ trying' = trying \ {t}
    /\ Goto(t, "call")
    /\ UNCHANGED <<mtx_, head_, tail_, buffer_, moved, got, try_popped>>

(* Mutant: a producer notifies only of an item it put into an empty queue. *)
NotifyFirstItemOnly(t) ==
    /\ pc[t] = "notify"
    /\ IF t \in Consumers \ trying
       THEN not_full_' \in NotifyOne(not_full_) /\ UNCHANGED not_empty_
       ELSE /\ not_empty_' \in IF tail_ = next(head_)
                               THEN NotifyOne(not_empty_) ELSE {not_empty_}
            /\ UNCHANGED not_full_
    /\ trying' = trying \ {t}
    /\ Goto(t, "call")
    /\ UNCHANGED <<mtx_, head_, tail_, buffer_, moved, got, try_popped>>

(* The notification after the unlock.  push() and try_push() notify         *)
(* not_empty_, pop() notifies not_full_ -- and try_pop(), which also frees  *)
(* a slot, notifies not_empty_ as well.                                     *)
NotifyAfter(t) ==
    /\ pc[t] = "notify"
    /\ IF t \in Consumers \ trying
       THEN not_full_' \in NotifyOne(not_full_) /\ UNCHANGED not_empty_
       ELSE not_empty_' \in NotifyOne(not_empty_) /\ UNCHANGED not_full_
    /\ trying' = trying \ {t}
    /\ Goto(t, "call")
    /\ UNCHANGED <<mtx_, head_, tail_, buffer_, moved, got, try_popped>>

(* A spurious wakeup, which the standard allows of every wait(). *)
SpuriousWakeup(t) ==
    /\ t \in not_full_ \cup not_empty_
    /\ not_full_' = not_full_ \ {t}
    /\ not_empty_' = not_empty_ \ {t}
    /\ UNCHANGED <<mtx_, head_, tail_, buffer_, pc, trying, moved, got, try_popped>>

(* The std::jthreads of push_pop() or try_push_try_pop() have been joined. *)
AllDone == \A t \in Thread : moved[t] = Quota[t] /\ pc[t] = "call"
Joined == AllDone /\ UNCHANGED vars

Step(t) ==
    \/ Lock(t) \/ Relock(t) \/ WaitNotFull(t) \/ WaitNotEmpty(t) \/ GiveUp(t)
    \/ Insert(t) \/ Remove(t) \/ NotifyAfter(t)

Next ==
    \/ \E t \in Thread : Step(t) \/ SpuriousWakeup(t)
    \/ Joined

Spec == Init /\ [][Next]_vars

(* The operating system runs every thread that can run. *)
FairSpec == Spec /\ \A t \in Thread : WF_vars(Step(t))
-----------------------------------------------------------------------------
TypeOK ==
    /\ mtx_ \in SUBSET Thread
    /\ not_full_ \in SUBSET Producers /\ not_empty_ \in SUBSET Consumers
    /\ head_ \in Index /\ tail_ \in Index
    /\ buffer_ \in [Index -> Item \cup {Unset}]
    /\ pc \in [Thread -> {"call", "wait", "locked", "notify"}]
    /\ trying \in SUBSET Thread
    /\ moved \in [Thread -> Nat]
    /\ got \in [Consumers -> Seq(Item \cup {Unset})]
    /\ try_popped \in BOOLEAN

Occupied == (tail_ + Capacity - head_) % Capacity
Free == Capacity - 1 - Occupied
Contents == [i \in 1 .. Occupied |-> buffer_[(head_ + i - 1) % Capacity]]

(* Threads that will test the queue without anybody notifying them. *)
AwakeAmong(S) ==
    { t \in S : \/ pc[t] = "call" /\ moved[t] < Quota[t]
                \/ pc[t] = "locked"
                \/ pc[t] = "wait" /\ t \notin not_full_ \cup not_empty_ }
NotifyingAmong(S) == { t \in S : pc[t] = "notify" }

(* No wakeup of a push() is lost: while a thread is blocked in              *)
(* not_full_.wait(), every free slot is matched by a pop() that has yet to  *)
(* call notify_one() or by a producer that is awake and will look again.    *)
(* try_pop() notifies the other condition variable, so nothing can be said  *)
(* once it has freed a slot.                                                *)
WakeupForFreeSlot ==
    not_full_ # {} /\ ~try_popped =>
        Free <= Cardinality(NotifyingAmong(Consumers))
                + Cardinality(AwakeAmong(Producers))

(* No wakeup of a pop() is lost: while a thread is blocked in               *)
(* not_empty_.wait(), every item is matched by a push or try_push that has  *)
(* yet to notify or by a consumer that is awake.  This side holds with      *)
(* every mix of the four operations.                                        *)
WakeupForItem ==
    not_empty_ # {} =>
        Occupied <= Cardinality(NotifyingAmong(Producers))
                    + Cardinality(AwakeAmong(Consumers))

(* No wakeup of either side is lost, whichever threads notify after they    *)
(* have unlocked and whoever overtakes them in between.                     *)
NoWakeupLost == WakeupForFreeSlot /\ WakeupForItem

(* The circular buffer is a FIFO of Capacity - 1 places (one slot tells     *)
(* full from empty): each item is delivered once, to one consumer, in the   *)
(* order of the pushes, and nothing is delivered that was not pushed.       *)
Fifo == INSTANCE BoundedFifo WITH
            queue <- Contents, sent <- [p \in Producers |-> moved[p]],
            Bound <- Capacity - 1
IsFifo == Fifo!Spec

(* The producer and consumer loops end, so that the jthreads are joined,    *)
(* provided that no try_pop() frees a slot, that only finitely many try_    *)
(* operations give up, and that the library does not wake waiters           *)
(* spuriously for ever.                                                     *)
Terminates ==
    /\ []~try_popped
    /\ <>[][~ \E t \in Thread : GiveUp(t) \/ SpuriousWakeup(t)]_vars
    => <>AllDone
=============================================================================
