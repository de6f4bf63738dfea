--------------------------- MODULE SemaphoreQueue ---------------------------
(***************************************************************************)
(* async_prog::SemaphoreQueue of chapters/chapter_04/program_06: a         *)
(* circular buffer whose free places and items are the permits of two      *)
(* counting semaphores, with a mutex for the indices only, and the loops   *)
(* of its main.cpp.  An operation is three steps: acquire a permit, move   *)
(* an item under the mutex, release a permit of the other semaphore; other *)
(* threads run between them.  A try_push() or try_pop() that gets no       *)
(* permit changes nothing and its caller retries (a stuttering step), so   *)
(* the blocking and the trying threads take the same steps.                *)
(***************************************************************************)
EXTENDS Naturals, Sequences, FiniteSets, Counting

CONSTANTS Producers,    \* threads that call push() or try_push()
          Consumers,    \* threads that call pop() or try_pop()
          Capacity,     \* the constructor's argument
          Quota         \* how many items the loop of each thread moves

Thread == Producers \cup Consumers

ASSUME CapacityAssumption == Capacity \in Nat \ {0}
ASSUME QuotaAssumption == Quota \in [Thread -> Nat]
ASSUME ThreadAssumption ==
    IsFiniteSet(Thread) /\ Producers \cap Consumers = {}

VARIABLES sem_empty_, sem_full_,    \* the values of the semaphores
          head_, tail_, buffer_,
          pc,       \* "enter", then "admitted" (has a permit), then "moved"
          moved,    \* how many items each thread has moved (loop index i)
          got       \* what each consumer received, in order

vars == <<sem_empty_, sem_full_, head_, tail_, buffer_, pc, moved, got>>

Index == 0 .. Capacity - 1
Item == Producers \X Nat
Unset == << >>                      \* a slot nothing was written to yet

Init ==
    /\ sem_empty_ = Capacity /\ sem_full_ = 0
    /\ head_ = 0 /\ tail_ = 0
    /\ buffer_ = [i \in Index |-> Unset]
    /\ pc = [t \in Thread |-> "enter"]
    /\ moved = [t \in Thread |-> 0]
    /\ got = [c \in Consumers |-> << >>]

next(idx) == (idx + 1) % Capacity

At(label, threads) == Count(pc, threads, label)
Goto(t, from, to) == pc[t] = from /\ pc' = [pc EXCEPT ![t] = to]
-----------------------------------------------------------------------------
(* Mutant: the result of try_acquire() is ignored. *)
AcquireEmptyAnyway(t) ==
    /\ t \in Producers /\ moved[t] < Quota[t]
    /\ sem_empty_' = IF sem_empty_ > 0 THEN sem_empty_ - 1 ELSE 0
    /\ Goto(t, "enter", "admitted")
    /\ UNCHANGED <<sem_full_, head_, tail_, buffer_, moved, got>>

(* sem_empty_.acquire() or a successful try_acquire(). *)
AcquireEmpty(t) ==
    /\ t \in Producers /\ moved[t] < Quota[t]
    /\ sem_empty_ > 0
    /\ sem_empty_' = sem_empty_ - 1
    /\ Goto(t, "enter", "admitted")
    /\ UNCHANGED <<sem_full_, head_, tail_, buffer_, moved, got>>

(* Store the item and advance tail_, with the mutex held. *)
Insert(t) ==
    /\ t \in Producers
    /\ buffer_' = [buffer_ EXCEPT ![tail_] = <<t, moved[t] + 1>>]
    /\ tail_' = next(tail_)
    /\ moved' = [moved EXCEPT ![t] = @ + 1]
    /\ Goto(t, "admitted", "moved")
    /\ UNCHANGED <<sem_empty_, sem_full_, head_, got>>

ReleaseFull(t) ==
    /\ t \in Producers
    /\ sem_full_' = sem_full_ + 1
    /\ Goto(t, "moved", "enter")
    /\ UNCHANGED <<sem_empty_, head_, tail_, buffer_, moved, got>>

(* sem_full_.acquire() or a successful try_acquire(). *)
AcquireFull(t) ==
    /\ t \in Consumers /\ moved[t] < Quota[t]
    /\ sem_full_ > 0
    /\ sem_full_' = sem_full_ - 1
    /\ Goto(t, "enter", "admitted")
    /\ UNCHANGED <<sem_empty_, head_, tail_, buffer_, moved, got>>

(* Mutant: the item is fetched after head_ was advanced. *)
RemoveAfterAdvance(t) ==
    /\ t \in Consumers
    /\ head_' = next(head_)
    /\ got' = [got EXCEPT ![t] = Append(@, buffer_[head_'])]
    /\ moved' = [moved EXCEPT ![t] = @ + 1]
    /\ Goto(t, "admitted", "moved")
    /\ UNCHANGED <<sem_empty_, sem_full_, tail_, buffer_>>

(* Fetch the item and advance head_, with the mutex held. *)
Remove(t) ==
    /\ t \in Consumers
    /\ got' = [got EXCEPT ![t] = Append(@, buffer_[head_])]
    /\ head_' = next(head_)
    /\ moved' = [moved EXCEPT ![t] = @ + 1]
    /\ Goto(t, "admitted", "moved")
    /\ UNCHANGED <<sem_empty_, sem_full_, tail_, buffer_>>

(* Mutant: the consumer releases the semaphore it acquired. *)
ReleaseFullAgain(t) ==
    /\ t \in Consumers
    /\ sem_full_' = sem_full_ + 1
    /\ Goto(t, "moved", "enter")
    /\ UNCHANGED <<sem_empty_, head_, tail_, buffer_, moved, got>>

ReleaseEmpty(t) ==
    /\ t \in Consumers
    /\ sem_empty_' = sem_empty_ + 1
    /\ Goto(t, "moved", "enter")
    /\ UNCHANGED <<sem_full_, head_, tail_, buffer_, moved, got>>

(* The std::jthreads of push_pop() or try_push_pop() have been joined. *)
AllDone == \A t \in Thread : moved[t] = Quota[t] /\ pc[t] = "enter"
Joined == AllDone /\ UNCHANGED vars

Step(t) ==
    \/ AcquireEmpty(t) \/ Insert(t) \/ ReleaseFull(t)
    \/ AcquireFull(t) \/ Remove(t) \/ ReleaseEmpty(t)

Next == (\E t \in Thread : Step(t)) \/ Joined

Spec == Init /\ [][Next]_vars

(* Every thread that can run is run; a retry loop tries again. *)
FairSpec == Spec /\ \A t \in Thread : WF_vars(Step(t))
-----------------------------------------------------------------------------
TypeOK ==
    /\ sem_empty_ \in Nat /\ sem_full_ \in Nat
    /\ head_ \in Index /\ tail_ \in Index
    /\ buffer_ \in [Index -> Item \cup {Unset}]
    /\ pc \in [Thread -> {"enter", "admitted", "moved"}]
    /\ moved \in [Thread -> Nat]
    /\ got \in [Consumers -> Seq(Item)]

(* Places that hold an item: those sem_full_ advertises, those a producer   *)
(* filled and has yet to advertise, those a consumer was granted and has    *)
(* yet to empty.  Free places are counted the same way.                     *)
Occupied ==
    sem_full_ + At("moved", Producers) + At("admitted", Consumers)
Free ==
    sem_empty_ + At("moved", Consumers) + At("admitted", Producers)

(* No permit is lost or created: in every interleaving of the three steps   *)
(* of the operations the permits, those in flight included, account for     *)
(* each of the Capacity places exactly once.                                *)
PermitsAccountForPlaces == Occupied + Free = Capacity

(* The indices, which move under the mutex, agree with the permits, which   *)
(* move outside it: the occupied places are those from head_ up to tail_.   *)
IndicesAgreeWithPermits == tail_ = (head_ + Occupied) % Capacity

(* The places are accounted for, by permits and indices alike. *)
PlacesAccounted == PermitsAccountForPlaces /\ IndicesAgreeWithPermits

(* The queue is a FIFO of Capacity places: no item is overwritten before it *)
(* is fetched, fetched twice, lost, or fetched from a place that was never  *)
(* written, although insertions and removals overlap.                       *)
Contents == [i \in 1 .. Occupied |-> buffer_[(head_ + i - 1) % Capacity]]
Fifo == INSTANCE BoundedFifo WITH
            queue <- Contents, sent <- [p \in Producers |-> moved[p]],
            Bound <- Capacity
IsFifo == Fifo!Spec

(* The producer and consumer loops end, so that the jthreads are joined. *)
Terminates == <>AllDone
=============================================================================
