----------------------------- MODULE SpscQueue -----------------------------
(***************************************************************************)
(* spsc_lock_free_queue of common/spsc_lock_free_queue.h with the producer *)
(* and the consumer of chapters/chapter_05/program_09/main.cpp, under the  *)
(* release/acquire rules of the C++ memory model.                          *)
(*                                                                         *)
(* tail_ and head_ are each written by one thread, so the state of such an *)
(* atomic is how many times it has been stored to: its n-th value is       *)
(* n % Capacity.  An acquire load by the other thread may return any store *)
(* that is not older than the one it read before (coherence), however many *)
(* there have been since; head_seen and tail_seen are the stores that the  *)
(* last loads returned.  What a thread did before a release store happens  *)
(* before what the other does after it reads that store, and nothing else  *)
(* orders the plain accesses to buffer_.                                   *)
(*                                                                         *)
(* `& (capacity_ - 1)` is % Capacity, the constructor having asserted that *)
(* the capacity is a power of two.  (It accepts 0 too, for which no call   *)
(* works: 0 is left out.)                                                  *)
(***************************************************************************)
EXTENDS Naturals, Sequences

CONSTANTS Capacity, NUM_STEPS

ASSUME CapacityAssumption ==
    Capacity \in Nat \ {0} /\ \E k \in 0 .. Capacity : Capacity = 2 ^ k
ASSUME StepsAssumption == NUM_STEPS \in Nat

VARIABLES tail_, head_,     \* stores so far
          head_seen,        \* the store of head_ that push() last loaded
          tail_seen,        \* the store of tail_ that pop() last loaded
          buffer_,
          ppc,              \* producer: "load", "write", "publish"
          cpc,              \* consumer: "load", "read", "release"
          data,             \* what pop() has read and not yet returned
          received          \* what the consumer has got, in order

spscVars == <<tail_, head_, head_seen, tail_seen, buffer_, ppc, cpc, data, received>>

mask(position) == position % Capacity
Item == 1 .. NUM_STEPS
Unset == 0

SpscInit ==
    /\ tail_ = 0 /\ head_ = 0
    /\ head_seen = 0 /\ tail_seen = 0
    /\ buffer_ = [i \in 0 .. Capacity - 1 |-> Unset]
    /\ ppc = "load" /\ cpc = "load"
    /\ data = Unset
    /\ received = << >>
-----------------------------------------------------------------------------
(* Mutant: the free slot that tells full from empty is not kept. *)
LoadHeadNoGap(store) ==
    /\ ppc = "load" /\ tail_ < NUM_STEPS
    /\ store \in head_seen .. head_
    /\ head_seen' = store
    /\ ppc' = IF tail_ - store < Capacity THEN "write" ELSE "load"
    /\ UNCHANGED <<tail_, head_, tail_seen, buffer_, cpc, data, received>>

(* push() up to its test: the head_ it loads is some store not older than   *)
(* the last one it saw.  A full queue makes push() return false and the     *)
(* producer call it again.                                                  *)
LoadHead(store) ==
    /\ ppc = "load" /\ tail_ < NUM_STEPS
    /\ store \in head_seen .. head_
    /\ head_seen' = store
    /\ ppc' = IF mask(tail_ + 1) # mask(store) THEN "write" ELSE "load"
    /\ UNCHANGED <<tail_, head_, tail_seen, buffer_, cpc, data, received>>

(* buffer_[tail] = item, for the item number tail_ + 1. *)
WriteSlot ==
    /\ ppc = "write"
    /\ buffer_' = [buffer_ EXCEPT ![mask(tail_)] = tail_ + 1]
    /\ ppc' = "publish"
    /\ UNCHANGED <<tail_, head_, head_seen, tail_seen, cpc, data, received>>

StoreTail ==
    /\ ppc = "publish"
    /\ tail_' = tail_ + 1
    /\ ppc' = "load"
    /\ UNCHANGED <<head_, head_seen, tail_seen, buffer_, cpc, data, received>>

(* Mutant: the index of the next slot is compared. *)
LoadTailNext(store) ==
    /\ cpc = "load" /\ head_ < NUM_STEPS
    /\ store \in tail_seen .. tail_
    /\ tail_seen' = store
    /\ cpc' = IF mask(head_ + 1) # mask(store) THEN "read" ELSE "load"
    /\ UNCHANGED <<tail_, head_, head_seen, buffer_, ppc, data, received>>

(* pop() up to its test; on an empty queue it returns false and is called   *)
(* again.                                                                   *)
LoadTail(store) ==
    /\ cpc = "load" /\ head_ < NUM_STEPS
    /\ store \in tail_seen .. tail_
    /\ tail_seen' = store
    /\ cpc' = IF mask(head_) # mask(store) THEN "read" ELSE "load"
    /\ UNCHANGED <<tail_, head_, head_seen, buffer_, ppc, data, received>>

(* item = buffer_[head] *)
ReadSlot ==
    /\ cpc = "read"
    /\ data' = buffer_[mask(head_)]
    /\ cpc' = "release"
    /\ UNCHANGED <<tail_, head_, head_seen, tail_seen, buffer_, ppc, received>>

StoreHead ==
    /\ cpc = "release"
    /\ head_' = head_ + 1
    /\ received' = Append(received, data)
    /\ cpc' = "load"
    /\ UNCHANGED <<tail_, head_seen, tail_seen, buffer_, ppc, data>>

(* main() has joined both threads. *)
BothJoined ==
    tail_ = NUM_STEPS /\ ppc = "load" /\ head_ = NUM_STEPS /\ cpc = "load"
SpscJoined == BothJoined /\ UNCHANGED spscVars

Producer == (\E store \in 0 .. NUM_STEPS : LoadHead(store)) \/ WriteSlot \/ StoreTail
Consumer == (\E store \in 0 .. NUM_STEPS : LoadTail(store)) \/ ReadSlot \/ StoreHead

SpscNext == Producer \/ Consumer \/ SpscJoined

SpscSpec == SpscInit /\ [][SpscNext]_spscVars

(* Both threads run, and a store becomes visible to the other thread in a   *)
(* finite time: the loop around push() or pop() does not read an outdated   *)
(* value for ever.                                                          *)
SpscFairSpec ==
    /\ SpscSpec /\ WF_spscVars(Producer) /\ WF_spscVars(Consumer)
    /\ WF_spscVars(LoadHead(head_)) /\ WF_spscVars(LoadTail(tail_))
-----------------------------------------------------------------------------
SpscTypeOK ==
    /\ tail_ \in 0 .. NUM_STEPS /\ head_ \in 0 .. NUM_STEPS
    /\ head_seen \in 0 .. NUM_STEPS /\ tail_seen \in 0 .. NUM_STEPS
    /\ buffer_ \in [0 .. Capacity - 1 -> Item \cup {Unset}]
    /\ ppc \in {"load", "write", "publish"}
    /\ cpc \in {"load", "read", "release"}
    /\ data \in Item \cup {Unset}
    /\ received \in Seq(Item \cup {Unset})

(* The positions stay in order and within one lap, as far as each thread    *)
(* has seen: what push() and pop() conclude from wrapped indices, possibly  *)
(* outdated, is true of the positions.                                      *)
WithinOneLap ==
    /\ head_seen <= head_ /\ head_ <= tail_ /\ tail_seen <= tail_
    /\ tail_ - head_seen < Capacity
    /\ ppc \in {"write", "publish"} => tail_ + 1 - head_seen < Capacity
    /\ cpc \in {"read", "release"} => head_ < tail_seen

(* The plain accesses to a slot never race: when push() writes the slot,    *)
(* the pop() that last read it happens before (the release store of it was  *)
(* read), and when pop() reads the slot, the push() that wrote it does.     *)
SlotsDoNotRace ==
    /\ ppc = "write" /\ tail_ >= Capacity => tail_ - Capacity < head_seen
    /\ cpc = "read" => head_ < tail_seen
    /\ ~ (ppc = "write" /\ cpc = "read" /\ mask(tail_) = mask(head_))

(* The two lock-free threads implement a FIFO of Capacity - 1 places: the   *)
(* consumer gets what was produced, in order, nothing lost or repeated.     *)
Fifo == INSTANCE BoundedFifo WITH
            Producers <- {"producer"}, Consumers <- {"consumer"},
            Quota <- [t \in {"producer", "consumer"} |-> NUM_STEPS],
            Bound <- Capacity - 1,
            queue <- [i \in 1 .. tail_ - head_ |->
                         <<"producer", buffer_[mask(head_ + i - 1)]>>],
            sent <- [p \in {"producer"} |-> tail_],
            got <- [c \in {"consumer"} |->
                       [i \in DOMAIN received |-> <<"producer", received[i]>>]]
IsFifo == Fifo!Spec

(* Both spinning loops end. *)
SpscTerminates == <>BothJoined
=============================================================================
