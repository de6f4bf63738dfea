-------------------------- MODULE MutexQueueProofs --------------------------
(***************************************************************************)
(* For every capacity, any finite sets of producers and consumers and any  *)
(* mix of the four operations: no wakeup is lost between the unlock and    *)
(* the notify_one() that follows it, and the circular buffer is a FIFO.    *)
(***************************************************************************)
EXTENDS MutexQueue, CommonTheorems

(* What the wakeups rest on: a blocked thread is inside wait(), a thread    *)
(* inside push() or pop() has an item to move, and the consumers that       *)
(* notify the wrong condition variable have set try_popped.                 *)
WaitersWait == \A t \in not_full_ \cup not_empty_ : pc[t] = "wait"
ItemToMove == \A t \in Thread : pc[t] \in {"wait", "locked"} => moved[t] < Quota[t]
TryPops == \A c \in Consumers \cap trying : pc[c] = "notify" => try_popped

(* The mutex is owned by the one thread that is past its lock.              *)
OneOwner ==
    /\ mtx_ = { t \in Thread : pc[t] = "locked" }
    /\ \A t, u \in mtx_ : t = u

(* Each consumer has received as many items as its loop has counted.        *)
Received == \A c \in Consumers : Len(got[c]) = moved[c]

Inside == TypeOK /\ WaitersWait /\ ItemToMove /\ TryPops /\ OneOwner /\ Received

IInv == Inside /\ NoWakeupLost

LEMMA ThreadSets ==
    /\ Producers \subseteq Thread /\ Consumers \subseteq Thread
    /\ IsFiniteSet(Producers) /\ IsFiniteSet(Consumers)
<1>1. Producers \subseteq Thread /\ Consumers \subseteq Thread
  BY DEF Thread
<1> QED
  BY <1>1, ThreadAssumption, FS_Subset
-----------------------------------------------------------------------------
(* The circular buffer *)

LEMMA NextIndex ==
    \A i \in Index : /\ next(i) \in Index
                     /\ next(i) = IF i = Capacity - 1 THEN 0 ELSE i + 1
<1> SUFFICES ASSUME NEW i \in Index
             PROVE  /\ next(i) \in Index
                    /\ next(i) = IF i = Capacity - 1 THEN 0 ELSE i + 1
  OBVIOUS
<1> DEFINE j == i + 1
<1>1. j \in 0 .. 2 * Capacity - 1 /\ j = i + 1
  BY CapacityAssumption DEF Index
<1> HIDE DEF j
<1>2. j % Capacity = IF j < Capacity THEN j ELSE j - Capacity
  BY <1>1, WithinTwoLaps, CapacityAssumption
<1> QED
  BY <1>1, <1>2, CapacityAssumption DEF Index, next

(* How far the ring is filled from one index up to another.                 *)
LEMMA Distance ==
    \A from, to \in Index :
        (to + Capacity - from) % Capacity
            = IF from <= to THEN to - from ELSE to + Capacity - from
<1> SUFFICES ASSUME NEW from \in Index, NEW to \in Index
             PROVE  (to + Capacity - from) % Capacity
                     = IF from <= to THEN to - from ELSE to + Capacity - from
  OBVIOUS
<1> DEFINE sum == to + Capacity - from
<1>1. sum \in 0 .. 2 * Capacity - 1 /\ sum = to + Capacity - from
  BY CapacityAssumption DEF Index
<1> HIDE DEF sum
<1>2. sum % Capacity = IF sum < Capacity THEN sum ELSE sum - Capacity
  BY <1>1, WithinTwoLaps, CapacityAssumption
<1> QED
  BY <1>1, <1>2, CapacityAssumption DEF Index, sum

(* How many items there are, and that one place stays empty.                *)
LEMMA OccupiedValue ==
    ASSUME TypeOK
    PROVE  /\ Occupied = IF head_ <= tail_ THEN tail_ - head_
                         ELSE tail_ + Capacity - head_
           /\ Occupied \in 0 .. Capacity - 1
           /\ is_empty <=> Occupied = 0
           /\ is_full <=> Occupied = Capacity - 1
<1>1. head_ \in 0 .. Capacity - 1 /\ tail_ \in 0 .. Capacity - 1
  BY DEF TypeOK, Index
<1>2. Occupied = IF head_ <= tail_ THEN tail_ - head_
                 ELSE tail_ + Capacity - head_
  BY <1>1, Distance DEF Index, Occupied
<1>3. next(tail_) = IF tail_ = Capacity - 1 THEN 0 ELSE tail_ + 1
  BY NextIndex DEF TypeOK
<1> QED
  BY <1>1, <1>2, <1>3, CapacityAssumption DEF is_empty, is_full

(* A step that leaves the indices alone leaves the number of items alone,   *)
(* and the two that move one index change it by one.                        *)
LEMMA OccupiedMoves ==
    ASSUME TypeOK
    PROVE  /\ UNCHANGED <<head_, tail_>> => Occupied' = Occupied
           /\ ~is_full /\ head_' = head_ /\ tail_' = next(tail_)
                => Occupied' = Occupied + 1
           /\ ~is_empty /\ tail_' = tail_ /\ head_' = next(head_)
                => Occupied' = Occupied - 1
<1>1. head_ \in 0 .. Capacity - 1 /\ tail_ \in 0 .. Capacity - 1
  BY DEF TypeOK, Index
<1>2. /\ next(tail_) = IF tail_ = Capacity - 1 THEN 0 ELSE tail_ + 1
      /\ next(head_) = IF head_ = Capacity - 1 THEN 0 ELSE head_ + 1
  BY NextIndex DEF TypeOK
<1>3. /\ Occupied = IF head_ <= tail_ THEN tail_ - head_
                    ELSE tail_ + Capacity - head_
      /\ is_empty <=> Occupied = 0
      /\ is_full <=> Occupied = Capacity - 1
  BY OccupiedValue
<1>4. head_' \in Index /\ tail_' \in Index
        => Occupied' = IF head_' <= tail_' THEN tail_' - head_'
                       ELSE tail_' + Capacity - head_'
  BY Distance DEF Occupied
<1>5. UNCHANGED <<head_, tail_>> => Occupied' = Occupied
  BY DEF Occupied
<1>6. ASSUME ~is_full, head_' = head_, tail_' = next(tail_)
      PROVE  Occupied' = Occupied + 1
  <2>1. head_' \in Index /\ tail_' \in Index
    BY <1>6, NextIndex DEF TypeOK
  <2> QED
    BY <1>1, <1>2, <1>3, <1>4, <1>6, <2>1, CapacityAssumption DEF Index
<1>7. ASSUME ~is_empty, tail_' = tail_, head_' = next(head_)
      PROVE  Occupied' = Occupied - 1
  <2>1. head_' \in Index /\ tail_' \in Index
    BY <1>7, NextIndex DEF TypeOK
  <2> QED
    BY <1>1, <1>2, <1>3, <1>4, <1>7, <2>1, CapacityAssumption DEF Index
<1> QED
  BY <1>5, <1>6, <1>7
-----------------------------------------------------------------------------
(* Types, owner of the mutex, and what the threads in an operation know *)

LEMMA InsideInit == Init => Inside
<1> SUFFICES ASSUME Init PROVE Inside
  OBVIOUS
<1>1. TypeOK
  <2>1. head_ \in Index /\ tail_ \in Index
    BY CapacityAssumption DEF Init, Index
  <2>2. got \in [Consumers -> Seq(Item \cup {Unset})]
    BY DEF Init
  <2>3. buffer_ \in [Index -> Item \cup {Unset}]
    BY DEF Init
  <2>4. pc \in [Thread -> {"call", "wait", "locked", "notify"}] /\ moved \in [Thread -> Nat]
    BY DEF Init
  <2>5. /\ mtx_ = {} /\ not_full_ = {} /\ not_empty_ = {}
        /\ trying = {} /\ try_popped = FALSE
    BY DEF Init
  <2> QED
    BY <2>1, <2>2, <2>3, <2>4, <2>5 DEF TypeOK
<1>2. Received
  BY ThreadSets DEF Init, Received
<1>3. WaitersWait /\ ItemToMove /\ TryPops /\ OneOwner
  BY DEF Init, WaitersWait, ItemToMove, TryPops, OneOwner
<1> QED
  BY <1>1, <1>2, <1>3 DEF Inside

LEMMA InsideStep == Inside /\ [Next]_vars => Inside'
<1> SUFFICES ASSUME Inside, [Next]_vars PROVE Inside'
  OBVIOUS
<1> USE DEF Inside, WaitersWait, ItemToMove, TryPops, OneOwner, Received
<1>q. Quota \in [Thread -> Nat] /\ Producers \cap Consumers = {}
  BY ThreadAssumption
<1>s. Producers \subseteq Thread /\ Consumers \subseteq Thread
  BY ThreadSets
<1>1. ASSUME NEW t \in Thread, Lock(t) PROVE Inside'
  BY <1>1, <1>q, <1>s DEF Lock, Goto, TypeOK
<1>2. ASSUME NEW t \in Thread, Relock(t) PROVE Inside'
  BY <1>2, <1>q, <1>s DEF Relock, Goto, TypeOK
<1>3. ASSUME NEW t \in Thread, WaitNotFull(t) PROVE Inside'
  BY <1>3, <1>q, <1>s DEF WaitNotFull, Goto, TypeOK
<1>4. ASSUME NEW t \in Thread, WaitNotEmpty(t) PROVE Inside'
  BY <1>4, <1>q, <1>s DEF WaitNotEmpty, Goto, TypeOK
<1>5. ASSUME NEW t \in Thread, GiveUp(t) PROVE Inside'
  BY <1>5, <1>q, <1>s DEF GiveUp, Goto, TypeOK
<1>6. ASSUME NEW t \in Thread, Insert(t) PROVE Inside'
  <2>1. <<t, moved[t] + 1>> \in Item
    BY <1>6 DEF Insert, TypeOK, Item
  <2>2. next(tail_) \in Index
    BY NextIndex DEF TypeOK
  <2> HIDE DEF Item
  <2> QED
    BY <1>6, <2>1, <2>2, <1>q, <1>s DEF Insert, Goto, TypeOK
<1>7. ASSUME NEW t \in Thread, Remove(t) PROVE Inside'
  <2>1. buffer_[head_] \in Item \cup {Unset} /\ next(head_) \in Index
    BY NextIndex DEF TypeOK
  <2>2. /\ t \in Consumers /\ got[t] \in Seq(Item \cup {Unset})
        /\ got' = [got EXCEPT ![t] = Append(got[t], buffer_[head_])]
        /\ moved' = [moved EXCEPT ![t] = moved[t] + 1]
    BY <1>7 DEF Remove, TypeOK
  <2>3. /\ Append(got[t], buffer_[head_]) \in Seq(Item \cup {Unset})
        /\ Len(Append(got[t], buffer_[head_])) = moved[t] + 1
    BY <2>1, <2>2
  <2>4. got' \in [Consumers -> Seq(Item \cup {Unset})] /\ Received'
    BY <2>2, <2>3, <1>s DEF TypeOK
  <2>5. TypeOK'
    BY <1>7, <2>1, <2>4, <1>s DEF Remove, Goto, TypeOK
  <2>6. ItemToMove'
    BY <1>7, <1>s DEF Remove, Goto, TypeOK
  <2>7. WaitersWait' /\ OneOwner'
    BY <1>7, <1>q, <1>s DEF Remove, Goto, TypeOK
  <2>8. TryPops'
    <3> SUFFICES ASSUME NEW c \in Consumers \cap trying, pc'[c] = "notify"
                 PROVE  try_popped'
      BY <1>7 DEF Remove
    <3>1. CASE c = t
      BY <1>7, <3>1 DEF Remove
    <3>2. CASE c # t
      <4>1. pc[c] = "notify"
        BY <1>7, <3>2 DEF Remove, Goto, TypeOK
      <4>2. try_popped
        BY <4>1
      <4> QED
        BY <1>7, <4>2 DEF Remove
    <3> QED
      BY <3>1, <3>2
  <2> QED
    BY <2>4, <2>5, <2>6, <2>7, <2>8
<1>8. ASSUME NEW t \in Thread, NotifyAfter(t) PROVE Inside'
  <2>1. not_full_' \subseteq not_full_ /\ not_empty_' \subseteq not_empty_
    BY <1>8 DEF NotifyAfter, NotifyOne
  <2> QED
    BY <1>8, <2>1, <1>q, <1>s DEF NotifyAfter, Goto, TypeOK
<1>9. ASSUME NEW t \in Thread, SpuriousWakeup(t) PROVE Inside'
  BY <1>9, <1>q, <1>s DEF SpuriousWakeup, TypeOK
<1>10. CASE Joined \/ UNCHANGED vars
  BY <1>10 DEF Joined, vars, TypeOK
<1> QED
  BY <1>1, <1>2, <1>3, <1>4, <1>5, <1>6, <1>7, <1>8, <1>9, <1>10 DEF Next, Step
-----------------------------------------------------------------------------
(* Wakeups *)

notifying(S) == Cardinality(NotifyingAmong(S))
awake(S) == Cardinality(AwakeAmong(S))

LEMMA CountsFinite ==
    ASSUME NEW S \in {Producers, Consumers}
    PROVE  /\ IsFiniteSet(NotifyingAmong(S)) /\ IsFiniteSet(AwakeAmong(S))
           /\ IsFiniteSet(NotifyingAmong(S)') /\ IsFiniteSet(AwakeAmong(S)')
           /\ notifying(S) \in Nat /\ awake(S) \in Nat
           /\ notifying(S)' \in Nat /\ awake(S)' \in Nat
<1>1. IsFiniteSet(S)
  BY ThreadSets
<1>2. /\ NotifyingAmong(S) \subseteq S /\ AwakeAmong(S) \subseteq S
      /\ NotifyingAmong(S)' \subseteq S /\ AwakeAmong(S)' \subseteq S
  BY DEF NotifyingAmong, AwakeAmong
<1>3. /\ IsFiniteSet(NotifyingAmong(S)) /\ IsFiniteSet(AwakeAmong(S))
      /\ IsFiniteSet(NotifyingAmong(S)') /\ IsFiniteSet(AwakeAmong(S)')
  BY <1>1, <1>2, FS_Subset
<1> QED
  BY <1>3, FS_CardinalityType DEF notifying, awake

(* A step that concerns one thread changes a count by that thread alone.    *)
LEMMA CountsMove ==
    ASSUME NEW S \in {Producers, Consumers}, NEW t \in Thread,
           \A u \in Thread \ {t} : /\ pc'[u] = pc[u] /\ moved'[u] = moved[u]
                                   /\ u \in not_full_' <=> u \in not_full_
                                   /\ u \in not_empty_' <=> u \in not_empty_
    PROVE  /\ (t \in NotifyingAmong(S)' /\ t \notin NotifyingAmong(S)
                 => notifying(S)' = notifying(S) + 1)
           /\ (t \notin NotifyingAmong(S)' /\ t \in NotifyingAmong(S)
                 => notifying(S)' = notifying(S) - 1)
           /\ ((t \in NotifyingAmong(S)' <=> t \in NotifyingAmong(S))
                 => notifying(S)' = notifying(S))
           /\ (t \in AwakeAmong(S)' /\ t \notin AwakeAmong(S)
                 => awake(S)' = awake(S) + 1)
           /\ (t \notin AwakeAmong(S)' /\ t \in AwakeAmong(S)
                 => awake(S)' = awake(S) - 1)
           /\ ((t \in AwakeAmong(S)' <=> t \in AwakeAmong(S))
                 => awake(S)' = awake(S))
<1>1. S \subseteq Thread
  BY ThreadSets
<1>2. NotifyingAmong(S)' \ {t} = NotifyingAmong(S) \ {t}
  BY <1>1 DEF NotifyingAmong
<1>3. AwakeAmong(S)' \ {t} = AwakeAmong(S) \ {t}
  BY <1>1 DEF AwakeAmong
<1>4. IsFiniteSet(NotifyingAmong(S)) /\ IsFiniteSet(AwakeAmong(S))
  BY CountsFinite
<1> HIDE DEF NotifyingAmong, AwakeAmong
<1>5. /\ (t \in NotifyingAmong(S)' /\ t \notin NotifyingAmong(S)
            => notifying(S)' = notifying(S) + 1)
      /\ (t \notin NotifyingAmong(S)' /\ t \in NotifyingAmong(S)
            => notifying(S)' = notifying(S) - 1)
      /\ ((t \in NotifyingAmong(S)' <=> t \in NotifyingAmong(S))
            => notifying(S)' = notifying(S))
  BY <1>2, <1>4, CardinalityMove DEF notifying
<1>6. /\ (t \in AwakeAmong(S)' /\ t \notin AwakeAmong(S)
            => awake(S)' = awake(S) + 1)
      /\ (t \notin AwakeAmong(S)' /\ t \in AwakeAmong(S)
            => awake(S)' = awake(S) - 1)
      /\ ((t \in AwakeAmong(S)' <=> t \in AwakeAmong(S))
            => awake(S)' = awake(S))
  BY <1>3, <1>4, CardinalityMove DEF awake
<1> QED
  BY <1>5, <1>6

(* Two wakeup invariants, in the terms of these counts.                     *)
SlotsCovered ==
    not_full_ # {} /\ ~try_popped
        => Capacity - 1 - Occupied <= notifying(Consumers) + awake(Producers)
ItemsCovered ==
    not_empty_ # {} => Occupied <= notifying(Producers) + awake(Consumers)

LEMMA WakeupStep ==
    ASSUME IInv, Inside', [Next]_vars
    PROVE  SlotsCovered' /\ ItemsCovered'
<1>a. Inside /\ SlotsCovered /\ ItemsCovered
  BY DEF IInv, NoWakeupLost, WakeupForFreeSlot, WakeupForItem, Free,
         SlotsCovered, ItemsCovered, notifying, awake
<1>b. TypeOK /\ WaitersWait /\ ItemToMove /\ TryPops
  BY <1>a DEF Inside
<1>c. /\ notifying(Producers) \in Nat /\ notifying(Producers)' \in Nat
      /\ notifying(Consumers) \in Nat /\ notifying(Consumers)' \in Nat
      /\ awake(Producers) \in Nat /\ awake(Producers)' \in Nat
      /\ awake(Consumers) \in Nat /\ awake(Consumers)' \in Nat
  BY CountsFinite
<1>d. /\ Occupied \in 0 .. Capacity - 1 /\ Capacity \in Nat
      /\ is_empty <=> Occupied = 0
      /\ is_full <=> Occupied = Capacity - 1
  BY <1>b, OccupiedValue, CapacityAssumption
<1>e. /\ Producers \subseteq Thread /\ Consumers \subseteq Thread
      /\ Producers \cap Consumers = {} /\ Thread = Producers \cup Consumers
      /\ Quota \in [Thread -> Nat]
  BY ThreadSets, ThreadAssumption DEF Thread
<1> DEFINE Others(t) == \A u \in Thread \ {t} :
                /\ pc'[u] = pc[u] /\ moved'[u] = moved[u]
                /\ u \in not_full_' <=> u \in not_full_
                /\ u \in not_empty_' <=> u \in not_empty_
(* Taking the mutex, and giving up with it: still awake. *)
<1>1. ASSUME NEW t \in Thread, Lock(t) \/ Relock(t) \/ GiveUp(t)
      PROVE  SlotsCovered' /\ ItemsCovered'
  <2>1. Others(t) /\ UNCHANGED <<head_, tail_, not_full_, not_empty_, try_popped>>
    BY <1>1, <1>b DEF Lock, Relock, GiveUp, Goto, TypeOK
  <2>2. \A S \in {Producers, Consumers} :
            /\ t \in NotifyingAmong(S)' <=> t \in NotifyingAmong(S)
            /\ t \in AwakeAmong(S)' <=> t \in AwakeAmong(S)
    BY <1>1, <1>b, <1>e DEF Lock, Relock, GiveUp, Goto, TypeOK, ItemToMove,
                            NotifyingAmong, AwakeAmong
  <2>3. \A S \in {Producers, Consumers} :
            notifying(S)' = notifying(S) /\ awake(S)' = awake(S)
    BY <2>1, <2>2, CountsMove
  <2>4. Occupied' = Occupied
    BY <2>1, <1>b, OccupiedMoves
  <2> QED
    BY <2>1, <2>3, <2>4, <1>a DEF SlotsCovered, ItemsCovered
(* A producer goes to sleep on a full queue: there is no slot to cover. *)
<1>2. ASSUME NEW t \in Thread, WaitNotFull(t)
      PROVE  SlotsCovered' /\ ItemsCovered'
  <2>1. /\ Others(t) /\ UNCHANGED <<head_, tail_, not_empty_>>
        /\ t \in Producers /\ is_full
    BY <1>2, <1>b DEF WaitNotFull, Goto, TypeOK
  <2>2. /\ t \notin NotifyingAmong(Producers)' /\ t \notin NotifyingAmong(Producers)
        /\ t \notin AwakeAmong(Consumers)' /\ t \notin AwakeAmong(Consumers)
    BY <1>2, <1>b, <1>e, <2>1 DEF WaitNotFull, Goto, TypeOK, NotifyingAmong, AwakeAmong
  <2>3. /\ notifying(Producers)' = notifying(Producers)
        /\ awake(Consumers)' = awake(Consumers)
    BY <2>1, <2>2, CountsMove
  <2>4. Occupied' = Occupied
    BY <2>1, <1>b, OccupiedMoves
  <2> QED
    BY <2>1, <2>3, <2>4, <1>a, <1>c, <1>d DEF SlotsCovered, ItemsCovered
(* A consumer goes to sleep on an empty queue: there is no item to cover. *)
<1>3. ASSUME NEW t \in Thread, WaitNotEmpty(t)
      PROVE  SlotsCovered' /\ ItemsCovered'
  <2>1. /\ Others(t) /\ UNCHANGED <<head_, tail_, not_full_, try_popped>>
        /\ t \in Consumers /\ is_empty
    BY <1>3, <1>b DEF WaitNotEmpty, Goto, TypeOK
  <2>2. /\ t \notin NotifyingAmong(Consumers)' /\ t \notin NotifyingAmong(Consumers)
        /\ t \notin AwakeAmong(Producers)' /\ t \notin AwakeAmong(Producers)
    BY <1>3, <1>b, <1>e, <2>1 DEF WaitNotEmpty, Goto, TypeOK, NotifyingAmong, AwakeAmong
  <2>3. /\ notifying(Consumers)' = notifying(Consumers)
        /\ awake(Producers)' = awake(Producers)
    BY <2>1, <2>2, CountsMove
  <2>4. Occupied' = Occupied
    BY <2>1, <1>b, OccupiedMoves
  <2> QED
    BY <2>1, <2>3, <2>4, <1>a, <1>c, <1>d DEF SlotsCovered, ItemsCovered
(* One item more and one notification of it, one slot less and one awake    *)
(* producer less.                                                           *)
<1>4. ASSUME NEW t \in Thread, Insert(t)
      PROVE  SlotsCovered' /\ ItemsCovered'
  <2>1. /\ Others(t) /\ UNCHANGED <<head_, not_full_, not_empty_, try_popped>>
        /\ t \in Producers /\ ~is_full /\ tail_' = next(tail_)
    BY <1>4, <1>b DEF Insert, Goto, TypeOK
  <2>2. /\ t \in NotifyingAmong(Producers)' /\ t \notin NotifyingAmong(Producers)
        /\ t \notin NotifyingAmong(Consumers)' /\ t \notin NotifyingAmong(Consumers)
        /\ t \notin AwakeAmong(Producers)' /\ t \in AwakeAmong(Producers)
        /\ t \notin AwakeAmong(Consumers)' /\ t \notin AwakeAmong(Consumers)
    BY <1>4, <1>b, <1>e, <2>1 DEF Insert, Goto, TypeOK, NotifyingAmong, AwakeAmong
  <2>3. /\ notifying(Producers)' = notifying(Producers) + 1
        /\ notifying(Consumers)' = notifying(Consumers)
        /\ awake(Producers)' = awake(Producers) - 1
        /\ awake(Consumers)' = awake(Consumers)
    BY <2>1, <2>2, CountsMove
  <2>4. Occupied' = Occupied + 1
    BY <2>1, <1>b, OccupiedMoves
  <2> QED
    BY <2>1, <2>3, <2>4, <1>a, <1>c, <1>d DEF SlotsCovered, ItemsCovered
(* One item less and one awake consumer less, one slot more and, unless it  *)
(* is try_pop() that frees it, one notification of it.                      *)
<1>5. ASSUME NEW t \in Thread, Remove(t)
      PROVE  SlotsCovered' /\ ItemsCovered'
  <2>1. /\ Others(t) /\ UNCHANGED <<tail_, not_full_, not_empty_>>
        /\ t \in Consumers /\ ~is_empty /\ head_' = next(head_)
        /\ try_popped => try_popped'
    BY <1>5, <1>b DEF Remove, Goto, TypeOK
  <2>2. /\ t \in NotifyingAmong(Consumers)' /\ t \notin NotifyingAmong(Consumers)
        /\ t \notin NotifyingAmong(Producers)' /\ t \notin NotifyingAmong(Producers)
        /\ t \notin AwakeAmong(Consumers)' /\ t \in AwakeAmong(Consumers)
        /\ t \notin AwakeAmong(Producers)' /\ t \notin AwakeAmong(Producers)
    BY <1>5, <1>b, <1>e, <2>1 DEF Remove, Goto, TypeOK, NotifyingAmong, AwakeAmong
  <2>3. /\ notifying(Consumers)' = notifying(Consumers) + 1
        /\ notifying(Producers)' = notifying(Producers)
        /\ awake(Consumers)' = awake(Consumers) - 1
        /\ awake(Producers)' = awake(Producers)
    BY <2>1, <2>2, CountsMove
  <2>4. Occupied' = Occupied - 1
    BY <2>1, <1>b, OccupiedMoves
  <2> QED
    BY <2>1, <2>3, <2>4, <1>a, <1>c, <1>d DEF SlotsCovered, ItemsCovered
(* A notification is spent on a waiter, who is awake from then on. *)
<1>6. ASSUME NEW t \in Thread, NotifyAfter(t)
      PROVE  SlotsCovered' /\ ItemsCovered'
  <2>1. /\ pc[t] = "notify" /\ pc' = [pc EXCEPT ![t] = "call"]
        /\ UNCHANGED <<head_, tail_, moved, try_popped>>
        /\ not_full_' \subseteq not_full_ /\ not_empty_' \subseteq not_empty_
    BY <1>6 DEF NotifyAfter, NotifyOne, Goto
  <2>2. Occupied' = Occupied
    BY <2>1, <1>b, OccupiedMoves
  <2>3. ASSUME NEW S \in {Producers, Consumers}
        PROVE  /\ t \in S => notifying(S)' = notifying(S) - 1
               /\ t \notin S => notifying(S)' = notifying(S)
    <3>1. /\ NotifyingAmong(S)' \ {t} = NotifyingAmong(S) \ {t}
          /\ t \notin NotifyingAmong(S)'
          /\ t \in NotifyingAmong(S) <=> t \in S
      BY <2>1, <1>b, <1>e DEF TypeOK, NotifyingAmong
    <3>2. IsFiniteSet(NotifyingAmong(S))
      BY CountsFinite
    <3> HIDE DEF NotifyingAmong
    <3> QED
      BY <3>1, <3>2, CardinalityMove DEF notifying
  <2>4. \A S \in {Producers, Consumers} : AwakeAmong(S) \subseteq AwakeAmong(S)'
    BY <2>1, <1>b, <1>e DEF TypeOK, AwakeAmong
  <2>5. \A S \in {Producers, Consumers} : awake(S)' >= awake(S)
    BY <2>4, CountsFinite, FS_Subset DEF awake
  <2>6. ASSUME NEW S \in {Producers, Consumers}, NEW w \in S,
               w \in not_full_ \cup not_empty_,
               w \notin not_full_' \cup not_empty_'
        PROVE  awake(S)' >= awake(S) + 1
    <3>1. pc[w] = "wait" /\ w # t
      BY <2>1, <2>6, <1>b DEF WaitersWait
    <3>2. w \notin AwakeAmong(S) /\ w \in AwakeAmong(S)'
      BY <2>1, <2>6, <3>1, <1>b, <1>e DEF TypeOK, AwakeAmong
    <3>3. AwakeAmong(S) \cup {w} \subseteq AwakeAmong(S)'
      BY <2>4, <3>2
    <3>4. IsFiniteSet(AwakeAmong(S)) /\ IsFiniteSet(AwakeAmong(S)')
      BY CountsFinite
    <3> HIDE DEF AwakeAmong
    <3>5. Cardinality(AwakeAmong(S) \cup {w}) = awake(S) + 1
      BY <3>2, <3>4, FS_AddElement DEF awake
    <3>6. Cardinality(AwakeAmong(S) \cup {w}) <= awake(S)'
      BY <3>3, <3>4, FS_Subset DEF awake
    <3> QED
      BY <3>5, <3>6, <1>c
  <2>7. CASE t \in Consumers \ trying
    <3>1. not_full_' \in NotifyOne(not_full_) /\ not_empty_' = not_empty_
      BY <1>6, <2>7 DEF NotifyAfter
    <3>2. ItemsCovered'
      BY <2>2, <2>3, <2>5, <2>7, <3>1, <1>a, <1>c, <1>d, <1>e DEF ItemsCovered
    <3>3. CASE not_full_ = {}
      BY <2>1, <3>2, <3>3 DEF SlotsCovered
    <3>4. CASE not_full_ # {}
      <4>1. PICK w \in not_full_ : not_full_' = not_full_ \ {w}
        BY <3>1, <3>4 DEF NotifyOne
      <4>2. w \in Producers /\ w \notin not_full_' \cup not_empty_'
        BY <4>1, <3>1, <1>b, <1>e DEF TypeOK
      <4>3. awake(Producers)' >= awake(Producers) + 1
        BY <4>1, <4>2, <2>6
      <4>4. notifying(Consumers)' = notifying(Consumers) - 1
        BY <2>3, <2>7
      <4> QED
        BY <2>1, <2>2, <3>2, <3>4, <4>3, <4>4, <1>a, <1>c, <1>d DEF SlotsCovered
    <3> QED
      BY <3>3, <3>4
  <2>8. CASE t \notin Consumers \ trying
    <3>1. not_empty_' \in NotifyOne(not_empty_) /\ not_full_' = not_full_
      BY <1>6, <2>8 DEF NotifyAfter
    <3>2. SlotsCovered'
      <4>1. CASE t \in Consumers
        BY <2>1, <2>8, <4>1, <1>b DEF TryPops, SlotsCovered
      <4>2. CASE t \notin Consumers
        BY <2>1, <2>2, <2>3, <2>5, <3>1, <4>2, <1>a, <1>c, <1>d DEF SlotsCovered
      <4> QED
        BY <4>1, <4>2
    <3>3. CASE not_empty_ = {}
      BY <2>1, <3>2, <3>3 DEF ItemsCovered
    <3>4. CASE not_empty_ # {}
      <4>1. PICK w \in not_empty_ : not_empty_' = not_empty_ \ {w}
        BY <3>1, <3>4 DEF NotifyOne
      <4>2. w \in Consumers /\ w \notin not_full_' \cup not_empty_'
        BY <4>1, <3>1, <1>b, <1>e DEF TypeOK
      <4>3. awake(Consumers)' >= awake(Consumers) + 1
        BY <4>1, <4>2, <2>6
      <4>4. notifying(Producers)' >= notifying(Producers) - 1
        BY <2>3, <1>c
      <4> QED
        BY <2>2, <3>2, <3>4, <4>3, <4>4, <1>a, <1>c, <1>d DEF ItemsCovered
    <3> QED
      BY <3>3, <3>4
  <2> QED
    BY <2>7, <2>8
(* One more thread is awake. *)
<1>7. ASSUME NEW t \in Thread, SpuriousWakeup(t)
      PROVE  SlotsCovered' /\ ItemsCovered'
  <2>1. /\ Others(t) /\ UNCHANGED <<head_, tail_, pc, moved, try_popped>>
        /\ not_full_' \subseteq not_full_ /\ not_empty_' \subseteq not_empty_
        /\ pc[t] = "wait"
    BY <1>7, <1>b DEF SpuriousWakeup, TypeOK, WaitersWait
  <2>2. \A S \in {Producers, Consumers} :
            /\ t \in NotifyingAmong(S)' <=> t \in NotifyingAmong(S)
            /\ t \in AwakeAmong(S) => t \in AwakeAmong(S)'
    BY <2>1 DEF NotifyingAmong, AwakeAmong
  <2>3. \A S \in {Producers, Consumers} :
            notifying(S)' = notifying(S) /\ awake(S)' >= awake(S)
    BY <2>1, <2>2, <1>c, CountsMove
  <2>4. Occupied' = Occupied
    BY <2>1, <1>b, OccupiedMoves
  <2> QED
    BY <2>1, <2>3, <2>4, <1>a, <1>c, <1>d DEF SlotsCovered, ItemsCovered
<1>8. CASE Joined \/ UNCHANGED vars
  <2>1. UNCHANGED vars
    BY <1>8 DEF Joined
  <2> QED
    BY <2>1, <1>a DEF vars, SlotsCovered, ItemsCovered, Occupied, notifying, awake,
                      NotifyingAmong, AwakeAmong
<1> QED
  BY <1>1, <1>2, <1>3, <1>4, <1>5, <1>6, <1>7, <1>8 DEF Next, Step

LEMMA Invariance == Spec => []IInv
<1>1. Init => IInv
  <2>1. Init => not_full_ = {} /\ not_empty_ = {}
    BY DEF Init
  <2> QED
    BY <2>1, InsideInit DEF IInv, NoWakeupLost, WakeupForFreeSlot, WakeupForItem
<1>2. IInv /\ [Next]_vars => IInv'
  <2> SUFFICES ASSUME IInv, [Next]_vars PROVE IInv'
    OBVIOUS
  <2>1. Inside'
    BY InsideStep DEF IInv
  <2>2. SlotsCovered' /\ ItemsCovered'
    BY <2>1, WakeupStep
  <2>3. NoWakeupLost'
    BY <2>2 DEF NoWakeupLost, WakeupForFreeSlot, WakeupForItem, Free,
                SlotsCovered, ItemsCovered, notifying, awake
  <2> QED
    BY <2>1, <2>3 DEF IInv
<1> QED
  BY <1>1, <1>2, PTL DEF Spec

(* The indices stay inside the buffer, and the mutex, the condition         *)
(* variables and the loops in their types, for any number of threads.       *)
THEOREM TypeCorrect == Spec => []TypeOK
<1>1. IInv => TypeOK
  BY DEF IInv, Inside
<1> QED
  BY <1>1, Invariance, PTL

(* However the notify_one() calls that follow an unlock are delayed and     *)
(* overtaken, no thread stays blocked in push() or pop() that has a slot or *)
(* an item coming which nobody else will look at -- with the exception of   *)
(* the slots that try_pop() frees.                                          *)
THEOREM WakeupsKept == Spec => []NoWakeupLost
<1>1. IInv => NoWakeupLost
  BY DEF IInv
<1> QED
  BY <1>1, Invariance, PTL
-----------------------------------------------------------------------------
(* The refinement of the FIFO *)

Slots == Item \cup {Unset}

LEMMA ContentsWindow ==
    ASSUME TypeOK
    PROVE  /\ Contents = Window(buffer_, head_, Occupied, Capacity)
           /\ Len(Contents) = Occupied
           /\ tail_ = (head_ + Occupied) % Capacity
           /\ Capacity \in Nat \ {0} /\ buffer_ \in [0 .. Capacity - 1 -> Slots]
           /\ head_ \in 0 .. Capacity - 1 /\ Occupied \in Nat /\ head_ \in Nat
<1>1. /\ Occupied \in 0 .. Capacity - 1 /\ Capacity \in Nat \ {0}
      /\ Occupied = IF head_ <= tail_ THEN tail_ - head_
                    ELSE tail_ + Capacity - head_
      /\ head_ \in 0 .. Capacity - 1 /\ tail_ \in 0 .. Capacity - 1
      /\ buffer_ \in [0 .. Capacity - 1 -> Slots]
  BY OccupiedValue, CapacityAssumption DEF TypeOK, Index, Slots
<1>2. Contents = Window(buffer_, head_, Occupied, Capacity)
  BY DEF Contents, Window
<1>3. Len(Contents) = Occupied
  BY <1>1, <1>2, WindowLen
<1>4. tail_ = (head_ + Occupied) % Capacity
  <2> DEFINE sum == head_ + Occupied
  <2>1. /\ sum \in 0 .. 2 * Capacity - 1
        /\ tail_ = IF sum < Capacity THEN sum ELSE sum - Capacity
    BY <1>1
  <2> HIDE DEF sum
  <2>2. tail_ = sum % Capacity
    BY <1>1, <2>1, WithinTwoLaps
  <2> QED
    BY <2>2 DEF sum
<1> QED
  BY <1>1, <1>2, <1>3, <1>4

(* push() puts its item behind the others.                                  *)
LEMMA InsertAppends ==
    ASSUME TypeOK, NEW t \in Thread, Insert(t)
    PROVE  Contents' = Append(Contents, <<t, moved[t] + 1>>)
<1> DEFINE item == <<t, moved[t] + 1>>
<1>1. /\ head_' = head_ /\ tail_' = next(tail_) /\ ~is_full
      /\ buffer_' = [buffer_ EXCEPT ![tail_] = item]
  BY DEF Insert
<1>2. item \in Slots
  BY DEF Insert, TypeOK, Slots, Item
<1>3. Occupied' = Occupied + 1 /\ Occupied < Capacity
  BY <1>1, OccupiedMoves, OccupiedValue, CapacityAssumption
<1> HIDE DEF item
<1>4. Contents' = Window(buffer_', head_, Occupied + 1, Capacity)
  BY <1>1, <1>3 DEF Contents, Window
<1>5. Contents' = Append(Contents, item)
  <2>1. /\ Capacity \in Nat \ {0} /\ buffer_ \in [0 .. Capacity - 1 -> Slots]
        /\ head_ \in Nat /\ Occupied \in Nat /\ Occupied < Capacity
        /\ buffer_' \in [0 .. Capacity - 1 -> Slots]
    BY <1>1, <1>2, <1>3, ContentsWindow
  <2>2. /\ buffer_'[(head_ + Occupied) % Capacity] = item
        /\ \A j \in 0 .. Capacity - 1 \ {(head_ + Occupied) % Capacity} :
               buffer_'[j] = buffer_[j]
    BY <1>1, <1>2, ContentsWindow DEF TypeOK, Index
  <2>3. Appended(Window(buffer_', head_, Occupied + 1, Capacity),
                 Window(buffer_, head_, Occupied, Capacity), item)
    BY <1>2, <2>1, <2>2, WindowAppend
  <2> QED
    BY <2>3, <1>4, ContentsWindow DEF Appended
<1> QED
  BY <1>5 DEF item

(* pop() takes the oldest item.                                             *)
LEMMA RemoveTakesHead ==
    ASSUME TypeOK, NEW t \in Thread, Remove(t)
    PROVE  /\ Contents # << >> /\ Contents' = Tail(Contents)
           /\ buffer_[head_] = Head(Contents)
<1>1. /\ tail_' = tail_ /\ head_' = next(head_) /\ ~is_empty
      /\ buffer_' = buffer_
  BY DEF Remove
<1>2. Occupied' = Occupied - 1 /\ Occupied # 0
  BY <1>1, OccupiedMoves, OccupiedValue
<1>3. head_ % Capacity = head_
  BY ContentsWindow, WithinTwoLaps
<1>4. Contents' = Window(buffer_, (head_ + 1) % Capacity, Occupied - 1, Capacity)
  BY <1>1, <1>2 DEF Contents, Window, next
<1>5. Occupied \in Nat \ {0}
  BY <1>2, ContentsWindow
<1>6. /\ Window(buffer_, head_, Occupied, Capacity) # << >>
      /\ Head(Window(buffer_, head_, Occupied, Capacity))
            = buffer_[head_ % Capacity]
      /\ Window(buffer_, (head_ + 1) % Capacity, Occupied - 1, Capacity)
            = Tail(Window(buffer_, head_, Occupied, Capacity))
  BY <1>5, ContentsWindow, WindowTail, Zenon
<1> QED
  BY <1>3, <1>4, <1>6, ContentsWindow

(* The circular buffer under its mutex is a FIFO of Capacity - 1 places:    *)
(* every push and pop, with whatever overlaps it, is a step of the bounded  *)
(* queue, and nothing else touches the items.                               *)
THEOREM BufferIsFifo == Spec => IsFifo
<1>1. Init => Fifo!Init
  <2> SUFFICES ASSUME Init PROVE Fifo!Init
    OBVIOUS
  <2>1. TypeOK
    BY InsideInit DEF Inside
  <2>2. Occupied = 0
    BY <2>1, OccupiedValue DEF Init, is_empty
  <2>3. Contents = << >>
    BY <2>2 DEF Contents
  <2> QED
    BY <2>3, ThreadSets DEF Init, Fifo!Init
<1>2. Inside /\ Inside' /\ [Next]_vars => [Fifo!Next]_(Fifo!vars)
  <2> SUFFICES ASSUME Inside, Inside', [Next]_vars
               PROVE  [Fifo!Next]_(Fifo!vars)
    OBVIOUS
  <2>1. TypeOK /\ TypeOK' /\ ItemToMove /\ Received
    BY DEF Inside
  <2>2. ASSUME NEW t \in Thread, Insert(t) PROVE Fifo!Put(t) /\ t \in Producers
    <3>1. /\ t \in Producers /\ moved[t] < Quota[t] /\ got' = got
          /\ moved' = [moved EXCEPT ![t] = moved[t] + 1] /\ ~is_full
      BY <2>1, <2>2 DEF Insert, ItemToMove
    <3>2. Contents' = Append(Contents, <<t, moved[t] + 1>>)
      BY <2>1, <2>2, InsertAppends
    <3>3. Len(Contents) < Capacity - 1
      <4>1. Len(Contents) = Occupied
        BY <2>1, ContentsWindow
      <4>2. Occupied \in 0 .. Capacity - 1 /\ Occupied # Capacity - 1
        BY <2>1, <3>1, OccupiedValue
      <4>3. Occupied < Capacity - 1
        BY <4>2, CapacityAssumption
      <4> QED
        BY <4>1, <4>3
    <3>4. [p \in Producers |-> moved[p]]'
            = [[p \in Producers |-> moved[p]] EXCEPT ![t] = @ + 1]
      BY <2>1, <3>1, ThreadSets DEF TypeOK
    <3> HIDE DEF Contents
    <3> QED
      BY <3>1, <3>2, <3>3, <3>4 DEF Fifo!Put
  <2>3. ASSUME NEW t \in Thread, Remove(t) PROVE Fifo!Take(t) /\ t \in Consumers
    <3>1. /\ t \in Consumers /\ moved[t] < Quota[t]
          /\ got' = [got EXCEPT ![t] = Append(@, buffer_[head_])]
          /\ moved' = [moved EXCEPT ![t] = moved[t] + 1]
      BY <2>1, <2>3 DEF Remove, ItemToMove
    <3>2. /\ Contents # << >> /\ Contents' = Tail(Contents)
          /\ buffer_[head_] = Head(Contents)
      BY <2>1, <2>3, RemoveTakesHead
    <3>3. Len(got[t]) < Quota[t]
      BY <2>1, <3>1 DEF Received
    <3>4. [p \in Producers |-> moved[p]]' = [p \in Producers |-> moved[p]]
      BY <2>1, <3>1, ThreadSets, ThreadAssumption DEF TypeOK
    <3> HIDE DEF Contents
    <3> QED
      BY <3>1, <3>2, <3>3, <3>4 DEF Fifo!Take
  <2>4. ASSUME UNCHANGED <<head_, tail_, buffer_, moved, got>>
        PROVE  UNCHANGED Fifo!vars
    BY <2>4 DEF Fifo!vars, Contents, Occupied
  <2>5. ASSUME NEW t \in Thread,
               \/ Lock(t) \/ Relock(t) \/ WaitNotFull(t) \/ WaitNotEmpty(t)
               \/ GiveUp(t) \/ NotifyAfter(t) \/ SpuriousWakeup(t)
        PROVE  UNCHANGED <<head_, tail_, buffer_, moved, got>>
    BY <2>5 DEF Lock, Relock, WaitNotFull, WaitNotEmpty, GiveUp, NotifyAfter,
                SpuriousWakeup
  <2>6. CASE Joined \/ UNCHANGED vars
    BY <2>4, <2>6 DEF Joined, vars
  <2> QED
    BY <2>2, <2>3, <2>4, <2>5, <2>6 DEF Next, Step, Fifo!Next
<1>3. IInv => Inside
  BY DEF IInv
<1> QED
  BY <1>1, <1>2, <1>3, Invariance, PTL DEF Spec, IsFifo, Fifo!Spec
-----------------------------------------------------------------------------
(* Deadlock freedom, without ENABLED *)

(* A thread that holds the mutex or is about to notify has a step, and one  *)
(* that is awake has when the mutex is free.                                *)
CanStep(t) ==
    \/ pc[t] \in {"locked", "notify"}
    \/ mtx_ = {} /\ t \in AwakeAmong(Thread)
Finished(t) == pc[t] = "call" /\ ~ (moved[t] < Quota[t])

(* The loops of one kind are over, and those of the other as well, or they  *)
(* want what nobody is left to give.                                        *)
NobodyToGive ==
    \/ \A p \in Producers : Finished(p) /\ (is_empty \/ \A c \in Consumers : Finished(c))
    \/ is_full /\ \A c \in Consumers : Finished(c)

(* Producers blocked in push() and consumers blocked in pop() never wait    *)
(* for each other: as long as no try_pop() has freed a slot, some thread    *)
(* has a step other than a spurious wakeup until the loops of one kind are  *)
(* over, if the queue has a usable place.                                   *)
THEOREM NeverStuck ==
    ASSUME Capacity > 1
    PROVE  Spec => [](try_popped \/ (\E t \in Thread : CanStep(t)) \/ NobodyToGive)
<1>1. ASSUME IInv, ~ try_popped, \A t \in Thread : ~ CanStep(t)
      PROVE  NobodyToGive
  <2>a. TypeOK /\ WaitersWait /\ OneOwner /\ NoWakeupLost
    BY <1>1 DEF IInv, Inside
  <2>1. mtx_ = {}
    BY <1>1, <2>a DEF OneOwner, CanStep
  <2>2. \A t \in Thread : Finished(t) \/ t \in not_full_ \cup not_empty_
    BY <1>1, <2>a, <2>1 DEF CanStep, AwakeAmong, Finished, TypeOK
  <2>3. /\ NotifyingAmong(Producers) = {} /\ NotifyingAmong(Consumers) = {}
        /\ AwakeAmong(Producers) = {} /\ AwakeAmong(Consumers) = {}
    BY <1>1, <2>1, ThreadSets DEF CanStep, AwakeAmong, NotifyingAmong
  <2>4. /\ not_full_ # {} => Free <= 0 + 0
        /\ not_empty_ # {} => Occupied <= 0 + 0
    BY <1>1, <2>a, <2>3, FS_EmptySet
    DEF NoWakeupLost, WakeupForFreeSlot, WakeupForItem
  <2>5. /\ Occupied \in 0 .. Capacity - 1 /\ Free = Capacity - 1 - Occupied
        /\ is_empty <=> Occupied = 0
        /\ is_full <=> Occupied = Capacity - 1
    BY <2>a, OccupiedValue DEF Free
  <2>6. not_full_ \subseteq Producers /\ not_empty_ \subseteq Consumers
    BY <2>a DEF TypeOK
  <2>7. CASE not_full_ # {}
    <3>1. is_full /\ ~ is_empty
      BY <2>4, <2>5, <2>7, CapacityAssumption
    <3>2. not_empty_ = {}
      BY <2>4, <2>5, <3>1, CapacityAssumption
    <3> QED
      BY <2>2, <2>6, <3>1, <3>2, ThreadSets, ThreadAssumption DEF NobodyToGive
  <2>8. CASE not_full_ = {}
    <3>1. \A p \in Producers : Finished(p)
      BY <2>2, <2>6, <2>8, ThreadSets, ThreadAssumption
    <3>2. is_empty \/ \A c \in Consumers : Finished(c)
      BY <2>2, <2>4, <2>5, <2>6, <2>8, ThreadSets, CapacityAssumption
    <3> QED
      BY <3>1, <3>2 DEF NobodyToGive
  <2> QED
    BY <2>7, <2>8
<1>2. IInv => try_popped \/ (\E t \in Thread : CanStep(t)) \/ NobodyToGive
  BY <1>1
<1> QED
  BY <1>2, Invariance, PTL
=============================================================================
