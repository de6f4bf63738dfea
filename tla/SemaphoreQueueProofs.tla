------------------------ MODULE SemaphoreQueueProofs ------------------------
(***************************************************************************)
(* For every capacity and any finite sets of producers and consumers: the  *)
(* permits of the two semaphores, those in flight included, account for    *)
(* the places of the buffer, the indices agree with them, and the circular *)
(* buffer is a FIFO.                                                       *)
(***************************************************************************)
EXTENDS SemaphoreQueue, CommonTheorems

Label == {"enter", "admitted", "moved"}

(* TypeOK but for what a consumer gets, which may be an unset place as far  *)
(* as the types alone can tell.                                             *)
Types ==
    /\ sem_empty_ \in Nat /\ sem_full_ \in Nat
    /\ head_ \in Index /\ tail_ \in Index
    /\ pc \in [Thread -> Label]

IInv == Types /\ PermitsAccountForPlaces /\ IndicesAgreeWithPermits

LEMMA ThreadSets ==
    /\ IsFiniteSet(Producers) /\ IsFiniteSet(Consumers)
    /\ Producers \subseteq Thread /\ Consumers \subseteq Thread
<1>1. Producers \subseteq Thread /\ Consumers \subseteq Thread
  BY DEF Thread
<1> QED
  BY <1>1, ThreadAssumption, FS_Subset

LEMMA AtType ==
    \A label : At(label, Producers) \in Nat /\ At(label, Consumers) \in Nat
  BY ThreadSets, CountType DEF At

(* A thread of one kind that goes on changes two counts of its kind, and    *)
(* none of the other kind.                                                  *)
LEMMA Moves ==
    ASSUME Types, NEW mine \in {Producers, Consumers}, NEW others,
           {mine, others} = {Producers, Consumers}, mine # others,
           NEW t \in mine, NEW from \in Label, NEW to \in Label, from # to,
           Goto(t, from, to)
    PROVE  /\ pc' \in [Thread -> Label]
           /\ At(from, mine) > 0
           /\ At(from, mine)' = At(from, mine) - 1
           /\ At(to, mine)' = At(to, mine) + 1
           /\ \A p : p # from /\ p # to => At(p, mine)' = At(p, mine)
           /\ \A p : At(p, others)' = At(p, others)
<1>1. /\ IsFiniteSet(mine) /\ mine \subseteq Thread /\ t \notin others
      /\ others \subseteq Thread
  BY ThreadSets, ThreadAssumption
<1>2. pc[t] = from /\ pc' = [pc EXCEPT ![t] = to]
  BY DEF Goto
<1>3. pc'[t] = to /\ \A u \in Thread \ {t} : pc'[u] = pc[u]
  BY <1>1, <1>2 DEF Types
<1>4. pc' \in [Thread -> Label]
  BY <1>1, <1>2 DEF Types
<1>5. At(from, mine) > 0
  BY <1>1, <1>2, CountType DEF At
<1>6. /\ Count(pc', mine, from) = Count(pc, mine, from) - 1
      /\ Count(pc', mine, to) = Count(pc, mine, to) + 1
      /\ \A p : p # from /\ p # to => Count(pc', mine, p) = Count(pc, mine, p)
  <2>1. pc'[t] # pc[t] /\ \A u \in mine \ {t} : pc'[u] = pc[u]
    BY <1>1, <1>2, <1>3
  <2>2. /\ Count(pc', mine, pc[t]) = Count(pc, mine, pc[t]) - 1
        /\ Count(pc', mine, pc'[t]) = Count(pc, mine, pc'[t]) + 1
        /\ \A p : p # pc[t] /\ p # pc'[t] => Count(pc', mine, p) = Count(pc, mine, p)
    BY <1>1, <2>1, CountMove
  <2> QED
    BY <1>2, <1>3, <2>2
<1>7. \A p : Count(pc', others, p) = Count(pc, others, p)
  <2>1. \A u \in others : pc'[u] = pc[u]
    BY <1>1, <1>3
  <2>2. \A p : { u \in others : pc'[u] = p } = { u \in others : pc[u] = p }
    BY <2>1
  <2> QED
    BY <2>2 DEF Count
<1> QED
  BY <1>4, <1>5, <1>6, <1>7 DEF At

LEMMA InvInit == Init => IInv
<1> SUFFICES ASSUME Init PROVE IInv
  OBVIOUS
<1>1. /\ At("moved", Producers) = 0 /\ At("admitted", Producers) = 0
      /\ At("moved", Consumers) = 0 /\ At("admitted", Consumers) = 0
  BY ThreadSets, CountType DEF Init, At
<1>2. Types
  BY CapacityAssumption DEF Init, Types, Label, Index
<1>3. Occupied = 0 /\ Free = Capacity
  BY <1>1, CapacityAssumption DEF Init, Occupied, Free
<1>4. 0 % Capacity = 0
  BY CapacityAssumption, SMT
<1> QED
  BY <1>2, <1>3, <1>4, CapacityAssumption
  DEF Init, IInv, PermitsAccountForPlaces, IndicesAgreeWithPermits

(* What the steps of a producer do to the accounts: the place it was        *)
(* granted goes from free to occupied when it inserts.                      *)
LEMMA InvStep == IInv /\ [Next]_vars => IInv'
<1> SUFFICES ASSUME IInv, [Next]_vars PROVE IInv'
  OBVIOUS
<1> USE DEF IInv, Types
<1>1. \A i \in Index : i \in Nat /\ next(i) \in Index
  BY CapacityAssumption, Division DEF Index, next
<1>2. Occupied \in Nat /\ Free \in Nat /\ Occupied + Free = Capacity
  BY AtType DEF Occupied, Free, PermitsAccountForPlaces
<1>3. ASSUME Types', Occupied' = Occupied, Free' = Free, UNCHANGED <<head_, tail_>>
      PROVE  IInv'
  BY <1>3 DEF PermitsAccountForPlaces, IndicesAgreeWithPermits
<1>4. ASSUME NEW t \in Thread, AcquireEmpty(t) PROVE IInv'
  <2>1. t \in Producers /\ Goto(t, "enter", "admitted")
    BY <1>4 DEF AcquireEmpty
  <2>2. /\ pc' \in [Thread -> Label]
        /\ At("admitted", Producers)' = At("admitted", Producers) + 1
        /\ At("moved", Producers)' = At("moved", Producers)
        /\ \A p : At(p, Consumers)' = At(p, Consumers)
    BY <2>1, Moves, ThreadAssumption DEF Label
  <2>3. Types'
    BY <1>4, <2>2 DEF AcquireEmpty
  <2>4. Occupied' = Occupied
    BY <1>4, <2>2 DEF AcquireEmpty, Occupied
  <2>5. Free' = Free
    BY <1>4, <2>2, AtType DEF AcquireEmpty, Free
  <2> QED
    BY <1>3, <1>4, <2>3, <2>4, <2>5 DEF AcquireEmpty
<1>5. ASSUME NEW t \in Thread, Insert(t) PROVE IInv'
  <2>1. t \in Producers /\ Goto(t, "admitted", "moved")
    BY <1>5 DEF Insert
  <2>2. /\ pc' \in [Thread -> Label]
        /\ At("admitted", Producers)' = At("admitted", Producers) - 1
        /\ At("moved", Producers)' = At("moved", Producers) + 1
        /\ \A p : At(p, Consumers)' = At(p, Consumers)
    BY <2>1, Moves, ThreadAssumption DEF Label
  <2>3. Types'
    BY <1>1, <1>5, <2>2 DEF Insert
  <2>4. Occupied' = Occupied + 1
    BY <1>5, <2>2, AtType DEF Insert, Occupied
  <2>5. Free' = Free - 1
    BY <1>5, <2>2, AtType DEF Insert, Free
  <2>6. tail_' = (head_' + Occupied') % Capacity
    <3>1. tail_' = (((head_ + Occupied) % Capacity) + 1) % Capacity
      BY <1>5 DEF Insert, next, IndicesAgreeWithPermits
    <3>2. head_ + Occupied \in Nat
      BY <1>1, <1>2
    <3>3. tail_' = (head_ + Occupied + 1) % Capacity
      BY <3>1, <3>2, CapacityAssumption, ModuloSum
    <3>4. head_' = head_
      BY <1>5 DEF Insert
    <3>5. head_' + Occupied' = head_ + Occupied + 1
      BY <1>1, <1>2, <2>4, <3>4
    <3> QED
      BY <3>3, <3>5
  <2> QED
    BY <1>2, <2>3, <2>4, <2>5, <2>6, CapacityAssumption
    DEF PermitsAccountForPlaces, IndicesAgreeWithPermits
<1>6. ASSUME NEW t \in Thread, ReleaseFull(t) PROVE IInv'
  <2>1. t \in Producers /\ Goto(t, "moved", "enter")
    BY <1>6 DEF ReleaseFull
  <2>2. /\ pc' \in [Thread -> Label]
        /\ At("moved", Producers)' = At("moved", Producers) - 1
        /\ At("admitted", Producers)' = At("admitted", Producers)
        /\ \A p : At(p, Consumers)' = At(p, Consumers)
    BY <2>1, Moves, ThreadAssumption DEF Label
  <2>3. Types'
    BY <1>6, <2>2 DEF ReleaseFull
  <2>4. Occupied' = Occupied
    BY <1>6, <2>2, AtType DEF ReleaseFull, Occupied
  <2>5. Free' = Free
    BY <1>6, <2>2 DEF ReleaseFull, Free
  <2> QED
    BY <1>3, <1>6, <2>3, <2>4, <2>5 DEF ReleaseFull
<1>7. ASSUME NEW t \in Thread, AcquireFull(t) PROVE IInv'
  <2>1. t \in Consumers /\ Goto(t, "enter", "admitted")
    BY <1>7 DEF AcquireFull
  <2>2. /\ pc' \in [Thread -> Label]
        /\ At("admitted", Consumers)' = At("admitted", Consumers) + 1
        /\ At("moved", Consumers)' = At("moved", Consumers)
        /\ \A p : At(p, Producers)' = At(p, Producers)
    BY <2>1, Moves, ThreadAssumption DEF Label
  <2>3. Types'
    BY <1>7, <2>2 DEF AcquireFull
  <2>4. Occupied' = Occupied
    BY <1>7, <2>2, AtType DEF AcquireFull, Occupied
  <2>5. Free' = Free
    BY <1>7, <2>2 DEF AcquireFull, Free
  <2> QED
    BY <1>3, <1>7, <2>3, <2>4, <2>5 DEF AcquireFull
<1>8. ASSUME NEW t \in Thread, Remove(t) PROVE IInv'
  <2>1. t \in Consumers /\ Goto(t, "admitted", "moved")
    BY <1>8 DEF Remove
  <2>2. /\ pc' \in [Thread -> Label]
        /\ At("admitted", Consumers) > 0
        /\ At("admitted", Consumers)' = At("admitted", Consumers) - 1
        /\ At("moved", Consumers)' = At("moved", Consumers) + 1
        /\ \A p : At(p, Producers)' = At(p, Producers)
    BY <2>1, Moves, ThreadAssumption DEF Label
  <2>3. Types'
    BY <1>1, <1>8, <2>2 DEF Remove
  <2>4. Occupied' = Occupied - 1 /\ Occupied > 0
    BY <1>8, <2>2, AtType DEF Remove, Occupied
  <2>5. Free' = Free + 1
    BY <1>8, <2>2, AtType DEF Remove, Free
  <2>6. tail_' = (head_' + Occupied') % Capacity
    <3>1. head_' = (head_ + 1) % Capacity /\ tail_' = tail_
      BY <1>8 DEF Remove, next
    <3>0. head_ \in Nat /\ Occupied \in Nat /\ Occupied > 0
      BY <1>1, <1>2, <2>4
    <3>2. head_ + 1 \in Nat /\ Occupied - 1 \in Nat
      <4> HIDE DEF IInv, Types
      <4> QED BY <3>0
    <3>3. (((head_ + 1) % Capacity) + (Occupied - 1)) % Capacity
             = ((head_ + 1) + (Occupied - 1)) % Capacity
      BY <3>2, CapacityAssumption, ModuloSum
    <3>4. (head_ + 1) + (Occupied - 1) = head_ + Occupied
      <4> HIDE DEF IInv, Types
      <4> QED BY <3>0
    <3> QED
      BY <2>4, <3>1, <3>3, <3>4 DEF IndicesAgreeWithPermits
  <2> QED
    BY <1>2, <2>3, <2>4, <2>5, <2>6, CapacityAssumption
    DEF PermitsAccountForPlaces, IndicesAgreeWithPermits
<1>9. ASSUME NEW t \in Thread, ReleaseEmpty(t) PROVE IInv'
  <2>1. t \in Consumers /\ Goto(t, "moved", "enter")
    BY <1>9 DEF ReleaseEmpty
  <2>2. /\ pc' \in [Thread -> Label]
        /\ At("moved", Consumers)' = At("moved", Consumers) - 1
        /\ At("admitted", Consumers)' = At("admitted", Consumers)
        /\ \A p : At(p, Producers)' = At(p, Producers)
    BY <2>1, Moves, ThreadAssumption DEF Label
  <2>3. Types'
    BY <1>9, <2>2 DEF ReleaseEmpty
  <2>4. Occupied' = Occupied
    BY <1>9, <2>2 DEF ReleaseEmpty, Occupied
  <2>5. Free' = Free
    BY <1>9, <2>2, AtType DEF ReleaseEmpty, Free
  <2> QED
    BY <1>3, <1>9, <2>3, <2>4, <2>5 DEF ReleaseEmpty
<1>10. CASE Joined \/ UNCHANGED vars
  <2>1. UNCHANGED vars
    BY <1>10 DEF Joined
  <2> QED
    BY <2>1 DEF vars, Occupied, Free, At, PermitsAccountForPlaces,
                IndicesAgreeWithPermits
<1> QED
  BY <1>4, <1>5, <1>6, <1>7, <1>8, <1>9, <1>10 DEF Next, Step

LEMMA Invariance == Spec => []IInv
  BY InvInit, InvStep, PTL DEF Spec

(* No permit is lost or created, in any interleaving of the three steps of  *)
(* the operations of any number of threads.                                 *)
THEOREM PermitsHold == Spec => []PermitsAccountForPlaces
<1>1. IInv => PermitsAccountForPlaces
  BY DEF IInv
<1> QED
  BY <1>1, Invariance, PTL

(* The indices, which move under the mutex, agree with the permits, which   *)
(* move outside of it.                                                      *)
THEOREM IndicesAgree == Spec => []IndicesAgreeWithPermits
<1>1. IInv => IndicesAgreeWithPermits
  BY DEF IInv
<1> QED
  BY <1>1, Invariance, PTL

(* Every place is accounted for, by permits and indices alike, so that what *)
(* run semaphore_queue checks of two places holds of any number.            *)
THEOREM PlacesHold == Spec => []PlacesAccounted
<1>1. IInv => PlacesAccounted
  BY DEF IInv, PlacesAccounted
<1> QED
  BY <1>1, Invariance, PTL
-----------------------------------------------------------------------------
(* The refinement of the FIFO *)

Slots == Item \cup {Unset}

(* What is in the buffer and with the threads: a thread that was admitted   *)
(* has an item to move, and the occupied places hold items.                 *)
ItemToMove == \A t \in Thread : pc[t] = "admitted" => moved[t] < Quota[t]
Received == \A c \in Consumers : Len(got[c]) = moved[c]
Items ==
    /\ buffer_ \in [Index -> Slots] /\ moved \in [Thread -> Nat]
    /\ got \in [Consumers -> Seq(Item)]
    /\ Contents \in Seq(Item)
    /\ ItemToMove /\ Received

LEMMA ContentsWindow ==
    ASSUME IInv, Items
    PROVE  /\ Contents = Window(buffer_, head_, Occupied, Capacity)
           /\ Len(Contents) = Occupied /\ Occupied + Free = Capacity
           /\ tail_ = (head_ + Occupied) % Capacity
           /\ Capacity \in Nat \ {0} /\ buffer_ \in [0 .. Capacity - 1 -> Slots]
           /\ head_ \in 0 .. Capacity - 1 /\ head_ \in Nat
           /\ Occupied \in Nat /\ Free \in Nat
<1>1. Occupied \in Nat /\ Free \in Nat /\ Occupied + Free = Capacity
  BY AtType DEF IInv, Types, Occupied, Free, PermitsAccountForPlaces
<1>2. head_ \in 0 .. Capacity - 1 /\ Capacity \in Nat \ {0}
  BY CapacityAssumption DEF IInv, Types, Index
<1>3. Contents = Window(buffer_, head_, Occupied, Capacity)
  BY DEF Contents, Window
<1>4. Len(Contents) = Occupied
  BY <1>1, <1>3, WindowLen
<1>5. buffer_ \in [0 .. Capacity - 1 -> Slots]
  BY DEF Items, Index
<1>6. tail_ = (head_ + Occupied) % Capacity
  BY DEF IInv, IndicesAgreeWithPermits
<1> QED
  BY <1>1, <1>2, <1>3, <1>4, <1>5, <1>6

(* The producer that was granted a place puts its item behind the others.   *)
LEMMA InsertAppends ==
    ASSUME IInv, Items, NEW t \in Thread, Insert(t)
    PROVE  /\ Contents' = Append(Contents, <<t, moved[t] + 1>>)
           /\ Len(Contents) < Capacity
<1> DEFINE item == <<t, moved[t] + 1>>
<1>1. /\ head_' = head_ /\ t \in Producers /\ Goto(t, "admitted", "moved")
      /\ buffer_' = [buffer_ EXCEPT ![tail_] = item]
      /\ sem_full_' = sem_full_
  BY DEF Insert
<1>2. item \in Slots
  BY <1>1, ThreadSets DEF Items, Slots, Item
<1>3. /\ At("admitted", Producers) > 0
      /\ At("moved", Producers)' = At("moved", Producers) + 1
      /\ \A p : At(p, Consumers)' = At(p, Consumers)
  BY <1>1, Moves, ThreadAssumption DEF IInv, Label
<1>4. Occupied' = Occupied + 1
  BY <1>1, <1>3, AtType DEF Occupied, IInv, Types
<1>5. Free > 0
  BY <1>3, AtType DEF Free, IInv, Types
<1>6. /\ Capacity \in Nat \ {0} /\ buffer_ \in [0 .. Capacity - 1 -> Slots]
      /\ head_ \in Nat /\ Occupied \in Nat /\ Occupied < Capacity
      /\ Len(Contents) < Capacity
  BY <1>5, ContentsWindow
<1> HIDE DEF item
<1>7. Contents' = Window(buffer_', head_, Occupied + 1, Capacity)
  BY <1>1, <1>4 DEF Contents, Window
<1>8. /\ buffer_' \in [0 .. Capacity - 1 -> Slots]
      /\ buffer_'[(head_ + Occupied) % Capacity] = item
      /\ \A j \in 0 .. Capacity - 1 \ {(head_ + Occupied) % Capacity} :
             buffer_'[j] = buffer_[j]
  <2>1. tail_ = (head_ + Occupied) % Capacity /\ tail_ \in 0 .. Capacity - 1
    BY ContentsWindow DEF IInv, Types, Index
  <2> QED
    BY <1>1, <1>2, <1>6, <2>1
<1>9. Appended(Window(buffer_', head_, Occupied + 1, Capacity),
               Window(buffer_, head_, Occupied, Capacity), item)
  BY <1>2, <1>6, <1>8, WindowAppend
<1>10. Contents' = Append(Contents, item)
  BY <1>7, <1>9, ContentsWindow DEF Appended
<1> QED
  BY <1>6, <1>10 DEF item

(* The consumer that was granted an item takes the oldest one.              *)
LEMMA RemoveTakesHead ==
    ASSUME IInv, Items, NEW t \in Thread, Remove(t)
    PROVE  /\ Contents # << >> /\ Contents' = Tail(Contents)
           /\ buffer_[head_] = Head(Contents)
<1>1. /\ head_' = next(head_) /\ buffer_' = buffer_
      /\ t \in Consumers /\ Goto(t, "admitted", "moved")
      /\ sem_full_' = sem_full_
  BY DEF Remove
<1>2. /\ At("admitted", Consumers) > 0
      /\ At("admitted", Consumers)' = At("admitted", Consumers) - 1
      /\ \A p : At(p, Producers)' = At(p, Producers)
  BY <1>1, Moves, ThreadAssumption DEF IInv, Label
<1>3. Occupied' = Occupied - 1 /\ Occupied \in Nat \ {0}
  BY <1>1, <1>2, AtType DEF Occupied, IInv, Types
<1>4. head_ % Capacity = head_
  BY ContentsWindow, WithinTwoLaps
<1>5. Contents' = Window(buffer_, (head_ + 1) % Capacity, Occupied - 1, Capacity)
  BY <1>1, <1>3 DEF Contents, Window, next
<1>6. /\ Window(buffer_, head_, Occupied, Capacity) # << >>
      /\ Head(Window(buffer_, head_, Occupied, Capacity))
            = buffer_[head_ % Capacity]
      /\ Window(buffer_, (head_ + 1) % Capacity, Occupied - 1, Capacity)
            = Tail(Window(buffer_, head_, Occupied, Capacity))
  BY <1>3, ContentsWindow, WindowTail, Zenon
<1> QED
  BY <1>4, <1>5, <1>6, ContentsWindow

LEMMA ItemsInit == Init => Items
<1> SUFFICES ASSUME Init PROVE Items
  OBVIOUS
<1>1. Occupied = 0
  <2>1. At("moved", Producers) = 0 /\ At("admitted", Consumers) = 0
    BY ThreadSets, CountType DEF Init, At
  <2> QED
    BY <2>1 DEF Init, Occupied
<1>2. Contents = << >>
  BY <1>1 DEF Contents
<1>3. Contents \in Seq(Item)
  BY <1>2, EmptySeq
<1>4. got \in [Consumers -> Seq(Item)]
  BY EmptySeq DEF Init
<1>5. Received
  BY ThreadSets DEF Init, Received
<1>6. ItemToMove
  BY DEF Init, ItemToMove
<1> QED
  BY <1>3, <1>4, <1>5, <1>6 DEF Init, Items, Slots

(* The steps that move no item leave the buffer alone.                      *)
LEMMA OtherSteps ==
    ASSUME IInv, NEW t \in Thread,
           AcquireEmpty(t) \/ ReleaseFull(t) \/ AcquireFull(t) \/ ReleaseEmpty(t)
    PROVE  /\ UNCHANGED <<head_, tail_, buffer_, moved, got>>
           /\ Occupied' = Occupied
           /\ pc'[t] = "admitted" => moved[t] < Quota[t]
           /\ \A u \in Thread \ {t} : pc'[u] = pc[u]
<1> USE DEF IInv, Types
<1>1. CASE AcquireEmpty(t)
  <2>1. /\ At("moved", Producers)' = At("moved", Producers)
        /\ \A p : At(p, Consumers)' = At(p, Consumers)
    BY <1>1, Moves, ThreadAssumption DEF AcquireEmpty, Label
  <2> QED
    BY <1>1, <2>1 DEF AcquireEmpty, Occupied, Goto
<1>2. CASE ReleaseFull(t)
  <2>1. /\ At("moved", Producers)' = At("moved", Producers) - 1
        /\ \A p : At(p, Consumers)' = At(p, Consumers)
    BY <1>2, Moves, ThreadAssumption DEF ReleaseFull, Label
  <2>2. Occupied' = Occupied
    BY <1>2, <2>1, AtType DEF ReleaseFull, Occupied
  <2> QED
    BY <1>2, <2>2 DEF ReleaseFull, Goto
<1>3. CASE AcquireFull(t)
  <2>1. /\ At("admitted", Consumers)' = At("admitted", Consumers) + 1
        /\ \A p : At(p, Producers)' = At(p, Producers)
    BY <1>3, Moves, ThreadAssumption DEF AcquireFull, Label
  <2>2. Occupied' = Occupied
    BY <1>3, <2>1, AtType DEF AcquireFull, Occupied
  <2> QED
    BY <1>3, <2>2 DEF AcquireFull, Goto
<1>4. CASE ReleaseEmpty(t)
  <2>1. /\ At("admitted", Consumers)' = At("admitted", Consumers)
        /\ \A p : At(p, Producers)' = At(p, Producers)
    BY <1>4, Moves, ThreadAssumption DEF ReleaseEmpty, Label
  <2> QED
    BY <1>4, <2>1 DEF ReleaseEmpty, Occupied, Goto
<1> QED
  BY <1>1, <1>2, <1>3, <1>4

LEMMA ItemsStep == IInv /\ Items /\ [Next]_vars => Items'
<1> SUFFICES ASSUME IInv, Items, [Next]_vars PROVE Items'
  OBVIOUS
<1>1. ASSUME NEW t \in Thread, Insert(t) PROVE Items'
  <2>1. /\ Contents' = Append(Contents, <<t, moved[t] + 1>>) /\ got' = got
        /\ t \in Producers /\ Contents \in Seq(Item) /\ t \notin Consumers
        /\ moved' = [moved EXCEPT ![t] = moved[t] + 1]
        /\ buffer_' = [buffer_ EXCEPT ![tail_] = <<t, moved[t] + 1>>]
        /\ pc' = [pc EXCEPT ![t] = "moved"]
    BY <1>1, InsertAppends, ThreadAssumption DEF Insert, Goto, Items
  <2>2. <<t, moved[t] + 1>> \in Item
    BY <2>1 DEF Items, Item
  <2>3. Contents' \in Seq(Item)
    BY <2>1, <2>2, AppendProperties
  <2>4. buffer_' \in [Index -> Slots] /\ moved' \in [Thread -> Nat]
    BY <2>1, <2>2 DEF Items, IInv, Types, Slots
  <2>5. ItemToMove' /\ Received'
    BY <2>1, ThreadSets DEF Items, ItemToMove, Received, IInv, Types
  <2> QED
    BY <2>1, <2>3, <2>4, <2>5 DEF Items
<1>2. ASSUME NEW t \in Thread, Remove(t) PROVE Items'
  <2>1. /\ Contents # << >> /\ Contents' = Tail(Contents)
        /\ buffer_[head_] = Head(Contents) /\ Contents \in Seq(Item)
        /\ t \in Consumers /\ buffer_' = buffer_
        /\ got' = [got EXCEPT ![t] = Append(got[t], buffer_[head_])]
        /\ moved' = [moved EXCEPT ![t] = moved[t] + 1]
        /\ pc' = [pc EXCEPT ![t] = "moved"]
    BY <1>2, RemoveTakesHead DEF Remove, Goto, Items
  <2>2. buffer_[head_] \in Item /\ Contents' \in Seq(Item)
    BY <2>1, HeadTailProperties
  <2>3. /\ Append(got[t], buffer_[head_]) \in Seq(Item)
        /\ Len(Append(got[t], buffer_[head_])) = moved[t] + 1
    BY <2>1, <2>2, AppendProperties DEF Items, Received
  <2>4. got' \in [Consumers -> Seq(Item)] /\ Received'
    BY <2>1, <2>3, ThreadSets DEF Items, Received
  <2>5. buffer_' \in [Index -> Slots] /\ moved' \in [Thread -> Nat] /\ ItemToMove'
    BY <2>1, ThreadSets DEF Items, ItemToMove, IInv, Types
  <2> QED
    BY <2>2, <2>4, <2>5 DEF Items
<1>3. ASSUME NEW t \in Thread,
             AcquireEmpty(t) \/ ReleaseFull(t) \/ AcquireFull(t) \/ ReleaseEmpty(t)
      PROVE  Items'
  <2>1. /\ UNCHANGED <<head_, tail_, buffer_, moved, got>>
        /\ Occupied' = Occupied
        /\ pc'[t] = "admitted" => moved[t] < Quota[t]
        /\ \A u \in Thread \ {t} : pc'[u] = pc[u]
    BY <1>3, OtherSteps
  <2>2. Contents' = Contents
    BY <2>1 DEF Contents
  <2>3. ItemToMove'
    BY <2>1 DEF Items, ItemToMove
  <2> QED
    BY <2>1, <2>2, <2>3 DEF Items, Received
<1>4. CASE Joined \/ UNCHANGED vars
  <2>1. UNCHANGED vars
    BY <1>4 DEF Joined
  <2> QED
    BY <2>1 DEF vars, Items, Contents, Occupied, At, ItemToMove, Received
<1> QED
  BY <1>1, <1>2, <1>3, <1>4 DEF Next, Step

LEMMA ItemsInvariance == Spec => [](IInv /\ Items)
  BY InvInit, InvStep, ItemsInit, ItemsStep, PTL DEF Spec

(* Types, in particular that a consumer receives nothing but items that     *)
(* were pushed: never a place that no producer has written yet.             *)
THEOREM TypeCorrect == Spec => []TypeOK
<1>1. IInv /\ Items => TypeOK
  BY DEF IInv, Types, Items, TypeOK, Label, Slots
<1> QED
  BY <1>1, ItemsInvariance, PTL

(* The semaphores and the mutex, taken one after the other by threads that  *)
(* overtake each other in between, make a FIFO of Capacity places.          *)
THEOREM BufferIsFifo == Spec => IsFifo
<1>1. Init => Fifo!Init
  <2> SUFFICES ASSUME Init PROVE Fifo!Init
    OBVIOUS
  <2>1. Contents = << >>
    <3>1. Len(Contents) = 0 /\ Contents \in Seq(Item)
      <4>1. IInv /\ Items
        BY InvInit, ItemsInit
      <4>2. At("moved", Producers) = 0 /\ At("admitted", Consumers) = 0
        BY ThreadSets, CountType DEF Init, At
      <4>3. Occupied = 0
        BY <4>2 DEF Init, Occupied
      <4> QED
        BY <4>1, <4>3, ContentsWindow DEF Items
    <3> QED
      BY <3>1, EmptySeq
  <2> QED
    BY <2>1, ThreadSets DEF Init, Fifo!Init
<1>2. IInv /\ Items /\ [Next]_vars => [Fifo!Next]_(Fifo!vars)
  <2> SUFFICES ASSUME IInv, Items, [Next]_vars
               PROVE  [Fifo!Next]_(Fifo!vars)
    OBVIOUS
  <2>1. moved \in [Thread -> Nat] /\ ItemToMove /\ Received
    BY DEF Items
  <2>2. ASSUME NEW t \in Thread, Insert(t) PROVE Fifo!Put(t) /\ t \in Producers
    <3>1. /\ t \in Producers /\ moved[t] < Quota[t] /\ got' = got
          /\ moved' = [moved EXCEPT ![t] = moved[t] + 1]
      BY <2>1, <2>2 DEF Insert, ItemToMove, Goto
    <3>2. /\ Contents' = Append(Contents, <<t, moved[t] + 1>>)
          /\ Len(Contents) < Capacity
      BY <2>2, InsertAppends
    <3>3. [p \in Producers |-> moved[p]]'
            = [[p \in Producers |-> moved[p]] EXCEPT ![t] = @ + 1]
      BY <2>1, <3>1, ThreadSets
    <3> HIDE DEF Contents
    <3> QED
      BY <3>1, <3>2, <3>3 DEF Fifo!Put
  <2>3. ASSUME NEW t \in Thread, Remove(t) PROVE Fifo!Take(t) /\ t \in Consumers
    <3>1. /\ t \in Consumers /\ moved[t] < Quota[t]
          /\ got' = [got EXCEPT ![t] = Append(@, buffer_[head_])]
          /\ moved' = [moved EXCEPT ![t] = moved[t] + 1]
      BY <2>1, <2>3 DEF Remove, ItemToMove, Goto
    <3>2. /\ Contents # << >> /\ Contents' = Tail(Contents)
          /\ buffer_[head_] = Head(Contents)
      BY <2>3, RemoveTakesHead
    <3>3. Len(got[t]) < Quota[t]
      BY <2>1, <3>1 DEF Received
    <3>4. [p \in Producers |-> moved[p]]' = [p \in Producers |-> moved[p]]
      BY <2>1, <3>1, ThreadSets, ThreadAssumption
    <3> HIDE DEF Contents
    <3> QED
      BY <3>1, <3>2, <3>3, <3>4 DEF Fifo!Take
  <2>4. ASSUME NEW t \in Thread,
               AcquireEmpty(t) \/ ReleaseFull(t) \/ AcquireFull(t) \/ ReleaseEmpty(t)
        PROVE  UNCHANGED Fifo!vars
    BY <2>4, OtherSteps DEF Fifo!vars, Contents
  <2>5. CASE Joined \/ UNCHANGED vars
    <3>1. UNCHANGED vars
      BY <2>5 DEF Joined
    <3> QED
      BY <3>1 DEF vars, Fifo!vars, Contents, Occupied, At
  <2> QED
    BY <2>2, <2>3, <2>4, <2>5 DEF Next, Step, Fifo!Next
<1> QED
  BY <1>1, <1>2, ItemsInvariance, PTL DEF Spec, IsFifo, Fifo!Spec
-----------------------------------------------------------------------------
(* Deadlock freedom, without ENABLED *)

(* A thread with a permit has a step, and one without has if its semaphore  *)
(* has a permit for the item that it still wants to move.                   *)
CanStep(t) ==
    \/ pc[t] \in {"admitted", "moved"}
    \/ moved[t] < Quota[t] /\ (IF t \in Producers THEN sem_empty_ > 0 ELSE sem_full_ > 0)
Finished(t) == pc[t] = "enter" /\ ~ (moved[t] < Quota[t])

(* The loops of one kind are over, and those of the other as well, or they  *)
(* want what nobody is left to give.                                        *)
NobodyToGive ==
    \/ \A p \in Producers : Finished(p) /\ (sem_full_ = 0 \/ \A c \in Consumers : Finished(c))
    \/ sem_empty_ = 0 /\ \A c \in Consumers : Finished(c)

(* Producers and consumers never wait for each other's permits in a circle: *)
(* some thread has a step until the loops of one kind are over.             *)
THEOREM NeverStuck ==
    Spec => []((\E t \in Thread : CanStep(t)) \/ NobodyToGive)
<1>1. ASSUME IInv, \A t \in Thread : ~ CanStep(t)
      PROVE  NobodyToGive
  <2>a. Types /\ sem_empty_ \in Nat /\ sem_full_ \in Nat
    BY <1>1 DEF IInv, Types
  <2>1. \A t \in Thread : pc[t] = "enter"
    BY <1>1, <2>a DEF CanStep, Types, Label
  <2>2. /\ At("moved", Producers) = 0 /\ At("moved", Consumers) = 0
        /\ At("admitted", Producers) = 0 /\ At("admitted", Consumers) = 0
    <3> SUFFICES ASSUME NEW S \in {Producers, Consumers}, NEW p \in {"moved", "admitted"}
                 PROVE  At(p, S) = 0
      OBVIOUS
    <3>1. {t \in S : pc[t] = p} = {}
      BY <2>1, ThreadSets
    <3> QED
      BY <3>1, FS_EmptySet DEF At, Count
  <2>3. sem_empty_ + sem_full_ > 0
    BY <1>1, <2>a, <2>2, CapacityAssumption
    DEF IInv, PermitsAccountForPlaces, Occupied, Free
  <2>4. \A p \in Producers : Finished(p) \/ sem_empty_ = 0
    BY <1>1, <2>a, <2>1, ThreadSets DEF CanStep, Finished
  <2>5. \A c \in Consumers : Finished(c) \/ sem_full_ = 0
    BY <1>1, <2>a, <2>1, ThreadSets, ThreadAssumption DEF CanStep, Finished
  <2> QED
    BY <2>a, <2>3, <2>4, <2>5 DEF NobodyToGive
<1>2. IInv => (\E t \in Thread : CanStep(t)) \/ NobodyToGive
  BY <1>1
<1> QED
  BY <1>2, Invariance, PTL
=============================================================================
