--------------------------- MODULE LockFreeProofs ---------------------------
(***************************************************************************)
(* What relies on the C++ memory model, for every number of threads, of    *)
(* items and every capacity.                                               *)
(*                                                                         *)
(* The lock-free queue: however outdated the indices that push() and pop() *)
(* load, neither overtakes the other, the accesses to a slot never race,   *)
(* and the queue is a FIFO.                                                *)
(*                                                                         *)
(* The programs that share counters, locks and flags: every view is within *)
(* the histories (MemoryInv), and each access either looks at a history or *)
(* adds a store to it.  Who holds a lock knows of all accesses of the      *)
(* counter made before, and the newest store of a lock that nobody holds   *)
(* does (LockedInv); a raised flag, and whoever has seen it, knows of the  *)
(* write it announces (PublishedInv); readers of seq_cst flags do not both *)
(* miss one (IriwInv).  So nothing races but what the programs let race.   *)
(* What is counted is then the number of increments made (CounterInv), of  *)
(* runs of a place (StatisticsInv), or names one thread (InitOnceInv).     *)
(***************************************************************************)
EXTENDS MemoryOrder, SpscQueue, CommonTheorems
-----------------------------------------------------------------------------
(* The lock-free queue                                                      *)

(* WithinOneLap is inductive once the types are known, a thread that is     *)
(* past its test has an item to move, and the consumer has seen every store *)
(* of tail_ that its position accounts for: without that an outdated load   *)
(* of tail_ could lie behind head_, and different slots would not mean that *)
(* there is an item.                                                        *)
ItemToMove == ppc \in {"write", "publish"} => tail_ < NUM_STEPS
ItemsSeen == head_ <= tail_seen

IInv == SpscTypeOK /\ ItemToMove /\ ItemsSeen /\ WithinOneLap

LEMMA MaskType == \A position \in Nat : mask(position) \in 0 .. Capacity - 1
  BY CapacityAssumption, Division DEF mask

LEMMA InvInit == SpscInit => IInv
<1> SUFFICES ASSUME SpscInit PROVE IInv
  OBVIOUS
<1>1. SpscTypeOK
  <2>1. buffer_ \in [0 .. Capacity - 1 -> Item \cup {Unset}]
    BY DEF SpscInit
  <2>2. received \in Seq(Item \cup {Unset})
    BY DEF SpscInit
  <2> QED
    BY <2>1, <2>2, StepsAssumption DEF SpscInit, SpscTypeOK
<1> QED
  BY <1>1, CapacityAssumption DEF SpscInit, IInv, ItemToMove, ItemsSeen, WithinOneLap

(* push() past its test is one place short of a lap ahead of the store of   *)
(* head_ that it saw: one more would be in the same slot.                   *)
LEMMA RoomSeen ==
    ASSUME IInv, NEW store \in head_seen .. head_, mask(tail_ + 1) # mask(store)
    PROVE  tail_ + 1 - store < Capacity
<1>1. /\ tail_ \in Nat /\ store \in Nat /\ Capacity \in Nat \ {0}
      /\ tail_ - store < Capacity
  BY CapacityAssumption, StepsAssumption DEF IInv, SpscTypeOK, WithinOneLap
<1>2. CASE tail_ + 1 - store = Capacity
  <2>1. tail_ + 1 = store + Capacity
    BY <1>1, <1>2
  <2>2. (store + Capacity) % Capacity = store % Capacity
    BY <1>1, NextLap
  <2> QED
    BY <2>1, <2>2 DEF mask
<1> QED
  BY <1>1, <1>2

LEMMA InvStep == IInv /\ [SpscNext]_spscVars => IInv'
<1> SUFFICES ASSUME IInv, [SpscNext]_spscVars PROVE IInv'
  OBVIOUS
<1>m. mask(head_) \in 0 .. Capacity - 1 /\ mask(tail_) \in 0 .. Capacity - 1
  <2>1. head_ \in Nat /\ tail_ \in Nat
    BY StepsAssumption DEF IInv, SpscTypeOK
  <2> QED
    BY <2>1, MaskType
<1> USE CapacityAssumption, StepsAssumption
    DEF IInv, SpscTypeOK, ItemToMove, ItemsSeen, WithinOneLap
<1>1. ASSUME NEW store \in 0 .. NUM_STEPS, LoadHead(store) PROVE IInv'
  <2>1. ppc' = "write" => tail_ + 1 - store < Capacity
    BY <1>1, RoomSeen DEF LoadHead
  <2> QED
    BY <1>1, <2>1 DEF LoadHead
<1>2. CASE WriteSlot
  <2>1. tail_ + 1 \in Item
    BY <1>2 DEF WriteSlot, Item
  <2>2. buffer_' \in [0 .. Capacity - 1 -> Item \cup {Unset}]
    BY <1>2, <1>m, <2>1 DEF WriteSlot
  <2> QED
    BY <1>2, <2>2 DEF WriteSlot
<1>3. CASE StoreTail
  BY <1>3 DEF StoreTail
<1>4. ASSUME NEW store \in 0 .. NUM_STEPS, LoadTail(store) PROVE IInv'
  <2>1. cpc' = "read" => head_ < store
    <3>1. cpc' = "read" => store # head_
      BY <1>4 DEF LoadTail
    <3>2. store >= head_
      BY <1>4 DEF LoadTail
    <3> QED
      BY <3>1, <3>2
  <2> QED
    BY <1>4, <2>1 DEF LoadTail
<1>5. CASE ReadSlot
  <2>1. data' \in Item \cup {Unset}
    BY <1>5, <1>m DEF ReadSlot
  <2> QED
    BY <1>5, <2>1 DEF ReadSlot
<1>6. CASE StoreHead
  <2>1. received' \in Seq(Item \cup {Unset})
    BY <1>6 DEF StoreHead
  <2> QED
    BY <1>6, <2>1 DEF StoreHead
<1>7. CASE SpscJoined \/ UNCHANGED spscVars
  BY <1>7 DEF SpscJoined, spscVars
<1> QED
  BY <1>1, <1>2, <1>3, <1>4, <1>5, <1>6, <1>7 DEF SpscNext, Producer, Consumer

LEMMA Invariance == SpscSpec => []IInv
  BY InvInit, InvStep, PTL DEF SpscSpec

(* The types of the two indices, of the slots and of what was received.     *)
THEOREM TypeCorrect == SpscSpec => []SpscTypeOK
<1>1. IInv => SpscTypeOK
  BY DEF IInv
<1> QED
  BY <1>1, Invariance, PTL

(* What push() and pop() conclude from wrapped and outdated indices is true *)
(* of the positions: the queue is never taken for one with room, or with an *)
(* item, that it does not have.                                             *)
THEOREM OneLap == SpscSpec => []WithinOneLap
<1>1. IInv => WithinOneLap
  BY DEF IInv
<1> QED
  BY <1>1, Invariance, PTL

(* The plain accesses of push() and of pop() to a slot never race.          *)
THEOREM RaceFree == SpscSpec => []SlotsDoNotRace
<1>1. IInv => SlotsDoNotRace
  <2> SUFFICES ASSUME IInv PROVE SlotsDoNotRace
    OBVIOUS
  <2> USE CapacityAssumption, StepsAssumption DEF IInv, SpscTypeOK, WithinOneLap
  <2>1. ppc = "write" /\ tail_ >= Capacity => tail_ - Capacity < head_seen
    OBVIOUS
  <2>2. cpc = "read" => head_ < tail_seen
    OBVIOUS
  <2>3. ASSUME ppc = "write", cpc = "read" PROVE mask(tail_) # mask(head_)
    <3>1. head_ \in Nat /\ tail_ \in Nat /\ Capacity \in Nat \ {0}
      OBVIOUS
    <3>2. head_ < tail_ /\ tail_ < head_ + Capacity
      BY <2>3
    <3>3. head_ % Capacity # tail_ % Capacity
      BY <3>1, <3>2, WithinLap
    <3> QED
      BY <3>3 DEF mask
  <2> QED
    BY <2>1, <2>2, <2>3 DEF SlotsDoNotRace
<1> QED
  BY <1>1, Invariance, PTL
-----------------------------------------------------------------------------
(* The refinement of the FIFO *)

(* The slots from head_ up to tail_ hold their items, the slot written but  *)
(* not yet published too; the item at the head is the one pop() has read;   *)
(* and the items before it are those received.                              *)
SlotsHold ==
    \A p \in Nat :
        (head_ <= p /\ p < tail_) \/ (p = tail_ /\ ppc = "publish")
            => buffer_[mask(p)] = p + 1
InHand == cpc = "release" => data = head_ + 1
InOrder == Len(received) = head_ /\ \A i \in 1 .. head_ : received[i] = i

Items == SlotsHold /\ InHand /\ InOrder

LEMMA ItemsInit == SpscInit => Items
<1> SUFFICES ASSUME SpscInit PROVE Items
  OBVIOUS
<1>1. SlotsHold /\ InHand
  BY DEF SpscInit, SlotsHold, InHand
<1>2. InOrder
  BY DEF SpscInit, InOrder
<1> QED
  BY <1>1, <1>2 DEF Items

LEMMA ItemsStep == IInv /\ Items /\ [SpscNext]_spscVars => Items'
<1> SUFFICES ASSUME IInv, Items, [SpscNext]_spscVars PROVE Items'
  OBVIOUS
<1>t. /\ tail_ \in Nat /\ head_ \in Nat /\ head_ <= tail_
      /\ tail_ < head_ + Capacity /\ Capacity \in Nat \ {0}
      /\ buffer_ \in [0 .. Capacity - 1 -> Item \cup {Unset}]
      /\ cpc \in {"read", "release"} => head_ < tail_
      /\ received \in Seq(Item \cup {Unset}) /\ data \in Item \cup {Unset}
  BY CapacityAssumption, StepsAssumption DEF IInv, SpscTypeOK, WithinOneLap
<1>i. SlotsHold /\ InHand /\ InOrder
  BY DEF Items
<1>1. ASSUME NEW store \in 0 .. NUM_STEPS, LoadHead(store) PROVE Items'
  <2>1. SlotsHold'
    BY <1>1, <1>i DEF LoadHead, SlotsHold
  <2> QED
    BY <1>1, <1>i, <2>1 DEF LoadHead, Items, InHand, InOrder
<1>2. CASE WriteSlot
  <2>1. SlotsHold'
    <3> SUFFICES ASSUME NEW p \in Nat, head_ <= p, p <= tail_
                 PROVE  buffer_'[mask(p)] = p + 1
      BY <1>2, <1>t DEF WriteSlot, SlotsHold
    <3>1. mask(p) \in 0 .. Capacity - 1 /\ mask(tail_) \in 0 .. Capacity - 1
      BY <1>t, MaskType
    <3>2. CASE p = tail_
      BY <1>2, <1>t, <3>1, <3>2 DEF WriteSlot
    <3>3. CASE p < tail_
      <4>1. tail_ < p + Capacity
        BY <1>t
      <4>2. mask(p) # mask(tail_)
        BY <1>t, <3>3, <4>1, WithinLap DEF mask
      <4>3. buffer_[mask(p)] = p + 1
        BY <1>i, <1>t, <3>3 DEF SlotsHold
      <4> QED
        BY <1>2, <1>t, <3>1, <4>2, <4>3 DEF WriteSlot
    <3> QED
      BY <1>t, <3>2, <3>3
  <2> QED
    BY <1>2, <1>i, <2>1 DEF WriteSlot, Items, InHand, InOrder
<1>3. CASE StoreTail
  <2>1. SlotsHold'
    BY <1>3, <1>i, <1>t DEF StoreTail, SlotsHold
  <2> QED
    BY <1>3, <1>i, <2>1 DEF StoreTail, Items, InHand, InOrder
<1>4. ASSUME NEW store \in 0 .. NUM_STEPS, LoadTail(store) PROVE Items'
  <2>1. SlotsHold'
    BY <1>4, <1>i DEF LoadTail, SlotsHold
  <2> QED
    BY <1>4, <1>i, <2>1 DEF LoadTail, Items, InHand, InOrder
<1>5. CASE ReadSlot
  <2>1. SlotsHold'
    BY <1>5, <1>i DEF ReadSlot, SlotsHold
  <2>2. data' = head_ + 1
    BY <1>5, <1>i, <1>t DEF ReadSlot, SlotsHold
  <2> QED
    BY <1>5, <1>i, <2>1, <2>2 DEF ReadSlot, Items, InHand, InOrder
<1>6. CASE StoreHead
  <2>1. SlotsHold'
    BY <1>6, <1>i, <1>t DEF StoreHead, SlotsHold
  <2>2. data = head_ + 1 /\ received' = Append(received, data) /\ head_' = head_ + 1
    BY <1>6, <1>i DEF StoreHead, InHand
  <2>3. /\ Len(received') = Len(received) + 1
        /\ \A i \in 1 .. Len(received) : received'[i] = received[i]
        /\ received'[Len(received) + 1] = data
    BY <1>t, <2>2, AppendProperties
  <2>4. InOrder'
    BY <1>i, <1>t, <2>2, <2>3 DEF InOrder
  <2> QED
    BY <1>6, <2>1, <2>4 DEF StoreHead, Items, InHand
<1>7. CASE SpscJoined \/ UNCHANGED spscVars
  <2>1. UNCHANGED spscVars
    BY <1>7 DEF SpscJoined
  <2> QED
    BY <2>1, <1>i DEF spscVars, Items, SlotsHold, InHand, InOrder
<1> QED
  BY <1>1, <1>2, <1>3, <1>4, <1>5, <1>6, <1>7 DEF SpscNext, Producer, Consumer

LEMMA ItemsInvariance == SpscSpec => [](IInv /\ Items)
  BY InvInit, InvStep, ItemsInit, ItemsStep, PTL DEF SpscSpec

(* The n items that follow the first `before'.                              *)
Run(before, n) == [i \in 1 .. n |-> <<"producer", before + i>>]

LEMMA RunType ==
    ASSUME NEW before \in Nat, NEW n \in Nat
    PROVE  /\ Run(before, n) \in Seq({"producer"} \X Nat)
           /\ Len(Run(before, n)) = n
           /\ \A i \in 1 .. n : Run(before, n)[i] = <<"producer", before + i>>
<1> DEFINE r == [i \in 1 .. n |-> <<"producer", before + i>>]
<1>1. r \in [1 .. n -> {"producer"} \X Nat]
  OBVIOUS
<1>2. \A i \in 1 .. n : r[i] = <<"producer", before + i>>
  OBVIOUS
<1> HIDE DEF r
<1>3. r \in Seq({"producer"} \X Nat) /\ Len(r) = n
  BY <1>1, FunctionSeq
<1> QED
  BY <1>2, <1>3 DEF Run, r

LEMMA RunAppend ==
    ASSUME NEW before \in Nat, NEW n \in Nat
    PROVE  Appended(Run(before, n + 1), Run(before, n),
                    <<"producer", before + n + 1>>)
<1> DEFINE shorter == Run(before, n)
           longer == Run(before, n + 1)
<1>1. /\ shorter \in Seq({"producer"} \X Nat) /\ Len(shorter) = n
      /\ \A i \in 1 .. n : shorter[i] = <<"producer", before + i>>
  BY RunType
<1>2. /\ longer \in Seq({"producer"} \X Nat) /\ Len(longer) = n + 1
      /\ \A i \in 1 .. n + 1 : longer[i] = <<"producer", before + i>>
  <2>1. n + 1 \in Nat
    OBVIOUS
  <2> QED
    BY <2>1, RunType
<1> DEFINE item == <<"producer", before + n + 1>>
           Entries == {"producer"} \X Nat
<1> HIDE DEF shorter, longer
<1>3. longer[n + 1] = item
  <2>1. before + (n + 1) = before + n + 1
    OBVIOUS
  <2> QED
    BY <1>2, <2>1
<1>4. item \in Entries
  OBVIOUS
<1>5. ASSUME NEW i \in 1 .. n
      PROVE  longer[i] = shorter[i]
  <2>1. i \in 1 .. n + 1
    OBVIOUS
  <2> QED
    BY <1>1, <1>2, <2>1
<1>6. shorter \in Seq(Entries) /\ longer \in Seq(Entries)
  BY <1>1, <1>2
<1>7. Len(shorter) = n /\ Len(longer) = n + 1
  BY <1>1, <1>2
<1> HIDE DEF item, Entries
<1>8. longer = Append(shorter, item)
  BY <1>3, <1>4, <1>5, <1>6, <1>7, IsAppend
<1> QED
  BY <1>8 DEF Appended, shorter, longer, item

LEMMA RunTail ==
    ASSUME NEW before \in Nat, NEW n \in Nat \ {0}
    PROVE  /\ Run(before, n) # << >>
           /\ Head(Run(before, n)) = <<"producer", before + 1>>
           /\ Run(before + 1, n - 1) = Tail(Run(before, n))
<1> DEFINE longer == Run(before, n)
           shorter == Run(before + 1, n - 1)
<1>1. /\ longer \in Seq({"producer"} \X Nat) /\ Len(longer) = n
      /\ \A i \in 1 .. n : longer[i] = <<"producer", before + i>>
  BY RunType
<1>2. /\ shorter \in Seq({"producer"} \X Nat) /\ Len(shorter) = n - 1
      /\ \A i \in 1 .. n - 1 : shorter[i] = <<"producer", (before + 1) + i>>
  <2>1. n - 1 \in Nat /\ before + 1 \in Nat
    OBVIOUS
  <2> QED
    BY <2>1, RunType
<1> HIDE DEF longer, shorter
<1>3. longer # << >>
  BY <1>1
<1>4. Head(longer) = <<"producer", before + 1>>
  BY <1>1, <1>3
<1>5. ASSUME NEW i \in 1 .. n - 1
      PROVE  shorter[i] = longer[i + 1]
  <2>1. (before + 1) + i = before + (i + 1) /\ i + 1 \in 1 .. n
    OBVIOUS
  <2> QED
    BY <1>1, <1>2, <2>1
<1>6. shorter = Tail(longer)
  <2>1. PICK S : S = {"producer"} \X Nat
    OBVIOUS
  <2>2. longer \in Seq(S) /\ Len(longer) = n /\ shorter \in Seq(S) /\ Len(shorter) = n - 1
    BY <1>1, <1>2, <2>1
  <2>3. /\ Len(shorter) = Len(longer) - 1
        /\ \A i \in 1 .. Len(shorter) : shorter[i] = longer[i + 1]
    BY <1>5, <2>2
  <2> QED
    BY <1>3, <2>2, <2>3, IsTail
<1> QED
  BY <1>3, <1>4, <1>6 DEF longer, shorter

(* The queue and what the consumer got, as the FIFO sees them.              *)
Stored(slots, first, end) ==
    [i \in 1 .. end - first |-> <<"producer", slots[mask(first + i - 1)]>>]
Taken(items) == [i \in DOMAIN items |-> <<"producer", items[i]>>]
Contents == Stored(buffer_, head_, tail_)
GotItems == Taken(received)

LEMMA StoredRun ==
    ASSUME NEW slots, NEW first \in Nat, NEW end \in Nat,
           \A p \in Nat : first <= p /\ p < end => slots[mask(p)] = p + 1
    PROVE  Stored(slots, first, end) = Run(first, end - first)
<1>1. ASSUME NEW i \in 1 .. end - first
      PROVE  slots[mask(first + i - 1)] = first + i
  <2> DEFINE p == first + i - 1
  <2>1. p \in Nat /\ first <= p /\ p < end /\ p + 1 = first + i
    OBVIOUS
  <2> HIDE DEF p
  <2>2. slots[mask(p)] = p + 1
    BY <2>1
  <2> QED
    BY <2>1, <2>2 DEF p
<1> QED
  BY <1>1, Zenon DEF Stored, Run

LEMMA TakenRun ==
    ASSUME NEW items, NEW n \in Nat, DOMAIN items = 1 .. n,
           \A i \in 1 .. n : items[i] = i
    PROVE  Taken(items) = Run(0, n)
<1>1. \A i \in 1 .. n : items[i] = 0 + i
  OBVIOUS
<1> QED
  BY <1>1, Zenon DEF Taken, Run

(* Whatever the loads of the other thread's index return, the two threads   *)
(* implement a FIFO of Capacity - 1 places: storing tail_ is its put,       *)
(* storing head_ its take, and every other step leaves it as it is.         *)
THEOREM BufferIsFifo == SpscSpec => IsFifo
<1>1. SpscInit => Fifo!Init
  <2> SUFFICES ASSUME SpscInit PROVE Fifo!Init
    OBVIOUS
  <2>1. Contents = << >>
    BY DEF SpscInit, Contents, Stored
  <2>2. GotItems = << >>
    BY DEF SpscInit, GotItems, Taken
  <2> QED
    BY <2>1, <2>2 DEF SpscInit, Fifo!Init, Contents, GotItems, Stored, Taken
<1>2. ASSUME IInv, Items, IInv', Items', [SpscNext]_spscVars
      PROVE  [Fifo!Next]_(Fifo!vars)
  <2>a. /\ tail_ \in Nat /\ head_ \in Nat /\ head_ <= tail_
        /\ received \in Seq(Item \cup {Unset}) /\ SlotsHold /\ InOrder
    BY <1>2, StepsAssumption DEF IInv, SpscTypeOK, WithinOneLap, Items
  <2>b. /\ tail_' \in Nat /\ head_' \in Nat /\ head_' <= tail_'
        /\ received' \in Seq(Item \cup {Unset}) /\ SlotsHold' /\ InOrder'
    BY <1>2, StepsAssumption DEF IInv, SpscTypeOK, WithinOneLap, Items
  <2>c. /\ Contents = Run(head_, tail_ - head_)
        /\ GotItems = Run(0, head_)
    <3>1. \A p \in Nat : head_ <= p /\ p < tail_ => buffer_[mask(p)] = p + 1
      BY <2>a DEF SlotsHold
    <3>2. DOMAIN received = 1 .. head_ /\ \A i \in 1 .. head_ : received[i] = i
      BY <2>a DEF InOrder
    <3> QED
      BY <2>a, <3>1, <3>2, StoredRun, TakenRun DEF Contents, GotItems
  <2>d. /\ Contents' = Run(head_', tail_' - head_')
        /\ GotItems' = Run(0, head_')
    <3>1. \A p \in Nat :
              head_' <= p /\ p < tail_' => buffer_'[mask(p)] = p + 1
      BY <2>b DEF SlotsHold
    <3>2. /\ DOMAIN received' = 1 .. head_'
          /\ \A i \in 1 .. head_' : received'[i] = i
      BY <2>b DEF InOrder
    <3> QED
      BY <2>b, <3>1, <3>2, StoredRun, TakenRun DEF Contents, GotItems
  <2>1. CASE StoreTail
    <3>1. /\ tail_' = tail_ + 1 /\ head_' = head_ /\ tail_ < NUM_STEPS
          /\ tail_ - head_ < Capacity - 1
      BY <1>2, <2>1, CapacityAssumption, StepsAssumption
      DEF StoreTail, IInv, SpscTypeOK, ItemToMove, WithinOneLap
    <3> DEFINE n == tail_ - head_
    <3>2. n \in Nat /\ tail_' - head_' = n + 1 /\ head_ + n + 1 = tail_ + 1
      BY <2>a, <3>1
    <3> HIDE DEF n
    <3>3. Appended(Run(head_, n + 1), Run(head_, n), <<"producer", head_ + n + 1>>)
      BY <2>a, <3>2, RunAppend
    <3>4. Contents' = Append(Contents, <<"producer", tail_ + 1>>)
      BY <2>c, <2>d, <3>1, <3>2, <3>3 DEF Appended, n
    <3>5. Len(Contents) < Capacity - 1
      BY <2>a, <2>c, <3>1, <3>2, RunType DEF n
    <3>6. GotItems' = GotItems
      BY <2>c, <2>d, <3>1
    <3> HIDE DEF Contents, GotItems
    <3>7. Fifo!Put("producer")
      BY <3>1, <3>4, <3>5, <3>6 DEF Fifo!Put, Contents, GotItems, Stored, Taken
    <3> QED
      BY <3>7 DEF Fifo!Next
  <2>2. CASE StoreHead
    <3>1. /\ head_' = head_ + 1 /\ tail_' = tail_ /\ head_ < tail_
          /\ head_ < NUM_STEPS
      BY <1>2, <2>2, StepsAssumption
      DEF StoreHead, IInv, SpscTypeOK, WithinOneLap
    <3> DEFINE n == tail_ - head_
    <3>2. n \in Nat \ {0} /\ tail_' - head_' = n - 1
      BY <2>a, <3>1
    <3> HIDE DEF n
    <3>3. /\ Run(head_, n) # << >>
          /\ Head(Run(head_, n)) = <<"producer", head_ + 1>>
          /\ Run(head_ + 1, n - 1) = Tail(Run(head_, n))
      BY <2>a, <3>2, RunTail, Zenon
    <3>4. /\ Contents # << >> /\ Head(Contents) = <<"producer", head_ + 1>>
          /\ Contents' = Tail(Contents)
      BY <2>c, <2>d, <3>1, <3>2, <3>3 DEF n
    <3>5. Appended(Run(0, head_ + 1), Run(0, head_), <<"producer", 0 + head_ + 1>>)
      BY <2>a, RunAppend
    <3>6. GotItems' = Append(GotItems, Head(Contents))
      <4>1. 0 + head_ + 1 = head_ + 1
        BY <2>a
      <4>2. GotItems' = Run(0, head_ + 1)
        BY <2>d, <3>1
      <4> HIDE DEF Contents, GotItems
      <4> QED
        BY <2>c, <3>4, <3>5, <4>1, <4>2 DEF Appended
    <3>7. Len(GotItems) < NUM_STEPS
      BY <2>a, <2>c, <3>1, RunType
    <3>8. Fifo!Take("consumer")
      BY <3>1, <3>4, <3>6, <3>7 DEF Fifo!Take, Contents, GotItems, Stored, Taken
    <3> QED
      BY <3>8 DEF Fifo!Next
  <2>3. CASE ~ StoreTail /\ ~ StoreHead
    <3>1. tail_' = tail_ /\ head_' = head_
      BY <1>2, <2>3
      DEF SpscNext, Producer, Consumer, LoadHead, WriteSlot, LoadTail, ReadSlot, SpscJoined, spscVars
    <3>2. Contents' = Contents /\ GotItems' = GotItems
      BY <2>c, <2>d, <3>1
    <3> QED
      BY <3>1, <3>2 DEF Fifo!vars, Contents, GotItems, Stored, Taken
  <2> QED
    BY <2>1, <2>2, <2>3
<1> QED
  BY <1>1, <1>2, ItemsInvariance, PTL DEF SpscSpec, IsFifo, Fifo!Spec
-----------------------------------------------------------------------------
(* The programs, counters and spin lock                                     *)

(* The thread functions, place by place. *)
LockOf(p) == IF p = "spin_lock" THEN "flag" ELSE "mtx"
locked == {"mutex", "spin_lock", "workers"}
Iterations(p, t) == IF p = "workers" /\ t = 2 THEN 1 ELSE NUM_ITEMS

LockedAt(m, i) ==
    CASE i % 4 = 1 -> Lock(m)
      [] i % 4 = 2 -> Read("counter")
      [] i % 4 = 3 -> WriteNext("counter")
      [] i % 4 = 0 -> Unlock(m)

LEMMA LockedPlaces ==
    ASSUME NEW m, NEW k \in Nat
    PROVE  LET code == Times(k, LockedIncrement(m, "counter")) IN
           /\ DOMAIN code = 1 .. 4 * k /\ Len(code) = 4 * k
           /\ \A i \in 1 .. 4 * k : code[i] = LockedAt(m, i)
<1> DEFINE block == LockedIncrement(m, "counter")
           code == Times(k, block)
<1>1. block = << Lock(m), Read("counter"), WriteNext("counter"), Unlock(m) >>
  BY DEF LockedIncrement
<1>2. Len(block) = 4 /\ block[1] = Lock(m) /\ block[2] = Read("counter")
      /\ block[3] = WriteNext("counter") /\ block[4] = Unlock(m)
  BY <1>1
<1> HIDE DEF block
<1>3. code = [place \in 1 .. k * 4 |-> block[((place - 1) % 4) + 1]]
  BY <1>2 DEF Times, Loop
<1> HIDE DEF code
<1>4. DOMAIN code = 1 .. 4 * k
  BY <1>3
<1>5. Len(code) = 4 * k
  BY <1>3
<1>6. ASSUME NEW i \in 1 .. 4 * k PROVE code[i] = LockedAt(m, i)
  <2>1. code[i] = block[((i - 1) % 4) + 1]
    BY <1>3
  <2>2. \/ i % 4 = 1 /\ ((i - 1) % 4) + 1 = 1
        \/ i % 4 = 2 /\ ((i - 1) % 4) + 1 = 2
        \/ i % 4 = 3 /\ ((i - 1) % 4) + 1 = 3
        \/ i % 4 = 0 /\ ((i - 1) % 4) + 1 = 4
    OBVIOUS
  <2> QED
    BY <1>2, <2>1, <2>2 DEF LockedAt
<1> QED
  BY <1>4, <1>5, <1>6 DEF code, block

LEMMA LockedCode ==
    ASSUME NEW p \in locked
    PROVE  /\ DOMAIN Code[p] = IF p = "workers" THEN 1 .. 3 ELSE 1 .. NUM_THREADS
           /\ \A t \in DOMAIN Code[p] :
                /\ DOMAIN Code[p][t] = 1 .. 4 * Iterations(p, t)
                /\ Len(Code[p][t]) = 4 * Iterations(p, t)
                /\ \A i \in DOMAIN Code[p][t] : Code[p][t][i] = LockedAt(LockOf(p), i)
<1> DEFINE code(t) == Times(Iterations(p, t), LockedIncrement(LockOf(p), "counter"))
<1>0. ASSUME NEW t
      PROVE  /\ DOMAIN code(t) = 1 .. 4 * Iterations(p, t)
             /\ Len(code(t)) = 4 * Iterations(p, t)
             /\ \A i \in DOMAIN code(t) : code(t)[i] = LockedAt(LockOf(p), i)
  <2>1. Iterations(p, t) \in Nat
    BY SizesAssumption DEF Iterations
  <2> QED
    BY <2>1, LockedPlaces
<1>1. CASE p = "mutex" \/ p = "spin_lock"
  <2>1. Code[p] = IF p = "mutex" THEN MutexCounter ELSE SpinLockCounter
    BY <1>1 DEF Code
  <2>2. /\ MutexCounter = [i \in 1 .. NUM_THREADS |->
                             Times(NUM_ITEMS, LockedIncrement("mtx", "counter"))]
        /\ SpinLockCounter = [i \in 1 .. NUM_THREADS |->
                             Times(NUM_ITEMS, LockedIncrement("flag", "counter"))]
    BY DEF MutexCounter, SpinLockCounter, Counters, ForEach
  <2>3. DOMAIN Code[p] = 1 .. NUM_THREADS /\ \A t \in DOMAIN Code[p] : Code[p][t] = code(t)
    BY <1>1, <2>1, <2>2 DEF Iterations, LockOf
  <2> QED
    BY <1>0, <1>1, <2>3, Zenon
<1>2. CASE p = "workers"
  <2>1. Code[p] = ThreeWorkers
    BY <1>2 DEF Code
  <2>2. ThreeWorkers = [i \in 1 .. 3 |->
          Times(IF i = 2 THEN 1 ELSE NUM_ITEMS, LockedIncrement("mtx", "counter"))]
    BY DEF ThreeWorkers, ForEach
  <2>3. DOMAIN Code[p] = 1 .. 3 /\ \A t \in DOMAIN Code[p] : Code[p][t] = code(t)
    BY <1>2, <2>1, <2>2 DEF Iterations, LockOf
  <2> HIDE DEF code
  <2> QED
    BY <1>0, <1>2, <2>3
<1> QED
  BY <1>1, <1>2 DEF locked


LEMMA UnlockedCode ==
    /\ DOMAIN Code["unlocked"] = 1 .. NUM_THREADS
    /\ \A t \in 1 .. NUM_THREADS :
         /\ DOMAIN Code["unlocked"][t] = 1 .. 2 * NUM_ITEMS
         /\ Len(Code["unlocked"][t]) = 2 * NUM_ITEMS
         /\ \A i \in 1 .. 2 * NUM_ITEMS :
              Code["unlocked"][t][i] = IF i % 2 = 1 THEN Read("counter") ELSE WriteNext("counter")
<1> DEFINE block == << Read("counter"), WriteNext("counter") >>
           code == Times(NUM_ITEMS, block)
<1>1. Code["unlocked"] = [t \in 1 .. NUM_THREADS |-> code]
  BY DEF Code, Unlocked, Counters, ForEach, Increment
<1>2. Len(block) = 2 /\ block[1] = Read("counter") /\ block[2] = WriteNext("counter")
  OBVIOUS
<1> HIDE DEF block
<1>3. code = [place \in 1 .. NUM_ITEMS * 2 |-> block[((place - 1) % 2) + 1]]
  BY <1>2 DEF Times, Loop
<1>4. NUM_ITEMS * 2 = 2 * NUM_ITEMS /\ 2 * NUM_ITEMS \in Nat
  BY SizesAssumption
<1> HIDE DEF code
<1>5. DOMAIN code = 1 .. 2 * NUM_ITEMS /\ Len(code) = 2 * NUM_ITEMS
  BY <1>3, <1>4
<1>6. ASSUME NEW i \in 1 .. 2 * NUM_ITEMS
      PROVE  code[i] = IF i % 2 = 1 THEN Read("counter") ELSE WriteNext("counter")
  <2>1. code[i] = block[((i - 1) % 2) + 1]
    BY <1>3, <1>4
  <2>2. \/ i % 2 = 1 /\ ((i - 1) % 2) + 1 = 1
        \/ i % 2 = 0 /\ ((i - 1) % 2) + 1 = 2
    OBVIOUS
  <2> QED
    BY <1>2, <2>1, <2>2
<1> QED
  BY <1>1, <1>5, <1>6

LEMMA AtomicCode ==
    /\ DOMAIN Code["atomic"] = 1 .. NUM_THREADS
    /\ \A t \in 1 .. NUM_THREADS :
         /\ DOMAIN Code["atomic"][t] = 1 .. NUM_ITEMS
         /\ Len(Code["atomic"][t]) = NUM_ITEMS
         /\ \A i \in 1 .. NUM_ITEMS : Code["atomic"][t][i] = FetchAdd("counter", 1, "relaxed")
<1> DEFINE block == << FetchAdd("counter", 1, "relaxed") >>
           code == Times(NUM_ITEMS, block)
<1>1. Code["atomic"] = [t \in 1 .. NUM_THREADS |-> code]
  BY DEF Code, AtomicCounter, Counters, ForEach, AtomicIncrement
<1>2. Len(block) = 1 /\ block[1] = FetchAdd("counter", 1, "relaxed")
  OBVIOUS
<1> HIDE DEF block
<1>3. code = [place \in 1 .. NUM_ITEMS * 1 |-> block[((place - 1) % 1) + 1]]
  BY <1>2 DEF Times, Loop
<1>4. NUM_ITEMS * 1 = NUM_ITEMS /\ NUM_ITEMS \in Nat
  BY SizesAssumption
<1> HIDE DEF code
<1>5. DOMAIN code = 1 .. NUM_ITEMS /\ Len(code) = NUM_ITEMS
  BY <1>3, <1>4
<1>6. ASSUME NEW i \in 1 .. NUM_ITEMS PROVE code[i] = FetchAdd("counter", 1, "relaxed")
  <2>1. code[i] = block[((i - 1) % 1) + 1]
    BY <1>3, <1>4
  <2>2. ((i - 1) % 1) + 1 = 1
    OBVIOUS
  <2> QED
    BY <1>2, <2>1, <2>2
<1> QED
  BY <1>1, <1>5, <1>6

LEMMA ProgressCode ==
    /\ DOMAIN Code["progress"] = 1 .. 2
    /\ DOMAIN Code["progress"][1] = 1 .. NUM_ITEMS
    /\ Len(Code["progress"][1]) = NUM_ITEMS
    /\ \A i \in 1 .. NUM_ITEMS : Code["progress"][1][i] = Store("progress", i, "relaxed")
    /\ Code["progress"][2] =
         << Load("progress", "relaxed"), GoUnless("progress", NUM_ITEMS, 1) >>
<1> DEFINE first == [i \in 1 .. NUM_ITEMS |-> Store("progress", i, "relaxed")]
           second == << Load("progress", "relaxed"), GoUnless("progress", NUM_ITEMS, 1) >>
<1>1. Code["progress"] = << first, second >>
  BY DEF Code, Progress, ForEach
<1>2. DOMAIN first = 1 .. NUM_ITEMS /\ Len(first) = NUM_ITEMS
  BY SizesAssumption
<1>3. \A i \in 1 .. NUM_ITEMS : first[i] = Store("progress", i, "relaxed")
  OBVIOUS
<1> HIDE DEF first, second
<1>4. /\ DOMAIN Code["progress"] = 1 .. 2
      /\ Code["progress"][1] = first /\ Code["progress"][2] = second
  BY <1>1
<1> QED
  BY <1>2, <1>3, <1>4 DEF second

(* One of the items that program_03 accounts for.                           *)
StatisticsItem(i) ==
    << FetchAdd("processed_items", 1, "relaxed"), FetchAdd("total_time", 1, "relaxed"),
       Load("total_time", "relaxed"), Load("processed_items", "relaxed"),
       Store("average_time", i, "relaxed"), Load("m_n", "relaxed"), Load("s_n", "relaxed"),
       Store("m_n", i, "relaxed"), Store("s_n", i, "relaxed") >>

StatisticsSeen ==
    << Load("processed_items", "relaxed"), Load("total_time", "relaxed"),
       Load("average_time", "relaxed"), Load("m_n", "relaxed"),
       Load("s_n", "relaxed"), GoUnless("processed_items", NUM_ITEMS, 1) >>

LEMMA StatisticsCode ==
    /\ DOMAIN Code["statistics"] = 1 .. 2
    /\ DOMAIN Code["statistics"][1] = 1 .. 9 * NUM_ITEMS
    /\ Len(Code["statistics"][1]) = 9 * NUM_ITEMS
    /\ \A i \in 1 .. 9 * NUM_ITEMS :
         Code["statistics"][1][i] = StatisticsItem(((i - 1) \div 9) + 1)[((i - 1) % 9) + 1]
    /\ Code["statistics"][2] = StatisticsSeen
<1> DEFINE first == Loop(NUM_ITEMS, 9, StatisticsItem)
<1>1. Code["statistics"] = << first, StatisticsSeen >>
  BY DEF Code, Statistics, Loop, StatisticsItem, StatisticsSeen
<1>2. first = [place \in 1 .. NUM_ITEMS * 9 |->
                 StatisticsItem(((place - 1) \div 9) + 1)[((place - 1) % 9) + 1]]
  BY DEF Loop
<1>3. NUM_ITEMS * 9 = 9 * NUM_ITEMS /\ 9 * NUM_ITEMS \in Nat
  BY SizesAssumption
<1> HIDE DEF first
<1>4. /\ DOMAIN first = 1 .. 9 * NUM_ITEMS /\ Len(first) = 9 * NUM_ITEMS
      /\ \A i \in 1 .. 9 * NUM_ITEMS :
           first[i] = StatisticsItem(((i - 1) \div 9) + 1)[((i - 1) % 9) + 1]
  BY <1>2, <1>3
<1>5. /\ DOMAIN Code["statistics"] = 1 .. 2
      /\ Code["statistics"][1] = first /\ Code["statistics"][2] = StatisticsSeen
  BY <1>1
<1> QED
  BY <1>4, <1>5

LEMMA InitOnceCode ==
    /\ DOMAIN Code["init_once"] = 1 .. NUM_THREADS
    /\ \A t \in 1 .. NUM_THREADS : Code["init_once"][t] = InitOnce(t)
BY DEF Code, InitOnceThreads, ForEach

LEMMA OtherCode ==
    /\ Code["message"] = << reader, writer >>
    /\ Code["pointer"] = << producer, consumer >>
    /\ Code["iriw"] = WritersAndReaders(SequentiallyConsistent)
    /\ Code["iriw_acq_rel"] = WritersAndReaders(AcquireRelease)
    /\ Code["store_buffer"] = << write_then_read("x", "y"), write_then_read("y", "x") >>
BY DEF Code, Message, Pointer, Iriw, IriwAcquireRelease, StoreBuffer

IsCode(code) ==
    /\ Len(code) \in Nat /\ DOMAIN code = 1 .. Len(code)
    /\ \A i \in 1 .. Len(code) :
         /\ code[i].value \in Nat
         /\ code[i].op = "go_unless" => code[i].order \in Nat \ {0}

LEMMA CodeTypes ==
    ASSUME NEW p \in DOMAIN Code
    PROVE  /\ DOMAIN Code[p] \subseteq Nat \ {0} /\ IsFiniteSet(DOMAIN Code[p])
           /\ \A t \in DOMAIN Code[p] : IsCode(Code[p][t])
<1> DEFINE Typed == /\ DOMAIN Code[p] \subseteq Nat \ {0} /\ IsFiniteSet(DOMAIN Code[p])
                    /\ \A t \in DOMAIN Code[p] : IsCode(Code[p][t])
<1>0. /\ \A k \in Nat : 1 .. k \subseteq Nat \ {0} /\ IsFiniteSet(1 .. k)
      /\ NUM_THREADS \in Nat \ {0} /\ NUM_ITEMS \in Nat \ {0}
  BY SizesAssumption, FS_Interval
<1>a. ASSUME NEW k \in {2, 4}, DOMAIN Code[p] = 1 .. k,
             \A t \in 1 .. k : IsCode(Code[p][t])
      PROVE  Typed
  <2>1. k \in Nat
    OBVIOUS
  <2> QED
    BY <1>0, <1>a, <2>1, Zenon
<1>1. CASE p \in locked
  <2>1. \E k \in Nat : DOMAIN Code[p] = 1 .. k
    BY <1>0, <1>1, LockedCode
  <2>2. ASSUME NEW t \in DOMAIN Code[p] PROVE IsCode(Code[p][t])
    <3>1. 4 * Iterations(p, t) \in Nat
      BY <1>0 DEF Iterations
    <3>2. ASSUME NEW i \in Nat
          PROVE  /\ LockedAt(LockOf(p), i).value \in Nat
                 /\ LockedAt(LockOf(p), i).op # "go_unless"
      BY DEF LockedAt, Lock, Read, WriteNext, Unlock, Store, Access
    <3> QED
      BY <1>1, <3>1, <3>2, LockedCode DEF IsCode
  <2> QED
    BY <1>0, <2>1, <2>2
<1>2. CASE p = "unlocked"
  <2>1. ASSUME NEW t \in DOMAIN Code[p] PROVE IsCode(Code[p][t])
    <3>1. /\ Read("counter").value \in Nat /\ Read("counter").op # "go_unless"
          /\ WriteNext("counter").value \in Nat /\ WriteNext("counter").op # "go_unless"
      BY DEF Read, WriteNext, Access
    <3>2. t \in 1 .. NUM_THREADS /\ 2 * NUM_ITEMS \in Nat
      BY <1>0, <1>2, UnlockedCode
    <3>3. /\ Len(Code[p][t]) = 2 * NUM_ITEMS /\ DOMAIN Code[p][t] = 1 .. 2 * NUM_ITEMS
          /\ \A i \in 1 .. 2 * NUM_ITEMS :
               Code[p][t][i] \in {Read("counter"), WriteNext("counter")}
      BY <1>2, <3>2, UnlockedCode
    <3> QED
      BY <3>1, <3>2, <3>3 DEF IsCode
  <2> QED
    BY <1>0, <1>2, <2>1, UnlockedCode
<1>3. CASE p = "atomic"
  <2>1. ASSUME NEW t \in DOMAIN Code[p] PROVE IsCode(Code[p][t])
    BY <1>0, <1>3, AtomicCode DEF IsCode, FetchAdd, Access
  <2> QED
    BY <1>0, <1>3, <2>1, AtomicCode
<1>4. CASE p = "progress"
  <2>1. IsCode(Code[p][1])
    <3>1. ASSUME NEW i \in 1 .. NUM_ITEMS
          PROVE  /\ Code[p][1][i].value \in Nat
                 /\ Code[p][1][i].op # "go_unless"
      <4>1. Code[p][1][i] = Store("progress", i, "relaxed")
        BY <1>4, ProgressCode
      <4>2. i \in Nat
        OBVIOUS
      <4> QED
        BY <4>1, <4>2 DEF Store, Access
    <3> QED
      BY <1>0, <1>4, <3>1, ProgressCode DEF IsCode
  <2>2. IsCode(Code[p][2])
    BY <1>0, <1>4, ProgressCode DEF IsCode, Load, GoUnless, Access
  <2>3. DOMAIN Code[p] = 1 .. 2
    BY <1>4, ProgressCode
  <2>4. \A t \in 1 .. 2 : IsCode(Code[p][t])
    BY <2>1, <2>2
  <2> QED
    BY <1>a, <2>3, <2>4
<1>5. CASE p = "statistics"
  <2>1. IsCode(Code[p][1])
    <3>1. ASSUME NEW i \in 1 .. 9 * NUM_ITEMS
          PROVE  /\ Code[p][1][i].value \in Nat
                 /\ Code[p][1][i].op # "go_unless"
      <4>1. PICK k \in Nat, place \in 1 .. 9 :
              k = ((i - 1) \div 9) + 1 /\ place = ((i - 1) % 9) + 1
        BY <1>0
      <4>2. Code[p][1][i] = StatisticsItem(k)[place]
        BY <1>5, <4>1, StatisticsCode
      <4>3. StatisticsItem(k)[place].value \in Nat /\ StatisticsItem(k)[place].op # "go_unless"
        BY <4>1 DEF StatisticsItem, FetchAdd, Load, Store, Access
      <4> QED
        BY <4>2, <4>3
    <3>2. 9 * NUM_ITEMS \in Nat
      BY <1>0
    <3>3. Len(Code[p][1]) = 9 * NUM_ITEMS /\ DOMAIN Code[p][1] = 1 .. 9 * NUM_ITEMS
      BY <1>5, StatisticsCode
    <3> QED
      BY <3>1, <3>2, <3>3 DEF IsCode
  <2>2. IsCode(Code[p][2])
    <3>1. IsCode(StatisticsSeen)
      BY <1>0 DEF IsCode, StatisticsSeen, Load, GoUnless, Access
    <3> QED
      BY <1>5, <3>1, StatisticsCode
  <2>3. DOMAIN Code[p] = 1 .. 2
    BY <1>5, StatisticsCode
  <2>4. \A t \in 1 .. 2 : IsCode(Code[p][t])
    BY <2>1, <2>2
  <2> QED
    BY <1>a, <2>3, <2>4
<1>6. CASE p = "init_once"
  <2>1. ASSUME NEW t \in 1 .. NUM_THREADS PROVE IsCode(InitOnce(t))
    BY DEF IsCode, InitOnce, Load, GoUnless, CompareExchange, Access
  <2> QED
    BY <1>0, <1>6, <2>1, InitOnceCode
<1>7. CASE p = "message" \/ p = "pointer"
  <2>1. /\ IsCode(reader) /\ IsCode(writer)
        /\ IsCode(producer) /\ IsCode(consumer)
    BY DEF IsCode, reader, writer, producer, consumer, Load, Store, GoUnless, Read, Write, Access
  <2>2. DOMAIN Code[p] = 1 .. 2 /\ IsCode(Code[p][1]) /\ IsCode(Code[p][2])
    BY <1>7, <2>1, OtherCode
  <2>3. \A t \in 1 .. 2 : IsCode(Code[p][t])
    BY <2>2
  <2> QED
    BY <1>a, <2>2, <2>3
<1>8. CASE p = "iriw" \/ p = "iriw_acq_rel"
  <2>1. PICK order : Code[p] = WritersAndReaders(order)
    BY <1>8, OtherCode
  <2>2. /\ DOMAIN Code[p] = 1 .. 4
        /\ Code[p][1] = write("x", order.store) /\ Code[p][2] = write("y", order.store)
        /\ Code[p][3] = read_then("x", "y", order.load)
        /\ Code[p][4] = read_then("y", "x", order.load)
    BY <2>1 DEF WritersAndReaders
  <2>3. \A a, b, c : IsCode(write(a, c)) /\ IsCode(read_then(a, b, c))
    BY DEF IsCode, write, read_then, Load, Store, GoUnless, FetchAdd, Access
  <2>4. \A t \in 1 .. 4 : IsCode(Code[p][t])
    BY <2>2, <2>3
  <2> QED
    BY <1>a, <2>2, <2>4
<1>9. CASE p = "store_buffer"
  <2>1. \A a, b : IsCode(write_then_read(a, b))
    BY DEF IsCode, write_then_read, Load, Store, GoUnless, FetchAdd, Access
  <2>2. /\ DOMAIN Code[p] = 1 .. 2 /\ Code[p][1] = write_then_read("x", "y")
        /\ Code[p][2] = write_then_read("y", "x")
    BY <1>9, OtherCode
  <2>3. \A t \in 1 .. 2 : IsCode(Code[p][t])
    BY <2>1, <2>2
  <2> QED
    BY <1>a, <2>2, <2>3
<1> QED
  BY <1>1, <1>2, <1>3, <1>4, <1>5, <1>6, <1>7, <1>8, <1>9 DEF Code, locked
-----------------------------------------------------------------------------
(* Views and histories                                                      *)

ViewsOf(objects, threads) == [seen : [objects -> Nat], clock : [threads -> Nat]]
StoresOf(objects, threads) == [value : Nat, view : ViewsOf(objects, threads)]

LEMMA MaxOfTwo ==
    ASSUME NEW a \in Nat, NEW b \in Nat
    PROVE  /\ Max({a, b}) \in {a, b} /\ Max({a, b}) >= a /\ Max({a, b}) >= b
<1>1. \E x \in {a, b} : \A y \in {a, b} : x >= y
  <2>1. a >= b \/ b >= a
    OBVIOUS
  <2> QED
    BY <2>1
<1> QED
  BY <1>1 DEF Max

(* v knows all that w does. *)
KnowsAll(v, w) ==
    /\ \A o \in DOMAIN w.seen : w.seen[o] <= v.seen[o]
    /\ \A u \in DOMAIN w.clock : w.clock[u] <= v.clock[u]

(* Of no object does v know more than its history has stores. *)
Within(v, h) == \A o \in DOMAIN h : v.seen[o] <= Len(h[o])

LEMMA JoinViews ==
    ASSUME NEW O, NEW T, NEW v \in ViewsOf(O, T), NEW w \in ViewsOf(O, T)
    PROVE  /\ Join(v, w) \in ViewsOf(O, T)
           /\ KnowsAll(Join(v, w), v) /\ KnowsAll(Join(v, w), w)
           /\ \A o \in O : Join(v, w).seen[o] \in {v.seen[o], w.seen[o]}
           /\ \A u \in T : Join(v, w).clock[u] \in {v.clock[u], w.clock[u]}
<1> DEFINE j == Join(v, w)
<1>1. /\ DOMAIN v.seen = O /\ DOMAIN v.clock = T
      /\ DOMAIN w.seen = O /\ DOMAIN w.clock = T
      /\ \A o \in O : v.seen[o] \in Nat /\ w.seen[o] \in Nat
      /\ \A u \in T : v.clock[u] \in Nat /\ w.clock[u] \in Nat
  BY DEF ViewsOf
<1>2. /\ j.seen = [o \in O |-> Max({v.seen[o], w.seen[o]})]
      /\ j.clock = [u \in T |-> Max({v.clock[u], w.clock[u]})]
      /\ j = [seen |-> j.seen, clock |-> j.clock]
  BY <1>1 DEF Join, Later
<1>3. \A o \in O : /\ j.seen[o] \in {v.seen[o], w.seen[o]} /\ j.seen[o] \in Nat
                   /\ j.seen[o] >= v.seen[o] /\ j.seen[o] >= w.seen[o]
  <2> TAKE o \in O
  <2>1. v.seen[o] \in Nat /\ w.seen[o] \in Nat /\ j.seen[o] = Max({v.seen[o], w.seen[o]})
    BY <1>1, <1>2
  <2> HIDE DEF j
  <2> QED
    BY <2>1, MaxOfTwo
<1>4. \A u \in T : /\ j.clock[u] \in {v.clock[u], w.clock[u]} /\ j.clock[u] \in Nat
                   /\ j.clock[u] >= v.clock[u] /\ j.clock[u] >= w.clock[u]
  <2> TAKE u \in T
  <2>1. v.clock[u] \in Nat /\ w.clock[u] \in Nat /\ j.clock[u] = Max({v.clock[u], w.clock[u]})
    BY <1>1, <1>2
  <2> HIDE DEF j
  <2> QED
    BY <2>1, MaxOfTwo
<1> HIDE DEF j
<1>5. j.seen \in [O -> Nat] /\ j.clock \in [T -> Nat]
  <2>1. j.seen = [o \in O |-> j.seen[o]] /\ j.clock = [u \in T |-> j.clock[u]]
    BY <1>2
  <2> QED
    BY <1>3, <1>4, <2>1
<1>6. j \in ViewsOf(O, T)
  BY <1>2, <1>5 DEF ViewsOf
<1>7. KnowsAll(j, v) /\ KnowsAll(j, w)
  <2>1. /\ \A o \in O : v.seen[o] <= j.seen[o] /\ w.seen[o] <= j.seen[o]
        /\ \A u \in T : v.clock[u] <= j.clock[u] /\ w.clock[u] <= j.clock[u]
    BY <1>1, <1>3, <1>4
  <2> QED
    BY <1>1, <2>1 DEF KnowsAll
<1> QED
  BY <1>3, <1>4, <1>6, <1>7 DEF j

(* The view of a thread that has come to know n stores of o.                *)
LEMMA SeenUpTo ==
    ASSUME NEW O, NEW T, NEW v \in ViewsOf(O, T), NEW o \in O, NEW n \in Nat
    PROVE  LET w == [v EXCEPT !.seen[o] = n] IN
           /\ w \in ViewsOf(O, T) /\ w.clock = v.clock
           /\ w.seen[o] = n /\ \A x \in O \ {o} : w.seen[x] = v.seen[x]
<1> DEFINE w == [v EXCEPT !.seen[o] = n]
<1>1. w = [seen |-> [v.seen EXCEPT ![o] = n], clock |-> v.clock]
  BY DEF ViewsOf
<1>2. v.seen \in [O -> Nat] /\ v.clock \in [T -> Nat]
  BY DEF ViewsOf
<1>3. PICK s \in [O -> Nat] : s = [v.seen EXCEPT ![o] = n]
  BY <1>2
<1>4. s[o] = n /\ \A x \in O \ {o} : s[x] = v.seen[x]
  BY <1>2, <1>3
<1>5. w.seen = s /\ w.clock = v.clock /\ w = [seen |-> s, clock |-> v.clock]
  BY <1>1, <1>3
<1>6. w \in ViewsOf(O, T)
  BY <1>2, <1>5 DEF ViewsOf
<1> HIDE DEF w
<1> QED
  BY <1>4, <1>5, <1>6 DEF w

LEMMA TickedClock ==
    ASSUME NEW O, NEW T, NEW v \in ViewsOf(O, T), NEW t \in T
    PROVE  LET w == [v EXCEPT !.clock[t] = @ + 1] IN
           /\ w \in ViewsOf(O, T) /\ w.seen = v.seen
           /\ w.clock[t] = v.clock[t] + 1 /\ \A u \in T \ {t} : w.clock[u] = v.clock[u]
<1> DEFINE w == [v EXCEPT !.clock[t] = @ + 1]
<1>1. w = [seen |-> v.seen, clock |-> [v.clock EXCEPT ![t] = @ + 1]]
  BY DEF ViewsOf
<1>2. v.seen \in [O -> Nat] /\ v.clock \in [T -> Nat]
  BY DEF ViewsOf
<1>3. PICK s \in [T -> Nat] : s = [v.clock EXCEPT ![t] = @ + 1]
  <2>1. v.clock[t] + 1 \in Nat
    BY <1>2
  <2> QED
    BY <1>2, <2>1
<1>4. s[t] = v.clock[t] + 1 /\ \A u \in T \ {t} : s[u] = v.clock[u]
  BY <1>2, <1>3
<1>5. w.clock = s /\ w.seen = v.seen /\ w = [seen |-> v.seen, clock |-> s]
  BY <1>1, <1>3
<1>6. w \in ViewsOf(O, T)
  BY <1>2, <1>5 DEF ViewsOf
<1> HIDE DEF w
<1> QED
  BY <1>4, <1>5, <1>6 DEF w
-----------------------------------------------------------------------------
(* Types, for every program                                                 *)

Views == ViewsOf(Objects, Threads)
Stores == StoresOf(Objects, Threads)

MemoryTypes ==
    /\ program \in DOMAIN Code
    /\ DOMAIN history = ObjectsOf(program)
    /\ history \in [Objects -> Seq(Stores)]
    /\ view \in [Threads -> Views]
    /\ register \in [Threads -> [Objects -> Nat]]
    /\ pc \in [Threads -> Nat \ {0}]
    /\ accesses \in [Objects -> [Threads -> [read : Nat, write : Nat]]]
    /\ races \subseteq Objects

(* Nobody knows of a store that has not been made, and each object has one. *)
ViewsWithin ==
    /\ \A o \in Objects : Len(history[o]) > 0
    /\ \A t \in Threads : Within(view[t], history)
    /\ \A o \in Objects : \A i \in 1 .. Len(history[o]) : Within(history[o][i].view, history)

MemoryInv == MemoryTypes /\ ViewsWithin

LEMMA InitialViews ==
    ASSUME NEW O, NEW T
    PROVE  InitialView(O, T) \in ViewsOf(O, T)
BY DEF InitialView, ViewsOf

LEMMA MemoryInvInit == Init => MemoryInv
<1> SUFFICES ASSUME Init PROVE MemoryInv
  OBVIOUS
<1> DEFINE O == ObjectsOf(program)
           V == InitialView(O, Threads)
<1>1. /\ program \in DOMAIN Code
      /\ history = [o \in O |-> InitialHistory(V)]
      /\ view = [t \in Threads |-> V]
      /\ register = [t \in Threads |-> [o \in Objects |-> 0]]
      /\ pc = [t \in Threads |-> 1]
      /\ accesses = [o \in Objects |-> [t \in Threads |-> [read |-> 0, write |-> 0]]]
      /\ races = {}
  BY ProgramsAssumption DEF Init
<1>2. Objects = O
  BY <1>1 DEF Objects
<1>3. V \in ViewsOf(O, Threads) /\ \A o \in O : V.seen[o] = 1
  BY InitialViews DEF InitialView
<1> HIDE DEF V, O
<1>4. V \in Views
  BY <1>2, <1>3 DEF Views
<1>5. PICK h : h = InitialHistory(V)
  OBVIOUS
<1>6. h \in Seq(Stores) /\ Len(h) = 1 /\ h[1].view = V
  <2>1. PICK s \in Stores : s = [value |-> 0, view |-> V]
    BY <1>4 DEF Stores, Views, StoresOf
  <2>2. h = << s >> /\ s.view = V
    BY <1>5, <2>1 DEF InitialHistory
  <2> QED
    BY <2>2
<1>7. MemoryTypes
  <2>1. history = [o \in Objects |-> h] /\ DOMAIN history = ObjectsOf(program)
    BY <1>1, <1>2, <1>5 DEF O
  <2>2. history \in [Objects -> Seq(Stores)]
    BY <1>6, <2>1
  <2> QED
    BY <1>1, <1>4, <2>1, <2>2 DEF MemoryTypes
<1>a. DOMAIN history = O /\ (\A o \in O : history[o] = h) /\ \A t \in Threads : view[t] = V
  BY <1>1, <1>5
<1>8. Within(V, history)
  <2> SUFFICES ASSUME NEW o \in O PROVE V.seen[o] <= Len(history[o])
    BY <1>a, Zenon DEF Within
  <2>1. V.seen[o] = 1
    BY <1>3
  <2>2. Len(history[o]) = 1
    BY <1>a, <1>6
  <2> QED
    BY <2>1, <2>2
<1>9. ViewsWithin
  <2>1. /\ \A o \in Objects : Len(history[o]) = 1 /\ history[o][1].view = V
        /\ \A t \in Threads : view[t] = V
    BY <1>a, <1>2, <1>6
  <2>2. ASSUME NEW o \in Objects, NEW i \in 1 .. Len(history[o]) PROVE i = 1
    <3>1. i \in 1 .. 1
      BY <2>1
    <3> QED
      BY <3>1
  <2> QED
    BY <1>8, <2>1, <2>2 DEF ViewsWithin
<1> QED
  BY <1>7, <1>9 DEF MemoryInv

LEMMA CurrentAccess ==
    ASSUME MemoryTypes, NEW t \in Threads, ~ AtEnd(t)
    PROVE  /\ pc[t] \in 1 .. Len(Code[program][t])
           /\ pc[t] \in DOMAIN Code[program][t]
           /\ Len(Code[program][t]) \in Nat
           /\ Current(t) = Code[program][t][pc[t]]
           /\ Current(t).object \in Objects /\ Current(t).value \in Nat
           /\ Current(t).op = "go_unless" => Current(t).order \in Nat \ {0}
<1>1. IsCode(Code[program][t]) /\ pc[t] \in Nat \ {0}
  BY CodeTypes DEF MemoryTypes, Threads
<1>2. /\ pc[t] \in 1 .. Len(Code[program][t]) /\ pc[t] \in DOMAIN Code[program][t]
      /\ Len(Code[program][t]) \in Nat
  BY <1>1 DEF AtEnd, IsCode
<1>3. Current(t) = Code[program][t][pc[t]]
  BY DEF Current
<1>4. Code[program][t][pc[t]].object \in ObjectsOf(program)
  BY <1>2 DEF ObjectsOf, Threads
<1> QED
  BY <1>1, <1>2, <1>3, <1>4 DEF IsCode, Objects, MemoryTypes

LEMMA KnowsAllTransitive ==
    ASSUME NEW v \in Views, NEW w \in Views, NEW x \in Views, KnowsAll(v, w), KnowsAll(w, x)
    PROVE  KnowsAll(v, x)
<1>1. /\ \A o \in Objects : v.seen[o] \in Nat /\ w.seen[o] \in Nat /\ x.seen[o] \in Nat
      /\ \A u \in Threads : v.clock[u] \in Nat /\ w.clock[u] \in Nat /\ x.clock[u] \in Nat
      /\ DOMAIN w.seen = Objects /\ DOMAIN w.clock = Threads
      /\ DOMAIN x.seen = Objects /\ DOMAIN x.clock = Threads
  BY DEF Views, ViewsOf
<1> QED
  BY <1>1 DEF KnowsAll

(* A view after a load, of the i-th store of o.                             *)
LEMMA LoadedView ==
    ASSUME MemoryInv, NEW v \in Views, Within(v, history), NEW o \in Objects,
           NEW i \in 1 .. Len(history[o]), i >= v.seen[o], NEW order
    PROVE  LET w == ViewAfterLoad(history[o], v, o, i, order) IN
           /\ w \in Views /\ Within(w, history)
           /\ KnowsAll(w, v) /\ w.seen[o] >= i
           /\ order \in Acquiring => KnowsAll(w, history[o][i].view)
<1> DEFINE w == ViewAfterLoad(history[o], v, o, i, order)
           own == [v EXCEPT !.seen[o] = i]
<1>1. /\ history[o] \in Seq(Stores) /\ Len(history[o]) \in Nat /\ DOMAIN history = Objects
      /\ \A x \in Objects : Len(history[x]) \in Nat
  BY DEF MemoryInv, MemoryTypes, Objects
<1>2. i \in Nat
  BY <1>1
<1>3. /\ own \in Views /\ own.clock = v.clock
      /\ own.seen[o] = i /\ \A x \in Objects \ {o} : own.seen[x] = v.seen[x]
  BY <1>2, SeenUpTo DEF Views
<1>4. w = IF order \in Acquiring THEN Join(own, history[o][i].view) ELSE own
  BY DEF ViewAfterLoad
<1> HIDE DEF own, w
<1>5. /\ DOMAIN v.seen = Objects /\ DOMAIN v.clock = Threads
      /\ DOMAIN own.seen = Objects /\ DOMAIN own.clock = Threads
      /\ \A x \in Objects : v.seen[x] \in Nat /\ own.seen[x] \in Nat
      /\ \A u \in Threads : v.clock[u] \in Nat
  BY <1>3 DEF Views, ViewsOf
<1>6. KnowsAll(own, v) /\ Within(own, history)
  <2>1. \A x \in Objects : v.seen[x] <= own.seen[x] /\ own.seen[x] <= Len(history[x])
    <3> TAKE x \in Objects
    <3>1. CASE x = o
      BY <1>1, <1>3, <3>1
    <3>2. CASE x # o
      BY <1>1, <1>3, <1>5, <3>2 DEF Within
    <3> QED
      BY <3>1, <3>2
  <2>2. \A u \in Threads : v.clock[u] <= own.clock[u]
    BY <1>3, <1>5
  <2> QED
    BY <1>1, <1>5, <2>1, <2>2 DEF KnowsAll, Within
<1>7. CASE order \notin Acquiring
  BY <1>3, <1>4, <1>5, <1>6, <1>7, <1>2 DEF w
<1>8. CASE order \in Acquiring
  <2>1. PICK s \in Views : s = history[o][i].view /\ Within(s, history)
    <3>1. history[o][i] \in Stores
      BY <1>1, ElementOfSeq
    <3>2. history[o][i].view \in Views
      BY <3>1 DEF Stores, StoresOf, Views
    <3> QED
      BY <3>2 DEF MemoryInv, ViewsWithin
  <2>2. w = Join(own, s)
    BY <1>4, <1>8, <2>1
  <2>3. /\ w \in Views /\ KnowsAll(w, own) /\ KnowsAll(w, s)
        /\ \A x \in Objects : w.seen[x] \in {own.seen[x], s.seen[x]}
        /\ \A u \in Threads : w.clock[u] \in {own.clock[u], s.clock[u]}
    BY <1>3, <2>1, <2>2, JoinViews DEF Views
  <2>4. Within(w, history)
    BY <1>1, <1>6, <2>1, <2>3 DEF Within
  <2>5. KnowsAll(w, v)
    <3>1. /\ \A x \in Objects : w.seen[x] \in Nat
          /\ \A u \in Threads : w.clock[u] \in Nat /\ own.clock[u] \in Nat
      BY <1>3, <2>3 DEF Views, ViewsOf
    <3>2. \A x \in Objects : v.seen[x] <= own.seen[x] /\ own.seen[x] <= w.seen[x]
      BY <1>5, <1>6, <2>3 DEF KnowsAll
    <3>3. \A u \in Threads : v.clock[u] <= own.clock[u] /\ own.clock[u] <= w.clock[u]
      BY <1>5, <1>6, <2>3 DEF KnowsAll
    <3> QED
      BY <1>5, <3>1, <3>2, <3>3 DEF KnowsAll
  <2>6. w.seen[o] >= i
    BY <1>3, <1>5, <2>3 DEF KnowsAll
  <2> QED
    BY <1>8, <2>1, <2>3, <2>4, <2>5, <2>6 DEF w
<1> QED
  BY <1>7, <1>8

(* What every access is to the memory: a thread comes to know v, and the    *)
(* histories stay; or it comes to know v and o has one more store.          *)
Looks(t, v) ==
    /\ v \in Views /\ Within(v, history) /\ KnowsAll(v, view[t])
    /\ view' = [view EXCEPT ![t] = v]
    /\ history' = history

Adds(t, o, v, store) ==
    /\ v \in Views /\ store \in Stores /\ KnowsAll(v, view[t])
    /\ v.seen[o] = Len(history[o]) + 1
    /\ \A x \in Objects \ {o} : v.seen[x] <= Len(history[x])
    /\ store.view.seen[o] <= Len(history[o]) + 1
    /\ \A x \in Objects \ {o} : store.view.seen[x] <= Len(history[x])
    /\ view' = [view EXCEPT ![t] = v]
    /\ history' = [history EXCEPT ![o] = Append(@, store)]

LEMMA SameProgram ==
    ASSUME MemoryTypes, program' = program, DOMAIN history' = DOMAIN history
    PROVE  /\ Objects' = Objects /\ Threads' = Threads
           /\ Views' = Views /\ Stores' = Stores
BY DEF Objects, Threads, Views, Stores

LEMMA LooksKeeps ==
    ASSUME MemoryInv, program' = program, NEW t \in Threads, NEW v, Looks(t, v)
    PROVE  /\ Objects' = Objects /\ Threads' = Threads
           /\ Views' = Views /\ Stores' = Stores
           /\ history' \in [Objects -> Seq(Stores)] /\ view' \in [Threads -> Views]
           /\ ViewsWithin'
<1>1. DOMAIN history' = DOMAIN history
  BY DEF Looks
<1>2. Objects' = Objects /\ Threads' = Threads /\ Views' = Views /\ Stores' = Stores
  BY <1>1, SameProgram DEF MemoryInv
<1>3. history' \in [Objects -> Seq(Stores)] /\ view' \in [Threads -> Views]
  BY DEF Looks, MemoryInv, MemoryTypes
<1>4. \A u \in Threads : Within(view'[u], history')
  BY DEF Looks, MemoryInv, MemoryTypes, ViewsWithin
<1>5. ViewsWithin'
  BY <1>2, <1>4 DEF Looks, MemoryInv, ViewsWithin
<1> QED
  BY <1>2, <1>3, <1>5

LEMMA Added ==
    ASSUME MemoryTypes, NEW t \in Threads, NEW o \in Objects, NEW v, NEW store,
           Adds(t, o, v, store)
    PROVE  /\ DOMAIN history' = Objects /\ Len(history[o]) \in Nat
           /\ Len(history'[o]) = Len(history[o]) + 1
           /\ history'[o][Len(history[o]) + 1] = store
           /\ \A i \in 1 .. Len(history[o]) : history'[o][i] = history[o][i]
           /\ \A x \in Objects \ {o} : history'[x] = history[x]
           /\ history' \in [Objects -> Seq(Stores)] /\ view' \in [Threads -> Views]
<1>1. history[o] \in Seq(Stores) /\ store \in Stores /\ DOMAIN history = Objects
  BY DEF Adds, MemoryTypes, Objects
<1>2. PICK h : h = Append(history[o], store)
  OBVIOUS
<1>3. /\ h \in Seq(Stores) /\ Len(h) = Len(history[o]) + 1 /\ Len(history[o]) \in Nat
      /\ h[Len(history[o]) + 1] = store
      /\ \A i \in 1 .. Len(history[o]) : h[i] = history[o][i]
  BY <1>1, <1>2
<1>4. history' = [history EXCEPT ![o] = h]
  BY <1>2 DEF Adds
<1>5. history' \in [Objects -> Seq(Stores)] /\ DOMAIN history' = Objects
  BY <1>1, <1>3, <1>4 DEF MemoryTypes
<1>6. view' \in [Threads -> Views]
  BY DEF Adds, MemoryTypes
<1>7. history'[o] = h /\ \A x \in Objects \ {o} : history'[x] = history[x]
  BY <1>1, <1>4
<1> QED
  BY <1>3, <1>5, <1>6, <1>7

LEMMA AddsKeeps ==
    ASSUME MemoryInv, program' = program, NEW t \in Threads, NEW o \in Objects, NEW v,
           NEW store, Adds(t, o, v, store)
    PROVE  /\ Objects' = Objects /\ Threads' = Threads
           /\ Views' = Views /\ Stores' = Stores
           /\ history' \in [Objects -> Seq(Stores)] /\ view' \in [Threads -> Views]
           /\ ViewsWithin'
<1>0. MemoryTypes /\ DOMAIN history = Objects
  BY DEF MemoryInv, Objects
<1>1. /\ DOMAIN history' = Objects /\ Len(history[o]) \in Nat
      /\ Len(history'[o]) = Len(history[o]) + 1
      /\ history'[o][Len(history[o]) + 1] = store
      /\ \A i \in 1 .. Len(history[o]) : history'[o][i] = history[o][i]
      /\ \A x \in Objects \ {o} : history'[x] = history[x]
      /\ history' \in [Objects -> Seq(Stores)] /\ view' \in [Threads -> Views]
  BY <1>0, Added
<1>2. Objects' = Objects /\ Threads' = Threads /\ Views' = Views /\ Stores' = Stores
  BY <1>0, <1>1, SameProgram
<1>3. \A x \in Objects : /\ Len(history[x]) \in Nat /\ Len(history[x]) > 0
                         /\ Len(history[x]) <= Len(history'[x]) /\ Len(history'[x]) \in Nat
  <2> TAKE x \in Objects
  <2>1. history[x] \in Seq(Stores) /\ Len(history[x]) > 0
    BY <1>0 DEF MemoryTypes, MemoryInv, ViewsWithin
  <2>2. Len(history[x]) \in Nat
    BY <2>1
  <2> QED
    BY <1>1, <2>1, <2>2
<1>4. ASSUME NEW w \in Views, Within(w, history) PROVE Within(w, history')
  <2>1. \A x \in Objects : w.seen[x] \in Nat /\ w.seen[x] <= Len(history[x])
    BY <1>0, <1>4 DEF Within, Views, ViewsOf
  <2> QED
    BY <1>1, <1>3, <2>1 DEF Within
<1>5. \A x \in Objects : v.seen[x] \in Nat /\ v.seen[x] <= Len(history'[x])
  <2> TAKE x \in Objects
  <2>1. v.seen[x] \in Nat
    BY DEF Adds, Views, ViewsOf
  <2> QED
    BY <1>1, <2>1 DEF Adds
<1>6. Within(v, history')
  BY <1>1, <1>5 DEF Within
<1>7. Within(store.view, history')
  <2>1. \A x \in Objects : store.view.seen[x] <= Len(history'[x])
    BY <1>1, <1>3 DEF Adds
  <2> QED
    BY <1>1, <2>1 DEF Within
<1>8. ASSUME NEW u \in Threads PROVE Within(view'[u], history')
  <2>1. CASE u = t
    <3>1. view'[t] = v
      BY DEF Adds, MemoryInv, MemoryTypes
    <3> QED
      BY <1>6, <2>1, <3>1
  <2>2. CASE u # t
    <3>1. view'[u] = view[u] /\ view[u] \in Views /\ Within(view[u], history)
      BY <2>2 DEF Adds, MemoryInv, MemoryTypes, ViewsWithin
    <3> QED
      BY <1>4, <3>1
  <2> QED
    BY <2>1, <2>2
<1>9. ASSUME NEW x \in Objects, NEW i \in 1 .. Len(history'[x])
      PROVE  Within(history'[x][i].view, history')
  <2>1. ASSUME i \in 1 .. Len(history[x]), history'[x][i] = history[x][i]
        PROVE  Within(history'[x][i].view, history')
    <3>1. history[x][i] \in Stores
      BY <2>1, ElementOfSeq DEF MemoryInv, MemoryTypes
    <3>2. history[x][i].view \in Views
      BY <3>1 DEF Stores, StoresOf, Views
    <3>3. Within(history[x][i].view, history)
      BY <2>1 DEF MemoryInv, ViewsWithin
    <3> QED
      BY <1>4, <2>1, <3>2, <3>3
  <2>2. CASE x # o
    BY <1>1, <2>1, <2>2
  <2>3. CASE x = o /\ i = Len(history[o]) + 1
    BY <1>1, <1>7, <2>3
  <2>4. CASE x = o /\ i \in 1 .. Len(history[o])
    BY <1>1, <2>1, <2>4
  <2> QED
    BY <1>1, <2>2, <2>3, <2>4
<1>10. ViewsWithin'
  <2>1. \A x \in Objects : Len(history'[x]) > 0
    BY <1>3
  <2> QED
    BY <1>2, <1>8, <1>9, <2>1 DEF ViewsWithin
<1> QED
  BY <1>1, <1>2, <1>10

(* The accesses of the program make such changes.                           *)
LEMMA LoadStep ==
    ASSUME MemoryInv, NEW t \in Threads, NEW i \in Nat \ {0}, DoLoad(t, i)
    PROVE  LET o == Current(t).object
               order == Current(t).order IN
           /\ o \in Objects /\ history[o] \in Seq(Stores)
           /\ i \in 1 .. Len(history[o]) /\ i >= view[t].seen[o]
           /\ order = "seq_cst" => i = Len(history[o])
           /\ history[o][i].value \in Nat
           /\ \E v \in Views :
               /\ Looks(t, v) /\ v.seen[o] >= i
               /\ order \in Acquiring => KnowsAll(v, history[o][i].view)
<1>0. MemoryTypes /\ ~ AtEnd(t)
  BY DEF MemoryInv, DoLoad, IsAt
<1>1. PICK o \in Objects : o = Current(t).object
  BY <1>0, CurrentAccess
<1>2. PICK order : order = Current(t).order
  OBVIOUS
<1>3. /\ i \in Readable(history[o], view[t], o, order)
      /\ view' = [view EXCEPT ![t] = ViewAfterLoad(history[o], view[t], o, i, order)]
      /\ history' = history
  BY <1>0, <1>1, <1>2 DEF DoLoad, MemoryTypes
<1>4. /\ view[t] \in Views /\ view[t].seen[o] \in Nat /\ Within(view[t], history)
      /\ history[o] \in Seq(Stores) /\ Len(history[o]) \in Nat
      /\ view[t].seen[o] <= Len(history[o])
  <2>1. view[t] \in Views /\ Within(view[t], history) /\ history[o] \in Seq(Stores)
    BY <1>0 DEF MemoryTypes, MemoryInv, ViewsWithin
  <2>2. view[t].seen[o] \in Nat /\ Len(history[o]) \in Nat
    BY <2>1 DEF Views, ViewsOf
  <2>3. view[t].seen[o] <= Len(history[o])
    BY <2>1 DEF Within, Objects
  <2> QED
    BY <2>1, <2>2, <2>3
<1>5. /\ i \in 1 .. Len(history[o]) /\ i >= view[t].seen[o]
      /\ order = "seq_cst" => i = Len(history[o])
  BY <1>3, <1>4 DEF Readable
<1>6. history[o][i].value \in Nat
  <2>1. history[o][i] \in Stores
    BY <1>4, <1>5, ElementOfSeq
  <2> QED
    BY <2>1 DEF Stores, StoresOf
<1>7. PICK v : v = ViewAfterLoad(history[o], view[t], o, i, order)
  OBVIOUS
<1>8. /\ v \in Views /\ Within(v, history) /\ KnowsAll(v, view[t]) /\ v.seen[o] >= i
      /\ order \in Acquiring => KnowsAll(v, history[o][i].view)
  BY <1>4, <1>5, <1>7, LoadedView
<1>9. Looks(t, v)
  BY <1>3, <1>7, <1>8 DEF Looks
<1> QED
  BY <1>1, <1>2, <1>4, <1>5, <1>6, <1>8, <1>9

(* A store of o by a thread that knows v, of a value and a view.            *)
LEMMA StoredView ==
    ASSUME MemoryInv, NEW v \in Views, Within(v, history), NEW o \in Objects,
           NEW value \in Nat, NEW order, NEW carried \in Views, Within(carried, history)
    PROVE  LET after == ViewAfterStore(history[o], v, o) IN
           /\ after \in Views /\ KnowsAll(after, v) /\ after.clock = v.clock
           /\ after.seen[o] = Len(history[o]) + 1
           /\ \A x \in Objects \ {o} : after.seen[x] = v.seen[x] /\ after.seen[x] <= Len(history[x])
           /\ \E s \in Stores :
                /\ HistoryAfterStore(history[o], after, value, order, carried) = Append(history[o], s)
                /\ s.value = value
                /\ s.view.seen[o] <= Len(history[o]) + 1
                /\ \A x \in Objects \ {o} : s.view.seen[x] <= Len(history[x])
                /\ order \in Releasing => KnowsAll(s.view, after)
                /\ order \notin Releasing => s.view = carried
<1> DEFINE after == ViewAfterStore(history[o], v, o)
<1>1. /\ Len(history[o]) \in Nat /\ DOMAIN history = Objects
      /\ \A x \in Objects : Len(history[x]) \in Nat
  BY DEF MemoryInv, MemoryTypes, Objects
<1>2. /\ \A x \in Objects : v.seen[x] \in Nat /\ v.seen[x] <= Len(history[x])
      /\ \A x \in Objects : carried.seen[x] \in Nat /\ carried.seen[x] <= Len(history[x])
      /\ \A u \in Threads : v.clock[u] \in Nat
      /\ DOMAIN v.seen = Objects /\ DOMAIN v.clock = Threads
  BY <1>1 DEF Within, Views, ViewsOf
<1>3. /\ after \in Views /\ after.clock = v.clock
      /\ after.seen[o] = Len(history[o]) + 1
      /\ \A x \in Objects \ {o} : after.seen[x] = v.seen[x]
  <2>1. PICK n \in Nat : n = Len(history[o]) + 1
    BY <1>1
  <2>2. after = [v EXCEPT !.seen[o] = n]
    BY <2>1 DEF ViewAfterStore
  <2> HIDE DEF after
  <2> QED
    BY <2>1, <2>2, SeenUpTo DEF Views
<1> HIDE DEF after
<1>4. KnowsAll(after, v)
  <2>1. \A x \in Objects : v.seen[x] <= after.seen[x]
    BY <1>1, <1>2, <1>3
  <2>2. \A u \in Threads : v.clock[u] <= after.clock[u]
    BY <1>2, <1>3
  <2> QED
    BY <1>2, <2>1, <2>2 DEF KnowsAll
<1>5. \A x \in Objects \ {o} : after.seen[x] <= Len(history[x])
  BY <1>2, <1>3
<1>6. PICK w : w = IF order \in Releasing THEN Join(after, carried) ELSE carried
  OBVIOUS
<1>7. /\ w \in Views
      /\ order \in Releasing => KnowsAll(w, after)
      /\ \A x \in Objects : w.seen[x] \in {after.seen[x], carried.seen[x]}
  BY <1>3, <1>6, JoinViews DEF Views
<1>8. PICK s \in Stores : s = [value |-> value, view |-> w]
  BY <1>7 DEF Stores, StoresOf, Views
<1>9. HistoryAfterStore(history[o], after, value, order, carried) = Append(history[o], s)
  BY <1>6, <1>8 DEF HistoryAfterStore
<1>10. s.value = value /\ s.view = w
  BY <1>8
<1>11. /\ w.seen[o] <= Len(history[o]) + 1
       /\ \A x \in Objects \ {o} : w.seen[x] <= Len(history[x])
  <2>1. w.seen[o] <= Len(history[o]) + 1
    BY <1>1, <1>2, <1>3, <1>7
  <2>2. \A x \in Objects \ {o} : w.seen[x] <= Len(history[x])
    BY <1>1, <1>2, <1>5, <1>7
  <2> QED
    BY <2>1, <2>2
<1> QED
  BY <1>3, <1>4, <1>5, <1>6, <1>7, <1>9, <1>10, <1>11 DEF after

LEMMA NothingKnown ==
    ASSUME MemoryInv
    PROVE  /\ InitialView(Objects, Threads) \in Views
           /\ Within(InitialView(Objects, Threads), history)
<1>1. InitialView(Objects, Threads) \in Views
  BY InitialViews DEF Views
<1>2. \A o \in Objects : Len(history[o]) \in Nat /\ Len(history[o]) > 0
  BY DEF MemoryInv, MemoryTypes, ViewsWithin
<1>3. \A o \in Objects : InitialView(Objects, Threads).seen[o] = 1
  BY DEF InitialView
<1> QED
  BY <1>1, <1>2, <1>3 DEF Within, Objects

LEMMA StoreStep ==
    ASSUME MemoryInv, NEW t \in Threads, DoStore(t)
    PROVE  LET o == Current(t).object IN
           /\ o \in Objects
           /\ \E v \in Views, store \in Stores :
               /\ Adds(t, o, v, store)
               /\ store.value = Current(t).value
               /\ v.clock = view[t].clock
               /\ \A x \in Objects \ {o} : v.seen[x] = view[t].seen[x]
               /\ Current(t).order \in Releasing => KnowsAll(store.view, v)
<1>0. MemoryTypes /\ ~ AtEnd(t)
  BY DEF MemoryInv, DoStore, IsAt
<1>1. PICK o \in Objects, value \in Nat : o = Current(t).object /\ value = Current(t).value
  BY <1>0, CurrentAccess
<1>2. PICK order, none : order = Current(t).order /\ none = InitialView(Objects, Threads)
  OBVIOUS
<1>3. PICK w, v : w = view[t] /\ v = ViewAfterStore(history[o], w, o)
  OBVIOUS
<1>4. /\ view' = [view EXCEPT ![t] = v]
      /\ history' = [history EXCEPT ![o] = HistoryAfterStore(history[o], v, value, order, none)]
  BY <1>0, <1>1, <1>2, <1>3 DEF DoStore, MemoryTypes
<1>5. w \in Views /\ Within(w, history) /\ none \in Views /\ Within(none, history)
  BY <1>0, <1>2, <1>3, NothingKnown DEF MemoryTypes, MemoryInv, ViewsWithin
<1>6. /\ v \in Views /\ KnowsAll(v, w) /\ v.clock = w.clock
      /\ v.seen[o] = Len(history[o]) + 1
      /\ \A x \in Objects \ {o} : v.seen[x] = w.seen[x] /\ v.seen[x] <= Len(history[x])
  <2>1. LET after == ViewAfterStore(history[o], w, o) IN
        /\ after \in Views /\ KnowsAll(after, w) /\ after.clock = w.clock
        /\ after.seen[o] = Len(history[o]) + 1
        /\ \A x \in Objects \ {o} : after.seen[x] = w.seen[x] /\ after.seen[x] <= Len(history[x])
    BY <1>5, StoredView
  <2> QED
    BY <1>3, <2>1
<1>7. PICK s \in Stores :
        /\ HistoryAfterStore(history[o], v, value, order, none) = Append(history[o], s)
        /\ s.value = value
        /\ s.view.seen[o] <= Len(history[o]) + 1
        /\ \A x \in Objects \ {o} : s.view.seen[x] <= Len(history[x])
        /\ order \in Releasing => KnowsAll(s.view, v)
  <2>1. LET after == ViewAfterStore(history[o], w, o) IN
        \E s \in Stores :
          /\ HistoryAfterStore(history[o], after, value, order, none) = Append(history[o], s)
          /\ s.value = value
          /\ s.view.seen[o] <= Len(history[o]) + 1
          /\ \A x \in Objects \ {o} : s.view.seen[x] <= Len(history[x])
          /\ order \in Releasing => KnowsAll(s.view, after)
    BY <1>5, StoredView
  <2> QED
    BY <1>3, <2>1
<1>8. Adds(t, o, v, s)
  BY <1>3, <1>4, <1>6, <1>7 DEF Adds
<1> QED
  BY <1>1, <1>2, <1>3, <1>6, <1>7, <1>8

LEMMA ReadModifyWriteStep ==
    ASSUME MemoryInv, NEW t \in Threads, DoReadModifyWrite(t)
    PROVE  LET o == Current(t).object
               found == Newest(o)
               adds == Current(t).op = "fetch_add" \/ found.value = 0 IN
           /\ o \in Objects /\ found \in Stores
           /\ Current(t).op = "lock" => found.value = 0
           /\ ~ adds => \E v \in Views : Looks(t, v)
           /\ adds => \E v \in Views, store \in Stores :
                /\ Adds(t, o, v, store)
                /\ store.value = IF Current(t).op = "fetch_add"
                                 THEN found.value + Current(t).value ELSE Current(t).value
                /\ Current(t).order \in Acquiring => KnowsAll(v, found.view)
<1>0. MemoryTypes /\ ~ AtEnd(t)
  BY DEF MemoryInv, DoReadModifyWrite, IsAt
<1>1. PICK o \in Objects, value \in Nat, op \in {Current(t).op} :
        o = Current(t).object /\ value = Current(t).value
  BY <1>0, CurrentAccess
<1>2. PICK n \in Nat : n = Len(history[o])
  BY <1>0 DEF MemoryTypes
<1>3. PICK found \in Stores : found = Newest(o)
  <2>1. history[o] \in Seq(Stores) /\ Len(history[o]) > 0
    BY <1>0 DEF MemoryTypes, MemoryInv, ViewsWithin
  <2> QED
    BY <2>1, ElementOfSeq DEF Newest
<1>4. PICK order, w, loaded, v :
        /\ order = Current(t).order /\ w = view[t]
        /\ loaded = ViewAfterLoad(history[o], w, o, n, order)
        /\ v = ViewAfterStore(history[o], loaded, o)
  OBVIOUS
<1>5. PICK stored : stored = IF op = "fetch_add" THEN found.value + value ELSE value
  OBVIOUS
<1>6. /\ op = "lock" => found.value = 0
      /\ op = "fetch_add" \/ found.value = 0 =>
           /\ view' = [view EXCEPT ![t] = v]
           /\ history' = [history EXCEPT ![o] =
                            HistoryAfterStore(history[o], v, stored, order, found.view)]
      /\ ~ (op = "fetch_add" \/ found.value = 0) =>
           /\ view' = [view EXCEPT ![t] = loaded]
           /\ history' = history
  <2>1. o \in DOMAIN history
    BY DEF Objects
  <2>2. CASE op = "fetch_add" \/ found.value = 0
    BY <1>1, <1>2, <1>3, <1>4, <1>5, <2>1, <2>2 DEF DoReadModifyWrite
  <2>3. CASE ~ (op = "fetch_add" \/ found.value = 0)
    BY <1>1, <1>2, <1>3, <1>4, <2>3 DEF DoReadModifyWrite
  <2> QED
    BY <2>2, <2>3
<1>7. /\ w \in Views /\ Within(w, history) /\ w.seen[o] \in Nat /\ w.seen[o] <= n
      /\ n > 0 /\ found.value \in Nat /\ found.view \in Views
      /\ found = history[o][n] /\ Within(found.view, history)
  <2>1. /\ w \in Views /\ Within(w, history) /\ n > 0 /\ found = history[o][n]
    BY <1>0, <1>2, <1>3, <1>4 DEF MemoryTypes, MemoryInv, ViewsWithin, Newest
  <2>2. w.seen[o] \in Nat /\ w.seen[o] <= n
    BY <1>2, <2>1 DEF Views, ViewsOf, Within, Objects
  <2>3. Within(found.view, history)
    BY <1>2, <2>1 DEF MemoryInv, ViewsWithin
  <2>4. found.value \in Nat /\ found.view \in Views
    BY <1>3 DEF Stores, StoresOf, Views
  <2> QED
    BY <2>1, <2>2, <2>3, <2>4
<1>8. /\ loaded \in Views /\ Within(loaded, history) /\ KnowsAll(loaded, w)
      /\ order \in Acquiring => KnowsAll(loaded, found.view)
  <2>1. n \in 1 .. Len(history[o]) /\ n >= w.seen[o]
    BY <1>2, <1>7
  <2>2. LET after == ViewAfterLoad(history[o], w, o, n, order) IN
        /\ after \in Views /\ Within(after, history) /\ KnowsAll(after, w)
        /\ order \in Acquiring => KnowsAll(after, history[o][n].view)
    BY <1>7, <2>1, LoadedView
  <2> QED
    BY <1>4, <1>7, <2>2
<1>9. stored \in Nat
  BY <1>5, <1>7
<1>10. /\ v \in Views /\ KnowsAll(v, loaded)
       /\ v.seen[o] = Len(history[o]) + 1
       /\ \A x \in Objects \ {o} : v.seen[x] <= Len(history[x])
  <2>1. LET after == ViewAfterStore(history[o], loaded, o) IN
        /\ after \in Views /\ KnowsAll(after, loaded)
        /\ after.seen[o] = Len(history[o]) + 1
        /\ \A x \in Objects \ {o} : after.seen[x] <= Len(history[x])
    BY <1>7, <1>8, <1>9, StoredView
  <2> QED
    BY <1>4, <2>1
<1>11. PICK s \in Stores :
         /\ HistoryAfterStore(history[o], v, stored, order, found.view) = Append(history[o], s)
         /\ s.value = stored
         /\ s.view.seen[o] <= Len(history[o]) + 1
         /\ \A x \in Objects \ {o} : s.view.seen[x] <= Len(history[x])
  <2>1. LET after == ViewAfterStore(history[o], loaded, o) IN
        \E s \in Stores :
          /\ HistoryAfterStore(history[o], after, stored, order, found.view) = Append(history[o], s)
          /\ s.value = stored
          /\ s.view.seen[o] <= Len(history[o]) + 1
          /\ \A x \in Objects \ {o} : s.view.seen[x] <= Len(history[x])
    BY <1>7, <1>8, <1>9, StoredView
  <2> QED
    BY <1>4, <2>1
<1>12. KnowsAll(v, w) /\ (order \in Acquiring => KnowsAll(v, found.view))
  BY <1>7, <1>8, <1>10, KnowsAllTransitive
<1>13. ASSUME op = "fetch_add" \/ found.value = 0 PROVE Adds(t, o, v, s)
  BY <1>4, <1>6, <1>10, <1>11, <1>12, <1>13 DEF Adds
<1>14. ASSUME ~ (op = "fetch_add" \/ found.value = 0) PROVE Looks(t, loaded)
  BY <1>4, <1>6, <1>8, <1>14 DEF Looks
<1>15. s.value = IF op = "fetch_add" THEN found.value + value ELSE value
  BY <1>5, <1>11
<1> QED
  <2>1. o = Current(t).object /\ op = Current(t).op /\ value = Current(t).value /\ order = Current(t).order
    BY <1>1, <1>4
  <2>2. v \in Views /\ loaded \in Views
    BY <1>8, <1>10
  <2> QED
    BY <1>3, <1>6, <1>12, <1>13, <1>14, <1>15, <2>1, <2>2

(* A plain access, of a kind, by a thread that then has the clock n.        *)
Plain(t, kind, o, n) ==
    /\ accesses' = [accesses EXCEPT ![o][t][kind] = n]
    /\ races' \in {races, races \cup {o}}
    /\ (\A u \in Threads \ {t} :
          /\ accesses[o][u].write <= view[t].clock[u]
          /\ kind = "write" => accesses[o][u].read <= view[t].clock[u])
       => races' = races

LEMMA PlainAccessIs ==
    ASSUME MemoryTypes, NEW t \in Threads, NEW o \in Objects, NEW kind \in {"read", "write"},
           PlainAccess(t, kind, o)
    PROVE  Plain(t, kind, o, view[t].clock[t] + 1)
<1> DEFINE n == view[t].clock[t] + 1
           conflicts == IF kind = "write" THEN {"read", "write"} ELSE {"write"}
           unordered == \E u \in Threads \ {t}, k \in conflicts :
                           accesses[o][u][k] > view[t].clock[u]
<1>1. /\ races' = IF unordered THEN races \cup {o} ELSE races
      /\ accesses' = [accesses EXCEPT ![o][t][kind] = n]
  BY DEF PlainAccess
<1>2. ASSUME \A u \in Threads \ {t} :
               /\ accesses[o][u].write <= view[t].clock[u]
               /\ kind = "write" => accesses[o][u].read <= view[t].clock[u]
      PROVE  ~ unordered
  <2>1. ASSUME NEW u \in Threads \ {t}, NEW k \in conflicts
        PROVE  ~ (accesses[o][u][k] > view[t].clock[u])
    <3>1. view[t] \in Views /\ accesses[o][u] \in [read : Nat, write : Nat]
      BY DEF MemoryTypes
    <3>2. view[t].clock[u] \in Nat /\ accesses[o][u].read \in Nat /\ accesses[o][u].write \in Nat
      BY <3>1 DEF Views, ViewsOf
    <3>3. CASE k = "write"
      BY <1>2, <3>2, <3>3
    <3>4. CASE k = "read" /\ kind = "write"
      BY <1>2, <3>2, <3>4
    <3> QED
      BY <3>3, <3>4
  <2> QED
    BY <2>1
<1>3. races' \in {races, races \cup {o}}
  BY <1>1
<1> QED
  BY <1>1, <1>2, <1>3 DEF Plain

LEMMA PlainKeeps ==
    ASSUME MemoryTypes, NEW t \in Threads, NEW o \in Objects, NEW kind \in {"read", "write"},
           NEW n \in Nat, Plain(t, kind, o, n)
    PROVE  /\ accesses' \in [Objects -> [Threads -> [read : Nat, write : Nat]]]
           /\ races' \subseteq Objects
           /\ accesses'[o][t][kind] = n
           /\ \A k \in {"read", "write"} \ {kind} : accesses'[o][t][k] = accesses[o][t][k]
           /\ \A u \in Threads \ {t} : accesses'[o][u] = accesses[o][u]
           /\ \A x \in Objects \ {o} : accesses'[x] = accesses[x]
<1>1. accesses \in [Objects -> [Threads -> [read : Nat, write : Nat]]]
  BY DEF MemoryTypes
<1>2. CASE kind = "read"
  <2>1. accesses' = [accesses EXCEPT ![o][t]["read"] = n]
    BY <1>2 DEF Plain
  <2>2. /\ accesses' \in [Objects -> [Threads -> [read : Nat, write : Nat]]]
        /\ accesses'[o][t].read = n /\ accesses'[o][t].write = accesses[o][t].write
        /\ \A u \in Threads \ {t} : accesses'[o][u] = accesses[o][u]
        /\ \A x \in Objects \ {o} : accesses'[x] = accesses[x]
    BY <1>1, <2>1
  <2> QED
    BY <1>2, <2>2 DEF Plain, MemoryTypes
<1>3. CASE kind = "write"
  <2>1. accesses' = [accesses EXCEPT ![o][t]["write"] = n]
    BY <1>3 DEF Plain
  <2>2. /\ accesses' \in [Objects -> [Threads -> [read : Nat, write : Nat]]]
        /\ accesses'[o][t].write = n /\ accesses'[o][t].read = accesses[o][t].read
        /\ \A u \in Threads \ {t} : accesses'[o][u] = accesses[o][u]
        /\ \A x \in Objects \ {o} : accesses'[x] = accesses[x]
    BY <1>1, <2>1
  <2> QED
    BY <1>3, <2>2 DEF Plain, MemoryTypes
<1> QED
  BY <1>2, <1>3

LEMMA ReadStep ==
    ASSUME MemoryInv, NEW t \in Threads, NEW i \in Nat \ {0}, DoRead(t, i)
    PROVE  LET o == Current(t).object IN
           /\ o \in Objects /\ history[o] \in Seq(Stores)
           /\ i \in 1 .. Len(history[o]) /\ i >= view[t].seen[o]
           /\ history[o][i].value \in Nat
           /\ \E v \in Views :
               /\ Looks(t, v) /\ v.seen[o] = i
               /\ Plain(t, "read", o, v.clock[t]) /\ v.clock[t] \in Nat
<1>0. MemoryTypes /\ ~ AtEnd(t)
  BY DEF MemoryInv, DoRead, IsAt
<1>1. PICK o \in Objects : o = Current(t).object
  BY <1>0, CurrentAccess
<1>2. PICK w, v : w = view[t] /\ v = [Tick(t) EXCEPT !.seen[o] = i]
  OBVIOUS
<1>3. /\ i \in Readable(history[o], w, o, "relaxed")
      /\ view' = [view EXCEPT ![t] = v]
      /\ history' = history /\ PlainAccess(t, "read", o)
  BY <1>0, <1>1, <1>2 DEF DoRead, MemoryTypes
<1>4. /\ w \in Views /\ Within(w, history) /\ history[o] \in Seq(Stores)
      /\ DOMAIN history = Objects
  BY <1>0, <1>2 DEF MemoryTypes, MemoryInv, ViewsWithin, Objects
<1>5. /\ \A x \in Objects : w.seen[x] \in Nat /\ Len(history[x]) \in Nat
      /\ \A x \in Objects : w.seen[x] <= Len(history[x])
      /\ \A u \in Threads : w.clock[u] \in Nat
      /\ DOMAIN w.seen = Objects /\ DOMAIN w.clock = Threads
  BY <1>0, <1>4 DEF Views, ViewsOf, Within, MemoryTypes
<1>6. i \in 1 .. Len(history[o]) /\ i >= w.seen[o]
  BY <1>3, <1>5 DEF Readable
<1>7. history[o][i].value \in Nat
  <2>1. history[o][i] \in Stores
    BY <1>4, <1>6, ElementOfSeq
  <2> QED
    BY <2>1 DEF Stores, StoresOf
<1>8. PICK ticked : ticked = Tick(t)
  OBVIOUS
<1>9. /\ ticked \in Views /\ ticked.seen = w.seen
      /\ ticked.clock[t] = w.clock[t] + 1
      /\ \A u \in Threads \ {t} : ticked.clock[u] = w.clock[u]
  <2>1. ticked = [w EXCEPT !.clock[t] = @ + 1]
    BY <1>2, <1>8 DEF Tick
  <2>2. w \in Views
    BY <1>4
  <2> QED
    BY <2>1, <2>2, TickedClock DEF Views
<1>10. /\ v \in Views /\ v.clock = ticked.clock /\ v.seen[o] = i
       /\ \A x \in Objects \ {o} : v.seen[x] = ticked.seen[x]
  BY <1>2, <1>8, <1>9, SeenUpTo DEF Views
<1>11. KnowsAll(v, w)
  BY <1>5, <1>6, <1>9, <1>10 DEF KnowsAll
<1>12. Within(v, history)
  BY <1>4, <1>5, <1>6, <1>9, <1>10 DEF Within
<1>13. Looks(t, v)
  BY <1>2, <1>3, <1>10, <1>11, <1>12 DEF Looks
<1>14. Plain(t, "read", o, v.clock[t]) /\ v.clock[t] \in Nat
  <2>1. v.clock[t] = view[t].clock[t] + 1
    BY <1>2, <1>9, <1>10
  <2>2. v.clock[t] \in Nat
    BY <1>10 DEF Views, ViewsOf
  <2> QED
    BY <1>0, <1>3, <2>1, <2>2, PlainAccessIs
<1> QED
  BY <1>1, <1>2, <1>4, <1>6, <1>7, <1>10, <1>13, <1>14

LEMMA WriteStep ==
    ASSUME MemoryInv, NEW t \in Threads, DoWrite(t)
    PROVE  LET o == Current(t).object IN
           /\ o \in Objects /\ register[t][o] \in Nat
           /\ \E v \in Views, store \in Stores :
                /\ Adds(t, o, v, store)
                /\ store.value = IF Current(t).op = "write" THEN Current(t).value
                                 ELSE register[t][o] + 1
                /\ Plain(t, "write", o, v.clock[t]) /\ v.clock[t] \in Nat
<1>0. MemoryTypes /\ ~ AtEnd(t)
  BY DEF MemoryInv, DoWrite, IsAt
<1>1. PICK o \in Objects, value \in Nat, op \in {Current(t).op} :
        o = Current(t).object /\ value = Current(t).value
  BY <1>0, CurrentAccess
<1>2. PICK w, ticked, v, none :
        /\ w = view[t] /\ ticked = Tick(t) /\ v = ViewAfterStore(history[o], ticked, o)
        /\ none = InitialView(Objects, Threads)
  OBVIOUS
<1>3. register[t][o] \in Nat
  BY <1>0 DEF MemoryTypes
<1>4. PICK stored \in Nat : stored = IF op = "write" THEN value ELSE register[t][o] + 1
  BY <1>3
<1>5. /\ PlainAccess(t, "write", o)
      /\ view' = [view EXCEPT ![t] = v]
      /\ history' = [history EXCEPT ![o] = HistoryAfterStore(history[o], v, stored, "plain", none)]
  <2>1. view \in [Threads -> Views]
    BY <1>0 DEF MemoryTypes
  <2>2. PlainAccess(t, "write", o) /\ view' = [view EXCEPT ![t] = v]
    BY <1>1, <1>2 DEF DoWrite
  <2>3. history' = [history EXCEPT ![o] =
                      HistoryAfterStore(history[o], view[t], stored, "plain", none)]
    BY <1>1, <1>2, <1>4 DEF DoWrite, Objects
  <2>4. HistoryAfterStore(history[o], view[t], stored, "plain", none) =
          HistoryAfterStore(history[o], v, stored, "plain", none)
    BY DEF HistoryAfterStore, Releasing
  <2> QED
    BY <2>2, <2>3, <2>4
<1>6. /\ w \in Views /\ Within(w, history) /\ none \in Views /\ Within(none, history)
      /\ DOMAIN history = Objects
  BY <1>0, <1>2, NothingKnown DEF MemoryTypes, MemoryInv, ViewsWithin, Objects
<1>7. /\ ticked \in Views /\ ticked.seen = w.seen
      /\ ticked.clock[t] = w.clock[t] + 1
      /\ \A u \in Threads \ {t} : ticked.clock[u] = w.clock[u]
  <2>1. ticked = [w EXCEPT !.clock[t] = @ + 1]
    BY <1>2 DEF Tick
  <2> QED
    BY <1>6, <2>1, TickedClock DEF Views
<1>8. Within(ticked, history)
  BY <1>6, <1>7 DEF Within
<1>9. KnowsAll(ticked, w)
  <2>1. /\ \A x \in Objects : w.seen[x] \in Nat
        /\ \A u \in Threads : w.clock[u] \in Nat
        /\ DOMAIN w.seen = Objects /\ DOMAIN w.clock = Threads
    BY <1>6 DEF Views, ViewsOf
  <2> QED
    BY <1>7, <2>1 DEF KnowsAll
<1>10. /\ v \in Views /\ KnowsAll(v, ticked) /\ v.clock = ticked.clock
       /\ v.seen[o] = Len(history[o]) + 1
       /\ \A x \in Objects \ {o} : v.seen[x] <= Len(history[x])
  <2>1. v = ViewAfterStore(history[o], ticked, o)
    BY <1>2
  <2>2. ticked \in Views /\ Within(ticked, history) /\ none \in Views /\ Within(none, history)
    BY <1>6, <1>7, <1>8
  <2> QED
    BY <1>4, <2>1, <2>2, StoredView
<1>11. PICK s \in Stores :
         /\ HistoryAfterStore(history[o], v, stored, "plain", none) = Append(history[o], s)
         /\ s.value = stored
         /\ s.view.seen[o] <= Len(history[o]) + 1
         /\ \A x \in Objects \ {o} : s.view.seen[x] <= Len(history[x])
  BY <1>2, <1>6, <1>7, <1>8, StoredView
<1>12. KnowsAll(v, w)
  BY <1>6, <1>7, <1>9, <1>10, KnowsAllTransitive
<1>13. Adds(t, o, v, s)
  BY <1>2, <1>5, <1>10, <1>11, <1>12 DEF Adds
<1>14. Plain(t, "write", o, v.clock[t]) /\ v.clock[t] \in Nat
  <2>1. v.clock[t] = view[t].clock[t] + 1
    BY <1>2, <1>7, <1>10
  <2>2. v.clock[t] \in Nat
    BY <1>10 DEF Views, ViewsOf
  <2> QED
    BY <1>0, <1>5, <2>1, <2>2, PlainAccessIs
<1> QED
  <2>1. o = Current(t).object /\ op = Current(t).op /\ value = Current(t).value
    BY <1>1
  <2> QED
    BY <1>3, <1>4, <1>10, <1>11, <1>13, <1>14, <2>1

(* A step of thread t at its current access.                                *)
Moves(t) ==
    \/ \E i \in Nat \ {0} : DoLoad(t, i) \/ DoRead(t, i)
    \/ DoStore(t) \/ DoReadModifyWrite(t) \/ DoWrite(t)
    \/ Branch(t)

LEMMA StepMoves == ASSUME NEW t, Step(t) PROVE t \in Threads /\ Moves(t)
<1>1. 1 .. LongestHistory \subseteq Nat \ {0}
  OBVIOUS
<1> QED
  BY <1>1 DEF Step, Moves

LEMMA BranchStep ==
    ASSUME MemoryInv, NEW t \in Threads, Branch(t)
    PROVE  /\ pc' \in [Threads -> Nat \ {0}]
           /\ pc'[t] = IF register[t][Current(t).object] = Current(t).value
                       THEN pc[t] + 1 ELSE Current(t).order
           /\ \A u \in Threads \ {t} : pc'[u] = pc[u]
<1>1. MemoryTypes /\ ~ AtEnd(t) /\ Current(t).op = "go_unless"
  BY DEF MemoryInv, Branch, IsAt
<1>2. pc[t] \in Nat /\ Current(t).order \in Nat \ {0}
  BY <1>1, CurrentAccess DEF MemoryTypes
<1>3. PICK n \in Nat \ {0} :
        n = IF register[t][Current(t).object] = Current(t).value
            THEN pc[t] + 1 ELSE Current(t).order
  BY <1>2
<1>4. pc' = [pc EXCEPT ![t] = n]
  BY <1>3 DEF Branch
<1>5. pc \in [Threads -> Nat \ {0}]
  BY <1>1 DEF MemoryTypes
<1> QED
  BY <1>3, <1>4, <1>5

LEMMA AdvanceStep ==
    ASSUME MemoryTypes, NEW t \in Threads, Advance(t)
    PROVE  /\ pc' \in [Threads -> Nat \ {0}]
           /\ pc'[t] = pc[t] + 1 /\ \A u \in Threads \ {t} : pc'[u] = pc[u]
<1>1. pc \in [Threads -> Nat \ {0}]
  BY DEF MemoryTypes
<1>2. pc[t] + 1 \in Nat \ {0}
  BY <1>1
<1> QED
  BY <1>1, <1>2 DEF Advance

LEMMA FindStep ==
    ASSUME MemoryTypes, NEW t \in Threads, NEW o \in Objects, NEW value \in Nat,
           Find(t, o, value)
    PROVE  /\ register' \in [Threads -> [Objects -> Nat]]
           /\ register'[t][o] = value
           /\ \A x \in Objects \ {o} : register'[t][x] = register[t][x]
           /\ \A u \in Threads \ {t} : register'[u] = register[u]
<1>1. register \in [Threads -> [Objects -> Nat]]
  BY DEF MemoryTypes
<1> QED
  BY <1>1 DEF Find

LEMMA MemoryInvMoves ==
    ASSUME MemoryInv, NEW t \in Threads, Moves(t)
    PROVE  MemoryInv' /\ program' = program /\ Objects' = Objects /\ Threads' = Threads
<1>0. MemoryTypes /\ DOMAIN history = ObjectsOf(program)
  BY DEF MemoryInv, MemoryTypes
<1>s. program' = program
  BY DEF Moves, DoLoad, DoRead, DoStore, DoReadModifyWrite, DoWrite, Branch
<1>a. ASSUME /\ Objects' = Objects /\ Threads' = Threads
             /\ Views' = Views /\ Stores' = Stores
             /\ history' \in [Objects -> Seq(Stores)] /\ view' \in [Threads -> Views]
             /\ ViewsWithin',
             register' \in [Threads -> [Objects -> Nat]],
             pc' \in [Threads -> Nat \ {0}],
             accesses' \in [Objects -> [Threads -> [read : Nat, write : Nat]]],
             races' \subseteq Objects
      PROVE  MemoryInv' /\ Objects' = Objects /\ Threads' = Threads
  <2>1. DOMAIN history' = ObjectsOf(program)'
    BY <1>0, <1>a, <1>s DEF Objects
  <2> QED
    BY <1>0, <1>a, <1>s, <2>1 DEF MemoryInv, MemoryTypes
<1>b. /\ register \in [Threads -> [Objects -> Nat]] /\ pc \in [Threads -> Nat \ {0}]
      /\ accesses \in [Objects -> [Threads -> [read : Nat, write : Nat]]]
      /\ races \subseteq Objects
  BY <1>0 DEF MemoryTypes
<1>1. ASSUME NEW i \in Nat \ {0}, DoLoad(t, i) PROVE MemoryInv' /\ Objects' = Objects /\ Threads' = Threads
  <2>1. PICK o \in Objects, value \in Nat, v \in Views :
          o = Current(t).object /\ value = history[o][i].value /\ Looks(t, v)
    <3>1. PICK o \in Objects : o = Current(t).object
      BY <1>1, LoadStep
    <3>2. history[o][i].value \in Nat /\ \E v \in Views : Looks(t, v)
      BY <1>1, <3>1, LoadStep
    <3> QED
      BY <3>1, <3>2
  <2>2. Find(t, o, value) /\ Advance(t) /\ accesses' = accesses /\ races' = races
    BY <1>1, <2>1 DEF DoLoad
  <2>3. register' \in [Threads -> [Objects -> Nat]] /\ pc' \in [Threads -> Nat \ {0}]
    BY <1>0, <2>2, AdvanceStep, FindStep
  <2> QED
    BY <1>a, <1>b, <1>s, <2>1, <2>2, <2>3, LooksKeeps
<1>2. ASSUME NEW i \in Nat \ {0}, DoRead(t, i) PROVE MemoryInv' /\ Objects' = Objects /\ Threads' = Threads
  <2>1. PICK o \in Objects, value \in Nat, v \in Views :
          /\ o = Current(t).object /\ value = history[o][i].value /\ Looks(t, v)
          /\ Plain(t, "read", o, v.clock[t]) /\ v.clock[t] \in Nat
    BY <1>2, ReadStep
  <2>2. Find(t, o, value) /\ Advance(t)
    BY <1>2, <2>1 DEF DoRead
  <2>3. register' \in [Threads -> [Objects -> Nat]] /\ pc' \in [Threads -> Nat \ {0}]
    BY <1>0, <2>2, AdvanceStep, FindStep
  <2>4. /\ accesses' \in [Objects -> [Threads -> [read : Nat, write : Nat]]]
        /\ races' \subseteq Objects
    BY <1>0, <2>1, PlainKeeps
  <2> QED
    BY <1>a, <1>b, <1>s, <2>1, <2>3, <2>4, LooksKeeps
<1>3. CASE DoStore(t)
  <2>1. PICK o \in Objects, v \in Views, store \in Stores : Adds(t, o, v, store)
    BY <1>3, StoreStep
  <2>2. Advance(t) /\ UNCHANGED <<register, accesses, races>>
    BY <1>3 DEF DoStore
  <2>3. pc' \in [Threads -> Nat \ {0}]
    BY <1>0, <2>2, AdvanceStep
  <2> QED
    BY <1>a, <1>b, <1>s, <2>1, <2>2, <2>3, AddsKeeps
<1>4. CASE DoReadModifyWrite(t)
  <2>1. PICK o \in Objects, found \in Stores :
          /\ o = Current(t).object /\ found = Newest(o)
          /\ (\E v \in Views : Looks(t, v)) \/ (\E v \in Views, store \in Stores : Adds(t, o, v, store))
    BY <1>4, ReadModifyWriteStep
  <2>2. Find(t, o, found.value) /\ Advance(t) /\ UNCHANGED <<accesses, races>>
    BY <1>4, <2>1 DEF DoReadModifyWrite
  <2>3. found.value \in Nat
    BY <2>1 DEF Stores, StoresOf
  <2>4. register' \in [Threads -> [Objects -> Nat]] /\ pc' \in [Threads -> Nat \ {0}]
    BY <1>0, <2>2, <2>3, AdvanceStep, FindStep
  <2> QED
    BY <1>a, <1>b, <1>s, <2>1, <2>2, <2>4, AddsKeeps, LooksKeeps
<1>5. CASE DoWrite(t)
  <2>1. PICK o \in Objects, v \in Views, store \in Stores :
          /\ o = Current(t).object /\ Adds(t, o, v, store)
          /\ Plain(t, "write", o, v.clock[t]) /\ v.clock[t] \in Nat
    BY <1>5, WriteStep
  <2>2. Advance(t) /\ register' = register
    BY <1>5 DEF DoWrite
  <2>3. pc' \in [Threads -> Nat \ {0}]
    BY <1>0, <2>2, AdvanceStep
  <2>4. /\ accesses' \in [Objects -> [Threads -> [read : Nat, write : Nat]]]
        /\ races' \subseteq Objects
    BY <1>0, <2>1, PlainKeeps
  <2> QED
    BY <1>a, <1>b, <1>s, <2>1, <2>2, <2>3, <2>4, AddsKeeps
<1>6. CASE Branch(t)
  <2>1. UNCHANGED <<history, view, register, accesses, races>>
    BY <1>6 DEF Branch
  <2>2. pc' \in [Threads -> Nat \ {0}]
    BY <1>6, BranchStep
  <2>3. /\ Objects' = Objects /\ Threads' = Threads /\ Views' = Views /\ Stores' = Stores
    BY <1>0, <1>s, <2>1, SameProgram
  <2>4. history' \in [Objects -> Seq(Stores)] /\ view' \in [Threads -> Views]
    BY <1>0, <2>1 DEF MemoryTypes
  <2>5. ViewsWithin'
    BY <2>1, <2>3 DEF MemoryInv, ViewsWithin
  <2> QED
    <3>1. /\ register' \in [Threads -> [Objects -> Nat]]
          /\ accesses' \in [Objects -> [Threads -> [read : Nat, write : Nat]]]
          /\ races' \subseteq Objects
      BY <1>b, <2>1
    <3>2. /\ Objects' = Objects /\ Threads' = Threads
          /\ Views' = Views /\ Stores' = Stores
          /\ history' \in [Objects -> Seq(Stores)] /\ view' \in [Threads -> Views]
          /\ ViewsWithin'
      BY <2>3, <2>4, <2>5
    <3>3. MemoryInv' /\ Objects' = Objects /\ Threads' = Threads
      BY <1>a, <2>2, <3>1, <3>2, Zenon
    <3> QED
      BY <1>s, <3>3
<1> QED
  BY <1>1, <1>2, <1>3, <1>4, <1>5, <1>6, <1>s DEF Moves
-----------------------------------------------------------------------------
(* The counters under a lock                                                *)

LEMMA LockedObjects ==
    ASSUME NEW p \in locked
    PROVE  LockOf(p) \in ObjectsOf(p) /\ "counter" \in ObjectsOf(p)
<1>1. /\ 1 \in DOMAIN Code[p]
      /\ 1 \in DOMAIN Code[p][1] /\ Code[p][1][1] = LockedAt(LockOf(p), 1)
      /\ 2 \in DOMAIN Code[p][1] /\ Code[p][1][2] = LockedAt(LockOf(p), 2)
  <2>1. 1 \in DOMAIN Code[p] /\ Iterations(p, 1) \in Nat \ {0}
    BY LockedCode, SizesAssumption DEF Iterations
  <2>2. 1 \in 1 .. 4 * Iterations(p, 1) /\ 2 \in 1 .. 4 * Iterations(p, 1)
    BY <2>1
  <2> QED
    BY <2>1, <2>2, LockedCode
<1>2. LockedAt(LockOf(p), 1) = Lock(LockOf(p)) /\ LockedAt(LockOf(p), 2) = Read("counter")
  BY DEF LockedAt
<1>3. Code[p][1][1].object = LockOf(p) /\ Code[p][1][2].object = "counter"
  BY <1>1, <1>2 DEF Lock, Read, Access
<1> QED
  BY <1>1, <1>3 DEF ObjectsOf

TheLock == LockOf(program)
Holds(t) == pc[t] % 4 # 1

(* w knows every store of the counter and every access of it.               *)
Knows(w) ==
    /\ w.seen["counter"] = Len(history["counter"])
    /\ \A u \in Threads : /\ accesses["counter"][u].read <= w.clock[u]
                          /\ accesses["counter"][u].write <= w.clock[u]

LockedPlace(t) == pc[t] <= 4 * Iterations(program, t) + 1
OneHolder == \A t, u \in Threads : Holds(t) /\ Holds(u) => t = u
LockTaken == Newest(TheLock).value = 0 <=> \A t \in Threads : ~ Holds(t)
HolderKnows == \A t \in Threads : Holds(t) => Knows(view[t])
LockKnows == (\A t \in Threads : ~ Holds(t)) => Knows(Newest(TheLock).view)

LockedInv ==
    /\ MemoryInv /\ program \in locked
    /\ \A t \in Threads : LockedPlace(t)
    /\ OneHolder /\ LockTaken /\ HolderKnows /\ LockKnows
    /\ races = {}

LEMMA LockedThread ==
    ASSUME MemoryInv, program \in locked, NEW t \in Threads
    PROVE  /\ pc[t] \in Nat \ {0}
           /\ AtEnd(t) <=> pc[t] > 4 * Iterations(program, t)
           /\ ~ AtEnd(t) => Current(t) = LockedAt(TheLock, pc[t])
           /\ TheLock \in Objects /\ "counter" \in Objects /\ TheLock # "counter"
           /\ Iterations(program, t) \in Nat \ {0}
<1>1. MemoryTypes
  BY DEF MemoryInv
<1>2. pc[t] \in Nat \ {0} /\ Iterations(program, t) \in Nat \ {0}
  BY <1>1, SizesAssumption DEF MemoryTypes, Iterations
<1>3. Len(Code[program][t]) = 4 * Iterations(program, t)
  BY LockedCode DEF Threads
<1>4. ASSUME ~ AtEnd(t) PROVE Current(t) = LockedAt(TheLock, pc[t])
  BY <1>1, <1>4, CurrentAccess, LockedCode DEF Threads, TheLock
<1>5. TheLock \in Objects /\ "counter" \in Objects /\ TheLock # "counter"
  BY <1>1, LockedObjects DEF TheLock, LockOf, MemoryTypes, Objects
<1> QED
  BY <1>2, <1>3, <1>4, <1>5 DEF AtEnd

LEMMA LockedInvInit == Init /\ program \in locked => LockedInv
<1> SUFFICES ASSUME Init, program \in locked PROVE LockedInv
  OBVIOUS
<1>1. MemoryInv
  BY MemoryInvInit
<1>2. /\ TheLock \in Objects /\ "counter" \in Objects /\ Objects = ObjectsOf(program)
  BY <1>1, LockedObjects DEF TheLock, MemoryInv, MemoryTypes, Objects
<1>3. \A t \in Threads : pc[t] = 1 /\ Iterations(program, t) \in Nat \ {0}
  BY SizesAssumption DEF Init, Iterations
<1>4. \A t \in Threads : ~ Holds(t) /\ LockedPlace(t)
  <2>1. 1 % 4 = 1
    OBVIOUS
  <2> QED
    BY <1>3, <2>1 DEF Holds, LockedPlace
<1>5. PICK V : V = InitialView(ObjectsOf(program), Threads)
  OBVIOUS
<1>6. /\ history = [o \in Objects |-> InitialHistory(V)]
      /\ accesses = [o \in Objects |-> [t \in Threads |-> [read |-> 0, write |-> 0]]]
  BY <1>2, <1>5 DEF Init
<1>7. /\ Newest(TheLock).value = 0 /\ Newest(TheLock).view = V
      /\ Len(history["counter"]) = 1
  BY <1>2, <1>6 DEF InitialHistory, Newest
<1>8. Knows(V)
  <2>1. V.seen["counter"] = 1 /\ \A u \in Threads : V.clock[u] = 0
    BY <1>2, <1>5 DEF InitialView
  <2>2. \A u \in Threads : accesses["counter"][u] = [read |-> 0, write |-> 0]
    BY <1>2, <1>6
  <2>3. \A u \in Threads : /\ accesses["counter"][u].read = 0
                           /\ accesses["counter"][u].write = 0
    BY <2>2
  <2> QED
    BY <1>7, <2>1, <2>3 DEF Knows
<1>9. races = {}
  BY DEF Init
<1> QED
  BY <1>1, <1>4, <1>7, <1>8, <1>9
     DEF LockedInv, OneHolder, LockTaken, HolderKnows, LockKnows

LEMMA LockedKind ==
    ASSUME MemoryInv, program \in locked, NEW t \in Threads, ~ AtEnd(t)
    PROVE  \/ /\ pc[t] % 4 = 1 /\ Current(t).op = "lock" /\ Current(t).object = TheLock
              /\ Current(t).order = "acquire" /\ Current(t).value = 1
           \/ pc[t] % 4 = 2 /\ Current(t).op = "read" /\ Current(t).object = "counter"
           \/ pc[t] % 4 = 3 /\ Current(t).op = "write_next" /\ Current(t).object = "counter"
           \/ /\ pc[t] % 4 = 0 /\ Current(t).op = "store" /\ Current(t).object = TheLock
              /\ Current(t).order = "release" /\ Current(t).value = 0
<1>1. Current(t) = LockedAt(TheLock, pc[t]) /\ pc[t] \in Nat
  BY LockedThread
<1>2. pc[t] % 4 \in {0, 1, 2, 3}
  BY <1>1
<1>3. CASE pc[t] % 4 = 1
  BY <1>1, <1>3 DEF LockedAt, Lock, Access
<1>4. CASE pc[t] % 4 = 2
  BY <1>1, <1>4 DEF LockedAt, Read, Access
<1>5. CASE pc[t] % 4 = 3
  BY <1>1, <1>5 DEF LockedAt, WriteNext, Access
<1>6. CASE pc[t] % 4 = 0
  BY <1>1, <1>6 DEF LockedAt, Unlock, Store, Access
<1> QED
  BY <1>2, <1>3, <1>4, <1>5, <1>6

LEMMA NextOfFour ==
    ASSUME NEW n \in Nat
    PROVE  /\ n % 4 = 1 <=> (n + 1) % 4 = 2
           /\ n % 4 = 2 <=> (n + 1) % 4 = 3
           /\ n % 4 = 3 <=> (n + 1) % 4 = 0
           /\ n % 4 = 0 <=> (n + 1) % 4 = 1
OBVIOUS

LEMMA KnowsMore ==
    ASSUME MemoryInv, "counter" \in Objects, NEW v \in Views, NEW w \in Views,
           Knows(w), KnowsAll(v, w), v.seen["counter"] <= Len(history["counter"])
    PROVE  Knows(v)
<1>1. /\ v.seen["counter"] \in Nat /\ Len(history["counter"]) \in Nat
      /\ DOMAIN w.seen = Objects /\ DOMAIN w.clock = Threads
      /\ \A u \in Threads : /\ v.clock[u] \in Nat /\ w.clock[u] \in Nat
                            /\ accesses["counter"][u].read \in Nat
                            /\ accesses["counter"][u].write \in Nat
  BY DEF MemoryInv, MemoryTypes, Views, ViewsOf
<1>2. v.seen["counter"] = Len(history["counter"])
  BY <1>1 DEF Knows, KnowsAll
<1>3. ASSUME NEW u \in Threads
      PROVE  accesses["counter"][u].read <= v.clock[u] /\ accesses["counter"][u].write <= v.clock[u]
  BY <1>1 DEF Knows, KnowsAll
<1> QED
  BY <1>2, <1>3 DEF Knows

(* A thread that knows every access of the counter adds one more.           *)
LEMMA KnowsOwn ==
    ASSUME MemoryInv, "counter" \in Objects, NEW t \in Threads, NEW v \in Views,
           NEW kind \in {"read", "write"}, NEW n \in Nat,
           Knows(view[t]), KnowsAll(v, view[t]), n = v.clock[t], Plain(t, kind, "counter", n)
    PROVE  /\ races' = races
           /\ \A u \in Threads : /\ accesses'["counter"][u].read <= v.clock[u]
                                 /\ accesses'["counter"][u].write <= v.clock[u]
<1>1. view[t] \in Views /\ MemoryTypes
  BY DEF MemoryInv, MemoryTypes
<1>2. /\ DOMAIN view[t].clock = Threads
      /\ \A u \in Threads : /\ v.clock[u] \in Nat /\ view[t].clock[u] \in Nat
                            /\ accesses["counter"][u].read \in Nat
                            /\ accesses["counter"][u].write \in Nat
  <2>1. /\ DOMAIN view[t].clock = Threads
        /\ \A u \in Threads : v.clock[u] \in Nat /\ view[t].clock[u] \in Nat
    BY <1>1 DEF Views, ViewsOf
  <2>2. \A u \in Threads : /\ accesses["counter"][u].read \in Nat
                            /\ accesses["counter"][u].write \in Nat
    BY <1>1 DEF MemoryTypes
  <2> QED
    BY <2>1, <2>2
<1>3. races' = races
  BY DEF Plain, Knows
<1>4. /\ accesses'["counter"][t][kind] = n
      /\ \A k \in {"read", "write"} \ {kind} : accesses'["counter"][t][k] = accesses["counter"][t][k]
      /\ \A u \in Threads \ {t} : accesses'["counter"][u] = accesses["counter"][u]
  BY <1>1, PlainKeeps
<1>5. \A u \in Threads : /\ accesses["counter"][u].read <= v.clock[u]
                         /\ accesses["counter"][u].write <= v.clock[u]
  BY <1>2 DEF Knows, KnowsAll
<1>6. accesses'["counter"][t].read <= v.clock[t] /\ accesses'["counter"][t].write <= v.clock[t]
  <2>1. CASE kind = "read"
    BY <1>2, <1>4, <1>5, <2>1
  <2>2. CASE kind = "write"
    BY <1>2, <1>4, <1>5, <2>2
  <2> QED
    BY <2>1, <2>2
<1> QED
  BY <1>3, <1>4, <1>5, <1>6

LEMMA LockedInvStep ==
    ASSUME LockedInv, NEW t \in Threads, Moves(t)
    PROVE  LockedInv'
<1> DEFINE m == TheLock
<1>0. /\ MemoryInv /\ MemoryTypes /\ program \in locked /\ races = {}
      /\ OneHolder /\ LockTaken /\ HolderKnows /\ LockKnows
      /\ MemoryInv' /\ program' = program /\ Objects' = Objects /\ Threads' = Threads
  BY MemoryInvMoves DEF LockedInv, MemoryInv
<1>1. /\ m \in Objects /\ "counter" \in Objects /\ m # "counter" /\ TheLock' = m
      /\ pc[t] \in Nat
  BY <1>0, LockedThread DEF TheLock
<1> HIDE DEF m
<1>2. ~ AtEnd(t)
  BY DEF Moves, DoLoad, DoRead, DoStore, DoReadModifyWrite, DoWrite, Branch, IsAt
<1>3. \/ DoReadModifyWrite(t) /\ pc[t] % 4 = 1
      \/ (\E i \in Nat \ {0} : DoRead(t, i)) /\ pc[t] % 4 = 2
      \/ DoWrite(t) /\ pc[t] % 4 = 3
      \/ DoStore(t) /\ pc[t] % 4 = 0
  BY <1>0, <1>2, LockedKind DEF Moves, DoLoad, DoRead, DoStore, DoReadModifyWrite, DoWrite, Branch, IsAt
<1>4. Advance(t)
  BY <1>3 DEF DoRead, DoStore, DoReadModifyWrite, DoWrite
<1>5. /\ pc'[t] = pc[t] + 1 /\ \A u \in Threads \ {t} : pc'[u] = pc[u]
  BY <1>0, <1>4, AdvanceStep
<1>6. \A u \in Threads : LockedPlace(u)'
  <2>1. pc[t] + 1 <= 4 * Iterations(program, t) + 1
    BY <1>0, <1>2, LockedThread
  <2> QED
    BY <1>0, <1>5, <2>1 DEF LockedInv, LockedPlace, Iterations
<1>7. \A u \in Threads \ {t} : Holds(u)' <=> Holds(u)
  BY <1>5 DEF Holds
<1>8. Holds(t)' <=> pc[t] % 4 # 0
  BY <1>1, <1>5, NextOfFour DEF Holds
<1>9. CASE DoReadModifyWrite(t) /\ pc[t] % 4 = 1
  <2>1. /\ Current(t).op = "lock" /\ Current(t).object = m
        /\ Current(t).order = "acquire" /\ Current(t).value = 1
    BY <1>0, <1>2, <1>9, LockedKind DEF m
  <2>2. PICK found \in Stores, v \in Views, store \in Stores :
          /\ found = Newest(m) /\ found.value = 0
          /\ Adds(t, m, v, store) /\ store.value = 1
          /\ KnowsAll(v, found.view)
    BY <1>0, <1>9, <2>1, ReadModifyWriteStep DEF Acquiring
  <2>3. races' = races /\ accesses' = accesses
    BY <1>9 DEF DoReadModifyWrite
  <2>4. /\ history'[m][Len(history[m]) + 1] = store /\ Len(history'[m]) = Len(history[m]) + 1
        /\ history'["counter"] = history["counter"]
    BY <1>0, <1>1, <2>2, Added
  <2>5. \A u \in Threads : ~ Holds(u)
    BY <1>0, <2>2 DEF LockTaken, m
  <2>6. Knows(v)
    <3>1. Knows(found.view)
      BY <1>0, <2>2, <2>5 DEF LockKnows, m
    <3>2. v \in Views /\ found.view \in Views /\ v.seen["counter"] <= Len(history["counter"])
      BY <1>1, <2>2 DEF Adds, Stores, StoresOf, Views
    <3> QED
      BY <1>0, <1>1, <2>2, <3>1, <3>2, KnowsMore
  <2>7. view'[t] = v
    BY <1>0, <2>2 DEF Adds, MemoryTypes
  <2>8. Knows(view[t])'
    BY <1>0, <2>3, <2>4, <2>6, <2>7 DEF Knows
  <2>9. Holds(t)' /\ \A u \in Threads \ {t} : ~ Holds(u)'
    BY <1>7, <1>8, <1>9, <2>5
  <2>10. Newest(TheLock)'.value = 1
    BY <1>1, <2>2, <2>4 DEF Newest
  <2>11. OneHolder' /\ LockTaken' /\ LockKnows'
    BY <1>0, <2>9, <2>10 DEF OneHolder, LockTaken, LockKnows
  <2>12. HolderKnows'
    BY <1>0, <2>8, <2>9 DEF HolderKnows
  <2> QED
    BY <1>0, <1>6, <2>3, <2>11, <2>12 DEF LockedInv
<1>10. CASE DoStore(t) /\ pc[t] % 4 = 0
  <2>1. /\ Current(t).object = m /\ Current(t).order = "release" /\ Current(t).value = 0
    BY <1>0, <1>2, <1>10, LockedKind DEF m
  <2>2. PICK v \in Views, store \in Stores :
          /\ Adds(t, m, v, store) /\ store.value = 0
          /\ KnowsAll(store.view, v)
    BY <1>0, <1>10, <2>1, StoreStep DEF Releasing
  <2>3. races' = races /\ accesses' = accesses
    BY <1>10 DEF DoStore
  <2>4. /\ history'[m][Len(history[m]) + 1] = store /\ Len(history'[m]) = Len(history[m]) + 1
        /\ history'["counter"] = history["counter"]
    BY <1>0, <1>1, <2>2, Added
  <2>5. Holds(t) /\ \A u \in Threads \ {t} : ~ Holds(u)
    BY <1>0, <1>10 DEF OneHolder, Holds
  <2>6. Knows(store.view)
    <3>1. Knows(view[t])
      BY <1>0, <2>5 DEF HolderKnows
    <3>2. PICK w \in Views, x \in Views : w = view[t] /\ x = store.view
      BY <1>0, <2>2 DEF Adds, Stores, StoresOf, Views, MemoryTypes
    <3>3. v \in Views /\ KnowsAll(v, w) /\ x.seen["counter"] <= Len(history["counter"])
      BY <1>1, <2>2, <3>2 DEF Adds
    <3>4. KnowsAll(x, w)
      BY <2>2, <3>2, <3>3, KnowsAllTransitive
    <3> QED
      BY <1>0, <1>1, <3>1, <3>2, <3>3, <3>4, KnowsMore
  <2>7. Knows(store.view)'
    BY <1>0, <2>3, <2>4, <2>6 DEF Knows
  <2>8. \A u \in Threads : ~ Holds(u)'
    BY <1>7, <1>8, <1>10, <2>5
  <2>9. Newest(TheLock)' = store
    BY <1>1, <2>4 DEF Newest
  <2>10. OneHolder' /\ LockTaken' /\ LockKnows' /\ HolderKnows'
    BY <1>0, <2>2, <2>7, <2>8, <2>9 DEF OneHolder, LockTaken, LockKnows, HolderKnows
  <2> QED
    BY <1>0, <1>6, <2>3, <2>10 DEF LockedInv
<1>11. ASSUME pc[t] % 4 # 0, pc[t] % 4 # 1, history'[m] = history[m], races' = races,
              Knows(view[t])'
       PROVE  LockedInv'
  <2>1. Holds(t) /\ Holds(t)' /\ \A u \in Threads \ {t} : ~ Holds(u) /\ ~ Holds(u)'
    BY <1>0, <1>7, <1>8, <1>11 DEF OneHolder, Holds
  <2>2. Newest(TheLock)' = Newest(m)
    BY <1>1, <1>11 DEF Newest
  <2>3. LockTaken'
    BY <1>0, <2>1, <2>2 DEF LockTaken, m
  <2>4. OneHolder' /\ LockKnows' /\ HolderKnows'
    BY <1>0, <1>11, <2>1 DEF OneHolder, LockKnows, HolderKnows
  <2> QED
    BY <1>0, <1>6, <1>11, <2>3, <2>4 DEF LockedInv
<1>12. CASE (\E i \in Nat \ {0} : DoRead(t, i)) /\ pc[t] % 4 = 2
  <2>1. Current(t).object = "counter"
    BY <1>0, <1>2, <1>12, LockedKind
  <2>2. PICK i \in Nat \ {0}, v \in Views :
          /\ i \in 1 .. Len(history["counter"]) /\ i >= view[t].seen["counter"]
          /\ Looks(t, v) /\ v.seen["counter"] = i
          /\ Plain(t, "read", "counter", v.clock[t]) /\ v.clock[t] \in Nat
    BY <1>0, <1>12, <2>1, ReadStep
  <2>3. Holds(t)
    BY <1>12 DEF Holds
  <2>4. Knows(view[t])
    BY <1>0, <2>3 DEF HolderKnows
  <2>5. i = Len(history["counter"]) /\ v \in Views /\ KnowsAll(v, view[t])
    <3>1. PICK n \in Nat : n = Len(history["counter"])
      BY <1>0, <1>1 DEF MemoryTypes
    <3>2. view[t].seen["counter"] = n
      BY <2>4, <3>1 DEF Knows
    <3>3. i >= n /\ i <= n
      BY <2>2, <3>1, <3>2
    <3>4. i = n
      BY <3>3
    <3> QED
      BY <2>2, <3>1, <3>4 DEF Looks
  <2>6. /\ races' = races
        /\ \A u \in Threads : /\ accesses'["counter"][u].read <= v.clock[u]
                              /\ accesses'["counter"][u].write <= v.clock[u]
    BY <1>0, <1>1, <2>2, <2>4, <2>5, KnowsOwn
  <2>7. view'[t] = v /\ history' = history
    BY <1>0, <2>2 DEF Looks, MemoryTypes
  <2>8. Knows(view[t])'
    BY <1>0, <2>2, <2>5, <2>6, <2>7 DEF Knows
  <2> QED
    BY <1>11, <1>12, <2>6, <2>7, <2>8
<1>13. CASE DoWrite(t) /\ pc[t] % 4 = 3
  <2>1. Current(t).object = "counter"
    BY <1>0, <1>2, <1>13, LockedKind
  <2>2. PICK v \in Views, store \in Stores :
          /\ Adds(t, "counter", v, store)
          /\ Plain(t, "write", "counter", v.clock[t]) /\ v.clock[t] \in Nat
    BY <1>0, <1>13, <2>1, WriteStep
  <2>3. Holds(t)
    BY <1>13 DEF Holds
  <2>4. Knows(view[t])
    BY <1>0, <2>3 DEF HolderKnows
  <2>5. v \in Views /\ KnowsAll(v, view[t]) /\ v.seen["counter"] = Len(history["counter"]) + 1
    BY <2>2 DEF Adds
  <2>6. /\ races' = races
        /\ \A u \in Threads : /\ accesses'["counter"][u].read <= v.clock[u]
                              /\ accesses'["counter"][u].write <= v.clock[u]
    BY <1>0, <1>1, <2>2, <2>4, <2>5, KnowsOwn
  <2>7. /\ view'[t] = v /\ history'[m] = history[m]
        /\ Len(history'["counter"]) = Len(history["counter"]) + 1
    <3>1. view'[t] = v
      BY <1>0, <2>2 DEF Adds, MemoryTypes
    <3> QED
      BY <1>0, <1>1, <2>2, <3>1, Added
  <2>8. Knows(view[t])'
    BY <1>0, <2>5, <2>6, <2>7 DEF Knows
  <2> QED
    BY <1>11, <1>13, <2>6, <2>7, <2>8
<1> QED
  BY <1>3, <1>9, <1>10, <1>12, <1>13
-----------------------------------------------------------------------------
(* A message or a text behind a flag                                        *)

published == {"message", "pointer"}
Pub == IF program = "message" THEN 2 ELSE 1
Sub == IF program = "message" THEN 1 ELSE 2
Flag == IF program = "message" THEN "ready" ELSE "msg"
Datum == IF program = "message" THEN "message" ELSE "text"

LEMMA PublishedCode ==
    ASSUME MemoryInv, program \in published
    PROVE  /\ Threads = 1 .. 2 /\ Pub \in Threads /\ Sub \in Threads /\ Pub # Sub
           /\ \A u \in Threads : u = Pub \/ u = Sub
           /\ Flag \in Objects /\ Datum \in Objects /\ Flag # Datum
           /\ Flag # "data" /\ Datum # "data"
           /\ program = "message" => "data" \notin Objects
           /\ Len(Code[program][Sub]) = IF program = "message" THEN 3 ELSE 4
<1>0. Objects = ObjectsOf(program)
  BY DEF MemoryInv, MemoryTypes, Objects
<1>1. CASE program = "message"
  <2>1. /\ DOMAIN Code[program] = 1 .. 2
        /\ Code[program][1] = reader /\ Code[program][2] = writer
    BY <1>1, OtherCode
  <2>2. /\ DOMAIN reader = 1 .. 3 /\ Len(reader) = 3
        /\ reader[1].object = "ready" /\ reader[2].object = "ready"
        /\ reader[3].object = "message"
        /\ DOMAIN writer = 1 .. 2
        /\ writer[1].object = "message" /\ writer[2].object = "ready"
    BY DEF reader, writer, Load, GoUnless, Read, Write, Store, Access
  <2>3. ObjectsOf(program) = {reader[i].object : i \in 1 .. 3} \cup {writer[i].object : i \in 1 .. 2}
    BY <2>1, <2>2 DEF ObjectsOf
  <2>4. \A i \in 1 .. 3 : i = 1 \/ i = 2 \/ i = 3
    OBVIOUS
  <2>5. "ready" \in Objects /\ "message" \in Objects /\ "data" \notin Objects
    BY <1>0, <2>2, <2>3, <2>4
  <2> QED
    BY <1>1, <2>1, <2>2, <2>5 DEF Threads, Pub, Sub, Flag, Datum
<1>2. CASE program = "pointer"
  <2>1. /\ DOMAIN Code[program] = 1 .. 2
        /\ Code[program][1] = producer /\ Code[program][2] = consumer
    BY <1>2, OtherCode
  <2>2. /\ Len(consumer) = 4 /\ DOMAIN producer = 1 .. 3
        /\ producer[1].object = "text" /\ producer[2].object = "msg"
    BY DEF producer, consumer, Load, GoUnless, Read, Write, Store, Access
  <2>3. "text" \in ObjectsOf(program) /\ "msg" \in ObjectsOf(program)
    BY <2>1, <2>2 DEF ObjectsOf
  <2> QED
    BY <1>0, <1>2, <2>1, <2>2, <2>3 DEF Threads, Pub, Sub, Flag, Datum
<1> QED
  BY <1>1, <1>2 DEF published

LEMMA PublishedKind ==
    ASSUME MemoryInv, program \in published, NEW t \in Threads, ~ AtEnd(t)
    PROVE  LET a == Current(t) IN
           \/ t = Pub /\ pc[t] = 1 /\ a.op = "write" /\ a.object = Datum /\ a.value = 1
           \/ /\ t = Pub /\ pc[t] = 2 /\ a.op = "store" /\ a.object = Flag
              /\ a.order \in Releasing /\ a.value = 1
           \/ t = Pub /\ pc[t] = 3 /\ a.op = "write" /\ a.object = "data"
           \/ t = Sub /\ pc[t] = 1 /\ a.op = "load" /\ a.object = Flag /\ a.order \in Acquiring
           \/ /\ t = Sub /\ pc[t] = 2 /\ a.op = "go_unless" /\ a.object = Flag
              /\ a.value = 1 /\ a.order = 1
           \/ t = Sub /\ pc[t] = 3 /\ a.op = "read" /\ a.object = Datum
           \/ t = Sub /\ pc[t] = 4 /\ a.op = "read" /\ a.object = "data"
<1>0. /\ Current(t) = Code[program][t][pc[t]] /\ pc[t] \in 1 .. Len(Code[program][t])
      /\ t \in 1 .. 2
  BY CurrentAccess, PublishedCode DEF MemoryInv
<1>1. CASE program = "message"
  <2>1. Code[program][1] = reader /\ Code[program][2] = writer
    BY <1>1, OtherCode
  <2>2. /\ Len(reader) = 3 /\ Len(writer) = 2
        /\ reader[1] = Load("ready", "seq_cst") /\ reader[2] = GoUnless("ready", 1, 1)
        /\ reader[3] = Read("message")
        /\ writer[1] = Write("message", 1) /\ writer[2] = Store("ready", 1, "seq_cst")
    BY DEF reader, writer
  <2>3. CASE t = 1
    <3>1. pc[t] = 1 \/ pc[t] = 2 \/ pc[t] = 3
      <4>1. Len(Code[program][t]) = 3
        BY <2>1, <2>2, <2>3
      <4>2. pc[t] \in 1 .. 3
        BY <1>0, <4>1
      <4> QED
        BY <4>2
    <3>2. /\ pc[t] = 1 => Current(t) = Load("ready", "seq_cst")
          /\ pc[t] = 2 => Current(t) = GoUnless("ready", 1, 1)
          /\ pc[t] = 3 => Current(t) = Read("message")
      BY <1>0, <2>1, <2>2, <2>3
    <3> QED
      BY <1>1, <2>3, <3>1, <3>2 DEF Pub, Sub, Flag, Datum, Load, GoUnless, Read, Access, Acquiring
  <2>4. CASE t = 2
    <3>1. pc[t] = 1 \/ pc[t] = 2
      <4>1. Len(Code[program][t]) = 2
        BY <2>1, <2>2, <2>4
      <4>2. pc[t] \in 1 .. 2
        BY <1>0, <4>1
      <4> QED
        BY <4>2
    <3>2. /\ pc[t] = 1 => Current(t) = Write("message", 1)
          /\ pc[t] = 2 => Current(t) = Store("ready", 1, "seq_cst")
      BY <1>0, <2>1, <2>2, <2>4
    <3> QED
      BY <1>1, <2>4, <3>1, <3>2 DEF Pub, Sub, Flag, Datum, Write, Store, Access, Releasing
  <2> QED
    BY <1>0, <2>3, <2>4
<1>2. CASE program = "pointer"
  <2>1. Code[program][1] = producer /\ Code[program][2] = consumer
    BY <1>2, OtherCode
  <2>2. /\ Len(producer) = 3 /\ Len(consumer) = 4
        /\ producer[1] = Write("text", 1) /\ producer[2] = Store("msg", 1, "release")
        /\ producer[3] = Write("data", 1)
        /\ consumer[1] = Load("msg", "acquire") /\ consumer[2] = GoUnless("msg", 1, 1)
        /\ consumer[3] = Read("text") /\ consumer[4] = Read("data")
    BY DEF producer, consumer
  <2>3. CASE t = 1
    <3>1. pc[t] = 1 \/ pc[t] = 2 \/ pc[t] = 3
      <4>1. Len(Code[program][t]) = 3
        BY <2>1, <2>2, <2>3
      <4>2. pc[t] \in 1 .. 3
        BY <1>0, <4>1
      <4> QED
        BY <4>2
    <3>2. /\ pc[t] = 1 => Current(t) = Write("text", 1)
          /\ pc[t] = 2 => Current(t) = Store("msg", 1, "release")
          /\ pc[t] = 3 => Current(t) = Write("data", 1)
      BY <1>0, <2>1, <2>2, <2>3
    <3> QED
      BY <1>2, <2>3, <3>1, <3>2 DEF Pub, Sub, Flag, Datum, Write, Store, Access, Releasing
  <2>4. CASE t = 2
    <3>1. pc[t] = 1 \/ pc[t] = 2 \/ pc[t] = 3 \/ pc[t] = 4
      <4>1. Len(Code[program][t]) = 4
        BY <2>1, <2>2, <2>4
      <4>2. pc[t] \in 1 .. 4
        BY <1>0, <4>1
      <4> QED
        BY <4>2
    <3>2. /\ pc[t] = 1 => Current(t) = Load("msg", "acquire")
          /\ pc[t] = 2 => Current(t) = GoUnless("msg", 1, 1)
          /\ pc[t] = 3 => Current(t) = Read("text")
          /\ pc[t] = 4 => Current(t) = Read("data")
      BY <1>0, <2>1, <2>2, <2>4
    <3> QED
      BY <1>2, <2>4, <3>1, <3>2 DEF Pub, Sub, Flag, Datum, Load, GoUnless, Read, Access, Acquiring
  <2> QED
    BY <1>0, <2>3, <2>4
<1> QED
  BY <1>1, <1>2 DEF published

(* w has the datum as it was published.                                     *)
Announces(w) ==
    pc[Pub] > 1 /\ w.seen[Datum] = 2 /\ accesses[Datum][Pub].write <= w.clock[Pub]

NotThere ==
    pc[Pub] = 1 =>
      /\ Len(history[Datum]) = 1
      /\ \A u \in Threads : accesses[Datum][u].read = 0 /\ accesses[Datum][u].write = 0
There ==
    pc[Pub] > 1 =>
      /\ Len(history[Datum]) = 2 /\ history[Datum][2].value = 1
      /\ Announces(view[Pub])
FlagAnnounces ==
    \A i \in 1 .. Len(history[Flag]) :
      history[Flag][i].value = 1 => Announces(history[Flag][i].view)
SubKnows ==
    /\ register[Sub][Flag] = 1 => Announces(view[Sub])
    /\ accesses[Datum][Sub].write = 0
SubFound ==
    /\ pc[Sub] > 2 => register[Sub][Flag] = 1
    /\ pc[Sub] > 3 => register[Sub][Datum] = 1

PublishedInv ==
    /\ MemoryInv /\ program \in published
    /\ NotThere /\ There /\ FlagAnnounces /\ SubKnows /\ SubFound
    /\ races \subseteq {"data"}

LEMMA PublishedInvInit == Init /\ program \in published => PublishedInv
<1> SUFFICES ASSUME Init, program \in published PROVE PublishedInv
  OBVIOUS
<1>1. MemoryInv
  BY MemoryInvInit
<1>2. /\ Flag \in Objects /\ Datum \in Objects /\ Pub \in Threads /\ Sub \in Threads
      /\ Objects = ObjectsOf(program)
  BY <1>1, PublishedCode DEF MemoryInv, MemoryTypes, Objects
<1>3. PICK V : V = InitialView(ObjectsOf(program), Threads)
  OBVIOUS
<1>4. /\ history = [o \in Objects |-> InitialHistory(V)]
      /\ accesses = [o \in Objects |-> [t \in Threads |-> [read |-> 0, write |-> 0]]]
      /\ register = [t \in Threads |-> [o \in Objects |-> 0]]
      /\ pc = [t \in Threads |-> 1] /\ races = {}
  BY <1>2, <1>3 DEF Init
<1>5. /\ Len(history[Datum]) = 1 /\ Len(history[Flag]) = 1
      /\ history[Flag][1].value = 0
  BY <1>2, <1>4 DEF InitialHistory
<1>6. \A u \in Threads : accesses[Datum][u] = [read |-> 0, write |-> 0]
  BY <1>2, <1>4
<1>7. \A u \in Threads : accesses[Datum][u].read = 0 /\ accesses[Datum][u].write = 0
  BY <1>6
<1>8. pc[Pub] = 1 /\ pc[Sub] = 1 /\ register[Sub][Flag] = 0
  BY <1>2, <1>4
<1>9. FlagAnnounces
  BY <1>5 DEF FlagAnnounces
<1>10. NotThere /\ There /\ SubKnows /\ SubFound
  BY <1>2, <1>5, <1>7, <1>8 DEF NotThere, There, SubKnows, SubFound
<1> QED
  BY <1>1, <1>4, <1>9, <1>10 DEF PublishedInv

LEMMA AnnouncesMore ==
    ASSUME MemoryInv, program \in published, NEW v \in Views, NEW w \in Views,
           Announces(w), KnowsAll(v, w), v.seen[Datum] <= 2
    PROVE  Announces(v)
<1>1. /\ Datum \in Objects /\ Pub \in Threads
      /\ v.seen[Datum] \in Nat /\ v.clock[Pub] \in Nat /\ w.clock[Pub] \in Nat
      /\ DOMAIN w.seen = Objects /\ DOMAIN w.clock = Threads
      /\ accesses[Datum][Pub].write \in Nat
  BY PublishedCode DEF MemoryInv, MemoryTypes, Views, ViewsOf
<1> QED
  BY <1>1 DEF Announces, KnowsAll

LEMMA PublishedInvStep ==
    ASSUME PublishedInv, NEW t \in Threads, Moves(t)
    PROVE  PublishedInv'
<1>0. /\ MemoryInv /\ MemoryTypes /\ program \in published /\ races \subseteq {"data"}
      /\ NotThere /\ There /\ FlagAnnounces /\ SubKnows /\ SubFound
      /\ MemoryInv' /\ MemoryTypes' /\ program' = program
      /\ Objects' = Objects /\ Threads' = Threads
  BY MemoryInvMoves DEF PublishedInv, MemoryInv
<1>1. Pub' = Pub /\ Sub' = Sub /\ Flag' = Flag /\ Datum' = Datum
  BY <1>0 DEF Pub, Sub, Flag, Datum
<1>2. /\ Pub \in Threads /\ Sub \in Threads /\ Pub # Sub
      /\ \A u \in Threads : u = Pub \/ u = Sub
      /\ Flag \in Objects /\ Datum \in Objects /\ Flag # Datum
      /\ Flag # "data" /\ Datum # "data"
  BY <1>0, PublishedCode
<1>3. ~ AtEnd(t)
  BY DEF Moves, DoLoad, DoRead, DoStore, DoReadModifyWrite, DoWrite, Branch, IsAt
<1>4. \A u \in Threads : pc[u] \in Nat \ {0} /\ pc'[u] \in Nat \ {0}
  BY <1>0 DEF MemoryTypes
<1>5. /\ view[t] \in Views /\ Len(history[Datum]) \in Nat
      /\ \A u \in Threads : view[u].clock[u] \in Nat
      /\ \A u, x \in Threads : view[u].clock[x] \in Nat
  <2>1. \A u \in Threads : view[u] \in Views
    BY <1>0 DEF MemoryTypes
  <2>2. Len(history[Datum]) \in Nat
    BY <1>0, <1>2 DEF MemoryTypes
  <2> QED
    BY <2>1, <2>2 DEF Views, ViewsOf
<1>6. /\ accesses[Datum][Pub].write \in Nat /\ accesses[Datum][Sub].write = 0
      /\ (pc[Pub] = 1 \/ pc[Pub] > 1)
  <2>1. accesses[Datum][Pub] \in [read : Nat, write : Nat]
    BY <1>0, <1>2 DEF MemoryTypes
  <2>2. accesses[Datum][Sub].write = 0
    BY <1>0 DEF SubKnows
  <2>3. pc[Pub] \in Nat \ {0}
    BY <1>2, <1>4
  <2> QED
    BY <2>1, <2>2, <2>3
(* A step that does not touch the datum, by which t comes to know v.        *)
<1>7. ASSUME NEW v \in Views, KnowsAll(v, view[t]), view' = [view EXCEPT ![t] = v],
             history'[Datum] = history[Datum], accesses'[Datum] = accesses[Datum],
             v.seen[Datum] <= Len(history[Datum]),
             pc[Pub] = 1 => pc'[Pub] = 1,  pc[Pub] > 1 => pc'[Pub] > 1
      PROVE  /\ NotThere' /\ There'
             /\ \A w \in Views : Announces(w) => Announces(w)'
             /\ \A u \in Threads : Announces(view[u]) => Announces(view[u])'
             /\ Announces(v) => Announces(view[t])'
  <2>1. view'[t] = v /\ \A u \in Threads \ {t} : view'[u] = view[u]
    BY <1>0, <1>7 DEF MemoryTypes
  <2>2. \A w \in Views : Announces(w) => Announces(w)'
    BY <1>1, <1>6, <1>7 DEF Announces
  <2>3. ASSUME Announces(view[t]) PROVE Announces(v)
    <3>1. v.seen[Datum] <= 2
      BY <1>0, <1>7, <2>3 DEF There, Announces
    <3> QED
      BY <1>0, <1>5, <1>7, <2>3, <3>1, AnnouncesMore
  <2>4. Announces(v) => Announces(view[t])'
    BY <1>1, <1>6, <1>7, <2>1 DEF Announces
  <2>5. \A u \in Threads : Announces(view[u]) => Announces(view[u])'
    <3> SUFFICES ASSUME NEW u \in Threads, Announces(view[u]) PROVE Announces(view[u])'
      OBVIOUS
    <3>1. CASE u = t
      BY <2>3, <2>4, <3>1
    <3>2. CASE u # t
      BY <1>1, <1>6, <1>7, <2>1, <3>2 DEF Announces
    <3> QED
      BY <3>1, <3>2
  <2>6. NotThere'
    <3>1. pc'[Pub] = 1 => pc[Pub] = 1
      BY <1>6, <1>7
    <3> QED
      BY <1>0, <1>1, <1>7, <3>1 DEF NotThere
  <2>7. There'
    <3> SUFFICES ASSUME (pc[Pub] > 1)'
                 PROVE  /\ Len(history[Datum])' = 2 /\ (history[Datum][2].value)' = 1
                        /\ Announces(view[Pub])'
      BY DEF There
    <3>1. pc[Pub] > 1
      BY <1>1, <1>6, <1>7
    <3> QED
      BY <1>0, <1>1, <1>2, <1>7, <2>5, <3>1 DEF There
  <2> QED
    BY <2>2, <2>4, <2>5, <2>6, <2>7
<1>8. ASSUME history'[Flag] = history[Flag], \A w \in Views : Announces(w) => Announces(w)'
      PROVE  FlagAnnounces'
  <2> SUFFICES ASSUME NEW i \in 1 .. Len(history[Flag]), history[Flag][i].value = 1
               PROVE  Announces(history[Flag][i].view)'
    BY <1>1, <1>8 DEF FlagAnnounces
  <2>1. PICK w \in Views : w = history[Flag][i].view
    <3>1. history[Flag][i] \in Stores
      BY <1>0, <1>2, ElementOfSeq DEF MemoryTypes
    <3> QED
      BY <3>1 DEF Stores, StoresOf, Views
  <2>2. Announces(w)
    BY <1>0, <2>1 DEF FlagAnnounces
  <2>3. Announces(w)'
    BY <1>8, <2>2
  <2>4. w = (history[Flag][i].view)'
    BY <1>1, <1>8, <2>1
  <2> QED
    BY <2>3, <2>4 DEF Announces
<1>9. CASE t = Pub /\ pc[t] = 1
  <2>1. DoWrite(t) /\ Current(t).op = "write" /\ Current(t).object = Datum /\ Current(t).value = 1
    BY <1>0, <1>2, <1>3, <1>9, PublishedKind
       DEF Moves, DoLoad, DoRead, DoStore, DoReadModifyWrite, DoWrite, Branch, IsAt
  <2>2. PICK v \in Views, store \in Stores :
          /\ Adds(t, Datum, v, store) /\ store.value = 1
          /\ Plain(t, "write", Datum, v.clock[t]) /\ v.clock[t] \in Nat
    BY <1>0, <2>1, WriteStep
  <2>3. /\ Len(history[Datum]) = 1
        /\ \A u \in Threads : accesses[Datum][u].read = 0 /\ accesses[Datum][u].write = 0
    BY <1>0, <1>9 DEF NotThere
  <2>4. /\ accesses'[Datum][t].write = v.clock[t]
        /\ \A u \in Threads \ {t} : accesses'[Datum][u] = accesses[Datum][u]
    BY <1>0, <1>2, <2>2, PlainKeeps
  <2>5. races' = races
    BY <1>5, <2>2, <2>3 DEF Plain
  <2>6. /\ Len(history'[Datum]) = 2 /\ history'[Datum][2] = store
        /\ history'[Flag] = history[Flag]
    <3>1. /\ Len(history'[Datum]) = Len(history[Datum]) + 1
          /\ history'[Datum][Len(history[Datum]) + 1] = store
          /\ \A x \in Objects \ {Datum} : history'[x] = history[x]
      BY <1>0, <1>2, <2>2, Added
    <3> QED
      BY <1>2, <2>3, <3>1
  <2>7. view'[t] = v /\ v.seen[Datum] = 2
    BY <1>0, <2>2, <2>3 DEF Adds, MemoryTypes
  <2>8. Advance(t) /\ register' = register
    BY <2>1 DEF DoWrite
  <2>9. pc'[Pub] = 2 /\ pc'[Sub] = pc[Sub]
    BY <1>0, <1>2, <1>9, <2>8, AdvanceStep
  <2>10. There' /\ NotThere'
    <3>1. Announces(view[Pub])'
      BY <1>1, <1>9, <2>2, <2>4, <2>7, <2>9 DEF Announces
    <3> QED
      BY <1>1, <2>2, <2>6, <2>9, <3>1 DEF There, NotThere
  <2>11. \A w : ~ Announces(w)
    BY <1>9 DEF Announces
  <2>12. FlagAnnounces'
    BY <1>0, <1>8, <2>6, <2>11
  <2>13. SubKnows' /\ SubFound'
    <3>1. register[Sub][Flag] # 1
      BY <1>0, <2>11 DEF SubKnows
    <3>2. accesses'[Datum][Sub].write = 0
      BY <1>2, <1>6, <1>9, <2>4
    <3> QED
      BY <1>0, <1>1, <2>8, <2>9, <3>1, <3>2 DEF SubKnows, SubFound
  <2> QED
    BY <1>0, <2>5, <2>10, <2>12, <2>13 DEF PublishedInv
<1>10. CASE t = Pub /\ pc[t] # 1
  <2>1. \/ /\ DoStore(t) /\ Current(t).object = Flag /\ Current(t).order \in Releasing
        \/ DoWrite(t) /\ Current(t).object = "data"
    BY <1>0, <1>2, <1>3, <1>10, PublishedKind
       DEF Moves, DoLoad, DoRead, DoStore, DoReadModifyWrite, DoWrite, Branch, IsAt
  <2>2. Advance(t) /\ register' = register
    BY <2>1 DEF DoStore, DoWrite
  <2>3. pc'[Pub] = pc[Pub] + 1 /\ pc'[Sub] = pc[Sub] /\ pc[Pub] > 1
    BY <1>0, <1>2, <1>4, <1>10, <2>2, AdvanceStep
  <2>4. PICK o \in Objects \ {Datum}, v \in Views, store \in Stores :
          /\ Adds(t, o, v, store) /\ races' \subseteq {"data"}
          /\ accesses'[Datum] = accesses[Datum]
          /\ o = Flag => KnowsAll(store.view, v)
    <3>1. CASE DoStore(t) /\ Current(t).object = Flag /\ Current(t).order \in Releasing
      <4>1. accesses' = accesses /\ races' = races
        BY <3>1 DEF DoStore
      <4>2. PICK v \in Views, store \in Stores : Adds(t, Flag, v, store) /\ KnowsAll(store.view, v)
        BY <1>0, <3>1, StoreStep
      <4> QED
        BY <1>0, <1>2, <4>1, <4>2
    <3>2. CASE DoWrite(t) /\ Current(t).object = "data"
      <4>1. PICK o \in Objects, v \in Views, store \in Stores :
              /\ o = "data" /\ Adds(t, o, v, store)
              /\ Plain(t, "write", o, v.clock[t]) /\ v.clock[t] \in Nat
        BY <1>0, <3>2, WriteStep
      <4>2. accesses'[Datum] = accesses[Datum]
        <5>1. \A x \in Objects \ {o} : accesses'[x] = accesses[x]
          BY <1>0, <4>1, PlainKeeps
        <5> QED
          BY <1>2, <4>1, <5>1
      <4>3. races' \subseteq {"data"}
        BY <1>0, <4>1 DEF Plain
      <4> QED
        BY <1>2, <4>1, <4>2, <4>3
    <3> QED
      BY <2>1, <3>1, <3>2
  <2>5. /\ history'[Datum] = history[Datum]
        /\ Len(history'[o]) = Len(history[o]) + 1 /\ Len(history[o]) \in Nat
        /\ history'[o][Len(history[o]) + 1] = store
        /\ \A i \in 1 .. Len(history[o]) : history'[o][i] = history[o][i]
        /\ \A x \in Objects \ {o} : history'[x] = history[x]
    BY <1>0, <1>2, <2>4, Added
  <2>6. /\ v \in Views /\ KnowsAll(v, view[t]) /\ view' = [view EXCEPT ![t] = v]
        /\ v.seen[Datum] <= Len(history[Datum])
        /\ store.view \in Views
    BY <1>2, <2>4 DEF Adds, Stores, StoresOf, Views
  <2>7. /\ NotThere' /\ There'
        /\ \A w \in Views : Announces(w) => Announces(w)'
        /\ \A u \in Threads : Announces(view[u]) => Announces(view[u])'
    <3>1. pc'[Pub] > 1 /\ pc[Pub] # 1
      BY <1>2, <1>4, <2>3
    <3> QED
      BY <1>7, <2>4, <2>5, <2>6, <3>1
  <2>8. SubKnows' /\ SubFound'
    BY <1>0, <1>1, <1>2, <2>2, <2>3, <2>4, <2>7 DEF SubKnows, SubFound
  <2>9. FlagAnnounces'
    <3>1. CASE o # Flag
      BY <1>2, <1>8, <2>5, <2>7, <3>1
    <3>2. CASE o = Flag
      <4> SUFFICES ASSUME NEW i \in 1 .. Len(history'[Flag]), history'[Flag][i].value = 1
                   PROVE  Announces(history[Flag][i].view)'
        BY <1>1 DEF FlagAnnounces
      <4>1. PICK w \in Views : w = history'[Flag][i].view /\ Announces(w)
        <5>1. CASE i = Len(history[Flag]) + 1
          <6>1. Announces(view[t])
            BY <1>0, <1>10, <2>3 DEF There
          <6>2. PICK x \in Views : x = store.view
            BY <2>6
          <6>3. KnowsAll(x, v) /\ KnowsAll(x, view[t])
            BY <1>5, <2>4, <2>6, <3>2, <6>2, KnowsAllTransitive
          <6>4. x.seen[Datum] <= Len(history[Datum])
            BY <1>2, <2>4, <3>2, <6>2 DEF Adds
          <6>5. Len(history[Datum]) = 2
            BY <1>0, <2>3 DEF There
          <6>6. Announces(x)
            BY <1>0, <1>5, <6>1, <6>3, <6>4, <6>5, AnnouncesMore
          <6> QED
            BY <2>5, <3>2, <5>1, <6>2, <6>6
        <5>2. CASE i \in 1 .. Len(history[Flag])
          <6>1. history'[Flag][i] = history[Flag][i]
            BY <2>5, <3>2, <5>2
          <6>2. history[Flag][i] \in Stores
            BY <1>0, <1>2, <5>2, ElementOfSeq DEF MemoryTypes
          <6>3. history[Flag][i].view \in Views
            BY <6>2 DEF Stores, StoresOf, Views
          <6> QED
            BY <1>0, <5>2, <6>1, <6>3 DEF FlagAnnounces
        <5> QED
          BY <2>5, <3>2, <5>1, <5>2
      <4>2. Announces(w)'
        BY <2>7, <4>1
      <4>3. w = (history[Flag][i].view)'
        BY <1>1, <4>1
      <4> QED
        BY <4>2, <4>3 DEF Announces
    <3> QED
      BY <3>1, <3>2
  <2> QED
    BY <1>0, <2>4, <2>7, <2>8, <2>9 DEF PublishedInv
<1>11. CASE t = Sub /\ pc[t] = 1
  <2>1. (\E i \in Nat \ {0} : DoLoad(t, i)) /\ Current(t).object = Flag /\ Current(t).order \in Acquiring
    BY <1>0, <1>2, <1>3, <1>11, PublishedKind
       DEF Moves, DoLoad, DoRead, DoStore, DoReadModifyWrite, DoWrite, Branch, IsAt
  <2>2. PICK i \in Nat \ {0} : DoLoad(t, i)
    BY <2>1
  <2>3. PICK v \in Views, value \in Nat :
          /\ i \in 1 .. Len(history[Flag]) /\ value = history[Flag][i].value
          /\ Looks(t, v) /\ KnowsAll(v, history[Flag][i].view)
    <3>1. /\ i \in 1 .. Len(history[Flag]) /\ history[Flag][i].value \in Nat
          /\ \E v \in Views : Looks(t, v) /\ KnowsAll(v, history[Flag][i].view)
      BY <1>0, <2>1, <2>2, LoadStep
    <3> QED
      BY <3>1
  <2>4. Find(t, Flag, value) /\ Advance(t) /\ UNCHANGED <<accesses, races>>
    BY <2>1, <2>2, <2>3 DEF DoLoad
  <2>5. /\ pc'[Pub] = pc[Pub] /\ pc'[Sub] = 2 /\ register'[Sub][Flag] = value
    BY <1>0, <1>2, <1>11, <2>4, AdvanceStep, FindStep
  <2>6. /\ v \in Views /\ KnowsAll(v, view[t]) /\ view' = [view EXCEPT ![t] = v]
        /\ v.seen[Datum] <= Len(history[Datum]) /\ history' = history
    BY <1>2, <2>3 DEF Looks, Within, Objects
  <2>7. /\ NotThere' /\ There'
        /\ \A w \in Views : Announces(w) => Announces(w)'
        /\ Announces(v) => Announces(view[t])'
    <3>1. /\ KnowsAll(v, view[t]) /\ view' = [view EXCEPT ![t] = v]
          /\ history'[Datum] = history[Datum] /\ accesses'[Datum] = accesses[Datum]
          /\ v.seen[Datum] <= Len(history[Datum])
          /\ pc[Pub] = 1 => pc'[Pub] = 1
          /\ pc[Pub] > 1 => pc'[Pub] > 1
      BY <2>4, <2>5, <2>6
    <3> QED
      BY <1>7, <3>1
  <2>8. FlagAnnounces'
    BY <1>8, <2>6, <2>7
  <2>9. ASSUME value = 1 PROVE Announces(v)
    <3>1. PICK x \in Views : x = history[Flag][i].view
      <4>1. history[Flag][i] \in Stores
        BY <1>0, <1>2, <2>3, ElementOfSeq DEF MemoryTypes
      <4> QED
        BY <4>1 DEF Stores, StoresOf, Views
    <3>2. Announces(x)
      BY <1>0, <2>3, <2>9, <3>1 DEF FlagAnnounces
    <3>3. v.seen[Datum] <= 2
      BY <1>0, <2>6, <3>2 DEF There, Announces
    <3> QED
      BY <1>0, <2>3, <2>6, <3>1, <3>2, <3>3, AnnouncesMore
  <2>10. SubKnows'
    BY <1>1, <1>6, <1>11, <2>4, <2>5, <2>7, <2>9 DEF SubKnows
  <2>11. SubFound'
    BY <1>1, <2>5 DEF SubFound
  <2> QED
    BY <1>0, <2>4, <2>7, <2>8, <2>10, <2>11 DEF PublishedInv
<1>12. CASE t = Sub /\ pc[t] = 2
  <2>1. /\ Branch(t) /\ Current(t).object = Flag /\ Current(t).value = 1 /\ Current(t).order = 1
    BY <1>0, <1>2, <1>3, <1>12, PublishedKind
       DEF Moves, DoLoad, DoRead, DoStore, DoReadModifyWrite, DoWrite, Branch, IsAt
  <2>2. UNCHANGED <<history, view, register, accesses, races>>
    BY <2>1 DEF Branch
  <2>3. /\ pc'[Pub] = pc[Pub]
        /\ pc'[Sub] = IF register[Sub][Flag] = 1 THEN 3 ELSE 1
    BY <1>0, <1>2, <1>12, <2>1, BranchStep
  <2>4. NotThere' /\ There' /\ FlagAnnounces' /\ SubKnows'
    BY <1>0, <1>1, <2>2, <2>3 DEF NotThere, There, FlagAnnounces, SubKnows, Announces
  <2>5. SubFound'
    BY <1>1, <2>2, <2>3 DEF SubFound
  <2> QED
    BY <1>0, <2>2, <2>4, <2>5 DEF PublishedInv
<1>13. CASE t = Sub /\ pc[t] # 1 /\ pc[t] # 2
  <2>1. /\ \E i \in Nat \ {0} : DoRead(t, i)
        /\ \/ pc[t] = 3 /\ Current(t).object = Datum
           \/ pc[t] = 4 /\ Current(t).object = "data"
    BY <1>0, <1>2, <1>3, <1>13, PublishedKind
       DEF Moves, DoLoad, DoRead, DoStore, DoReadModifyWrite, DoWrite, Branch, IsAt
  <2>2. PICK i \in Nat \ {0} : DoRead(t, i)
    BY <2>1
  <2>3. PICK o \in Objects, v \in Views, value \in Nat :
          /\ o = Current(t).object
          /\ i \in 1 .. Len(history[o]) /\ i >= view[t].seen[o] /\ value = history[o][i].value
          /\ Looks(t, v) /\ Plain(t, "read", o, v.clock[t]) /\ v.clock[t] \in Nat
    <3>1. PICK o \in Objects : o = Current(t).object
      BY <1>0, <2>2, ReadStep
    <3>2. /\ i \in 1 .. Len(history[o]) /\ i >= view[t].seen[o] /\ history[o][i].value \in Nat
          /\ \E v \in Views : Looks(t, v) /\ Plain(t, "read", o, v.clock[t]) /\ v.clock[t] \in Nat
      BY <1>0, <2>2, <3>1, ReadStep
    <3> QED
      BY <3>1, <3>2
  <2>4. Find(t, o, value) /\ Advance(t)
    BY <2>2, <2>3 DEF DoRead
  <2>5. /\ pc'[Pub] = pc[Pub] /\ pc'[Sub] = pc[Sub] + 1 /\ register'[Sub][o] = value
        /\ \A x \in Objects \ {o} : register'[Sub][x] = register[Sub][x]
    <3>1. pc'[Pub] = pc[Pub] /\ pc'[Sub] = pc[Sub] + 1
      BY <1>0, <1>2, <1>13, <2>4, AdvanceStep
    <3>2. /\ register'[t][o] = value
          /\ \A x \in Objects \ {o} : register'[t][x] = register[t][x]
      BY <1>0, <2>3, <2>4, FindStep
    <3> QED
      BY <1>13, <3>1, <3>2
  <2>6. /\ register[Sub][Flag] = 1 /\ Announces(view[Sub])
    <3>1. pc[Sub] > 2
      BY <1>4, <1>13
    <3> QED
      BY <1>0, <3>1 DEF SubFound, SubKnows
  <2>7. pc[Pub] > 1 /\ Len(history[Datum]) = 2 /\ history[Datum][2].value = 1
    BY <1>0, <2>6 DEF There, Announces
  <2>8. /\ v \in Views /\ KnowsAll(v, view[t]) /\ view'[t] = v
        /\ v.seen[Datum] <= 2 /\ history' = history
        /\ \A u \in Threads \ {t} : view'[u] = view[u]
    <3>1. v.seen[Datum] <= Len(history[Datum])
      BY <1>2, <2>3 DEF Looks, Within, Objects
    <3> QED
      BY <1>0, <2>3, <2>7, <3>1 DEF Looks, MemoryTypes
  <2>9. accesses'[Datum][Pub] = accesses[Datum][Pub] /\ accesses'[Datum][Sub].write = 0
    <3>1. /\ \A k \in {"read", "write"} \ {"read"} : accesses'[o][t][k] = accesses[o][t][k]
          /\ \A u \in Threads \ {t} : accesses'[o][u] = accesses[o][u]
          /\ \A x \in Objects \ {o} : accesses'[x] = accesses[x]
      BY <1>0, <2>3, PlainKeeps
    <3>2. accesses'[o][t].write = accesses[o][t].write
      BY <3>1
    <3> QED
      BY <1>2, <1>6, <1>13, <3>1, <3>2
  <2>10. races' \subseteq {"data"}
    <3>1. CASE o = "data"
      BY <1>0, <2>3, <3>1 DEF Plain
    <3>2. CASE o = Datum
      <4>1. \A u \in Threads \ {t} : accesses[o][u].write <= view[t].clock[u]
        BY <1>2, <1>13, <2>6, <3>2 DEF Announces
      <4> QED
        BY <1>0, <2>3, <4>1 DEF Plain
    <3> QED
      BY <2>1, <2>3, <3>1, <3>2
  <2>11. \A w : Announces(w) => Announces(w)'
    BY <1>1, <2>5, <2>9 DEF Announces
  <2>12. Announces(v)
    BY <1>0, <1>5, <1>13, <2>6, <2>8, AnnouncesMore
  <2>13. Announces(view[Sub])'
    BY <1>1, <1>13, <2>5, <2>8, <2>9, <2>12 DEF Announces
  <2>14. NotThere' /\ There'
    <3>1. Announces(view[Pub])
      BY <1>0, <2>7 DEF There
    <3>2. Announces(view[Pub])'
      BY <1>1, <1>2, <1>13, <2>5, <2>8, <2>9, <3>1 DEF Announces
    <3> QED
      BY <1>1, <2>5, <2>7, <2>8, <3>2 DEF There, NotThere
  <2>15. FlagAnnounces'
    BY <1>8, <2>8, <2>11
  <2>16. SubKnows'
    BY <1>1, <2>9, <2>13 DEF SubKnows
  <2>17. SubFound'
    <3>1. Flag # o
      BY <1>2, <2>1, <2>3
    <3>2. register'[Sub][Flag] = 1
      BY <1>2, <2>5, <2>6, <3>1
    <3>3. register'[Sub][Datum] = 1
      <4>1. CASE o = Datum
        <5>1. i = 2
          <6>1. Len(history[o]) = 2
            BY <2>7, <4>1
          <6>2. view[t].seen[o] = 2
            BY <1>13, <2>6, <4>1 DEF Announces
          <6>3. i \in 1 .. 2 /\ i >= 2
            BY <2>3, <6>1, <6>2
          <6> QED
            BY <6>3
        <5> QED
          BY <2>3, <2>5, <2>7, <4>1, <5>1
      <4>2. CASE o # Datum
        <5>1. pc[Sub] = 4
          BY <1>13, <2>1, <2>3, <4>2
        <5>2. register[Sub][Datum] = 1
          BY <1>0, <5>1 DEF SubFound
        <5> QED
          BY <1>2, <2>5, <4>2, <5>2
      <4> QED
        BY <4>1, <4>2
    <3> QED
      BY <1>1, <3>2, <3>3 DEF SubFound
  <2> QED
    BY <1>0, <2>10, <2>14, <2>15, <2>16, <2>17 DEF PublishedInv
<1> QED
  BY <1>2, <1>9, <1>10, <1>11, <1>12, <1>13
-----------------------------------------------------------------------------
(* Two flags, seen in one order                                             *)

LEMMA AddedNewest ==
    ASSUME MemoryTypes, NEW t \in Threads, NEW o \in Objects, NEW v, NEW store,
           Adds(t, o, v, store)
    PROVE  Newest(o)' = store /\ \A x \in Objects \ {o} : Newest(x)' = Newest(x)
BY Added DEF Newest

Readers == {3, 4}
First(t) == IF t = 3 THEN "x" ELSE "y"
Second(t) == IF t = 3 THEN "y" ELSE "x"

LEMMA IriwCode ==
    ASSUME MemoryInv, program = "iriw"
    PROVE  /\ Threads = 1 .. 4
           /\ "x" \in Objects /\ "y" \in Objects /\ "z" \in Objects
           /\ \A t \in Readers : Len(Code[program][t]) = 5
           /\ \A t \in Threads : ~ AtEnd(t) =>
                LET a == Current(t) IN
                \/ /\ t \in {1, 2} /\ a.op = "store" /\ a.object \in {"x", "y"} /\ a.value = 1
                \/ /\ t \in Readers /\ pc[t] = 1
                   /\ a.op = "load" /\ a.object = First(t) /\ a.order = "seq_cst"
                \/ /\ t \in Readers /\ pc[t] = 2
                   /\ a.op = "go_unless" /\ a.object = First(t) /\ a.value = 1 /\ a.order = 1
                \/ /\ t \in Readers /\ pc[t] = 3
                   /\ a.op = "load" /\ a.object = Second(t) /\ a.order = "seq_cst"
                \/ /\ t \in Readers /\ pc[t] = 4
                   /\ a.op = "go_unless" /\ a.object = Second(t) /\ a.value = 1 /\ a.order = 6
                \/ /\ t \in Readers /\ pc[t] = 5
                   /\ a.op = "fetch_add" /\ a.object = "z" /\ a.value = 1
<1>1. PICK sc : sc = "seq_cst"
  OBVIOUS
<1>2. /\ DOMAIN Code[program] = 1 .. 4
      /\ Code[program][1] = write("x", sc) /\ Code[program][2] = write("y", sc)
      /\ Code[program][3] = read_then("x", "y", sc) /\ Code[program][4] = read_then("y", "x", sc)
  BY <1>1, OtherCode DEF WritersAndReaders, SequentiallyConsistent
<1>3. ASSUME NEW a, NEW b
      PROVE  /\ DOMAIN write(a, sc) = 1 .. 1 /\ Len(write(a, sc)) = 1
             /\ write(a, sc)[1] = Store(a, 1, sc)
             /\ DOMAIN read_then(a, b, sc) = 1 .. 5 /\ Len(read_then(a, b, sc)) = 5
             /\ read_then(a, b, sc)[1] = Load(a, sc) /\ read_then(a, b, sc)[2] = GoUnless(a, 1, 1)
             /\ read_then(a, b, sc)[3] = Load(b, sc) /\ read_then(a, b, sc)[4] = GoUnless(b, 1, 6)
             /\ read_then(a, b, sc)[5] = FetchAdd("z", 1, "seq_cst")
  BY DEF write, read_then
<1>4. Threads = 1 .. 4
  BY <1>2 DEF Threads
<1>5. "x" \in Objects /\ "y" \in Objects /\ "z" \in Objects
  <2>1. /\ Code[program][3][1].object = "x" /\ Code[program][4][1].object = "y"
        /\ Code[program][3][5].object = "z"
        /\ 1 \in DOMAIN Code[program][3] /\ 1 \in DOMAIN Code[program][4]
        /\ 5 \in DOMAIN Code[program][3]
        /\ 3 \in DOMAIN Code[program] /\ 4 \in DOMAIN Code[program]
    <3>1. /\ Code[program][3][1] = Load("x", sc) /\ Code[program][4][1] = Load("y", sc)
          /\ Code[program][3][5] = FetchAdd("z", 1, "seq_cst")
          /\ DOMAIN Code[program][3] = 1 .. 5 /\ DOMAIN Code[program][4] = 1 .. 5
      BY <1>2, <1>3
    <3> QED
      BY <1>2, <3>1 DEF Load, FetchAdd, Access
  <2>2. "x" \in ObjectsOf(program) /\ "y" \in ObjectsOf(program) /\ "z" \in ObjectsOf(program)
    BY <2>1 DEF ObjectsOf
  <2> QED
    BY <2>2 DEF MemoryInv, MemoryTypes, Objects
<1>6. \A t \in Readers : Len(Code[program][t]) = 5
  BY <1>2, <1>3 DEF Readers
<1>7. ASSUME NEW t \in Threads, ~ AtEnd(t)
      PROVE  LET a == Current(t) IN
                \/ /\ t \in {1, 2} /\ a.op = "store" /\ a.object \in {"x", "y"} /\ a.value = 1
                \/ /\ t \in Readers /\ pc[t] = 1
                   /\ a.op = "load" /\ a.object = First(t) /\ a.order = "seq_cst"
                \/ /\ t \in Readers /\ pc[t] = 2
                   /\ a.op = "go_unless" /\ a.object = First(t) /\ a.value = 1 /\ a.order = 1
                \/ /\ t \in Readers /\ pc[t] = 3
                   /\ a.op = "load" /\ a.object = Second(t) /\ a.order = "seq_cst"
                \/ /\ t \in Readers /\ pc[t] = 4
                   /\ a.op = "go_unless" /\ a.object = Second(t) /\ a.value = 1 /\ a.order = 6
                \/ /\ t \in Readers /\ pc[t] = 5
                   /\ a.op = "fetch_add" /\ a.object = "z" /\ a.value = 1
  <2>1. /\ Current(t) = Code[program][t][pc[t]] /\ pc[t] \in 1 .. Len(Code[program][t])
    BY <1>7, CurrentAccess DEF MemoryInv
  <2>2. CASE t \in {1, 2}
    <3>1. Len(Code[program][t]) = 1 /\ Code[program][t][1] \in {Store("x", 1, sc), Store("y", 1, sc)}
      BY <1>2, <1>3, <2>2
    <3>2. pc[t] = 1
      BY <2>1, <3>1
    <3> QED
      BY <2>1, <2>2, <3>1, <3>2 DEF Store, Access
  <2>3. CASE t \in Readers
    <3>1. Code[program][t] = read_then(First(t), Second(t), sc)
      BY <1>2, <2>3 DEF Readers, First, Second
    <3>2. pc[t] = 1 \/ pc[t] = 2 \/ pc[t] = 3 \/ pc[t] = 4 \/ pc[t] = 5
      <4>1. Len(Code[program][t]) = 5
        BY <1>3, <3>1
      <4>2. pc[t] \in 1 .. 5
        BY <2>1, <4>1
      <4> QED
        BY <4>2
    <3>3. /\ pc[t] = 1 => Current(t) = Load(First(t), sc)
          /\ pc[t] = 2 => Current(t) = GoUnless(First(t), 1, 1)
          /\ pc[t] = 3 => Current(t) = Load(Second(t), sc)
          /\ pc[t] = 4 => Current(t) = GoUnless(Second(t), 1, 6)
          /\ pc[t] = 5 => Current(t) = FetchAdd("z", 1, "seq_cst")
      BY <1>3, <2>1, <3>1
    <3> QED
      BY <1>1, <2>3, <3>2, <3>3 DEF Load, GoUnless, FetchAdd, Access
  <2> QED
    BY <1>4, <2>2, <2>3 DEF Readers
<1> QED
  BY <1>4, <1>5, <1>6, <1>7

(* Reader t found the second flag raised, and has counted it in z.          *)
Counted(t) == IF pc[t] = 6 /\ register[t][Second(t)] = 1 THEN 1 ELSE 0

FirstRaised ==
    \A t \in Readers :
      /\ pc[t] \in 1 .. 6
      /\ register[t][First(t)] = 1 \/ pc[t] >= 3 => Newest(First(t)).value = 1
      /\ pc[t] = 5 => register[t][Second(t)] = 1
NotBothMiss == \E t \in Readers : ~ (pc[t] >= 4 /\ register[t][Second(t)] # 1)

IriwInv ==
    /\ MemoryInv /\ program = "iriw"
    /\ FirstRaised /\ NotBothMiss
    /\ Newest("z").value = Counted(3) + Counted(4)

LEMMA IriwInvInit == Init /\ program = "iriw" => IriwInv
<1> SUFFICES ASSUME Init, program = "iriw" PROVE IriwInv
  OBVIOUS
<1>1. MemoryInv
  BY MemoryInvInit
<1>2. /\ Threads = 1 .. 4 /\ Objects = ObjectsOf(program)
      /\ "x" \in Objects /\ "y" \in Objects /\ "z" \in Objects
  BY <1>1, IriwCode DEF MemoryInv, MemoryTypes, Objects
<1>3. PICK V : V = InitialView(ObjectsOf(program), Threads)
  OBVIOUS
<1>4. /\ history = [o \in Objects |-> InitialHistory(V)]
      /\ register = [t \in Threads |-> [o \in Objects |-> 0]]
      /\ pc = [t \in Threads |-> 1]
  BY <1>2, <1>3 DEF Init
<1>5. Newest("z").value = 0
  BY <1>2, <1>4 DEF InitialHistory, Newest
<1>6. \A t \in Readers : /\ pc[t] = 1 /\ register[t][First(t)] = 0 /\ register[t][Second(t)] = 0
                         /\ Counted(t) = 0
  BY <1>2, <1>4 DEF Readers, First, Second, Counted
<1>7. FirstRaised /\ NotBothMiss
  BY <1>6 DEF FirstRaised, NotBothMiss, Readers
<1> QED
  BY <1>1, <1>5, <1>6, <1>7 DEF IriwInv, Readers

LEMMA IriwInvStep ==
    ASSUME IriwInv, NEW t \in Threads, Moves(t)
    PROVE  IriwInv'
<1>0. /\ MemoryInv /\ MemoryTypes /\ program = "iriw" /\ FirstRaised /\ NotBothMiss
      /\ MemoryInv' /\ program' = program /\ Objects' = Objects /\ Threads' = Threads
  BY MemoryInvMoves DEF IriwInv, MemoryInv
<1>1. /\ Threads = 1 .. 4 /\ "x" \in Objects /\ "y" \in Objects /\ "z" \in Objects
      /\ Readers \subseteq Threads
  BY <1>0, IriwCode DEF Readers
<1>2. ~ AtEnd(t)
  BY DEF Moves, DoLoad, DoRead, DoStore, DoReadModifyWrite, DoWrite, Branch, IsAt
<1>3. \A u \in Threads : pc[u] \in Nat /\ pc'[u] \in Nat
  BY <1>0 DEF MemoryInv, MemoryTypes
<1>4. \A u \in Readers : First(u) \in Objects /\ Second(u) \in Objects /\ First(u) # Second(u)
                         /\ First(u) # "z" /\ Second(u) # "z"
  BY <1>1 DEF First, Second
<1>5. CASE t \in {1, 2}
  <2>1. DoStore(t) /\ Current(t).object \in {"x", "y"} /\ Current(t).value = 1
    BY <1>0, <1>2, <1>5, IriwCode
       DEF Readers, Moves, DoLoad, DoRead, DoStore, DoReadModifyWrite, DoWrite, Branch, IsAt
  <2>2. PICK o \in {"x", "y"}, v \in Views, store \in Stores :
          Adds(t, o, v, store) /\ store.value = 1
    BY <1>0, <2>1, StoreStep
  <2>3. Newest(o)' = store /\ \A x \in Objects \ {o} : Newest(x)' = Newest(x)
    BY <1>0, <1>1, <2>2, AddedNewest
  <2>4. Advance(t) /\ register' = register
    BY <2>1 DEF DoStore
  <2>5. \A u \in Readers : pc'[u] = pc[u] /\ Counted(u)' = Counted(u)
    <3>1. \A u \in Readers : pc'[u] = pc[u]
      BY <1>0, <1>1, <1>5, <2>4, AdvanceStep DEF Readers
    <3> QED
      BY <2>4, <3>1 DEF Counted
  <2>6. \A x \in {"x", "y"} : Newest(x).value = 1 => Newest(x)'.value = 1
    BY <1>1, <2>2, <2>3
  <2>7. FirstRaised' /\ NotBothMiss'
    BY <1>0, <2>4, <2>5, <2>6 DEF FirstRaised, NotBothMiss, First
  <2>8. Newest("z")'.value = Counted(3)' + Counted(4)'
    BY <1>1, <2>2, <2>3, <2>5 DEF IriwInv, Readers
  <2> QED
    BY <1>0, <2>7, <2>8 DEF IriwInv
<1>6. CASE t \in Readers
  <2>1. PICK s \in Readers : s # t /\ First(s) = Second(t) /\ Second(s) = First(t)
                             /\ \A u \in Readers : u = s \/ u = t
    BY <1>6 DEF Readers, First, Second
  <2>2. Counted(3) + Counted(4) = Counted(s) + Counted(t)
        /\ Counted(3)' + Counted(4)' = Counted(s)' + Counted(t)'
    <3>1. (t = 3 /\ s = 4) \/ (t = 4 /\ s = 3)
      BY <1>6, <2>1 DEF Readers
    <3>2. Counted(3) \in Nat /\ Counted(4) \in Nat /\ Counted(3)' \in Nat /\ Counted(4)' \in Nat
      BY DEF Counted
    <3> QED
      BY <3>1, <3>2
  <2>3. s \in Threads /\ pc'[s] = pc[s] /\ register'[s] = register[s]
    <3>1. s \in Threads
      BY <1>1
    <3>2. pc'[s] = pc[s]
      BY <1>0, <2>1, <3>1, AdvanceStep, BranchStep
         DEF Moves, DoLoad, DoRead, DoStore, DoReadModifyWrite, DoWrite
    <3>3. register'[s] = register[s]
      BY <1>0, <2>1, <3>1
         DEF Moves, DoLoad, DoRead, DoStore, DoReadModifyWrite, DoWrite, Branch, Find, MemoryTypes
    <3> QED
      BY <3>1, <3>2, <3>3
  <2>4. Counted(s)' = Counted(s)
    BY <2>3 DEF Counted
  <2>5. /\ pc[t] \in 1 .. 6 /\ pc[s] \in 1 .. 6
        /\ register[t][First(t)] = 1 \/ pc[t] >= 3 => Newest(First(t)).value = 1
        /\ pc[t] = 5 => register[t][Second(t)] = 1
        /\ register[s][First(s)] = 1 \/ pc[s] >= 3 => Newest(First(s)).value = 1
        /\ pc[s] = 5 => register[s][Second(s)] = 1
        /\ Newest("z").value = Counted(s) + Counted(t)
        /\ ~ (pc[t] >= 4 /\ register[t][Second(t)] # 1) \/ ~ (pc[s] >= 4 /\ register[s][Second(s)] # 1)
    <3>1. NotBothMiss => ~ (pc[t] >= 4 /\ register[t][Second(t)] # 1)
                         \/ ~ (pc[s] >= 4 /\ register[s][Second(s)] # 1)
      BY <2>1 DEF NotBothMiss
    <3> QED
      BY <1>0, <1>6, <2>2, <3>1 DEF FirstRaised, IriwInv
  <2>6. ASSUME /\ pc'[t] \in 1 .. 6
               /\ register'[t][First(t)] = 1 \/ pc'[t] >= 3 => Newest(First(t))'.value = 1
               /\ pc'[t] = 5 => register'[t][Second(t)] = 1
               /\ Newest(First(s)).value = 1 => Newest(First(s))'.value = 1
               /\ Newest("z")'.value = Counted(s) + Counted(t)'
               /\ ~ (pc'[t] >= 4 /\ register'[t][Second(t)] # 1)
                  \/ ~ (pc[s] >= 4 /\ register[s][Second(s)] # 1)
        PROVE  IriwInv'
    <3>1. FirstRaised'
      <4> SUFFICES ASSUME NEW u \in Readers
                   PROVE  /\ pc'[u] \in 1 .. 6
                          /\ register'[u][First(u)] = 1 \/ pc'[u] >= 3 => Newest(First(u))'.value = 1
                          /\ pc'[u] = 5 => register'[u][Second(u)] = 1
        BY DEF FirstRaised, First, Second
      <4>1. CASE u = t
        BY <2>6, <4>1
      <4>2. CASE u = s
        BY <2>3, <2>5, <2>6, <4>2
      <4> QED
        BY <2>1, <4>1, <4>2
    <3>2. NotBothMiss'
      BY <1>6, <2>3, <2>6 DEF NotBothMiss, Second
    <3> QED
      BY <1>0, <2>2, <2>4, <2>6, <3>1, <3>2 DEF IriwInv
  <2>7. CASE pc[t] = 1 \/ pc[t] = 3
    <3>1. PICK i \in Nat \ {0}, o \in {First(t), Second(t)} :
            /\ DoLoad(t, i) /\ Current(t).object = o /\ Current(t).order = "seq_cst"
            /\ o = IF pc[t] = 1 THEN First(t) ELSE Second(t)
      BY <1>0, <1>2, <1>6, <2>7, IriwCode
         DEF Readers, Moves, DoLoad, DoRead, DoStore, DoReadModifyWrite, DoWrite, Branch, IsAt
    <3>2. /\ i = Len(history[o]) /\ history[o][i].value \in Nat
          /\ \E v \in Views : Looks(t, v)
      BY <1>0, <3>1, LoadStep
    <3>3. PICK value \in Nat : value = Newest(o).value
      BY <3>2 DEF Newest
    <3>4. Find(t, o, value) /\ Advance(t) /\ history' = history
      BY <3>1, <3>2, <3>3 DEF DoLoad, Newest
    <3>5. o \in Objects
      BY <1>4, <1>6
    <3>6. /\ register'[t][o] = value /\ \A x \in Objects \ {o} : register'[t][x] = register[t][x]
          /\ pc'[t] = pc[t] + 1
      BY <1>0, <3>4, <3>5, AdvanceStep, FindStep
    <3>7. \A x : Newest(x)' = Newest(x)
      BY <3>4 DEF Newest
    <3>8. Counted(t) = 0 /\ Counted(t)' = 0
      BY <2>7, <3>6 DEF Counted
    <3>9. CASE pc[t] = 1
      <4>1. o = First(t) /\ register'[t][First(t)] = value /\ pc'[t] = 2
        BY <3>1, <3>6, <3>9
      <4> QED
        BY <2>5, <2>6, <3>3, <3>7, <3>8, <4>1
    <3>10. CASE pc[t] = 3
      <4>1. /\ o = Second(t) /\ register'[t][Second(t)] = value /\ pc'[t] = 4
            /\ register'[t][First(t)] = register[t][First(t)]
        BY <1>4, <1>6, <3>1, <3>6, <3>10
      <4>2. ~ (register'[t][Second(t)] # 1) \/ ~ (pc[s] >= 4)
        BY <2>1, <2>5, <3>3, <4>1
      <4> QED
        BY <2>5, <2>6, <3>7, <3>8, <3>10, <4>1, <4>2
    <3> QED
      BY <2>7, <3>9, <3>10
  <2>8. CASE pc[t] = 2 \/ pc[t] = 4
    <3>1. /\ Branch(t) /\ Current(t).value = 1
          /\ Current(t).object = IF pc[t] = 2 THEN First(t) ELSE Second(t)
          /\ Current(t).order = IF pc[t] = 2 THEN 1 ELSE 6
      BY <1>0, <1>2, <1>6, <2>8, IriwCode
         DEF Readers, Moves, DoLoad, DoRead, DoStore, DoReadModifyWrite, DoWrite, Branch, IsAt
    <3>2. register' = register /\ history' = history
      BY <3>1 DEF Branch
    <3>3. \A x : Newest(x)' = Newest(x)
      BY <3>2 DEF Newest
    <3>4. pc'[t] = IF register[t][Current(t).object] = Current(t).value
                   THEN pc[t] + 1 ELSE Current(t).order
      BY <1>0, <3>1, BranchStep
    <3>5. CASE pc[t] = 2
      <4>1. pc'[t] = IF register[t][First(t)] = 1 THEN 3 ELSE 1
        BY <3>1, <3>4, <3>5
      <4>2. Counted(t) = 0 /\ Counted(t)' = 0
        BY <3>5, <4>1 DEF Counted
      <4> QED
        BY <2>5, <2>6, <3>2, <3>3, <4>1, <4>2
    <3>6. CASE pc[t] = 4
      <4>1. pc'[t] = IF register[t][Second(t)] = 1 THEN 5 ELSE 6
        BY <3>1, <3>4, <3>6
      <4>2. Counted(t) = 0 /\ Counted(t)' = 0
        BY <3>2, <3>6, <4>1 DEF Counted
      <4> QED
        BY <2>5, <2>6, <3>2, <3>3, <3>6, <4>1, <4>2
    <3> QED
      BY <2>8, <3>5, <3>6
  <2>9. CASE pc[t] = 5
    <3>1. /\ DoReadModifyWrite(t) /\ Current(t).op = "fetch_add" /\ Current(t).object = "z"
          /\ Current(t).value = 1
      BY <1>0, <1>2, <1>6, <2>9, IriwCode
         DEF Readers, Moves, DoLoad, DoRead, DoStore, DoReadModifyWrite, DoWrite, Branch, IsAt
    <3>2. PICK v \in Views, store \in Stores :
            /\ Newest("z") \in Stores /\ Adds(t, "z", v, store)
            /\ store.value = Newest("z").value + 1
      BY <1>0, <3>1, ReadModifyWriteStep
    <3>3. Newest("z")' = store /\ \A x \in Objects \ {"z"} : Newest(x)' = Newest(x)
      BY <1>0, <1>1, <3>2, AddedNewest
    <3>4. PICK value \in Nat : value = Newest("z").value
      BY <3>2 DEF Stores, StoresOf
    <3>5. Find(t, "z", value) /\ Advance(t)
      BY <3>1, <3>4 DEF DoReadModifyWrite
    <3>6. /\ pc'[t] = 6 /\ \A x \in Objects \ {"z"} : register'[t][x] = register[t][x]
      BY <1>0, <1>1, <2>9, <3>5, AdvanceStep, FindStep
    <3>7. register'[t][First(t)] = register[t][First(t)] /\ register'[t][Second(t)] = 1
          /\ Newest(First(t))' = Newest(First(t)) /\ Newest(First(s))' = Newest(First(s))
      BY <1>4, <1>6, <2>5, <2>9, <3>3, <3>6
    <3>8. Counted(t) = 0 /\ Counted(t)' = 1
      BY <2>9, <3>6, <3>7 DEF Counted, Second
    <3>9. Counted(s) \in Nat
      BY DEF Counted
    <3> QED
      BY <2>5, <2>6, <2>9, <3>2, <3>3, <3>6, <3>7, <3>8, <3>9
  <2>10. pc[t] # 6
    BY <1>0, <1>2, <1>6, IriwCode DEF Readers
  <2> QED
    BY <2>5, <2>7, <2>8, <2>9, <2>10
<1> QED
  BY <1>1, <1>5, <1>6 DEF Readers
-----------------------------------------------------------------------------
(* All programs together                                                    *)

atomics == DOMAIN Code \ (locked \cup published \cup {"unlocked"})

LEMMA AtomicsOnly ==
    ASSUME MemoryInv, program \in atomics, NEW t \in Threads, ~ AtEnd(t)
    PROVE  Current(t).op \notin {"read", "write", "write_next"}
<1> DEFINE plain == {"read", "write", "write_next"}
<1>0. /\ Current(t) = Code[program][t][pc[t]] /\ pc[t] \in 1 .. Len(Code[program][t])
      /\ t \in DOMAIN Code[program]
  BY CurrentAccess DEF MemoryInv, Threads
<1>1. CASE program = "atomic"
  BY <1>0, <1>1, AtomicCode DEF FetchAdd, Access
<1>2. CASE program = "progress"
  <2>1. t = 1 \/ t = 2
    BY <1>0, <1>2, ProgressCode
  <2>2. CASE t = 1
    <3>1. Current(t) = Store("progress", pc[t], "relaxed")
      BY <1>0, <1>2, <2>2, ProgressCode
    <3> QED
      BY <3>1 DEF Store, Access
  <2>3. CASE t = 2
    <3>1. Code[program][t] = << Load("progress", "relaxed"), GoUnless("progress", NUM_ITEMS, 1) >>
      BY <1>2, <2>3, ProgressCode
    <3>2. Current(t) \in {Load("progress", "relaxed"), GoUnless("progress", NUM_ITEMS, 1)}
      BY <1>0, <3>1
    <3> QED
      BY <3>2 DEF Load, GoUnless, Access
  <2> QED
    BY <2>1, <2>2, <2>3
<1>3. CASE program = "statistics"
  <2>1. t = 1 \/ t = 2
    BY <1>0, <1>3, StatisticsCode
  <2>2. CASE t = 1
    <3>1. PICK k \in Nat, place \in 1 .. 9 : Current(t) = StatisticsItem(k)[place]
      <4>1. pc[t] \in 1 .. 9 * NUM_ITEMS
        BY <1>0, <1>3, <2>2, StatisticsCode
      <4>2. PICK k \in Nat, place \in 1 .. 9 :
              k = ((pc[t] - 1) \div 9) + 1 /\ place = ((pc[t] - 1) % 9) + 1
        BY <4>1, SizesAssumption
      <4>3. Current(t) = StatisticsItem(k)[place]
        BY <1>0, <1>3, <2>2, <4>1, <4>2, StatisticsCode
      <4> QED
        BY <4>3
    <3>2. StatisticsItem(k)[place].op \notin plain
      BY <3>1 DEF StatisticsItem, FetchAdd, Load, Store, Access
    <3> QED
      BY <3>1, <3>2
  <2>3. CASE t = 2
    <3>1. Code[program][t] = StatisticsSeen
      BY <1>3, <2>3, StatisticsCode
    <3>2. \A i \in 1 .. Len(StatisticsSeen) : StatisticsSeen[i].op \notin plain
      BY DEF StatisticsSeen, Load, GoUnless, Access
    <3> QED
      BY <1>0, <3>1, <3>2
  <2> QED
    BY <2>1, <2>2, <2>3
<1>4. CASE program = "init_once"
  <2>1. Code[program][t] = InitOnce(t)
    BY <1>0, <1>4, InitOnceCode
  <2>2. \A i \in 1 .. Len(InitOnce(t)) : InitOnce(t)[i].op \notin plain
    BY DEF InitOnce, Load, GoUnless, CompareExchange, Access
  <2> QED
    BY <1>0, <2>1, <2>2
<1>5. CASE program \in {"iriw", "iriw_acq_rel"}
  <2>1. PICK order : Code[program] = WritersAndReaders(order)
    BY <1>5, OtherCode
  <2>2. \A a, b, c : /\ \A i \in 1 .. Len(write(a, c)) : write(a, c)[i].op \notin plain
                     /\ \A i \in 1 .. Len(read_then(a, b, c)) : read_then(a, b, c)[i].op \notin plain
    BY DEF write, read_then, Load, Store, GoUnless, FetchAdd, Access
  <2>3. \E a, b, c : Code[program][t] = write(a, c) \/ Code[program][t] = read_then(a, b, c)
    <3>1. t \in 1 .. 4
      BY <1>0, <2>1 DEF WritersAndReaders
    <3> QED
      BY <2>1, <3>1 DEF WritersAndReaders
  <2> QED
    BY <1>0, <2>2, <2>3
<1>6. CASE program = "store_buffer"
  <2>1. \A a, b : \A i \in 1 .. Len(write_then_read(a, b)) : write_then_read(a, b)[i].op \notin plain
    BY DEF write_then_read, Load, Store, GoUnless, FetchAdd, Access
  <2>2. \E a, b : Code[program][t] = write_then_read(a, b)
    <3>1. t \in 1 .. 2
      BY <1>0, <1>6, OtherCode
    <3> QED
      BY <1>6, <3>1, OtherCode
  <2> QED
    BY <1>0, <2>1, <2>2
<1> QED
  BY <1>1, <1>2, <1>3, <1>4, <1>5, <1>6 DEF atomics, locked, published, Code

LEMMA UnlockedObjects == ObjectsOf("unlocked") \subseteq {"counter"}
<1>1. \A t \in DOMAIN Code["unlocked"] : \A i \in DOMAIN Code["unlocked"][t] :
        Code["unlocked"][t][i].object = "counter"
  BY UnlockedCode DEF Read, WriteNext, Access
<1> QED
  BY <1>1 DEF ObjectsOf

ProgramInv ==
    /\ MemoryInv
    /\ program \in locked => LockedInv
    /\ program \in published => PublishedInv
    /\ program = "iriw" => IriwInv
    /\ program \in atomics => races = {}

LEMMA ProgramInvInit == Init => ProgramInv
BY MemoryInvInit, LockedInvInit, PublishedInvInit, IriwInvInit DEF ProgramInv, Init

LEMMA MemoryInvStutter == MemoryInv /\ UNCHANGED vars => MemoryInv'
BY DEF MemoryInv, MemoryTypes, ViewsWithin, Within, Views, Stores, Objects, Threads, vars

LEMMA ProgramInvStutter == ProgramInv /\ UNCHANGED vars => ProgramInv'
<1> SUFFICES ASSUME ProgramInv, UNCHANGED vars PROVE ProgramInv'
  OBVIOUS
<1>1. MemoryInv'
  BY MemoryInvStutter DEF ProgramInv
<1>2. LockedInv => LockedInv'
  BY <1>1 DEF LockedInv, LockedPlace, OneHolder, LockTaken, HolderKnows, LockKnows, Knows,
              Holds, TheLock, Newest, Threads, vars
<1>3. PublishedInv => PublishedInv'
  BY <1>1 DEF PublishedInv, NotThere, There, FlagAnnounces, SubKnows, SubFound, Announces,
              Pub, Sub, Flag, Datum, Threads, vars
<1>4. IriwInv => IriwInv'
  BY <1>1 DEF IriwInv, FirstRaised, NotBothMiss, Counted, Newest, First, Second, vars
<1> QED
  BY <1>1, <1>2, <1>3, <1>4 DEF ProgramInv, vars

LEMMA ProgramInvStep == ProgramInv /\ [Next]_vars => ProgramInv'
<1> SUFFICES ASSUME ProgramInv, [Next]_vars PROVE ProgramInv'
  OBVIOUS
<1>1. CASE UNCHANGED vars
  BY <1>1, ProgramInvStutter
<1>2. ASSUME NEW t \in AnyThread, Step(t) PROVE ProgramInv'
  <2>1. t \in Threads /\ Moves(t)
    BY <1>2, StepMoves
  <2>2. MemoryInv' /\ program' = program
    BY <2>1, MemoryInvMoves DEF ProgramInv
  <2>3. program \in locked => LockedInv'
    BY <2>1, LockedInvStep DEF ProgramInv
  <2>4. program \in published => PublishedInv'
    BY <2>1, PublishedInvStep DEF ProgramInv
  <2>5. program = "iriw" => IriwInv'
    BY <2>1, IriwInvStep DEF ProgramInv
  <2>6. ASSUME program \in atomics PROVE races' = races
    <3>1. ~ AtEnd(t)
      BY <2>1 DEF Moves, DoLoad, DoRead, DoStore, DoReadModifyWrite, DoWrite, Branch, IsAt
    <3>2. Current(t).op \notin {"read", "write", "write_next"}
      BY <2>1, <2>6, <3>1, AtomicsOnly DEF ProgramInv
    <3> QED
      BY <2>1, <3>2 DEF Moves, DoLoad, DoRead, DoStore, DoReadModifyWrite, DoWrite, Branch, IsAt
  <2> QED
    BY <2>2, <2>3, <2>4, <2>5, <2>6 DEF ProgramInv
<1> QED
  BY <1>1, <1>2 DEF Next, Joined

LEMMA ProgramInvHolds == Spec => []ProgramInv
<1>1. Init => ProgramInv
  BY ProgramInvInit
<1>2. ProgramInv /\ [Next]_vars => ProgramInv'
  BY ProgramInvStep
<1> QED
  BY <1>1, <1>2, PTL DEF Spec

(* No plain access races with another one, but those of chapter 4's counter *)
(* without a lock and of the data that is written after the release store:  *)
(* for every number of threads and of iterations, who holds a lock knows of *)
(* every access of the counter made before, and who has found a flag raised *)
(* knows of the write of what it announces.                                 *)
THEOREM OnlyKnownRaces == Spec => []NoDataRace
<1>1. ProgramInv => NoDataRace
  <2> SUFFICES ASSUME ProgramInv PROVE NoDataRace
    OBVIOUS
  <2>1. program \in DOMAIN Code /\ races \subseteq Objects /\ Objects = ObjectsOf(program)
    BY DEF ProgramInv, MemoryInv, MemoryTypes, Objects
  <2>2. CASE program \in locked
    BY <2>2 DEF ProgramInv, LockedInv, NoDataRace
  <2>3. CASE program = "message"
    <3>1. races \subseteq {"data"} /\ "data" \notin Objects
      BY <2>3, PublishedCode DEF ProgramInv, PublishedInv, published
    <3> QED
      BY <2>1, <3>1 DEF NoDataRace
  <2>4. CASE program = "pointer"
    BY <2>4 DEF ProgramInv, PublishedInv, NoDataRace, published
  <2>5. CASE program = "unlocked"
    BY <2>1, <2>5, UnlockedObjects DEF NoDataRace
  <2>6. CASE program \in atomics
    BY <2>6 DEF ProgramInv, NoDataRace
  <2> QED
    BY <2>1, <2>2, <2>3, <2>4, <2>5, <2>6 DEF atomics, published
<1> QED
  BY <1>1, ProgramInvHolds, PTL

(* The readers of chapter_05/program_07 cannot both miss the flag that the  *)
(* other one saw raised; the message of program_06 and the text of          *)
(* program_08a are there when the reader, having seen the flag, reads them. *)
THEOREM FlagsSeenInOneOrder == Spec => []SeenInOneOrder
<1>1. ProgramInv => SeenInOneOrder
  <2> SUFFICES ASSUME ProgramInv, AllEnded
               PROVE  /\ program = "iriw" => Newest("z").value \in {1, 2}
                      /\ program = "message" => register[1]["message"] = 1
                      /\ program = "pointer" => register[2]["text"] = 1
    BY DEF SeenInOneOrder
  <2>1. ASSUME program = "iriw" PROVE Newest("z").value \in {1, 2}
    <3>1. IriwInv /\ MemoryInv
      BY <2>1 DEF ProgramInv
    <3>2. \A t \in Readers : pc[t] = 6
      <4>1. \A t \in Readers : t \in Threads /\ Len(Code[program][t]) = 5 /\ pc[t] \in 1 .. 6
        BY <2>1, <3>1, IriwCode DEF Readers, IriwInv, FirstRaised
      <4> SUFFICES ASSUME NEW t \in Readers PROVE pc[t] = 6
        OBVIOUS
      <4>2. t \in Threads /\ Len(Code[program][t]) = 5 /\ pc[t] \in 1 .. 6
        BY <4>1
      <4>3. pc[t] > 5
        BY <4>2 DEF AllEnded, AtEnd
      <4> QED
        BY <4>2, <4>3
    <3>3. \E t \in Readers : register[t][Second(t)] = 1
      BY <3>1, <3>2 DEF IriwInv, NotBothMiss
    <3> QED
      BY <3>1, <3>2, <3>3 DEF IriwInv, Counted, Readers
  <2>2. ASSUME program \in published PROVE register[Sub][Datum] = 1
    <3>1. PublishedInv /\ MemoryInv
      BY <2>2 DEF ProgramInv
    <3>2. Sub \in Threads /\ Len(Code[program][Sub]) \in {3, 4}
      BY <2>2, <3>1, PublishedCode
    <3>3. pc[Sub] \in Nat
      BY <3>1, <3>2 DEF MemoryInv, MemoryTypes
    <3>4. pc[Sub] > 3
      <4>1. PICK n \in {3, 4} : n = Len(Code[program][Sub])
        BY <3>2, Zenon
      <4>2. pc[Sub] > n
        BY <3>2, <4>1 DEF AllEnded, AtEnd
      <4> QED
        BY <3>3, <4>2
    <3> QED
      BY <3>1, <3>4 DEF PublishedInv, SubFound
  <2> QED
    BY <2>1, <2>2 DEF published, Sub, Datum
<1> QED
  BY <1>1, ProgramInvHolds, PTL
-----------------------------------------------------------------------------
(* What the counters end with                                               *)

counting == locked \cup {"atomic", "unlocked"}

Progressed(t) ==
    CASE program \in locked -> pc[t] \div 4
      [] program = "atomic" -> pc[t] - 1
      [] OTHER -> (pc[t] - 1) \div 2

(* The increments made so far, by all the threads.                          *)
Increments == Pairs([t \in Threads |-> Progressed(t)], Threads)
Incremented == Cardinality(Increments)

(* The holder of the lock adds one to what is there.                        *)
LockedCount ==
    /\ Newest("counter").value = Incremented
    /\ \A t \in Threads : pc[t] % 4 = 3 => register[t]["counter"] = Incremented

(* Without a lock, an increment may start from an older value, never from a *)
(* larger one.                                                              *)
UnlockedCount ==
    /\ \A i \in 1 .. Len(history["counter"]) : history["counter"][i].value <= Incremented
    /\ \A t \in Threads : register[t]["counter"] <= Incremented /\ pc[t] <= 2 * NUM_ITEMS + 1
    /\ Incremented > 0 => Newest("counter").value > 0

AtomicCount ==
    /\ Newest("counter").value = Incremented
    /\ \A t \in Threads : pc[t] <= NUM_ITEMS + 1

CounterInv ==
    /\ MemoryInv /\ program \in counting
    /\ IsFiniteSet(Increments)
    /\ program \in locked => LockedInv /\ LockedCount
    /\ program = "unlocked" => UnlockedCount
    /\ program = "atomic" => AtomicCount

LEMMA CountingCode ==
    ASSUME MemoryInv, program \in counting
    PROVE  /\ Threads = IF program = "workers" THEN 1 .. 3 ELSE 1 .. NUM_THREADS
           /\ "counter" \in Objects
           /\ \A t \in Threads : pc[t] \in Nat \ {0} /\ Progressed(t) \in Nat
           /\ \A t \in Threads : ~ AtEnd(t) =>
                /\ program = "atomic" =>
                     /\ pc[t] <= NUM_ITEMS
                     /\ Current(t) = FetchAdd("counter", 1, "relaxed")
                /\ program = "unlocked" =>
                     /\ pc[t] <= 2 * NUM_ITEMS
                     /\ Current(t) = IF pc[t] % 2 = 1 THEN Read("counter") ELSE WriteNext("counter")
           /\ \A t \in Threads : AtEnd(t) =>
                /\ program = "atomic" => pc[t] > NUM_ITEMS
                /\ program = "unlocked" => pc[t] > 2 * NUM_ITEMS
<1>1. Objects = ObjectsOf(program) /\ MemoryTypes
  BY DEF MemoryInv, MemoryTypes, Objects
<1>2. Threads = IF program = "workers" THEN 1 .. 3 ELSE 1 .. NUM_THREADS
  BY LockedCode, UnlockedCode, AtomicCode DEF Threads, counting, locked
<1>3. "counter" \in Objects
  <2>1. CASE program \in locked
    BY <1>1, <2>1, LockedObjects
  <2>2. CASE program = "atomic"
    <3>1. 1 \in DOMAIN Code[program] /\ 1 \in DOMAIN Code[program][1]
          /\ Code[program][1][1].object = "counter"
      BY <2>2, AtomicCode, SizesAssumption DEF FetchAdd, Access
    <3> QED
      BY <1>1, <3>1 DEF ObjectsOf
  <2>3. CASE program = "unlocked"
    <3>1. 1 \in DOMAIN Code[program] /\ 1 \in DOMAIN Code[program][1]
          /\ Code[program][1][1].object = "counter"
      BY <2>3, UnlockedCode, SizesAssumption DEF Read, WriteNext, Access
    <3> QED
      BY <1>1, <3>1 DEF ObjectsOf
  <2> QED
    BY <2>1, <2>2, <2>3 DEF counting
<1>4. \A t \in Threads : pc[t] \in Nat \ {0}
  BY <1>1 DEF MemoryTypes
<1>5. \A t \in Threads : Progressed(t) \in Nat
  <2> TAKE t \in Threads
  <2>1. PICK n \in Nat \ {0} : n = pc[t]
    BY <1>4
  <2>2. n \div 4 \in Nat /\ n - 1 \in Nat /\ (n - 1) \div 2 \in Nat
    OBVIOUS
  <2> QED
    BY <2>1, <2>2 DEF Progressed
<1>6. ASSUME NEW t \in Threads, ~ AtEnd(t)
      PROVE  /\ program = "atomic" =>
                  /\ pc[t] <= NUM_ITEMS
                  /\ Current(t) = FetchAdd("counter", 1, "relaxed")
             /\ program = "unlocked" =>
                  /\ pc[t] <= 2 * NUM_ITEMS
                  /\ Current(t) = IF pc[t] % 2 = 1 THEN Read("counter") ELSE WriteNext("counter")
  <2>1. /\ Current(t) = Code[program][t][pc[t]] /\ pc[t] \in 1 .. Len(Code[program][t])
    BY <1>1, <1>6, CurrentAccess
  <2>2. CASE program = "atomic"
    BY <1>2, <2>1, <2>2, AtomicCode DEF Threads
  <2>3. CASE program = "unlocked"
    <3>1. Len(Code[program][t]) = 2 * NUM_ITEMS
      BY <1>2, <2>3, UnlockedCode DEF Threads
    <3> QED
      BY <1>2, <2>1, <2>3, <3>1, UnlockedCode DEF Threads
  <2> QED
    BY <2>2, <2>3
<1>7. ASSUME NEW t \in Threads, AtEnd(t)
      PROVE  /\ program = "atomic" => pc[t] > NUM_ITEMS
             /\ program = "unlocked" => pc[t] > 2 * NUM_ITEMS
  BY <1>2, <1>7, UnlockedCode, AtomicCode DEF AtEnd, Threads
<1> QED
  BY <1>2, <1>3, <1>4, <1>5, <1>6, <1>7

LEMMA CounterInvInit == Init /\ program \in counting => CounterInv
<1> SUFFICES ASSUME Init, program \in counting PROVE CounterInv
  OBVIOUS
<1>1. MemoryInv /\ (program \in locked => LockedInv)
  BY MemoryInvInit, LockedInvInit
<1>2. "counter" \in Objects /\ Objects = ObjectsOf(program)
  BY <1>1, CountingCode DEF MemoryInv, MemoryTypes, Objects
<1>3. PICK V : V = InitialView(ObjectsOf(program), Threads)
  OBVIOUS
<1>4. /\ history = [o \in Objects |-> InitialHistory(V)]
      /\ register = [t \in Threads |-> [o \in Objects |-> 0]]
      /\ pc = [t \in Threads |-> 1]
  BY <1>2, <1>3 DEF Init
<1>5. /\ Len(history["counter"]) = 1 /\ history["counter"][1].value = 0
      /\ Newest("counter").value = 0
  BY <1>2, <1>4 DEF InitialHistory, Newest
<1>6. \A t \in Threads : pc[t] = 1 /\ register[t]["counter"] = 0 /\ Progressed(t) = 0
  <2>1. 1 \div 4 = 0 /\ 1 - 1 = 0 /\ 0 \div 2 = 0
    OBVIOUS
  <2> QED
    BY <1>2, <1>4, <2>1 DEF Progressed
<1>7. IsFiniteSet(Increments) /\ Incremented = 0
  BY <1>6, PairsNone DEF Increments, Incremented
<1>8. LockedCount
  <2>1. 1 % 4 = 1
    OBVIOUS
  <2> QED
    BY <1>5, <1>6, <1>7, <2>1 DEF LockedCount
<1>9. UnlockedCount
  <2>1. 1 <= 2 * NUM_ITEMS + 1
    BY SizesAssumption
  <2>2. \A i \in 1 .. Len(history["counter"]) : history["counter"][i].value = 0
    BY <1>5
  <2> QED
    BY <1>5, <1>6, <1>7, <2>1, <2>2 DEF UnlockedCount
<1>10. AtomicCount
  <2>1. 1 <= NUM_ITEMS + 1
    BY SizesAssumption
  <2> QED
    BY <1>5, <1>6, <1>7, <2>1 DEF AtomicCount
<1> QED
  BY <1>1, <1>7, <1>8, <1>9, <1>10 DEF CounterInv

(* One more increment, or none.                                             *)
LEMMA IncrementsMove ==
    ASSUME MemoryInv, MemoryInv', program \in counting, program' = program,
           Threads' = Threads, IsFiniteSet(Increments), NEW t \in Threads,
           \A u \in Threads \ {t} : pc'[u] = pc[u], Progressed(t)' \in {Progressed(t), Progressed(t) + 1}
    PROVE  /\ IsFiniteSet(Increments') /\ Incremented \in Nat
           /\ Progressed(t)' = Progressed(t) => Incremented' = Incremented
           /\ Progressed(t)' = Progressed(t) + 1 => Incremented' = Incremented + 1
<1> DEFINE f == [u \in Threads |-> Progressed(u)]
           g == [u \in Threads |-> Progressed(u)']
<1>1. Increments = Pairs(f, Threads) /\ Increments' = Pairs(g, Threads)
  BY DEF Increments
<1>2. \A u \in Threads \ {t} : Progressed(u)' = Progressed(u)
  BY DEF Progressed
<1>3. /\ \A u \in Threads : f[u] \in Nat /\ f[u] = Progressed(u) /\ g[u] = Progressed(u)'
  BY CountingCode
<1>4. f = [u \in Threads |-> f[u]] /\ g = [u \in Threads |-> g[u]]
  OBVIOUS
<1> HIDE DEF f, g
<1>5. CASE Progressed(t)' = Progressed(t)
  <2>1. f = g
    BY <1>2, <1>3, <1>4, <1>5
  <2>2. Progressed(t) \in Nat
    BY <1>3
  <2>3. Progressed(t)' # Progressed(t) + 1
    BY <1>5, <2>2
  <2> QED
    BY <1>1, <1>5, <2>1, <2>3, FS_CardinalityType DEF Incremented
<1>6. CASE Progressed(t)' = Progressed(t) + 1
  <2>1. g[t] = f[t] + 1 /\ \A u \in Threads \ {t} : g[u] = f[u]
    BY <1>2, <1>3, <1>6
  <2>2. /\ IsFiniteSet(Pairs(g, Threads)) /\ Cardinality(Pairs(f, Threads)) \in Nat
        /\ Cardinality(Pairs(g, Threads)) = Cardinality(Pairs(f, Threads)) + 1
    BY <1>1, <1>3, <2>1, PairsMore
  <2>3. Progressed(t) \in Nat
    BY <1>3
  <2>4. Progressed(t)' # Progressed(t)
    BY <1>6, <2>3
  <2> QED
    BY <1>1, <2>2, <2>4 DEF Incremented
<1> QED
  BY <1>5, <1>6

LEMMA DivisionsMove ==
    ASSUME NEW n \in Nat \ {0}
    PROVE  /\ (n + 1) \div 4 = IF n % 4 = 3 THEN n \div 4 + 1 ELSE n \div 4
           /\ n \div 2 = IF n % 2 = 0 THEN (n - 1) \div 2 + 1 ELSE (n - 1) \div 2
OBVIOUS

LEMMA LockedCountStep ==
    ASSUME CounterInv, program \in locked, NEW t \in Threads, Moves(t)
    PROVE  CounterInv'
<1>0. /\ MemoryInv /\ MemoryTypes /\ program \in counting /\ LockedInv /\ LockedCount
      /\ IsFiniteSet(Increments) /\ OneHolder /\ HolderKnows
      /\ MemoryInv' /\ program' = program /\ Objects' = Objects /\ Threads' = Threads
      /\ LockedInv'
  BY MemoryInvMoves, LockedInvStep DEF CounterInv, LockedInv, MemoryInv
<1>1. /\ TheLock \in Objects /\ "counter" \in Objects /\ TheLock # "counter"
      /\ pc[t] \in Nat \ {0}
  BY <1>0, LockedThread
<1>2. ~ AtEnd(t)
  BY DEF Moves, DoLoad, DoRead, DoStore, DoReadModifyWrite, DoWrite, Branch, IsAt
<1>3. \/ /\ DoReadModifyWrite(t) /\ pc[t] % 4 = 1 /\ Current(t).object = TheLock
         /\ Current(t).op = "lock"
      \/ (\E i \in Nat \ {0} : DoRead(t, i)) /\ pc[t] % 4 = 2 /\ Current(t).object = "counter"
      \/ /\ DoWrite(t) /\ pc[t] % 4 = 3 /\ Current(t).object = "counter"
         /\ Current(t).op = "write_next"
      \/ DoStore(t) /\ pc[t] % 4 = 0 /\ Current(t).object = TheLock
  BY <1>0, <1>2, LockedKind DEF Moves, DoLoad, DoRead, DoStore, DoReadModifyWrite, DoWrite, Branch, IsAt
<1>4. Advance(t)
  BY <1>3 DEF DoRead, DoStore, DoReadModifyWrite, DoWrite
<1>5. /\ pc'[t] = pc[t] + 1 /\ \A u \in Threads \ {t} : pc'[u] = pc[u]
  BY <1>0, <1>4, AdvanceStep
<1>6. Progressed(t)' = IF pc[t] % 4 = 3 THEN Progressed(t) + 1 ELSE Progressed(t)
  <2>1. Progressed(t) = pc[t] \div 4 /\ Progressed(t)' = pc'[t] \div 4
    <3>1. program # "atomic" /\ program' \in locked
      BY <1>0 DEF locked
    <3> QED
      BY <1>0, <3>1 DEF Progressed
  <2>2. pc'[t] \div 4 = IF pc[t] % 4 = 3 THEN pc[t] \div 4 + 1 ELSE pc[t] \div 4
    BY <1>1, <1>5, DivisionsMove
  <2> QED
    BY <2>1, <2>2
<1>7. /\ IsFiniteSet(Increments') /\ Incremented \in Nat
      /\ Progressed(t)' = Progressed(t) => Incremented' = Incremented
      /\ Progressed(t)' = Progressed(t) + 1 => Incremented' = Incremented + 1
  BY <1>0, <1>5, <1>6, IncrementsMove
<1>8. /\ pc'[t] % 4 = 3 <=> pc[t] % 4 = 2
  BY <1>1, <1>5, NextOfFour
<1>9. SUFFICES LockedCount'
  BY <1>0, <1>7 DEF CounterInv, locked
<1>10. Newest("counter").value = Incremented
       /\ \A u \in Threads : pc[u] % 4 = 3 => register[u]["counter"] = Incremented
  BY <1>0 DEF LockedCount
<1>11. ASSUME pc[t] % 4 # 3, Newest("counter")' = Newest("counter"),
              \A u \in Threads \ {t} : register'[u] = register[u],
              pc[t] % 4 = 2 => register'[t]["counter"] = Incremented
       PROVE  LockedCount'
  <2>1. Incremented' = Incremented
    BY <1>6, <1>7, <1>11
  <2>2. \A u \in Threads : pc'[u] % 4 = 3 => register'[u]["counter"] = Incremented
    BY <1>5, <1>8, <1>10, <1>11
  <2> QED
    BY <1>0, <1>10, <1>11, <2>1, <2>2 DEF LockedCount
<1>12. CASE DoReadModifyWrite(t) /\ pc[t] % 4 = 1 /\ Current(t).object = TheLock /\ Current(t).op = "lock"
  <2>1. PICK found \in Stores, v \in Views, store \in Stores :
          found = Newest(TheLock) /\ found.value = 0 /\ Adds(t, TheLock, v, store)
    BY <1>0, <1>12, ReadModifyWriteStep
  <2>2. Newest("counter")' = Newest("counter")
    BY <1>0, <1>1, <2>1, AddedNewest
  <2>3. Find(t, TheLock, 0)
    BY <1>12, <2>1 DEF DoReadModifyWrite
  <2>4. \A u \in Threads \ {t} : register'[u] = register[u]
    BY <1>0, <1>1, <2>3, FindStep
  <2> QED
    BY <1>11, <1>12, <2>2, <2>4
<1>13. CASE (\E i \in Nat \ {0} : DoRead(t, i)) /\ pc[t] % 4 = 2 /\ Current(t).object = "counter"
  <2>1. PICK i \in Nat \ {0} : DoRead(t, i)
    BY <1>13
  <2>2. /\ i \in 1 .. Len(history["counter"]) /\ i >= view[t].seen["counter"]
        /\ history["counter"][i].value \in Nat /\ \E v \in Views : Looks(t, v)
    BY <1>0, <1>13, <2>1, ReadStep
  <2>3. i = Len(history["counter"])
    <3>1. PICK n \in Nat : n = Len(history["counter"])
      BY <1>0, <1>1 DEF MemoryTypes
    <3>2. view[t].seen["counter"] = n
      BY <1>0, <1>13, <3>1 DEF HolderKnows, Holds, Knows
    <3>3. i >= n /\ i <= n
      BY <2>2, <3>1, <3>2
    <3> QED
      BY <3>1, <3>3
  <2>4. PICK value \in Nat : value = Newest("counter").value
    BY <2>2, <2>3 DEF Newest
  <2>5. Find(t, "counter", value) /\ history' = history
    BY <1>13, <2>1, <2>3, <2>4 DEF DoRead, Newest
  <2>6. register'[t]["counter"] = value /\ \A u \in Threads \ {t} : register'[u] = register[u]
    BY <1>0, <1>1, <2>5, FindStep
  <2>7. Newest("counter")' = Newest("counter")
    BY <2>5 DEF Newest
  <2> QED
    BY <1>10, <1>11, <1>13, <2>4, <2>6, <2>7
<1>14. CASE DoWrite(t) /\ pc[t] % 4 = 3 /\ Current(t).object = "counter" /\ Current(t).op = "write_next"
  <2>1. PICK v \in Views, store \in Stores :
          Adds(t, "counter", v, store) /\ store.value = register[t]["counter"] + 1
    BY <1>0, <1>14, WriteStep
  <2>2. Newest("counter")' = store
    BY <1>0, <1>1, <2>1, AddedNewest
  <2>3. Incremented' = Incremented + 1
    BY <1>6, <1>7, <1>14
  <2>4. Newest("counter")'.value = Incremented'
    BY <1>10, <1>14, <2>1, <2>2, <2>3
  <2>5. \A u \in Threads : pc'[u] % 4 # 3
    <3> SUFFICES ASSUME NEW u \in Threads, pc'[u] % 4 = 3 PROVE FALSE
      OBVIOUS
    <3>1. u # t /\ pc[u] % 4 = 3
      BY <1>5, <1>8, <1>14
    <3>2. Holds(u) /\ Holds(t)
      BY <1>14, <3>1 DEF Holds
    <3> QED
      BY <1>0, <3>1, <3>2 DEF OneHolder
  <2> QED
    BY <1>0, <2>4, <2>5 DEF LockedCount
<1>15. CASE DoStore(t) /\ pc[t] % 4 = 0 /\ Current(t).object = TheLock
  <2>1. PICK v \in Views, store \in Stores : Adds(t, TheLock, v, store)
    BY <1>0, <1>15, StoreStep
  <2>2. Newest("counter")' = Newest("counter") /\ register' = register
    BY <1>0, <1>1, <1>15, <2>1, AddedNewest DEF DoStore
  <2> QED
    BY <1>11, <1>15, <2>2
<1> QED
  BY <1>3, <1>12, <1>13, <1>14, <1>15

LEMMA AtomicCountStep ==
    ASSUME CounterInv, program = "atomic", NEW t \in Threads, Moves(t)
    PROVE  CounterInv'
<1>0. /\ MemoryInv /\ MemoryTypes /\ program \in counting /\ AtomicCount
      /\ IsFiniteSet(Increments)
      /\ MemoryInv' /\ program' = program /\ Objects' = Objects /\ Threads' = Threads
  BY MemoryInvMoves DEF CounterInv, MemoryInv
<1>1. ~ AtEnd(t)
  BY DEF Moves, DoLoad, DoRead, DoStore, DoReadModifyWrite, DoWrite, Branch, IsAt
<1>2. /\ pc[t] <= NUM_ITEMS /\ Current(t) = FetchAdd("counter", 1, "relaxed")
      /\ pc[t] \in Nat \ {0} /\ "counter" \in Objects
  BY <1>0, <1>1, CountingCode
<1>3. Current(t).op = "fetch_add" /\ Current(t).object = "counter" /\ Current(t).value = 1
  BY <1>2 DEF FetchAdd, Access
<1>4. DoReadModifyWrite(t)
  BY <1>3 DEF Moves, DoLoad, DoRead, DoStore, DoReadModifyWrite, DoWrite, Branch, IsAt
<1>5. Advance(t)
  BY <1>4 DEF DoReadModifyWrite
<1>6. /\ pc'[t] = pc[t] + 1 /\ \A u \in Threads \ {t} : pc'[u] = pc[u]
  BY <1>0, <1>5, AdvanceStep
<1>7. Progressed(t)' = Progressed(t) + 1
  <2>1. program \notin locked
    BY DEF locked
  <2>2. Progressed(t) = pc[t] - 1 /\ Progressed(t)' = pc'[t] - 1
    BY <1>0, <2>1 DEF Progressed
  <2> QED
    BY <1>2, <1>6, <2>2
<1>8. /\ IsFiniteSet(Increments') /\ Incremented' = Incremented + 1
  BY <1>0, <1>6, <1>7, IncrementsMove
<1>9. PICK v \in Views, store \in Stores :
        Adds(t, "counter", v, store) /\ store.value = Newest("counter").value + 1
  BY <1>0, <1>3, <1>4, ReadModifyWriteStep
<1>10. Newest("counter")' = store
  BY <1>0, <1>2, <1>9, AddedNewest
<1>11. \A u \in Threads : pc'[u] <= NUM_ITEMS + 1
  <2>1. pc[t] + 1 <= NUM_ITEMS + 1
    BY <1>2, SizesAssumption
  <2> QED
    BY <1>0, <1>6, <2>1 DEF AtomicCount
<1>12. AtomicCount'
  BY <1>0, <1>8, <1>9, <1>10, <1>11 DEF AtomicCount
<1> QED
  BY <1>0, <1>8, <1>12 DEF CounterInv, locked

LEMMA UnlockedCountStep ==
    ASSUME CounterInv, program = "unlocked", NEW t \in Threads, Moves(t)
    PROVE  CounterInv'
<1>0. /\ MemoryInv /\ MemoryTypes /\ program \in counting /\ UnlockedCount
      /\ IsFiniteSet(Increments)
      /\ MemoryInv' /\ program' = program /\ Objects' = Objects /\ Threads' = Threads
  BY MemoryInvMoves DEF CounterInv, MemoryInv
<1>1. ~ AtEnd(t)
  BY DEF Moves, DoLoad, DoRead, DoStore, DoReadModifyWrite, DoWrite, Branch, IsAt
<1>2. /\ pc[t] <= 2 * NUM_ITEMS
      /\ Current(t) = IF pc[t] % 2 = 1 THEN Read("counter") ELSE WriteNext("counter")
      /\ pc[t] \in Nat \ {0} /\ "counter" \in Objects
  BY <1>0, <1>1, CountingCode
<1>3. /\ Current(t).object = "counter" /\ Current(t).op \in {"read", "write_next"}
      /\ Current(t).op = "read" <=> pc[t] % 2 = 1
  BY <1>2 DEF Read, WriteNext, Access
<1>4. \/ (\E i \in Nat \ {0} : DoRead(t, i)) /\ pc[t] % 2 = 1
      \/ DoWrite(t) /\ pc[t] % 2 = 0 /\ Current(t).op = "write_next"
  <2>1. pc[t] % 2 \in {0, 1}
    BY <1>2
  <2> QED
    BY <1>3, <2>1 DEF Moves, DoLoad, DoRead, DoStore, DoReadModifyWrite, DoWrite, Branch, IsAt
<1>5. Advance(t)
  BY <1>4 DEF DoRead, DoWrite
<1>6. /\ pc'[t] = pc[t] + 1 /\ \A u \in Threads \ {t} : pc'[u] = pc[u]
  BY <1>0, <1>5, AdvanceStep
<1>7. Progressed(t)' = IF pc[t] % 2 = 0 THEN Progressed(t) + 1 ELSE Progressed(t)
  <2>1. Progressed(t) = (pc[t] - 1) \div 2 /\ Progressed(t)' = (pc'[t] - 1) \div 2
    <3>1. program \notin locked /\ program # "atomic"
      BY DEF locked
    <3> QED
      BY <1>0, <3>1 DEF Progressed
  <2>2. pc'[t] - 1 = pc[t]
    BY <1>2, <1>6
  <2>3. pc[t] \div 2 = IF pc[t] % 2 = 0 THEN (pc[t] - 1) \div 2 + 1 ELSE (pc[t] - 1) \div 2
    BY <1>2, DivisionsMove
  <2> QED
    BY <2>1, <2>2, <2>3
<1>8. /\ IsFiniteSet(Increments') /\ Incremented \in Nat
      /\ Progressed(t)' = Progressed(t) => Incremented' = Incremented
      /\ Progressed(t)' = Progressed(t) + 1 => Incremented' = Incremented + 1
  BY <1>0, <1>6, <1>7, IncrementsMove
<1>9. SUFFICES UnlockedCount'
  BY <1>0, <1>8 DEF CounterInv, locked
<1>10. \A u \in Threads : pc'[u] <= 2 * NUM_ITEMS + 1
  <2>1. pc[t] + 1 <= 2 * NUM_ITEMS + 1
    BY <1>2, SizesAssumption
  <2> QED
    BY <1>0, <1>6, <2>1 DEF UnlockedCount
<1>11. /\ history["counter"] \in Seq(Stores) /\ Len(history["counter"]) \in Nat
       /\ \A i \in 1 .. Len(history["counter"]) :
            history["counter"][i].value \in Nat /\ history["counter"][i].value <= Incremented
       /\ \A u \in Threads : register[u]["counter"] \in Nat /\ register[u]["counter"] <= Incremented
  <2>1. history["counter"] \in Seq(Stores) /\ Len(history["counter"]) \in Nat
    BY <1>0, <1>2 DEF MemoryTypes
  <2>2. ASSUME NEW i \in 1 .. Len(history["counter"]) PROVE history["counter"][i].value \in Nat
    <3>1. history["counter"][i] \in Stores
      BY <2>1, ElementOfSeq
    <3> QED
      BY <3>1 DEF Stores, StoresOf
  <2>3. \A u \in Threads : register[u]["counter"] \in Nat
    BY <1>0, <1>2 DEF MemoryTypes
  <2> QED
    BY <1>0, <2>1, <2>2, <2>3 DEF UnlockedCount
<1>12. CASE (\E i \in Nat \ {0} : DoRead(t, i)) /\ pc[t] % 2 = 1
  <2>1. PICK i \in Nat \ {0} : DoRead(t, i)
    BY <1>12
  <2>2. i \in 1 .. Len(history["counter"])
    BY <1>0, <1>3, <2>1, ReadStep
  <2>3. PICK value \in Nat : value = history["counter"][i].value /\ value <= Incremented
    BY <1>11, <2>2
  <2>4. Find(t, "counter", value) /\ history' = history
    BY <1>3, <2>1, <2>3 DEF DoRead
  <2>5. register'[t]["counter"] = value /\ \A u \in Threads \ {t} : register'[u] = register[u]
    BY <1>0, <1>2, <2>4, FindStep
  <2>6. Incremented' = Incremented
    BY <1>7, <1>8, <1>12
  <2>7. \A u \in Threads : register'[u]["counter"] <= Incremented
    BY <1>11, <2>3, <2>5
  <2>8. Newest("counter")' = Newest("counter")
    BY <2>4 DEF Newest
  <2> QED
    BY <1>0, <1>10, <2>4, <2>6, <2>7, <2>8 DEF UnlockedCount
<1>13. CASE DoWrite(t) /\ pc[t] % 2 = 0 /\ Current(t).op = "write_next"
  <2>1. PICK v \in Views, store \in Stores :
          Adds(t, "counter", v, store) /\ store.value = register[t]["counter"] + 1
    BY <1>0, <1>3, <1>13, WriteStep
  <2>2. /\ Newest("counter")' = store
        /\ Len(history'["counter"]) = Len(history["counter"]) + 1
        /\ history'["counter"][Len(history["counter"]) + 1] = store
        /\ \A i \in 1 .. Len(history["counter"]) : history'["counter"][i] = history["counter"][i]
    BY <1>0, <1>2, <2>1, Added, AddedNewest
  <2>3. Incremented' = Incremented + 1
    BY <1>7, <1>8, <1>13
  <2>4. register' = register
    BY <1>13 DEF DoWrite
  <2>5. \A u \in Threads : register'[u]["counter"] <= Incremented'
    BY <1>8, <1>11, <2>3, <2>4
  <2>6. store.value > 0 /\ store.value <= Incremented'
    BY <1>8, <1>11, <2>1, <2>3
  <2>7. ASSUME NEW i \in 1 .. Len(history'["counter"])
        PROVE  history'["counter"][i].value <= Incremented'
    <3>1. CASE i = Len(history["counter"]) + 1
      BY <2>2, <2>6, <3>1
    <3>2. CASE i \in 1 .. Len(history["counter"])
      <4>1. history'["counter"][i] = history["counter"][i]
        BY <2>2, <3>2
      <4>2. history["counter"][i].value \in Nat /\ history["counter"][i].value <= Incremented
        BY <1>11, <3>2
      <4> QED
        BY <1>8, <2>3, <4>1, <4>2
    <3> QED
      BY <1>11, <2>2, <3>1, <3>2
  <2> QED
    BY <1>0, <1>10, <2>2, <2>5, <2>6, <2>7 DEF UnlockedCount
<1> QED
  BY <1>4, <1>12, <1>13

(* What main() finds once it has joined the threads.                        *)
LEMMA CountersEnd ==
    ASSUME CounterInv, AllEnded
    PROVE  /\ program \in {"mutex", "spin_lock", "atomic"} =>
                Newest("counter").value = NUM_THREADS * NUM_ITEMS
           /\ program = "workers" => Newest("counter").value = 2 * NUM_ITEMS + 1
           /\ program = "unlocked" =>
                Newest("counter").value \in 1 .. NUM_THREADS * NUM_ITEMS
<1> DEFINE f == [t \in Threads |-> Progressed(t)]
<1>0. /\ MemoryInv /\ MemoryTypes /\ program \in counting
      /\ Increments = Pairs(f, Threads)
      /\ NUM_ITEMS \in Nat \ {0} /\ NUM_THREADS \in Nat \ {0}
      /\ NUM_THREADS * NUM_ITEMS \in Nat \ {0}
  BY SizesAssumption DEF CounterInv, MemoryInv, Increments
<1>1. \A t \in Threads : f[t] = Progressed(t) /\ pc[t] \in Nat \ {0} /\ AtEnd(t)
  BY <1>0, CountingCode DEF AllEnded
<1> HIDE DEF f
<1>2. IsFiniteSet(1 .. NUM_THREADS) /\ Cardinality(1 .. NUM_THREADS) = NUM_THREADS
  BY <1>0, FS_Interval
<1>3. ASSUME program # "workers", \A t \in Threads : f[t] = NUM_ITEMS
      PROVE  Incremented = NUM_THREADS * NUM_ITEMS
  <2>1. Threads = 1 .. NUM_THREADS
    BY <1>0, <1>3, CountingCode
  <2> QED
    BY <1>0, <1>2, <1>3, <2>1, PairsFull DEF Incremented
<1>4. ASSUME program \in locked, NEW t \in Threads PROVE f[t] = Iterations(program, t)
  <2>1. PICK k \in Nat \ {0} : k = Iterations(program, t)
    BY <1>0 DEF Iterations
  <2>2. pc[t] > 4 * k /\ pc[t] <= 4 * k + 1
    BY <1>0, <1>1, <1>4, <2>1, LockedThread DEF CounterInv, LockedInv, LockedPlace
  <2>3. pc[t] = 4 * k + 1
    BY <1>1, <2>1, <2>2
  <2>4. (4 * k + 1) \div 4 = k
    OBVIOUS
  <2>5. program # "atomic"
    BY <1>4 DEF locked
  <2>6. Progressed(t) = pc[t] \div 4
    BY <1>4, <2>5 DEF Progressed
  <2> QED
    BY <1>1, <2>1, <2>3, <2>4, <2>6
<1>5. CASE program \in {"mutex", "spin_lock"}
  <2>1. program \in locked /\ LockedCount
    BY <1>5 DEF CounterInv, locked
  <2>2. \A t \in Threads : f[t] = NUM_ITEMS
    BY <1>4, <1>5, <2>1 DEF Iterations
  <2> QED
    BY <1>3, <1>5, <2>1, <2>2 DEF LockedCount
<1>6. CASE program = "atomic"
  <2>1. \A t \in Threads : f[t] = NUM_ITEMS
    <3> TAKE t \in Threads
    <3>1. pc[t] > NUM_ITEMS /\ pc[t] <= NUM_ITEMS + 1
      BY <1>0, <1>1, <1>6, CountingCode DEF CounterInv, AtomicCount
    <3>2. Progressed(t) = pc[t] - 1
      BY <1>6 DEF Progressed, locked
    <3> QED
      BY <1>0, <1>1, <3>1, <3>2
  <2>2. AtomicCount
    BY <1>6 DEF CounterInv
  <2> QED
    BY <1>3, <1>6, <2>1, <2>2 DEF AtomicCount
<1>7. CASE program = "unlocked"
  <2>1. \A t \in Threads : f[t] = NUM_ITEMS
    <3> TAKE t \in Threads
    <3>1. pc[t] > 2 * NUM_ITEMS /\ pc[t] <= 2 * NUM_ITEMS + 1
      BY <1>0, <1>1, <1>7, CountingCode DEF CounterInv, UnlockedCount
    <3>2. Progressed(t) = (pc[t] - 1) \div 2
      BY <1>7 DEF Progressed, locked
    <3>3. pc[t] - 1 = 2 * NUM_ITEMS
      BY <1>0, <1>1, <3>1
    <3>4. (2 * NUM_ITEMS) \div 2 = NUM_ITEMS
      BY <1>0
    <3> QED
      BY <1>1, <3>2, <3>3, <3>4
  <2>2. Incremented = NUM_THREADS * NUM_ITEMS /\ UnlockedCount
    BY <1>3, <1>7, <2>1 DEF CounterInv
  <2>3. history["counter"] \in Seq(Stores) /\ Len(history["counter"]) > 0
    <3>1. "counter" \in Objects
      BY <1>0, CountingCode
    <3> QED
      BY <1>0, <3>1 DEF MemoryTypes, MemoryInv, ViewsWithin
  <2>4. PICK n \in Nat : n = Newest("counter").value
    <3>1. Newest("counter") \in Stores
      BY <2>3, ElementOfSeq DEF Newest
    <3> QED
      BY <3>1 DEF Stores, StoresOf
  <2>5. n <= Incremented
    BY <2>2, <2>3, <2>4 DEF UnlockedCount, Newest
  <2>6. n > 0
    BY <1>0, <2>2, <2>4 DEF UnlockedCount
  <2> QED
    BY <1>0, <1>7, <2>2, <2>4, <2>5, <2>6
<1>8. CASE program = "workers"
  <2>1. program \in locked /\ LockedCount /\ Threads = 1 .. 3
    BY <1>0, <1>8, CountingCode DEF CounterInv, locked
  <2>2. f[1] = NUM_ITEMS /\ f[2] = 1 /\ f[3] = NUM_ITEMS
    <3>1. \A t \in Threads : f[t] = Iterations(program, t)
      BY <1>4, <2>1
    <3> QED
      BY <1>8, <2>1, <3>1 DEF Iterations
  <2>3. Pairs(f, Threads) = Pairs(f, {1, 3}) \cup Pairs(f, {2})
    <3>1. Threads = {1, 3} \cup {2}
      BY <2>1
    <3> QED
      BY <3>1 DEF Pairs
  <2>4. Pairs(f, {1, 3}) \cap Pairs(f, {2}) = {}
    BY DEF Pairs
  <2>5. /\ IsFiniteSet({1, 3}) /\ Cardinality({1, 3}) = 2
        /\ IsFiniteSet({2}) /\ Cardinality({2}) = 1
    <3>1. IsFiniteSet({1}) /\ Cardinality({1}) = 1 /\ IsFiniteSet({2}) /\ Cardinality({2}) = 1
      BY FS_Singleton
    <3>2. {1, 3} = {1} \cup {3} /\ 3 \notin {1}
      OBVIOUS
    <3> QED
      BY <3>1, <3>2, FS_AddElement
  <2>6. /\ Cardinality(Pairs(f, {1, 3})) = 2 * NUM_ITEMS
        /\ Cardinality(Pairs(f, {2})) = 1 * 1
    <3>1. \A t \in {1, 3} : f[t] = NUM_ITEMS
      BY <2>2
    <3>2. \A t \in {2} : f[t] = 1
      BY <2>2
    <3>3. 1 \in Nat /\ NUM_ITEMS \in Nat
      BY <1>0
    <3>4. Cardinality(Pairs(f, {1, 3})) = 2 * NUM_ITEMS
      BY <2>5, <3>1, <3>3, PairsFull
    <3>5. Cardinality(Pairs(f, {2})) = 1 * 1
      BY <2>5, <3>2, <3>3, PairsFull
    <3> QED
      BY <3>4, <3>5
  <2>7. IsFiniteSet(Pairs(f, {1, 3})) /\ IsFiniteSet(Pairs(f, {2}))
    <3>1. IsFiniteSet(Pairs(f, Threads))
      BY <1>0 DEF CounterInv
    <3> QED
      BY <2>3, <3>1, FS_Subset
  <2>8. Cardinality(Pairs(f, Threads)) = 2 * NUM_ITEMS + 1
    <3>1. Cardinality(Pairs(f, Threads)) =
            Cardinality(Pairs(f, {1, 3})) + Cardinality(Pairs(f, {2})) - Cardinality({})
      BY <2>3, <2>4, <2>7, FS_Union
    <3>2. Cardinality({}) = 0
      BY FS_EmptySet
    <3>3. 2 * NUM_ITEMS \in Nat
      BY <1>0
    <3> QED
      BY <2>6, <3>1, <3>2, <3>3
  <2> QED
    BY <1>0, <1>8, <2>1, <2>8 DEF LockedCount, Incremented
<1> QED
  BY <1>5, <1>6, <1>7, <1>8

LEMMA CounterInvStutter == CounterInv /\ UNCHANGED vars => CounterInv'
<1> SUFFICES ASSUME CounterInv, UNCHANGED vars PROVE CounterInv'
  OBVIOUS
<1>1. MemoryInv'
  BY MemoryInvStutter DEF CounterInv
<1>2. Threads' = Threads /\ program' = program /\ history' = history /\ register' = register /\ pc' = pc
  BY DEF Threads, vars
<1>3. Increments' = Increments /\ Incremented' = Incremented
  BY <1>2 DEF Increments, Incremented, Progressed
<1>4. LockedInv => LockedInv'
  BY <1>1 DEF LockedInv, LockedPlace, OneHolder, LockTaken, HolderKnows, LockKnows, Knows,
              Holds, TheLock, Newest, Threads, vars
<1>5. (LockedCount => LockedCount') /\ (UnlockedCount => UnlockedCount') /\ (AtomicCount => AtomicCount')
  BY <1>2, <1>3 DEF LockedCount, UnlockedCount, AtomicCount, Newest
<1> QED
  BY <1>1, <1>2, <1>3, <1>4, <1>5 DEF CounterInv

LEMMA CounterInvStep ==
    ASSUME CounterInv, NEW t \in Threads, Moves(t)
    PROVE  CounterInv'
BY LockedCountStep, AtomicCountStep, UnlockedCountStep DEF CounterInv, counting
-----------------------------------------------------------------------------
(* The one thread that initializes                                          *)

Winner == Newest("init_thread").value
Initializes(t) == pc[t] = 4 /\ register[t]["init_thread"] = 0

InitOnceInv ==
    /\ MemoryInv /\ program = "init_once"
    /\ \A t \in Threads : pc[t] \in 1 .. 4
    /\ Winner = 0 => \A t \in Threads : pc[t] <= 3 /\ register[t]["init_thread"] = 0
    /\ Winner # 0 => Winner \in Threads /\ \A t \in Threads : Initializes(t) <=> t = Winner

LEMMA InitOnceKind ==
    ASSUME MemoryInv, program = "init_once"
    PROVE  /\ Threads = 1 .. NUM_THREADS
           /\ "init_thread" \in Objects
           /\ \A t \in Threads :
                /\ Len(Code[program][t]) = 3
                /\ pc[t] = 1 => Current(t) = Load("init_thread", "seq_cst")
                /\ pc[t] = 2 => Current(t) = GoUnless("init_thread", 0, 4)
                /\ pc[t] = 3 => Current(t) = CompareExchange("init_thread", t, "seq_cst")
<1>1. Threads = 1 .. NUM_THREADS /\ \A t \in Threads : Code[program][t] = InitOnce(t)
  BY InitOnceCode DEF Threads
<1>2. "init_thread" \in Objects
  <2>1. 1 \in DOMAIN Code[program]
    BY <1>1, SizesAssumption DEF Threads
  <2>2. 1 \in DOMAIN Code[program][1] /\ Code[program][1][1].object = "init_thread"
    <3>1. Code[program][1] = InitOnce(1)
      BY <1>1, <2>1 DEF Threads
    <3>2. 1 \in DOMAIN InitOnce(1) /\ InitOnce(1)[1] = Load("init_thread", "seq_cst")
      BY DEF InitOnce
    <3> QED
      BY <3>1, <3>2 DEF Load, Access
  <2>3. "init_thread" \in ObjectsOf(program)
    BY <2>1, <2>2 DEF ObjectsOf
  <2> QED
    BY <2>3 DEF MemoryInv, MemoryTypes, Objects
<1> QED
  <2>1. ASSUME NEW t \in Threads
        PROVE  /\ Len(InitOnce(t)) = 3
               /\ InitOnce(t)[1] = Load("init_thread", "seq_cst")
               /\ InitOnce(t)[2] = GoUnless("init_thread", 0, 4)
               /\ InitOnce(t)[3] = CompareExchange("init_thread", t, "seq_cst")
    BY DEF InitOnce
  <2> QED
    BY <1>1, <1>2, <2>1 DEF Current

LEMMA InitOnceInvInit == Init /\ program = "init_once" => InitOnceInv
<1> SUFFICES ASSUME Init, program = "init_once" PROVE InitOnceInv
  OBVIOUS
<1>1. MemoryInv
  BY MemoryInvInit
<1>2. "init_thread" \in Objects /\ Objects = ObjectsOf(program)
  BY <1>1, InitOnceKind DEF MemoryInv, MemoryTypes, Objects
<1>3. PICK V : V = InitialView(ObjectsOf(program), Threads)
  OBVIOUS
<1>4. /\ history = [o \in Objects |-> InitialHistory(V)]
      /\ register = [t \in Threads |-> [o \in Objects |-> 0]]
      /\ pc = [t \in Threads |-> 1]
  BY <1>2, <1>3 DEF Init
<1>5. Winner = 0
  BY <1>2, <1>4 DEF InitialHistory, Newest, Winner
<1> QED
  BY <1>1, <1>2, <1>4, <1>5 DEF InitOnceInv

LEMMA InitOnceInvStep ==
    ASSUME InitOnceInv, NEW t \in Threads, Moves(t)
    PROVE  InitOnceInv'
<1> DEFINE o == "init_thread"
<1>0. /\ MemoryInv /\ MemoryTypes /\ program = "init_once"
      /\ MemoryInv' /\ program' = program /\ Objects' = Objects /\ Threads' = Threads
      /\ o \in Objects /\ Threads = 1 .. NUM_THREADS
  BY MemoryInvMoves, InitOnceKind DEF InitOnceInv, MemoryInv
<1>1. ~ AtEnd(t)
  BY DEF Moves, DoLoad, DoRead, DoStore, DoReadModifyWrite, DoWrite, Branch, IsAt
<1>2. /\ \A u \in Threads : pc[u] \in 1 .. 4 /\ register[u][o] \in Nat
      /\ Winner = 0 => \A u \in Threads : pc[u] <= 3 /\ register[u][o] = 0
      /\ Winner # 0 => Winner \in Threads /\ \A u \in Threads : Initializes(u) <=> u = Winner
  <2>1. \A u \in Threads : register[u][o] \in Nat
    BY <1>0 DEF MemoryTypes
  <2>2. \A u \in Threads : pc[u] \in 1 .. 4
    BY DEF InitOnceInv
  <2>3. Winner = 0 => \A u \in Threads : pc[u] <= 3 /\ register[u][o] = 0
    BY DEF InitOnceInv
  <2>4. Winner # 0 => Winner \in Threads /\ \A u \in Threads : Initializes(u) <=> u = Winner
    BY DEF InitOnceInv
  <2> QED
    BY <2>1, <2>2, <2>3, <2>4
<1>3. pc[t] \in 1 .. 3
  <2>1. pc[t] \in 1 .. 4 /\ ~ (pc[t] > 3)
    BY <1>0, <1>1, <1>2, InitOnceKind DEF AtEnd
  <2> QED
    BY <2>1
<1>4. CASE pc[t] = 1
  <2>1. Current(t).op = "load" /\ Current(t).object = o /\ Current(t).order = "seq_cst"
    BY <1>0, <1>4, InitOnceKind DEF Load, Access
  <2>2. PICK i \in Nat \ {0} : DoLoad(t, i)
    BY <2>1 DEF Moves, DoLoad, DoRead, DoStore, DoReadModifyWrite, DoWrite, Branch, IsAt
  <2>3. i = Len(history[o]) /\ history[o][i].value \in Nat
    BY <1>0, <2>1, <2>2, LoadStep
  <2>4. PICK value \in Nat : value = Winner
    BY <2>3 DEF Winner, Newest
  <2>5. Find(t, o, value) /\ Advance(t) /\ history' = history
    BY <2>1, <2>2, <2>3, <2>4 DEF DoLoad, Winner, Newest
  <2>6. /\ pc'[t] = 2 /\ register'[t][o] = value
        /\ \A u \in Threads \ {t} : pc'[u] = pc[u] /\ register'[u] = register[u]
    <3>1. pc'[t] = 2 /\ \A u \in Threads \ {t} : pc'[u] = pc[u]
      BY <1>0, <1>4, <2>5, AdvanceStep
    <3>2. register'[t][o] = value /\ \A u \in Threads \ {t} : register'[u] = register[u]
      BY <1>0, <2>5, FindStep
    <3> QED
      BY <3>1, <3>2
  <2>7. Winner' = Winner
    BY <2>5 DEF Winner, Newest
  <2>8. \A u \in Threads : Initializes(u)' <=> Initializes(u)
    BY <1>4, <2>6 DEF Initializes
  <2> QED
    BY <1>0, <1>2, <2>4, <2>6, <2>7, <2>8 DEF InitOnceInv
<1>5. CASE pc[t] = 2
  <2>1. /\ Current(t).op = "go_unless" /\ Current(t).object = o /\ Current(t).value = 0
        /\ Current(t).order = 4
    BY <1>0, <1>5, InitOnceKind DEF GoUnless, Access
  <2>2. Branch(t)
    BY <2>1 DEF Moves, DoLoad, DoRead, DoStore, DoReadModifyWrite, DoWrite, Branch, IsAt
  <2>3. register' = register /\ history' = history
    BY <2>2 DEF Branch
  <2>4. /\ pc'[t] = IF register[t][o] = 0 THEN 3 ELSE 4
        /\ \A u \in Threads \ {t} : pc'[u] = pc[u]
    BY <1>0, <1>5, <2>1, <2>2, BranchStep
  <2>5. Winner' = Winner
    BY <2>3 DEF Winner, Newest
  <2>6. \A u \in Threads : Initializes(u)' <=> Initializes(u)
    BY <1>5, <2>3, <2>4 DEF Initializes
  <2> QED
    BY <1>0, <1>2, <2>3, <2>4, <2>5, <2>6 DEF InitOnceInv
<1>6. CASE pc[t] = 3
  <2>1. Current(t).op = "exchange_if_zero" /\ Current(t).object = o /\ Current(t).value = t
    BY <1>0, <1>6, InitOnceKind DEF CompareExchange, Access
  <2>2. DoReadModifyWrite(t)
    BY <2>1 DEF Moves, DoLoad, DoRead, DoStore, DoReadModifyWrite, DoWrite, Branch, IsAt
  <2>3. Newest(o) \in Stores
    BY <1>0, <2>1, <2>2, ReadModifyWriteStep
  <2>4. PICK found \in Nat : found = Winner
    BY <2>3 DEF Winner, Stores, StoresOf
  <2>5. Find(t, o, found) /\ Advance(t)
    BY <2>1, <2>2, <2>4 DEF DoReadModifyWrite, Winner
  <2>6. /\ pc'[t] = 4 /\ register'[t][o] = found
        /\ \A u \in Threads \ {t} : pc'[u] = pc[u] /\ register'[u] = register[u]
    <3>1. pc'[t] = 4 /\ \A u \in Threads \ {t} : pc'[u] = pc[u]
      BY <1>0, <1>6, <2>5, AdvanceStep
    <3>2. register'[t][o] = found /\ \A u \in Threads \ {t} : register'[u] = register[u]
      BY <1>0, <2>5, FindStep
    <3> QED
      BY <3>1, <3>2
  <2>7. CASE found = 0
    <3>1. PICK v \in Views, store \in Stores : Adds(t, o, v, store) /\ store.value = t
      BY <1>0, <2>1, <2>2, <2>4, <2>7, ReadModifyWriteStep DEF Winner
    <3>2. Winner' = t
      BY <1>0, <3>1, AddedNewest DEF Winner
    <3>3. \A u \in Threads : Initializes(u)' <=> u = t
      BY <1>2, <2>4, <2>6, <2>7 DEF Initializes
    <3>4. t # 0
      BY <1>0
    <3> QED
      BY <1>0, <1>2, <2>6, <3>2, <3>3, <3>4 DEF InitOnceInv
  <2>8. CASE found # 0
    <3>1. PICK v \in Views : Looks(t, v)
      BY <1>0, <2>1, <2>2, <2>4, <2>8, ReadModifyWriteStep DEF Winner
    <3>2. Winner' = Winner
      BY <3>1 DEF Looks, Winner, Newest
    <3>3. \A u \in Threads : Initializes(u)' <=> Initializes(u)
      BY <1>6, <2>6, <2>8 DEF Initializes
    <3> QED
      BY <1>0, <1>2, <2>4, <2>6, <2>8, <3>2, <3>3 DEF InitOnceInv
  <2> QED
    BY <2>7, <2>8
<1> QED
  BY <1>3, <1>4, <1>5, <1>6
-----------------------------------------------------------------------------
(* The statistics: each object is written at one place of the loop body,    *)
(* and its value is the number of times that place has been run.            *)

PlaceOf(o) ==
    CASE o = "processed_items" -> 1
      [] o = "total_time" -> 2
      [] o = "average_time" -> 5
      [] o = "m_n" -> 8
      [] o = "s_n" -> 9

written == {"processed_items", "total_time", "average_time", "m_n", "s_n"}

(* How often place q of 1 .. 9 has been run when the next place is n.       *)
Runs(q, n) == (n + 8 - q) \div 9

StatisticsInv ==
    /\ MemoryInv /\ program = "statistics"
    /\ pc[1] <= 9 * NUM_ITEMS + 1
    /\ \A o \in Objects : Newest(o).value = Runs(PlaceOf(o), pc[1])

LEMMA RunsOnce ==
    ASSUME NEW n \in Nat \ {0}, NEW q \in 1 .. 9
    PROVE  /\ Runs(q, n) \in Nat
           /\ ((n - 1) % 9) + 1 = q => Runs(q, n + 1) = Runs(q, n) + 1
           /\ ((n - 1) % 9) + 1 # q => Runs(q, n + 1) = Runs(q, n)
           /\ ((n - 1) % 9) + 1 = q => (n - 1) \div 9 = Runs(q, n)
<1>1. PICK k \in Nat, r \in 0 .. 8 : n - 1 = 9 * k + r /\ k = (n - 1) \div 9 /\ r = (n - 1) % 9
  OBVIOUS
<1>2. n + 8 - q = 9 * k + (r + 9 - q) /\ n + 1 + 8 - q = 9 * k + (r + 10 - q)
  BY <1>1
<1>3. Runs(q, n) = k + (IF r + 9 - q >= 9 THEN 1 ELSE 0)
  BY <1>1, <1>2 DEF Runs
<1>4. Runs(q, n + 1) = k + (IF r + 10 - q >= 9 THEN 1 ELSE 0)
  BY <1>1, <1>2 DEF Runs
<1> QED
  BY <1>1, <1>3, <1>4

LEMMA StatisticsObjects == ObjectsOf("statistics") \subseteq written
<1>1. \A k : \A q \in 1 .. 9 : StatisticsItem(k)[q].object \in written
  BY DEF StatisticsItem, FetchAdd, Load, Store, Access, written
<1>2. \A q \in DOMAIN StatisticsSeen : StatisticsSeen[q].object \in written
  BY DEF StatisticsSeen, Load, GoUnless, Access, written
<1>3. ASSUME NEW i \in 1 .. 9 * NUM_ITEMS PROVE Code["statistics"][1][i].object \in written
  <2>1. PICK k \in Nat, q \in 1 .. 9 : k = ((i - 1) \div 9) + 1 /\ q = ((i - 1) % 9) + 1
    BY <1>3, SizesAssumption
  <2> QED
    BY <1>1, <2>1, StatisticsCode
<1>4. \A t \in 1 .. 2 : t = 1 \/ t = 2
  OBVIOUS
<1> QED
  BY <1>2, <1>3, <1>4, StatisticsCode DEF ObjectsOf

LEMMA StatisticsKind ==
    ASSUME MemoryInv, program = "statistics", NEW t \in Threads, ~ AtEnd(t)
    PROVE  /\ t = 2 => Current(t).op \in {"load", "go_unless"}
           /\ t = 1 =>
                \E q \in 1 .. 9 :
                  /\ q = ((pc[1] - 1) % 9) + 1 /\ pc[1] \in 1 .. 9 * NUM_ITEMS
                  /\ \/ /\ Current(t).op = "fetch_add" /\ Current(t).value = 1
                        /\ PlaceOf(Current(t).object) = q
                     \/ /\ Current(t).op = "store" /\ Current(t).value = (pc[1] - 1) \div 9 + 1
                        /\ PlaceOf(Current(t).object) = q
                     \/ /\ Current(t).op = "load" /\ q \in {3, 4, 6, 7}
<1>0. /\ Current(t) = Code[program][t][pc[t]] /\ pc[t] \in 1 .. Len(Code[program][t])
      /\ pc[t] \in DOMAIN Code[program][t]
  BY CurrentAccess DEF MemoryInv
<1>1. CASE t = 2
  <2>1. \A i \in DOMAIN StatisticsSeen : StatisticsSeen[i].op \in {"load", "go_unless"}
    BY DEF StatisticsSeen, Load, GoUnless, Access
  <2> QED
    BY <1>0, <1>1, <2>1, StatisticsCode
<1>2. CASE t = 1
  <2>1. pc[1] \in 1 .. 9 * NUM_ITEMS
    BY <1>0, <1>2, StatisticsCode
  <2>2. PICK k \in Nat, q \in 1 .. 9 :
          k = ((pc[1] - 1) \div 9) + 1 /\ q = ((pc[1] - 1) % 9) + 1
    BY <2>1, SizesAssumption
  <2>3. Current(t) = StatisticsItem(k)[q]
    BY <1>0, <1>2, <2>1, <2>2, StatisticsCode
  <2>4. /\ StatisticsItem(k)[1] = FetchAdd("processed_items", 1, "relaxed")
        /\ StatisticsItem(k)[2] = FetchAdd("total_time", 1, "relaxed")
        /\ StatisticsItem(k)[3] = Load("total_time", "relaxed")
        /\ StatisticsItem(k)[4] = Load("processed_items", "relaxed")
        /\ StatisticsItem(k)[5] = Store("average_time", k, "relaxed")
        /\ StatisticsItem(k)[6] = Load("m_n", "relaxed")
        /\ StatisticsItem(k)[7] = Load("s_n", "relaxed")
        /\ StatisticsItem(k)[8] = Store("m_n", k, "relaxed")
        /\ StatisticsItem(k)[9] = Store("s_n", k, "relaxed")
    BY DEF StatisticsItem
  <2>5. \/ /\ Current(t).op = "fetch_add" /\ Current(t).value = 1
           /\ PlaceOf(Current(t).object) = q
        \/ /\ Current(t).op = "store" /\ Current(t).value = k
           /\ PlaceOf(Current(t).object) = q
        \/ /\ Current(t).op = "load" /\ q \in {3, 4, 6, 7}
    <3>1. CASE q \in {1, 2}
      BY <2>3, <2>4, <3>1 DEF FetchAdd, Access, PlaceOf
    <3>2. CASE q \in {5, 8, 9}
      BY <2>3, <2>4, <3>2 DEF Store, Access, PlaceOf
    <3>3. CASE q \in {3, 4, 6, 7}
      BY <2>3, <2>4, <3>3 DEF Load, Access
    <3> QED
      BY <3>1, <3>2, <3>3
  <2> QED
    BY <1>2, <2>1, <2>2, <2>5
<1> QED
  BY <1>1, <1>2

LEMMA StatisticsInvInit == Init /\ program = "statistics" => StatisticsInv
<1> SUFFICES ASSUME Init, program = "statistics" PROVE StatisticsInv
  OBVIOUS
<1>1. MemoryInv /\ Objects = ObjectsOf(program)
  BY MemoryInvInit DEF MemoryInv, MemoryTypes, Objects
<1>2. PICK V : V = InitialView(ObjectsOf(program), Threads)
  OBVIOUS
<1>3. history = [o \in Objects |-> InitialHistory(V)] /\ pc = [t \in Threads |-> 1]
  BY <1>1, <1>2 DEF Init
<1>4. pc[1] = 1 /\ 1 <= 9 * NUM_ITEMS + 1
  BY <1>3, StatisticsCode, SizesAssumption DEF Threads
<1>5. ASSUME NEW o \in Objects PROVE Newest(o).value = Runs(PlaceOf(o), pc[1])
  <2>1. Newest(o).value = 0
    BY <1>3 DEF InitialHistory, Newest
  <2>2. PlaceOf(o) \in 1 .. 9
    BY <1>1, <1>5, StatisticsObjects DEF PlaceOf, written
  <2>3. \A q \in 1 .. 9 : Runs(q, 1) = 0
    BY DEF Runs
  <2> QED
    BY <1>4, <2>1, <2>2, <2>3
<1> QED
  BY <1>1, <1>4, <1>5 DEF StatisticsInv

LEMMA StatisticsInvStep ==
    ASSUME StatisticsInv, NEW t \in Threads, Moves(t)
    PROVE  StatisticsInv'
<1>0. /\ MemoryInv /\ MemoryTypes /\ program = "statistics" /\ Objects = ObjectsOf(program)
      /\ MemoryInv' /\ program' = program /\ Objects' = Objects /\ Threads' = Threads
  BY MemoryInvMoves DEF StatisticsInv, MemoryInv, MemoryTypes, Objects
<1>1. ~ AtEnd(t)
  BY DEF Moves, DoLoad, DoRead, DoStore, DoReadModifyWrite, DoWrite, Branch, IsAt
<1>2. /\ Threads = 1 .. 2 /\ pc[1] \in Nat \ {0} /\ pc[1] <= 9 * NUM_ITEMS + 1
      /\ \A o \in Objects : Newest(o).value = Runs(PlaceOf(o), pc[1]) /\ PlaceOf(o) \in 1 .. 9
  <2>1. Threads = 1 .. 2
    BY <1>0, StatisticsCode DEF Threads
  <2>2. \A o \in written : PlaceOf(o) \in 1 .. 9
    BY DEF PlaceOf, written
  <2> QED
    BY <1>0, <2>1, <2>2, StatisticsObjects DEF StatisticsInv, MemoryTypes
<1>3. CASE t = 2
  <2>1. Current(t).op \in {"load", "go_unless"}
    BY <1>0, <1>1, <1>3, StatisticsKind
  <2>2. Branch(t) \/ \E i \in Nat \ {0} : DoLoad(t, i)
    BY <2>1 DEF Moves, DoLoad, DoRead, DoStore, DoReadModifyWrite, DoWrite, Branch, IsAt
  <2>3. history' = history
    BY <2>2 DEF Branch, DoLoad
  <2>4. pc'[1] = pc[1]
    BY <1>0, <1>2, <1>3, <2>2, BranchStep, AdvanceStep DEF DoLoad
  <2> QED
    BY <1>0, <1>2, <2>3, <2>4 DEF StatisticsInv, Newest
<1>4. CASE t = 1
  <2>1. PICK q \in 1 .. 9 :
          /\ q = ((pc[1] - 1) % 9) + 1 /\ pc[1] \in 1 .. 9 * NUM_ITEMS
          /\ \/ /\ Current(t).op = "fetch_add" /\ Current(t).value = 1
                /\ PlaceOf(Current(t).object) = q
             \/ /\ Current(t).op = "store" /\ Current(t).value = (pc[1] - 1) \div 9 + 1
                /\ PlaceOf(Current(t).object) = q
             \/ /\ Current(t).op = "load" /\ q \in {3, 4, 6, 7}
    BY <1>0, <1>1, <1>4, StatisticsKind
  <2>2. PICK o \in Objects : o = Current(t).object
    BY <1>0, <1>1, CurrentAccess
  <2>3. \/ (\E i \in Nat \ {0} : DoLoad(t, i)) /\ Current(t).op = "load"
        \/ DoReadModifyWrite(t) /\ Current(t).op = "fetch_add"
        \/ DoStore(t) /\ Current(t).op = "store"
    BY <2>1 DEF Moves, DoLoad, DoRead, DoStore, DoReadModifyWrite, DoWrite, Branch, IsAt
  <2>4. Advance(t)
    BY <2>3 DEF DoLoad, DoStore, DoReadModifyWrite
  <2>5. pc'[1] = pc[1] + 1
    BY <1>0, <1>4, <2>4, AdvanceStep
  <2>6. pc'[1] <= 9 * NUM_ITEMS + 1
    BY <2>1, <2>5, SizesAssumption
  <2>7. \A x \in Objects : Runs(PlaceOf(x), pc'[1]) =
                             IF PlaceOf(x) = q THEN Runs(q, pc[1]) + 1 ELSE Runs(PlaceOf(x), pc[1])
    BY <1>2, <2>1, <2>5, RunsOnce
  <2>8. (pc[1] - 1) \div 9 = Runs(q, pc[1])
    BY <1>2, <2>1, RunsOnce
  <2>9. \A x, y \in written : PlaceOf(x) = PlaceOf(y) => x = y
    BY DEF PlaceOf, written
  <2>10. \A x \in written : PlaceOf(x) \notin {3, 4, 6, 7}
    BY DEF PlaceOf, written
  <2>11. Objects \subseteq written
    BY <1>0, StatisticsObjects
  <2>12. ASSUME \A x \in Objects : Newest(x)'.value = Runs(PlaceOf(x), pc'[1])
         PROVE  StatisticsInv'
    BY <1>0, <2>6, <2>12 DEF StatisticsInv
  <2>13. CASE (\E i \in Nat \ {0} : DoLoad(t, i)) /\ Current(t).op = "load"
    <3>1. history' = history
      BY <2>13 DEF DoLoad
    <3>2. \A x \in Objects : PlaceOf(x) # q
      BY <2>1, <2>10, <2>11, <2>13
    <3>3. \A x \in Objects : Newest(x)' = Newest(x)
      BY <3>1 DEF Newest
    <3> QED
      BY <1>2, <2>7, <2>12, <3>2, <3>3
  <2>14. ASSUME NEW v \in Views, NEW store \in Stores, Adds(t, o, v, store), PlaceOf(o) = q,
                store.value = Runs(q, pc[1]) + 1
         PROVE  StatisticsInv'
    <3>1. Newest(o)' = store /\ \A x \in Objects \ {o} : Newest(x)' = Newest(x)
      BY <1>0, <2>14, AddedNewest
    <3>2. \A x \in Objects \ {o} : PlaceOf(x) # q
      BY <2>9, <2>11, <2>14
    <3> QED
      BY <1>2, <2>7, <2>12, <2>14, <3>1, <3>2
  <2>15. CASE DoReadModifyWrite(t) /\ Current(t).op = "fetch_add"
    <3>1. Current(t).value = 1 /\ PlaceOf(o) = q
      BY <2>1, <2>2, <2>15
    <3>2. PICK v \in Views, store \in Stores :
            Adds(t, o, v, store) /\ store.value = Newest(o).value + 1
      BY <1>0, <2>2, <2>15, <3>1, ReadModifyWriteStep
    <3> QED
      BY <1>2, <2>14, <3>1, <3>2
  <2>16. CASE DoStore(t) /\ Current(t).op = "store"
    <3>1. Current(t).value = Runs(q, pc[1]) + 1 /\ PlaceOf(o) = q
      BY <2>1, <2>2, <2>8, <2>16
    <3>2. PICK v \in Views, store \in Stores :
            Adds(t, o, v, store) /\ store.value = Current(t).value
      BY <1>0, <2>2, <2>16, StoreStep
    <3> QED
      BY <2>14, <3>1, <3>2
  <2> QED
    BY <2>3, <2>13, <2>15, <2>16
<1> QED
  BY <1>2, <1>3, <1>4

(* What the mains that report something are known to keep.                  *)
ResultInv ==
    /\ program \in counting => CounterInv
    /\ program = "init_once" => InitOnceInv
    /\ program = "statistics" => StatisticsInv

LEMMA ResultInvStutter == ResultInv /\ UNCHANGED vars => ResultInv'
<1> SUFFICES ASSUME ResultInv, UNCHANGED vars PROVE ResultInv'
  OBVIOUS
<1>1. InitOnceInv => InitOnceInv'
  BY MemoryInvStutter DEF InitOnceInv, Winner, Initializes, Newest, Threads, vars
<1>2. StatisticsInv => StatisticsInv'
  BY MemoryInvStutter DEF StatisticsInv, Newest, Objects, vars
<1> QED
  BY <1>1, <1>2, CounterInvStutter DEF ResultInv, vars

LEMMA ResultInvHolds == Spec => []ResultInv
<1>1. Init => ResultInv
  BY CounterInvInit, InitOnceInvInit, StatisticsInvInit DEF ResultInv
<1>2. ResultInv /\ [Next]_vars => ResultInv'
  <2> SUFFICES ASSUME ResultInv, [Next]_vars PROVE ResultInv'
    OBVIOUS
  <2>1. CASE UNCHANGED vars
    BY <2>1, ResultInvStutter
  <2>2. ASSUME NEW t \in AnyThread, Step(t) PROVE ResultInv'
    <3>1. t \in Threads /\ Moves(t)
      BY <2>2, StepMoves
    <3>2. program' = program
      BY <3>1 DEF Moves, DoLoad, DoRead, DoStore, DoReadModifyWrite, DoWrite, Branch
    <3> QED
      BY <3>1, <3>2, CounterInvStep, InitOnceInvStep, StatisticsInvStep DEF ResultInv
  <2> QED
    BY <2>1, <2>2 DEF Next, Joined
<1> QED
  BY <1>1, <1>2, PTL DEF Spec

(* Whatever the schedule and the number of threads and iterations, no       *)
(* increment made under a lock or by fetch_add is lost, the unlocked        *)
(* counter never exceeds the sum, the statistics agree, and exactly one     *)
(* thread finds that it is the one to initialize: each value is the number  *)
(* of times the places that write it have been run.                         *)
THEOREM NothingLost == Spec => []ResultsExact
<1>1. ResultInv => ResultsExact
  <2> SUFFICES ASSUME ResultInv, AllEnded PROVE ResultsExact
    BY DEF ResultsExact, CountersExact, OneInitializer
  <2>1. ASSUME program = "statistics" PROVE \A o \in Objects : Newest(o).value = NUM_ITEMS
    <3>1. StatisticsInv /\ MemoryTypes /\ Objects = ObjectsOf(program)
      BY <2>1 DEF ResultInv, StatisticsInv, MemoryInv, MemoryTypes, Objects
    <3>2. 1 \in Threads /\ Len(Code[program][1]) = 9 * NUM_ITEMS
      BY <2>1, StatisticsCode DEF Threads
    <3>3. pc[1] = 9 * NUM_ITEMS + 1
      <4>1. pc[1] \in Nat /\ pc[1] > 9 * NUM_ITEMS /\ pc[1] <= 9 * NUM_ITEMS + 1
        BY <3>1, <3>2 DEF AllEnded, AtEnd, StatisticsInv, MemoryTypes
      <4> QED
        BY <4>1, SizesAssumption
    <3>4. \A q \in 1 .. 9 : Runs(q, pc[1]) = NUM_ITEMS
      BY <3>3, SizesAssumption DEF Runs
    <3>5. \A o \in written : PlaceOf(o) \in 1 .. 9
      BY DEF PlaceOf, written
    <3> QED
      BY <2>1, <3>1, <3>4, <3>5, StatisticsObjects DEF StatisticsInv
  <2>2. ASSUME program = "init_once"
        PROVE  \E winner \in Threads :
                 /\ \A t \in Threads : register[t]["init_thread"] = 0 <=> t = winner
                 /\ Newest("init_thread").value = winner
    <3>1. InitOnceInv /\ MemoryInv
      BY <2>2 DEF ResultInv, InitOnceInv
    <3>2. /\ 1 \in Threads
          /\ \A t \in Threads : Len(Code[program][t]) = 3 /\ pc[t] \in 1 .. 4 /\ pc[t] > 3
      <4>1. 1 \in Threads /\ \A t \in Threads : Len(Code[program][t]) = 3
        BY <2>2, <3>1, InitOnceKind, SizesAssumption
      <4>2. \A t \in Threads : pc[t] \in 1 .. 4
        BY <3>1 DEF InitOnceInv
      <4> QED
        BY <4>1, <4>2 DEF AllEnded, AtEnd
    <3>3. \A t \in Threads : pc[t] = 4
      BY <3>2
    <3>4. Winner # 0
      BY <3>1, <3>2, <3>3 DEF InitOnceInv
    <3> QED
      BY <3>1, <3>3, <3>4 DEF InitOnceInv, Initializes, Winner
  <2>3. CountersExact
    BY <2>1, CountersEnd DEF CountersExact, ResultInv, counting, locked
  <2> QED
    BY <2>2, <2>3 DEF ResultsExact, OneInitializer
<1> QED
  BY <1>1, ResultInvHolds, PTL
=============================================================================
