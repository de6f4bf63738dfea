---------------------------- MODULE FutureProofs ----------------------------
(***************************************************************************)
(* Threads that meet at futures.                                           *)
(*                                                                         *)
(* The queue of futures, for any finite sets of producers and consumers    *)
(* and any number of results: no wakeup is lost, the queue is a FIFO, each *)
(* future goes to one consumer, and what a consumer waits for has its      *)
(* value or a producer that is about to set it.                            *)
(*                                                                         *)
(* The programs of TaskGraph, all 27, for any number of tasks and permits: *)
(* a function runs once and after what it depends on, an exception reaches *)
(* main, and the permits of the semaphore are given back.                  *)
(***************************************************************************)
EXTENDS FutureQueue, TaskGraph, CommonTheorems
(* A blocked consumer is in pop(), a consumer has a result for each future  *)
(* that it popped but the one it waits for, and its loop counts both.       *)
ConsumersHold ==
    \A c \in Consumers :
        /\ c \in cond_var_ => waiting[c] = None /\ Len(popped[c]) < Quota[c]
        /\ Len(popped[c]) <= Quota[c]
        /\ Len(popped[c]) = IF waiting[c] = None THEN results[c] ELSE results[c] + 1

(* A future that was pushed is ready, or it is that of the promise its      *)
(* producer still holds.                                                    *)
WasPushed(x) == x \in Future /\ x[2] > 0 /\ x[2] <= sent[x[1]]
AllAnswered ==
    \A p \in Producers : \A i \in 1 .. sent[p] :
        <<p, i>> \in ready \/ (p \in unset /\ i = sent[p])

(* The futures in the queue and with the consumers were pushed, and each is *)
(* in one place.                                                            *)
OnlyPushed ==
    /\ \A i \in DOMAIN queue_ : WasPushed(queue_[i])
    /\ \A c \in Consumers : \A i \in DOMAIN popped[c] : WasPushed(popped[c][i])
    /\ \A c \in Consumers : waiting[c] # None => WasPushed(waiting[c])
GoneOnce ==
    \A c, d \in Consumers : \A i \in DOMAIN popped[c], j \in DOMAIN popped[d] :
        popped[c][i] = popped[d][j] => c = d /\ i = j
QueuedOnce ==
    /\ \A i, j \in DOMAIN queue_ : queue_[i] = queue_[j] => i = j
    /\ \A c \in Consumers : \A i \in DOMAIN popped[c], j \in DOMAIN queue_ :
           popped[c][i] # queue_[j]

Inside == QueueTypeOK /\ ConsumersHold /\ AllAnswered
EachInOnePlace == OnlyPushed /\ GoneOnce /\ QueuedOnce

QueueIInv == Inside /\ WakeupForFuture /\ EachInOnePlace

LEMMA ThreadSets ==
    /\ Producers \subseteq Thread /\ Consumers \subseteq Thread
    /\ IsFiniteSet(Producers) /\ IsFiniteSet(Consumers)
    /\ \A t \in Thread : Quota[t] \in Nat
<1>1. Producers \subseteq Thread /\ Consumers \subseteq Thread
  BY DEF Thread
<1> QED
  BY <1>1, ThreadAssumption, FS_Subset

LEMMA NoneIsNone == \A x \in Future : x # None
  BY DEF Future, None
-----------------------------------------------------------------------------
(* Types, and what the consumers and the promises know *)

LEMMA InsideInit == QueueInit => Inside
<1> SUFFICES ASSUME QueueInit PROVE Inside
  OBVIOUS
<1>1. QueueTypeOK
  <2>1. queue_ \in Seq(Future) /\ popped \in [Consumers -> Seq(Future)]
    BY DEF QueueInit
  <2>2. /\ \A p \in Producers : sent[p] <= Quota[p]
        /\ \A c \in Consumers : results[c] <= Quota[c]
    BY ThreadSets DEF QueueInit
  <2> QED
    BY <2>1, <2>2 DEF QueueInit, QueueTypeOK
<1>2. ConsumersHold
  <2>1. \A c \in Consumers : Len(popped[c]) = 0 /\ 0 <= Quota[c]
    BY ThreadSets DEF QueueInit
  <2> QED
    BY <2>1 DEF QueueInit, ConsumersHold
<1>3. AllAnswered
  BY DEF QueueInit, AllAnswered
<1> QED
  BY <1>1, <1>2, <1>3 DEF Inside

LEMMA InsideStep == Inside /\ [QueueNext]_queueVars => Inside'
<1> SUFFICES ASSUME Inside, [QueueNext]_queueVars PROVE Inside'
  OBVIOUS
<1>a. QueueTypeOK /\ ConsumersHold /\ AllAnswered
  BY DEF Inside
<1>q. /\ \A p \in Producers : Quota[p] \in Nat
      /\ \A c \in Consumers : Quota[c] \in Nat
  BY ThreadSets
<1>1. ASSUME NEW p \in Producers, Push(p) PROVE Inside'
  <2>1. /\ sent[p] \in Nat /\ sent[p] + 1 <= Quota[p] /\ p \notin unset
        /\ sent' = [sent EXCEPT ![p] = sent[p] + 1]
        /\ <<p, sent[p] + 1>> \in Future /\ cond_var_' \subseteq cond_var_
        /\ UNCHANGED <<ready, waiting, popped, results>>
    BY <1>1, <1>a, <1>q DEF Push, NotifyOne, QueueTypeOK, Future
  <2>2. queue_' \in Seq(Future)
    BY <1>1, <1>a, <2>1 DEF Push, QueueTypeOK
  <2>3. /\ sent' \in [Producers -> Nat]
        /\ \A r \in Producers : sent'[r] <= Quota[r]
    BY <1>a, <2>1 DEF QueueTypeOK
  <2>4. QueueTypeOK'
    BY <1>1, <1>a, <2>1, <2>2, <2>3 DEF Push, QueueTypeOK
  <2>5. ConsumersHold'
    BY <1>a, <2>1 DEF ConsumersHold
  <2>6. AllAnswered'
    <3> SUFFICES ASSUME NEW r \in Producers, NEW i \in 1 .. sent'[r]
                 PROVE  <<r, i>> \in ready \/ (r \in unset' /\ i = sent'[r])
      BY <2>1 DEF AllAnswered
    <3>1. CASE r = p
      <4>1. i \in 1 .. sent[p] \/ i = sent[p] + 1
        BY <1>a, <2>1, <3>1 DEF QueueTypeOK
      <4> QED
        BY <1>1, <1>a, <2>1, <3>1, <4>1 DEF Push, AllAnswered, QueueTypeOK
    <3>2. CASE r # p
      BY <1>1, <1>a, <2>1, <3>2 DEF Push, AllAnswered, QueueTypeOK
    <3> QED
      BY <3>1, <3>2
  <2> QED
    BY <2>4, <2>5, <2>6 DEF Inside
<1>2. ASSUME NEW p \in Producers, SetValue(p) PROVE Inside'
  <2>1. <<p, sent[p]>> \in Future
    BY <1>a DEF QueueTypeOK, Future
  <2>2. QueueTypeOK'
    BY <1>2, <1>a, <2>1 DEF SetValue, QueueTypeOK
  <2>3. ConsumersHold'
    BY <1>2, <1>a DEF SetValue, ConsumersHold
  <2>4. AllAnswered'
    BY <1>2, <1>a DEF SetValue, AllAnswered
  <2> QED
    BY <2>2, <2>3, <2>4 DEF Inside
<1>3. ASSUME NEW c \in Consumers, WaitForFuture(c) PROVE Inside'
  BY <1>3, <1>a DEF WaitForFuture, AtPop, Inside, QueueTypeOK, ConsumersHold, AllAnswered
<1>4. ASSUME NEW c \in Consumers, Pop(c) PROVE Inside'
  <2>1. /\ Head(queue_) \in Future /\ Tail(queue_) \in Seq(Future)
        /\ Head(queue_) # None /\ waiting[c] = None
        /\ popped[c] \in Seq(Future) /\ Len(popped[c]) < Quota[c]
        /\ popped' = [popped EXCEPT ![c] = Append(popped[c], Head(queue_))]
        /\ waiting' = [waiting EXCEPT ![c] = Head(queue_)]
        /\ UNCHANGED <<cond_var_, sent, unset, ready, results>>
        /\ c \notin cond_var_
    BY <1>4, <1>a, NoneIsNone DEF Pop, AtPop, QueueTypeOK
  <2>2. /\ Append(popped[c], Head(queue_)) \in Seq(Future)
        /\ Len(Append(popped[c], Head(queue_))) = Len(popped[c]) + 1
        /\ Len(popped[c]) \in Nat
    BY <2>1
  <2>3. QueueTypeOK'
    BY <1>4, <1>a, <2>1, <2>2 DEF Pop, QueueTypeOK
  <2>4. ConsumersHold'
    BY <1>a, <1>q, <2>1, <2>2 DEF ConsumersHold, QueueTypeOK
  <2>5. AllAnswered'
    BY <1>a, <2>1 DEF AllAnswered
  <2> QED
    BY <2>3, <2>4, <2>5 DEF Inside
<1>5. ASSUME NEW c \in Consumers, GetResult(c) PROVE Inside'
  <2>1. /\ waiting[c] # None /\ results[c] \in Nat
        /\ results' = [results EXCEPT ![c] = results[c] + 1]
        /\ waiting' = [waiting EXCEPT ![c] = None]
        /\ UNCHANGED <<queue_, cond_var_, sent, unset, ready, popped>>
    BY <1>5, <1>a, NoneIsNone DEF GetResult, QueueTypeOK
  <2>2. Len(popped[c]) = results[c] + 1 /\ Len(popped[c]) <= Quota[c]
    BY <1>a, <2>1 DEF ConsumersHold
  <2>3. QueueTypeOK'
    BY <1>a, <2>1, <2>2 DEF QueueTypeOK
  <2>4. ConsumersHold'
    BY <1>a, <2>1, <2>2 DEF ConsumersHold, QueueTypeOK
  <2>5. AllAnswered'
    BY <1>a, <2>1 DEF AllAnswered
  <2> QED
    BY <2>3, <2>4, <2>5 DEF Inside
<1>6. ASSUME NEW c \in Consumers, SpuriousWakeup(c) PROVE Inside'
  BY <1>6, <1>a DEF SpuriousWakeup, Inside, QueueTypeOK, ConsumersHold, AllAnswered
<1>7. CASE Joined \/ UNCHANGED queueVars
  BY <1>7, <1>a DEF Joined, queueVars, Inside, QueueTypeOK, ConsumersHold, AllAnswered
<1> QED
  BY <1>1, <1>2, <1>3, <1>4, <1>5, <1>6, <1>7
  DEF QueueNext, ProducerStep, ConsumerStep
-----------------------------------------------------------------------------
(* Wakeups *)

AtPops == { c \in Consumers : AtPop(c) }
ready_to_pop == Cardinality(AtPops)

LEMMA AtPopsFinite == IsFiniteSet(AtPops) /\ ready_to_pop \in Nat
<1>1. AtPops \subseteq Consumers
  BY DEF AtPops
<1>2. IsFiniteSet(AtPops)
  BY <1>1, ThreadSets, FS_Subset
<1> QED
  BY <1>2, FS_CardinalityType DEF ready_to_pop

(* A step changes the number of consumers about to pop by one consumer.     *)
LEMMA AtPopsMove ==
    ASSUME NEW c,
           \A d \in Consumers \ {c} :
               /\ waiting'[d] = waiting[d] /\ popped'[d] = popped[d]
               /\ d \in cond_var_' <=> d \in cond_var_
    PROVE  /\ ready_to_pop' \in Nat
           /\ c \in AtPops' /\ c \notin AtPops => ready_to_pop' = ready_to_pop + 1
           /\ c \notin AtPops' /\ c \in AtPops => ready_to_pop' = ready_to_pop - 1
           /\ (c \in AtPops' <=> c \in AtPops) => ready_to_pop' = ready_to_pop
<1>1. AtPops' \ {c} = AtPops \ {c}
  BY DEF AtPops, AtPop
<1> HIDE DEF AtPops
<1> QED
  BY <1>1, AtPopsFinite, CardinalityMove DEF ready_to_pop

LEMMA WakeupStep ==
    ASSUME Inside, WakeupForFuture, [QueueNext]_queueVars
    PROVE  WakeupForFuture'
<1>a. /\ QueueTypeOK /\ ConsumersHold /\ cond_var_ \subseteq Consumers
      /\ cond_var_ # {} => Len(queue_) <= ready_to_pop
  BY DEF Inside, WakeupForFuture, QueueTypeOK, ready_to_pop, AtPops
<1>b. ready_to_pop \in Nat /\ Len(queue_) \in Nat
  BY AtPopsFinite, <1>a DEF QueueTypeOK
<1> SUFFICES ASSUME cond_var_' # {}
             PROVE  Len(queue_') <= ready_to_pop'
  BY DEF WakeupForFuture, ready_to_pop, AtPops
(* A waiter is woken for the future that is pushed. *)
<1>1. ASSUME NEW p \in Producers, Push(p)
      PROVE  Len(queue_') <= ready_to_pop'
  <2>1. /\ cond_var_' \in NotifyOne(cond_var_) /\ cond_var_ # {}
        /\ UNCHANGED <<waiting, popped>>
        /\ Len(queue_') = Len(queue_) + 1
    BY <1>1, <1>a DEF Push, NotifyOne, QueueTypeOK
  <2>2. PICK c \in cond_var_ : cond_var_' = cond_var_ \ {c}
    BY <2>1 DEF NotifyOne
  <2>3. \A d \in Consumers \ {c} :
            /\ waiting'[d] = waiting[d] /\ popped'[d] = popped[d]
            /\ d \in cond_var_' <=> d \in cond_var_
    BY <2>1, <2>2
  <2>4. c \in AtPops' /\ c \notin AtPops
    BY <2>1, <2>2, <1>a DEF ConsumersHold, AtPops, AtPop
  <2>5. ready_to_pop' = ready_to_pop + 1
    BY <2>3, <2>4, AtPopsMove
  <2> QED
    BY <2>1, <2>5, <1>a, <1>b
<1>2. CASE (\E p \in Producers : SetValue(p)) \/ Joined \/ UNCHANGED queueVars
  <2>1. UNCHANGED <<queue_, cond_var_, waiting, popped>>
    BY <1>2 DEF SetValue, Joined, queueVars
  <2>2. ready_to_pop' = ready_to_pop
    BY <2>1 DEF ready_to_pop, AtPops, AtPop
  <2> QED
    BY <2>1, <2>2, <1>a, <1>b
<1>3. ASSUME NEW c \in Consumers, WaitForFuture(c)
      PROVE  Len(queue_') <= ready_to_pop'
  <2>1. /\ Len(queue_') = 0 /\ UNCHANGED <<waiting, popped>>
        /\ cond_var_' = cond_var_ \cup {c}
    BY <1>3 DEF WaitForFuture
  <2>2. \A d \in Consumers \ {c} :
            /\ waiting'[d] = waiting[d] /\ popped'[d] = popped[d]
            /\ d \in cond_var_' <=> d \in cond_var_
    BY <2>1
  <2>3. ready_to_pop' \in Nat
    BY <2>2, AtPopsMove
  <2>4. \A n \in Nat : 0 <= n
    OBVIOUS
  <2> QED
    BY <2>1, <2>3, <2>4, Zenon
(* The consumer that pops is no longer about to. *)
<1>4. ASSUME NEW c \in Consumers, Pop(c)
      PROVE  Len(queue_') <= ready_to_pop'
  <2>1. /\ cond_var_' = cond_var_ /\ Len(queue_') = Len(queue_) - 1
        /\ Head(queue_) # None /\ AtPop(c)
    BY <1>4, <1>a, NoneIsNone DEF Pop, QueueTypeOK
  <2>2. \A d \in Consumers \ {c} :
            /\ waiting'[d] = waiting[d] /\ popped'[d] = popped[d]
            /\ d \in cond_var_' <=> d \in cond_var_
    BY <1>4, <1>a DEF Pop, QueueTypeOK
  <2>3. c \in AtPops /\ c \notin AtPops'
    BY <1>4, <1>a, <2>1 DEF Pop, AtPops, AtPop, QueueTypeOK
  <2>4. ready_to_pop' = ready_to_pop - 1
    BY <2>2, <2>3, AtPopsMove
  <2> QED
    BY <2>1, <2>4, <1>a, <1>b
(* A result, or a spurious wakeup, makes no consumer stop popping. *)
<1>5. ASSUME NEW c \in Consumers, GetResult(c) \/ SpuriousWakeup(c)
      PROVE  Len(queue_') <= ready_to_pop'
  <2>1. queue_' = queue_ /\ cond_var_ # {}
    BY <1>5 DEF GetResult, SpuriousWakeup
  <2>2. \A d \in Consumers \ {c} :
            /\ waiting'[d] = waiting[d] /\ popped'[d] = popped[d]
            /\ d \in cond_var_' <=> d \in cond_var_
    BY <1>5, <1>a DEF GetResult, SpuriousWakeup, QueueTypeOK
  <2>3. c \in AtPops => c \in AtPops'
    BY <1>5, <1>a DEF GetResult, SpuriousWakeup, AtPops, AtPop, QueueTypeOK
  <2>4. ready_to_pop' = ready_to_pop \/ ready_to_pop' = ready_to_pop + 1
    BY <2>2, <2>3, AtPopsMove
  <2> QED
    BY <2>1, <2>4, <1>a, <1>b
<1> QED
  BY <1>1, <1>2, <1>3, <1>4, <1>5 DEF QueueNext, ProducerStep, ConsumerStep
-----------------------------------------------------------------------------
(* Where the futures are *)

LEMMA PlacesInit == QueueInit => EachInOnePlace
<1> SUFFICES ASSUME QueueInit PROVE EachInOnePlace
  OBVIOUS
<1>1. /\ DOMAIN queue_ = {} /\ \A c \in Consumers : DOMAIN popped[c] = {}
      /\ \A c \in Consumers : waiting[c] = None
  BY DEF QueueInit
<1> QED
  BY <1>1 DEF EachInOnePlace, OnlyPushed, GoneOnce, QueuedOnce

(* The future of a new promise is in no place yet.                          *)
LEMMA PushIsNew ==
    ASSUME Inside, EachInOnePlace, NEW p \in Producers, Push(p)
    PROVE  LET x == <<p, sent[p] + 1>>
           IN  /\ x \in Future /\ ~ WasPushed(x)
               /\ sent[p] \in Nat /\ sent[p] < Quota[p]
               /\ \A i \in DOMAIN queue_ : queue_[i] # x
               /\ \A c \in Consumers : \A i \in DOMAIN popped[c] : popped[c][i] # x
<1> DEFINE x == <<p, sent[p] + 1>>
<1>1. sent[p] \in Nat /\ sent[p] < Quota[p]
  BY DEF Inside, QueueTypeOK, Push
<1>2. x \in Future /\ ~ WasPushed(x)
  BY <1>1 DEF Future, WasPushed
<1> HIDE DEF x
<1>3. /\ \A i \in DOMAIN queue_ : queue_[i] # x
      /\ \A c \in Consumers : \A i \in DOMAIN popped[c] : popped[c][i] # x
  BY <1>2 DEF EachInOnePlace, OnlyPushed
<1> QED
  BY <1>1, <1>2, <1>3 DEF x

LEMMA PlacesPush ==
    ASSUME Inside, EachInOnePlace, NEW p \in Producers, Push(p)
    PROVE  EachInOnePlace'
<1> DEFINE x == <<p, sent[p] + 1>>
           n == Len(queue_)
<1>a. /\ x \in Future /\ ~ WasPushed(x) /\ sent[p] \in Nat
      /\ \A i \in DOMAIN queue_ : queue_[i] # x
      /\ \A c \in Consumers : \A i \in DOMAIN popped[c] : popped[c][i] # x
  BY PushIsNew
<1>b. /\ sent \in [Producers -> Nat] /\ sent' = [sent EXCEPT ![p] = sent[p] + 1]
      /\ UNCHANGED <<waiting, popped>>
  BY DEF Inside, QueueTypeOK, Push
<1>c. OnlyPushed /\ GoneOnce /\ QueuedOnce
  BY DEF EachInOnePlace
<1>d. \A y : WasPushed(y) \/ y = x
               => y \in Future /\ y[2] > 0 /\ y[2] <= sent'[y[1]]
  <2>1. \A y \in Future : y[1] \in Producers /\ y[2] \in Nat
    BY DEF Future
  <2> QED
    BY <1>a, <1>b, <2>1 DEF WasPushed
<1> HIDE DEF x
<1>e. /\ n \in Nat /\ DOMAIN queue_ = 1 .. n /\ DOMAIN queue_' = 1 .. n + 1
      /\ queue_'[n + 1] = x /\ \A i \in 1 .. n : queue_'[i] = queue_[i]
  <2>1. queue_ \in Seq(Future) /\ queue_' = Append(queue_, x)
    BY DEF Inside, QueueTypeOK, Push, x
  <2> QED
    BY <1>a, <2>1
<1> HIDE DEF n
<1>1. OnlyPushed'
  <2>1. \A i \in DOMAIN queue_' : WasPushed(queue_'[i]) \/ queue_'[i] = x
    BY <1>c, <1>e DEF OnlyPushed
  <2>2. /\ \A c \in Consumers : \A i \in DOMAIN popped'[c] : WasPushed(popped'[c][i])
        /\ \A c \in Consumers : waiting'[c] # None => WasPushed(waiting'[c])
    BY <1>b, <1>c DEF OnlyPushed
  <2> DEFINE Fits(y) == y \in Future /\ y[2] > 0 /\ y[2] <= sent'[y[1]]
  <2>3. \A y : WasPushed(y) \/ y = x => Fits(y)
    BY <1>d
  <2> HIDE DEF Fits
  <2>4. /\ \A i \in DOMAIN queue_' : Fits(queue_'[i])
        /\ \A c \in Consumers : \A i \in DOMAIN popped'[c] : Fits(popped'[c][i])
        /\ \A c \in Consumers : waiting'[c] # None => Fits(waiting'[c])
    BY <2>1, <2>2, <2>3
  <2> QED
    BY <2>4 DEF OnlyPushed, WasPushed, Fits
<1>2. GoneOnce'
  BY <1>b, <1>c DEF GoneOnce
<1>3. QueuedOnce'
  <2>1. \A i, j \in DOMAIN queue_' : queue_'[i] = queue_'[j] => i = j
    BY <1>a, <1>c, <1>e DEF QueuedOnce
  <2>2. \A c \in Consumers : \A i \in DOMAIN popped'[c], j \in DOMAIN queue_' :
            popped'[c][i] # queue_'[j]
    BY <1>a, <1>b, <1>c, <1>e DEF QueuedOnce
  <2> QED
    BY <2>1, <2>2 DEF QueuedOnce
<1> QED
  BY <1>1, <1>2, <1>3 DEF EachInOnePlace

LEMMA PlacesPop ==
    ASSUME Inside, EachInOnePlace, NEW c \in Consumers, Pop(c)
    PROVE  EachInOnePlace'
<1> DEFINE x == Head(queue_)
           s == popped[c]
           t == popped'[c]
<1>a. /\ x \in Future /\ 1 \in DOMAIN queue_ /\ x = queue_[1]
      /\ \A i \in DOMAIN queue_' : /\ i \in Nat /\ i + 1 \in DOMAIN queue_
                                   /\ i + 1 # 1 /\ queue_'[i] = queue_[i + 1]
  <2>1. queue_ \in Seq(Future) /\ queue_ # << >> /\ queue_' = Tail(queue_)
    BY DEF Inside, QueueTypeOK, Pop
  <2>2. /\ Len(queue_) \in Nat \ {0} /\ DOMAIN queue_ = 1 .. Len(queue_)
        /\ Head(queue_) = queue_[1] /\ Head(queue_) \in Future
    BY <2>1
  <2>3. /\ DOMAIN queue_' = 1 .. Len(queue_) - 1
        /\ \A i \in 1 .. Len(queue_) - 1 : queue_'[i] = queue_[i + 1]
    BY <2>1
  <2> QED
    BY <2>2, <2>3
<1>b. /\ popped \in [Consumers -> Seq(Future)] /\ s \in Seq(Future)
      /\ popped' = [popped EXCEPT ![c] = Append(s, x)]
      /\ waiting' = [waiting EXCEPT ![c] = x] /\ sent' = sent
      /\ waiting \in [Consumers -> Future \cup {None}]
  BY DEF Inside, QueueTypeOK, Pop
<1>c. OnlyPushed /\ GoneOnce /\ QueuedOnce
  BY DEF EachInOnePlace
<1>d. t = Append(s, x) /\ \A d \in Consumers \ {c} : popped'[d] = popped[d]
  BY <1>b
<1> HIDE DEF x, s, t
<1>e. /\ DOMAIN s = 1 .. Len(s) /\ DOMAIN t = 1 .. Len(s) + 1
      /\ Len(s) \in Nat /\ t[Len(s) + 1] = x
      /\ \A i \in 1 .. Len(s) : t[i] = s[i]
  BY <1>a, <1>b, <1>d
(* What a consumer has popped is what it had, or the head of the queue. *)
<1>f. \A d \in Consumers : \A i \in DOMAIN popped'[d] :
          \/ i \in DOMAIN popped[d] /\ popped'[d][i] = popped[d][i]
          \/ d = c /\ i = Len(s) + 1 /\ popped'[d][i] = x
  BY <1>d, <1>e DEF s, t
<1>g. \A d \in Consumers : \A i \in DOMAIN popped[d] : popped[d][i] # x
  BY <1>a, <1>c DEF QueuedOnce
<1>1. OnlyPushed'
  <2>1. WasPushed(x)
    BY <1>a, <1>c DEF OnlyPushed
  <2>2. \A i \in DOMAIN queue_' : WasPushed(queue_'[i])
    BY <1>a, <1>c DEF OnlyPushed
  <2>3. \A d \in Consumers : \A i \in DOMAIN popped'[d] : WasPushed(popped'[d][i])
    BY <1>c, <1>f, <2>1 DEF OnlyPushed
  <2>4. \A d \in Consumers : waiting'[d] # None => WasPushed(waiting'[d])
    BY <1>b, <1>c, <2>1 DEF OnlyPushed
  <2> QED
    BY <1>b, <2>2, <2>3, <2>4 DEF OnlyPushed, WasPushed
<1>2. GoneOnce'
  <2> SUFFICES ASSUME NEW d \in Consumers, NEW e \in Consumers,
                      NEW i \in DOMAIN popped'[d], NEW j \in DOMAIN popped'[e],
                      popped'[d][i] = popped'[e][j]
               PROVE  d = e /\ i = j
    BY DEF GoneOnce
  <2>1. CASE popped'[d][i] = x
    <3>1. d = c /\ i = Len(s) + 1
      BY <1>f, <1>g, <2>1
    <3>2. e = c /\ j = Len(s) + 1
      BY <1>f, <1>g, <2>1
    <3> QED
      BY <3>1, <3>2
  <2>2. CASE popped'[d][i] # x
    BY <1>c, <1>f, <2>2 DEF GoneOnce
  <2> QED
    BY <2>1, <2>2
<1>3. QueuedOnce'
  <2>1. ASSUME NEW i \in DOMAIN queue_', NEW j \in DOMAIN queue_',
               queue_'[i] = queue_'[j]
        PROVE  i = j
    <3>1. i + 1 = j + 1
      BY <1>a, <1>c, <2>1 DEF QueuedOnce
    <3>2. i \in Nat /\ j \in Nat
      BY <1>a
    <3> QED
      BY <3>1, <3>2
  <2>2. \A j \in DOMAIN queue_' : queue_'[j] # x
    BY <1>a, <1>c DEF QueuedOnce
  <2>3. \A d \in Consumers : \A i \in DOMAIN popped'[d], j \in DOMAIN queue_' :
            popped'[d][i] # queue_'[j]
    BY <1>a, <1>c, <1>f, <2>2 DEF QueuedOnce
  <2> QED
    BY <2>1, <2>3 DEF QueuedOnce
<1> QED
  BY <1>1, <1>2, <1>3 DEF EachInOnePlace

LEMMA PlacesStep == Inside /\ EachInOnePlace /\ [QueueNext]_queueVars => EachInOnePlace'
<1> SUFFICES ASSUME Inside, EachInOnePlace, [QueueNext]_queueVars PROVE EachInOnePlace'
  OBVIOUS
<1>1. CASE \E p \in Producers : Push(p)
  BY <1>1, PlacesPush
<1>2. CASE \E c \in Consumers : Pop(c)
  BY <1>2, PlacesPop
<1>3. CASE \E c \in Consumers : GetResult(c)
  <2> PICK c \in Consumers : GetResult(c)
    BY <1>3
  <2>1. /\ waiting' = [waiting EXCEPT ![c] = None]
        /\ waiting \in [Consumers -> Future \cup {None}]
        /\ UNCHANGED <<queue_, popped, sent>>
    BY DEF GetResult, Inside, QueueTypeOK
  <2> QED
    BY <2>1 DEF EachInOnePlace, OnlyPushed, WasPushed, GoneOnce, QueuedOnce
<1>4. CASE UNCHANGED <<queue_, popped, waiting, sent>>
  BY <1>4 DEF EachInOnePlace, OnlyPushed, WasPushed, GoneOnce, QueuedOnce
<1>5. \/ \E p \in Producers : Push(p)
      \/ \E c \in Consumers : Pop(c) \/ GetResult(c)
      \/ UNCHANGED <<queue_, popped, waiting, sent>>
  BY DEF QueueNext, ProducerStep, ConsumerStep, SetValue, WaitForFuture, SpuriousWakeup,
         Joined, queueVars
<1> QED
  BY <1>1, <1>2, <1>3, <1>4, <1>5
-----------------------------------------------------------------------------
LEMMA Invariance == QueueSpec => []QueueIInv
<1>1. QueueInit => QueueIInv
  <2>1. QueueInit => WakeupForFuture
    BY DEF QueueInit, WakeupForFuture
  <2> QED
    BY <2>1, InsideInit, PlacesInit DEF QueueIInv
<1>2. QueueIInv /\ [QueueNext]_queueVars => QueueIInv'
  BY InsideStep, WakeupStep, PlacesStep DEF QueueIInv
<1> QED
  BY <1>1, <1>2, PTL DEF QueueSpec

(* The types of the queue and of what the threads hold.                     *)
THEOREM QueueTypeCorrect == QueueSpec => []QueueTypeOK
<1>1. QueueIInv => QueueTypeOK
  BY DEF QueueIInv, Inside
<1> QED
  BY <1>1, Invariance, PTL

(* No wakeup is lost: push() wakes at most one consumer, and there is one   *)
(* about to pop for each future in the queue as long as another sleeps.     *)
THEOREM WakeupsKept == QueueSpec => []WakeupForFuture
<1>1. QueueIInv => WakeupForFuture
  BY DEF QueueIInv
<1> QED
  BY <1>1, Invariance, PTL

(* The future a consumer waits for has its value, or its producer still     *)
(* holds the promise and needs no consumer to set it.                       *)
AnswerComes ==
    \A c \in Consumers : waiting[c] # None =>
        \/ waiting[c] \in ready
        \/ \E p \in unset : waiting[c] = <<p, sent[p]>>
THEOREM AnswersCome == QueueSpec => []AnswerComes
<1>1. QueueIInv => AnswerComes
  <2> SUFFICES ASSUME QueueIInv, NEW c \in Consumers, waiting[c] # None
               PROVE  \/ waiting[c] \in ready
                      \/ \E p \in unset : waiting[c] = <<p, sent[p]>>
    BY DEF AnswerComes
  <2>1. WasPushed(waiting[c])
    BY DEF QueueIInv, EachInOnePlace, OnlyPushed
  <2>2. PICK p \in Producers, i \in Nat : waiting[c] = <<p, i>>
    BY <2>1 DEF WasPushed, Future
  <2>3. i \in 1 .. sent[p]
    BY <2>1, <2>2 DEF WasPushed, QueueIInv, Inside, QueueTypeOK
  <2> QED
    BY <2>2, <2>3 DEF QueueIInv, Inside, AllAnswered
<1> QED
  BY <1>1, Invariance, PTL

(* No two pop()s return the same future, on which get() may be called once. *)
THEOREM PoppedOnce == QueueSpec => []GoneOnce
<1>1. QueueIInv => GoneOnce
  BY DEF QueueIInv, EachInOnePlace
<1> QED
  BY <1>1, Invariance, PTL

(* Deadlock freedom, without ENABLED.  A producer has a step until its loop *)
(* is over, a consumer if it is awake in pop() or the future it waits for   *)
(* is ready.                                                                *)
ProducerCanStep(p) == p \in unset \/ sent[p] < Quota[p]
ConsumerCanStep(c) == AtPop(c) \/ waiting[c] \in ready

(* Nobody waits in a circle, although consumers wait for promises and       *)
(* producers go to sleep before they set them: some thread has a step until *)
(* the producers have set all their promises, and the consumers have all    *)
(* results they want or have emptied the queue.                             *)
THEOREM NeverStuck ==
    QueueSpec => [](\/ \E p \in Producers : ProducerCanStep(p)
                    \/ \E c \in Consumers : ConsumerCanStep(c)
                    \/ /\ \A p \in Producers : sent[p] = Quota[p]
                       /\ queue_ = << >> \/ \A c \in Consumers : results[c] = Quota[c])
<1>1. ASSUME QueueIInv, \A p \in Producers : ~ ProducerCanStep(p),
             \A c \in Consumers : ~ ConsumerCanStep(c)
      PROVE  /\ \A p \in Producers : sent[p] = Quota[p]
             /\ queue_ = << >> \/ \A c \in Consumers : results[c] = Quota[c]
  <2>a. /\ QueueTypeOK /\ ConsumersHold /\ AllAnswered
        /\ OnlyPushed /\ WakeupForFuture
    BY <1>1 DEF QueueIInv, Inside, EachInOnePlace
  <2>1. \A p \in Producers : sent[p] = Quota[p] /\ p \notin unset
    BY <1>1, <2>a, ThreadSets DEF ProducerCanStep, QueueTypeOK
  <2>2. \A c \in Consumers : waiting[c] = None
    <3> SUFFICES ASSUME NEW c \in Consumers, waiting[c] # None PROVE FALSE
      OBVIOUS
    <3>1. waiting[c] \in Producers \X Nat /\ WasPushed(waiting[c])
      BY <2>a DEF QueueTypeOK, Future, OnlyPushed
    <3>2. PICK p \in Producers, i \in Nat : waiting[c] = <<p, i>>
      BY <3>1
    <3>3. i \in 1 .. sent[p]
      BY <2>a, <3>1, <3>2 DEF WasPushed, QueueTypeOK
    <3> QED
      BY <1>1, <2>a, <2>1, <3>2, <3>3 DEF AllAnswered, ConsumerCanStep
  <2>3. CASE cond_var_ = {}
    <3>1. \A c \in Consumers : Len(popped[c]) = results[c] /\ Len(popped[c]) = Quota[c]
      BY <1>1, <2>a, <2>2, <2>3, ThreadSets DEF ConsumersHold, ConsumerCanStep, AtPop, QueueTypeOK
    <3> QED
      BY <2>1, <3>1
  <2>4. CASE cond_var_ # {}
    <3>1. {c \in Consumers : AtPop(c)} = {}
      BY <1>1 DEF ConsumerCanStep
    <3>2. Len(queue_) <= 0
      BY <2>a, <2>4, <3>1, FS_EmptySet DEF WakeupForFuture
    <3> QED
      BY <2>a, <2>1, <3>2 DEF QueueTypeOK
  <2> QED
    BY <2>3, <2>4
<1>2. QueueIInv => \/ \E p \in Producers : ProducerCanStep(p)
                   \/ \E c \in Consumers : ConsumerCanStep(c)
                   \/ /\ \A p \in Producers : sent[p] = Quota[p]
                      /\ queue_ = << >> \/ \A c \in Consumers : results[c] = Quota[c]
  BY <1>1
<1> QED
  BY <1>2, Invariance, PTL

(* What was pushed is part of what the producers' loops push, so that the   *)
(* length of the queue stays within Limit.                                  *)
LEMMA WithinLimit ==
    ASSUME QueueIInv, NEW p \in Producers, Push(p)
    PROVE  Len(queue_) < Limit
<1> DEFINE x == <<p, sent[p] + 1>>
<1>1. /\ \A i \in DOMAIN queue_ : queue_[i] # x
      /\ sent[p] \in Nat /\ sent[p] < Quota[p]
  BY PushIsNew DEF QueueIInv
<1>2. IsFiniteSet(Produced)
  <2> DEFINE Loops == { {r} \X (1 .. Quota[r]) : r \in Producers }
  <2>1. IsFiniteSet(Loops)
    <3> DEFINE f == [r \in Producers |-> {r} \X (1 .. Quota[r])]
    <3>1. f \in Surjection(Producers, Loops)
      BY DEF Surjection
    <3> QED
      BY <3>1, ThreadSets, FS_Surjection
  <2>2. ASSUME NEW r \in Producers
        PROVE  IsFiniteSet({r} \X (1 .. Quota[r]))
    <3>1. Quota[r] \in Int
      BY ThreadSets
    <3>2. IsFiniteSet({r})
      BY FS_Singleton
    <3>3. IsFiniteSet(1 .. Quota[r])
      BY <3>1, FS_Interval
    <3> QED
      BY <3>2, <3>3, FS_Product
  <2>3. \A T \in Loops : IsFiniteSet(T)
    BY <2>2
  <2> HIDE DEF Loops
  <2>4. IsFiniteSet(UNION Loops)
    BY <2>1, <2>3, FS_UNION
  <2> QED
    BY <2>4 DEF Produced, Loops
<1>3. \A r \in Producers : \A i \in 1 .. Quota[r] : <<r, i>> \in Produced
  BY DEF Produced
<1>4. Quota[p] \in Nat
  BY ThreadSets
<1>5. x \in Produced
  BY <1>1, <1>3, <1>4
<1>6. queue_ \in Seq(Produced)
  <2>1. queue_ \in Seq(Future) /\ \A i \in DOMAIN queue_ : WasPushed(queue_[i])
    BY DEF QueueIInv, Inside, QueueTypeOK, EachInOnePlace, OnlyPushed
  <2>2. ASSUME NEW i \in 1 .. Len(queue_)
        PROVE  queue_[i] \in Produced
    <3>1. WasPushed(queue_[i])
      BY <2>1
    <3>2. PICK r \in Producers, n \in Nat : queue_[i] = <<r, n>>
      BY <3>1 DEF WasPushed, Future
    <3>3. n > 0 /\ n <= sent[r]
      BY <3>1, <3>2 DEF WasPushed
    <3>4. sent[r] \in Nat /\ sent[r] <= Quota[r] /\ Quota[r] \in Nat
      BY ThreadSets DEF QueueIInv, Inside, QueueTypeOK
    <3>5. n \in 1 .. Quota[r]
      BY <3>3, <3>4
    <3> QED
      BY <1>3, <3>2, <3>5
  <2> QED
    BY <2>1, <2>2
<1>7. \A i, j \in DOMAIN queue_ : queue_[i] = queue_[j] => i = j
  BY DEF QueueIInv, EachInOnePlace, QueuedOnce
<1> HIDE DEF x
<1>8. Len(queue_) < Cardinality(Produced)
  BY <1>1, <1>2, <1>5, <1>6, <1>7, ShorterSeq
<1>9. Len(queue_) \in Nat /\ Cardinality(Produced) \in Nat
  BY <1>2, <1>6, FS_CardinalityType
<1> QED
  BY <1>8, <1>9, LimitAssumption

(* The queue is a FIFO of futures, with any number of threads.              *)
THEOREM QueueIsFifo == QueueSpec => IsFifo
<1>1. QueueInit => Fifo!Init
  BY DEF QueueInit, Fifo!Init
<1>2. QueueIInv /\ [QueueNext]_queueVars => [Fifo!Next]_(Fifo!vars)
  <2> SUFFICES ASSUME QueueIInv, [QueueNext]_queueVars PROVE [Fifo!Next]_(Fifo!vars)
    OBVIOUS
  <2>1. ASSUME NEW p \in Producers, Push(p) PROVE Fifo!Put(p)
    <3>1. Len(queue_) < Limit
      BY <2>1, WithinLimit
    <3> QED
      BY <2>1, <3>1 DEF Push, Fifo!Put
  <2>2. ASSUME NEW c \in Consumers, Pop(c) PROVE Fifo!Take(c)
    BY <2>2 DEF Pop, AtPop, Fifo!Take
  <2>3. CASE UNCHANGED <<queue_, sent, popped>>
    BY <2>3 DEF Fifo!vars
  <2>4. \/ \E p \in Producers : Push(p)
        \/ \E c \in Consumers : Pop(c)
        \/ UNCHANGED <<queue_, sent, popped>>
    BY DEF QueueNext, ProducerStep, ConsumerStep, SetValue, WaitForFuture, GetResult,
           SpuriousWakeup, Joined, queueVars
  <2> QED
    BY <2>1, <2>2, <2>3, <2>4 DEF Fifo!Next
<1> QED
  BY <1>1, <1>2, Invariance, PTL DEF QueueSpec, IsFifo, Fifo!Spec
-----------------------------------------------------------------------------
(* Stacks.  What the statements do to the set of the frames of all threads, *)
(* no body having two.                                                      *)
FrameOf(T) == [body : T, at : Nat]
FramesIn(st) == UNION {{st[th][i] : i \in DOMAIN st[th]} : th \in DOMAIN st}
StacksOf(T, st) ==
    /\ st \in [T -> Seq(FrameOf(T))]
    /\ \A th \in T : st[th] # << >> => st[th][1].body = th
    /\ \A th, th2 \in T : \A i \in DOMAIN st[th], j \in DOMAIN st[th2] :
         st[th][i].body = st[th2][j].body => th = th2 /\ i = j

(* The top frame of a thread is at n now. *)
TopAt(st, th, n) == [st EXCEPT ![th] = [st[th] EXCEPT ![Len(st[th])].at = n]]

(* It has a frame more, and a frame less. *)
Pushed(st, th, g) == [st EXCEPT ![th] = Append(st[th], g)]
Popped(st, th) == [st EXCEPT ![th] = Front(st[th])]

LEMMA StackTypes ==
    ASSUME NEW T, NEW st, StacksOf(T, st), NEW th \in T
    PROVE  /\ st[th] \in Seq(FrameOf(T)) /\ DOMAIN st[th] = 1 .. Len(st[th])
           /\ Len(st[th]) \in Nat
           /\ \A i \in DOMAIN st[th] : st[th][i] \in FramesIn(st) /\ st[th][i] \in FrameOf(T)
           /\ st[th] # << >> => Len(st[th]) \in DOMAIN st[th]
<1>1. st[th] \in Seq(FrameOf(T)) /\ DOMAIN st = T
  BY DEF StacksOf
<1>2. /\ DOMAIN st[th] = 1 .. Len(st[th]) /\ Len(st[th]) \in Nat
      /\ \A i \in DOMAIN st[th] : st[th][i] \in FrameOf(T)
  BY <1>1, LenProperties, ElementOfSeq
<1>3. st[th] # << >> => Len(st[th]) \in Nat \ {0}
  BY <1>1, EmptySeq
<1>4. \A i \in DOMAIN st[th] : st[th][i] \in FramesIn(st)
  BY <1>1 DEF FramesIn
<1> QED
  BY <1>1, <1>2, <1>3, <1>4

LEMMA TopMoves ==
    ASSUME NEW T, NEW st, StacksOf(T, st), NEW th \in T, st[th] # << >>, NEW n \in Nat
    PROVE  LET f == st[th][Len(st[th])]
               g == [body |-> f.body, at |-> n]
           IN  /\ StacksOf(T, TopAt(st, th, n))
               /\ TopAt(st, th, n)[th] # << >>
               /\ FramesIn(TopAt(st, th, n)) = (FramesIn(st) \ {f}) \cup {g}
               /\ f \in FramesIn(st) /\ f \in FrameOf(T)
<1> DEFINE k == Len(st[th])
           f == st[th][k]
           g == [body |-> f.body, at |-> n]
           s == [st[th] EXCEPT ![k] = g]
           st2 == [st EXCEPT ![th] = s]
<1>1. /\ st[th] \in Seq(FrameOf(T)) /\ DOMAIN st[th] = 1 .. k /\ k \in Nat /\ k \in DOMAIN st[th]
      /\ f \in FramesIn(st) /\ f \in FrameOf(T)
  BY StackTypes
<1>2. f = [body |-> f.body, at |-> f.at] /\ f.body \in T /\ g \in FrameOf(T)
  BY <1>1 DEF FrameOf
<1>3. [f EXCEPT !.at = n] = g
  BY <1>1 DEF FrameOf
<1>4. TopAt(st, th, n) = st2
  BY <1>3 DEF TopAt
<1>5. /\ s \in Seq(FrameOf(T)) /\ DOMAIN s = 1 .. k /\ s[k] = g
      /\ \A i \in 1 .. k : i # k => s[i] = st[th][i]
  <2>1. s \in Seq(FrameOf(T)) /\ Len(s) = k
    BY <1>1, <1>2, ExceptSeq
  <2> QED
    BY <1>1, <2>1, LenProperties
<1> HIDE DEF s, f, k
<1>6. \A i \in 1 .. k : s[i].body = st[th][i].body
  BY <1>5 DEF f
<1>7. DOMAIN st = T /\ st2[th] = s /\ \A u \in T \ {th} : st2[u] = st[u]
  BY DEF StacksOf
<1>8. st2 \in [T -> Seq(FrameOf(T))]
  BY <1>5, <1>7 DEF StacksOf
<1>9. /\ DOMAIN st2[th] = DOMAIN st[th]
      /\ \A u \in T : DOMAIN st2[u] = DOMAIN st[u]
      /\ \A u \in T : \A i \in DOMAIN st[u] : st2[u][i].body = st[u][i].body
  BY <1>1, <1>5, <1>6, <1>7
<1>10. s # << >>
  BY <1>1, <1>5
<1> HIDE DEF st2
<1>11. StacksOf(T, st2)
  <2>1. \A u \in T : st2[u] # << >> => st2[u][1].body = u
    <3> SUFFICES ASSUME NEW u \in T, st2[u] # << >> PROVE st2[u][1].body = u
      OBVIOUS
    <3>1. CASE u = th
      BY <1>1, <1>9, <3>1 DEF StacksOf
    <3>2. CASE u # th
      BY <1>7, <3>2 DEF StacksOf
    <3> QED
      BY <3>1, <3>2
  <2>2. ASSUME NEW u \in T, NEW v \in T, NEW i \in DOMAIN st2[u], NEW j \in DOMAIN st2[v],
               st2[u][i].body = st2[v][j].body
        PROVE  u = v /\ i = j
    BY <1>9, <2>2 DEF StacksOf
  <2> QED
    BY <1>8, <2>1, <2>2 DEF StacksOf
<1>12. ASSUME NEW h PROVE h \in FramesIn(st2) <=> h \in (FramesIn(st) \ {f}) \cup {g}
  <2>1. h \in FramesIn(st2) <=> \E u \in T : \E i \in DOMAIN st2[u] : h = st2[u][i]
    BY <1>8 DEF FramesIn
  <2>2. h \in FramesIn(st) <=> \E u \in T : \E i \in DOMAIN st[u] : h = st[u][i]
    BY <1>7 DEF FramesIn
  <2>3. \A u \in T : \A i \in DOMAIN st[u] :
          /\ st[u][i] = f => u = th /\ i = k
          /\ ~ (u = th /\ i = k) => st2[u][i] = st[u][i]
    BY <1>1, <1>5, <1>7 DEF f, StacksOf
  <2>4. st2[th][k] = g /\ st[th][k] = f
    BY <1>5, <1>7 DEF f
  <2> QED
    BY <1>1, <1>9, <2>1, <2>2, <2>3, <2>4
<1>13. FramesIn(st2) = (FramesIn(st) \ {f}) \cup {g}
  BY <1>12
<1> QED
  BY <1>1, <1>4, <1>7, <1>10, <1>11, <1>13 DEF f, k

LEMMA FramePushed ==
    ASSUME NEW T, NEW st, StacksOf(T, st), NEW th \in T, NEW g \in FrameOf(T),
           st[th] # << >> \/ g.body = th,
           \A f \in FramesIn(st) : f.body # g.body
    PROVE  StacksOf(T, Pushed(st, th, g)) /\ FramesIn(Pushed(st, th, g)) = FramesIn(st) \cup {g}
<1> DEFINE k == Len(st[th])
           s == Append(st[th], g)
           st2 == Pushed(st, th, g)
<1>0. st2 = [st EXCEPT ![th] = s]
  BY DEF Pushed, Popped
<1> HIDE DEF st2
<1>1. st[th] \in Seq(FrameOf(T)) /\ DOMAIN st[th] = 1 .. k /\ k \in Nat
  BY StackTypes
<1>2. /\ s \in Seq(FrameOf(T)) /\ DOMAIN s = 1 .. k + 1 /\ s[k + 1] = g
      /\ \A i \in 1 .. k : s[i] = st[th][i]
  <2>1. /\ s \in Seq(FrameOf(T)) /\ Len(s) = k + 1 /\ s[k + 1] = g
        /\ \A i \in 1 .. k : s[i] = st[th][i]
    BY <1>1, AppendProperties
  <2> QED
    BY <1>1, <2>1, LenProperties
<1>3. st[th] # << >> => 1 \in 1 .. k
  BY <1>1, EmptySeq
<1>4. st[th] = << >> => k = 0
  BY <1>1, EmptySeq
<1> HIDE DEF s, k
<1>5. DOMAIN st = T /\ st2[th] = s /\ \A u \in T \ {th} : st2[u] = st[u]
  BY <1>0 DEF StacksOf
<1>6. st2 \in [T -> Seq(FrameOf(T))]
  BY <1>0, <1>2, <1>5 DEF StacksOf
<1>7. \A u \in T : \A i \in DOMAIN st[u] : st[u][i] \in FramesIn(st)
  BY <1>5 DEF FramesIn
<1>8. StacksOf(T, st2)
  <2>1. \A u \in T : st2[u] # << >> => st2[u][1].body = u
    <3> SUFFICES ASSUME NEW u \in T, st2[u] # << >> PROVE st2[u][1].body = u
      OBVIOUS
    <3>1. CASE u = th /\ st[th] # << >>
      BY <1>2, <1>3, <1>5, <3>1 DEF StacksOf
    <3>2. CASE u = th /\ st[th] = << >>
      BY <1>1, <1>2, <1>4, <1>5, <3>2
    <3>3. CASE u # th
      BY <1>5, <3>3 DEF StacksOf
    <3> QED
      BY <3>1, <3>2, <3>3
  <2>2. ASSUME NEW u \in T, NEW v \in T, NEW i \in DOMAIN st2[u], NEW j \in DOMAIN st2[v],
               st2[u][i].body = st2[v][j].body
        PROVE  u = v /\ i = j
    <3>1. \A w \in T : \A m \in DOMAIN st2[w] :
            \/ w = th /\ m = k + 1 /\ st2[w][m] = g
            \/ m \in DOMAIN st[w] /\ st2[w][m] = st[w][m] /\ st[w][m].body # g.body
      <4> SUFFICES ASSUME NEW w \in T, NEW m \in DOMAIN st2[w]
                   PROVE  \/ w = th /\ m = k + 1 /\ st2[w][m] = g
                          \/ m \in DOMAIN st[w] /\ st2[w][m] = st[w][m] /\ st[w][m].body # g.body
        OBVIOUS
      <4>1. CASE w # th
        BY <1>5, <1>7, <4>1
      <4>2. CASE w = th /\ m = k + 1
        BY <1>2, <1>5, <4>2
      <4>3. CASE w = th /\ m # k + 1
        <5>1. m \in 1 .. k /\ st2[w][m] = st[w][m] /\ m \in DOMAIN st[w]
          BY <1>1, <1>2, <1>5, <4>3
        <5> QED
          BY <1>7, <5>1
      <4> QED
        BY <4>1, <4>2, <4>3
    <3>2. CASE i \in DOMAIN st[u] /\ st2[u][i] = st[u][i] /\ st[u][i].body # g.body
      <4>1. j \in DOMAIN st[v] /\ st2[v][j] = st[v][j]
        BY <2>2, <3>1, <3>2
      <4> QED
        BY <2>2, <3>2, <4>1 DEF StacksOf
    <3>3. CASE u = th /\ i = k + 1 /\ st2[u][i] = g
      BY <2>2, <3>1, <3>3
    <3> QED
      BY <3>1, <3>2, <3>3
  <2> QED
    BY <1>6, <2>1, <2>2 DEF StacksOf
<1>9. ASSUME NEW h PROVE h \in FramesIn(st2) <=> h \in FramesIn(st) \cup {g}
  <2>1. h \in FramesIn(st2) <=> \E u \in T : \E i \in DOMAIN st2[u] : h = st2[u][i]
    BY <1>6 DEF FramesIn
  <2>2. h \in FramesIn(st) <=> \E u \in T : \E i \in DOMAIN st[u] : h = st[u][i]
    BY <1>5 DEF FramesIn
  <2>3. \A i : i \in DOMAIN s <=> i \in DOMAIN st[th] \/ i = k + 1
    BY <1>1, <1>2
  <2>4. \A i \in DOMAIN st[th] : s[i] = st[th][i]
    BY <1>1, <1>2
  <2> QED
    BY <1>2, <1>5, <2>1, <2>2, <2>3, <2>4
<1>10. FramesIn(st2) = FramesIn(st) \cup {g}
  BY <1>9
<1> QED
  BY <1>8, <1>10 DEF st2

LEMMA FramePopped ==
    ASSUME NEW T, NEW st, StacksOf(T, st), NEW th \in T, st[th] # << >>
    PROVE  StacksOf(T, Popped(st, th)) /\ FramesIn(Popped(st, th)) = FramesIn(st) \ {st[th][Len(st[th])]}
<1> DEFINE k == Len(st[th])
           s == Front(st[th])
           st2 == Popped(st, th)
<1>0. st2 = [st EXCEPT ![th] = s]
  BY DEF Pushed, Popped
<1> HIDE DEF st2
<1>1. /\ st[th] \in Seq(FrameOf(T)) /\ DOMAIN st[th] = 1 .. k /\ k \in Nat /\ k \in 1 .. k
      /\ \A i \in DOMAIN st[th] : st[th][i] \in FrameOf(T)
  BY StackTypes
<1>2. /\ s \in Seq(FrameOf(T)) /\ DOMAIN s = 1 .. k - 1
      /\ \A i \in 1 .. k - 1 : s[i] = st[th][i]
  <2>1. /\ s \in Seq(FrameOf(T)) /\ Len(s) = IF 1 <= k - 1 THEN k - 1 - 1 + 1 ELSE 0
        /\ \A i \in 1 .. k - 1 - 1 + 1 : s[i] = st[th][1 + i - 1]
    <3>1. s = SubSeq(st[th], 1, k - 1)
      BY DEF Front
    <3>2. 1 \in Int /\ k - 1 \in Int /\ \A i \in 1 .. k - 1 : st[th][i] \in FrameOf(T)
      BY <1>1
    <3> DEFINE n == k - 1
    <3>4. n \in Int /\ \A i \in 1 .. n : st[th][i] \in FrameOf(T)
      BY <3>2
    <3> HIDE DEF n
    <3>5. /\ SubSeq(st[th], 1, n) \in Seq(FrameOf(T))
          /\ Len(SubSeq(st[th], 1, n)) = IF 1 <= n THEN n - 1 + 1 ELSE 0
          /\ \A i \in 1 .. n - 1 + 1 : SubSeq(st[th], 1, n)[i] = st[th][1 + i - 1]
      BY <3>2, <3>4, SubSeqProperties
    <3> QED
      BY <3>1, <3>5 DEF n
  <2>2. Len(s) = k - 1 /\ \A i \in 1 .. k - 1 : 1 + i - 1 = i /\ i \in 1 .. k - 1 - 1 + 1
    BY <1>1, <2>1
  <2> QED
    BY <1>1, <2>1, <2>2, LenProperties
<1>3. s # << >> => 1 \in 1 .. k - 1
  BY <1>2, EmptySeq, LenProperties
<1> HIDE DEF s, k
<1>5. DOMAIN st = T /\ st2[th] = s /\ \A u \in T \ {th} : st2[u] = st[u]
  BY <1>0 DEF StacksOf
<1>6. st2 \in [T -> Seq(FrameOf(T))]
  BY <1>0, <1>2, <1>5 DEF StacksOf
<1>7. \A u \in T : \A i \in DOMAIN st2[u] : i \in DOMAIN st[u] /\ st2[u][i] = st[u][i]
  BY <1>1, <1>2, <1>5
<1>8. StacksOf(T, st2)
  <2>1. \A u \in T : st2[u] # << >> => st2[u][1].body = u
    <3> SUFFICES ASSUME NEW u \in T, st2[u] # << >> PROVE st2[u][1].body = u
      OBVIOUS
    <3>1. CASE u = th
      <4>1. 1 \in 1 .. k /\ s[1] = st[th][1] /\ st[th] # << >>
        BY <1>1, <1>2, <1>3, <1>5, <3>1
      <4> QED
        BY <1>5, <3>1, <4>1 DEF StacksOf
    <3>2. CASE u # th
      BY <1>5, <3>2 DEF StacksOf
    <3> QED
      BY <3>1, <3>2
  <2>2. \A u, v \in T : \A i \in DOMAIN st2[u], j \in DOMAIN st2[v] :
          st2[u][i].body = st2[v][j].body => u = v /\ i = j
    BY <1>7 DEF StacksOf
  <2> QED
    BY <1>6, <2>1, <2>2 DEF StacksOf
<1>9. ASSUME NEW h PROVE h \in FramesIn(st2) <=> h \in FramesIn(st) /\ h # st[th][k]
  <2>1. h \in FramesIn(st2) <=> \E u \in T : \E i \in DOMAIN st2[u] : h = st2[u][i]
    BY <1>6 DEF FramesIn
  <2>2. h \in FramesIn(st) <=> \E u \in T : \E i \in DOMAIN st[u] : h = st[u][i]
    BY <1>5 DEF FramesIn
  <2>3. \A u \in T : \A i \in DOMAIN st[u] : st[u][i] = st[th][k] => u = th /\ i = k
    BY <1>1 DEF StacksOf
  <2>4. \A i \in DOMAIN st[th] : i # k => i \in DOMAIN s
    BY <1>1, <1>2
  <2>5. k \notin DOMAIN s
    BY <1>1, <1>2
  <2> QED
    BY <1>1, <1>5, <1>7, <2>1, <2>2, <2>3, <2>4, <2>5
<1>10. FramesIn(st2) = FramesIn(st) \ {st[th][k]}
  BY <1>9
<1> QED
  BY <1>8, <1>10 DEF st2, k

-----------------------------------------------------------------------------
(* What the code of a program has to satisfy, as each of the 27 does.       *)
BodyOf(c, b) == IF b = Main THEN c.main ELSE c.bodies[b]
BodiesOf(c) == DOMAIN c.bodies \cup {Main}
Starts(t) == {Launch(t), Call(t), Set(t)}
GetsOf(c, b) ==
    {t \in DOMAIN c.bodies : \E i \in DOMAIN BodyOf(c, b) : BodyOf(c, b)[i] = Get(t)}

(* Each body is a sequence, and main is not a task. *)
BodiesTyped(c) ==
    /\ Main \notin DOMAIN c.bodies
    /\ \A b \in BodiesOf(c) : /\ Len(BodyOf(c, b)) \in Nat
                              /\ DOMAIN BodyOf(c, b) = 1 .. Len(BodyOf(c, b))

(* A task is started by at most one statement, *)
StartedOnce(c) ==
    \A t \in DOMAIN c.bodies : \A b, b2 \in BodiesOf(c) :
      \A i \in DOMAIN BodyOf(c, b), j \in DOMAIN BodyOf(c, b2) :
        BodyOf(c, b)[i] \in Starts(t) /\ BodyOf(c, b2)[j] \in Starts(t) => b = b2 /\ i = j

(* the one for its policy. *)
StartedByPolicy(c) ==
    /\ \A b \in BodiesOf(c), t \in DOMAIN c.bodies : \A i \in DOMAIN BodyOf(c, b) :
         /\ BodyOf(c, b)[i] = Call(t) => c.policy[t] = "called"
         /\ BodyOf(c, b)[i] = Set(t) => c.policy[t] = "promise"
    /\ \A t \in DOMAIN c.bodies :
         c.policy[t] = "promise" => GetsOf(c, t) = {} /\ t \notin c.throws

(* A body that leaves a loop gets nothing that may throw. *)
FindsApart(c) ==
    \A b \in BodiesOf(c), t \in DOMAIN c.bodies : \A i \in DOMAIN BodyOf(c, b) :
      BodyOf(c, b)[i] = GetFind(t) => GetsOf(c, b) = {} /\ c.throws = {}

(* Each permit that is acquired is acquired by main, for the task that it   *)
(* launches next; the functions of the tasks do nothing but run.            *)
GuardsPassedOn(c) ==
    \A b \in BodiesOf(c) : \A i \in DOMAIN BodyOf(c, b) : BodyOf(c, b)[i] = Acquire =>
      /\ b = Main /\ i + 1 \in DOMAIN c.main
      /\ \E t \in DOMAIN c.bodies : c.main[i + 1] = Launch(t) /\ c.policy[t] = "async"
      /\ \A t \in DOMAIN c.bodies : c.bodies[t] = << >>

(* Every task that throws is got by main, or by a task that is got.         *)
ThrowsReachMain(c) ==
    \A S \in SUBSET DOMAIN c.bodies :
      GetsOf(c, Main) \subseteq S /\ (\A t \in S : GetsOf(c, t) \subseteq S) => c.throws \subseteq S

WellFormed(c) ==
    /\ BodiesTyped(c) /\ StartedOnce(c) /\ StartedByPolicy(c)
    /\ FindsApart(c) /\ GuardsPassedOn(c) /\ ThrowsReachMain(c)

(* The main with the semaphore starts no task without a permit.             *)
OnePermitEach(c) ==
    \A t \in DOMAIN c.bodies :
      /\ c.policy[t] = "async"
      /\ \A b \in BodiesOf(c) : \A i \in DOMAIN BodyOf(c, b) :
           BodyOf(c, b)[i] \in Starts(t) =>
             b = Main /\ i - 1 \in DOMAIN c.main /\ c.main[i - 1] = Acquire
-----------------------------------------------------------------------------
Frames == FramesIn(stack)
StacksTyped == StacksOf(Threads, stack)

Unstarted(t) == t \in Tasks /\ result[t] = "none" /\ \A f \in Frames : f.body # t
FirstFuture(t) == IF Policy(t) \in {"called", "promise"} THEN "pending" ELSE "none"
Ahead(b, i) == Unstarted(b) \/ \E f \in Frames : f.body = b /\ f.at <= i

(* What a statement has still to start has not been started. *)
StartsAhead ==
    \A b \in Threads, t \in Tasks : \A i \in DOMAIN Body(b) :
      Body(b)[i] \in Starts(t) /\ Ahead(b, i) => Unstarted(t) /\ future[t] = FirstFuture(t)

(* What is known of a body from the place where it is, *)
PlaceKnown(f) ==
    /\ f.at \in 1 .. Leaving(f.body)
    /\ f.body = Main => f.at <= Finishing(Main) /\ (f.at = Finishing(Main) => caught)
    /\ f.body # Main =>
         /\ future[f.body] = (IF f.at = Leaving(f.body) THEN result[f.body] ELSE "pending")
         /\ f.at <= Returning(f.body) <=> result[f.body] = "none"
    /\ f.at <= Returning(f.body) =>
         \A i \in DOMAIN Body(f.body), d \in Tasks :
           i < f.at /\ Body(f.body)[i] = Get(d) => future[d] = "value"
PlacesKnown == \A f \in Frames : PlaceKnown(f)

(* and of a task from what its function has ended with, and its future.     *)
ResultKnown(t) ==
    /\ calls[t] \in {0, 1}
    /\ result[t] = "none" => calls[t] = 0
    /\ result[t] = "value" => calls[t] = 1
    /\ result[t] = "exception" =>
         calls[t] = 1 \/ \E d \in Gets(t) : future[d] = "exception"
    /\ calls[t] = 1 => /\ result[t] = "exception" <=> t \in Code[program].throws
                       /\ \A d \in Gets(t) : future[d] = "value"
    /\ Policy(t) # "promise" /\ future[t] \in {"value", "exception"} => result[t] = future[t]
    /\ future[t] = "deferred" => Unstarted(t) /\ Policy(t) \in {"deferred", "default"}
    /\ Policy(t) = "promise" => Unstarted(t) /\ future[t] \in {"pending", "value"}
ResultsKnown == \A t \in Tasks : ResultKnown(t)

TypesKnown ==
    /\ program \in Programs
    /\ future \in [Tasks -> {"none", "deferred", "pending", "value", "exception"}]
    /\ result \in [Tasks -> {"none", "value", "exception"}]
    /\ calls \in [Tasks -> Nat]
    /\ caught \in BOOLEAN

(* An exception that is on its way has been thrown. *)
SourceKnown ==
    (caught \/ \E t \in Tasks : result[t] = "exception")
      => \E t \in Tasks : calls[t] = 1 /\ result[t] = "exception"

(* main ends with the values of all that it gets, or has caught an exception. *)
MainKnown ==
    (\A f \in Frames : f.body # Main) =>
      \/ caught
      \/ Code[program].throws = {}
      \/ \A d \in Gets(Main) : future[d] = "value"

(* main holds a guard between the statement that acquires it and the next,  *)
(* a task until its function has ended.                                     *)
HoldsAt(i) == i - 1 \in DOMAIN Body(Main) /\ Body(Main)[i - 1] = Acquire
MainHolds == \E f \in Frames : f.body = Main /\ HoldsAt(f.at)
GuardsKnown ==
    /\ guards \subseteq Threads /\ IsFiniteSet(guards) /\ permits \in Nat
    /\ permits + Cardinality(guards) = max_concurrent_tasks
    /\ Main \in guards <=> MainHolds
    /\ \A t \in guards \ {Main} :
         Body(t) = << >> /\ \E f \in Frames : f.body = t /\ f.at <= Returning(t)
    /\ program = "limited" => \A f \in Frames :
         f.body # Main /\ f.at <= Returning(f.body) => f.body \in guards
-----------------------------------------------------------------------------
(* The same, said of the program that is run. *)
CodeKnown ==
    /\ Threads = Tasks \cup {Main} /\ Main \notin Tasks
    /\ \A b \in Threads :
         /\ Len(Body(b)) \in Nat /\ DOMAIN Body(b) = 1 .. Len(Body(b))
         /\ Returning(b) = Len(Body(b)) + 1
         /\ Finishing(b) = Len(Body(b)) + 2 /\ Leaving(b) = Len(Body(b)) + 3
    /\ \A t \in Tasks : \A b, b2 \in Threads :
         \A i \in DOMAIN Body(b), j \in DOMAIN Body(b2) :
           Body(b)[i] \in Starts(t) /\ Body(b2)[j] \in Starts(t) => b = b2 /\ i = j
    /\ \A b \in Threads, t \in Tasks : \A i \in DOMAIN Body(b) :
         /\ Body(b)[i] = Call(t) => Policy(t) = "called"
         /\ Body(b)[i] = Set(t) => Policy(t) = "promise"
         /\ Body(b)[i] = GetFind(t) => Gets(b) = {} /\ Code[program].throws = {}
    /\ \A t \in Tasks : Policy(t) = "promise" => Gets(t) = {} /\ t \notin Code[program].throws
    /\ \A b \in Threads : Gets(b) = {t \in Tasks : \E i \in DOMAIN Body(b) : Body(b)[i] = Get(t)}

GuardCodeKnown ==
    /\ \A b \in Threads : \A i \in DOMAIN Body(b) : Body(b)[i] = Acquire =>
         /\ b = Main /\ i + 1 \in DOMAIN Body(Main)
         /\ \E t \in Tasks : Body(Main)[i + 1] = Launch(t) /\ Policy(t) = "async"
         /\ \A t \in Tasks : Body(t) = << >>
    /\ program = "limited" => \A t \in Tasks :
         /\ Policy(t) = "async"
         /\ \A b \in Threads : \A i \in DOMAIN Body(b) :
              Body(b)[i] \in Starts(t) => b = Main /\ HoldsAt(i)

LEMMA CodeIsKnown ==
    ASSUME WellFormed(Code[program]) PROVE CodeKnown
<1> DEFINE c == Code[program]
<1>1. /\ Tasks = DOMAIN c.bodies /\ Threads = BodiesOf(c) /\ \A t : Policy(t) = c.policy[t]
      /\ \A b : Body(b) = BodyOf(c, b)
  BY DEF Tasks, Threads, BodiesOf, Policy, Body, BodyOf
<1>2. \A b : Gets(b) = GetsOf(c, b)
  BY <1>1 DEF Gets, GetsOf
<1>3. WellFormed(c)
  OBVIOUS
<1>4. /\ Threads = Tasks \cup {Main}
      /\ \A b \in Threads :
         /\ Returning(b) = Len(Body(b)) + 1
         /\ Finishing(b) = Len(Body(b)) + 2 /\ Leaving(b) = Len(Body(b)) + 3
      /\ \A b \in Threads : Gets(b) = {t \in Tasks : \E i \in DOMAIN Body(b) : Body(b)[i] = Get(t)}
  BY DEF Threads, Returning, Finishing, Leaving, Gets
<1>5. \A t \in Tasks : Policy(t) = "promise" => Gets(t) = {} /\ t \notin Code[program].throws
  BY <1>1, <1>2, <1>3 DEF WellFormed, StartedByPolicy
<1> HIDE DEF c
<1>6. Main \notin Tasks /\ \A b \in Threads : Len(Body(b)) \in Nat /\ DOMAIN Body(b) = 1 .. Len(Body(b))
  BY <1>1, <1>3 DEF WellFormed, BodiesTyped
<1>7. \A t \in Tasks : \A b, b2 \in Threads :
         \A i \in DOMAIN Body(b), j \in DOMAIN Body(b2) :
           Body(b)[i] \in Starts(t) /\ Body(b2)[j] \in Starts(t) => b = b2 /\ i = j
  BY <1>1, <1>3 DEF WellFormed, StartedOnce
<1>8. \A b \in Threads, t \in Tasks : \A i \in DOMAIN Body(b) :
         /\ Body(b)[i] = Call(t) => Policy(t) = "called"
         /\ Body(b)[i] = Set(t) => Policy(t) = "promise"
         /\ Body(b)[i] = GetFind(t) => Gets(b) = {} /\ c.throws = {}
  BY <1>1, <1>2, <1>3 DEF WellFormed, FindsApart, StartedByPolicy
<1> QED
  BY <1>4, <1>5, <1>6, <1>7, <1>8 DEF CodeKnown, c

LEMMA GuardCodeIsKnown ==
    ASSUME WellFormed(Code[program]), program = "limited" => OnePermitEach(Code[program])
    PROVE  GuardCodeKnown
<1> DEFINE c == Code[program]
<1>1. /\ Tasks = DOMAIN c.bodies /\ Threads = BodiesOf(c) /\ \A t : Policy(t) = c.policy[t]
      /\ \A b : Body(b) = BodyOf(c, b)
      /\ Body(Main) = c.main
  BY DEF Tasks, Threads, BodiesOf, Policy, Body, BodyOf
<1>2. WellFormed(c) /\ (program = "limited" => OnePermitEach(c))
  OBVIOUS
<1>3. \A t \in Tasks : Main \notin Tasks /\ Body(t) = c.bodies[t]
  BY <1>1, <1>2 DEF WellFormed, BodiesTyped, BodyOf
<1> HIDE DEF c
<1>4. GuardsPassedOn(c)
  BY <1>2 DEF WellFormed
<1>5. \A b \in Threads : \A i \in DOMAIN Body(b) : Body(b)[i] = Acquire =>
         /\ b = Main /\ i + 1 \in DOMAIN Body(Main)
         /\ \E t \in Tasks : Body(Main)[i + 1] = Launch(t) /\ Policy(t) = "async"
         /\ \A t \in Tasks : Body(t) = << >>
  BY <1>1, <1>3, <1>4 DEF GuardsPassedOn
<1>6. program = "limited" => \A t \in Tasks :
         /\ Policy(t) = "async"
         /\ \A b \in Threads : \A i \in DOMAIN Body(b) :
              Body(b)[i] \in Starts(t) => b = Main /\ HoldsAt(i)
  BY <1>1, <1>2 DEF OnePermitEach, HoldsAt
<1> QED
  BY <1>5, <1>6 DEF GuardCodeKnown

LEMMA CodeStays ==
    ASSUME program' = program
    PROVE  /\ Tasks' = Tasks /\ Threads' = Threads
           /\ \A b : /\ Body(b)' = Body(b) /\ Policy(b)' = Policy(b)
                     /\ Returning(b)' = Returning(b) /\ Finishing(b)' = Finishing(b)
                     /\ Leaving(b)' = Leaving(b) /\ FirstFuture(b)' = FirstFuture(b)
                     /\ Gets(b)' = Gets(b)
           /\ Code[program]' = Code[program]
<1>1. /\ Tasks' = Tasks /\ Threads' = Threads
      /\ \A b : Body(b)' = Body(b) /\ Policy(b)' = Policy(b)
      /\ Code[program]' = Code[program]
  BY DEF Tasks, Threads, Body, Policy
<1> QED
  BY <1>1 DEF Returning, Finishing, Leaving, FirstFuture, Gets

(* A statement is executed on the top frame of its thread, the only one of  *)
(* its body.                                                                *)
LEMMA TopFrame ==
    ASSUME StacksTyped, NEW th \in Threads, Running(th)
    PROVE  /\ Top(th) \in Frames /\ Top(th) \in FrameOf(Threads)
           /\ Top(th) = Frame(Top(th).body, Top(th).at)
           /\ Top(th).body \in Threads /\ Top(th).at \in Nat
           /\ stack[th] # << >> /\ Top(th) = stack[th][Len(stack[th])]
<1>1. stack[th] # << >> /\ Top(th) = stack[th][Len(stack[th])]
  BY DEF Running, Top, Last
<1>2. Top(th) \in Frames /\ Top(th) \in FrameOf(Threads)
  BY <1>1, StackTypes DEF StacksTyped, Frames
<1> QED
  BY <1>1, <1>2 DEF FrameOf, Frame

LEMMA OneFrame ==
    ASSUME StacksTyped
    PROVE  /\ Frames \subseteq FrameOf(Threads)
           /\ \A f, g \in Frames : f.body = g.body => f = g
           /\ \A t \in Threads : (\A f \in Frames : f.body # t) => stack[t] = << >>
<1>1. \A f \in Frames : \E th \in Threads : \E i \in DOMAIN stack[th] : f = stack[th][i]
  BY DEF Frames, FramesIn, StacksTyped, StacksOf
<1>2. \A th \in Threads : \A i \in DOMAIN stack[th] :
        stack[th][i] \in Frames /\ stack[th][i] \in FrameOf(Threads)
  BY StackTypes DEF StacksTyped, Frames
<1>3. ASSUME NEW t \in Threads, \A f \in Frames : f.body # t PROVE stack[t] = << >>
  <2>1. CASE stack[t] # << >>
    <3>1. stack[t][1].body = t
      BY <2>1 DEF StacksTyped, StacksOf
    <3>2. 1 \in DOMAIN stack[t]
      <4>1. stack[t] \in Seq(FrameOf(Threads)) /\ DOMAIN stack[t] = 1 .. Len(stack[t])
        BY StackTypes DEF StacksTyped
      <4>2. Len(stack[t]) \in Nat \ {0}
        BY <2>1, <4>1, EmptySeq
      <4> QED
        BY <4>1, <4>2
    <3> QED
      BY <1>2, <1>3, <3>1, <3>2
  <2> QED
    BY <2>1
<1>4. \A f, g \in Frames : f.body = g.body => f = g
  BY <1>1 DEF StacksTyped, StacksOf
<1> QED
  BY <1>1, <1>2, <1>3, <1>4

LEMMA Moves ==
    ASSUME StacksTyped, program' = program, NEW th \in Threads, Running(th), NEW n \in Nat,
           stack' = [stack EXCEPT ![th] = At(th, n)]
    PROVE  /\ StacksTyped'
           /\ Frames' = (Frames \ {Top(th)}) \cup {Frame(Top(th).body, n)}
<1>1. stack' = TopAt(stack, th, n)
  BY DEF At, TopAt
<1>2. /\ StacksOf(Threads, TopAt(stack, th, n))
      /\ FramesIn(TopAt(stack, th, n)) = (Frames \ {Top(th)}) \cup {Frame(Top(th).body, n)}
  BY TopFrame, TopMoves DEF StacksTyped, Frames, Frame
<1> QED
  BY <1>1, <1>2, CodeStays DEF StacksTyped, Frames

(* The top frame of th moves on and t starts, on its own thread or on th.   *)
LEMMA MovesAndStarts ==
    ASSUME StacksTyped, program' = program, NEW th \in Threads, Running(th), NEW n \in Nat,
           NEW t \in Threads, \A f \in Frames : f.body # t,
           \/ stack' = [stack EXCEPT ![th] = At(th, n), ![t] = << Frame(t, 1) >>]
           \/ stack' = [stack EXCEPT ![th] = Append(At(th, n), Frame(t, 1))]
    PROVE  /\ StacksTyped'
           /\ Frames' = (Frames \ {Top(th)}) \cup {Frame(Top(th).body, n), Frame(t, 1)}
<1> DEFINE s1 == TopAt(stack, th, n)
           g == Frame(t, 1)
           f == Top(th)
<1>1. /\ StacksOf(Threads, s1) /\ s1[th] # << >>
      /\ FramesIn(s1) = (Frames \ {f}) \cup {Frame(f.body, n)}
      /\ f \in Frames
  BY TopFrame, TopMoves DEF StacksTyped, Frames, Frame
<1>2. g \in FrameOf(Threads) /\ g.body = t
  BY DEF FrameOf, Frame
<1>3. \A h \in FramesIn(s1) : h.body # g.body
  BY <1>1, <1>2 DEF Frame
<1>4. DOMAIN stack = Threads /\ th # t /\ stack[t] = << >>
  BY <1>1, TopFrame, OneFrame DEF StacksTyped, StacksOf, Running
<1>5. s1[th] = At(th, n) /\ s1[t] = << >>
  BY <1>4 DEF TopAt, At
<1>6. stack' = Pushed(s1, t, g) \/ stack' = Pushed(s1, th, g)
  <2>1. Append(<< >>, g) = << g >>
    OBVIOUS
  <2>2. [s1 EXCEPT ![t] = << g >>] = [stack EXCEPT ![th] = At(th, n), ![t] = << g >>]
    BY <1>4, <1>5 DEF TopAt, At
  <2>3. [s1 EXCEPT ![th] = Append(At(th, n), g)] = [stack EXCEPT ![th] = Append(At(th, n), g)]
    BY <1>4, <1>5 DEF TopAt, At
  <2> QED
    BY <1>5, <2>1, <2>2, <2>3 DEF Pushed
<1> HIDE DEF s1, g
<1>7. StacksOf(Threads, stack') /\ FramesIn(stack') = FramesIn(s1) \cup {g}
  <2>1. ASSUME NEW u \in {t, th}
        PROVE  /\ StacksOf(Threads, Pushed(s1, u, g))
               /\ FramesIn(Pushed(s1, u, g)) = FramesIn(s1) \cup {g}
    <3>1. u \in Threads /\ (s1[u] # << >> \/ g.body = u)
      BY <1>1, <1>2
    <3> QED
      BY <1>1, <1>2, <1>3, <3>1, FramePushed
  <2> QED
    BY <1>6, <2>1
<1> QED
  BY <1>1, <1>7, CodeStays DEF StacksTyped, Frames, g

LEMMA StartsOnTop ==
    ASSUME StacksTyped, program' = program, NEW th \in Threads, Running(th),
           NEW t \in Threads, \A f \in Frames : f.body # t,
           stack' = [stack EXCEPT ![th] = Append(@, Frame(t, 1))]
    PROVE  StacksTyped' /\ Frames' = Frames \cup {Frame(t, 1)}
<1>1. Frame(t, 1) \in FrameOf(Threads) /\ Frame(t, 1).body = t /\ stack[th] # << >>
  BY DEF FrameOf, Frame, Running
<1>2. stack' = [stack EXCEPT ![th] = Append(stack[th], Frame(t, 1))]
  OBVIOUS
<1> DEFINE g == Frame(t, 1)
<1>3. g \in FrameOf(Threads) /\ \A f \in FramesIn(stack) : f.body # g.body
  BY <1>1 DEF Frames
<1>4. StacksOf(Threads, stack)
  BY DEF StacksTyped
<1> HIDE DEF g
<1>5. /\ StacksOf(Threads, Pushed(stack, th, g))
      /\ FramesIn(Pushed(stack, th, g)) = FramesIn(stack) \cup {g}
  BY <1>1, <1>3, <1>4, FramePushed
<1>6. stack' = Pushed(stack, th, g)
  BY <1>2 DEF g, Pushed
<1> QED
  BY <1>5, <1>6, CodeStays DEF StacksTyped, Frames, g

LEMMA Pops ==
    ASSUME StacksTyped, program' = program, NEW th \in Threads, Running(th),
           stack' = [stack EXCEPT ![th] = Front(@)]
    PROVE  StacksTyped' /\ Frames' = Frames \ {Top(th)}
<1>1. stack' = Popped(stack, th)
  BY DEF Popped
<1>2. StacksOf(Threads, stack) /\ stack[th] # << >> /\ Top(th) = stack[th][Len(stack[th])]
  BY TopFrame DEF StacksTyped
<1>3. /\ StacksOf(Threads, Popped(stack, th))
      /\ FramesIn(Popped(stack, th)) = FramesIn(stack) \ {stack[th][Len(stack[th])]}
  BY <1>2, FramePopped
<1> QED
  BY <1>1, <1>2, <1>3, CodeStays DEF StacksTyped, Frames

(* A statement of t that th is at. *)
LEMMA AtStatement ==
    ASSUME StacksTyped, CodeKnown, PlacesKnown, NEW th \in Threads, NEW do, NEW t, IsAt(th, do, t)
    PROVE  /\ Running(th) /\ Top(th) \in Frames /\ Top(th).body \in Threads
           /\ Top(th).at \in Nat /\ Top(th) = Frame(Top(th).body, Top(th).at)
           /\ Top(th).at \in DOMAIN Body(Top(th).body)
           /\ Body(Top(th).body)[Top(th).at] = Statement(do, t)
           /\ Top(th).at < Returning(Top(th).body)
<1>1. /\ Top(th) \in Frames /\ Top(th).body \in Threads /\ Top(th).at \in Nat
      /\ Top(th) = Frame(Top(th).body, Top(th).at) /\ Running(th)
  BY TopFrame DEF IsAt
<1>2. Top(th).at >= 1
  BY <1>1 DEF PlacesKnown, PlaceKnown, CodeKnown
<1>3. Top(th).at \in 1 .. Len(Body(Top(th).body))
  BY <1>1, <1>2 DEF IsAt, CodeKnown
<1> QED
  BY <1>1, <1>3 DEF IsAt, CodeKnown

(* One step: the frame f gives way to the frames N, and only t's future,    *)
(* result and calls may change.                                             *)
StepOf(f, N, t) ==
    /\ program' = program /\ StacksTyped'
    /\ f \in Frames /\ Frames' = (Frames \ {f}) \cup N
    /\ \A u \in Tasks \ {t} :
         future'[u] = future[u] /\ result'[u] = result[u] /\ calls'[u] = calls[u]
    /\ caught => caught'

(* What is settled stays so, of the task that the step is about. *)
Settled(t) ==
    t \in Tasks =>
    /\ future[t] \in {"value", "exception"} => future'[t] = future[t]
    /\ result[t] # "none" => result'[t] = result[t]
    /\ calls[t] = 1 => calls'[t] = 1

(* f goes on or leaves, and a frame of its own is only for a body that was  *)
(* not started.                                                             *)
GoesOn(f, N) ==
    /\ \A g \in N : (g.body = f.body /\ g.at >= f.at) \/ (g.at >= 1 /\ Unstarted(g.body))
    /\ (\E g \in N : g.body = f.body) \/ f.body = Main \/ result'[f.body] # "none"

(* The statement that starts t has been reached, if this step has.          *)
StartedByNow(f, N, t) ==
    \/ ~ Unstarted(t)
    \/ future[t] # FirstFuture(t)
    \/ /\ f.at \in DOMAIN Body(f.body) /\ Body(f.body)[f.at] \in Starts(t)
       /\ \A g \in N : g.body = f.body => g.at > f.at
    \/ /\ future'[t] = future[t] /\ result'[t] = result[t]
       /\ \A g \in N : g.body # t

LEMMA SettledAll ==
    ASSUME NEW t, NEW f, NEW N, StepOf(f, N, t), Settled(t)
    PROVE  \A u \in Tasks : Settled(u)
  BY DEF StepOf, Settled

LEMMA UnstartedBefore ==
    ASSUME CodeKnown, StacksTyped, NEW t, NEW f, NEW N, StepOf(f, N, t), Settled(t), GoesOn(f, N),
           NEW u \in Tasks
    PROVE  /\ Unstarted(u)' => Unstarted(u)
           /\ Unstarted(u) /\ u # t => Unstarted(u)' \/ \E g \in N : g.body = u
<1>1. Unstarted(u)' <=> result'[u] = "none" /\ \A g \in Frames' : g.body # u
  BY CodeStays DEF Unstarted, StepOf
<1>2. Unstarted(u) <=> result[u] = "none" /\ \A g \in Frames : g.body # u
  BY DEF Unstarted
<1>3. result'[u] = "none" => result[u] = "none"
  BY SettledAll DEF Settled
<1>4. ASSUME Unstarted(u)' PROVE Unstarted(u)
  <2>1. \A g \in Frames \ {f} : g.body # u
    BY <1>1, <1>4 DEF StepOf
  <2>2. f.body # u
    BY <1>1, <1>4 DEF GoesOn, StepOf, CodeKnown
  <2> QED
    BY <1>1, <1>2, <1>3, <1>4, <2>1, <2>2
<1>5. ASSUME Unstarted(u), u # t, \A g \in N : g.body # u PROVE Unstarted(u)'
  BY <1>1, <1>2, <1>5 DEF StepOf
<1> QED
  BY <1>4, <1>5

LEMMA AheadBefore ==
    ASSUME CodeKnown, StacksTyped, NEW t, NEW f, NEW N, StepOf(f, N, t), Settled(t), GoesOn(f, N),
           NEW b \in Threads, NEW i \in Nat \ {0}, Ahead(b, i)'
    PROVE  /\ Ahead(b, i)
           /\ b = f.body /\ (\A g \in N : g.body = f.body => g.at > f.at) => i # f.at
<1>1. \A g \in FrameOf(Threads) : g.at \in Nat
  BY DEF FrameOf
<1>2. f \in FrameOf(Threads) /\ Frames' \subseteq FrameOf(Threads)
  <2>1. Threads' = Threads
    BY CodeStays DEF StepOf
  <2>2. \A g \in Frames' : \E u \in Threads : \E j \in DOMAIN stack'[u] : g = stack'[u][j]
    BY <2>1 DEF Frames, FramesIn, StacksTyped, StacksOf, StepOf
  <2>3. \A u \in Threads : \A j \in DOMAIN stack'[u] : stack'[u][j] \in FrameOf(Threads)
    <3> SUFFICES ASSUME NEW u \in Threads PROVE \A j \in DOMAIN stack'[u] : stack'[u][j] \in FrameOf(Threads)
      OBVIOUS
    <3>1. StacksOf(Threads, stack')
      BY <2>1 DEF StepOf, StacksTyped
    <3> QED
      BY <3>1, StackTypes
  <2>4. f \in FrameOf(Threads)
    BY OneFrame DEF StepOf
  <2> QED
    BY <2>2, <2>3, <2>4
<1>3. CASE Unstarted(b)'
  <2>1. b \in Tasks
    BY <1>3, CodeStays DEF Unstarted, StepOf
  <2>2. Unstarted(b)
    BY <1>3, <2>1, UnstartedBefore
  <2> QED
    BY <2>2 DEF Ahead, Unstarted, StepOf
<1>4. CASE ~ Unstarted(b)'
  <2>1. PICK g \in Frames' : g.body = b /\ g.at <= i
    BY <1>4 DEF Ahead
  <2>2. CASE g \in Frames /\ g # f
    <3>1. g.body # f.body
      BY <2>2, OneFrame DEF StepOf
    <3> QED
      BY <2>1, <2>2, <3>1 DEF Ahead
  <2>3. CASE g \in N
    <3>1. CASE g.body = f.body /\ g.at >= f.at
      <4>1. f.body = b /\ f.at <= i
        BY <1>1, <1>2, <2>1, <3>1
      <4>2. f \in Frames
        BY DEF StepOf
      <4>3. (\A h \in N : h.body = f.body => h.at > f.at) => i # f.at
        BY <1>1, <1>2, <2>1, <2>3, <3>1
      <4> QED
        BY <4>1, <4>2, <4>3 DEF Ahead
    <3>2. CASE Unstarted(g.body)
      <4>1. b # f.body
        BY <2>1, <3>2 DEF Unstarted, StepOf
      <4> QED
        BY <2>1, <3>2, <4>1 DEF Ahead
    <3> QED
      BY <2>3, <3>1, <3>2 DEF GoesOn
  <2>4. g \in N \/ (g \in Frames /\ g # f)
    BY DEF StepOf
  <2> QED
    BY <2>2, <2>3, <2>4
<1> QED
  BY <1>3, <1>4

LEMMA StartsAheadKept ==
    ASSUME CodeKnown, StacksTyped, StartsAhead, NEW t, NEW f, NEW N,
           StepOf(f, N, t), Settled(t), GoesOn(f, N), StartedByNow(f, N, t),
           \A g \in N : g.body \in {f.body, t}
    PROVE  StartsAhead'
<1>1. /\ Threads' = Threads /\ Tasks' = Tasks
      /\ \A b : Body(b)' = Body(b) /\ FirstFuture(b)' = FirstFuture(b)
  BY CodeStays DEF StepOf
<1>2. SUFFICES ASSUME NEW b \in Threads, NEW u \in Tasks, NEW i \in DOMAIN Body(b),
                      Body(b)[i] \in Starts(u), Ahead(b, i)'
               PROVE  Unstarted(u)' /\ future'[u] = FirstFuture(u)
  BY <1>1 DEF StartsAhead
<1>3. i \in Nat \ {0}
  <2>1. DOMAIN Body(b) = 1 .. Len(Body(b)) /\ Len(Body(b)) \in Nat
    BY DEF CodeKnown
  <2> QED
    BY <2>1
<1>4. /\ Ahead(b, i)
      /\ b = f.body /\ (\A g \in N : g.body = f.body => g.at > f.at) => i # f.at
  BY <1>2, <1>3, AheadBefore
<1>5. Unstarted(u) /\ future[u] = FirstFuture(u)
  BY <1>2, <1>4 DEF StartsAhead
<1>6. u # f.body
  BY <1>5 DEF Unstarted, StepOf
<1>7. CASE u # t
  BY <1>5, <1>6, <1>7, UnstartedBefore DEF StepOf
<1>8. CASE u = t
  <2>1. CASE /\ f.at \in DOMAIN Body(f.body) /\ Body(f.body)[f.at] \in Starts(t)
             /\ \A g \in N : g.body = f.body => g.at > f.at
    <3>1. f.body \in Threads
      BY OneFrame DEF StepOf, FrameOf
    <3>2. b = f.body /\ i = f.at
      BY <1>2, <1>8, <2>1, <3>1 DEF CodeKnown
    <3> QED
      BY <1>4, <2>1, <3>2
  <2>2. CASE /\ future'[t] = future[t] /\ result'[t] = result[t]
             /\ \A g \in N : g.body # t
    <3>1. \A g \in Frames' : g.body # t
      BY <1>5, <1>8, <2>2 DEF StepOf, Unstarted
    <3> QED
      BY <1>1, <1>5, <1>8, <2>2, <3>1 DEF Unstarted
  <2> QED
    BY <1>5, <1>8, <2>1, <2>2 DEF StartedByNow
<1> QED
  BY <1>7, <1>8

LEMMA PlacesKept ==
    ASSUME CodeKnown, StacksTyped, PlacesKnown, NEW t, NEW f, NEW N,
           StepOf(f, N, t), Settled(t), \A g \in N : PlaceKnown(g)',
           \A g \in Frames \ {f} : g.body # t
    PROVE  PlacesKnown'
<1>1. /\ Threads' = Threads /\ Tasks' = Tasks
      /\ \A b : /\ Body(b)' = Body(b) /\ Returning(b)' = Returning(b)
                /\ Finishing(b)' = Finishing(b) /\ Leaving(b)' = Leaving(b)
  BY CodeStays DEF StepOf
<1>2. ASSUME NEW g \in Frames \ {f} PROVE PlaceKnown(g)'
  <2>1. PlaceKnown(g) /\ g.body \in Threads
    BY OneFrame DEF PlacesKnown, FrameOf
  <2>2. g.body # Main => future'[g.body] = future[g.body] /\ result'[g.body] = result[g.body]
    BY <2>1 DEF StepOf, CodeKnown
  <2>3. \A d \in Tasks : future[d] = "value" => future'[d] = "value"
    BY SettledAll DEF Settled
  <2>4. /\ g.at \in 1 .. Leaving(g.body)
        /\ g.body = Main => g.at <= Finishing(Main) /\ (g.at = Finishing(Main) => caught')
        /\ g.body # Main =>
             /\ future'[g.body] = (IF g.at = Leaving(g.body) THEN result'[g.body] ELSE "pending")
             /\ g.at <= Returning(g.body) <=> result'[g.body] = "none"
    BY <2>1, <2>2 DEF PlaceKnown, StepOf
  <2>5. g.at <= Returning(g.body) =>
         \A i \in DOMAIN Body(g.body), d \in Tasks :
           i < g.at /\ Body(g.body)[i] = Get(d) => future'[d] = "value"
    BY <2>1, <2>3 DEF PlaceKnown
  <2> QED
    BY <1>1, <2>4, <2>5 DEF PlaceKnown
<1> QED
  BY <1>2 DEF PlacesKnown, StepOf

LEMMA ResultsKept ==
    ASSUME CodeKnown, StacksTyped, ResultsKnown, NEW t, NEW f, NEW N,
           StepOf(f, N, t), Settled(t), GoesOn(f, N), t \in Tasks => ResultKnown(t)',
           \A g \in N : g.body \in {f.body, t}
    PROVE  ResultsKnown'
<1>1. /\ Tasks' = Tasks /\ Code[program]' = Code[program]
      /\ \A b : Gets(b)' = Gets(b) /\ Policy(b)' = Policy(b)
  BY CodeStays DEF StepOf
<1>2. ASSUME NEW u \in Tasks, u # t PROVE ResultKnown(u)'
  <2>1. ResultKnown(u)
    BY DEF ResultsKnown
  <2>2. future'[u] = future[u] /\ result'[u] = result[u] /\ calls'[u] = calls[u]
    BY <1>2 DEF StepOf
  <2>3. Unstarted(u) => Unstarted(u)'
    <3>1. Unstarted(u) => u # f.body
      BY DEF Unstarted, StepOf
    <3> QED
      BY <1>2, <3>1, UnstartedBefore
  <2>4. \A d \in Tasks : future[d] \in {"value", "exception"} => future'[d] = future[d]
    BY SettledAll DEF Settled
  <2>5. Gets(u) \subseteq Tasks
    BY DEF Gets
  <2>6. (\E d \in Gets(u) : future[d] = "exception") => \E d \in Gets(u) : future'[d] = "exception"
    BY <2>4, <2>5
  <2>7. (\A d \in Gets(u) : future[d] = "value") => \A d \in Gets(u) : future'[d] = "value"
    BY <2>4, <2>5
  <2> QED
    BY <1>1, <2>1, <2>2, <2>3, <2>6, <2>7 DEF ResultKnown
<1> QED
  BY <1>1, <1>2 DEF ResultsKnown

CoreInv ==
    /\ TypesKnown /\ StacksTyped /\ StartsAhead /\ PlacesKnown
    /\ ResultsKnown /\ SourceKnown /\ MainKnown

LEMMA MainKept ==
    ASSUME CodeKnown, MainKnown, NEW t, NEW f, NEW N, StepOf(f, N, t), Settled(t),
           \E g \in N : g.body = f.body
    PROVE  MainKnown'
<1>1. Gets(Main)' = Gets(Main) /\ Code[program]' = Code[program]
  BY CodeStays DEF StepOf
<1>2. (\A g \in Frames' : g.body # Main) => (\A g \in Frames : g.body # Main)
  BY DEF StepOf
<1>3. \A d \in Gets(Main) : future[d] = "value" => future'[d] = "value"
  <2>1. Gets(Main) \subseteq Tasks
    BY DEF Gets
  <2> QED
    BY <2>1, SettledAll DEF Settled
<1> QED
  BY <1>1, <1>2, <1>3 DEF MainKnown, StepOf

LEMMA SourceKept ==
    ASSUME CodeKnown, SourceKnown, NEW t, NEW f, NEW N, StepOf(f, N, t), Settled(t),
           \/ (caught' \/ (t \in Tasks /\ result'[t] = "exception"))
                => caught \/ \E u \in Tasks : result[u] = "exception"
           \/ t \in Tasks /\ result'[t] = "exception" /\ calls'[t] = 1
    PROVE  SourceKnown'
<1>1. Tasks' = Tasks
  BY CodeStays DEF StepOf
<1>2. (\E u \in Tasks : calls[u] = 1 /\ result[u] = "exception")
        => \E u \in Tasks : calls'[u] = 1 /\ result'[u] = "exception"
  BY SettledAll DEF Settled
<1>3. CASE t \in Tasks /\ result'[t] = "exception" /\ calls'[t] = 1
  BY <1>1, <1>3 DEF SourceKnown
<1>4. CASE (caught' \/ (t \in Tasks /\ result'[t] = "exception"))
              => caught \/ \E u \in Tasks : result[u] = "exception"
  <2>1. (\E u \in Tasks : result'[u] = "exception") =>
           \/ t \in Tasks /\ result'[t] = "exception"
           \/ \E u \in Tasks : result[u] = "exception"
    BY DEF StepOf
  <2>2. ASSUME caught' \/ \E u \in Tasks : result'[u] = "exception"
        PROVE  caught \/ \E u \in Tasks : result[u] = "exception"
    <3>1. CASE caught'
      BY <1>4, <3>1
    <3>2. CASE \E u \in Tasks : result'[u] = "exception"
      BY <1>4, <2>1, <3>2
    <3> QED
      BY <2>2, <3>1, <3>2
  <2>3. ASSUME caught' \/ \E u \in Tasks : result'[u] = "exception"
        PROVE  \E u \in Tasks : calls'[u] = 1 /\ result'[u] = "exception"
    BY <1>2, <2>2, <2>3 DEF SourceKnown
  <2> QED
    BY <1>1, <2>3 DEF SourceKnown
<1> QED
  BY <1>3, <1>4

LEMMA CoreKept ==
    ASSUME CodeKnown, CoreInv, NEW t, NEW f, NEW N, StepOf(f, N, t), Settled(t),
           GoesOn(f, N), StartedByNow(f, N, t),
           \A g \in N : g.body \in {f.body, t} /\ PlaceKnown(g)',
           \E g \in N : g.body = f.body,
           \A g \in Frames \ {f} : g.body # t,
           t \in Tasks => ResultKnown(t)',
           \/ (caught' \/ (t \in Tasks /\ result'[t] = "exception"))
                => caught \/ \E u \in Tasks : result[u] = "exception"
           \/ t \in Tasks /\ result'[t] = "exception" /\ calls'[t] = 1,
           TypesKnown'
    PROVE  CoreInv'
<1>1. StacksTyped'
  BY DEF StepOf
<1>2. StartsAhead'
  BY StartsAheadKept DEF CoreInv
<1>3. PlacesKnown'
  BY PlacesKept DEF CoreInv
<1>4. ResultsKnown'
  BY ResultsKept DEF CoreInv
<1>5. MainKnown'
  BY MainKept DEF CoreInv
<1>6. SourceKnown'
  BY SourceKept DEF CoreInv
<1> QED
  BY <1>1, <1>2, <1>3, <1>4, <1>5, <1>6 DEF CoreInv

(* Where main or a task goes on with its next statement. *)
LEMMA NextPlace ==
    ASSUME CodeKnown, NEW f, PlaceKnown(f), f.body \in Threads, f.at \in DOMAIN Body(f.body),
           NEW n \in f.at + 1 .. Returning(f.body),
           program' = program,
           f.body # Main => future'[f.body] = future[f.body] /\ result'[f.body] = result[f.body],
           \A d \in Tasks : future[d] = "value" => future'[d] = "value",
           \A i \in DOMAIN Body(f.body), d \in Tasks :
             f.at <= i /\ i < n /\ Body(f.body)[i] = Get(d) => future'[d] = "value"
    PROVE  /\ PlaceKnown(Frame(f.body, n))'
           /\ Frame(f.body, n).body = f.body /\ Frame(f.body, n).at = n
           /\ n \in Nat /\ n > f.at
<1> DEFINE b == f.body
<1>1. /\ Body(b)' = Body(b) /\ Returning(b)' = Returning(b)
      /\ Finishing(b)' = Finishing(b) /\ Leaving(b)' = Leaving(b)
      /\ Finishing(Main)' = Finishing(Main) /\ Tasks' = Tasks
  BY CodeStays
<1>2. /\ Frame(b, n).body = b /\ Frame(b, n).at = n
  BY DEF Frame
<1>3. /\ Len(Body(b)) \in Nat /\ DOMAIN Body(b) = 1 .. Len(Body(b))
      /\ Returning(b) = Len(Body(b)) + 1 /\ Finishing(b) = Len(Body(b)) + 2
      /\ Leaving(b) = Len(Body(b)) + 3
  BY DEF CodeKnown
<1>4. /\ n \in Nat /\ n > f.at /\ n \in 1 .. Leaving(b) /\ n < Finishing(b) /\ n # Leaving(b)
      /\ n <= Returning(b) /\ f.at \in Nat /\ f.at <= Returning(b) /\ f.at # Leaving(b)
      /\ n # Finishing(b)
  BY <1>3
<1>5. b # Main => future'[b] = "pending" /\ result'[b] = "none"
  BY <1>4 DEF PlaceKnown
<1>6. ASSUME NEW i \in DOMAIN Body(b), NEW d \in Tasks, i < n, Body(b)[i] = Get(d)
      PROVE  future'[d] = "value"
  <2>1. i < f.at \/ f.at <= i
    BY <1>3, <1>4
  <2>2. CASE i < f.at
    BY <1>4, <1>6, <2>2 DEF PlaceKnown
  <2> QED
    BY <1>6, <2>1, <2>2
<1> HIDE DEF b
<1>7. b \in Threads /\ (b = Main => n <= Finishing(Main))
  BY <1>3, <1>4 DEF b
<1>8. Frame(b, n).at \in 1 .. Leaving(b) /\ Frame(b, n).at # Leaving(b) /\ Frame(b, n).at # Finishing(b)
  BY <1>2, <1>4
<1>9. PlaceKnown(Frame(b, n))'
  <2> DEFINE g == Frame(b, n)
  <2>1. g.body = b /\ g.at = n
    BY <1>2
  <2> HIDE DEF g
  <2>2. /\ g.at \in 1 .. Leaving(b)
        /\ b = Main => g.at <= Finishing(Main) /\ (g.at = Finishing(Main) => caught')
    BY <1>4, <1>7, <2>1
  <2>3. b # Main =>
         /\ future'[b] = (IF g.at = Leaving(b) THEN result'[b] ELSE "pending")
         /\ g.at <= Returning(b) <=> result'[b] = "none"
    BY <1>4, <1>5, <2>1
  <2>4. \A i \in DOMAIN Body(b), d \in Tasks : i < g.at /\ Body(b)[i] = Get(d) => future'[d] = "value"
    BY <1>6, <2>1
  <2>5. PlaceKnown(g)'
    BY <1>1, <2>1, <2>2, <2>3, <2>4 DEF PlaceKnown
  <2> QED
    BY <2>5 DEF g
<1> QED
  BY <1>2, <1>4, <1>9 DEF b

(* Where a body is, as seen from what it leaves alone. *)
LEMMA PlaceStays ==
    ASSUME CodeKnown, program' = program, NEW g, PlaceKnown(g), g.body \in Threads,
           g.body # Main => future'[g.body] = future[g.body] /\ result'[g.body] = result[g.body],
           \A d \in Tasks : future[d] = "value" => future'[d] = "value",
           caught => caught'
    PROVE  PlaceKnown(g)'
<1>1. /\ Threads' = Threads /\ Tasks' = Tasks
      /\ \A b : /\ Body(b)' = Body(b) /\ Returning(b)' = Returning(b)
                /\ Finishing(b)' = Finishing(b) /\ Leaving(b)' = Leaving(b)
  BY CodeStays
<1>2. /\ g.at \in 1 .. Leaving(g.body)
      /\ g.body = Main => g.at <= Finishing(Main) /\ (g.at = Finishing(Main) => caught')
      /\ g.body # Main =>
           /\ future'[g.body] = (IF g.at = Leaving(g.body) THEN result'[g.body] ELSE "pending")
           /\ g.at <= Returning(g.body) <=> result'[g.body] = "none"
  BY DEF PlaceKnown
<1>3. g.at <= Returning(g.body) =>
       \A i \in DOMAIN Body(g.body), d \in Tasks :
         i < g.at /\ Body(g.body)[i] = Get(d) => future'[d] = "value"
  BY DEF PlaceKnown
<1> QED
  BY <1>1, <1>2, <1>3 DEF PlaceKnown

(* Where a body is once it has ended. *)
LEMMA LastPlace ==
    ASSUME CodeKnown, program' = program, NEW b \in Threads,
           NEW n \in {Finishing(b), Leaving(b)},
           b = Main => n = Finishing(Main) /\ caught',
           b # Main => result'[b] # "none"
                        /\ future'[b] = (IF n = Leaving(b) THEN result'[b] ELSE "pending")
    PROVE  /\ PlaceKnown(Frame(b, n))'
           /\ Frame(b, n).body = b /\ Frame(b, n).at = n /\ n \in Nat
<1> DEFINE g == Frame(b, n)
<1>1. /\ Body(b)' = Body(b) /\ Returning(b)' = Returning(b)
      /\ Finishing(b)' = Finishing(b) /\ Leaving(b)' = Leaving(b)
      /\ Finishing(Main)' = Finishing(Main) /\ Tasks' = Tasks
  BY CodeStays
<1>2. g.body = b /\ g.at = n
  BY DEF Frame
<1>3. /\ Len(Body(b)) \in Nat /\ Returning(b) = Len(Body(b)) + 1
      /\ Finishing(b) = Len(Body(b)) + 2 /\ Leaving(b) = Len(Body(b)) + 3
  BY DEF CodeKnown
<1> HIDE DEF g
<1>4. n \in Nat /\ n \in 1 .. Leaving(b) /\ ~ (n <= Returning(b))
  BY <1>3
<1>5. b = Main => n <= Finishing(Main)
  BY <1>3
<1>6. PlaceKnown(g)'
  BY <1>1, <1>2, <1>4, <1>5 DEF PlaceKnown
<1> QED
  BY <1>2, <1>4, <1>6 DEF g

LEMMA FirstPlace ==
    ASSUME CodeKnown, program' = program, NEW t \in Tasks,
           future'[t] = "pending", result'[t] = "none"
    PROVE  /\ PlaceKnown(Frame(t, 1))'
           /\ Frame(t, 1).body = t /\ Frame(t, 1).at = 1
<1> DEFINE g == Frame(t, 1)
<1>1. /\ Body(t)' = Body(t) /\ Returning(t)' = Returning(t)
      /\ Finishing(t)' = Finishing(t) /\ Leaving(t)' = Leaving(t) /\ Tasks' = Tasks
  BY CodeStays
<1>2. g.body = t /\ g.at = 1
  BY DEF Frame
<1>3. t # Main /\ t \in Threads
  BY DEF CodeKnown
<1>4. /\ Len(Body(t)) \in Nat /\ DOMAIN Body(t) = 1 .. Len(Body(t)) /\ Returning(t) = Len(Body(t)) + 1
      /\ Leaving(t) = Len(Body(t)) + 3
  BY <1>3 DEF CodeKnown
<1> HIDE DEF g
<1>5. 1 \in 1 .. Leaving(t) /\ 1 <= Returning(t) /\ 1 # Leaving(t)
      /\ \A i \in DOMAIN Body(t) : ~ (i < 1)
  BY <1>4
<1>6. PlaceKnown(g)'
  BY <1>1, <1>2, <1>3, <1>5 DEF PlaceKnown
<1> QED
  BY <1>2, <1>6 DEF g

(* A body at a statement is not over, nor a promise. *)
LEMMA AtWork ==
    ASSUME CodeKnown, CoreInv, NEW f \in Frames
    PROVE  /\ f \in FrameOf(Threads) /\ f.body \in Threads /\ f.at \in Nat /\ PlaceKnown(f)
           /\ ~ Unstarted(f.body)
           /\ \A g \in Frames \ {f} : g.body # f.body
           /\ f.body # Main => /\ f.body \in Tasks /\ ResultKnown(f.body)
                               /\ Policy(f.body) # "promise" /\ future[f.body] # "deferred"
           /\ f.body # Main /\ f.at <= Finishing(f.body) => future[f.body] = "pending"
           /\ f.body # Main /\ f.at <= Returning(f.body) => result[f.body] = "none" /\ calls[f.body] = 0
           /\ f.body # Main /\ ~ (f.at <= Returning(f.body)) => result[f.body] # "none"
<1>1. /\ f \in FrameOf(Threads) /\ f.body \in Threads /\ f.at \in Nat
      /\ \A g \in Frames \ {f} : g.body # f.body
  BY OneFrame DEF CoreInv, FrameOf
<1>2. PlaceKnown(f) /\ ~ Unstarted(f.body)
  BY DEF CoreInv, PlacesKnown, Unstarted
<1>3. CASE f.body # Main
  <2>1. f.body \in Tasks
    BY <1>1, <1>3 DEF CodeKnown
  <2>2. ResultKnown(f.body)
    BY <2>1 DEF CoreInv, ResultsKnown
  <2>3. Policy(f.body) # "promise" /\ future[f.body] # "deferred"
    BY <1>2, <2>2 DEF ResultKnown
  <2>4. f.at <= Finishing(f.body) => f.at # Leaving(f.body)
    BY <1>1 DEF CodeKnown
  <2>5. f.at <= Finishing(f.body) => future[f.body] = "pending"
    BY <1>2, <1>3, <2>4 DEF PlaceKnown
  <2>6. f.at <= Returning(f.body) <=> result[f.body] = "none"
    BY <1>2, <1>3 DEF PlaceKnown
  <2>7. result[f.body] = "none" => calls[f.body] = 0
    BY <2>2 DEF ResultKnown
  <2> QED
    BY <1>1, <1>2, <2>1, <2>2, <2>3, <2>5, <2>6, <2>7
<1> QED
  BY <1>1, <1>2, <1>3

LEMMA Places ==
    ASSUME CodeKnown, NEW b \in Threads
    PROVE  /\ Len(Body(b)) \in Nat /\ DOMAIN Body(b) = 1 .. Len(Body(b))
           /\ Returning(b) = Len(Body(b)) + 1
           /\ Finishing(b) = Len(Body(b)) + 2 /\ Leaving(b) = Len(Body(b)) + 3
  BY DEF CodeKnown

LEMMA TasksAndMain ==
    ASSUME CodeKnown
    PROVE  Threads = Tasks \cup {Main} /\ Main \notin Tasks
  BY DEF CodeKnown

(* The top frame of th is at n now. *)
MovedTo(th, n) == stack' = [stack EXCEPT ![th] = At(th, n)]

(* The top frame of th goes on to a later place of its body, and nothing    *)
(* else of the tasks changes.                                               *)
LEMMA JustMoves ==
    ASSUME CodeKnown, CoreInv, NEW th \in Threads, Running(th), NEW f, f = Top(th),
           f.at \in DOMAIN Body(f.body),
           NEW n \in f.at + 1 .. Returning(f.body),
           \A i \in DOMAIN Body(f.body), d \in Tasks :
             f.at <= i /\ i < n /\ Body(f.body)[i] = Get(d) => future[d] = "value",
           MovedTo(th, n),
           UNCHANGED <<program, future, result, calls, caught>>
    PROVE  /\ CoreInv'
           /\ StepOf(f, {Frame(f.body, n)}, f.body)
           /\ GoesOn(f, {Frame(f.body, n)})
<1> DEFINE g == Frame(f.body, n)
           N == {g}
<1>1. f \in Frames /\ StacksTyped
  BY TopFrame DEF CoreInv
<1>2. /\ f.body \in Threads /\ f.at \in Nat /\ PlaceKnown(f) /\ ~ Unstarted(f.body)
      /\ \A h \in Frames \ {f} : h.body # f.body
      /\ f.body # Main => ResultKnown(f.body) /\ Policy(f.body) # "promise" /\ future[f.body] # "deferred"
  BY <1>1, AtWork
<1>3. PlaceKnown(g)' /\ g.body = f.body /\ g.at = n /\ n \in Nat /\ n > f.at
  BY <1>2, NextPlace
<1>4. StacksTyped' /\ Frames' = (Frames \ {f}) \cup N
  BY <1>1, <1>3, Moves DEF MovedTo
<1> HIDE DEF g
<1>5. StepOf(f, N, f.body)
  BY <1>1, <1>4 DEF StepOf
<1>6. Settled(f.body)
  BY DEF Settled
<1>7. GoesOn(f, N)
  BY <1>2, <1>3 DEF GoesOn
<1>8. StartedByNow(f, N, f.body)
  BY <1>2 DEF StartedByNow
<1>9. f.body \in Tasks => ResultKnown(f.body)'
  <2> SUFFICES ASSUME f.body \in Tasks PROVE ResultKnown(f.body)'
    OBVIOUS
  <2>1. f.body # Main
    BY DEF CodeKnown
  <2>2. ResultKnown(f.body) /\ Policy(f.body) # "promise" /\ future[f.body] # "deferred"
    BY <1>2, <2>1
  <2>3. Gets(f.body)' = Gets(f.body) /\ Policy(f.body)' = Policy(f.body) /\ Code[program]' = Code[program]
    BY CodeStays
  <2> QED
    BY <2>2, <2>3 DEF ResultKnown
<1>10. TypesKnown'
  BY CodeStays DEF CoreInv, TypesKnown
<1>11. (caught' \/ (f.body \in Tasks /\ result'[f.body] = "exception"))
          => caught \/ \E u \in Tasks : result[u] = "exception"
  OBVIOUS
<1>12. CoreInv'
  BY <1>2, <1>3, <1>5, <1>6, <1>7, <1>8, <1>9, <1>10, <1>11, CoreKept
<1> QED
  BY <1>5, <1>7, <1>12 DEF g

(* The statement that starts t is reached: t was not started before.        *)
LEMMA StartReached ==
    ASSUME CodeKnown, CoreInv, NEW th \in Threads, NEW do, NEW t \in Tasks,
           IsAt(th, do, t), Statement(do, t) \in Starts(t)
    PROVE  /\ Unstarted(t) /\ future[t] = FirstFuture(t)
           /\ \A f \in Frames : f.body # t
           /\ result[t] = "none" /\ calls[t] = 0 /\ ResultKnown(t) /\ t # Main /\ t \in Threads
<1>1. /\ Top(th) \in Frames /\ Top(th).body \in Threads /\ Top(th).at \in Nat
      /\ Top(th).at \in DOMAIN Body(Top(th).body)
      /\ Body(Top(th).body)[Top(th).at] = Statement(do, t)
  BY AtStatement DEF CoreInv
<1>2. Ahead(Top(th).body, Top(th).at)
  BY <1>1 DEF Ahead
<1>3. Unstarted(t) /\ future[t] = FirstFuture(t)
  BY <1>1, <1>2 DEF CoreInv, StartsAhead
<1>4. ResultKnown(t)
  BY DEF CoreInv, ResultsKnown
<1>5. result[t] = "none" /\ calls[t] = 0
  BY <1>3, <1>4 DEF Unstarted, ResultKnown
<1> QED
  BY <1>3, <1>4, <1>5 DEF Unstarted, CodeKnown

(* The statement that starts t puts its frame on a stack. *)
LEMMA Begins ==
    ASSUME CodeKnown, CoreInv, NEW th \in Threads, NEW do, NEW t \in Tasks,
           NEW f, f = Top(th), IsAt(th, do, t), do \in {"launch", "call"}, Statement(do, t) \in Starts(t),
           Policy(t) # "promise",
           \/ stack' = [stack EXCEPT ![th] = Continued(th), ![t] = << Frame(t, 1) >>]
           \/ stack' = [stack EXCEPT ![th] = Append(Continued(th), Frame(t, 1))],
           future' = [future EXCEPT ![t] = "pending"],
           UNCHANGED <<program, result, calls, caught>>
    PROVE  LET N == {Frame(f.body, f.at + 1), Frame(t, 1)}
           IN  CoreInv' /\ StepOf(f, N, t) /\ GoesOn(f, N)
<1> DEFINE b == f.body
           n == f.at + 1
           g == Frame(b, n)
           h == Frame(t, 1)
           N == {g, h}
<1>1. /\ Running(th) /\ f \in Frames /\ b \in Threads /\ f.at \in Nat
      /\ f.at \in DOMAIN Body(b) /\ Body(b)[f.at] = Statement(do, t) /\ f.at < Returning(b)
      /\ StacksTyped
  BY AtStatement DEF CoreInv
<1>2. /\ Unstarted(t) /\ \A k \in Frames : k.body # t
      /\ result[t] = "none" /\ calls[t] = 0 /\ ResultKnown(t) /\ t # Main /\ t \in Threads
      /\ future[t] = FirstFuture(t)
  BY StartReached
<1>3. b # t /\ n \in Nat /\ n \in f.at + 1 .. Returning(b)
  <2>1. b # t
    BY <1>1, <1>2
  <2>2. Returning(b) \in Nat
    BY <1>1, Places
  <2> QED
    BY <1>1, <2>1, <2>2
<1>4. StacksTyped' /\ Frames' = (Frames \ {f}) \cup N
  <2>1. Continued(th) = At(th, n)
    BY DEF Continued
  <2> HIDE DEF n
  <2>2. \/ stack' = [stack EXCEPT ![th] = At(th, n), ![t] = << Frame(t, 1) >>]
        \/ stack' = [stack EXCEPT ![th] = Append(At(th, n), Frame(t, 1))]
    BY <2>1
  <2>3. StacksTyped /\ program' = program /\ Running(th) /\ n \in Nat /\ t \in Threads
        /\ \A k \in Frames : k.body # t
    BY <1>1, <1>2, <1>3
  <2>4. StacksTyped' /\ Frames' = (Frames \ {Top(th)}) \cup {Frame(Top(th).body, n), Frame(t, 1)}
    <3>1. CASE stack' = [stack EXCEPT ![th] = At(th, n), ![t] = << Frame(t, 1) >>]
      BY <2>3, <3>1, MovesAndStarts
    <3>2. CASE stack' = [stack EXCEPT ![th] = Append(At(th, n), Frame(t, 1))]
      BY <2>3, <3>2, MovesAndStarts
    <3> QED
      BY <2>2, <3>1, <3>2
  <2> QED
    BY <2>4 DEF n
<1>5. /\ \A u \in Tasks \ {t} : future'[u] = future[u]
      /\ future'[t] = "pending" /\ future[t] \in {"none", "pending"}
  BY <1>2 DEF CoreInv, TypesKnown, FirstFuture
<1>6. \A d \in Tasks : future[d] = "value" => future'[d] = "value"
  BY <1>5
<1>7. b # Main => future'[b] = future[b]
  BY <1>1, <1>3, <1>5, TasksAndMain
<1>8. \A d : Statement(do, t) # Get(d)
  BY DEF Get, Statement
<1>9. PlaceKnown(g)' /\ g.body = b /\ g.at = n /\ n > f.at
  <2>1. PlaceKnown(f)
    BY <1>1 DEF CoreInv, PlacesKnown
  <2>2. \A i \in DOMAIN Body(b), d \in Tasks : f.at <= i /\ i < n /\ Body(b)[i] = Get(d) => future'[d] = "value"
    <3>1. \A i \in DOMAIN Body(b) : f.at <= i /\ i < n => i = f.at
      BY <1>1, Places
    <3> QED
      BY <1>1, <1>8, <3>1
  <2> HIDE DEF n
  <2> QED
    BY <1>1, <1>3, <1>6, <1>7, <2>1, <2>2, NextPlace DEF n
<1>10. PlaceKnown(h)' /\ h.body = t /\ h.at = 1
  BY <1>2, <1>5, FirstPlace
<1> HIDE DEF g, h, n
<1>11. StepOf(f, N, t)
  BY <1>1, <1>4, <1>5 DEF StepOf
<1>12. Settled(t)
  BY <1>2, <1>5 DEF Settled
<1>13. GoesOn(f, N)
  BY <1>2, <1>9, <1>10, <1>1, <1>3 DEF GoesOn
<1>14. StartedByNow(f, N, t)
  BY <1>1, <1>3, <1>9, <1>10 DEF StartedByNow
<1>15. ResultKnown(t)'
  <2>1. Policy(t)' = Policy(t) /\ Code[program]' = Code[program]
    BY CodeStays
  <2>2. result'[t] = "none" /\ calls'[t] = 0
    BY <1>2
  <2> QED
    BY <1>5, <2>1, <2>2 DEF ResultKnown
<1>16. TypesKnown'
  <2>1. future' \in [Tasks -> {"none", "deferred", "pending", "value", "exception"}]
    BY DEF CoreInv, TypesKnown
  <2> QED
    BY <2>1, CodeStays DEF CoreInv, TypesKnown
<1>17. (caught' \/ (t \in Tasks /\ result'[t] = "exception"))
          => caught \/ \E u \in Tasks : result[u] = "exception"
  OBVIOUS
<1>18. /\ \A k \in N : k.body \in {f.body, t} /\ PlaceKnown(k)'
       /\ \E k \in N : k.body = f.body
       /\ \A k \in Frames \ {f} : k.body # t
  BY <1>2, <1>9, <1>10
<1>19. CoreInv'
  BY <1>11, <1>12, <1>13, <1>14, <1>15, <1>16, <1>17, <1>18, CoreKept
<1> QED
  BY <1>11, <1>13, <1>19 DEF g, h, n

(* The statement that starts t only changes its future. *)
LEMMA Marks ==
    ASSUME CodeKnown, CoreInv, NEW th \in Threads, NEW do, NEW t \in Tasks,
           NEW f, f = Top(th), IsAt(th, do, t), do \in {"launch", "set"}, Statement(do, t) \in Starts(t),
           NEW v, \/ v = "deferred" /\ Policy(t) \in {"deferred", "default"}
                  \/ v = "value" /\ Policy(t) = "promise",
           stack' = [stack EXCEPT ![th] = Continued(th)],
           future' = [future EXCEPT ![t] = v],
           UNCHANGED <<program, result, calls, caught>>
    PROVE  LET N == {Frame(f.body, f.at + 1)}
           IN  CoreInv' /\ StepOf(f, N, t) /\ GoesOn(f, N)
<1> DEFINE b == f.body
           n == f.at + 1
           g == Frame(b, n)
           N == {g}
<1>1. /\ Running(th) /\ f \in Frames /\ b \in Threads /\ f.at \in Nat
      /\ f.at \in DOMAIN Body(b) /\ Body(b)[f.at] = Statement(do, t) /\ f.at < Returning(b)
      /\ StacksTyped
  BY AtStatement DEF CoreInv
<1>2. /\ Unstarted(t) /\ \A k \in Frames : k.body # t
      /\ result[t] = "none" /\ calls[t] = 0 /\ ResultKnown(t) /\ t # Main /\ t \in Threads
      /\ future[t] = FirstFuture(t)
  BY StartReached
<1>3. b # t /\ n \in Nat /\ n \in f.at + 1 .. Returning(b)
  <2>1. b # t
    BY <1>1, <1>2
  <2>2. Returning(b) \in Nat
    BY <1>1, Places
  <2> QED
    BY <1>1, <2>1, <2>2
<1>4. StacksTyped' /\ Frames' = (Frames \ {f}) \cup N
  BY <1>1, <1>2, <1>3, Moves DEF Continued
<1>5. /\ \A u \in Tasks \ {t} : future'[u] = future[u]
      /\ future'[t] = v /\ future[t] \in {"none", "pending"}
  BY <1>2 DEF CoreInv, TypesKnown, FirstFuture
<1>6. \A d \in Tasks : future[d] = "value" => future'[d] = "value"
  BY <1>5
<1>7. b # Main => future'[b] = future[b]
  BY <1>1, <1>3, <1>5, TasksAndMain
<1>8. \A d : Statement(do, t) # Get(d)
  BY DEF Get, Statement
<1>9. PlaceKnown(g)' /\ g.body = b /\ g.at = n /\ n > f.at
  <2>1. PlaceKnown(f)
    BY <1>1 DEF CoreInv, PlacesKnown
  <2>2. \A i \in DOMAIN Body(b), d \in Tasks : f.at <= i /\ i < n /\ Body(b)[i] = Get(d) => future'[d] = "value"
    <3>1. \A i \in DOMAIN Body(b) : f.at <= i /\ i < n => i = f.at
      BY <1>1, Places
    <3> QED
      BY <1>1, <1>8, <3>1
  <2> HIDE DEF n
  <2> QED
    BY <1>1, <1>3, <1>6, <1>7, <2>1, <2>2, NextPlace DEF n
<1> HIDE DEF g, n
<1>11. StepOf(f, N, t)
  BY <1>1, <1>4, <1>5 DEF StepOf
<1>12. Settled(t)
  BY <1>2, <1>5 DEF Settled
<1>13. GoesOn(f, N)
  BY <1>2, <1>9, <1>1, <1>3 DEF GoesOn
<1>14. StartedByNow(f, N, t)
  BY <1>1, <1>3, <1>9 DEF StartedByNow
<1>15. ResultKnown(t)'
  <2>1. Policy(t)' = Policy(t) /\ Code[program]' = Code[program] /\ Tasks' = Tasks
    BY CodeStays
  <2>2. result'[t] = "none" /\ calls'[t] = 0
    BY <1>2
  <2>3. \A k \in Frames' : k.body # t
    BY <1>2, <1>3, <1>4, <1>9
  <2>4. Unstarted(t)'
    BY <2>1, <2>2, <2>3 DEF Unstarted
  <2> QED
    BY <1>5, <2>1, <2>2, <2>4 DEF ResultKnown
<1>16. TypesKnown'
  <2>1. future' \in [Tasks -> {"none", "deferred", "pending", "value", "exception"}]
    BY DEF CoreInv, TypesKnown
  <2> QED
    BY <2>1, CodeStays DEF CoreInv, TypesKnown
<1>17. (caught' \/ (t \in Tasks /\ result'[t] = "exception"))
          => caught \/ \E u \in Tasks : result[u] = "exception"
  OBVIOUS
<1>18. /\ \A k \in N : k.body \in {f.body, t} /\ PlaceKnown(k)'
       /\ \E k \in N : k.body = f.body
       /\ \A k \in Frames \ {f} : k.body # t
  BY <1>2, <1>9
<1>19. CoreInv'
  BY <1>11, <1>12, <1>13, <1>14, <1>15, <1>16, <1>17, <1>18, CoreKept
<1> QED
  BY <1>11, <1>13, <1>19 DEF g, n

LEMMA RunDeferredCore ==
    ASSUME CodeKnown, CoreInv, NEW th \in Threads, NEW t \in Tasks, NEW f, f = Top(th),
           RunDeferred(th, t)
    PROVE  LET N == {f, Frame(t, 1)}
           IN  CoreInv' /\ StepOf(f, N, t) /\ GoesOn(f, N)
<1> DEFINE h == Frame(t, 1)
           N == {f, h}
<1>1. /\ Running(th) /\ f \in Frames /\ f.body \in Threads /\ f.at \in Nat
      /\ StacksTyped /\ IsAt(th, "get", t)
  BY AtStatement DEF CoreInv, RunDeferred
<1>2. /\ future[t] = "deferred" /\ ResultKnown(t)
  BY DEF RunDeferred, CoreInv, ResultsKnown
<1>3. /\ Unstarted(t) /\ Policy(t) \in {"deferred", "default"} /\ result[t] = "none" /\ calls[t] = 0
      /\ \A k \in Frames : k.body # t
  BY <1>2 DEF ResultKnown, Unstarted
<1>4. t \in Threads /\ t # Main
  BY TasksAndMain
<1>5. /\ program' = program /\ stack' = [stack EXCEPT ![th] = Append(@, Frame(t, 1))]
      /\ result' = result /\ calls' = calls /\ caught' = caught
      /\ future' = [future EXCEPT ![t] = "pending"]
  BY DEF RunDeferred
<1>6. StacksTyped' /\ Frames' = (Frames \ {f}) \cup N
  <2>1. StacksTyped' /\ Frames' = Frames \cup {h}
    BY <1>1, <1>3, <1>4, <1>5, StartsOnTop
  <2> QED
    BY <1>1, <2>1
<1>7. /\ \A u \in Tasks \ {t} : future'[u] = future[u]
      /\ future'[t] = "pending"
  BY <1>5 DEF CoreInv, TypesKnown
<1>8. \A d \in Tasks : future[d] = "value" => future'[d] = "value"
  BY <1>2, <1>7
<1>9. f.body # t /\ (f.body # Main => future'[f.body] = future[f.body])
  BY <1>1, <1>3, <1>7, TasksAndMain
<1>10. PlaceKnown(f)'
  <2>1. PlaceKnown(f)
    BY <1>1 DEF CoreInv, PlacesKnown
  <2> QED
    BY <1>1, <1>5, <1>8, <1>9, <2>1, PlaceStays
<1>11. PlaceKnown(h)' /\ h.body = t /\ h.at = 1
  BY <1>3, <1>5, <1>7, FirstPlace
<1> HIDE DEF h
<1>12. StepOf(f, N, t)
  BY <1>1, <1>5, <1>6, <1>7 DEF StepOf
<1>13. Settled(t)
  BY <1>2, <1>3, <1>5 DEF Settled
<1>14. GoesOn(f, N)
  BY <1>1, <1>3, <1>11 DEF GoesOn
<1>15. StartedByNow(f, N, t)
  BY <1>2 DEF StartedByNow, FirstFuture
<1>16. ResultKnown(t)'
  <2>1. Policy(t)' = Policy(t)
    BY <1>5, CodeStays
  <2>2. result'[t] = "none" /\ calls'[t] = 0
    BY <1>3, <1>5
  <2> QED
    BY <1>3, <1>7, <2>1, <2>2 DEF ResultKnown
<1>17. TypesKnown'
  <2>1. future' \in [Tasks -> {"none", "deferred", "pending", "value", "exception"}]
    BY <1>5 DEF CoreInv, TypesKnown
  <2> QED
    BY <1>5, <2>1, CodeStays DEF CoreInv, TypesKnown
<1>18. (caught' \/ (t \in Tasks /\ result'[t] = "exception"))
          => caught \/ \E u \in Tasks : result[u] = "exception"
  BY <1>5
<1>19. /\ \A k \in N : k.body \in {f.body, t} /\ PlaceKnown(k)'
       /\ \E k \in N : k.body = f.body
       /\ \A k \in Frames \ {f} : k.body # t
  BY <1>3, <1>10, <1>11
<1>20. CoreInv'
  BY <1>12, <1>13, <1>14, <1>15, <1>16, <1>17, <1>18, <1>19, CoreKept
<1> QED
  BY <1>12, <1>14, <1>20 DEF h

(* The body of the frame f ends: with its result, when that is stored, or   *)
(* by an exception.                                                         *)
LEMMA EndsCore ==
    ASSUME CodeKnown, CoreInv, NEW th \in Threads, NEW f, f = Top(th), Running(th),
           NEW n, n \in {Finishing(f.body), Leaving(f.body)}, f.at < n,
           MovedTo(th, n), program' = program, TypesKnown',
           f.body = Main => n = Finishing(Main) /\ caught',
           f.body # Main =>
             /\ result'[f.body] # "none" /\ future[f.body] = "pending"
             /\ future'[f.body] = (IF n = Leaving(f.body) THEN result'[f.body] ELSE "pending")
             /\ result[f.body] # "none" => result'[f.body] = result[f.body]
             /\ calls[f.body] = 1 => calls'[f.body] = 1
             /\ ResultKnown(f.body)',
           caught => caught',
           \A u \in Tasks \ {f.body} :
             future'[u] = future[u] /\ result'[u] = result[u] /\ calls'[u] = calls[u],
           \/ (caught' \/ (f.body \in Tasks /\ result'[f.body] = "exception"))
                => caught \/ \E u \in Tasks : result[u] = "exception"
           \/ f.body \in Tasks /\ result'[f.body] = "exception" /\ calls'[f.body] = 1
    PROVE  LET N == {Frame(f.body, n)}
           IN  CoreInv' /\ StepOf(f, N, f.body) /\ GoesOn(f, N)
<1> DEFINE g == Frame(f.body, n)
           N == {g}
<1>1. f \in Frames /\ StacksTyped
  BY TopFrame DEF CoreInv
<1>2. /\ f.body \in Threads /\ f.at \in Nat /\ PlaceKnown(f) /\ ~ Unstarted(f.body)
      /\ \A h \in Frames \ {f} : h.body # f.body
  BY <1>1, AtWork
<1>3. PlaceKnown(g)' /\ g.body = f.body /\ g.at = n /\ n \in Nat
  BY <1>2, LastPlace
<1>4. StacksTyped' /\ Frames' = (Frames \ {f}) \cup N
  BY <1>1, <1>3, Moves DEF MovedTo
<1> HIDE DEF g
<1>5. StepOf(f, N, f.body)
  BY <1>1, <1>4 DEF StepOf
<1>6. f.body = Main \/ f.body \in Tasks
  BY <1>2, TasksAndMain
<1>7. Settled(f.body)
  BY <1>6, TasksAndMain DEF Settled
<1>8. GoesOn(f, N)
  BY <1>2, <1>3 DEF GoesOn
<1>9. StartedByNow(f, N, f.body)
  BY <1>2 DEF StartedByNow
<1>10. f.body \in Tasks => ResultKnown(f.body)'
  BY TasksAndMain
<1>11. CoreInv'
  BY <1>2, <1>3, <1>5, <1>7, <1>8, <1>9, <1>10, CoreKept
<1> QED
  BY <1>5, <1>8, <1>11 DEF g

(* What is got is the task's own result. *)
LEMMA GetExceptionCore ==
    ASSUME CodeKnown, CoreInv, NEW th \in Threads, NEW t \in Tasks, NEW f, f = Top(th),
           GetException(th, t)
    PROVE  LET N == {Frame(f.body, Finishing(f.body))}
           IN  CoreInv' /\ StepOf(f, N, f.body) /\ GoesOn(f, N)
<1> DEFINE b == f.body
           n == Finishing(b)
<1>1. /\ Running(th) /\ f \in Frames /\ b \in Threads /\ f.at \in Nat
      /\ f.at \in DOMAIN Body(b) /\ Body(b)[f.at] = Statement("get", t) /\ f.at < Returning(b)
  BY AtStatement DEF CoreInv, GetException
<1>2. /\ program' = program /\ stack' = [stack EXCEPT ![th] = At(th, n)]
      /\ future' = future /\ calls' = calls /\ future[t] = "exception"
      /\ b = Main => caught' = TRUE /\ result' = result
      /\ b # Main => caught' = caught /\ result' = [result EXCEPT ![b] = "exception"]
  BY DEF GetException
<1>3. f.at < n /\ ~ (n <= Returning(b)) /\ f.at <= Returning(b) /\ f.at <= Finishing(b) /\ n # Leaving(b)
  BY <1>1, Places
<1>4. result[t] = "exception"
  <2>1. ResultKnown(t)
    BY DEF CoreInv, ResultsKnown
  <2> QED
    BY <1>2, <2>1 DEF ResultKnown
<1>5. t \in Gets(b)
  BY <1>1 DEF Gets, Get
<1>6. b # Main => /\ b \in Tasks /\ ResultKnown(b) /\ Policy(b) # "promise"
                  /\ future[b] = "pending" /\ result[b] = "none" /\ calls[b] = 0
  BY <1>1, <1>3, AtWork
<1>7. \A u \in Tasks \ {b} : result'[u] = result[u]
  <2>1. CASE b = Main
    BY <1>2, <2>1
  <2>2. CASE b # Main
    BY <1>2, <2>2 DEF CoreInv, TypesKnown
  <2> QED
    BY <2>1, <2>2
<1>8. b # Main => result'[b] = "exception"
  BY <1>2, <1>6 DEF CoreInv, TypesKnown
<1>9. TypesKnown'
  <2>1. result' \in [Tasks -> {"none", "value", "exception"}] /\ caught' \in BOOLEAN
    BY <1>2, <1>6 DEF CoreInv, TypesKnown
  <2> QED
    BY <1>2, <2>1, CodeStays DEF CoreInv, TypesKnown
<1>10. b # Main => ResultKnown(b)'
  <2> SUFFICES ASSUME b # Main PROVE ResultKnown(b)'
    OBVIOUS
  <2>1. Policy(b)' = Policy(b) /\ Gets(b)' = Gets(b)
    BY <1>2, CodeStays
  <2>2. future'[b] = "pending" /\ calls'[b] = 0 /\ result'[b] = "exception"
        /\ \E d \in Gets(b) : future'[d] = "exception"
    BY <1>2, <1>5, <1>6, <1>8
  <2> QED
    BY <1>6, <2>1, <2>2 DEF ResultKnown
<1> HIDE DEF b, n
<1>11. caught => caught'
  BY <1>2
<1>12. \E u \in Tasks : result[u] = "exception"
  BY <1>4
<1> QED
  BY <1>1, <1>2, <1>3, <1>6, <1>7, <1>8, <1>9, <1>10, <1>11, <1>12, EndsCore DEF b, n, MovedTo

LEMMA FunctionCore ==
    ASSUME CodeKnown, CoreInv, NEW th \in Threads, NEW t \in Tasks, NEW f, f = Top(th),
           Function(th, t)
    PROVE  /\ LET N == {Frame(t, Finishing(t))}
              IN  CoreInv' /\ StepOf(f, N, t) /\ GoesOn(f, N)
           /\ f.body = t /\ f.at = Returning(t)
           /\ calls[t] = 0 /\ \A d \in Gets(t) : future[d] = "value"
<1> DEFINE n == Finishing(t)
<1>1. Running(th) /\ f = Frame(t, Returning(t)) /\ t # Main
  BY DEF Function
<1>2. f \in Frames
  BY <1>1, TopFrame DEF CoreInv
<1>3. f.body = t /\ f.at = Returning(t) /\ t \in Threads
  BY <1>1, TasksAndMain DEF Frame
<1>4. /\ program' = program /\ stack' = [stack EXCEPT ![th] = At(th, n)]
      /\ future' = future /\ caught' = caught
      /\ calls' = [calls EXCEPT ![t] = @ + 1]
      /\ result' = [result EXCEPT ![t] = IF t \in Code[program].throws THEN "exception" ELSE "value"]
  BY DEF Function, Return
<1>5. f.at < n /\ f.at <= Returning(t) /\ f.at <= Finishing(t) /\ n # Leaving(t)
  BY <1>3, Places
<1>6. /\ ResultKnown(t) /\ Policy(t) # "promise" /\ PlaceKnown(f)
      /\ future[t] = "pending" /\ result[t] = "none" /\ calls[t] = 0
  BY <1>1, <1>2, <1>3, <1>5, AtWork
<1>7. \A d \in Gets(t) : future[d] = "value"
  <2>1. \A i \in DOMAIN Body(t) : i < f.at
    BY <1>3, Places
  <2>2. \A i \in DOMAIN Body(t), d \in Tasks : Body(t)[i] = Get(d) => future[d] = "value"
    BY <1>3, <1>5, <1>6, <2>1 DEF PlaceKnown
  <2> QED
    BY <2>2 DEF Gets
<1>8. /\ \A u \in Tasks \ {t} : result'[u] = result[u] /\ calls'[u] = calls[u]
      /\ calls'[t] = 1
      /\ result'[t] = IF t \in Code[program].throws THEN "exception" ELSE "value"
  BY <1>4, <1>6 DEF CoreInv, TypesKnown
<1>9. TypesKnown'
  <2>1. result' \in [Tasks -> {"none", "value", "exception"}]
    BY <1>4 DEF CoreInv, TypesKnown
  <2>2. calls' \in [Tasks -> Nat]
    BY <1>4 DEF CoreInv, TypesKnown
  <2> QED
    BY <1>4, <2>1, <2>2, CodeStays DEF CoreInv, TypesKnown
<1>10. ResultKnown(t)'
  <2>1. Policy(t)' = Policy(t) /\ Gets(t)' = Gets(t) /\ Code[program]' = Code[program]
    BY <1>4, CodeStays
  <2>2. future'[t] = "pending" /\ calls'[t] = 1
        /\ \A d \in Gets(t) : future'[d] = "value"
    BY <1>4, <1>6, <1>7, <1>8
  <2> QED
    BY <1>6, <1>8, <2>1, <2>2 DEF ResultKnown
<1> HIDE DEF n
<1>11. \/ (caught' \/ (f.body \in Tasks /\ result'[f.body] = "exception"))
            => caught \/ \E u \in Tasks : result[u] = "exception"
       \/ f.body \in Tasks /\ result'[f.body] = "exception" /\ calls'[f.body] = 1
  BY <1>3, <1>4, <1>8
<1>12. /\ n \in {Finishing(f.body), Leaving(f.body)}
       /\ future'[f.body] = (IF n = Leaving(f.body) THEN result'[f.body] ELSE "pending")
       /\ result'[f.body] # "none" /\ calls'[f.body] = 1
       /\ MovedTo(th, n) /\ program' = program /\ (caught => caught')
       /\ f.at < n /\ future[f.body] = "pending" /\ result[f.body] = "none"
       /\ f.body # Main /\ f.body = t /\ ResultKnown(f.body)'
       /\ \A u \in Tasks \ {f.body} :
             future'[u] = future[u] /\ result'[u] = result[u] /\ calls'[u] = calls[u]
  BY <1>1, <1>3, <1>4, <1>5, <1>6, <1>8, <1>10 DEF n, MovedTo
<1>13. LET N == {Frame(f.body, n)}
       IN  CoreInv' /\ StepOf(f, N, f.body) /\ GoesOn(f, N)
  BY <1>1, <1>9, <1>11, <1>12, EndsCore
<1> QED
  BY <1>3, <1>6, <1>7, <1>13 DEF n

LEMMA MakeReadyCore ==
    ASSUME CodeKnown, CoreInv, NEW th \in Threads, NEW t \in Tasks, NEW f, f = Top(th),
           MakeReady(th, t)
    PROVE  /\ LET N == {Frame(t, Leaving(t))}
              IN  CoreInv' /\ StepOf(f, N, t) /\ GoesOn(f, N)
           /\ f.body = t /\ f.at = Finishing(t)
<1> DEFINE n == Leaving(t)
<1>1. Running(th) /\ f = Frame(t, Finishing(t)) /\ t # Main
  BY DEF MakeReady
<1>2. f \in Frames
  BY <1>1, TopFrame DEF CoreInv
<1>3. f.body = t /\ f.at = Finishing(t) /\ t \in Threads
  BY <1>1, TasksAndMain DEF Frame
<1>4. /\ program' = program /\ stack' = [stack EXCEPT ![th] = At(th, n)]
      /\ result' = result /\ caught' = caught /\ calls' = calls
      /\ future' = [future EXCEPT ![t] = result[t]]
  BY DEF MakeReady
<1>5. f.at < n /\ ~ (f.at <= Returning(t)) /\ f.at <= Finishing(t)
  BY <1>3, Places
<1>6. /\ ResultKnown(t) /\ Policy(t) # "promise"
      /\ future[t] = "pending" /\ result[t] # "none"
  BY <1>1, <1>2, <1>3, <1>5, AtWork
<1>7. result[t] \in {"value", "exception"}
  BY <1>6 DEF CoreInv, TypesKnown
<1>8. /\ \A u \in Tasks \ {t} : future'[u] = future[u]
      /\ future'[t] = result[t]
  BY <1>4 DEF CoreInv, TypesKnown
<1>9. TypesKnown'
  <2>1. future' \in [Tasks -> {"none", "deferred", "pending", "value", "exception"}]
    BY <1>4, <1>7 DEF CoreInv, TypesKnown
  <2> QED
    BY <1>4, <2>1, CodeStays DEF CoreInv, TypesKnown
<1>10. ResultKnown(t)'
  <2>1. Policy(t)' = Policy(t) /\ Gets(t)' = Gets(t) /\ Code[program]' = Code[program]
    BY <1>4, CodeStays
  <2>2. \A d \in Tasks : future[d] \in {"value", "exception"} => future'[d] = future[d]
    BY <1>6, <1>8
  <2>3. Gets(t) \subseteq Tasks
    BY DEF Gets
  <2>4. /\ (\E d \in Gets(t) : future[d] = "exception") => \E d \in Gets(t) : future'[d] = "exception"
        /\ (\A d \in Gets(t) : future[d] = "value") => \A d \in Gets(t) : future'[d] = "value"
    BY <2>2, <2>3
  <2> QED
    BY <1>4, <1>6, <1>7, <1>8, <2>1, <2>4 DEF ResultKnown
<1> HIDE DEF n
<1>11. (caught' \/ (f.body \in Tasks /\ result'[f.body] = "exception"))
            => caught \/ \E u \in Tasks : result[u] = "exception"
  BY <1>3, <1>4
<1>12. /\ n \in {Finishing(f.body), Leaving(f.body)}
       /\ future'[f.body] = (IF n = Leaving(f.body) THEN result'[f.body] ELSE "pending")
       /\ result'[f.body] # "none" /\ result'[f.body] = result[f.body]
       /\ calls'[f.body] = calls[f.body]
       /\ MovedTo(th, n) /\ program' = program /\ (caught => caught')
       /\ f.at < n /\ future[f.body] = "pending"
       /\ f.body # Main /\ f.body = t /\ ResultKnown(f.body)'
       /\ \A u \in Tasks \ {f.body} :
             future'[u] = future[u] /\ result'[u] = result[u] /\ calls'[u] = calls[u]
  BY <1>1, <1>3, <1>4, <1>5, <1>6, <1>8, <1>10 DEF n, MovedTo
<1>13. LET N == {Frame(f.body, n)}
       IN  CoreInv' /\ StepOf(f, N, f.body) /\ GoesOn(f, N)
  BY <1>1, <1>9, <1>11, <1>12, EndsCore
<1> QED
  BY <1>3, <1>13 DEF n

LEMMA LeaveCore ==
    ASSUME CodeKnown, CoreInv, NEW th \in Threads, NEW f, f = Top(th), Leave(th)
    PROVE  CoreInv' /\ StepOf(f, {}, f.body) /\ GoesOn(f, {})
<1>1. Running(th) /\ StacksTyped
  BY DEF CoreInv, Leave
<1>2. f \in Frames
  BY <1>1, TopFrame
<1>3. /\ f.body = Main => f.at \in {Returning(Main), Finishing(Main)}
      /\ f.body # Main => f.at = Leaving(f.body)
  BY DEF Leave
<1>4. /\ f.body \in Threads /\ f.at \in Nat /\ PlaceKnown(f) /\ ~ Unstarted(f.body)
      /\ \A g \in Frames \ {f} : g.body # f.body
      /\ f.body # Main => /\ f.body \in Tasks /\ ResultKnown(f.body)
                          /\ Policy(f.body) # "promise" /\ future[f.body] # "deferred"
      /\ f.body # Main /\ ~ (f.at <= Returning(f.body)) => result[f.body] # "none"
  BY <1>2, AtWork
<1>5. /\ program' = program /\ future' = future /\ result' = result /\ calls' = calls
      /\ caught' = caught /\ stack' = [stack EXCEPT ![th] = Front(@)]
  BY DEF Leave
<1>6. StacksTyped' /\ Frames' = Frames \ {f}
  BY <1>1, <1>5, Pops
<1>7. StepOf(f, {}, f.body)
  BY <1>2, <1>5, <1>6 DEF StepOf
<1>8. f.body # Main => result[f.body] # "none"
  <2>1. f.body # Main => ~ (f.at <= Returning(f.body))
    BY <1>3, <1>4, Places
  <2> QED
    BY <1>4, <2>1
<1>9. Settled(f.body) /\ GoesOn(f, {}) /\ StartedByNow(f, {}, f.body)
  <2>1. Settled(f.body)
    BY <1>5 DEF Settled
  <2>2. GoesOn(f, {})
    BY <1>5, <1>8 DEF GoesOn
  <2>3. StartedByNow(f, {}, f.body)
    BY <1>4 DEF StartedByNow
  <2> QED
    BY <2>1, <2>2, <2>3
<1>10. StartsAhead'
  BY <1>1, <1>7, <1>9, StartsAheadKept DEF CoreInv
<1>11. PlacesKnown'
  BY <1>1, <1>4, <1>7, <1>9, PlacesKept DEF CoreInv
<1>12. ResultsKnown'
  <2>1. f.body \in Tasks => ResultKnown(f.body)'
    <3> SUFFICES ASSUME f.body \in Tasks PROVE ResultKnown(f.body)'
      OBVIOUS
    <3>1. f.body # Main
      BY TasksAndMain
    <3>2. Policy(f.body)' = Policy(f.body) /\ Gets(f.body)' = Gets(f.body) /\ Code[program]' = Code[program]
      BY <1>5, CodeStays
    <3>3. ResultKnown(f.body) /\ Policy(f.body) # "promise" /\ future[f.body] # "deferred"
      BY <1>4, <3>1
    <3> QED
      BY <1>5, <3>2, <3>3 DEF ResultKnown
  <2> QED
    BY <1>1, <1>7, <1>9, <2>1, ResultsKept DEF CoreInv
<1>13. SourceKnown'
  <2>1. Tasks' = Tasks
    BY <1>5, CodeStays
  <2> QED
    BY <1>5, <2>1 DEF CoreInv, SourceKnown
<1>14. TypesKnown'
  BY <1>5, CodeStays DEF CoreInv, TypesKnown
<1>15. MainKnown'
  <2>1. Gets(Main)' = Gets(Main) /\ Code[program]' = Code[program]
    BY <1>5, CodeStays
  <2>2. CASE f.body # Main
    <3>1. (\A g \in Frames' : g.body # Main) => \A g \in Frames : g.body # Main
      BY <1>6, <2>2
    <3> QED
      BY <1>5, <2>1, <3>1 DEF CoreInv, MainKnown
  <2>3. CASE f.body = Main /\ f.at = Finishing(Main)
    <3>1. caught
      BY <1>4, <2>3 DEF PlaceKnown
    <3> QED
      BY <1>5, <3>1 DEF MainKnown
  <2>4. CASE f.body = Main /\ f.at = Returning(Main)
    <3>1. \A i \in DOMAIN Body(Main) : i < f.at
      BY <1>4, <2>4, Places
    <3>2. f.at <= Returning(f.body)
      BY <1>4, <2>4
    <3>3. \A i \in DOMAIN Body(Main), d \in Tasks : Body(Main)[i] = Get(d) => future[d] = "value"
      BY <1>4, <2>4, <3>1, <3>2 DEF PlaceKnown
    <3>4. \A d \in Gets(Main) : future[d] = "value"
      BY <3>3 DEF Gets
    <3> QED
      BY <1>5, <2>1, <3>4 DEF MainKnown
  <2> QED
    BY <1>3, <2>2, <2>3, <2>4
<1>16. StacksTyped'
  BY <1>6
<1>17. CoreInv'
  BY <1>10, <1>11, <1>12, <1>13, <1>14, <1>15, <1>16 DEF CoreInv
<1> QED
  BY <1>7, <1>9, <1>17

Inv == CodeKnown /\ GuardCodeKnown /\ CoreInv /\ GuardsKnown

(* main holds a guard only where it has just acquired one. *)
LEMMA MainAlone ==
    ASSUME StacksTyped, NEW f \in Frames, f.body = Main
    PROVE  MainHolds <=> HoldsAt(f.at)
<1>1. \A g \in Frames : g.body = Main => g = f
  BY OneFrame
<1> QED
  BY <1>1 DEF MainHolds

LEMMA HoldsKept ==
    ASSUME CodeKnown, StacksTyped, NEW t, NEW f, NEW N, StepOf(f, N, t), GoesOn(f, N),
           f.body = Main => ~ HoldsAt(f.at) /\ \A g \in N : g.body = Main => ~ HoldsAt(g.at)
    PROVE  MainHolds' <=> MainHolds
<1>1. \A i : HoldsAt(i)' <=> HoldsAt(i)
  BY CodeStays DEF HoldsAt, StepOf
<1>2. MainHolds' <=> \E g \in Frames' : g.body = Main /\ HoldsAt(g.at)
  BY <1>1 DEF MainHolds
<1>3. Frames' = (Frames \ {f}) \cup N /\ f \in Frames
  BY DEF StepOf
<1>4. CASE f.body = Main
  <2>1. ~ MainHolds
    BY <1>3, <1>4, MainAlone
  <2>2. \A g \in Frames \ {f} : g.body # Main
    BY <1>3, <1>4, OneFrame
  <2> QED
    BY <1>2, <1>3, <1>4, <2>1, <2>2
<1>5. CASE f.body # Main
  <2>1. \A g \in N : g.body # Main
    BY <1>5, TasksAndMain DEF GoesOn, Unstarted
  <2> QED
    BY <1>2, <1>3, <1>5, <2>1 DEF MainHolds
<1> QED
  BY <1>4, <1>5

(* Steps that leave the semaphore alone. *)
LEMMA GuardsKept ==
    ASSUME Inv, NEW t, NEW f, NEW N, StepOf(f, N, t), GoesOn(f, N),
           guards' = guards, permits' = permits,
           f.body \notin guards \ {Main},
           f.body = Main => ~ HoldsAt(f.at) /\ \A g \in N : g.body = Main => ~ HoldsAt(g.at),
           program = "limited" => \A g \in N : g.body # f.body => g.body \in guards
    PROVE  GuardsKnown'
<1>1. MainHolds' <=> MainHolds
  BY HoldsKept DEF Inv, CoreInv
<1>2. /\ Threads' = Threads /\ program' = program
      /\ \A b : Returning(b)' = Returning(b) /\ Body(b)' = Body(b)
  BY CodeStays DEF StepOf
<1>3. Frames' = (Frames \ {f}) \cup N /\ f \in Frames
  BY DEF StepOf
<1>4. ASSUME NEW u \in guards \ {Main}
      PROVE  Body(u) = << >> /\ \E g \in Frames' : g.body = u /\ g.at <= Returning(u)
  BY <1>3, <1>4 DEF Inv, GuardsKnown
<1>5. ASSUME program = "limited", NEW g \in Frames', g.body # Main, g.at <= Returning(g.body)
      PROVE  g.body \in guards
  <2>1. CASE g \in Frames
    BY <1>5, <2>1 DEF Inv, GuardsKnown
  <2>2. CASE g \in N /\ g.body = f.body
    <3>1. f.body \in Threads /\ f.at \in Nat /\ ~ Unstarted(f.body)
      BY <1>3, AtWork DEF Inv
    <3>2. g.at \in Nat
      <4>1. StacksTyped'
        BY DEF StepOf
      <4>2. g \in FrameOf(Threads)
        <5>1. \E th \in Threads : \E i \in DOMAIN stack'[th] : g = stack'[th][i]
          BY <1>2, <1>5, <4>1 DEF Frames, FramesIn, StacksTyped, StacksOf
        <5>2. StacksOf(Threads, stack')
          BY <1>2, <4>1 DEF StacksTyped
        <5>3. ASSUME NEW th \in Threads, NEW i \in DOMAIN stack'[th]
              PROVE  stack'[th][i] \in FrameOf(Threads)
          BY <5>2, StackTypes
        <5> QED
          BY <5>1, <5>3
      <4> QED
        BY <4>2 DEF FrameOf
    <3>3. f.at <= g.at
      BY <2>2, <3>1, <3>2 DEF GoesOn
    <3>4. f.at <= Returning(f.body)
      <4>1. Returning(f.body) \in Nat
        BY <3>1, Places DEF Inv
      <4> QED
        BY <1>5, <2>2, <3>1, <3>2, <3>3, <4>1
    <3> QED
      BY <1>3, <1>5, <2>2, <3>4 DEF Inv, GuardsKnown
  <2>3. CASE g \in N /\ g.body # f.body
    BY <1>5, <2>3
  <2> QED
    BY <1>3, <1>5, <2>1, <2>2, <2>3
<1>6. /\ guards \subseteq Threads /\ IsFiniteSet(guards) /\ permits \in Nat
      /\ permits + Cardinality(guards) = max_concurrent_tasks
      /\ Main \in guards <=> MainHolds
  BY DEF Inv, GuardsKnown
<1> QED
  BY <1>1, <1>2, <1>4, <1>5, <1>6 DEF GuardsKnown

(* A statement is executed by no task that holds a guard, and by main with  *)
(* one only where it launches a task. *)
LEMMA AtNoGuard ==
    ASSUME Inv, NEW th \in Threads, NEW do, NEW t, NEW f, f = Top(th), IsAt(th, do, t)
    PROVE  /\ f.body \notin guards \ {Main}
           /\ f.body = Main /\ HoldsAt(f.at) => do = "launch" /\ t \in Tasks /\ Policy(t) = "async"
           /\ f.body = Main /\ HoldsAt(f.at + 1) => do = "acquire"
           /\ Main \in guards => f.body = Main /\ HoldsAt(f.at)
           /\ ~ HoldsAt(Returning(Main)) /\ ~ HoldsAt(Finishing(Main))
<1>1. /\ f \in Frames /\ f.body \in Threads /\ f.at \in Nat /\ StacksTyped
      /\ f.at \in DOMAIN Body(f.body) /\ Body(f.body)[f.at] = Statement(do, t)
  BY AtStatement DEF Inv, CoreInv
<1>2. f.body \notin guards \ {Main}
  <2>1. DOMAIN Body(f.body) = 1 .. Len(Body(f.body)) /\ f.at \in 1 .. Len(Body(f.body))
    BY <1>1, Places DEF Inv
  <2>2. Body(f.body) # << >>
    BY <2>1
  <2> QED
    BY <2>2 DEF Inv, GuardsKnown
<1>3. \A i : HoldsAt(i) =>
         /\ i - 1 \in DOMAIN Body(Main)
         /\ (i - 1) + 1 \in DOMAIN Body(Main)
         /\ \E u \in Tasks : Body(Main)[(i - 1) + 1] = Launch(u) /\ Policy(u) = "async"
         /\ \A u \in Tasks : Body(u) = << >>
  <2>1. Main \in Threads
    BY TasksAndMain DEF Inv
  <2> QED
    BY <2>1 DEF Inv, GuardCodeKnown, HoldsAt
<1>4. f.body = Main /\ HoldsAt(f.at) => do = "launch" /\ t \in Tasks /\ Policy(t) = "async"
  <2> SUFFICES ASSUME f.body = Main, HoldsAt(f.at) PROVE do = "launch" /\ t \in Tasks /\ Policy(t) = "async"
    OBVIOUS
  <2>1. PICK u \in Tasks : Body(Main)[(f.at - 1) + 1] = Launch(u) /\ Policy(u) = "async"
    BY <1>3
  <2>2. (f.at - 1) + 1 = f.at
    BY <1>1
  <2>3. Statement(do, t) = Launch(u)
    BY <1>1, <2>1, <2>2
  <2> QED
    BY <2>1, <2>3 DEF Launch, Statement
<1>5. f.body = Main /\ HoldsAt(f.at + 1) => do = "acquire"
  <2> SUFFICES ASSUME f.body = Main, HoldsAt(f.at + 1) PROVE do = "acquire"
    OBVIOUS
  <2>1. f.at + 1 - 1 = f.at
    BY <1>1
  <2>2. Statement(do, t) = Acquire
    BY <1>1, <2>1 DEF HoldsAt
  <2> QED
    BY <2>2 DEF Acquire, Statement
<1>6. Main \in guards => f.body = Main /\ HoldsAt(f.at)
  <2> SUFFICES ASSUME Main \in guards PROVE f.body = Main /\ HoldsAt(f.at)
    OBVIOUS
  <2>1. MainHolds
    BY DEF Inv, GuardsKnown
  <2>2. \A u \in Tasks : Body(u) = << >>
    BY <1>3, <2>1 DEF MainHolds
  <2>3. f.at \in 1 .. Len(Body(f.body))
    BY <1>1, Places DEF Inv
  <2>4. f.body = Main
    BY <1>1, <2>2, <2>3, TasksAndMain DEF Inv
  <2> QED
    BY <1>1, <2>1, <2>4, MainAlone
<1>7. ~ HoldsAt(Returning(Main)) /\ ~ HoldsAt(Finishing(Main))
  <2>1. /\ Len(Body(Main)) \in Nat /\ DOMAIN Body(Main) = 1 .. Len(Body(Main))
        /\ Returning(Main) = Len(Body(Main)) + 1 /\ Finishing(Main) = Len(Body(Main)) + 2
    BY Places, TasksAndMain DEF Inv
  <2>2. (Returning(Main) - 1) + 1 \notin DOMAIN Body(Main)
    BY <2>1
  <2>3. Finishing(Main) - 1 \notin DOMAIN Body(Main)
    BY <2>1
  <2> QED
    BY <1>3, <2>2, <2>3
<1> QED
  BY <1>2, <1>4, <1>5, <1>6, <1>7

LEMMA QuietStatement ==
    ASSUME Inv, NEW th \in Threads, NEW do, NEW t, NEW f, f = Top(th), IsAt(th, do, t),
           NEW N, NEW u, StepOf(f, N, u), GoesOn(f, N), guards' = guards, permits' = permits,
           do # "acquire", do = "launch" => Policy(t) # "async",
           \A g \in N : g.body = f.body =>
             g.at \in {f.at, f.at + 1, Returning(g.body), Finishing(g.body)},
           program = "limited" => \A g \in N : g.body # f.body => g.body \in guards
    PROVE  GuardsKnown'
<1>1. /\ f.body \notin guards \ {Main}
      /\ f.body = Main => ~ HoldsAt(f.at) /\ ~ HoldsAt(f.at + 1)
      /\ ~ HoldsAt(Returning(Main)) /\ ~ HoldsAt(Finishing(Main))
  BY AtNoGuard
<1>2. \A g \in N : g.body = Main => f.body = Main
  BY TasksAndMain DEF GoesOn, Unstarted, Inv
<1>3. f.body = Main => ~ HoldsAt(f.at) /\ \A g \in N : g.body = Main => ~ HoldsAt(g.at)
  BY <1>1
<1> QED
  BY <1>1, <1>3, GuardsKept

LEMMA PlainStep ==
    ASSUME Inv, NEW th \in Threads, NEW do, NEW t \in Tasks, IsAt(th, do, t),
           do \in {"get", "find", "wait"},
           NEW n, n = Top(th).at + 1 \/ (n = Returning(Top(th).body) /\ do = "find"),
           MovedTo(th, n),
           do = "get" => future[t] = "value",
           UNCHANGED <<program, future, result, calls, caught, guards, permits>>
    PROVE  CoreInv' /\ GuardsKnown'
<1> PICK f : f = Top(th)
  OBVIOUS
<1>1. /\ Running(th) /\ f \in Frames /\ f.body \in Threads /\ f.at \in Nat
      /\ f.at \in DOMAIN Body(f.body) /\ Body(f.body)[f.at] = Statement(do, t)
      /\ f.at < Returning(f.body)
  BY AtStatement DEF Inv, CoreInv
<1>2. n \in f.at + 1 .. Returning(f.body)
  <2>1. Returning(f.body) \in Nat
    BY <1>1, Places DEF Inv
  <2> QED
    BY <1>1, <2>1
<1>3. \A i \in DOMAIN Body(f.body), d \in Tasks :
        f.at <= i /\ i < n /\ Body(f.body)[i] = Get(d) => future[d] = "value"
  <2> SUFFICES ASSUME NEW i \in DOMAIN Body(f.body), NEW d \in Tasks,
                      f.at <= i, i < n, Body(f.body)[i] = Get(d)
               PROVE  future[d] = "value"
    OBVIOUS
  <2>1. CASE i = f.at
    <3>1. Statement(do, t) = Get(d)
      BY <1>1, <2>1
    <3>2. do = "get" /\ t = d
      BY <3>1 DEF Get, Statement
    <3> QED
      BY <3>2
  <2>2. CASE i # f.at
    <3>1. do = "find"
      <4>1. DOMAIN Body(f.body) = 1 .. Len(Body(f.body)) /\ Len(Body(f.body)) \in Nat
        BY <1>1, Places DEF Inv
      <4>2. n # f.at + 1
        BY <1>1, <2>2, <4>1
      <4> QED
        BY <4>2
    <3>2. Body(f.body)[f.at] = GetFind(t)
      BY <1>1, <3>1 DEF GetFind, Statement
    <3>3. Gets(f.body) = {}
      BY <1>1, <3>2 DEF Inv, CodeKnown
    <3>4. d \in Gets(f.body)
      BY DEF Gets
    <3> QED
      BY <3>3, <3>4
  <2> QED
    BY <2>1, <2>2
<1>4. /\ CoreInv' /\ StepOf(f, {Frame(f.body, n)}, f.body) /\ GoesOn(f, {Frame(f.body, n)})
  BY <1>1, <1>2, <1>3, JustMoves DEF Inv
<1>5. GuardsKnown'
  <2> DEFINE N == {Frame(f.body, n)}
  <2>1. \A g \in N : g.body = f.body /\ g.at = n
    BY DEF Frame
  <2> HIDE DEF N
  <2>2. StepOf(f, N, f.body) /\ GoesOn(f, N)
    BY <1>4 DEF N
  <2> QED
    BY <1>1, <2>1, <2>2, QuietStatement
<1> QED
  BY <1>4, <1>5

LEMMA StartTaskStep ==
    ASSUME Inv, NEW th \in Threads, NEW t \in Tasks, StartTask(th, t)
    PROVE  CoreInv' /\ GuardsKnown'
<1> PICK f : f = Top(th)
  OBVIOUS
<1> DEFINE g == Frame(f.body, f.at + 1)
           h == Frame(t, 1)
           N == {g, h}
<1>1. IsAt(th, "launch", t) /\ Statement("launch", t) \in Starts(t) /\ Policy(t) \in {"async", "default"}
  BY DEF StartTask, Starts, Launch
<1>2. /\ program' = program /\ result' = result /\ calls' = calls /\ caught' = caught
      /\ stack' = [stack EXCEPT ![th] = Continued(th), ![t] = << Frame(t, 1) >>]
      /\ future' = [future EXCEPT ![t] = "pending"]
      /\ permits' = permits
      /\ guards' = IF Main \in guards THEN {t} \cup (guards \ {Main}) ELSE guards
  BY DEF StartTask
<1>3. CoreInv' /\ StepOf(f, N, t) /\ GoesOn(f, N)
  BY <1>1, <1>2, Begins DEF Inv
<1>4. /\ f \in Frames /\ f.body \in Threads /\ f.at \in Nat
      /\ f.at \in DOMAIN Body(f.body) /\ Body(f.body)[f.at] = Statement("launch", t)
  BY <1>1, AtStatement DEF Inv, CoreInv
<1>5. t # Main /\ t \in Threads /\ \A k \in Frames : k.body # t
  BY <1>1, StartReached DEF Inv
<1>6. /\ f.body \notin guards \ {Main}
      /\ f.body = Main => ~ HoldsAt(f.at + 1)
      /\ Main \in guards => f.body = Main /\ HoldsAt(f.at)
  BY <1>1, AtNoGuard
<1>7. g.body = f.body /\ g.at = f.at + 1 /\ h.body = t /\ h.at = 1
  BY DEF Frame
<1>8. Frames' = (Frames \ {f}) \cup N
  BY <1>3 DEF StepOf
<1> HIDE DEF g, h
<1>9. CASE Main \notin guards
  <2>1. guards' = guards
    BY <1>2, <1>9
  <2>2. f.body = Main => ~ HoldsAt(f.at)
    BY <1>4, <1>9, MainAlone DEF Inv, CoreInv, GuardsKnown
  <2>3. program # "limited"
    <3> SUFFICES ASSUME program = "limited" PROVE FALSE
      OBVIOUS
    <3>1. f.body = Main /\ HoldsAt(f.at)
      BY <1>1, <1>4 DEF Inv, GuardCodeKnown
    <3> QED
      BY <2>2, <3>1
  <2>4. \A k \in N : k.body = Main => ~ HoldsAt(k.at)
    BY <1>5, <1>6, <1>7
  <2>5. GuardsKnown'
    BY <1>2, <1>3, <1>6, <2>1, <2>2, <2>3, <2>4, GuardsKept
  <2> QED
    BY <1>3, <2>5
<1>10. CASE Main \in guards
  <2>1. guards' = {t} \cup (guards \ {Main})
    BY <1>2, <1>10
  <2>2. /\ guards \subseteq Threads /\ IsFiniteSet(guards) /\ permits \in Nat
        /\ permits + Cardinality(guards) = max_concurrent_tasks
    BY DEF Inv, GuardsKnown
  <2>3. t \notin guards
    BY <1>5 DEF Inv, GuardsKnown
  <2>4. IsFiniteSet(guards') /\ Cardinality(guards') = Cardinality(guards)
    <3>1. IsFiniteSet(guards \ {Main}) /\ Cardinality(guards \ {Main}) = Cardinality(guards) - 1
      BY <1>10, <2>2, FS_RemoveElement
    <3>2. /\ IsFiniteSet((guards \ {Main}) \cup {t})
          /\ Cardinality((guards \ {Main}) \cup {t}) = Cardinality(guards \ {Main}) + 1
      BY <2>3, <3>1, FS_AddElement
    <3>3. guards' = (guards \ {Main}) \cup {t}
      BY <2>1
    <3>4. Cardinality(guards) \in Nat
      BY <2>2, FS_CardinalityType
    <3> QED
      BY <3>1, <3>2, <3>3, <3>4
  <2>5. f.body = Main /\ HoldsAt(f.at)
    BY <1>6, <1>10
  <2>6. /\ Threads' = Threads /\ program' = program
        /\ \A b : Returning(b)' = Returning(b) /\ Body(b)' = Body(b)
        /\ \A i : HoldsAt(i)' <=> HoldsAt(i)
    BY <1>2, CodeStays DEF HoldsAt
  <2>7. ~ MainHolds'
    <3>1. \A k \in Frames' : k.body = Main => k = g
      <4>1. \A k \in Frames \ {f} : k.body # Main
        BY <1>4, <2>5, OneFrame DEF Inv, CoreInv
      <4> QED
        BY <1>5, <1>7, <1>8, <4>1
    <3>2. MainHolds' <=> \E k \in Frames' : k.body = Main /\ HoldsAt(k.at)
      BY <2>6 DEF MainHolds
    <3> QED
      BY <1>6, <1>7, <2>5, <3>1, <3>2
  <2>8. Body(t) = << >> /\ t \in guards' /\ 1 <= Returning(t)
    <3>1. Body(t) = << >>
      <4>1. f.at - 1 \in DOMAIN Body(Main) /\ Body(Main)[f.at - 1] = Acquire
        BY <2>5 DEF HoldsAt
      <4>2. Main \in Threads
        BY TasksAndMain DEF Inv
      <4> QED
        BY <4>1, <4>2 DEF Inv, GuardCodeKnown
    <3>2. Returning(t) = Len(Body(t)) + 1 /\ Len(Body(t)) \in Nat
      BY <1>5, Places DEF Inv
    <3> QED
      BY <2>1, <3>1, <3>2
  <2>9. ASSUME NEW u \in guards' \ {Main}
        PROVE  Body(u) = << >> /\ \E k \in Frames' : k.body = u /\ k.at <= Returning(u)
    <3>1. CASE u = t
      BY <1>7, <1>8, <2>8, <3>1
    <3>2. CASE u # t
      <4>1. u \in guards \ {Main}
        BY <2>1, <2>9, <3>2
      <4>2. PICK k \in Frames : k.body = u /\ k.at <= Returning(u)
        BY <4>1 DEF Inv, GuardsKnown
      <4>3. k # f
        BY <2>5, <4>1, <4>2
      <4> QED
        BY <1>8, <4>1, <4>2, <4>3 DEF Inv, GuardsKnown
    <3> QED
      BY <3>1, <3>2
  <2>10. ASSUME program = "limited", NEW k \in Frames', k.body # Main, k.at <= Returning(k.body)
         PROVE  k.body \in guards'
    <3>1. CASE k \in Frames
      BY <2>1, <2>10, <3>1 DEF Inv, GuardsKnown
    <3>2. CASE k \in N
      BY <1>7, <2>5, <2>8, <2>10, <3>2
    <3> QED
      BY <1>8, <3>1, <3>2, <2>10
  <2>11. Main \notin guards' /\ guards' \subseteq Threads
    BY <1>5, <2>1, <2>2
  <2>12. permits' \in Nat /\ permits' + Cardinality(guards') = max_concurrent_tasks
    BY <1>2, <2>2, <2>4
  <2> HIDE DEF N
  <2>13. GuardsKnown'
    BY <2>4, <2>6, <2>7, <2>9, <2>10, <2>11, <2>12 DEF GuardsKnown
  <2> QED
    BY <1>3, <2>13
<1> QED
  BY <1>9, <1>10

LEMMA MarkStep ==
    ASSUME Inv, NEW th \in Threads, NEW t \in Tasks, DeferTask(th, t) \/ SetPromise(th, t)
    PROVE  CoreInv' /\ GuardsKnown'
<1> PICK f : f = Top(th)
  OBVIOUS
<1> DEFINE g == Frame(f.body, f.at + 1)
           N == {g}
<1>1. PICK do \in {"launch", "set"}, v \in {"deferred", "value"} :
        /\ IsAt(th, do, t) /\ Statement(do, t) \in Starts(t)
        /\ \/ v = "deferred" /\ Policy(t) \in {"deferred", "default"}
           \/ v = "value" /\ do = "set"
        /\ stack' = [stack EXCEPT ![th] = Continued(th)]
        /\ future' = [future EXCEPT ![t] = v]
        /\ UNCHANGED <<program, result, calls, permits, guards, caught>>
        /\ do = "launch" => Policy(t) # "async"
  <2>1. CASE DeferTask(th, t)
    BY <2>1 DEF DeferTask, Starts, Launch
  <2>2. CASE SetPromise(th, t)
    BY <2>2 DEF SetPromise, Starts, Set
  <2> QED
    BY <2>1, <2>2
<1>2. /\ f.body \in Threads
      /\ f.at \in DOMAIN Body(f.body) /\ Body(f.body)[f.at] = Statement(do, t)
  BY <1>1, AtStatement DEF Inv, CoreInv
<1>3. do = "set" => Policy(t) = "promise"
  <2>1. do = "set" => Statement(do, t) = Set(t)
    BY DEF Set
  <2> QED
    BY <1>2, <2>1 DEF Inv, CodeKnown
<1>4. CoreInv' /\ StepOf(f, N, t) /\ GoesOn(f, N)
  BY <1>1, <1>3, Marks DEF Inv
<1>5. g.body = f.body /\ g.at = f.at + 1
  BY DEF Frame
<1> HIDE DEF g
<1>6. GuardsKnown'
  BY <1>1, <1>4, <1>5, QuietStatement
<1> QED
  BY <1>4, <1>6

LEMMA RunDeferredStep ==
    ASSUME Inv, NEW th \in Threads, NEW t \in Tasks, RunDeferred(th, t)
    PROVE  CoreInv' /\ GuardsKnown'
<1> PICK f : f = Top(th)
  OBVIOUS
<1> DEFINE N == {f, Frame(t, 1)}
<1>1. CoreInv' /\ StepOf(f, N, t) /\ GoesOn(f, N)
  BY RunDeferredCore DEF Inv
<1>2. IsAt(th, "get", t) /\ guards' = guards /\ permits' = permits /\ future[t] = "deferred"
  BY DEF RunDeferred
<1>3. program # "limited"
  <2>1. ResultKnown(t)
    BY DEF Inv, CoreInv, ResultsKnown
  <2>2. Policy(t) # "async"
    BY <1>2, <2>1 DEF ResultKnown
  <2> QED
    BY <2>2 DEF Inv, GuardCodeKnown
<1>4. \A g \in N : g.body = f.body => g.at = f.at
  <2>1. f \in Frames
    BY <1>1 DEF StepOf
  <2>2. ResultKnown(t)
    BY DEF Inv, CoreInv, ResultsKnown
  <2>3. Unstarted(t)
    BY <1>2, <2>2 DEF ResultKnown
  <2>4. t # f.body
    BY <2>1, <2>3 DEF Unstarted
  <2> QED
    BY <2>4 DEF Frame
<1> HIDE DEF N
<1>5. GuardsKnown'
  BY <1>1, <1>2, <1>3, <1>4, QuietStatement
<1> QED
  BY <1>1, <1>5

LEMMA CallTaskStep ==
    ASSUME Inv, NEW th \in Threads, NEW t \in Tasks, CallTask(th, t)
    PROVE  CoreInv' /\ GuardsKnown'
<1> PICK f : f = Top(th)
  OBVIOUS
<1> DEFINE g == Frame(f.body, f.at + 1)
           h == Frame(t, 1)
           N == {g, h}
<1>1. IsAt(th, "call", t) /\ Statement("call", t) \in Starts(t) /\ Call(t) = Statement("call", t)
  BY DEF CallTask, Starts, Call
<1>2. /\ program' = program /\ result' = result /\ calls' = calls /\ caught' = caught
      /\ stack' = [stack EXCEPT ![th] = Append(Continued(th), Frame(t, 1))]
      /\ future' = future /\ permits' = permits /\ guards' = guards
  BY DEF CallTask
<1>3. /\ f.body \in Threads
      /\ f.at \in DOMAIN Body(f.body) /\ Body(f.body)[f.at] = Statement("call", t) /\ f \in Frames
  BY <1>1, AtStatement DEF Inv, CoreInv
<1>4. Policy(t) = "called"
  BY <1>1, <1>3 DEF Inv, CodeKnown
<1>5. future[t] = "pending" /\ \A k \in Frames : k.body # t
  BY <1>1, <1>4, StartReached DEF FirstFuture, Inv
<1>6. future' = [future EXCEPT ![t] = "pending"]
  BY <1>2, <1>5 DEF Inv, CoreInv, TypesKnown
<1>7. CoreInv' /\ StepOf(f, N, t) /\ GoesOn(f, N)
  BY <1>1, <1>2, <1>4, <1>6, Begins DEF Inv
<1>8. program # "limited"
  BY <1>4 DEF Inv, GuardCodeKnown
<1>9. \A k \in N : k.body = f.body => k.at = f.at + 1
  BY <1>3, <1>5 DEF Frame
<1> HIDE DEF N
<1>10. GuardsKnown'
  BY <1>1, <1>2, <1>7, <1>8, <1>9, QuietStatement
<1> QED
  BY <1>7, <1>10

LEMMA GetExceptionStep ==
    ASSUME Inv, NEW th \in Threads, NEW t \in Tasks, GetException(th, t)
    PROVE  CoreInv' /\ GuardsKnown'
<1> PICK f : f = Top(th)
  OBVIOUS
<1> DEFINE N == {Frame(f.body, Finishing(f.body))}
<1>1. CoreInv' /\ StepOf(f, N, f.body) /\ GoesOn(f, N)
  BY GetExceptionCore DEF Inv
<1>2. IsAt(th, "get", t) /\ guards' = guards /\ permits' = permits
  BY DEF GetException
<1>3. \A g \in N : g.body = f.body /\ g.at = Finishing(g.body)
  BY DEF Frame
<1> HIDE DEF N
<1>4. GuardsKnown'
  BY <1>1, <1>2, <1>3, QuietStatement
<1> QED
  BY <1>1, <1>4

(* get() of a value, the loops that look for one, the wait of a destructor. *)
LEMMA PlainSteps ==
    ASSUME Inv, NEW th \in Threads, NEW t \in Tasks,
           GetValue(th, t) \/ GetAndFind(th, t) \/ WaitReady(th, t)
    PROVE  CoreInv' /\ GuardsKnown'
<1>1. PICK n : n = Top(th).at + 1
  OBVIOUS
<1>2. PICK k : k = Returning(Top(th).body)
  OBVIOUS
<1>3. CASE GetValue(th, t)
  <2>1. /\ IsAt(th, "get", t) /\ MovedTo(th, n) /\ future[t] = "value"
        /\ UNCHANGED <<program, future, result, calls, caught, guards, permits>>
    BY <1>1, <1>3 DEF GetValue, MovedTo, Continued
  <2> QED
    BY <1>1, <2>1, PlainStep
<1>4. CASE GetAndFind(th, t)
  <2>1. /\ IsAt(th, "find", t)
        /\ UNCHANGED <<program, future, result, calls, caught, guards, permits>>
    BY <1>4 DEF GetAndFind
  <2>2. MovedTo(th, n) \/ MovedTo(th, k)
    BY <1>1, <1>2, <1>4 DEF GetAndFind, MovedTo, Continued
  <2>3. "find" # "get"
    OBVIOUS
  <2>4. CASE MovedTo(th, n)
    BY <1>1, <2>1, <2>3, <2>4, PlainStep
  <2>5. CASE MovedTo(th, k)
    BY <1>2, <2>1, <2>3, <2>5, PlainStep
  <2> QED
    BY <2>2, <2>4, <2>5
<1>5. CASE WaitReady(th, t)
  <2>1. /\ IsAt(th, "wait", t) /\ MovedTo(th, n)
        /\ UNCHANGED <<program, future, result, calls, caught, guards, permits>>
    BY <1>1, <1>5 DEF WaitReady, MovedTo, Continued
  <2>2. "wait" # "get"
    OBVIOUS
  <2> QED
    BY <1>1, <2>1, <2>2, PlainStep
<1> QED
  BY <1>3, <1>4, <1>5

LEMMA AcquireGuardStep ==
    ASSUME Inv, NEW th \in Threads, AcquireGuard(th)
    PROVE  CoreInv' /\ GuardsKnown'
<1> PICK f : f = Top(th)
  OBVIOUS
<1> DEFINE n == f.at + 1
           g == Frame(f.body, n)
           N == {g}
<1>1. IsAt(th, "acquire", Main) /\ Acquire = Statement("acquire", Main)
  BY DEF AcquireGuard, Acquire
<1>2. /\ program' = program /\ future' = future /\ result' = result /\ calls' = calls
      /\ caught' = caught /\ MovedTo(th, n)
      /\ permits > 0 /\ permits' = permits - 1 /\ guards' = guards \cup {Main}
  BY DEF AcquireGuard, MovedTo, Continued
<1>3. /\ Running(th) /\ f \in Frames /\ f.body \in Threads /\ f.at \in Nat
      /\ f.at \in DOMAIN Body(f.body) /\ Body(f.body)[f.at] = Acquire
      /\ f.at < Returning(f.body)
  BY <1>1, AtStatement DEF Inv, CoreInv
<1>4. f.body = Main
  BY <1>3 DEF Inv, GuardCodeKnown
<1>5. n \in f.at + 1 .. Returning(f.body)
  <2>1. Returning(f.body) \in Nat
    BY <1>3, Places DEF Inv
  <2> QED
    BY <1>3, <2>1
<1>6. \A i \in DOMAIN Body(f.body), d \in Tasks :
        f.at <= i /\ i < n /\ Body(f.body)[i] = Get(d) => future[d] = "value"
  <2> SUFFICES ASSUME NEW i \in DOMAIN Body(f.body), NEW d \in Tasks,
                      f.at <= i, i < n, Body(f.body)[i] = Get(d)
               PROVE  FALSE
    OBVIOUS
  <2>1. i = f.at
    <3>1. DOMAIN Body(f.body) = 1 .. Len(Body(f.body)) /\ Len(Body(f.body)) \in Nat
      BY <1>3, Places DEF Inv
    <3> QED
      BY <1>3, <3>1
  <2> QED
    BY <1>3, <2>1 DEF Get, Acquire, Statement
<1>7. CoreInv' /\ StepOf(f, N, f.body) /\ GoesOn(f, N)
  <2> HIDE DEF n
  <2> QED
    BY <1>2, <1>3, <1>5, <1>6, JustMoves DEF Inv
<1>8. g.body = Main /\ g.at = n
  BY <1>4 DEF Frame
<1>9. Frames' = (Frames \ {f}) \cup N
  BY <1>7 DEF StepOf
<1> HIDE DEF g
<1>10. ~ HoldsAt(f.at)
  BY <1>1, <1>4, AtNoGuard
<1>11. HoldsAt(n)
  <2>1. n - 1 = f.at
    BY <1>3
  <2> QED
    BY <1>3, <1>4, <2>1 DEF HoldsAt
<1>12. Main \notin guards
  BY <1>3, <1>4, <1>10, MainAlone DEF Inv, CoreInv, GuardsKnown
<1>13. /\ guards \subseteq Threads /\ IsFiniteSet(guards) /\ permits \in Nat
       /\ permits + Cardinality(guards) = max_concurrent_tasks
  BY DEF Inv, GuardsKnown
<1>14. /\ guards' \subseteq Threads /\ IsFiniteSet(guards') /\ permits' \in Nat
       /\ permits' + Cardinality(guards') = max_concurrent_tasks
  <2>1. IsFiniteSet(guards \cup {Main}) /\ Cardinality(guards \cup {Main}) = Cardinality(guards) + 1
    BY <1>12, <1>13, FS_AddElement
  <2>2. Cardinality(guards) \in Nat
    BY <1>13, FS_CardinalityType
  <2> QED
    BY <1>2, <1>13, <2>1, <2>2, TasksAndMain DEF Inv
<1>15. /\ Threads' = Threads
       /\ \A b : Returning(b)' = Returning(b) /\ Body(b)' = Body(b)
       /\ \A i : HoldsAt(i)' <=> HoldsAt(i)
  BY <1>2, CodeStays DEF HoldsAt
<1>16. MainHolds'
  <2>1. MainHolds' <=> \E k \in Frames' : k.body = Main /\ HoldsAt(k.at)
    BY <1>15 DEF MainHolds
  <2> QED
    BY <1>8, <1>9, <1>11, <2>1
<1>17. ASSUME NEW u \in guards' \ {Main}
       PROVE  Body(u) = << >> /\ \E k \in Frames' : k.body = u /\ k.at <= Returning(u)
  <2>1. u \in guards \ {Main}
    BY <1>2, <1>17
  <2>2. PICK k \in Frames : k.body = u /\ k.at <= Returning(u)
    BY <2>1 DEF Inv, GuardsKnown
  <2> QED
    BY <1>4, <1>9, <2>1, <2>2 DEF Inv, GuardsKnown
<1>18. ASSUME program = "limited", NEW k \in Frames', k.body # Main, k.at <= Returning(k.body)
       PROVE  k.body \in guards'
  BY <1>2, <1>8, <1>9, <1>18 DEF Inv, GuardsKnown
<1> HIDE DEF N
<1>19. GuardsKnown'
  <2>1. Main \in guards' /\ program' = program
    BY <1>2
  <2> QED
    BY <1>14, <1>15, <1>16, <1>17, <1>18, <2>1 DEF GuardsKnown
<1> QED
  BY <1>7, <1>19

LEMMA FunctionStep ==
    ASSUME Inv, NEW th \in Threads, NEW t \in Tasks, Function(th, t)
    PROVE  CoreInv' /\ GuardsKnown'
<1> PICK f : f = Top(th)
  OBVIOUS
<1> DEFINE g == Frame(t, Finishing(t))
           N == {g}
<1>1. /\ CoreInv' /\ StepOf(f, N, t) /\ GoesOn(f, N)
      /\ f.body = t /\ f.at = Returning(t)
  BY FunctionCore DEF Inv
<1>2. /\ program' = program /\ guards' = guards \ {t}
      /\ permits' = IF t \in guards THEN permits + 1 ELSE permits
  BY DEF Function, Return
<1>3. t # Main /\ t \in Threads
  BY TasksAndMain DEF Inv
<1>4. g.body = t /\ g.at = Finishing(t) /\ ~ (g.at <= Returning(t))
  <2>1. Finishing(t) = Len(Body(t)) + 2 /\ Returning(t) = Len(Body(t)) + 1 /\ Len(Body(t)) \in Nat
    BY <1>3, Places DEF Inv
  <2>2. ~ (Finishing(t) <= Returning(t))
    BY <2>1
  <2> QED
    BY <2>2 DEF Frame
<1>5. Frames' = (Frames \ {f}) \cup N /\ f \in Frames
  BY <1>1 DEF StepOf
<1> HIDE DEF g
<1>6. MainHolds' <=> MainHolds
  BY <1>1, <1>3, HoldsKept DEF Inv, CoreInv
<1>7. /\ Threads' = Threads
      /\ \A b : Returning(b)' = Returning(b) /\ Body(b)' = Body(b)
  BY <1>2, CodeStays
<1>8. /\ guards \subseteq Threads /\ IsFiniteSet(guards) /\ permits \in Nat
      /\ permits + Cardinality(guards) = max_concurrent_tasks
      /\ Main \in guards <=> MainHolds
  BY DEF Inv, GuardsKnown
<1>9. /\ guards' \subseteq Threads /\ IsFiniteSet(guards') /\ permits' \in Nat
      /\ permits' + Cardinality(guards') = max_concurrent_tasks
  <2>1. Cardinality(guards) \in Nat
    BY <1>8, FS_CardinalityType
  <2>2. CASE t \in guards
    <3>1. IsFiniteSet(guards \ {t}) /\ Cardinality(guards \ {t}) = Cardinality(guards) - 1
      BY <1>8, <2>2, FS_RemoveElement
    <3> QED
      BY <1>2, <1>8, <2>1, <2>2, <3>1
  <2>3. CASE t \notin guards
    <3>1. guards \ {t} = guards
      BY <2>3
    <3> QED
      BY <1>2, <1>8, <2>3, <3>1
  <2> QED
    BY <2>2, <2>3
<1>10. ASSUME NEW u \in guards' \ {Main}
       PROVE  Body(u) = << >> /\ \E k \in Frames' : k.body = u /\ k.at <= Returning(u)
  <2>1. u \in guards \ {Main} /\ u # t
    BY <1>2, <1>10
  <2>2. PICK k \in Frames : k.body = u /\ k.at <= Returning(u)
    BY <2>1 DEF Inv, GuardsKnown
  <2> QED
    BY <1>1, <1>5, <2>1, <2>2 DEF Inv, GuardsKnown
<1>11. ASSUME program = "limited", NEW k \in Frames', k.body # Main, k.at <= Returning(k.body)
       PROVE  k.body \in guards'
  <2>1. k \in Frames /\ k # f
    BY <1>4, <1>5, <1>11
  <2>2. k.body # t
    BY <1>1, <1>5, <2>1, OneFrame DEF Inv, CoreInv
  <2> QED
    BY <1>2, <1>11, <2>1, <2>2 DEF Inv, GuardsKnown
<1>12. Main \in guards' <=> MainHolds'
  BY <1>2, <1>3, <1>6, <1>8
<1> HIDE DEF N
<1>13. GuardsKnown'
  BY <1>2, <1>7, <1>9, <1>10, <1>11, <1>12 DEF GuardsKnown
<1> QED
  BY <1>1, <1>13

LEMMA MakeReadyStep ==
    ASSUME Inv, NEW th \in Threads, NEW t \in Tasks, MakeReady(th, t)
    PROVE  CoreInv' /\ GuardsKnown'
<1> PICK f : f = Top(th)
  OBVIOUS
<1> DEFINE N == {Frame(t, Leaving(t))}
<1>1. /\ CoreInv' /\ StepOf(f, N, t) /\ GoesOn(f, N)
      /\ f.body = t /\ f.at = Finishing(t)
  BY MakeReadyCore DEF Inv
<1>2. guards' = guards /\ permits' = permits
  BY DEF MakeReady
<1>3. t # Main /\ t \in Threads /\ f \in Frames
  BY <1>1, TasksAndMain DEF Inv, StepOf
<1>4. t \notin guards
  <2>1. Finishing(t) = Len(Body(t)) + 2 /\ Returning(t) = Len(Body(t)) + 1 /\ Len(Body(t)) \in Nat
    BY <1>3, Places DEF Inv
  <2>2. ~ (f.at <= Returning(t))
    BY <1>1, <2>1
  <2>3. \A k \in Frames : k.body = t => k = f
    BY <1>1, <1>3, OneFrame DEF Inv, CoreInv
  <2> QED
    BY <1>3, <2>2, <2>3 DEF Inv, GuardsKnown
<1>5. \A g \in N : g.body = f.body
  BY <1>1 DEF Frame
<1> HIDE DEF N
<1>6. GuardsKnown'
  BY <1>1, <1>2, <1>3, <1>4, <1>5, GuardsKept
<1> QED
  BY <1>1, <1>6

LEMMA LeaveStep ==
    ASSUME Inv, NEW th \in Threads, Leave(th)
    PROVE  CoreInv' /\ GuardsKnown'
<1> PICK f : f = Top(th)
  OBVIOUS
<1> DEFINE N == {}
<1>1. CoreInv' /\ StepOf(f, N, f.body) /\ GoesOn(f, N)
  BY LeaveCore DEF Inv
<1>2. guards' = guards /\ permits' = permits
  BY DEF Leave
<1>3. f \in Frames /\ f.body \in Threads /\ f.at \in Nat
  BY <1>1, AtWork DEF Inv, StepOf
<1>4. /\ f.body = Main => f.at \in {Returning(Main), Finishing(Main)}
      /\ f.body # Main => f.at = Leaving(f.body)
  BY DEF Leave
<1>5. f.body \notin guards \ {Main}
  <2>1. f.body # Main => ~ (f.at <= Returning(f.body))
    BY <1>3, <1>4, Places DEF Inv
  <2>2. \A k \in Frames : k.body = f.body => k = f
    BY <1>3, OneFrame DEF Inv, CoreInv
  <2> QED
    BY <2>1, <2>2 DEF Inv, GuardsKnown
<1>6. f.body = Main => ~ HoldsAt(f.at)
  <2>1. /\ Main \in Threads /\ DOMAIN Body(Main) = 1 .. Len(Body(Main)) /\ Len(Body(Main)) \in Nat
        /\ Returning(Main) = Len(Body(Main)) + 1 /\ Finishing(Main) = Len(Body(Main)) + 2
    BY Places, TasksAndMain DEF Inv
  <2>2. (Returning(Main) - 1) + 1 \notin DOMAIN Body(Main) /\ Finishing(Main) - 1 \notin DOMAIN Body(Main)
    BY <2>1
  <2>3. \A i : HoldsAt(i) => i - 1 \in DOMAIN Body(Main) /\ (i - 1) + 1 \in DOMAIN Body(Main)
    BY <2>1 DEF Inv, GuardCodeKnown, HoldsAt
  <2> QED
    BY <1>4, <2>2, <2>3
<1> HIDE DEF N
<1>7. GuardsKnown'
  <2>1. \A g \in N : FALSE
    BY DEF N
  <2> QED
    BY <1>1, <1>2, <1>5, <1>6, <2>1, GuardsKept
<1> QED
  BY <1>1, <1>7

(* A program all of whose statements are accounted for: each that starts t  *)
(* is the one statement at[t] of the body from[t], and a program that       *)
(* leaves loops gets nothing else.                                          *)
Regular(c, from, at, finds, b, i) ==
    LET s == BodyOf(c, b)[i] IN
    \/ \E t \in DOMAIN c.bodies :
         \/ from[t] = b /\ at[t] = i /\ s = Launch(t)
         \/ from[t] = b /\ at[t] = i /\ s = Call(t) /\ c.policy[t] = "called"
         \/ from[t] = b /\ at[t] = i /\ s = Set(t) /\ c.policy[t] = "promise"
         \/ s = Get(t) /\ ~ finds
         \/ s = GetFind(t) /\ finds
         \/ s = Wait(t)
    \/ /\ s = Acquire /\ b = Main /\ i + 1 \in DOMAIN c.main
       /\ \E t \in DOMAIN c.bodies : c.main[i + 1] = Launch(t) /\ c.policy[t] = "async"
       /\ \A t \in DOMAIN c.bodies : c.bodies[t] = << >>

LEMMA StatementsDiffer ==
    /\ \A t, u : /\ (Launch(t) = Launch(u) \/ Call(t) = Call(u) \/ Set(t) = Set(u) \/ Get(t) = Get(u)) => t = u
                 /\ Launch(t) # Call(u) /\ Launch(t) # Set(u) /\ Call(t) # Set(u)
                 /\ Get(t) # Launch(u) /\ Get(t) # Call(u) /\ Get(t) # Set(u)
                 /\ GetFind(t) # Launch(u) /\ GetFind(t) # Call(u) /\ GetFind(t) # Set(u) /\ GetFind(t) # Get(u)
                 /\ Wait(t) # Launch(u) /\ Wait(t) # Call(u) /\ Wait(t) # Set(u) /\ Wait(t) # Get(u)
                 /\ Wait(t) # GetFind(u)
    /\ \A t : /\ Acquire # Launch(t) /\ Acquire # Call(t) /\ Acquire # Set(t) /\ Acquire # Get(t)
              /\ Acquire # GetFind(t) /\ Acquire # Wait(t)
  BY DEF Launch, Call, Set, Get, GetFind, Wait, Acquire, Statement

LEMMA RegularCode ==
    ASSUME NEW c, NEW from, NEW at, NEW finds \in BOOLEAN, BodiesTyped(c),
           \A b \in BodiesOf(c) : \A i \in DOMAIN BodyOf(c, b) : Regular(c, from, at, finds, b, i),
           \A t \in DOMAIN c.bodies :
             c.policy[t] = "promise" => DOMAIN c.bodies[t] = {} /\ t \notin c.throws,
           finds => c.throws = {}, ThrowsReachMain(c)
    PROVE  WellFormed(c)
<1>1. \A b \in BodiesOf(c) : \A i \in DOMAIN BodyOf(c, b), t \in DOMAIN c.bodies :
        /\ BodyOf(c, b)[i] \in Starts(t) => from[t] = b /\ at[t] = i
        /\ BodyOf(c, b)[i] = Call(t) => c.policy[t] = "called"
        /\ BodyOf(c, b)[i] = Set(t) => c.policy[t] = "promise"
  <2> SUFFICES ASSUME NEW b \in BodiesOf(c), NEW i \in DOMAIN BodyOf(c, b), NEW t \in DOMAIN c.bodies
               PROVE  /\ BodyOf(c, b)[i] \in Starts(t) => from[t] = b /\ at[t] = i
                      /\ BodyOf(c, b)[i] = Call(t) => c.policy[t] = "called"
                      /\ BodyOf(c, b)[i] = Set(t) => c.policy[t] = "promise"
    OBVIOUS
  <2>1. Regular(c, from, at, finds, b, i)
    OBVIOUS
  <2> QED
    BY <2>1, StatementsDiffer DEF Regular, Starts
<1>2. \A b \in BodiesOf(c) : \A i \in DOMAIN BodyOf(c, b), t \in DOMAIN c.bodies :
        /\ BodyOf(c, b)[i] = GetFind(t) => finds
        /\ BodyOf(c, b)[i] = Get(t) => ~ finds
  <2> SUFFICES ASSUME NEW b \in BodiesOf(c), NEW i \in DOMAIN BodyOf(c, b), NEW t \in DOMAIN c.bodies
               PROVE  /\ BodyOf(c, b)[i] = GetFind(t) => finds
                      /\ BodyOf(c, b)[i] = Get(t) => ~ finds
    OBVIOUS
  <2>1. Regular(c, from, at, finds, b, i)
    OBVIOUS
  <2> QED
    BY <2>1, StatementsDiffer DEF Regular
<1>3. StartedOnce(c)
  BY <1>1 DEF StartedOnce
<1>4. StartedByPolicy(c)
  <2>1. \A t \in DOMAIN c.bodies : c.policy[t] = "promise" => GetsOf(c, t) = {} /\ t \notin c.throws
    <3> SUFFICES ASSUME NEW t \in DOMAIN c.bodies, c.policy[t] = "promise"
                 PROVE  GetsOf(c, t) = {} /\ t \notin c.throws
      OBVIOUS
    <3>1. BodyOf(c, t) = c.bodies[t]
      BY DEF BodyOf, BodiesTyped
    <3> QED
      BY <3>1 DEF GetsOf
  <2> QED
    BY <1>1, <2>1 DEF StartedByPolicy
<1>5. FindsApart(c)
  BY <1>2 DEF FindsApart, GetsOf
<1>6. GuardsPassedOn(c)
  <2> SUFFICES ASSUME NEW b \in BodiesOf(c), NEW i \in DOMAIN BodyOf(c, b), BodyOf(c, b)[i] = Acquire
               PROVE  /\ b = Main /\ i + 1 \in DOMAIN c.main
                      /\ \E t \in DOMAIN c.bodies : c.main[i + 1] = Launch(t) /\ c.policy[t] = "async"
                      /\ \A t \in DOMAIN c.bodies : c.bodies[t] = << >>
    BY DEF GuardsPassedOn
  <2>1. Regular(c, from, at, finds, b, i)
    OBVIOUS
  <2> QED
    BY <2>1, StatementsDiffer DEF Regular
<1> QED
  BY <1>3, <1>4, <1>5, <1>6 DEF WellFormed

(* Tasks that get nothing: only main has statements. *)
LEMMA IndependentBodies ==
    ASSUME NEW n \in Nat
    PROVE  DOMAIN Independent(n) = 1 .. n /\ \A t \in 1 .. n : Independent(n)[t] = << >>
<1>1. DOMAIN Independent(n) = 1 .. n
  BY DEF Independent, Getting, Each
<1>2. ASSUME NEW t \in 1 .. n PROVE Independent(n)[t] = << >>
  <2>1. Independent(n)[t] = [i \in 1 .. Len(<< >>) |-> Get((<< >>)[i])]
    BY <1>2 DEF Independent, Getting, Each
  <2>2. Len(<< >>) = 0
    OBVIOUS
  <2> DEFINE s == [i \in 1 .. 0 |-> Get((<< >>)[i])]
  <2>3. s \in [1 .. 0 -> {0}]
    OBVIOUS
  <2> HIDE DEF s
  <2>4. s \in Seq({0}) /\ Len(s) = 0
    BY <2>3, FunctionSeq
  <2>5. s = << >>
    BY <2>4, EmptySeq
  <2> QED
    BY <2>1, <2>2, <2>5 DEF s
<1> QED
  BY <1>1, <1>2

InMain(c, n, at, finds, i) ==
    \/ \E t \in 1 .. n :
         \/ at[t] = i /\ c.main[i] = Launch(t)
         \/ at[t] = i /\ c.main[i] = Call(t) /\ c.policy[t] = "called"
         \/ c.main[i] = Get(t) /\ ~ finds
         \/ c.main[i] = GetFind(t) /\ finds
         \/ c.main[i] = Wait(t)
    \/ /\ c.main[i] = Acquire /\ i < Len(c.main)
       /\ \E t \in 1 .. n : c.main[i + 1] = Launch(t) /\ c.policy[t] = "async"

LEMMA MainOnly ==
    ASSUME NEW n \in Nat, NEW c, c.bodies = Independent(n), NEW at, NEW finds \in BOOLEAN,
           Len(c.main) \in Nat, DOMAIN c.main = 1 .. Len(c.main),
           \A i \in 1 .. Len(c.main) : InMain(c, n, at, finds, i),
           \A t \in 1 .. n : c.policy[t] # "promise",
           finds => c.throws = {},
           \A t \in c.throws : t \in 1 .. n /\ \E i \in DOMAIN c.main : c.main[i] = Get(t)
    PROVE  WellFormed(c)
<1>1. DOMAIN c.bodies = 1 .. n /\ \A t \in 1 .. n : c.bodies[t] = << >>
  BY IndependentBodies
<1>2. Main \notin DOMAIN c.bodies /\ BodyOf(c, Main) = c.main /\ Main \in BodiesOf(c)
  BY <1>1 DEF Main, BodyOf, BodiesOf
<1>3. \A t \in 1 .. n : BodyOf(c, t) = << >>
  BY <1>1, <1>2 DEF BodyOf
<1>4. BodiesOf(c) = (1 .. n) \cup {Main}
  BY <1>1 DEF BodiesOf
<1>5. Len(<< >>) = 0 /\ DOMAIN << >> = {} /\ 1 .. 0 = {}
  OBVIOUS
<1>6. BodiesTyped(c)
  BY <1>2, <1>3, <1>4, <1>5 DEF BodiesTyped
<1> DEFINE from == [t \in 1 .. n |-> Main]
<1>7. ASSUME NEW b \in BodiesOf(c), NEW i \in DOMAIN BodyOf(c, b)
      PROVE  Regular(c, from, at, finds, b, i)
  <2>1. b = Main
    BY <1>3, <1>4, <1>5, <1>7
  <2>2. i \in 1 .. Len(c.main) /\ BodyOf(c, b)[i] = c.main[i]
    BY <1>2, <1>7, <2>1
  <2>3. \A t \in 1 .. n : from[t] = Main
    OBVIOUS
  <2> HIDE DEF from
  <2>4. CASE /\ c.main[i] = Acquire /\ i < Len(c.main)
             /\ \E t \in 1 .. n : c.main[i + 1] = Launch(t) /\ c.policy[t] = "async"
    <3>1. i + 1 \in DOMAIN c.main
      BY <2>2, <2>4
    <3> QED
      BY <1>1, <2>1, <2>2, <2>4, <3>1 DEF Regular
  <2>5. CASE \E t \in 1 .. n :
                  \/ at[t] = i /\ c.main[i] = Launch(t)
                  \/ at[t] = i /\ c.main[i] = Call(t) /\ c.policy[t] = "called"
                  \/ c.main[i] = Get(t) /\ ~ finds
                  \/ c.main[i] = GetFind(t) /\ finds
                  \/ c.main[i] = Wait(t)
    BY <1>1, <2>1, <2>2, <2>3, <2>5 DEF Regular
  <2> QED
    BY <2>2, <2>4, <2>5 DEF InMain
<1>8. ThrowsReachMain(c)
  <2>1. c.throws \subseteq GetsOf(c, Main)
    BY <1>1, <1>2 DEF GetsOf
  <2> QED
    BY <2>1 DEF ThrowsReachMain
<1> HIDE DEF from
<1> QED
  BY <1>1, <1>6, <1>7, <1>8, RegularCode

Statements == [do : {"launch", "get", "find", "wait", "call", "set", "acquire"}, task : Nat]

LEMMA StatementType ==
    ASSUME NEW t \in Nat
    PROVE  {Launch(t), Get(t), GetFind(t), Wait(t), Call(t), Set(t), Acquire} \subseteq Statements
  BY DEF Launch, Get, GetFind, Wait, Call, Set, Acquire, Statement, Statements, Main

LEMMA OneLoop ==
    ASSUME NEW n \in Nat, NEW s \in [1 .. n -> Statements]
    PROVE  Len(s) = n /\ DOMAIN s = 1 .. n /\ s \in Seq(Statements)
  BY FunctionSeq

LEMMA OneAfterTheOther ==
    ASSUME NEW n \in Nat, NEW s \in [1 .. n -> Statements],
           NEW m \in Nat, NEW u \in [1 .. m -> Statements]
    PROVE  /\ Len(s \o u) = n + m /\ DOMAIN (s \o u) = 1 .. n + m
           /\ \A i \in 1 .. n : (s \o u)[i] = s[i]
           /\ \A i \in 1 .. n + m : n < i => i - n \in 1 .. m /\ (s \o u)[i] = u[i - n]
<1>1. s \in Seq(Statements) /\ Len(s) = n /\ u \in Seq(Statements) /\ Len(u) = m
  BY OneLoop
<1> DEFINE w == s \o u
<1>2. /\ w \in Seq(Statements) /\ Len(w) = n + m
      /\ \A i \in 1 .. n + m : w[i] = IF i <= n THEN s[i] ELSE u[i - n]
  BY <1>1, ConcatProperties
<1> HIDE DEF w
<1>3. DOMAIN w = 1 .. n + m
  BY <1>2, LenProperties
<1>4. \A i \in 1 .. n : w[i] = s[i]
  BY <1>2
<1>5. \A i \in 1 .. n + m : n < i => i - n \in 1 .. m /\ w[i] = u[i - n]
  BY <1>2
<1> QED
  BY <1>2, <1>3, <1>4, <1>5 DEF w

LEMMA Halves ==
    ASSUME NEW n \in Nat, NEW k \in 1 .. 2 * n
    PROVE  /\ k % 2 = 1 => /\ (k + 1) \div 2 \in 1 .. n /\ k = 2 * ((k + 1) \div 2) - 1
                           /\ k + 1 \in 1 .. 2 * n /\ (k + 1) % 2 # 1
           /\ k % 2 # 1 => k \div 2 \in 1 .. n /\ k = 2 * (k \div 2)
  BY SMT

(* tasks 1 to total_tasks *)
LEMMA TotalTasks ==
    /\ total_tasks \in Nat /\ 2 * total_tasks \in Nat
    /\ total_tasks - 1 \in Nat /\ total_tasks + 1 \in Nat /\ 2 * (total_tasks - 1) \in Nat
  BY TasksAssumption

(* All are started, and then all are got, waited for or searched. *)
LEMMA StartAllForm ==
    ASSUME NEW c, c.bodies = Independent(total_tasks), NEW finds \in BOOLEAN,
           NEW u \in [1 .. total_tasks -> Statements], c.main = StartAll \o u,
           \A i \in 1 .. total_tasks :
             (u[i] = Get(i) /\ ~ finds) \/ (u[i] = GetFind(i) /\ finds) \/ u[i] = Wait(i),
           \A t \in 1 .. total_tasks : c.policy[t] # "promise",
           c.throws = {}
    PROVE  WellFormed(c)
<1> DEFINE n == total_tasks
           at == [t \in 1 .. n |-> t]
<1>1. n \in Nat
  BY TotalTasks
<1> HIDE DEF n
<1>2. StartAll \in [1 .. n -> Statements] /\ \A i \in 1 .. n : StartAll[i] = Launch(i)
  BY StatementType DEF StartAll, Each, n
<1>3. /\ Len(c.main) = n + n /\ DOMAIN c.main = 1 .. n + n
      /\ \A i \in 1 .. n : c.main[i] = Launch(i)
      /\ \A i \in 1 .. n + n : n < i => i - n \in 1 .. n /\ c.main[i] = u[i - n]
  BY <1>1, <1>2, OneAfterTheOther DEF n
<1>4. ASSUME NEW i \in 1 .. n + n PROVE InMain(c, n, at, finds, i)
  <2>1. CASE i \in 1 .. n
    <3>1. at[i] = i /\ c.main[i] = Launch(i)
      BY <1>3, <2>1
    <3> QED
      BY <2>1, <3>1 DEF InMain
  <2>2. CASE n < i
    <3>1. i - n \in 1 .. n /\ c.main[i] = u[i - n]
      BY <1>3, <2>2
    <3>2. \/ u[i - n] = Get(i - n) /\ ~ finds
          \/ u[i - n] = GetFind(i - n) /\ finds
          \/ u[i - n] = Wait(i - n)
      BY <3>1 DEF n
    <3> QED
      BY <3>1, <3>2 DEF InMain
  <2> QED
    BY <1>1, <2>1, <2>2
<1> HIDE DEF at
<1>5. Len(c.main) \in Nat /\ DOMAIN c.main = 1 .. Len(c.main)
  BY <1>1, <1>3
<1>6. Len(c.main) = n + n /\ c.bodies = Independent(n) /\ \A t \in 1 .. n : c.policy[t] # "promise"
  BY <1>3 DEF n
<1> QED
  BY <1>1, <1>4, <1>5, <1>6, MainOnly

(* One statement after the other, for each. *)
LEMMA InTurnForm ==
    ASSUME NEW n \in Nat, NEW c, c.bodies = Independent(n),
           NEW u \in [1 .. 2 * n -> Statements], c.main = u,
           \A k \in 1 .. 2 * n :
             /\ k % 2 = 1 => \/ u[k] = Launch((k + 1) \div 2)
                             \/ u[k] = Call((k + 1) \div 2) /\ c.policy[(k + 1) \div 2] = "called"
             /\ k % 2 # 1 => u[k] = Get(k \div 2) \/ u[k] = Wait(k \div 2),
           \A t \in 1 .. n : c.policy[t] # "promise",
           c.throws = {}
    PROVE  WellFormed(c)
<1> DEFINE at == [t \in 1 .. n |-> 2 * t - 1]
           finds == FALSE
<1>1. ASSUME NEW i \in 1 .. 2 * n PROVE InMain(c, n, at, finds, i)
  <2>1. CASE i % 2 = 1
    <3>1. (i + 1) \div 2 \in 1 .. n /\ at[(i + 1) \div 2] = i
      BY <2>1, Halves
    <3> QED
      BY <2>1, <3>1 DEF InMain
  <2>2. CASE i % 2 # 1
    <3>1. i \div 2 \in 1 .. n
      BY <2>2, Halves
    <3> QED
      BY <2>2, <3>1 DEF InMain
  <2> QED
    BY <2>1, <2>2
<1>2. 2 * n \in Nat
  OBVIOUS
<1>3. Len(c.main) \in Nat /\ DOMAIN c.main = 1 .. Len(c.main) /\ Len(c.main) = 2 * n
  BY <1>2, OneLoop
<1> HIDE DEF at, finds
<1>4. \A i \in 1 .. Len(c.main) : InMain(c, n, at, finds, i)
  BY <1>1, <1>3
<1>5. finds \in BOOLEAN
  BY DEF finds
<1> QED
  BY <1>3, <1>4, <1>5, MainOnly

LEMMA StartAllPrograms ==
    /\ WellFormed(average_squares) /\ WellFormed(matrix_multiply) /\ WellFormed(FuturesVector)
    /\ WellFormed(BM_Async_Parallel) /\ WellFormed(Invocations) /\ WellFormed(Map)
    /\ WellFormed(Containers) /\ WellFormed(Search) /\ WellFormed(BM_AsyncPerRow)
<1> DEFINE n == total_tasks
<1>1. /\ Each(Get, n) \in [1 .. n -> Statements] /\ \A i \in 1 .. n : Each(Get, n)[i] = Get(i)
      /\ Each(GetFind, n) \in [1 .. n -> Statements] /\ \A i \in 1 .. n : Each(GetFind, n)[i] = GetFind(i)
      /\ Each(Wait, n) \in [1 .. n -> Statements] /\ \A i \in 1 .. n : Each(Wait, n)[i] = Wait(i)
  BY StatementType, TotalTasks DEF Each
<1>2. ASSUME NEW c, NEW policy \in {"async", "default"},
             NEW u \in {Each(Get, n), Each(GetFind, n), Each(Wait, n)},
             c = Scenario(StartAll \o u, Independent(n), AllTasks(n, policy), {})
      PROVE  WellFormed(c)
  <2>1. /\ c.main = StartAll \o u /\ c.bodies = Independent(n) /\ c.throws = {}
        /\ \A t \in 1 .. n : c.policy[t] = policy
    BY <1>2 DEF Scenario, AllTasks
  <2> DEFINE finds == u = Each(GetFind, n)
  <2>2. u \in [1 .. n -> Statements]
    BY <1>1
  <2>3. CASE u = Each(GetFind, n)
    <3>1. \A i \in 1 .. n : u[i] = GetFind(i)
      BY <1>1, <2>3
    <3> QED
      BY <2>1, <2>2, <3>1, StartAllForm
  <2>4. CASE u # Each(GetFind, n)
    <3>1. \A i \in 1 .. n : u[i] = Get(i) \/ u[i] = Wait(i)
      BY <1>1, <2>4
    <3> QED
      BY <2>1, <2>2, <3>1, StartAllForm
  <2> QED
    BY <2>3, <2>4
<1> HIDE DEF n
<1>3. /\ average_squares = Scenario(StartAll \o Each(Get, n), Independent(n), AllTasks(n, "async"), {})
      /\ matrix_multiply = average_squares /\ FuturesVector = average_squares
      /\ BM_Async_Parallel = average_squares
      /\ Invocations = Scenario(StartAll \o Each(Get, n), Independent(n), AllTasks(n, "default"), {})
      /\ Map = Invocations
      /\ Containers = Scenario(StartAll \o Each(GetFind, n), Independent(n), AllTasks(n, "async"), {})
      /\ Search = Containers
      /\ BM_AsyncPerRow = Scenario(StartAll \o Each(Wait, n), Independent(n), AllTasks(n, "async"), {})
  BY DEF n, average_squares, matrix_multiply, FuturesVector, BM_Async_Parallel, Invocations, Map,
         Containers, Search, BM_AsyncPerRow, AsyncScenario
<1>4. WellFormed(average_squares) /\ WellFormed(Invocations) /\ WellFormed(Containers) /\ WellFormed(BM_AsyncPerRow)
  <2>1. WellFormed(average_squares)
    BY <1>2, <1>3
  <2>2. WellFormed(Invocations)
    BY <1>2, <1>3
  <2>3. WellFormed(Containers)
    BY <1>2, <1>3
  <2>4. WellFormed(BM_AsyncPerRow)
    BY <1>2, <1>3
  <2> QED
    BY <2>1, <2>2, <2>3, <2>4
<1> QED
  BY <1>3, <1>4

LEMMA InTurnPrograms ==
    /\ WellFormed(Reset) /\ WellFormed(Discarded) /\ WellFormed(BM_Async_Discarding)
    /\ WellFormed(Stored)
<1> DEFINE n == total_tasks
<1>1. n \in Nat /\ 2 * n \in Nat
  BY TotalTasks
<1> HIDE DEF n
<1>2. /\ EachOfTwo(Call, Get, n) \in [1 .. 2 * n -> Statements]
      /\ \A k \in 1 .. 2 * n :
           EachOfTwo(Call, Get, n)[k] = IF k % 2 = 1 THEN Call((k + 1) \div 2) ELSE Get(k \div 2)
  <2> SUFFICES ASSUME NEW k \in 1 .. 2 * n
               PROVE  (IF k % 2 = 1 THEN Call((k + 1) \div 2) ELSE Get(k \div 2)) \in Statements
    BY DEF EachOfTwo
  <2> QED
    BY <1>1, Halves, StatementType
<1>3. /\ EachOfTwo(Launch, Wait, n) \in [1 .. 2 * n -> Statements]
      /\ \A k \in 1 .. 2 * n :
           EachOfTwo(Launch, Wait, n)[k] = IF k % 2 = 1 THEN Launch((k + 1) \div 2) ELSE Wait(k \div 2)
  <2> SUFFICES ASSUME NEW k \in 1 .. 2 * n
               PROVE  (IF k % 2 = 1 THEN Launch((k + 1) \div 2) ELSE Wait(k \div 2)) \in Statements
    BY DEF EachOfTwo
  <2> QED
    BY <1>1, Halves, StatementType
<1>4. /\ EachOfTwo(Launch, Get, n) \in [1 .. 2 * n -> Statements]
      /\ \A k \in 1 .. 2 * n :
           EachOfTwo(Launch, Get, n)[k] = IF k % 2 = 1 THEN Launch((k + 1) \div 2) ELSE Get(k \div 2)
  <2> SUFFICES ASSUME NEW k \in 1 .. 2 * n
               PROVE  (IF k % 2 = 1 THEN Launch((k + 1) \div 2) ELSE Get(k \div 2)) \in Statements
    BY DEF EachOfTwo
  <2> QED
    BY <1>1, Halves, StatementType
<1>5. WellFormed(Reset)
  <2>1. /\ Reset.main = EachOfTwo(Call, Get, n) /\ Reset.bodies = Independent(n) /\ Reset.throws = {}
        /\ \A t \in 1 .. n : Reset.policy[t] = "called"
    BY DEF Reset, Scenario, AllTasks, n
  <2> DEFINE u == EachOfTwo(Call, Get, n)
  <2> HIDE DEF u
  <2>2. /\ Reset.main = u /\ u \in [1 .. 2 * n -> Statements]
        /\ \A k \in 1 .. 2 * n : u[k] = IF k % 2 = 1 THEN Call((k + 1) \div 2) ELSE Get(k \div 2)
    BY <1>2, <2>1 DEF u
  <2>3. \A k \in 1 .. 2 * n :
          /\ k % 2 = 1 => u[k] = Call((k + 1) \div 2) /\ Reset.policy[(k + 1) \div 2] = "called"
          /\ k % 2 # 1 => u[k] = Get(k \div 2)
    BY <1>1, <2>1, <2>2, Halves
  <2> QED
    BY <1>1, <2>1, <2>2, <2>3, InTurnForm
<1>6. ASSUME NEW c, NEW u, c = AsyncScenario(u), u \in [1 .. 2 * n -> Statements],
             \A k \in 1 .. 2 * n :
               /\ k % 2 = 1 => u[k] = Launch((k + 1) \div 2)
               /\ k % 2 # 1 => u[k] = Get(k \div 2) \/ u[k] = Wait(k \div 2)
      PROVE  WellFormed(c)
  <2>1. /\ c.main = u /\ c.bodies = Independent(n) /\ c.throws = {}
        /\ \A t \in 1 .. n : c.policy[t] = "async"
    BY <1>6 DEF AsyncScenario, Scenario, AllTasks, n
  <2> QED
    BY <1>1, <1>6, <2>1, InTurnForm
<1>7. WellFormed(Discarded)
  BY <1>3, <1>6 DEF Discarded, n
<1>8. WellFormed(Stored)
  BY <1>4, <1>6 DEF Stored, n
<1> QED
  BY <1>5, <1>7, <1>8 DEF BM_Async_Discarding

LEMMA ReusePrograms == WellFormed(Reuse) /\ WellFormed(BM_Async_Reusing)
<1> DEFINE n == total_tasks
           m == n - 1
           u == [k \in 1 .. 2 * m |-> IF k % 2 = 1 THEN Launch(((k + 1) \div 2) + 1) ELSE Wait(k \div 2)]
           c == Reuse
           at == [t \in 1 .. n |-> IF t = 1 THEN 1 ELSE 2 * (t - 1)]
           finds == FALSE
<1>1. n \in Nat \ {0} /\ m \in Nat /\ 2 * m \in Nat
  BY TasksAssumption
<1>2. /\ c.main = << Launch(1) >> \o u /\ c.bodies = Independent(n) /\ c.throws = {}
      /\ \A t \in 1 .. n : c.policy[t] = "async"
  BY DEF Reuse, AsyncScenario, Scenario, AllTasks, EachOfTwo
<1> HIDE DEF c
<1>3. u \in [1 .. 2 * m -> Statements]
  <2> SUFFICES ASSUME NEW k \in 1 .. 2 * m
               PROVE  (IF k % 2 = 1 THEN Launch(((k + 1) \div 2) + 1) ELSE Wait(k \div 2)) \in Statements
    OBVIOUS
  <2> HIDE DEF m
  <2>1. k % 2 = 1 => ((k + 1) \div 2) + 1 \in Nat
    BY <1>1, Halves
  <2>2. k % 2 # 1 => k \div 2 \in Nat
    BY <1>1, Halves
  <2> QED
    BY <2>1, <2>2, StatementType
<1>4. << Launch(1) >> \in [1 .. 1 -> Statements] /\ << Launch(1) >>[1] = Launch(1)
  BY StatementType
<1>5. \A k \in 1 .. 2 * m : u[k] = IF k % 2 = 1 THEN Launch(((k + 1) \div 2) + 1) ELSE Wait(k \div 2)
  OBVIOUS
<1> HIDE DEF u
<1>6. /\ Len(c.main) = 1 + 2 * m /\ DOMAIN c.main = 1 .. 1 + 2 * m
      /\ c.main[1] = Launch(1)
      /\ \A i \in 1 .. 1 + 2 * m : 1 < i => i - 1 \in 1 .. 2 * m /\ c.main[i] = u[i - 1]
  <2> HIDE DEF m
  <2> DEFINE v == << Launch(1) >>
  <2>1. v \in [1 .. 1 -> Statements] /\ v[1] = Launch(1) /\ 1 \in 1 .. 1
    BY <1>4
  <2> HIDE DEF v
  <2> DEFINE p == 2 * m
             o == 1
  <2>2. p \in Nat /\ u \in [1 .. p -> Statements] /\ o \in Nat /\ v \in [1 .. o -> Statements]
    BY <1>1, <1>3, <2>1
  <2> HIDE DEF p, o
  <2>3. /\ Len(v \o u) = o + p /\ DOMAIN (v \o u) = 1 .. o + p
        /\ \A i \in 1 .. o : (v \o u)[i] = v[i]
        /\ \A i \in 1 .. o + p : o < i => i - o \in 1 .. p /\ (v \o u)[i] = u[i - o]
    BY <2>2, OneAfterTheOther
  <2>4. /\ Len(v \o u) = 1 + 2 * m /\ DOMAIN (v \o u) = 1 .. 1 + 2 * m
        /\ \A i \in 1 .. 1 : (v \o u)[i] = v[i]
        /\ \A i \in 1 .. 1 + 2 * m : 1 < i => i - 1 \in 1 .. 2 * m /\ (v \o u)[i] = u[i - 1]
    BY <2>3 DEF p, o
  <2>5. c.main = v \o u
    BY <1>2 DEF v
  <2> QED
    BY <2>1, <2>4, <2>5
<1>7. ASSUME NEW i \in 1 .. Len(c.main) PROVE InMain(c, n, at, finds, i)
  <2>1. i \in 1 .. 1 + 2 * m
    BY <1>6
  <2>2. CASE i = 1
    <3>1. 1 \in 1 .. n /\ at[1] = 1
      BY <1>1
    <3> QED
      BY <1>6, <2>2, <3>1 DEF InMain
  <2>3. CASE i # 1
    <3> DEFINE k == i - 1
    <3>1. k \in 1 .. 2 * m /\ c.main[i] = u[k]
      BY <1>1, <1>6, <2>1, <2>3
    <3> HIDE DEF k
    <3>2. CASE k % 2 = 1
      <4> DEFINE t == ((k + 1) \div 2) + 1
      <4>1. (k + 1) \div 2 \in 1 .. m /\ k = 2 * ((k + 1) \div 2) - 1
        BY <1>1, <3>1, <3>2, Halves
      <4>2. t \in 1 .. n /\ at[t] = i /\ c.main[i] = Launch(t)
        <5>1. t \in 1 .. n /\ t # 1
          BY <1>1, <4>1
        <5>2. 2 * (t - 1) = i
          BY <2>1, <4>1 DEF k
        <5>3. c.main[i] = Launch(t)
          BY <1>5, <3>1, <3>2
        <5> QED
          BY <5>1, <5>2, <5>3
      <4> QED
        BY <4>2 DEF InMain
    <3>3. CASE k % 2 # 1
      <4>1. k \div 2 \in 1 .. m
        BY <1>1, <3>1, <3>3, Halves
      <4>2. k \div 2 \in 1 .. n /\ c.main[i] = Wait(k \div 2)
        BY <1>1, <1>5, <3>1, <3>3, <4>1
      <4> QED
        BY <4>2 DEF InMain
    <3> QED
      BY <3>2, <3>3
  <2> QED
    BY <2>2, <2>3
<1>8. Len(c.main) \in Nat /\ DOMAIN c.main = 1 .. Len(c.main) /\ finds \in BOOLEAN
  BY <1>1, <1>6
<1> HIDE DEF at, finds, n
<1>9. \A t \in 1 .. n : c.policy[t] # "promise"
  BY <1>2
<1>10. WellFormed(c)
  BY <1>1, <1>2, <1>7, <1>8, <1>9, MainOnly
<1> QED
  BY <1>10 DEF c, BM_Async_Reusing

(* A permit for each task, before it is started. *)
LEMMA LimitedProgram == WellFormed(Limited) /\ OnePermitEach(Limited)
<1> DEFINE n == total_tasks
           n2 == 2 * n
           u == EachOfTwo(LAMBDA i : Acquire, Launch, n)
           g == Each(Get, n)
           c == Limited
           at == [t \in 1 .. n |-> 2 * t]
           finds == FALSE
<1>1. n \in Nat \ {0} /\ n2 \in Nat
  BY TasksAssumption
<1>2. /\ c.main = u \o g /\ c.bodies = Independent(n) /\ c.throws = {}
      /\ \A t \in 1 .. n : c.policy[t] = "async"
  BY DEF Limited, AsyncScenario, Scenario, AllTasks
<1> HIDE DEF c
<1>3. /\ u \in [1 .. n2 -> Statements]
      /\ \A k \in 1 .. n2 : u[k] = IF k % 2 = 1 THEN Acquire ELSE Launch(k \div 2)
  <2> HIDE DEF n
  <2> SUFFICES ASSUME NEW k \in 1 .. 2 * n
               PROVE  (IF k % 2 = 1 THEN Acquire ELSE Launch(k \div 2)) \in Statements
    BY DEF EachOfTwo
  <2>1. k % 2 # 1 => k \div 2 \in Nat
    BY <1>1, Halves
  <2> QED
    BY <1>1, <2>1, StatementType
<1>4. g \in [1 .. n -> Statements] /\ \A i \in 1 .. n : g[i] = Get(i)
  BY <1>1, StatementType DEF Each
<1> HIDE DEF u, g
<1>5. /\ Len(c.main) = n2 + n /\ DOMAIN c.main = 1 .. n2 + n
      /\ \A i \in 1 .. n2 : c.main[i] = u[i]
      /\ \A i \in 1 .. n2 + n : n2 < i => i - n2 \in 1 .. n /\ c.main[i] = g[i - n2]
  <2> HIDE DEF n, n2
  <2>1. c.main = u \o g /\ n2 \in Nat /\ n \in Nat
    BY <1>1, <1>2
  <2>2. u \in [1 .. n2 -> Statements] /\ g \in [1 .. n -> Statements]
    BY <1>3, <1>4
  <2>3. /\ Len(u \o g) = n2 + n /\ DOMAIN (u \o g) = 1 .. n2 + n
        /\ \A i \in 1 .. n2 : (u \o g)[i] = u[i]
        /\ \A i \in 1 .. n2 + n : n2 < i => i - n2 \in 1 .. n /\ (u \o g)[i] = g[i - n2]
    BY <2>1, <2>2, OneAfterTheOther
  <2> QED
    BY <2>1, <2>3
<1>6. \A k \in 1 .. n2 :
        /\ k % 2 = 1 => k + 1 \in 1 .. n2 /\ (k + 1) % 2 # 1 /\ (k + 1) \div 2 \in 1 .. n
        /\ k % 2 # 1 => /\ k \div 2 \in 1 .. n /\ k = 2 * (k \div 2)
                        /\ k - 1 \in 1 .. n2 /\ (k - 1) % 2 = 1
  <2> HIDE DEF n
  <2> SUFFICES ASSUME NEW k \in 1 .. 2 * n
               PROVE  /\ k % 2 = 1 => k + 1 \in 1 .. 2 * n /\ (k + 1) % 2 # 1 /\ (k + 1) \div 2 \in 1 .. n
                      /\ k % 2 # 1 => /\ k \div 2 \in 1 .. n /\ k = 2 * (k \div 2)
                                      /\ k - 1 \in 1 .. 2 * n /\ (k - 1) % 2 = 1
    OBVIOUS
  <2>1. k % 2 # 1 => k - 1 \in 1 .. 2 * n /\ (k - 1) % 2 = 1
    BY <1>1, SMT
  <2> QED
    BY <1>1, <2>1, Halves
<1>7. ASSUME NEW i \in 1 .. Len(c.main) PROVE InMain(c, n, at, finds, i)
  <2>1. CASE i \in 1 .. n2 /\ i % 2 = 1
    <3>1. c.main[i] = Acquire /\ i + 1 \in 1 .. n2 /\ c.main[i + 1] = Launch((i + 1) \div 2)
          /\ (i + 1) \div 2 \in 1 .. n
      BY <1>3, <1>5, <1>6, <2>1
    <3>2. i < Len(c.main)
      BY <1>1, <1>5, <3>1
    <3>3. \E t \in 1 .. n : c.main[i + 1] = Launch(t) /\ c.policy[t] = "async"
      BY <1>2, <3>1
    <3> QED
      BY <3>1, <3>2, <3>3 DEF InMain
  <2>2. CASE i \in 1 .. n2 /\ i % 2 # 1
    <3>1. i \div 2 \in 1 .. n /\ at[i \div 2] = i /\ c.main[i] = Launch(i \div 2)
      BY <1>3, <1>5, <1>6, <2>2
    <3> QED
      BY <3>1 DEF InMain
  <2>3. CASE n2 < i
    <3>1. i - n2 \in 1 .. n /\ c.main[i] = Get(i - n2)
      BY <1>4, <1>5, <2>3
    <3> QED
      BY <3>1 DEF InMain
  <2>4. i \in 1 .. n2 \/ n2 < i
    BY <1>1, <1>5
  <2> QED
    BY <2>1, <2>2, <2>3, <2>4
<1>8. Len(c.main) \in Nat /\ DOMAIN c.main = 1 .. Len(c.main) /\ finds \in BOOLEAN
  BY <1>1, <1>5
<1>9. \A t \in 1 .. n : c.policy[t] # "promise"
  BY <1>2
<1>10. WellFormed(c)
  <2> HIDE DEF at, finds, n
  <2> QED
    BY <1>1, <1>2, <1>7, <1>8, <1>9, MainOnly
<1>11. OnePermitEach(c)
  <2>1. DOMAIN c.bodies = 1 .. n /\ \A t \in 1 .. n : c.bodies[t] = << >>
    BY <1>1, <1>2, IndependentBodies
  <2>2. ASSUME NEW t \in 1 .. n, NEW b \in BodiesOf(c), NEW i \in DOMAIN BodyOf(c, b),
               BodyOf(c, b)[i] \in Starts(t)
        PROVE  b = Main /\ i - 1 \in DOMAIN c.main /\ c.main[i - 1] = Acquire
    <3>1. b = Main
      <4>1. b \in (1 .. n) \cup {Main}
        BY <2>1 DEF BodiesOf
      <4>2. DOMAIN << >> = {}
        OBVIOUS
      <4> QED
        BY <2>1, <2>2, <4>1, <4>2 DEF BodyOf
    <3>2. BodyOf(c, b) = c.main
      BY <3>1 DEF BodyOf
    <3>3. i \in 1 .. n2 + n /\ c.main[i] \in Starts(t)
      BY <1>5, <2>2, <3>2
    <3>4. ~ (n2 < i)
      BY <1>4, <1>5, <3>3, StatementsDiffer DEF Starts
    <3>5. i \in 1 .. n2
      BY <1>1, <3>3, <3>4
    <3>6. i % 2 # 1
      BY <1>3, <1>5, <3>3, <3>5, StatementsDiffer DEF Starts
    <3>7. i - 1 \in 1 .. n2 /\ c.main[i - 1] = Acquire
      BY <1>3, <1>5, <1>6, <3>5, <3>6
    <3>8. 1 .. n2 \subseteq DOMAIN c.main
      BY <1>1, <1>5
    <3> QED
      BY <3>1, <3>7, <3>8
  <2> QED
    BY <1>2, <2>1, <2>2 DEF OnePermitEach
<1> QED
  BY <1>10, <1>11 DEF c

(* The programs whose main is written out. *)
LEMMA WrittenOut ==
    /\ WellFormed(Thrown) /\ WellFormed(OneByOne) /\ WellFormed(Packaged) /\ WellFormed(Arguments)
    /\ WellFormed(Policies) /\ WellFormed(Nested)
<1>1. ASSUME NEW policy \in {"async", "default"}
      PROVE  WellFormed(Scenario(<< Launch(1), Get(1) >>, Independent(1), AllTasks(1, policy), {1}))
  <2> DEFINE c == Scenario(<< Launch(1), Get(1) >>, Independent(1), AllTasks(1, policy), {1})
             at == << 1 >>
             finds == FALSE
  <2>1. /\ c.bodies = Independent(1) /\ c.throws = {1} /\ Len(c.main) = 2 /\ DOMAIN c.main = 1 .. 2
        /\ c.main[1] = Launch(1) /\ c.main[2] = Get(1)
        /\ \A t \in 1 .. 1 : c.policy[t] # "promise"
    BY DEF Scenario, AllTasks
  <2>2. at[1] = 1
    OBVIOUS
  <2> HIDE DEF c, at, finds
  <2>3. \A i \in 1 .. Len(c.main) : InMain(c, 1, at, finds, i)
    BY <2>1, <2>2 DEF InMain, finds
  <2>4. finds \in BOOLEAN /\ ~ finds /\ 1 \in Nat /\ 2 \in Nat
    BY DEF finds
  <2>5. \A t \in c.throws : t \in 1 .. 1 /\ \E i \in DOMAIN c.main : c.main[i] = Get(t)
    BY <2>1
  <2> DEFINE n == 1
  <2>6. /\ n \in Nat /\ c.bodies = Independent(n)
        /\ \A i \in 1 .. Len(c.main) : InMain(c, n, at, finds, i)
        /\ \A t \in 1 .. n : c.policy[t] # "promise"
        /\ \A t \in c.throws : t \in 1 .. n /\ \E i \in DOMAIN c.main : c.main[i] = Get(t)
        /\ Len(c.main) \in Nat /\ DOMAIN c.main = 1 .. Len(c.main)
        /\ finds \in BOOLEAN /\ (finds => c.throws = {})
    BY <2>1, <2>3, <2>4, <2>5
  <2> HIDE DEF n
  <2>7. WellFormed(c)
    BY <2>6, MainOnly
  <2> QED
    BY <2>7 DEF c
<1>2. WellFormed(Thrown) /\ WellFormed(Nested)
  BY <1>1 DEF Thrown, Nested
<1>3. WellFormed(OneByOne)
  <2> DEFINE c == OneByOne
             at == << 1, 3 >>
             finds == FALSE
  <2>1. /\ c.bodies = Independent(2) /\ c.throws = {2} /\ Len(c.main) = 4 /\ DOMAIN c.main = 1 .. 4
        /\ c.main[1] = Launch(1) /\ c.main[2] = Get(1)
        /\ c.main[3] = Launch(2) /\ c.main[4] = Get(2)
        /\ \A t \in 1 .. 2 : c.policy[t] # "promise"
    BY DEF OneByOne, Scenario, AllTasks
  <2>2. at[1] = 1 /\ at[2] = 3
    OBVIOUS
  <2> HIDE DEF c, at, finds
  <2>3. \A i \in 1 .. Len(c.main) : InMain(c, 2, at, finds, i)
    BY <2>1, <2>2 DEF InMain, finds
  <2>4. finds \in BOOLEAN /\ ~ finds /\ 2 \in Nat /\ 4 \in Nat
    BY DEF finds
  <2>5. \A t \in c.throws : t \in 1 .. 2 /\ \E i \in DOMAIN c.main : c.main[i] = Get(t)
    BY <2>1
  <2> DEFINE n == 2
  <2>6. /\ n \in Nat /\ c.bodies = Independent(n)
        /\ \A i \in 1 .. Len(c.main) : InMain(c, n, at, finds, i)
        /\ \A t \in 1 .. n : c.policy[t] # "promise"
        /\ \A t \in c.throws : t \in 1 .. n /\ \E i \in DOMAIN c.main : c.main[i] = Get(t)
        /\ Len(c.main) \in Nat /\ DOMAIN c.main = 1 .. Len(c.main)
        /\ finds \in BOOLEAN /\ (finds => c.throws = {})
    BY <2>1, <2>3, <2>4, <2>5
  <2> HIDE DEF n
  <2>7. WellFormed(c)
    BY <2>6, MainOnly
  <2> QED
    BY <2>7 DEF c
<1>4. WellFormed(Packaged)
  <2> DEFINE c == Packaged
             at == << 1, 3, 5 >>
             finds == FALSE
  <2>1. /\ c.bodies = Independent(3) /\ c.throws = {} /\ Len(c.main) = 6 /\ DOMAIN c.main = 1 .. 6
        /\ c.main[1] = Launch(1) /\ c.main[2] = Get(1)
        /\ c.main[3] = Call(2) /\ c.main[4] = Get(2)
        /\ c.main[5] = Call(3) /\ c.main[6] = Get(3)
        /\ \A t \in 1 .. 3 : c.policy[t] # "promise"
        /\ c.policy[2] = "called" /\ c.policy[3] = "called"
    BY DEF Packaged, Scenario
  <2>2. at[1] = 1 /\ at[2] = 3 /\ at[3] = 5
    OBVIOUS
  <2> HIDE DEF c, at, finds
  <2>3. \A i \in 1 .. Len(c.main) : InMain(c, 3, at, finds, i)
    BY <2>1, <2>2 DEF InMain, finds
  <2>4. finds \in BOOLEAN /\ ~ finds /\ 3 \in Nat /\ 6 \in Nat
    BY DEF finds
  <2>6. WellFormed(c)
    BY <2>1, <2>3, <2>4, MainOnly
  <2> QED
    BY <2>6 DEF c
<1>5. WellFormed(Arguments)
  <2> DEFINE c == Arguments
             at == << 1, 2, 4, 6, 8 >>
             finds == FALSE
  <2>1. /\ c.bodies = Independent(5) /\ c.throws = {} /\ Len(c.main) = 9 /\ DOMAIN c.main = 1 .. 9
        /\ c.main[1] = Launch(1) /\ c.main[2] = Launch(2) /\ c.main[3] = Get(2)
        /\ c.main[4] = Launch(3) /\ c.main[5] = Get(3)
        /\ c.main[6] = Launch(4) /\ c.main[7] = Get(4)
        /\ c.main[8] = Launch(5) /\ c.main[9] = Get(5)
        /\ \A t \in 1 .. 5 : c.policy[t] # "promise"
    BY DEF Arguments, Scenario, AllTasks
  <2>2. at[1] = 1 /\ at[2] = 2 /\ at[3] = 4 /\ at[4] = 6 /\ at[5] = 8
    OBVIOUS
  <2> HIDE DEF c, at, finds
  <2>3. \A i \in 1 .. Len(c.main) : InMain(c, 5, at, finds, i)
    BY <2>1, <2>2 DEF InMain, finds
  <2>4. finds \in BOOLEAN /\ ~ finds /\ 5 \in Nat /\ 9 \in Nat
    BY DEF finds
  <2>6. WellFormed(c)
    BY <2>1, <2>3, <2>4, MainOnly
  <2> QED
    BY <2>6 DEF c
<1>6. WellFormed(Policies)
  <2> DEFINE c == Policies
             at == << 1, 2, 3 >>
             finds == FALSE
             l == Each(Launch, 3)
             g == Each(Get, 3)
  <2>1. /\ c.bodies = Independent(3) /\ c.throws = {} /\ c.main = l \o g
        /\ c.policy = << "async", "deferred", "default" >>
    BY DEF Policies, Scenario
  <2>2. at[1] = 1 /\ at[2] = 2 /\ at[3] = 3
    OBVIOUS
  <2>3. /\ l \in [1 .. 3 -> Statements] /\ g \in [1 .. 3 -> Statements]
        /\ \A i \in 1 .. 3 : l[i] = Launch(i) /\ g[i] = Get(i)
    BY StatementType DEF Each
  <2> HIDE DEF c, at, finds, l, g
  <2> DEFINE n == 3
  <2>4. n \in Nat /\ l \in [1 .. n -> Statements] /\ g \in [1 .. n -> Statements]
    BY <2>3
  <2> HIDE DEF n
  <2>5. /\ Len(c.main) = n + n /\ DOMAIN c.main = 1 .. n + n
        /\ \A i \in 1 .. n : c.main[i] = l[i]
        /\ \A i \in 1 .. n + n : n < i => i - n \in 1 .. n /\ c.main[i] = g[i - n]
    BY <2>1, <2>4, OneAfterTheOther
  <2>6. /\ Len(c.main) = 6 /\ DOMAIN c.main = 1 .. 6
        /\ c.main[1] = Launch(1) /\ c.main[2] = Launch(2) /\ c.main[3] = Launch(3)
        /\ c.main[4] = Get(1) /\ c.main[5] = Get(2) /\ c.main[6] = Get(3)
    BY <2>3, <2>5 DEF n
  <2>7. \A i \in 1 .. Len(c.main) : InMain(c, 3, at, finds, i)
    BY <2>2, <2>6 DEF InMain, finds
  <2>8. finds \in BOOLEAN /\ ~ finds /\ 3 \in Nat /\ 6 \in Nat /\ \A t \in 1 .. 3 : c.policy[t] # "promise"
    BY <2>1 DEF finds
  <2>9. WellFormed(c)
    BY <2>1, <2>6, <2>7, <2>8, MainOnly
  <2> QED
    BY <2>9 DEF c
<1> QED
  BY <1>2, <1>3, <1>4, <1>5, <1>6

(* Tasks that only get futures, all started by main. *)
OnlyGets(c, m, t) ==
    /\ Len(c.bodies[t]) \in Nat /\ DOMAIN c.bodies[t] = 1 .. Len(c.bodies[t])
    /\ \A i \in 1 .. Len(c.bodies[t]) : \E d \in 1 .. m : c.bodies[t][i] = Get(d)

StartsOrGets(c, m, at, i) ==
    \E t \in 1 .. m :
      \/ at[t] = i /\ c.main[i] = Launch(t)
      \/ at[t] = i /\ c.main[i] = Call(t) /\ c.policy[t] = "called"
      \/ at[t] = i /\ c.main[i] = Set(t) /\ c.policy[t] = "promise"
      \/ c.main[i] = Get(t)

Dependencies(deps, m) ==
    /\ DOMAIN deps = 1 .. m
    /\ \A t \in 1 .. m : /\ Len(deps[t]) \in Nat
                         /\ \A i \in 1 .. Len(deps[t]) : deps[t][i] \in 1 .. m

LEMMA GettingBodies ==
    ASSUME NEW m \in Nat, NEW deps, Dependencies(deps, m), NEW c, c.bodies = Getting(deps)
    PROVE  /\ DOMAIN c.bodies = 1 .. m
           /\ \A t \in 1 .. m :
                /\ OnlyGets(c, m, t) /\ Len(c.bodies[t]) = Len(deps[t])
                /\ \A i \in 1 .. Len(deps[t]) : c.bodies[t][i] = Get(deps[t][i])
<1>1. DOMAIN c.bodies = 1 .. m
  BY DEF Getting, Dependencies
<1>2. ASSUME NEW t \in 1 .. m
      PROVE  /\ OnlyGets(c, m, t) /\ Len(c.bodies[t]) = Len(deps[t])
             /\ \A i \in 1 .. Len(deps[t]) : c.bodies[t][i] = Get(deps[t][i])
  <2> DEFINE n == Len(deps[t])
             s == [i \in 1 .. n |-> Get(deps[t][i])]
  <2>1. c.bodies[t] = s
    BY <1>2 DEF Getting, Each, Dependencies
  <2>2. n \in Nat /\ \A i \in 1 .. n : deps[t][i] \in 1 .. m
    BY <1>2 DEF Dependencies
  <2>3. \A i \in 1 .. n : s[i] = Get(deps[t][i])
    OBVIOUS
  <2>4. s \in [1 .. n -> Statements]
    BY <2>2, StatementType
  <2> HIDE DEF s
  <2>5. Len(s) = n /\ DOMAIN s = 1 .. n
    <3> HIDE DEF n
    <3> QED
      BY <2>2, <2>4, OneLoop
  <2> QED
    BY <2>1, <2>2, <2>3, <2>5 DEF OnlyGets
<1> QED
  BY <1>1, <1>2

LEMMA GettingForm ==
    ASSUME NEW m \in Nat, NEW c, NEW at, DOMAIN c.bodies = 1 .. m,
           \A t \in 1 .. m : OnlyGets(c, m, t),
           \A t \in 1 .. m : c.policy[t] = "promise" => Len(c.bodies[t]) = 0 /\ t \notin c.throws,
           Len(c.main) \in Nat, DOMAIN c.main = 1 .. Len(c.main),
           \A i \in 1 .. Len(c.main) : StartsOrGets(c, m, at, i),
           ThrowsReachMain(c)
    PROVE  WellFormed(c)
<1>1. Main \notin DOMAIN c.bodies /\ BodyOf(c, Main) = c.main /\ Main \in BodiesOf(c)
  BY DEF Main, BodyOf, BodiesOf
<1>2. \A t \in 1 .. m : BodyOf(c, t) = c.bodies[t]
  BY <1>1 DEF BodyOf
<1>3. BodiesOf(c) = (1 .. m) \cup {Main}
  BY DEF BodiesOf
<1>4. BodiesTyped(c)
  BY <1>1, <1>2, <1>3 DEF BodiesTyped, OnlyGets
<1> DEFINE from == [t \in 1 .. m |-> Main]
           finds == FALSE
<1>5. ASSUME NEW b \in BodiesOf(c), NEW i \in DOMAIN BodyOf(c, b)
      PROVE  Regular(c, from, at, finds, b, i)
  <2>1. CASE b = Main
    <3>1. i \in 1 .. Len(c.main) /\ BodyOf(c, b)[i] = c.main[i]
      BY <1>1, <1>5, <2>1
    <3>2. \A t \in 1 .. m : from[t] = Main
      OBVIOUS
    <3> HIDE DEF from
    <3>3. StartsOrGets(c, m, at, i)
      BY <3>1
    <3> QED
      BY <2>1, <3>1, <3>2, <3>3 DEF Regular, StartsOrGets
  <2>2. CASE b \in 1 .. m
    <3>1. OnlyGets(c, m, b) /\ BodyOf(c, b) = c.bodies[b]
      BY <1>2, <2>2
    <3>2. i \in 1 .. Len(c.bodies[b])
      BY <1>5, <3>1 DEF OnlyGets
    <3>3. PICK d \in 1 .. m : c.bodies[b][i] = Get(d)
      BY <3>1, <3>2 DEF OnlyGets
    <3> HIDE DEF from
    <3> QED
      BY <3>1, <3>3 DEF Regular
  <2> QED
    BY <1>3, <1>5, <2>1, <2>2
<1>6. \A t \in DOMAIN c.bodies : c.policy[t] = "promise" => DOMAIN c.bodies[t] = {} /\ t \notin c.throws
  <2> SUFFICES ASSUME NEW t \in 1 .. m, c.policy[t] = "promise" PROVE DOMAIN c.bodies[t] = {} /\ t \notin c.throws
    OBVIOUS
  <2>1. OnlyGets(c, m, t) /\ Len(c.bodies[t]) = 0 /\ t \notin c.throws
    OBVIOUS
  <2> QED
    BY <2>1 DEF OnlyGets
<1> HIDE DEF from
<1>7. finds \in BOOLEAN /\ ~ finds
  OBVIOUS
<1> HIDE DEF finds
<1> QED
  BY <1>4, <1>5, <1>6, <1>7, RegularCode

LEMMA NoThrows ==
    ASSUME NEW c, c.throws = {} PROVE ThrowsReachMain(c)
  BY DEF ThrowsReachMain

(* task1 <- task2 <- {task3, task4} <- task5 *)
LEMMA DiamondBodies ==
    ASSUME NEW c, c.bodies = Diamond
    PROVE  DOMAIN c.bodies = 1 .. 5 /\ \A t \in 1 .. 5 : OnlyGets(c, 5, t)
<1> DEFINE deps == << << >>, <<1>>, <<2>>, <<2>>, <<3, 4>> >>
           m == 5
<1>1. /\ DOMAIN deps = 1 .. 5
      /\ Len(deps[1]) = 0 /\ Len(deps[2]) = 1 /\ Len(deps[3]) = 1 /\ Len(deps[4]) = 1 /\ Len(deps[5]) = 2
      /\ deps[2][1] = 1 /\ deps[3][1] = 2 /\ deps[4][1] = 2 /\ deps[5][1] = 3 /\ deps[5][2] = 4
  OBVIOUS
<1>2. c.bodies = Getting(deps)
  BY DEF Diamond
<1> HIDE DEF deps
<1>3. \A t \in 1 .. 5 : /\ Len(deps[t]) \in Nat
                        /\ \A i \in 1 .. Len(deps[t]) : deps[t][i] \in 1 .. 5
  <2> SUFFICES ASSUME NEW t \in 1 .. 5
               PROVE  Len(deps[t]) \in Nat /\ \A i \in 1 .. Len(deps[t]) : deps[t][i] \in 1 .. 5
    OBVIOUS
  <2>1. t = 1 \/ t = 2 \/ t = 3 \/ t = 4 \/ t = 5
    OBVIOUS
  <2>2. (\A i \in 1 .. 0 : FALSE) /\ (\A i \in 1 .. 1 : i = 1) /\ \A i \in 1 .. 2 : i = 1 \/ i = 2
    OBVIOUS
  <2>3. CASE t = 1
    BY <1>1, <2>2, <2>3
  <2>4. CASE t \in {2, 3, 4}
    <3>1. Len(deps[t]) = 1 /\ deps[t][1] \in 1 .. 5
      BY <1>1, <2>4
    <3> QED
      BY <2>2, <3>1
  <2>5. CASE t = 5
    <3>1. Len(deps[t]) = 2 /\ deps[t][1] \in 1 .. 5 /\ deps[t][2] \in 1 .. 5
      BY <1>1, <2>5
    <3> QED
      BY <2>2, <3>1
  <2> QED
    BY <2>1, <2>3, <2>4, <2>5
<1>4. m \in Nat /\ Dependencies(deps, m)
  BY <1>1, <1>3 DEF Dependencies
<1> HIDE DEF m
<1>5. DOMAIN c.bodies = 1 .. m /\ \A t \in 1 .. m : OnlyGets(c, m, t)
  BY <1>2, <1>4, GettingBodies
<1> QED
  BY <1>5 DEF m

LEMMA DiamondPrograms == WellFormed(Pipeline) /\ WellFormed(DeferredPipeline)
<1>1. WellFormed(Pipeline)
  <2> DEFINE c == Pipeline
             at == [t \in 1 .. 5 |-> t]
             m == 5
             l == Each(Call, m)
             g == << Get(5) >>
             k == 1
  <2>1. /\ c.bodies = Diamond /\ c.throws = {} /\ c.main = l \o g
        /\ \A t \in 1 .. 5 : c.policy[t] = "called"
    BY DEF Pipeline, Scenario, AllTasks
  <2>2. \A t \in 1 .. 5 : at[t] = t
    OBVIOUS
  <2>3. /\ l \in [1 .. m -> Statements] /\ g \in [1 .. k -> Statements]
        /\ (\A i \in 1 .. m : l[i] = Call(i)) /\ g[1] = Get(5)
    <3>1. Get(5) \in Statements
      BY StatementType
    <3> QED
      BY <3>1, StatementType DEF Each
  <2>4. m \in Nat /\ k \in Nat
    OBVIOUS
  <2> HIDE DEF c, at, l, g, m, k
  <2>5. /\ Len(c.main) = m + k /\ DOMAIN c.main = 1 .. m + k
        /\ \A i \in 1 .. m : c.main[i] = l[i]
        /\ \A i \in 1 .. m + k : m < i => i - m \in 1 .. k /\ c.main[i] = g[i - m]
    <3>1. l \in [1 .. m -> Statements] /\ g \in [1 .. k -> Statements]
      BY <2>3
    <3>2. /\ Len(l \o g) = m + k /\ DOMAIN (l \o g) = 1 .. m + k
          /\ \A i \in 1 .. m : (l \o g)[i] = l[i]
          /\ \A i \in 1 .. m + k : m < i => i - m \in 1 .. k /\ (l \o g)[i] = g[i - m]
      BY <2>4, <3>1, OneAfterTheOther
    <3>3. c.main = l \o g
      BY <2>1
    <3> QED
      BY <3>2, <3>3
  <2>6. /\ Len(c.main) = 6 /\ DOMAIN c.main = 1 .. 6 /\ c.main[6] = Get(5)
        /\ \A i \in 1 .. 5 : c.main[i] = Call(i)
    BY <2>3, <2>5 DEF m, k
  <2>7. \A i \in 1 .. Len(c.main) : StartsOrGets(c, 5, at, i)
    <3>1. \A i \in 1 .. 5 : StartsOrGets(c, 5, at, i)
      BY <2>1, <2>2, <2>6 DEF StartsOrGets
    <3>2. \A i \in 6 .. Len(c.main) : \E t \in 1 .. 5 : c.main[i] = Get(t)
      BY <2>6
    <3>3. \A i \in 1 .. Len(c.main) : i \in 1 .. 5 \/ i \in 6 .. Len(c.main)
      BY <2>6
    <3>4. \A i \in 6 .. Len(c.main) : StartsOrGets(c, 5, at, i)
      BY <3>2 DEF StartsOrGets
    <3> QED
      BY <3>1, <3>3, <3>4
  <2>8. DOMAIN c.bodies = 1 .. 5 /\ \A t \in 1 .. 5 : OnlyGets(c, 5, t)
    BY <2>1, DiamondBodies
  <2>9. /\ DOMAIN c.bodies = 1 .. m /\ (\A t \in 1 .. m : OnlyGets(c, m, t))
        /\ \A i \in 1 .. Len(c.main) : StartsOrGets(c, m, at, i)
        /\ Len(c.main) \in Nat /\ DOMAIN c.main = 1 .. Len(c.main)
        /\ \A t \in 1 .. m : c.policy[t] # "promise"
    BY <2>1, <2>6, <2>7, <2>8 DEF m
  <2>10. WellFormed(c)
    BY <2>1, <2>4, <2>9, NoThrows, GettingForm
  <2> QED
    BY <2>10 DEF c
<1>2. WellFormed(DeferredPipeline)
  <2> DEFINE c == DeferredPipeline
             at == [t \in 1 .. 5 |-> t]
             m == 5
             l == Each(Launch, m)
             g == << Get(1), Get(5) >>
             k == 2
  <2>1. /\ c.bodies = Diamond /\ c.throws = {} /\ c.main = l \o g
        /\ \A t \in 1 .. 5 : c.policy[t] = "deferred"
    BY DEF DeferredPipeline, Scenario, AllTasks
  <2>2. \A t \in 1 .. 5 : at[t] = t
    OBVIOUS
  <2>3. /\ l \in [1 .. m -> Statements] /\ g \in [1 .. k -> Statements]
        /\ (\A i \in 1 .. m : l[i] = Launch(i)) /\ g[1] = Get(1) /\ g[2] = Get(5)
    <3>1. Get(5) \in Statements /\ Get(1) \in Statements
      BY StatementType
    <3> QED
      BY <3>1, StatementType DEF Each
  <2>4. m \in Nat /\ k \in Nat
    OBVIOUS
  <2> HIDE DEF c, at, l, g, m, k
  <2>5. /\ Len(c.main) = m + k /\ DOMAIN c.main = 1 .. m + k
        /\ \A i \in 1 .. m : c.main[i] = l[i]
        /\ \A i \in 1 .. m + k : m < i => i - m \in 1 .. k /\ c.main[i] = g[i - m]
    <3>1. l \in [1 .. m -> Statements] /\ g \in [1 .. k -> Statements]
      BY <2>3
    <3>2. /\ Len(l \o g) = m + k /\ DOMAIN (l \o g) = 1 .. m + k
          /\ \A i \in 1 .. m : (l \o g)[i] = l[i]
          /\ \A i \in 1 .. m + k : m < i => i - m \in 1 .. k /\ (l \o g)[i] = g[i - m]
      BY <2>4, <3>1, OneAfterTheOther
    <3>3. c.main = l \o g
      BY <2>1
    <3> QED
      BY <3>2, <3>3
  <2>6. /\ Len(c.main) = 7 /\ DOMAIN c.main = 1 .. 7 /\ c.main[6] = Get(1) /\ c.main[7] = Get(5)
        /\ \A i \in 1 .. 5 : c.main[i] = Launch(i)
    BY <2>3, <2>5 DEF m, k
  <2>7. \A i \in 1 .. Len(c.main) : StartsOrGets(c, 5, at, i)
    <3>1. \A i \in 1 .. 5 : StartsOrGets(c, 5, at, i)
      BY <2>1, <2>2, <2>6 DEF StartsOrGets
    <3>2. \A i \in 6 .. Len(c.main) : \E t \in 1 .. 5 : c.main[i] = Get(t)
      BY <2>6
    <3>3. \A i \in 1 .. Len(c.main) : i \in 1 .. 5 \/ i \in 6 .. Len(c.main)
      BY <2>6
    <3>4. \A i \in 6 .. Len(c.main) : StartsOrGets(c, 5, at, i)
      BY <3>2 DEF StartsOrGets
    <3> QED
      BY <3>1, <3>3, <3>4
  <2>8. DOMAIN c.bodies = 1 .. 5 /\ \A t \in 1 .. 5 : OnlyGets(c, 5, t)
    BY <2>1, DiamondBodies
  <2>9. /\ DOMAIN c.bodies = 1 .. m /\ (\A t \in 1 .. m : OnlyGets(c, m, t))
        /\ \A i \in 1 .. Len(c.main) : StartsOrGets(c, m, at, i)
        /\ Len(c.main) \in Nat /\ DOMAIN c.main = 1 .. Len(c.main)
        /\ \A t \in 1 .. m : c.policy[t] # "promise"
    BY <2>1, <2>6, <2>7, <2>8 DEF m
  <2>10. WellFormed(c)
    BY <2>1, <2>4, <2>9, NoThrows, GettingForm
  <2> QED
    BY <2>10 DEF c
<1> QED
  BY <1>1, <1>2

LEMMA ChainProgram == WellFormed(Chain)
<1> DEFINE c == Chain
           at == [t \in 1 .. 3 |-> t]
           m == 3
           l == Each(Launch, m)
           g == << Get(3) >>
           k == 1
           deps == << << >>, <<1>>, <<2>> >>
<1>1. /\ c.bodies = Getting(deps) /\ c.throws = {1} /\ c.main = l \o g
      /\ \A t \in 1 .. 3 : c.policy[t] = "async"
  BY DEF Chain, Scenario, AllTasks
<1>2. \A t \in 1 .. 3 : at[t] = t
  OBVIOUS
<1>3. /\ l \in [1 .. m -> Statements] /\ g \in [1 .. k -> Statements]
      /\ (\A i \in 1 .. m : l[i] = Launch(i)) /\ g[1] = Get(3)
  <2>1. Get(3) \in Statements
    BY StatementType
  <2> QED
    BY <2>1, StatementType DEF Each
<1>4. m \in Nat /\ k \in Nat
  OBVIOUS
<1>5. /\ DOMAIN deps = 1 .. 3 /\ Len(deps[1]) = 0 /\ Len(deps[2]) = 1 /\ Len(deps[3]) = 1
      /\ deps[2][1] = 1 /\ deps[3][1] = 2
  OBVIOUS
<1> HIDE DEF c, at, l, g, m, k, deps
<1>6. /\ Len(c.main) = m + k /\ DOMAIN c.main = 1 .. m + k
      /\ \A i \in 1 .. m : c.main[i] = l[i]
      /\ \A i \in 1 .. m + k : m < i => i - m \in 1 .. k /\ c.main[i] = g[i - m]
  <2>1. l \in [1 .. m -> Statements] /\ g \in [1 .. k -> Statements]
    BY <1>3
  <2>2. /\ Len(l \o g) = m + k /\ DOMAIN (l \o g) = 1 .. m + k
        /\ \A i \in 1 .. m : (l \o g)[i] = l[i]
        /\ \A i \in 1 .. m + k : m < i => i - m \in 1 .. k /\ (l \o g)[i] = g[i - m]
    BY <1>4, <2>1, OneAfterTheOther
  <2>3. c.main = l \o g
    BY <1>1
  <2> QED
    BY <2>2, <2>3
<1>7. /\ Len(c.main) = 4 /\ DOMAIN c.main = 1 .. 4 /\ c.main[4] = Get(3)
      /\ \A i \in 1 .. 3 : c.main[i] = Launch(i)
  BY <1>3, <1>6 DEF m, k
<1>8. \A i \in 1 .. Len(c.main) : StartsOrGets(c, 3, at, i)
  BY <1>2, <1>7 DEF StartsOrGets
<1>9. \A t \in 1 .. 3 : /\ Len(deps[t]) \in Nat
                        /\ \A i \in 1 .. Len(deps[t]) : deps[t][i] \in 1 .. 3
  <2> SUFFICES ASSUME NEW t \in 1 .. 3
               PROVE  Len(deps[t]) \in Nat /\ \A i \in 1 .. Len(deps[t]) : deps[t][i] \in 1 .. 3
    OBVIOUS
  <2>1. t = 1 \/ t \in {2, 3}
    OBVIOUS
  <2>2. (\A i \in 1 .. 0 : FALSE) /\ \A i \in 1 .. 1 : i = 1
    OBVIOUS
  <2>3. CASE t = 1
    BY <1>5, <2>2, <2>3
  <2>4. CASE t \in {2, 3}
    <3>1. Len(deps[t]) = 1 /\ deps[t][1] \in 1 .. 3
      BY <1>5, <2>4
    <3> QED
      BY <2>2, <3>1
  <2> QED
    BY <2>1, <2>3, <2>4
<1>10. Dependencies(deps, m)
  BY <1>5, <1>9 DEF m, Dependencies
<1>11. /\ DOMAIN c.bodies = 1 .. m
       /\ \A t \in 1 .. m :
            /\ OnlyGets(c, m, t) /\ Len(c.bodies[t]) = Len(deps[t])
            /\ \A i \in 1 .. Len(deps[t]) : c.bodies[t][i] = Get(deps[t][i])
  <2>1. c.bodies = Getting(deps)
    BY <1>1
  <2> QED
    BY <1>4, <1>10, <2>1, GettingBodies
<1>12. /\ DOMAIN c.bodies = 1 .. 3 /\ Main \notin 1 .. 3
       /\ BodyOf(c, Main) = c.main /\ \A t \in 1 .. 3 : BodyOf(c, t) = c.bodies[t]
  BY <1>11 DEF m, Main, BodyOf
<1>13. /\ c.bodies[2][1] = Get(1) /\ 1 \in DOMAIN c.bodies[2]
       /\ c.bodies[3][1] = Get(2) /\ 1 \in DOMAIN c.bodies[3]
  BY <1>5, <1>11 DEF OnlyGets, m
<1>14. ThrowsReachMain(c)
  <2>1. 3 \in GetsOf(c, Main) /\ 2 \in GetsOf(c, 3) /\ 1 \in GetsOf(c, 2)
    BY <1>7, <1>12, <1>13 DEF GetsOf
  <2> QED
    BY <1>1, <2>1 DEF ThrowsReachMain
<1>15. /\ \A i \in 1 .. Len(c.main) : StartsOrGets(c, m, at, i)
       /\ Len(c.main) \in Nat /\ DOMAIN c.main = 1 .. Len(c.main)
       /\ \A t \in 1 .. m : c.policy[t] # "promise"
  BY <1>1, <1>7, <1>8 DEF m
<1>16. WellFormed(c)
  BY <1>4, <1>11, <1>14, <1>15, GettingForm
<1> QED
  BY <1>16 DEF c

(* The promise is task 1, and main sets it last. *)
LEMMA SharedFutureProgram == WellFormed(SharedFuture)
<1> DEFINE c == SharedFuture
           n == total_tasks
           m == n + 1
           k == 1
           at == [t \in 1 .. m |-> IF t = 1 THEN m ELSE t - 1]
           l == Each(LAMBDA i : Launch(i + 1), n)
           g == << Set(1) >>
<1>1. n \in Nat \ {0} /\ m \in Nat /\ k \in Nat
  BY TasksAssumption
<1>2. /\ c.throws = {} /\ c.main = l \o g
      /\ c.bodies = [t \in 1 .. m |-> IF t = 1 THEN << >> ELSE << Get(1) >>]
      /\ \A t \in 1 .. m : c.policy[t] = IF t = 1 THEN "promise" ELSE "async"
  BY DEF SharedFuture, Scenario, Each
<1>3. 1 \in 1 .. m /\ at[1] = m /\ \A t \in 1 .. m : t # 1 => at[t] = t - 1
  BY <1>1
<1>4. /\ l \in [1 .. n -> Statements] /\ g \in [1 .. k -> Statements]
      /\ (\A i \in 1 .. n : l[i] = Launch(i + 1)) /\ g[1] = Set(1)
  <2>1. Set(1) \in Statements /\ \A i \in 1 .. n : Launch(i + 1) \in Statements
    BY <1>1, StatementType
  <2> QED
    BY <2>1 DEF Each
<1> HIDE DEF c, at, l, g, n
<1>5. /\ Len(c.main) = n + k /\ DOMAIN c.main = 1 .. n + k
      /\ \A i \in 1 .. n : c.main[i] = l[i]
      /\ \A i \in 1 .. n + k : n < i => i - n \in 1 .. k /\ c.main[i] = g[i - n]
  <2> HIDE DEF m, k
  <2>1. l \in [1 .. n -> Statements] /\ g \in [1 .. k -> Statements] /\ n \in Nat /\ k \in Nat
    BY <1>1, <1>4
  <2>2. /\ Len(l \o g) = n + k /\ DOMAIN (l \o g) = 1 .. n + k
        /\ \A i \in 1 .. n : (l \o g)[i] = l[i]
        /\ \A i \in 1 .. n + k : n < i => i - n \in 1 .. k /\ (l \o g)[i] = g[i - n]
    BY <2>1, OneAfterTheOther
  <2>3. c.main = l \o g
    BY <1>2
  <2> QED
    BY <2>2, <2>3
<1>6. /\ Len(c.main) = m /\ DOMAIN c.main = 1 .. m /\ c.main[m] = Set(1)
      /\ \A i \in 1 .. n : c.main[i] = Launch(i + 1)
  <2>1. m - n = 1 /\ n < m /\ m \in 1 .. n + k
    BY <1>1
  <2> QED
    BY <1>4, <1>5, <2>1
<1>7. ASSUME NEW i \in 1 .. m PROVE StartsOrGets(c, m, at, i)
  <2>1. CASE i = m
    BY <1>2, <1>3, <1>6, <2>1 DEF StartsOrGets
  <2>2. CASE i # m
    <3>1. i \in 1 .. n /\ i + 1 \in 1 .. m /\ i + 1 # 1 /\ i + 1 - 1 = i
      BY <1>1, <2>2
    <3> DEFINE t == i + 1
    <3>2. at[t] = i /\ c.main[i] = Launch(t) /\ t \in 1 .. m
      BY <1>3, <1>6, <3>1
    <3> HIDE DEF t, m
    <3> QED
      BY <3>2 DEF StartsOrGets
  <2> QED
    BY <2>1, <2>2
<1> HIDE DEF m, k
<1>8. DOMAIN c.bodies = 1 .. m /\ \A t \in 1 .. m : c.bodies[t] = IF t = 1 THEN << >> ELSE << Get(1) >>
  BY <1>2
<1>9. ASSUME NEW t \in 1 .. m PROVE OnlyGets(c, m, t) /\ (t = 1 => Len(c.bodies[t]) = 0)
  <2>1. CASE t = 1
    <3>1. c.bodies[t] = << >>
      BY <1>8, <2>1
    <3>2. Len(<< >>) = 0 /\ DOMAIN << >> = {} /\ 1 .. 0 = {}
      OBVIOUS
    <3> QED
      BY <3>1, <3>2 DEF OnlyGets
  <2>2. CASE t # 1
    <3>1. c.bodies[t] = << Get(1) >>
      BY <1>8, <2>2
    <3>2. ASSUME NEW s, s = << Get(1) >> PROVE Len(s) = 1 /\ DOMAIN s = 1 .. 1 /\ s[1] = Get(1)
      BY <3>2
    <3>3. Len(c.bodies[t]) = 1 /\ DOMAIN c.bodies[t] = 1 .. 1 /\ c.bodies[t][1] = Get(1)
      BY <3>1, <3>2
    <3> QED
      BY <1>3, <2>2, <3>3 DEF OnlyGets
  <2> QED
    BY <2>1, <2>2
<1>10. \A t \in 1 .. m : c.policy[t] = "promise" => Len(c.bodies[t]) = 0 /\ t \notin c.throws
  BY <1>2, <1>9
<1>11. ThrowsReachMain(c)
  BY <1>2, NoThrows
<1>12. Len(c.main) \in Nat /\ DOMAIN c.main = 1 .. Len(c.main) /\ \A i \in 1 .. Len(c.main) : StartsOrGets(c, m, at, i)
  BY <1>1, <1>6, <1>7
<1>13. WellFormed(c)
  BY <1>1, <1>8, <1>9, <1>10, <1>11, <1>12, GettingForm
<1> QED
  BY <1>13 DEF c

(* combineFunc, task 1, starts the others. *)
LEMMA CombineProgram == WellFormed(Combine)
<1> DEFINE c == Combine
           from == << Main, 1, 1 >>
           at == << 1, 1, 2 >>
           finds == FALSE
           u == << Launch(2), Launch(3), Get(2), Get(3) >>
<1>1. /\ c.throws = {} /\ c.main = << Launch(1), Get(1) >>
      /\ c.bodies = << u, << >>, << >> >>
      /\ \A t \in 1 .. 3 : c.policy[t] = "async"
  BY DEF Combine, Scenario, AllTasks
<1>2. /\ from[1] = Main /\ from[2] = 1 /\ from[3] = 1 /\ at[1] = 1 /\ at[2] = 1 /\ at[3] = 2
      /\ finds \in BOOLEAN /\ ~ finds
  OBVIOUS
<1>3. /\ Len(u) = 4 /\ DOMAIN u = 1 .. 4
      /\ u[1] = Launch(2) /\ u[2] = Launch(3) /\ u[3] = Get(2) /\ u[4] = Get(3)
  OBVIOUS
<1> HIDE DEF c, from, at, finds, u
<1>4. DOMAIN c.bodies = 1 .. 3 /\ c.bodies[1] = u /\ c.bodies[2] = << >> /\ c.bodies[3] = << >>
  BY <1>1
<1>5. /\ Len(c.main) = 2 /\ DOMAIN c.main = 1 .. 2 /\ c.main[1] = Launch(1) /\ c.main[2] = Get(1)
  BY <1>1
<1>6. Main \notin 1 .. 3 /\ BodiesOf(c) = (1 .. 3) \cup {Main}
  BY <1>4 DEF Main, BodiesOf
<1>7. /\ BodyOf(c, Main) = c.main /\ BodyOf(c, 1) = u
      /\ BodyOf(c, 2) = << >> /\ BodyOf(c, 3) = << >>
  BY <1>4, <1>6 DEF BodyOf
<1>8. \A b \in BodiesOf(c) : b = Main \/ b = 1 \/ b = 2 \/ b = 3
  BY <1>6
<1>9. Len(<< >>) = 0 /\ DOMAIN << >> = {} /\ 1 .. 0 = {}
  OBVIOUS
<1>10. BodiesTyped(c)
  <2>1. ASSUME NEW b \in BodiesOf(c)
        PROVE  Len(BodyOf(c, b)) \in Nat /\ DOMAIN BodyOf(c, b) = 1 .. Len(BodyOf(c, b))
    <3>0. /\ Len(c.main) \in Nat /\ DOMAIN c.main = 1 .. Len(c.main)
          /\ Len(u) \in Nat /\ DOMAIN u = 1 .. Len(u)
          /\ Len(<< >>) \in Nat /\ DOMAIN << >> = 1 .. Len(<< >>)
      <4>1. 2 \in Nat /\ 4 \in Nat /\ 0 \in Nat
        OBVIOUS
      <4> QED
        BY <1>3, <1>5, <1>9, <4>1, Zenon
    <3>1. CASE b = Main
      BY <1>7, <3>0, <3>1, Zenon
    <3>2. CASE b = 1
      BY <1>7, <3>0, <3>2, Zenon
    <3>3. CASE b = 2 \/ b = 3
      BY <1>7, <3>0, <3>3, Zenon
    <3> QED
      BY <1>8, <2>1, <3>1, <3>2, <3>3
  <2> QED
    BY <1>4, <1>6, <2>1 DEF BodiesTyped
<1>11. ASSUME NEW b \in BodiesOf(c), NEW i \in DOMAIN BodyOf(c, b)
       PROVE  Regular(c, from, at, finds, b, i)
  <2>1. CASE b = Main
    <3>1. i = 1 \/ i = 2
      BY <1>5, <1>7, <1>11, <2>1
    <3> QED
      BY <1>2, <1>4, <1>5, <1>7, <2>1, <3>1 DEF Regular
  <2>2. CASE b = 1
    <3>1. i = 1 \/ i = 2 \/ i = 3 \/ i = 4
      BY <1>3, <1>7, <1>11, <2>2
    <3> QED
      BY <1>2, <1>3, <1>4, <1>7, <2>2, <3>1 DEF Regular
  <2> QED
    BY <1>7, <1>8, <1>9, <1>11, <2>1, <2>2
<1>12. \A t \in DOMAIN c.bodies : c.policy[t] = "promise" => DOMAIN c.bodies[t] = {} /\ t \notin c.throws
  BY <1>1, <1>4
<1>13. ThrowsReachMain(c)
  BY <1>1, NoThrows
<1>14. finds \in BOOLEAN /\ (finds => c.throws = {})
  BY <1>2
<1>15. WellFormed(c)
  BY <1>10, <1>11, <1>12, <1>13, <1>14, RegularCode
<1> QED
  BY <1>15 DEF c

LEMMA AllWellFormed ==
    ASSUME NEW p \in Programs
    PROVE  WellFormed(Code[p]) /\ (p = "limited" => OnePermitEach(Code[p]))
<1>1. p \in DOMAIN Code
  BY ProgramsAssumption
<1>2. \/ p \in {"pipeline", "deferred", "chain", "combine", "thrown", "one_by_one", "shared",
                "packaged", "arguments", "policies", "nested"}
      \/ p \in {"reset", "discarded", "reuse", "stored", "bm_discarding", "bm_reusing"}
      \/ p \in {"invocations", "map", "average", "matrix", "containers", "search", "vector",
                "bm_parallel", "bm_per_row"}
      \/ p = "limited"
  BY <1>1 DEF Code
<1>3. CASE p \in {"pipeline", "deferred", "chain", "combine", "thrown", "one_by_one", "shared",
                  "packaged", "arguments", "policies", "nested"}
  <2>1. Code[p] \in {Pipeline, DeferredPipeline, Chain, Combine, Thrown, OneByOne, SharedFuture,
                     Packaged, Arguments, Policies, Nested}
    BY <1>3 DEF Code
  <2>2. p # "limited"
    BY <1>3
  <2> QED
    BY <2>1, <2>2, WrittenOut, DiamondPrograms, ChainProgram, CombineProgram, SharedFutureProgram
<1>4. CASE p \in {"reset", "discarded", "reuse", "stored", "bm_discarding", "bm_reusing"}
  <2>1. Code[p] \in {Reset, Discarded, Reuse, Stored, BM_Async_Discarding, BM_Async_Reusing}
    BY <1>4 DEF Code
  <2>2. p # "limited"
    BY <1>4
  <2> QED
    BY <2>1, <2>2, InTurnPrograms, ReusePrograms
<1>5. CASE p \in {"invocations", "map", "average", "matrix", "containers", "search", "vector",
                  "bm_parallel", "bm_per_row"}
  <2>1. Code[p] \in {Invocations, Map, average_squares, matrix_multiply, Containers, Search,
                     FuturesVector, BM_Async_Parallel, BM_AsyncPerRow}
    BY <1>5 DEF Code
  <2>2. p # "limited"
    BY <1>5
  <2> QED
    BY <2>1, <2>2, StartAllPrograms
<1>6. CASE p = "limited"
  <2>1. Code[p] = Limited
    BY <1>6 DEF Code
  <2> QED
    BY <2>1, LimitedProgram
<1> QED
  BY <1>2, <1>3, <1>4, <1>5, <1>6

LEMMA KnownCode == program \in Programs => CodeKnown /\ GuardCodeKnown
<1> SUFFICES ASSUME program \in Programs PROVE CodeKnown /\ GuardCodeKnown
  OBVIOUS
<1>1. WellFormed(Code[program]) /\ (program = "limited" => OnePermitEach(Code[program]))
  BY AllWellFormed
<1> QED
  BY <1>1, CodeIsKnown, GuardCodeIsKnown

LEMMA KnownCodeNext == (program \in Programs)' => CodeKnown' /\ GuardCodeKnown'
  BY KnownCode, PTL

LEMMA InitKnown == Init => Inv
<1> SUFFICES ASSUME Init PROVE Inv
  OBVIOUS
<1>1. CodeKnown /\ GuardCodeKnown
  BY KnownCode DEF Init
<1>2. /\ program \in Programs /\ permits = max_concurrent_tasks /\ guards = {} /\ caught = FALSE
      /\ \A t \in Tasks : future[t] = FirstFuture(t) /\ result[t] = "none" /\ calls[t] = 0
      /\ \A t \in Tasks : FirstFuture(t) \in {"none", "pending"}
  BY DEF Init, FirstFuture
<1>3. Threads = Tasks \cup {Main} /\ Main \notin Tasks
  BY <1>1, TasksAndMain
<1>4. TypesKnown
  <2>1. /\ future \in [Tasks -> {"none", "deferred", "pending", "value", "exception"}]
        /\ result \in [Tasks -> {"none", "value", "exception"}]
        /\ calls \in [Tasks -> Nat]
    BY DEF Init
  <2> QED
    BY <1>2, <2>1 DEF TypesKnown
<1> DEFINE m == Frame(Main, 1)
<1>5. m \in FrameOf(Threads) /\ m.body = Main /\ m.at = 1
  BY <1>3 DEF FrameOf, Frame
<1>6. /\ stack = [th \in Threads |-> IF th = Main THEN << m >> ELSE << >>]
  BY DEF Init
<1> HIDE DEF m
<1>7. << m >> \in Seq(FrameOf(Threads)) /\ DOMAIN << m >> = {1} /\ << m >>[1] = m
      /\ << >> \in Seq(FrameOf(Threads)) /\ DOMAIN << >> = {}
  BY <1>5
<1>8. /\ DOMAIN stack = Threads
      /\ DOMAIN stack[Main] = {1} /\ stack[Main][1] = m
      /\ \A th \in Tasks : stack[th] = << >> /\ DOMAIN stack[th] = {}
      /\ stack \in [Threads -> Seq(FrameOf(Threads))]
  <2>1. DOMAIN stack = Threads /\ \A th \in Threads : stack[th] = IF th = Main THEN << m >> ELSE << >>
    BY <1>6
  <2>2. stack[Main] = << m >> /\ \A th \in Tasks : stack[th] = << >>
    BY <1>3, <2>1
  <2>3. stack \in [Threads -> Seq(FrameOf(Threads))]
    <3>1. \A th \in Threads : stack[th] \in Seq(FrameOf(Threads))
      BY <1>3, <1>7, <2>2
    <3>2. stack = [th \in Threads |-> stack[th]]
      BY <1>6
    <3> QED
      BY <3>1, <3>2
  <2> QED
    BY <1>7, <2>1, <2>2, <2>3
<1>9. Frames = {m}
  BY <1>3, <1>8 DEF Frames, FramesIn
<1>10. StacksTyped
  <2>1. \A th \in Threads : th = Main \/ th \in Tasks
    BY <1>3
  <2>2. \A th \in Threads : stack[th] # << >> => stack[th][1].body = th
    BY <1>5, <1>8, <2>1
  <2>3. \A th \in Threads : \A i \in DOMAIN stack[th] : th = Main /\ i = 1
    BY <1>8, <2>1
  <2> QED
    BY <1>8, <2>2, <2>3 DEF StacksTyped, StacksOf
<1>11. \A t \in Tasks : Unstarted(t)
  BY <1>2, <1>3, <1>5, <1>9 DEF Unstarted
<1>12. StartsAhead
  BY <1>2, <1>11 DEF StartsAhead
<1>13. /\ Len(Body(Main)) \in Nat /\ DOMAIN Body(Main) = 1 .. Len(Body(Main))
       /\ Returning(Main) = Len(Body(Main)) + 1
       /\ Finishing(Main) = Len(Body(Main)) + 2 /\ Leaving(Main) = Len(Body(Main)) + 3
  BY <1>1, <1>3, Places
<1>14. PlacesKnown
  <2>1. PlaceKnown(m)
    BY <1>5, <1>13 DEF PlaceKnown
  <2> QED
    BY <1>9, <2>1 DEF PlacesKnown
<1>15. ResultsKnown
  BY <1>2, <1>11 DEF ResultsKnown, ResultKnown, FirstFuture
<1>16. SourceKnown
  BY <1>2 DEF SourceKnown
<1>17. MainKnown
  BY <1>5, <1>9 DEF MainKnown
<1>18. GuardsKnown
  <2>1. ~ MainHolds
    BY <1>5, <1>9, <1>13 DEF MainHolds, HoldsAt
  <2>2. Cardinality({}) = 0 /\ IsFiniteSet({})
    BY FS_EmptySet
  <2> QED
    BY <1>2, <1>5, <1>9, <2>1, <2>2, PermitsAssumption DEF GuardsKnown
<1> QED
  BY <1>1, <1>4, <1>10, <1>12, <1>14, <1>15, <1>16, <1>17, <1>18 DEF Inv, CoreInv

(* With the semaphore, no function is run by the thread of another. *)
OwnThreads == program = "limited" => \A th \in Threads : DOMAIN stack[th] \subseteq {1}
IInv == Inv /\ OwnThreads

LEMMA OwnThreadsKept ==
    ASSUME Inv, OwnThreads, [Next]_vars
    PROVE  OwnThreads'
<1>1. Threads' = Threads /\ program' = program
  <2>1. program' = program
    <3>1. ASSUME NEW th, NEW t, StartTask(th, t) \/ DeferTask(th, t) \/ RunDeferred(th, t) \/ CallTask(th, t)
          PROVE  program' = program
      BY <3>1 DEF StartTask, DeferTask, RunDeferred, CallTask
    <3>2. ASSUME NEW th, NEW t, GetValue(th, t) \/ GetException(th, t) \/ GetAndFind(th, t) \/ WaitReady(th, t)
          PROVE  program' = program
      BY <3>2 DEF GetValue, GetException, GetAndFind, WaitReady
    <3>3. ASSUME NEW th, NEW t, SetPromise(th, t) \/ Function(th, t) \/ MakeReady(th, t)
          PROVE  program' = program
      BY <3>3 DEF SetPromise, Function, Return, MakeReady
    <3>4. ASSUME NEW th, AcquireGuard(th) \/ Leave(th) \/ UNCHANGED vars PROVE program' = program
      BY <3>4 DEF AcquireGuard, Leave, vars
    <3> QED
      BY <3>1, <3>2, <3>3, <3>4 DEF Next, Step, AllDone
  <2>2. Threads' = Threads
    BY <2>1 DEF Threads, Tasks
  <2> QED
    BY <2>1, <2>2
<1> SUFFICES ASSUME program = "limited"
             PROVE  \A u \in Threads : DOMAIN stack'[u] \subseteq {1}
  BY <1>1 DEF OwnThreads
<1>2. DOMAIN stack = Threads /\ \A u \in Threads : DOMAIN stack[u] \subseteq {1}
  BY DEF OwnThreads, Inv, CoreInv, StacksTyped, StacksOf
<1>3. ASSUME NEW th \in Threads, NEW n, stack' = [stack EXCEPT ![th] = At(th, n)]
      PROVE  \A u \in Threads : DOMAIN stack'[u] \subseteq {1}
  BY <1>2, <1>3 DEF At
<1>4. \A t \in Tasks : Policy(t) = "async"
  BY DEF Inv, GuardCodeKnown
<1>5. ASSUME NEW th \in Threads, NEW t \in Tasks, StartTask(th, t)
      PROVE  \A u \in Threads : DOMAIN stack'[u] \subseteq {1}
  <2>1. stack' = [stack EXCEPT ![th] = Continued(th), ![t] = << Frame(t, 1) >>]
    BY <1>5 DEF StartTask
  <2>2. DOMAIN Continued(th) = DOMAIN stack[th] /\ DOMAIN << Frame(t, 1) >> = {1}
    BY DEF Continued, At
  <2> QED
    BY <1>2, <2>1, <2>2
<1>6. ASSUME NEW th \in Threads, NEW t \in Tasks, RunDeferred(th, t)
      PROVE  FALSE
  <2>1. future[t] = "deferred" /\ ResultKnown(t)
    BY <1>6 DEF RunDeferred, Inv, CoreInv, ResultsKnown
  <2> QED
    BY <1>4, <2>1 DEF ResultKnown
<1>7. ASSUME NEW th \in Threads, NEW t \in Tasks, CallTask(th, t)
      PROVE  FALSE
  <2>1. IsAt(th, "call", t) /\ CodeKnown
    BY <1>7 DEF CallTask, Inv
  <2>2. PICK f : f = Top(th)
    OBVIOUS
  <2>3. f.body \in Threads /\ f.at \in DOMAIN Body(f.body) /\ Body(f.body)[f.at] = Call(t)
    BY <2>1, <2>2, AtStatement DEF Inv, CoreInv, Call
  <2>4. Policy(t) = "called"
    BY <2>1, <2>3 DEF CodeKnown
  <2> QED
    BY <1>4, <2>4
<1>8. ASSUME NEW th \in Threads, Leave(th)
      PROVE  \A u \in Threads : DOMAIN stack'[u] \subseteq {1}
  <2>1. stack' = [stack EXCEPT ![th] = Front(stack[th])] /\ stack[th] # << >>
    BY <1>8 DEF Leave, Running
  <2>2. stack[th] \in Seq(FrameOf(Threads))
    BY DEF Inv, CoreInv, StacksTyped, StacksOf
  <2>3. DOMAIN Front(stack[th]) \subseteq DOMAIN stack[th]
    BY <2>1, <2>2, EmptySeq, LenProperties DEF Front
  <2> QED
    BY <1>2, <2>1, <2>3
<1>9. ASSUME UNCHANGED vars PROVE \A u \in Threads : DOMAIN stack'[u] \subseteq {1}
  BY <1>2, <1>9 DEF vars
<1>10. ASSUME NEW th \in Threads, AcquireGuard(th)
       PROVE  \A u \in Threads : DOMAIN stack'[u] \subseteq {1}
  BY <1>3, <1>10 DEF AcquireGuard, Continued
<1>11. ASSUME NEW th \in Threads, NEW t \in Tasks,
              \/ DeferTask(th, t) \/ GetValue(th, t) \/ GetException(th, t) \/ GetAndFind(th, t)
              \/ WaitReady(th, t) \/ SetPromise(th, t) \/ Function(th, t) \/ MakeReady(th, t)
       PROVE  \A u \in Threads : DOMAIN stack'[u] \subseteq {1}
  <2>1. \E n : stack' = [stack EXCEPT ![th] = At(th, n)]
    BY <1>11 DEF DeferTask, GetValue, GetException, GetAndFind, WaitReady, SetPromise, Function,
                 Return, MakeReady, Continued
  <2> QED
    BY <1>3, <2>1
<1> QED
  BY <1>5, <1>6, <1>7, <1>8, <1>9, <1>10, <1>11 DEF Next, Step, AllDone

LEMMA StepKnown ==
    ASSUME Inv, [Next]_vars
    PROVE  Inv'
<1>1. ASSUME NEW th \in Threads, NEW t \in Tasks,
             \/ StartTask(th, t) \/ DeferTask(th, t) \/ RunDeferred(th, t) \/ CallTask(th, t)
             \/ GetValue(th, t) \/ GetException(th, t) \/ GetAndFind(th, t)
             \/ WaitReady(th, t) \/ SetPromise(th, t)
             \/ Function(th, t) \/ MakeReady(th, t)
      PROVE  CoreInv' /\ GuardsKnown'
  <2>1. CASE StartTask(th, t)
    BY <2>1, StartTaskStep
  <2>2. CASE DeferTask(th, t) \/ SetPromise(th, t)
    BY <2>2, MarkStep
  <2>3. CASE RunDeferred(th, t)
    BY <2>3, RunDeferredStep
  <2>4. CASE CallTask(th, t)
    BY <2>4, CallTaskStep
  <2>5. CASE GetValue(th, t) \/ GetAndFind(th, t) \/ WaitReady(th, t)
    BY <2>5, PlainSteps
  <2>6. CASE GetException(th, t)
    BY <2>6, GetExceptionStep
  <2>7. CASE Function(th, t)
    BY <2>7, FunctionStep
  <2>8. CASE MakeReady(th, t)
    BY <2>8, MakeReadyStep
  <2> QED
    BY <1>1, <2>1, <2>2, <2>3, <2>4, <2>5, <2>6, <2>7, <2>8
<1>2. ASSUME UNCHANGED vars PROVE CoreInv' /\ GuardsKnown'
  <2>1. UNCHANGED <<program, future, result, calls, stack, permits, guards, caught>>
    BY <1>2 DEF vars
  <2>2. /\ Tasks' = Tasks /\ Threads' = Threads /\ Code[program]' = Code[program]
        /\ \A b : /\ Body(b)' = Body(b) /\ Policy(b)' = Policy(b)
                  /\ Returning(b)' = Returning(b) /\ Finishing(b)' = Finishing(b)
                  /\ Leaving(b)' = Leaving(b) /\ FirstFuture(b)' = FirstFuture(b)
                  /\ Gets(b)' = Gets(b)
    BY <2>1, CodeStays
  <2>3. Frames' = Frames
    BY <2>1 DEF Frames
  <2>4. CoreInv /\ GuardsKnown
    BY DEF Inv
  <2>5. TypesKnown' /\ StacksTyped'
    BY <2>1, <2>2, <2>4 DEF CoreInv, TypesKnown, StacksTyped
  <2>6. \A t : Unstarted(t)' <=> Unstarted(t)
    BY <2>1, <2>2, <2>3 DEF Unstarted
  <2>7. StartsAhead'
    <3>1. \A b, i : Ahead(b, i)' <=> Ahead(b, i)
      BY <2>3, <2>6 DEF Ahead
    <3> QED
      BY <2>1, <2>2, <2>4, <2>6, <3>1 DEF CoreInv, StartsAhead
  <2>8. PlacesKnown'
    BY <2>1, <2>2, <2>3, <2>4 DEF CoreInv, PlacesKnown, PlaceKnown
  <2>9. ResultsKnown'
    BY <2>1, <2>2, <2>4, <2>6 DEF CoreInv, ResultsKnown, ResultKnown
  <2>10. SourceKnown' /\ MainKnown'
    BY <2>1, <2>2, <2>3, <2>4 DEF CoreInv, SourceKnown, MainKnown
  <2>11. GuardsKnown'
    <3>1. MainHolds' <=> MainHolds
      BY <2>1, <2>2, <2>3 DEF MainHolds, HoldsAt
    <3> QED
      BY <2>1, <2>2, <2>3, <2>4, <3>1 DEF GuardsKnown
  <2> QED
    BY <2>5, <2>7, <2>8, <2>9, <2>10, <2>11 DEF CoreInv
<1>3. CoreInv' /\ GuardsKnown'
  BY <1>1, <1>2, AcquireGuardStep, LeaveStep DEF Next, Step, AllDone
<1>4. (program \in Programs)'
  BY <1>3 DEF CoreInv, TypesKnown
<1> QED
  BY <1>3, <1>4, KnownCodeNext DEF Inv

(* Every main of chapters 6 and 7, and every benchmark loop, keeps what     *)
(* IInv says: no task is started twice, a frame tells which futures its     *)
(* body has got, a future tells how its function ended, and a guard is      *)
(* where it has been moved to.                                              *)
THEOREM TasksInvariant == Spec => []IInv
<1>1. Init => IInv
  <2> SUFFICES ASSUME Init PROVE IInv
    OBVIOUS
  <2>1. Inv
    BY InitKnown
  <2>2. ASSUME NEW th \in Threads PROVE DOMAIN stack[th] \subseteq {1}
    BY <2>2 DEF Init
  <2> QED
    BY <2>1, <2>2 DEF IInv, OwnThreads
<1>2. IInv /\ [Next]_vars => IInv'
  BY OwnThreadsKept, StepKnown DEF IInv
<1> QED
  BY <1>1, <1>2, PTL DEF Spec

(* Futures, results and calls stay in their types, and every frame of a     *)
(* stack is at a place of a body of the program, for any number of tasks.   *)
THEOREM TypeCorrect == Spec => []TypeOK
<1>1. IInv => TypeOK
  <2> SUFFICES ASSUME IInv PROVE TypeOK
    OBVIOUS
  <2>1. CodeKnown /\ TypesKnown /\ StacksTyped /\ PlacesKnown /\ GuardsKnown
    BY DEF IInv, Inv, CoreInv
  <2>2. ASSUME NEW th \in Threads, NEW i \in DOMAIN stack[th]
        PROVE  stack[th][i].body \in Threads /\ stack[th][i].at \in 1 .. Leaving(stack[th][i].body)
    <3>1. stack[th][i] \in Frames /\ stack[th][i] \in FrameOf(Threads)
      BY <2>1, <2>2, StackTypes DEF StacksTyped, Frames
    <3> QED
      BY <2>1, <3>1 DEF PlacesKnown, PlaceKnown, FrameOf
  <2> QED
    BY <2>1, <2>2 DEF TypesKnown, GuardsKnown, TypeOK
<1> QED
  BY <1>1, TasksInvariant, PTL

(* The function of a task is called once at most, and not before the        *)
(* futures that it gets have their values (Task::operator(), std::async).   *)
THEOREM TasksAfterTheirDependencies == Spec => DependenciesFirst
<1> DEFINE A == \A t \in Tasks : calls'[t] # calls[t] =>
                  /\ calls[t] = 0 /\ calls'[t] = 1
                  /\ \A d \in Gets(t) : future[d] = "value" /\ calls[d] \in 0 .. 1
<1>1. IInv /\ [Next]_vars => [A]_vars
  <2> SUFFICES ASSUME IInv, Next, NEW t \in Tasks, calls'[t] # calls[t]
               PROVE  /\ calls[t] = 0 /\ calls'[t] = 1
                      /\ \A d \in Gets(t) : future[d] = "value" /\ calls[d] \in 0 .. 1
    BY DEF A
  <2>1. CodeKnown /\ CoreInv /\ calls \in [Tasks -> Nat]
    BY DEF IInv, Inv, CoreInv, TypesKnown
  <2>2. PICK th \in Threads, u \in Tasks : Function(th, u)
    <3>1. ASSUME NEW th, NEW u, \/ StartTask(th, u) \/ DeferTask(th, u) \/ RunDeferred(th, u) \/ CallTask(th, u)
                                \/ GetValue(th, u) \/ GetException(th, u) \/ GetAndFind(th, u)
                                \/ WaitReady(th, u) \/ SetPromise(th, u) \/ MakeReady(th, u)
          PROVE  calls' = calls
      BY <3>1 DEF StartTask, DeferTask, RunDeferred, CallTask, GetValue, GetException, GetAndFind,
                  WaitReady, SetPromise, MakeReady
    <3>2. ASSUME NEW th, AcquireGuard(th) \/ Leave(th) \/ AllDone PROVE calls' = calls
      BY <3>2 DEF AcquireGuard, Leave, AllDone, vars
    <3> QED
      BY <3>1, <3>2 DEF Next, Step
  <2>3. calls' = [calls EXCEPT ![u] = calls[u] + 1]
    BY <2>2 DEF Function, Return
  <2>4. t = u
    BY <2>1, <2>3
  <2>5. PICK f : f = Top(th)
    OBVIOUS
  <2>6. calls[t] = 0 /\ \A d \in Gets(t) : future[d] = "value"
    BY <2>1, <2>2, <2>4, <2>5, FunctionCore
  <2>7. \A d \in Tasks : calls[d] \in {0, 1}
    BY <2>1 DEF CoreInv, ResultsKnown, ResultKnown
  <2>8. Gets(t) \subseteq Tasks
    BY DEF Gets
  <2>9. calls'[t] = 1
    BY <2>1, <2>3, <2>4, <2>6
  <2> QED
    BY <2>6, <2>7, <2>8, <2>9
<1>2. Spec => [][A]_vars
  BY <1>1, TasksInvariant, PTL DEF Spec
<1> QED
  BY <1>2 DEF DependenciesFirst

(* Permits and guards make up max_concurrent_tasks, and in chapter_07's     *)
(* program_07 no function runs without a guard, for any number of permits.  *)
THEOREM PermitsGoBack == Spec => []PermitsBoundTasks
<1>1. IInv => PermitsBoundTasks
  <2> SUFFICES ASSUME IInv PROVE PermitsBoundTasks
    OBVIOUS
  <2>1. GuardsKnown /\ StacksTyped /\ CodeKnown
    BY DEF IInv, Inv, CoreInv
  <2>2. ASSUME program = "limited", NEW t \in Tasks, Running(t), Top(t).at <= Returning(t)
        PROVE  t \in guards
    <3>1. t \in Threads /\ t # Main
      BY <2>1, TasksAndMain
    <3>2. /\ Top(t) \in Frames /\ stack[t] # << >> /\ Top(t) = stack[t][Len(stack[t])]
          /\ Len(stack[t]) \in DOMAIN stack[t]
      BY <2>1, <2>2, <3>1, TopFrame, StackTypes DEF StacksTyped
    <3>3. Len(stack[t]) = 1
      BY <2>2, <3>1, <3>2 DEF IInv, OwnThreads
    <3>4. Top(t).body = t
      BY <2>1, <3>1, <3>2, <3>3 DEF StacksTyped, StacksOf
    <3> QED
      BY <2>1, <2>2, <3>1, <3>2, <3>4 DEF GuardsKnown
  <2> QED
    BY <2>1, <2>2 DEF GuardsKnown, PermitsBoundTasks
<1> QED
  BY <1>1, TasksInvariant, PTL

(* An exception is neither lost nor made up between the function that       *)
(* throws it and the get() of main, in any of the programs.                 *)
THEOREM FailuresReachMain == Spec => []FailuresPropagate
<1>1. IInv => FailuresPropagate
  <2> SUFFICES ASSUME IInv PROVE FailuresPropagate
    OBVIOUS
  <2>1. /\ CodeKnown /\ ResultsKnown /\ SourceKnown /\ MainKnown /\ StacksTyped /\ TypesKnown /\ PlacesKnown
        /\ \A t \in Tasks : ResultKnown(t)
    BY DEF IInv, Inv, CoreInv, ResultsKnown
  <2>2. ASSUME NEW t \in Tasks, future[t] = "value" PROVE \A d \in Gets(t) : future[d] = "value"
    <3>1. CASE Policy(t) = "promise"
      BY <2>1, <3>1 DEF CodeKnown
    <3>2. CASE Policy(t) # "promise"
      BY <2>1, <2>2, <3>2 DEF ResultKnown
    <3> QED
      BY <3>1, <3>2
  <2>3. ASSUME NEW t \in Tasks, future[t] = "exception"
        PROVE  calls[t] = 1 \/ \E d \in Gets(t) : future[d] = "exception"
    BY <2>1, <2>3 DEF ResultKnown
  <2>4. ASSUME caught PROVE \E t \in Tasks : calls[t] = 1 /\ result[t] = "exception"
    BY <2>1, <2>4 DEF SourceKnown
  <2>5. ASSUME Ended, NEW t \in Tasks, calls[t] = 1, result[t] = "exception" PROVE caught
    <3>1. t \in Code[program].throws
      BY <2>1, <2>5 DEF ResultKnown
    <3>2. \A f \in Frames : FALSE
      <4>1. \A f \in Frames : \E th \in Threads : stack[th] # << >>
        <5>1. DOMAIN stack = Threads /\ DOMAIN << >> = {}
          BY <2>1 DEF StacksTyped, StacksOf
        <5> QED
          BY <5>1 DEF Frames, FramesIn
      <4> QED
        BY <2>5, <4>1 DEF Ended, Running
    <3>3. SUFFICES ASSUME ~ caught PROVE FALSE
      OBVIOUS
    <3>4. \A d \in Gets(Main) : future[d] = "value"
      BY <2>1, <3>1, <3>2, <3>3 DEF MainKnown
    <3> DEFINE S == {d \in Tasks : future[d] = "value"}
    <3>5. /\ S \in SUBSET Tasks /\ Gets(Main) \subseteq S
          /\ \A d \in S : Gets(d) \subseteq S
      <4>1. \A d \in Threads : Gets(d) \subseteq Tasks
        BY DEF Gets
      <4> QED
        BY <2>1, <2>2, <3>4, <4>1, TasksAndMain
    <3>6. Tasks = DOMAIN Code[program].bodies /\ \A b : Gets(b) = GetsOf(Code[program], b)
      BY DEF Tasks, Gets, GetsOf, Body, BodyOf
    <3>7. ThrowsReachMain(Code[program])
      <4>1. program \in Programs
        BY <2>1 DEF TypesKnown
      <4> QED
        BY <4>1, AllWellFormed DEF WellFormed
    <3> HIDE DEF S
    <3>8. Code[program].throws \subseteq S
      BY <3>5, <3>6, <3>7 DEF ThrowsReachMain
    <3>9. future[t] = "value"
      BY <3>1, <3>8 DEF S
    <3>10. result[t] = "value"
      <4>1. Policy(t) # "promise"
        BY <2>1, <3>1 DEF CodeKnown
      <4> QED
        BY <2>1, <3>9, <4>1 DEF ResultKnown
    <3> QED
      BY <2>5, <3>10
  <2> QED
    BY <2>2, <2>3, <2>4, <2>5, <2>1 DEF FailuresPropagate, TypesKnown
<1> QED
  BY <1>1, TasksInvariant, PTL
=============================================================================
