---------------------------- MODULE FutureQueue ----------------------------
(***************************************************************************)
(* ThreadSafeQueue of common/thread_safe_queue.h, an unbounded queue with  *)
(* a mutex and a condition variable, as chapters/chapter_06/program_12     *)
(* uses it: producers push futures first and set the values of their       *)
(* promises later, and consumers pop a future and then wait for its value. *)
(* push() and pop() hold the mutex from end to end (push() notifies with   *)
(* it held), so each is one step, apart from waiting.                      *)
(***************************************************************************)
EXTENDS Naturals, Sequences, FiniteSets, CondVar

CONSTANTS Producers, Consumers,
          Quota,        \* RESULTS_TO_PRODUCE of each loop
          Limit         \* a length that std::queue need not exceed

Thread == Producers \cup Consumers

ASSUME ThreadAssumption ==
    /\ IsFiniteSet(Thread) /\ Producers \cap Consumers = {}
    /\ Quota \in [Thread -> Nat]

(* The futures that the producers' loops push. *)
Produced == UNION { {p} \X (1 .. Quota[p]) : p \in Producers }
ASSUME LimitAssumption == Limit \in Nat /\ Cardinality(Produced) <= Limit

VARIABLES queue_, cond_var_,
          sent,         \* how many futures each producer has pushed
          unset,        \* the producers whose current promise has no value yet
          ready,        \* the futures whose promise was set
          waiting,      \* the future each consumer waits for, or none
          popped,       \* the futures each consumer has popped, in order
          results       \* how many results each consumer has got

queueVars == <<queue_, cond_var_, sent, unset, ready, waiting, popped, results>>

Future == Producers \X Nat
None == << >>

QueueInit ==
    /\ queue_ = << >> /\ cond_var_ = {}
    /\ sent = [p \in Producers |-> 0]
    /\ unset = {} /\ ready = {}
    /\ waiting = [c \in Consumers |-> None]
    /\ popped = [c \in Consumers |-> << >>]
    /\ results = [c \in Consumers |-> 0]
-----------------------------------------------------------------------------
(* Mutant: the notification is skipped when the queue was not empty. *)
PushNotifiesIfEmpty(p) ==
    /\ p \notin unset /\ sent[p] < Quota[p]
    /\ queue_' = Append(queue_, <<p, sent[p] + 1>>)
    /\ cond_var_' \in IF queue_ = << >> THEN NotifyOne(cond_var_) ELSE {cond_var_}
    /\ sent' = [sent EXCEPT ![p] = @ + 1]
    /\ unset' = unset \cup {p}
    /\ UNCHANGED <<ready, waiting, popped, results>>

(* producer(): the future of a new promise goes into the queue. *)
Push(p) ==
    /\ p \notin unset /\ sent[p] < Quota[p]
    /\ queue_' = Append(queue_, <<p, sent[p] + 1>>)
    /\ cond_var_' \in NotifyOne(cond_var_)
    /\ sent' = [sent EXCEPT ![p] = @ + 1]
    /\ unset' = unset \cup {p}
    /\ UNCHANGED <<ready, waiting, popped, results>>

(* prom.set_value(), after a sleep of any length. *)
SetValue(p) ==
    /\ p \in unset
    /\ ready' = ready \cup {<<p, sent[p]>>}
    /\ unset' = unset \ {p}
    /\ UNCHANGED <<queue_, cond_var_, sent, waiting, popped, results>>

AtPop(c) ==
    waiting[c] = None /\ c \notin cond_var_ /\ Len(popped[c]) < Quota[c]

(* pop() on an empty queue: cond_var_.wait() blocks. *)
WaitForFuture(c) ==
    /\ AtPop(c) /\ queue_ = << >>
    /\ cond_var_' = cond_var_ \cup {c}
    /\ UNCHANGED <<queue_, sent, unset, ready, waiting, popped, results>>

(* Mutant: front() and pop() under two locks. *)
PopFrontOnly(c) ==
    /\ AtPop(c) /\ queue_ # << >>
    /\ waiting' = [waiting EXCEPT ![c] = Head(queue_)]
    /\ popped' = [popped EXCEPT ![c] = Append(@, Head(queue_))]
    /\ queue_' = IF Head(queue_) \in ready THEN Tail(queue_) ELSE queue_
    /\ UNCHANGED <<cond_var_, sent, unset, ready, results>>

Pop(c) ==
    /\ AtPop(c) /\ queue_ # << >>
    /\ waiting' = [waiting EXCEPT ![c] = Head(queue_)]
    /\ popped' = [popped EXCEPT ![c] = Append(@, Head(queue_))]
    /\ queue_' = Tail(queue_)
    /\ UNCHANGED <<cond_var_, sent, unset, ready, results>>

(* fut.get() returns, the promise having been set. *)
GetResult(c) ==
    /\ waiting[c] \in ready
    /\ results' = [results EXCEPT ![c] = @ + 1]
    /\ waiting' = [waiting EXCEPT ![c] = None]
    /\ UNCHANGED <<queue_, cond_var_, sent, unset, ready, popped>>

SpuriousWakeup(c) ==
    /\ c \in cond_var_
    /\ cond_var_' = cond_var_ \ {c}
    /\ UNCHANGED <<queue_, sent, unset, ready, waiting, popped, results>>

(* The std::jthreads have been joined. *)
AllGot ==
    /\ \A p \in Producers : sent[p] = Quota[p] /\ p \notin unset
    /\ \A c \in Consumers : results[c] = Quota[c]
Joined == AllGot /\ UNCHANGED queueVars

ProducerStep(p) == Push(p) \/ SetValue(p)
ConsumerStep(c) == WaitForFuture(c) \/ Pop(c) \/ GetResult(c)

QueueNext ==
    \/ \E p \in Producers : ProducerStep(p)
    \/ \E c \in Consumers : ConsumerStep(c) \/ SpuriousWakeup(c)
    \/ Joined

QueueSpec == QueueInit /\ [][QueueNext]_queueVars

(* The operating system runs every thread that can run and the mutex is     *)
(* held for a bounded time.                                                 *)
QueueFairSpec ==
    /\ QueueSpec
    /\ \A p \in Producers : WF_queueVars(ProducerStep(p))
    /\ \A c \in Consumers : WF_queueVars(ConsumerStep(c))
-----------------------------------------------------------------------------
QueueTypeOK ==
    /\ queue_ \in Seq(Future) /\ cond_var_ \in SUBSET Consumers
    /\ sent \in [Producers -> Nat] /\ \A p \in Producers : sent[p] <= Quota[p]
    /\ unset \in SUBSET Producers /\ ready \in SUBSET Future
    /\ waiting \in [Consumers -> Future \cup {None}]
    /\ popped \in [Consumers -> Seq(Future)]
    /\ results \in [Consumers -> Nat]
    /\ \A c \in Consumers : results[c] <= Quota[c]

(* No wakeup is lost: while a consumer is blocked in pop(), every future in *)
(* the queue is matched by a consumer that is awake and about to pop.  A    *)
(* consumer that waits for the value of a future does not count: it may     *)
(* wait for the producer's sleep.                                           *)
WakeupForFuture ==
    cond_var_ # {} => Len(queue_) <= Cardinality({ c \in Consumers : AtPop(c) })

(* Every future that was pushed is in the queue or went to one consumer, in *)
(* the order of the pushes, so that no get() is called twice for a promise. *)
Fifo == INSTANCE BoundedFifo WITH
            queue <- queue_, got <- popped,
            Bound <- Limit
IsFifo == Fifo!Spec

(* Both loops end: every future in the queue gets its value, because its    *)
(* producer never waits for a consumer.                                     *)
QueueTerminates ==
    <>[][~ \E c \in Consumers : SpuriousWakeup(c)]_queueVars => <>AllGot
=============================================================================
