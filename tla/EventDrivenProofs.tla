------------------------- MODULE EventDrivenProofs -------------------------
(***************************************************************************)
(* The coroutines, timers and sessions of chapters 8 and 9, for any        *)
(* delays, any time that the thread loses, any clients and any number of   *)
(* calls: no coroutine is resumed out of time, sleeps end in the order in  *)
(* which they are due, and clients receive what they have sent.            *)
(***************************************************************************)
EXTENDS EventDriven, CommonTheorems

(* The event loop of chapter_08/program_08 *)

Timer == [when : Nat, h : Tasks]
Wake == [task : Tasks, sleep : Nat, asked : Nat, at : Nat]
SleepTypes ==
    /\ sleeps \in [Tasks -> Seq(Nat)]
    /\ \A t \in Tasks : Len(sleeps[t]) <= 2
    /\ suspended \in [Tasks -> Nat]
    /\ \A t \in Tasks : suspended[t] <= Len(sleeps[t]) + 1
    /\ started \in 0 .. 3
    /\ timers \in SUBSET Timer
    /\ now \in Nat
    /\ asked \in [Tasks -> Nat]
    /\ woken \in Seq(Wake)
    /\ returned \in BOOLEAN

(* Exactly the coroutines that main() has started and that have not         *)
(* finished are in the queue, each once and at the time that it has asked   *)
(* for.                                                                     *)
Sleeping(t) == suspended[t] \in 1 .. Len(sleeps[t])
SleepersQueued ==
    /\ \A i \in 1 .. 3 : suspended[Task[i]] = 0 <=> i > started
    /\ \A t \in Tasks : Sleeping(t) => \E e \in timers : e.h = t
    /\ \A e \in timers :
          /\ Sleeping(e.h)
          /\ e.when = asked[e.h] + sleeps[e.h][suspended[e.h]]
    /\ \A e, f \in timers : e.h = f.h => e = f
    /\ returned => timers = {} /\ started = 3

(* What has been woken was due no later than what still sleeps.             *)
WokenBefore ==
    /\ started < 3 => woken = << >>
    /\ \A j \in DOMAIN woken :
          /\ woken[j].sleep \in DOMAIN sleeps[woken[j].task]
          /\ \A e \in timers : Due(woken[j]) <= e.when

SleepInv == SleepTypes /\ SleepersQueued /\ WokenBefore /\ WokenInDueOrder

LEMMA TaskNames ==
    /\ Tasks = {"foo", "worker1", "worker2"}
    /\ Task[1] = "foo" /\ Task[2] = "worker1" /\ Task[3] = "worker2"
  BY DEF Task, Tasks

LEMMA SleepInvInit == Init => SleepInv
<1> SUFFICES ASSUME Init PROVE SleepInv
  OBVIOUS
<1>a. SleepInit
  BY DEF Init
<1>1. PICK d, e \in DELAYS :
          sleeps = [t \in Tasks |-> IF t = "foo" THEN << 2, 1 >>
                                    ELSE IF t = "worker1" THEN << d >>
                                    ELSE << e >>]
  BY <1>a DEF SleepInit
<1>2. SleepTypes
  <2>1. d \in Nat /\ e \in Nat
    BY SleepLoopAssumption
  <2>2. /\ << 2, 1 >> \in Seq(Nat) /\ << d >> \in Seq(Nat) /\ << e >> \in Seq(Nat)
        /\ Len(<< 2, 1 >>) = 2 /\ Len(<< d >>) = 1 /\ Len(<< e >>) = 1
    BY <2>1
  <2>3. sleeps \in [Tasks -> Seq(Nat)]
    BY <1>1, <2>2
  <2>4. /\ suspended = [t \in Tasks |-> 0] /\ asked = [t \in Tasks |-> 0]
        /\ started = 0 /\ timers = {} /\ now = 0 /\ woken = << >>
        /\ returned = FALSE
    BY <1>a DEF SleepInit
  <2>5. \A t \in Tasks : /\ Len(sleeps[t]) <= 2
                         /\ suspended[t] <= Len(sleeps[t]) + 1
    <3> SUFFICES ASSUME NEW t \in Tasks
                 PROVE  Len(sleeps[t]) <= 2 /\ suspended[t] <= Len(sleeps[t]) + 1
      OBVIOUS
    <3>1. suspended[t] = 0
      BY <2>4
    <3>2. Len(sleeps[t]) = 1 \/ Len(sleeps[t]) = 2
      BY <1>1, <2>2
    <3>3. \A n : n = 1 \/ n = 2 => n <= 2 /\ 0 <= n + 1
      OBVIOUS
    <3> QED
      BY <3>1, <3>2, <3>3, Zenon
  <2>6. suspended \in [Tasks -> Nat] /\ asked \in [Tasks -> Nat]
    BY <2>4
  <2>7. woken \in Seq(Wake)
    BY <2>4
  <2>8. started \in 0 .. 3 /\ now \in Nat
    BY <2>4
  <2>9. timers \in SUBSET Timer
    BY <2>4
  <2>10. returned \in BOOLEAN
    BY <2>4
  <2> QED
    BY <2>3, <2>5, <2>6, <2>7, <2>8, <2>9, <2>10, Zenon DEF SleepTypes
<1>3. SleepersQueued
  BY <1>a, TaskNames DEF SleepInit, SleepersQueued, Sleeping
<1>4. WokenBefore /\ WokenInDueOrder
  BY <1>a DEF SleepInit, WokenBefore, WokenInDueOrder
<1> QED
  BY <1>2, <1>3, <1>4 DEF SleepInv

(* A coroutine that is resumed goes on to a later sleep or finishes.        *)
LEMMA NextSleepAhead ==
    ASSUME SleepTypes, NEW t \in Tasks, suspended[t] <= Len(sleeps[t])
    PROVE  NextSleep(t) \in suspended[t] + 1 .. Len(sleeps[t]) + 1
<1> DEFINE ahead == suspended[t] + 1 .. Len(sleeps[t])
           S == {k \in ahead : sleeps[t][k] # 0} \cup {Len(sleeps[t]) + 1}
<1>1. suspended[t] \in Nat /\ Len(sleeps[t]) \in Nat
  BY DEF SleepTypes
<1>2. S \subseteq suspended[t] + 1 .. Len(sleeps[t]) + 1 /\ S # {}
  BY <1>1
<1> HIDE DEF S
<1>3. \E x \in S : \A y \in S : x <= y
  BY <1>1, <1>2, LeastElement
<1>4. Earliest(S) \in S
  BY <1>3 DEF Earliest
<1> QED
  BY <1>2, <1>4 DEF NextSleep, S

(* What resume() leaves: the coroutine sleeps from now on, and is queued    *)
(* with the time at which it is due, or it has finished.                    *)
LEMMA Resumed ==
    ASSUME SleepTypes, sleeps' = sleeps,
           NEW t \in Tasks, suspended[t] <= Len(sleeps[t]),
           NEW queue \in SUBSET Timer, ResumeTask(t, queue)
    PROVE  /\ suspended' \in [Tasks -> Nat] /\ asked' \in [Tasks -> Nat]
           /\ suspended'[t] \in 1 .. Len(sleeps[t]) + 1
           /\ \A u \in Tasks \ {t} :
                suspended'[u] = suspended[u] /\ asked'[u] = asked[u]
           /\ timers' \in SUBSET Timer
           /\ \/ ~ Sleeping(t)' /\ timers' = queue
              \/ /\ Sleeping(t)' /\ asked'[t] = now
                 /\ sleeps[t][suspended'[t]] \in Nat
                 /\ timers' = queue \cup
                      {[when |-> now + sleeps[t][suspended'[t]], h |-> t]}
<1> DEFINE k == NextSleep(t)
<1>1. k \in suspended[t] + 1 .. Len(sleeps[t]) + 1
  BY NextSleepAhead
<1>2. /\ suspended' = [suspended EXCEPT ![t] = k]
      /\ IF k <= Len(sleeps[t])
         THEN /\ timers' = queue \cup {[when |-> now + sleeps[t][k], h |-> t]}
              /\ asked' = [asked EXCEPT ![t] = now]
         ELSE timers' = queue /\ asked' = asked
  BY DEF ResumeTask
<1>3. /\ suspended[t] \in Nat /\ Len(sleeps[t]) \in Nat /\ now \in Nat
      /\ sleeps[t] \in Seq(Nat)
      /\ suspended \in [Tasks -> Nat] /\ asked \in [Tasks -> Nat]
  BY DEF SleepTypes
<1> HIDE DEF k
<1>4. k \in Nat /\ k \in 1 .. Len(sleeps[t]) + 1
  BY <1>1, <1>3
<1>5. /\ suspended' \in [Tasks -> Nat] /\ suspended'[t] = k
      /\ \A u \in Tasks \ {t} : suspended'[u] = suspended[u]
  BY <1>2, <1>3, <1>4
<1>6. CASE k <= Len(sleeps[t])
  <2>1. k \in 1 .. Len(sleeps[t])
    BY <1>3, <1>4, <1>6
  <2>2. sleeps[t][k] \in Nat
    BY <1>3, <2>1, ElementOfSeq
  <2>3. [when |-> now + sleeps[t][k], h |-> t] \in Timer
    BY <1>3, <2>2 DEF Timer
  <2>4. Sleeping(t)'
    BY <1>5, <2>1 DEF Sleeping
  <2>5. /\ timers' = queue \cup {[when |-> now + sleeps[t][k], h |-> t]}
        /\ asked' = [asked EXCEPT ![t] = now]
    BY <1>2, <1>6
  <2>6. /\ asked' \in [Tasks -> Nat] /\ asked'[t] = now
        /\ \A u \in Tasks \ {t} : asked'[u] = asked[u]
    BY <1>3, <2>5
  <2>7. timers' \in SUBSET Timer
    BY <2>3, <2>5
  <2> QED
    BY <1>4, <1>5, <2>2, <2>4, <2>5, <2>6, <2>7
<1>7. CASE ~ (k <= Len(sleeps[t]))
  <2>1. timers' = queue /\ asked' = asked
    BY <1>2, <1>7
  <2>2. ~ (k \in 1 .. Len(sleeps[t]))
    BY <1>3, <1>7
  <2>3. ~ Sleeping(t)'
    BY <1>5, <2>2 DEF Sleeping
  <2> QED
    BY <1>3, <1>4, <1>5, <2>1, <2>3
<1> QED
  BY <1>6, <1>7

(* The queue agrees with the coroutines again, if it held no other entry of *)
(* the coroutine that was resumed.                                          *)
LEMMA QueuedAgain ==
    ASSUME SleepTypes, SleepersQueued, sleeps' = sleeps,
           NEW t \in Tasks, suspended[t] <= Len(sleeps[t]),
           NEW queue \in SUBSET Timer, queue = { e \in timers : e.h # t },
           ResumeTask(t, queue)
    PROVE  /\ \A u \in Tasks : Sleeping(u)' => \E e \in timers' : e.h = u
           /\ \A e \in timers' :
                /\ Sleeping(e.h)'
                /\ e.when = asked'[e.h] + sleeps[e.h][suspended'[e.h]]
           /\ \A e, f \in timers' : e.h = f.h => e = f
<1>1. /\ \A u \in Tasks \ {t} :
           suspended'[u] = suspended[u] /\ asked'[u] = asked[u]
      /\ \/ ~ Sleeping(t)' /\ timers' = queue
         \/ /\ Sleeping(t)' /\ asked'[t] = now
            /\ sleeps[t][suspended'[t]] \in Nat
            /\ timers' = queue \cup
                 {[when |-> now + sleeps[t][suspended'[t]], h |-> t]}
  BY Resumed
<1>2. \A u \in Tasks \ {t} : Sleeping(u)' <=> Sleeping(u)
  BY <1>1 DEF Sleeping
<1>3. \A e \in queue : e \in timers /\ e.h \in Tasks \ {t}
  BY DEF SleepTypes, Timer
<1> DEFINE new == [when |-> now + sleeps[t][suspended'[t]], h |-> t]
<1>4. /\ new.h = t
      /\ new.when = now + sleeps[t][suspended'[t]]
  OBVIOUS
<1> HIDE DEF new
<1>5. ASSUME NEW u \in Tasks, Sleeping(u)' PROVE \E e \in timers' : e.h = u
  <2>1. CASE u = t
    BY <1>1, <1>4, <1>5, <2>1 DEF new
  <2>2. CASE u # t
    BY <1>1, <1>2, <1>5, <2>2 DEF SleepersQueued
  <2> QED
    BY <2>1, <2>2
<1>6. ASSUME NEW e \in timers'
      PROVE  /\ Sleeping(e.h)'
             /\ e.when = asked'[e.h] + sleeps[e.h][suspended'[e.h]]
  <2>1. CASE e \in queue
    BY <1>1, <1>2, <1>3, <2>1 DEF SleepersQueued
  <2>2. CASE e \notin queue
    <3>1. e = new /\ Sleeping(t)' /\ asked'[t] = now
      BY <1>1, <1>6, <2>2 DEF new
    <3> QED
      BY <1>4, <3>1
  <2> QED
    BY <2>1, <2>2
<1>7. ASSUME NEW e \in timers', NEW f \in timers', e.h = f.h PROVE e = f
  <2>1. (e \in queue \/ e = new) /\ (f \in queue \/ f = new)
    BY <1>1 DEF new
  <2>2. CASE e \in queue /\ f \in queue
    BY <1>3, <1>7, <2>2 DEF SleepersQueued
  <2>3. CASE e = new \/ f = new
    BY <1>3, <1>4, <1>7, <2>1, <2>3
  <2> QED
    BY <2>1, <2>2, <2>3
<1> QED
  BY <1>5, <1>6, <1>7

LEMMA StartStep == SleepInv /\ Start => SleepInv'
<1> SUFFICES ASSUME SleepInv, Start PROVE SleepInv'
  OBVIOUS
<1> DEFINE t == Task[started + 1]
<1>a. SleepTypes /\ SleepersQueued /\ WokenBefore
  BY DEF SleepInv
<1>b. /\ started < 3 /\ started' = started + 1 /\ ResumeTask(t, timers)
      /\ sleeps' = sleeps /\ now' = now /\ woken' = woken
      /\ returned' = returned
  BY DEF Start
<1>c. started \in 0 .. 2 /\ t \in Tasks
  <2>1. started \in 0 .. 2
    BY <1>a, <1>b DEF SleepTypes
  <2> QED
    BY <2>1 DEF Tasks
<1>d. /\ suspended[t] = 0 /\ Len(sleeps[t]) \in Nat
      /\ suspended[t] <= Len(sleeps[t])
  BY <1>a, <1>c DEF SleepersQueued, SleepTypes
<1>e. timers = { e \in timers : e.h # t }
  BY <1>a, <1>d DEF SleepersQueued, Sleeping
<1>f. timers \in SUBSET Timer
  BY <1>a DEF SleepTypes
<1>g. \A i \in 1 .. 3 : Task[i] = t => i = started + 1
  BY <1>c, TaskNames
<1> HIDE DEF t
<1>1. SleepTypes'
  <2>1. /\ suspended' \in [Tasks -> Nat] /\ asked' \in [Tasks -> Nat]
        /\ suspended'[t] \in 1 .. Len(sleeps[t]) + 1
        /\ \A u \in Tasks \ {t} : suspended'[u] = suspended[u]
        /\ timers' \in SUBSET Timer
    BY <1>a, <1>b, <1>c, <1>d, <1>f, Resumed
  <2>2. \A u \in Tasks : suspended'[u] <= Len(sleeps'[u]) + 1
    <3>1. suspended'[t] <= Len(sleeps[t]) + 1
      BY <1>d, <2>1
    <3>2. \A u \in Tasks : suspended[u] <= Len(sleeps[u]) + 1
      BY <1>a DEF SleepTypes
    <3> QED
      BY <1>b, <2>1, <3>1, <3>2, Zenon
  <2>3. started' \in 0 .. 3
    BY <1>b, <1>c
  <2> QED
    BY <1>a, <1>b, <2>1, <2>2, <2>3 DEF SleepTypes
<1>2. SleepersQueued'
  <2>1. /\ suspended'[t] \in 1 .. Len(sleeps[t]) + 1
        /\ \A u \in Tasks \ {t} : suspended'[u] = suspended[u]
    BY <1>a, <1>b, <1>c, <1>d, <1>f, Resumed
  <2>2. ASSUME NEW i \in 1 .. 3
        PROVE  suspended'[Task[i]] = 0 <=> i > started'
    <3>1. Task[i] \in Tasks /\ (suspended[Task[i]] = 0 <=> i > started)
      BY <1>a DEF SleepersQueued, Tasks
    <3>2. CASE Task[i] = t
      BY <1>b, <1>c, <1>d, <1>g, <2>1, <3>2
    <3>3. CASE Task[i] # t
      <4>1. i # started + 1
        BY <3>3 DEF t
      <4> QED
        BY <1>b, <1>c, <2>1, <3>1, <3>3, <4>1
    <3> QED
      BY <3>2, <3>3
  <2>3. /\ \A u \in Tasks : Sleeping(u)' => \E e \in timers' : e.h = u
        /\ \A e \in timers' :
             /\ Sleeping(e.h)'
             /\ e.when = asked'[e.h] + sleeps[e.h][suspended'[e.h]]
        /\ \A e, f \in timers' : e.h = f.h => e = f
    BY <1>a, <1>b, <1>c, <1>d, <1>e, <1>f, QueuedAgain
  <2>4. ~ returned'
    BY <1>a, <1>b DEF SleepersQueued
  <2> QED
    BY <1>b, <2>2, <2>3, <2>4 DEF SleepersQueued
<1>3. WokenBefore' /\ WokenInDueOrder'
  <2>1. woken' = << >> /\ DOMAIN woken' = {}
    BY <1>a, <1>b DEF WokenBefore
  <2> QED
    BY <2>1 DEF WokenBefore, WokenInDueOrder
<1> QED
  BY <1>1, <1>2, <1>3 DEF SleepInv

LEMMA FireStep == ASSUME SleepInv, NEW e, Fire(e) PROVE SleepInv'
<1> DEFINE t == e.h
           queue == timers \ {e}
           end == [task |-> t, sleep |-> suspended[t], asked |-> asked[t],
                   at |-> now]
<1>a. SleepTypes /\ SleepersQueued /\ WokenBefore /\ WokenInDueOrder
  BY DEF SleepInv
<1>b. /\ Running /\ e \in timers /\ e.when <= now
      /\ \A f \in timers : e.when <= f.when
      /\ woken' = Append(woken, end) /\ ResumeTask(t, queue)
      /\ sleeps' = sleeps /\ started' = started /\ now' = now
      /\ returned' = returned
  BY DEF Fire, Top
<1>c. /\ t \in Tasks /\ Sleeping(t) /\ e.when = asked[t] + sleeps[t][suspended[t]]
      /\ e.when \in Nat
  BY <1>a, <1>b DEF SleepTypes, SleepersQueued, Timer
<1>d. /\ suspended[t] \in Nat /\ suspended[t] > 0
      /\ Len(sleeps[t]) \in Nat /\ suspended[t] <= Len(sleeps[t])
      /\ suspended[t] \in DOMAIN sleeps[t] /\ sleeps[t] \in Seq(Nat)
  <2>1. sleeps[t] \in Seq(Nat) /\ suspended[t] \in Nat
    BY <1>a, <1>c DEF SleepTypes
  <2>2. Len(sleeps[t]) \in Nat /\ DOMAIN sleeps[t] = 1 .. Len(sleeps[t])
    BY <2>1
  <2>3. suspended[t] \in 1 .. Len(sleeps[t])
    BY <1>c DEF Sleeping
  <2> QED
    BY <2>1, <2>2, <2>3
<1>e. queue = { f \in timers : f.h # t }
  BY <1>a, <1>b DEF SleepersQueued
<1>f. queue \in SUBSET Timer
  BY <1>a DEF SleepTypes
<1>g. /\ now \in Nat /\ asked[t] \in Nat /\ woken \in Seq(Wake)
      /\ started \in 0 .. 3
  BY <1>a, <1>c DEF SleepTypes
<1>h. end \in Wake
  BY <1>c, <1>d, <1>g DEF Wake
<1>i. /\ end.task = t /\ end.sleep = suspended[t] /\ end.at = now
      /\ Due(end) = e.when
  BY <1>c DEF Due
<1>j. started = 3 /\ ~ returned
  BY <1>b DEF Running
<1>k. /\ suspended' \in [Tasks -> Nat] /\ asked' \in [Tasks -> Nat]
      /\ suspended'[t] \in 1 .. Len(sleeps[t]) + 1
      /\ \A u \in Tasks \ {t} : suspended'[u] = suspended[u]
      /\ timers' \in SUBSET Timer
      /\ \/ timers' = queue
         \/ /\ sleeps[t][suspended'[t]] \in Nat
            /\ timers' = queue \cup
                 {[when |-> now + sleeps[t][suspended'[t]], h |-> t]}
  BY <1>a, <1>b, <1>c, <1>d, <1>f, Resumed
<1> HIDE DEF t, queue, end
<1>1. SleepTypes'
  <2>1. \A u \in Tasks : suspended'[u] <= Len(sleeps'[u]) + 1
    <3>1. suspended'[t] <= Len(sleeps[t]) + 1
      BY <1>d, <1>k
    <3>2. \A u \in Tasks : suspended[u] <= Len(sleeps[u]) + 1
      BY <1>a DEF SleepTypes
    <3> QED
      BY <1>b, <1>k, <3>1, <3>2, Zenon
  <2>2. woken' \in Seq(Wake)
    BY <1>b, <1>g, <1>h
  <2> QED
    BY <1>a, <1>b, <1>k, <2>1, <2>2 DEF SleepTypes
<1>2. SleepersQueued'
  <2>1. ASSUME NEW i \in 1 .. 3
        PROVE  suspended'[Task[i]] = 0 <=> i > started'
    <3>1. Task[i] \in Tasks /\ suspended[Task[i]] # 0
      BY <1>a, <1>j DEF SleepersQueued, Tasks
    <3>2. suspended'[Task[i]] # 0
      BY <1>d, <1>k, <3>1
    <3> QED
      BY <1>b, <1>j, <3>2
  <2>2. /\ \A u \in Tasks : Sleeping(u)' => \E f \in timers' : f.h = u
        /\ \A f \in timers' :
             /\ Sleeping(f.h)'
             /\ f.when = asked'[f.h] + sleeps[f.h][suspended'[f.h]]
        /\ \A f, g \in timers' : f.h = g.h => f = g
    BY <1>a, <1>b, <1>c, <1>d, <1>e, <1>f, QueuedAgain
  <2>3. ~ returned'
    BY <1>b, <1>j
  <2> QED
    BY <1>b, <2>1, <2>2, <2>3 DEF SleepersQueued
<1>3. \A f \in timers' : e.when <= f.when
  <2>1. \A f \in queue : e.when <= f.when
    BY <1>b DEF queue
  <2>2. ASSUME sleeps[t][suspended'[t]] \in Nat
        PROVE  e.when <= now + sleeps[t][suspended'[t]]
    BY <1>b, <1>c, <1>g, <2>2
  <2> QED
    BY <1>k, <2>1, <2>2
<1>4. /\ DOMAIN woken' = 1 .. Len(woken) + 1 /\ Len(woken) \in Nat
      /\ \A j \in DOMAIN woken : woken'[j] = woken[j] /\ j \in 1 .. Len(woken)
      /\ woken'[Len(woken) + 1] = end
      /\ \A j \in DOMAIN woken' : j \in DOMAIN woken \/ j = Len(woken) + 1
  BY <1>b, <1>g, <1>h, AppendProperties
<1>5. \A j \in DOMAIN woken : Due(woken[j]) <= e.when /\ Due(woken[j]) \in Nat
  <2> SUFFICES ASSUME NEW j \in DOMAIN woken
               PROVE  Due(woken[j]) <= e.when /\ Due(woken[j]) \in Nat
    OBVIOUS
  <2>1. woken[j] \in Wake /\ woken[j].sleep \in DOMAIN sleeps[woken[j].task]
    BY <1>a, <1>g, <1>4, ElementOfSeq DEF WokenBefore
  <2>2. /\ woken[j].task \in Tasks /\ woken[j].asked \in Nat
        /\ sleeps[woken[j].task] \in Seq(Nat)
    BY <1>a, <2>1 DEF Wake, SleepTypes
  <2>3. sleeps[woken[j].task][woken[j].sleep] \in Nat
    BY <2>1, <2>2
  <2>4. Due(woken[j]) \in Nat
    BY <2>2, <2>3 DEF Due
  <2> QED
    BY <1>a, <1>b, <2>4 DEF WokenBefore
<1>6. WokenBefore'
  <2>1. ASSUME NEW j \in DOMAIN woken'
        PROVE  /\ woken'[j].sleep \in DOMAIN sleeps'[woken'[j].task]
               /\ \A f \in timers' : Due(woken[j])' <= f.when
    <3>1. CASE j \in DOMAIN woken
      <4>1. woken'[j] = woken[j] /\ Due(woken[j])' = Due(woken[j])
        BY <1>b, <1>4, <3>1 DEF Due
      <4>2. \A f \in timers' : f.when \in Nat
        BY <1>k DEF Timer
      <4>3. \A f \in timers' : Due(woken[j]) <= f.when
        BY <1>c, <1>3, <1>5, <3>1, <4>2
      <4> QED
        BY <1>a, <1>b, <3>1, <4>1, <4>3 DEF WokenBefore
    <3>2. CASE j = Len(woken) + 1
      <4>1. woken'[j] = end /\ Due(woken[j])' = Due(end)
        BY <1>b, <1>4, <3>2 DEF Due
      <4> QED
        BY <1>b, <1>d, <1>i, <1>3, <4>1
    <3> QED
      BY <1>4, <3>1, <3>2
  <2> QED
    BY <1>b, <1>j, <2>1 DEF WokenBefore
<1>7. WokenInDueOrder'
  <2>1. ASSUME NEW j \in DOMAIN woken'
        PROVE  /\ woken'[j].at >= Due(woken[j])'
               /\ \A i \in 1 .. j - 1 : Due(woken[i])' <= Due(woken[j])'
    <3>1. \A i \in DOMAIN woken : Due(woken[i])' = Due(woken[i])
      BY <1>b, <1>4 DEF Due
    <3>2. CASE j \in DOMAIN woken
      <4>1. \A i \in 1 .. j - 1 : i \in DOMAIN woken
        BY <1>g, <1>4, <3>2
      <4> QED
        BY <1>a, <1>4, <3>1, <3>2, <4>1 DEF WokenInDueOrder
    <3>3. CASE j = Len(woken) + 1
      <4>1. woken'[j] = end /\ Due(woken[j])' = e.when
        BY <1>b, <1>i, <1>4, <3>3 DEF Due
      <4>2. \A i \in 1 .. j - 1 : i \in DOMAIN woken
        BY <1>g, <1>4, <3>3
      <4>3. \A i \in 1 .. j - 1 : Due(woken[i])' <= e.when
        BY <1>5, <3>1, <4>2
      <4>4. now >= e.when
        BY <1>b, <1>c, <1>g
      <4> QED
        BY <1>i, <4>1, <4>3, <4>4
    <3> QED
      BY <1>4, <3>2, <3>3
  <2> QED
    BY <2>1 DEF WokenInDueOrder
<1> QED
  BY <1>1, <1>2, <1>6, <1>7 DEF SleepInv

(* Time that passes, and main() that returns, change neither the queue nor  *)
(* what has been woken.                                                     *)
LEMMA QueueStays ==
    ASSUME SleepInv,
           UNCHANGED <<sleeps, suspended, started, timers, asked, woken>>,
           now' \in Nat, returned' \in BOOLEAN,
           returned' => timers = {} /\ started = 3
    PROVE  SleepInv'
<1>a. SleepTypes /\ SleepersQueued /\ WokenBefore /\ WokenInDueOrder
  BY DEF SleepInv
<1>1. SleepTypes'
  BY <1>a DEF SleepTypes
<1>2. SleepersQueued'
  BY <1>a DEF SleepersQueued, Sleeping
<1>3. WokenBefore' /\ WokenInDueOrder'
  BY <1>a DEF WokenBefore, WokenInDueOrder, Due
<1> QED
  BY <1>1, <1>2, <1>3 DEF SleepInv

LEMMA SleepInvStep ==
    ASSUME SleepInv, SleepNext \/ UNCHANGED sleepVars
    PROVE  SleepInv'
<1>a. /\ now \in Nat /\ returned \in BOOLEAN
      /\ returned => timers = {} /\ started = 3
  BY DEF SleepInv, SleepTypes, SleepersQueued
<1>1. CASE Start
  BY <1>1, StartStep
<1>2. CASE FireAny
  BY <1>2, FireStep DEF FireAny
<1>3. CASE SleepFor
  BY <1>3, <1>a, QueueStays DEF SleepFor
<1>4. CASE LoseTime
  BY <1>4, <1>a, QueueStays DEF LoseTime
<1>5. CASE Return
  BY <1>5, <1>a, QueueStays DEF Return, Running
<1>6. CASE UNCHANGED sleepVars
  BY <1>6, <1>a, QueueStays DEF sleepVars
<1> QED
  BY <1>1, <1>2, <1>3, <1>4, <1>5, <1>6 DEF SleepNext, SleepProgress

LEMMA SleepInvHolds == Spec => []SleepInv
<1>1. SleepInv /\ [Next]_eventVars => SleepInv'
  <2>1. [Next]_eventVars => SleepNext \/ UNCHANGED sleepVars
    BY DEF Next, RunCoroutine, RunSleep, RunTimer, RunEcho, Returned, eventVars
  <2> QED
    BY <2>1, SleepInvStep
<1> QED
  BY <1>1, SleepInvInit, PTL DEF Spec

(* Sleeps end neither early nor out of the order in which they are due,     *)
(* whatever the delays and however late the loop is.                        *)
THEOREM SleepsEndInOrder == Spec => []WokenInDueOrder
<1>1. SleepInv => WokenInDueOrder
  BY DEF SleepInv
<1> QED
  BY <1>1, SleepInvHolds, PTL

(* run() resumes only coroutines that are suspended in a sleep, and main()  *)
(* destroys only frames of coroutines that have finished.                   *)
LEMMA HandlesAreValid == SleepInv => HandlesValid
<1> SUFFICES ASSUME SleepInv PROVE HandlesValid
  OBVIOUS
<1>a. SleepTypes /\ SleepersQueued
  BY DEF SleepInv
<1>1. \A e, f \in timers : e.h = f.h => e = f
  BY <1>a DEF SleepersQueued
<1>2. ASSUME NEW e \in timers
      PROVE  suspended[e.h] > 0 /\ ~ Finished(e.h) /\ ~ returned
  <2>1. /\ e.h \in Tasks /\ suspended[e.h] \in 1 .. Len(sleeps[e.h])
        /\ Len(sleeps[e.h]) \in Nat
    BY <1>a, <1>2 DEF SleepersQueued, SleepTypes, Timer, Sleeping
  <2>2. ~ returned
    BY <1>a, <1>2 DEF SleepersQueued
  <2> QED
    BY <2>1, <2>2 DEF Finished
<1>3. ASSUME returned, NEW t \in Tasks PROVE Finished(t)
  <2>1. /\ timers = {} /\ started = 3
        /\ suspended[t] \in Nat /\ Len(sleeps[t]) \in Nat
    BY <1>a, <1>3 DEF SleepersQueued, SleepTypes
  <2>2. PICK i \in 1 .. 3 : t = Task[i]
    BY DEF Tasks
  <2>3. suspended[t] # 0
    BY <1>a, <2>1, <2>2 DEF SleepersQueued
  <2>4. ~ (suspended[t] \in 1 .. Len(sleeps[t]))
    BY <1>a, <2>1 DEF SleepersQueued, Sleeping
  <2> QED
    BY <2>1, <2>3, <2>4 DEF Finished
<1> QED
  BY <1>1, <1>2, <1>3 DEF HandlesValid
-----------------------------------------------------------------------------
(* The echo server of chapter_09/program_19 *)

Answers == Parts \cup {"Good bye!"}
Places == {"none", "connecting", "reading", "writing", "leaving", "ended"}
EchoTypes ==
    /\ session \in [Clients -> Places]
    /\ sent \in [Clients -> Seq(Parts)]
    /\ consumed \in [Clients -> Nat]
    /\ \A c \in Clients : consumed[c] <= Len(sent[c])
    /\ closed \in [Clients -> BOOLEAN]
    /\ received \in [Clients -> Seq(Answers)]
    /\ data \in [Clients -> Seq(Parts)]

(* How many parts have come back, and what has been read since.             *)
Echoed(c) == IF Farewell(c) THEN Len(received[c]) - 1 ELSE Len(received[c])
Unanswered(c) == SubSeq(sent[c], Echoed(c) + 1, consumed[c])

(* What came back is a prefix of what was sent.  A session that reads has   *)
(* answered everything, one that writes has the rest in its buffer, and     *)
(* only a QUIT is answered by the farewell, which ends the session.         *)
SessionInv(c) ==
    /\ Echoed(c) <= consumed[c]
    /\ \A i \in 1 .. Echoed(c) : received[c][i] = sent[c][i]
    /\ session[c] \in {"none", "connecting"} => consumed[c] = 0
    /\ session[c] = "reading" => Echoed(c) = consumed[c]
    /\ session[c] = "writing" => data[c] = Unanswered(c)
    /\ session[c] = "leaving" => Stripped(Unanswered(c)) = << "QU", "IT" >>
    /\ Farewell(c) => /\ session[c] = "ended"
                      /\ Stripped(Unanswered(c)) = << "QU", "IT" >>
    /\ session[c] = "ended" /\ consumed[c] > 0 => Farewell(c) \/ closed[c]

EchoInv == EchoTypes /\ \A c \in Clients : SessionInv(c)

LEMMA EchoInvInit == Init => EchoInv
<1> SUFFICES ASSUME Init PROVE EchoInv
  OBVIOUS
<1>a. EchoInit
  BY DEF Init
<1>1. /\ session = [c \in Clients |-> "none"]
      /\ sent = [c \in Clients |-> << >>] /\ data = [c \in Clients |-> << >>]
      /\ received = [c \in Clients |-> << >>]
      /\ consumed = [c \in Clients |-> 0]
      /\ closed = [c \in Clients |-> FALSE]
  BY <1>a DEF EchoInit
<1>2. EchoTypes
  <2>1. session \in [Clients -> Places] /\ closed \in [Clients -> BOOLEAN]
    BY <1>1 DEF Places
  <2>2. /\ sent \in [Clients -> Seq(Parts)] /\ data \in [Clients -> Seq(Parts)]
        /\ received \in [Clients -> Seq(Answers)]
    BY <1>1
  <2>3. /\ consumed \in [Clients -> Nat]
        /\ \A c \in Clients : consumed[c] <= Len(sent[c])
    BY <1>1
  <2> QED
    BY <2>1, <2>2, <2>3 DEF EchoTypes
<1>3. ASSUME NEW c \in Clients PROVE SessionInv(c)
  <2>1. ~ Farewell(c) /\ Echoed(c) = 0 /\ consumed[c] = 0 /\ session[c] = "none"
    BY <1>1 DEF Farewell, Echoed
  <2> QED
    BY <2>1 DEF SessionInv
<1> QED
  BY <1>2, <1>3 DEF EchoInv

LEMMA SessionTypes ==
    ASSUME EchoTypes, NEW c \in Clients
    PROVE  /\ session[c] \in Places /\ closed[c] \in BOOLEAN
           /\ sent[c] \in Seq(Parts) /\ Len(sent[c]) \in Nat
           /\ consumed[c] \in Nat /\ consumed[c] <= Len(sent[c])
           /\ received[c] \in Seq(Answers)
           /\ Len(received[c]) \in Nat
           /\ Echoed(c) \in Nat /\ Echoed(c) <= Len(received[c])
           /\ data[c] \in Seq(Parts)
<1>1. /\ session[c] \in Places /\ closed[c] \in BOOLEAN
      /\ sent[c] \in Seq(Parts) /\ consumed[c] \in Nat
      /\ consumed[c] <= Len(sent[c])
      /\ received[c] \in Seq(Answers)
      /\ data[c] \in Seq(Parts)
  BY DEF EchoTypes
<1>2. Len(sent[c]) \in Nat /\ Len(received[c]) \in Nat
  BY <1>1, LenProperties
<1>3. Farewell(c) => Len(received[c]) \in Nat \ {0}
  BY <1>1, EmptySeq DEF Farewell
<1>4. Echoed(c) \in Nat /\ Echoed(c) <= Len(received[c])
  BY <1>2, <1>3 DEF Echoed
<1> QED
  BY <1>1, <1>2, <1>4

(* A part that arrives changes nothing of what has been read.               *)
LEMMA SubSeqOfAppend ==
    ASSUME NEW S, NEW s \in Seq(S), NEW p \in S,
           NEW m \in Nat \ {0}, NEW n \in Nat, n <= Len(s)
    PROVE  SubSeq(Append(s, p), m, n) = SubSeq(s, m, n)
<1>1. /\ Append(s, p) \in Seq(S) /\ Len(Append(s, p)) = Len(s) + 1
      /\ \A i \in 1 .. Len(s) : Append(s, p)[i] = s[i]
  BY AppendProperties
<1>2. \A i \in m .. n : i \in 1 .. Len(s)
  OBVIOUS
<1>3. \A i \in m .. n : s[i] \in S /\ Append(s, p)[i] = s[i]
  BY <1>1, <1>2, ElementOfSeq
<1>4. /\ SubSeq(s, m, n) \in Seq(S) /\ SubSeq(Append(s, p), m, n) \in Seq(S)
      /\ Len(SubSeq(s, m, n)) = IF m <= n THEN n - m + 1 ELSE 0
      /\ Len(SubSeq(Append(s, p), m, n)) = IF m <= n THEN n - m + 1 ELSE 0
      /\ \A i \in 1 .. n - m + 1 :
           /\ SubSeq(s, m, n)[i] = s[m + i - 1]
           /\ SubSeq(Append(s, p), m, n)[i] = Append(s, p)[m + i - 1]
  BY <1>3, SubSeqProperties
<1>5. \A i \in 1 .. n - m + 1 : m + i - 1 \in m .. n
  OBVIOUS
<1>6. \A i \in 1 .. Len(SubSeq(s, m, n)) : i \in 1 .. n - m + 1
  BY <1>4
<1>7. \A i \in 1 .. Len(SubSeq(s, m, n)) :
          SubSeq(s, m, n)[i] = SubSeq(Append(s, p), m, n)[i]
  BY <1>3, <1>4, <1>5, <1>6
<1> QED
  BY <1>4, <1>7, SeqEqual

(* What a client has received of what was read of it, where none of the     *)
(* three changes.                                                           *)
LEMMA SessionKept ==
    ASSUME NEW c \in Clients, received'[c] = received[c],
           sent'[c] = sent[c], consumed'[c] = consumed[c]
    PROVE  /\ Farewell(c)' <=> Farewell(c)
           /\ Echoed(c)' = Echoed(c)
           /\ Unanswered(c)' = Unanswered(c)
<1>1. Farewell(c)' <=> Farewell(c)
  BY DEF Farewell
<1>2. Echoed(c)' = Echoed(c)
  BY <1>1 DEF Echoed
<1> QED
  BY <1>1, <1>2 DEF Unanswered

LEMMA SessionUntouched ==
    ASSUME NEW c \in Clients, SessionInv(c), received'[c] = received[c],
           sent'[c] = sent[c], consumed'[c] = consumed[c],
           session'[c] = session[c], data'[c] = data[c], closed'[c] = closed[c]
    PROVE  SessionInv(c)'
<1>1. /\ Farewell(c)' <=> Farewell(c)
      /\ Echoed(c)' = Echoed(c)
      /\ Unanswered(c)' = Unanswered(c)
  BY SessionKept
<1> QED
  BY <1>1 DEF SessionInv

(* The steps that move sessions or close, and read and write nothing.       *)
LEMMA SessionMoved ==
    ASSUME EchoInv, session' \in [Clients -> Places], closed' \in [Clients -> BOOLEAN],
           UNCHANGED <<sent, consumed, received, data>>,
           \A u \in Clients :
             /\ session'[u] \in {"none", "connecting"} => consumed[u] = 0
             /\ session'[u] = "reading" => Echoed(u) = consumed[u]
             /\ session'[u] = "writing" => session[u] = "writing"
             /\ session'[u] = "leaving" => session[u] = "leaving"
             /\ session[u] = "ended" => session'[u] = "ended"
             /\ session'[u] = "ended" /\ consumed[u] > 0 => Farewell(u) \/ closed'[u]
    PROVE  EchoInv'
<1>1. EchoTypes'
  BY DEF EchoInv, EchoTypes
<1>2. ASSUME NEW u \in Clients PROVE SessionInv(u)'
  <2>1. /\ Farewell(u)' <=> Farewell(u)
        /\ Echoed(u)' = Echoed(u)
        /\ Unanswered(u)' = Unanswered(u)
    BY SessionKept
  <2>2. SessionInv(u)
    BY DEF EchoInv
  <2> QED
    BY <2>1, <2>2 DEF SessionInv
<1> QED
  BY <1>1, <1>2 DEF EchoInv

LEMMA ConnectStep == ASSUME EchoInv, NEW c \in Clients, Connect(c) PROVE EchoInv'
<1>1. EchoTypes /\ \A u \in Clients : SessionInv(u)
  BY DEF EchoInv
<1>2. /\ session' = [session EXCEPT ![c] = "connecting"] /\ session[c] = "none"
      /\ UNCHANGED <<sent, consumed, closed, received, data>>
  BY DEF Connect, MoveTo
<1>3. session' \in [Clients -> Places] /\ closed' \in [Clients -> BOOLEAN]
  BY <1>1, <1>2 DEF EchoTypes, Places
<1>4. \A u \in Clients : session'[u] = IF u = c THEN "connecting" ELSE session[u]
  BY <1>1, <1>2 DEF EchoTypes
<1> QED
  BY <1>1, <1>2, <1>3, <1>4, SessionMoved DEF SessionInv

LEMMA AcceptStep == ASSUME EchoInv, NEW c \in Clients, Accept(c) PROVE EchoInv'
<1>1. EchoTypes /\ \A u \in Clients : SessionInv(u)
  BY DEF EchoInv
<1>2. /\ session' = [session EXCEPT ![c] = "reading"] /\ session[c] = "connecting"
      /\ UNCHANGED <<sent, consumed, closed, received, data>>
  BY DEF Accept, MoveTo
<1>3. session' \in [Clients -> Places] /\ closed' \in [Clients -> BOOLEAN]
  BY <1>1, <1>2 DEF EchoTypes, Places
<1>4. \A u \in Clients : session'[u] = IF u = c THEN "reading" ELSE session[u]
  BY <1>1, <1>2 DEF EchoTypes
<1>5. Echoed(c) = consumed[c]
  <2>1. Echoed(c) \in Nat
    BY <1>1, SessionTypes
  <2>2. Echoed(c) <= consumed[c] /\ consumed[c] = 0
    BY <1>1, <1>2 DEF SessionInv
  <2> QED
    BY <2>1, <2>2
<1> QED
  BY <1>1, <1>2, <1>3, <1>4, <1>5, SessionMoved DEF SessionInv

LEMMA CloseStep == ASSUME EchoInv, NEW c \in Clients, Close(c) PROVE EchoInv'
<1>1. EchoTypes /\ \A u \in Clients : SessionInv(u)
  BY DEF EchoInv
<1>2. /\ closed' = [closed EXCEPT ![c] = TRUE]
      /\ UNCHANGED <<session, sent, consumed, received, data>>
  BY DEF Close
<1>3. session' \in [Clients -> Places] /\ closed' \in [Clients -> BOOLEAN]
  BY <1>1, <1>2 DEF EchoTypes
<1>4. \A u \in Clients : closed[u] => closed'[u]
  BY <1>1, <1>2 DEF EchoTypes
<1> QED
  BY <1>1, <1>2, <1>3, <1>4, SessionMoved DEF SessionInv

(* The session ends by an exception, the client having closed.              *)
LEMMA SessionEnds ==
    ASSUME EchoInv, NEW c \in Clients, closed[c], MoveTo(c, "ended"),
           UNCHANGED <<sent, consumed, closed, received, data>>
    PROVE  EchoInv'
<1>1. EchoTypes /\ \A u \in Clients : SessionInv(u)
  BY DEF EchoInv
<1>2. session' \in [Clients -> Places] /\ closed' \in [Clients -> BOOLEAN]
  BY <1>1 DEF EchoTypes, Places, MoveTo
<1>3. \A u \in Clients : session'[u] = IF u = c THEN "ended" ELSE session[u]
  BY <1>1 DEF EchoTypes, MoveTo
<1> QED
  BY <1>1, <1>2, <1>3, SessionMoved DEF SessionInv

LEMMA ListenerFailsStep == ASSUME EchoInv, ListenerFails PROVE EchoInv'
<1>1. EchoTypes /\ \A u \in Clients : SessionInv(u)
  BY DEF EchoInv
<1>2. UNCHANGED <<sent, consumed, closed, received, data>>
  BY DEF ListenerFails
<1>3. \A u \in Clients :
        session'[u] = IF session[u] = "connecting" THEN "ended" ELSE session[u]
  BY DEF ListenerFails
<1>4. session' \in [Clients -> Places] /\ closed' \in [Clients -> BOOLEAN]
  BY <1>1, <1>2 DEF ListenerFails, EchoTypes, Places
<1>5. \A u \in Clients : session[u] = "connecting" => ~ (consumed[u] > 0)
  BY <1>1 DEF SessionInv
<1> QED
  BY <1>1, <1>2, <1>3, <1>4, <1>5, SessionMoved DEF SessionInv

(* More is sent: nothing changes of what has been read of it.               *)
LEMMA SendStep ==
    ASSUME EchoInv, NEW c \in Clients, NEW p \in Parts, Send(c, p)
    PROVE  EchoInv'
<1>1. EchoTypes /\ \A u \in Clients : SessionInv(u)
  BY DEF EchoInv
<1>2. /\ sent' = [sent EXCEPT ![c] = Append(@, p)]
      /\ UNCHANGED <<session, consumed, closed, received, data>>
  BY DEF Send
<1>3. /\ sent[c] \in Seq(Parts) /\ Len(sent[c]) \in Nat
      /\ consumed[c] \in Nat /\ consumed[c] <= Len(sent[c])
      /\ Echoed(c) \in Nat /\ Echoed(c) <= consumed[c]
  BY <1>1, SessionTypes DEF SessionInv
<1>4. /\ sent'[c] = Append(sent[c], p)
      /\ \A u \in Clients \ {c} : sent'[u] = sent[u]
  BY <1>1, <1>2 DEF EchoTypes
<1>5. /\ Append(sent[c], p) \in Seq(Parts)
      /\ Len(Append(sent[c], p)) = Len(sent[c]) + 1
      /\ \A i \in 1 .. Len(sent[c]) : Append(sent[c], p)[i] = sent[c][i]
  BY <1>3, AppendProperties
<1>6. EchoTypes'
  <2>1. sent' \in [Clients -> Seq(Parts)]
    BY <1>1, <1>2, <1>5 DEF EchoTypes
  <2>2. ASSUME NEW u \in Clients PROVE consumed[u] <= Len(sent'[u])
    <3>1. CASE u = c
      <4>1. Len(sent'[c]) = Len(sent[c]) + 1
        BY <1>4, <1>5
      <4> QED
        BY <1>3, <3>1, <4>1
    <3>2. CASE u # c
      BY <1>1, <1>4, <3>2 DEF EchoTypes
    <3> QED
      BY <3>1, <3>2
  <2> QED
    BY <1>1, <1>2, <2>1, <2>2 DEF EchoTypes
<1>7. SessionInv(c)'
  <2>1. Farewell(c)' <=> Farewell(c)
    BY <1>2 DEF Farewell
  <2>2. Echoed(c)' = Echoed(c)
    BY <1>2, <2>1 DEF Echoed
  <2>3. Unanswered(c)' = Unanswered(c)
    <3>1. Echoed(c) + 1 \in Nat \ {0}
      BY <1>3
    <3>2. SubSeq(Append(sent[c], p), Echoed(c) + 1, consumed[c])
            = SubSeq(sent[c], Echoed(c) + 1, consumed[c])
      BY <1>3, <3>1, SubSeqOfAppend
    <3> QED
      BY <1>2, <1>4, <2>2, <3>2 DEF Unanswered
  <2>4. \A i \in 1 .. Echoed(c) : sent'[c][i] = sent[c][i]
    BY <1>3, <1>4, <1>5
  <2> QED
    BY <1>1, <1>2, <2>1, <2>2, <2>3, <2>4 DEF SessionInv
<1>8. ASSUME NEW u \in Clients \ {c} PROVE SessionInv(u)'
  BY <1>1, <1>2, <1>4, SessionUntouched
<1> QED
  BY <1>6, <1>7, <1>8 DEF EchoInv

(* What is read goes to the session's own buffer, from where the client's   *)
(* echo ends.                                                               *)
LEMMA ReadStep == ASSUME EchoInv, NEW c \in Clients, Read(c) PROVE EchoInv'
<1>1. EchoTypes /\ \A u \in Clients : SessionInv(u)
  BY DEF EchoInv
<1>2. PICK k \in consumed[c] + 1 .. Len(sent[c]) :
        LET chunk == SubSeq(sent[c], consumed[c] + 1, k) IN
        /\ consumed' = [consumed EXCEPT ![c] = k]
        /\ data' = [data EXCEPT ![c] = chunk]
        /\ session' = [session EXCEPT ![c] =
             IF Stripped(chunk) = << "QU", "IT" >> THEN "leaving" ELSE "writing"]
  BY DEF Read, MoveTo, Buffer
<1> DEFINE chunk == SubSeq(sent[c], consumed[c] + 1, k)
           place == IF Stripped(chunk) = << "QU", "IT" >> THEN "leaving" ELSE "writing"
<1>3. UNCHANGED <<sent, closed, received>> /\ session[c] = "reading"
  BY DEF Read
<1>4. /\ sent[c] \in Seq(Parts) /\ Len(sent[c]) \in Nat
      /\ consumed[c] \in Nat
      /\ k \in Nat /\ consumed[c] < k /\ k <= Len(sent[c])
  <2>1. sent[c] \in Seq(Parts) /\ Len(sent[c]) \in Nat /\ consumed[c] \in Nat
    BY <1>1, SessionTypes
  <2> QED
    BY <2>1
<1>5. chunk \in Seq(Parts)
  <2>1. \A i \in consumed[c] + 1 .. k : sent[c][i] \in Parts
    <3>1. \A i \in consumed[c] + 1 .. k : i \in 1 .. Len(sent[c])
      BY <1>4
    <3> QED
      BY <1>4, <3>1, ElementOfSeq
  <2> QED
    BY <1>4, <2>1, SubSeqProperties
<1>6. /\ consumed'[c] = k /\ data'[c] = chunk /\ session'[c] = place
      /\ \A u \in Clients \ {c} : /\ consumed'[u] = consumed[u] /\ data'[u] = data[u]
                                  /\ session'[u] = session[u]
  BY <1>1, <1>2 DEF EchoTypes
<1>7. EchoTypes'
  <2>1. session' \in [Clients -> Places]
    BY <1>1, <1>2 DEF EchoTypes, Places
  <2>2. data' \in [Clients -> Seq(Parts)]
    BY <1>1, <1>2, <1>5 DEF EchoTypes
  <2>3. consumed' \in [Clients -> Nat]
    BY <1>1, <1>2, <1>4 DEF EchoTypes
  <2>4. ASSUME NEW u \in Clients PROVE consumed'[u] <= Len(sent'[u])
    BY <1>1, <1>3, <1>4, <1>6 DEF EchoTypes
  <2> QED
    BY <1>1, <1>3, <2>1, <2>2, <2>3, <2>4 DEF EchoTypes
<1>8. SessionInv(c)'
  <2>1. ~ Farewell(c) /\ Echoed(c) = consumed[c]
    BY <1>1, <1>3 DEF SessionInv
  <2>2. ~ Farewell(c)'
    BY <1>3, <2>1 DEF Farewell
  <2>3. Echoed(c)' = consumed[c]
    BY <1>3, <2>1, <2>2 DEF Echoed
  <2>4. Unanswered(c)' = chunk
    BY <1>3, <1>6, <2>3 DEF Unanswered
  <2>5. Echoed(c)' <= consumed'[c]
    BY <1>4, <1>6, <2>3
  <2>6. \A i \in 1 .. Echoed(c)' : received'[c][i] = sent'[c][i]
    BY <1>1, <1>3, <2>1, <2>3 DEF SessionInv
  <2>7. /\ session'[c] \in {"writing", "leaving"}
        /\ session'[c] = "leaving" => Stripped(chunk) = << "QU", "IT" >>
    BY <1>6
  <2> HIDE DEF chunk, place
  <2> QED
    BY <1>6, <2>2, <2>4, <2>5, <2>6, <2>7 DEF SessionInv
<1>9. ASSUME NEW u \in Clients \ {c} PROVE SessionInv(u)'
  BY <1>1, <1>3, <1>6, SessionUntouched
<1> QED
  BY <1>7, <1>8, <1>9 DEF EchoInv

(* A prefix followed by the next elements is a longer prefix.               *)
LEMMA PrefixGrows ==
    ASSUME NEW s \in Seq(Parts), NEW r \in Seq(Answers),
           NEW n \in Nat, Len(r) = n, NEW m \in Nat, n <= m, m <= Len(s),
           \A i \in 1 .. n : r[i] = s[i]
    PROVE  /\ r \o SubSeq(s, n + 1, m) \in Seq(Answers)
           /\ Len(r \o SubSeq(s, n + 1, m)) = m
           /\ \A i \in 1 .. m : (r \o SubSeq(s, n + 1, m))[i] = s[i]
<1> DEFINE rest == SubSeq(s, n + 1, m)
           all == r \o rest
           T == Answers
<1>l. PICK l \in Nat : Len(s) = l
  BY LenProperties
<1>1. \A i \in 1 .. l : s[i] \in T
  BY <1>l, ElementOfSeq DEF Answers
<1>r. r \in Seq(T)
  OBVIOUS
<1> HIDE DEF T
<1>2. /\ rest \in Seq(T)
      /\ Len(rest) = IF n + 1 <= m THEN m - (n + 1) + 1 ELSE 0
      /\ \A i \in 1 .. m - (n + 1) + 1 : rest[i] = s[n + 1 + i - 1]
  <2>1. \A i \in n + 1 .. m : s[i] \in T
    BY <1>l, <1>1
  <2> QED
    BY <2>1, SubSeqProperties
<1>3. Len(rest) = m - n
  BY <1>2
<1>4. ASSUME NEW i \in 1 .. m - n PROVE rest[i] = s[n + i]
  <2>1. i \in 1 .. m - (n + 1) + 1 /\ n + 1 + i - 1 = n + i
    OBVIOUS
  <2> QED
    BY <1>2, <2>1
<1> HIDE DEF rest
<1>5. /\ all \in Seq(T)
      /\ Len(all) = n + Len(rest)
      /\ \A i \in 1 .. n + Len(rest) : all[i] = IF i <= n THEN r[i] ELSE rest[i - n]
  BY <1>r, <1>2, ConcatProperties
<1>6. n + Len(rest) = m
  BY <1>3
<1> HIDE DEF all
<1>7. \A i \in 1 .. m : all[i] = IF i <= n THEN r[i] ELSE rest[i - n]
  BY <1>5, <1>6
<1>8. ASSUME NEW i \in 1 .. m PROVE all[i] = s[i]
  <2>1. CASE i <= n
    BY <1>7, <2>1
  <2>2. CASE ~ (i <= n)
    <3>1. i - n \in 1 .. m - n /\ n + (i - n) = i
      BY <2>2
    <3>2. all[i] = rest[i - n] /\ rest[i - n] = s[n + (i - n)]
      BY <1>4, <1>7, <2>2, <3>1
    <3> QED
      BY <3>1, <3>2
  <2> QED
    BY <2>1, <2>2
<1>9. all \in Seq(T) /\ Len(all) = m
  BY <1>5, <1>6
<1> QED
  BY <1>8, <1>9 DEF all, rest, T

(* The answer is the rest of what was read.                                 *)
LEMMA WrittenBackStep ==
    ASSUME EchoInv, NEW c \in Clients, session[c] = "writing",
           received' = [received EXCEPT ![c] = @ \o data[c]],
           session' = [session EXCEPT ![c] = "reading"],
           UNCHANGED <<sent, consumed, closed, data>>
    PROVE  EchoInv'
<1>1. EchoTypes /\ \A u \in Clients : SessionInv(u)
  BY DEF EchoInv
<1>2. /\ sent[c] \in Seq(Parts) /\ Len(sent[c]) \in Nat
      /\ consumed[c] \in Nat /\ consumed[c] <= Len(sent[c])
      /\ received[c] \in Seq(Answers) /\ Len(received[c]) \in Nat
  BY <1>1, SessionTypes
<1>3. /\ Echoed(c) <= consumed[c]
      /\ \A i \in 1 .. Echoed(c) : received[c][i] = sent[c][i]
      /\ data[c] = Unanswered(c) /\ ~ Farewell(c)
  BY <1>1 DEF SessionInv
<1>4. Echoed(c) = Len(received[c])
  BY <1>3 DEF Echoed
<1> DEFINE rest == SubSeq(sent[c], Echoed(c) + 1, consumed[c])
           all == received[c] \o rest
<1>5. Echoed(c) \in Nat
  BY <1>1, SessionTypes
<1>6. data[c] = rest
  BY <1>3 DEF Unanswered
<1>7. \A i \in 1 .. Len(sent[c]) : sent[c][i] \in Parts
  BY <1>2, ElementOfSeq
<1>9. /\ all \in Seq(Answers)
      /\ Len(all) = consumed[c]
      /\ \A i \in 1 .. consumed[c] : all[i] = sent[c][i]
  <2>1. received[c] \in Seq(Answers) /\ Len(received[c]) = Echoed(c)
    BY <1>2, <1>4 DEF Answers
  <2>2. /\ all \in Seq(Answers) /\ Len(all) = consumed[c]
        /\ \A i \in 1 .. consumed[c] : all[i] = sent[c][i]
    <3>1. PICK m \in Nat, n \in Nat : m = consumed[c] /\ n = Echoed(c)
      BY <1>2, <1>5
    <3>2. PICK r \in Seq(Answers), s \in Seq(Parts) : r = received[c] /\ s = sent[c]
      BY <1>2, <2>1
    <3>3. n <= m /\ m <= Len(s) /\ Len(r) = n /\ \A i \in 1 .. n : r[i] = s[i]
      BY <1>2, <1>3, <2>1, <3>1, <3>2
    <3>4. /\ r \o SubSeq(s, n + 1, m) \in Seq(Answers)
          /\ Len(r \o SubSeq(s, n + 1, m)) = m
          /\ \A i \in 1 .. m : (r \o SubSeq(s, n + 1, m))[i] = s[i]
      BY <3>3, PrefixGrows
    <3>5. all = r \o SubSeq(s, n + 1, m)
      BY <3>1, <3>2
    <3> HIDE DEF all
    <3> QED
      BY <3>1, <3>2, <3>4, <3>5
  <2> QED
    BY <2>2
<1>10. /\ received'[c] = all
       /\ session'[c] = "reading"
       /\ \A u \in Clients \ {c} : received'[u] = received[u] /\ session'[u] = session[u]
  BY <1>1, <1>6 DEF EchoTypes
<1> HIDE DEF all, rest
<1>11. EchoTypes'
  <2>1. session' \in [Clients -> Places]
    BY <1>1 DEF EchoTypes, Places
  <2>2. received' \in [Clients -> Seq(Answers)]
    <3>1. received' = [received EXCEPT ![c] = all]
      BY <1>6 DEF all
    <3> QED
      BY <1>1, <1>9, <3>1 DEF EchoTypes
  <2> QED
    BY <1>1, <2>1, <2>2 DEF EchoTypes
<1>12. SessionInv(c)'
  <2>1. ~ Farewell(c)'
    <3>1. ASSUME all # << >> PROVE all[Len(all)] # "Good bye!"
      <4>1. Len(all) \in Nat \ {0}
        BY <1>9, <3>1, EmptySeq
      <4>2. consumed[c] \in 1 .. consumed[c] /\ consumed[c] \in 1 .. Len(sent[c])
        <5>1. consumed[c] \in Nat \ {0}
          BY <1>9, <4>1
        <5>2. /\ consumed[c] <= Len(sent[c]) /\ Len(sent[c]) \in Nat
          BY <1>2
        <5> QED
          BY <5>1, <5>2
      <4>3. all[Len(all)] \in Parts
        BY <1>7, <1>9, <4>2
      <4> QED
        BY <4>3 DEF Parts
    <3> QED
      BY <1>10, <3>1 DEF Farewell
  <2>2. Echoed(c)' = consumed[c]
    BY <1>9, <1>10, <2>1 DEF Echoed
  <2>3. Echoed(c)' <= consumed'[c]
    <3>1. consumed'[c] = consumed[c]
      OBVIOUS
    <3>2. consumed[c] <= consumed[c]
      BY <1>2
    <3> QED
      BY <2>2, <3>1, <3>2
  <2>4. \A i \in 1 .. Echoed(c)' : received'[c][i] = sent'[c][i]
    BY <1>9, <1>10, <2>2
  <2> QED
    BY <1>10, <2>1, <2>2, <2>3, <2>4 DEF SessionInv
<1>13. ASSUME NEW u \in Clients \ {c} PROVE SessionInv(u)'
  BY <1>1, <1>10, SessionUntouched
<1> QED
  BY <1>11, <1>12, <1>13 DEF EchoInv

LEMMA OneMore ==
    ASSUME NEW S, NEW r \in Seq(S), NEW e \in S
    PROVE  /\ Append(r, e) \in Seq(S) /\ Append(r, e) # << >>
           /\ Len(Append(r, e)) = Len(r) + 1 /\ Len(Append(r, e)) - 1 = Len(r)
           /\ \A i \in 1 .. Len(r) : Append(r, e)[i] = r[i]
           /\ Append(r, e)[Len(r) + 1] = e
<1>1. \A n \in Nat : (n + 1) - 1 = n
  OBVIOUS
<1> QED
  BY <1>1, AppendProperties, LenProperties

(* QUIT is answered by the farewell, after everything that came before it.  *)
LEMMA FarewellStep ==
    ASSUME EchoInv, NEW c \in Clients, session[c] = "leaving",
           received' = [received EXCEPT ![c] = Append(@, "Good bye!")],
           session' = [session EXCEPT ![c] = "ended"],
           UNCHANGED <<sent, consumed, closed, data>>
    PROVE  EchoInv'
<1>1. EchoTypes /\ \A u \in Clients : SessionInv(u)
  BY DEF EchoInv
<1>2. received[c] \in Seq(Answers) /\ Len(received[c]) \in Nat
  BY <1>1, SessionTypes
<1>3. /\ Echoed(c) <= consumed[c]
      /\ \A i \in 1 .. Echoed(c) : received[c][i] = sent[c][i]
      /\ Stripped(Unanswered(c)) = << "QU", "IT" >> /\ ~ Farewell(c)
  BY <1>1 DEF SessionInv
<1>4. Echoed(c) = Len(received[c])
  BY <1>3 DEF Echoed
<1> DEFINE all == Append(received[c], "Good bye!")
<1>5. /\ all \in Seq(Answers)
      /\ Len(all) = Len(received[c]) + 1 /\ Len(all) - 1 = Len(received[c])
      /\ \A i \in 1 .. Len(received[c]) : all[i] = received[c][i]
      /\ all[Len(received[c]) + 1] = "Good bye!"
      /\ all # << >>
  <2>1. "Good bye!" \in Answers
    BY DEF Answers
  <2> QED
    <3>1. PICK r \in Seq(Answers), e \in Answers : r = received[c] /\ e = "Good bye!"
      BY <1>2, <2>1
    <3>2. /\ Append(r, e) \in Seq(Answers) /\ Append(r, e) # << >>
          /\ Len(Append(r, e)) = Len(r) + 1 /\ Len(Append(r, e)) - 1 = Len(r)
          /\ \A i \in 1 .. Len(r) : Append(r, e)[i] = r[i]
          /\ Append(r, e)[Len(r) + 1] = e
      BY OneMore
    <3>3. all = Append(r, e)
      BY <3>1
    <3> HIDE DEF all
    <3> QED
      BY <3>1, <3>2, <3>3
<1>6. /\ received'[c] = all
      /\ session'[c] = "ended"
      /\ \A u \in Clients \ {c} : received'[u] = received[u] /\ session'[u] = session[u]
  BY <1>1 DEF EchoTypes
<1>7. EchoTypes'
  <2>1. session' \in [Clients -> Places]
    BY <1>1 DEF EchoTypes, Places
  <2>2. received' \in [Clients -> Seq(Answers)]
    BY <1>1, <1>5 DEF EchoTypes
  <2> QED
    BY <1>1, <2>1, <2>2 DEF EchoTypes
<1> HIDE DEF all
<1>8. SessionInv(c)'
  <2>1. Farewell(c)'
    BY <1>5, <1>6 DEF Farewell
  <2>2. Echoed(c)' = Echoed(c)
    BY <1>4, <1>5, <1>6, <2>1 DEF Echoed
  <2>3. Unanswered(c)' = Unanswered(c)
    BY <2>2 DEF Unanswered
  <2>4. \A i \in 1 .. Echoed(c) : received'[c][i] = sent[c][i]
    BY <1>3, <1>4, <1>5, <1>6
  <2> QED
    BY <1>3, <1>6, <2>1, <2>2, <2>3, <2>4 DEF SessionInv
<1>9. ASSUME NEW u \in Clients \ {c} PROVE SessionInv(u)'
  BY <1>1, <1>6, SessionUntouched
<1> QED
  BY <1>7, <1>8, <1>9 DEF EchoInv

(* Sequences that agree up to n have the same prefix of that length.        *)
LEMMA EqualPrefixes ==
    ASSUME NEW S, NEW T, NEW r \in Seq(S), NEW s \in Seq(T), NEW n \in Nat,
           n <= Len(r), n <= Len(s), \A i \in 1 .. n : r[i] = s[i]
    PROVE  SubSeq(r, 1, n) = SubSeq(s, 1, n)
<1>1. PICK l \in Nat, m \in Nat : Len(r) = l /\ Len(s) = m
  BY LenProperties
<1>2. \A i \in 1 .. n : r[i] \in S /\ s[i] \in T
  <2>1. \A i \in 1 .. n : i \in 1 .. l /\ i \in 1 .. m
    BY <1>1
  <2> QED
    BY <1>1, <2>1, ElementOfSeq
<1>3. /\ SubSeq(r, 1, n) \in Seq(S) /\ SubSeq(s, 1, n) \in Seq(T)
      /\ Len(SubSeq(r, 1, n)) = IF 1 <= n THEN n - 1 + 1 ELSE 0
      /\ Len(SubSeq(s, 1, n)) = IF 1 <= n THEN n - 1 + 1 ELSE 0
      /\ \A i \in 1 .. n - 1 + 1 : SubSeq(r, 1, n)[i] = r[1 + i - 1]
                                 /\ SubSeq(s, 1, n)[i] = s[1 + i - 1]
  BY <1>2, SubSeqProperties
<1>4. Len(SubSeq(r, 1, n)) = n /\ Len(SubSeq(s, 1, n)) = n
  BY <1>3
<1>5. ASSUME NEW i \in 1 .. n PROVE SubSeq(r, 1, n)[i] = SubSeq(s, 1, n)[i]
  <2>1. i \in 1 .. n - 1 + 1 /\ 1 + i - 1 = i
    OBVIOUS
  <2> QED
    BY <1>3, <2>1
<1> QED
  BY <1>3, <1>4, <1>5, SeqEqual

LEMMA WrittenStep == ASSUME EchoInv, NEW c \in Clients, Written(c) PROVE EchoInv'
<1>1. CASE session[c] = "writing"
  <2>1. /\ received' = [received EXCEPT ![c] = @ \o data[c]]
        /\ session' = [session EXCEPT ![c] = "reading"]
        /\ UNCHANGED <<sent, consumed, closed, data>>
    BY <1>1 DEF Written, MoveTo, Buffer
  <2> QED
    BY <1>1, <2>1, WrittenBackStep
<1>2. CASE session[c] = "leaving"
  <2>1. /\ received' = [received EXCEPT ![c] = Append(@, "Good bye!")]
        /\ session' = [session EXCEPT ![c] = "ended"]
        /\ UNCHANGED <<sent, consumed, closed, data>>
    BY <1>2 DEF Written, MoveTo
  <2> QED
    BY <1>2, <2>1, FarewellStep
<1> QED
  BY <1>1, <1>2 DEF Written

LEMMA EchoInvStep == ASSUME EchoInv, EchoNext \/ UNCHANGED echoVars PROVE EchoInv'
<1>1. ASSUME NEW c \in Clients, Connect(c) PROVE EchoInv'
  BY <1>1, ConnectStep
<1>2. ASSUME NEW c \in Clients, Close(c) PROVE EchoInv'
  BY <1>2, CloseStep
<1>3. ASSUME NEW c \in Clients, NEW p \in Parts, Send(c, p) PROVE EchoInv'
  BY <1>3, SendStep
<1>4. ASSUME NEW c \in Clients, Accept(c) PROVE EchoInv'
  BY <1>4, AcceptStep
<1>5. ASSUME NEW c \in Clients, Read(c) PROVE EchoInv'
  BY <1>5, ReadStep
<1>6. ASSUME NEW c \in Clients, ReadEnd(c) \/ WriteFails(c) PROVE EchoInv'
  <2>1. /\ closed[c] /\ MoveTo(c, "ended")
        /\ UNCHANGED <<sent, consumed, closed, received, data>>
    BY <1>6 DEF ReadEnd, WriteFails
  <2> QED
    BY <2>1, SessionEnds
<1>7. ASSUME NEW c \in Clients, Written(c) PROVE EchoInv'
  BY <1>7, WrittenStep
<1>8. ASSUME ListenerFails PROVE EchoInv'
  BY <1>8, ListenerFailsStep
<1>9. ASSUME ServingEnds \/ UNCHANGED echoVars PROVE EchoInv'
  <2>1. /\ session' = session /\ closed' = closed
        /\ UNCHANGED <<sent, consumed, received, data>>
    BY <1>9 DEF ServingEnds, echoVars
  <2>2. session \in [Clients -> Places] /\ closed \in [Clients -> BOOLEAN]
    BY DEF EchoInv, EchoTypes
  <2> QED
    BY <2>1, <2>2, SessionMoved DEF EchoInv, SessionInv
<1> QED
  BY <1>1, <1>2, <1>3, <1>4, <1>5, <1>6, <1>7, <1>8, <1>9 DEF EchoNext, Serve

LEMMA EchoInvHolds == Spec => []EchoInv
<1>1. EchoInv /\ [Next]_eventVars => EchoInv'
  <2>1. [Next]_eventVars => EchoNext \/ UNCHANGED echoVars
    BY DEF Next, RunCoroutine, RunSleep, RunTimer, RunEcho, Returned, eventVars
  <2> QED
    BY <2>1, EchoInvStep
<1> QED
  BY <1>1, EchoInvInit, PTL DEF Spec

(* Each client of the echo server, however many there are and however what  *)
(* they send is cut into pieces, receives what it has sent and no other's,  *)
(* and a farewell only after its QUIT.                                      *)
THEOREM ClientsGetEchoes == Spec => []EchoesInOrder
<1>1. EchoInv => EchoesInOrder
  <2> SUFFICES ASSUME EchoInv, NEW c \in Clients
               PROVE  /\ Echoed(c) <= consumed[c]
                      /\ SubSeq(received[c], 1, Echoed(c)) = SubSeq(sent[c], 1, Echoed(c))
                      /\ session[c] = "reading" => Echoed(c) = consumed[c]
                      /\ Farewell(c) => Stripped(Unanswered(c)) = << "QU", "IT" >>
                      /\ session[c] = "ended" /\ consumed[c] > 0 => Farewell(c) \/ closed[c]
    BY DEF EchoesInOrder, Echoed, Unanswered
  <2>1. EchoTypes /\ SessionInv(c)
    BY DEF EchoInv
  <2>2. SubSeq(received[c], 1, Echoed(c)) = SubSeq(sent[c], 1, Echoed(c))
    <3>1. /\ sent[c] \in Seq(Parts) /\ Len(sent[c]) \in Nat
          /\ consumed[c] \in Nat /\ consumed[c] <= Len(sent[c])
          /\ received[c] \in Seq(Answers) /\ Len(received[c]) \in Nat
          /\ Echoed(c) \in Nat /\ Echoed(c) <= Len(received[c])
      BY <2>1, SessionTypes
    <3>2. /\ Echoed(c) <= consumed[c]
          /\ \A i \in 1 .. Echoed(c) : received[c][i] = sent[c][i]
      BY <2>1 DEF SessionInv
    <3>3. PICK n \in Nat : n = Echoed(c)
      BY <3>1
    <3>4. PICK r \in Seq(Answers), s \in Seq(Parts) : r = received[c] /\ s = sent[c]
      BY <3>1
    <3>5. n <= Len(r) /\ n <= Len(s) /\ \A i \in 1 .. n : r[i] = s[i]
      BY <3>1, <3>2, <3>3, <3>4
    <3>6. SubSeq(r, 1, n) = SubSeq(s, 1, n)
      BY <3>5, EqualPrefixes
    <3> QED
      BY <3>3, <3>4, <3>6
  <2> QED
    BY <2>1, <2>2 DEF SessionInv
<1> QED
  BY <1>1, EchoInvHolds, PTL
-----------------------------------------------------------------------------
(* The coroutines of chapter 8 behind put(), get(), next() and value()      *)

Points == {"initial", "first", "more", "yield", "final", "destroyed", "undefined", "aborted"}
Strings == {"", "Hello", "put", "get", "next", "value", "-", "+", "1", "2", "x", "y", "#"}
Frames == [at: Points, input: Strings, output: Int \cup Strings, sign: Int,
           number: Int, a: Int, b: Int, left: Int]
Calls == [op: Strings, argument: Strings, result: Int \cup Strings \cup BOOLEAN]

LEMMA Characters ==
    /\ \A c : isdigit(c) => digit(c) \in Int
    /\ isdigit("1") /\ isdigit("2")
    /\ ~ isdigit("-") /\ ~ isdigit("+") /\ ~ isdigit("x") /\ ~ isdigit("#")
<1>1. ASSUME NEW c, isdigit(c) PROVE digit(c) \in Int
  <2>1. (CHOOSE d \in 1 .. 10 : Digits[d] = c) \in 1 .. 10
    BY <1>1 DEF isdigit
  <2>2. \A d \in 1 .. 10 : d - 1 \in Int
    OBVIOUS
  <2> QED
    BY <2>1, <2>2, Zenon DEF digit
<1>2. Digits[2] = "1" /\ Digits[3] = "2"
  BY DEF Digits
<1>3. isdigit("1") /\ isdigit("2")
  BY <1>2 DEF isdigit
<1>4. \A d \in 1 .. 10 : Digits[d] \in {"0", "1", "2", "3", "4", "5", "6", "7", "8", "9"}
  BY DEF Digits
<1>5. ~ isdigit("-") /\ ~ isdigit("+") /\ ~ isdigit("x") /\ ~ isdigit("#")
  BY <1>4 DEF isdigit
<1> QED
  BY <1>1, <1>3, <1>5

LEMMA FrameFields ==
    ASSUME NEW f \in Frames
    PROVE  /\ f.at \in Points /\ f.input \in Strings /\ f.output \in Int \cup Strings
           /\ f.sign \in Int /\ f.number \in Int /\ f.a \in Int /\ f.b \in Int
           /\ f.left \in Int
BY DEF Frames

LEMMA SuspendTypes ==
    ASSUME NEW f \in Frames, NEW p \in Points
    PROVE  Suspend(f, p) \in Frames /\ Suspend(f, p).at = p /\ Suspend(f, p).input = f.input
BY DEF Suspend, Frames

LEMMA YieldTypes ==
    ASSUME NEW f \in Frames, NEW v \in Int \cup Strings
    PROVE  Yield(f, v) \in Frames /\ Yield(f, v).at = "yield" /\ Yield(f, v).input = f.input
BY DEF Yield, Frames, Points

LEMMA FibonacciTypes ==
    ASSUME NEW f \in Frames, NEW c \in Int
    PROVE  ResumeFibonacci(f, c) \in Frames /\ ResumeFibonacci(f, c).at = "yield"
<1>1. Yield(f, f.a) \in Frames /\ Yield(f, f.a).at = "yield"
  BY FrameFields, YieldTypes
<1>2. Yield(f, f.b) \in Frames /\ Yield(f, f.b).at = "yield" /\ f.b \in Int
  BY FrameFields, YieldTypes
<1>3. \A g \in Frames : \A x, y \in Int :
        /\ [g EXCEPT !.a = x, !.b = y] \in Frames
        /\ [g EXCEPT !.a = x, !.b = y].at = g.at
  BY DEF Frames
<1> QED
  BY <1>1, <1>2, <1>3 DEF ResumeFibonacci

(* A coroutine of another program than the parser, started and unfinished,  *)
(* goes on to a value or to its end.                                        *)
LEMMA ResumeTypes ==
    ASSUME NEW r \in AllBodies \ {"parse_string"}, NEW f \in Frames,
           f.at \in {"initial", "yield"}
    PROVE  Resume(r, f) \in Frames /\ Resume(r, f).at \in {"yield", "final"}
<1> DEFINE Good(g) == g \in Frames /\ g.at \in {"yield", "final"}
<1>1. /\ f.a \in Int /\ f.b \in Int /\ f.number \in Int /\ f.left \in Int
      /\ f.a + f.b \in Int /\ (f.a + f.b) % MODULUS \in Int
      /\ f.left - 1 \in Int /\ f.number + 1 \in Int
  BY FrameFields, CoroutinesAssumption
<1>2. \A g \in Frames : Good(ReturnVoid(g))
  BY SuspendTypes DEF ReturnVoid, Points
<1>3. \A g \in Frames : \A x \in Int :
        /\ [g EXCEPT !.left = x] \in Frames /\ [g EXCEPT !.left = x].at = g.at
        /\ [g EXCEPT !.number = x] \in Frames /\ [g EXCEPT !.number = x].at = g.at
  BY DEF Frames
<1>4. \A c \in Int : Good(ResumeFibonacci(f, c))
  BY FibonacciTypes
<1>5. Good(ResumeLimited(f))
  <2>1. CASE f.left = 0
    BY <1>2, <2>1 DEF ResumeLimited
  <2>2. CASE f.left # 0
    <3>1. PICK g \in Frames : g = ResumeFibonacci(f, f.a + f.b) /\ g.at \in {"yield", "final"}
      BY <1>1, <1>4
    <3>2. PICK x \in Int : x = f.left - 1
      BY <1>1
    <3>3. ResumeLimited(f) = [g EXCEPT !.left = x]
      BY <2>2, <3>1, <3>2 DEF ResumeLimited
    <3>4. [g EXCEPT !.left = x] \in Frames /\ [g EXCEPT !.left = x].at = g.at
      BY <1>3
    <3> QED
      BY <3>1, <3>3, <3>4
  <2> QED
    BY <2>1, <2>2
<1>6. Good(ResumeNumbers(f))
  <2>1. Good(Yield(f, f.number))
    BY <1>1, YieldTypes
  <2> QED
    BY <1>1, <1>2, <1>3, <2>1 DEF ResumeNumbers
<1>7. Good(ResumeHello(f))
  <2>1. Good(Yield(f, "Hello"))
    <3>1. "Hello" \in Int \cup Strings
      BY DEF Strings
    <3> QED
      BY <3>1, YieldTypes
  <2> QED
    BY <1>2, <2>1 DEF ResumeHello
<1>8. Good(ResumeEcho(f))
  <2>1. [f EXCEPT !.input = nullopt] \in Frames
    <3>1. nullopt \in Strings
      BY DEF nullopt, Strings
    <3> QED
      BY <3>1 DEF Frames
  <2> QED
    BY <1>2, <2>1 DEF ResumeEcho
<1> HIDE DEF Good
<1>9. Good(Resume(r, f))
  BY <1>1, <1>2, <1>4, <1>5, <1>6, <1>7, <1>8 DEF Resume, AllBodies
<1> QED
  BY <1>9 DEF Good

(* The parser takes a character: it is met by a co_await that waits for it. *)
LEMMA ParserTakes ==
    ASSUME NEW f \in Frames, NEW c \in {"-", "+", "1", "2", "x", "#"}, f.input = c,
           \/ f.at \in {"initial", "first"} /\ c # "#"
           \/ f.at = "more" /\ c \in {"1", "2", "#"}
    PROVE  LET g == Resume("parse_string", f) IN
           /\ g \in Frames /\ g.input = nullopt
           /\ c = "x" => g.at = "first"
           /\ c = "#" => g.at = "yield"
           /\ c \notin {"x", "#"} => g.at = "more"
<1> DEFINE g == [f EXCEPT !.input = nullopt]
<1>1. c # nullopt
  BY DEF nullopt
<1>2. Resume("parse_string", f) = ResumeParser(f)
  BY DEF Resume
<1>3. nullopt \in Strings
  BY DEF nullopt, Strings
<1>4. g \in Frames /\ g.at = f.at /\ g.input = nullopt
  BY <1>3 DEF Frames
<1>5. \A h \in Frames : \A x, y \in Int :
        LET m == [h EXCEPT !.at = "more", !.sign = x, !.number = y] IN
        m \in Frames /\ m.at = "more" /\ m.input = h.input
  BY DEF Frames, Points
<1>6. CASE f.at \in {"initial", "first"} /\ c # "#"
  <2>1. ResumeParser(f) = FirstCharacter(f, c)
    BY <1>1, <1>6 DEF ResumeParser
  <2>2. CASE c = "x"
    <3>1. FirstCharacter(f, c) = Suspend(g, "first")
      BY <2>2, Characters DEF FirstCharacter
    <3>2. Suspend(g, "first") \in Frames /\ Suspend(g, "first").at = "first"
          /\ Suspend(g, "first").input = nullopt
      BY <1>4, SuspendTypes DEF Points
    <3> QED
      BY <1>2, <2>1, <2>2, <3>1, <3>2
  <2>3. CASE c # "x"
    <3>1. PICK x \in Int : x = IF c = "-" THEN -1 ELSE 1
      OBVIOUS
    <3>2. PICK y \in Int : y = IF isdigit(c) THEN digit(c) ELSE 0
      BY Characters
    <3>3. c \in {"-", "+"} \/ isdigit(c)
      BY <1>6, <2>3, Characters
    <3>4. FirstCharacter(f, c) = [g EXCEPT !.at = "more", !.sign = x, !.number = y]
      BY <3>1, <3>2, <3>3 DEF FirstCharacter
    <3> HIDE DEF g
    <3>5. LET m == [g EXCEPT !.at = "more", !.sign = x, !.number = y] IN
          m \in Frames /\ m.at = "more" /\ m.input = g.input
      BY <1>4, <1>5
    <3> QED
      BY <1>2, <1>4, <1>6, <2>1, <2>3, <3>4, <3>5
  <2> QED
    BY <2>2, <2>3
<1>7. CASE f.at = "more" /\ c \in {"1", "2", "#"}
  <2>1. ResumeParser(f) = NextCharacter(f, c)
    BY <1>1, <1>7 DEF ResumeParser
  <2>2. g.number \in Int /\ g.sign \in Int
    BY <1>4, FrameFields
  <2>3. CASE c = "#"
    <3>1. NextCharacter(f, c) = Yield(g, g.number * g.sign)
      BY <2>3, Characters DEF NextCharacter
    <3>2. g.number * g.sign \in Int \cup Strings
      BY <2>2
    <3>3. /\ Yield(g, g.number * g.sign) \in Frames
          /\ Yield(g, g.number * g.sign).at = "yield"
          /\ Yield(g, g.number * g.sign).input = nullopt
      BY <1>4, <3>2, YieldTypes
    <3> QED
      BY <1>2, <2>1, <2>3, <3>1, <3>3
  <2>4. CASE c \in {"1", "2"}
    <3>1. isdigit(c) /\ digit(c) \in Int
      BY <2>4, Characters
    <3>2. PICK y \in Int : y = 10 * g.number + digit(c)
      BY <2>2, <3>1
    <3>3. NextCharacter(f, c) = [g EXCEPT !.number = y]
      BY <3>1, <3>2 DEF NextCharacter
    <3>4. /\ [g EXCEPT !.number = y] \in Frames /\ [g EXCEPT !.number = y].at = g.at
          /\ [g EXCEPT !.number = y].input = g.input
      BY <1>4 DEF Frames
    <3> QED
      BY <1>2, <1>4, <1>7, <2>1, <2>4, <3>3, <3>4
  <2> QED
    BY <1>7, <2>3, <2>4
<1> QED
  BY <1>6, <1>7

(* What was put since the last get(), by its indices.                       *)
LastGet(s, g) ==
    /\ g \in 0 .. Len(s)
    /\ \A i \in 1 .. Len(s) : s[i].op = "get" => i <= g
    /\ g # 0 => s[g].op = "get"

LEMMA PieceSinceGet ==
    ASSUME NEW s \in Seq(Calls), NEW g, LastGet(s, g)
    PROVE  /\ Piece(s) = SubSeq(s, g + 1, Len(s)) /\ Piece(s) \in Seq(Calls)
           /\ Ended(Piece(s)) <=> g < Len(s) /\ s[Len(s)].argument = "#"
           /\ Started(Piece(s)) <=> \E i \in g + 1 .. Len(s) : s[i].argument # "x"
<1> DEFINE gets == {i \in DOMAIN s : s[i].op = "get"}
<1>1. PICK l \in Nat : Len(s) = l /\ DOMAIN s = 1 .. l
  BY LenProperties
<1>2. g \in Nat /\ g <= l
  BY <1>1 DEF LastGet
<1>3. (IF gets = {} THEN 1 ELSE MaxOf(gets) + 1) = g + 1
  <2>1. CASE gets = {}
    <3>1. g = 0
      <4>1. ASSUME g # 0 PROVE FALSE
        <5>1. g \in 1 .. l
          BY <1>2, <4>1
        <5> QED
          BY <1>1, <2>1, <4>1, <5>1 DEF LastGet
      <4> QED
        BY <4>1
    <3> QED
      BY <2>1, <3>1
  <2>2. CASE gets # {}
    <3>1. PICK i \in 1 .. l : s[i].op = "get"
      BY <1>1, <2>2
    <3>2. g # 0 /\ s[g].op = "get" /\ g \in 1 .. l
      BY <1>1, <1>2, <3>1 DEF LastGet
    <3>3. g \in gets /\ \A y \in gets : y <= g /\ y \in Nat
      BY <1>1, <3>2 DEF LastGet
    <3>4. \A x \in gets : (\A y \in gets : y <= x) => x = g
      BY <1>2, <3>3
    <3> HIDE DEF gets
    <3>5. MaxOf(gets) = g
      <4>1. \E x \in gets : \A y \in gets : y <= x
        BY <3>3
      <4> QED
        BY <3>4, <4>1 DEF MaxOf
    <3> QED
      BY <2>2, <3>5
  <2> QED
    BY <2>1, <2>2
<1> DEFINE p == SubSeq(s, g + 1, l)
<1>4. Piece(s) = p
  BY <1>1, <1>3 DEF Piece
<1>5. /\ p \in Seq(Calls)
      /\ Len(p) = IF g + 1 <= l THEN l - (g + 1) + 1 ELSE 0
      /\ \A i \in 1 .. l - (g + 1) + 1 : p[i] = s[g + 1 + i - 1]
  <2>1. \A i \in g + 1 .. l : s[i] \in Calls
    <3>1. \A i \in g + 1 .. l : i \in 1 .. l
      BY <1>2
    <3> QED
      BY <1>1, <3>1, ElementOfSeq
  <2> QED
    BY <1>2, <2>1, SubSeqProperties
<1> HIDE DEF p
<1>6. Len(p) = l - g
  BY <1>2, <1>5
<1>7. ASSUME NEW i \in 1 .. l - g PROVE p[i] = s[g + i]
  <2>1. i \in 1 .. l - (g + 1) + 1 /\ g + 1 + i - 1 = g + i
    BY <1>2
  <2> QED
    BY <1>5, <2>1
<1>8. DOMAIN p = 1 .. l - g
  BY <1>5, <1>6, LenProperties
<1>9. Ended(p) <=> g < l /\ s[l].argument = "#"
  <2>1. CASE g < l
    <3>1. p # << >>
      BY <1>2, <1>5, <1>6, <2>1, EmptySeq
    <3>2. l - g \in 1 .. l - g /\ g + (l - g) = l
      BY <1>2, <2>1
    <3>3. p[Len(p)] = s[l]
      BY <1>6, <1>7, <3>2
    <3> QED
      BY <2>1, <3>1, <3>3 DEF Ended
  <2>2. CASE ~ (g < l)
    <3>1. Len(p) = 0
      BY <1>2, <1>6, <2>2
    <3>2. p = << >>
      BY <1>5, <3>1, EmptySeq
    <3> QED
      BY <2>2, <3>2 DEF Ended
  <2> QED
    BY <2>1, <2>2
<1>10. Started(p) <=> \E i \in g + 1 .. l : s[i].argument # "x"
  <2>1. ASSUME NEW i \in 1 .. l - g, p[i].argument # "x"
        PROVE  \E j \in g + 1 .. l : s[j].argument # "x"
    <3>1. g + i \in g + 1 .. l
      BY <1>2
    <3> QED
      BY <1>7, <2>1, <3>1
  <2>2. ASSUME NEW j \in g + 1 .. l, s[j].argument # "x"
        PROVE  \E i \in 1 .. l - g : p[i].argument # "x"
    <3>1. j - g \in 1 .. l - g /\ g + (j - g) = j
      BY <1>2
    <3>2. p[j - g] = s[j]
      BY <1>7, <3>1
    <3> QED
      BY <2>2, <3>1, <3>2
  <2> QED
    BY <1>8, <2>1, <2>2 DEF Started
<1> QED
  BY <1>1, <1>4, <1>5, <1>9, <1>10 DEF p

(* Where the parser waits follows from the characters since the last get(): *)
(* it has yielded when the number is over, waits for more when it has begun *)
(* and otherwise for the first one; and the character of each put() is      *)
(* taken before put() returns.  A get() out of turn is its last call.       *)
ParserWaits(g) ==
    LET l == Len(calls)
        over == g < l /\ calls[l].argument = "#"
        begun == \E i \in g + 1 .. l : calls[i].argument # "x"
    IN  /\ LastGet(calls, g)
        /\ frame.input = nullopt
        /\ over => frame.at = "yield"
        /\ begun /\ ~ over => frame.at = "more"
        /\ ~ begun => frame.at = IF l = 0 THEN "initial" ELSE "first"

CoroutineTypes ==
    body \in AllBodies /\ frame \in Frames /\ calls \in Seq(Calls)

CoroutineInv ==
    /\ CoroutineTypes
    /\ body # "parse_string" => frame.at \in {"initial", "yield", "final", "destroyed"}
    /\ body = "parse_string" =>
         /\ frame.at = "aborted" <=> AskedOutOfTurn
         /\ InUse => \E g \in 0 .. Len(calls) : ParserWaits(g)
         /\ frame.at # "undefined"

LEMMA CoroutineInvInit == Init => CoroutineInv
<1> SUFFICES ASSUME Init PROVE CoroutineInv
  OBVIOUS
<1>1. PICK o \in Int \cup Strings :
        frame = [at |-> "initial", input |-> nullopt, output |-> o,
                 sign |-> 1, number |-> 0, a |-> 0, b |-> 1, left |-> LIMIT]
  <2>1. (IF body \in strings THEN "" ELSE 0) \in Int \cup Strings
    BY DEF Strings
  <2> QED
    BY <2>1, Zenon DEF Init, CoroutineInit
<1>2. frame \in Frames /\ frame.at = "initial" /\ frame.input = nullopt
  <2>1. LIMIT \in Int /\ nullopt \in Strings /\ "initial" \in Points
    BY CoroutinesAssumption DEF Points, Strings, nullopt
  <2> QED
    BY <1>1, <2>1 DEF Frames
<1>3. body \in AllBodies /\ calls \in Seq(Calls) /\ Len(calls) = 0
  <2>1. body \in Bodies /\ calls = << >>
    BY DEF Init, CoroutineInit
  <2>2. body \in AllBodies
    BY <2>1, CoroutinesAssumption
  <2>3. calls \in Seq(Calls) /\ Len(calls) = 0
    BY <2>1
  <2> QED
    BY <2>2, <2>3
<1>4. ParserWaits(0)
  <2>1. LastGet(calls, 0)
    BY <1>3 DEF LastGet
  <2>2. ~ (0 < Len(calls)) /\ ~ \E i \in 0 + 1 .. Len(calls) : calls[i].argument # "x"
    BY <1>3
  <2> QED
    BY <1>2, <2>1, <2>2 DEF ParserWaits
<1>5. ~ AskedOutOfTurn
  <2>1. DOMAIN calls = {}
    BY <1>3, LenProperties
  <2> QED
    BY <2>1 DEF AskedOutOfTurn
<1> QED
  BY <1>2, <1>3, <1>4, <1>5 DEF CoroutineInv, CoroutineTypes

Results == Int \cup Strings \cup BOOLEAN

LEMMA CalledTypes ==
    ASSUME CoroutineTypes, NEW op \in Strings, NEW argument \in Strings,
           NEW result \in Results, Called(op, argument, result)
    PROVE  /\ calls' \in Seq(Calls) /\ Len(calls') = Len(calls) + 1
           /\ \A i \in 1 .. Len(calls) : calls'[i] = calls[i]
           /\ calls'[Len(calls) + 1].op = op
           /\ calls'[Len(calls) + 1].argument = argument
           /\ body' = body
<1> DEFINE call == [op |-> op, argument |-> argument, result |-> result]
<1>1. call \in Calls /\ call.op = op /\ call.argument = argument
  BY DEF Calls, Results
<1>2. calls' = Append(calls, call) /\ body' = body
  BY DEF Called
<1>3. calls \in Seq(Calls)
  BY DEF CoroutineTypes
<1> HIDE DEF call
<1>4. /\ Append(calls, call) \in Seq(Calls) /\ Len(Append(calls, call)) = Len(calls) + 1
      /\ \A i \in 1 .. Len(calls) : Append(calls, call)[i] = calls[i]
      /\ Append(calls, call)[Len(calls) + 1] = call
  BY <1>1, <1>3, AppendProperties
<1> QED
  BY <1>1, <1>2, <1>4

LEMMA CalledCall ==
    ASSUME CoroutineTypes, NEW op \in Strings, NEW argument \in Strings,
           NEW result \in Results, Called(op, argument, result)
    PROVE  \E call \in Calls :
             /\ call.op = op /\ call.argument = argument /\ call.result = result
             /\ calls' = Append(calls, call) /\ body' = body
<1> DEFINE call == [op |-> op, argument |-> argument, result |-> result]
<1>1. call \in Calls /\ call.op = op /\ call.argument = argument /\ call.result = result
  BY DEF Calls, Results
<1>2. calls' = Append(calls, call) /\ body' = body
  BY DEF Called
<1> HIDE DEF call
<1> QED
  BY <1>1, <1>2

(* One more call is out of turn, or the calls are as they were.             *)
LEMMA AskedOnceMore ==
    ASSUME calls \in Seq(Calls), NEW call \in Calls, calls' = Append(calls, call),
           body = "parse_string", body' = body
    PROVE  AskedOutOfTurn' <=> AskedOutOfTurn \/ (call.op = "get" /\ OutOfTurn(calls))
<1>1. PICK l \in Nat : Len(calls) = l /\ DOMAIN calls = 1 .. l
  BY LenProperties
<1>2. /\ calls' \in Seq(Calls) /\ Len(calls') = l + 1
      /\ \A i \in 1 .. l : calls'[i] = calls[i]
      /\ calls'[l + 1] = call
  BY <1>1, AppendProperties
<1>3. DOMAIN calls' = 1 .. l + 1
  BY <1>2, LenProperties
<1>4. ASSUME NEW i \in 1 .. l + 1
      PROVE  SubSeq(calls', 1, i - 1) = SubSeq(calls, 1, i - 1)
  <2>1. PICK n \in Nat : n = i - 1
    OBVIOUS
  <2>2. n <= Len(calls) /\ 1 \in Nat \ {0}
    BY <1>1, <2>1
  <2>3. SubSeq(Append(calls, call), 1, n) = SubSeq(calls, 1, n)
    BY <2>2, SubSeqOfAppend
  <2> QED
    BY <2>1, <2>3
<1>5. PICK j \in 1 .. l + 1 : j = l + 1
  OBVIOUS
<1>6. SubSeq(calls', 1, j - 1) = calls /\ calls'[j] = call
  <2>1. j - 1 = l
    BY <1>5
  <2>2. SubSeq(calls, 1, j - 1) = calls
    BY <1>1, <2>1, SubSeqFull
  <2> QED
    BY <1>2, <1>4, <1>5, <2>2
<1> DEFINE Asked(i) == calls[i].op = "get" /\ OutOfTurn(SubSeq(calls, 1, i - 1))
           Asked2(i) == calls'[i].op = "get" /\ OutOfTurn(SubSeq(calls', 1, i - 1))
<1>7. \A i \in 1 .. l : i \in 1 .. l + 1 /\ i # l + 1
  OBVIOUS
<1>8. \A i \in 1 .. l : Asked2(i) <=> Asked(i)
  BY <1>2, <1>4, <1>7
<1>9. Asked2(j) <=> call.op = "get" /\ OutOfTurn(calls)
  BY <1>6, Zenon
<1>10. AskedOutOfTurn <=> \E i \in 1 .. l : Asked(i)
  BY <1>1, Zenon DEF AskedOutOfTurn
<1>11. AskedOutOfTurn' <=> \E i \in 1 .. l + 1 : Asked2(i)
  BY <1>3, Zenon DEF AskedOutOfTurn
<1> HIDE DEF Asked, Asked2
<1>12. \A i \in 1 .. l + 1 : i = j \/ i \in 1 .. l
  BY <1>5
<1>13. ASSUME NEW i \in 1 .. l + 1, Asked2(i)
       PROVE  AskedOutOfTurn \/ (call.op = "get" /\ OutOfTurn(calls))
  <2>1. CASE i = j
    BY <1>9, <1>13, <2>1, Zenon
  <2>2. CASE i \in 1 .. l
    BY <1>8, <1>10, <1>13, <2>2, Zenon
  <2> QED
    BY <1>12, <2>1, <2>2, Zenon
<1>14. ASSUME NEW i \in 1 .. l, Asked(i) PROVE AskedOutOfTurn'
  BY <1>7, <1>8, <1>11, <1>14, Zenon
<1>15. (call.op = "get" /\ OutOfTurn(calls)) => AskedOutOfTurn'
  BY <1>5, <1>9, <1>11, Zenon
<1> QED
  BY <1>10, <1>11, <1>13, <1>14, <1>15, Zenon

(* The other programs: no coroutine is resumed after its end.               *)
LEMMA ResumedUnlessDone ==
    ASSUME NEW r \in AllBodies \ {"parse_string"}, NEW f \in Frames,
           f.at \in {"initial", "yield", "final"}
    PROVE  /\ ResumeUnlessDone(r, f) \in Frames
           /\ ResumeUnlessDone(r, f).at \in {"yield", "final"}
BY ResumeTypes DEF ResumeUnlessDone, done

LEMMA OtherBodiesStep ==
    ASSUME CoroutineInv, CoroutineNext, body # "parse_string"
    PROVE  CoroutineInv'
<1>1. /\ body \in AllBodies \ {"parse_string"} /\ frame \in Frames /\ calls \in Seq(Calls)
      /\ frame.at \in {"initial", "yield", "final", "destroyed"}
      /\ CoroutineTypes
  BY DEF CoroutineInv, CoroutineTypes
<1> DEFINE Onward == /\ body' = body /\ calls' \in Seq(Calls) /\ frame' \in Frames
                     /\ frame'.at \in {"initial", "yield", "final", "destroyed"}
<1>a. /\ "put" \in Strings /\ "get" \in Strings /\ "next" \in Strings
      /\ "value" \in Strings /\ nullopt \in Strings /\ "" \in Strings
  BY DEF Strings, nullopt
<1>b. InUse => frame.at \in {"initial", "yield", "final"}
  BY <1>1 DEF InUse
<1>3. ASSUME NEW c \in {"x", "y"}, Put(c) PROVE Onward
  <2>1. c \in Strings
    BY DEF Strings
  <2>2. InUse
    BY <1>3 DEF Put, Called
  <2>3. [frame EXCEPT !.input = c] \in Frames /\ [frame EXCEPT !.input = c].at = frame.at
    BY <1>1, <2>1 DEF Frames
  <2>4. frame' \in Frames /\ frame'.at \in {"yield", "final"}
    BY <1>1, <1>b, <1>3, <2>2, <2>3, ResumedUnlessDone DEF Put
  <2>5. PICK result \in Results : Called("put", c, result)
    BY <1>3, <1>a, <2>1 DEF Put, Results
  <2>6. calls' \in Seq(Calls) /\ body' = body
    BY <1>1, <1>a, <2>1, <2>5, CalledTypes
  <2> QED
    BY <2>4, <2>6
<1>c. /\ ResumeUnlessDone(body, frame) \in Frames
      /\ InUse => ResumeUnlessDone(body, frame).at \in {"yield", "final"}
  <2>1. CASE InUse
    BY <1>1, <1>b, <2>1, ResumedUnlessDone
  <2>2. CASE ~ InUse
    <3>1. Resume(body, frame) = Suspend(frame, "undefined")
      BY <1>1, <2>2 DEF Resume, InUse
    <3> QED
      BY <1>1, <2>2, <3>1, SuspendTypes DEF ResumeUnlessDone, done, InUse, Points
  <2> QED
    BY <2>1, <2>2
<1>4. ASSUME GetString PROVE Onward
  <2> DEFINE f == ResumeUnlessDone(body, frame)
  <2>1. InUse
    BY <1>4 DEF GetString, Called
  <2>2. f \in Frames /\ f.at \in {"yield", "final"} /\ f.output \in Results
    BY <1>c, <2>1, FrameFields DEF Results
  <2>3. frame' = [f EXCEPT !.output = ""] /\ Called("get", nullopt, f.output)
    BY <1>4 DEF GetString
  <2> HIDE DEF f
  <2>4. frame' \in Frames /\ frame'.at = f.at
    BY <1>a, <2>2, <2>3 DEF Frames
  <2>5. calls' \in Seq(Calls) /\ body' = body
    BY <1>1, <1>a, <2>2, <2>3, CalledTypes
  <2> QED
    BY <2>2, <2>4, <2>5
<1>5. ASSUME next PROVE Onward
  <2>1. InUse
    BY <1>5 DEF next, Called
  <2>2. frame' \in Frames /\ frame'.at \in {"yield", "final"}
    BY <1>5, <1>c, <2>1 DEF next
  <2>3. PICK result \in Results : Called("next", nullopt, result)
    BY <1>5 DEF next, Results, done
  <2>4. calls' \in Seq(Calls) /\ body' = body
    BY <1>1, <1>a, <2>3, CalledTypes
  <2> QED
    BY <2>2, <2>4
<1>6. ASSUME value PROVE Onward
  <2>1. frame' = frame /\ Called("value", nullopt, frame.output)
    BY <1>6 DEF value
  <2>2. frame.output \in Results
    BY <1>1, FrameFields DEF Results
  <2>3. calls' \in Seq(Calls) /\ body' = body
    BY <1>1, <1>a, <2>1, <2>2, CalledTypes
  <2> QED
    BY <1>1, <2>1, <2>3
<1>7. ASSUME Destroy PROVE Onward
  <2>1. frame' = Suspend(frame, "destroyed") /\ body' = body /\ calls' = calls
    BY <1>7 DEF Destroy
  <2> QED
    BY <1>1, <2>1, SuspendTypes DEF Points
<1>8. Onward
  BY <1>3, <1>4, <1>5, <1>6, <1>7 DEF CoroutineNext, PutNext, GetNumber
<1> QED
  BY <1>1, <1>8 DEF CoroutineInv, CoroutineTypes

LEMMA ParserStep ==
    ASSUME CoroutineInv, CoroutineNext, body = "parse_string"
    PROVE  CoroutineInv'
<1>1. /\ body \in AllBodies /\ frame \in Frames /\ calls \in Seq(Calls)
      /\ CoroutineTypes
  BY DEF CoroutineInv, CoroutineTypes
<1>2. PICK l \in Nat : Len(calls) = l
  BY <1>1, LenProperties
<1>3. InUse
  BY DEF CoroutineNext, PutNext, GetString, GetNumber, next, value, Destroy,
         Put, Called
<1>4. PICK g \in 0 .. l : ParserWaits(g)
  BY <1>2, <1>3 DEF CoroutineInv
<1>a. ~ AskedOutOfTurn
  BY <1>3 DEF CoroutineInv, InUse
<1>5. CASE Destroy
  <2>1. frame' = Suspend(frame, "destroyed") /\ body' = body /\ calls' = calls
    BY <1>5 DEF Destroy
  <2>2. frame' \in Frames /\ frame'.at = "destroyed"
    BY <1>1, <2>1, SuspendTypes DEF Points
  <2>3. ~ InUse'
    BY <2>2 DEF InUse
  <2>4. ~ AskedOutOfTurn'
    BY <1>a, <2>1 DEF AskedOutOfTurn
  <2> QED
    BY <1>1, <2>1, <2>2, <2>3, <2>4 DEF CoroutineInv, CoroutineTypes
<1> DEFINE over == g < l /\ calls[l].argument = "#"
           begun == \E i \in g + 1 .. l : calls[i].argument # "x"
<1>6. /\ Ended(Piece(calls)) <=> over
      /\ Started(Piece(calls)) <=> begun
  BY <1>1, <1>2, <1>4, PieceSinceGet DEF ParserWaits
<1>7. /\ LastGet(calls, g) /\ frame.input = nullopt
      /\ over => frame.at = "yield"
      /\ begun /\ ~ over => frame.at = "more"
      /\ ~ begun => frame.at = IF l = 0 THEN "initial" ELSE "first"
  BY <1>2, <1>4 DEF ParserWaits
<1>8. over => begun
  <2> SUFFICES ASSUME over PROVE begun
    OBVIOUS
  <2>1. l \in g + 1 .. l /\ calls[l].argument # "x"
    OBVIOUS
  <2> QED
    BY <2>1
<1>9. ASSUME NEW c \in {"-", "+", "1", "2", "x", "#"}, Put(c), ~ over,
             c \in {"-", "+", "x"} => ~ begun, c = "#" => begun
      PROVE  CoroutineInv'
  <2>1. c \in Strings /\ "put" \in Strings /\ nullopt \in Strings
    BY DEF Strings, nullopt
  <2>2. Called("put", c, nullopt)
    BY <1>9 DEF Put
  <2>3. /\ calls' \in Seq(Calls) /\ Len(calls') = l + 1
        /\ \A i \in 1 .. l : calls'[i] = calls[i]
        /\ calls'[l + 1].op = "put" /\ calls'[l + 1].argument = c
        /\ body' = body
    <3>1. nullopt \in Results
      BY <2>1 DEF Results
    <3> QED
      BY <1>1, <1>2, <2>1, <2>2, <3>1, CalledTypes
  <2> DEFINE f == [frame EXCEPT !.input = c]
  <2>4. f \in Frames /\ f.at = frame.at /\ f.input = c
    BY <1>1, <2>1 DEF Frames
  <2>5. \/ frame.at \in {"initial", "first"} /\ c # "#"
        \/ frame.at = "more" /\ c \in {"1", "2", "#"}
    BY <1>7, <1>9
  <2>6. frame' = Resume("parse_string", f)
    BY <1>9, <2>4, <2>5 DEF Put, ResumeUnlessDone, done
  <2> HIDE DEF f
  <2>7. /\ frame' \in Frames /\ frame'.input = nullopt
        /\ c = "x" => frame'.at = "first"
        /\ c = "#" => frame'.at = "yield"
        /\ c \notin {"x", "#"} => frame'.at = "more"
    BY <2>4, <2>5, <2>6, ParserTakes
  <2>8. LastGet(calls', g)
    <3>1. g \in 0 .. l + 1
      OBVIOUS
    <3>2. ASSUME NEW i \in 1 .. l + 1, calls'[i].op = "get" PROVE i <= g
      <4>1. i # l + 1
        BY <2>3, <3>2
      <4>2. i \in 1 .. l
        BY <4>1
      <4> QED
        BY <1>2, <1>7, <2>3, <3>2, <4>2 DEF LastGet
    <3>3. g # 0 => calls'[g].op = "get"
      BY <1>7, <2>3 DEF LastGet
    <3> QED
      BY <2>3, <3>1, <3>2, <3>3 DEF LastGet
  <2>9. (\E i \in g + 1 .. l + 1 : calls'[i].argument # "x") <=> begun \/ c # "x"
    <3>1. ASSUME NEW i \in g + 1 .. l + 1, calls'[i].argument # "x"
          PROVE  begun \/ c # "x"
      <4>1. CASE i = l + 1
        BY <2>3, <3>1, <4>1
      <4>2. CASE i # l + 1
        <5>1. i \in g + 1 .. l /\ i \in 1 .. l
          BY <4>2
        <5> QED
          BY <2>3, <3>1, <5>1
      <4> QED
        BY <4>1, <4>2
    <3>2. ASSUME NEW i \in g + 1 .. l, calls[i].argument # "x"
          PROVE  \E j \in g + 1 .. l + 1 : calls'[j].argument # "x"
      <4>1. i \in g + 1 .. l + 1 /\ i \in 1 .. l
        OBVIOUS
      <4> QED
        BY <2>3, <3>2, <4>1
    <3>3. l + 1 \in g + 1 .. l + 1
      OBVIOUS
    <3> QED
      BY <2>3, <3>1, <3>2, <3>3
  <2>10. g < l + 1
    OBVIOUS
  <2>11. ParserWaits(g)'
    <3> HIDE DEF over, begun
    <3> QED
      BY <1>9, <2>3, <2>7, <2>8, <2>9, <2>10 DEF ParserWaits
  <2>12. g \in 0 .. Len(calls')
    BY <2>3
  <2>13. ~ AskedOutOfTurn'
    <3>1. nullopt \in Results
      BY <2>1 DEF Results
    <3>2. PICK call \in Calls :
            call.op = "put" /\ calls' = Append(calls, call) /\ body' = body
      BY <1>1, <2>1, <2>2, <3>1, CalledCall
    <3> QED
      BY <1>1, <1>a, <3>2, AskedOnceMore
  <2>14. frame'.at \in {"first", "yield", "more"}
    BY <2>7
  <2> QED
    BY <1>1, <2>3, <2>7, <2>11, <2>12, <2>13, <2>14 DEF CoroutineInv, CoroutineTypes
<1>b. OutOfTurn(calls) <=> l # 0 /\ ~ over
  BY <1>1, <1>2, <1>6, EmptySeq DEF OutOfTurn
<1>10. ASSUME GetNumber PROVE CoroutineInv'
  <2> DEFINE place == IF OutOfTurn(calls) THEN "aborted" ELSE "first"
  <2>1. frame' = Suspend(frame, place)
    <3>1. CASE OutOfTurn(calls)
      <4>1. frame.at \in {"first", "more"} /\ frame.input = nullopt
        BY <1>7, <1>b, <3>1
      <4> QED
        BY <1>10, <3>1, <4>1 DEF GetNumber, ResumeUnlessDone, done, Resume, ResumeParser
    <3>2. CASE ~ OutOfTurn(calls)
      <4>1. frame.at \in {"initial", "yield"} /\ frame.input = nullopt
        BY <1>7, <1>b, <3>2
      <4> QED
        BY <1>10, <3>2, <4>1 DEF GetNumber, ResumeUnlessDone, done, Resume, ResumeParser
    <3> QED
      BY <3>1, <3>2
  <2>2. frame' \in Frames /\ frame'.at = place /\ frame'.input = nullopt
    BY <1>1, <1>7, <2>1, SuspendTypes DEF Points
  <2>3. PICK result \in Results : Called("get", nullopt, result)
    <3>1. frame'.output \in Results /\ nullopt \in Results
      BY <2>2, FrameFields DEF Results, nullopt, Strings
    <3> QED
      BY <1>10, <3>1 DEF GetNumber
  <2>4. "get" \in Strings /\ nullopt \in Strings
    BY DEF Strings, nullopt
  <2>5. /\ calls' \in Seq(Calls) /\ Len(calls') = l + 1
        /\ calls'[l + 1].op = "get"
        /\ body' = body
    BY <1>1, <1>2, <2>3, <2>4, CalledTypes
  <2>6. AskedOutOfTurn' <=> OutOfTurn(calls)
    <3>1. PICK call \in Calls :
            call.op = "get" /\ calls' = Append(calls, call) /\ body' = body
      BY <1>1, <2>3, <2>4, CalledCall
    <3> QED
      BY <1>1, <1>a, <3>1, AskedOnceMore
  <2>7. CASE OutOfTurn(calls)
    <3>1. ~ InUse' /\ frame'.at = "aborted"
      BY <2>2, <2>7 DEF InUse
    <3> QED
      BY <1>1, <2>2, <2>5, <2>6, <2>7, <3>1 DEF CoroutineInv, CoroutineTypes
  <2>8. CASE ~ OutOfTurn(calls)
    <3>1. LastGet(calls', l + 1)
      BY <2>5 DEF LastGet
    <3>2. /\ ~ (l + 1 < Len(calls')) /\ Len(calls') # 0
          /\ ~ \E i \in l + 1 + 1 .. Len(calls') : calls'[i].argument # "x"
      BY <2>5
    <3>3. ParserWaits(l + 1)'
      BY <2>2, <2>8, <3>1, <3>2 DEF ParserWaits
    <3>4. l + 1 \in 0 .. Len(calls') /\ frame'.at = "first"
      BY <2>2, <2>5, <2>8
    <3> QED
      BY <1>1, <2>2, <2>5, <2>6, <2>8, <3>3, <3>4 DEF CoroutineInv, CoroutineTypes
  <2> QED
    BY <2>7, <2>8
<1> HIDE DEF over, begun
<1>11. CASE PutNext
  BY <1>6, <1>9, <1>11 DEF PutNext
<1>12. CASE GetNumber
  BY <1>10, <1>12
<1> QED
  BY <1>5, <1>11, <1>12 DEF CoroutineNext, GetString, next, value, generators

LEMMA CoroutineInvHolds == Spec => []CoroutineInv
<1>1. CoroutineInv /\ [Next]_eventVars => CoroutineInv'
  <2>1. [Next]_eventVars => CoroutineNext \/ UNCHANGED coroutineVars
    BY DEF Next, RunCoroutine, RunSleep, RunTimer, RunEcho, Returned, eventVars
  <2>2. CoroutineInv /\ UNCHANGED coroutineVars => CoroutineInv'
    BY DEF coroutineVars, CoroutineInv, CoroutineTypes, ParserWaits, LastGet, AskedOutOfTurn, InUse
  <2> QED
    BY <2>1, <2>2, OtherBodiesStep, ParserStep
<1> QED
  BY <1>1, CoroutineInvInit, PTL DEF Spec

(* Whatever the bodies, the number of the calls and the moments of get(),   *)
(* next() and value(), no coroutine is resumed after its end or by a handle *)
(* whose frame is gone, and the assert() of the parser fails for a get()    *)
(* out of turn, and for nothing else.                                       *)
THEOREM CoroutinesResumedInTime == Spec => []ResumedInTime
<1>1. CoroutineInv => NothingUndefined
  <2>1. body # "parse_string" => ~ AskedOutOfTurn
    BY DEF AskedOutOfTurn
  <2> QED
    BY <2>1 DEF CoroutineInv, NothingUndefined
<1>2. CoroutineInv /\ SleepInv => ResumedInTime
  BY <1>1, HandlesAreValid DEF ResumedInTime
<1> QED
  BY <1>2, CoroutineInvHolds, SleepInvHolds, PTL
-----------------------------------------------------------------------------
(* What the calls of the coroutines' objects return                         *)

(* The recursive function of the numbers exists, and satisfies its equation. *)
LEMMA FibValues == /\ \A k \in Nat : Fib[k] \in Nat
                   /\ Fib[0] = 0 /\ Fib[1] = 1
                   /\ \A k \in Nat : Fib[k + 2] = Fib[k + 1] + Fib[k]
<1> DEFINE G == [n \in Nat |-> [w \in Nat \X Nat |-> <<w[2], w[1] + w[2]>>]]
<1>1. G \in [Nat -> [Nat \X Nat -> Nat \X Nat]]
  OBVIOUS
<1>2. PICK p \in [Nat -> Nat \X Nat] :
        p[0] = <<0, 1>> /\ \A n \in Nat : p[n + 1] = G[n][p[n]]
  <2> DEFINE T == Nat \X Nat
  <2>1. <<0, 1>> \in T /\ G \in [Nat -> [T -> T]]
    BY <1>1
  <2> HIDE DEF G, T
  <2>2. PICK x0 \in T : x0 = <<0, 1>>
    BY <2>1
  <2>3. \E p \in [Nat -> T] : Iterates(p, x0, G)
    BY <2>1, PrimitiveRecursion
  <2> QED
    BY <2>2, <2>3 DEF T, Iterates
<1>3. \A n \in Nat : p[n + 1] = <<p[n][2], p[n][1] + p[n][2]>>
  BY <1>2
<1> DEFINE g == [n \in Nat |-> p[n][1]]
<1>4. ASSUME NEW k \in Nat PROVE g[k] = IF k < 2 THEN k ELSE g[k - 1] + g[k - 2]
  <2>1. CASE k < 2
    <3>1. k = 0 \/ k = 1
      BY <2>1
    <3>2. p[0 + 1] = <<1, 0 + 1>>
      BY <1>2, <1>3
    <3> QED
      BY <1>2, <2>1, <3>1, <3>2
  <2>2. CASE ~ (k < 2)
    <3>1. k - 1 \in Nat /\ k - 2 \in Nat /\ k - 1 + 1 = k /\ k - 2 + 1 = k - 1
      BY <2>2
    <3>2. /\ p[k - 1] \in Nat \X Nat /\ p[k - 2] \in Nat \X Nat
          /\ p[k - 1] = <<p[k - 2][2], p[k - 2][1] + p[k - 2][2]>>
          /\ p[k] = <<p[k - 1][2], p[k - 1][1] + p[k - 1][2]>>
      BY <1>3, <3>1
    <3> QED
      BY <2>2, <3>1, <3>2
  <2> QED
    BY <2>1, <2>2
<1>5. g = [k \in Nat |-> IF k < 2 THEN k ELSE g[k - 1] + g[k - 2]]
  BY <1>4
<1> HIDE DEF g
<1>6. Fib = [k \in Nat |-> IF k < 2 THEN k ELSE Fib[k - 1] + Fib[k - 2]]
  BY <1>5 DEF Fib
<1>7. \A k \in Nat : Fib[k] = IF k < 2 THEN k ELSE Fib[k - 1] + Fib[k - 2]
  BY <1>6, Zenon
<1>8. Fib[0] = 0 /\ Fib[1] = 1
  BY <1>7
<1>9. ASSUME NEW k \in Nat PROVE Fib[k + 2] = Fib[k + 1] + Fib[k]
  <2>1. k + 2 \in Nat /\ ~ (k + 2 < 2) /\ k + 2 - 1 = k + 1 /\ k + 2 - 2 = k
    OBVIOUS
  <2> QED
    BY <1>7, <2>1
<1> DEFINE A == {k \in Nat : Fib[k] \in Nat /\ Fib[k + 1] \in Nat}
<1>10. 0 \in A
  BY <1>8
<1>11. ASSUME NEW k \in A PROVE k + 1 \in A
  <2>1. k \in Nat /\ k + 1 + 1 = k + 2
    OBVIOUS
  <2>2. Fib[k] \in Nat /\ Fib[k + 1] \in Nat /\ Fib[k + 2] = Fib[k + 1] + Fib[k]
    BY <1>9, <2>1
  <2>3. Fib[k + 2] \in Nat
    BY <2>2
  <2>4. Fib[k + 1 + 1] \in Nat
    BY <2>1, <2>3, Zenon
  <2> QED
    BY <2>1, <2>2, <2>4
<1>12. A = Nat
  <2> HIDE DEF A
  <2>1. A \in SUBSET Nat
    BY DEF A
  <2> QED
    BY <1>10, <1>11, <2>1, SetInduction
<1> QED
  BY <1>8, <1>9, <1>12

(* A call adds one to its own kind and nothing to another.                  *)
LEMMA OneMoreCall ==
    ASSUME NEW s \in Seq(Calls), NEW call \in Calls, NEW op
    PROVE  /\ HowMany(op, s) \in Nat
           /\ HowMany(op, Append(s, call)) =
                IF call.op = op THEN HowMany(op, s) + 1 ELSE HowMany(op, s)
<1> DEFINE A == {i \in DOMAIN s : s[i].op = op}
           t == Append(s, call)
           B == {i \in DOMAIN t : t[i].op = op}
<1>1. PICK l \in Nat : Len(s) = l /\ DOMAIN s = 1 .. l
  BY LenProperties
<1>2. /\ DOMAIN t = 1 .. l + 1 /\ t[l + 1] = call
      /\ \A i \in 1 .. l : t[i] = s[i]
  <2>1. /\ t \in Seq(Calls) /\ Len(t) = l + 1
        /\ \A i \in 1 .. l : t[i] = s[i]
        /\ t[l + 1] = call
    BY <1>1, AppendProperties
  <2> HIDE DEF t
  <2> QED
    BY <2>1, LenProperties
<1> HIDE DEF t
<1>3. IsFiniteSet(A) /\ Cardinality(A) \in Nat
  <2>1. IsFiniteSet(1 .. l)
    BY <1>1, FS_Interval
  <2>2. A \subseteq 1 .. l
    BY <1>1
  <2> QED
    BY <2>1, <2>2, FS_Subset, FS_CardinalityType
<1>4. CASE call.op = op
  <2>1. B = A \cup {l + 1} /\ l + 1 \notin A
    BY <1>1, <1>2, <1>4
  <2> QED
    BY <1>3, <1>4, <2>1, FS_AddElement DEF HowMany, t
<1>5. CASE call.op # op
  <2>1. B = A
    BY <1>1, <1>2, <1>5
  <2> QED
    BY <1>3, <1>5, <2>1 DEF HowMany, t
<1> QED
  BY <1>3, <1>4, <1>5 DEF HowMany

LEMMA PromisedKept ==
    ASSUME body' = body, NEW e, NEW c PROVE Promised(e, c)' = Promised(e, c)
BY DEF Promised

(* The answers given stay as promised; the new one has to be.               *)
LEMMA AnswersKept ==
    ASSUME AnswersAsPromised, calls \in Seq(Calls), body' = body, NEW call \in Calls,
           calls' = Append(calls, call), call.result = Promised(calls, call)
    PROVE  AnswersAsPromised'
<1>1. PICK l \in Nat : Len(calls) = l /\ DOMAIN calls = 1 .. l
  BY LenProperties
<1>2. /\ calls' \in Seq(Calls) /\ Len(calls') = l + 1
      /\ \A i \in 1 .. l : calls'[i] = calls[i]
      /\ calls'[l + 1] = call
  BY <1>1, AppendProperties
<1>3. DOMAIN calls' = 1 .. l + 1
  BY <1>2, LenProperties
<1>4. ASSUME NEW i \in 1 .. l + 1
      PROVE  SubSeq(calls', 1, i - 1) = SubSeq(calls, 1, i - 1)
  <2>1. PICK n \in Nat : n = i - 1
    OBVIOUS
  <2>2. n <= Len(calls) /\ 1 \in Nat \ {0}
    BY <1>1, <2>1
  <2>3. SubSeq(Append(calls, call), 1, n) = SubSeq(calls, 1, n)
    BY <2>2, SubSeqOfAppend
  <2> QED
    BY <2>1, <2>3
<1>5. \A e, c : Promised(e, c)' = Promised(e, c)
  BY PromisedKept
<1>6. ASSUME NEW i \in 1 .. l + 1
      PROVE  calls'[i].result = Promised(SubSeq(calls, 1, i - 1), calls'[i])
  <2>1. CASE i = l + 1
    <3>1. SubSeq(calls, 1, i - 1) = calls
      <4>1. i - 1 = l
        BY <2>1
      <4> QED
        BY <1>1, <4>1, SubSeqFull
    <3> QED
      BY <1>2, <2>1, <3>1
  <2>2. CASE i # l + 1
    <3>1. i \in 1 .. l
      BY <2>2
    <3> QED
      BY <1>1, <1>2, <3>1 DEF AnswersAsPromised
  <2> QED
    BY <2>1, <2>2
<1> QED
  BY <1>3, <1>4, <1>5, <1>6 DEF AnswersAsPromised

(* The numbers of a generator: a is the one it has given, b the next one.   *)
Reduce(x) == IF body = "fibonacci" THEN x % MODULUS ELSE x
summing == {"fibonacci", "fibonacci_endless", "fibonacci_limited"}

Summing(k) ==
    /\ frame.at = "initial" => k = 0 /\ frame.output = 0 /\ frame.a = 0 /\ frame.b = 1
    /\ frame.at = "yield" => /\ k > 0 /\ frame.output = Reduce(Fib[k - 1])
                             /\ frame.a = Reduce(Fib[k - 1]) /\ frame.b = Reduce(Fib[k])
    /\ frame.at = "final" => body = "fibonacci_limited" /\ k > LIMIT
    /\ body = "fibonacci_limited" /\ frame.at # "final" => frame.left = LIMIT - k /\ k <= LIMIT

LEMMA FibonacciFields ==
    ASSUME NEW f \in Frames, NEW c \in Int
    PROVE  LET g == ResumeFibonacci(f, c) IN
           /\ g.left = f.left
           /\ f.at = "initial" => g.output = f.a /\ g.a = f.a /\ g.b = f.b
           /\ f.at # "initial" => g.output = f.b /\ g.a = f.b /\ g.b = c
<1>1. CASE f.at = "initial"
  BY <1>1 DEF ResumeFibonacci, Yield, Frames
<1>2. CASE f.at # "initial"
  <2>1. ResumeFibonacci(f, c) = [Yield(f, f.b) EXCEPT !.a = f.b, !.b = c]
    BY <1>2 DEF ResumeFibonacci
  <2>2. /\ Yield(f, f.b) \in Frames /\ Yield(f, f.b).output = f.b
        /\ Yield(f, f.b).left = f.left
    <3>1. f.b \in Int \cup Strings
      BY FrameFields
    <3> QED
      BY <3>1, YieldTypes DEF Yield, Frames
  <2>3. \A g \in Frames : \A x \in Int :
          LET h == [g EXCEPT !.a = x, !.b = c] IN
          h.a = x /\ h.b = c /\ h.output = g.output /\ h.left = g.left
    BY DEF Frames
  <2>4. f.b \in Int
    BY FrameFields
  <2> QED
    BY <1>2, <2>1, <2>2, <2>3, <2>4
<1> QED
  BY <1>1, <1>2

LEMMA SumReduced ==
    ASSUME NEW x \in Nat, NEW y \in Nat
    PROVE  /\ Reduce(x) \in Nat
           /\ body = "fibonacci" =>
                (Reduce(x) + Reduce(y)) % MODULUS = Reduce(x + y)
           /\ body # "fibonacci" => Reduce(x) + Reduce(y) = Reduce(x + y)
<1>1. MODULUS \in Nat \ {0}
  BY CoroutinesAssumption
<1>2. x % MODULUS \in Nat /\ y % MODULUS \in Nat
  BY <1>1, Division
<1>3. ((x % MODULUS) + (y % MODULUS)) % MODULUS = (x + (y % MODULUS)) % MODULUS
  BY <1>1, <1>2, ModuloSum
<1>4. ((y % MODULUS) + x) % MODULUS = (y + x) % MODULUS
  BY <1>1, ModuloSum
<1>5. (y % MODULUS) + x = x + (y % MODULUS) /\ y + x = x + y
  BY <1>2
<1>6. ((x % MODULUS) + (y % MODULUS)) % MODULUS = (x + y) % MODULUS
  BY <1>3, <1>4, <1>5
<1> QED
  BY <1>2, <1>6 DEF Reduce

LEMMA FirstReduced == Reduce(0) = 0 /\ Reduce(1) = 1
<1>1. MODULUS \in Nat \ {0} /\ MODULUS > 1
  BY CoroutinesAssumption
<1>2. 0 \in 0 .. 2 * MODULUS - 1 /\ 1 \in 0 .. 2 * MODULUS - 1
  BY <1>1
<1>3. 0 % MODULUS = 0 /\ 1 % MODULUS = 1
  BY <1>1, <1>2, WithinTwoLaps
<1> QED
  BY <1>3 DEF Reduce

(* The next number is given, and the sum of the two kept for the call after. *)
LEMMA SummingResumed ==
    ASSUME body \in summing, frame \in Frames, frame.at \in {"initial", "yield", "final"},
           NEW k \in Nat, Summing(k), body' = body, frame' = ResumeUnlessDone(body, frame)
    PROVE  /\ Summing(k + 1)'
           /\ frame'.at # "final" <=> (body = "fibonacci_limited" => k < LIMIT)
<1>1. LIMIT \in Nat
  BY CoroutinesAssumption
<1>2. CASE frame.at = "final"
  <2>1. frame' = frame
    BY <1>2 DEF ResumeUnlessDone, done
  <2>2. body = "fibonacci_limited" /\ k > LIMIT /\ k + 1 > LIMIT /\ ~ (k < LIMIT)
    BY <1>1, <1>2 DEF Summing
  <2> QED
    BY <1>2, <2>1, <2>2 DEF Summing
<1>3. CASE body = "fibonacci_limited" /\ frame.at # "final" /\ frame.left = 0
  <2>1. frame' = Suspend(frame, "final")
    BY <1>3 DEF ResumeUnlessDone, done, Resume, ResumeLimited, ReturnVoid
  <2>2. frame'.at = "final"
    BY <2>1, SuspendTypes DEF Points
  <2>3. k = LIMIT /\ k + 1 > LIMIT
    BY <1>1, <1>3 DEF Summing
  <2> QED
    BY <1>3, <2>2, <2>3 DEF Summing
<1>4. CASE frame.at # "final" /\ (body = "fibonacci_limited" => frame.left # 0)
  <2> DEFINE c == IF body = "fibonacci" THEN (frame.a + frame.b) % MODULUS
                                        ELSE frame.a + frame.b
             g == ResumeFibonacci(frame, c)
  <2>1. /\ frame.a \in Int /\ frame.b \in Int /\ frame.left \in Int
        /\ c \in Int
    BY FrameFields, CoroutinesAssumption
  <2>2. /\ g \in Frames /\ g.at = "yield" /\ g.left = frame.left
        /\ frame.at = "initial" => g.output = frame.a /\ g.a = frame.a /\ g.b = frame.b
        /\ frame.at # "initial" => g.output = frame.b /\ g.a = frame.b /\ g.b = c
    <3> HIDE DEF c
    <3> QED
      BY <2>1, FibonacciTypes, FibonacciFields
  <2>3. /\ frame'.at = "yield" /\ frame'.output = g.output
        /\ frame'.a = g.a /\ frame'.b = g.b
        /\ body = "fibonacci_limited" => frame'.left = frame.left - 1
    <3>1. CASE body # "fibonacci_limited"
      <4>1. frame' = g
        BY <1>4, <3>1 DEF ResumeUnlessDone, done, Resume, summing
      <4> HIDE DEF g
      <4> QED
        BY <2>2, <3>1, <4>1
    <3>2. CASE body = "fibonacci_limited"
      <4>1. frame' = [g EXCEPT !.left = frame.left - 1]
        BY <1>4, <3>2 DEF ResumeUnlessDone, done, Resume, ResumeLimited
      <4> HIDE DEF g
      <4> QED
        BY <2>2, <4>1 DEF Frames
    <3> QED
      BY <3>1, <3>2
  <2>4. /\ Fib[0] = 0 /\ Fib[1] = 1 /\ Reduce(0) = 0 /\ Reduce(1) = 1
        /\ \A n \in Nat : Fib[n] \in Nat
    BY FibValues, FirstReduced
  <2>5. /\ frame'.output = Reduce(Fib[k]) /\ frame'.a = Reduce(Fib[k])
        /\ frame'.b = Reduce(Fib[k + 1])
    <3> HIDE DEF c, g
    <3>1. CASE frame.at = "initial"
      <4>1. k = 0 /\ frame.a = 0 /\ frame.b = 1
        BY <3>1 DEF Summing
      <4> QED
        BY <2>2, <2>3, <2>4, <3>1, <4>1
    <3>2. CASE frame.at = "yield"
      <4>1. k - 1 \in Nat /\ k - 1 + 2 = k + 1 /\ k - 1 + 1 = k
        BY <3>2 DEF Summing
      <4>2. frame.a = Reduce(Fib[k - 1]) /\ frame.b = Reduce(Fib[k])
        BY <3>2 DEF Summing
      <4>3. Fib[k + 1] = Fib[k - 1] + Fib[k]
        <5>1. Fib[k - 1 + 2] = Fib[k - 1 + 1] + Fib[k - 1]
          BY <4>1, FibValues
        <5>2. Fib[k - 1] \in Nat /\ Fib[k] \in Nat
          BY <2>4, <4>1
        <5>3. Fib[k + 1] = Fib[k] + Fib[k - 1]
          BY <4>1, <5>1, Zenon
        <5> QED
          BY <5>2, <5>3
      <4>4. c = Reduce(Fib[k - 1] + Fib[k])
        BY <2>4, <4>1, <4>2, SumReduced DEF c
      <4> QED
        BY <2>2, <2>3, <3>2, <4>2, <4>3, <4>4
    <3> QED
      BY <1>4, <3>1, <3>2
  <2>6. body = "fibonacci_limited" => frame'.left = LIMIT - (k + 1) /\ k + 1 <= LIMIT
    <3> SUFFICES ASSUME body = "fibonacci_limited"
                 PROVE  frame'.left = LIMIT - (k + 1) /\ k + 1 <= LIMIT
      OBVIOUS
    <3>1. frame.left = LIMIT - k /\ k <= LIMIT /\ frame.left # 0
      BY <1>4 DEF Summing
    <3>2. LIMIT - k - 1 = LIMIT - (k + 1) /\ k + 1 <= LIMIT
      BY <1>1, <3>1
    <3> QED
      BY <2>3, <3>1, <3>2
  <2>7. k + 1 > 0 /\ k + 1 - 1 = k
    OBVIOUS
  <2>8. \A x : Reduce(x)' = Reduce(x)
    BY DEF Reduce
  <2>9. body = "fibonacci_limited" => k < LIMIT
    BY <1>1, <2>6
  <2> HIDE DEF c, g
  <2> QED
    BY <2>3, <2>5, <2>6, <2>7, <2>8, <2>9 DEF Summing
<1> QED
  BY <1>2, <1>3, <1>4

(* The generator of 0 .. 4 *)
Counts(k) ==
    /\ frame.at = "initial" => k = 0
    /\ frame.at = "yield" => k > 0 /\ frame.output = k - 1
    /\ frame.at = "final" => k > 5 /\ frame.output = 4
    /\ frame.at # "final" => frame.number = k /\ k <= 5

LEMMA NumbersResumed ==
    ASSUME body = "numbers", frame \in Frames, frame.at \in {"initial", "yield", "final"},
           NEW k \in Nat, Counts(k), frame' = ResumeUnlessDone(body, frame)
    PROVE  /\ Counts(k + 1)'
           /\ frame'.at # "final" <=> k < 5
<1>1. CASE frame.at = "final"
  <2>1. frame' = frame
    BY <1>1 DEF ResumeUnlessDone, done
  <2> QED
    BY <1>1, <2>1 DEF Counts
<1>2. CASE frame.at # "final" /\ frame.number = 5
  <2>1. frame' = Suspend(frame, "final")
    BY <1>2 DEF ResumeUnlessDone, done, Resume, ResumeNumbers, ReturnVoid
  <2>2. frame'.at = "final" /\ frame'.output = frame.output
    BY <2>1 DEF Suspend, Frames
  <2>3. k = 5 /\ frame.at = "yield" /\ frame.output = k - 1
    BY <1>2 DEF Counts
  <2> QED
    BY <2>2, <2>3 DEF Counts
<1>3. CASE frame.at # "final" /\ frame.number # 5
  <2>1. frame' = [Yield(frame, frame.number) EXCEPT !.number = frame.number + 1]
    BY <1>3 DEF ResumeUnlessDone, done, Resume, ResumeNumbers
  <2>2. frame'.at = "yield" /\ frame'.output = frame.number /\ frame'.number = frame.number + 1
    BY <2>1 DEF Yield, Frames
  <2>3. frame.number = k /\ k < 5
    BY <1>3 DEF Counts
  <2> QED
    BY <2>2, <2>3 DEF Counts
<1> QED
  BY <1>1, <1>2, <1>3

(* The strings: one is yielded, and one is printed.                         *)
Greeted(k) ==
    /\ frame.output = ""
    /\ frame.at = "initial" <=> k = 0

LEMMA Successor == \A n \in Nat : n + 1 # 0
OBVIOUS

LEMMA HelloResumed ==
    ASSUME body = "hello", frame \in Frames, frame.at \in {"initial", "yield", "final"},
           NEW k \in Nat, Greeted(k),
           frame' = [ResumeUnlessDone(body, frame) EXCEPT !.output = ""]
    PROVE  /\ Greeted(k + 1)'
           /\ ResumeUnlessDone(body, frame).output = IF k = 0 THEN "Hello" ELSE ""
<1> DEFINE g == ResumeUnlessDone(body, frame)
<1>1. g \in Frames /\ g.at \in {"yield", "final"}
  BY ResumedUnlessDone DEF AllBodies
<1>2. g.output = IF k = 0 THEN "Hello" ELSE ""
  <2>1. CASE frame.at = "final"
    BY <2>1 DEF ResumeUnlessDone, done, Greeted
  <2>2. CASE frame.at = "yield"
    <3>1. g = Suspend(frame, "final")
      BY <2>2 DEF ResumeUnlessDone, done, Resume, ResumeHello, ReturnVoid
    <3> QED
      BY <2>2, <3>1 DEF Suspend, Frames, Greeted
  <2>3. CASE frame.at = "initial"
    <3>1. g = Yield(frame, "Hello")
      BY <2>3 DEF ResumeUnlessDone, done, Resume, ResumeHello
    <3> QED
      BY <2>3, <3>1 DEF Yield, Frames, Greeted
  <2> QED
    BY <2>1, <2>2, <2>3
<1> HIDE DEF g
<1>3. frame' = [g EXCEPT !.output = ""]
  BY DEF g
<1>4. frame'.at = g.at /\ frame'.output = ""
  BY <1>1, <1>3 DEF Frames
<1>5. Greeted(k + 1)'
  <2>1. frame'.at # "initial"
    BY <1>1, <1>4
  <2>2. k + 1 # 0
    BY Successor
  <2> QED
    BY <1>4, <2>1, <2>2 DEF Greeted
<1> QED
  BY <1>2, <1>5 DEF g

LEMMA EchoResumed ==
    ASSUME body = "echo_input", NEW f \in Frames, f.at \in {"initial", "final"}
    PROVE  ResumeUnlessDone(body, f).at = "final"
<1>1. CASE f.at = "final"
  BY <1>1 DEF ResumeUnlessDone, done
<1>2. CASE f.at = "initial"
  <2>1. ResumeUnlessDone(body, f) = Suspend([f EXCEPT !.input = nullopt], "final")
    BY <1>2 DEF ResumeUnlessDone, done, Resume, ResumeEcho, ReturnVoid
  <2>2. [f EXCEPT !.input = nullopt] \in Frames
    <3>1. nullopt \in Strings
      BY DEF nullopt, Strings
    <3> QED
      BY <3>1 DEF Frames
  <2> QED
    BY <2>1, <2>2, SuspendTypes DEF Points
<1> QED
  BY <1>1, <1>2

(* The function parse_string() of whole strings: its recursion exists.      *)
Numbers(str) ==
    LET num[i \in 0 .. Len(str)] ==
          IF i = 0 THEN 0
          ELSE IF isdigit(str[i].argument) THEN 10 * num[i - 1] + digit(str[i].argument)
          ELSE num[i - 1]
    IN  num

LEMMA NumbersValues ==
    ASSUME NEW str \in Seq(Calls)
    PROVE  /\ Numbers(str)[0] = 0
           /\ \A i \in 0 .. Len(str) : Numbers(str)[i] \in Int
           /\ \A i \in 1 .. Len(str) :
                Numbers(str)[i] =
                  IF isdigit(str[i].argument)
                  THEN 10 * Numbers(str)[i - 1] + digit(str[i].argument)
                  ELSE Numbers(str)[i - 1]
<1>1. PICK l \in Nat : Len(str) = l
  BY LenProperties
<1> DEFINE Onto(i, n) == IF isdigit(str[i].argument)
                         THEN 10 * n + digit(str[i].argument) ELSE n
           G == [i \in Nat |-> [n \in Int |-> Onto(i + 1, n)]]
<1>2. G \in [Nat -> [Int -> Int]]
  <2>1. \A c : isdigit(c) => digit(c) \in Int
    BY Characters
  <2>2. \A i : \A n \in Int : Onto(i, n) \in Int
    <3> SUFFICES ASSUME NEW i, NEW n \in Int PROVE Onto(i, n) \in Int
      OBVIOUS
    <3>1. CASE isdigit(str[i].argument)
      <4>1. PICK d \in Int : d = digit(str[i].argument)
        BY <2>1, <3>1
      <4> QED
        BY <3>1, <4>1
    <3> QED
      BY <3>1
  <2> HIDE DEF Onto
  <2> QED
    BY <2>2
<1>3. PICK p \in [Nat -> Int] : p[0] = 0 /\ \A i \in Nat : p[i + 1] = Onto(i + 1, p[i])
  <2> HIDE DEF Onto
  <2>1. PICK p \in [Nat -> Int] : Iterates(p, 0, G)
    <3>1. 0 \in Int
      OBVIOUS
    <3> HIDE DEF G
    <3> QED
      BY <1>2, <3>1, PrimitiveRecursion
  <2>2. p[0] = 0 /\ \A i \in Nat : p[i + 1] = G[i][p[i]]
    BY <2>1 DEF Iterates
  <2> QED
    BY <2>2
<1> DEFINE g == [i \in 0 .. l |-> p[i]]
           F(f, i) == IF i = 0 THEN 0
                      ELSE IF isdigit(str[i].argument)
                           THEN 10 * f[i - 1] + digit(str[i].argument)
                      ELSE f[i - 1]
<1>4. g = [i \in 0 .. l |-> F(g, i)]
  <2>1. ASSUME NEW i \in 0 .. l PROVE g[i] = F(g, i)
    <3>1. CASE i = 0
      BY <1>3, <3>1
    <3>2. CASE i # 0
      <4>1. i - 1 \in Nat /\ i - 1 + 1 = i /\ i - 1 \in 0 .. l
        BY <3>2
      <4>2. p[i] = Onto(i, p[i - 1]) /\ g[i] = p[i] /\ g[i - 1] = p[i - 1]
        <5> HIDE DEF Onto
        <5> QED
          BY <1>3, <4>1
      <4> HIDE DEF g
      <4> QED
        BY <3>2, <4>2, Zenon
    <3> QED
      BY <3>1, <3>2
  <2> QED
    BY <2>1, Zenon
<1> DEFINE num == Numbers(str)
<1>5. num = [i \in 0 .. l |-> F(num, i)]
  <2> HIDE DEF g
  <2> QED
    BY <1>1, <1>4, Zenon DEF Numbers
<1> HIDE DEF num, g
<1>6. \A i \in 0 .. l : num[i] = F(num, i)
  BY <1>5, Zenon
<1>7. num[0] = 0
  BY <1>6
<1>8. ASSUME NEW i \in 1 .. l PROVE num[i] = Onto(i, num[i - 1])
  <2>1. i \in 0 .. l /\ i # 0
    OBVIOUS
  <2> QED
    BY <1>6, <2>1, Zenon
<1>9. \A i \in 0 .. l : num[i] \in Int
  <2> DEFINE A == {i \in Nat : i <= l => num[i] = p[i]}
  <2>1. 0 \in A
    BY <1>3, <1>7
  <2>2. ASSUME NEW i \in A PROVE i + 1 \in A
    <3>1. CASE i + 1 <= l
      <4>1. i + 1 \in 1 .. l /\ i <= l /\ i + 1 - 1 = i
        BY <3>1
      <4>2. num[i + 1] = Onto(i + 1, num[i]) /\ num[i] = p[i]
        <5> HIDE DEF Onto
        <5> QED
          BY <1>8, <4>1
      <4>3. p[i + 1] = Onto(i + 1, p[i])
        BY <1>3
      <4> HIDE DEF Onto
      <4> QED
        BY <4>2, <4>3
    <3>2. CASE ~ (i + 1 <= l)
      BY <3>2
    <3> QED
      BY <3>1, <3>2
  <2>3. A = Nat
    <3> HIDE DEF A
    <3>1. A \in SUBSET Nat
      BY DEF A
    <3> QED
      BY <2>1, <2>2, <3>1, SetInduction
  <2> QED
    BY <2>3
<1> QED
  BY <1>1, <1>7, <1>8, <1>9 DEF num

(* One more character: the number goes on from where it was.                *)
Parsed(str) == Numbers(str)[Len(str)]
Negative(str) == \E i \in DOMAIN str : str[i].argument = "-"

LEMMA ParsedEmpty == Parsed(<< >>) = 0 /\ ~ Negative(<< >>)
<1>1. << >> \in Seq(Calls) /\ Len(<< >>) = 0 /\ DOMAIN << >> = {}
  OBVIOUS
<1> QED
  BY <1>1, NumbersValues DEF Parsed, Negative

LEMMA ParsedAppend ==
    ASSUME NEW str \in Seq(Calls), NEW call \in Calls
    PROVE  /\ Parsed(str) \in Int
           /\ Parsed(Append(str, call)) =
                IF isdigit(call.argument) THEN 10 * Parsed(str) + digit(call.argument)
                ELSE Parsed(str)
           /\ Negative(Append(str, call)) <=> Negative(str) \/ call.argument = "-"
<1>1. PICK l \in Nat : Len(str) = l /\ DOMAIN str = 1 .. l
  BY LenProperties
<1>2. PICK t \in Seq(Calls) : t = Append(str, call)
  BY AppendProperties
<1>3. /\ Len(t) = l + 1 /\ DOMAIN t = 1 .. l + 1 /\ t[l + 1] = call
      /\ \A i \in 1 .. l : t[i] = str[i]
  BY <1>1, <1>2, AppendProperties, LenProperties
<1> DEFINE Onto(s, i, n) == IF isdigit(s[i].argument)
                            THEN 10 * n + digit(s[i].argument) ELSE n
<1>4. /\ Numbers(str)[0] = 0 /\ Numbers(t)[0] = 0
      /\ \A i \in 0 .. l : Numbers(str)[i] \in Int
      /\ \A i \in 1 .. l : Numbers(str)[i] = Onto(str, i, Numbers(str)[i - 1])
      /\ \A i \in 1 .. l + 1 : Numbers(t)[i] = Onto(t, i, Numbers(t)[i - 1])
  BY <1>1, <1>3, NumbersValues
<1>5. \A i \in 0 .. l : Numbers(t)[i] = Numbers(str)[i]
  <2> DEFINE A == {i \in Nat : i <= l => Numbers(t)[i] = Numbers(str)[i]}
  <2>1. 0 \in A
    BY <1>4
  <2>2. ASSUME NEW i \in A PROVE i + 1 \in A
    <3>1. CASE i + 1 <= l
      <4>1. i + 1 \in 1 .. l /\ i + 1 \in 1 .. l + 1 /\ i <= l /\ i + 1 - 1 = i
        BY <3>1
      <4>2. /\ Numbers(t)[i] = Numbers(str)[i]
            /\ Numbers(t)[i + 1] = Onto(t, i + 1, Numbers(t)[i])
            /\ Numbers(str)[i + 1] = Onto(str, i + 1, Numbers(str)[i])
        <5> HIDE DEF Onto
        <5> QED
          BY <1>4, <4>1
      <4>3. t[i + 1] = str[i + 1]
        BY <1>3, <4>1
      <4>4. Numbers(t)[i + 1] = Numbers(str)[i + 1]
        BY <4>2, <4>3
      <4> QED
        BY <4>4
    <3>2. CASE ~ (i + 1 <= l)
      BY <3>2
    <3> QED
      BY <3>1, <3>2
  <2>3. A = Nat
    <3> HIDE DEF A
    <3>1. A \in SUBSET Nat
      BY DEF A
    <3> QED
      BY <2>1, <2>2, <3>1, SetInduction
  <2> QED
    BY <2>3
<1>6. Parsed(str) = Numbers(str)[l] /\ Parsed(str) \in Int
  BY <1>1, <1>4 DEF Parsed
<1>7. Parsed(t) = Onto(t, l + 1, Parsed(str))
  <2>1. l + 1 \in 1 .. l + 1 /\ l + 1 - 1 = l /\ l \in 0 .. l
    OBVIOUS
  <2>2. Numbers(t)[l + 1] = Onto(t, l + 1, Numbers(t)[l])
    <3> HIDE DEF Onto
    <3> QED
      BY <1>4, <2>1
  <2>3. Parsed(t) = Numbers(t)[l + 1] /\ Numbers(t)[l] = Parsed(str)
    BY <1>3, <1>5, <1>6, <2>1 DEF Parsed
  <2> HIDE DEF Onto
  <2> QED
    BY <2>2, <2>3
<1>8. Negative(t) <=> Negative(str) \/ call.argument = "-"
  <2>1. ASSUME NEW i \in 1 .. l + 1, t[i].argument = "-"
        PROVE  Negative(str) \/ call.argument = "-"
    <3>1. CASE i = l + 1
      BY <1>3, <2>1, <3>1
    <3>2. CASE i # l + 1
      <4>1. i \in 1 .. l
        BY <3>2
      <4> QED
        BY <1>1, <1>3, <2>1, <4>1 DEF Negative
    <3> QED
      BY <3>1, <3>2
  <2>2. ASSUME NEW i \in 1 .. l, str[i].argument = "-" PROVE Negative(t)
    <3>1. i \in 1 .. l + 1
      OBVIOUS
    <3> QED
      BY <1>3, <2>2, <3>1 DEF Negative
  <2>3. l + 1 \in 1 .. l + 1
    OBVIOUS
  <2> QED
    BY <1>1, <1>3, <2>1, <2>2, <2>3 DEF Negative
<1> QED
  BY <1>2, <1>3, <1>6, <1>7, <1>8

LEMMA ParsesString ==
    ASSUME NEW str
    PROVE  parse_string(str) = IF Negative(str) THEN - Parsed(str) ELSE Parsed(str)
BY DEF parse_string, Negative, Parsed, Numbers

LEMMA LastOfSubSeq ==
    ASSUME NEW S, NEW t \in Seq(S), NEW l \in Nat, Len(t) = l + 1, NEW g \in 0 .. l
    PROVE  SubSeq(t, g + 1, l + 1) = SubSeq(t, g + 1, l) \o << t[l + 1] >>
<1>1. PICK m \in Nat, n \in Nat : m = g + 1 /\ n = l + 1
  OBVIOUS
<1>2. SubSeq(t, m, n) = SubSeq(t, m, n - 1) \o << t[n] >>
  <2>1. m \in 1 .. Len(t) /\ n \in m .. Len(t)
    BY <1>1
  <2> QED
    BY <2>1, SubSeqRecursiveSecond
<1>3. n - 1 = l
  BY <1>1
<1> QED
  BY <1>1, <1>2, <1>3, Zenon

(* What a call adds to the piece since the last get().                      *)
LEMMA PieceOfAppend ==
    ASSUME NEW s \in Seq(Calls), NEW g, LastGet(s, g), NEW call \in Calls
    PROVE  /\ Piece(s) \in Seq(Calls)
           /\ call.op # "get" => Piece(Append(s, call)) = Append(Piece(s), call)
           /\ call.op = "get" => Piece(Append(s, call)) = << >>
<1>1. PICK l \in Nat : Len(s) = l /\ g \in 0 .. l
  BY LenProperties DEF LastGet
<1>2. PICK t \in Seq(Calls) : t = Append(s, call)
  BY AppendProperties
<1>3. /\ Len(t) = l + 1 /\ t[l + 1] = call
      /\ \A i \in 1 .. l : t[i] = s[i]
  BY <1>1, <1>2, AppendProperties
<1>4. Piece(s) = SubSeq(s, g + 1, l) /\ Piece(s) \in Seq(Calls)
  BY <1>1, PieceSinceGet
<1>5. CASE call.op # "get"
  <2>1. LastGet(t, g)
    <3>1. ASSUME NEW i \in 1 .. l + 1, t[i].op = "get" PROVE i \in 1 .. l
      <4>1. i # l + 1
        BY <1>3, <1>5, <3>1
      <4> QED
        BY <4>1
    <3>2. \A i \in 1 .. l + 1 : t[i].op = "get" => i <= g
      BY <1>1, <1>3, <3>1 DEF LastGet
    <3>3. g # 0 => t[g].op = "get"
      BY <1>1, <1>3 DEF LastGet
    <3> QED
      BY <1>1, <1>3, <3>2, <3>3 DEF LastGet
  <2>2. Piece(t) = SubSeq(t, g + 1, l + 1)
    BY <1>3, <2>1, PieceSinceGet
  <2>3. SubSeq(t, g + 1, l + 1) = Append(SubSeq(s, g + 1, l), call)
    <3>1. SubSeq(t, g + 1, l) = SubSeq(s, g + 1, l)
      BY <1>1, <1>2, SubSeqOfAppend
    <3>2. SubSeq(t, g + 1, l + 1) = SubSeq(t, g + 1, l) \o << t[l + 1] >>
      BY <1>1, <1>3, LastOfSubSeq
    <3>3. SubSeq(s, g + 1, l) \o << call >> = Append(SubSeq(s, g + 1, l), call)
      BY <1>4, AppendIsConcat
    <3> QED
      BY <1>3, <3>1, <3>2, <3>3
  <2> QED
    BY <1>2, <1>4, <1>5, <2>2, <2>3
<1>6. CASE call.op = "get"
  <2>1. LastGet(t, l + 1)
    BY <1>3, <1>6 DEF LastGet
  <2>2. Piece(t) = SubSeq(t, l + 1 + 1, l + 1)
    BY <1>3, <2>1, PieceSinceGet
  <2>3. SubSeq(t, l + 1 + 1, l + 1) = << >>
    BY <1>3, SubSeqEmpty
  <2> QED
    BY <1>2, <1>4, <1>6, <2>2, <2>3
<1> QED
  BY <1>5, <1>6

LEMMA PieceGrows ==
    ASSUME NEW p \in Seq(Calls), NEW call \in Calls
    PROVE  /\ Ended(Append(p, call)) <=> call.argument = "#"
           /\ Started(Append(p, call)) <=> Started(p) \/ call.argument # "x"
<1>1. PICK l \in Nat : Len(p) = l /\ DOMAIN p = 1 .. l
  BY LenProperties
<1>2. PICK t \in Seq(Calls) : t = Append(p, call)
  BY AppendProperties
<1>3. /\ Len(t) = l + 1 /\ DOMAIN t = 1 .. l + 1 /\ t[l + 1] = call /\ t # << >>
      /\ \A i \in 1 .. l : t[i] = p[i]
  BY <1>1, <1>2, AppendProperties, LenProperties
<1>4. Ended(t) <=> call.argument = "#"
  BY <1>3 DEF Ended
<1>5. Started(t) <=> Started(p) \/ call.argument # "x"
  <2>1. ASSUME NEW i \in 1 .. l + 1, t[i].argument # "x"
        PROVE  Started(p) \/ call.argument # "x"
    <3>1. CASE i = l + 1
      BY <1>3, <2>1, <3>1
    <3>2. CASE i # l + 1
      <4>1. i \in 1 .. l
        BY <3>2
      <4> QED
        BY <1>1, <1>3, <2>1, <4>1 DEF Started
    <3> QED
      BY <3>1, <3>2
  <2>2. ASSUME NEW i \in 1 .. l, p[i].argument # "x" PROVE Started(t)
    <3>1. i \in 1 .. l + 1
      OBVIOUS
    <3> QED
      BY <1>3, <2>2, <3>1 DEF Started
  <2>3. l + 1 \in 1 .. l + 1
    OBVIOUS
  <2> QED
    BY <1>1, <1>3, <2>1, <2>2, <2>3 DEF Started
<1> QED
  BY <1>2, <1>4, <1>5

(* What the parser makes of a character.                                    *)
LEMMA ParserReckons ==
    ASSUME NEW f \in Frames, NEW c \in {"-", "+", "1", "2", "x", "#"}, f.input = c
    PROVE  LET g == Resume("parse_string", f) IN
           /\ f.at \in {"initial", "first"} /\ c \in {"-", "+", "1", "2"} =>
                /\ g.number = IF isdigit(c) THEN digit(c) ELSE 0
                /\ g.sign = IF c = "-" THEN -1 ELSE 1
           /\ f.at = "more" /\ c \in {"1", "2"} =>
                g.number = 10 * f.number + digit(c) /\ g.sign = f.sign
           /\ f.at = "more" /\ c = "#" => g.output = f.number * f.sign
<1> DEFINE h == [f EXCEPT !.input = nullopt]
           r == Resume("parse_string", f)
<1>1. c # nullopt /\ nullopt \in Strings
  BY DEF nullopt, Strings
<1>2. f.at \in {"initial", "first", "more"} => r = ResumeParser(f)
  BY DEF Resume
<1>3. h \in Frames /\ h.number = f.number /\ h.sign = f.sign
  BY <1>1 DEF Frames
<1>4. ASSUME f.at \in {"initial", "first"}, c \in {"-", "+", "1", "2"}
      PROVE  /\ r.number = IF isdigit(c) THEN digit(c) ELSE 0
             /\ r.sign = IF c = "-" THEN -1 ELSE 1
  <2>1. r = FirstCharacter(f, c)
    BY <1>1, <1>2, <1>4 DEF ResumeParser
  <2>2. isdigit(c) \/ c \in {"-", "+"}
    BY <1>4, Characters
  <2>3. PICK x, y : x = (IF c = "-" THEN -1 ELSE 1) /\ y = (IF isdigit(c) THEN digit(c) ELSE 0)
    OBVIOUS
  <2>4. r = [h EXCEPT !.at = "more", !.sign = x, !.number = y]
    BY <2>1, <2>2, <2>3 DEF FirstCharacter
  <2> HIDE DEF h, r
  <2>5. r.number = y /\ r.sign = x
    BY <1>3, <2>4 DEF Frames
  <2> QED
    BY <2>3, <2>5
<1>5. ASSUME f.at = "more", c \in {"1", "2"}
      PROVE  r.number = 10 * f.number + digit(c) /\ r.sign = f.sign
  <2>1. r = NextCharacter(f, c) /\ isdigit(c)
    BY <1>1, <1>2, <1>5, Characters DEF ResumeParser
  <2>2. PICK y : y = 10 * h.number + digit(c)
    OBVIOUS
  <2>3. r = [h EXCEPT !.number = y]
    BY <2>1, <2>2 DEF NextCharacter
  <2> HIDE DEF h, r
  <2>4. r.number = y /\ r.sign = h.sign
    BY <1>3, <2>3 DEF Frames
  <2> QED
    BY <1>3, <2>2, <2>4
<1>6. ASSUME f.at = "more", c = "#" PROVE r.output = f.number * f.sign
  <2>1. r = NextCharacter(f, c) /\ ~ isdigit(c)
    BY <1>1, <1>2, <1>6, Characters DEF ResumeParser
  <2>2. PICK y : y = h.number * h.sign
    OBVIOUS
  <2>3. r = Yield(h, y)
    BY <2>1, <2>2 DEF NextCharacter
  <2> HIDE DEF h, r
  <2>4. r.output = y
    BY <1>3, <2>3 DEF Frames, Yield
  <2> QED
    BY <1>3, <2>2, <2>4
<1> QED
  BY <1>4, <1>5, <1>6

(* The number so far is that of the characters so far.                      *)
ParsesFrom(p) ==
    /\ ~ Started(p) => Parsed(p) = 0 /\ ~ Negative(p)
    /\ Started(p) /\ ~ Ended(p) =>
         /\ frame.number = Parsed(p)
         /\ frame.sign = IF Negative(p) THEN -1 ELSE 1
    /\ Ended(p) => frame.output = parse_string(p)

LEMMA ParserPuts ==
    ASSUME NEW p \in Seq(Calls), ParsesFrom(p), frame \in Frames, NEW call \in Calls,
           NEW c \in {"-", "+", "1", "2", "x", "#"}, call.argument = c,
           ~ Ended(p), c \in {"-", "+", "x"} => ~ Started(p), c = "#" => Started(p),
           Started(p) => frame.at = "more",
           ~ Started(p) => frame.at \in {"initial", "first"},
           frame' = Resume("parse_string", [frame EXCEPT !.input = c])
    PROVE  ParsesFrom(Append(p, call))'
<1>1. PICK t \in Seq(Calls) : t = Append(p, call)
  BY AppendProperties
<1>2. /\ Ended(t) <=> c = "#"
      /\ Started(t) <=> Started(p) \/ c # "x"
  BY <1>1, PieceGrows
<1>3. /\ Parsed(p) \in Int
      /\ Parsed(t) = IF isdigit(c) THEN 10 * Parsed(p) + digit(c) ELSE Parsed(p)
      /\ Negative(t) <=> Negative(p) \/ c = "-"
  BY <1>1, ParsedAppend
<1> DEFINE f == [frame EXCEPT !.input = c]
<1>4. /\ f \in Frames /\ f.at = frame.at /\ f.input = c
      /\ f.number = frame.number /\ f.sign = frame.sign
  <2>1. c \in Strings
    BY DEF Strings
  <2> QED
    BY <2>1 DEF Frames
<1>5. frame' = Resume("parse_string", f)
  OBVIOUS
<1> HIDE DEF f
<1>6. /\ f.at \in {"initial", "first"} /\ c \in {"-", "+", "1", "2"} =>
           /\ frame'.number = IF isdigit(c) THEN digit(c) ELSE 0
           /\ frame'.sign = IF c = "-" THEN -1 ELSE 1
      /\ f.at = "more" /\ c \in {"1", "2"} =>
           frame'.number = 10 * f.number + digit(c) /\ frame'.sign = f.sign
      /\ f.at = "more" /\ c = "#" => frame'.output = f.number * f.sign
  BY <1>4, <1>5, ParserReckons
<1>7. ~ Started(t) => Parsed(t) = 0 /\ ~ Negative(t)
  BY <1>2, <1>3, Characters DEF ParsesFrom
<1>8. ASSUME Started(t), ~ Ended(t)
      PROVE  frame'.number = Parsed(t) /\ frame'.sign = IF Negative(t) THEN -1 ELSE 1
  <2>1. CASE Started(p)
    <3>1. c \in {"1", "2"} /\ isdigit(c) /\ c # "-"
      BY <1>2, <1>8, <2>1, Characters
    <3>2. frame.number = Parsed(p) /\ frame.sign = IF Negative(p) THEN -1 ELSE 1
      BY <2>1 DEF ParsesFrom
    <3>3. frame'.number = 10 * frame.number + digit(c) /\ frame'.sign = frame.sign
      BY <1>4, <1>6, <2>1, <3>1
    <3> QED
      BY <1>3, <3>1, <3>2, <3>3
  <2>2. CASE ~ Started(p)
    <3>1. c \in {"-", "+", "1", "2"}
      BY <1>2, <1>8, <2>2
    <3>2. Parsed(p) = 0 /\ ~ Negative(p)
      BY <2>2 DEF ParsesFrom
    <3>3. /\ frame'.number = IF isdigit(c) THEN digit(c) ELSE 0
          /\ frame'.sign = IF c = "-" THEN -1 ELSE 1
      BY <1>4, <1>6, <2>2, <3>1
    <3>4. Parsed(t) = IF isdigit(c) THEN digit(c) ELSE 0
      <4>1. CASE isdigit(c)
        <5>1. PICK d \in Int : d = digit(c)
          BY <4>1, Characters
        <5> QED
          BY <1>3, <3>2, <4>1, <5>1
      <4> QED
        BY <1>3, <3>2, <4>1
    <3> QED
      BY <1>3, <3>2, <3>3, <3>4
  <2> QED
    BY <2>1, <2>2
<1>9. ASSUME Ended(t) PROVE frame'.output = parse_string(t)
  <2>1. c = "#" /\ Started(p) /\ frame.at = "more"
    BY <1>2, <1>9
  <2>2. frame.number = Parsed(p) /\ frame.sign = IF Negative(p) THEN -1 ELSE 1
    BY <2>1 DEF ParsesFrom
  <2>3. frame'.output = frame.number * frame.sign
    BY <1>4, <1>6, <2>1
  <2>4. Parsed(t) = Parsed(p) /\ (Negative(t) <=> Negative(p))
    BY <1>3, <2>1, Characters
  <2>5. PICK n \in Int : n = Parsed(p)
    BY <1>3
  <2>6. n * (-1) = - n /\ n * 1 = n
    OBVIOUS
  <2> QED
    BY <2>2, <2>3, <2>4, <2>5, <2>6, ParsesString
<1> QED
  BY <1>1, <1>7, <1>8, <1>9 DEF ParsesFrom

(* What the frame keeps of the calls made of the object, for every program. *)
FrameKeeps ==
    /\ \A k : k = HowMany("next", calls) =>
         /\ body \in summing => Summing(k)
         /\ body = "numbers" => Counts(k)
    /\ body = "hello" => \A k : k = HowMany("get", calls) => Greeted(k)
    /\ body = "echo_input" => frame.at = IF calls = << >> THEN "initial" ELSE "final"
    /\ body = "parse_string" =>
         /\ calls = << >> => frame.output = 0
         /\ \A p : p = Piece(calls) => ParsesFrom(p)

AnswerInv == AnswersAsPromised /\ (InUse => FrameKeeps)

(* Of no characters parse_string() makes 0.                                 *)
LEMMA NothingPut ==
    /\ Piece(<< >>) = << >> /\ ~ Started(<< >>) /\ ~ Ended(<< >>)
    /\ parse_string(<< >>) = 0
<1>1. << >> \in Seq(Calls) /\ Len(<< >>) = 0
  OBVIOUS
<1>2. Piece(<< >>) = << >>
  <2>1. LastGet(<< >>, 0)
    BY <1>1 DEF LastGet
  <2>2. Piece(<< >>) = SubSeq(<< >>, 0 + 1, Len(<< >>))
    BY <1>1, <2>1, PieceSinceGet
  <2>3. SubSeq(<< >>, 0 + 1, Len(<< >>)) = << >>
    BY <1>1, SubSeqEmpty
  <2> QED
    BY <2>2, <2>3
<1>3. ~ Started(<< >>) /\ ~ Ended(<< >>)
  BY DEF Started, Ended
<1> QED
  BY <1>2, <1>3, ParsedEmpty, ParsesString

LEMMA AnswerInvInit == Init => AnswerInv
<1> SUFFICES ASSUME Init PROVE AnswerInv
  OBVIOUS
<1>0. calls = << >>
  BY DEF Init, CoroutineInit
<1>1. /\ frame.at = "initial" /\ frame.a = 0 /\ frame.b = 1
      /\ frame.number = 0 /\ frame.left = LIMIT
      /\ body \notin strings => frame.output = 0
      /\ body \in strings => frame.output = ""
  BY DEF Init, CoroutineInit
<1>e. \A s : s = << >> => /\ DOMAIN s = {} /\ Len(s) = 0 /\ s \in Seq(Calls)
  OBVIOUS
<1>f. DOMAIN calls = {} /\ Len(calls) = 0 /\ calls \in Seq(Calls)
  BY <1>0, <1>e, Zenon
<1>2. HowMany("next", calls) = 0 /\ HowMany("get", calls) = 0
  <2>2. \A op : {i \in DOMAIN calls : calls[i].op = op} = {}
    BY <1>f
  <2> QED
    BY <2>2, FS_EmptySet DEF HowMany
<1>3. AnswersAsPromised
  BY <1>f, Zenon DEF AnswersAsPromised
<1>4. LIMIT - 0 = LIMIT /\ 0 <= LIMIT
  BY CoroutinesAssumption
<1>5. body \in summing => Summing(0)
  BY <1>1, <1>4 DEF Summing, summing, strings
<1>6. body = "numbers" => Counts(0)
  BY <1>1 DEF Counts, strings
<1>7. body = "hello" => Greeted(0)
  BY <1>1 DEF Greeted, strings
<1>8. ParsesFrom(Piece(calls))
  BY <1>0, NothingPut, ParsedEmpty DEF ParsesFrom
<1>9. frame.at = IF calls = << >> THEN "initial" ELSE "final"
  BY <1>0, <1>1, Zenon
<1>10. FrameKeeps
  BY <1>1, <1>2, <1>5, <1>6, <1>7, <1>8, <1>9 DEF FrameKeeps, strings
<1> QED
  BY <1>3, <1>10 DEF AnswerInv

LEMMA NextAnswers ==
    ASSUME CoroutineInv, AnswerInv, next PROVE AnswerInv'
<1>1. /\ CoroutineTypes /\ calls \in Seq(Calls) /\ frame \in Frames
      /\ InUse /\ body \in generators
  BY DEF CoroutineInv, CoroutineTypes, next, Called
<1>2. frame.at \in {"initial", "yield", "final"}
  BY <1>1 DEF CoroutineInv, InUse, generators
<1>3. PICK call \in Calls :
        /\ call.op = "next" /\ call.result = ~ done(frame')
        /\ calls' = Append(calls, call) /\ body' = body
  <2>1. PICK result \in Results : Called("next", nullopt, result) /\ result = ~ done(frame')
    BY DEF next, Results, done
  <2>2. "next" \in Strings /\ nullopt \in Strings
    BY DEF Strings, nullopt
  <2> QED
    BY <1>1, <2>1, <2>2, CalledCall
<1>4. PICK k \in Nat : k = HowMany("next", calls)
  BY <1>1, <1>3, OneMoreCall
<1>5. HowMany("next", calls') = k + 1
  BY <1>1, <1>3, <1>4, OneMoreCall
<1>6. frame' = ResumeUnlessDone(body, frame)
  BY DEF next
<1>7. CASE body \in summing
  <2>1. Summing(k)
    BY <1>1, <1>4, <1>7 DEF AnswerInv, FrameKeeps
  <2>2. /\ Summing(k + 1)'
        /\ frame'.at # "final" <=> (body = "fibonacci_limited" => k < LIMIT)
    BY <1>1, <1>2, <1>3, <1>6, <1>7, <2>1, SummingResumed
  <2>3. call.result = Promised(calls, call)
    <3>1. CASE body = "fibonacci_limited"
      <4>1. call.result = (k < LIMIT)
        BY <1>3, <2>2, <3>1 DEF done
      <4>2. Promised(calls, call) = (k < LIMIT)
        BY <1>3, <1>4, <3>1 DEF Promised
      <4> QED
        BY <4>1, <4>2
    <3>2. CASE body # "fibonacci_limited"
      <4>1. call.result = TRUE
        BY <1>3, <2>2, <3>2 DEF done
      <4>2. Promised(calls, call) = TRUE
        BY <1>3, <1>7, <3>2 DEF Promised, summing
      <4> QED
        BY <4>1, <4>2
    <3> QED
      BY <3>1, <3>2
  <2>4. AnswersAsPromised'
    BY <1>1, <1>3, <2>3, AnswersKept DEF AnswerInv
  <2>5. FrameKeeps'
    BY <1>3, <1>5, <1>7, <2>2 DEF FrameKeeps, summing
  <2> QED
    BY <2>4, <2>5 DEF AnswerInv
<1>8. CASE body = "numbers"
  <2>1. Counts(k)
    BY <1>1, <1>4, <1>8 DEF AnswerInv, FrameKeeps
  <2>2. /\ Counts(k + 1)'
        /\ frame'.at # "final" <=> k < 5
    BY <1>1, <1>2, <1>6, <1>8, <2>1, NumbersResumed
  <2>3. call.result = Promised(calls, call)
    <3>1. call.result = (k < 5)
      BY <1>3, <2>2 DEF done
    <3>2. Promised(calls, call) = (k < 5)
      BY <1>3, <1>4, <1>8 DEF Promised
    <3> QED
      BY <3>1, <3>2
  <2>4. AnswersAsPromised'
    BY <1>1, <1>3, <2>3, AnswersKept DEF AnswerInv
  <2>5. FrameKeeps'
    BY <1>3, <1>5, <1>8, <2>2 DEF FrameKeeps, summing
  <2> QED
    BY <2>4, <2>5 DEF AnswerInv
<1> QED
  BY <1>1, <1>7, <1>8 DEF generators, summing

LEMMA ValueAnswers ==
    ASSUME CoroutineInv, AnswerInv, value PROVE AnswerInv'
<1>1. /\ CoroutineTypes /\ calls \in Seq(Calls) /\ frame \in Frames
      /\ InUse /\ body \in generators /\ Readable /\ frame' = frame
  BY DEF CoroutineInv, CoroutineTypes, value, Called
<1>2. frame.at \in {"initial", "yield", "final"}
  BY <1>1 DEF CoroutineInv, InUse, generators
<1>3. PICK call \in Calls :
        /\ call.op = "value" /\ call.result = frame.output
        /\ calls' = Append(calls, call) /\ body' = body
  <2>1. Called("value", nullopt, frame.output)
    BY DEF value
  <2>2. "value" \in Strings /\ nullopt \in Strings /\ frame.output \in Results
    BY <1>1, FrameFields DEF Strings, nullopt, Results
  <2> QED
    BY <1>1, <2>1, <2>2, CalledCall
<1>4. PICK k \in Nat : k = HowMany("next", calls)
  BY <1>1, <1>3, OneMoreCall
<1>5. HowMany("next", calls') = k
  BY <1>1, <1>3, <1>4, OneMoreCall
<1>6. CASE body \in summing
  <2>1. Summing(k)
    BY <1>1, <1>4, <1>6 DEF AnswerInv, FrameKeeps
  <2>2. Summing(k)'
    BY <1>1, <1>3, <2>1 DEF Summing, Reduce
  <2>3. call.result = Promised(calls, call)
    <3>1. CASE body = "fibonacci"
      <4>1. Promised(calls, call) = IF k = 0 THEN 0 ELSE Fib[k - 1] % MODULUS
        BY <1>3, <1>4, <3>1 DEF Promised
      <4>2. frame.output = IF k = 0 THEN 0 ELSE Fib[k - 1] % MODULUS
        BY <1>2, <2>1, <3>1 DEF Summing, Reduce
      <4> QED
        BY <1>3, <4>1, <4>2
    <3>2. CASE body # "fibonacci"
      <4>1. Promised(calls, call) = Fib[k - 1]
        BY <1>3, <1>4, <1>6, <3>2 DEF Promised, summing
      <4>2. frame.at = "yield"
        BY <1>1, <1>6, <3>2 DEF Readable, summing
      <4>3. frame.output = Fib[k - 1]
        BY <2>1, <3>2, <4>2 DEF Summing, Reduce
      <4> QED
        BY <1>3, <4>1, <4>3
    <3> QED
      BY <3>1, <3>2
  <2>4. AnswersAsPromised'
    BY <1>1, <1>3, <2>3, AnswersKept DEF AnswerInv
  <2>5. FrameKeeps'
    BY <1>3, <1>5, <1>6, <2>2 DEF FrameKeeps, summing
  <2> QED
    BY <2>4, <2>5 DEF AnswerInv
<1>7. CASE body = "numbers"
  <2>1. Counts(k)
    BY <1>1, <1>4, <1>7 DEF AnswerInv, FrameKeeps
  <2>2. Counts(k)'
    BY <1>1, <2>1 DEF Counts
  <2>3. call.result = Promised(calls, call)
    <3>1. k > 0
      BY <1>1, <1>4, <1>7 DEF Readable
    <3>2. Promised(calls, call) = (IF k < 5 THEN k ELSE 5) - 1
      BY <1>3, <1>4, <1>7 DEF Promised
    <3>3. frame.output = (IF k < 5 THEN k ELSE 5) - 1
      BY <1>2, <2>1, <3>1 DEF Counts
    <3> QED
      BY <1>3, <3>2, <3>3
  <2>4. AnswersAsPromised'
    BY <1>1, <1>3, <2>3, AnswersKept DEF AnswerInv
  <2>5. FrameKeeps'
    BY <1>3, <1>5, <1>7, <2>2 DEF FrameKeeps, summing
  <2> QED
    BY <2>4, <2>5 DEF AnswerInv
<1> QED
  BY <1>1, <1>6, <1>7 DEF generators, summing

LEMMA GetStringAnswers ==
    ASSUME CoroutineInv, AnswerInv, GetString PROVE AnswerInv'
<1>1. /\ CoroutineTypes /\ calls \in Seq(Calls) /\ frame \in Frames
      /\ InUse /\ body = "hello"
  BY DEF CoroutineInv, CoroutineTypes, GetString, Called
<1>2. frame.at \in {"initial", "yield", "final"}
  BY <1>1 DEF CoroutineInv, InUse
<1> DEFINE f == ResumeUnlessDone(body, frame)
<1>3. f \in Frames /\ f.output \in Results
  <2>1. f \in Frames
    BY <1>1, <1>2, ResumedUnlessDone DEF AllBodies
  <2> QED
    BY <2>1, FrameFields DEF Results
<1>4. Called("get", nullopt, f.output) /\ frame' = [f EXCEPT !.output = ""]
  BY DEF GetString
<1>5. PICK call \in Calls :
        /\ call.op = "get" /\ call.result = f.output
        /\ calls' = Append(calls, call) /\ body' = body
  <2>1. "get" \in Strings /\ nullopt \in Strings
    BY DEF Strings, nullopt
  <2>2. PICK result \in Results : result = f.output
    BY <1>3
  <2>3. Called("get", nullopt, result)
    BY <1>4, <2>2, Zenon
  <2> HIDE DEF f
  <2> QED
    BY <1>1, <2>1, <2>2, <2>3, CalledCall
<1>6. PICK k \in Nat : k = HowMany("get", calls)
  BY <1>1, <1>5, OneMoreCall
<1>7. HowMany("get", calls') = k + 1
  BY <1>1, <1>5, <1>6, OneMoreCall
<1>8. Greeted(k)
  BY <1>1, <1>6 DEF AnswerInv, FrameKeeps
<1>9. Greeted(k + 1)' /\ f.output = IF k = 0 THEN "Hello" ELSE ""
  BY <1>1, <1>2, <1>4, <1>8, HelloResumed
<1>10. call.result = Promised(calls, call)
  <2>1. Promised(calls, call) = IF k = 0 THEN "Hello" ELSE ""
    BY <1>1, <1>5, <1>6 DEF Promised
  <2> QED
    BY <1>5, <1>9, <2>1
<1>11. AnswersAsPromised'
  BY <1>1, <1>5, <1>10, AnswersKept DEF AnswerInv
<1>12. FrameKeeps'
  BY <1>1, <1>5, <1>7, <1>9 DEF FrameKeeps, summing
<1> QED
  BY <1>11, <1>12 DEF AnswerInv

LEMMA EchoPutAnswers ==
    ASSUME CoroutineInv, AnswerInv, body = "echo_input", NEW c \in {"x", "y"}, Put(c)
    PROVE  AnswerInv'
<1>1. /\ CoroutineTypes /\ calls \in Seq(Calls) /\ frame \in Frames /\ InUse
  BY DEF CoroutineInv, CoroutineTypes, Put, Called
<1>2. frame.at = IF calls = << >> THEN "initial" ELSE "final"
  BY <1>1 DEF AnswerInv, FrameKeeps
<1>3. c \in Strings /\ "put" \in Strings /\ nullopt \in Strings
  BY DEF Strings, nullopt
<1>4. frame'.at = "final"
  <2>1. /\ [frame EXCEPT !.input = c] \in Frames
        /\ [frame EXCEPT !.input = c].at = frame.at
    BY <1>1, <1>3 DEF Frames
  <2> QED
    BY <1>2, <2>1, EchoResumed DEF Put
<1> DEFINE answer == IF calls = << >> THEN c ELSE nullopt
<1>5. Called("put", c, answer)
  BY <1>2 DEF Put, done
<1>6. PICK call \in Calls :
        /\ call.op = "put" /\ call.argument = c /\ call.result = answer
        /\ calls' = Append(calls, call) /\ body' = body
  <2>1. answer \in Results
    BY <1>3 DEF Results
  <2> HIDE DEF answer
  <2> QED
    BY <1>1, <1>3, <1>5, <2>1, CalledCall
<1>7. call.result = Promised(calls, call)
  BY <1>6 DEF Promised
<1>8. AnswersAsPromised'
  BY <1>1, <1>6, <1>7, AnswersKept DEF AnswerInv
<1>9. calls' # << >>
  <2>1. Len(calls') = Len(calls) + 1 /\ Len(calls) \in Nat /\ calls' \in Seq(Calls)
    BY <1>1, <1>6, AppendProperties, LenProperties
  <2>2. Len(calls') # 0
    BY <2>1
  <2> QED
    BY <2>1, <2>2, EmptySeq
<1>10. FrameKeeps'
  BY <1>4, <1>6, <1>9 DEF FrameKeeps, summing
<1> QED
  BY <1>8, <1>10 DEF AnswerInv

(* What ParserWaits says of the piece.                                      *)
LEMMA ParserPlace ==
    ASSUME CoroutineInv, InUse, body = "parse_string"
    PROVE  \E g \in Nat :
             /\ LastGet(calls, g) /\ frame.input = nullopt
             /\ Ended(Piece(calls)) => frame.at = "yield"
             /\ Started(Piece(calls)) /\ ~ Ended(Piece(calls)) => frame.at = "more"
             /\ ~ Started(Piece(calls)) =>
                  frame.at = IF calls = << >> THEN "initial" ELSE "first"
<1>1. calls \in Seq(Calls)
  BY DEF CoroutineInv, CoroutineTypes
<1>2. PICK g \in 0 .. Len(calls) : ParserWaits(g)
  BY <1>1 DEF CoroutineInv
<1>3. g \in Nat
  BY <1>1, <1>2, LenProperties
<1>4. LastGet(calls, g) /\ frame.input = nullopt
  BY <1>2 DEF ParserWaits
<1>5. /\ Ended(Piece(calls)) <=> g < Len(calls) /\ calls[Len(calls)].argument = "#"
      /\ Started(Piece(calls)) <=> \E i \in g + 1 .. Len(calls) : calls[i].argument # "x"
  BY <1>1, <1>4, PieceSinceGet
<1>6. /\ Ended(Piece(calls)) => frame.at = "yield"
      /\ Started(Piece(calls)) /\ ~ Ended(Piece(calls)) => frame.at = "more"
      /\ ~ Started(Piece(calls)) =>
           frame.at = IF calls = << >> THEN "initial" ELSE "first"
  BY <1>1, <1>2, <1>5, EmptySeq DEF ParserWaits
<1> QED
  BY <1>3, <1>4, <1>6

LEMMA ParserPutAnswers ==
    ASSUME CoroutineInv, AnswerInv, body = "parse_string",
           NEW c \in {"-", "+", "1", "2", "x", "#"}, Put(c), ~ Ended(Piece(calls)),
           c \in {"-", "+", "x"} => ~ Started(Piece(calls)), c = "#" => Started(Piece(calls))
    PROVE  AnswerInv'
<1>1. /\ CoroutineTypes /\ calls \in Seq(Calls) /\ frame \in Frames /\ InUse
  BY DEF CoroutineInv, CoroutineTypes, Put, Called
<1>2. PICK g \in Nat :
        /\ LastGet(calls, g)
        /\ Started(Piece(calls)) => frame.at = "more"
        /\ ~ Started(Piece(calls)) =>
             frame.at = IF calls = << >> THEN "initial" ELSE "first"
  BY <1>1, ParserPlace
<1>3. c \in Strings /\ "put" \in Strings /\ nullopt \in Strings
  BY DEF Strings, nullopt
<1>4. PICK call \in Calls :
        /\ call.op = "put" /\ call.argument = c /\ call.result = nullopt
        /\ calls' = Append(calls, call) /\ body' = body
  <2>1. Called("put", c, nullopt) /\ nullopt \in Results
    BY <1>3 DEF Put, Results
  <2> QED
    BY <1>1, <1>3, <2>1, CalledCall
<1>5. frame' = Resume("parse_string", [frame EXCEPT !.input = c])
  <2>1. [frame EXCEPT !.input = c].at = frame.at
    BY <1>1 DEF Frames
  <2>2. frame.at # "final"
    BY <1>2
  <2> QED
    BY <2>1, <2>2 DEF Put, ResumeUnlessDone, done
<1>6. Piece(calls) \in Seq(Calls) /\ Piece(calls') = Append(Piece(calls), call)
  BY <1>1, <1>2, <1>4, PieceOfAppend
<1>7. PICK p \in Seq(Calls) : p = Piece(calls)
  BY <1>6
<1>8. ParsesFrom(p)
  BY <1>1, <1>7 DEF AnswerInv, FrameKeeps
<1>9. ParsesFrom(Append(p, call))'
  BY <1>1, <1>2, <1>4, <1>5, <1>7, <1>8, ParserPuts
<1>10. call.result = Promised(calls, call)
  BY <1>4 DEF Promised
<1>11. AnswersAsPromised'
  BY <1>1, <1>4, <1>10, AnswersKept DEF AnswerInv
<1>a. calls' # << >>
  <2>1. Len(calls') = Len(calls) + 1 /\ Len(calls) \in Nat /\ calls' \in Seq(Calls)
    BY <1>1, <1>4, AppendProperties, LenProperties
  <2>2. Len(calls') # 0
    BY <2>1
  <2> QED
    BY <2>1, <2>2, EmptySeq
<1>12. FrameKeeps'
  BY <1>4, <1>6, <1>7, <1>9, <1>a DEF FrameKeeps, summing
<1> QED
  BY <1>11, <1>12 DEF AnswerInv

LEMMA GetNumberAnswers ==
    ASSUME CoroutineInv, AnswerInv, GetNumber PROVE AnswerInv'
<1>1. /\ CoroutineTypes /\ calls \in Seq(Calls) /\ frame \in Frames /\ InUse
      /\ body = "parse_string"
  BY DEF CoroutineInv, CoroutineTypes, GetNumber, Called
<1>2. PICK g \in Nat :
        /\ LastGet(calls, g) /\ frame.input = nullopt
        /\ Ended(Piece(calls)) => frame.at = "yield"
        /\ Started(Piece(calls)) /\ ~ Ended(Piece(calls)) => frame.at = "more"
        /\ ~ Started(Piece(calls)) =>
             frame.at = IF calls = << >> THEN "initial" ELSE "first"
  BY <1>1, ParserPlace
<1> DEFINE place == IF OutOfTurn(calls) THEN "aborted" ELSE "first"
<1>3. frame' = Suspend(frame, place)
  <2>1. CASE OutOfTurn(calls)
    <3>1. frame.at \in {"first", "more"}
      BY <1>2, <2>1 DEF OutOfTurn
    <3> QED
      BY <1>1, <1>2, <2>1, <3>1 DEF GetNumber, ResumeUnlessDone, done, Resume, ResumeParser
  <2>2. CASE ~ OutOfTurn(calls)
    <3>1. calls = << >> => ~ Started(Piece(calls))
      BY NothingPut
    <3>2. frame.at \in {"initial", "yield"}
      BY <1>2, <2>2, <3>1 DEF OutOfTurn
    <3> QED
      BY <1>1, <1>2, <2>2, <3>2 DEF GetNumber, ResumeUnlessDone, done, Resume, ResumeParser
  <2> QED
    BY <2>1, <2>2
<1>4. frame'.output = frame.output /\ frame'.at = place /\ frame.output \in Results
  BY <1>1, <1>3, FrameFields DEF Suspend, Frames, Results
<1> DEFINE answer == IF OutOfTurn(calls) THEN nullopt ELSE frame.output
<1>5. PICK call \in Calls :
        /\ call.op = "get" /\ call.result = answer
        /\ calls' = Append(calls, call) /\ body' = body
  <2>1. Called("get", nullopt, answer)
    BY <1>4 DEF GetNumber
  <2>2. "get" \in Strings /\ nullopt \in Strings
    BY DEF Strings, nullopt
  <2>3. answer \in Results
    BY <1>4, <2>2 DEF Results
  <2> HIDE DEF answer
  <2> QED
    BY <1>1, <2>1, <2>2, <2>3, CalledCall
<1>6. Piece(calls') = << >>
  BY <1>1, <1>2, <1>5, PieceOfAppend
<1>7. call.result = Promised(calls, call)
  <2>1. CASE OutOfTurn(calls)
    BY <1>1, <1>5, <2>1 DEF Promised
  <2>2. CASE ~ OutOfTurn(calls)
    <3>1. ParsesFrom(Piece(calls))
      BY <1>1 DEF AnswerInv, FrameKeeps
    <3>2. frame.output = parse_string(Piece(calls))
      <4>1. CASE calls = << >>
        BY <1>1, <4>1, NothingPut DEF AnswerInv, FrameKeeps
      <4>2. CASE calls # << >>
        BY <2>2, <3>1, <4>2 DEF ParsesFrom, OutOfTurn
      <4> QED
        BY <4>1, <4>2
    <3>3. Promised(calls, call) = parse_string(Piece(calls))
      BY <1>1, <1>5, <2>2 DEF Promised
    <3> QED
      BY <1>5, <2>2, <3>2, <3>3
  <2> QED
    BY <2>1, <2>2
<1>8. AnswersAsPromised'
  BY <1>1, <1>5, <1>7, AnswersKept DEF AnswerInv
<1>9. ParsesFrom(<< >>)'
  BY NothingPut, ParsedEmpty DEF ParsesFrom
<1>a. calls' # << >>
  <2>1. Len(calls') = Len(calls) + 1 /\ Len(calls) \in Nat /\ calls' \in Seq(Calls)
    BY <1>1, <1>5, AppendProperties, LenProperties
  <2>2. Len(calls') # 0
    BY <2>1
  <2> QED
    BY <2>1, <2>2, EmptySeq
<1>10. FrameKeeps'
  BY <1>1, <1>5, <1>6, <1>9, <1>a DEF FrameKeeps, summing
<1> QED
  BY <1>8, <1>10 DEF AnswerInv

LEMMA AnswersStay ==
    ASSUME AnswersAsPromised, calls' = calls, body' = body PROVE AnswersAsPromised'
<1>1. \A e, c : Promised(e, c)' = Promised(e, c)
  BY PromisedKept
<1> QED
  BY <1>1 DEF AnswersAsPromised

LEMMA AnswerInvStep ==
    ASSUME CoroutineInv, AnswerInv, CoroutineNext \/ UNCHANGED coroutineVars
    PROVE  AnswerInv'
<1>1. CASE PutNext
  <2>1. CASE body = "parse_string"
    BY <1>1, <2>1, ParserPutAnswers DEF PutNext
  <2>2. CASE body # "parse_string"
    BY <1>1, <2>2, EchoPutAnswers DEF PutNext
  <2> QED
    BY <2>1, <2>2
<1>2. CASE GetNumber
  BY <1>2, GetNumberAnswers
<1>3. CASE GetString
  BY <1>3, GetStringAnswers
<1>4. CASE next
  BY <1>4, NextAnswers
<1>5. CASE value
  BY <1>5, ValueAnswers
<1>6. CASE Destroy
  <2>1. calls' = calls /\ body' = body /\ frame' = Suspend(frame, "destroyed")
    BY <1>6 DEF Destroy
  <2>2. AnswersAsPromised'
    BY <2>1, AnswersStay DEF AnswerInv
  <2>3. ~ InUse'
    BY <2>1 DEF InUse, Suspend, CoroutineInv, CoroutineTypes, Frames
  <2> QED
    BY <2>2, <2>3 DEF AnswerInv
<1>7. CASE UNCHANGED coroutineVars
  <2>1. calls' = calls /\ body' = body /\ frame' = frame
    BY <1>7 DEF coroutineVars
  <2>2. AnswersAsPromised'
    BY <2>1, AnswersStay DEF AnswerInv
  <2>3. (InUse => FrameKeeps)'
    BY <2>1 DEF AnswerInv, InUse, FrameKeeps, Summing, Counts, Greeted, ParsesFrom, Reduce
  <2> QED
    BY <2>2, <2>3 DEF AnswerInv
<1> QED
  BY <1>1, <1>2, <1>3, <1>4, <1>5, <1>6, <1>7 DEF CoroutineNext

LEMMA AnswerInvHolds == Spec => []AnswerInv
<1>1. CoroutineInv /\ AnswerInv /\ [Next]_eventVars => AnswerInv'
  <2>1. [Next]_eventVars => CoroutineNext \/ UNCHANGED coroutineVars
    BY DEF Next, RunCoroutine, RunSleep, RunTimer, RunEcho, Returned, eventVars
  <2> QED
    BY <2>1, AnswerInvStep
<1> QED
  BY <1>1, AnswerInvInit, CoroutineInvHolds, PTL DEF Spec

(* Whatever the bodies, the bound of the sequence, the number of the calls  *)
(* and the moments of get(), next() and value(), each call of chapter 8     *)
(* gives what its definition promises: the terms of the Fibonacci sequence, *)
(* the number that parse_string() finds in the characters put, or nothing   *)
(* out of turn, the greeting once and the echo once.                        *)
THEOREM CallsAnsweredAsPromised == Spec => []AnswersAsPromised
BY AnswerInvHolds, PTL DEF AnswerInv
=============================================================================
