------------------------------ MODULE H2OProofs ------------------------------
(***************************************************************************)
(* Both classes H2O, for any finite sets of hydrogen and oxygen threads.   *)
(*                                                                         *)
(* With semaphores: the accounts of H2OSem are an inductive invariant, so  *)
(* its semaphores stay within their limits.  With a monitor: the one       *)
(* condition variable loses no wakeup, and the threads are never all       *)
(* blocked when there are twice as many hydrogens as oxygens.  Every step  *)
(* of both is a step of Water or a stutter.                                *)
(***************************************************************************)
EXTENDS H2OSem, H2OMonitor, CommonTheorems
-----------------------------------------------------------------------------
(* The class with four semaphores *)

(* A call that goes on to its next point changes two counts by one. *)
LEMMA Moves ==
    ASSUME TypeOK, NEW t, NEW from \in Label, NEW to \in Label, from # to,
           Goto(t, from, to)
    PROVE  /\ pc' \in [Thread -> Label]
           /\ At(from) > 0
           /\ At(from)' = At(from) - 1
           /\ At(to)' = At(to) + 1
           /\ \A p : p # from /\ p # to => At(p)' = At(p)
<1>1. pc \in [Thread -> Label] /\ t \in Thread /\ pc[t] = from
  BY DEF TypeOK, Goto
<1>2. pc' = [pc EXCEPT ![t] = to]
  BY DEF Goto
<1>3. pc' \in [Thread -> Label]
  BY <1>1, <1>2
<1>4. At(from) > 0
  BY <1>1, CountType, ThreadAssumption DEF At
<1>5. /\ Count(pc', Thread, from) = Count(pc, Thread, from) - 1
      /\ Count(pc', Thread, to) = Count(pc, Thread, to) + 1
      /\ \A p : p # from /\ p # to
            => Count(pc', Thread, p) = Count(pc, Thread, p)
  <2>1. pc'[t] = to /\ \A u \in Thread \ {t} : pc'[u] = pc[u]
    BY <1>1, <1>2
  <2> QED
    BY <1>1, <2>1, CountMove, ThreadAssumption
<1> QED
  BY <1>3, <1>4, <1>5 DEF At

LEMMA AtType ==
    /\ At("h_release") \in Nat /\ At("h_signal") \in Nat /\ At("h_await") \in Nat
    /\ At("h_leave") \in Nat /\ At("o_first") \in Nat /\ At("o_second") \in Nat
    /\ At("o_release") \in Nat /\ At("o_signal") \in Nat /\ At("o_leave") \in Nat
  BY CountType, ThreadAssumption DEF At

(* Type correctness of the four semaphores, the program counters and the    *)
(* counters of released atoms.                                              *)
LEMMA TypeInit == Init => TypeOK
  BY DEF Init, TypeOK, Label

LEMMA TypeStep == TypeOK /\ [Next]_vars => TypeOK'
<1> SUFFICES ASSUME TypeOK, [Next]_vars PROVE TypeOK'
  OBVIOUS
<1> USE DEF TypeOK, Goto, sems, atoms, Label
<1>1. ASSUME NEW t \in Thread, HEnter(t) PROVE TypeOK'
  BY <1>1 DEF HEnter
<1>2. ASSUME NEW t \in Thread, ReleaseHydrogen(t) PROVE TypeOK'
  BY <1>2 DEF ReleaseHydrogen
<1>3. ASSUME NEW t \in Thread, HSignal(t) PROVE TypeOK'
  BY <1>3 DEF HSignal
<1>4. ASSUME NEW t \in Thread, HAwait(t) PROVE TypeOK'
  BY <1>4 DEF HAwait
<1>5. ASSUME NEW t \in Thread, HLeave(t) PROVE TypeOK'
  BY <1>5 DEF HLeave
<1>6. ASSUME NEW t \in Thread, OEnter(t) PROVE TypeOK'
  BY <1>6 DEF OEnter
<1>7. ASSUME NEW t \in Thread, OFirst(t) PROVE TypeOK'
  BY <1>7 DEF OFirst
<1>8. ASSUME NEW t \in Thread, OSecond(t) PROVE TypeOK'
  BY <1>8 DEF OSecond
<1>9. ASSUME NEW t \in Thread, ReleaseOxygen(t) PROVE TypeOK'
  BY <1>9 DEF ReleaseOxygen
<1>10. ASSUME NEW t \in Thread, OSignal(t) PROVE TypeOK'
  BY <1>10 DEF OSignal
<1>11. ASSUME NEW t \in Thread, OLeave(t) PROVE TypeOK'
  BY <1>11 DEF OLeave
<1>12. CASE Joined
  BY <1>12 DEF Joined, vars
<1>13. CASE UNCHANGED vars
  BY <1>13 DEF vars
<1> QED
  BY <1>1, <1>2, <1>3, <1>4, <1>5, <1>6, <1>7, <1>8, <1>9, <1>10, <1>11,
     <1>12, <1>13 DEF Next, Hydrogen, Oxygen

THEOREM TypeCorrect == Spec => []TypeOK
  BY TypeInit, TypeStep, PTL DEF Spec
-----------------------------------------------------------------------------
LEMMA AccountsInit == Init => Accounts
<1> SUFFICES ASSUME Init PROVE Accounts
  OBVIOUS
<1>1. \A t \in Thread : pc[t] \in {"h_enter", "o_enter"}
  BY DEF Init
<1>2. \A p : p \notin {"h_enter", "o_enter"} => At(p) = 0
  BY <1>1, CountType, ThreadAssumption DEF At
<1> QED
  BY <1>2 DEF Init, Accounts, HydrogenPlaces, OxygenPlace, HydrogenAtoms,
             LeaveTokens

(* Every step keeps the accounts: each action moves one call between two    *)
(* points and changes at most one semaphore or one counter with it.         *)
LEMMA AccountsStep == TypeOK /\ Accounts /\ [Next]_vars => Accounts'
<1> SUFFICES ASSUME TypeOK, Accounts, [Next]_vars PROVE Accounts'
  OBVIOUS
<1> USE AtType DEF TypeOK, Accounts, sems, atoms, HydrogenPlaces, OxygenPlace,
               HydrogenAtoms, LeaveTokens
<1>1. ASSUME NEW t \in Thread, HEnter(t) PROVE Accounts'
  <2>1. Goto(t, "h_enter", "h_release")
    BY <1>1 DEF HEnter
  <2>2. /\ At("h_enter")' = At("h_enter") - 1
        /\ At("h_release")' = At("h_release") + 1
        /\ \A p : p # "h_enter" /\ p # "h_release" => At(p)' = At(p)
    BY <2>1, Moves DEF Label
  <2> QED
    BY <1>1, <2>2 DEF HEnter
<1>2. ASSUME NEW t \in Thread, ReleaseHydrogen(t) PROVE Accounts'
  <2>1. Goto(t, "h_release", "h_signal")
    BY <1>2 DEF ReleaseHydrogen
  <2>2. /\ At("h_release")' = At("h_release") - 1
        /\ At("h_signal")' = At("h_signal") + 1
        /\ \A p : p # "h_release" /\ p # "h_signal" => At(p)' = At(p)
    BY <2>1, Moves DEF Label
  <2> QED
    <3>1. HydrogenPlaces'
      BY <1>2, <2>2 DEF ReleaseHydrogen
    <3>2. OxygenPlace'
      BY <1>2, <2>2 DEF ReleaseHydrogen
    <3>3. HydrogenAtoms'
      BY <1>2, <2>2 DEF ReleaseHydrogen
    <3>4. LeaveTokens'
      BY <1>2, <2>2 DEF ReleaseHydrogen
    <3> QED
      BY <3>1, <3>2, <3>3, <3>4 DEF Accounts
<1>3. ASSUME NEW t \in Thread, HSignal(t) PROVE Accounts'
  <2>1. Goto(t, "h_signal", "h_await")
    BY <1>3 DEF HSignal
  <2>2. /\ At("h_signal")' = At("h_signal") - 1
        /\ At("h_await")' = At("h_await") + 1
        /\ \A p : p # "h_signal" /\ p # "h_await" => At(p)' = At(p)
    BY <2>1, Moves DEF Label
  <2> QED
    BY <1>3, <2>2 DEF HSignal
<1>4. ASSUME NEW t \in Thread, HAwait(t) PROVE Accounts'
  <2>1. Goto(t, "h_await", "h_leave")
    BY <1>4 DEF HAwait
  <2>2. /\ At("h_await")' = At("h_await") - 1
        /\ At("h_leave")' = At("h_leave") + 1
        /\ \A p : p # "h_await" /\ p # "h_leave" => At(p)' = At(p)
    BY <2>1, Moves DEF Label
  <2> QED
    BY <1>4, <2>2 DEF HAwait
<1>5. ASSUME NEW t \in Thread, HLeave(t) PROVE Accounts'
  <2>1. Goto(t, "h_leave", "done")
    BY <1>5 DEF HLeave
  <2>2. /\ At("h_leave")' = At("h_leave") - 1
        /\ At("done")' = At("done") + 1
        /\ \A p : p # "h_leave" /\ p # "done" => At(p)' = At(p)
    BY <2>1, Moves DEF Label
  <2> QED
    BY <1>5, <2>2 DEF HLeave
<1>6. ASSUME NEW t \in Thread, OEnter(t) PROVE Accounts'
  <2>1. Goto(t, "o_enter", "o_first")
    BY <1>6 DEF OEnter
  <2>2. /\ At("o_enter")' = At("o_enter") - 1
        /\ At("o_first")' = At("o_first") + 1
        /\ \A p : p # "o_enter" /\ p # "o_first" => At(p)' = At(p)
    BY <2>1, Moves DEF Label
  <2> QED
    BY <1>6, <2>2 DEF OEnter
<1>7. ASSUME NEW t \in Thread, OFirst(t) PROVE Accounts'
  <2>1. Goto(t, "o_first", "o_second")
    BY <1>7 DEF OFirst
  <2>2. /\ At("o_first")' = At("o_first") - 1
        /\ At("o_second")' = At("o_second") + 1
        /\ \A p : p # "o_first" /\ p # "o_second" => At(p)' = At(p)
    BY <2>1, Moves DEF Label
  <2> QED
    <3>1. HydrogenPlaces'
      BY <1>7, <2>2 DEF OFirst
    <3>2. OxygenPlace'
      BY <1>7, <2>2 DEF OFirst
    <3>3. HydrogenAtoms'
      <4>1. /\ At("o_second")' = At("o_second") + 1 /\ At("o_release")' = At("o_release")
            /\ At("h_signal")' = At("h_signal")
        BY <2>2
      <4>2. sem_hydro_done' = sem_hydro_done - 1 /\ nH' = nH /\ nO' = nO
        BY <1>7 DEF OFirst
      <4> HIDE DEF HydrogenPlaces, OxygenPlace, LeaveTokens
      <4> QED
        BY <4>1, <4>2
    <3>4. LeaveTokens'
      BY <1>7, <2>2 DEF OFirst
    <3> QED
      BY <3>1, <3>2, <3>3, <3>4 DEF Accounts
<1>8. ASSUME NEW t \in Thread, OSecond(t) PROVE Accounts'
  <2>1. Goto(t, "o_second", "o_release")
    BY <1>8 DEF OSecond
  <2>2. /\ At("o_second")' = At("o_second") - 1
        /\ At("o_release")' = At("o_release") + 1
        /\ \A p : p # "o_second" /\ p # "o_release" => At(p)' = At(p)
    BY <2>1, Moves DEF Label
  <2> QED
    <3>1. HydrogenPlaces'
      BY <1>8, <2>2 DEF OSecond
    <3>2. OxygenPlace'
      BY <1>8, <2>2 DEF OSecond
    <3>3. HydrogenAtoms'
      <4>1. /\ At("o_second")' = At("o_second") - 1 /\ At("o_release")' = At("o_release") + 1
            /\ At("h_signal")' = At("h_signal")
        BY <2>2
      <4>2. sem_hydro_done' = sem_hydro_done - 1 /\ nH' = nH /\ nO' = nO
        BY <1>8 DEF OSecond
      <4> HIDE DEF HydrogenPlaces, OxygenPlace, LeaveTokens
      <4> QED
        BY <4>1, <4>2
    <3>4. LeaveTokens'
      BY <1>8, <2>2 DEF OSecond
    <3> QED
      BY <3>1, <3>2, <3>3, <3>4 DEF Accounts
<1>9. ASSUME NEW t \in Thread, ReleaseOxygen(t) PROVE Accounts'
  <2>1. Goto(t, "o_release", "o_signal")
    BY <1>9 DEF ReleaseOxygen
  <2>2. /\ At("o_release")' = At("o_release") - 1
        /\ At("o_signal")' = At("o_signal") + 1
        /\ \A p : p # "o_release" /\ p # "o_signal" => At(p)' = At(p)
    BY <2>1, Moves DEF Label
  <2> QED
    BY <1>9, <2>2 DEF ReleaseOxygen
<1>10. ASSUME NEW t \in Thread, OSignal(t) PROVE Accounts'
  <2>1. Goto(t, "o_signal", "o_leave")
    BY <1>10 DEF OSignal
  <2>2. /\ At("o_signal")' = At("o_signal") - 1
        /\ At("o_leave")' = At("o_leave") + 1
        /\ \A p : p # "o_signal" /\ p # "o_leave" => At(p)' = At(p)
    BY <2>1, Moves DEF Label
  <2> QED
    BY <1>10, <2>2 DEF OSignal
<1>11. ASSUME NEW t \in Thread, OLeave(t) PROVE Accounts'
  <2>1. Goto(t, "o_leave", "done")
    BY <1>11 DEF OLeave
  <2>2. /\ At("o_leave")' = At("o_leave") - 1
        /\ At("done")' = At("done") + 1
        /\ \A p : p # "o_leave" /\ p # "done" => At(p)' = At(p)
    BY <2>1, Moves DEF Label
  <2> QED
    BY <1>11, <2>2 DEF OLeave
<1>12. CASE UNCHANGED vars
  BY <1>12 DEF vars, At
<1> QED
  BY <1>1, <1>2, <1>3, <1>4, <1>5, <1>6, <1>7, <1>8, <1>9, <1>10, <1>11,
     <1>12 DEF Next, Hydrogen, Oxygen, Joined

LEMMA Invariance == Spec => [](TypeOK /\ Accounts)
<1>1. Init => TypeOK /\ Accounts
  BY TypeInit, AccountsInit
<1>2. TypeOK /\ Accounts /\ [Next]_vars => (TypeOK /\ Accounts)'
  BY TypeStep, AccountsStep
<1> QED
  BY <1>1, <1>2, PTL DEF Spec

(* In every reachable state of any number of calls the permits and atoms    *)
(* add up.                                                                  *)
THEOREM AccountsHold == Spec => []Accounts
  BY Invariance, PTL

(* At most two hydrogens are released ahead of the oxygen, and exactly two  *)
(* when an oxygen is about to be.                                           *)
LEMMA AtomsAhead ==
    ASSUME TypeOK, Accounts
    PROVE  /\ nH - 2 * nO \in 0 .. 2
           /\ At("h_release") > 0 => nH - 2 * nO < 2
           /\ At("o_release") > 0 => nH - 2 * nO = 2
<1> USE AtType DEF TypeOK, Accounts, HydrogenPlaces, OxygenPlace, HydrogenAtoms,
               LeaveTokens
<1>1. At("h_release") + At("h_signal") + At("h_await") <= 2
  OBVIOUS
<1>2. nH - 2 * nO <= At("h_signal") + At("h_await")
  OBVIOUS
<1>3. nH - 2 * nO >= 2 * At("o_release")
  OBVIOUS
<1>4. nH - 2 * nO \in Int
  OBVIOUS
<1> HIDE DEF HydrogenPlaces, OxygenPlace, HydrogenAtoms, LeaveTokens
<1> DEFINE ahead == nH - 2 * nO
<1> HIDE DEF ahead, TypeOK
<1>5. /\ ahead \in Int /\ ahead <= At("h_signal") + At("h_await")
      /\ ahead >= 2 * At("o_release")
  BY <1>2, <1>3, <1>4 DEF ahead
<1>6. ahead \in 0 .. 2
  BY <1>1, <1>5
<1>7. At("h_release") > 0 => ahead < 2
  BY <1>1, <1>5
<1>8. At("o_release") > 0 => ahead = 2
  BY <1>5, <1>6
<1> QED
  BY <1>6, <1>7, <1>8 DEF ahead

(* No release() overflows a semaphore: the tokens that hydrogens and        *)
(* oxygens leave for each other never pile up.                              *)
THEOREM SemaphoresWithinMax == Spec => []WithinMax
<1>1. TypeOK /\ Accounts => WithinMax
  <2> SUFFICES ASSUME TypeOK, Accounts PROVE WithinMax
    OBVIOUS
  <2> USE AtType DEF TypeOK, Accounts, HydrogenPlaces, OxygenPlace,
                 HydrogenAtoms, LeaveTokens
  <2>1. sem_h <= 2
    OBVIOUS
  <2>2. sem_o <= 1
    OBVIOUS
  <2>3. sem_hydro_done <= 2
    BY AtomsAhead
  <2>4. sem_oxy_done <= 2
    BY AtomsAhead
  <2> QED
    BY <2>1, <2>2, <2>3, <2>4 DEF WithinMax, max_h, max_o, max_done
<1> QED
  BY <1>1, Invariance, PTL
-----------------------------------------------------------------------------
(* The release callbacks of any number of calls, however they overlap, run  *)
(* in the order of a sequence of molecules: every step of the four          *)
(* semaphores is a step of Water or leaves the atoms alone.                 *)
THEOREM ReleasesMakeWater == Spec => MakesWater
<1>1. Init => Molecule!Init
  BY DEF Init, Molecule!Init
<1>2. TypeOK /\ Accounts /\ [Next]_vars => [Molecule!Next]_(Molecule!vars)
  <2> SUFFICES ASSUME TypeOK, Accounts, [Next]_vars
               PROVE  [Molecule!Next]_(Molecule!vars)
    OBVIOUS
  <2> USE DEF TypeOK, sems, atoms
  <2>1. ASSUME NEW t \in Thread, ReleaseHydrogen(t)
        PROVE  Molecule!Hydrogen
    <3>1. At("h_release") > 0
      BY <2>1, Moves DEF ReleaseHydrogen, Label
    <3>2. nH - 2 * nO \in 0 .. 1
      BY <3>1, AtomsAhead
    <3>3. nH' = nH + 1 /\ nO' = nO
      BY <2>1 DEF ReleaseHydrogen
    <3> QED
      BY <3>2, <3>3 DEF Molecule!Hydrogen, Molecule!Became
  <2>2. ASSUME NEW t \in Thread, ReleaseOxygen(t)
        PROVE  Molecule!Oxygen
    <3>1. At("o_release") > 0
      BY <2>2, Moves DEF ReleaseOxygen, Label
    <3>2. nH - 2 * nO = 2
      BY <3>1, AtomsAhead
    <3>3. nO' = nO + 1 /\ nH' = nH
      BY <2>2 DEF ReleaseOxygen
    <3> QED
      BY <3>2, <3>3 DEF Molecule!Oxygen, Molecule!Became
  <2>3. ASSUME NEW t \in Thread,
               \/ HEnter(t) \/ HSignal(t) \/ HAwait(t) \/ HLeave(t)
               \/ OEnter(t) \/ OFirst(t) \/ OSecond(t) \/ OSignal(t) \/ OLeave(t)
        PROVE  UNCHANGED <<nH, nO>>
    BY <2>3 DEF HEnter, HSignal, HAwait, HLeave, OEnter, OFirst, OSecond,
                OSignal, OLeave
  <2>4. CASE Joined \/ UNCHANGED vars
    BY <2>4 DEF Joined, vars, Molecule!vars
  <2>5. UNCHANGED <<nH, nO>> => UNCHANGED Molecule!vars
    BY DEF Molecule!vars
  <2> QED
    BY <2>1, <2>2, <2>3, <2>4, <2>5 DEF Next, Hydrogen, Oxygen, Molecule!Next
<1> QED
  BY <1>1, <1>2, Invariance, PTL DEF Spec, MakesWater, Molecule!Spec
-----------------------------------------------------------------------------
(* The class with a mutex and a condition variable *)

(* The atoms released are the calls that returned, and hydrogen_count is    *)
(* what they leave of the last molecule.                                    *)
Returned(S) == Cardinality(done \cap S)
AtomsCounted ==
    /\ nH = Returned(Hydrogens) /\ nO = Returned(Oxygens)
    /\ nH = 2 * nO + hydrogen_count

MonitorInv == MonitorTypeOK /\ OnlyFalsePredicatesWait /\ AtomsCounted

LEMMA ThreadSets ==
    /\ Hydrogens \subseteq Thread /\ Oxygens \subseteq Thread
    /\ IsFiniteSet(Hydrogens) /\ IsFiniteSet(Oxygens)
<1>1. Hydrogens \subseteq Thread /\ Oxygens \subseteq Thread
  BY DEF Thread
<1> QED
  BY <1>1, ThreadAssumption, FS_Subset

(* A call that returns is one more of its kind, and none of the other.      *)
LEMMA ReturnedMove ==
    ASSUME NEW S, NEW T, IsFiniteSet(S), NEW t \in S, t \notin T,
           t \notin done, done' = done \cup {t}
    PROVE  /\ Returned(S) \in Nat /\ Returned(S)' = Returned(S) + 1
           /\ Returned(T)' = Returned(T)
<1> DEFINE before == done \cap S
           after == done' \cap S
<1>1. /\ after \ {t} = before \ {t} /\ t \notin before /\ t \in after
      /\ done' \cap T = done \cap T
  OBVIOUS
<1>2. IsFiniteSet(before)
  BY FS_Subset
<1> HIDE DEF before, after
<1>3. Cardinality(before) \in Nat /\ Cardinality(after) = Cardinality(before) + 1
  BY <1>1, <1>2, CardinalityMove
<1> QED
  BY <1>1, <1>3 DEF Returned, before, after

LEMMA MonitorInvInit == MonitorInit => MonitorInv
<1> SUFFICES ASSUME MonitorInit PROVE MonitorInv
  OBVIOUS
<1>1. MonitorTypeOK /\ OnlyFalsePredicatesWait
  BY DEF MonitorInit, MonitorTypeOK, OnlyFalsePredicatesWait
<1>2. Returned(Hydrogens) = 0 /\ Returned(Oxygens) = 0
  <2>1. done \cap Hydrogens = {} /\ done \cap Oxygens = {}
    BY DEF MonitorInit
  <2> QED
    BY <2>1, FS_EmptySet DEF Returned
<1> QED
  BY <1>1, <1>2 DEF MonitorInit, AtomsCounted, MonitorInv

LEMMA MonitorInvStep == MonitorInv /\ [MonitorNext]_monitorVars => MonitorInv'
<1> SUFFICES ASSUME MonitorInv, [MonitorNext]_monitorVars PROVE MonitorInv'
  OBVIOUS
<1>a. MonitorTypeOK /\ OnlyFalsePredicatesWait /\ AtomsCounted
  BY DEF MonitorInv
<1>b. Hydrogens \cap Oxygens = {}
  BY ThreadAssumption
<1>1. ASSUME NEW t \in Thread, hydrogen(t) PROVE MonitorInv'
  <2>1. /\ hydrogen_count < 2 /\ hydrogen_count' = hydrogen_count + 1
        /\ nH' = nH + 1 /\ nO' = nO /\ done' = done \cup {t}
        /\ t \in Hydrogens /\ t \notin Oxygens /\ t \notin done
    BY <1>1, <1>b DEF hydrogen, Runnable
  <2>2. MonitorTypeOK' /\ OnlyFalsePredicatesWait'
    BY <1>1, <1>a, <2>1
    DEF hydrogen, NotifyAll, MonitorTypeOK, OnlyFalsePredicatesWait
  <2>3. /\ Returned(Hydrogens)' = Returned(Hydrogens) + 1
        /\ Returned(Oxygens)' = Returned(Oxygens)
    BY <2>1, ThreadSets, ReturnedMove
  <2>4. nH + 1 = 2 * nO + (hydrogen_count + 1)
    BY <1>a DEF AtomsCounted, MonitorTypeOK
  <2>5. AtomsCounted'
    BY <1>a, <2>1, <2>3, <2>4, Zenon DEF AtomsCounted
  <2> QED
    BY <2>2, <2>5 DEF MonitorInv
<1>2. ASSUME NEW t \in Thread, oxygen(t) PROVE MonitorInv'
  <2>1. /\ hydrogen_count = 2 /\ hydrogen_count' = 0
        /\ nO' = nO + 1 /\ nH' = nH /\ done' = done \cup {t}
        /\ t \in Oxygens /\ t \notin Hydrogens /\ t \notin done
    BY <1>2, <1>b DEF oxygen, Runnable
  <2>2. MonitorTypeOK' /\ OnlyFalsePredicatesWait'
    BY <1>2, <1>a, <2>1
    DEF oxygen, NotifyAll, MonitorTypeOK, OnlyFalsePredicatesWait
  <2>3. /\ Returned(Oxygens)' = Returned(Oxygens) + 1
        /\ Returned(Hydrogens)' = Returned(Hydrogens)
    BY <2>1, ThreadSets, ReturnedMove
  <2>4. nH = 2 * (nO + 1) + 0
    BY <1>a, <2>1 DEF AtomsCounted, MonitorTypeOK
  <2>5. AtomsCounted'
    BY <1>a, <2>1, <2>3, <2>4, Zenon DEF AtomsCounted
  <2> QED
    BY <2>2, <2>5 DEF MonitorInv
<1>3. ASSUME NEW t \in Thread, Wait(t) PROVE MonitorInv'
  <2>1. MonitorTypeOK'
    BY <1>3, <1>a DEF Wait, MonitorTypeOK
  <2>2. OnlyFalsePredicatesWait'
    BY <1>3, <1>a, <1>b DEF Wait, MonitorTypeOK, OnlyFalsePredicatesWait
  <2>3. AtomsCounted'
    BY <1>3, <1>a DEF Wait, AtomsCounted, Returned
  <2> QED
    BY <2>1, <2>2, <2>3 DEF MonitorInv
<1>4. ASSUME NEW t \in Thread, SpuriousWakeup(t) PROVE MonitorInv'
  BY <1>4, <1>a DEF SpuriousWakeup, MonitorTypeOK, OnlyFalsePredicatesWait,
                    AtomsCounted, Returned, MonitorInv
<1>5. CASE MonitorJoined \/ UNCHANGED monitorVars
  BY <1>5, <1>a DEF MonitorJoined, monitorVars, MonitorTypeOK,
                    OnlyFalsePredicatesWait,
                    AtomsCounted, Returned, MonitorInv
<1> QED
  BY <1>1, <1>2, <1>3, <1>4, <1>5 DEF MonitorNext, Call

LEMMA MonitorInvariance == MonitorSpec => []MonitorInv
  BY MonitorInvInit, MonitorInvStep, PTL DEF MonitorSpec

(* hydrogen_count stays between 0 and 2.                                    *)
THEOREM MonitorTypeCorrect == MonitorSpec => []MonitorTypeOK
<1>1. MonitorInv => MonitorTypeOK
  BY DEF MonitorInv
<1> QED
  BY <1>1, MonitorInvariance, PTL

(* No wakeup is lost although hydrogen() notifies only for the second atom  *)
(* and both kinds of thread wait for the same condition variable.           *)
THEOREM WaitersPredicatesFalse == MonitorSpec => []OnlyFalsePredicatesWait
<1>1. MonitorInv => OnlyFalsePredicatesWait
  BY DEF MonitorInv
<1> QED
  BY <1>1, MonitorInvariance, PTL

(* The atoms come out in threes: class H2O implements what its tests ask.   *)
THEOREM MonitorReleasesWater == MonitorSpec => MonitorMakesWater
<1>1. MonitorInit => MonitorMolecule!Init
  BY DEF MonitorInit, MonitorMolecule!Init
<1>2. MonitorInv /\ [MonitorNext]_monitorVars
      => [MonitorMolecule!Next]_(MonitorMolecule!vars)
  <2> SUFFICES ASSUME MonitorInv, [MonitorNext]_monitorVars
               PROVE  [MonitorMolecule!Next]_(MonitorMolecule!vars)
    OBVIOUS
  <2>t. hydrogen_count \in 0 .. 2
    BY DEF MonitorInv, MonitorTypeOK
  <2>1. ASSUME NEW t \in Thread, hydrogen(t) PROVE MonitorMolecule!Hydrogen
    BY <2>1, <2>t DEF hydrogen, MonitorMolecule!Hydrogen, MonitorMolecule!Became
  <2>2. ASSUME NEW t \in Thread, oxygen(t) PROVE MonitorMolecule!Oxygen
    BY <2>2, <2>t DEF oxygen, MonitorMolecule!Oxygen, MonitorMolecule!Became
  <2>3. CASE UNCHANGED <<hydrogen_count, nO>>
    BY <2>3 DEF MonitorMolecule!vars
  <2>4. \/ \E t \in Thread : hydrogen(t) \/ oxygen(t)
        \/ UNCHANGED <<hydrogen_count, nO>>
    BY DEF MonitorNext, Call, Wait, SpuriousWakeup, MonitorJoined, monitorVars
  <2> QED
    BY <2>1, <2>2, <2>3, <2>4 DEF MonitorMolecule!Next
<1>3. MonitorInv => nH = 2 * nO + hydrogen_count
  BY DEF MonitorInv, AtomsCounted
<1> QED
  BY <1>1, <1>2, <1>3, MonitorInvariance, PTL
  DEF MonitorSpec, MonitorMakesWater, MonitorMolecule!Spec

(* With two hydrogens to an oxygen, as in the tests, the threads are never  *)
(* all blocked or gone with some of them blocked: every call can return.    *)
THEOREM NeverAllBlocked ==
    ASSUME Cardinality(Hydrogens) = 2 * Cardinality(Oxygens)
    PROVE  MonitorSpec => []((\E t \in Thread : Runnable(t)) \/ AllReturned)
<1>1. ASSUME MonitorInv, \A t \in Thread : ~ Runnable(t)
      PROVE  AllReturned
  <2>a. /\ hydrogen_count \in 0 .. 2 /\ nO \in Nat
        /\ nH = Returned(Hydrogens) /\ nO = Returned(Oxygens)
        /\ nH = 2 * nO + hydrogen_count /\ done \subseteq Thread
    BY <1>1 DEF MonitorInv, MonitorTypeOK, AtomsCounted
  <2>b. /\ Cardinality(Oxygens) \in Nat
        /\ Cardinality(Hydrogens) = 2 * Cardinality(Oxygens)
    BY ThreadSets, FS_CardinalityType
  <2>c. \A t \in Thread : t \in cv \/ t \in done
    BY <1>1 DEF Runnable
  <2>1. CASE hydrogen_count < 2
    <3>1. Hydrogens \subseteq done
      BY <1>1, <2>1, <2>c, ThreadSets DEF MonitorInv, OnlyFalsePredicatesWait
    <3>2. nH = Cardinality(Hydrogens)
      <4>1. done \cap Hydrogens = Hydrogens
        BY <3>1
      <4> QED
        BY <2>a, <4>1 DEF Returned
    <3>3. nO = Cardinality(Oxygens)
      BY <2>a, <2>b, <2>1, <3>2
    <3>4. Oxygens \subseteq done
      <4>1. done \cap Oxygens \subseteq Oxygens
        OBVIOUS
      <4>2. done \cap Oxygens = Oxygens
        BY <2>a, <3>3, <4>1, ThreadSets, FS_Subset DEF Returned
      <4> QED
        BY <4>2
    <3> QED
      BY <2>a, <3>1, <3>4 DEF AllReturned, Thread
  <2>2. CASE hydrogen_count = 2
    <3>1. done \cap Oxygens = Oxygens
      BY <1>1, <2>2, <2>c, ThreadSets DEF MonitorInv, OnlyFalsePredicatesWait
    <3>2. nO = Cardinality(Oxygens)
      BY <2>a, <3>1 DEF Returned
    <3>3. nH <= Cardinality(Hydrogens)
      <4>1. done \cap Hydrogens \subseteq Hydrogens
        OBVIOUS
      <4> QED
        BY <2>a, <4>1, ThreadSets, FS_Subset DEF Returned
    <3> QED
      BY <2>a, <2>b, <2>2, <3>2, <3>3
  <2> QED
    BY <2>a, <2>1, <2>2
<1>2. MonitorInv => (\E t \in Thread : Runnable(t)) \/ AllReturned
  BY <1>1
<1> QED
  BY <1>2, MonitorInvariance, PTL
=============================================================================
