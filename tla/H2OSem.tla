------------------------------- MODULE H2OSem -------------------------------
(***************************************************************************)
(* Class H2O of leetcode/01_h2o_problem/h2o_sem.h: four semaphores.        *)
(* Every call that its two functions make is a step, so any other thread   *)
(* may run between two of them; pc names the call that comes next.         *)
(***************************************************************************)
EXTENDS H2OThreads, Counting

VARIABLES sem_h, sem_o, sem_hydro_done, sem_oxy_done, pc

sems == <<sem_h, sem_o, sem_hydro_done, sem_oxy_done>>
atoms == <<nH, nO>>
vars == <<sems, pc, atoms>>

(* The template arguments of the semaphores: the value each may reach. *)
max_h == 2
max_o == 1
max_done == 3

Label == {"h_enter", "h_release", "h_signal", "h_await", "h_leave",
          "o_enter", "o_first", "o_second", "o_release", "o_signal", "o_leave",
          "done"}

Init ==
    /\ sem_h = 2 /\ sem_o = 1 /\ sem_hydro_done = 0 /\ sem_oxy_done = 0
    /\ pc = [t \in Thread |-> IF t \in Hydrogens THEN "h_enter" ELSE "o_enter"]
    /\ nH = 0 /\ nO = 0

Goto(t, from, to) == t \in Thread /\ pc[t] = from /\ pc' = [pc EXCEPT ![t] = to]
-----------------------------------------------------------------------------
(* hydrogen() *)

HEnter(t) ==
    /\ Goto(t, "h_enter", "h_release")
    /\ sem_h > 0 /\ sem_h' = sem_h - 1
    /\ UNCHANGED <<sem_o, sem_hydro_done, sem_oxy_done, atoms>>

ReleaseHydrogen(t) ==
    /\ Goto(t, "h_release", "h_signal")
    /\ nH' = nH + 1
    /\ UNCHANGED <<sems, nO>>

HSignal(t) ==
    /\ Goto(t, "h_signal", "h_await")
    /\ sem_hydro_done' = sem_hydro_done + 1
    /\ UNCHANGED <<sem_h, sem_o, sem_oxy_done, atoms>>

(* Mutant: the token is not taken. *)
HAwaitKeepsToken(t) ==
    /\ Goto(t, "h_await", "h_leave")
    /\ sem_oxy_done > 0
    /\ UNCHANGED <<sems, atoms>>

HAwait(t) ==
    /\ Goto(t, "h_await", "h_leave")
    /\ sem_oxy_done > 0 /\ sem_oxy_done' = sem_oxy_done - 1
    /\ UNCHANGED <<sem_h, sem_o, sem_hydro_done, atoms>>

HLeave(t) ==
    /\ Goto(t, "h_leave", "done")
    /\ sem_h' = sem_h + 1
    /\ UNCHANGED <<sem_o, sem_hydro_done, sem_oxy_done, atoms>>

Hydrogen(t) ==
    HEnter(t) \/ ReleaseHydrogen(t) \/ HSignal(t) \/ HAwait(t) \/ HLeave(t)
-----------------------------------------------------------------------------
(* oxygen() *)

OEnter(t) ==
    /\ Goto(t, "o_enter", "o_first")
    /\ sem_o > 0 /\ sem_o' = sem_o - 1
    /\ UNCHANGED <<sem_h, sem_hydro_done, sem_oxy_done, atoms>>

OFirst(t) ==
    /\ Goto(t, "o_first", "o_second")
    /\ sem_hydro_done > 0 /\ sem_hydro_done' = sem_hydro_done - 1
    /\ UNCHANGED <<sem_h, sem_o, sem_oxy_done, atoms>>

(* Mutant: the second acquire() is missing. *)
OSecondSkipped(t) ==
    /\ Goto(t, "o_second", "o_release")
    /\ UNCHANGED <<sems, atoms>>

OSecond(t) ==
    /\ Goto(t, "o_second", "o_release")
    /\ sem_hydro_done > 0 /\ sem_hydro_done' = sem_hydro_done - 1
    /\ UNCHANGED <<sem_h, sem_o, sem_oxy_done, atoms>>

ReleaseOxygen(t) ==
    /\ Goto(t, "o_release", "o_signal")
    /\ nO' = nO + 1
    /\ UNCHANGED <<sems, nH>>

(* Mutant: release() instead of release(2). *)
OSignalOnce(t) ==
    /\ Goto(t, "o_signal", "o_leave")
    /\ sem_oxy_done' = sem_oxy_done + 1
    /\ UNCHANGED <<sem_h, sem_o, sem_hydro_done, atoms>>

OSignal(t) ==
    /\ Goto(t, "o_signal", "o_leave")
    /\ sem_oxy_done' = sem_oxy_done + 2
    /\ UNCHANGED <<sem_h, sem_o, sem_hydro_done, atoms>>

OLeave(t) ==
    /\ Goto(t, "o_leave", "done")
    /\ sem_o' = sem_o + 1
    /\ UNCHANGED <<sem_h, sem_hydro_done, sem_oxy_done, atoms>>

Oxygen(t) ==
    \/ OEnter(t) \/ OFirst(t) \/ OSecond(t)
    \/ ReleaseOxygen(t) \/ OSignal(t) \/ OLeave(t)
-----------------------------------------------------------------------------
(* The tests join all the threads. *)
AllJoined == \A t \in Thread : pc[t] = "done"
Joined == AllJoined /\ UNCHANGED vars

Next == (\E t \in Thread : Hydrogen(t) \/ Oxygen(t)) \/ Joined

Spec == Init /\ [][Next]_vars

(* The operating system runs every thread that can run.  A thread that      *)
(* waits for a semaphore gets it unless others keep taking it, and there    *)
(* are finitely many others, each of which takes it once.                   *)
FairSpec == Spec /\ \A t \in Thread : WF_vars(Hydrogen(t) \/ Oxygen(t))
-----------------------------------------------------------------------------
TypeOK ==
    /\ sem_h \in Nat /\ sem_o \in Nat
    /\ sem_hydro_done \in Nat /\ sem_oxy_done \in Nat
    /\ pc \in [Thread -> Label]
    /\ nH \in Nat /\ nO \in Nat

At(label) == Count(pc, Thread, label)

(* The two places for hydrogens are free or taken by a call in progress. *)
HydrogenPlaces ==
    sem_h + At("h_release") + At("h_signal") + At("h_await") + At("h_leave") = 2

(* So is the place for one oxygen. *)
OxygenPlace ==
    sem_o + At("o_first") + At("o_second") + At("o_release")
          + At("o_signal") + At("o_leave") = 1

(* A hydrogen atom that was released is part of a molecule, or yet to be    *)
(* signalled, or signalled, or taken by the oxygen in progress.             *)
HydrogenAtoms ==
    nH = 2 * nO + At("h_signal") + sem_hydro_done
                + At("o_second") + 2 * At("o_release")

(* Every molecule lets two hydrogen calls leave: those that have left, and  *)
(* the tokens that are or will be in sem_oxy_done.                          *)
LeaveTokens ==
    2 * nO + At("h_signal") + At("h_await")
        = sem_oxy_done + 2 * At("o_signal") + nH

(* Where every permit and every atom is, whichever hydrogen call takes      *)
(* which token and in any interleaving of the calls.                        *)
Accounts == HydrogenPlaces /\ OxygenPlace /\ HydrogenAtoms /\ LeaveTokens

(* No release() takes a semaphore above its least_max_value, which would be *)
(* undefined: although a fast hydrogen may take the place, and the token,   *)
(* of one that still waits, the tokens never pile up.                       *)
WithinMax ==
    /\ sem_h <= max_h /\ sem_o <= max_o
    /\ sem_hydro_done <= max_done /\ sem_oxy_done <= max_done

(* The atoms come out in threes, two hydrogens and one oxygen each, however *)
(* the calls overlap: no hydrogen of a later molecule overtakes the oxygen  *)
(* of the current one.                                                      *)
Molecule == INSTANCE Water WITH h <- nH - 2 * nO, o <- 0, made <- nO
MakesWater == Molecule!Spec

(* With twice as many hydrogens as oxygens every call returns, so that the  *)
(* tests can join their threads: no token is taken by a call that leaves    *)
(* another one without.                                                     *)
Terminates ==
    Cardinality(Hydrogens) = 2 * Cardinality(Oxygens) => <>AllJoined
=============================================================================
