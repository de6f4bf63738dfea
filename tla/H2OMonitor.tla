----------------------------- MODULE H2OMonitor -----------------------------
(***************************************************************************)
(* Class H2O of leetcode/01_h2o_problem/h2o.h: one mutex, one condition    *)
(* variable for both kinds of thread, and a counter.  The whole body of a  *)
(* function runs with the mutex held except while it waits, so that taking *)
(* the mutex with the predicate true and returning is one step.            *)
(***************************************************************************)
EXTENDS H2OThreads, CondVar

VARIABLES hydrogen_count,
          cv,           \* the threads blocked in cv.wait()
          done          \* the threads whose call has returned

monitorVars == <<hydrogen_count, cv, done, nH, nO>>

MonitorInit ==
    /\ hydrogen_count = 0
    /\ cv = {} /\ done = {}
    /\ nH = 0 /\ nO = 0

Runnable(t) == t \notin cv \cup done

(* Mutant: the second hydrogen notifies nobody. *)
HydrogenSilent(t) ==
    /\ t \in Hydrogens /\ Runnable(t)
    /\ hydrogen_count < 2
    /\ hydrogen_count' = hydrogen_count + 1
    /\ nH' = nH + 1
    /\ done' = done \cup {t}
    /\ UNCHANGED <<cv, nO>>

(* hydrogen() from acquiring the mutex to the end, with room for an atom. *)
hydrogen(t) ==
    /\ t \in Hydrogens /\ Runnable(t)
    /\ hydrogen_count < 2
    /\ hydrogen_count' = hydrogen_count + 1
    /\ nH' = nH + 1
    /\ cv' = IF hydrogen_count' = 2 THEN NotifyAll(cv) ELSE cv
    /\ done' = done \cup {t}
    /\ UNCHANGED nO

(* Mutant: notify_one() instead of notify_all(). *)
OxygenNotifiesOne(t) ==
    /\ t \in Oxygens /\ Runnable(t)
    /\ hydrogen_count = 2
    /\ hydrogen_count' = 0
    /\ nO' = nO + 1
    /\ cv' \in NotifyOne(cv)
    /\ done' = done \cup {t}
    /\ UNCHANGED nH

(* Mutant: one hydrogen is enough. *)
OxygenTooEarly(t) ==
    /\ t \in Oxygens /\ Runnable(t)
    /\ hydrogen_count > 0
    /\ hydrogen_count' = 0
    /\ nO' = nO + 1
    /\ cv' = NotifyAll(cv)
    /\ done' = done \cup {t}
    /\ UNCHANGED nH

(* oxygen() from acquiring the mutex to the end, with two atoms waiting. *)
oxygen(t) ==
    /\ t \in Oxygens /\ Runnable(t)
    /\ hydrogen_count = 2
    /\ hydrogen_count' = 0
    /\ nO' = nO + 1
    /\ cv' = NotifyAll(cv)
    /\ done' = done \cup {t}
    /\ UNCHANGED nH

(* Acquiring the mutex with the predicate false: cv.wait() blocks. *)
Wait(t) ==
    /\ Runnable(t)
    /\ IF t \in Hydrogens THEN hydrogen_count >= 2 ELSE hydrogen_count # 2
    /\ cv' = cv \cup {t}
    /\ UNCHANGED <<hydrogen_count, done, nH, nO>>

SpuriousWakeup(t) ==
    /\ t \in cv
    /\ cv' = cv \ {t}
    /\ UNCHANGED <<hydrogen_count, done, nH, nO>>

AllReturned == done = Thread
MonitorJoined == AllReturned /\ UNCHANGED monitorVars

Call(t) == hydrogen(t) \/ oxygen(t) \/ Wait(t)
MonitorNext == (\E t \in Thread : Call(t) \/ SpuriousWakeup(t)) \/ MonitorJoined

MonitorSpec == MonitorInit /\ [][MonitorNext]_monitorVars

(* The operating system runs every thread that can run, and the mutex is    *)
(* held only for a bounded time.                                            *)
MonitorFairSpec == MonitorSpec /\ \A t \in Thread : WF_monitorVars(Call(t))
-----------------------------------------------------------------------------
MonitorTypeOK ==
    /\ hydrogen_count \in 0 .. 2
    /\ cv \in SUBSET Thread /\ done \in SUBSET Thread
    /\ nH \in Nat /\ nO \in Nat

(* One condition variable serves two predicates, and yet no wakeup is lost: *)
(* a blocked thread is one whose predicate is false at this moment.         *)
OnlyFalsePredicatesWait ==
    /\ hydrogen_count < 2 => cv \cap Hydrogens = {}
    /\ hydrogen_count = 2 => cv \cap Oxygens = {}

(* The atoms come out in threes, two hydrogens and one oxygen each. *)
MonitorMolecule == INSTANCE Water WITH h <- hydrogen_count, o <- 0, made <- nO
MonitorMakesWater == MonitorMolecule!Spec /\ [](nH = 2 * nO + hydrogen_count)

(* With twice as many hydrogens as oxygens every call returns, unless the   *)
(* library wakes waiters spuriously for ever.                               *)
MonitorTerminates ==
    /\ Cardinality(Hydrogens) = 2 * Cardinality(Oxygens)
    /\ <>[][~ \E t \in Thread : SpuriousWakeup(t)]_monitorVars
    => <>AllReturned
=============================================================================
