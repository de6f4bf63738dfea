----------------------------- MODULE H2OThreads -----------------------------
(***************************************************************************)
(* What the two classes H2O of leetcode/01_h2o_problem have in common: as  *)
(* in their tests, each thread of Hydrogens calls hydrogen() once and each *)
(* thread of Oxygens calls oxygen() once.  The release callbacks, which    *)
(* append a letter to a string in the tests, count the atoms.              *)
(***************************************************************************)
EXTENDS Integers, FiniteSets

CONSTANTS Hydrogens, Oxygens

Thread == Hydrogens \cup Oxygens

ASSUME ThreadAssumption ==
    IsFiniteSet(Thread) /\ Hydrogens \cap Oxygens = {}

VARIABLES nH, nO        \* how many atoms of each kind were released
=============================================================================
