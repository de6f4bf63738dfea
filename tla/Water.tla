------------------------------- MODULE Water -------------------------------
(***************************************************************************)
(* What the tests of leetcode/01_h2o_problem ask of class H2O: cut into    *)
(* threes, the atoms that are released form molecules of two hydrogens and *)
(* one oxygen, in any order within a molecule.                             *)
(***************************************************************************)
EXTENDS Naturals

VARIABLES h, o,     \* atoms released into the molecule being formed
          made      \* complete molecules

vars == <<h, o, made>>

Init == h = 0 /\ o = 0 /\ made = 0

(* The third atom completes the molecule and the next one begins. *)
Became(hydrogens, oxygens) ==
    IF hydrogens + oxygens = 3
    THEN h' = 0 /\ o' = 0 /\ made' = made + 1
    ELSE h' = hydrogens /\ o' = oxygens /\ made' = made

Hydrogen == h < 2 /\ Became(h + 1, o)
Oxygen == o < 1 /\ Became(h, o + 1)

Next == Hydrogen \/ Oxygen

Spec == Init /\ [][Next]_vars
=============================================================================
