---------------------------- MODULE MCEventDriven ----------------------------
(* The instance of EventDriven that TLC checks. *)
EXTENDS EventDriven

Delays == 0 .. 2

(* The first client sends enough to be misunderstood, the second enough to *)
(* be mistaken for the first.                                              *)
CONSTANTS c1, c2
TwoClients == {c1, c2}
MaxSent == [c \in TwoClients |-> IF c = c1 THEN 3 ELSE 1]
=============================================================================
