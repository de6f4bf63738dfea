---------------------------- MODULE MCMutexQueue ----------------------------
(* A small instance of MutexQueue.                                           *)
EXTENDS MutexQueue, TLC

CONSTANTS p1, p2, c1, c2

(* Two consumers share what two producers push, unequally. *)
MCQuota == (p1 :> 2) @@ (p2 :> 2) @@ (c1 :> 3) @@ (c2 :> 1)
=============================================================================
