-------------------------- MODULE MCSemaphoreQueue --------------------------
(* Small instances of SemaphoreQueue.                                        *)
EXTENDS SemaphoreQueue, TLC

CONSTANTS p1, p2, c1, c2

(* Two consumers share what two producers push, unequally. *)
MCQuota == (p1 :> 2) @@ (p2 :> 2) @@ (c1 :> 3) @@ (c2 :> 1)

=============================================================================
