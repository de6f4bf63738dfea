--------------------------- MODULE MCFutureQueue ---------------------------
(* A small instance of FutureQueue.                                          *)
EXTENDS FutureQueue, TLC

CONSTANTS p1, p2, c1, c2

MCQuota == (p1 :> 2) @@ (p2 :> 2) @@ (c1 :> 3) @@ (c2 :> 1)
=============================================================================
