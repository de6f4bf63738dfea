---------------------------- MODULE MCTaskGraph ----------------------------
(* The programs that TaskGraph.cfg runs: all of them.                       *)
EXTENDS TaskGraph

AllPrograms == DOMAIN Code
=============================================================================
