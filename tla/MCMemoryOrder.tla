--------------------------- MODULE MCMemoryOrder ---------------------------
(* The programs that MemoryOrder.cfg runs: all of them.                     *)
EXTENDS MemoryOrder

AllPrograms == DOMAIN Code
=============================================================================
