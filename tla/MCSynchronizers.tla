-------------------------- MODULE MCSynchronizers --------------------------
(* The programs that Synchronizers.cfg runs: all of them.                   *)
EXTENDS Synchronizers

AllPrograms == DOMAIN Code
=============================================================================
