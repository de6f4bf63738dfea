---------------------------- MODULE MCThreadPool ----------------------------
(* A small instance of ThreadPool.                                            *)
EXTENDS ThreadPool

CONSTANT c1

(* One task may throw. *)
MCMayThrow == {<<c1, 2>>}
=============================================================================
