------------------------------ MODULE Counting ------------------------------
(* How many threads of a set are at a given point.                           *)
EXTENDS Naturals, FiniteSets

Count(at, threads, point) == Cardinality({ t \in threads : at[t] = point })
=============================================================================
