---------------------------- MODULE BoundedFifo ----------------------------
(***************************************************************************)
(* What every queue of the repository promises, whatever it is built from: *)
(* one sequence that producers append to and consumers take the head of,   *)
(* never longer than Bound.  The n-th item of producer p is <<p, n>>, so   *)
(* an item that is lost, duplicated, invented or overtaken is visible in   *)
(* the sequences of items that the consumers got.                          *)
(***************************************************************************)
EXTENDS Naturals, Sequences

CONSTANTS Producers,    \* the threads that push
          Consumers,    \* the threads that pop
          Quota,        \* how many items each of these threads moves
          Bound         \* how many items fit

VARIABLES queue,        \* the items pushed and not yet popped, oldest first
          sent,         \* how many items each producer has pushed
          got           \* the items each consumer has popped, in order

vars == <<queue, sent, got>>

Item == Producers \X Nat

Init ==
    /\ queue = << >>
    /\ sent = [p \in Producers |-> 0]
    /\ got = [c \in Consumers |-> << >>]

Put(p) ==
    /\ Len(queue) < Bound
    /\ sent[p] < Quota[p]
    /\ queue' = Append(queue, <<p, sent[p] + 1>>)
    /\ sent' = [sent EXCEPT ![p] = @ + 1]
    /\ UNCHANGED got

Take(c) ==
    /\ queue # << >>
    /\ Len(got[c]) < Quota[c]
    /\ got' = [got EXCEPT ![c] = Append(@, Head(queue))]
    /\ queue' = Tail(queue)
    /\ UNCHANGED sent

Next ==
    \/ \E p \in Producers : Put(p)
    \/ \E c \in Consumers : Take(c)

Spec == Init /\ [][Next]_vars
=============================================================================
