----------------------------- MODULE CppAtomics -----------------------------
(***************************************************************************)
(* The rules of the C++ memory model that the programs of chapters 4 and 5 *)
(* rely on, operationally.  An object has a history: the sequence of its   *)
(* stores, oldest first.  A view says, of each object, how much of its     *)
(* history is known (seen: an older store may not be read any more), and,  *)
(* of each thread, how many of its plain accesses happen before now        *)
(* (clock).  A store carries the view that an acquire load of it gains.    *)
(*                                                                         *)
(* Two simplifications, exact for the programs modelled here: every        *)
(* seq_cst access is to an atomic that has no weaker access (so such a     *)
(* load returns the last store), and a store is always the newest of its   *)
(* object (no atomic of theirs is stored to, other than by a               *)
(* read-modify-write, from two threads that race for it).                  *)
(***************************************************************************)
EXTENDS Naturals, Sequences, SequencesExt, FiniteSetsExt

Acquiring == {"acquire", "acq_rel", "seq_cst"}
Releasing == {"release", "acq_rel", "seq_cst"}

Later(f, g) == [x \in DOMAIN f |-> Max({f[x], g[x]})]

Join(v, w) == [seen |-> Later(v.seen, w.seen), clock |-> Later(v.clock, w.clock)]

(* What is known before anything happens: the initial store of each object. *)
InitialView(objects, threads) ==
    [seen |-> [o \in objects |-> 1], clock |-> [t \in threads |-> 0]]

InitialHistory(view) == << [value |-> 0, view |-> view] >>

(* The stores of o, by their place in its history, that a load may return.  *)
Readable(history, view, o, order) ==
    IF order = "seq_cst" THEN {Len(history)} ELSE view.seen[o] .. Len(history)

(* The view after a load of the i-th store: coherence, and what an acquire  *)
(* load synchronizes with.                                                  *)
ViewAfterLoad(history, view, o, i, order) ==
    LET own == [view EXCEPT !.seen[o] = i] IN
    IF order \in Acquiring THEN Join(own, history[i].view) ELSE own

(* The view after a store of o, which becomes the newest of its history.    *)
ViewAfterStore(history, view, o) == [view EXCEPT !.seen[o] = Len(history) + 1]

(* The history after a store by a thread whose view is then `view`; a store *)
(* that does not release carries nothing but `carried`, which is what the   *)
(* release sequence it continues carries, if it is a read-modify-write.     *)
HistoryAfterStore(history, view, value, order, carried) ==
    Append(history,
           [value |-> value,
            view |-> IF order \in Releasing THEN Join(view, carried) ELSE carried])
=============================================================================
