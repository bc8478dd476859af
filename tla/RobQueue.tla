------------------------------ MODULE RobQueue ------------------------------
(***************************************************************************)
(* What the circular buffer of pipeline/Fifo.scala promises: a bounded     *)
(* queue of instructions in program order, filled at the young end,        *)
(* drained at the old end, cut back at the young end by a mispredicted     *)
(* branch and emptied by a flush or a trap.                                *)
(***************************************************************************)
EXTENDS Naturals, Sequences

CONSTANTS Depth, Entry

VARIABLE q

Init == q = <<>>

Enqueue == /\ Len(q) < Depth
           /\ \E e \in Entry : q' = Append(q, e)

Dequeue == /\ q # <<>>
           /\ q' = Tail(q)

(* A full queue accepts an entry in the cycle in which it releases one. *)
Replace == /\ q # <<>>
           /\ \E e \in Entry : q' = Append(Tail(q), e)

(* Rollback: the branch and everything older stay. *)
Squash == \E k \in 1 .. Len(q) : q' = SubSeq(q, 1, k)

Empty == q' = <<>>

Next == Enqueue \/ Dequeue \/ Replace \/ Squash \/ Empty

Spec == Init /\ [][Next]_q
=============================================================================
