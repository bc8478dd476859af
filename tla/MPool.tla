------------------------------- MODULE MPool -------------------------------
(***************************************************************************)
(* What the M extension owes the rest of the hart: every multiply or       *)
(* divide it accepts is answered once, under its own ROB slot, unless a    *)
(* branch it depends on is mispredicted first; and it loses no other.      *)
(***************************************************************************)
EXTENDS Naturals

CONSTANTS Slot, Bits

VARIABLES pending,   \* accepted, neither answered nor squashed
          response   \* the answer given in this cycle

Op == [slot : Slot, div : BOOLEAN, mask : SUBSET Bits]
NoneOrOne(S) == {{}} \cup {{x} : x \in S}

Init == pending = {} /\ response = {}

(* A resolved branch bit leaves every mask; a failed one kills its dependants. *)
Kept(S, bits, failed) ==
  {[x EXCEPT !.mask = @ \ bits] : x \in {y \in S : ~(failed /\ y.mask \cap bits # {})}}

(* One cycle: take one operation, answer one, hear of one branch. *)
Clock(taken, out, bits, failed) ==
  /\ \A x \in taken, y \in pending : x.slot # y.slot
  /\ pending' = Kept((pending \ out) \cup taken, bits, failed)
  /\ response' = {[slot |-> x.slot, div |-> x.div] : x \in Kept(out, bits, failed)}

Next == \E taken \in NoneOrOne(Op), out \in NoneOrOne(pending),
           bits \in NoneOrOne(Bits), failed \in BOOLEAN :
             Clock(taken, out, bits, failed)

Spec == Init /\ [][Next]_<<pending, response>>
=============================================================================
