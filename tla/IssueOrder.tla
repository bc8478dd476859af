----------------------------- MODULE IssueOrder -----------------------------
(***************************************************************************)
(* What the issue queue promises: instructions wait in program order;      *)
(* branches leave in order among branches, memory accesses in order among  *)
(* memory accesses; and only a mispredicted branch removes anything else.  *)
(***************************************************************************)
EXTENDS Naturals, FiniteSets

CONSTANTS Slot, Bits, Classes, instrIssueDepth

VARIABLES waiting,    \* the instructions that wait
          before,     \* the pairs of their slots of which the first is older
          released    \* the one handed to register read, if any

Instr == [slot : Slot, class : Classes, mask : SUBSET Bits]

Init == waiting = {} /\ before = {} /\ released = {}

InOrder == {"br", "mem"}

MayIssue(x) == x.class \in InOrder =>
                 \A y \in waiting : y.class = x.class => <<y.slot, x.slot>> \notin before

SlotsOf(S) == {x.slot : x \in S}

(* What a resolution leaves of a set of instructions. *)
Kept(S, bits, failed) ==
  {[x EXCEPT !.mask = @ \ bits] : x \in {y \in S : ~(failed /\ y.mask \cap bits # {})}}

(* One cycle: at most one instruction joins, behind all others; at most one *)
(* leaves for the release register (once that is free), and one branch may  *)
(* resolve.  Those that stay keep their order.                              *)
Clock(joins, leaves, fires, bits, failed) ==
  /\ joins # {} => Cardinality(waiting) < instrIssueDepth
  /\ \A x \in joins : x.slot \notin SlotsOf(waiting \cup released)
  /\ leaves # {} => (\A x \in leaves : MayIssue(x)) /\ (fires \/ released = {})
  /\ waiting' = Kept((waiting \ leaves) \cup joins, bits, failed)
  /\ before' = (before \cup (SlotsOf(waiting) \X SlotsOf(joins)))
                 \cap (SlotsOf(waiting') \X SlotsOf(waiting'))
  /\ released' = Kept(IF leaves # {} THEN leaves ELSE IF fires THEN {} ELSE released, bits, failed)

AtMostOne(S) == {{}} \cup {{x} : x \in S}

Next == \E joins \in AtMostOne(Instr), leaves \in AtMostOne(waiting), fires, failed \in BOOLEAN,
           bits \in AtMostOne(Bits) : Clock(joins, leaves, fires, bits, failed)

Spec == Init /\ [][Next]_<<waiting, before, released>>
=============================================================================
