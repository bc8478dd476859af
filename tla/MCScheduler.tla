---------------------------- MODULE MCScheduler ----------------------------
(* A three-entry issue queue; ROB slots are interchangeable. *)
EXTENDS Scheduler, TLC

SlotSymmetry == Permutations(Slot)
=============================================================================
