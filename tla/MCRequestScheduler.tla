------------------------ MODULE MCRequestScheduler ------------------------
(***************************************************************************)
(* RequestScheduler for TLC.  Dwords are only compared for equality.  The  *)
(* view leaves out what no step reads: what a slot without a waiting       *)
(* request still holds, except for the dwords that the in-order queue's    *)
(* address check sees and the masks beside them.                           *)
(***************************************************************************)
EXTENDS RequestScheduler, TLC

DwordSymmetry == Permutations(Dwords)

LiveView ==
  <<shadow, branchOps, inRead, inWrite, inEmpty, inFull, spRead, spWrite, spEmpty, spFull,
    inorderQueue!Window, speculativeQueue!Window, route,
    [i \in DOMAIN inMem |-> {<<e.body.dword, e.mask>> : e \in inMem[i]}]>>
=============================================================================
