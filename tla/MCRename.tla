------------------------------ MODULE MCRename ------------------------------
(***************************************************************************)
(* Instances of Rename for TLC.  The view leaves out what no step reads:   *)
(* checkpoints that are not in use, and the valid bits of free registers   *)
(* (allocation clears them).                                               *)
(***************************************************************************)
EXTENDS Rename

LiveView ==
  <<inputBuffer, outputBuffer, inFlight, frontEndRegMap, architecturalRegMap,
    PRFFreeList, PRFValidList \ PRFFreeList, branchTracker, instrRetired,
    [c \in {d \in Checkpoints : d < branchTracker} |->
       <<reservedRegMap[c], reservedFreeList[c], reservedValidList[c] \ reservedFreeList[c]>>]>>
=============================================================================
