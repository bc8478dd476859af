---------------------------- MODULE BranchFifo ----------------------------
(***************************************************************************)
(* fifoWithBranchOps of Dcache/fifo.scala: the circular buffer of requests *)
(* that may still be squashed.  A cycle's inputs are the record `in`:      *)
(*   write    the request at the write port, as a set (empty for none)     *)
(*   read     read.ready                                                   *)
(*   ops      branchOps, as a set of [bit, passed] (at most one)           *)
(* A request has a body, the flag `live` (branch.valid) and the bits of    *)
(* the unresolved branches it depends on (branch.mask).                    *)
(***************************************************************************)
EXTENDS Integers, Sequences

CONSTANTS Depth,    \* number of slots, at least 2
          Bits,     \* branch bits
          Bodies    \* what a request carries besides

(* The pointer arithmetic of fifo.scala:122-137 drops carries: it needs a   *)
(* power of two, and schedulerDepth is 16.                                  *)

VARIABLES readPtr, writePtr, emptyReg, fullReg,
          memReg    \* the set in a slot is empty until it is first written

fifoVars == <<readPtr, writePtr, emptyReg, fullReg, memReg>>

Slots == 0 .. Depth - 1
Request == [body : Bodies, live : BOOLEAN, mask : SUBSET Bits]
BranchOps == {{}} \cup {{o} : o \in [bit : Bits, passed : BOOLEAN]}

(***************************************************************************)
(* A resolution applied to a request: regWriteUpdate and regReadUpdate for *)
(* one that moves, the loop of fifo.scala:139-161 for one that stays.  The *)
(* two differ in the mask of a killed request, which only tells a head     *)
(* that it may leave.                                                      *)
(***************************************************************************)
Passed(ops) == {o.bit : o \in {p \in ops : p.passed}}
Failed(ops) == {o.bit : o \in {p \in ops : ~p.passed}}

MoveUpdate(r, ops) ==
  IF ~r.live THEN r
  ELSE IF r.mask \cap Failed(ops) # {} THEN [r EXCEPT !.live = FALSE, !.mask = {}]
  ELSE [r EXCEPT !.mask = @ \ Passed(ops)]

StayUpdate(r, ops) ==
  [r EXCEPT !.live = @ /\ r.mask \cap Failed(ops) = {}, !.mask = @ \ Passed(ops)]

Succ(p) == IF p = Depth - 1 THEN 0 ELSE p + 1
Pred(p) == IF p = 0 THEN Depth - 1 ELSE p - 1

(* writePtr - readPtr in log2(Depth) bits. *)
Dist(from, to) == IF to >= from THEN to - from ELSE to - from + Depth

occupancy == IF emptyReg THEN 0
             ELSE IF fullReg THEN Depth
             ELSE Dist(readPtr, writePtr)

(* The switch on write.data.valid ## read.ready: a write to a full buffer   *)
(* is dropped, even when the buffer is read in the same cycle.              *)
doWrite(in) == in.write # {} /\ ~fullReg
incrRead(in) == in.read /\ ~emptyReg

Pointers(in) ==
  /\ writePtr' = IF doWrite(in) THEN Succ(writePtr) ELSE writePtr
  /\ readPtr' = IF incrRead(in) THEN Succ(readPtr) ELSE readPtr

Hold(in) == /\ ~doWrite(in) /\ ~incrRead(in)
            /\ UNCHANGED <<emptyReg, fullReg>>

Write(in) == /\ doWrite(in) /\ ~incrRead(in)
             /\ emptyReg' = FALSE
             /\ fullReg' = (~in.read /\ Succ(writePtr) = readPtr)

Read(in) == /\ incrRead(in) /\ ~doWrite(in)
            /\ fullReg' = FALSE
            /\ emptyReg' = (in.write = {} /\ Succ(readPtr) = writePtr)

WriteRead(in) == /\ doWrite(in) /\ incrRead(in)
                 /\ fullReg' = FALSE
                 /\ emptyReg' = (Succ(readPtr) = Succ(writePtr))

(* The slots the loop updates: from startPointer round to endPointer, and   *)
(* never the one being written.                                             *)
Touched(in, i) ==
  /\ (IF in.read THEN Succ(readPtr) ELSE readPtr) <= i \/ i <= Pred(writePtr)
  /\ ~(doWrite(in) /\ i = writePtr)

(* Faulty: a failed branch in the mask of the slot's previous request also  *)
(* kills the one being written; the dropped store of fifo.scala:141-147.    *)
MemoryClobbersNew(in) ==
  memReg' = [i \in Slots |->
    IF doWrite(in) /\ i = writePtr
    THEN {[MoveUpdate(r, in.ops) EXCEPT !.live = @ /\ \A old \in memReg[i] :
             old.mask \cap Failed(in.ops) = {}] : r \in in.write}
    ELSE IF Touched(in, i) THEN {StayUpdate(r, in.ops) : r \in memReg[i]}
    ELSE memReg[i]]

Memory(in) ==
  memReg' = [i \in Slots |->
    IF doWrite(in) /\ i = writePtr THEN {MoveUpdate(r, in.ops) : r \in in.write}
    ELSE IF Touched(in, i) THEN {StayUpdate(r, in.ops) : r \in memReg[i]}
    ELSE memReg[i]]

Init == /\ readPtr = 0 /\ writePtr = 0
        /\ emptyReg = TRUE /\ fullReg = FALSE
        /\ memReg = [i \in Slots |-> {}]

Cycle(in) == /\ Hold(in) \/ Write(in) \/ Read(in) \/ WriteRead(in)
             /\ Pointers(in)
             /\ Memory(in)

(* A slot number that may have run past the end once. *)
Wrap(i) == IF i < Depth THEN i ELSE i - Depth

(* read.data: the head as it leaves, with this cycle's resolution applied.  *)
readData(ops) == IF emptyReg THEN {} ELSE {MoveUpdate(r, ops) : r \in memReg[readPtr]}

(* The requests in the buffer, oldest first. *)
Window == [k \in 1 .. occupancy |-> CHOOSE r \in memReg[Wrap(readPtr + k - 1)] : TRUE]

FifoTypeOK == /\ readPtr \in Slots /\ writePtr \in Slots
              /\ emptyReg \in BOOLEAN /\ fullReg \in BOOLEAN
              /\ memReg \in [Slots -> {{}} \cup {{r} : r \in Request}]

FlagsOK == /\ ~(emptyReg /\ fullReg)
           /\ (emptyReg \/ fullReg) <=> readPtr = writePtr
=============================================================================
