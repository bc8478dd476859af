------------------------------ MODULE RobFifo ------------------------------
(***************************************************************************)
(* The circular buffer under the reorder buffer: robFifo and its subclass  *)
(* robResultsFifo of pipeline/Fifo.scala.  One step is one clock cycle;    *)
(* the input wires of that cycle are the record `in`:                      *)
(*   enqValid, bits    io.enq.valid and io.enq.bits                        *)
(*   deqReady          io.deq.ready                                        *)
(*   modify, modifyVal roll back so that modifyVal is the newest entry     *)
(*   flushAll          drop every entry                                    *)
(*   reset             synchronous reset (rob.scala drives it on a trap)   *)
(*   writes            the write ports of robResultsFifo, as a function    *)
(*                     from the addressed slots to the data                *)
(***************************************************************************)
EXTENDS Integers, FiniteSets

CONSTANTS Depth,          \* number of slots; a power of two (rob.scala:24)
          Entry,          \* what a slot holds
          NumWritePorts   \* 0 for a robFifo, more for a robResultsFifo

ASSUME DepthAssumption == Depth \in Nat /\ Depth >= 2
ASSUME PortsAssumption == NumWritePorts \in Nat

VARIABLES readReg, writeReg, fullReg, emptyReg, memReg

vars == <<readReg, writeReg, fullReg, emptyReg, memReg>>

Slots == 0 .. Depth - 1

(* The successor of a pointer: nextRead, nextWrite, nextval, secondPtr. *)
Succ(p) == IF p = Depth - 1 THEN 0 ELSE p + 1

(* to - from in log2(Depth) bits: relTarget and relWrite. *)
Dist(from, to) == IF to >= from THEN to - from ELSE to - from + Depth

occupancy == IF emptyReg THEN 0
             ELSE IF fullReg THEN Depth
             ELSE Dist(readReg, writeReg)

(* Faulty form of modifyInWindow: the rollback before Fifo.scala:113-119. *)
AnyTarget(in) == TRUE

(* A rollback may only target an entry in [readReg, writeReg). *)
modifyInWindow(in) == Dist(readReg, in.modifyVal) < occupancy

doModify(in) == in.modify /\ modifyInWindow(in)

deqValid(in) == ~emptyReg /\ ~doModify(in)

incrRead(in) == in.deqReady /\ deqValid(in)

enqReady(in) == (~fullReg \/ incrRead(in)) /\ ~doModify(in)

incrWrite(in) == in.enqValid /\ enqReady(in)

(* robResultsFifo's secondReady guard: at least two live entries. *)
twoOrMore == fullReg \/ (~emptyReg /\ Succ(readReg) # writeReg)

(***************************************************************************)
(* The memory: the enqueue writes at writePtr, the write ports wherever    *)
(* they are addressed, whether or not that slot is live.                   *)
(***************************************************************************)
MemNext(in) ==
    memReg' = [s \in Slots |->
                 IF s \in DOMAIN in.writes THEN in.writes[s]
                 ELSE IF incrWrite(in) /\ s = writeReg THEN in.bits
                 ELSE memReg[s]]

Init == /\ readReg = 0
        /\ writeReg = 0
        /\ fullReg = FALSE
        /\ emptyReg = TRUE
        /\ memReg \in [Slots -> Entry]   \* a Mem has no reset value

Running(in) == ~in.reset /\ ~in.flushAll

(* Faulty form of Rollback: fullReg is left as it was. *)
RollbackStaleFull(in) ==
    /\ Running(in)
    /\ doModify(in)
    /\ writeReg' = Succ(in.modifyVal)
    /\ emptyReg' = FALSE
    /\ UNCHANGED <<readReg, fullReg>>

Rollback(in) ==
    /\ Running(in)
    /\ doModify(in)
    /\ writeReg' = Succ(in.modifyVal)
    /\ fullReg' = (Succ(in.modifyVal) = readReg)
    /\ emptyReg' = FALSE
    /\ UNCHANGED readReg

EnqDeq(in) ==
    /\ Running(in)
    /\ incrRead(in) /\ incrWrite(in)
    /\ readReg' = Succ(readReg)
    /\ writeReg' = Succ(writeReg)
    /\ UNCHANGED <<fullReg, emptyReg>>

Enq(in) ==
    /\ Running(in)
    /\ incrWrite(in) /\ ~incrRead(in)
    /\ writeReg' = Succ(writeReg)
    /\ emptyReg' = FALSE
    /\ fullReg' = (Succ(writeReg) = readReg)
    /\ UNCHANGED readReg

Deq(in) ==
    /\ Running(in)
    /\ incrRead(in) /\ ~incrWrite(in)
    /\ readReg' = Succ(readReg)
    /\ fullReg' = FALSE
    /\ emptyReg' = (Succ(readReg) = writeReg)
    /\ UNCHANGED writeReg

Hold(in) ==
    /\ Running(in)
    /\ ~doModify(in) /\ ~incrRead(in) /\ ~incrWrite(in)
    /\ UNCHANGED <<readReg, writeReg, fullReg, emptyReg>>

(* flushAll is connected last: it overrides the write pointer and the flags *)
(* but not the read pointer, which still advances if an entry is dequeued.  *)
FlushAll(in) ==
    /\ in.flushAll /\ ~in.reset
    /\ readReg' = IF incrRead(in) THEN Succ(readReg) ELSE readReg
    /\ writeReg' = readReg
    /\ fullReg' = FALSE
    /\ emptyReg' = TRUE

Reset(in) ==
    /\ in.reset
    /\ readReg' = 0
    /\ writeReg' = 0
    /\ fullReg' = FALSE
    /\ emptyReg' = TRUE

Cycle(in) == /\ \/ Rollback(in) \/ EnqDeq(in) \/ Enq(in) \/ Deq(in)
                \/ Hold(in) \/ FlushAll(in) \/ Reset(in)
             /\ MemNext(in)

(***************************************************************************)
(* The surroundings: any combination of inputs, except that a flush never  *)
(* meets a dequeue.  core.scala has to provide that (module Backend).      *)
(***************************************************************************)
PortWrites == UNION {[S -> Entry] :
                       S \in {T \in SUBSET Slots : Cardinality(T) <= NumWritePorts}}

Input == [enqValid : BOOLEAN, bits : Entry, deqReady : BOOLEAN,
          modify : BOOLEAN, modifyVal : Slots,
          flushAll : BOOLEAN, reset : BOOLEAN, writes : PortWrites]

Legal(in) == in.flushAll => ~in.deqReady

Next == \E in \in Input : Legal(in) /\ Cycle(in)

Spec == Init /\ [][Next]_vars

-----------------------------------------------------------------------------
(***************************************************************************)
(* Properties                                                              *)
(***************************************************************************)

(* Pointers stay inside the memory and flags are Booleans. *)
TypeOK == /\ readReg \in Slots
          /\ writeReg \in Slots
          /\ fullReg \in BOOLEAN
          /\ emptyReg \in BOOLEAN
          /\ memReg \in [Slots -> Entry]

(* The flags disambiguate equal pointers and say nothing else: they are     *)
(* never both set, and one is set exactly when the pointers meet.  A flag   *)
(* left stale by a rollback is what Fifo.scala:125-147 reports as the cause *)
(* of two wedged cores.                                                     *)
FlagsMatchPointers == /\ ~(fullReg /\ emptyReg)
                      /\ (readReg = writeReg) <=> (fullReg \/ emptyReg)

(* Whatever rollback, flush, enqueue and dequeue meet in a cycle, the       *)
(* pointers stay inside the memory and full and empty agree with them.      *)
Consistent == TypeOK /\ FlagsMatchPointers

(* The slot k places after slot p, for p \in Slots and k <= Depth. *)
After(p, k) == IF p + k >= Depth THEN p + k - Depth ELSE p + k

(* The entries between the pointers, oldest first. *)
Window == [i \in 1 .. occupancy |-> memReg[After(readReg, i - 1)]]

Queue == INSTANCE RobQueue WITH q <- Window

(* Without write ports the buffer is a bounded queue whose only losses are  *)
(* its oldest entry, a suffix (rollback), or everything: no live entry is   *)
(* lost or reordered, no retired one comes back, whatever the rollback      *)
(* target is.                                                               *)
ImplementsQueue == Queue!Spec
=============================================================================
