--------------------------- MODULE BackendProofs ---------------------------
(***************************************************************************)
(* The speculative back end for any ROB depth, number of branch bits,      *)
(* issue queue depth and mix of instructions without a trap: the masks name *)
(* exactly the older unresolved branches, every completion belongs to the  *)
(* instruction that holds its slot, no instruction is lost or in two       *)
(* places, and a misprediction removes exactly the younger instructions.   *)
(***************************************************************************)
EXTENDS Backend, FiniteSetTheorems, SequenceTheorems, WellFoundedInduction, TLAPS

(***************************************************************************)
(* The inductive invariant.  An instruction moves from place to place,     *)
(* and a branch ends in branchEvals.                                       *)
(***************************************************************************)
Masked == {"queue", "released", "toExec", "aluReq", "units", "branchInstruction"}
PlaceNames == Masked \cup {"aluResp", "unitResp", "branchEvals"}

Held(w) == CASE w = "queue" -> Queued
             [] w = "released" -> released
             [] w = "toExec" -> toExec
             [] w = "aluReq" -> aluReq
             [] w = "units" -> units
             [] w = "branchInstruction" -> branchInstruction
             [] w = "aluResp" -> aluResp
             [] w = "unitResp" -> unitResp
             [] OTHER -> branchEvals

(* What kinds are found where. *)
Fits(w, k) == CASE w \in {"queue", "released", "toExec"} -> k # "lui"
                [] w \in {"aluReq", "aluResp"} -> k = "alu"
                [] w \in {"units", "unitResp"} -> Long(k)
                [] OTHER -> k = "br"

(* What is on its way is in the ROB, with the same kind, and not ready. *)
FlightOwned ==
  \A w \in PlaceNames : \A x \in Held(w) :
     /\ Owns(x) /\ ~rob[x.slot].ready
     /\ Fits(w, rob[x.slot].kind)
     /\ w # "branchEvals" => x.kind = rob[x.slot].kind

(* No slot is on its way twice, and the queue is sorted by age. *)
Apart ==
  \A v, w \in PlaceNames : \A x \in Held(v), y \in Held(w) :
     x.slot = y.slot => v = w /\ x = y

QueueAged ==
  \A i, j \in DOMAIN queue : i < j => Age(queue[i].slot) < Age(queue[j].slot)

(* What is not ready is on its way. *)
UnderWay ==
  \A s \in Slots : Live(s) /\ ~rob[s].ready =>
     \E w \in PlaceNames : \E x \in Held(w) : x.slot = s

(* Branches go through the pipe in order. *)
Rank(w) == CASE w = "queue" -> 1
             [] w = "released" -> 2
             [] w = "toExec" -> 3
             [] w = "branchInstruction" -> 4
             [] w = "branchEvals" -> 5
             [] OTHER -> 0

BranchesInOrder ==
  \A v, w \in PlaceNames : \A x \in Held(v), y \in Held(w) :
     /\ rob[x.slot].kind = "br" /\ rob[y.slot].kind = "br"
     /\ Rank(v) < Rank(w)
     => Age(y.slot) < Age(x.slot)

(* Decode's branch buffer holds a bit for each unresolved branch. *)
Open == {s \in Slots : Unresolved(s)}
Decoded == {o.bit : o \in {outBuf[i] : i \in {j \in DOMAIN outBuf : outBuf[j].kind = "br"}}}

BitsApart ==
  /\ \A s, t \in Open : rob[s].bit = rob[t].bit => s = t
  /\ \A s \in Open : rob[s].bit \notin Decoded
  /\ branchMask = {rob[s].bit : s \in Open} \cup Decoded

(* The bits that wait for their branches to execute, in the order of age. *)
Waiting == branchPCs \o (IF pcReady = {} THEN <<>> ELSE <<Min(pcReady)>>)
Unevaluated == {s \in Open : \A b \in branchEvals : b.slot # s}
InRob == Len(Waiting) - Cardinality(Decoded)

PairedBy(at) ==
  /\ \A s, t \in Unevaluated : Age(s) < Age(t) => at[s] < at[t]
  /\ \A i \in 1 .. InRob : \E s \in Unevaluated : at[s] = i
  /\ \A s \in Unevaluated : Waiting[at[s]] = rob[s].bit

BitsPaired ==
  /\ pcReady # {} => Decoded = {Min(pcReady)}
  /\ Decoded # {} => Len(Waiting) > 0 /\ Waiting[Len(Waiting)] \in Decoded
  /\ \E at \in [Unevaluated -> 1 .. InRob] : PairedBy(at)

(* A register holds at most one instruction. *)
AtMostOne(S) == \A x, y \in S : x = y

OnePerRegister ==
  \A S \in {released, toExec, aluReq, aluResp, unitResp, branchInstruction, branchEvals} :
     AtMostOne(S)

IInv == /\ TypeOK /\ Fifo!FlagsMatchPointers /\ OnePerRegister
        /\ FlightOwned /\ Apart /\ QueueAged /\ UnderWay
        /\ MasksExact /\ BranchesInOrder /\ BitsApart /\ BitsPaired
        /\ BroadcastPaired

USE BackendAssumption
-----------------------------------------------------------------------------
(***************************************************************************)
(* Sets and numbers.                                                       *)
(***************************************************************************)

(* The sizes are numbers. *)
LEMMA Sizes == Depth \in Nat /\ Depth >= 2 /\ IssueDepth \in Nat /\ MaxGen \in Nat /\ MaxGen >= 1
  OBVIOUS

LEMMA AtMostOneCard ==
  ASSUME NEW S
  PROVE  AtMostOne(S) <=> IsFiniteSet(S) /\ Cardinality(S) <= 1
<1>1. CASE S = {}
  BY <1>1, FS_EmptySet DEF AtMostOne
<1>2. CASE S # {}
  <2>1. PICK x \in S : TRUE
    BY <1>2
  <2>2. ASSUME AtMostOne(S) PROVE IsFiniteSet(S) /\ Cardinality(S) <= 1
    <3>1. S = {x}
      BY <2>1, <2>2 DEF AtMostOne
    <3>2. IsFiniteSet({x}) /\ Cardinality({x}) = 1
      BY FS_Singleton
    <3>3. QED
      BY <3>1, <3>2
  <2>3. ASSUME IsFiniteSet(S), Cardinality(S) <= 1 PROVE AtMostOne(S)
    <3>1. IsFiniteSet({x}) /\ Cardinality({x}) = 1
      BY FS_Singleton
    <3>2. {x} \subseteq S /\ Cardinality(S) \in Nat
      BY <2>1, <2>3, FS_CardinalityType
    <3>3. {x} = S
      BY <2>3, <3>1, <3>2, FS_Subset
    <3>4. QED
      BY <3>3 DEF AtMostOne
  <2>4. QED
    BY <2>2, <2>3
<1>3. QED
  BY <1>1, <1>2

(* The least element of a set of numbers. *)
LEMMA MinOf ==
  ASSUME NEW S \in SUBSET Nat, S # {}
  PROVE  Min(S) \in S /\ \A y \in S : Min(S) <= y
<1>1. \E x \in S : \A y \in S : x <= y
  <2>1. IsWellFoundedOn(OpToRel(<, Nat), Nat)
    BY NatLessThanWellFounded
  <2>2. PICK x \in S : \A y \in S : ~(<<y, x>> \in OpToRel(<, Nat))
    BY <2>1, WFMin
  <2>3. \A y \in S : ~(y < x)
    BY <2>2 DEF OpToRel
  <2>4. QED
    BY <2>3
<1>2. QED
  BY <1>1 DEF Min

-----------------------------------------------------------------------------
(***************************************************************************)
(* The ROB as an order of live slots.                                      *)
(***************************************************************************)

LEMMA AgeIs ==
  ASSUME Fifo!TypeOK
  PROVE  /\ \A s \in Slots : Age(s) \in Nat /\ Age(s) < Depth
         /\ \A s, t \in Slots : Age(s) = Age(t) => s = t
  BY DEF Fifo!TypeOK, Fifo!Slots, Slots, Age, Fifo!Dist

(* What leaves the ROB in a cycle, and what completes. *)
Kept(c, s) ==
  Live(s) /\ IF Failed THEN Age(s) <= Age(rollbackSlot) ELSE ~(commitFired(c) /\ s = readReg)

Done == {x.slot : x \in aluResp \cup unitResp \cup branchEvals}

NewEntry == [gen |-> freshGen, kind |-> outBuf[1].kind, ready |-> outBuf[1].kind = "lui",
             bit |-> outBuf[1].bit]

(* The resolution of this cycle is that of one branch, which is live. *)
LEMMA OneResolution ==
  ASSUME IInv, NEW b \in branchEvals
  PROVE  /\ branchEvals = {b} /\ rollbackSlot = b.slot /\ Resolved = {b.bit}
         /\ b.bit = rob[b.slot].bit /\ b.slot \in Slots /\ Live(b.slot)
         /\ rob[b.slot].kind = "br" /\ ~rob[b.slot].ready
<1>1. branchEvals = {b}
  BY DEF IInv, OnePerRegister, AtMostOne
<1>2. b \in Held("branchEvals") /\ "branchEvals" \in PlaceNames
  BY DEF Held, PlaceNames
<1>3. Owns(b) /\ ~rob[b.slot].ready /\ Fits("branchEvals", rob[b.slot].kind)
  BY <1>2 DEF IInv, FlightOwned
<1>4. b.slot \in Slots
  BY DEF IInv, TypeOK
<1>5. b.bit = rob[b.slot].bit
  BY <1>3 DEF IInv, BroadcastPaired
<1>6. rollbackSlot = b.slot /\ Resolved = {b.bit}
  BY <1>1 DEF rollbackSlot, Resolved
<1>7. QED
  BY <1>1, <1>3, <1>4, <1>5, <1>6 DEF Owns, Fits

(* Nothing commits or enters in the cycle of a misprediction. *)
LEMMA FailureFreezes ==
  ASSUME IInv, Failed, NEW c
  PROVE  /\ Fifo!doModify(Rollback) /\ ~commitFired(c) /\ ~allocFired(c)
         /\ rollbackSlot \in Slots /\ Live(rollbackSlot)
<1>1. PICK b \in branchEvals : ~b.passed
  BY DEF Failed
<1>2. rollbackSlot \in Slots /\ Live(rollbackSlot)
  BY <1>1, OneResolution
<1>3. Fifo!doModify(Rollback)
  BY <1>2 DEF Fifo!doModify, Fifo!modifyInWindow, Rollback, Live
<1>4. QED
  BY <1>2, <1>3 DEF commitFired, commitReady, Fifo!deqValid, allocFired

(* The ROB's pointers and memory after the cycle. *)
LEMMA FifoStep ==
  ASSUME IInv, NEW c, RobCycle(c), "bad" \notin Kinds
  PROVE  /\ rob' = [s \in Slots |->
                      IF s \in Done
                      THEN [(IF allocFired(c) /\ s = writeReg THEN NewEntry ELSE rob[s])
                              EXCEPT !.ready = TRUE]
                      ELSE IF allocFired(c) /\ s = writeReg THEN NewEntry ELSE rob[s]]
         /\ Failed => /\ readReg' = readReg /\ writeReg' = Fifo!Succ(rollbackSlot)
                      /\ fullReg' = (Fifo!Succ(rollbackSlot) = readReg) /\ emptyReg' = FALSE
         /\ ~Failed => /\ readReg' = IF commitFired(c) THEN Fifo!Succ(readReg) ELSE readReg
                       /\ writeReg' = IF allocFired(c) THEN Fifo!Succ(writeReg) ELSE writeReg
         /\ ~Failed /\ allocFired(c) /\ ~commitFired(c) =>
                       fullReg' = (Fifo!Succ(writeReg) = readReg) /\ emptyReg' = FALSE
         /\ ~Failed /\ ~allocFired(c) /\ commitFired(c) =>
                       fullReg' = FALSE /\ emptyReg' = (Fifo!Succ(readReg) = writeReg)
         /\ ~Failed /\ (allocFired(c) <=> commitFired(c)) =>
                       fullReg' = fullReg /\ emptyReg' = emptyReg
<1> DEFINE next(s) == IF allocFired(c) /\ s = writeReg THEN NewEntry ELSE rob[s]
           in == [enqValid |-> allocFired(c), bits |-> next(writeReg), deqReady |-> commitFired(c),
                  modify |-> Rollback.modify, modifyVal |-> Rollback.modifyVal,
                  flushAll |-> FALSE, reset |-> commitFired(c) /\ head.kind = "bad",
                  writes |-> [s \in Done |-> [next(s) EXCEPT !.ready = TRUE]]]
<1>1. Fifo!Cycle(in)
  BY DEF RobCycle, NewEntry, Done
<1>2. /\ in.enqValid = allocFired(c) /\ in.bits = next(writeReg) /\ in.deqReady = commitFired(c)
      /\ in.modify = Failed /\ in.modifyVal = rollbackSlot
      /\ in.flushAll = FALSE /\ in.reset = (commitFired(c) /\ head.kind = "bad")
      /\ in.writes = [s \in Done |-> [next(s) EXCEPT !.ready = TRUE]]
  BY DEF Rollback
<1>3. head.kind # "bad"
  BY DEF IInv, TypeOK, Fifo!TypeOK, Fifo!Slots, RobEntry, head
<1> HIDE DEF in
<1>4. Fifo!doModify(in) <=> Fifo!doModify(Rollback)
  BY <1>2 DEF Fifo!doModify, Fifo!modifyInWindow, Rollback
<1>5. Fifo!doModify(in) <=> Failed
  BY <1>4, FailureFreezes DEF Fifo!doModify, Rollback
<1>6. Fifo!incrRead(in) <=> commitFired(c)
  BY <1>2, <1>4 DEF Fifo!incrRead, Fifo!deqValid, commitFired, commitReady
<1>7. Fifo!incrWrite(in) <=> allocFired(c)
  BY <1>2, <1>5, <1>6 DEF Fifo!incrWrite, Fifo!enqReady, allocFired
<1>8. Fifo!Running(in) /\ ~in.flushAll /\ ~in.reset
  BY <1>2, <1>3 DEF Fifo!Running
<1>9. rob' = [s \in Slots |->
                IF s \in Done THEN [next(s) EXCEPT !.ready = TRUE]
                ELSE IF allocFired(c) /\ s = writeReg THEN NewEntry ELSE rob[s]]
  BY <1>1, <1>2, <1>7 DEF Fifo!Cycle, Fifo!MemNext, Fifo!Slots, Slots
<1>10. Failed => ~commitFired(c) /\ ~allocFired(c)
  BY FailureFreezes
<1>11. \/ Fifo!Rollback(in) \/ Fifo!EnqDeq(in) \/ Fifo!Enq(in) \/ Fifo!Deq(in) \/ Fifo!Hold(in)
  BY <1>1, <1>8 DEF Fifo!Cycle, Fifo!FlushAll, Fifo!Reset
<1> HIDE DEF next
<1>12. CASE Failed
  BY <1>2, <1>5, <1>6, <1>7, <1>9, <1>10, <1>11, <1>12
  DEF next, Fifo!Rollback, Fifo!EnqDeq, Fifo!Enq, Fifo!Deq, Fifo!Hold
<1>13. CASE ~Failed
  BY <1>5, <1>6, <1>7, <1>9, <1>11, <1>13
  DEF next, Fifo!Rollback, Fifo!EnqDeq, Fifo!Enq, Fifo!Deq, Fifo!Hold
<1>14. QED
  BY <1>12, <1>13

(* The head is live, the tail is not, unless the ROB is full. *)
LEMMA Ends ==
  ASSUME IInv
  PROVE  /\ readReg \in Slots /\ writeReg \in Slots
         /\ \A s \in Slots : Live(s) <=> Age(s) < Fifo!occupancy
         /\ Fifo!occupancy \in Nat /\ Fifo!occupancy <= Depth
         /\ Live(writeReg) <=> fullReg
         /\ fullReg => writeReg = readReg
  BY DEF IInv, TypeOK, Fifo!TypeOK, Fifo!FlagsMatchPointers, Fifo!Slots, Slots, Live, Age,
         Fifo!Dist, Fifo!occupancy

(* A cycle keeps the order of the slots that stay; a new one is the youngest. *)
LEMMA OrderStep ==
  ASSUME IInv, NEW c, RobCycle(c), "bad" \notin Kinds
  PROVE  /\ readReg' \in Slots /\ writeReg' \in Slots /\ fullReg' \in BOOLEAN
         /\ emptyReg' \in BOOLEAN /\ Fifo!FlagsMatchPointers'
         /\ \A s \in Slots : Live(s)' <=> Kept(c, s) \/ (allocFired(c) /\ s = writeReg)
         /\ \A s \in Slots : Kept(c, s) => Age(s)' = IF commitFired(c) THEN Age(s) - 1 ELSE Age(s)
         /\ allocFired(c) => /\ ~Kept(c, writeReg)
                             /\ \A s, t \in Slots : Kept(c, s) /\ t = writeReg => Age(s)' < Age(t)'
<1>1. /\ readReg \in Slots /\ writeReg \in Slots /\ fullReg \in BOOLEAN /\ emptyReg \in BOOLEAN
      /\ Fifo!FlagsMatchPointers
  BY DEF IInv, TypeOK, Fifo!TypeOK, Fifo!Slots, Slots
<1>2. Depth \in Nat /\ Depth >= 2
  OBVIOUS
<1>3. CASE Failed
  <2>1. /\ readReg' = readReg /\ writeReg' = Fifo!Succ(rollbackSlot)
        /\ fullReg' = (Fifo!Succ(rollbackSlot) = readReg) /\ emptyReg' = FALSE
    BY <1>3, FifoStep
  <2> DEFINE at == Fifo!Succ(rollbackSlot)
  <2> HIDE DEF at
  <2>f. fullReg' \in BOOLEAN /\ (fullReg' <=> at = readReg) /\ emptyReg' = FALSE
    BY <2>1, Zenon DEF at
  <2>p. at = IF rollbackSlot = Depth - 1 THEN 0 ELSE rollbackSlot + 1
    BY DEF at, Fifo!Succ
  <2>w. readReg' = readReg /\ writeReg' = at
    BY <2>1 DEF at
  <2>2. rollbackSlot \in Slots /\ Live(rollbackSlot) /\ ~commitFired(c) /\ ~allocFired(c)
    BY <1>3, FailureFreezes
  <2>3. \A s \in Slots : Live(s)' <=> Live(s) /\ Age(s) <= Age(rollbackSlot)
    BY <1>1, <1>2, <2>f, <2>p, <2>w, <2>2
    DEF Live, Age, Fifo!Dist, Fifo!occupancy, Fifo!FlagsMatchPointers, Slots
  <2>4. \A s \in Slots : Age(s)' = Age(s)
    BY <2>1 DEF Age, Fifo!Dist
  <2>5. writeReg' \in Slots /\ Fifo!FlagsMatchPointers'
    BY <1>1, <1>2, <2>f, <2>p, <2>w, <2>2 DEF Slots, Fifo!FlagsMatchPointers
  <2>6. QED
    BY <1>1, <1>3, <2>1, <2>f, <2>2, <2>3, <2>4, <2>5 DEF Kept
<1>4. CASE ~Failed
  <2>1. /\ readReg' = IF commitFired(c) THEN Fifo!Succ(readReg) ELSE readReg
        /\ writeReg' = IF allocFired(c) THEN Fifo!Succ(writeReg) ELSE writeReg
        /\ allocFired(c) /\ ~commitFired(c) =>
             fullReg' = (Fifo!Succ(writeReg) = readReg) /\ emptyReg' = FALSE
        /\ ~allocFired(c) /\ commitFired(c) =>
             fullReg' = FALSE /\ emptyReg' = (Fifo!Succ(readReg) = writeReg)
        /\ (allocFired(c) <=> commitFired(c)) => fullReg' = fullReg /\ emptyReg' = emptyReg
    BY <1>4, FifoStep
  <2>2. allocFired(c) => ~fullReg \/ commitFired(c)
    BY DEF allocFired
  <2>3. commitFired(c) => ~emptyReg
    BY DEF commitFired, commitReady, Fifo!deqValid
  <2>4. \A s \in Slots : Kept(c, s) <=> Live(s) /\ ~(commitFired(c) /\ s = readReg)
    BY <1>4 DEF Kept
  <2> DEFINE f == commitFired(c)
             a == allocFired(c)
             r1 == Fifo!Succ(readReg)
             w1 == Fifo!Succ(writeReg)
  <2>n. /\ r1 = IF readReg = Depth - 1 THEN 0 ELSE readReg + 1
        /\ w1 = IF writeReg = Depth - 1 THEN 0 ELSE writeReg + 1
    BY DEF Fifo!Succ
  <2> HIDE DEF f, a, r1, w1
  <2>5. /\ f \in BOOLEAN /\ a \in BOOLEAN
        /\ readReg' = IF f THEN r1 ELSE readReg
        /\ writeReg' = IF a THEN w1 ELSE writeReg
        /\ a => ~fullReg \/ f
        /\ f => ~emptyReg
    BY <2>1, <2>2, <2>3 DEF f, a, r1, w1, commitFired, allocFired
  <2>b. /\ fullReg' \in BOOLEAN /\ emptyReg' \in BOOLEAN
        /\ a /\ ~f => (fullReg' <=> w1 = readReg) /\ ~emptyReg'
        /\ ~a /\ f => ~fullReg' /\ (emptyReg' <=> r1 = writeReg)
        /\ (a <=> f) => (fullReg' <=> fullReg) /\ (emptyReg' <=> emptyReg)
    <3>1. CASE a /\ ~f
      <4>1. fullReg' = (w1 = readReg) /\ emptyReg' = FALSE
        BY <2>1, <3>1 DEF a, f, w1
      <4>2. QED
        BY <3>1, <4>1, Zenon
    <3>2. CASE ~a /\ f
      <4>1. fullReg' = FALSE /\ emptyReg' = (r1 = writeReg)
        BY <2>1, <3>2 DEF a, f, r1
      <4>2. QED
        BY <3>2, <4>1, Zenon
    <3>3. CASE a <=> f
      <4>1. fullReg' = fullReg /\ emptyReg' = emptyReg
        BY <2>1, <3>3 DEF a, f
      <4>2. QED
        BY <1>1, <3>3, <4>1
    <3>4. QED
      BY <2>5, <3>1, <3>2, <3>3
  <2>6. \A s \in Slots : Kept(c, s) <=> Live(s) /\ ~(f /\ s = readReg)
    BY <2>4 DEF f
  <2>7. /\ readReg' \in Slots /\ writeReg' \in Slots /\ fullReg' \in BOOLEAN
        /\ emptyReg' \in BOOLEAN /\ Fifo!FlagsMatchPointers'
    BY <1>1, <1>2, <2>5, <2>b, <2>n DEF Slots, Fifo!FlagsMatchPointers
  <2>8. \A s \in Slots : Live(s)' <=> Kept(c, s) \/ (a /\ s = writeReg)
    <3>1. CASE a /\ f
      BY <1>1, <1>2, <2>5, <2>b, <2>n, <2>6, <3>1
      DEF Live, Fifo!Dist, Fifo!occupancy, Fifo!FlagsMatchPointers, Slots
    <3>2. CASE a /\ ~f
      BY <1>1, <1>2, <2>5, <2>b, <2>n, <2>6, <3>2
      DEF Live, Fifo!Dist, Fifo!occupancy, Fifo!FlagsMatchPointers, Slots
    <3>3. CASE ~a /\ f
      BY <1>1, <1>2, <2>5, <2>b, <2>n, <2>6, <3>3
      DEF Live, Fifo!Dist, Fifo!occupancy, Fifo!FlagsMatchPointers, Slots
    <3>4. CASE ~a /\ ~f
      BY <1>1, <1>2, <2>5, <2>b, <2>n, <2>6, <3>4
      DEF Live, Fifo!Dist, Fifo!occupancy, Fifo!FlagsMatchPointers, Slots
    <3>5. QED
      BY <2>5, <3>1, <3>2, <3>3, <3>4
  <2>9. \A s \in Slots : Kept(c, s) => Age(s)' = IF f THEN Age(s) - 1 ELSE Age(s)
    BY <1>1, <1>2, <2>5, <2>b, <2>n, <2>6 DEF Age, Live, Fifo!Dist, Slots
  <2>10. a => ~Kept(c, writeReg) /\ \A s, t \in Slots : Kept(c, s) /\ t = writeReg => Age(s)' < Age(t)'
    <3>1. CASE a /\ f
      BY <1>1, <1>2, <2>5, <2>b, <2>n, <2>6, <3>1
      DEF Age, Live, Fifo!Dist, Fifo!occupancy, Fifo!FlagsMatchPointers, Slots
    <3>2. CASE a /\ ~f
      BY <1>1, <1>2, <2>5, <2>b, <2>n, <2>6, <3>2
      DEF Age, Live, Fifo!Dist, Fifo!occupancy, Fifo!FlagsMatchPointers, Slots
    <3>3. QED
      BY <2>5, <3>1, <3>2
  <2>11. QED
    BY <2>7, <2>8, <2>9, <2>10 DEF f, a
<1>5. QED
  BY <1>3, <1>4

-----------------------------------------------------------------------------
(***************************************************************************)
(* What is on its way.                                                     *)
(***************************************************************************)

(* The places by name. *)
LEMMA HeldIs ==
  /\ Held("queue") = Queued /\ Held("released") = released /\ Held("toExec") = toExec
  /\ Held("aluReq") = aluReq /\ Held("units") = units
  /\ Held("branchInstruction") = branchInstruction
  /\ Held("aluResp") = aluResp /\ Held("unitResp") = unitResp
  /\ Held("branchEvals") = branchEvals
  BY DEF Held

LEMMA HeldTyped ==
  ASSUME TypeOK
  PROVE  /\ \A w \in PlaceNames \ {"branchEvals"} : Held(w) \subseteq Instr
         /\ branchEvals \subseteq [gen : Gens, slot : Slots, bit : Bits, passed : BOOLEAN]
         /\ \A w \in PlaceNames : \A x \in Held(w) : x.slot \in Slots /\ x.gen \in Gens
<1>1. Queued \subseteq Instr
  BY DEF TypeOK, Queued
<1>2. \A w \in PlaceNames \ {"branchEvals"} : Held(w) \subseteq Instr
  BY <1>1 DEF TypeOK, PlaceNames, Masked, Held
<1>3. branchEvals \subseteq [gen : Gens, slot : Slots, bit : Bits, passed : BOOLEAN]
  BY DEF TypeOK
<1>4. \A x \in Held("branchEvals") : x.slot \in Slots /\ x.gen \in Gens
  BY <1>3, HeldIs
<1>5. \A w \in PlaceNames \ {"branchEvals"} : \A x \in Held(w) : x.slot \in Slots /\ x.gen \in Gens
  BY <1>2 DEF Instr
<1>6. QED
  BY <1>2, <1>3, <1>4, <1>5

(* Completions are those of the response registers. *)
LEMMA DoneIs ==
  ASSUME NEW s
  PROVE  s \in Done <=> \E w \in {"aluResp", "unitResp", "branchEvals"} :
                           \E x \in Held(w) : x.slot = s
  BY HeldIs DEF Done

(* Only a store is still on its way when it commits, and the data cache     *)
(* holds it.                                                                *)
LEMMA CommitLeaves ==
  ASSUME IInv, NEW c \in Inputs, commitFired(c), "bad" \notin Kinds
  PROVE  /\ ~Failed /\ readReg \in Slots /\ Live(readReg)
         /\ \A w \in PlaceNames : \A x \in Held(w) :
               x.slot = readReg => w = "units" /\ x.kind = "store"
<1>1. ~Failed
  BY FailureFreezes
<1>2. ~emptyReg /\ (head.ready \/ head.kind \in {"store", "bad"})
  BY DEF commitFired, commitReady, Fifo!deqValid
<1>3. readReg \in Slots /\ Live(readReg)
  BY <1>2 DEF IInv, TypeOK, Fifo!TypeOK, Fifo!FlagsMatchPointers, Fifo!Slots, Slots, Live,
              Fifo!Dist, Fifo!occupancy
<1>4. ASSUME NEW w \in PlaceNames, NEW x \in Held(w), x.slot = readReg
      PROVE  w = "units" /\ x.kind = "store"
  <2>1. ~head.ready /\ Fits(w, head.kind)
    BY <1>4 DEF IInv, FlightOwned, head
  <2>2. c.storeOK \in {FALSE, dcacheReady}
    BY DEF Inputs
  <2>3. CASE head.kind = "store"
    <3>1. c.storeOK
      BY <2>3 DEF commitFired, StoreData
    <3>2. PICK z \in units : z.kind = "store" /\ z.slot = readReg
      BY <2>2, <2>3, <3>1 DEF dcacheReady
    <3>3. z \in Held("units") /\ "units" \in PlaceNames
      BY HeldIs DEF PlaceNames, Masked
    <3>4. w = "units" /\ x = z
      BY <1>4, <3>2, <3>3 DEF IInv, Apart
    <3>5. QED
      BY <3>2, <3>4
  <2>4. head.kind # "bad"
    BY DEF IInv, TypeOK, Fifo!TypeOK, Fifo!Slots, RobEntry, head
  <2>5. QED
    BY <1>2, <2>1, <2>3, <2>4
<1>5. QED
  BY <1>1, <1>3, <1>4

(* What completes stays in the ROB or is squashed, but does not commit. *)
LEMMA DoneStays ==
  ASSUME IInv, NEW c \in Inputs, "bad" \notin Kinds, NEW s \in Done
  PROVE  /\ s \in Slots /\ Live(s) /\ ~rob[s].ready /\ ~(commitFired(c) /\ s = readReg)
         /\ ~(allocFired(c) /\ s = writeReg)
<1>1. PICK w \in {"aluResp", "unitResp", "branchEvals"} : \E x \in Held(w) : x.slot = s
  BY DoneIs
<1>2. PICK x \in Held(w) : x.slot = s
  BY <1>1
<1>3. w \in PlaceNames
  BY DEF PlaceNames
<1>4. s \in Slots /\ Live(s) /\ ~rob[s].ready
  BY <1>2, <1>3, HeldTyped DEF IInv, FlightOwned, Owns
<1>5. ~(commitFired(c) /\ s = readReg)
  BY <1>1, <1>2, <1>3, CommitLeaves
<1>6. ASSUME allocFired(c), s = writeReg PROVE FALSE
  <2>1. fullReg /\ writeReg = readReg
    BY <1>4, <1>6, Ends
  <2>2. commitFired(c)
    BY <1>6, <2>1 DEF allocFired
  <2>3. QED
    BY <1>5, <1>6, <2>1, <2>2
<1>7. QED
  BY <1>4, <1>5, <1>6

(* The entries of the ROB after the cycle. *)
LEMMA EntryStep ==
  ASSUME IInv, NEW c \in Inputs, RobCycle(c), "bad" \notin Kinds, NEW s \in Slots
  PROVE  /\ ~(allocFired(c) /\ s = writeReg) =>
               /\ rob'[s].gen = rob[s].gen /\ rob'[s].kind = rob[s].kind
               /\ rob'[s].bit = rob[s].bit
               /\ rob'[s].ready <=> rob[s].ready \/ s \in Done
         /\ allocFired(c) /\ s = writeReg => rob'[s] = NewEntry
<1>1. rob'[s] = IF s \in Done
                THEN [(IF allocFired(c) /\ s = writeReg THEN NewEntry ELSE rob[s])
                        EXCEPT !.ready = TRUE]
                ELSE IF allocFired(c) /\ s = writeReg THEN NewEntry ELSE rob[s]
  BY FifoStep
<1>2. rob[s] \in RobEntry
  BY DEF IInv, TypeOK, Fifo!TypeOK, Fifo!Slots, Slots
<1>3. CASE allocFired(c) /\ s = writeReg
  BY <1>1, <1>3, DoneStays
<1>4. CASE ~(allocFired(c) /\ s = writeReg)
  BY <1>1, <1>2, <1>4 DEF RobEntry
<1>5. QED
  BY <1>3, <1>4

(* The ghost finds a generation that nothing on its way carries. *)
LEMMA FreshGen ==
  ASSUME IInv
  PROVE  freshGen \in Gens
<1> DEFINE T == {x.gen : x \in {y \in InFlight \cup branchEvals : y.slot = writeReg}}
<1>1. \A x \in InFlight \cup branchEvals : \E w \in PlaceNames : x \in Held(w)
  BY HeldIs DEF InFlight, PlaceNames, Masked
<1>2. \A x, y \in InFlight \cup branchEvals : x.slot = writeReg /\ y.slot = writeReg => x = y
  BY <1>1 DEF IInv, Apart
<1>3. \E g \in {0, 1} : g \notin T
  BY <1>2
<1>4. 0 \in Gens /\ 1 \in Gens /\ Gens \subseteq Nat
  BY Sizes DEF Gens
<1> HIDE DEF T
<1>5. Gens \ T # {} /\ Gens \ T \in SUBSET Nat
  BY <1>3, <1>4
<1>6. Min(Gens \ T) \in Gens \ T
  BY <1>5, MinOf
<1>7. QED
  BY <1>6 DEF T, freshGen

-----------------------------------------------------------------------------
(***************************************************************************)
(* The queue closes up: its entries keep their order.                      *)
(***************************************************************************)
AtOrBelow(K, i) == {k \in K : k <= i}

LEMMA NthIs ==
  ASSUME NEW n \in Nat, NEW K \in SUBSET (1 .. n)
  PROVE  /\ IsFiniteSet(K) /\ Cardinality(K) \in Nat /\ Cardinality(K) <= n
         /\ \A j \in 1 .. Cardinality(K) : Nth(K, j) \in K
         /\ \A i, j \in 1 .. Cardinality(K) : i < j => Nth(K, i) < Nth(K, j)
         /\ \A k \in K : \E j \in 1 .. Cardinality(K) : Nth(K, j) = k
<1> DEFINE rank == [i \in K |-> Cardinality(AtOrBelow(K, i))]
           m == Cardinality(K)
<1>1. IsFiniteSet(K) /\ m \in Nat /\ m <= n
  <2>1. IsFiniteSet(1 .. n) /\ Cardinality(1 .. n) = n
    BY FS_Interval
  <2>2. QED
    BY <2>1, FS_Subset, FS_CardinalityType
<1>2. \A i \in K : /\ AtOrBelow(K, i) \subseteq K /\ IsFiniteSet(AtOrBelow(K, i))
                   /\ rank[i] \in 1 .. m /\ i \in AtOrBelow(K, i)
  <2> TAKE i \in K
  <2>1. AtOrBelow(K, i) \subseteq K /\ i \in AtOrBelow(K, i)
    BY DEF AtOrBelow
  <2>2. /\ IsFiniteSet(AtOrBelow(K, i)) /\ Cardinality(AtOrBelow(K, i)) <= m
        /\ Cardinality(AtOrBelow(K, i)) \in Nat
    BY <1>1, <2>1, FS_Subset, FS_CardinalityType
  <2>3. Cardinality(AtOrBelow(K, i)) # 0
    BY <2>1, <2>2, FS_EmptySet
  <2>4. QED
    BY <1>1, <2>1, <2>2, <2>3
<1>3. \A i, k \in K : i < k => rank[i] < rank[k]
  <2> SUFFICES ASSUME NEW i \in K, NEW k \in K, i < k PROVE rank[i] < rank[k]
    OBVIOUS
  <2>0. \A l \in K : l \in Nat
    OBVIOUS
  <2>1. AtOrBelow(K, i) \subseteq AtOrBelow(K, k) /\ k \notin AtOrBelow(K, i)
    <3>1. ~(k <= i) /\ \A l \in K : l <= i => l <= k
      BY <2>0
    <3>2. QED
      BY <3>1, Zenon DEF AtOrBelow
  <2>2. /\ Cardinality(AtOrBelow(K, i)) <= Cardinality(AtOrBelow(K, k))
        /\ Cardinality(AtOrBelow(K, i)) # Cardinality(AtOrBelow(K, k))
    BY <1>2, <2>1, FS_Subset
  <2>3. QED
    BY <1>1, <1>2, <2>2
<1>4. \A i \in K : i \in Nat
  OBVIOUS
<1> HIDE DEF rank, m
<1>5. \A i, k \in K : rank[i] = rank[k] => i = k
  BY <1>1, <1>2, <1>3, <1>4
<1>6. rank \in Injection(K, 1 .. m)
  BY <1>2, <1>5 DEF Injection, IsInjective, rank
<1>7. IsFiniteSet(1 .. m) /\ Cardinality(1 .. m) = m
  BY <1>1, FS_Interval
<1>8. rank \in Surjection(K, 1 .. m)
  BY <1>6, <1>7, FS_Injection DEF m
<1>9. \A j \in 1 .. m : Nth(K, j) \in K /\ rank[Nth(K, j)] = j
  <2> TAKE j \in 1 .. m
  <2>1. \E i \in K : rank[i] = j
    BY <1>8 DEF Surjection
  <2>2. \E i \in K : Cardinality({k \in K : k <= i}) = j
    BY <2>1 DEF rank, AtOrBelow
  <2>3. Nth(K, j) \in K /\ Cardinality({k \in K : k <= Nth(K, j)}) = j
    BY <2>2 DEF Nth
  <2>4. QED
    BY <2>3 DEF rank, AtOrBelow
<1>10. \A i, j \in 1 .. m : i < j => Nth(K, i) < Nth(K, j)
  <2> SUFFICES ASSUME NEW i \in 1 .. m, NEW j \in 1 .. m, i < j PROVE Nth(K, i) < Nth(K, j)
    OBVIOUS
  <2>1. PICK a \in K, b \in K : a = Nth(K, i) /\ b = Nth(K, j) /\ rank[a] = i /\ rank[b] = j
    BY <1>9
  <2>2. a \in Nat /\ b \in Nat /\ a # b /\ (b < a => rank[b] < rank[a]) /\ i \in Int /\ j \in Int
    BY <1>1, <1>3, <1>4, <2>1
  <2>3. QED
    BY <2>1, <2>2
<1>11. \A k \in K : \E j \in 1 .. m : Nth(K, j) = k
  BY <1>2, <1>5, <1>9
<1>12. QED
  BY <1>1, <1>9, <1>10, <1>11 DEF m

Dequeues(c) == released = {} \/ releaseFired(c) # {}
Picked(c) == IF Dequeues(c) /\ c.sel # 0 THEN {c.sel} ELSE {}
Left(c) == {i \in DOMAIN queue \ Picked(c) : ~Killed(queue[i])}
Enters(c) == allocFired(c) /\ outBuf[1].kind # "lui"
NewInstr == [gen |-> freshGen, kind |-> outBuf[1].kind, slot |-> writeReg, mask |-> allocMask]

LEMMA SurvivorTyped ==
  ASSUME NEW x \in Instr
  PROVE  /\ Survivor(x) \in Instr
         /\ Survivor(x).slot = x.slot /\ Survivor(x).gen = x.gen /\ Survivor(x).kind = x.kind
         /\ Survivor(x).mask = x.mask \ Resolved
  BY DEF Survivor, Instr

LEMMA OutBufIs ==
  ASSUME IInv, outBuf # <<>>
  PROVE  /\ DOMAIN outBuf = {1} /\ outBuf[1] \in [kind : Kinds, bit : Bits]
         /\ outBuf = <<outBuf[1]>>
<1>1. PICK o \in [kind : Kinds, bit : Bits] : outBuf = <<o>>
  BY DEF IInv, TypeOK
<1>2. QED
  BY <1>1

LEMMA NewTyped ==
  ASSUME IInv, NEW c, allocFired(c)
  PROVE  NewInstr \in Instr /\ NewEntry \in RobEntry
<1>1. outBuf[1] \in [kind : Kinds, bit : Bits]
  BY OutBufIs DEF allocFired
<1>2. writeReg \in Slots /\ freshGen \in Gens
  BY FreshGen, Ends
<1>3. allocMask \subseteq Bits
  BY DEF IInv, TypeOK, allocMask
<1>4. QED
  BY <1>1, <1>2, <1>3 DEF NewInstr, NewEntry, Instr, RobEntry

LEMMA QueueStep ==
  ASSUME IInv, NEW c \in Inputs, IssueCycle(c)
  PROVE  /\ Left(c) \in SUBSET (1 .. Len(queue)) /\ Cardinality(Left(c)) \in Nat
         /\ queue' \in Seq(Instr) /\ Len(queue') <= IssueDepth
         /\ Len(queue') = Cardinality(Left(c)) + (IF Enters(c) THEN 1 ELSE 0)
         /\ \A j \in 1 .. Cardinality(Left(c)) :
               /\ Nth(Left(c), j) \in DOMAIN queue
               /\ queue'[j] = Survivor(queue[Nth(Left(c), j)])
         /\ Enters(c) => queue'[Cardinality(Left(c)) + 1] = NewInstr
<1> DEFINE m == Cardinality(Left(c))
           kept == [j \in 1 .. m |-> Survivor(queue[Nth(Left(c), j)])]
           new == IF Enters(c) THEN <<NewInstr>> ELSE <<>>
<1>1. queue' = kept \o new
  BY DEF IssueCycle, AgedSeq, Left, Picked, Dequeues, Enters, NewInstr
<1>2. queue \in Seq(Instr) /\ Len(queue) \in Nat /\ DOMAIN queue = 1 .. Len(queue)
  BY DEF IInv, TypeOK
<1>3. Left(c) \in SUBSET (1 .. Len(queue))
  BY <1>2 DEF Left
<1>4. m \in Nat /\ m <= Len(queue) /\ \A j \in 1 .. m : Nth(Left(c), j) \in Left(c)
  BY <1>2, <1>3, NthIs
<1>5. \A j \in 1 .. m : Nth(Left(c), j) \in DOMAIN queue /\ queue[Nth(Left(c), j)] \in Instr
  BY <1>2, <1>3, <1>4
<1> HIDE DEF m
<1>6. kept \in Seq(Instr) /\ Len(kept) = m
  <2>1. kept \in [1 .. m -> Instr]
    BY <1>5, SurvivorTyped
  <2>2. QED
    BY <1>4, <2>1
<1>7. Enters(c) => NewInstr \in Instr
  BY NewTyped DEF Enters
<1>8. new \in Seq(Instr) /\ Len(new) = IF Enters(c) THEN 1 ELSE 0
  BY <1>7
<1>9. \A j \in 1 .. m : kept[j] = Survivor(queue[Nth(Left(c), j)])
  OBVIOUS
<1>10. Enters(c) => new[1] = NewInstr
  OBVIOUS
<1> HIDE DEF kept, new
<1>11. /\ queue' \in Seq(Instr) /\ Len(queue') = m + Len(new)
       /\ \A j \in 1 .. m : queue'[j] = kept[j]
       /\ Enters(c) => queue'[m + 1] = new[1]
  <2>1. kept \o new \in Seq(Instr) /\ Len(kept \o new) = m + Len(new)
    BY <1>6, <1>8, ConcatProperties
  <2>2. \A j \in 1 .. m + Len(new) : (kept \o new)[j] = IF j <= m THEN kept[j] ELSE new[j - m]
    BY <1>4, <1>6, <1>8
  <2>3. QED
    BY <1>1, <1>4, <1>8, <2>1, <2>2
<1>12. Len(queue') <= IssueDepth
  BY <1>2, <1>4, <1>8, <1>11 DEF Enters, allocFired, IInv, TypeOK
<1>13. QED
  BY <1>3, <1>4, <1>5, <1>8, <1>9, <1>10, <1>11, <1>12 DEF m

-----------------------------------------------------------------------------
(***************************************************************************)
(* Where an instruction goes in a cycle, and what it then looks like.      *)
(***************************************************************************)
Dest(c, v, y) ==
  CASE v = "queue" -> IF Dequeues(c) /\ c.sel # 0 /\ y = queue[c.sel] THEN "released" ELSE "queue"
    [] v = "released" -> IF y \in releaseFired(c) THEN "toExec" ELSE "released"
    [] v = "toExec" -> IF y.kind = "alu" THEN "aluReq"
                       ELSE IF y.kind = "br" THEN "branchInstruction" ELSE "units"
    [] v = "aluReq" -> "aluResp"
    [] v = "units" -> IF y \in c.done THEN "unitResp" ELSE "units"
    [] OTHER -> "branchEvals"

Image(c, w, y) ==
  CASE w \in Masked -> Survivor(y)
    [] w = "branchEvals" -> [gen |-> y.gen, slot |-> y.slot, bit |-> Head(branchPCs),
                             passed |-> c.passed]
    [] OTHER -> [Survivor(y) EXCEPT !.mask = {}]

Moves(c, v, y) ==
  /\ v \in Masked /\ y \in Held(v) /\ ~Killed(y)
  /\ ~(v = "units" /\ commitFired(c) /\ y.kind = "store" /\ y.slot = readReg)
  /\ ~(v = "branchInstruction" /\ Failed)

LEMMA QueueDistinct ==
  ASSUME IInv, NEW i \in DOMAIN queue, NEW j \in DOMAIN queue, queue[i].slot = queue[j].slot
  PROVE  i = j
<1>1. queue \in Seq(Instr) /\ i \in Int /\ j \in Int
  BY DEF IInv, TypeOK
<1>2. queue[i] \in Instr /\ queue[i].slot \in Slots
  <2>1. queue[i] \in Instr
    BY <1>1
  <2>2. QED
    BY <2>1 DEF Instr
<1>3. Age(queue[i].slot) \in Nat
  BY <1>2, AgeIs DEF IInv, TypeOK
<1>4. ~(i < j) /\ ~(j < i)
  BY <1>3 DEF IInv, QueueAged
<1>5. QED
  BY <1>1, <1>4

LEMMA ChoicesTyped ==
  ASSUME IInv, NEW c \in Inputs
  PROVE  /\ c.sel = 0 \/ (c.sel \in Selectable /\ c.sel \in DOMAIN queue)
         /\ c.done \subseteq units /\ \A x \in c.done : x.kind # "store"
         /\ AtMostOne(c.done) /\ c.passed \in BOOLEAN
         /\ c.arrival = <<>> \/ \E k \in Kinds : c.arrival = <<k>>
<1>1. c.sel \in {0} \cup Selectable /\ c.arrival \in {<<>>} \cup {<<k>> : k \in Kinds}
  BY DEF Inputs
<1>2. c.done \in {{}} \cup {{x} : x \in {y \in units : y.kind # "store"}}
  BY DEF Inputs
<1>3. c.passed \in IF branchInstruction = {} THEN {TRUE} ELSE BOOLEAN
  BY DEF Inputs
<1>4. c.passed \in BOOLEAN
  BY <1>3
<1>5. c.done \subseteq units /\ (\A x \in c.done : x.kind # "store") /\ AtMostOne(c.done)
  BY <1>2 DEF AtMostOne
<1>6. QED
  BY <1>1, <1>4, <1>5 DEF Selectable

(* Everything after the cycle is new or was somewhere before. *)
LEMMA StepBack ==
  ASSUME IInv, NEW c \in Inputs, Cycle(c), "bad" \notin Kinds,
         NEW w \in PlaceNames, NEW x \in Held(w)'
  PROVE  \/ w = "queue" /\ Enters(c) /\ x = NewInstr
         \/ \E v \in Masked : \E y \in Held(v) :
               Moves(c, v, y) /\ w = Dest(c, v, y) /\ x = Image(c, w, y)
<1>0. /\ Held("queue")' = Queued' /\ Held("released")' = released' /\ Held("toExec")' = toExec'
      /\ Held("aluReq")' = aluReq' /\ Held("units")' = units'
      /\ Held("branchInstruction")' = branchInstruction'
      /\ Held("aluResp")' = aluResp' /\ Held("unitResp")' = unitResp'
      /\ Held("branchEvals")' = branchEvals'
  BY DEF Held
<1>1. IssueCycle(c) /\ ReadCycle(c) /\ ExecCycle(c) /\ BranchCycle(c)
  BY DEF Cycle
<1>2. CASE w = "queue"
  <2>1. PICK i \in DOMAIN queue' : x = queue'[i]
    BY <1>0, <1>2 DEF Queued
  <2> DEFINE L == Left(c)
             m == Cardinality(Left(c))
  <2>2. /\ L \in SUBSET (1 .. Len(queue)) /\ m \in Nat
        /\ queue' \in Seq(Instr) /\ Len(queue') = m + (IF Enters(c) THEN 1 ELSE 0)
        /\ \A j \in 1 .. m : queue'[j] = Survivor(queue[Nth(L, j)])
        /\ Enters(c) => queue'[m + 1] = NewInstr
    BY <1>1, QueueStep
  <2>3. Len(queue) \in Nat /\ DOMAIN queue = 1 .. Len(queue)
    BY DEF IInv, TypeOK
  <2>4. \A j \in 1 .. m : Nth(L, j) \in L
    BY <2>2, <2>3, NthIs
  <2>5. i \in 1 .. m \/ (Enters(c) /\ i = m + 1)
    <3> HIDE DEF m
    <3>1. i \in 1 .. Len(queue')
      BY <2>2
    <3>2. QED
      BY <2>2, <3>1
  <2>6. CASE i \in 1 .. m
    <3>1. PICK k \in L : x = Survivor(queue[k])
      BY <2>1, <2>2, <2>4, <2>6
    <3>2. k \in DOMAIN queue /\ k \notin Picked(c) /\ ~Killed(queue[k])
      BY <3>1 DEF Left
    <3>3. queue[k] \in Held("queue") /\ "queue" \in Masked
      BY <3>2, HeldIs DEF Queued, Masked
    <3>4. ~(Dequeues(c) /\ c.sel # 0 /\ queue[k] = queue[c.sel])
      BY <3>2, QueueDistinct, ChoicesTyped DEF Picked
    <3>5. w = Dest(c, "queue", queue[k])
      BY <1>2, <3>4 DEF Dest
    <3>6. x = Image(c, w, queue[k])
      BY <1>2, <3>1 DEF Image, Masked
    <3>7. QED
      BY <3>2, <3>3, <3>5, <3>6 DEF Moves
  <2>7. QED
    BY <1>2, <2>1, <2>2, <2>5, <2>6
<1>3. CASE w = "released"
  <2>1. x \in Aged(IF Dequeues(c) THEN {queue[i] : i \in Picked(c)} ELSE released)
    BY <1>0, <1>1, <1>3 DEF IssueCycle, Dequeues, Picked
  <2>2. CASE Dequeues(c)
    <3>1. PICK i \in Picked(c) : x = Survivor(queue[i]) /\ ~Killed(queue[i])
      BY <2>1, <2>2 DEF Aged
    <3>2. i = c.sel /\ c.sel # 0 /\ i \in DOMAIN queue
      BY <3>1, ChoicesTyped DEF Picked
    <3>3. queue[i] \in Held("queue") /\ "queue" \in Masked
      BY <3>2, HeldIs DEF Queued, Masked
    <3>4. w = Dest(c, "queue", queue[i]) /\ x = Image(c, w, queue[i])
      BY <1>3, <2>2, <3>1, <3>2 DEF Dest, Image, Masked
    <3>5. QED
      BY <3>1, <3>3, <3>4 DEF Moves
  <2>3. CASE ~Dequeues(c)
    <3>1. PICK y \in released : x = Survivor(y) /\ ~Killed(y)
      BY <2>1, <2>3 DEF Aged
    <3>2. w = Dest(c, "released", y) /\ x = Image(c, w, y)
      BY <1>3, <2>3, <3>1 DEF Dest, Image, Masked, Dequeues
    <3>3. y \in Held("released") /\ "released" \in Masked
      BY HeldIs DEF Masked
    <3>4. QED
      BY <3>1, <3>2, <3>3 DEF Moves
  <2>4. QED
    BY <2>2, <2>3
<1>4. CASE w = "toExec"
  <2>1. PICK y \in releaseFired(c) : x = Survivor(y) /\ ~Killed(y)
    BY <1>0, <1>1, <1>4 DEF ReadCycle, Aged
  <2>2. y \in Held("released") /\ "released" \in Masked
    BY HeldIs DEF Masked, releaseFired
  <2>3. w = Dest(c, "released", y) /\ x = Image(c, w, y)
    BY <1>4, <2>1 DEF Dest, Image, Masked
  <2>4. QED
    BY <2>1, <2>2, <2>3 DEF Moves
<1>5. CASE w \in {"aluReq", "branchInstruction"}
  <2>1. PICK y \in toExec : /\ x = Survivor(y) /\ ~Killed(y)
                            /\ y.kind = IF w = "aluReq" THEN "alu" ELSE "br"
    BY <1>0, <1>1, <1>5 DEF ExecCycle, BranchCycle, Aged
  <2>2. y \in Held("toExec") /\ "toExec" \in Masked
    BY HeldIs DEF Masked
  <2>3. w = Dest(c, "toExec", y) /\ x = Image(c, w, y)
    BY <1>5, <2>1 DEF Dest, Image, Masked
  <2>4. QED
    BY <2>1, <2>2, <2>3 DEF Moves
<1>6. CASE w = "units"
  <2>1. PICK y : /\ x = Survivor(y) /\ ~Killed(y)
                 /\ \/ /\ y \in units /\ y \notin c.done
                       /\ ~(commitFired(c) /\ y.kind = "store" /\ y.slot = readReg)
                    \/ y \in toExec /\ Long(y.kind)
    BY <1>0, <1>1, <1>6 DEF ExecCycle, Aged
  <2>2. CASE y \in units /\ y \notin c.done
              /\ ~(commitFired(c) /\ y.kind = "store" /\ y.slot = readReg)
    <3>1. y \in Held("units") /\ "units" \in Masked
      BY <2>2, HeldIs DEF Masked
    <3>2. w = Dest(c, "units", y) /\ x = Image(c, w, y)
      BY <1>6, <2>1, <2>2 DEF Dest, Image, Masked
    <3>3. QED
      BY <2>1, <2>2, <3>1, <3>2 DEF Moves
  <2>3. CASE y \in toExec /\ Long(y.kind)
    <3>1. y \in Held("toExec") /\ "toExec" \in Masked
      BY <2>3, HeldIs DEF Masked
    <3>2. w = Dest(c, "toExec", y) /\ x = Image(c, w, y)
      BY <1>6, <2>1, <2>3 DEF Dest, Image, Masked, Long
    <3>3. QED
      BY <2>1, <3>1, <3>2 DEF Moves
  <2>4. QED
    BY <2>1, <2>2, <2>3
<1>7. CASE w = "aluResp"
  <2>1. PICK y \in aluReq : x = [Survivor(y) EXCEPT !.mask = {}] /\ ~Killed(y)
    BY <1>0, <1>1, <1>7 DEF ExecCycle, Response, Aged
  <2>2. y \in Held("aluReq") /\ "aluReq" \in Masked
    BY HeldIs DEF Masked
  <2>3. w = Dest(c, "aluReq", y) /\ x = Image(c, w, y)
    BY <1>7, <2>1 DEF Dest, Image, Masked
  <2>4. QED
    BY <2>1, <2>2, <2>3 DEF Moves
<1>8. CASE w = "unitResp"
  <2>1. PICK y \in c.done : x = [Survivor(y) EXCEPT !.mask = {}] /\ ~Killed(y)
    BY <1>0, <1>1, <1>8 DEF ExecCycle, Response, Aged
  <2>2. y \in Held("units") /\ "units" \in Masked /\ y.kind # "store"
    BY HeldIs, ChoicesTyped DEF Masked
  <2>3. w = Dest(c, "units", y) /\ x = Image(c, w, y)
    BY <1>8, <2>1 DEF Dest, Image, Masked
  <2>4. QED
    BY <2>1, <2>2, <2>3 DEF Moves
<1>9. CASE w = "branchEvals"
  <2>1. ~Failed
    BY <1>0, <1>1, <1>9 DEF BranchCycle
  <2>2. PICK y \in branchInstruction :
          x = [gen |-> y.gen, slot |-> y.slot, bit |-> Head(branchPCs), passed |-> c.passed]
    BY <1>0, <1>1, <1>9, <2>1 DEF BranchCycle
  <2>3. y \in Held("branchInstruction") /\ "branchInstruction" \in Masked
    BY HeldIs DEF Masked
  <2>4. w = Dest(c, "branchInstruction", y) /\ x = Image(c, w, y)
    BY <1>9, <2>2 DEF Dest, Image, Masked
  <2>5. QED
    BY <2>1, <2>3, <2>4 DEF Moves, Killed
<1>10. QED
  BY <1>2, <1>3, <1>4, <1>5, <1>6, <1>7, <1>8, <1>9 DEF PlaceNames, Masked

(* Whatever moves is there after the cycle. *)
LEMMA StepOn ==
  ASSUME IInv, NEW c \in Inputs, Cycle(c), "bad" \notin Kinds,
         NEW v \in Masked, NEW y \in Held(v), Moves(c, v, y), NEW w, w = Dest(c, v, y)
  PROVE  w \in PlaceNames /\ Image(c, w, y) \in Held(w)'
<1>0. /\ Held("queue")' = Queued' /\ Held("released")' = released' /\ Held("toExec")' = toExec'
      /\ Held("aluReq")' = aluReq' /\ Held("units")' = units'
      /\ Held("branchInstruction")' = branchInstruction'
      /\ Held("aluResp")' = aluResp' /\ Held("unitResp")' = unitResp'
      /\ Held("branchEvals")' = branchEvals'
  BY DEF Held
<1>1. IssueCycle(c) /\ ReadCycle(c) /\ ExecCycle(c) /\ BranchCycle(c)
  BY DEF Cycle
<1>2. ~Killed(y)
  BY DEF Moves
<1>3. CASE v = "queue"
  <2>1. PICK i \in DOMAIN queue : y = queue[i]
    BY <1>3, HeldIs DEF Queued
  <2>2. CASE Dequeues(c) /\ c.sel # 0 /\ y = queue[c.sel]
    <3>1. w = "released" /\ Image(c, w, y) = Survivor(y) /\ w \in PlaceNames
      BY <1>3, <2>2 DEF Dest, Image, Masked, PlaceNames
    <3>2. released' = Aged({queue[k] : k \in {c.sel}})
      BY <1>1, <2>2 DEF IssueCycle, Dequeues
    <3>3. Survivor(y) \in released'
      BY <1>2, <2>2, <3>2 DEF Aged
    <3>4. QED
      BY <1>0, <3>1, <3>3
  <2>3. CASE ~(Dequeues(c) /\ c.sel # 0 /\ y = queue[c.sel])
    <3>1. w = "queue" /\ Image(c, w, y) = Survivor(y) /\ w \in PlaceNames
      BY <1>3, <2>3 DEF Dest, Image, Masked, PlaceNames
    <3>2. i \in Left(c)
      BY <1>2, <2>1, <2>3 DEF Left, Picked
    <3> DEFINE m == Cardinality(Left(c))
    <3>3. /\ Left(c) \in SUBSET (1 .. Len(queue)) /\ m \in Nat
          /\ queue' \in Seq(Instr) /\ Len(queue') = m + (IF Enters(c) THEN 1 ELSE 0)
          /\ \A j \in 1 .. m : queue'[j] = Survivor(queue[Nth(Left(c), j)])
      BY <1>1, QueueStep
    <3>4. Len(queue) \in Nat
      BY DEF IInv, TypeOK
    <3>5. PICK j \in 1 .. m : Nth(Left(c), j) = i
      BY <3>2, <3>3, <3>4, NthIs
    <3>6. queue'[j] = Survivor(y)
      BY <2>1, <3>3, <3>5
    <3>7. j \in DOMAIN queue'
      <4> HIDE DEF m
      <4>1. j \in 1 .. Len(queue')
        BY <3>3, <3>5
      <4>2. QED
        BY <3>3, <4>1
    <3>8. Survivor(y) \in Queued'
      BY <3>6, <3>7 DEF Queued
    <3>9. QED
      BY <1>0, <3>1, <3>8
  <2>4. QED
    BY <2>2, <2>3
<1>4. CASE v = "released"
  <2>0. y \in released
    BY <1>4, HeldIs
  <2>1. CASE y \in releaseFired(c)
    <3>1. w = "toExec" /\ Image(c, w, y) = Survivor(y) /\ w \in PlaceNames
      BY <1>4, <2>1 DEF Dest, Image, Masked, PlaceNames
    <3>2. y.kind # "bad"
      BY <2>0 DEF IInv, TypeOK, Instr
    <3>3. Survivor(y) \in toExec'
      BY <1>1, <1>2, <2>1, <3>2 DEF ReadCycle, Aged
    <3>4. QED
      BY <1>0, <3>1, <3>3
  <2>2. CASE y \notin releaseFired(c)
    <3>1. w = "released" /\ Image(c, w, y) = Survivor(y) /\ w \in PlaceNames
      BY <1>4, <2>2 DEF Dest, Image, Masked, PlaceNames
    <3>2. ~Dequeues(c)
      <4>1. released = {y}
        BY <2>0 DEF IInv, OnePerRegister, AtMostOne
      <4>2. QED
        BY <2>2, <4>1 DEF Dequeues, releaseFired
    <3>3. Survivor(y) \in released'
      BY <1>1, <1>2, <2>0, <3>2 DEF IssueCycle, Dequeues, Aged
    <3>4. QED
      BY <1>0, <3>1, <3>3
  <2>3. QED
    BY <2>1, <2>2
<1>5. CASE v = "toExec"
  <2>0. y \in toExec
    BY <1>5, HeldIs
  <2>1. y.kind \in {"alu", "br"} \/ Long(y.kind)
    <3>1. y.kind \in Kinds /\ y.kind # "bad"
      BY <2>0 DEF IInv, TypeOK, Instr
    <3>2. y \in Held("toExec") /\ "toExec" \in PlaceNames
      BY <2>0, HeldIs DEF PlaceNames, Masked
    <3>3. y.kind # "lui"
      BY <3>2 DEF IInv, FlightOwned, Fits
    <3>4. QED
      BY <3>1, <3>3 DEF Long
  <2>2. CASE y.kind = "alu"
    <3>1. w = "aluReq" /\ Image(c, w, y) = Survivor(y) /\ w \in PlaceNames
      BY <1>5, <2>2 DEF Dest, Image, Masked, PlaceNames
    <3>2. Survivor(y) \in aluReq'
      BY <1>1, <1>2, <2>0, <2>2 DEF ExecCycle, Aged
    <3>3. QED
      BY <1>0, <3>1, <3>2
  <2>3. CASE y.kind = "br"
    <3>1. w = "branchInstruction" /\ Image(c, w, y) = Survivor(y) /\ w \in PlaceNames
      BY <1>5, <2>3 DEF Dest, Image, Masked, PlaceNames
    <3>2. Survivor(y) \in branchInstruction'
      BY <1>1, <1>2, <2>0, <2>3 DEF BranchCycle, Aged
    <3>3. QED
      BY <1>0, <3>1, <3>2
  <2>4. CASE Long(y.kind)
    <3>1. w = "units" /\ Image(c, w, y) = Survivor(y) /\ w \in PlaceNames
      BY <1>5, <2>4 DEF Dest, Image, Masked, PlaceNames, Long
    <3>2. Survivor(y) \in units'
      BY <1>1, <1>2, <2>0, <2>4 DEF ExecCycle, Aged
    <3>3. QED
      BY <1>0, <3>1, <3>2
  <2>5. QED
    BY <2>1, <2>2, <2>3, <2>4
<1>6. CASE v = "aluReq"
  <2>1. y \in aluReq
    BY <1>6, HeldIs
  <2>2. w = "aluResp" /\ Image(c, w, y) = [Survivor(y) EXCEPT !.mask = {}] /\ w \in PlaceNames
    BY <1>6 DEF Dest, Image, Masked, PlaceNames
  <2>3. [Survivor(y) EXCEPT !.mask = {}] \in aluResp'
    BY <1>1, <1>2, <2>1 DEF ExecCycle, Response, Aged
  <2>4. QED
    BY <1>0, <2>2, <2>3
<1>7. CASE v = "units"
  <2>0. y \in units /\ ~(commitFired(c) /\ y.kind = "store" /\ y.slot = readReg)
    BY <1>7, HeldIs DEF Moves
  <2>1. CASE y \in c.done
    <3>1. w = "unitResp" /\ Image(c, w, y) = [Survivor(y) EXCEPT !.mask = {}] /\ w \in PlaceNames
      BY <1>7, <2>1 DEF Dest, Image, Masked, PlaceNames
    <3>2. [Survivor(y) EXCEPT !.mask = {}] \in unitResp'
      BY <1>1, <1>2, <2>1 DEF ExecCycle, Response, Aged
    <3>3. QED
      BY <1>0, <3>1, <3>2
  <2>2. CASE y \notin c.done
    <3>1. w = "units" /\ Image(c, w, y) = Survivor(y) /\ w \in PlaceNames
      BY <1>7, <2>2 DEF Dest, Image, Masked, PlaceNames
    <3>2. Survivor(y) \in units'
      BY <1>1, <1>2, <2>0, <2>2 DEF ExecCycle, Aged
    <3>3. QED
      BY <1>0, <3>1, <3>2
  <2>3. QED
    BY <2>1, <2>2
<1>8. CASE v = "branchInstruction"
  <2>1. y \in branchInstruction /\ ~Failed
    BY <1>8, HeldIs DEF Moves
  <2>2. /\ w = "branchEvals" /\ w \in PlaceNames
        /\ Image(c, w, y) = [gen |-> y.gen, slot |-> y.slot, bit |-> Head(branchPCs),
                             passed |-> c.passed]
    BY <1>8 DEF Dest, Image, Masked, PlaceNames
  <2>3. [gen |-> y.gen, slot |-> y.slot, bit |-> Head(branchPCs), passed |-> c.passed]
          \in branchEvals'
    BY <1>1, <2>1 DEF BranchCycle
  <2>4. QED
    BY <1>0, <2>2, <2>3
<1>9. QED
  BY <1>3, <1>4, <1>5, <1>6, <1>7, <1>8 DEF Masked

LEMMA ImageIs ==
  ASSUME IInv, NEW c, NEW v \in Masked, NEW y \in Held(v), NEW w \in PlaceNames
  PROVE  /\ Image(c, w, y).slot = y.slot /\ Image(c, w, y).gen = y.gen
         /\ w # "branchEvals" => Image(c, w, y).kind = y.kind /\ Image(c, w, y) \in Instr
         /\ w \in Masked => Image(c, w, y).mask = y.mask \ Resolved
<1>1. y \in Instr
  BY HeldTyped DEF IInv, PlaceNames, Masked
<1>2. /\ Survivor(y) \in Instr
      /\ Survivor(y).slot = y.slot /\ Survivor(y).gen = y.gen /\ Survivor(y).kind = y.kind
      /\ Survivor(y).mask = y.mask \ Resolved
  BY <1>1, SurvivorTyped
<1>3. CASE w \in Masked
  BY <1>2, <1>3 DEF Image, Masked
<1>4. CASE w = "branchEvals"
  BY <1>4 DEF Image, Masked
<1>5. CASE w \in {"aluResp", "unitResp"}
  <2>1. Image(c, w, y) = [Survivor(y) EXCEPT !.mask = {}]
    BY <1>5 DEF Image, Masked
  <2>2. QED
    BY <1>2, <1>5, <2>1 DEF Instr, Masked
<1>6. QED
  BY <1>3, <1>4, <1>5 DEF PlaceNames

LEMMA MaskIs ==
  ASSUME IInv, NEW v \in Masked, NEW y \in Held(v)
  PROVE  y.mask = {rob[s].bit : s \in {t \in Slots : Unresolved(t) /\ Age(t) <= Age(y.slot)}}
<1>1. y \in Queued \cup released \cup toExec \cup aluReq \cup units \cup branchInstruction
  BY HeldIs DEF Masked
<1>2. QED
  BY <1>1 DEF IInv, MasksExact

(* A misprediction kills what is younger than the branch. *)
LEMMA KilledIs ==
  ASSUME IInv, Failed, NEW v \in Masked, NEW y \in Held(v)
  PROVE  Killed(y) <=> Age(rollbackSlot) <= Age(y.slot)
<1>1. PICK b \in branchEvals : ~b.passed
  BY DEF Failed
<1>2. /\ rollbackSlot = b.slot /\ Resolved = {rob[rollbackSlot].bit}
      /\ rollbackSlot \in Slots /\ Unresolved(rollbackSlot)
  BY <1>1, OneResolution DEF Unresolved
<1>3. y.mask = {rob[s].bit : s \in {t \in Slots : Unresolved(t) /\ Age(t) <= Age(y.slot)}}
  BY MaskIs
<1>4. ASSUME Age(rollbackSlot) <= Age(y.slot) PROVE Killed(y)
  <2>1. rob[rollbackSlot].bit \in y.mask
    BY <1>2, <1>3, <1>4
  <2>2. QED
    BY <1>2, <2>1 DEF Killed
<1>5. ASSUME Killed(y) PROVE Age(rollbackSlot) <= Age(y.slot)
  <2>1. rob[rollbackSlot].bit \in y.mask
    BY <1>2, <1>5 DEF Killed
  <2>2. PICK t \in Slots : Unresolved(t) /\ Age(t) <= Age(y.slot) /\ rob[t].bit = rob[rollbackSlot].bit
    BY <1>3, <2>1
  <2>3. t = rollbackSlot
    BY <1>2, <2>2 DEF IInv, BitsApart, Open
  <2>4. QED
    BY <2>2, <2>3
<1>6. QED
  BY <1>4, <1>5

(* What moves keeps its slot and is not complete. *)
LEMMA MovesKept ==
  ASSUME IInv, NEW c \in Inputs, "bad" \notin Kinds,
         NEW v \in Masked, NEW y \in Held(v), Moves(c, v, y)
  PROVE  /\ y.slot \in Slots /\ Kept(c, y.slot) /\ y.slot \notin Done
         /\ rob[y.slot].gen = y.gen /\ ~rob[y.slot].ready /\ rob[y.slot].kind = y.kind
         /\ Fits(v, y.kind) /\ v \in PlaceNames
<1>1. v \in PlaceNames /\ v \notin {"aluResp", "unitResp", "branchEvals"}
  BY DEF PlaceNames, Masked
<1>2. /\ y.slot \in Slots /\ Live(y.slot) /\ ~rob[y.slot].ready
      /\ rob[y.slot].gen = y.gen /\ rob[y.slot].kind = y.kind /\ Fits(v, y.kind)
  BY <1>1, HeldTyped DEF IInv, FlightOwned, Owns
<1>3. y.slot \notin Done
  <2>1. SUFFICES ASSUME NEW w \in {"aluResp", "unitResp", "branchEvals"}, NEW x \in Held(w),
                        x.slot = y.slot
                 PROVE  FALSE
    BY DoneIs
  <2>2. w \in PlaceNames
    BY DEF PlaceNames
  <2>3. v = w
    BY <1>1, <2>1, <2>2 DEF IInv, Apart
  <2>4. QED
    BY <1>1, <2>3
<1>4. CASE Failed
  <2>1. ~(Age(rollbackSlot) <= Age(y.slot))
    BY <1>4, KilledIs DEF Moves
  <2>2. rollbackSlot \in Slots
    BY <1>4, FailureFreezes
  <2>3. Age(rollbackSlot) \in Nat /\ Age(y.slot) \in Nat
    BY <1>2, <2>2, AgeIs DEF IInv, TypeOK
  <2>4. Age(y.slot) <= Age(rollbackSlot)
    BY <2>1, <2>3
  <2>5. QED
    BY <1>1, <1>2, <1>3, <1>4, <2>4 DEF Kept
<1>5. CASE ~Failed
  <2>1. ~(commitFired(c) /\ y.slot = readReg)
    BY <1>1, CommitLeaves DEF Moves
  <2>2. QED
    BY <1>1, <1>2, <1>3, <1>5, <2>1 DEF Kept
<1>6. QED
  BY <1>4, <1>5

-----------------------------------------------------------------------------
(***************************************************************************)
(* A cycle keeps the invariant.                                            *)
(***************************************************************************)
IsNew(c, w, x) == w = "queue" /\ Enters(c) /\ x = NewInstr
CameFrom(c, w, x, v, y) ==
  Moves(c, v, y) /\ w = Dest(c, v, y) /\ x = Image(c, w, y) /\ x.slot = y.slot

LEMMA NewOrMoved ==
  ASSUME IInv, NEW c \in Inputs, Cycle(c), "bad" \notin Kinds,
         NEW w \in PlaceNames, NEW x \in Held(w)'
  PROVE  \/ /\ IsNew(c, w, x) /\ x.slot = writeReg /\ allocFired(c) /\ x.slot \in Slots
            /\ x.gen = freshGen /\ x.kind = outBuf[1].kind /\ x.mask = allocMask
            /\ x.kind # "lui"
         \/ \E v \in Masked : \E y \in Held(v) :
              /\ CameFrom(c, w, x, v, y) /\ x.slot \in Slots /\ Kept(c, x.slot)
              /\ ~(allocFired(c) /\ x.slot = writeReg) /\ x.slot \notin Done
<1>1. CASE IsNew(c, w, x)
  BY <1>1, Ends DEF IsNew, NewInstr, Enters
<1>2. CASE \E v \in Masked : \E y \in Held(v) :
              Moves(c, v, y) /\ w = Dest(c, v, y) /\ x = Image(c, w, y)
  <2>1a. PICK v \in Masked : \E y \in Held(v) : Moves(c, v, y) /\ w = Dest(c, v, y) /\ x = Image(c, w, y)
    BY <1>2
  <2>1. PICK y \in Held(v) : Moves(c, v, y) /\ w = Dest(c, v, y) /\ x = Image(c, w, y)
    BY <2>1a
  <2>2. x.slot = y.slot
    BY <2>1, ImageIs
  <2>3. x.slot \in Slots /\ Kept(c, x.slot) /\ x.slot \notin Done
    BY <2>1, <2>2, MovesKept
  <2>4. ~(allocFired(c) /\ x.slot = writeReg)
    BY <2>3, OrderStep DEF Cycle
  <2>5. QED
    BY <2>1, <2>2, <2>3, <2>4 DEF CameFrom
<1>3. QED
  BY <1>1, <1>2, StepBack DEF IsNew

LEMMA DestFits ==
  ASSUME IInv, NEW c \in Inputs, NEW v \in Masked, NEW y \in Held(v), Fits(v, y.kind),
         y.kind \in Kinds, "bad" \notin Kinds, NEW w, w = Dest(c, v, y)
  PROVE  Fits(w, y.kind)
<1>1. y.kind \in {"alu", "br", "load", "amo", "mext", "store", "lui"}
  OBVIOUS
<1>2. CASE v \in {"queue", "released"}
  BY <1>2 DEF Fits, Dest
<1>3. CASE v = "toExec"
  BY <1>1, <1>3 DEF Fits, Dest, Long
<1>4. CASE v = "aluReq"
  BY <1>4 DEF Fits, Dest
<1>5. CASE v = "units"
  BY <1>5 DEF Fits, Dest
<1>6. CASE v = "branchInstruction"
  BY <1>6 DEF Fits, Dest
<1>7. QED
  BY <1>2, <1>3, <1>4, <1>5, <1>6 DEF Masked

LEMMA FlightStep ==
  ASSUME IInv, NEW c \in Inputs, Cycle(c), "bad" \notin Kinds
  PROVE  FlightOwned'
<1> SUFFICES ASSUME NEW w \in PlaceNames, NEW x \in Held(w)'
             PROVE  /\ Live(x.slot)' /\ rob'[x.slot].gen = x.gen /\ ~rob'[x.slot].ready
                    /\ Fits(w, rob'[x.slot].kind)
                    /\ w # "branchEvals" => x.kind = rob'[x.slot].kind
  BY DEF FlightOwned, Owns
<1>0. RobCycle(c)
  BY DEF Cycle
<1>1. CASE IsNew(c, w, x) /\ x.slot = writeReg /\ allocFired(c) /\ x.slot \in Slots
            /\ x.gen = freshGen /\ x.kind = outBuf[1].kind /\ x.kind # "lui"
  <2>1. Live(x.slot)'
    BY <1>0, <1>1, OrderStep
  <2>2. rob'[x.slot] = NewEntry
    BY <1>0, <1>1, EntryStep
  <2>3. NewEntry.gen = x.gen /\ NewEntry.kind = x.kind /\ NewEntry.ready = (x.kind = "lui")
    BY <1>1 DEF NewEntry
  <2>4. ~NewEntry.ready
    BY <1>1, <2>3
  <2>5. Fits(w, x.kind)
    BY <1>1 DEF Fits, IsNew
  <2>6. QED
    BY <2>1, <2>2, <2>3, <2>4, <2>5
<1>2. CASE \E v \in Masked : \E y \in Held(v) :
              /\ CameFrom(c, w, x, v, y) /\ x.slot \in Slots /\ Kept(c, x.slot)
              /\ ~(allocFired(c) /\ x.slot = writeReg) /\ x.slot \notin Done
  <2>1a. PICK v \in Masked : \E y \in Held(v) :
              /\ CameFrom(c, w, x, v, y) /\ x.slot \in Slots /\ Kept(c, x.slot)
              /\ ~(allocFired(c) /\ x.slot = writeReg) /\ x.slot \notin Done
    BY <1>2
  <2>1. PICK y \in Held(v) :
              /\ CameFrom(c, w, x, v, y) /\ x.slot \in Slots /\ Kept(c, x.slot)
              /\ ~(allocFired(c) /\ x.slot = writeReg) /\ x.slot \notin Done
    BY <2>1a
  <2>2. Live(x.slot)'
    BY <1>0, <2>1, OrderStep
  <2>3. /\ rob'[x.slot].gen = rob[x.slot].gen /\ rob'[x.slot].kind = rob[x.slot].kind
        /\ rob'[x.slot].ready <=> rob[x.slot].ready
    BY <1>0, <2>1, EntryStep
  <2>4. /\ rob[y.slot].gen = y.gen /\ ~rob[y.slot].ready /\ rob[y.slot].kind = y.kind
        /\ Fits(v, y.kind)
    BY <2>1, MovesKept DEF CameFrom
  <2>5. /\ x.gen = y.gen /\ x.slot = y.slot
        /\ w # "branchEvals" => x.kind = y.kind
    BY <2>1, ImageIs DEF CameFrom
  <2>6. y.kind \in Kinds
    BY HeldTyped DEF IInv, Instr, PlaceNames, Masked
  <2>7. Fits(w, y.kind)
    BY <2>1, <2>4, <2>6, DestFits DEF CameFrom
  <2>8. QED
    BY <2>2, <2>3, <2>4, <2>5, <2>7
<1>3. QED
  BY <1>1, <1>2, NewOrMoved

LEMMA ApartStep ==
  ASSUME IInv, NEW c \in Inputs, Cycle(c), "bad" \notin Kinds
  PROVE  Apart'
<1> SUFFICES ASSUME NEW v \in PlaceNames, NEW w \in PlaceNames,
                    NEW x \in Held(v)', NEW y \in Held(w)', x.slot = y.slot
             PROVE  v = w /\ x = y
  BY DEF Apart
<1>1. CASE IsNew(c, v, x) /\ x.slot = writeReg /\ allocFired(c)
  <2>1. IsNew(c, w, y)
    BY <1>1, NewOrMoved
  <2>2. QED
    BY <1>1, <2>1 DEF IsNew
<1>2. CASE IsNew(c, w, y) /\ y.slot = writeReg /\ allocFired(c)
  <2>1. IsNew(c, v, x)
    BY <1>2, NewOrMoved
  <2>2. QED
    BY <1>2, <2>1 DEF IsNew
<1>3. CASE /\ \E v0 \in Masked : \E x0 \in Held(v0) : CameFrom(c, v, x, v0, x0)
           /\ \E w0 \in Masked : \E y0 \in Held(w0) : CameFrom(c, w, y, w0, y0)
  <2>1a. PICK v0 \in Masked : \E x0 \in Held(v0) : CameFrom(c, v, x, v0, x0)
    BY <1>3
  <2>1. PICK x0 \in Held(v0) : CameFrom(c, v, x, v0, x0)
    BY <2>1a
  <2>2a. PICK w0 \in Masked : \E y0 \in Held(w0) : CameFrom(c, w, y, w0, y0)
    BY <1>3
  <2>2. PICK y0 \in Held(w0) : CameFrom(c, w, y, w0, y0)
    BY <2>2a
  <2>3. x0.slot = y0.slot /\ v0 \in PlaceNames /\ w0 \in PlaceNames
    BY <2>1, <2>2 DEF CameFrom, PlaceNames
  <2>4. v0 = w0 /\ x0 = y0
    BY <2>3 DEF IInv, Apart
  <2>5. QED
    BY <2>1, <2>2, <2>4 DEF CameFrom
<1>4. QED
  BY <1>1, <1>2, <1>3, NewOrMoved

(* The branch that resolves is the oldest unresolved one, and the one that   *)
(* executes the oldest of the others.                                       *)
LEMMA OldestBranch ==
  ASSUME IInv, NEW v \in {"branchInstruction", "branchEvals"}, NEW b \in Held(v),
         NEW t \in Slots, Unresolved(t),
         v = "branchInstruction" => t \in Unevaluated
  PROVE  b.slot \in Slots /\ Unresolved(b.slot) /\ Age(b.slot) <= Age(t)
<1>1. PICK w \in PlaceNames : \E x \in Held(w) : x.slot = t
  BY DEF IInv, UnderWay, Unresolved
<1>2. PICK x \in Held(w) : x.slot = t
  BY <1>1
<1>3. v \in PlaceNames
  BY DEF PlaceNames, Masked
<1>4. b.slot \in Slots /\ Unresolved(b.slot) /\ rob[b.slot].kind = "br"
  BY <1>3, HeldTyped DEF IInv, FlightOwned, Owns, Fits, Unresolved
<1>5. rob[x.slot].kind = "br" /\ Fits(w, "br")
  BY <1>2 DEF IInv, FlightOwned, Unresolved
<1>6. w \in {"queue", "released", "toExec", "branchInstruction", "branchEvals"}
  BY <1>5 DEF Fits, Long, PlaceNames, Masked
<1>7. CASE w = v
  <2>1. x = b
    BY <1>2, <1>7, HeldIs DEF IInv, OnePerRegister, AtMostOne
  <2>2. Age(t) \in Nat
    BY AgeIs DEF IInv, TypeOK
  <2>3. QED
    BY <1>2, <1>4, <2>1, <2>2
<1>8. CASE w # v
  <2>1. ~(v = "branchInstruction" /\ w = "branchEvals")
    BY <1>2, HeldIs DEF Unevaluated
  <2>2. Rank(w) < Rank(v)
    BY <1>6, <1>8, <2>1 DEF Rank
  <2>3. Age(b.slot) < Age(t)
    BY <1>2, <1>3, <1>4, <1>5, <2>2 DEF IInv, BranchesInOrder
  <2>4. Age(b.slot) \in Nat /\ Age(t) \in Nat
    BY <1>4, AgeIs DEF IInv, TypeOK
  <2>5. QED
    BY <1>4, <2>3, <2>4
<1>9. QED
  BY <1>7, <1>8

EvalSlots == {b.slot : b \in branchEvals}

(* The unresolved branches after the cycle. *)
LEMMA OpenStep ==
  ASSUME IInv, NEW c \in Inputs, RobCycle(c), "bad" \notin Kinds, NEW t \in Slots
  PROVE  /\ Failed => ~Unresolved(t)'
         /\ ~Failed => (Unresolved(t)' <=> \/ Unresolved(t) /\ t \notin EvalSlots
                                           \/ allocFired(c) /\ t = writeReg /\ outBuf[1].kind = "br")
         /\ Unresolved(t)' /\ ~(allocFired(c) /\ t = writeReg) =>
               Unresolved(t) /\ Kept(c, t) /\ rob'[t].bit = rob[t].bit
         /\ Unresolved(t) /\ ~Failed => Kept(c, t) /\ ~(allocFired(c) /\ t = writeReg)
<1>1. Unresolved(t) /\ t \in Done => t \in EvalSlots
  <2> SUFFICES ASSUME Unresolved(t), t \in Done PROVE t \in EvalSlots
    OBVIOUS
  <2>1. PICK w \in {"aluResp", "unitResp", "branchEvals"} : \E x \in Held(w) : x.slot = t
    BY DoneIs
  <2>2. PICK x \in Held(w) : x.slot = t
    BY <2>1
  <2>3. Fits(w, "br")
    BY <2>2 DEF IInv, FlightOwned, Unresolved, PlaceNames
  <2>4. w = "branchEvals"
    BY <2>3 DEF Fits, Long
  <2>5. QED
    BY <2>2, <2>4, HeldIs DEF EvalSlots
<1>2. EvalSlots \subseteq Done
  BY DEF EvalSlots, Done
<1>3. Unresolved(t)' <=> Live(t)' /\ rob'[t].kind = "br" /\ ~rob'[t].ready
  BY DEF Unresolved
<1>4. Live(t)' <=> Kept(c, t) \/ (allocFired(c) /\ t = writeReg)
  BY OrderStep
<1>5. allocFired(c) /\ t = writeReg => (Unresolved(t)' <=> outBuf[1].kind = "br")
  <2> SUFFICES ASSUME allocFired(c), t = writeReg PROVE Unresolved(t)' <=> outBuf[1].kind = "br"
    OBVIOUS
  <2>1. rob'[t].kind = outBuf[1].kind /\ rob'[t].ready = (outBuf[1].kind = "lui")
    BY EntryStep DEF NewEntry
  <2>2. QED
    BY <1>3, <1>4, <2>1
<1>6. ~(allocFired(c) /\ t = writeReg) =>
        (Unresolved(t)' <=> Kept(c, t) /\ Unresolved(t) /\ t \notin Done) /\ rob'[t].bit = rob[t].bit
  BY <1>3, <1>4, EntryStep DEF Unresolved, Kept
<1>7. Unresolved(t) /\ ~Failed => Kept(c, t) /\ ~(allocFired(c) /\ t = writeReg)
  <2> SUFFICES ASSUME Unresolved(t), ~Failed PROVE Kept(c, t) /\ ~(allocFired(c) /\ t = writeReg)
    OBVIOUS
  <2>1. ~(commitFired(c) /\ t = readReg)
    BY DEF commitFired, commitReady, head, Unresolved
  <2>2. Kept(c, t)
    BY <2>1 DEF Kept, Unresolved
  <2>3. QED
    BY <2>2, OrderStep
<1>8. Failed => ~Unresolved(t)'
  <2> SUFFICES ASSUME Failed, Unresolved(t)' PROVE FALSE
    OBVIOUS
  <2>1. ~allocFired(c)
    BY FailureFreezes
  <2>2. Kept(c, t) /\ Unresolved(t) /\ t \notin Done
    BY <1>6, <2>1
  <2>3. PICK b \in branchEvals : ~b.passed
    BY DEF Failed
  <2>4. b \in Held("branchEvals") /\ rollbackSlot = b.slot /\ b.slot \in Slots
    BY <2>3, HeldIs, OneResolution
  <2>5. Age(rollbackSlot) <= Age(t)
    BY <2>2, <2>4, OldestBranch
  <2>6. Age(t) <= Age(rollbackSlot) /\ Age(t) \in Nat /\ Age(rollbackSlot) \in Nat
    BY <2>2, <2>4, AgeIs DEF Kept, IInv, TypeOK
  <2>7. t = rollbackSlot
    BY <2>4, <2>5, <2>6, AgeIs DEF IInv, TypeOK
  <2>8. QED
    BY <1>2, <2>2, <2>3, <2>4, <2>7 DEF EvalSlots
<1>9. ~Failed => (Unresolved(t)' <=> \/ Unresolved(t) /\ t \notin EvalSlots
                                     \/ allocFired(c) /\ t = writeReg /\ outBuf[1].kind = "br")
  BY <1>1, <1>2, <1>5, <1>6, <1>7
<1>10. QED
  BY <1>6, <1>7, <1>8, <1>9

LEMMA ResolvedIs ==
  ASSUME IInv
  PROVE  /\ EvalSlots \subseteq Open /\ Resolved = {rob[s].bit : s \in EvalSlots}
         /\ \A s \in Open : rob[s].bit \in Resolved <=> s \in EvalSlots
<1>1. \A b \in branchEvals : b.slot \in Open /\ b.bit = rob[b.slot].bit
  BY OneResolution DEF Open, Unresolved
<1>2. EvalSlots \subseteq Open /\ Resolved = {rob[s].bit : s \in EvalSlots}
  BY <1>1 DEF EvalSlots, Resolved
<1>3. \A s, t \in Open : rob[s].bit = rob[t].bit => s = t
  BY DEF IInv, BitsApart
<1>4. QED
  BY <1>2, <1>3

LEMMA DecodedIs ==
  ASSUME IInv
  PROVE  Decoded = IF outBuf # <<>> /\ outBuf[1].kind = "br" THEN {outBuf[1].bit} ELSE {}
<1>1. CASE outBuf = <<>>
  BY <1>1 DEF Decoded
<1>2. CASE outBuf # <<>>
  BY <1>2, OutBufIs DEF Decoded
<1>3. QED
  BY <1>1, <1>2

(* Ages of two slots that are in the ROB after the cycle. *)
LEMMA AgesCompare ==
  ASSUME IInv, NEW c, RobCycle(c), "bad" \notin Kinds,
         NEW s \in Slots, NEW t \in Slots, Kept(c, s), Kept(c, t)
  PROVE  /\ Age(s)' <= Age(t)' <=> Age(s) <= Age(t)
         /\ Age(s)' < Age(t)' <=> Age(s) < Age(t)
<1>1. Age(s) \in Nat /\ Age(t) \in Nat
  BY AgeIs DEF IInv, TypeOK
<1>2. /\ Age(s)' = IF commitFired(c) THEN Age(s) - 1 ELSE Age(s)
      /\ Age(t)' = IF commitFired(c) THEN Age(t) - 1 ELSE Age(t)
  BY OrderStep
<1>3. QED
  BY <1>1, <1>2

LEMMA AgesTyped ==
  ASSUME IInv, NEW c, RobCycle(c), "bad" \notin Kinds, NEW s \in Slots
  PROVE  Age(s)' \in Nat /\ Age(s) \in Nat
<1>1. \A r \in Slots : Fifo!Dist(r, s) \in Nat
  BY DEF Fifo!Dist, Slots
<1>2. readReg' \in Slots /\ readReg \in Slots
  BY OrderStep, Ends
<1>3. QED
  BY <1>1, <1>2 DEF Age

LEMMA MasksStep ==
  ASSUME IInv, NEW c \in Inputs, Cycle(c), "bad" \notin Kinds
  PROVE  MasksExact'
<1>0. RobCycle(c)
  BY DEF Cycle
<1>a. /\ Held("queue")' = Queued' /\ Held("released")' = released' /\ Held("toExec")' = toExec'
      /\ Held("aluReq")' = aluReq' /\ Held("units")' = units'
      /\ Held("branchInstruction")' = branchInstruction'
  BY DEF Held
<1>b. \A x \in Queued' \cup released' \cup toExec' \cup aluReq' \cup units' \cup branchInstruction' :
        \E w \in Masked : x \in Held(w)'
  BY <1>a DEF Masked
<1> SUFFICES ASSUME NEW w \in Masked, NEW x \in Held(w)'
             PROVE  x.mask = {rob'[s].bit : s \in {t \in Slots : Unresolved(t)' /\ Age(t)' <= Age(x.slot)'}}
  BY <1>b DEF MasksExact
<1> DEFINE Older == {t \in Slots : Unresolved(t)' /\ Age(t)' <= Age(x.slot)'}
<1>c. w \in PlaceNames
  BY DEF PlaceNames
<1>1. CASE IsNew(c, w, x) /\ x.slot = writeReg /\ allocFired(c) /\ x.slot \in Slots
            /\ x.mask = allocMask
  <2>1. ~Failed /\ outBuf # <<>>
    BY <1>1 DEF allocFired
  <2>2. \A t \in Slots : Unresolved(t)' => Age(t)' <= Age(x.slot)'
    <3> SUFFICES ASSUME NEW t \in Slots, Unresolved(t)' PROVE Age(t)' <= Age(x.slot)'
      OBVIOUS
    <3>1. Kept(c, t) \/ t = x.slot
      BY <1>0, <1>1, OpenStep
    <3>2. Age(t)' \in Nat /\ Age(x.slot)' \in Nat
      BY <1>0, <1>1, AgesTyped
    <3>3. Kept(c, t) => Age(t)' < Age(x.slot)'
      BY <1>0, <1>1, OrderStep
    <3>4. QED
      BY <3>1, <3>2, <3>3
  <2>3. \A t \in Slots : t \in Older <=> \/ Unresolved(t) /\ t \notin EvalSlots
                                         \/ t = writeReg /\ outBuf[1].kind = "br"
    BY <1>0, <1>1, <2>1, <2>2, OpenStep
  <2>4. \A t \in Slots : Unresolved(t) /\ t \notin EvalSlots => rob'[t].bit = rob[t].bit
    BY <1>0, <1>1, <2>1, OpenStep
  <2>5. rob'[writeReg].bit = outBuf[1].bit /\ writeReg \in Slots
    BY <1>0, <1>1, EntryStep DEF NewEntry
  <2>6. branchMask = {rob[s].bit : s \in Open} \cup Decoded
        /\ \A s \in Open : rob[s].bit \notin Decoded
    BY DEF IInv, BitsApart
  <2>7. Decoded = IF outBuf[1].kind = "br" THEN {outBuf[1].bit} ELSE {}
    BY <2>1, DecodedIs
  <2>8. \A s \in Open : rob[s].bit \in Resolved <=> s \in EvalSlots
    BY ResolvedIs
  <2>9. \A d \in Decoded : d \notin Resolved
    BY <2>6, ResolvedIs
  <2>10. ASSUME NEW d \in x.mask PROVE d \in {rob'[s].bit : s \in Older}
    <3>1. d \in branchMask /\ d \notin Resolved
      BY <1>1, <2>10 DEF allocMask
    <3>2. CASE d \in Decoded
      BY <2>3, <2>5, <2>7, <3>2
    <3>3. CASE \E s \in Open : d = rob[s].bit
      <4>1. PICK s \in Open : d = rob[s].bit
        BY <3>3
      <4>2. s \in Slots /\ Unresolved(s) /\ s \notin EvalSlots
        BY <2>8, <3>1, <4>1 DEF Open
      <4>3. s \in Older /\ d = rob'[s].bit
        BY <2>3, <2>4, <4>1, <4>2
      <4>4. QED
        BY <4>3
    <3>4. QED
      BY <2>6, <3>1, <3>2, <3>3
  <2>11. ASSUME NEW s \in Older PROVE rob'[s].bit \in x.mask
    <3>1. s \in Slots
      OBVIOUS
    <3>2. CASE Unresolved(s) /\ s \notin EvalSlots
      <4>1. s \in Open /\ rob'[s].bit = rob[s].bit
        BY <2>4, <3>1, <3>2 DEF Open
      <4>2. rob[s].bit \in branchMask /\ rob[s].bit \notin Resolved
        BY <2>6, <2>8, <3>2, <4>1
      <4>3. QED
        BY <1>1, <4>1, <4>2 DEF allocMask
    <3>3. CASE s = writeReg /\ outBuf[1].kind = "br"
      <4>1. rob'[s].bit \in Decoded
        BY <2>5, <2>7, <3>3
      <4>2. QED
        BY <1>1, <2>6, <2>9, <4>1 DEF allocMask
    <3>4. QED
      BY <2>3, <3>1, <3>2, <3>3
  <2> HIDE DEF Older
  <2>12. x.mask = {rob'[s].bit : s \in Older}
    BY <2>10, <2>11
  <2>13. QED
    BY <2>12 DEF Older
<1>2. CASE \E v \in Masked : \E y \in Held(v) :
              /\ CameFrom(c, w, x, v, y) /\ x.slot \in Slots /\ Kept(c, x.slot)
              /\ ~(allocFired(c) /\ x.slot = writeReg)
  <2>0. PICK v \in Masked : \E y \in Held(v) :
              /\ CameFrom(c, w, x, v, y) /\ x.slot \in Slots /\ Kept(c, x.slot)
              /\ ~(allocFired(c) /\ x.slot = writeReg)
    BY <1>2
  <2>1. PICK y \in Held(v) :
              /\ CameFrom(c, w, x, v, y) /\ x.slot \in Slots /\ Kept(c, x.slot)
              /\ ~(allocFired(c) /\ x.slot = writeReg)
    BY <2>0
  <2>2. x.mask = y.mask \ Resolved /\ x.slot = y.slot
    BY <1>c, <2>1, ImageIs DEF CameFrom
  <2>3. y.mask = {rob[s].bit : s \in {t \in Slots : Unresolved(t) /\ Age(t) <= Age(x.slot)}}
    BY <2>2, MaskIs
  <2>4. CASE Failed
    <3>1. Older = {}
      BY <1>0, <2>4, OpenStep
    <3>2. ASSUME NEW s \in Slots, Unresolved(s), Age(s) <= Age(x.slot) PROVE FALSE
      <4>1. PICK b \in branchEvals : ~b.passed
        BY <2>4 DEF Failed
      <4>2. b \in Held("branchEvals") /\ rollbackSlot = b.slot /\ b.slot \in Slots
        BY <4>1, HeldIs, OneResolution
      <4>3. Age(rollbackSlot) <= Age(s)
        BY <3>2, <4>2, OldestBranch
      <4>4. ~(Age(rollbackSlot) <= Age(x.slot))
        BY <2>1, <2>2, <2>4, KilledIs DEF CameFrom, Moves
      <4>5. Age(rollbackSlot) \in Nat /\ Age(s) \in Nat /\ Age(x.slot) \in Nat
        BY <2>1, <4>2, AgeIs DEF IInv, TypeOK
      <4>6. QED
        BY <3>2, <4>3, <4>4, <4>5
    <3>3. y.mask = {}
      BY <2>3, <3>2
    <3>4. QED
      BY <2>2, <3>1, <3>3
  <2>5. CASE ~Failed
    <3>1. \A t \in Slots : t \in Older <=> Unresolved(t) /\ t \notin EvalSlots /\ Age(t) <= Age(x.slot)
      <4> SUFFICES ASSUME NEW t \in Slots
                   PROVE  t \in Older <=> Unresolved(t) /\ t \notin EvalSlots /\ Age(t) <= Age(x.slot)
        OBVIOUS
      <4>1. CASE allocFired(c) /\ t = writeReg
        <5>1. Age(x.slot)' < Age(t)'
          BY <1>0, <2>1, <4>1, OrderStep
        <5>2. t \notin Older
          BY <1>0, <2>1, <5>1, AgesTyped
        <5>3. ~Unresolved(t)
          BY <1>0, <2>5, <4>1, OpenStep
        <5>4. QED
          BY <5>2, <5>3
      <4>2. CASE ~(allocFired(c) /\ t = writeReg)
        <5>1. Unresolved(t)' <=> Unresolved(t) /\ t \notin EvalSlots
          BY <1>0, <2>5, <4>2, OpenStep
        <5>2. Unresolved(t) => (Age(t)' <= Age(x.slot)' <=> Age(t) <= Age(x.slot))
          BY <1>0, <2>1, <2>5, OpenStep, AgesCompare
        <5>3. QED
          BY <5>1, <5>2
      <4>3. QED
        BY <4>1, <4>2
    <3>2. \A t \in Slots : Unresolved(t) /\ t \notin EvalSlots => rob'[t].bit = rob[t].bit
      BY <1>0, <2>5, OpenStep
    <3>3. \A s \in Slots : Unresolved(s) => (rob[s].bit \in Resolved <=> s \in EvalSlots)
      BY ResolvedIs DEF Open
    <3>4. \A t \in Older : t \in Slots
      OBVIOUS
    <3> HIDE DEF Older
    <3>5. ASSUME NEW d \in x.mask PROVE d \in {rob'[s].bit : s \in Older}
      <4>1. d \in y.mask /\ d \notin Resolved
        BY <2>2, <3>5
      <4>2. PICK s \in Slots : Unresolved(s) /\ Age(s) <= Age(x.slot) /\ d = rob[s].bit
        BY <2>3, <4>1
      <4>3. s \in Older /\ d = rob'[s].bit
        BY <3>1, <3>2, <3>3, <4>1, <4>2
      <4>4. QED
        BY <4>3
    <3>6. ASSUME NEW s \in Older PROVE rob'[s].bit \in x.mask
      <4>1. s \in Slots /\ Unresolved(s) /\ s \notin EvalSlots /\ Age(s) <= Age(x.slot)
        BY <3>1, <3>4
      <4>2. rob'[s].bit = rob[s].bit /\ rob[s].bit \in y.mask /\ rob[s].bit \notin Resolved
        BY <2>3, <3>2, <3>3, <4>1
      <4>3. QED
        BY <2>2, <4>2
    <3>7. x.mask = {rob'[s].bit : s \in Older}
      BY <3>5, <3>6
    <3>8. QED
      BY <3>7 DEF Older
  <2>6. QED
    BY <2>4, <2>5
<1>3. QED
  BY <1>1, <1>2, <1>c, NewOrMoved

LEMMA QueueAgedStep ==
  ASSUME IInv, NEW c \in Inputs, Cycle(c), "bad" \notin Kinds
  PROVE  QueueAged'
<1>0. RobCycle(c) /\ IssueCycle(c)
  BY DEF Cycle
<1> DEFINE L == Left(c)
           m == Cardinality(Left(c))
<1>1. /\ L \in SUBSET (1 .. Len(queue)) /\ m \in Nat
      /\ queue' \in Seq(Instr) /\ Len(queue') = m + (IF Enters(c) THEN 1 ELSE 0)
      /\ \A j \in 1 .. m : queue'[j] = Survivor(queue[Nth(L, j)])
      /\ Enters(c) => queue'[m + 1] = NewInstr
  BY <1>0, QueueStep
<1>2. /\ Len(queue) \in Nat /\ DOMAIN queue = 1 .. Len(queue)
      /\ \A i \in DOMAIN queue : queue[i] \in Instr
  BY DEF IInv, TypeOK
<1>3. /\ \A j \in 1 .. m : Nth(L, j) \in L
      /\ \A i, j \in 1 .. m : i < j => Nth(L, i) < Nth(L, j)
  BY <1>1, <1>2, NthIs
<1>4. \A j \in 1 .. m : queue'[j].slot \in Slots /\ Kept(c, queue'[j].slot)
                        /\ queue'[j].slot = queue[Nth(L, j)].slot
  <2> SUFFICES ASSUME NEW j \in 1 .. m
               PROVE  /\ queue'[j].slot \in Slots /\ Kept(c, queue'[j].slot)
                      /\ queue'[j].slot = queue[Nth(L, j)].slot
    OBVIOUS
  <2>1. PICK k \in L : k = Nth(L, j)
    BY <1>3
  <2>2. k \in DOMAIN queue /\ ~Killed(queue[k]) /\ queue[k] \in Instr
    BY <1>2, <2>1 DEF Left
  <2>3. queue[k] \in Held("queue") /\ "queue" \in Masked
    BY <2>2, HeldIs DEF Queued, Masked
  <2>4. Moves(c, "queue", queue[k])
    BY <2>2, <2>3 DEF Moves
  <2>5. queue[k].slot \in Slots /\ Kept(c, queue[k].slot)
    BY <2>3, <2>4, MovesKept
  <2>6. queue'[j].slot = queue[k].slot
    BY <1>1, <2>1, <2>2, SurvivorTyped
  <2>7. QED
    BY <2>1, <2>5, <2>6
<1> HIDE DEF m, L
<1> SUFFICES ASSUME NEW i \in DOMAIN queue', NEW j \in DOMAIN queue', i < j
             PROVE  Age(queue[i].slot)' < Age(queue[j].slot)'
  BY DEF QueueAged
<1>5. i \in 1 .. m /\ (j \in 1 .. m \/ (Enters(c) /\ j = m + 1))
  <2>1. i \in 1 .. Len(queue') /\ j \in 1 .. Len(queue')
    BY <1>1
  <2>2. QED
    BY <1>1, <2>1
<1>6. PICK s, t : s = queue'[i].slot /\ t = queue'[j].slot
  OBVIOUS
<1>7. Age(queue[i].slot)' = Age(s)' /\ Age(queue[j].slot)' = Age(t)'
  BY <1>6 DEF Age
<1>8. s \in Slots /\ Kept(c, s)
  BY <1>4, <1>5, <1>6
<1>9. CASE j \in 1 .. m
  <2>1. t \in Slots /\ Kept(c, t)
    BY <1>4, <1>6, <1>9
  <2>2. PICK k \in L, l \in L : k = Nth(L, i) /\ l = Nth(L, j) /\ k < l
    BY <1>3, <1>5, <1>9
  <2>3. k \in DOMAIN queue /\ l \in DOMAIN queue /\ s = queue[k].slot /\ t = queue[l].slot
    BY <1>1, <1>2, <1>4, <1>5, <1>6, <1>9, <2>2
  <2>4. Age(s) < Age(t)
    BY <2>2, <2>3 DEF IInv, QueueAged
  <2>5. QED
    BY <1>0, <1>7, <1>8, <2>1, <2>4, AgesCompare
<1>10. CASE Enters(c) /\ j = m + 1
  <2>1. t = writeReg /\ allocFired(c) /\ t \in Slots
    BY <1>1, <1>6, <1>10, Ends DEF NewInstr, Enters
  <2>2. Age(s)' < Age(t)'
    BY <1>0, <1>8, <2>1, OrderStep
  <2>3. QED
    BY <1>7, <2>2
<1>11. QED
  BY <1>5, <1>9, <1>10

LEMMA UnderWayStep ==
  ASSUME IInv, NEW c \in Inputs, Cycle(c), "bad" \notin Kinds
  PROVE  UnderWay'
<1>0. RobCycle(c) /\ IssueCycle(c)
  BY DEF Cycle
<1> SUFFICES ASSUME NEW s \in Slots, Live(s)', ~rob'[s].ready
             PROVE  \E w \in PlaceNames : \E x \in Held(w)' : x.slot = s
  BY DEF UnderWay
<1>1. CASE allocFired(c) /\ s = writeReg
  <2>1. rob'[s] = NewEntry
    BY <1>0, <1>1, EntryStep
  <2>2. NewEntry.ready = (outBuf[1].kind = "lui")
    BY DEF NewEntry
  <2>3. Enters(c)
    BY <1>1, <2>1, <2>2 DEF Enters
  <2>4. /\ Cardinality(Left(c)) \in Nat /\ queue' \in Seq(Instr)
        /\ Len(queue') = Cardinality(Left(c)) + 1
        /\ queue'[Cardinality(Left(c)) + 1] = NewInstr
    BY <1>0, <2>3, QueueStep
  <2>5. NewInstr \in Queued'
    BY <2>4 DEF Queued
  <2>6. NewInstr \in Held("queue")' /\ "queue" \in PlaceNames /\ NewInstr.slot = s
    BY <1>1, <2>5 DEF Held, PlaceNames, Masked, NewInstr
  <2>7. QED
    BY <2>6
<1>2. CASE ~(allocFired(c) /\ s = writeReg)
  <2>1. Kept(c, s) /\ ~rob[s].ready /\ s \notin Done
    BY <1>0, <1>2, OrderStep, EntryStep
  <2>2. PICK v \in PlaceNames : \E y \in Held(v) : y.slot = s
    BY <2>1 DEF Kept, IInv, UnderWay
  <2>3. PICK y \in Held(v) : y.slot = s
    BY <2>2
  <2>4. v \in Masked
    BY <2>1, <2>2, <2>3, DoneIs DEF PlaceNames
  <2>5. Moves(c, v, y)
    <3>1. CASE Failed
      <4>1. PICK b \in branchEvals : ~b.passed
        BY <3>1 DEF Failed
      <4>2. b \in Held("branchEvals") /\ rollbackSlot = b.slot /\ b.slot \in Slots
        BY <4>1, HeldIs, OneResolution
      <4>3. s # rollbackSlot
        BY <2>1, <4>1, <4>2 DEF Done
      <4>4. Age(s) <= Age(rollbackSlot) /\ Age(s) \in Nat /\ Age(rollbackSlot) \in Nat
        BY <2>1, <3>1, <4>2, AgeIs DEF Kept, IInv, TypeOK
      <4>5. Age(s) # Age(rollbackSlot)
        BY <4>2, <4>3, AgeIs DEF IInv, TypeOK
      <4>6. ~(Age(rollbackSlot) <= Age(s))
        BY <4>4, <4>5
      <4>7. ~Killed(y)
        BY <2>3, <2>4, <3>1, <4>6, KilledIs
      <4>8. v # "branchInstruction"
        <5> SUFFICES ASSUME v = "branchInstruction" PROVE FALSE
          OBVIOUS
        <5>1. Unresolved(s)
          BY <2>1, <2>2, <2>3 DEF IInv, FlightOwned, Owns, Fits, Unresolved
        <5>2. QED
          BY <4>2, <4>6, <5>1, OldestBranch
      <4>9. ~commitFired(c)
        BY <3>1, FailureFreezes
      <4>10. QED
        BY <2>4, <4>7, <4>8, <4>9 DEF Moves
    <3>2. CASE ~Failed
      <4>1. ~(commitFired(c) /\ y.slot = readReg)
        BY <2>1, <2>3, <3>2 DEF Kept
      <4>2. QED
        BY <2>4, <3>2, <4>1 DEF Moves, Killed
    <3>3. QED
      BY <3>1, <3>2
  <2>6. PICK w : w = Dest(c, v, y)
    OBVIOUS
  <2>7. w \in PlaceNames /\ Image(c, w, y) \in Held(w)'
    BY <2>4, <2>5, <2>6, StepOn
  <2>8. Image(c, w, y).slot = s
    BY <2>3, <2>4, <2>7, ImageIs
  <2>9. QED
    BY <2>7, <2>8
<1>3. QED
  BY <1>1, <1>2

(* A branch goes at most one place further in a cycle. *)
LEMMA RankStep ==
  ASSUME NEW c, NEW v \in Masked, NEW y, y.kind = "br", Fits(v, "br"), NEW w, w = Dest(c, v, y)
  PROVE  /\ v \in {"queue", "released", "toExec", "branchInstruction"}
         /\ Rank(v) \in 1 .. 4 /\ Rank(w) \in {Rank(v), Rank(v) + 1}
<1>1. v \in {"queue", "released", "toExec", "branchInstruction"}
  BY DEF Fits, Masked, Long
<1>2. CASE v = "queue"
  BY <1>2 DEF Rank, Dest
<1>3. CASE v = "released"
  BY <1>3 DEF Rank, Dest
<1>4. CASE v = "toExec"
  BY <1>4 DEF Rank, Dest
<1>5. CASE v = "branchInstruction"
  BY <1>5 DEF Rank, Dest
<1>6. QED
  BY <1>1, <1>2, <1>3, <1>4, <1>5

LEMMA BranchOrderStep ==
  ASSUME IInv, NEW c \in Inputs, Cycle(c), "bad" \notin Kinds
  PROVE  BranchesInOrder'
<1>0. RobCycle(c)
  BY DEF Cycle
<1> SUFFICES ASSUME NEW v \in PlaceNames, NEW w \in PlaceNames,
                    NEW x \in Held(v)', NEW y \in Held(w)',
                    rob'[x.slot].kind = "br", rob'[y.slot].kind = "br", Rank(v) < Rank(w)
             PROVE  Age(y.slot)' < Age(x.slot)'
  BY DEF BranchesInOrder
<1>1. Fits(v, "br")
  <2>1. FlightOwned'
    BY FlightStep
  <2>2. Fits(v, rob'[x.slot].kind)
    BY <2>1 DEF FlightOwned
  <2>3. QED
    BY <2>2
<1>2. ~IsNew(c, w, y)
  <2> SUFFICES ASSUME IsNew(c, w, y) PROVE FALSE
    OBVIOUS
  <2>1. Rank(w) = 1
    BY DEF IsNew, Rank
  <2>2. Rank(v) >= 1
    BY <1>1 DEF Fits, Long, Rank, PlaceNames, Masked
  <2>3. Rank(v) \in 0 .. 5
    BY DEF Rank
  <2>4. QED
    BY <2>1, <2>2, <2>3
<1>3. PICK w0 \in Masked : \E y0 \in Held(w0) :
              /\ CameFrom(c, w, y, w0, y0) /\ y.slot \in Slots /\ Kept(c, y.slot)
              /\ ~(allocFired(c) /\ y.slot = writeReg)
  BY <1>2, NewOrMoved
<1>4. PICK y0 \in Held(w0) :
              /\ CameFrom(c, w, y, w0, y0) /\ y.slot \in Slots /\ Kept(c, y.slot)
              /\ ~(allocFired(c) /\ y.slot = writeReg)
  BY <1>3
<1>5. CASE IsNew(c, v, x) /\ x.slot = writeReg /\ allocFired(c) /\ x.slot \in Slots
  BY <1>0, <1>4, <1>5, OrderStep
<1>6. CASE \E v0 \in Masked : \E x0 \in Held(v0) :
              /\ CameFrom(c, v, x, v0, x0) /\ x.slot \in Slots /\ Kept(c, x.slot)
              /\ ~(allocFired(c) /\ x.slot = writeReg)
  <2>1. PICK v0 \in Masked : \E x0 \in Held(v0) :
              /\ CameFrom(c, v, x, v0, x0) /\ x.slot \in Slots /\ Kept(c, x.slot)
              /\ ~(allocFired(c) /\ x.slot = writeReg)
    BY <1>6
  <2>2. PICK x0 \in Held(v0) :
              /\ CameFrom(c, v, x, v0, x0) /\ x.slot \in Slots /\ Kept(c, x.slot)
              /\ ~(allocFired(c) /\ x.slot = writeReg)
    BY <2>1
  <2>3. x.slot = x0.slot /\ y.slot = y0.slot /\ v = Dest(c, v0, x0) /\ w = Dest(c, w0, y0)
    BY <1>4, <2>2 DEF CameFrom
  <2>4. rob[x0.slot].kind = "br" /\ rob[y0.slot].kind = "br"
    BY <1>0, <1>4, <2>2, <2>3, EntryStep
  <2>5. /\ x0.kind = "br" /\ Fits(v0, "br") /\ v0 \in PlaceNames
        /\ y0.kind = "br" /\ Fits(w0, "br") /\ w0 \in PlaceNames
    BY <1>4, <2>2, <2>4, MovesKept DEF CameFrom
  <2>6. /\ Rank(v0) \in 1 .. 4 /\ Rank(v) \in {Rank(v0), Rank(v0) + 1}
        /\ Rank(w0) \in 1 .. 4 /\ Rank(w) \in {Rank(w0), Rank(w0) + 1}
        /\ v0 \in {"queue", "released", "toExec", "branchInstruction"}
        /\ w0 \in {"queue", "released", "toExec", "branchInstruction"}
    BY <2>3, <2>5, RankStep
  <2>7. Age(y0.slot) < Age(x0.slot)
    <3>1. CASE Rank(v0) < Rank(w0)
      BY <2>4, <2>5, <3>1 DEF IInv, BranchesInOrder
    <3>2. CASE Rank(v0) = Rank(w0)
      <4>1. v0 = w0
        BY <2>6, <3>2 DEF Rank
      <4>2. v # w
        BY <2>6
      <4>3. x0 # y0
        BY <2>3, <4>1, <4>2
      <4>4. v0 = "queue"
        BY <2>6, <4>1, <4>3, HeldIs DEF IInv, OnePerRegister, AtMostOne
      <4>5. PICK k \in DOMAIN queue : x0 = queue[k]
        BY <4>4, HeldIs DEF Queued
      <4>6. w = "released"
        <5>1. w \in {"queue", "released"} /\ v \in {"queue", "released"}
          BY <2>3, <4>1, <4>4 DEF Dest
        <5>2. QED
          BY <4>2, <5>1 DEF Rank
      <4>7. c.sel # 0 /\ y0 = queue[c.sel]
        BY <2>3, <4>1, <4>4, <4>6 DEF Dest
      <4>8. c.sel \in Selectable /\ c.sel \in DOMAIN queue
        BY <4>7, ChoicesTyped
      <4>9. \A j \in 1 .. c.sel - 1 : queue[j].kind # "br"
        BY <2>5, <4>7, <4>8 DEF Selectable
      <4>10. /\ queue \in Seq(Instr) /\ DOMAIN queue = 1 .. Len(queue) /\ Len(queue) \in Nat
        BY DEF IInv, TypeOK
      <4>11. k \notin 1 .. c.sel - 1 /\ k # c.sel
        BY <2>5, <4>3, <4>5, <4>7, <4>9
      <4>12. c.sel < k
        BY <4>5, <4>8, <4>10, <4>11
      <4>13. QED
        BY <4>5, <4>7, <4>8, <4>12 DEF IInv, QueueAged
    <3>3. CASE Rank(v0) > Rank(w0)
      BY <2>6, <3>3
    <3>4. QED
      BY <2>6, <3>1, <3>2, <3>3
  <2>8. QED
    BY <1>0, <1>4, <2>2, <2>3, <2>7, AgesCompare
<1>7. QED
  BY <1>5, <1>6, NewOrMoved

-----------------------------------------------------------------------------
(***************************************************************************)
(* Decode's branch bits.                                                   *)
(***************************************************************************)
BranchArrives(c) == c.arrival = <<"br">>
NewBit == Min(freeBits)
BranchEnters(c) == allocFired(c) /\ outBuf[1].kind = "br"

LEMMA MinSingleton ==
  ASSUME NEW b \in Nat
  PROVE  Min({b}) = b
  BY MinOf

LEMMA DecodeStep ==
  ASSUME IInv, NEW c \in Inputs, DecodeCycle(c)
  PROVE  /\ outBuf' \in {<<>>} \cup {<<o>> : o \in [kind : Kinds, bit : Bits]}
         /\ branchMask' \subseteq Bits /\ pcReady' \subseteq Bits
         /\ pcReady' = IF BranchArrives(c) THEN {NewBit} ELSE {}
         /\ Failed => branchMask' = {} /\ Decoded' = {} /\ ~BranchArrives(c)
         /\ ~Failed => branchMask' = (branchMask \ Resolved) \cup pcReady'
         /\ BranchArrives(c) => /\ ~Failed /\ branchEvals = {} /\ NewBit \in Bits
                                /\ NewBit \notin branchMask /\ Decoded' = {NewBit}
                                /\ outBuf = <<>> \/ allocFired(c)
         /\ ~Failed /\ ~BranchArrives(c) => Decoded' = IF allocFired(c) THEN {} ELSE Decoded
<1> DEFINE accepts == ~Failed /\ (outBuf = <<>> \/ allocFired(c))
           taken == IF BranchArrives(c) THEN {NewBit} ELSE {}
           b == Min(IF taken = {} THEN Bits ELSE taken)
<1>1. /\ c.arrival # <<>> => accepts
      /\ BranchArrives(c) => branchEvals = {} /\ freeBits # {}
      /\ outBuf' = IF accepts THEN [i \in DOMAIN c.arrival |-> [kind |-> c.arrival[i], bit |-> b]]
                   ELSE IF Failed THEN <<>> ELSE outBuf
      /\ branchMask' = IF Failed THEN {} ELSE (branchMask \ Resolved) \cup taken
      /\ pcReady' = taken
  BY DEF DecodeCycle, BranchArrives, NewBit
<1>2. c.arrival = <<>> \/ \E k \in Kinds : c.arrival = <<k>>
  BY ChoicesTyped
<1>3. BranchArrives(c) => accepts /\ NewBit \in Bits /\ NewBit \notin branchMask
  <2> SUFFICES ASSUME BranchArrives(c) PROVE accepts /\ NewBit \in Bits /\ NewBit \notin branchMask
    OBVIOUS
  <2>1. c.arrival # <<>>
    BY DEF BranchArrives
  <2>2. freeBits \in SUBSET Nat /\ freeBits # {}
    BY <1>1 DEF freeBits
  <2>3. NewBit \in freeBits
    BY <2>2, MinOf DEF NewBit
  <2>4. QED
    BY <1>1, <2>1, <2>3 DEF freeBits
<1>4. b \in Bits /\ (BranchArrives(c) => b = NewBit)
  <2>1. CASE BranchArrives(c)
    <3>1. NewBit \in Nat /\ taken = {NewBit}
      BY <1>3, <2>1
    <3>2. b = NewBit
      BY <3>1, MinSingleton
    <3>3. QED
      BY <1>3, <2>1, <3>2
  <2>2. CASE ~BranchArrives(c)
    <3>1. b = Min(Bits)
      BY <2>2
    <3>2. QED
      BY <2>2, <3>1, MinOf
  <2>3. QED
    BY <2>1, <2>2
<1> HIDE DEF b
<1>5. pcReady' = IF BranchArrives(c) THEN {NewBit} ELSE {}
  BY <1>1
<1>6. branchMask' \subseteq Bits /\ pcReady' \subseteq Bits
  <2>1. branchMask \subseteq Bits
    BY DEF IInv, TypeOK
  <2>2. QED
    BY <1>1, <1>3, <2>1
<1>7. Failed => branchMask' = {} /\ outBuf' = <<>> /\ ~BranchArrives(c)
  BY <1>1, <1>3
<1>8. ~Failed => branchMask' = (branchMask \ Resolved) \cup pcReady'
  BY <1>1
<1>9. accepts /\ c.arrival = <<>> => outBuf' = <<>>
  BY <1>1
<1>10. \A k \in Kinds : accepts /\ c.arrival = <<k>> => outBuf' = <<[kind |-> k, bit |-> b]>>
  <2> SUFFICES ASSUME NEW k \in Kinds, accepts, c.arrival = <<k>>
               PROVE  outBuf' = <<[kind |-> k, bit |-> b]>>
    OBVIOUS
  <2>1. DOMAIN c.arrival = {1} /\ c.arrival[1] = k
    OBVIOUS
  <2>2. outBuf' = [i \in {1} |-> [kind |-> c.arrival[i], bit |-> b]]
    BY <1>1, <2>1
  <2>3. outBuf' = [i \in 1 .. 1 |-> [kind |-> k, bit |-> b]]
    BY <2>1, <2>2
  <2>4. QED
    BY <2>3
<1>11. outBuf' \in {<<>>} \cup {<<o>> : o \in [kind : Kinds, bit : Bits]}
  <2>1. CASE accepts /\ c.arrival = <<>>
    BY <1>9, <2>1
  <2>2. ASSUME NEW k \in Kinds, accepts, c.arrival = <<k>>
        PROVE  outBuf' \in {<<o>> : o \in [kind : Kinds, bit : Bits]}
    <3>1. [kind |-> k, bit |-> b] \in [kind : Kinds, bit : Bits]
      BY <1>4
    <3>2. QED
      BY <1>10, <2>2, <3>1
  <2>3. CASE ~accepts
    BY <1>1, <2>3 DEF IInv, TypeOK
  <2>4. QED
    BY <1>2, <2>1, <2>2, <2>3
<1>12. outBuf' = <<>> => Decoded' = {}
  BY DEF Decoded
<1>13. \A o : outBuf' = <<o>> => Decoded' = IF o.kind = "br" THEN {o.bit} ELSE {}
  <2> SUFFICES ASSUME NEW o, outBuf' = <<o>> PROVE Decoded' = IF o.kind = "br" THEN {o.bit} ELSE {}
    OBVIOUS
  <2>1. DOMAIN outBuf' = {1} /\ outBuf'[1] = o
    OBVIOUS
  <2>2. QED
    BY <2>1 DEF Decoded
<1>14. BranchArrives(c) => Decoded' = {NewBit}
  <2> SUFFICES ASSUME BranchArrives(c) PROVE Decoded' = {NewBit}
    OBVIOUS
  <2>1. PICK k \in Kinds : c.arrival = <<k>>
    BY <1>2 DEF BranchArrives
  <2>2. k = "br"
    BY <2>1 DEF BranchArrives
  <2>3. outBuf' = <<[kind |-> k, bit |-> b]>>
    BY <1>3, <1>10, <2>1
  <2>4. QED
    BY <1>4, <1>13, <2>2, <2>3
<1>15. ~Failed /\ ~BranchArrives(c) => Decoded' = IF allocFired(c) THEN {} ELSE Decoded
  <2> SUFFICES ASSUME ~Failed, ~BranchArrives(c)
               PROVE  Decoded' = IF allocFired(c) THEN {} ELSE Decoded
    OBVIOUS
  <2>1. CASE accepts
    <3>1. Decoded' = {}
      <4>1. CASE c.arrival = <<>>
        BY <1>9, <1>12, <2>1, <4>1
      <4>2. ASSUME NEW k \in Kinds, c.arrival = <<k>> PROVE Decoded' = {}
        <5>1. k # "br"
          BY <4>2 DEF BranchArrives
        <5>2. outBuf' = <<[kind |-> k, bit |-> b]>>
          BY <1>10, <2>1, <4>2
        <5>3. QED
          BY <1>13, <5>1, <5>2
      <4>3. QED
        BY <1>2, <4>1, <4>2
    <3>2. ~allocFired(c) => Decoded = {}
      BY <2>1, DecodedIs
    <3>3. QED
      BY <3>1, <3>2
  <2>2. CASE ~accepts
    <3>1. outBuf' = outBuf /\ ~allocFired(c)
      BY <1>1, <2>2
    <3>2. QED
      BY <3>1 DEF Decoded
  <2>3. QED
    BY <2>1, <2>2
<1>16. QED
  BY <1>1, <1>3, <1>5, <1>6, <1>7, <1>8, <1>11, <1>12, <1>14, <1>15

(* The unresolved branches and their bits after a cycle without misprediction. *)
LEMMA OpenBits ==
  ASSUME IInv, NEW c \in Inputs, RobCycle(c), "bad" \notin Kinds, ~Failed
  PROVE  /\ \A t \in Slots : t \in Open' <=> \/ t \in Open /\ t \notin EvalSlots
                                             \/ BranchEnters(c) /\ t = writeReg
         /\ Open' \subseteq Slots
         /\ \A t \in Open : t \notin EvalSlots => rob'[t].bit = rob[t].bit
         /\ BranchEnters(c) => /\ Decoded = {outBuf[1].bit} /\ rob'[writeReg].bit = outBuf[1].bit
                               /\ writeReg \in Slots /\ writeReg \notin Open
         /\ allocFired(c) /\ ~BranchEnters(c) => Decoded = {}
<1>1. \A t \in Slots : t \in Open' <=> Unresolved(t)'
  BY DEF Open
<1>2. \A t \in Slots : t \in Open <=> Unresolved(t)
  BY DEF Open
<1>3. \A t \in Slots : t \in Open' <=> \/ t \in Open /\ t \notin EvalSlots
                                       \/ BranchEnters(c) /\ t = writeReg
  BY <1>1, <1>2, OpenStep DEF BranchEnters
<1>4. Open' \subseteq Slots /\ Open \subseteq Slots
  BY DEF Open
<1>5. \A t \in Open : t \notin EvalSlots => rob'[t].bit = rob[t].bit
  BY <1>1, <1>2, <1>3, <1>4, OpenStep
<1>6. BranchEnters(c) => Decoded = {outBuf[1].bit}
  BY DecodedIs DEF BranchEnters, allocFired
<1>7. allocFired(c) /\ ~BranchEnters(c) => Decoded = {}
  BY DecodedIs DEF BranchEnters
<1>8. BranchEnters(c) => writeReg \in Slots /\ writeReg \notin Open
  BY <1>2, Ends, OpenStep DEF BranchEnters
<1>9. BranchEnters(c) => rob'[writeReg].bit = outBuf[1].bit
  BY <1>8, EntryStep DEF BranchEnters, NewEntry
<1>10. QED
  BY <1>3, <1>4, <1>5, <1>6, <1>7, <1>8, <1>9

LEMMA BitsApartStep ==
  ASSUME IInv, NEW c \in Inputs, Cycle(c), "bad" \notin Kinds
  PROVE  BitsApart'
<1>0. RobCycle(c) /\ DecodeCycle(c)
  BY DEF Cycle
<1>1. SUFFICES /\ \A s, t \in Open' : rob'[s].bit = rob'[t].bit => s = t
               /\ \A s \in Open' : rob'[s].bit \notin Decoded'
               /\ branchMask' = {rob'[s].bit : s \in Open'} \cup Decoded'
  BY DEF BitsApart
<1>2. CASE Failed
  <2>1. Open' = {}
    BY <1>0, <1>2, OpenStep DEF Open
  <2>2. branchMask' = {} /\ Decoded' = {}
    BY <1>0, <1>2, DecodeStep
  <2>3. QED
    BY <2>1, <2>2
<1>3. CASE ~Failed
  <2>1. /\ \A t \in Slots : t \in Open' <=> \/ t \in Open /\ t \notin EvalSlots
                                            \/ BranchEnters(c) /\ t = writeReg
        /\ Open' \subseteq Slots
        /\ \A t \in Open : t \notin EvalSlots => rob'[t].bit = rob[t].bit
        /\ BranchEnters(c) => /\ Decoded = {outBuf[1].bit} /\ rob'[writeReg].bit = outBuf[1].bit
                              /\ writeReg \in Slots /\ writeReg \notin Open
        /\ allocFired(c) /\ ~BranchEnters(c) => Decoded = {}
    BY <1>0, <1>3, OpenBits
  <2>2. /\ \A s, t \in Open : rob[s].bit = rob[t].bit => s = t
        /\ \A s \in Open : rob[s].bit \notin Decoded
        /\ branchMask = {rob[s].bit : s \in Open} \cup Decoded
    BY DEF IInv, BitsApart
  <2>3. /\ EvalSlots \subseteq Open /\ Resolved = {rob[s].bit : s \in EvalSlots}
        /\ \A s \in Open : rob[s].bit \in Resolved <=> s \in EvalSlots
    BY ResolvedIs
  <2>4. \A d \in Decoded : d \notin Resolved
    BY <2>2, <2>3
  <2>5. \A t \in Open' : \/ t \in Open /\ t \notin EvalSlots /\ rob'[t].bit = rob[t].bit
                         \/ BranchEnters(c) /\ t = writeReg /\ rob'[t].bit \in Decoded
    BY <2>1
  <2>6. Open \subseteq Slots
    BY DEF Open
  <2>7. \A t \in Open : t \notin EvalSlots => t \in Open'
    BY <2>1, <2>6
  <2>8. BranchEnters(c) => writeReg \in Open' /\ allocFired(c)
    BY <2>1 DEF BranchEnters
  <2>9. \A d, e \in Decoded : d = e
    BY DecodedIs
  <2>10. \A s, t \in Open' : rob'[s].bit = rob'[t].bit => s = t
    BY <2>2, <2>5
  <2>11. CASE BranchArrives(c)
    <3>1. /\ Decoded' = {NewBit} /\ NewBit \notin branchMask /\ Resolved = {}
          /\ branchMask' = (branchMask \ Resolved) \cup {NewBit}
          /\ outBuf = <<>> \/ allocFired(c)
      BY <1>0, <1>3, <2>11, DecodeStep DEF Resolved
    <3>2. Decoded # {} => BranchEnters(c)
      BY <2>1, <3>1, DecodedIs
    <3>3. \A s \in Open' : rob'[s].bit \in branchMask
      BY <2>2, <2>5
    <3>4. \A d \in branchMask : \E s \in Open' : rob'[s].bit = d
      <4> TAKE d \in branchMask
      <4>1. CASE d \in Decoded
        BY <2>1, <2>8, <3>2, <4>1
      <4>2. CASE \E s \in Open : d = rob[s].bit
        <5>1. PICK s \in Open : d = rob[s].bit
          BY <4>2
        <5>2. s \notin EvalSlots
          BY <2>3, <3>1, <5>1
        <5>3. QED
          BY <2>1, <2>7, <5>1, <5>2
      <4>3. QED
        BY <2>2, <4>1, <4>2
    <3>5. branchMask' = {rob'[s].bit : s \in Open'} \cup Decoded'
      BY <3>1, <3>3, <3>4
    <3>6. QED
      BY <2>10, <3>1, <3>3, <3>5
  <2>12. CASE ~BranchArrives(c)
    <3>1. /\ Decoded' = IF allocFired(c) THEN {} ELSE Decoded
          /\ branchMask' = branchMask \ Resolved
      BY <1>0, <1>3, <2>12, DecodeStep
    <3>2. \A s \in Open' : rob'[s].bit \notin Decoded'
      BY <2>2, <2>5, <2>8, <3>1
    <3>3. ASSUME NEW d \in branchMask'
          PROVE  d \in {rob'[s].bit : s \in Open'} \cup Decoded'
      <4>1. d \in branchMask /\ d \notin Resolved
        BY <3>1, <3>3
      <4>2. CASE d \in Decoded
        BY <2>1, <2>8, <3>1, <4>2
      <4>3. CASE \E s \in Open : d = rob[s].bit
        <5>1. PICK s \in Open : d = rob[s].bit
          BY <4>3
        <5>2. s \in Open' /\ rob'[s].bit = d
          BY <2>1, <2>3, <2>7, <4>1, <5>1
        <5>3. QED
          BY <5>2
      <4>4. QED
        BY <2>2, <4>1, <4>2, <4>3
    <3>4. ASSUME NEW s \in Open' PROVE rob'[s].bit \in branchMask'
      BY <2>2, <2>3, <2>4, <2>5, <3>1
    <3>5. ASSUME NEW d \in Decoded' PROVE d \in branchMask'
      BY <2>2, <2>4, <3>1
    <3>6. branchMask' = {rob'[s].bit : s \in Open'} \cup Decoded'
      BY <3>3, <3>4, <3>5
    <3>7. QED
      BY <2>10, <3>2, <3>6
  <2>13. QED
    BY <2>11, <2>12
<1>4. QED
  BY <1>2, <1>3

(* The waiting bits: a sequence with decode's bit at its end. *)
LEMMA WaitingIs ==
  ASSUME IInv
  PROVE  /\ Waiting \in Seq(Bits) /\ Len(branchPCs) \in Nat
         /\ Len(Waiting) = IF pcReady = {} THEN Len(branchPCs) ELSE Len(branchPCs) + 1
         /\ Cardinality(Decoded) = IF Decoded = {} THEN 0 ELSE 1
         /\ InRob \in Nat /\ InRob <= Len(branchPCs)
         /\ InRob = IF Decoded = {} THEN Len(Waiting) ELSE Len(Waiting) - 1
         /\ \A i \in 1 .. Len(branchPCs) : Waiting[i] = branchPCs[i]
         /\ pcReady # {} => InRob = Len(branchPCs) /\ Decoded # {} /\ Min(pcReady) \in Bits
<1> DEFINE last == IF pcReady = {} THEN <<>> ELSE <<Min(pcReady)>>
<1>1. branchPCs \in Seq(Bits) /\ Len(branchPCs) \in Nat
  BY DEF IInv, TypeOK
<1>2. pcReady # {} => Min(pcReady) \in Bits
  <2>1. pcReady \subseteq Bits /\ pcReady \in SUBSET Nat
    BY DEF IInv, TypeOK
  <2>2. QED
    BY <2>1, MinOf
<1>3. last \in Seq(Bits) /\ Len(last) = IF pcReady = {} THEN 0 ELSE 1
  BY <1>2
<1>4. Waiting = branchPCs \o last
  BY DEF Waiting
<1> HIDE DEF last
<1>5. Waiting \in Seq(Bits) /\ Len(Waiting) = Len(branchPCs) + Len(last)
  BY <1>1, <1>3, <1>4, ConcatProperties
<1>6. \A i \in 1 .. Len(branchPCs) : Waiting[i] = branchPCs[i]
  BY <1>1, <1>3, <1>4
<1>7. Cardinality(Decoded) = IF Decoded = {} THEN 0 ELSE 1
  <2>1. CASE Decoded = {}
    BY <2>1, FS_EmptySet
  <2>2. CASE Decoded # {}
    <3>1. PICK d : Decoded = {d}
      BY <2>2, DecodedIs
    <3>2. QED
      BY <2>2, <3>1, FS_Singleton
  <2>3. QED
    BY <2>1, <2>2
<1>8. pcReady # {} => Decoded # {}
  BY DEF IInv, BitsPaired
<1>9. Decoded # {} => Len(Waiting) > 0
  BY DEF IInv, BitsPaired
<1>10. InRob = Len(Waiting) - Cardinality(Decoded)
  BY DEF InRob
<1>11. Len(Waiting) = IF pcReady = {} THEN Len(branchPCs) ELSE Len(branchPCs) + 1
  BY <1>1, <1>3, <1>5
<1>12. QED
  BY <1>1, <1>2, <1>5, <1>6, <1>7, <1>8, <1>9, <1>10, <1>11

(* There is always room for a new bit. *)
LEMMA RoomForBit ==
  ASSUME IInv, pcReady # {}
  PROVE  Len(branchPCs) < Cardinality(Bits)
<1> DEFINE n == Len(branchPCs)
           d == Min(pcReady)
           f == [i \in 1 .. n |-> Waiting[i]]
<1>1. n \in Nat /\ InRob = n /\ Decoded = {d} /\ d \in Bits
      /\ Waiting \in Seq(Bits) /\ n <= Len(Waiting)
  BY WaitingIs DEF IInv, BitsPaired
<1>2. PICK at \in [Unevaluated -> 1 .. InRob] : PairedBy(at)
  BY DEF IInv, BitsPaired
<1> HIDE DEF n, d
<1>3. \A i \in 1 .. n : \E s \in Unevaluated : at[s] = i /\ Waiting[i] = rob[s].bit
  BY <1>1, <1>2 DEF PairedBy
<1>4. /\ Unevaluated \subseteq Open
      /\ \A s, t \in Open : rob[s].bit = rob[t].bit => s = t
      /\ \A s \in Open : rob[s].bit \notin Decoded
  BY DEF IInv, BitsApart, Unevaluated
<1>5. \A i \in 1 .. n : Waiting[i] \in Bits \ {d}
  <2> TAKE i \in 1 .. n
  <2>1. Waiting[i] # d
    BY <1>1, <1>3, <1>4
  <2>2. i \in 1 .. Len(Waiting)
    BY <1>1
  <2>3. Waiting[i] \in Bits
    BY <1>1, <2>2
  <2>4. QED
    BY <2>1, <2>3
<1>6. \A i, j \in 1 .. n : Waiting[i] = Waiting[j] => i = j
  BY <1>3, <1>4
<1>7. f \in Injection(1 .. n, Bits \ {d})
  BY <1>5, <1>6 DEF Injection, IsInjective
<1>8. /\ IsFiniteSet(Bits \ {d}) /\ Cardinality(Bits \ {d}) = Cardinality(Bits) - 1
      /\ Cardinality(Bits) \in Nat
  BY <1>1, FS_RemoveElement, FS_CardinalityType
<1>9. Cardinality(1 .. n) = n
  BY <1>1, FS_Interval
<1>10. n <= Cardinality(Bits) - 1
  BY <1>7, <1>8, <1>9, FS_Injection
<1>11. QED
  BY <1>1, <1>8, <1>10 DEF n

(* The branch that executes has the first bit. *)
LEMMA ExecutesFirst ==
  ASSUME IInv, NEW x \in branchInstruction, NEW at \in [Unevaluated -> 1 .. InRob], PairedBy(at)
  PROVE  /\ x.slot \in Unevaluated /\ at[x.slot] = 1 /\ InRob >= 1
         /\ \A t \in Unevaluated : t # x.slot => at[t] > 1
         /\ branchPCs # <<>> /\ Head(branchPCs) = rob[x.slot].bit
<1>1. x \in Held("branchInstruction") /\ "branchInstruction" \in PlaceNames
  BY HeldIs DEF PlaceNames, Masked
<1>2. x.slot \in Slots /\ Unresolved(x.slot)
  BY <1>1, HeldTyped DEF IInv, FlightOwned, Owns, Fits, Unresolved
<1>3. x.slot \in Unevaluated
  <2>1. \A b \in branchEvals : b.slot # x.slot
    <3> SUFFICES ASSUME NEW b \in branchEvals, b.slot = x.slot PROVE FALSE
      OBVIOUS
    <3>1. b \in Held("branchEvals") /\ "branchEvals" \in PlaceNames
      BY HeldIs DEF PlaceNames
    <3>2. QED
      BY <1>1, <3>1 DEF IInv, Apart
  <2>2. QED
    BY <1>2, <2>1 DEF Unevaluated, Open
<1>4. InRob \in Nat /\ at[x.slot] \in 1 .. InRob
  BY <1>3, WaitingIs
<1>5. InRob >= 1
  BY <1>4
<1>6. \A t \in Unevaluated : t # x.slot => at[x.slot] < at[t]
  <2> SUFFICES ASSUME NEW t \in Unevaluated, t # x.slot PROVE at[x.slot] < at[t]
    OBVIOUS
  <2>1. t \in Slots /\ Unresolved(t)
    BY DEF Unevaluated, Open
  <2>2. Age(x.slot) <= Age(t)
    BY <1>1, <2>1, OldestBranch
  <2>3. Age(x.slot) \in Nat /\ Age(t) \in Nat /\ Age(x.slot) # Age(t)
    BY <1>2, <2>1, AgeIs DEF IInv, TypeOK
  <2>4. Age(x.slot) < Age(t)
    BY <2>2, <2>3
  <2>5. QED
    BY <1>3, <2>4 DEF PairedBy
<1>7. at[x.slot] = 1
  <2>1. PICK s \in Unevaluated : at[s] = 1
    BY <1>4, <1>5 DEF PairedBy
  <2>2. QED
    BY <1>4, <1>6, <2>1
<1>8. \A t \in Unevaluated : t # x.slot => at[t] > 1
  BY <1>6, <1>7
<1>9. Waiting[1] = rob[x.slot].bit
  BY <1>3, <1>7 DEF PairedBy
<1>10. Len(branchPCs) \in Nat /\ Len(branchPCs) >= 1 /\ branchPCs \in Seq(Bits)
  BY <1>4, <1>5, WaitingIs DEF IInv, TypeOK
<1>11. branchPCs[1] = rob[x.slot].bit
  BY <1>9, <1>10, WaitingIs
<1>12. branchPCs # <<>> /\ Head(branchPCs) = branchPCs[1]
  BY <1>10
<1>13. QED
  BY <1>3, <1>5, <1>7, <1>8, <1>11, <1>12

Executing == IF branchInstruction = {} THEN 0 ELSE 1
ExecSlots == {x.slot : x \in branchInstruction}

LEMMA PCsStep ==
  ASSUME IInv, BranchPCsCycle
  PROVE  /\ branchPCs' \in Seq(Bits) /\ Len(branchPCs') <= Cardinality(Bits)
         /\ Failed => branchPCs' = <<>>
         /\ ~Failed => /\ Len(branchPCs') = Len(Waiting) - Executing
                       /\ \A i \in 1 .. Len(branchPCs') : branchPCs'[i] = Waiting[i + Executing]
<1> DEFINE joined == IF pcReady # {} /\ Len(branchPCs) < Cardinality(Bits)
                     THEN Append(branchPCs, Min(pcReady)) ELSE branchPCs
<1>1. branchPCs' = IF Failed THEN <<>>
                   ELSE IF branchInstruction # {} THEN Tail(joined) ELSE joined
  BY DEF BranchPCsCycle
<1>2. /\ branchPCs \in Seq(Bits) /\ Len(branchPCs) \in Nat /\ Len(branchPCs) <= Cardinality(Bits)
      /\ Cardinality(Bits) \in Nat
  BY FS_CardinalityType DEF IInv, TypeOK
<1>3. joined = Waiting
  <2>1. CASE pcReady = {}
    BY <1>2, <2>1 DEF Waiting
  <2>2. CASE pcReady # {}
    <3>1. joined = Append(branchPCs, Min(pcReady))
      BY <2>2, RoomForBit
    <3>2. Min(pcReady) \in Bits
      BY <2>2, WaitingIs
    <3>3. Append(branchPCs, Min(pcReady)) = branchPCs \o <<Min(pcReady)>>
      BY <1>2, <3>2, AppendIsConcat
    <3>4. QED
      BY <2>2, <3>1, <3>3 DEF Waiting
  <2>3. QED
    BY <2>1, <2>2
<1> HIDE DEF joined
<1>4. Waiting \in Seq(Bits) /\ Len(Waiting) \in Nat /\ Len(Waiting) <= Cardinality(Bits)
  <2>1. pcReady # {} => Len(branchPCs) < Cardinality(Bits)
    BY RoomForBit
  <2>2. QED
    BY <1>2, <2>1, WaitingIs
<1>5. CASE Failed
  BY <1>1, <1>2, <1>5
<1>6. CASE ~Failed /\ branchInstruction = {}
  <2>1. branchPCs' = Waiting /\ Executing = 0
    BY <1>1, <1>3, <1>6 DEF Executing
  <2>2. QED
    BY <1>4, <1>6, <2>1
<1>7. CASE ~Failed /\ branchInstruction # {}
  <2>1. branchPCs' = Tail(Waiting) /\ Executing = 1
    BY <1>1, <1>3, <1>7 DEF Executing
  <2>2. PICK x \in branchInstruction : TRUE
    BY <1>7
  <2>3. PICK at \in [Unevaluated -> 1 .. InRob] : PairedBy(at)
    BY DEF IInv, BitsPaired
  <2>4. Len(Waiting) >= 1
    <3>1. InRob >= 1
      BY <2>2, <2>3, ExecutesFirst
    <3>2. QED
      BY <1>4, <3>1, WaitingIs
  <2>5. Waiting # <<>>
    BY <1>4, <2>4
  <2>6. /\ Tail(Waiting) \in Seq(Bits) /\ Len(Tail(Waiting)) = Len(Waiting) - 1
        /\ \A i \in 1 .. Len(Tail(Waiting)) : Tail(Waiting)[i] = Waiting[i + 1]
    BY <1>4, <2>5, HeadTailProperties
  <2> DEFINE Q == branchPCs'
  <2>7. /\ Q \in Seq(Bits) /\ Len(Q) = Len(Waiting) - 1
        /\ \A i \in 1 .. Len(Q) : Q[i] = Waiting[i + 1]
    BY <2>1, <2>6
  <2> HIDE DEF Q
  <2>8. /\ Q \in Seq(Bits) /\ Len(Q) <= Cardinality(Bits)
        /\ Len(Q) = Len(Waiting) - Executing
        /\ \A i \in 1 .. Len(Q) : Q[i] = Waiting[i + Executing]
    <3>1. Len(Q) <= Cardinality(Bits)
      BY <1>2, <1>4, <2>7
    <3>2. QED
      BY <2>1, <2>7, <3>1
  <2>9. QED
    BY <1>7, <2>8 DEF Q
<1>8. QED
  BY <1>5, <1>6, <1>7

LEMMA WaitingStep ==
  ASSUME IInv, NEW c \in Inputs, Cycle(c)
  PROVE  /\ Len(Waiting') = IF BranchArrives(c) THEN Len(branchPCs') + 1 ELSE Len(branchPCs')
         /\ Len(branchPCs') \in Nat
         /\ \A i \in 1 .. Len(branchPCs') : Waiting'[i] = branchPCs'[i]
         /\ BranchArrives(c) => Waiting'[Len(branchPCs') + 1] = NewBit /\ Min(pcReady') = NewBit
<1> DEFINE Q == branchPCs'
           last == IF BranchArrives(c) THEN <<NewBit>> ELSE <<>>
<1>1. Q \in Seq(Bits) /\ Len(Q) \in Nat
  BY PCsStep DEF Cycle
<1>2. /\ pcReady' = IF BranchArrives(c) THEN {NewBit} ELSE {}
      /\ BranchArrives(c) => NewBit \in Bits
  BY DecodeStep DEF Cycle
<1>3. BranchArrives(c) => Min(pcReady') = NewBit
  <2>1. BranchArrives(c) => NewBit \in Nat
    BY <1>2
  <2>2. QED
    BY <1>2, <2>1, MinSingleton
<1>4. Waiting' = Q \o last
  BY <1>2, <1>3 DEF Waiting
<1>5. last \in Seq(Bits) /\ Len(last) = IF BranchArrives(c) THEN 1 ELSE 0
  BY <1>2
<1>6. BranchArrives(c) => last[1] = NewBit
  OBVIOUS
<1> HIDE DEF last
<1>7. /\ Len(Waiting') = Len(Q) + Len(last)
      /\ \A i \in 1 .. Len(Q) + Len(last) :
            Waiting'[i] = IF i <= Len(Q) THEN Q[i] ELSE last[i - Len(Q)]
  BY <1>1, <1>4, <1>5, ConcatProperties
<1> HIDE DEF Q
<1>8. /\ Len(Waiting') = IF BranchArrives(c) THEN Len(Q) + 1 ELSE Len(Q)
      /\ \A i \in 1 .. Len(Q) : Waiting'[i] = Q[i]
      /\ BranchArrives(c) => Waiting'[Len(Q) + 1] = NewBit
  BY <1>1, <1>5, <1>6, <1>7
<1>9. QED
  BY <1>1, <1>3, <1>8 DEF Q

LEMMA UnevaluatedStep ==
  ASSUME IInv, NEW c \in Inputs, Cycle(c), "bad" \notin Kinds
  PROVE  /\ Failed => Unevaluated' = {}
         /\ ~Failed => \A t \in Slots :
               t \in Unevaluated' <=> \/ t \in Unevaluated /\ t \notin ExecSlots
                                      \/ BranchEnters(c) /\ t = writeReg
         /\ Unevaluated' \subseteq Slots
<1>0. RobCycle(c) /\ BranchCycle(c)
  BY DEF Cycle
<1>1. Unevaluated' \subseteq Open' /\ Open' \subseteq Slots
  BY DEF Unevaluated, Open
<1>2. Failed => Unevaluated' = {}
  <2>1. Failed => Open' = {}
    BY <1>0, OpenStep DEF Open
  <2>2. QED
    BY <1>1, <2>1
<1>3. ASSUME ~Failed, NEW t \in Slots
      PROVE  t \in Unevaluated' <=> \/ t \in Unevaluated /\ t \notin ExecSlots
                                    \/ BranchEnters(c) /\ t = writeReg
  <2>1. t \in Open' <=> \/ t \in Open /\ t \notin EvalSlots
                        \/ BranchEnters(c) /\ t = writeReg
    BY <1>0, <1>3, OpenBits
  <2>2. t \in Unevaluated <=> t \in Open /\ t \notin EvalSlots
    BY DEF Unevaluated, EvalSlots
  <2>3. (\E b \in branchEvals' : b.slot = t) <=> t \in ExecSlots
    <3>1. branchEvals' = {[gen |-> x.gen, slot |-> x.slot, bit |-> Head(branchPCs),
                           passed |-> c.passed] : x \in branchInstruction}
      BY <1>0, <1>3 DEF BranchCycle
    <3> DEFINE eval(x) == [gen |-> x.gen, slot |-> x.slot, bit |-> Head(branchPCs),
                           passed |-> c.passed]
    <3>2. \A x : eval(x).slot = x.slot
      OBVIOUS
    <3>3. branchEvals' = {eval(x) : x \in branchInstruction}
      BY <3>1
    <3> HIDE DEF eval
    <3>4. QED
      BY <3>2, <3>3 DEF ExecSlots
  <2>4. t \in Unevaluated' <=> t \in Open' /\ ~(\E b \in branchEvals' : b.slot = t)
    BY DEF Unevaluated
  <2>5. BranchEnters(c) /\ t = writeReg => t \notin ExecSlots
    <3> SUFFICES ASSUME BranchEnters(c), t = writeReg, NEW x \in branchInstruction, x.slot = t
                 PROVE  FALSE
      BY DEF ExecSlots
    <3>1. x \in Held("branchInstruction") /\ "branchInstruction" \in PlaceNames
      BY HeldIs DEF PlaceNames, Masked
    <3>2. Unresolved(t)
      BY <3>1 DEF IInv, FlightOwned, Owns, Fits, Unresolved
    <3>3. QED
      BY <1>0, <1>3, <3>2, OpenStep DEF BranchEnters
  <2>6. QED
    BY <2>1, <2>2, <2>3, <2>4, <2>5
<1>4. QED
  BY <1>1, <1>2, <1>3

Entering(c) == IF BranchEnters(c) THEN 1 ELSE 0

(* The bits wait in the same order, less the one that executes.           *)
LEMMA BitsMove ==
  ASSUME IInv, NEW c \in Inputs, Cycle(c), "bad" \notin Kinds, ~Failed
  PROVE  /\ Executing \in 0 .. 1 /\ Executing <= InRob /\ InRob \in Nat
         /\ InRob' = InRob - Executing + Entering(c)
         /\ \A i \in 1 .. InRob' : Waiting'[i] = Waiting[i + Executing]
         /\ BranchEnters(c) => Waiting[InRob + 1] = outBuf[1].bit
         /\ pcReady' # {} => Decoded' = {Min(pcReady')}
         /\ Decoded' # {} => Len(Waiting') > 0 /\ Waiting'[Len(Waiting')] \in Decoded'
<1> DEFINE d == Executing
           e == Entering(c)
           n == InRob
           W == Waiting
           W2 == Waiting'
           Q == branchPCs'
           D == Decoded
           D2 == Decoded'
           A == BranchArrives(c)
<1>0. RobCycle(c) /\ DecodeCycle(c) /\ BranchPCsCycle
  BY DEF Cycle
<1>1. /\ Len(Q) = Len(W) - d /\ Len(Q) \in Nat
      /\ \A i \in 1 .. Len(Q) : Q[i] = W[i + d]
  BY <1>0, PCsStep, WaitingStep
<1>2. /\ Len(W2) = IF A THEN Len(Q) + 1 ELSE Len(Q)
      /\ \A i \in 1 .. Len(Q) : W2[i] = Q[i]
      /\ A => W2[Len(Q) + 1] = NewBit /\ Min(pcReady') = NewBit
  BY WaitingStep
<1>3. /\ pcReady' = IF A THEN {NewBit} ELSE {}
      /\ A => NewBit \in Bits /\ D2 = {NewBit} /\ (outBuf = <<>> \/ allocFired(c))
      /\ ~A => D2 = IF allocFired(c) THEN {} ELSE D
  BY <1>0, DecodeStep
<1>4. /\ W \in Seq(Bits) /\ Len(W) \in Nat /\ n \in Nat
      /\ n = IF D = {} THEN Len(W) ELSE Len(W) - 1
      /\ Cardinality(D) = IF D = {} THEN 0 ELSE 1
      /\ D # {} => W[Len(W)] \in D
  BY WaitingIs DEF IInv, BitsPaired
<1>5. d \in 0 .. 1 /\ d <= n
  <2>1. CASE branchInstruction = {}
    BY <1>4, <2>1 DEF Executing
  <2>2. CASE branchInstruction # {}
    <3>1. PICK x \in branchInstruction : TRUE
      BY <2>2
    <3>2. PICK at \in [Unevaluated -> 1 .. InRob] : PairedBy(at)
      BY DEF IInv, BitsPaired
    <3>3. n >= 1
      BY <3>1, <3>2, ExecutesFirst
    <3>4. QED
      BY <2>2, <3>3 DEF Executing
  <2>3. QED
    BY <2>1, <2>2
<1>6. /\ e = 1 => D = {outBuf[1].bit} /\ D # {} /\ allocFired(c)
      /\ allocFired(c) /\ e = 0 => D = {}
      /\ e = 0 \/ e = 1
      /\ BranchEnters(c) <=> e = 1
      /\ outBuf = <<>> => e = 0 /\ D = {}
  <2>1. (e = 0 \/ e = 1) /\ (BranchEnters(c) <=> e = 1)
    BY DEF Entering
  <2>2. outBuf = <<>> => ~BranchEnters(c) /\ D = {}
    BY DecodedIs DEF BranchEnters, allocFired
  <2>3. BranchEnters(c) => allocFired(c)
    BY DEF BranchEnters
  <2>4. QED
    BY <1>0, <2>1, <2>2, <2>3, OpenBits
<1>7. Cardinality(D2) = IF D2 = {} THEN 0 ELSE 1
  <2>1. Cardinality({NewBit}) = 1 /\ Cardinality({}) = 0
    BY FS_Singleton, FS_EmptySet
  <2>2. QED
    BY <1>3, <1>4, <2>1
<1>8. InRob' = Len(W2) - Cardinality(D2)
  BY DEF InRob
<1> HIDE DEF d, e, n, W, W2, Q, D, D2, A
<1>9. InRob' = n - d + e
  <2>0. Len(Q) = Len(W) - d /\ Len(W) \in Nat /\ d \in Nat /\ e \in Nat /\ n \in Nat
    BY <1>1, <1>4, <1>5, <1>6
  <2>1. CASE A
    <3>1. Cardinality(D2) = 1 /\ Len(W2) = Len(Q) + 1
      BY <1>2, <1>3, <1>7, <2>1
    <3>2. Len(W) = n + e
      <4>1. D = {} <=> e = 0
        BY <1>3, <1>6, <2>1
      <4>2. QED
        BY <1>4, <1>6, <4>1
    <3>3. QED
      BY <1>8, <2>0, <3>1, <3>2
  <2>2. CASE ~A /\ allocFired(c)
    <3>1. Cardinality(D2) = 0 /\ Len(W2) = Len(Q)
      BY <1>2, <1>3, <1>7, <2>2
    <3>2. Len(W) = n + e
      <4>1. D = {} <=> e = 0
        BY <1>6, <2>2
      <4>2. QED
        BY <1>4, <1>6, <4>1
    <3>3. QED
      BY <1>8, <2>0, <3>1, <3>2
  <2>3. CASE ~A /\ ~allocFired(c)
    <3>1. D2 = D /\ Len(W2) = Len(Q) /\ e = 0
      BY <1>2, <1>3, <1>6, <2>3
    <3>2. QED
      BY <1>1, <1>4, <1>5, <1>8, <3>1
  <2>4. QED
    BY <2>1, <2>2, <2>3
<1>10. n + e <= Len(W) /\ (e = 1 => Len(W) = n + 1)
  BY <1>4, <1>6
<1>11. \A i \in 1 .. InRob' : W2[i] = W[i + d]
  <2> SUFFICES ASSUME NEW i \in 1 .. n - d + e PROVE W2[i] = W[i + d]
    BY <1>9
  <2>1. i \in 1 .. Len(Q)
    BY <1>1, <1>4, <1>5, <1>6, <1>10
  <2>2. QED
    BY <1>1, <1>2, <2>1
<1>12. e = 1 => W[n + 1] = outBuf[1].bit
  BY <1>4, <1>6, <1>10
<1>13. pcReady' # {} => D2 = {Min(pcReady')}
  BY <1>2, <1>3
<1>14. D2 # {} => Len(W2) > 0 /\ W2[Len(W2)] \in D2
  <2>1. CASE A
    <3>1. Len(W2) = Len(Q) + 1 /\ W2[Len(Q) + 1] = NewBit /\ D2 = {NewBit}
      BY <1>2, <1>3, <2>1
    <3>2. QED
      BY <1>1, <3>1
  <2>2. CASE ~A /\ D2 # {}
    <3>1. D2 = D /\ Len(W2) = Len(Q)
      BY <1>2, <1>3, <2>2
    <3>2. n = Len(W) - 1 /\ W[Len(W)] \in D
      BY <1>4, <2>2, <3>1
    <3>3. Len(Q) \in 1 .. Len(Q) /\ Len(Q) + d = Len(W)
      BY <1>1, <1>4, <1>5, <3>2
    <3>4. W2[Len(Q)] = W[Len(W)]
      BY <1>1, <1>2, <3>3
    <3>5. QED
      BY <1>1, <3>1, <3>2, <3>3, <3>4
  <2>3. QED
    BY <2>1, <2>2
<1>15. /\ d \in 0 .. 1 /\ d <= n /\ n \in Nat
       /\ BranchEnters(c) => W[n + 1] = outBuf[1].bit
  BY <1>4, <1>5, <1>6, <1>12
<1>16. QED
  BY <1>9, <1>11, <1>13, <1>14, <1>15 DEF d, e, n, W, W2, D2

(* After a step too, the bits and the branches pair up in order.          *)
LEMMA PairedStep ==
  ASSUME IInv, NEW c \in Inputs, Cycle(c), "bad" \notin Kinds, ~Failed
  PROVE  (\E at \in [Unevaluated -> 1 .. InRob] : PairedBy(at))'
<1> DEFINE d == Executing
           n == InRob
           n2 == InRob'
           W == Waiting
           W2 == Waiting'
           U == Unevaluated
           U2 == Unevaluated'
           E == BranchEnters(c)
           Old(t) == t \in U /\ t \notin ExecSlots
           New(t) == E /\ t = writeReg
<1>0. RobCycle(c)
  BY DEF Cycle
<1>1. PICK at \in [Unevaluated -> 1 .. InRob] : PairedBy(at)
  BY DEF IInv, BitsPaired
<1>2. /\ d \in 0 .. 1 /\ d <= n /\ n \in Nat
      /\ n2 = n - d + (IF E THEN 1 ELSE 0)
      /\ \A i \in 1 .. n2 : W2[i] = W[i + d]
      /\ E => W[n + 1] = outBuf[1].bit
  BY BitsMove DEF Entering
<1>3. /\ \A t \in Slots : t \in U2 <=> Old(t) \/ New(t)
      /\ U2 \subseteq Slots /\ U \subseteq Slots /\ U \subseteq Open
  BY UnevaluatedStep DEF Unevaluated, Open
<1>4. \A t \in U2 : ~New(t) => Old(t)
  BY <1>3
<1>5. /\ E => writeReg \in Slots /\ writeReg \notin U /\ rob'[writeReg].bit = outBuf[1].bit
      /\ \A t \in Slots : Old(t) => rob'[t].bit = rob[t].bit
  <2>1. \A t \in U : t \in Open /\ t \notin EvalSlots
    BY DEF Unevaluated, EvalSlots
  <2>2. QED
    BY <1>0, <2>1, OpenBits
<1>6. \A t \in Slots : Old(t) => at[t] \in 1 .. n /\ at[t] > d
  <2> SUFFICES ASSUME NEW t \in Slots, Old(t) PROVE at[t] \in 1 .. n /\ at[t] > d
    OBVIOUS
  <2>1. at[t] \in 1 .. n
    OBVIOUS
  <2>2. CASE branchInstruction = {}
    <3>1. d = 0
      BY <2>2 DEF Executing
    <3> HIDE DEF d, n
    <3>2. QED
      BY <2>1, <3>1
  <2>3. CASE branchInstruction # {}
    <3>1. PICK x \in branchInstruction : TRUE
      BY <2>3
    <3>2. t # x.slot /\ d = 1
      BY <2>3 DEF ExecSlots, Executing
    <3>3. at[t] > 1
      BY <1>1, <3>1, <3>2, ExecutesFirst
    <3>4. QED
      BY <2>1, <3>2, <3>3
  <2>4. QED
    BY <2>2, <2>3
<1>7. \A t \in U : at[t] > d => Old(t)
  <2> SUFFICES ASSUME NEW t \in U, at[t] > d, NEW x \in branchInstruction, x.slot = t PROVE FALSE
    BY DEF ExecSlots
  <2>1. at[t] = 1 /\ d = 1
    BY <1>1, ExecutesFirst DEF Executing
  <2> HIDE DEF d
  <2>2. QED
    BY <2>1
<1>8. /\ \A s, t \in U : Age(s) < Age(t) => at[s] < at[t]
      /\ \A i \in 1 .. n : \E s \in U : at[s] = i
      /\ \A s \in U : W[at[s]] = rob[s].bit
  BY <1>1 DEF PairedBy
<1>9. /\ \A s, t \in Slots : Old(s) /\ Old(t) => (Age(s)' < Age(t)' <=> Age(s) < Age(t))
      /\ \A s, t \in Slots : Old(s) /\ New(t) => Age(s)' < Age(t)'
      /\ \A s \in Slots : Age(s)' \in Nat
  <2>1. \A t \in Slots : Old(t) => Kept(c, t)
    <3>1. \A t \in Slots : Old(t) => Unresolved(t)
      BY DEF Unevaluated, Open
    <3>2. QED
      BY <1>0, <3>1, OpenStep
  <2>2. \A s, t \in Slots : Old(s) /\ Old(t) => (Age(s)' < Age(t)' <=> Age(s) < Age(t))
    BY <1>0, <2>1, AgesCompare
  <2>3. \A s, t \in Slots : Old(s) /\ New(t) => Age(s)' < Age(t)'
    BY <1>0, <2>1, OrderStep DEF BranchEnters
  <2>4. \A s \in Slots : Age(s)' \in Nat
    BY <1>0, AgesTyped
  <2>5. QED
    BY <2>2, <2>3, <2>4
<1> DEFINE at2 == [t \in U2 |-> IF New(t) THEN n2 ELSE at[t] - d]
<1>10. E => n2 = n - d + 1 /\ n2 \in 1 .. n2
  <2> HIDE DEF d, n, n2
  <2>1. QED
    BY <1>2
<1>11. ~E => n2 = n - d
  <2> HIDE DEF d, n, n2
  <2>1. QED
    BY <1>2
<1>12. n2 \in Nat /\ d \in Nat /\ n - d <= n2
  <2> HIDE DEF d, n, n2
  <2>1. QED
    BY <1>2
<1>13. \A t \in U2 : /\ New(t) => at2[t] = n2
                     /\ ~New(t) => at2[t] = at[t] - d /\ Old(t) /\ at[t] \in 1 .. n /\ at[t] > d
  BY <1>3, <1>4, <1>6
<1>14. \A t \in U2 : at2[t] \in 1 .. n2
  <2> SUFFICES ASSUME NEW t \in U2 PROVE at2[t] \in 1 .. n2
    OBVIOUS
  <2> HIDE DEF d, n, n2, at2
  <2>1. CASE New(t)
    BY <1>10, <1>13, <2>1
  <2>2. CASE ~New(t)
    BY <1>2, <1>12, <1>13, <2>2
  <2>3. QED
    BY <2>1, <2>2
<1>15. at2 \in [U2 -> 1 .. n2]
  <2> HIDE DEF n2
  <2>1. at2 = [t \in U2 |-> at2[t]]
    OBVIOUS
  <2> HIDE DEF at2
  <2>2. QED
    BY <1>14, <2>1
<1>16. ASSUME NEW s \in U2, NEW t \in U2, Age(s)' < Age(t)' PROVE at2[s] < at2[t]
  <2>0. s \in Slots /\ t \in Slots
    BY <1>3
  <2>1. CASE New(s) /\ New(t)
    BY <1>9, <1>16, <2>0, <2>1
  <2>2. CASE New(s) /\ ~New(t)
    <3> HIDE DEF d, n, n2, at2
    <3>1. QED
      BY <1>9, <1>13, <1>16, <2>0, <2>2
  <2>3. CASE ~New(s) /\ New(t)
    <3> HIDE DEF d, n, n2, at2
    <3>1. QED
      BY <1>2, <1>10, <1>13, <2>3
  <2>4. CASE ~New(s) /\ ~New(t)
    <3> HIDE DEF d, n, n2, at2
    <3>1. Age(s) < Age(t)
      BY <1>9, <1>13, <1>16, <2>0, <2>4
    <3>2. at[s] < at[t]
      BY <1>8, <1>13, <2>4, <3>1
    <3>3. QED
      BY <1>2, <1>13, <2>4, <3>2
  <2>5. QED
    BY <2>1, <2>2, <2>3, <2>4
<1>17. ASSUME NEW i \in 1 .. n2 PROVE \E s \in U2 : at2[s] = i
  <2>1. CASE E /\ i = n2
    <3>1. writeReg \in U2 /\ New(writeReg)
      BY <1>3, <1>5, <2>1
    <3> HIDE DEF n2, at2
    <3>2. QED
      BY <1>13, <2>1, <3>1
  <2>2. CASE ~(E /\ i = n2)
    <3>1. i + d \in 1 .. n /\ i + d > d
      <4> HIDE DEF d, n, n2
      <4>1. QED
        BY <1>2, <1>10, <1>11, <2>2
    <3>2. PICK s \in U : at[s] = i + d
      BY <1>8, <3>1
    <3>3. Old(s) /\ s \in Slots
      BY <1>3, <1>7, <3>1, <3>2
    <3>4. s \in U2 /\ ~New(s)
      BY <1>3, <1>5, <3>3
    <3> HIDE DEF d, n, n2, at2
    <3>5. at2[s] = i
      BY <1>2, <1>13, <3>2, <3>4
    <3>6. QED
      BY <3>4, <3>5
  <2>3. QED
    BY <2>1, <2>2
<1>18. ASSUME NEW s \in U2 PROVE W2[at2[s]] = rob'[s].bit
  <2>0. s \in Slots
    BY <1>3
  <2> HIDE DEF d, n, n2, at2
  <2>1. CASE New(s)
    <3>1. at2[s] = n2 /\ n2 \in 1 .. n2 /\ n2 + d = n + 1
      BY <1>2, <1>10, <1>13, <2>1
    <3>2. QED
      BY <1>2, <1>5, <2>1, <3>1
  <2>2. CASE ~New(s)
    <3>1. at2[s] + d = at[s]
      BY <1>2, <1>13, <2>2
    <3>2. W2[at2[s]] = W[at[s]]
      BY <1>2, <1>14, <3>1
    <3>3. Old(s)
      BY <1>13, <2>2
    <3>4. QED
      BY <1>5, <1>8, <2>0, <3>2, <3>3
  <2>3. QED
    BY <2>1, <2>2
<1> HIDE DEF at2
<1>19. PICK f : f = at2
  OBVIOUS
<1>20. /\ f \in [U2 -> 1 .. n2]
       /\ \A s, t \in U2 : Age(s)' < Age(t)' => f[s] < f[t]
       /\ \A i \in 1 .. n2 : \E s \in U2 : f[s] = i
       /\ \A s \in U2 : W2[f[s]] = rob'[s].bit
  BY <1>15, <1>16, <1>17, <1>18, <1>19
<1>21. PairedBy(f)'
  BY <1>20 DEF PairedBy
<1>22. QED
  BY <1>20, <1>21

LEMMA BitsPairedStep ==
  ASSUME IInv, NEW c \in Inputs, Cycle(c), "bad" \notin Kinds
  PROVE  BitsPaired'
<1>1. CASE ~Failed
  <2>1. /\ pcReady' # {} => Decoded' = {Min(pcReady')}
        /\ Decoded' # {} => Len(Waiting') > 0 /\ Waiting'[Len(Waiting')] \in Decoded'
    BY <1>1, BitsMove
  <2>2. (\E at \in [Unevaluated -> 1 .. InRob] : PairedBy(at))'
    BY <1>1, PairedStep
  <2>3. QED
    BY <2>1, <2>2 DEF BitsPaired
<1>2. CASE Failed
  <2>1. Decoded' = {} /\ pcReady' = {}
    BY <1>2, DecodeStep DEF Cycle
  <2>2. Unevaluated' = {}
    BY <1>2, UnevaluatedStep
  <2>3. Len(Waiting') = 0
    <3>1. branchPCs' = <<>>
      BY <1>2, PCsStep DEF Cycle
    <3>2. Waiting' = <<>> \o <<>>
      BY <2>1, <3>1 DEF Waiting
    <3>3. <<>> \o <<>> = <<>>
      OBVIOUS
    <3>4. QED
      BY <3>2, <3>3
  <2>4. InRob' = 0
    <3>1. Cardinality({}) = 0
      BY FS_EmptySet
    <3>2. InRob' = Len(Waiting') - Cardinality(Decoded')
      BY DEF InRob
    <3>3. QED
      BY <2>1, <2>3, <3>1, <3>2
  <2>5. PICK f : f = [s \in {} |-> 1]
    OBVIOUS
  <2>6. f \in [Unevaluated' -> 1 .. InRob']
    BY <2>2, <2>5
  <2>7. PairedBy(f)'
    BY <2>2, <2>4 DEF PairedBy
  <2>8. QED
    BY <2>1, <2>6, <2>7 DEF BitsPaired
<1>3. QED
  BY <1>1, <1>2

LEMMA BroadcastStep ==
  ASSUME IInv, NEW c \in Inputs, Cycle(c), "bad" \notin Kinds
  PROVE  BroadcastPaired'
<1>0. RobCycle(c) /\ BranchCycle(c)
  BY DEF Cycle
<1> SUFFICES ASSUME NEW b \in branchEvals' PROVE b.bit = rob'[b.slot].bit
  BY DEF BroadcastPaired
<1>1. ~Failed
  BY <1>0 DEF BranchCycle
<1>2. PICK x \in branchInstruction :
         b = [gen |-> x.gen, slot |-> x.slot, bit |-> Head(branchPCs), passed |-> c.passed]
  BY <1>0, <1>1 DEF BranchCycle
<1>3. PICK at \in [Unevaluated -> 1 .. InRob] : PairedBy(at)
  BY DEF IInv, BitsPaired
<1>4. x.slot \in Unevaluated /\ Head(branchPCs) = rob[x.slot].bit
  BY <1>3, ExecutesFirst
<1>5. x.slot \in Open /\ x.slot \notin EvalSlots
  BY <1>4 DEF Unevaluated, EvalSlots
<1>6. rob'[x.slot].bit = rob[x.slot].bit
  BY <1>0, <1>1, <1>5, OpenBits
<1>7. QED
  BY <1>2, <1>4, <1>6

-----------------------------------------------------------------------------
(***************************************************************************)
(* The registers hold one instruction each.                                *)
(***************************************************************************)

(* A register loads at most one instruction from a source of at most one. *)
LEMMA AgedOne ==
  ASSUME NEW S \in SUBSET Instr, AtMostOne(S)
  PROVE  /\ Aged(S) \subseteq Instr /\ AtMostOne(Aged(S))
         /\ Response(S) \subseteq Instr /\ AtMostOne(Response(S))
<1>1. Aged(S) \subseteq Instr /\ AtMostOne(Aged(S))
  BY SurvivorTyped DEF Aged, AtMostOne
<1>2. Response(S) \subseteq Instr
  <2>1. \A x \in Instr : [x EXCEPT !.mask = {}] \in Instr
    BY DEF Instr
  <2>2. QED
    BY <1>1, <2>1 DEF Response
<1>3. AtMostOne(Response(S))
  BY <1>1 DEF Response, AtMostOne
<1>4. QED
  BY <1>1, <1>2, <1>3

LEMMA RegistersStep ==
  ASSUME IInv, NEW c \in Inputs, Cycle(c), "bad" \notin Kinds
  PROVE  /\ \A S \in {released', toExec', aluReq', aluResp', unitResp', branchInstruction'} :
               S \subseteq Instr /\ AtMostOne(S)
         /\ units' \subseteq Instr
         /\ branchEvals' \subseteq [gen : Gens, slot : Slots, bit : Bits, passed : BOOLEAN]
         /\ AtMostOne(branchEvals')
<1>0. IssueCycle(c) /\ ReadCycle(c) /\ ExecCycle(c) /\ BranchCycle(c)
  BY DEF Cycle
<1>1. \A S \in {released, toExec, aluReq, aluResp, unitResp, branchInstruction} :
         S \subseteq Instr /\ AtMostOne(S)
  BY DEF IInv, TypeOK, OnePerRegister
<1>2. queue \in Seq(Instr) /\ units \subseteq Instr
  BY DEF IInv, TypeOK
<1>3. \A S, T : T \subseteq S /\ AtMostOne(S) => AtMostOne(T)
  BY DEF AtMostOne
<1>4. released' \subseteq Instr /\ AtMostOne(released')
  <2>1. released' = Aged(IF Dequeues(c) THEN {queue[i] : i \in Picked(c)} ELSE released)
    BY <1>0 DEF IssueCycle, Dequeues, Picked
  <2>2. Picked(c) \subseteq DOMAIN queue /\ AtMostOne(Picked(c))
    BY ChoicesTyped DEF Picked, AtMostOne
  <2>3. {queue[i] : i \in Picked(c)} \subseteq Instr
    BY <1>2, <2>2
  <2>4. AtMostOne({queue[i] : i \in Picked(c)})
    BY <2>2 DEF AtMostOne
  <2>5. QED
    BY <1>1, <2>1, <2>3, <2>4, AgedOne
<1>5. toExec' \subseteq Instr /\ AtMostOne(toExec')
  <2>1. {x \in releaseFired(c) : x.kind # "bad"} \subseteq released
    BY DEF releaseFired
  <2>2. QED
    BY <1>0, <1>1, <1>3, <2>1, AgedOne DEF ReadCycle
<1>6. /\ aluReq' \subseteq Instr /\ AtMostOne(aluReq')
      /\ branchInstruction' \subseteq Instr /\ AtMostOne(branchInstruction')
  <2>1. /\ {x \in toExec : x.kind = "alu"} \subseteq toExec
        /\ {x \in toExec : x.kind = "br"} \subseteq toExec
    OBVIOUS
  <2>2. QED
    BY <1>0, <1>1, <1>3, <2>1, AgedOne DEF ExecCycle, BranchCycle
<1>7. aluResp' \subseteq Instr /\ AtMostOne(aluResp')
  BY <1>0, <1>1, AgedOne DEF ExecCycle
<1>8. unitResp' \subseteq Instr /\ AtMostOne(unitResp')
  <2>1. c.done \subseteq Instr /\ AtMostOne(c.done)
    BY <1>2, ChoicesTyped
  <2>2. QED
    BY <1>0, <2>1, AgedOne DEF ExecCycle
<1>9. units' \subseteq Instr
  <2> DEFINE S == (units \ (c.done \cup {x \in units : commitFired(c) /\ x.kind = "store"
                                                         /\ x.slot = readReg}))
                     \cup {x \in toExec : Long(x.kind)}
  <2>1. units' = Aged(S)
    BY <1>0 DEF ExecCycle
  <2>2. S \subseteq Instr
    BY <1>1, <1>2
  <2> HIDE DEF S
  <2>3. QED
    BY <2>1, <2>2, SurvivorTyped DEF Aged
<1>10. /\ branchEvals' \subseteq [gen : Gens, slot : Slots, bit : Bits, passed : BOOLEAN]
       /\ AtMostOne(branchEvals')
  <2>1. branchEvals' = IF Failed THEN {}
                       ELSE {[gen |-> x.gen, slot |-> x.slot, bit |-> Head(branchPCs),
                              passed |-> c.passed] : x \in branchInstruction}
    BY <1>0 DEF BranchCycle
  <2>2. AtMostOne(branchEvals')
    BY <1>1, <2>1 DEF AtMostOne
  <2>3. ASSUME NEW x \in branchInstruction
        PROVE  x.gen \in Gens /\ x.slot \in Slots /\ Head(branchPCs) \in Bits
    <3>1. x \in Instr
      BY <1>1
    <3>2. PICK at \in [Unevaluated -> 1 .. InRob] : PairedBy(at)
      BY DEF IInv, BitsPaired
    <3>3. branchPCs \in Seq(Bits) /\ branchPCs # <<>>
      BY <3>2, ExecutesFirst DEF IInv, TypeOK
    <3>4. QED
      BY <3>1, <3>3 DEF Instr
  <2>4. c.passed \in BOOLEAN
    BY ChoicesTyped
  <2>5. QED
    BY <2>1, <2>2, <2>3, <2>4
<1>11. QED
  BY <1>4, <1>5, <1>6, <1>7, <1>8, <1>9, <1>10

LEMMA OneStep ==
  ASSUME IInv, NEW c \in Inputs, Cycle(c), "bad" \notin Kinds
  PROVE  OnePerRegister'
  BY RegistersStep DEF OnePerRegister

LEMMA TypeStep ==
  ASSUME IInv, NEW c \in Inputs, Cycle(c), "bad" \notin Kinds
  PROVE  TypeOK'
<1>0. RobCycle(c) /\ DecodeCycle(c) /\ BranchPCsCycle /\ IssueCycle(c)
  BY DEF Cycle
<1>1. Fifo!TypeOK'
  <2>1. rob' \in [Slots -> RobEntry]
    <3>1. rob \in [Slots -> RobEntry]
      BY DEF IInv, TypeOK, Fifo!TypeOK, Fifo!Slots, Slots
    <3>2. allocFired(c) => NewEntry \in RobEntry
      BY NewTyped
    <3>3. \A s \in Slots : (IF allocFired(c) /\ s = writeReg THEN NewEntry ELSE rob[s]) \in RobEntry
      BY <3>1, <3>2
    <3>4. \A r \in RobEntry : [r EXCEPT !.ready = TRUE] \in RobEntry
      BY DEF RobEntry
    <3>5. QED
      BY <1>0, <3>3, <3>4, FifoStep
  <2>2. QED
    BY <1>0, <2>1, OrderStep DEF Fifo!TypeOK, Fifo!Slots, Slots
<1>2. \A S \in {released', toExec', aluReq', aluResp', unitResp', branchInstruction'} :
         S \subseteq Instr /\ Cardinality(S) <= 1
  BY RegistersStep, AtMostOneCard
<1>3. /\ units' \subseteq Instr
      /\ branchEvals' \subseteq [gen : Gens, slot : Slots, bit : Bits, passed : BOOLEAN]
      /\ Cardinality(branchEvals') <= 1
  BY RegistersStep, AtMostOneCard
<1>4. /\ outBuf' \in {<<>>} \cup {<<o>> : o \in [kind : Kinds, bit : Bits]}
      /\ branchMask' \subseteq Bits /\ pcReady' \subseteq Bits
  BY <1>0, DecodeStep
<1>5. branchPCs' \in Seq(Bits) /\ Len(branchPCs') <= Cardinality(Bits)
  BY <1>0, PCsStep
<1>6. queue' \in Seq(Instr) /\ Len(queue') <= IssueDepth
  BY <1>0, QueueStep
<1>7. QED
  BY <1>1, <1>2, <1>3, <1>4, <1>5, <1>6 DEF TypeOK

-----------------------------------------------------------------------------
(***************************************************************************)
(* The invariant.                                                          *)
(***************************************************************************)

LEMMA InitOK == Init => IInv
<1> SUFFICES ASSUME Init PROVE IInv
  OBVIOUS
<1>1. Min(Bits) \in Bits /\ (CHOOSE k \in Kinds : TRUE) \in Kinds
  BY MinOf
<1>2. Fifo!TypeOK /\ Fifo!FlagsMatchPointers
  <2>1. rob \in [Slots -> RobEntry]
    BY <1>1, Sizes DEF Init, RobEntry, Gens
  <2>2. readReg = 0 /\ writeReg = 0 /\ fullReg = FALSE /\ emptyReg = TRUE
    BY DEF Init
  <2>3. Fifo!FlagsMatchPointers
    BY <2>2 DEF Fifo!FlagsMatchPointers
  <2>4. 0 \in Slots
    BY Sizes DEF Slots
  <2>5. Fifo!TypeOK
    BY <2>1, <2>2, <2>4, Zenon DEF Fifo!TypeOK, Fifo!Slots, Slots
  <2>6. QED
    BY <2>3, <2>5
<1>3. OnePerRegister
  BY DEF Init, OnePerRegister, AtMostOne
<1>4. TypeOK
  <2>1. Cardinality({}) = 0 /\ Cardinality(Bits) \in Nat
    BY FS_EmptySet, FS_CardinalityType
  <2>2. /\ branchPCs \in Seq(Bits) /\ Len(branchPCs) <= Cardinality(Bits)
        /\ queue \in Seq(Instr) /\ Len(queue) <= IssueDepth
    BY <2>1, Sizes DEF Init
  <2>3. QED
    BY <1>2, <2>1, <2>2 DEF Init, TypeOK
<1>5. \A s \in Slots : ~Live(s)
  <2>1. Fifo!occupancy = 0
    BY DEF Init, Fifo!occupancy
  <2>2. \A s \in Slots : Age(s) \in Nat
    BY <1>2, AgeIs
  <2>3. QED
    BY <2>1, <2>2 DEF Live, Age
<1>6. DOMAIN queue = {} /\ Queued = {}
  BY DEF Init, Queued
<1>7. \A w \in PlaceNames : Held(w) = {}
  BY <1>6 DEF Init, Held
<1>8. FlightOwned /\ Apart /\ UnderWay /\ BranchesInOrder
  BY <1>5, <1>7 DEF FlightOwned, Apart, UnderWay, BranchesInOrder
<1>9. QueueAged /\ MasksExact /\ BroadcastPaired
  BY <1>6 DEF Init, QueueAged, MasksExact, BroadcastPaired
<1>10. Open = {} /\ Decoded = {}
  BY <1>5 DEF Init, Open, Unresolved, Decoded
<1>11. BitsApart
  BY <1>10 DEF Init, BitsApart
<1>12. BitsPaired
  <2>1. Unevaluated = {} /\ pcReady = {}
    BY <1>10 DEF Init, Unevaluated
  <2>2. InRob = 0
    <3>1. Waiting = <<>> \o <<>>
      BY DEF Init, Waiting
    <3>2. <<>> \o <<>> = <<>>
      OBVIOUS
    <3>3. Cardinality({}) = 0
      BY FS_EmptySet
    <3>4. QED
      BY <1>10, <3>1, <3>2, <3>3 DEF InRob
  <2>3. PICK f : f = [s \in {} |-> 1]
    OBVIOUS
  <2>4. f \in [Unevaluated -> 1 .. InRob] /\ PairedBy(f)
    BY <2>1, <2>2, <2>3 DEF PairedBy
  <2>5. QED
    BY <1>10, <2>1, <2>4 DEF BitsPaired
<1>13. QED
  BY <1>2, <1>3, <1>4, <1>8, <1>9, <1>11, <1>12 DEF IInv

LEMMA CycleOK ==
  ASSUME IInv, NEW c \in Inputs, Cycle(c), "bad" \notin Kinds
  PROVE  IInv'
<1>1. Fifo!FlagsMatchPointers'
  BY OrderStep DEF Cycle
<1>2. QED
  BY <1>1, TypeStep, OneStep, FlightStep, ApartStep, QueueAgedStep, UnderWayStep, MasksStep,
     BranchOrderStep, BitsApartStep, BitsPairedStep, BroadcastStep DEF IInv

LEMMA StutterOK ==
  ASSUME IInv, UNCHANGED vars
  PROVE  IInv'
<1>0. /\ readReg' = readReg /\ writeReg' = writeReg /\ fullReg' = fullReg
      /\ emptyReg' = emptyReg /\ rob' = rob
      /\ outBuf' = outBuf /\ branchMask' = branchMask /\ pcReady' = pcReady
      /\ branchPCs' = branchPCs
      /\ queue' = queue /\ released' = released /\ toExec' = toExec
      /\ aluReq' = aluReq /\ aluResp' = aluResp /\ units' = units /\ unitResp' = unitResp
      /\ branchInstruction' = branchInstruction /\ branchEvals' = branchEvals
  BY DEF vars, robVars, decVars, pipeVars
<1>1. TypeOK' /\ Fifo!FlagsMatchPointers' /\ OnePerRegister'
  BY <1>0 DEF IInv, TypeOK, Fifo!TypeOK, Fifo!FlagsMatchPointers, OnePerRegister
<1>2. /\ \A s : (Live(s)' <=> Live(s)) /\ Age(s)' = Age(s) /\ (Unresolved(s)' <=> Unresolved(s))
      /\ Queued' = Queued
  BY <1>0 DEF Live, Age, Fifo!occupancy, Unresolved, Queued
<1>3. \A w : Held(w)' = Held(w)
  BY <1>0, <1>2 DEF Held
<1>4. \A x : Owns(x)' <=> Owns(x)
  BY <1>0, <1>2 DEF Owns
<1>5. FlightOwned' /\ Apart' /\ UnderWay' /\ BranchesInOrder'
  <2>1. FlightOwned'
    BY <1>0, <1>3, <1>4 DEF IInv, FlightOwned
  <2>2. Apart'
    BY <1>3 DEF IInv, Apart
  <2>3. UnderWay'
    BY <1>0, <1>2, <1>3 DEF IInv, UnderWay
  <2>4. BranchesInOrder'
    BY <1>0, <1>2, <1>3 DEF IInv, BranchesInOrder
  <2>5. QED
    BY <2>1, <2>2, <2>3, <2>4
<1>6. QueueAged' /\ MasksExact' /\ BroadcastPaired'
  BY <1>0, <1>2, <1>4 DEF IInv, QueueAged, MasksExact, BroadcastPaired
<1>7. Open' = Open /\ Decoded' = Decoded /\ Waiting' = Waiting
  BY <1>0, <1>2 DEF Open, Decoded, Waiting
<1>8. Unevaluated' = Unevaluated /\ InRob' = InRob
  BY <1>0, <1>7 DEF Unevaluated, InRob
<1>9. BitsApart'
  BY <1>0, <1>7 DEF IInv, BitsApart
<1>10. BitsPaired'
  <2>1. PICK at \in [Unevaluated -> 1 .. InRob] : PairedBy(at)
    BY DEF IInv, BitsPaired
  <2>2. PairedBy(at)'
    BY <1>0, <1>2, <1>7, <1>8, <2>1 DEF PairedBy
  <2>3. QED
    BY <1>0, <1>7, <1>8, <2>1, <2>2 DEF IInv, BitsPaired
<1>11. QED
  BY <1>1, <1>5, <1>6, <1>9, <1>10 DEF IInv

(* Every reachable state of a hart that fetches no illegal word satisfies   *)
(* the inductive invariant.                                                *)
THEOREM BackendInvariant ==
  ASSUME "bad" \notin Kinds
  PROVE  Spec => []IInv
<1>1. IInv /\ [Next]_vars => IInv'
  <2> SUFFICES ASSUME IInv, [Next]_vars PROVE IInv'
    OBVIOUS
  <2>1. CASE Next
    BY <2>1, CycleOK DEF Next
  <2>2. CASE UNCHANGED vars
    BY <2>2, StutterOK
  <2>3. QED
    BY <2>1, <2>2
<1>2. QED
  BY <1>1, InitOK, PTL DEF Spec

(* For any depth of ROB and issue queue and any number of branch bits, what *)
(* core.scala's branchOps squashes by is exact in every cycle: every mask   *)
(* in the pipes names the older unresolved branches and no other, and a     *)
(* resolution broadcasts the bit decode gave to that very branch, although  *)
(* bit and branch travel separately.                                       *)
THEOREM SpeculationIsExact ==
  ASSUME "bad" \notin Kinds
  PROVE  Spec => []SpeculationExact
<1>1. IInv => SpeculationExact
  BY DEF IInv, SpeculationExact
<1>2. QED
  BY <1>1, BackendInvariant, PTL

(* Whatever sets a ready bit of rob.scala in a cycle sets the one of its own *)
(* instruction, which is still in the ROB: no squash, commit or reuse of a   *)
(* slot lets a completion reach another instruction.                        *)
THEOREM CompletionsAreOwned ==
  ASSUME "bad" \notin Kinds
  PROVE  Spec => []CompletionsOwnTheirSlot
<1>1. IInv => CompletionsOwnTheirSlot
  <2> SUFFICES ASSUME IInv, NEW x \in aluResp \cup unitResp \cup branchEvals PROVE Owns(x)
    BY DEF CompletionsOwnTheirSlot
  <2>1. PICK w \in {"aluResp", "unitResp", "branchEvals"} : x \in Held(w)
    BY HeldIs
  <2>2. w \in PlaceNames
    BY DEF PlaceNames
  <2>3. QED
    BY <2>1, <2>2 DEF IInv, FlightOwned
<1>2. QED
  BY <1>1, BackendInvariant, PTL

(* A place holds the instruction of a slot once or not at all.            *)
LEMMA OnePlace ==
  ASSUME IInv, NEW s \in Slots, NEW w0 \in PlaceNames, NEW x0 \in Held(w0), x0.slot = s
  PROVE  /\ \A w \in PlaceNames : Cardinality({x \in Held(w) : x.slot = s /\ x.gen = rob[s].gen})
                                    = IF w = w0 THEN 1 ELSE 0
         /\ Cardinality({i \in DOMAIN queue : queue[i].slot = s /\ queue[i].gen = rob[s].gen})
              = IF w0 = "queue" THEN 1 ELSE 0
<1>1. x0.gen = rob[s].gen
  BY DEF IInv, FlightOwned, Owns
<1>2. \A w \in PlaceNames : \A x \in Held(w) : x.slot = s => w = w0 /\ x = x0
  BY DEF IInv, Apart
<1>3. ASSUME NEW w \in PlaceNames
      PROVE  {x \in Held(w) : x.slot = s /\ x.gen = rob[s].gen} = IF w = w0 THEN {x0} ELSE {}
  BY <1>1, <1>2
<1>4. {i \in DOMAIN queue : queue[i].slot = s /\ queue[i].gen = rob[s].gen} = {} \/ w0 = "queue"
  <2>1. \A i \in DOMAIN queue : queue[i] \in Held("queue")
    BY HeldIs DEF Queued
  <2>2. "queue" \in PlaceNames
    BY DEF PlaceNames, Masked
  <2>3. QED
    BY <1>2, <2>1, <2>2
<1>5. ASSUME w0 = "queue"
      PROVE  \E j : {i \in DOMAIN queue : queue[i].slot = s /\ queue[i].gen = rob[s].gen} = {j}
  <2>1. PICK j \in DOMAIN queue : queue[j] = x0
    BY <1>5, HeldIs DEF Queued
  <2>2. \A i \in DOMAIN queue : queue[i].slot = s => i = j
    BY <2>1, QueueDistinct
  <2>3. {i \in DOMAIN queue : queue[i].slot = s /\ queue[i].gen = rob[s].gen} = {j}
    BY <1>1, <2>1, <2>2
  <2>4. QED
    BY <2>3
<1>6. Cardinality({}) = 0 /\ \A x : Cardinality({x}) = 1
  BY FS_EmptySet, FS_Singleton
<1>7. \A w \in PlaceNames : Cardinality({x \in Held(w) : x.slot = s /\ x.gen = rob[s].gen})
                              = IF w = w0 THEN 1 ELSE 0
  BY <1>3, <1>6
<1>8. CASE w0 = "queue"
  BY <1>5, <1>6, <1>7, <1>8
<1>9. CASE w0 # "queue"
  BY <1>4, <1>6, <1>7, <1>9
<1>10. QED
  BY <1>8, <1>9

(* An instruction of the ROB that still has to complete is on its way, in   *)
(* exactly one register, queue or unit of the hart: the ROB head never      *)
(* waits for a completion that a squash, a queue that closes up or a stalled *)
(* release buffer has dropped, and no completion comes twice.               *)
THEOREM NothingIsLost ==
  ASSUME "bad" \notin Kinds
  PROVE  Spec => []NoLostInstruction
<1>1. IInv => NoLostInstruction
  <2> SUFFICES ASSUME IInv, NEW s \in Slots, Live(s), ~rob[s].ready PROVE Places(s) = 1
    BY DEF NoLostInstruction
  <2> DEFINE here(S) == Cardinality({x \in S : x.slot = s /\ x.gen = rob[s].gen})
             q == Cardinality({i \in DOMAIN queue : queue[i].slot = s /\ queue[i].gen = rob[s].gen})
  <2>1. PICK w0 \in PlaceNames : \E x \in Held(w0) : x.slot = s
    BY DEF IInv, UnderWay
  <2>2. PICK x0 \in Held(w0) : x0.slot = s
    BY <2>1
  <2>3. /\ \A w \in PlaceNames : here(Held(w)) = IF w = w0 THEN 1 ELSE 0
        /\ q = IF w0 = "queue" THEN 1 ELSE 0
    BY <2>2, OnePlace
  <2>4. Places(s) = q + here(released) + here(toExec) + here(aluReq) + here(aluResp)
                      + here(units) + here(unitResp) + here(branchInstruction) + here(branchEvals)
    BY DEF Places
  <2> HIDE DEF here, q
  <2>5. /\ here(released) = IF "released" = w0 THEN 1 ELSE 0
        /\ here(toExec) = IF "toExec" = w0 THEN 1 ELSE 0
        /\ here(aluReq) = IF "aluReq" = w0 THEN 1 ELSE 0
        /\ here(aluResp) = IF "aluResp" = w0 THEN 1 ELSE 0
        /\ here(units) = IF "units" = w0 THEN 1 ELSE 0
        /\ here(unitResp) = IF "unitResp" = w0 THEN 1 ELSE 0
        /\ here(branchInstruction) = IF "branchInstruction" = w0 THEN 1 ELSE 0
        /\ here(branchEvals) = IF "branchEvals" = w0 THEN 1 ELSE 0
    BY <2>3, HeldIs DEF PlaceNames, Masked
  <2>6. QED
    BY <2>3, <2>4, <2>5 DEF PlaceNames, Masked
<1>2. QED
  BY <1>1, BackendInvariant, PTL

(* A misprediction removes from the ROB every instruction younger than the  *)
(* branch and nothing else, whatever completes or wants to commit or enter  *)
(* in that cycle.                                                          *)
THEOREM SquashIsExact ==
  ASSUME "bad" \notin Kinds
  PROVE  Spec => SquashExact
<1>1. IInv /\ [Next]_vars =>
        [Failed => \A s \in Slots : Live(s)' <=> Live(s) /\ Age(s) <= Age(rollbackSlot)]_vars
  <2> SUFFICES ASSUME IInv, Next, Failed, NEW s \in Slots
               PROVE  Live(s)' <=> Live(s) /\ Age(s) <= Age(rollbackSlot)
    OBVIOUS
  <2>1. PICK c \in Inputs : RobCycle(c)
    BY DEF Next, Cycle
  <2>2. ~allocFired(c)
    BY FailureFreezes
  <2>3. QED
    BY <2>1, <2>2, OrderStep DEF Kept
<1>2. QED
  BY <1>1, BackendInvariant, PTL DEF Spec, SquashExact
=============================================================================
