------------------------------ MODULE Backend ------------------------------
(***************************************************************************)
(* The speculative back end of one hart (core.scala): decode's branch bits *)
(* (Decode/decode.scala), the reorder buffer (Backend/Rob/rob.scala over   *)
(* pipeline/Fifo.scala), the issue queue with its release buffer           *)
(* (Backend/Scheduler/scheduler.scala), the register-read stage            *)
(* (Backend/Prf/PRF.scala) and the execution pipes.  One step is one clock *)
(* cycle of all of them.                                                   *)
(*                                                                         *)
(* A pipeline register is the set of the instructions in it (at most one). *)
(* An instruction in flight carries the ROB slot it will report to, and    *)
(* the bits of the unresolved branches it depends on.  Operands, results   *)
(* and addresses are abstracted: an operand may become ready in any cycle, *)
(* a prediction may turn out right or wrong.  `gen` is a ghost that tells   *)
(* apart the instructions which hold the same ROB slot one after another;  *)
(* the hardware has no such field, which is why a completion can reach a   *)
(* slot that has changed hands.                                            *)
(***************************************************************************)
EXTENDS Integers, Sequences, FiniteSets, FiniteSetsExt

CONSTANTS Depth,        \* ROB slots (2^robAddrWidth)
          Bits,         \* branch bits, branchMaskWidth of them
          IssueDepth,   \* instrIssueDepth
          MaxGen,       \* bound on the ghost generations of a slot
          Kinds         \* instruction classes fetched in this instance

ASSUME BackendAssumption ==
  /\ Depth \in Nat /\ Depth >= 2
  /\ Bits \subseteq Nat /\ IsFiniteSet(Bits) /\ Bits # {}
  /\ IssueDepth \in Nat \ {0}
  /\ MaxGen \in Nat \ {0}
  /\ Kinds # {}
  /\ Kinds \subseteq {"alu", "br", "load", "amo", "mext", "store", "lui", "bad"}

VARIABLES
  readReg, writeReg, fullReg, emptyReg, rob,  \* the ROB's circular buffer
  outBuf,      \* decode's output buffer
  branchMask,  \* branchBuffer.branchMask: bits of the unresolved branches
  pcReady,     \* branchBuffer.branchPCReady with branchPCMask
  branchPCs,   \* bits of the branches that have not reached execute, in order
  queue,       \* issue queue, oldest first
  released,    \* scheduler.releasedBuffer
  toExec,      \* prf.toExec
  aluReq, aluResp,         \* singleCycleArithmeticRequest / Response
  units, unitResp,         \* memory and M extension, and their response register
  branchInstruction, branchEvals

robVars == <<readReg, writeReg, fullReg, emptyReg, rob>>
decVars == <<outBuf, branchMask, pcReady, branchPCs>>
pipeVars == <<queue, released, toExec, aluReq, aluResp, units, unitResp,
              branchInstruction, branchEvals>>
vars == <<robVars, decVars, pipeVars>>

Slots == 0 .. Depth - 1
Gens == 0 .. MaxGen

RobEntry == [gen : Gens, kind : Kinds, ready : BOOLEAN, bit : Bits]
Instr == [gen : Gens, kind : Kinds, slot : Slots, mask : SUBSET Bits]

Fifo == INSTANCE RobFifo WITH memReg <- rob, Entry <- RobEntry, NumWritePorts <- 5

Long(k) == k \in {"load", "amo", "mext", "store"}
MemAccess(k) == k \in {"load", "amo", "store", "bad"}
StoreData(k) == k \in {"amo", "store"}

(***************************************************************************)
(* branchOps: the resolution that branchEvals broadcasts in this cycle.    *)
(***************************************************************************)
Resolved == {b.bit : b \in branchEvals}
Failed == \E b \in branchEvals : ~b.passed

Killed(x) == Failed /\ x.mask \cap Resolved # {}

(* Faulty: the XOR without the overlap guard, which sets a bit it should    *)
(* have left alone (core.scala:126-137 and scheduler.scala:148-154 record   *)
(* this defect at two sites).                                               *)
SurvivorUnguardedXor(x) == [x EXCEPT !.mask = (@ \ Resolved) \cup (Resolved \ @)]

Survivor(x) == [x EXCEPT !.mask = @ \ Resolved]

(* What a pipeline register loads from a source stage this cycle: a failed  *)
(* branch removes its dependants, a passed one only its bit.                *)
Aged(S) == {Survivor(x) : x \in {y \in S : ~Killed(y)}}

(* A queue closes up over the entries that leave it: of the indices K that   *)
(* stay, the j-th is the one at or below which there are j of them.         *)
Nth(K, j) == CHOOSE i \in K : Cardinality({k \in K : k <= i}) = j

AgedSeq(s, stay) ==
  LET left == {i \in stay : ~Killed(s[i])}
  IN  [j \in 1 .. Cardinality(left) |-> Survivor(s[Nth(left, j)])]

(***************************************************************************)
(* The ROB's head and tail.                                                *)
(***************************************************************************)
head == rob[readReg]

rollbackSlot == IF branchEvals = {} THEN 0 ELSE (CHOOSE b \in branchEvals : TRUE).slot

(* Faulty: the ROB resolves but does not roll back. *)
NoRollback == [modify |-> FALSE, modifyVal |-> rollbackSlot]

(* The FIFO inputs that decide whether the head is valid. *)
Rollback == [modify |-> Failed, modifyVal |-> rollbackSlot]

(* Faulty: a store at the head waits for a completion, which none sends. *)
CommitWaitsForStore == Fifo!deqValid(Rollback) /\ head.ready

commitReady == /\ Fifo!deqValid(Rollback)
               /\ head.ready \/ head.kind \in {"store", "bad"}

(* A store or an AMO also waits for the data cache (core.scala:997). *)
commitFired(c) == commitReady /\ (StoreData(head.kind) => c.storeOK)

(* rob.scala:164-170: a head that waits freezes allocation, except of       *)
(* other instructions behind a waiting store.                               *)
frozen(c) ==
    /\ commitReady /\ ~commitFired(c)
    /\ writeReg = readReg \/ head.kind # "store" \/ StoreData(outBuf[1].kind)

(* decode, ROB, scheduler and store-data queue take an instruction together. *)
allocFired(c) ==
    /\ outBuf # <<>> /\ ~Failed
    /\ Len(queue) < IssueDepth
    /\ ~fullReg \/ commitFired(c)
    /\ ~frozen(c)
    /\ StoreData(outBuf[1].kind) => c.dataOK

(* Faulty: the resolution of this very cycle is missed. *)
AllocMaskStale == branchMask

allocMask == branchMask \ Resolved

Queued == {queue[i] : i \in DOMAIN queue}

InFlight == Queued \cup released \cup toExec \cup aluReq \cup aluResp \cup units
              \cup unitResp \cup branchInstruction

Live(s) == Fifo!Dist(readReg, s) < Fifo!occupancy

(* The next holder of the slot at the tail is told apart from whatever still *)
(* carries that slot number.                                                *)
freshGen == Min(Gens \ {x.gen : x \in {y \in InFlight \cup branchEvals : y.slot = writeReg}})

(***************************************************************************)
(* One clock cycle, part by part.  The choices c it leaves open: the class *)
(* of the instruction that reaches decode's output buffer (arrival),       *)
(* whether the data cache lets a store commit (storeOK), whether the       *)
(* store-data queue has room (dataOK), whether the M unit accepts (mReady),*)
(* which queue entry is the oldest ready one (sel, 0 for none), which long *)
(* operation finishes (done), and whether the branch being evaluated was   *)
(* predicted correctly (passed).                                           *)
(***************************************************************************)

(* The ROB: allocate, commit, rollback, ready bits, reset on a trap. *)
RobCycle(c) ==
  LET fired == commitFired(c)
      alloc == allocFired(c)
      entry == [gen |-> freshGen, kind |-> outBuf[1].kind,
                ready |-> outBuf[1].kind = "lui", bit |-> outBuf[1].bit]
      next(s) == IF alloc /\ s = writeReg THEN entry ELSE rob[s]
      done == {x.slot : x \in aluResp \cup unitResp \cup branchEvals}
  IN Fifo!Cycle([enqValid |-> alloc, bits |-> next(writeReg), deqReady |-> fired,
                 modify |-> Rollback.modify, modifyVal |-> Rollback.modifyVal,
                 flushAll |-> FALSE, reset |-> fired /\ head.kind = "bad",
                 writes |-> [s \in done |-> [next(s) EXCEPT !.ready = TRUE]]])

(* Decode's output buffer and its branch bits.  A branch takes the lowest   *)
(* free bit, and never in a cycle in which another one resolves.            *)
freeBits == Bits \ branchMask

DecodeCycle(c) ==
  LET accepts == ~Failed /\ (outBuf = <<>> \/ allocFired(c))
      taken == IF c.arrival = <<"br">> THEN {Min(freeBits)} ELSE {}
  IN /\ c.arrival # <<>> => accepts
     /\ c.arrival = <<"br">> => branchEvals = {} /\ freeBits # {}
     /\ outBuf' = IF accepts
                  THEN [i \in DOMAIN c.arrival |->
                          [kind |-> c.arrival[i], bit |-> Min(IF taken = {} THEN Bits ELSE taken)]]
                  ELSE IF Failed THEN <<>> ELSE outBuf
     /\ branchMask' = IF Failed THEN {} ELSE (branchMask \ Resolved) \cup taken
     /\ pcReady' = taken

(* The queue that pairs a resolving branch with its bit. *)
BranchPCsCycle ==
  LET joined == IF pcReady # {} /\ Len(branchPCs) < Cardinality(Bits)
                THEN Append(branchPCs, Min(pcReady)) ELSE branchPCs
  IN branchPCs' = IF Failed THEN <<>>
                  ELSE IF branchInstruction # {} THEN Tail(joined)
                  ELSE joined

(* Entries that may be the oldest ready one: branches and memory accesses   *)
(* only behind no older one of their class.                                 *)
Selectable ==
  {i \in DOMAIN queue :
     /\ queue[i].kind = "br" => \A j \in 1 .. i - 1 : queue[j].kind # "br"
     /\ MemAccess(queue[i].kind) => \A j \in 1 .. i - 1 : ~MemAccess(queue[j].kind)}

releaseFired(c) == {x \in released : x.kind = "mext" => c.mReady}

(* The issue queue and its release buffer. *)
IssueCycle(c) ==
  LET dequeue == released = {} \/ releaseFired(c) # {}
      picked == IF dequeue /\ c.sel # 0 THEN {c.sel} ELSE {}
      new == IF allocFired(c) /\ outBuf[1].kind # "lui"
             THEN <<[gen |-> freshGen, kind |-> outBuf[1].kind, slot |-> writeReg,
                     mask |-> allocMask]>>
             ELSE <<>>
  IN /\ queue' = AgedSeq(queue, DOMAIN queue \ picked) \o new
     /\ released' = Aged(IF dequeue THEN {queue[i] : i \in picked} ELSE released)

(* The register-read stage; a word that is no instruction stops here. *)
ReadCycle(c) == toExec' = Aged({x \in releaseFired(c) : x.kind # "bad"})

(* Faulty: the squash is not applied on the way into the response register. *)
ResponseUnsquashed(S) == {[x EXCEPT !.mask = {}] : x \in S}

(* Response registers carry no mask: what is in them is not squashed. *)
Response(S) == {[x EXCEPT !.mask = {}] : x \in Aged(S)}

(* The execution pipes.  Memory and the M extension hold an instruction for *)
(* any number of cycles; a store leaves when it commits.                    *)
ExecCycle(c) ==
  LET stored == {x \in units : commitFired(c) /\ x.kind = "store" /\ x.slot = readReg}
  IN /\ aluReq' = Aged({x \in toExec : x.kind = "alu"})
     /\ aluResp' = Response(aluReq)
     /\ units' = Aged((units \ (c.done \cup stored)) \cup {x \in toExec : Long(x.kind)})
     /\ unitResp' = Response(c.done)

(* Branch evaluation: two registers between register read and broadcast. *)
BranchCycle(c) ==
  /\ branchInstruction' = Aged({x \in toExec : x.kind = "br"})
  /\ branchEvals' = IF Failed THEN {}
                    ELSE {[gen |-> x.gen, slot |-> x.slot, bit |-> Head(branchPCs),
                           passed |-> c.passed] : x \in branchInstruction}

Cycle(c) ==
  /\ RobCycle(c)
  /\ DecodeCycle(c)
  /\ BranchPCsCycle
  /\ IssueCycle(c)
  /\ ReadCycle(c)
  /\ ExecCycle(c)
  /\ BranchCycle(c)

Init ==
  /\ readReg = 0 /\ writeReg = 0 /\ fullReg = FALSE /\ emptyReg = TRUE
  /\ rob = [s \in Slots |-> [gen |-> 0, kind |-> CHOOSE k \in Kinds : TRUE,
                             ready |-> FALSE, bit |-> Min(Bits)]]
  /\ outBuf = <<>> /\ branchMask = {} /\ pcReady = {} /\ branchPCs = <<>>
  /\ queue = <<>> /\ released = {} /\ toExec = {}
  /\ aluReq = {} /\ aluResp = {} /\ units = {} /\ unitResp = {}
  /\ branchInstruction = {} /\ branchEvals = {}

(* The data cache offers the commit of the store it holds for the ROB head. *)
dcacheReady == head.kind = "amo" \/ \E x \in units : x.kind = "store" /\ x.slot = readReg

(* The choices that make a difference in this cycle. *)
Inputs ==
  [arrival : {<<>>} \cup {<<k>> : k \in Kinds},
   storeOK : {FALSE, dcacheReady},
   dataOK : IF outBuf # <<>> /\ StoreData(outBuf[1].kind) THEN BOOLEAN ELSE {TRUE},
   mReady : IF \E x \in released : x.kind = "mext" THEN BOOLEAN ELSE {TRUE},
   sel : {0} \cup Selectable,
   done : {{}} \cup {{x} : x \in {y \in units : y.kind # "store"}},
   passed : IF branchInstruction = {} THEN {TRUE} ELSE BOOLEAN]

Next == \E c \in Inputs : Cycle(c)

Spec == Init /\ [][Next]_vars

(***************************************************************************)
(* Fairness.  The clock ticks.  The oldest entry of the issue queue has    *)
(* only older producers, and its operand-ready bits stay set, so it is     *)
(* eventually picked; the M unit, the memory and the data cache answer.    *)
(***************************************************************************)
Issues(c) == c.sel = 1 /\ c.mReady
Fairness ==
  /\ WF_vars(\E c \in Inputs : Issues(c) /\ Cycle(c))
  /\ WF_vars(\E c \in Inputs : c.mReady /\ Cycle(c))
  /\ WF_vars(\E c \in Inputs : c.storeOK /\ Cycle(c))
  /\ \A s \in Slots : WF_vars(\E c \in Inputs : (\E x \in c.done : x.slot = s) /\ Cycle(c))

FairSpec == Spec /\ Fairness
-----------------------------------------------------------------------------
(***************************************************************************)
(* Properties                                                              *)
(***************************************************************************)

(* Every register holds what it can hold, and one instruction at a time. *)
TypeOK ==
  /\ Fifo!TypeOK
  /\ outBuf \in {<<>>} \cup {<<o>> : o \in [kind : Kinds, bit : Bits]}
  /\ branchMask \subseteq Bits /\ pcReady \subseteq Bits
  /\ branchPCs \in Seq(Bits) /\ Len(branchPCs) <= Cardinality(Bits)
  /\ queue \in Seq(Instr) /\ Len(queue) <= IssueDepth
  /\ \A S \in {released, toExec, aluReq, aluResp, unitResp, branchInstruction} :
        S \subseteq Instr /\ Cardinality(S) <= 1
  /\ units \subseteq Instr
  /\ branchEvals \subseteq [gen : Gens, slot : Slots, bit : Bits, passed : BOOLEAN]
  /\ Cardinality(branchEvals) <= 1

Owns(x) == Live(x.slot) /\ rob[x.slot].gen = x.gen

(* VERIFICATION.md's READY-OUTSIDE-ROB-WINDOW: no port readies a ROB slot   *)
(* that is not allocated.  The trap of an illegal word breaks it, since it  *)
(* empties the ROB but not the pipes (rob.scala:143-146).                   *)
ReadyInsideRobWindow == \A x \in aluResp \cup unitResp \cup branchEvals : Live(x.slot)

(* The same assertion, and the ownership rob.scala does not check: whatever *)
(* sets a ready bit in this cycle sets the one of its own instruction,      *)
(* which is still in the ROB.                                               *)
CompletionsOwnTheirSlot == \A x \in aluResp \cup unitResp \cup branchEvals : Owns(x)

(* Nothing is lost: an instruction in the ROB that still has to complete is *)
(* somewhere on the way, in exactly one place.  Otherwise the ROB head      *)
(* would wait for ever.                                                     *)
Places(s) ==
  LET here(S) == Cardinality({x \in S : x.slot = s /\ x.gen = rob[s].gen})
  IN Cardinality({i \in DOMAIN queue : queue[i].slot = s /\ queue[i].gen = rob[s].gen})
     + here(released) + here(toExec) + here(aluReq) + here(aluResp) + here(units)
     + here(unitResp) + here(branchInstruction) + here(branchEvals)

NoLostInstruction ==
  \A s \in Slots : Live(s) /\ ~rob[s].ready /\ rob[s].kind # "bad" => Places(s) = 1

(* An instruction in the pipes depends on exactly the unresolved branches   *)
(* that are older than it (and on itself if it is one): a missing bit lets  *)
(* a wrong-path instruction survive, a spurious one kills a right-path one. *)
Age(s) == Fifo!Dist(readReg, s)

Unresolved(s) == Live(s) /\ rob[s].kind = "br" /\ ~rob[s].ready

MasksExact ==
  \A x \in Queued \cup released \cup toExec \cup aluReq \cup units \cup branchInstruction :
     x.mask = {rob[s].bit : s \in {t \in Slots : Unresolved(t) /\ Age(t) <= Age(x.slot)}}

(* A resolution broadcasts the bit that decode gave to that very branch,    *)
(* although bit and branch travel separately (branchPCs, branchInstruction).*)
BroadcastPaired ==
  \A b \in branchEvals : Owns(b) => b.bit = rob[b.slot].bit

(* What a squash goes by is right in every cycle: the masks of all pipeline *)
(* registers name exactly the older unresolved branches, and a resolution   *)
(* carries its own branch's bit, through every combination of allocation,   *)
(* resolution and commit; the registers hold one instruction each.          *)
SpeculationExact == TypeOK /\ MasksExact /\ BroadcastPaired

(* A misprediction removes from the ROB every instruction younger than the  *)
(* branch and nothing else, whatever commits or completes in that cycle.    *)
SquashExact ==
  [][Failed => \A s \in Slots : Live(s)' <=> Live(s) /\ Age(s) <= Age(rollbackSlot)]_vars

(* The wedge of the repository's bug history: the ROB head, whatever it is, *)
(* eventually retires.                                                      *)
HeadRetires == \A s \in Slots : ~emptyReg /\ readReg = s ~> readReg # s
=============================================================================
