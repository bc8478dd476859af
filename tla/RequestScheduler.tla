------------------------- MODULE RequestScheduler -------------------------
(***************************************************************************)
(* The data cache's entrance: requestScheduler of Dcache/                  *)
(* requestScheduler.scala with its two queues (BranchFifo), and the stages *)
(* of core.scala between issue and the queues.  The queues accept without  *)
(* a handshake: the only back-pressure, canAllocate, is sampled at issue,  *)
(* Shadow registers upstream.                                              *)
(*                                                                         *)
(* The surroundings are any: requests depend on any branches, any branch   *)
(* resolves, and the arbiter takes what it likes.                          *)
(***************************************************************************)
EXTENDS Integers, Sequences, SequencesExt

CONSTANTS Depth,     \* schedulerDepth, 16
          Reserve,   \* reserveSlots, 5
          Shadow,    \* registers from issue to the queues, 4
          Bits, Dwords

ASSUME RequestAssumption ==
  /\ Depth \in Nat /\ Depth >= 2
  /\ Reserve \in Nat /\ Shadow \in Nat \ {0}
  /\ Shadow <= Reserve /\ Reserve < Depth

VARIABLES
  shadow,      \* releasedBuffer, prf.toExec, addressGenerationInput, memoryRequest
  branchOps,   \* the resolution being broadcast
  inRead, inWrite, inEmpty, inFull, inMem,   \* inorderQueue
  spRead, spWrite, spEmpty, spFull, spMem,   \* speculativeQueue
  route        \* history: each waiting request by arrival, its queue and place in it

vars == <<shadow, branchOps, inRead, inWrite, inEmpty, inFull, inMem,
          spRead, spWrite, spEmpty, spFull, spMem, route>>

Body == [kind : {"load", "op"}, dword : Dwords]

inorderQueue == INSTANCE BranchFifo WITH
  readPtr <- inRead, writePtr <- inWrite, emptyReg <- inEmpty, fullReg <- inFull,
  memReg <- inMem, Bodies <- Body

speculativeQueue == INSTANCE BranchFifo WITH
  readPtr <- spRead, writePtr <- spWrite, emptyReg <- spEmpty, fullReg <- spFull,
  memReg <- spMem, Bodies <- Body

Request == inorderQueue!Request
AtMostOne(S) == {{}} \cup {{x} : x \in S}

(* requestIn, with this cycle's resolution already applied once. *)
requestIn == {inorderQueue!MoveUpdate(r, branchOps) : r \in shadow[Shadow]}

(* The address check looks at every slot ever written, live or not. *)
matchFound(r) == \E i \in DOMAIN inMem : \E e \in inMem[i] : e.body.dword = r.body.dword

(* A main-memory load goes to the speculative queue unless an in-order      *)
(* request to its dword is found; everything else is in order.              *)
toSpeculative == {r \in requestIn : r.body.kind = "load" /\ ~matchFound(r)}

(* The head of a queue is resolved or invalidated. *)
MayGo(data) == \E r \in data : r.mask = {} \/ ~r.live

specFirst == MayGo(speculativeQueue!readData(branchOps))
inorderGoes == MayGo(inorderQueue!readData(branchOps))

readInorder(c) == c.inorderReady /\ inorderGoes /\ ~(c.speculativeReady /\ specFirst)

readSpeculative(c) ==
  /\ c.speculativeReady /\ ~spEmpty
  /\ c.inorderReady => specFirst \/ ~inorderGoes

(* Faulty: back-pressure from write.ready alone, as before hasHeadroom. *)
CanAllocateNotFull == ~inFull /\ ~spFull

canAllocate == /\ inorderQueue!occupancy < Depth - Reserve
               /\ speculativeQueue!occupancy < Depth - Reserve

(* The pipeline in front of the queues drops what a failed branch kills. *)
Advance(S) == {r \in {inorderQueue!MoveUpdate(x, branchOps) : x \in S} : r.live}

ShadowCycle(c) ==
  /\ c.issue # {} => canAllocate
  /\ shadow' = [k \in 1 .. Shadow |-> IF k = 1 THEN c.issue ELSE Advance(shadow[k - 1])]

InorderCycle(c) ==
  inorderQueue!Cycle([write |-> requestIn \ toSpeculative, read |-> readInorder(c),
                      ops |-> branchOps])

SpeculativeCycle(c) ==
  speculativeQueue!Cycle([write |-> toSpeculative, read |-> readSpeculative(c),
                          ops |-> branchOps])

(* The history variable follows what the queues do: the head of one queue   *)
(* leaves and the rest of that queue moves up; what arrives comes last.     *)
RouteCycle(c) ==
  LET from == IF readInorder(c) THEN "in" ELSE IF readSpeculative(c) THEN "sp" ELSE "none"
      head == CHOOSE k \in DOMAIN route : route[k] = [queue |-> from, pos |-> 1]
      up(e) == IF e.queue = from THEN [e EXCEPT !.pos = @ - 1] ELSE e
      kept == IF from = "none" THEN route
              ELSE [k \in 1 .. Len(route) - 1 |-> up(route[IF k < head THEN k ELSE k + 1])]
  IN route' = IF toSpeculative # {}
              THEN (IF spFull THEN kept
                    ELSE Append(kept, [queue |-> "sp", pos |-> speculativeQueue!occupancy']))
              ELSE IF requestIn = {} \/ inFull THEN kept
              ELSE Append(kept, [queue |-> "in", pos |-> inorderQueue!occupancy'])

Init == /\ shadow = [k \in 1 .. Shadow |-> {}]
        /\ branchOps = {}
        /\ inorderQueue!Init /\ speculativeQueue!Init
        /\ route = <<>>

Inputs == [issue : AtMostOne([body : Body, live : {TRUE}, mask : SUBSET Bits]),
           inorderReady : BOOLEAN, speculativeReady : BOOLEAN]

Cycle(c) == /\ ShadowCycle(c)
            /\ InorderCycle(c)
            /\ SpeculativeCycle(c)
            /\ RouteCycle(c)
            /\ branchOps' \in inorderQueue!BranchOps

Next == \E c \in Inputs : Cycle(c)

Spec == Init /\ [][Next]_vars
-----------------------------------------------------------------------------
(* Every register holds a value of its type. *)
TypeOK == /\ shadow \in [1 .. Shadow -> AtMostOne(Request)]
          /\ branchOps \in inorderQueue!BranchOps
          /\ inorderQueue!FifoTypeOK /\ speculativeQueue!FifoTypeOK
          /\ route \in Seq([queue : {"in", "sp"}, pos : 1 .. Depth])

(* No request is dropped: when one arrives, neither queue is full.  The     *)
(* enqueue of requestScheduler.scala has no retry, so a request that met a  *)
(* full queue would leave its ROB entry waiting for ever (fifo.scala:25-42).*)
NoRequestDropped == shadow[Shadow] # {} => ~inFull /\ ~spFull

(* The list of waiting requests by arrival, put together from both queues.  *)
Waiting(e) == LET r == IF e.queue = "in" THEN inorderQueue!Window[e.pos]
                       ELSE speculativeQueue!Window[e.pos]
              IN IF r.live THEN r ELSE [r EXCEPT !.mask = {}]

Order == INSTANCE RequestOrder WITH
  list <- [k \in DOMAIN route |-> Waiting(route[k])], arriving <- shadow[Shadow]

(* The two queues together are one list from which nothing is lost, in      *)
(* which no load overtakes an older op to its dword and ops keep their      *)
(* order, and where a misprediction marks exactly its dependants; pointers  *)
(* and flags of both queues stay consistent on the way.                     *)
ImplementsOrder == Order!Spec /\ []TypeOK
=============================================================================
