------------------------------- MODULE Rename -------------------------------
(***************************************************************************)
(* Register renaming in Decode/decode.scala: decode's input and output     *)
(* buffers, the front-end and the architectural map, the free list, the    *)
(* valid list, and one checkpoint of all three per unresolved branch.      *)
(* One step is one clock cycle, because the order in which the writers of  *)
(* a list win within a cycle is where renaming goes wrong.                 *)
(*                                                                         *)
(* `inFlight` stands for the reorder buffer and the pipes: instructions in *)
(* program order with their destinations.  Branches resolve in order       *)
(* (scheduler.scala), and nothing retires in the cycle of a misprediction  *)
(* (Fifo.scala deqValid).                                                  *)
(***************************************************************************)
EXTENDS Integers, Sequences, FiniteSets, FiniteSetsExt

CONSTANTS regCount,      \* architectural registers, 0 is x0
          PRFCount,      \* physical registers; the last one is never used
          nCheckpoints,  \* branchMaskWidth
          RobDepth,      \* entries of the reorder buffer
          Kinds          \* instruction classes of this instance

(* "op" wakes its readers early from the issue queue, "long" is a load or an *)
(* M operation, "lui" and "jal" produce their result in decode, "br" and     *)
(* "jal" take a checkpoint.                                                  *)
ASSUME RenameAssumption ==
  /\ regCount \in Nat \ {0} /\ PRFCount \in Nat /\ PRFCount > regCount + 1
  /\ nCheckpoints \in Nat \ {0} /\ RobDepth \in Nat \ {0}
  /\ Kinds \subseteq {"op", "long", "lui", "br", "jal"}

VARIABLES
  inputBuffer, outputBuffer,              \* sets of at most one instruction
  inFlight,                               \* allocated and not retired
  frontEndRegMap, architecturalRegMap,
  PRFFreeList, PRFValidList,              \* sets of physical registers
  reservedRegMap, reservedFreeList, reservedValidList,
  branchTracker,                          \* checkpoints in use
  instrRetired                            \* early wake-up of the issue queue, one cycle late

listVars == <<PRFFreeList, PRFValidList, reservedRegMap, reservedFreeList, reservedValidList>>
vars == <<inputBuffer, outputBuffer, inFlight, frontEndRegMap, architecturalRegMap,
          listVars, branchTracker, instrRetired>>

Regs == 0 .. regCount - 1
PRF == 0 .. PRFCount - 1
Checkpoints == 0 .. nCheckpoints - 1

Decoded == {x \in [kind : Kinds, rd : Regs] : x.kind = "br" => x.rd = 0}
Renamed == [kind : Kinds, rd : Regs, prf : PRF]
Issued == [kind : Kinds, rd : Regs, prf : PRF, done : BOOLEAN]

Cfi(x) == x.kind \in {"br", "jal"}
Writes(x) == x.kind # "br" /\ x.rd # 0
AtDecode(x) == x.kind \in {"lui", "jal"}

(***************************************************************************)
(* Inputs of a cycle: the instruction fetch offers (none or one), whether  *)
(* the back end takes the output buffer, which instruction in flight is    *)
(* issued or, for a long one, answers (0 for none), whether the oldest     *)
(* retires, the resolution of the oldest branch, and a source register of  *)
(* the instruction in the input buffer, where it makes a difference.       *)
(***************************************************************************)
Unresolved == {i \in DOMAIN inFlight : Cfi(inFlight[i]) /\ ~inFlight[i].done}
Oldest == Min(Unresolved)

failed(in) == in.branch = "fail"
fired(in) == in.branch # "none"

freeRegAddr == IF PRFFreeList = {} THEN PRFCount - 1 ELSE Min(PRFFreeList)

Retirable == inFlight # <<>> /\ inFlight[1].done /\ inFlight[1].prf \notin instrRetired

Input ==
  {in \in [fetch : {{}} \cup {{x} : x \in Decoded}, takes : BOOLEAN,
           executes : {0} \cup {i \in DOMAIN inFlight : ~Cfi(inFlight[i]) /\ ~inFlight[i].done},
           retires : {FALSE, Retirable},
           branch : IF Unresolved = {} THEN {"none"} ELSE {"none", "pass", "fail"},
           rs : IF \E r \in Regs : frontEndRegMap[r] = freeRegAddr THEN Regs ELSE {0}] :
     /\ in.takes => outputBuffer # {} /\ (Len(inFlight) < RobDepth \/ in.retires)
     /\ failed(in) => ~in.retires /\ ~in.takes /\ in.fetch = {}}

(***************************************************************************)
(* The buffers and their stalls.                                           *)
(***************************************************************************)
cfiMaskOccupied ==
  Cardinality(Unresolved) + Cardinality({x \in outputBuffer : Cfi(x)}) >= nCheckpoints

(* A source that is mapped to the register about to be allocated. *)
freeClrCollide(in) == {frontEndRegMap[in.rs]} \cap {freeRegAddr}

stall(in) == \/ freeRegAddr = PRFCount - 1
             \/ \E x \in inputBuffer : Cfi(x) /\ cfiMaskOccupied
             \/ freeClrCollide(in) # {}

(* The instruction that moves from the input to the output buffer. *)
transfers(in) == {x \in inputBuffer : /\ ~failed(in) /\ ~stall(in)
                                      /\ outputBuffer = {} \/ in.takes
                                      /\ ~(fired(in) /\ Cfi(x))}

allocated(in) == IF \E x \in transfers(in) : Writes(x) THEN {freeRegAddr} ELSE {}

Buffers(in) ==
  /\ in.fetch # {} => inputBuffer = {} \/ transfers(in) # {}
  /\ inputBuffer' = IF failed(in) THEN {}
                    ELSE IF in.fetch # {} \/ transfers(in) # {} THEN in.fetch ELSE inputBuffer
  /\ outputBuffer' = IF failed(in) THEN {}
                     ELSE IF transfers(in) # {}
                     THEN {[kind |-> x.kind, rd |-> x.rd, prf |-> freeRegAddr] : x \in transfers(in)}
                     ELSE IF in.takes THEN {} ELSE outputBuffer

(***************************************************************************)
(* The reorder buffer and the pipes, as far as renaming sees them.  An     *)
(* instruction is `done` once it has issued (op), answered (long),         *)
(* resolved (br, jal) or been allocated (lui).                             *)
(***************************************************************************)
executing(in, k) == {inFlight[i] : i \in {j \in DOMAIN inFlight :
                       j = in.executes /\ inFlight[j].kind = k /\ inFlight[j].rd # 0}}

InFlight(in) ==
  LET marked == [i \in DOMAIN inFlight |->
                   [inFlight[i] EXCEPT !.done = @ \/ i = in.executes \/ (fired(in) /\ i = Oldest)]]
      kept == IF failed(in) THEN SubSeq(marked, 1, Oldest) ELSE marked
      new(x) == [kind |-> x.kind, rd |-> x.rd, prf |-> x.prf, done |-> x.kind = "lui"]
      grown == kept \o (IF in.takes THEN <<new(CHOOSE x \in outputBuffer : TRUE)>> ELSE <<>>)
  IN /\ inFlight' = IF in.retires THEN Tail(grown) ELSE grown
     /\ instrRetired' = {x.prf : x \in executing(in, "op")}

(***************************************************************************)
(* The maps, the lists and the checkpoints.                                *)
(***************************************************************************)
retired(in) == {inFlight[i] : i \in {j \in DOMAIN inFlight :
                  in.retires /\ j = 1 /\ Writes(inFlight[j])}}

(* The previous mapping of the retiring register becomes free. *)
freeSetRetire(in) == {architecturalRegMap[x.rd] : x \in retired(in)}

(* Registers written by decode itself, and by the execution pipes. *)
validSetJump == {x.prf : x \in {y \in outputBuffer : AtDecode(y) /\ y.rd # 0}}

validSetExec(in) == instrRetired \cup {x.prf : x \in executing(in, "long")}

Maps(in) ==
  /\ architecturalRegMap' = [r \in Regs |-> IF \E x \in retired(in) : x.rd = r
                                            THEN inFlight[1].prf ELSE architecturalRegMap[r]]
  /\ frontEndRegMap' = IF failed(in) THEN reservedRegMap[0]
                       ELSE [r \in Regs |-> IF \E x \in transfers(in) : Writes(x) /\ x.rd = r
                                            THEN freeRegAddr ELSE frontEndRegMap[r]]

(* Faulty: results that arrived since the checkpoint are forgotten. *)
ValidListForgets(in) ==
  PRFValidList' = (IF failed(in) THEN reservedValidList[0]
                   ELSE (PRFValidList \cup validSetJump) \ allocated(in)) \cup validSetExec(in)

ValidList(in) ==
  PRFValidList' = (IF failed(in) THEN reservedValidList[0] \cup PRFValidList
                   ELSE (PRFValidList \cup validSetJump) \ allocated(in)) \cup validSetExec(in)

(* Faulty: a misprediction does not give back what was allocated since. *)
FreeListLeaks(in) ==
  PRFFreeList' = ((PRFFreeList \ freeClrCollide(in)) \ allocated(in))
                   \cup freeSetRetire(in)

FreeList(in) ==
  PRFFreeList' = (IF failed(in) THEN reservedFreeList[0] \cup PRFFreeList
                  ELSE (PRFFreeList \ freeClrCollide(in)) \ allocated(in))
                   \cup freeSetRetire(in)

(* A pass shifts the checkpoints down; a branch in transfer takes the next  *)
(* one.                                                                     *)
Reserved(in, list, snapshot) ==
  [c \in Checkpoints |->
     IF c = branchTracker /\ \E x \in transfers(in) : Cfi(x) THEN snapshot
     ELSE IF in.branch = "pass" /\ c < nCheckpoints - 1 THEN list[c + 1] ELSE list[c]]

(* A jump's checkpoint keeps the jump's own link register allocated. *)
Checkpoint(in) ==
  LET links == {x \in transfers(in) : x.kind = "jal" /\ x.rd # 0}
      taken == IF links = {} THEN {} ELSE {freeRegAddr}
      snapMap == [r \in Regs |-> IF \E x \in links : x.rd = r THEN freeRegAddr ELSE frontEndRegMap[r]]
      reservedFreeNext == Reserved(in, reservedFreeList, PRFFreeList \ taken)
  IN /\ reservedRegMap' = Reserved(in, reservedRegMap, snapMap)
     /\ reservedFreeList' = [c \in Checkpoints |-> reservedFreeNext[c] \cup freeSetRetire(in)]
     /\ reservedValidList' = Reserved(in, reservedValidList, PRFValidList \ taken)
     /\ branchTracker' = IF failed(in) THEN 0
                         ELSE branchTracker - (IF fired(in) THEN 1 ELSE 0)
                                + Cardinality({x \in transfers(in) : Cfi(x)})

Cycle(in) == /\ Buffers(in) /\ InFlight(in) /\ Maps(in)
             /\ FreeList(in) /\ ValidList(in) /\ Checkpoint(in)

Init ==
  /\ inputBuffer = {} /\ outputBuffer = {} /\ inFlight = <<>>
  /\ frontEndRegMap = [r \in Regs |-> r] /\ architecturalRegMap = [r \in Regs |-> r]
  /\ PRFFreeList = PRF \ Regs /\ PRFValidList = Regs
  /\ reservedRegMap = [c \in Checkpoints |-> [r \in Regs |-> r]]
  /\ reservedFreeList = [c \in Checkpoints |-> {}]
  /\ reservedValidList = [c \in Checkpoints |-> {}]
  /\ branchTracker = 0 /\ instrRetired = {}

Next == \E in \in Input : Cycle(in)

Spec == Init /\ [][Next]_vars
-----------------------------------------------------------------------------
(***************************************************************************)
(* Properties                                                              *)
(***************************************************************************)

(* Decode's registers hold what they can hold: in particular branchTracker  *)
(* never counts past the checkpoints there are.                             *)
TypeOK ==
  /\ inputBuffer \subseteq Decoded /\ Cardinality(inputBuffer) <= 1
  /\ outputBuffer \subseteq Renamed /\ Cardinality(outputBuffer) <= 1
  /\ inFlight \in Seq(Issued) /\ Len(inFlight) <= RobDepth
  /\ frontEndRegMap \in [Regs -> PRF] /\ architecturalRegMap \in [Regs -> PRF]
  /\ PRFFreeList \subseteq PRF /\ PRFValidList \subseteq PRF /\ instrRetired \subseteq PRF
  /\ reservedRegMap \in [Checkpoints -> [Regs -> PRF]]
  /\ reservedFreeList \in [Checkpoints -> SUBSET PRF]
  /\ reservedValidList \in [Checkpoints -> SUBSET PRF]
  /\ branchTracker \in 0 .. nCheckpoints

(* Instructions between rename and retirement, in program order. *)
Pending == [i \in DOMAIN inFlight |-> [kind |-> inFlight[i].kind, rd |-> inFlight[i].rd,
                                       prf |-> inFlight[i].prf]]
             \o (IF outputBuffer = {} THEN <<>> ELSE <<CHOOSE x \in outputBuffer : TRUE>>)

Dests == {i \in DOMAIN Pending : Writes(Pending[i])}

(* No physical register leaks and none has two owners: the free list is     *)
(* exactly what neither the architectural map nor a pending instruction     *)
(* holds, and no two holders share a register.                              *)
FreeExact ==
  LET arch == {architecturalRegMap[r] : r \in Regs}
      dests == {Pending[i].prf : i \in Dests}
  IN /\ PRFFreeList = PRF \ (arch \cup dests)
     /\ Cardinality(arch) = regCount /\ Cardinality(dests) = Cardinality(Dests)
     /\ arch \cap dests = {}

(* The front-end map is the architectural one overlaid with the pending     *)
(* destinations, also in the cycles after a misprediction restored it.      *)
MapExact ==
  \A r \in Regs :
    LET writers == {i \in Dests : Pending[i].rd = r}
    IN frontEndRegMap[r] = IF writers = {} THEN architecturalRegMap[r]
                           ELSE Pending[Max(writers)].prf

(* Registers are accounted for: no physical register leaks or has two       *)
(* owners, the front-end map names the youngest pending writer of each      *)
(* register, and no branch is without a checkpoint, across restores,        *)
(* retirements and allocations of the same cycle.                           *)
RegistersExact == TypeOK /\ FreeExact /\ MapExact

(* The valid bit of a destination is set exactly when its value has been    *)
(* produced: set early, a reader issues on garbage; never set, the reader   *)
(* waits for ever.                                                          *)
ValidExact ==
  /\ \A r \in Regs : architecturalRegMap[r] \in PRFValidList
  /\ \A i \in DOMAIN inFlight :
        LET x == inFlight[i]
        IN Writes(x) => (x.prf \in PRFValidList <=>
                           AtDecode(x) \/ (x.done /\ x.prf \notin instrRetired))
  /\ \A x \in outputBuffer : Writes(x) /\ ~AtDecode(x) => x.prf \notin PRFValidList
=============================================================================
