------------------------------- MODULE MUnit -------------------------------
(***************************************************************************)
(* The M extension of core.scala: a three-stage multiply pipeline and one  *)
(* iterative divider behind a common request register and a common         *)
(* response register.  Register read (PRF.scala) is the stage in front.    *)
(* One step is one clock cycle.                                            *)
(*                                                                         *)
(* A register is the set of the operations in it (at most one).  Operands  *)
(* and results are abstracted: the number of steps a division takes is any *)
(* member of Counts.  The issue queue offers an operation with any ROB     *)
(* slot that is not in the unit, and branches resolve at any time.         *)
(***************************************************************************)
EXTENDS Integers

CONSTANTS RobAddr,      \* ROB addresses
          BranchBits,   \* branch bits
          Counts        \* values division.counter can be loaded with

CounterMax == 127   \* division.counter is 7 bits wide

ASSUME CountsAssumption == Counts \subseteq 0 .. CounterMax

VARIABLES toExec,                 \* prf.toExec, when it holds an M operation
          extnMRequest, extnMPartialServicing, extnMServicing, extnMResponse,
          division, counter,      \* division.request and division.counter
          divDone, divDoneRobAddr,
          mExtensionReady, divBranchMask

unitVars == <<toExec, extnMRequest, extnMPartialServicing, extnMServicing, extnMResponse,
              division, counter, divDone, divDoneRobAddr, mExtensionReady, divBranchMask>>

Op == [slot : RobAddr, div : BOOLEAN, mask : SUBSET BranchBits]
Answer == [slot : RobAddr, div : BOOLEAN]

Single(S) == \A x, y \in S : x = y
NoneOrOne(S) == {{}} \cup {{x} : x \in S}
Divs(S) == {x \in S : x.div}

(* core.scala:255: the multiply pipeline takes no div-typed request. *)
Muls(S) == {x \in S : ~x.div}

(***************************************************************************)
(* Inputs: the operation in the release buffer, the branch resolution and  *)
(* the iterations of a division that starts now.                           *)
(***************************************************************************)
Pool == toExec \cup extnMRequest \cup extnMPartialServicing \cup extnMServicing \cup division

UnitInput ==
  {in \in [release : NoneOrOne(Op), resolved : NoneOrOne(BranchBits), failed : BOOLEAN,
          count : Counts] :
     \A x \in in.release, y \in Pool : x.slot # y.slot}

Hit(in, mask) == mask \cap in.resolved # {}
Squashed(in, x) == in.failed /\ Hit(in, x.mask)

(* What a register loads from the stage in front of it in this cycle. *)
Aged(in, S) ==
  {[x EXCEPT !.mask = @ \ in.resolved] : x \in {y \in S : ~Squashed(in, y)}}

Answered(in, S) == {[slot |-> x.slot, div |-> x.div] : x \in Aged(in, S)}

(***************************************************************************)
(* One clock cycle.                                                        *)
(***************************************************************************)
released(in) == {x \in in.release : mExtensionReady}

divArming ==
  \E x \in Divs(extnMRequest) : division = {} /\ ~(divDone /\ x.slot = divDoneRobAddr)

(* Faulty: a divide completes although a multiply lands in the same cycle. *)
CompletesOverMultiply == division # {} /\ counter = 0

(* The divider and the multiplier share the response register. *)
divCompletes == division # {} /\ counter = 0 /\ extnMServicing = {}

(* Faulty: only pairs of steps are taken, and a last single one never is. *)
StepPairs(n) == IF n >= 2 THEN n - 2 ELSE n

(* Two recurrence steps per cycle while two remain. *)
Step(n) == IF n >= 2 THEN n - 2 ELSE n - 1

MultiplyPipe(in) ==
  /\ toExec' = Aged(in, released(in))
  /\ extnMRequest' = Aged(in, toExec)
  /\ extnMPartialServicing' = Aged(in, Muls(extnMRequest))
  /\ extnMServicing' = Aged(in, extnMPartialServicing)
  /\ extnMResponse' = Answered(in, IF divCompletes THEN division ELSE extnMServicing)

Divider(in) ==
  /\ division' = Aged(in, IF divArming THEN extnMRequest
                          ELSE IF divCompletes THEN {} ELSE division)
  /\ counter' = IF divArming THEN in.count
                ELSE IF division # {} /\ counter # 0 THEN Step(counter) ELSE counter
  /\ divDone' = (divCompletes \/ (divDone /\ Divs(extnMRequest) # {}))
  /\ divDoneRobAddr' \in IF divCompletes THEN {x.slot : x \in division} ELSE {divDoneRobAddr}

(* The writers that open the gate. *)
opened(in) ==
  \/ mExtensionReady
  \/ in.failed /\ Hit(in, divBranchMask)
  \/ \E r \in extnMResponse : r.div
  \/ divCompletes

(* Faulty: the response of the previous divide wins over the release of the *)
(* next one, the order core.scala:458-466 describes as a former defect.     *)
GateResponseLast(in) ==
  /\ mExtensionReady' =
        \/ \E r \in extnMResponse : r.div
        \/ divCompletes
        \/ IF Divs(released(in)) # {} THEN \E x \in released(in) : Squashed(in, x)
           ELSE mExtensionReady \/ (in.failed /\ Hit(in, divBranchMask))
  /\ divBranchMask' \in IF Divs(released(in)) # {}
                        THEN {x.mask \ in.resolved : x \in released(in)}
                        ELSE {IF mExtensionReady \/ in.failed THEN divBranchMask
                              ELSE divBranchMask \ in.resolved}

(* mExtensionReady: a released divide closes the gate, whatever opens it in *)
(* the same cycle, unless the divide is squashed in that cycle.             *)
Gate(in) ==
  /\ mExtensionReady' = IF Divs(released(in)) # {} THEN \E x \in released(in) : Squashed(in, x)
                        ELSE opened(in)
  /\ divBranchMask' \in IF Divs(released(in)) # {}
                        THEN {x.mask \ in.resolved : x \in released(in)}
                        ELSE {IF mExtensionReady \/ in.failed THEN divBranchMask
                              ELSE divBranchMask \ in.resolved}

UnitCycle(in) == MultiplyPipe(in) /\ Divider(in) /\ Gate(in)

UnitInit ==
  /\ toExec = {} /\ extnMRequest = {} /\ extnMPartialServicing = {}
  /\ extnMServicing = {} /\ extnMResponse = {}
  /\ division = {} /\ counter = 0
  /\ divDone = FALSE /\ divDoneRobAddr \in RobAddr
  /\ mExtensionReady = TRUE /\ divBranchMask = {}

UnitNext == \E in \in UnitInput : UnitCycle(in)

UnitSpec == UnitInit /\ [][UnitNext]_unitVars

(* The clock ticks. *)
UnitFairSpec == UnitSpec /\ WF_unitVars(UnitNext)
-----------------------------------------------------------------------------
(* Registers hold one operation, and the multiply stages no divide. *)
UnitTypeOK ==
  /\ toExec \subseteq Op /\ extnMRequest \subseteq Op /\ division \subseteq Divs(Op)
  /\ Divs(extnMPartialServicing) = {} /\ Divs(extnMServicing) = {}
  /\ extnMPartialServicing \subseteq Op /\ extnMServicing \subseteq Op
  /\ Single(toExec) /\ Single(extnMRequest) /\ Single(extnMPartialServicing)
  /\ Single(extnMServicing) /\ Single(division)
  /\ extnMResponse \subseteq Answer /\ Single(extnMResponse)
  /\ counter \in 0 .. CounterMax
  /\ divDone \in BOOLEAN /\ divDoneRobAddr \in RobAddr
  /\ mExtensionReady \in BOOLEAN /\ divBranchMask \subseteq BranchBits

(* The gate and the divider agree: the gate is closed exactly while one     *)
(* divide is somewhere between release and completion, and it watches the   *)
(* branches of that divide.  Were it open, a second divide would reach a    *)
(* busy divider and be dropped; were it closed with none, or watching other *)
(* branches, no M operation would ever be issued again.                     *)
GateExact ==
  LET D == Divs(toExec \cup extnMRequest \cup division)
  IN /\ mExtensionReady <=> D = {}
     /\ Single(D)
     /\ \A x \in D : x.mask = divBranchMask

(* The release gate and the registers behind it agree: it is closed exactly *)
(* while one divide is under way, watches that divide's branches, and no    *)
(* stage ever holds two operations.                                         *)
GateSafe == UnitTypeOK /\ GateExact

(* No accepted operation is lost, answered twice, answered under the slot   *)
(* of another one, or answered after its branch was mispredicted.           *)
MP == INSTANCE MPool WITH Slot <- RobAddr, Bits <- BranchBits,
                          pending <- Pool, response <- extnMResponse
ImplementsPool == MP!Spec

(* The gate never stays closed: M operations can always be issued later. *)
GateReopens == []<>mExtensionReady
=============================================================================
