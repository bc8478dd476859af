----------------------------- MODULE Scheduler -----------------------------
(***************************************************************************)
(* Backend/Scheduler/scheduler.scala: the issue queue as the array of      *)
(* entries it is.  An instruction enters at the young end; in every cycle  *)
(* each entry may move one place towards the old end, into a hole, so      *)
(* squashed entries leave holes that close over several cycles.  One step  *)
(* is one clock cycle.                                                     *)
(*                                                                         *)
(* An entry is the set of the instructions in it (at most one).  The two   *)
(* operand-ready bits are one, set by any wake-up.  `slot` is the ROB      *)
(* address and stands for the instruction.                                 *)
(***************************************************************************)
EXTENDS Integers, FiniteSets

CONSTANTS Slot,              \* ROB addresses
          Bits,              \* branch bits
          Classes,           \* instruction classes in this instance
          instrIssueDepth    \* entries

ASSUME SchedulerAssumption ==
  /\ instrIssueDepth \in Nat \ {0}
  /\ Classes \subseteq {"alu", "br", "mem", "m"}

VARIABLES queue,            \* entry 0 is the oldest
          releasedBuffer

issueVars == <<queue, releasedBuffer>>

Index == 0 .. instrIssueDepth - 1
QueueEntry == [slot : Slot, class : Classes, ready : BOOLEAN, mask : SUBSET Bits]

Valid(i) == queue[i] # {}
Holds(i, class) == \E x \in queue[i] : x.class = class

Present == releasedBuffer \cup UNION {queue[i] : i \in Index}

(* Decode allocates an instruction with a ROB slot of its own, while there  *)
(* is a free entry; release.fired needs a released instruction.             *)
Allocatable == {x \in QueueEntry : \A y \in Present : x.slot # y.slot}

IssueInput == [allocate : {{}} \cup (IF \A i \in Index : Valid(i) THEN {} ELSE {{x} : x \in Allocatable}),
               wakeup : SUBSET {x.slot : x \in {y \in Present : ~y.ready}},
               memoryReady : IF "mem" \in Classes THEN BOOLEAN ELSE {TRUE},
               multuplyAndDivideReady : IF "m" \in Classes THEN BOOLEAN ELSE {TRUE},
               fired : IF releasedBuffer = {} THEN {FALSE} ELSE BOOLEAN,
               branchOps : {{}} \cup {{b} : b \in [bit : Bits, passed : BOOLEAN]}]

readyVector(in, i) ==
  \E x \in queue[i] :
     /\ x.ready
     /\ x.class = "br" => \A j \in 0 .. i - 1 : ~Holds(j, "br")
     /\ x.class = "mem" => in.memoryReady /\ \A j \in 0 .. i - 1 : ~Holds(j, "mem")
     /\ x.class = "m" => in.multuplyAndDivideReady

dequeuedIndex(in) == {i \in Index : /\ readyVector(in, i)
                                    /\ \A j \in 0 .. i - 1 : ~readyVector(in, j)}

dequeue(in) == releasedBuffer = {} \/ in.fired

Killed(in, x) == \E b \in in.branchOps : ~b.passed /\ b.bit \in x.mask
Unmasked(in, S) == {[x EXCEPT !.mask = @ \ {b.bit : b \in in.branchOps}] : x \in {y \in S : ~Killed(in, y)}}

Woken(in, S) == {[x EXCEPT !.ready = @ \/ x.slot \in in.wakeup] : x \in Unmasked(in, S)}

(* The entries after wake-up, squash and removal of the dequeued one; the   *)
(* newcomer stands behind them.                                             *)
updatedEntries(in, i) ==
  Woken(in, IF i = instrIssueDepth THEN in.allocate
            ELSE IF dequeue(in) /\ i \in dequeuedIndex(in) THEN {} ELSE queue[i])

(* Faulty: an entry also moves up when the queue is full and nothing leaves. *)
ShiftsAlways(in, i) == TRUE

(* Entry i takes over its younger neighbour: there is a hole at or below it, *)
(* or one opens.                                                            *)
shifts(in, i) == \/ \E j \in 0 .. i : ~Valid(j)
                 \/ dequeue(in) /\ \E j \in 0 .. i : readyVector(in, j)

IssueCycle(in) ==
  /\ queue' = [i \in Index |-> updatedEntries(in, IF shifts(in, i) THEN i + 1 ELSE i)]
  /\ releasedBuffer' = IF dequeue(in) THEN Unmasked(in, UNION {queue[i] : i \in dequeuedIndex(in)})
                       ELSE Unmasked(in, releasedBuffer)

IssueInit == queue = [i \in Index |-> {}] /\ releasedBuffer = {}

IssueNext == \E in \in IssueInput : IssueCycle(in)

IssueSpec == IssueInit /\ [][IssueNext]_issueVars
-----------------------------------------------------------------------------
AtMostOne(S) == {{}} \cup {{x} : x \in S}

(* Every register holds at most one instruction, and none is in two. *)
IssueTypeOK ==
  /\ queue \in [Index -> AtMostOne(QueueEntry)] /\ releasedBuffer \in AtMostOne(QueueEntry)
  /\ \A i, j \in Index : \A x \in queue[i], y \in queue[j] : x.slot = y.slot => i = j
  /\ \A i \in Index : \A x \in queue[i], y \in releasedBuffer : x.slot # y.slot

(* What waits, and who stands before whom, whatever the holes. *)
Plain(x) == [slot |-> x.slot, class |-> x.class, mask |-> x.mask]
Waiting == {Plain(x) : x \in UNION {queue[i] : i \in Index}}
Before == {p \in Slot \X Slot : \E i, j \in Index :
             /\ i < j
             /\ \E x \in queue[i] : x.slot = p[1]
             /\ \E x \in queue[j] : x.slot = p[2]}

O == INSTANCE IssueOrder WITH
  waiting <- Waiting, before <- Before, released <- {Plain(x) : x \in releasedBuffer}

(* The array, with its holes, behaves as the queue in program order: nothing *)
(* is dropped by the compaction, nothing is duplicated or in two registers, *)
(* nobody overtakes.                                                        *)
ImplementsIssueOrder == O!Spec /\ []IssueTypeOK
=============================================================================
