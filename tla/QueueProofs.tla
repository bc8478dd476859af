---------------------------- MODULE QueueProofs ----------------------------
(***************************************************************************)
(* Theorems about the queues of a hart: the compacting issue queue         *)
(* (Scheduler), for every depth and every set of slots, branch bits and    *)
(* classes; the reorder buffer's FIFO (RobFifo), for every Depth >= 2,     *)
(* every Entry and any number of write ports; and the M extension (MUnit), *)
(* for every set of slots and branch bits and every iteration count.       *)
(***************************************************************************)
EXTENDS RobFifo, Scheduler, MUnit, Sequences, FiniteSetTheorems, TLAPS

(***************************************************************************)
(* The issue queue.                                                        *)
(***************************************************************************)

(* The entries before compaction: the array and the newcomer behind it. *)
Places == 0 .. instrIssueDepth

(* The entry that moves into place i. *)
From(in, i) == IF shifts(in, i) THEN i + 1 ELSE i

(* What an entry holds before the resolution and the wake-up. *)
Base(in, k) == IF k = instrIssueDepth THEN in.allocate
               ELSE IF dequeue(in) /\ k \in dequeuedIndex(in) THEN {} ELSE queue[k]

LEMMA DepthIs == instrIssueDepth \in Nat /\ instrIssueDepth >= 1
  BY SchedulerAssumption

(* Compaction keeps the order and reads no entry twice. *)
LEMMA FromGrows ==
  ASSUME NEW in, NEW i \in Index, NEW j \in Index, i < j
  PROVE  From(in, i) < From(in, j) /\ From(in, i) \in Places /\ From(in, j) \in Places
<1>1. shifts(in, i) => shifts(in, j)
  <2>1. \A k \in 0 .. i : k \in 0 .. j
    BY DepthIs DEF Index
  <2> QED
    BY <2>1 DEF shifts
<1> QED
  BY <1>1, DepthIs DEF From, Index, Places

LEMMA FromPlace ==
  ASSUME NEW in, NEW i \in Index
  PROVE  From(in, i) \in Places
  BY DepthIs DEF From, Index, Places

(* Compaction passes over an entry only if there is nothing in it. *)
LEMMA NothingPassedOver ==
  ASSUME IssueTypeOK, NEW in \in IssueInput, NEW k \in Places, Base(in, k) # {}
  PROVE  \E i \in Index : From(in, i) = k
<1> DEFINE n == instrIssueDepth
<1>0. n \in Nat /\ n >= 1 /\ k \in 0 .. n
  BY DepthIs DEF Places
<1> HIDE DEF n
<1>1. CASE k = n
  <2>1. in.allocate # {}
    BY <1>1 DEF Base, n
  <2>2. PICK j \in Index : ~Valid(j)
    BY <2>1 DEF IssueInput
  <2>3. n - 1 \in Index /\ j \in 0 .. n - 1
    BY <1>0 DEF Index, n
  <2>4. shifts(in, n - 1)
    BY <2>2, <2>3 DEF shifts
  <2> QED
    BY <1>0, <1>1, <2>3, <2>4 DEF From
<1>2. CASE k # n /\ ~shifts(in, k)
  BY <1>0, <1>2 DEF From, Index, n
<1>3. CASE k # n /\ shifts(in, k)
  <2>0. k \in Index /\ k \in 0 .. k /\ Valid(k) /\ ~(dequeue(in) /\ k \in dequeuedIndex(in))
    BY <1>0, <1>3 DEF Base, Index, Valid, n
  <2>1. PICK j \in 0 .. k : ~Valid(j) \/ (dequeue(in) /\ readyVector(in, j))
    BY <1>3 DEF shifts
  <2>2. \E l \in 0 .. k - 1 : ~Valid(l) \/ (dequeue(in) /\ readyVector(in, l))
    <3>1. CASE j # k
      BY <1>0, <2>1, <3>1
    <3>2. CASE j = k
      <4>1. dequeue(in) /\ readyVector(in, k) /\ k \notin dequeuedIndex(in)
        BY <2>0, <2>1, <3>2
      <4>2. PICK l \in 0 .. k - 1 : readyVector(in, l)
        BY <2>0, <4>1 DEF dequeuedIndex
      <4> QED
        BY <4>1, <4>2
    <3> QED
      BY <3>1, <3>2
  <2>3. PICK l \in 0 .. k - 1 : ~Valid(l) \/ (dequeue(in) /\ readyVector(in, l))
    BY <2>2
  <2>4. shifts(in, k - 1) /\ k - 1 \in Index
    <3>1. shifts(in, k - 1)
      BY <2>3 DEF shifts
    <3>2. k - 1 \in Index
      BY <1>0, <2>0, <2>3, DepthIs DEF Index
    <3> QED
      BY <3>1, <3>2
  <2> QED
    BY <1>0, <2>4 DEF From
<1> QED
  BY <1>1, <1>2, <1>3

(* What the inputs of a cycle are. *)
LEMMA InputFacts ==
  ASSUME IssueTypeOK, NEW in \in IssueInput
  PROVE  /\ in.allocate \in AtMostOne(QueueEntry)
         /\ \A x \in in.allocate : \A y \in Present : x.slot # y.slot
         /\ in.allocate # {} => \E i \in Index : ~Valid(i)
         /\ in.branchOps \in AtMostOne([bit : Bits, passed : BOOLEAN])
         /\ in.fired \in BOOLEAN
<1>1. in.allocate \in {{}} \cup (IF \A i \in Index : Valid(i) THEN {} ELSE {{x} : x \in Allocatable})
  BY DEF IssueInput
<1>2. in.branchOps \in {{}} \cup {{b} : b \in [bit : Bits, passed : BOOLEAN]}
  BY DEF IssueInput
<1>3. in.fired \in BOOLEAN
  BY DEF IssueInput
<1>4. in.allocate = {} \/ ((\E i \in Index : ~Valid(i)) /\ \E x \in Allocatable : in.allocate = {x})
  BY <1>1
<1> QED
  BY <1>2, <1>3, <1>4 DEF AtMostOne, Allocatable

(* The entries before compaction hold at most one instruction each, and     *)
(* none is in two.                                                          *)
LEMMA BaseFacts ==
  ASSUME IssueTypeOK, NEW in \in IssueInput
  PROVE  /\ \A k \in Places : Base(in, k) \in AtMostOne(QueueEntry)
         /\ \A k, l \in Places : \A x \in Base(in, k), y \in Base(in, l) : x.slot = y.slot => k = l
<1>0. instrIssueDepth \in Nat /\ \A k \in Places : k = instrIssueDepth \/ k \in Index
  BY DepthIs DEF Places, Index
<1>1. \A k \in Places : /\ Base(in, k) \in {{}, IF k = instrIssueDepth THEN in.allocate ELSE queue[k]}
                        /\ k # instrIssueDepth => Base(in, k) \subseteq queue[k] /\ queue[k] \in AtMostOne(QueueEntry)
                        /\ k = instrIssueDepth => Base(in, k) = in.allocate
  BY <1>0 DEF Base, IssueTypeOK
<1>2. \A k \in Places : Base(in, k) \in AtMostOne(QueueEntry)
  BY <1>1, InputFacts DEF AtMostOne
<1>3. ASSUME NEW k \in Places, NEW l \in Places, NEW x \in Base(in, k), NEW y \in Base(in, l), x.slot = y.slot
      PROVE  k = l
  <2>1. CASE k # instrIssueDepth /\ l # instrIssueDepth
    <3>1. k \in Index /\ l \in Index /\ x \in queue[k] /\ y \in queue[l]
      BY <1>0, <1>1, <2>1
    <3> QED
      BY <1>3, <3>1 DEF IssueTypeOK
  <2>2. \A z \in Places : z # instrIssueDepth => Base(in, z) \subseteq Present
    BY <1>0, <1>1 DEF Present
  <2>3. CASE k = instrIssueDepth /\ l # instrIssueDepth
    BY <1>1, <1>3, <2>2, <2>3, InputFacts
  <2>4. CASE k # instrIssueDepth /\ l = instrIssueDepth
    <3>1. x \in Present /\ y \in in.allocate
      BY <1>1, <2>2, <2>4
    <3>2. y.slot # x.slot
      BY <3>1, InputFacts
    <3> QED
      BY <1>3, <3>2
  <2> QED
    BY <2>1, <2>3, <2>4
<1> QED
  BY <1>2, <1>3

(* The resolution and the wake-up of an instruction. *)
Resolve(in, x) == [x EXCEPT !.mask = @ \ {b.bit : b \in in.branchOps}]
Wake(in, x) == [Resolve(in, x) EXCEPT !.ready = @ \/ x.slot \in in.wakeup]

LEMMA ResolveTypes ==
  ASSUME NEW x \in QueueEntry, NEW in
  PROVE  /\ Resolve(in, x) \in QueueEntry /\ Resolve(in, x).slot = x.slot
         /\ Wake(in, x) \in QueueEntry /\ Wake(in, x).slot = x.slot
         /\ Plain(Wake(in, x)) = Plain(Resolve(in, x))
         /\ Plain(Resolve(in, x)) = [Plain(x) EXCEPT !.mask = @ \ {b.bit : b \in in.branchOps}]
<1>1. PICK bits : bits = {b.bit : b \in in.branchOps}
  OBVIOUS
<1>3. /\ x = [slot |-> x.slot, class |-> x.class, ready |-> x.ready, mask |-> x.mask]
      /\ x.slot \in Slot /\ x.class \in Classes /\ x.ready \in BOOLEAN /\ x.mask \in SUBSET Bits
  BY DEF QueueEntry
<1>4. Resolve(in, x) = [slot |-> x.slot, class |-> x.class, ready |-> x.ready, mask |-> x.mask \ bits]
  BY <1>1, <1>3 DEF Resolve
<1>5. PICK r \in BOOLEAN : r = (x.ready \/ x.slot \in in.wakeup)
  BY <1>3
<1>6. Wake(in, x) = [slot |-> x.slot, class |-> x.class, ready |-> r, mask |-> x.mask \ bits]
  BY <1>4, <1>5 DEF Wake
<1>7. x.mask \ bits \in SUBSET Bits
  BY <1>3
<1>8. Resolve(in, x) \in QueueEntry /\ Wake(in, x) \in QueueEntry
  BY <1>3, <1>4, <1>6, <1>7 DEF QueueEntry
<1>9. Resolve(in, x).slot = x.slot /\ Wake(in, x).slot = x.slot /\ Plain(Wake(in, x)) = Plain(Resolve(in, x))
  BY <1>4, <1>6 DEF Plain
<1>10. Plain(Resolve(in, x)) = [Plain(x) EXCEPT !.mask = @ \ bits]
  BY <1>4 DEF Plain
<1> QED
  BY <1>1, <1>8, <1>9, <1>10

LEMMA WokenIs ==
  ASSUME NEW in, NEW S \in SUBSET QueueEntry
  PROVE  /\ Unmasked(in, S) = {Resolve(in, x) : x \in {y \in S : ~Killed(in, y)}}
         /\ Woken(in, S) = {Wake(in, x) : x \in {y \in S : ~Killed(in, y)}}
<1>1. Unmasked(in, S) = {Resolve(in, x) : x \in {y \in S : ~Killed(in, y)}}
  BY DEF Unmasked, Resolve
<1>2. Woken(in, S) = {[x EXCEPT !.ready = @ \/ x.slot \in in.wakeup] : x \in Unmasked(in, S)}
  BY DEF Woken
<1>3. \A x \in S : [Resolve(in, x) EXCEPT !.ready = @ \/ Resolve(in, x).slot \in in.wakeup] = Wake(in, x)
  <2> TAKE x \in S
  <2>1. Resolve(in, x).slot = x.slot
    BY ResolveTypes
  <2> QED
    BY <2>1 DEF Wake
<1> QED
  BY <1>1, <1>2, <1>3

(* An entry after a cycle. *)
LEMMA NextEntry ==
  ASSUME IssueTypeOK, NEW in \in IssueInput, IssueCycle(in), NEW i \in Index
  PROVE  queue'[i] = {Wake(in, x) : x \in {y \in Base(in, From(in, i)) : ~Killed(in, y)}}
<1>1. queue'[i] = Woken(in, Base(in, From(in, i)))
  BY DEF IssueCycle, updatedEntries, Base, From
<1>2. Base(in, From(in, i)) \subseteq QueueEntry
  BY FromPlace, BaseFacts DEF AtMostOne
<1> QED
  BY <1>1, <1>2, WokenIs

(* The instruction that leaves. *)
Leaving(in) == UNION {queue[i] : i \in dequeuedIndex(in)}

LEMMA LeavingFacts ==
  ASSUME IssueTypeOK, NEW in \in IssueInput
  PROVE  /\ \A i, j \in dequeuedIndex(in) : i = j
         /\ Leaving(in) \in AtMostOne(QueueEntry)
         /\ dequeuedIndex(in) \subseteq Index
<1>1. dequeuedIndex(in) \subseteq Index
  BY DEF dequeuedIndex
<1>2. ASSUME NEW i \in dequeuedIndex(in), NEW j \in dequeuedIndex(in) PROVE i = j
  <2>1. i \in Int /\ j \in Int /\ i >= 0 /\ j >= 0
    BY <1>1, DepthIs DEF Index
  <2>2. i < j => i \in 0 .. j - 1
    BY <2>1
  <2>3. j < i => j \in 0 .. i - 1
    BY <2>1
  <2>4. ~(i < j) /\ ~(j < i)
    BY <2>2, <2>3 DEF dequeuedIndex
  <2> QED
    BY <2>1, <2>4
<1>3. Leaving(in) \in AtMostOne(QueueEntry)
  <2>1. CASE dequeuedIndex(in) = {}
    BY <2>1 DEF Leaving, AtMostOne
  <2>2. CASE dequeuedIndex(in) # {}
    <3>1. PICK d : d \in dequeuedIndex(in)
      BY <2>2
    <3>2. Leaving(in) = queue[d]
      BY <1>2, <3>1 DEF Leaving
    <3> QED
      BY <1>1, <3>1, <3>2 DEF IssueTypeOK
  <2> QED
    BY <2>1, <2>2
<1> QED
  BY <1>1, <1>2, <1>3

(* Nothing that leaves or is released is also before the array. *)
LEMMA BaseApart ==
  ASSUME IssueTypeOK, NEW in \in IssueInput, NEW k \in Places, NEW x \in Base(in, k)
  PROVE  /\ \A y \in releasedBuffer : x.slot # y.slot
         /\ dequeue(in) => \A y \in Leaving(in) : x.slot # y.slot
         /\ k = instrIssueDepth => x \in in.allocate
         /\ k # instrIssueDepth => k \in Index /\ x \in queue[k]
<1>1. k = instrIssueDepth => x \in in.allocate
  BY DEF Base
<1>2. k # instrIssueDepth => k \in Index /\ x \in queue[k] /\ (dequeue(in) => k \notin dequeuedIndex(in))
  BY DepthIs DEF Base, Places, Index
<1>3. releasedBuffer \subseteq Present /\ Leaving(in) \subseteq Present
  BY LeavingFacts DEF Present, Leaving
<1>4. CASE k = instrIssueDepth
  BY <1>1, <1>3, <1>4, InputFacts
<1>5. CASE k # instrIssueDepth
  <2>1. \A y \in releasedBuffer : x.slot # y.slot
    BY <1>2, <1>5 DEF IssueTypeOK
  <2>2. ASSUME dequeue(in), NEW y \in Leaving(in) PROVE x.slot # y.slot
    <3>1. PICK d \in dequeuedIndex(in) : y \in queue[d]
      BY DEF Leaving
    <3>2. d \in Index /\ d # k
      BY <1>2, <1>5, <2>2, <3>1, LeavingFacts
    <3> QED
      BY <1>2, <1>5, <3>1, <3>2 DEF IssueTypeOK
  <2> QED
    BY <1>2, <1>5, <2>1, <2>2
<1> QED
  BY <1>4, <1>5

LEMMA NextReleased ==
  ASSUME IssueTypeOK, NEW in \in IssueInput, IssueCycle(in), NEW S, S = IF dequeue(in) THEN Leaving(in) ELSE releasedBuffer
  PROVE  /\ S \in AtMostOne(QueueEntry)
         /\ releasedBuffer' = {Resolve(in, x) : x \in {y \in S : ~Killed(in, y)}}
<1>1. S \in AtMostOne(QueueEntry)
  BY LeavingFacts DEF IssueTypeOK
<1>2. releasedBuffer' = Unmasked(in, S)
  BY DEF IssueCycle, Leaving
<1> QED
  BY <1>1, <1>2, WokenIs DEF AtMostOne

LEMMA IssueTypeInit == IssueInit => IssueTypeOK
  BY DEF IssueInit, IssueTypeOK, AtMostOne

LEMMA IssueTypeStep ==
  ASSUME IssueTypeOK, NEW in \in IssueInput, IssueCycle(in)
  PROVE  IssueTypeOK'
<1>1. ASSUME NEW i \in Index, NEW z \in queue'[i]
      PROVE  \E x \in Base(in, From(in, i)) : x \in QueueEntry /\ z = Wake(in, x) /\ z.slot = x.slot
  <2>1. PICK x \in Base(in, From(in, i)) : z = Wake(in, x)
    BY NextEntry
  <2>2. x \in QueueEntry
    BY FromPlace, BaseFacts DEF AtMostOne
  <2> QED
    BY <2>1, <2>2, ResolveTypes
<1>2. \A S \in AtMostOne(QueueEntry) : /\ {Wake(in, x) : x \in {y \in S : ~Killed(in, y)}} \in AtMostOne(QueueEntry)
                                       /\ {Resolve(in, x) : x \in {y \in S : ~Killed(in, y)}} \in AtMostOne(QueueEntry)
  <2> TAKE S \in AtMostOne(QueueEntry)
  <2>1. CASE {y \in S : ~Killed(in, y)} = {}
    BY <2>1 DEF AtMostOne
  <2>2. CASE {y \in S : ~Killed(in, y)} # {}
    <3>1. PICK x \in QueueEntry : {y \in S : ~Killed(in, y)} = {x}
      BY <2>2 DEF AtMostOne
    <3>2. /\ {Wake(in, v) : v \in {y \in S : ~Killed(in, y)}} = {Wake(in, x)}
          /\ {Resolve(in, v) : v \in {y \in S : ~Killed(in, y)}} = {Resolve(in, x)}
      BY <3>1
    <3> QED
      BY <3>2, ResolveTypes DEF AtMostOne
  <2> QED
    BY <2>1, <2>2
<1>3. queue' \in [Index -> AtMostOne(QueueEntry)]
  <2>1. \A i \in Index : queue'[i] \in AtMostOne(QueueEntry)
    BY <1>2, NextEntry, FromPlace, BaseFacts
  <2>2. queue' = [i \in Index |-> queue'[i]]
    BY DEF IssueCycle
  <2> QED
    BY <2>1, <2>2
<1>4. PICK S : S = IF dequeue(in) THEN Leaving(in) ELSE releasedBuffer
  OBVIOUS
<1>5. S \in AtMostOne(QueueEntry) /\ releasedBuffer' = {Resolve(in, x) : x \in {y \in S : ~Killed(in, y)}}
  BY <1>4, NextReleased
<1>6. releasedBuffer' \in AtMostOne(QueueEntry)
  BY <1>2, <1>5
<1>7. ASSUME NEW i \in Index, NEW j \in Index, NEW x \in queue'[i], NEW y \in queue'[j], x.slot = y.slot
      PROVE  i = j
  <2>1. PICK x1 \in Base(in, From(in, i)) : x1.slot = x.slot
    BY <1>1
  <2>2. PICK y1 \in Base(in, From(in, j)) : y1.slot = y.slot
    BY <1>1
  <2>3. From(in, i) = From(in, j)
    BY <1>7, <2>1, <2>2, FromPlace, BaseFacts
  <2>4. i \in Int /\ j \in Int /\ From(in, i) \in Int
    BY FromPlace, DepthIs DEF Index, Places
  <2>5. ~(i < j) /\ ~(j < i)
    BY <2>3, <2>4, FromGrows
  <2> QED
    BY <2>4, <2>5
<1>8. ASSUME NEW i \in Index, NEW x \in queue'[i], NEW y \in releasedBuffer' PROVE x.slot # y.slot
  <2>1. PICK x1 \in Base(in, From(in, i)) : x1.slot = x.slot
    BY <1>1
  <2>2. PICK y1 \in S : y = Resolve(in, y1)
    BY <1>5
  <2>3. y.slot = y1.slot
    BY <1>5, <2>2, ResolveTypes DEF AtMostOne
  <2>4. x1.slot # y1.slot
    BY <1>4, <2>1, <2>2, FromPlace, BaseApart
  <2> QED
    BY <2>1, <2>3, <2>4
<1> QED
  BY <1>3, <1>6, <1>7, <1>8 DEF IssueTypeOK, AtMostOne, QueueEntry, Index

(* A resolution as IssueOrder sees it. *)
ResolvedBits(in) == {b.bit : b \in in.branchOps}

LEMMA KeptIs ==
  ASSUME IssueTypeOK, NEW in \in IssueInput, NEW failed \in BOOLEAN, failed <=> (\E b \in in.branchOps : ~b.passed),
         NEW S \in SUBSET QueueEntry
  PROVE  O!Kept({Plain(x) : x \in S}, ResolvedBits(in), failed)
           = {Plain(Resolve(in, x)) : x \in {y \in S : ~Killed(in, y)}}
<1>1. \A x : Plain(x).mask = x.mask
  BY DEF Plain
<1>2. \A x : Killed(in, x) <=> failed /\ x.mask \cap ResolvedBits(in) # {}
  <2>1. CASE in.branchOps = {}
    BY <2>1 DEF Killed
  <2>2. CASE in.branchOps # {}
    <3>1. PICK b : in.branchOps = {b}
      BY <2>2, InputFacts DEF AtMostOne
    <3>2. ResolvedBits(in) = {b.bit}
      BY <3>1 DEF ResolvedBits
    <3> QED
      BY <3>1, <3>2 DEF Killed
  <2> QED
    BY <2>1, <2>2
<1>3. {y \in {Plain(x) : x \in S} : ~(failed /\ y.mask \cap ResolvedBits(in) # {})}
        = {Plain(x) : x \in {y \in S : ~Killed(in, y)}}
  BY <1>1, <1>2
<1>4. \A x \in S : Plain(Resolve(in, x)) = [Plain(x) EXCEPT !.mask = @ \ ResolvedBits(in)]
  BY ResolveTypes DEF ResolvedBits
<1>5. PICK T : T = {y \in S : ~Killed(in, y)}
  OBVIOUS
<1>6. O!Kept({Plain(x) : x \in S}, ResolvedBits(in), failed)
        = {[p EXCEPT !.mask = @ \ ResolvedBits(in)] : p \in {Plain(x) : x \in T}}
  BY <1>3, <1>5 DEF O!Kept
<1>7. {[p EXCEPT !.mask = @ \ ResolvedBits(in)] : p \in {Plain(x) : x \in T}}
        = {[Plain(x) EXCEPT !.mask = @ \ ResolvedBits(in)] : x \in T}
  OBVIOUS
<1>8. {[Plain(x) EXCEPT !.mask = @ \ ResolvedBits(in)] : x \in T} = {Plain(Resolve(in, x)) : x \in T}
  BY <1>4, <1>5
<1> QED
  BY <1>5, <1>6, <1>7, <1>8

(* All that stands before compaction. *)
Standing(in) == UNION {Base(in, k) : k \in Places}

LEMMA StandingIs ==
  ASSUME IssueTypeOK, NEW in \in IssueInput
  PROVE  /\ Standing(in) \subseteq QueueEntry
         /\ {Plain(x) : x \in Standing(in)} =
              (Waiting \ (IF dequeue(in) THEN {Plain(x) : x \in Leaving(in)} ELSE {}))
                \cup {Plain(x) : x \in in.allocate}
<1>1. Standing(in) \subseteq QueueEntry
  BY BaseFacts DEF Standing, AtMostOne
<1>2. \A x, y : Plain(x) = Plain(y) => x.slot = y.slot
  <2> TAKE x, y
  <2>1. Plain(x).slot = x.slot /\ Plain(y).slot = y.slot
    BY DEF Plain
  <2> QED
    BY <2>1
<1>3. ASSUME NEW x \in Standing(in)
      PROVE  x \in in.allocate \/ (Plain(x) \in Waiting /\ (dequeue(in) => Plain(x) \notin {Plain(y) : y \in Leaving(in)}))
  <2>1. PICK k \in Places : x \in Base(in, k)
    BY DEF Standing
  <2>2. CASE k = instrIssueDepth
    BY <2>1, <2>2, BaseApart
  <2>3. CASE k # instrIssueDepth
    <3>1. k \in Index /\ x \in queue[k] /\ (dequeue(in) => \A y \in Leaving(in) : x.slot # y.slot)
      BY <2>1, <2>3, BaseApart
    <3>2. Plain(x) \in Waiting
      BY <3>1 DEF Waiting
    <3> QED
      BY <1>2, <3>1, <3>2
  <2> QED
    BY <2>2, <2>3
<1>4. in.allocate \subseteq Standing(in)
  <2>1. instrIssueDepth \in Places /\ Base(in, instrIssueDepth) = in.allocate
    BY DepthIs DEF Places, Base
  <2> QED
    BY <2>1 DEF Standing
<1>5. ASSUME NEW p \in Waiting, dequeue(in) => p \notin {Plain(y) : y \in Leaving(in)}
      PROVE  p \in {Plain(x) : x \in Standing(in)}
  <2>1. PICK k \in Index : \E x \in queue[k] : p = Plain(x)
    BY DEF Waiting
  <2>2. PICK x \in queue[k] : p = Plain(x)
    BY <2>1
  <2>3. k \in Places /\ k # instrIssueDepth
    BY DepthIs DEF Index, Places
  <2>4. ~(dequeue(in) /\ k \in dequeuedIndex(in))
    BY <1>5, <2>2 DEF Leaving
  <2>5. x \in Base(in, k)
    BY <2>2, <2>3, <2>4 DEF Base
  <2> QED
    BY <2>2, <2>3, <2>5 DEF Standing
<1>6. PICK L : L = IF dequeue(in) THEN {Plain(x) : x \in Leaving(in)} ELSE {}
  OBVIOUS
<1>7. {Plain(x) : x \in Standing(in)} \subseteq (Waiting \ L) \cup {Plain(x) : x \in in.allocate}
  BY <1>3, <1>6
<1>8. (Waiting \ L) \cup {Plain(x) : x \in in.allocate} \subseteq {Plain(x) : x \in Standing(in)}
  BY <1>4, <1>5, <1>6
<1> QED
  BY <1>1, <1>6, <1>7, <1>8

(* The compaction loses nothing and invents nothing. *)
LEMMA WaitingNext ==
  ASSUME IssueTypeOK, NEW in \in IssueInput, IssueCycle(in)
  PROVE  Waiting' = {Plain(Resolve(in, x)) : x \in {y \in Standing(in) : ~Killed(in, y)}}
<1>1. Waiting' = {Plain(x) : x \in UNION {queue'[i] : i \in Index}}
  BY DEF Waiting, Plain, Index
<1>2. ASSUME NEW i \in Index, NEW z \in queue'[i]
      PROVE  Plain(z) \in {Plain(Resolve(in, x)) : x \in {y \in Standing(in) : ~Killed(in, y)}}
  <2>1. PICK x \in Base(in, From(in, i)) : z = Wake(in, x) /\ ~Killed(in, x)
    BY NextEntry
  <2>2. x \in Standing(in)
    BY <2>1, FromPlace DEF Standing
  <2>3. Plain(z) = Plain(Resolve(in, x))
    BY <2>1, <2>2, StandingIs, ResolveTypes
  <2> QED
    BY <2>1, <2>2, <2>3
<1>3. ASSUME NEW x \in Standing(in), ~Killed(in, x)
      PROVE  Plain(Resolve(in, x)) \in {Plain(z) : z \in UNION {queue'[i] : i \in Index}}
  <2>1. PICK k \in Places : x \in Base(in, k)
    BY DEF Standing
  <2>2. PICK i \in Index : From(in, i) = k
    BY <2>1, NothingPassedOver
  <2>3. Wake(in, x) \in queue'[i]
    BY <1>3, <2>1, <2>2, NextEntry
  <2>4. Plain(Wake(in, x)) = Plain(Resolve(in, x))
    BY StandingIs, ResolveTypes
  <2> QED
    BY <2>3, <2>4
<1> QED
  BY <1>1, <1>2, <1>3

LEMMA SlotsOfPlain ==
  ASSUME NEW S
  PROVE  \A s : s \in O!SlotsOf({Plain(x) : x \in S}) <=> \E x \in S : x.slot = s
<1>1. \A x : Plain(x).slot = x.slot
  BY DEF Plain
<1>2. O!SlotsOf({Plain(x) : x \in S}) = {p.slot : p \in {Plain(x) : x \in S}}
  BY DEF O!SlotsOf
<1> QED
  BY <1>1, <1>2

(* The instructions that stay keep their order. *)
LEMMA BeforeNext ==
  ASSUME IssueTypeOK, NEW in \in IssueInput, IssueCycle(in)
  PROVE  Before' = (Before \cup (O!SlotsOf(Waiting) \X O!SlotsOf({Plain(x) : x \in in.allocate})))
                     \cap (O!SlotsOf(Waiting') \X O!SlotsOf(Waiting'))
<1>1. \A s : s \in O!SlotsOf(Waiting) <=> \E i \in Index : \E x \in queue[i] : x.slot = s
  <2>1. PICK U : U = UNION {queue[i] : i \in Index}
    OBVIOUS
  <2>2. Waiting = {Plain(x) : x \in U}
    BY <2>1 DEF Waiting
  <2>3. \A s : s \in O!SlotsOf({Plain(x) : x \in U}) <=> \E x \in U : x.slot = s
    BY SlotsOfPlain
  <2>4. \A x : x \in U <=> \E i \in Index : x \in queue[i]
    BY <2>1
  <2> QED
    BY <2>2, <2>3, <2>4
<1>2. \A s : s \in O!SlotsOf(Waiting') <=> \E i \in Index : \E x \in queue'[i] : x.slot = s
  <2>1. PICK U : U = UNION {queue'[i] : i \in Index}
    OBVIOUS
  <2>2. Waiting' = {Plain(x) : x \in U}
    BY <2>1 DEF Waiting, Plain, Index
  <2>3. \A s : s \in O!SlotsOf({Plain(x) : x \in U}) <=> \E x \in U : x.slot = s
    BY SlotsOfPlain
  <2>4. \A x : x \in U <=> \E i \in Index : x \in queue'[i]
    BY <2>1
  <2> QED
    BY <2>2, <2>3, <2>4
<1>3. \A s : s \in O!SlotsOf({Plain(x) : x \in in.allocate}) <=> \E x \in in.allocate : x.slot = s
  BY SlotsOfPlain
<1>4. \A a, b : <<a, b>> \in Before <=>
         /\ a \in Slot /\ b \in Slot
         /\ \E i, j \in Index : i < j /\ (\E x \in queue[i] : x.slot = a) /\ (\E x \in queue[j] : x.slot = b)
  BY DEF Before
<1>5. \A a, b : <<a, b>> \in Before' <=>
         /\ a \in Slot /\ b \in Slot
         /\ \E i, j \in Index : i < j /\ (\E x \in queue'[i] : x.slot = a) /\ (\E x \in queue'[j] : x.slot = b)
  BY DEF Before, Index
<1>6. ASSUME NEW i \in Index, NEW z \in queue'[i]
      PROVE  \E x \in Base(in, From(in, i)) : x \in QueueEntry /\ x.slot = z.slot /\ z.slot \in Slot
  <2>1. PICK x \in Base(in, From(in, i)) : z = Wake(in, x)
    BY NextEntry
  <2>2. x \in QueueEntry
    BY FromPlace, BaseFacts DEF AtMostOne
  <2>3. x.slot \in Slot
    BY <2>2 DEF QueueEntry
  <2> QED
    BY <2>1, <2>2, <2>3, ResolveTypes
<1>7. ASSUME NEW a, NEW b, <<a, b>> \in Before'
      PROVE  /\ <<a, b>> \in Before \/ (a \in O!SlotsOf(Waiting) /\ b \in O!SlotsOf({Plain(x) : x \in in.allocate}))
             /\ a \in O!SlotsOf(Waiting') /\ b \in O!SlotsOf(Waiting')
  <2>1. PICK i \in Index, j \in Index : i < j /\ (\E x \in queue'[i] : x.slot = a) /\ (\E x \in queue'[j] : x.slot = b)
    BY <1>5, <1>7
  <2>2. PICK x \in Base(in, From(in, i)) : x.slot = a /\ a \in Slot
    BY <1>6, <2>1
  <2>3. PICK y \in Base(in, From(in, j)) : y.slot = b /\ b \in Slot
    BY <1>6, <2>1
  <2>4. From(in, i) < From(in, j) /\ From(in, i) \in Places /\ From(in, j) \in Places
    BY <2>1, FromGrows
  <2>5. From(in, i) # instrIssueDepth
    BY <2>4, DepthIs DEF Places
  <2>6. From(in, i) \in Index /\ x \in queue[From(in, i)]
    BY <2>4, <2>5, BaseApart
  <2>7. CASE From(in, j) = instrIssueDepth
    <3>1. y \in in.allocate
      BY <2>4, <2>7, BaseApart
    <3> QED
      BY <1>1, <1>2, <1>3, <2>1, <2>2, <2>3, <2>6, <3>1
  <2>8. CASE From(in, j) # instrIssueDepth
    <3>1. From(in, j) \in Index /\ y \in queue[From(in, j)]
      BY <2>4, <2>8, BaseApart
    <3> QED
      BY <1>2, <1>4, <2>1, <2>2, <2>3, <2>4, <2>6, <3>1
  <2> QED
    BY <2>7, <2>8
<1>8. ASSUME NEW a, NEW b, a \in O!SlotsOf(Waiting'), b \in O!SlotsOf(Waiting'),
             <<a, b>> \in Before \/ (a \in O!SlotsOf(Waiting) /\ b \in O!SlotsOf({Plain(x) : x \in in.allocate}))
      PROVE  <<a, b>> \in Before'
  <2>1. PICK i \in Index : \E x \in queue'[i] : x.slot = a
    BY <1>2, <1>8
  <2>2. PICK j \in Index : \E x \in queue'[j] : x.slot = b
    BY <1>2, <1>8
  <2>3. PICK x \in Base(in, From(in, i)) : x.slot = a /\ a \in Slot
    BY <1>6, <2>1
  <2>4. PICK y \in Base(in, From(in, j)) : y.slot = b /\ b \in Slot
    BY <1>6, <2>2
  <2>5. From(in, i) \in Places /\ From(in, j) \in Places
    BY FromPlace
  <2>6. ASSUME NEW k \in Places, NEW z \in Base(in, k), NEW l \in Index, NEW u \in queue[l], z.slot = u.slot
        PROVE  k = l
    <3>1. CASE k = instrIssueDepth
      <4>1. z \in in.allocate /\ u \in Present
        BY <2>6, <3>1, BaseApart DEF Present
      <4> QED
        BY <2>6, <4>1, InputFacts
    <3>2. CASE k # instrIssueDepth
      <4>1. k \in Index /\ z \in queue[k]
        BY <2>6, <3>2, BaseApart
      <4> QED
        BY <2>6, <4>1 DEF IssueTypeOK
    <3> QED
      BY <3>1, <3>2
  <2>7. From(in, i) < From(in, j)
    <3>1. CASE <<a, b>> \in Before
      <4>1. PICK l \in Index, m \in Index : l < m /\ (\E u \in queue[l] : u.slot = a) /\ (\E u \in queue[m] : u.slot = b)
        BY <1>4, <3>1
      <4>2. From(in, i) = l /\ From(in, j) = m
        BY <2>3, <2>4, <2>5, <2>6, <4>1
      <4> QED
        BY <4>1, <4>2
    <3>2. CASE a \in O!SlotsOf(Waiting) /\ b \in O!SlotsOf({Plain(v) : v \in in.allocate})
      <4>1. PICK l \in Index : \E u \in queue[l] : u.slot = a
        BY <1>1, <3>2
      <4>2. From(in, i) = l
        BY <2>3, <2>5, <2>6, <4>1
      <4>3. PICK v \in in.allocate : v.slot = b
        BY <1>3, <3>2
      <4>4. From(in, j) = instrIssueDepth
        <5>1. instrIssueDepth \in Places /\ v \in Base(in, instrIssueDepth)
          BY <4>3, DepthIs DEF Places, Base
        <5> QED
          BY <2>4, <2>5, <4>3, <5>1, BaseFacts
      <4> QED
        BY <4>2, <4>4, DepthIs DEF Index
    <3> QED
      BY <1>8, <3>1, <3>2
  <2>8. i < j
    <3>1. i \in Int /\ j \in Int /\ From(in, i) \in Int /\ From(in, j) \in Int
      BY <2>5, DepthIs DEF Index, Places
    <3>2. j < i => From(in, j) < From(in, i)
      BY FromGrows
    <3>3. i = j => From(in, i) = From(in, j)
      OBVIOUS
    <3> QED
      BY <2>7, <3>1, <3>2, <3>3
  <2> QED
    BY <1>5, <2>1, <2>2, <2>3, <2>4, <2>8
<1>9. Before' \subseteq Slot \X Slot /\ Before \subseteq Slot \X Slot
  BY DEF Before
<1>10. \A p \in Before' : p = <<p[1], p[2]>>
  BY <1>9
<1>11. \A p \in Before \cup (O!SlotsOf(Waiting) \X O!SlotsOf({Plain(x) : x \in in.allocate})) : p = <<p[1], p[2]>>
  BY <1>9
<1> QED
  BY <1>7, <1>8, <1>10, <1>11

(* A newcomer finds room: fewer instructions wait than there are entries. *)
LEMMA RoomForNewcomer ==
  ASSUME IssueTypeOK, NEW in \in IssueInput, in.allocate # {}
  PROVE  Cardinality(Waiting) < instrIssueDepth
<1>1. PICK hole \in Index : queue[hole] = {}
  BY InputFacts DEF Valid
<1>2. PICK S : S = Index \ {hole}
  OBVIOUS
<1>3. IsFiniteSet(S) /\ Cardinality(S) = instrIssueDepth - 1
  <2>1. IsFiniteSet(Index) /\ Cardinality(Index) = instrIssueDepth
    BY DepthIs, FS_Interval DEF Index
  <2> QED
    BY <1>2, <2>1, FS_RemoveElement
<1>4. PICK f : f = [p \in Waiting |-> CHOOSE i \in S : \E x \in queue[i] : p = Plain(x)]
  OBVIOUS
<1>5. \A p \in Waiting : f[p] \in S /\ \E x \in queue[f[p]] : p = Plain(x)
  <2> TAKE p \in Waiting
  <2>1. PICK k \in Index : \E x \in queue[k] : p = Plain(x)
    BY DEF Waiting
  <2>2. k \in S
    BY <1>1, <1>2, <2>1
  <2> QED
    BY <1>4, <2>1, <2>2
<1>6. f \in [Waiting -> S]
  BY <1>4, <1>5
<1>7. ASSUME NEW p \in Waiting, NEW q \in Waiting, f[p] = f[q] PROVE p = q
  <2>1. PICK x \in queue[f[p]] : p = Plain(x)
    BY <1>5
  <2>2. PICK y \in queue[f[p]] : q = Plain(y)
    BY <1>5, <1>7
  <2>3. queue[f[p]] \in AtMostOne(QueueEntry)
    BY <1>2, <1>5 DEF IssueTypeOK
  <2>4. x = y
    BY <2>1, <2>2, <2>3 DEF AtMostOne
  <2> QED
    BY <2>1, <2>2, <2>4
<1>8. f \in Injection(Waiting, S)
  BY <1>6, <1>7 DEF Injection, IsInjective
<1>9. IsFiniteSet(Waiting) /\ Cardinality(Waiting) <= Cardinality(S)
  BY <1>3, <1>8, FS_Injection
<1>10. Cardinality(Waiting) \in Nat
  BY <1>9, FS_CardinalityType
<1> QED
  BY <1>3, <1>9, <1>10, DepthIs

(* The newcomer's slot is nobody else's. *)
LEMMA NewcomerApart ==
  ASSUME IssueTypeOK, NEW in \in IssueInput, NEW p \in {Plain(x) : x \in in.allocate}
  PROVE  p.slot \notin O!SlotsOf(Waiting \cup {Plain(x) : x \in releasedBuffer})
<1>1. PICK x \in in.allocate : p.slot = x.slot
  BY DEF Plain
<1>2. PICK P : P = Present
  OBVIOUS
<1>3. Waiting \cup {Plain(v) : v \in releasedBuffer} = {Plain(v) : v \in P}
  BY <1>2 DEF Waiting, Present
<1>4. \A s : s \in O!SlotsOf({Plain(v) : v \in P}) <=> \E v \in P : v.slot = s
  BY SlotsOfPlain
<1>5. \A y \in P : x.slot # y.slot
  BY <1>1, <1>2, InputFacts
<1> QED
  BY <1>1, <1>3, <1>4, <1>5

(* A branch or a memory access leaves only when no older one waits. *)
LEMMA LeavesInOrder ==
  ASSUME IssueTypeOK, NEW in \in IssueInput, NEW p \in {Plain(x) : x \in Leaving(in)}
  PROVE  O!MayIssue(p) /\ p \in Waiting
<1>1. PICK x \in Leaving(in) : p = Plain(x)
  OBVIOUS
<1>2. PICK d \in dequeuedIndex(in) : x \in queue[d]
  BY <1>1 DEF Leaving
<1>3. d \in Index /\ readyVector(in, d)
  BY <1>2 DEF dequeuedIndex
<1>4. PICK x1 \in queue[d] : /\ x1.class = "br" => \A j \in 0 .. d - 1 : ~Holds(j, "br")
                             /\ x1.class = "mem" => \A j \in 0 .. d - 1 : ~Holds(j, "mem")
  BY <1>3 DEF readyVector
<1>5. x1 = x
  BY <1>2, <1>3, <1>4 DEF IssueTypeOK, AtMostOne
<1>6. p.class = x.class /\ p.slot = x.slot /\ p \in Waiting
  <2>1. p \in Waiting
    BY <1>1, <1>2, <1>3 DEF Waiting
  <2> QED
    BY <1>1, <2>1 DEF Plain
<1>7. ASSUME p.class \in {"br", "mem"}, NEW q \in Waiting, q.class = p.class, <<q.slot, p.slot>> \in Before PROVE FALSE
  <2>1. PICK i \in Index, j \in Index : i < j /\ (\E y \in queue[i] : y.slot = q.slot) /\ (\E y \in queue[j] : y.slot = p.slot)
    BY <1>7 DEF Before
  <2>2. j = d
    BY <1>2, <1>3, <1>6, <2>1 DEF IssueTypeOK
  <2>3. PICK k \in Index : \E z \in queue[k] : q = Plain(z)
    BY DEF Waiting
  <2>4. PICK z \in queue[k] : q = Plain(z)
    BY <2>3
  <2>5. z.slot = q.slot /\ z.class = q.class
    BY <2>4 DEF Plain
  <2>6. k = i
    BY <2>1, <2>4, <2>5 DEF IssueTypeOK
  <2>7. i \in 0 .. d - 1
    BY <1>3, <2>1, <2>2, DepthIs DEF Index
  <2>8. Holds(i, q.class)
    BY <2>4, <2>5, <2>6 DEF Holds
  <2> QED
    BY <1>4, <1>5, <1>6, <1>7, <2>7, <2>8
<1> QED
  BY <1>6, <1>7 DEF O!MayIssue, O!InOrder

(* A cycle of the array is a cycle of the queue in program order. *)
LEMMA CycleImplements ==
  ASSUME IssueTypeOK, NEW in \in IssueInput, IssueCycle(in)
  PROVE  O!Next
<1>1. PICK joins : joins = {Plain(x) : x \in in.allocate}
  OBVIOUS
<1>2. PICK leaves : leaves = IF dequeue(in) THEN {Plain(x) : x \in Leaving(in)} ELSE {}
  OBVIOUS
<1>3. PICK fires \in BOOLEAN : fires <=> in.fired
  OBVIOUS
<1>4. PICK failed \in BOOLEAN : failed <=> \E b \in in.branchOps : ~b.passed
  OBVIOUS
<1>5. PICK bits : bits = ResolvedBits(in)
  OBVIOUS
<1>6. PICK rel : rel = {Plain(x) : x \in releasedBuffer}
  OBVIOUS
<1>7. joins \in O!AtMostOne(O!Instr)
  <2>1. \A x \in QueueEntry : Plain(x) \in O!Instr
    BY DEF QueueEntry, Plain, O!Instr
  <2>2. in.allocate = {} \/ \E x \in QueueEntry : in.allocate = {x}
    BY InputFacts DEF AtMostOne
  <2> QED
    BY <1>1, <2>1, <2>2 DEF O!AtMostOne
<1>8. leaves \in O!AtMostOne(Waiting)
  <2>1. Leaving(in) = {} \/ \E x \in QueueEntry : Leaving(in) = {x}
    BY LeavingFacts DEF AtMostOne
  <2>2. \A p \in leaves : p \in Waiting
    BY <1>2, LeavesInOrder
  <2> QED
    BY <1>2, <2>1, <2>2 DEF O!AtMostOne
<1>9. bits \in O!AtMostOne(Bits)
  <2>1. in.branchOps = {} \/ \E b \in [bit : Bits, passed : BOOLEAN] : in.branchOps = {b}
    BY InputFacts DEF AtMostOne
  <2> QED
    BY <1>5, <2>1 DEF O!AtMostOne, ResolvedBits
<1>10. joins # {} => Cardinality(Waiting) < instrIssueDepth
  BY <1>1, RoomForNewcomer
<1>11. \A p \in joins : p.slot \notin O!SlotsOf(Waiting \cup rel)
  BY <1>1, <1>6, NewcomerApart
<1>12. leaves # {} => (\A p \in leaves : O!MayIssue(p)) /\ (fires \/ rel = {})
  <2>1. \A p \in leaves : O!MayIssue(p)
    BY <1>2, LeavesInOrder
  <2> QED
    BY <1>2, <1>3, <1>6, <2>1 DEF dequeue
<1>13. Waiting' = O!Kept((Waiting \ leaves) \cup joins, bits, failed)
  <2>1. PICK S : S = Standing(in)
    OBVIOUS
  <2>2. S \in SUBSET QueueEntry /\ {Plain(x) : x \in S} = (Waiting \ leaves) \cup joins
    BY <1>1, <1>2, <2>1, StandingIs
  <2>3. O!Kept({Plain(x) : x \in S}, ResolvedBits(in), failed)
           = {Plain(Resolve(in, x)) : x \in {y \in S : ~Killed(in, y)}}
    BY <1>4, <2>2, KeptIs
  <2> QED
    BY <1>5, <2>1, <2>2, <2>3, WaitingNext
<1>14. Before' = (Before \cup (O!SlotsOf(Waiting) \X O!SlotsOf(joins)))
                    \cap (O!SlotsOf(Waiting') \X O!SlotsOf(Waiting'))
  BY <1>1, BeforeNext
<1>15. {Plain(x) : x \in releasedBuffer}' =
          O!Kept(IF leaves # {} THEN leaves ELSE IF fires THEN {} ELSE rel, bits, failed)
  <2>1. PICK S : S = IF dequeue(in) THEN Leaving(in) ELSE releasedBuffer
    OBVIOUS
  <2>2. S \in SUBSET QueueEntry /\ releasedBuffer' = {Resolve(in, x) : x \in {y \in S : ~Killed(in, y)}}
    BY <2>1, NextReleased DEF AtMostOne
  <2>3. O!Kept({Plain(x) : x \in S}, ResolvedBits(in), failed)
           = {Plain(Resolve(in, x)) : x \in {y \in S : ~Killed(in, y)}}
    BY <1>4, <2>2, KeptIs
  <2>4. {Plain(x) : x \in S} = IF leaves # {} THEN leaves ELSE IF fires THEN {} ELSE rel
    <3>1. CASE ~dequeue(in)
      BY <1>2, <1>3, <1>6, <2>1, <3>1 DEF dequeue
    <3>2. CASE dequeue(in) /\ Leaving(in) # {}
      BY <1>2, <2>1, <3>2
    <3>3. CASE dequeue(in) /\ Leaving(in) = {}
      BY <1>2, <1>3, <1>6, <2>1, <3>3 DEF dequeue
    <3> QED
      BY <3>1, <3>2, <3>3
  <2>5. {Plain(x) : x \in releasedBuffer}' = {Plain(x) : x \in releasedBuffer'}
    BY DEF Plain
  <2>6. {Plain(x) : x \in releasedBuffer'} = {Plain(Resolve(in, x)) : x \in {y \in S : ~Killed(in, y)}}
    BY <2>2
  <2> QED
    BY <1>5, <2>3, <2>4, <2>5, <2>6
<1>16. O!Clock(joins, leaves, fires, bits, failed)
  <2>1. \A p \in joins : p.slot \notin O!SlotsOf(Waiting \cup {Plain(x) : x \in releasedBuffer})
    BY <1>6, <1>11
  <2>2. leaves # {} => (\A p \in leaves : O!MayIssue(p)) /\ (fires \/ {Plain(x) : x \in releasedBuffer} = {})
    BY <1>6, <1>12
  <2>3. {Plain(x) : x \in releasedBuffer}' =
          O!Kept(IF leaves # {} THEN leaves ELSE IF fires THEN {} ELSE {Plain(x) : x \in releasedBuffer}, bits, failed)
    BY <1>6, <1>15
  <2>4. joins # {} => O!Cardinality(Waiting) < instrIssueDepth
    <3>1. O!Cardinality(Waiting) = Cardinality(Waiting)
      BY DEF O!Cardinality, Cardinality
    <3> QED
      BY <1>10, <3>1
  <2> QED
    BY <1>13, <1>14, <2>1, <2>2, <2>3, <2>4, Zenon DEF O!Clock
<1> QED
  BY <1>3, <1>4, <1>7, <1>8, <1>9, <1>16 DEF O!Next

(* The issue queue (Backend/Scheduler/scheduler.scala), with the holes that *)
(* squashes leave in its array and the one-place moves that close them,     *)
(* behaves as a queue in program order: no instruction is lost or           *)
(* duplicated by the compaction, branches and memory accesses leave in      *)
(* order, and each register holds one instruction.                          *)
THEOREM SchedulerImplementsIssueOrder == IssueSpec => ImplementsIssueOrder
<1>1. IssueInit => IssueTypeOK
  BY IssueTypeInit
<1>2. IssueTypeOK /\ [IssueNext]_issueVars => IssueTypeOK'
  <2>1. ASSUME IssueTypeOK, IssueNext PROVE IssueTypeOK'
    <3>1. PICK in \in IssueInput : IssueCycle(in)
      BY <2>1 DEF IssueNext
    <3> QED
      BY <2>1, <3>1, IssueTypeStep
  <2>2. ASSUME IssueTypeOK, UNCHANGED issueVars PROVE IssueTypeOK'
    BY <2>2 DEF IssueTypeOK, issueVars, AtMostOne, QueueEntry, Index
  <2> QED
    BY <2>1, <2>2
<1>3. IssueInit => O!Init
  BY DEF IssueInit, O!Init, Waiting, Before
<1>4. IssueTypeOK /\ [IssueNext]_issueVars => [O!Next]_<<Waiting, Before, {Plain(x) : x \in releasedBuffer}>>
  <2>1. ASSUME IssueTypeOK, IssueNext PROVE O!Next
    <3>1. PICK in \in IssueInput : IssueCycle(in)
      BY <2>1 DEF IssueNext
    <3> QED
      BY <2>1, <3>1, CycleImplements
  <2>2. ASSUME UNCHANGED issueVars PROVE UNCHANGED <<Waiting, Before, {Plain(x) : x \in releasedBuffer}>>
    BY <2>2 DEF issueVars, Waiting, Before, Plain, Index
  <2> QED
    BY <2>1, <2>2
<1> QED
  BY <1>1, <1>2, <1>3, <1>4, PTL DEF IssueSpec, ImplementsIssueOrder, O!Spec

(***************************************************************************)
(* The reorder buffer's FIFO.                                              *)
(***************************************************************************)

(* The pointers and the flags alone: what an invariant of the buffer has to *)
(* carry from one cycle to the next.                                        *)
PointersOK == /\ readReg \in Slots
              /\ writeReg \in Slots
              /\ fullReg \in BOOLEAN
              /\ emptyReg \in BOOLEAN
              /\ FlagsMatchPointers

USE DepthAssumption, PortsAssumption

(* The reset value of the pointers is a slot. *)
LEMMA ZeroSlot == 0 \in Slots
  BY DEF Slots

(* The successor of a slot is another slot. *)
LEMMA SuccSlot == \A p \in Slots : Succ(p) \in Slots /\ Succ(p) # p
  BY DEF Succ, Slots

(* Succ is injective: two pointers that advance together meet only if they  *)
(* had met before.                                                          *)
LEMMA SuccInjective == \A p, r \in Slots : Succ(p) = Succ(r) => p = r
  BY DEF Succ, Slots

(* One cycle keeps the memory a function from slots to entries: write ports *)
(* and enqueue only store entries (MemNext).                                *)
LEMMA MemStep == ASSUME TypeOK, NEW in \in Input, MemNext(in)
                 PROVE  memReg' \in [Slots -> Entry]
<1>1. \A s \in DOMAIN in.writes : in.writes[s] \in Entry
  BY DEF Input, PortWrites
<1>2. in.bits \in Entry
  BY DEF Input
<1>3. QED
  BY <1>1, <1>2 DEF MemNext, TypeOK

(* One cycle keeps pointers in range and the flags consistent with them.    *)
LEMMA PointersStep == ASSUME PointersOK, NEW in \in Input, Legal(in), Cycle(in)
                      PROVE  PointersOK'
<1>1. in.modifyVal \in Slots
  BY DEF Input
<1>2. CASE Rollback(in)
  BY <1>1, <1>2, SuccSlot DEF Rollback, PointersOK, FlagsMatchPointers
<1>3. CASE EnqDeq(in)
  <2>1. ~emptyReg
    BY <1>3 DEF EnqDeq, incrRead, deqValid
  <2>2. QED
    BY <1>3, <2>1, SuccSlot, SuccInjective DEF EnqDeq, PointersOK, FlagsMatchPointers
<1>4. CASE Enq(in)
  <2>1. ~fullReg
    BY <1>4 DEF Enq, incrWrite, enqReady
  <2>2. QED
    BY <1>4, <2>1, SuccSlot DEF Enq, PointersOK, FlagsMatchPointers
<1>5. CASE Deq(in)
  BY <1>5, SuccSlot DEF Deq, PointersOK, FlagsMatchPointers
<1>6. CASE Hold(in)
  BY <1>6 DEF Hold, PointersOK, FlagsMatchPointers
<1>7. CASE FlushAll(in)
  BY <1>7 DEF FlushAll, Legal, incrRead, PointersOK, FlagsMatchPointers
<1>8. CASE Reset(in)
  BY <1>8, ZeroSlot DEF Reset, PointersOK, FlagsMatchPointers
<1>9. QED
  BY <1>2, <1>3, <1>4, <1>5, <1>6, <1>7, <1>8 DEF Cycle

(* The inductive invariant of the buffer. *)
IInv == TypeOK /\ FlagsMatchPointers

LEMMA IInvStep == IInv /\ [Next]_vars => IInv'
<1> SUFFICES ASSUME IInv, [Next]_vars PROVE IInv'
  OBVIOUS
<1>1. CASE Next
  <2>1. PICK in \in Input : Legal(in) /\ Cycle(in)
    BY <1>1 DEF Next
  <2>2. PointersOK'
    BY <2>1, PointersStep DEF IInv, TypeOK, PointersOK
  <2>3. memReg' \in [Slots -> Entry]
    BY <2>1, MemStep DEF IInv, Cycle
  <2>4. QED
    BY <2>2, <2>3 DEF IInv, TypeOK, PointersOK
<1>2. CASE UNCHANGED vars
  BY <1>2 DEF vars, IInv, TypeOK, FlagsMatchPointers
<1>3. QED
  BY <1>1, <1>2

LEMMA IInvInit == Init => IInv
  BY ZeroSlot DEF Init, IInv, TypeOK, FlagsMatchPointers

(* The pointers of robFifo never leave its memory and its registers keep    *)
(* their types in every reachable cycle.                                    *)
THEOREM TypeCorrect == Spec => []TypeOK
<1>1. IInv => TypeOK
  BY DEF IInv
<1>2. QED
  BY <1>1, IInvInit, IInvStep, PTL DEF Spec

(* In every reachable cycle fullReg or emptyReg is set exactly when the     *)
(* pointers meet, for any sequence of enqueues, dequeues, rollbacks to      *)
(* arbitrary targets, flushes and resets.                                   *)
THEOREM FlagsCorrect == Spec => []FlagsMatchPointers
<1>1. IInv => FlagsMatchPointers
  BY DEF IInv
<1>2. QED
  BY <1>1, IInvInit, IInvStep, PTL DEF Spec

(* Both together, the property the run rob_fifo checks: pointers inside the *)
(* memory of robFifo and flags that agree with them, for every depth.       *)
THEOREM FifoConsistent == Spec => []Consistent
<1>1. TypeOK /\ FlagsMatchPointers => Consistent
  BY DEF Consistent
<1>2. QED
  BY <1>1, TypeCorrect, FlagsCorrect, PTL

-----------------------------------------------------------------------------
(***************************************************************************)
(* Refinement: without write ports the buffer implements RobQueue.         *)
(***************************************************************************)

(* How many entries are live, and where the next one goes: occupancy        *)
(* (Fifo.scala:116) is the number of slots from readReg to writeReg.        *)
LEMMA OccupancyBounds ==
  IInv => /\ occupancy \in 0 .. Depth
          /\ emptyReg <=> occupancy = 0
          /\ fullReg <=> occupancy = Depth
          /\ writeReg = After(readReg, occupancy)
<1> HAVE IInv
<1>1. CASE emptyReg
  <2>1. occupancy = 0 /\ ~fullReg /\ readReg = writeReg
    BY <1>1 DEF occupancy, IInv, FlagsMatchPointers
  <2>2. After(readReg, 0) = readReg
    BY DEF After, IInv, TypeOK, Slots
  <2>3. QED
    BY <1>1, <2>1, <2>2
<1>2. CASE ~emptyReg /\ fullReg
  <2>1. occupancy = Depth /\ readReg = writeReg
    BY <1>2 DEF occupancy, IInv, FlagsMatchPointers
  <2>2. After(readReg, Depth) = readReg
    BY DEF After, IInv, TypeOK, Slots
  <2>3. QED
    BY <1>2, <2>1, <2>2
<1>3. CASE ~emptyReg /\ ~fullReg
  <2>1. occupancy = Dist(readReg, writeReg) /\ readReg # writeReg
    BY <1>3 DEF occupancy, IInv, FlagsMatchPointers
  <2>2. /\ Dist(readReg, writeReg) \in 1 .. Depth - 1
        /\ After(readReg, Dist(readReg, writeReg)) = writeReg
    BY <2>1 DEF Dist, After, IInv, TypeOK, Slots
  <2>3. QED
    BY <1>3, <2>1, <2>2
<1>4. QED
  BY <1>1, <1>2, <1>3

(* Facts of slot arithmetic. *)
LEMMA AfterSlot == \A p \in Slots : \A k \in 0 .. Depth - 1 : After(p, k) \in Slots
  BY DEF After, Slots

LEMMA AfterInjective ==
  \A p \in Slots : \A j, k \in 0 .. Depth - 1 : After(p, j) = After(p, k) => j = k
  BY DEF After, Slots

LEMMA AfterInjective1 ==
  \A p \in Slots : \A j, k \in 1 .. Depth : After(p, j) = After(p, k) => j = k
  BY DEF After, Slots

LEMMA AfterSucc ==
  \A p \in Slots : \A k \in 0 .. Depth - 1 : After(Succ(p), k) = After(p, k + 1)
  BY DEF After, Slots, Succ

LEMMA SuccAfter ==
  \A p \in Slots : \A k \in 0 .. Depth - 1 : Succ(After(p, k)) = After(p, k + 1)
  BY DEF After, Slots, Succ

LEMMA DistAfter ==
  \A p, t \in Slots : Dist(p, t) \in 0 .. Depth - 1 /\ After(p, Dist(p, t)) = t
  BY DEF Dist, After, Slots

(* The live window is a sequence of entries, as long as it is occupied.     *)
LEMMA WindowSeq == IInv => Window \in Seq(Entry) /\ Len(Window) = occupancy
<1> HAVE IInv
<1>1. occupancy \in Nat /\ occupancy <= Depth
  BY OccupancyBounds
<1>2. \A i \in 1 .. occupancy : memReg[After(readReg, i - 1)] \in Entry
  BY <1>1, AfterSlot DEF IInv, TypeOK
<1>3. QED
  BY <1>1, <1>2 DEF Window

(* With no write port a cycle stores at most the enqueued entry.            *)
LEMMA NoPortWrites ==
  ASSUME NumWritePorts = 0, NEW in \in Input
  PROVE  DOMAIN in.writes = {}
<1>1. PICK S \in SUBSET Slots : Cardinality(S) <= 0 /\ in.writes \in [S -> Entry]
  BY DEF Input, PortWrites
<1>2. IsFiniteSet(Slots)
  BY FS_Interval DEF Slots
<1>3. IsFiniteSet(S)
  BY <1>1, <1>2, FS_Subset
<1>4. Cardinality(S) = 0
  BY <1>1, <1>3, FS_CardinalityType
<1>5. S = {}
  BY <1>3, <1>4, FS_EmptySet
<1>6. QED
  BY <1>1, <1>5

(* Every cycle of a buffer without write ports is a step of the queue or    *)
(* leaves it unchanged: an enqueue appends, a dequeue drops the head, both  *)
(* together do both, a rollback keeps a prefix that ends with its target,   *)
(* and flushAll and reset empty it.                                         *)
LEMMA QueueStep ==
  ASSUME NumWritePorts = 0, IInv, IInv', NEW in \in Input, Legal(in), Cycle(in)
  PROVE  Queue!Next \/ UNCHANGED Window
<1>1. /\ Window \in Seq(Entry) /\ Len(Window) = occupancy
      /\ Window' \in Seq(Entry) /\ Len(Window') = occupancy'
      /\ occupancy \in 0 .. Depth /\ occupancy' \in 0 .. Depth
  <2>1. (Window \in Seq(Entry) /\ Len(Window) = occupancy /\ occupancy \in 0 .. Depth)'
    BY WindowSeq, OccupancyBounds, PTL
  <2>2. QED
    BY <2>1, WindowSeq, OccupancyBounds
<1>2. /\ readReg \in Slots /\ writeReg \in Slots
      /\ readReg' \in Slots /\ writeReg' \in Slots
      /\ memReg \in [Slots -> Entry] /\ memReg' \in [Slots -> Entry]
      /\ in.modifyVal \in Slots /\ in.bits \in Entry
  BY DEF IInv, TypeOK, Input
<1>3. \A s \in Slots : memReg'[s] = IF incrWrite(in) /\ s = writeReg
                                     THEN in.bits ELSE memReg[s]
  BY NoPortWrites DEF Cycle, MemNext
<1>4. /\ \A i \in 1 .. occupancy : Window[i] = memReg[After(readReg, i - 1)]
      /\ \A i \in 1 .. occupancy' : Window'[i] = memReg'[After(readReg', i - 1)]
  BY DEF Window
<1>5. /\ emptyReg <=> occupancy = 0
      /\ fullReg <=> occupancy = Depth
      /\ writeReg = After(readReg, occupancy)
      /\ emptyReg' <=> occupancy' = 0
      /\ fullReg' <=> occupancy' = Depth
      /\ writeReg' = After(readReg', occupancy')
  <2>1. (/\ emptyReg <=> occupancy = 0
         /\ fullReg <=> occupancy = Depth
         /\ writeReg = After(readReg, occupancy))'
    BY OccupancyBounds, PTL
  <2>2. QED
    BY <2>1, OccupancyBounds
<1>6. CASE Rollback(in)
  <2> DEFINE k == Dist(readReg, in.modifyVal) + 1
  <2> DEFINE d == Dist(readReg, in.modifyVal)
  <2>1. /\ k \in 1 .. occupancy
        /\ After(readReg, k - 1) = in.modifyVal
    <3>1. d \in 0 .. Depth - 1 /\ After(readReg, d) = in.modifyVal
      BY <1>2, DistAfter
    <3>2. d < occupancy
      BY <1>6 DEF Rollback, doModify, modifyInWindow
    <3>3. k - 1 = d
      BY <3>1
    <3>4. occupancy \in 0 .. Depth
      BY <1>1
    <3> HIDE DEF d
    <3>5. k \in 1 .. occupancy
      BY <3>1, <3>2, <3>4 DEF d
    <3>6. QED
      BY <3>1, <3>3, <3>5
  <2> HIDE DEF k, d
  <2>2. occupancy' = k
    <3>1. writeReg' = After(readReg, k)
      BY <1>1, <1>2, <1>6, <2>1, SuccAfter DEF Rollback
    <3>2. readReg' = readReg /\ occupancy' # 0
      BY <1>5, <1>6 DEF Rollback
    <3>3. QED
      <4>1. occupancy' \in 1 .. Depth /\ k \in 1 .. Depth
        BY <1>1, <2>1, <3>2
      <4>2. After(readReg, occupancy') = After(readReg, k)
        BY <1>5, <3>1, <3>2
      <4>3. QED
        BY <1>2, <4>1, <4>2, AfterInjective1
  <2>3. \A i \in 1 .. k : Window'[i] = Window[i]
    <3>1. ~incrWrite(in) /\ readReg' = readReg
      BY <1>6 DEF Rollback, incrWrite, enqReady
    <3>2. SUFFICES ASSUME NEW i \in 1 .. k PROVE Window'[i] = Window[i]
      OBVIOUS
    <3>3. i \in 1 .. occupancy /\ i \in 1 .. occupancy' /\ i - 1 \in 0 .. Depth - 1
      BY <1>1, <2>1, <2>2
    <3>4. memReg'[After(readReg, i - 1)] = memReg[After(readReg, i - 1)]
      BY <1>2, <1>3, <3>1, <3>3, AfterSlot
    <3>5. QED
      BY <1>4, <3>1, <3>3, <3>4
  <2>4. Window' = SubSeq(Window, 1, k)
    <3>1. /\ SubSeq(Window, 1, k) \in Seq(Entry) /\ Len(SubSeq(Window, 1, k)) = k
          /\ \A i \in 1 .. k : SubSeq(Window, 1, k)[i] = Window[i]
      BY <1>1, <2>1
    <3>2. QED
      BY <1>1, <2>2, <2>3, <3>1
  <2>5. QED
    BY <1>1, <2>1, <2>4 DEF Queue!Next, Queue!Squash
<1>7. CASE Enq(in)
  <2>1. occupancy \in 0 .. Depth - 1 /\ readReg' = readReg /\ incrWrite(in)
    BY <1>1, <1>5, <1>7 DEF Enq, incrWrite, enqReady
  <2>2. occupancy' = occupancy + 1
    <3>1. writeReg' = After(readReg, occupancy + 1)
      BY <1>2, <1>5, <1>7, <2>1, SuccAfter DEF Enq
    <3>2. occupancy' \in 1 .. Depth
      BY <1>1, <1>5, <1>7 DEF Enq
    <3>3. After(readReg, occupancy') = After(readReg, occupancy + 1)
      BY <1>5, <2>1, <3>1
    <3>4. occupancy + 1 \in 1 .. Depth
      BY <2>1
    <3>5. QED
      BY <1>2, <3>2, <3>3, <3>4, AfterInjective1
  <2>3. ASSUME NEW i \in 1 .. occupancy' PROVE Window'[i] = Append(Window, in.bits)[i]
    <3>1. i - 1 \in 0 .. Depth - 1 /\ After(readReg, i - 1) \in Slots
      BY <1>1, <1>2, AfterSlot
    <3>2. CASE i = occupancy + 1
      <4>1. After(readReg, i - 1) = writeReg
        BY <1>1, <1>5, <3>2
      <4>2. QED
        BY <1>1, <1>3, <1>4, <2>1, <3>1, <3>2, <4>1
    <3>3. CASE i \in 1 .. occupancy
      <4>1. After(readReg, i - 1) # writeReg
        BY <1>1, <1>2, <1>5, <2>1, <3>1, <3>3, AfterInjective
      <4>2. Window'[i] = memReg'[After(readReg, i - 1)]
        BY <1>4, <2>1
      <4>3. QED
        BY <1>1, <1>3, <1>4, <3>1, <3>3, <4>1, <4>2
    <3>4. QED
      BY <1>1, <2>2, <3>2, <3>3
  <2>4. Window' = Append(Window, in.bits)
    BY <1>1, <1>2, <2>2, <2>3
  <2>5. QED
    BY <1>1, <1>2, <2>1, <2>4 DEF Queue!Next, Queue!Enqueue
<1>8. CASE Deq(in)
  <2>1. occupancy \in 1 .. Depth /\ readReg' = Succ(readReg) /\ ~incrWrite(in)
    BY <1>1, <1>5, <1>8 DEF Deq, incrRead, deqValid
  <2>2. occupancy' = occupancy - 1
    <3>1. writeReg' = After(Succ(readReg), occupancy - 1)
      BY <1>2, <1>5, <1>8, <2>1, AfterSucc DEF Deq
    <3>2. occupancy' \in 0 .. Depth - 1
      BY <1>1, <1>5, <1>8 DEF Deq
    <3>3. After(readReg', occupancy') = After(readReg', occupancy - 1)
      BY <1>5, <2>1, <3>1
    <3>4. occupancy - 1 \in 0 .. Depth - 1
      BY <2>1
    <3>5. QED
      BY <1>2, <3>2, <3>3, <3>4, AfterInjective
  <2>3. ASSUME NEW i \in 1 .. occupancy' PROVE Window'[i] = Tail(Window)[i]
    <3>1. i - 1 \in 0 .. Depth - 1 /\ i + 1 \in 1 .. occupancy /\ i \in 0 .. Depth - 1
      BY <1>1, <2>1, <2>2
    <3>2. After(readReg', i - 1) = After(readReg, i)
      BY <1>2, <2>1, <3>1, AfterSucc
    <3>3. Window'[i] = memReg[After(readReg, i)]
      BY <1>2, <1>3, <1>4, <2>1, <3>1, <3>2, AfterSlot
    <3>4. Window[i + 1] = memReg[After(readReg, i)]
      BY <1>4, <3>1
    <3>5. QED
      BY <1>1, <3>1, <3>3, <3>4
  <2>4. Window' = Tail(Window)
    BY <1>1, <2>1, <2>2, <2>3
  <2>5. QED
    BY <1>1, <2>1, <2>4 DEF Queue!Next, Queue!Dequeue
<1>9. CASE EnqDeq(in)
  <2>1. /\ occupancy \in 1 .. Depth /\ readReg' = Succ(readReg) /\ incrWrite(in)
        /\ occupancy' \in 1 .. Depth
    BY <1>1, <1>5, <1>9 DEF EnqDeq, incrRead, deqValid
  <2>2. occupancy' = occupancy
    <3>1. CASE fullReg
      BY <1>5, <1>9, <3>1 DEF EnqDeq
    <3>2. CASE ~fullReg
      <4>1. occupancy \in 1 .. Depth - 1
        BY <1>5, <2>1, <3>2
      <4>2. writeReg' = After(Succ(readReg), occupancy)
        <5>1. writeReg' = After(readReg, occupancy + 1)
          BY <1>2, <1>5, <1>9, <4>1, SuccAfter DEF EnqDeq
        <5>2. QED
          BY <1>2, <4>1, <5>1, AfterSucc
      <4>3. QED
        BY <1>2, <1>5, <2>1, <4>1, <4>2, AfterInjective1
    <3>3. QED
      BY <3>1, <3>2
  <2>3. ASSUME NEW i \in 1 .. occupancy'
        PROVE  Window'[i] = Append(Tail(Window), in.bits)[i]
    <3>1. i - 1 \in 0 .. Depth - 1 /\ i \in 1 .. occupancy /\ i \in 1 .. Depth
      BY <1>1, <2>1, <2>2
    <3>2. After(readReg', i - 1) = After(readReg, i) /\ After(readReg', i - 1) \in Slots
      BY <1>2, <2>1, <3>1, AfterSucc, AfterSlot
    <3>3. CASE i = occupancy
      <4>1. Window'[i] = in.bits
        BY <1>3, <1>4, <1>5, <2>1, <3>2, <3>3
      <4>2. QED
        BY <1>1, <2>1, <3>3, <4>1
    <3>4. CASE i # occupancy
      <4>1. i \in 1 .. occupancy - 1 /\ i + 1 \in 1 .. occupancy
        BY <1>1, <3>1, <3>4
      <4>2. After(readReg, i) # writeReg
        BY <1>1, <1>2, <1>5, <3>1, <3>4, AfterInjective1
      <4>3. Window'[i] = memReg[After(readReg, i)]
        BY <1>3, <1>4, <3>2, <4>2
      <4>4. Window[i + 1] = memReg[After(readReg, i)]
        BY <1>4, <3>1, <4>1
      <4>5. QED
        BY <1>1, <4>1, <4>3, <4>4
    <3>5. QED
      BY <3>3, <3>4
  <2>4. Window' = Append(Tail(Window), in.bits)
    BY <1>1, <1>2, <2>1, <2>2, <2>3
  <2>5. QED
    BY <1>1, <1>2, <2>1, <2>4 DEF Queue!Next, Queue!Replace
<1>10. CASE Hold(in)
  <2>1. readReg' = readReg /\ ~incrWrite(in) /\ occupancy' = occupancy
    BY <1>10 DEF Hold, occupancy
  <2>2. memReg' = memReg
    BY <1>2, <1>3, <2>1
  <2>3. QED
    BY <1>10, <2>1, <2>2 DEF Window
<1>11. CASE FlushAll(in) \/ Reset(in)
  <2>1. occupancy' = 0
    BY <1>5, <1>11 DEF FlushAll, Reset
  <2>2. QED
    BY <1>1, <2>1 DEF Queue!Next, Queue!Empty
<1>12. QED
  BY <1>6, <1>7, <1>8, <1>9, <1>10, <1>11 DEF Cycle

(* A robFifo (no write ports) is a bounded program-order queue: for every   *)
(* depth its behaviours, seen through the window between the pointers, are  *)
(* behaviours of RobQueue.                                                  *)
THEOREM RobFifoImplementsQueue ==
  ASSUME NumWritePorts = 0 PROVE Spec => ImplementsQueue
<1>1. Init => Queue!Init
  BY DEF Init, Queue!Init, Window, occupancy
<1>2. IInv /\ IInv' /\ [Next]_vars => [Queue!Next]_Window
  <2> SUFFICES ASSUME IInv, IInv', [Next]_vars PROVE [Queue!Next]_Window
    OBVIOUS
  <2>1. CASE Next
    <3>1. PICK in \in Input : Legal(in) /\ Cycle(in)
      BY <2>1 DEF Next
    <3>2. QED
      BY <3>1, QueueStep
  <2>2. CASE UNCHANGED vars
    BY <2>2 DEF vars, Window, occupancy
  <2>3. QED
    BY <2>1, <2>2
<1>3. QED
  BY <1>1, <1>2, IInvInit, IInvStep, PTL DEF Spec, ImplementsQueue, Queue!Spec

(***************************************************************************)
(* The M extension: the gate in front of the divider is exact, and the     *)
(* unit implements the pool of operations it promises to be.               *)
(***************************************************************************)

(* The gate, stage by stage: at most one divide is under way, and what has  *)
(* just been answered leaves the gate open.                                 *)
NoDivide == Divs(toExec) = {} /\ Divs(extnMRequest) = {} /\ division = {}

OneDivide ==
  /\ Divs(toExec) # {} => Divs(extnMRequest) = {} /\ division = {}
  /\ Divs(extnMRequest) # {} => division = {}

WatchesIt == \A x \in Op : x \in toExec \/ x \in extnMRequest \/ x \in division =>
                             (x.div => x.mask = divBranchMask)

OpenAfterAnswer == (divDone \/ \E r \in extnMResponse : r.div) => mExtensionReady

GateInv == /\ mExtensionReady <=> NoDivide
           /\ OneDivide /\ WatchesIt /\ OpenAfterAnswer

(* No two registers hold operations of one ROB slot. *)
Apart(S, T) == \A x \in S, y \in T : x.slot # y.slot
SlotsApart ==
  /\ Apart(toExec, extnMRequest) /\ Apart(toExec, extnMPartialServicing)
  /\ Apart(toExec, extnMServicing) /\ Apart(toExec, division)
  /\ Apart(extnMRequest, extnMPartialServicing) /\ Apart(extnMRequest, extnMServicing)
  /\ Apart(extnMRequest, division) /\ Apart(extnMPartialServicing, extnMServicing)
  /\ Apart(extnMPartialServicing, division) /\ Apart(extnMServicing, division)

UnitIInv == UnitTypeOK /\ GateInv /\ SlotsApart
-----------------------------------------------------------------------------
(* What an input is. *)
LEMMA UnitInputFacts ==
  ASSUME NEW in \in UnitInput
  PROVE  /\ in.release \subseteq Op /\ Single(in.release)
         /\ in.resolved \subseteq BranchBits
         /\ in.failed \in BOOLEAN /\ in.count \in 0 .. CounterMax
         /\ Apart(in.release, Pool)
<1>1. /\ in.release \in NoneOrOne(Op) /\ in.resolved \in NoneOrOne(BranchBits)
      /\ in.failed \in BOOLEAN /\ in.count \in Counts
      /\ Apart(in.release, Pool)
  BY DEF UnitInput, Apart
<1>2. \A T : \A S \in NoneOrOne(T) : S \subseteq T /\ Single(S)
  BY DEF NoneOrOne, Single
<1> QED
  BY <1>1, <1>2, CountsAssumption

(* The members of an aged register are the survivors, each without the      *)
(* resolved bit.                                                            *)
LEMMA AgedMember ==
  ASSUME NEW in, NEW S, S \subseteq Op
  PROVE  \A y : y \in Aged(in, S) <=>
            \E x \in S : /\ ~Squashed(in, x)
                         /\ y = [slot |-> x.slot, div |-> x.div, mask |-> x.mask \ in.resolved]
<1>1. \A x \in S : [x EXCEPT !.mask = @ \ in.resolved]
                     = [slot |-> x.slot, div |-> x.div, mask |-> x.mask \ in.resolved]
  BY DEF Op
<1> QED
  BY <1>1 DEF Aged

(* Whatever is in an aged register comes from a survivor. *)
LEMMA AgedOrigin ==
  ASSUME NEW in, NEW S, S \subseteq Op
  PROVE  \A y \in Aged(in, S) : \E x \in S : /\ ~Squashed(in, x)
                                            /\ y.slot = x.slot /\ y.div = x.div
                                            /\ y.mask = x.mask \ in.resolved
BY AgedMember

(* Ageing keeps the type, never adds, and keeps slot and class. *)
LEMMA AgedFacts ==
  ASSUME NEW in, NEW S, S \subseteq Op
  PROVE  /\ Aged(in, S) \subseteq Op
         /\ Single(S) => Single(Aged(in, S))
         /\ \A y \in Aged(in, S) : \E x \in S : /\ ~Squashed(in, x)
                                                /\ y.slot = x.slot /\ y.div = x.div
                                                /\ y.mask = x.mask \ in.resolved
         /\ S = {} => Aged(in, S) = {}
         /\ \A T : T \subseteq Op /\ Apart(S, T) => Apart(Aged(in, S), Aged(in, T))
<1>1. \A y \in Aged(in, S) : \E x \in S : /\ ~Squashed(in, x)
                                          /\ y.slot = x.slot /\ y.div = x.div
                                          /\ y.mask = x.mask \ in.resolved
  BY AgedOrigin
<1>2. Aged(in, S) \subseteq Op
  <2> SUFFICES ASSUME NEW y \in Aged(in, S) PROVE y \in Op
    OBVIOUS
  <2>1. PICK x \in S : y = [slot |-> x.slot, div |-> x.div, mask |-> x.mask \ in.resolved]
    BY AgedMember
  <2> QED
    BY <2>1 DEF Op
<1>3. Single(S) => Single(Aged(in, S))
  <2> SUFFICES ASSUME Single(S), NEW y \in Aged(in, S), NEW z \in Aged(in, S) PROVE y = z
    BY DEF Single
  <2>1. PICK x \in S : y = [slot |-> x.slot, div |-> x.div, mask |-> x.mask \ in.resolved]
    BY AgedMember
  <2>2. PICK w \in S : z = [slot |-> w.slot, div |-> w.div, mask |-> w.mask \ in.resolved]
    BY AgedMember
  <2>3. x = w
    BY DEF Single
  <2> QED
    BY <2>1, <2>2, <2>3
<1>4. S = {} => Aged(in, S) = {}
  BY <1>1
<1>5. ASSUME NEW T, T \subseteq Op, Apart(S, T)
      PROVE  Apart(Aged(in, S), Aged(in, T))
  <2>1. \A y \in Aged(in, T) : \E x \in T : y.slot = x.slot
    BY <1>5, AgedMember
  <2> QED
    BY <1>1, <1>5, <2>1 DEF Apart
<1> QED
  BY <1>1, <1>2, <1>3, <1>4, <1>5

(* No register is filled by a divide that was not there. *)
LEMMA AgedDivs ==
  ASSUME NEW in, NEW S, S \subseteq Op
  PROVE  /\ Divs(S) = {} => Divs(Aged(in, S)) = {}
         /\ (\A x \in Divs(S) : Squashed(in, x)) => Divs(Aged(in, S)) = {}
BY AgedFacts DEF Divs

(* Initially nothing is in the unit. *)
LEMMA UnitIInvInit == UnitInit => UnitIInv
<1> SUFFICES ASSUME UnitInit PROVE UnitIInv
  OBVIOUS
<1>1. UnitTypeOK
  <2>1. counter \in 0 .. CounterMax
    BY DEF UnitInit, CounterMax
  <2> QED
    BY <2>1, Zenon DEF UnitInit, UnitTypeOK, Divs, Single
<1>2. GateInv
  BY DEF UnitInit, GateInv, NoDivide, OneDivide, WatchesIt, OpenAfterAnswer, Divs
<1>3. SlotsApart
  BY DEF UnitInit, SlotsApart, Apart
<1> QED
  BY <1>1, <1>2, <1>3 DEF UnitIInv

(* What is released is one operation, and only through an open gate. *)
LEMMA ReleasedFacts ==
  ASSUME NEW in \in UnitInput
  PROVE  /\ released(in) \subseteq Op /\ Single(released(in))
         /\ Apart(released(in), Pool)
         /\ ~mExtensionReady => released(in) = {}
BY UnitInputFacts DEF released, Single, Apart

(* A divide that reaches the request register always starts. *)
LEMMA ArmsAlways ==
  ASSUME UnitTypeOK, GateInv
  PROVE  divArming <=> Divs(extnMRequest) # {}
BY DEF divArming, GateInv, NoDivide, OneDivide, OpenAfterAnswer

(* Every step keeps the types. *)
LEMMA TypeStep ==
  ASSUME UnitTypeOK, GateInv, NEW in \in UnitInput, UnitCycle(in)
  PROVE  UnitTypeOK'
<1> USE DEF UnitCycle, MultiplyPipe, Divider, Gate
<1>1. toExec' \subseteq Op /\ Single(toExec')
  BY ReleasedFacts, AgedFacts
<1>2. extnMRequest' \subseteq Op /\ Single(extnMRequest')
  BY AgedFacts DEF UnitTypeOK
<1>3. /\ extnMPartialServicing' \subseteq Op /\ Single(extnMPartialServicing')
      /\ Divs(extnMPartialServicing') = {}
  <2>1. Muls(extnMRequest) \subseteq Op /\ Single(Muls(extnMRequest)) /\ Divs(Muls(extnMRequest)) = {}
    BY DEF UnitTypeOK, Muls, Single, Divs
  <2> QED
    BY <2>1, AgedFacts, AgedDivs
<1>4. /\ extnMServicing' \subseteq Op /\ Single(extnMServicing')
      /\ Divs(extnMServicing') = {}
  BY AgedFacts, AgedDivs DEF UnitTypeOK
<1>5. division' \subseteq Divs(Op) /\ Single(division')
  <2> DEFINE S == IF divArming THEN extnMRequest ELSE IF divCompletes THEN {} ELSE division
  <2>1. divArming => extnMRequest \subseteq Divs(Op)
    BY DEF divArming, UnitTypeOK, Single, Divs
  <2>2. S \subseteq Divs(Op) /\ Single(S)
    BY <2>1 DEF UnitTypeOK, Single
  <2>3. division' = Aged(in, S)
    OBVIOUS
  <2>4. S \subseteq Op /\ \A x \in S : x.div
    BY <2>2 DEF Divs
  <2> HIDE DEF S
  <2>5. Aged(in, S) \subseteq Op /\ Single(Aged(in, S)) /\ \A y \in Aged(in, S) : y.div
    BY <2>2, <2>4, AgedFacts
  <2> QED
    BY <2>3, <2>5 DEF Divs
<1>6. extnMResponse' \subseteq Answer /\ Single(extnMResponse')
  <2> DEFINE S == IF divCompletes THEN division ELSE extnMServicing
  <2>1. S \subseteq Op /\ Single(S)
    BY DEF UnitTypeOK, Divs
  <2>2. extnMResponse' = Answered(in, S)
    OBVIOUS
  <2> HIDE DEF S
  <2>3. Aged(in, S) \subseteq Op /\ Single(Aged(in, S))
    BY <2>1, AgedFacts
  <2> QED
    BY <2>2, <2>3 DEF Answered, Answer, Op, Single
<1>7. counter' \in 0 .. CounterMax
  BY UnitInputFacts, SMT DEF UnitTypeOK, Step, CounterMax
<1>8. divDone' \in BOOLEAN /\ mExtensionReady' \in BOOLEAN
  BY Zenon DEF opened, UnitTypeOK, Squashed, divCompletes
<1>9. divDoneRobAddr' \in RobAddr
  BY DEF UnitTypeOK, Divs, Op
<1>10. divBranchMask' \subseteq BranchBits
  <2>1. \A x \in released(in) : x.mask \subseteq BranchBits
    BY ReleasedFacts DEF Op
  <2> QED
    BY <2>1 DEF UnitTypeOK
<1> QED
  BY <1>1, <1>2, <1>3, <1>4, <1>5, <1>6, <1>7, <1>8, <1>9, <1>10 DEF UnitTypeOK

(* Every step keeps the registers on different slots. *)
LEMMA ApartStep ==
  ASSUME UnitIInv, NEW in \in UnitInput, UnitCycle(in)
  PROVE  SlotsApart'
<1> DEFINE R == released(in)
           M == Muls(extnMRequest)
           S == IF divArming THEN extnMRequest ELSE IF divCompletes THEN {} ELSE division
<1>1. /\ R \subseteq Op /\ toExec \subseteq Op /\ M \subseteq Op
      /\ extnMPartialServicing \subseteq Op /\ S \subseteq Op
  BY ReleasedFacts DEF UnitIInv, UnitTypeOK, Muls, Divs
<1>2. /\ toExec' = Aged(in, R) /\ extnMRequest' = Aged(in, toExec)
      /\ extnMPartialServicing' = Aged(in, M) /\ extnMServicing' = Aged(in, extnMPartialServicing)
      /\ division' = Aged(in, S)
  BY DEF UnitCycle, MultiplyPipe, Divider
<1>3. /\ Apart(R, toExec) /\ Apart(R, extnMRequest) /\ Apart(R, extnMPartialServicing)
      /\ Apart(R, division)
  BY ReleasedFacts DEF Apart, Pool
<1>4. /\ Apart(R, M) /\ Apart(R, S)
  BY <1>3 DEF Apart, Muls
<1>5. /\ Apart(toExec, M) /\ Apart(toExec, extnMPartialServicing) /\ Apart(toExec, S)
  BY DEF UnitIInv, SlotsApart, Apart, Muls
<1>6. Apart(M, extnMPartialServicing) /\ Apart(extnMPartialServicing, S)
  BY DEF UnitIInv, SlotsApart, Apart, Muls
<1>7. Apart(M, S)
  <2>1. divArming => M = {}
    BY DEF UnitIInv, UnitTypeOK, divArming, Muls, Divs, Single
  <2> QED
    BY <2>1 DEF UnitIInv, SlotsApart, Apart, Muls
<1> HIDE DEF R, M, S
<1>8. \A A, B : A \subseteq Op /\ B \subseteq Op /\ Apart(A, B) => Apart(Aged(in, A), Aged(in, B))
  BY AgedFacts
<1> QED
  BY <1>1, <1>2, <1>3, <1>4, <1>5, <1>6, <1>7, <1>8 DEF SlotsApart

(* A divide that is not squashed moves on, with its mask aged. *)
LEMMA AgedDivides ==
  ASSUME NEW in, NEW S, S \subseteq Op
  PROVE  \A x \in S : x.div /\ ~Squashed(in, x) => Divs(Aged(in, S)) # {}
<1> SUFFICES ASSUME NEW x \in S, x.div, ~Squashed(in, x) PROVE Divs(Aged(in, S)) # {}
  OBVIOUS
<1> DEFINE y == [slot |-> x.slot, div |-> x.div, mask |-> x.mask \ in.resolved]
<1>1. y \in Aged(in, S)
  BY AgedMember
<1>2. y.div
  OBVIOUS
<1> QED
  BY <1>1, <1>2 DEF Divs

(* While no divide completes, none is answered. *)
LEMMA NoDivideAnswered ==
  ASSUME UnitIInv, NEW in \in UnitInput, UnitCycle(in), ~divCompletes
  PROVE  ~\E r \in extnMResponse' : r.div
<1>1. extnMResponse' = Answered(in, extnMServicing)
  BY DEF UnitCycle, MultiplyPipe
<1>2. \A y \in Aged(in, extnMServicing) : ~y.div
  BY AgedFacts DEF UnitIInv, UnitTypeOK, Divs
<1> QED
  BY <1>1, <1>2 DEF Answered

(* Every step keeps the gate exact. *)
LEMMA GateStep ==
  ASSUME UnitIInv, NEW in \in UnitInput, UnitCycle(in)
  PROVE  GateInv'
<1> DEFINE R == released(in)
           S == IF divArming THEN extnMRequest ELSE IF divCompletes THEN {} ELSE division
<1>1. R \subseteq Op /\ toExec \subseteq Op /\ extnMRequest \subseteq Op /\ S \subseteq Op
  BY ReleasedFacts DEF UnitIInv, UnitTypeOK, Divs
<1>2. /\ toExec' = Aged(in, R) /\ extnMRequest' = Aged(in, toExec)
      /\ division' = Aged(in, S)
  BY DEF UnitCycle, MultiplyPipe, Divider
<1>3. divArming <=> Divs(extnMRequest) # {}
  BY ArmsAlways DEF UnitIInv
<1>4. CASE mExtensionReady
  <2>1. Divs(toExec) = {} /\ Divs(extnMRequest) = {} /\ division = {}
    BY <1>4 DEF UnitIInv, GateInv, NoDivide
  <2>2. ~divArming /\ ~divCompletes /\ S = {}
    BY <1>3, <2>1 DEF divCompletes
  <2>3. Divs(extnMRequest') = {} /\ division' = {}
    BY <1>1, <1>2, <2>1, <2>2, AgedDivs, AgedFacts
  <2>4. divDone' = FALSE /\ ~\E r \in extnMResponse' : r.div
    BY <2>1, <2>2, NoDivideAnswered DEF UnitCycle, Divider
  <2>5. CASE Divs(R) = {}
    <3>1. mExtensionReady'
      BY <1>4, <2>5 DEF UnitCycle, Gate, opened
    <3>2. Divs(toExec') = {}
      BY <1>1, <1>2, <2>5, AgedDivs
    <3> QED
      BY <2>3, <2>4, <3>1, <3>2 DEF GateInv, NoDivide, OneDivide, WatchesIt, OpenAfterAnswer, Divs
  <2>6. CASE Divs(R) # {}
    <3>1. PICK x \in R : x.div
      BY <2>6 DEF Divs
    <3>2. R = {x}
      BY ReleasedFacts DEF Single
    <3>3. mExtensionReady' <=> Squashed(in, x)
      BY <2>6, <3>2 DEF UnitCycle, Gate
    <3>4. divBranchMask' = x.mask \ in.resolved
      BY <2>6, <3>2 DEF UnitCycle, Gate
    <3>5. \A y \in toExec' : y.mask = divBranchMask'
      BY <1>1, <1>2, <3>2, <3>4, AgedFacts
    <3>6. Squashed(in, x) => Divs(toExec') = {}
      BY <1>1, <1>2, <3>2, AgedDivs DEF Divs
    <3>7. ~Squashed(in, x) => Divs(toExec') # {}
      BY <1>1, <1>2, <3>1, AgedDivides
    <3>8. mExtensionReady' <=> NoDivide'
      BY <2>3, <3>3, <3>6, <3>7 DEF NoDivide
    <3> QED
      BY <2>3, <2>4, <3>5, <3>8 DEF GateInv, OneDivide, WatchesIt, OpenAfterAnswer, Divs
  <2> QED
    BY <2>5, <2>6
<1>5. CASE ~mExtensionReady
  <2>1. R = {} /\ toExec' = {}
    BY <1>1, <1>2, <1>5, ReleasedFacts, AgedFacts
  <2>2. ~divDone /\ ~\E r \in extnMResponse : r.div
    BY <1>5 DEF UnitIInv, GateInv, OpenAfterAnswer
  <2>3. divDone' <=> divCompletes
    BY <2>2 DEF UnitCycle, Divider
  <2>4. mExtensionReady' <=> (in.failed /\ Hit(in, divBranchMask)) \/ divCompletes
    BY <1>5, <2>1, <2>2 DEF UnitCycle, Gate, opened, Divs
  <2>5. \A x \in Op : (x \in toExec \/ x \in extnMRequest \/ x \in division) /\ x.div =>
                        (Squashed(in, x) <=> in.failed /\ Hit(in, divBranchMask))
    BY DEF UnitIInv, GateInv, WatchesIt, Squashed
  <2>6. OpenAfterAnswer'
    BY <2>3, <2>4, NoDivideAnswered DEF OpenAfterAnswer
  <2>7. \A x \in S : x.div /\ (x \in extnMRequest \/ x \in division)
    BY DEF UnitIInv, UnitTypeOK, divArming, Divs, Single
  <2>8. OneDivide'
    <3>1. Divs(toExec) # {} => S = {}
      BY <1>3 DEF UnitIInv, GateInv, OneDivide
    <3>2. Divs(extnMRequest') # {} => Divs(toExec) # {}
      BY <1>1, <1>2, AgedDivs
    <3> QED
      BY <1>1, <1>2, <2>1, <3>1, <3>2, AgedFacts DEF OneDivide, Divs
  <2>9. WatchesIt'
    <3>1. divBranchMask' = IF in.failed THEN divBranchMask ELSE divBranchMask \ in.resolved
      BY <1>5, <2>1 DEF UnitCycle, Gate, Divs
    <3>2. ASSUME NEW T, T \subseteq Op, NEW y \in Aged(in, T), y.div,
                 \A x \in T : x.div => x \in toExec \/ x \in extnMRequest \/ x \in division
          PROVE  y.mask = divBranchMask'
      <4>1. PICK x \in T : ~Squashed(in, x) /\ y.div = x.div /\ y.mask = x.mask \ in.resolved
        <5>1. T \subseteq Op
          BY <3>2
        <5>2. \A z \in Aged(in, T) : \E x \in T : /\ ~Squashed(in, x)
                                                  /\ z.slot = x.slot /\ z.div = x.div
                                                  /\ z.mask = x.mask \ in.resolved
          BY <5>1, AgedOrigin
        <5> QED
          BY <5>2
      <4>2. x.mask = divBranchMask
        BY <3>2, <4>1 DEF UnitIInv, GateInv, WatchesIt
      <4>3. in.failed => x.mask \cap in.resolved = {}
        BY <4>1 DEF Squashed, Hit
      <4>4. in.failed => x.mask \ in.resolved = x.mask
        BY <4>3
      <4> QED
        BY <3>1, <4>1, <4>2, <4>4
    <3> QED
      BY <1>1, <1>2, <2>1, <2>7, <3>2 DEF WatchesIt
  <2>10. mExtensionReady' => NoDivide'
    <3>1. CASE in.failed /\ Hit(in, divBranchMask)
      <4>1. \A x \in Divs(toExec) : Squashed(in, x)
        BY <1>1, <2>5, <3>1 DEF Divs
      <4>2. \A x \in Divs(S) : Squashed(in, x)
        BY <1>1, <2>5, <2>7, <3>1 DEF Divs
      <4>3. Divs(extnMRequest') = {} /\ Divs(division') = {}
        BY <1>1, <1>2, <4>1, <4>2, AgedDivs
      <4>4. division' \subseteq Divs(Op)
        BY TypeStep DEF UnitIInv, UnitTypeOK
      <4> QED
        BY <2>1, <4>3, <4>4 DEF NoDivide, Divs
    <3>2. CASE divCompletes
      <4>1. Divs(extnMRequest) = {} /\ Divs(toExec) = {}
        BY <3>2 DEF UnitIInv, GateInv, OneDivide, divCompletes
      <4>2. S = {}
        BY <1>3, <3>2, <4>1
      <4> QED
        BY <1>1, <1>2, <2>1, <4>1, <4>2, AgedDivs, AgedFacts DEF NoDivide, Divs
    <3> QED
      BY <2>4, <3>1, <3>2
  <2>11. ~mExtensionReady' => ~NoDivide'
    <3> SUFFICES ASSUME ~mExtensionReady' PROVE ~NoDivide'
      OBVIOUS
    <3>1. ~divCompletes /\ ~(in.failed /\ Hit(in, divBranchMask))
      BY <2>4
    <3>2. \A x \in Op : (x \in toExec \/ x \in extnMRequest \/ x \in division) /\ x.div => ~Squashed(in, x)
      BY <2>5, <3>1
    <3>3. Divs(toExec) # {} \/ Divs(extnMRequest) # {} \/ division # {}
      BY <1>5 DEF UnitIInv, GateInv, NoDivide
    <3>4. CASE Divs(toExec) # {}
      <4>1. PICK x \in toExec : x.div
        BY <3>4 DEF Divs
      <4>2. ~Squashed(in, x)
        BY <1>1, <3>2, <4>1
      <4>3. Divs(extnMRequest') # {}
        BY <1>1, <1>2, <4>1, <4>2, AgedDivides
      <4> QED
        BY <4>3 DEF NoDivide
    <3>5. CASE Divs(extnMRequest) # {} \/ division # {}
      <4>1. S # {}
        BY <1>3, <3>1, <3>5 DEF Divs
      <4>2. PICK x \in S : TRUE
        BY <4>1
      <4>3. x.div /\ ~Squashed(in, x)
        BY <1>1, <2>7, <3>2
      <4>4. Divs(division') # {}
        BY <1>1, <1>2, <4>3, AgedDivides
      <4> QED
        BY <4>4 DEF NoDivide, Divs
    <3> QED
      BY <3>3, <3>4, <3>5
  <2>12. mExtensionReady' <=> NoDivide'
    BY <2>10, <2>11
  <2> QED
    BY <2>6, <2>8, <2>9, <2>12 DEF GateInv
<1> QED
  BY <1>4, <1>5

LEMMA UnitIInvStep == UnitIInv /\ [UnitNext]_unitVars => UnitIInv'
<1> SUFFICES ASSUME UnitIInv, [UnitNext]_unitVars PROVE UnitIInv'
  OBVIOUS
<1>1. CASE UNCHANGED unitVars
  BY <1>1 DEF unitVars, UnitIInv, UnitTypeOK, GateInv, NoDivide, OneDivide, WatchesIt, OpenAfterAnswer,
              SlotsApart, Apart, Divs, Single
<1>2. CASE UnitNext
  <2>1. PICK in \in UnitInput : UnitCycle(in)
    BY <1>2 DEF UnitNext
  <2> QED
    BY <2>1, TypeStep, GateStep, ApartStep DEF UnitIInv
<1> QED
  BY <1>1, <1>2

LEMMA Invariance == UnitSpec => []UnitIInv
BY UnitIInvInit, UnitIInvStep, PTL DEF UnitSpec

(* Registers keep their types, and the multiply stages hold no divide       *)
(* (core.scala:255).                                                        *)
THEOREM MUnitTypeCorrect == UnitSpec => []UnitTypeOK
<1>1. UnitIInv => UnitTypeOK
  BY DEF UnitIInv
<1> QED
  BY <1>1, Invariance, PTL

(* The gate mExtensionReady is closed exactly while one divide is under     *)
(* way, and watches the branches of that divide (core.scala:468-478,        *)
(* 717-727), for any number of slots, branch bits and iteration counts.     *)
THEOREM GateCorrect == UnitSpec => []GateExact
<1>1. UnitIInv => GateExact
  <2> SUFFICES ASSUME UnitIInv PROVE GateExact
    OBVIOUS
  <2>1. Divs(division) = division
    BY DEF UnitIInv, UnitTypeOK, Divs
  <2> QED
    BY <2>1 DEF UnitIInv, UnitTypeOK, GateInv, NoDivide, OneDivide, WatchesIt, GateExact, Divs, Single
<1> QED
  BY <1>1, Invariance, PTL

(* Both together, the property the run munit checks: mExtensionReady and    *)
(* the registers behind it agree, one operation to a register.              *)
THEOREM GateSafety == UnitSpec => []GateSafe
<1>1. UnitTypeOK /\ GateExact => GateSafe
  BY DEF GateSafe
<1> QED
  BY <1>1, MUnitTypeCorrect, GateCorrect, PTL
-----------------------------------------------------------------------------
(* Ageing a union is ageing its parts. *)
LEMMA AgedUnion == \A in, S, T : Aged(in, S \cup T) = Aged(in, S) \cup Aged(in, T)
BY DEF Aged

(* Every step of the unit is a step of the pool. *)
LEMMA PoolStep ==
  ASSUME UnitIInv, NEW in \in UnitInput, UnitCycle(in)
  PROVE  MP!Next
<1> DEFINE R == released(in)
           out == IF divCompletes THEN division ELSE extnMServicing
           S == IF divArming THEN extnMRequest ELSE IF divCompletes THEN {} ELSE division
           M == Muls(extnMRequest)
<1>1. /\ toExec' = Aged(in, R) /\ extnMRequest' = Aged(in, toExec)
      /\ extnMPartialServicing' = Aged(in, M) /\ extnMServicing' = Aged(in, extnMPartialServicing)
      /\ division' = Aged(in, S) /\ extnMResponse' = Answered(in, out)
  BY DEF UnitCycle, MultiplyPipe, Divider
<1>2. divArming <=> Divs(extnMRequest) # {}
  BY ArmsAlways DEF UnitIInv
<1>3. M \cup S = (extnMRequest \cup division) \ (IF divCompletes THEN division ELSE {})
  <2>1. CASE divArming
    <3>1. M = {} /\ division = {} /\ ~divCompletes
      BY <2>1 DEF divArming, divCompletes, Muls, Divs, UnitIInv, UnitTypeOK, Single
    <3> QED
      BY <2>1, <3>1
  <2>2. CASE ~divArming
    <3>1. M = extnMRequest
      BY <1>2, <2>2 DEF Muls, Divs
    <3>2. extnMRequest \cap division = {}
      BY DEF UnitIInv, SlotsApart, Apart
    <3> QED
      BY <2>2, <3>1, <3>2
  <2> QED
    BY <2>1, <2>2
<1>4. R \cup toExec \cup M \cup extnMPartialServicing \cup S = (Pool \ out) \cup R
  <2>1. divCompletes => extnMServicing = {}
    BY DEF divCompletes
  <2>2. /\ toExec \cap division = {} /\ extnMPartialServicing \cap division = {}
        /\ toExec \cap extnMServicing = {} /\ extnMRequest \cap extnMServicing = {}
        /\ extnMPartialServicing \cap extnMServicing = {} /\ division \cap extnMServicing = {}
    BY DEF UnitIInv, SlotsApart, Apart
  <2> HIDE DEF M, S, R
  <2> QED
    BY <1>3, <2>1, <2>2 DEF Pool
<1>5. Pool' = Aged(in, (Pool \ out) \cup R)
  <2> HIDE DEF M, S, R, out
  <2>1. Pool' = Aged(in, R) \cup Aged(in, toExec) \cup Aged(in, M)
                  \cup Aged(in, extnMPartialServicing) \cup Aged(in, S)
    BY <1>1 DEF Pool
  <2>2. Aged(in, R \cup toExec \cup M \cup extnMPartialServicing \cup S)
          = Aged(in, R) \cup Aged(in, toExec) \cup Aged(in, M)
              \cup Aged(in, extnMPartialServicing) \cup Aged(in, S)
    <3> DEFINE A == R \cup toExec
               B == A \cup M
               C == B \cup extnMPartialServicing
    <3>1. Aged(in, A) = Aged(in, R) \cup Aged(in, toExec)
      BY AgedUnion
    <3>2. Aged(in, B) = Aged(in, A) \cup Aged(in, M)
      <4> HIDE DEF A
      <4> QED BY AgedUnion
    <3>3. Aged(in, C) = Aged(in, B) \cup Aged(in, extnMPartialServicing)
      <4> HIDE DEF B
      <4> QED BY AgedUnion
    <3>4. Aged(in, C \cup S) = Aged(in, C) \cup Aged(in, S)
      <4> HIDE DEF C
      <4> QED BY AgedUnion
    <3> HIDE DEF A, B, C
    <3>5. Aged(in, C \cup S) = Aged(in, R) \cup Aged(in, toExec) \cup Aged(in, M)
                                \cup Aged(in, extnMPartialServicing) \cup Aged(in, S)
      BY <3>1, <3>2, <3>3, <3>4
    <3> QED
      BY <3>5 DEF A, B, C
  <2> QED
    BY <1>4, <2>1, <2>2
<1>6. \A T : Aged(in, T) = MP!Kept(T, in.resolved, in.failed)
  BY DEF Aged, Squashed, Hit, MP!Kept
<1>7. R \in MP!NoneOrOne(MP!Op) /\ \A x \in R, y \in Pool : x.slot # y.slot
  <2>1. R \subseteq Op /\ Single(R) /\ Apart(R, Pool)
    BY ReleasedFacts
  <2> QED
    BY <2>1 DEF MP!NoneOrOne, MP!Op, Op, Single, Apart
<1>8. out \in MP!NoneOrOne(Pool)
  <2>1. out \subseteq Pool /\ Single(out)
    BY DEF Pool, UnitIInv, UnitTypeOK
  <2> HIDE DEF out
  <2> QED
    BY <2>1 DEF MP!NoneOrOne, Single
<1>9. in.resolved \in MP!NoneOrOne(BranchBits) /\ in.failed \in BOOLEAN
  BY DEF UnitInput, NoneOrOne, MP!NoneOrOne
<1> HIDE DEF R, out, S, M
<1>10. MP!Clock(R, out, in.resolved, in.failed)
  BY <1>1, <1>5, <1>6, <1>7 DEF MP!Clock, Answered
<1> QED
  BY <1>7, <1>8, <1>9, <1>10 DEF MP!Next

(* The M extension implements the pool of MPool: no accepted operation is   *)
(* lost, answered twice, answered for another slot or answered after a      *)
(* misprediction (core.scala:353-727), for every value of the constants.    *)
THEOREM MUnitImplementsPool == UnitSpec => ImplementsPool
<1>1. UnitInit => MP!Init
  BY DEF UnitInit, MP!Init, Pool
<1>2. UnitIInv /\ [UnitNext]_unitVars => [MP!Next]_<<Pool, extnMResponse>>
  <2> SUFFICES ASSUME UnitIInv, [UnitNext]_unitVars PROVE [MP!Next]_<<Pool, extnMResponse>>
    OBVIOUS
  <2>1. CASE UNCHANGED unitVars
    BY <2>1 DEF unitVars, Pool
  <2>2. CASE UnitNext
    BY <2>2, PoolStep DEF UnitNext
  <2> QED
    BY <2>1, <2>2
<1> QED
  BY <1>1, <1>2, Invariance, PTL DEF UnitSpec, ImplementsPool, MP!Spec
=============================================================================
