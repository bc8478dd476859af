----------------------------- MODULE CcuProofs -----------------------------
(***************************************************************************)
(* The coherency unit between any number of caches, for lines of any       *)
(* length and queues of any depth: every answer of L2 meets the request it *)
(* belongs to, no state machine takes a word meant for another, no line is *)
(* snooped while it is being delivered, and a dirty line keeps an owner.   *)
(***************************************************************************)
EXTENDS CcuSystem, FiniteSetTheorems, SequenceTheorems, WellFoundedInduction, TLAPS

(***************************************************************************)
(* The inductive invariant.                                                *)
(***************************************************************************)

(* FSM_4 to FSM_11 move through a request together: all wait for its start, *)
(* all snoop, all wait for FSM_12, all hand over.  FSM_3 hands the next     *)
(* request over only while all are idle, and FSM_12 is idle while the last  *)
(* one is handed to it.                                                     *)
Snooping == \A p \in Ports : snoop[p] \in {"ca", "crbuff", "cr", "finish"}

Lockstep ==
  \/ All("idle")
  \/ /\ fsm3 \notin {"buff2", "snoop"}
     /\ \/ All("hold") \/ Snooping \/ All("sync")
        \/ fsm12 = "idle" /\ (All("buf") \/ All("rsp"))

(* The port chosen in SELECT stays the right one until the line is through. *)
SelectKept == fsm12 \in {"capture", "rsp"} => select = Select

(* A write-back has the queue for itself, and so has a read. *)
OneReader ==
  /\ write_back <=> fsm1 # "idle"
  /\ fsm3 \in {"ar", "buff1", "deq"} => fsm1 = "idle"
  /\ fsm3 = "ar" => queue[1].tran # "CleanUnique"
  /\ fsm3 = "deq" => pbuf1 = queue[1]

(* A beat follows exactly a write-back's address or a beat that is not the  *)
(* last, in the queue and at both of its ends.                              *)
Continues(i) == i.tran = "WriteBack" \/ (i.tran = "beat" /\ ~i.last)
Draining == fsm1 \in {"wait", "wd", "deq2"}

FramedBy(q, owed, inside) ==
  /\ \A i \in 1 .. Len(q) - 1 : q[i + 1].tran = "beat" <=> Continues(q[i])
  /\ q = <<>> => (owed > 0 <=> inside)
  /\ q # <<>> => /\ owed > 0 <=> Continues(q[Len(q)])
                 /\ q[1].tran = "beat" <=> inside

Framed == FramedBy(queue, toCome, Draining)

(* Only a CleanUnique, which asks nothing of L2, gets an empty answer. *)
EmptyBeat == fsm12 = "rspbar" => pbuf3.tran = "CleanUnique"

IInv == /\ TypeOK /\ l2aw \subseteq WriteBacks
        /\ Lockstep /\ SelectKept /\ EmptyBeat /\ OneReader /\ Framed
        /\ QueueFramed /\ NoSnoopDuringFill /\ DirtyPassedOn /\ L2Exact

USE PortsAssumption, NoLineAssumption, BusAssumption, SystemAssumption
-----------------------------------------------------------------------------
(***************************************************************************)
(* Ports and wires.                                                        *)
(***************************************************************************)

LEMMA PortNumbers == 0 \in Ports /\ Ports \subseteq Nat
<1>1. Cardinality(Ports) \in Nat /\ Cardinality(Ports) # 0
  BY FS_CardinalityType, FS_EmptySet
<1>2. QED
  BY <1>1

LEMMA Sizes == Beats \in Nat /\ Beats >= 1 /\ QueueDepth \in Nat /\ QueueDepth >= 1
  OBVIOUS

(* A set of numbers that is not empty has a least one. *)
LEMMA LeastNumber == ASSUME NEW T \in SUBSET Nat, T # {} PROVE \E x \in T : \A y \in T : x <= y
<1>1. IsWellFoundedOn(OpToRel(<, Nat), Nat)
  BY NatLessThanWellFounded
<1>2. PICK x \in T : \A y \in T : ~(<<y, x>> \in OpToRel(<, Nat))
  BY <1>1, WFMin
<1>3. \A y \in T : ~(y < x)
  BY <1>2 DEF OpToRel
<1>4. QED
  BY <1>3

(* The priority of SELECT always finds one of the candidates. *)
LEMMA LowestIn == ASSUME NEW S, S \subseteq Ports, S # {} PROVE Lowest(S) \in S
<1>1. \E p \in S : \A q \in S : p <= q
  BY LeastNumber, PortNumbers
<1>2. QED
  BY <1>1 DEF Lowest

(* What a cycle's wires carry: the head of the queue, an answer of L2 only  *)
(* for its oldest request, responses of the caches.                         *)
WireOK(in) ==
  /\ in.deq = FirstOf(queue)
  /\ in.arready \in BOOLEAN /\ in.awready \in BOOLEAN /\ in.wready \in BOOLEAN
  /\ in.rvalid \in BOOLEAN /\ in.rlast \in BOOLEAN
  /\ in.rvalid => l2 # <<>> /\ l2[1].read
  /\ in.bid # {} => l2 # <<>> /\ ~l2[1].read /\ in.bid = {l2[1].port}
  /\ in.rlast <=> beat = Beats - 1
  /\ in.cdlast = IF beat = Beats - 1 THEN Ports ELSE {}
  /\ in.crresp \in [Ports -> SUBSET Flags]

LEMMA WiresFit == ASSUME NEW env \in Env, TypeOK PROVE WireOK(Wires(env))
<1>1. /\ env.accepts \in BOOLEAN /\ env.answers \in BOOLEAN /\ env.moves \in BOOLEAN
      /\ env.found \in [Ports -> SUBSET Flags]
  BY DEF Env
<1>2. Wires(env).deq = FirstOf(queue)
  BY DEF Wires
<1>3. /\ Wires(env).arready \in BOOLEAN /\ Wires(env).awready \in BOOLEAN
      /\ Wires(env).wready \in BOOLEAN
  BY <1>1 DEF Wires
<1>4. /\ Wires(env).rvalid \in BOOLEAN
      /\ Wires(env).rvalid => l2 # <<>> /\ l2[1].read
  BY DEF Wires, FirstOf
<1>5. Wires(env).bid # {} => l2 # <<>> /\ ~l2[1].read /\ Wires(env).bid = {l2[1].port}
  BY DEF Wires, FirstOf
<1>6. /\ Wires(env).rlast \in BOOLEAN /\ (Wires(env).rlast <=> beat = Beats - 1)
      /\ Wires(env).cdlast = IF beat = Beats - 1 THEN Ports ELSE {}
  BY DEF Wires
<1>7. Wires(env).crresp \in [Ports -> SUBSET Flags]
  BY <1>1 DEF Wires
<1>8. QED
  BY <1>2, <1>3, <1>4, <1>5, <1>6, <1>7 DEF WireOK
-----------------------------------------------------------------------------
(***************************************************************************)
(* The snoop stage.                                                        *)
(***************************************************************************)

(* From idle all state machines start together, in one of three ways. *)
LEMMA StartTogether ==
  \/ \A p \in Ports : Start(p) = "hold"
  \/ \A p \in Ports : Start(p) \in {"ca", "finish"}
  BY DEF Start

LEMMA LockstepStep ==
  ASSUME TypeOK, Lockstep, NEW in, CcuCycle(in) PROVE Lockstep'
<1> USE PortNumbers DEF CcuCycle, SnoopStage
<1>1. fsm3' \in {"buff2", "snoop"} => All("idle") /\ fsm3 # "snoop"
  BY DEF Fsm3, Lockstep, CcuTypeOK, TypeOK
<1>2. fsm12 = "idle" /\ snoop[0] # "rsp" => fsm12' = "idle"
  BY DEF Fsm12, captures
<1>3. CASE All("idle")
  <2>1. CASE fsm3 = "snoop"
    <3>1. \A p \in Ports : snoop'[p] = Start(p)
      BY <1>3, <2>1 DEF Snoop, All
    <3>2. fsm3' = "idle"
      BY <2>1 DEF Fsm3
    <3>3. QED
      BY <3>1, <3>2, StartTogether DEF Lockstep, All, Snooping
  <2>2. CASE fsm3 # "snoop"
    <3>1. \A p \in Ports : snoop'[p] = "idle"
      BY <1>3, <2>2 DEF Snoop, All
    <3>2. QED
      BY <3>1 DEF Lockstep, All
  <2>3. QED
    BY <2>1, <2>2
<1>4. CASE ~All("idle")
  <2>1. fsm3 \notin {"buff2", "snoop"} /\ fsm3' \notin {"buff2", "snoop"}
    BY <1>1, <1>4 DEF Lockstep
  <2>2. CASE All("hold")
    <3>1. CASE fsm12 = "idle"
      <4>1. \A p \in Ports : snoop'[p] \in {"ca", "finish"}
        BY <2>2, <3>1 DEF Snoop, All
      <4>2. QED
        BY <2>1, <4>1 DEF Lockstep, Snooping
    <3>2. CASE fsm12 # "idle"
      <4>1. \A p \in Ports : snoop'[p] = "hold"
        BY <2>2, <3>2 DEF Snoop, All
      <4>2. QED
        BY <2>1, <4>1 DEF Lockstep, All
    <3>3. QED
      BY <3>1, <3>2
  <2>3. CASE Snooping
    <3>1. CASE All("finish")
      <4>1. \A p \in Ports : snoop'[p] = "sync"
        BY <3>1 DEF Snoop, All
      <4>2. QED
        BY <2>1, <4>1 DEF Lockstep, All
    <3>2. CASE ~All("finish")
      <4>1. \A p \in Ports : snoop'[p] \in {"ca", "crbuff", "cr", "finish"}
        BY <2>3, <3>2 DEF Snoop, Snooping
      <4>2. QED
        BY <2>1, <4>1 DEF Lockstep, Snooping
    <3>3. QED
      BY <3>1, <3>2
  <2>4. CASE All("sync")
    <3>1. CASE fsm12 = "idle"
      <4>1. \A p \in Ports : snoop'[p] = "buf"
        BY <2>4, <3>1 DEF Snoop, All
      <4>2. fsm12' = "idle"
        BY <1>2, <2>4, <3>1 DEF All
      <4>3. QED
        BY <2>1, <4>1, <4>2 DEF Lockstep, All
    <3>2. CASE fsm12 # "idle"
      <4>1. \A p \in Ports : snoop'[p] = "sync"
        BY <2>4, <3>2 DEF Snoop, All
      <4>2. QED
        BY <2>1, <4>1 DEF Lockstep, All
    <3>3. QED
      BY <3>1, <3>2
  <2>5. CASE fsm12 = "idle" /\ All("buf")
    <3>1. \A p \in Ports : snoop'[p] = "rsp"
      BY <2>5 DEF Snoop, All
    <3>2. fsm12' = "idle"
      BY <1>2, <2>5 DEF All
    <3>3. QED
      BY <2>1, <3>1, <3>2 DEF Lockstep, All
  <2>6. CASE fsm12 = "idle" /\ All("rsp")
    <3>1. \A p \in Ports : snoop'[p] = "idle"
      BY <2>6 DEF Snoop, All
    <3>2. QED
      BY <3>1 DEF Lockstep, All
  <2>7. QED
    BY <1>4, <2>2, <2>3, <2>4, <2>5, <2>6 DEF Lockstep
<1>5. QED
  BY <1>3, <1>4

(* The address comparison keeps a snoop away from a line under way: pbuf3   *)
(* holds the last request handed over, also when it is already answered.    *)
LEMMA NoSnoopStep ==
  ASSUME TypeOK, Lockstep, NoSnoopDuringFill, NEW in, CcuCycle(in)
  PROVE  NoSnoopDuringFill'
<1> USE PortNumbers DEF CcuCycle, SnoopStage
<1> SUFFICES ASSUME fsm12' # "idle", pbuf2'.line = pbuf3'.line, NEW p \in Ports,
                    snoop'[p] \in {"ca", "crbuff", "cr"}
             PROVE  FALSE
  BY DEF NoSnoopDuringFill
<1>1. snoop'[p] = Snoop(p, in)
  OBVIOUS
<1>2. snoop[p] \in {"idle", "hold", "ca", "crbuff"}
  BY <1>1 DEF Snoop, TypeOK, CcuTypeOK
<1>3. snoop[0] \notin {"buf", "rsp"}
  BY <1>2 DEF Lockstep, All, Snooping
<1>4. pbuf3' = pbuf3 /\ fsm12 # "idle"
  BY <1>3 DEF Fsm12, captures
<1>5. CASE snoop[p] = "idle"
  <2>1. fsm3 = "snoop" /\ Start(p) = "ca"
    BY <1>1, <1>5 DEF Snoop, Start
  <2>2. pbuf2' = pbuf2 /\ pbuf3.line # pbuf2.line
    BY <2>1 DEF Start
  <2>3. QED
    BY <1>4, <2>2
<1>6. CASE snoop[p] = "hold"
  BY <1>1, <1>4, <1>6 DEF Snoop
<1>7. CASE snoop[p] \in {"ca", "crbuff"}
  <2>1. fsm3 # "buff2"
    BY <1>7 DEF Lockstep, All
  <2>2. pbuf2' = pbuf2
    BY <2>1
  <2>3. QED
    BY <1>4, <1>7, <2>2 DEF NoSnoopDuringFill
<1>8. QED
  BY <1>2, <1>5, <1>6, <1>7

(* The choice of SELECT, in terms of what the caches gave away. *)
LEMMA SelectFacts ==
  ASSUME TypeOK
  PROVE  /\ Select \in {{}} \cup {{p} : p \in Ports}
         /\ Select = {} <=> Sources = {}
         /\ (\E p \in Select : "dirty" \in cr3[p]) <=> (\E p \in Sources : "dirty" \in cr3[p])
<1> DEFINE owners == {p \in Sources : "dirty" \in cr3[p]}
<1>1. Sources \subseteq Ports /\ owners \subseteq Sources
  BY DEF Sources
<1>2. CASE owners # {}
  <2>1. Lowest(owners) \in owners /\ Select = {Lowest(owners)}
    BY <1>1, <1>2, LowestIn DEF Select
  <2>2. QED
    BY <1>1, <2>1
<1>3. CASE owners = {} /\ Sources # {}
  <2>1. Lowest(Sources) \in Sources /\ Select = {Lowest(Sources)}
    BY <1>1, <1>3, LowestIn DEF Select
  <2>2. QED
    BY <1>1, <1>3, <2>1
<1>4. CASE Sources = {}
  <2>1. Select = {}
    BY <1>1, <1>4 DEF Select
  <2>2. QED
    BY <1>4, <2>1
<1>5. QED
  BY <1>1, <1>2, <1>3, <1>4

(* The responses that FSM_12 works with change only while it is idle. *)
LEMMA ResponsesKept ==
  ASSUME TypeOK, Lockstep, NEW in, CcuCycle(in), fsm12 # "idle"
  PROVE  cr3' = cr3 /\ pbuf3' = pbuf3
<1>1. \A p \in Ports : snoop[p] # "buf"
  BY DEF Lockstep, All, Snooping
<1>2. QED
  BY <1>1, PortNumbers DEF CcuCycle, SnoopStage, TypeOK, CcuTypeOK

LEMMA SelectStep ==
  ASSUME TypeOK, Lockstep, SelectKept, NEW in, CcuCycle(in)
  PROVE  SelectKept'
<1> SUFFICES ASSUME fsm12' \in {"capture", "rsp"} PROVE select' = Select'
  BY DEF SelectKept
<1>1. fsm12 \in {"select", "capture", "rsp"}
  BY DEF CcuCycle, Fsm12, TypeOK, CcuTypeOK, captures
<1>2. Select' = Select
  BY <1>1, ResponsesKept DEF Select, Sources
<1>3. CASE fsm12 = "select"
  BY <1>2, <1>3 DEF CcuCycle, Fsm12
<1>4. CASE fsm12 \in {"capture", "rsp"}
  BY <1>2, <1>4 DEF CcuCycle, Fsm12, SelectKept
<1>5. QED
  BY <1>1, <1>3, <1>4

(* RRESP passes dirty exactly when a cache gave a dirty line away. *)
LEMMA DirtyStep ==
  ASSUME TypeOK, Lockstep, SelectKept, DirtyPassedOn, NEW in, CcuCycle(in)
  PROVE  DirtyPassedOn'
<1> SUFFICES ASSUME fsm12' = "rsp"
             PROVE  "dirty" \in rsp' <=> \E p \in Sources' : "dirty" \in cr3'[p]
  BY DEF DirtyPassedOn
<1>1. fsm12 = "rsp" \/ captures(in)
  BY DEF CcuCycle, Fsm12, TypeOK, CcuTypeOK
<1>2. cr3' = cr3 /\ Sources' = Sources
  BY <1>1, ResponsesKept DEF captures, Sources
<1>3. CASE captures(in)
  <2>1. rsp' = Rresp /\ select = Select
    BY <1>3 DEF CcuCycle, Fsm12, SelectKept, captures
  <2>2. "dirty" \in Rresp <=> \E p \in select : "dirty" \in cr3[p]
    BY DEF Rresp
  <2>3. QED
    BY <1>2, <2>1, <2>2, SelectFacts
<1>4. CASE fsm12 = "rsp" /\ ~captures(in)
  BY <1>2, <1>4 DEF CcuCycle, Fsm12, DirtyPassedOn
<1>5. QED
  BY <1>1, <1>3, <1>4

LEMMA EmptyBeatStep ==
  ASSUME TypeOK, Lockstep, EmptyBeat, NEW in, CcuCycle(in)
  PROVE  EmptyBeat'
<1> SUFFICES ASSUME fsm12' = "rspbar" PROVE pbuf3'.tran = "CleanUnique"
  BY DEF EmptyBeat
<1>1. CASE fsm12 = "idle"
  BY <1>1 DEF CcuCycle, Fsm12, SnoopStage, captures
<1>2. CASE fsm12 # "idle"
  <2>1. fsm12 = "rspbar"
    BY <1>2 DEF CcuCycle, Fsm12, TypeOK, CcuTypeOK, captures
  <2>2. QED
    BY <1>2, <2>1, ResponsesKept DEF EmptyBeat
<1>3. QED
  BY <1>1, <1>2
-----------------------------------------------------------------------------
(***************************************************************************)
(* The request queue and its two readers.                                  *)
(***************************************************************************)

LEMMA WordKinds ==
  ASSUME NEW i \in Item
  PROVE  /\ i.tran \in Reads => i \in Request
         /\ i.tran = "WriteBack" => i \in WriteBacks
         /\ i.tran \in Reads \cup {"WriteBack", "beat"}
         /\ i.tran = "beat" => i.last \in BOOLEAN
  BY DEF Item, Request, WriteBacks, Reads, Snooped

(* Frames survive a word leaving at the head. *)
LEMMA PopFramed ==
  ASSUME NEW q \in Seq(Item), q # <<>>, NEW owed, NEW inside \in BOOLEAN,
         FramedBy(q, owed, inside)
  PROVE  FramedBy(Tail(q), owed, Continues(q[1]))
<1>1. Len(q) \in Nat /\ Len(q) >= 1 /\ Len(Tail(q)) = Len(q) - 1
  OBVIOUS
<1>2. \A i \in 1 .. Len(Tail(q)) : Tail(q)[i] = q[i + 1]
  OBVIOUS
<1>3. \A i \in 1 .. Len(Tail(q)) - 1 :
         Tail(q)[i + 1].tran = "beat" <=> Continues(Tail(q)[i])
  BY <1>1, <1>2 DEF FramedBy
<1>4. CASE Len(q) = 1
  <2>1. Tail(q) \in Seq(Item) /\ Len(Tail(q)) = 0
    BY <1>1, <1>4
  <2> Tail(q) = <<>>
    BY <2>1, EmptySeq
  <2>2. owed > 0 <=> Continues(q[1])
    BY <1>4 DEF FramedBy
  <2>3. QED
    BY <1>3, <2>2 DEF FramedBy
<1>5. CASE Len(q) # 1
  <2>1. Len(q) >= 2 /\ Tail(q) # <<>>
    BY <1>1, <1>5
  <2>2. Tail(q)[1] = q[2] /\ Tail(q)[Len(Tail(q))] = q[Len(q)]
    BY <1>1, <1>2, <2>1
  <2>3. q[1 + 1].tran = "beat" <=> Continues(q[1])
    BY <1>1, <2>1 DEF FramedBy
  <2>4. QED
    BY <1>3, <2>1, <2>2, <2>3 DEF FramedBy
<1>6. QED
  BY <1>4, <1>5

(* Frames survive a word entering at the end, a beat exactly when one is    *)
(* owed.                                                                    *)
LEMMA PushFramed ==
  ASSUME NEW q \in Seq(Item), NEW owed, NEW inside \in BOOLEAN, FramedBy(q, owed, inside),
         NEW i \in Item, NEW owes,
         i.tran = "beat" <=> owed > 0, owes > 0 <=> Continues(i)
  PROVE  FramedBy(Append(q, i), owes, inside)
<1> DEFINE r == Append(q, i)
<1>1. Len(q) \in Nat /\ Len(r) = Len(q) + 1 /\ r # <<>> /\ r[Len(r)] = i
  OBVIOUS
<1>2. \A k \in 1 .. Len(q) : r[k] = q[k]
  OBVIOUS
<1>3. CASE q = <<>>
  <2>1. Len(r) = 1 /\ r[1] = i
    BY <1>3
  <2>2. QED
    BY <1>1, <1>3, <2>1 DEF FramedBy
<1>4. CASE q # <<>>
  <2>1. Len(q) >= 1 /\ r[1] = q[1]
    BY <1>1, <1>2, <1>4
  <2>2. ASSUME NEW k \in 1 .. Len(r) - 1
        PROVE  r[k + 1].tran = "beat" <=> Continues(r[k])
    <3>1. CASE k = Len(q)
      <4>1. r[k + 1] = i /\ r[k] = q[Len(q)]
        BY <1>1, <1>2, <2>1, <3>1
      <4>2. QED
        BY <1>4, <4>1 DEF FramedBy
    <3>2. CASE k # Len(q)
      <4>1. k \in 1 .. Len(q) - 1 /\ r[k + 1] = q[k + 1] /\ r[k] = q[k]
        BY <1>1, <1>2, <2>1, <3>2
      <4>2. QED
        BY <4>1 DEF FramedBy
    <3>3. QED
      BY <3>1, <3>2
  <2>3. QED
    BY <1>1, <1>4, <2>1, <2>2 DEF FramedBy
<1>5. QED
  BY <1>3, <1>4

(* A word leaves the queue only when there is one. *)
LEMMA TakesAWord ==
  ASSUME TypeOK, QueueFramed, deqReady PROVE queue # <<>>
  BY DEF QueueFramed, deqReady

(* What the arrival of a word does, in terms of the frames. *)
Enters(i) == /\ i.tran = "beat" <=> toCome > 0
             /\ toCome' > 0 <=> Continues(i)
             /\ toCome' \in 0 .. Beats
             /\ queue' = Append(Rest(deqReady), i)

LEMMA QueueSteps ==
  ASSUME TypeOK, QueueFramed, Queue
  PROVE  /\ Rest(deqReady) \in Seq(Item)
         /\ \/ queue' = Rest(deqReady) /\ toCome' = toCome
            \/ \E i \in Item : Enters(i)
<1>1. Rest(deqReady) \in Seq(Item)
  BY TakesAWord DEF Rest, TypeOK
<1>2. CASE Idle(deqReady)
  BY <1>1, <1>2 DEF Idle
<1>3. ASSUME NEW i \in Arrivals, Arrive(deqReady, i)
      PROVE  i \in Item /\ Enters(i)
  <2>1. queue' = Append(Rest(deqReady), i)
    BY <1>3 DEF Arrive
  <2>2. toCome \in 0 .. Beats
    BY DEF TypeOK
  <2>3. CASE toCome > 0
    <3>1. i = [tran |-> "beat", last |-> toCome = 1]
      BY <2>3 DEF Arrivals
    <3>2. i \in Item /\ i.tran = "beat" /\ (i.last <=> toCome = 1)
      BY <3>1 DEF Item
    <3>3. toCome' = toCome - 1
      BY <1>3, <3>2 DEF Arrive
    <3>4. QED
      BY <2>1, <2>2, <2>3, <3>2, <3>3, Sizes DEF Continues, Enters
  <2>4. CASE ~(toCome > 0)
    <3>1. i \in Request \cup WriteBacks
      BY <2>4 DEF Arrivals
    <3>2. CASE i \in Request
      <4>1. i \in Item /\ i.tran \notin {"WriteBack", "beat"}
        BY <3>2 DEF Item, Request, Reads, Snooped
      <4>2. toCome' = toCome
        BY <1>3, <4>1 DEF Arrive
      <4>3. QED
        BY <2>1, <2>2, <2>4, <4>1, <4>2 DEF Continues, Enters
    <3>3. CASE i \in WriteBacks
      <4>1. i \in Item /\ i.tran = "WriteBack"
        BY <3>3 DEF Item, WriteBacks
      <4>2. toCome' = Beats
        BY <1>3, <4>1 DEF Arrive
      <4>3. QED
        BY <2>1, <2>4, <4>1, <4>2, Sizes DEF Continues, Enters
    <3>4. QED
      BY <3>1, <3>2, <3>3
  <2>5. QED
    BY <2>3, <2>4
<1>4. QED
  BY <1>1, <1>2, <1>3 DEF Queue

LEMMA QueueTyped ==
  ASSUME TypeOK, QueueFramed, Queue
  PROVE  queue' \in Seq(Item) /\ toCome' \in 0 .. Beats
<1>1. Rest(deqReady) \in Seq(Item) /\ toCome \in 0 .. Beats
  BY QueueSteps DEF TypeOK
<1>2. ASSUME NEW i \in Item, Enters(i)
      PROVE  queue' \in Seq(Item) /\ toCome' \in 0 .. Beats
  BY <1>1, <1>2 DEF Enters
<1>3. QED
  BY <1>1, <1>2, QueueSteps

(* The head stays until it is taken. *)
LEMMA HeadKept ==
  ASSUME TypeOK, QueueFramed, Queue, ~deqReady, queue # <<>>
  PROVE  queue' # <<>> /\ queue'[1] = queue[1]
<1>1. Rest(deqReady) = queue /\ queue \in Seq(Item)
  BY DEF Rest, TypeOK
<1>2. ASSUME NEW i \in Item, Enters(i)
      PROVE  queue' # <<>> /\ queue'[1] = queue[1]
  BY <1>1, <1>2 DEF Enters
<1>3. QED
  BY <1>1, <1>2, QueueSteps

LEMMA FramedStep ==
  ASSUME TypeOK, QueueFramed, OneReader, Framed, NEW in, in.deq = FirstOf(queue),
         CcuCycle(in), Queue
  PROVE  Framed'
<1>1. queue \in Seq(Item) /\ Draining \in BOOLEAN
  BY DEF TypeOK, Draining
<1>2. FramedBy(Rest(deqReady), toCome, Draining')
  <2>1. CASE deqReady
    <3>1. queue # <<>> /\ in.deq = {queue[1]}
      BY <2>1, TakesAWord DEF FirstOf
    <3>2. Draining' <=> Continues(queue[1])
      <4>1. CASE fsm1 = "deq1"
        BY <4>1 DEF CcuCycle, Fsm1, Draining, Continues, QueueFramed
      <4>2. CASE fsm1 = "deq2"
        BY <3>1, <4>2 DEF CcuCycle, Fsm1, Draining, Continues, QueueFramed
      <4>3. CASE fsm3 = "deq"
        <5>1. fsm1 = "idle" /\ queue[1].tran \in Reads
          BY <4>3 DEF OneReader, QueueFramed
        <5>2. fsm1' = "idle"
          BY <3>1, <5>1 DEF CcuCycle, Fsm1, First, Reads, Snooped
        <5>3. QED
          BY <5>1, <5>2 DEF Draining, Continues, Reads, Snooped
      <4>4. QED
        BY <2>1, <4>1, <4>2, <4>3 DEF deqReady
    <3>3. FramedBy(Tail(queue), toCome, Continues(queue[1]))
      BY <1>1, <3>1, PopFramed DEF Framed
    <3>4. (Draining' <=> Continues(queue[1])) => Draining' = Continues(queue[1])
      BY DEF Draining, Continues
    <3>5. QED
      BY <2>1, <3>2, <3>3, <3>4 DEF Rest
  <2>2. CASE ~deqReady
    <3>1. Draining' = Draining
      BY <2>2 DEF deqReady, CcuCycle, Fsm1, Draining, TypeOK, CcuTypeOK
    <3>2. QED
      BY <2>2, <3>1 DEF Rest, Framed
  <2>3. QED
    BY <2>1, <2>2
<1>3. CASE queue' = Rest(deqReady) /\ toCome' = toCome
  BY <1>2, <1>3 DEF Framed
<1>4. ASSUME NEW i \in Item, Enters(i) PROVE Framed'
  <2>1. Draining' \in BOOLEAN
    BY DEF Draining
  <2>2. FramedBy(Append(Rest(deqReady), i), toCome', Draining')
    BY <1>2, <1>4, <2>1, QueueSteps, PushFramed DEF Enters
  <2>3. QED
    BY <1>4, <2>2 DEF Framed, Enters
<1>5. QED
  BY <1>3, <1>4, QueueSteps

(* A read that FSM_3 starts with keeps FSM_1 idle, and nobody else takes    *)
(* its word.                                                                *)
LEMMA ReadersHead ==
  ASSUME TypeOK, QueueFramed, OneReader, NEW in, in.deq = FirstOf(queue),
         CcuCycle(in), Queue, fsm3' \in {"ar", "buff1", "deq"}
  PROVE  /\ fsm3 \in {"idle", "ar", "buff1"} /\ fsm1' = "idle" /\ ~deqReady
         /\ queue # <<>> /\ queue[1].tran \in Reads /\ in.deq = {queue[1]}
         /\ queue' # <<>> /\ queue'[1] = queue[1]
<1>1. fsm3 \in {"idle", "ar", "buff1"} /\ fsm1 = "idle"
  BY DEF CcuCycle, Fsm3, OneReader, TypeOK, CcuTypeOK
<1>2. queue # <<>> /\ queue[1].tran \in Reads
  BY <1>1 DEF CcuCycle, Fsm3, QueueFramed, First, FirstOf, Reads, Snooped
<1>3. fsm1' = "idle"
  BY <1>1, <1>2 DEF CcuCycle, Fsm1, First, FirstOf, Reads, Snooped
<1>4. ~deqReady /\ in.deq = {queue[1]}
  BY <1>1, <1>2 DEF deqReady, FirstOf
<1>5. QED
  BY <1>1, <1>2, <1>3, <1>4, HeadKept

LEMMA OneReaderStep ==
  ASSUME TypeOK, QueueFramed, OneReader, NEW in, in.deq = FirstOf(queue),
         CcuCycle(in), Queue
  PROVE  OneReader'
<1>1. write_back' <=> fsm1' # "idle"
  BY DEF CcuCycle, Fsm1, OneReader, TypeOK, CcuTypeOK
<1>3. ASSUME fsm3' = "ar" PROVE queue'[1].tran # "CleanUnique"
  <2>1. queue'[1] = queue[1] /\ in.deq = {queue[1]}
    BY <1>3, ReadersHead
  <2>2. fsm3 \in {"idle", "ar"}
    BY <1>3 DEF CcuCycle, Fsm3, TypeOK, CcuTypeOK
  <2>3. QED
    BY <1>3, <2>1, <2>2 DEF CcuCycle, Fsm3, First, OneReader
<1>4. ASSUME fsm3' = "deq" PROVE pbuf1' = queue'[1]
  <2>1. queue'[1] = queue[1] /\ in.deq = {queue[1]} /\ ~deqReady
    BY <1>4, ReadersHead
  <2>2. fsm3 = "buff1"
    BY <1>4, <2>1 DEF CcuCycle, Fsm3, TypeOK, CcuTypeOK, deqReady
  <2>3. QED
    BY <2>1, <2>2 DEF CcuCycle, Fsm3
<1>5. QED
  BY <1>1, <1>3, <1>4, ReadersHead DEF OneReader

(* Each state machine finds the words that are meant for it. *)
LEMMA QueueFramedStep ==
  ASSUME TypeOK, QueueFramed, OneReader, Framed, NEW in, in.deq = FirstOf(queue),
         CcuCycle(in), Queue
  PROVE  QueueFramed'
<1>1. ASSUME fsm3' \in {"ar", "buff1", "deq"}
      PROVE  queue' # <<>> /\ queue'[1].tran \in Reads
  BY <1>1, ReadersHead
<1>2. ASSUME fsm1' \in {"aw", "deq1"}
      PROVE  queue' # <<>> /\ queue'[1].tran = "WriteBack"
  <2>1. fsm1 \in {"idle", "aw"} /\ queue # <<>> /\ queue[1].tran = "WriteBack"
    BY <1>2 DEF CcuCycle, Fsm1, QueueFramed, First, FirstOf, TypeOK, CcuTypeOK
  <2>2. ~deqReady
    BY <2>1 DEF deqReady, QueueFramed, Reads, Snooped
  <2>3. QED
    BY <2>1, <2>2, HeadKept
<1>3. ASSUME fsm1' \in {"wd", "deq2"}
      PROVE  queue' # <<>> /\ queue'[1].tran = "beat"
  <2>1. fsm1 \in {"wait", "wd"} /\ queue # <<>>
    BY <1>3 DEF CcuCycle, Fsm1, QueueFramed, FirstOf, TypeOK, CcuTypeOK
  <2>2. queue[1].tran = "beat"
    BY <2>1 DEF Framed, FramedBy, Draining
  <2>3. ~deqReady
    BY <2>1 DEF deqReady, OneReader
  <2>4. QED
    BY <2>1, <2>2, <2>3, HeadKept
<1>4. ASSUME fsm1' = "idle", queue' # <<>>
      PROVE  queue'[1].tran # "beat"
  BY <1>4, FramedStep DEF Framed, FramedBy, Draining
<1>5. QED
  BY <1>1, <1>2, <1>3, <1>4 DEF QueueFramed
-----------------------------------------------------------------------------
(***************************************************************************)
(* L2 and its answers.                                                     *)
(***************************************************************************)

(* The reads of q are the requests a, in order. *)
Pairs(at, a, q) ==
  /\ \A i, j \in DOMAIN a : i < j => at[i] < at[j]
  /\ \A j \in DOMAIN q : q[j].read => \E i \in DOMAIN a : at[i] = j
  /\ \A i \in DOMAIN a : q[at[i]].read /\ q[at[i]].port = a[i].port
                                       /\ q[at[i]].line = a[i].line

Matches(a, q) == \E at \in [DOMAIN a -> DOMAIN q] : Pairs(at, a, q)

(* What L2's queue holds. *)
Entry == [read : BOOLEAN, port : Ports, line : Lines]

LEMMA L2ExactMatches == L2Exact <=> Matches(asked, l2)
<1>1. ASSUME NEW at \in [DOMAIN asked -> DOMAIN l2]
      PROVE  /\ \A i, j \in DOMAIN asked : i < j => at[i] < at[j]
             /\ {at[i] : i \in DOMAIN asked} = {j \in DOMAIN l2 : l2[j].read}
             /\ \A i \in DOMAIN asked : /\ l2[at[i]].port = asked[i].port
                                        /\ l2[at[i]].line = asked[i].line
             <=> Pairs(at, asked, l2)
  BY DEF Pairs
<1>2. QED
  BY <1>1 DEF L2Exact, Matches

(* A read at the head is the oldest request, and both leave together. *)
LEMMA PopRead ==
  ASSUME NEW T, NEW a \in Seq(T), NEW q \in Seq(Entry), Matches(a, q), q # <<>>, q[1].read
  PROVE  a # <<>> /\ Matches(Tail(a), Tail(q))
<1>1. PICK at \in [DOMAIN a -> DOMAIN q] : Pairs(at, a, q)
  BY DEF Matches
<1>2. DOMAIN a = 1 .. Len(a) /\ DOMAIN q = 1 .. Len(q) /\ Len(a) \in Nat /\ Len(q) \in Nat
      /\ Len(q) >= 1
  OBVIOUS
<1>3. PICK k \in DOMAIN a : at[k] = 1
  BY <1>1, <1>2 DEF Pairs
<1>4. k = 1 /\ Len(a) >= 1 /\ at[1] = 1
  <2>1. k >= 1 /\ k <= Len(a) /\ 1 \in DOMAIN a /\ at[1] >= 1
    BY <1>2, <1>3
  <2>2. ~(1 < k)
    <3>1. 1 < k => at[1] < at[k]
      BY <1>1, <2>1 DEF Pairs
    <3>2. QED
      BY <1>3, <2>1, <3>1
  <2>3. QED
    BY <1>3, <2>1, <2>2
<1>5. /\ Len(Tail(a)) = Len(a) - 1 /\ DOMAIN Tail(a) = 1 .. Len(a) - 1
      /\ Len(Tail(q)) = Len(q) - 1 /\ DOMAIN Tail(q) = 1 .. Len(q) - 1
      /\ \A i \in 1 .. Len(a) - 1 : Tail(a)[i] = a[i + 1]
      /\ \A i \in 1 .. Len(q) - 1 : Tail(q)[i] = q[i + 1]
  BY <1>2, <1>4
<1>6. ASSUME NEW i \in DOMAIN Tail(a)
      PROVE  /\ i + 1 \in DOMAIN a /\ at[i + 1] \in 2 .. Len(q)
             /\ at[i + 1] - 1 \in DOMAIN Tail(q)
  <2>1. 1 \in DOMAIN a /\ i + 1 \in DOMAIN a /\ 1 < i + 1
    BY <1>2, <1>4, <1>5
  <2>2. at[1] < at[i + 1] /\ at[i + 1] \in 1 .. Len(q)
    BY <1>1, <1>2, <2>1 DEF Pairs
  <2>3. QED
    BY <1>2, <1>4, <1>5, <2>1, <2>2
<1> DEFINE to == [i \in DOMAIN Tail(a) |-> at[i + 1] - 1]
<1>7. /\ to \in [DOMAIN Tail(a) -> DOMAIN Tail(q)]
      /\ \A i \in DOMAIN Tail(a) : to[i] = at[i + 1] - 1 /\ i + 1 \in DOMAIN a
  BY <1>6
<1> HIDE DEF to
<1>8. \A i, j \in DOMAIN Tail(a) : i < j => to[i] < to[j]
  <2> SUFFICES ASSUME NEW i \in DOMAIN Tail(a), NEW j \in DOMAIN Tail(a), i < j
               PROVE  to[i] < to[j]
    OBVIOUS
  <2>1. /\ i + 1 \in DOMAIN a /\ j + 1 \in DOMAIN a /\ i + 1 < j + 1
        /\ at[i + 1] \in Nat /\ at[j + 1] \in Nat
    <3>1. \A n \in 2 .. Len(q) : n \in Nat
      OBVIOUS
    <3>2. i + 1 \in DOMAIN a /\ at[i + 1] \in Nat
      BY <1>6, <3>1
    <3>3. j + 1 \in DOMAIN a /\ at[j + 1] \in Nat
      BY <1>6, <3>1
    <3>4. i + 1 < j + 1
      BY <1>2, <1>5
    <3>5. QED
      BY <3>2, <3>3, <3>4
  <2>2. at[i + 1] < at[j + 1]
    BY <1>1, <2>1 DEF Pairs
  <2>3. to[i] = at[i + 1] - 1 /\ to[j] = at[j + 1] - 1
    BY <1>7
  <2>4. QED
    BY <2>1, <2>2, <2>3
<1>9. ASSUME NEW i \in DOMAIN Tail(a)
      PROVE  /\ Tail(q)[to[i]].read
             /\ Tail(q)[to[i]].port = Tail(a)[i].port
             /\ Tail(q)[to[i]].line = Tail(a)[i].line
  <2>1. Tail(q)[to[i]] = q[to[i] + 1] /\ Tail(a)[i] = a[i + 1]
    BY <1>5, <1>7
  <2>2. i + 1 \in DOMAIN a /\ at[i + 1] \in Nat /\ to[i] = at[i + 1] - 1
    BY <1>6, <1>7
  <2>3. to[i] + 1 = at[i + 1]
    BY <2>2
  <2>4. q[at[i + 1]].read /\ q[at[i + 1]].port = a[i + 1].port
        /\ q[at[i + 1]].line = a[i + 1].line
    BY <1>1, <2>2 DEF Pairs
  <2>5. QED
    BY <2>1, <2>3, <2>4
<1>10. ASSUME NEW j \in DOMAIN Tail(q), Tail(q)[j].read
       PROVE  \E i \in DOMAIN Tail(a) : to[i] = j
  <2>1. j + 1 \in DOMAIN q /\ q[j + 1].read /\ j \in Nat /\ j >= 1
    BY <1>2, <1>5, <1>10
  <2>2. PICK i \in DOMAIN a : at[i] = j + 1
    BY <1>1, <2>1 DEF Pairs
  <2>3. i # 1 /\ i - 1 \in DOMAIN Tail(a) /\ (i - 1) + 1 = i
    BY <1>2, <1>4, <1>5, <2>1, <2>2
  <2>4. to[i - 1] = j
    BY <1>7, <2>1, <2>2, <2>3
  <2>5. QED
    BY <2>3, <2>4
<1>11. Pairs(to, Tail(a), Tail(q))
  BY <1>8, <1>9, <1>10 DEF Pairs
<1>12. QED
  BY <1>4, <1>7, <1>11 DEF Matches

(* A write at the head leaves alone. *)
LEMMA PopWrite ==
  ASSUME NEW T, NEW a \in Seq(T), NEW q \in Seq(Entry), Matches(a, q), q # <<>>, ~q[1].read
  PROVE  Matches(a, Tail(q))
<1>1. PICK at \in [DOMAIN a -> DOMAIN q] : Pairs(at, a, q)
  BY DEF Matches
<1>2. DOMAIN q = 1 .. Len(q) /\ Len(q) \in Nat /\ Len(q) >= 1
  OBVIOUS
<1>3. /\ DOMAIN Tail(q) = 1 .. Len(q) - 1
      /\ \A i \in 1 .. Len(q) - 1 : Tail(q)[i] = q[i + 1]
  BY <1>2
<1>4. \A i \in DOMAIN a : at[i] \in 2 .. Len(q) /\ q[at[i]].read
  BY <1>1, <1>2 DEF Pairs
<1> DEFINE to == [i \in DOMAIN a |-> at[i] - 1]
<1>5. /\ to \in [DOMAIN a -> DOMAIN Tail(q)]
      /\ \A i \in DOMAIN a : to[i] = at[i] - 1
  BY <1>3, <1>4
<1> HIDE DEF to
<1>6. \A i, j \in DOMAIN a : i < j => to[i] < to[j]
  BY <1>1, <1>4, <1>5 DEF Pairs
<1>7. \A i \in DOMAIN a : Tail(q)[to[i]] = q[at[i]]
  BY <1>3, <1>4, <1>5
<1>8. ASSUME NEW j \in DOMAIN Tail(q), Tail(q)[j].read
      PROVE  \E i \in DOMAIN a : to[i] = j
  <2>1. j + 1 \in DOMAIN q /\ q[j + 1].read /\ j \in Nat
    BY <1>2, <1>3, <1>8
  <2>2. PICK i \in DOMAIN a : at[i] = j + 1
    BY <1>1, <2>1 DEF Pairs
  <2>3. QED
    BY <1>5, <2>1, <2>2
<1>9. Pairs(to, a, Tail(q))
  BY <1>1, <1>6, <1>7, <1>8 DEF Pairs
<1>10. QED
  BY <1>5, <1>9 DEF Matches

(* A read enters L2's queue together with its request, at the end. *)
LEMMA PushRead ==
  ASSUME NEW T, NEW a \in Seq(T), NEW q \in Seq(Entry), Matches(a, q),
         NEW x \in T, NEW r \in Entry, r.read, r.port = x.port, r.line = x.line
  PROVE  Matches(Append(a, x), Append(q, r))
<1> DEFINE b == Append(a, x)
           s == Append(q, r)
<1>1. PICK at \in [DOMAIN a -> DOMAIN q] : Pairs(at, a, q)
  BY DEF Matches
<1>2. DOMAIN a = 1 .. Len(a) /\ DOMAIN q = 1 .. Len(q) /\ Len(a) \in Nat /\ Len(q) \in Nat
  OBVIOUS
<1>3. /\ DOMAIN b = 1 .. Len(a) + 1 /\ \A i \in DOMAIN a : b[i] = a[i]
      /\ DOMAIN s = 1 .. Len(q) + 1 /\ \A i \in DOMAIN q : s[i] = q[i]
      /\ b[Len(a) + 1] = x /\ s[Len(q) + 1] = r
  BY <1>2
<1> HIDE DEF b, s
<1>4. \A i \in DOMAIN a : at[i] \in 1 .. Len(q) /\ q[at[i]].read
  BY <1>1, <1>2 DEF Pairs
<1> DEFINE to == [i \in DOMAIN b |-> IF i \in DOMAIN a THEN at[i] ELSE Len(q) + 1]
<1>5. /\ to \in [DOMAIN b -> DOMAIN s]
      /\ \A i \in DOMAIN a : i \in DOMAIN b /\ to[i] = at[i]
      /\ Len(a) + 1 \in DOMAIN b /\ to[Len(a) + 1] = Len(q) + 1
  BY <1>2, <1>3, <1>4
<1> HIDE DEF to
<1>6. \A i \in DOMAIN b : i \in DOMAIN a \/ i = Len(a) + 1
  BY <1>2, <1>3
<1>7. \A i, j \in DOMAIN b : i < j => to[i] < to[j]
  BY <1>1, <1>2, <1>4, <1>5, <1>6 DEF Pairs
<1>8. \A i \in DOMAIN b : /\ s[to[i]].read
                          /\ s[to[i]].port = b[i].port /\ s[to[i]].line = b[i].line
  BY <1>1, <1>2, <1>3, <1>4, <1>5, <1>6 DEF Pairs
<1>9. ASSUME NEW j \in DOMAIN s, s[j].read
      PROVE  \E i \in DOMAIN b : to[i] = j
  <2>1. CASE j = Len(q) + 1
    BY <1>5, <2>1
  <2>2. CASE j # Len(q) + 1
    <3>1. j \in DOMAIN q /\ q[j].read
      BY <1>2, <1>3, <1>9, <2>2
    <3>2. PICK i \in DOMAIN a : at[i] = j
      BY <1>1, <3>1 DEF Pairs
    <3>3. QED
      BY <1>5, <3>2
  <2>3. QED
    BY <2>1, <2>2
<1>10. Pairs(to, b, s)
  BY <1>7, <1>8, <1>9 DEF Pairs
<1>11. Matches(b, s)
  BY <1>5, <1>10 DEF Matches
<1>12. QED
  BY <1>11 DEF b, s

(* A write enters alone. *)
LEMMA PushWrite ==
  ASSUME NEW T, NEW a \in Seq(T), NEW q \in Seq(Entry), Matches(a, q),
         NEW r \in Entry, ~r.read
  PROVE  Matches(a, Append(q, r))
<1> DEFINE s == Append(q, r)
<1>1. PICK at \in [DOMAIN a -> DOMAIN q] : Pairs(at, a, q)
  BY DEF Matches
<1>2. DOMAIN q = 1 .. Len(q) /\ Len(q) \in Nat
  OBVIOUS
<1>3. /\ DOMAIN s = 1 .. Len(q) + 1 /\ \A i \in DOMAIN q : s[i] = q[i]
      /\ s[Len(q) + 1] = r /\ DOMAIN q \subseteq DOMAIN s
  BY <1>2
<1> HIDE DEF s
<1>4. \A i \in DOMAIN a : at[i] \in DOMAIN q /\ q[at[i]].read
  BY <1>1 DEF Pairs
<1>5. \A j \in DOMAIN s : s[j].read => j \in DOMAIN q /\ q[j].read
  BY <1>2, <1>3
<1>6. at \in [DOMAIN a -> DOMAIN s] /\ \A i \in DOMAIN a : s[at[i]] = q[at[i]]
  BY <1>3, <1>4
<1>7. Matches(a, s)
  <2>1. Pairs(at, a, s)
    BY <1>1, <1>5, <1>6 DEF Pairs
  <2>2. QED
    BY <1>6, <2>1 DEF Matches
<1>8. QED
  BY <1>7 DEF s

(* A request leaves the unit's list when L2's last beat for it is taken and *)
(* joins it when L2 accepts its address; moving from stage to stage changes *)
(* nothing.                                                                 *)
Taken(in) == captures(in) /\ in.rvalid /\ pbuf3.tran # "CleanUnique"
Left(in) == Taken(in) /\ in.rlast
Joined(in) == ARVALID /\ in.arready

Word == Item \cup {Reset}
w3 == IF answered THEN <<>> ELSE Waits(stage3)
w2 == Waits(stage2)
w1 == Waits(stage1)
w0 == Waits(stage0)

LEMMA StageTypes ==
  ASSUME TypeOK, QueueFramed
  PROVE  {w3, w2, w1, w0} \subseteq Seq(Word)
<1>1. {pbuf1, pbuf2, pbuf3} \subseteq Word
  BY DEF TypeOK, CcuTypeOK, Word, Item
<1>2. fsm3 \in {"buff1", "deq"} => queue[1] \in Word
  <2>1. queue \in Seq(Item) /\ (fsm3 \in {"buff1", "deq"} => queue # <<>>)
    BY DEF TypeOK, QueueFramed
  <2>2. QED
    BY <2>1 DEF Word
<1>3. {stage3, stage2, stage1, stage0} \subseteq Seq(Word)
  BY <1>1, <1>2 DEF stage3, stage2, stage1, stage0
<1>4. QED
  BY <1>3 DEF w3, w2, w1, w0, Waits

(* FSM_12's stage: the request handed over, until L2 has answered it. *)
LEMMA LastStage ==
  ASSUME TypeOK, Lockstep, EmptyBeat, NEW in, WireOK(in), CcuCycle(in)
  PROVE  /\ snoop[0] = "buf" => w3 = <<>> /\ w3' = Waits(<<pbuf2>>)
         /\ snoop[0] # "buf" /\ Left(in) => w3 = <<pbuf3>> /\ w3' = <<>>
         /\ snoop[0] # "buf" /\ ~Left(in) => w3' = w3
<1> USE PortNumbers
<1>0. Waits(<<>>) = <<>>
  BY DEF Waits
<1>1. ASSUME snoop[0] = "buf"
      PROVE  w3 = <<>> /\ w3' = Waits(<<pbuf2>>)
  <2>1. fsm12 = "idle" /\ All("buf")
    BY <1>1 DEF Lockstep, All, Snooping
  <2>2. fsm12' = "idle" /\ snoop'[0] = "rsp" /\ pbuf3' = pbuf2
    BY <1>1, <2>1 DEF CcuCycle, Fsm12, SnoopStage, Snoop, captures
  <2>3. QED
    BY <1>0, <1>1, <2>1, <2>2 DEF w3, stage3, answered, Waits
<1>3. ASSUME snoop[0] # "buf", Left(in)
      PROVE  w3 = <<pbuf3>> /\ w3' = <<>>
  <2>1. fsm12 = "capture" /\ fsm12' = "rsp" /\ pbuf3.tran # "CleanUnique"
    BY <1>3 DEF CcuCycle, Fsm12, Left, Taken, captures
  <2>2. last'
    <3>1. in.rlast /\ in.cdlast = Ports
      BY <1>3 DEF WireOK, Left
    <3>2. select \subseteq Ports
      BY DEF TypeOK, CcuTypeOK
    <3>3. QED
      BY <1>3, <2>1, <3>1, <3>2 DEF CcuCycle, Fsm12, Left, Taken
  <2>3. QED
    BY <2>1, <2>2 DEF w3, stage3, answered, Waits
<1>4. ASSUME snoop[0] # "buf", ~Left(in)
      PROVE  w3' = w3
  <2>1. pbuf3' = pbuf3 /\ snoop'[0] # "rsp"
    BY <1>4 DEF CcuCycle, SnoopStage, Snoop, Start
  <2>2. CASE pbuf3.tran = "CleanUnique"
    BY <1>0, <2>1, <2>2 DEF w3, stage3, Waits
  <2>3. CASE pbuf3.tran # "CleanUnique"
    <3>1. w3 = IF (fsm12 # "idle" \/ snoop[0] = "rsp") /\ ~answered THEN <<pbuf3>> ELSE <<>>
      BY <2>3 DEF w3, stage3, Waits
    <3>2. w3' = IF fsm12' # "idle" /\ ~answered' THEN <<pbuf3>> ELSE <<>>
      BY <2>1, <2>3 DEF w3, stage3, Waits
    <3>3. CASE fsm12 = "idle"
      <4>1. CASE snoop[0] = "rsp"
        <5>1. fsm12' = "select"
          BY <2>3, <3>3, <4>1 DEF CcuCycle, Fsm12, captures
        <5>2. QED
          BY <3>1, <3>2, <3>3, <4>1, <5>1 DEF answered
      <4>2. CASE snoop[0] # "rsp"
        <5>1. fsm12' = "idle"
          BY <3>3, <4>2 DEF CcuCycle, Fsm12, captures
        <5>2. QED
          BY <3>1, <3>2, <3>3, <4>2, <5>1
      <4>3. QED
        BY <4>1, <4>2
    <3>4. CASE fsm12 = "select"
      <4>1. fsm12' = "capture"
        BY <3>4 DEF CcuCycle, Fsm12, captures
      <4>2. QED
        BY <3>1, <3>2, <3>4, <4>1 DEF answered
    <3>5. CASE fsm12 = "capture"
      <4>1. CASE captures(in)
        <5>1. ~in.rlast /\ in.cdlast = {}
          BY <1>4, <2>3, <4>1 DEF WireOK, Left, Taken, captures
        <5>2. fsm12' = "rsp" /\ ~last'
          BY <3>5, <4>1, <5>1 DEF CcuCycle, Fsm12, TypeOK, CcuTypeOK
        <5>3. QED
          BY <3>1, <3>2, <3>5, <5>2 DEF answered
      <4>2. CASE ~captures(in)
        <5>1. fsm12' = "capture"
          BY <3>5, <4>2 DEF CcuCycle, Fsm12
        <5>2. QED
          BY <3>1, <3>2, <3>5, <5>1 DEF answered
      <4>3. QED
        BY <4>1, <4>2
    <3>6. CASE fsm12 = "rsp"
      <4>1. last' = last /\ fsm12' \in {"rsp", IF last THEN "done" ELSE "capture"}
        BY <3>6 DEF CcuCycle, Fsm12, captures
      <4>2. QED
        BY <3>1, <3>2, <3>6, <4>1 DEF answered
    <3>7. fsm12 # "rspbar"
      BY <2>3 DEF EmptyBeat
    <3>8. CASE fsm12 = "done"
      <4>1. fsm12' = "idle"
        BY <3>8 DEF CcuCycle, Fsm12, captures
      <4>2. QED
        BY <3>1, <3>2, <3>8, <4>1 DEF answered
    <3>9. QED
      BY <3>3, <3>4, <3>5, <3>6, <3>7, <3>8 DEF TypeOK, CcuTypeOK
  <2>4. QED
    BY <2>2, <2>3
<1>5. QED
  BY <1>1, <1>3, <1>4

(* The snoop stage and FSM_3's two stages. *)
LEMMA OtherStages ==
  ASSUME TypeOK, Lockstep, QueueFramed, OneReader, NEW in, WireOK(in), CcuCycle(in), Queue
  PROVE  /\ snoop[0] = "buf" => fsm3 # "buff2" /\ w2 = Waits(<<pbuf2>>) /\ w2' = <<>>
         /\ fsm3 = "buff2" => w2 = <<>> /\ w2' = w1 /\ w1' = <<>> /\ w0 = <<>> /\ w0' = <<>>
         /\ snoop[0] # "buf" /\ fsm3 # "buff2" => w2' = w2
         /\ fsm3 = "deq" => w1 = <<>> /\ w1' = w0 /\ w0' = <<>>
         /\ fsm3 \notin {"buff2", "deq"} => w1' = w1
         /\ Joined(in) => w0 = <<>> /\ w0' = <<queue[1]>> /\ queue # <<>>
         /\ fsm3 \notin {"buff2", "deq"} /\ ~Joined(in) => w0' = w0
<1> USE PortNumbers
<1>0. Waits(<<>>) = <<>>
  BY DEF Waits
<1>1. ASSUME snoop[0] = "buf"
      PROVE  fsm3 # "buff2" /\ w2 = Waits(<<pbuf2>>) /\ w2' = <<>>
  <2>1. fsm3 \notin {"buff2", "snoop"}
    BY <1>1 DEF Lockstep, All
  <2>2. snoop'[0] = "rsp" /\ fsm3' # "snoop"
    BY <1>1, <2>1 DEF CcuCycle, SnoopStage, Snoop, Fsm3, TypeOK, CcuTypeOK
  <2>3. QED
    BY <1>0, <1>1, <2>1, <2>2 DEF w2, stage2
<1>2. ASSUME fsm3 = "buff2"
      PROVE  w2 = <<>> /\ w2' = w1 /\ w1' = <<>> /\ w0 = <<>> /\ w0' = <<>>
  <2>1. snoop[0] = "idle"
    BY <1>2 DEF Lockstep, All
  <2>2. fsm3' = "snoop" /\ pbuf2' = pbuf1
    BY <1>2 DEF CcuCycle, SnoopStage, Fsm3
  <2>3. QED
    BY <1>0, <1>2, <2>1, <2>2 DEF w2, w1, w0, stage2, stage1, stage0, Waits
<1>3. ASSUME snoop[0] # "buf", fsm3 # "buff2"
      PROVE  w2' = w2
  <2>1. pbuf2' = pbuf2 /\ fsm3' # "snoop"
    BY <1>3 DEF CcuCycle, SnoopStage, Fsm3, TypeOK, CcuTypeOK
  <2>2. (fsm3 = "snoop" \/ snoop[0] \notin {"idle", "rsp"}) <=> snoop'[0] \notin {"idle", "rsp"}
    <3>1. CASE fsm3 = "snoop"
      <4>1. snoop[0] = "idle"
        BY <3>1 DEF Lockstep, All
      <4>2. QED
        BY <3>1, <4>1 DEF CcuCycle, SnoopStage, Snoop, Start
    <3>2. CASE fsm3 # "snoop"
      BY <1>3, <3>2 DEF CcuCycle, SnoopStage, Snoop, TypeOK, CcuTypeOK
    <3>3. QED
      BY <3>1, <3>2
  <2>3. QED
    BY <2>1, <2>2 DEF w2, stage2, Waits
<1>4. ASSUME fsm3 = "deq"
      PROVE  w1 = <<>> /\ w1' = w0 /\ w0' = <<>>
  <2>1. fsm3' = "sync" /\ pbuf1' = pbuf1 /\ pbuf1 = queue[1]
    BY <1>4 DEF CcuCycle, Fsm3, OneReader
  <2>2. QED
    BY <1>0, <1>4, <2>1 DEF w1, w0, stage1, stage0, Waits
<1>5. ASSUME fsm3 \notin {"buff2", "deq"}
      PROVE  w1' = w1
  <2>1. fsm3 \in {"sync", "buff2"} <=> fsm3' \in {"sync", "buff2"}
    BY <1>5 DEF CcuCycle, Fsm3, TypeOK, CcuTypeOK
  <2>2. fsm3 = "sync" => pbuf1' = pbuf1
    BY DEF CcuCycle, Fsm3
  <2>3. QED
    BY <1>5, <2>1, <2>2 DEF w1, stage1, Waits
<1>6. ASSUME Joined(in)
      PROVE  w0 = <<>> /\ w0' = <<queue[1]>> /\ queue # <<>>
  <2>1. fsm3 = "ar" /\ fsm3' = "buff1"
    BY <1>6 DEF CcuCycle, Fsm3, Joined, ARVALID
  <2>2. queue # <<>> /\ queue'[1] = queue[1] /\ queue[1].tran # "CleanUnique"
    BY <2>1, ReadersHead DEF OneReader, WireOK
  <2>3. QED
    BY <1>0, <2>1, <2>2 DEF w0, stage0, Waits
<1>7. ASSUME fsm3 \notin {"buff2", "deq"}, ~Joined(in)
      PROVE  w0' = w0
  <2>1. CASE fsm3' \in {"buff1", "deq"}
    <3>1. fsm3 \in {"idle", "buff1"} /\ queue'[1] = queue[1] /\ in.deq = {queue[1]}
      BY <1>7, <2>1, ReadersHead DEF WireOK, CcuCycle, Fsm3, Joined, ARVALID
    <3>2. CASE fsm3 = "idle"
      <4>1. queue[1].tran = "CleanUnique"
        BY <2>1, <3>1, <3>2 DEF CcuCycle, Fsm3, First
      <4>2. QED
        BY <1>0, <2>1, <3>1, <3>2, <4>1 DEF w0, stage0, Waits
    <3>3. CASE fsm3 = "buff1"
      BY <2>1, <3>1, <3>3 DEF w0, stage0, Waits
    <3>4. QED
      BY <3>1, <3>2, <3>3
  <2>2. CASE fsm3' \notin {"buff1", "deq"}
    <3>1. fsm3 \notin {"buff1", "deq"}
      BY <1>7, <2>2 DEF CcuCycle, Fsm3
    <3>2. QED
      BY <1>0, <2>2, <3>1 DEF w0, stage0
  <2>3. QED
    BY <2>1, <2>2
<1>8. QED
  BY <1>1, <1>2, <1>3, <1>4, <1>5, <1>6, <1>7

LEMMA ListMoves ==
  ASSUME NEW T, NEW s \in Seq(T), NEW x \in T
  PROVE  /\ Tail(<<x>> \o s) = s /\ <<x>> \o s # <<>>
         /\ s \o <<x>> = Append(s, x)
<1>1. <<x>> \in Seq(T) /\ Len(<<x>>) = 1 /\ <<x>>[1] = x
  OBVIOUS
<1>2. /\ <<x>> \o s \in Seq(T) /\ Len(<<x>> \o s) = 1 + Len(s)
      /\ \A i \in 1 .. 1 + Len(s) : (<<x>> \o s)[i] = IF i <= 1 THEN <<x>>[i] ELSE s[i - 1]
  BY <1>1, ConcatProperties
<1>3. Len(s) \in Nat
  OBVIOUS
<1>4. <<x>> \o s # <<>>
  BY <1>2, <1>3
<1>5. Tail(<<x>> \o s) = s
  <2> DEFINE l == <<x>> \o s
  <2> HIDE DEF l
  <2>1. /\ Tail(l) \in Seq(T) /\ Len(Tail(l)) = Len(l) - 1
        /\ \A i \in 1 .. Len(Tail(l)) : Tail(l)[i] = l[i + 1]
    BY <1>2, <1>4, HeadTailProperties DEF l
  <2>2. Len(Tail(l)) = Len(s)
    BY <1>2, <1>3, <2>1 DEF l
  <2>3. ASSUME NEW i \in 1 .. Len(s) PROVE Tail(l)[i] = s[i]
    <3>1. Tail(l)[i] = l[i + 1]
      BY <2>1, <2>2
    <3>2. i + 1 \in 1 .. 1 + Len(s) /\ ~(i + 1 <= 1) /\ (i + 1) - 1 = i
      BY <1>3
    <3>3. QED
      BY <1>2, <3>1, <3>2 DEF l
  <2>4. Tail(l) = s
    BY <2>1, <2>2, <2>3, SeqEqual
  <2>5. QED
    BY <2>4 DEF l
<1>6. s \o <<x>> = Append(s, x)
  <2>1. /\ s \o <<x>> \in Seq(T) /\ Len(s \o <<x>>) = Len(s) + 1
        /\ \A i \in 1 .. Len(s) + 1 :
              (s \o <<x>>)[i] = IF i <= Len(s) THEN s[i] ELSE <<x>>[i - Len(s)]
    BY <1>1, ConcatProperties
  <2>2. /\ Append(s, x) \in Seq(T) /\ Len(Append(s, x)) = Len(s) + 1
        /\ \A i \in 1 .. Len(s) + 1 :
              Append(s, x)[i] = IF i <= Len(s) THEN s[i] ELSE x
    BY <1>3
  <2>3. \A i \in 1 .. Len(s) + 1 : (s \o <<x>>)[i] = Append(s, x)[i]
    BY <1>1, <1>3, <2>1, <2>2
  <2>4. QED
    BY <2>1, <2>2, <2>3, SeqEqual
<1>7. QED
  BY <1>4, <1>5, <1>6

(* Concatenation by its laws alone. *)
Cat(s, t) == s \o t

LEMMA CatLaws ==
  /\ \A s, t \in Seq(Word) : Cat(s, t) \in Seq(Word)
  /\ \A s \in Seq(Word) : Cat(s, <<>>) = s /\ Cat(<<>>, s) = s
  /\ \A s, t, u \in Seq(Word) : Cat(s, Cat(t, u)) = Cat(Cat(s, t), u)
<1>1. ASSUME NEW s \in Seq(Word), NEW t \in Seq(Word) PROVE Cat(s, t) \in Seq(Word)
  BY ConcatProperties DEF Cat
<1>2. ASSUME NEW s \in Seq(Word) PROVE Cat(s, <<>>) = s /\ Cat(<<>>, s) = s
  BY ConcatEmptySeq DEF Cat
<1>3. ASSUME NEW s \in Seq(Word), NEW t \in Seq(Word), NEW u \in Seq(Word)
      PROVE  Cat(s, Cat(t, u)) = Cat(Cat(s, t), u)
  <2>1. (s \o t) \o u = s \o (t \o u)
    BY ConcatAssociative, Z3T(60)
  <2>2. QED
    BY <2>1 DEF Cat
<1>4. QED
  BY <1>1, <1>2, <1>3

LEMMA AskedIs == asked = Cat(Cat(Cat(w3, w2), w1), w0)
  BY DEF asked, w3, w2, w1, w0, Cat

(* The list of requests that wait for L2 behaves as a queue. *)
LEMMA AskedStep ==
  ASSUME TypeOK, Lockstep, EmptyBeat, QueueFramed, OneReader,
         NEW in, WireOK(in), CcuCycle(in), Queue
  PROVE  LET rest == IF Left(in) THEN Tail(asked) ELSE asked
         IN /\ asked \in Seq(Word)
            /\ Left(in) => asked # <<>>
            /\ Joined(in) => queue # <<>>
            /\ asked' = IF Joined(in) THEN Append(rest, queue[1]) ELSE rest
<1> DEFINE j == IF Joined(in) THEN <<queue[1]>> ELSE <<>>
           low == Cat(w1, w0)
           mid == Cat(w2, low)
           rest == IF Left(in) THEN Tail(asked) ELSE asked
<1>1. w3 \in Seq(Word) /\ w2 \in Seq(Word) /\ w1 \in Seq(Word) /\ w0 \in Seq(Word)
  BY StageTypes
<1>2. Joined(in) => queue # <<>> /\ queue[1] \in Word /\ fsm3 = "ar"
  <2>1. queue \in Seq(Item)
    BY DEF TypeOK
  <2>2. QED
    BY <2>1, OtherStages DEF Joined, ARVALID, Word
<1>3. j \in Seq(Word) /\ <<>> \in Seq(Word)
  BY <1>2
<1>4. low \in Seq(Word) /\ mid \in Seq(Word)
  BY <1>1, CatLaws
<1>6. asked = Cat(w3, mid)
  BY <1>1, <1>4, CatLaws, AskedIs
<1>7. asked' = Cat(Cat(Cat(w3', w2'), w1'), w0')
  <2>1. (asked = Cat(Cat(Cat(w3, w2), w1), w0))'
    BY AskedIs, PTL
  <2>2. QED
    BY <2>1 DEF Cat
<1>8. fsm3 # "buff2" => w1' \in Seq(Word) /\ w0' \in Seq(Word) /\ Cat(w1', w0') = Cat(low, j)
  <2>1. CASE fsm3 = "deq"
    <3>1. w1 = <<>> /\ w1' = w0 /\ w0' = <<>> /\ j = <<>>
      BY <1>2, <2>1, OtherStages
    <3>2. QED
      BY <1>1, <1>3, <3>1, CatLaws
  <2>2. CASE fsm3 \notin {"buff2", "deq"} /\ Joined(in)
    <3>1. w1' = w1 /\ w0 = <<>> /\ w0' = j
      BY <2>2, OtherStages
    <3>2. QED
      BY <1>1, <1>3, <3>1, CatLaws
  <2>3. CASE fsm3 \notin {"buff2", "deq"} /\ ~Joined(in)
    <3>1. w1' = w1 /\ w0' = w0 /\ j = <<>>
      BY <2>3, OtherStages
    <3>2. QED
      BY <1>1, <1>4, <3>1, CatLaws
  <2>4. QED
    BY <2>1, <2>2, <2>3
<1> HIDE DEF j, low, mid, rest
<1>9. ASSUME snoop[0] = "buf"
      PROVE  asked' = Cat(rest, j) /\ (Left(in) => asked # <<>>)
  <2>1. w3 = <<>> /\ w3' = w2 /\ w2' = <<>> /\ fsm3 # "buff2"
    BY <1>9, LastStage, OtherStages
  <2>2. ~Left(in)
    BY <1>9, PortNumbers DEF Left, Taken, captures, Lockstep, All, Snooping
  <2>3. asked' = Cat(Cat(w2, w1'), w0')
    BY <1>1, <1>7, <2>1, CatLaws
  <2>4. asked' = Cat(w2, Cat(low, j))
    BY <1>1, <1>8, <2>1, <2>3, CatLaws
  <2>5. asked = Cat(w2, low)
    BY <1>4, <1>6, <2>1, CatLaws DEF mid
  <2>6. QED
    BY <1>1, <1>3, <1>4, <2>2, <2>4, <2>5, CatLaws DEF rest
<1>10. ASSUME snoop[0] # "buf"
       PROVE  asked' = Cat(rest, j) /\ (Left(in) => asked # <<>>)
  <2>1. w2' \in Seq(Word) /\ w1' \in Seq(Word) /\ w0' \in Seq(Word)
        /\ Cat(w2', Cat(w1', w0')) = Cat(mid, j)
    <3>1. CASE fsm3 = "buff2"
      <4>1. w2 = <<>> /\ w2' = w1 /\ w1' = <<>> /\ w0 = <<>> /\ w0' = <<>> /\ j = <<>>
        BY <1>2, <3>1, OtherStages DEF j
      <4>2. QED
        BY <1>1, <1>3, <4>1, CatLaws DEF mid, low
    <3>2. CASE fsm3 # "buff2"
      <4>1. w2' = w2
        BY <1>10, <3>2, OtherStages
      <4>2. Cat(w2, Cat(low, j)) = Cat(Cat(w2, low), j)
        BY <1>1, <1>3, <1>4, CatLaws
      <4>3. QED
        BY <1>1, <1>8, <3>2, <4>1, <4>2 DEF mid
    <3>3. QED
      BY <3>1, <3>2
  <2>2. w3' = (IF Left(in) THEN <<>> ELSE w3) /\ (Left(in) => w3 = <<pbuf3>>)
    BY <1>10, LastStage
  <2>3. w3' \in Seq(Word)
    BY <1>1, <1>3, <2>2
  <2>4. asked' = Cat(w3', Cat(mid, j))
    <3>1. Cat(w3', w2') \in Seq(Word) /\ Cat(w1', w0') \in Seq(Word)
      BY <2>1, <2>3, CatLaws
    <3>2. Cat(Cat(Cat(w3', w2'), w1'), w0') = Cat(Cat(w3', w2'), Cat(w1', w0'))
      BY <2>1, <3>1, CatLaws
    <3>3. Cat(Cat(w3', w2'), Cat(w1', w0')) = Cat(w3', Cat(w2', Cat(w1', w0')))
      BY <2>1, <2>3, <3>1, CatLaws
    <3>4. QED
      BY <1>7, <2>1, <3>2, <3>3
  <2>5. rest = Cat(w3', mid) /\ (Left(in) => asked # <<>>)
    <3>1. CASE Left(in)
      <4>1. w3 = <<pbuf3>> /\ pbuf3 \in Word
        BY <2>2, <3>1 DEF TypeOK, CcuTypeOK, Word, Item
      <4>2. Tail(asked) = mid /\ asked # <<>>
        BY <1>4, <1>6, <4>1, ListMoves DEF Cat
      <4>3. QED
        BY <1>4, <2>2, <3>1, <4>2, CatLaws DEF rest
    <3>2. CASE ~Left(in)
      BY <1>6, <2>2, <3>2 DEF rest
    <3>3. QED
      BY <3>1, <3>2
  <2>6. Cat(w3', Cat(mid, j)) = Cat(Cat(w3', mid), j)
    BY <1>3, <1>4, <2>3, CatLaws
  <2>7. QED
    BY <2>4, <2>5, <2>6
<1>11. asked \in Seq(Word) /\ rest \in Seq(Word)
  <2>1. asked \in Seq(Word)
    BY <1>1, <1>4, <1>6, CatLaws
  <2>2. Left(in) => asked # <<>>
    BY <1>9, <1>10
  <2>3. QED
    BY <2>1, <2>2 DEF rest
<1>12. asked' = IF Joined(in) THEN Append(rest, queue[1]) ELSE rest
  <2>1. asked' = Cat(rest, j)
    BY <1>9, <1>10
  <2>2. CASE Joined(in)
    BY <1>2, <1>11, <2>1, <2>2, ListMoves DEF j, Cat
  <2>3. CASE ~Joined(in)
    BY <1>11, <2>1, <2>3, CatLaws DEF j
  <2>4. QED
    BY <2>2, <2>3
<1>13. QED
  BY <1>2, <1>9, <1>10, <1>11, <1>12 DEF rest

LEMMA L2Step ==
  ASSUME TypeOK, l2aw \subseteq WriteBacks, Lockstep, EmptyBeat, QueueFramed, OneReader, L2Exact,
         NEW in, WireOK(in), CcuCycle(in), Queue, L2(in)
  PROVE  l2' \in Seq(Entry) /\ l2aw' \subseteq WriteBacks /\ L2Exact'
<1> DEFINE wrote == BREADY /\ in.bid # {}
           rest == IF Left(in) \/ wrote THEN Tail(l2) ELSE l2
           waiting == IF Left(in) THEN Tail(asked) ELSE asked
           written == WVALID /\ in.wready /\ \E i \in in.deq : i.last
           entries == IF Joined(in)
                      THEN {[read |-> TRUE, port |-> i.port, line |-> i.line] : i \in in.deq}
                      ELSE IF written
                      THEN {[read |-> FALSE, port |-> i.port, line |-> i.line] : i \in l2aw}
                      ELSE {}
<1>1. l2' = IF entries = {} THEN rest ELSE Append(rest, CHOOSE i \in entries : TRUE)
  BY DEF L2, Left, Taken, Joined
<1>2. l2aw' = IF AWVALID /\ in.awready THEN in.deq ELSE IF written THEN {} ELSE l2aw
  BY DEF L2
<1>3. l2 \in Seq(Entry) /\ asked \in Seq(Word) /\ Matches(asked, l2)
  BY L2ExactMatches, AskedStep DEF TypeOK, Entry
<1>4. /\ Left(in) => l2 # <<>> /\ l2[1].read /\ asked # <<>>
      /\ wrote => l2 # <<>> /\ ~l2[1].read
  BY AskedStep DEF Left, Taken, WireOK
<1>5. rest \in Seq(Entry) /\ waiting \in Seq(Word)
  BY <1>3, <1>4
<1>6. Matches(waiting, rest)
  <2>1. CASE Left(in)
    BY <1>3, <1>4, <2>1, PopRead
  <2>2. CASE ~Left(in) /\ wrote
    BY <1>3, <1>4, <2>2, PopWrite
  <2>3. CASE ~Left(in) /\ ~wrote
    BY <1>3, <2>3
  <2>4. QED
    BY <2>1, <2>2, <2>3
<1>7. asked' = IF Joined(in) THEN Append(waiting, queue[1]) ELSE waiting
  BY AskedStep
<1> HIDE DEF rest, waiting
<1>8. l2aw' \subseteq WriteBacks
  <2>1. CASE AWVALID /\ in.awready
    <3>1. queue # <<>> /\ queue \in Seq(Item) /\ queue[1].tran = "WriteBack"
      BY <2>1 DEF AWVALID, QueueFramed, TypeOK
    <3>2. queue[1] \in WriteBacks
      BY <3>1, WordKinds
    <3>3. QED
      BY <1>2, <2>1, <3>1, <3>2 DEF WireOK, FirstOf
  <2>2. CASE ~(AWVALID /\ in.awready)
    BY <1>2, <2>2
  <2>3. QED
    BY <2>1, <2>2
<1>9. l2' \in Seq(Entry) /\ Matches(asked', l2')
  <2>1. CASE Joined(in)
    <3>1. queue # <<>> /\ queue \in Seq(Item) /\ queue[1].tran \in Reads
      BY <2>1 DEF Joined, ARVALID, TypeOK, QueueFramed
    <3>2. in.deq = {queue[1]} /\ queue[1] \in Request /\ queue[1] \in Word
      BY <3>1, WordKinds DEF WireOK, FirstOf, Word
    <3> DEFINE r == [read |-> TRUE, port |-> queue[1].port, line |-> queue[1].line]
    <3>3. entries = {r}
      BY <2>1, <3>2
    <3>4. r \in Entry /\ r.read /\ r.port = queue[1].port /\ r.line = queue[1].line
      BY <3>2 DEF Entry, Request
    <3> HIDE DEF r, entries
    <3>5. l2' = Append(rest, r) /\ asked' = Append(waiting, queue[1])
      BY <1>1, <1>7, <2>1, <3>3
    <3>6. Matches(Append(waiting, queue[1]), Append(rest, r))
      BY <1>5, <1>6, <3>2, <3>4, PushRead
    <3>7. QED
      BY <1>5, <3>4, <3>5, <3>6
  <2>2. CASE ~Joined(in) /\ entries # {}
    <3> DEFINE r == CHOOSE i \in entries : TRUE
    <3>1. r \in {[read |-> FALSE, port |-> i.port, line |-> i.line] : i \in l2aw}
      BY <2>2
    <3>2. PICK i \in l2aw : r = [read |-> FALSE, port |-> i.port, line |-> i.line]
      BY <3>1
    <3>3. l2' = Append(rest, r) /\ asked' = waiting
      BY <1>1, <1>7, <2>2
    <3> HIDE DEF r, entries
    <3>4. i.port \in Ports /\ i.line \in Lines
      BY DEF WriteBacks
    <3>5. r \in Entry /\ ~r.read
      BY <3>2, <3>4 DEF Entry
    <3>6. QED
      BY <1>5, <1>6, <3>3, <3>5, PushWrite
  <2>3. CASE ~Joined(in) /\ entries = {}
    BY <1>1, <1>5, <1>6, <1>7, <2>3
  <2>4. QED
    BY <2>1, <2>2, <2>3
<1>10. L2Exact'
  <2>1. (L2Exact <=> Matches(asked, l2))'
    BY L2ExactMatches, PTL
  <2>2. Matches(asked, l2)' <=> Matches(asked', l2')
    BY DEF Matches, Pairs
  <2>3. QED
    BY <1>9, <2>1, <2>2
<1>11. QED
  BY <1>8, <1>9, <1>10
-----------------------------------------------------------------------------
(***************************************************************************)
(* Types, and the theorems.                                                *)
(***************************************************************************)

LEMMA CcuTypeStep ==
  ASSUME TypeOK, QueueFramed, NEW in, WireOK(in), CcuCycle(in)
  PROVE  CcuTypeOK'
<1>1. /\ fsm1' \in {"idle", "aw", "deq1", "wait", "wd", "deq2", "sync"}
      /\ write_back' \in BOOLEAN
  BY DEF CcuCycle, Fsm1, TypeOK, CcuTypeOK
<1>2. fsm2' \in {"idle", "rsp", "b"} /\ bport' \in Ports
  <2>1. fsm2' \in {"idle", "rsp", "b"}
    BY DEF CcuCycle, Fsm2, TypeOK, CcuTypeOK
  <2>2. in.bid # {} => in.bid = {l2[1].port} /\ l2[1].port \in Ports
    <3>1. in.bid # {} => l2 # <<>> /\ in.bid = {l2[1].port}
      BY DEF WireOK
    <3>2. l2 \in Seq(Entry)
      BY DEF TypeOK, Entry
    <3>3. l2 # <<>> => l2[1] \in Entry
      BY <3>2
    <3>4. QED
      BY <3>1, <3>3 DEF Entry
  <2>3. bport' \in Ports
    BY <2>2 DEF CcuCycle, Fsm2, TypeOK, CcuTypeOK
  <2>4. QED
    BY <2>1, <2>3
<1>3. fsm3' \in {"idle", "ar", "buff1", "deq", "sync", "buff2", "snoop"}
  BY DEF CcuCycle, Fsm3, TypeOK, CcuTypeOK
<1>4. pbuf1' \in Request \cup {Reset}
  <2>1. CASE fsm3 = "buff1"
    <3>1. queue # <<>> /\ queue \in Seq(Item) /\ queue[1].tran \in Reads
      BY <2>1 DEF QueueFramed, TypeOK
    <3>2. in.deq = {queue[1]} /\ queue[1] \in Request
      BY <3>1, WordKinds DEF WireOK, FirstOf
    <3>3. pbuf1' = queue[1]
      BY <2>1, <3>2 DEF CcuCycle, Fsm3
    <3>4. QED
      BY <3>2, <3>3
  <2>2. CASE fsm3 # "buff1"
    BY <2>2 DEF CcuCycle, Fsm3, TypeOK, CcuTypeOK
  <2>3. QED
    BY <2>1, <2>2
<1>5. {pbuf2', pbuf3'} \subseteq Request \cup {Reset}
  BY DEF CcuCycle, SnoopStage, TypeOK, CcuTypeOK
<1>6. snoop' \in [Ports -> {"idle", "ca", "crbuff", "cr", "finish", "sync", "buf", "rsp", "hold"}]
  <2>1. \A p \in Ports :
          Snoop(p, in) \in {"idle", "ca", "crbuff", "cr", "finish", "sync", "buf", "rsp", "hold"}
    BY DEF Snoop, Start, TypeOK, CcuTypeOK
  <2>2. QED
    BY <2>1 DEF CcuCycle, SnoopStage
<1>7. cr2' \in [Ports -> SUBSET Flags] /\ cr3' \in [Ports -> SUBSET Flags]
  <2>1. \A p \in Ports : Responses(p, in) \in SUBSET Flags
    BY DEF Responses, WireOK, TypeOK, CcuTypeOK
  <2>2. QED
    BY <2>1 DEF CcuCycle, SnoopStage, TypeOK, CcuTypeOK
<1>8. fsm12' \in {"idle", "select", "capture", "rsp", "rspbar", "done"}
  BY DEF CcuCycle, Fsm12, TypeOK, CcuTypeOK
<1>9. select' \in {{}} \cup {{p} : p \in Ports}
  BY SelectFacts DEF CcuCycle, Fsm12, TypeOK, CcuTypeOK
<1>10. rsp' \in SUBSET Flags
  <2>1. \A p \in select : cr3[p] \subseteq Flags
    BY DEF TypeOK, CcuTypeOK
  <2>2. Rresp \subseteq Flags
    BY <2>1 DEF Rresp, Flags
  <2>3. QED
    BY <2>2 DEF CcuCycle, Fsm12, TypeOK, CcuTypeOK
<1>11. last' \in BOOLEAN
  BY DEF CcuCycle, Fsm12, TypeOK, CcuTypeOK, WireOK
<1>12. QED
  BY <1>1, <1>2, <1>3, <1>4, <1>5, <1>6, <1>7, <1>8, <1>9, <1>10, <1>11 DEF CcuTypeOK

LEMMA BeatTyped ==
  ASSUME TypeOK, NEW in, BeatCount(in) PROVE beat' \in 0 .. Beats - 1
<1>1. beat \in 0 .. Beats - 1
  BY DEF TypeOK
<1>2. QED
  BY <1>1, Sizes DEF BeatCount

LEMMA InitEstablishes == Init => IInv
<1> SUFFICES ASSUME Init PROVE IInv
  OBVIOUS
<1> USE PortNumbers DEF Init, CcuInit, OrderInit
<1>1. TypeOK /\ l2aw \subseteq WriteBacks
  <2>1. CcuTypeOK
    BY DEF CcuTypeOK
  <2>2. QED
    BY <2>1, Sizes DEF TypeOK
<1>2. Lockstep /\ SelectKept /\ EmptyBeat /\ NoSnoopDuringFill /\ DirtyPassedOn
  BY DEF Lockstep, All, SelectKept, EmptyBeat, NoSnoopDuringFill, DirtyPassedOn
<1>3. OneReader /\ Framed /\ QueueFramed
  BY DEF OneReader, Framed, FramedBy, Draining, QueueFramed
<1>4. L2Exact
  <2>1. asked = <<>>
    BY DEF asked, answered, Waits, stage3, stage2, stage1, stage0
  <2>2. DOMAIN asked = {} /\ DOMAIN l2 = {}
    BY <2>1
  <2>3. Pairs(<<>>, asked, l2) /\ <<>> \in [DOMAIN asked -> DOMAIN l2]
    BY <2>2 DEF Pairs
  <2>4. QED
    BY <2>3, L2ExactMatches DEF Matches
<1>5. QED
  BY <1>1, <1>2, <1>3, <1>4 DEF IInv

LEMMA StepKeeps == IInv /\ [Next]_vars => IInv'
<1> SUFFICES ASSUME IInv, [Next]_vars PROVE IInv'
  OBVIOUS
<1> USE DEF IInv
<1>1. CASE Next
  <2>1. PICK env \in Env : Cycle(env)
    BY <1>1 DEF Next
  <2> DEFINE in == Wires(env)
  <2>2. CcuCycle(in) /\ Queue /\ L2(in) /\ BeatCount(in)
    BY <2>1 DEF Cycle
  <2>3. WireOK(in) /\ in.deq = FirstOf(queue)
    BY WiresFit DEF WireOK
  <2> HIDE DEF in
  <2>4. l2' \in Seq(Entry) /\ l2aw' \subseteq WriteBacks /\ L2Exact'
    BY <2>2, <2>3, L2Step
  <2>5. TypeOK'
    <3>1. CcuTypeOK'
      BY <2>2, <2>3, CcuTypeStep
    <3>2. queue' \in Seq(Item) /\ toCome' \in 0 .. Beats
      BY <2>2, QueueTyped
    <3>3. beat' \in 0 .. Beats - 1
      BY <2>2, BeatTyped
    <3>4. QED
      BY <2>4, <3>1, <3>2, <3>3 DEF TypeOK, Entry
  <2>6. Lockstep' /\ SelectKept' /\ EmptyBeat' /\ NoSnoopDuringFill' /\ DirtyPassedOn'
    BY <2>2, LockstepStep, SelectStep, EmptyBeatStep, NoSnoopStep, DirtyStep
  <2>7. OneReader' /\ Framed' /\ QueueFramed'
    BY <2>2, <2>3, OneReaderStep, FramedStep, QueueFramedStep
  <2>8. QED
    BY <2>4, <2>5, <2>6, <2>7
<1>2. CASE UNCHANGED vars
  <2> USE <1>2 DEF vars, ccuVars
  <2>1. TypeOK' /\ l2aw' \subseteq WriteBacks
    BY DEF TypeOK, CcuTypeOK
  <2>2. Lockstep' /\ SelectKept' /\ EmptyBeat' /\ NoSnoopDuringFill' /\ DirtyPassedOn'
    BY DEF Lockstep, All, Snooping, SelectKept, Select, Sources, EmptyBeat,
           NoSnoopDuringFill, DirtyPassedOn
  <2>3. OneReader' /\ Framed' /\ QueueFramed'
    BY DEF OneReader, Framed, FramedBy, Draining, QueueFramed
  <2>4. L2Exact'
    <3>1. /\ stage3' = stage3 /\ stage2' = stage2 /\ stage1' = stage1 /\ stage0' = stage0
          /\ answered' = answered
      BY DEF stage3, stage2, stage1, stage0, answered
    <3>2. asked' = asked
      BY <3>1 DEF asked, Waits
    <3>3. QED
      BY <3>2 DEF L2Exact
  <2>5. QED
    BY <2>1, <2>2, <2>3, <2>4
<1>3. QED
  BY <1>1, <1>2

(* The inductive invariant holds in every reachable state. *)
THEOREM CcuInvariant == Spec => []IInv
<1>1. QED
  BY InitEstablishes, StepKeeps, PTL DEF Spec

(* Every answer of L2 meets the request it belongs to, and FSM_1 and FSM_3  *)
(* never take each other's words off the queue, for any number of caches,   *)
(* any length of a line and any depth of the queues.                        *)
THEOREM AnswersMeetRequests == Spec => []StagesExact
<1>1. IInv => StagesExact
  BY DEF IInv, StagesExact
<1>2. QED
  BY <1>1, CcuInvariant, PTL

(* No cache is snooped for a line that is on its way to another, and an     *)
(* answer passes dirty exactly when some cache gave a dirty line away.      *)
THEOREM LinesDeliveredCoherently == Spec => []CoherentDelivery
<1>1. IInv => CoherentDelivery
  BY DEF IInv, CoherentDelivery
<1>2. QED
  BY <1>1, CcuInvariant, PTL
=============================================================================
