--------------------------- MODULE RequestProofs ---------------------------
(***************************************************************************)
(* The data cache's entrance for every depth, reserve and shadow length    *)
(* with Shadow <= Reserve < Depth: no request of the core is dropped, and  *)
(* the two queues implement RequestOrder.                                  *)
(***************************************************************************)
EXTENDS RequestScheduler, SequenceTheorems, TLAPS

USE RequestAssumption

(* Pointers in range, and flags that tell equal pointers apart: what makes  *)
(* the occupancy of a queue a number between 0 and Depth.                   *)
InorderOK == /\ inRead \in 0 .. Depth - 1 /\ inWrite \in 0 .. Depth - 1
             /\ inEmpty \in BOOLEAN /\ inFull \in BOOLEAN
             /\ inorderQueue!FlagsOK

SpeculativeOK == /\ spRead \in 0 .. Depth - 1 /\ spWrite \in 0 .. Depth - 1
                 /\ spEmpty \in BOOLEAN /\ spFull \in BOOLEAN
                 /\ speculativeQueue!FlagsOK

(* A request k stages down the pipe was issued while both queues had        *)
(* head-room, and at most k requests can have been queued since.            *)
Room == \A k \in 1 .. Shadow : shadow[k] # {} =>
          /\ inorderQueue!occupancy <= Depth - Reserve - 1 + k
          /\ speculativeQueue!occupancy <= Depth - Reserve - 1 + k

IInv == InorderOK /\ SpeculativeOK /\ Room

(* The occupancy of a well-formed queue is a number, Depth exactly when the *)
(* queue is full.                                                           *)
LEMMA InorderOccupancy ==
  InorderOK => /\ inorderQueue!occupancy \in 0 .. Depth
               /\ inFull <=> inorderQueue!occupancy = Depth
  BY DEF InorderOK, inorderQueue!FlagsOK, inorderQueue!occupancy, inorderQueue!Dist

LEMMA SpeculativeOccupancy ==
  SpeculativeOK => /\ speculativeQueue!occupancy \in 0 .. Depth
                   /\ spFull <=> speculativeQueue!occupancy = Depth
  BY DEF SpeculativeOK, speculativeQueue!FlagsOK, speculativeQueue!occupancy,
         speculativeQueue!Dist

(* Pointer arithmetic: the successor of a slot, and how the distance from   *)
(* the read to the write pointer changes when one of them advances.         *)
LEMMA InorderSucc ==
  /\ \A p \in 0 .. Depth - 1 : inorderQueue!Succ(p) \in 0 .. Depth - 1 /\ inorderQueue!Succ(p) # p
  /\ \A p, r \in 0 .. Depth - 1 : inorderQueue!Succ(p) = inorderQueue!Succ(r) => p = r
  BY DEF inorderQueue!Succ

LEMMA InorderDist ==
  \A r, w \in 0 .. Depth - 1 :
     /\ inorderQueue!Dist(r, w) \in 0 .. Depth - 1
     /\ r = w => inorderQueue!Dist(r, w) = 0
     /\ inorderQueue!Dist(r, inorderQueue!Succ(w)) <= inorderQueue!Dist(r, w) + 1
     /\ r # w => inorderQueue!Dist(inorderQueue!Succ(r), w) <= inorderQueue!Dist(r, w)
     /\ inorderQueue!Succ(w) = r => inorderQueue!Dist(r, w) = Depth - 1
     /\ inorderQueue!Dist(inorderQueue!Succ(r), inorderQueue!Succ(w)) = inorderQueue!Dist(r, w)
  BY DEF inorderQueue!Succ, inorderQueue!Dist

LEMMA SpeculativeSucc ==
  /\ \A p \in 0 .. Depth - 1 : speculativeQueue!Succ(p) \in 0 .. Depth - 1 /\ speculativeQueue!Succ(p) # p
  /\ \A p, r \in 0 .. Depth - 1 : speculativeQueue!Succ(p) = speculativeQueue!Succ(r) => p = r
  BY DEF speculativeQueue!Succ

LEMMA SpeculativeDist ==
  \A r, w \in 0 .. Depth - 1 :
     /\ speculativeQueue!Dist(r, w) \in 0 .. Depth - 1
     /\ r = w => speculativeQueue!Dist(r, w) = 0
     /\ speculativeQueue!Dist(r, speculativeQueue!Succ(w)) <= speculativeQueue!Dist(r, w) + 1
     /\ r # w => speculativeQueue!Dist(speculativeQueue!Succ(r), w) <= speculativeQueue!Dist(r, w)
     /\ speculativeQueue!Succ(w) = r => speculativeQueue!Dist(r, w) = Depth - 1
     /\ speculativeQueue!Dist(speculativeQueue!Succ(r), speculativeQueue!Succ(w)) = speculativeQueue!Dist(r, w)
  BY DEF speculativeQueue!Succ, speculativeQueue!Dist

(* One cycle keeps a queue well-formed and adds at most one request,        *)
(* whatever is read, written or resolved.                                   *)
LEMMA InorderStep ==
  ASSUME InorderOK, NEW in, in.read \in BOOLEAN, inorderQueue!Cycle(in)
  PROVE  InorderOK' /\ inorderQueue!occupancy' <= inorderQueue!occupancy + 1
<1> USE DEF inorderQueue!Pointers, inorderQueue!FlagsOK, InorderOK,
            inorderQueue!doWrite, inorderQueue!incrRead
<1> inorderQueue!Pointers(in)
  BY DEF inorderQueue!Cycle
<1>1. CASE inorderQueue!Hold(in)
  <2>1. UNCHANGED <<inRead, inWrite, inEmpty, inFull>>
    BY <1>1 DEF inorderQueue!Hold
  <2>2. QED
    BY <2>1, InorderOccupancy DEF inorderQueue!occupancy
<1>2. CASE inorderQueue!Write(in)
  <2>1. InorderOK'
    BY <1>2, InorderSucc DEF inorderQueue!Write
  <2>2. CASE inEmpty
    BY <1>2, <2>1, <2>2, InorderDist, InorderSucc DEF inorderQueue!Write, inorderQueue!occupancy
  <2>3. CASE ~inEmpty
    BY <1>2, <2>1, <2>3, InorderDist, InorderSucc DEF inorderQueue!Write, inorderQueue!occupancy
  <2>4. QED
    BY <2>2, <2>3
<1>3. CASE inorderQueue!Read(in)
  <2>1. InorderOK'
    BY <1>3, InorderSucc DEF inorderQueue!Read
  <2>2. QED
    BY <1>3, <2>1, InorderDist, InorderSucc DEF inorderQueue!Read, inorderQueue!occupancy
<1>4. CASE inorderQueue!WriteRead(in)
  <2>1. InorderOK'
    BY <1>4, InorderSucc DEF inorderQueue!WriteRead
  <2>2. QED
    BY <1>4, <2>1, InorderDist, InorderSucc DEF inorderQueue!WriteRead, inorderQueue!occupancy
<1>5. QED
  BY <1>1, <1>2, <1>3, <1>4 DEF inorderQueue!Cycle

LEMMA SpeculativeStep ==
  ASSUME SpeculativeOK, NEW in, in.read \in BOOLEAN, speculativeQueue!Cycle(in)
  PROVE  SpeculativeOK' /\ speculativeQueue!occupancy' <= speculativeQueue!occupancy + 1
<1> USE DEF speculativeQueue!Pointers, speculativeQueue!FlagsOK, SpeculativeOK,
            speculativeQueue!doWrite, speculativeQueue!incrRead
<1> speculativeQueue!Pointers(in)
  BY DEF speculativeQueue!Cycle
<1>1. CASE speculativeQueue!Hold(in)
  <2>1. UNCHANGED <<spRead, spWrite, spEmpty, spFull>>
    BY <1>1 DEF speculativeQueue!Hold
  <2>2. QED
    BY <2>1, SpeculativeOccupancy DEF speculativeQueue!occupancy
<1>2. CASE speculativeQueue!Write(in)
  <2>1. SpeculativeOK'
    BY <1>2, SpeculativeSucc DEF speculativeQueue!Write
  <2>2. CASE spEmpty
    BY <1>2, <2>1, <2>2, SpeculativeDist, SpeculativeSucc DEF speculativeQueue!Write, speculativeQueue!occupancy
  <2>3. CASE ~spEmpty
    BY <1>2, <2>1, <2>3, SpeculativeDist, SpeculativeSucc DEF speculativeQueue!Write, speculativeQueue!occupancy
  <2>4. QED
    BY <2>2, <2>3
<1>3. CASE speculativeQueue!Read(in)
  <2>1. SpeculativeOK'
    BY <1>3, SpeculativeSucc DEF speculativeQueue!Read
  <2>2. QED
    BY <1>3, <2>1, SpeculativeDist, SpeculativeSucc DEF speculativeQueue!Read, speculativeQueue!occupancy
<1>4. CASE speculativeQueue!WriteRead(in)
  <2>1. SpeculativeOK'
    BY <1>4, SpeculativeSucc DEF speculativeQueue!WriteRead
  <2>2. QED
    BY <1>4, <2>1, SpeculativeDist, SpeculativeSucc DEF speculativeQueue!WriteRead, speculativeQueue!occupancy
<1>5. QED
  BY <1>1, <1>2, <1>3, <1>4 DEF speculativeQueue!Cycle

(* What the queues are given as read.ready is a truth value. *)
LEMMA ReadTypes == ASSUME NEW c \in Inputs
                   PROVE  readInorder(c) \in BOOLEAN /\ readSpeculative(c) \in BOOLEAN
  BY DEF Inputs, readInorder, readSpeculative

LEMMA IInvInit == Init => IInv
<1> SUFFICES ASSUME Init PROVE IInv
  OBVIOUS
<1>1. InorderOK /\ SpeculativeOK
  <2>1. /\ inRead = 0 /\ inWrite = 0 /\ inEmpty = TRUE /\ inFull = FALSE
        /\ spRead = 0 /\ spWrite = 0 /\ spEmpty = TRUE /\ spFull = FALSE
    BY Zenon DEF Init, inorderQueue!Init, speculativeQueue!Init
  <2>2. 0 \in 0 .. Depth - 1
    OBVIOUS
  <2>3. QED
    BY <2>1, <2>2, Zenon DEF InorderOK, SpeculativeOK, inorderQueue!FlagsOK,
       speculativeQueue!FlagsOK
<1>2. Room
  <2>1. \A k \in 1 .. Shadow : shadow[k] = {}
    BY DEF Init
  <2>2. QED
    BY <2>1 DEF Room
<1>3. QED
  BY <1>1, <1>2 DEF IInv

LEMMA IInvStep == IInv /\ [Next]_vars => IInv'
<1> SUFFICES ASSUME IInv, [Next]_vars PROVE IInv'
  OBVIOUS
<1>1. CASE UNCHANGED vars
  <2>1. UNCHANGED <<shadow, inRead, inWrite, inEmpty, inFull, spRead, spWrite, spEmpty, spFull>>
    BY <1>1 DEF vars
  <2>2. QED
    BY <2>1 DEF IInv, InorderOK, SpeculativeOK, Room, inorderQueue!FlagsOK,
       speculativeQueue!FlagsOK, inorderQueue!occupancy, speculativeQueue!occupancy
<1>2. CASE Next
  <2>1. PICK c \in Inputs : Cycle(c)
    BY <1>2 DEF Next
  <2>2. InorderOK' /\ inorderQueue!occupancy' <= inorderQueue!occupancy + 1
    <3> DEFINE in == [write |-> requestIn \ toSpeculative, read |-> readInorder(c),
                      ops |-> branchOps]
    <3>1. inorderQueue!Cycle(in)
      BY <2>1 DEF Cycle, InorderCycle
    <3>2. in.read \in BOOLEAN
      BY ReadTypes
    <3> HIDE DEF in
    <3>3. QED
      BY <3>1, <3>2, InorderStep DEF IInv
  <2>3. SpeculativeOK' /\ speculativeQueue!occupancy' <= speculativeQueue!occupancy + 1
    <3> DEFINE in == [write |-> toSpeculative, read |-> readSpeculative(c),
                      ops |-> branchOps]
    <3>1. speculativeQueue!Cycle(in)
      BY <2>1 DEF Cycle, SpeculativeCycle
    <3>2. in.read \in BOOLEAN
      BY ReadTypes
    <3> HIDE DEF in
    <3>3. QED
      BY <3>1, <3>2, SpeculativeStep DEF IInv
  <2>4. Room'
    <3> SUFFICES ASSUME NEW k \in 1 .. Shadow, shadow'[k] # {}
                 PROVE  /\ inorderQueue!occupancy' <= Depth - Reserve - 1 + k
                        /\ speculativeQueue!occupancy' <= Depth - Reserve - 1 + k
      BY DEF Room
    <3>1. /\ inorderQueue!occupancy \in Int /\ inorderQueue!occupancy' \in Int
          /\ speculativeQueue!occupancy \in Int /\ speculativeQueue!occupancy' \in Int
      <4>1. inorderQueue!occupancy \in Int /\ speculativeQueue!occupancy \in Int
        BY InorderOccupancy, SpeculativeOccupancy DEF IInv
      <4>2. inorderQueue!occupancy' \in Int /\ speculativeQueue!occupancy' \in Int
        BY <2>2, <2>3 DEF InorderOK, SpeculativeOK, inorderQueue!occupancy,
           speculativeQueue!occupancy, inorderQueue!Dist, speculativeQueue!Dist
      <4>3. QED
        BY <4>1, <4>2
    <3>2. CASE k = 1
      <4>1. canAllocate
        BY <2>1, <3>2 DEF Cycle, ShadowCycle
      <4>2. QED
        BY <4>1, <2>2, <2>3, <3>1, <3>2 DEF canAllocate
    <3>3. CASE k # 1
      <4>1. k - 1 \in 1 .. Shadow /\ shadow[k - 1] # {}
        BY <2>1, <3>3 DEF Cycle, ShadowCycle, Advance
      <4>2. /\ inorderQueue!occupancy <= Depth - Reserve - 1 + (k - 1)
            /\ speculativeQueue!occupancy <= Depth - Reserve - 1 + (k - 1)
        BY <4>1 DEF IInv, Room
      <4>3. QED
        BY <4>2, <2>2, <2>3, <3>1
    <3>4. QED
      BY <3>2, <3>3
  <2>5. QED
    BY <2>2, <2>3, <2>4 DEF IInv
<1>3. QED
  BY <1>1, <1>2

(* No request is dropped at the entrance of the data cache, for every queue *)
(* depth, as long as reserveSlots is at least the number of registers       *)
(* between issue and the queues (fifo.scala:114-123).                       *)
THEOREM NeverDrops == Spec => []NoRequestDropped
<1>1. IInv => NoRequestDropped
  <2> SUFFICES ASSUME IInv, shadow[Shadow] # {} PROVE ~inFull /\ ~spFull
    BY DEF NoRequestDropped
  <2>1. /\ inorderQueue!occupancy <= Depth - Reserve - 1 + Shadow
        /\ speculativeQueue!occupancy <= Depth - Reserve - 1 + Shadow
    BY DEF IInv, Room
  <2>2. inorderQueue!occupancy < Depth /\ speculativeQueue!occupancy < Depth
    BY <2>1, InorderOccupancy, SpeculativeOccupancy DEF IInv
  <2>3. QED
    BY <2>2, InorderOccupancy, SpeculativeOccupancy DEF IInv
<1>2. QED
  BY <1>1, IInvInit, IInvStep, PTL DEF Spec
-----------------------------------------------------------------------------
(***************************************************************************)
(* The two queues implement one list (RequestOrder).  First one queue on   *)
(* its own, as a record of its registers, for both instances at once.      *)
(***************************************************************************)

InQ == [rd |-> inRead, wr |-> inWrite, e |-> inEmpty, f |-> inFull, mem |-> inMem]
SpQ == [rd |-> spRead, wr |-> spWrite, e |-> spEmpty, f |-> spFull, mem |-> spMem]

Ptr == 0 .. Depth - 1
After(p) == IF p = Depth - 1 THEN 0 ELSE p + 1
Before(p) == IF p = 0 THEN Depth - 1 ELSE p - 1

Single == {{}} \cup {{r} : r \in Request}

GoodQ(q) == /\ q.rd \in Ptr /\ q.wr \in Ptr /\ q.e \in BOOLEAN /\ q.f \in BOOLEAN
            /\ ~(q.e /\ q.f) /\ (q.e \/ q.f <=> q.rd = q.wr)

Occ(q) == IF q.e THEN 0 ELSE IF q.f THEN Depth
          ELSE IF q.wr >= q.rd THEN q.wr - q.rd ELSE q.wr - q.rd + Depth

(* The slot of the k-th entry. *)
At(q, k) == IF q.rd + k - 1 < Depth THEN q.rd + k - 1 ELSE q.rd + k - 1 - Depth

Flag(b) == IF b THEN 1 ELSE 0

(* What a cycle that writes only when there is room and reads only when     *)
(* there is something does to the pointers and flags; new entries come,     *)
(* gone entries leave, none or one.                                         *)
Turned(q, q2, new, gone) ==
  /\ q2.rd = IF gone = 1 THEN After(q.rd) ELSE q.rd
  /\ q2.wr = IF new = 1 THEN After(q.wr) ELSE q.wr
  /\ q2.e = IF new = 1 THEN FALSE ELSE IF gone = 1 THEN After(q.rd) = q.wr ELSE q.e
  /\ q2.f = IF gone = 1 THEN FALSE ELSE IF new = 1 THEN After(q.wr) = q.rd ELSE q.f

(* One entry leaves at the front, one comes at the back, and the loop of    *)
(* fifo.scala reaches all the others.                                       *)
LEMMA QueueTurn ==
  ASSUME NEW q, NEW q2, NEW new \in {0, 1}, NEW gone \in {0, 1},
         GoodQ(q), new = 1 => ~q.f, gone = 1 => ~q.e, Turned(q, q2, new, gone)
  PROVE  /\ GoodQ(q2) /\ Occ(q) \in 0 .. Depth /\ Occ(q) >= gone
         /\ Occ(q2) = Occ(q) - gone + new
         /\ \A k \in 1 .. Occ(q) - gone :
              /\ At(q2, k) = At(q, k + gone) /\ At(q2, k) \in Ptr
              /\ q2.rd <= At(q2, k) \/ At(q2, k) <= Before(q.wr)
              /\ new = 1 => At(q2, k) # q.wr
         /\ new = 1 => At(q2, Occ(q2)) = q.wr
<1> DEFINE rd == q.rd
           wr == q.wr
           rd2 == q2.rd
           wr2 == q2.wr
           o  == Occ(q)
           o2 == Occ(q2)
           e == q.e
           f == q.f
           e2 == q2.e
           f2 == q2.f
<1>1. /\ rd \in Ptr /\ wr \in Ptr /\ e \in BOOLEAN /\ f \in BOOLEAN
      /\ ~(e /\ f) /\ (e \/ f <=> rd = wr)
      /\ (new = 1 => ~f) /\ (gone = 1 => ~e)
  BY DEF GoodQ
<1>2. /\ rd2 = IF gone = 1 THEN After(rd) ELSE rd
      /\ wr2 = IF new = 1 THEN After(wr) ELSE wr
      /\ e2 <=> IF new = 1 THEN FALSE ELSE IF gone = 1 THEN After(rd) = wr ELSE e
      /\ f2 <=> IF gone = 1 THEN FALSE ELSE IF new = 1 THEN After(wr) = rd ELSE f
      /\ e2 \in BOOLEAN /\ f2 \in BOOLEAN
  BY <1>1 DEF Turned
<1>3. /\ o = IF e THEN 0 ELSE IF f THEN Depth ELSE IF wr >= rd THEN wr - rd ELSE wr - rd + Depth
      /\ o2 = IF e2 THEN 0 ELSE IF f2 THEN Depth ELSE IF wr2 >= rd2 THEN wr2 - rd2 ELSE wr2 - rd2 + Depth
  BY DEF Occ
<1>4. ASSUME NEW k \in Int
      PROVE  /\ At(q, k) = IF rd + k - 1 < Depth THEN rd + k - 1 ELSE rd + k - 1 - Depth
             /\ At(q2, k) = IF rd2 + k - 1 < Depth THEN rd2 + k - 1 ELSE rd2 + k - 1 - Depth
  BY DEF At
<1> HIDE DEF rd, wr, rd2, wr2, o, o2, e, f, e2, f2
<1>5. rd2 \in Ptr /\ wr2 \in Ptr
  BY <1>1, <1>2 DEF Ptr, After
<1>6. ~(e2 /\ f2) /\ (e2 \/ f2 <=> rd2 = wr2)
  BY <1>1, <1>2 DEF Ptr, After
<1>7. o \in 0 .. Depth /\ o >= gone
  BY <1>1, <1>3 DEF Ptr
<1>8. o2 = o - gone + new
  BY <1>1, <1>2, <1>3 DEF Ptr, After
<1>9. ASSUME NEW k \in 1 .. o - gone
      PROVE  /\ At(q2, k) = At(q, k + gone) /\ At(q2, k) \in Ptr
             /\ rd2 <= At(q2, k) \/ At(q2, k) <= Before(wr)
             /\ new = 1 => At(q2, k) # wr
  <2>1. k \in Int /\ k + gone \in Int /\ 1 <= k /\ k <= o - gone
    BY <1>7
  <2>2. At(q2, k) = At(q, k + gone) /\ At(q2, k) \in Ptr
    BY <1>1, <1>2, <1>3, <1>4, <2>1 DEF Ptr, After
  <2>3. rd2 <= At(q2, k) \/ At(q2, k) <= Before(wr)
    BY <1>1, <1>2, <1>3, <1>4, <2>1 DEF Ptr, After, Before
  <2>4. new = 1 => At(q2, k) # wr
    BY <1>1, <1>2, <1>3, <1>4, <2>1 DEF Ptr, After
  <2> QED
    BY <2>2, <2>3, <2>4
<1>10. new = 1 => At(q2, o2) = wr
  BY <1>1, <1>2, <1>3, <1>4, <1>7, <1>8 DEF Ptr, After
<1> QED
  BY <1>2, <1>5, <1>6, <1>7, <1>8, <1>9, <1>10 DEF GoodQ, rd, wr, rd2, wr2, o, o2, e2, f2

(* A resolution, for a request that moves and for one that stays. *)
Mv(r, ops) == inorderQueue!MoveUpdate(r, ops)
St(r, ops) == inorderQueue!StayUpdate(r, ops)

Ent(q, k) == CHOOSE r \in q.mem[At(q, k)] : TRUE

LEMMA OnlyOne == \A r : (CHOOSE x \in {r} : TRUE) = r
  OBVIOUS

LEMMA UpdateTypes ==
  ASSUME NEW r \in Request, NEW ops
  PROVE  /\ Mv(r, ops) \in Request /\ Mv(r, ops).body = r.body
         /\ St(r, ops) \in Request /\ St(r, ops).body = r.body
  BY DEF Request, inorderQueue!Request, Mv, St, inorderQueue!MoveUpdate, inorderQueue!StayUpdate

(* A queue whose slots between the pointers are all written. *)
FullQ(q) == /\ GoodQ(q) /\ q.mem \in [Ptr -> Single]
            /\ \A k \in 1 .. Occ(q) : q.mem[At(q, k)] # {}

NewMem(q, q2, W, ops) ==
  q2.mem = [i \in Ptr |->
    IF W # {} /\ i = q.wr THEN {Mv(r, ops) : r \in W}
    ELSE IF q2.rd <= i \/ i <= Before(q.wr) THEN {St(r, ops) : r \in q.mem[i]}
    ELSE q.mem[i]]

LEMMA AtRange ==
  ASSUME NEW q, GoodQ(q), NEW k \in 1 .. Occ(q)
  PROVE  At(q, k) \in Ptr /\ Occ(q) \in 0 .. Depth
<1> DEFINE rd == q.rd
           wr == q.wr
           o == Occ(q)
<1>1. /\ rd \in Ptr /\ wr \in Ptr
      /\ o = IF q.e THEN 0 ELSE IF q.f THEN Depth ELSE IF wr >= rd THEN wr - rd ELSE wr - rd + Depth
      /\ At(q, k) = IF rd + k - 1 < Depth THEN rd + k - 1 ELSE rd + k - 1 - Depth
  BY DEF GoodQ, Occ, At
<1> HIDE DEF rd, wr, o
<1>2. o \in 0 .. Depth
  BY <1>1 DEF Ptr
<1>3. k \in Int /\ 1 <= k /\ k <= o
  BY <1>2 DEF o
<1> QED
  BY <1>1, <1>2, <1>3 DEF Ptr, o

(* The set in a slot of a written queue holds just its entry. *)
LEMMA EntryOf ==
  ASSUME NEW q, FullQ(q), NEW k \in 1 .. Occ(q)
  PROVE  q.mem[At(q, k)] = {Ent(q, k)} /\ Ent(q, k) \in Request
<1>1. q.mem[At(q, k)] \in Single /\ q.mem[At(q, k)] # {}
  BY AtRange DEF FullQ
<1>2. PICK r \in Request : q.mem[At(q, k)] = {r}
  BY <1>1 DEF Single
<1> QED
  BY <1>2, OnlyOne DEF Ent

(* The ports of a cycle: nothing is written to a full queue nor read from   *)
(* an empty one.                                                            *)
Ports(q, W, new, gone) ==
  /\ W \in Single /\ new \in {0, 1} /\ gone \in {0, 1}
  /\ new = 1 <=> W # {}
  /\ (new = 1 => ~q.f) /\ (gone = 1 => ~q.e)

(* One cycle of a queue, as a list of entries. *)
LEMMA QueueCycle ==
  ASSUME NEW q, NEW q2, NEW W, NEW gone, NEW new, NEW ops,
         FullQ(q), Ports(q, W, new, gone), Turned(q, q2, new, gone), NewMem(q, q2, W, ops)
  PROVE  /\ FullQ(q2) /\ Occ(q) \in 0 .. Depth /\ Occ(q) >= gone
         /\ Occ(q2) = Occ(q) - gone + new
         /\ \A k \in 1 .. Occ(q) - gone : Ent(q2, k) = St(Ent(q, k + gone), ops)
         /\ \A r : W = {r} => Ent(q2, Occ(q2)) = Mv(r, ops)
<1>0. /\ W \in Single /\ new \in {0, 1} /\ gone \in {0, 1}
      /\ new = 1 <=> W # {}
      /\ (new = 1 => ~q.f) /\ (gone = 1 => ~q.e)
  BY DEF Ports
<1>1. GoodQ(q)
  BY <1>0 DEF FullQ
<1>2. /\ GoodQ(q2) /\ Occ(q) \in 0 .. Depth /\ Occ(q) >= gone
      /\ Occ(q2) = Occ(q) - gone + new
      /\ \A k \in 1 .. Occ(q) - gone :
           /\ At(q2, k) = At(q, k + gone) /\ At(q2, k) \in Ptr
           /\ q2.rd <= At(q2, k) \/ At(q2, k) <= Before(q.wr)
           /\ new = 1 => At(q2, k) # q.wr
      /\ new = 1 => At(q2, Occ(q2)) = q.wr
  BY <1>0, <1>1, QueueTurn
<1>3. ASSUME NEW k \in 1 .. Occ(q) - gone
      PROVE  /\ q2.mem[At(q2, k)] = {St(Ent(q, k + gone), ops)}
             /\ k + gone \in 1 .. Occ(q)
  <2>1. k + gone \in 1 .. Occ(q)
    BY <1>0, <1>2
  <2>2. q.mem[At(q, k + gone)] = {Ent(q, k + gone)}
    BY <1>0, <2>1, EntryOf
  <2>3. q2.mem[At(q2, k)] = {St(r, ops) : r \in q.mem[At(q, k + gone)]}
    BY <1>0, <1>2 DEF NewMem
  <2> QED
    BY <1>0, <2>1, <2>2, <2>3
<1>4. ASSUME NEW r, W = {r}
      PROVE  q2.mem[At(q2, Occ(q2))] = {Mv(r, ops)} /\ r \in Request
  <2>1. new = 1
    BY <1>0, <1>4
  <2>2. q.wr \in Ptr
    BY <1>0 DEF FullQ, GoodQ
  <2>3. q2.mem[q.wr] = {Mv(x, ops) : x \in W}
    BY <1>0, <2>1, <2>2 DEF NewMem
  <2> QED
    BY <1>0, <1>2, <1>4, <2>1, <2>3 DEF Single
<1>5. q2.mem \in [Ptr -> Single]
  <2>1. ASSUME NEW i \in Ptr PROVE q2.mem[i] \in Single
    <3>1. q.mem[i] \in Single
      BY <1>0 DEF FullQ
    <3>2. ASSUME NEW S \in Single PROVE {Mv(r, ops) : r \in S} \in Single /\ {St(r, ops) : r \in S} \in Single
      <4>1. CASE S = {}
        BY <1>0, <4>1 DEF Single
      <4>2. CASE S # {}
        <5>1. PICK r \in Request : S = {r}
          BY <1>0, <4>2 DEF Single
        <5>2. {Mv(x, ops) : x \in S} = {Mv(r, ops)} /\ {St(x, ops) : x \in S} = {St(r, ops)}
          BY <1>0, <5>1
        <5> QED
          BY <1>0, <5>2, UpdateTypes DEF Single
      <4> QED
        BY <1>0, <4>1, <4>2
    <3>3. q2.mem[i] \in {{Mv(r, ops) : r \in W}, {St(r, ops) : r \in q.mem[i]}, q.mem[i]}
      BY <1>0 DEF NewMem
    <3> QED
      BY <1>0, <3>1, <3>2, <3>3
  <2>2. q2.mem = [i \in Ptr |-> q2.mem[i]]
    BY <1>0 DEF NewMem
  <2> QED
    BY <1>0, <2>1, <2>2
<1>6. ASSUME NEW k \in 1 .. Occ(q2) PROVE q2.mem[At(q2, k)] # {}
  <2>1. CASE k \in 1 .. Occ(q) - gone
    BY <1>0, <1>3, <2>1
  <2>2. CASE k \notin 1 .. Occ(q) - gone
    <3>1. new = 1 /\ k = Occ(q2)
      BY <1>0, <1>2, <2>2
    <3>2. PICK r \in Request : W = {r}
      BY <1>0, <3>1 DEF Single
    <3> QED
      BY <1>0, <1>4, <3>1, <3>2
  <2> QED
    BY <1>0, <2>1, <2>2
<1>7. FullQ(q2)
  BY <1>0, <1>2, <1>5, <1>6 DEF FullQ
<1>8. \A k \in 1 .. Occ(q) - gone : Ent(q2, k) = St(Ent(q, k + gone), ops)
  BY <1>0, <1>3, OnlyOne DEF Ent
<1>9. \A r : W = {r} => Ent(q2, Occ(q2)) = Mv(r, ops)
  BY <1>0, <1>4, OnlyOne DEF Ent
<1> QED
  BY <1>0, <1>2, <1>7, <1>8, <1>9

LEMMA InTurned ==
  ASSUME FullQ(InQ), NEW in, in.read \in BOOLEAN, in.read => ~inEmpty, in.write # {} => ~inFull,
         inorderQueue!Cycle(in)
  PROVE  Turned(InQ, InQ', Flag(in.write # {}), Flag(in.read)) /\ NewMem(InQ, InQ', in.write, in.ops)
<1>1. /\ InQ.rd = inRead /\ InQ.wr = inWrite /\ InQ.e = inEmpty /\ InQ.f = inFull /\ InQ.mem = inMem
      /\ InQ'.rd = inRead' /\ InQ'.wr = inWrite' /\ InQ'.e = inEmpty' /\ InQ'.f = inFull' /\ InQ'.mem = inMem'
  BY DEF InQ
<1>2. \A p : inorderQueue!Succ(p) = After(p) /\ inorderQueue!Pred(p) = Before(p)
  BY DEF inorderQueue!Succ, inorderQueue!Pred, After, Before
<1>3. inRead \in Ptr /\ inWrite \in Ptr /\ inEmpty \in BOOLEAN /\ inFull \in BOOLEAN
      /\ ~(inEmpty /\ inFull) /\ (inEmpty \/ inFull <=> inRead = inWrite)
  BY <1>1 DEF FullQ, GoodQ
<1>4. \A p, r \in Ptr : After(p) = After(r) => p = r
  BY DEF Ptr, After
<1>5. Turned(InQ, InQ', Flag(in.write # {}), Flag(in.read))
  <2> DEFINE w == in.write # {}
             r == in.read
  <2>1. inorderQueue!Pointers(in)
    BY DEF inorderQueue!Cycle
  <2>2. inRead' = IF r THEN After(inRead) ELSE inRead
    BY <1>2, <2>1 DEF inorderQueue!Pointers, inorderQueue!incrRead
  <2>3. inWrite' = IF w THEN After(inWrite) ELSE inWrite
    BY <1>2, <2>1 DEF inorderQueue!Pointers, inorderQueue!doWrite
  <2>4. /\ inEmpty' = IF w THEN FALSE ELSE IF r THEN After(inRead) = inWrite ELSE inEmpty
        /\ inFull' = IF r THEN FALSE ELSE IF w THEN After(inWrite) = inRead ELSE inFull
    <3>1. CASE inorderQueue!Hold(in)
      BY <1>3, <3>1 DEF inorderQueue!Hold, inorderQueue!doWrite, inorderQueue!incrRead
    <3>2. CASE inorderQueue!Write(in)
      BY <1>2, <1>3, <3>2 DEF inorderQueue!Write, inorderQueue!doWrite, inorderQueue!incrRead
    <3>3. CASE inorderQueue!Read(in)
      BY <1>2, <1>3, <3>3 DEF inorderQueue!Read, inorderQueue!doWrite, inorderQueue!incrRead
    <3>4. CASE inorderQueue!WriteRead(in)
      BY <1>2, <1>3, <1>4, <3>4 DEF inorderQueue!WriteRead, inorderQueue!doWrite, inorderQueue!incrRead
    <3> QED
      BY <3>1, <3>2, <3>3, <3>4 DEF inorderQueue!Cycle
  <2>5. (Flag(w) = 1 <=> w) /\ (Flag(r) = 1 <=> r)
    BY DEF Flag
  <2> HIDE DEF w, r
  <2>6. Turned(InQ, InQ', Flag(w), Flag(r))
    BY <1>1, <2>2, <2>3, <2>4, <2>5 DEF Turned
  <2> QED
    BY <2>6 DEF w, r
<1>6. NewMem(InQ, InQ', in.write, in.ops)
  <2>1. inRead' = IF in.read THEN After(inRead) ELSE inRead
    BY <1>1, <1>5 DEF Turned, Flag
  <2>2. inMem' = [i \in Ptr |->
           IF in.write # {} /\ i = inWrite THEN {Mv(x, in.ops) : x \in in.write}
           ELSE IF inRead' <= i \/ i <= Before(inWrite) THEN {St(x, in.ops) : x \in inMem[i]}
           ELSE inMem[i]]
    BY <1>2, <2>1 DEF inorderQueue!Cycle, inorderQueue!Memory, inorderQueue!Touched, inorderQueue!doWrite,
       inorderQueue!Slots, Ptr, Mv, St
  <2> QED
    BY <1>1, <2>2 DEF NewMem
<1> QED
  BY <1>5, <1>6

LEMMA SpTurned ==
  ASSUME FullQ(SpQ), NEW in, in.read \in BOOLEAN, in.read => ~spEmpty, in.write # {} => ~spFull,
         speculativeQueue!Cycle(in)
  PROVE  Turned(SpQ, SpQ', Flag(in.write # {}), Flag(in.read)) /\ NewMem(SpQ, SpQ', in.write, in.ops)
<1>1. /\ SpQ.rd = spRead /\ SpQ.wr = spWrite /\ SpQ.e = spEmpty /\ SpQ.f = spFull /\ SpQ.mem = spMem
      /\ SpQ'.rd = spRead' /\ SpQ'.wr = spWrite' /\ SpQ'.e = spEmpty' /\ SpQ'.f = spFull' /\ SpQ'.mem = spMem'
  BY DEF SpQ
<1>2. \A p : speculativeQueue!Succ(p) = After(p) /\ speculativeQueue!Pred(p) = Before(p)
  BY DEF speculativeQueue!Succ, speculativeQueue!Pred, After, Before
<1>3. spRead \in Ptr /\ spWrite \in Ptr /\ spEmpty \in BOOLEAN /\ spFull \in BOOLEAN
      /\ ~(spEmpty /\ spFull) /\ (spEmpty \/ spFull <=> spRead = spWrite)
  BY <1>1 DEF FullQ, GoodQ
<1>4. \A p, r \in Ptr : After(p) = After(r) => p = r
  BY DEF Ptr, After
<1>5. Turned(SpQ, SpQ', Flag(in.write # {}), Flag(in.read))
  <2> DEFINE w == in.write # {}
             r == in.read
  <2>1. speculativeQueue!Pointers(in)
    BY DEF speculativeQueue!Cycle
  <2>2. spRead' = IF r THEN After(spRead) ELSE spRead
    BY <1>2, <2>1 DEF speculativeQueue!Pointers, speculativeQueue!incrRead
  <2>3. spWrite' = IF w THEN After(spWrite) ELSE spWrite
    BY <1>2, <2>1 DEF speculativeQueue!Pointers, speculativeQueue!doWrite
  <2>4. /\ spEmpty' = IF w THEN FALSE ELSE IF r THEN After(spRead) = spWrite ELSE spEmpty
        /\ spFull' = IF r THEN FALSE ELSE IF w THEN After(spWrite) = spRead ELSE spFull
    <3>1. CASE speculativeQueue!Hold(in)
      BY <1>3, <3>1 DEF speculativeQueue!Hold, speculativeQueue!doWrite, speculativeQueue!incrRead
    <3>2. CASE speculativeQueue!Write(in)
      BY <1>2, <1>3, <3>2 DEF speculativeQueue!Write, speculativeQueue!doWrite, speculativeQueue!incrRead
    <3>3. CASE speculativeQueue!Read(in)
      BY <1>2, <1>3, <3>3 DEF speculativeQueue!Read, speculativeQueue!doWrite, speculativeQueue!incrRead
    <3>4. CASE speculativeQueue!WriteRead(in)
      BY <1>2, <1>3, <1>4, <3>4 DEF speculativeQueue!WriteRead, speculativeQueue!doWrite, speculativeQueue!incrRead
    <3> QED
      BY <3>1, <3>2, <3>3, <3>4 DEF speculativeQueue!Cycle
  <2>5. (Flag(w) = 1 <=> w) /\ (Flag(r) = 1 <=> r)
    BY DEF Flag
  <2> HIDE DEF w, r
  <2>6. Turned(SpQ, SpQ', Flag(w), Flag(r))
    BY <1>1, <2>2, <2>3, <2>4, <2>5 DEF Turned
  <2> QED
    BY <2>6 DEF w, r
<1>6. NewMem(SpQ, SpQ', in.write, in.ops)
  <2>1. spRead' = IF in.read THEN After(spRead) ELSE spRead
    BY <1>1, <1>5 DEF Turned, Flag
  <2>2. spMem' = [i \in Ptr |->
           IF in.write # {} /\ i = spWrite THEN {Mv(x, in.ops) : x \in in.write}
           ELSE IF spRead' <= i \/ i <= Before(spWrite) THEN {St(x, in.ops) : x \in spMem[i]}
           ELSE spMem[i]]
    BY <1>2, <2>1 DEF speculativeQueue!Cycle, speculativeQueue!Memory, speculativeQueue!Touched, speculativeQueue!doWrite,
       speculativeQueue!Slots, Ptr, Mv, St,
       speculativeQueue!MoveUpdate, speculativeQueue!StayUpdate, inorderQueue!MoveUpdate,
       inorderQueue!StayUpdate, speculativeQueue!Passed, speculativeQueue!Failed, inorderQueue!Passed,
       inorderQueue!Failed
  <2> QED
    BY <1>1, <2>2 DEF NewMem
<1> QED
  BY <1>5, <1>6

(***************************************************************************)
(* The history variable: every waiting request once, in both queues by age.*)
(***************************************************************************)
Names == {"in", "sp"}
Place == [queue : Names, pos : 1 .. Depth]

Routed(rt, sz) ==
  /\ rt \in Seq(Place)
  /\ \A k \in 1 .. Len(rt) : rt[k].pos <= sz[rt[k].queue]
  /\ \A k, l \in 1 .. Len(rt) : k < l /\ rt[k].queue = rt[l].queue => rt[k].pos < rt[l].pos
  /\ \A x \in Names : \A p \in 1 .. sz[x] : \E k \in 1 .. Len(rt) : rt[k] = [queue |-> x, pos |-> p]

Up(e, from) == IF e.queue = from THEN [e EXCEPT !.pos = @ - 1] ELSE e
Src(from, h, k) == IF from = "none" \/ k < h THEN k ELSE k + 1
Kept(rt, from, h) == IF from = "none" THEN rt
                     ELSE [k \in 1 .. Len(rt) - 1 |-> Up(rt[IF k < h THEN k ELSE k + 1], from)]

(* The head of a queue that is read is in the list; the places of the rest  *)
(* move up.                                                                 *)
LEMMA KeptOK ==
  ASSUME NEW rt, NEW sz \in [Names -> 0 .. Depth], Routed(rt, sz),
         NEW from \in Names \cup {"none"}, from # "none" => sz[from] >= 1,
         NEW h, from # "none" => h \in 1 .. Len(rt) /\ rt[h] = [queue |-> from, pos |-> 1],
         NEW less, less = [x \in Names |-> sz[x] - Flag(x = from)]
  PROVE  /\ Len(Kept(rt, from, h)) = Len(rt) - Flag(from # "none")
         /\ \A k \in 1 .. Len(rt) - Flag(from # "none") :
              Src(from, h, k) \in 1 .. Len(rt) /\ Kept(rt, from, h)[k] = Up(rt[Src(from, h, k)], from)
         /\ less \in [Names -> 0 .. Depth]
         /\ Routed(Kept(rt, from, h), less)
<1> DEFINE K == Kept(rt, from, h)
<1>1. rt \in Seq(Place) /\ Len(rt) \in Nat /\ \A k \in 1 .. Len(rt) : rt[k] \in Place
  BY DEF Routed
<1>2. less \in [Names -> 0 .. Depth]
  BY DEF Flag, Names
<1>3. CASE from = "none"
  <2>1. K = rt /\ less = sz
    BY <1>3 DEF Kept, Flag, Names
  <2>2. \A k \in 1 .. Len(rt) : Src(from, h, k) = k /\ Up(rt[k], from) = rt[k]
    BY <1>1, <1>3 DEF Src, Up, Place, Names
  <2>3. Flag(from # "none") = 0
    BY <1>3 DEF Flag
  <2>4. Len(rt) - 0 = Len(rt)
    BY <1>1
  <2> HIDE DEF K
  <2> QED
    BY <1>1, <1>2, <2>1, <2>2, <2>3, <2>4 DEF K
<1>4. CASE from # "none"
  <2> DEFINE n == Len(rt)
             src(k) == IF k < h THEN k ELSE k + 1
  <2>1. from \in Names /\ h \in 1 .. n /\ n \in Nat /\ rt[h].queue = from /\ rt[h].pos = 1 /\ n - 1 \in Nat
    BY <1>1, <1>4
  <2>2. \A k \in 1 .. n - 1 : src(k) \in 1 .. n /\ src(k) # h
    BY <2>1
  <2>3. \A k, l \in 1 .. n - 1 : k < l => src(k) < src(l)
    BY <2>1
  <2>4. \A j \in 1 .. n : j # h => \E k \in 1 .. n - 1 : src(k) = j
    <3> TAKE j \in 1 .. n
    <3>1. j < h => j \in 1 .. n - 1 /\ src(j) = j
      BY <2>1
    <3>2. j > h => j - 1 \in 1 .. n - 1 /\ src(j - 1) = j
      BY <2>1
    <3> QED
      BY <2>1, <3>1, <3>2
  <2> HIDE DEF src, n
  (* Only the head is in the first place of its queue. *)
  <2>5. \A j \in 1 .. n : j # h /\ rt[j].queue = from => rt[j].pos > 1
    <3> TAKE j \in 1 .. n
    <3>1. j < h /\ rt[j].queue = from => rt[j].pos < 1
      BY <2>1 DEF Routed, n
    <3>2. j > h /\ rt[j].queue = from => rt[j].pos > 1
      BY <2>1 DEF Routed, n
    <3>3. rt[j].pos >= 1
      BY <1>1 DEF Place, n
    <3> QED
      BY <1>1, <2>1, <3>1, <3>2, <3>3 DEF Place, n
  <2>6. \A j \in 1 .. n : j # h => /\ Up(rt[j], from) \in Place
                                   /\ Up(rt[j], from).queue = rt[j].queue
                                   /\ Up(rt[j], from).pos = rt[j].pos - Flag(rt[j].queue = from)
    <3> TAKE j \in 1 .. n
    <3>1. rt[j] \in Place
      BY <1>1 DEF n
    <3>2. CASE rt[j].queue = from
      BY <2>5, <3>1, <3>2 DEF Up, Flag, Place
    <3>3. CASE rt[j].queue # from
      BY <3>1, <3>3 DEF Up, Flag, Place
    <3> QED
      BY <3>2, <3>3
  <2>7. K = [k \in 1 .. n - 1 |-> Up(rt[src(k)], from)]
    BY <1>4 DEF Kept, n, src
  <2>8. K \in Seq(Place) /\ Len(K) = n - 1 /\ \A k \in 1 .. n - 1 : K[k] = Up(rt[src(k)], from)
    BY <2>1, <2>2, <2>6, <2>7
  <2> HIDE DEF K
  <2>9. \A k \in 1 .. n - 1 : K[k].pos <= less[K[k].queue]
    <3> TAKE k \in 1 .. n - 1
    <3>1. src(k) \in 1 .. n /\ src(k) # h
      BY <2>2
    <3>2. rt[src(k)].pos <= sz[rt[src(k)].queue] /\ rt[src(k)] \in Place
      BY <1>1, <3>1 DEF Routed, n
    <3>3. K[k].queue = rt[src(k)].queue /\ K[k].pos = rt[src(k)].pos - Flag(rt[src(k)].queue = from)
      BY <2>6, <2>8, <3>1
    <3> QED
      BY <3>2, <3>3 DEF Flag, Place
  <2>10. \A k, l \in 1 .. n - 1 : k < l /\ K[k].queue = K[l].queue => K[k].pos < K[l].pos
    <3> TAKE k, l \in 1 .. n - 1
    <3>1. src(k) \in 1 .. n /\ src(k) # h /\ src(l) \in 1 .. n /\ src(l) # h /\ (k < l => src(k) < src(l))
      BY <2>2, <2>3
    <3>2. K[k].queue = rt[src(k)].queue /\ K[k].pos = rt[src(k)].pos - Flag(rt[src(k)].queue = from)
      BY <2>6, <2>8, <3>1
    <3>3. K[l].queue = rt[src(l)].queue /\ K[l].pos = rt[src(l)].pos - Flag(rt[src(l)].queue = from)
      BY <2>6, <2>8, <3>1
    <3>4. src(k) < src(l) /\ rt[src(k)].queue = rt[src(l)].queue => rt[src(k)].pos < rt[src(l)].pos
      BY <3>1 DEF Routed, n
    <3>5. rt[src(k)] \in Place /\ rt[src(l)] \in Place
      BY <1>1, <3>1 DEF n
    <3> QED
      BY <3>1, <3>2, <3>3, <3>4, <3>5 DEF Flag, Place
  <2>11. \A x \in Names : \A p \in 1 .. less[x] : \E k \in 1 .. n - 1 : K[k] = [queue |-> x, pos |-> p]
    <3> TAKE x \in Names
    <3> TAKE p \in 1 .. less[x]
    <3>1. p + Flag(x = from) \in 1 .. sz[x]
      BY DEF Flag
    <3>2. PICK j \in 1 .. n : rt[j] = [queue |-> x, pos |-> p + Flag(x = from)]
      BY <3>1 DEF Routed, n
    <3>3. j # h
      BY <2>1, <3>2 DEF Flag
    <3>4. PICK k \in 1 .. n - 1 : src(k) = j
      BY <2>4, <3>3
    <3>5. K[k].queue = x /\ K[k].pos = p /\ K[k] \in Place
      BY <2>6, <2>8, <3>2, <3>3, <3>4 DEF Flag
    <3> QED
      BY <3>5 DEF Place
  <2>12. Routed(K, less)
    BY <2>8, <2>9, <2>10, <2>11 DEF Routed
  <2>13. \A k \in 1 .. n - 1 : Src(from, h, k) = src(k)
    BY <1>4 DEF Src, src
  <2> QED
    BY <1>2, <1>4, <2>2, <2>8, <2>12, <2>13 DEF n, K, Flag
<1> QED
  BY <1>3, <1>4

(* What arrives is the youngest of its queue. *)
LEMMA AppendOK ==
  ASSUME NEW rt, NEW sz \in [Names -> 0 .. Depth], Routed(rt, sz), NEW to \in Names, sz[to] < Depth,
         NEW more, more = [x \in Names |-> sz[x] + Flag(x = to)]
  PROVE  /\ Len(Append(rt, [queue |-> to, pos |-> more[to]])) = Len(rt) + 1
         /\ \A k \in 1 .. Len(rt) : Append(rt, [queue |-> to, pos |-> more[to]])[k] = rt[k]
         /\ Append(rt, [queue |-> to, pos |-> more[to]])[Len(rt) + 1] = [queue |-> to, pos |-> more[to]]
         /\ Routed(Append(rt, [queue |-> to, pos |-> more[to]]), more)
<1> DEFINE e == [queue |-> to, pos |-> more[to]]
           A == Append(rt, e)
           n == Len(rt)
<1>1. rt \in Seq(Place) /\ n \in Nat /\ \A k \in 1 .. n : rt[k] \in Place
  BY DEF Routed
<1>2. e \in Place /\ e.queue = to /\ e.pos = more[to] /\ more[to] = sz[to] + 1
  BY DEF Place, Flag
<1> HIDE DEF e
<1>3. /\ A \in Seq(Place) /\ Len(A) = n + 1
      /\ \A k \in 1 .. n : A[k] = rt[k]
      /\ A[n + 1] = e
  BY <1>1, <1>2
<1> HIDE DEF A, n
<1>4. \A x \in Names : sz[x] \in Nat /\ more[x] \in Nat /\ more[x] >= sz[x] /\ (x # to => more[x] = sz[x])
  BY DEF Flag
<1>5. \A k \in 1 .. n : A[k].queue \in Names /\ A[k].pos \in Nat /\ A[k].pos <= sz[A[k].queue]
  <2>1. \A k \in 1 .. n : rt[k].queue \in Names /\ rt[k].pos \in Nat
    BY <1>1 DEF Place
  <2>2. \A k \in 1 .. n : rt[k].pos <= sz[rt[k].queue]
    BY DEF Routed, n
  <2> QED
    BY <1>3, <2>1, <2>2
<1>6. \A k \in 1 .. n + 1 : A[k].pos <= more[A[k].queue]
  <2> TAKE k \in 1 .. n + 1
  <2>1. CASE k \in 1 .. n
    BY <1>4, <1>5, <2>1
  <2>2. CASE k = n + 1
    BY <1>2, <1>3, <1>4, <2>2
  <2> QED
    BY <1>1, <2>1, <2>2
<1>7. \A k, l \in 1 .. n + 1 : k < l /\ A[k].queue = A[l].queue => A[k].pos < A[l].pos
  <2> TAKE k, l \in 1 .. n + 1
  <2>1. CASE k \in 1 .. n /\ l \in 1 .. n
    BY <1>3, <2>1 DEF Routed, n
  <2>2. CASE k \in 1 .. n /\ l = n + 1
    BY <1>2, <1>3, <1>4, <1>5, <2>2
  <2>3. (k \in 1 .. n \/ ~(k < l)) /\ (l \in 1 .. n \/ l = n + 1)
    BY <1>1
  <2> QED
    BY <2>1, <2>2, <2>3
<1>8. \A x \in Names : \A p \in 1 .. more[x] : \E k \in 1 .. n + 1 : A[k] = [queue |-> x, pos |-> p]
  <2> TAKE x \in Names
  <2> TAKE p \in 1 .. more[x]
  <2>1. CASE p \in 1 .. sz[x]
    <3>1. PICK k \in 1 .. n : rt[k] = [queue |-> x, pos |-> p]
      BY <2>1 DEF Routed, n
    <3> QED
      BY <1>1, <1>3, <3>1
  <2>2. CASE p \notin 1 .. sz[x]
    <3>1. x = to /\ p = more[to]
      BY <1>2, <1>4, <2>2
    <3>2. n + 1 \in 1 .. n + 1
      BY <1>1
    <3> QED
      BY <1>3, <3>1, <3>2 DEF e
  <2> QED
    BY <2>1, <2>2
<1>9. Routed(A, more)
  BY <1>3, <1>6, <1>7, <1>8 DEF Routed
<1> QED
  BY <1>3, <1>9 DEF A, n, e

(***************************************************************************)
(* Both queues and the list.                                               *)
(***************************************************************************)
QueueOf(x) == IF x = "in" THEN InQ ELSE SpQ
Sizes == [x \in Names |-> Occ(QueueOf(x))]

(* A dead request's mask means nothing. *)
Canon(r) == IF r.live THEN r ELSE [r EXCEPT !.mask = {}]

(* The request at a place of the list. *)
Here(e) == Ent(QueueOf(e.queue), e.pos)

(* Only loads are in the speculative queue, and none came after an in-order *)
(* request to its dword that still waits.                                   *)
Apart ==
  /\ \A k \in 1 .. Len(route) : route[k].queue = "sp" => Here(route[k]).body.kind = "load"
  /\ \A k, l \in 1 .. Len(route) : k < l /\ route[k].queue = "in" /\ route[l].queue = "sp" =>
        Here(route[k]).body.dword # Here(route[l]).body.dword

OInv == /\ IInv
        /\ FullQ(InQ) /\ FullQ(SpQ)
        /\ shadow \in [1 .. Shadow -> AtMostOne(Request)] /\ branchOps \in inorderQueue!BranchOps
        /\ Routed(route, Sizes)
        /\ Apart

(* The windows of the queues are their entries. *)
LEMMA WindowsAre ==
  ASSUME FullQ(InQ), FullQ(SpQ), NEW k
  PROVE  /\ inorderQueue!occupancy = Occ(InQ) /\ speculativeQueue!occupancy = Occ(SpQ)
         /\ k \in 1 .. Occ(InQ) => inorderQueue!Window[k] = Ent(InQ, k)
         /\ k \in 1 .. Occ(SpQ) => speculativeQueue!Window[k] = Ent(SpQ, k)
<1>1. inorderQueue!occupancy = Occ(InQ) /\ speculativeQueue!occupancy = Occ(SpQ)
  BY DEF inorderQueue!occupancy, speculativeQueue!occupancy, Occ, InQ, SpQ, inorderQueue!Dist,
     speculativeQueue!Dist
<1>2. ASSUME k \in 1 .. Occ(InQ) PROVE inorderQueue!Window[k] = Ent(InQ, k)
  <2>1. inorderQueue!Wrap(inRead + k - 1) = At(InQ, k)
    <3>1. InQ.rd = inRead
      BY DEF InQ
    <3>2. inRead \in Int /\ k \in Int
      BY <1>2, <3>1, AtRange DEF FullQ, GoodQ, Ptr
    <3> QED
      BY <3>1, <3>2 DEF At, inorderQueue!Wrap
  <2>2. inorderQueue!Window[k] = CHOOSE r \in inMem[inorderQueue!Wrap(inRead + k - 1)] : TRUE
    BY <1>1, <1>2 DEF inorderQueue!Window
  <2>3. InQ.mem = inMem
    BY DEF InQ
  <2> QED
    BY <2>1, <2>2, <2>3 DEF Ent
<1>3. ASSUME k \in 1 .. Occ(SpQ) PROVE speculativeQueue!Window[k] = Ent(SpQ, k)
  <2>1. speculativeQueue!Wrap(spRead + k - 1) = At(SpQ, k)
    <3>1. SpQ.rd = spRead
      BY DEF SpQ
    <3>2. spRead \in Int /\ k \in Int
      BY <1>3, <3>1, AtRange DEF FullQ, GoodQ, Ptr
    <3> QED
      BY <3>1, <3>2 DEF At, speculativeQueue!Wrap
  <2>2. speculativeQueue!Window[k] = CHOOSE r \in spMem[speculativeQueue!Wrap(spRead + k - 1)] : TRUE
    BY <1>1, <1>3 DEF speculativeQueue!Window
  <2>3. SpQ.mem = spMem
    BY DEF SpQ
  <2> QED
    BY <2>1, <2>2, <2>3 DEF Ent
<1> QED
  BY <1>1, <1>2, <1>3

(* The list that RequestOrder sees. *)
LEMMA WaitingIs ==
  OInv => \A k \in 1 .. Len(route) : /\ Waiting(route[k]) = Canon(Here(route[k]))
                                     /\ Here(route[k]) \in Request
                                     /\ route[k] \in Place
<1> SUFFICES ASSUME OInv, NEW k \in 1 .. Len(route)
             PROVE  /\ Waiting(route[k]) = Canon(Here(route[k]))
                    /\ Here(route[k]) \in Request /\ route[k] \in Place
  OBVIOUS
<1>1. route[k] \in Place /\ route[k].pos <= Sizes[route[k].queue]
  BY DEF OInv, Routed
<1>2. CASE route[k].queue = "in"
  <2>1. route[k].pos \in 1 .. Occ(InQ) /\ Here(route[k]) = Ent(InQ, route[k].pos)
    BY <1>1, <1>2 DEF Sizes, QueueOf, Names, Place, Here
  <2>2. Waiting(route[k]) = Canon(inorderQueue!Window[route[k].pos])
    BY <1>2 DEF Waiting, Canon
  <2>3. inorderQueue!Window[route[k].pos] = Ent(InQ, route[k].pos)
    BY <2>1, WindowsAre DEF OInv
  <2>4. Ent(InQ, route[k].pos) \in Request
    BY <2>1, EntryOf DEF OInv
  <2> QED
    BY <1>1, <2>1, <2>2, <2>3, <2>4
<1>3. CASE route[k].queue = "sp"
  <2>1. route[k].pos \in 1 .. Occ(SpQ) /\ Here(route[k]) = Ent(SpQ, route[k].pos)
    BY <1>1, <1>3 DEF Sizes, QueueOf, Names, Place, Here
  <2>2. Waiting(route[k]) = Canon(speculativeQueue!Window[route[k].pos])
    BY <1>3 DEF Waiting, Canon
  <2>3. speculativeQueue!Window[route[k].pos] = Ent(SpQ, route[k].pos)
    BY <2>1, WindowsAre DEF OInv
  <2>4. Ent(SpQ, route[k].pos) \in Request
    BY <2>1, EntryOf DEF OInv
  <2> QED
    BY <1>1, <2>1, <2>2, <2>3, <2>4
<1> QED
  BY <1>1, <1>2, <1>3 DEF Place, Names

LEMMA WaitingIsNext ==
  OInv' => (\A k \in 1 .. Len(route) : /\ Waiting(route[k]) = Canon(Here(route[k]))
                                       /\ Here(route[k]) \in Request
                                       /\ route[k] \in Place)'
  BY WaitingIs, PTL

(* RequestOrder ages a request as both updates of the queues do; applying   *)
(* the resolution twice, as the entrance does, changes nothing.             *)
LEMMA AgedIs ==
  ASSUME NEW r \in Request, branchOps \in inorderQueue!BranchOps
  PROVE  /\ Order!Aged(Canon(r)) = Canon(Mv(r, branchOps))
         /\ Order!Aged(r) = Canon(Mv(r, branchOps))
         /\ Canon(St(r, branchOps)) = Canon(Mv(r, branchOps))
         /\ Mv(Mv(r, branchOps), branchOps) = Mv(r, branchOps)
         /\ Canon(r) \in Request /\ Canon(r).body = r.body
         /\ Canon(r).body = r.body
<1>1. r = [body |-> r.body, live |-> r.live, mask |-> r.mask] /\ r.live \in BOOLEAN /\ r.mask \in SUBSET Bits
      /\ r.body \in Body
  BY DEF Request, inorderQueue!Request
<1>2. CASE branchOps = {}
  <2>1. inorderQueue!Passed(branchOps) = {} /\ inorderQueue!Failed(branchOps) = {} /\ Order!Resolved = {}
    BY <1>2 DEF inorderQueue!Passed, inorderQueue!Failed, Order!Resolved
  <2>2. ~Order!Killed(r) /\ ~Order!Killed(Canon(r)) /\ ~\E o \in branchOps : o.passed
    BY <1>2 DEF Order!Killed
  <2>3. Mv(r, branchOps) = r /\ Canon(St(r, branchOps)) = Canon(r)
    BY <1>1, <2>1 DEF Mv, St, inorderQueue!MoveUpdate, inorderQueue!StayUpdate, Canon
  <2> QED
    BY <1>1, <2>2, <2>3 DEF Order!Aged, Canon, Request, inorderQueue!Request
<1>3. CASE branchOps # {}
  <2>1. PICK o \in [bit : Bits, passed : BOOLEAN] : branchOps = {o}
    BY <1>3 DEF inorderQueue!BranchOps
  <2>2. CASE o.passed
    <3>1. inorderQueue!Passed(branchOps) = {o.bit} /\ inorderQueue!Failed(branchOps) = {}
          /\ Order!Resolved = {o.bit}
      BY <2>1, <2>2 DEF inorderQueue!Passed, inorderQueue!Failed, Order!Resolved
    <3>2. ~Order!Killed(r) /\ ~Order!Killed(Canon(r)) /\ \E x \in branchOps : x.passed
      BY <2>1, <2>2 DEF Order!Killed
    <3> QED
      BY <1>1, <3>1, <3>2 DEF Mv, St, inorderQueue!MoveUpdate, inorderQueue!StayUpdate, Canon, Order!Aged,
         Request, inorderQueue!Request
  <2>3. CASE ~o.passed
    <3>1. inorderQueue!Passed(branchOps) = {} /\ inorderQueue!Failed(branchOps) = {o.bit}
          /\ Order!Resolved = {o.bit}
      BY <2>1, <2>3 DEF inorderQueue!Passed, inorderQueue!Failed, Order!Resolved
    <3>2. /\ \A x : Order!Killed(x) <=> x.mask \cap {o.bit} # {}
          /\ ~\E x \in branchOps : x.passed
      BY <2>1, <2>3, <3>1 DEF Order!Killed
    <3> QED
      BY <1>1, <3>1, <3>2 DEF Mv, St, inorderQueue!MoveUpdate, inorderQueue!StayUpdate, Canon, Order!Aged,
         Request, inorderQueue!Request
  <2> QED
    BY <2>2, <2>3
<1> QED
  BY <1>2, <1>3

(* What a cycle reads and where it puts what arrives. *)
From(c) == IF readInorder(c) THEN "in" ELSE IF readSpeculative(c) THEN "sp" ELSE "none"
To == IF toSpeculative # {} THEN "sp" ELSE IF requestIn = {} THEN "none" ELSE "in"

LEMMA DropNothing == OInv /\ requestIn # {} => ~inFull /\ ~spFull
<1> SUFFICES ASSUME OInv, requestIn # {} PROVE ~inFull /\ ~spFull
  OBVIOUS
<1>1. shadow[Shadow] # {} /\ Shadow \in 1 .. Shadow
  BY DEF requestIn
<1>2. /\ inorderQueue!occupancy <= Depth - Reserve - 1 + Shadow
      /\ speculativeQueue!occupancy <= Depth - Reserve - 1 + Shadow
  BY <1>1 DEF OInv, IInv, Room
<1> QED
  BY <1>2, InorderOccupancy, SpeculativeOccupancy DEF OInv, IInv

LEMMA Entrance ==
  ASSUME OInv, NEW c \in Inputs
  PROVE  /\ requestIn \in Single /\ toSpeculative \subseteq requestIn
         /\ requestIn \ toSpeculative \in Single /\ toSpeculative \in Single
         /\ requestIn # {} => \E y \in Request : shadow[Shadow] = {y} /\ requestIn = {Mv(y, branchOps)}
         /\ readInorder(c) \in BOOLEAN /\ readSpeculative(c) \in BOOLEAN
         /\ readInorder(c) => ~inEmpty /\ ~readSpeculative(c)
         /\ readSpeculative(c) => ~spEmpty
<1>1. shadow[Shadow] \in AtMostOne(Request)
  BY DEF OInv
<1>2. requestIn # {} => \E y \in Request : shadow[Shadow] = {y} /\ requestIn = {Mv(y, branchOps)}
  <2>1. CASE shadow[Shadow] = {}
    BY <2>1 DEF requestIn
  <2>2. CASE shadow[Shadow] # {}
    <3>1. PICK y \in Request : shadow[Shadow] = {y}
      BY <1>1, <2>2 DEF AtMostOne
    <3>2. requestIn = {Mv(y, branchOps)}
      BY <3>1 DEF requestIn, Mv
    <3> QED
      BY <3>1, <3>2
  <2> QED
    BY <2>1, <2>2
<1>3. requestIn \in Single
  BY <1>2, UpdateTypes DEF Single
<1>4. toSpeculative \subseteq requestIn
  BY DEF toSpeculative
<1>5. requestIn \ toSpeculative \in Single /\ toSpeculative \in Single
  <2>1. requestIn \ toSpeculative \in {{}, requestIn} /\ toSpeculative \in {{}, requestIn}
    BY <1>3, <1>4 DEF Single
  <2> QED
    BY <1>3, <2>1 DEF Single
<1>6. readInorder(c) => ~inEmpty /\ ~readSpeculative(c)
  BY DEF readInorder, readSpeculative, inorderGoes, MayGo, inorderQueue!readData
<1>7. readSpeculative(c) => ~spEmpty
  BY DEF readSpeculative
<1> QED
  BY <1>2, <1>3, <1>4, <1>5, <1>6, <1>7, ReadTypes

(* A cycle of both queues. *)
LEMMA CycleFacts ==
  ASSUME OInv, NEW c \in Inputs, Cycle(c), NEW x \in Names,
         NEW gone, gone = (IF From(c) = x THEN 1 ELSE 0), NEW new, new = (IF To = x THEN 1 ELSE 0)
  PROVE  /\ FullQ(QueueOf(x)') /\ Occ(QueueOf(x)) \in 0 .. Depth /\ Occ(QueueOf(x)) >= gone
         /\ Occ(QueueOf(x)') = Occ(QueueOf(x)) - gone + new
         /\ new = 1 => Occ(QueueOf(x)) < Depth
         /\ \A k \in 1 .. Occ(QueueOf(x)) - gone : Ent(QueueOf(x)', k) = St(Ent(QueueOf(x), k + gone), branchOps)
         /\ \A y \in Request : new = 1 /\ shadow[Shadow] = {y} =>
              Ent(QueueOf(x)', Occ(QueueOf(x)')) = Mv(y, branchOps)
<1>0. FullQ(InQ) /\ FullQ(SpQ) /\ branchOps \in inorderQueue!BranchOps
  BY DEF OInv
<1>1. gone \in {0, 1} /\ new \in {0, 1}
  BY DEF Flag
<1>2. CASE x = "in"
  <2> DEFINE in == [write |-> requestIn \ toSpeculative, read |-> readInorder(c), ops |-> branchOps]
  <2>1. inorderQueue!Cycle(in)
    BY DEF Cycle, InorderCycle
  <2>2. in.write = requestIn \ toSpeculative /\ in.read = readInorder(c) /\ in.ops = branchOps
    OBVIOUS
  <2> HIDE DEF in
  <2>3. in.read \in BOOLEAN /\ (in.read => ~inEmpty) /\ (in.write # {} => ~inFull) /\ in.write \in Single
    BY <2>2, Entrance, DropNothing
  <2>4. Turned(InQ, InQ', Flag(in.write # {}), Flag(in.read)) /\ NewMem(InQ, InQ', in.write, in.ops)
    BY <1>0, <2>1, <2>3, InTurned
  <2>5. (in.read <=> From(c) = "in") /\ (in.write # {} <=> To = "in")
    <3>1. in.write # {} <=> requestIn # {} /\ toSpeculative = {}
      BY <2>2, Entrance DEF Single
    <3> QED
      BY <2>2, <3>1 DEF From, To
  <2>6. Flag(in.read) = gone /\ Flag(in.write # {}) = new
    BY <1>2, <2>5 DEF Flag
  <2>7. (new = 1 <=> in.write # {}) /\ (gone = 1 <=> in.read)
    BY <2>6 DEF Flag
  <2>8. InQ.f = inFull /\ InQ.e = inEmpty
    BY DEF InQ
  <2>9. Turned(InQ, InQ', new, gone)
    BY <2>4, <2>6
  <2>10. /\ FullQ(InQ') /\ Occ(InQ) \in 0 .. Depth /\ Occ(InQ) >= gone
         /\ Occ(InQ') = Occ(InQ) - gone + new
         /\ \A k \in 1 .. Occ(InQ) - gone : Ent(InQ', k) = St(Ent(InQ, k + gone), in.ops)
         /\ \A r : in.write = {r} => Ent(InQ', Occ(InQ')) = Mv(r, in.ops)
    <3>1. PICK q : q = InQ
      OBVIOUS
    <3>2. PICK q2 : q2 = InQ'
      OBVIOUS
    <3>3. PICK W : W = in.write
      OBVIOUS
    <3>4. FullQ(q) /\ Turned(q, q2, new, gone) /\ NewMem(q, q2, W, in.ops)
      BY <1>0, <2>4, <2>9, <3>1, <3>2, <3>3
    <3>a. Ports(q, W, new, gone)
      BY <1>1, <2>3, <2>7, <2>8, <3>1, <3>3 DEF Ports
    <3>5. /\ FullQ(q2) /\ Occ(q) \in 0 .. Depth /\ Occ(q) >= gone
          /\ Occ(q2) = Occ(q) - gone + new
          /\ \A k \in 1 .. Occ(q) - gone : Ent(q2, k) = St(Ent(q, k + gone), in.ops)
          /\ \A r : W = {r} => Ent(q2, Occ(q2)) = Mv(r, in.ops)
      BY <3>4, <3>a, QueueCycle
    <3> QED
      BY <3>1, <3>2, <3>3, <3>5
  <2>11. \A y \in Request : new = 1 /\ shadow[Shadow] = {y} => Ent(InQ', Occ(InQ')) = Mv(y, branchOps)
    <3>1. ASSUME NEW y \in Request, new = 1, shadow[Shadow] = {y} PROVE in.write = {Mv(y, branchOps)}
      BY <2>2, <2>3, <2>7, <3>1, Entrance DEF Single
    <3> QED
      BY <1>0, <2>2, <2>10, <3>1, AgedIs
  <2>12. new = 1 => Occ(InQ) < Depth
    <3>1. GoodQ(InQ) /\ (new = 1 => ~InQ.f)
      BY <1>0, <2>3, <2>7, <2>8 DEF FullQ
    <3> QED
      BY <3>1 DEF GoodQ, Occ, Ptr
  <2>13. QueueOf(x) = InQ /\ QueueOf(x)' = InQ'
    BY <1>2 DEF QueueOf
  <2> QED
    BY <2>2, <2>10, <2>11, <2>12, <2>13
<1>3. CASE x = "sp"
  <2> DEFINE in == [write |-> toSpeculative, read |-> readSpeculative(c), ops |-> branchOps]
  <2>1. speculativeQueue!Cycle(in)
    BY DEF Cycle, SpeculativeCycle
  <2>2. in.write = toSpeculative /\ in.read = readSpeculative(c) /\ in.ops = branchOps
    OBVIOUS
  <2> HIDE DEF in
  <2>3. in.read \in BOOLEAN /\ (in.read => ~spEmpty) /\ (in.write # {} => ~spFull) /\ in.write \in Single
    BY <2>2, Entrance, DropNothing
  <2>4. Turned(SpQ, SpQ', Flag(in.write # {}), Flag(in.read)) /\ NewMem(SpQ, SpQ', in.write, in.ops)
    BY <1>0, <2>1, <2>3, SpTurned
  <2>5. (in.read <=> From(c) = "sp") /\ (in.write # {} <=> To = "sp")
    BY <2>2, Entrance DEF From, To
  <2>6. Flag(in.read) = gone /\ Flag(in.write # {}) = new
    BY <1>3, <2>5 DEF Flag
  <2>7. (new = 1 <=> in.write # {}) /\ (gone = 1 <=> in.read)
    BY <2>6 DEF Flag
  <2>8. SpQ.f = spFull /\ SpQ.e = spEmpty
    BY DEF SpQ
  <2>9. Turned(SpQ, SpQ', new, gone)
    BY <2>4, <2>6
  <2>10. /\ FullQ(SpQ') /\ Occ(SpQ) \in 0 .. Depth /\ Occ(SpQ) >= gone
         /\ Occ(SpQ') = Occ(SpQ) - gone + new
         /\ \A k \in 1 .. Occ(SpQ) - gone : Ent(SpQ', k) = St(Ent(SpQ, k + gone), in.ops)
         /\ \A r : in.write = {r} => Ent(SpQ', Occ(SpQ')) = Mv(r, in.ops)
    <3>1. PICK q : q = SpQ
      OBVIOUS
    <3>2. PICK q2 : q2 = SpQ'
      OBVIOUS
    <3>3. PICK W : W = in.write
      OBVIOUS
    <3>4. FullQ(q) /\ Turned(q, q2, new, gone) /\ NewMem(q, q2, W, in.ops)
      BY <1>0, <2>4, <2>9, <3>1, <3>2, <3>3
    <3>a. Ports(q, W, new, gone)
      BY <1>1, <2>3, <2>7, <2>8, <3>1, <3>3 DEF Ports
    <3>5. /\ FullQ(q2) /\ Occ(q) \in 0 .. Depth /\ Occ(q) >= gone
          /\ Occ(q2) = Occ(q) - gone + new
          /\ \A k \in 1 .. Occ(q) - gone : Ent(q2, k) = St(Ent(q, k + gone), in.ops)
          /\ \A r : W = {r} => Ent(q2, Occ(q2)) = Mv(r, in.ops)
      BY <3>4, <3>a, QueueCycle
    <3> QED
      BY <3>1, <3>2, <3>3, <3>5
  <2>11. \A y \in Request : new = 1 /\ shadow[Shadow] = {y} => Ent(SpQ', Occ(SpQ')) = Mv(y, branchOps)
    <3>1. ASSUME NEW y \in Request, new = 1, shadow[Shadow] = {y} PROVE in.write = {Mv(y, branchOps)}
      BY <2>2, <2>3, <2>7, <3>1, Entrance DEF Single
    <3> QED
      BY <1>0, <2>2, <2>10, <3>1, AgedIs
  <2>12. new = 1 => Occ(SpQ) < Depth
    <3>1. GoodQ(SpQ) /\ (new = 1 => ~SpQ.f)
      BY <1>0, <2>3, <2>7, <2>8 DEF FullQ
    <3> QED
      BY <3>1 DEF GoodQ, Occ, Ptr
  <2>13. QueueOf(x) = SpQ /\ QueueOf(x)' = SpQ'
    BY <1>3 DEF QueueOf
  <2> QED
    BY <2>2, <2>10, <2>11, <2>12, <2>13
<1> QED
  BY <1>2, <1>3 DEF Names

(* The sizes of the queues after a cycle. *)
LEMMA SizesStep ==
  ASSUME OInv, NEW c \in Inputs, Cycle(c), NEW x \in Names
  PROVE  /\ FullQ(QueueOf(x)')
         /\ Sizes[x] \in 0 .. Depth /\ Sizes'[x] \in 0 .. Depth
         /\ Sizes'[x] = (Sizes[x] - (IF From(c) = x THEN 1 ELSE 0)) + (IF To = x THEN 1 ELSE 0)
         /\ From(c) = x => Sizes[x] >= 1
         /\ To = x => Sizes[x] < Depth
         /\ Sizes[x] = Occ(QueueOf(x)) /\ Sizes'[x] = Occ(QueueOf(x)')
<1>1. PICK gone : gone = (IF From(c) = x THEN 1 ELSE 0)
  OBVIOUS
<1>2. PICK new : new = (IF To = x THEN 1 ELSE 0)
  OBVIOUS
<1>3. /\ FullQ(QueueOf(x)') /\ Occ(QueueOf(x)) \in 0 .. Depth /\ Occ(QueueOf(x)) >= gone
      /\ Occ(QueueOf(x)') = Occ(QueueOf(x)) - gone + new
      /\ new = 1 => Occ(QueueOf(x)) < Depth
  BY <1>1, <1>2, CycleFacts
<1>4. Sizes[x] = Occ(QueueOf(x)) /\ Sizes'[x] = Occ(QueueOf(x)')
  BY DEF Sizes
<1> QED
  BY <1>1, <1>2, <1>3, <1>4

LEMMA FromTo ==
  ASSUME NEW c
  PROVE  From(c) \in Names \cup {"none"} /\ To \in Names \cup {"none"}
  BY DEF From, To, Names

(* The list after a cycle, place by place: the place h leaves, n stay.      *)
RouteTurn(c, h, n) ==
  /\ From(c) # "none" => h \in 1 .. Len(route) /\ route[h] = [queue |-> From(c), pos |-> 1]
  /\ n = (IF From(c) = "none" THEN Len(route) ELSE Len(route) - 1) /\ n \in Nat
  /\ Len(route') = IF To = "none" THEN n ELSE n + 1
  /\ \A k \in 1 .. n : /\ Src(From(c), h, k) \in 1 .. Len(route)
                       /\ route'[k] = Up(route[Src(From(c), h, k)], From(c))
  /\ To # "none" => route'[n + 1] = [queue |-> To, pos |-> Sizes'[To]]
  /\ Routed(route', Sizes')

LEMMA RouteStep ==
  ASSUME OInv, NEW c \in Inputs, Cycle(c)
  PROVE  \E h : \E n : RouteTurn(c, h, n)
<1>1. PICK rt : rt = route
  OBVIOUS
<1>2. PICK sz : sz = Sizes
  OBVIOUS
<1>3. PICK sz2 : sz2 = Sizes'
  OBVIOUS
<1>4. PICK from : from = From(c)
  OBVIOUS
<1>5. PICK to : to = To
  OBVIOUS
<1>6. from \in Names \cup {"none"} /\ to \in Names \cup {"none"}
  BY <1>4, <1>5, FromTo
<1>7. Routed(rt, sz) /\ sz = [x \in Names |-> sz[x]] /\ sz2 = [x \in Names |-> sz2[x]]
  BY <1>1, <1>2, <1>3 DEF OInv, Sizes
<1>8. \A x \in Names :
         /\ sz[x] \in 0 .. Depth /\ sz2[x] \in 0 .. Depth
         /\ sz2[x] = (sz[x] - (IF from = x THEN 1 ELSE 0)) + (IF to = x THEN 1 ELSE 0)
         /\ from = x => sz[x] >= 1
         /\ to = x => sz[x] < Depth
  BY <1>2, <1>3, <1>4, <1>5, SizesStep
<1>9. sz \in [Names -> 0 .. Depth]
  BY <1>7, <1>8
<1> DEFINE head == CHOOSE k \in DOMAIN rt : rt[k] = [queue |-> from, pos |-> 1]
<1>10. from # "none" => head \in 1 .. Len(rt) /\ rt[head] = [queue |-> from, pos |-> 1]
  <2> SUFFICES ASSUME from # "none" PROVE head \in 1 .. Len(rt) /\ rt[head] = [queue |-> from, pos |-> 1]
    OBVIOUS
  <2>1. from \in Names /\ 1 \in 1 .. sz[from]
    BY <1>6, <1>8
  <2>2. \E k \in 1 .. Len(rt) : rt[k] = [queue |-> from, pos |-> 1]
    BY <1>7, <2>1 DEF Routed
  <2>3. DOMAIN rt = 1 .. Len(rt)
    BY <1>7 DEF Routed
  <2> QED
    BY <2>2, <2>3
<1> DEFINE less == [x \in Names |-> sz[x] - Flag(x = from)]
           n == Len(rt) - Flag(from # "none")
           K == Kept(rt, from, head)
<1>11. n = (IF from = "none" THEN Len(rt) ELSE Len(rt) - 1) /\ n \in Nat
  <2>1. Len(rt) \in Nat
    BY <1>7 DEF Routed
  <2>2. from # "none" => Len(rt) >= 1
    BY <1>10, <2>1
  <2>3. Flag(from # "none") = IF from = "none" THEN 0 ELSE 1
    BY DEF Flag
  <2> QED
    BY <2>1, <2>2, <2>3
<1> HIDE DEF head
<1>12. /\ Len(K) = n
       /\ \A k \in 1 .. n : Src(from, head, k) \in 1 .. Len(rt) /\ K[k] = Up(rt[Src(from, head, k)], from)
       /\ less \in [Names -> 0 .. Depth]
       /\ Routed(K, less)
  BY <1>6, <1>7, <1>8, <1>9, <1>10, KeptOK
<1>13. RouteCycle(c)
  BY DEF Cycle
<1>14. route' = IF to = "none" THEN K ELSE Append(K, [queue |-> to, pos |-> sz2[to]])
  <2>1. From(c) = IF readInorder(c) THEN "in" ELSE IF readSpeculative(c) THEN "sp" ELSE "none"
    BY DEF From
  <2>2. K = IF from = "none" THEN route
            ELSE [k \in 1 .. Len(route) - 1 |->
                   IF route[IF k < head THEN k ELSE k + 1].queue = from
                   THEN [route[IF k < head THEN k ELSE k + 1] EXCEPT !.pos = @ - 1]
                   ELSE route[IF k < head THEN k ELSE k + 1]]
    BY <1>1 DEF Kept, Up
  <2>3. head = CHOOSE k \in DOMAIN route : route[k] = [queue |-> from, pos |-> 1]
    BY <1>1 DEF head
  <2> HIDE DEF K
  <2>4. route' = IF toSpeculative # {}
                 THEN (IF spFull THEN K
                       ELSE Append(K, [queue |-> "sp", pos |-> speculativeQueue!occupancy']))
                 ELSE IF requestIn = {} \/ inFull THEN K
                 ELSE Append(K, [queue |-> "in", pos |-> inorderQueue!occupancy'])
    BY <1>4, <1>13, <2>1, <2>2, <2>3 DEF RouteCycle
  <2>5. requestIn # {} => ~inFull /\ ~spFull
    BY DropNothing
  <2>6. toSpeculative \subseteq requestIn
    BY Entrance
  <2>7. inorderQueue!occupancy' = sz2["in"] /\ speculativeQueue!occupancy' = sz2["sp"]
    BY <1>3 DEF inorderQueue!occupancy, speculativeQueue!occupancy, Occ, InQ, SpQ, inorderQueue!Dist,
       speculativeQueue!Dist, Sizes, QueueOf, Names
  <2> QED
    BY <1>5, <2>4, <2>5, <2>6, <2>7 DEF To
<1> HIDE DEF n, K, less
<1>15. Routed(route', sz2) /\ Len(route') = (IF to = "none" THEN n ELSE n + 1)
       /\ (\A k \in 1 .. n : route'[k] = K[k])
       /\ (to # "none" => route'[n + 1] = [queue |-> to, pos |-> sz2[to]])
  <2>1. \A x \in Names : less[x] = sz[x] - (IF from = x THEN 1 ELSE 0)
    BY DEF less, Flag
  <2>2. CASE to = "none"
    <3>1. \A x \in Names : sz2[x] = less[x]
      BY <1>8, <1>12, <2>1, <2>2 DEF Names
    <3>2. sz2 = less
      BY <1>7, <1>12, <3>1
    <3> QED
      BY <1>12, <1>14, <2>2, <3>2
  <2>3. CASE to # "none"
    <3>1. to \in Names /\ less[to] < Depth
      BY <1>6, <1>8, <1>12, <2>1, <2>3
    <3>2. \A x \in Names : sz2[x] = less[x] + Flag(x = to)
      BY <1>8, <1>12, <2>1 DEF Flag
    <3>3. sz2 = [x \in Names |-> less[x] + Flag(x = to)]
      BY <1>7, <3>2
    <3>4. PICK a : a = Append(K, [queue |-> to, pos |-> sz2[to]])
      OBVIOUS
    <3>5. /\ Len(a) = Len(K) + 1
          /\ \A k \in 1 .. Len(K) : a[k] = K[k]
          /\ a[Len(K) + 1] = [queue |-> to, pos |-> sz2[to]]
          /\ Routed(a, sz2)
      BY <1>12, <3>1, <3>3, <3>4, AppendOK
    <3>6. route' = a
      BY <1>14, <2>3, <3>4
    <3> QED
      BY <1>12, <2>3, <3>5, <3>6
  <2> QED
    BY <2>2, <2>3
<1>16. RouteTurn(c, head, n)
  <2>1. \A k \in 1 .. n : Src(from, head, k) \in 1 .. Len(rt) /\ route'[k] = Up(rt[Src(from, head, k)], from)
    BY <1>12, <1>15
  <2> QED
    BY <1>1, <1>3, <1>4, <1>5, <1>10, <1>11, <1>15, <2>1 DEF RouteTurn
<1> QED
  BY <1>16

(* Every request that stays ages where it is; what arrives comes last. *)
LEMMA HereStep ==
  ASSUME OInv, NEW c \in Inputs, Cycle(c), NEW h, NEW n, RouteTurn(c, h, n)
  PROVE  /\ \A k \in 1 .. n :
              /\ Src(From(c), h, k) \in 1 .. Len(route)
              /\ route'[k].queue = route[Src(From(c), h, k)].queue
              /\ Here(route[k])' = St(Here(route[Src(From(c), h, k)]), branchOps)
         /\ \A y \in Request : To # "none" /\ shadow[Shadow] = {y} =>
              route'[n + 1].queue = To /\ Here(route[n + 1])' = Mv(y, branchOps)
<1>0. Routed(route, Sizes) /\ Routed(route', Sizes')
  BY DEF OInv, RouteTurn
<1>1. ASSUME NEW k \in 1 .. n
      PROVE  /\ Src(From(c), h, k) \in 1 .. Len(route)
             /\ route'[k].queue = route[Src(From(c), h, k)].queue
             /\ Here(route[k])' = St(Here(route[Src(From(c), h, k)]), branchOps)
  <2>1. PICK j : j = Src(From(c), h, k)
    OBVIOUS
  <2>2. j \in 1 .. Len(route) /\ route'[k] = Up(route[j], From(c))
    BY <2>1 DEF RouteTurn
  <2>3. k \in 1 .. Len(route')
    BY DEF RouteTurn
  <2>4. PICK e : e = route[j]
    OBVIOUS
  <2>5. PICK e2 : e2 = route'[k]
    OBVIOUS
  <2>6. e \in Place /\ e2 \in Place /\ e.pos <= Sizes[e.queue] /\ e2 = Up(e, From(c))
    BY <1>0, <2>2, <2>3, <2>4, <2>5 DEF Routed
  <2>7. PICK x : x = e.queue
    OBVIOUS
  <2>8. PICK gone : gone = (IF From(c) = x THEN 1 ELSE 0)
    OBVIOUS
  <2>9. PICK new : new = (IF To = x THEN 1 ELSE 0)
    OBVIOUS
  <2>10. x \in Names /\ e2.queue = x /\ e2.pos = e.pos - gone /\ e.pos \in Nat /\ e2.pos \in Nat /\ e2.pos >= 1
    <3>1. CASE From(c) = x
      BY <2>6, <2>7, <2>8, <3>1 DEF Up, Place
    <3>2. CASE From(c) # x
      BY <2>6, <2>7, <2>8, <3>2 DEF Up, Place
    <3> QED
      BY <3>1, <3>2
  <2>11. /\ Occ(QueueOf(x)) \in 0 .. Depth
         /\ \A p \in 1 .. Occ(QueueOf(x)) - gone : Ent(QueueOf(x)', p) = St(Ent(QueueOf(x), p + gone), branchOps)
    BY <2>8, <2>9, <2>10, CycleFacts
  <2>12. Sizes[x] = Occ(QueueOf(x))
    BY <2>10 DEF Sizes
  <2>13. e2.pos \in 1 .. Occ(QueueOf(x)) - gone /\ e2.pos + gone = e.pos
    BY <2>6, <2>7, <2>8, <2>10, <2>11, <2>12
  <2>14. Ent(QueueOf(x)', e2.pos) = St(Ent(QueueOf(x), e.pos), branchOps)
    BY <2>11, <2>13
  <2>15. Here(route[k])' = Ent(QueueOf(x)', e2.pos)
    BY <2>5, <2>10 DEF Here, QueueOf
  <2>16. Here(route[j]) = Ent(QueueOf(x), e.pos)
    BY <2>4, <2>7 DEF Here
  <2>17. Here(route[k])' = St(Here(route[j]), branchOps)
    BY <2>14, <2>15, <2>16
  <2> QED
    BY <2>1, <2>2, <2>4, <2>5, <2>7, <2>10, <2>17
<1>2. ASSUME NEW y \in Request, To # "none", shadow[Shadow] = {y}
      PROVE  route'[n + 1].queue = To /\ Here(route[n + 1])' = Mv(y, branchOps)
  <2>1. PICK x : x = To
    OBVIOUS
  <2>2. x \in Names
    BY <1>2, <2>1, FromTo
  <2>3. route'[n + 1].queue = x /\ route'[n + 1].pos = Sizes'[x]
    BY <1>2, <2>1 DEF RouteTurn
  <2>4. Sizes'[x] = Occ(QueueOf(x)')
    BY <2>2, SizesStep
  <2>5. Here(route[n + 1])' = Ent(QueueOf(x)', Occ(QueueOf(x)'))
    BY <2>3, <2>4 DEF Here, QueueOf
  <2>6. PICK gone : gone = (IF From(c) = x THEN 1 ELSE 0)
    OBVIOUS
  <2>7. PICK new : new = (IF To = x THEN 1 ELSE 0)
    OBVIOUS
  <2>8. new = 1
    BY <2>1, <2>7
  <2>9. Ent(QueueOf(x)', Occ(QueueOf(x)')) = Mv(y, branchOps)
    BY <1>2, <2>2, <2>6, <2>7, <2>8, CycleFacts
  <2> QED
    BY <2>1, <2>3, <2>5, <2>9
<1> QED
  BY <1>1, <1>2

LEMMA OInvInit == Init => OInv
<1> SUFFICES ASSUME Init PROVE OInv
  OBVIOUS
<1>1. IInv
  BY IInvInit
<1>2. ASSUME NEW q, q = [rd |-> 0, wr |-> 0, e |-> TRUE, f |-> FALSE, mem |-> [i \in Ptr |-> {}]]
      PROVE  FullQ(q) /\ Occ(q) = 0
  <2>1. q.rd = 0 /\ q.wr = 0 /\ q.e = TRUE /\ q.f = FALSE /\ q.mem = [i \in Ptr |-> {}]
    BY <1>2
  <2>a. q.e /\ ~q.f /\ q.e \in BOOLEAN /\ q.f \in BOOLEAN
    BY <2>1
  <2>b. 0 \in Ptr
    BY DEF Ptr
  <2>2. Occ(q) = 0 /\ GoodQ(q)
    BY <2>1, <2>a, <2>b DEF Occ, GoodQ
  <2>3. {} \in Single
    BY DEF Single
  <2> QED
    BY <2>1, <2>2, <2>3 DEF FullQ
<1>3. InQ = [rd |-> 0, wr |-> 0, e |-> TRUE, f |-> FALSE, mem |-> [i \in Ptr |-> {}]]
  BY DEF Init, inorderQueue!Init, inorderQueue!Slots, Ptr, InQ
<1>4. SpQ = [rd |-> 0, wr |-> 0, e |-> TRUE, f |-> FALSE, mem |-> [i \in Ptr |-> {}]]
  BY DEF Init, speculativeQueue!Init, speculativeQueue!Slots, Ptr, SpQ
<1>5. FullQ(InQ) /\ FullQ(SpQ) /\ Occ(InQ) = 0 /\ Occ(SpQ) = 0
  BY <1>2, <1>3, <1>4
<1>6. shadow \in [1 .. Shadow -> AtMostOne(Request)] /\ branchOps \in inorderQueue!BranchOps
  BY DEF Init, AtMostOne, inorderQueue!BranchOps
<1>7. \A x \in Names : Sizes[x] = 0
  BY <1>5 DEF Sizes, QueueOf
<1>8. route = <<>> /\ Len(route) = 0 /\ 1 .. Len(route) = {}
  BY DEF Init
<1>9. Routed(route, Sizes)
  BY <1>7, <1>8 DEF Routed
<1>10. Apart
  BY <1>8 DEF Apart
<1> QED
  BY <1>1, <1>5, <1>6, <1>9, <1>10 DEF OInv

(* A load that goes to the speculative queue finds no in-order request to   *)
(* its dword, in whatever slot.                                             *)
LEMMA NoMatch ==
  ASSUME OInv, To = "sp", NEW y \in Request, shadow[Shadow] = {y}
  PROVE  /\ y.body.kind = "load"
         /\ \A k \in 1 .. Len(route) : route[k].queue = "in" => Here(route[k]).body.dword # y.body.dword
<1>1. requestIn = {Mv(y, branchOps)}
  BY DEF requestIn, Mv
<1>2. Mv(y, branchOps).body = y.body
  BY UpdateTypes
<1>3. Mv(y, branchOps) \in toSpeculative
  BY <1>1 DEF To, toSpeculative
<1>4. y.body.kind = "load" /\ ~matchFound(Mv(y, branchOps))
  BY <1>2, <1>3 DEF toSpeculative
<1>5. ASSUME NEW k \in 1 .. Len(route), route[k].queue = "in" PROVE Here(route[k]).body.dword # y.body.dword
  <2>1. PICK p : p = route[k].pos
    OBVIOUS
  <2>2. p \in 1 .. Occ(InQ)
    <3>1. route[k] \in Place /\ route[k].pos <= Sizes[route[k].queue]
      BY DEF OInv, Routed
    <3>2. Sizes["in"] = Occ(InQ)
      BY DEF Sizes, QueueOf, Names
    <3>3. Occ(InQ) \in Int
      BY DEF OInv, FullQ, GoodQ, Occ, Ptr
    <3> QED
      BY <1>5, <2>1, <3>1, <3>2, <3>3 DEF Place
  <2>3. At(InQ, p) \in Ptr /\ inMem[At(InQ, p)] = {Ent(InQ, p)}
    BY <2>2, AtRange, EntryOf DEF OInv, FullQ, InQ
  <2>4. DOMAIN inMem = Ptr
    BY DEF OInv, FullQ, InQ
  <2>5. Ent(InQ, p).body.dword # Mv(y, branchOps).body.dword
    BY <1>4, <2>3, <2>4 DEF matchFound
  <2> QED
    BY <1>2, <1>5, <2>1, <2>5 DEF Here, QueueOf
<1> QED
  BY <1>4, <1>5

LEMMA ApartStep ==
  ASSUME OInv, NEW c \in Inputs, Cycle(c), NEW h, NEW n, RouteTurn(c, h, n)
  PROVE  Apart'
<1>0. n \in Nat /\ Len(route) \in Nat /\ Len(route') = IF To = "none" THEN n ELSE n + 1
  BY DEF OInv, Routed, RouteTurn
<1>1. ASSUME NEW k \in 1 .. n
      PROVE  /\ Src(From(c), h, k) \in 1 .. Len(route)
             /\ route'[k].queue = route[Src(From(c), h, k)].queue
             /\ (Here(route[k])').body = Here(route[Src(From(c), h, k)]).body
  <2>1. PICK j : j = Src(From(c), h, k)
    OBVIOUS
  <2>2. j \in 1 .. Len(route) /\ route'[k].queue = route[j].queue
        /\ Here(route[k])' = St(Here(route[j]), branchOps)
    BY <2>1, HereStep
  <2>3. Here(route[j]) \in Request
    BY <2>2, WaitingIs
  <2> QED
    BY <2>1, <2>2, <2>3, UpdateTypes
<1>2. ASSUME NEW k \in 1 .. n, NEW l \in 1 .. n, k < l
      PROVE  Src(From(c), h, k) < Src(From(c), h, l)
  <2>1. CASE From(c) = "none"
    BY <1>0, <1>2, <2>1 DEF Src
  <2>2. CASE From(c) # "none"
    <3>1. h \in 1 .. Len(route)
      BY <2>2 DEF RouteTurn
    <3> QED
      BY <1>0, <1>2, <2>2, <3>1 DEF Src
  <2> QED
    BY <2>1, <2>2
<1>3. ASSUME To # "none"
      PROVE  \E y \in Request : /\ shadow[Shadow] = {y} /\ route'[n + 1].queue = To
                                /\ (Here(route[n + 1])').body = y.body
  <2>1. requestIn # {}
    BY <1>3, Entrance DEF To
  <2>2. PICK y \in Request : shadow[Shadow] = {y}
    BY <2>1, Entrance
  <2>3. route'[n + 1].queue = To /\ Here(route[n + 1])' = Mv(y, branchOps)
    BY <1>3, <2>2, HereStep
  <2> QED
    BY <2>2, <2>3, UpdateTypes
<1>4. \A k \in 1 .. Len(route') : k \in 1 .. n \/ (To # "none" /\ k = n + 1)
  BY <1>0
<1>5. ASSUME NEW k \in 1 .. Len(route'), route'[k].queue = "sp"
      PROVE  (Here(route[k])').body.kind = "load"
  <2>1. CASE k \in 1 .. n
    BY <1>1, <1>5, <2>1 DEF OInv, Apart
  <2>2. CASE To # "none" /\ k = n + 1
    BY <1>3, <1>5, <2>2, NoMatch
  <2> QED
    BY <1>4, <2>1, <2>2
<1>6. ASSUME NEW k \in 1 .. Len(route'), NEW l \in 1 .. Len(route'), k < l,
             route'[k].queue = "in", route'[l].queue = "sp"
      PROVE  (Here(route[k])').body.dword # (Here(route[l])').body.dword
  <2>1. CASE k \in 1 .. n /\ l \in 1 .. n
    BY <1>1, <1>2, <1>6, <2>1 DEF OInv, Apart
  <2>2. CASE k \in 1 .. n /\ To # "none" /\ l = n + 1
    BY <1>1, <1>3, <1>6, <2>2, NoMatch
  <2>3. k \in 1 .. n
    BY <1>0, <1>4, <1>6
  <2> QED
    BY <1>4, <2>1, <2>2, <2>3
<1> QED
  BY <1>5, <1>6 DEF Apart

LEMMA PipeTypes ==
  ASSUME OInv, NEW c \in Inputs, Cycle(c)
  PROVE  shadow' \in [1 .. Shadow -> AtMostOne(Request)] /\ branchOps' \in inorderQueue!BranchOps
<1>1. c.issue \in AtMostOne(Request)
  BY DEF Inputs, AtMostOne, Request, inorderQueue!Request
<1>2. ASSUME NEW S \in AtMostOne(Request) PROVE Advance(S) \in AtMostOne(Request)
  <2>1. CASE S = {}
    BY <2>1 DEF Advance, AtMostOne
  <2>2. CASE S # {}
    <3>1. PICK r \in Request : S = {r}
      BY <2>2 DEF AtMostOne
    <3>2. Advance(S) \in {{}, {Mv(r, branchOps)}}
      BY <3>1 DEF Advance, Mv
    <3> QED
      BY <3>2, UpdateTypes DEF AtMostOne
  <2> QED
    BY <2>1, <2>2
<1>3. shadow' = [k \in 1 .. Shadow |-> IF k = 1 THEN c.issue ELSE Advance(shadow[k - 1])]
  BY DEF Cycle, ShadowCycle
<1>4. \A k \in 1 .. Shadow : k # 1 => k - 1 \in 1 .. Shadow
  OBVIOUS
<1>5. \A k \in 1 .. Shadow : shadow[k] \in AtMostOne(Request)
  BY DEF OInv
<1> QED
  BY <1>1, <1>2, <1>3, <1>4, <1>5 DEF Cycle

LEMMA OInvStep == OInv /\ [Next]_vars => OInv'
<1> SUFFICES ASSUME OInv, [Next]_vars PROVE OInv'
  OBVIOUS
<1>1. IInv'
  BY IInvStep DEF OInv
<1>2. ASSUME NEW c \in Inputs, Cycle(c) PROVE OInv'
  <2>1. PICK h : \E n : RouteTurn(c, h, n)
    BY <1>2, RouteStep
  <2>2. PICK n : RouteTurn(c, h, n)
    BY <2>1
  <2>3. FullQ(QueueOf("in")') /\ FullQ(QueueOf("sp")')
    BY <1>2, SizesStep DEF Names
  <2>4. FullQ(InQ)' /\ FullQ(SpQ)'
    BY <2>3 DEF QueueOf
  <2>5. Routed(route', Sizes')
    BY <2>2 DEF RouteTurn
  <2>6. Apart'
    BY <1>2, <2>2, ApartStep
  <2>7. (shadow \in [1 .. Shadow -> AtMostOne(Request)] /\ branchOps \in inorderQueue!BranchOps)'
    BY <1>2, PipeTypes DEF AtMostOne, Request, inorderQueue!Request, inorderQueue!BranchOps
  <2>8. Routed(route, Sizes)'
    BY <2>5
  <2> QED
    BY <1>1, <2>4, <2>6, <2>7, <2>8 DEF OInv
<1>3. CASE UNCHANGED vars
  <2>1. InQ' = InQ /\ SpQ' = SpQ /\ UNCHANGED <<shadow, branchOps, route>>
    BY <1>3 DEF vars, InQ, SpQ
  <2>2. Sizes' = Sizes
    BY <2>1 DEF Sizes, QueueOf
  <2>3. Routed(route, Sizes)'
    BY <2>1, <2>2 DEF OInv
  <2>4. Apart'
    BY <2>1 DEF OInv, Apart, Here, QueueOf
  <2>5. FullQ(InQ)' /\ FullQ(SpQ)'
    BY <2>1 DEF OInv
  <2> QED
    BY <1>1, <2>1, <2>3, <2>4, <2>5 DEF OInv, AtMostOne, Request, inorderQueue!Request, inorderQueue!BranchOps
<1> QED
  BY <1>2, <1>3 DEF Next

(***************************************************************************)
(* The step of RequestOrder.                                               *)
(***************************************************************************)
LEMMA RemoveAtIs ==
  ASSUME NEW S, NEW s \in Seq(S), NEW i \in 1 .. Len(s)
  PROVE  /\ Order!RemoveAt(s, i) \in Seq(S) /\ Len(Order!RemoveAt(s, i)) = Len(s) - 1
         /\ \A k \in 1 .. Len(s) - 1 : Order!RemoveAt(s, i)[k] = s[IF k < i THEN k ELSE k + 1]
<1>0. Len(s) \in Nat /\ \A k \in 1 .. Len(s) : s[k] \in S
  OBVIOUS
<1>1. PICK a : a = SubSeq(s, 1, i - 1)
  OBVIOUS
<1>2. PICK b : b = SubSeq(s, i + 1, Len(s))
  OBVIOUS
<1>3. a \in Seq(S) /\ Len(a) = i - 1 /\ \A k \in 1 .. i - 1 : a[k] = s[k]
  BY <1>0, <1>1, SubSeqProperties
<1>4. b \in Seq(S) /\ Len(b) = Len(s) - i /\ \A k \in 1 .. Len(s) - i : b[k] = s[i + k]
  BY <1>0, <1>2, SubSeqProperties
<1>5. PICK c : c = a \o b
  OBVIOUS
<1>6. Order!RemoveAt(s, i) = c
  BY <1>1, <1>2, <1>5 DEF Order!RemoveAt
<1>7. /\ c \in Seq(S) /\ Len(c) = Len(a) + Len(b)
      /\ \A k \in 1 .. Len(a) + Len(b) : c[k] = IF k <= Len(a) THEN a[k] ELSE b[k - Len(a)]
  BY <1>3, <1>4, <1>5, ConcatProperties
<1>8. ASSUME NEW k \in 1 .. Len(s) - 1 PROVE c[k] = s[IF k < i THEN k ELSE k + 1]
  <2>1. k \in 1 .. Len(a) + Len(b) /\ (k <= Len(a) <=> k < i)
    BY <1>0, <1>3, <1>4
  <2>2. CASE k < i
    BY <1>0, <1>3, <1>7, <2>1, <2>2
  <2>3. CASE ~(k < i)
    <3>1. k - Len(a) \in 1 .. Len(s) - i /\ i + (k - Len(a)) = k + 1
      BY <1>0, <1>3, <2>3
    <3> QED
      BY <1>4, <1>7, <2>1, <2>3, <3>1
  <2> QED
    BY <2>2, <2>3
<1> QED
  BY <1>0, <1>3, <1>4, <1>6, <1>7, <1>8

(* A list made of aged requests and at most one more. *)
LEMMA ListIs ==
  ASSUME NEW S, NEW K \in Seq(S), NEW new \in Seq(S), Len(new) <= 1,
         NEW L \in Seq(S), Len(L) = Len(K) + Len(new),
         \A k \in 1 .. Len(K) : L[k] = K[k], Len(new) = 1 => L[Len(K) + 1] = new[1]
  PROVE  L = K \o new
<1>1. PICK c : c = K \o new
  OBVIOUS
<1>2. /\ c \in Seq(S) /\ Len(c) = Len(K) + Len(new)
      /\ \A k \in 1 .. Len(K) + Len(new) : c[k] = IF k <= Len(K) THEN K[k] ELSE new[k - Len(K)]
  BY <1>1, ConcatProperties
<1>3. Len(K) \in Nat /\ Len(new) \in Nat
  OBVIOUS
<1>4. ASSUME NEW k \in 1 .. Len(L) PROVE L[k] = c[k]
  <2>1. CASE k <= Len(K)
    BY <1>2, <1>3, <2>1
  <2>2. CASE k > Len(K)
    <3>a. PICK a \in Nat : a = Len(K)
      BY <1>3
    <3>b. PICK b \in Nat : b = Len(new)
      BY <1>3
    <3>c. k \in 1 .. a + b /\ b <= 1 /\ k > a
      BY <2>2, <3>a, <3>b
    <3>d. b = 1 /\ k = a + 1 /\ k - a = 1
      BY <3>c
    <3>1. Len(new) = 1 /\ k = Len(K) + 1 /\ k - Len(K) = 1
      BY <3>a, <3>b, <3>d
    <3> QED
      BY <1>2, <1>3, <2>2, <3>1
  <2> QED
    BY <1>3, <2>1, <2>2
<1> QED
  BY <1>1, <1>2, <1>4, SeqEqual

(* What leaves may leave. *)
LEMMA HeadMayLeave ==
  ASSUME OInv, NEW c \in Inputs, NEW h \in 1 .. Len(route), From(c) # "none",
         route[h] = [queue |-> From(c), pos |-> 1], From(c) = "sp" => Occ(SpQ) >= 1,
         From(c) = "in" => Occ(InQ) >= 1
  PROVE  Order!MayLeave(h)
<1> DEFINE L == [k \in DOMAIN route |-> Waiting(route[k])]
<1>0. Routed(route, Sizes) /\ DOMAIN route = 1 .. Len(route) /\ Len(route) \in Nat
  BY DEF OInv, Routed
<1>1. \A k \in 1 .. Len(route) : L[k] = Canon(Here(route[k])) /\ L[k].body = Here(route[k]).body
  <2> TAKE k \in 1 .. Len(route)
  <2>1. L[k] = Waiting(route[k])
    BY <1>0
  <2>2. Waiting(route[k]) = Canon(Here(route[k])) /\ Here(route[k]) \in Request
    BY WaitingIs
  <2> QED
    BY <2>1, <2>2, AgedIs DEF OInv
<1>2. Apart
  BY DEF OInv
<1>3. From(c) \in {"in", "sp"} /\ route[h].queue = From(c) /\ route[h].pos = 1
  BY FromTo DEF Names
<1>4. ASSUME NEW j \in 1 .. h - 1, L[j].body.kind = "op"
      PROVE  L[h].body.kind = "load" /\ L[j].body.dword # L[h].body.dword
  <2>1. j \in 1 .. Len(route) /\ j < h
    BY <1>0
  <2>2. route[j] \in Place
    BY <1>0, <2>1 DEF Routed
  <2>3. route[j].queue = "in"
    BY <1>1, <1>2, <1>4, <2>1, <2>2 DEF Apart, Place, Names
  <2>4. From(c) # "in"
    <3>1. route[j].queue = route[h].queue => route[j].pos < route[h].pos
      BY <1>0, <2>1 DEF Routed
    <3>2. route[j].pos >= 1 /\ route[j].pos \in Nat
      BY <2>2 DEF Place
    <3> QED
      BY <1>3, <2>3, <3>1, <3>2
  <2>5. route[h].queue = "sp"
    BY <1>3, <2>4
  <2>6. Here(route[h]).body.kind = "load" /\ Here(route[j]).body.dword # Here(route[h]).body.dword
    BY <1>2, <2>1, <2>3, <2>5 DEF Apart
  <2> HIDE DEF L
  <2> QED
    BY <1>1, <2>1, <2>6
<1>5. ASSUME L[h].body.kind = "op" PROVE Order!Aged(L[h]).mask = {}
  <2>1. From(c) = "in"
    BY <1>1, <1>2, <1>3, <1>5 DEF Apart
  <2>2. 1 \in 1 .. Occ(InQ)
    <3>1. Occ(InQ) \in Int
      BY DEF OInv, FullQ, GoodQ, Occ, Ptr
    <3> QED
      BY <2>1, <3>1
  <2>3. PICK r : r = Ent(InQ, 1)
    OBVIOUS
  <2>4. Here(route[h]) = r
    BY <1>3, <2>1, <2>3 DEF Here, QueueOf
  <2>5. r \in Request /\ inMem[At(InQ, 1)] = {r}
    BY <2>2, <2>3, EntryOf DEF OInv, InQ
  <2>6. At(InQ, 1) = inRead
    BY DEF At, OInv, FullQ, GoodQ, InQ, Ptr
  <2>7. inorderGoes
    BY <2>1 DEF From, readInorder
  <2>8. Mv(r, branchOps).mask = {} \/ ~Mv(r, branchOps).live
    BY <2>5, <2>6, <2>7 DEF inorderGoes, MayGo, inorderQueue!readData, Mv
  <2>9. Mv(r, branchOps) \in Request
    BY <2>5, UpdateTypes
  <2>10. Canon(Mv(r, branchOps)).mask = {}
    BY <2>8, <2>9 DEF Canon, Request, inorderQueue!Request
  <2>11. L[h] = Canon(r)
    BY <1>1, <2>4
  <2>12. Order!Aged(Canon(r)) = Canon(Mv(r, branchOps))
    BY <2>5, AgedIs DEF OInv
  <2> QED
    BY <2>10, <2>11, <2>12
<1> QED
  BY <1>4, <1>5 DEF Order!MayLeave

(* The waiting requests of both queues, in the order of their arrival. *)
WaitingList == [k \in DOMAIN route |-> Waiting(route[k])]

LEMMA ListFacts ==
  OInv => /\ WaitingList \in Seq(Request) /\ Len(WaitingList) = Len(route)
          /\ \A k \in 1 .. Len(route) : WaitingList[k] = Canon(Here(route[k]))
<1> SUFFICES ASSUME OInv
             PROVE  /\ WaitingList \in Seq(Request) /\ Len(WaitingList) = Len(route)
                    /\ \A k \in 1 .. Len(route) : WaitingList[k] = Canon(Here(route[k]))
  OBVIOUS
<1>1. DOMAIN route = 1 .. Len(route) /\ Len(route) \in Nat
  BY DEF OInv, Routed
<1>2. \A k \in 1 .. Len(route) : Waiting(route[k]) = Canon(Here(route[k])) /\ Canon(Here(route[k])) \in Request
  BY WaitingIs, AgedIs DEF OInv
<1>3. WaitingList = [k \in 1 .. Len(route) |-> Waiting(route[k])]
  BY <1>1 DEF WaitingList
<1> QED
  BY <1>1, <1>2, <1>3

LEMMA ListFactsNext ==
  OInv' => (/\ WaitingList \in Seq(Request) /\ Len(WaitingList) = Len(route)
            /\ \A k \in 1 .. Len(route) : WaitingList[k] = Canon(Here(route[k])))'
  BY ListFacts, PTL

(* Aging keeps the type. *)
LEMMA AgedType ==
  ASSUME NEW r \in Request, branchOps \in inorderQueue!BranchOps
  PROVE  Order!Aged(r) \in Request
<1>1. Mv(r, branchOps) \in Request
  BY UpdateTypes
<1> QED
  BY <1>1, AgedIs

(* The requests that stay and what arrives make up the next list. *)
LEMMA OrderStep ==
  ASSUME OInv, OInv', NEW c \in Inputs, Cycle(c), NEW h, NEW n, RouteTurn(c, h, n),
         NEW K \in Seq(Request), Len(K) = n,
         \A k \in 1 .. n : K[k] = WaitingList[Src(From(c), h, k)]
  PROVE  Order!Step(K)
<1>1. PICK L2 : L2 = WaitingList'
  OBVIOUS
<1>2. PICK A : A = Order!AgedList(K)
  OBVIOUS
<1>3. PICK N : N = IF shadow[Shadow] = {} THEN <<>> ELSE <<Order!Aged(CHOOSE r \in shadow[Shadow] : TRUE)>>
  OBVIOUS
<1>4. branchOps \in inorderQueue!BranchOps /\ shadow[Shadow] \in AtMostOne(Request) /\ n \in Nat
  BY DEF OInv, RouteTurn
<1>5. A \in Seq(Request) /\ Len(A) = n /\ \A k \in 1 .. n : A[k] = Order!Aged(K[k])
  <2>1. A = [k \in 1 .. n |-> Order!Aged(K[k])]
    BY <1>2 DEF Order!AgedList
  <2>2. \A k \in 1 .. n : Order!Aged(K[k]) \in Request
    BY <1>4, AgedType
  <2> QED
    BY <1>4, <2>1, <2>2
<1>6. ASSUME NEW k \in 1 .. n PROVE L2[k] = A[k]
  <2>1. PICK j : j = Src(From(c), h, k)
    OBVIOUS
  <2>2. PICK r : r = Here(route[j])
    OBVIOUS
  <2>3. j \in 1 .. Len(route) /\ Here(route[k])' = St(r, branchOps)
    BY <2>1, <2>2, HereStep
  <2>4. r \in Request
    BY <2>2, <2>3, WaitingIs
  <2>5. k \in 1 .. Len(route')
    BY DEF RouteTurn
  <2>6. L2[k] = Canon(St(r, branchOps))
    BY <1>1, <2>3, <2>5, ListFactsNext DEF Canon
  <2>7. K[k] = Canon(r)
    BY <2>1, <2>2, <2>3, ListFacts
  <2> QED
    BY <1>4, <1>5, <2>4, <2>6, <2>7, AgedIs
<1>7. To = "none" <=> shadow[Shadow] = {}
  <2>1. requestIn = {} <=> shadow[Shadow] = {}
    BY DEF requestIn
  <2> QED
    BY <2>1, Entrance DEF To
<1>8. /\ N \in Seq(Request) /\ Len(N) = (IF To = "none" THEN 0 ELSE 1)
      /\ To # "none" => L2[n + 1] = N[1]
  <2>1. CASE To = "none"
    BY <1>3, <1>7, <2>1
  <2>2. CASE To # "none"
    <3>1. PICK y \in Request : shadow[Shadow] = {y}
      BY <1>4, <1>7, <2>2 DEF AtMostOne
    <3>2. N = <<Order!Aged(y)>> /\ Order!Aged(y) \in Request
      BY <1>3, <1>4, <3>1, AgedType
    <3>3. Here(route[n + 1])' = Mv(y, branchOps)
      BY <2>2, <3>1, HereStep
    <3>4. n + 1 \in 1 .. Len(route')
      BY <1>4, <2>2 DEF RouteTurn
    <3>5. L2[n + 1] = Canon(Mv(y, branchOps))
      BY <1>1, <3>3, <3>4, ListFactsNext DEF Canon
    <3>6. L2[n + 1] = Order!Aged(y)
      BY <1>4, <3>5, AgedIs
    <3> QED
      BY <2>2, <3>2, <3>6
  <2> QED
    BY <2>1, <2>2
<1>9. L2 \in Seq(Request) /\ Len(L2) = IF To = "none" THEN n ELSE n + 1
  <2>1. Request' = Request
    BY DEF Request, inorderQueue!Request
  <2> QED
    BY <1>1, <2>1, ListFactsNext DEF RouteTurn
<1>10. L2 = A \o N
  <2>1. Len(N) <= 1 /\ Len(L2) = Len(A) + Len(N) /\ (Len(N) = 1 => L2[Len(A) + 1] = N[1])
    BY <1>4, <1>5, <1>8, <1>9
  <2> QED
    BY <1>5, <1>6, <1>8, <1>9, <2>1, ListIs
<1>11. shadow'[Shadow] \in AtMostOne(Request) /\ branchOps' \in inorderQueue!BranchOps
  BY PipeTypes
<1>12. AtMostOne(Request) = {{}} \cup {{r} : r \in Order!Request}
  BY DEF AtMostOne, Request, inorderQueue!Request, Order!Request, Order!Body, Body
<1>13. WaitingList' = [k \in DOMAIN route |-> Waiting(route[k])]'
  BY DEF WaitingList
<1> QED
  BY <1>1, <1>2, <1>3, <1>10, <1>11, <1>12, <1>13 DEF Order!Step, inorderQueue!BranchOps

LEMMA CycleIsOrdered ==
  ASSUME OInv, OInv', NEW c \in Inputs, Cycle(c)
  PROVE  Order!Next
<1>1. PICK h : \E n : RouteTurn(c, h, n)
  BY RouteStep
<1>2. PICK n : RouteTurn(c, h, n)
  BY <1>1
<1>3. /\ WaitingList \in Seq(Request) /\ Len(WaitingList) = Len(route)
      /\ WaitingList = [k \in DOMAIN route |-> Waiting(route[k])]
  BY ListFacts DEF WaitingList
<1>4. CASE From(c) = "none"
  <2>1. n = Len(route) /\ \A k \in 1 .. n : Src(From(c), h, k) = k
    BY <1>2, <1>4 DEF RouteTurn, Src
  <2>2. Order!Step(WaitingList)
    BY <1>2, <1>3, <2>1, OrderStep
  <2> QED
    BY <1>3, <2>2 DEF Order!Next
<1>5. CASE From(c) # "none"
  <2>1. /\ h \in 1 .. Len(route) /\ route[h] = [queue |-> From(c), pos |-> 1]
        /\ n = Len(route) - 1 /\ n \in Nat
    BY <1>2, <1>5 DEF RouteTurn
  <2>2. PICK K : K = Order!RemoveAt(WaitingList, h)
    OBVIOUS
  <2>3. PICK L : L = WaitingList
    OBVIOUS
  <2>4. L \in Seq(Request) /\ h \in 1 .. Len(L) /\ K = Order!RemoveAt(L, h)
    BY <1>3, <2>1, <2>2, <2>3
  <2>5. /\ K \in Seq(Request) /\ Len(K) = Len(L) - 1
        /\ \A k \in 1 .. Len(L) - 1 : K[k] = L[IF k < h THEN k ELSE k + 1]
    BY <2>4, RemoveAtIs
  <2>6. \A k \in 1 .. n : K[k] = WaitingList[Src(From(c), h, k)]
    BY <1>3, <1>5, <2>1, <2>3, <2>5 DEF Src
  <2>7. Order!Step(K)
    BY <1>2, <1>3, <2>1, <2>3, <2>5, <2>6, OrderStep
  <2>8. Order!MayLeave(h)
    <3>1. From(c) \in Names
      BY <1>5, FromTo
    <3>2. Sizes[From(c)] >= 1
      BY <3>1, SizesStep
    <3>3. (From(c) = "sp" => Occ(SpQ) >= 1) /\ (From(c) = "in" => Occ(InQ) >= 1)
      BY <3>1, <3>2 DEF Sizes, QueueOf, Names
    <3> QED
      BY <1>5, <2>1, <3>3, HeadMayLeave
  <2>9. h \in DOMAIN WaitingList
    BY <2>3, <2>4
  <2> QED
    BY <1>3, <2>2, <2>7, <2>8, <2>9 DEF Order!Next
<1> QED
  BY <1>4, <1>5

LEMMA OInvTypes == OInv => TypeOK
<1> SUFFICES ASSUME OInv PROVE TypeOK
  OBVIOUS
<1>1. inorderQueue!FifoTypeOK
  BY DEF OInv, FullQ, GoodQ, InQ, inorderQueue!FifoTypeOK, inorderQueue!Slots, Ptr, Single, Request
<1>2. speculativeQueue!FifoTypeOK
  BY DEF OInv, FullQ, GoodQ, SpQ, speculativeQueue!FifoTypeOK, speculativeQueue!Slots, Ptr, Single,
     Request, inorderQueue!Request, speculativeQueue!Request
<1>3. route \in Seq([queue : {"in", "sp"}, pos : 1 .. Depth])
  BY DEF OInv, Routed, Place, Names
<1> QED
  BY <1>1, <1>2, <1>3 DEF TypeOK, OInv

(* The two queues of requestScheduler.scala are one list by arrival, for    *)
(* every depth, reserve and number of registers in front of them: nothing   *)
(* is lost, no load passes an older op to its dword, ops leave in order and *)
(* only when no branch can undo them, and a failed branch marks exactly the *)
(* requests that depend on it.  The registers keep their types.             *)
THEOREM RequestsImplementOrder == Spec => ImplementsOrder
<1>1. Init => Order!Init
  <2> SUFFICES ASSUME Init PROVE Order!Init
    OBVIOUS
  <2>1. route = <<>> /\ shadow[Shadow] = {} /\ branchOps = {}
    BY DEF Init
  <2>2. [k \in DOMAIN route |-> Waiting(route[k])] = <<>>
    BY <2>1
  <2> QED
    BY <2>1, <2>2 DEF Order!Init
<1>2. OInv /\ OInv' /\ [Next]_vars => [Order!Next]_(Order!orderVars)
  <2> SUFFICES ASSUME OInv, OInv', [Next]_vars PROVE [Order!Next]_(Order!orderVars)
    OBVIOUS
  <2>1. ASSUME NEW c \in Inputs, Cycle(c) PROVE Order!Next
    BY <2>1, CycleIsOrdered
  <2>2. CASE UNCHANGED vars
    BY <2>2 DEF vars, Order!orderVars, Waiting, inorderQueue!Window, speculativeQueue!Window,
       inorderQueue!occupancy, speculativeQueue!occupancy
  <2> QED
    BY <2>1, <2>2 DEF Next
<1> QED
  BY <1>1, <1>2, OInvInit, OInvStep, OInvTypes, PTL DEF Spec, ImplementsOrder, Order!Spec
=============================================================================
