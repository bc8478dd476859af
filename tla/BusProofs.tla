----------------------------- MODULE BusProofs -----------------------------
(***************************************************************************)
(* For any number of ports, beats and queue entries: the arbiter and its   *)
(* ring buffer give the coherency unit the queue that BusOrder describes,  *)
(* and a cache that sees a word accepted finds it in that queue.           *)
(***************************************************************************)
EXTENDS BusArbiter, FiniteSetTheorems, TLAPS

USE ArbiterAssumption

-----------------------------------------------------------------------------
(***************************************************************************)
(* The inductive invariant.                                                *)
(***************************************************************************)

(* Equal pointers mean full or empty, and never both. *)
RingOK == /\ fullReg \/ emptyReg <=> readReg = writeReg
          /\ ~(fullReg /\ emptyReg)

(* How many words the ring buffer holds, and where the k-th one after the   *)
(* first is.                                                                *)
Count == IF fullReg THEN QueueDepth ELSE (writeReg - readReg) % QueueDepth
After(p, k) == (p + k) % QueueDepth

(* Every entry between the pointers holds a word. *)
WordsPresent == \A k \in 0 .. Count - 1 : mem[After(readReg, k)] # {}

(* Room was looked at a cycle ago, and nothing has been enqueued since. *)
RoomToEnqueue == phase \in {"r_enq", "wa_enq", "wd_enq"} => ~fullReg

(* What the arbiter saw when it polled the port is still so: a request      *)
(* stays up until it is granted, and only the port that has the turn is.    *)
TurnHolds ==
  /\ phase \in {"r", "r_enq"} => ARVALID(port)
  /\ phase \in {"wa", "wa_enq"} => AWVALID(port)
  /\ phase \in {"wd", "wd_enq"} => WVALID(port)
  /\ phase = "wd_enq" => (wlast <=> sent[port] = Beats - 1)

(* A channel holds a request of its own port. *)
OwnRequests == \A p \in Ports : \A i \in rd[p] : i.port = p

(* A line that is not yet accepted is sent from its first beat. *)
CountersReset == \A p \in Ports : wr[p] \in {"loaded", "request"} => sent[p] = 0

IInv == TypeOK /\ RingOK /\ WordsPresent /\ RoomToEnqueue /\ TurnHolds /\ OwnRequests
        /\ CountersReset

-----------------------------------------------------------------------------
(* The sizes are positive numbers. *)
LEMMA Sizes == /\ Beats \in Nat /\ Beats >= 1
               /\ QueueDepth \in Nat /\ QueueDepth >= 1
  OBVIOUS

(* The ports are 0 to one less than their number. *)
LEMMA PortNumbers == /\ Cardinality(Ports) \in Nat /\ Cardinality(Ports) >= 1
                     /\ Ports = 0 .. Cardinality(Ports) - 1
<1>1. Cardinality(Ports) \in Nat
  BY PortsAssumption, FS_CardinalityType
<1>2. Cardinality(Ports) # 0
  BY PortsAssumption, FS_EmptySet
<1>3. QED
  BY <1>1, <1>2, PortsAssumption

(* Round robin stays among the ports. *)
LEMMA NextPortType == ASSUME port \in Ports PROVE nextPort \in Ports
<1> DEFINE N == Cardinality(Ports)
<1>1. N \in Nat /\ N >= 1 /\ Ports = 0 .. N - 1
  BY PortNumbers
<1> HIDE DEF N
<1>2. (port + 1) % N \in 0 .. N - 1
  BY <1>1
<1>3. QED
  BY <1>1, <1>2 DEF nextPort, N

(* A set without two different elements has at most one. *)
LEMMA AtMostOne == ASSUME NEW S, \A x, y \in S : x = y
                   PROVE  Cardinality(S) <= 1 /\ IsFiniteSet(S)
<1>1. CASE S = {}
  BY <1>1, FS_EmptySet
<1>2. CASE S # {}
  <2>1. PICK x \in S : S = {x}
    BY <1>2
  <2>2. Cardinality({x}) = 1 /\ IsFiniteSet({x})
    BY FS_Singleton
  <2>3. QED
    BY <2>1, <2>2
<1>3. QED
  BY <1>1, <1>2

(* What a cycle's wires may carry: one read and one eviction of a port.     *)
LEMMA InputFacts ==
  ASSUME NEW in \in Inputs
  PROVE  /\ in.reads \subseteq Request
         /\ \A i, j \in in.reads : i.port = j.port => i = j
         /\ in.writes \subseteq WriteBacks
         /\ in.deq \in BOOLEAN
  BY DEF Inputs, OnePerPort

(* Pointers of the ring buffer. *)
LEMMA NextPtrType == \A p \in 0 .. QueueDepth - 1 : NextPtr(p) \in 0 .. QueueDepth - 1
  BY Sizes DEF NextPtr

LEMMA NextPtrInjective ==
  \A p, r \in 0 .. QueueDepth - 1 : NextPtr(p) = NextPtr(r) => p = r
  BY Sizes DEF NextPtr

(* Counting from a pointer: the remainder is one subtraction. *)
LEMMA AfterValue ==
  \A p \in 0 .. QueueDepth - 1 : \A k \in 0 .. QueueDepth :
     After(p, k) = IF p + k < QueueDepth THEN p + k ELSE p + k - QueueDepth
  BY Sizes DEF After

LEMMA AfterType ==
  \A p \in 0 .. QueueDepth - 1 : \A k \in 0 .. QueueDepth : After(p, k) \in 0 .. QueueDepth - 1
  BY Sizes, AfterValue

LEMMA AfterInjective ==
  \A p \in 0 .. QueueDepth - 1 : \A j, k \in 0 .. QueueDepth - 1 :
     After(p, j) = After(p, k) => j = k
  BY Sizes, AfterValue

LEMMA AfterInjective1 ==
  \A p \in 0 .. QueueDepth - 1 : \A j, k \in 1 .. QueueDepth :
     After(p, j) = After(p, k) => j = k
  BY Sizes, AfterValue

LEMMA AfterNext ==
  \A p \in 0 .. QueueDepth - 1 : \A k \in 0 .. QueueDepth - 1 :
     After(NextPtr(p), k) = After(p, k + 1) /\ NextPtr(After(p, k)) = After(p, k + 1)
  BY Sizes, AfterValue, NextPtrType DEF NextPtr

(* The number of words, the flags and the distance of the pointers agree. *)
LEMMA CountFacts ==
  ASSUME TypeOK, RingOK
  PROVE  /\ Count \in 0 .. QueueDepth
         /\ emptyReg <=> Count = 0
         /\ fullReg <=> Count = QueueDepth
         /\ writeReg = After(readReg, Count)
<1>1. /\ readReg \in 0 .. QueueDepth - 1 /\ writeReg \in 0 .. QueueDepth - 1
      /\ fullReg \in BOOLEAN /\ emptyReg \in BOOLEAN
  BY DEF TypeOK
<1>2. (writeReg - readReg) % QueueDepth
         = IF writeReg >= readReg THEN writeReg - readReg ELSE writeReg - readReg + QueueDepth
  BY <1>1, Sizes
<1>3. Count = IF fullReg THEN QueueDepth
              ELSE IF writeReg >= readReg THEN writeReg - readReg
              ELSE writeReg - readReg + QueueDepth
  BY <1>2 DEF Count
<1>4. Count \in 0 .. QueueDepth
  BY <1>1, <1>3, Sizes
<1>5. writeReg = After(readReg, Count)
  <2>1. After(readReg, Count) = IF readReg + Count < QueueDepth THEN readReg + Count
                                ELSE readReg + Count - QueueDepth
    BY <1>1, <1>4, AfterValue
  <2>2. CASE fullReg
    BY <1>1, <1>3, <2>1, <2>2, Sizes DEF RingOK
  <2>3. CASE ~fullReg
    BY <1>1, <1>3, <2>1, <2>3, Sizes
  <2>4. QED
    BY <2>2, <2>3
<1>6. QED
  BY <1>1, <1>3, <1>4, <1>5, Sizes DEF RingOK
-----------------------------------------------------------------------------
(***************************************************************************)
(* One cycle keeps the invariant, part by part.                            *)
(***************************************************************************)

(* Request channels hold at most one request. *)
LEMMA ReadType ==
  ASSUME TypeOK, NEW in \in Inputs, Channels(in)
  PROVE  rd' \in [Ports -> SUBSET Request] /\ \A p \in Ports : Cardinality(rd'[p]) <= 1
<1> SUFFICES ASSUME NEW p \in Ports
             PROVE  Read(p, in) \in SUBSET Request /\ Cardinality(Read(p, in)) <= 1
  BY DEF Channels
<1>1. CASE rd[p] = {}
  <2>1. \A x, y \in Read(p, in) : x = y
    BY <1>1, InputFacts DEF Read
  <2>2. Cardinality(Read(p, in)) <= 1
    BY <2>1, AtMostOne
  <2>3. QED
    BY <1>1, <2>2, InputFacts DEF Read
<1>2. CASE rd[p] # {} /\ grantsAR(p)
  BY <1>2, FS_EmptySet DEF Read
<1>3. CASE rd[p] # {} /\ ~grantsAR(p)
  BY <1>3 DEF Read, TypeOK
<1>4. QED
  BY <1>1, <1>2, <1>3

(* Write channels. *)
LEMMA WriteType ==
  ASSUME TypeOK, NEW in \in Inputs, Channels(in)
  PROVE  /\ wr' \in [Ports -> {"idle", "loaded", "request", "data", "response"}]
         /\ wrLine' \in [Ports -> Lines] /\ sent' \in [Ports -> 0 .. Beats - 1]
<1>1. \A p \in Ports : Write(p, in) \in {"idle", "loaded", "request", "data", "response"}
  BY DEF Write, TypeOK
<1>2. ASSUME NEW p \in Ports PROVE sent'[p] \in 0 .. Beats - 1
  <2>1. sent[p] \in 0 .. Beats - 1 /\ 0 \in 0 .. Beats - 1
    BY Sizes DEF TypeOK
  <2>2. (sent[p] + 1) % Beats \in 0 .. Beats - 1
    BY <2>1, Sizes
  <2>3. QED
    BY <2>1, <2>2 DEF Channels
<1>3. ASSUME NEW p \in Ports PROVE wrLine'[p] \in Lines
  <2>1. (\E w \in in.writes : w.port = p)
           => (CHOOSE w \in in.writes : w.port = p) \in in.writes
    OBVIOUS
  <2>2. (\E w \in in.writes : w.port = p)
           => (CHOOSE w \in in.writes : w.port = p).line \in Lines
    BY <2>1, InputFacts DEF WriteBacks
  <2>3. wrLine[p] \in Lines
    BY DEF TypeOK
  <2>4. QED
    BY <2>2, <2>3 DEF Channels
<1>4. QED
  BY <1>1, <1>2, <1>3 DEF Channels

(* The arbiter. *)
LEMMA ArbiterType ==
  ASSUME TypeOK, NEW in \in Inputs, Arbiter(in)
  PROVE  /\ port' \in Ports /\ wlast' \in BOOLEAN
         /\ phase' \in {"poll", "r", "r_enq", "wa", "wa_enq", "wd", "wd_enq"}
<1>1. port' \in Ports
  BY NextPortType DEF Arbiter, TypeOK
<1>2. wlast' \in BOOLEAN
  BY DEF Arbiter, TypeOK, WLAST
<1>3. phase' \in {"poll", "r", "r_enq", "wa", "wa_enq", "wd", "wd_enq"}
  BY DEF Arbiter, TypeOK
<1>4. QED
  BY <1>1, <1>2, <1>3

(* What is enqueued is a word of the queue. *)
LEMMA EnqItem == ASSUME TypeOK PROVE enqBits(port) \in SUBSET Item
<1>1. port \in Ports /\ rd[port] \subseteq Request /\ wrLine[port] \in Lines
  BY DEF TypeOK
<1>2. WLAST(port) \in BOOLEAN
  BY DEF WLAST
<1>3. QED
  BY <1>1, <1>2 DEF enqBits, Item, WriteBacks

(* The ring buffer. *)
LEMMA RingType ==
  ASSUME TypeOK, NEW in \in Inputs, Ring(in)
  PROVE  /\ readReg' \in 0 .. QueueDepth - 1 /\ writeReg' \in 0 .. QueueDepth - 1
         /\ fullReg' \in BOOLEAN /\ emptyReg' \in BOOLEAN
         /\ mem' \in [0 .. QueueDepth - 1 -> SUBSET Item]
  BY EnqItem, NextPtrType DEF Ring, TypeOK

LEMMA TypeStep == ASSUME TypeOK, NEW in \in Inputs, Cycle(in) PROVE TypeOK'
<1>1. Arbiter(in) /\ Ring(in) /\ Channels(in)
  BY DEF Cycle
<1>2. QED
  BY <1>1, ReadType, WriteType, ArbiterType, RingType DEF TypeOK

(* The flags follow the pointers.  A word is enqueued only where there is   *)
(* room: the buffer is not full, or its first word leaves.                  *)
LEMMA RingStep ==
  ASSUME TypeOK, RingOK, NEW in \in Inputs, Ring(in)
  PROVE  RingOK'
<1> USE NextPtrType, NextPtrInjective DEF TypeOK, RingOK, Ring
<1>1. CASE enqFires(in) /\ deqFires(in)
  BY <1>1
<1>2. CASE enqFires(in) /\ ~deqFires(in)
  <2>1. ~fullReg
    BY <1>2 DEF enqFires, enqReady
  <2>2. QED
    BY <1>2, <2>1
<1>3. CASE ~enqFires(in) /\ deqFires(in)
  <2>1. ~emptyReg
    BY <1>3 DEF deqFires
  <2>2. QED
    BY <1>3, <2>1
<1>4. CASE ~enqFires(in) /\ ~deqFires(in)
  BY <1>4
<1>5. QED
  BY <1>1, <1>2, <1>3, <1>4

(* The cycle in which the arbiter looks enqueues nothing, so the room it    *)
(* saw, or that a leaving word makes, is there in the next one.             *)
LEMMA RoomStep ==
  ASSUME TypeOK, NEW in \in Inputs, Arbiter(in), Ring(in)
  PROVE  RoomToEnqueue'
<1> SUFFICES ASSUME phase' \in {"r_enq", "wa_enq", "wd_enq"} PROVE ~fullReg'
  BY DEF RoomToEnqueue
<1>1. phase \in {"r", "wa", "wd"} /\ enqReady(in)
  BY DEF Arbiter, TypeOK
<1>2. ~enqFires(in)
  BY <1>1 DEF enqFires, enqBits, grantsAR, grantsAW, grantsW
<1>3. QED
  BY <1>1, <1>2 DEF Ring, enqReady

(* A request that the arbiter has seen stays up until it is granted, and a  *)
(* write keeps its channel in the data state from its first to its last     *)
(* beat.                                                                    *)
LEMMA TurnStep ==
  ASSUME TypeOK, TurnHolds, CountersReset, NEW in \in Inputs, Arbiter(in), Channels(in)
  PROVE  TurnHolds'
<1> USE DEF TypeOK
<1>1. /\ port \in Ports
      /\ rd'[port] = Read(port, in) /\ wr'[port] = Write(port, in)
      /\ sent'[port] = CASE wr[port] \in {"idle", "loaded"} -> 0
                         [] grantsW(port) /\ wr[port] = "data" -> (sent[port] + 1) % Beats
                         [] OTHER -> sent[port]
  BY DEF Channels
<1>2. CASE phase = "poll"
  BY <1>1, <1>2 DEF Arbiter, TurnHolds, ARVALID, AWVALID, Read, Write, grantsAR, grantsAW, grantsW
<1>3. CASE phase \in {"r", "wa", "wd"}
  BY <1>1, <1>3 DEF Arbiter, TurnHolds, ARVALID, AWVALID, WVALID, WLAST, Read, Write,
                    grantsAR, grantsAW, grantsW
<1>4. CASE phase \in {"r_enq", "wa_enq"}
  BY <1>1, <1>4 DEF Arbiter, TurnHolds, ARVALID, AWVALID, WVALID, Read, Write,
                    grantsAR, grantsAW, grantsW
<1>5. CASE phase = "wd_enq"
  BY <1>1, <1>5 DEF Arbiter, TurnHolds, ARVALID, AWVALID, WVALID, WLAST, Read, Write,
                    grantsAR, grantsAW, grantsW
<1>6. QED
  BY <1>2, <1>3, <1>4, <1>5

LEMMA OwnStep ==
  ASSUME OwnRequests, NEW in \in Inputs, Channels(in)
  PROVE  OwnRequests'
  BY DEF OwnRequests, Channels, Read

LEMMA CountersStep ==
  ASSUME TypeOK, TurnHolds, CountersReset, NEW in \in Inputs, Channels(in)
  PROVE  CountersReset'
<1> SUFFICES ASSUME NEW p \in Ports, wr'[p] \in {"loaded", "request"} PROVE sent'[p] = 0
  BY DEF CountersReset
<1>1. wr[p] \in {"idle", "loaded", "request"}
  BY DEF Channels, Write, TypeOK
<1>2. wr'[p] = Write(p, in)
  BY DEF Channels
<1>3. QED
  BY <1>1, <1>2 DEF Channels, CountersReset

(* What the buffer holds, entry by entry. *)
LEMMA ContentsFacts ==
  ASSUME TypeOK, RingOK, WordsPresent
  PROVE  /\ Contents \in Seq(Item) /\ Len(Contents) = Count
         /\ \A k \in 0 .. Count - 1 :
               Contents[k + 1] = CHOOSE w \in mem[After(readReg, k)] : TRUE
<1>1. Count \in 0 .. QueueDepth /\ readReg \in 0 .. QueueDepth - 1
  BY CountFacts DEF TypeOK
<1>2. Contents = [i \in 1 .. Count |-> CHOOSE w \in mem[(readReg + i - 1) % QueueDepth] : TRUE]
  BY DEF Contents, Count
<1>3. \A k \in 0 .. Count - 1 :
         Contents[k + 1] = CHOOSE w \in mem[After(readReg, k)] : TRUE
  <2> SUFFICES ASSUME NEW k \in 0 .. Count - 1
               PROVE  Contents[k + 1] = CHOOSE w \in mem[After(readReg, k)] : TRUE
    OBVIOUS
  <2>1. k + 1 \in 1 .. Count /\ readReg + (k + 1) - 1 = readReg + k
    BY <1>1
  <2>2. QED
    BY <1>2, <2>1 DEF After
<1>4. ASSUME NEW i \in 1 .. Count PROVE Contents[i] \in Item
  <2>1. i - 1 \in 0 .. Count - 1 /\ i - 1 \in 0 .. QueueDepth /\ (i - 1) + 1 = i
    BY <1>1
  <2>2. After(readReg, i - 1) \in 0 .. QueueDepth - 1
    BY <1>1, <2>1, AfterType
  <2>3. mem[After(readReg, i - 1)] # {} /\ mem[After(readReg, i - 1)] \subseteq Item
    BY <2>1, <2>2 DEF WordsPresent, TypeOK
  <2>4. (CHOOSE w \in mem[After(readReg, i - 1)] : TRUE) \in Item
    BY <2>3
  <2>5. QED
    BY <1>3, <2>1, <2>4
<1>5. Contents \in Seq(Item) /\ Len(Contents) = Count
  <2>1. Count \in Nat
    BY <1>1, Sizes
  <2>2. DOMAIN Contents = 1 .. Count /\ Contents = [i \in 1 .. Count |-> Contents[i]]
    BY <1>2
  <2>3. QED
    BY <1>4, <2>1, <2>2
<1>6. QED
  BY <1>3, <1>5

(* How pointers and number of words move. *)
LEMMA CountStep ==
  ASSUME TypeOK, RingOK, TypeOK', RingOK', NEW in \in Inputs, Ring(in)
  PROVE  /\ deqFires(in) => Count >= 1
         /\ enqFires(in) /\ ~deqFires(in) => Count < QueueDepth
         /\ Count' = Count + (IF enqFires(in) THEN 1 ELSE 0) - (IF deqFires(in) THEN 1 ELSE 0)
         /\ readReg' = IF deqFires(in) THEN NextPtr(readReg) ELSE readReg
<1> DEFINE D == QueueDepth
<1>1. /\ Count \in 0 .. D /\ (emptyReg <=> Count = 0) /\ (fullReg <=> Count = D)
      /\ writeReg = After(readReg, Count)
  BY CountFacts
<1>2. /\ Count' \in 0 .. D /\ (emptyReg' <=> Count' = 0) /\ (fullReg' <=> Count' = D)
      /\ writeReg' = After(readReg', Count')
  <2>1. (TypeOK /\ RingOK => /\ Count \in 0 .. QueueDepth
                             /\ emptyReg <=> Count = 0
                             /\ fullReg <=> Count = QueueDepth
                             /\ writeReg = After(readReg, Count))'
    BY CountFacts, PTL
  <2>2. QED
    BY <2>1
<1>3. /\ readReg \in 0 .. D - 1 /\ writeReg \in 0 .. D - 1
      /\ readReg' \in 0 .. D - 1 /\ writeReg' \in 0 .. D - 1
      /\ fullReg \in BOOLEAN /\ emptyReg \in BOOLEAN /\ fullReg' \in BOOLEAN /\ emptyReg' \in BOOLEAN
  BY DEF TypeOK
<1> HIDE DEF D
<1>4. deqFires(in) => Count >= 1
  BY <1>1 DEF deqFires
<1>5. enqFires(in) /\ ~deqFires(in) => Count < D
  BY <1>1, Sizes DEF enqFires, enqReady, D
<1>6. CASE enqFires(in) /\ deqFires(in)
  <2>1. /\ readReg' = NextPtr(readReg) /\ writeReg' = NextPtr(writeReg)
        /\ fullReg' = fullReg /\ emptyReg' = emptyReg
    BY <1>6 DEF Ring
  <2>2. CASE fullReg
    BY <1>1, <1>2, <2>1, <2>2, <1>6, <1>4
  <2>3. CASE ~fullReg
    <3>1. Count \in 1 .. D - 1 /\ Count' \in 1 .. D - 1
      BY <1>1, <1>2, <1>4, <1>6, <2>1, <2>3, Sizes DEF D
    <3>2. After(readReg', Count) = writeReg'
      <4>1. After(readReg', Count) = After(readReg, Count + 1)
        BY <1>3, <2>1, <3>1, AfterNext DEF D
      <4>2. NextPtr(After(readReg, Count)) = After(readReg, Count + 1)
        BY <1>3, <3>1, AfterNext DEF D
      <4>3. QED
        BY <1>1, <2>1, <4>1, <4>2
    <3>3. Count' = Count
      BY <1>2, <1>3, <3>1, <3>2, AfterInjective1 DEF D
    <3>4. QED
      BY <1>4, <1>6, <2>1, <3>1, <3>3, Sizes DEF D
  <2>4. QED
    BY <2>2, <2>3, Sizes DEF D
<1>7. CASE enqFires(in) /\ ~deqFires(in)
  <2>1. readReg' = readReg /\ writeReg' = NextPtr(writeReg) /\ ~emptyReg'
    BY <1>7 DEF Ring
  <2>2. Count \in 0 .. D - 1 /\ Count + 1 \in 1 .. D /\ Count' \in 1 .. D
    BY <1>1, <1>2, <1>5, <1>7, <2>1, Sizes DEF D
  <2>3. After(readReg, Count + 1) = writeReg'
    BY <1>1, <1>3, <2>1, <2>2, AfterNext DEF D
  <2>4. Count' = Count + 1
    BY <1>2, <1>3, <2>1, <2>2, <2>3, AfterInjective1 DEF D
  <2>5. QED
    BY <1>7, <2>1, <2>2, <2>4, Sizes DEF D
<1>8. CASE ~enqFires(in) /\ deqFires(in)
  <2>1. readReg' = NextPtr(readReg) /\ writeReg' = writeReg /\ ~fullReg'
    BY <1>8 DEF Ring
  <2>2. Count - 1 \in 0 .. D - 1 /\ Count' \in 0 .. D - 1 /\ (Count - 1) + 1 = Count
    BY <1>1, <1>2, <1>4, <1>8, <2>1, Sizes DEF D
  <2>3. After(readReg', Count - 1) = writeReg'
    BY <1>1, <1>3, <2>1, <2>2, AfterNext DEF D
  <2>4. Count' = Count - 1
    BY <1>2, <1>3, <2>1, <2>2, <2>3, AfterInjective DEF D
  <2>5. QED
    BY <1>4, <1>8, <2>1, <2>2, <2>4, Sizes DEF D
<1>9. CASE ~enqFires(in) /\ ~deqFires(in)
  <2>1. UNCHANGED <<readReg, writeReg, fullReg, emptyReg>>
    BY <1>9 DEF Ring
  <2>2. Count' = Count
    BY <2>1 DEF Count
  <2>3. QED
    BY <1>1, <1>9, <2>1, <2>2, Sizes DEF D
<1>10. QED
  BY <1>6, <1>7, <1>8, <1>9

(* The word at the front of the arbiter, when one is enqueued. *)
Offered == CHOOSE w \in enqBits(port) : TRUE

(* Where each entry of the next cycle comes from: the word enqueued is the  *)
(* last one, all others move up by one if the first one leaves.             *)
LEMMA MemStep ==
  ASSUME TypeOK, RingOK, TypeOK', RingOK', NEW in \in Inputs, Ring(in), NEW k \in 0 .. Count' - 1
  PROVE  LET j == k + (IF deqFires(in) THEN 1 ELSE 0)
         IN /\ j \in 0 .. Count
            /\ j = Count => enqFires(in) /\ mem'[After(readReg', k)] = enqBits(port)
            /\ j < Count => mem'[After(readReg', k)] = mem[After(readReg, j)]
<1> DEFINE j == k + (IF deqFires(in) THEN 1 ELSE 0)
<1>1. /\ Count \in 0 .. QueueDepth /\ Count' \in 0 .. QueueDepth
      /\ writeReg = After(readReg, Count)
      /\ readReg \in 0 .. QueueDepth - 1 /\ writeReg \in 0 .. QueueDepth - 1
      /\ readReg' = IF deqFires(in) THEN NextPtr(readReg) ELSE readReg
      /\ Count' = Count + (IF enqFires(in) THEN 1 ELSE 0) - (IF deqFires(in) THEN 1 ELSE 0)
      /\ deqFires(in) => Count >= 1
      /\ enqFires(in) /\ ~deqFires(in) => Count < QueueDepth
  <2>1. (TypeOK /\ RingOK => Count \in 0 .. QueueDepth)'
    BY CountFacts, PTL
  <2>2. QED
    BY <2>1, CountFacts, CountStep DEF TypeOK
<1>2. /\ j \in 0 .. Count /\ k \in 0 .. QueueDepth - 1 /\ j \in 0 .. QueueDepth
      /\ j = Count => enqFires(in)
  BY <1>1, Sizes
<1>3. After(readReg', k) = After(readReg, j)
  BY <1>1, <1>2, AfterNext
<1>4. After(readReg, j) \in 0 .. QueueDepth - 1
  BY <1>1, <1>2, AfterType
<1>5. mem \in [0 .. QueueDepth - 1 -> SUBSET Item]
  BY DEF TypeOK
<1>6. ASSUME j = Count PROVE mem'[After(readReg', k)] = enqBits(port)
  BY <1>1, <1>2, <1>3, <1>5, <1>6 DEF Ring
<1>7. ASSUME j < Count PROVE mem'[After(readReg', k)] = mem[After(readReg, j)]
  <2>1. CASE ~enqFires(in)
    BY <1>3, <2>1 DEF Ring
  <2>2. CASE enqFires(in)
    <3>1. After(readReg, j) # writeReg
      <4>1. CASE deqFires(in)
        <5>1. j \in 1 .. QueueDepth /\ Count \in 1 .. QueueDepth /\ j # Count
          BY <1>1, <1>2, <1>7, <4>1
        <5> HIDE DEF j
        <5>2. QED
          BY <1>1, <5>1, AfterInjective1
      <4>2. CASE ~deqFires(in)
        <5>1. j \in 0 .. QueueDepth - 1 /\ Count \in 0 .. QueueDepth - 1 /\ j # Count
          BY <1>1, <1>2, <1>7, <2>2, <4>2, Sizes
        <5> HIDE DEF j
        <5>2. QED
          BY <1>1, <5>1, AfterInjective
      <4>3. QED
        BY <4>1, <4>2
    <3>2. QED
      BY <1>3, <1>4, <1>5, <2>2, <3>1 DEF Ring
  <2>3. QED
    BY <2>1, <2>2
<1>8. QED
  BY <1>2, <1>6, <1>7

LEMMA WordsStep ==
  ASSUME TypeOK, RingOK, WordsPresent, TypeOK', RingOK', NEW in \in Inputs, Ring(in)
  PROVE  WordsPresent'
<1> SUFFICES ASSUME NEW k \in 0 .. Count' - 1 PROVE mem'[After(readReg', k)] # {}
  BY DEF WordsPresent, After
<1> DEFINE j == k + (IF deqFires(in) THEN 1 ELSE 0)
<1>1. /\ j \in 0 .. Count
      /\ j = Count => enqFires(in) /\ mem'[After(readReg', k)] = enqBits(port)
      /\ j < Count => mem'[After(readReg', k)] = mem[After(readReg, j)]
  BY MemStep
<1>2. Count \in Nat
  BY CountFacts, Sizes
<1> HIDE DEF j
<1>3. CASE j = Count
  BY <1>1, <1>3 DEF enqFires
<1>4. CASE j \in 0 .. Count - 1
  BY <1>1, <1>2, <1>4 DEF WordsPresent
<1>5. QED
  BY <1>1, <1>2, <1>3, <1>4

LEMMA IInvInit == Init => IInv
<1> HAVE Init
<1>1. PICK l \in Lines : wrLine = [p \in Ports |-> l]
  BY DEF Init
<1>2. 0 \in Ports /\ 0 \in 0 .. Beats - 1 /\ 0 \in 0 .. QueueDepth - 1
  BY PortNumbers, Sizes
<1>3. Cardinality({}) <= 1
  BY FS_EmptySet
<1>4. TypeOK
  BY <1>1, <1>2, <1>3 DEF Init, TypeOK
<1>5. RingOK /\ RoomToEnqueue /\ TurnHolds /\ OwnRequests /\ CountersReset
  BY DEF Init, RingOK, RoomToEnqueue, TurnHolds, OwnRequests, CountersReset
<1>6. WordsPresent
  BY <1>4, <1>5, CountFacts DEF Init, WordsPresent
<1>7. QED
  BY <1>4, <1>5, <1>6 DEF IInv

LEMMA IInvStep == IInv /\ [Next]_vars => IInv'
<1> SUFFICES ASSUME IInv, [Next]_vars PROVE IInv'
  OBVIOUS
<1>1. ASSUME NEW in \in Inputs, Cycle(in) PROVE IInv'
  BY <1>1, TypeStep, RingStep, WordsStep, RoomStep, TurnStep, OwnStep, CountersStep DEF IInv, Cycle
<1>2. CASE UNCHANGED vars
  BY <1>2 DEF vars, portVars, ringVars, IInv, TypeOK, RingOK, WordsPresent, Count, After,
              RoomToEnqueue, TurnHolds, OwnRequests, CountersReset, ARVALID, AWVALID, WVALID
<1>3. QED
  BY <1>1, <1>2 DEF Next

(* The registers of channels, arbiter and ring buffer keep their types.     *)
THEOREM TypeCorrect == Spec => []TypeOK
<1>1. IInv => TypeOK
  BY DEF IInv
<1>2. QED
  BY <1>1, IInvInit, IInvStep, PTL DEF Spec

-----------------------------------------------------------------------------
(***************************************************************************)
(* The queue that the coherency unit sees.                                 *)
(***************************************************************************)

(* What is left when the unit takes a word. *)
Rest(in) == IF deqFires(in) THEN Tail(Contents) ELSE Contents

(* One cycle of the ring buffer, seen as a queue: the first word leaves if  *)
(* the unit takes it, the word offered joins at the end if it is enqueued.  *)
LEMMA ContentsStep ==
  ASSUME IInv, IInv', NEW in \in Inputs, Ring(in)
  PROVE  /\ Contents \in Seq(Item)
         /\ deqFires(in) => Contents # <<>>
         /\ enqFires(in) => /\ Len(Rest(in)) < QueueDepth
                            /\ Contents' = Append(Rest(in), Offered)
         /\ ~enqFires(in) => Contents' = Rest(in)
<1>1. /\ Contents \in Seq(Item) /\ Len(Contents) = Count
      /\ \A k \in 0 .. Count - 1 :
            Contents[k + 1] = CHOOSE w \in mem[After(readReg, k)] : TRUE
  BY ContentsFacts DEF IInv
<1>2. /\ Contents' \in Seq(Item') /\ Len(Contents') = Count'
      /\ \A k \in 0 .. Count' - 1 :
            Contents'[k + 1] = CHOOSE w \in mem'[After(readReg', k)] : TRUE
  <2>1. (TypeOK /\ RingOK /\ WordsPresent =>
          /\ Contents \in Seq(Item) /\ Len(Contents) = Count
          /\ \A k \in 0 .. Count - 1 :
                Contents[k + 1] = CHOOSE w \in mem[After(readReg, k)] : TRUE)'
    BY ContentsFacts, PTL
  <2>2. QED
    BY <2>1 DEF IInv, After
<1>3. Item' = Item
  BY DEF Item, Request, WriteBacks, Reads, Snooped
<1>4. /\ Count \in 0 .. QueueDepth /\ Count' \in Nat
      /\ deqFires(in) => Count >= 1
      /\ enqFires(in) /\ ~deqFires(in) => Count < QueueDepth
      /\ Count' = Count + (IF enqFires(in) THEN 1 ELSE 0) - (IF deqFires(in) THEN 1 ELSE 0)
  BY <1>2, CountFacts, CountStep DEF IInv
<1>5. /\ deqFires(in) => Contents # <<>>
      /\ Rest(in) \in Seq(Item)
      /\ Len(Rest(in)) = Count - (IF deqFires(in) THEN 1 ELSE 0)
  BY <1>1, <1>4 DEF Rest
<1>6. \A i \in 1 .. Len(Rest(in)) :
         Rest(in)[i] = Contents[i + (IF deqFires(in) THEN 1 ELSE 0)]
  BY <1>1, <1>4, <1>5 DEF Rest
<1>7. ASSUME NEW i \in 1 .. Len(Rest(in)), i <= Count' PROVE Contents'[i] = Rest(in)[i]
  <2> DEFINE k == i - 1
  <2> DEFINE j == k + (IF deqFires(in) THEN 1 ELSE 0)
  <2>1. k \in 0 .. Count' - 1 /\ k + 1 = i /\ j \in 0 .. Count - 1
        /\ j + 1 = i + (IF deqFires(in) THEN 1 ELSE 0)
    BY <1>4, <1>5, <1>7
  <2>2. mem'[After(readReg', k)] = mem[After(readReg, j)]
    BY <1>4, <2>1, MemStep DEF IInv
  <2> HIDE DEF k, j
  <2>3. Contents'[k + 1] = Contents[j + 1]
    <3>1. Contents'[k + 1] = CHOOSE w \in mem[After(readReg, j)] : TRUE
      BY <1>2, <2>1, <2>2
    <3>2. Contents[j + 1] = CHOOSE w \in mem[After(readReg, j)] : TRUE
      BY <1>1, <2>1
    <3>3. QED
      BY <3>1, <3>2
  <2>4. QED
    BY <1>6, <2>1, <2>3
<1>8. ASSUME enqFires(in)
      PROVE  Len(Rest(in)) < QueueDepth /\ Contents' = Append(Rest(in), Offered)
  <2>1. Count' = Len(Rest(in)) + 1 /\ Len(Rest(in)) < QueueDepth
    BY <1>4, <1>5, <1>8
  <2>2. Contents'[Count'] = Offered
    <3> DEFINE k == Count' - 1
    <3>1. k \in 0 .. Count' - 1 /\ k + (IF deqFires(in) THEN 1 ELSE 0) = Count /\ k + 1 = Count'
      BY <1>4, <1>5, <1>8
    <3>2. mem'[After(readReg', k)] = enqBits(port)
      BY <3>1, MemStep DEF IInv
    <3> HIDE DEF k
    <3>3. Contents'[k + 1] = CHOOSE w \in enqBits(port) : TRUE
      BY <1>2, <3>1, <3>2
    <3>4. QED
      BY <3>1, <3>3 DEF Offered
  <2>3. Offered \in Item
    BY <1>8, EnqItem DEF enqFires, IInv, Offered
  <2>4. \A i \in 1 .. Len(Rest(in)) : Contents'[i] = Rest(in)[i]
    BY <1>5, <1>7, <2>1
  <2>5. \A i \in 1 .. Count' : Contents'[i] = Append(Rest(in), Offered)[i]
    BY <1>5, <2>1, <2>2, <2>3, <2>4
  <2>6. Append(Rest(in), Offered) \in Seq(Item) /\ Len(Append(Rest(in), Offered)) = Count'
    BY <1>5, <2>1, <2>3
  <2>7. QED
    BY <1>2, <1>3, <2>1, <2>5, <2>6
<1>9. ASSUME ~enqFires(in) PROVE Contents' = Rest(in)
  <2>1. Count' = Len(Rest(in))
    BY <1>4, <1>5, <1>9
  <2>2. \A i \in 1 .. Len(Rest(in)) : Contents'[i] = Rest(in)[i]
    BY <1>5, <1>7, <2>1
  <2>3. QED
    BY <1>2, <1>3, <1>5, <2>1, <2>2
<1>10. QED
  BY <1>1, <1>5, <1>8, <1>9

(* Exactly in the cycles in which the arbiter raises a READY is a word      *)
(* enqueued: there is room, and the request is still up.                    *)
LEMMA GrantEnqueues ==
  ASSUME IInv, NEW in \in Inputs
  PROVE  enqFires(in) <=> phase \in {"r_enq", "wa_enq", "wd_enq"}
  BY DEF enqFires, enqReady, enqBits, grantsAR, grantsAW, grantsW, ARVALID, AWVALID,
         IInv, TypeOK, RoomToEnqueue, TurnHolds

(* Beats that the write-back enqueued last still owes. *)
ToCome == IF phase \in {"wd", "wd_enq"} THEN Beats - sent[port] ELSE 0

(* A cycle in which nothing is enqueued owes as many beats as before. *)
LEMMA IdleStep ==
  ASSUME IInv, NEW in \in Inputs, Cycle(in), phase \notin {"r_enq", "wa_enq", "wd_enq"}
  PROVE  ToCome' = ToCome
<1>1. phase \in {"poll", "r", "wa", "wd"} /\ port \in Ports
  BY DEF IInv, TypeOK
<1>2. CASE phase = "wd"
  <2>1. phase' \in {"wd", "wd_enq"} /\ port' = port
    BY <1>2 DEF Cycle, Arbiter
  <2>2. wr[port] = "data"
    BY <1>2 DEF IInv, TurnHolds, WVALID
  <2>3. sent'[port] = sent[port]
    BY <1>1, <1>2, <2>2 DEF Cycle, Channels, grantsW
  <2>4. QED
    BY <1>2, <2>1, <2>3 DEF ToCome
<1>3. CASE phase \in {"poll", "r", "wa"}
  <2>1. phase' \notin {"wd", "wd_enq"}
    BY <1>3 DEF Cycle, Arbiter
  <2>2. QED
    BY <1>3, <2>1 DEF ToCome
<1>4. QED
  BY <1>1, <1>2, <1>3

(* A cycle in which a word is enqueued: a read, the address of a write, or  *)
(* the next beat of the line whose address was enqueued before it.          *)
LEMMA GrantStep ==
  ASSUME IInv, NEW in \in Inputs, Cycle(in), phase \in {"r_enq", "wa_enq", "wd_enq"}
  PROVE  /\ Offered \in enqBits(port)
         /\ Offered \in (IF ToCome > 0 THEN {[tran |-> "beat", last |-> ToCome = 1]}
                         ELSE Request \cup WriteBacks)
         /\ ToCome' = CASE Offered.tran = "WriteBack" -> Beats
                        [] Offered.tran = "beat" -> ToCome - 1
                        [] OTHER -> ToCome
<1>1. /\ port \in Ports /\ sent[port] \in 0 .. Beats - 1
      /\ rd[port] \subseteq Request /\ wrLine[port] \in Lines
  BY DEF IInv, TypeOK
<1>2. CASE phase = "r_enq"
  <2>1. rd[port] # {} /\ enqBits(port) = rd[port]
    BY <1>2 DEF enqBits, grantsAR, ARVALID, IInv, TurnHolds
  <2>2. Offered \in rd[port] /\ Offered \in Request
    BY <1>1, <2>1 DEF Offered
  <2>3. Offered.tran # "WriteBack" /\ Offered.tran # "beat"
    BY <2>2 DEF Request, Reads, Snooped
  <2>4. ToCome = 0 /\ ToCome' = 0
    BY <1>2 DEF ToCome, Cycle, Arbiter
  <2>5. QED
    BY <2>1, <2>2, <2>3, <2>4
<1>3. CASE phase = "wa_enq"
  <2>1. /\ wr[port] = "request" /\ sent[port] = 0
        /\ enqBits(port) = {[tran |-> "WriteBack", port |-> port, line |-> wrLine[port]]}
    BY <1>1, <1>3 DEF enqBits, grantsAR, grantsAW, AWVALID, IInv, TurnHolds, CountersReset
  <2>2. Offered = [tran |-> "WriteBack", port |-> port, line |-> wrLine[port]]
    BY <2>1 DEF Offered
  <2>3. Offered \in WriteBacks
    BY <1>1, <2>2 DEF WriteBacks
  <2>4. phase' = "wd" /\ port' = port
    BY <1>3 DEF Cycle, Arbiter
  <2>5. sent'[port] = 0
    BY <1>1, <1>3, <2>1 DEF Cycle, Channels, grantsW
  <2>6. ToCome = 0 /\ ToCome' = Beats
    BY <1>3, <2>4, <2>5, Sizes DEF ToCome
  <2>7. QED
    BY <2>1, <2>2, <2>3, <2>6
<1>4. CASE phase = "wd_enq"
  <2>1. wr[port] = "data" /\ (wlast <=> sent[port] = Beats - 1)
    BY <1>4 DEF IInv, TurnHolds, WVALID
  <2>2. enqBits(port) = {[tran |-> "beat", last |-> sent[port] = Beats - 1]}
    BY <1>4, <2>1 DEF enqBits, grantsAR, grantsAW, grantsW, WLAST
  <2>3. ToCome = Beats - sent[port] /\ ToCome > 0 /\ (ToCome = 1 <=> sent[port] = Beats - 1)
    BY <1>1, <1>4, Sizes DEF ToCome
  <2>4. Offered = [tran |-> "beat", last |-> ToCome = 1]
    BY <2>2, <2>3 DEF Offered
  <2>5. ToCome' = ToCome - 1
    <3>1. CASE wlast
      BY <1>1, <1>4, <2>1, <2>3, <3>1, Sizes DEF ToCome, Cycle, Arbiter
    <3>2. CASE ~wlast
      <4>1. phase' = "wd" /\ port' = port
        BY <1>4, <3>2 DEF Cycle, Arbiter
      <4>2. sent'[port] = (sent[port] + 1) % Beats
        BY <1>1, <1>4, <2>1 DEF Cycle, Channels, grantsW
      <4>3. (sent[port] + 1) % Beats = sent[port] + 1
        BY <1>1, <2>1, <3>2, Sizes
      <4>4. QED
        BY <1>1, <2>3, <4>1, <4>2, <4>3, Sizes DEF ToCome
    <3>3. QED
      BY <3>1, <3>2
  <2>6. QED
    BY <2>2, <2>3, <2>4, <2>5
<1>5. QED
  BY <1>2, <1>3, <1>4

(* One cycle is one step of BusOrder: a word leaves or not, one joins or    *)
(* not.                                                                     *)
LEMMA OrderStep ==
  ASSUME IInv, IInv', NEW in \in Inputs, Cycle(in)
  PROVE  Order!OrderNext
<1> DEFINE takes == deqFires(in)
<1>1. /\ takes \in BOOLEAN
      /\ takes => Contents # <<>>
      /\ enqFires(in) => /\ Len(Rest(in)) < QueueDepth
                         /\ Contents' = Append(Rest(in), Offered)
      /\ ~enqFires(in) => Contents' = Rest(in)
  BY ContentsStep DEF Cycle, deqFires
<1>2. Order!Rest(takes) = Rest(in)
  BY DEF Order!Rest, Rest
<1>3. CASE enqFires(in)
  <2>1. phase \in {"r_enq", "wa_enq", "wd_enq"}
    BY <1>3, GrantEnqueues
  <2>2. Offered \in Order!Arrivals
    BY <2>1, GrantStep DEF Order!Arrivals, ToCome, Order!Request, Order!WriteBacks, Order!Reads,
                           Order!Snooped, Request, WriteBacks, Reads, Snooped
  <2>3. Order!Arrive(takes, Offered)
    BY <1>1, <1>2, <1>3, <2>1, GrantStep DEF Order!Arrive, ToCome
  <2>4. QED
    BY <1>1, <2>2, <2>3 DEF Order!OrderNext
<1>4. CASE ~enqFires(in)
  <2>1. phase \notin {"r_enq", "wa_enq", "wd_enq"}
    BY <1>4, GrantEnqueues
  <2>2. Order!Idle(takes)
    BY <1>1, <1>2, <1>4, <2>1, IdleStep DEF Order!Idle, ToCome
  <2>3. QED
    BY <1>1, <2>2 DEF Order!OrderNext
<1>5. QED
  BY <1>3, <1>4

(* What the coherency unit relies on holds for any number of ports, any     *)
(* line length and any depth of the queue: behind the arbiter of            *)
(* arbitter.scala and the ring buffer, every write-back is followed by      *)
(* exactly its beats, the last one marked, and nothing is lost.             *)
THEOREM ArbiterImplementsBusOrder == Spec => ImplementsBusOrder
<1>1. Init => Order!OrderInit
  <2> HAVE Init
  <2>1. Count = 0
    BY IInvInit, CountFacts DEF IInv, Init
  <2>2. Contents = <<>>
    BY <2>1, IInvInit, ContentsFacts DEF IInv
  <2>3. QED
    BY <2>2 DEF Init, Order!OrderInit
<1>2. IInv /\ IInv' /\ [Next]_vars => [Order!OrderNext]_<<Contents, ToCome>>
  <2> SUFFICES ASSUME IInv, IInv', [Next]_vars PROVE [Order!OrderNext]_<<Contents, ToCome>>
    OBVIOUS
  <2>1. CASE Next
    BY <2>1, OrderStep DEF Next
  <2>2. CASE UNCHANGED vars
    BY <2>2 DEF vars, portVars, ringVars, Contents, ToCome
  <2>3. QED
    BY <2>1, <2>2
<1>3. [][Order!OrderNext]_<<Contents, ToCome>> /\ Order!OrderInit => Order!OrderSpec
  BY PTL DEF Order!OrderSpec, ToCome
<1>4. QED
  BY <1>1, <1>2, <1>3, IInvInit, IInvStep, TypeCorrect, PTL DEF Spec, ImplementsBusOrder
-----------------------------------------------------------------------------
(***************************************************************************)
(* Accepted words.                                                         *)
(***************************************************************************)

(* Only the port that has the turn sees a word accepted, and only when the  *)
(* arbiter grants.                                                          *)
LEMMA AcceptedIsGranted ==
  ASSUME IInv, NEW in \in Inputs, Cycle(in), NEW p \in Ports
  PROVE  Accepted(p) <=> p = port /\ phase \in {"r_enq", "wa_enq", "wd_enq"}
<1>1. /\ rd'[p] = Read(p, in) /\ wr'[p] = Write(p, in)
      /\ sent'[p] = CASE wr[p] \in {"idle", "loaded"} -> 0
                      [] grantsW(p) /\ wr[p] = "data" -> (sent[p] + 1) % Beats
                      [] OTHER -> sent[p]
  BY DEF Cycle, Channels
<1>2. port \in Ports /\ sent[p] \in 0 .. Beats - 1
      /\ wr[p] \in {"idle", "loaded", "request", "data", "response"}
  BY DEF IInv, TypeOK
<1>3. ASSUME p = port, phase = "r_enq" PROVE Accepted(p)
  BY <1>1, <1>3 DEF Accepted, Read, grantsAR, ARVALID, IInv, TurnHolds
<1>4. ASSUME p = port, phase = "wa_enq" PROVE Accepted(p)
  BY <1>1, <1>4 DEF Accepted, Write, grantsAW, AWVALID, IInv, TurnHolds
<1>5. ASSUME p = port, phase = "wd_enq" PROVE Accepted(p)
  <2>1. wr[p] = "data" /\ grantsW(p) /\ ~grantsAW(p)
    BY <1>5 DEF grantsW, grantsAW, WVALID, IInv, TurnHolds
  <2>2. CASE sent[p] = Beats - 1
    BY <1>1, <2>1, <2>2 DEF Accepted, Write, WLAST
  <2>3. CASE sent[p] # Beats - 1
    <3>1. (sent[p] + 1) % Beats = sent[p] + 1
      BY <1>2, <2>3, Sizes
    <3>2. sent'[p] # sent[p]
      BY <1>1, <1>2, <2>1, <3>1
    <3>3. QED
      BY <2>1, <3>2 DEF Accepted
  <2>4. QED
    BY <2>2, <2>3
<1>6. ASSUME ~(p = port /\ phase \in {"r_enq", "wa_enq", "wd_enq"}) PROVE ~Accepted(p)
  <2>1. ~grantsAR(p) /\ ~grantsAW(p) /\ ~grantsW(p)
    BY <1>6 DEF grantsAR, grantsAW, grantsW
  <2>2. QED
    BY <1>1, <1>2, <2>1 DEF Accepted, Read, Write
<1>7. QED
  BY <1>3, <1>4, <1>5, <1>6

LEMMA AcceptedStep ==
  ASSUME IInv, IInv', NEW in \in Inputs, Cycle(in)
  PROVE  QueuesTheAccepted
<1> DEFINE here == {p \in Ports : Accepted(p)}
<1>1. port \in Ports
  BY DEF IInv, TypeOK
<1>2. Rest(in) \in MayTake(Contents)
  BY ContentsStep DEF Cycle, Rest, MayTake
<1>3. CASE phase \in {"r_enq", "wa_enq", "wd_enq"}
  <2>1. here = {port}
    BY <1>1, <1>3, AcceptedIsGranted
  <2>2. Offered \in enqBits(port)
    BY <1>3, GrantStep
  <2>3. Contents' = Append(Rest(in), Offered)
    BY <1>3, GrantEnqueues, ContentsStep DEF Cycle
  <2>4. Offered.tran # "beat" => Offered.port = port
    <3>1. CASE phase = "r_enq"
      BY <1>1, <2>2, <3>1 DEF enqBits, grantsAR, ARVALID, IInv, TurnHolds, OwnRequests
    <3>2. CASE phase = "wa_enq"
      BY <2>2, <3>2 DEF enqBits, grantsAR, grantsAW, AWVALID, IInv, TurnHolds
    <3>3. CASE phase = "wd_enq"
      BY <2>2, <3>3 DEF enqBits, grantsAR, grantsAW, grantsW
    <3>4. QED
      BY <1>3, <3>1, <3>2, <3>3
  <2>5. QED
    BY <1>2, <2>1, <2>2, <2>3, <2>4 DEF QueuesTheAccepted
<1>4. CASE phase \notin {"r_enq", "wa_enq", "wd_enq"}
  <2>1. here = {}
    BY <1>4, AcceptedIsGranted
  <2>2. Contents' = Rest(in)
    BY <1>4, GrantEnqueues, ContentsStep DEF Cycle
  <2>3. QED
    BY <1>2, <2>1, <2>2 DEF QueuesTheAccepted
<1>5. QED
  BY <1>3, <1>4

(* The handshakes are honest for any number of ports and any depth: READY   *)
(* is raised without another look at the ring buffer, and still every word  *)
(* that a cache sees accepted is the last one of the queue, once.           *)
THEOREM AcceptedWordsQueued == Spec => AcceptedIsQueued
<1>1. IInv /\ IInv' /\ [Next]_vars => [QueuesTheAccepted]_vars
  BY AcceptedStep DEF Next
<1>2. QED
  BY <1>1, IInvInit, IInvStep, PTL DEF Spec, AcceptedIsQueued
=============================================================================
