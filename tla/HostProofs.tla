---------------------------- MODULE HostProofs ----------------------------
(***************************************************************************)
(* Five programs that run on or beside the harts.                          *)
(*                                                                         *)
(* The golden emulator for every number of harts, every image and every    *)
(* register width: its state keeps its types, an SC.W never succeeds on a  *)
(* lost reservation, and the console's one-byte holding register loses,    *)
(* repeats and reorders nothing.                                           *)
(*                                                                         *)
(* The barrier for every number of harts: the shared words of barrier()    *)
(* describe the current round, and it implements Rendezvous.               *)
(*                                                                         *)
(* The console for every command it can be given: keys are heard once and  *)
(* in order across a restore, uartrx_test is right, the heartbeat          *)
(* calls pinned exactly the harts that are, and a whole checkpoint, once   *)
(* written, is never the last to be lost.                                  *)
(*                                                                         *)
(* The demos for every number of harts and every size of screen: between   *)
(* two barriers no hart touches what another one writes.                   *)
(*                                                                         *)
(* Bring-up for every image, every segment and every width of the          *)
(* programmer port: the core starts on the bytes it was given, a lost word *)
(* is noticed, and fire stops at the frame it was asked for.               *)
(***************************************************************************)
EXTENDS Emulator, Barrier, Console, Demos, Bringup,
        FiniteSetTheorems, SequenceTheorems, TLAPS

(* What the proofs use of the constants. *)
LEMMA Bounds ==
  /\ NUM_HARTS \in Nat \ {0} /\ KickProtect \in Nat /\ Unroll \in Nat
  /\ HalfBase \in Nat \ {0} /\ MaxGen \in Nat \ {0} /\ Input \in Nat
  BY HostAssumption, EmulatorAssumption

USE Bounds DEF Harts

(* A reservation is never from the future, and once it is lost the store    *)
(* generation has moved past it: what makes the SC.W test sufficient.       *)
Sound(r, gen) ==
  r.valid => r.gen <= gen /\ ("w" \in r.lost => r.gen < gen)

Reserved == \A h \in Harts : Sound(hart[h], global_store_gen)

EmuIInv == EmuTypeOK /\ Reserved /\ ScWExclusive /\ ConsoleInOrder

LEMMA EmuInitOK == EmuInit => EmuIInv
<1> SUFFICES ASSUME EmuInit PROVE EmuIInv
  OBVIOUS
<1>1. \A h \in Harts : hart_init(h) \in HartState /\ ~hart_init(h).valid
  BY DEF hart_init, HartState
<1>2. Forever \in Times
  BY DEF Forever, Times
<1>3. EmuTypeOK
  BY <1>1, <1>2 DEF EmuInit, ClintInit, EmuTypeOK, Times
<1>4. Reserved
  BY <1>1 DEF EmuInit, Reserved, Sound
<1>5. ConsoleInOrder
  BY DEF EmuInit, ConsoleInOrder
<1> QED
  BY <1>3, <1>4, <1>5 DEF EmuInit, EmuIInv, ScWExclusive

(* The head of a step keeps the types, and an interrupt drops the            *)
(* reservation it breaks.                                                    *)
LEMMA TopOK ==
  ASSUME EmuIInv, NEW h \in Harts
  PROVE  TopOfStep(h) \in HartState /\ Sound(TopOfStep(h), global_store_gen)
<1> DEFINE r == hart[h]
<1>1. r \in HartState /\ Sound(r, global_store_gen)
  BY DEF EmuIInv, EmuTypeOK, Reserved
<1> HIDE DEF r
<1>2. interrupt_function(r) \in HartState /\ Sound(interrupt_function(r), global_store_gen)
  BY <1>1 DEF interrupt_function, HartState, Sound
<1> DEFINE released == [r EXCEPT !.smp_released = TRUE, !.post_kick_protect = KickProtect]
           held == [r EXCEPT !.post_kick_protect = @ - 1]
<1>3. released \in HartState /\ Sound(released, global_store_gen)
  <2>1. released \in HartState
    <3>1. \A k \in 0 .. KickProtect : [r EXCEPT !.smp_released = TRUE, !.post_kick_protect = k] \in HartState
      BY <1>1 DEF HartState
    <3>2. KickProtect \in 0 .. KickProtect
      OBVIOUS
    <3> QED
      BY <3>1, <3>2
  <2>2. released.valid = r.valid /\ released.gen = r.gen /\ released.lost = r.lost
    BY <1>1 DEF HartState
  <2> QED
    BY <1>1, <2>1, <2>2 DEF Sound
<1>4. r.post_kick_protect > 0 => held \in HartState /\ Sound(held, global_store_gen)
  BY <1>1 DEF HartState, Sound
<1>5. \A s \in HartState : Sound(s, global_store_gen) =>
        LET t == [s EXCEPT !.post_kick_protect = IF @ > 0 THEN @ - 1 ELSE 0] IN
        t \in HartState /\ Sound(t, global_store_gen)
  BY DEF HartState, Sound
<1> QED
  BY <1>1, <1>2, <1>3, <1>4, <1>5 DEF TopOfStep, r

(* The three parts of the state an instruction can touch. *)
MemOK == /\ hart \in [Harts -> HartState] /\ global_store_gen \in 1 .. MaxGen
         /\ torn \subseteq {"w", "d"} /\ ScWExclusive /\ Reserved

ClintOK == msip \in [Harts -> BOOLEAN] /\ mtime \in Times /\ mtimecmp \in [Harts -> Times]

UartOK == /\ uart_rx_byte \in 0 .. Input /\ inputs \in 0 .. Input /\ got \in Seq(0 .. Input)
          /\ ConsoleInOrder

LEMMA Parts ==
  EmuIInv <=> /\ MemOK /\ ClintOK /\ UartOK
           /\ cmd \in Commands /\ turn \in 0 .. NUM_HARTS + 1
           /\ extra \in 0 .. Unroll /\ running \in BOOLEAN
  BY DEF EmuIInv, EmuTypeOK, MemOK, ClintOK, UartOK

(* An instruction that stays inside its hart. *)
LEMMA OnlyOK ==
  ASSUME MemOK, NEW h \in Harts, NEW r \in HartState, Sound(r, global_store_gen),
         Only(h, r), UNCHANGED <<global_store_gen, torn>>
  PROVE  MemOK'
  BY DEF MemOK, Only, Reserved, ScWExclusive

(* A store moves the generation past every reservation. *)
LEMMA DramOK ==
  ASSUME MemOK, NEW h \in Harts, NEW r \in HartState, Sound(r, global_store_gen),
         NEW a \in Addrs, DramWrite(h, r, a), torn' \subseteq {"w", "d"}, ScWExclusive'
  PROVE  MemOK'
<1>1. global_store_gen' = global_store_gen + 1 /\ global_store_gen' \in 1 .. MaxGen
  BY DEF MemOK, DramWrite
<1>2. Sound(r, global_store_gen')
  BY <1>1 DEF MemOK, Sound, HartState
<1>3. ASSUME NEW g \in Harts
      PROVE  Hit(hart[g], a) \in HartState /\ Sound(Hit(hart[g], a), global_store_gen')
  <2> DEFINE s == hart[g]
             t == Hit(s, a)
  <2>1. s \in HartState /\ Sound(s, global_store_gen)
    BY DEF MemOK, Reserved
  <2> HIDE DEF s
  <2>2. t \in HartState /\ t.valid = s.valid /\ t.gen = s.gen
    BY <2>1 DEF Hit, HartState
  <2>3. t.valid => t.gen < global_store_gen'
    BY <2>1, <2>2, <1>1 DEF Sound, HartState, MemOK
  <2> QED
    BY <2>2, <2>3, <1>1, SMTT(30) DEF Sound, HartState, MemOK, s
<1>4. hart' = [g \in Harts |-> IF g = h THEN r ELSE Hit(hart[g], a)]
  BY DEF DramWrite
<1>5. hart' \in [Harts -> HartState] /\ Reserved'
  BY <1>2, <1>3, <1>4 DEF Reserved
<1> QED
  BY <1>1, <1>5 DEF MemOK

LEMMA StoreOK ==
  ASSUME MemOK, NEW h \in Harts, NEW r \in HartState, Sound(r, global_store_gen), Store(h, r)
  PROVE  MemOK'
  BY DramOK DEF Store, MemOK, ScWExclusive

LEMMA LrWOK ==
  ASSUME MemOK, NEW h \in Harts, NEW r \in HartState, LrW(h, r)
  PROVE  MemOK'
<1> PICK a \in Addrs :
      Only(h, [r EXCEPT !.valid = TRUE, !.addr = a, !.gen = global_store_gen, !.lost = @ \ {"w"}])
  BY DEF LrW
<1> DEFINE s == [r EXCEPT !.valid = TRUE, !.addr = a, !.gen = global_store_gen, !.lost = @ \ {"w"}]
<1>1. global_store_gen \in 0 .. MaxGen
  BY DEF MemOK
<1>2. s \in HartState
  BY <1>1 DEF HartState
<1>3. s.gen = global_store_gen /\ "w" \notin s.lost
  BY DEF HartState
<1>4. Sound(s, global_store_gen)
  BY <1>1, <1>3 DEF Sound
<1> HIDE DEF s
<1> QED
  BY <1>2, <1>4, OnlyOK DEF LrW, s

(* The reservation SC.W finds valid, for its address and of the current     *)
(* generation, has not been lost.                                           *)
LEMMA ScWOK ==
  ASSUME MemOK, NEW h \in Harts, NEW r \in HartState, Sound(r, global_store_gen), ScW(h, r)
  PROVE  MemOK'
<1> DEFINE s == [r EXCEPT !.valid = FALSE, !.addr = 0, !.lost = @ \ {"w"}]
           holds(a) == r.valid /\ r.addr = a /\ r.gen = global_store_gen
<1>1. s \in HartState /\ ~s.valid
  BY DEF HartState
<1>2. Sound(s, global_store_gen)
  BY <1>1 DEF Sound
<1> PICK a \in Addrs :
      \/ /\ holds(a) /\ DramWrite(h, s, a)
         /\ torn' = torn \cup (r.lost \cap {"w"})
      \/ ~holds(a) /\ Only(h, s) /\ UNCHANGED <<global_store_gen, torn>>
  BY DEF ScW
<1> HIDE DEF s
<1>3. CASE holds(a) /\ DramWrite(h, s, a) /\ torn' = torn \cup (r.lost \cap {"w"})
  <2>1. "w" \notin r.lost
    BY <1>3 DEF Sound, MemOK, HartState
  <2>2. torn' = torn
    BY <1>3, <2>1
  <2> QED
    BY <1>1, <1>2, <1>3, <2>2, DramOK DEF MemOK, ScWExclusive
<1>4. CASE Only(h, s) /\ UNCHANGED <<global_store_gen, torn>>
  BY <1>1, <1>2, <1>4, OnlyOK
<1> QED
  BY <1>3, <1>4

LEMMA LrDOK ==
  ASSUME MemOK, NEW h \in Harts, NEW r \in HartState, Sound(r, global_store_gen), LrD(h, r)
  PROVE  MemOK'
<1> PICK a \in Addrs : Only(h, [r EXCEPT !.valid64 = TRUE, !.addr64 = a, !.lost = @ \ {"d"}])
  BY DEF LrD
<1> DEFINE s == [r EXCEPT !.valid64 = TRUE, !.addr64 = a, !.lost = @ \ {"d"}]
<1>1. s \in HartState /\ s.valid = r.valid /\ s.gen = r.gen /\ s.lost \subseteq r.lost
  BY DEF HartState
<1>2. Sound(s, global_store_gen)
  BY <1>1 DEF Sound
<1> HIDE DEF s
<1> QED
  BY <1>1, <1>2, OnlyOK DEF LrD, s

LEMMA ScDOK ==
  ASSUME MemOK, NEW h \in Harts, NEW r \in HartState, Sound(r, global_store_gen), ScD(h, r)
  PROVE  MemOK'
<1> DEFINE s == [r EXCEPT !.valid64 = FALSE, !.addr64 = 0, !.lost = @ \ {"d"}]
           holds(a) == r.valid64 /\ r.addr64 = a
<1>1. s \in HartState /\ s.valid = r.valid /\ s.gen = r.gen /\ s.lost \subseteq r.lost
  BY DEF HartState
<1>2. Sound(s, global_store_gen)
  BY <1>1 DEF Sound
<1> PICK a \in Addrs :
      \/ /\ holds(a) /\ DramWrite(h, s, a)
         /\ torn' = torn \cup (r.lost \cap {"d"})
      \/ ~holds(a) /\ Only(h, s) /\ UNCHANGED <<global_store_gen, torn>>
  BY DEF ScD
<1> HIDE DEF s
<1>3. CASE DramWrite(h, s, a) /\ torn' = torn \cup (r.lost \cap {"d"})
  <2>1. torn' \subseteq {"w", "d"} /\ ScWExclusive'
    BY <1>3 DEF MemOK, ScWExclusive
  <2> QED
    BY <1>1, <1>2, <1>3, <2>1, DramOK
<1>4. CASE Only(h, s) /\ UNCHANGED <<global_store_gen, torn>>
  BY <1>1, <1>2, <1>4, OnlyOK
<1> QED
  BY <1>3, <1>4

LEMMA AtomicOK ==
  ASSUME MemOK, NEW h \in Harts, NEW r \in HartState, Sound(r, global_store_gen), Atomic(h, r)
  PROVE  MemOK' /\ UNCHANGED <<clintVars, uartVars, running>>
  BY StoreOK, LrWOK, ScWOK, LrDOK, ScDOK DEF Atomic

LEMMA SystemOK ==
  ASSUME MemOK, NEW h \in Harts, NEW r \in HartState, Sound(r, global_store_gen), System(h, r)
  PROVE  MemOK' /\ UNCHANGED <<clintVars, uartVars, running>>
<1> DEFINE Same(s) == s \in HartState /\ s.valid = r.valid /\ s.gen = r.gen /\ s.lost = r.lost
<1>1. PICK s : Only(h, s) /\ Same(s)
  <2>1. Same(r)
    OBVIOUS
  <2>2. Same([r EXCEPT !.in_wfi = TRUE])
    BY DEF HartState
  <2>3. Same([r EXCEPT !.mie = r.mpie, !.mpie = TRUE, !.in_wfi = FALSE])
    BY DEF HartState
  <2>4. Same(excep_function(r))
    BY DEF HartState, excep_function
  <2>5. \A b \in BOOLEAN, e \in SUBSET {"MSIE", "MTIE"} : Same([r EXCEPT !.mie = b, !.enabled = e])
    BY DEF HartState
  <2>6. \A f \in FlagSet : Same([r EXCEPT !.flags = @ \cup {f}])
    BY DEF HartState
  <2> HIDE DEF Same
  <2> QED
    BY <2>1, <2>2, <2>3, <2>4, <2>5, <2>6 DEF System
<1>2. Sound(s, global_store_gen)
  BY <1>1 DEF Sound
<1> QED
  BY <1>1, <1>2, OnlyOK DEF System

(* A half below HalfBase next to another is a CLINT register. *)
LEMMA Halves ==
  ASSUME NEW u \in 0 .. HalfBase - 1, NEW l \in 0 .. HalfBase - 1
  PROVE  u * HalfBase + l \in Times
<1>1. u * HalfBase <= (HalfBase - 1) * HalfBase /\ u * HalfBase \in Nat
  OBVIOUS
<1>2. (HalfBase - 1) * HalfBase = HalfBase * HalfBase - HalfBase /\ HalfBase * HalfBase \in Nat
  OBVIOUS
<1> QED
  BY <1>1, <1>2 DEF Times, Forever

LEMMA HighHalf ==
  ASSUME NEW t \in Times
  PROVE  t \div HalfBase \in 0 .. HalfBase - 1 /\ t % HalfBase \in 0 .. HalfBase - 1
<1> DEFINE q == t \div HalfBase
           m == t % HalfBase
<1>1. HalfBase * HalfBase \in Nat /\ t \in Nat /\ t < HalfBase * HalfBase
  BY DEF Times, Forever
<1>2. q \in Int /\ m \in 0 .. HalfBase - 1 /\ t = HalfBase * q + m
  BY <1>1
<1> HIDE DEF q, m
<1>3. q >= 0 /\ q < HalfBase
  BY <1>1, <1>2
<1> QED
  BY <1>2, <1>3 DEF q, m

(* A word store replaces one half of a CLINT register and keeps the other. *)
LEMMA MergeOK ==
  ASSUME NEW old \in Times, NEW v \in Times, NEW size \in {1, 4, 8}, NEW high \in BOOLEAN
  PROVE  Merge(old, v, size, high) \in Times
<1>1. (old \div HalfBase) * HalfBase + (v % HalfBase) \in Times
  BY HighHalf, Halves
<1>2. (v % HalfBase) * HalfBase + (old % HalfBase) \in Times
  BY HighHalf, Halves
<1> QED
  BY <1>1, <1>2 DEF Merge

LEMMA ClintWriteOK ==
  ASSUME MemOK, ClintOK, NEW h \in Harts, NEW r \in HartState, Sound(r, global_store_gen),
         ClintWrite(h, r)
  PROVE  MemOK' /\ ClintOK' /\ UNCHANGED <<uartVars, running>>
<1>1. MemOK'
  BY OnlyOK DEF ClintWrite
<1>2. ClintOK'
  <2>1. CASE (\E g \in Harts, b \in BOOLEAN : msip' = [msip EXCEPT ![g] = b])
             /\ UNCHANGED <<mtime, mtimecmp>>
    BY <2>1 DEF ClintOK
  <2>2. CASE (\E g \in Harts, v \in Times, size \in {1, 4, 8}, high \in BOOLEAN :
                mtimecmp' = [mtimecmp EXCEPT ![g] = Merge(@, v, size, high)])
             /\ UNCHANGED <<msip, mtime>>
    <3> PICK g \in Harts, v \in Times, size \in {1, 4, 8}, high \in BOOLEAN :
          mtimecmp' = [mtimecmp EXCEPT ![g] = Merge(@, v, size, high)]
      BY <2>2
    <3>1. Merge(mtimecmp[g], v, size, high) \in Times
      BY MergeOK DEF ClintOK
    <3> QED
      BY <2>2, <3>1 DEF ClintOK
  <2>3. CASE (\E v \in Times, size \in {1, 4, 8}, high \in BOOLEAN :
                mtime' = Merge(mtime, v, size, high))
             /\ UNCHANGED <<msip, mtimecmp>>
    <3> PICK v \in Times, size \in {1, 4, 8}, high \in BOOLEAN :
          mtime' = Merge(mtime, v, size, high)
      BY <2>3
    <3>1. Merge(mtime, v, size, high) \in Times
      BY MergeOK DEF ClintOK
    <3> QED
      BY <2>3, <3>1 DEF ClintOK
  <2> QED
    BY <2>1, <2>2, <2>3 DEF ClintWrite
<1> QED
  BY <1>1, <1>2 DEF ClintWrite

(* The first n bytes of the input, and one more. *)
Bytes(n) == [i \in 1 .. n |-> i]

LEMMA NextByte ==
  ASSUME NEW n \in Nat
  PROVE  Bytes(n) \in Seq(Nat) /\ Append(Bytes(n), n + 1) = Bytes(n + 1)
  BY DEF Bytes

(* What ConsoleInOrder says of a full and of an empty holding register. *)
LEMMA Console ==
  ASSUME UartOK
  PROVE  /\ uart_rx_byte = 0 => got = Bytes(inputs)
         /\ uart_rx_byte # 0 => Append(got, uart_rx_byte) = Bytes(inputs)
<1>1. got \in Seq(0 .. Input) /\ uart_rx_byte \in 0 .. Input
  BY DEF UartOK
<1>2. got \o <<>> = got
  BY <1>1, ConcatEmptySeq
<1>3. got \o <<uart_rx_byte>> = Append(got, uart_rx_byte)
  BY <1>1, AppendIsConcat
<1> QED
  BY <1>2, <1>3 DEF UartOK, ConsoleInOrder, Bytes

LEMMA UartStatusOK ==
  ASSUME UartOK, NEW h \in Harts, NEW r, UartStatus(h, r)
  PROVE  UartOK'
<1>1. CASE uart_rx_byte = 0 /\ inputs < Input /\ inputs' = inputs + 1 /\ uart_rx_byte' = inputs + 1
           /\ got' = got
  <2>1. inputs \in Nat /\ got \in Seq(0 .. Input) /\ got = Bytes(inputs)
    BY <1>1, Console DEF UartOK
  <2>2. Append(got', uart_rx_byte') = Bytes(inputs')
    BY <1>1, <2>1, NextByte
  <2>3. inputs' \in 0 .. Input /\ uart_rx_byte' \in 0 .. Input /\ uart_rx_byte' # 0
    BY <1>1 DEF UartOK
  <2>4. got' \o <<uart_rx_byte'>> = Append(got', uart_rx_byte')
    BY <1>1, <2>1, <2>3
  <2>5. ConsoleInOrder'
    BY <2>2, <2>3, <2>4 DEF ConsoleInOrder, Bytes
  <2> QED
    BY <1>1, <2>1, <2>3, <2>5 DEF UartOK
<1>2. CASE UNCHANGED <<inputs, uart_rx_byte, got>>
  BY <1>2 DEF UartOK, ConsoleInOrder
<1> QED
  BY <1>1, <1>2 DEF UartStatus

LEMMA UartRxOK ==
  ASSUME UartOK, NEW h \in Harts, NEW r, UartRx(h, r)
  PROVE  UartOK'
<1>1. got' \in Seq(0 .. Input) /\ inputs' = inputs /\ uart_rx_byte' = 0
  <2>1. got \in Seq(0 .. Input) /\ uart_rx_byte \in 0 .. Input
    BY DEF UartOK
  <2>2. Append(got, uart_rx_byte) \in Seq(0 .. Input)
    BY <2>1, AppendProperties
  <2> QED
    BY <2>1, <2>2 DEF UartRx
<1>2. got' = Bytes(inputs)
  BY Console DEF UartRx
<1>3. ConsoleInOrder'
  BY <1>1, <1>2 DEF ConsoleInOrder, Bytes
<1> QED
  BY <1>1, <1>3 DEF UartOK

LEMMA InstructionOK ==
  ASSUME EmuIInv, NEW h \in Harts, NEW r \in HartState, Sound(r, global_store_gen),
         ExecuteInstruction(h, r)
  PROVE  MemOK' /\ ClintOK' /\ UartOK' /\ running' \in BOOLEAN
<1> MemOK /\ ClintOK /\ UartOK /\ running \in BOOLEAN
  BY Parts
<1>1. CASE Atomic(h, r) \/ System(h, r)
  <2>1. MemOK' /\ UNCHANGED <<clintVars, uartVars, running>>
    BY <1>1, AtomicOK, SystemOK
  <2> QED
    BY <2>1 DEF clintVars, uartVars, ClintOK, UartOK, ConsoleInOrder
<1>2. CASE AckIpi(h, r)
  <2>1. MemOK'
    BY <1>2, OnlyOK DEF AckIpi
  <2> QED
    BY <1>2, <2>1 DEF AckIpi, uartVars, ClintOK, UartOK, ConsoleInOrder
<1>3. CASE Exit(h, r)
  <2>1. MemOK'
    BY <1>3, OnlyOK DEF Exit
  <2> QED
    BY <1>3, <2>1 DEF Exit, clintVars, uartVars, ClintOK, UartOK, ConsoleInOrder
<1>4. CASE ClintWrite(h, r)
  <2>1. MemOK' /\ ClintOK' /\ UNCHANGED <<uartVars, running>>
    BY <1>4, ClintWriteOK
  <2> QED
    BY <2>1 DEF uartVars, UartOK, ConsoleInOrder
<1>5. CASE UartStatus(h, r)
  <2>1. MemOK' /\ UartOK'
    BY <1>5, OnlyOK, UartStatusOK DEF UartStatus
  <2> QED
    BY <1>5, <2>1 DEF UartStatus, clintVars, ClintOK
<1>6. CASE UartRx(h, r)
  <2>1. MemOK' /\ UartOK'
    BY <1>6, OnlyOK, UartRxOK DEF UartRx
  <2> QED
    BY <1>6, <2>1 DEF UartRx, clintVars, ClintOK
<1> QED
  BY <1>1, <1>2, <1>3, <1>4, <1>5, <1>6 DEF ExecuteInstruction

LEMMA HartStepOK ==
  ASSUME EmuIInv, NEW h \in Harts, hart_step(h)
  PROVE  MemOK' /\ ClintOK' /\ UartOK' /\ running' \in BOOLEAN
<1> DEFINE r == TopOfStep(h)
<1>1. r \in HartState /\ Sound(r, global_store_gen)
  BY TopOK
<1>2. MemOK /\ ClintOK /\ UartOK /\ running \in BOOLEAN
  BY Parts
<1> HIDE DEF r
<1>3. CASE NoEffect /\ UNCHANGED hart
  BY <1>2, <1>3 DEF NoEffect, MemOK, Reserved, ScWExclusive, clintVars, uartVars, ClintOK, UartOK,
                    ConsoleInOrder
<1>4. CASE NoEffect /\ Only(h, [r EXCEPT !.in_wfi = ~Wakes(r, h)])
  <2>1. Wakes(r, h) \in BOOLEAN
    BY DEF Wakes
  <2>2. \A b \in BOOLEAN : LET s == [r EXCEPT !.in_wfi = b] IN
          s \in HartState /\ Sound(s, global_store_gen)
    BY <1>1 DEF HartState, Sound
  <2>3. MemOK'
    BY <1>2, <1>4, <2>1, <2>2, OnlyOK DEF NoEffect
  <2> QED
    BY <1>2, <1>4, <2>3 DEF NoEffect, clintVars, uartVars, ClintOK, UartOK, ConsoleInOrder
<1>5. CASE \E b \in BOOLEAN : ExecuteInstruction(h, [r EXCEPT !.stopRegion = b])
  <2>1. \A b \in BOOLEAN : LET s == [r EXCEPT !.stopRegion = b] IN
          s \in HartState /\ Sound(s, global_store_gen)
    BY <1>1 DEF HartState, Sound
  <2> QED
    BY <1>5, <2>1, InstructionOK
<1> QED
  BY <1>3, <1>4, <1>5 DEF hart_step, r

LEMMA StepHartOK ==
  ASSUME EmuIInv, StepHart, UNCHANGED cmd
  PROVE  EmuIInv'
<1>1. MemOK' /\ ClintOK' /\ UartOK' /\ running' \in BOOLEAN
  BY HartStepOK DEF StepHart
<1>2. /\ cmd' \in Commands /\ turn \in 0 .. NUM_HARTS - 1 /\ extra \in 0 .. Unroll
  BY DEF EmuIInv, EmuTypeOK, StepHart
<1>3. /\ turn' \in {turn, turn + 1} /\ extra' \in 0 .. Unroll
  BY <1>2 DEF StepHart
<1> QED
  BY <1>1, <1>2, <1>3, Parts DEF EmuIInv, EmuTypeOK, MemOK, ClintOK, UartOK

LEMMA DrainOK ==
  ASSUME NEW r \in HartState, Sound(r, global_store_gen)
  PROVE  Drain(r) \in HartState /\ Sound(Drain(r), global_store_gen)
<1> DEFINE Taken(e) == [excep_function(r) EXCEPT !.flags = @ \ {e}]
<1>1. \A e : Taken(e) \in HartState /\ Sound(Taken(e), global_store_gen)
  BY DEF HartState, Sound, excep_function
<1>2. Drain(r) = r \/ \E e : Drain(r) = Taken(e)
  BY DEF Drain
<1> QED
  BY <1>1, <1>2

LEMMA DeliverOK ==
  ASSUME EmuIInv, deliver_interrupts, UNCHANGED cmd
  PROVE  EmuIInv'
<1>1. \A h \in Harts : Drain(hart[h]) \in HartState /\ Sound(Drain(hart[h]), global_store_gen)
  BY DrainOK DEF EmuIInv, EmuTypeOK, Reserved
<1>2. hart' = [h \in Harts |-> Drain(hart[h])]
  BY DEF deliver_interrupts
<1>3. hart' \in [Harts -> HartState] /\ Reserved'
  BY <1>1, <1>2 DEF Reserved, deliver_interrupts
<1>4. turn' \in 0 .. NUM_HARTS + 1
  BY DEF deliver_interrupts
<1> QED
  BY <1>3, <1>4 DEF EmuIInv, EmuTypeOK, ScWExclusive, ConsoleInOrder, deliver_interrupts, clintVars,
                    uartVars

LEMMA TickOK ==
  ASSUME EmuIInv, tick_only, UNCHANGED cmd
  PROVE  EmuIInv'
<1>1. mtime' \in Times
  <2>1. mtime \in Times /\ HalfBase * HalfBase \in Nat
    BY DEF EmuIInv, EmuTypeOK
  <2> QED
    BY <2>1 DEF tick_only, Times, Forever
<1>2. turn' \in 0 .. NUM_HARTS + 1
  BY DEF tick_only
<1> QED
  BY <1>1, <1>2 DEF EmuIInv, EmuTypeOK, Reserved, ScWExclusive, ConsoleInOrder, tick_only, uartVars

LEMMA EmuStepOK == EmuIInv /\ [EmuNext]_<<cmd, emuVars>> => EmuIInv'
<1> SUFFICES ASSUME EmuIInv, [EmuNext]_<<cmd, emuVars>> PROVE EmuIInv'
  OBVIOUS
<1>1. CASE EmuNext
  BY <1>1, StepHartOK, DeliverOK, TickOK DEF EmuNext
<1>2. CASE UNCHANGED <<cmd, emuVars>>
  BY <1>2 DEF emuVars, EmuIInv, EmuTypeOK, Reserved, ScWExclusive, ConsoleInOrder
<1> QED
  BY <1>1, <1>2

(* The state of the emulator keeps its types whatever the images run: in     *)
(* particular a word store into half of mtime or mtimecmp leaves a 64-bit    *)
(* value, and the bring-up guard never goes below zero though a step may     *)
(* count it down twice.                                                      *)
THEOREM EmulatorTypes == EmuSpec => []EmuTypeOK
<1>1. EmuIInv => EmuTypeOK
  BY DEF EmuIInv
<1> QED
  BY EmuInitOK, EmuStepOK, <1>1, PTL DEF EmuSpec

(* For every number of harts and every interleaving, an SC.W that succeeds   *)
(* had neither a store of another hart to its word nor an interrupt since    *)
(* its LR.W (amo_reserve_gen against global_store_gen).                      *)
THEOREM EmulatorScW == EmuSpec => []ScWExclusive
<1>1. EmuIInv => ScWExclusive
  BY DEF EmuIInv
<1> QED
  BY EmuInitOK, EmuStepOK, <1>1, PTL DEF EmuSpec

(* The guest reads the bytes of stdin in order, each once, whichever harts   *)
(* poll STATUS and read RX.                                                  *)
THEOREM EmulatorConsole == EmuSpec => []ConsoleInOrder
<1>1. EmuIInv => ConsoleInOrder
  BY DEF EmuIInv
<1> QED
  BY EmuInitOK, EmuStepOK, <1>1, PTL DEF EmuSpec

(* The three together, the property the run host checks of the emulator.     *)
THEOREM EmulatorSafety == EmuSpec => []EmulatorSafe
<1>1. EmuTypeOK /\ ScWExclusive /\ ConsoleInOrder => EmulatorSafe
  BY DEF EmulatorSafe
<1> QED
  BY <1>1, EmulatorTypes, EmulatorScW, EmulatorConsole, PTL

-----------------------------------------------------------------------------
(***************************************************************************)
(* The barrier.                                                            *)
(***************************************************************************)

BarrierTypeOK ==
  /\ sense \in {0, 1}
  /\ count \in Nat
  /\ threadsense \in [Harts -> {0, 1}]
  /\ stage \in [Harts -> {"out", "spin", "reset", "release"}]

(* RoundExact is inductive together with the types. *)
BarrierIInv == BarrierTypeOK /\ RoundExact

(* The harts are a finite set of NUM_HARTS elements, at least one; so is    *)
(* any part of them, and only the whole has as many.                        *)
LEMMA HartsFinite ==
  /\ IsFiniteSet(Harts) /\ Cardinality(Harts) = NUM_HARTS /\ Harts # {}
  /\ \A S \in SUBSET Harts :
       /\ IsFiniteSet(S) /\ Cardinality(S) \in Nat
       /\ Cardinality(S) = NUM_HARTS <=> S = Harts
<1>1. IsFiniteSet(Harts) /\ Cardinality(Harts) = NUM_HARTS
  BY FS_Interval
<1>2. 0 \in Harts
  OBVIOUS
<1>3. ASSUME NEW S \in SUBSET Harts
      PROVE  /\ IsFiniteSet(S) /\ Cardinality(S) \in Nat
             /\ Cardinality(S) = NUM_HARTS <=> S = Harts
  BY <1>1, <1>3, FS_Subset, FS_CardinalityType
<1> QED
  BY <1>1, <1>2, <1>3

(* While a hart is outside or may pass, nobody is between the last hart's   *)
(* two stores.                                                              *)
LEMMA NobodyLast ==
  ASSUME BarrierIInv, NEW h \in Harts, stage[h] = "out" \/ h \notin Held
  PROVE  /\ \A g \in Harts : stage[g] \in {"out", "spin"}
         /\ count = Cardinality(Held) /\ Held # Harts
<1>1. ASSUME NEW g \in Harts, stage[g] \in {"reset", "release"} PROVE FALSE
  <2>1. Held = Harts
    BY <1>1 DEF BarrierIInv, RoundExact
  <2>2. stage[h] = "out" => h \notin Held
    BY DEF BarrierIInv, RoundExact
  <2> QED
    BY <2>1, <2>2
<1>2. \A g \in Harts : stage[g] \in {"out", "spin"}
  BY <1>1 DEF BarrierIInv, BarrierTypeOK
<1> QED
  BY <1>2 DEF BarrierIInv, RoundExact

LEMMA BarrierInitOK == BarrierInit => BarrierIInv
<1> SUFFICES ASSUME BarrierInit PROVE BarrierIInv
  OBVIOUS
<1>1. Held = {}
  BY DEF BarrierInit, Held
<1>2. \A h \in Harts : stage[h] = "out"
  BY DEF BarrierInit
<1>3. count = Cardinality(Held) /\ Held # Harts
  BY <1>1, FS_EmptySet, HartsFinite DEF BarrierInit
<1> QED
  BY <1>1, <1>2, <1>3 DEF BarrierInit, BarrierIInv, BarrierTypeOK, RoundExact

(* An arrival joins the round. *)
LEMMA ArriveHolds ==
  ASSUME BarrierIInv, NEW h \in Harts, Arrive(h)
  PROVE  h \notin Held /\ Held' = Held \cup {h}
<1>1. h \notin Held /\ threadsense[h] = sense
  BY DEF BarrierIInv, RoundExact, Arrive, Held
<1>2. threadsense'[h] # sense'
  BY <1>1 DEF BarrierIInv, BarrierTypeOK, Arrive
<1>3. \A g \in Harts \ {h} : threadsense'[g] = threadsense[g]
  BY DEF BarrierIInv, BarrierTypeOK, Arrive
<1> QED
  BY <1>1, <1>2, <1>3 DEF Arrive, Held

LEMMA ArriveOK ==
  ASSUME BarrierIInv, NEW h \in Harts, Arrive(h)
  PROVE  BarrierIInv'
<1>1. BarrierTypeOK'
  BY DEF BarrierIInv, BarrierTypeOK, Arrive
<1>2. /\ \A g \in Harts : stage[g] \in {"out", "spin"}
      /\ count = Cardinality(Held) /\ Held # Harts
  BY NobodyLast DEF Arrive
<1>3. h \notin Held /\ Held' = Held \cup {h}
  BY ArriveHolds
<1>4. Held \in SUBSET Harts /\ Held' \in SUBSET Harts
  BY DEF Held
<1>5. count' = Cardinality(Held')
  BY <1>2, <1>3, <1>4, HartsFinite, FS_AddElement DEF Arrive
<1>6. \A g \in Harts \ {h} : stage'[g] = stage[g]
  BY DEF BarrierIInv, BarrierTypeOK, Arrive
<1>7. \A g \in Harts : stage'[g] = "out" => g \notin Held'
  BY <1>3, <1>6 DEF BarrierIInv, BarrierTypeOK, RoundExact, Arrive
<1>8. CASE count = NUM_HARTS - 1
  <2>1. stage'[h] = "reset" /\ count' = NUM_HARTS
    BY <1>8 DEF BarrierIInv, BarrierTypeOK, Arrive
  <2>2. Held' = Harts
    BY <2>1, <1>4, <1>5, HartsFinite
  <2>3. \A g \in Harts \ {h} : stage'[g] = "spin"
    BY <2>2, <1>2, <1>6, <1>7
  <2> QED
    BY <1>1, <1>7, <2>1, <2>2, <2>3 DEF BarrierIInv, RoundExact
<1>9. CASE count # NUM_HARTS - 1
  <2>1. stage'[h] = "spin" /\ count' # NUM_HARTS
    BY <1>9 DEF BarrierIInv, BarrierTypeOK, Arrive
  <2>2. Held' # Harts
    BY <2>1, <1>4, <1>5, HartsFinite
  <2>3. \A g \in Harts : stage'[g] \in {"out", "spin"}
    BY <2>1, <1>2, <1>6
  <2> QED
    BY <1>1, <1>5, <1>7, <2>2, <2>3 DEF BarrierIInv, RoundExact
<1> QED
  BY <1>8, <1>9

LEMMA ResetOK ==
  ASSUME BarrierIInv, NEW h \in Harts, ResetCount(h)
  PROVE  BarrierIInv' /\ Held' = Held
<1>1. BarrierTypeOK'
  BY DEF BarrierIInv, BarrierTypeOK, ResetCount
<1>2. Held = Harts /\ \A g \in Harts \ {h} : stage[g] = "spin"
  BY DEF BarrierIInv, RoundExact, ResetCount
<1>3. Held' = Held
  BY DEF Held, ResetCount
<1>4. stage'[h] = "release" /\ \A g \in Harts \ {h} : stage'[g] = "spin"
  BY <1>2 DEF BarrierIInv, BarrierTypeOK, ResetCount
<1>5. count' = 0
  BY DEF ResetCount
<1> QED
  BY <1>1, <1>2, <1>3, <1>4, <1>5 DEF BarrierIInv, RoundExact

(* The release empties the round: everybody waits for the new sense. *)
LEMMA ReleaseOpens ==
  ASSUME BarrierIInv, NEW h \in Harts, Release(h)
  PROVE  /\ Held = Harts /\ Held' = {}
         /\ stage'[h] = "out" /\ \A g \in Harts \ {h} : stage'[g] = "spin"
<1>1. Held = Harts /\ \A g \in Harts \ {h} : stage[g] = "spin"
  BY DEF BarrierIInv, RoundExact, Release
<1>2. \A g \in Harts : threadsense[g] # sense
  BY <1>1 DEF Held
<1>3. \A g \in Harts : threadsense'[g] = sense'
  BY <1>2 DEF BarrierIInv, BarrierTypeOK, Release
<1>4. Held' = {}
  BY <1>3 DEF Held
<1> QED
  BY <1>1, <1>4 DEF BarrierIInv, BarrierTypeOK, Release

LEMMA ReleaseOK ==
  ASSUME BarrierIInv, NEW h \in Harts, Release(h)
  PROVE  BarrierIInv'
<1>1. BarrierTypeOK'
  BY DEF BarrierIInv, BarrierTypeOK, Release
<1>2. /\ Held' = {}
      /\ stage'[h] = "out" /\ \A g \in Harts \ {h} : stage'[g] = "spin"
  BY ReleaseOpens
<1>3. count' = 0
  BY DEF BarrierIInv, RoundExact, Release
<1>4. count' = Cardinality(Held') /\ Held' # Harts
  BY <1>2, <1>3, FS_EmptySet, HartsFinite
<1> QED
  BY <1>1, <1>2, <1>4 DEF BarrierIInv, RoundExact

LEMMA PassOK ==
  ASSUME BarrierIInv, NEW h \in Harts, Pass(h)
  PROVE  BarrierIInv' /\ Held' = Held /\ h \notin Held
<1>1. BarrierTypeOK'
  BY DEF BarrierIInv, BarrierTypeOK, Pass
<1>2. h \notin Held /\ Held' = Held
  BY DEF Held, Pass
<1>3. /\ \A g \in Harts : stage[g] \in {"out", "spin"}
      /\ count = Cardinality(Held) /\ Held # Harts
  BY <1>2, NobodyLast
<1>4. \A g \in Harts : stage'[g] \in {"out", "spin"} /\ (stage'[g] = "out" => g \notin Held)
  BY <1>2, <1>3 DEF BarrierIInv, BarrierTypeOK, RoundExact, Pass
<1>5. count' = count
  BY DEF Pass
<1> QED
  BY <1>1, <1>2, <1>3, <1>4, <1>5 DEF BarrierIInv, RoundExact

LEMMA BarrierStepOK == BarrierIInv /\ [BarrierNext]_barrierVars => BarrierIInv'
<1> SUFFICES ASSUME BarrierIInv, [BarrierNext]_barrierVars PROVE BarrierIInv'
  OBVIOUS
<1>1. CASE BarrierNext
  <2> PICK h \in Harts : Arrive(h) \/ InBarrier(h)
    BY <1>1 DEF BarrierNext
  <2> QED
    BY ArriveOK, ResetOK, ReleaseOK, PassOK DEF InBarrier
<1>2. CASE UNCHANGED barrierVars
  BY <1>2 DEF barrierVars, BarrierIInv, BarrierTypeOK, RoundExact, Held
<1> QED
  BY <1>1, <1>2

(* The counter and the sense always describe the current round, and the     *)
(* last hart finds everybody else spinning (barrier() in util.h).           *)
THEOREM BarrierRounds == BarrierSpec => []RoundExact
<1>1. BarrierIInv => RoundExact
  BY DEF BarrierIInv
<1> QED
  BY BarrierInitOK, BarrierStepOK, <1>1, PTL DEF BarrierSpec

(* Nobody leaves barrier() before everybody has entered it, in every round  *)
(* and for every number of harts: the sense-reversing barrier implements    *)
(* the rendezvous.                                                          *)
THEOREM BarrierMeets == BarrierSpec => MeetingSpec
<1> DEFINE Leaving == {h \in Harts : stage[h] = "spin" /\ threadsense[h] = sense}
           Mapping == <<Held, Leaving>>
<1>1. BarrierInit => Meeting!Init
  BY DEF BarrierInit, Meeting!Init, Held
<1>2. BarrierIInv /\ BarrierIInv' /\ [BarrierNext]_barrierVars => [Meeting!Next]_Mapping
  <2> SUFFICES ASSUME BarrierIInv, BarrierIInv', [BarrierNext]_barrierVars PROVE [Meeting!Next]_Mapping
    OBVIOUS
  <2>1. ASSUME NEW h \in Harts, Arrive(h) PROVE Meeting!Next
    <3>1. h \notin Held /\ Held' = Held \cup {h}
      BY <2>1, ArriveHolds
    <3>2. h \notin Leaving
      BY <2>1 DEF Arrive
    <3>3. h \notin Leaving'
      BY <3>1 DEF Held
    <3>4. \A g \in Harts \ {h} : stage'[g] = stage[g] /\ threadsense'[g] = threadsense[g]
      BY <2>1 DEF BarrierIInv, BarrierTypeOK, Arrive
    <3>5. Leaving' = Leaving
      BY <2>1, <3>2, <3>3, <3>4 DEF Arrive
    <3> QED
      BY <3>1, <3>2, <3>5 DEF Meeting!Next, Meeting!Arrive
  <2>2. ASSUME NEW h \in Harts, ResetCount(h) PROVE UNCHANGED Mapping
    <3>1. Held' = Held
      BY <2>2, ResetOK
    <3>2. Leaving' = Leaving
      BY <2>2 DEF BarrierIInv, BarrierTypeOK, ResetCount
    <3> QED
      BY <3>1, <3>2
  <2>3. ASSUME NEW h \in Harts, Release(h) PROVE Meeting!Next
    <3>1. /\ Held = Harts /\ Held' = {}
          /\ stage'[h] = "out" /\ \A g \in Harts \ {h} : stage'[g] = "spin"
      BY <2>3, ReleaseOpens
    <3>2. Leaving' = Harts \ {h}
      BY <3>1 DEF Held
    <3> QED
      BY <3>1, <3>2 DEF Meeting!Next, Meeting!Open
  <2>4. ASSUME NEW h \in Harts, Pass(h) PROVE Meeting!Next
    <3>1. Held' = Held
      BY <2>4, PassOK
    <3>2. h \in Leaving /\ Leaving' = Leaving \ {h}
      BY <2>4 DEF BarrierIInv, BarrierTypeOK, Pass
    <3> QED
      BY <3>1, <3>2 DEF Meeting!Next, Meeting!Leave
  <2>5. CASE UNCHANGED barrierVars
    BY <2>5 DEF barrierVars, Held
  <2> QED
    BY <2>1, <2>2, <2>3, <2>4, <2>5 DEF BarrierNext, InBarrier
<1> QED
  BY <1>1, <1>2, BarrierInitOK, BarrierStepOK, PTL DEF BarrierSpec, MeetingSpec, Meeting!Spec

-----------------------------------------------------------------------------
(* Of the constants, the console's proofs use the number of harts only.      *)
LEMMA HartCount == NUM_HARTS \in Nat \ {0}
  BY Bounds

HIDE Bounds
USE HartCount

(* The console.  What a checkpoint holds, and the state the proofs need of   *)
(* it.                                                                       *)
Uart == [taken : BOOLEAN, guest : {"idle", "saw", "pop"}]
Words == 0 .. Never

ConTypes ==
  /\ cmd \in Commands
  /\ tickcount \in Nat /\ origin \in Nat /\ retired \in Nat
  /\ heard \in Seq(Nat) /\ ckpts \in Seq(Nat)
  /\ uartRx \in Uart /\ hostInput \in [valid : BOOLEAN, char : Nat]
  /\ pcs \in [Harts -> Words]
  /\ simPc \in {"step", "host", "save", "off", "exit0", "exit1"}

(* A whole file holds a state of the cores; a process that booted has files  *)
(* of its own past only; the file a process came from is whole and older     *)
(* than everything the process writes or prunes.                             *)
FilesOK ==
  /\ \A n \in DOMAIN disk : n \in Nat \ {0}
  /\ \A n \in DOMAIN disk : disk[n].whole =>
       disk[n].uart \in Uart /\ disk[n].pcs \in [Harts -> Words]
       /\ (disk[n].uart.taken => disk[n].uart.guest = "idle")
  /\ origin = 0 => \A n \in DOMAIN disk : n <= tickcount /\ (simPc = "host" => n < tickcount)
  /\ origin # 0 => origin \in DOMAIN disk /\ disk[origin].whole
  /\ origin <= tickcount /\ (simPc \in {"host", "save"} => origin < tickcount)
  /\ \A i \in 1 .. Len(ckpts) :
       /\ origin < ckpts[i] /\ ckpts[i] <= tickcount
       /\ simPc \in {"host", "save"} => ckpts[i] < tickcount
  /\ simPc = "save" => tickcount \in DOMAIN disk

(* A byte on the pins is the next one; a guest that is about to pop while    *)
(* the pins are low is one whose byte was just retired or, when the host     *)
(* comes to look, one that a restore left without.                           *)
PinsOK ==
  /\ uartRx.taken => uartRx.guest = "idle"
  /\ hostInput.valid => hostInput.char = retired + 1
  /\ (uartRx.guest = "saw" \/ (IsSim /\ uartRx.guest # "idle" /\ simPc = "host")) /\ ~hostInput.valid =>
       heard = <<>> /\ retired = 0 /\ Retracted

(* uartrx_test: the guest only looks while a byte is offered, no more bytes  *)
(* are sent than the text has, and the captured bytes are what the guest     *)
(* transmitted.                                                              *)
RxOK ==
  IsRx =>
    /\ origin = 0 /\ simPc # "off"
    /\ uartRx.guest # "idle" => hostInput.valid
    /\ retired <= cmd.text /\ (hostInput.valid => retired < cmd.text)
    /\ tx \in Seq(Nat) /\ echoed = Len(tx) /\ (txPrev <=> txPin.valid)
    /\ \A i \in 1 .. Len(tx) :
         \/ i <= Len(Script) /\ tx[i] = Script[i]
         \/ i = Len(tx) /\ tx[i] = RXFAIL /\ simPc # "step"

(* A band is the extremes of the PCs of its window. *)
Spans(b, S) == b[1] \in S /\ b[2] \in S /\ \A p \in S : b[1] <= p /\ p <= b[2]

BandsOK ==
  /\ nextHb \in Nat
  /\ band \in [Harts -> Words \X Words] /\ prevBand \in [Harts -> Words \X Words]
  /\ window \in [Harts -> (SUBSET Words) \X (SUBSET Words)]
  /\ \A h \in Harts :
       /\ IF window[h][1] = {} THEN band[h] = Bottom ELSE Spans(band[h], window[h][1])
       /\ Spans(prevBand[h], window[h][2])

ConIInv == ConTypes /\ FilesOK /\ PinsOK /\ RxOK /\ BandsOK /\ ConsoleSound


LEMMA ConInitOK == cmd \in Commands /\ ConsoleInit => ConIInv
<1> SUFFICES ASSUME cmd \in Commands, ConsoleInit PROVE ConIInv
  OBVIOUS
<1>1. ConTypes
  BY DEF ConsoleInit, ConTypes, Uart, Words, NUL, Never
<1>2. FilesOK
  BY DEF ConsoleInit, FilesOK
<1>3. PinsOK
  BY DEF ConsoleInit, PinsOK
<1>4. RxOK
  <2>1. IsRx => cmd.text \in Nat
    BY ConsoleCommands DEF IsRx
  <2>2. txPin.valid = FALSE /\ txPrev = FALSE /\ tx = <<>> /\ echoed = 0 /\ origin = 0 /\ simPc = "step"
        /\ uartRx.guest = "idle" /\ hostInput.valid = FALSE /\ retired = 0
    BY DEF ConsoleInit
  <2>3. tx \in Seq(Nat) /\ Len(tx) = 0 /\ 1 .. Len(tx) = {}
    BY <2>2
  <2>4. IsRx => retired <= cmd.text
    BY <2>1, <2>2
  <2> QED
    BY <2>2, <2>3, <2>4 DEF RxOK
<1>5. BandsOK
  <2>0. Never \in Words /\ 0 \in Words
    BY DEF Words, Never
  <2>1. Bottom \in Words \X Words /\ <<0, 0>> \in Words \X Words
    BY <2>0 DEF Bottom
  <2>2. <<{}, {0}>> \in (SUBSET Words) \X (SUBSET Words)
    BY <2>0
  <2>3. band \in [Harts -> Words \X Words] /\ prevBand \in [Harts -> Words \X Words]
        /\ window \in [Harts -> (SUBSET Words) \X (SUBSET Words)]
    BY <2>1, <2>2 DEF ConsoleInit
  <2>4. \A h \in Harts : band[h] = Bottom /\ prevBand[h] = <<0, 0>> /\ window[h] = <<{}, {0}>>
    BY DEF ConsoleInit
  <2>5. \A h \in Harts : window[h][1] = {} /\ window[h][2] = {0} /\ prevBand[h][1] = 0 /\ prevBand[h][2] = 0
    <3> SUFFICES ASSUME NEW h \in Harts
                 PROVE  window[h][1] = {} /\ window[h][2] = {0} /\ prevBand[h][1] = 0 /\ prevBand[h][2] = 0
      OBVIOUS
    <3>1. window[h] = <<{}, {0}>> /\ prevBand[h] = <<0, 0>>
      BY <2>4
    <3> QED
      BY <3>1
  <2>6. nextHb \in Nat
    <3>1. IsSim => cmd.hb \in Nat
      BY ConsoleCommands DEF IsSim
    <3>2. Never \in Nat
      BY DEF Never
    <3> QED
      BY <3>1, <3>2 DEF ConsoleInit
  <2> QED
    BY <2>3, <2>4, <2>5, <2>6 DEF BandsOK, Spans
<1>6. ConsoleSound
  BY DEF ConsoleInit, ConsoleSound, KeysPaired, RxPassSound, Retracted
<1> QED
  BY <1>1, <1>2, <1>3, <1>4, <1>5, <1>6 DEF ConIInv

(* One edge of the receiver: only a pop reads, and only an offered byte      *)
(* makes an idle guest look.                                                 *)
LEMMA UartEdgeOK ==
  ASSUME ConTypes, NEW pins \in [valid : BOOLEAN, char : Nat], NEW mayPoll, UartEdge(pins, mayPoll)
  PROVE  /\ uartRx' \in Uart /\ heard' \in Seq(Nat)
         /\ uartRx.guest = "pop" =>
              /\ uartRx'.guest = "idle"
              /\ uartRx'.taken = pins.valid
              /\ heard' = Append(heard, IF pins.valid /\ ~uartRx.taken THEN pins.char ELSE NUL)
         /\ uartRx.guest # "pop" =>
              heard' = heard /\ (uartRx'.taken <=> pins.valid /\ uartRx.taken)
         /\ uartRx.guest = "idle" =>
              uartRx'.guest = "idle" \/ (uartRx'.guest = "saw" /\ pins.valid /\ ~uartRx.taken /\ mayPoll)
         /\ uartRx.guest = "saw" => uartRx'.guest \in {"saw", "pop"}
<1>1. uartRx.guest \in {"idle", "saw", "pop"} /\ uartRx.taken \in BOOLEAN /\ pins.valid \in BOOLEAN
      /\ heard \in Seq(Nat) /\ pins.char \in Nat
  BY DEF ConTypes, Uart
<1> DEFINE offered == pins.valid /\ ~uartRx.taken
           popped  == uartRx.guest = "pop" /\ offered
<1>2. heard' = IF uartRx.guest = "pop"
               THEN Append(heard, IF popped THEN pins.char ELSE NUL) ELSE heard
  BY DEF UartEdge
<1>3. CASE uartRx.guest = "idle"
  <2>1. PICK g \in {"idle"} \cup (IF offered /\ mayPoll THEN {"saw"} ELSE {}) :
          uartRx' = [taken |-> pins.valid /\ (uartRx.taken \/ popped), guest |-> g]
    BY <1>3 DEF UartEdge
  <2>2. g = "idle" \/ (g = "saw" /\ offered /\ mayPoll)
    OBVIOUS
  <2> QED
    BY <1>1, <1>2, <1>3, <2>1, <2>2 DEF Uart
<1>4. CASE uartRx.guest = "saw"
  <2>1. PICK g \in {"saw", "pop"} :
          uartRx' = [taken |-> pins.valid /\ (uartRx.taken \/ popped), guest |-> g]
    BY <1>4 DEF UartEdge
  <2> QED
    BY <1>1, <1>2, <1>4, <2>1 DEF Uart
<1>5. CASE uartRx.guest = "pop"
  <2>1. uartRx' = [taken |-> pins.valid /\ (uartRx.taken \/ popped), guest |-> "idle"]
    BY <1>5 DEF UartEdge
  <2>2. heard' \in Seq(Nat)
    BY <1>1, <1>2, <1>5 DEF NUL
  <2> QED
    BY <1>1, <1>2, <1>5, <2>1, <2>2 DEF Uart
<1> QED
  BY <1>1, <1>3, <1>4, <1>5

(* One look of linux_sim at the pins: a consumed byte is retired and the     *)
(* pins go low, a held one stays, or the next byte is offered.               *)
LEMMA HandshakeOK ==
  ASSUME ConTypes, PinsOK, Handshake
  PROVE  /\ hostInput' \in [valid : BOOLEAN, char : Nat] /\ retired' \in Nat
         /\ \/ /\ hostInput.valid /\ Consumed /\ ~hostInput'.valid
               /\ retired' = retired + 1
            \/ /\ hostInput.valid /\ ~Consumed /\ retired' = retired
               /\ hostInput'.valid /\ hostInput'.char = hostInput.char
            \/ ~hostInput.valid /\ retired' = retired /\ ~hostInput'.valid
            \/ /\ ~hostInput.valid /\ ~Consumed /\ retired' = retired
               /\ hostInput'.valid /\ hostInput'.char = retired + 1
<1>1. hostInput \in [valid : BOOLEAN, char : Nat] /\ retired \in Nat
  BY DEF ConTypes
<1> DEFINE v == hostInput.valid /\ ~Consumed
           Pins == [valid : BOOLEAN, char : Nat]
           low == [hostInput EXCEPT !.valid = FALSE]
           next == [valid |-> TRUE, char |-> retired + 1]
<1>a. low \in Pins /\ low.valid = FALSE
  BY <1>1
<1>b. next \in Pins /\ next.valid = TRUE /\ next.char = retired + 1
  BY <1>1
<1>c. hostInput.valid => hostInput = [hostInput EXCEPT !.valid = TRUE]
  BY <1>1
<1>2. CASE hostInput.valid /\ Consumed
  <2>1. v = FALSE
    BY <1>2
  <2>2. retired' = retired + 1
    BY <1>2 DEF Handshake
  <2>3. hostInput' = [hostInput EXCEPT !.valid = v]
    BY <1>2, Zenon DEF Handshake
  <2>4. hostInput' = low
    BY <2>1, <2>3
  <2> HIDE DEF low, next, v
  <2>5. hostInput' \in Pins /\ ~hostInput'.valid /\ retired' \in Nat
    BY <1>1, <1>a, <2>2, <2>4
  <2> QED
    BY <1>2, <2>2, <2>5
<1>3. CASE hostInput.valid /\ ~Consumed
  <2>1. v = TRUE
    BY <1>3
  <2>2. retired' = retired + 0
    BY <1>3 DEF Handshake
  <2>3. hostInput' = [hostInput EXCEPT !.valid = v]
    BY <1>3, Zenon DEF Handshake
  <2>4. hostInput' = [hostInput EXCEPT !.valid = TRUE]
    BY <2>1, <2>3
  <2>5. hostInput' = hostInput
    BY <1>3, <1>c, <2>4
  <2> HIDE DEF low, next, v
  <2>6. hostInput' \in Pins /\ hostInput'.valid /\ hostInput'.char = hostInput.char
        /\ retired' = retired /\ retired' \in Nat
    BY <1>1, <1>3, <2>2, <2>5
  <2> QED
    BY <1>3, <2>6
<1>4. CASE ~hostInput.valid /\ Consumed
  <2>1. v = FALSE
    BY <1>4
  <2>2. retired' = retired + 0
    BY <1>4 DEF Handshake
  <2>3. hostInput' = [hostInput EXCEPT !.valid = v]
    BY <1>4, Zenon DEF Handshake
  <2>4. hostInput' = low
    BY <2>1, <2>3
  <2> HIDE DEF low, next, v
  <2>5. hostInput' \in Pins /\ ~hostInput'.valid /\ retired' = retired /\ retired' \in Nat
    BY <1>1, <1>a, <2>2, <2>4
  <2> QED
    BY <1>4, <2>5
<1>5. CASE ~hostInput.valid /\ ~Consumed
  <2>1. retired' = retired + 0
    BY <1>5 DEF Handshake
  <2>2. ~(v \/ Consumed)
    BY <1>5
  <2>3. \/ hostInput' = low
        \/ \E key \in {FALSE} \cup (IF retired < cmd.keys THEN {TRUE} ELSE {}) :
             hostInput' = IF key THEN next ELSE low
    BY <2>2, Zenon DEF Handshake
  <2>4. hostInput' = low \/ hostInput' = next
    BY <2>3, Zenon
  <2> HIDE DEF low, next, v
  <2>5. /\ hostInput' \in Pins /\ retired' = retired /\ retired' \in Nat
        /\ ~hostInput'.valid \/ (hostInput'.valid /\ hostInput'.char = retired + 1)
    BY <1>1, <1>a, <1>b, <2>1, <2>4
  <2> QED
    BY <1>5, <2>5
<1> QED
  BY <1>1, <1>2, <1>3, <1>4, <1>5

(* The pins after an iteration of uartrx_test. *)
LEMMA ServicePinsOK ==
  ASSUME ConTypes, hostInput' = ServicePins,
         retired' = retired + (IF hostInput.valid /\ ~hostInput'.valid THEN 1 ELSE 0)
  PROVE  /\ hostInput' \in [valid : BOOLEAN, char : Nat] /\ retired' \in Nat
         /\ \/ hostInput' = hostInput /\ retired' = retired
            \/ /\ hostInput.valid /\ Consumed /\ ~hostInput'.valid /\ hostInput'.char = hostInput.char
               /\ retired' = retired + 1
            \/ /\ ~hostInput.valid /\ ~Consumed /\ retired < cmd.text /\ retired' = retired
               /\ hostInput'.valid /\ hostInput'.char = retired + 1
<1>1. hostInput \in [valid : BOOLEAN, char : Nat] /\ retired \in Nat
  BY DEF ConTypes
<1>2. CASE hostInput' = hostInput
  BY <1>1, <1>2
<1>3. CASE hostInput' # hostInput /\ hostInput.valid
  <2>1. hostInput' = [hostInput EXCEPT !.valid = ~Consumed]
    BY <1>3 DEF ServicePins
  <2>2. Consumed
    <3>1. SUFFICES ASSUME ~Consumed PROVE FALSE
      OBVIOUS
    <3>2. hostInput' = [hostInput EXCEPT !.valid = TRUE]
      BY <2>1, <3>1
    <3>3. hostInput.valid = TRUE
      BY <1>1, <1>3
    <3> QED
      BY <1>1, <1>3, <3>2, <3>3
  <2>3. hostInput' = [hostInput EXCEPT !.valid = FALSE]
    BY <2>1, <2>2
  <2>4. hostInput' \in [valid : BOOLEAN, char : Nat] /\ ~hostInput'.valid /\ hostInput'.char = hostInput.char
    BY <1>1, <2>3
  <2>5. retired' = retired + 1 /\ retired' \in Nat
    BY <1>1, <1>3, <2>4
  <2> QED
    BY <1>3, <2>2, <2>4, <2>5
<1>4. CASE hostInput' # hostInput /\ ~hostInput.valid
  <2>1. hostInput' = [valid |-> TRUE, char |-> retired + 1] /\ ~Consumed /\ retired < cmd.text
    BY <1>4 DEF ServicePins
  <2> QED
    BY <1>1, <1>4, <2>1
<1> QED
  BY <1>2, <1>3, <1>4

(* The types are kept. *)
LEMMA ConTypesStep == ConIInv /\ [ConsoleNext]_<<cmd, conVars>> => ConTypes'
<1> SUFFICES ASSUME ConIInv, [ConsoleNext]_<<cmd, conVars>> PROVE ConTypes'
  OBVIOUS
<1>0. ConTypes /\ PinsOK /\ FilesOK
  BY DEF ConIInv
<1>1. CASE SimClock
  <2>1. UartEdge(hostInput, TRUE)
    BY <1>1 DEF SimClock
  <2>2. uartRx' \in Uart /\ heard' \in Seq(Nat)
    BY <1>0, <2>1, UartEdgeOK DEF ConTypes
  <2>3. pcs' \in [Harts -> Words]
    <3>1. PICK m \in SUBSET Harts : \E p \in [m -> cmd.pcs] :
            pcs' = [h \in Harts |-> IF h \in m THEN p[h] ELSE pcs[h]]
      BY <1>1 DEF SimClock
    <3>2. PICK p \in [m -> cmd.pcs] : pcs' = [h \in Harts |-> IF h \in m THEN p[h] ELSE pcs[h]]
      BY <3>1
    <3>3. cmd.pcs \subseteq Words
      BY <1>0, <1>1, ConsoleCommands DEF ConTypes, SimClock, IsSim, Words
    <3> QED
      BY <1>0, <3>2, <3>3 DEF ConTypes
  <2>4. simPc' \in {"host", "exit1", "step"}
    BY <1>1 DEF SimClock
  <2> QED
    BY <1>0, <1>1, <2>2, <2>3, <2>4 DEF ConTypes, SimClock, inVars, ckptVars
<1>2. CASE SimLoop
  <2>1. simPc' \in {"step", "save", "exit0"}
    BY <1>2 DEF SimLoop, OpenCkpt
  <2>2. hostInput' \in [valid : BOOLEAN, char : Nat] /\ retired' \in Nat
    <3>1. CASE Handshake
      BY <1>0, <3>1, HandshakeOK
    <3>2. CASE UNCHANGED inVars
      BY <1>0, <3>2 DEF ConTypes, inVars
    <3> QED
      BY <1>2, <3>1, <3>2 DEF SimLoop
  <2>3. UNCHANGED <<ckpts, origin, cmd, tickcount, uartRx, heard, pcs>>
    BY <1>2 DEF SimLoop, ckptVars, rxVars
  <2> QED
    BY <1>0, <2>1, <2>2, <2>3 DEF ConTypes
<1>3. CASE SaveCkpt
  <2> DEFINE all == Append(ckpts, tickcount)
             drop == IF cmd.keep = 0 \/ Len(all) <= cmd.keep THEN 0 ELSE Len(all) - cmd.keep
  <2>1. all \in Seq(Nat) /\ Len(all) \in Nat
    BY <1>0 DEF ConTypes
  <2>2. cmd.keep \in Nat
    BY <1>0, <1>3, ConsoleCommands DEF ConTypes, SaveCkpt, IsSim
  <2>3. drop \in 0 .. Len(all)
    <3> HIDE DEF all
    <3> QED
      BY <2>1, <2>2
  <2>4. ckpts' = SubSeq(all, drop + 1, Len(all))
    BY <1>3 DEF SaveCkpt
  <2> HIDE DEF all, drop
  <2>5. ckpts' \in Seq(Nat)
    BY <2>1, <2>3, <2>4, SubSeqProperties
  <2> QED
    BY <1>0, <1>3, <2>5 DEF ConTypes, SaveCkpt, inVars, rxVars
<1>4. CASE Restore
  <2>1. PICK f \in DOMAIN disk :
          IF ~disk[f].whole
          THEN simPc' = "exit1" /\ UNCHANGED <<tickcount, waited, interrupt, rxVars, inVars, pcs, bandVars, ckptVars>>
          ELSE /\ simPc' = "step" /\ tickcount' = f
               /\ uartRx' = disk[f].uart /\ pcs' = disk[f].pcs
               /\ hostInput' = [valid |-> FALSE, char |-> NUL]
               /\ heard' = <<>> /\ retired' = 0 /\ ckpts' = <<>> /\ origin' = f
    BY <1>4 DEF Restore
  <2>2. f \in Nat /\ (disk[f].whole => disk[f].uart \in Uart /\ disk[f].pcs \in [Harts -> Words])
    BY <1>0 DEF FilesOK
  <2>3. cmd' = cmd
    BY <1>4 DEF Restore
  <2>4. CASE ~disk[f].whole
    BY <1>0, <2>1, <2>3, <2>4 DEF ConTypes, rxVars, inVars, ckptVars
  <2>5. CASE disk[f].whole
    <3>0. NUL \in Nat /\ <<>> \in Seq(Nat)
      BY DEF NUL
    <3>1. hostInput' = [valid |-> FALSE, char |-> NUL] /\ heard' = <<>> /\ ckpts' = <<>>
      BY <2>1, <2>5
    <3>2. hostInput' \in [valid : BOOLEAN, char : Nat] /\ heard' \in Seq(Nat) /\ ckpts' \in Seq(Nat)
      BY <3>0, <3>1
    <3>3. simPc' = "step" /\ tickcount' = f /\ uartRx' = disk[f].uart /\ pcs' = disk[f].pcs
          /\ retired' = 0 /\ origin' = f
      BY <2>1, <2>5
    <3> QED
      BY <1>0, <2>2, <2>3, <2>5, <3>2, <3>3 DEF ConTypes
  <2> QED
    BY <2>4, <2>5
<1>5. CASE RxTestClock
  <2>1. hostInput' \in [valid : BOOLEAN, char : Nat] /\ retired' \in Nat
    BY <1>0, <1>5, ServicePinsOK DEF RxTestClock
  <2>2. PICK pins \in {hostInput, hostInput'} : UartEdge(pins, echoed = Len(heard) + 1)
    BY <1>5 DEF RxTestClock
  <2>3. pins \in [valid : BOOLEAN, char : Nat]
    BY <1>0, <2>1 DEF ConTypes
  <2>4. uartRx' \in Uart /\ heard' \in Seq(Nat)
    BY <1>0, <2>2, <2>3, UartEdgeOK
  <2>5. simPc' \in {"host", "step"}
    BY <1>5 DEF RxTestClock
  <2> QED
    BY <1>0, <1>5, <2>1, <2>4, <2>5 DEF ConTypes, RxTestClock, ckptVars
<1>6. CASE Signal \/ Kill \/ RxTestDone
  BY <1>0, <1>6 DEF ConTypes, Signal, Kill, RxTestDone, RxVerdict, inVars, rxVars, ckptVars
<1>7. CASE UNCHANGED <<cmd, conVars>>
  BY <1>0, <1>7 DEF ConTypes, conVars, inVars, rxVars, ckptVars
<1> QED
  BY <1>1, <1>2, <1>3, <1>4, <1>5, <1>6, <1>7 DEF ConsoleNext

(* Opening the next checkpoint touches the file of this clock only. *)
LEMMA OpenCkptOK ==
  ASSUME ConTypes, FilesOK, simPc = "host", OpenCkpt
  PROVE  /\ \/ simPc' = "step" /\ disk' = disk
            \/ /\ simPc' = "save" /\ DOMAIN disk' = DOMAIN disk \cup {tickcount}
               /\ ~disk'[tickcount].whole
         /\ \A n \in DOMAIN disk : n # tickcount => n \in DOMAIN disk' /\ disk'[n] = disk[n]
<1>1. CASE simPc' = "step" /\ disk' = disk
  BY <1>1
<1>2. CASE simPc' = "save" /\ disk' = [n \in DOMAIN disk \cup {tickcount} |->
                        IF n = tickcount THEN [whole |-> FALSE] ELSE disk[n]]
  <2>1. DOMAIN disk' = DOMAIN disk \cup {tickcount}
    BY <1>2
  <2>2. \A n \in DOMAIN disk' : disk'[n] = IF n = tickcount THEN [whole |-> FALSE] ELSE disk[n]
    BY <1>2
  <2>3. disk'[tickcount].whole = FALSE
    BY <2>1, <2>2
  <2> QED
    BY <1>2, <2>1, <2>2, <2>3
<1> QED
  BY <1>1, <1>2 DEF OpenCkpt

(* Closing a checkpoint completes it, and prunes older files of this process *)
(* only.                                                                     *)
LEMMA SaveCkptOK ==
  ASSUME ConTypes, FilesOK, SaveCkpt
  PROVE  /\ tickcount \in DOMAIN disk' /\ disk'[tickcount].whole
         /\ disk'[tickcount].uart = uartRx /\ disk'[tickcount].pcs = pcs
         /\ DOMAIN disk' \subseteq DOMAIN disk
         /\ \A n \in DOMAIN disk' : n # tickcount => disk'[n] = disk[n]
         /\ origin # 0 => origin \in DOMAIN disk'
         /\ \A i \in 1 .. Len(ckpts') : (\E j \in 1 .. Len(ckpts) : ckpts'[i] = ckpts[j]) \/ ckpts'[i] = tickcount
<1> DEFINE all == Append(ckpts, tickcount)
           drop == IF cmd.keep = 0 \/ Len(all) <= cmd.keep THEN 0 ELSE Len(all) - cmd.keep
           saved == [whole |-> TRUE, uart |-> uartRx, valid |-> hostInput.valid, pcs |-> pcs]
           gone == {all[i] : i \in 1 .. drop}
<1>0. ckpts \in Seq(Nat) /\ tickcount \in Nat /\ simPc = "save" /\ cmd.keep \in Nat /\ Len(ckpts) \in Nat
  BY ConsoleCommands DEF ConTypes, SaveCkpt, IsSim
<1>1. all \in Seq(Nat) /\ Len(all) = Len(ckpts) + 1 /\ all[Len(ckpts) + 1] = tickcount
      /\ \A i \in 1 .. Len(ckpts) : all[i] = ckpts[i]
  BY <1>0
<1>2. ckpts' = SubSeq(all, drop + 1, Len(all))
      /\ disk' = [n \in DOMAIN disk \ gone |-> IF n # tickcount THEN disk[n] ELSE saved]
  BY DEF SaveCkpt
<1> HIDE DEF all
<1>3. drop \in 0 .. Len(ckpts)
  BY <1>0, <1>1
<1> HIDE DEF drop
<1>4. \A n \in gone : origin < n /\ n < tickcount
  <2>1. \A i \in 1 .. drop : i \in 1 .. Len(ckpts) /\ all[i] = ckpts[i]
    BY <1>0, <1>1, <1>3
  <2> QED
    BY <1>0, <2>1 DEF FilesOK
<1> HIDE DEF gone
<1>5. tickcount \notin gone /\ origin \notin gone
  BY <1>0, <1>4 DEF ConTypes
<1>6. DOMAIN disk' = DOMAIN disk \ gone /\ tickcount \in DOMAIN disk'
  BY <1>0, <1>2, <1>5 DEF FilesOK
<1>7. disk'[tickcount] = saved
  BY <1>2, <1>6
<1>8. \A n \in DOMAIN disk' : n # tickcount => disk'[n] = disk[n]
  BY <1>2, <1>6
<1>9. \A i \in 1 .. Len(ckpts') : (\E j \in 1 .. Len(ckpts) : ckpts'[i] = ckpts[j]) \/ ckpts'[i] = tickcount
  <2>1. /\ Len(ckpts') = Len(all) - drop
        /\ \A i \in 1 .. Len(all) - drop : ckpts'[i] = all[drop + i]
    BY <1>0, <1>1, <1>2, <1>3
  <2>2. \A i \in 1 .. Len(all) - drop : drop + i \in 1 .. Len(ckpts) \/ drop + i = Len(ckpts) + 1
    BY <1>0, <1>1, <1>3
  <2> QED
    BY <1>1, <2>1, <2>2
<1>10. /\ disk'[tickcount].whole = TRUE
       /\ disk'[tickcount].uart = uartRx /\ disk'[tickcount].pcs = pcs
  BY <1>7
<1>11. origin # 0 => origin \in DOMAIN disk'
  BY <1>5, <1>6 DEF FilesOK
<1> QED
  BY <1>6, <1>8, <1>9, <1>10, <1>11

(* Whatever a process does, the file it came from stays as it is. *)
LEMMA OriginStays ==
  ASSUME ConIInv, [ConsoleNext]_<<cmd, conVars>>
  PROVE  /\ origin # 0 => origin \in DOMAIN disk' /\ disk'[origin] = disk[origin]
         /\ ~Restore => origin' = origin /\ (Retracted' <=> Retracted)
<1>0. ConTypes /\ FilesOK
  BY DEF ConIInv
<1>1. origin # 0 => origin \in DOMAIN disk' /\ disk'[origin] = disk[origin]
  <2>1. CASE SimLoop
    <3>1. simPc = "host" /\ (disk' = disk \/ OpenCkpt)
      BY <2>1 DEF SimLoop, ckptVars
    <3>2. origin # tickcount /\ (origin # 0 => origin \in DOMAIN disk)
      BY <1>0, <3>1 DEF FilesOK, ConTypes
    <3> QED
      BY <1>0, <3>1, <3>2, OpenCkptOK
  <2>2. CASE SaveCkpt
    <3>1. origin # tickcount
      BY <1>0, <2>2 DEF SaveCkpt, FilesOK, ConTypes
    <3> QED
      BY <1>0, <2>2, <3>1, SaveCkptOK
  <2>3. CASE disk' = disk
    BY <1>0, <2>3 DEF FilesOK
  <2> QED
    BY <2>1, <2>2, <2>3 DEF ConsoleNext, conVars, SimClock, Signal, Kill, Restore, RxTestClock, RxTestDone, ckptVars
<1>2. ~Restore => origin' = origin
  BY DEF ConsoleNext, conVars, SimClock, SimLoop, SaveCkpt, Signal, Kill, RxTestClock, RxTestDone, ckptVars
<1> QED
  BY <1>1, <1>2 DEF Retracted

LEMMA FilesStep == ConIInv /\ [ConsoleNext]_<<cmd, conVars>> => FilesOK'
<1> SUFFICES ASSUME ConIInv, [ConsoleNext]_<<cmd, conVars>> PROVE FilesOK'
  OBVIOUS
<1>0. ConTypes /\ FilesOK /\ tickcount \in Nat /\ origin \in Nat /\ ckpts \in Seq(Nat)
  BY DEF ConIInv, ConTypes
<1>1. CASE SimClock
  <2>1. simPc' \in {"host", "exit1", "step"} /\ tickcount' = tickcount + 1 /\ UNCHANGED <<disk, ckpts, origin>>
    BY <1>1 DEF SimClock, ckptVars
  <2> QED
    BY <1>0, <2>1 DEF FilesOK
<1>2. CASE SimLoop
  <2>1. simPc = "host" /\ UNCHANGED <<tickcount, ckpts, origin>>
    BY <1>2 DEF SimLoop, ckptVars
  <2>2. CASE disk' = disk /\ simPc' \in {"step", "exit0"}
    BY <1>0, <2>1, <2>2 DEF FilesOK
  <2>3. CASE OpenCkpt
    <3>1. CASE simPc' = "step" /\ disk' = disk
      BY <1>0, <2>1, <3>1 DEF FilesOK
    <3>2. CASE simPc' = "save" /\ DOMAIN disk' = DOMAIN disk \cup {tickcount} /\ ~disk'[tickcount].whole
      <4>1. \A n \in DOMAIN disk : n # tickcount => disk'[n] = disk[n]
        BY <1>0, <2>1, <2>3, OpenCkptOK
      <4>2. origin # tickcount /\ tickcount \in Nat \ {0}
        BY <1>0, <2>1 DEF FilesOK
      <4> QED
        BY <1>0, <2>1, <3>2, <4>1, <4>2 DEF FilesOK
    <3> QED
      BY <1>0, <2>1, <2>3, <3>1, <3>2, OpenCkptOK
  <2> QED
    BY <1>2, <2>2, <2>3 DEF SimLoop, ckptVars
<1>3. CASE SaveCkpt
  <2>1. simPc = "save" /\ simPc' = "step" /\ UNCHANGED <<tickcount, origin>>
    BY <1>3 DEF SaveCkpt
  <2>2. /\ tickcount \in DOMAIN disk' /\ disk'[tickcount].whole
        /\ disk'[tickcount].uart = uartRx /\ disk'[tickcount].pcs = pcs
        /\ DOMAIN disk' \subseteq DOMAIN disk
        /\ \A n \in DOMAIN disk' : n # tickcount => disk'[n] = disk[n]
        /\ origin # 0 => origin \in DOMAIN disk'
        /\ \A i \in 1 .. Len(ckpts') : (\E j \in 1 .. Len(ckpts) : ckpts'[i] = ckpts[j]) \/ ckpts'[i] = tickcount
    BY <1>0, <1>3, SaveCkptOK
  <2>3. uartRx \in Uart /\ pcs \in [Harts -> Words] /\ (uartRx.taken => uartRx.guest = "idle")
    BY DEF ConIInv, ConTypes, PinsOK
  <2>4. origin # tickcount
    BY <1>0, <2>1 DEF FilesOK
  <2>5. \A n \in DOMAIN disk' : disk'[n].whole =>
          disk'[n].uart \in Uart /\ disk'[n].pcs \in [Harts -> Words]
          /\ (disk'[n].uart.taken => disk'[n].uart.guest = "idle")
    <3> SUFFICES ASSUME NEW n \in DOMAIN disk', disk'[n].whole
                 PROVE  disk'[n].uart \in Uart /\ disk'[n].pcs \in [Harts -> Words]
                        /\ (disk'[n].uart.taken => disk'[n].uart.guest = "idle")
      OBVIOUS
    <3>1. CASE n = tickcount
      BY <2>2, <2>3, <3>1
    <3>2. CASE n # tickcount
      BY <1>0, <2>2, <3>2 DEF FilesOK
    <3> QED
      BY <3>1, <3>2
  <2>6. \A i \in 1 .. Len(ckpts') : origin < ckpts'[i] /\ ckpts'[i] <= tickcount
    <3>1. origin \in Nat /\ tickcount \in Nat /\ origin < tickcount
      BY <1>0, <2>1 DEF FilesOK
    <3>2. \A j \in 1 .. Len(ckpts) : origin < ckpts[j] /\ ckpts[j] <= tickcount
      BY <1>0 DEF FilesOK
    <3> SUFFICES ASSUME NEW i \in 1 .. Len(ckpts') PROVE origin < ckpts'[i] /\ ckpts'[i] <= tickcount
      OBVIOUS
    <3>3. (\E j \in 1 .. Len(ckpts) : ckpts'[i] = ckpts[j]) \/ ckpts'[i] = tickcount
      BY <2>2
    <3> QED
      BY <3>1, <3>2, <3>3
  <2> QED
    BY <1>0, <2>1, <2>2, <2>4, <2>5, <2>6 DEF FilesOK
<1>4. CASE Restore
  <2>1. PICK f \in DOMAIN disk :
          IF ~disk[f].whole
          THEN simPc' = "exit1" /\ UNCHANGED <<tickcount, ckptVars>>
          ELSE /\ simPc' = "step" /\ tickcount' = f
               /\ ckpts' = <<>> /\ origin' = f /\ UNCHANGED disk
    BY <1>4 DEF Restore
  <2>2. f \in Nat \ {0}
    BY <1>0 DEF FilesOK
  <2>3. CASE ~disk[f].whole
    BY <1>0, <2>1, <2>3 DEF FilesOK, ckptVars
  <2>4. CASE disk[f].whole
    <3>1. simPc' = "step" /\ tickcount' = f /\ origin' = f /\ disk' = disk /\ Len(ckpts') = 0
      BY <2>1, <2>4
    <3> QED
      BY <1>0, <2>2, <2>4, <3>1 DEF FilesOK
  <2> QED
    BY <2>3, <2>4
<1>5. CASE Signal \/ Kill
  BY <1>0, <1>5 DEF FilesOK, Signal, Kill, ckptVars
<1>6. CASE RxTestClock
  <2>1. UNCHANGED <<disk, ckpts, origin>> /\ tickcount' = tickcount + 1 /\ simPc' \in {"host", "step"}
    BY <1>6 DEF RxTestClock, ckptVars
  <2> QED
    BY <1>0, <2>1 DEF FilesOK
<1>8. CASE RxTestDone
  <2>1. UNCHANGED <<disk, ckpts, origin, tickcount>> /\ simPc' \in {"exit0", "exit1"}
    BY <1>8 DEF RxTestDone, RxVerdict, ckptVars
  <2> QED
    BY <1>0, <2>1 DEF FilesOK
<1>7. CASE UNCHANGED <<cmd, conVars>>
  BY <1>0, <1>7 DEF FilesOK, conVars, ckptVars
<1> QED
  BY <1>1, <1>2, <1>3, <1>4, <1>5, <1>6, <1>7, <1>8 DEF ConsoleNext

(* Folding a PC into a band extends the set it spans. *)
LEMMA FoldOK ==
  ASSUME NEW p \in Words, NEW b \in Words \X Words, NEW S \in SUBSET Words,
         IF S = {} THEN b = Bottom ELSE Spans(b, S)
  PROVE  /\ <<IF p < b[1] THEN p ELSE b[1], IF p > b[2] THEN p ELSE b[2]>> \in Words \X Words
         /\ Spans(<<IF p < b[1] THEN p ELSE b[1], IF p > b[2] THEN p ELSE b[2]>>, S \cup {p})
<1>1. PICK l \in Words, u \in Words : b = <<l, u>>
  OBVIOUS
<1> DEFINE lo == IF p < l THEN p ELSE l
           hi == IF p > u THEN p ELSE u
<1>2. b[1] = l /\ b[2] = u
  BY <1>1
<1>3. \A q \in Words : q \in Int /\ 0 <= q /\ q <= Never
  BY SMTT(30) DEF Words, Never
<1>4. lo \in S \cup {p} /\ hi \in S \cup {p} /\ \A q \in S \cup {p} : lo <= q /\ q <= hi
  <2>1. CASE S = {}
    <3>1. l = Never /\ u = 0
      BY <1>2, <2>1 DEF Bottom
    <3>2. lo = p /\ hi = p
      BY <1>3, <3>1 DEF Never
    <3> HIDE DEF lo, hi
    <3> QED
      BY <1>3, <2>1, <3>2
  <2>2. CASE S # {}
    <3>1. l \in S /\ u \in S /\ \A q \in S : l <= q /\ q <= u
      BY <1>2, <2>2 DEF Spans
    <3>2. lo \in S \cup {p} /\ hi \in S \cup {p}
      BY <3>1
    <3>3. \A q \in S : q \in Int
      BY <1>3
    <3>4. lo <= p /\ p <= hi
      BY <1>3
    <3>5. lo <= l /\ u <= hi /\ lo \in Int /\ hi \in Int /\ l \in Int /\ u \in Int
      BY <1>3
    <3> HIDE DEF lo, hi
    <3>6. \A q \in S : lo <= q /\ q <= hi
      BY <3>1, <3>3, <3>5
    <3> QED
      BY <3>2, <3>4, <3>6
  <2> QED
    BY <2>1, <2>2
<1>5. lo \in Words /\ hi \in Words
  OBVIOUS
<1>6. <<IF p < b[1] THEN p ELSE b[1], IF p > b[2] THEN p ELSE b[2]>> = <<lo, hi>>
  BY <1>2
<1> HIDE DEF lo, hi
<1>7. <<lo, hi>>[1] = lo /\ <<lo, hi>>[2] = hi /\ <<lo, hi>> \in Words \X Words
  BY <1>5
<1> QED
  BY <1>4, <1>6, <1>7 DEF Spans

(* Two windows have the same band, and a tight one, exactly if their PCs     *)
(* have the same extremes within a page.                                     *)
LEMMA TightAndSame ==
  ASSUME NEW now \in SUBSET Words, NEW old \in SUBSET Words,
         NEW b \in Words \X Words, NEW c \in Words \X Words, Spans(b, now), Spans(c, old)
  PROVE  (b[2] >= b[1] /\ b[2] - b[1] < Page /\ b = c) <=>
           /\ \A p, q \in now : p - q < Page
           /\ \A p \in now : \E q \in old : q <= p
           /\ \A p \in now : \E q \in old : q >= p
           /\ \A q \in old : (\E p \in now : p <= q) /\ (\E p \in now : p >= q)
<1>1. PICK l \in Words, u \in Words : b = <<l, u>>
  OBVIOUS
<1>2. PICK m \in Words, v \in Words : c = <<m, v>>
  OBVIOUS
<1>3. b[1] = l /\ b[2] = u /\ c[1] = m /\ c[2] = v
  BY <1>1, <1>2
<1>4. /\ l \in now /\ u \in now /\ m \in old /\ v \in old
      /\ \A p \in now : l <= p /\ p <= u
      /\ \A q \in old : m <= q /\ q <= v
  BY <1>3 DEF Spans
<1>5. Page \in Int /\ (\A p \in now : p \in Int) /\ \A p \in old : p \in Int
  BY ConsoleAssumption DEF Words
<1>6. ASSUME u - l < Page, l = m, u = v
      PROVE  /\ \A p, q \in now : p - q < Page
             /\ \A p \in now : \E q \in old : q <= p
             /\ \A p \in now : \E q \in old : q >= p
             /\ \A q \in old : (\E p \in now : p <= q) /\ (\E p \in now : p >= q)
  <2>1. \A p, q \in now : p - q < Page
    BY <1>4, <1>5, <1>6
  <2> QED
    BY <1>4, <1>5, <1>6, <2>1
<1>7. ASSUME \A p, q \in now : p - q < Page,
             \A p \in now : \E q \in old : q <= p,
             \A p \in now : \E q \in old : q >= p,
             \A q \in old : (\E p \in now : p <= q) /\ (\E p \in now : p >= q)
      PROVE  u >= l /\ u - l < Page /\ l = m /\ u = v
  <2>1. PICK q1 \in old : q1 <= l
    BY <1>4, <1>7
  <2>2. PICK q2 \in old : q2 >= u
    BY <1>4, <1>7
  <2>3. PICK p1 \in now : p1 <= m
    BY <1>4, <1>7
  <2>4. PICK p2 \in now : p2 >= v
    BY <1>4, <1>7
  <2>5. m <= q1 /\ q2 <= v /\ l <= p1 /\ p2 <= u
    BY <1>4
  <2>6. u - l < Page /\ l <= u
    BY <1>4, <1>7
  <2> QED
    BY <1>4, <1>5, <2>1, <2>2, <2>3, <2>4, <2>5, <2>6
<1>8. b = c <=> l = m /\ u = v
  BY <1>1, <1>2
<1>9. l <= u /\ l \in Int /\ u \in Int
  BY <1>4, <1>5
<1> QED
  BY <1>3, <1>6, <1>7, <1>8, <1>9

(* The loop body folds the PCs into the bands; a heartbeat starts over. *)
LEMMA FoldedOK ==
  ASSUME ConTypes, BandsOK
  PROVE  /\ Folded \in [Harts -> Words \X Words]
         /\ \A h \in Harts : Spans(Folded[h], window[h][1] \cup {pcs[h]})
<1>1. ASSUME NEW h \in Harts
      PROVE  Folded[h] \in Words \X Words /\ Spans(Folded[h], window[h][1] \cup {pcs[h]})
  <2>1. pcs[h] \in Words /\ band[h] \in Words \X Words /\ window[h][1] \in SUBSET Words
        /\ (IF window[h][1] = {} THEN band[h] = Bottom ELSE Spans(band[h], window[h][1]))
    BY DEF ConTypes, BandsOK
  <2>2. Folded[h] = <<IF pcs[h] < band[h][1] THEN pcs[h] ELSE band[h][1],
                      IF pcs[h] > band[h][2] THEN pcs[h] ELSE band[h][2]>>
    BY DEF Folded
  <2>3. PICK p \in Words, b \in Words \X Words, S \in SUBSET Words :
          p = pcs[h] /\ b = band[h] /\ S = window[h][1]
    BY <2>1
  <2>4. IF S = {} THEN b = Bottom ELSE Spans(b, S)
    BY <2>1, <2>3
  <2>5. /\ <<IF p < b[1] THEN p ELSE b[1], IF p > b[2] THEN p ELSE b[2]>> \in Words \X Words
        /\ Spans(<<IF p < b[1] THEN p ELSE b[1], IF p > b[2] THEN p ELSE b[2]>>, S \cup {p})
    BY <2>4, FoldOK, Zenon
  <2>6. Folded[h] = <<IF p < b[1] THEN p ELSE b[1], IF p > b[2] THEN p ELSE b[2]>>
    BY <2>2, <2>3
  <2> QED
    BY <2>3, <2>5, <2>6
<1> QED
  BY <1>1 DEF Folded

LEMMA BandsStep == ConIInv /\ [ConsoleNext]_<<cmd, conVars>> => BandsOK'
<1> SUFFICES ASSUME ConIInv, [ConsoleNext]_<<cmd, conVars>> PROVE BandsOK'
  OBVIOUS
<1>0. ConTypes /\ BandsOK
  BY DEF ConIInv
<1>a. Bottom \in Words \X Words /\ <<0, 0>> \in Words \X Words /\ {0} \in SUBSET Words
  <2>1. Never \in Words /\ 0 \in Words
    BY DEF Words, Never
  <2> QED
    BY <2>1 DEF Bottom
<1>1. CASE UNCHANGED bandVars
  BY <1>0, <1>1 DEF BandsOK, bandVars
<1>2. CASE DebugBands /\ nextHb' \in Nat
  <2> DEFINE pcsSeen == [h \in Harts |-> window[h][1] \cup {pcs[h]}]
  <2>1. pcsSeen \in [Harts -> SUBSET Words] /\ \A h \in Harts : pcsSeen[h] # {} /\ Spans(Folded[h], pcsSeen[h])
    BY <1>0, FoldedOK DEF ConTypes, BandsOK
  <2>2. Folded \in [Harts -> Words \X Words]
    BY <1>0, FoldedOK
  <2>3. CASE tickcount >= nextHb
    <3>1. prevBand' = Folded /\ band' = [h \in Harts |-> Bottom] /\ window' = [h \in Harts |-> <<{}, pcsSeen[h]>>]
      BY <1>2, <2>3 DEF DebugBands, Heartbeat
    <3> HIDE DEF pcsSeen
    <3>2. \A h \in Harts : window'[h] = <<{}, pcsSeen[h]>> /\ band'[h] = Bottom
      BY <3>1
    <3>3. \A h \in Harts : window'[h][1] = {} /\ window'[h][2] = pcsSeen[h]
      BY <3>2
    <3>4. window' \in [Harts -> (SUBSET Words) \X (SUBSET Words)]
      BY <2>1, <3>1
    <3> QED
      BY <1>2, <1>a, <2>1, <2>2, <3>1, <3>2, <3>3, <3>4 DEF BandsOK
  <2>4. CASE ~(tickcount >= nextHb)
    <3>1. prevBand' = prevBand /\ band' = Folded /\ window' = [h \in Harts |-> <<pcsSeen[h], window[h][2]>>]
      BY <1>2, <2>4 DEF DebugBands
    <3> HIDE DEF pcsSeen
    <3>2. \A h \in Harts : window'[h] = <<pcsSeen[h], window[h][2]>> /\ window[h][2] \in SUBSET Words
      BY <1>0, <3>1 DEF BandsOK
    <3>3. \A h \in Harts : window'[h][1] = pcsSeen[h] /\ window'[h][2] = window[h][2]
      BY <3>2
    <3>4. window' \in [Harts -> (SUBSET Words) \X (SUBSET Words)]
      BY <2>1, <3>1, <3>2
    <3> QED
      BY <1>0, <1>2, <2>1, <2>2, <3>1, <3>3, <3>4 DEF BandsOK
  <2> QED
    BY <2>3, <2>4
<1>3. CASE /\ band' = [h \in Harts |-> Bottom] /\ prevBand' = [h \in Harts |-> <<0, 0>>]
           /\ window' = [h \in Harts |-> <<{}, {0}>>] /\ nextHb' \in Nat
  <2>1. \A h \in Harts : band'[h] = Bottom /\ prevBand'[h] = <<0, 0>> /\ window'[h] = <<{}, {0}>>
    BY <1>3
  <2>2. \A h \in Harts : window'[h][1] = {} /\ window'[h][2] = {0} /\ prevBand'[h][1] = 0 /\ prevBand'[h][2] = 0
    BY <2>1
  <2>3. window' \in [Harts -> (SUBSET Words) \X (SUBSET Words)]
    BY <1>3, <1>a
  <2> QED
    BY <1>3, <1>a, <2>1, <2>2, <2>3 DEF BandsOK, Spans
<1>b. IsSim => cmd.hb \in Nat
  BY <1>0, ConsoleCommands DEF ConTypes, IsSim
<1>4. SimLoop => UNCHANGED bandVars \/ (DebugBands /\ nextHb' \in Nat)
  <2>1. SimLoop => IsSim /\ (UNCHANGED bandVars \/ DebugBands)
    BY DEF SimLoop
  <2>2. IsSim /\ DebugBands => nextHb' \in Nat
    BY <1>0, <1>b DEF DebugBands, Heartbeat, ConTypes, BandsOK
  <2> QED
    BY <2>1, <2>2
<1>5. Restore => \/ UNCHANGED bandVars
                 \/ /\ band' = [h \in Harts |-> Bottom] /\ prevBand' = [h \in Harts |-> <<0, 0>>]
                    /\ window' = [h \in Harts |-> <<{}, {0}>>] /\ nextHb' \in Nat
  <2>1. Restore => \E f \in DOMAIN disk : \/ UNCHANGED bandVars
                 \/ /\ band' = [h \in Harts |-> Bottom] /\ prevBand' = [h \in Harts |-> <<0, 0>>]
                    /\ window' = [h \in Harts |-> <<{}, {0}>>] /\ nextHb' = f + cmd.hb /\ IsSim
    BY DEF Restore
  <2> QED
    BY <1>b, <2>1 DEF ConIInv, FilesOK
<1>6. SimClock \/ SaveCkpt \/ Signal \/ Kill \/ RxTestClock \/ RxTestDone => UNCHANGED bandVars
  BY DEF SimClock, SaveCkpt, Signal, Kill, RxTestClock, RxTestDone
<1> QED
  BY <1>1, <1>2, <1>3, <1>4, <1>5, <1>6 DEF ConsoleNext, conVars

(* What the pairing says when `spare' pops had no keystroke. *)
PairedBy(spare) ==
  /\ \A i \in 1 .. Len(heard) : heard[i] \in {i - spare, NUL}
  /\ Len(heard) - retired - spare =
       IF hostInput.valid THEN IF uartRx.taken THEN 1 ELSE 0
       ELSE IF uartRx.guest # "idle" THEN -1 ELSE 0

LEMMA PairedStep ==
  ASSUME ConIInv, Retracted' <=> Retracted, NEW spare \in {0, 1}, PairedBy(spare)', spare = 1 => Retracted
  PROVE  KeysPaired'
  BY DEF KeysPaired, PairedBy

(* A clock of the cores pairs the byte it pops with the one on the pins. *)
LEMMA ClockPairs ==
  ASSUME ConIInv, SimClock
  PROVE  PinsOK' /\ KeysPaired'
<1>0. ConTypes /\ PinsOK /\ KeysPaired /\ retired \in Nat /\ heard \in Seq(Nat) /\ Len(heard) \in Nat
      /\ hostInput \in [valid : BOOLEAN, char : Nat] /\ uartRx \in Uart
  BY DEF ConIInv, ConsoleSound, ConTypes
<1>1. UartEdge(hostInput, TRUE) /\ UNCHANGED <<hostInput, retired, cmd>> /\ simPc = "step" /\ IsSim
  BY DEF SimClock, inVars
<1>2. Retracted' <=> Retracted
  <2>1. ~Restore
    BY <1>1 DEF Restore
  <2> QED
    BY <2>1, OriginStays DEF ConsoleNext
<1>3. PICK spare \in {0, 1} : PairedBy(spare) /\ (spare = 1 => Retracted)
  BY <1>0 DEF KeysPaired, PairedBy
<1>4. /\ uartRx' \in Uart /\ heard' \in Seq(Nat)
      /\ uartRx.guest = "pop" =>
           /\ uartRx'.guest = "idle"
           /\ uartRx'.taken = hostInput.valid
           /\ heard' = Append(heard, IF hostInput.valid /\ ~uartRx.taken THEN hostInput.char ELSE NUL)
      /\ uartRx.guest # "pop" =>
           heard' = heard /\ (uartRx'.taken <=> hostInput.valid /\ uartRx.taken)
      /\ uartRx.guest = "idle" =>
           uartRx'.guest = "idle" \/ (uartRx'.guest = "saw" /\ hostInput.valid /\ ~uartRx.taken)
      /\ uartRx.guest = "saw" => uartRx'.guest \in {"saw", "pop"}
  BY <1>0, <1>1, UartEdgeOK
<1>5. CASE uartRx.guest # "pop"
  <2>1. heard' = heard /\ hostInput' = hostInput /\ retired' = retired
    BY <1>1, <1>4, <1>5
  <2>2. hostInput.valid => (uartRx'.taken <=> uartRx.taken)
    BY <1>4, <1>5
  <2>3. ~hostInput.valid => (uartRx'.guest = "idle" <=> uartRx.guest = "idle")
    BY <1>0, <1>4, <1>5 DEF Uart
  <2>4. PairedBy(spare)'
    BY <1>3, <2>1, <2>2, <2>3 DEF PairedBy
  <2>5. PinsOK'
    BY <1>0, <1>1, <1>2, <1>4, <1>5, <2>1 DEF PinsOK, Uart
  <2> QED
    BY <1>2, <1>3, <2>4, <2>5, PairedStep
<1>6. CASE uartRx.guest = "pop"
  <2>1. ~uartRx.taken /\ uartRx'.guest = "idle" /\ uartRx'.taken = hostInput.valid
        /\ hostInput' = hostInput /\ retired' = retired
    BY <1>0, <1>1, <1>4, <1>6 DEF PinsOK
  <2>2. PinsOK'
    BY <1>0, <1>1, <2>1 DEF PinsOK
  <2>3. PairedBy(spare)'
    <3>1. CASE hostInput.valid
      <4>1. Len(heard) - retired - spare = 0 /\ hostInput.char = retired + 1
        BY <1>0, <1>3, <2>1, <3>1 DEF PairedBy, PinsOK
      <4>2. heard' = Append(heard, hostInput.char) /\ uartRx'.taken /\ hostInput'.valid
        BY <1>4, <1>6, <2>1, <3>1
      <4>3. Len(heard') = Len(heard) + 1 /\ heard'[Len(heard) + 1] = hostInput.char
            /\ \A i \in 1 .. Len(heard) : heard'[i] = heard[i]
        BY <1>0, <4>2
      <4>4. \A i \in 1 .. Len(heard') : heard'[i] \in {i - spare, NUL}
        <5>1. \A i \in 1 .. Len(heard) : heard[i] \in {i - spare, NUL}
          BY <1>3 DEF PairedBy
        <5>2. Len(heard) + 1 - spare = hostInput.char
          BY <1>0, <4>1
        <5>3. \A i \in 1 .. Len(heard') : i \in 1 .. Len(heard) \/ i = Len(heard) + 1
          BY <1>0, <4>3
        <5> QED
          BY <4>3, <5>1, <5>2, <5>3
      <4>5. Len(heard') - retired' - spare = 1
        BY <1>0, <2>1, <4>1, <4>3
      <4> QED
        BY <4>2, <4>4, <4>5 DEF PairedBy
    <3>2. CASE ~hostInput.valid
      <4>1. Len(heard) - retired - spare = -1
        BY <1>0, <1>3, <1>6, <3>2 DEF PairedBy
      <4>2. heard' = Append(heard, NUL) /\ ~hostInput'.valid
        BY <1>4, <1>6, <2>1, <3>2
      <4>3. Len(heard') = Len(heard) + 1 /\ heard'[Len(heard) + 1] = NUL
            /\ \A i \in 1 .. Len(heard) : heard'[i] = heard[i]
        BY <1>0, <4>2 DEF NUL
      <4>4. \A i \in 1 .. Len(heard') : heard'[i] \in {i - spare, NUL}
        BY <1>0, <1>3, <4>3 DEF PairedBy
      <4> QED
        BY <1>0, <2>1, <4>1, <4>2, <4>3, <4>4 DEF PairedBy
    <3> QED
      BY <3>1, <3>2
  <2> QED
    BY <1>2, <1>3, <2>2, <2>3, PairedStep
<1> QED
  BY <1>5, <1>6

(* A look of the host at the pins: what it retires is what was popped or is  *)
(* on the bus.                                                               *)
LEMMA LoopPairs ==
  ASSUME ConIInv, SimLoop
  PROVE  PinsOK' /\ KeysPaired'
<1>0. ConTypes /\ PinsOK /\ KeysPaired /\ retired \in Nat /\ heard \in Seq(Nat) /\ Len(heard) \in Nat
      /\ hostInput \in [valid : BOOLEAN, char : Nat] /\ uartRx \in Uart
  BY DEF ConIInv, ConsoleSound, ConTypes
<1>1. UNCHANGED <<uartRx, heard, cmd>> /\ simPc = "host" /\ simPc' # "host" /\ IsSim
  BY DEF SimLoop, rxVars, OpenCkpt
<1>2. Retracted' <=> Retracted
  <2>1. ~Restore
    BY <1>1 DEF Restore
  <2> QED
    BY <2>1, OriginStays DEF ConsoleNext
<1>3. PICK spare \in {0, 1} : PairedBy(spare) /\ (spare = 1 => Retracted)
  BY <1>0 DEF KeysPaired, PairedBy
<1>4. CASE UNCHANGED <<hostInput, retired>>
  BY <1>0, <1>1, <1>2, <1>3, <1>4, PairedStep DEF PairedBy, PinsOK
<1>5. CASE hostInput.valid /\ Consumed /\ ~hostInput'.valid /\ retired' = retired + 1
  <2>1. uartRx.guest # "saw" /\ (uartRx.taken <=> uartRx.guest = "idle")
    BY <1>0, <1>5 DEF Consumed, PinsOK, Uart
  <2>2. PairedBy(spare)'
    BY <1>0, <1>1, <1>3, <1>5, <2>1 DEF PairedBy
  <2>3. PinsOK'
    BY <1>0, <1>1, <1>5, <2>1 DEF PinsOK
  <2> QED
    BY <1>2, <1>3, <2>2, <2>3, PairedStep
<1>6. CASE /\ hostInput.valid /\ ~Consumed /\ retired' = retired
           /\ hostInput'.valid /\ hostInput'.char = hostInput.char
  <2>1. PairedBy(spare)' /\ PinsOK'
    BY <1>0, <1>1, <1>3, <1>6 DEF PairedBy, PinsOK
  <2> QED
    BY <1>2, <1>3, <2>1, PairedStep
<1>7. CASE ~hostInput.valid /\ retired' = retired /\ ~hostInput'.valid
  <2>1. PairedBy(spare)' /\ PinsOK'
    BY <1>0, <1>1, <1>2, <1>3, <1>7 DEF PairedBy, PinsOK
  <2> QED
    BY <1>2, <1>3, <2>1, PairedStep
<1>8. CASE /\ ~hostInput.valid /\ ~Consumed /\ retired' = retired
           /\ hostInput'.valid /\ hostInput'.char = retired + 1
  <2>1. ~uartRx.taken
    BY <1>0, <1>8 DEF Consumed
  <2>2. PinsOK'
    BY <1>0, <1>1, <1>8, <2>1 DEF PinsOK
  <2>3. CASE uartRx.guest = "idle"
    <3>1. PairedBy(spare)'
      BY <1>0, <1>1, <1>3, <1>8, <2>1, <2>3 DEF PairedBy
    <3> QED
      BY <1>2, <1>3, <2>2, <3>1, PairedStep
  <2>4. CASE uartRx.guest # "idle"
    <3>1. Len(heard) = 0 /\ retired = 0
      BY <1>0, <1>1, <1>8, <2>4 DEF PinsOK
    <3>2. PairedBy(0)'
      BY <1>1, <1>8, <2>1, <3>1 DEF PairedBy
    <3> QED
      BY <1>2, <2>2, <3>2, PairedStep
  <2> QED
    BY <2>3, <2>4
<1>9. Handshake \/ UNCHANGED <<hostInput, retired>>
  BY DEF SimLoop, inVars
<1> QED
  BY <1>0, <1>4, <1>5, <1>6, <1>7, <1>8, <1>9, HandshakeOK

(* An iteration of uartrx_test, whichever pins the edge sees: the pairing    *)
(* holds without a spare pop, and the guest is not past the text.            *)
LEMMA RxClockPairs ==
  ASSUME ConIInv, RxTestClock
  PROVE  /\ PinsOK' /\ KeysPaired'
         /\ uartRx'.guest # "idle" => hostInput'.valid
         /\ retired' <= cmd.text /\ (hostInput'.valid => retired' < cmd.text)
         /\ \/ heard' = heard
            \/ Len(heard) < cmd.text /\ \E b \in Nat : heard' = Append(heard, b)
<1>0. ConTypes /\ PinsOK /\ KeysPaired /\ retired \in Nat /\ heard \in Seq(Nat) /\ Len(heard) \in Nat
      /\ hostInput \in [valid : BOOLEAN, char : Nat] /\ uartRx \in Uart
  BY DEF ConIInv, ConsoleSound, ConTypes
<1>1. IsRx /\ cmd' = cmd /\ origin = 0 /\ origin' = 0 /\ cmd.text \in Nat
  BY ConsoleCommands DEF RxTestClock, ConIInv, RxOK, ckptVars, IsRx, ConTypes
<1>2. /\ uartRx.guest # "idle" => hostInput.valid
      /\ retired <= cmd.text /\ (hostInput.valid => retired < cmd.text)
  BY <1>1 DEF ConIInv, RxOK
<1>3. ~Retracted /\ ~Retracted' /\ ~IsSim'
  BY <1>1 DEF Retracted, IsRx, IsSim
<1>4. PairedBy(0)
  BY <1>0, <1>3 DEF KeysPaired, PairedBy
<1>5. PairedBy(0)' => KeysPaired'
  BY <1>3 DEF KeysPaired, PairedBy
<1>6. /\ hostInput' \in [valid : BOOLEAN, char : Nat] /\ retired' \in Nat
      /\ \/ hostInput' = hostInput /\ retired' = retired
         \/ /\ hostInput.valid /\ Consumed /\ ~hostInput'.valid /\ hostInput'.char = hostInput.char
            /\ retired' = retired + 1
         \/ /\ ~hostInput.valid /\ ~Consumed /\ retired < cmd.text /\ retired' = retired
            /\ hostInput'.valid /\ hostInput'.char = retired + 1
  BY <1>0, ServicePinsOK DEF RxTestClock
<1>7. PICK pins \in {hostInput, hostInput'} : UartEdge(pins, echoed = Len(heard) + 1)
  BY DEF RxTestClock
<1>8. pins \in [valid : BOOLEAN, char : Nat]
  BY <1>0, <1>6
<1>9. /\ uartRx' \in Uart /\ heard' \in Seq(Nat)
      /\ uartRx.guest = "pop" =>
           /\ uartRx'.guest = "idle"
           /\ uartRx'.taken = pins.valid
           /\ heard' = Append(heard, IF pins.valid /\ ~uartRx.taken THEN pins.char ELSE NUL)
      /\ uartRx.guest # "pop" =>
           heard' = heard /\ (uartRx'.taken <=> pins.valid /\ uartRx.taken)
      /\ uartRx.guest = "idle" =>
           uartRx'.guest = "idle" \/ (uartRx'.guest = "saw" /\ pins.valid /\ ~uartRx.taken)
      /\ uartRx.guest = "saw" => uartRx'.guest \in {"saw", "pop"}
  BY <1>0, <1>7, <1>8, UartEdgeOK
<1>10. CASE uartRx.guest = "pop"
  <2>1. hostInput.valid /\ ~uartRx.taken /\ Consumed /\ hostInput.char = retired + 1
        /\ Len(heard) = retired /\ retired < cmd.text /\ uartRx'.guest = "idle"
    BY <1>0, <1>2, <1>4, <1>9, <1>10 DEF PairedBy, PinsOK, Consumed
  <2>2. PICK b \in {retired + 1, NUL} : heard' = Append(heard, b)
    BY <1>6, <1>7, <1>9, <1>10, <2>1
  <2>3. b \in Nat
    BY <1>0, <2>2 DEF NUL
  <2>4. Len(heard') = Len(heard) + 1 /\ heard'[Len(heard) + 1] = b
        /\ \A i \in 1 .. Len(heard) : heard'[i] = heard[i]
    BY <1>0, <2>2, <2>3
  <2>5. \A i \in 1 .. Len(heard') : heard'[i] \in {i - 0, NUL}
    <3>1. \A i \in 1 .. Len(heard) : heard[i] \in {i - 0, NUL}
      BY <1>4 DEF PairedBy
    <3>2. \A i \in 1 .. Len(heard') : i \in 1 .. Len(heard) \/ i = Len(heard) + 1
      BY <1>0, <2>4
    <3> QED
      BY <1>0, <2>1, <2>2, <2>4, <3>1, <3>2
  <2>6. CASE hostInput' = hostInput /\ retired' = retired
    <3>1. uartRx'.taken /\ hostInput'.valid
      BY <1>7, <1>9, <1>10, <2>1, <2>6
    <3>2. Len(heard') - retired' - 0 = 1
      BY <1>0, <2>1, <2>4, <2>6
    <3>3. PairedBy(0)'
      BY <2>5, <3>1, <3>2 DEF PairedBy
    <3>4. PinsOK'
      BY <1>0, <2>1, <2>6, <3>1 DEF PinsOK
    <3>5. retired' <= cmd.text /\ retired' < cmd.text
      BY <1>2, <2>1, <2>6
    <3>6. Len(heard) < cmd.text
      BY <2>1
    <3> QED
      BY <1>5, <2>1, <2>2, <2>3, <3>3, <3>4, <3>5, <3>6
  <2>7. CASE hostInput.valid /\ Consumed /\ ~hostInput'.valid /\ retired' = retired + 1
    <3>2. Len(heard') - retired' - 0 = 0
      BY <1>0, <2>1, <2>4, <2>7
    <3>3. PairedBy(0)'
      BY <2>1, <2>5, <2>7, <3>2 DEF PairedBy
    <3>4. PinsOK'
      BY <1>3, <2>1, <2>7 DEF PinsOK
    <3>5. retired' <= cmd.text
      BY <1>0, <1>1, <2>1, <2>7
    <3> QED
      BY <1>5, <2>1, <2>2, <2>3, <2>7, <3>3, <3>4, <3>5
  <2> QED
    BY <1>6, <2>1, <2>6, <2>7
<1>11. CASE uartRx.guest # "pop"
  <2>1. heard' = heard /\ (uartRx'.taken <=> pins.valid /\ uartRx.taken)
    BY <1>9, <1>11
  <2>2. \A i \in 1 .. Len(heard) : heard[i] \in {i - 0, NUL}
    BY <1>4 DEF PairedBy
  <2>3. CASE hostInput' = hostInput /\ retired' = retired
    <3>1. pins = hostInput
      BY <1>7, <2>3
    <3>2. uartRx'.guest # "idle" => hostInput'.valid
      BY <1>0, <1>2, <1>9, <1>11, <2>3, <3>1 DEF Uart
    <3>3. PairedBy(0)'
      BY <1>0, <1>2, <1>4, <2>1, <2>3, <3>1, <3>2 DEF PairedBy
    <3>4. PinsOK'
      BY <1>0, <1>3, <1>9, <1>11, <2>1, <2>3, <3>1, <3>2 DEF PinsOK, Uart
    <3> QED
      BY <1>2, <1>5, <2>1, <2>3, <3>2, <3>3, <3>4
  <2>4. CASE hostInput.valid /\ Consumed /\ ~hostInput'.valid /\ retired' = retired + 1
    <3>1. uartRx.taken /\ uartRx.guest = "idle" /\ uartRx'.guest = "idle"
      BY <1>0, <1>9, <1>11, <2>4 DEF Consumed, PinsOK
    <3>2. Len(heard) - retired - 0 = 1
      BY <1>4, <2>4, <3>1 DEF PairedBy
    <3>3. Len(heard') - retired' - 0 = 0
      BY <1>0, <2>1, <2>4, <3>2
    <3>4. PairedBy(0)'
      BY <2>1, <2>2, <2>4, <3>1, <3>3 DEF PairedBy
    <3>5. PinsOK'
      BY <1>3, <2>4, <3>1 DEF PinsOK
    <3>6. retired' <= cmd.text
      BY <1>0, <1>1, <1>2, <2>4
    <3> QED
      BY <1>5, <2>1, <2>4, <3>1, <3>4, <3>5, <3>6
  <2>5. CASE /\ ~hostInput.valid /\ ~Consumed /\ retired < cmd.text /\ retired' = retired
             /\ hostInput'.valid /\ hostInput'.char = retired + 1
    <3>1. ~uartRx.taken /\ uartRx.guest = "idle" /\ ~uartRx'.taken
      BY <1>2, <2>1, <2>5 DEF Consumed
    <3>2. Len(heard) - retired - 0 = 0
      BY <1>4, <2>5, <3>1 DEF PairedBy
    <3>3. PairedBy(0)'
      BY <2>1, <2>2, <2>5, <3>1, <3>2 DEF PairedBy
    <3>4. PinsOK'
      BY <1>3, <2>5, <3>1 DEF PinsOK
    <3> QED
      BY <1>2, <1>5, <2>1, <2>5, <3>3, <3>4
  <2> QED
    BY <1>6, <2>3, <2>4, <2>5
<1> QED
  BY <1>10, <1>11

(* The guest's transmissions: '<', what it read, and '>' once it has read    *)
(* the whole text.                                                           *)
LEMMA ScriptOK ==
  ASSUME heard \in Seq(Nat), cmd.text \in Nat
  PROVE  /\ Script \in Seq(Nat)
         /\ Len(Script) = 1 + Len(heard) + (IF Len(heard) = cmd.text THEN 1 ELSE 0)
         /\ Script[1] = LT
         /\ \A i \in 1 .. Len(heard) : Script[i + 1] = heard[i]
         /\ Len(heard) = cmd.text => Script[Len(heard) + 2] = GT
<1>1. PICK n \in Nat : n = Len(heard)
  OBVIOUS
<1>2. LT \in Nat /\ GT \in Nat
  BY DEF LT, GT
<1> DEFINE a == <<LT>> \o heard
           z == IF Len(heard) = cmd.text THEN <<GT>> ELSE <<>>
<1>3. a \in Seq(Nat) /\ Len(a) = 1 + n /\ a[1] = LT /\ \A i \in 1 .. n : a[i + 1] = heard[i]
  BY <1>1, <1>2
<1>4. z \in Seq(Nat) /\ Len(z) = (IF n = cmd.text THEN 1 ELSE 0) /\ (n = cmd.text => z[1] = GT)
  <2>1. CASE n = cmd.text
    <3>1. z = <<GT>>
      BY <1>1, <2>1
    <3> QED
      BY <1>2, <2>1, <3>1
  <2>2. CASE n # cmd.text
    <3>1. z = <<>>
      BY <1>1, <2>2
    <3> QED
      BY <2>2, <3>1
  <2> QED
    BY <2>1, <2>2
<1>5. Script = a \o z
  BY DEF Script
<1> HIDE DEF a, z
<1>6. /\ Script \in Seq(Nat) /\ Len(Script) = 1 + n + Len(z)
      /\ \A i \in 1 .. 1 + n : Script[i] = a[i]
      /\ \A i \in 1 .. Len(z) : Script[1 + n + i] = z[i]
  <2>1. PICK k \in Nat : k = Len(z)
    BY <1>4
  <2>2. /\ Script \in Seq(Nat) /\ Len(Script) = Len(a) + Len(z)
        /\ \A i \in 1 .. Len(a) + Len(z) : Script[i] = IF i <= Len(a) THEN a[i] ELSE z[i - Len(a)]
    BY <1>3, <1>4, <1>5, ConcatProperties, Zenon
  <2>3. \A i \in 1 .. Len(z) : Script[1 + n + i] = z[i]
    <3> SUFFICES ASSUME NEW i \in 1 .. k PROVE Script[1 + n + i] = z[i]
      BY <2>1
    <3>1. PICK j \in Nat : j = 1 + n + i
      OBVIOUS
    <3>2. j \in 1 .. 1 + n + k /\ ~(j <= 1 + n) /\ j - (1 + n) = i
      BY <3>1
    <3>3. Len(a) = 1 + n /\ Len(a) + Len(z) = 1 + n + k
      BY <1>3, <2>1
    <3>4. Script[j] = IF j <= 1 + n THEN a[j] ELSE z[j - (1 + n)]
      BY <2>2, <3>2, <3>3, Zenon
    <3> QED
      BY <3>1, <3>2, <3>4
  <2>4. \A i \in 1 .. 1 + n : i \in 1 .. 1 + n + k /\ i <= 1 + n
    OBVIOUS
  <2>5. \A i \in 1 .. 1 + n : Script[i] = a[i]
    BY <1>3, <2>1, <2>2, <2>4
  <2> QED
    BY <1>3, <2>2, <2>3, <2>5
<1>7. n = cmd.text => Script[n + 2] = GT
  BY <1>4, <1>6
<1>8. \A i \in 1 .. n : Script[i + 1] = heard[i]
  <2> SUFFICES ASSUME NEW i \in 1 .. n PROVE Script[i + 1] = heard[i]
    OBVIOUS
  <2>1. i + 1 \in 1 .. 1 + n
    OBVIOUS
  <2> QED
    BY <1>3, <1>6, <2>1
<1> QED
  BY <1>1, <1>3, <1>4, <1>6, <1>7, <1>8

LEMMA ScriptOKNow ==
  heard \in Seq(Nat) /\ cmd.text \in Nat =>
    /\ Len(Script) = 1 + Len(heard) + (IF Len(heard) = cmd.text THEN 1 ELSE 0)
    /\ Script[1] = LT
    /\ \A i \in 1 .. Len(heard) : Script[i + 1] = heard[i]
  BY ScriptOK

LEMMA ScriptOKPrimed ==
  (heard \in Seq(Nat) /\ cmd.text \in Nat)' =>
    /\ Len(Script') = 1 + Len(heard') + (IF Len(heard') = cmd'.text THEN 1 ELSE 0)
    /\ Script'[1] = LT
    /\ \A i \in 1 .. Len(heard') : Script'[i + 1] = heard'[i]
<1>1. (heard \in Seq(Nat) /\ cmd.text \in Nat =>
         /\ Len(Script) = 1 + Len(heard) + (IF Len(heard) = cmd.text THEN 1 ELSE 0)
         /\ Script[1] = LT
         /\ \A i \in 1 .. Len(heard) : Script[i + 1] = heard[i])'
  BY ScriptOKNow, PTL
<1> QED
  BY <1>1

(* The guest never reads more than the text. *)
LEMMA NotPastText ==
  ASSUME ConTypes, PinsOK, KeysPaired, RxOK, IsRx
  PROVE  Len(heard) <= cmd.text
<1>1. ~Retracted /\ retired \in Nat /\ Len(heard) \in Nat
  BY DEF RxOK, Retracted, ConTypes
<1>2. cmd.text \in Nat
  BY ConsoleCommands DEF ConTypes, IsRx
<1>3. Len(heard) - retired - 0 =
       IF hostInput.valid THEN IF uartRx.taken THEN 1 ELSE 0
       ELSE IF uartRx.guest # "idle" THEN -1 ELSE 0
  BY <1>1 DEF KeysPaired
<1> QED
  BY <1>1, <1>2, <1>3 DEF RxOK

(* What the guest has transmitted stays the beginning of its script. *)
LEMMA ScriptGrows ==
  ASSUME heard \in Seq(Nat), heard' \in Seq(Nat), cmd.text \in Nat, cmd' = cmd,
         heard' = heard \/ (Len(heard) < cmd.text /\ \E b \in Nat : heard' = Append(heard, b))
  PROVE  Len(Script) <= Len(Script') /\ \A i \in 1 .. Len(Script) : Script'[i] = Script[i]
<1>1. CASE heard' = heard
  <2>1. Script' = Script
    BY <1>1 DEF Script
  <2>2. Len(Script) \in Nat
    BY ScriptOK
  <2> QED
    BY <2>1, <2>2
<1>2. CASE Len(heard) < cmd.text /\ \E b \in Nat : heard' = Append(heard, b)
  <2>1. PICK b \in Nat : heard' = Append(heard, b)
    BY <1>2
  <2>2. PICK n \in Nat : n = Len(heard)
    OBVIOUS
  <2>3. Len(heard') = n + 1 /\ \A i \in 1 .. n : heard'[i] = heard[i]
    BY <2>1, <2>2
  <2>4. Len(Script) = 1 + n /\ Script[1] = LT /\ \A i \in 1 .. n : Script[i + 1] = heard[i]
    BY <1>2, <2>2, ScriptOK
  <2>5. (heard \in Seq(Nat) /\ cmd.text \in Nat)' =>
            /\ Len(Script') = 1 + Len(heard') + (IF Len(heard') = cmd'.text THEN 1 ELSE 0)
            /\ Script'[1] = LT
            /\ \A i \in 1 .. Len(heard') : Script'[i + 1] = heard'[i]
    BY ScriptOKPrimed
  <2>6. Len(Script') >= 2 + n /\ Script'[1] = LT /\ \A i \in 1 .. n + 1 : Script'[i + 1] = heard'[i]
    BY <2>3, <2>5
  <2>7. \A i \in 1 .. 1 + n : i = 1 \/ (i - 1 \in 1 .. n /\ (i - 1) + 1 = i)
    OBVIOUS
  <2>8. \A i \in 1 .. n : Script'[i + 1] = Script[i + 1]
    <3> SUFFICES ASSUME NEW i \in 1 .. n PROVE Script'[i + 1] = Script[i + 1]
      OBVIOUS
    <3>1. i \in 1 .. n + 1
      OBVIOUS
    <3>2. Script'[i + 1] = heard'[i]
      BY <2>6, <3>1
    <3>3. Script[i + 1] = heard[i]
      BY <2>4
    <3> QED
      BY <2>3, <3>2, <3>3
  <2>9. \A i \in 1 .. 1 + n : Script'[i] = Script[i]
    <3> SUFFICES ASSUME NEW i \in 1 .. 1 + n PROVE Script'[i] = Script[i]
      OBVIOUS
    <3>1. CASE i = 1
      BY <2>4, <2>6, <3>1
    <3>2. CASE i # 1
      <4>1. PICK j \in 1 .. n : i = j + 1
        BY <2>7, <3>2
      <4> QED
        BY <2>8, <4>1
    <3> QED
      BY <3>1, <3>2
  <2>10. Len(Script') \in Nat
    BY <2>3, <2>5
  <2> QED
    BY <2>4, <2>6, <2>9, <2>10
<1> QED
  BY <1>1, <1>2

(* An iteration captures what the guest transmits, once. *)
LEMMA CaptureOK ==
  ASSUME ConIInv, RxTestClock
  PROVE  /\ txPrev' <=> txPin'.valid
         /\ \/ tx' = tx /\ echoed' = echoed
            \/ \E b \in Nat : /\ tx' = Append(tx, b) /\ echoed' = echoed + 1
                              /\ \/ echoed < Len(Script) /\ b = Script[echoed + 1]
                                 \/ b = RXFAIL /\ simPc' = "host"
<1>0. IsRx /\ simPc = "step" /\ tx \in Seq(Nat) /\ echoed = Len(tx) /\ (txPrev <=> txPin.valid)
  BY DEF ConIInv, RxOK, RxTestClock
<1>1. PICK next \in {<<>>} \cup
                 (IF txPin.valid THEN {}
                  ELSE IF echoed < Len(Script) THEN {<<Script[echoed + 1]>>}
                  ELSE IF uartRx.guest = "idle" /\ Len(heard) < cmd.text THEN {<<RXFAIL>>} ELSE {}) :
           /\ echoed' = echoed + Len(next)
           /\ txPin' = [valid |-> next # <<>>, byte |-> IF next = <<>> THEN NUL ELSE next[1]]
  BY DEF RxTestClock
<1>2. \/ next = <<>>
      \/ ~txPin.valid /\ echoed < Len(Script) /\ next = <<Script[echoed + 1]>>
      \/ ~txPin.valid /\ next = <<RXFAIL>>
  BY <1>1
<1>3. tx' = tx \o EdgeCapture(txPin', txPrev) /\ txPrev' = txPin'.valid
      /\ simPc' = IF tx' # tx /\ tx'[Len(tx')] \in {GT, RXFAIL} THEN "host" ELSE "step"
  BY DEF RxTestClock
<1>4. heard \in Seq(Nat) /\ cmd.text \in Nat
  BY <1>0, ConsoleCommands DEF ConIInv, ConTypes, IsRx
<1>5. CASE next = <<>>
  <2>a. txPin' = [valid |-> FALSE, byte |-> NUL]
    BY <1>1, <1>5
  <2>b. echoed' = echoed + 0 /\ echoed \in Nat
    BY <1>0, <1>1, <1>5
  <2>1. ~txPin'.valid /\ echoed' = echoed
    BY <2>a, <2>b
  <2>2. EdgeCapture(txPin', txPrev) = <<>>
    BY <2>1 DEF EdgeCapture
  <2>3. tx' = tx
    BY <1>0, <1>3, <2>2
  <2> QED
    BY <1>3, <2>1, <2>3
<1>6. ASSUME NEW b \in Nat, next = <<b>>, ~txPin.valid
      PROVE  tx' = Append(tx, b) /\ echoed' = echoed + 1 /\ (b = RXFAIL => simPc' = "host")
  <2>1. next # <<>> /\ next[1] = b /\ Len(next) = 1
    BY <1>6
  <2>2. txPin' = [valid |-> TRUE, byte |-> b]
    BY <1>1, <2>1
  <2>3. txPin'.valid /\ txPin'.byte = b /\ ~txPrev
    BY <1>0, <1>6, <2>2
  <2>4. EdgeCapture(txPin', txPrev) = <<b>>
    BY <2>3 DEF EdgeCapture
  <2>5. tx' = Append(tx, b)
    BY <1>0, <1>3, <2>4
  <2>6. tx' # tx /\ tx'[Len(tx')] = b
    BY <1>0, <2>5
  <2> QED
    BY <1>1, <1>3, <2>1, <2>5, <2>6
<1>7. CASE ~txPin.valid /\ echoed < Len(Script) /\ next = <<Script[echoed + 1]>>
  <2>1. Script[echoed + 1] \in Nat
    <3>1. Script \in Seq(Nat)
      BY <1>4, ScriptOK
    <3>2. echoed \in Nat /\ echoed + 1 \in 1 .. Len(Script)
      BY <1>0, <1>7, <3>1
    <3> QED
      BY <3>1, <3>2
  <2> QED
    BY <1>3, <1>6, <1>7, <2>1
<1>8. CASE ~txPin.valid /\ next = <<RXFAIL>>
  <2>1. RXFAIL \in Nat
    BY DEF RXFAIL
  <2> QED
    BY <1>3, <1>6, <1>8, <2>1
<1> QED
  BY <1>2, <1>5, <1>7, <1>8

LEMMA RxClockOK ==
  ASSUME ConIInv, RxTestClock
  PROVE  RxOK'
<1>0. /\ IsRx /\ simPc = "step" /\ tx \in Seq(Nat) /\ echoed = Len(tx)
      /\ \A i \in 1 .. Len(tx) : i <= Len(Script) /\ tx[i] = Script[i]
  BY DEF ConIInv, RxOK, RxTestClock
<1>1. heard \in Seq(Nat) /\ cmd.text \in Nat /\ cmd' = cmd /\ heard' \in Seq(Nat)
  BY <1>0, ConsoleCommands, ConTypesStep DEF ConIInv, ConTypes, IsRx, RxTestClock, ConsoleNext
<1>2. Len(Script) <= Len(Script') /\ \A i \in 1 .. Len(Script) : Script'[i] = Script[i]
  BY <1>1, RxClockPairs, ScriptGrows
<1>3. Len(Script) \in Nat /\ Len(Script') \in Nat
  <2>1. Len(Script) \in Nat
    BY <1>1, ScriptOK
  <2>2. Len(Script') \in Nat
    BY <1>1, ScriptOKPrimed
  <2> QED
    BY <2>1, <2>2
<1>4. PICK n \in Nat : n = Len(tx)
  BY <1>0
<1>5. \A i \in 1 .. n : i <= Len(Script') /\ tx[i] = Script'[i]
  <2> SUFFICES ASSUME NEW i \in 1 .. n PROVE i <= Len(Script') /\ tx[i] = Script'[i]
    OBVIOUS
  <2>1. i <= Len(Script) /\ tx[i] = Script[i]
    BY <1>0, <1>4
  <2>2. i \in 1 .. Len(Script)
    BY <1>3, <2>1
  <2> QED
    BY <1>2, <1>3, <2>1, <2>2
<1>6. /\ tx' \in Seq(Nat) /\ echoed' = Len(tx') /\ (txPrev' <=> txPin'.valid)
      /\ \A i \in 1 .. Len(tx') :
           \/ i <= Len(Script') /\ tx'[i] = Script'[i]
           \/ i = Len(tx') /\ tx'[i] = RXFAIL /\ simPc' # "step"
  <2>1. CASE tx' = tx /\ echoed' = echoed
    BY <1>0, <1>4, <1>5, <2>1, CaptureOK
  <2>2. ASSUME NEW b \in Nat, tx' = Append(tx, b), echoed' = echoed + 1,
               \/ echoed < Len(Script) /\ b = Script[echoed + 1]
               \/ b = RXFAIL /\ simPc' = "host"
        PROVE  /\ tx' \in Seq(Nat) /\ echoed' = Len(tx')
               /\ \A i \in 1 .. Len(tx') :
                    \/ i <= Len(Script') /\ tx'[i] = Script'[i]
                    \/ i = Len(tx') /\ tx'[i] = RXFAIL /\ simPc' # "step"
    <3>1. tx' \in Seq(Nat) /\ Len(tx') = n + 1 /\ tx'[n + 1] = b /\ \A i \in 1 .. n : tx'[i] = tx[i]
      BY <1>0, <1>4, <2>2
    <3>2. \/ n + 1 <= Len(Script') /\ b = Script'[n + 1]
          \/ b = RXFAIL /\ simPc' # "step"
      <4>1. CASE echoed < Len(Script) /\ b = Script[echoed + 1]
        <5>1. n + 1 \in 1 .. Len(Script)
          BY <1>0, <1>3, <1>4, <4>1
        <5> QED
          BY <1>0, <1>2, <1>3, <1>4, <4>1, <5>1
      <4> QED
        BY <2>2, <4>1
    <3>3. \A i \in 1 .. n + 1 : i \in 1 .. n \/ i = n + 1
      OBVIOUS
    <3>4. \A i \in 1 .. n : i <= Len(Script') /\ tx'[i] = Script'[i]
      BY <1>5, <3>1
    <3> QED
      BY <1>0, <1>4, <2>2, <3>1, <3>2, <3>3, <3>4
  <2> QED
    BY <2>1, <2>2, CaptureOK
<1>7. simPc' # "off" /\ origin' = 0 /\ IsRx
  BY <1>0 DEF RxTestClock, ConIInv, RxOK, ckptVars
<1>8. /\ uartRx'.guest # "idle" => hostInput'.valid
      /\ retired' <= cmd'.text /\ (hostInput'.valid => retired' < cmd'.text)
  BY <1>1, RxClockPairs
<1> QED
  BY <1>6, <1>7, <1>8 DEF RxOK

(* PASS: the captured bytes are all of the script, so the guest has read the *)
(* whole text.                                                               *)
LEMMA RxDoneOK ==
  ASSUME ConIInv, RxTestDone
  PROVE  RxOK' /\ RxPassSound'
<1>0. /\ IsRx /\ tx \in Seq(Nat) /\ Len(tx) \in Nat /\ heard \in Seq(Nat) /\ cmd.text \in Nat
      /\ \A i \in 1 .. Len(tx) : (i <= Len(Script) /\ tx[i] = Script[i]) \/ (i = Len(tx) /\ tx[i] = RXFAIL)
  BY ConsoleCommands DEF ConIInv, RxOK, RxTestDone, ConTypes, IsRx
<1>1. UNCHANGED <<cmd, rxVars, inVars, ckptVars, txVars>> /\ simPc' = RxVerdict
  BY DEF RxTestDone
<1>2. RxOK'
  <2>1. Script' = Script /\ simPc' \in {"exit0", "exit1"}
    BY <1>1 DEF Script, rxVars, RxVerdict
  <2> QED
    BY <1>1, <2>1 DEF ConIInv, RxOK, rxVars, inVars, ckptVars, txVars, IsRx
<1>3. ASSUME simPc' = "exit0" PROVE heard = [i \in 1 .. cmd.text |-> i]
  <2>1. /\ tx # <<>> /\ tx[1] = LT /\ tx[Len(tx)] = GT
        /\ SubSeq(tx, 2, Len(tx) - 1) = [i \in 1 .. cmd.text |-> i]
    BY <1>1, <1>3 DEF RxVerdict
  <2>2. PICK n \in Nat : n = Len(tx)
    BY <1>0
  <2>3. PICK t \in Nat : t = cmd.text
    BY <1>0
  <2>4. n >= 2
    <3>1. n # 0
      BY <1>0, <2>1, <2>2, EmptySeq
    <3>2. n # 1
      BY <2>1, <2>2 DEF LT, GT
    <3> QED
      BY <3>1, <3>2
  <2>a. PICK mid : mid = SubSeq(tx, 2, n - 1)
    OBVIOUS
  <2>5. mid \in Seq(Nat) /\ Len(mid) = n - 2 /\ \A i \in 1 .. n - 2 : mid[i] = tx[i + 1]
    <3>1. \A i \in 2 .. n - 1 : tx[i] \in Nat
      BY <1>0, <2>2
    <3> QED
      BY <2>4, <2>a, <3>1, SubSeqProperties
  <2>6. DOMAIN mid = 1 .. n - 2 /\ DOMAIN mid = 1 .. t /\ \A i \in 1 .. t : mid[i] = i
    <3>1. DOMAIN mid = 1 .. n - 2
      BY <2>5
    <3>2. mid = [i \in 1 .. t |-> i]
      BY <2>1, <2>2, <2>3, <2>a
    <3> QED
      BY <3>1, <3>2
  <2>7. n = t + 2
    <3>1. 1 .. n - 2 = 1 .. t
      BY <2>6
    <3>2. \A k \in Nat : k \in 1 .. n - 2 <=> k \in 1 .. t
      BY <3>1
    <3> QED
      BY <2>4, <3>2
  <2>8. \A i \in 1 .. n : i <= Len(Script) /\ tx[i] = Script[i]
    BY <1>0, <2>1, <2>2 DEF GT, RXFAIL
  <2>9. Len(heard) <= t
    BY <2>3, <1>0, NotPastText DEF ConIInv, ConsoleSound
  <2>10. Len(Script) = 1 + Len(heard) + (IF Len(heard) = t THEN 1 ELSE 0)
         /\ \A i \in 1 .. Len(heard) : Script[i + 1] = heard[i]
    BY <1>0, <2>3, ScriptOK
  <2>11. Len(heard) = t
    <3>1. n <= Len(Script)
      BY <2>4, <2>8
    <3>2. Len(heard) \in Nat
      BY <1>0
    <3> QED
      BY <2>7, <2>9, <2>10, <3>1, <3>2
  <2>12. \A i \in 1 .. t : heard[i] = i
    <3> SUFFICES ASSUME NEW i \in 1 .. t PROVE heard[i] = i
      OBVIOUS
    <3>1. i + 1 \in 1 .. n /\ i \in 1 .. n - 2
      BY <2>7
    <3>2. heard[i] = Script[i + 1]
      BY <2>10, <2>11
    <3>3. Script[i + 1] = tx[i + 1]
      BY <2>8, <3>1
    <3>4. tx[i + 1] = mid[i]
      BY <2>5, <3>1
    <3> QED
      BY <2>6, <3>2, <3>3, <3>4
  <2>13. heard = [i \in 1 .. Len(heard) |-> heard[i]]
    BY <1>0
  <2> QED
    BY <2>3, <2>11, <2>12, <2>13
<1>4. UNCHANGED <<heard, cmd>>
  BY <1>1 DEF rxVars
<1> QED
  BY <1>2, <1>3, <1>4 DEF RxPassSound

(* A restored process starts with nothing heard and nothing retired; a pop   *)
(* the saved guest still owes is the spare one.                              *)
LEMMA RestorePairs ==
  ASSUME ConIInv, Restore
  PROVE  PinsOK' /\ KeysPaired'
<1>0. FilesOK /\ PinsOK /\ KeysPaired /\ IsSim /\ simPc = "off" /\ cmd' = cmd
  BY DEF ConIInv, ConsoleSound, Restore
<1>1. PICK f \in DOMAIN disk :
        IF ~disk[f].whole
        THEN simPc' = "exit1" /\ UNCHANGED <<tickcount, waited, interrupt, rxVars, inVars, pcs, bandVars, ckptVars>>
        ELSE /\ simPc' = "step" /\ uartRx' = disk[f].uart
             /\ hostInput' = [valid |-> FALSE, char |-> NUL]
             /\ heard' = <<>> /\ retired' = 0 /\ origin' = f /\ UNCHANGED disk
  BY DEF Restore
<1>2. CASE ~disk[f].whole
  <2>1. UNCHANGED <<uartRx, heard, hostInput, retired, origin, disk>> /\ simPc' = "exit1"
    BY <1>1, <1>2 DEF rxVars, inVars, ckptVars
  <2>2. Retracted' <=> Retracted
    BY <2>1 DEF Retracted
  <2>3. PinsOK'
    BY <1>0, <2>1, <2>2 DEF PinsOK
  <2>4. KeysPaired'
    BY <1>0, <2>1, <2>2 DEF KeysPaired
  <2> QED
    BY <2>3, <2>4
<1>3. CASE disk[f].whole
  <2>1. /\ uartRx' = disk[f].uart /\ ~hostInput'.valid /\ heard' = <<>> /\ retired' = 0
        /\ origin' = f /\ disk' = disk /\ f # 0 /\ simPc' = "step"
    BY <1>0, <1>1, <1>3 DEF FilesOK
  <2>2. (disk[f].uart.taken => disk[f].uart.guest = "idle") /\ disk[f].uart \in Uart
    BY <1>0, <1>3 DEF FilesOK
  <2>3. Retracted' <=> uartRx'.guest # "idle"
    BY <2>1 DEF Retracted
  <2>4. PinsOK'
    BY <2>1, <2>2, <2>3 DEF PinsOK
  <2>5. Len(heard') = 0
    BY <2>1
  <2>6. KeysPaired'
    <3>1. CASE uartRx'.guest = "idle"
      BY <2>1, <2>5, <3>1 DEF KeysPaired
    <3>2. CASE uartRx'.guest # "idle"
      <4>1. 1 \in IF Retracted' THEN {0, 1} ELSE {0}
        BY <2>3, <3>2
      <4>2. 0 - 0 - 1 = -1
        OBVIOUS
      <4> QED
        BY <2>1, <2>5, <3>2, <4>1, <4>2 DEF KeysPaired
    <3> QED
      BY <3>1, <3>2
  <2> QED
    BY <2>4, <2>6
<1> QED
  BY <1>2, <1>3

LEMMA ConStep == ConIInv /\ [ConsoleNext]_<<cmd, conVars>> => ConIInv'
<1> SUFFICES ASSUME ConIInv, [ConsoleNext]_<<cmd, conVars>> PROVE ConIInv'
  OBVIOUS
<1>0. ConTypes' /\ FilesOK' /\ BandsOK'
  BY ConTypesStep, FilesStep, BandsStep
<1>1. ASSUME UNCHANGED <<cmd, uartRx, heard, hostInput, retired>>, ~Restore, simPc' = "host" => simPc = "host"
      PROVE  PinsOK' /\ KeysPaired'
  <2>1. Retracted' <=> Retracted
    BY <1>1, OriginStays
  <2>2. PinsOK'
    BY <1>1, <2>1 DEF ConIInv, PinsOK, IsSim
  <2>3. KeysPaired'
    BY <1>1, <2>1 DEF ConIInv, ConsoleSound, KeysPaired
  <2> QED
    BY <2>2, <2>3
<1>2. PinsOK' /\ KeysPaired'
  <2>1. CASE SaveCkpt \/ Signal \/ Kill \/ RxTestDone \/ UNCHANGED <<cmd, conVars>>
    <3>1. UNCHANGED <<cmd, uartRx, heard, hostInput, retired>> /\ (simPc' = "host" => simPc = "host")
      BY <2>1 DEF SaveCkpt, Signal, Kill, RxTestDone, RxVerdict, conVars, rxVars, inVars
    <3>2. CASE Restore
      BY <3>2, RestorePairs
    <3> QED
      BY <1>1, <3>1, <3>2
  <2> QED
    BY <2>1, ClockPairs, LoopPairs, RestorePairs, RxClockPairs DEF ConsoleNext
<1>3. RxOK' /\ RxPassSound'
  <2>1. CASE RxTestClock
    <3>1. simPc' \in {"host", "step"}
      BY <2>1 DEF RxTestClock
    <3> QED
      BY <2>1, <3>1, RxClockOK DEF RxPassSound
  <2>2. CASE RxTestDone
    BY <2>2, RxDoneOK
  <2>3. CASE SimClock \/ SimLoop \/ SaveCkpt \/ Signal \/ Kill \/ Restore
    <3>1. ~IsRx'
      BY <2>3 DEF SimClock, SimLoop, SaveCkpt, Signal, Kill, Restore, IsSim, IsRx
    <3> QED
      BY <3>1 DEF RxOK, RxPassSound
  <2>4. CASE UNCHANGED <<cmd, conVars>>
    <3>1. UNCHANGED <<cmd, simPc, uartRx, heard, hostInput, retired, origin, tx, echoed, txPin, txPrev>>
      BY <2>4 DEF conVars, rxVars, inVars, ckptVars, txVars
    <3> QED
      BY <3>1 DEF ConIInv, ConsoleSound, RxOK, RxPassSound, IsRx, Script
  <2> QED
    BY <2>1, <2>2, <2>3, <2>4 DEF ConsoleNext
<1> QED
  BY <1>0, <1>2, <1>3 DEF ConIInv, ConsoleSound

(* For every command line, any number of harts and any sampling of the pins, *)
(* the host and the guest agree on every keystroke, also across kills and    *)
(* restores, and a PASS of uartrx_test is never accidental.                  *)
THEOREM ConsoleSafety == ConsoleSpec => []ConsoleSound
<1>1. ConIInv => ConsoleSound
  BY DEF ConIInv
<1> QED
  BY <1>1, ConInitOK, ConStep, PTL DEF ConsoleSpec

(* For every interval, retention and point of a kill: once a checkpoint is   *)
(* whole there is always a whole one, and a process never prunes or rewrites *)
(* the file it was restored from; and a heartbeat flags exactly the harts    *)
(* that stayed in one band for two windows.                                  *)
THEOREM RunsAreRecoverable == ConsoleSpec => RunsRecoverable
<1>1. ASSUME ConIInv, [ConsoleNext]_<<cmd, conVars>>
      PROVE  /\ (\E n \in DOMAIN disk : disk[n].whole) => \E n \in DOMAIN disk' : disk'[n].whole
             /\ origin # 0 => origin \in DOMAIN disk' /\ disk'[origin].whole
  <2>0. ConTypes /\ FilesOK
    BY <1>1 DEF ConIInv
  <2>1. origin # 0 => origin \in DOMAIN disk' /\ disk'[origin].whole
    BY <1>1, <2>0, OriginStays DEF FilesOK
  <2>2. ASSUME origin = 0, NEW n \in DOMAIN disk, disk[n].whole
        PROVE  \E m \in DOMAIN disk' : disk'[m].whole
    <3>1. CASE SimLoop
      <4>1. simPc = "host" /\ (disk' = disk \/ OpenCkpt)
        BY <3>1 DEF SimLoop, ckptVars
      <4>2. n # tickcount
        BY <2>0, <2>2, <4>1 DEF FilesOK, ConTypes
      <4> QED
        BY <2>0, <2>2, <4>1, <4>2, OpenCkptOK
    <3>2. CASE SaveCkpt
      BY <2>0, <3>2, SaveCkptOK
    <3>3. CASE disk' = disk
      BY <2>2, <3>3
    <3> QED
      BY <1>1, <3>1, <3>2, <3>3
         DEF ConsoleNext, conVars, SimClock, Signal, Kill, Restore, RxTestClock, RxTestDone, ckptVars
  <2> QED
    BY <2>1, <2>2
<1>2. ASSUME ConIInv, [ConsoleNext]_<<cmd, conVars>>, IsSim, nextHb' > nextHb, simPc = "host", NEW h \in Harts
      PROVE  LET now == window'[h][2] old == window[h][2] IN
             h \in pinned' <=>
               /\ \A p, q \in now : p - q < Page
               /\ \A p \in now : \E q \in old : q <= p
               /\ \A p \in now : \E q \in old : q >= p
               /\ \A q \in old : (\E p \in now : p <= q) /\ (\E p \in now : p >= q)
  <2>0. ConTypes /\ BandsOK /\ BandsOK'
    BY <1>2, BandsStep DEF ConIInv
  <2>1. nextHb' # nextHb
    <3>1. SUFFICES ASSUME nextHb' = nextHb PROVE FALSE
      OBVIOUS
    <3> QED
      BY <1>2, <2>0, <3>1 DEF BandsOK
  <2>2. DebugBands
    BY <1>2, <2>1 DEF ConsoleNext, conVars, bandVars, SimClock, SimLoop, SaveCkpt, Signal, Kill, Restore,
         RxTestClock, RxTestDone
  <2>3. tickcount >= nextHb /\ Heartbeat(Folded)
    BY <2>1, <2>2 DEF DebugBands
  <2>4. window' = [g \in Harts |-> <<{}, window[g][1] \cup {pcs[g]}>>]
    BY <2>2, <2>3 DEF DebugBands
  <2>5. window'[h][2] = window[h][1] \cup {pcs[h]}
    BY <2>4
  <2>6. h \in pinned' <=> (Folded[h][2] >= Folded[h][1] /\ Folded[h][2] - Folded[h][1] < Page /\ Folded[h] = prevBand[h])
    BY <2>3 DEF Heartbeat
  <2>7. PICK now \in SUBSET Words, old \in SUBSET Words, b \in Words \X Words, c \in Words \X Words :
          now = window'[h][2] /\ old = window[h][2] /\ b = Folded[h] /\ c = prevBand[h]
    BY <2>0, FoldedOK DEF BandsOK
  <2>8. Spans(b, now) /\ Spans(c, old)
    BY <2>0, <2>5, <2>7, FoldedOK DEF BandsOK
  <2>9. (b[2] >= b[1] /\ b[2] - b[1] < Page /\ b = c) <=>
           /\ \A p, q \in now : p - q < Page
           /\ \A p \in now : \E q \in old : q <= p
           /\ \A p \in now : \E q \in old : q >= p
           /\ \A q \in old : (\E p \in now : p <= q) /\ (\E p \in now : p >= q)
    BY <2>8, TightAndSame, ZenonT(60)
  <2> QED
    BY <2>6, <2>7, <2>9
<1>3. ConIInv /\ [ConsoleNext]_<<cmd, conVars>> =>
        [/\ (\E n \in DOMAIN disk : disk[n].whole) => \E n \in DOMAIN disk' : disk'[n].whole
         /\ origin # 0 => origin \in DOMAIN disk' /\ disk'[origin].whole]_conVars
  BY <1>1
<1>4. ConIInv /\ [ConsoleNext]_<<cmd, conVars>> =>
        [(IsSim /\ nextHb' > nextHb /\ simPc = "host") =>
           \A h \in Harts :
             LET now == window'[h][2] old == window[h][2] IN
             h \in pinned' <=>
               /\ \A p, q \in now : p - q < Page
               /\ \A p \in now : \E q \in old : q <= p
               /\ \A p \in now : \E q \in old : q >= p
               /\ \A q \in old : (\E p \in now : p <= q) /\ (\E p \in now : p >= q)]_conVars
  BY <1>2
<1> QED
  BY <1>3, <1>4, ConInitOK, ConStep, PTL DEF ConsoleSpec, RunsRecoverable, PinnedExact, RestorePoint
-----------------------------------------------------------------------------
(* The demos.  Harts between two barriers are in the same section: one that  *)
(* has arrived is a section ahead until the round is opened.                 *)
Together == \E s \in 0 .. 4 : \A h \in Harts : sec[h] = IF h \in Held THEN Following(s) ELSE s

DemoIInv ==
  /\ cmd \in Commands /\ BarrierIInv
  /\ ip \in [Harts -> Nat \ {0}] /\ DOMAIN sec = Harts
  /\ Together
  /\ \A h \in Harts : sec[h] \in 0 .. (IF cmd.tool = "mt-cube" THEN 2 ELSE IF cmd.tool = "mt-solid" THEN 3 ELSE 4)

LEMMA DemoInitOK == cmd \in Commands /\ DemoInit => DemoIInv
<1> SUFFICES ASSUME cmd \in Commands, DemoInit PROVE DemoIInv
  OBVIOUS
<1>1. BarrierIInv /\ Held = {}
  BY BarrierInitOK DEF DemoInit, BarrierInit, Held
<1>2. \A h \in Harts : sec[h] = 0
  BY DEF DemoInit
<1>3. Together
  BY <1>1, <1>2 DEF Together
<1> QED
  BY <1>1, <1>2, <1>3 DEF DemoInit, DemoIInv

(* Nobody but the last hart of a round changes who is held, and it lets      *)
(* everybody go.                                                             *)
LEMMA HeldMoves ==
  ASSUME BarrierIInv, NEW h \in Harts
  PROVE  /\ Arrive(h) => h \notin Held /\ Held' = Held \cup {h}
         /\ ResetCount(h) \/ Pass(h) => Held' = Held
         /\ Release(h) => Held = Harts /\ Held' = {}
<1>1. ASSUME Arrive(h) PROVE h \notin Held /\ Held' = Held \cup {h}
  BY <1>1, ArriveHolds
<1>2. ASSUME ResetCount(h) \/ Pass(h) PROVE Held' = Held
  BY <1>2 DEF ResetCount, Pass, Held
<1>3. ASSUME Release(h) PROVE Held = Harts /\ Held' = {}
  BY <1>3, ReleaseOpens
<1> QED
  BY <1>1, <1>2, <1>3

LEMMA DemoStepOK == DemoIInv /\ [DemoNext]_<<cmd, demoVars>> => DemoIInv'
<1> SUFFICES ASSUME DemoIInv, [DemoNext]_<<cmd, demoVars>> PROVE DemoIInv'
  OBVIOUS
<1>0. /\ cmd \in Commands /\ BarrierIInv
      /\ ip \in [Harts -> Nat \ {0}] /\ DOMAIN sec = Harts
  BY DEF DemoIInv
<1>s. PICK s \in 0 .. 4 : \A h \in Harts : sec[h] = IF h \in Held THEN Following(s) ELSE s
  BY DEF DemoIInv, Together
<1> DEFINE top == IF cmd.tool = "mt-cube" THEN 2 ELSE IF cmd.tool = "mt-solid" THEN 3 ELSE 4
<1>r. \A h \in Harts : sec[h] \in 0 .. top
  BY DEF DemoIInv
<1>1. CASE UNCHANGED <<cmd, demoVars>>
  <2>1. UNCHANGED <<cmd, ip, sec>> /\ UNCHANGED barrierVars
    BY <1>1 DEF demoVars
  <2>2. BarrierIInv' /\ Held' = Held
    BY <1>0, <2>1, BarrierStepOK DEF barrierVars, Held
  <2> QED
    BY <1>0, <1>s, <1>r, <2>1, <2>2 DEF DemoIInv, Together, Following
<1>2. CASE DemoNext
  <2>1. PICK h \in Harts : DemoStep(h)
    BY <1>2 DEF DemoNext
  <2>2. cmd' = cmd /\ cmd.tool \in DemoTools
    BY <2>1 DEF DemoStep
  <2>f. \A n : Following(n)' = Following(n)
    BY <2>2 DEF Following
  <2>n. \A n \in 0 .. top : Following(n) \in 0 .. top
    BY <2>2 DEF Following, DemoTools, Scenes
  <2>3. CASE Work(h)
    <3>1. UNCHANGED barrierVars /\ sec' = sec /\ ip' = [ip EXCEPT ![h] = @ + 1]
      BY <2>3 DEF Work
    <3>2. BarrierIInv' /\ Held' = Held
      BY <1>0, <3>1, BarrierStepOK DEF barrierVars, Held
    <3>3. ip' \in [Harts -> Nat \ {0}]
      BY <1>0, <3>1
    <3> QED
      BY <1>0, <1>s, <1>r, <2>2, <2>f, <3>1, <3>2, <3>3 DEF DemoIInv, Together
  <2>4. CASE EnterBarrier(h)
    <3>1. Arrive(h) /\ sec' = [sec EXCEPT ![h] = Following(@)] /\ ip' = [ip EXCEPT ![h] = 1]
      BY <2>4 DEF EnterBarrier
    <3>2. BarrierIInv'
      BY <1>0, <3>1, ArriveOK
    <3>3. h \notin Held /\ Held' = Held \cup {h}
      BY <1>0, <3>1, HeldMoves
    <3>4. sec[h] = s /\ sec'[h] = Following(s) /\ \A g \in Harts \ {h} : sec'[g] = sec[g]
      BY <1>0, <1>s, <3>1, <3>3
    <3>5. \A g \in Harts : sec'[g] = IF g \in Held' THEN Following(s) ELSE s
      BY <1>s, <3>3, <3>4
    <3>6. \A g \in Harts : sec'[g] \in 0 .. top
      BY <1>r, <2>n, <3>4
    <3>7. ip' \in [Harts -> Nat \ {0}] /\ DOMAIN sec' = Harts
      BY <1>0, <3>1
    <3>8. Together'
      BY <2>f, <3>5 DEF Together
    <3>9. cmd' \in Commands /\ cmd'.tool = cmd.tool
      BY <1>0, <2>2
    <3> QED
      BY <3>2, <3>6, <3>7, <3>8, <3>9 DEF DemoIInv
  <2>5. CASE LeaveBarrier(h)
    <3>1. InBarrier(h) /\ sec' = sec /\ ip' = ip
      BY <2>5 DEF LeaveBarrier
    <3>2. BarrierIInv'
      BY <1>0, <3>1, BarrierStepOK DEF BarrierNext
    <3>3. CASE Held' = Held
      BY <1>0, <1>s, <1>r, <2>2, <2>f, <3>1, <3>2, <3>3 DEF DemoIInv, Together
    <3>4. CASE Held = Harts /\ Held' = {}
      <4>1. \A g \in Harts : sec'[g] = Following(s) /\ g \notin Held'
        BY <1>s, <3>1, <3>4
      <4>2. Following(s) \in 0 .. 4
        <5>1. 0 \in Harts
          OBVIOUS
        <5>2. sec[0] \in 0 .. top /\ sec[0] = Following(s)
          BY <1>r, <3>1, <4>1, <5>1
        <5> QED
          BY <5>2
      <4>3. Together'
        BY <4>1, <4>2 DEF Together
      <4> QED
        BY <1>0, <1>r, <2>2, <3>1, <3>2, <4>3 DEF DemoIInv
    <3> QED
      BY <1>0, <3>1, <3>3, <3>4, HeldMoves DEF InBarrier
  <2> QED
    BY <2>1, <2>3, <2>4, <2>5 DEF DemoStep
<1> QED
  BY <1>1, <1>2

(* Larger numbers have no smaller quotients. *)
LEMMA DivGrows ==
  ASSUME NEW a \in Nat, NEW b \in Nat, NEW n \in Nat \ {0}, a <= b
  PROVE  a \div n \in Nat /\ b \div n \in Nat /\ a \div n <= b \div n
<1>1. PICK p \in Nat : p = a \div n
  OBVIOUS
<1>2. PICK q \in Nat : q = b \div n
  OBVIOUS
<1>3. n * p <= a /\ a < n * p + n
  BY <1>1
<1>4. n * q <= b /\ b < n * q + n
  BY <1>2
<1>5. ASSUME p > q PROVE FALSE
  <2>1. p >= q + 1
    BY <1>5
  <2>2. n * p >= n * (q + 1)
    BY <2>1
  <2>3. n * (q + 1) = n * q + n
    OBVIOUS
  <2> QED
    BY <1>3, <1>4, <2>2, <2>3
<1> QED
  BY <1>1, <1>2, <1>5

LEMMA DivWhole ==
  ASSUME NEW a \in Nat, NEW n \in Nat \ {0}
  PROVE  (n * a) \div n = a /\ (a \div n) * n <= a
<1>1. PICK q \in Nat : q = (n * a) \div n
  OBVIOUS
<1>2. n * q <= n * a /\ n * a < n * q + n
  BY <1>1
<1>3. ~(q > a)
  <2> SUFFICES ASSUME q >= a + 1 PROVE FALSE
    OBVIOUS
  <2>1. n * q >= n * (a + 1) /\ n * (a + 1) = n * a + n
    OBVIOUS
  <2> QED
    BY <1>2, <2>1
<1>4. ~(q < a)
  <2> SUFFICES ASSUME a >= q + 1 PROVE FALSE
    OBVIOUS
  <2>1. n * a >= n * (q + 1) /\ n * (q + 1) = n * q + n
    OBVIOUS
  <2> QED
    BY <1>2, <2>1
<1>5. PICK r \in Nat : r = a \div n
  OBVIOUS
<1>6. n * r <= a
  BY <1>5
<1> QED
  BY <1>1, <1>3, <1>4, <1>5, <1>6

(* The parts of two harts do not meet. *)
LEMMA SliceApart ==
  ASSUME NEW n \in Nat
  PROVE  /\ \A h \in Harts : Slice(h, n).lo \in Nat /\ Slice(h, n).hi \in Nat
                             /\ Slice(h, n).lo <= Slice(h, n).hi
         /\ \A g, h \in Harts : g < h => Slice(g, n).hi <= Slice(h, n).lo
<1>1. ASSUME NEW h \in Harts
      PROVE  Slice(h, n).lo \in Nat /\ Slice(h, n).hi \in Nat /\ Slice(h, n).lo <= Slice(h, n).hi
  <2>1. PICK a \in Nat, b \in Nat : a = h * n /\ b = (h + 1) * n
    OBVIOUS
  <2>2. a <= b
    BY <2>1
  <2> QED
    BY <2>1, <2>2, DivGrows DEF Slice
<1>2. ASSUME NEW g \in Harts, NEW h \in Harts, g < h
      PROVE  Slice(g, n).hi <= Slice(h, n).lo
  <2>1. PICK a \in Nat, b \in Nat : a = (g + 1) * n /\ b = h * n
    OBVIOUS
  <2>2. a <= b
    <3>1. PICK d \in Nat : h = g + 1 + d
      <4>1. h - g - 1 \in Nat /\ h = g + 1 + (h - g - 1)
        BY <1>2
      <4> QED
        BY <4>1
    <3>2. h * n = (g + 1) * n + d * n /\ d * n \in Nat
      BY <3>1
    <3> QED
      BY <2>1, <3>2
  <2> QED
    BY <2>1, <2>2, DivGrows DEF Slice
<1> QED
  BY <1>1, <1>2

LEMMA FireApart ==
  ASSUME NEW n \in Nat
  PROVE  /\ \A h \in Harts : FireSlice(h, n).lo \in Nat /\ FireSlice(h, n).hi \in Nat
                             /\ FireSlice(h, n).lo <= FireSlice(h, n).hi /\ FireSlice(h, n).hi <= n
         /\ \A g, h \in Harts : g < h => FireSlice(g, n).hi <= FireSlice(h, n).lo
<1>1. PICK part \in Nat : part = n \div NUM_HARTS /\ part * NUM_HARTS <= n
  BY DivWhole
<1>2. \A h \in Harts : FireSlice(h, n) = [lo |-> h * part, hi |-> IF h = NUM_HARTS - 1 THEN n ELSE h * part + part]
  BY <1>1 DEF FireSlice
<1>3. \A h \in Harts : h * part \in Nat /\ h * part + part <= n
  <2> SUFFICES ASSUME NEW h \in Harts PROVE h * part \in Nat /\ h * part + part <= n
    OBVIOUS
  <2>1. PICK d \in Nat : NUM_HARTS = h + 1 + d
    <3>1. NUM_HARTS - h - 1 \in Nat /\ NUM_HARTS = h + 1 + (NUM_HARTS - h - 1)
      OBVIOUS
    <3> QED
      BY <3>1
  <2>2. part * NUM_HARTS = h * part + part + d * part /\ d * part \in Nat /\ h * part \in Nat
    BY <2>1
  <2> QED
    BY <1>1, <2>2
<1>4. ASSUME NEW g \in Harts, NEW h \in Harts, g < h PROVE g * part + part <= h * part
  <2>1. PICK d \in Nat : h = g + 1 + d
    <3>1. h - g - 1 \in Nat /\ h = g + 1 + (h - g - 1)
      BY <1>4
    <3> QED
      BY <3>1
  <2>2. h * part = g * part + part + d * part /\ d * part \in Nat /\ g * part \in Nat
    BY <2>1
  <2> QED
    BY <2>2
<1>5. \A h \in Harts : FireSlice(h, n).lo \in Nat /\ FireSlice(h, n).hi \in Nat
                       /\ FireSlice(h, n).lo <= FireSlice(h, n).hi /\ FireSlice(h, n).hi <= n
  BY <1>2, <1>3
<1>6. \A g, h \in Harts : g < h => FireSlice(g, n).hi <= FireSlice(h, n).lo
  <2> SUFFICES ASSUME NEW g \in Harts, NEW h \in Harts, g < h
               PROVE  FireSlice(g, n).hi <= FireSlice(h, n).lo
    OBVIOUS
  <2>1. g # NUM_HARTS - 1
    OBVIOUS
  <2>2. FireSlice(g, n).hi = g * part + part /\ FireSlice(h, n).lo = h * part
    BY <1>2, <2>1
  <2>3. g * part + part <= h * part
    BY <1>4
  <2> QED
    BY <2>2, <2>3
<1> QED
  BY <1>5, <1>6

LEMMA StrideApart ==
  ASSUME NEW n \in Nat \ {0}, NEW g \in 0 .. n - 1, NEW h \in 0 .. n - 1,
         NEW k \in Nat, NEW l \in Nat, g + k * n = h + l * n
  PROVE  g = h
<1>1. k * n \in Nat /\ l * n \in Nat
  OBVIOUS
<1>2. CASE k = l
  BY <1>1, <1>2
<1>3. CASE k > l
  <2>1. PICK d \in Nat : k = l + 1 + d
    <3>1. k - l - 1 \in Nat /\ k = l + 1 + (k - l - 1)
      BY <1>3
    <3> QED
      BY <3>1
  <2>2. k * n = l * n + n + d * n /\ d * n \in Nat
    BY <2>1
  <2> QED
    BY <1>1, <2>2
<1>4. CASE l > k
  <2>1. PICK d \in Nat : l = k + 1 + d
    <3>1. l - k - 1 \in Nat /\ l = k + 1 + (l - k - 1)
      BY <1>4
    <3> QED
      BY <3>1
  <2>2. l * n = k * n + n + d * n /\ d * n \in Nat
    BY <2>1
  <2> QED
    BY <1>1, <2>2
<1> QED
  BY <1>2, <1>3, <1>4

(* What a loop executes. *)
Of(op, S) == {<<op, i>> : i \in S}
Visits(lo, hi, step) == {j \in lo .. hi - 1 : \E k \in Nat : j = lo + k * step}

LEMMA LoopItems ==
  ASSUME NEW op, NEW lo \in Nat, NEW hi \in Nat, NEW step \in Nat \ {0}, lo < hi + step
  PROVE  ForLoop(op, lo, hi, step) \in Seq(Of(op, Visits(lo, hi, step)))
<1>1. PICK m \in Nat : m = (hi - lo + step - 1) \div step
  OBVIOUS
<1>2. step * m <= hi - lo + step - 1
  BY <1>1
<1>3. ASSUME NEW k \in 1 .. m
      PROVE  lo + (k - 1) * step \in {j \in lo .. hi - 1 : \E c \in Nat : j = lo + c * step}
  <2>1. PICK c \in Nat : c = k - 1
    OBVIOUS
  <2>2. PICK d \in Nat : m = c + 1 + d
    <3>1. m - k \in Nat /\ m = (k - 1) + 1 + (m - k)
      OBVIOUS
    <3> QED
      BY <2>1, <3>1
  <2>3. step * m = c * step + step + d * step /\ c * step \in Nat /\ d * step \in Nat
    BY <2>2
  <2> QED
    BY <1>2, <2>1, <2>3
<1> DEFINE S == Of(op, Visits(lo, hi, step))
<1>4. \A k \in 1 .. m : <<op, lo + (k - 1) * step>> \in S
  BY <1>3 DEF Of, Visits
<1>5. ForLoop(op, lo, hi, step) = [k \in 1 .. m |-> <<op, lo + (k - 1) * step>>]
  BY <1>1 DEF ForLoop
<1> HIDE DEF S
<1>6. [k \in 1 .. m |-> <<op, lo + (k - 1) * step>>] \in [1 .. m -> S]
  BY <1>4
<1>7. [1 .. m -> S] \subseteq Seq(S)
  OBVIOUS
<1>8. ForLoop(op, lo, hi, step) \in Seq(S)
  BY <1>5, <1>6, <1>7
<1> QED
  BY <1>8 DEF S

(* The statements that may come up in a section. *)
Band(part) == part.lo .. part.hi - 1
Strided(h, n) == Visits(h, n, NUM_HARTS)

LEMMA Joined ==
  ASSUME NEW S, NEW T, NEW a \in Seq(S), NEW b \in Seq(T)
  PROVE  a \o b \in Seq(S \cup T)
<1>1. PICK U : U = S \cup T
  OBVIOUS
<1>2. a \in Seq(U) /\ b \in Seq(U)
  BY <1>1
<1>3. a \o b \in Seq(U)
  BY <1>2, ConcatProperties, Zenon
<1> QED
  BY <1>1, <1>3

LEMMA MineItems ==
  ASSUME NEW op, NEW part, part.lo \in Nat, part.hi \in Nat, part.lo <= part.hi
  PROVE  Mine(op, part) \in Seq(Of(op, Band(part)))
<1>1. PICK lo \in Nat, hi \in Nat : lo = part.lo /\ hi = part.hi
  OBVIOUS
<1>2. lo < hi + 1
  BY <1>1
<1>3. ForLoop(op, lo, hi, 1) \in Seq(Of(op, Visits(lo, hi, 1)))
  BY <1>2, LoopItems
<1>4. Visits(lo, hi, 1) = lo .. hi - 1
  <2>1. ASSUME NEW j \in lo .. hi - 1 PROVE \E k \in Nat : j = lo + k * 1
    <3>1. j - lo \in Nat /\ j = lo + (j - lo) * 1
      OBVIOUS
    <3> QED
      BY <3>1
  <2> QED
    BY <2>1 DEF Visits
<1> QED
  BY <1>1, <1>3, <1>4 DEF Mine, Band

LEMMA StridingItems ==
  ASSUME NEW op, NEW h \in Harts, NEW n \in Nat
  PROVE  Striding(op, h, n) \in Seq(Of(op, Strided(h, n)))
<1>1. h \in Nat /\ h < n + NUM_HARTS
  OBVIOUS
<1> QED
  BY <1>1, LoopItems DEF Striding, Strided

LEMMA AllItems ==
  ASSUME NEW op, NEW n \in Nat
  PROVE  All(op, n) \in Seq(Of(op, 0 .. n - 1))
<1>1. ForLoop(op, 0, n, 1) \in Seq(Of(op, Visits(0, n, 1)))
  BY LoopItems
<1>2. Visits(0, n, 1) = 0 .. n - 1
  BY DEF Visits
<1> QED
  BY <1>1, <1>2 DEF All

LEMMA StartItems ==
  ASSUME NEW h \in Harts
  PROVE  Start(h) \in Seq(IF h = 0 THEN {<<"angles", 0>>, <<"go", 0>>} ELSE {<<"gate", 0>>})
<1>1. CASE h = 0
  BY <1>1 DEF Start
<1>2. CASE h # 0
  BY <1>2 DEF Start
<1> QED
  BY <1>1, <1>2

LEMMA CubeItems ==
  ASSUME cmd \in Commands, cmd.tool = "mt-cube", NEW h \in Harts
  PROVE  /\ Statements(h, 0) \in Seq(IF h = 0 THEN {<<"angles", 0>>, <<"go", 0>>} ELSE {<<"gate", 0>>})
         /\ Statements(h, 1) \in Seq({<<"ry", 0>>} \cup Of("vertex", Band(Slice(h, Len(cmd.obj)))))
         /\ h # 0 => Statements(h, 2) = << >>
<1>1. \A s : Statements(h, s) = CubeScript(h, s)
  BY DEF Statements
<1>2. CubeScript(h, 0) = Start(h)
  BY DEF CubeScript
<1>3. CubeScript(h, 1) = << <<"ry", 0>> >> \o Mine("vertex", Slice(h, Len(cmd.obj)))
  BY DEF CubeScript
<1>4. h # 0 => CubeScript(h, 2) = << >>
  BY DEF CubeScript
<1>5. Len(cmd.obj) \in Nat
  BY DemoCommands
<1>6. Mine("vertex", Slice(h, Len(cmd.obj))) \in Seq(Of("vertex", Band(Slice(h, Len(cmd.obj)))))
  BY <1>5, SliceApart, MineItems
<1>7. << <<"ry", 0>> >> \in Seq({<<"ry", 0>>})
  OBVIOUS
<1>a. << <<"ry", 0>> >> \o Mine("vertex", Slice(h, Len(cmd.obj))) \in
        Seq({<<"ry", 0>>} \cup Of("vertex", Band(Slice(h, Len(cmd.obj)))))
  BY <1>6, <1>7, Joined, Zenon
<1>8. Statements(h, 1) \in Seq({<<"ry", 0>>} \cup Of("vertex", Band(Slice(h, Len(cmd.obj)))))
  BY <1>1, <1>3, <1>a
<1>9. Statements(h, 0) \in Seq(IF h = 0 THEN {<<"angles", 0>>, <<"go", 0>>} ELSE {<<"gate", 0>>})
  BY <1>1, <1>2, StartItems, Zenon
<1>10. h # 0 => Statements(h, 2) = << >>
  BY <1>1, <1>4
<1> QED
  BY <1>8, <1>9, <1>10

LEMMA SolidItems ==
  ASSUME cmd \in Commands, cmd.tool = "mt-solid", NEW h \in Harts
  PROVE  /\ Statements(h, 0) \in Seq(IF h = 0 THEN {<<"angles", 0>>, <<"go", 0>>} ELSE {<<"gate", 0>>})
         /\ Statements(h, 1) \in Seq(({<<"rx", 0>>, <<"ry", 0>>} \cup Of("vertex", Strided(h, Len(cmd.obj))))
                                     \cup Of("normal", Strided(h, Len(cmd.tris))))
         /\ Statements(h, 2) \in Seq(Of("clear", Band(Slice(h, G3D_H))) \cup Of("face", 0 .. Len(cmd.tris) - 1))
         /\ h # 0 => Statements(h, 3) = << >>
<1>1. \A s : Statements(h, s) = SolidScript(h, s)
  BY DEF Statements
<1>2. /\ SolidScript(h, 0) = Start(h)
      /\ SolidScript(h, 1) = (<< <<"rx", 0>>, <<"ry", 0>> >> \o Striding("vertex", h, Len(cmd.obj)))
                             \o Striding("normal", h, Len(cmd.tris))
      /\ SolidScript(h, 2) = Mine("clear", Slice(h, G3D_H)) \o All("face", Len(cmd.tris))
      /\ h # 0 => SolidScript(h, 3) = << >>
  BY DEF SolidScript
<1>3. Len(cmd.obj) \in Nat /\ Len(cmd.tris) \in Nat /\ G3D_H \in Nat
  BY DemoCommands, G3dAssumption
<1>4. /\ Striding("vertex", h, Len(cmd.obj)) \in Seq(Of("vertex", Strided(h, Len(cmd.obj))))
      /\ Striding("normal", h, Len(cmd.tris)) \in Seq(Of("normal", Strided(h, Len(cmd.tris))))
  BY <1>3, StridingItems
<1>5. Mine("clear", Slice(h, G3D_H)) \in Seq(Of("clear", Band(Slice(h, G3D_H))))
  BY <1>3, SliceApart, MineItems
<1>6. All("face", Len(cmd.tris)) \in Seq(Of("face", 0 .. Len(cmd.tris) - 1))
  BY <1>3, AllItems
<1>7. << <<"rx", 0>>, <<"ry", 0>> >> \in Seq({<<"rx", 0>>, <<"ry", 0>>})
  OBVIOUS
<1>8. << <<"rx", 0>>, <<"ry", 0>> >> \o Striding("vertex", h, Len(cmd.obj)) \in
        Seq({<<"rx", 0>>, <<"ry", 0>>} \cup Of("vertex", Strided(h, Len(cmd.obj))))
  BY <1>4, <1>7, Joined, Zenon
<1>9. Statements(h, 1) \in Seq(({<<"rx", 0>>, <<"ry", 0>>} \cup Of("vertex", Strided(h, Len(cmd.obj))))
                               \cup Of("normal", Strided(h, Len(cmd.tris))))
  <2>1. (<< <<"rx", 0>>, <<"ry", 0>> >> \o Striding("vertex", h, Len(cmd.obj)))
          \o Striding("normal", h, Len(cmd.tris)) \in
          Seq(({<<"rx", 0>>, <<"ry", 0>>} \cup Of("vertex", Strided(h, Len(cmd.obj))))
              \cup Of("normal", Strided(h, Len(cmd.tris))))
    BY <1>4, <1>8, Joined, Zenon
  <2> QED
    BY <1>1, <1>2, <2>1
<1>10. Statements(h, 2) \in Seq(Of("clear", Band(Slice(h, G3D_H))) \cup Of("face", 0 .. Len(cmd.tris) - 1))
  <2>1. Mine("clear", Slice(h, G3D_H)) \o All("face", Len(cmd.tris)) \in
          Seq(Of("clear", Band(Slice(h, G3D_H))) \cup Of("face", 0 .. Len(cmd.tris) - 1))
    BY <1>5, <1>6, Joined, Zenon
  <2> QED
    BY <1>1, <1>2, <2>1
<1>11. Statements(h, 0) \in Seq(IF h = 0 THEN {<<"angles", 0>>, <<"go", 0>>} ELSE {<<"gate", 0>>})
  BY <1>1, <1>2, StartItems, Zenon
<1>12. h # 0 => Statements(h, 3) = << >>
  BY <1>1, <1>2
<1> QED
  BY <1>9, <1>10, <1>11, <1>12

LEMMA FireItems ==
  ASSUME cmd \in Commands, cmd.tool = "mt-fire", NEW h \in Harts
  PROVE  /\ Statements(h, 0) = << >>
         /\ Statements(h, 1) \in Seq(Of("blurrow", Band(FireSlice(h, cmd.h))))
         /\ Statements(h, 2) \in Seq(Of("blurcol", Band(FireSlice(h, cmd.w))))
<1>1. /\ Statements(h, 0) = << >>
      /\ Statements(h, 1) = Mine("blurrow", FireSlice(h, cmd.h))
      /\ Statements(h, 2) = Mine("blurcol", FireSlice(h, cmd.w))
  BY DEF Statements, FireScript
<1>2. cmd.h \in Nat /\ cmd.w \in Nat
  BY DemoCommands
<1>3. /\ Mine("blurrow", FireSlice(h, cmd.h)) \in Seq(Of("blurrow", Band(FireSlice(h, cmd.h))))
      /\ Mine("blurcol", FireSlice(h, cmd.w)) \in Seq(Of("blurcol", Band(FireSlice(h, cmd.w))))
  BY <1>2, FireApart, MineItems
<1> QED
  BY <1>1, <1>3

LEMMA ItemIn ==
  ASSUME DemoIInv, NEW h \in Harts, Working(h), NEW S, Statements(h, sec[h]) \in Seq(S)
  PROVE  Item(h) \in S
<1>1. PICK q \in Seq(S), k \in Nat \ {0} : q = Statements(h, sec[h]) /\ k = ip[h]
  BY DEF DemoIInv
<1>2. k <= Len(q)
  BY <1>1 DEF Working
<1>3. q[k] \in S
  BY <1>2
<1> QED
  BY <1>1, <1>3 DEF Item

LEMMA NoItem ==
  ASSUME DemoIInv, NEW h \in Harts, Working(h), Statements(h, sec[h]) = << >>
  PROVE  FALSE
<1>1. ip[h] <= 0 /\ ip[h] \in Nat \ {0}
  BY DEF DemoIInv, Working
<1> QED
  BY <1>1

(* What a statement touches. *)
FireRow(i, w) == {i * w + k : k \in 0 .. w - 1}
FireColumn(i, w, n) == {i + k * w : k \in 0 .. n - 1}

LEMMA AccessOf ==
  ASSUME NEW h \in Harts, NEW i, NEW op, Item(h) = <<op, i>>
  PROVE  /\ op = "angles" => Accesses(h) = [r |-> {}, w |-> Of("angle", {1, 2})]
         /\ op = "rx" => Accesses(h) = [r |-> Of("angle", {1}), w |-> {}]
         /\ op = "ry" => Accesses(h) = [r |-> Of("angle", {2}), w |-> {}]
         /\ op = "vertex" => Accesses(h) = [r |-> {}, w |-> Of("projected", {i})]
         /\ op = "normal" => Accesses(h) = [r |-> {}, w |-> Of("nrot", {i})]
         /\ op = "clear" => Accesses(h) = [r |-> {}, w |-> Of("fb", {i})]
         /\ op = "blurrow" => Accesses(h) = [r |-> Of("fire", FireRow(i, cmd.w)), w |-> Of("fire", FireRow(i, cmd.w))]
         /\ op = "blurcol" => Accesses(h) = [r |-> Of("fire", FireColumn(i, cmd.w, cmd.h)),
                                              w |-> Of("fire", FireColumn(i, cmd.w, cmd.h))]
         /\ op \in {"go", "gate", "load", "cool", "heat", "show", "scroll"} => Accesses(h) = [r |-> {}, w |-> {}]
<1>1. Item(h)[1] = op /\ Item(h)[2] = i
  OBVIOUS
<1> QED
  BY <1>1 DEF Accesses, Of, FireRow, FireColumn

LEMMA AccessOfFace ==
  ASSUME NEW h \in Harts, NEW i, Item(h) = <<"face", i>>
  PROVE  /\ Accesses(h).w = Of("fb", Band(Slice(h, G3D_H)))
         /\ Accesses(h).r \subseteq Of("projected", {cmd.tris[i + 1][k] : k \in 1 .. Len(cmd.tris[i + 1])}) \cup Of("nrot", {i})
<1>1. Item(h)[1] = "face" /\ Item(h)[2] = i
  OBVIOUS
<1> QED
  BY <1>1 DEF Accesses, Of, Band

(* The last two sections of mt-fire touch nothing Accesses speaks of. *)
Quiet == {"load", "cool", "heat", "show", "scroll"} \X Int

LEMMA QuietItems ==
  ASSUME cmd \in Commands, cmd.tool = "mt-fire", NEW h \in Harts
  PROVE  Statements(h, 3) \in Seq(Quiet) /\ Statements(h, 4) \in Seq(Quiet)
<1> DEFINE size == cmd.w * cmd.h
           heated == [lo |-> size - cmd.w, hi |-> size]
           scrolled == FireSlice(h, cmd.h - 1)
<1>0. cmd.h \in Nat /\ cmd.w \in Nat /\ cmd.h - 1 \in Nat
  BY DemoCommands
<1>1. size \in Nat /\ size - cmd.w \in Int
  BY <1>0
<1>2. Statements(h, 3) = Cooling(h)
  BY DEF Statements, FireScript
<1>3. Statements(h, 4) = Scrolling(h)
  BY DEF Statements, FireScript
<1> HIDE DEF size
<1>4. ASSUME NEW op \in {"cool", "heat"}, NEW part, part.lo \in Int, part.hi \in Int, part.lo <= part.hi
      PROVE  LoadStore(op, part) \in Seq(Quiet)
  <2>1. PICK lo \in Int, m \in Nat : lo = part.lo /\ m = 2 * (part.hi - part.lo)
    BY <1>4
  <2>2. \A k \in 1 .. m : <<IF k % 2 = 1 THEN "load" ELSE op, lo + (k - 1) \div 2>> \in Quiet
    BY DEF Quiet
  <2>3. LoadStore(op, part) = [k \in 1 .. m |-> <<IF k % 2 = 1 THEN "load" ELSE op, lo + (k - 1) \div 2>>]
    BY <2>1 DEF LoadStore
  <2>4. LoadStore(op, part) \in [1 .. m -> Quiet]
    BY <2>2, <2>3
  <2>5. [1 .. m -> Quiet] \subseteq Seq(Quiet)
    OBVIOUS
  <2> QED
    BY <2>4, <2>5
<1>5. LoadStore("cool", FireSlice(h, size)) \in Seq(Quiet)
  <2>1. FireSlice(h, size).lo \in Int /\ FireSlice(h, size).hi \in Int /\ FireSlice(h, size).lo <= FireSlice(h, size).hi
    BY <1>1, FireApart
  <2> QED
    BY <1>4, <2>1
<1>6. LoadStore("heat", heated) \in Seq(Quiet)
  <2>1. heated.lo \in Int /\ heated.hi \in Int /\ heated.lo <= heated.hi
    BY <1>0, <1>1
  <2> HIDE DEF heated
  <2> QED
    BY <1>4, <2>1
<1> HIDE DEF heated
<1>7. Statements(h, 3) \in Seq(Quiet)
  <2>1. << >> \in Seq(Quiet)
    OBVIOUS
  <2>2. (IF h = 0 THEN LoadStore("heat", heated) ELSE << >>) \in Seq(Quiet)
    BY <1>6, <2>1
  <2>3. LoadStore("cool", FireSlice(h, size)) \o (IF h = 0 THEN LoadStore("heat", heated) ELSE << >>) \in Seq(Quiet)
    BY <1>5, <2>2, ConcatProperties, Zenon
  <2>4. Cooling(h) = LoadStore("cool", FireSlice(h, size)) \o (IF h = 0 THEN LoadStore("heat", heated) ELSE << >>)
    BY Zenon DEF Cooling, heated, size
  <2> QED
    BY <1>2, <2>3, <2>4, Zenon
<1>8. PICK lo \in Nat, hi \in Nat : lo = scrolled.lo + 1 /\ hi = scrolled.hi + 1 /\ lo <= hi
  BY <1>0, FireApart
<1>9. ForLoop("scroll", lo, hi, 1) \in Seq(Of("scroll", Visits(lo, hi, 1)))
  BY <1>8, LoopItems
<1>10. ForLoop("show", 0, cmd.h, 2) \in Seq(Of("show", Visits(0, cmd.h, 2)))
  BY <1>0, LoopItems
<1>11. Of("scroll", Visits(lo, hi, 1)) \subseteq Quiet /\ Of("show", Visits(0, cmd.h, 2)) \subseteq Quiet
  BY <1>0 DEF Of, Visits, Quiet
<1>12. ForLoop("scroll", lo, hi, 1) \in Seq(Quiet) /\ ForLoop("show", 0, cmd.h, 2) \in Seq(Quiet)
  BY <1>9, <1>10, <1>11
<1>13. Statements(h, 4) \in Seq(Quiet)
  <2>1. << >> \in Seq(Quiet)
    OBVIOUS
  <2>2. (IF h = 0 THEN ForLoop("show", 0, cmd.h, 2) ELSE << >>) \in Seq(Quiet)
    BY <1>12, <2>1
  <2>3. ForLoop("scroll", scrolled.lo + 1, scrolled.hi + 1, 1) \in Seq(Quiet)
    BY <1>8, <1>12
  <2>4. (IF h = 0 THEN ForLoop("show", 0, cmd.h, 2) ELSE << >>)
          \o ForLoop("scroll", scrolled.lo + 1, scrolled.hi + 1, 1) \in Seq(Quiet)
    BY <2>2, <2>3, ConcatProperties, Zenon
  <2>5. Scrolling(h) = (IF h = 0 THEN ForLoop("show", 0, cmd.h, 2) ELSE << >>)
                       \o ForLoop("scroll", scrolled.lo + 1, scrolled.hi + 1, 1)
    BY Zenon DEF Scrolling
  <2> QED
    BY <1>3, <2>4, <2>5, Zenon
<1> QED
  BY <1>7, <1>13

(* Different rows, and different columns, of the fire have no cell in       *)
(* common.                                                                  *)
LEMMA RowsApart ==
  ASSUME NEW w \in Nat, NEW i \in Nat, NEW j \in Nat, i < j
  PROVE  FireRow(i, w) \cap FireRow(j, w) = {}
<1> SUFFICES ASSUME NEW k \in 0 .. w - 1, NEW l \in 0 .. w - 1, i * w + k = j * w + l PROVE FALSE
  BY DEF FireRow
<1>1. PICK d \in Nat : j = i + 1 + d
  <2>1. j - i - 1 \in Nat /\ j = i + 1 + (j - i - 1)
    OBVIOUS
  <2> QED
    BY <2>1
<1>2. j * w = i * w + w + d * w /\ d * w \in Nat /\ i * w \in Nat
  BY <1>1
<1> QED
  BY <1>2

LEMMA ColumnsApart ==
  ASSUME NEW w \in Nat \ {0}, NEW n \in Nat, NEW i \in 0 .. w - 1, NEW j \in 0 .. w - 1, i # j
  PROVE  FireColumn(i, w, n) \cap FireColumn(j, w, n) = {}
<1> SUFFICES ASSUME NEW k \in 0 .. n - 1, NEW l \in 0 .. n - 1, i + k * w = j + l * w PROVE FALSE
  BY DEF FireColumn
<1> QED
  BY StrideApart

(* Bands of two harts have no number in common. *)
LEMMA BandsApart ==
  ASSUME NEW g \in Harts, NEW h \in Harts, g # h, NEW n \in Nat
  PROVE  /\ Band(Slice(g, n)) \cap Band(Slice(h, n)) = {} /\ Band(Slice(g, n)) \subseteq Nat
         /\ Band(FireSlice(g, n)) \cap Band(FireSlice(h, n)) = {} /\ Band(FireSlice(g, n)) \subseteq 0 .. n - 1
         /\ Strided(g, n) \cap Strided(h, n) = {}
<1>0. g < h \/ h < g
  OBVIOUS
<1>1. Band(Slice(g, n)) \cap Band(Slice(h, n)) = {} /\ Band(Slice(g, n)) \subseteq Nat
  <2>1. PICK a \in Nat, b \in Nat, c \in Nat, d \in Nat :
          a = Slice(g, n).lo /\ b = Slice(g, n).hi /\ c = Slice(h, n).lo /\ d = Slice(h, n).hi
    BY SliceApart
  <2>2. b <= c \/ d <= a
    BY <1>0, <2>1, SliceApart
  <2> QED
    BY <2>1, <2>2 DEF Band
<1>2. Band(FireSlice(g, n)) \cap Band(FireSlice(h, n)) = {} /\ Band(FireSlice(g, n)) \subseteq 0 .. n - 1
  <2>1. PICK a \in Nat, b \in Nat, c \in Nat, d \in Nat :
          a = FireSlice(g, n).lo /\ b = FireSlice(g, n).hi /\ c = FireSlice(h, n).lo /\ d = FireSlice(h, n).hi
    BY FireApart
  <2>2. (b <= c \/ d <= a) /\ b <= n
    BY <1>0, <2>1, FireApart
  <2> QED
    BY <2>1, <2>2 DEF Band
<1>3. Strided(g, n) \cap Strided(h, n) = {}
  <2> SUFFICES ASSUME NEW j \in Strided(g, n), j \in Strided(h, n) PROVE FALSE
    OBVIOUS
  <2>1. PICK k \in Nat : j = g + k * NUM_HARTS
    BY DEF Strided, Visits
  <2>2. PICK l \in Nat : j = h + l * NUM_HARTS
    BY DEF Strided, Visits
  <2> QED
    BY <2>1, <2>2, StrideApart
<1> QED
  BY <1>1, <1>2, <1>3

(* Locations of different names, or of the same at disjoint places. *)
LEMMA PlacesApart ==
  ASSUME NEW S, NEW T, NEW a, NEW b
  PROVE  /\ a # b => Of(a, S) \cap Of(b, T) = {}
         /\ S \cap T = {} => Of(a, S) \cap Of(a, T) = {}
  BY DEF Of

(* Two harts at work are in the same section. *)
LEMMA SameSection ==
  ASSUME DemoIInv, NEW g \in Harts, NEW h \in Harts, Working(g), Working(h)
  PROVE  sec[g] = sec[h]
<1>1. g \notin Held /\ h \notin Held
  BY DEF DemoIInv, BarrierIInv, RoundExact, Working
<1> QED
  BY <1>1 DEF DemoIInv, Together

LEMMA NoRaceStart ==
  ASSUME NEW g \in Harts, NEW h \in Harts, g # h,
         Item(g) \in (IF g = 0 THEN {<<"angles", 0>>, <<"go", 0>>} ELSE {<<"gate", 0>>}),
         Item(h) \in (IF h = 0 THEN {<<"angles", 0>>, <<"go", 0>>} ELSE {<<"gate", 0>>})
  PROVE  Accesses(g).w \cap (Accesses(h).r \cup Accesses(h).w) = {}
<1>1. CASE g = 0
  <2>1. Item(h) = <<"gate", 0>>
    BY <1>1
  <2>2. Accesses(h) = [r |-> {}, w |-> {}]
    BY <2>1, AccessOf
  <2> QED
    BY <2>2
<1>2. CASE g # 0
  <2>1. Item(g) = <<"gate", 0>>
    BY <1>2
  <2>2. Accesses(g) = [r |-> {}, w |-> {}]
    BY <2>1, AccessOf
  <2> QED
    BY <2>2
<1> QED
  BY <1>1, <1>2

(* The section of the vertices and normals: each hart stores its own. *)
Transforms(V, M) == ({<<"rx", 0>>, <<"ry", 0>>} \cup Of("vertex", V)) \cup Of("normal", M)

LEMMA NoRaceVertices ==
  ASSUME NEW g \in Harts, NEW h \in Harts, NEW V, NEW W, NEW M, NEW N, V \cap W = {}, M \cap N = {},
         Item(g) \in Transforms(V, M), Item(h) \in Transforms(W, N)
  PROVE  Accesses(g).w \cap (Accesses(h).r \cup Accesses(h).w) = {}
<1>1. /\ Accesses(g).w \subseteq Of("projected", V) \cup Of("nrot", M)
  <2>1. CASE Item(g) \in {<<"rx", 0>>, <<"ry", 0>>}
    <3>1. Item(g) = <<"rx", 0>> => Accesses(g) = [r |-> Of("angle", {1}), w |-> {}]
      BY AccessOf
    <3>2. Item(g) = <<"ry", 0>> => Accesses(g) = [r |-> Of("angle", {2}), w |-> {}]
      BY AccessOf
    <3> QED
      BY <2>1, <3>1, <3>2
  <2>2. CASE Item(g) \in Of("vertex", V)
    <3>1. PICK i \in V : Item(g) = <<"vertex", i>>
      BY <2>2 DEF Of
    <3>2. Accesses(g) = [r |-> {}, w |-> Of("projected", {i})]
      BY <3>1, AccessOf
    <3> QED
      BY <3>2 DEF Of
  <2>3. CASE Item(g) \in Of("normal", M)
    <3>1. PICK i \in M : Item(g) = <<"normal", i>>
      BY <2>3 DEF Of
    <3>2. Accesses(g) = [r |-> {}, w |-> Of("nrot", {i})]
      BY <3>1, AccessOf
    <3> QED
      BY <3>2 DEF Of
  <2> QED
    BY <2>1, <2>2, <2>3 DEF Transforms
<1>2. Accesses(h).r \cup Accesses(h).w \subseteq Of("angle", {1, 2}) \cup Of("projected", W) \cup Of("nrot", N)
  <2>1. CASE Item(h) = <<"rx", 0>>
    <3>1. Accesses(h) = [r |-> Of("angle", {1}), w |-> {}]
      BY <2>1, AccessOf
    <3> QED
      BY <3>1 DEF Of
  <2>2. CASE Item(h) = <<"ry", 0>>
    <3>1. Accesses(h) = [r |-> Of("angle", {2}), w |-> {}]
      BY <2>2, AccessOf
    <3> QED
      BY <3>1 DEF Of
  <2>3. CASE Item(h) \in Of("vertex", W)
    <3>1. PICK i \in W : Item(h) = <<"vertex", i>>
      BY <2>3 DEF Of
    <3>2. Accesses(h) = [r |-> {}, w |-> Of("projected", {i})]
      BY <3>1, AccessOf
    <3> QED
      BY <3>2 DEF Of
  <2>4. CASE Item(h) \in Of("normal", N)
    <3>1. PICK i \in N : Item(h) = <<"normal", i>>
      BY <2>4 DEF Of
    <3>2. Accesses(h) = [r |-> {}, w |-> Of("nrot", {i})]
      BY <3>1, AccessOf
    <3> QED
      BY <3>2 DEF Of
  <2> QED
    BY <2>1, <2>2, <2>3, <2>4 DEF Transforms
<1>3. "projected" # "nrot" /\ "projected" # "angle" /\ "nrot" # "angle"
  OBVIOUS
<1>4. /\ Of("projected", V) \cap Of("angle", {1, 2}) = {} /\ Of("nrot", M) \cap Of("angle", {1, 2}) = {}
      /\ Of("projected", V) \cap Of("nrot", N) = {} /\ Of("nrot", M) \cap Of("projected", W) = {}
      /\ Of("projected", V) \cap Of("projected", W) = {} /\ Of("nrot", M) \cap Of("nrot", N) = {}
  BY <1>3, PlacesApart
<1> QED
  BY <1>1, <1>2, <1>4

(* The section of the pixels: each hart clears and fills its own rows. *)
LEMMA NoRacePixels ==
  ASSUME NEW g \in Harts, NEW h \in Harts, g # h, NEW n \in Nat,
         Item(g) \in Of("clear", Band(Slice(g, G3D_H))) \cup Of("face", 0 .. n - 1),
         Item(h) \in Of("clear", Band(Slice(h, G3D_H))) \cup Of("face", 0 .. n - 1)
  PROVE  Accesses(g).w \cap (Accesses(h).r \cup Accesses(h).w) = {}
<1>1. ASSUME NEW c \in Harts, Item(c) \in Of("clear", Band(Slice(c, G3D_H))) \cup Of("face", 0 .. n - 1)
      PROVE  /\ Accesses(c).w \subseteq Of("fb", Band(Slice(c, G3D_H)))
             /\ Accesses(c).r \cap Of("fb", Band(Slice(g, G3D_H))) = {}
  <2>1. CASE Item(c) \in Of("clear", Band(Slice(c, G3D_H)))
    <3>1. PICK i \in Band(Slice(c, G3D_H)) : Item(c) = <<"clear", i>>
      BY <2>1 DEF Of
    <3>2. Accesses(c) = [r |-> {}, w |-> Of("fb", {i})]
      BY <3>1, AccessOf
    <3> QED
      BY <3>2 DEF Of
  <2>2. CASE Item(c) \in Of("face", 0 .. n - 1)
    <3>1. PICK i \in 0 .. n - 1 : Item(c) = <<"face", i>>
      BY <2>2 DEF Of
    <3>2. PICK T : T = {cmd.tris[i + 1][k] : k \in 1 .. Len(cmd.tris[i + 1])}
      OBVIOUS
    <3>3. /\ Accesses(c).w = Of("fb", Band(Slice(c, G3D_H)))
          /\ Accesses(c).r \subseteq Of("projected", T) \cup Of("nrot", {i})
      BY <3>1, <3>2, AccessOfFace
    <3>4. "fb" # "projected" /\ "fb" # "nrot"
      OBVIOUS
    <3>5. /\ Of("fb", Band(Slice(g, G3D_H))) \cap Of("projected", T) = {}
          /\ Of("fb", Band(Slice(g, G3D_H))) \cap Of("nrot", {i}) = {}
      BY <3>4, PlacesApart
    <3> QED
      BY <3>3, <3>5
  <2> QED
    BY <1>1, <2>1, <2>2
<1>2. Of("fb", Band(Slice(g, G3D_H))) \cap Of("fb", Band(Slice(h, G3D_H))) = {}
  BY G3dAssumption, BandsApart, PlacesApart
<1>3. /\ Accesses(g).w \subseteq Of("fb", Band(Slice(g, G3D_H)))
      /\ Accesses(h).w \subseteq Of("fb", Band(Slice(h, G3D_H)))
      /\ Accesses(h).r \cap Of("fb", Band(Slice(g, G3D_H))) = {}
  BY <1>1
<1> QED
  BY <1>2, <1>3

LEMMA NoRaceRows ==
  ASSUME cmd \in Commands, cmd.tool = "mt-fire", NEW g \in Harts, NEW h \in Harts, g # h,
         Item(g) \in Of("blurrow", Band(FireSlice(g, cmd.h))),
         Item(h) \in Of("blurrow", Band(FireSlice(h, cmd.h)))
  PROVE  Accesses(g).w \cap (Accesses(h).r \cup Accesses(h).w) = {}
<1>0. PICK w \in Nat, n \in Nat : w = cmd.w /\ n = cmd.h
  BY DemoCommands
<1>1. PICK i \in Band(FireSlice(g, n)) : Item(g) = <<"blurrow", i>>
  BY <1>0 DEF Of
<1>2. PICK j \in Band(FireSlice(h, n)) : Item(h) = <<"blurrow", j>>
  BY <1>0 DEF Of
<1>3. i \in Nat /\ j \in Nat /\ i # j
  BY BandsApart
<1>4. FireRow(i, w) \cap FireRow(j, w) = {}
  <2>1. i < j \/ j < i
    BY <1>3
  <2>2. FireRow(i, w) \cap FireRow(j, w) = {} \/ FireRow(j, w) \cap FireRow(i, w) = {}
    BY <1>3, <2>1, RowsApart
  <2> QED
    BY <2>2
<1>5. Accesses(g) = [r |-> Of("fire", FireRow(i, w)), w |-> Of("fire", FireRow(i, w))]
  BY <1>0, <1>1, AccessOf
<1>6. Accesses(h) = [r |-> Of("fire", FireRow(j, w)), w |-> Of("fire", FireRow(j, w))]
  BY <1>0, <1>2, AccessOf
<1>7. Of("fire", FireRow(i, w)) \cap Of("fire", FireRow(j, w)) = {}
  BY <1>4, PlacesApart
<1> QED
  BY <1>5, <1>6, <1>7

LEMMA NoRaceColumns ==
  ASSUME cmd \in Commands, cmd.tool = "mt-fire", NEW g \in Harts, NEW h \in Harts, g # h,
         Item(g) \in Of("blurcol", Band(FireSlice(g, cmd.w))),
         Item(h) \in Of("blurcol", Band(FireSlice(h, cmd.w)))
  PROVE  Accesses(g).w \cap (Accesses(h).r \cup Accesses(h).w) = {}
<1>0. PICK w \in Nat \ {0}, n \in Nat : w = cmd.w /\ n = cmd.h
  BY DemoCommands
<1>1. PICK i \in Band(FireSlice(g, w)) : Item(g) = <<"blurcol", i>>
  BY <1>0 DEF Of
<1>2. PICK j \in Band(FireSlice(h, w)) : Item(h) = <<"blurcol", j>>
  BY <1>0 DEF Of
<1>3. i \in 0 .. w - 1 /\ j \in 0 .. w - 1 /\ i # j
  BY BandsApart
<1>4. FireColumn(i, w, n) \cap FireColumn(j, w, n) = {}
  BY <1>3, ColumnsApart
<1>5. Accesses(g) = [r |-> Of("fire", FireColumn(i, w, n)), w |-> Of("fire", FireColumn(i, w, n))]
  BY <1>0, <1>1, AccessOf
<1>6. Accesses(h) = [r |-> Of("fire", FireColumn(j, w, n)), w |-> Of("fire", FireColumn(j, w, n))]
  BY <1>0, <1>2, AccessOf
<1>7. Of("fire", FireColumn(i, w, n)) \cap Of("fire", FireColumn(j, w, n)) = {}
  BY <1>4, PlacesApart
<1> QED
  BY <1>5, <1>6, <1>7

(* No two harts at work touch the same place. *)
LEMMA NoRace == DemoIInv => RaceFree
<1> SUFFICES ASSUME DemoIInv, cmd.tool \in DemoTools, NEW g \in Harts, NEW h \in Harts, g # h,
                    Working(g), Working(h)
             PROVE  Accesses(g).w \cap (Accesses(h).r \cup Accesses(h).w) = {}
  BY DEF RaceFree
<1>0. cmd \in Commands /\ sec[g] = sec[h]
  BY SameSection DEF DemoIInv
<1>n. g # 0 \/ h # 0
  OBVIOUS
<1>1. CASE cmd.tool = "mt-cube"
  <2>1. sec[g] \in 0 .. 2
    BY <1>1 DEF DemoIInv
  <2>2. CASE sec[g] = 0
    BY <1>0, <1>1, <2>2, CubeItems, ItemIn, NoRaceStart
  <2>3. CASE sec[g] = 1
    <3>1. /\ Item(g) \in {<<"ry", 0>>} \cup Of("vertex", Band(Slice(g, Len(cmd.obj))))
          /\ Item(h) \in {<<"ry", 0>>} \cup Of("vertex", Band(Slice(h, Len(cmd.obj))))
      BY <1>0, <1>1, <2>3, CubeItems, ItemIn
    <3>2. PICK V, W : V = Band(Slice(g, Len(cmd.obj))) /\ W = Band(Slice(h, Len(cmd.obj)))
      OBVIOUS
    <3>a. Len(cmd.obj) \in Nat
      BY <1>0, <1>1, DemoCommands
    <3>3. V \cap W = {} /\ {} \cap {} = {}
      BY <3>2, <3>a, BandsApart
    <3>4. Item(g) \in Transforms(V, {}) /\ Item(h) \in Transforms(W, {})
      BY <3>1, <3>2 DEF Transforms
    <3> QED
      BY <3>3, <3>4, NoRaceVertices
  <2>4. CASE sec[g] = 2
    BY <1>0, <1>1, <1>n, <2>4, CubeItems, NoItem
  <2> QED
    BY <2>1, <2>2, <2>3, <2>4
<1>2. CASE cmd.tool = "mt-solid"
  <2>1. sec[g] \in 0 .. 3
    BY <1>2 DEF DemoIInv
  <2>2. CASE sec[g] = 0
    BY <1>0, <1>2, <2>2, SolidItems, ItemIn, NoRaceStart
  <2>3. CASE sec[g] = 1
    <3>1. PICK V, W, M, N : V = Strided(g, Len(cmd.obj)) /\ W = Strided(h, Len(cmd.obj))
                            /\ M = Strided(g, Len(cmd.tris)) /\ N = Strided(h, Len(cmd.tris))
      OBVIOUS
    <3>a. Len(cmd.obj) \in Nat /\ Len(cmd.tris) \in Nat
      BY <1>0, <1>2, DemoCommands
    <3>2. V \cap W = {} /\ M \cap N = {}
      BY <3>1, <3>a, BandsApart
    <3>3. Item(g) \in Transforms(V, M) /\ Item(h) \in Transforms(W, N)
      BY <1>0, <1>2, <2>3, <3>1, SolidItems, ItemIn DEF Transforms
    <3> QED
      BY <3>2, <3>3, NoRaceVertices
  <2>4. CASE sec[g] = 2
    <3>1. PICK n \in Nat : n = Len(cmd.tris)
      BY <1>0, <1>2, DemoCommands
    <3>2. /\ Item(g) \in Of("clear", Band(Slice(g, G3D_H))) \cup Of("face", 0 .. n - 1)
          /\ Item(h) \in Of("clear", Band(Slice(h, G3D_H))) \cup Of("face", 0 .. n - 1)
      BY <1>0, <1>2, <2>4, <3>1, SolidItems, ItemIn
    <3> QED
      BY <3>2, NoRacePixels
  <2>5. CASE sec[g] = 3
    BY <1>0, <1>2, <1>n, <2>5, SolidItems, NoItem
  <2> QED
    BY <2>1, <2>2, <2>3, <2>4, <2>5
<1>3. CASE cmd.tool = "mt-fire"
  <2>1. sec[g] \in 0 .. 4
    BY <1>3 DEF DemoIInv
  <2>2. CASE sec[g] = 0
    BY <1>0, <1>3, <2>2, FireItems, NoItem
  <2>3. CASE sec[g] = 1
    BY <1>0, <1>3, <2>3, FireItems, ItemIn, NoRaceRows
  <2>4. CASE sec[g] = 2
    BY <1>0, <1>3, <2>4, FireItems, ItemIn, NoRaceColumns
  <2>5. CASE sec[g] \in {3, 4}
    <3>1. Item(g) \in Quiet
      BY <1>0, <1>3, <2>5, QuietItems, ItemIn
    <3>2. PICK op \in {"load", "cool", "heat", "show", "scroll"}, i \in Int : Item(g) = <<op, i>>
      BY <3>1 DEF Quiet
    <3>3. Accesses(g) = [r |-> {}, w |-> {}]
      BY <3>2, AccessOf
    <3> QED
      BY <3>3
  <2> QED
    BY <2>1, <2>2, <2>3, <2>4, <2>5
<1> QED
  BY <1>1, <1>2, <1>3 DEF DemoTools, Scenes

(* For every number of harts and every geometry: the rounds of the barrier   *)
(* are exact, and between two of them no hart of mt-cube, of mt-solid or in  *)
(* mt-fire's blurs touches what another one is about to store.               *)
THEOREM DemosRaceFree == DemoSpec => []HartsApart
<1>1. DemoSpec => []DemoIInv
  BY DemoInitOK, DemoStepOK, PTL DEF DemoSpec
<1>2. DemoIInv => HartsApart
  BY NoRace DEF DemoIInv, BarrierIInv, HartsApart
<1> QED
  BY <1>1, <1>2, PTL
-----------------------------------------------------------------------------
HIDE HartCount DEF Harts

(* Whole words. *)
Aligned(x) == \E m \in Nat : x = m * Word

(* Loading.  The padded image is whole words that begin with the image and   *)
(* end with zeros.                                                           *)
LEMMA PaddedOK ==
  ASSUME NEW b \in Seq(Nat)
  PROVE  /\ Padded(b) \in Seq(Nat) /\ Len(b) <= Len(Padded(b)) /\ Len(Padded(b)) < Len(b) + Word
         /\ Aligned(Len(Padded(b)))
         /\ \A i \in 1 .. Len(Padded(b)) : Padded(b)[i] = IF i <= Len(b) THEN b[i] ELSE 0
<1> USE BringupAssumption
<1>1. PICK n \in Nat : n = Len(b)
  OBVIOUS
<1>2. PICK m \in Nat : m = (n + Word - 1) \div Word
  <2>1. n + Word - 1 \in Nat
    OBVIOUS
  <2> QED
    BY <2>1
<1>3. Word * m <= n + Word - 1 /\ n + Word - 1 < Word * m + Word
  BY <1>2
<1>4. PICK size \in Nat : size = m * Word
  OBVIOUS
<1>5. n <= size /\ size < n + Word
  BY <1>3, <1>4
<1>6. Padded(b) = [i \in 1 .. size |-> IF i <= n THEN b[i] ELSE 0]
  BY <1>1, <1>2, <1>4 DEF Padded
<1>7. \A i \in 1 .. size : (IF i <= n THEN b[i] ELSE 0) \in Nat
  BY <1>1
<1>8. Padded(b) \in [1 .. size -> Nat]
  BY <1>6, <1>7
<1>9. Padded(b) \in Seq(Nat) /\ Len(Padded(b)) = size
  BY <1>8
<1>10. Aligned(size)
  BY <1>4 DEF Aligned
<1> QED
  BY <1>1, <1>5, <1>6, <1>9, <1>10

(* How far the loader is: to at_i, and to the end once it has finished. *)
Covered == IF bpc \in {"reset", "load"} THEN at_i ELSE Len(Padded(Image))

Missing(a) == lost # None3 /\ a \in lost .. lost + Word - 1

PortOK ==
  IsPort =>
    /\ bpc \in {"reset", "load", "run", "done"}
    /\ bpc = "reset" => at_i = 0
    /\ bpc \in {"reset", "load"} => at_i \in Nat /\ Aligned(at_i) /\ at_i <= Len(Padded(Image))
    /\ lost = None3 \/ (lost \in Nat /\ Aligned(lost) /\ lost + Word <= Covered)
    /\ DOMAIN dram = 0 .. DramBytes - 1
    /\ \A a \in 0 .. DramBytes - 1 :
         dram[a] = IF a < Covered /\ ~Missing(a) THEN Padded(Image)[a + 1] ELSE 0

SegOK ==
  IsSeg =>
    /\ bpc \in {"load", "run", "done"}
    /\ at_i \in 0 .. Len(cmd.segments) /\ (bpc = "run" => at_i = Len(cmd.segments))
    /\ DOMAIN dram = 0 .. DramBytes - 1
    /\ bpc # "done" => \A k \in 1 .. at_i : Span(cmd.segments[k]) \subseteq 0 .. DramBytes - 1
    /\ bpc # "done" => \A k \in 1 .. at_i : \A a \in Span(cmd.segments[k]) :
         (\A j \in k + 1 .. at_i : a \notin Span(cmd.segments[j])) =>
           dram[a] = cmd.segments[k].bytes[a - cmd.segments[k].base + 1]

(* The places where ESC [ H ends. *)
Homes(o) == {i \in 3 .. Len(o) : SubSeq(o, i - 2, i) = <<"ESC", "[", "H">>}

FireOK ==
  IsFire =>
    /\ out \in Seq(cmd.bytes)
    /\ frames = IF MaxFrames = 0 THEN 0 ELSE Cardinality(Homes(out))
    /\ bpc # "done" => fire_exit = None3 /\ (MaxFrames # 0 => Cardinality(Homes(out)) < MaxFrames)
    /\ fire_exit = 0 /\ DonePc = None3 => MaxFrames # 0 /\ Cardinality(Homes(out)) = MaxFrames
    /\ fire_exit = 2 => MaxFrames = 0 \/ Cardinality(Homes(out)) < MaxFrames

BringIInv == cmd \in Commands /\ PortOK /\ SegOK /\ FireOK /\ LossSeen

LEMMA BringInitOK == cmd \in Commands /\ BringInit => BringIInv
<1> SUFFICES ASSUME cmd \in Commands, BringInit PROVE BringIInv
  OBVIOUS
<1> USE BringupAssumption
<1>1. PortOK
  <2> SUFFICES ASSUME IsPort
               PROVE  /\ bpc = "reset" /\ at_i = 0 /\ lost = None3 /\ at_i <= Len(Padded(Image))
                      /\ Aligned(at_i)
                      /\ DOMAIN dram = 0 .. DramBytes - 1 /\ \A a \in 0 .. DramBytes - 1 : dram[a] = 0
    BY DEF PortOK, Covered
  <2>1. bpc = "reset" /\ at_i = 0 /\ lost = None3
    BY DEF BringInit
  <2>2. DOMAIN dram = 0 .. DramBytes - 1 /\ \A a \in 0 .. DramBytes - 1 : dram[a] = 0
    BY DEF BringInit
  <2>3. Image \in Seq(Nat)
    BY BringCommands DEF IsPort, Image
  <2>4. 0 <= Len(Padded(Image))
    BY <2>3, PaddedOK
  <2>5. Aligned(0)
    <3>1. 0 = 0 * Word
      OBVIOUS
    <3> QED
      BY <3>1 DEF Aligned
  <2> QED
    BY <2>1, <2>2, <2>4, <2>5
<1>2. SegOK
  <2> SUFFICES ASSUME IsSeg PROVE SegOK
    BY DEF SegOK
  <2>1. bpc = "load" /\ at_i = 0 /\ dram = [a \in 0 .. DramBytes - 1 |-> 0]
    BY DEF BringInit, IsSeg, IsPort
  <2>2. Len(cmd.segments) \in Nat
    BY BringCommands DEF IsSeg
  <2> QED
    BY <2>1, <2>2 DEF SegOK
<1>3. FireOK
  <2> SUFFICES ASSUME IsFire PROVE FireOK
    BY DEF FireOK
  <2>1. bpc = "reset" /\ out = <<>> /\ frames = 0 /\ fire_exit = None3
    BY DEF BringInit, IsFire, IsPort
  <2>2. Homes(<<>>) = {}
    BY DEF Homes
  <2>3. Cardinality(Homes(out)) = 0
    BY <2>1, <2>2, FS_EmptySet
  <2>4. MaxFrames \in Nat
    BY BringCommands DEF IsFire, MaxFrames
  <2>5. out \in Seq(cmd.bytes)
    BY <2>1
  <2> QED
    BY <2>1, <2>3, <2>4, <2>5 DEF FireOK, None3
<1>4. LossSeen
  BY DEF BringInit, LossSeen, IsPort
<1> QED
  BY <1>1, <1>2, <1>3, <1>4 DEF BringIInv

LEMMA LoadWordOK ==
  ASSUME cmd \in Commands, PortOK, LoadWord
  PROVE  PortOK'
<1> USE BringupAssumption
<1>0. IsPort /\ bpc = "load" /\ at_i + Word - 1 < Len(Padded(Image))
  BY DEF LoadWord
<1>1. Image \in Seq(Nat)
  BY <1>0, BringCommands DEF IsPort, Image
<1>2. PICK q \in Seq(Nat), L \in Nat : q = Padded(Image) /\ L = Len(q)
  BY <1>1, PaddedOK
<1>3. PICK i \in Nat : i = at_i /\ Aligned(i) /\ i + Word - 1 < L
  BY <1>0, <1>2 DEF PortOK
<1>4. Aligned(i + Word) /\ i + Word <= L
  <2>1. PICK m \in Nat : i = m * Word
    BY <1>3 DEF Aligned
  <2>2. i + Word = (m + 1) * Word /\ m + 1 \in Nat
    BY <2>1
  <2> QED
    BY <1>3, <2>2 DEF Aligned
<1>5. /\ cmd' = cmd /\ bpc' = "load" /\ at_i' = i + Word
      /\ IsPort' /\ Image' = Image /\ Padded(Image)' = q
  BY <1>0, <1>2, <1>3 DEF LoadWord, IsPort, Image, Padded
<1>6. Covered = i /\ Covered' = i + Word
  BY <1>0, <1>3, <1>5 DEF Covered
<1>7. PICK lose \in BOOLEAN :
        /\ lose => lost = None3
        /\ lost' = IF lose THEN i ELSE lost
        /\ dram' = IF lose THEN dram
                   ELSE [a \in DOMAIN dram |-> IF a \in i .. i + Word - 1 THEN q[a + 1] ELSE dram[a]]
  BY <1>2, <1>3 DEF LoadWord
<1>8. /\ lost = None3 \/ (lost \in Nat /\ Aligned(lost) /\ lost + Word <= i)
      /\ DOMAIN dram = 0 .. DramBytes - 1
      /\ \A a \in 0 .. DramBytes - 1 : dram[a] = IF a < i /\ ~Missing(a) THEN q[a + 1] ELSE 0
  BY <1>0, <1>2, <1>6 DEF PortOK
<1>9. lost' = None3 \/ (lost' \in Nat /\ Aligned(lost') /\ lost' + Word <= i + Word)
  BY <1>3, <1>7, <1>8
<1>10. DOMAIN dram' = 0 .. DramBytes - 1
  BY <1>7, <1>8
<1>11. ASSUME NEW a \in 0 .. DramBytes - 1
       PROVE  dram'[a] = IF a < i + Word /\ ~Missing(a)' THEN q[a + 1] ELSE 0
  <2>0. dram[a] = IF a < i /\ ~Missing(a) THEN q[a + 1] ELSE 0
    BY <1>8
  <2>1. CASE lose
    <3>1. lost = None3 /\ lost' = i /\ dram'[a] = dram[a] /\ i # None3
      BY <1>7, <2>1 DEF None3
    <3>2. ~Missing(a) /\ (Missing(a)' <=> a \in i .. i + Word - 1)
      BY <3>1 DEF Missing
    <3> QED
      BY <2>0, <3>1, <3>2
  <2>2. CASE ~lose
    <3>1. lost' = lost /\ dram'[a] = IF a \in i .. i + Word - 1 THEN q[a + 1] ELSE dram[a]
      BY <1>7, <1>8, <2>2
    <3>2. Missing(a)' <=> Missing(a)
      BY <3>1 DEF Missing
    <3>3. Missing(a) => a < i
      BY <1>8 DEF Missing
    <3> QED
      BY <2>0, <3>1, <3>2, <3>3
  <2> QED
    BY <2>1, <2>2
<1>12. at_i' \in Nat /\ Aligned(at_i')
  BY <1>4, <1>5
<1>13. Aligned(lost)' <=> Aligned(lost')
  BY DEF Aligned
<1>14. Aligned(at_i)' <=> Aligned(at_i')
  BY DEF Aligned
<1> QED
  BY <1>2, <1>4, <1>5, <1>6, <1>9, <1>10, <1>11, <1>12, <1>13, <1>14 DEF PortOK

(* The probe's comparison: what differs is the lost word where it is not     *)
(* zero.                                                                     *)
LEMMA CompareOK ==
  ASSUME cmd \in Commands, PortOK, IsPort, bpc = "run"
  PROVE  Bad # {} <=> lost # None3 /\ \E a \in lost .. lost + Word - 1 : a < Len(Image) /\ Image[a + 1] # 0
<1> USE BringupAssumption
<1>1. Image \in Seq(Nat) /\ Len(Image) <= DramBytes
  BY BringCommands DEF IsPort, Image
<1>2. PICK im \in Seq(Nat), n \in Nat : im = Image /\ n = Len(im) /\ n <= DramBytes
  BY <1>1
<1>a. PICK q \in Seq(Nat), L \in Nat : q = Padded(im) /\ L = Len(q)
  BY PaddedOK
<1>3. q = Padded(Image) /\ L = Len(q) /\ n <= L /\ \A i \in 1 .. L : q[i] = IF i <= n THEN im[i] ELSE 0
  BY <1>2, <1>a, PaddedOK
<1>4. /\ lost = None3 \/ lost \in Nat
      /\ \A a \in 0 .. DramBytes - 1 : dram[a] = IF a < L /\ ~Missing(a) THEN q[a + 1] ELSE 0
  BY <1>3 DEF PortOK, Covered
<1>5. ASSUME NEW i \in 1 .. n
      PROVE  dram[i - 1] # im[i] <=> Missing(i - 1) /\ im[i] # 0
  <2>1. PICK a \in 0 .. DramBytes - 1 : a = i - 1 /\ a < L /\ a + 1 = i
    BY <1>2, <1>3
  <2>2. q[i] = im[i] /\ im[i] \in Nat
    BY <1>3, <2>1, SMTT(30)
  <2>3. dram[a] = IF a < L /\ ~Missing(a) THEN q[a + 1] ELSE 0
    BY <1>4
  <2> QED
    BY <2>1, <2>2, <2>3
<1>6. Bad # {} <=> \E i \in 1 .. n : Missing(i - 1) /\ im[i] # 0
  BY <1>2, <1>5 DEF Bad
<1>7. (\E i \in 1 .. n : Missing(i - 1) /\ im[i] # 0) <=>
        lost # None3 /\ \E a \in lost .. lost + Word - 1 : a < n /\ im[a + 1] # 0
  <2>1. ASSUME NEW i \in 1 .. n, Missing(i - 1), im[i] # 0
        PROVE  lost # None3 /\ \E a \in lost .. lost + Word - 1 : a < n /\ im[a + 1] # 0
    <3>1. lost # None3 /\ i - 1 \in lost .. lost + Word - 1 /\ i - 1 < n /\ im[(i - 1) + 1] # 0
      BY <2>1 DEF Missing
    <3> QED
      BY <3>1
  <2>2. ASSUME lost # None3, NEW a \in lost .. lost + Word - 1, a < n, im[a + 1] # 0
        PROVE  \E i \in 1 .. n : Missing(i - 1) /\ im[i] # 0
    <3>1. lost \in Nat /\ a \in Nat
      BY <1>4, <2>2
    <3>2. a + 1 \in 1 .. n /\ (a + 1) - 1 = a
      BY <2>2, <3>1
    <3>3. Missing((a + 1) - 1) /\ im[a + 1] # 0
      BY <2>2, <3>2 DEF Missing
    <3> QED
      BY <3>2, <3>3
  <2> QED
    BY <2>1, <2>2
<1> QED
  BY <1>2, <1>6, <1>7

LEMMA PortStep == BringIInv /\ [BringNext]_<<cmd, bringVars>> => PortOK' /\ LossSeen'
<1> SUFFICES ASSUME BringIInv, [BringNext]_<<cmd, bringVars>> PROVE PortOK' /\ LossSeen'
  OBVIOUS
<1> USE BringupAssumption
<1>0. cmd \in Commands /\ PortOK /\ LossSeen
  BY DEF BringIInv
<1>s. ASSUME cmd' = cmd, dram' = dram, lost' = lost, Covered' = Covered,
             at_i' = at_i \/ bpc' \notin {"reset", "load"},
             bpc' = bpc \/ bpc' \in {"load", "run", "done"},
             (bpc' = "reset" => bpc = "reset"), (bpc' = "load" => bpc \in {"reset", "load"})
      PROVE  PortOK'
  <2> SUFFICES ASSUME IsPort PROVE PortOK'
    BY <1>s DEF PortOK, IsPort
  <2>1. IsPort' /\ Image' = Image /\ Padded(Image)' = Padded(Image) /\ \A a : Missing(a)' <=> Missing(a)
    BY <1>s DEF IsPort, Image, Padded, Missing
  <2> QED
    BY <1>0, <1>s, <2>1 DEF PortOK
<1>1. CASE UNCHANGED <<cmd, bringVars>>
  <2>1. UNCHANGED <<cmd, bpc, dram, at_i, lost, out, frames, fire_exit>>
    BY <1>1 DEF bringVars
  <2>2. Covered' = Covered
    BY <2>1 DEF Covered, Padded, Image
  <2>3. PortOK'
    BY <1>s, <2>1, <2>2
  <2>4. LossSeen'
    BY <1>0, <2>1 DEF LossSeen, Image
  <2> QED
    BY <2>3, <2>4
<1>2. CASE reset
  <2>1. cmd' = cmd /\ dram' = dram /\ lost' = lost /\ at_i' = at_i /\ bpc = "reset" /\ bpc' = "load"
    BY <1>2 DEF reset
  <2>2. Covered' = Covered
    BY <2>1 DEF Covered
  <2> QED
    BY <1>s, <2>1, <2>2 DEF LossSeen
<1>3. CASE LoadWord
  <2>1. PortOK'
    BY <1>0, <1>3, LoadWordOK
  <2> QED
    BY <1>3, <2>1 DEF LoadWord, LossSeen
<1>4. CASE Finish
  <2>1. /\ cmd' = cmd /\ dram' = dram /\ lost' = lost /\ at_i' = at_i /\ bpc = "load" /\ bpc' = "run"
        /\ IsPort /\ at_i + Word - 1 >= Len(Padded(Image))
    BY <1>4 DEF Finish
  <2>2. Image \in Seq(Nat)
    BY <1>0, <2>1, BringCommands DEF IsPort, Image
  <2>a. Len(Padded(Image)) \in Nat /\ Aligned(Len(Padded(Image)))
    BY <2>2, PaddedOK
  <2>b. PICK L \in Nat : L = Len(Padded(Image)) /\ Aligned(L)
    BY <2>a
  <2>3. PICK c \in Nat : L = c * Word
    BY <2>b DEF Aligned
  <2>c. PICK i \in Nat : i = at_i /\ Aligned(i) /\ i <= L
    BY <1>0, <2>1, <2>b DEF PortOK
  <2>4. PICK m \in Nat : i = m * Word
    BY <2>c DEF Aligned
  <2>5. i = L
    <3>1. CASE m >= c
      <4>1. PICK d \in Nat : m = c + d
        <5>1. m - c \in Nat /\ m = c + (m - c)
          BY <3>1
        <5> QED
          BY <5>1
      <4>2. m * Word = c * Word + d * Word /\ d * Word \in Nat
        BY <4>1
      <4> QED
        BY <2>3, <2>4, <2>c, <4>2
    <3>2. CASE m < c
      <4>1. PICK d \in Nat : c = m + 1 + d
        <5>1. c - m - 1 \in Nat /\ c = m + 1 + (c - m - 1)
          BY <3>2
        <5> QED
          BY <5>1
      <4>2. c * Word = m * Word + Word + d * Word /\ d * Word \in Nat
        BY <4>1
      <4> QED
        BY <2>1, <2>b, <2>c, <2>3, <2>4, <4>2
    <3> QED
      BY <3>1, <3>2
  <2>6. Covered' = Covered
    BY <2>1, <2>b, <2>c, <2>5 DEF Covered, Image, Padded
  <2> QED
    BY <1>s, <2>1, <2>6 DEF LossSeen
<1>5. CASE CompareDram
  <2>1. /\ cmd' = cmd /\ dram' = dram /\ lost' = lost /\ at_i' = at_i /\ bpc = "run" /\ bpc' = "done"
        /\ fire_exit' = (IF Bad # {} THEN 1 ELSE 0) /\ IsPort
    BY <1>5 DEF CompareDram, IsPort
  <2>2. Covered' = Covered
    BY <2>1 DEF Covered, Image, Padded
  <2>3. fire_exit' = 1 <=> Bad # {}
    BY <2>1
  <2>4. LossSeen'
    BY <1>0, <2>1, <2>3, CompareOK DEF LossSeen, Image
  <2> QED
    BY <1>s, <2>1, <2>2, <2>4
<1>6. CASE FireClock \/ FireTimeout
  <2>1. /\ cmd' = cmd /\ dram' = dram /\ lost' = lost /\ bpc = "run" /\ bpc' \in {"run", "done"}
        /\ cmd.tool = "fire"
    BY <1>6 DEF FireClock, FireTimeout, IsFire
  <2>2. Covered' = Covered
    BY <2>1 DEF Covered, Image, Padded
  <2>3. LossSeen'
    BY <2>1 DEF LossSeen
  <2> QED
    BY <1>s, <2>1, <2>2, <2>3
<1>7. CASE load_segment \/ SegmentsDone
  <2>1. cmd' = cmd /\ cmd.tool = "rtl_model"
    BY <1>7 DEF load_segment, SegmentsDone, IsSeg
  <2> QED
    BY <2>1 DEF PortOK, LossSeen, IsPort
<1> QED
  BY <1>1, <1>2, <1>3, <1>4, <1>5, <1>6, <1>7 DEF BringNext

LEMMA SegStep == BringIInv /\ [BringNext]_<<cmd, bringVars>> => SegOK'
<1> SUFFICES ASSUME BringIInv, [BringNext]_<<cmd, bringVars>>, IsSeg PROVE SegOK'
  BY DEF SegOK, IsSeg, BringNext, reset, LoadWord, Finish, load_segment, SegmentsDone, CompareDram,
         FireClock, FireTimeout
<1> USE BringupAssumption
<1>0. cmd.segments \in Seq([base : Nat, bytes : Seq(Nat)])
  BY BringCommands DEF BringIInv, IsSeg
<1>1. PICK S \in Seq([base : Nat, bytes : Seq(Nat)]), n \in Nat : S = cmd.segments /\ n = Len(S)
  BY <1>0
<1>2. /\ bpc \in {"load", "run", "done"}
      /\ at_i \in 0 .. n /\ (bpc = "run" => at_i = n)
      /\ DOMAIN dram = 0 .. DramBytes - 1
      /\ bpc # "done" => \A k \in 1 .. at_i : Span(S[k]) \subseteq 0 .. DramBytes - 1
      /\ bpc # "done" => \A k \in 1 .. at_i : \A a \in Span(S[k]) :
           (\A j \in k + 1 .. at_i : a \notin Span(S[j])) => dram[a] = S[k].bytes[a - S[k].base + 1]
  BY <1>1 DEF BringIInv, SegOK
<1>3. CASE UNCHANGED <<cmd, bringVars>>
  <2>1. cmd' = cmd /\ bpc' = bpc /\ at_i' = at_i /\ dram' = dram
    BY <1>3 DEF bringVars
  <2>2. cmd'.segments = S /\ Len(cmd'.segments) = n
    BY <1>1, <2>1
  <2>3. /\ bpc' \in {"load", "run", "done"}
        /\ at_i' \in 0 .. n /\ (bpc' = "run" => at_i' = n)
        /\ DOMAIN dram' = 0 .. DramBytes - 1
    BY <1>2, <2>1
  <2>4. bpc' # "done" => \A k \in 1 .. at_i' : Span(S[k]) \subseteq 0 .. DramBytes - 1
    BY <1>2, <2>1
  <2>5. bpc' # "done" => \A k \in 1 .. at_i' : \A a \in Span(S[k]) :
           (\A j \in k + 1 .. at_i' : a \notin Span(S[j])) => dram'[a] = S[k].bytes[a - S[k].base + 1]
    BY <1>2, <2>1, Zenon
  <2> QED
    BY <2>2, <2>3, <2>4, <2>5, ZenonT(40) DEF SegOK
<1>4. CASE SegmentsDone
  <2>1. cmd' = cmd /\ bpc = "load" /\ bpc' = "run" /\ at_i' = at_i /\ dram' = dram /\ at_i = n
    BY <1>1, <1>4 DEF SegmentsDone
  <2>2. cmd'.segments = S
    BY <1>1, <2>1
  <2> QED
    BY <1>1, <1>2, <2>1, <2>2 DEF SegOK
<1>5. CASE load_segment
  <2>1. cmd' = cmd /\ bpc = "load" /\ at_i < n /\ at_i' = at_i + 1
    BY <1>1, <1>5 DEF load_segment
  <2>2. PICK i \in Nat : i = at_i /\ i + 1 \in 1 .. n
    BY <1>2, <2>1
  <2>a. S[i + 1] \in [base : Nat, bytes : Seq(Nat)]
    BY <1>1, <2>2, ElementOfSeq, Zenon
  <2>3. PICK seg \in [base : Nat, bytes : Seq(Nat)] : seg = S[i + 1]
    BY <2>a
  <2>4. PICK b \in Nat, len \in Nat : b = seg.base /\ len = Len(seg.bytes)
    OBVIOUS
  <2>5. CASE ~Fits(seg)
    <3>1. bpc' = "done" /\ dram' = dram
      BY <1>1, <1>5, <2>2, <2>3, <2>5 DEF load_segment
    <3> QED
      BY <1>1, <1>2, <2>1, <2>2, <3>1 DEF SegOK
  <2>6. CASE Fits(seg)
    <3>1. /\ bpc' = bpc
          /\ dram' = [a \in DOMAIN dram \cup b .. b + len - 1 |->
                        IF a \in b .. b + len - 1 THEN seg.bytes[a - b + 1] ELSE dram[a]]
      BY <1>1, <1>5, <2>2, <2>3, <2>4, <2>6 DEF load_segment
    <3>2. b + len <= DramBytes
      BY <2>4, <2>6 DEF Fits
    <3>3. DOMAIN dram \cup b .. b + len - 1 = 0 .. DramBytes - 1
      BY <1>2, <3>2
    <3>4. DOMAIN dram' = 0 .. DramBytes - 1
      BY <3>1, <3>3
    <3>5. Span(S[i + 1]) = b .. b + len - 1
      BY <2>3, <2>4 DEF Span
    <3>6. ASSUME NEW k \in 1 .. i + 1, NEW a \in Span(S[k]), \A j \in k + 1 .. i + 1 : a \notin Span(S[j])
          PROVE  dram'[a] = S[k].bytes[a - S[k].base + 1]
      <4>1. CASE k = i + 1
        <5>1. a \in b .. b + len - 1
          BY <3>5, <3>6, <4>1
        <5> QED
          BY <2>3, <2>4, <3>1, <4>1, <5>1
      <4>2. CASE k # i + 1
        <5>1. k \in 1 .. i /\ i + 1 \in k + 1 .. i + 1
          BY <4>2
        <5>2. a \notin b .. b + len - 1
          BY <3>5, <3>6, <5>1
        <5>3. \A j \in k + 1 .. i : a \notin Span(S[j])
          BY <3>6
        <5>4. dram[a] = S[k].bytes[a - S[k].base + 1]
          BY <1>2, <2>1, <2>2, <3>6, <5>1, <5>3
        <5>5. a \in 0 .. DramBytes - 1
          BY <1>2, <2>1, <2>2, <5>1
        <5>6. dram'[a] = dram[a]
          BY <3>1, <3>3, <5>2, <5>5
        <5> QED
          BY <5>4, <5>6
      <4> QED
        BY <4>1, <4>2
    <3>7. \A k \in 1 .. i + 1 : Span(S[k]) \subseteq 0 .. DramBytes - 1
      <4>1. \A k \in 1 .. i : Span(S[k]) \subseteq 0 .. DramBytes - 1
        BY <1>2, <2>1, <2>2
      <4>2. Span(S[i + 1]) \subseteq 0 .. DramBytes - 1
        BY <3>3, <3>5
      <4>3. \A k \in 1 .. i + 1 : k \in 1 .. i \/ k = i + 1
        OBVIOUS
      <4> QED
        BY <4>1, <4>2, <4>3
    <3>8. at_i' = i + 1 /\ i + 1 \in 0 .. n /\ bpc' = "load" /\ cmd'.segments = S
      BY <1>1, <2>1, <2>2, <3>1
    <3> QED
      <4>1. /\ bpc' = "load" /\ at_i' \in 0 .. n
            /\ \A k \in 1 .. at_i' : Span(S[k]) \subseteq 0 .. DramBytes - 1
        BY <3>7, <3>8
      <4>2. \A k \in 1 .. at_i' : \A a \in Span(S[k]) :
              (\A j \in k + 1 .. at_i' : a \notin Span(S[j])) => dram'[a] = S[k].bytes[a - S[k].base + 1]
        <5>1. \A k \in 1 .. i + 1 : \A a \in Span(S[k]) :
                (\A j \in k + 1 .. i + 1 : a \notin Span(S[j])) => dram'[a] = S[k].bytes[a - S[k].base + 1]
          BY <3>6, Zenon
        <5>2. at_i' = i + 1
          BY <3>8
        <5> QED
          BY <5>1, <5>2, Zenon
      <4>3. cmd'.segments = S /\ Len(S) = n /\ bpc' \in {"load", "run", "done"} /\ bpc' # "run" /\ bpc' # "done"
        BY <1>1, <3>8
      <4> QED
        BY <3>4, <4>1, <4>2, <4>3, ZenonT(40) DEF SegOK
  <2> QED
    BY <2>5, <2>6
<1> QED
  BY <1>3, <1>4, <1>5 DEF BringNext, reset, LoadWord, Finish, CompareDram, FireClock, FireTimeout,
                          IsSeg, IsPort, IsFire

(* A byte adds a frame mark exactly when it completes one. *)
LEMMA HomesGrow ==
  ASSUME NEW B, NEW o \in Seq(B), o = out, NEW c \in B
  PROVE  Homes(Append(o, c)) = Homes(o) \cup (IF Home(c) THEN {Len(o) + 1} ELSE {})
<1>n. PICK n \in Nat : n = Len(o)
  OBVIOUS
<1>1. o = out /\ n = Len(o)
  BY <1>n
<1>a. Append(o, c) \in Seq(B)
  BY AppendProperties
<1>2. PICK p \in Seq(B) : p = Append(o, c)
  BY <1>a, Zenon
<1>3. Len(p) = n + 1 /\ p[n + 1] = c /\ \A i \in 1 .. n : p[i] = o[i]
  BY <1>1, <1>2
<1>4. ASSUME NEW q \in Seq(B), NEW i \in 3 .. Len(q)
      PROVE  SubSeq(q, i - 2, i) = <<"ESC", "[", "H">> <=> q[i - 2] = "ESC" /\ q[i - 1] = "[" /\ q[i] = "H"
  <2>1. PICK t : t = SubSeq(q, i - 2, i)
    OBVIOUS
  <2>2. t = [j \in 1 .. 3 |-> q[i - 2 + j - 1]]
    BY <2>1
  <2>3. t = <<q[i - 2], q[i - 1], q[i]>>
    <3>1. i - 2 + 1 - 1 = i - 2 /\ i - 2 + 2 - 1 = i - 1 /\ i - 2 + 3 - 1 = i
      OBVIOUS
    <3>2. t[1] = q[i - 2] /\ t[2] = q[i - 1] /\ t[3] = q[i]
      BY <2>2, <3>1
    <3>3. DOMAIN t = 1 .. 3
      BY <2>2
    <3>4. t \in Seq(B)
      BY <2>1
    <3>5. Len(t) = 3
      BY <3>3, <3>4
    <3> QED
      BY <3>2, <3>4, <3>5
  <2>4. PICK x, y, z : x = q[i - 2] /\ y = q[i - 1] /\ z = q[i]
    OBVIOUS
  <2>5. t = <<"ESC", "[", "H">> <=> x = "ESC" /\ y = "[" /\ z = "H"
    <3>1. t = <<x, y, z>>
      BY <2>3, <2>4
    <3> QED
      BY <3>1
  <2> QED
    BY <2>1, <2>4, <2>5, Zenon
<1>5. \A i \in 3 .. n : SubSeq(p, i - 2, i) = <<"ESC", "[", "H">> <=> SubSeq(o, i - 2, i) = <<"ESC", "[", "H">>
  <2> SUFFICES ASSUME NEW i \in 3 .. n
               PROVE  SubSeq(p, i - 2, i) = <<"ESC", "[", "H">> <=> SubSeq(o, i - 2, i) = <<"ESC", "[", "H">>
    OBVIOUS
  <2>1. i \in 3 .. Len(p) /\ i \in 3 .. Len(o) /\ i \in 1 .. n /\ i - 1 \in 1 .. n /\ i - 2 \in 1 .. n
    BY <1>1, <1>3
  <2>2. p[i] = o[i] /\ p[i - 1] = o[i - 1] /\ p[i - 2] = o[i - 2]
    BY <1>3, <2>1
  <2> QED
    BY <1>4, <2>1, <2>2
<1>6. (n + 1 \in 3 .. n + 1 /\ SubSeq(p, n + 1 - 2, n + 1) = <<"ESC", "[", "H">>) <=> Home(c)
  <2>1. CASE n < 2
    BY <1>1, <2>1 DEF Home
  <2>2. CASE n >= 2
    <3>1. n + 1 \in 3 .. Len(p) /\ n + 1 - 2 = n - 1 /\ n + 1 - 1 = n /\ n \in 1 .. n /\ n - 1 \in 1 .. n
      BY <1>3, <2>2
    <3>2. p[n + 1 - 2] = o[n - 1] /\ p[n + 1 - 1] = o[n] /\ p[n + 1] = c
      BY <1>3, <3>1
    <3>3. SubSeq(p, n + 1 - 2, n + 1) = <<"ESC", "[", "H">> <=> o[n - 1] = "ESC" /\ o[n] = "[" /\ c = "H"
      BY <1>4, <3>1, <3>2
    <3>4. Home(c) <=> c = "H" /\ n >= 2 /\ o[n - 1] = "ESC" /\ o[n] = "["
      BY <1>1 DEF Home
    <3> QED
      BY <2>2, <3>1, <3>3, <3>4
  <2> QED
    BY <2>1, <2>2
<1>7. Homes(p) = Homes(o) \cup (IF Home(c) THEN {n + 1} ELSE {})
  <2>1. ASSUME NEW i PROVE i \in Homes(p) <=> i \in Homes(o) \/ (i = n + 1 /\ Home(c))
    <3>1. CASE i \in 3 .. n
      BY <1>1, <1>3, <1>5, <3>1 DEF Homes
    <3>2. CASE i = n + 1
      <4>1. i \notin Homes(o)
        BY <1>1, <3>2 DEF Homes
      <4>2. i \in Homes(p) <=> Home(c)
        BY <1>3, <1>6, <3>2 DEF Homes
      <4> QED
        BY <3>2, <4>1, <4>2
    <3>3. CASE i \notin 3 .. n /\ i # n + 1
      <4>1. 3 .. n + 1 \subseteq (3 .. n) \cup {n + 1}
        OBVIOUS
      <4>2. Homes(p) \subseteq 3 .. n + 1 /\ Homes(o) \subseteq 3 .. n
        BY <1>1, <1>3 DEF Homes
      <4> QED
        BY <3>3, <4>1, <4>2, Zenon
    <3> QED
      BY <3>1, <3>2, <3>3
  <2> QED
    BY <2>1
<1> QED
  BY <1>1, <1>2, <1>7

LEMMA HomesCount ==
  ASSUME NEW B, out \in Seq(B), NEW c \in B
  PROVE  /\ Cardinality(Homes(out)) \in Nat
         /\ Cardinality(Homes(Append(out, c))) = Cardinality(Homes(out)) + (IF Home(c) THEN 1 ELSE 0)
<1>1. PICK n \in Nat : n = Len(out)
  OBVIOUS
<1>2. Homes(out) \subseteq 3 .. n /\ n + 1 \notin Homes(out)
  BY <1>1 DEF Homes
<1>3. IsFiniteSet(Homes(out))
  <2>1. IsFiniteSet(3 .. n)
    BY FS_Interval
  <2> QED
    BY <1>2, <2>1, FS_Subset
<1>4. Cardinality(Homes(out)) \in Nat
  BY <1>3, FS_CardinalityType
<1>5. Cardinality(Homes(out) \cup {n + 1}) = Cardinality(Homes(out)) + 1
  BY <1>2, <1>3, FS_AddElement
<1>6. Homes(Append(out, c)) = Homes(out) \cup (IF Home(c) THEN {n + 1} ELSE {})
  <2>1. PICK o : o = out
    OBVIOUS
  <2>2. o \in Seq(B) /\ o = out /\ n = Len(o)
    BY <1>1, <2>1
  <2>3. Homes(Append(o, c)) = Homes(o) \cup (IF Home(c) THEN {Len(o) + 1} ELSE {})
    BY <2>2, HomesGrow
  <2> QED
    BY <2>2, <2>3
<1>7. CASE Home(c)
  BY <1>4, <1>5, <1>6, <1>7
<1>8. CASE ~Home(c)
  BY <1>4, <1>6, <1>8
<1> QED
  BY <1>7, <1>8

LEMMA FireStep == BringIInv /\ [BringNext]_<<cmd, bringVars>> => FireOK'
<1> SUFFICES ASSUME BringIInv, [BringNext]_<<cmd, bringVars>>, IsFire PROVE FireOK'
  BY DEF FireOK, IsFire, BringNext, reset, LoadWord, Finish, load_segment, SegmentsDone, CompareDram,
         FireClock, FireTimeout
<1>0. /\ out \in Seq(cmd.bytes)
      /\ frames = IF MaxFrames = 0 THEN 0 ELSE Cardinality(Homes(out))
      /\ bpc # "done" => fire_exit = None3 /\ (MaxFrames # 0 => Cardinality(Homes(out)) < MaxFrames)
      /\ fire_exit = 0 /\ DonePc = None3 => MaxFrames # 0 /\ Cardinality(Homes(out)) = MaxFrames
      /\ fire_exit = 2 => MaxFrames = 0 \/ Cardinality(Homes(out)) < MaxFrames
  BY DEF BringIInv, FireOK
<1>1. MaxFrames \in Nat
  BY BringCommands DEF BringIInv, IsFire, MaxFrames
<1>2. CASE /\ cmd' = cmd /\ out' = out /\ frames' = frames /\ fire_exit' = fire_exit
           /\ (bpc' = "done" => bpc = "done") /\ (bpc' # "done" => bpc # "done")
  <2>1. MaxFrames' = MaxFrames /\ DonePc' = DonePc
    BY <1>2 DEF MaxFrames, DonePc
  <2> QED
    BY <1>0, <1>2, <2>1 DEF FireOK
<1>3. CASE FireClock
  <2>1. /\ cmd' = cmd /\ bpc = "run"
        /\ \E c \in cmd.bytes \cup {"none"}, pc \in cmd.pcs :
             LET home == c # "none" /\ Home(c)
                 n    == IF home /\ MaxFrames # 0 THEN frames + 1 ELSE frames
                 stop == (home /\ MaxFrames # 0 /\ n >= MaxFrames) \/ (DonePc # None3 /\ pc = DonePc)
             IN  /\ out' = IF c = "none" THEN out ELSE Append(out, c)
                 /\ frames' = n
                 /\ fire_exit' = IF stop THEN 0 ELSE fire_exit
                 /\ bpc' = IF stop THEN "done" ELSE bpc
    BY <1>3 DEF FireClock
  <2>2. PICK c \in cmd.bytes \cup {"none"}, pc \in cmd.pcs, home \in BOOLEAN, stop \in BOOLEAN, n \in {frames, frames + 1} :
          /\ home <=> c # "none" /\ Home(c)
          /\ n = IF home /\ MaxFrames # 0 THEN frames + 1 ELSE frames
          /\ stop <=> (home /\ MaxFrames # 0 /\ n >= MaxFrames) \/ (DonePc # None3 /\ pc = DonePc)
          /\ out' = IF c = "none" THEN out ELSE Append(out, c)
          /\ frames' = n
          /\ fire_exit' = IF stop THEN 0 ELSE fire_exit
          /\ bpc' = IF stop THEN "done" ELSE bpc
    BY <2>1
  <2>m. PICK M \in Nat : M = MaxFrames
    BY <1>1
  <2>k. PICK k : k = Cardinality(Homes(out))
    OBVIOUS
  <2>3. M = MaxFrames /\ k = Cardinality(Homes(out))
    BY <2>m, <2>k
  <2>4. MaxFrames' = M /\ DonePc' = DonePc
    BY <2>1, <2>3 DEF MaxFrames, DonePc
  <2>5. k \in Nat /\ out' \in Seq(cmd.bytes) /\ Cardinality(Homes(out')) = k + (IF home THEN 1 ELSE 0)
    <3>1. CASE c = "none"
      <4>1. out' = out /\ ~home
        BY <2>2, <3>1
      <4>2. k \in Nat
        <5>1. PICK d : d = cmd.bytes
          OBVIOUS
        <5>2. PICK l \in Nat : l = Len(out)
          BY <1>0
        <5>3. Homes(out) \subseteq 3 .. l
          BY <5>2 DEF Homes
        <5>i. 3 \in Int /\ l \in Int
          OBVIOUS
        <5>4. IsFiniteSet(3 .. l)
          BY <5>i, FS_Interval, Zenon
        <5>5. IsFiniteSet(Homes(out))
          BY <5>3, <5>4, FS_Subset
        <5> QED
          BY <2>3, <5>5, FS_CardinalityType
      <4> QED
        BY <1>0, <2>3, <4>1, <4>2
    <3>2. CASE c # "none"
      <4>1. out' = Append(out, c) /\ c \in cmd.bytes /\ (home <=> Home(c))
        BY <2>2, <3>2
      <4>2. out' \in Seq(cmd.bytes)
        BY <1>0, <4>1
      <4>3. k \in Nat /\ Cardinality(Homes(Append(out, c))) = k + (IF Home(c) THEN 1 ELSE 0)
        BY <1>0, <2>3, <4>1, HomesCount
      <4> QED
        BY <4>1, <4>2, <4>3
    <3> QED
      BY <3>1, <3>2
  <2>6. PICK k2 \in Nat : k2 = Cardinality(Homes(out')) /\ k2 = k + (IF home THEN 1 ELSE 0)
    BY <2>5
  <2>7. fire_exit = None3 /\ (M # 0 => k < M) /\ frames = (IF M = 0 THEN 0 ELSE k)
    BY <1>0, <2>1, <2>3
  <2>8. frames' = (IF M = 0 THEN 0 ELSE k2) /\ (M # 0 => k2 <= M)
    BY <2>2, <2>3, <2>5, <2>6, <2>7
  <2>9. CASE ~stop
    <3>1. bpc' = "run" /\ fire_exit' = None3 /\ (M # 0 => k2 < M)
      BY <2>1, <2>2, <2>3, <2>5, <2>6, <2>7, <2>8, <2>9
    <3> QED
      BY <2>1, <2>4, <2>5, <2>6, <2>8, <3>1 DEF FireOK, None3
  <2>10. CASE stop
    <3>1. bpc' = "done" /\ fire_exit' = 0
      BY <2>2, <2>10
    <3>2. DonePc = None3 => M # 0 /\ k2 = M
      BY <2>2, <2>3, <2>5, <2>6, <2>7, <2>8, <2>10
    <3> QED
      BY <2>1, <2>4, <2>5, <2>6, <2>8, <3>1, <3>2 DEF FireOK, None3
  <2> QED
    BY <2>9, <2>10
<1>4. CASE FireTimeout
  <2>1. cmd' = cmd /\ bpc = "run" /\ bpc' = "done" /\ fire_exit' = 2 /\ out' = out /\ frames' = frames
    BY <1>4 DEF FireTimeout
  <2>2. MaxFrames' = MaxFrames /\ DonePc' = DonePc
    BY <2>1 DEF MaxFrames, DonePc
  <2> QED
    BY <1>0, <2>1, <2>2 DEF FireOK
<1>5. CASE reset \/ LoadWord \/ Finish
  BY <1>2, <1>5 DEF reset, LoadWord, Finish
<1>6. CASE UNCHANGED <<cmd, bringVars>>
  BY <1>2, <1>6 DEF bringVars
<1> QED
  BY <1>3, <1>4, <1>5, <1>6 DEF BringNext, load_segment, SegmentsDone, CompareDram, IsSeg, IsFire

(* On a command line of pairs the scanner finds a flag at the places where   *)
(* it is given and nowhere else, and never behind the last pair.             *)
LEMMA ScannerPaired ==
  ASSUME NEW argv \in Seq(STRING), Paired(argv), NEW f \in FireFlags
  PROVE  /\ Matches(argv, f) = Given(argv, f)
         /\ {i \in 2 .. Len(argv) : argv[i] = f} = Given(argv, f)
<1>0. Len(argv) \in Nat /\ Len(argv) % 2 = 1
  BY DEF Paired
<1>1. ASSUME NEW i \in 2 .. Len(argv), argv[i] = f
      PROVE  i % 2 = 0 /\ i <= Len(argv) - 1
  <2>1. i % 2 # 1
    BY <1>0, <1>1 DEF Paired
  <2>2. i % 2 = 0
    BY <1>0, <2>1
  <2> QED
    BY <1>0, <2>2
<1> QED
  BY <1>0, <1>1 DEF Given, Matches

(* The arguments a run of fire takes. *)
LEMMA ArgsPairedNow ==
  ASSUME cmd \in Commands
  PROVE  ArgsPaired
<1> SUFFICES ASSUME IsFire, NEW f \in FireFlags
             PROVE  /\ has_flag(cmd.argv, f) <=> Given(cmd.argv, f) # {}
                    /\ collect_hex_args(cmd.argv, f) = {strtoull(cmd.argv[k + 1]) : k \in Given(cmd.argv, f)}
                    /\ Given(cmd.argv, f) = {} => find_arg(cmd.argv, f, "7") = "7"
                    /\ \A k \in Given(cmd.argv, f) :
                         (\A j \in Given(cmd.argv, f) : k <= j) => find_arg(cmd.argv, f, "7") = cmd.argv[k + 1]
  BY DEF ArgsPaired
<1>1. cmd.argv \in Seq(STRING) /\ Paired(cmd.argv)
  BY BringCommands DEF IsFire
<1>2. PICK argv \in Seq(STRING) : argv = cmd.argv /\ Paired(argv)
  BY <1>1
<1>3. /\ Matches(argv, f) = Given(argv, f)
      /\ {i \in 2 .. Len(argv) : argv[i] = f} = Given(argv, f)
  BY <1>2, ScannerPaired
<1>4. has_flag(argv, f) <=> Given(argv, f) # {}
  BY <1>3 DEF has_flag
<1>5. collect_hex_args(argv, f) = {strtoull(argv[k + 1]) : k \in Given(argv, f)}
  BY <1>3 DEF collect_hex_args
<1>6. find_arg(argv, f, "7") = IF Given(argv, f) = {} THEN "7" ELSE argv[Earliest(Given(argv, f)) + 1]
  BY <1>3 DEF find_arg
<1>7. ASSUME NEW k \in Given(argv, f), \A j \in Given(argv, f) : k <= j
      PROVE  find_arg(argv, f, "7") = argv[k + 1]
  <2>1. Given(argv, f) \subseteq Nat
    BY <1>2 DEF Given
  <2>2. k = Earliest(Given(argv, f))
    BY <1>7, <2>1 DEF Earliest
  <2> QED
    BY <1>6, <1>7, <2>1, <2>2
<1> QED
  BY <1>2, <1>4, <1>5, <1>6, <1>7

LEMMA BringStep == BringIInv /\ [BringNext]_<<cmd, bringVars>> => BringIInv'
<1> SUFFICES ASSUME BringIInv, [BringNext]_<<cmd, bringVars>> PROVE BringIInv'
  OBVIOUS
<1>1. cmd' = cmd
  BY DEF BringNext, reset, LoadWord, Finish, load_segment, SegmentsDone, CompareDram, FireClock, FireTimeout
<1> QED
  BY <1>1, PortStep, SegStep, FireStep DEF BringIInv

LEMMA BringSoundNow == BringIInv => BringupSound
<1> SUFFICES ASSUME BringIInv PROVE BringupSound
  OBVIOUS
<1> USE BringupAssumption
<1>1. ImageWhole
  <2> SUFFICES ASSUME IsPort, bpc = "run", lost = None3, NEW a \in 0 .. DramBytes - 1
               PROVE  dram[a] = IF a < Len(Image) THEN Image[a + 1] ELSE 0
    BY DEF ImageWhole
  <2>1. Image \in Seq(Nat)
    BY BringCommands DEF BringIInv, IsPort, Image
  <2>2. PICK im \in Seq(Nat), n \in Nat : im = Image /\ n = Len(im)
    BY <2>1
  <2>3. PICK q \in Seq(Nat), L \in Nat : q = Padded(im) /\ L = Len(q)
    BY PaddedOK
  <2>4. n <= L /\ \A i \in 1 .. L : q[i] = IF i <= n THEN im[i] ELSE 0
    BY <2>2, <2>3, PaddedOK
  <2>5. dram[a] = IF a < L THEN q[a + 1] ELSE 0
    BY <2>2, <2>3 DEF BringIInv, PortOK, Covered, Missing
  <2> QED
    BY <2>2, <2>4, <2>5
<1>2. SegmentsWhole
  <2> SUFFICES ASSUME IsSeg PROVE SegmentsWhole
    BY DEF SegmentsWhole
  <2>1. /\ DOMAIN dram = 0 .. DramBytes - 1
        /\ bpc = "run" => \A k \in 1 .. Len(cmd.segments) : \A a \in Span(cmd.segments[k]) :
             (\A j \in k + 1 .. Len(cmd.segments) : a \notin Span(cmd.segments[j])) =>
               dram[a] = cmd.segments[k].bytes[a - cmd.segments[k].base + 1]
    BY DEF BringIInv, SegOK
  <2>2. ASSUME bpc = "run", NEW k \in 1 .. Len(cmd.segments),
               NEW a \in Span(cmd.segments[k]) \ UNION {Span(cmd.segments[j]) : j \in k + 1 .. Len(cmd.segments)}
        PROVE  dram[a] = cmd.segments[k].bytes[a - cmd.segments[k].base + 1]
    <3>1. a \in Span(cmd.segments[k]) /\ \A j \in k + 1 .. Len(cmd.segments) : a \notin Span(cmd.segments[j])
      OBVIOUS
    <3> QED
      BY <2>1, <2>2, <3>1
  <2> QED
    BY <2>1, <2>2 DEF SegmentsWhole
<1>3. FramesExact
  BY DEF BringIInv, FireOK, FramesExact, Homes
<1>4. ArgsPaired
  BY ArgsPairedNow DEF BringIInv
<1> QED
  BY <1>1, <1>2, <1>3, <1>4 DEF BringIInv, BringupSound

(* For every image and every segments that the commands name, and every      *)
(* width of the programmer port: the core starts on the image, a lost word   *)
(* is noticed, and fire stops at the frame it was asked for.                 *)
THEOREM BringupSafety == BringSpec => []BringupSound
<1>1. BringSpec => []BringIInv
  BY BringInitOK, BringStep, PTL DEF BringSpec
<1> QED
  BY <1>1, BringSoundNow, PTL
=============================================================================
