------------------------------ MODULE Emulator ------------------------------
(***************************************************************************)
(* The standalone golden emulator: the harts of sim/emulator/hart.h with   *)
(* hart_execute.inc, hart_trap.inc and hart_csr.inc, the shared CLINT of   *)
(* clint.h, and the round-robin main loop of emulator_linux.cpp.           *)
(*                                                                         *)
(* One action is one call of hart_step, one clock tick or one delivery of  *)
(* the exceptions.  The image gives each hart a set of instruction classes; *)
(* after the interrupt checks a step executes any instruction of them.     *)
(* Register contents, addresses other than those of stores and             *)
(* reservations, and the program counter are abstracted; of the program    *)
(* counter stays whether it is in the page the main loop unrolls.          *)
(***************************************************************************)
EXTENDS Host

CONSTANTS Addrs,        \* DRAM words the programs store to
          KickProtect,  \* post_kick_protect after the first IPI: 200
          Unroll,       \* extra steps in the stop region: 1023
          HalfBase,     \* values of one 32-bit half of a CLINT register: 2^32
          MaxGen,       \* bound on the store generation
          Input         \* bytes that arrive on stdin

Flags == <<"LD_ACC_FAULT", "INS_ACC_FAULT", "ILL_INS", "INS_ADDR_MISSALIG",
           "EBREAK", "LD_ADDR_MISSALIG", "STORE_ADDR_MISSALIG">>
FlagSet == {Flags[i] : i \in DOMAIN Flags}
Atomics == {"store", "lr.w", "sc.w", "lr.d", "sc.d"}
Systems == {"nop", "wfi", "mret", "ecall", "mie", "mip", "exit"}
Devices == {"msip", "mtimecmp", "mtime", "status", "rx"}

ASSUME EmulatorAssumption ==
  /\ Addrs \subseteq Nat \ {0}
  /\ KickProtect \in Nat /\ Unroll \in Nat
  /\ HalfBase \in Nat \ {0} /\ MaxGen \in Nat \ {0} /\ Input \in Nat
  /\ \A c \in Commands : c.tool = "emulator" =>
       c.image \in [Harts -> SUBSET (Atomics \cup Systems \cup Devices \cup FlagSet)]

VARIABLES
  hart,              \* per-hart state, HartState below
  global_store_gen,  \* bumped by every store to DRAM
  msip, mtime, mtimecmp,      \* the CLINT
  uart_rx_byte,      \* 0 is empty, n the n-th byte of stdin
  inputs,            \* bytes that were read from stdin
  got,               \* ghost: the bytes the guest read from the RX register
  torn,              \* ghost: widths of an SC that succeeded on a lost reservation
  turn, extra,       \* main loop: whose step is next, and k of the unrolled loop
  running            \* the process has not exited

emuVars == <<hart, global_store_gen, msip, mtime, mtimecmp, uart_rx_byte, inputs,
          got, torn, turn, extra, running>>
clintVars == <<msip, mtime, mtimecmp>>
uartVars == <<uart_rx_byte, inputs, got>>
loopVars == <<turn, extra, running>>

Forever == HalfBase * HalfBase - 1   \* ~0ULL
Times == 0 .. Forever

(* The members of class hart that the programs can tell apart.  `lost` is a *)
(* ghost: the reservations (by width) hit by another hart's store or by an  *)
(* interrupt since their LR.                                               *)
HartState ==
  [smp_released : BOOLEAN, in_wfi : BOOLEAN, post_kick_protect : 0 .. KickProtect,
   mie : BOOLEAN, mpie : BOOLEAN, enabled : SUBSET {"MSIE", "MTIE"},
   valid : BOOLEAN, addr : Addrs \cup {0}, gen : 0 .. MaxGen,
   valid64 : BOOLEAN, addr64 : Addrs \cup {0},
   flags : SUBSET FlagSet, stopRegion : BOOLEAN, lost : SUBSET {"w", "d"}]

EmuTypeOK ==
  /\ cmd \in Commands
  /\ hart \in [Harts -> HartState]
  /\ global_store_gen \in 1 .. MaxGen
  /\ msip \in [Harts -> BOOLEAN] /\ mtime \in Times /\ mtimecmp \in [Harts -> Times]
  /\ uart_rx_byte \in 0 .. Input /\ inputs \in 0 .. Input /\ got \in Seq(0 .. Input)
  /\ torn \subseteq {"w", "d"}
  /\ turn \in 0 .. NUM_HARTS + 1 /\ extra \in 0 .. Unroll /\ running \in BOOLEAN

(* hart_init, standalone build: only hart 0 runs from reset. *)
hart_init(h) ==
  [smp_released |-> h = 0, in_wfi |-> FALSE, post_kick_protect |-> 0,
   mie |-> FALSE, mpie |-> FALSE, enabled |-> {},
   valid |-> FALSE, addr |-> 0, gen |-> 0, valid64 |-> FALSE, addr64 |-> 0,
   flags |-> {}, stopRegion |-> FALSE, lost |-> {}]

(* The CLINT constructor: no IPI pending, every timer at ~0. *)
ClintInit ==
  /\ msip = [h \in Harts |-> FALSE]
  /\ mtime = 0
  /\ mtimecmp = [h \in Harts |-> Forever]

(* emulator::emulator and the start of main. *)
EmuInit ==
  /\ cmd \in Commands
  /\ hart = [h \in Harts |-> hart_init(h)]
  /\ global_store_gen = 1
  /\ ClintInit
  /\ uart_rx_byte = 0 /\ inputs = 0 /\ got = <<>> /\ torn = {}
  /\ turn = NUM_HARTS + 1 /\ extra = 0 /\ running = TRUE

check_timer_interrupt(h) == mtime >= mtimecmp[h]
check_software_interrupt(h) == msip[h]

(* interrupt_function with what its callers do first: the hart leaves WFI,  *)
(* both reservations are dropped, mstatus.mie moves to mpie.               *)
interrupt_function(r) ==
  [r EXCEPT !.in_wfi = FALSE, !.valid = FALSE, !.valid64 = FALSE, !.mpie = r.mie, !.mie = FALSE, !.lost = {"w", "d"}]

(* excep_function: the reservations and in_wfi stay. *)
excep_function(r) == [r EXCEPT !.mpie = r.mie, !.mie = FALSE]

(* Faulty form: WFI waits for an interrupt that can be taken. *)
WakesIfTaken(r, h) ==
  /\ r.mie
  /\ \/ "MSIE" \in r.enabled /\ check_software_interrupt(h)
     \/ "MTIE" \in r.enabled /\ check_timer_interrupt(h)

(* What ends WFI: a pending and enabled interrupt, whatever mstatus.mie. *)
Wakes(r, h) ==
  \/ "MSIE" \in r.enabled /\ check_software_interrupt(h)
  \/ "MTIE" \in r.enabled /\ check_timer_interrupt(h)

(* The head of hart_step: release of a parked hart, interrupt checks with   *)
(* MSIP before MTIP, the bring-up guard.  The guard is counted down once    *)
(* where it holds an MSIP back and once more for the step.                 *)
TopOfStep(h) ==
  LET r == hart[h]
      released == [r EXCEPT !.smp_released = TRUE, !.post_kick_protect = KickProtect]
      soft == r.mie /\ "MSIE" \in r.enabled /\ check_software_interrupt(h)
      timer == r.mie /\ "MTIE" \in r.enabled /\ check_timer_interrupt(h)
      held == [r EXCEPT !.post_kick_protect = @ - 1]
      checked == IF ~r.smp_released THEN released
                 ELSE IF soft THEN IF r.post_kick_protect > 0 THEN held
                                   ELSE interrupt_function(r)
                 ELSE IF timer THEN interrupt_function(r)
                 ELSE r
  IN  [checked EXCEPT !.post_kick_protect = IF @ > 0 THEN @ - 1 ELSE 0]

(***************************************************************************)
(* One instruction of hart h, whose state after the head of the step is r. *)
(***************************************************************************)
Only(h, r) == hart' = [hart EXCEPT ![h] = r]

(* What a store to a does to another hart: nothing but, as a ghost, break  *)
(* its reservations of a.  A reservation is checked when its SC comes.     *)
Hit(r, a) == [r EXCEPT !.lost = @ \cup (IF r.valid /\ r.addr = a THEN {"w"} ELSE {})
                                 \cup (IF r.valid64 /\ r.addr64 = a THEN {"d"} ELSE {})]

(* Faulty form: the store generation does not move. *)
DramWriteNoBump(h, r, a) ==
  /\ global_store_gen < MaxGen
  /\ hart' = [g \in Harts |-> IF g = h THEN r ELSE Hit(hart[g], a)]
  /\ UNCHANGED global_store_gen

(* A store to DRAM, or the write of an AMO or a successful SC. *)
DramWrite(h, r, a) ==
  /\ global_store_gen < MaxGen
  /\ global_store_gen' = global_store_gen + 1
  /\ hart' = [g \in Harts |-> IF g = h THEN r ELSE Hit(hart[g], a)]

(* store and the AMOs. *)
Store(h, r) == \E a \in Addrs : DramWrite(h, r, a) /\ UNCHANGED torn

(* LR.W: the reservation is the address and the store generation. *)
LrW(h, r) ==
  /\ \E a \in Addrs :
       Only(h, [r EXCEPT !.valid = TRUE, !.addr = a, !.gen = global_store_gen,
                         !.lost = @ \ {"w"}])
  /\ UNCHANGED <<global_store_gen, torn>>

(* SC.W: fails unless the reservation is for this address and no store     *)
(* came since; the reservation goes in either case.                        *)
ScW(h, r) ==
  LET s == [r EXCEPT !.valid = FALSE, !.addr = 0, !.lost = @ \ {"w"}]
      holds(a) == r.valid /\ r.addr = a /\ r.gen = global_store_gen
  IN  \E a \in Addrs :
        \/ /\ holds(a) /\ DramWrite(h, s, a)
           /\ torn' = torn \cup (r.lost \cap {"w"})
        \/ ~holds(a) /\ Only(h, s) /\ UNCHANGED <<global_store_gen, torn>>

(* LR.D: the reservation is the address alone. *)
LrD(h, r) ==
  /\ \E a \in Addrs :
       Only(h, [r EXCEPT !.valid64 = TRUE, !.addr64 = a, !.lost = @ \ {"d"}])
  /\ UNCHANGED <<global_store_gen, torn>>

(* SC.D: only the address is compared. *)
ScD(h, r) ==
  LET s == [r EXCEPT !.valid64 = FALSE, !.addr64 = 0, !.lost = @ \ {"d"}]
      holds(a) == r.valid64 /\ r.addr64 = a
  IN  \E a \in Addrs :
        \/ /\ holds(a) /\ DramWrite(h, s, a)
           /\ torn' = torn \cup (r.lost \cap {"d"})
        \/ ~holds(a) /\ Only(h, s) /\ UNCHANGED <<global_store_gen, torn>>

Atomic(h, r) ==
  /\ \/ "store" \in cmd.image[h] /\ Store(h, r)
     \/ "lr.w" \in cmd.image[h] /\ LrW(h, r)
     \/ "sc.w" \in cmd.image[h] /\ ScW(h, r)
     \/ "lr.d" \in cmd.image[h] /\ LrD(h, r)
     \/ "sc.d" \in cmd.image[h] /\ ScD(h, r)
  /\ UNCHANGED <<clintVars, uartVars, running>>

(* SYSTEM instructions and everything else that stays inside the hart. *)
System(h, r) ==
  /\ \/ "nop" \in cmd.image[h] /\ Only(h, r)
     \/ "wfi" \in cmd.image[h] /\ Only(h, [r EXCEPT !.in_wfi = TRUE])
     \/ /\ "mret" \in cmd.image[h]
        /\ Only(h, [r EXCEPT !.mie = r.mpie, !.mpie = TRUE, !.in_wfi = FALSE])
     \/ "ecall" \in cmd.image[h] /\ Only(h, excep_function(r))
     \/ "mie" \in cmd.image[h] /\ \E b \in BOOLEAN, e \in SUBSET {"MSIE", "MTIE"} :
                              Only(h, [r EXCEPT !.mie = b, !.enabled = e])
     \/ \E f \in cmd.image[h] \cap FlagSet : Only(h, [r EXCEPT !.flags = @ \cup {f}])
  /\ UNCHANGED <<global_store_gen, torn, clintVars, uartVars, running>>

(* csr_write of mip with a clear MSIP bit also clears the CLINT's register. *)
AckIpi(h, r) ==
  /\ "mip" \in cmd.image[h]
  /\ Only(h, r)
  /\ msip' = [msip EXCEPT ![h] = FALSE]
  /\ UNCHANGED <<global_store_gen, torn, mtime, mtimecmp, uartVars, running>>

(* The end of the program: main's done-PC test, or the ISA test's ecall. *)
Exit(h, r) ==
  /\ "exit" \in cmd.image[h]
  /\ Only(h, r)
  /\ running' = FALSE
  /\ UNCHANGED <<global_store_gen, torn, clintVars, uartVars>>

(* A store of size bytes to a 64-bit CLINT register holding old: a word     *)
(* store replaces one half, other sizes below 8 are ignored.               *)
Merge(old, value, size, high) ==
  CASE size = 8 -> value
    [] size = 4 /\ ~high -> (old \div HalfBase) * HalfBase + (value % HalfBase)
    [] size = 4 /\ high -> (value % HalfBase) * HalfBase + (old % HalfBase)
    [] OTHER -> old

(* CLINT::write from a store of hart h to the registers of hart g. *)
ClintWrite(h, r) ==
  /\ Only(h, r)
  /\ \/ /\ "msip" \in cmd.image[h]
        /\ \E g \in Harts, b \in BOOLEAN : msip' = [msip EXCEPT ![g] = b]
        /\ UNCHANGED <<mtime, mtimecmp>>
     \/ /\ "mtimecmp" \in cmd.image[h]
        /\ \E g \in Harts, v \in Times, size \in {1, 4, 8}, high \in BOOLEAN :
             mtimecmp' = [mtimecmp EXCEPT ![g] = Merge(@, v, size, high)]
        /\ UNCHANGED <<msip, mtime>>
     \/ /\ "mtime" \in cmd.image[h]
        /\ \E v \in Times, size \in {1, 4, 8}, high \in BOOLEAN :
             mtime' = Merge(mtime, v, size, high)
        /\ UNCHANGED <<msip, mtimecmp>>
  /\ UNCHANGED <<global_store_gen, torn, uartVars, running>>

(* A load of the uartlite STATUS register: an empty holding register takes *)
(* a byte that waits on stdin (kbhit).                                     *)
UartStatus(h, r) ==
  /\ "status" \in cmd.image[h]
  /\ Only(h, r)
  /\ \/ /\ uart_rx_byte = 0 /\ inputs < Input
        /\ inputs' = inputs + 1 /\ uart_rx_byte' = inputs + 1
     \/ UNCHANGED <<inputs, uart_rx_byte>>
  /\ UNCHANGED <<got, global_store_gen, torn, clintVars, running>>

(* A load of RX: the held byte, or 0 when there is none, and empty it. *)
UartRx(h, r) ==
  /\ "rx" \in cmd.image[h]
  /\ Only(h, r)
  /\ got' = IF uart_rx_byte = 0 THEN got ELSE Append(got, uart_rx_byte)
  /\ uart_rx_byte' = 0
  /\ UNCHANGED <<inputs, global_store_gen, torn, clintVars, running>>

ExecuteInstruction(h, r) ==
  \/ Atomic(h, r) \/ System(h, r) \/ AckIpi(h, r) \/ Exit(h, r)
  \/ ClintWrite(h, r) \/ UartStatus(h, r) \/ UartRx(h, r)

(***************************************************************************)
(* hart_step: a parked or sleeping hart does not execute; the step that    *)
(* wakes a sleeping hart ends there.                                       *)
(***************************************************************************)
NoEffect == UNCHANGED <<global_store_gen, torn, clintVars, uartVars, running>>

hart_step(h) ==
  LET r == TopOfStep(h)
  IN  \/ /\ ~hart[h].smp_released /\ ~check_software_interrupt(h)
         /\ NoEffect /\ UNCHANGED hart
      \/ /\ hart[h].smp_released \/ check_software_interrupt(h)
         /\ r.in_wfi
         /\ Only(h, [r EXCEPT !.in_wfi = ~Wakes(r, h)]) /\ NoEffect
      \/ /\ hart[h].smp_released \/ check_software_interrupt(h)
         /\ ~r.in_wfi
         /\ \E s \in (IF Unroll = 0 THEN {FALSE} ELSE BOOLEAN) :
              ExecuteInstruction(h, [r EXCEPT !.stopRegion = s])

(* main: one step of hart `turn`, and up to Unroll more while its program   *)
(* counter stays in the stop region.                                       *)
StepHart ==
  /\ running /\ turn \in Harts
  /\ hart_step(turn)
  /\ IF hart'[turn].stopRegion /\ extra < Unroll
       THEN extra' = extra + 1 /\ turn' = turn
       ELSE extra' = 0 /\ turn' = turn + 1

(* The exception hart_set_interrupts takes: the first flag of its chain. *)
Drain(r) ==
  IF r.flags = {} THEN r
  ELSE LET first == CHOOSE i \in DOMAIN Flags :
                      /\ Flags[i] \in r.flags
                      /\ \A j \in 1 .. i - 1 : Flags[j] \notin r.flags
       IN  [excep_function(r) EXCEPT !.flags = @ \ {Flags[first]}]

(* deliver_interrupts at the end of a round. *)
deliver_interrupts ==
  /\ running /\ turn = NUM_HARTS
  /\ hart' = [h \in Harts |-> Drain(hart[h])]
  /\ turn' = NUM_HARTS + 1
  /\ UNCHANGED <<extra, global_store_gen, torn, clintVars, uartVars, running>>

(* tick_only at the start of a round: CLINT::advance.  The clock stops at *)
(* its largest value instead of wrapping, which takes 2^64 rounds.        *)
tick_only ==
  /\ running /\ turn = NUM_HARTS + 1
  /\ mtime' = IF mtime < Forever THEN mtime + 1 ELSE mtime
  /\ turn' = 0
  /\ UNCHANGED <<hart, extra, global_store_gen, torn, msip, mtimecmp, uartVars, running>>

EmuNext ==
  /\ cmd.tool = "emulator"
  /\ StepHart \/ deliver_interrupts \/ tick_only
  /\ UNCHANGED cmd

EmuSpec == EmuInit /\ [][EmuNext]_<<cmd, emuVars>>

(* main's loop never blocks, so a process that runs keeps taking steps. *)
EmuFairSpec == EmuSpec /\ WF_emuVars(EmuNext)

-----------------------------------------------------------------------------
(* An SC.W succeeds only on a reservation that no store of another hart to *)
(* its word and no interrupt came between (amo_reserve_gen against         *)
(* global_store_gen).                                                      *)
ScWExclusive == "w" \notin torn

(* The one holding register of the console loses, repeats and reorders no  *)
(* byte, whichever harts poll STATUS and read RX.                          *)
ConsoleInOrder ==
  got \o (IF uart_rx_byte = 0 THEN <<>> ELSE <<uart_rx_byte>>) = [i \in 1 .. inputs |-> i]

(* No hart stays asleep in WFI with an IPI pending that it has enabled, with *)
(* mie on or off, inside or outside its bring-up window; unless the sender   *)
(* takes the IPI back before the hart's next step.                           *)
IpiWakes ==
  \A h \in Harts : []<>~(running /\ hart[h].in_wfi /\ msip[h] /\ "MSIE" \in hart[h].enabled)

(* No hart with its timer enabled sleeps in WFI for ever: the clock goes on  *)
(* while every hart sleeps, is parked or unrolls the stop region.            *)
TimerWakes ==
  \A h \in Harts : []<>~(running /\ hart[h].in_wfi /\ "MTIE" \in hart[h].enabled)

(* What guests rely on in every interleaving of the harts: an SC.W succeeds  *)
(* only if its word was left alone, the console passes each byte on once and *)
(* in order, and the registers of the machine keep their widths under word   *)
(* stores into their halves (hart.h, clint.h).                               *)
EmulatorSafe == EmuTypeOK /\ ScWExclusive /\ ConsoleInOrder

(* No hart is left in WFI, neither by an IPI nor by its timer.               *)
EmulatorWakes == IpiWakes /\ TimerWakes
=============================================================================
