------------------------------ MODULE LockStep ------------------------------
(***************************************************************************)
(* The lock-step harnesses: lockstep_linux.cpp and lockstep_quad.cpp, which *)
(* follow every hart, and lockstep.cpp and lockstep_isa.cpp, which follow   *)
(* hart 0.  The golden emulator executes an instruction of a hart when the  *)
(* Verilated core commits it; before that the two are compared.             *)
(*                                                                         *)
(* The Verilated core is external: it performs the memory access of an     *)
(* instruction at some time before the commit, executes CSR instructions   *)
(* without showing a commit, and takes interrupts where it likes.          *)
(*                                                                         *)
(* A program is a sequence of operations [k, a, v, f]: the class k, which   *)
(* half a of the one shared double word it accesses, the operand v, and the *)
(* AMO's function f.  Of a hart's registers there are x, the destination of *)
(* memory accesses, and y, that of CSR reads, in the order of their         *)
(* numbers, and mstatus.mie.                                                *)
(***************************************************************************)
EXTENDS Host, FiniteSetsExt, Bitwise

CONSTANTS WordBase,   \* values of a 32-bit word: 2^32
          MaxTime     \* bound on mtime

ASSUME LockAssumption == WordBase \in {2^n : n \in 1 .. 4} /\ MaxTime \in Nat

VARIABLES
  gold,       \* golden harts
  goldMem,    \* golden's double word
  goldGen,    \* golden's store generation
  msip_latch, goldMsip, pending_mtime_rd, last_memop,   \* the harness, by hart
  rtl, early, \* the core's harts, and results of accesses performed but not committed
  rtlMem, rtlMsip, rtlTime,
  todo,       \* harts that committed in this cycle and are not compared yet
  wrong,      \* ghost: the core has computed a wrong result
  status      \* of the process

goldVars == <<gold, goldMem, goldGen, msip_latch, goldMsip, pending_mtime_rd, last_memop, status>>
rtlVars == <<rtl, early, rtlMem, rtlMsip, rtlTime, todo, wrong>>
lockVars == <<goldVars, rtlVars>>

Words == 0 .. WordBase - 1
Double == [0 .. 1 -> Words]
Tv == 100                        \* the trap vector
Window == Tv .. Tv + 3           \* the 16 bytes from mtvec
Handler == <<[k |-> "mcause"], [k |-> "add"], [k |-> "mret"]>>

lockTools == {"lockstep_linux", "lockstep_quad", "lockstep", "lockstep_isa"}
Locked == cmd.tool \in lockTools
Program(h) == IF Locked THEN cmd.prog[h] ELSE <<>>
Op(h, pc) == IF pc >= Tv THEN Handler[pc - Tv + 1]
             ELSE IF pc \in DOMAIN Program(h) THEN Program(h)[pc] ELSE [k |-> "end"]
Access(k) == k \in {"load", "lr", "sc", "amo", "store", "mtime"}
Hidden(k) == k \in {"csrOn", "poll", "mcause"}   \* SYSTEM with funct3 # 0

NoMemOp == [valid |-> FALSE]

(* Every register of a hart at reset. *)
ResetHart == [pc |-> 1, x |-> 0, y |-> 0, mie |-> FALSE, mpie |-> FALSE, mepc |-> 0,
              cause |-> 0, res |-> <<>>, irq |-> FALSE]

LockInit ==
  /\ cmd \in Commands
  /\ gold = [h \in Harts |-> ResetHart] /\ goldMem = [a \in 0 .. 1 |-> 0] /\ goldGen = 1
  /\ msip_latch = [h \in Harts |-> 0] /\ goldMsip = [h \in Harts |-> 0]
  /\ pending_mtime_rd = [h \in Harts |-> FALSE]
  /\ last_memop = [h \in Harts |-> NoMemOp]
  /\ rtl = [h \in Harts |-> ResetHart] /\ early = [h \in Harts |-> <<>>]
  /\ rtlMem = [a \in 0 .. 1 |-> 0] /\ rtlMsip = [h \in Harts |-> 0] /\ rtlTime = 0
  /\ todo = {} /\ wrong = FALSE /\ status = "run"

Signed(v) == IF v >= WordBase \div 2 THEN v - WordBase ELSE v

(* The word an AMO writes, from the word it read and its operand. *)
amo_result(f, old, rs2) ==
  CASE f = "add" -> (old + rs2) % WordBase
    [] f = "swap" -> rs2
    [] f = "xor" -> old ^^ rs2
    [] f = "or" -> old | rs2
    [] f = "and" -> old & rs2
    [] f = "min" -> IF Signed(old) < Signed(rs2) THEN old ELSE rs2
    [] f = "max" -> IF Signed(old) > Signed(rs2) THEN old ELSE rs2
    [] f = "minu" -> IF old < rs2 THEN old ELSE rs2
    [] f = "maxu" -> IF old > rs2 THEN old ELSE rs2

(* The double word with one half replaced. *)
splice_word(w8, a, value) == [w8 EXCEPT ![a] = value]

(***************************************************************************)
(* The golden machine, as one record m: hart_step of the LOCKSTEP build,    *)
(* which takes no interrupt by itself.  WFI stops a hart until clear_wfi at *)
(* its next step, so no CSR instruction may follow it directly: the loop    *)
(* that skips CSR instructions would never end (LockPrograms).              *)
(***************************************************************************)
LockPrograms ==
  \A h \in Harts : \A i \in DOMAIN Program(h) :
    /\ i = 1 => ~Hidden(Program(h)[i].k)
    /\ Program(h)[i].k = "wfi" => ~Hidden(Op(h, i + 1).k)

Machine == [gold |-> gold, mem |-> goldMem, gen |-> goldGen, latch |-> msip_latch,
            msip |-> goldMsip, pend |-> pending_mtime_rd, memop |-> last_memop,
            status |-> status]

hart_step_golden(m, h) ==
  LET r == m.gold[h]
      o == Op(h, r.pc)
      to(s) == [m EXCEPT !.gold[h] = [s EXCEPT !.pc = r.pc + 1]]
      sc == r.res = <<o.a, m.gen>>
  IN  CASE o.k = "add" -> to([r EXCEPT !.x = (@ + 1) % WordBase])
        [] o.k = "load" -> to([r EXCEPT !.x = m.mem[o.a]])
        [] o.k = "lr" -> to([r EXCEPT !.x = m.mem[o.a], !.res = <<o.a, m.gen>>])
        [] o.k = "store" -> [to(r) EXCEPT !.mem[o.a] = o.v, !.gen = @ + 1]
        [] o.k = "amo" -> [to([r EXCEPT !.x = m.mem[o.a]]) EXCEPT
                             !.mem[o.a] = amo_result(o.f, @, o.v), !.gen = @ + 1]
        [] o.k = "sc" /\ sc -> [to([r EXCEPT !.x = 0, !.res = <<>>]) EXCEPT
                                  !.mem[o.a] = o.v, !.gen = @ + 1]
        [] o.k = "sc" /\ ~sc -> to([r EXCEPT !.x = 1, !.res = <<>>])
        [] o.k = "mtime" -> to([r EXCEPT !.x = rtlTime % WordBase])
        [] o.k = "csrOn" -> to([r EXCEPT !.mie = TRUE])
        [] o.k = "poll" -> to([r EXCEPT !.y = m.msip[h]])
        [] o.k = "mcause" -> to([r EXCEPT !.y = r.cause])
        [] o.k = "a7" -> to([r EXCEPT !.y = 1])
        [] o.k = "wfi" -> to(r)
        [] o.k = "mret" -> [m EXCEPT !.gold[h] = [r EXCEPT !.pc = r.mepc, !.mie = r.mpie,
                                                           !.mpie = TRUE]]

(* The CSR-skip loop: the core shows no commit of these. *)
RECURSIVE SkipHidden(_, _)
SkipHidden(m, h) ==
  IF Hidden(Op(h, m.gold[h].pc).k) THEN SkipHidden(hart_step_golden(m, h), h) ELSE m

(* The register of a time read is the core's, once the core has it. *)
apply_pending_mtime_rd(m, h) ==
  IF m.pend[h] THEN [m EXCEPT !.pend[h] = FALSE, !.gold[h].x = rtl[h].x] ELSE m

(* What the harness remembers of the access the hart is about to execute. *)
MemOpOf(m, h) ==
  LET o == Op(h, m.gold[h].pc)
  IN  IF o.k \in {"load", "lr", "sc", "amo"}
        THEN [valid |-> TRUE, op |-> o, oldword |-> m.mem]
        ELSE NoMemOp

(* Faulty form: the latch is not sampled after WFI. *)
GoldenStepNoLatch(m, h) ==
  LET o == Op(h, m.gold[h].pc)
      latched == IF rtlMsip[h] = 0 THEN [m EXCEPT !.latch[h] = 0] ELSE m
      before == [latched EXCEPT !.msip[h] = latched.latch[h], !.memop[h] = MemOpOf(m, h)]
      after == SkipHidden(hart_step_golden(before, h), h)
  IN  [after EXCEPT !.pend[h] = @ \/ o.k = "mtime"]

(* golden_step_hart: publish the latched MSIP, note the access, execute the *)
(* instruction and the CSR instructions after it, sample MSIP after a WFI.  *)
golden_step_hart(m, h) ==
  LET o == Op(h, m.gold[h].pc)
      latched == IF rtlMsip[h] = 0 THEN [m EXCEPT !.latch[h] = 0] ELSE m
      before == [latched EXCEPT !.msip[h] = latched.latch[h], !.memop[h] = MemOpOf(m, h)]
      after == SkipHidden(hart_step_golden(before, h), h)
  IN  [after EXCEPT !.latch[h] = IF o.k = "wfi" THEN rtlMsip[h] ELSE @,
                    !.pend[h] = @ \/ o.k = "mtime"]

(* The core is in the first instructions of the trap handler and golden is  *)
(* not: the core has taken an interrupt.                                    *)
RtlTookInterrupt(m, h) ==
  /\ rtl[h].pc # m.gold[h].pc
  /\ rtl[h].pc \in Window /\ m.gold[h].pc \notin Window

(* interrupt_function: nothing happens while mie is off. *)
TakeInterrupt(r, cause) ==
  IF r.mie THEN [r EXCEPT !.mpie = TRUE, !.mie = FALSE, !.mepc = r.pc, !.cause = cause,
                          !.pc = Tv, !.res = <<>>]
  ELSE [r EXCEPT !.res = <<>>]

RECURSIVE CatchUp(_, _, _)
CatchUp(m, h, steps) ==
  LET pc == m.gold[h].pc
  IN  IF steps > 0 /\ pc \in Window /\ pc < rtl[h].pc
        THEN CatchUp(SkipHidden(hart_step_golden(m, h), h), h, steps - 1)
        ELSE m

(* With the program counters together, the core's registers are taken over. *)
AdoptRegisters(m, h) ==
  IF m.gold[h].pc = rtl[h].pc
    THEN [m EXCEPT !.gold[h].x = rtl[h].x, !.gold[h].y = rtl[h].y,
                   !.gold[h].mie = rtl[h].mie, !.gold[h].mpie = rtl[h].mpie]
    ELSE m

(* Golden follows the core into the handler: same cause, the core's mepc,   *)
(* as many handler instructions as the core is ahead, the core's registers. *)
force_take_if_needed(m, h) ==
  IF RtlTookInterrupt(m, h)
    THEN LET taken == [m EXCEPT !.gold[h] = TakeInterrupt(@, rtl[h].cause)]
             mepc == [taken EXCEPT !.gold[h].mepc = IF rtl[h].mepc # 0 THEN rtl[h].mepc ELSE @]
         IN  AdoptRegisters(CatchUp(mepc, h, 32), h)
    ELSE m

(* The first register that differs. *)
check_registers(r, s) ==
  CASE r.x # s.x -> "x"
    [] r.x = s.x /\ r.y # s.y -> "y"
    [] r.x = s.x /\ r.y = s.y /\ <<r.mie, r.mpie>> # <<s.mie, s.mpie>> -> "mstatus"
    [] OTHER -> "none"

(* Golden's memory after golden's outcome of an access, got, is replaced by *)
(* the core's, want: a store conditional is applied or undone, an AMO is    *)
(* computed again from what the core read.                                  *)
ReconcileMemory(mem, p, want, had) ==
  CASE p.op.k = "sc" /\ want = 0 /\ had # 0 -> splice_word(mem, p.op.a, p.op.v)
    [] p.op.k = "sc" /\ want # 0 /\ had = 0 -> p.oldword
    [] p.op.k = "amo" -> splice_word(mem, p.op.a, amo_result(p.op.f, want, p.op.v))
    [] OTHER -> mem

(* Faulty form: any difference of x is put down to a race. *)
ReconcileAlways(m, h) ==
  IF check_registers(m.gold[h], rtl[h]) = "x"
    THEN [m EXCEPT !.gold[h].x = rtl[h].x]
    ELSE m

(* Two outcomes of a racing access are both right: adopt the core's. *)
reconcile_racy(m, h) ==
  IF check_registers(m.gold[h], rtl[h]) = "x" /\ m.memop[h].valid
    THEN [m EXCEPT !.gold[h].x = rtl[h].x,
                   !.mem = ReconcileMemory(@, m.memop[h], rtl[h].x, m.gold[h].x)]
    ELSE m

(* Completion::hit with a done-PC and no a0 gate. *)
hit(pc) == pc \in cmd.done

(* The outcome of one committing hart in the multi-hart harnesses: m1 is    *)
(* golden after pending time and trap, m2 also after the reconciliation.    *)
(* Hart 0 at the done-PC ends a benchmark once its batch is through.        *)
CompareHart(m1, m2, h) ==
  IF rtl[h].pc # m1.gold[h].pc THEN [m1 EXCEPT !.status = "mismatch"]
  ELSE IF check_registers(m2.gold[h], rtl[h]) # "none" THEN [m2 EXCEPT !.status = "mismatch"]
  ELSE [golden_step_hart(m2, h) EXCEPT
          !.status = IF cmd.tool = "lockstep_quad" /\ h = 0 /\ hit(rtl[h].pc) THEN "ending" ELSE @]

(* The end of an ISA test, from gp and a7. *)
isa_test_status(gp, a7) == IF a7 # 1 THEN "run" ELSE IF gp = 1 THEN "done" ELSE "failed"

(* The comparison of the single-hart harnesses, which knows neither races   *)
(* nor interrupts, and golden's next instruction.                           *)
Compared(m, h) ==
  IF rtl[h].pc # m.gold[h].pc \/ check_registers(m.gold[h], rtl[h]) # "none"
    THEN [m EXCEPT !.status = "mismatch"]
    ELSE SkipHidden(hart_step_golden(m, h), h)

(* The loop body of lockstep.cpp: completion before the comparison. *)
lockstep(m, h) == IF hit(rtl[h].pc) THEN [m EXCEPT !.status = "done"] ELSE Compared(m, h)

(* The loop body of lockstep_isa.cpp: the end of the test before the        *)
(* comparison.                                                              *)
lockstep_isa(m, h) ==
  LET isa == isa_test_status(rtl[h].x, rtl[h].y)
  IN  IF isa # "run" THEN [m EXCEPT !.status = isa] ELSE Compared(m, h)

(***************************************************************************)
(* The Verilated core (external).                                          *)
(***************************************************************************)
RtlOp(h) == Op(h, rtl[h].pc)

(* The memory access of the next instruction; an SC may fail for reasons of *)
(* the core's own.                                                          *)
RtlPerform(h) ==
  LET o == RtlOp(h)
      r == rtl[h]
      others(written) == [g \in Harts |->
        IF written /\ g # h THEN [rtl[g] EXCEPT !.res = <<>>] ELSE rtl[g]]
  IN  /\ Access(o.k) /\ early[h] = <<>>
      /\ CASE o.k = "load" ->
                early' = [early EXCEPT ![h] = <<rtlMem[o.a]>>] /\ UNCHANGED <<rtl, rtlMem>>
           [] o.k = "mtime" ->
                early' = [early EXCEPT ![h] = <<rtlTime % WordBase>>] /\ UNCHANGED <<rtl, rtlMem>>
           [] o.k = "lr" ->
                /\ early' = [early EXCEPT ![h] = <<rtlMem[o.a]>>]
                /\ rtl' = [rtl EXCEPT ![h].res = <<o.a>>] /\ UNCHANGED rtlMem
           [] o.k \in {"store", "amo"} ->
                /\ early' = [early EXCEPT ![h] = <<rtlMem[o.a]>>]
                /\ rtlMem' = [rtlMem EXCEPT ![o.a] =
                                IF o.k = "amo" THEN amo_result(o.f, @, o.v) ELSE o.v]
                /\ rtl' = others(TRUE)
           [] o.k = "sc" ->
                \E ok \in {FALSE, r.res = <<o.a>>} :
                  /\ early' = [early EXCEPT ![h] = IF ok THEN <<0>> ELSE <<1>>]
                  /\ rtlMem' = IF ok THEN [rtlMem EXCEPT ![o.a] = o.v] ELSE rtlMem
                  /\ rtl' = [others(ok) EXCEPT ![h].res = <<>>]
      /\ UNCHANGED <<rtlMsip, rtlTime, wrong>>

(* A CSR instruction, of which no commit is shown. *)
RtlHidden(h) ==
  /\ Hidden(RtlOp(h).k)
  /\ rtl' = [rtl EXCEPT ![h] =
       LET k == RtlOp(h).k
       IN  [@ EXCEPT !.pc = @ + 1, !.mie = @ \/ k = "csrOn",
                     !.y = CASE k = "poll" -> rtlMsip[h] [] k = "mcause" -> rtl[h].cause
                             [] OTHER -> @]]
  /\ UNCHANGED <<early, rtlMem, rtlMsip, rtlTime, wrong>>

(* An interrupt; it drops a load that was performed speculatively. *)
RtlInterrupt(h) ==
  /\ rtl[h].mie /\ ~rtl[h].irq /\ rtl[h].pc \in DOMAIN Program(h)
  /\ early[h] = <<>> \/ RtlOp(h).k \in {"load", "mtime"}
  /\ \E c \in {3, 7} :
       rtl' = [rtl EXCEPT ![h] = [TakeInterrupt(@, c) EXCEPT !.irq = TRUE]]
  /\ early' = [early EXCEPT ![h] = <<>>]
  /\ UNCHANGED <<rtlMem, rtlMsip, rtlTime, wrong>>

(* An IPI that arrives while its hart is at a WFI, or time passing. *)
RtlMsip(h) ==
  /\ RtlOp(h).k = "wfi" /\ rtlMsip' = [rtlMsip EXCEPT ![h] = 1 - @]
  /\ rtlMsip[h] = 0
  /\ UNCHANGED <<rtl, early, rtlMem, rtlTime, wrong>>

RtlTick ==
  /\ \E h \in Harts : RtlOp(h).k = "mtime"
  /\ rtlTime < MaxTime /\ rtlTime' = rtlTime + 1
  /\ UNCHANGED <<rtl, early, rtlMem, rtlMsip, wrong>>

CanCommit(h) ==
  /\ RtlOp(h).k # "end" /\ ~Hidden(RtlOp(h).k)
  /\ Access(RtlOp(h).k) => early[h] # <<>>

(* The registers after the commit of the next instruction; a core with a    *)
(* defect in its adder may add 2.                                           *)
Retired(h, bad) ==
  LET o == RtlOp(h)
      r == rtl[h]
  IN  CASE o.k = "add" -> [r EXCEPT !.pc = @ + 1, !.x = (@ + (IF bad THEN 2 ELSE 1)) % WordBase]
        [] o.k = "a7" -> [r EXCEPT !.pc = @ + 1, !.y = 1]
        [] o.k = "mret" -> [r EXCEPT !.pc = r.mepc, !.mie = r.mpie, !.mpie = TRUE]
        [] o.k = "wfi" -> [r EXCEPT !.pc = @ + 1]
        [] o.k = "store" -> [r EXCEPT !.pc = @ + 1]
        [] OTHER -> [r EXCEPT !.pc = @ + 1, !.x = early[h][1]]

(***************************************************************************)
(* One turn of the harness's loop: the harts of mask commit in one cycle    *)
(* (step_until_commits), then they are compared and stepped in ascending    *)
(* order until one differs.  The core stands still meanwhile.               *)
(***************************************************************************)
Commits(mask) ==
  /\ mask # {} /\ \A h \in mask : CanCommit(h)
  /\ cmd.tool \in {"lockstep", "lockstep_isa"} => mask = {0}
  /\ todo' = mask
  /\ UNCHANGED <<goldVars, rtl, early, rtlMem, rtlMsip, rtlTime, wrong>>

(* Golden becomes m, and the core shows the registers after the commit. *)
Advance(h, m) ==
  \E n \in {m} :
    /\ gold' = n.gold /\ goldMem' = n.mem /\ goldGen' = n.gen /\ msip_latch' = n.latch
    /\ goldMsip' = n.msip /\ pending_mtime_rd' = n.pend /\ last_memop' = n.memop
    /\ status' = IF n.status = "ending" /\ todo = {h} THEN "done" ELSE n.status
    /\ \E bad \in {FALSE, cmd.defect} :
         /\ rtl' = [rtl EXCEPT ![h] = Retired(h, bad)]
         /\ wrong' = (wrong \/ (bad /\ RtlOp(h).k = "add"))
    /\ early' = [early EXCEPT ![h] = <<>>]
    /\ todo' = todo \ {h}
    /\ UNCHANGED <<rtlMem, rtlMsip, rtlTime>>

CompareNext ==
  \E h \in {Min(todo)}, m0 \in {Machine} :
    \/ /\ cmd.tool \in {"lockstep_linux", "lockstep_quad"}
       /\ \E m1 \in {force_take_if_needed(apply_pending_mtime_rd(m0, h), h)} :
            \E m2 \in {reconcile_racy(m1, h)} : Advance(h, CompareHart(m1, m2, h))
    \/ cmd.tool = "lockstep" /\ Advance(h, lockstep(m0, h))
    \/ cmd.tool = "lockstep_isa" /\ Advance(h, lockstep_isa(m0, h))

(* step_until_commits gives up: no hart has anything left to commit. *)
LockTimeout ==
  /\ \A h \in Harts : RtlOp(h).k = "end"
  /\ status' = "timeout"
  /\ UNCHANGED <<gold, goldMem, goldGen, msip_latch, goldMsip, pending_mtime_rd, last_memop, rtlVars>>

Core(h) == RtlPerform(h) \/ RtlHidden(h) \/ RtlInterrupt(h) \/ RtlMsip(h)

LockNext ==
  /\ Locked /\ status \in {"run", "ending"}
  /\ \/ todo = {} /\ (RtlTick \/ \E h \in Harts : Core(h)) /\ UNCHANGED <<goldVars, todo>>
     \/ todo = {} /\ \E mask \in SUBSET Harts : Commits(mask)
     \/ todo # {} /\ CompareNext
     \/ todo = {} /\ LockTimeout
  /\ UNCHANGED cmd

LockSpec == LockInit /\ [][LockNext]_<<cmd, lockVars>>
-----------------------------------------------------------------------------
(* Every variable of the harness and of the two machines has its range. *)
LockTypeOK ==
  /\ LockPrograms
  /\ goldMem \in Double /\ rtlMem \in Double /\ goldGen \in Nat
  /\ \A h \in Harts :
       /\ {gold[h].x, rtl[h].x, gold[h].y, rtl[h].y} \subseteq Words \cup {3, 7}
       /\ msip_latch[h] \in 0 .. 1 /\ goldMsip[h] \in 0 .. 1 /\ rtlMsip[h] \in 0 .. 1
       /\ Len(early[h]) <= 1
  /\ pending_mtime_rd \in [Harts -> BOOLEAN] /\ rtlTime \in 0 .. MaxTime
  /\ status \in {"run", "mismatch", "timeout", "ending", "done", "failed"}

(* A correct core is never reported, whatever the races between its harts,  *)
(* the interrupts it takes and the time it reads.                           *)
NoFalseAlarm == status = "mismatch" => wrong

(* A wrong result of an arithmetic instruction is reported at the next      *)
(* commit of its hart, and never taken for a race.                          *)
DefectReported ==
  [][\A h \in todo \ todo' :
       rtl[h].x # gold[h].x /\ ~last_memop[h].valid /\ ~pending_mtime_rd[h]
         /\ cmd.tool \in {"lockstep_linux", "lockstep_quad"} /\ ~rtl[h].irq
         => status' = "mismatch"]_lockVars

(* Nothing is performed that is not committed, and what golden did last is  *)
(* what the core did.                                                       *)
Settled == todo = {} /\ \A h \in Harts : early[h] = <<>> /\ gold[h].x = rtl[h].x

Writers == {h \in Harts : \E i \in DOMAIN Program(h) : Program(h)[i].k \in {"store", "sc", "amo"}}

(* Golden's memory is the core's whenever nothing is under way, if one hart *)
(* writes the double word and any number read it, although each SC of the   *)
(* core may fail where golden's succeeds and any load may be early.  (An    *)
(* interrupt spoils it: the registers are then adopted without the memory.) *)
SoloMemoryAgrees ==
  Locked /\ status = "run" /\ Settled /\ Cardinality(Writers) = 1 /\ ~wrong
    /\ (\A h \in Harts : ~rtl[h].irq)
    => goldMem = rtlMem

(* A comparison of a correct machine with the emulator never fails, whatever *)
(* the order in which harts commit, take interrupts, race on a word or read  *)
(* the clock, and what a hart does alone leaves both memories the same.      *)
LockStepSound == LockTypeOK /\ NoFalseAlarm /\ SoloMemoryAgrees
=============================================================================
