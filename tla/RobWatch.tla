------------------------------ MODULE RobWatch ------------------------------
(***************************************************************************)
(* The observers of the reorder buffer: invariants.h, which every harness  *)
(* can build in, and the probes robready, robmodify and robhead.  They     *)
(* read pointers, ready bits and ports of the Verilated core before every  *)
(* clock edge and never drive it.                                          *)
(*                                                                         *)
(* The buffer itself is external here (module RobFifo has it in detail):   *)
(* n live entries from rd on; a port writes a ready bit wherever it is     *)
(* addressed, live or not; an allocation writes the bit of its slot, and   *)
(* retirement leaves it as it is.  A command may let the core complete one *)
(* instruction under a wrong slot: what the observers are there to find.   *)
(***************************************************************************)
EXTENDS Host

CONSTANTS CHIRON_ROB_DEPTH,       \* a power of 2, the depth of the core's buffer
          CHIRON_WEDGE_CYCLES

ASSUME RobWatchAssumption ==
  /\ CHIRON_ROB_DEPTH \in {2, 4, 8, 16, 32}
  /\ CHIRON_WEDGE_CYCLES \in Nat

VARIABLES
  watchPc,      \* "run", "done"
  cyc,
  rob,          \* RTL: [rd, wr, n, ready, br], br[s]: the entry is a branch
  faulted,      \* RTL: the one wrong completion has happened
  inv,          \* chiron_invariants::st of the hart
  rr,           \* robready_probe's locals
  rm,           \* robmodify_probe's counters
  hd,           \* robhead_probe's locals
  owed          \* ghost: what the last clock should make the observers report

watchVars == <<watchPc, cyc, rob, faulted, inv, rr, rm, hd, owed>>

IsWatch  == cmd.tool = "linux_invariants_probe"
IsModify == cmd.tool = "robmodify_probe"
IsHead   == cmd.tool = "robhead_probe"

None    == -1
RobSlots == 0 .. CHIRON_ROB_DEPTH - 1
Off(i, j) == (i - j) % CHIRON_ROB_DEPTH               \* (i - j) & (DEPTH - 1)
Next1(s) == (s + 1) % CHIRON_ROB_DEPTH
-----------------------------------------------------------------------------
(* External: the reorder buffer *)

Live(r, s) == Off(s, r.rd) < r.n

NoPorts == [alloc |-> "none", bev |-> None, pass |-> TRUE, exec |-> None,
            commit |-> FALSE, flush |-> FALSE]

Modify(r, p) == p.bev # None /\ ~p.pass /\ Live(r, p.bev)

(* What a correct core may show in a cycle: it completes live instructions  *)
(* once, branches on their own port; a mispredict or a flush lets nothing   *)
(* in or out.                                                               *)
Unfinished(r, branch) == {s \in RobSlots : Live(r, s) /\ r.br[s] = branch /\ ~r.ready[s]}

LegalPorts(r) ==
  {p \in [alloc : {"none"} \cup cmd.kinds, bev : {None} \cup Unfinished(r, TRUE), pass : BOOLEAN,
          exec : {None} \cup Unfinished(r, FALSE), commit : BOOLEAN, flush : BOOLEAN] :
     /\ p.bev = None => p.pass
     /\ (Modify(r, p) \/ p.flush) => p.alloc = "none" /\ ~p.commit
     /\ p.flush => p.bev = None
     /\ p.commit => r.n > 0 /\ r.ready[r.rd]
     /\ p.alloc # "none" => r.n < CHIRON_ROB_DEPTH}

(* One wrong completion: under the slot of nobody, or of a branch that has  *)
(* not resolved; or a branch resolved a second time, live or not.           *)
WrongPorts(r) ==
  {[p EXCEPT !.exec = s] : p \in {q \in LegalPorts(r) : q.exec = None},
                           s \in {t \in RobSlots : ~Live(r, t) \/ (r.br[t] /\ ~r.ready[t])}}
  \cup [alloc : {"none"}, bev : {t \in RobSlots : r.br[t] /\ r.ready[t]}, pass : BOOLEAN,
        exec : {None} \cup Unfinished(r, FALSE), commit : {FALSE}, flush : {FALSE}]

Edge(r, p) ==
  LET in  == p.alloc # "none"
      mod == Modify(r, p)
  IN  [rd    |-> IF p.commit THEN Next1(r.rd) ELSE r.rd,
       wr    |-> IF p.flush THEN r.rd ELSE IF mod THEN Next1(p.bev) ELSE IF in THEN Next1(r.wr) ELSE r.wr,
       n     |-> IF p.flush THEN 0 ELSE IF mod THEN Off(p.bev, r.rd) + 1
                 ELSE r.n + (IF in THEN 1 ELSE 0) - (IF p.commit THEN 1 ELSE 0),
       ready |-> [s \in RobSlots |-> s \in {p.bev, p.exec} \/
                    IF in /\ s = r.wr THEN p.alloc = "done" ELSE r.ready[s]],
       br    |-> [s \in RobSlots |-> IF in /\ s = r.wr THEN p.alloc = "br" ELSE r.br[s]]]
-----------------------------------------------------------------------------
(* invariants.h *)

(* Faulty form: the slot behind the last one counts as allocated. *)
InWindowInclusive(i, rd, wr) == Off(wr, rd) = 0 \/ Off(i, rd) <= Off(wr, rd)

(* Equal pointers mean empty or full: the observer declines to judge. *)
in_window(i, rd, wr) == Off(wr, rd) = 0 \/ Off(i, rd) < Off(wr, rd)

InvInit == [prevRead |-> None, prevReady |-> [s \in RobSlots |-> FALSE],
            pending |-> [s \in RobSlots |-> FALSE], pBev |-> None, pAlloc |-> FALSE, pWrite |-> 0,
            lastCommit |-> 0, wedgeReported |-> FALSE,
            noResolve |-> 0, outside |-> 0, double |-> 0, wedged |-> 0]

violations(x) == x.noResolve + x.outside + x.double + x.wedged

(* Slots whose ready bit rose since the last sample and that no allocation  *)
(* of the last cycle explains.                                              *)
Rose(x, r) == {i \in RobSlots : r.ready[i] /\ ~x.prevReady[i] /\ ~(x.pAlloc /\ x.pWrite = i)}

(* Faulty form: a rise is judged against the ports of the same cycle. *)
CheckSameCycle(x, r, p, now) ==
  LET last == IF x.prevRead # r.rd THEN now ELSE x.lastCommit
      late == ~x.wedgeReported /\ now > last + CHIRON_WEDGE_CYCLES
      rise == {i \in RobSlots : r.ready[i] /\ ~x.prevReady[i]}
  IN  [x EXCEPT !.prevRead = r.rd, !.prevReady = r.ready, !.pBev = p.bev,
                !.pAlloc = p.alloc # "none", !.pWrite = r.wr, !.lastCommit = last,
                !.wedgeReported = (x.wedgeReported \/ late) /\ x.prevRead = r.rd,
                !.wedged = x.wedged + (IF late THEN 1 ELSE 0),
                !.noResolve = x.noResolve + Cardinality({i \in rise : r.br[i] /\ p.bev # i}),
                !.outside = x.outside + Cardinality({i \in rise : ~in_window(i, r.rd, r.wr)})]

(* check(): progress; resolutions (before the allocation of the same cycle  *)
(* is looked at); V1, a branch made ready by another port; V2, a slot made  *)
(* ready that is not allocated now and was not when the port fired.         *)
check(x, r, p, now) ==
  LET last    == IF x.prevRead # r.rd THEN now ELSE x.lastCommit
      late    == ~x.wedgeReported /\ now > last + CHIRON_WEDGE_CYCLES
      alloc   == p.alloc # "none"
      twice   == p.bev # None /\ x.pending[p.bev]
      wasIn(i) == x.prevRead # None /\ in_window(i, x.prevRead, x.pWrite)
  IN  [prevRead |-> r.rd, prevReady |-> r.ready, pBev |-> p.bev, pAlloc |-> alloc, pWrite |-> r.wr,
       pending |-> [s \in RobSlots |-> ~(alloc /\ s = r.wr) /\ (s = p.bev \/ x.pending[s])],
       lastCommit |-> last, wedgeReported |-> (x.wedgeReported \/ late) /\ x.prevRead = r.rd,
       wedged |-> x.wedged + (IF late THEN 1 ELSE 0),
       double |-> x.double + (IF twice THEN 1 ELSE 0),
       noResolve |-> x.noResolve + Cardinality({i \in Rose(x, r) : r.br[i] /\ x.pBev # i}),
       outside |-> x.outside
         + Cardinality({i \in Rose(x, r) : ~in_window(i, r.rd, r.wr) /\ ~wasIn(i)})]

inv_report(x) == IF violations(x) = 0 THEN 0 ELSE 1
-----------------------------------------------------------------------------
(* robready_probe: the same questions, without the window *)

RrInit == [prevRdy |-> [s \in RobSlots |-> FALSE], pending |-> [s \in RobSlots |-> FALSE],
           prevBev |-> None, prevAlloc |-> FALSE, prevWr |-> 0, noResolve |-> 0, double |-> 0]

robready(x, r, p) ==
  LET alloc == p.alloc # "none"
      pend  == [s \in RobSlots |-> x.pending[s] /\ ~(alloc /\ s = r.wr)]
  IN  [prevRdy |-> r.ready, prevBev |-> p.bev, prevAlloc |-> alloc, prevWr |-> r.wr,
       pending |-> [s \in RobSlots |-> pend[s] \/ s = p.bev],
       double |-> x.double + (IF p.bev # None /\ pend[p.bev] THEN 1 ELSE 0),
       noResolve |-> x.noResolve + Cardinality({i \in RobSlots :
          r.ready[i] /\ ~x.prevRdy[i] /\ r.br[i] /\ x.prevBev # i /\ ~(x.prevAlloc /\ x.prevWr = i)})]
-----------------------------------------------------------------------------
(* robmodify_probe: the rollbacks *)

(* occ: the pointers, with the empty and full flags. *)
Occupancy(r) == IF r.n = 0 THEN 0 ELSE IF r.n = CHIRON_ROB_DEPTH THEN CHIRON_ROB_DEPTH
                ELSE Off(r.wr, r.rd)

(* One clock: before the edge and after it. *)
robmodify(x, r, p, r2) ==
  LET modify == p.bev # None /\ ~p.pass
      one(b) == IF b THEN 1 ELSE 0
  IN  [modify |-> x.modify + one(modify),
       oow    |-> x.oow + one(modify /\ Off(p.bev, r.rd) >= Occupancy(r)),
       grew   |-> x.grew + one(modify /\ Occupancy(r2) > Occupancy(r))]
-----------------------------------------------------------------------------
(* robhead_probe: why the head does not retire *)

HdInit == [allocCyc |-> [s \in RobSlots |-> 0], readyCyc |-> [s \in RobSlots |-> 0],
           readyPrev |-> [s \in RobSlots |-> FALSE], lastRd |-> None, rdSince |-> 0,
           verdict |-> "none"]

HeadVerdict(x, r) ==
  CASE r.ready[r.rd]                        -> "ready"
    [] x.readyCyc[r.rd] = 0                 -> "never"
    [] x.readyCyc[r.rd] > x.allocCyc[r.rd]  -> "cleared"
    [] OTHER                                -> "before"

robhead(x, r, p, now) ==
  LET y == [x EXCEPT !.lastRd = r.rd,
                     !.rdSince = IF r.rd # x.lastRd THEN now ELSE @,
                     !.allocCyc = [s \in RobSlots |->
                        IF p.alloc # "none" /\ s = r.wr THEN now ELSE @[s]],
                     !.readyCyc = [s \in RobSlots |-> IF r.ready[s] # x.readyPrev[s] THEN now ELSE @[s]],
                     !.readyPrev = r.ready]
  IN  IF r.n = CHIRON_ROB_DEPTH /\ now - y.rdSince > cmd.stuck
      THEN [y EXCEPT !.verdict = HeadVerdict(y, r)] ELSE y
-----------------------------------------------------------------------------
WatchInit ==
  /\ watchPc = "run" /\ cyc = 0 /\ faulted = FALSE
  /\ rob = [rd |-> 0, wr |-> 0, n |-> 0, ready |-> [s \in RobSlots |-> FALSE],
            br |-> [s \in RobSlots |-> FALSE]]
  /\ inv = InvInit /\ rr = RrInit /\ hd = HdInit
  /\ rm = [modify |-> 0, oow |-> 0, grew |-> 0]
  /\ owed = [outside |-> {}, branch |-> {}, stale |-> 0]

(* Ghost: the wrong completions of this clock that have to show.  A write   *)
(* that finds the bit set already changes nothing; one that meets the       *)
(* allocation of its slot cannot be told from it.                           *)
Owed(r, p) ==
  LET hit == {s \in {p.exec} \ {None} : ~r.ready[s] /\ ~(p.alloc # "none" /\ s = r.wr)}
  IN  [outside |-> {s \in hit : ~Live(r, s) /\ r.rd # r.wr},
       branch  |-> {s \in hit : Live(r, s) /\ r.br[s] /\ p.bev # s},
       stale   |-> IF p.bev # None /\ ~p.pass /\ ~Live(r, p.bev) THEN owed.stale + 1 ELSE owed.stale]

(* The ports of a clock. *)
Shown(p) ==
  \/ p \in LegalPorts(rob) /\ UNCHANGED faulted
  \/ cmd.defect /\ ~faulted /\ p \in WrongPorts(rob) /\ faulted' = TRUE

(* tick_checked: the observers sample, then the edge.  invariants.h and     *)
(* robready_probe watch the same hart.                                      *)
tick_checked ==
  /\ IsWatch /\ watchPc = "run" /\ cyc < cmd.max
  /\ \E p \in LegalPorts(rob) \cup (IF cmd.defect THEN WrongPorts(rob) ELSE {}) :
       /\ Shown(p)
       /\ inv' = check(inv, rob, p, cyc)
       /\ rr' = robready(rr, rob, p)
       /\ owed' = Owed(rob, p)
       /\ rob' = Edge(rob, p)
  /\ cyc' = cyc + 1
  /\ UNCHANGED <<cmd, watchPc, rm, hd>>

ModifyClock ==
  /\ IsModify /\ watchPc = "run" /\ cyc < cmd.max
  /\ \E p \in LegalPorts(rob) \cup (IF cmd.defect THEN WrongPorts(rob) ELSE {}) :
       /\ Shown(p)
       /\ owed' = Owed(rob, p)
       /\ rob' = Edge(rob, p)
       /\ rm' = robmodify(rm, rob, p, rob')
  /\ cyc' = cyc + 1
  /\ UNCHANGED <<cmd, watchPc, inv, rr, hd>>

HeadClock ==
  /\ IsHead /\ watchPc = "run" /\ cyc < cmd.max
  /\ \E p \in LegalPorts(rob) :
       /\ hd' = robhead(hd, rob, p, cyc)
       /\ watchPc' = IF hd'.verdict = "none" THEN "run" ELSE "done"
       /\ rob' = IF hd'.verdict = "none" THEN Edge(rob, p) ELSE rob
  /\ cyc' = cyc + 1
  /\ UNCHANGED <<cmd, faulted, inv, rr, rm, owed>>

WatchNext == tick_checked \/ ModifyClock \/ HeadClock

WatchSpec == WatchInit /\ [][WatchNext]_<<cmd, watchVars>>
-----------------------------------------------------------------------------
(* A core that completes what it should and nothing else never trips the    *)
(* observers, over wrap-around, rollbacks, flushes and retirement in the    *)
(* very clock of a completion (invariants.h:30-42, 255-330): an assertion   *)
(* that cries wolf gets switched off.                                       *)
RobNoAlarm ==
  (IsWatch /\ ~cmd.defect) => inv.noResolve + inv.outside + inv.double = 0

(* A completion that sets the bit of a slot nobody owns, or of a branch     *)
(* that has not resolved, is counted in the next clock, unless the pointers *)
(* are equal then (invariants.h 270-330).                                   *)
StaleReported ==
  [][(IsWatch /\ cyc' > cyc) =>
       /\ (owed.outside # {} /\ rob.rd # rob.wr) => inv'.outside > inv.outside
       /\ owed.branch # {} => inv'.noResolve > inv.noResolve]_watchVars

(* invariants.h and robready_probe look at resolutions and allocations of a *)
(* clock in opposite order and count the same events (robready_probe.cpp    *)
(* 101-146).                                                                *)
ObserversAgree ==
  IsWatch => inv.noResolve = rr.noResolve /\ inv.double = rr.double

(* robmodify_probe counts exactly the mispredicts whose target has retired, *)
(* and no rollback ever makes the buffer grow (robmodify_probe.cpp 73-98).  *)
RollbackCounts == IsModify => rm.grew = 0 /\ rm.oow = owed.stale

(* The checker of invariants.h never accuses a correct reorder buffer, and   *)
(* the three observers of the same buffer report the same ready bits and     *)
(* count the same rollbacks.                                                 *)
RobWatchSound == RobNoAlarm /\ ObserversAgree /\ RollbackCounts
=============================================================================
