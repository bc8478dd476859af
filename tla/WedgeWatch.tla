----------------------------- MODULE WedgeWatch -----------------------------
(***************************************************************************)
(* The watchers for a core that stopped: seqlock_wedge_trace and           *)
(* linux_sim_trace, which start a waveform capture, and the probes         *)
(* linux_storegate, linux_robjam, injwedge, linux_injfsm, ipitmr_wedge,    *)
(* ipitmr_loop, rob_integrity, ipi_hang, tty_scan and wedge_dump.  Each    *)
(* clocks the core, samples signals of it, keeps rings of the last events  *)
(* and reports when a condition has lasted long enough.                    *)
(*                                                                         *)
(* The core is external: every clock shows one of the samples of the       *)
(* command line.  seen is the history of the samples, from the one the     *)
(* watcher starts with; the properties compare the reports with it.        *)
(***************************************************************************)
EXTENDS Host, FiniteSetsExt, SequencesExt

CONSTANTS RING,         \* entries of an event ring (64 .. 65536)
          SHOW,         \* storegate prints at most this many (400, 120)
          TRACE,        \* storegate: clocks traced after the wedge
          LINEBUF,      \* sizeof(linebuf): 512
          FIXED         \* storegate: the hart whose queue flags are read (core2)

ASSUME WedgeAssumption ==
  /\ {RING, SHOW, TRACE} \subseteq Nat \ {0} /\ LINEBUF \in Nat \ 0 .. 2
  /\ FIXED \in Nat

VARIABLES wt, seen

wedgeVars == <<wt, seen>>

Nil == -1
Now(k) == seen[k]
Lesser(a, b) == IF a < b THEN a ELSE b
-----------------------------------------------------------------------------
(* The event rings *)

EmptyRing == [i \in 0 .. RING - 1 |-> Nil]

Put(ring, n, e) == [ring EXCEPT ![n % RING] = e]

(* Faulty form: a ring that has wrapped is printed from its first cell. *)
LastEventsFromZero(ring, n) ==
  LET have == Lesser(n, RING) show == Lesser(have, SHOW)
  IN  [i \in 1 .. show |-> ring[have - show + i - 1]]

(* linux_storegate_probe: the last SHOW of what the ring has. *)
LastEvents(ring, n) ==
  LET have == Lesser(n, RING) show == Lesser(have, SHOW)
  IN  [i \in 1 .. show |-> ring[(n - have + (have - show) + i - 1) % RING]]

(* linux_robjam_probe, injwedge_probe: all of it, from the oldest cell. *)
WholeRing(ring, n) ==
  LET first == IF n < RING THEN 0 ELSE n % RING
  IN  [i \in 1 .. Lesser(n, RING) |-> ring[(first + i - 1) % RING]]

(* ipitmr_loop_probe, rob_integrity_probe: KEEP back from the head. *)
KeptEvents(ring, head, nev) ==
  LET n == Lesser(nev, cmd.keep)
  IN  [j \in 1 .. n |-> ring[(head - (n + 1 - j) + RING) % RING]]

PushAll(w, es) ==
  [w EXCEPT !.ring = [i \in 0 .. RING - 1 |->
                        LET mine == {j \in 1 .. Len(es) : (w.head + j - 1) % RING = i}
                        IN  IF mine = {} THEN @[i] ELSE es[Max(mine)]],
            !.head = (@ + Len(es)) % RING,
            !.nev = @ + Len(es)]
-----------------------------------------------------------------------------
(* linux_storegate_probe *)

IsGate == cmd.tool = "linux_storegate_probe"

(* The signals of a sample the probe binds: those of the watched hart, and  *)
(* the full flags of the request queues, of one fixed hart.                 *)
GateView(s) == [s[cmd.hart] EXCEPT !.inFull = s[FIXED].inFull, !.spFull = s[FIXED].spFull]

GateInit == [cyc |-> 0, last_pc |-> 0, pc_static |-> 0, prev_gate |-> FALSE, rise |-> 0, fire |-> 0,
             storeReq |-> 0, storeDrop |-> 0, loadReq |-> 0, loadDrop |-> 0,
             ring |-> EmptyRing, rn |-> 0, rring |-> EmptyRing, rrn |-> 0, key |-> Nil,
             last_open |-> 0, shut |-> 0, at |-> Nil, rc |-> Nil, dump |-> <<>>, rdump |-> <<>>]

Static(w, v) == IF v.pc # w.last_pc THEN 0 ELSE w.pc_static + 1

StoreEvent(v) == v.req # "none" \/ v.cf

(* The request accounting: a store needs the in-order queue, a load either. *)
Account(w, v) ==
  [w EXCEPT !.storeReq = IF v.req = "store" THEN @ + 1 ELSE @,
            !.storeDrop = IF v.req = "store" /\ v.inFull THEN @ + 1 ELSE @,
            !.loadReq = IF v.req = "load" THEN @ + 1 ELSE @,
            !.loadDrop = IF v.req = "load" /\ v.spFull /\ v.inFull THEN @ + 1 ELSE @,
            !.rise = IF v.gate /\ ~w.prev_gate THEN @ + 1 ELSE @,
            !.fire = IF v.gate /\ v.cf THEN @ + 1 ELSE @,
            !.prev_gate = v.gate]

Record(w, v, now) ==
  [w EXCEPT !.ring = IF StoreEvent(v) THEN Put(@, w.rn, now) ELSE @,
            !.rn = IF StoreEvent(v) THEN @ + 1 ELSE @,
            !.rring = IF v.ptr # w.key \/ v.cf THEN Put(@, w.rrn, now) ELSE @,
            !.rrn = IF v.ptr # w.key \/ v.cf THEN @ + 1 ELSE @,
            !.key = v.ptr,
            !.last_open = IF v.gate THEN now ELSE @,
            !.shut = IF v.gate THEN 1 ELSE @ + 1]

(* The wedge: accounting, events, a trace of TRACE clocks, exit 1.  At the  *)
(* end of the run: exit 1 for any dropped request.                          *)
GateVerdict(w, now) ==
  CASE w.pc_static = cmd.stall ->
         [w EXCEPT !.at = now, !.rc = 1, !.cyc = now + TRACE,
                   !.dump = LastEvents(w.ring, w.rn), !.rdump = LastEvents(w.rring, w.rrn)]
    [] w.pc_static # cmd.stall /\ now = cmd.end ->
         [w EXCEPT !.rc = IF w.storeDrop + w.loadDrop > 0 THEN 1 ELSE 0]
    [] OTHER -> w

linux_storegate(w, s) ==
  LET v   == GateView(s)
      now == w.cyc + 1
      x   == [w EXCEPT !.cyc = now, !.last_pc = v.pc, !.pc_static = Static(w, v)]
  IN  GateVerdict(Record(Account(x, v), v, now), now)
-----------------------------------------------------------------------------
(* linux_robjam_probe, from a checkpoint: the clock does not start at 0 *)

IsJam == cmd.tool = "linux_robjam_probe"

JamInit == [cyc |-> cmd.start, lastPc |-> cmd.first[cmd.hart].pc, lastChange |-> cmd.start,
            ring |-> EmptyRing, ringN |-> 0, at |-> Nil, rc |-> Nil, dump |-> <<>>, hits |-> 0,
            slot |-> "none"]

(* The M unit of the jammed hart: mExtensionReady, division.request.valid,  *)
(* division.counter.                                                        *)
MUnitVerdict(v) ==
  CASE ~v.mReady /\ ~v.div        -> "leaked"
    [] v.div /\ v.counter = 0     -> "stuck"
    [] v.div /\ v.counter # 0     -> "iterating"
    [] OTHER                      -> "idle"

Jammed(w, v, now) == v.pc = w.lastPc /\ now - w.lastChange >= cmd.stall

linux_robjam(w, s) ==
  LET v == s[cmd.hart] now == w.cyc + 1
      n == w.ringN + (IF v.bev # Nil THEN 1 ELSE 0)
      ring == IF v.bev # Nil THEN Put(w.ring, w.ringN, <<now, v.bev>>) ELSE w.ring
      jam  == Jammed(w, v, now)
      dump == WholeRing(ring, n)
  IN  [w EXCEPT !.cyc = now, !.ring = ring, !.ringN = n, !.lastPc = v.pc,
                !.lastChange = IF v.pc # w.lastPc THEN now ELSE @,
                !.at = IF jam THEN now - cmd.start ELSE @,
                !.rc = IF jam \/ now = cmd.start + cmd.end THEN 0 ELSE @,
                !.dump = IF jam THEN dump ELSE @,
                !.hits = IF jam THEN Cardinality({i \in DOMAIN dump : dump[i][2] = v.rd}) ELSE @,
                !.slot = IF jam THEN MUnitVerdict(v) ELSE @]
-----------------------------------------------------------------------------
(* injwedge_probe: the interrupt injector of hart 1 *)

IsInj == cmd.tool = "injwedge_probe"

InjInit == [cyc |-> 0, prev |-> [bcnt |-> 0, inj |-> 0], inj_since |-> 0,
            ring |-> EmptyRing, rn |-> 0, at |-> Nil, rc |-> Nil, dump |-> <<>>]

injwedge(w, s) ==
  LET now   == w.cyc + 1
      moved == s # w.prev
      ring  == IF moved THEN Put(w.ring, w.rn, now) ELSE w.ring
      n     == w.rn + (IF moved THEN 1 ELSE 0)
      since == IF s.inj = 0 THEN now ELSE w.inj_since
      stuck == s.inj # 0 /\ now - since > cmd.stall
  IN  [cyc |-> now, prev |-> s, inj_since |-> since, ring |-> ring, rn |-> n,
       at |-> IF stuck THEN now ELSE Nil,
       rc |-> IF stuck \/ now = cmd.end THEN 0 ELSE Nil,
       dump |-> IF stuck THEN WholeRing(ring, n) ELSE <<>>]
-----------------------------------------------------------------------------
(* seqlock_wedge_trace *)

IsSeq == cmd.tool = "seqlock_wedge_trace"

SeqInit == [cyc |-> 0, prev_pc |-> [c \in Harts |-> cmd.first[c].pc], streak |-> [c \in Harts |-> 0],
            at |-> Nil, dump_tick |-> 0, reglog |-> 0, regs |-> <<>>, rc |-> Nil]

PcStreak(w, s) == [c \in Harts |-> IF s[c].pc = w.prev_pc[c] THEN w.streak[c] + 1 ELSE 0]
Triggers(w, s) == w.at = Nil /\ \E c \in Harts : PcStreak(w, s)[c] >= cmd.stall

(* One turn of the loop, cycle k = cyc: the clock is dumped once triggered; *)
(* a line and, every kRegDumpStride, the registers go to the log.           *)
seqlock_wedge(w, s) ==
  LET k == w.cyc
      new == Triggers(w, s)
      at  == IF new THEN k + 1 ELSE w.at
      on  == at # Nil
      end == on /\ k + 1 - at >= cmd.window
  IN  [w EXCEPT !.cyc = k + 1, !.streak = PcStreak(w, s), !.prev_pc = [c \in Harts |-> s[c].pc], !.at = at,
                !.dump_tick = IF w.at # Nil THEN @ + 1 ELSE @,
                !.reglog = IF on THEN @ + 1 ELSE @,
                !.regs = @ \o (IF new THEN <<k>> ELSE <<>>)
                           \o (IF on /\ (k + 1 - at) % cmd.stride = 0 THEN <<k>> ELSE <<>>),
                !.rc = CASE end -> 0
                         [] ~end /\ k + 1 = cmd.end -> IF on THEN 0 ELSE 1
                         [] OTHER -> Nil]
-----------------------------------------------------------------------------
(* linux_sim_trace *)

IsTrace == cmd.tool = "linux_sim_trace"

TraceInit == [cyc |-> 0, tickcount |-> 0, dump_tick |-> 0, streak |-> [c \in Harts |-> 0],
              at |-> Nil, rc |-> Nil]

watched_name(pc) == pc \in cmd.watched

(* advance() moves dump_tick when dumping and tickcount when not. *)
step_any(w, gap) == IF w.at # Nil THEN [w EXCEPT !.dump_tick = @ + gap]
                    ELSE [w EXCEPT !.tickcount = @ + gap]

(* One step_any: s.gap clocks until some hart commits, 0 for none within    *)
(* STEP_TIMEOUT.  The clocks that passed are credited to the PC at the end. *)
linux_sim_trace(w, s) ==
  LET x       == step_any(w, s.gap)
      elapsed == x.tickcount - w.tickcount
      streak  == [c \in Harts |-> IF watched_name(s.pc[c]) THEN w.streak[c] + elapsed ELSE 0]
      new     == w.at = Nil /\ \E c \in Harts : streak[c] >= cmd.stall
      full    == w.at # Nil /\ x.tickcount - w.at >= cmd.window
  IN  IF s.gap = 0 THEN [w EXCEPT !.cyc = @ + 1, !.rc = 0]
      ELSE [x EXCEPT !.cyc = @ + 1, !.streak = streak,
                     !.at = IF new THEN x.tickcount ELSE @,
                     !.rc = IF full THEN 0 ELSE @]
-----------------------------------------------------------------------------
(* ipitmr_wedge_probe: an IPI nobody serves *)

IsMsip == cmd.tool = "ipitmr_wedge_probe"

MsipInit == [cyc |-> 0, prev |-> [h \in Harts |-> 0], since |-> [h \in Harts |-> 0],
             at |-> Nil, hart |-> Nil, rc |-> Nil]

(* The wire of hart h: a sample of linux_injfsm_probe has more than that. *)
Level(s, h) == IF cmd.tool = "ipitmr_wedge_probe" THEN s[h] ELSE s[h].msip

MsipSince(w, s, now) == [h \in Harts |-> IF Level(s, h) = 1 /\ w.prev[h] = 0 THEN now ELSE w.since[h]]
MsipLate(s, since, now) == {h \in Harts : Level(s, h) = 1 /\ now - since[h] > cmd.stall}
Lowest(S) == IF S = {} THEN Nil ELSE Min(S)

(* The lowest hart wins; the trace that follows decides nothing. *)
ipitmr_wedge(w, s) ==
  LET now   == w.cyc + 1
      since == MsipSince(w, s, now)
      late  == MsipLate(s, since, now)
  IN  [cyc |-> now, prev |-> s, since |-> since, hart |-> Lowest(late),
       at |-> IF late = {} THEN Nil ELSE now,
       rc |-> IF late # {} THEN 7 ELSE IF now = cmd.end THEN 0 ELSE Nil]
-----------------------------------------------------------------------------
(* linux_injfsm_probe: the same from a checkpoint, with the transitions of  *)
(* every branch counter; or a hart named in advance, after a while          *)

IsFsm == cmd.tool = "linux_injfsm_probe"

FsmInit == [cyc |-> cmd.start, prev |-> [h \in Harts |-> 0], since |-> [h \in Harts |-> 0],
            brPrev |-> [h \in Harts |-> Nil], ring |-> [h \in Harts |-> EmptyRing],
            ringN |-> [h \in Harts |-> 0], at |-> Nil, hart |-> Nil, rc |-> Nil, dump |-> <<>>]

linux_injfsm(w, s) ==
  LET now   == w.cyc + 1
      moved == {h \in Harts : s[h].br # w.brPrev[h]}
      ring  == [h \in Harts |-> IF h \in moved THEN Put(w.ring[h], w.ringN[h], now - cmd.start) ELSE w.ring[h]]
      n     == [h \in Harts |-> w.ringN[h] + (IF h \in moved THEN 1 ELSE 0)]
      since == MsipSince(w, s, now)
      late  == IF cmd.force = Nil THEN MsipLate(s, since, now)
               ELSE IF now - cmd.start > cmd.stall THEN {cmd.force} ELSE {}
      hart  == Lowest(late)
  IN  [cyc |-> now, prev |-> [h \in Harts |-> s[h].msip], since |-> since,
       brPrev |-> [h \in Harts |-> s[h].br], ring |-> ring, ringN |-> n, hart |-> hart,
       at |-> IF late = {} THEN Nil ELSE now - cmd.start,
       rc |-> IF late # {} \/ now = cmd.start + cmd.end THEN 0 ELSE Nil,
       dump |-> IF late = {} THEN <<>> ELSE WholeRing(ring[hart], n[hart])]
-----------------------------------------------------------------------------
(* ipitmr_loop_probe and rob_integrity_probe: until a bne is latched with   *)
(* an operand past its bound                                                *)

IsLoop  == cmd.tool = "ipitmr_loop_probe"
IsInteg == cmd.tool = "rob_integrity_probe"

LoopInit == [cyc |-> 0, prev |-> cmd.first, ring |-> EmptyRing, head |-> 0, nev |-> 0,
             at |-> Nil, rc |-> Nil, dump |-> <<>>]

BneLatch(s, p) == s.bne /\ s.biv /\ ~p.biv

(* What a clock pushes: the commit PC moving inside the loop, the latch,    *)
(* every resolution.                                                        *)
LoopEvents(s, p, now) ==
  (IF s.pc # p.pc /\ s.pc \in cmd.region THEN <<<<now, "commit">>>> ELSE <<>>)
  \o (IF BneLatch(s, p) THEN <<<<now, "latch">>>> ELSE <<>>)
  \o (IF s.bev THEN <<<<now, "eval">>>> ELSE <<>>)

(* ... the head, a pointer or a resolution moving, the latch. *)
IntegrityEvents(s, p, now) ==
  (IF s.pc # p.pc \/ s.ptr # p.ptr \/ s.bev THEN <<<<now, "-">>>> ELSE <<>>)
  \o (IF BneLatch(s, p) THEN <<<<now, "BNE">>>> ELSE <<>>)

EventsOf(s, p, now) == IF IsLoop THEN LoopEvents(s, p, now) ELSE IntegrityEvents(s, p, now)

(* rs1 >= 5 && rs1 < 0x100000 *)
PastBound(s) == s.rs1 = "past"

loop_watch(w, s) ==
  LET now  == w.cyc + 1
      x    == PushAll(w, EventsOf(s, w.prev, now))
      trig == BneLatch(s, w.prev) /\ PastBound(s)
  IN  [x EXCEPT !.cyc = now, !.prev = s,
                !.at = IF trig THEN now ELSE @,
                !.rc = IF trig \/ now = cmd.end THEN 0 ELSE @,
                !.dump = IF trig THEN KeptEvents(x.ring, x.head, x.nev) ELSE @]
-----------------------------------------------------------------------------
(* ipi_hang_probe, tty_scan_probe, wedge_dump_probe: snapshots at intervals, *)
(* the console by lines, the edges of the IPI wires                          *)

IsHang == cmd.tool \in {"ipi_hang_probe", "tty_scan_probe"}
IsDump == cmd.tool = "wedge_dump_probe"

HangInit == [cyc |-> 0, tx_prev |-> [p \in Harts |-> FALSE], line |-> <<>>, lines |-> <<>>,
             msip_prev |-> [h \in Harts |-> 0], edges |-> <<>>,
             mcause_prev |-> [h \in Harts |-> "none"], took |-> <<>>,
             next_snap |-> cmd.from, snaps |-> {}, at |-> Nil, rc |-> Nil]

(* A byte of the console.  One that meets a full buffer prints the line and *)
(* is dropped with it.                                                      *)
LineByte(w, b, stamp) ==
  IF b = "nl" \/ Len(w.line) >= LINEBUF - 2 THEN [w EXCEPT !.lines = Append(@, w.line), !.line = <<>>]
  ELSE IF b = "cr" THEN w ELSE [w EXCEPT !.line = Append(@, stamp)]

(* The ports in order, each on the rising edge of its valid. *)
ConsoleLines(w, s, now) ==
  LET port(x, h) == IF s[h].tx # "none" /\ ~w.tx_prev[h] THEN LineByte(x, s[h].tx, <<now, h>>) ELSE x
      all == FoldLeft(port, w, [i \in 1 .. NUM_HARTS |-> i - 1])
  IN  [w EXCEPT !.line = all.line, !.lines = all.lines,
                !.tx_prev = [h \in Harts |-> s[h].tx # "none"]]

(* The wires, then mcause: a delivery is seen when mcause turns to it. *)
IpiLog(w, s, now) ==
  LET moved == SelectSeq([i \in 1 .. NUM_HARTS |-> i - 1], LAMBDA h : s[h].msip # w.msip_prev[h])
      taken == SelectSeq([i \in 1 .. NUM_HARTS |-> i - 1],
                         LAMBDA h : s[h].mcause # w.mcause_prev[h] /\ s[h].mcause = "msi")
  IN  [w EXCEPT !.edges = @ \o [i \in 1 .. Len(moved) |-> <<moved[i], s[moved[i]].msip>>],
                !.took = @ \o [i \in 1 .. Len(taken) |-> <<now, taken[i]>>],
                !.msip_prev = [h \in Harts |-> s[h].msip],
                !.mcause_prev = [h \in Harts |-> s[h].mcause]]

(* next_snap: dense steps up to a clock, coarse ones from there. *)
SnapStep(c) == IF IsDump /\ c >= cmd.dense THEN cmd.coarse ELSE cmd.step

(* Faulty form: every other snapshot is left out. *)
SnapshotRestart(w, now) ==
  IF now < w.next_snap THEN w
  ELSE [w EXCEPT !.next_snap = now + 2 * SnapStep(now), !.snaps = @ \cup {now}]

Snapshot(w, now) ==
  IF now < w.next_snap THEN w
  ELSE [w EXCEPT !.next_snap = @ + SnapStep(now), !.snaps = @ \cup {now}]

ipi_hang(w, s) ==
  LET now == w.cyc + 1
      x   == ConsoleLines([w EXCEPT !.cyc = now, !.rc = IF now = cmd.end THEN 0 ELSE @], s, now)
      y   == IF cmd.tool = "ipi_hang_probe" THEN IpiLog(x, s, now) ELSE x
  IN  Snapshot(y, now)

wedge_dump(w) ==
  Snapshot([w EXCEPT !.cyc = @ + 1, !.rc = IF w.cyc + 1 = cmd.end THEN 0 ELSE @], w.cyc + 1)
-----------------------------------------------------------------------------
WedgeTools == {"linux_storegate_probe", "linux_robjam_probe", "injwedge_probe", "seqlock_wedge_trace",
               "linux_sim_trace", "ipitmr_wedge_probe", "ipitmr_loop_probe", "rob_integrity_probe",
               "ipi_hang_probe", "tty_scan_probe", "wedge_dump_probe", "linux_injfsm_probe"}

WedgeInit ==
  /\ seen = IF cmd.tool \in WedgeTools THEN <<cmd.first>> ELSE <<>>
  /\ wt = CASE IsGate -> GateInit [] IsJam -> JamInit [] IsInj -> InjInit [] IsSeq -> SeqInit
            [] IsTrace -> TraceInit [] IsMsip -> MsipInit [] IsFsm -> FsmInit [] IsLoop \/ IsInteg -> LoopInit
            [] IsHang \/ IsDump -> HangInit [] OTHER -> [rc |-> 0, at |-> Nil]

(* What the environment variables and the model give a watcher: thresholds,  *)
(* harts that exist, wires.  first is what the watcher holds before its first *)
(* sample; last_pc of storegate is 0.                                         *)
GateSample == [pc : Nat, req : STRING, inFull : BOOLEAN, spFull : BOOLEAN,
               gate : BOOLEAN, cf : BOOLEAN, ptr : Nat]

ASSUME WedgeCommands ==
  \A c \in Commands :
    /\ c.tool \in {"linux_storegate_probe", "linux_robjam_probe", "injwedge_probe", "seqlock_wedge_trace",
                  "ipitmr_wedge_probe", "linux_injfsm_probe"} => c.stall \in Nat \ {0}
    /\ c.tool \in {"linux_storegate_probe", "linux_robjam_probe"} => c.hart \in Harts
    /\ c.tool = "linux_storegate_probe" => c.samples \subseteq [Harts -> GateSample] /\ c.first[c.hart].pc = 0
    /\ c.tool \in {"linux_robjam_probe", "linux_injfsm_probe"} => c.start \in Nat
    /\ c.tool = "seqlock_wedge_trace" => c.window \in Nat
    /\ c.tool = "ipitmr_wedge_probe" => \A s \in c.samples, h \in Harts : s[h] \in 0 .. 1
    /\ c.tool = "linux_injfsm_probe" =>
         /\ \A s \in c.samples, h \in Harts : s[h].msip \in 0 .. 1
         /\ c.force \in Harts \cup {Nil}
    /\ c.tool \in {"ipi_hang_probe", "tty_scan_probe", "wedge_dump_probe"} => {c.from, c.step} \subseteq Nat \ {0}
    /\ c.tool = "wedge_dump_probe" => c.dense \in Nat /\ c.coarse \in Nat \ {0}

(* External: valid stays up with its byte or drops for a clock between two. *)
TxLegal(s) == IsHang => \A h \in Harts :
  LET p == Now(Len(seen))[h].tx IN p # "none" => s[h].tx \in {p, "none"}

WedgeStep(s) ==
  CASE IsGate -> linux_storegate(wt, s) [] IsJam -> linux_robjam(wt, s) [] IsInj -> injwedge(wt, s)
    [] IsSeq -> seqlock_wedge(wt, s) [] IsTrace -> linux_sim_trace(wt, s)
    [] IsMsip -> ipitmr_wedge(wt, s) [] IsFsm -> linux_injfsm(wt, s) [] IsLoop \/ IsInteg -> loop_watch(wt, s)
    [] IsHang -> ipi_hang(wt, s) [] IsDump -> wedge_dump(wt)

(* One clock of the core, and the watcher's turn. *)
WedgeNext ==
  /\ cmd.tool \in WedgeTools /\ wt.rc = Nil /\ Len(seen) <= cmd.end
  /\ \E s \in cmd.samples :
       /\ TxLegal(s)
       /\ wt' = WedgeStep(s)
       /\ seen' = Append(seen, s)
  /\ UNCHANGED cmd

WedgeSpec == cmd \in Commands /\ WedgeInit /\ [][WedgeNext]_<<cmd, wedgeVars>>
-----------------------------------------------------------------------------
(* The condition each watcher is for, on the first k samples of q. *)
Still(q, h, k) == k > cmd.stall /\ \A i \in k - cmd.stall .. k : q[i][h].pc = q[k][h].pc
Raised(q, h, k) == k > cmd.stall + 2 /\ \A i \in k - cmd.stall - 1 .. k : Level(q[i], h) = 1

WedgeAt(q, k) ==
  CASE IsGate \/ IsJam   -> Still(q, cmd.hart, k)
    [] IsSeq             -> \E h \in Harts : Still(q, h, k)
    [] IsInj             -> k > cmd.stall + 1 /\ \A i \in k - cmd.stall .. k : q[i].inj # 0
    [] IsMsip \/ (IsFsm /\ cmd.force = Nil) -> \E h \in Harts : Raised(q, h, k)
    [] IsFsm /\ cmd.force # Nil -> k > cmd.stall + 1
    [] IsLoop \/ IsInteg -> BneLatch(q[k], q[k - 1]) /\ PastBound(q[k])
    [] OTHER             -> FALSE

(* A watcher reports in the first clock in which its condition has lasted   *)
(* as long as asked for, and in no other: a stall that ends one clock short *)
(* and starts again counts from its start (linux_storegate_probe.cpp:432,   *)
(* linux_robjam_probe.cpp:168, seqlock_wedge_trace.cpp:170, injwedge_probe  *)
(* .cpp:105, ipitmr_wedge_probe.cpp:141, linux_injfsm_probe.cpp:121,        *)
(* ipitmr_loop_probe.cpp:119).                                              *)
WedgeExact ==
  (cmd.tool \in WedgeTools /\ ~IsTrace) =>
    LET hit == {k \in 2 .. Len(seen) : WedgeAt(seen, k)}
    IN  wt.at = IF hit = {} THEN Nil ELSE Min(hit) - 1

LastOf(s, n) == SubSeq(s, Len(s) - Lesser(n, Len(s)) + 1, Len(s))

Clocks(P(_)) == SelectSeq([k \in 1 .. Len(seen) - 1 |-> k], P)

(* What a report prints of a ring is the last events before it, oldest      *)
(* first, whether or not the ring has wrapped (linux_storegate_probe.cpp    *)
(* 514-528, linux_robjam_probe.cpp 318-330, injwedge_probe.cpp 143-148,     *)
(* rob_integrity_probe.cpp 111-114).                                        *)
RingsPrinted ==
  wt.at # Nil =>
    /\ IsGate =>
         /\ wt.dump = LastOf(Clocks(LAMBDA k : StoreEvent(Now(k + 1)[cmd.hart])), Lesser(RING, SHOW))
         /\ wt.rdump = LastOf(Clocks(LAMBDA k : \/ Now(k + 1)[cmd.hart].cf \/ k = 1
                                                \/ Now(k + 1)[cmd.hart].ptr # Now(k)[cmd.hart].ptr),
                              Lesser(RING, SHOW))
    /\ IsJam => [i \in DOMAIN wt.dump |-> wt.dump[i][1] - cmd.start]
                  = LastOf(Clocks(LAMBDA k : Now(k + 1)[cmd.hart].bev # Nil), RING)
    /\ IsInj => wt.dump = LastOf(Clocks(LAMBDA k : Now(k + 1) # Now(k)), RING)
    /\ IsFsm => wt.dump = LastOf(Clocks(LAMBDA k : k = 1 \/ Now(k + 1)[wt.hart].br # Now(k)[wt.hart].br), RING)
    /\ (IsLoop \/ IsInteg) =>
         wt.dump = LastOf(FlattenSeq([k \in 1 .. Len(seen) - 1 |-> EventsOf(Now(k + 1), Now(k), k)]),
                          cmd.keep)

(* The capture of seqlock_wedge_trace: the waveform and the register log    *)
(* cover the window after the trigger, and the run ends with it             *)
(* (seqlock_wedge_trace.cpp 163-214).                                       *)
CaptureExact ==
  IsSeq =>
    /\ wt.dump_tick <= cmd.window
    /\ wt.at # Nil => wt.reglog = wt.dump_tick + 1
    /\ wt.rc = 0 => wt.dump_tick = cmd.window \/ wt.cyc = cmd.end

(* storegate: a run that ends without a wedge passes exactly when no        *)
(* request of the watched hart met a full queue, the hart being the one     *)
(* whose flags are read (linux_storegate_probe.cpp 446-452, 574-583).       *)
GateVerdictExact ==
  (IsGate /\ cmd.hart = FIXED /\ wt.rc # Nil /\ wt.at = Nil) =>
    LET v(k) == Now(k)[cmd.hart]
    IN  wt.rc = 1 <=> \E k \in 2 .. Len(seen) :
          \/ v(k).req = "store" /\ v(k).inFull
          \/ v(k).req = "load" /\ v(k).inFull /\ v(k).spFull

(* The console of the probes: no byte is printed twice or out of order, the *)
(* buffer keeps room for its terminator, and bytes are lost only to a full  *)
(* buffer, one for a line it cuts (ipi_hang_probe.cpp 88-104).              *)
LinesKept ==
  IsHang =>
    LET sent(B) == {p \in (1 .. Len(seen) - 1) \X Harts :
                      Now(p[1] + 1)[p[2]].tx \in B /\ Now(p[1])[p[2]].tx = "none"}
        out == FlattenSeq(wt.lines) \o wt.line
        lost == Cardinality(sent({"a"})) - Len(out)
    IN  /\ Len(wt.line) <= LINEBUF - 2
        /\ \A i \in 1 .. Len(out) : out[i] \in sent({"a"})
        /\ \A i, j \in 1 .. Len(out) : i < j =>
             out[i][1] < out[j][1] \/ (out[i][1] = out[j][1] /\ out[i][2] < out[j][2])
        /\ lost \in 0 .. Len(wt.lines) - Cardinality(sent({"nl"}))

(* Snapshots: from the first one on no stretch longer than the step in      *)
(* force goes without one (wedge_dump_probe.cpp 110-125).                   *)
SnapsCover ==
  (IsDump \/ IsHang) =>
    \A c \in cmd.from .. wt.cyc : \E n \in wt.snaps : n <= c /\ c - n < SnapStep(n)

(* What a watcher decides follows from what the core did: it fires in the    *)
(* first clock it should and in no other, its capture covers the window      *)
(* asked for, the gate's verdict matches the requests that were dropped, and *)
(* no stretch goes without a snapshot.                                       *)
WedgeSound == WedgeExact /\ CaptureExact /\ GateVerdictExact /\ SnapsCover

(* What a watcher prints is what happened: the rings give the last events in *)
(* their order, and console bytes are whole, lost only to a full buffer.     *)
LogsWhole == RingsPrinted /\ LinesKept
=============================================================================
