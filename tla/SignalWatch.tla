---------------------------- MODULE SignalWatch ----------------------------
(***************************************************************************)
(* The probes that turn signals of the core into counts and logs:          *)
(* brswallow and arbiter_race (coincidences), arbiter_stall (time spent in *)
(* each state), mextpath (which unit drove a response), lifetime (one      *)
(* instruction through the data cache), linux_dcache and linux_tramp (one  *)
(* cache line).                                                            *)
(*                                                                         *)
(* The core is external: each clock shows one of the samples of the        *)
(* command line, kept in sseen.  The properties ask whether a reader of    *)
(* the counts or of the log knows what happened.                           *)
(***************************************************************************)
EXTENDS Host

LOCAL INSTANCE FiniteSetsExt
LOCAL INSTANCE SequencesExt

CONSTANTS WORD,         \* bits of a word of the Verilated tag row: 32
          kTagSize,     \* bits of a tag: 19
          kNway         \* ways: 4

ASSUME SignalAssumption == {WORD, kTagSize, kNway} \subseteq Nat \ {0}

VARIABLES sw, sseen

signalVars == <<sw, sseen>>

NoVal == -1
InOrderHarts == [i \in 1 .. NUM_HARTS |-> i - 1]
-----------------------------------------------------------------------------
(* brswallow_probe: a failing resolution broadcast while a branch is in the *)
(* branch unit.                                                             *)

IsSwallow == cmd.tool = "brswallow_probe"

SwallowStat == [armed |-> FALSE, hits |-> 0, first |-> 0, delivered |-> 0, killed |-> 0, printed |-> 0]

KillWindow(v) == v.bev /\ ~v.passed /\ v.biv

(* Faulty form: the window is opened before the last one is settled. *)
SwallowCheckLate(st, v, cyc) ==
  LET x == IF KillWindow(v)
           THEN [st EXCEPT !.armed = TRUE, !.hits = @ + 1, !.first = IF @ = 0 THEN cyc ELSE @,
                           !.printed = IF @ < cmd.maxprint THEN @ + 1 ELSE @]
           ELSE st
  IN  IF ~x.armed THEN x
      ELSE [x EXCEPT !.armed = FALSE,
                     !.delivered = IF v.bev THEN @ + 1 ELSE @, !.killed = IF v.bev THEN @ ELSE @ + 1]

(* CHECK(n) of a clock: the window of the clock before is settled by        *)
(* whether a resolution follows it, then this clock may open one.           *)
SwallowCheck(st, v, cyc) ==
  LET x == IF ~st.armed THEN st
           ELSE [st EXCEPT !.armed = FALSE,
                           !.delivered = IF v.bev THEN @ + 1 ELSE @, !.killed = IF v.bev THEN @ ELSE @ + 1]
  IN  IF ~KillWindow(v) THEN x
      ELSE [x EXCEPT !.armed = TRUE, !.hits = @ + 1, !.first = IF x.hits = 0 THEN cyc ELSE @,
                     !.printed = IF @ < cmd.maxprint THEN @ + 1 ELSE @]
-----------------------------------------------------------------------------
(* arbiter_race_probe, arbiter_stall_probe: the operation FSM of the data   *)
(* cache arbiter, 0 the idle state.                                         *)

IsRace  == cmd.tool = "arbiter_race_probe"
IsStall == cmd.tool = "arbiter_stall_probe"
OpStates == 0 .. 4

RaceStat == [overwrite |-> 0, busystate |-> 0, printed |-> 0]

(* enq: requestOut valid, not squashed, not speculative. *)
RaceCheck(st, v) ==
  IF ~v.enq THEN st
  ELSE [overwrite |-> st.overwrite + (IF v.obv THEN 1 ELSE 0),
        busystate |-> st.busystate + (IF v.state # 0 THEN 1 ELSE 0),
        printed |-> IF (v.obv \/ v.state # 0) /\ st.printed < cmd.maxprint THEN st.printed + 1 ELSE st.printed]

StallStat == [cur_state |-> 0, state_since |-> 0, max_dwell |-> [s \in OpStates |-> 0],
              max_at |-> [s \in OpStates |-> 0], squashed_while_busy |-> 0, alarms |-> <<>>]

(* The stay that ends now, kept if it is the longest in its state. *)
StallFold(st, cyc) ==
  LET d == cyc - st.state_since IN
  IF d > st.max_dwell[st.cur_state]
  THEN [st EXCEPT !.max_dwell[st.cur_state] = d, !.max_at[st.cur_state] = st.state_since]
  ELSE st

StallCheck(st, v, cyc) ==
  LET moved == v.state # st.cur_state
      alarm == ~moved /\ v.state # 0 /\ cyc - st.state_since = cmd.alarm /\ Len(st.alarms) < cmd.maxprint
      x == IF moved THEN [StallFold(st, cyc) EXCEPT !.cur_state = v.state, !.state_since = cyc]
           ELSE IF alarm THEN [st EXCEPT !.alarms = Append(@, cyc)] ELSE st
  IN  [x EXCEPT !.squashed_while_busy = IF v.state # 0 /\ v.obv /\ ~v.obb THEN @ + 1 ELSE @]

(* One clock, each core; at the end the state the FSM is left in counts. *)
PerCore(w, s) ==
  LET cyc == w.cyc + 1
      st  == [h \in Harts |-> CASE IsSwallow -> SwallowCheck(w.st[h], s[h], cyc)
                                [] IsRace    -> RaceCheck(w.st[h], s[h])
                                [] IsStall   -> StallCheck(w.st[h], s[h], cyc)]
  IN  [cyc |-> cyc, done |-> cyc = cmd.end,
       st |-> IF IsStall /\ cyc = cmd.end THEN [h \in Harts |-> StallFold(st[h], cyc)] ELSE st]
-----------------------------------------------------------------------------
(* mextpath_probe: a response is attributed to the unit that was live, with *)
(* the same ROB address, in the clock before.                               *)

IsMext == cmd.tool = "mextpath_probe"

MextInit == [cyc |-> 0, prev |-> cmd.first, nMulDrove |-> 0, nDivDrove |-> 0, nNeither |-> 0, done |-> FALSE]

mextpath(w, s) ==
  LET p   == w.prev
      mul == p.serv # NoVal /\ p.serv = s.resp
      div == p.div # NoVal /\ p.cnt = 0 /\ p.div = s.resp
      new == s.resp # NoVal /\ p.resp = NoVal
  IN  [w EXCEPT !.cyc = @ + 1, !.prev = s, !.done = (w.cyc + 1 = cmd.end),
                !.nMulDrove = IF new /\ mul /\ ~div THEN @ + 1 ELSE @,
                !.nDivDrove = IF new /\ div /\ ~mul THEN @ + 1 ELSE @,
                !.nNeither = IF new /\ ~mul /\ ~div THEN @ + 1 ELSE @]
-----------------------------------------------------------------------------
(* lifetime_probe: the registers an instruction passes through *)

IsLife == cmd.tool = "lifetime_probe"

LifeInit == [cyc |-> 0, prev |-> [r \in DOMAIN cmd.first |-> NoVal], log |-> <<>>, done |-> FALSE]

(* report: only the watched instruction, only when its valid, branch.valid  *)
(* and mask differ from those last printed for the register.                *)
Report(w, r, v) ==
  IF ~v.match \/ w.prev[r] = v.key THEN w
  ELSE [w EXCEPT !.prev[r] = v.key, !.log = Append(@, <<w.cyc, r, v.key>>)]

lifetime(w, s) ==
  LET now == [w EXCEPT !.cyc = @ + 1, !.done = (w.cyc + 1 = cmd.end)]
  IN  IF now.cyc < cmd.from THEN now
      ELSE FoldLeft(LAMBDA x, r : Report(x, r, s[r]), now, [i \in 1 .. Len(s) |-> i])
-----------------------------------------------------------------------------
(* The tag row of a set, as Verilator stores it *)

kTagSection == kTagSize + 4

(* External: way 0 in the low bits; tag, valid, dirty, shared, PLRU.  The   *)
(* bits of one way, lowest first, as a number.                              *)
WayBits(x) == x.tag + 2 ^ kTagSize * (x.valid + 2 * x.dirty + 4 * x.shared + 8 * x.plru)
RowBits(ways) == FoldFunction(+, 0, [w \in 1 .. kNway |-> WayBits(ways[w]) * 2 ^ (kTagSection * (w - 1))])
Row(ways) == [i \in 0 .. (kTagSection * kNway) \div WORD |-> (RowBits(ways) \div 2 ^ (WORD * i)) % 2 ^ WORD]

(* The field of len bits from bit lo, from one word or from two. *)
wbits(row, lo, len) ==
  LET wi  == lo \div WORD
      off == lo % WORD
      low == row[wi] \div 2 ^ off
      v   == IF off + len > WORD THEN low + row[wi + 1] * 2 ^ (WORD - off) ELSE low
  IN  v % 2 ^ (IF len >= WORD THEN WORD ELSE len)

WayState(row, w) ==
  LET b == (w - 1) * kTagSection IN
  [tag |-> wbits(row, b, kTagSize), valid |-> wbits(row, b + kTagSize, 1),
   dirty |-> wbits(row, b + kTagSize + 1, 1), shared |-> wbits(row, b + kTagSize + 2, 1),
   plru |-> wbits(row, b + kTagSize + 3, 1)]

Ways(row) == [w \in 1 .. kNway |-> WayState(row, w)]

InWindow(cyc) == cmd.from <= cyc /\ cyc < cmd.end
-----------------------------------------------------------------------------
(* linux_dcache_probe: one set, the walker, the write-back buffers *)

IsDcache == cmd.tool = "linux_dcache_probe"

DcacheInit == [cyc |-> 0, prev |-> <<>>, prev_flush |-> [state |-> NoVal, set |-> NoVal, way |-> NoVal],
               prev_wb |-> NoVal, log |-> <<>>, wlog |-> <<>>, blog |-> <<>>, done |-> FALSE]

(* The sweep is narrated at every change of its state and while it is at    *)
(* the watched set.                                                         *)
Narrated(w, f) == f # w.prev_flush /\ (f.set = cmd.set \/ f.state # w.prev_flush.state)

linux_dcache(w, s) ==
  LET now  == Ways(Row(s.ways))
      wb   == IF s.wb = cmd.set THEN 1 ELSE 0
      next == [w EXCEPT !.cyc = @ + 1, !.done = (w.cyc + 1 = cmd.end)]
  IN  IF ~InWindow(w.cyc) THEN next
      ELSE [next EXCEPT !.prev = now, !.log = IF now # w.prev THEN Append(@, now) ELSE @,
                        !.prev_flush = s.flush,
                        !.wlog = IF Narrated(w, s.flush) THEN Append(@, s.flush) ELSE @,
                        !.prev_wb = wb, !.blog = IF wb # w.prev_wb THEN Append(@, wb) ELSE @]
-----------------------------------------------------------------------------
(* linux_tramp_probe: the line at cmd.tag in the caches of every hart *)

IsTramp == cmd.tool = "linux_tramp_probe"

TrampHart == [dprev |-> <<>>, iprev |-> [valid |-> NoVal, tag |-> NoVal, word |-> NoVal],
              fill |-> NoVal, wwb |-> NoVal, active |-> NoVal,
              dlog |-> <<>>, ilog |-> <<>>, fills |-> 0, holds |-> 0, sweeps |-> <<>>]

(* Its view of a way has no PLRU bit. *)
Plainly(ways) == [w \in DOMAIN ways |-> [k \in {"tag", "valid", "dirty", "shared"} |-> ways[w][k]]]

HasLine(ways) == \E i \in DOMAIN ways : ways[i].tag = cmd.tag /\ ways[i].valid = 1
HasText(c) == c.valid = 1 /\ c.tag = cmd.tag

(* 3. the data cache: a change is narrated when the watched line is in the  *)
(* set, or was.                                                             *)
DcacheCopy(x, ways) ==
  [x EXCEPT !.dprev = ways,
            !.dlog = IF ways # x.dprev /\ (HasLine(ways) \/ HasLine(x.dprev)) THEN Append(@, ways) ELSE @]

(* 1. the instruction cache likewise. *)
IcacheLine(x, c) ==
  [x EXCEPT !.iprev = c, !.ilog = IF c # x.iprev /\ (HasText(c) \/ HasText(x.iprev)) THEN Append(@, c) ELSE @]

(* 2., 4. and 5.: a refill of the line, a write-back of it (both on a       *)
(* rising edge), the start and end of a sweep.                              *)
Staging(x, s) ==
  [x EXCEPT !.fill = s.fill.valid, !.fills = IF s.fill.valid = 1 /\ x.fill # 1 /\ s.fill.tag = cmd.tag THEN @ + 1 ELSE @,
            !.wwb = (IF s.wb = cmd.tag THEN 1 ELSE 0), !.holds = IF s.wb = cmd.tag /\ x.wwb # 1 THEN @ + 1 ELSE @,
            !.active = s.act, !.sweeps = IF s.act # x.active /\ x.active # NoVal THEN Append(@, s.act) ELSE @]

linux_tramp(w, s) ==
  LET next == [w EXCEPT !.cyc = @ + 1, !.done = (w.cyc + 1 = cmd.end)]
  IN  IF ~InWindow(w.cyc) THEN next
      ELSE [next EXCEPT !.h = [h \in Harts |->
              Staging(DcacheCopy(IcacheLine(w.h[h], s[h].ic), Plainly(Ways(Row(s[h].ways)))), s[h])]]
-----------------------------------------------------------------------------
SignalTools == {"brswallow_probe", "arbiter_race_probe", "arbiter_stall_probe", "mextpath_probe",
                "lifetime_probe", "linux_dcache_probe", "linux_tramp_probe"}

SignalInit ==
  /\ sseen = <<>>
  /\ sw = CASE IsSwallow -> [cyc |-> 0, done |-> FALSE, st |-> [h \in Harts |-> SwallowStat]]
            [] IsRace    -> [cyc |-> 0, done |-> FALSE, st |-> [h \in Harts |-> RaceStat]]
            [] IsStall   -> [cyc |-> 0, done |-> FALSE, st |-> [h \in Harts |-> StallStat]]
            [] IsMext -> MextInit [] IsLife -> LifeInit [] IsDcache -> DcacheInit
            [] IsTramp -> [cyc |-> 0, done |-> FALSE, h |-> [h \in Harts |-> TrampHart]]
            [] OTHER -> [done |-> TRUE]

(* External: a response of the M unit is of one of the units that could     *)
(* drive it in the clock before.                                            *)
MextDrivers(p) == (IF p.serv # NoVal THEN {p.serv} ELSE {})
                  \cup (IF p.div # NoVal /\ p.cnt = 0 THEN {p.div} ELSE {})
MextLegal(s) == IsMext => s.resp \in {NoVal} \cup MextDrivers(IF sseen = <<>> THEN cmd.first ELSE sseen[Len(sseen)])

SignalStep(s) ==
  CASE IsSwallow \/ IsRace \/ IsStall -> PerCore(sw, s)
    [] IsMext -> mextpath(sw, s) [] IsLife -> lifetime(sw, s)
    [] IsDcache -> linux_dcache(sw, s) [] IsTramp -> linux_tramp(sw, s)

SignalNext ==
  /\ cmd.tool \in SignalTools /\ ~sw.done
  /\ \E s \in cmd.samples :
       /\ MextLegal(s)
       /\ sw' = SignalStep(s)
       /\ sseen' = Append(sseen, s)
  /\ UNCHANGED cmd
-----------------------------------------------------------------------------
Seen(k) == sseen[k]
Count(P(_)) == Cardinality({k \in DOMAIN sseen : P(k)})

(* Every coincidence is counted once, also in back-to-back clocks, and each *)
(* kill window is settled by the clock after it and by no other             *)
(* (brswallow_probe.cpp 94-103, arbiter_race_probe.cpp 71-81).              *)
CoincidencesCounted ==
  /\ IsSwallow => \A h \in Harts :
       LET st == sw.st[h]
           hit == {k \in DOMAIN sseen : KillWindow(Seen(k)[h])}
       IN  /\ st.hits = Cardinality(hit) /\ st.first = IF hit = {} THEN 0 ELSE Min(hit)
           /\ st.delivered = Cardinality({k \in hit \ {Len(sseen)} : Seen(k + 1)[h].bev})
           /\ st.killed = Cardinality({k \in hit \ {Len(sseen)} : ~Seen(k + 1)[h].bev})
           /\ st.armed = (Len(sseen) \in hit)
  /\ IsRace => \A h \in Harts :
       /\ sw.st[h].overwrite = Count(LAMBDA k : Seen(k)[h].enq /\ Seen(k)[h].obv)
       /\ sw.st[h].busystate = Count(LAMBDA k : Seen(k)[h].enq /\ Seen(k)[h].state # 0)

(* The clocks i .. j are a longest stay in state s. *)
Stay(h, s, i, j) ==
  LET at(k) == IF k = 0 THEN 0 ELSE Seen(k)[h].state
  IN  /\ \A k \in i .. j : at(k) = s
      /\ i = 0 \/ at(i - 1) # s
      /\ j = Len(sseen) \/ at(j + 1) # s

(* The report names, per state, the longest stay in it: its length in       *)
(* clocks, one clock less for the stay the run ends in; a stay outside the  *)
(* idle state that reaches ALARM is told once, when it does                 *)
(* (arbiter_stall_probe.cpp 80-99, 119-123).                                *)
DwellExact ==
  (IsStall /\ sw.done) => \A h \in Harts :
    LET stays(s) == {p \in (0 .. Len(sseen)) \X (0 .. Len(sseen)) : p[1] <= p[2] /\ Stay(h, s, p[1], p[2])}
        dwell(p) == IF p[2] = Len(sseen) THEN p[2] - p[1] ELSE p[2] - p[1] + 1
        long == {p \in UNION {stays(s) : s \in OpStates \ {0}} : p[2] - p[1] >= cmd.alarm}
    IN  /\ \A s \in OpStates : sw.st[h].max_dwell[s] = Max({0} \cup {dwell(p) : p \in stays(s)})
        /\ ToSet(sw.st[h].alarms) = {p[1] + cmd.alarm : p \in long}
        /\ Len(sw.st[h].alarms) = Cardinality(long)

(* Two units never answer for the same ROB entry, so every response that    *)
(* does not directly follow another one is attributed, to the unit that     *)
(* drove it (mextpath_probe.cpp 91-104).                                    *)
AttributionExact ==
  IsMext =>
    LET before(k) == IF k = 1 THEN cmd.first ELSE Seen(k - 1)
        alone(k) == Seen(k).resp # NoVal /\ before(k).resp = NoVal
    IN  /\ sw.nNeither = 0
        /\ sw.nMulDrove = Count(LAMBDA k : alone(k) /\ Seen(k).resp = before(k).serv)
        /\ sw.nDivDrove = Count(LAMBDA k : alone(k) /\ Seen(k).resp = before(k).div)

(* The log alone tells, for every register, the last state in which the     *)
(* watched instruction was in it (lifetime_probe.cpp 66-77); for the set    *)
(* its tags as the cache has them, although a field may span two words of   *)
(* the row; for the sweep its state, and its place while it is at the       *)
(* watched set; for the write-back buffer whether it holds the line         *)
(* (linux_dcache_probe.cpp 46-51, 107-160).                                 *)
LogTells ==
  /\ IsLife => \A r \in DOMAIN cmd.first :
       LET of == SelectSeq(sw.log, LAMBDA e : e[2] = r)
           on == {k \in DOMAIN sseen : k >= cmd.from /\ Seen(k)[r].match}
       IN  /\ on = {} <=> of = <<>>
           /\ on # {} => of[Len(of)][3] = Seen(Max(on))[r].key
  /\ (IsDcache /\ Len(sseen) > cmd.from) =>
       LET now == Seen(Len(sseen)) IN
       /\ sw.log[Len(sw.log)] = now.ways
       /\ sw.wlog[Len(sw.wlog)].state = now.flush.state
       /\ now.flush.set = cmd.set => sw.wlog[Len(sw.wlog)] = now.flush
       /\ sw.blog[Len(sw.blog)] = IF now.wb = cmd.set THEN 1 ELSE 0

(* A reader of the log knows at every clock whether a hart has the line in  *)
(* its caches and in which state: it says so when the line comes, changes   *)
(* or goes, and what it leaves out does not concern the line                *)
(* (linux_tramp_probe.cpp 155-209).                                         *)
NarrationExact ==
  (IsTramp /\ Len(sseen) > cmd.from) => \A h \in Harts :
    LET x == sw.h[h] now == Seen(Len(sseen))[h]
        told(log, P(_)) == log # <<>> /\ P(log[Len(log)])
    IN  /\ told(x.dlog, HasLine) <=> HasLine(now.ways)
        /\ HasLine(now.ways) => x.dlog[Len(x.dlog)] = Plainly(now.ways)
        /\ told(x.ilog, HasText) <=> HasText(now.ic)
        /\ HasText(now.ic) => x.ilog[Len(x.ilog)] = now.ic
        /\ \A i \in 1 .. Len(x.sweeps) - 1 : x.sweeps[i] # x.sweeps[i + 1]

(* The probes that sample signals clock by clock reconstruct what the        *)
(* signals did: coincidences, dwell times, owners of responses, the history  *)
(* of an instruction and of a line, with nothing counted twice or missed.    *)
SignalSound ==
  CoincidencesCounted /\ DwellExact /\ AttributionExact /\ LogTells /\ NarrationExact
=============================================================================
