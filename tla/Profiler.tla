------------------------------ MODULE Profiler ------------------------------
(***************************************************************************)
(* profile.cpp and profile_quad.cpp, the benchmark harnesses, with the     *)
(* counters they report (profiler.h, profiler_quad.h).                     *)
(*                                                                         *)
(* A harness clocks the cores until hart 0 reaches the end of the          *)
(* benchmark, stops committing, or the budget is spent, and then reports.  *)
(* profile_quad also cuts the commits of every hart into blocks, to tell   *)
(* work from the spin of a barrier, and reads the benchmark's own verdict  *)
(* off the console.  The cores are external: in a clock a hart commits     *)
(* (the signal is combinational, its counters move at the next edge) or    *)
(* waits for a reason the counters split.                                  *)
(***************************************************************************)
EXTENDS Host, FiniteSetsExt

CONSTANTS BLOCK_COMMITS,    \* profiler_quad.h: commits in a block
          WORK_SPAN,        \* WORK_SPAN_BYTES
          MAX_STALL,        \* clocks of hart 0 without a commit
          LogMax            \* the bytes uart_log keeps

ASSUME ProfilerAssumption ==
  /\ BLOCK_COMMITS \in Nat \ {0}
  /\ {WORK_SPAN, MAX_STALL, LogMax} \subseteq Nat

VARIABLES
  profPc,       \* "run", "report", "exit"
  exit_code,    \* 0 pass, 1 ISA test failed, 2 timeout, 3 deadlock, 4 wrong result
  sim_cycles,
  stall_cycles,
  robOut,       \* RTL, per hart: [what, pc], what = "commit" or why not
  perf,         \* RTL, per hart: slot of perfCountersOut -> count
  win,          \* WorkWin of every hart
  uart_log,
  printed,      \* how many tokens of its verdict the guest has transmitted
  report,       \* what print_json wrote
  commitsOf     \* ghost, per hart: the commits sampled, <<pc, counters>>

(* A hart waits for one of the reasons the counters know; a program that      *)
(* prints a verdict of its own is a benchmark, which ends at a --done-pc (an  *)
(* ISA test ends at its ecall and prints none).                               *)
ASSUME ProfilerCommands ==
  \A c \in Commands :
    /\ c.tool \in {"profile", "profile_quad"} =>
         c.waits \subseteq {"load", "alu", "store", "empty"}
    /\ c.tool = "profile_quad" =>
         /\ \A h \in Harts : c.pcs[h] \subseteq Nat
         /\ c.err = "1" => c.done # {}

profVars == <<profPc, exit_code, sim_cycles, stall_cycles, robOut, perf, win,
              uart_log, printed, report, commitsOf>>

IsProfile == cmd.tool = "profile"
IsQuad    == cmd.tool = "profile_quad"

(* Why a hart did not commit, and the counters such a clock moves.  The     *)
(* other slots of the 41 are not told apart: they stay 0.                   *)
Slots == {0, 1, 29, 30, 31, 35, 36}
Moves(what) == {0} \cup CASE what = "commit" -> {1}
                          [] what = "load"   -> {29, 31}
                          [] what = "alu"    -> {29, 35}
                          [] what = "store"  -> {30, 36}
                          [] what = "empty"  -> {}

FreshWin == [lo |-> 0, hi |-> 0, n |-> 0, commits |-> 0, spin |-> 0,
             snap |-> <<>>, have_snap |-> FALSE]
-----------------------------------------------------------------------------
(* profiler.h and profiler_quad.h *)

get_core_counter(h, id) == IF id \in Slots THEN perf[h][id] ELSE 0
get_perf_counter(id) == get_core_counter(0, id)
read_counters(h) == [k \in 0 .. 40 |-> get_core_counter(h, k)]

safe_max1(v) == IF v > 0 THEN v ELSE 1

(* The metrics a report is made of: every raw field is one slot, every rate *)
(* a numerator over a denominator that is never 0.                          *)
RawSlots ==
  [cycles |-> 0, inst_retired |-> 1, branch_total |-> 2, branches_passed |-> 3,
   scheduler_stalls |-> 4, rob_stalls |-> 5, decode_ready |-> 6, decode_fired |-> 7,
   icache_stalls |-> 8, dcache_reqs |-> 9, dcache_miss |-> 10, icache_miss |-> 13,
   flush_branch |-> 24, flush_coherent |-> 25, retired_branch |-> 26,
   rob_head_not_ready |-> 29, rob_ready_blocked |-> 30, hnr_load |-> 31,
   hnr_branch |-> 32, hnr_mext |-> 33, hnr_amo |-> 34, hnr_other |-> 35,
   rnr_store_gate |-> 36, rnr_wb_gate |-> 37, rnr_load_gate |-> 38]

Derived(raw) ==
  [ipc                  |-> <<raw.inst_retired, safe_max1(raw.cycles)>>,
   branch_accuracy_pct  |-> <<raw.branches_passed, safe_max1(raw.branch_total)>>,
   icache_miss_rate_pct |-> <<raw.icache_miss, safe_max1(raw.decode_ready)>>,
   dcache_miss_rate_pct |-> <<raw.dcache_miss, safe_max1(raw.dcache_reqs)>>,
   rob_stall_pct        |-> <<raw.rob_stalls, safe_max1(raw.decode_ready)>>]

metrics_from(r) ==
  LET raw == [f \in DOMAIN RawSlots |-> r[RawSlots[f]]]
  IN  [raw |-> raw, derived |-> Derived(raw)]

compute_metrics == metrics_from([k \in 0 .. 40 |-> get_perf_counter(k)])

(* The counters at the end of the last block that looked like work; of the  *)
(* whole run if there is none.                                              *)
compute_core_metrics_work(h) ==
  IF win[h].have_snap THEN metrics_from(win[h].snap) ELSE metrics_from(read_counters(h))

(* Faulty form: a block that ends is closed, its bounds are kept. *)
SampleKeepsBounds(w, pc, counters) ==
  LET lo   == IF w.commits = 0 \/ pc < w.lo THEN pc ELSE w.lo
      hi   == IF w.commits = 0 \/ pc > w.hi THEN pc ELSE w.hi
      last == w.n + 1 >= BLOCK_COMMITS
      work == hi - lo > WORK_SPAN
  IN  [lo |-> lo, hi |-> hi, n |-> IF last THEN 0 ELSE w.n + 1, commits |-> w.commits + 1,
       spin |-> IF last /\ ~work THEN w.spin + BLOCK_COMMITS ELSE w.spin,
       snap |-> IF last /\ work THEN counters ELSE w.snap,
       have_snap |-> w.have_snap \/ (last /\ work)]

(* sample(), for a hart that commits: extend the block; at its end classify *)
(* it by the span of its PCs, and start the next one.  n = 0 stands for the *)
(* empty bounds <<~0, 0>>.                                                  *)
sample(w, pc, counters) ==
  LET lo   == IF w.n = 0 \/ pc < w.lo THEN pc ELSE w.lo
      hi   == IF w.n = 0 \/ pc > w.hi THEN pc ELSE w.hi
      last == w.n + 1 >= BLOCK_COMMITS
      work == hi - lo > WORK_SPAN
  IN  [lo |-> IF last THEN 0 ELSE lo, hi |-> IF last THEN 0 ELSE hi,
       n |-> IF last THEN 0 ELSE w.n + 1, commits |-> w.commits + 1,
       spin |-> IF last /\ ~work THEN w.spin + BLOCK_COMMITS ELSE w.spin,
       snap |-> IF last /\ work THEN counters ELSE w.snap,
       have_snap |-> w.have_snap \/ (last /\ work)]

spin_commit_pct(h) == <<win[h].spin, safe_max1(win[h].commits)>>

(* Total instructions over the cycles of the slowest hart. *)
Aggregate(raw) ==
  LET retired(h) == raw[h].inst_retired
  IN  [total_inst_retired |-> MapThenSumSet(retired, Harts),
       max_cycles         |-> Max({raw[h].cycles : h \in Harts})]

(* The JSON of the quad harness, and of the single one. *)
print_json_quad(code, bench_error) ==
  LET m == [h \in Harts |-> metrics_from(read_counters(h))]
  IN  [aggregate |-> Aggregate([h \in Harts |-> m[h].raw]),
       result    |-> [complete |-> code = 0, harness_exit |-> code, bench_error |-> bench_error],
       cores     |-> [h \in Harts |-> [raw |-> m[h].raw, derived |-> m[h].derived,
                        work |-> compute_core_metrics_work(h).raw, spin |-> spin_commit_pct(h)]]]

print_json == [cores |-> [h \in {0} |-> compute_metrics]]
-----------------------------------------------------------------------------
(* The console and the verdicts *)

(* bench_error: the number behind the last "error code: " in the log; -1 if *)
(* there is none; atoi() of anything that is no digit is 0.                 *)
BenchError ==
  LET keys == {i \in 1 .. Len(uart_log) : uart_log[i] = "key"}
      k    == CHOOSE i \in keys : \A j \in keys : j <= i
  IN  IF keys = {} THEN -1
      ELSE IF k < Len(uart_log) /\ uart_log[k + 1] = "1" THEN 1 ELSE 0

(* take_uart for the ports in order: the log is bounded, later bytes are    *)
(* dropped.                                                                 *)
TakeUart(bytes) ==
  uart_log' = SubSeq(uart_log \o bytes, 1,
                     IF Len(uart_log \o bytes) < LogMax THEN Len(uart_log \o bytes) ELSE LogMax)

(* External: the guest prints "error code: " and its digit from hart 0,     *)
(* before it reaches its last instruction; other harts may print too.       *)
Verdict == <<"key", cmd.err>>
GuestPrints ==
  \E a \in {0} \cup (IF printed < Len(Verdict) /\ cmd.err # "none" THEN {1} ELSE {}),
     b \in IF cmd.chatter THEN {<<>>, <<"x">>} ELSE {<<>>} :
    /\ printed' = printed + a
    /\ TakeUart(SubSeq(Verdict, printed + 1, printed + a) \o b)

hit_done(pc) == pc \in cmd.done

(* Completion is looked for first, the a7 = 93 exit of an ISA test (at      *)
(* cmd.ecall) only without a --done-pc; profile then knows addresses of its *)
(* own.  -1: go on.                                                         *)
ExitOf(pc) ==
  CASE hit_done(pc)                                -> 0
    [] cmd.done = {} /\ pc = cmd.ecall             -> IF cmd.gp = 1 THEN 0 ELSE 1
    [] IsProfile /\ pc = cmd.pass /\ cmd.gp = 1    -> 0
    [] IsProfile /\ pc = cmd.bench_done            -> 0
    [] OTHER                                       -> -1

ProfInit ==
  /\ profPc = "run" /\ exit_code = 2 /\ sim_cycles = 0 /\ stall_cycles = 0
  /\ robOut = [h \in Harts |-> [what |-> "empty", pc |-> 0]]
  /\ perf = [h \in Harts |-> [s \in Slots |-> 0]]
  /\ win = [h \in Harts |-> FreshWin]
  /\ uart_log = <<>> /\ printed = 0 /\ report = <<>>
  /\ commitsOf = [h \in Harts |-> <<>>]

(* External: a clock edge moves the counters of what the harts showed, and  *)
(* the harts show something new.  The last instruction of hart 0 commits    *)
(* only behind its stores to the console.                                   *)
CoresClock ==
  /\ perf' = [h \in Harts |-> [s \in Slots |->
                perf[h][s] + (IF s \in Moves(robOut[h].what) THEN 1 ELSE 0)]]
  /\ robOut' \in [Harts -> [what : {"commit"}, pc : UNION {cmd.pcs[h] : h \in Harts}]
                           \cup [what : cmd.waits, pc : {0}]]
  /\ \A h \in Harts : robOut'[h].what = "commit" => robOut'[h].pc \in cmd.pcs[h]
  /\ (robOut'[0].what = "commit" /\ hit_done(robOut'[0].pc) /\ cmd.err # "none")
       => printed = Len(Verdict)

(* The counters as get_core_counter reads them after the edge. *)
CountersNow(h) == [k \in 0 .. 40 |-> IF k \in Slots THEN perf'[h][k] ELSE 0]

(* The end of an iteration: hart 0 stalls, or its commit may end the run.   *)
Judge ==
  IF robOut'[0].what # "commit"
  THEN /\ stall_cycles' = stall_cycles + 1
       /\ exit_code' = IF stall_cycles' >= MAX_STALL THEN 3 ELSE exit_code
       /\ profPc' = IF stall_cycles' >= MAX_STALL THEN "report" ELSE "run"
  ELSE /\ stall_cycles' = 0
       /\ \E e \in {ExitOf(robOut'[0].pc)} :
            /\ exit_code' = IF e = -1 THEN exit_code ELSE e
            /\ profPc' = IF e = -1 THEN "run" ELSE "report"

ProfileClock ==
  /\ IsProfile /\ profPc = "run" /\ sim_cycles < cmd.max
  /\ sim_cycles' = sim_cycles + 1
  /\ CoresClock /\ Judge
  /\ UNCHANGED <<cmd, win, uart_log, printed, report, commitsOf>>

QuadClock ==
  /\ IsQuad /\ profPc = "run" /\ sim_cycles < cmd.max
  /\ sim_cycles' = sim_cycles + 1
  /\ CoresClock /\ GuestPrints /\ Judge
  /\ LET c(h) == robOut'[h].what = "commit" IN
     /\ win' = [h \in Harts |-> IF c(h) THEN sample(win[h], robOut'[h].pc, CountersNow(h)) ELSE win[h]]
     /\ commitsOf' = [h \in Harts |-> IF c(h)
                        THEN Append(commitsOf[h], <<robOut'[h].pc, perf'[h][0], perf'[h][1]>>)
                        ELSE commitsOf[h]]
  /\ UNCHANGED <<cmd, report>>

ProfileReport ==
  /\ IsProfile /\ (profPc = "report" \/ (profPc = "run" /\ sim_cycles >= cmd.max))
  /\ profPc' = "exit" /\ report' = print_json
  /\ UNCHANGED <<cmd, exit_code, sim_cycles, stall_cycles, robOut, perf, win, uart_log, printed, commitsOf>>

(* A run that reached its end with a nonzero error code fails with 4; once   *)
(* the file is written, so does one whose invariants raised an alarm (the    *)
(* alarms themselves are those of RobWatch).                                 *)
QuadReport ==
  \E alarm \in BOOLEAN :
    LET verified == IF exit_code = 0 /\ BenchError > 0 THEN 4 ELSE exit_code
    IN  /\ IsQuad /\ (profPc = "report" \/ (profPc = "run" /\ sim_cycles >= cmd.max))
        /\ profPc' = "exit" /\ report' = print_json_quad(verified, BenchError)
        /\ exit_code' = IF verified = 0 /\ alarm THEN 4 ELSE verified
        /\ UNCHANGED <<cmd, sim_cycles, stall_cycles, robOut, perf, win, uart_log, printed, commitsOf>>

ProfNext == ProfileClock \/ QuadClock \/ ProfileReport \/ QuadReport

ProfSpec == cmd \in Commands /\ ProfInit /\ [][ProfNext]_<<cmd, profVars>>
-----------------------------------------------------------------------------
(* The commits of a log's block b, the blocks that are full, and those of    *)
(* them whose PCs span more than WORK_SPAN.                                  *)
Block(b) == (b - 1) * BLOCK_COMMITS + 1 .. b * BLOCK_COMMITS
FullBlocks(log) == 1 .. Len(log) \div BLOCK_COMMITS
Wide(log, b) == \E i, j \in Block(b) : log[i][1] - log[j][1] > WORK_SPAN
WorkBlocks(log) == {b \in FullBlocks(log) : Wide(log, b)}

(* The work region that profile_quad reports is the counters as they stood  *)
(* at the end of the last block of BLOCK_COMMITS commits, counted from the  *)
(* hart's first, whose PCs span more than WORK_SPAN, or those of the whole  *)
(* run when no block does; and the share of spin is that of the other full  *)
(* blocks (profiler_quad.h 58-86, 332-341).                                 *)
WorkExact ==
  (IsQuad /\ profPc = "exit") => \A h \in Harts :
    /\ report.cores[h].spin[1] = BLOCK_COMMITS * Cardinality(FullBlocks(commitsOf[h]) \ WorkBlocks(commitsOf[h]))
    /\ WorkBlocks(commitsOf[h]) = {} => report.cores[h].work = report.cores[h].raw
    /\ \A b \in WorkBlocks(commitsOf[h]) :
         (\A y \in WorkBlocks(commitsOf[h]) : y <= b) =>
           /\ report.cores[h].work.cycles = commitsOf[h][b * BLOCK_COMMITS][2]
           /\ report.cores[h].work.inst_retired = commitsOf[h][b * BLOCK_COMMITS][3]

(* The stalls of a report are the sums of their classes. *)
Splits(raw) ==
  /\ raw.rob_head_not_ready
       = raw.hnr_load + raw.hnr_branch + raw.hnr_mext + raw.hnr_amo + raw.hnr_other
  /\ raw.rob_ready_blocked = raw.rnr_store_gate + raw.rnr_wb_gate + raw.rnr_load_gate
  /\ raw.inst_retired + raw.rob_head_not_ready + raw.rob_ready_blocked <= raw.cycles

(* In what is reported, whole run and work region, the head-not-ready       *)
(* clocks are exactly split into their classes, the ready-but-blocked ones  *)
(* into their gates, and no clock is counted for two of retirement, waiting *)
(* and blocking (the counters are read in one clock, each from its own      *)
(* slot: profiler.h 177-275, profiler_quad.h 263-330).                      *)
SplitsAddUp ==
  (IsProfile \/ IsQuad) /\ profPc = "exit" => \A h \in DOMAIN report.cores :
    Splits(report.cores[h].raw) /\ (IsQuad => Splits(report.cores[h].work))

(* A benchmark that found its own result wrong never passes: reaching the   *)
(* done PC is not enough (profile_quad.cpp:131, 194-205).  Needed: nobody   *)
(* else writes to the console between the two tokens, and the log has not   *)
(* dropped bytes.                                                           *)
VerifySound ==
  (IsQuad /\ profPc = "exit" /\ exit_code = 0 /\ ~cmd.chatter /\ Len(uart_log) < LogMax)
    => cmd.err # "1"

(* A profile accounts for every cycle of the measured work once, from the    *)
(* first commit of a block to its last, and is reported only for a run whose *)
(* result was checked.                                                       *)
ProfileSound == WorkExact /\ SplitsAddUp /\ VerifySound
=============================================================================
