------------------------------- MODULE MCHost -------------------------------
(***************************************************************************)
(* The host programs and the guest programs for TLC: every command line of *)
(* MCCommands is started, each behaviour belongs to one of them.           *)
(***************************************************************************)
EXTENDS Emulator, LockStep, Console, Profiler, RobWatch, WedgeWatch, CrossCall, SignalWatch, Bringup, Demos, Terminal

Pair(p, s) == [h \in Harts |-> IF h = 0 THEN p ELSE s]

(* The emulator: contended atomics, atomics under interrupts, IPIs to a     *)
(* sleeping hart, the timer with synchronous faults, writes of mtime, the   *)
(* console.                                                                 *)
Images ==
  {Pair({"lr.w", "sc.w", "store"}, {"lr.w", "sc.w"}),
   Pair({"store", "msip"}, {"lr.w", "sc.w", "mie"}),
   Pair({"lr.d", "sc.d"}, {"store"}),
   Pair({"msip"}, {"mie", "wfi", "mret", "mip"}),
   Pair({"mtimecmp", "wfi", "mie", "ILL_INS"}, {}),
   Pair({"ILL_INS", "EBREAK", "ecall", "mret"}, {"nop"}),
   Pair({"mtime", "nop"}, {}),
   Pair({"msip", "status", "rx"}, {"status", "rx", "exit"})}

EmulatorRuns == [tool : {"emulator"}, image : Images]

(* Lock-step: the halves a of one double word, small operands. *)
A(k, a) == [k |-> k, a |-> a]
W(k, a, v) == [k |-> k, a |-> a, v |-> v]
Amo(f, a, v) == [k |-> "amo", a |-> a, v |-> v, f |-> f]
K(k) == [k |-> k]

(* One writer and a reader; two writers; an interrupt between racing        *)
(* accesses; time, WFI and a poll of MSIP.                                  *)
LinuxPrograms ==
  {Pair(<<A("lr", 0), W("sc", 0, 1), W("store", 1, 2), A("lr", 0), W("sc", 0, 3), K("add")>>,
        <<A("load", 0), K("add"), A("lr", 1), K("add")>>),
   Pair(<<Amo("add", 0, 3), Amo("add", 0, 2), Amo("min", 1, 2), K("add")>>,
        <<A("load", 0), K("add"), A("load", 1), K("add")>>),
   Pair(<<A("lr", 0), W("sc", 0, 1), Amo("max", 1, 3), K("add")>>,
        <<Amo("swap", 0, 2), W("store", 1, 1), A("lr", 0), W("sc", 0, 3), K("add")>>),
   Pair(<<K("add"), K("csrOn"), A("lr", 0), W("sc", 0, 2), K("add")>>,
        <<K("wfi"), K("add"), K("csrOn"), Amo("maxu", 0, 1), A("load", 0), K("add")>>),
   Pair(<<A("mtime", 0), K("add"), K("wfi"), K("add"), K("poll"), K("add")>>,
        <<K("wfi"), A("mtime", 0), K("poll"), A("load", 0), K("add")>>)}

LockRuns ==
  [tool : {"lockstep_linux"}, prog : LinuxPrograms, done : {{}}, defect : {FALSE}]
  \cup [tool : {"lockstep_linux"}, done : {{}}, defect : {TRUE},
        prog : {Pair(<<A("load", 0), K("add"), K("add")>>, <<W("store", 0, 1)>>)}]
  \cup [tool : {"lockstep_quad"}, done : {{3}}, defect : {FALSE},
        prog : {Pair(<<A("lr", 0), W("sc", 0, 1), K("add")>>, <<Amo("xor", 0, 1), K("add")>>)}]
  \cup [tool : {"lockstep"}, done : {{4}}, defect : {FALSE},
        prog : {Pair(<<Amo("or", 0, 1), A("load", 0), K("add"), K("add")>>, <<>>)}]
  \cup [tool : {"lockstep_isa"}, done : {{}}, defect : {FALSE},
        prog : {Pair(<<K("add"), K("a7"), K("add")>>, <<>>),
                Pair(<<Amo("and", 0, 1), K("a7"), K("add")>>, <<>>)}]

(* linux_sim: keystrokes against commits and signals; heartbeats; kills      *)
(* around checkpoints.  uartrx_test at two service rates.                    *)
LinuxSim(debug, every, keep, max, keys, hb, pc, kill) ==
  [tool |-> "linux_sim", debug |-> debug, every |-> every, keep |-> keep, max |-> max,
   keys |-> keys, hb |-> hb, pcs |-> pc, signal |-> ~debug, kills |-> kill]

ConsoleRuns ==
  {LinuxSim(FALSE, 0, 0, 8, 2, Never, {1}, 0),
   LinuxSim(TRUE, 0, 0, 5, 0, 2, {1, 2}, 0),
   LinuxSim(TRUE, 0, 0, 5, 0, 2, {1, 4}, 0),
   LinuxSim(TRUE, 2, 1, 5, 2, Never, {1}, 2),
   LinuxSim(TRUE, 1, 2, 4, 0, Never, {1}, 2),
   LinuxSim(TRUE, 2, 0, 4, 0, Never, {1}, 1)}
  \cup [tool : {"uartrx_test"}, text : {2}, poll : {1, 2}, max : {16}]

(* The profilers: a benchmark that finishes and reports itself good or bad,  *)
(* amid chatter of another hart; one whose harts spin and wait; the single   *)
(* core profiler.                                                            *)
Profile(tool, done, err, chatter, at, waits, max) ==
  [tool |-> tool, done |-> done, err |-> err, chatter |-> chatter, pcs |-> at, waits |-> waits,
   max |-> max, ecall |-> 8, gp |-> 1, bench_done |-> 7, pass |-> 6]

ProfileRuns ==
  {Profile("profile_quad", {9}, "1", FALSE, Pair({1, 9}, {1}), {"empty"}, 5),
   Profile("profile_quad", {9}, "0", TRUE, Pair({1, 9}, {1}), {"empty"}, 4),
   Profile("profile_quad", {}, "none", FALSE, Pair({1}, {1, 2, 4}), {"load"}, 4),
   Profile("profile", {}, "none", FALSE, Pair({6, 7, 8}, {1}), {"load", "alu", "store"}, 3)}

(* The observers of the reorder buffer: ordinary code, branches that roll    *)
(* back, and the same with a rollback that leaves a stale flag behind.       *)
Watch(tool, defect, kinds, max, stuck) ==
  [tool |-> tool, defect |-> defect, kinds |-> kinds, max |-> max, stuck |-> stuck]

WatchRuns ==
  {Watch("linux_invariants_probe", FALSE, {"op", "br"}, 5, 0),
   Watch("linux_invariants_probe", FALSE, {"op", "done"}, 7, 0),
   Watch("linux_invariants_probe", FALSE, {"br"}, 8, 0),
   Watch("linux_invariants_probe", TRUE, {"op", "br"}, 4, 0),
   Watch("linux_invariants_probe", TRUE, {"br"}, 5, 0),
   Watch("robmodify_probe", TRUE, {"br", "done"}, 5, 0),
   Watch("robhead_probe", FALSE, {"op"}, 6, 1)}

(* The watchers of a wedge: what they sample at each clock, and when they    *)
(* give up.                                                                  *)
Gate(pc, req, in, sp, gate, cf, ptr) ==
  [pc |-> pc, req |-> req, inFull |-> in, spFull |-> sp, gate |-> gate, cf |-> cf, ptr |-> ptr]
GateIdle == Gate(0, "none", FALSE, FALSE, FALSE, FALSE, 0)
GateRun(h, stall, end, samples) ==
  [tool |-> "linux_storegate_probe", hart |-> h, stall |-> stall, end |-> end, first |-> Pair(GateIdle, GateIdle),
   samples |-> {IF h = 0 THEN Pair(s, GateIdle) ELSE Pair(GateIdle, s) : s \in samples}]
Jam(pc, bev, rd, m, div, n) == [pc |-> pc, bev |-> bev, rd |-> rd, mReady |-> m, div |-> div, counter |-> n]
JamRun == [tool |-> "linux_robjam_probe", hart |-> 0, start |-> 7, stall |-> 3, end |-> 6,
           first |-> Pair(Jam(1, -1, 0, TRUE, FALSE, 0), 0),
           samples |-> {Pair(Jam(1, -1, 0, TRUE, FALSE, 0), 0), Pair(Jam(1, 0, 0, FALSE, FALSE, 0), 0),
                        Pair(Jam(2, 1, 0, FALSE, TRUE, 0), 0), Pair(Jam(2, 0, 1, FALSE, TRUE, 1), 0)}]
InjRun == [tool |-> "injwedge_probe", core |-> 1, stall |-> 2, end |-> 6, first |-> [bcnt |-> 0, inj |-> 0],
           samples |-> {[bcnt |-> 0, inj |-> 0], [bcnt |-> 1, inj |-> 1], [bcnt |-> 0, inj |-> 1],
                        [bcnt |-> 0, inj |-> 2]}]
Pcs(a, b) == Pair([pc |-> a], [pc |-> b])
SeqRun(stall, after, end) ==
  [tool |-> "seqlock_wedge_trace", stall |-> stall, window |-> after, end |-> end, stride |-> 2,
   first |-> Pcs(1, 1), samples |-> {Pcs(a, b) : a, b \in {1, 2}}]
TraceRun(stall, after, end) ==
  [tool |-> "linux_sim_trace", stall |-> stall, window |-> after, end |-> end, gap |-> 2, watched |-> {1},
   first |-> [pc |-> Pair(2, 2), gap |-> 0],
   samples |-> {[pc |-> Pair(a, b), gap |-> g] : a, b \in {1, 2}, g \in {1, 2}} \cup {[pc |-> Pair(2, 2), gap |-> 0]}]
MsipRun == [tool |-> "ipitmr_wedge_probe", stall |-> 2, end |-> 6, first |-> Pair(0, 0),
            samples |-> {Pair(a, b) : a, b \in 0 .. 1}]
FsmRun(force) == [tool |-> "linux_injfsm_probe", stall |-> 2, end |-> 5, start |-> 5, force |-> force,
                  first |-> Pair([msip |-> 0, br |-> 0], [msip |-> 0, br |-> 0]),
                  samples |-> {Pair([msip |-> s[1], br |-> s[2]], [msip |-> s[3], br |-> s[2]]) :
                    s \in {<<0, 0, 0>>, <<1, 0, 0>>, <<1, 1, 0>>, <<1, 1, 1>>, <<0, 1, 1>>}}]
Loop(pc, biv, bne, rs1, bev, ptr) ==
  [pc |-> pc, biv |-> biv, bne |-> bne, rs1 |-> rs1, bev |-> bev, ptr |-> ptr]
LoopSamples ==
  {Loop(1, FALSE, FALSE, "low", FALSE, 0), Loop(2, FALSE, TRUE, "past", TRUE, 0), Loop(1, TRUE, TRUE, "past", FALSE, 1),
   Loop(2, TRUE, TRUE, "low", TRUE, 1), Loop(3, TRUE, FALSE, "past", FALSE, 1), Loop(2, TRUE, TRUE, "wild", FALSE, 1)}
LoopRuns == [tool : {"ipitmr_loop_probe", "rob_integrity_probe"}, end : {4}, keep : {3}, region : {{1, 2}},
             first : {Loop(0, FALSE, FALSE, "low", FALSE, 9)}, samples : {LoopSamples}]
Tty(t, m, c) == [tx |-> t, msip |-> m, mcause |-> c]
Quiet == Tty("none", 0, "none")
HangRuns ==
  [tool : {"ipi_hang_probe"}, end : {5}, from : {2}, step : {2}, first : {Pair(Quiet, Quiet)},
   samples : {{Pair(Quiet, Quiet), Pair(Tty("a", 0, "none"), Quiet), Pair(Tty("a", 0, "none"), Tty("a", 0, "none")),
               Pair(Tty("nl", 0, "none"), Tty("a", 0, "none")), Pair(Tty("cr", 1, "none"), Quiet),
               Pair(Quiet, Tty("none", 1, "none")), Pair(Quiet, Tty("none", 0, "msi"))}}]
  \cup [tool : {"tty_scan_probe"}, end : {8}, from : {1}, step : {3}, first : {Pair(Quiet, Quiet)},
        samples : {{Pair(Quiet, Quiet), Pair(Tty("a", 0, "none"), Quiet), Pair(Tty("nl", 0, "none"), Quiet)}}]
DumpRun == [tool |-> "wedge_dump_probe", end |-> 9, from |-> 2, step |-> 1, dense |-> 4, coarse |-> 3,
            first |-> 0, samples |-> {0}]
WedgeRuns ==
  {GateRun(0, 2, 5, {Gate(1, "none", FALSE, FALSE, FALSE, FALSE, 0), Gate(1, "store", TRUE, FALSE, TRUE, TRUE, 1),
                     Gate(2, "load", TRUE, FALSE, FALSE, FALSE, 1), Gate(2, "load", TRUE, TRUE, FALSE, FALSE, 1),
                     Gate(2, "store", FALSE, TRUE, TRUE, FALSE, 0), Gate(1, "amo", TRUE, TRUE, FALSE, TRUE, 1)}),
   GateRun(1, 2, 5, {Gate(1, "store", FALSE, FALSE, FALSE, TRUE, 0), Gate(1, "none", FALSE, FALSE, TRUE, FALSE, 0),
                     Gate(2, "load", FALSE, FALSE, FALSE, FALSE, 1)}),
   JamRun, InjRun, SeqRun(2, 2, 5), SeqRun(1, 3, 5), TraceRun(3, 2, 4), MsipRun, FsmRun(-1), FsmRun(0), DumpRun}
  \cup LoopRuns \cup HangRuns

(* Cross calls: a healthy machine and one that loses a push, an unlock or    *)
(* returns a stale flag; callers that wait and callers that do not; kills    *)
(* around the checkpoints of the IPI probe.                                  *)
Cross(tool, send, rounds, wait, defect, pace, watch, run) ==
  [tool |-> tool, send |-> send, rounds |-> rounds, wait |-> wait, defect |-> defect, pace |-> pace,
   watch |-> watch, run |-> run, hang |-> 3, tail |-> 3, keep |-> 2, every |-> 3, report |-> 4, kills |-> 0,
   opens |-> {TRUE}, never |-> 99]

CrossRuns ==
  {Cross("linux_llist_probe", {0}, 2, FALSE, "none", {"stall"}, -1, 12),
   Cross("linux_llist_probe", {0}, 2, FALSE, "push", {}, -1, 18),
   Cross("linux_llist_probe", {0}, 1, FALSE, "push", {}, -1, 12),
   Cross("linux_llist_probe", {0}, 1, TRUE, "unlock", {"hold"}, 0, 13),
   Cross("linux_llist_probe", {0, 1}, 1, TRUE, "none", {}, 1, 18),
   Cross("linux_csd_probe", {1}, 1, TRUE, "none", {"stall"}, -1, 12),
   Cross("linux_csd_probe", {1}, 1, TRUE, "none", {}, -1, 20),
   Cross("linux_csd_probe", {1}, 1, TRUE, "stale", {}, -1, 14),
   [Cross("linux_ipi_probe", {0, 1}, 1, FALSE, "none", {}, -1, 11) EXCEPT !.kills = 2],
   [Cross("linux_ipi_probe", {0, 1}, 1, FALSE, "none", {}, -1, 11) EXCEPT !.kills = 1, !.opens = BOOLEAN, !.keep = 1]}

(* Signals: branches, the arbiter's FSM, the M unit, an instruction in two   *)
(* registers, a set of two ways and a line in the caches of two harts.       *)
Br(e, p, i) == [bev |-> e, passed |-> p, biv |-> i]
Oper(state, obv, obb, enq) == [state |-> state, obv |-> obv, obb |-> obb, enq |-> enq]
Mx(resp, serv, div, cnt) == [resp |-> resp, serv |-> serv, div |-> div, cnt |-> cnt]
In(match, key) == [match |-> match, key |-> key]
Way(t, v, d, s, p) ==
  [tag |-> t, valid |-> v, dirty |-> d, shared |-> s, plru |-> p]
SetOf(a, b, fst, set, way, wb) == [ways |-> <<a, b>>, flush |-> [state |-> fst, set |-> set, way |-> way], wb |-> wb]
Copy(a, b, v, tag, word, fill, wb, act) ==
  [ways |-> <<a, b>>, ic |-> [valid |-> v, tag |-> tag, word |-> word], fill |-> fill, wb |-> wb, act |-> act]
NoFill == [valid |-> 0, tag |-> 0]
QuietCopy == Copy(Way(3, 1, 0, 0, 0), Way(0, 0, 0, 0, 0), 0, 0, 0, NoFill, 0, 0)

SignalRuns ==
  {[tool |-> "brswallow_probe", end |-> 6, maxprint |-> 2,
    samples |-> {Pair(s, Br(FALSE, FALSE, FALSE)) : s \in {Br(FALSE, FALSE, TRUE), Br(TRUE, FALSE, TRUE),
                                                        Br(TRUE, TRUE, TRUE), Br(TRUE, FALSE, FALSE)}}],
   [tool |-> "arbiter_race_probe", end |-> 4, maxprint |-> 2,
    samples |-> {Pair(a, b) : a \in {Oper(0, FALSE, TRUE, TRUE), Oper(3, TRUE, TRUE, TRUE), Oper(1, FALSE, TRUE, TRUE)},
                              b \in {Oper(0, TRUE, FALSE, TRUE), Oper(2, TRUE, TRUE, FALSE)}}],
   [tool |-> "arbiter_stall_probe", end |-> 7, alarm |-> 2, maxprint |-> 4,
    samples |-> {Pair(a, Oper(0, FALSE, TRUE, FALSE)) : a \in {Oper(0, FALSE, TRUE, FALSE), Oper(3, TRUE, FALSE, FALSE),
                                                          Oper(1, TRUE, TRUE, FALSE)}}],
   [tool |-> "mextpath_probe", end |-> 4, first |-> Mx(-1, -1, 4, 1),
    samples |-> {Mx(r, s, d[1], d[2]) : r \in {-1, 1, 4}, s \in {-1, 1}, d \in {<<-1, 0>>, <<4, 0>>, <<4, 1>>}}],
   [tool |-> "lifetime_probe", end |-> 5, from |-> 2, first |-> <<0, 0>>,
    samples |-> {<<a, b>> : a \in {In(TRUE, 1), In(TRUE, 0), In(FALSE, 1)}, b \in {In(FALSE, 0), In(TRUE, 1)}}],
   [tool |-> "linux_dcache_probe", end |-> 5, from |-> 1, set |-> 1,
    samples |-> {SetOf(Way(2, 1, 0, 1, 0), Way(3, 1, 1, 0, 0), 1, 0, 0, 0), SetOf(Way(1, 0, 1, 0, 1), Way(3, 1, 1, 0, 0), 1, 1, 0, 1),
                 SetOf(Way(3, 1, 1, 1, 1), Way(2, 0, 0, 1, 1), 1, 1, 1, 1), SetOf(Way(3, 1, 1, 1, 1), Way(1, 1, 1, 0, 1), 1, 2, 0, 2),
                 SetOf(Way(2, 1, 0, 1, 0), Way(3, 1, 1, 0, 0), 0, 1, 1, 0)}],
   [tool |-> "linux_tramp_probe", end |-> 5, from |-> 1, tag |-> 2,
    samples |-> {Pair(s, QuietCopy) : s \in
      {QuietCopy, Copy(Way(2, 1, 0, 0, 0), Way(1, 1, 0, 0, 1), 1, 2, 0, [valid |-> 1, tag |-> 2], 0, 1),
       Copy(Way(2, 1, 1, 0, 1), Way(1, 1, 0, 0, 0), 1, 2, 5, NoFill, 2, 1),
       Copy(Way(2, 0, 1, 0, 0), Way(1, 1, 0, 0, 0), 1, 3, 5, [valid |-> 1, tag |-> 3], 2, 0),
       Copy(Way(3, 1, 1, 0, 0), Way(2, 1, 0, 1, 1), 0, 2, 5, NoFill, 1, 0)}}]}

(* Loading an image, whole or with a word lost; two segments that meet or    *)
(* overlap; the fire demo's frames and arguments.  The second word of an     *)
(* image is zero.                                                            *)
Bytes(n) == [i \in 1 .. n |-> IF i \in 4 .. 6 THEN 0 ELSE i]
Seg(b, n, v) == [base |-> b, bytes |-> [i \in 1 .. n |-> v]]
BringRuns ==
  [tool : {"image_load_probe"}, image : {Bytes(n) : n \in 0 .. 7}, fault : BOOLEAN]
  \cup [tool : {"rtl_model"}, segments : {<<Seg(0, n, 1), Seg(4, m, 2), Seg(6, 2, 3)>> : n \in 1 .. 5, m \in 1 .. 6}]
  \cup [tool : {"fire"}, image : {Bytes(3)}, fault : {FALSE}, timeout : {7}, pcs : {{1}}, bytes : {{"ESC", "[", "H"}},
        argv : {<<"fire", "--frames", "2">>, <<"fire", "--frames", "1">>}]
  \cup [tool : {"fire"}, image : {Bytes(3)}, fault : {FALSE}, timeout : {4}, pcs : {{1, 9}}, bytes : {{"ESC", "[", "H"}},
        argv : {<<"fire", "--done-pc", "9", "--frames", "1", "--done-pc", "8">>, <<"fire">>}]

(* The demos: a small wireframe, a small solid, a fire of 2 x 3 cells.       *)
MCSintab == <<0, 6, 8, 6, 0, -6, -8, -6>>
Shape == <<<<-8, -8, -8>>, <<8, -8, -8>>, <<8, 8, 8>>, <<-8, 8, 0>>>>

DemoRuns ==
  {[tool |-> "mt-cube", obj |-> SubSeq(Shape, 1, 3), edges |-> << <<0, 1>>, <<1, 2>> >>, focal |-> 6],
   [tool |-> "mt-solid", obj |-> Shape, focal |-> 6,
    tris |-> << <<0, 2, 1>>, <<0, 3, 2>>, <<0, 1, 3>> >>,
    normals |-> <<<<0, 0, -8>>, <<0, 0, 8>>, <<0, 8, 0>>>>,
    cols |-> <<220, 70, 200>>, light |-> <<3, 3, -6>>],
   [tool |-> "mt-fire", w |-> 2, h |-> 3, frames |-> 2]}

(* The terminal: every int, every byte, all small frames in three colours,   *)
(* lines from and to every point in and around a small screen.               *)
Colours == {Black, <<80, 1>>, <<48, 2>>}
Text(format, args) == [tool |-> "printf", format |-> format, args |-> args, strings |-> << <<65, 66>> >>]

TerminalRuns ==
  {Text(<<Percent, CharD, 0>>, <<n>>) : n \in -INT_MAX .. INT_MAX}
  \cup {Text(<<27, Percent, CharS, 59, Percent, CharD, Percent, Percent, 72, 0>>, <<1, 5>>)}
  \cup [tool : {"g3d_put_u8"}, n : 0 .. 255]
  \cup [tool : {"g3d_present"}, frame : {<<r>> : r \in [1 .. 3 -> Colours \X Colours]}]
  \cup [tool : PictureTools, frame : [1 .. 2 -> [1 .. 2 -> (Colours \ {Black}) \X Colours]]]
  \cup [tool : {"GL_line"}, from : (-2 .. 4) \X (-2 .. 4), to : (-2 .. 4) \X (-2 .. 4)]
  \cup [tool : {"g3d_line"}, from : {<<0, 0>>}, to : (-5 .. 5) \X (-5 .. 5)]

MCCommands ==
  UNION {EmulatorRuns, LockRuns, ConsoleRuns, ProfileRuns, WatchRuns, WedgeRuns, CrossRuns, BringRuns,
         SignalRuns, DemoRuns, TerminalRuns}

HostInit ==
  /\ cmd \in Commands
  /\ EmuInit /\ LockInit /\ ConsoleInit /\ ProfInit /\ WatchInit /\ WedgeInit /\ CrossInit /\ SignalInit /\ BringInit
  /\ DemoInit /\ TerminalInit

HostNext ==
  \/ EmuNext /\ UNCHANGED <<signalVars, crossVars, lockVars, conVars, profVars, watchVars, wedgeVars, bringVars, demoVars, tty>>
  \/ LockNext /\ UNCHANGED <<signalVars, crossVars, emuVars, conVars, profVars, watchVars, wedgeVars, bringVars, demoVars, tty>>
  \/ ConsoleNext /\ UNCHANGED <<signalVars, crossVars, emuVars, lockVars, profVars, watchVars, wedgeVars, bringVars, demoVars, tty>>
  \/ ProfNext /\ UNCHANGED <<signalVars, crossVars, emuVars, lockVars, conVars, watchVars, wedgeVars, bringVars, demoVars, tty>>
  \/ WatchNext /\ UNCHANGED <<signalVars, crossVars, emuVars, lockVars, conVars, profVars, wedgeVars, bringVars, demoVars, tty>>
  \/ SignalNext /\ UNCHANGED <<crossVars, emuVars, lockVars, conVars, profVars, watchVars, wedgeVars, bringVars, demoVars, tty>>
  \/ CrossNext /\ UNCHANGED <<signalVars, emuVars, lockVars, conVars, profVars, watchVars, wedgeVars, bringVars, demoVars, tty>>
  \/ WedgeNext /\ UNCHANGED <<signalVars, crossVars, emuVars, lockVars, conVars, profVars, watchVars, bringVars, demoVars, tty>>
  \/ BringNext /\ UNCHANGED <<signalVars, crossVars, emuVars, lockVars, conVars, profVars, watchVars, wedgeVars, demoVars, tty>>
  \/ DemoNext /\ UNCHANGED <<signalVars, crossVars, emuVars, lockVars, conVars, profVars, watchVars, wedgeVars, bringVars, tty>>
  \/ TerminalNext /\ UNCHANGED <<signalVars, crossVars, emuVars, lockVars, conVars, profVars, watchVars, wedgeVars, bringVars, demoVars>>

hostVars == <<cmd, emuVars, lockVars, conVars, profVars, watchVars, wedgeVars, crossVars, signalVars, bringVars, demoVars, tty>>

HostSpec ==
  /\ HostInit /\ [][HostNext]_hostVars
  /\ WF_emuVars(EmuNext)
  /\ \A h \in Harts : WF_demoVars(DemoStep(h))
=============================================================================
