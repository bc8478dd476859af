----------------------------- MODULE CrossCall -----------------------------
(***************************************************************************)
(* Three probes of Linux's cross calls: linux_llist_probe keeps a ledger   *)
(* of the pushes to and pops from the call queues, linux_csd_probe decides *)
(* why a waiting hart does not get its lock back, linux_ipi_probe counts   *)
(* the writes of MSIP and takes checkpoints.                               *)
(*                                                                         *)
(* The guest is external: a hart locks its csd, pushes it with LR/SC on    *)
(* the peer's queue, raises MSIP and waits in csd_lock_wait; the peer's    *)
(* handler takes the chain with an AMOSWAP and unlocks.  An atomic acts    *)
(* when it is executed, the probes see it when the instruction after it    *)
(* commits.  DRAM follows the coherent memory when a line is written back. *)
(***************************************************************************)
EXTENDS Host

VARIABLES xg,           \* the guest
          xw,           \* the probe
          xseen         \* what really happened, for the properties

crossVars == <<xg, xw, xseen>>

Unset == -1

IsLlist == cmd.tool = "linux_llist_probe"
IsCsd   == cmd.tool = "linux_csd_probe"
IsIpi   == cmd.tool = "linux_ipi_probe"
CrossTools == {"linux_llist_probe", "linux_csd_probe", "linux_ipi_probe"}

(* The guest runs on two harts; the thresholds are unsigned, and the        *)
(* intervals of the checkpoints and reports are divided by.                 *)
ASSUME CrossCommands ==
  \A c \in Commands : c.tool \in CrossTools =>
    /\ NUM_HARTS = 2 /\ c.send \subseteq {0, 1} /\ c.watch \in {Unset, 0, 1}
    /\ {c.hang, c.tail, c.keep, c.run} \subseteq Nat /\ {c.every, c.report} \subseteq Nat \ {0}
-----------------------------------------------------------------------------
(* The guest.  cmd.send: the harts that call; cmd.defect: a fault of the    *)
(* machine ("push": a successful SC stores nothing; "unlock": the unlocking *)
(* store is lost; "stale": a reload keeps returning the first value).       *)

Peer(h) == 1 - h
CallHandler == {"handle", "flush", "popDone", "swap", "unlock", "ret"}
WaitLoop  == {"spin1", "spin2"}

GuestInit ==
  [at |-> [h \in Harts |-> "work"], ret |-> [h \in Harts |-> "work"],
   msip |-> [h \in Harts |-> 0], res |-> [h \in Harts |-> FALSE], ok |-> [h \in Harts |-> FALSE],
   head |-> [h \in Harts |-> {}], chain |-> [h \in Harts |-> {}],
   lock |-> [h \in Harts |-> 0], val |-> [h \in Harts |-> Unset],
   dram |-> [h \in Harts |-> 0], round |-> [h \in Harts |-> 0],
   fired |-> [h \in Harts |-> FALSE], pc |-> [h \in Harts |-> "none"],
   pulse |-> [h \in Harts |-> Unset], sent |-> [h \in Harts |-> 0],
   done |-> [h \in Harts |-> <<>>]]

(* The fault of a push hits the first call only. *)
Lost(g, h) == cmd.defect = "push" /\ g.round[h] = 1

(* llist_add: the node is named by its sender and round. *)
StoreCond(g, h) ==
  LET q == Peer(h) IN
  IF ~g.res[h] THEN [g EXCEPT !.ok[h] = FALSE]
  ELSE [g EXCEPT !.ok[h] = TRUE, !.res[h] = FALSE,
                 !.head[q] = IF Lost(g, h) THEN @ ELSE @ \cup {<<h, g.round[h]>>},
                 !.done[q] = Append(@, IF Lost(g, h) THEN "lost" ELSE "push")]

Swap(g, h) ==
  [g EXCEPT !.chain[h] = g.head[h], !.head[h] = {}, !.res[Peer(h)] = FALSE,
            !.done[h] = Append(@, IF g.head[h] = {} THEN "null" ELSE "pop")]

Reload(g, h) ==
  [g EXCEPT !.val[h] = IF cmd.defect = "stale" /\ @ # Unset THEN @ ELSE g.lock[h]]

Unlock(g, h) ==
  [g EXCEPT !.lock = [k \in Harts |-> IF (\E n \in g.chain[h] : n[1] = k) /\ cmd.defect # "unlock"
                                      THEN 0 ELSE @[k]]]

(* What the instruction at label l does to memory and registers. *)
Effect(g, h, l) ==
  CASE l = "lock"   -> [g EXCEPT !.lock[h] = 1, !.val[h] = Unset]
    [] l = "lr"     -> [g EXCEPT !.res[h] = TRUE]
    [] l = "sc"     -> StoreCond(g, h)
    [] l = "ipi"    -> [g EXCEPT !.msip[Peer(h)] = 1, !.pulse[h] = Peer(h), !.sent[Peer(h)] = @ + 1]
    [] l = "spin1"  -> Reload(g, h)
    [] l = "handle" -> [g EXCEPT !.msip[h] = 0, !.pulse[h] = h, !.sent[h] = @ + 1]
    [] l = "swap"   -> Swap(g, h)
    [] l = "unlock" -> Unlock(g, h)
    [] OTHER        -> g

After(g, h, l) ==
  CASE l = "work"     -> IF h \in cmd.send /\ g.round[h] < cmd.rounds THEN "lock" ELSE "work"
    [] l = "lock"     -> "lr"
    [] l = "lr"       -> "sc"
    [] l = "sc"       -> "pushDone"
    [] l = "pushDone" -> IF g.ok[h] THEN "ipi" ELSE "lr"
    [] l = "ipi"      -> IF cmd.wait THEN "spin1" ELSE "work"
    [] l = "spin1"    -> "spin2"
    [] l = "spin2"    -> IF g.val[h] = 1 THEN "spin1" ELSE "work"
    [] l = "handle"   -> "flush"
    [] l = "flush"    -> "swap"
    [] l = "swap"     -> "popDone"
    [] l = "popDone"  -> "unlock"
    [] l = "unlock"   -> "ret"
    [] l = "ret"      -> g.ret[h]

(* A hart in a clock: nothing commits, the commit port is held on the       *)
(* instruction it shows, the next instruction commits, or the first one of  *)
(* the handler of a pending software interrupt does.                        *)
HartMoves(g, h) ==
  (cmd.pace \cap (IF g.fired[h] THEN {"stall", "hold"} ELSE {"stall"}))
  \cup (IF g.at[h] \in CallHandler \/ g.msip[h] = 0 THEN {"step"} ELSE {"step", "trap"})

GuestHart(g, h, m) ==
  LET l == IF m = "trap" THEN "handle" ELSE g.at[h]
      e == Effect([g EXCEPT !.pulse[h] = Unset], h, l)
  IN  CASE m = "stall" -> [g EXCEPT !.fired[h] = FALSE, !.pulse[h] = Unset]
        [] m = "hold"  -> [g EXCEPT !.pulse[h] = Unset]
        [] OTHER -> [e EXCEPT !.fired[h] = TRUE, !.pc[h] = l, !.at[h] = After(e, h, l),
                              !.ret[h] = IF m = "trap" THEN g.at[h] ELSE @,
                              !.round[h] = IF After(e, h, l) = "lock" /\ l = "work" THEN @ + 1 ELSE @]

(* Both harts, one after the other at the memory; then a line may be        *)
(* written back.                                                            *)
GuestClock(g, m, first, wb) ==
  LET one == GuestHart(g, first, m[first])
      two == GuestHart(one, Peer(first), m[Peer(first)])
  IN  [two EXCEPT !.dram = [h \in Harts |-> IF h \in wb THEN two.lock[h] ELSE @[h]]]

-----------------------------------------------------------------------------
(* linux_llist_probe *)

ByQueue == [q \in Harts |-> 0]

LlistInit ==
  [cyc |-> 0, prev_pc_seen |-> [h \in Harts |-> "none"], ring |-> <<>>,
   pushes |-> ByQueue, pops |-> ByQueue, pops_null |-> ByQueue, live |-> ByQueue,
   in_spin |-> [h \in Harts |-> FALSE], spin_since |-> ByQueue,
   watch_prev |-> 0, watch_armed |-> FALSE, watch_at |-> 0,
   stop |-> "none", verdict |-> "none"]

(* The event a committed PC stands for: a push with the result of its SC, a *)
(* pop with the chain it took, the entry of a flush, an IPI.                *)
LedgerEvent(g, h, cyc) ==
  LET kind == CASE g.pc[h] = "pushDone" -> "P" [] g.pc[h] = "popDone" -> "S" [] g.pc[h] = "flush" -> "F"
                [] g.pc[h] = "ipi" -> "I" [] OTHER -> "-"
  IN  [cyc |-> cyc, hart |-> h, kind |-> kind, q |-> IF kind = "P" THEN Peer(h) ELSE h,
       ok |-> IF kind = "P" THEN g.ok[h] ELSE g.chain[h] # {}]

Keep(s, e) ==
  IF e.kind = "-" THEN s ELSE IF Len(s) < cmd.keep THEN Append(s, e) ELSE Tail(Append(s, e))

(* The ledger: a committed push counts, a non-empty pop settles its queue. *)
Ledger(w, e) ==
  CASE e.kind = "P" /\ e.ok  -> [w EXCEPT !.pushes[e.q] = @ + 1, !.live[e.q] = @ + 1]
    [] e.kind = "S" /\ e.ok  -> [w EXCEPT !.pops[e.q] = @ + 1, !.live[e.q] = 0]
    [] e.kind = "S" /\ ~e.ok -> [w EXCEPT !.pops_null[e.q] = @ + 1]
    [] OTHER -> w

Spin(w, h, inside, cyc) ==
  [w EXCEPT !.spin_since[h] = IF inside /\ ~w.in_spin[h] THEN cyc ELSE @,
            !.in_spin[h] = inside]

(* Faulty form: a held commit port counts again. *)
SampleHeld(w, g, h) ==
  IF ~g.fired[h] THEN w
  ELSE LET e == LedgerEvent(g, h, w.cyc)
       IN  Spin([Ledger(w, e) EXCEPT !.prev_pc_seen[h] = g.pc[h], !.ring = Keep(@, e)],
                h, g.pc[h] \in WaitLoop, w.cyc)

(* The level of commitFired, an immediate repeat of the PC suppressed. *)
SampleCommit(w, g, h) ==
  IF ~g.fired[h] \/ g.pc[h] = w.prev_pc_seen[h] THEN w
  ELSE LET e == LedgerEvent(g, h, w.cyc)
       IN  Spin([Ledger(w, e) EXCEPT !.prev_pc_seen[h] = g.pc[h], !.ring = Keep(@, e)],
                h, g.pc[h] \in WaitLoop, w.cyc)

(* The watched csd in DRAM: armed by each change into the locked state,     *)
(* disarmed by the change out of it.                                        *)
FlagWatch(w, f) ==
  LET x == IF f = w.watch_prev THEN w
           ELSE [w EXCEPT !.watch_prev = f, !.watch_armed = (f = 1),
                          !.watch_at = IF f = 1 THEN w.cyc ELSE @]
  IN  IF x.watch_armed /\ x.cyc - x.watch_at > cmd.tail THEN [x EXCEPT !.stop = "watch"] ELSE x

HangCheck(w) ==
  IF w.stop = "none" /\ \E h \in Harts : w.in_spin[h] /\ w.cyc - w.spin_since[h] > cmd.hang
  THEN [w EXCEPT !.stop = "hang"] ELSE w

(* The report: an unclaimed push of any queue, no push at all, or all       *)
(* drained.                                                                 *)
LlistVerdict(w) ==
  CASE \E q \in Harts : w.pushes[q] > 0 /\ w.live[q] > 0 -> "leak"
    [] \A q \in Harts : w.pushes[q] = 0                  -> "no push"
    [] OTHER                                             -> "after pop"

(* A turn of the loop: the clock of the turn before, then the samples, the  *)
(* flag and the hang.  The loop ends after cmd.run turns.                   *)
linux_llist(w, g) ==
  LET now == [w EXCEPT !.cyc = @ + 1]
      all == SampleCommit(SampleCommit(now, g, 0), g, 1)
      end == HangCheck(IF cmd.watch = Unset THEN all ELSE FlagWatch(all, g.dram[cmd.watch]))
  IN  IF now.cyc = cmd.run THEN [now EXCEPT !.stop = "budget", !.verdict = LlistVerdict(now)]
      ELSE IF end.stop # "none" THEN [end EXCEPT !.verdict = LlistVerdict(end)]
      ELSE end
-----------------------------------------------------------------------------
(* linux_csd_probe: hart 1 in csd_lock_wait *)

CsdInit ==
  [cyc |-> 0, prev_pc_seen |-> [h \in Harts |-> "none"], commits |-> ByQueue, flush_hits |-> ByQueue,
   spin_hits |-> ByQueue, csd_addr |-> Unset, loaded_vals |-> {}, flag |-> Unset,
   stop |-> "none", verdict |-> "none"]

CsdSample(w, g, h) ==
  IF ~g.fired[h] \/ g.pc[h] = w.prev_pc_seen[h] THEN w
  ELSE [w EXCEPT !.prev_pc_seen[h] = g.pc[h],
                 !.commits[h] = @ + 1,
                 !.flush_hits[h] = IF g.pc[h] \in {"flush", "swap", "popDone", "unlock"} THEN @ + 1 ELSE @,
                 !.spin_hits[h] = IF g.pc[h] \in WaitLoop THEN @ + 1 ELSE @,
                 !.csd_addr = IF h = 1 /\ g.pc[h] \in WaitLoop THEN h ELSE @,
                 !.loaded_vals = IF h = 1 /\ g.pc[h] = "spin2" THEN @ \cup {g.val[h]} ELSE @]

Least(S) == CHOOSE x \in S : \A y \in S : x <= y

(* The flag in DRAM against the least value hart 1 read. *)
CsdVerdict(w, flag) ==
  CASE w.csd_addr = Unset     -> "elsewhere"
    [] w.csd_addr # Unset /\ w.loaded_vals = {} -> "inconclusive"
    [] w.loaded_vals # {} /\ flag = 0 /\ Least(w.loaded_vals) = 1 -> "stale"
    [] w.loaded_vals # {} /\ flag = 1 -> "set"
    [] OTHER -> "recheck"

linux_csd(w, g) ==
  LET now == [w EXCEPT !.cyc = @ + 1]
  IN  IF now.cyc = cmd.run
      THEN [now EXCEPT !.stop = "budget", !.flag = g.dram[1], !.verdict = CsdVerdict(now, g.dram[1])]
      ELSE CsdSample(CsdSample(now, g, 0), g, 1)
-----------------------------------------------------------------------------
(* linux_ipi_probe *)

NextMultiple(cyc, n) == ((cyc \div n) + 1) * n

(* A boot, or a resumption from a file.  The names of the checkpoints of    *)
(* the earlier process are not read back.                                   *)
IpiStart(cyc, writes, files) ==
  [cyc |-> cyc, msip_writes |-> writes, last_msip_writes |-> writes, ckpts |-> <<>>, files |-> files,
   next_ckpt |-> NextMultiple(cyc, cmd.every), next_report |-> NextMultiple(cyc, cmd.report),
   reported |-> ByQueue, stop |-> "none", verdict |-> "none"]

(* The write pulses of the ports, each counted for the hart it targets. *)
CountMsip(w, g) ==
  [w EXCEPT !.msip_writes = [t \in Harts |-> @[t] + Cardinality({h \in Harts : g.pulse[h] = t})]]

IpiReport(w) ==
  IF w.cyc < w.next_report THEN w
  ELSE [w EXCEPT !.next_report = w.cyc + cmd.report, !.last_msip_writes = w.msip_writes,
                 !.reported = [h \in Harts |-> @[h] + w.msip_writes[h] - w.last_msip_writes[h]]]

(* The harness's counters and the whole model, before the edge; the oldest  *)
(* of this process's files goes once there are more than CKPT_KEEP.  A file *)
(* that cannot be opened ends the checkpoints, not the run.                 *)
IpiCheckpoint(w, g, opens) ==
  LET all   == Append(w.ckpts, w.cyc)
      prune == cmd.keep # 0 /\ Len(all) > cmd.keep
      file  == [cyc |-> w.cyc, msip_writes |-> w.msip_writes, model |-> g, replays |-> xseen.replays]
      kept  == {f \in w.files : f.cyc # w.cyc /\ ~(prune /\ f.cyc = all[1])}
  IN  IF w.cyc < w.next_ckpt THEN w
      ELSE IF ~opens THEN [w EXCEPT !.next_ckpt = cmd.never]
      ELSE [w EXCEPT !.next_ckpt = w.cyc + cmd.every, !.files = kept \cup {file},
                     !.ckpts = IF prune THEN Tail(all) ELSE all]

(* The rest of a turn: sample, report, checkpoint. *)
linux_ipi(w, g, opens) == IpiCheckpoint(IpiReport(CountMsip(w, g)), g, opens)
-----------------------------------------------------------------------------
SeenInit == [obs |-> [h \in Harts |-> <<>>], wait |-> [h \in Harts |-> Unset],
             flagAt |-> Unset, flag |-> 0, pendAt |-> Unset, readAt |-> Unset, clearAt |-> Unset,
             read |-> {}, replays |-> ByQueue, kills |-> 0]

CrossInit ==
  /\ xg = IF cmd.tool \in CrossTools THEN GuestInit ELSE <<>>
  /\ xseen = IF cmd.tool \in CrossTools THEN SeenInit ELSE <<>>
  /\ xw = CASE IsLlist -> LlistInit [] IsCsd -> CsdInit [] IsIpi -> IpiStart(0, ByQueue, {})
            [] OTHER -> [stop |-> "budget", verdict |-> "none"]

Moved(m, h) == m[h] \in {"step", "trap"}

(* A push or a pop of hart h, on its queue, once the result is known. *)
Noted(obs, m, g, h) ==
  [q \in Harts |->
     IF Moved(m, h) /\ g.pc[h] = "pushDone" /\ g.ok[h] /\ q = Peer(h) THEN Append(obs[q], "push")
     ELSE IF Moved(m, h) /\ g.pc[h] = "popDone" /\ q = h
     THEN Append(obs[q], IF g.chain[h] = {} THEN "null" ELSE "pop")
     ELSE obs[q]]

(* What the guest did in a clock, as the harts know it. *)
Observe(o, m, g, cyc, last) ==
  LET did(h, l) == Moved(m, h) /\ g.pc[h] = l /\ ~last
      f == IF IsLlist /\ cmd.watch # Unset THEN g.dram[cmd.watch] ELSE 0
      moved == ~last /\ f # o.flag
  IN  [o EXCEPT
        !.obs = IF last THEN @ ELSE Noted(Noted(@, m, g, 0), m, g, 1),
        !.wait = [h \in Harts |-> IF last \/ ~Moved(m, h) THEN @[h]
                                  ELSE IF g.pc[h] \notin WaitLoop THEN Unset
                                  ELSE IF @[h] = Unset THEN cyc ELSE @[h]],
        !.flag = IF moved THEN f ELSE @,
        !.flagAt = IF moved THEN cyc ELSE @,
        !.read = IF did(1, "spin2") THEN @ \cup {g.val[1]} ELSE @,
        !.pendAt = IF did(1, "spin1") THEN cyc ELSE @,
        !.readAt = IF did(1, "spin2") THEN o.pendAt ELSE @,
        !.clearAt = IF g.lock[1] = 0 /\ xg.lock[1] = 1 THEN cyc ELSE @]

CrossClock ==
  /\ cmd.tool \in CrossTools /\ xw.stop = "none" /\ xw.cyc < cmd.run
  /\ \E m \in [Harts -> {"stall", "hold", "step", "trap"}], first \in Harts,
        wb \in {{}} \cup {{h} : h \in cmd.send} :
       /\ \A h \in Harts : m[h] \in HartMoves(xg, h)
       /\ (wb # {}) => ~IsIpi /\ \E h \in wb : xg.dram[h] # xg.lock[h]
       /\ xg' = GuestClock(xg, m, first, wb)
       /\ xseen' = Observe(xseen, m, xg', xw.cyc + 1, xw.cyc + 1 = cmd.run)
       /\ \/ IsLlist /\ xw' = linux_llist(xw, xg')
          \/ IsCsd /\ xw' = linux_csd(xw, xg')
          \/ IsIpi /\ \E opens \in cmd.opens : xw' = linux_ipi([xw EXCEPT !.cyc = @ + 1], xg', opens)
  /\ UNCHANGED cmd

(* linux_ipi_probe is killed and started again from one of its files: the   *)
(* clock of the checkpoint is sampled once more.                            *)
Restart ==
  /\ IsIpi /\ xseen.kills < cmd.kills
  /\ \E f \in xw.files :
       /\ xg' = f.model
       /\ xw' = linux_ipi(IpiStart(f.cyc, f.msip_writes, xw.files), f.model, TRUE)
       /\ xseen' = [xseen EXCEPT !.kills = @ + 1,
                      !.replays = [t \in Harts |-> f.replays[t] + Cardinality({h \in Harts : f.model.pulse[h] = t})]]
  /\ UNCHANGED cmd

CrossNext == CrossClock \/ Restart

CrossSpec == cmd \in Commands /\ CrossInit /\ [][CrossNext]_<<cmd, crossVars>>
-----------------------------------------------------------------------------
Places(k, s) == {i \in DOMAIN s : s[i] = k}

(* The ledger counts every push and pop whose next instruction committed,   *)
(* once each however long the commit port is held; and when each operation  *)
(* of a queue has been seen, in the order in which they reached the memory, *)
(* live is the length of that queue (linux_llist_probe.cpp 140-188).        *)
LedgerExact ==
  IsLlist => \A q \in Harts :
    /\ xw.pushes[q] = Cardinality(Places("push", xseen.obs[q]))
    /\ xw.pops[q] = Cardinality(Places("pop", xseen.obs[q]))
    /\ xw.pops_null[q] = Cardinality(Places("null", xseen.obs[q]))
    /\ xg.done[q] = xseen.obs[q] => xw.live[q] = Cardinality(xg.head[q])

(* "Pushed but never drained" is said only of a queue that holds an entry,  *)
(* or whose operations were not all seen in the order in which they acted;  *)
(* "lost after the pop" is never said of a push the machine dropped unless  *)
(* a later chain of the same queue covered it (linux_llist_probe.cpp        *)
(* 24-26, 304-315).                                                         *)
LeakSound ==
  /\ (IsLlist /\ xw.verdict = "leak") =>
       \E q \in Harts : xg.head[q] # {} \/ xg.done[q] # xseen.obs[q]
  /\ (IsLlist /\ xw.verdict = "after pop") =>
       \A q \in Harts : "lost" \in {xg.done[q][i] : i \in DOMAIN xg.done[q]} =>
         \/ Places("push", xseen.obs[q]) = {}
         \/ \E i \in Places("pop", xseen.obs[q]), j \in Places("push", xseen.obs[q]) : i > j

(* The probe stops in the first clock in which a hart has waited without a  *)
(* commit elsewhere, or the watched flag has been locked in DRAM without a  *)
(* change, for longer than asked; an interrupt taken in the wait or a new   *)
(* lock starts the count again (linux_llist_probe.cpp 179-187, 197-243).    *)
StopExact ==
  IsLlist =>
    LET waiting(h) == xseen.wait[h] # Unset /\ xw.cyc - xseen.wait[h] > cmd.hang
        locked == xseen.flag = 1 /\ xw.cyc - xseen.flagAt > cmd.tail
    IN  /\ xw.stop = "none" => ~locked /\ \A h \in Harts : ~waiting(h)
        /\ xw.stop = "watch" => locked
        /\ xw.stop = "hang" => ~locked /\ \E h \in Harts : waiting(h)

(* "Hart 1 holds a stale line" is said only if hart 1 read nothing but a    *)
(* locked flag and the machine does return stale values, or the flag was    *)
(* cleared after the last value that was read, or the locking store is      *)
(* still in a cache and DRAM shows the flag of before; with such a machine, *)
(* a reload after the clear has reached DRAM is reported                    *)
(* (linux_csd_probe.cpp 24-31, 152-166, 226-240).                           *)
CsdVerdictSound ==
  (IsCsd /\ xw.stop = "budget") =>
    /\ xw.verdict = "stale" =>
         /\ xseen.read = {1}
         /\ \/ cmd.defect = "stale"
            \/ xseen.clearAt >= xseen.readAt
            \/ xg.lock[1] = 1 /\ xg.dram[1] = 0
    /\ (cmd.defect = "stale" /\ xseen.read = {1} /\ xg.lock[1] = 0 /\ xg.dram[1] = 0) =>
         xw.verdict = "stale"

(* The MSIP counters are the writes the guest made, across any sequence of  *)
(* kills and restores, plus one for each write in the very clock of a       *)
(* checkpoint that was restored (that clock is sampled again); and a        *)
(* checkpoint on disk holds counters that belong to the model in it, the    *)
(* newest CKPT_KEEP of this process among them (linux_ipi_probe.cpp 84-105, *)
(* 135-141, 195-245).                                                       *)
IpiCountsExact ==
  IsIpi =>
    /\ \A h \in Harts : xw.msip_writes[h] = xg.sent[h] + xseen.replays[h]
    /\ \A f \in xw.files, h \in Harts : f.msip_writes[h] = f.model.sent[h] + f.replays[h]
    /\ \A i \in DOMAIN xw.ckpts : \E f \in xw.files : f.cyc = xw.ckpts[i]

(* The cross-call probes say what happened: queue ledgers and IPI counters   *)
(* match the guest's operations through checkpoints and restores, the run    *)
(* stops in the first cycle it should, and the two verdicts blame the memory *)
(* or the kernel only where the events do.                                   *)
CrossCallSound == LedgerExact /\ LeakSound /\ StopExact /\ CsdVerdictSound /\ IpiCountsExact
=============================================================================
