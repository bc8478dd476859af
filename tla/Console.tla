------------------------------ MODULE Console ------------------------------
(***************************************************************************)
(* linux_sim.cpp, which boots Linux on the Verilated cores alone, and      *)
(* uartrx_test.cpp, which tests the console input they share.              *)
(*                                                                         *)
(* The host offers one keystroke at a time on the pins hostInput_valid and *)
(* hostInput_char, and retires it when it samples hostInputConsumed.  It   *)
(* samples between clocks: linux_sim only when some hart committed,        *)
(* uartrx_test every RX_POLL clocks.  The cores are external: a clock may  *)
(* commit or not, and the one hart that owns the console polls STATUS and  *)
(* pops RX (quard_uart.scala: hostTaken, anyConsumed).  linux_sim also     *)
(* writes checkpoints; the process may be killed at any point, also in the *)
(* middle of a write, and restarted with --restore.                        *)
(***************************************************************************)
EXTENDS Host

CONSTANTS STEP_TIMEOUT,     \* rtl_model.h: clocks without a commit
          kInputPoll,       \* linux_sim.cpp: loops between two reads of stdin
          Page              \* 0x1000, the span of a tight loop

ASSUME ConsoleAssumption ==
  /\ STEP_TIMEOUT \in Nat \ {0}
  /\ kInputPoll \in Nat \ {0}
  /\ Page \in Nat \ {0}

VARIABLES
  simPc,        \* "step", "host", "save", "off" (killed), "exit0", "exit1"
  tickcount,    \* clocks so far (simulator::tickcount, uartrx_test's cyc)
  waited,       \* clocks without a commit in this step_any
  interrupt,    \* g_interrupt
  hostInput,    \* the pins [valid, char]
  uartRx,       \* the RTL: [taken, guest], guest "idle", "saw" (RX_VALID), "pop"
  heard,        \* what the guest's pops of RX returned
  retired,      \* keystrokes the host has retired (uartrx_test: sent)
  inputTick,    \* input_tick
  pcs,          \* core_pc(h)
  band,         \* [h -> <<band_lo, band_hi>>]
  prevBand,     \* [h -> <<prev_lo, prev_hi>>]
  nextHb,
  pinned,       \* the harts the last heartbeat flagged '#'
  window,       \* ghost: the PCs sampled in this window and the one before
  disk,         \* the checkpoint files: name (a cycle) -> contents
  ckpts,        \* the deque of names this process may prune
  nextCkpt,
  origin,       \* ghost: the file this process was restored from, 0 = booted
  kills,        \* how often the process was killed
  txPin,        \* uartrx_test: core0OutChar [valid, byte]
  txPrev,       \* tx_prev
  tx,           \* the bytes the test captured
  echoed        \* how many bytes the guest has transmitted

rxVars   == <<uartRx, heard>>
inVars   == <<hostInput, retired, inputTick>>
bandVars == <<band, prevBand, nextHb, pinned, window>>
ckptVars == <<disk, ckpts, nextCkpt, origin>>
txVars   == <<txPin, txPrev, tx, echoed>>
conVars  == <<simPc, tickcount, waited, interrupt, rxVars, inVars, pcs,
              bandVars, ckptVars, kills, txVars>>

NUL    == 0                                  \* what an RX pop without a byte reads
LT     == 100                                \* '<'
GT     == 101                                \* '>'
RXFAIL == 102
Never  == 9999                               \* ~0ULL
Bottom == <<Never, 0>>                       \* band_lo = ~0, band_hi = 0
IsSim  == cmd.tool = "linux_sim"
IsRx   == cmd.tool = "uartrx_test"

(* --ckpt-keep, --hb and the length of the test's text are not negative, and *)
(* a PC is at most ~0.                                                       *)
ASSUME ConsoleCommands ==
  \A c \in Commands :
    /\ c.tool = "linux_sim" => c.keep \in Nat /\ c.hb \in Nat /\ c.pcs \subseteq 0 .. Never
    /\ c.tool = "uartrx_test" => c.text \in Nat

(* hostInputConsumed: the latch, or the pop that is on the bus right now. *)
Consumed == uartRx.taken \/ (uartRx.guest = "pop" /\ hostInput.valid)

(* One clock edge of MultiUart and of the hart that reads the console,     *)
(* with the pins as the edge sees them.  mayPoll: the guest is ready to    *)
(* look for input.                                                         *)
UartEdge(pins, mayPoll) ==
  LET offered == pins.valid /\ ~uartRx.taken
      popped  == uartRx.guest = "pop" /\ offered
  IN  /\ \E g \in CASE uartRx.guest = "idle" -> {"idle"} \cup (IF offered /\ mayPoll THEN {"saw"} ELSE {})
                    [] uartRx.guest = "saw"  -> {"saw", "pop"}
                    [] uartRx.guest = "pop"  -> {"idle"} :
           uartRx' = [taken |-> pins.valid /\ (uartRx.taken \/ popped), guest |-> g]
      /\ heard' = IF uartRx.guest = "pop"
                  THEN Append(heard, IF popped THEN pins.char ELSE NUL) ELSE heard
-----------------------------------------------------------------------------
(* linux_sim *)

(* next_ckpt at the start: the next multiple of --ckpt-every. *)
FirstCkpt(now) == IF cmd.every = 0 THEN Never ELSE (now \div cmd.every + 1) * cmd.every

ConsoleInit ==
  /\ simPc = "step" /\ tickcount = 0 /\ waited = 0 /\ interrupt = FALSE
  /\ hostInput = [valid |-> FALSE, char |-> NUL]
  /\ uartRx = [taken |-> FALSE, guest |-> "idle"]
  /\ heard = <<>> /\ retired = 0 /\ inputTick = 0
  /\ pcs = [h \in Harts |-> 0]
  /\ band = [h \in Harts |-> Bottom] /\ prevBand = [h \in Harts |-> <<0, 0>>]
  /\ window = [h \in Harts |-> <<{}, {0}>>] /\ pinned = {}
  /\ nextHb = IF IsSim THEN cmd.hb ELSE Never
  /\ disk = <<>> /\ ckpts = <<>> /\ origin = 0 /\ kills = 0
  /\ nextCkpt = IF IsSim THEN FirstCkpt(0) ELSE Never
  /\ txPin = [valid |-> FALSE, byte |-> NUL] /\ txPrev = FALSE /\ tx = <<>> /\ echoed = 0

(* One clock of step_any_nodump, until some hart commits. *)
SimClock ==
  /\ IsSim /\ simPc = "step"
  /\ tickcount' = tickcount + 1
  /\ UartEdge(hostInput, TRUE)
  /\ \E m \in SUBSET Harts :
       /\ \E p \in [m -> cmd.pcs] : pcs' = [h \in Harts |-> IF h \in m THEN p[h] ELSE pcs[h]]
       /\ IF m # {} THEN simPc' = "host" /\ waited' = 0
          ELSE /\ waited' = waited + 1
               /\ simPc' = IF waited' = STEP_TIMEOUT THEN "exit1" ELSE "step"
  /\ UNCHANGED <<cmd, interrupt, inVars, bandVars, ckptVars, kills, txVars>>

(* Faulty form: the next byte is offered without waiting for hostTaken to clear. *)
HandshakeNoRearm ==
  LET c == Consumed
  IN  /\ retired' = retired + (IF hostInput.valid /\ c THEN 1 ELSE 0)
      /\ hostInput' = IF hostInput.valid /\ ~c THEN hostInput
                      ELSE [valid |-> retired' < cmd.keys, char |-> retired' + 1]
      /\ UNCHANGED inputTick

(* Retire a delivered character, then offer the next one. *)
Handshake ==
  LET c == Consumed
      v == hostInput.valid /\ ~c
  IN  /\ retired' = retired + (IF hostInput.valid /\ c THEN 1 ELSE 0)
      /\ IF v \/ c THEN hostInput' = [hostInput EXCEPT !.valid = v] /\ UNCHANGED inputTick
         ELSE IF inputTick + 1 < kInputPoll
              THEN inputTick' = inputTick + 1 /\ hostInput' = [hostInput EXCEPT !.valid = FALSE]
              ELSE /\ inputTick' = 0
                   /\ \E key \in {FALSE} \cup (IF retired < cmd.keys THEN {TRUE} ELSE {}) :
                        hostInput' = IF key THEN [valid |-> TRUE, char |-> retired + 1]
                                     ELSE [hostInput EXCEPT !.valid = FALSE]

(* Fold every committed PC into the band of its hart. *)
Folded == [h \in Harts |-> <<IF pcs[h] < band[h][1] THEN pcs[h] ELSE band[h][1],
                             IF pcs[h] > band[h][2] THEN pcs[h] ELSE band[h][2]>>]

(* The heartbeat: a hart whose band is tight, and the same as in the window *)
(* before, is pinned; then a new window starts.                            *)
Heartbeat(b) ==
  /\ pinned' = {h \in Harts : b[h][2] >= b[h][1] /\ b[h][2] - b[h][1] < Page /\ b[h] = prevBand[h]}
  /\ nextHb' = tickcount + cmd.hb
  /\ prevBand' = b
  /\ band' = [h \in Harts |-> Bottom]

DebugBands ==
  LET seen == [h \in Harts |-> window[h][1] \cup {pcs[h]}]
  IN  IF tickcount >= nextHb
      THEN /\ Heartbeat(Folded)
           /\ window' = [h \in Harts |-> <<{}, seen[h]>>]
      ELSE /\ band' = Folded
           /\ window' = [h \in Harts |-> <<seen[h], window[h][2]>>]
           /\ UNCHANGED <<prevBand, nextHb, pinned>>

(* Faulty form: the oldest checkpoint is removed, and the new one is not yet     *)
(* complete.                                                                *)
OpenAndPrune ==
  IF tickcount < nextCkpt THEN simPc' = "step" /\ UNCHANGED <<disk, nextCkpt>>
  ELSE /\ simPc' = "save"
       /\ nextCkpt' = tickcount + cmd.every
       /\ disk' = [n \in (DOMAIN disk \ (IF cmd.keep = 0 THEN {} ELSE
                            {ckpts[i] : i \in 1 .. Len(ckpts) + 1 - cmd.keep})) \cup {tickcount} |->
                     IF n = tickcount THEN [whole |-> FALSE] ELSE disk[n]]

(* The path of the next checkpoint is opened, which truncates the file; if  *)
(* that fails checkpoints are off for the rest of the run.                  *)
OpenCkpt ==
  IF tickcount < nextCkpt THEN simPc' = "step" /\ UNCHANGED <<disk, nextCkpt>>
  ELSE \/ /\ simPc' = "save"
          /\ nextCkpt' = tickcount + cmd.every
          /\ disk' = [n \in DOMAIN disk \cup {tickcount} |->
                        IF n = tickcount THEN [whole |-> FALSE] ELSE disk[n]]
       \/ simPc' = "step" /\ nextCkpt' = Never /\ UNCHANGED disk

(* The rest of the loop body, after step_any returned. *)
SimLoop ==
  /\ IsSim /\ simPc = "host"
  /\ IF tickcount >= cmd.max \/ interrupt
     THEN simPc' = "exit0" /\ UNCHANGED <<inVars, bandVars, ckptVars>>
     ELSE /\ Handshake
          /\ IF cmd.debug THEN DebugBands /\ OpenCkpt
             ELSE simPc' = "step" /\ UNCHANGED <<bandVars, disk, nextCkpt>>
          /\ UNCHANGED <<ckpts, origin>>
  /\ UNCHANGED <<cmd, tickcount, waited, interrupt, rxVars, pcs, kills, txVars>>

(* The model and its header are written, the file is closed, the deque is   *)
(* pruned to --ckpt-keep files (0 keeps them all).                          *)
SaveCkpt ==
  LET all  == Append(ckpts, tickcount)
      drop == IF cmd.keep = 0 \/ Len(all) <= cmd.keep THEN 0 ELSE Len(all) - cmd.keep
  IN  /\ IsSim /\ simPc = "save" /\ simPc' = "step"
      /\ ckpts' = SubSeq(all, drop + 1, Len(all))
      /\ disk' = [n \in DOMAIN disk \ {all[i] : i \in 1 .. drop} |->
                    IF n # tickcount THEN disk[n]
                    ELSE [whole |-> TRUE, uart |-> uartRx, valid |-> hostInput.valid, pcs |-> pcs]]
      /\ UNCHANGED <<cmd, tickcount, waited, interrupt, rxVars, inVars, pcs,
                     bandVars, nextCkpt, origin, kills, txVars>>

(* SIGINT or SIGTERM: the handler only sets the flag. *)
Signal ==
  /\ IsSim /\ simPc \in {"step", "host", "save"} /\ cmd.signal /\ interrupt' = TRUE
  /\ UNCHANGED <<cmd, simPc, tickcount, waited, rxVars, inVars, pcs, bandVars, ckptVars, kills, txVars>>

(* The process or the machine dies; the files stay as they are. *)
Kill ==
  /\ IsSim /\ simPc \in {"step", "host", "save"} /\ kills < cmd.kills
  /\ simPc' = "off" /\ kills' = kills + 1
  /\ UNCHANGED <<cmd, tickcount, waited, interrupt, rxVars, inVars, pcs, bandVars, ckptVars, txVars>>

(* --restore f.  A file cut short is refused.  The model comes back with    *)
(* the pins it was saved with, and the harness then drops hostInput_valid:  *)
(* a keystroke the guest was told of and had not popped is retracted.       *)
Restore ==
  /\ IsSim /\ simPc = "off"
  /\ \E f \in DOMAIN disk :
       IF ~disk[f].whole
       THEN simPc' = "exit1" /\ UNCHANGED <<tickcount, waited, interrupt, rxVars, inVars, pcs,
                                            bandVars, ckptVars>>
       ELSE /\ simPc' = "step" /\ tickcount' = f /\ waited' = 0 /\ interrupt' = FALSE
            /\ uartRx' = disk[f].uart /\ pcs' = disk[f].pcs
            /\ hostInput' = [valid |-> FALSE, char |-> NUL]
            /\ heard' = <<>> /\ inputTick' = 0 /\ retired' = 0
            /\ band' = [h \in Harts |-> Bottom] /\ prevBand' = [h \in Harts |-> <<0, 0>>]
            /\ nextHb' = f + cmd.hb /\ pinned' = {} /\ window' = [h \in Harts |-> <<{}, {0}>>]
            /\ ckpts' = <<>> /\ nextCkpt' = FirstCkpt(f) /\ origin' = f
            /\ UNCHANGED disk
  /\ UNCHANGED <<cmd, kills, txVars>>
-----------------------------------------------------------------------------
(* uartrx_test *)

(* The guest program: '<', the bytes it reads, '>'; or RXFAIL when STATUS   *)
(* does not show RX_VALID for too long.                                     *)
Script == <<LT>> \o heard \o (IF Len(heard) = cmd.text THEN <<GT>> ELSE <<>>)

(* Surface a transmitted byte once: valid is edge-detected. *)
EdgeCapture(pin, prev) == IF pin.valid /\ ~prev THEN <<pin.byte>> ELSE <<>>

(* The pins after this iteration's service: raise valid, wait for consumed, *)
(* drop it, and only then raise it again.                                   *)
ServicePins ==
  IF tickcount % cmd.poll # 0 THEN hostInput
  ELSE IF hostInput.valid THEN [hostInput EXCEPT !.valid = ~Consumed]
  ELSE IF ~Consumed /\ retired < cmd.text THEN [valid |-> TRUE, char |-> retired + 1]
  ELSE hostInput

(* One iteration.  The rising edge and the new pins reach the model in one  *)
(* eval(): whether its logic still sees the old pins depends on the         *)
(* Verilator the build uses.                                                *)
RxTestClock ==
  /\ IsRx /\ simPc = "step" /\ tickcount < cmd.max
  /\ hostInput' = ServicePins
  /\ retired' = retired + (IF hostInput.valid /\ ~hostInput'.valid THEN 1 ELSE 0)
  /\ tickcount' = tickcount + 1
  /\ \E pins \in {hostInput, hostInput'} : UartEdge(pins, echoed = Len(heard) + 1)
  /\ \E next \in {<<>>} \cup
                 (IF txPin.valid THEN {}
                  ELSE IF echoed < Len(Script) THEN {<<Script[echoed + 1]>>}
                  ELSE IF uartRx.guest = "idle" /\ Len(heard) < cmd.text THEN {<<RXFAIL>>} ELSE {}) :
       /\ echoed' = echoed + Len(next)
       /\ txPin' = [valid |-> next # <<>>, byte |-> IF next = <<>> THEN NUL ELSE next[1]]
  /\ tx' = tx \o EdgeCapture(txPin', txPrev) /\ txPrev' = txPin'.valid
  /\ simPc' = IF tx' # tx /\ tx'[Len(tx')] \in {GT, RXFAIL} THEN "host" ELSE "step"
  /\ UNCHANGED <<cmd, waited, interrupt, inputTick, pcs, bandVars, ckptVars, kills>>

(* PASS: a complete <...> with exactly the bytes that were sent. *)
RxVerdict ==
  IF tx # <<>> /\ tx[1] = LT /\ tx[Len(tx)] = GT
     /\ SubSeq(tx, 2, Len(tx) - 1) = [i \in 1 .. cmd.text |-> i]
  THEN "exit0" ELSE "exit1"

RxTestDone ==
  /\ IsRx /\ (simPc = "host" \/ (simPc = "step" /\ tickcount = cmd.max))
  /\ simPc' = RxVerdict
  /\ UNCHANGED <<cmd, tickcount, waited, interrupt, rxVars, inVars, pcs, bandVars, ckptVars, kills, txVars>>
-----------------------------------------------------------------------------
ConsoleNext ==
  \/ SimClock \/ SimLoop \/ SaveCkpt \/ Signal \/ Kill \/ Restore
  \/ RxTestClock \/ RxTestDone

ConsoleSpec == cmd \in Commands /\ ConsoleInit /\ [][ConsoleNext]_<<cmd, conVars>>

(* The restore this process began with retracted a keystroke: the guest had  *)
(* been told of it and had not popped.                                      *)
Retracted == origin # 0 /\ disk[origin].uart.guest # "idle"

(* The host's retirements and the guest's pops stay paired, over any        *)
(* sampling of the pins and across a restore: no keystroke is popped twice, *)
(* none is retired that no pop belongs to, and a pop returns its own byte   *)
(* or, when it was on the bus while the host dropped valid, NUL.  Only the  *)
(* first pop of a restored process may be spare, a NUL for the retracted    *)
(* keystroke (linux_sim.cpp 313-338, uartrx_test.cpp 83-112).               *)
KeysPaired ==
  \E spare \in IF Retracted THEN {0, 1} ELSE {0} :
    /\ \A i \in 1 .. Len(heard) : heard[i] \in {i - spare, NUL}
    /\ Len(heard) - retired - spare =
         IF hostInput.valid THEN IF uartRx.taken THEN 1 ELSE 0
         ELSE IF uartRx.guest # "idle" THEN -1 ELSE 0

(* PASS of uartrx_test means that the guest really read every byte, in      *)
(* order: bytes the race of the pins cuts, or the capture misses, never     *)
(* cancel out (uartrx_test.cpp 141-163).                                    *)
RxPassSound == (IsRx /\ simPc = "exit0") => heard = [i \in 1 .. cmd.text |-> i]

(* A hart is reported pinned exactly when all PCs sampled in the window     *)
(* that just ended lie in one page and have the extremes of the window      *)
(* before (linux_sim.cpp 340-389).                                          *)
PinnedExact ==
  [][(IsSim /\ nextHb' > nextHb /\ simPc = "host") =>
       \A h \in Harts :
         LET now == window'[h][2] old == window[h][2] IN
         h \in pinned' <=>
           /\ \A p, q \in now : p - q < Page
           /\ \A p \in now : \E q \in old : q <= p
           /\ \A p \in now : \E q \in old : q >= p
           /\ \A q \in old : (\E p \in now : p <= q) /\ (\E p \in now : p >= q)]_conVars

(* Once a checkpoint is complete there is always a complete one to restore, *)
(* wherever a kill falls, also in the middle of a write or of a rewrite of  *)
(* a file of an earlier run; and the file this process was restored from    *)
(* stays (linux_sim.cpp 391-419).                                           *)
RestorePoint ==
  [][/\ (\E n \in DOMAIN disk : disk[n].whole) => \E n \in DOMAIN disk' : disk'[n].whole
     /\ origin # 0 => origin \in DOMAIN disk' /\ disk'[origin].whole]_conVars

(* Host and guest stay paired over the key handshake: no key overtakes, is   *)
(* skipped or repeated, one cut short by the pins is heard as NUL; and the   *)
(* receiver test says PASS only if every byte was heard as it was sent.      *)
ConsoleSound == KeysPaired /\ RxPassSound

(* A run of days can be judged and taken up again: the heartbeat calls a     *)
(* hart pinned exactly when it stayed in one band, and at every moment there *)
(* is a whole checkpoint to restart from once the first one was written.     *)
RunsRecoverable == PinnedExact /\ RestorePoint
=============================================================================
