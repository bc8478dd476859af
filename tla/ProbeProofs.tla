---------------------------- MODULE ProbeProofs ---------------------------
(***************************************************************************)
(* The programs that watch the core.                                       *)
(*                                                                         *)
(* The observers of the reorder buffer for every depth it can have: they   *)
(* accuse no correct core, agree with each other, and report a stale       *)
(* completion at the next sample.                                          *)
(*                                                                         *)
(* The profilers for any benchmark, block length and work span: a profile  *)
(* accounts for every cycle once, and only a checked result passes.        *)
(*                                                                         *)
(* The watchers for any core and any thresholds: each reports in the first *)
(* clock in which its condition has lasted, and in no other.               *)
(*                                                                         *)
(* The cross-call probes for any timing of the two harts, any fault of the *)
(* machine and any kills: ledgers, counters, stops and verdicts are what   *)
(* the guest did.                                                          *)
(***************************************************************************)
EXTENDS RobWatch, Profiler, WedgeWatch, CrossCall, FiniteSetTheorems, SequenceTheorems, TLAPS

(* Of the constants, the observers of the reorder buffer use the number of   *)
(* harts.                                                                    *)
LEMMA HartCount == NUM_HARTS \in Nat \ {0}
  BY HostAssumption

USE HartCount DEF Harts

(***************************************************************************)
(* The observers of the reorder buffer.                                    *)
(***************************************************************************)

(* Circular arithmetic without the remainder. *)
LEMMA WatchCircle ==
  /\ CHIRON_ROB_DEPTH \in Nat /\ CHIRON_ROB_DEPTH >= 2
  /\ \A s, t \in RobSlots : Off(s, t) = IF s >= t THEN s - t ELSE s - t + CHIRON_ROB_DEPTH
  /\ \A s \in RobSlots : Next1(s) = IF s = CHIRON_ROB_DEPTH - 1 THEN 0 ELSE s + 1
<1> DEFINE D == CHIRON_ROB_DEPTH
<1>1. D \in Nat /\ D >= 2
  BY RobWatchAssumption
<1> HIDE DEF D
<1>2. ASSUME NEW s \in 0 .. D - 1, NEW t \in 0 .. D - 1
      PROVE  (s - t) % D = IF s >= t THEN s - t ELSE s - t + D
  <2> DEFINE x == s - t
  <2>1. x \in Int /\ -D <= x /\ x < D /\ (s >= t <=> x >= 0)
    BY <1>1
  <2> HIDE DEF x
  <2>2. x >= 0 => x % D = x
    BY <1>1, <2>1
  <2>3. x < 0 => x % D = x + D
    BY <1>1, <2>1
  <2> QED
    BY <1>1, <2>1, <2>2, <2>3 DEF x
<1>3. ASSUME NEW s \in 0 .. D - 1
      PROVE  (s + 1) % D = IF s = D - 1 THEN 0 ELSE s + 1
  <2>1. CASE s = D - 1
    <3>1. D % D = 0
      BY <1>1
    <3> QED
      BY <1>1, <2>1, <3>1
  <2>2. CASE s < D - 1
    BY <1>1, <2>2
  <2> QED
    BY <1>1, <2>1, <2>2
<1> QED
  BY <1>1, <1>2, <1>3 DEF D, RobSlots, Off, Next1

(* The buffer's pointers agree with the number of its entries. *)
PointersFit(r) ==
  /\ r.rd \in RobSlots /\ r.wr \in RobSlots /\ r.n \in 0 .. CHIRON_ROB_DEPTH
  /\ Off(r.wr, r.rd) = IF r.n = CHIRON_ROB_DEPTH THEN 0 ELSE r.n

BufferOK == PointersFit(rob)

(* invariants.h and robready_probe remember the same. *)
SameMemory ==
  /\ inv.prevReady = rr.prevRdy /\ inv.pending = rr.pending /\ inv.pBev = rr.prevBev
  /\ inv.pAlloc = rr.prevAlloc /\ inv.pWrite = rr.prevWr
  /\ inv.noResolve = rr.noResolve /\ inv.double = rr.double

(* With a correct core, a resolved slot is ready until it is allocated     *)
(* again; and a bit that rose since the last sample was live then, and a    *)
(* branch's rose by the branch port.                                       *)
Explained ==
  /\ inv.noResolve = 0 /\ inv.outside = 0 /\ inv.double = 0
  /\ \A s \in RobSlots : inv.pending[s] => rob.ready[s]
  /\ \A i \in Rose(inv, rob) : /\ inv.prevRead # None /\ in_window(i, inv.prevRead, inv.pWrite)
                               /\ rob.br[i] => inv.pBev = i

(* A wrong completion that has to show is a rise that nothing explains. *)
Unexplained ==
  /\ inv.outside \in Nat /\ inv.noResolve \in Nat
  /\ \A s \in owed.outside :
       /\ s \in Rose(inv, rob) /\ ~in_window(s, inv.prevRead, inv.pWrite)
       /\ rob.rd # rob.wr => ~in_window(s, rob.rd, rob.wr)
  /\ \A s \in owed.branch : s \in Rose(inv, rob) /\ rob.br[s] /\ inv.pBev # s

WatchIInv ==
  /\ BufferOK /\ cyc \in Nat
  /\ IsWatch => SameMemory /\ Unexplained
  /\ IsWatch /\ ~cmd.defect => Explained
  /\ IsModify => rm.grew = 0 /\ rm.oow = owed.stale /\ owed.stale \in Nat

(* What the ports of a correct core may show. *)
LEMMA LegalFacts ==
  ASSUME BufferOK, NEW p \in LegalPorts(rob)
  PROVE  /\ p.bev \in {None} \cup Unfinished(rob, TRUE) /\ p.exec \in {None} \cup Unfinished(rob, FALSE)
         /\ p.commit \in BOOLEAN /\ p.flush \in BOOLEAN /\ p.pass \in BOOLEAN
         /\ p.commit => rob.n > 0
         /\ p.alloc # "none" => rob.n < CHIRON_ROB_DEPTH /\ p.bev # rob.wr
         /\ Modify(rob, p) \/ p.flush => p.alloc = "none" /\ ~p.commit
         /\ p.flush => p.bev = None
         /\ p.bev # None /\ ~p.pass => p.alloc = "none" /\ ~p.commit
<1>1. /\ p \in [alloc : {"none"} \cup cmd.kinds, bev : {None} \cup Unfinished(rob, TRUE), pass : BOOLEAN,
                exec : {None} \cup Unfinished(rob, FALSE), commit : BOOLEAN, flush : BOOLEAN]
      /\ (Modify(rob, p) \/ p.flush) => p.alloc = "none" /\ ~p.commit
      /\ p.flush => p.bev = None
      /\ p.commit => rob.n > 0
      /\ p.alloc # "none" => rob.n < CHIRON_ROB_DEPTH
  BY DEF LegalPorts
<1>2. rob.n < CHIRON_ROB_DEPTH => ~Live(rob, rob.wr)
  BY WatchCircle DEF BufferOK, PointersFit, Live
<1>3. p.bev # None => Live(rob, p.bev)
  BY <1>1 DEF Unfinished
<1>4. rob.wr # None
  BY WatchCircle DEF BufferOK, PointersFit, None, RobSlots
<1>5. p.alloc # "none" => p.bev # rob.wr
  BY <1>1, <1>2, <1>3, <1>4
<1>6. p.bev # None /\ ~p.pass => Modify(rob, p)
  BY <1>3 DEF Modify
<1> QED
  BY <1>1, <1>5, <1>6

(* What the ports of any clock may show, right or wrong. *)
LEMMA PortFacts ==
  ASSUME BufferOK, NEW p \in LegalPorts(rob) \cup WrongPorts(rob)
  PROVE  /\ p.bev \in RobSlots \cup {None} /\ p.exec \in RobSlots \cup {None}
         /\ p.commit \in BOOLEAN /\ p.flush \in BOOLEAN /\ p.pass \in BOOLEAN
         /\ p.commit => rob.n > 0
         /\ p.alloc # "none" => rob.n < CHIRON_ROB_DEPTH /\ p.bev # rob.wr
         /\ Modify(rob, p) \/ p.flush => p.alloc = "none" /\ ~p.commit
         /\ p.flush => p.bev = None
         /\ p.bev # None /\ ~p.pass => p.alloc = "none" /\ ~p.commit
<1>1. Unfinished(rob, TRUE) \subseteq RobSlots /\ Unfinished(rob, FALSE) \subseteq RobSlots
  BY DEF Unfinished
<1>2. CASE p \in LegalPorts(rob)
  BY <1>1, <1>2, LegalFacts
<1>3. CASE \E q \in LegalPorts(rob), s \in RobSlots : p = [q EXCEPT !.exec = s]
  <2>1. PICK q \in LegalPorts(rob), s \in RobSlots : p = [q EXCEPT !.exec = s]
    BY <1>3
  <2>2. q \in [alloc : {"none"} \cup cmd.kinds, bev : {None} \cup Unfinished(rob, TRUE), pass : BOOLEAN,
               exec : {None} \cup Unfinished(rob, FALSE), commit : BOOLEAN, flush : BOOLEAN]
    BY DEF LegalPorts
  <2>3. /\ p.bev = q.bev /\ p.pass = q.pass /\ p.commit = q.commit /\ p.flush = q.flush
        /\ p.alloc = q.alloc /\ p.exec = s
    BY <2>1, <2>2
  <2>4. Modify(rob, p) <=> Modify(rob, q)
    BY <2>3 DEF Modify
  <2> QED
    BY <1>1, <2>3, <2>4, LegalFacts
<1>4. CASE p \in [alloc : {"none"}, bev : {t \in RobSlots : rob.br[t] /\ rob.ready[t]}, pass : BOOLEAN,
                  exec : {None} \cup Unfinished(rob, FALSE), commit : {FALSE}, flush : {FALSE}]
  BY <1>1, <1>4
<1>5. ASSUME p \in WrongPorts(rob)
      PROVE  \/ \E q \in LegalPorts(rob), s \in RobSlots : p = [q EXCEPT !.exec = s]
             \/ p \in [alloc : {"none"}, bev : {t \in RobSlots : rob.br[t] /\ rob.ready[t]}, pass : BOOLEAN,
                       exec : {None} \cup Unfinished(rob, FALSE), commit : {FALSE}, flush : {FALSE}]
  <2> DEFINE P == {q \in LegalPorts(rob) : q.exec = None}
             S == {t \in RobSlots : ~Live(rob, t) \/ (rob.br[t] /\ ~rob.ready[t])}
             A == {[q EXCEPT !.exec = s] : q \in P, s \in S}
             B == [alloc : {"none"}, bev : {t \in RobSlots : rob.br[t] /\ rob.ready[t]}, pass : BOOLEAN,
                   exec : {None} \cup Unfinished(rob, FALSE), commit : {FALSE}, flush : {FALSE}]
  <2>1. WrongPorts(rob) = A \cup B
    BY DEF WrongPorts
  <2>2. ASSUME p \in A PROVE \E q \in LegalPorts(rob), s \in RobSlots : p = [q EXCEPT !.exec = s]
    BY <2>2
  <2> HIDE DEF A
  <2> QED
    BY <1>5, <2>1, <2>2
<1> QED
  BY <1>2, <1>3, <1>4, <1>5

(* An edge leaves the pointers in agreement with the number of entries; a   *)
(* slot that is not live becomes live only by an allocation of it.          *)
LEMMA EdgeOK ==
  ASSUME BufferOK, NEW p \in LegalPorts(rob) \cup WrongPorts(rob), rob' = Edge(rob, p)
  PROVE  /\ BufferOK'
         /\ \A s \in RobSlots : ~Live(rob, s) /\ ~(p.alloc # "none" /\ s = rob.wr) => ~Live(rob', s)
         /\ p.bev # None /\ ~p.pass => rob'.n <= rob.n
<1> DEFINE D == CHIRON_ROB_DEPTH
           rd == rob.rd
           wr == rob.wr
           n  == rob.n
           rd1 == rob'.rd
           wr1 == rob'.wr
           n1  == rob'.n
           off(s, t) == IF s >= t THEN s - t ELSE s - t + D
           next(s) == IF s = D - 1 THEN 0 ELSE s + 1
<1>1. D \in Nat /\ D >= 2 /\ RobSlots = 0 .. D - 1
  BY WatchCircle DEF RobSlots
<1>2. rd \in 0 .. D - 1 /\ wr \in 0 .. D - 1 /\ n \in 0 .. D /\ off(wr, rd) = IF n = D THEN 0 ELSE n
  BY <1>1, WatchCircle DEF BufferOK, PointersFit
<1>3. /\ rd1 = IF p.commit THEN Next1(rd) ELSE rd
      /\ wr1 = IF p.flush THEN rd ELSE IF Modify(rob, p) THEN Next1(p.bev)
               ELSE IF p.alloc # "none" THEN Next1(wr) ELSE wr
      /\ n1 = IF p.flush THEN 0 ELSE IF Modify(rob, p) THEN Off(p.bev, rd) + 1
              ELSE n + (IF p.alloc # "none" THEN 1 ELSE 0) - (IF p.commit THEN 1 ELSE 0)
  BY DEF Edge
<1>4. /\ \A s, t \in 0 .. D - 1 : Off(s, t) = off(s, t)
      /\ \A s \in 0 .. D - 1 : Next1(s) = next(s)
  BY <1>1, WatchCircle
<1>5. SUFFICES /\ rd1 \in 0 .. D - 1 /\ wr1 \in 0 .. D - 1 /\ n1 \in 0 .. D
               /\ off(wr1, rd1) = IF n1 = D THEN 0 ELSE n1
               /\ \A s \in 0 .. D - 1 : off(s, rd) >= n /\ ~(p.alloc # "none" /\ s = wr) => off(s, rd1) >= n1
               /\ p.bev # None /\ ~p.pass => n1 <= n
  <2>1. \A s \in RobSlots : Live(rob, s) <=> Off(s, rd) < n
    BY DEF Live
  <2>2. \A s \in RobSlots : Live(rob', s) <=> Off(s, rd1) < n1
    BY DEF Live
  <2>3. BufferOK' <=> /\ rd1 \in RobSlots /\ wr1 \in RobSlots /\ n1 \in 0 .. D
                      /\ Off(wr1, rd1) = IF n1 = D THEN 0 ELSE n1
    BY DEF BufferOK, PointersFit
  <2>4. ASSUME NEW s \in 0 .. D - 1, NEW t \in 0 .. D - 1, NEW m \in 0 .. D
        PROVE  Off(s, t) < m <=> ~(off(s, t) >= m)
    <3>1. Off(s, t) = off(s, t)
      BY <1>4
    <3> HIDE DEF D
    <3>2. off(s, t) \in Int
      BY <1>1
    <3> HIDE DEF off
    <3> QED
      BY <1>1, <3>1, <3>2
  <2> HIDE DEF rd, wr, n, rd1, wr1, n1, D, off
  <2> QED
    BY <1>1, <1>2, <1>4, <2>1, <2>2, <2>3, <2>4 DEF rd, wr, n, rd1, wr1, n1
<1>6. CASE p.flush
  <2>1. rd1 = rd /\ wr1 = rd /\ n1 = 0
    BY <1>3, <1>6, PortFacts
  <2> HIDE DEF rd, wr, n, rd1, wr1, n1, D
  <2> QED
    BY <1>1, <1>2, <2>1
<1>7. CASE ~p.flush /\ Modify(rob, p)
  <2> DEFINE b == p.bev
  <2>1. b \in 0 .. D - 1 /\ off(b, rd) < n
    BY <1>1, <1>2, <1>4, <1>7, PortFacts DEF Modify, Live
  <2>2. rd1 = rd /\ wr1 = next(b) /\ n1 = off(b, rd) + 1
    BY <1>2, <1>3, <1>4, <1>7, <2>1, PortFacts
  <2> HIDE DEF rd, wr, n, rd1, wr1, n1, D, b
  <2> QED
    BY <1>1, <1>2, <2>1, <2>2
<1>8. CASE ~p.flush /\ ~Modify(rob, p)
  <2> DEFINE in == p.alloc # "none"
             outs == p.commit
             circle == p.bev # None /\ ~p.pass
  <2>1. /\ rd1 = IF outs THEN next(rd) ELSE rd
        /\ wr1 = IF in THEN next(wr) ELSE wr
        /\ n1 = n + (IF in THEN 1 ELSE 0) - (IF outs THEN 1 ELSE 0)
    BY <1>2, <1>3, <1>4, <1>8
  <2>2. (outs => n > 0) /\ (in => n < D) /\ (circle => ~in /\ ~outs)
    BY PortFacts
  <2> HIDE DEF rd, wr, n, rd1, wr1, n1, D, in, outs, circle
  <2>3. /\ rd1 \in 0 .. D - 1 /\ wr1 \in 0 .. D - 1 /\ n1 \in 0 .. D
        /\ circle => n1 <= n
    BY <1>1, <1>2, <2>1, <2>2
  <2>4. off(wr1, rd1) = IF n1 = D THEN 0 ELSE n1
    BY <1>1, <1>2, <2>1, <2>2
  <2>5. ASSUME NEW s \in 0 .. D - 1, off(s, rd) >= n, ~(in /\ s = wr) PROVE off(s, rd1) >= n1
    BY <1>1, <1>2, <2>1, <2>2, <2>5
  <2> QED
    BY <2>3, <2>4, <2>5 DEF in, circle, n, rd, wr, rd1, wr1, n1, D
<1> QED
  BY <1>6, <1>7, <1>8

LEMMA WatchInitOK == WatchInit => WatchIInv
<1> SUFFICES ASSUME WatchInit PROVE WatchIInv
  OBVIOUS
<1>1. BufferOK
  BY WatchCircle DEF WatchInit, BufferOK, PointersFit, RobSlots
<1>2. Rose(inv, rob) = {}
  BY DEF WatchInit, Rose
<1>3. SameMemory
  BY DEF WatchInit, InvInit, RrInit, SameMemory
<1>4. Unexplained
  BY DEF WatchInit, InvInit, Unexplained
<1>5. Explained
  BY <1>2 DEF WatchInit, InvInit, Explained
<1> QED
  BY <1>1, <1>3, <1>4, <1>5 DEF WatchInit, WatchIInv

(* The window of the pointers holds the live slots, unless they are equal. *)
LEMMA WindowIsLive ==
  ASSUME NEW r, PointersFit(r), NEW s \in RobSlots
  PROVE  /\ Live(r, s) => in_window(s, r.rd, r.wr)
         /\ ~Live(r, s) /\ r.rd # r.wr => ~in_window(s, r.rd, r.wr)
<1> DEFINE rd == r.rd
           wr == r.wr
           n  == r.n
           D  == CHIRON_ROB_DEPTH
           x  == Off(s, rd)
           y  == Off(wr, rd)
<1>1. D \in Nat /\ D >= 2 /\ n \in 0 .. D /\ rd \in 0 .. D - 1 /\ wr \in 0 .. D - 1
      /\ y = IF n = D THEN 0 ELSE n
  BY WatchCircle DEF PointersFit, RobSlots
<1>2. /\ s \in 0 .. D - 1
      /\ x = IF s >= rd THEN s - rd ELSE s - rd + D
      /\ y = IF wr >= rd THEN wr - rd ELSE wr - rd + D
  BY <1>1, WatchCircle DEF RobSlots
<1>3. (Live(r, s) <=> x < n) /\ (in_window(s, rd, wr) <=> y = 0 \/ x < y)
  BY DEF Live, in_window
<1> HIDE DEF rd, wr, n, D, x, y
<1>4. /\ Live(r, s) => in_window(s, rd, wr)
      /\ ~Live(r, s) /\ rd # wr => ~in_window(s, rd, wr)
  BY <1>1, <1>2, <1>3
<1> QED
  BY <1>4 DEF rd, wr

(* The alarms of a clock: the branches no resolution explains, and the      *)
(* slots that were not allocated.                                          *)
Unresolved == {i \in Rose(inv, rob) : rob.br[i] /\ inv.pBev # i}
Outside == {i \in Rose(inv, rob) : /\ ~in_window(i, rob.rd, rob.wr)
                                  /\ ~(inv.prevRead # None /\ in_window(i, inv.prevRead, inv.pWrite))}

LEMMA AlarmSets ==
  /\ IsFiniteSet(Unresolved) /\ IsFiniteSet(Outside)
  /\ Cardinality(Unresolved) \in Nat /\ (Cardinality(Unresolved) = 0 <=> Unresolved = {})
  /\ Cardinality(Outside) \in Nat /\ (Cardinality(Outside) = 0 <=> Outside = {})
<1>1. IsFiniteSet(RobSlots)
  <2>1. 0 \in Int /\ CHIRON_ROB_DEPTH - 1 \in Int
    BY WatchCircle
  <2> QED
    BY <2>1, FS_Interval DEF RobSlots
<1>2. Unresolved \subseteq RobSlots /\ Outside \subseteq RobSlots
  BY DEF Unresolved, Outside, Rose
<1>3. IsFiniteSet(Unresolved) /\ IsFiniteSet(Outside)
  BY <1>1, <1>2, FS_Subset
<1> QED
  BY <1>3, FS_EmptySet, FS_CardinalityType

(* A clock under tick_checked. *)
LEMMA CheckedTickOK == WatchIInv /\ tick_checked => WatchIInv'
<1> SUFFICES ASSUME WatchIInv, tick_checked PROVE WatchIInv'
  OBVIOUS
<1>1. PICK p \in LegalPorts(rob) \cup (IF cmd.defect THEN WrongPorts(rob) ELSE {}) :
        /\ Shown(p)
        /\ inv' = check(inv, rob, p, cyc)
        /\ rr' = robready(rr, rob, p)
        /\ owed' = Owed(rob, p)
        /\ rob' = Edge(rob, p)
  BY DEF tick_checked
<1>2. p \in LegalPorts(rob) \cup WrongPorts(rob) /\ (~cmd.defect => p \in LegalPorts(rob))
  BY <1>1
<1>3. IsWatch /\ ~IsModify /\ cmd' = cmd /\ cyc' \in Nat
  BY DEF WatchIInv, tick_checked, IsWatch, IsModify
<1>4. BufferOK /\ SameMemory /\ Unexplained /\ (~cmd.defect => Explained)
  BY <1>3 DEF WatchIInv
<1> DEFINE alloc == p.alloc # "none"
<1>5. /\ inv'.prevRead = rob.rd /\ inv'.prevReady = rob.ready /\ inv'.pBev = p.bev
      /\ inv'.pAlloc = alloc /\ inv'.pWrite = rob.wr
      /\ inv'.pending = [s \in RobSlots |-> ~(alloc /\ s = rob.wr) /\ (s = p.bev \/ inv.pending[s])]
      /\ inv'.double = inv.double + (IF p.bev # None /\ inv.pending[p.bev] THEN 1 ELSE 0)
      /\ inv'.noResolve = inv.noResolve + Cardinality(Unresolved)
      /\ inv'.outside = inv.outside + Cardinality(Outside)
  BY <1>1 DEF check, Unresolved, Outside
<1>6. /\ rob'.ready = [s \in RobSlots |-> s \in {p.bev, p.exec} \/
                         IF alloc /\ s = rob.wr THEN p.alloc = "done" ELSE rob.ready[s]]
      /\ rob'.br = [s \in RobSlots |-> IF alloc /\ s = rob.wr THEN p.alloc = "br" ELSE rob.br[s]]
  BY <1>1 DEF Edge
<1>7. BufferOK'
  BY <1>1, <1>2, <1>4, EdgeOK
<1>8. SameMemory'
  <2>1. /\ rr'.prevRdy = rob.ready /\ rr'.prevBev = p.bev /\ rr'.prevAlloc = alloc /\ rr'.prevWr = rob.wr
        /\ rr'.pending = [s \in RobSlots |-> (rr.pending[s] /\ ~(alloc /\ s = rob.wr)) \/ s = p.bev]
    BY <1>1, Zenon DEF robready
  <2>2. inv'.pending = rr'.pending
    BY <1>2, <1>4, <1>5, <2>1, PortFacts DEF SameMemory
  <2>3. rr'.double = inv'.double
    <3>1. rr'.double = rr.double + (IF p.bev # None /\
             [s \in RobSlots |-> rr.pending[s] /\ ~(alloc /\ s = rob.wr)][p.bev] THEN 1 ELSE 0)
      BY <1>1 DEF robready
    <3>2. p.bev # None => p.bev \in RobSlots /\ ~(alloc /\ p.bev = rob.wr)
      BY <1>2, <1>4, PortFacts
    <3>3. CASE p.bev = None
      BY <1>4, <1>5, <3>1, <3>3 DEF SameMemory
    <3>4. CASE p.bev # None
      <4>1. [s \in RobSlots |-> rr.pending[s] /\ ~(alloc /\ s = rob.wr)][p.bev] <=> inv.pending[p.bev]
        BY <1>4, <3>2, <3>4 DEF SameMemory
      <4> QED
        BY <1>4, <1>5, <3>1, <3>4, <4>1 DEF SameMemory
    <3> QED
      BY <3>3, <3>4
  <2>4. rr'.noResolve = inv'.noResolve
    <3>1. rr'.noResolve = rr.noResolve + Cardinality({i \in RobSlots : rob.ready[i] /\ ~rr.prevRdy[i] /\ rob.br[i]
                            /\ rr.prevBev # i /\ ~(rr.prevAlloc /\ rr.prevWr = i)})
      BY <1>1 DEF robready
    <3>2. {i \in RobSlots : rob.ready[i] /\ ~rr.prevRdy[i] /\ rob.br[i]
             /\ rr.prevBev # i /\ ~(rr.prevAlloc /\ rr.prevWr = i)} = Unresolved
      BY <1>4 DEF SameMemory, Unresolved, Rose
    <3> QED
      BY <1>4, <1>5, <3>1, <3>2 DEF SameMemory
  <2> QED
    BY <1>5, <2>1, <2>2, <2>3, <2>4 DEF SameMemory
<1>9. Unexplained'
  <2>1. inv'.outside \in Nat /\ inv'.noResolve \in Nat
    BY <1>4, <1>5, AlarmSets DEF Unexplained
  <2>2. ASSUME NEW s \in RobSlots, s = p.exec, ~rob.ready[s], ~(alloc /\ s = rob.wr)
        PROVE  s \in Rose(inv', rob') /\ rob'.br[s] = rob.br[s]
    BY <1>5, <1>6, <2>2 DEF Rose
  <2>3. ASSUME NEW s \in owed'.outside
        PROVE  /\ s \in Rose(inv', rob') /\ ~in_window(s, inv'.prevRead, inv'.pWrite)
               /\ rob'.rd # rob'.wr => ~in_window(s, rob'.rd, rob'.wr)
    <3>1. /\ s = p.exec /\ s # None /\ ~rob.ready[s] /\ ~(alloc /\ s = rob.wr)
          /\ ~Live(rob, s) /\ rob.rd # rob.wr
      BY <1>1, <2>3 DEF Owed
    <3>2. s \in RobSlots
      BY <1>2, <1>4, <3>1, PortFacts
    <3>3. ~Live(rob', s)
      BY <1>1, <1>2, <1>4, <3>1, <3>2, EdgeOK
    <3>4. ~in_window(s, rob.rd, rob.wr)
      BY <1>4, <3>1, <3>2, WindowIsLive DEF BufferOK
    <3>5. rob'.rd # rob'.wr => ~in_window(s, rob'.rd, rob'.wr)
      BY <1>7, <3>2, <3>3, WindowIsLive DEF BufferOK
    <3> QED
      BY <1>5, <2>2, <3>1, <3>2, <3>4, <3>5
  <2>4. ASSUME NEW s \in owed'.branch
        PROVE  s \in Rose(inv', rob') /\ rob'.br[s] /\ inv'.pBev # s
    <3>1. /\ s = p.exec /\ s # None /\ ~rob.ready[s] /\ ~(alloc /\ s = rob.wr)
          /\ rob.br[s] /\ p.bev # s
      BY <1>1, <2>4 DEF Owed
    <3>2. s \in RobSlots
      BY <1>2, <1>4, <3>1, PortFacts
    <3> QED
      BY <1>5, <2>2, <3>1, <3>2
  <2> QED
    BY <2>1, <2>3, <2>4 DEF Unexplained
<1>10. ASSUME ~cmd.defect PROVE Explained'
  <2>1. p \in LegalPorts(rob) /\ Explained
    BY <1>2, <1>4, <1>10
  <2>2. Unresolved = {} /\ Outside = {}
    BY <2>1 DEF Explained, Unresolved, Outside
  <2>3. p.bev # None => ~rob.ready[p.bev] /\ p.bev \in RobSlots
    BY <1>4, <2>1, LegalFacts DEF Unfinished
  <2>4. inv'.noResolve = 0 /\ inv'.outside = 0 /\ inv'.double = 0
    BY <1>5, <2>1, <2>2, <2>3, AlarmSets DEF Explained
  <2>5. \A s \in RobSlots : inv'.pending[s] => rob'.ready[s]
    BY <1>5, <1>6, <2>1 DEF Explained
  <2>6. ASSUME NEW i \in Rose(inv', rob')
        PROVE  /\ inv'.prevRead # None /\ in_window(i, inv'.prevRead, inv'.pWrite)
               /\ rob'.br[i] => inv'.pBev = i
    <3>1. i \in RobSlots /\ rob'.ready[i] /\ ~rob.ready[i] /\ ~(alloc /\ rob.wr = i)
      BY <1>5, <2>6 DEF Rose
    <3>2. i = p.bev \/ i = p.exec
      BY <1>6, <3>1
    <3>3. i # None /\ rob.rd # None
      BY <1>4, <3>1, WatchCircle DEF BufferOK, PointersFit, RobSlots, None
    <3>4. Live(rob, i) /\ (rob.br[i] => i = p.bev)
      BY <1>4, <2>1, <3>2, <3>3, LegalFacts DEF Unfinished
    <3>5. rob'.br[i] = rob.br[i]
      BY <1>6, <3>1
    <3> QED
      BY <1>4, <1>5, <3>1, <3>3, <3>4, <3>5, WindowIsLive DEF BufferOK
  <2> QED
    BY <2>4, <2>5, <2>6 DEF Explained
<1> QED
  BY <1>3, <1>7, <1>8, <1>9, <1>10 DEF WatchIInv, IsWatch, IsModify
-----------------------------------------------------------------------------
(* A clock of robmodify_probe. *)
LEMMA ModifyOK == WatchIInv /\ ModifyClock => WatchIInv'
<1> SUFFICES ASSUME WatchIInv, ModifyClock PROVE WatchIInv'
  OBVIOUS
<1>1. PICK p \in LegalPorts(rob) \cup (IF cmd.defect THEN WrongPorts(rob) ELSE {}) :
        /\ owed' = Owed(rob, p)
        /\ rob' = Edge(rob, p)
        /\ rm' = robmodify(rm, rob, p, rob')
  BY DEF ModifyClock
<1>2. p \in LegalPorts(rob) \cup WrongPorts(rob)
  BY <1>1
<1>3. ~IsWatch /\ IsModify /\ cmd' = cmd /\ cyc' \in Nat
  BY DEF WatchIInv, ModifyClock, IsWatch, IsModify
<1>4. BufferOK /\ rm.grew = 0 /\ rm.oow = owed.stale /\ owed.stale \in Nat
  BY <1>3 DEF WatchIInv
<1>5. BufferOK'
  BY <1>1, <1>2, <1>4, EdgeOK
<1> DEFINE modify == p.bev # None /\ ~p.pass
<1>6. Occupancy(rob) = rob.n /\ Occupancy(rob') = rob'.n
  <2>1. \A r : PointersFit(r) => Occupancy(r) = r.n
    BY DEF PointersFit, Occupancy
  <2> QED
    BY <1>4, <1>5, <2>1 DEF BufferOK
<1>7. rm'.grew = 0
  <2>1. rm'.grew = rm.grew + (IF modify /\ rob'.n > rob.n THEN 1 ELSE 0)
    BY <1>1, <1>6 DEF robmodify
  <2>2. modify => rob'.n <= rob.n
    BY <1>1, <1>2, <1>4, EdgeOK
  <2>3. rob.n \in Nat /\ rob'.n \in Nat
    BY <1>4, <1>5 DEF BufferOK, PointersFit
  <2> QED
    BY <1>4, <2>1, <2>2, <2>3
<1>8. rm'.oow = owed'.stale /\ owed'.stale \in Nat
  <2>1. rm'.oow = rm.oow + (IF modify /\ Off(p.bev, rob.rd) >= rob.n THEN 1 ELSE 0)
    BY <1>1, <1>6 DEF robmodify
  <2>2. owed'.stale = IF modify /\ ~Live(rob, p.bev) THEN owed.stale + 1 ELSE owed.stale
    BY <1>1 DEF Owed
  <2>3. modify => (~Live(rob, p.bev) <=> Off(p.bev, rob.rd) >= rob.n)
    <3>a. rob.rd \in RobSlots /\ rob.n \in Int
      BY <1>4 DEF BufferOK, PointersFit
    <3>b. modify => p.bev \in RobSlots
      BY <1>2, <1>4, PortFacts
    <3>c. \A s, t \in RobSlots : Off(s, t) \in Int
      BY WatchCircle DEF RobSlots
    <3>1. modify => Off(p.bev, rob.rd) \in Int /\ rob.n \in Int
      BY <3>a, <3>b, <3>c
    <3> QED
      BY <3>1 DEF Live
  <2> QED
    BY <1>4, <2>1, <2>2, <2>3
<1> QED
  BY <1>3, <1>5, <1>7, <1>8 DEF WatchIInv, IsWatch, IsModify

(* A clock of robhead_probe. *)
LEMMA HeadOK == WatchIInv /\ HeadClock => WatchIInv'
<1> SUFFICES ASSUME WatchIInv, HeadClock PROVE WatchIInv'
  OBVIOUS
<1>1. PICK p \in LegalPorts(rob) : rob' = rob \/ rob' = Edge(rob, p)
  BY DEF HeadClock
<1>2. ~IsWatch /\ ~IsModify /\ cmd' = cmd /\ cyc' \in Nat
  BY DEF WatchIInv, HeadClock, IsHead, IsWatch, IsModify
<1>3. BufferOK'
  <2>1. CASE rob' = rob
    BY <2>1 DEF WatchIInv, BufferOK
  <2>2. CASE rob' = Edge(rob, p)
    BY <2>2, EdgeOK DEF WatchIInv
  <2> QED
    BY <1>1, <2>1, <2>2
<1> QED
  BY <1>2, <1>3 DEF WatchIInv, IsWatch, IsModify

LEMMA WatchStep == WatchIInv /\ [WatchNext]_<<cmd, watchVars>> => WatchIInv'
<1>1. WatchIInv /\ UNCHANGED <<cmd, watchVars>> => WatchIInv'
  BY DEF watchVars, WatchIInv, BufferOK, SameMemory, Unexplained, Explained, IsWatch, IsModify
<1> QED
  BY <1>1, CheckedTickOK, ModifyOK, HeadOK DEF WatchNext

(* For every depth of the buffer, the checkers of invariants.h and          *)
(* robready_probe never accuse a correct core and count the same events,    *)
(* and robmodify_probe counts exactly the rollbacks whose target has gone.  *)
THEOREM RobWatchSafety == WatchSpec => []RobWatchSound
<1>1. WatchIInv => RobWatchSound
  BY DEF WatchIInv, SameMemory, Explained, RobWatchSound, RobNoAlarm, ObserversAgree, RollbackCounts
<1> QED
  BY <1>1, WatchInitOK, WatchStep, PTL DEF WatchSpec

(* For every depth of the buffer, a completion of a slot nobody owns, or of *)
(* a branch that has not resolved, is counted in the next clock.            *)
THEOREM StaleIsReported == WatchSpec => StaleReported
<1>1. ASSUME WatchIInv, [WatchNext]_<<cmd, watchVars>>, IsWatch, cyc' > cyc
      PROVE  /\ (owed.outside # {} /\ rob.rd # rob.wr) => inv'.outside > inv.outside
             /\ owed.branch # {} => inv'.noResolve > inv.noResolve
  <2>1. Unexplained
    BY <1>1 DEF WatchIInv
  <2>2. tick_checked
    <3>1. ~ModifyClock /\ ~HeadClock
      BY <1>1 DEF ModifyClock, HeadClock, IsModify, IsHead, IsWatch
    <3>2. ~UNCHANGED <<cmd, watchVars>>
      BY <1>1 DEF WatchIInv, watchVars
    <3> QED
      BY <1>1, <3>1, <3>2 DEF WatchNext
  <2>3. PICK p : inv' = check(inv, rob, p, cyc)
    BY <2>2 DEF tick_checked
  <2>4. /\ inv'.noResolve = inv.noResolve + Cardinality(Unresolved)
        /\ inv'.outside = inv.outside + Cardinality(Outside)
    BY <2>3 DEF check, Unresolved, Outside
  <2>5. owed.branch \subseteq Unresolved
    BY <2>1 DEF Unexplained, Unresolved
  <2>6. rob.rd # rob.wr => owed.outside \subseteq Outside
    BY <2>1 DEF Unexplained, Outside
  <2> QED
    BY <2>1, <2>4, <2>5, <2>6, AlarmSets DEF Unexplained
<1> QED
  BY <1>1, WatchInitOK, WatchStep, PTL DEF WatchSpec, StaleReported
-----------------------------------------------------------------------------
HIDE HartCount DEF Harts

(* The profilers.  Every clock is counted once, and a stall under its class. *)
Counts(c) ==
  /\ \A s \in Slots : c[s] \in Nat
  /\ c[29] = c[31] + c[35] /\ c[30] = c[36] /\ c[1] + c[29] + c[30] <= c[0]

(* What the reports are made of: a reading of the 41 slots. *)
Reading(c) == Counts(c) /\ \A k \in (0 .. 40) \ Slots : c[k] = 0

Reasons == {"commit", "load", "alu", "store", "empty"}

CountersOK ==
  /\ perf \in [Harts -> [Slots -> Nat]] /\ \A h \in Harts : Counts(perf[h])
  /\ \A h \in Harts : robOut[h].what \in Reasons

LEMMA MovesOK ==
  ASSUME NEW c, NEW d, Counts(c), NEW what \in Reasons,
         \A s \in Slots : d[s] = c[s] + (IF s \in Moves(what) THEN 1 ELSE 0)
  PROVE  Counts(d)
<1>1. /\ c[0] \in Nat /\ c[1] \in Nat /\ c[29] \in Nat /\ c[30] \in Nat /\ c[31] \in Nat /\ c[35] \in Nat /\ c[36] \in Nat
      /\ c[29] = c[31] + c[35] /\ c[30] = c[36] /\ c[1] + c[29] + c[30] <= c[0]
  BY DEF Counts, Slots
<1>2. \A s \in Slots : d[s] \in Nat
  BY DEF Counts
<1>3. CASE what = "commit"
  <2>1. Moves(what) = {0, 1}
    BY <1>3 DEF Moves
  <2>2. /\ d[0] = c[0] + 1 /\ d[1] = c[1] + 1 /\ d[29] = c[29] + 0 /\ d[30] = c[30] + 0
        /\ d[31] = c[31] + 0 /\ d[35] = c[35] + 0 /\ d[36] = c[36] + 0
    BY <2>1 DEF Slots
  <2> QED
    BY <1>1, <1>2, <2>2 DEF Counts
<1>4. CASE what = "load"
  <2>1. Moves(what) = {0, 29, 31}
    BY <1>4 DEF Moves
  <2>2. /\ d[0] = c[0] + 1 /\ d[1] = c[1] + 0 /\ d[29] = c[29] + 1 /\ d[30] = c[30] + 0
        /\ d[31] = c[31] + 1 /\ d[35] = c[35] + 0 /\ d[36] = c[36] + 0
    BY <2>1 DEF Slots
  <2> QED
    BY <1>1, <1>2, <2>2 DEF Counts
<1>5. CASE what = "alu"
  <2>1. Moves(what) = {0, 29, 35}
    BY <1>5 DEF Moves
  <2>2. /\ d[0] = c[0] + 1 /\ d[1] = c[1] + 0 /\ d[29] = c[29] + 1 /\ d[30] = c[30] + 0
        /\ d[31] = c[31] + 0 /\ d[35] = c[35] + 1 /\ d[36] = c[36] + 0
    BY <2>1 DEF Slots
  <2> QED
    BY <1>1, <1>2, <2>2 DEF Counts
<1>6. CASE what = "store"
  <2>1. Moves(what) = {0, 30, 36}
    BY <1>6 DEF Moves
  <2>2. /\ d[0] = c[0] + 1 /\ d[1] = c[1] + 0 /\ d[29] = c[29] + 0 /\ d[30] = c[30] + 1
        /\ d[31] = c[31] + 0 /\ d[35] = c[35] + 0 /\ d[36] = c[36] + 1
    BY <2>1 DEF Slots
  <2> QED
    BY <1>1, <1>2, <2>2 DEF Counts
<1>7. CASE what = "empty"
  <2>1. Moves(what) = {0}
    BY <1>7 DEF Moves
  <2>2. /\ d[0] = c[0] + 1 /\ d[1] = c[1] + 0 /\ d[29] = c[29] + 0 /\ d[30] = c[30] + 0
        /\ d[31] = c[31] + 0 /\ d[35] = c[35] + 0 /\ d[36] = c[36] + 0
    BY <2>1 DEF Slots
  <2> QED
    BY <1>1, <1>2, <2>2 DEF Counts
<1> QED
  BY <1>3, <1>4, <1>5, <1>6, <1>7 DEF Reasons

(* An edge of the cores' clock, for either harness. *)
LEMMA CoresOK ==
  ASSUME cmd \in Commands, IsProfile \/ IsQuad, CountersOK, CoresClock
  PROVE  CountersOK' /\ \A h \in Harts : Reading(CountersNow(h))
<1>1. cmd.waits \subseteq {"load", "alu", "store", "empty"}
  BY ProfilerCommands DEF IsProfile, IsQuad
<1>2. \A h \in Harts : robOut'[h].what \in Reasons
  BY <1>1 DEF CoresClock, Reasons
<1>3. ASSUME NEW h \in Harts PROVE perf'[h] \in [Slots -> Nat] /\ Counts(perf'[h])
  <2>1. PICK c \in [Slots -> Nat] : c = perf[h] /\ Counts(c)
    BY DEF CountersOK
  <2>2. PICK what \in Reasons : what = robOut[h].what
    BY DEF CountersOK
  <2>3. perf'[h] = [s \in Slots |-> c[s] + (IF s \in Moves(what) THEN 1 ELSE 0)]
    BY <2>1, <2>2 DEF CoresClock
  <2>4. PICK d : d = perf'[h]
    OBVIOUS
  <2>5. \A s \in Slots : d[s] = c[s] + (IF s \in Moves(what) THEN 1 ELSE 0)
    BY <2>3, <2>4
  <2>6. Counts(d)
    BY <2>1, <2>5, MovesOK
  <2>7. d \in [Slots -> Nat]
    BY <2>3, <2>4
  <2> QED
    BY <2>4, <2>6, <2>7
<1>4. perf' \in [Harts -> [Slots -> Nat]]
  BY <1>3 DEF CoresClock
<1>5. ASSUME NEW h \in Harts PROVE Reading(CountersNow(h))
  <2>1. PICK d : d = perf'[h]
    OBVIOUS
  <2>2. PICK c : c = CountersNow(h)
    OBVIOUS
  <2>3. c = [k \in 0 .. 40 |-> IF k \in Slots THEN d[k] ELSE 0]
    BY <2>1, <2>2 DEF CountersNow
  <2>4. Slots \subseteq 0 .. 40 /\ {0, 1, 29, 30, 31, 35, 36} \subseteq Slots
    BY DEF Slots
  <2>5. \A s \in Slots : c[s] = d[s]
    BY <2>3, <2>4
  <2>6. Counts(d)
    BY <1>3, <2>1
  <2>7. Counts(c)
    BY <2>4, <2>5, <2>6 DEF Counts
  <2>8. \A k \in (0 .. 40) \ Slots : c[k] = 0
    BY <2>3
  <2> QED
    BY <2>2, <2>7, <2>8 DEF Reading
<1> QED
  BY <1>2, <1>3, <1>4, <1>5 DEF CountersOK

(* A report's raw fields add up when they come from one reading. *)
LEMMA SplitsOf ==
  ASSUME NEW r, Reading(r)
  PROVE  /\ Splits(metrics_from(r).raw)
         /\ metrics_from(r).raw.cycles = r[0] /\ metrics_from(r).raw.inst_retired = r[1]
<1>1. PICK raw : raw = metrics_from(r).raw
  OBVIOUS
<1>2. raw = [f \in DOMAIN RawSlots |-> r[RawSlots[f]]]
  BY <1>1 DEF metrics_from
<1>3. /\ raw.cycles = r[0] /\ raw.inst_retired = r[1]
      /\ raw.rob_head_not_ready = r[29] /\ raw.rob_ready_blocked = r[30]
  BY <1>2 DEF RawSlots
<1>4. /\ raw.hnr_load = r[31] /\ raw.hnr_branch = r[32] /\ raw.hnr_mext = r[33]
      /\ raw.hnr_amo = r[34] /\ raw.hnr_other = r[35]
  BY <1>2 DEF RawSlots
<1>5. raw.rnr_store_gate = r[36] /\ raw.rnr_wb_gate = r[37] /\ raw.rnr_load_gate = r[38]
  BY <1>2 DEF RawSlots
<1>6. /\ r[0] \in Nat /\ r[1] \in Nat /\ r[29] \in Nat /\ r[30] \in Nat /\ r[31] \in Nat /\ r[35] \in Nat /\ r[36] \in Nat
      /\ r[29] = r[31] + r[35] /\ r[30] = r[36] /\ r[1] + r[29] + r[30] <= r[0]
  BY DEF Reading, Counts, Slots
<1>7. r[32] = 0 /\ r[33] = 0 /\ r[34] = 0 /\ r[37] = 0 /\ r[38] = 0
  BY DEF Reading, Slots
<1>8. Splits(raw)
  BY <1>3, <1>4, <1>5, <1>6, <1>7 DEF Splits
<1> QED
  BY <1>1, <1>3, <1>8

(* Blocks.  K of them are full, and the hart's window describes the rest. *)
Works(log, K) == {b \in 1 .. K : Wide(log, b)}

Bounded(log, a, z, lo, hi) ==
  /\ \A i \in a .. z : lo <= log[i][1] /\ log[i][1] <= hi
  /\ \E i \in a .. z : log[i][1] = lo
  /\ \E i \in a .. z : log[i][1] = hi

LastWork(log, W, c) ==
  \E b \in W : (\A y \in W : y <= b) /\ c[0] = log[b * BLOCK_COMMITS][2] /\ c[1] = log[b * BLOCK_COMMITS][3]

Tiles(w, log, K) ==
  /\ Len(log) = K * BLOCK_COMMITS + w.n
  /\ w.n # 0 => Bounded(log, K * BLOCK_COMMITS + 1, Len(log), w.lo, w.hi)
  /\ w.spin = BLOCK_COMMITS * Cardinality((1 .. K) \ Works(log, K))
  /\ w.have_snap <=> Works(log, K) # {}
  /\ w.have_snap => Reading(w.snap) /\ LastWork(log, Works(log, K), w.snap)

Commits == Seq(Nat \X Nat \X Nat)

LEMMA BlockIn ==
  ASSUME NEW K \in Nat, NEW b \in 1 .. K
  PROVE  Block(b) \subseteq 1 .. K * BLOCK_COMMITS /\ b * BLOCK_COMMITS \in 1 .. K * BLOCK_COMMITS
<1> USE ProfilerAssumption
<1>1. PICK B \in Nat : B = BLOCK_COMMITS /\ B > 0
  OBVIOUS
<1>2. PICK d \in Nat, e \in Nat : K = b + d /\ b = e + 1
  <2>1. K - b \in Nat /\ K = b + (K - b) /\ b - 1 \in Nat /\ b = (b - 1) + 1
    OBVIOUS
  <2> QED
    BY <2>1
<1>3. PICK x \in Nat, y \in Nat : x = e * B /\ y = d * B
  BY <1>1
<1>4. b * B = x + B /\ K * B = x + B + y /\ (b - 1) * B = x
  BY <1>1, <1>2, <1>3
<1> QED
  BY <1>1, <1>4 DEF Block

(* Another commit leaves the full blocks alone. *)
LEMMA WorksKept ==
  ASSUME NEW log \in Commits, NEW e \in Nat \X Nat \X Nat, NEW K \in Nat, K * BLOCK_COMMITS <= Len(log)
  PROVE  /\ Works(Append(log, e), K) = Works(log, K)
         /\ \A b \in 1 .. K : Append(log, e)[b * BLOCK_COMMITS] = log[b * BLOCK_COMMITS]
<1> USE ProfilerAssumption
<1>1. PICK l \in Commits, n \in Nat : l = log /\ n = Len(l)
  BY DEF Commits
<1>2. PICK m : m = Append(l, e)
  OBVIOUS
<1>3. \A i \in 1 .. n : m[i] = l[i]
  BY <1>1, <1>2 DEF Commits
<1>4. PICK z \in Nat : z = K * BLOCK_COMMITS /\ z <= n
  BY <1>1
<1>5. ASSUME NEW b \in 1 .. K
      PROVE  (\A i \in Block(b) : m[i] = l[i]) /\ m[b * BLOCK_COMMITS] = l[b * BLOCK_COMMITS]
  <2>1. Block(b) \subseteq 1 .. z /\ b * BLOCK_COMMITS \in 1 .. z
    BY <1>4, BlockIn
  <2>2. 1 .. z \subseteq 1 .. n
    BY <1>4
  <2> QED
    BY <1>3, <2>1, <2>2
<1>6. \A b \in 1 .. K : Wide(m, b) <=> Wide(l, b)
  BY <1>5 DEF Wide
<1> QED
  BY <1>1, <1>2, <1>5, <1>6 DEF Works

(* The bounds of a block that grows by one commit. *)
LEMMA BoundsGrow ==
  ASSUME NEW log \in Commits, NEW e \in Nat \X Nat \X Nat, NEW a \in Nat \ {0}, a <= Len(log) + 1,
         NEW lo, NEW hi, a <= Len(log) => Bounded(log, a, Len(log), lo, hi), NEW lo2, NEW hi2,
         lo2 = (IF a = Len(log) + 1 \/ e[1] < lo THEN e[1] ELSE lo),
         hi2 = (IF a = Len(log) + 1 \/ e[1] > hi THEN e[1] ELSE hi)
  PROVE  Bounded(Append(log, e), a, Len(log) + 1, lo2, hi2)
<1>1. PICK l \in Commits, n \in Nat : l = log /\ n = Len(l)
  BY DEF Commits
<1>2. PICK m : m = Append(l, e)
  OBVIOUS
<1>3. m[n + 1] = e /\ \A i \in 1 .. n : m[i] = l[i]
  BY <1>1, <1>2 DEF Commits
<1>4. PICK p \in Nat : p = e[1]
  OBVIOUS
<1>5. CASE a = n + 1
  <2>1. lo2 = p /\ hi2 = p
    BY <1>1, <1>4, <1>5
  <2>2. \A i \in a .. n + 1 : m[i][1] = p
    BY <1>3, <1>4, <1>5
  <2>3. n + 1 \in a .. n + 1
    BY <1>5
  <2>4. Bounded(m, a, n + 1, p, p)
    BY <2>2, <2>3 DEF Bounded
  <2> QED
    BY <1>1, <1>2, <2>1, <2>4
<1>6. CASE a # n + 1
  <2>1. a <= n /\ Bounded(l, a, n, lo, hi)
    BY <1>1, <1>6
  <2>2. PICK x \in a .. n, y \in a .. n : l[x][1] = lo /\ l[y][1] = hi
    BY <2>1 DEF Bounded
  <2>3. \A i \in a .. n : l[i][1] \in Nat
    <3>1. \A i \in 1 .. n : l[i] \in Nat \X Nat \X Nat
      BY <1>1, ElementOfSeq DEF Commits
    <3> QED
      BY <3>1
  <2>4. lo \in Nat /\ hi \in Nat /\ \A i \in a .. n : lo <= l[i][1] /\ l[i][1] <= hi
    BY <2>1, <2>2, <2>3 DEF Bounded
  <2>5. PICK u \in Nat, v \in Nat : u = lo2 /\ v = hi2
    BY <1>4, <2>4
  <2>6. u = (IF p < lo THEN p ELSE lo) /\ v = (IF p > hi THEN p ELSE hi)
    BY <1>1, <1>4, <1>6, <2>5
  <2>7. \A i \in a .. n + 1 : u <= m[i][1] /\ m[i][1] <= v
    <3> SUFFICES ASSUME NEW i \in a .. n + 1 PROVE u <= m[i][1] /\ m[i][1] <= v
      OBVIOUS
    <3>1. CASE i = n + 1
      BY <1>3, <1>4, <2>4, <2>6, <3>1, SMTT(30)
    <3>2. CASE i # n + 1
      <4>1. i \in a .. n /\ i \in 1 .. n
        BY <3>2
      <4>2. m[i][1] = l[i][1] /\ l[i][1] \in Nat /\ lo <= l[i][1] /\ l[i][1] <= hi
        BY <1>3, <2>3, <2>4, <4>1
      <4> QED
        BY <2>4, <2>6, <4>2, SMTT(30)
    <3> QED
      BY <3>1, <3>2
  <2>8. \A i \in {x, y, n + 1} : i \in a .. n + 1
    BY <2>1
  <2>9. m[x][1] = lo /\ m[y][1] = hi /\ m[n + 1][1] = p
    BY <1>3, <1>4, <2>2
  <2>10. (\E i \in a .. n + 1 : m[i][1] = u) /\ (\E i \in a .. n + 1 : m[i][1] = v)
    BY <2>6, <2>8, <2>9
  <2>11. Bounded(m, a, n + 1, u, v)
    BY <2>7, <2>10 DEF Bounded
  <2> QED
    BY <1>1, <1>2, <2>5, <2>11
<1> QED
  BY <1>5, <1>6

(* A block whose bounds are known is work when they are far enough apart. *)
LEMMA WideIs ==
  ASSUME NEW m \in Commits, NEW b \in Nat \ {0}, b * BLOCK_COMMITS <= Len(m), NEW lo \in Nat, NEW hi \in Nat,
         Bounded(m, (b - 1) * BLOCK_COMMITS + 1, b * BLOCK_COMMITS, lo, hi)
  PROVE  Wide(m, b) <=> hi - lo > WORK_SPAN
<1> USE ProfilerAssumption
<1>1. PICK n \in Nat : n = Len(m)
  BY DEF Commits
<1>2. Block(b) \subseteq 1 .. n
  <2>1. Block(b) \subseteq 1 .. b * BLOCK_COMMITS
    BY BlockIn
  <2>2. b * BLOCK_COMMITS \in Nat
    OBVIOUS
  <2> QED
    BY <1>1, <2>1, <2>2
<1>3. \A i \in Block(b) : m[i][1] \in Nat
  <2>1. \A i \in 1 .. n : m[i] \in Nat \X Nat \X Nat
    BY <1>1, ElementOfSeq DEF Commits
  <2> QED
    BY <1>2, <2>1
<1>4. Bounded(m, (b - 1) * BLOCK_COMMITS + 1, b * BLOCK_COMMITS, lo, hi) =>
        /\ \A i \in Block(b) : lo <= m[i][1] /\ m[i][1] <= hi
        /\ \E i \in Block(b) : m[i][1] = lo
        /\ \E i \in Block(b) : m[i][1] = hi
  BY DEF Bounded, Block
<1>5. /\ \A i \in Block(b) : lo <= m[i][1] /\ m[i][1] <= hi
      /\ \E i \in Block(b) : m[i][1] = lo
      /\ \E i \in Block(b) : m[i][1] = hi
  BY <1>4
<1>6. ASSUME hi - lo > WORK_SPAN PROVE Wide(m, b)
  BY <1>5, <1>6 DEF Wide
<1>7. ASSUME Wide(m, b) PROVE hi - lo > WORK_SPAN
  <2>1. PICK i \in Block(b), j \in Block(b) : m[i][1] - m[j][1] > WORK_SPAN
    BY <1>7 DEF Wide
  <2>2. m[i][1] \in Nat /\ m[j][1] \in Nat /\ m[i][1] <= hi /\ lo <= m[j][1]
    BY <1>3, <1>5
  <2>3. PICK x \in Nat : x = m[i][1]
    BY <2>2
  <2>4. PICK y \in Nat : y = m[j][1]
    BY <2>2
  <2>5. x - y > WORK_SPAN /\ x <= hi /\ lo <= y
    BY <2>1, <2>2, <2>3, <2>4
  <2> QED
    BY <2>5
<1> QED
  BY <1>6, <1>7

(* One more full block. *)
LEMMA WorksGrow ==
  ASSUME NEW m, NEW K \in Nat, NEW W, W = Works(m, K)
  PROVE  /\ Works(m, K + 1) = IF Wide(m, K + 1) THEN W \cup {K + 1} ELSE W
         /\ Cardinality((1 .. K) \ W) \in Nat
         /\ Cardinality((1 .. K + 1) \ Works(m, K + 1))
              = Cardinality((1 .. K) \ W) + (IF Wide(m, K + 1) THEN 0 ELSE 1)
<1>1. 1 .. K + 1 = (1 .. K) \cup {K + 1} /\ K + 1 \notin 1 .. K
  OBVIOUS
<1>2. W \subseteq 1 .. K
  BY DEF Works
<1>3. Works(m, K + 1) = IF Wide(m, K + 1) THEN W \cup {K + 1} ELSE W
  <2>1. \A b \in 1 .. K : b \in W <=> Wide(m, b)
    BY DEF Works
  <2>2. Works(m, K + 1) = {b \in (1 .. K) \cup {K + 1} : Wide(m, b)}
    BY <1>1, Zenon DEF Works
  <2>3. CASE Wide(m, K + 1)
    BY <1>2, <2>1, <2>2, <2>3
  <2>4. CASE ~Wide(m, K + 1)
    BY <1>2, <2>1, <2>2, <2>4
  <2> QED
    BY <2>3, <2>4
<1>4. PICK R : R = (1 .. K) \ W
  OBVIOUS
<1>5. IsFiniteSet(R) /\ K + 1 \notin R
  <2>1. 1 \in Int /\ K \in Int
    OBVIOUS
  <2>2. IsFiniteSet(1 .. K)
    BY <2>1, FS_Interval, Zenon
  <2>3. R \subseteq 1 .. K
    BY <1>4
  <2> QED
    BY <1>1, <2>2, <2>3, FS_Subset
<1>6. Cardinality(R) \in Nat /\ Cardinality(R \cup {K + 1}) = Cardinality(R) + 1
  BY <1>5, FS_CardinalityType, FS_AddElement
<1>7. (1 .. K + 1) \ Works(m, K + 1) = IF Wide(m, K + 1) THEN R ELSE R \cup {K + 1}
  BY <1>1, <1>2, <1>3, <1>4
<1> QED
  BY <1>3, <1>4, <1>6, <1>7

LEMMA AppendCommit ==
  ASSUME NEW log \in Commits, NEW e \in Nat \X Nat \X Nat
  PROVE  Append(log, e) \in Commits /\ Len(Append(log, e)) = Len(log) + 1 /\ Append(log, e)[Len(log) + 1] = e
<1>1. log \in Seq(Nat \X Nat \X Nat)
  BY DEF Commits
<1>2. Append(log, e) \in Seq(Nat \X Nat \X Nat) /\ Len(Append(log, e)) = Len(log) + 1 /\ Append(log, e)[Len(log) + 1] = e
  BY <1>1, AppendProperties
<1> QED
  BY <1>2 DEF Commits

(* sample() keeps the tiling. *)
LEMMA SampleTiles ==
  ASSUME NEW log \in Commits, NEW K \in Nat, NEW w, w.n \in 0 .. BLOCK_COMMITS - 1,
         w.have_snap \in BOOLEAN, Tiles(w, log, K),
         NEW pc \in Nat, NEW c, Reading(c), NEW e \in Nat \X Nat \X Nat, e = <<pc, c[0], c[1]>>
  PROVE  /\ sample(w, pc, c).n \in 0 .. BLOCK_COMMITS - 1 /\ sample(w, pc, c).have_snap \in BOOLEAN
         /\ \E J \in Nat : Tiles(sample(w, pc, c), Append(log, e), J)
<1> USE ProfilerAssumption
<1>1. PICK B \in Nat, k \in Nat : B = BLOCK_COMMITS /\ B > 0 /\ k = w.n /\ k < B
  OBVIOUS
<1>2. PICK n \in Nat, z \in Nat : n = Len(log) /\ z = K * B /\ n = z + k
  <2>1. K * B \in Nat /\ Len(log) = K * B + k
    BY <1>1 DEF Tiles
  <2>2. Len(log) \in Nat
    BY DEF Commits
  <2> QED
    BY <2>1, <2>2
<1>3. PICK m \in Commits : m = Append(log, e) /\ Len(m) = n + 1
  <2>1. Append(log, e) \in Commits /\ Len(Append(log, e)) = n + 1
    BY <1>2, AppendCommit, Zenon
  <2> QED
    BY <2>1, Zenon
<1>4. PICK lo, hi : /\ lo = (IF w.n = 0 \/ pc < w.lo THEN pc ELSE w.lo)
                    /\ hi = (IF w.n = 0 \/ pc > w.hi THEN pc ELSE w.hi)
  OBVIOUS
<1>5. Bounded(m, z + 1, n + 1, lo, hi)
  <2>1. z + 1 \in Nat \ {0} /\ z + 1 <= Len(log) + 1 /\ (z + 1 = Len(log) + 1 <=> w.n = 0) /\ e[1] = pc
    BY <1>1, <1>2
  <2>2. z + 1 <= Len(log) => Bounded(log, z + 1, Len(log), w.lo, w.hi)
    <3>1. z + 1 <= Len(log) => w.n # 0
      BY <1>1, <1>2
    <3> QED
      BY <1>1, <1>2, <3>1 DEF Tiles
  <2>3. /\ lo = (IF z + 1 = Len(log) + 1 \/ e[1] < w.lo THEN e[1] ELSE w.lo)
        /\ hi = (IF z + 1 = Len(log) + 1 \/ e[1] > w.hi THEN e[1] ELSE w.hi)
    BY <1>4, <2>1
  <2>4. Bounded(Append(log, e), z + 1, Len(log) + 1, lo, hi)
    BY <2>1, <2>2, <2>3, BoundsGrow
  <2> QED
    BY <1>2, <1>3, <2>4
<1>6. PICK W : W = Works(log, K)
  OBVIOUS
<1>7. W = Works(m, K) /\ \A b \in 1 .. K : m[b * BLOCK_COMMITS] = log[b * BLOCK_COMMITS]
  <2>1. K * BLOCK_COMMITS <= Len(log)
    BY <1>1, <1>2
  <2>2. /\ Works(Append(log, e), K) = Works(log, K)
        /\ \A b \in 1 .. K : Append(log, e)[b * BLOCK_COMMITS] = log[b * BLOCK_COMMITS]
    BY <2>1, WorksKept, ZenonT(40)
  <2> QED
    BY <1>3, <1>6, <2>2, Zenon
<1>8. /\ w.spin = BLOCK_COMMITS * Cardinality((1 .. K) \ W)
      /\ w.have_snap <=> W # {}
      /\ w.have_snap => Reading(w.snap) /\ LastWork(m, W, w.snap)
  <2>1. /\ w.spin = BLOCK_COMMITS * Cardinality((1 .. K) \ W)
        /\ w.have_snap <=> W # {}
        /\ w.have_snap => Reading(w.snap) /\ LastWork(log, W, w.snap)
    BY <1>6 DEF Tiles
  <2>2. W \subseteq 1 .. K
    BY <1>6 DEF Works
  <2>3. LastWork(log, W, w.snap) => LastWork(m, W, w.snap)
    BY <1>7, <2>2 DEF LastWork
  <2> QED
    BY <2>1, <2>3
<1>9. PICK v : v = sample(w, pc, c)
  OBVIOUS
<1>v. PICK last \in BOOLEAN, work \in BOOLEAN :
        (last <=> w.n + 1 >= BLOCK_COMMITS) /\ (work <=> hi - lo > WORK_SPAN)
  OBVIOUS
<1>s. /\ v.lo = (IF last THEN 0 ELSE lo) /\ v.hi = (IF last THEN 0 ELSE hi)
      /\ v.n = (IF last THEN 0 ELSE w.n + 1)
      /\ v.spin = (IF last /\ ~work THEN w.spin + BLOCK_COMMITS ELSE w.spin)
      /\ v.snap = (IF last /\ work THEN c ELSE w.snap)
  BY <1>4, <1>9, <1>v DEF sample
<1>h. v.have_snap = (w.have_snap \/ (last /\ work))
  BY <1>4, <1>9, <1>v DEF sample
<1>b. v.have_snap \in BOOLEAN
  BY <1>h
<1>10. CASE k + 1 < B
  <2>1. /\ v.lo = lo /\ v.hi = hi /\ v.n = k + 1 /\ v.spin = w.spin /\ v.snap = w.snap
        /\ v.have_snap <=> w.have_snap
    <3>1. ~last
      BY <1>1, <1>10, <1>v
    <3> QED
      BY <1>1, <1>s, <1>h, <3>1
  <2>2. Len(m) = K * BLOCK_COMMITS + v.n /\ Len(m) = n + 1 /\ K * BLOCK_COMMITS + 1 = z + 1
    <3>1. K * BLOCK_COMMITS = z /\ Len(m) = n + 1 /\ n = z + k /\ v.n = k + 1
      BY <1>1, <1>2, <1>3, <2>1
    <3> QED
      BY <3>1
  <2>3. Bounded(m, K * BLOCK_COMMITS + 1, Len(m), v.lo, v.hi)
    BY <1>5, <2>1, <2>2
  <2>4. Tiles(v, m, K)
    BY <1>7, <1>8, <2>1, <2>2, <2>3 DEF Tiles
  <2> QED
    <3>1. v.n \in 0 .. BLOCK_COMMITS - 1
      BY <1>1, <1>10, <2>1
    <3> QED
      BY <1>3, <1>9, <1>b, <2>4, <3>1, Zenon
<1>11. CASE k + 1 >= B
  <2>1. k + 1 = B
    BY <1>1, <1>11
  <2>2. last
    BY <1>1, <1>11, <1>v
  <2>3. /\ v.n = 0 /\ v.spin = (IF work THEN w.spin ELSE w.spin + BLOCK_COMMITS)
        /\ v.snap = (IF work THEN c ELSE w.snap) /\ (v.have_snap <=> w.have_snap \/ work)
    BY <1>s, <1>h, <2>2
  <2>4. (K + 1) * BLOCK_COMMITS = n + 1 /\ (K + 1 - 1) * BLOCK_COMMITS = z
    BY <1>1, <1>2, <2>1
  <2>5. Wide(m, K + 1) <=> work
    <3>1. lo \in Nat /\ hi \in Nat
      <4>1. PICK x \in z + 1 .. n + 1, y \in z + 1 .. n + 1 : m[x][1] = lo /\ m[y][1] = hi
        BY <1>5 DEF Bounded
      <4>2. \A i \in 1 .. n + 1 : m[i] \in Nat \X Nat \X Nat
        BY <1>3, ElementOfSeq DEF Commits
      <4>3. x \in 1 .. n + 1 /\ y \in 1 .. n + 1
        OBVIOUS
      <4> QED
        BY <4>1, <4>2, <4>3
    <3>2. Bounded(m, (K + 1 - 1) * BLOCK_COMMITS + 1, (K + 1) * BLOCK_COMMITS, lo, hi)
      BY <1>5, <2>4
    <3>3. K + 1 \in Nat \ {0} /\ (K + 1) * BLOCK_COMMITS <= Len(m)
      BY <1>3, <2>4
    <3> QED
      BY <1>v, <3>1, <3>2, <3>3, WideIs, SMTT(30)
  <2>6. PICK V : V = Works(m, K + 1)
    OBVIOUS
  <2>7. /\ V = IF work THEN W \cup {K + 1} ELSE W
        /\ Cardinality((1 .. K) \ W) \in Nat
        /\ Cardinality((1 .. K + 1) \ V) = Cardinality((1 .. K) \ W) + (IF work THEN 0 ELSE 1)
    BY <1>7, <2>5, <2>6, WorksGrow
  <2>8. v.spin = BLOCK_COMMITS * Cardinality((1 .. K + 1) \ V)
    <3>1. PICK x \in Nat : x = Cardinality((1 .. K) \ W)
      BY <2>7
    <3>2. w.spin = B * x /\ B * (x + 1) = B * x + B /\ B * x \in Nat
      BY <1>1, <1>8, <3>1
    <3> QED
      BY <1>1, <2>3, <2>7, <3>1, <3>2
  <2>9. v.have_snap <=> V # {}
    BY <1>8, <2>3, <2>7
  <2>10. ASSUME v.have_snap PROVE Reading(v.snap) /\ LastWork(m, V, v.snap)
    <3>1. CASE work
      <4>1. v.snap = c /\ V = W \cup {K + 1} /\ W \subseteq 1 .. K
        BY <1>6, <2>3, <2>7, <3>1 DEF Works
      <4>2. m[n + 1] = e
        <5>1. Append(log, e)[Len(log) + 1] = e
          BY AppendCommit, Zenon
        <5> QED
          BY <1>2, <1>3, <5>1, Zenon
      <4>3. c[0] = m[(K + 1) * BLOCK_COMMITS][2] /\ c[1] = m[(K + 1) * BLOCK_COMMITS][3]
        BY <2>4, <4>2
      <4>4. K + 1 \in V /\ \A y \in V : y <= K + 1
        BY <4>1
      <4> QED
        BY <4>1, <4>3, <4>4 DEF LastWork
    <3>2. CASE ~work
      BY <1>8, <2>3, <2>7, <2>10, <3>2
    <3> QED
      BY <3>1, <3>2
  <2>11. Len(m) = (K + 1) * BLOCK_COMMITS + v.n
    BY <1>3, <2>3, <2>4
  <2>12. Tiles(v, m, K + 1)
    BY <2>3, <2>6, <2>8, <2>9, <2>10, <2>11 DEF Tiles
  <2> QED
    <3>1. v.n \in 0 .. BLOCK_COMMITS - 1 /\ K + 1 \in Nat
      BY <1>1, <2>3
    <3> QED
      BY <1>3, <1>9, <1>b, <2>12, <3>1, Zenon
<1> QED
  BY <1>1, <1>10, <1>11

BlocksOK ==
  /\ commitsOf \in [Harts -> Commits] /\ DOMAIN win = Harts
  /\ \A h \in Harts : /\ win[h].n \in 0 .. BLOCK_COMMITS - 1 /\ win[h].have_snap \in BOOLEAN
                      /\ \E K \in Nat : Tiles(win[h], commitsOf[h], K)

LEMMA BlocksInit == ProfInit => BlocksOK
<1> SUFFICES ASSUME ProfInit PROVE BlocksOK
  OBVIOUS
<1> USE ProfilerAssumption
<1>1. commitsOf = [h \in Harts |-> << >>] /\ win = [h \in Harts |-> FreshWin]
  BY DEF ProfInit
<1>2. commitsOf \in [Harts -> Commits] /\ DOMAIN win = Harts
  BY <1>1 DEF Commits
<1>3. /\ FreshWin.n = 0 /\ FreshWin.spin = 0 /\ FreshWin.have_snap = FALSE
  BY DEF FreshWin
<1>4. 1 .. 0 = {} /\ Works(<< >>, 0) = {} /\ (1 .. 0) \ Works(<< >>, 0) = {} /\ Cardinality({}) = 0
  BY FS_EmptySet DEF Works
<1>5. Tiles(FreshWin, << >>, 0)
  <2>1. Len(<< >>) = 0 * BLOCK_COMMITS + 0 /\ BLOCK_COMMITS * 0 = 0
    OBVIOUS
  <2>2. FreshWin.spin = BLOCK_COMMITS * Cardinality((1 .. 0) \ Works(<< >>, 0))
    BY <1>3, <1>4, <2>1
  <2> QED
    BY <1>3, <1>4, <2>1, <2>2 DEF Tiles
<1>6. ASSUME NEW h \in Harts
      PROVE  /\ win[h].n \in 0 .. BLOCK_COMMITS - 1 /\ win[h].have_snap \in BOOLEAN
             /\ \E K \in Nat : Tiles(win[h], commitsOf[h], K)
  <2>1. win[h] = FreshWin /\ commitsOf[h] = << >>
    BY <1>1
  <2>2. FreshWin.n \in 0 .. BLOCK_COMMITS - 1 /\ 0 \in Nat
    BY <1>3
  <2>3. FreshWin.have_snap \in BOOLEAN
    BY <1>3, Zenon
  <2> QED
    BY <1>5, <2>1, <2>2, <2>3, Zenon
<1> QED
  BY <1>2, <1>6 DEF BlocksOK

LEMMA BlocksStep ==
  ASSUME cmd \in Commands, CountersOK, BlocksOK, QuadClock
  PROVE  BlocksOK'
<1>1. IsQuad /\ CoresClock
  BY DEF QuadClock
<1>2. CountersOK' /\ \A h \in Harts : Reading(CountersNow(h))
  BY <1>1, CoresOK
<1>3. win' = [h \in Harts |-> IF robOut'[h].what = "commit" THEN sample(win[h], robOut'[h].pc, CountersNow(h)) ELSE win[h]]
  BY DEF QuadClock
<1>4. commitsOf' = [h \in Harts |-> IF robOut'[h].what = "commit"
                      THEN Append(commitsOf[h], <<robOut'[h].pc, perf'[h][0], perf'[h][1]>>) ELSE commitsOf[h]]
  BY DEF QuadClock
<1>5. ASSUME NEW h \in Harts
      PROVE  /\ win'[h].n \in 0 .. BLOCK_COMMITS - 1 /\ win'[h].have_snap \in BOOLEAN
             /\ commitsOf'[h] \in Commits
             /\ \E K \in Nat : Tiles(win'[h], commitsOf'[h], K)
  <2>w. PICK w : w = win[h]
    OBVIOUS
  <2>l. PICK log \in Commits : log = commitsOf[h]
    BY DEF BlocksOK
  <2>1. w = win[h] /\ log = commitsOf[h]
    BY <2>w, <2>l
  <2>2. PICK K \in Nat : Tiles(w, log, K)
    BY <2>1 DEF BlocksOK
  <2>3. w.n \in 0 .. BLOCK_COMMITS - 1 /\ w.have_snap \in BOOLEAN
    BY <2>1 DEF BlocksOK
  <2>4. CASE robOut'[h].what # "commit"
    <3>1. win'[h] = w /\ commitsOf'[h] = log
      BY <1>3, <1>4, <2>1, <2>4
    <3> QED
      BY <2>2, <2>3, <3>1
  <2>5. CASE robOut'[h].what = "commit"
    <3>1. robOut'[h].pc \in Nat
      <4>1. robOut'[h].pc \in cmd.pcs[h]
        BY <1>1, <2>5 DEF CoresClock
      <4>2. cmd.pcs[h] \subseteq Nat
        BY <1>1, ProfilerCommands DEF IsQuad
      <4> QED
        BY <4>1, <4>2
    <3>2. PICK pc \in Nat : pc = robOut'[h].pc
      BY <3>1
    <3>3. PICK c : c = CountersNow(h) /\ Reading(c)
      BY <1>2
    <3>4. c[0] = perf'[h][0] /\ c[1] = perf'[h][1] /\ c[0] \in Nat /\ c[1] \in Nat
      <4>1. 0 \in Slots /\ 1 \in Slots /\ 0 \in 0 .. 40 /\ 1 \in 0 .. 40
        BY DEF Slots
      <4>2. c[0] = perf'[h][0] /\ c[1] = perf'[h][1]
        BY <3>3, <4>1 DEF CountersNow
      <4>3. c[0] \in Nat /\ c[1] \in Nat
        BY <3>3, <4>1 DEF Reading, Counts
      <4> QED
        BY <4>2, <4>3
    <3>5. PICK e \in Nat \X Nat \X Nat : e = <<pc, c[0], c[1]>>
      BY <3>4
    <3>6. win'[h] = sample(w, pc, c) /\ commitsOf'[h] = Append(log, e)
      BY <1>3, <1>4, <2>1, <2>5, <3>2, <3>3, <3>4, <3>5
    <3>7. /\ sample(w, pc, c).n \in 0 .. BLOCK_COMMITS - 1 /\ sample(w, pc, c).have_snap \in BOOLEAN
          /\ \E J \in Nat : Tiles(sample(w, pc, c), Append(log, e), J)
      BY <2>2, <2>3, <3>3, <3>5, SampleTiles
    <3>8. Append(log, e) \in Commits
      BY AppendCommit
    <3> QED
      BY <3>6, <3>7, <3>8
  <2> QED
    BY <2>4, <2>5
<1>6. DOMAIN win' = Harts /\ commitsOf' \in [Harts -> Commits]
  <2>1. DOMAIN commitsOf' = Harts /\ commitsOf' = [h \in Harts |-> commitsOf'[h]]
    BY <1>4
  <2> QED
    BY <1>3, <1>5, <2>1
<1> QED
  BY <1>5, <1>6 DEF BlocksOK

(* The work region and the spin of a report, from the tiling. *)
LEMMA WorkReported ==
  ASSUME BlocksOK, CountersOK, NEW h \in Harts, NEW core, NEW r, Reading(r),
         core.raw = metrics_from(r).raw, core.spin = <<win[h].spin, safe_max1(win[h].commits)>>,
         core.work = (IF win[h].have_snap THEN metrics_from(win[h].snap) ELSE metrics_from(r)).raw
  PROVE  /\ core.spin[1] = BLOCK_COMMITS * Cardinality(FullBlocks(commitsOf[h]) \ WorkBlocks(commitsOf[h]))
         /\ WorkBlocks(commitsOf[h]) = {} => core.work = core.raw
         /\ \A b \in WorkBlocks(commitsOf[h]) :
              (\A y \in WorkBlocks(commitsOf[h]) : y <= b) =>
                /\ core.work.cycles = commitsOf[h][b * BLOCK_COMMITS][2]
                /\ core.work.inst_retired = commitsOf[h][b * BLOCK_COMMITS][3]
         /\ Splits(core.raw) /\ Splits(core.work)
<1> USE ProfilerAssumption
<1>w. PICK w : w = win[h]
  OBVIOUS
<1>l. PICK log \in Commits : log = commitsOf[h]
  BY DEF BlocksOK
<1>1. w = win[h] /\ log = commitsOf[h] /\ w.n \in 0 .. BLOCK_COMMITS - 1 /\ w.have_snap \in BOOLEAN
  BY <1>w, <1>l DEF BlocksOK
<1>2. PICK K \in Nat : Tiles(w, log, K)
  BY <1>1 DEF BlocksOK
<1>3. Len(log) \div BLOCK_COMMITS = K
  <2>1. PICK B \in Nat, k \in Nat, n \in Nat : B = BLOCK_COMMITS /\ B > 0 /\ k = w.n /\ k < B /\ n = Len(log)
    <3>1. Len(log) \in Nat
      BY DEF Commits
    <3>2. w.n \in Nat /\ w.n < BLOCK_COMMITS /\ BLOCK_COMMITS > 0 /\ BLOCK_COMMITS \in Nat
      BY <1>1
    <3> QED
      BY <3>1, <3>2, Zenon
  <2>2. PICK z \in Nat : z = K * B
    BY <2>1
  <2>3. n = z + k
    <3>1. Len(log) = K * BLOCK_COMMITS + w.n
      BY <1>2 DEF Tiles
    <3> QED
      BY <2>1, <2>2, <3>1
  <2>4. n \div B = K
    <3>1. PICK q \in Nat : q = n \div B
      BY <2>1, SMTT(30)
    <3>2. q * B <= n /\ n < q * B + B
      BY <2>1, <3>1
    <3>3. CASE q < K
      <4>1. PICK d \in Nat : K = q + 1 + d
        <5>1. K - q - 1 \in Nat /\ K = q + 1 + (K - q - 1)
          BY <3>3
        <5> QED
          BY <5>1
      <4>2. z = q * B + B + d * B /\ d * B \in Nat /\ q * B \in Nat
        BY <2>1, <2>2, <4>1
      <4> QED
        BY <2>3, <3>2, <4>2
    <3>4. CASE q > K
      <4>1. PICK d \in Nat : q = K + 1 + d
        <5>1. q - K - 1 \in Nat /\ q = K + 1 + (q - K - 1)
          BY <3>4
        <5> QED
          BY <5>1
      <4>2. q * B = z + B + d * B /\ d * B \in Nat
        BY <2>1, <2>2, <4>1
      <4> QED
        BY <2>1, <2>3, <3>2, <4>2
    <3> QED
      BY <3>1, <3>3, <3>4
  <2> QED
    BY <2>1, <2>4
<1>4. FullBlocks(log) = 1 .. K /\ WorkBlocks(log) = Works(log, K)
  BY <1>3 DEF FullBlocks, WorkBlocks, Works
<1>5. core.spin[1] = w.spin
  BY <1>1
<1>6. w.spin = BLOCK_COMMITS * Cardinality(FullBlocks(log) \ WorkBlocks(log))
  BY <1>2, <1>4 DEF Tiles
<1>7. w.have_snap <=> WorkBlocks(log) # {}
  BY <1>2, <1>4 DEF Tiles
<1>8. w.have_snap => Reading(w.snap) /\ LastWork(log, WorkBlocks(log), w.snap)
  BY <1>2, <1>4 DEF Tiles
<1>9. CASE ~w.have_snap
  <2>1. core.work = core.raw
    BY <1>1, <1>9
  <2>2. Splits(core.raw)
    BY SplitsOf
  <2> QED
    BY <1>1, <1>5, <1>6, <1>7, <1>9, <2>1, <2>2
<1>10. CASE w.have_snap
  <2>1. core.work = metrics_from(w.snap).raw
    BY <1>1, <1>10
  <2>2. Splits(core.raw) /\ Splits(core.work) /\ core.work.cycles = w.snap[0] /\ core.work.inst_retired = w.snap[1]
    BY <1>8, <1>10, <2>1, SplitsOf
  <2>w. Works(log, K) \subseteq Nat
    BY DEF Works
  <2>3. PICK W : W = WorkBlocks(log) /\ W \subseteq Nat
    BY <1>4, <2>w, Zenon
  <2>4. PICK a \in W : (\A y \in W : y <= a) /\ w.snap[0] = log[a * BLOCK_COMMITS][2] /\ w.snap[1] = log[a * BLOCK_COMMITS][3]
    BY <1>8, <1>10, <2>3 DEF LastWork
  <2>5. ASSUME NEW b \in W, \A y \in W : y <= b PROVE b = a
    <3>1. a <= b /\ b <= a /\ a \in Nat /\ b \in Nat
      BY <2>3, <2>4, <2>5
    <3> QED
      BY <3>1
  <2>6. \A b \in W : (\A y \in W : y <= b) =>
          core.work.cycles = log[b * BLOCK_COMMITS][2] /\ core.work.inst_retired = log[b * BLOCK_COMMITS][3]
    BY <2>2, <2>4, <2>5
  <2> QED
    <3>1. WorkBlocks(log) # {}
      BY <1>7, <1>10
    <3>2. /\ core.spin[1] = BLOCK_COMMITS * Cardinality(FullBlocks(log) \ WorkBlocks(log))
      BY <1>5, <1>6
    <3> QED
      BY <1>1, <2>2, <2>3, <2>6, <3>1, <3>2, Zenon
<1> QED
  BY <1>1, <1>9, <1>10

(* The verdict of the benchmark.  As long as nobody else writes and nothing   *)
(* has been dropped, the log is what the guest has printed.                   *)
VerdictOK ==
  IsQuad =>
    /\ profPc = "run" => exit_code = 2
    /\ (profPc # "exit" /\ exit_code = 0 /\ cmd.err = "1") => printed = 2
    /\ printed \in 0 .. 2
    /\ uart_log \in Seq({"key", "x", cmd.err})
    /\ (~cmd.chatter /\ Len(uart_log) < LogMax) =>
         uart_log = IF printed = 0 THEN << >> ELSE IF printed = 1 THEN <<"key">> ELSE <<"key", cmd.err>>

(* What the console's log becomes. *)
LEMMA Logged ==
  ASSUME NEW S, NEW l \in Seq(S), NEW b \in Seq(S), NEW m,
         m = SubSeq(l \o b, 1, IF Len(l \o b) < LogMax THEN Len(l \o b) ELSE LogMax)
  PROVE  m \in Seq(S) /\ (Len(m) < LogMax => m = l \o b /\ Len(l) < LogMax)
<1> USE ProfilerAssumption
<1>1. PICK c \in Seq(S), n \in Nat : c = l \o b /\ n = Len(c) /\ n >= Len(l) /\ Len(l) \in Nat
  <2>1. l \o b \in Seq(S) /\ Len(l \o b) = Len(l) + Len(b) /\ Len(l) \in Nat /\ Len(b) \in Nat
    BY ConcatProperties
  <2>2. Len(l \o b) \in Nat /\ Len(l \o b) >= Len(l)
    BY <2>1
  <2> QED
    BY <2>1, <2>2, Zenon
<1>2. LogMax \in Nat
  OBVIOUS
<1>3. CASE n < LogMax
  <2>1. m = SubSeq(c, 1, n)
    BY <1>1, <1>3
  <2>2. m = c
    <3>1. m = SubSeq(c, 1, Len(c))
      BY <1>1, <2>1, Zenon
    <3> QED
      BY <3>1, SubSeqFull, Zenon
  <2> QED
    BY <1>1, <1>2, <1>3, <2>2
<1>4. CASE n >= LogMax
  <2>1. m = SubSeq(c, 1, LogMax)
    BY <1>1, <1>2, <1>4
  <2>2. m \in Seq(S) /\ Len(m) = LogMax
    BY <1>1, <1>2, <1>4, <2>1
  <2> QED
    BY <1>2, <2>2
<1> QED
  BY <1>1, <1>2, <1>3, <1>4

LEMMA TwoBytes ==
  ASSUME NEW S, NEW x \in S, NEW y \in S
  PROVE  <<x>> \o <<y>> = <<x, y>> /\ << >> \o <<x>> = <<x>>
<1>1. PICK t : t = <<x>> \o <<y>>
  OBVIOUS
<1>2. <<x>> \in Seq(S) /\ <<y>> \in Seq(S) /\ <<x, y>> \in Seq(S) /\ Len(<<x>>) = 1 /\ Len(<<y>>) = 1
  OBVIOUS
<1>3. t \in Seq(S) /\ Len(t) = 2 /\ t[1] = x /\ t[2] = y
  <2>1. /\ t \in Seq(S) /\ Len(t) = Len(<<x>>) + Len(<<y>>)
        /\ \A i \in 1 .. Len(<<x>>) + Len(<<y>>) :
             t[i] = IF i <= Len(<<x>>) THEN <<x>>[i] ELSE <<y>>[i - Len(<<x>>)]
    BY <1>1, <1>2, ConcatProperties
  <2> QED
    BY <1>2, <2>1
<1>4. t = <<x, y>>
  BY <1>2, <1>3
<1>5. << >> \o <<x>> = <<x>>
  BY <1>2, ConcatEmptySeq
<1> QED
  BY <1>1, <1>4, <1>5

LEMMA VerdictInit == ProfInit => VerdictOK
<1> SUFFICES ASSUME ProfInit PROVE VerdictOK
  OBVIOUS
<1>1. profPc = "run" /\ exit_code = 2 /\ printed = 0 /\ uart_log = << >>
  BY DEF ProfInit
<1>2. << >> \in Seq({"key", "x", cmd.err})
  OBVIOUS
<1> QED
  BY <1>1, <1>2 DEF VerdictOK

LEMMA VerdictStep ==
  ASSUME cmd \in Commands, VerdictOK, QuadClock
  PROVE  VerdictOK'
<1> USE ProfilerAssumption
<1>0. IsQuad /\ cmd' = cmd /\ profPc = "run" /\ CoresClock /\ GuestPrints /\ Judge
  BY DEF QuadClock
<1>1. PICK E : E = cmd.err
  OBVIOUS
<1>2. PICK S : S = {"key", "x", E}
  OBVIOUS
<1>3. PICK p \in 0 .. 2 : p = printed
  BY <1>0 DEF VerdictOK
<1>4. PICK l \in Seq(S) : l = uart_log
  BY <1>0, <1>1, <1>2 DEF VerdictOK
<1>5. ~cmd.chatter /\ Len(l) < LogMax => l = IF p = 0 THEN << >> ELSE IF p = 1 THEN <<"key">> ELSE <<"key", E>>
  BY <1>0, <1>1, <1>3, <1>4 DEF VerdictOK
<1>6. PICK a \in {0, 1}, b \in {<< >>, <<"x">>} :
        /\ a = 1 => p < 2
        /\ ~cmd.chatter => b = << >>
        /\ printed' = p + a
        /\ TakeUart(SubSeq(<<"key", E>>, p + 1, p + a) \o b)
  <2>1. Verdict = <<"key", E>> /\ Len(Verdict) = 2
    BY <1>1 DEF Verdict
  <2>2. PICK a \in {0} \cup (IF printed < Len(Verdict) /\ cmd.err # "none" THEN {1} ELSE {}),
             b \in IF cmd.chatter THEN {<<>>, <<"x">>} ELSE {<<>>} :
          printed' = printed + a /\ TakeUart(SubSeq(Verdict, printed + 1, printed + a) \o b)
    BY <1>0 DEF GuestPrints
  <2>3. a \in {0, 1} /\ (a = 1 => p < 2)
    BY <1>3, <2>1
  <2>4. b \in {<< >>, <<"x">>} /\ (~cmd.chatter => b = << >>)
    OBVIOUS
  <2> QED
    BY <1>3, <2>1, <2>2, <2>3, <2>4
<1>7. PICK v : v = SubSeq(<<"key", E>>, p + 1, p + a)
  OBVIOUS
<1>8. /\ v \in Seq(S) /\ (a = 0 => v = << >>)
      /\ a = 1 => v = IF p = 0 THEN <<"key">> ELSE <<E>>
  <2>0. "key" \in S /\ E \in S
    BY <1>2
  <2>1. PICK V \in Seq(S) : V = <<"key", E>> /\ Len(V) = 2 /\ V[1] = "key" /\ V[2] = E
    <3>1. <<"key", E>> \in Seq(S) /\ Len(<<"key", E>>) = 2 /\ <<"key", E>>[1] = "key" /\ <<"key", E>>[2] = E
      BY <2>0
    <3> QED
      BY <3>1, Zenon
  <2>2. CASE a = 0
    <3>1. v = SubSeq(V, p + 1, p)
      BY <1>7, <2>1, <2>2
    <3>2. v \in Seq(S) /\ Len(v) = 0
      BY <2>1, <3>1
    <3>3. v = << >>
      BY <3>2
    <3> QED
      BY <2>2, <3>2, <3>3
  <2>3. CASE a = 1
    <3>1. p < 2 /\ v = SubSeq(V, p + 1, p + 1)
      BY <1>6, <1>7, <2>1, <2>3
    <3>2. v \in Seq(S) /\ Len(v) = 1 /\ v[1] = V[p + 1]
      BY <2>1, <3>1
    <3>3. v = <<V[p + 1]>>
      BY <3>2
    <3> QED
      BY <2>1, <2>3, <3>1, <3>2, <3>3
  <2> QED
    BY <1>6, <2>2, <2>3
<1>9. PICK bytes \in Seq(S) : bytes = v \o b /\ (~cmd.chatter => bytes = v)
  <2>1. b \in Seq(S)
    <3>1. "x" \in S
      BY <1>2
    <3>2. << >> \in Seq(S) /\ <<"x">> \in Seq(S)
      BY <3>1
    <3> QED
      BY <1>6, <3>2
  <2>2. v \o b \in Seq(S) /\ v \o << >> = v
    BY <1>8, <2>1, ConcatProperties, ConcatEmptySeq
  <2>3. ~cmd.chatter => v \o b = v
    BY <1>6, <2>2, Zenon
  <2> QED
    BY <2>2, <2>3, Zenon
<1>10. PICK m : m = uart_log'
  OBVIOUS
<1>11. m \in Seq(S) /\ (Len(m) < LogMax => m = l \o bytes /\ Len(l) < LogMax)
  <2>1. m = SubSeq(l \o bytes, 1, IF Len(l \o bytes) < LogMax THEN Len(l \o bytes) ELSE LogMax)
    BY <1>4, <1>6, <1>7, <1>9, <1>10 DEF TakeUart
  <2> QED
    BY <2>1, Logged, SMTT(30)
<1>12. ASSUME ~cmd.chatter, Len(m) < LogMax
       PROVE  m = IF p + a = 0 THEN << >> ELSE IF p + a = 1 THEN <<"key">> ELSE <<"key", E>>
  <2>1. m = l \o v /\ l = IF p = 0 THEN << >> ELSE IF p = 1 THEN <<"key">> ELSE <<"key", E>>
    BY <1>5, <1>9, <1>11, <1>12
  <2>2. CASE a = 0
    <3>1. m = l /\ p + a = p
      BY <1>4, <1>8, <2>1, <2>2
    <3> QED
      BY <2>1, <3>1
  <2>3. CASE a = 1 /\ p = 0
    <3>1. m = << >> \o <<"key">> /\ "key" \in S
      <4>1. l = << >> /\ v = <<"key">>
        BY <1>8, <2>1, <2>3
      <4> QED
        BY <1>2, <2>1, <4>1, Zenon
    <3>2. m = <<"key">>
      BY <3>1, TwoBytes
    <3> QED
      BY <2>3, <3>2
  <2>4. CASE a = 1 /\ p = 1
    <3>1. m = <<"key">> \o <<E>> /\ "key" \in S /\ E \in S
      <4>1. l = <<"key">> /\ v = <<E>>
        BY <1>8, <2>1, <2>4
      <4> QED
        BY <1>2, <2>1, <4>1, Zenon
    <3>2. m = <<"key", E>>
      BY <3>1, TwoBytes
    <3> QED
      BY <2>4, <3>2
  <2> QED
    BY <1>6, <2>2, <2>3, <2>4
<1>13. profPc' = "run" => exit_code' = 2
  BY <1>0, ProfilerCommands DEF VerdictOK, Judge
<1>14. ASSUME exit_code' = 0, E = "1" PROVE printed' = 2
  <2>1. exit_code = 2
    BY <1>0 DEF VerdictOK
  <2>2. robOut'[0].what = "commit" /\ ExitOf(robOut'[0].pc) = 0
    BY <1>0, <1>14, <2>1 DEF Judge
  <2>3. cmd.done # {}
    BY <1>0, <1>1, <1>14, ProfilerCommands DEF IsQuad
  <2>4. hit_done(robOut'[0].pc)
    BY <1>0, <2>2, <2>3 DEF ExitOf, IsQuad, IsProfile
  <2>5. printed = Len(Verdict) /\ Len(Verdict) = 2
    BY <1>0, <1>1, <1>14, <2>2, <2>4 DEF CoresClock, Verdict
  <2> QED
    BY <1>3, <1>6, <2>5
<1>15. printed' \in 0 .. 2
  BY <1>6
<1>16. cmd'.err = E /\ cmd'.chatter = cmd.chatter /\ printed' = p + a
  BY <1>0, <1>1, <1>6
<1> QED
  BY <1>2, <1>10, <1>11, <1>12, <1>13, <1>14, <1>15, <1>16 DEF VerdictOK

LEMMA ReadOK ==
  ASSUME CountersOK, NEW h \in Harts
  PROVE  Reading(read_counters(h))
<1>1. PICK d : d = perf[h]
  OBVIOUS
<1>2. PICK c : c = read_counters(h)
  OBVIOUS
<1>3. c = [k \in 0 .. 40 |-> IF k \in Slots THEN d[k] ELSE 0]
  BY <1>1, <1>2 DEF read_counters, get_core_counter
<1>4. Slots \subseteq 0 .. 40 /\ {0, 1, 29, 30, 31, 35, 36} \subseteq Slots
  BY DEF Slots
<1>5. \A s \in Slots : c[s] = d[s]
  BY <1>3, <1>4
<1>6. Counts(d)
  BY <1>1 DEF CountersOK
<1>7. Counts(c)
  BY <1>4, <1>5, <1>6 DEF Counts
<1>8. \A k \in (0 .. 40) \ Slots : c[k] = 0
  BY <1>3
<1> QED
  BY <1>2, <1>7, <1>8 DEF Reading

LEMMA VerdictRead == uart_log = <<"key", "1">> => BenchError = 1
<1> SUFFICES ASSUME uart_log = <<"key", "1">> PROVE BenchError = 1
  OBVIOUS
<1>1. Len(uart_log) = 2 /\ uart_log[1] = "key" /\ uart_log[2] = "1"
  OBVIOUS
<1>2. PICK keys : keys = {i \in 1 .. Len(uart_log) : uart_log[i] = "key"}
  OBVIOUS
<1>3. keys = {1}
  BY <1>1, <1>2
<1>4. PICK k : k = CHOOSE i \in keys : \A j \in keys : j <= i
  OBVIOUS
<1>5. k = 1
  BY <1>3, <1>4
<1> QED
  BY <1>1, <1>2, <1>3, <1>4, <1>5 DEF BenchError

ProfIInv == cmd \in Commands /\ CountersOK /\ BlocksOK /\ VerdictOK /\ ProfileSound

LEMMA ProfInitOK == cmd \in Commands /\ ProfInit => ProfIInv
<1> SUFFICES ASSUME cmd \in Commands, ProfInit PROVE ProfIInv
  OBVIOUS
<1>1. CountersOK
  <2>1. perf = [h \in Harts |-> [s \in Slots |-> 0]] /\ \A h \in Harts : robOut[h].what = "empty"
    BY DEF ProfInit
  <2>2. \A h \in Harts : perf[h] = [s \in Slots |-> 0]
    BY <2>1
  <2>3. Counts([s \in Slots |-> 0])
    BY DEF Counts, Slots
  <2> QED
    BY <2>1, <2>2, <2>3 DEF CountersOK, Reasons
<1>2. profPc = "run"
  BY DEF ProfInit
<1>3. ProfileSound
  BY <1>2 DEF ProfileSound, WorkExact, SplitsAddUp, VerifySound
<1> QED
  BY <1>1, <1>3, BlocksInit, VerdictInit DEF ProfIInv

LEMMA JudgeGoes == Judge => profPc' \in {"run", "report"}
  BY DEF Judge

LEMMA ProfileClockStep == ASSUME ProfIInv, ProfileClock PROVE ProfIInv'
<1>1. /\ cmd' = cmd /\ win' = win /\ commitsOf' = commitsOf /\ IsProfile /\ CoresClock /\ Judge
  BY DEF ProfileClock
<1>2. CountersOK'
  BY <1>1, CoresOK DEF ProfIInv
<1>3. BlocksOK'
  BY <1>1 DEF ProfIInv, BlocksOK
<1>4. VerdictOK'
  BY <1>1 DEF VerdictOK, IsProfile, IsQuad
<1>5. ProfileSound'
  BY <1>1, JudgeGoes DEF ProfileSound, WorkExact, SplitsAddUp, VerifySound
<1> QED
  BY <1>1, <1>2, <1>3, <1>4, <1>5 DEF ProfIInv

LEMMA QuadClockStep == ASSUME ProfIInv, QuadClock PROVE ProfIInv'
<1>1. cmd' = cmd /\ IsQuad /\ CoresClock /\ Judge
  BY DEF QuadClock
<1>2. CountersOK'
  BY <1>1, CoresOK DEF ProfIInv
<1>3. BlocksOK'
  BY BlocksStep DEF ProfIInv
<1>4. VerdictOK'
  BY VerdictStep DEF ProfIInv
<1>5. ProfileSound'
  BY <1>1, JudgeGoes DEF ProfileSound, WorkExact, SplitsAddUp, VerifySound
<1> QED
  BY <1>1, <1>2, <1>3, <1>4, <1>5 DEF ProfIInv

LEMMA ProfileReportStep == ASSUME ProfIInv, ProfileReport PROVE ProfIInv'
<1>0. cmd \in Commands /\ CountersOK /\ BlocksOK
  BY DEF ProfIInv
<1>1. /\ cmd' = cmd /\ win' = win /\ commitsOf' = commitsOf /\ perf' = perf /\ robOut' = robOut
      /\ IsProfile /\ report' = print_json
  BY DEF ProfileReport
<1>2. CountersOK' /\ BlocksOK'
  BY <1>0, <1>1 DEF CountersOK, BlocksOK
<1>3. ~IsQuad'
  BY <1>1 DEF IsProfile, IsQuad
<1>4. 0 \in Harts
  BY HartCount DEF Harts
<1>5. compute_metrics = metrics_from(read_counters(0))
  BY DEF compute_metrics, get_perf_counter, read_counters
<1>6. Splits(compute_metrics.raw)
  BY <1>0, <1>4, <1>5, ReadOK, SplitsOf
<1>7. DOMAIN report'.cores = {0} /\ report'.cores[0] = compute_metrics
  BY <1>1 DEF print_json
<1>8. SplitsAddUp'
  BY <1>3, <1>6, <1>7 DEF SplitsAddUp
<1> QED
  BY <1>0, <1>1, <1>2, <1>3, <1>8 DEF ProfIInv, ProfileSound, WorkExact, VerifySound, VerdictOK

LEMMA QuadReportStep == ASSUME ProfIInv, QuadReport PROVE ProfIInv'
<1>0. cmd \in Commands /\ CountersOK /\ BlocksOK /\ VerdictOK
  BY DEF ProfIInv
<1>1. /\ cmd' = cmd /\ win' = win /\ commitsOf' = commitsOf /\ perf' = perf /\ robOut' = robOut
      /\ uart_log' = uart_log /\ printed' = printed /\ IsQuad /\ profPc \in {"run", "report"} /\ profPc' = "exit"
  BY DEF QuadReport
<1>2. CountersOK' /\ BlocksOK'
  BY <1>0, <1>1 DEF CountersOK, BlocksOK
<1>3. VerdictOK'
  BY <1>0, <1>1 DEF VerdictOK
<1>4. PICK alarm, verified :
        /\ verified = (IF exit_code = 0 /\ BenchError > 0 THEN 4 ELSE exit_code)
        /\ report' = print_json_quad(verified, BenchError)
        /\ exit_code' = IF verified = 0 /\ alarm THEN 4 ELSE verified
  BY DEF QuadReport
<1>5. DOMAIN report'.cores = Harts
  BY <1>4 DEF print_json_quad
<1>6. ASSUME NEW h \in Harts
      PROVE  /\ report'.cores[h].spin[1] = BLOCK_COMMITS * Cardinality(FullBlocks(commitsOf[h]) \ WorkBlocks(commitsOf[h]))
             /\ WorkBlocks(commitsOf[h]) = {} => report'.cores[h].work = report'.cores[h].raw
             /\ \A b \in WorkBlocks(commitsOf[h]) :
                  (\A y \in WorkBlocks(commitsOf[h]) : y <= b) =>
                    /\ report'.cores[h].work.cycles = commitsOf[h][b * BLOCK_COMMITS][2]
                    /\ report'.cores[h].work.inst_retired = commitsOf[h][b * BLOCK_COMMITS][3]
             /\ Splits(report'.cores[h].raw) /\ Splits(report'.cores[h].work)
  <2>1. PICK core : core = report'.cores[h]
    OBVIOUS
  <2>2. PICK r : r = read_counters(h) /\ Reading(r)
    BY <1>0, ReadOK
  <2>3. /\ core.raw = metrics_from(r).raw /\ core.spin = <<win[h].spin, safe_max1(win[h].commits)>>
        /\ core.work = (IF win[h].have_snap THEN metrics_from(win[h].snap) ELSE metrics_from(r)).raw
    BY <1>4, <2>1, <2>2 DEF print_json_quad, spin_commit_pct, compute_core_metrics_work
  <2>4. /\ core.spin[1] = BLOCK_COMMITS * Cardinality(FullBlocks(commitsOf[h]) \ WorkBlocks(commitsOf[h]))
        /\ WorkBlocks(commitsOf[h]) = {} => core.work = core.raw
        /\ \A b \in WorkBlocks(commitsOf[h]) :
             (\A y \in WorkBlocks(commitsOf[h]) : y <= b) =>
               /\ core.work.cycles = commitsOf[h][b * BLOCK_COMMITS][2]
               /\ core.work.inst_retired = commitsOf[h][b * BLOCK_COMMITS][3]
        /\ Splits(core.raw) /\ Splits(core.work)
    BY <1>0, <2>2, <2>3, WorkReported
  <2> QED
    BY <2>1, <2>4, Zenon
<1>7. WorkExact'
  <2>1. commitsOf' = commitsOf
    BY <1>1
  <2> QED
    BY <1>6, <2>1, Zenon DEF WorkExact
<1>8. SplitsAddUp'
  BY <1>5, <1>6, Zenon DEF SplitsAddUp
<1>9. VerifySound'
  <2> SUFFICES ASSUME exit_code' = 0, ~cmd.chatter, Len(uart_log) < LogMax, cmd.err = "1" PROVE FALSE
    BY <1>1 DEF VerifySound
  <2>1. exit_code = 0 /\ ~(BenchError > 0)
    BY <1>4
  <2>2. printed = 2
    BY <1>0, <1>1, <2>1 DEF VerdictOK
  <2>3. uart_log = <<"key", "1">>
    BY <1>0, <1>1, <2>2 DEF VerdictOK
  <2> QED
    BY <2>1, <2>3, VerdictRead
<1> QED
  BY <1>0, <1>1, <1>2, <1>3, <1>7, <1>8, <1>9 DEF ProfIInv, ProfileSound

LEMMA ProfStep == ProfIInv /\ [ProfNext]_<<cmd, profVars>> => ProfIInv'
<1> SUFFICES ASSUME ProfIInv, [ProfNext]_<<cmd, profVars>> PROVE ProfIInv'
  OBVIOUS
<1>1. CASE UNCHANGED <<cmd, profVars>>
  <2>1. /\ cmd' = cmd /\ profPc' = profPc /\ exit_code' = exit_code /\ robOut' = robOut /\ perf' = perf
        /\ win' = win /\ uart_log' = uart_log /\ printed' = printed /\ report' = report /\ commitsOf' = commitsOf
    BY <1>1 DEF profVars
  <2>2. CountersOK' /\ BlocksOK' /\ VerdictOK'
    BY <2>1 DEF ProfIInv, CountersOK, BlocksOK, VerdictOK, IsQuad
  <2>3. WorkExact' /\ SplitsAddUp' /\ VerifySound'
    BY <2>1, Zenon DEF ProfIInv, ProfileSound, WorkExact, SplitsAddUp, VerifySound, IsQuad, IsProfile
  <2> QED
    BY <2>1, <2>2, <2>3 DEF ProfIInv, ProfileSound
<1> QED
  BY <1>1, ProfileClockStep, QuadClockStep, ProfileReportStep, QuadReportStep DEF ProfNext

(* For any number of harts, any benchmark and any block length and work span: *)
(* a profile accounts for every cycle once, its work region ends with the     *)
(* last block that was work, and a benchmark that found itself wrong does not *)
(* pass.                                                                      *)
THEOREM ProfilerSafety == ProfSpec => []ProfileSound
<1>1. ProfIInv => ProfileSound
  BY DEF ProfIInv
<1> QED
  BY <1>1, ProfInitOK, ProfStep, PTL DEF ProfSpec
-----------------------------------------------------------------------------
(* The watchers.  The last samples in which hart h shows the same PC begin   *)
(* at j.                                                                     *)
RunOf(q, h, j) ==
  /\ j \in 1 .. Len(q)
  /\ \A i \in j .. Len(q) : q[i][h].pc = q[Len(q)][h].pc
  /\ j > 1 => q[j - 1][h].pc # q[Len(q)][h].pc

LEMMA Longer ==
  ASSUME NEW S, NEW q \in Seq(S), NEW s \in S
  PROVE  /\ Append(q, s) \in Seq(S) /\ Len(Append(q, s)) = Len(q) + 1 /\ Len(q) \in Nat
         /\ Append(q, s)[Len(q) + 1] = s
         /\ \A i \in 1 .. Len(q) : Append(q, s)[i] = q[i]
OBVIOUS

LEMMA RunStep ==
  ASSUME NEW S, NEW q \in Seq(S), NEW s \in S, NEW h, NEW j, RunOf(q, h, j), Len(q) >= 1
  PROVE  RunOf(Append(q, s), h, IF s[h].pc = q[Len(q)][h].pc THEN j ELSE Len(q) + 1)
<1>1. PICK n \in Nat : n = Len(q)
  BY Longer
<1>2. PICK r : r = Append(q, s)
  OBVIOUS
<1>3. Len(r) = n + 1 /\ r[n + 1] = s /\ \A i \in 1 .. n : r[i] = q[i]
  BY <1>1, <1>2, Longer
<1>4. j \in 1 .. n /\ (\A i \in j .. n : q[i][h].pc = q[n][h].pc) /\ (j > 1 => q[j - 1][h].pc # q[n][h].pc) /\ n >= 1
  BY <1>1 DEF RunOf
<1>5. CASE s[h].pc = q[n][h].pc
  <2>1. RunOf(r, h, j)
    <3>1. ASSUME NEW i \in j .. n + 1
          PROVE  r[i][h].pc = r[n + 1][h].pc
      BY <1>3, <1>4, <1>5
    <3>2. ASSUME j > 1
          PROVE  r[j - 1][h].pc # r[n + 1][h].pc
      <4>1. r[j - 1] = q[j - 1]
        BY <1>3, <1>4, <3>2
      <4> QED
        BY <1>3, <1>4, <1>5, <3>2, <4>1
    <3> QED
      BY <1>3, <1>4, <3>1, <3>2 DEF RunOf
  <2> QED
    BY <1>1, <1>2, <1>5, <2>1
<1>6. CASE s[h].pc # q[n][h].pc
  <2>1. RunOf(r, h, n + 1)
    BY <1>3, <1>4, <1>6 DEF RunOf
  <2> QED
    BY <1>1, <1>2, <1>6, <2>1
<1> QED
  BY <1>1, <1>5, <1>6

LEMMA RunStill ==
  ASSUME NEW q, NEW n \in Nat, n = Len(q), NEW h, NEW j \in Int, RunOf(q, h, j), NEW t \in Nat, t = cmd.stall
  PROVE  Still(q, h, n) <=> j + t <= n
<1>3. j \in 1 .. n /\ (\A i \in j .. n : q[i][h].pc = q[n][h].pc) /\ (j > 1 => q[j - 1][h].pc # q[n][h].pc)
  BY DEF RunOf
<1>4. ASSUME n - j >= t
      PROVE  n > t /\ \A i \in n - t .. n : q[i][h].pc = q[n][h].pc
  BY <1>3, <1>4
<1>5. ASSUME n - j < t, n > t, \A i \in n - t .. n : q[i][h].pc = q[n][h].pc
      PROVE  FALSE
  <2>1. j > 1 /\ j - 1 \in n - t .. n
    BY <1>3, <1>5
  <2> QED
    BY <1>3, <1>5, <2>1
<1> QED
  BY <1>3, <1>4, <1>5 DEF Still

(* The condition of each watcher. *)
LEMMA WedgeAtIs ==
  ASSUME NEW q, NEW k
  PROVE  /\ IsGate \/ IsJam => (WedgeAt(q, k) <=> Still(q, cmd.hart, k))
         /\ IsSeq => (WedgeAt(q, k) <=> \E h \in Harts : Still(q, h, k))
         /\ IsInj => (WedgeAt(q, k) <=> k > cmd.stall + 1 /\ \A i \in k - cmd.stall .. k : q[i].inj # 0)
         /\ IsMsip \/ (IsFsm /\ cmd.force = Nil) => (WedgeAt(q, k) <=> \E h \in Harts : Raised(q, h, k))
         /\ IsFsm /\ cmd.force # Nil => (WedgeAt(q, k) <=> k > cmd.stall + 1)
         /\ IsLoop \/ IsInteg => (WedgeAt(q, k) <=> BneLatch(q[k], q[k - 1]) /\ PastBound(q[k]))
         /\ ~(IsGate \/ IsJam \/ IsSeq \/ IsInj \/ IsMsip \/ IsFsm \/ IsLoop \/ IsInteg) => ~WedgeAt(q, k)
<1>1. IsGate \/ IsJam => (WedgeAt(q, k) <=> Still(q, cmd.hart, k))
  BY DEF WedgeAt, IsGate, IsJam, IsSeq, IsInj, IsMsip, IsFsm, IsLoop, IsInteg
<1>2. IsSeq => (WedgeAt(q, k) <=> \E h \in Harts : Still(q, h, k))
  BY DEF WedgeAt, IsGate, IsJam, IsSeq, IsInj, IsMsip, IsFsm, IsLoop, IsInteg
<1>3. IsInj => (WedgeAt(q, k) <=> k > cmd.stall + 1 /\ \A i \in k - cmd.stall .. k : q[i].inj # 0)
  BY DEF WedgeAt, IsGate, IsJam, IsSeq, IsInj, IsMsip, IsFsm, IsLoop, IsInteg
<1>4. IsMsip \/ (IsFsm /\ cmd.force = Nil) => (WedgeAt(q, k) <=> \E h \in Harts : Raised(q, h, k))
  BY DEF WedgeAt, IsGate, IsJam, IsSeq, IsInj, IsMsip, IsFsm, IsLoop, IsInteg
<1>5. IsFsm /\ cmd.force # Nil => (WedgeAt(q, k) <=> k > cmd.stall + 1)
  BY DEF WedgeAt, IsGate, IsJam, IsSeq, IsInj, IsMsip, IsFsm, IsLoop, IsInteg
<1>6. IsLoop \/ IsInteg => (WedgeAt(q, k) <=> BneLatch(q[k], q[k - 1]) /\ PastBound(q[k]))
  BY DEF WedgeAt, IsGate, IsJam, IsSeq, IsInj, IsMsip, IsFsm, IsLoop, IsInteg
<1>7. ~(IsGate \/ IsJam \/ IsSeq \/ IsInj \/ IsMsip \/ IsFsm \/ IsLoop \/ IsInteg) => ~WedgeAt(q, k)
  BY DEF WedgeAt
<1> QED
  BY <1>1, <1>2, <1>3, <1>4, <1>5, <1>6, <1>7

(* What is settled about the first k samples does not change later. *)
LEMMA WedgeAtPrefix ==
  ASSUME NEW S, NEW q \in Seq(S), NEW s \in S, NEW k \in 2 .. Len(q), cmd \in Commands
  PROVE  WedgeAt(Append(q, s), k) <=> WedgeAt(q, k)
<1>1. PICK r : r = Append(q, s)
  OBVIOUS
<1>2. \A i \in 1 .. Len(q) : r[i] = q[i]
  BY <1>1, Longer
<1>3. Len(q) \in Nat
  BY Longer
<1>4. ASSUME NEW h, cmd.stall \in Nat
      PROVE  /\ Still(r, h, k) <=> Still(q, h, k)
             /\ Raised(r, h, k) <=> Raised(q, h, k)
  <2>1. PICK t \in Nat : t = cmd.stall
    BY <1>4
  <2>2. ASSUME k > t
        PROVE  \A i \in k - t .. k : r[i] = q[i]
    BY <1>2, <1>3, <2>2
  <2>3. ASSUME k > t + 2
        PROVE  \A i \in k - t - 1 .. k : r[i] = q[i]
    BY <1>2, <1>3, <2>3
  <2>4. Still(r, h, k) <=> Still(q, h, k)
    BY <1>2, <2>1, <2>2 DEF Still
  <2>5. Raised(r, h, k) <=> Raised(q, h, k)
    BY <1>2, <2>1, <2>3 DEF Raised
  <2> QED
    BY <2>4, <2>5
<1>5. ASSUME cmd.stall \in Nat
      PROVE  (k > cmd.stall + 1 /\ \A i \in k - cmd.stall .. k : r[i].inj # 0)
             <=> (k > cmd.stall + 1 /\ \A i \in k - cmd.stall .. k : q[i].inj # 0)
  <2>1. PICK t \in Nat : t = cmd.stall
    BY <1>5
  <2>2. ASSUME k > t + 1
        PROVE  \A i \in k - t .. k : r[i] = q[i]
    BY <1>2, <1>3, <2>2
  <2> QED
    BY <2>1, <2>2
<1>6. r[k] = q[k] /\ r[k - 1] = q[k - 1]
  BY <1>2, <1>3
<1>7. (IsGate \/ IsJam \/ IsSeq \/ IsInj \/ IsMsip \/ IsFsm) => cmd.stall \in Nat
  BY WedgeCommands DEF IsGate, IsJam, IsSeq, IsInj, IsMsip, IsFsm
<1>8. CASE IsGate \/ IsJam
  BY <1>1, <1>4, <1>7, <1>8, WedgeAtIs
<1>9. CASE IsSeq
  BY <1>1, <1>4, <1>7, <1>9, WedgeAtIs
<1>10. CASE IsInj
  BY <1>1, <1>5, <1>7, <1>10, WedgeAtIs
<1>11. CASE IsMsip \/ (IsFsm /\ cmd.force = Nil)
  BY <1>1, <1>4, <1>7, <1>11, WedgeAtIs
<1>12. CASE IsFsm /\ cmd.force # Nil
  BY <1>12, WedgeAtIs
<1>13. CASE IsLoop \/ IsInteg
  BY <1>1, <1>6, <1>13, WedgeAtIs
<1>14. CASE ~(IsGate \/ IsJam \/ IsSeq \/ IsInj \/ IsMsip \/ IsFsm \/ IsLoop \/ IsInteg)
  BY <1>14, WedgeAtIs
<1> QED
  BY <1>8, <1>9, <1>10, <1>11, <1>12, <1>13, <1>14

(* at is the first clock whose condition holds, or none. *)
AtOK(q, at) ==
  IF at = Nil THEN \A k \in 2 .. Len(q) : ~WedgeAt(q, k)
  ELSE /\ at + 1 \in 2 .. Len(q) /\ WedgeAt(q, at + 1) /\ at \in Nat
       /\ \A k \in 2 .. at : ~WedgeAt(q, k)

LEMMA AtStep ==
  ASSUME NEW S, NEW q \in Seq(S), NEW s \in S, Len(q) >= 1, cmd \in Commands, NEW at, NEW at2, AtOK(q, at),
         at2 = IF at = Nil /\ WedgeAt(Append(q, s), Len(q) + 1) THEN Len(q) ELSE at
  PROVE  AtOK(Append(q, s), at2)
<1>1. PICK r : r = Append(q, s)
  OBVIOUS
<1>2. Len(q) \in Nat /\ Len(r) = Len(q) + 1
  BY <1>1, Longer
<1>3. \A k \in 2 .. Len(q) : WedgeAt(r, k) <=> WedgeAt(q, k)
  BY <1>1, WedgeAtPrefix
<1>4. CASE at # Nil
  <2>1. at + 1 \in 2 .. Len(q) /\ WedgeAt(q, at + 1) /\ at \in Nat /\ \A k \in 2 .. at : ~WedgeAt(q, k)
    BY <1>4 DEF AtOK
  <2>2. at2 = at /\ at + 1 \in 2 .. Len(r)
    BY <1>2, <1>4, <2>1
  <2>3. \A k \in 2 .. at : ~WedgeAt(r, k)
    BY <1>2, <1>3, <2>1
  <2> QED
    BY <1>1, <1>3, <1>4, <2>1, <2>2, <2>3 DEF AtOK
<1>5. CASE at = Nil /\ WedgeAt(r, Len(q) + 1)
  <2>1. \A k \in 2 .. Len(q) : ~WedgeAt(q, k)
    BY <1>5 DEF AtOK
  <2>2. at2 = Len(q) /\ at2 # Nil
    BY <1>1, <1>2, <1>5 DEF Nil
  <2> QED
    BY <1>1, <1>2, <1>3, <1>5, <2>1, <2>2 DEF AtOK
<1>6. CASE at = Nil /\ ~WedgeAt(r, Len(q) + 1)
  <2>1. \A k \in 2 .. Len(q) : ~WedgeAt(q, k)
    BY <1>6 DEF AtOK
  <2>2. at2 = Nil
    BY <1>1, <1>6
  <2>3. ASSUME NEW k \in 2 .. Len(q) + 1
        PROVE  ~WedgeAt(r, k)
    BY <1>2, <1>3, <1>6, <2>1, <2>3
  <2> QED
    BY <1>1, <1>2, <2>2, <2>3 DEF AtOK
<1> QED
  BY <1>4, <1>5, <1>6

(* A record with the fields of F. *)
RecordOf(w, F) == w = [f \in F |-> w[f]]

-----------------------------------------------------------------------------
(* linux_storegate_probe *)

Dropped(q) ==
  \E k \in 2 .. Len(q) :
    \/ q[k][cmd.hart].req = "store" /\ q[k][cmd.hart].inFull
    \/ q[k][cmd.hart].req = "load" /\ q[k][cmd.hart].inFull /\ q[k][cmd.hart].spFull

GateFields == {"cyc", "last_pc", "pc_static", "prev_gate", "rise", "fire", "storeReq", "storeDrop",
               "loadReq", "loadDrop", "ring", "rn", "rring", "rrn", "key", "last_open", "shut",
               "at", "rc", "dump", "rdump"}

GateMem(w, q) ==
  /\ RecordOf(w, GateFields)
  /\ w.cyc = Len(q) - 1 /\ w.last_pc = q[Len(q)][cmd.hart].pc
  /\ w.pc_static \in 0 .. Len(q) - 1 /\ RunOf(q, cmd.hart, Len(q) - w.pc_static)
  /\ w.pc_static < cmd.stall
  /\ w.storeDrop \in Nat /\ w.loadDrop \in Nat
  /\ cmd.hart = FIXED => (w.storeDrop + w.loadDrop > 0 <=> Dropped(q))

LEMMA GateAccount ==
  ASSUME NEW w, RecordOf(w, GateFields), NEW v
  PROVE  /\ RecordOf(Account(w, v), GateFields)
         /\ Account(w, v).cyc = w.cyc /\ Account(w, v).last_pc = w.last_pc
         /\ Account(w, v).pc_static = w.pc_static /\ Account(w, v).at = w.at /\ Account(w, v).rc = w.rc
         /\ Account(w, v).storeDrop = IF v.req = "store" /\ v.inFull THEN w.storeDrop + 1 ELSE w.storeDrop
         /\ Account(w, v).loadDrop = IF v.req = "load" /\ v.spFull /\ v.inFull THEN w.loadDrop + 1 ELSE w.loadDrop
<1>1. PICK r : r = Account(w, v)
  OBVIOUS
<1>2. DOMAIN w = GateFields
  BY DEF RecordOf
<1>3. RecordOf(r, GateFields)
  BY <1>1, <1>2, ZenonT(60) DEF Account, RecordOf, GateFields
<1>4. r.cyc = w.cyc /\ r.last_pc = w.last_pc /\ r.pc_static = w.pc_static /\ r.at = w.at /\ r.rc = w.rc
  BY <1>1, <1>2 DEF Account, GateFields
<1>5. /\ r.storeDrop = IF v.req = "store" /\ v.inFull THEN w.storeDrop + 1 ELSE w.storeDrop
      /\ r.loadDrop = IF v.req = "load" /\ v.spFull /\ v.inFull THEN w.loadDrop + 1 ELSE w.loadDrop
  BY <1>1, <1>2 DEF Account, GateFields
<1> QED
  BY <1>1, <1>3, <1>4, <1>5

LEMMA GateRecord ==
  ASSUME NEW w, RecordOf(w, GateFields), NEW v, NEW now
  PROVE  /\ RecordOf(Record(w, v, now), GateFields)
         /\ Record(w, v, now).cyc = w.cyc /\ Record(w, v, now).last_pc = w.last_pc
         /\ Record(w, v, now).pc_static = w.pc_static /\ Record(w, v, now).at = w.at /\ Record(w, v, now).rc = w.rc
         /\ Record(w, v, now).storeDrop = w.storeDrop /\ Record(w, v, now).loadDrop = w.loadDrop
<1>1. PICK r : r = Record(w, v, now)
  OBVIOUS
<1>2. DOMAIN w = GateFields
  BY DEF RecordOf
<1>3. RecordOf(r, GateFields)
  BY <1>1, <1>2, ZenonT(60) DEF Record, RecordOf, GateFields
<1>4. /\ r.cyc = w.cyc /\ r.last_pc = w.last_pc /\ r.pc_static = w.pc_static /\ r.at = w.at /\ r.rc = w.rc
      /\ r.storeDrop = w.storeDrop /\ r.loadDrop = w.loadDrop
  BY <1>1, <1>2 DEF Record, GateFields
<1> QED
  BY <1>1, <1>3, <1>4

LEMMA GateViewOf ==
  ASSUME cmd \in Commands, IsGate, NEW s \in cmd.samples
  PROVE  /\ GateView(s).pc = s[cmd.hart].pc /\ GateView(s).req = s[cmd.hart].req
         /\ cmd.hart = FIXED => /\ GateView(s).inFull = s[cmd.hart].inFull
                                /\ GateView(s).spFull = s[cmd.hart].spFull
<1>1. cmd.hart \in Harts /\ s \in [Harts -> GateSample]
  BY WedgeCommands DEF IsGate
<1>2. PICK v : v = s[cmd.hart]
  OBVIOUS
<1>3. v \in GateSample
  BY <1>1, <1>2
<1> QED
  BY <1>2, <1>3 DEF GateView, GateSample

LEMMA GateDrops ==
  ASSUME NEW S, NEW q \in Seq(S), NEW s \in S, Len(q) >= 1
  PROVE  Dropped(Append(q, s)) <=>
           \/ Dropped(q)
           \/ s[cmd.hart].req = "store" /\ s[cmd.hart].inFull
           \/ s[cmd.hart].req = "load" /\ s[cmd.hart].inFull /\ s[cmd.hart].spFull
<1>1. PICK n \in Nat : n = Len(q)
  BY Longer
<1>2. PICK r : r = Append(q, s)
  OBVIOUS
<1>3. Len(r) = n + 1 /\ r[n + 1] = s /\ \A i \in 1 .. n : r[i] = q[i]
  BY <1>1, <1>2, Longer
<1>4. \A k : k \in 2 .. n + 1 <=> (k \in 2 .. n \/ k = n + 1)
  BY <1>1
<1>5. \A k \in 2 .. n : r[k] = q[k]
  BY <1>3
<1> QED
  BY <1>1, <1>2, <1>3, <1>4, <1>5 DEF Dropped

LEMMA GateStep ==
  ASSUME cmd \in Commands, IsGate, NEW S, NEW q \in Seq(S), NEW s \in cmd.samples, s \in S, Len(q) >= 1,
         NEW w, GateMem(w, q), w.at = Nil, w.rc = Nil, NEW w2, w2 = linux_storegate(w, s)
  PROVE  /\ w2.at = IF WedgeAt(Append(q, s), Len(q) + 1) THEN Len(q) ELSE Nil
         /\ w2.rc = Nil => GateMem(w2, Append(q, s)) /\ w2.at = Nil
         /\ w2.rc # Nil /\ w2.at = Nil /\ cmd.hart = FIXED => (w2.rc = 1 <=> Dropped(Append(q, s)))
<1>1. PICK n \in Nat : n = Len(q) /\ n >= 1
  BY Longer
<1>2. PICK v : v = GateView(s)
  OBVIOUS
<1>3. cmd.stall \in Nat \ {0}
  BY WedgeCommands DEF IsGate
<1>4. PICK t \in Nat : t = cmd.stall /\ t >= 1
  BY <1>3
<1>5. PICK p \in Nat : p = w.pc_static /\ p <= n - 1
  BY <1>1 DEF GateMem
<1>6. PICK p2 : p2 = Static(w, v)
  OBVIOUS
<1>7. p2 = IF s[cmd.hart].pc = q[n][cmd.hart].pc THEN p + 1 ELSE 0
  BY <1>1, <1>2, <1>5, <1>6, GateViewOf DEF GateMem, Static
<1>8. p2 \in 0 .. n /\ RunOf(Append(q, s), cmd.hart, n + 1 - p2)
  <2>1. RunOf(q, cmd.hart, n - p)
    BY <1>1, <1>5 DEF GateMem
  <2>2. RunOf(Append(q, s), cmd.hart, IF s[cmd.hart].pc = q[n][cmd.hart].pc THEN n - p ELSE n + 1)
    BY <1>1, <2>1, RunStep
  <2>3. (IF s[cmd.hart].pc = q[n][cmd.hart].pc THEN n - p ELSE n + 1) = n + 1 - p2
    BY <1>1, <1>5, <1>7
  <2> QED
    BY <1>1, <1>5, <1>7, <2>2, <2>3
<1>9. PICK x : x = [w EXCEPT !.cyc = n, !.last_pc = v.pc, !.pc_static = p2]
  OBVIOUS
<1>10. DOMAIN w = GateFields /\ w.cyc = n - 1
  BY <1>1 DEF GateMem, RecordOf
<1>11. /\ RecordOf(x, GateFields) /\ x.cyc = n /\ x.last_pc = s[cmd.hart].pc /\ x.pc_static = p2
       /\ x.at = Nil /\ x.rc = Nil /\ x.storeDrop = w.storeDrop /\ x.loadDrop = w.loadDrop
  BY <1>2, <1>9, <1>10, GateViewOf DEF RecordOf, GateFields
<1>12. PICK y : y = Account(x, v)
  OBVIOUS
<1>13. /\ RecordOf(y, GateFields) /\ y.cyc = n /\ y.last_pc = s[cmd.hart].pc /\ y.pc_static = p2
       /\ y.at = Nil /\ y.rc = Nil
       /\ y.storeDrop = IF v.req = "store" /\ v.inFull THEN w.storeDrop + 1 ELSE w.storeDrop
       /\ y.loadDrop = IF v.req = "load" /\ v.spFull /\ v.inFull THEN w.loadDrop + 1 ELSE w.loadDrop
  <2>1. /\ RecordOf(y, GateFields) /\ y.cyc = x.cyc /\ y.last_pc = x.last_pc /\ y.pc_static = x.pc_static
        /\ y.at = x.at /\ y.rc = x.rc
        /\ y.storeDrop = IF v.req = "store" /\ v.inFull THEN x.storeDrop + 1 ELSE x.storeDrop
        /\ y.loadDrop = IF v.req = "load" /\ v.spFull /\ v.inFull THEN x.loadDrop + 1 ELSE x.loadDrop
    BY <1>11, <1>12, GateAccount
  <2> QED
    BY <1>11, <2>1
<1>14. PICK z : z = Record(y, v, n)
  OBVIOUS
<1>15. /\ RecordOf(z, GateFields) /\ z.cyc = n /\ z.last_pc = s[cmd.hart].pc /\ z.pc_static = p2
       /\ z.at = Nil /\ z.rc = Nil /\ z.storeDrop = y.storeDrop /\ z.loadDrop = y.loadDrop
  BY <1>13, <1>14, GateRecord
<1>16. w2 = GateVerdict(z, n)
  <2>1. w.cyc + 1 = n
    BY <1>1, <1>10
  <2> QED
    BY <1>2, <1>6, <1>9, <1>12, <1>14, <2>1 DEF linux_storegate
<1>17. z.storeDrop \in Nat /\ z.loadDrop \in Nat
  <2>1. w.storeDrop \in Nat /\ w.loadDrop \in Nat
    BY DEF GateMem
  <2>2. y.storeDrop \in Nat
    BY <1>13, <2>1
  <2>3. y.loadDrop \in Nat
    BY <1>13, <2>1
  <2> QED
    BY <1>15, <2>2, <2>3
<1>18. cmd.hart = FIXED => (z.storeDrop + z.loadDrop > 0 <=> Dropped(Append(q, s)))
  <2> SUFFICES ASSUME cmd.hart = FIXED
               PROVE  z.storeDrop + z.loadDrop > 0 <=> Dropped(Append(q, s))
    OBVIOUS
  <2>1. PICK a \in Nat : a = w.storeDrop
    BY DEF GateMem
  <2>2. PICK b \in Nat : b = w.loadDrop
    BY DEF GateMem
  <2>3. a + b > 0 <=> Dropped(q)
    BY <2>1, <2>2 DEF GateMem
  <2>4. /\ z.storeDrop = IF s[cmd.hart].req = "store" /\ s[cmd.hart].inFull THEN a + 1 ELSE a
        /\ z.loadDrop = IF s[cmd.hart].req = "load" /\ s[cmd.hart].spFull /\ s[cmd.hart].inFull THEN b + 1 ELSE b
    BY <1>2, <1>13, <1>15, <2>1, <2>2, GateViewOf
  <2>5. Dropped(Append(q, s)) <=>
           \/ Dropped(q)
           \/ s[cmd.hart].req = "store" /\ s[cmd.hart].inFull
           \/ s[cmd.hart].req = "load" /\ s[cmd.hart].inFull /\ s[cmd.hart].spFull
    BY GateDrops
  <2> QED
    BY <2>3, <2>4, <2>5
<1>19. PICK r : r = Append(q, s)
  OBVIOUS
<1>20. r \in Seq(S) /\ Len(r) = n + 1 /\ r[n + 1] = s
  BY <1>1, <1>19, Longer
<1>21. WedgeAt(r, n + 1) <=> p2 >= t
  <2>1. RunOf(r, cmd.hart, n + 1 - p2)
    BY <1>8, <1>19
  <2>a. PICK j \in Int : j = n + 1 - p2
    BY <1>8
  <2>b. PICK m \in Nat : m = n + 1
    OBVIOUS
  <2>2. Still(r, cmd.hart, m) <=> j + t <= m
    BY <1>4, <1>20, <2>1, <2>a, <2>b, RunStill
  <2>3. WedgeAt(r, n + 1) <=> Still(r, cmd.hart, n + 1)
    BY WedgeAtIs
  <2> QED
    BY <1>8, <2>2, <2>3, <2>a, <2>b
<1>22. p < t /\ p2 \in Nat /\ p2 <= t
  <2>1. p < t
    <3>1. w.pc_static < cmd.stall
      BY DEF GateMem
    <3> QED
      BY <1>4, <1>5, <3>1
  <2> QED
    BY <1>4, <1>7, <2>1
<1>23. DOMAIN z = GateFields
  BY <1>15 DEF RecordOf
<1>24. CASE p2 = t
  <2>1. w2 = [z EXCEPT !.at = n, !.rc = 1, !.cyc = n + TRACE,
                       !.dump = LastEvents(z.ring, z.rn), !.rdump = LastEvents(z.rring, z.rrn)]
    BY <1>4, <1>15, <1>16, <1>24 DEF GateVerdict
  <2>2. w2.at = n /\ w2.rc = 1
    BY <1>23, <2>1 DEF GateFields
  <2>3. w2.rc # Nil /\ w2.at # Nil
    BY <1>1, <2>2 DEF Nil
  <2>4. WedgeAt(r, n + 1)
    BY <1>21, <1>24, <1>22
  <2> QED
    BY <1>1, <1>19, <2>2, <2>3, <2>4
<1>25. CASE p2 # t
  <2>1. p2 < t /\ ~WedgeAt(r, n + 1)
    BY <1>21, <1>22, <1>25
  <2>2. CASE n = cmd.end
    <3>1. w2 = [z EXCEPT !.rc = IF z.storeDrop + z.loadDrop > 0 THEN 1 ELSE 0]
      BY <1>4, <1>15, <1>16, <1>25, <2>2 DEF GateVerdict
    <3>2. w2.at = Nil /\ w2.rc = IF z.storeDrop + z.loadDrop > 0 THEN 1 ELSE 0
      BY <1>15, <1>23, <3>1 DEF GateFields
    <3> QED
      BY <1>1, <1>18, <1>19, <2>1, <3>2 DEF Nil
  <2>3. CASE n # cmd.end
    <3>1. w2 = z
      BY <1>4, <1>15, <1>16, <1>25, <2>3 DEF GateVerdict
    <3>2. GateMem(z, r)
      <4>1. z.cyc = Len(r) - 1 /\ z.last_pc = r[Len(r)][cmd.hart].pc
        BY <1>15, <1>20
      <4>2. z.pc_static \in 0 .. Len(r) - 1 /\ RunOf(r, cmd.hart, Len(r) - z.pc_static)
        BY <1>8, <1>15, <1>19, <1>20
      <4>3. z.pc_static < cmd.stall
        BY <1>4, <1>15, <2>1
      <4> QED
        BY <1>15, <1>17, <1>18, <1>19, <4>1, <4>2, <4>3 DEF GateMem
    <3> QED
      BY <1>1, <1>15, <1>19, <2>1, <3>1, <3>2
  <2> QED
    BY <2>2, <2>3
<1> QED
  BY <1>24, <1>25
-----------------------------------------------------------------------------
(* linux_robjam_probe *)

JamFields == {"cyc", "lastPc", "lastChange", "ring", "ringN", "at", "rc", "dump", "hits", "slot"}

JamMem(w, q) ==
  /\ RecordOf(w, JamFields)
  /\ w.cyc = cmd.start + Len(q) - 1 /\ w.lastPc = q[Len(q)][cmd.hart].pc
  /\ w.lastChange \in Int /\ RunOf(q, cmd.hart, w.lastChange - cmd.start + 1)

LEMMA JamTurn ==
  ASSUME NEW w, RecordOf(w, JamFields), NEW s, NEW w2, w2 = linux_robjam(w, s), w.at = Nil, w.rc = Nil,
         w.cyc \in Int, cmd.start \in Nat
  PROVE  /\ RecordOf(w2, JamFields) /\ w2.cyc = w.cyc + 1 /\ w2.lastPc = s[cmd.hart].pc
         /\ w2.lastChange = IF s[cmd.hart].pc # w.lastPc THEN w.cyc + 1 ELSE w.lastChange
         /\ w2.at = IF Jammed(w, s[cmd.hart], w.cyc + 1) THEN w.cyc + 1 - cmd.start ELSE Nil
         /\ w2.rc = IF Jammed(w, s[cmd.hart], w.cyc + 1) \/ w.cyc + 1 = cmd.start + cmd.end THEN 0 ELSE Nil
<1>1. DOMAIN w = JamFields
  BY DEF RecordOf
<1>2. RecordOf(w2, JamFields)
  BY <1>1, ZenonT(60) DEF linux_robjam, RecordOf, JamFields
<1>3. w2.cyc = w.cyc + 1 /\ w2.lastPc = s[cmd.hart].pc
  BY <1>1 DEF linux_robjam, JamFields
<1>4. w2.lastChange = IF s[cmd.hart].pc # w.lastPc THEN w.cyc + 1 ELSE w.lastChange
  BY <1>1 DEF linux_robjam, JamFields
<1>5. w2.at = IF Jammed(w, s[cmd.hart], w.cyc + 1) THEN w.cyc + 1 - cmd.start ELSE Nil
  <2>1. CASE Jammed(w, s[cmd.hart], w.cyc + 1)
    BY <1>1, <2>1 DEF linux_robjam, JamFields
  <2>2. CASE ~Jammed(w, s[cmd.hart], w.cyc + 1)
    BY <1>1, <2>2 DEF linux_robjam, JamFields
  <2> QED
    BY <2>1, <2>2
<1>6. w2.rc = IF Jammed(w, s[cmd.hart], w.cyc + 1) \/ w.cyc + 1 = cmd.start + cmd.end THEN 0 ELSE Nil
  <2>1. CASE Jammed(w, s[cmd.hart], w.cyc + 1)
    BY <1>1, <2>1 DEF linux_robjam, JamFields
  <2>2. CASE ~Jammed(w, s[cmd.hart], w.cyc + 1)
    BY <1>1, <2>2 DEF linux_robjam, JamFields
  <2> QED
    BY <2>1, <2>2
<1> QED
  BY <1>2, <1>3, <1>4, <1>5, <1>6

LEMMA JamStep ==
  ASSUME cmd \in Commands, IsJam, NEW S, NEW q \in Seq(S), NEW s \in S, Len(q) >= 1,
         NEW w, JamMem(w, q), w.at = Nil, w.rc = Nil, NEW w2, w2 = linux_robjam(w, s)
  PROVE  /\ w2.at = IF WedgeAt(Append(q, s), Len(q) + 1) THEN Len(q) ELSE Nil
         /\ w2.rc = Nil => JamMem(w2, Append(q, s)) /\ w2.at = Nil
<1>1. PICK n \in Nat : n = Len(q) /\ n >= 1
  BY Longer
<1>2. cmd.stall \in Nat \ {0} /\ cmd.start \in Nat
  BY WedgeCommands DEF IsJam
<1>3. PICK t \in Nat : t = cmd.stall /\ t >= 1
  BY <1>2
<1>4. PICK a \in Nat : a = cmd.start
  BY <1>2
<1>5. PICK c \in Int : c = w.lastChange
  BY DEF JamMem
<1>6. PICK j \in Int : j = c - a + 1
  OBVIOUS
<1>7. RunOf(q, cmd.hart, j) /\ w.cyc = a + n - 1 /\ w.lastPc = q[n][cmd.hart].pc
  BY <1>1, <1>4, <1>5, <1>6 DEF JamMem
<1>8. PICK j2 \in Int : j2 = IF s[cmd.hart].pc = q[n][cmd.hart].pc THEN j ELSE n + 1
  BY <1>1
<1>9. PICK r : r = Append(q, s)
  OBVIOUS
<1>10. r \in Seq(S) /\ Len(r) = n + 1 /\ r[n + 1] = s
  BY <1>1, <1>9, Longer
<1>11. RunOf(r, cmd.hart, j2)
  BY <1>1, <1>7, <1>8, <1>9, RunStep
<1>12. PICK m \in Nat : m = n + 1
  OBVIOUS
<1>13. WedgeAt(r, m) <=> j2 + t <= m
  <2>1. Still(r, cmd.hart, m) <=> j2 + t <= m
    BY <1>3, <1>10, <1>11, <1>12, RunStill
  <2> QED
    BY <2>1, WedgeAtIs
<1>14. PICK jam \in BOOLEAN : jam <=> Jammed(w, s[cmd.hart], w.cyc + 1)
  OBVIOUS
<1>15. jam <=> WedgeAt(r, m)
  <2>1. jam <=> s[cmd.hart].pc = q[n][cmd.hart].pc /\ a + n - c >= t
    BY <1>3, <1>5, <1>7, <1>14 DEF Jammed
  <2>2. jam <=> j2 + t <= m
    BY <1>3, <1>6, <1>8, <1>12, <2>1
  <2> QED
    BY <1>13, <2>2
<1>16. RecordOf(w, JamFields)
  BY DEF JamMem
<1>17. /\ RecordOf(w2, JamFields) /\ w2.cyc = w.cyc + 1 /\ w2.lastPc = s[cmd.hart].pc
       /\ w2.lastChange = IF s[cmd.hart].pc # w.lastPc THEN w.cyc + 1 ELSE w.lastChange
       /\ w2.at = IF jam THEN w.cyc + 1 - cmd.start ELSE Nil
       /\ w2.rc = IF jam \/ w.cyc + 1 = cmd.start + cmd.end THEN 0 ELSE Nil
  <2>1. w.cyc \in Int
    BY <1>7
  <2> QED
    BY <1>2, <1>14, <1>16, <2>1, JamTurn
<1>18. w2.cyc = a + n /\ w.cyc + 1 - cmd.start = n
  <2>1. PICK e \in Int : e = w.cyc /\ e = a + n - 1
    BY <1>7
  <2>2. w2.cyc = e + 1
    BY <1>17, <2>1, Zenon
  <2>3. e + 1 = a + n /\ e + 1 - a = n
    BY <2>1
  <2>4. e + 1 - cmd.start = n
    BY <1>4, <2>3, Zenon
  <2> QED
    BY <2>1, <2>2, <2>3, <2>4, Zenon
<1>19. w2.lastChange \in Int /\ w2.lastChange - a + 1 = j2
  BY <1>5, <1>6, <1>7, <1>8, <1>17
<1>20. w2.at = IF WedgeAt(r, m) THEN n ELSE Nil
  BY <1>15, <1>17, <1>18
<1>21. w2.rc = Nil => ~jam
  BY <1>17 DEF Nil
<1>22. JamMem(w2, r)
  <2>1. w2.cyc = cmd.start + Len(r) - 1 /\ w2.lastPc = r[Len(r)][cmd.hart].pc
    BY <1>4, <1>10, <1>17, <1>18
  <2>2. RunOf(r, cmd.hart, w2.lastChange - cmd.start + 1)
    BY <1>4, <1>11, <1>19
  <2> QED
    BY <1>17, <1>19, <2>1, <2>2 DEF JamMem
<1> QED
  BY <1>1, <1>9, <1>12, <1>15, <1>20, <1>21, <1>22
-----------------------------------------------------------------------------
(* injwedge_probe *)

InjFields == {"cyc", "prev", "inj_since", "ring", "rn", "at", "rc", "dump"}

InjMem(w, q) ==
  /\ w.cyc = Len(q) - 1 /\ w.inj_since \in 0 .. Len(q) - 1
  /\ \A i \in w.inj_since + 2 .. Len(q) : q[i].inj # 0
  /\ w.inj_since > 0 => q[w.inj_since + 1].inj = 0

LEMMA InjStep ==
  ASSUME cmd \in Commands, IsInj, NEW S, NEW q \in Seq(S), NEW s \in S, Len(q) >= 1,
         NEW w, InjMem(w, q), w.at = Nil, w.rc = Nil, NEW w2, w2 = injwedge(w, s)
  PROVE  /\ w2.at = IF WedgeAt(Append(q, s), Len(q) + 1) THEN Len(q) ELSE Nil
         /\ w2.rc = Nil => InjMem(w2, Append(q, s)) /\ w2.at = Nil
<1>1. PICK n \in Nat : n = Len(q) /\ n >= 1
  BY Longer
<1>2. cmd.stall \in Nat \ {0}
  BY WedgeCommands DEF IsInj
<1>3. PICK t \in Nat : t = cmd.stall /\ t >= 1
  BY <1>2
<1>4. PICK c \in Nat : c = w.inj_since
  BY DEF InjMem
<1>5. /\ w.cyc = n - 1 /\ c <= n - 1
      /\ \A i \in c + 2 .. n : q[i].inj # 0
      /\ c > 0 => q[c + 1].inj = 0
  BY <1>1, <1>4 DEF InjMem
<1>6. PICK r : r = Append(q, s)
  OBVIOUS
<1>7. r \in Seq(S) /\ Len(r) = n + 1 /\ r[n + 1] = s /\ \A i \in 1 .. n : r[i] = q[i]
  BY <1>1, <1>6, Longer
<1>8. PICK c2 \in Nat : c2 = IF s.inj = 0 THEN n ELSE c
  BY <1>1
<1>9. /\ w2.cyc = n /\ w2.inj_since = c2
      /\ w2.at = IF s.inj # 0 /\ n - c2 > t THEN n ELSE Nil
      /\ w2.rc = IF (s.inj # 0 /\ n - c2 > t) \/ n = cmd.end THEN 0 ELSE Nil
  <2>1. w.cyc + 1 = n
    BY <1>1, <1>5
  <2> QED
    BY <1>3, <1>4, <1>8, <2>1 DEF injwedge
<1>10. c2 <= n /\ (\A i \in c2 + 2 .. n + 1 : r[i].inj # 0) /\ (c2 > 0 => r[c2 + 1].inj = 0)
  <2>1. CASE s.inj = 0
    BY <1>7, <1>8, <2>1
  <2>2. CASE s.inj # 0
    <3>1. ASSUME NEW i \in c + 2 .. n + 1
          PROVE  r[i].inj # 0
      BY <1>5, <1>7, <2>2, <3>1, SMTT(30)
    <3>2. c > 0 => r[c + 1].inj = 0
      BY <1>5, <1>7
    <3> QED
      BY <1>5, <1>8, <2>2, <3>1, <3>2
  <2> QED
    BY <2>1, <2>2
<1>11. (s.inj # 0 /\ n - c2 > t) <=> (n + 1 > t + 1 /\ \A i \in n + 1 - t .. n + 1 : r[i].inj # 0)
  <2>1. ASSUME s.inj # 0, n - c2 > t
        PROVE  n + 1 > t + 1 /\ \A i \in n + 1 - t .. n + 1 : r[i].inj # 0
    BY <1>3, <1>8, <1>10, <2>1
  <2>2. ASSUME n + 1 > t + 1, \A i \in n + 1 - t .. n + 1 : r[i].inj # 0
        PROVE  s.inj # 0 /\ n - c2 > t
    <3>1. s.inj # 0
      BY <1>3, <1>7, <2>2
    <3>2. ~(n - c2 <= t /\ c2 > 0)
      BY <1>3, <1>10, <2>2
    <3> QED
      BY <1>3, <1>8, <2>2, <3>1, <3>2
  <2> QED
    BY <2>1, <2>2
<1>12. WedgeAt(r, n + 1) <=> (s.inj # 0 /\ n - c2 > t)
  <2>1. PICK m \in Nat : m = n + 1
    OBVIOUS
  <2>2. WedgeAt(r, m) <=> m > t + 1 /\ \A i \in m - t .. m : r[i].inj # 0
    BY <1>3, WedgeAtIs
  <2> QED
    BY <1>11, <2>1, <2>2
<1>13. InjMem(w2, r)
  BY <1>7, <1>9, <1>10 DEF InjMem
<1>14. w2.rc = Nil => w2.at = Nil
  BY <1>9 DEF Nil
<1> QED
  BY <1>1, <1>6, <1>9, <1>12, <1>13, <1>14
-----------------------------------------------------------------------------
(* seqlock_wedge_trace *)

SeqFields == {"cyc", "prev_pc", "streak", "at", "dump_tick", "reglog", "regs", "rc"}

(* The harts' streaks, and the capture so far. *)
SeqMem(w, q) ==
  /\ RecordOf(w, SeqFields)
  /\ w.cyc = Len(q) - 1
  /\ \A h \in Harts : /\ w.prev_pc[h] = q[Len(q)][h].pc
                      /\ w.streak[h] \in Nat /\ RunOf(q, h, Len(q) - w.streak[h])

Capturing(w) ==
  IF w.at = Nil THEN w.dump_tick = 0 /\ w.reglog = 0
  ELSE /\ w.at \in Nat /\ w.dump_tick \in Nat /\ w.dump_tick = w.cyc - w.at
       /\ w.reglog = w.dump_tick + 1 /\ w.dump_tick < cmd.window

Captured(w) ==
  /\ w.dump_tick <= cmd.window
  /\ w.at # Nil => w.reglog = w.dump_tick + 1
  /\ w.rc = 0 => w.dump_tick = cmd.window \/ w.cyc = cmd.end

LEMMA SeqTurn ==
  ASSUME NEW w, RecordOf(w, SeqFields), NEW s, NEW w2, w2 = seqlock_wedge(w, s), NEW k \in Nat, w.cyc = k,
         NEW at, at = IF Triggers(w, s) THEN k + 1 ELSE w.at
  PROVE  /\ RecordOf(w2, SeqFields) /\ w2.cyc = k + 1 /\ w2.at = at
         /\ w2.streak = PcStreak(w, s) /\ w2.prev_pc = [c \in Harts |-> s[c].pc]
         /\ w2.dump_tick = IF w.at # Nil THEN w.dump_tick + 1 ELSE w.dump_tick
         /\ w2.reglog = IF at # Nil THEN w.reglog + 1 ELSE w.reglog
         /\ w2.rc = IF at # Nil /\ k + 1 - at >= cmd.window THEN 0
                    ELSE IF k + 1 = cmd.end THEN (IF at # Nil THEN 0 ELSE 1) ELSE Nil
<1>1. DOMAIN w = SeqFields
  BY DEF RecordOf
<1>2. RecordOf(w2, SeqFields)
  BY <1>1 DEF seqlock_wedge, RecordOf, SeqFields
<1>3. w2.cyc = k + 1 /\ w2.at = at
  BY <1>1 DEF seqlock_wedge, SeqFields
<1>4. w2.streak = PcStreak(w, s) /\ w2.prev_pc = [c \in Harts |-> s[c].pc]
  BY <1>1 DEF seqlock_wedge, SeqFields
<1>5. w2.dump_tick = IF w.at # Nil THEN w.dump_tick + 1 ELSE w.dump_tick
  BY <1>1 DEF seqlock_wedge, SeqFields
<1>6. w2.reglog = IF at # Nil THEN w.reglog + 1 ELSE w.reglog
  BY <1>1 DEF seqlock_wedge, SeqFields
<1>7. w2.rc = IF at # Nil /\ k + 1 - at >= cmd.window THEN 0
              ELSE IF k + 1 = cmd.end THEN (IF at # Nil THEN 0 ELSE 1) ELSE Nil
  <2>1. w2.rc = CASE at # Nil /\ k + 1 - at >= cmd.window -> 0
                  [] ~(at # Nil /\ k + 1 - at >= cmd.window) /\ k + 1 = cmd.end -> IF at # Nil THEN 0 ELSE 1
                  [] OTHER -> Nil
    BY <1>1 DEF seqlock_wedge, SeqFields
  <2> QED
    BY <2>1
<1> QED
  BY <1>2, <1>3, <1>4, <1>5, <1>6, <1>7

LEMMA SeqStep ==
  ASSUME cmd \in Commands, IsSeq, NEW S, NEW q \in Seq(S), NEW s \in S, Len(q) >= 1,
         NEW w, SeqMem(w, q), Capturing(w), w.rc = Nil, NEW w2, w2 = seqlock_wedge(w, s)
  PROVE  /\ w2.at = IF w.at = Nil /\ WedgeAt(Append(q, s), Len(q) + 1) THEN Len(q) ELSE w.at
         /\ Captured(w2)
         /\ w2.rc = Nil => SeqMem(w2, Append(q, s)) /\ Capturing(w2)
<1>1. PICK n \in Nat : n = Len(q) /\ n >= 1
  BY Longer
<1>2. cmd.stall \in Nat \ {0} /\ cmd.window \in Nat
  BY WedgeCommands DEF IsSeq
<1>3. PICK t \in Nat : t = cmd.stall /\ t >= 1
  BY <1>2
<1>4. PICK r : r = Append(q, s)
  OBVIOUS
<1>5. r \in Seq(S) /\ Len(r) = n + 1 /\ r[n + 1] = s
  BY <1>1, <1>4, Longer
<1>6. PICK m \in Nat : m = n + 1
  OBVIOUS
<1>7. PICK k \in Nat : k = n - 1 /\ w.cyc = k
  BY <1>1 DEF SeqMem
<1>8. RecordOf(w, SeqFields)
  BY DEF SeqMem
<1>9. PICK at : at = IF Triggers(w, s) THEN k + 1 ELSE w.at
  OBVIOUS
<1>10. /\ RecordOf(w2, SeqFields) /\ w2.cyc = k + 1 /\ w2.at = at
       /\ w2.streak = PcStreak(w, s) /\ w2.prev_pc = [c \in Harts |-> s[c].pc]
       /\ w2.dump_tick = IF w.at # Nil THEN w.dump_tick + 1 ELSE w.dump_tick
       /\ w2.reglog = IF at # Nil THEN w.reglog + 1 ELSE w.reglog
       /\ w2.rc = IF at # Nil /\ k + 1 - at >= cmd.window THEN 0
                  ELSE IF k + 1 = cmd.end THEN (IF at # Nil THEN 0 ELSE 1) ELSE Nil
  BY <1>7, <1>8, <1>9, SeqTurn
<1>11. ASSUME NEW h \in Harts
       PROVE  /\ PcStreak(w, s)[h] \in Nat /\ RunOf(r, h, m - PcStreak(w, s)[h])
              /\ Still(r, h, m) <=> PcStreak(w, s)[h] >= t
  <2>1. PICK p \in Nat : p = w.streak[h]
    BY DEF SeqMem
  <2>2. RunOf(q, h, n - p) /\ w.prev_pc[h] = q[n][h].pc
    BY <1>1, <2>1 DEF SeqMem
  <2>3. PICK p2 \in Nat : p2 = IF s[h].pc = q[n][h].pc THEN p + 1 ELSE 0
    OBVIOUS
  <2>4. PcStreak(w, s)[h] = p2
    BY <2>1, <2>2, <2>3 DEF PcStreak
  <2>5. PICK j \in Int : j = m - p2
    OBVIOUS
  <2>6. RunOf(r, h, j)
    <3>1. RunOf(r, h, IF s[h].pc = q[n][h].pc THEN n - p ELSE n + 1)
      BY <1>1, <1>4, <2>2, RunStep
    <3>2. (IF s[h].pc = q[n][h].pc THEN n - p ELSE n + 1) = j
      BY <1>6, <2>3, <2>5
    <3> QED
      BY <3>1, <3>2
  <2>7. Still(r, h, m) <=> j + t <= m
    BY <1>3, <1>5, <1>6, <2>6, RunStill
  <2> QED
    BY <2>4, <2>5, <2>6, <2>7
<1>12. Triggers(w, s) <=> w.at = Nil /\ WedgeAt(r, m)
  <2>1. WedgeAt(r, m) <=> \E h \in Harts : Still(r, h, m)
    BY WedgeAtIs
  <2> QED
    BY <1>3, <1>11, <2>1 DEF Triggers
<1>13. w2.at = IF w.at = Nil /\ WedgeAt(r, m) THEN n ELSE w.at
  BY <1>7, <1>9, <1>10, <1>12
<1>14. PICK wnd \in Nat : wnd = cmd.window
  BY <1>2
<1>15. /\ Captured(w2)
       /\ w2.rc = Nil => Capturing(w2)
  <2>1. CASE w.at = Nil /\ ~Triggers(w, s)
    <3>1. w2.at = Nil /\ w2.dump_tick = 0 /\ w2.reglog = 0 /\ w2.rc # 0
      BY <1>9, <1>10, <2>1 DEF Capturing, Nil
    <3> QED
      BY <1>14, <3>1 DEF Captured, Capturing
  <2>2. CASE w.at = Nil /\ Triggers(w, s)
    <3>1. w2.at = k + 1 /\ at = k + 1 /\ k + 1 # Nil
      BY <1>9, <1>10, <2>2 DEF Nil
    <3>2. w2.dump_tick = 0 /\ w2.reglog = 1
      BY <1>10, <2>2, <3>1 DEF Capturing
    <3>3. w2.rc = IF 0 >= wnd THEN 0 ELSE IF k + 1 = cmd.end THEN 0 ELSE Nil
      <4>1. at # Nil /\ k + 1 - at = 0
        BY <3>1
      <4>2. w2.rc = IF k + 1 - at >= wnd THEN 0 ELSE IF k + 1 = cmd.end THEN 0 ELSE Nil
        BY <1>10, <1>14, <4>1
      <4> QED
        BY <4>1, <4>2
    <3>4. Captured(w2)
      BY <1>10, <1>14, <3>2, <3>3 DEF Captured, Nil
    <3>5. w2.rc = Nil => 0 < wnd
      BY <3>3, <1>14 DEF Nil
    <3>6. w2.rc = Nil => Capturing(w2)
      BY <1>10, <1>14, <3>1, <3>2, <3>5 DEF Capturing
    <3> QED
      BY <3>4, <3>6
  <2>3. CASE w.at # Nil
    <3>1. PICK a \in Nat : a = w.at
      BY <2>3 DEF Capturing
    <3>2. PICK d \in Nat : d = w.dump_tick /\ d = k - a /\ w.reglog = d + 1 /\ d < wnd
      BY <1>7, <1>14, <2>3, <3>1 DEF Capturing
    <3>3. at = a /\ w2.at = a /\ a # Nil
      BY <1>9, <1>10, <2>3, <3>1 DEF Triggers
    <3>4. w2.dump_tick = d + 1 /\ w2.reglog = d + 2
      BY <1>10, <2>3, <3>2, <3>3
    <3>5. w2.rc = IF d + 1 >= wnd THEN 0 ELSE IF k + 1 = cmd.end THEN 0 ELSE Nil
      BY <1>10, <1>14, <3>2, <3>3
    <3>6. Captured(w2)
      BY <1>10, <1>14, <3>2, <3>3, <3>4, <3>5 DEF Captured, Nil
    <3>7. w2.rc = Nil => Capturing(w2)
      BY <1>10, <1>14, <3>2, <3>3, <3>4, <3>5 DEF Capturing, Nil
    <3> QED
      BY <3>6, <3>7
  <2> QED
    BY <2>1, <2>2, <2>3
<1>16. SeqMem(w2, r)
  <2>1. w2.cyc = Len(r) - 1
    BY <1>5, <1>7, <1>10
  <2>2. ASSUME NEW h \in Harts
        PROVE  /\ w2.prev_pc[h] = r[Len(r)][h].pc
               /\ w2.streak[h] \in Nat /\ RunOf(r, h, Len(r) - w2.streak[h])
    BY <1>5, <1>6, <1>10, <1>11
  <2> QED
    BY <1>10, <2>1, <2>2 DEF SeqMem
<1> QED
  BY <1>1, <1>4, <1>6, <1>13, <1>15, <1>16
-----------------------------------------------------------------------------
(* ipitmr_loop_probe, rob_integrity_probe *)

LoopFields == {"cyc", "prev", "ring", "head", "nev", "at", "rc", "dump"}

LoopMem(w, q) ==
  RecordOf(w, LoopFields) /\ w.cyc = Len(q) - 1 /\ w.prev = q[Len(q)]

LEMMA LoopPush ==
  ASSUME NEW w, RecordOf(w, LoopFields), NEW es, NEW x, x = PushAll(w, es)
  PROVE  RecordOf(x, LoopFields) /\ x.at = w.at /\ x.rc = w.rc
<1>1. DOMAIN w = LoopFields
  BY DEF RecordOf
<1>2. PICK R : R = [i \in 0 .. RING - 1 |->
                      LET mine == {j \in 1 .. Len(es) : (w.head + j - 1) % RING = i}
                      IN  IF mine = {} THEN w.ring[i] ELSE es[Max(mine)]]
  OBVIOUS
<1>3. x = [w EXCEPT !.ring = R, !.head = (w.head + Len(es)) % RING, !.nev = w.nev + Len(es)]
  BY <1>1, <1>2 DEF PushAll, LoopFields
<1> QED
  BY <1>1, <1>3 DEF RecordOf, LoopFields

LEMMA LoopStep ==
  ASSUME cmd \in Commands, IsLoop \/ IsInteg, NEW S, NEW q \in Seq(S), NEW s \in S, Len(q) >= 1,
         NEW w, LoopMem(w, q), w.at = Nil, w.rc = Nil, NEW w2, w2 = loop_watch(w, s)
  PROVE  /\ w2.at = IF WedgeAt(Append(q, s), Len(q) + 1) THEN Len(q) ELSE Nil
         /\ w2.rc = Nil => LoopMem(w2, Append(q, s)) /\ w2.at = Nil
<1>1. PICK n \in Nat : n = Len(q) /\ n >= 1
  BY Longer
<1>2. PICK r : r = Append(q, s)
  OBVIOUS
<1>3. r \in Seq(S) /\ Len(r) = n + 1 /\ r[n + 1] = s /\ r[n] = q[n]
  BY <1>1, <1>2, Longer
<1>4. PICK x : x = PushAll(w, EventsOf(s, w.prev, w.cyc + 1))
  OBVIOUS
<1>5. RecordOf(x, LoopFields) /\ x.at = Nil /\ x.rc = Nil
  BY <1>4, LoopPush DEF LoopMem
<1>6. PICK trig \in BOOLEAN : trig <=> BneLatch(s, w.prev) /\ PastBound(s)
  OBVIOUS
<1>7. w.cyc + 1 = n /\ w.prev = q[n]
  BY <1>1 DEF LoopMem
<1>8. trig <=> WedgeAt(r, n + 1)
  <2>1. PICK m \in Nat : m = n + 1 /\ m - 1 = n
    OBVIOUS
  <2>2. WedgeAt(r, m) <=> BneLatch(r[m], r[m - 1]) /\ PastBound(r[m])
    BY WedgeAtIs
  <2> QED
    BY <1>3, <1>6, <1>7, <2>1, <2>2
<1>9. w2 = [x EXCEPT !.cyc = n, !.prev = s,
                     !.at = IF trig THEN n ELSE x.at,
                     !.rc = IF trig \/ n = cmd.end THEN 0 ELSE x.rc,
                     !.dump = IF trig THEN KeptEvents(x.ring, x.head, x.nev) ELSE x.dump]
  <2>1. CASE trig
    BY <1>4, <1>6, <1>7, <2>1 DEF loop_watch
  <2>2. CASE ~trig
    BY <1>4, <1>6, <1>7, <2>2 DEF loop_watch
  <2> QED
    BY <2>1, <2>2
<1>10. /\ RecordOf(w2, LoopFields) /\ w2.cyc = n /\ w2.prev = s
       /\ w2.at = IF trig THEN n ELSE Nil
       /\ w2.rc = IF trig \/ n = cmd.end THEN 0 ELSE Nil
  BY <1>5, <1>9 DEF RecordOf, LoopFields
<1>11. LoopMem(w2, r)
  BY <1>3, <1>10 DEF LoopMem
<1> QED
  BY <1>1, <1>2, <1>8, <1>10, <1>11 DEF Nil
-----------------------------------------------------------------------------
(* ipitmr_wedge_probe, linux_injfsm_probe *)

(* Where the run of ones of a wire that is high began: since counts the      *)
(* clocks from start.  The first sample is from before the probe.            *)
WireRun(q, h, j) ==
  /\ j \in 2 .. Len(q)
  /\ \A i \in j .. Len(q) : Level(q[i], h) = 1
  /\ j > 2 => Level(q[j - 1], h) = 0

WireMem(w, q, start) ==
  /\ w.cyc = start + Len(q) - 1
  /\ \A h \in Harts : /\ w.prev[h] = IF Len(q) = 1 THEN 0 ELSE Level(q[Len(q)], h)
                      /\ w.since[h] \in Int
                      /\ w.prev[h] = 1 => WireRun(q, h, w.since[h] - start + 1)

Wires(q) == \A k \in 2 .. Len(q) : \A h \in Harts : Level(q[k], h) \in 0 .. 1

LEMMA WireRaised ==
  ASSUME NEW q, NEW n \in Nat, n = Len(q), NEW h, NEW j \in Int, WireRun(q, h, j), NEW t \in Nat, t = cmd.stall
  PROVE  Raised(q, h, n) <=> n - j > t
<1>1. /\ j \in 2 .. n /\ \A i \in j .. n : Level(q[i], h) = 1
      /\ j > 2 => Level(q[j - 1], h) = 0
  BY DEF WireRun
<1>2. ASSUME n - j > t
      PROVE  n > t + 2 /\ \A i \in n - t - 1 .. n : Level(q[i], h) = 1
  BY <1>1, <1>2
<1>3. ASSUME n - j <= t, n > t + 2, \A i \in n - t - 1 .. n : Level(q[i], h) = 1
      PROVE  FALSE
  <2>1. j > 2 /\ j - 1 \in n - t - 1 .. n
    BY <1>1, <1>3
  <2> QED
    BY <1>1, <1>3, <2>1
<1> QED
  BY <1>1, <1>2, <1>3 DEF Raised

(* A clock of the wires: s is the next sample, r the history with it. *)
WireClock(S, q, s, n, w, a, t, now, r, m) ==
  /\ q \in Seq(S) /\ s \in S /\ n \in Nat /\ n = Len(q) /\ n >= 1 /\ a \in Nat
  /\ WireMem(w, q, a) /\ Wires(q) /\ \A h \in Harts : Level(s, h) \in 0 .. 1
  /\ t \in Nat /\ t = cmd.stall /\ now = a + n /\ r = Append(q, s) /\ m \in Nat /\ m = n + 1

LEMMA WireStep ==
  ASSUME NEW S, NEW q, NEW s, NEW n, NEW w, NEW a, NEW t, NEW now, NEW r, NEW m,
         WireClock(S, q, s, n, w, a, t, now, r, m), NEW h \in Harts
  PROVE  /\ MsipSince(w, s, now)[h] \in Int
         /\ Level(s, h) = 1 => WireRun(r, h, MsipSince(w, s, now)[h] - a + 1)
         /\ Raised(r, h, m) <=> Level(s, h) = 1 /\ now - MsipSince(w, s, now)[h] > t
<1> USE DEF WireClock
<1>1. PICK d : d = MsipSince(w, s, now)[h]
  OBVIOUS
<1>2. m = n + 1
  OBVIOUS
<1>3. Len(r) = m /\ r[m] = s /\ \A i \in 1 .. n : r[i] = q[i]
  BY Longer
<1>4. PICK c \in Int : c = w.since[h]
  BY DEF WireMem
<1>5. d = IF Level(s, h) = 1 /\ w.prev[h] = 0 THEN a + n ELSE c
  BY <1>1, <1>4 DEF MsipSince
<1>6. d \in Int
  BY <1>4, <1>5
<1>e. PICK e \in Int : e = d
  BY <1>6
<1>7. PICK j \in Int : j = e - a + 1
  OBVIOUS
<1>8. ASSUME Level(s, h) = 1
      PROVE  WireRun(r, h, j)
  <2>1. CASE w.prev[h] = 0
    <3>1. j = m
      BY <1>2, <1>5, <1>e, <1>7, <1>8, <2>1
    <3>2. m > 2 => Level(r[m - 1], h) = 0
      <4>1. ASSUME n # 1
            PROVE  Level(q[n], h) = 0
        BY <2>1, <4>1 DEF WireMem
      <4> QED
        BY <1>2, <1>3, <4>1
    <3> QED
      BY <1>2, <1>3, <1>8, <3>1, <3>2 DEF WireRun
  <2>2. CASE w.prev[h] # 0
    <3>1. n # 1 /\ w.prev[h] = 1
      <4>1. w.prev[h] = IF n = 1 THEN 0 ELSE Level(q[n], h)
        BY DEF WireMem
      <4>2. n # 1 => Level(q[n], h) \in 0 .. 1
        BY DEF Wires
      <4> QED
        BY <2>2, <4>1, <4>2
    <3>2. WireRun(q, h, j)
      <4>1. w.since[h] - a + 1 = j
        BY <1>4, <1>5, <1>e, <1>7, <2>2
      <4> QED
        BY <3>1, <4>1 DEF WireMem
    <3>3. /\ j \in 2 .. n /\ \A i \in j .. n : Level(q[i], h) = 1
          /\ j > 2 => Level(q[j - 1], h) = 0
      BY <3>2 DEF WireRun
    <3>4. ASSUME NEW i \in j .. m
          PROVE  Level(r[i], h) = 1
      BY <1>2, <1>3, <1>8, <3>3, <3>4
    <3>5. j > 2 => Level(r[j - 1], h) = 0
      BY <1>3, <3>3
    <3> QED
      BY <1>2, <1>3, <3>3, <3>4, <3>5 DEF WireRun
  <2> QED
    BY <2>1, <2>2
<1>9. Raised(r, h, m) <=> Level(s, h) = 1 /\ a + n - e > t
  <2>1. CASE Level(s, h) = 1
    <3>1. Raised(r, h, m) <=> m - j > t
      BY <1>3, <1>8, <2>1, WireRaised
    <3>2. m - j = a + n - e
      BY <1>2, <1>7
    <3> QED
      BY <2>1, <3>1, <3>2
  <2>2. CASE Level(s, h) # 1
    BY <1>2, <1>3, <2>2, SMTT(30) DEF Raised
  <2> QED
    BY <2>1, <2>2
<1>10. Level(s, h) = 1 => WireRun(r, h, d - a + 1)
  BY <1>e, <1>7, <1>8
<1>11. Raised(r, h, m) <=> Level(s, h) = 1 /\ now - d > t
  <2>1. now - e = a + n - e
    OBVIOUS
  <2>2. now - d = a + n - e
    BY <1>e, <2>1
  <2> QED
    BY <1>9, <2>2, Zenon
<1> QED
  BY <1>1, <1>6, <1>10, <1>11, Zenon

(* One clock of the wires. *)
LEMMA WireTurn ==
  ASSUME NEW S, NEW q, NEW s, NEW n, NEW w, NEW a, NEW t, NEW now, NEW r, NEW m,
         WireClock(S, q, s, n, w, a, t, now, r, m)
  PROVE  /\ MsipLate(s, MsipSince(w, s, now), now) # {} <=> \E h \in Harts : Raised(r, h, m)
         /\ \A w2 : w2.cyc = now /\ w2.since = MsipSince(w, s, now) /\ (\A h \in Harts : w2.prev[h] = Level(s, h))
                    => WireMem(w2, r, a)
<1>0. t = cmd.stall /\ now = a + n /\ m = n + 1 /\ m \in Nat /\ r = Append(q, s) /\ q \in Seq(S) /\ s \in S
      /\ n = Len(q) /\ n \in Nat /\ n >= 1 /\ a \in Nat
  BY DEF WireClock
<1>1. ASSUME NEW h \in Harts
      PROVE  /\ MsipSince(w, s, now)[h] \in Int
             /\ Level(s, h) = 1 => WireRun(r, h, MsipSince(w, s, now)[h] - a + 1)
             /\ Raised(r, h, m) <=> Level(s, h) = 1 /\ now - MsipSince(w, s, now)[h] > t
  BY WireStep
<1>2. MsipLate(s, MsipSince(w, s, now), now) # {} <=> \E h \in Harts : Raised(r, h, m)
  <2>1. \A h : h \in MsipLate(s, MsipSince(w, s, now), now) <=> h \in Harts /\ Raised(r, h, m)
    BY <1>1, <1>0, Zenon DEF MsipLate
  <2> QED
    BY <2>1
<1>3. Len(r) = m /\ r[m] = s /\ m # 1
  BY <1>0, Longer
<1>4. ASSUME NEW w2, w2.cyc = now, w2.since = MsipSince(w, s, now), \A h \in Harts : w2.prev[h] = Level(s, h)
      PROVE  WireMem(w2, r, a)
  <2>1. w2.cyc = a + Len(r) - 1
    BY <1>3, <1>4, <1>0
  <2>2. ASSUME NEW h \in Harts
        PROVE  /\ w2.prev[h] = IF Len(r) = 1 THEN 0 ELSE Level(r[Len(r)], h)
               /\ w2.since[h] \in Int
               /\ w2.prev[h] = 1 => WireRun(r, h, w2.since[h] - a + 1)
    <3>1. w2.prev[h] = Level(s, h) /\ Level(r[Len(r)], h) = Level(s, h) /\ Len(r) # 1
      BY <1>3, <1>4
    <3>2. w2.since[h] \in Int /\ (w2.prev[h] = 1 => WireRun(r, h, w2.since[h] - a + 1))
      BY <1>1, <1>4, <3>1, Zenon
    <3> QED
      BY <3>1, <3>2, Zenon
  <2> QED
    BY <2>1, <2>2 DEF WireMem
<1> QED
  BY <1>2, <1>4

LEMMA MsipStep ==
  ASSUME cmd \in Commands, IsMsip, NEW S, NEW q \in Seq(S), NEW s \in cmd.samples, s \in S, Len(q) >= 1,
         Wires(q), NEW w, WireMem(w, q, 0), w.at = Nil, w.rc = Nil, NEW w2, w2 = ipitmr_wedge(w, s)
  PROVE  /\ w2.at = IF WedgeAt(Append(q, s), Len(q) + 1) THEN Len(q) ELSE Nil
         /\ w2.rc = Nil => WireMem(w2, Append(q, s), 0) /\ w2.at = Nil
<1>1. PICK n \in Nat : n = Len(q) /\ n >= 1
  BY Longer
<1>2. cmd.stall \in Nat \ {0} /\ (\A h \in Harts : s[h] \in 0 .. 1)
  BY WedgeCommands DEF IsMsip
<1>3. PICK t \in Nat : t = cmd.stall
  BY <1>2
<1>4. PICK r : r = Append(q, s)
  OBVIOUS
<1>5. PICK m \in Nat : m = n + 1
  OBVIOUS
<1>6. \A h \in Harts : Level(s, h) = s[h]
  BY DEF Level, IsMsip
<1>7. w.cyc + 1 = n /\ 0 + n = n
  BY <1>1 DEF WireMem
<1>8. PICK late : late = MsipLate(s, MsipSince(w, s, n), n)
  OBVIOUS
<1>9. /\ late # {} <=> \E h \in Harts : Raised(r, h, m)
      /\ w2.cyc = n /\ w2.since = MsipSince(w, s, n) /\ (\A h \in Harts : w2.prev[h] = Level(s, h))
           => WireMem(w2, r, 0)
  <2>1. \A h \in Harts : Level(s, h) \in 0 .. 1
    BY <1>2, <1>6
  <2>2. WireClock(S, q, s, n, w, 0, t, n, r, m)
    BY <1>1, <1>3, <1>4, <1>5, <1>7, <2>1 DEF WireClock
  <2> QED
    BY <1>8, <2>2, WireTurn
<1>10. w2 = [cyc |-> n, prev |-> s, since |-> MsipSince(w, s, n), hart |-> Lowest(late),
             at |-> IF late = {} THEN Nil ELSE n,
             rc |-> IF late # {} THEN 7 ELSE IF n = cmd.end THEN 0 ELSE Nil]
  BY <1>7, <1>8 DEF ipitmr_wedge
<1>11. /\ w2.cyc = n /\ w2.prev = s /\ w2.since = MsipSince(w, s, n)
       /\ w2.at = IF late = {} THEN Nil ELSE n
       /\ w2.rc = IF late # {} THEN 7 ELSE IF n = cmd.end THEN 0 ELSE Nil
  BY <1>10
<1>12. WedgeAt(r, m) <=> late # {}
  BY <1>9, WedgeAtIs
<1>13. WireMem(w2, r, 0)
  BY <1>6, <1>9, <1>11
<1> QED
  BY <1>1, <1>4, <1>5, <1>11, <1>12, <1>13 DEF Nil

LEMMA FsmStep ==
  ASSUME cmd \in Commands, IsFsm, NEW S, NEW q \in Seq(S), NEW s \in cmd.samples, s \in S, Len(q) >= 1,
         Wires(q), NEW w, WireMem(w, q, cmd.start), w.at = Nil, w.rc = Nil, NEW w2, w2 = linux_injfsm(w, s)
  PROVE  /\ w2.at = IF WedgeAt(Append(q, s), Len(q) + 1) THEN Len(q) ELSE Nil
         /\ w2.rc = Nil => WireMem(w2, Append(q, s), cmd.start) /\ w2.at = Nil
<1>1. PICK n \in Nat : n = Len(q) /\ n >= 1
  BY Longer
<1>2. cmd.stall \in Nat \ {0} /\ (\A h \in Harts : s[h].msip \in 0 .. 1) /\ cmd.start \in Nat
  BY WedgeCommands DEF IsFsm
<1>3. PICK t \in Nat : t = cmd.stall
  BY <1>2
<1>4. PICK r : r = Append(q, s)
  OBVIOUS
<1>5. PICK m \in Nat : m = n + 1
  OBVIOUS
<1>6. \A h \in Harts : Level(s, h) = s[h].msip
  BY DEF Level, IsFsm
<1>7. PICK a \in Nat : a = cmd.start
  BY <1>2
<1>8. PICK now \in Nat : now = a + n
  BY <1>1
<1>9. w.cyc + 1 = now
  BY <1>1, <1>7, <1>8, SMTT(30) DEF WireMem
<1>10. now - cmd.start = n
  BY <1>7, <1>8
<1>11. /\ MsipLate(s, MsipSince(w, s, now), now) # {} <=> \E h \in Harts : Raised(r, h, m)
       /\ w2.cyc = now /\ w2.since = MsipSince(w, s, now) /\ (\A h \in Harts : w2.prev[h] = Level(s, h))
            => WireMem(w2, r, a)
  <2>1. \A h \in Harts : Level(s, h) \in 0 .. 1
    BY <1>2, <1>6
  <2>2. WireClock(S, q, s, n, w, a, t, now, r, m)
    BY <1>1, <1>3, <1>4, <1>5, <1>7, <1>8, <2>1 DEF WireClock
  <2> QED
    BY <2>2, WireTurn
<1>12. PICK late : late = IF cmd.force = Nil THEN MsipLate(s, MsipSince(w, s, now), now)
                          ELSE IF n > t THEN {cmd.force} ELSE {}
  OBVIOUS
<1>13. /\ w2.cyc = now /\ w2.since = MsipSince(w, s, now) /\ w2.prev = [h \in Harts |-> s[h].msip]
       /\ w2.at = IF late = {} THEN Nil ELSE n
       /\ w2.rc = IF late # {} \/ now = cmd.start + cmd.end THEN 0 ELSE Nil
  BY <1>3, <1>9, <1>10, <1>12 DEF linux_injfsm
<1>14. WedgeAt(r, m) <=> late # {}
  <2>1. CASE cmd.force = Nil
    BY <1>11, <1>12, <2>1, WedgeAtIs
  <2>2. CASE cmd.force # Nil
    <3>1. WedgeAt(r, m) <=> m > t + 1
      BY <1>3, <2>2, WedgeAtIs
    <3>2. late # {} <=> n > t
      BY <1>12, <2>2
    <3> QED
      BY <1>5, <3>1, <3>2
  <2> QED
    BY <2>1, <2>2
<1>15. WireMem(w2, r, a)
  BY <1>6, <1>11, <1>13
<1> QED
  BY <1>1, <1>4, <1>5, <1>7, <1>13, <1>14, <1>15 DEF Nil
-----------------------------------------------------------------------------
(* ipi_hang_probe, tty_scan_probe, wedge_dump_probe *)

HangFields == {"cyc", "tx_prev", "line", "lines", "msip_prev", "edges", "mcause_prev", "took",
               "next_snap", "snaps", "at", "rc"}

(* Before the first snapshot, or at most a step after the last one. *)
SnapDue(w) ==
  \/ w.cyc < cmd.from /\ w.next_snap = cmd.from
  \/ \E l \in w.snaps : l <= w.cyc /\ w.cyc < w.next_snap /\ w.next_snap = l + SnapStep(l)

SnapCover(w) == \A c \in cmd.from .. w.cyc : \E n \in w.snaps : n <= c /\ c - n < SnapStep(n)

SnapMem(w) ==
  /\ RecordOf(w, HangFields) /\ w.cyc \in Nat /\ w.next_snap \in Nat /\ w.snaps \subseteq Nat
  /\ SnapDue(w) /\ SnapCover(w)

(* The snapshots of a watcher as it was before the clock. *)
SameSnaps(w, x) == x.next_snap = w.next_snap /\ x.snaps = w.snaps /\ x.at = w.at

LEMMA SnapSteps ==
  ASSUME cmd \in Commands, IsHang \/ IsDump, NEW c
  PROVE  SnapStep(c) \in Nat \ {0}
BY WedgeCommands DEF SnapStep, IsHang, IsDump

LEMMA SnapTurn ==
  ASSUME cmd \in Commands, IsHang \/ IsDump, NEW w, SnapMem(w), NEW x, RecordOf(x, HangFields),
         SameSnaps(w, x), x.cyc = w.cyc + 1, NEW w2, w2 = Snapshot(x, w.cyc + 1)
  PROVE  SnapMem(w2) /\ w2.at = w.at /\ w2.rc = x.rc
<1>1. PICK c \in Nat : c = w.cyc
  BY DEF SnapMem
<1>2. PICK d \in Nat : d = w.next_snap
  BY DEF SnapMem
<1>3. PICK f \in Nat : f = cmd.from
  BY WedgeCommands DEF IsHang, IsDump
<1>4. PICK N \in SUBSET Nat : N = w.snaps
  BY DEF SnapMem
<1>5. /\ (c < f /\ d = f) \/ (\E l \in N : l <= c /\ c < d /\ d = l + SnapStep(l))
      /\ \A i \in f .. c : \E n \in N : n <= i /\ i - n < SnapStep(n)
  BY <1>1, <1>2, <1>3, <1>4 DEF SnapMem, SnapDue, SnapCover
<1>6. DOMAIN x = HangFields
  BY DEF RecordOf
<1>7. x.next_snap = d /\ x.snaps = N /\ x.cyc = c + 1 /\ x.at = w.at
  BY <1>1, <1>2, <1>4 DEF SameSnaps
<1>8. CASE c + 1 < d
  <2>1. w2 = x
    BY <1>1, <1>7, <1>8 DEF Snapshot
  <2>2. ASSUME NEW i \in f .. c + 1
        PROVE  \E n \in N : n <= i /\ i - n < SnapStep(n)
    <3>1. CASE i \in f .. c
      BY <1>5, <3>1
    <3>2. CASE i \notin f .. c
      <4>1. i = c + 1 /\ ~(c < f /\ d = f)
        BY <1>8, <2>2, <3>2
      <4>2. PICK l \in N : l <= c /\ d = l + SnapStep(l)
        BY <1>5, <4>1
      <4>3. SnapStep(l) \in Nat /\ l \in Nat
        BY SnapSteps
      <4>4. l <= i /\ i - l < SnapStep(l)
        BY <1>8, <4>1, <4>2, <4>3
      <4> QED
        BY <4>4
    <3> QED
      BY <3>1, <3>2
  <2>3. (c + 1 < f /\ d = f) \/ (\E l \in N : l <= c + 1 /\ c + 1 < d /\ d = l + SnapStep(l))
    <3>1. CASE c < f /\ d = f
      BY <1>8, <3>1
    <3>2. CASE \E l \in N : l <= c /\ c < d /\ d = l + SnapStep(l)
      BY <1>8, <3>2
    <3> QED
      BY <1>5, <3>1, <3>2
  <2>4. SnapCover(w2)
    BY <1>3, <1>7, <2>1, <2>2 DEF SnapCover
  <2>5. SnapDue(w2)
    BY <1>3, <1>7, <2>1, <2>3 DEF SnapDue
  <2>6. w2.cyc \in Nat /\ w2.next_snap \in Nat /\ w2.snaps \subseteq Nat /\ RecordOf(w2, HangFields)
    <3>1. c + 1 \in Nat /\ w2.cyc = c + 1 /\ w2.next_snap = d /\ w2.snaps = N
      BY <1>7, <2>1
    <3>2. w2.snaps \subseteq Nat
      BY <3>1, Zenon
    <3> QED
      BY <2>1, <3>1, <3>2
  <2>7. SnapMem(w2)
    BY <2>4, <2>5, <2>6, Zenon DEF SnapMem
  <2> QED
    BY <1>7, <2>1, <2>7
<1>9. CASE ~(c + 1 < d)
  <2>1. d = c + 1 /\ SnapStep(c + 1) \in Nat \ {0}
    <3>1. c < d
      BY <1>5
    <3> QED
      BY <1>9, <3>1, SnapSteps
  <2>2. w2 = [x EXCEPT !.next_snap = d + SnapStep(c + 1), !.snaps = N \cup {c + 1}]
    BY <1>1, <1>6, <1>7, <1>9 DEF Snapshot, HangFields
  <2>3. /\ RecordOf(w2, HangFields) /\ w2.cyc = c + 1 /\ w2.next_snap = d + SnapStep(c + 1)
        /\ w2.snaps = N \cup {c + 1} /\ w2.at = w.at /\ w2.rc = x.rc
    BY <1>6, <1>7, <2>2 DEF RecordOf, HangFields
  <2>4. ASSUME NEW i \in f .. c + 1
        PROVE  \E n \in N \cup {c + 1} : n <= i /\ i - n < SnapStep(n)
    <3>1. CASE i \in f .. c
      BY <1>5, <3>1
    <3>2. CASE i \notin f .. c
      BY <2>1, <2>4, <3>2
    <3> QED
      BY <3>1, <3>2
  <2>5. SnapCover(w2)
    BY <1>3, <2>3, <2>4 DEF SnapCover
  <2>6. SnapDue(w2)
    <3>1. c + 1 < d + SnapStep(c + 1) /\ d + SnapStep(c + 1) = (c + 1) + SnapStep(c + 1)
      BY <2>1
    <3> QED
      BY <2>3, <3>1 DEF SnapDue
  <2>7. w2.cyc \in Nat /\ w2.next_snap \in Nat /\ w2.snaps \subseteq Nat
    <3>1. c + 1 \in Nat /\ d + SnapStep(c + 1) \in Nat
      BY <2>1
    <3>2. N \cup {c + 1} \subseteq Nat
      BY <3>1
    <3> QED
      BY <2>3, <3>1, <3>2, Zenon
  <2>8. SnapMem(w2)
    BY <2>3, <2>5, <2>6, <2>7, Zenon DEF SnapMem
  <2> QED
    BY <2>3, <2>8
<1> QED
  BY <1>8, <1>9

LEMMA HangTurn ==
  ASSUME NEW w, RecordOf(w, HangFields), NEW s, NEW now
  PROVE  /\ RecordOf(ConsoleLines(w, s, now), HangFields) /\ SameSnaps(w, ConsoleLines(w, s, now))
         /\ ConsoleLines(w, s, now).cyc = w.cyc /\ ConsoleLines(w, s, now).rc = w.rc
         /\ RecordOf(IpiLog(w, s, now), HangFields) /\ SameSnaps(w, IpiLog(w, s, now))
         /\ IpiLog(w, s, now).cyc = w.cyc /\ IpiLog(w, s, now).rc = w.rc
<1>1. DOMAIN w = HangFields
  BY DEF RecordOf
<1>2. PICK x : x = ConsoleLines(w, s, now)
  OBVIOUS
<1>3. PICK y : y = IpiLog(w, s, now)
  OBVIOUS
<1>4. RecordOf(x, HangFields) /\ SameSnaps(w, x) /\ x.cyc = w.cyc /\ x.rc = w.rc
  <2>1. \E a, b, c : x = [w EXCEPT !.line = a, !.lines = b, !.tx_prev = c]
    BY <1>2 DEF ConsoleLines
  <2>2. PICK a, b, c : x = [w EXCEPT !.line = a, !.lines = b, !.tx_prev = c]
    BY <2>1
  <2> QED
    BY <1>1, <2>2 DEF RecordOf, HangFields, SameSnaps
<1>5. RecordOf(y, HangFields) /\ SameSnaps(w, y) /\ y.cyc = w.cyc /\ y.rc = w.rc
  <2>1. \E a, b, c, d : y = [w EXCEPT !.edges = a, !.took = b, !.msip_prev = c, !.mcause_prev = d]
    BY <1>3 DEF IpiLog
  <2>2. PICK a, b, c, d : y = [w EXCEPT !.edges = a, !.took = b, !.msip_prev = c, !.mcause_prev = d]
    BY <2>1
  <2> QED
    BY <1>1, <2>2 DEF RecordOf, HangFields, SameSnaps
<1> QED
  BY <1>2, <1>3, <1>4, <1>5

LEMMA HangStep ==
  ASSUME cmd \in Commands, NEW w, SnapMem(w), NEW s, NEW w2,
         (IsHang /\ w2 = ipi_hang(w, s)) \/ (IsDump /\ w2 = wedge_dump(w))
  PROVE  SnapMem(w2) /\ w2.at = w.at
<1>1. RecordOf(w, HangFields)
  BY DEF SnapMem
<1>2. DOMAIN w = HangFields
  BY <1>1 DEF RecordOf
<1>3. PICK x : x = [w EXCEPT !.cyc = w.cyc + 1, !.rc = IF w.cyc + 1 = cmd.end THEN 0 ELSE w.rc]
  OBVIOUS
<1>4. RecordOf(x, HangFields) /\ SameSnaps(w, x) /\ x.cyc = w.cyc + 1
  BY <1>2, <1>3 DEF RecordOf, HangFields, SameSnaps
<1>5. CASE IsDump /\ w2 = wedge_dump(w)
  <2>1. w2 = Snapshot(x, w.cyc + 1)
    BY <1>2, <1>3, <1>5 DEF wedge_dump, HangFields
  <2> QED
    BY <1>4, <1>5, <2>1, SnapTurn
<1>6. CASE IsHang /\ w2 = ipi_hang(w, s)
  <2>1. PICK y : y = ConsoleLines(x, s, w.cyc + 1)
    OBVIOUS
  <2>2. RecordOf(y, HangFields) /\ SameSnaps(x, y) /\ y.cyc = x.cyc
    BY <1>4, <2>1, HangTurn
  <2>3. PICK z : z = IF cmd.tool = "ipi_hang_probe" THEN IpiLog(y, s, w.cyc + 1) ELSE y
    OBVIOUS
  <2>4. RecordOf(z, HangFields) /\ SameSnaps(y, z) /\ z.cyc = y.cyc
    <3>1. CASE cmd.tool = "ipi_hang_probe"
      BY <2>2, <2>3, <3>1, HangTurn
    <3>2. CASE cmd.tool # "ipi_hang_probe"
      BY <2>2, <2>3, <3>2 DEF SameSnaps
    <3> QED
      BY <3>1, <3>2
  <2>5. SameSnaps(w, z) /\ z.cyc = w.cyc + 1
    BY <1>4, <2>2, <2>4 DEF SameSnaps
  <2>6. w2 = Snapshot(z, w.cyc + 1)
    BY <1>2, <1>3, <1>6, <2>1, <2>3 DEF ipi_hang, HangFields
  <2> QED
    BY <1>6, <2>4, <2>5, <2>6, SnapTurn
<1> QED
  BY <1>5, <1>6
-----------------------------------------------------------------------------
(* A step leaves the command line as it was, and all that depends on it. *)

LEMMA SameTools ==
  ASSUME cmd' = cmd
  PROVE  /\ IsGate' <=> IsGate
         /\ IsJam' <=> IsJam
         /\ IsInj' <=> IsInj
         /\ IsSeq' <=> IsSeq
         /\ IsTrace' <=> IsTrace
         /\ IsMsip' <=> IsMsip
         /\ IsFsm' <=> IsFsm
         /\ IsLoop' <=> IsLoop
         /\ IsInteg' <=> IsInteg
         /\ IsHang' <=> IsHang
         /\ IsDump' <=> IsDump
BY DEF IsGate, IsJam, IsInj, IsSeq, IsTrace, IsMsip, IsFsm, IsLoop, IsInteg, IsHang, IsDump

LEMMA SameAt ==
  ASSUME cmd' = cmd, NEW q, NEW at
  PROVE  AtOK(q, at)' <=> AtOK(q, at)
<1>1. ASSUME NEW h, NEW k
      PROVE  /\ Still(q, h, k)' <=> Still(q, h, k)
             /\ Raised(q, h, k)' <=> Raised(q, h, k)
  <2>1. ASSUME NEW i
        PROVE  Level(q[i], h)' = Level(q[i], h)
    BY DEF Level
  <2>2. Still(q, h, k)' <=> Still(q, h, k)
    BY DEF Still
  <2>3. Raised(q, h, k)' <=> Raised(q, h, k)
    BY <2>1 DEF Raised
  <2> QED
    BY <2>2, <2>3
<1>2. ASSUME NEW k
      PROVE  WedgeAt(q, k)' <=> WedgeAt(q, k)
  <2>1. (\E h \in Harts : Still(q, h, k))' <=> \E h \in Harts : Still(q, h, k)
    BY <1>1
  <2>2. (\E h \in Harts : Raised(q, h, k))' <=> \E h \in Harts : Raised(q, h, k)
    BY <1>1
  <2>3. Still(q, cmd.hart, k)' <=> Still(q, cmd.hart, k)
    BY DEF Still
  <2> QED
    BY <2>1, <2>2, <2>3, SameTools DEF WedgeAt
<1> QED
  BY <1>2 DEF AtOK

(* What a watcher remembers while it runs, and what it owes throughout. *)
Remember(w, q) ==
  /\ IsGate => GateMem(w, q)
  /\ IsJam => JamMem(w, q)
  /\ IsInj => InjMem(w, q)
  /\ IsSeq => SeqMem(w, q) /\ Capturing(w)
  /\ IsMsip => WireMem(w, q, 0)
  /\ IsFsm => WireMem(w, q, cmd.start)
  /\ IsLoop \/ IsInteg => LoopMem(w, q)
  /\ ~IsSeq /\ ~IsTrace => w.at = Nil

Settled(w, q) ==
  /\ ~IsTrace => AtOK(q, w.at)
  /\ IsSeq => Captured(w)
  /\ IsGate /\ cmd.hart = FIXED /\ w.rc # Nil /\ w.at = Nil => (w.rc = 1 <=> Dropped(q))
  /\ IsHang \/ IsDump => SnapMem(w)

LEMMA SameMem ==
  ASSUME cmd' = cmd, NEW w, NEW q
  PROVE  /\ Remember(w, q)' <=> Remember(w, q)
         /\ Settled(w, q)' <=> Settled(w, q)
         /\ Wires(q)' <=> Wires(q)
<1>1. Dropped(q)' <=> Dropped(q)
  BY DEF Dropped
<1>2. GateMem(w, q)' <=> GateMem(w, q)
  BY <1>1 DEF GateMem
<1>3. JamMem(w, q)' <=> JamMem(w, q)
  BY DEF JamMem
<1>4. Capturing(w)' <=> Capturing(w)
  BY DEF Capturing
<1>5. Captured(w)' <=> Captured(w)
  BY DEF Captured
<1>6. ASSUME NEW s, NEW h
      PROVE  Level(s, h)' = Level(s, h)
  BY DEF Level
<1>7. ASSUME NEW a
      PROVE  WireMem(w, q, a)' <=> WireMem(w, q, a)
  <2>1. ASSUME NEW h, NEW j
        PROVE  WireRun(q, h, j)' <=> WireRun(q, h, j)
    BY <1>6 DEF WireRun
  <2> QED
    BY <1>6, <2>1 DEF WireMem
<1>8. Wires(q)' <=> Wires(q)
  BY <1>6 DEF Wires
<1>9. SnapMem(w)' <=> SnapMem(w)
  <2>1. ASSUME NEW c
        PROVE  SnapStep(c)' = SnapStep(c)
    BY SameTools DEF SnapStep
  <2>2. SnapDue(w)' <=> SnapDue(w)
    BY <2>1 DEF SnapDue
  <2>3. SnapCover(w)' <=> SnapCover(w)
    BY <2>1 DEF SnapCover
  <2> QED
    BY <2>2, <2>3 DEF SnapMem
<1>10. WireMem(w, q, cmd.start)' <=> WireMem(w, q, cmd.start)
  <2>1. PICK a : a = cmd.start
    OBVIOUS
  <2>2. WireMem(w, q, a)' <=> WireMem(w, q, a)
    BY <1>7
  <2> QED
    BY <2>1, <2>2
<1>11. Remember(w, q)' <=> Remember(w, q)
  BY <1>2, <1>3, <1>4, <1>7, <1>10, SameTools DEF Remember
<1>12. Settled(w, q)' <=> Settled(w, q)
  <2>1. AtOK(q, w.at)' <=> AtOK(q, w.at)
    <3>1. PICK at : at = w.at
      OBVIOUS
    <3>2. AtOK(q, at)' <=> AtOK(q, at)
      BY SameAt
    <3> QED
      BY <3>1, <3>2
  <2> QED
    BY <1>1, <1>5, <1>9, <2>1, SameTools DEF Settled
<1> QED
  BY <1>8, <1>11, <1>12

(* The tools are told apart by their names. *)
Apart ==
  /\ IsGate => ~(IsJam \/ IsInj \/ IsSeq \/ IsTrace \/ IsMsip \/ IsFsm \/ IsLoop \/ IsInteg \/ IsHang \/ IsDump)
  /\ IsJam => ~(IsGate \/ IsInj \/ IsSeq \/ IsTrace \/ IsMsip \/ IsFsm \/ IsLoop \/ IsInteg \/ IsHang \/ IsDump)
  /\ IsInj => ~(IsGate \/ IsJam \/ IsSeq \/ IsTrace \/ IsMsip \/ IsFsm \/ IsLoop \/ IsInteg \/ IsHang \/ IsDump)
  /\ IsSeq => ~(IsGate \/ IsJam \/ IsInj \/ IsTrace \/ IsMsip \/ IsFsm \/ IsLoop \/ IsInteg \/ IsHang \/ IsDump)
  /\ IsTrace => ~(IsGate \/ IsJam \/ IsInj \/ IsSeq \/ IsMsip \/ IsFsm \/ IsLoop \/ IsInteg \/ IsHang \/ IsDump)
  /\ IsMsip => ~(IsGate \/ IsJam \/ IsInj \/ IsSeq \/ IsTrace \/ IsFsm \/ IsLoop \/ IsInteg \/ IsHang \/ IsDump)
  /\ IsFsm => ~(IsGate \/ IsJam \/ IsInj \/ IsSeq \/ IsTrace \/ IsMsip \/ IsLoop \/ IsInteg \/ IsHang \/ IsDump)
  /\ IsLoop \/ IsInteg => ~(IsGate \/ IsJam \/ IsInj \/ IsSeq \/ IsTrace \/ IsMsip \/ IsFsm \/ IsHang \/ IsDump)
  /\ IsHang \/ IsDump => ~(IsGate \/ IsJam \/ IsInj \/ IsSeq \/ IsTrace \/ IsMsip \/ IsFsm \/ IsLoop \/ IsInteg)
  /\ ~(IsHang /\ IsDump)
  /\ cmd.tool \in WedgeTools <=> \/ IsGate \/ IsJam \/ IsInj \/ IsSeq \/ IsTrace \/ IsMsip \/ IsFsm
                                 \/ IsLoop \/ IsInteg \/ IsHang \/ IsDump

LEMMA ToolsApart == Apart
BY DEF Apart, WedgeTools, IsGate, IsJam, IsInj, IsSeq, IsTrace, IsMsip, IsFsm, IsLoop, IsInteg, IsHang, IsDump

LEMMA WiresOf ==
  ASSUME cmd \in Commands, IsMsip \/ IsFsm, NEW q, \A k \in 2 .. Len(q) : q[k] \in cmd.samples
  PROVE  Wires(q)
<1>1. ASSUME NEW s \in cmd.samples, NEW h \in Harts
      PROVE  Level(s, h) \in 0 .. 1
  <2>1. CASE IsMsip
    BY <2>1, WedgeCommands DEF Level, IsMsip
  <2>2. CASE IsFsm
    BY <2>2, WedgeCommands DEF Level, IsFsm
  <2> QED
    BY <2>1, <2>2
<1> QED
  BY <1>1 DEF Wires

(* One clock keeps what a watcher remembers and owes. *)
LEMMA WatcherTurn ==
  ASSUME cmd \in Commands, cmd.tool \in WedgeTools, NEW S, NEW q \in Seq(S), Len(q) >= 1, wt.rc = Nil,
         NEW s \in cmd.samples, s \in S, \A k \in 2 .. Len(q) : q[k] \in cmd.samples,
         Remember(wt, q), Settled(wt, q), NEW r, r = Append(q, s), NEW w2, w2 = WedgeStep(s)
  PROVE  (w2.rc = Nil => Remember(w2, r)) /\ Settled(w2, r)
<1>1. Apart
  BY ToolsApart
<1>2. PICK w : w = wt
  OBVIOUS
<1>3. w.rc = Nil /\ Remember(w, q) /\ Settled(w, q)
  BY <1>2
<1>4. ASSUME ~IsTrace, w2.at = IF w.at = Nil /\ WedgeAt(r, Len(q) + 1) THEN Len(q) ELSE w.at
      PROVE  AtOK(r, w2.at)
  <2>1. AtOK(q, w.at)
    BY <1>3, <1>4 DEF Settled
  <2>2. PICK at : at = w.at
    OBVIOUS
  <2>3. PICK at2 : at2 = w2.at
    OBVIOUS
  <2>4. AtOK(r, at2)
    <3>1. at2 = IF at = Nil /\ WedgeAt(Append(q, s), Len(q) + 1) THEN Len(q) ELSE at
      BY <1>4, <2>2, <2>3
    <3> QED
      BY <2>1, <2>2, <3>1, AtStep
  <2> QED
    BY <2>3, <2>4
<1>5. CASE IsGate
  <2>1. GateMem(w, q) /\ w.at = Nil
    BY <1>1, <1>3, <1>5 DEF Remember, Apart
  <2>2. w2 = linux_storegate(w, s)
    BY <1>1, <1>2, <1>5 DEF WedgeStep, Apart
  <2>3. /\ w2.at = IF WedgeAt(r, Len(q) + 1) THEN Len(q) ELSE Nil
        /\ w2.rc = Nil => GateMem(w2, r) /\ w2.at = Nil
        /\ w2.rc # Nil /\ w2.at = Nil /\ cmd.hart = FIXED => (w2.rc = 1 <=> Dropped(r))
    BY <1>3, <1>5, <2>1, <2>2, GateStep
  <2>4. AtOK(r, w2.at)
    BY <1>1, <1>4, <1>5, <2>1, <2>3 DEF Apart
  <2> QED
    BY <1>1, <1>5, <2>3, <2>4 DEF Apart, Remember, Settled
<1>6. CASE IsJam
  <2>1. JamMem(w, q) /\ w.at = Nil
    BY <1>1, <1>3, <1>6 DEF Remember, Apart
  <2>2. w2 = linux_robjam(w, s)
    BY <1>1, <1>2, <1>6 DEF WedgeStep, Apart
  <2>3. /\ w2.at = IF WedgeAt(r, Len(q) + 1) THEN Len(q) ELSE Nil
        /\ w2.rc = Nil => JamMem(w2, r) /\ w2.at = Nil
    BY <1>3, <1>6, <2>1, <2>2, JamStep
  <2>4. AtOK(r, w2.at)
    BY <1>1, <1>4, <1>6, <2>1, <2>3 DEF Apart
  <2> QED
    BY <1>1, <1>6, <2>3, <2>4 DEF Apart, Remember, Settled
<1>7. CASE IsInj
  <2>1. InjMem(w, q) /\ w.at = Nil
    BY <1>1, <1>3, <1>7 DEF Remember, Apart
  <2>2. w2 = injwedge(w, s)
    BY <1>1, <1>2, <1>7 DEF WedgeStep, Apart
  <2>3. /\ w2.at = IF WedgeAt(r, Len(q) + 1) THEN Len(q) ELSE Nil
        /\ w2.rc = Nil => InjMem(w2, r) /\ w2.at = Nil
    BY <1>3, <1>7, <2>1, <2>2, InjStep
  <2>4. AtOK(r, w2.at)
    BY <1>1, <1>4, <1>7, <2>1, <2>3 DEF Apart
  <2> QED
    BY <1>1, <1>7, <2>3, <2>4 DEF Apart, Remember, Settled
<1>8. CASE IsSeq
  <2>1. SeqMem(w, q) /\ Capturing(w)
    BY <1>1, <1>3, <1>8 DEF Remember, Apart
  <2>2. w2 = seqlock_wedge(w, s)
    BY <1>1, <1>2, <1>8 DEF WedgeStep, Apart
  <2>3. /\ w2.at = IF w.at = Nil /\ WedgeAt(r, Len(q) + 1) THEN Len(q) ELSE w.at
        /\ Captured(w2)
        /\ w2.rc = Nil => SeqMem(w2, r) /\ Capturing(w2)
    BY <1>3, <1>8, <2>1, <2>2, SeqStep
  <2>4. AtOK(r, w2.at)
    BY <1>1, <1>4, <1>8, <2>3 DEF Apart
  <2> QED
    BY <1>1, <1>8, <2>3, <2>4 DEF Apart, Remember, Settled
<1>9. CASE IsTrace
  BY <1>1, <1>9 DEF Apart, Remember, Settled
<1>10. CASE IsMsip
  <2>1. WireMem(w, q, 0) /\ w.at = Nil
    BY <1>1, <1>3, <1>10 DEF Remember, Apart
  <2>2. w2 = ipitmr_wedge(w, s)
    BY <1>1, <1>2, <1>10 DEF WedgeStep, Apart
  <2>3. Wires(q)
    BY <1>10, WiresOf
  <2>4. /\ w2.at = IF WedgeAt(r, Len(q) + 1) THEN Len(q) ELSE Nil
        /\ w2.rc = Nil => WireMem(w2, r, 0) /\ w2.at = Nil
    BY <1>3, <1>10, <2>1, <2>2, <2>3, MsipStep
  <2>5. AtOK(r, w2.at)
    BY <1>1, <1>4, <1>10, <2>1, <2>4 DEF Apart
  <2> QED
    BY <1>1, <1>10, <2>4, <2>5 DEF Apart, Remember, Settled
<1>11. CASE IsFsm
  <2>1. WireMem(w, q, cmd.start) /\ w.at = Nil
    BY <1>1, <1>3, <1>11 DEF Remember, Apart
  <2>2. w2 = linux_injfsm(w, s)
    BY <1>1, <1>2, <1>11 DEF WedgeStep, Apart
  <2>3. Wires(q)
    BY <1>11, WiresOf
  <2>4. /\ w2.at = IF WedgeAt(r, Len(q) + 1) THEN Len(q) ELSE Nil
        /\ w2.rc = Nil => WireMem(w2, r, cmd.start) /\ w2.at = Nil
    BY <1>3, <1>11, <2>1, <2>2, <2>3, FsmStep
  <2>5. AtOK(r, w2.at)
    BY <1>1, <1>4, <1>11, <2>1, <2>4 DEF Apart
  <2> QED
    BY <1>1, <1>11, <2>4, <2>5 DEF Apart, Remember, Settled
<1>12. CASE IsLoop \/ IsInteg
  <2>1. LoopMem(w, q) /\ w.at = Nil
    BY <1>1, <1>3, <1>12 DEF Remember, Apart
  <2>2. w2 = loop_watch(w, s)
    BY <1>1, <1>2, <1>12 DEF WedgeStep, Apart
  <2>3. /\ w2.at = IF WedgeAt(r, Len(q) + 1) THEN Len(q) ELSE Nil
        /\ w2.rc = Nil => LoopMem(w2, r) /\ w2.at = Nil
    BY <1>3, <1>12, <2>1, <2>2, LoopStep
  <2>4. AtOK(r, w2.at)
    BY <1>1, <1>4, <1>12, <2>1, <2>3 DEF Apart
  <2> QED
    BY <1>1, <1>12, <2>3, <2>4 DEF Apart, Remember, Settled
<1>13. CASE IsHang \/ IsDump
  <2>1. SnapMem(w) /\ w.at = Nil
    BY <1>1, <1>3, <1>13 DEF Remember, Settled, Apart
  <2>2. (IsHang /\ w2 = ipi_hang(w, s)) \/ (IsDump /\ w2 = wedge_dump(w))
    <3>1. CASE IsHang
      BY <1>1, <1>2, <3>1 DEF WedgeStep, Apart
    <3>2. CASE IsDump
      BY <1>1, <1>2, <3>2 DEF WedgeStep, Apart
    <3> QED
      BY <1>13, <3>1, <3>2
  <2>3. SnapMem(w2) /\ w2.at = Nil
    BY <2>1, <2>2, HangStep
  <2>4. ~WedgeAt(r, Len(q) + 1)
    BY <1>1, <1>13, WedgeAtIs DEF Apart
  <2>5. AtOK(r, w2.at)
    BY <1>1, <1>4, <1>13, <2>1, <2>3, <2>4 DEF Apart
  <2> QED
    BY <1>1, <1>13, <2>3, <2>5 DEF Apart, Remember, Settled
<1> QED
  BY <1>1, <1>5, <1>6, <1>7, <1>8, <1>9, <1>10, <1>11, <1>12, <1>13 DEF Apart

(* at as the property states it: the least clock whose condition holds. *)
LEMMA AtIsFirst ==
  ASSUME NEW q, Len(q) \in Nat, NEW at, AtOK(q, at), NEW hit, hit = {k \in 2 .. Len(q) : WedgeAt(q, k)}
  PROVE  at = IF hit = {} THEN Nil ELSE Min(hit) - 1
<1>1. CASE at = Nil
  BY <1>1 DEF AtOK
<1>2. CASE at # Nil
  <2>1. at + 1 \in 2 .. Len(q) /\ WedgeAt(q, at + 1) /\ at \in Nat /\ \A k \in 2 .. at : ~WedgeAt(q, k)
    BY <1>2 DEF AtOK
  <2>2. at + 1 \in hit /\ \A k \in hit : at + 1 <= k
    BY <2>1
  <2>3. \A x \in hit : (\A y \in hit : x <= y) => x = at + 1
    BY <2>1, <2>2
  <2>4. Min(hit) = at + 1
    BY <2>2, <2>3 DEF Min
  <2> QED
    BY <2>1, <2>2, <2>4
<1> QED
  BY <1>1, <1>2

WedgeIInv ==
  /\ cmd \in Commands
  /\ cmd.tool \in WedgeTools =>
       /\ seen \in Seq(cmd.samples \cup {cmd.first}) /\ Len(seen) >= 1
       /\ \A k \in 2 .. Len(seen) : seen[k] \in cmd.samples
       /\ wt.rc = Nil => Remember(wt, seen)
       /\ Settled(wt, seen)

LEMMA WedgeStarts ==
  ASSUME cmd \in Commands, WedgeInit
  PROVE  WedgeIInv
<1> SUFFICES ASSUME cmd.tool \in WedgeTools
             PROVE  Remember(wt, seen) /\ Settled(wt, seen)
  <2>1. cmd.tool \in WedgeTools => seen = <<cmd.first>>
    BY DEF WedgeInit
  <2>2. cmd.tool \in WedgeTools =>
          /\ seen \in Seq(cmd.samples \cup {cmd.first}) /\ Len(seen) >= 1
          /\ \A k \in 2 .. Len(seen) : seen[k] \in cmd.samples
    <3>1. PICK S : S = cmd.samples \cup {cmd.first}
      OBVIOUS
    <3>2. PICK f \in S : f = cmd.first
      BY <3>1
    <3>3. <<f>> \in Seq(S) /\ Len(<<f>>) = 1
      OBVIOUS
    <3>4. cmd.tool \in WedgeTools => seen = <<f>>
      BY <2>1, <3>2
    <3>5. cmd.tool \in WedgeTools => seen \in Seq(S) /\ Len(seen) = 1
      BY <3>3, <3>4, Zenon
    <3>a. (\A k \in 2 .. 1 : FALSE) /\ 1 >= 1
      OBVIOUS
    <3>6. cmd.tool \in WedgeTools => \A k \in 2 .. Len(seen) : FALSE
      BY <3>5, <3>a, Zenon
    <3>7. cmd.tool \in WedgeTools => Len(seen) >= 1
      BY <3>5, <3>a, Zenon
    <3> QED
      BY <3>1, <3>5, <3>6, <3>7, Zenon
  <2> QED
    BY <2>2 DEF WedgeIInv
<1>1. Apart
  BY ToolsApart
<1>2. PICK q : q = seen
  OBVIOUS
<1>3. q = <<cmd.first>> /\ Len(q) = 1 /\ q[1] = cmd.first
  BY <1>2 DEF WedgeInit
<1>4. PICK w : w = wt
  OBVIOUS
<1>5. ASSUME w.at = Nil
      PROVE  AtOK(q, w.at)
  BY <1>3, <1>5 DEF AtOK
<1>6. ASSUME NEW h
      PROVE  RunOf(q, h, 1)
  BY <1>3 DEF RunOf
<1>7. ASSUME NEW h
      PROVE  ~Dropped(q)
  BY <1>3 DEF Dropped
<1>8. (IsGate \/ IsJam \/ IsInj \/ IsSeq \/ IsMsip \/ IsFsm) => cmd.stall \in Nat \ {0}
  BY WedgeCommands DEF IsGate, IsJam, IsSeq, IsInj, IsMsip, IsFsm
<1>9. CASE IsGate
  <2>1. w = GateInit
    BY <1>1, <1>4, <1>9 DEF WedgeInit, Apart
  <2>2. cmd.first[cmd.hart].pc = 0
    BY <1>9, WedgeCommands DEF IsGate
  <2>3. RecordOf(w, GateFields)
    BY <2>1 DEF GateInit, RecordOf, GateFields
  <2>4. w.cyc = 0 /\ w.last_pc = 0 /\ w.pc_static = 0 /\ w.storeDrop = 0 /\ w.loadDrop = 0 /\ w.at = Nil /\ w.rc = Nil
    BY <2>1 DEF GateInit
  <2>5. 1 - 0 = 1
    OBVIOUS
  <2>6. GateMem(w, q)
    BY <1>3, <1>6, <1>7, <1>8, <1>9, <2>2, <2>3, <2>4, <2>5 DEF GateMem
  <2> QED
    BY <1>1, <1>2, <1>4, <1>5, <1>9, <2>4, <2>6 DEF Apart, Remember, Settled
<1>10. CASE IsJam
  <2>1. w = JamInit
    BY <1>1, <1>4, <1>10 DEF WedgeInit, Apart
  <2>2. cmd.start \in Nat
    BY <1>10, WedgeCommands DEF IsJam
  <2>3. RecordOf(w, JamFields)
    BY <2>1 DEF JamInit, RecordOf, JamFields
  <2>4. w.cyc = cmd.start /\ w.lastPc = cmd.first[cmd.hart].pc /\ w.lastChange = cmd.start /\ w.at = Nil
    BY <2>1 DEF JamInit
  <2>5. w.lastChange - cmd.start + 1 = 1 /\ w.cyc = cmd.start + 1 - 1 /\ w.lastChange \in Int
    BY <2>2, <2>4
  <2>6. JamMem(w, q)
    BY <1>3, <1>6, <2>3, <2>4, <2>5 DEF JamMem
  <2> QED
    BY <1>1, <1>2, <1>4, <1>5, <1>10, <2>4, <2>6 DEF Apart, Remember, Settled
<1>11. CASE IsInj
  <2>1. w = InjInit
    BY <1>1, <1>4, <1>11 DEF WedgeInit, Apart
  <2>2. w.cyc = 0 /\ w.inj_since = 0 /\ w.at = Nil
    BY <2>1 DEF InjInit
  <2>3. InjMem(w, q)
    BY <1>3, <2>2 DEF InjMem
  <2> QED
    BY <1>1, <1>2, <1>4, <1>5, <1>11, <2>2, <2>3 DEF Apart, Remember, Settled
<1>12. CASE IsSeq
  <2>1. w = SeqInit
    BY <1>1, <1>4, <1>12 DEF WedgeInit, Apart
  <2>2. RecordOf(w, SeqFields)
    BY <2>1 DEF SeqInit, RecordOf, SeqFields
  <2>3. /\ w.cyc = 0 /\ w.prev_pc = [c \in Harts |-> cmd.first[c].pc] /\ w.streak = [c \in Harts |-> 0]
        /\ w.at = Nil /\ w.dump_tick = 0 /\ w.reglog = 0 /\ w.rc = Nil
    BY <2>1 DEF SeqInit
  <2>4. SeqMem(w, q)
    BY <1>3, <1>6, <2>2, <2>3 DEF SeqMem
  <2>5. cmd.window \in Nat
    BY <1>12, WedgeCommands DEF IsSeq
  <2>6. Capturing(w) /\ Captured(w)
    BY <2>3, <2>5 DEF Capturing, Captured, Nil
  <2> QED
    BY <1>1, <1>2, <1>4, <1>5, <1>12, <2>3, <2>4, <2>6 DEF Apart, Remember, Settled
<1>13. CASE IsTrace
  BY <1>1, <1>13 DEF Apart, Remember, Settled
<1>14. CASE IsMsip
  <2>1. w = MsipInit
    BY <1>1, <1>4, <1>14 DEF WedgeInit, Apart
  <2>2. w.cyc = 0 /\ w.prev = [h \in Harts |-> 0] /\ w.since = [h \in Harts |-> 0] /\ w.at = Nil
    BY <2>1 DEF MsipInit
  <2>3. WireMem(w, q, 0)
    BY <1>3, <2>2 DEF WireMem
  <2> QED
    BY <1>1, <1>2, <1>4, <1>5, <1>14, <2>2, <2>3 DEF Apart, Remember, Settled
<1>15. CASE IsFsm
  <2>1. w = FsmInit
    BY <1>1, <1>4, <1>15 DEF WedgeInit, Apart
  <2>2. w.cyc = cmd.start /\ w.prev = [h \in Harts |-> 0] /\ w.since = [h \in Harts |-> 0] /\ w.at = Nil
    BY <2>1 DEF FsmInit
  <2>3. PICK a \in Nat : a = cmd.start
    BY <1>15, WedgeCommands DEF IsFsm
  <2>4. WireMem(w, q, a)
    BY <1>3, <2>2, <2>3 DEF WireMem
  <2> QED
    BY <1>1, <1>2, <1>4, <1>5, <1>15, <2>2, <2>3, <2>4 DEF Apart, Remember, Settled
<1>16. CASE IsLoop \/ IsInteg
  <2>1. w = LoopInit
    BY <1>1, <1>4, <1>16 DEF WedgeInit, Apart
  <2>2. w.cyc = 0 /\ w.prev = cmd.first /\ w.at = Nil
    BY <2>1 DEF LoopInit
  <2>3. RecordOf(w, LoopFields)
    BY <2>1 DEF LoopInit, RecordOf, LoopFields
  <2>4. LoopMem(w, q)
    BY <1>3, <2>2, <2>3 DEF LoopMem
  <2> QED
    BY <1>1, <1>2, <1>4, <1>5, <1>16, <2>2, <2>4 DEF Apart, Remember, Settled
<1>17. CASE IsHang \/ IsDump
  <2>1. w = HangInit
    BY <1>1, <1>4, <1>17 DEF WedgeInit, Apart
  <2>2. w.cyc = 0 /\ w.next_snap = cmd.from /\ w.snaps = {} /\ w.at = Nil
    BY <2>1 DEF HangInit
  <2>3. RecordOf(w, HangFields)
    BY <2>1 DEF HangInit, RecordOf, HangFields
  <2>4. PICK f \in Nat : f = cmd.from /\ f > 0
    BY <1>17, WedgeCommands DEF IsHang, IsDump
  <2>5. SnapDue(w)
    BY <2>2, <2>4 DEF SnapDue
  <2>6. SnapCover(w)
    BY <2>2, <2>4 DEF SnapCover
  <2>7. SnapMem(w)
    BY <2>2, <2>3, <2>4, <2>5, <2>6 DEF SnapMem
  <2> QED
    BY <1>1, <1>2, <1>4, <1>5, <1>17, <2>2, <2>7 DEF Apart, Remember, Settled
<1> QED
  BY <1>1, <1>9, <1>10, <1>11, <1>12, <1>13, <1>14, <1>15, <1>16, <1>17 DEF Apart

LEMMA WedgeKeeps ==
  ASSUME WedgeIInv, WedgeNext
  PROVE  WedgeIInv'
<1>1. PICK s \in cmd.samples : wt' = WedgeStep(s) /\ seen' = Append(seen, s)
  BY DEF WedgeNext
<1>2. cmd.tool \in WedgeTools /\ wt.rc = Nil /\ cmd' = cmd
  BY DEF WedgeNext
<1>3. PICK S : S = cmd.samples \cup {cmd.first}
  OBVIOUS
<1>4. /\ cmd \in Commands /\ seen \in Seq(S) /\ Len(seen) >= 1
      /\ \A k \in 2 .. Len(seen) : seen[k] \in cmd.samples
      /\ Remember(wt, seen) /\ Settled(wt, seen)
  BY <1>2, <1>3 DEF WedgeIInv
<1>5. PICK q : q = seen
  OBVIOUS
<1>6. PICK r : r = Append(q, s)
  OBVIOUS
<1>7. PICK w2 : w2 = WedgeStep(s)
  OBVIOUS
<1>8. s \in S
  BY <1>3
<1>9. (w2.rc = Nil => Remember(w2, r)) /\ Settled(w2, r)
  BY <1>2, <1>4, <1>5, <1>6, <1>7, <1>8, WatcherTurn
<1>10. seen' = r /\ wt' = w2
  BY <1>1, <1>5, <1>6, <1>7
<1>11. (wt.rc = Nil => Remember(wt, seen))' /\ Settled(wt, seen)'
  <2>1. Remember(w2, r)' <=> Remember(w2, r)
    BY <1>2, SameMem
  <2>2. Settled(w2, r)' <=> Settled(w2, r)
    BY <1>2, SameMem
  <2> QED
    BY <1>9, <1>10, <2>1, <2>2
<1>12. /\ r \in Seq(S) /\ Len(r) = Len(q) + 1 /\ Len(q) \in Nat /\ r[Len(q) + 1] = s
       /\ \A i \in 1 .. Len(q) : r[i] = q[i]
  BY <1>4, <1>5, <1>6, <1>8, Longer
<1>13. ASSUME NEW k \in 2 .. Len(r)
       PROVE  r[k] \in cmd.samples
  <2>1. CASE k = Len(q) + 1
    BY <1>12, <2>1
  <2>2. CASE k # Len(q) + 1
    BY <1>4, <1>5, <1>12, <1>13, <2>2
  <2> QED
    BY <2>1, <2>2
<1>14. Len(r) >= 1
  BY <1>12
<1> QED
  BY <1>2, <1>3, <1>4, <1>10, <1>11, <1>12, <1>13, <1>14 DEF WedgeIInv

LEMMA WedgeStays ==
  ASSUME WedgeIInv, UNCHANGED <<cmd, wedgeVars>>
  PROVE  WedgeIInv'
<1>1. cmd' = cmd /\ wt' = wt /\ seen' = seen
  BY DEF wedgeVars
<1>2. PICK w, q : w = wt /\ q = seen
  OBVIOUS
<1>3. Remember(w, q)' <=> Remember(w, q)
  BY <1>1, SameMem
<1>4. Settled(w, q)' <=> Settled(w, q)
  BY <1>1, SameMem
<1> QED
  BY <1>1, <1>2, <1>3, <1>4 DEF WedgeIInv

LEMMA WedgeFollows ==
  ASSUME WedgeIInv
  PROVE  WedgeSound
<1>1. Apart
  BY ToolsApart
<1>2. cmd.tool \in WedgeTools => Settled(wt, seen) /\ Len(seen) \in Nat
  BY DEF WedgeIInv
<1>3. WedgeExact
  <2> SUFFICES ASSUME cmd.tool \in WedgeTools, ~IsTrace
               PROVE  wt.at = IF {k \in 2 .. Len(seen) : WedgeAt(seen, k)} = {} THEN Nil
                              ELSE Min({k \in 2 .. Len(seen) : WedgeAt(seen, k)}) - 1
    BY DEF WedgeExact
  <2>1. AtOK(seen, wt.at) /\ Len(seen) \in Nat
    BY <1>2 DEF Settled
  <2> QED
    BY <2>1, AtIsFirst
<1>4. CaptureExact
  BY <1>1, <1>2 DEF CaptureExact, Settled, Captured, Apart
<1>5. GateVerdictExact
  <2> SUFFICES ASSUME IsGate, cmd.hart = FIXED, wt.rc # Nil, wt.at = Nil
               PROVE  wt.rc = 1 <=> Dropped(seen)
    BY DEF GateVerdictExact, Dropped, Now
  <2> QED
    BY <1>1, <1>2 DEF Settled, Apart
<1>6. SnapsCover
  BY <1>1, <1>2 DEF SnapsCover, Settled, SnapMem, SnapCover, Apart
<1> QED
  BY <1>3, <1>4, <1>5, <1>6 DEF WedgeSound

(* Whatever the core shows and whatever the thresholds, a watcher reports in *)
(* the first clock in which its condition has lasted and in no other, its    *)
(* capture covers the window, storegate's verdict is what was dropped, and   *)
(* no stretch goes without a snapshot.                                       *)
THEOREM WedgeSafety == WedgeSpec => []WedgeSound
<1>1. cmd \in Commands /\ WedgeInit => WedgeIInv
  BY WedgeStarts
<1>2. WedgeIInv /\ [WedgeNext]_<<cmd, wedgeVars>> => WedgeIInv'
  BY WedgeKeeps, WedgeStays
<1>3. WedgeIInv => WedgeSound
  BY WedgeFollows
<1> QED
  BY <1>1, <1>2, <1>3, PTL DEF WedgeSpec

USE HartCount

(***************************************************************************)
(* The cross-call probes.                                                  *)
(***************************************************************************)
GuestFields == {"at", "ret", "msip", "res", "ok", "head", "chain", "lock", "val", "dram", "round",
                "fired", "pc", "pulse", "sent", "done"}
Labels == {"work", "lock", "lr", "sc", "pushDone", "ipi", "spin1", "spin2"} \cup CallHandler
Nodes == Harts \X Nat
Ops == {"push", "lost", "pop", "null"}

GuestTypes(g) ==
  /\ RecordOf(g, GuestFields)
  /\ g.at \in [Harts -> Labels] /\ g.ret \in [Harts -> Labels \ CallHandler]
  /\ g.msip \in [Harts -> 0 .. 1] /\ g.res \in [Harts -> BOOLEAN] /\ g.ok \in [Harts -> BOOLEAN]
  /\ g.head \in [Harts -> SUBSET Nodes] /\ g.chain \in [Harts -> SUBSET Nodes]
  /\ g.lock \in [Harts -> 0 .. 1] /\ g.val \in [Harts -> {Unset, 0, 1}] /\ g.dram \in [Harts -> 0 .. 1]
  /\ g.round \in [Harts -> Nat] /\ g.fired \in [Harts -> BOOLEAN] /\ g.pc \in [Harts -> Labels \cup {"none"}]
  /\ g.pulse \in [Harts -> Harts \cup {Unset}] /\ g.sent \in [Harts -> Nat] /\ g.done \in [Harts -> Seq(Ops)]

(* An instruction other than work is not committed twice in a row. *)
Walks(g) ==
  \A h \in Harts : /\ g.at[h] = g.pc[h] => g.at[h] = "work"
                   /\ g.pc[h] = "handle" => g.at[h] = "flush"

(* Where hart h is in its own code, and whether this round's node is still  *)
(* to be pushed.                                                            *)
OwnAt(g, h) == IF g.at[h] \in CallHandler THEN g.ret[h] ELSE g.at[h]
Before(g, h) == OwnAt(g, h) \in {"lock", "lr", "sc"} \/ (OwnAt(g, h) = "pushDone" /\ ~g.ok[h])

NodesNew(g) ==
  \A h \in Harts : \A n \in g.head[Peer(h)] :
    n[1] = h /\ n[2] <= g.round[h] /\ (Before(g, h) => n[2] < g.round[h])

(* The pushes of a queue's history that no pop has claimed. *)
Unclaimed(s) == {i \in Places("push", s) : \A j \in Places("pop", s) : j < i}

HeadsCount(g) ==
  \A q \in Harts : IsFiniteSet(g.head[q]) /\ Cardinality(g.head[q]) = Cardinality(Unclaimed(g.done[q]))

GuestOK(g) == GuestTypes(g) /\ Walks(g) /\ NodesNew(g) /\ HeadsCount(g)

Seen3 == {"push", "pop", "null"}
LedgerMem(w, obs) ==
  \A q \in Harts : /\ obs[q] \in Seq(Seen3)
                   /\ w.pushes[q] = Cardinality(Places("push", obs[q]))
                   /\ w.pops[q] = Cardinality(Places("pop", obs[q]))
                   /\ w.pops_null[q] = Cardinality(Places("null", obs[q]))
                   /\ w.live[q] = Cardinality(Unclaimed(obs[q]))

(* The labels whose instruction acts on the memory, and the lock words after  *)
(* an unlock.                                                                 *)
Acting == {"lock", "lr", "sc", "ipi", "spin1", "handle", "swap", "unlock"}
Unlocked(g, h) == [k \in Harts |-> IF (\E n \in g.chain[h] : n[1] = k) /\ cmd.defect # "unlock" THEN 0 ELSE g.lock[k]]

Locks(g, e, h) ==
  /\ e.lock = [g.lock EXCEPT ![h] = 1]
  /\ e.val = [g.val EXCEPT ![h] = Unset]

Reserves(g, e, h) ==
  /\ e.res = [g.res EXCEPT ![h] = TRUE]

ScFails(g, e, h) ==
  /\ e.ok = [g.ok EXCEPT ![h] = FALSE]

ScStores(g, e, h) ==
  /\ e.ok = [g.ok EXCEPT ![h] = TRUE]
  /\ e.res = [g.res EXCEPT ![h] = FALSE]
  /\ e.head = [g.head EXCEPT ![Peer(h)] = IF Lost(g, h) THEN @ ELSE @ \cup {<<h, g.round[h]>>}]
  /\ e.done = [g.done EXCEPT ![Peer(h)] = Append(@, IF Lost(g, h) THEN "lost" ELSE "push")]

Raises(g, e, h) ==
  /\ e.msip = [g.msip EXCEPT ![Peer(h)] = 1]
  /\ e.pulse = [g.pulse EXCEPT ![h] = Peer(h)]
  /\ e.sent = [g.sent EXCEPT ![Peer(h)] = @ + 1]

Reloads(g, e, h) ==
  /\ e.val = [g.val EXCEPT ![h] = IF cmd.defect = "stale" /\ @ # Unset THEN @ ELSE g.lock[h]]

Clears(g, e, h) ==
  /\ e.msip = [g.msip EXCEPT ![h] = 0]
  /\ e.pulse = [g.pulse EXCEPT ![h] = h]
  /\ e.sent = [g.sent EXCEPT ![h] = @ + 1]

Takes(g, e, h) ==
  /\ e.chain = [g.chain EXCEPT ![h] = g.head[h]]
  /\ e.head = [g.head EXCEPT ![h] = {}]
  /\ e.res = [g.res EXCEPT ![Peer(h)] = FALSE]
  /\ e.done = [g.done EXCEPT ![h] = Append(@, IF g.head[h] = {} THEN "null" ELSE "pop")]

Unlocks(g, e, h) ==
  /\ e.lock = Unlocked(g, h)

(* What the instruction at label l does, field by field. *)
EffectIs(g, e, h, l) ==
  /\ RecordOf(e, GuestFields)
  /\ e.at = g.at /\ e.ret = g.ret /\ e.dram = g.dram /\ e.round = g.round /\ e.fired = g.fired /\ e.pc = g.pc
  /\ l = "lock" => Locks(g, e, h)
  /\ l = "lr" => Reserves(g, e, h)
  /\ (l = "sc" /\ ~g.res[h]) => ScFails(g, e, h)
  /\ (l = "sc" /\ g.res[h]) => ScStores(g, e, h)
  /\ l = "ipi" => Raises(g, e, h)
  /\ l = "spin1" => Reloads(g, e, h)
  /\ l = "handle" => Clears(g, e, h)
  /\ l = "swap" => Takes(g, e, h)
  /\ l = "unlock" => Unlocks(g, e, h)
  /\ l \notin {"handle", "ipi"} => e.msip = g.msip
  /\ (l \notin {"lr", "swap"} /\ ~(l = "sc" /\ g.res[h])) => e.res = g.res
  /\ l \notin {"sc"} => e.ok = g.ok
  /\ (l \notin {"swap"} /\ ~(l = "sc" /\ g.res[h])) => e.head = g.head
  /\ l \notin {"swap"} => e.chain = g.chain
  /\ l \notin {"lock", "unlock"} => e.lock = g.lock
  /\ l \notin {"lock", "spin1"} => e.val = g.val
  /\ l \notin {"handle", "ipi"} => e.pulse = g.pulse
  /\ l \notin {"handle", "ipi"} => e.sent = g.sent
  /\ (l \notin {"swap"} /\ ~(l = "sc" /\ g.res[h])) => e.done = g.done

LEMMA EffectOf ==
  ASSUME NEW g, RecordOf(g, GuestFields), NEW h, NEW l
  PROVE  EffectIs(g, Effect(g, h, l), h, l)
<1>1. PICK e : e = Effect(g, h, l)
  OBVIOUS
<1>2. DOMAIN g = GuestFields
  BY DEF RecordOf
<1> SUFFICES EffectIs(g, e, h, l)
  BY <1>1, Zenon
<1>3. CASE l = "lock"
  <2>1. e = [x \in GuestFields |->
         IF x = "lock" THEN [g.lock EXCEPT ![h] = 1]
         ELSE IF x = "val" THEN [g.val EXCEPT ![h] = Unset]
         ELSE g[x]]
    <3>1. e = [g EXCEPT !.lock = [g.lock EXCEPT ![h] = 1], !.val = [g.val EXCEPT ![h] = Unset]]
      BY <1>1, <1>3 DEF Effect
    <3> QED
      BY <1>2, <3>1 DEF GuestFields
  <2>2. RecordOf(e, GuestFields)
    BY <2>1 DEF RecordOf
  <2>3. e.at = g.at /\ e.ret = g.ret /\ e.msip = g.msip /\ e.res = g.res /\ e.ok = g.ok /\ e.head = g.head
        /\ e.chain = g.chain /\ e.dram = g.dram /\ e.round = g.round /\ e.fired = g.fired /\ e.pc = g.pc
        /\ e.pulse = g.pulse /\ e.sent = g.sent /\ e.done = g.done
    BY <2>1 DEF GuestFields
  <2>4. Locks(g, e, h)
    BY <2>1 DEF GuestFields, Locks
  <2> QED
    BY <1>3, <2>2, <2>3, <2>4 DEF EffectIs, Acting
<1>4. CASE l = "lr"
  <2>1. e = [x \in GuestFields |->
         IF x = "res" THEN [g.res EXCEPT ![h] = TRUE]
         ELSE g[x]]
    <3>1. e = [g EXCEPT !.res = [g.res EXCEPT ![h] = TRUE]]
      BY <1>1, <1>4 DEF Effect
    <3> QED
      BY <1>2, <3>1 DEF GuestFields
  <2>2. RecordOf(e, GuestFields)
    BY <2>1 DEF RecordOf
  <2>3. e.at = g.at /\ e.ret = g.ret /\ e.msip = g.msip /\ e.ok = g.ok /\ e.head = g.head /\ e.chain = g.chain
        /\ e.lock = g.lock /\ e.val = g.val /\ e.dram = g.dram /\ e.round = g.round /\ e.fired = g.fired
        /\ e.pc = g.pc /\ e.pulse = g.pulse /\ e.sent = g.sent /\ e.done = g.done
    BY <2>1 DEF GuestFields
  <2>4. Reserves(g, e, h)
    BY <2>1 DEF GuestFields, Reserves
  <2> QED
    BY <1>4, <2>2, <2>3, <2>4 DEF EffectIs, Acting
<1>5. CASE l = "sc" /\ ~g.res[h]
  <2>1. e = [x \in GuestFields |->
         IF x = "ok" THEN [g.ok EXCEPT ![h] = FALSE]
         ELSE g[x]]
    <3>1. e = [g EXCEPT !.ok = [g.ok EXCEPT ![h] = FALSE]]
      BY <1>1, <1>5 DEF Effect, StoreCond
    <3> QED
      BY <1>2, <3>1 DEF GuestFields
  <2>2. RecordOf(e, GuestFields)
    BY <2>1 DEF RecordOf
  <2>3. e.at = g.at /\ e.ret = g.ret /\ e.msip = g.msip /\ e.res = g.res /\ e.head = g.head
        /\ e.chain = g.chain /\ e.lock = g.lock /\ e.val = g.val /\ e.dram = g.dram /\ e.round = g.round
        /\ e.fired = g.fired /\ e.pc = g.pc /\ e.pulse = g.pulse /\ e.sent = g.sent /\ e.done = g.done
    BY <2>1 DEF GuestFields
  <2>4. ScFails(g, e, h)
    BY <2>1 DEF GuestFields, ScFails
  <2> QED
    BY <1>5, <2>2, <2>3, <2>4 DEF EffectIs, Acting
<1>6. CASE l = "sc" /\ g.res[h]
  <2>1. e = [x \in GuestFields |->
         IF x = "ok" THEN [g.ok EXCEPT ![h] = TRUE]
         ELSE IF x = "res" THEN [g.res EXCEPT ![h] = FALSE]
         ELSE IF x = "head" THEN [g.head EXCEPT ![Peer(h)] = IF Lost(g, h) THEN @ ELSE @ \cup {<<h, g.round[h]>>}]
         ELSE IF x = "done" THEN [g.done EXCEPT ![Peer(h)] = Append(@, IF Lost(g, h) THEN "lost" ELSE "push")]
         ELSE g[x]]
    <3>1. e = [g EXCEPT !.ok = [g.ok EXCEPT ![h] = TRUE], !.res = [g.res EXCEPT ![h] = FALSE],
                        !.head = [g.head EXCEPT ![Peer(h)] = IF Lost(g, h) THEN @ ELSE @ \cup {<<h, g.round[h]>>}],
                        !.done = [g.done EXCEPT ![Peer(h)] = Append(@, IF Lost(g, h) THEN "lost" ELSE "push")]]
      BY <1>1, <1>6 DEF Effect, StoreCond
    <3> QED
      BY <1>2, <3>1 DEF GuestFields
  <2>2. RecordOf(e, GuestFields)
    BY <2>1 DEF RecordOf
  <2>3. e.at = g.at /\ e.ret = g.ret /\ e.msip = g.msip /\ e.chain = g.chain /\ e.lock = g.lock
        /\ e.val = g.val /\ e.dram = g.dram /\ e.round = g.round /\ e.fired = g.fired /\ e.pc = g.pc
        /\ e.pulse = g.pulse /\ e.sent = g.sent
    BY <2>1 DEF GuestFields
  <2>4. ScStores(g, e, h)
    BY <2>1 DEF GuestFields, ScStores
  <2> QED
    BY <1>6, <2>2, <2>3, <2>4 DEF EffectIs, Acting
<1>7. CASE l = "ipi"
  <2>1. e = [x \in GuestFields |->
         IF x = "msip" THEN [g.msip EXCEPT ![Peer(h)] = 1]
         ELSE IF x = "pulse" THEN [g.pulse EXCEPT ![h] = Peer(h)]
         ELSE IF x = "sent" THEN [g.sent EXCEPT ![Peer(h)] = @ + 1]
         ELSE g[x]]
    <3>1. e = [g EXCEPT !.msip = [g.msip EXCEPT ![Peer(h)] = 1], !.pulse = [g.pulse EXCEPT ![h] = Peer(h)],
                        !.sent = [g.sent EXCEPT ![Peer(h)] = @ + 1]]
      BY <1>1, <1>7 DEF Effect
    <3> QED
      BY <1>2, <3>1 DEF GuestFields
  <2>2. RecordOf(e, GuestFields)
    BY <2>1 DEF RecordOf
  <2>3. e.at = g.at /\ e.ret = g.ret /\ e.res = g.res /\ e.ok = g.ok /\ e.head = g.head /\ e.chain = g.chain
        /\ e.lock = g.lock /\ e.val = g.val /\ e.dram = g.dram /\ e.round = g.round /\ e.fired = g.fired
        /\ e.pc = g.pc /\ e.done = g.done
    BY <2>1 DEF GuestFields
  <2>4. Raises(g, e, h)
    BY <2>1 DEF GuestFields, Raises
  <2> QED
    BY <1>7, <2>2, <2>3, <2>4 DEF EffectIs, Acting
<1>8. CASE l = "spin1"
  <2>1. e = [x \in GuestFields |->
         IF x = "val" THEN [g.val EXCEPT ![h] = IF cmd.defect = "stale" /\ @ # Unset THEN @ ELSE g.lock[h]]
         ELSE g[x]]
    <3>1. e = [g EXCEPT !.val = [g.val EXCEPT ![h] = IF cmd.defect = "stale" /\ @ # Unset THEN @ ELSE g.lock[h]]]
      BY <1>1, <1>8 DEF Effect, Reload
    <3> QED
      BY <1>2, <3>1 DEF GuestFields
  <2>2. RecordOf(e, GuestFields)
    BY <2>1 DEF RecordOf
  <2>3. e.at = g.at /\ e.ret = g.ret /\ e.msip = g.msip /\ e.res = g.res /\ e.ok = g.ok /\ e.head = g.head
        /\ e.chain = g.chain /\ e.lock = g.lock /\ e.dram = g.dram /\ e.round = g.round /\ e.fired = g.fired
        /\ e.pc = g.pc /\ e.pulse = g.pulse /\ e.sent = g.sent /\ e.done = g.done
    BY <2>1 DEF GuestFields
  <2>4. Reloads(g, e, h)
    BY <2>1 DEF GuestFields, Reloads
  <2> QED
    BY <1>8, <2>2, <2>3, <2>4 DEF EffectIs, Acting
<1>9. CASE l = "handle"
  <2>1. e = [x \in GuestFields |->
         IF x = "msip" THEN [g.msip EXCEPT ![h] = 0]
         ELSE IF x = "pulse" THEN [g.pulse EXCEPT ![h] = h]
         ELSE IF x = "sent" THEN [g.sent EXCEPT ![h] = @ + 1]
         ELSE g[x]]
    <3>1. e = [g EXCEPT !.msip = [g.msip EXCEPT ![h] = 0], !.pulse = [g.pulse EXCEPT ![h] = h],
                        !.sent = [g.sent EXCEPT ![h] = @ + 1]]
      BY <1>1, <1>9 DEF Effect
    <3> QED
      BY <1>2, <3>1 DEF GuestFields
  <2>2. RecordOf(e, GuestFields)
    BY <2>1 DEF RecordOf
  <2>3. e.at = g.at /\ e.ret = g.ret /\ e.res = g.res /\ e.ok = g.ok /\ e.head = g.head /\ e.chain = g.chain
        /\ e.lock = g.lock /\ e.val = g.val /\ e.dram = g.dram /\ e.round = g.round /\ e.fired = g.fired
        /\ e.pc = g.pc /\ e.done = g.done
    BY <2>1 DEF GuestFields
  <2>4. Clears(g, e, h)
    BY <2>1 DEF GuestFields, Clears
  <2> QED
    BY <1>9, <2>2, <2>3, <2>4 DEF EffectIs, Acting
<1>10. CASE l = "swap"
  <2>1. e = [x \in GuestFields |->
         IF x = "chain" THEN [g.chain EXCEPT ![h] = g.head[h]]
         ELSE IF x = "head" THEN [g.head EXCEPT ![h] = {}]
         ELSE IF x = "res" THEN [g.res EXCEPT ![Peer(h)] = FALSE]
         ELSE IF x = "done" THEN [g.done EXCEPT ![h] = Append(@, IF g.head[h] = {} THEN "null" ELSE "pop")]
         ELSE g[x]]
    <3>1. e = [g EXCEPT !.chain = [g.chain EXCEPT ![h] = g.head[h]], !.head = [g.head EXCEPT ![h] = {}],
                        !.res = [g.res EXCEPT ![Peer(h)] = FALSE],
                        !.done = [g.done EXCEPT ![h] = Append(@, IF g.head[h] = {} THEN "null" ELSE "pop")]]
      BY <1>1, <1>10 DEF Effect, Swap
    <3> QED
      BY <1>2, <3>1 DEF GuestFields
  <2>2. RecordOf(e, GuestFields)
    BY <2>1 DEF RecordOf
  <2>3. e.at = g.at /\ e.ret = g.ret /\ e.msip = g.msip /\ e.ok = g.ok /\ e.lock = g.lock /\ e.val = g.val
        /\ e.dram = g.dram /\ e.round = g.round /\ e.fired = g.fired /\ e.pc = g.pc /\ e.pulse = g.pulse
        /\ e.sent = g.sent
    BY <2>1 DEF GuestFields
  <2>4. Takes(g, e, h)
    BY <2>1 DEF GuestFields, Takes
  <2> QED
    BY <1>10, <2>2, <2>3, <2>4 DEF EffectIs, Acting
<1>11. CASE l = "unlock"
  <2>1. e = [x \in GuestFields |->
         IF x = "lock" THEN Unlocked(g, h)
         ELSE g[x]]
    <3>1. e = [g EXCEPT !.lock = Unlocked(g, h)]
      BY <1>1, <1>11 DEF Effect, Unlock, Unlocked
    <3> QED
      BY <1>2, <3>1 DEF GuestFields
  <2>2. RecordOf(e, GuestFields)
    BY <2>1 DEF RecordOf
  <2>3. e.at = g.at /\ e.ret = g.ret /\ e.msip = g.msip /\ e.res = g.res /\ e.ok = g.ok /\ e.head = g.head
        /\ e.chain = g.chain /\ e.val = g.val /\ e.dram = g.dram /\ e.round = g.round /\ e.fired = g.fired
        /\ e.pc = g.pc /\ e.pulse = g.pulse /\ e.sent = g.sent /\ e.done = g.done
    BY <2>1 DEF GuestFields
  <2>4. Unlocks(g, e, h)
    BY <2>1 DEF GuestFields, Unlocks
  <2> QED
    BY <1>11, <2>2, <2>3, <2>4 DEF EffectIs, Acting
<1>12. CASE l \notin Acting
  <2>1. e = [x \in GuestFields |->
         g[x]]
    <3>1. e = g
      BY <1>1, <1>12 DEF Effect, Acting
    <3> QED
      BY <3>1 DEF RecordOf
  <2>2. RecordOf(e, GuestFields)
    BY <2>1 DEF RecordOf
  <2>3. e.at = g.at /\ e.ret = g.ret /\ e.msip = g.msip /\ e.res = g.res /\ e.ok = g.ok /\ e.head = g.head
        /\ e.chain = g.chain /\ e.lock = g.lock /\ e.val = g.val /\ e.dram = g.dram /\ e.round = g.round
        /\ e.fired = g.fired /\ e.pc = g.pc /\ e.pulse = g.pulse /\ e.sent = g.sent /\ e.done = g.done
    BY <2>1 DEF GuestFields
  <2> QED
    BY <1>12, <2>2, <2>3 DEF EffectIs, Acting
<1> QED
  BY <1>3, <1>4, <1>5, <1>6, <1>7, <1>8, <1>9, <1>10, <1>11, <1>12, Zenon DEF Acting

(* A hart that does not move, and one that commits the instruction at l. *)
Rests(g, n, h, m) ==
  /\ RecordOf(n, GuestFields)
  /\ n.at = g.at /\ n.ret = g.ret /\ n.msip = g.msip /\ n.res = g.res /\ n.ok = g.ok /\ n.head = g.head
  /\ n.chain = g.chain /\ n.lock = g.lock /\ n.val = g.val /\ n.dram = g.dram /\ n.round = g.round
  /\ n.pc = g.pc /\ n.sent = g.sent /\ n.done = g.done
  /\ n.pulse = [g.pulse EXCEPT ![h] = Unset]
  /\ m = "stall" => n.fired = [g.fired EXCEPT ![h] = FALSE]
  /\ m = "hold" => n.fired = g.fired

Quieted(g, h) == [g EXCEPT !.pulse[h] = Unset]

GuestCommits(g, e, n, h, l, trap) ==
  /\ RecordOf(n, GuestFields)
  /\ n.msip = e.msip /\ n.res = e.res /\ n.ok = e.ok /\ n.head = e.head /\ n.chain = e.chain /\ n.lock = e.lock
  /\ n.val = e.val /\ n.dram = e.dram /\ n.pulse = e.pulse /\ n.sent = e.sent /\ n.done = e.done
  /\ n.fired = [e.fired EXCEPT ![h] = TRUE] /\ n.pc = [e.pc EXCEPT ![h] = l]
  /\ n.at = [e.at EXCEPT ![h] = After(e, h, l)]
  /\ n.ret = [e.ret EXCEPT ![h] = IF trap THEN g.at[h] ELSE @]
  /\ n.round = [e.round EXCEPT ![h] = IF After(e, h, l) = "lock" /\ l = "work" THEN @ + 1 ELSE @]

QuietIs(g, q, h) ==
  /\ RecordOf(q, GuestFields) /\ q.pulse = [g.pulse EXCEPT ![h] = Unset]
  /\ q.at = g.at /\ q.ret = g.ret /\ q.msip = g.msip /\ q.res = g.res /\ q.ok = g.ok /\ q.head = g.head
  /\ q.chain = g.chain /\ q.lock = g.lock /\ q.val = g.val /\ q.dram = g.dram /\ q.round = g.round
  /\ q.fired = g.fired /\ q.pc = g.pc /\ q.sent = g.sent /\ q.done = g.done

LEMMA QuietedIs ==
  ASSUME NEW g, RecordOf(g, GuestFields), NEW h
  PROVE  QuietIs(g, Quieted(g, h), h)
<1>1. PICK e : e = Quieted(g, h)
  OBVIOUS
<1>2. DOMAIN g = GuestFields
  BY DEF RecordOf
<1>3. e = [x \in GuestFields |-> IF x = "pulse" THEN [g.pulse EXCEPT ![h] = Unset] ELSE g[x]]
  BY <1>1, <1>2 DEF Quieted, GuestFields
<1>4. RecordOf(e, GuestFields)
  BY <1>3 DEF RecordOf
<1>5. QuietIs(g, e, h)
  BY <1>3, <1>4 DEF QuietIs, GuestFields
<1> QED
  BY <1>1, <1>5, Zenon

LEMMA HartRests ==
  ASSUME NEW g, RecordOf(g, GuestFields), NEW h, NEW m \in {"stall", "hold"}
  PROVE  Rests(g, GuestHart(g, h, m), h, m)
<1>1. PICK n : n = GuestHart(g, h, m)
  OBVIOUS
<1>2. DOMAIN g = GuestFields
  BY DEF RecordOf
<1> SUFFICES Rests(g, n, h, m)
  BY <1>1, Zenon
<1>3. CASE m = "stall"
  <2>1. n = [g EXCEPT !.fired[h] = FALSE, !.pulse[h] = Unset]
    BY <1>1, <1>3 DEF GuestHart
  <2>2. n = [x \in GuestFields |-> IF x = "fired" THEN [g.fired EXCEPT ![h] = FALSE]
                                   ELSE IF x = "pulse" THEN [g.pulse EXCEPT ![h] = Unset] ELSE g[x]]
    BY <1>2, <2>1 DEF GuestFields
  <2>3. RecordOf(n, GuestFields)
    BY <2>2 DEF RecordOf
  <2> QED
    BY <1>3, <2>2, <2>3 DEF Rests, GuestFields
<1>4. CASE m = "hold"
  <2>1. n = [g EXCEPT !.pulse[h] = Unset]
    BY <1>1, <1>4 DEF GuestHart
  <2>2. n = [x \in GuestFields |-> IF x = "pulse" THEN [g.pulse EXCEPT ![h] = Unset] ELSE g[x]]
    BY <1>2, <2>1 DEF GuestFields
  <2>3. RecordOf(n, GuestFields)
    BY <2>2 DEF RecordOf
  <2> QED
    BY <1>4, <2>2, <2>3 DEF Rests, GuestFields
<1> QED
  BY <1>3, <1>4

LEMMA HartCommits ==
  ASSUME NEW g, RecordOf(g, GuestFields), NEW h, NEW m \in {"step", "trap"}, NEW l,
         l = IF m = "trap" THEN "handle" ELSE g.at[h], NEW e, e = Effect(Quieted(g, h), h, l)
  PROVE  GuestCommits(g, e, GuestHart(g, h, m), h, l, m = "trap") /\ EffectIs(Quieted(g, h), e, h, l)
<1>1. PICK n : n = GuestHart(g, h, m)
  OBVIOUS
<1>2. EffectIs(Quieted(g, h), e, h, l)
  <2>1. RecordOf(Quieted(g, h), GuestFields)
    BY QuietedIs, Zenon DEF QuietIs
  <2> QED
    BY <2>1, EffectOf, Zenon
<1>3. DOMAIN e = GuestFields
  BY <1>2 DEF RecordOf, EffectIs
<1>4. PICK a : a = After(e, h, l)
  OBVIOUS
<1>5. n = [e EXCEPT !.fired[h] = TRUE, !.pc[h] = l, !.at[h] = a,
                    !.ret[h] = IF m = "trap" THEN g.at[h] ELSE @,
                    !.round[h] = IF a = "lock" /\ l = "work" THEN @ + 1 ELSE @]
  BY <1>1, <1>4 DEF GuestHart, Quieted
<1>6. n = [x \in GuestFields |->
             IF x = "fired" THEN [e.fired EXCEPT ![h] = TRUE]
             ELSE IF x = "pc" THEN [e.pc EXCEPT ![h] = l]
             ELSE IF x = "at" THEN [e.at EXCEPT ![h] = a]
             ELSE IF x = "ret" THEN [e.ret EXCEPT ![h] = IF m = "trap" THEN g.at[h] ELSE @]
             ELSE IF x = "round" THEN [e.round EXCEPT ![h] = IF a = "lock" /\ l = "work" THEN @ + 1 ELSE @]
             ELSE e[x]]
  BY <1>3, <1>5, ZenonT(40) DEF GuestFields
<1>7. RecordOf(n, GuestFields)
  BY <1>6 DEF RecordOf
<1>8. GuestCommits(g, e, n, h, l, m = "trap")
  BY <1>4, <1>6, <1>7 DEF GuestCommits, GuestFields
<1> QED
  BY <1>1, <1>2, <1>8, Zenon

TwoHarts == Harts = {0, 1}

LEMMA PeerIs ==
  TwoHarts => /\ Peer(0) = 1 /\ Peer(1) = 0
              /\ \A h \in Harts : Peer(h) \in Harts /\ Peer(h) # h /\ Peer(Peer(h)) = h
BY DEF TwoHarts, Peer

AfterFacts(e, h, l, a) ==
  /\ a \in Labels /\ (a = l => l = "work") /\ (l = "handle" => a = "flush")
  /\ l \in CallHandler \ {"ret"} => a \in CallHandler
  /\ l = "ret" => a = e.ret[h]
  /\ l \notin CallHandler => a \notin CallHandler
  /\ (l = "work" => a \in {"lock", "work"}) /\ (l = "lock" => a = "lr") /\ (l = "lr" => a = "sc")
  /\ (l = "sc" => a = "pushDone") /\ (l = "pushDone" => a = IF e.ok[h] THEN "ipi" ELSE "lr")
  /\ l \in {"ipi", "spin1", "spin2"} => a \in {"spin1", "spin2", "work"}

LEMMA AfterIs ==
  ASSUME NEW e, NEW h, NEW l \in Labels, e.ret[h] \in Labels \ CallHandler
  PROVE  AfterFacts(e, h, l, After(e, h, l))
<1>0. l \in {"work", "lock", "lr", "sc", "pushDone", "ipi", "spin1", "spin2",
             "handle", "flush", "popDone", "swap", "unlock", "ret"}
  BY DEF Labels, CallHandler
<1>1. CASE l \in {"work", "lock", "lr", "sc"}
  BY <1>1 DEF After, AfterFacts, Labels, CallHandler
<1>2. CASE l \in {"pushDone", "ipi"}
  BY <1>2 DEF After, AfterFacts, Labels, CallHandler
<1>3. CASE l \in {"spin1", "spin2"}
  BY <1>3 DEF After, AfterFacts, Labels, CallHandler
<1>4. CASE l \in {"handle", "flush", "popDone"}
  BY <1>4 DEF After, AfterFacts, Labels, CallHandler
<1>5. CASE l \in {"swap", "unlock", "ret"}
  BY <1>5 DEF After, AfterFacts, Labels, CallHandler
<1> QED
  BY <1>0, <1>1, <1>2, <1>3, <1>4, <1>5

(* One instruction committed by hart h of the guest q. *)
Committed(q, e, n, h, l, trap) ==
  /\ h \in Harts /\ l \in Labels /\ l = IF trap THEN "handle" ELSE q.at[h]
  /\ trap => q.at[h] \notin CallHandler
  /\ EffectIs(q, e, h, l) /\ GuestCommits(q, e, n, h, l, trap)

LEMMA StepTypes ==
  ASSUME TwoHarts, NEW q, NEW e, NEW n, NEW h, NEW l, NEW trap, GuestTypes(q), Committed(q, e, n, h, l, trap)
  PROVE  GuestTypes(n)
<1> USE PeerIs DEF TwoHarts
<1>1. h \in Harts /\ Peer(h) \in Harts
  BY DEF Committed
<1>2. RecordOf(n, GuestFields)
  BY DEF Committed, GuestCommits
<1>3. PICK a : a = After(e, h, l)
  OBVIOUS
<1>4. e.ret = q.ret /\ e.at = q.at /\ e.round = q.round /\ e.fired = q.fired /\ e.pc = q.pc /\ e.dram = q.dram
  BY DEF Committed, EffectIs
<1>5. a \in Labels
  <2>1. e.ret[h] \in Labels \ CallHandler /\ l \in Labels
    BY <1>1, <1>4 DEF GuestTypes, Committed
  <2> QED
    BY <1>3, <2>1, AfterIs DEF AfterFacts
<1>6. n.at \in [Harts -> Labels]
  <2>1. n.at = [q.at EXCEPT ![h] = a] /\ q.at \in [Harts -> Labels]
    BY <1>3, <1>4 DEF Committed, GuestCommits, GuestTypes
  <2> QED
    BY <1>1, <1>5, <2>1
<1>7. n.ret \in [Harts -> Labels \ CallHandler]
  <2>1. n.ret = [q.ret EXCEPT ![h] = IF trap THEN q.at[h] ELSE @] /\ q.ret \in [Harts -> Labels \ CallHandler]
        /\ q.at \in [Harts -> Labels] /\ (trap => q.at[h] \notin CallHandler)
    BY <1>4 DEF Committed, GuestCommits, GuestTypes
  <2> QED
    BY <1>1, <2>1
<1>8. n.msip \in [Harts -> 0 .. 1]
  <2>1. q.msip \in [Harts -> 0 .. 1] /\ n.msip = e.msip
    BY DEF Committed, GuestCommits, GuestTypes
  <2>2. e.msip \in {q.msip, [q.msip EXCEPT ![Peer(h)] = 1], [q.msip EXCEPT ![h] = 0]}
    BY DEF Committed, EffectIs, Raises, Clears
  <2> QED
    BY <1>1, <2>1, <2>2
<1>9. n.res \in [Harts -> BOOLEAN]
  <2>1. q.res \in [Harts -> BOOLEAN] /\ n.res = e.res
    BY DEF Committed, GuestCommits, GuestTypes
  <2>2. \/ e.res = q.res \/ e.res = [q.res EXCEPT ![h] = TRUE] \/ e.res = [q.res EXCEPT ![h] = FALSE]
        \/ e.res = [q.res EXCEPT ![Peer(h)] = FALSE]
    BY DEF Committed, EffectIs, Reserves, ScStores, Takes
  <2> QED
    BY <1>1, <2>1, <2>2, ZenonT(40)
<1>10. n.ok \in [Harts -> BOOLEAN]
  <2>1. q.ok \in [Harts -> BOOLEAN] /\ n.ok = e.ok
    BY DEF Committed, GuestCommits, GuestTypes
  <2>2. e.ok = q.ok \/ e.ok = [q.ok EXCEPT ![h] = TRUE] \/ e.ok = [q.ok EXCEPT ![h] = FALSE]
    BY DEF Committed, EffectIs, ScStores, ScFails
  <2> QED
    BY <1>1, <2>1, <2>2, ZenonT(40)
<1>11. q.head \in [Harts -> SUBSET Nodes] /\ q.chain \in [Harts -> SUBSET Nodes] /\ <<h, q.round[h]>> \in Nodes
  BY <1>1 DEF GuestTypes, Nodes
<1>12. n.head \in [Harts -> SUBSET Nodes]
  <2>1. n.head = e.head
    BY DEF Committed, GuestCommits
  <2>2. \/ e.head = q.head \/ e.head = [q.head EXCEPT ![h] = {}]
        \/ e.head = [q.head EXCEPT ![Peer(h)] = IF Lost(q, h) THEN @ ELSE @ \cup {<<h, q.round[h]>>}]
    BY DEF Committed, EffectIs, ScStores, Takes
  <2>3. PICK p : p = <<h, q.round[h]>> /\ p \in Nodes
    BY <1>11
  <2> QED
    BY <1>1, <1>11, <2>1, <2>2, <2>3
<1>13. n.chain \in [Harts -> SUBSET Nodes]
  <2>1. n.chain = e.chain
    BY DEF Committed, GuestCommits
  <2>2. e.chain = q.chain \/ e.chain = [q.chain EXCEPT ![h] = q.head[h]]
    BY DEF Committed, EffectIs, Takes
  <2> QED
    BY <1>1, <1>11, <2>1, <2>2
<1>14. n.lock \in [Harts -> 0 .. 1]
  <2>1. q.lock \in [Harts -> 0 .. 1] /\ n.lock = e.lock
    BY DEF Committed, GuestCommits, GuestTypes
  <2>2. e.lock = q.lock \/ e.lock = [q.lock EXCEPT ![h] = 1] \/ e.lock = Unlocked(q, h)
    BY DEF Committed, EffectIs, Locks, Unlocks
  <2>3. Unlocked(q, h) \in [Harts -> 0 .. 1]
    BY <2>1 DEF Unlocked
  <2> QED
    BY <1>1, <2>1, <2>2, <2>3
<1>15. n.val \in [Harts -> {Unset, 0, 1}]
  <2>1. q.val \in [Harts -> {Unset, 0, 1}] /\ n.val = e.val /\ q.lock[h] \in 0 .. 1
    BY <1>1 DEF Committed, GuestCommits, GuestTypes
  <2>2. \/ e.val = q.val \/ e.val = [q.val EXCEPT ![h] = Unset]
        \/ e.val = [q.val EXCEPT ![h] = IF cmd.defect = "stale" /\ @ # Unset THEN @ ELSE q.lock[h]]
    BY DEF Committed, EffectIs, Locks, Reloads
  <2> QED
    BY <1>1, <2>1, <2>2
<1>16. n.dram \in [Harts -> 0 .. 1]
  BY <1>4 DEF Committed, GuestCommits, GuestTypes
<1>17. n.round \in [Harts -> Nat]
  <2>1. n.round = [q.round EXCEPT ![h] = IF a = "lock" /\ l = "work" THEN @ + 1 ELSE @] /\ q.round \in [Harts -> Nat]
    BY <1>3, <1>4 DEF Committed, GuestCommits, GuestTypes
  <2> QED
    BY <1>1, <2>1
<1>18. n.fired \in [Harts -> BOOLEAN] /\ n.pc \in [Harts -> Labels \cup {"none"}]
  <2>1. n.fired = [q.fired EXCEPT ![h] = TRUE] /\ n.pc = [q.pc EXCEPT ![h] = l] /\ l \in Labels
    BY <1>4 DEF Committed, GuestCommits
  <2>2. q.fired \in [Harts -> BOOLEAN] /\ q.pc \in [Harts -> Labels \cup {"none"}]
    BY DEF GuestTypes
  <2> QED
    BY <1>1, <2>1, <2>2
<1>19. n.pulse \in [Harts -> Harts \cup {Unset}]
  <2>1. q.pulse \in [Harts -> Harts \cup {Unset}] /\ n.pulse = e.pulse
    BY DEF Committed, GuestCommits, GuestTypes
  <2>2. e.pulse = q.pulse \/ e.pulse = [q.pulse EXCEPT ![h] = h] \/ e.pulse = [q.pulse EXCEPT ![h] = Peer(h)]
    BY DEF Committed, EffectIs, Raises, Clears
  <2> QED
    BY <1>1, <2>1, <2>2
<1>20. n.sent \in [Harts -> Nat]
  <2>1. q.sent \in [Harts -> Nat] /\ n.sent = e.sent
    BY DEF Committed, GuestCommits, GuestTypes
  <2>2. e.sent = q.sent \/ e.sent = [q.sent EXCEPT ![h] = @ + 1] \/ e.sent = [q.sent EXCEPT ![Peer(h)] = @ + 1]
    BY DEF Committed, EffectIs, Raises, Clears
  <2> QED
    BY <1>1, <2>1, <2>2
<1>21. n.done \in [Harts -> Seq(Ops)]
  <2>1. q.done \in [Harts -> Seq(Ops)] /\ n.done = e.done
    BY DEF Committed, GuestCommits, GuestTypes
  <2>2. \/ e.done = q.done
        \/ e.done = [q.done EXCEPT ![Peer(h)] = Append(@, IF Lost(q, h) THEN "lost" ELSE "push")]
        \/ e.done = [q.done EXCEPT ![h] = Append(@, IF q.head[h] = {} THEN "null" ELSE "pop")]
    BY DEF Committed, EffectIs, ScStores, Takes
  <2>3. PICK x : x = IF Lost(q, h) THEN "lost" ELSE "push"
    OBVIOUS
  <2>4. PICK y : y = IF q.head[h] = {} THEN "null" ELSE "pop"
    OBVIOUS
  <2>7. x \in Ops /\ y \in Ops
    BY <2>3, <2>4 DEF Ops
  <2>5. \A k \in Harts : Append(q.done[k], x) \in Seq(Ops) /\ Append(q.done[k], y) \in Seq(Ops)
    BY <2>1, <2>7
  <2>6. \/ e.done = q.done \/ e.done = [q.done EXCEPT ![Peer(h)] = Append(@, x)]
        \/ e.done = [q.done EXCEPT ![h] = Append(@, y)]
    BY <2>2, <2>3, <2>4, Zenon
  <2>8. ASSUME NEW k \in Harts, NEW z, Append(q.done[k], z) \in Seq(Ops)
        PROVE  [q.done EXCEPT ![k] = Append(@, z)] \in [Harts -> Seq(Ops)]
    <3>1. PICK d : d = Append(q.done[k], z) /\ d \in Seq(Ops)
      BY <2>8
    <3> HIDE DEF TwoHarts
    <3>2. [q.done EXCEPT ![k] = d] \in [Harts -> Seq(Ops)]
      BY <2>1, <3>1, Zenon
    <3> QED
      BY <3>1, <3>2, Zenon
  <2>9. /\ [q.done EXCEPT ![h] = Append(@, y)] \in [Harts -> Seq(Ops)]
        /\ [q.done EXCEPT ![Peer(h)] = Append(@, x)] \in [Harts -> Seq(Ops)]
    BY <1>1, <2>5, <2>8
  <2> QED
    BY <2>1, <2>6, <2>9, Zenon
<1> QED
  BY <1>2, <1>6, <1>7, <1>8, <1>9, <1>10, <1>12, <1>13, <1>14, <1>15, <1>16, <1>17, <1>18, <1>19,
     <1>20, <1>21, Zenon DEF GuestTypes

LEMMA StepWalks ==
  ASSUME TwoHarts, NEW q, NEW e, NEW n, NEW h, NEW l, NEW trap, GuestTypes(q), Walks(q), Committed(q, e, n, h, l, trap)
  PROVE  Walks(n)
<1>1. PICK a : a = After(e, h, l)
  OBVIOUS
<1>2. AfterFacts(e, h, l, a)
  <2>1. e.ret[h] \in Labels \ CallHandler /\ l \in Labels
    BY DEF GuestTypes, Committed, EffectIs
  <2> QED
    BY <1>1, <2>1, AfterIs
<1>3. n.at = [q.at EXCEPT ![h] = a] /\ n.pc = [q.pc EXCEPT ![h] = l] /\ h \in Harts
  BY <1>1 DEF Committed, GuestCommits, EffectIs
<1>4. q.at \in [Harts -> Labels] /\ q.pc \in [Harts -> Labels \cup {"none"}]
  BY DEF GuestTypes
<1>5. n.at[h] = a /\ n.pc[h] = l /\ \A k \in Harts \ {h} : n.at[k] = q.at[k] /\ n.pc[k] = q.pc[k]
  BY <1>3, <1>4
<1>6. (a = l => l = "work") /\ (l = "handle" => a = "flush")
  BY <1>2 DEF AfterFacts
<1> QED
  BY <1>5, <1>6 DEF Walks

(* Only the start of a round brings a hart before its push again. *)
LEMMA BeforeStep ==
  ASSUME TwoHarts, NEW q, NEW e, NEW n, NEW h, NEW l, NEW trap, GuestTypes(q), Committed(q, e, n, h, l, trap)
  PROVE  /\ Before(n, h) => Before(q, h) \/ n.round[h] = q.round[h] + 1
         /\ n.round[h] \in {q.round[h], q.round[h] + 1}
         /\ (l = "sc" /\ q.res[h]) => ~Before(n, h) /\ Before(q, h) /\ n.round[h] = q.round[h]
<1>1. PICK a : a = After(e, h, l)
  OBVIOUS
<1>2. e.ret = q.ret /\ e.at = q.at /\ e.round = q.round /\ n.ok = e.ok /\ h \in Harts /\ l \in Labels
  BY DEF Committed, EffectIs, GuestCommits
<1>3. AfterFacts(e, h, l, a)
  <2>1. e.ret[h] \in Labels \ CallHandler
    BY <1>2 DEF GuestTypes
  <2> QED
    BY <1>1, <1>2, <2>1, AfterIs
<1>4. n.at[h] = a
  BY <1>1, <1>2 DEF Committed, GuestCommits, GuestTypes
<1>5. n.ret[h] = IF trap THEN q.at[h] ELSE q.ret[h]
  BY <1>2 DEF Committed, GuestCommits, GuestTypes
<1>6. n.round[h] = IF a = "lock" /\ l = "work" THEN q.round[h] + 1 ELSE q.round[h]
  <2>1. n.round = [q.round EXCEPT ![h] = IF a = "lock" /\ l = "work" THEN @ + 1 ELSE @] /\ q.round \in [Harts -> Nat]
    BY <1>1, <1>2 DEF Committed, GuestCommits, GuestTypes
  <2> QED
    BY <1>2, <2>1
<1>7. l # "sc" => e.ok = q.ok
  BY DEF Committed, EffectIs
<1>8. (l = "sc" /\ q.res[h]) => n.ok[h]
  <2>1. (l = "sc" /\ q.res[h]) => e.ok = [q.ok EXCEPT ![h] = TRUE]
    BY DEF Committed, EffectIs, ScStores
  <2> QED
    BY <1>2, <2>1 DEF GuestTypes
<1>9. l = (IF trap THEN "handle" ELSE q.at[h]) /\ (trap => q.at[h] \notin CallHandler) /\ q.ret[h] \notin CallHandler
  BY <1>2 DEF Committed, GuestTypes
<1>10. CASE trap
  <2>1. a = "flush" /\ l = "handle"
    BY <1>3, <1>9, <1>10 DEF AfterFacts
  <2>2. OwnAt(n, h) = q.at[h] /\ OwnAt(q, h) = q.at[h]
    BY <1>4, <1>5, <1>9, <1>10, <2>1 DEF OwnAt, CallHandler
  <2> QED
    BY <1>2, <1>6, <1>7, <2>1, <2>2 DEF Before
<1>11. CASE ~trap /\ l \in CallHandler
  <2>1. OwnAt(q, h) = q.ret[h] /\ l # "sc" /\ l # "work"
    BY <1>9, <1>11 DEF OwnAt, CallHandler
  <2>2. OwnAt(n, h) = q.ret[h]
    <3>1. CASE l = "ret"
      BY <1>2, <1>3, <1>4, <1>9, <3>1 DEF OwnAt, AfterFacts
    <3>2. CASE l # "ret"
      BY <1>3, <1>4, <1>5, <1>9, <1>11, <3>2 DEF OwnAt, AfterFacts
    <3> QED
      BY <3>1, <3>2
  <2> QED
    BY <1>2, <1>6, <1>7, <2>1, <2>2 DEF Before
<1>12. CASE ~trap /\ l \notin CallHandler
  <2>1. OwnAt(q, h) = l /\ OwnAt(n, h) = a
    BY <1>3, <1>4, <1>9, <1>12 DEF OwnAt, AfterFacts
  <2>2. l \in {"work", "lock", "lr", "sc", "pushDone", "ipi", "spin1", "spin2"}
    BY <1>2, <1>12 DEF Labels
  <2> QED
    BY <1>2, <1>3, <1>6, <1>7, <1>8, <2>1, <2>2 DEF Before, AfterFacts
<1> QED
  BY <1>10, <1>11, <1>12

LEMMA StepNodes ==
  ASSUME TwoHarts, NEW q, NEW e, NEW n, NEW h, NEW l, NEW trap, GuestTypes(q), NodesNew(q), Committed(q, e, n, h, l, trap)
  PROVE  NodesNew(n)
<1> USE PeerIs
<1>1. h \in Harts /\ Peer(h) \in Harts /\ Peer(h) # h /\ n.head = e.head
  BY DEF Committed, GuestCommits
<1>2. q.head \in [Harts -> SUBSET Nodes] /\ q.round \in [Harts -> Nat]
  BY DEF GuestTypes
<1>3. PICK x : x = <<h, q.round[h]>>
  OBVIOUS
<1>4. \A k \in Harts : \A y \in n.head[k] : y \in q.head[k] \/ (k = Peer(h) /\ y = x /\ l = "sc" /\ q.res[h])
  <2>1. \/ e.head = q.head \/ e.head = [q.head EXCEPT ![h] = {}]
        \/ (l = "sc" /\ q.res[h]) /\ e.head = [q.head EXCEPT ![Peer(h)] = IF Lost(q, h) THEN @ ELSE @ \cup {x}]
    BY <1>3 DEF Committed, EffectIs, ScStores, Takes
  <2> QED
    BY <1>1, <1>2, <2>1
<1>5. /\ Before(n, h) => Before(q, h) \/ n.round[h] = q.round[h] + 1
      /\ n.round[h] \in {q.round[h], q.round[h] + 1}
      /\ (l = "sc" /\ q.res[h]) => ~Before(n, h) /\ Before(q, h) /\ n.round[h] = q.round[h]
  BY BeforeStep
<1>6. ASSUME NEW k \in Harts, k # h
      PROVE  (Before(n, k) <=> Before(q, k)) /\ n.round[k] = q.round[k]
  <2>1. n.at[k] = q.at[k] /\ n.ret[k] = q.ret[k] /\ n.round[k] = q.round[k]
    BY <1>6 DEF Committed, GuestCommits, EffectIs, GuestTypes
  <2>2. n.ok[k] = q.ok[k]
    <3>1. e.ok = q.ok \/ e.ok = [q.ok EXCEPT ![h] = TRUE] \/ e.ok = [q.ok EXCEPT ![h] = FALSE]
      BY DEF Committed, EffectIs, ScStores, ScFails
    <3> QED
      BY <1>6, <3>1 DEF Committed, GuestCommits, GuestTypes
  <2> QED
    BY <2>1, <2>2 DEF Before, OwnAt
<1>7. ASSUME NEW k \in Harts, NEW y \in n.head[Peer(k)]
      PROVE  y[1] = k /\ y[2] <= n.round[k] /\ (Before(n, k) => y[2] < n.round[k])
  <2>1. Peer(k) \in Harts /\ (Peer(k) = Peer(h) => k = h)
    BY <1>1 DEF Peer, TwoHarts
  <2>2. CASE y \in q.head[Peer(k)]
    <3>1. y[1] = k /\ y[2] <= q.round[k] /\ (Before(q, k) => y[2] < q.round[k])
      BY <2>2 DEF NodesNew
    <3>2. y[2] \in Nat /\ q.round[k] \in Nat
      <4>1. y \in Nodes
        BY <1>2, <2>1, <2>2
      <4> QED
        BY <1>2, <4>1 DEF Nodes
    <3>3. CASE k = h
      BY <1>5, <3>1, <3>2, <3>3
    <3>4. CASE k # h
      BY <1>6, <3>1, <3>4
    <3> QED
      BY <3>3, <3>4
  <2>3. CASE k = h /\ y = x /\ l = "sc" /\ q.res[h]
    <3>1. y[1] = h /\ y[2] = q.round[h] /\ q.round[h] \in Nat
      BY <1>1, <1>2, <1>3, <2>3
    <3> QED
      BY <1>5, <2>3, <3>1
  <2> QED
    BY <1>4, <2>1, <2>2, <2>3
<1> QED
  BY <1>7 DEF NodesNew

(* The history of a queue. *)
LEMMA PlacesAppend ==
  ASSUME NEW S, NEW s \in Seq(S), NEW x \in S, NEW k
  PROVE  /\ Places(k, Append(s, x)) = Places(k, s) \cup (IF x = k THEN {Len(s) + 1} ELSE {})
         /\ Places(k, s) \subseteq 1 .. Len(s) /\ Len(s) \in Nat
         /\ IsFiniteSet(Places(k, s)) /\ Cardinality(Places(k, s)) \in Nat
         /\ Cardinality(Places(k, Append(s, x))) = Cardinality(Places(k, s)) + (IF x = k THEN 1 ELSE 0)
<1>1. PICK t : t = Append(s, x)
  OBVIOUS
<1>2. PICK z \in Nat : z = Len(s)
  OBVIOUS
<1>3. /\ DOMAIN s = 1 .. z /\ DOMAIN t = 1 .. z + 1 /\ t[z + 1] = x /\ \A i \in 1 .. z : t[i] = s[i]
  BY <1>1, <1>2
<1>4. Places(k, s) \subseteq 1 .. z
  BY <1>3 DEF Places
<1>5. Places(k, t) = Places(k, s) \cup (IF x = k THEN {z + 1} ELSE {})
  BY <1>3 DEF Places
<1>6. IsFiniteSet(Places(k, s)) /\ Cardinality(Places(k, s)) \in Nat
  <2>1. IsFiniteSet(1 .. z)
    BY FS_Interval
  <2> QED
    BY <1>4, <2>1, FS_Subset, FS_CardinalityType
<1>7. Cardinality(Places(k, t)) = Cardinality(Places(k, s)) + (IF x = k THEN 1 ELSE 0)
  <2>1. CASE x = k
    <3>1. z + 1 \notin Places(k, s) /\ Places(k, t) = Places(k, s) \cup {z + 1}
      BY <1>4, <1>5, <2>1
    <3> QED
      BY <1>6, <2>1, <3>1, FS_AddElement
  <2>2. CASE x # k
    <3>1. Places(k, t) = Places(k, s)
      BY <1>5, <2>2
    <3> QED
      BY <1>6, <2>2, <3>1
  <2> QED
    BY <2>1, <2>2
<1> QED
  BY <1>1, <1>2, <1>4, <1>5, <1>6, <1>7, Zenon

LEMMA UnclaimedAppend ==
  ASSUME NEW S, NEW s \in Seq(S), NEW x \in S
  PROVE  /\ IsFiniteSet(Unclaimed(s)) /\ Cardinality(Unclaimed(s)) \in Nat
         /\ x = "push" => Cardinality(Unclaimed(Append(s, x))) = Cardinality(Unclaimed(s)) + 1
         /\ x = "pop" => Cardinality(Unclaimed(Append(s, x))) = 0
         /\ x \notin {"push", "pop"} => Cardinality(Unclaimed(Append(s, x))) = Cardinality(Unclaimed(s))
<1>1. PICK t : t = Append(s, x)
  OBVIOUS
<1>2. PICK z \in Nat : z = Len(s)
  OBVIOUS
<1>3. PICK A, B : A = Places("push", s) /\ B = Places("pop", s)
  OBVIOUS
<1>4. A \subseteq 1 .. z /\ B \subseteq 1 .. z /\ IsFiniteSet(A)
  BY <1>2, <1>3, PlacesAppend
<1>5. /\ Places("push", t) = A \cup (IF x = "push" THEN {z + 1} ELSE {})
      /\ Places("pop", t) = B \cup (IF x = "pop" THEN {z + 1} ELSE {})
  BY <1>1, <1>2, <1>3, PlacesAppend
<1>6. PICK U : U = Unclaimed(s) /\ U = {i \in A : \A j \in B : j < i}
  BY <1>3 DEF Unclaimed
<1>7. IsFiniteSet(U) /\ Cardinality(U) \in Nat
  <2>1. U \subseteq A
    BY <1>6
  <2> QED
    BY <1>4, <2>1, FS_Subset, FS_CardinalityType
<1>8. PICK V : V = Unclaimed(t)
  OBVIOUS
<1>9. ASSUME x = "push"
      PROVE  Cardinality(V) = Cardinality(U) + 1
  <2>1. V = U \cup {z + 1} /\ z + 1 \notin U
    <3>1. V = {i \in A \cup {z + 1} : \A j \in B : j < i}
      BY <1>5, <1>8, <1>9 DEF Unclaimed
    <3>2. \A j \in B : j < z + 1
      BY <1>4
    <3> QED
      BY <1>4, <1>6, <3>1, <3>2
  <2> QED
    BY <1>7, <2>1, FS_AddElement
<1>10. ASSUME x = "pop"
       PROVE  Cardinality(V) = 0
  <2>1. V = {}
    <3>1. V = {i \in A : \A j \in B \cup {z + 1} : j < i}
      BY <1>5, <1>8, <1>10 DEF Unclaimed
    <3>2. \A i \in A : ~(z + 1 < i)
      BY <1>4
    <3> QED
      BY <3>1, <3>2, Zenon
  <2> QED
    BY <2>1, FS_EmptySet
<1>11. ASSUME x \notin {"push", "pop"}
       PROVE  V = U
  BY <1>5, <1>6, <1>8, <1>11 DEF Unclaimed
<1> QED
  BY <1>1, <1>6, <1>7, <1>8, <1>9, <1>10, <1>11

LEMMA StepHeads ==
  ASSUME TwoHarts, NEW q, NEW e, NEW n, NEW h, NEW l, NEW trap, GuestTypes(q), NodesNew(q), HeadsCount(q),
         Committed(q, e, n, h, l, trap)
  PROVE  HeadsCount(n)
<1> USE PeerIs
<1>1. h \in Harts /\ Peer(h) \in Harts /\ Peer(h) # h /\ n.head = e.head /\ n.done = e.done
  BY DEF Committed, GuestCommits
<1>2. q.head \in [Harts -> SUBSET Nodes] /\ q.done \in [Harts -> Seq(Ops)]
  BY DEF GuestTypes
<1>3. \A k \in Harts : IsFiniteSet(q.head[k]) /\ Cardinality(q.head[k]) = Cardinality(Unclaimed(q.done[k]))
  BY DEF HeadsCount
<1>4. CASE l = "sc" /\ q.res[h]
  <2>1. PICK p, x, s, H : p = Peer(h) /\ x = <<h, q.round[h]>> /\ s = q.done[p] /\ H = q.head[p]
    OBVIOUS
  <2>2. PICK v : v = IF Lost(q, h) THEN "lost" ELSE "push"
    OBVIOUS
  <2>3. /\ e.head = [q.head EXCEPT ![p] = IF Lost(q, h) THEN @ ELSE @ \cup {x}]
        /\ e.done = [q.done EXCEPT ![p] = Append(@, v)]
    BY <1>4, <2>1, <2>2 DEF Committed, EffectIs, ScStores
  <2>4. \A k \in Harts \ {p} : n.head[k] = q.head[k] /\ n.done[k] = q.done[k]
    BY <1>1, <1>2, <2>1, <2>3
  <2>5. n.head[p] = (IF Lost(q, h) THEN H ELSE H \cup {x}) /\ n.done[p] = Append(s, v)
    BY <1>1, <1>2, <2>1, <2>3
  <2>6. x \notin H
    <3>1. Before(q, h) /\ q.round[h] \in Nat
      BY <1>1, <1>4, BeforeStep DEF GuestTypes
    <3>2. \A y \in H : y[2] < q.round[h]
      BY <1>1, <2>1, <3>1 DEF NodesNew
    <3>3. x[2] = q.round[h]
      BY <2>1
    <3> QED
      BY <3>1, <3>2, <3>3
  <2>7. s \in Seq(Ops) /\ IsFiniteSet(H) /\ Cardinality(H) = Cardinality(Unclaimed(s)) /\ v \in Ops
    BY <1>1, <1>2, <1>3, <2>1, <2>2 DEF Ops
  <2>8. IsFiniteSet(n.head[p]) /\ Cardinality(n.head[p]) = Cardinality(Unclaimed(n.done[p]))
    <3>1. CASE Lost(q, h)
      <4>1. v = "lost" /\ n.head[p] = H
        BY <2>2, <2>5, <3>1
      <4>2. Cardinality(Unclaimed(Append(s, v))) = Cardinality(Unclaimed(s))
        BY <2>7, <4>1, UnclaimedAppend
      <4> QED
        BY <2>5, <2>7, <4>1, <4>2
    <3>2. CASE ~Lost(q, h)
      <4>1. v = "push" /\ n.head[p] = H \cup {x}
        BY <2>2, <2>5, <3>2
      <4>2. Cardinality(Unclaimed(Append(s, v))) = Cardinality(Unclaimed(s)) + 1
        BY <2>7, <4>1, UnclaimedAppend
      <4>3. IsFiniteSet(H \cup {x}) /\ Cardinality(H \cup {x}) = Cardinality(H) + 1
        BY <2>6, <2>7, FS_AddElement
      <4> QED
        BY <2>5, <2>7, <4>1, <4>2, <4>3
    <3> QED
      BY <3>1, <3>2
  <2> QED
    BY <1>3, <2>4, <2>8 DEF HeadsCount
<1>5. CASE l = "swap"
  <2>1. PICK s, H : s = q.done[h] /\ H = q.head[h]
    OBVIOUS
  <2>2. PICK v : v = IF H = {} THEN "null" ELSE "pop"
    OBVIOUS
  <2>3. e.head = [q.head EXCEPT ![h] = {}] /\ e.done = [q.done EXCEPT ![h] = Append(@, v)]
    BY <1>5, <2>1, <2>2 DEF Committed, EffectIs, Takes
  <2>4. \A k \in Harts \ {h} : n.head[k] = q.head[k] /\ n.done[k] = q.done[k]
    BY <1>1, <1>2, <2>3
  <2>5. n.head[h] = {} /\ n.done[h] = Append(s, v)
    BY <1>1, <1>2, <2>1, <2>3
  <2>6. IsFiniteSet({}) /\ Cardinality({}) = 0
    BY FS_EmptySet
  <2>7. s \in Seq(Ops) /\ v \in Ops /\ Cardinality(H) = Cardinality(Unclaimed(s))
    BY <1>1, <1>2, <1>3, <2>1, <2>2 DEF Ops
  <2>8. Cardinality(Unclaimed(Append(s, v))) = 0
    <3>1. CASE H = {}
      <4>1. v = "null"
        BY <2>2, <3>1
      <4>2. Cardinality(Unclaimed(Append(s, v))) = Cardinality(Unclaimed(s))
        BY <2>7, <4>1, UnclaimedAppend
      <4> QED
        BY <2>6, <2>7, <3>1, <4>2
    <3>2. CASE H # {}
      <4>1. v = "pop"
        BY <2>2, <3>2
      <4> QED
        BY <2>7, <4>1, UnclaimedAppend
    <3> QED
      BY <3>1, <3>2
  <2> QED
    BY <1>3, <2>4, <2>5, <2>6, <2>8 DEF HeadsCount
<1>6. CASE l # "swap" /\ ~(l = "sc" /\ q.res[h])
  <2>1. e.head = q.head /\ e.done = q.done
    BY <1>6 DEF Committed, EffectIs
  <2> QED
    BY <1>1, <1>3, <2>1 DEF HeadsCount
<1> QED
  BY <1>4, <1>5, <1>6

(* A turn of one hart: it either shows nothing new, or a new instruction;   *)
(* its pulse is its write of MSIP; only its reload and its lock change the  *)
(* flag it has read, only its lock sets a flag.                             *)
Goes == {"step", "trap"}
Turn(g, n, h, m) ==
  /\ \A k \in Harts \ {h} : /\ n.at[k] = g.at[k] /\ n.pc[k] = g.pc[k] /\ n.fired[k] = g.fired[k] /\ n.ok[k] = g.ok[k]
                            /\ n.chain[k] = g.chain[k] /\ n.val[k] = g.val[k] /\ n.pulse[k] = g.pulse[k]
                            /\ n.lock[k] \in {g.lock[k], 0}
  /\ m \in Goes => n.fired[h] /\ (n.pc[h] = g.pc[h] => n.pc[h] = "work")
  /\ m \notin Goes => n.pc[h] = g.pc[h]
  /\ \A t \in Harts : n.sent[t] = g.sent[t] + (IF n.pulse[h] = t THEN 1 ELSE 0)
  /\ IF m \in Goes /\ n.pc[h] = "spin1" THEN n.lock[h] = g.lock[h] /\ (cmd.defect # "stale" => n.val[h] = g.lock[h])
     ELSE n.val[h] = g.val[h] \/ (n.val[h] = Unset /\ n.pc[h] # "spin2")
  /\ n.lock[h] \in {g.lock[h], 0} \/ n.val[h] = Unset

SameCode(g, n) ==
  n.at = g.at /\ n.ret = g.ret /\ n.ok = g.ok /\ n.head = g.head /\ n.round = g.round /\ n.pc = g.pc
  /\ n.done = g.done

LEMMA SameGuest ==
  ASSUME NEW g, NEW n, SameCode(g, n)
  PROVE  (Walks(g) => Walks(n)) /\ (NodesNew(g) => NodesNew(n)) /\ (HeadsCount(g) => HeadsCount(n))
<1>1. Walks(g) => Walks(n)
  BY DEF SameCode, Walks
<1>2. NodesNew(g) => NodesNew(n)
  <2>1. \A h : Before(n, h) <=> Before(g, h)
    BY DEF SameCode, Before, OwnAt
  <2> QED
    BY <2>1 DEF SameCode, NodesNew
<1>3. HeadsCount(g) => HeadsCount(n)
  BY DEF SameCode, HeadsCount
<1> QED
  BY <1>1, <1>2, <1>3

LEMMA QuietedOK ==
  ASSUME TwoHarts, NEW g, GuestOK(g), NEW h \in Harts
  PROVE  GuestOK(Quieted(g, h)) /\ Quieted(g, h).pulse[h] = Unset
<1>1. PICK q : q = Quieted(g, h)
  OBVIOUS
<1>2. RecordOf(g, GuestFields)
  BY DEF GuestOK, GuestTypes
<1>3. QuietIs(g, q, h)
  BY <1>1, <1>2, QuietedIs, Zenon
<1>5. q.pulse \in [Harts -> Harts \cup {Unset}] /\ q.pulse[h] = Unset
  <2>1. g.pulse \in [Harts -> Harts \cup {Unset}] /\ q.pulse = [g.pulse EXCEPT ![h] = Unset]
    BY <1>3 DEF GuestOK, GuestTypes, QuietIs
  <2> QED
    BY <2>1
<1>6. GuestTypes(q)
  BY <1>3, <1>5, Zenon DEF GuestOK, GuestTypes, QuietIs
<1>7. SameCode(g, q)
  BY <1>3, Zenon DEF SameCode, QuietIs
<1> QED
  BY <1>1, <1>5, <1>6, <1>7, SameGuest, Zenon DEF GuestOK

LEMMA RestTurn ==
  ASSUME TwoHarts, NEW g, GuestOK(g), NEW h \in Harts, NEW m \in {"stall", "hold"}, NEW n, Rests(g, n, h, m)
  PROVE  GuestOK(n) /\ Turn(g, n, h, m)
<1>1. n.pulse \in [Harts -> Harts \cup {Unset}] /\ n.pulse[h] = Unset /\ \A k \in Harts \ {h} : n.pulse[k] = g.pulse[k]
  <2>1. g.pulse \in [Harts -> Harts \cup {Unset}] /\ n.pulse = [g.pulse EXCEPT ![h] = Unset]
    BY DEF GuestOK, GuestTypes, Rests
  <2> QED
    BY <2>1
<1>2. n.fired \in [Harts -> BOOLEAN] /\ \A k \in Harts \ {h} : n.fired[k] = g.fired[k]
  <2>1. g.fired \in [Harts -> BOOLEAN] /\ (n.fired = g.fired \/ n.fired = [g.fired EXCEPT ![h] = FALSE])
    BY DEF GuestOK, GuestTypes, Rests
  <2> QED
    BY <2>1
<1>3. GuestTypes(n)
  BY <1>1, <1>2, Zenon DEF GuestOK, GuestTypes, Rests
<1>4. Walks(n) /\ HeadsCount(n) /\ NodesNew(n)
  <2>1. SameCode(g, n)
    BY Zenon DEF SameCode, Rests
  <2> QED
    BY <2>1, SameGuest, Zenon DEF GuestOK
<1>5. Turn(g, n, h, m)
  <2>1. /\ n.at = g.at /\ n.ok = g.ok /\ n.chain = g.chain /\ n.lock = g.lock /\ n.val = g.val
        /\ n.pc = g.pc /\ n.sent = g.sent
    BY DEF Rests
  <2>2. \A t \in Harts : n.sent[t] = g.sent[t] + (IF n.pulse[h] = t THEN 1 ELSE 0)
    <3>1. \A t \in Harts : t # Unset /\ g.sent[t] \in Nat
      BY DEF TwoHarts, Unset, GuestOK, GuestTypes
    <3> QED
      BY <1>1, <2>1, <3>1
  <2>3. m \notin Goes
    BY DEF Goes
  <2> QED
    BY <1>1, <1>2, <2>1, <2>2, <2>3 DEF Turn
<1> QED
  BY <1>3, <1>4, <1>5 DEF GuestOK

LEMMA CommitTurn ==
  ASSUME TwoHarts, NEW q, NEW e, NEW n, NEW h, NEW l, NEW trap, NEW m \in Goes, GuestOK(q),
         Committed(q, e, n, h, l, trap), q.pulse[h] = Unset
  PROVE  GuestOK(n) /\ Turn(q, n, h, m)
<1> USE PeerIs
<1>1. GuestTypes(q) /\ Walks(q) /\ NodesNew(q) /\ HeadsCount(q)
  BY DEF GuestOK
<1>2. GuestOK(n)
  BY <1>1, StepTypes, StepWalks, StepNodes, StepHeads DEF GuestOK
<1>3. h \in Harts /\ Peer(h) \in Harts /\ Peer(h) # h /\ l \in Labels
  BY DEF Committed
<1>4. ASSUME NEW k \in Harts \ {h}
      PROVE  n.at[k] = q.at[k] /\ n.pc[k] = q.pc[k] /\ n.fired[k] = q.fired[k]
  BY <1>1, <1>4 DEF Committed, GuestCommits, EffectIs, GuestTypes
<1>5. ASSUME NEW k \in Harts \ {h}
      PROVE  n.ok[k] = q.ok[k] /\ n.chain[k] = q.chain[k]
  <2>1. e.ok = q.ok \/ e.ok = [q.ok EXCEPT ![h] = TRUE] \/ e.ok = [q.ok EXCEPT ![h] = FALSE]
    BY DEF Committed, EffectIs, ScStores, ScFails
  <2>2. e.chain = q.chain \/ e.chain = [q.chain EXCEPT ![h] = q.head[h]]
    BY DEF Committed, EffectIs, Takes
  <2> QED
    BY <1>1, <1>5, <2>1, <2>2 DEF Committed, GuestCommits, GuestTypes
<1>6. n.val = e.val /\ n.lock = e.lock /\ n.pulse = e.pulse /\ n.sent = e.sent /\ n.pc[h] = l /\ n.fired[h]
  BY <1>1, <1>3 DEF Committed, GuestCommits, EffectIs, GuestTypes
<1>7. q.val \in [Harts -> {Unset, 0, 1}] /\ q.lock \in [Harts -> 0 .. 1] /\ q.sent \in [Harts -> Nat]
      /\ q.pulse \in [Harts -> Harts \cup {Unset}]
  BY <1>1 DEF GuestTypes
<1>8. /\ l \notin {"lock", "spin1"} => e.val = q.val
      /\ l = "lock" => e.val = [q.val EXCEPT ![h] = Unset]
      /\ l = "spin1" => e.val = [q.val EXCEPT ![h] = IF cmd.defect = "stale" /\ @ # Unset THEN @ ELSE q.lock[h]]
  BY DEF Committed, EffectIs, Locks, Reloads
<1>9. /\ l \notin {"lock", "unlock"} => e.lock = q.lock
      /\ l = "lock" => e.lock = [q.lock EXCEPT ![h] = 1]
      /\ l = "unlock" => e.lock = Unlocked(q, h)
  BY DEF Committed, EffectIs, Locks, Unlocks
<1>10. \A k \in Harts : Unlocked(q, h)[k] \in {q.lock[k], 0}
  BY DEF Unlocked
<1>11. \A k \in Harts \ {h} : n.val[k] = q.val[k] /\ n.lock[k] \in {q.lock[k], 0}
  <2>1. \A k \in Harts \ {h} : e.val[k] = q.val[k]
    BY <1>7, <1>8
  <2>2. \A k \in Harts \ {h} : e.lock[k] \in {q.lock[k], 0}
    <3>1. CASE l = "unlock"
      BY <1>9, <1>10, <3>1
    <3>2. CASE l # "unlock"
      BY <1>7, <1>9, <3>2
    <3> QED
      BY <3>1, <3>2
  <2> QED
    BY <1>6, <2>1, <2>2
<1>12. /\ IF l = "spin1" THEN n.lock[h] = q.lock[h] /\ (cmd.defect # "stale" => n.val[h] = q.lock[h])
          ELSE n.val[h] = q.val[h] \/ (n.val[h] = Unset /\ l # "spin2")
       /\ n.lock[h] \in {q.lock[h], 0} \/ n.val[h] = Unset
  <2>1. CASE l = "spin1"
    BY <1>3, <1>6, <1>7, <1>8, <1>9, <2>1
  <2>2. CASE l = "lock"
    BY <1>3, <1>6, <1>7, <1>8, <2>2
  <2>3. CASE l = "unlock"
    BY <1>3, <1>6, <1>7, <1>8, <1>9, <1>10, <2>3
  <2>4. CASE l \notin {"spin1", "lock", "unlock"}
    BY <1>3, <1>6, <1>7, <1>8, <1>9, <2>4
  <2> QED
    BY <2>1, <2>2, <2>3, <2>4
<1>13. /\ \A k \in Harts \ {h} : n.pulse[k] = q.pulse[k]
       /\ \A t \in Harts : n.sent[t] = q.sent[t] + (IF n.pulse[h] = t THEN 1 ELSE 0)
  <2>0. \A t \in Harts : t # Unset
    BY DEF TwoHarts, Unset
  <2>1. CASE l = "ipi"
    <3>1. e.pulse = [q.pulse EXCEPT ![h] = Peer(h)] /\ e.sent = [q.sent EXCEPT ![Peer(h)] = @ + 1]
      BY <2>1 DEF Committed, EffectIs, Raises
    <3> QED
      BY <1>3, <1>6, <1>7, <3>1
  <2>2. CASE l = "handle"
    <3>1. e.pulse = [q.pulse EXCEPT ![h] = h] /\ e.sent = [q.sent EXCEPT ![h] = @ + 1]
      BY <2>2 DEF Committed, EffectIs, Clears
    <3> QED
      BY <1>3, <1>6, <1>7, <3>1
  <2>3. CASE l \notin {"handle", "ipi"}
    <3>1. e.pulse = q.pulse /\ e.sent = q.sent
      BY <2>3 DEF Committed, EffectIs
    <3> QED
      BY <1>6, <1>7, <2>0, <3>1
  <2> QED
    BY <2>1, <2>2, <2>3
<1>14. l = q.pc[h] => l = "work"
  <2>1. CASE trap
    <3>1. l = "handle" /\ q.at[h] \notin CallHandler
      BY <2>1 DEF Committed
    <3> QED
      BY <1>1, <1>3, <3>1 DEF Walks, CallHandler
  <2>2. CASE ~trap
    BY <1>1, <1>3, <2>2 DEF Committed, Walks
  <2> QED
    BY <2>1, <2>2
<1>15. Turn(q, n, h, m)
  BY <1>4, <1>5, <1>6, <1>11, <1>12, <1>13, <1>14 DEF Turn
<1> QED
  BY <1>2, <1>15

LEMMA HartTurn ==
  ASSUME TwoHarts, NEW g, GuestOK(g), NEW h \in Harts, NEW m \in {"stall", "hold", "step", "trap"},
         m = "trap" => g.at[h] \notin CallHandler
  PROVE  GuestOK(GuestHart(g, h, m)) /\ Turn(g, GuestHart(g, h, m), h, m)
<1>1. PICK n : n = GuestHart(g, h, m)
  OBVIOUS
<1>2. RecordOf(g, GuestFields)
  BY DEF GuestOK, GuestTypes
<1>3. CASE m \in {"stall", "hold"}
  <2>1. Rests(g, n, h, m)
    BY <1>1, <1>2, <1>3, HartRests
  <2> QED
    BY <1>1, <1>3, <2>1, RestTurn
<1>4. CASE m \in {"step", "trap"}
  <2>1. PICK q : q = Quieted(g, h)
    OBVIOUS
  <2>2. GuestOK(q) /\ q.pulse[h] = Unset
    BY <2>1, QuietedOK
  <2>3. PICK l : l = IF m = "trap" THEN "handle" ELSE g.at[h]
    OBVIOUS
  <2>4. PICK e : e = Effect(q, h, l)
    OBVIOUS
  <2>5. GuestCommits(g, e, n, h, l, m = "trap") /\ EffectIs(q, e, h, l)
    BY <1>1, <1>2, <1>4, <2>1, <2>3, <2>4, HartCommits
  <2>6. QuietIs(g, q, h)
    BY <1>2, <2>1, QuietedIs, Zenon
  <2>7. q.at = g.at /\ q.pc = g.pc /\ q.fired = g.fired /\ q.ok = g.ok /\ q.chain = g.chain /\ q.val = g.val
        /\ q.lock = g.lock /\ q.sent = g.sent
    BY <2>6 DEF QuietIs
  <2>8. l \in Labels
    BY <2>3 DEF GuestOK, GuestTypes, Labels, CallHandler
  <2>9. GuestCommits(q, e, n, h, l, m = "trap")
    BY <2>5, <2>7, Zenon DEF GuestCommits
  <2>10. Committed(q, e, n, h, l, m = "trap")
    BY <2>3, <2>5, <2>7, <2>8, <2>9 DEF Committed
  <2>11. GuestOK(n) /\ Turn(q, n, h, m)
    BY <1>4, <2>2, <2>10, CommitTurn DEF Goes
  <2>12. \A k \in Harts \ {h} : q.pulse[k] = g.pulse[k]
    <3>1. q.pulse = [g.pulse EXCEPT ![h] = Unset] /\ g.pulse \in [Harts -> Harts \cup {Unset}]
      BY <2>6 DEF QuietIs, GuestOK, GuestTypes
    <3> QED
      BY <3>1
  <2>13. Turn(g, n, h, m)
    BY <2>7, <2>11, <2>12 DEF Turn
  <2> QED
    BY <1>1, <2>11, <2>13
<1> QED
  BY <1>3, <1>4

(* A clock of both harts. *)
ClockIs(g, f, m) ==
  /\ \A h \in Harts : /\ Moved(m, h) => f.fired[h] /\ (f.pc[h] = g.pc[h] => f.pc[h] = "work")
                      /\ ~Moved(m, h) => f.pc[h] = g.pc[h]
  /\ \A t \in Harts : f.sent[t] = g.sent[t] + Cardinality({h \in Harts : f.pulse[h] = t})
  /\ (cmd.defect # "stale" /\ f.val[1] = 1 /\ f.lock[1] = 0 /\ g.lock[1] = 0) =>
       g.val[1] = 1 /\ ~(Moved(m, 1) /\ f.pc[1] = "spin1")
  /\ (Moved(m, 1) /\ f.pc[1] = "spin2") => f.val[1] = g.val[1]

LEMMA PulseCount ==
  ASSUME TwoHarts, NEW p, NEW t
  PROVE  Cardinality({h \in Harts : p[h] = t}) = (IF p[0] = t THEN 1 ELSE 0) + (IF p[1] = t THEN 1 ELSE 0)
<1>1. Cardinality({}) = 0
  BY FS_EmptySet
<1>2. Cardinality({0}) = 1 /\ Cardinality({1}) = 1
  BY FS_Singleton
<1>3. Cardinality({0, 1}) = 2
  <2>1. IsFiniteSet({0})
    BY FS_Singleton, Zenon
  <2>2. {0, 1} = {0} \cup {1} /\ 1 \notin {0}
    OBVIOUS
  <2> QED
    BY <1>2, <2>1, <2>2, FS_AddElement
<1>4. CASE p[0] = t /\ p[1] = t
  <2>1. {h \in Harts : p[h] = t} = {0, 1}
    BY <1>4 DEF TwoHarts
  <2> QED
    BY <1>3, <1>4, <2>1
<1>5. CASE p[0] = t /\ p[1] # t
  <2>1. {h \in Harts : p[h] = t} = {0}
    BY <1>5 DEF TwoHarts
  <2> QED
    BY <1>2, <1>5, <2>1
<1>6. CASE p[0] # t /\ p[1] = t
  <2>1. {h \in Harts : p[h] = t} = {1}
    BY <1>6 DEF TwoHarts
  <2> QED
    BY <1>2, <1>6, <2>1
<1>7. CASE p[0] # t /\ p[1] # t
  <2>1. {h \in Harts : p[h] = t} = {}
    BY <1>7 DEF TwoHarts
  <2> QED
    BY <1>1, <1>7, <2>1
<1> QED
  BY <1>4, <1>5, <1>6, <1>7

LEMMA TwoTurns ==
  ASSUME TwoHarts, NEW g, NEW u, NEW f, GuestOK(g), GuestOK(u), GuestOK(f), NEW m, NEW first \in Harts,
         Turn(g, u, first, m[first]), Turn(u, f, Peer(first), m[Peer(first)])
  PROVE  ClockIs(g, f, m)
<1>1. (first = 0 /\ Peer(first) = 1) \/ (first = 1 /\ Peer(first) = 0)
  BY DEF Peer, TwoHarts
<1>2. PICK s : s = Peer(first)
  OBVIOUS
<1>3. s \in Harts /\ s # first /\ Harts = {first, s} /\ {first, s} = {0, 1}
  BY <1>1, <1>2 DEF TwoHarts
<1>4. Turn(g, u, first, m[first]) /\ Turn(u, f, s, m[s])
  BY <1>2
<1>5. \A h \in Harts : Moved(m, h) <=> m[h] \in Goes
  BY DEF Moved, Goes
<1>6. ASSUME NEW h \in Harts
      PROVE  /\ Moved(m, h) => f.fired[h] /\ (f.pc[h] = g.pc[h] => f.pc[h] = "work")
             /\ ~Moved(m, h) => f.pc[h] = g.pc[h]
  <2>1. CASE h = first
    <3>1. f.fired[h] = u.fired[h] /\ f.pc[h] = u.pc[h]
      BY <1>3, <1>4, <2>1 DEF Turn
    <3> QED
      BY <1>4, <1>5, <2>1, <3>1 DEF Turn
  <2>2. CASE h = s
    <3>1. u.pc[h] = g.pc[h]
      BY <1>3, <1>4, <2>2 DEF Turn
    <3> QED
      BY <1>4, <1>5, <2>2, <3>1 DEF Turn
  <2> QED
    BY <1>3, <2>1, <2>2
<1>7. ASSUME NEW t \in Harts
      PROVE  f.sent[t] = g.sent[t] + Cardinality({h \in Harts : f.pulse[h] = t})
  <2>1. f.pulse[first] = u.pulse[first]
    BY <1>3, <1>4 DEF Turn
  <2>2. u.sent[t] = g.sent[t] + (IF f.pulse[first] = t THEN 1 ELSE 0) /\ f.sent[t] = u.sent[t] + (IF f.pulse[s] = t THEN 1 ELSE 0)
    BY <1>4, <2>1 DEF Turn
  <2>3. g.sent[t] \in Nat
    BY DEF GuestOK, GuestTypes
  <2>4. PICK c : c = Cardinality({h \in Harts : f.pulse[h] = t})
    OBVIOUS
  <2>5. c = (IF f.pulse[0] = t THEN 1 ELSE 0) + (IF f.pulse[1] = t THEN 1 ELSE 0)
    BY <2>4, PulseCount
  <2>6. f.sent[t] = g.sent[t] + c
    BY <1>1, <1>2, <2>2, <2>3, <2>5
  <2> QED
    BY <2>4, <2>6
<1>8. 1 \in Harts /\ g.lock[1] \in 0 .. 1 /\ u.lock[1] \in 0 .. 1 /\ f.lock[1] \in 0 .. 1 /\ Unset = -1
  BY DEF TwoHarts, GuestOK, GuestTypes, Unset
<1>9. CASE first = 1
  <2>1. s = 0
    BY <1>3, <1>9
  <2>2. f.val[1] = u.val[1] /\ f.lock[1] \in {u.lock[1], 0} /\ f.pc[1] = u.pc[1]
    BY <1>4, <1>8, <2>1 DEF Turn
  <2>3. /\ IF Moved(m, 1) /\ u.pc[1] = "spin1" THEN u.lock[1] = g.lock[1] /\ (cmd.defect # "stale" => u.val[1] = g.lock[1])
           ELSE u.val[1] = g.val[1] \/ (u.val[1] = Unset /\ u.pc[1] # "spin2")
        /\ u.lock[1] \in {g.lock[1], 0} \/ u.val[1] = Unset
    BY <1>4, <1>5, <1>8, <1>9 DEF Turn
  <2> QED
    BY <1>6, <1>7, <1>8, <2>2, <2>3 DEF ClockIs
<1>10. CASE first = 0
  <2>1. s = 1
    BY <1>3, <1>10
  <2>2. u.val[1] = g.val[1] /\ u.lock[1] \in {g.lock[1], 0} /\ u.pc[1] = g.pc[1]
    BY <1>4, <1>8, <1>10 DEF Turn
  <2>3. /\ IF Moved(m, 1) /\ f.pc[1] = "spin1" THEN f.lock[1] = u.lock[1] /\ (cmd.defect # "stale" => f.val[1] = u.lock[1])
           ELSE f.val[1] = u.val[1] \/ (f.val[1] = Unset /\ f.pc[1] # "spin2")
        /\ f.lock[1] \in {u.lock[1], 0} \/ f.val[1] = Unset
    BY <1>4, <1>5, <1>8, <2>1 DEF Turn
  <2> QED
    BY <1>6, <1>7, <1>8, <2>2, <2>3 DEF ClockIs
<1> QED
  BY <1>1, <1>9, <1>10

LEMMA WriteBack ==
  ASSUME TwoHarts, NEW g, NEW u, GuestOK(u), NEW m, ClockIs(g, u, m), NEW wb, NEW f,
         f = [u EXCEPT !.dram = [h \in Harts |-> IF h \in wb THEN u.lock[h] ELSE u.dram[h]]]
  PROVE  GuestOK(f) /\ ClockIs(g, f, m)
<1>1. PICK d : d = [h \in Harts |-> IF h \in wb THEN u.lock[h] ELSE u.dram[h]]
  OBVIOUS
<1>2. d \in [Harts -> 0 .. 1]
  <2>1. \A h \in Harts : u.lock[h] \in 0 .. 1 /\ u.dram[h] \in 0 .. 1
    BY DEF GuestOK, GuestTypes
  <2> QED
    BY <1>1, <2>1
<1>3. DOMAIN u = GuestFields
  BY DEF GuestOK, GuestTypes, RecordOf
<1>4. f = [u EXCEPT !.dram = d]
  BY <1>1, Zenon
<1>5. f = [x \in GuestFields |-> IF x = "dram" THEN d ELSE u[x]]
  BY <1>3, <1>4 DEF GuestFields
<1>6. RecordOf(f, GuestFields)
  BY <1>5 DEF RecordOf
<1>7. /\ f.at = u.at /\ f.ret = u.ret /\ f.msip = u.msip /\ f.res = u.res /\ f.ok = u.ok /\ f.head = u.head
      /\ f.chain = u.chain /\ f.lock = u.lock /\ f.val = u.val /\ f.dram = d /\ f.round = u.round
      /\ f.fired = u.fired /\ f.pc = u.pc /\ f.pulse = u.pulse /\ f.sent = u.sent /\ f.done = u.done
  BY <1>5 DEF GuestFields
<1>8. GuestTypes(f)
  BY <1>2, <1>6, <1>7, Zenon DEF GuestOK, GuestTypes
<1>9. SameCode(u, f)
  BY <1>7, Zenon DEF SameCode
<1>10. GuestOK(f)
  BY <1>8, <1>9, SameGuest, Zenon DEF GuestOK
<1>11. ClockIs(g, f, m)
  BY <1>7 DEF ClockIs
<1> QED
  BY <1>10, <1>11

LEMMA ClockTurn ==
  ASSUME TwoHarts, NEW g, GuestOK(g), NEW m \in [Harts -> {"stall", "hold", "step", "trap"}], NEW first \in Harts, NEW wb,
         \A h \in Harts : m[h] = "trap" => g.at[h] \notin CallHandler
  PROVE  GuestOK(GuestClock(g, m, first, wb)) /\ ClockIs(g, GuestClock(g, m, first, wb), m)
<1>1. PICK s : s = Peer(first)
  OBVIOUS
<1>2. s \in Harts /\ s # first
  BY <1>1, PeerIs
<1>3. PICK u : u = GuestHart(g, first, m[first])
  OBVIOUS
<1>4. PICK v : v = GuestHart(u, s, m[s])
  OBVIOUS
<1>5. GuestOK(u) /\ Turn(g, u, first, m[first])
  BY <1>3, HartTurn
<1>6. u.at[s] = g.at[s]
  BY <1>2, <1>5 DEF Turn
<1>7. GuestOK(v) /\ Turn(u, v, s, m[s])
  BY <1>2, <1>4, <1>5, <1>6, HartTurn
<1>8. ClockIs(g, v, m)
  BY <1>1, <1>5, <1>7, TwoTurns
<1>9. PICK f : f = GuestClock(g, m, first, wb)
  OBVIOUS
<1>10. f = [v EXCEPT !.dram = [h \in Harts |-> IF h \in wb THEN v.lock[h] ELSE v.dram[h]]]
  BY <1>1, <1>3, <1>4, <1>9, Zenon DEF GuestClock
<1>11. GuestOK(f) /\ ClockIs(g, f, m)
  BY <1>7, <1>8, <1>10, WriteBack
<1> QED
  BY <1>9, <1>11, Zenon

(* linux_llist_probe samples one hart. *)
LlistFields == {"cyc", "prev_pc_seen", "ring", "pushes", "pops", "pops_null", "live", "in_spin", "spin_since",
                "watch_prev", "watch_armed", "watch_at", "stop", "verdict"}

LlistTypes(w) ==
  /\ RecordOf(w, LlistFields) /\ w.cyc \in Nat
  /\ w.prev_pc_seen \in [Harts -> Labels \cup {"none"}]
  /\ w.pushes \in [Harts -> Nat] /\ w.pops \in [Harts -> Nat] /\ w.pops_null \in [Harts -> Nat] /\ w.live \in [Harts -> Nat]
  /\ w.in_spin \in [Harts -> BOOLEAN] /\ w.spin_since \in [Harts -> Nat]
  /\ w.watch_prev \in 0 .. 1 /\ w.watch_armed \in BOOLEAN /\ w.watch_at \in Nat

Fresh(x, g, h) == g.fired[h] /\ g.pc[h] # x.prev_pc_seen[h]
Pushed(x, g, h) == Fresh(x, g, h) /\ g.pc[h] = "pushDone" /\ g.ok[h]
Popped(x, g, h) == Fresh(x, g, h) /\ g.pc[h] = "popDone" /\ g.chain[h] # {}
PopNull(x, g, h) == Fresh(x, g, h) /\ g.pc[h] = "popDone" /\ g.chain[h] = {}

SampleIs(x, y, g, h) ==
  /\ RecordOf(y, LlistFields) /\ y.cyc = x.cyc /\ y.stop = x.stop /\ y.verdict = x.verdict
  /\ y.watch_prev = x.watch_prev /\ y.watch_armed = x.watch_armed /\ y.watch_at = x.watch_at
  /\ ~Fresh(x, g, h) => y.prev_pc_seen = x.prev_pc_seen /\ y.in_spin = x.in_spin /\ y.spin_since = x.spin_since
  /\ Fresh(x, g, h) =>
       /\ y.prev_pc_seen = [x.prev_pc_seen EXCEPT ![h] = g.pc[h]]
       /\ y.in_spin = [x.in_spin EXCEPT ![h] = (g.pc[h] \in WaitLoop)]
       /\ y.spin_since = [x.spin_since EXCEPT ![h] = IF g.pc[h] \in WaitLoop /\ ~x.in_spin[h] THEN x.cyc ELSE @]
  /\ y.pushes = IF Pushed(x, g, h) THEN [x.pushes EXCEPT ![Peer(h)] = @ + 1] ELSE x.pushes
  /\ y.pops = IF Popped(x, g, h) THEN [x.pops EXCEPT ![h] = @ + 1] ELSE x.pops
  /\ y.pops_null = IF PopNull(x, g, h) THEN [x.pops_null EXCEPT ![h] = @ + 1] ELSE x.pops_null
  /\ y.live = IF Pushed(x, g, h) THEN [x.live EXCEPT ![Peer(h)] = @ + 1]
              ELSE IF Popped(x, g, h) THEN [x.live EXCEPT ![h] = 0] ELSE x.live

LedgerIs(x, y, e) ==
  /\ RecordOf(y, LlistFields)
  /\ y.cyc = x.cyc /\ y.prev_pc_seen = x.prev_pc_seen /\ y.ring = x.ring /\ y.in_spin = x.in_spin
  /\ y.spin_since = x.spin_since /\ y.watch_prev = x.watch_prev /\ y.watch_armed = x.watch_armed
  /\ y.watch_at = x.watch_at /\ y.stop = x.stop /\ y.verdict = x.verdict
  /\ y.pushes = IF e.kind = "P" /\ e.ok THEN [x.pushes EXCEPT ![e.q] = @ + 1] ELSE x.pushes
  /\ y.pops = IF e.kind = "S" /\ e.ok THEN [x.pops EXCEPT ![e.q] = @ + 1] ELSE x.pops
  /\ y.pops_null = IF e.kind = "S" /\ ~e.ok THEN [x.pops_null EXCEPT ![e.q] = @ + 1] ELSE x.pops_null
  /\ y.live = IF e.kind = "P" /\ e.ok THEN [x.live EXCEPT ![e.q] = @ + 1]
              ELSE IF e.kind = "S" /\ e.ok THEN [x.live EXCEPT ![e.q] = 0] ELSE x.live

LEMMA LedgerOf ==
  ASSUME NEW x, RecordOf(x, LlistFields), NEW e
  PROVE  LedgerIs(x, Ledger(x, e), e)
<1>1. PICK y : y = Ledger(x, e)
  OBVIOUS
<1>2. DOMAIN x = LlistFields
  BY DEF RecordOf
<1> SUFFICES LedgerIs(x, y, e)
  BY <1>1, Zenon
<1>3. CASE e.kind = "P" /\ e.ok
  <2>1. y = [x EXCEPT !.pushes[e.q] = @ + 1, !.live[e.q] = @ + 1]
    BY <1>1, <1>3 DEF Ledger
  <2>2. y = [z \in LlistFields |-> IF z = "pushes" THEN [x.pushes EXCEPT ![e.q] = @ + 1]
                                   ELSE IF z = "live" THEN [x.live EXCEPT ![e.q] = @ + 1] ELSE x[z]]
    BY <1>2, <2>1 DEF LlistFields
  <2>3. RecordOf(y, LlistFields)
    BY <2>2 DEF RecordOf
  <2> QED
    BY <1>3, <2>2, <2>3 DEF LedgerIs, LlistFields
<1>4. CASE e.kind = "S" /\ e.ok
  <2>1. y = [x EXCEPT !.pops[e.q] = @ + 1, !.live[e.q] = 0]
    BY <1>1, <1>4 DEF Ledger
  <2>2. y = [z \in LlistFields |-> IF z = "pops" THEN [x.pops EXCEPT ![e.q] = @ + 1]
                                   ELSE IF z = "live" THEN [x.live EXCEPT ![e.q] = 0] ELSE x[z]]
    BY <1>2, <2>1 DEF LlistFields
  <2>3. RecordOf(y, LlistFields)
    BY <2>2 DEF RecordOf
  <2> QED
    BY <1>4, <2>2, <2>3 DEF LedgerIs, LlistFields
<1>5. CASE e.kind = "S" /\ ~e.ok
  <2>1. y = [x EXCEPT !.pops_null[e.q] = @ + 1]
    BY <1>1, <1>5 DEF Ledger
  <2>2. y = [z \in LlistFields |-> IF z = "pops_null" THEN [x.pops_null EXCEPT ![e.q] = @ + 1] ELSE x[z]]
    BY <1>2, <2>1 DEF LlistFields
  <2>3. RecordOf(y, LlistFields)
    BY <2>2 DEF RecordOf
  <2> QED
    BY <1>5, <2>2, <2>3 DEF LedgerIs, LlistFields
<1>6. CASE e.kind # "S" /\ ~(e.kind = "P" /\ e.ok)
  <2>1. y = x
    BY <1>1, <1>6 DEF Ledger
  <2> QED
    BY <1>6, <2>1 DEF LedgerIs
<1> QED
  BY <1>3, <1>4, <1>5, <1>6

LEMMA SampleOf ==
  ASSUME NEW x, RecordOf(x, LlistFields), NEW g, NEW h
  PROVE  SampleIs(x, SampleCommit(x, g, h), g, h)
<1>1. PICK y : y = SampleCommit(x, g, h)
  OBVIOUS
<1> SUFFICES SampleIs(x, y, g, h)
  BY <1>1, Zenon
<1>2. CASE ~Fresh(x, g, h)
  <2>1. y = x
    BY <1>1, <1>2 DEF SampleCommit, Fresh
  <2> QED
    BY <1>2, <2>1 DEF SampleIs, Pushed, Popped, PopNull
<1>3. CASE Fresh(x, g, h)
  <2>1. PICK e : e = LedgerEvent(g, h, x.cyc)
    OBVIOUS
  <2>2. PICK u : u = Ledger(x, e)
    OBVIOUS
  <2>3. LedgerIs(x, u, e)
    BY <2>2, LedgerOf
  <2>4. PICK r : r = Keep(u.ring, e)
    OBVIOUS
  <2>5. PICK in : in = (g.pc[h] \in WaitLoop)
    OBVIOUS
  <2>6. PICK v : v = [u EXCEPT !.prev_pc_seen[h] = g.pc[h], !.ring = r]
    OBVIOUS
  <2>7. y = Spin(v, h, in, x.cyc)
    BY <1>1, <1>3, <2>1, <2>2, <2>4, <2>5, <2>6 DEF SampleCommit, Fresh
  <2>8. DOMAIN u = LlistFields
    BY <2>3 DEF LedgerIs, RecordOf
  <2>9. v = [z \in LlistFields |-> IF z = "prev_pc_seen" THEN [u.prev_pc_seen EXCEPT ![h] = g.pc[h]]
                                   ELSE IF z = "ring" THEN r ELSE u[z]]
    BY <2>6, <2>8 DEF LlistFields
  <2>10. v.in_spin = u.in_spin /\ v.spin_since = u.spin_since /\ DOMAIN v = LlistFields
    BY <2>9 DEF LlistFields
  <2>11. y = [v EXCEPT !.spin_since[h] = IF in /\ ~v.in_spin[h] THEN x.cyc ELSE @, !.in_spin[h] = in]
    BY <2>7 DEF Spin
  <2>12. y = [z \in LlistFields |-> IF z = "spin_since" THEN [v.spin_since EXCEPT ![h] = IF in /\ ~v.in_spin[h] THEN x.cyc ELSE @]
                                    ELSE IF z = "in_spin" THEN [v.in_spin EXCEPT ![h] = in] ELSE v[z]]
    BY <2>10, <2>11 DEF LlistFields
  <2>13. RecordOf(y, LlistFields)
    BY <2>12 DEF RecordOf
  <2>14. /\ y.cyc = u.cyc /\ y.stop = u.stop /\ y.verdict = u.verdict /\ y.watch_prev = u.watch_prev
         /\ y.watch_armed = u.watch_armed /\ y.watch_at = u.watch_at
         /\ y.pushes = u.pushes /\ y.pops = u.pops /\ y.pops_null = u.pops_null /\ y.live = u.live
         /\ y.prev_pc_seen = [u.prev_pc_seen EXCEPT ![h] = g.pc[h]]
    BY <2>9, <2>12 DEF LlistFields
  <2>15. /\ y.in_spin = [u.in_spin EXCEPT ![h] = in]
         /\ y.spin_since = [u.spin_since EXCEPT ![h] = IF in /\ ~u.in_spin[h] THEN x.cyc ELSE @]
    BY <2>10, <2>12 DEF LlistFields
  <2>16. /\ (e.kind = "P" <=> g.pc[h] = "pushDone") /\ (e.kind = "S" <=> g.pc[h] = "popDone")
         /\ e.kind = "P" => e.q = Peer(h) /\ (e.ok <=> g.ok[h])
         /\ e.kind = "S" => e.q = h /\ (e.ok <=> g.chain[h] # {})
    BY <2>1 DEF LedgerEvent
  <2>17. /\ e.kind = "P" /\ e.ok <=> Pushed(x, g, h)
         /\ e.kind = "S" /\ e.ok <=> Popped(x, g, h)
         /\ e.kind = "S" /\ ~e.ok <=> PopNull(x, g, h)
    BY <1>3, <2>16 DEF Pushed, Popped, PopNull
  <2>18. /\ y.pushes = IF Pushed(x, g, h) THEN [x.pushes EXCEPT ![Peer(h)] = @ + 1] ELSE x.pushes
         /\ y.pops = IF Popped(x, g, h) THEN [x.pops EXCEPT ![h] = @ + 1] ELSE x.pops
         /\ y.pops_null = IF PopNull(x, g, h) THEN [x.pops_null EXCEPT ![h] = @ + 1] ELSE x.pops_null
    BY <2>3, <2>14, <2>16, <2>17, Zenon DEF LedgerIs
  <2>19. y.live = IF Pushed(x, g, h) THEN [x.live EXCEPT ![Peer(h)] = @ + 1]
                  ELSE IF Popped(x, g, h) THEN [x.live EXCEPT ![h] = 0] ELSE x.live
    BY <2>3, <2>14, <2>16, <2>17, Zenon DEF LedgerIs
  <2>20. y.prev_pc_seen = [x.prev_pc_seen EXCEPT ![h] = g.pc[h]]
    BY <2>3, <2>14, Zenon DEF LedgerIs
  <2>21. /\ y.in_spin = [x.in_spin EXCEPT ![h] = (g.pc[h] \in WaitLoop)]
         /\ y.spin_since = [x.spin_since EXCEPT ![h] = IF g.pc[h] \in WaitLoop /\ ~x.in_spin[h] THEN x.cyc ELSE @]
    BY <2>3, <2>5, <2>15, Zenon DEF LedgerIs
  <2>22. /\ y.cyc = x.cyc /\ y.stop = x.stop /\ y.verdict = x.verdict /\ y.watch_prev = x.watch_prev
         /\ y.watch_armed = x.watch_armed /\ y.watch_at = x.watch_at
    BY <2>3, <2>14, Zenon DEF LedgerIs
  <2> QED
    BY <1>3, <2>13, <2>18, <2>19, <2>20, <2>21, <2>22, Zenon DEF SampleIs
<1> QED
  BY <1>2, <1>3, Zenon

(* A sample is fresh just when its hart has moved, but for idle work. *)
Faithful(x, g, m, h) ==
  (Fresh(x, g, h) => Moved(m, h)) /\ (Moved(m, h) => g.fired[h]) /\ (Moved(m, h) /\ ~Fresh(x, g, h) => g.pc[h] = "work")

LEMMA LedgerStep ==
  ASSUME TwoHarts, NEW x, NEW y, NEW g, NEW m, NEW obs, NEW h \in Harts, LlistTypes(x), LedgerMem(x, obs),
         SampleIs(x, y, g, h), Faithful(x, g, m, h)
  PROVE  LedgerMem(y, Noted(obs, m, g, h))
<1> USE PeerIs
<1>1. Peer(h) \in Harts /\ Peer(h) # h
  OBVIOUS
<1>2. PICK new : new = Noted(obs, m, g, h)
  OBVIOUS
<1>3. /\ Pushed(x, g, h) <=> Moved(m, h) /\ g.pc[h] = "pushDone" /\ g.ok[h]
      /\ Popped(x, g, h) <=> Moved(m, h) /\ g.pc[h] = "popDone" /\ g.chain[h] # {}
      /\ PopNull(x, g, h) <=> Moved(m, h) /\ g.pc[h] = "popDone" /\ g.chain[h] = {}
  BY DEF Faithful, Pushed, Popped, PopNull
<1>4. /\ x.pushes \in [Harts -> Nat] /\ x.pops \in [Harts -> Nat] /\ x.pops_null \in [Harts -> Nat] /\ x.live \in [Harts -> Nat]
  BY DEF LlistTypes
<1>5. \A q \in Harts : /\ obs[q] \in Seq(Seen3)
                       /\ x.pushes[q] = Cardinality(Places("push", obs[q]))
                       /\ x.pops[q] = Cardinality(Places("pop", obs[q]))
                       /\ x.pops_null[q] = Cardinality(Places("null", obs[q]))
                       /\ x.live[q] = Cardinality(Unclaimed(obs[q]))
  BY DEF LedgerMem
<1>6. /\ y.pushes = IF Pushed(x, g, h) THEN [x.pushes EXCEPT ![Peer(h)] = @ + 1] ELSE x.pushes
      /\ y.pops = IF Popped(x, g, h) THEN [x.pops EXCEPT ![h] = @ + 1] ELSE x.pops
      /\ y.pops_null = IF PopNull(x, g, h) THEN [x.pops_null EXCEPT ![h] = @ + 1] ELSE x.pops_null
      /\ y.live = IF Pushed(x, g, h) THEN [x.live EXCEPT ![Peer(h)] = @ + 1]
                  ELSE IF Popped(x, g, h) THEN [x.live EXCEPT ![h] = 0] ELSE x.live
  BY Zenon DEF SampleIs
<1>7. "push" \in Seen3 /\ "pop" \in Seen3 /\ "null" \in Seen3
  BY DEF Seen3
<1>8. ASSUME NEW q \in Harts
      PROVE  /\ new[q] \in Seq(Seen3)
             /\ y.pushes[q] = Cardinality(Places("push", new[q]))
             /\ y.pops[q] = Cardinality(Places("pop", new[q]))
             /\ y.pops_null[q] = Cardinality(Places("null", new[q]))
             /\ y.live[q] = Cardinality(Unclaimed(new[q]))
  <2>1. PICK s \in Seq(Seen3) : s = obs[q]
    BY <1>5
  <2>2. /\ x.pushes[q] = Cardinality(Places("push", s)) /\ x.pops[q] = Cardinality(Places("pop", s))
        /\ x.pops_null[q] = Cardinality(Places("null", s)) /\ x.live[q] = Cardinality(Unclaimed(s))
    BY <1>5, <2>1
  <2>3. CASE Pushed(x, g, h) /\ q = Peer(h)
    <3>1. new[q] = Append(s, "push")
      BY <1>2, <1>3, <2>1, <2>3 DEF Noted
    <3>2. ~Popped(x, g, h) /\ ~PopNull(x, g, h)
      BY <1>3, <2>3
    <3>3. y.pushes[q] = x.pushes[q] + 1 /\ y.live[q] = x.live[q] + 1 /\ y.pops[q] = x.pops[q]
          /\ y.pops_null[q] = x.pops_null[q]
      BY <1>4, <1>6, <2>3, <3>2
    <3>4. /\ Cardinality(Places("push", Append(s, "push"))) = Cardinality(Places("push", s)) + 1
          /\ Cardinality(Places("pop", Append(s, "push"))) = Cardinality(Places("pop", s))
          /\ Cardinality(Places("null", Append(s, "push"))) = Cardinality(Places("null", s))
      BY <1>7, PlacesAppend
    <3>5. Cardinality(Unclaimed(Append(s, "push"))) = Cardinality(Unclaimed(s)) + 1
      BY <1>7, UnclaimedAppend
    <3>6. Append(s, "push") \in Seq(Seen3)
      BY <1>7
    <3> QED
      BY <2>2, <3>1, <3>3, <3>4, <3>5, <3>6
  <2>4. CASE Popped(x, g, h) /\ q = h
    <3>1. new[q] = Append(s, "pop")
      BY <1>1, <1>2, <1>3, <2>1, <2>4 DEF Noted
    <3>2. ~Pushed(x, g, h) /\ ~PopNull(x, g, h)
      BY <1>3, <2>4
    <3>3. y.pushes[q] = x.pushes[q] /\ y.live[q] = 0 /\ y.pops[q] = x.pops[q] + 1 /\ y.pops_null[q] = x.pops_null[q]
      BY <1>4, <1>6, <2>4, <3>2
    <3>4. /\ Cardinality(Places("push", Append(s, "pop"))) = Cardinality(Places("push", s))
          /\ Cardinality(Places("pop", Append(s, "pop"))) = Cardinality(Places("pop", s)) + 1
          /\ Cardinality(Places("null", Append(s, "pop"))) = Cardinality(Places("null", s))
      BY <1>7, PlacesAppend
    <3>5. Cardinality(Unclaimed(Append(s, "pop"))) = 0
      BY <1>7, UnclaimedAppend
    <3>6. Append(s, "pop") \in Seq(Seen3)
      BY <1>7
    <3> QED
      BY <2>2, <3>1, <3>3, <3>4, <3>5, <3>6
  <2>5. CASE PopNull(x, g, h) /\ q = h
    <3>1. new[q] = Append(s, "null")
      BY <1>1, <1>2, <1>3, <2>1, <2>5 DEF Noted
    <3>2. ~Pushed(x, g, h) /\ ~Popped(x, g, h)
      BY <1>3, <2>5
    <3>3. y.pushes[q] = x.pushes[q] /\ y.live[q] = x.live[q] /\ y.pops[q] = x.pops[q]
          /\ y.pops_null[q] = x.pops_null[q] + 1
      BY <1>4, <1>6, <2>5, <3>2
    <3>4. /\ Cardinality(Places("push", Append(s, "null"))) = Cardinality(Places("push", s))
          /\ Cardinality(Places("pop", Append(s, "null"))) = Cardinality(Places("pop", s))
          /\ Cardinality(Places("null", Append(s, "null"))) = Cardinality(Places("null", s)) + 1
      BY <1>7, PlacesAppend
    <3>5. Cardinality(Unclaimed(Append(s, "null"))) = Cardinality(Unclaimed(s))
      BY <1>7, UnclaimedAppend
    <3>6. Append(s, "null") \in Seq(Seen3)
      BY <1>7
    <3> QED
      BY <2>2, <3>1, <3>3, <3>4, <3>5, <3>6
  <2>6. CASE ~(Pushed(x, g, h) /\ q = Peer(h)) /\ ~(Popped(x, g, h) /\ q = h) /\ ~(PopNull(x, g, h) /\ q = h)
    <3>1. new[q] = s
      BY <1>2, <1>3, <2>1, <2>6 DEF Noted
    <3>2. y.pushes[q] = x.pushes[q] /\ y.live[q] = x.live[q] /\ y.pops[q] = x.pops[q]
          /\ y.pops_null[q] = x.pops_null[q]
      BY <1>4, <1>6, <2>6
    <3> QED
      BY <2>2, <3>1, <3>2
  <2> QED
    BY <2>3, <2>4, <2>5, <2>6
<1> QED
  BY <1>2, <1>8 DEF LedgerMem

(* What a sample leaves of the wait of a hart. *)
SpinMem(x, h, pc, wait) ==
  /\ x.prev_pc_seen[h] = pc /\ (x.in_spin[h] <=> pc \in WaitLoop) /\ (wait # Unset <=> pc \in WaitLoop)
  /\ x.in_spin[h] => wait = x.spin_since[h]

LEMMA SampleTypes ==
  ASSUME TwoHarts, NEW x, NEW y, NEW g, NEW h \in Harts, LlistTypes(x), GuestOK(g), SampleIs(x, y, g, h)
  PROVE  LlistTypes(y)
<1> USE PeerIs
<1>1. Peer(h) \in Harts /\ g.pc[h] \in Labels \cup {"none"} /\ x.cyc \in Nat
  BY DEF GuestOK, GuestTypes, LlistTypes
<1>2. y.prev_pc_seen \in [Harts -> Labels \cup {"none"}]
  <2>1. x.prev_pc_seen \in [Harts -> Labels \cup {"none"}]
        /\ (y.prev_pc_seen = x.prev_pc_seen \/ y.prev_pc_seen = [x.prev_pc_seen EXCEPT ![h] = g.pc[h]])
    BY DEF LlistTypes, SampleIs
  <2> QED
    BY <1>1, <2>1
<1>3. y.in_spin \in [Harts -> BOOLEAN]
  <2>1. PICK b : b = (g.pc[h] \in WaitLoop)
    OBVIOUS
  <2>2. b \in BOOLEAN
    BY <2>1
  <2>3. x.in_spin \in [Harts -> BOOLEAN] /\ (y.in_spin = x.in_spin \/ y.in_spin = [x.in_spin EXCEPT ![h] = b])
    BY <2>1, Zenon DEF LlistTypes, SampleIs
  <2> QED
    BY <2>2, <2>3
<1>4. y.spin_since \in [Harts -> Nat]
  <2>1. x.spin_since \in [Harts -> Nat]
        /\ (y.spin_since = x.spin_since
            \/ y.spin_since = [x.spin_since EXCEPT ![h] = IF g.pc[h] \in WaitLoop /\ ~x.in_spin[h] THEN x.cyc ELSE @])
    BY DEF LlistTypes, SampleIs
  <2> QED
    BY <1>1, <2>1
<1>5. /\ y.pushes \in [Harts -> Nat] /\ y.pops \in [Harts -> Nat] /\ y.pops_null \in [Harts -> Nat]
  <2>1. x.pushes \in [Harts -> Nat] /\ x.pops \in [Harts -> Nat] /\ x.pops_null \in [Harts -> Nat]
    BY DEF LlistTypes
  <2>2. /\ y.pushes = x.pushes \/ y.pushes = [x.pushes EXCEPT ![Peer(h)] = @ + 1]
        /\ y.pops = x.pops \/ y.pops = [x.pops EXCEPT ![h] = @ + 1]
        /\ y.pops_null = x.pops_null \/ y.pops_null = [x.pops_null EXCEPT ![h] = @ + 1]
    BY Zenon DEF SampleIs
  <2> QED
    BY <1>1, <2>1, <2>2
<1>6. y.live \in [Harts -> Nat]
  <2>1. x.live \in [Harts -> Nat]
    BY DEF LlistTypes
  <2>2. y.live = x.live \/ y.live = [x.live EXCEPT ![Peer(h)] = @ + 1] \/ y.live = [x.live EXCEPT ![h] = 0]
    BY Zenon DEF SampleIs
  <2> QED
    BY <1>1, <2>1, <2>2
<1> QED
  BY <1>2, <1>3, <1>4, <1>5, <1>6, Zenon DEF LlistTypes, SampleIs

LEMMA SpinStep ==
  ASSUME NEW x, NEW y, NEW g, NEW m, NEW h \in Harts, LlistTypes(x), SampleIs(x, y, g, h), Faithful(x, g, m, h),
         NEW pc, NEW wait \in Int, SpinMem(x, h, pc, wait), ~Moved(m, h) => g.pc[h] = pc, NEW new,
         new = IF ~Moved(m, h) THEN wait ELSE IF g.pc[h] \notin WaitLoop THEN Unset ELSE IF wait = Unset THEN x.cyc ELSE wait
  PROVE  /\ SpinMem(y, h, g.pc[h], new)
         /\ \A k \in Harts \ {h} : \A p, t : SpinMem(x, k, p, t) => SpinMem(y, k, p, t)
<1>1. /\ x.prev_pc_seen \in [Harts -> Labels \cup {"none"}] /\ x.in_spin \in [Harts -> BOOLEAN]
      /\ x.spin_since \in [Harts -> Nat] /\ x.cyc \in Nat /\ Unset = -1
  BY DEF LlistTypes, Unset
<1>2. x.prev_pc_seen[h] = pc /\ (x.in_spin[h] <=> pc \in WaitLoop) /\ (wait # Unset <=> pc \in WaitLoop)
      /\ (x.in_spin[h] => wait = x.spin_since[h])
  BY DEF SpinMem
<1>3. CASE Fresh(x, g, h)
  <2>1. /\ y.prev_pc_seen = [x.prev_pc_seen EXCEPT ![h] = g.pc[h]]
        /\ y.in_spin = [x.in_spin EXCEPT ![h] = (g.pc[h] \in WaitLoop)]
        /\ y.spin_since = [x.spin_since EXCEPT ![h] = IF g.pc[h] \in WaitLoop /\ ~x.in_spin[h] THEN x.cyc ELSE @]
    BY <1>3, Zenon DEF SampleIs
  <2>2. y.prev_pc_seen[h] = g.pc[h] /\ (y.in_spin[h] <=> g.pc[h] \in WaitLoop)
        /\ y.spin_since[h] = IF g.pc[h] \in WaitLoop /\ ~x.in_spin[h] THEN x.cyc ELSE x.spin_since[h]
    BY <1>1, <2>1
  <2>3. Moved(m, h)
    BY <1>3 DEF Faithful
  <2>4. SpinMem(y, h, g.pc[h], new)
    BY <1>1, <1>2, <2>2, <2>3 DEF SpinMem
  <2>5. \A k \in Harts \ {h} : y.prev_pc_seen[k] = x.prev_pc_seen[k] /\ y.in_spin[k] = x.in_spin[k] /\ y.spin_since[k] = x.spin_since[k]
    BY <1>1, <2>1
  <2> QED
    BY <2>4, <2>5 DEF SpinMem
<1>4. CASE ~Fresh(x, g, h)
  <2>1. y.prev_pc_seen = x.prev_pc_seen /\ y.in_spin = x.in_spin /\ y.spin_since = x.spin_since
    BY <1>4 DEF SampleIs
  <2>2. g.pc[h] = pc
    <3>1. CASE Moved(m, h)
      <4>1. g.fired[h] /\ (g.fired[h] => g.pc[h] = pc)
        BY <1>2, <1>4, <3>1 DEF Faithful, Fresh
      <4> QED
        BY <4>1
    <3> QED
      BY <3>1
  <2>3. Moved(m, h) => pc \notin WaitLoop
    BY <1>4, <2>2 DEF Faithful, WaitLoop
  <2>4. new = wait
    BY <1>2, <2>2, <2>3
  <2> QED
    BY <1>2, <2>1, <2>2, <2>4 DEF SpinMem
<1> QED
  BY <1>3, <1>4

(* What the clock adds to what really happened, field by field. *)
SeenFields == {"obs", "wait", "flagAt", "flag", "pendAt", "readAt", "clearAt", "read", "replays", "kills"}

Watched(g) == IF IsLlist /\ cmd.watch # Unset THEN g.dram[cmd.watch] ELSE 0
Waited(o, m, g, h, clk, last) ==
  IF last \/ ~Moved(m, h) THEN o.wait[h]
  ELSE IF g.pc[h] \notin WaitLoop THEN Unset ELSE IF o.wait[h] = Unset THEN clk ELSE o.wait[h]
Did(m, g, l, last) == Moved(m, 1) /\ g.pc[1] = l /\ ~last

ObserveIs(o, p, m, g, clk, last) ==
  /\ RecordOf(p, SeenFields)
  /\ p.obs = IF last THEN o.obs ELSE Noted(Noted(o.obs, m, g, 0), m, g, 1)
  /\ p.wait = [h \in Harts |-> Waited(o, m, g, h, clk, last)]
  /\ p.flag = IF ~last /\ Watched(g) # o.flag THEN Watched(g) ELSE o.flag
  /\ p.flagAt = IF ~last /\ Watched(g) # o.flag THEN clk ELSE o.flagAt
  /\ p.read = IF Did(m, g, "spin2", last) THEN o.read \cup {g.val[1]} ELSE o.read
  /\ p.pendAt = IF Did(m, g, "spin1", last) THEN clk ELSE o.pendAt
  /\ p.readAt = IF Did(m, g, "spin2", last) THEN o.pendAt ELSE o.readAt
  /\ p.clearAt = IF g.lock[1] = 0 /\ xg.lock[1] = 1 THEN clk ELSE o.clearAt
  /\ p.replays = o.replays /\ p.kills = o.kills

LEMMA ObserveOf ==
  ASSUME NEW o, RecordOf(o, SeenFields), NEW m, NEW g, NEW clk, NEW last
  PROVE  ObserveIs(o, Observe(o, m, g, clk, last), m, g, clk, last)
<1>1. PICK p : p = Observe(o, m, g, clk, last)
  OBVIOUS
<1> SUFFICES ObserveIs(o, p, m, g, clk, last)
  BY <1>1, Zenon
<1>2. DOMAIN o = SeenFields
  BY DEF RecordOf
<1>3. PICK a : a = IF last THEN o.obs ELSE Noted(Noted(o.obs, m, g, 0), m, g, 1)
  OBVIOUS
<1>4. PICK b : b = [h \in Harts |-> Waited(o, m, g, h, clk, last)]
  OBVIOUS
<1>5. PICK c : c = IF ~last /\ Watched(g) # o.flag THEN Watched(g) ELSE o.flag
  OBVIOUS
<1>6. PICK d : d = IF ~last /\ Watched(g) # o.flag THEN clk ELSE o.flagAt
  OBVIOUS
<1>7. PICK e : e = IF Did(m, g, "spin2", last) THEN o.read \cup {g.val[1]} ELSE o.read
  OBVIOUS
<1>8. PICK i : i = IF Did(m, g, "spin1", last) THEN clk ELSE o.pendAt
  OBVIOUS
<1>9. PICK j : j = IF Did(m, g, "spin2", last) THEN o.pendAt ELSE o.readAt
  OBVIOUS
<1>10. PICK k : k = IF g.lock[1] = 0 /\ xg.lock[1] = 1 THEN clk ELSE o.clearAt
  OBVIOUS
<1>11. p = [o EXCEPT !.obs = a, !.wait = b, !.flag = c, !.flagAt = d, !.read = e, !.pendAt = i, !.readAt = j,
                     !.clearAt = k]
  BY <1>1, <1>3, <1>4, <1>5, <1>6, <1>7, <1>8, <1>9, <1>10, ZenonT(40) DEF Observe, Waited, Watched, Did
<1>12. p = [z \in SeenFields |-> IF z = "obs" THEN a ELSE IF z = "wait" THEN b ELSE IF z = "flag" THEN c
             ELSE IF z = "flagAt" THEN d ELSE IF z = "read" THEN e ELSE IF z = "pendAt" THEN i
             ELSE IF z = "readAt" THEN j ELSE IF z = "clearAt" THEN k ELSE o[z]]
  BY <1>2, <1>11 DEF SeenFields
<1>13. RecordOf(p, SeenFields)
  BY <1>12 DEF RecordOf
<1>14. /\ p.obs = a /\ p.wait = b /\ p.flag = c /\ p.flagAt = d /\ p.read = e /\ p.pendAt = i /\ p.readAt = j /\ p.clearAt = k
       /\ p.replays = o.replays /\ p.kills = o.kills
  BY <1>12 DEF SeenFields
<1> QED
  BY <1>3, <1>4, <1>5, <1>6, <1>7, <1>8, <1>9, <1>10, <1>13, <1>14, Zenon DEF ObserveIs

(* The watched flag and the hang, field by field. *)
SameLedger(x, y) ==
  /\ RecordOf(y, LlistFields) /\ y.cyc = x.cyc /\ y.prev_pc_seen = x.prev_pc_seen /\ y.in_spin = x.in_spin
  /\ y.spin_since = x.spin_since /\ y.pushes = x.pushes /\ y.pops = x.pops /\ y.pops_null = x.pops_null
  /\ y.live = x.live

SameFlag(x, y) == y.watch_prev = x.watch_prev /\ y.watch_armed = x.watch_armed /\ y.watch_at = x.watch_at

FlagIs(x, y, f) ==
  /\ SameLedger(x, y) /\ y.verdict = x.verdict /\ y.watch_prev = f
  /\ y.watch_armed = IF f = x.watch_prev THEN x.watch_armed ELSE (f = 1)
  /\ y.watch_at = IF f # x.watch_prev /\ f = 1 THEN x.cyc ELSE x.watch_at
  /\ y.stop = IF y.watch_armed /\ y.cyc - y.watch_at > cmd.tail THEN "watch" ELSE x.stop

LEMMA FlagOf ==
  ASSUME NEW x, LlistTypes(x), NEW f \in 0 .. 1
  PROVE  FlagIs(x, FlagWatch(x, f), f)
<1>1. PICK y : y = FlagWatch(x, f)
  OBVIOUS
<1> SUFFICES FlagIs(x, y, f)
  BY <1>1, Zenon
<1>2. RecordOf(x, LlistFields) /\ DOMAIN x = LlistFields /\ x.watch_armed \in BOOLEAN
  BY DEF LlistTypes, RecordOf
<1>3. PICK b \in BOOLEAN : b <=> f = 1
  OBVIOUS
<1>4. PICK u : u = IF f = x.watch_prev THEN x
                   ELSE [x EXCEPT !.watch_prev = f, !.watch_armed = b, !.watch_at = IF f = 1 THEN x.cyc ELSE @]
  OBVIOUS
<1>5. b = (f = 1)
  BY <1>3
<1>6. y = IF u.watch_armed /\ u.cyc - u.watch_at > cmd.tail THEN [u EXCEPT !.stop = "watch"] ELSE u
  BY <1>1, <1>4, <1>5, Zenon DEF FlagWatch
<1>7. /\ SameLedger(x, u) /\ u.verdict = x.verdict /\ u.watch_prev = f /\ u.stop = x.stop
      /\ u.watch_armed = IF f = x.watch_prev THEN x.watch_armed ELSE b
      /\ u.watch_at = IF f # x.watch_prev /\ f = 1 THEN x.cyc ELSE x.watch_at
  <2>1. CASE f = x.watch_prev
    BY <1>2, <1>4, <2>1 DEF SameLedger
  <2>2. CASE f # x.watch_prev
    <3>1. PICK t : t = IF f = 1 THEN x.cyc ELSE x.watch_at
      OBVIOUS
    <3>2. u = [x EXCEPT !.watch_prev = f, !.watch_armed = b, !.watch_at = t]
      BY <1>4, <2>2, <3>1
    <3>3. u = [z \in LlistFields |-> IF z = "watch_prev" THEN f ELSE IF z = "watch_armed" THEN b
                                     ELSE IF z = "watch_at" THEN t ELSE x[z]]
      BY <1>2, <3>2 DEF LlistFields
    <3>4. RecordOf(u, LlistFields)
      BY <3>3 DEF RecordOf
    <3> QED
      BY <2>2, <3>1, <3>3, <3>4 DEF SameLedger, LlistFields
  <2> QED
    BY <2>1, <2>2
<1>8. DOMAIN u = LlistFields
  BY <1>7 DEF SameLedger, RecordOf
<1>9. CASE u.watch_armed /\ u.cyc - u.watch_at > cmd.tail
  <2>1. y = [z \in LlistFields |-> IF z = "stop" THEN "watch" ELSE u[z]]
    BY <1>6, <1>8, <1>9 DEF LlistFields
  <2>2. RecordOf(y, LlistFields)
    BY <2>1 DEF RecordOf
  <2>3. SameLedger(u, y) /\ SameFlag(u, y) /\ y.verdict = u.verdict /\ y.stop = "watch"
    BY <2>1, <2>2 DEF SameLedger, SameFlag, LlistFields
  <2> QED
    BY <1>5, <1>7, <1>9, <2>2, <2>3, Zenon DEF FlagIs, SameLedger, SameFlag
<1>10. CASE ~(u.watch_armed /\ u.cyc - u.watch_at > cmd.tail)
  <2>1. y = u
    BY <1>6, <1>10
  <2> QED
    BY <1>5, <1>7, <1>10, <2>1, Zenon DEF FlagIs
<1> QED
  BY <1>9, <1>10

HangIs(x, y) ==
  /\ SameLedger(x, y) /\ SameFlag(x, y) /\ y.verdict = x.verdict
  /\ y.stop = IF x.stop = "none" /\ \E h \in Harts : x.in_spin[h] /\ x.cyc - x.spin_since[h] > cmd.hang
              THEN "hang" ELSE x.stop

LEMMA HangOf ==
  ASSUME NEW x, RecordOf(x, LlistFields)
  PROVE  HangIs(x, HangCheck(x))
<1>1. PICK y : y = HangCheck(x)
  OBVIOUS
<1> SUFFICES HangIs(x, y)
  BY <1>1, Zenon
<1>2. DOMAIN x = LlistFields
  BY DEF RecordOf
<1>3. PICK late \in BOOLEAN : late <=> (x.stop = "none" /\ \E h \in Harts : x.in_spin[h] /\ x.cyc - x.spin_since[h] > cmd.hang)
  OBVIOUS
<1>4. y = IF late THEN [x EXCEPT !.stop = "hang"] ELSE x
  BY <1>1, <1>3 DEF HangCheck
<1>5. SameLedger(x, y) /\ SameFlag(x, y) /\ y.verdict = x.verdict /\ y.stop = IF late THEN "hang" ELSE x.stop
  <2>1. CASE late
    <3>1. y = [z \in LlistFields |-> IF z = "stop" THEN "hang" ELSE x[z]]
      BY <1>2, <1>4, <2>1 DEF LlistFields
    <3>2. RecordOf(y, LlistFields)
      BY <3>1 DEF RecordOf
    <3> QED
      BY <2>1, <3>1, <3>2 DEF SameLedger, SameFlag, LlistFields
  <2>2. CASE ~late
    BY <1>4, <2>2 DEF SameLedger, SameFlag
  <2> QED
    BY <2>1, <2>2
<1> QED
  BY <1>3, <1>5 DEF HangIs

(* What linux_llist_probe remembers: the waits and the watched flag. *)
Watching(w, o) ==
  w.watch_prev = o.flag /\ (w.watch_armed <=> o.flag = 1) /\ (w.watch_armed => w.watch_at = o.flagAt)
Spinning(w, g, o) == \A h \in Harts : SpinMem(w, h, g.pc[h], o.wait[h])

WaitsLong(w, o, h) == o.wait[h] # Unset /\ w.cyc - o.wait[h] > cmd.hang
LockedLong(w, o) == o.flag = 1 /\ w.cyc - o.flagAt > cmd.tail
StopsRight(w, o) ==
  /\ w.stop = "none" => ~LockedLong(w, o) /\ \A h \in Harts : ~WaitsLong(w, o, h)
  /\ w.stop = "watch" => LockedLong(w, o)
  /\ w.stop = "hang" => ~LockedLong(w, o) /\ \E h \in Harts : WaitsLong(w, o, h)

LlistInv(w, g, o) ==
  /\ LlistTypes(w) /\ LedgerMem(w, o.obs) /\ (cmd.watch = Unset => o.flag = 0)
  /\ w.stop = "none" => Spinning(w, g, o) /\ Watching(w, o) /\ w.verdict = "none"

SeenTypes(o) ==
  /\ RecordOf(o, SeenFields) /\ o.wait \in [Harts -> Int] /\ o.flag \in 0 .. 1 /\ o.flagAt \in Int
  /\ o.pendAt \in Int /\ o.readAt \in Int /\ o.clearAt \in Int /\ o.replays \in [Harts -> Nat]
  /\ o.read \subseteq {Unset, 0, 1}

CrossArgs ==
  /\ TwoHarts /\ cmd.watch \in {Unset, 0, 1} /\ cmd.hang \in Nat /\ cmd.tail \in Nat /\ cmd.keep \in Nat
  /\ cmd.run \in Nat /\ cmd.every \in Nat \ {0} /\ cmd.report \in Nat \ {0}

LEMMA ObserveTypes ==
  ASSUME CrossArgs, NEW o, NEW p, NEW m, NEW g, NEW clk \in Nat, NEW last, SeenTypes(o), GuestOK(g),
         ObserveIs(o, p, m, g, clk, last)
  PROVE  SeenTypes(p) /\ Watched(g) \in 0 .. 1 /\ (IsLlist /\ cmd.watch = Unset => Watched(g) = 0)
<1>1. Unset = -1 /\ Harts = {0, 1} /\ g.dram \in [Harts -> 0 .. 1] /\ g.val \in [Harts -> {Unset, 0, 1}]
  BY DEF Unset, CrossArgs, TwoHarts, GuestOK, GuestTypes
<1>2. Watched(g) \in 0 .. 1 /\ (IsLlist /\ cmd.watch = Unset => Watched(g) = 0)
  BY <1>1 DEF Watched, CrossArgs
<1>3. PICK f \in 0 .. 1 : f = Watched(g)
  BY <1>2
<1>4. p.flag \in 0 .. 1 /\ p.flagAt \in Int
  BY <1>3 DEF ObserveIs, SeenTypes
<1>5. p.wait \in [Harts -> Int]
  <2>1. \A h \in Harts : Waited(o, m, g, h, clk, last) \in Int
    BY <1>1 DEF Waited, SeenTypes
  <2> QED
    BY <2>1 DEF ObserveIs
<1>6. p.pendAt \in Int /\ p.readAt \in Int /\ p.clearAt \in Int /\ p.replays \in [Harts -> Nat]
  BY DEF ObserveIs, SeenTypes
<1>7. p.read \subseteq {Unset, 0, 1}
  <2>1. g.val[1] \in {Unset, 0, 1} /\ o.read \subseteq {Unset, 0, 1} /\ (p.read = o.read \/ p.read = o.read \cup {g.val[1]})
    BY <1>1 DEF ObserveIs, SeenTypes
  <2> QED
    BY <2>1
<1>8. RecordOf(p, SeenFields)
  BY DEF ObserveIs
<1> QED
  BY <1>2, <1>4, <1>5, <1>6, <1>7, <1>8 DEF SeenTypes

KeepsOthers(x, y, h) == \A k \in Harts \ {h} : \A pc, t : SpinMem(x, k, pc, t) => SpinMem(y, k, pc, t)

(* One sample, for a hart whose wait was right before the clock. *)
LEMMA WaitStep ==
  ASSUME NEW x, NEW y, NEW g, NEW f, NEW m, NEW o, NEW p, NEW h \in Harts, LlistTypes(x), SampleIs(x, y, f, h),
         Faithful(x, f, m, h), SeenTypes(o), ClockIs(g, f, m), SpinMem(x, h, g.pc[h], o.wait[h]),
         ObserveIs(o, p, m, f, x.cyc, FALSE)
  PROVE  SpinMem(y, h, f.pc[h], p.wait[h]) /\ KeepsOthers(x, y, h)
<1>1. PICK pc : pc = g.pc[h]
  OBVIOUS
<1>2. PICK wait \in Int : wait = o.wait[h]
  BY DEF SeenTypes
<1>3. PICK new : new = p.wait[h]
  OBVIOUS
<1>4. SpinMem(x, h, pc, wait) /\ (~Moved(m, h) => f.pc[h] = pc)
  BY <1>1, <1>2 DEF ClockIs
<1>5. new = IF ~Moved(m, h) THEN wait ELSE IF f.pc[h] \notin WaitLoop THEN Unset ELSE IF wait = Unset THEN x.cyc ELSE wait
  BY <1>2, <1>3 DEF ObserveIs, Waited
<1>6. /\ SpinMem(y, h, f.pc[h], new)
      /\ \A k \in Harts \ {h} : \A pd, t : SpinMem(x, k, pd, t) => SpinMem(y, k, pd, t)
  BY <1>4, <1>5, SpinStep
<1> QED
  BY <1>3, <1>6 DEF KeepsOthers

(* The two samples of a turn. *)
Sampled(x, y, f, p) ==
  /\ LlistTypes(y) /\ LedgerMem(y, p.obs) /\ Spinning(y, f, p)
  /\ y.cyc = x.cyc /\ y.stop = x.stop /\ y.verdict = x.verdict /\ SameFlag(x, y)

LEMMA LlistSamples ==
  ASSUME CrossArgs, NEW x, NEW g, NEW f, NEW m, NEW o, NEW p, SeenTypes(o), GuestOK(f), ClockIs(g, f, m),
         LlistTypes(x), LedgerMem(x, o.obs), Spinning(x, g, o), ObserveIs(o, p, m, f, x.cyc, FALSE),
         NEW y, y = SampleCommit(SampleCommit(x, f, 0), f, 1)
  PROVE  Sampled(x, y, f, p)
<1>1. TwoHarts /\ Harts = {0, 1} /\ 0 \in Harts /\ 1 \in Harts /\ 0 \in Harts \ {1} /\ 1 \in Harts \ {0}
  BY DEF CrossArgs, TwoHarts
<1>2. PICK u : u = SampleCommit(x, f, 0)
  OBVIOUS
<1>3. RecordOf(x, LlistFields)
  BY DEF LlistTypes
<1>4. SampleIs(x, u, f, 0)
  BY <1>2, <1>3, SampleOf
<1>5. LlistTypes(u)
  BY <1>1, <1>4, SampleTypes
<1>6. RecordOf(u, LlistFields)
  BY <1>5 DEF LlistTypes
<1>7. SampleIs(u, y, f, 1)
  <2>1. y = SampleCommit(u, f, 1)
    BY <1>2
  <2> QED
    BY <1>6, <2>1, SampleOf
<1>8. LlistTypes(y)
  BY <1>1, <1>5, <1>7, SampleTypes
<1>9. ASSUME NEW h \in Harts, NEW v, v.prev_pc_seen[h] = g.pc[h]
      PROVE  Faithful(v, f, m, h)
  BY <1>9 DEF ClockIs, Faithful, Fresh
<1>10. \A h \in Harts : SpinMem(x, h, g.pc[h], o.wait[h])
  BY DEF Spinning
<1>16. Faithful(x, f, m, 0)
  BY <1>1, <1>9, <1>10 DEF SpinMem
<1>17. SpinMem(u, 0, f.pc[0], p.wait[0]) /\ KeepsOthers(x, u, 0)
  <2>1. SpinMem(x, 0, g.pc[0], o.wait[0])
    BY <1>1, <1>10
  <2> QED
    BY <1>1, <1>4, <1>16, <2>1, WaitStep
<1>18. SpinMem(u, 1, g.pc[1], o.wait[1])
  BY <1>1, <1>10, <1>17 DEF KeepsOthers
<1>19. Faithful(u, f, m, 1)
  BY <1>1, <1>9, <1>18 DEF SpinMem
<1>20. u.cyc = x.cyc /\ u.stop = x.stop /\ u.verdict = x.verdict /\ SameFlag(x, u)
  BY <1>4 DEF SampleIs, SameFlag
<1>21. SpinMem(y, 1, f.pc[1], p.wait[1]) /\ KeepsOthers(u, y, 1)
  <2>1. ObserveIs(o, p, m, f, u.cyc, FALSE)
    BY <1>20
  <2> QED
    BY <1>1, <1>5, <1>7, <1>18, <1>19, <2>1, WaitStep
<1>22. SpinMem(y, 0, f.pc[0], p.wait[0])
  BY <1>1, <1>17, <1>21 DEF KeepsOthers
<1>23. Spinning(y, f, p)
  <2>1. ASSUME NEW h \in Harts
        PROVE  SpinMem(y, h, f.pc[h], p.wait[h])
    <3>1. CASE h = 0
      BY <1>22, <3>1
    <3>2. CASE h = 1
      BY <1>21, <3>2
    <3> QED
      BY <1>1, <3>1, <3>2
  <2> QED
    BY <2>1 DEF Spinning
<1>24. PICK one : one = Noted(o.obs, m, f, 0)
  OBVIOUS
<1>25. LedgerMem(u, one)
  BY <1>1, <1>4, <1>16, <1>24, LedgerStep
<1>26. LedgerMem(y, p.obs)
  <2>1. p.obs = Noted(one, m, f, 1)
    BY <1>24 DEF ObserveIs
  <2>2. LedgerMem(y, Noted(one, m, f, 1))
    BY <1>1, <1>5, <1>7, <1>19, <1>25, LedgerStep
  <2> QED
    BY <2>1, <2>2
<1>27. y.cyc = u.cyc /\ y.stop = u.stop /\ y.verdict = u.verdict /\ SameFlag(u, y)
  BY <1>7 DEF SampleIs, SameFlag
<1> QED
  BY <1>8, <1>20, <1>23, <1>26, <1>27 DEF SameFlag, Sampled

(* The flag and the hang, after the samples. *)
Flagged(a, f) == IF cmd.watch = Unset THEN a ELSE FlagWatch(a, f.dram[cmd.watch])
FlagDone(a, u, p) ==
  /\ SameLedger(a, u) /\ LlistTypes(u) /\ Watching(u, p) /\ u.verdict = a.verdict
  /\ u.stop = IF LockedLong(u, p) THEN "watch" ELSE "none"
  /\ cmd.watch = Unset => p.flag = 0

LEMMA FlagStep ==
  ASSUME CrossArgs, IsLlist, NEW a, NEW f, NEW m, NEW o, NEW p, SeenTypes(o), SeenTypes(p), GuestOK(f), LlistTypes(a),
         Watching(a, o), a.stop = "none", ObserveIs(o, p, m, f, a.cyc, FALSE), cmd.watch = Unset => o.flag = 0,
         NEW u, u = Flagged(a, f)
  PROVE  FlagDone(a, u, p)
<1>1. o.flag \in 0 .. 1 /\ RecordOf(a, LlistFields) /\ a.watch_prev = o.flag /\ a.watch_armed \in BOOLEAN
      /\ (a.watch_armed <=> o.flag = 1) /\ (a.watch_armed => a.watch_at = o.flagAt) /\ a.cyc \in Nat /\ a.watch_at \in Nat
  BY DEF SeenTypes, LlistTypes, Watching
<1>2. PICK v : v = Watched(f)
  OBVIOUS
<1>3. p.flag = v /\ p.flagAt = IF v # o.flag THEN a.cyc ELSE o.flagAt
  BY <1>2 DEF ObserveIs
<1>4. CASE cmd.watch = Unset
  <2>1. v = 0 /\ o.flag = 0 /\ u = a
    BY <1>2, <1>4 DEF Watched, Flagged
  <2>2. p.flag = 0 /\ p.flagAt = o.flagAt
    BY <1>3, <2>1
  <2>3. SameLedger(a, u)
    BY <1>1, <2>1 DEF SameLedger
  <2> QED
    BY <1>1, <2>1, <2>2, <2>3 DEF Watching, LockedLong, FlagDone
<1>5. CASE cmd.watch # Unset
  <2>1. v = f.dram[cmd.watch] /\ v \in 0 .. 1
    <3>1. v = f.dram[cmd.watch]
      BY <1>2, <1>5 DEF Watched
    <3>2. f.dram \in [Harts -> 0 .. 1] /\ cmd.watch \in Harts
      BY <1>5 DEF GuestOK, GuestTypes, CrossArgs, TwoHarts
    <3> QED
      BY <3>1, <3>2
  <2>2. FlagIs(a, u, v)
    <3>1. u = FlagWatch(a, v)
      BY <1>5, <2>1 DEF Flagged
    <3> QED
      BY <2>1, <3>1, FlagOf
  <2>3. /\ SameLedger(a, u) /\ u.verdict = a.verdict /\ u.watch_prev = v /\ u.cyc = a.cyc
        /\ u.watch_armed = IF v = a.watch_prev THEN a.watch_armed ELSE (v = 1)
        /\ u.watch_at = IF v # a.watch_prev /\ v = 1 THEN a.cyc ELSE a.watch_at
        /\ u.stop = IF u.watch_armed /\ u.cyc - u.watch_at > cmd.tail THEN "watch" ELSE a.stop
    BY <2>2, Zenon DEF FlagIs, SameLedger
  <2>4. u.watch_armed \in BOOLEAN /\ (u.watch_armed <=> v = 1)
    <3>1. CASE v = a.watch_prev
      BY <1>1, <2>3, <3>1
    <3>2. CASE v # a.watch_prev
      BY <2>3, <3>2
    <3> QED
      BY <3>1, <3>2
  <2>5. u.watch_at \in Nat /\ (v = 1 => u.watch_at = p.flagAt)
    BY <1>1, <1>3, <2>3
  <2>6. Watching(u, p)
    BY <1>3, <2>3, <2>4, <2>5 DEF Watching
  <2>7. u.stop = IF LockedLong(u, p) THEN "watch" ELSE "none"
    BY <1>3, <2>3, <2>4, <2>5 DEF LockedLong
  <2>8. LlistTypes(u)
    BY <2>1, <2>3, <2>4, <2>5 DEF LlistTypes, SameLedger
  <2> QED
    BY <1>5, <2>3, <2>6, <2>7, <2>8 DEF FlagDone
<1> QED
  BY <1>4, <1>5

LEMMA SameSpins ==
  ASSUME NEW x, NEW y, NEW g, NEW o, SameLedger(x, y)
  PROVE  /\ Spinning(x, g, o) => Spinning(y, g, o)
         /\ LedgerMem(x, o.obs) => LedgerMem(y, o.obs)
         /\ LlistTypes(x) /\ SameFlag(x, y) => LlistTypes(y)
         /\ Watching(x, o) /\ SameFlag(x, y) => Watching(y, o)
         /\ (LockedLong(y, o) <=> LockedLong(x, o)) /\ \A h : WaitsLong(y, o, h) <=> WaitsLong(x, o, h)
<1>1. Spinning(x, g, o) => Spinning(y, g, o)
  BY DEF SameLedger, Spinning, SpinMem
<1>2. LedgerMem(x, o.obs) => LedgerMem(y, o.obs)
  BY DEF SameLedger, LedgerMem
<1>3. LlistTypes(x) /\ SameFlag(x, y) => LlistTypes(y)
  BY DEF SameLedger, SameFlag, LlistTypes
<1>4. Watching(x, o) /\ SameFlag(x, y) => Watching(y, o)
  BY DEF SameFlag, Watching
<1>5. (LockedLong(y, o) <=> LockedLong(x, o)) /\ \A h : WaitsLong(y, o, h) <=> WaitsLong(x, o, h)
  BY DEF SameLedger, LockedLong, WaitsLong
<1> QED
  BY <1>1, <1>2, <1>3, <1>4, <1>5

Ended(a, e, f, p) ==
  /\ LlistTypes(e) /\ LedgerMem(e, p.obs) /\ Spinning(e, f, p) /\ Watching(e, p) /\ StopsRight(e, p)
  /\ e.verdict = a.verdict /\ (cmd.watch = Unset => p.flag = 0)

LEMMA LlistEnd ==
  ASSUME CrossArgs, IsLlist, NEW a, NEW f, NEW m, NEW o, NEW p, SeenTypes(o), SeenTypes(p), GuestOK(f), LlistTypes(a),
         Watching(a, o), a.stop = "none", ObserveIs(o, p, m, f, a.cyc, FALSE), cmd.watch = Unset => o.flag = 0,
         Spinning(a, f, p), LedgerMem(a, p.obs),
         NEW e, e = HangCheck(Flagged(a, f))
  PROVE  Ended(a, e, f, p)
<1>1. PICK u : u = Flagged(a, f)
  OBVIOUS
<1>2. /\ SameLedger(a, u) /\ LlistTypes(u) /\ Watching(u, p) /\ u.verdict = a.verdict
      /\ u.stop = IF LockedLong(u, p) THEN "watch" ELSE "none"
      /\ cmd.watch = Unset => p.flag = 0
  <2>1. FlagDone(a, u, p)
    BY <1>1, FlagStep
  <2> QED
    BY <2>1 DEF FlagDone
<1>3. HangIs(u, e)
  <2>1. e = HangCheck(u) /\ RecordOf(u, LlistFields)
    BY <1>1, <1>2 DEF LlistTypes
  <2> QED
    BY <2>1, HangOf
<1>4. SameLedger(u, e) /\ SameFlag(u, e) /\ e.verdict = u.verdict
  BY <1>3 DEF HangIs
<1>5. Spinning(u, f, p) /\ LedgerMem(u, p.obs)
  BY <1>2, SameSpins
<1>6. /\ LlistTypes(e) /\ LedgerMem(e, p.obs) /\ Spinning(e, f, p) /\ Watching(e, p)
      /\ (LockedLong(e, p) <=> LockedLong(u, p)) /\ \A h : WaitsLong(e, p, h) <=> WaitsLong(u, p, h)
  BY <1>2, <1>4, <1>5, SameSpins
<1>7. ASSUME NEW h \in Harts
      PROVE  WaitsLong(u, p, h) <=> u.in_spin[h] /\ u.cyc - u.spin_since[h] > cmd.hang
  BY <1>5 DEF Spinning, SpinMem, WaitsLong
<1>8. e.stop = IF u.stop = "none" /\ \E h \in Harts : WaitsLong(u, p, h) THEN "hang" ELSE u.stop
  <2>1. (\E h \in Harts : WaitsLong(u, p, h)) <=> (\E h \in Harts : u.in_spin[h] /\ u.cyc - u.spin_since[h] > cmd.hang)
    BY <1>7
  <2> QED
    BY <1>3, <2>1 DEF HangIs
<1>9. StopsRight(e, p)
  BY <1>2, <1>6, <1>8 DEF StopsRight
<1> QED
  BY <1>2, <1>4, <1>6, <1>9 DEF Ended

(* The verdict of linux_llist_probe says what the counters say. *)
VerdictRight(w) ==
  /\ w.verdict = "leak" => \E q \in Harts : w.live[q] > 0
  /\ w.verdict = "after pop" => \A q \in Harts : w.pushes[q] = 0 \/ w.live[q] = 0

LEMMA VerdictOf ==
  ASSUME NEW x, NEW y, LlistTypes(x), NEW s, y = [x EXCEPT !.stop = s, !.verdict = LlistVerdict(x)]
  PROVE  SameLedger(x, y) /\ SameFlag(x, y) /\ y.stop = s /\ VerdictRight(y)
<1>1. DOMAIN x = LlistFields
  BY DEF LlistTypes, RecordOf
<1>2. PICK v : v = LlistVerdict(x)
  OBVIOUS
<1>3. y = [z \in LlistFields |-> IF z = "stop" THEN s ELSE IF z = "verdict" THEN v ELSE x[z]]
  <2>1. y = [x EXCEPT !.stop = s, !.verdict = v]
    BY <1>2
  <2> QED
    BY <1>1, <2>1 DEF LlistFields
<1>4. RecordOf(y, LlistFields)
  BY <1>3 DEF RecordOf
<1>5. SameLedger(x, y) /\ SameFlag(x, y) /\ y.stop = s /\ y.verdict = v
  BY <1>3, <1>4 DEF SameLedger, SameFlag, LlistFields
<1>6. v = "leak" => \E q \in Harts : x.live[q] > 0
  BY <1>2 DEF LlistVerdict
<1>7. v = "after pop" => \A q \in Harts : x.pushes[q] = 0 \/ x.live[q] = 0
  <2>1. SUFFICES ASSUME v = "after pop", NEW q \in Harts
                 PROVE  x.pushes[q] = 0 \/ x.live[q] = 0
    OBVIOUS
  <2>2. ~(x.pushes[q] > 0 /\ x.live[q] > 0)
    BY <1>2, <2>1 DEF LlistVerdict
  <2>3. x.pushes[q] \in Nat /\ x.live[q] \in Nat
    BY DEF LlistTypes
  <2> QED
    BY <2>2, <2>3
<1>8. y.live = x.live /\ y.pushes = x.pushes
  BY <1>5 DEF SameLedger
<1> QED
  BY <1>5, <1>6, <1>7, <1>8 DEF VerdictRight

LEMMA LlistTurn ==
  ASSUME CrossArgs, IsLlist, NEW w, NEW g, NEW f, NEW m, NEW o, NEW p, SeenTypes(o), SeenTypes(p), GuestOK(f),
         ClockIs(g, f, m), LlistInv(w, g, o), w.stop = "none", NEW last \in BOOLEAN, last <=> w.cyc + 1 = cmd.run,
         ObserveIs(o, p, m, f, w.cyc + 1, last), NEW y, y = linux_llist(w, f)
  PROVE  LlistInv(y, f, p) /\ StopsRight(y, p) /\ VerdictRight(y)
<1>1. /\ LlistTypes(w) /\ LedgerMem(w, o.obs) /\ (cmd.watch = Unset => o.flag = 0)
      /\ Spinning(w, g, o) /\ Watching(w, o) /\ w.verdict = "none" /\ w.cyc \in Nat /\ DOMAIN w = LlistFields
  BY DEF LlistInv, LlistTypes, RecordOf
<1>2. PICK now : now = [w EXCEPT !.cyc = @ + 1]
  OBVIOUS
<1>3. now = [z \in LlistFields |-> IF z = "cyc" THEN w.cyc + 1 ELSE w[z]]
  BY <1>1, <1>2 DEF LlistFields
<1>4. RecordOf(now, LlistFields)
  BY <1>3 DEF RecordOf
<1>5. /\ now.cyc = w.cyc + 1 /\ now.prev_pc_seen = w.prev_pc_seen /\ now.in_spin = w.in_spin
      /\ now.spin_since = w.spin_since /\ now.pushes = w.pushes /\ now.pops = w.pops /\ now.pops_null = w.pops_null
      /\ now.live = w.live /\ SameFlag(w, now) /\ now.stop = "none" /\ now.verdict = "none"
  BY <1>1, <1>3 DEF LlistFields, SameFlag
<1>6. LlistTypes(now)
  BY <1>1, <1>4, <1>5 DEF LlistTypes, SameFlag
<1>7. LedgerMem(now, o.obs)
  BY <1>1, <1>5 DEF LedgerMem
<1>8. Spinning(now, g, o) /\ Watching(now, o)
  BY <1>1, <1>5 DEF Spinning, SpinMem, Watching, SameFlag
<1>9. PICK all : all = SampleCommit(SampleCommit(now, f, 0), f, 1)
  OBVIOUS
<1>10. PICK e : e = HangCheck(Flagged(all, f))
  OBVIOUS
<1>11. y = IF now.cyc = cmd.run THEN [now EXCEPT !.stop = "budget", !.verdict = LlistVerdict(now)]
           ELSE IF e.stop # "none" THEN [e EXCEPT !.verdict = LlistVerdict(e)] ELSE e
  BY <1>2, <1>9, <1>10, Zenon DEF linux_llist, Flagged
<1>12. CASE last
  <2>1. y = [now EXCEPT !.stop = "budget", !.verdict = LlistVerdict(now)]
    BY <1>5, <1>11, <1>12
  <2>2. SameLedger(now, y) /\ SameFlag(now, y) /\ y.stop = "budget" /\ VerdictRight(y)
    BY <1>6, <2>1, VerdictOf
  <2>3. p.obs = o.obs /\ p.flag = o.flag
    BY <1>12 DEF ObserveIs
  <2>4. LedgerMem(y, o.obs) /\ LlistTypes(y)
    BY <1>6, <1>7, <2>2, SameSpins
  <2>5. StopsRight(y, p)
    BY <2>2 DEF StopsRight
  <2> QED
    BY <1>1, <2>2, <2>3, <2>4, <2>5 DEF LlistInv
<1>13. CASE ~last
  <2>1. last = FALSE /\ now.cyc # cmd.run
    BY <1>5, <1>13
  <2>2. ObserveIs(o, p, m, f, now.cyc, FALSE)
    BY <1>5, <2>1
  <2>3. /\ LlistTypes(all) /\ LedgerMem(all, p.obs) /\ Spinning(all, f, p)
        /\ all.cyc = now.cyc /\ all.stop = now.stop /\ all.verdict = now.verdict /\ SameFlag(now, all)
    <3>1. Sampled(now, all, f, p)
      BY <1>6, <1>7, <1>8, <1>9, <2>2, LlistSamples
    <3> QED
      BY <3>1 DEF Sampled
  <2>4. ObserveIs(o, p, m, f, all.cyc, FALSE) /\ all.stop = "none" /\ all.verdict = "none"
    BY <1>5, <2>2, <2>3
  <2>5. Watching(all, o)
    BY <1>8, <2>3 DEF Watching, SameFlag
  <2>6. /\ LlistTypes(e) /\ LedgerMem(e, p.obs) /\ Spinning(e, f, p) /\ Watching(e, p) /\ StopsRight(e, p)
        /\ e.verdict = all.verdict /\ (cmd.watch = Unset => p.flag = 0)
    <3>1. Ended(all, e, f, p)
      BY <1>1, <1>10, <2>3, <2>4, <2>5, LlistEnd
    <3> QED
      BY <3>1 DEF Ended
  <2>7. CASE e.stop = "none"
    <3>1. y = e
      BY <1>11, <2>1, <2>7
    <3> QED
      BY <2>4, <2>6, <3>1 DEF LlistInv, VerdictRight
  <2>8. CASE e.stop # "none"
    <3>1. PICK s : s = e.stop
      OBVIOUS
    <3>2. y = [e EXCEPT !.stop = s, !.verdict = LlistVerdict(e)]
      <4>1. y = [e EXCEPT !.verdict = LlistVerdict(e)]
        BY <1>11, <2>1, <2>8
      <4>2. DOMAIN e = LlistFields
        BY <2>6 DEF LlistTypes, RecordOf
      <4> QED
        BY <3>1, <4>1, <4>2 DEF LlistFields
    <3>3. SameLedger(e, y) /\ SameFlag(e, y) /\ y.stop = s /\ VerdictRight(y)
      BY <2>6, <3>2, VerdictOf
    <3>4. LedgerMem(y, p.obs) /\ LlistTypes(y)
          /\ (LockedLong(y, p) <=> LockedLong(e, p)) /\ \A h : WaitsLong(y, p, h) <=> WaitsLong(e, p, h)
      BY <2>6, <3>3, SameSpins
    <3>5. StopsRight(y, p)
      BY <2>6, <3>1, <3>3, <3>4 DEF StopsRight
    <3> QED
      BY <2>6, <2>8, <3>1, <3>3, <3>4, <3>5 DEF LlistInv
  <2> QED
    BY <2>7, <2>8
<1> QED
  BY <1>12, <1>13

(* What the ledger and the queues say of the verdicts. *)
Blames(w, g, o) ==
  /\ w.verdict = "leak" => \E q \in Harts : g.head[q] # {} \/ g.done[q] # o.obs[q]
  /\ w.verdict = "after pop" =>
       \A q \in Harts : \/ Places("push", o.obs[q]) = {}
                        \/ \E i \in Places("pop", o.obs[q]), j \in Places("push", o.obs[q]) : i > j

LEMMA LedgerSays ==
  ASSUME NEW w, NEW g, NEW o, GuestOK(g), LedgerMem(w, o.obs)
  PROVE  /\ \A q \in Harts : g.done[q] = o.obs[q] => w.live[q] = Cardinality(g.head[q])
         /\ VerdictRight(w) => Blames(w, g, o)
<1>1. \A q \in Harts : g.done[q] = o.obs[q] => w.live[q] = Cardinality(g.head[q])
  BY DEF GuestOK, HeadsCount, LedgerMem
<1>2. ASSUME VerdictRight(w), w.verdict = "leak"
      PROVE  \E q \in Harts : g.head[q] # {} \/ g.done[q] # o.obs[q]
  <2>1. PICK q \in Harts : w.live[q] > 0
    BY <1>2 DEF VerdictRight
  <2>2. g.done[q] = o.obs[q] => g.head[q] # {}
    <3>1. SUFFICES ASSUME g.head[q] = {}, g.done[q] = o.obs[q] PROVE FALSE
      OBVIOUS
    <3>2. Cardinality(g.head[q]) = 0
      BY <3>1, FS_EmptySet
    <3> QED
      BY <1>1, <2>1, <3>1, <3>2
  <2> QED
    BY <2>2
<1>3. ASSUME VerdictRight(w), w.verdict = "after pop", NEW q \in Harts
      PROVE  \/ Places("push", o.obs[q]) = {}
             \/ \E i \in Places("pop", o.obs[q]), j \in Places("push", o.obs[q]) : i > j
  <2>1. PICK s \in Seq(Seen3) : s = o.obs[q]
    BY DEF LedgerMem
  <2>2. "push" \in Seen3 /\ "pop" \in Seen3
    BY DEF Seen3
  <2>3. /\ Places("push", s) \subseteq 1 .. Len(s) /\ Places("pop", s) \subseteq 1 .. Len(s) /\ Len(s) \in Nat
        /\ IsFiniteSet(Places("push", s)) /\ IsFiniteSet(Unclaimed(s))
    BY <2>2, PlacesAppend, UnclaimedAppend
  <2>4. w.pushes[q] = Cardinality(Places("push", s)) /\ w.live[q] = Cardinality(Unclaimed(s))
    BY <2>1 DEF LedgerMem
  <2>5. CASE w.pushes[q] = 0
    <3>1. Places("push", s) = {}
      BY <2>3, <2>4, <2>5, FS_EmptySet
    <3> QED
      BY <2>1, <3>1
  <2>6. CASE w.live[q] = 0
    <3>1. Unclaimed(s) = {}
      BY <2>3, <2>4, <2>6, FS_EmptySet
    <3>2. \A i \in Places("push", s) : \E j \in Places("pop", s) : ~(j < i)
      BY <3>1 DEF Unclaimed
    <3>3. \A i \in Places("push", s), j \in Places("pop", s) : i # j
      BY DEF Places
    <3>4. ASSUME NEW i \in Places("push", s)
          PROVE  \E j \in Places("pop", s) : j > i
      <4>1. PICK j \in Places("pop", s) : ~(j < i)
        BY <3>2
      <4>2. i \in Int /\ j \in Int /\ i # j
        BY <2>3, <3>3
      <4> QED
        BY <4>1, <4>2
    <3> QED
      BY <2>1, <3>4
  <2> QED
    BY <1>3, <2>5, <2>6 DEF VerdictRight
<1> QED
  BY <1>1, <1>2, <1>3 DEF Blames

(* linux_csd_probe. *)
CsdFields == {"cyc", "prev_pc_seen", "commits", "flush_hits", "spin_hits", "csd_addr", "loaded_vals", "flag",
              "stop", "verdict"}

CsdTypes(w) ==
  RecordOf(w, CsdFields) /\ w.cyc \in Nat /\ w.prev_pc_seen \in [Harts -> Labels \cup {"none"}]

CsdMem(w, g, o) ==
  /\ w.prev_pc_seen = g.pc /\ w.loaded_vals = o.read
  /\ o.read # {} => w.csd_addr # Unset

(* Without a stale machine, a locked value that was read is older than the   *)
(* clear of the flag.                                                        *)
CsdTimes(clk, g, o) ==
  /\ o.pendAt <= clk /\ o.readAt <= clk
  /\ cmd.defect # "stale" =>
       /\ g.val[1] = 1 /\ g.lock[1] = 0 => o.clearAt >= o.pendAt
       /\ o.read = {1} /\ g.lock[1] = 0 => o.clearAt >= o.readAt

CsdInv(w, g, o) == CsdTypes(w) /\ CsdTimes(w.cyc, g, o) /\ (w.stop = "none" => CsdMem(w, g, o))

CsdRight(w, g, o) ==
  w.stop = "budget" =>
    /\ w.verdict = "stale" =>
         /\ o.read = {1}
         /\ cmd.defect = "stale" \/ o.clearAt >= o.readAt \/ (g.lock[1] = 1 /\ g.dram[1] = 0)
    /\ (cmd.defect = "stale" /\ o.read = {1} /\ g.lock[1] = 0 /\ g.dram[1] = 0) => w.verdict = "stale"

CsdSampleIs(x, y, g, h) ==
  /\ RecordOf(y, CsdFields) /\ y.cyc = x.cyc /\ y.stop = x.stop
  /\ y.prev_pc_seen = IF Fresh(x, g, h) THEN [x.prev_pc_seen EXCEPT ![h] = g.pc[h]] ELSE x.prev_pc_seen
  /\ y.csd_addr = IF Fresh(x, g, h) /\ h = 1 /\ g.pc[h] \in WaitLoop THEN h ELSE x.csd_addr
  /\ y.loaded_vals = IF Fresh(x, g, h) /\ h = 1 /\ g.pc[h] = "spin2" THEN x.loaded_vals \cup {g.val[h]} ELSE x.loaded_vals

LEMMA CsdSampleOf ==
  ASSUME NEW x, RecordOf(x, CsdFields), NEW g, NEW h
  PROVE  CsdSampleIs(x, CsdSample(x, g, h), g, h)
<1>1. PICK y : y = CsdSample(x, g, h)
  OBVIOUS
<1> SUFFICES CsdSampleIs(x, y, g, h)
  BY <1>1, Zenon
<1>2. CASE ~Fresh(x, g, h)
  <2>1. y = x
    BY <1>1, <1>2 DEF CsdSample, Fresh
  <2> QED
    BY <1>2, <2>1 DEF CsdSampleIs
<1>3. CASE Fresh(x, g, h)
  <2>1. DOMAIN x = CsdFields
    BY DEF RecordOf
  <2>2. PICK a : a = [x.prev_pc_seen EXCEPT ![h] = g.pc[h]]
    OBVIOUS
  <2>3. PICK b : b = [x.commits EXCEPT ![h] = @ + 1]
    OBVIOUS
  <2>4. PICK c : c = [x.flush_hits EXCEPT ![h] = IF g.pc[h] \in {"flush", "swap", "popDone", "unlock"} THEN @ + 1 ELSE @]
    OBVIOUS
  <2>5. PICK d : d = [x.spin_hits EXCEPT ![h] = IF g.pc[h] \in WaitLoop THEN @ + 1 ELSE @]
    OBVIOUS
  <2>6. PICK e : e = IF h = 1 /\ g.pc[h] \in WaitLoop THEN h ELSE x.csd_addr
    OBVIOUS
  <2>7. PICK l : l = IF h = 1 /\ g.pc[h] = "spin2" THEN x.loaded_vals \cup {g.val[h]} ELSE x.loaded_vals
    OBVIOUS
  <2>8. y = [x EXCEPT !.prev_pc_seen = a, !.commits = b, !.flush_hits = c, !.spin_hits = d, !.csd_addr = e,
                      !.loaded_vals = l]
    BY <1>1, <1>3, <2>2, <2>3, <2>4, <2>5, <2>6, <2>7 DEF CsdSample, Fresh
  <2>9. y = [z \in CsdFields |-> IF z = "prev_pc_seen" THEN a ELSE IF z = "commits" THEN b ELSE IF z = "flush_hits" THEN c
              ELSE IF z = "spin_hits" THEN d ELSE IF z = "csd_addr" THEN e ELSE IF z = "loaded_vals" THEN l ELSE x[z]]
    BY <2>1, <2>8 DEF CsdFields
  <2>10. RecordOf(y, CsdFields)
    BY <2>9 DEF RecordOf
  <2>11. y.cyc = x.cyc /\ y.stop = x.stop /\ y.prev_pc_seen = a /\ y.csd_addr = e /\ y.loaded_vals = l
    BY <2>9 DEF CsdFields
  <2> QED
    BY <1>3, <2>2, <2>6, <2>7, <2>10, <2>11, Zenon DEF CsdSampleIs
<1> QED
  BY <1>2, <1>3

(* The verdict on the least value read. *)
LEMMA LeastOne ==
  ASSUME NEW S, S \subseteq {Unset, 0, 1}, S # {}
  PROVE  Least(S) = 1 <=> S = {1}
<1>1. Unset = -1
  BY DEF Unset
<1>2. \A y \in S : y \in Int /\ -1 <= y /\ y <= 1
  BY <1>1
<1>3. PICK x \in S : \A y \in S : x <= y
  <2>1. CASE -1 \in S
    BY <1>2, <2>1
  <2>2. CASE -1 \notin S /\ 0 \in S
    <3>1. \A y \in S : 0 <= y
      BY <1>2, <2>2
    <3> QED
      BY <2>2, <3>1
  <2>3. CASE -1 \notin S /\ 0 \notin S
    <3>1. \A y \in S : y = 1
      BY <1>2, <2>3
    <3> QED
      BY <3>1
  <2> QED
    BY <2>1, <2>2, <2>3
<1>4. PICK l : l = Least(S)
  OBVIOUS
<1>5. l \in S /\ \A y \in S : l <= y
  BY <1>3, <1>4 DEF Least
<1>6. l = 1 => S = {1}
  <2>1. l = 1 => \A y \in S : y = 1
    BY <1>2, <1>5
  <2> QED
    BY <1>5, <2>1
<1>7. S = {1} => l = 1
  BY <1>5
<1> QED
  BY <1>4, <1>6, <1>7

LEMMA CsdTimesStep ==
  ASSUME CrossArgs, NEW g, NEW f, NEW m, NEW o, NEW p, g = xg, GuestOK(g), GuestOK(f), ClockIs(g, f, m), SeenTypes(o),
         NEW clk \in Nat, NEW last \in BOOLEAN, ObserveIs(o, p, m, f, clk + 1, last), CsdTimes(clk, g, o)
  PROVE  CsdTimes(clk + 1, f, p)
<1>1. 1 \in Harts /\ g.lock[1] \in 0 .. 1 /\ f.lock[1] \in 0 .. 1
  BY DEF CrossArgs, TwoHarts, GuestOK, GuestTypes
<1>2. o.pendAt \in Int /\ o.readAt \in Int /\ o.clearAt \in Int /\ o.pendAt <= clk /\ o.readAt <= clk
  BY DEF SeenTypes, CsdTimes
<1>3. /\ p.read = IF Did(m, f, "spin2", last) THEN o.read \cup {f.val[1]} ELSE o.read
      /\ p.pendAt = IF Did(m, f, "spin1", last) THEN clk + 1 ELSE o.pendAt
      /\ p.readAt = IF Did(m, f, "spin2", last) THEN o.pendAt ELSE o.readAt
      /\ p.clearAt = IF f.lock[1] = 0 /\ g.lock[1] = 1 THEN clk + 1 ELSE o.clearAt
  BY DEF ObserveIs
<1>4. p.pendAt <= clk + 1 /\ p.readAt <= clk + 1
  BY <1>2, <1>3
<1>5. ASSUME cmd.defect # "stale", f.val[1] = 1, f.lock[1] = 0
      PROVE  p.clearAt >= p.pendAt
  <2>1. CASE g.lock[1] = 1
    BY <1>2, <1>3, <1>4, <1>5, <2>1
  <2>2. CASE g.lock[1] = 0
    <3>1. g.val[1] = 1 /\ ~(Moved(m, 1) /\ f.pc[1] = "spin1")
      BY <1>5, <2>2 DEF ClockIs
    <3>2. p.pendAt = o.pendAt /\ p.clearAt = o.clearAt
      BY <1>3, <2>2, <3>1 DEF Did
    <3> QED
      BY <1>5, <2>2, <3>1, <3>2 DEF CsdTimes
  <2> QED
    BY <1>1, <2>1, <2>2
<1>6. ASSUME cmd.defect # "stale", p.read = {1}, f.lock[1] = 0
      PROVE  p.clearAt >= p.readAt
  <2>1. CASE g.lock[1] = 1
    BY <1>2, <1>3, <1>4, <1>6, <2>1
  <2>2. CASE g.lock[1] = 0
    <3>1. p.clearAt = o.clearAt
      BY <1>3, <2>2
    <3>2. CASE Did(m, f, "spin2", last)
      <4>1. f.val[1] = 1 /\ p.readAt = o.pendAt
        BY <1>3, <1>6, <3>2
      <4>2. g.val[1] = 1
        BY <3>2, <4>1 DEF Did, ClockIs
      <4> QED
        BY <1>6, <2>2, <3>1, <4>1, <4>2 DEF CsdTimes
    <3>3. CASE ~Did(m, f, "spin2", last)
      BY <1>3, <1>6, <2>2, <3>1, <3>3 DEF CsdTimes
    <3> QED
      BY <3>2, <3>3
  <2> QED
    BY <1>1, <2>1, <2>2
<1> QED
  BY <1>4, <1>5, <1>6 DEF CsdTimes

CsdSampled(x, y, f, p) == CsdTypes(y) /\ CsdMem(y, f, p) /\ y.cyc = x.cyc /\ y.stop = x.stop

LEMMA CsdSamples ==
  ASSUME CrossArgs, NEW x, NEW g, NEW f, NEW m, NEW o, NEW p, GuestOK(g), GuestOK(f), ClockIs(g, f, m),
         CsdTypes(x), CsdMem(x, g, o), NEW clk, ObserveIs(o, p, m, f, clk, FALSE),
         NEW y, y = CsdSample(CsdSample(x, f, 0), f, 1)
  PROVE  CsdSampled(x, y, f, p)
<1>1. Harts = {0, 1} /\ 0 \in Harts /\ 1 \in Harts /\ Unset = -1
  BY DEF CrossArgs, TwoHarts, Unset
<1>2. PICK u : u = CsdSample(x, f, 0)
  OBVIOUS
<1>3. CsdSampleIs(x, u, f, 0)
  <2>1. RecordOf(x, CsdFields)
    BY DEF CsdTypes
  <2> QED
    BY <1>2, <2>1, CsdSampleOf
<1>4. CsdSampleIs(u, y, f, 1)
  <2>1. RecordOf(u, CsdFields) /\ y = CsdSample(u, f, 1)
    BY <1>2, <1>3 DEF CsdSampleIs
  <2> QED
    BY <2>1, CsdSampleOf
<1>5. g.pc \in [Harts -> Labels \cup {"none"}] /\ f.pc \in [Harts -> Labels \cup {"none"}] /\ x.prev_pc_seen = g.pc
  BY DEF GuestOK, GuestTypes, CsdMem
<1>6. ASSUME NEW h \in Harts
      PROVE  /\ ~(f.fired[h] /\ f.pc[h] # g.pc[h]) => f.pc[h] = g.pc[h]
             /\ Moved(m, h) /\ f.pc[h] # "work" <=> (f.fired[h] /\ f.pc[h] # g.pc[h]) /\ f.pc[h] # "work"
  BY DEF ClockIs
<1>7. PICK one : one = [g.pc EXCEPT ![0] = f.pc[0]]
  OBVIOUS
<1>8. u.prev_pc_seen = one
  <2>1. u.prev_pc_seen = IF f.fired[0] /\ f.pc[0] # g.pc[0] THEN [g.pc EXCEPT ![0] = f.pc[0]] ELSE g.pc
    BY <1>3, <1>5 DEF CsdSampleIs, Fresh
  <2>2. f.pc[0] = g.pc[0] => g.pc = [g.pc EXCEPT ![0] = f.pc[0]]
    BY <1>1, <1>5
  <2> QED
    BY <1>1, <1>6, <1>7, <2>1, <2>2
<1>9. one[1] = g.pc[1] /\ one \in [Harts -> Labels \cup {"none"}] /\ [one EXCEPT ![1] = f.pc[1]] = f.pc
  BY <1>1, <1>5, <1>7
<1>10. Fresh(u, f, 1) <=> f.fired[1] /\ f.pc[1] # g.pc[1]
  BY <1>8, <1>9 DEF Fresh
<1>11. y.prev_pc_seen = f.pc
  <2>1. y.prev_pc_seen = IF Fresh(u, f, 1) THEN [one EXCEPT ![1] = f.pc[1]] ELSE one
    BY <1>4, <1>8 DEF CsdSampleIs
  <2>2. f.pc[1] = g.pc[1] => one = [one EXCEPT ![1] = f.pc[1]]
    BY <1>1, <1>9
  <2> QED
    BY <1>1, <1>6, <1>9, <1>10, <2>1, <2>2
<1>12. u.csd_addr = x.csd_addr /\ u.loaded_vals = x.loaded_vals /\ u.cyc = x.cyc /\ u.stop = x.stop
  BY <1>3 DEF CsdSampleIs
<1>13. Did(m, f, "spin2", FALSE) <=> Fresh(u, f, 1) /\ f.pc[1] = "spin2"
  BY <1>1, <1>6, <1>10 DEF Did
<1>14. y.loaded_vals = p.read /\ (p.read # {} => y.csd_addr # Unset)
  <2>1. y.loaded_vals = IF Fresh(u, f, 1) /\ f.pc[1] = "spin2" THEN x.loaded_vals \cup {f.val[1]} ELSE x.loaded_vals
    BY <1>4, <1>12 DEF CsdSampleIs
  <2>2. y.csd_addr = IF Fresh(u, f, 1) /\ f.pc[1] \in WaitLoop THEN 1 ELSE x.csd_addr
    BY <1>4, <1>12 DEF CsdSampleIs
  <2>3. p.read = IF Did(m, f, "spin2", FALSE) THEN o.read \cup {f.val[1]} ELSE o.read
    BY DEF ObserveIs
  <2>4. x.loaded_vals = o.read /\ (o.read # {} => x.csd_addr # Unset)
    BY DEF CsdMem
  <2>5. PICK d \in BOOLEAN : d <=> Did(m, f, "spin2", FALSE)
    OBVIOUS
  <2>6. PICK s \in BOOLEAN : s <=> Fresh(u, f, 1) /\ f.pc[1] \in WaitLoop
    OBVIOUS
  <2>7. d <=> Fresh(u, f, 1) /\ f.pc[1] = "spin2"
    BY <1>13, <2>5
  <2>8. d => s
    BY <2>6, <2>7 DEF WaitLoop
  <2>9. y.loaded_vals = (IF d THEN o.read \cup {f.val[1]} ELSE o.read) /\ p.read = (IF d THEN o.read \cup {f.val[1]} ELSE o.read)
    BY <2>1, <2>3, <2>4, <2>5, <2>7
  <2>10. y.csd_addr = IF s THEN 1 ELSE x.csd_addr
    BY <2>2, <2>6
  <2>11. p.read # {} => y.csd_addr # Unset
    BY <1>1, <2>4, <2>8, <2>9, <2>10
  <2> QED
    BY <2>9, <2>11
<1>15. RecordOf(y, CsdFields) /\ y.cyc = x.cyc /\ y.stop = x.stop /\ x.cyc \in Nat
  BY <1>4, <1>12 DEF CsdSampleIs, CsdTypes
<1> QED
  BY <1>5, <1>11, <1>14, <1>15 DEF CsdTypes, CsdMem, CsdSampled

LEMMA CsdTurn ==
  ASSUME CrossArgs, NEW w, NEW g, NEW f, NEW m, NEW o, NEW p, g = xg, GuestOK(g), GuestOK(f), ClockIs(g, f, m), SeenTypes(o),
         SeenTypes(p), CsdInv(w, g, o), w.stop = "none", NEW last \in BOOLEAN, last <=> w.cyc + 1 = cmd.run,
         ObserveIs(o, p, m, f, w.cyc + 1, last), NEW y, y = linux_csd(w, f)
  PROVE  CsdInv(y, f, p) /\ CsdRight(y, f, p)
<1>1. CsdTypes(w) /\ CsdTimes(w.cyc, g, o) /\ CsdMem(w, g, o) /\ w.cyc \in Nat /\ DOMAIN w = CsdFields
  BY DEF CsdInv, CsdTypes, RecordOf
<1>2. PICK now : now = [w EXCEPT !.cyc = @ + 1]
  OBVIOUS
<1>3. now = [z \in CsdFields |-> IF z = "cyc" THEN w.cyc + 1 ELSE w[z]]
  BY <1>1, <1>2 DEF CsdFields
<1>4. RecordOf(now, CsdFields) /\ DOMAIN now = CsdFields
  BY <1>3 DEF RecordOf
<1>5. /\ now.cyc = w.cyc + 1 /\ now.prev_pc_seen = w.prev_pc_seen /\ now.csd_addr = w.csd_addr
      /\ now.loaded_vals = w.loaded_vals /\ now.stop = "none"
  BY <1>3 DEF CsdFields
<1>6. CsdTypes(now) /\ CsdMem(now, g, o)
  BY <1>1, <1>4, <1>5 DEF CsdTypes, CsdMem
<1>7. CsdTimes(w.cyc + 1, f, p)
  BY <1>1, CsdTimesStep
<1>8. CASE last
  <2>1. PICK flag : flag = f.dram[1]
    OBVIOUS
  <2>2. PICK v : v = CsdVerdict(now, flag)
    OBVIOUS
  <2>3. y = [now EXCEPT !.stop = "budget", !.flag = flag, !.verdict = v]
    <3>1. now.cyc = cmd.run
      BY <1>5, <1>8
    <3> QED
      BY <1>2, <2>1, <2>2, <3>1 DEF linux_csd
  <2>4. y = [z \in CsdFields |-> IF z = "stop" THEN "budget" ELSE IF z = "flag" THEN flag ELSE IF z = "verdict" THEN v ELSE now[z]]
    BY <1>4, <2>3 DEF CsdFields
  <2>5. RecordOf(y, CsdFields)
    BY <2>4 DEF RecordOf
  <2>6. y.cyc = now.cyc /\ y.prev_pc_seen = now.prev_pc_seen /\ y.stop = "budget" /\ y.verdict = v
    BY <2>4 DEF CsdFields
  <2>7. CsdInv(y, f, p)
    BY <1>5, <1>6, <1>7, <2>5, <2>6 DEF CsdInv, CsdTypes
  <2>8. p.read = o.read /\ now.loaded_vals = p.read /\ (p.read # {} => now.csd_addr # Unset)
    <3>1. p.read = o.read
      BY <1>8 DEF ObserveIs, Did
    <3> QED
      BY <1>6, <3>1 DEF CsdMem
  <2>9. v = "stale" <=> now.csd_addr # Unset /\ p.read # {} /\ flag = 0 /\ Least(p.read) = 1
    BY <2>2, <2>8 DEF CsdVerdict
  <2>10. v = "stale" <=> p.read = {1} /\ flag = 0
    <3>1. p.read \subseteq {Unset, 0, 1}
      BY DEF SeenTypes
    <3>2. p.read # {} => (Least(p.read) = 1 <=> p.read = {1})
      BY <3>1, LeastOne
    <3> QED
      BY <2>8, <2>9, <3>2
  <2>11. f.lock[1] \in 0 .. 1
    BY DEF CrossArgs, TwoHarts, GuestOK, GuestTypes
  <2>12. CsdRight(y, f, p)
    BY <1>7, <2>1, <2>6, <2>10, <2>11 DEF CsdRight, CsdTimes
  <2> QED
    BY <2>7, <2>12
<1>9. CASE ~last
  <2>1. last = FALSE /\ now.cyc # cmd.run
    BY <1>5, <1>9
  <2>2. ObserveIs(o, p, m, f, w.cyc + 1, FALSE)
    BY <2>1
  <2>3. y = CsdSample(CsdSample(now, f, 0), f, 1)
    BY <1>2, <2>1, Zenon DEF linux_csd
  <2>4. CsdTypes(y) /\ CsdMem(y, f, p) /\ y.cyc = now.cyc /\ y.stop = now.stop
    <3>1. CsdSampled(now, y, f, p)
      BY <1>6, <2>2, <2>3, CsdSamples
    <3> QED
      BY <3>1 DEF CsdSampled
  <2> QED
    BY <1>5, <1>7, <2>4 DEF CsdInv, CsdRight
<1> QED
  BY <1>8, <1>9

(* linux_ipi_probe. *)
IpiFields == {"cyc", "msip_writes", "last_msip_writes", "ckpts", "files", "next_ckpt", "next_report", "reported",
              "stop", "verdict"}

Pulses(g, t) == Cardinality({h \in Harts : g.pulse[h] = t})
Counted(mw, g, replays) == \A t \in Harts : mw[t] = g.sent[t] + replays[t]

FileOK(f) ==
  /\ GuestOK(f.model) /\ f.cyc \in Nat /\ f.msip_writes \in [Harts -> Int] /\ f.replays \in [Harts -> Nat]
  /\ Counted(f.msip_writes, f.model, f.replays)

CkptsHeld(ckpts, files) ==
  /\ \A i \in DOMAIN ckpts : \E f \in files : f.cyc = ckpts[i]
  /\ \A i, j \in DOMAIN ckpts : i < j => ckpts[i] < ckpts[j]

IpiInv(w, g, replays) ==
  /\ RecordOf(w, IpiFields) /\ w.cyc \in Nat /\ w.msip_writes \in [Harts -> Int] /\ w.ckpts \in Seq(Nat)
  /\ Counted(w.msip_writes, g, replays) /\ CkptsHeld(w.ckpts, w.files)
  /\ \A f \in w.files : FileOK(f)
  /\ \A i \in DOMAIN w.ckpts : w.ckpts[i] <= w.cyc

LEMMA NextLater ==
  ASSUME NEW clk \in Nat, NEW n \in Nat \ {0}
  PROVE  NextMultiple(clk, n) > clk
<1>1. PICK q \in Nat : q = clk \div n
  OBVIOUS
<1>2. clk < n * q + n
  BY <1>1
<1>3. (q + 1) * n = n * q + n
  OBVIOUS
<1> QED
  BY <1>1, <1>2, <1>3 DEF NextMultiple

LEMMA PulsesNat ==
  ASSUME TwoHarts, NEW g, NEW t
  PROVE  Pulses(g, t) \in Nat
<1>1. PICK p : p = g.pulse
  OBVIOUS
<1>2. Cardinality({h \in Harts : p[h] = t}) = (IF p[0] = t THEN 1 ELSE 0) + (IF p[1] = t THEN 1 ELSE 0)
  BY PulseCount
<1> QED
  BY <1>1, <1>2 DEF Pulses

SameFiles(x, y) == y.cyc = x.cyc /\ y.ckpts = x.ckpts /\ y.files = x.files /\ y.next_ckpt = x.next_ckpt
/\ y.stop = x.stop

LEMMA CountOf ==
  ASSUME NEW x, NEW g, RecordOf(x, IpiFields), NEW y, y = IpiReport(CountMsip(x, g))
  PROVE  RecordOf(y, IpiFields) /\ SameFiles(x, y)
  /\ y.msip_writes = [t \in Harts |-> x.msip_writes[t] + Pulses(g, t)]
<1>1. PICK a : a = [t \in Harts |-> x.msip_writes[t] + Pulses(g, t)]
  OBVIOUS
<1>2. PICK u : u = [x EXCEPT !.msip_writes = a]
  OBVIOUS
<1>3. DOMAIN x = IpiFields
  BY DEF RecordOf
<1>4. u = [z \in IpiFields |-> IF z = "msip_writes" THEN a ELSE x[z]]
  BY <1>2, <1>3 DEF IpiFields
<1>5. RecordOf(u, IpiFields) /\ DOMAIN u = IpiFields
  BY <1>4 DEF RecordOf
<1>6. SameFiles(x, u) /\ u.msip_writes = a
  BY <1>4 DEF IpiFields, SameFiles
<1>7. u = CountMsip(x, g)
  BY <1>1, <1>2 DEF CountMsip, Pulses
<1>8. y = IpiReport(u)
  BY <1>7
<1>9. CASE u.cyc < u.next_report
  <2>1. y = u
    BY <1>8, <1>9 DEF IpiReport
  <2> QED
    BY <1>1, <1>5, <1>6, <2>1
<1>10. CASE ~(u.cyc < u.next_report)
  <2>1. PICK b : b = u.cyc + cmd.report
    OBVIOUS
  <2>2. PICK c : c = [h \in Harts |-> u.reported[h] + u.msip_writes[h] - u.last_msip_writes[h]]
    OBVIOUS
  <2>3. y = [u EXCEPT !.next_report = b, !.last_msip_writes = u.msip_writes, !.reported = c]
    BY <1>8, <1>10, <2>1, <2>2 DEF IpiReport
  <2>4. y = [z \in IpiFields |-> IF z = "next_report" THEN b ELSE IF z = "last_msip_writes" THEN u.msip_writes
                                 ELSE IF z = "reported" THEN c ELSE u[z]]
    BY <1>5, <2>3 DEF IpiFields
  <2>5. RecordOf(y, IpiFields)
    BY <2>4 DEF RecordOf
  <2>6. SameFiles(u, y) /\ y.msip_writes = u.msip_writes
    BY <2>4 DEF IpiFields, SameFiles
  <2> QED
    BY <1>1, <1>6, <2>5, <2>6 DEF SameFiles
<1> QED
  BY <1>9, <1>10

LEMMA TailAt ==
  ASSUME NEW all \in Seq(Nat), NEW n \in Nat, Len(all) = n + 1
  PROVE  /\ Tail(all) \in Seq(Nat) /\ DOMAIN Tail(all) = 1 .. n
         /\ \A i \in 1 .. n : Tail(all)[i] = all[i + 1]
<1>1. all # << >>
  OBVIOUS
<1>2. Tail(all) \in Seq(Nat) /\ Len(Tail(all)) = n
  BY <1>1
<1> QED
  BY <1>1, <1>2

(* The younger part of an increasing sequence. *)
Shifted(new, all, n) == DOMAIN new = 1 .. n /\ \A i \in 1 .. n : new[i] = all[i + 1]
Rising(all, n, clk) ==
  (\A i, j \in 1 .. n + 1 : i < j => all[i] < all[j]) /\ \A i \in 1 .. n + 1 : all[i] <= clk
HeldFrom(all, n, F) == \A i \in 1 .. n + 1 : i > 1 => \E f \in F : f.cyc = all[i]
NoLater(s, clk) == \A i \in DOMAIN s : s[i] <= clk

LEMMA Younger ==
  ASSUME NEW all, NEW n \in Nat, NEW new, NEW F, NEW clk, Shifted(new, all, n), Rising(all, n, clk), HeldFrom(all, n, F)
  PROVE  CkptsHeld(new, F) /\ NoLater(new, clk)
<1> USE DEF Shifted, Rising, HeldFrom
<1>1. ASSUME NEW i \in 1 .. n
      PROVE  (\E f \in F : f.cyc = new[i]) /\ new[i] <= clk
  <2>1. PICK k \in 1 .. n + 1 : k = i + 1
    OBVIOUS
  <2>2. new[i] = all[k] /\ k > 1
    BY <2>1
  <2> QED
    BY <2>2
<1>2. ASSUME NEW i \in 1 .. n, NEW j \in 1 .. n, i < j
      PROVE  new[i] < new[j]
  <2>1. PICK k \in 1 .. n + 1 : k = i + 1
    OBVIOUS
  <2>2. PICK l \in 1 .. n + 1 : l = j + 1
    OBVIOUS
  <2>3. new[i] = all[k] /\ new[j] = all[l] /\ k < l
    BY <1>2, <2>1, <2>2
  <2> QED
    BY <2>3
<1> QED
  BY <1>1, <1>2 DEF CkptsHeld, NoLater

(* A checkpoint written at clk, after all that are kept. *)
KeptFiles(files, clk, prune, all) == {f \in files : f.cyc # clk /\ ~(prune /\ f.cyc = all[1])}
KeptCkpts(prune, all) == IF prune THEN Tail(all) ELSE all
OlderThan(s, clk) == \A i \in DOMAIN s : s[i] < clk
CkptsGood(new, F, clk) == new \in Seq(Nat) /\ CkptsHeld(new, F) /\ NoLater(new, clk)

LEMMA CkptKept ==
  ASSUME NEW ckpts \in Seq(Nat), NEW clk \in Nat, NEW files, CkptsHeld(ckpts, files), OlderThan(ckpts, clk),
         NEW file, file.cyc = clk, NEW all, all = Append(ckpts, clk), NEW prune \in BOOLEAN,
         NEW kept, kept = KeptFiles(files, clk, prune, all), NEW new, new = KeptCkpts(prune, all)
  PROVE  CkptsGood(new, kept \cup {file}, clk)
<1> USE DEF KeptFiles, KeptCkpts, OlderThan, CkptsGood
<1>1. PICK n \in Nat : n = Len(ckpts)
  OBVIOUS
<1>2. /\ all \in Seq(Nat) /\ Len(all) = n + 1 /\ DOMAIN all = 1 .. n + 1 /\ DOMAIN ckpts = 1 .. n
      /\ all[n + 1] = clk /\ \A i \in 1 .. n : all[i] = ckpts[i]
  BY <1>1
<1>3. ASSUME NEW i \in 1 .. n + 1, NEW j \in 1 .. n + 1, i < j
      PROVE  all[i] < all[j]
  <2>1. i \in 1 .. n /\ all[i] = ckpts[i]
    BY <1>2, <1>3
  <2>2. CASE j = n + 1
    BY <1>2, <2>1, <2>2
  <2>3. CASE j # n + 1
    <3>1. j \in 1 .. n /\ all[j] = ckpts[j]
      BY <1>2, <2>3
    <3> QED
      BY <1>2, <1>3, <2>1, <3>1 DEF CkptsHeld
  <2> QED
    BY <2>2, <2>3
<1>4. \A i \in 1 .. n + 1 : all[i] \in Nat /\ all[i] <= clk
  BY <1>2
<1>5. ASSUME NEW i \in 1 .. n + 1, prune => i > 1
      PROVE  \E f \in kept \cup {file} : f.cyc = all[i]
  <2>1. CASE i = n + 1
    BY <1>2, <2>1
  <2>2. CASE i # n + 1
    <3>1. i \in 1 .. n /\ all[i] = ckpts[i]
      BY <1>2, <2>2
    <3>2. PICK f \in files : f.cyc = ckpts[i]
      BY <1>2, <3>1 DEF CkptsHeld
    <3>3. f.cyc # clk /\ ~(prune /\ f.cyc = all[1])
      <4>1. ckpts[i] < clk /\ ckpts[i] \in Nat
        BY <1>2, <3>1, SMTT(30)
      <4>2. prune => all[1] < all[i] /\ all[1] \in Nat
        <5>1. 1 \in 1 .. n + 1 /\ (prune => 1 < i)
          BY <1>5
        <5> QED
          BY <1>3, <1>4, <5>1
      <4> QED
        BY <3>1, <3>2, <4>1, <4>2
    <3> QED
      BY <3>1, <3>2, <3>3
  <2> QED
    BY <2>1, <2>2
<1>6. CASE ~prune
  <2>1. new = all
    BY <1>6
  <2>2. DOMAIN new = 1 .. n + 1
    BY <1>2, <2>1
  <2>3. CkptsHeld(new, kept \cup {file})
    BY <1>3, <1>5, <1>6, <2>1, <2>2 DEF CkptsHeld
  <2> QED
    BY <1>2, <1>4, <2>1, <2>2, <2>3 DEF NoLater
<1>7. CASE prune
  <2>1. new = Tail(all)
    BY <1>7
  <2>2. new \in Seq(Nat) /\ DOMAIN new = 1 .. n /\ \A i \in 1 .. n : new[i] = all[i + 1]
    BY <1>2, <2>1, TailAt
  <2>3. PICK F : F = kept \cup {file}
    OBVIOUS
  <2>4. HeldFrom(all, n, F)
    BY <1>5, <2>3 DEF HeldFrom
  <2>5. Rising(all, n, clk)
    BY <1>3, <1>4 DEF Rising
  <2>6. Shifted(new, all, n)
    BY <2>2 DEF Shifted
  <2>7. CkptsHeld(new, F) /\ NoLater(new, clk)
    BY <2>4, <2>5, <2>6, Younger
  <2> QED
    BY <2>2, <2>3, <2>7
<1> QED
  BY <1>6, <1>7

(* A probe whose counters belong to the model g, before its checkpoint. *)
IpiReady(v, g, replays) ==
  /\ RecordOf(v, IpiFields) /\ v.cyc \in Nat /\ v.msip_writes \in [Harts -> Int] /\ v.ckpts \in Seq(Nat)
  /\ Counted(v.msip_writes, g, replays) /\ CkptsHeld(v.ckpts, v.files)
  /\ \A f \in v.files : FileOK(f)
  /\ \A i \in DOMAIN v.ckpts : v.ckpts[i] < v.cyc

LEMMA ReadyIsInv ==
  ASSUME NEW v, NEW g, NEW replays, IpiReady(v, g, replays)
  PROVE  IpiInv(v, g, replays)
<1>1. v.ckpts \in Seq(Nat) /\ v.cyc \in Nat /\ \A i \in DOMAIN v.ckpts : v.ckpts[i] < v.cyc
  BY DEF IpiReady
<1>2. \A i \in DOMAIN v.ckpts : v.ckpts[i] <= v.cyc
  BY <1>1
<1> QED
  BY <1>2 DEF IpiReady, IpiInv

LEMMA CkptStep ==
  ASSUME CrossArgs, NEW v, NEW g, NEW opens, GuestOK(g), NEW replays \in [Harts -> Nat], replays = xseen.replays,
         IpiReady(v, g, replays), NEW y, y = IpiCheckpoint(v, g, opens)
  PROVE  IpiInv(y, g, replays) /\ y.cyc = v.cyc /\ y.stop = v.stop
<1>1. DOMAIN v = IpiFields
  BY DEF IpiReady, RecordOf
<1>2. PICK all : all = Append(v.ckpts, v.cyc)
  OBVIOUS
<1>3. PICK prune \in BOOLEAN : prune <=> (cmd.keep # 0 /\ Len(all) > cmd.keep)
  OBVIOUS
<1>4. PICK file : file = [cyc |-> v.cyc, msip_writes |-> v.msip_writes, model |-> g, replays |-> replays]
  OBVIOUS
<1>5. PICK kept : kept = {f \in v.files : f.cyc # v.cyc /\ ~(prune /\ f.cyc = all[1])}
  OBVIOUS
<1>6. PICK new : new = IF prune THEN Tail(all) ELSE all
  OBVIOUS
<1>7. CASE v.cyc < v.next_ckpt
  <2>1. y = v
    BY <1>7 DEF IpiCheckpoint
  <2> QED
    BY <2>1, ReadyIsInv
<1>8. CASE ~(v.cyc < v.next_ckpt) /\ ~opens
  <2>1. PICK n : n = cmd.never
    OBVIOUS
  <2>2. y = [v EXCEPT !.next_ckpt = n]
    BY <1>8, <2>1 DEF IpiCheckpoint
  <2>3. y = [z \in IpiFields |-> IF z = "next_ckpt" THEN n ELSE v[z]]
    BY <1>1, <2>2 DEF IpiFields
  <2>4. RecordOf(y, IpiFields)
    BY <2>3 DEF RecordOf
  <2>5. y.cyc = v.cyc /\ y.ckpts = v.ckpts /\ y.files = v.files /\ y.stop = v.stop /\ y.msip_writes = v.msip_writes
    BY <2>3 DEF IpiFields
  <2>6. IpiReady(y, g, replays)
    BY <2>4, <2>5 DEF IpiReady
  <2> QED
    BY <2>5, <2>6, ReadyIsInv
<1>9. CASE ~(v.cyc < v.next_ckpt) /\ opens
  <2>1. PICK n : n = v.cyc + cmd.every
    OBVIOUS
  <2>2. PICK F : F = kept \cup {file}
    OBVIOUS
  <2>3. y = [v EXCEPT !.next_ckpt = n, !.files = F, !.ckpts = new]
    <3>1. prune = (cmd.keep # 0 /\ Len(all) > cmd.keep)
      BY <1>3
    <3>2. y = [v EXCEPT !.next_ckpt = v.cyc + cmd.every,
                        !.files = {f \in v.files : f.cyc # v.cyc /\ ~(prune /\ f.cyc = all[1])} \cup {file},
                        !.ckpts = IF prune THEN Tail(all) ELSE all]
      BY <1>2, <1>4, <1>9, <3>1, Zenon DEF IpiCheckpoint
    <3> QED
      BY <1>5, <1>6, <2>1, <2>2, <3>2
  <2>4. y = [z \in IpiFields |-> IF z = "next_ckpt" THEN n ELSE IF z = "files" THEN F ELSE IF z = "ckpts" THEN new ELSE v[z]]
    BY <1>1, <2>3 DEF IpiFields
  <2>5. RecordOf(y, IpiFields)
    BY <2>4 DEF RecordOf
  <2>6. y.cyc = v.cyc /\ y.ckpts = new /\ y.files = F /\ y.stop = v.stop /\ y.msip_writes = v.msip_writes
    BY <2>4 DEF IpiFields
  <2>7. FileOK(file) /\ file.cyc = v.cyc
    <3>1. file.cyc = v.cyc /\ file.msip_writes = v.msip_writes /\ file.model = g /\ file.replays = replays
      BY <1>4
    <3> QED
      BY <3>1 DEF FileOK, IpiReady
  <2>8. \A f \in F : FileOK(f)
    <3>1. \A f \in v.files : FileOK(f)
      BY DEF IpiReady
    <3> QED
      BY <1>5, <2>2, <2>7, <3>1
  <2>9. /\ new \in Seq(Nat) /\ CkptsHeld(new, F)
        /\ \A i \in DOMAIN new : new[i] <= v.cyc
    <3>1. PICK ckpts \in Seq(Nat) : ckpts = v.ckpts
      BY DEF IpiReady
    <3>2. PICK clk \in Nat : clk = v.cyc
      BY DEF IpiReady
    <3>3. PICK files : files = v.files
      OBVIOUS
    <3>4. CkptsHeld(ckpts, files) /\ OlderThan(ckpts, clk) /\ file.cyc = clk
      BY <2>7, <3>1, <3>2, <3>3 DEF IpiReady, OlderThan
    <3>5. all = Append(ckpts, clk) /\ kept = KeptFiles(files, clk, prune, all) /\ new = KeptCkpts(prune, all)
      BY <1>2, <1>5, <1>6, <3>1, <3>2, <3>3 DEF KeptFiles, KeptCkpts
    <3>6. CkptsGood(new, kept \cup {file}, clk)
      BY <3>4, <3>5, CkptKept
    <3> QED
      BY <2>2, <3>2, <3>6 DEF CkptsGood, NoLater
  <2>10. v.cyc \in Nat /\ v.msip_writes \in [Harts -> Int] /\ Counted(v.msip_writes, g, replays)
    BY DEF IpiReady
  <2> QED
    BY <2>5, <2>6, <2>8, <2>9, <2>10 DEF IpiInv
<1> QED
  BY <1>7, <1>8, <1>9

LEMMA IpiTurn ==
  ASSUME CrossArgs, NEW w, NEW g, NEW f, NEW m, GuestOK(g), GuestOK(f), ClockIs(g, f, m), NEW opens,
         NEW replays \in [Harts -> Nat], replays = xseen.replays, IpiInv(w, g, replays),
         NEW y, y = linux_ipi([w EXCEPT !.cyc = @ + 1], f, opens)
  PROVE  IpiInv(y, f, replays)
<1>1. PICK x : x = [w EXCEPT !.cyc = @ + 1]
  OBVIOUS
<1>2. DOMAIN w = IpiFields /\ w.cyc \in Nat
  BY DEF IpiInv, RecordOf
<1>3. x = [z \in IpiFields |-> IF z = "cyc" THEN w.cyc + 1 ELSE w[z]]
  BY <1>1, <1>2 DEF IpiFields
<1>4. RecordOf(x, IpiFields)
  BY <1>3 DEF RecordOf
<1>5. x.cyc = w.cyc + 1 /\ x.ckpts = w.ckpts /\ x.files = w.files /\ x.msip_writes = w.msip_writes
  BY <1>3 DEF IpiFields
<1>6. PICK v : v = IpiReport(CountMsip(x, f))
  OBVIOUS
<1>7. RecordOf(v, IpiFields) /\ SameFiles(x, v) /\ v.msip_writes = [t \in Harts |-> x.msip_writes[t] + Pulses(f, t)]
  BY <1>4, <1>6, CountOf
<1>8. v.cyc = w.cyc + 1 /\ v.ckpts = w.ckpts /\ v.files = w.files
  BY <1>5, <1>7 DEF SameFiles
<1>9. \A t \in Harts : Pulses(f, t) \in Nat
  <2>1. TwoHarts
    BY DEF CrossArgs
  <2> QED
    BY <2>1, PulsesNat
<1>10. w.msip_writes \in [Harts -> Int] /\ \A t \in Harts : w.msip_writes[t] = g.sent[t] + replays[t]
  BY DEF IpiInv, Counted
<1>11. \A t \in Harts : f.sent[t] = g.sent[t] + Pulses(f, t) /\ g.sent[t] \in Nat /\ replays[t] \in Nat
  BY DEF ClockIs, Pulses, GuestOK, GuestTypes
<1>12. v.msip_writes \in [Harts -> Int]
  BY <1>5, <1>7, <1>9, <1>10
<1>13. Counted(v.msip_writes, f, replays)
  <2>1. ASSUME NEW t \in Harts
        PROVE  v.msip_writes[t] = f.sent[t] + replays[t]
    <3>1. v.msip_writes[t] = w.msip_writes[t] + Pulses(f, t)
      BY <1>5, <1>7
    <3>2. PICK k \in Nat : k = Pulses(f, t)
      BY <1>9
    <3> QED
      BY <1>10, <1>11, <3>1, <3>2
  <2> QED
    BY <2>1 DEF Counted
<1>14. /\ w.ckpts \in Seq(Nat) /\ CkptsHeld(w.ckpts, w.files) /\ (\A e \in w.files : FileOK(e))
       /\ \A i \in DOMAIN w.ckpts : w.ckpts[i] <= w.cyc
  BY DEF IpiInv
<1>15. \A i \in DOMAIN w.ckpts : w.ckpts[i] < w.cyc + 1
  BY <1>2, <1>14
<1>16. IpiReady(v, f, replays)
  BY <1>2, <1>7, <1>8, <1>12, <1>13, <1>14, <1>15 DEF IpiReady
<1>17. y = IpiCheckpoint(v, f, opens)
  BY <1>1, <1>6, Zenon DEF linux_ipi
<1> QED
  BY <1>16, <1>17, CkptStep

(* A restart takes its counters and its model from the same file. *)
LEMMA IpiRestart ==
  ASSUME CrossArgs, NEW w, NEW g, NEW old, IpiInv(w, g, old), NEW f \in w.files,
         NEW y, y = linux_ipi(IpiStart(f.cyc, f.msip_writes, w.files), f.model, TRUE),
         NEW replays, replays = [t \in Harts |-> f.replays[t] + Pulses(f.model, t)]
  PROVE  IpiInv(y, f.model, replays) /\ GuestOK(f.model) /\ replays \in [Harts -> Nat]
<1>1. FileOK(f)
  BY DEF IpiInv
<1>2. GuestOK(f.model) /\ f.cyc \in Nat /\ f.msip_writes \in [Harts -> Int] /\ f.replays \in [Harts -> Nat]
      /\ \A t \in Harts : f.msip_writes[t] = f.model.sent[t] + f.replays[t]
  BY <1>1 DEF FileOK, Counted
<1>3. PICK x : x = IpiStart(f.cyc, f.msip_writes, w.files)
  OBVIOUS
<1>4. RecordOf(x, IpiFields)
  BY <1>3 DEF IpiStart, IpiFields, RecordOf
<1>5. x.cyc = f.cyc /\ x.msip_writes = f.msip_writes /\ x.ckpts = << >> /\ x.files = w.files
      /\ x.next_ckpt = NextMultiple(f.cyc, cmd.every)
  BY <1>3 DEF IpiStart
<1>6. PICK v : v = IpiReport(CountMsip(x, f.model))
  OBVIOUS
<1>7. RecordOf(v, IpiFields) /\ SameFiles(x, v)
      /\ v.msip_writes = [t \in Harts |-> x.msip_writes[t] + Pulses(f.model, t)]
  BY <1>4, <1>6, CountOf
<1>8. v.cyc = f.cyc /\ v.ckpts = << >> /\ v.files = w.files /\ v.next_ckpt = NextMultiple(f.cyc, cmd.every)
  BY <1>5, <1>7 DEF SameFiles
<1>9. v.cyc < v.next_ckpt
  <2>1. cmd.every \in Nat \ {0}
    BY DEF CrossArgs
  <2> QED
    BY <1>2, <1>8, <2>1, NextLater
<1>10. y = v
  <2>1. y = IpiCheckpoint(v, f.model, TRUE)
    BY <1>3, <1>6, Zenon DEF linux_ipi
  <2> QED
    BY <1>9, <2>1 DEF IpiCheckpoint
<1>11. \A t \in Harts : Pulses(f.model, t) \in Nat /\ f.model.sent[t] \in Nat
  <2>1. TwoHarts /\ f.model.sent \in [Harts -> Nat]
    BY <1>2 DEF CrossArgs, GuestOK, GuestTypes
  <2> QED
    BY <2>1, PulsesNat
<1>12. v.msip_writes \in [Harts -> Int] /\ replays \in [Harts -> Nat]
  BY <1>2, <1>5, <1>7, <1>11
<1>13. Counted(v.msip_writes, f.model, replays)
  <2>1. ASSUME NEW t \in Harts
        PROVE  v.msip_writes[t] = f.model.sent[t] + replays[t]
    <3>1. PICK k \in Nat : k = Pulses(f.model, t)
      BY <1>11
    <3>2. v.msip_writes[t] = f.msip_writes[t] + k /\ replays[t] = f.replays[t] + k
      BY <1>5, <1>7, <3>1
    <3> QED
      BY <1>2, <1>11, <3>2
  <2> QED
    BY <2>1 DEF Counted
<1>14. << >> \in Seq(Nat) /\ DOMAIN << >> = {}
  OBVIOUS
<1>15. CkptsHeld(v.ckpts, v.files) /\ v.ckpts \in Seq(Nat) /\ \A i \in DOMAIN v.ckpts : v.ckpts[i] <= v.cyc
  BY <1>8, <1>14 DEF CkptsHeld
<1>16. \A e \in v.files : FileOK(e)
  BY <1>8 DEF IpiInv
<1>17. IpiInv(v, f.model, replays)
  BY <1>2, <1>7, <1>8, <1>12, <1>13, <1>15, <1>16 DEF IpiInv
<1> QED
  BY <1>2, <1>10, <1>12, <1>17

(* What holds between two steps of a cross-call probe. *)
CrossState(w, g, o) ==
  /\ GuestOK(g) /\ SeenTypes(o)
  /\ IsLlist => LlistInv(w, g, o) /\ StopsRight(w, o) /\ Blames(w, g, o)
  /\ IsCsd => CsdInv(w, g, o) /\ CsdRight(w, g, o)
  /\ IsIpi => IpiInv(w, g, o.replays)

CrossIInv == cmd \in Commands /\ (cmd.tool \in CrossTools => CrossState(xw, xg, xseen))

LEMMA CrossOne ==
  /\ cmd.tool \in CrossTools <=> IsLlist \/ IsCsd \/ IsIpi
  /\ ~(IsLlist /\ IsCsd) /\ ~(IsLlist /\ IsIpi) /\ ~(IsCsd /\ IsIpi)
BY DEF IsLlist, IsCsd, IsIpi, CrossTools

LEMMA CrossArgsHold ==
  ASSUME cmd \in Commands, cmd.tool \in CrossTools
  PROVE  CrossArgs
<1>1. /\ NUM_HARTS = 2 /\ cmd.watch \in {Unset, 0, 1}
      /\ {cmd.hang, cmd.tail, cmd.keep, cmd.run} \subseteq Nat /\ {cmd.every, cmd.report} \subseteq Nat \ {0}
  BY CrossCommands
<1>2. TwoHarts
  BY <1>1 DEF TwoHarts, Harts
<1> QED
  BY <1>1, <1>2 DEF CrossArgs

LEMMA SameCross ==
  ASSUME NEW w, NEW g, NEW o, cmd' = cmd
  PROVE  CrossState(w, g, o)' <=> CrossState(w, g, o)
BY DEF CrossState, IsLlist, IsCsd, IsIpi, LlistInv, StopsRight, WaitsLong, LockedLong, CsdInv, CsdTimes, CsdRight

(* The start. *)
LEMMA NothingYet ==
  /\ \A k : Places(k, << >>) = {} /\ Unclaimed(<< >>) = {} /\ Cardinality({}) = 0 /\ IsFiniteSet({})
BY FS_EmptySet DEF Places, Unclaimed

LEMMA GuestStarts ==
  ASSUME TwoHarts
  PROVE  GuestOK(GuestInit)
<1>1. PICK g : g = GuestInit
  OBVIOUS
<1>2. RecordOf(g, GuestFields)
  BY <1>1 DEF GuestInit, RecordOf, GuestFields
<1>3. /\ g.at = [h \in Harts |-> "work"] /\ g.ret = [h \in Harts |-> "work"] /\ g.msip = [h \in Harts |-> 0]
      /\ g.res = [h \in Harts |-> FALSE] /\ g.ok = [h \in Harts |-> FALSE] /\ g.head = [h \in Harts |-> {}]
      /\ g.chain = [h \in Harts |-> {}] /\ g.lock = [h \in Harts |-> 0] /\ g.val = [h \in Harts |-> Unset]
      /\ g.dram = [h \in Harts |-> 0] /\ g.round = [h \in Harts |-> 0] /\ g.fired = [h \in Harts |-> FALSE]
      /\ g.pc = [h \in Harts |-> "none"] /\ g.pulse = [h \in Harts |-> Unset] /\ g.sent = [h \in Harts |-> 0]
      /\ g.done = [h \in Harts |-> << >>]
  BY <1>1 DEF GuestInit
<1>4. GuestTypes(g)
  <2>1. "work" \in Labels /\ "work" \in Labels \ CallHandler /\ "none" \in Labels \cup {"none"} /\ << >> \in Seq(Ops)
        /\ {} \in SUBSET Nodes
    BY DEF Labels, CallHandler
  <2> QED
    BY <1>2, <1>3, <2>1 DEF GuestTypes
<1>5. Walks(g)
  BY <1>3 DEF Walks
<1>6. NodesNew(g)
  <2>1. \A h \in Harts : g.head[Peer(h)] = {}
    BY <1>3, PeerIs
  <2> QED
    BY <2>1 DEF NodesNew
<1>7. HeadsCount(g)
  <2>1. \A q \in Harts : g.head[q] = {} /\ g.done[q] = << >>
    BY <1>3
  <2> QED
    BY <2>1, NothingYet DEF HeadsCount
<1> QED
  BY <1>1, <1>4, <1>5, <1>6, <1>7 DEF GuestOK

LEMMA SeenStarts == SeenTypes(SeenInit)
<1>1. PICK o : o = SeenInit
  OBVIOUS
<1>2. RecordOf(o, SeenFields)
  BY <1>1 DEF SeenInit, RecordOf, SeenFields
<1>3. /\ o.wait = [h \in Harts |-> Unset] /\ o.flag = 0 /\ o.flagAt = Unset /\ o.pendAt = Unset /\ o.readAt = Unset
      /\ o.clearAt = Unset /\ o.replays = [q \in Harts |-> 0] /\ o.read = {} /\ Unset = -1
  BY <1>1 DEF SeenInit, ByQueue, Unset
<1> QED
  BY <1>1, <1>2, <1>3 DEF SeenTypes

LEMMA LlistStarts ==
  ASSUME CrossArgs, NEW w, w = LlistInit, NEW g, g = GuestInit, NEW o, o = SeenInit, GuestOK(g)
  PROVE  LlistInv(w, g, o) /\ StopsRight(w, o) /\ Blames(w, g, o)
<1>1. RecordOf(w, LlistFields)
  BY DEF LlistInit, RecordOf, LlistFields
<1>2. /\ w.cyc = 0 /\ w.prev_pc_seen = [h \in Harts |-> "none"] /\ w.pushes = ByQueue /\ w.pops = ByQueue
      /\ w.pops_null = ByQueue /\ w.live = ByQueue /\ w.in_spin = [h \in Harts |-> FALSE] /\ w.spin_since = ByQueue
      /\ w.watch_prev = 0 /\ w.watch_armed = FALSE /\ w.watch_at = 0 /\ w.stop = "none" /\ w.verdict = "none"
  BY DEF LlistInit
<1>3. o.obs = [h \in Harts |-> << >>] /\ o.wait = [h \in Harts |-> Unset] /\ o.flag = 0
      /\ g.pc = [h \in Harts |-> "none"]
  BY DEF SeenInit, GuestInit
<1>4. ByQueue \in [Harts -> Nat] /\ \A q \in Harts : ByQueue[q] = 0
  BY DEF ByQueue
<1>5. LlistTypes(w)
  <2>1. "none" \in Labels \cup {"none"} /\ FALSE \in BOOLEAN
    OBVIOUS
  <2>2. w.prev_pc_seen \in [Harts -> Labels \cup {"none"}]
    BY <1>2, <2>1
  <2>3. w.in_spin \in [Harts -> BOOLEAN]
    BY <1>2, <2>1, Zenon
  <2>4. w.watch_prev \in 0 .. 1 /\ w.watch_at \in Nat /\ w.cyc \in Nat
    BY <1>2
  <2>5. w.watch_armed \in BOOLEAN
    BY <1>2, Zenon
  <2> QED
    BY <1>1, <1>2, <1>4, <2>2, <2>3, <2>4, <2>5 DEF LlistTypes
<1>6. LedgerMem(w, o.obs)
  <2>1. \A q \in Harts : o.obs[q] = << >> /\ w.pushes[q] = 0 /\ w.pops[q] = 0 /\ w.pops_null[q] = 0 /\ w.live[q] = 0
    BY <1>2, <1>3, <1>4
  <2>2. << >> \in Seq(Seen3)
    OBVIOUS
  <2> QED
    BY <2>1, <2>2, NothingYet DEF LedgerMem
<1>7. Spinning(w, g, o)
  BY <1>2, <1>3 DEF Spinning, SpinMem, WaitLoop
<1>8. Watching(w, o)
  BY <1>2, <1>3 DEF Watching
<1>9. StopsRight(w, o)
  BY <1>2, <1>3 DEF StopsRight, LockedLong, WaitsLong
<1> QED
  BY <1>2, <1>3, <1>5, <1>6, <1>7, <1>8, <1>9 DEF LlistInv, Blames

LEMMA CsdStarts ==
  ASSUME NEW w, w = CsdInit, NEW g, g = GuestInit, NEW o, o = SeenInit
  PROVE  CsdInv(w, g, o) /\ CsdRight(w, g, o)
<1>1. RecordOf(w, CsdFields)
  BY DEF CsdInit, RecordOf, CsdFields
<1>2. w.cyc = 0 /\ w.prev_pc_seen = [h \in Harts |-> "none"] /\ w.loaded_vals = {} /\ w.stop = "none"
  BY DEF CsdInit
<1>3. g.pc = [h \in Harts |-> "none"] /\ o.read = {} /\ o.pendAt = -1 /\ o.readAt = -1 /\ o.clearAt = -1
  BY DEF GuestInit, SeenInit, Unset
<1>4. CsdTimes(0, g, o)
  BY <1>3 DEF CsdTimes
<1>5. CsdTypes(w)
  BY <1>1, <1>2 DEF CsdTypes
<1> QED
  BY <1>2, <1>3, <1>4, <1>5 DEF CsdInv, CsdMem, CsdRight

LEMMA IpiStarts ==
  ASSUME NEW w, w = IpiStart(0, ByQueue, {}), NEW g, g = GuestInit, NEW o, o = SeenInit
  PROVE  IpiInv(w, g, o.replays)
<1>1. RecordOf(w, IpiFields)
  BY DEF IpiStart, RecordOf, IpiFields
<1>2. w.cyc = 0 /\ w.msip_writes = ByQueue /\ w.ckpts = << >> /\ w.files = {}
  BY DEF IpiStart
<1>3. ByQueue \in [Harts -> Int] /\ o.replays = ByQueue /\ g.sent = [h \in Harts |-> 0] /\ \A q \in Harts : ByQueue[q] = 0
  BY DEF ByQueue, SeenInit, GuestInit
<1>4. Counted(w.msip_writes, g, o.replays)
  <2>1. \A t \in Harts : w.msip_writes[t] = 0 /\ g.sent[t] = 0 /\ o.replays[t] = 0
    BY <1>2, <1>3
  <2> QED
    BY <2>1 DEF Counted
<1>5. << >> \in Seq(Nat) /\ DOMAIN << >> = {}
  OBVIOUS
<1>6. PICK c \in Seq(Nat) : c = w.ckpts /\ DOMAIN c = {}
  BY <1>2, <1>5
<1>7. CkptsHeld(c, w.files) /\ \A i \in DOMAIN c : c[i] <= w.cyc
  BY <1>6 DEF CkptsHeld
<1>8. \A f \in w.files : FileOK(f)
  BY <1>2
<1>9. w.cyc \in Nat /\ w.msip_writes \in [Harts -> Int]
  BY <1>2, <1>3
<1> QED
  BY <1>1, <1>4, <1>6, <1>7, <1>8, <1>9 DEF IpiInv

LEMMA CrossStarts ==
  ASSUME cmd \in Commands, CrossInit
  PROVE  CrossIInv
<1> SUFFICES ASSUME cmd.tool \in CrossTools
             PROVE  CrossState(xw, xg, xseen)
  BY DEF CrossIInv
<1>1. CrossArgs /\ TwoHarts
  BY CrossArgsHold DEF CrossArgs
<1>2. PICK w, g, o : w = xw /\ g = xg /\ o = xseen
  OBVIOUS
<1>3. g = GuestInit /\ o = SeenInit
  BY <1>2 DEF CrossInit
<1>4. GuestOK(g) /\ SeenTypes(o)
  BY <1>1, <1>3, GuestStarts, SeenStarts
<1>5. (IsLlist => w = LlistInit) /\ (IsCsd => w = CsdInit) /\ (IsIpi => w = IpiStart(0, ByQueue, {}))
  <2>1. ~(IsLlist /\ IsCsd) /\ ~(IsLlist /\ IsIpi) /\ ~(IsCsd /\ IsIpi)
    BY CrossOne
  <2> QED
    BY <1>2, <2>1 DEF CrossInit
<1>6. IsLlist => LlistInv(w, g, o) /\ StopsRight(w, o) /\ Blames(w, g, o)
  BY <1>1, <1>3, <1>4, <1>5, LlistStarts
<1>7. IsCsd => CsdInv(w, g, o) /\ CsdRight(w, g, o)
  BY <1>3, <1>5, CsdStarts
<1>8. IsIpi => IpiInv(w, g, o.replays)
  BY <1>3, <1>5, IpiStarts
<1>9. CrossState(w, g, o)
  BY <1>4, <1>6, <1>7, <1>8 DEF CrossState
<1> QED
  BY <1>2, <1>9

(* A clock of the guest and the turn of the probe that samples it. *)
LEMMA CrossClockKeeps ==
  ASSUME CrossIInv, CrossClock
  PROVE  CrossIInv'
<1>1. cmd \in Commands /\ cmd.tool \in CrossTools /\ cmd' = cmd /\ xw.stop = "none" /\ CrossState(xw, xg, xseen)
  BY DEF CrossIInv, CrossClock
<1>2. CrossArgs /\ TwoHarts
  BY <1>1, CrossArgsHold DEF CrossArgs
<1>3. PICK m \in [Harts -> {"stall", "hold", "step", "trap"}], first \in Harts, wb \in {{}} \cup {{h} : h \in cmd.send} :
       /\ \A h \in Harts : m[h] \in HartMoves(xg, h)
       /\ xg' = GuestClock(xg, m, first, wb)
       /\ xseen' = Observe(xseen, m, xg', xw.cyc + 1, xw.cyc + 1 = cmd.run)
       /\ \/ IsLlist /\ xw' = linux_llist(xw, xg')
          \/ IsCsd /\ xw' = linux_csd(xw, xg')
          \/ IsIpi /\ \E opens \in cmd.opens : xw' = linux_ipi([xw EXCEPT !.cyc = @ + 1], xg', opens)
  BY DEF CrossClock
<1>4. PICK w, g, o : w = xw /\ g = xg /\ o = xseen
  OBVIOUS
<1>5. PICK f, y, p : f = xg' /\ y = xw' /\ p = xseen'
  OBVIOUS
<1>6. PICK last \in BOOLEAN : last = (w.cyc + 1 = cmd.run)
  OBVIOUS
<1>7. GuestOK(g) /\ SeenTypes(o)
  BY <1>1, <1>4 DEF CrossState
<1>8. GuestOK(f) /\ ClockIs(g, f, m)
  <2>1. \A h \in Harts : m[h] = "trap" => g.at[h] \notin CallHandler
    BY <1>3, <1>4 DEF HartMoves
  <2>2. f = GuestClock(g, m, first, wb)
    BY <1>3, <1>4, <1>5
  <2> QED
    BY <1>2, <1>7, <2>1, <2>2, ClockTurn
<1>9. w.cyc \in Nat
  <2>1. IsLlist => w.cyc \in Nat
    BY <1>1, <1>4 DEF CrossState, LlistInv, LlistTypes
  <2>2. IsCsd => w.cyc \in Nat
    BY <1>1, <1>4 DEF CrossState, CsdInv, CsdTypes
  <2>3. IsIpi => w.cyc \in Nat
    BY <1>1, <1>4 DEF CrossState, IpiInv
  <2> QED
    BY <1>1, <2>1, <2>2, <2>3, CrossOne
<1>10. ObserveIs(o, p, m, f, w.cyc + 1, last)
  <2>1. p = Observe(o, m, f, w.cyc + 1, last)
    BY <1>3, <1>4, <1>5, <1>6
  <2>2. RecordOf(o, SeenFields)
    BY <1>7 DEF SeenTypes
  <2> QED
    BY <2>1, <2>2, ObserveOf
<1>11. SeenTypes(p)
  <2>1. w.cyc + 1 \in Nat
    BY <1>9
  <2> QED
    BY <1>2, <1>7, <1>8, <1>10, <2>1, ObserveTypes
<1>12. ASSUME IsLlist
       PROVE  CrossState(y, f, p)
  <2>1. ~IsCsd /\ ~IsIpi
    BY <1>12, CrossOne
  <2>2. y = linux_llist(w, f)
    BY <1>3, <1>4, <1>5, <2>1
  <2>3. LlistInv(w, g, o) /\ w.stop = "none"
    BY <1>1, <1>4, <1>12 DEF CrossState
  <2>4. last <=> w.cyc + 1 = cmd.run
    BY <1>6
  <2>5. LlistInv(y, f, p) /\ StopsRight(y, p) /\ VerdictRight(y)
    BY <1>2, <1>7, <1>8, <1>10, <1>11, <1>12, <2>2, <2>3, <2>4, LlistTurn
  <2>6. LedgerMem(y, p.obs)
    BY <2>5 DEF LlistInv
  <2>7. Blames(y, f, p)
    BY <1>8, <2>5, <2>6, LedgerSays
  <2> QED
    BY <1>8, <1>11, <2>1, <2>5, <2>7 DEF CrossState
<1>13. ASSUME IsCsd
       PROVE  CrossState(y, f, p)
  <2>1. ~IsLlist /\ ~IsIpi
    BY <1>13, CrossOne
  <2>2. y = linux_csd(w, f)
    BY <1>3, <1>4, <1>5, <2>1
  <2>3. CsdInv(w, g, o) /\ w.stop = "none"
    BY <1>1, <1>4, <1>13 DEF CrossState
  <2>4. last <=> w.cyc + 1 = cmd.run
    BY <1>6
  <2>5. g = xg
    BY <1>4
  <2>6. CsdInv(y, f, p) /\ CsdRight(y, f, p)
    BY <1>2, <1>7, <1>8, <1>10, <1>11, <2>2, <2>3, <2>4, <2>5, CsdTurn
  <2> QED
    BY <1>8, <1>11, <2>1, <2>6 DEF CrossState
<1>14. ASSUME IsIpi
       PROVE  CrossState(y, f, p)
  <2>1. ~IsLlist /\ ~IsCsd
    BY <1>14, CrossOne
  <2>2. PICK opens : y = linux_ipi([w EXCEPT !.cyc = @ + 1], f, opens)
    BY <1>3, <1>4, <1>5, <2>1
  <2>3. PICK replays \in [Harts -> Nat] : replays = o.replays
    BY <1>7 DEF SeenTypes
  <2>4. replays = xseen.replays /\ p.replays = replays
    BY <1>4, <1>10, <2>3 DEF ObserveIs
  <2>5. IpiInv(w, g, replays)
    BY <1>1, <1>4, <1>14, <2>3 DEF CrossState
  <2>6. IpiInv(y, f, replays)
    BY <1>2, <1>7, <1>8, <2>2, <2>4, <2>5, IpiTurn
  <2> QED
    BY <1>8, <1>11, <2>1, <2>4, <2>6 DEF CrossState
<1>15. CrossState(y, f, p)
  BY <1>1, <1>12, <1>13, <1>14, CrossOne
<1>16. CrossState(y, f, p)'
  BY <1>1, <1>15, SameCross
<1> QED
  BY <1>1, <1>5, <1>16 DEF CrossIInv

LEMMA RestartKeeps ==
  ASSUME CrossIInv, Restart
  PROVE  CrossIInv'
<1>1. cmd \in Commands /\ IsIpi /\ cmd' = cmd
  BY DEF CrossIInv, Restart
<1>2. cmd.tool \in CrossTools /\ ~IsLlist /\ ~IsCsd
  BY <1>1, CrossOne
<1>3. CrossArgs
  BY <1>1, <1>2, CrossArgsHold
<1>4. PICK w, g, o : w = xw /\ g = xg /\ o = xseen
  OBVIOUS
<1>5. GuestOK(g) /\ SeenTypes(o) /\ IpiInv(w, g, o.replays)
  BY <1>1, <1>2, <1>4 DEF CrossIInv, CrossState
<1>6. PICK f \in w.files :
       /\ xg' = f.model
       /\ xw' = linux_ipi(IpiStart(f.cyc, f.msip_writes, w.files), f.model, TRUE)
       /\ xseen' = [o EXCEPT !.kills = @ + 1,
                      !.replays = [t \in Harts |-> f.replays[t] + Cardinality({h \in Harts : f.model.pulse[h] = t})]]
  BY <1>4 DEF Restart
<1>7. PICK n, y, p : n = xg' /\ y = xw' /\ p = xseen'
  OBVIOUS
<1>8. PICK r : r = [t \in Harts |-> f.replays[t] + Pulses(f.model, t)]
  OBVIOUS
<1>9. y = linux_ipi(IpiStart(f.cyc, f.msip_writes, w.files), f.model, TRUE) /\ n = f.model
  BY <1>6, <1>7
<1>10. IpiInv(y, n, r) /\ GuestOK(n) /\ r \in [Harts -> Nat]
  <2>1. IpiInv(y, f.model, r) /\ GuestOK(f.model) /\ r \in [Harts -> Nat]
    BY <1>3, <1>5, <1>8, <1>9, IpiRestart
  <2> QED
    BY <1>9, <2>1
<1>11. PICK k : k = o.kills + 1
  OBVIOUS
<1>12. p = [o EXCEPT !.kills = k, !.replays = r]
  BY <1>6, <1>7, <1>8, <1>11 DEF Pulses
<1>13. DOMAIN o = SeenFields
  BY <1>5 DEF SeenTypes, RecordOf
<1>14. p = [z \in SeenFields |-> IF z = "kills" THEN k ELSE IF z = "replays" THEN r ELSE o[z]]
  BY <1>12, <1>13 DEF SeenFields
<1>15. RecordOf(p, SeenFields)
  BY <1>14 DEF RecordOf
<1>16. /\ p.wait = o.wait /\ p.flag = o.flag /\ p.flagAt = o.flagAt /\ p.pendAt = o.pendAt /\ p.readAt = o.readAt
       /\ p.clearAt = o.clearAt /\ p.read = o.read /\ p.replays = r
  BY <1>14 DEF SeenFields
<1>17. SeenTypes(p)
  BY <1>5, <1>10, <1>15, <1>16 DEF SeenTypes
<1>18. CrossState(y, n, p)
  BY <1>2, <1>10, <1>16, <1>17 DEF CrossState
<1>19. CrossState(y, n, p)'
  BY <1>1, <1>18, SameCross
<1> QED
  BY <1>1, <1>7, <1>19 DEF CrossIInv

LEMMA CrossStays ==
  ASSUME CrossIInv, UNCHANGED <<cmd, crossVars>>
  PROVE  CrossIInv'
<1>1. cmd' = cmd /\ xw' = xw /\ xg' = xg /\ xseen' = xseen
  BY DEF crossVars
<1>2. PICK w, g, o : w = xw /\ g = xg /\ o = xseen
  OBVIOUS
<1>3. CrossState(w, g, o)' <=> CrossState(w, g, o)
  BY <1>1, SameCross
<1> QED
  BY <1>1, <1>2, <1>3 DEF CrossIInv

LEMMA CrossFollows ==
  ASSUME CrossIInv
  PROVE  CrossCallSound
<1>1. (IsLlist \/ IsCsd \/ IsIpi) => CrossState(xw, xg, xseen)
  BY CrossOne DEF CrossIInv
<1>2. LedgerExact
  <2> SUFFICES ASSUME IsLlist
               PROVE  \A q \in Harts :
                        /\ xw.pushes[q] = Cardinality(Places("push", xseen.obs[q]))
                        /\ xw.pops[q] = Cardinality(Places("pop", xseen.obs[q]))
                        /\ xw.pops_null[q] = Cardinality(Places("null", xseen.obs[q]))
                        /\ xg.done[q] = xseen.obs[q] => xw.live[q] = Cardinality(xg.head[q])
    BY DEF LedgerExact
  <2>1. GuestOK(xg) /\ LedgerMem(xw, xseen.obs)
    BY <1>1 DEF CrossState, LlistInv
  <2>2. \A q \in Harts : xg.done[q] = xseen.obs[q] => xw.live[q] = Cardinality(xg.head[q])
    BY <2>1, LedgerSays
  <2> QED
    BY <2>1, <2>2 DEF LedgerMem
<1>3. LeakSound
  <2>1. IsLlist => Blames(xw, xg, xseen)
    BY <1>1 DEF CrossState
  <2> QED
    BY <2>1 DEF LeakSound, Blames
<1>4. StopExact
  <2>1. IsLlist => StopsRight(xw, xseen)
    BY <1>1 DEF CrossState
  <2> QED
    BY <2>1 DEF StopExact, StopsRight, LockedLong, WaitsLong
<1>5. CsdVerdictSound
  <2>1. IsCsd => CsdRight(xw, xg, xseen)
    BY <1>1 DEF CrossState
  <2> QED
    BY <2>1 DEF CsdVerdictSound, CsdRight
<1>6. IpiCountsExact
  <2>1. IsIpi => IpiInv(xw, xg, xseen.replays)
    BY <1>1 DEF CrossState
  <2> QED
    BY <2>1 DEF IpiCountsExact, IpiInv, Counted, FileOK, CkptsHeld
<1> QED
  BY <1>2, <1>3, <1>4, <1>5, <1>6 DEF CrossCallSound

(* For any two harts that call each other, any timing, fault of the machine  *)
(* and thresholds, the cross-call probes say what happened: the ledger of    *)
(* the queues and the IPI counters match the guest through any number of     *)
(* kills and restores, the run stops in the first clock it should, and the   *)
(* verdicts blame the memory or the kernel only where the events do.         *)
THEOREM CrossCallSafety == CrossSpec => []CrossCallSound
<1>1. cmd \in Commands /\ CrossInit => CrossIInv
  BY CrossStarts
<1>2. CrossIInv /\ [CrossNext]_<<cmd, crossVars>> => CrossIInv'
  BY CrossClockKeeps, RestartKeeps, CrossStays DEF CrossNext
<1>3. CrossIInv => CrossCallSound
  BY CrossFollows
<1> QED
  BY <1>1, <1>2, <1>3, PTL DEF CrossSpec
=============================================================================
