--------------------------- MODULE RenameProofs ---------------------------
(***************************************************************************)
(* Renaming for any number of architectural and physical registers,        *)
(* checkpoints and reorder buffer entries: no physical register leaks or   *)
(* has two owners, the front-end map names the youngest pending writer of  *)
(* each register, and a valid bit is set exactly when the value exists,    *)
(* across any interleaving of renaming, execution, retirement and          *)
(* misprediction.                                                          *)
(***************************************************************************)
EXTENDS Rename, FiniteSetTheorems, SequenceTheorems, WellFoundedInduction, TLAPS

(***************************************************************************)
(* A list of pending instructions P over an architectural map arch, and    *)
(* what a map, a free list or a valid list must be when it reflects the    *)
(* first k of them.  The current lists reflect all; the checkpoint of a    *)
(* branch reflects the list up to that branch.                             *)
(***************************************************************************)
DestsOf(P) == {i \in DOMAIN P : Writes(P[i])}

IsHeld(P, arch, k, p) == \/ \E r \in Regs : arch[r] = p
                         \/ \E i \in DestsOf(P) : i <= k /\ P[i].prf = p

FreeAt(P, arch, F, k) == \A p \in PRF : p \in F <=> ~IsHeld(P, arch, k, p)

Untouched(P, k, r) == \A i \in DestsOf(P) : i <= k => P[i].rd # r
Youngest(P, k, r, i) == /\ i \in DestsOf(P) /\ i <= k /\ P[i].rd = r
                        /\ \A j \in DestsOf(P) : j <= k /\ P[j].rd = r => j <= i

MapAt(P, arch, m, k) ==
  \A r \in Regs : \/ Untouched(P, k, r) /\ m[r] = arch[r]
                  \/ \E i \in DestsOf(P) : Youngest(P, k, r, i) /\ m[r] = P[i].prf

(* A valid bit of the checkpoint is not older than the valid list V. *)
ValidAt(P, arch, v, V, k) == \A p \in PRF : IsHeld(P, arch, k, p) /\ p \in v => p \in V

(* No register has two owners. *)
Owned(P, arch) ==
  /\ \A r, s \in Regs : r # s => arch[r] # arch[s]
  /\ \A i, j \in DestsOf(P) : i # j => P[i].prf # P[j].prf
  /\ \A r \in Regs : \A i \in DestsOf(P) : arch[r] # P[i].prf

(***************************************************************************)
(* The inductive invariant.                                                *)
(***************************************************************************)

(* The branches that have not been resolved, in the reorder buffer or in    *)
(* the output buffer.                                                       *)
Open == {i \in DOMAIN Pending :
           Cfi(Pending[i]) /\ (i \in DOMAIN inFlight => ~inFlight[i].done)}

(* Checkpoint c belongs to the c-th open branch. *)
Saved(pos) ==
  /\ \A c, d \in 0 .. branchTracker - 1 : c < d => pos[c] < pos[d]
  /\ \A i \in Open : \E c \in 0 .. branchTracker - 1 : pos[c] = i
  /\ \A c \in 0 .. branchTracker - 1 :
       /\ FreeAt(Pending, architecturalRegMap, reservedFreeList[c], pos[c])
       /\ MapAt(Pending, architecturalRegMap, reservedRegMap[c], pos[c])
       /\ ValidAt(Pending, architecturalRegMap, reservedValidList[c], PRFValidList, pos[c])

CheckpointsExact == \E pos \in [0 .. branchTracker - 1 -> Open] : Saved(pos)

(* A wake-up that is still under way is for an instruction that has issued, *)
(* or for one that was squashed as it issued; then decode is empty and will *)
(* not hand the register out in this cycle.                                 *)
WakeUpsOwned ==
  \A p \in instrRetired :
    /\ p \in PRFFreeList => inputBuffer = {}
    /\ \A i \in DestsOf(Pending) :
         Pending[i].prf = p => i \in DOMAIN inFlight /\ inFlight[i].done

AtMostOne(S) == \A x, y \in S : x = y

IInv ==
  /\ TypeOK /\ AtMostOne(inputBuffer) /\ AtMostOne(outputBuffer)
  /\ PRFCount - 1 \in PRFFreeList
  /\ Owned(Pending, architecturalRegMap)
  /\ FreeAt(Pending, architecturalRegMap, PRFFreeList, Len(Pending))
  /\ MapAt(Pending, architecturalRegMap, frontEndRegMap, Len(Pending))
  /\ CheckpointsExact /\ WakeUpsOwned /\ ValidExact

USE RenameAssumption
-----------------------------------------------------------------------------
(***************************************************************************)
(* Numbers and sets.                                                       *)
(***************************************************************************)

LEMMA Sizes ==
  /\ regCount \in Nat /\ regCount >= 1 /\ PRFCount \in Nat /\ PRFCount > regCount + 1
  /\ nCheckpoints \in Nat /\ nCheckpoints >= 1 /\ RobDepth \in Nat /\ RobDepth >= 1
  OBVIOUS

LEMMA LeastNumber == ASSUME NEW T \in SUBSET Nat, T # {} PROVE \E x \in T : \A y \in T : x <= y
<1>1. IsWellFoundedOn(OpToRel(<, Nat), Nat)
  BY NatLessThanWellFounded
<1>2. PICK x \in T : \A y \in T : ~(<<y, x>> \in OpToRel(<, Nat))
  BY <1>1, WFMin
<1>3. \A y \in T : ~(y < x)
  BY <1>2 DEF OpToRel
<1>4. QED
  BY <1>3

LEMMA MinIs == ASSUME NEW T \in SUBSET Nat, T # {} PROVE Min(T) \in T /\ \A y \in T : Min(T) <= y
<1>1. \E x \in T : \A y \in T : x <= y
  BY LeastNumber
<1>2. QED
  BY <1>1 DEF Min

(* A greatest element is what Max finds. *)
LEMMA MaxIs ==
  ASSUME NEW T \in SUBSET Nat, NEW m \in T, \A y \in T : y <= m PROVE Max(T) = m
<1>1. \E x \in T : \A y \in T : x >= y
  OBVIOUS
<1>2. Max(T) \in T /\ \A y \in T : Max(T) >= y
  BY <1>1 DEF Max
<1>3. Max(T) \in Nat /\ m \in Nat /\ Max(T) >= m /\ Max(T) <= m
  BY <1>2
<1>4. QED
  BY <1>3

LEMMA FewElements ==
  ASSUME NEW S, AtMostOne(S)
  PROVE  /\ S = {} \/ \E x \in S : S = {x}
         /\ IsFiniteSet(S) /\ Cardinality(S) <= 1 /\ Cardinality(S) \in Nat
         /\ S # {} => Cardinality(S) = 1
<1>1. S = {} \/ \E x \in S : S = {x}
  BY DEF AtMostOne
<1>2. CASE S = {}
  BY <1>1, <1>2, FS_EmptySet
<1>3. ASSUME NEW x \in S, S = {x}
      PROVE  IsFiniteSet(S) /\ Cardinality(S) = 1
  BY <1>3, FS_Singleton
<1>4. QED
  BY <1>1, <1>2, <1>3
-----------------------------------------------------------------------------
(***************************************************************************)
(* The three ways in which the list of pending instructions changes.       *)
(***************************************************************************)

(* The oldest instruction retires. *)
ArchAfter(P, arch) ==
  [r \in Regs |-> IF Writes(P[1]) /\ P[1].rd = r THEN P[1].prf ELSE arch[r]]

Released(P, arch) == IF Writes(P[1]) THEN {arch[P[1].rd]} ELSE {}

(* T is P without its first instruction. *)
IsRest(P, T) ==
  /\ P[1] \in Renamed /\ 1 \in DOMAIN P
  /\ \A i \in DestsOf(T) : i \in Nat /\ i >= 1 /\ i + 1 \in DestsOf(P) /\ T[i] = P[i + 1]
  /\ \A i \in DestsOf(P) : /\ i \in Nat /\ i >= 1
                           /\ i # 1 => i - 1 \in DestsOf(T) /\ T[i - 1] = P[i]

LEMMA TailIsRest ==
  ASSUME NEW P \in Seq(Renamed), P # <<>>, NEW T, T = Tail(P)
  PROVE  IsRest(P, T) /\ T \in Seq(Renamed) /\ Len(T) = Len(P) - 1 /\ Len(P) \in Nat \ {0}
<1>1. /\ T \in Seq(Renamed) /\ Len(T) = Len(P) - 1 /\ Len(P) \in Nat /\ Len(P) >= 1
      /\ DOMAIN P = 1 .. Len(P) /\ DOMAIN T = 1 .. Len(P) - 1
      /\ \A i \in DOMAIN P : P[i] \in Renamed
  OBVIOUS
<1>2. \A i \in 1 .. Len(P) - 1 : T[i] = P[i + 1]
  OBVIOUS
<1>3. ASSUME NEW i \in DestsOf(T)
      PROVE  i \in Nat /\ i >= 1 /\ i + 1 \in DestsOf(P) /\ T[i] = P[i + 1]
  BY <1>1, <1>2 DEF DestsOf
<1>4. ASSUME NEW i \in DestsOf(P)
      PROVE  /\ i \in Nat /\ i >= 1
             /\ i # 1 => i - 1 \in DestsOf(T) /\ T[i - 1] = P[i]
  <2>1. i \in 1 .. Len(P) /\ Writes(P[i])
    BY <1>1 DEF DestsOf
  <2>2. i # 1 => i - 1 \in 1 .. Len(P) - 1 /\ T[i - 1] = P[i]
    <3>1. i # 1 => i - 1 \in 1 .. Len(P) - 1 /\ (i - 1) + 1 = i
      BY <1>1, <2>1
    <3>2. QED
      BY <1>2, <3>1
  <2>3. QED
    BY <1>1, <2>1, <2>2 DEF DestsOf
<1>5. P[1] \in Renamed /\ 1 \in DOMAIN P
  BY <1>1
<1>6. IsRest(P, T)
  BY <1>3, <1>4, <1>5 DEF IsRest
<1>7. QED
  BY <1>1, <1>6

LEMMA RetireOwners ==
  ASSUME NEW P, NEW T, IsRest(P, T), NEW arch \in [Regs -> PRF], Owned(P, arch)
  PROVE  /\ ArchAfter(P, arch) \in [Regs -> PRF]
         /\ Owned(T, ArchAfter(P, arch))
<1> DEFINE a == ArchAfter(P, arch)
<1>1. P[1] \in Renamed /\ P[1].prf \in PRF /\ P[1].rd \in Regs /\ 1 \in DOMAIN P
  BY DEF IsRest, Renamed
<1>2. \A r \in Regs : a[r] = IF Writes(P[1]) /\ P[1].rd = r THEN P[1].prf ELSE arch[r]
  BY DEF ArchAfter
<1>3. a \in [Regs -> PRF]
  BY <1>1 DEF ArchAfter
<1>4. Writes(P[1]) => 1 \in DestsOf(P)
  BY <1>1 DEF DestsOf
<1> HIDE DEF a
<1>5. \A r, s \in Regs : r # s => a[r] # a[s]
  BY <1>2, <1>4 DEF Owned
<1>6. ASSUME NEW i \in DestsOf(T), NEW j \in DestsOf(T), i # j
      PROVE  T[i].prf # T[j].prf
  <2>1. i + 1 \in DestsOf(P) /\ j + 1 \in DestsOf(P) /\ i + 1 # j + 1
    BY <1>6 DEF IsRest
  <2>2. T[i] = P[i + 1] /\ T[j] = P[j + 1]
    BY <1>6 DEF IsRest
  <2>3. QED
    BY <2>1, <2>2 DEF Owned
<1>7. ASSUME NEW r \in Regs, NEW i \in DestsOf(T)
      PROVE  a[r] # T[i].prf
  <2>1. i + 1 \in DestsOf(P) /\ i + 1 # 1 /\ T[i] = P[i + 1]
    BY DEF IsRest
  <2>2. QED
    BY <1>2, <1>4, <2>1 DEF Owned
<1>8. Owned(T, a)
  BY <1>5, <1>6, <1>7 DEF Owned
<1>9. QED
  BY <1>3, <1>8 DEF a

(* Afterwards the retired instruction's register is held by the map, and    *)
(* the one it replaces is held by nobody.                                   *)
LEMMA RetireHeld ==
  ASSUME NEW P, NEW T, IsRest(P, T), NEW arch \in [Regs -> PRF], Owned(P, arch),
         NEW k \in Nat, k >= 1, NEW p \in PRF
  PROVE  IsHeld(T, ArchAfter(P, arch), k - 1, p)
           <=> IsHeld(P, arch, k, p) /\ p \notin Released(P, arch)
<1> DEFINE a == ArchAfter(P, arch)
<1>1. P[1] \in Renamed /\ P[1].rd \in Regs /\ 1 \in DOMAIN P
  BY DEF IsRest, Renamed
<1>2. \A r \in Regs : a[r] = IF Writes(P[1]) /\ P[1].rd = r THEN P[1].prf ELSE arch[r]
  BY DEF ArchAfter
<1>3. Writes(P[1]) => 1 \in DestsOf(P)
  BY <1>1 DEF DestsOf
<1> HIDE DEF a
<1>4. ASSUME IsHeld(T, a, k - 1, p)
      PROVE  IsHeld(P, arch, k, p) /\ p \notin Released(P, arch)
  <2>1. CASE \E r \in Regs : a[r] = p
    <3>1. PICK r \in Regs : a[r] = p
      BY <2>1
    <3>2. CASE Writes(P[1]) /\ P[1].rd = r
      <4>1. p = P[1].prf /\ 1 \in DestsOf(P) /\ 1 <= k
        BY <1>2, <1>3, <3>1, <3>2
      <4>2. p # arch[P[1].rd]
        BY <1>1, <4>1 DEF Owned
      <4>3. QED
        BY <4>1, <4>2 DEF IsHeld, Released
    <3>3. CASE ~(Writes(P[1]) /\ P[1].rd = r)
      <4>1. p = arch[r]
        BY <1>2, <3>1, <3>3
      <4>2. Writes(P[1]) => arch[r] # arch[P[1].rd]
        BY <1>1, <3>3 DEF Owned
      <4>3. QED
        BY <4>1, <4>2 DEF IsHeld, Released
    <3>4. QED
      BY <3>2, <3>3
  <2>2. CASE \E i \in DestsOf(T) : i <= k - 1 /\ T[i].prf = p
    <3>1. PICK i \in DestsOf(T) : i <= k - 1 /\ T[i].prf = p
      BY <2>2
    <3>2. i \in Nat /\ i + 1 \in DestsOf(P) /\ P[i + 1].prf = p
      BY <3>1 DEF IsRest
    <3>3. i + 1 <= k
      BY <3>1, <3>2
    <3>4. p # arch[P[1].rd]
      BY <1>1, <3>2 DEF Owned
    <3>5. QED
      BY <3>2, <3>3, <3>4 DEF IsHeld, Released
  <2>3. QED
    BY <1>4, <2>1, <2>2 DEF IsHeld
<1>5. ASSUME IsHeld(P, arch, k, p), p \notin Released(P, arch)
      PROVE  IsHeld(T, a, k - 1, p)
  <2>1. CASE \E r \in Regs : arch[r] = p
    <3>1. PICK r \in Regs : arch[r] = p
      BY <2>1
    <3>2. ~(Writes(P[1]) /\ P[1].rd = r)
      BY <1>5, <3>1 DEF Released
    <3>3. a[r] = p
      BY <1>2, <3>1, <3>2
    <3>4. QED
      BY <3>3 DEF IsHeld
  <2>2. CASE \E i \in DestsOf(P) : i <= k /\ P[i].prf = p
    <3>1. PICK i \in DestsOf(P) : i <= k /\ P[i].prf = p
      BY <2>2
    <3>2. CASE i = 1
      <4>1. Writes(P[1]) /\ P[1].prf = p
        BY <3>1, <3>2 DEF DestsOf
      <4>2. a[P[1].rd] = p
        BY <1>1, <1>2, <4>1
      <4>3. QED
        BY <1>1, <4>2 DEF IsHeld
    <3>3. CASE i # 1
      <4>1. i \in Nat /\ i - 1 \in DestsOf(T) /\ T[i - 1] = P[i]
        BY <3>3 DEF IsRest
      <4>2. i - 1 <= k - 1
        BY <3>1, <4>1
      <4>3. QED
        BY <3>1, <4>1, <4>2 DEF IsHeld
    <3>4. QED
      BY <3>2, <3>3
  <2>3. QED
    BY <1>5, <2>1, <2>2 DEF IsHeld
<1>6. QED
  BY <1>4, <1>5 DEF a

LEMMA RetireMap ==
  ASSUME NEW P, NEW T, IsRest(P, T), NEW arch \in [Regs -> PRF],
         NEW k \in Nat, k >= 1, NEW m, MapAt(P, arch, m, k)
  PROVE  MapAt(T, ArchAfter(P, arch), m, k - 1)
<1> DEFINE a == ArchAfter(P, arch)
<1>1. P[1] \in Renamed /\ P[1].rd \in Regs /\ 1 \in DOMAIN P
  BY DEF IsRest, Renamed
<1>2. \A r \in Regs : a[r] = IF Writes(P[1]) /\ P[1].rd = r THEN P[1].prf ELSE arch[r]
  BY DEF ArchAfter
<1> HIDE DEF a
<1>3. SUFFICES ASSUME NEW r \in Regs
               PROVE  \/ Untouched(T, k - 1, r) /\ m[r] = a[r]
                      \/ \E i \in DestsOf(T) : Youngest(T, k - 1, r, i) /\ m[r] = T[i].prf
  BY DEF MapAt, a
<1>4. ASSUME NEW i \in DestsOf(T), i <= k - 1
      PROVE  i \in Nat /\ i + 1 \in DestsOf(P) /\ i + 1 <= k /\ T[i] = P[i + 1]
  BY <1>4 DEF IsRest
<1>5. CASE Untouched(P, k, r) /\ m[r] = arch[r]
  <2>1. ~(Writes(P[1]) /\ P[1].rd = r)
    BY <1>1, <1>5 DEF Untouched, DestsOf
  <2>2. Untouched(T, k - 1, r)
    BY <1>4, <1>5 DEF Untouched
  <2>3. QED
    BY <1>2, <1>5, <2>1, <2>2
<1>6. ASSUME NEW i \in DestsOf(P), Youngest(P, k, r, i), m[r] = P[i].prf
      PROVE  \/ Untouched(T, k - 1, r) /\ m[r] = a[r]
             \/ \E j \in DestsOf(T) : Youngest(T, k - 1, r, j) /\ m[r] = T[j].prf
  <2>1. CASE i = 1
    <3>1. Writes(P[1]) /\ P[1].rd = r
      BY <1>6, <2>1 DEF Youngest, DestsOf
    <3>2. ASSUME NEW j \in DestsOf(T), j <= k - 1, T[j].rd = r PROVE FALSE
      <4>1. j \in Nat /\ j + 1 \in DestsOf(P) /\ j + 1 <= k /\ P[j + 1].rd = r /\ j >= 1
        BY <1>4, <3>2 DEF IsRest
      <4>2. j + 1 <= 1
        BY <1>6, <2>1, <4>1 DEF Youngest
      <4>3. QED
        BY <4>1, <4>2
    <3>3. Untouched(T, k - 1, r)
      BY <3>2 DEF Untouched
    <3>4. QED
      BY <1>2, <1>6, <2>1, <3>1, <3>3
  <2>2. CASE i # 1
    <3>1. i \in Nat /\ i - 1 \in DestsOf(T) /\ T[i - 1] = P[i] /\ i <= k /\ P[i].rd = r
      BY <1>6, <2>2 DEF IsRest, Youngest
    <3>2. i - 1 <= k - 1
      BY <3>1
    <3>3. ASSUME NEW j \in DestsOf(T), j <= k - 1, T[j].rd = r PROVE j <= i - 1
      <4>1. j \in Nat /\ j + 1 \in DestsOf(P) /\ j + 1 <= k /\ P[j + 1].rd = r
        BY <1>4, <3>3
      <4>2. j + 1 <= i
        BY <1>6, <4>1 DEF Youngest
      <4>3. QED
        BY <3>1, <4>1, <4>2
    <3>4. Youngest(T, k - 1, r, i - 1) /\ m[r] = T[i - 1].prf
      BY <1>6, <3>1, <3>2, <3>3 DEF Youngest
    <3>5. QED
      BY <3>1, <3>4
  <2>3. QED
    BY <2>1, <2>2
<1>7. QED
  BY <1>5, <1>6 DEF MapAt

(* What reflects the first k instructions does not depend on the others. *)
Agree(P, Q, k) ==
  /\ \A i \in DestsOf(P) : i <= k => i \in DestsOf(Q) /\ Q[i] = P[i]
  /\ \A i \in DestsOf(Q) : i <= k => i \in DestsOf(P) /\ Q[i] = P[i]

LEMMA AgreeHeld ==
  ASSUME NEW P, NEW Q, NEW k, Agree(P, Q, k), NEW arch, NEW p
  PROVE  IsHeld(P, arch, k, p) <=> IsHeld(Q, arch, k, p)
  BY DEF Agree, IsHeld

LEMMA AgreeMap ==
  ASSUME NEW P, NEW Q, NEW k, Agree(P, Q, k), NEW arch, NEW m, MapAt(P, arch, m, k)
  PROVE  MapAt(Q, arch, m, k)
<1>1. SUFFICES ASSUME NEW r \in Regs
               PROVE  \/ Untouched(Q, k, r) /\ m[r] = arch[r]
                      \/ \E i \in DestsOf(Q) : Youngest(Q, k, r, i) /\ m[r] = Q[i].prf
  BY DEF MapAt
<1>2. CASE Untouched(P, k, r) /\ m[r] = arch[r]
  BY <1>2 DEF Agree, Untouched
<1>3. ASSUME NEW i \in DestsOf(P), Youngest(P, k, r, i), m[r] = P[i].prf
      PROVE  \E j \in DestsOf(Q) : Youngest(Q, k, r, j) /\ m[r] = Q[j].prf
  <2>1. i \in DestsOf(Q) /\ Q[i] = P[i]
    BY <1>3 DEF Agree, Youngest
  <2>2. Youngest(Q, k, r, i)
    BY <1>3, <2>1 DEF Agree, Youngest
  <2>3. QED
    BY <1>3, <2>1, <2>2
<1>4. QED
  BY <1>2, <1>3 DEF MapAt

(* Q is P, of length n, followed by x. *)
IsLonger(P, n, x, Q) ==
  /\ \A i \in DestsOf(P) : i \in Nat /\ i <= n /\ i \in DestsOf(Q) /\ Q[i] = P[i]
  /\ \A i \in DestsOf(Q) : i \in Nat /\ (i # n + 1 => i \in DestsOf(P))
  /\ n + 1 \in DestsOf(Q) <=> Writes(x)
  /\ Q[n + 1] = x

LEMMA AppendIsLonger ==
  ASSUME NEW P \in Seq(Renamed), NEW x \in Renamed, NEW Q, Q = Append(P, x)
  PROVE  /\ IsLonger(P, Len(P), x, Q)
         /\ Q \in Seq(Renamed) /\ Len(Q) = Len(P) + 1 /\ Len(P) \in Nat
<1>1. /\ Q \in Seq(Renamed) /\ Len(Q) = Len(P) + 1 /\ Len(P) \in Nat
      /\ DOMAIN P = 1 .. Len(P) /\ DOMAIN Q = 1 .. Len(P) + 1
  OBVIOUS
<1>2. \A i \in 1 .. Len(P) : Q[i] = P[i]
  OBVIOUS
<1>3. Q[Len(P) + 1] = x
  OBVIOUS
<1>4. \A i \in DestsOf(P) : i \in Nat /\ i <= Len(P) /\ i \in DestsOf(Q) /\ Q[i] = P[i]
  BY <1>1, <1>2 DEF DestsOf
<1>5. \A i \in DestsOf(Q) : i \in Nat /\ (i # Len(P) + 1 => i \in DestsOf(P))
  BY <1>1, <1>2 DEF DestsOf
<1>6. Len(P) + 1 \in DestsOf(Q) <=> Writes(x)
  BY <1>1, <1>3 DEF DestsOf
<1>7. QED
  BY <1>1, <1>3, <1>4, <1>5, <1>6 DEF IsLonger

LEMMA LongerAgrees ==
  ASSUME NEW P, NEW n \in Nat, NEW x, NEW Q, IsLonger(P, n, x, Q), NEW k \in Nat, k <= n
  PROVE  Agree(P, Q, k)
  BY DEF Agree, IsLonger

LEMMA LongerHeld ==
  ASSUME NEW P, NEW n \in Nat, NEW x, NEW Q, IsLonger(P, n, x, Q), NEW arch, NEW p
  PROVE  IsHeld(Q, arch, n + 1, p) <=> IsHeld(P, arch, n, p) \/ (Writes(x) /\ x.prf = p)
<1>1. ASSUME IsHeld(Q, arch, n + 1, p)
      PROVE  IsHeld(P, arch, n, p) \/ (Writes(x) /\ x.prf = p)
  <2>1. CASE \E r \in Regs : arch[r] = p
    BY <2>1 DEF IsHeld
  <2>2. ASSUME NEW i \in DestsOf(Q), i <= n + 1, Q[i].prf = p
        PROVE  IsHeld(P, arch, n, p) \/ (Writes(x) /\ x.prf = p)
    BY <2>2 DEF IsHeld, IsLonger
  <2>3. QED
    BY <1>1, <2>1, <2>2 DEF IsHeld
<1>2. ASSUME IsHeld(P, arch, n, p) PROVE IsHeld(Q, arch, n + 1, p)
  <2>1. CASE \E r \in Regs : arch[r] = p
    BY <2>1 DEF IsHeld
  <2>2. ASSUME NEW i \in DestsOf(P), i <= n, P[i].prf = p PROVE IsHeld(Q, arch, n + 1, p)
    <3>1. i \in DestsOf(Q) /\ i <= n + 1 /\ Q[i].prf = p
      BY <2>2 DEF IsLonger
    <3>2. QED
      BY <3>1 DEF IsHeld
  <2>3. QED
    BY <1>2, <2>1, <2>2 DEF IsHeld
<1>3. ASSUME Writes(x), x.prf = p PROVE IsHeld(Q, arch, n + 1, p)
  <2>1. n + 1 \in DestsOf(Q) /\ n + 1 <= n + 1 /\ Q[n + 1].prf = p
    BY <1>3 DEF IsLonger
  <2>2. QED
    BY <2>1 DEF IsHeld
<1>4. QED
  BY <1>1, <1>2, <1>3

LEMMA LongerOwners ==
  ASSUME NEW P, NEW n \in Nat, NEW x, NEW Q, IsLonger(P, n, x, Q), NEW arch,
         Owned(P, arch), Writes(x) => ~IsHeld(P, arch, n, x.prf)
  PROVE  Owned(Q, arch)
<1>1. \A r, s \in Regs : r # s => arch[r] # arch[s]
  BY DEF Owned
<1>2. \A i \in DestsOf(Q) :
        \/ i \in DestsOf(P) /\ Q[i] = P[i] /\ i <= n /\ i \in Nat
        \/ i = n + 1 /\ Writes(x) /\ Q[i] = x
  BY DEF IsLonger
<1>3. \A i \in DestsOf(P) : Writes(x) => P[i].prf # x.prf
  BY DEF IsLonger, IsHeld
<1>4. \A r \in Regs : Writes(x) => arch[r] # x.prf
  BY DEF IsHeld
<1>5. \A i, j \in DestsOf(Q) : i # j => Q[i].prf # Q[j].prf
  BY <1>2, <1>3 DEF Owned
<1>6. \A r \in Regs : \A i \in DestsOf(Q) : arch[r] # Q[i].prf
  BY <1>2, <1>4 DEF Owned
<1>7. QED
  BY <1>1, <1>5, <1>6 DEF Owned

LEMMA LongerMap ==
  ASSUME NEW P, NEW n \in Nat, NEW x, NEW Q, IsLonger(P, n, x, Q), NEW arch,
         NEW m, MapAt(P, arch, m, n), NEW m2,
         \A r \in Regs : m2[r] = IF Writes(x) /\ x.rd = r THEN x.prf ELSE m[r]
  PROVE  MapAt(Q, arch, m2, n + 1)
<1>1. SUFFICES ASSUME NEW r \in Regs
               PROVE  \/ Untouched(Q, n + 1, r) /\ m2[r] = arch[r]
                      \/ \E i \in DestsOf(Q) : Youngest(Q, n + 1, r, i) /\ m2[r] = Q[i].prf
  BY DEF MapAt
<1>2. \A i \in DestsOf(Q) :
        \/ i \in DestsOf(P) /\ Q[i] = P[i] /\ i <= n /\ i \in Nat
        \/ i = n + 1 /\ Writes(x) /\ Q[i] = x
  BY DEF IsLonger
<1>3. CASE Writes(x) /\ x.rd = r
  <2>1. n + 1 \in DestsOf(Q) /\ Q[n + 1] = x /\ m2[r] = x.prf
    BY <1>3 DEF IsLonger
  <2>2. Youngest(Q, n + 1, r, n + 1)
    BY <1>2, <1>3, <2>1 DEF Youngest
  <2>3. QED
    BY <2>1, <2>2
<1>4. CASE ~(Writes(x) /\ x.rd = r)
  <2>1. m2[r] = m[r]
    BY <1>4
  <2>2. CASE Untouched(P, n, r) /\ m[r] = arch[r]
    <3>1. Untouched(Q, n + 1, r)
      BY <1>2, <1>4, <2>2 DEF Untouched
    <3>2. QED
      BY <2>1, <2>2, <3>1
  <2>3. ASSUME NEW i \in DestsOf(P), Youngest(P, n, r, i), m[r] = P[i].prf
        PROVE  \E j \in DestsOf(Q) : Youngest(Q, n + 1, r, j) /\ m2[r] = Q[j].prf
    <3>1. i \in DestsOf(Q) /\ Q[i] = P[i] /\ i \in Nat /\ i <= n
      BY DEF IsLonger
    <3>2. Youngest(Q, n + 1, r, i)
      BY <1>2, <1>4, <2>3, <3>1 DEF Youngest
    <3>3. QED
      BY <2>1, <2>3, <3>1, <3>2
  <2>4. QED
    BY <2>2, <2>3 DEF MapAt
<1>5. QED
  BY <1>3, <1>4

(* A misprediction cuts the list after the branch. *)
LEMMA CutAgrees ==
  ASSUME NEW P \in Seq(Renamed), NEW k \in DOMAIN P, NEW Q, Q = SubSeq(P, 1, k)
  PROVE  /\ Q \in Seq(Renamed) /\ Len(Q) = k
         /\ Agree(P, Q, k) /\ \A i \in DestsOf(Q) : i \in DestsOf(P) /\ i <= k
<1>1. k \in Nat /\ k >= 1 /\ k <= Len(P) /\ Len(P) \in Nat /\ DOMAIN P = 1 .. Len(P)
  OBVIOUS
<1>2. Q \in Seq(Renamed) /\ Len(Q) = k /\ \A i \in 1 .. k : Q[i] = P[i]
  <2>1. \A i \in 1 .. k : P[i] \in Renamed
    BY <1>1
  <2>2. QED
    BY <1>1, <2>1, SubSeqProperties
<1>3. DOMAIN Q = 1 .. k
  BY <1>2
<1>4. QED
  BY <1>1, <1>2, <1>3 DEF Agree, DestsOf

LEMMA CutOwners ==
  ASSUME NEW P, NEW Q, NEW k, Agree(P, Q, k),
         \A i \in DestsOf(Q) : i \in DestsOf(P) /\ i <= k, NEW arch, Owned(P, arch)
  PROVE  Owned(Q, arch)
  BY DEF Agree, Owned
-----------------------------------------------------------------------------
(***************************************************************************)
(* The pending instructions, index by index.                               *)
(***************************************************************************)
Strip(x) == [kind |-> x.kind, rd |-> x.rd, prf |-> x.prf]

BuffersOK == /\ inFlight \in Seq(Issued) /\ outputBuffer \subseteq Renamed
             /\ AtMostOne(outputBuffer)

PendingShape ==
  /\ Pending \in Seq(Renamed) /\ Len(inFlight) \in Nat /\ DOMAIN inFlight = 1 .. Len(inFlight)
  /\ Len(Pending) = Len(inFlight) + (IF outputBuffer = {} THEN 0 ELSE 1)
  /\ \A i \in 1 .. Len(inFlight) : inFlight[i] \in Issued /\ Pending[i] = Strip(inFlight[i])
  /\ \A x \in outputBuffer : Pending[Len(inFlight) + 1] = x

LEMMA Joined ==
  ASSUME NEW S, NEW A \in Seq(S), NEW B \in Seq(S)
  PROVE  /\ A \o B \in Seq(S) /\ Len(A \o B) = Len(A) + Len(B)
         /\ \A i \in 1 .. Len(A) + Len(B) :
              (A \o B)[i] = IF i <= Len(A) THEN A[i] ELSE B[i - Len(A)]
  BY ConcatProperties

LEMMA PendingHasShape == BuffersOK => PendingShape
<1> SUFFICES ASSUME BuffersOK PROVE PendingShape
  OBVIOUS
<1> DEFINE A == [i \in DOMAIN inFlight |-> Strip(inFlight[i])]
           B == IF outputBuffer = {} THEN <<>> ELSE <<CHOOSE x \in outputBuffer : TRUE>>
<1>1. inFlight \in Seq(Issued) /\ Len(inFlight) \in Nat /\ DOMAIN inFlight = 1 .. Len(inFlight)
  BY DEF BuffersOK
<1>2. ASSUME NEW i \in 1 .. Len(inFlight)
      PROVE  inFlight[i] \in Issued /\ Strip(inFlight[i]) \in Renamed
  <2>1. inFlight[i] \in Issued
    BY <1>1
  <2>2. QED
    BY <2>1 DEF Issued, Renamed, Strip
<1>3. A \in Seq(Renamed) /\ Len(A) = Len(inFlight) /\ \A i \in 1 .. Len(inFlight) : A[i] = Strip(inFlight[i])
  BY <1>1, <1>2
<1>4. /\ B \in Seq(Renamed) /\ Len(B) = (IF outputBuffer = {} THEN 0 ELSE 1)
      /\ \A x \in outputBuffer : B[1] = x
  <2>1. CASE outputBuffer = {}
    BY <2>1
  <2>2. CASE outputBuffer # {}
    <3>1. PICK x \in outputBuffer : TRUE
      BY <2>2
    <3>2. (CHOOSE y \in outputBuffer : TRUE) \in outputBuffer
      BY <3>1
    <3>3. /\ (CHOOSE y \in outputBuffer : TRUE) \in Renamed
          /\ \A y \in outputBuffer : (CHOOSE z \in outputBuffer : TRUE) = y
      BY <3>2 DEF BuffersOK, AtMostOne
    <3>4. QED
      BY <2>2, <3>3
  <2>3. QED
    BY <2>1, <2>2
<1>5. Pending = A \o B
  BY DEF Pending, Strip
<1> HIDE DEF A, B
<1>6. /\ A \o B \in Seq(Renamed) /\ Len(A \o B) = Len(A) + Len(B)
      /\ \A i \in 1 .. Len(A) + Len(B) : (A \o B)[i] = IF i <= Len(A) THEN A[i] ELSE B[i - Len(A)]
  <2>1. A \in Seq(Renamed) /\ B \in Seq(Renamed)
    BY <1>3, <1>4
  <2>2. QED
    BY <2>1, Joined
<1>7. \A i \in 1 .. Len(inFlight) : Pending[i] = Strip(inFlight[i])
  BY <1>1, <1>3, <1>4, <1>5, <1>6
<1>8. ASSUME NEW x \in outputBuffer PROVE Pending[Len(inFlight) + 1] = x
  <2>1. Len(B) = 1 /\ B[1] = x
    BY <1>4
  <2>2. Len(inFlight) + 1 \in 1 .. Len(A) + Len(B) /\ (Len(inFlight) + 1) - Len(A) = 1
    BY <1>1, <1>3, <2>1
  <2>3. ~(Len(inFlight) + 1 <= Len(A))
    BY <1>1, <1>3
  <2>4. QED
    BY <1>5, <1>6, <2>1, <2>2, <2>3
<1>9. QED
  BY <1>1, <1>2, <1>3, <1>4, <1>5, <1>6, <1>7, <1>8 DEF PendingShape
-----------------------------------------------------------------------------
(***************************************************************************)
(* The inputs of a cycle and what they select.                             *)
(***************************************************************************)
LEMMA InputIs ==
  ASSUME TypeOK, NEW in \in Input
  PROVE  /\ in.fetch \subseteq Decoded /\ AtMostOne(in.fetch)
         /\ in.takes \in BOOLEAN /\ in.retires \in BOOLEAN
         /\ in.takes => outputBuffer # {} /\ (Len(inFlight) < RobDepth \/ in.retires)
         /\ in.retires => Retirable
         /\ in.executes # 0 => /\ in.executes \in DOMAIN inFlight
                               /\ ~Cfi(inFlight[in.executes]) /\ ~inFlight[in.executes].done
         /\ in.branch \in {"none", "pass", "fail"}
         /\ fired(in) => Unresolved # {}
         /\ failed(in) => fired(in) /\ ~in.retires /\ ~in.takes
         /\ in.rs \in Regs
<1>1. /\ in.fetch \in {{}} \cup {{x} : x \in Decoded} /\ in.takes \in BOOLEAN
      /\ in.executes \in {0} \cup {i \in DOMAIN inFlight : ~Cfi(inFlight[i]) /\ ~inFlight[i].done}
      /\ in.retires \in {FALSE, Retirable}
      /\ in.branch \in IF Unresolved = {} THEN {"none"} ELSE {"none", "pass", "fail"}
      /\ in.rs \in IF \E r \in Regs : frontEndRegMap[r] = freeRegAddr THEN Regs ELSE {0}
      /\ in.takes => outputBuffer # {} /\ (Len(inFlight) < RobDepth \/ in.retires)
      /\ failed(in) => ~in.retires /\ ~in.takes /\ in.fetch = {}
  BY DEF Input
<1>2. in.fetch \subseteq Decoded /\ AtMostOne(in.fetch)
  BY <1>1 DEF AtMostOne
<1>3. in.rs \in Regs
  <2>1. 0 \in Regs
    BY DEF Regs
  <2>2. QED
    BY <1>1, <2>1
<1>4. in.retires \in BOOLEAN /\ (in.retires => Retirable)
  BY <1>1 DEF Retirable
<1>5. in.branch \in {"none", "pass", "fail"} /\ (fired(in) => Unresolved # {})
  BY <1>1 DEF fired
<1>6. failed(in) => fired(in)
  BY DEF failed, fired
<1>7. in.executes # 0 => /\ in.executes \in DOMAIN inFlight
                         /\ ~Cfi(inFlight[in.executes]) /\ ~inFlight[in.executes].done
  BY <1>1
<1>8. QED
  BY <1>1, <1>2, <1>3, <1>4, <1>5, <1>6, <1>7

Shift(in) == IF in.retires THEN 1 ELSE 0
Grow(in) == IF in.takes THEN 1 ELSE 0

Marked(in, i) ==
  [inFlight[i] EXCEPT !.done = @ \/ i = in.executes \/ (fired(in) /\ i = Oldest)]
Entered(x) == [kind |-> x.kind, rd |-> x.rd, prf |-> x.prf, done |-> x.kind = "lui"]

LEMMA MarkedIs ==
  ASSUME BuffersOK, NEW in, NEW i \in DOMAIN inFlight
  PROVE  /\ Marked(in, i) \in Issued /\ Strip(Marked(in, i)) = Strip(inFlight[i])
         /\ Marked(in, i).kind = inFlight[i].kind /\ Marked(in, i).rd = inFlight[i].rd
         /\ Marked(in, i).prf = inFlight[i].prf
         /\ Marked(in, i).done <=> inFlight[i].done \/ i = in.executes \/ (fired(in) /\ i = Oldest)
<1>1. inFlight[i] \in Issued
  BY DEF BuffersOK
<1>2. QED
  BY <1>1 DEF Issued, Marked, Strip

(* Everything that is kept moves down by one when the oldest retires. *)
LEMMA FlightStep ==
  ASSUME BuffersOK, NEW in, in.takes \in BOOLEAN, in.retires \in BOOLEAN,
         in.takes => outputBuffer # {}, in.retires => inFlight # <<>>,
         ~failed(in), InFlight(in)
  PROVE  /\ inFlight' \in Seq(Issued)
         /\ Len(inFlight') = Len(inFlight) - Shift(in) + Grow(in)
         /\ \A i \in 1 .. Len(inFlight) - Shift(in) : inFlight'[i] = Marked(in, i + Shift(in))
         /\ in.takes => \A x \in outputBuffer :
              inFlight'[Len(inFlight) - Shift(in) + 1] = Entered(x)
<1> DEFINE n == Len(inFlight)
           M == [i \in DOMAIN inFlight |-> Marked(in, i)]
           y == CHOOSE x \in outputBuffer : TRUE
           E == IF in.takes THEN <<Entered(y)>> ELSE <<>>
           G == M \o E
<1>1. inFlight \in Seq(Issued) /\ n \in Nat /\ DOMAIN inFlight = 1 .. n
  BY DEF BuffersOK
<1>2. M \in Seq(Issued) /\ Len(M) = n /\ \A i \in 1 .. n : M[i] = Marked(in, i)
  BY <1>1, MarkedIs
<1>3. in.takes => y \in outputBuffer /\ y \in Renamed /\ \A x \in outputBuffer : x = y
  BY DEF BuffersOK, AtMostOne
<1>4. E \in Seq(Issued) /\ Len(E) = Grow(in) /\ (in.takes => E[1] = Entered(y))
  <2>1. CASE in.takes
    <3>1. Entered(y) \in Issued
      BY <1>3, <2>1 DEF Entered, Renamed, Issued
    <3>2. QED
      BY <2>1, <3>1 DEF Grow
  <2>2. CASE ~in.takes
    BY <2>2 DEF Grow
  <2>3. QED
    BY <2>1, <2>2
<1>5. inFlight' = IF in.retires THEN Tail(G) ELSE G
  BY DEF InFlight, Marked, Entered
<1>6. n = 0 => ~in.retires
  BY <1>1
<1>7. Grow(in) \in 0 .. 1 /\ (in.takes <=> Grow(in) = 1)
  BY DEF Grow
<1> HIDE DEF M, E, y
<1>8. /\ G \in Seq(Issued) /\ Len(G) = n + Grow(in)
      /\ \A i \in 1 .. n : G[i] = Marked(in, i)
      /\ in.takes => G[n + 1] = Entered(y)
  <2>1. /\ M \o E \in Seq(Issued) /\ Len(M \o E) = Len(M) + Len(E)
        /\ \A i \in 1 .. Len(M) + Len(E) : (M \o E)[i] = IF i <= Len(M) THEN M[i] ELSE E[i - Len(M)]
    BY <1>2, <1>4, Joined
  <2>2. \A i \in 1 .. n : G[i] = Marked(in, i)
    BY <1>1, <1>2, <1>4, <1>7, <2>1
  <2>3. in.takes => (n + 1) - n = 1 /\ ~(n + 1 <= n) /\ n + 1 \in 1 .. n + Grow(in)
    BY <1>1, <1>7
  <2>4. in.takes => G[n + 1] = Entered(y)
    BY <1>1, <1>2, <1>4, <2>1, <2>3
  <2>5. QED
    BY <1>2, <1>4, <2>1, <2>2, <2>4
<1> HIDE DEF G
<1>9. CASE ~in.retires
  <2>1. inFlight' = G /\ Shift(in) = 0
    BY <1>5, <1>9 DEF Shift
  <2>2. n - 0 = n /\ \A i \in 1 .. n : i + 0 = i
    BY <1>1
  <2>3. in.takes => \A x \in outputBuffer : G[n + 1] = Entered(x)
    BY <1>3, <1>8
  <2>4. QED
    BY <1>8, <2>1, <2>2, <2>3
<1>10. CASE in.retires
  <2>1. inFlight' = Tail(G) /\ Shift(in) = 1 /\ n >= 1
    BY <1>1, <1>5, <1>6, <1>10 DEF Shift
  <2>2. G # <<>>
    BY <1>1, <1>7, <1>8, <2>1
  <2>3. Tail(G) \in Seq(Issued) /\ Len(Tail(G)) = Len(G) - 1
    BY <1>8, <2>2
  <2>4. \A i \in 1 .. Len(G) - 1 : Tail(G)[i] = G[i + 1]
    BY <1>8, <2>2
  <2>5. \A i \in 1 .. n - 1 : i \in 1 .. Len(G) - 1 /\ i + 1 \in 1 .. n
    BY <1>1, <1>7, <1>8
  <2>6. in.takes => n \in 1 .. Len(G) - 1 /\ (n - 1) + 1 = n
    BY <1>1, <1>7, <1>8, <2>1
  <2>7. Len(inFlight') = n - 1 + Grow(in)
    BY <1>1, <1>7, <1>8, <2>1, <2>3
  <2>8. \A i \in 1 .. n - 1 : inFlight'[i] = Marked(in, i + 1)
    BY <1>8, <2>1, <2>4, <2>5
  <2>9. in.takes => \A x \in outputBuffer : inFlight'[(n - 1) + 1] = Entered(x)
    BY <1>3, <1>8, <2>1, <2>4, <2>6
  <2>10. QED
    BY <2>1, <2>3, <2>7, <2>8, <2>9
<1>11. QED
  BY <1>9, <1>10

RestOf(in) == IF in.retires THEN Tail(Pending) ELSE Pending

New(x) == [kind |-> x.kind, rd |-> x.rd, prf |-> freeRegAddr]

Moved(in) ==
  /\ Len(Pending') = Len(Pending) - Shift(in) + (IF transfers(in) = {} THEN 0 ELSE 1)
  /\ \A i \in 1 .. Len(Pending) - Shift(in) : Pending'[i] = Pending[i + Shift(in)]
  /\ \A x \in transfers(in) : Pending'[Len(Pending) - Shift(in) + 1] = New(x)

(* Without a misprediction the pending instructions lose the one that       *)
(* retires and gain the one that is renamed.                                *)
LEMMA PendingStep ==
  ASSUME BuffersOK, BuffersOK', NEW in, in.takes \in BOOLEAN, in.retires \in BOOLEAN,
         in.takes => outputBuffer # {}, in.retires => inFlight # <<>>,
         ~failed(in), Buffers(in), InFlight(in), AtMostOne(transfers(in)),
         transfers(in) # {} => outputBuffer = {} \/ in.takes
  PROVE  /\ transfers(in) = {} => Pending' = RestOf(in)
         /\ \A x \in transfers(in) : Pending' = Append(RestOf(in), New(x)) /\ New(x) \in Renamed
         /\ RestOf(in) \in Seq(Renamed) /\ Len(RestOf(in)) = Len(Pending) - Shift(in)
         /\ in.retires => Pending # <<>>
         /\ Moved(in)
<1> DEFINE n == Len(inFlight)
           L == Len(Pending)
           d == Shift(in)
           g == IF transfers(in) = {} THEN 0 ELSE 1
<1>1. PendingShape
  BY PendingHasShape
<1>2. PendingShape'
  <2>1. (BuffersOK => PendingShape)'
    BY PendingHasShape, PTL
  <2>2. QED
    BY <2>1
<1>3. /\ inFlight' \in Seq(Issued)
      /\ Len(inFlight') = n - d + Grow(in)
      /\ \A i \in 1 .. n - d : inFlight'[i] = Marked(in, i + d)
      /\ in.takes => \A x \in outputBuffer : inFlight'[n - d + 1] = Entered(x)
  BY FlightStep
<1>4. /\ n \in Nat /\ L \in Nat /\ d \in 0 .. 1 /\ Grow(in) \in 0 .. 1 /\ (in.takes <=> Grow(in) = 1)
      /\ in.retires => n >= 1
      /\ L = n + (IF outputBuffer = {} THEN 0 ELSE 1)
      /\ d <= n
  BY <1>1 DEF PendingShape, Shift, Grow
<1>5. outputBuffer' = IF transfers(in) # {} THEN {New(x) : x \in transfers(in)}
                      ELSE IF in.takes THEN {} ELSE outputBuffer
  BY DEF Buffers, New
<1>6. outputBuffer' = {} <=> transfers(in) = {} /\ (in.takes \/ outputBuffer = {})
  BY <1>5
<1>7. Len(inFlight') + (IF outputBuffer' = {} THEN 0 ELSE 1) = L - d + g
  BY <1>3, <1>4, <1>6
<1>8. Pending' \in Seq(Renamed) /\ Len(Pending') = L - d + g
  BY <1>2, <1>7 DEF PendingShape
<1>9. ASSUME NEW i \in 1 .. n - d PROVE Pending'[i] = Pending[i + d]
  <2>1. i \in 1 .. Len(inFlight') /\ i + d \in 1 .. n /\ i + d \in DOMAIN inFlight
    BY <1>1, <1>3, <1>4 DEF PendingShape
  <2>2. Pending'[i] = Strip(inFlight'[i])
    BY <1>2, <2>1 DEF PendingShape, Strip
  <2>3. inFlight'[i] = Marked(in, i + d)
    BY <1>3
  <2>4. Strip(Marked(in, i + d)) = Strip(inFlight[i + d])
    BY <2>1, MarkedIs
  <2>5. Pending[i + d] = Strip(inFlight[i + d])
    BY <1>1, <2>1 DEF PendingShape
  <2>6. QED
    BY <2>2, <2>3, <2>4, <2>5
<1>10. ASSUME NEW x \in outputBuffer PROVE Pending'[n - d + 1] = Pending[n + 1]
  <2>1. Pending[n + 1] = x
    BY <1>1 DEF PendingShape
  <2>2. CASE in.takes
    <3>1. n - d + 1 \in 1 .. Len(inFlight')
      BY <1>3, <1>4, <2>2
    <3>2. Pending'[n - d + 1] = Strip(inFlight'[n - d + 1])
      BY <1>2, <3>1 DEF PendingShape, Strip
    <3>3. inFlight'[n - d + 1] = Entered(x)
      BY <1>3, <2>2
    <3>4. Strip(Entered(x)) = x
      BY DEF BuffersOK, Strip, Entered, Renamed
    <3>5. QED
      BY <2>1, <3>2, <3>3, <3>4
  <2>3. CASE ~in.takes
    <3>1. outputBuffer' = outputBuffer
      BY <1>5, <2>3
    <3>2. Len(inFlight') = n - d
      BY <1>3, <1>4, <2>3
    <3>3. Pending'[Len(inFlight') + 1] = x
      BY <1>2, <3>1 DEF PendingShape
    <3>4. QED
      BY <2>1, <3>2, <3>3
  <2>4. QED
    BY <2>2, <2>3
<1>11. ASSUME NEW i \in 1 .. L - d PROVE Pending'[i] = Pending[i + d]
  <2>1. CASE i \in 1 .. n - d
    BY <1>9, <2>1
  <2>2. CASE i \notin 1 .. n - d
    <3>1. outputBuffer # {} /\ i = n - d + 1 /\ i + d = n + 1
      BY <1>4, <2>2
    <3>2. QED
      BY <1>10, <3>1
  <2>3. QED
    BY <2>1, <2>2
<1>12. ASSUME NEW x \in transfers(in) PROVE Pending'[L - d + 1] = New(x) /\ New(x) \in Renamed
  <2>1. New(x) \in outputBuffer'
    BY <1>5
  <2>2. Len(inFlight') = L - d
    BY <1>3, <1>4
  <2>3. QED
    BY <1>2, <2>1, <2>2 DEF PendingShape, BuffersOK
<1>13. /\ RestOf(in) \in Seq(Renamed) /\ Len(RestOf(in)) = L - d
       /\ \A i \in 1 .. L - d : RestOf(in)[i] = Pending[i + d]
       /\ in.retires => Pending # <<>>
  <2>1. Pending \in Seq(Renamed) /\ (in.retires => Pending # <<>>)
    BY <1>1, <1>4 DEF PendingShape
  <2>2. CASE in.retires
    <3>1. d = 1 /\ RestOf(in) = Tail(Pending)
      BY <2>2 DEF Shift, RestOf
    <3>2. Tail(Pending) \in Seq(Renamed) /\ Len(Tail(Pending)) = L - 1
      BY <2>1, <2>2
    <3>3. \A i \in 1 .. L - 1 : Tail(Pending)[i] = Pending[i + 1]
      BY <2>1, <2>2
    <3>4. QED
      BY <2>1, <3>1, <3>2, <3>3
  <2>3. CASE ~in.retires
    <3>1. d = 0 /\ RestOf(in) = Pending
      BY <2>3 DEF Shift, RestOf
    <3>2. L - 0 = L /\ \A i \in 1 .. L : i + 0 = i
      BY <1>4
    <3>3. QED
      BY <2>1, <3>1, <3>2
  <2>4. QED
    BY <2>2, <2>3
<1>14. Moved(in)
  BY <1>8, <1>11, <1>12 DEF Moved
<1> DEFINE R == RestOf(in)
           Q == Pending'
<1> HIDE DEF R, Q, n, L, d
<1>15. /\ Q \in Seq(Renamed) /\ R \in Seq(Renamed) /\ Len(R) = L - d /\ L - d \in Nat
       /\ \A i \in 1 .. L - d : Q[i] = R[i]
  BY <1>4, <1>8, <1>11, <1>13 DEF R, Q
<1>16. CASE transfers(in) = {}
  <2>1. Len(Q) = Len(R)
    BY <1>8, <1>15, <1>16 DEF Q
  <2>2. \A i \in 1 .. Len(Q) : Q[i] = R[i]
    BY <1>15, <2>1
  <2>3. Q = R
    BY <1>15, <2>1, <2>2, SeqEqual
  <2>4. QED
    BY <1>13, <1>16, <1>14, <2>3 DEF R, Q, L, d
<1>17. CASE transfers(in) # {}
  <2>1. Len(Q) = Len(R) + 1
    BY <1>8, <1>15, <1>17 DEF Q
  <2>2. ASSUME NEW x \in transfers(in) PROVE Q = Append(R, New(x)) /\ New(x) \in Renamed
    <3> DEFINE y == New(x)
    <3>1. Q[Len(R) + 1] = y /\ y \in Renamed
      BY <1>12, <1>15 DEF Q
    <3> HIDE DEF y
    <3>2. /\ Append(R, y) \in Seq(Renamed) /\ Len(Append(R, y)) = Len(R) + 1
          /\ \A i \in 1 .. Len(R) : Append(R, y)[i] = R[i]
          /\ Append(R, y)[Len(R) + 1] = y
      BY <1>15, <3>1
    <3>3. \A i \in 1 .. Len(Q) : Q[i] = Append(R, y)[i]
      BY <1>15, <2>1, <3>1, <3>2
    <3>4. Q = Append(R, y)
      BY <1>15, <2>1, <3>2, <3>3, SeqEqual
    <3>5. QED
      BY <3>1, <3>4 DEF y
  <2>3. QED
    BY <1>13, <1>17, <1>14, <2>2 DEF R, Q, L, d
<1>18. QED
  BY <1>16, <1>17

(* After a misprediction they end with the branch. *)
LEMMA PendingCut ==
  ASSUME BuffersOK, BuffersOK', NEW in, ~in.takes, ~in.retires, failed(in),
         Buffers(in), InFlight(in), Oldest \in DOMAIN inFlight
  PROVE  /\ Pending' = SubSeq(Pending, 1, Oldest) /\ Oldest \in DOMAIN Pending
         /\ Pending \in Seq(Renamed) /\ Len(inFlight') = Oldest
         /\ \A i \in 1 .. Oldest : i \in DOMAIN inFlight /\ inFlight'[i] = Marked(in, i)
<1> DEFINE n == Len(inFlight)
           M == [i \in DOMAIN inFlight |-> Marked(in, i)]
<1>1. PendingShape
  BY PendingHasShape
<1>2. PendingShape'
  <2>1. (BuffersOK => PendingShape)'
    BY PendingHasShape, PTL
  <2>2. QED
    BY <2>1
<1>3. /\ n \in Nat /\ DOMAIN inFlight = 1 .. n /\ Oldest \in 1 .. n /\ Oldest \in Nat
      /\ Len(Pending) \in Nat /\ n <= Len(Pending) /\ DOMAIN Pending = 1 .. Len(Pending)
  BY <1>1 DEF PendingShape
<1>4. M \in Seq(Issued) /\ Len(M) = n /\ \A i \in 1 .. n : M[i] = Marked(in, i)
  BY <1>3, MarkedIs
<1>5. inFlight' = SubSeq(M, 1, Oldest) \o <<>>
  BY DEF InFlight, Marked
<1> HIDE DEF M
<1>6. /\ SubSeq(M, 1, Oldest) \in Seq(Issued) /\ Len(SubSeq(M, 1, Oldest)) = Oldest
      /\ \A i \in 1 .. Oldest : SubSeq(M, 1, Oldest)[i] = M[i]
  <2>1. \A i \in 1 .. Oldest : M[i] \in Issued
    BY <1>3, <1>4
  <2>2. QED
    BY <1>3, <1>4, <2>1, SubSeqProperties
<1>7. inFlight' = SubSeq(M, 1, Oldest)
  BY <1>5, <1>6
<1>8. /\ Len(inFlight') = Oldest
      /\ \A i \in 1 .. Oldest : i \in DOMAIN inFlight /\ inFlight'[i] = Marked(in, i)
  BY <1>3, <1>4, <1>6, <1>7
<1>9. outputBuffer' = {}
  BY DEF Buffers
<1>10. Pending' \in Seq(Renamed) /\ Len(Pending') = Oldest
  BY <1>2, <1>3, <1>8, <1>9 DEF PendingShape
<1>11. ASSUME NEW i \in 1 .. Oldest PROVE Pending'[i] = Pending[i]
  <2>1. Pending'[i] = Strip(inFlight'[i])
    BY <1>2, <1>8 DEF PendingShape, Strip
  <2>2. inFlight'[i] = Marked(in, i) /\ i \in 1 .. n /\ i \in DOMAIN inFlight
    BY <1>3, <1>8
  <2>3. Strip(Marked(in, i)) = Strip(inFlight[i])
    BY <2>2, MarkedIs
  <2>4. Pending[i] = Strip(inFlight[i])
    BY <1>1, <2>2 DEF PendingShape
  <2>5. QED
    BY <2>1, <2>2, <2>3, <2>4
<1> DEFINE P == Pending
           Q == Pending'
<1>12. P \in Seq(Renamed) /\ Q \in Seq(Renamed) /\ Len(Q) = Oldest /\ \A i \in 1 .. Oldest : Q[i] = P[i]
  BY <1>1, <1>10, <1>11 DEF PendingShape
<1>13. Oldest \in 1 .. Len(P)
  BY <1>3
<1> HIDE DEF P, Q
<1>14. /\ SubSeq(P, 1, Oldest) \in Seq(Renamed) /\ Len(SubSeq(P, 1, Oldest)) = Oldest
       /\ \A i \in 1 .. Oldest : SubSeq(P, 1, Oldest)[i] = P[i]
  <2>1. \A i \in 1 .. Oldest : P[i] \in Renamed
    BY <1>12, <1>13
  <2>2. QED
    BY <1>3, <1>12, <1>13, <2>1, SubSeqProperties
<1>15. Q = SubSeq(P, 1, Oldest)
  BY <1>12, <1>14, SeqEqual
<1>16. QED
  BY <1>3, <1>8, <1>12, <1>13, <1>15 DEF P, Q
-----------------------------------------------------------------------------
(***************************************************************************)
(* A cycle, from a state that satisfies the invariant.                     *)
(***************************************************************************)
LEMMA InvShape == IInv => BuffersOK /\ PendingShape
<1>1. IInv => BuffersOK
  BY DEF IInv, TypeOK, BuffersOK
<1>2. QED
  BY <1>1, PendingHasShape

LEMMA OldestIs ==
  ASSUME PendingShape, Unresolved # {}
  PROVE  /\ Oldest \in DOMAIN inFlight /\ Cfi(inFlight[Oldest]) /\ ~inFlight[Oldest].done
         /\ Oldest \in 1 .. Len(inFlight)
         /\ \A i \in DOMAIN inFlight : Cfi(inFlight[i]) /\ ~inFlight[i].done => Oldest <= i
<1>1. Unresolved \in SUBSET Nat /\ DOMAIN inFlight = 1 .. Len(inFlight)
  BY DEF Unresolved, PendingShape
<1>2. Oldest \in Unresolved /\ \A y \in Unresolved : Oldest <= y
  BY <1>1, MinIs DEF Oldest
<1>3. QED
  BY <1>1, <1>2 DEF Unresolved

(* A register in use is not in the free list. *)
LEMMA MappedIsHeld ==
  ASSUME NEW P \in Seq(Renamed), NEW arch, NEW m, NEW k, MapAt(P, arch, m, k), NEW r \in Regs
  PROVE  IsHeld(P, arch, k, m[r])
  BY DEF MapAt, IsHeld, Youngest, Untouched

LEMMA TransferIs ==
  ASSUME IInv, NEW in \in Input
  PROVE  /\ freeRegAddr \in PRFFreeList /\ freeRegAddr \in PRF
         /\ freeClrCollide(in) = {}
         /\ transfers(in) \subseteq inputBuffer /\ AtMostOne(transfers(in))
         /\ transfers(in) \subseteq Decoded
         /\ transfers(in) # {} => /\ ~failed(in) /\ (outputBuffer = {} \/ in.takes)
                                  /\ freeRegAddr # PRFCount - 1
         /\ \A x \in transfers(in) : Cfi(x) => ~fired(in) /\ ~cfiMaskOccupied
<1>1. PRFFreeList \in SUBSET Nat /\ PRFFreeList # {} /\ PRFFreeList \subseteq PRF
  BY DEF IInv, TypeOK, PRF
<1>2. freeRegAddr \in PRFFreeList /\ freeRegAddr \in PRF
  BY <1>1, MinIs DEF freeRegAddr
<1>3. frontEndRegMap[in.rs] \notin PRFFreeList
  <2>1. Pending \in Seq(Renamed)
    BY InvShape DEF PendingShape
  <2>2. in.rs \in Regs
    BY InputIs DEF IInv
  <2>3. IsHeld(Pending, architecturalRegMap, Len(Pending), frontEndRegMap[in.rs])
    BY <2>1, <2>2, MappedIsHeld DEF IInv
  <2>4. frontEndRegMap[in.rs] \in PRF
    BY <2>2 DEF IInv, TypeOK
  <2>5. QED
    BY <2>3, <2>4 DEF IInv, FreeAt
<1>4. freeClrCollide(in) = {}
  BY <1>2, <1>3 DEF freeClrCollide
<1>5. /\ transfers(in) \subseteq inputBuffer /\ AtMostOne(transfers(in))
      /\ transfers(in) \subseteq Decoded
  BY DEF transfers, IInv, TypeOK, AtMostOne
<1>6. ASSUME NEW x \in transfers(in)
      PROVE  /\ ~failed(in) /\ (outputBuffer = {} \/ in.takes) /\ freeRegAddr # PRFCount - 1
             /\ Cfi(x) => ~fired(in) /\ ~cfiMaskOccupied
  BY DEF transfers, stall
<1>7. QED
  BY <1>2, <1>4, <1>5, <1>6

(* The buffers stay buffers. *)
LEMMA BuffersNext ==
  ASSUME IInv, NEW in \in Input, Cycle(in)
  PROVE  /\ BuffersOK' /\ Len(inFlight') <= RobDepth
         /\ inputBuffer' \subseteq Decoded /\ AtMostOne(inputBuffer')
         /\ failed(in) => inputBuffer' = {} /\ outputBuffer' = {}
<1>1. BuffersOK /\ PendingShape /\ TypeOK
  BY InvShape DEF IInv
<1>2. Buffers(in) /\ InFlight(in)
  BY DEF Cycle
<1>3. inputBuffer' \subseteq Decoded /\ AtMostOne(inputBuffer')
  BY <1>1, <1>2, InputIs DEF Buffers, IInv, TypeOK, AtMostOne
<1>4. outputBuffer' \subseteq Renamed /\ AtMostOne(outputBuffer')
  <2>1. ASSUME NEW x \in transfers(in) PROVE New(x) \in Renamed
    BY TransferIs DEF New, Renamed, Decoded
  <2>2. outputBuffer' = IF failed(in) THEN {}
                        ELSE IF transfers(in) # {} THEN {New(x) : x \in transfers(in)}
                        ELSE IF in.takes THEN {} ELSE outputBuffer
    BY <1>2 DEF Buffers, New
  <2>3. AtMostOne({New(x) : x \in transfers(in)})
    BY TransferIs DEF AtMostOne
  <2>4. AtMostOne({}) /\ AtMostOne(outputBuffer) /\ outputBuffer \subseteq Renamed
    BY <1>1 DEF AtMostOne, BuffersOK
  <2>5. outputBuffer' \in {{}, {New(x) : x \in transfers(in)}, outputBuffer}
    BY <2>2
  <2>6. QED
    BY <2>1, <2>3, <2>4, <2>5
<1>5. inFlight' \in Seq(Issued) /\ Len(inFlight') <= RobDepth
  <2>1. CASE failed(in)
    <3>1. Unresolved # {} /\ ~in.takes /\ ~in.retires
      BY <1>1, <2>1, InputIs
    <3>2. Oldest \in DOMAIN inFlight /\ Oldest \in 1 .. Len(inFlight)
      BY <1>1, <3>1, OldestIs
    <3> DEFINE M == [i \in DOMAIN inFlight |-> Marked(in, i)]
    <3>3. Len(inFlight) \in Nat /\ DOMAIN inFlight = 1 .. Len(inFlight)
      BY <1>1 DEF PendingShape
    <3>4. M \in Seq(Issued) /\ Len(M) = Len(inFlight)
      BY <1>1, <3>3, MarkedIs
    <3>5. inFlight' = SubSeq(M, 1, Oldest) \o <<>>
      BY <1>2, <2>1, <3>1 DEF InFlight, Marked
    <3> HIDE DEF M
    <3>6. SubSeq(M, 1, Oldest) \in Seq(Issued) /\ Len(SubSeq(M, 1, Oldest)) = Oldest
      <4>1. \A i \in 1 .. Oldest : M[i] \in Issued
        BY <3>2, <3>3, <3>4
      <4>2. QED
        BY <3>2, <3>3, <3>4, <4>1, SubSeqProperties
    <3>7. inFlight' = SubSeq(M, 1, Oldest)
      BY <3>5, <3>6
    <3>8. Oldest <= RobDepth
      BY <1>1, <3>2, <3>3 DEF TypeOK
    <3>9. QED
      BY <3>6, <3>7, <3>8
  <2>2. CASE ~failed(in)
    <3>1. /\ in.takes \in BOOLEAN /\ in.retires \in BOOLEAN
          /\ in.takes => outputBuffer # {} /\ (Len(inFlight) < RobDepth \/ in.retires)
          /\ in.retires => Retirable
      BY <1>1, InputIs
    <3>2. in.retires => inFlight # <<>>
      BY <3>1 DEF Retirable
    <3>3. inFlight' \in Seq(Issued) /\ Len(inFlight') = Len(inFlight) - Shift(in) + Grow(in)
      BY <1>1, <1>2, <2>2, <3>1, <3>2, FlightStep
    <3>4. Len(inFlight) \in Nat /\ Len(inFlight) <= RobDepth
      BY <1>1 DEF PendingShape, TypeOK
    <3>5. Len(inFlight) - Shift(in) + Grow(in) <= RobDepth
      BY <3>1, <3>4 DEF Shift, Grow
    <3>6. QED
      BY <3>3, <3>5
  <2>3. QED
    BY <2>1, <2>2
<1>6. failed(in) => inputBuffer' = {} /\ outputBuffer' = {}
  BY <1>2 DEF Buffers
<1>7. QED
  BY <1>3, <1>4, <1>5, <1>6 DEF BuffersOK

(* What is retired: the first pending instruction. *)
LEMMA RetiredIs ==
  ASSUME IInv, NEW in \in Input, Cycle(in)
  PROVE  /\ architecturalRegMap' = IF in.retires THEN ArchAfter(Pending, architecturalRegMap)
                                   ELSE architecturalRegMap
         /\ freeSetRetire(in) = IF in.retires THEN Released(Pending, architecturalRegMap) ELSE {}
         /\ in.retires => Pending # <<>> /\ inFlight # <<>> /\ inFlight[1].done
                          /\ 1 \in DOMAIN inFlight
         /\ in.retires \in BOOLEAN
<1>1. PendingShape /\ TypeOK
  BY InvShape DEF IInv
<1>2. in.retires \in BOOLEAN /\ (in.retires => Retirable)
  BY <1>1, InputIs
<1>3. in.retires => /\ 1 \in DOMAIN inFlight /\ Pending[1] = Strip(inFlight[1])
                    /\ inFlight # <<>> /\ inFlight[1].done
                    /\ Pending # <<>>
  <2>1. inFlight # <<>> => 1 \in 1 .. Len(inFlight)
    BY <1>1 DEF PendingShape, TypeOK
  <2>2. inFlight # <<>> => Len(Pending) # 0
    BY <1>1, <2>1 DEF PendingShape
  <2>3. Len(Pending) # 0 => Pending # <<>>
    OBVIOUS
  <2>4. QED
    BY <1>1, <1>2, <2>1, <2>2, <2>3 DEF PendingShape, Retirable
<1>4. architecturalRegMap \in [Regs -> PRF]
  BY <1>1 DEF TypeOK
<1>5. /\ architecturalRegMap' = [r \in Regs |-> IF \E x \in retired(in) : x.rd = r
                                                THEN inFlight[1].prf ELSE architecturalRegMap[r]]
  BY DEF Cycle, Maps
<1>6. CASE ~in.retires
  <2>1. retired(in) = {}
    BY <1>6 DEF retired
  <2>2. architecturalRegMap' = architecturalRegMap
    BY <1>4, <1>5, <2>1
  <2>3. QED
    BY <1>2, <1>6, <2>1, <2>2 DEF freeSetRetire
<1>7. CASE in.retires
  <2>1. retired(in) = IF Writes(inFlight[1]) THEN {inFlight[1]} ELSE {}
    BY <1>3, <1>7 DEF retired
  <2>2. /\ Pending[1].prf = inFlight[1].prf /\ Pending[1].rd = inFlight[1].rd
        /\ Writes(Pending[1]) <=> Writes(inFlight[1])
    BY <1>3, <1>7 DEF Strip, Writes
  <2>3. architecturalRegMap' = ArchAfter(Pending, architecturalRegMap)
    BY <1>5, <2>1, <2>2 DEF ArchAfter
  <2>4. freeSetRetire(in) = Released(Pending, architecturalRegMap)
    BY <2>1, <2>2 DEF freeSetRetire, Released
  <2>5. QED
    BY <1>2, <1>3, <1>7, <2>3, <2>4
<1>8. QED
  BY <1>2, <1>6, <1>7

(* Retirement keeps what every list reflects. *)
LEMMA RestOwners ==
  ASSUME IInv, NEW in \in Input, Cycle(in)
  PROVE  architecturalRegMap' \in [Regs -> PRF] /\ Owned(RestOf(in), architecturalRegMap')
<1>1. /\ Pending \in Seq(Renamed) /\ architecturalRegMap \in [Regs -> PRF]
      /\ Owned(Pending, architecturalRegMap)
  BY InvShape DEF IInv, TypeOK, PendingShape
<1>2. CASE in.retires
  <2>1. IsRest(Pending, RestOf(in))
    BY <1>1, <1>2, RetiredIs, TailIsRest DEF RestOf
  <2>2. QED
    BY <1>1, <1>2, <2>1, RetiredIs, RetireOwners
<1>3. CASE ~in.retires
  BY <1>1, <1>3, RetiredIs DEF RestOf
<1>4. QED
  BY <1>2, <1>3

LEMMA RestHeld ==
  ASSUME IInv, NEW in \in Input, Cycle(in), NEW k \in Nat, in.retires => k >= 1, NEW p \in PRF
  PROVE  IsHeld(RestOf(in), architecturalRegMap', k - Shift(in), p)
           <=> IsHeld(Pending, architecturalRegMap, k, p) /\ p \notin freeSetRetire(in)
<1>1. /\ Pending \in Seq(Renamed) /\ architecturalRegMap \in [Regs -> PRF]
      /\ Owned(Pending, architecturalRegMap)
  BY InvShape DEF IInv, TypeOK, PendingShape
<1>2. CASE in.retires
  <2>1. IsRest(Pending, RestOf(in))
    BY <1>1, <1>2, RetiredIs, TailIsRest DEF RestOf
  <2>2. Shift(in) = 1
    BY <1>2 DEF Shift
  <2>3. IsHeld(RestOf(in), ArchAfter(Pending, architecturalRegMap), k - 1, p)
          <=> /\ IsHeld(Pending, architecturalRegMap, k, p)
              /\ p \notin Released(Pending, architecturalRegMap)
    BY <1>1, <1>2, <2>1, RetireHeld
  <2>4. QED
    BY <1>2, <2>2, <2>3, RetiredIs
<1>3. CASE ~in.retires
  <2>1. Shift(in) = 0 /\ k - 0 = k /\ RestOf(in) = Pending
    BY <1>3 DEF Shift, RestOf
  <2>2. QED
    BY <1>3, <2>1, RetiredIs
<1>4. QED
  BY <1>2, <1>3

LEMMA RestMap ==
  ASSUME IInv, NEW in \in Input, Cycle(in), NEW k \in Nat, in.retires => k >= 1, NEW m,
         MapAt(Pending, architecturalRegMap, m, k)
  PROVE  MapAt(RestOf(in), architecturalRegMap', m, k - Shift(in))
<1>1. /\ Pending \in Seq(Renamed) /\ architecturalRegMap \in [Regs -> PRF]
  BY InvShape DEF IInv, TypeOK, PendingShape
<1>2. CASE in.retires
  <2>1. IsRest(Pending, RestOf(in))
    BY <1>1, <1>2, RetiredIs, TailIsRest DEF RestOf
  <2>2. Shift(in) = 1
    BY <1>2 DEF Shift
  <2>3. QED
    BY <1>1, <1>2, <2>1, <2>2, RetiredIs, RetireMap
<1>3. CASE ~in.retires
  <2>1. Shift(in) = 0 /\ k - 0 = k /\ RestOf(in) = Pending
    BY <1>3 DEF Shift, RestOf
  <2>2. QED
    BY <1>3, <2>1, RetiredIs
<1>4. QED
  BY <1>2, <1>3
-----------------------------------------------------------------------------
(***************************************************************************)
(* A cycle without a misprediction.                                        *)
(***************************************************************************)
LEMMA PendingNext ==
  ASSUME IInv, NEW in \in Input, Cycle(in), ~failed(in)
  PROVE  /\ transfers(in) = {} => Pending' = RestOf(in)
         /\ \A x \in transfers(in) : Pending' = Append(RestOf(in), New(x)) /\ New(x) \in Renamed
         /\ RestOf(in) \in Seq(Renamed) /\ Len(RestOf(in)) = Len(Pending) - Shift(in)
         /\ in.retires => Pending # <<>>
         /\ Moved(in)
<1>1. TypeOK /\ BuffersOK /\ BuffersOK'
  BY InvShape, BuffersNext DEF IInv
<1>2. /\ in.takes \in BOOLEAN /\ in.retires \in BOOLEAN
      /\ in.takes => outputBuffer # {}
      /\ in.retires => inFlight # <<>>
  BY <1>1, InputIs, RetiredIs
<1>3. /\ AtMostOne(transfers(in))
      /\ transfers(in) # {} => outputBuffer = {} \/ in.takes
  BY TransferIs
<1>4. Buffers(in) /\ InFlight(in)
  BY DEF Cycle
<1>5. QED
  BY <1>1, <1>2, <1>3, <1>4, PendingStep

LEMMA FlightNext ==
  ASSUME IInv, NEW in \in Input, Cycle(in), ~failed(in)
  PROVE  /\ Len(inFlight') = Len(inFlight) - Shift(in) + Grow(in)
         /\ DOMAIN inFlight' = 1 .. Len(inFlight')
         /\ \A i \in 1 .. Len(inFlight) - Shift(in) : inFlight'[i] = Marked(in, i + Shift(in))
         /\ in.takes => \A x \in outputBuffer :
              inFlight'[Len(inFlight) - Shift(in) + 1] = Entered(x)
<1>1. TypeOK /\ BuffersOK /\ InFlight(in)
  BY InvShape DEF IInv, Cycle
<1>2. /\ in.takes \in BOOLEAN /\ in.retires \in BOOLEAN
      /\ in.takes => outputBuffer # {}
      /\ in.retires => inFlight # <<>>
  BY <1>1, InputIs, RetiredIs
<1>3. /\ inFlight' \in Seq(Issued)
      /\ Len(inFlight') = Len(inFlight) - Shift(in) + Grow(in)
      /\ \A i \in 1 .. Len(inFlight) - Shift(in) : inFlight'[i] = Marked(in, i + Shift(in))
      /\ in.takes => \A x \in outputBuffer :
           inFlight'[Len(inFlight) - Shift(in) + 1] = Entered(x)
  BY <1>1, <1>2, FlightStep
<1>4. DOMAIN inFlight' = 1 .. Len(inFlight')
  BY <1>3
<1>5. QED
  BY <1>3, <1>4

(* Lengths and shifts of a cycle. *)
LEMMA Lengths ==
  ASSUME IInv, NEW in \in Input, Cycle(in)
  PROVE  /\ Len(inFlight) \in Nat /\ Len(Pending) \in Nat
         /\ DOMAIN inFlight = 1 .. Len(inFlight) /\ DOMAIN Pending = 1 .. Len(Pending)
         /\ Len(Pending) = Len(inFlight) + (IF outputBuffer = {} THEN 0 ELSE 1)
         /\ Shift(in) \in 0 .. 1 /\ Grow(in) \in 0 .. 1
         /\ in.takes \in BOOLEAN /\ in.retires \in BOOLEAN
         /\ (in.takes <=> Grow(in) = 1) /\ (in.retires <=> Shift(in) = 1)
         /\ in.takes => outputBuffer # {}
         /\ Shift(in) <= Len(inFlight)
<1>1. PendingShape /\ TypeOK
  BY InvShape DEF IInv
<1>2. /\ in.takes \in BOOLEAN /\ in.retires \in BOOLEAN
      /\ in.takes => outputBuffer # {}
  BY <1>1, InputIs
<1>3. in.retires => 1 \in DOMAIN inFlight
  BY RetiredIs
<1>4. Pending \in Seq(Renamed) /\ DOMAIN Pending = 1 .. Len(Pending) /\ Len(Pending) \in Nat
  BY <1>1 DEF PendingShape
<1>5. /\ Shift(in) \in 0 .. 1 /\ Grow(in) \in 0 .. 1
      /\ (in.takes <=> Grow(in) = 1) /\ (in.retires <=> Shift(in) = 1)
  BY <1>2 DEF Shift, Grow
<1>6. /\ Len(inFlight) \in Nat /\ DOMAIN inFlight = 1 .. Len(inFlight)
      /\ Len(Pending) = Len(inFlight) + (IF outputBuffer = {} THEN 0 ELSE 1)
  BY <1>1 DEF PendingShape
<1>7. Shift(in) <= Len(inFlight)
  BY <1>2, <1>3, <1>5, <1>6
<1>8. QED
  BY <1>2, <1>4, <1>5, <1>6, <1>7

(* The kind, the register and the progress of a pending instruction. *)
LEMMA PendingOf ==
  ASSUME IInv, NEW i \in DOMAIN inFlight
  PROVE  /\ i \in DOMAIN Pending /\ i \in 1 .. Len(inFlight)
         /\ inFlight[i] \in Issued
         /\ Pending[i].prf = inFlight[i].prf /\ Pending[i].rd = inFlight[i].rd
         /\ Pending[i].kind = inFlight[i].kind
         /\ (Cfi(Pending[i]) <=> Cfi(inFlight[i])) /\ (Writes(Pending[i]) <=> Writes(inFlight[i]))
         /\ (i \in DestsOf(Pending) <=> Writes(inFlight[i]))
<1>1. PendingShape
  BY InvShape
<1>2. i \in 1 .. Len(inFlight) /\ Pending[i] = Strip(inFlight[i]) /\ inFlight[i] \in Issued
  BY <1>1 DEF PendingShape
<1>3. i \in DOMAIN Pending
  <2>1. Pending \in Seq(Renamed) /\ DOMAIN Pending = 1 .. Len(Pending) /\ Len(Pending) \in Nat
    BY <1>1 DEF PendingShape
  <2>2. Len(inFlight) \in Nat /\ Len(inFlight) <= Len(Pending)
    BY <1>1 DEF PendingShape
  <2>3. QED
    BY <1>2, <2>1, <2>2
<1>4. QED
  BY <1>2, <1>3 DEF Strip, Cfi, Writes, DestsOf

LEMMA OpenNext ==
  ASSUME IInv, NEW in \in Input, Cycle(in), ~failed(in), NEW j
  PROVE  j \in Open' <=>
           \/ /\ j \in 1 .. Len(Pending) - Shift(in) /\ j + Shift(in) \in Open
              /\ ~(fired(in) /\ j + Shift(in) = Oldest)
           \/ /\ j = Len(Pending) - Shift(in) + 1
              /\ \E x \in transfers(in) : Cfi(x)
<1> DEFINE n == Len(inFlight)
           L == Len(Pending)
           d == Shift(in)
           g == Grow(in)
           t == IF transfers(in) = {} THEN 0 ELSE 1
<1>1. /\ n \in Nat /\ L \in Nat /\ d \in 0 .. 1 /\ g \in 0 .. 1
      /\ DOMAIN inFlight = 1 .. n /\ DOMAIN Pending = 1 .. L
      /\ L = n + (IF outputBuffer = {} THEN 0 ELSE 1)
      /\ (in.takes <=> g = 1) /\ d <= n
      /\ in.takes => outputBuffer # {}
  BY Lengths
<1>2. /\ DOMAIN inFlight' = 1 .. n - d + g
      /\ \A i \in 1 .. n - d : inFlight'[i] = Marked(in, i + d)
      /\ in.takes => \A x \in outputBuffer : inFlight'[n - d + 1] = Entered(x)
  BY FlightNext
<1>3. /\ Len(Pending') = L - d + t
      /\ \A i \in 1 .. L - d : Pending'[i] = Pending[i + d]
      /\ \A x \in transfers(in) : Pending'[L - d + 1] = New(x)
  BY PendingNext DEF Moved
<1>4. DOMAIN Pending' = 1 .. Len(Pending')
  <2>1. BuffersOK'
    BY BuffersNext
  <2>2. (BuffersOK => PendingShape)'
    BY PendingHasShape, PTL
  <2>3. Pending' \in Seq(Renamed)
    BY <2>1, <2>2 DEF PendingShape
  <2>4. QED
    BY <2>3
<1>5. DOMAIN Pending' = 1 .. L - d + t
  BY <1>3, <1>4
<1>6. j \in Open' <=> /\ j \in DOMAIN Pending' /\ Cfi(Pending'[j])
                      /\ j \in DOMAIN inFlight' => ~inFlight'[j].done
  BY DEF Open, Cfi
<1>7. fired(in) => Oldest \in 1 .. n
  BY InvShape, OldestIs, InputIs DEF IInv
<1>8. t \in 0 .. 1 /\ (t = 0 <=> transfers(in) = {})
  OBVIOUS
<1> DEFINE Goal ==
             j \in Open' <=>
               \/ j \in 1 .. L - d /\ j + d \in Open /\ ~(fired(in) /\ j + d = Oldest)
               \/ j = L - d + 1 /\ \E x \in transfers(in) : Cfi(x)
<1> SUFFICES Goal
  OBVIOUS
<1> HIDE DEF n, L, d, g, t
<1>9. CASE j \in 1 .. n - d
  <2>1. /\ j + d \in 1 .. n /\ j + d \in DOMAIN inFlight /\ j + d \in DOMAIN Pending
        /\ j \in 1 .. L - d /\ j \in DOMAIN inFlight' /\ j \in DOMAIN Pending'
        /\ j # L - d + 1 /\ j + d # 0
    BY <1>1, <1>2, <1>5, <1>8, <1>9
  <2>2. Pending'[j] = Pending[j + d]
    BY <1>3, <2>1
  <2>3. inFlight'[j].done <=> \/ inFlight[j + d].done \/ j + d = in.executes
                              \/ fired(in) /\ j + d = Oldest
    <3>1. inFlight'[j] = Marked(in, j + d)
      BY <1>2, <1>9
    <3>2. BuffersOK
      BY InvShape
    <3>3. Marked(in, j + d).done <=> \/ inFlight[j + d].done \/ j + d = in.executes
                                     \/ fired(in) /\ j + d = Oldest
      BY <2>1, <3>2, MarkedIs
    <3>4. QED
      BY <3>1, <3>3
  <2>4. Cfi(Pending[j + d]) => j + d # in.executes
    <3>1. in.executes # 0 => ~Cfi(inFlight[in.executes])
      BY InputIs DEF IInv
    <3>2. Cfi(Pending[j + d]) <=> Cfi(inFlight[j + d])
      BY <2>1, PendingOf
    <3>3. QED
      BY <2>1, <3>1, <3>2
  <2>5. j + d \in Open <=> Cfi(Pending[j + d]) /\ ~inFlight[j + d].done
    BY <2>1 DEF Open
  <2>6. QED
    BY <1>6, <2>1, <2>2, <2>3, <2>4, <2>5
<1>10. CASE j \in 1 .. L - d /\ j \notin 1 .. n - d
  <2>1. /\ outputBuffer # {} /\ j = n - d + 1 /\ j + d = n + 1 /\ j + d \notin DOMAIN inFlight
        /\ j + d \in DOMAIN Pending /\ j \in DOMAIN Pending' /\ j # L - d + 1
        /\ fired(in) => j + d # Oldest
    BY <1>1, <1>5, <1>7, <1>8, <1>10
  <2>2. Pending'[j] = Pending[j + d]
    BY <1>3, <1>10
  <2>3. j + d \in Open <=> Cfi(Pending[j + d])
    BY <2>1 DEF Open
  <2>4. Cfi(Pending[j + d]) /\ j \in DOMAIN inFlight' => ~inFlight'[j].done
    <3>1. SUFFICES ASSUME Cfi(Pending[j + d]), j \in DOMAIN inFlight' PROVE ~inFlight'[j].done
      OBVIOUS
    <3>2. in.takes
      BY <1>1, <1>2, <2>1, <3>1
    <3>3. PICK x \in outputBuffer : TRUE
      BY <2>1
    <3>4. Pending[j + d] = x
      BY <2>1, InvShape DEF PendingShape, n
    <3>5. inFlight'[j] = Entered(x)
      BY <1>2, <2>1, <3>2
    <3>6. x.kind # "lui"
      BY <3>1, <3>4 DEF Cfi
    <3>7. Entered(x).done = (x.kind = "lui")
      BY DEF Entered
    <3>8. QED
      BY <3>5, <3>6, <3>7
  <2>5. QED
    BY <1>6, <1>10, <2>1, <2>2, <2>3, <2>4
<1>11. CASE j = L - d + 1
  <2>1. j \notin 1 .. L - d
    BY <1>1, <1>11
  <2>2. CASE transfers(in) = {}
    <3>1. j \notin DOMAIN Pending'
      BY <1>1, <1>5, <1>8, <1>11, <2>2
    <3>2. QED
      BY <1>6, <2>1, <2>2, <3>1
  <2>3. CASE transfers(in) # {}
    <3>1. PICK x \in transfers(in) : TRUE
      BY <2>3
    <3>2. \A y \in transfers(in) : y = x
      BY TransferIs DEF AtMostOne
    <3>3. Pending'[j] = New(x) /\ (Cfi(New(x)) <=> Cfi(x))
      BY <1>3, <1>11 DEF New, Cfi
    <3>4. outputBuffer = {} \/ in.takes
      BY <2>3, TransferIs
    <3>5. j \in DOMAIN Pending' /\ j \notin DOMAIN inFlight'
      BY <1>1, <1>2, <1>5, <1>8, <1>11, <2>3, <3>4
    <3>6. QED
      BY <1>6, <1>11, <2>1, <3>1, <3>2, <3>3, <3>5
  <2>4. QED
    BY <2>2, <2>3
<1>12. CASE j \notin 1 .. L - d /\ j # L - d + 1
  <2>1. j \notin DOMAIN Pending'
    BY <1>1, <1>5, <1>8, <1>12
  <2>2. QED
    BY <1>6, <1>12, <2>1
<1>13. QED
  BY <1>9, <1>10, <1>11, <1>12

(* What a list reflects moves down with the instructions. *)
LEMMA RestAgrees ==
  ASSUME IInv, NEW in \in Input, Cycle(in), ~failed(in), NEW k \in Nat, k <= Len(RestOf(in))
  PROVE  Agree(RestOf(in), Pending', k)
<1>1. CASE transfers(in) = {}
  BY <1>1, PendingNext DEF Agree
<1>2. ASSUME NEW x \in transfers(in) PROVE Agree(RestOf(in), Pending', k)
  <2>1. /\ RestOf(in) \in Seq(Renamed) /\ New(x) \in Renamed
        /\ Pending' = Append(RestOf(in), New(x))
    BY PendingNext
  <2>2. IsLonger(RestOf(in), Len(RestOf(in)), New(x), Pending') /\ Len(RestOf(in)) \in Nat
    BY <2>1, AppendIsLonger
  <2>3. QED
    BY <2>2, LongerAgrees
<1>3. QED
  BY <1>1, <1>2

LEMMA HeldNext ==
  ASSUME IInv, NEW in \in Input, Cycle(in), ~failed(in), NEW k \in Nat, k <= Len(Pending),
         in.retires => k >= 1, NEW p \in PRF
  PROVE  IsHeld(Pending', architecturalRegMap', k - Shift(in), p)
           <=> IsHeld(Pending, architecturalRegMap, k, p) /\ p \notin freeSetRetire(in)
<1>1. IsHeld(RestOf(in), architecturalRegMap', k - Shift(in), p)
           <=> IsHeld(Pending, architecturalRegMap, k, p) /\ p \notin freeSetRetire(in)
  BY RestHeld
<1>2. k - Shift(in) \in Nat /\ k - Shift(in) <= Len(RestOf(in))
  <2>1. Len(RestOf(in)) = Len(Pending) - Shift(in)
    BY PendingNext
  <2>2. Shift(in) \in 0 .. 1 /\ (in.retires <=> Shift(in) = 1) /\ Len(Pending) \in Nat
    BY Lengths
  <2>3. QED
    BY <2>1, <2>2
<1>3. Agree(RestOf(in), Pending', k - Shift(in))
  BY <1>2, RestAgrees
<1>4. QED
  BY <1>1, <1>3, AgreeHeld

LEMMA FreeKept ==
  ASSUME IInv, NEW in \in Input, Cycle(in), ~failed(in), NEW k \in Nat, k <= Len(Pending),
         in.retires => k >= 1, NEW F, FreeAt(Pending, architecturalRegMap, F, k)
  PROVE  FreeAt(Pending', architecturalRegMap', F \cup freeSetRetire(in), k - Shift(in))
<1>1. ASSUME NEW p \in PRF
      PROVE  p \in F \cup freeSetRetire(in)
               <=> ~IsHeld(Pending', architecturalRegMap', k - Shift(in), p)
  <2>1. IsHeld(Pending', architecturalRegMap', k - Shift(in), p)
           <=> IsHeld(Pending, architecturalRegMap, k, p) /\ p \notin freeSetRetire(in)
    BY HeldNext
  <2>2. p \in F <=> ~IsHeld(Pending, architecturalRegMap, k, p)
    BY DEF FreeAt
  <2>3. QED
    BY <2>1, <2>2
<1>2. QED
  BY <1>1 DEF FreeAt

LEMMA MapKept ==
  ASSUME IInv, NEW in \in Input, Cycle(in), ~failed(in), NEW k \in Nat, k <= Len(Pending),
         in.retires => k >= 1, NEW m, MapAt(Pending, architecturalRegMap, m, k)
  PROVE  MapAt(Pending', architecturalRegMap', m, k - Shift(in))
<1>1. MapAt(RestOf(in), architecturalRegMap', m, k - Shift(in))
  BY RestMap
<1>2. k - Shift(in) \in Nat /\ k - Shift(in) <= Len(RestOf(in))
  <2>1. Len(RestOf(in)) = Len(Pending) - Shift(in)
    BY PendingNext
  <2>2. Shift(in) \in 0 .. 1 /\ (in.retires <=> Shift(in) = 1) /\ Len(Pending) \in Nat
    BY Lengths
  <2>3. QED
    BY <2>1, <2>2
<1>3. Agree(RestOf(in), Pending', k - Shift(in))
  BY <1>2, RestAgrees
<1>4. QED
  BY <1>1, <1>3, AgreeMap

(* The renamed instruction takes a register nobody holds. *)
LEMMA AllocatedIs ==
  ASSUME IInv, NEW in \in Input
  PROVE  /\ \A x \in transfers(in) : allocated(in) = IF Writes(x) THEN {freeRegAddr} ELSE {}
         /\ transfers(in) = {} => allocated(in) = {}
         /\ allocated(in) \subseteq PRFFreeList /\ allocated(in) \subseteq PRF
         /\ PRFCount - 1 \notin allocated(in)
         /\ \A p \in PRF : IsHeld(Pending, architecturalRegMap, Len(Pending), p)
                              => p \notin allocated(in)
<1>1. ASSUME NEW x \in transfers(in)
      PROVE  allocated(in) = IF Writes(x) THEN {freeRegAddr} ELSE {}
  BY TransferIs DEF allocated, AtMostOne
<1>2. /\ allocated(in) \subseteq PRFFreeList /\ allocated(in) \subseteq PRF
      /\ PRFCount - 1 \notin allocated(in)
  BY TransferIs DEF allocated
<1>3. transfers(in) = {} => allocated(in) = {}
  BY DEF allocated
<1>4. QED
  BY <1>1, <1>2, <1>3 DEF IInv, FreeAt

LEMMA RestTop ==
  ASSUME IInv, NEW in \in Input, Cycle(in), ~failed(in)
  PROVE  /\ Len(Pending) \in Nat /\ (in.retires => Len(Pending) >= 1)
         /\ Len(RestOf(in)) = Len(Pending) - Shift(in) /\ Len(RestOf(in)) \in Nat
         /\ FreeAt(RestOf(in), architecturalRegMap', PRFFreeList \cup freeSetRetire(in),
                   Len(RestOf(in)))
         /\ MapAt(RestOf(in), architecturalRegMap', frontEndRegMap, Len(RestOf(in)))
<1>1. /\ Len(Pending) \in Nat /\ (in.retires => Len(Pending) >= 1)
      /\ Len(Pending) - Shift(in) \in Nat
  BY Lengths
<1>2. Len(RestOf(in)) = Len(Pending) - Shift(in)
  BY PendingNext
<1>3. MapAt(RestOf(in), architecturalRegMap', frontEndRegMap, Len(RestOf(in)))
  BY <1>1, <1>2, RestMap DEF IInv
<1>4. ASSUME NEW p \in PRF
      PROVE  p \in PRFFreeList \cup freeSetRetire(in)
               <=> ~IsHeld(RestOf(in), architecturalRegMap', Len(RestOf(in)), p)
  <2>1. IsHeld(RestOf(in), architecturalRegMap', Len(Pending) - Shift(in), p)
           <=> IsHeld(Pending, architecturalRegMap, Len(Pending), p) /\ p \notin freeSetRetire(in)
    BY <1>1, RestHeld
  <2>2. p \in PRFFreeList <=> ~IsHeld(Pending, architecturalRegMap, Len(Pending), p)
    BY DEF IInv, FreeAt
  <2>3. QED
    BY <1>2, <2>1, <2>2
<1>5. QED
  BY <1>1, <1>2, <1>3, <1>4 DEF FreeAt

(* What is released was held, so it is not what is allocated. *)
LEMMA ReleasedHeld ==
  ASSUME IInv, NEW in \in Input, Cycle(in), NEW p \in freeSetRetire(in)
  PROVE  /\ p \in PRF /\ p \notin PRFFreeList
         /\ IsHeld(Pending, architecturalRegMap, Len(Pending), p)
<1>1. in.retires /\ p \in Released(Pending, architecturalRegMap)
  BY RetiredIs
<1>2. Pending \in Seq(Renamed) /\ Pending # <<>> /\ Pending[1] \in Renamed
  BY <1>1, RetiredIs, InvShape DEF PendingShape
<1>3. Pending[1].rd \in Regs
  BY <1>2 DEF Renamed
<1>4. p = architecturalRegMap[Pending[1].rd]
  BY <1>1 DEF Released
<1>5. p \in PRF /\ IsHeld(Pending, architecturalRegMap, Len(Pending), p)
  BY <1>3, <1>4 DEF IInv, TypeOK, IsHeld
<1>6. QED
  BY <1>5 DEF IInv, FreeAt

LEMMA OwnersNext ==
  ASSUME IInv, NEW in \in Input, Cycle(in), ~failed(in)
  PROVE  Owned(Pending', architecturalRegMap')
<1>1. Owned(RestOf(in), architecturalRegMap')
  BY RestOwners
<1>2. CASE transfers(in) = {}
  BY <1>1, <1>2, PendingNext
<1>3. ASSUME NEW x \in transfers(in) PROVE Owned(Pending', architecturalRegMap')
  <2>1. /\ RestOf(in) \in Seq(Renamed) /\ New(x) \in Renamed
        /\ Pending' = Append(RestOf(in), New(x))
    BY PendingNext
  <2>2. IsLonger(RestOf(in), Len(RestOf(in)), New(x), Pending') /\ Len(RestOf(in)) \in Nat
    BY <2>1, AppendIsLonger
  <2>3. New(x).prf = freeRegAddr
    BY DEF New
  <2>4. ~IsHeld(RestOf(in), architecturalRegMap', Len(RestOf(in)), freeRegAddr)
    BY RestTop, TransferIs DEF FreeAt
  <2>5. QED
    BY <1>1, <2>2, <2>3, <2>4, LongerOwners
<1>4. QED
  BY <1>2, <1>3

(* The lists after the cycle reflect every pending instruction. *)
LEMMA TopNext ==
  ASSUME IInv, NEW in \in Input, Cycle(in), ~failed(in)
  PROVE  /\ FreeAt(Pending', architecturalRegMap',
                   (PRFFreeList \ allocated(in)) \cup freeSetRetire(in), Len(Pending'))
         /\ MapAt(Pending', architecturalRegMap', frontEndRegMap', Len(Pending'))
<1> DEFINE R == RestOf(in)
           a == architecturalRegMap'
           F == PRFFreeList \cup freeSetRetire(in)
           F2 == (PRFFreeList \ allocated(in)) \cup freeSetRetire(in)
<1>1. FreeAt(R, a, F, Len(R)) /\ MapAt(R, a, frontEndRegMap, Len(R)) /\ Len(R) \in Nat
  BY RestTop
<1>2. F2 = F \ allocated(in)
  <2>1. \A p \in freeSetRetire(in) : p \notin allocated(in)
    BY ReleasedHeld, AllocatedIs
  <2>2. QED
    BY <2>1
<1>3. frontEndRegMap' = [r \in Regs |-> IF \E x \in transfers(in) : Writes(x) /\ x.rd = r
                                        THEN freeRegAddr ELSE frontEndRegMap[r]]
  BY DEF Cycle, Maps
<1>4. CASE transfers(in) = {}
  <2>1. Pending' = R /\ allocated(in) = {}
    BY <1>4, PendingNext, AllocatedIs
  <2>2. frontEndRegMap' = frontEndRegMap
    BY <1>3, <1>4 DEF IInv, TypeOK
  <2>3. F2 = F
    BY <1>2, <2>1
  <2>4. QED
    BY <1>1, <2>1, <2>2, <2>3
<1>5. ASSUME NEW x \in transfers(in)
      PROVE  /\ FreeAt(Pending', a, F2, Len(Pending'))
             /\ MapAt(Pending', a, frontEndRegMap', Len(Pending'))
  <2> DEFINE Q == Pending'
             y == New(x)
  <2>1. R \in Seq(Renamed) /\ y \in Renamed /\ Q = Append(R, y)
    BY PendingNext
  <2>2. IsLonger(R, Len(R), y, Q) /\ Len(Q) = Len(R) + 1
    BY <2>1, AppendIsLonger
  <2>3. y.prf = freeRegAddr /\ y.rd = x.rd /\ (Writes(y) <=> Writes(x))
    BY DEF New, Writes
  <2>4. \A z \in transfers(in) : z = x
    BY TransferIs DEF AtMostOne
  <2> HIDE DEF R, a, F, F2, Q, y
  <2>5. \A r \in Regs : frontEndRegMap'[r] = IF Writes(y) /\ y.rd = r THEN y.prf
                                             ELSE frontEndRegMap[r]
    BY <1>3, <2>3, <2>4
  <2>6. MapAt(Q, a, frontEndRegMap', Len(R) + 1)
    BY <1>1, <2>2, <2>5, LongerMap
  <2>7. ASSUME NEW p \in PRF PROVE p \in F2 <=> ~IsHeld(Q, a, Len(R) + 1, p)
    <3>1. IsHeld(Q, a, Len(R) + 1, p) <=> IsHeld(R, a, Len(R), p) \/ (Writes(y) /\ y.prf = p)
      BY <1>1, <2>2, LongerHeld
    <3>2. p \in F <=> ~IsHeld(R, a, Len(R), p)
      BY <1>1 DEF FreeAt
    <3>3. p \in allocated(in) <=> Writes(y) /\ y.prf = p
      BY <2>3, AllocatedIs
    <3>4. QED
      BY <1>2, <3>1, <3>2, <3>3
  <2>8. QED
    BY <2>2, <2>6, <2>7 DEF FreeAt, Q
<1>6. QED
  BY <1>4, <1>5

(* No valid bit of a register in use is lost. *)
LEMMA ValidKept ==
  ASSUME IInv, NEW in \in Input, Cycle(in), NEW p \in PRFValidList, p \notin allocated(in)
  PROVE  p \in PRFValidList'
  BY DEF Cycle, ValidList
-----------------------------------------------------------------------------
(***************************************************************************)
(* The checkpoints.                                                        *)
(***************************************************************************)
LEMMA OpenIs ==
  ASSUME IInv
  PROVE  /\ Open \subseteq 1 .. Len(Pending) /\ Len(Pending) \in Nat /\ branchTracker \in Nat
         /\ Len(inFlight) \in Nat /\ DOMAIN inFlight = 1 .. Len(inFlight)
         /\ \A i \in Open : i \in 1 .. Len(inFlight) => i \in Unresolved
         /\ \A i \in Open : i \notin 1 .. Len(inFlight) =>
              i = Len(inFlight) + 1 /\ \E x \in outputBuffer : Cfi(x)
         /\ Unresolved \subseteq Open /\ Unresolved \subseteq 1 .. Len(inFlight)
<1>1. PendingShape
  BY InvShape
<1>2. /\ Len(inFlight) \in Nat /\ DOMAIN inFlight = 1 .. Len(inFlight)
      /\ Pending \in Seq(Renamed) /\ Len(Pending) \in Nat /\ DOMAIN Pending = 1 .. Len(Pending)
      /\ Len(Pending) = Len(inFlight) + (IF outputBuffer = {} THEN 0 ELSE 1)
  BY <1>1 DEF PendingShape
<1>3. branchTracker \in Nat
  BY DEF IInv, TypeOK
<1>4. ASSUME NEW i \in Open
      PROVE  /\ i \in 1 .. Len(Pending)
             /\ i \in 1 .. Len(inFlight) => i \in Unresolved
             /\ i \notin 1 .. Len(inFlight) =>
                  i = Len(inFlight) + 1 /\ \E x \in outputBuffer : Cfi(x)
  <2>1. i \in DOMAIN Pending /\ Cfi(Pending[i]) /\ (i \in DOMAIN inFlight => ~inFlight[i].done)
    BY DEF Open
  <2>2. i \in 1 .. Len(inFlight) => i \in Unresolved
    BY <1>2, <2>1, PendingOf DEF Unresolved
  <2>3. ASSUME i \notin 1 .. Len(inFlight)
        PROVE  i = Len(inFlight) + 1 /\ \E x \in outputBuffer : Cfi(x)
    <3> DEFINE n == Len(inFlight)
               L == Len(Pending)
    <3>0. /\ i \in 1 .. L /\ i \notin 1 .. n /\ n \in Nat /\ L \in Nat
          /\ L = n + (IF outputBuffer = {} THEN 0 ELSE 1)
      BY <1>2, <2>1, <2>3
    <3> HIDE DEF n, L
    <3>1. i = n + 1 /\ outputBuffer # {}
      BY <3>0
    <3>2. PICK x \in outputBuffer : TRUE
      BY <3>1
    <3>3. Pending[i] = x
      BY <1>1, <3>1 DEF PendingShape, n
    <3>4. QED
      BY <2>1, <3>1, <3>3 DEF n
  <2>4. QED
    BY <1>2, <2>1, <2>2, <2>3
<1>5. ASSUME NEW i \in Unresolved PROVE i \in Open /\ i \in 1 .. Len(inFlight)
  <2>1. i \in DOMAIN inFlight /\ Cfi(inFlight[i]) /\ ~inFlight[i].done
    BY DEF Unresolved
  <2>2. i \in DOMAIN Pending /\ Cfi(Pending[i])
    BY <2>1, PendingOf
  <2>3. QED
    BY <1>2, <2>1, <2>2 DEF Open
<1>6. QED
  BY <1>2, <1>3, <1>4, <1>5

LEMMA PosIs ==
  ASSUME IInv, NEW pos \in [0 .. branchTracker - 1 -> Open], NEW c \in 0 .. branchTracker - 1
  PROVE  pos[c] \in Open /\ pos[c] \in Nat /\ pos[c] >= 1 /\ pos[c] <= Len(Pending)
<1>1. pos[c] \in Open
  OBVIOUS
<1>2. QED
  BY <1>1, OpenIs

(* The branch that resolves owns checkpoint 0. *)
LEMMA FirstOpen ==
  ASSUME IInv, Unresolved # {}, NEW pos \in [0 .. branchTracker - 1 -> Open], Saved(pos)
  PROVE  0 \in 0 .. branchTracker - 1 /\ pos[0] = Oldest /\ Oldest \in Open
<1>1. /\ Oldest \in 1 .. Len(inFlight) /\ Oldest \in Unresolved
      /\ \A i \in Unresolved : Oldest <= i
  BY InvShape, OldestIs DEF Unresolved
<1>2. Oldest \in Open /\ branchTracker \in Nat /\ Len(inFlight) \in Nat
  BY <1>1, OpenIs
<1>3. PICK c \in 0 .. branchTracker - 1 : pos[c] = Oldest
  BY <1>2 DEF Saved
<1>4. 0 \in 0 .. branchTracker - 1
  BY <1>2, <1>3
<1>5. pos[0] \in Open /\ pos[0] \in Nat /\ pos[0] >= 1
  BY <1>4, PosIs, Zenon
<1>6. pos[0] <= Oldest
  <2>1. CASE c = 0
    BY <1>1, <1>3, <2>1
  <2>2. CASE 0 < c
    <3>1. pos[0] < pos[c]
      BY <1>3, <1>4, <2>2 DEF Saved
    <3>2. QED
      BY <1>1, <1>3, <1>5, <3>1
  <2>3. QED
    BY <1>3, <2>1, <2>2
<1>7. pos[0] \in 1 .. Len(inFlight)
  BY <1>1, <1>2, <1>5, <1>6
<1>8. Oldest <= pos[0]
  BY <1>1, <1>5, <1>7, OpenIs
<1>9. QED
  BY <1>1, <1>2, <1>4, <1>5, <1>6, <1>8

(* There are not more checkpoints than branches. *)
LEMMA EnoughCheckpoints ==
  ASSUME IInv
  PROVE  /\ branchTracker <= Cardinality(Unresolved) + Cardinality({x \in outputBuffer : Cfi(x)})
         /\ Cardinality(Unresolved) \in Nat /\ Cardinality({x \in outputBuffer : Cfi(x)}) \in Nat
<1> DEFINE U == Unresolved
           X == {x \in outputBuffer : Cfi(x)}
           T == IF X = {} THEN {} ELSE {Len(inFlight) + 1}
           D == 0 .. branchTracker - 1
<1>1. PICK pos \in [D -> Open] : Saved(pos)
  BY DEF IInv, CheckpointsExact
<1>2. /\ Len(inFlight) \in Nat /\ U \subseteq 1 .. Len(inFlight) /\ branchTracker \in Nat
      /\ Open \subseteq U \cup T
  BY OpenIs
<1>3. IsFiniteSet(U) /\ Cardinality(U) \in Nat
  <2>1. IsFiniteSet(1 .. Len(inFlight))
    BY <1>2, FS_Interval
  <2>2. QED
    BY <1>2, <2>1, FS_Subset, FS_CardinalityType
<1>4. AtMostOne(X)
  BY DEF IInv, AtMostOne
<1>5. Cardinality(X) \in Nat /\ (X # {} => Cardinality(X) = 1)
  BY <1>4, FewElements
<1>6. IsFiniteSet(T) /\ Cardinality(T) <= Cardinality(X) /\ Cardinality(T) \in Nat
  <2>1. CASE X = {}
    BY <1>5, <2>1, FS_EmptySet
  <2>2. CASE X # {}
    <3>1. T = {Len(inFlight) + 1}
      BY <2>2
    <3>2. IsFiniteSet(T) /\ Cardinality(T) = 1
      BY <3>1, FS_Singleton
    <3>3. QED
      BY <1>5, <2>2, <3>2
  <2>3. QED
    BY <2>1, <2>2
<1> HIDE DEF U, X, T, D
<1>7. IsFiniteSet(U \cup T) /\ Cardinality(U \cup T) <= Cardinality(U) + Cardinality(T)
      /\ Cardinality(U \cup T) \in Nat
  <2>1. /\ IsFiniteSet(U \cup T)
        /\ Cardinality(U \cup T) = Cardinality(U) + Cardinality(T) - Cardinality(U \cap T)
    BY <1>3, <1>6, FS_Union
  <2>2. IsFiniteSet(U \cap T) /\ Cardinality(U \cap T) \in Nat
    BY <1>3, FS_Intersection, FS_CardinalityType
  <2>3. Cardinality(U \cup T) \in Nat
    BY <2>1, FS_CardinalityType
  <2>4. QED
    BY <1>3, <1>6, <2>1, <2>2, <2>3
<1>8. pos \in Injection(D, U \cup T)
  <2>1. pos \in [D -> U \cup T]
    BY <1>1, <1>2
  <2>2. ASSUME NEW c \in D, NEW e \in D, pos[c] = pos[e] PROVE c = e
    <3>0. pos[c] \in Nat /\ pos[e] \in Nat
      BY PosIs, Zenon DEF D
    <3>1. pos[c] \in Nat /\ pos[e] \in Nat /\ c \in Int /\ e \in Int
      BY <1>2, <3>0 DEF D
    <3>2. \A a, b \in D : a < b => pos[a] < pos[b]
      BY <1>1 DEF Saved, D
    <3>3. ~(c < e) /\ ~(e < c)
      BY <2>2, <3>1, <3>2
    <3>4. QED
      BY <3>1, <3>3
  <2>3. QED
    BY <2>1, <2>2 DEF Injection, IsInjective
<1>9. Cardinality(D) <= Cardinality(U \cup T)
  BY <1>7, <1>8, FS_Injection
<1>10. Cardinality(D) = branchTracker
  <2>1. Cardinality(0 .. branchTracker - 1) = IF 0 > branchTracker - 1 THEN 0 ELSE (branchTracker - 1) - 0 + 1
    BY <1>2, FS_Interval
  <2>2. QED
    BY <1>2, <2>1 DEF D
<1>11. branchTracker <= Cardinality(U) + Cardinality(X)
  BY <1>2, <1>3, <1>5, <1>6, <1>7, <1>9, <1>10
<1>12. QED
  BY <1>3, <1>5, <1>11 DEF U, X

Passed(in) == IF fired(in) THEN 1 ELSE 0
Taken(in) == IF \E x \in transfers(in) : Cfi(x) THEN 1 ELSE 0

LEMMA TrackerNext ==
  ASSUME IInv, NEW in \in Input, Cycle(in), ~failed(in)
  PROVE  /\ branchTracker \in 0 .. nCheckpoints
         /\ Passed(in) \in 0 .. 1 /\ Taken(in) \in 0 .. 1
         /\ (fired(in) <=> Passed(in) = 1)
         /\ (Taken(in) = 1 <=> \E x \in transfers(in) : Cfi(x))
         /\ branchTracker' = branchTracker - Passed(in) + Taken(in)
         /\ Taken(in) = 1 => Passed(in) = 0 /\ branchTracker < nCheckpoints
         /\ Passed(in) <= branchTracker
         /\ branchTracker' \in 0 .. nCheckpoints
<1> DEFINE X == {x \in transfers(in) : Cfi(x)}
           b == branchTracker
<1>1. b \in Nat /\ b <= nCheckpoints /\ b \in 0 .. nCheckpoints
  BY DEF IInv, TypeOK
<1>2. b' = b - Passed(in) + Cardinality(X)
  BY DEF Cycle, Checkpoint, Passed
<1>3. Cardinality(X) = Taken(in)
  <2>1. AtMostOne(X)
    BY TransferIs DEF AtMostOne
  <2>2. CASE X = {}
    BY <2>2, FS_EmptySet DEF Taken
  <2>3. CASE X # {}
    BY <2>1, <2>3, FewElements DEF Taken
  <2>4. QED
    BY <2>2, <2>3
<1>4. ASSUME NEW x \in transfers(in), Cfi(x) PROVE ~fired(in) /\ b < nCheckpoints
  <2>1. ~fired(in) /\ ~cfiMaskOccupied
    BY <1>4, TransferIs
  <2>2. QED
    BY <1>1, <2>1, EnoughCheckpoints DEF cfiMaskOccupied
<1>5. fired(in) => b >= 1
  <2>1. SUFFICES ASSUME fired(in) PROVE b >= 1
    OBVIOUS
  <2>2. PICK pos \in [0 .. branchTracker - 1 -> Open] : Saved(pos)
    BY DEF IInv, CheckpointsExact
  <2>3. Unresolved # {}
    BY <2>1, InputIs DEF IInv
  <2>4. 0 \in 0 .. branchTracker - 1
    BY <2>2, <2>3, FirstOpen
  <2>5. QED
    BY <1>1, <2>4
<1>6. /\ Passed(in) \in 0 .. 1 /\ Taken(in) \in 0 .. 1
      /\ (fired(in) <=> Passed(in) = 1) /\ (Taken(in) = 1 <=> \E x \in transfers(in) : Cfi(x))
  BY DEF Passed, Taken
<1> HIDE DEF X
<1>7. Taken(in) = 1 => Passed(in) = 0 /\ b < nCheckpoints
  BY <1>4, <1>6
<1>8. Passed(in) <= b
  BY <1>1, <1>5, <1>6
<1>9. b' = b - Passed(in) + Taken(in)
  BY <1>2, <1>3
<1>10. b - Passed(in) + Taken(in) \in 0 .. nCheckpoints
  BY <1>1, <1>6, <1>7, <1>8
<1>11. QED
  BY <1>1, <1>6, <1>7, <1>8, <1>9, <1>10

(* A pass shifts the checkpoints down, a renamed branch fills the next. *)
LEMMA ReservedIs ==
  ASSUME IInv, NEW in \in Input, Cycle(in), ~failed(in), NEW list, NEW snapshot
  PROVE  /\ \A c \in Nat : c < branchTracker - Passed(in) =>
              /\ c \in Checkpoints /\ c + Passed(in) \in Checkpoints
              /\ Reserved(in, list, snapshot)[c] = list[c + Passed(in)]
         /\ Taken(in) = 1 => /\ branchTracker \in Checkpoints
                             /\ Reserved(in, list, snapshot)[branchTracker] = snapshot
<1> DEFINE b == branchTracker
           e == Passed(in)
<1>1. /\ b \in 0 .. nCheckpoints /\ e \in 0 .. 1 /\ Taken(in) \in 0 .. 1
      /\ (fired(in) <=> e = 1) /\ (Taken(in) = 1 <=> \E x \in transfers(in) : Cfi(x))
      /\ Taken(in) = 1 => e = 0 /\ b < nCheckpoints
      /\ e <= b
  BY TrackerNext
<1>2. in.branch = "pass" <=> e = 1
  BY <1>1, InputIs DEF IInv, fired, failed
<1>3. \A c \in Checkpoints : Reserved(in, list, snapshot)[c] =
        IF c = b /\ \E x \in transfers(in) : Cfi(x) THEN snapshot
        ELSE IF in.branch = "pass" /\ c < nCheckpoints - 1 THEN list[c + 1] ELSE list[c]
  BY DEF Reserved
<1> HIDE DEF b, e
<1>4. ASSUME NEW c \in Nat, c < b - e
      PROVE  /\ c \in Checkpoints /\ c + e \in Checkpoints
             /\ Reserved(in, list, snapshot)[c] = list[c + e]
  <2>1. /\ c \in Checkpoints /\ c + e \in Checkpoints /\ c # b
        /\ e = 1 => c < nCheckpoints - 1 /\ c + e = c + 1
        /\ e = 0 => c + e = c
    BY <1>1, <1>4 DEF Checkpoints
  <2>2. QED
    BY <1>1, <1>2, <1>3, <2>1
<1>5. ASSUME Taken(in) = 1
      PROVE  b \in Checkpoints /\ Reserved(in, list, snapshot)[b] = snapshot
  <2>1. b \in Checkpoints
    BY <1>1, <1>5 DEF Checkpoints
  <2>2. QED
    BY <1>1, <1>3, <1>5, <2>1
<1>6. QED
  BY <1>4, <1>5 DEF b, e

(* A checkpoint that was taken earlier. *)
LEMMA OldCheckpoint ==
  ASSUME IInv, NEW in \in Input, Cycle(in), ~failed(in), NEW c \in Nat,
         c < branchTracker - Passed(in), NEW k \in Nat, k <= Len(Pending), in.retires => k >= 1,
         FreeAt(Pending, architecturalRegMap, reservedFreeList[c + Passed(in)], k),
         MapAt(Pending, architecturalRegMap, reservedRegMap[c + Passed(in)], k),
         ValidAt(Pending, architecturalRegMap, reservedValidList[c + Passed(in)], PRFValidList, k)
  PROVE  /\ FreeAt(Pending', architecturalRegMap', reservedFreeList'[c], k - Shift(in))
         /\ MapAt(Pending', architecturalRegMap', reservedRegMap'[c], k - Shift(in))
         /\ ValidAt(Pending', architecturalRegMap', reservedValidList'[c], PRFValidList',
                    k - Shift(in))
<1> DEFINE e == Passed(in)
           links == {x \in transfers(in) : x.kind = "jal" /\ x.rd # 0}
           taken == IF links = {} THEN {} ELSE {freeRegAddr}
           snapMap == [r \in Regs |-> IF \E x \in links : x.rd = r THEN freeRegAddr
                                      ELSE frontEndRegMap[r]]
<1>1. /\ reservedRegMap' = Reserved(in, reservedRegMap, snapMap)
      /\ reservedFreeList' = [i \in Checkpoints |->
           Reserved(in, reservedFreeList, PRFFreeList \ taken)[i] \cup freeSetRetire(in)]
      /\ reservedValidList' = Reserved(in, reservedValidList, PRFValidList \ taken)
  BY DEF Cycle, Checkpoint
<1> HIDE DEF links, taken, snapMap
<1>2. /\ reservedRegMap'[c] = reservedRegMap[c + e]
      /\ reservedValidList'[c] = reservedValidList[c + e]
  BY <1>1, ReservedIs
<1>3. reservedFreeList'[c] = reservedFreeList[c + e] \cup freeSetRetire(in)
  BY <1>1, ReservedIs
<1>4. FreeAt(Pending', architecturalRegMap', reservedFreeList'[c], k - Shift(in))
  BY <1>3, FreeKept
<1>5. MapAt(Pending', architecturalRegMap', reservedRegMap'[c], k - Shift(in))
  BY <1>2, MapKept
<1>6. ASSUME NEW p \in PRF, IsHeld(Pending', architecturalRegMap', k - Shift(in), p),
             p \in reservedValidList'[c]
      PROVE  p \in PRFValidList'
  <2>1. IsHeld(Pending, architecturalRegMap, k, p)
    BY <1>6, HeldNext
  <2>2. p \in PRFValidList
    BY <1>2, <1>6, <2>1 DEF ValidAt
  <2>3. IsHeld(Pending, architecturalRegMap, Len(Pending), p)
    <3>1. \A i \in DestsOf(Pending) : i <= Len(Pending)
      <4>1. DOMAIN Pending = 1 .. Len(Pending) /\ Len(Pending) \in Nat
        BY Lengths
      <4>2. QED
        BY <4>1 DEF DestsOf
    <3>2. QED
      BY <2>1, <3>1 DEF IsHeld
  <2>4. p \notin allocated(in)
    BY <2>3, AllocatedIs
  <2>5. QED
    BY <2>2, <2>4, ValidKept
<1>7. QED
  BY <1>4, <1>5, <1>6 DEF ValidAt

(* The checkpoint of the branch that is renamed in this cycle. *)
LEMMA NewCheckpoint ==
  ASSUME IInv, NEW in \in Input, Cycle(in), ~failed(in), Taken(in) = 1
  PROVE  /\ FreeAt(Pending', architecturalRegMap', reservedFreeList'[branchTracker], Len(Pending'))
         /\ MapAt(Pending', architecturalRegMap', reservedRegMap'[branchTracker], Len(Pending'))
         /\ ValidAt(Pending', architecturalRegMap', reservedValidList'[branchTracker],
                    PRFValidList', Len(Pending'))
         /\ Len(Pending') = Len(Pending) - Shift(in) + 1
<1> DEFINE b == branchTracker
           links == {x \in transfers(in) : x.kind = "jal" /\ x.rd # 0}
           taken == IF links = {} THEN {} ELSE {freeRegAddr}
           snapMap == [r \in Regs |-> IF \E x \in links : x.rd = r THEN freeRegAddr
                                      ELSE frontEndRegMap[r]]
<1>1. PICK x \in transfers(in) : Cfi(x)
  BY DEF Taken
<1>2. \A y \in transfers(in) : y = x
  BY TransferIs DEF AtMostOne
<1>3. links = IF Writes(x) THEN {x} ELSE {}
  BY <1>1, <1>2 DEF Writes, Cfi
<1>4. taken = allocated(in)
  BY <1>1, <1>3, AllocatedIs
<1>5. snapMap = frontEndRegMap'
  <2>1. frontEndRegMap' = [r \in Regs |-> IF \E y \in transfers(in) : Writes(y) /\ y.rd = r
                                          THEN freeRegAddr ELSE frontEndRegMap[r]]
    BY DEF Cycle, Maps
  <2>2. \A r \in Regs : (\E y \in transfers(in) : Writes(y) /\ y.rd = r) <=> \E y \in links : y.rd = r
    BY <1>2, <1>3
  <2>3. QED
    BY <2>1, <2>2
<1>6. /\ reservedRegMap' = Reserved(in, reservedRegMap, snapMap)
      /\ reservedFreeList' = [c \in Checkpoints |->
           Reserved(in, reservedFreeList, PRFFreeList \ taken)[c] \cup freeSetRetire(in)]
      /\ reservedValidList' = Reserved(in, reservedValidList, PRFValidList \ taken)
  BY DEF Cycle, Checkpoint
<1> HIDE DEF links, taken, snapMap
<1>7. /\ b \in Checkpoints /\ reservedRegMap'[b] = frontEndRegMap'
      /\ reservedFreeList'[b] = (PRFFreeList \ allocated(in)) \cup freeSetRetire(in)
      /\ reservedValidList'[b] = PRFValidList \ allocated(in)
  BY <1>4, <1>5, <1>6, ReservedIs
<1>8. ASSUME NEW p \in PRF, p \in reservedValidList'[b] PROVE p \in PRFValidList'
  BY <1>7, <1>8, ValidKept
<1>9. Len(Pending') = Len(Pending) - Shift(in) + 1
  BY <1>1, PendingNext DEF Moved
<1>10. QED
  BY <1>7, <1>8, <1>9, TopNext DEF ValidAt

LEMMA CheckpointsNext ==
  ASSUME IInv, NEW in \in Input, Cycle(in), ~failed(in)
  PROVE  CheckpointsExact'
<1> DEFINE b == branchTracker
           e == Passed(in)
           g == Taken(in)
           d == Shift(in)
           L == Len(Pending)
<1>1. PICK pos \in [0 .. b - 1 -> Open] : Saved(pos)
  BY DEF IInv, CheckpointsExact
<1> DEFINE pos2 == [c \in 0 .. branchTracker' - 1 |->
                      IF c = b - e THEN L - d + 1 ELSE pos[c + e] - d]
<1>2. /\ b \in Nat /\ e \in 0 .. 1 /\ g \in 0 .. 1 /\ d \in 0 .. 1 /\ L \in Nat
      /\ branchTracker' = b - e + g /\ e <= b /\ (g = 1 => e = 0)
      /\ (fired(in) <=> e = 1) /\ (g = 1 <=> \E x \in transfers(in) : Cfi(x))
      /\ (in.retires <=> d = 1)
  BY TrackerNext, Lengths
<1>3. ASSUME NEW c \in 0 .. b - 1
      PROVE  /\ pos[c] \in Open /\ pos[c] \in Nat /\ pos[c] >= 1 /\ pos[c] <= L
             /\ d = 1 => pos[c] > 1
  <2>1. pos[c] \in Open /\ pos[c] \in Nat /\ pos[c] >= 1 /\ pos[c] <= L
    BY PosIs, Zenon
  <2>2. d = 1 => 1 \notin Open
    BY <1>2, RetiredIs DEF Open
  <2>3. QED
    BY <2>1, <2>2
<1>4. fired(in) => b >= 1 /\ pos[0] = Oldest
  <2>1. fired(in) => Unresolved # {}
    BY InputIs DEF IInv
  <2>2. QED
    BY <1>1, <1>2, <2>1, FirstOpen
<1>5. \A i, j \in 0 .. b - 1 : i < j => pos[i] < pos[j]
  BY <1>1 DEF Saved
<1>6. \A i \in Open : \E c \in 0 .. b - 1 : pos[c] = i
  BY <1>1 DEF Saved
<1>7. ASSUME NEW c \in 0 .. b - 1
      PROVE  /\ FreeAt(Pending, architecturalRegMap, reservedFreeList[c], pos[c])
             /\ MapAt(Pending, architecturalRegMap, reservedRegMap[c], pos[c])
             /\ ValidAt(Pending, architecturalRegMap, reservedValidList[c], PRFValidList, pos[c])
  BY <1>1 DEF Saved
<1>8. ASSUME NEW j
      PROVE  j \in Open' <=>
               \/ j \in 1 .. L - d /\ j + d \in Open /\ ~(fired(in) /\ j + d = Oldest)
               \/ j = L - d + 1 /\ \E x \in transfers(in) : Cfi(x)
  BY OpenNext
<1>9. ASSUME NEW c \in Nat, c < b - e
      PROVE  /\ FreeAt(Pending', architecturalRegMap', reservedFreeList'[c], pos[c + e] - d)
             /\ MapAt(Pending', architecturalRegMap', reservedRegMap'[c], pos[c + e] - d)
             /\ ValidAt(Pending', architecturalRegMap', reservedValidList'[c], PRFValidList',
                        pos[c + e] - d)
  <2>1. c + e \in 0 .. b - 1
    BY <1>2, <1>9
  <2>2. pos[c + e] \in Nat /\ pos[c + e] <= L /\ (in.retires => pos[c + e] >= 1)
    BY <1>3, <2>1
  <2>3. /\ FreeAt(Pending, architecturalRegMap, reservedFreeList[c + e], pos[c + e])
        /\ MapAt(Pending, architecturalRegMap, reservedRegMap[c + e], pos[c + e])
        /\ ValidAt(Pending, architecturalRegMap, reservedValidList[c + e], PRFValidList, pos[c + e])
    BY <1>7, <2>1
  <2>4. QED
    BY <1>9, <2>2, <2>3, OldCheckpoint
<1>10. g = 1 =>
         /\ FreeAt(Pending', architecturalRegMap', reservedFreeList'[b], L - d + 1)
         /\ MapAt(Pending', architecturalRegMap', reservedRegMap'[b], L - d + 1)
         /\ ValidAt(Pending', architecturalRegMap', reservedValidList'[b], PRFValidList', L - d + 1)
  BY NewCheckpoint
<1> DEFINE B == branchTracker'
<1>11. B = b - e + g
  BY <1>2
<1>12. pos2 = [c \in 0 .. B - 1 |-> IF c = b - e THEN L - d + 1 ELSE pos[c + e] - d]
  OBVIOUS
<1>13. \A c \in 0 .. B - 1 : pos2[c] = IF c = b - e THEN L - d + 1 ELSE pos[c + e] - d
  BY <1>12
<1>14. DOMAIN pos2 = 0 .. B - 1 /\ pos2 = [c \in 0 .. B - 1 |-> pos2[c]]
  BY <1>12
<1> HIDE DEF b, e, g, d, L, B, pos2
<1>15. ASSUME NEW c \in 0 .. B - 1
       PROVE  \/ c \in Nat /\ c < b - e /\ c # b - e /\ c + e \in 0 .. b - 1
              \/ g = 1 /\ c = b /\ c = b - e
  BY <1>2, <1>11
<1>16. ASSUME NEW c \in 0 .. B - 1 PROVE pos2[c] \in Open' /\ pos2[c] \in Int
  <2>1. CASE c = b - e
    <3>1. g = 1 /\ pos2[c] = L - d + 1
      BY <1>13, <1>15, <2>1
    <3>2. QED
      BY <1>2, <1>8, <3>1
  <2>2. CASE c # b - e
    <3>1. c \in Nat /\ c + e \in 0 .. b - 1 /\ pos2[c] = pos[c + e] - d
      BY <1>13, <1>15, <2>2
    <3>2. /\ pos[c + e] \in Open /\ pos[c + e] \in Nat /\ pos[c + e] >= 1 /\ pos[c + e] <= L
          /\ d = 1 => pos[c + e] > 1
      BY <1>3, <3>1
    <3>3. pos2[c] \in 1 .. L - d /\ pos2[c] + d = pos[c + e]
      BY <1>2, <3>1, <3>2
    <3>4. fired(in) => pos[c + e] # Oldest
      <4>1. SUFFICES ASSUME fired(in) PROVE pos[0] < pos[c + e]
        BY <1>3, <1>4, <3>2, <3>1
      <4>2. 0 \in 0 .. b - 1 /\ 0 < c + e
        BY <1>2, <1>4, <3>1, <4>1
      <4>3. QED
        BY <1>5, <3>1, <4>2
    <3>5. QED
      BY <1>8, <3>2, <3>3, <3>4
  <2>3. QED
    BY <2>1, <2>2
<1>17. pos2 \in [0 .. B - 1 -> Open']
  BY <1>14, <1>16
<1>18. ASSUME NEW c \in 0 .. B - 1, NEW f \in 0 .. B - 1, c < f PROVE pos2[c] < pos2[f]
  <2>1. c \in Nat /\ c < b - e /\ c + e \in 0 .. b - 1 /\ pos2[c] = pos[c + e] - d
    BY <1>2, <1>11, <1>13, <1>15, <1>18
  <2>2. pos[c + e] \in Nat /\ pos[c + e] <= L
    BY <1>3, <2>1
  <2>3. CASE f = b - e
    <3>1. pos2[f] = L - d + 1
      BY <1>13, <2>3
    <3>2. QED
      BY <1>2, <2>1, <2>2, <3>1
  <2>4. CASE f # b - e
    <3>1. f \in Nat /\ f + e \in 0 .. b - 1 /\ pos2[f] = pos[f + e] - d
      BY <1>13, <1>15, <2>4
    <3>2. c + e < f + e
      BY <1>2, <1>18, <2>1, <3>1
    <3>3. pos[c + e] < pos[f + e] /\ pos[f + e] \in Nat
      BY <1>3, <1>5, <2>1, <3>1, <3>2
    <3>4. QED
      BY <1>2, <2>1, <2>2, <3>1, <3>3
  <2>5. QED
    BY <2>3, <2>4
<1>19. ASSUME NEW j \in Open' PROVE \E c \in 0 .. B - 1 : pos2[c] = j
  <2>1. CASE j \in 1 .. L - d /\ j + d \in Open /\ ~(fired(in) /\ j + d = Oldest)
    <3>1. PICK c \in 0 .. b - 1 : pos[c] = j + d
      BY <1>6, <2>1
    <3>2. fired(in) => c # 0
      BY <1>4, <2>1, <3>1
    <3>3. c - e \in 0 .. B - 1 /\ c - e # b - e /\ (c - e) + e = c
      BY <1>2, <1>11, <3>1, <3>2
    <3>4. pos2[c - e] = pos[(c - e) + e] - d
      BY <1>13, <3>3
    <3>5. pos2[c - e] = j
      BY <1>2, <2>1, <3>1, <3>3, <3>4
    <3>6. QED
      BY <3>3, <3>5
  <2>2. CASE j = L - d + 1 /\ \E x \in transfers(in) : Cfi(x)
    <3>1. g = 1 /\ b \in 0 .. B - 1 /\ b = b - e
      BY <1>2, <1>11, <2>2
    <3>2. pos2[b] = j
      BY <1>13, <2>2, <3>1
    <3>3. QED
      BY <3>1, <3>2
  <2>3. QED
    BY <1>8, <1>19, <2>1, <2>2
<1>20. ASSUME NEW c \in 0 .. B - 1
       PROVE  /\ FreeAt(Pending', architecturalRegMap', reservedFreeList'[c], pos2[c])
              /\ MapAt(Pending', architecturalRegMap', reservedRegMap'[c], pos2[c])
              /\ ValidAt(Pending', architecturalRegMap', reservedValidList'[c], PRFValidList',
                         pos2[c])
  <2>1. CASE c = b - e
    <3>1. g = 1 /\ c = b /\ pos2[c] = L - d + 1
      BY <1>13, <1>15, <2>1
    <3>2. QED
      BY <1>10, <3>1
  <2>2. CASE c # b - e
    <3>1. c \in Nat /\ c < b - e /\ pos2[c] = pos[c + e] - d
      BY <1>13, <1>15, <2>2
    <3>2. QED
      BY <1>9, <3>1
  <2>3. QED
    BY <2>1, <2>2
<1>21. QED
  BY <1>17, <1>18, <1>19, <1>20 DEF CheckpointsExact, Saved, B, FreeAt, MapAt, ValidAt, IsHeld,
     Untouched, Youngest, DestsOf, Writes
-----------------------------------------------------------------------------
(***************************************************************************)
(* A cycle with a misprediction.                                           *)
(***************************************************************************)
LEMMA CutNext ==
  ASSUME IInv, NEW in \in Input, Cycle(in), failed(in)
  PROVE  /\ Oldest \in 1 .. Len(inFlight) /\ Oldest \in Nat
         /\ Pending' \in Seq(Renamed) /\ Len(Pending') = Oldest
         /\ Agree(Pending, Pending', Oldest)
         /\ \A i \in DestsOf(Pending') : i \in DestsOf(Pending) /\ i <= Oldest
         /\ architecturalRegMap' = architecturalRegMap
         /\ Len(inFlight') = Oldest /\ DOMAIN inFlight' = 1 .. Oldest
         /\ \A i \in 1 .. Oldest : /\ i \in DOMAIN inFlight /\ inFlight'[i] = Marked(in, i)
                                   /\ Pending'[i] = Pending[i]
         /\ FreeAt(Pending, architecturalRegMap, reservedFreeList[0], Oldest)
         /\ MapAt(Pending, architecturalRegMap, reservedRegMap[0], Oldest)
         /\ ValidAt(Pending, architecturalRegMap, reservedValidList[0], PRFValidList, Oldest)
<1>1. /\ fired(in) /\ ~in.retires /\ ~in.takes /\ Unresolved # {}
  BY InputIs DEF IInv
<1>2. Oldest \in DOMAIN inFlight /\ Oldest \in 1 .. Len(inFlight)
  BY <1>1, InvShape, OldestIs
<1>3. BuffersOK /\ BuffersOK' /\ Buffers(in) /\ InFlight(in)
  BY InvShape, BuffersNext DEF Cycle
<1>4. /\ Pending' = SubSeq(Pending, 1, Oldest) /\ Oldest \in DOMAIN Pending
      /\ Pending \in Seq(Renamed) /\ Len(inFlight') = Oldest
      /\ \A i \in 1 .. Oldest : i \in DOMAIN inFlight /\ inFlight'[i] = Marked(in, i)
  BY <1>1, <1>2, <1>3, PendingCut
<1>5. /\ Pending' \in Seq(Renamed) /\ Len(Pending') = Oldest
      /\ Agree(Pending, Pending', Oldest)
      /\ \A i \in DestsOf(Pending') : i \in DestsOf(Pending) /\ i <= Oldest
  BY <1>4, CutAgrees
<1>6. architecturalRegMap' = architecturalRegMap
  BY <1>1, RetiredIs
<1>7. DOMAIN inFlight' = 1 .. Oldest
  BY <1>3, <1>4 DEF BuffersOK
<1>8. PICK pos \in [0 .. branchTracker - 1 -> Open] : Saved(pos)
  BY DEF IInv, CheckpointsExact
<1>9. 0 \in 0 .. branchTracker - 1 /\ pos[0] = Oldest
  BY <1>1, <1>8, FirstOpen
<1>10. /\ FreeAt(Pending, architecturalRegMap, reservedFreeList[0], pos[0])
       /\ MapAt(Pending, architecturalRegMap, reservedRegMap[0], pos[0])
       /\ ValidAt(Pending, architecturalRegMap, reservedValidList[0], PRFValidList, pos[0])
  BY <1>8, <1>9 DEF Saved
<1>11. ASSUME NEW i \in 1 .. Oldest PROVE Pending'[i] = Pending[i]
  <2>1. PendingShape /\ PendingShape'
    <3>1. (BuffersOK => PendingShape)'
      BY PendingHasShape, PTL
    <3>2. QED
      BY <1>3, <3>1, InvShape
  <2>2. i \in DOMAIN inFlight /\ inFlight'[i] = Marked(in, i) /\ i \in 1 .. Len(inFlight')
    BY <1>4
  <2>3. Pending'[i] = Strip(inFlight'[i])
    BY <2>1, <2>2 DEF PendingShape, Strip
  <2>4. Pending[i] = Strip(inFlight[i])
    BY <2>1, <2>2 DEF PendingShape
  <2>5. QED
    BY <1>3, <2>2, <2>3, <2>4, MarkedIs
<1>12. Oldest \in Nat
  BY <1>2, InvShape DEF PendingShape
<1>13. QED
  BY <1>2, <1>4, <1>5, <1>6, <1>7, <1>9, <1>10, <1>11, <1>12

LEMMA HeldEarlier ==
  ASSUME IInv, NEW k, NEW p, IsHeld(Pending, architecturalRegMap, k, p)
  PROVE  IsHeld(Pending, architecturalRegMap, Len(Pending), p)
<1>1. Pending \in Seq(Renamed)
  BY InvShape DEF PendingShape
<1>2. DOMAIN Pending = 1 .. Len(Pending) /\ Len(Pending) \in Nat
  BY <1>1
<1>3. \A i \in DestsOf(Pending) : i <= Len(Pending)
  BY <1>2 DEF DestsOf
<1>4. QED
  BY <1>3 DEF IsHeld

LEMMA CutLists ==
  ASSUME IInv, NEW in \in Input, Cycle(in), failed(in)
  PROVE  /\ Owned(Pending', architecturalRegMap')
         /\ FreeAt(Pending', architecturalRegMap', PRFFreeList', Len(Pending'))
         /\ MapAt(Pending', architecturalRegMap', frontEndRegMap', Len(Pending'))
         /\ CheckpointsExact' /\ branchTracker' = 0
<1>1. Owned(Pending', architecturalRegMap')
  BY CutNext, CutOwners DEF IInv
<1>2. MapAt(Pending', architecturalRegMap', frontEndRegMap', Len(Pending'))
  <2>1. frontEndRegMap' = reservedRegMap[0]
    BY DEF Cycle, Maps
  <2>2. QED
    BY <2>1, CutNext, AgreeMap
<1>3. ASSUME NEW p \in PRF
      PROVE  p \in PRFFreeList' <=> ~IsHeld(Pending', architecturalRegMap', Len(Pending'), p)
  <2>1. freeSetRetire(in) = {}
    BY RetiredIs, InputIs DEF IInv
  <2>2. p \in PRFFreeList' <=> p \in reservedFreeList[0] \/ p \in PRFFreeList
    BY <2>1 DEF Cycle, FreeList
  <2>3. p \in reservedFreeList[0] <=> ~IsHeld(Pending, architecturalRegMap, Oldest, p)
    BY CutNext DEF FreeAt
  <2>4. p \in PRFFreeList => ~IsHeld(Pending, architecturalRegMap, Oldest, p)
    BY HeldEarlier DEF IInv, FreeAt
  <2>5. IsHeld(Pending', architecturalRegMap', Len(Pending'), p)
          <=> IsHeld(Pending, architecturalRegMap, Oldest, p)
    BY CutNext, AgreeHeld
  <2>6. QED
    BY <2>2, <2>3, <2>4, <2>5
<1>4. branchTracker' = 0
  BY DEF Cycle, Checkpoint
<1>5. ASSUME NEW j \in Open' PROVE FALSE
  <2>1. /\ j \in DOMAIN Pending' /\ Cfi(Pending'[j])
        /\ j \in DOMAIN inFlight' => ~inFlight'[j].done
    BY DEF Open, Cfi
  <2>2. j \in 1 .. Oldest /\ Oldest \in Nat
    BY <2>1, CutNext
  <2>3. j \in DOMAIN inFlight /\ inFlight'[j] = Marked(in, j) /\ Pending'[j] = Pending[j]
        /\ j \in DOMAIN inFlight'
    BY <2>2, CutNext
  <2>4. ~inFlight[j].done /\ j # Oldest
    <3>1. fired(in)
      BY InputIs DEF IInv
    <3>2. BuffersOK
      BY InvShape
    <3>3. QED
      BY <2>1, <2>3, <3>1, <3>2, MarkedIs
  <2>5. Cfi(inFlight[j])
    BY <2>1, <2>3, PendingOf
  <2>6. Oldest <= j
    BY <2>3, <2>4, <2>5, InvShape, OldestIs, InputIs DEF IInv
  <2>7. QED
    BY <2>2, <2>4, <2>6
<1>6. CheckpointsExact'
  <2>1. 0 .. branchTracker' - 1 = {}
    BY <1>4
  <2>2. [c \in 0 .. branchTracker' - 1 |-> 0] \in [0 .. branchTracker' - 1 -> Open']
    BY <2>1
  <2>3. PICK q \in [0 .. branchTracker' - 1 -> Open'] : TRUE
    BY <2>2
  <2>4. Saved(q)'
    BY <1>5, <2>1 DEF Saved
  <2>5. QED
    BY <2>3, <2>4 DEF CheckpointsExact
<1>7. QED
  BY <1>1, <1>2, <1>3, <1>4, <1>6 DEF FreeAt
-----------------------------------------------------------------------------
(***************************************************************************)
(* Valid bits and wake-ups.                                                *)
(***************************************************************************)
LEMMA ExecutingOwned ==
  ASSUME IInv, NEW in \in Input, NEW k \in {"op", "long"}, NEW i \in DestsOf(Pending)
  PROVE  Pending[i].prf \in {y.prf : y \in executing(in, k)}
           <=> i = in.executes /\ i \in DOMAIN inFlight /\ inFlight[i].kind = k
<1>1. ASSUME NEW j \in DOMAIN inFlight, inFlight[j].kind = k, inFlight[j].rd # 0,
             inFlight[j].prf = Pending[i].prf
      PROVE  j = i
  <2>1. Writes(inFlight[j])
    BY <1>1 DEF Writes
  <2>2. j \in DestsOf(Pending) /\ Pending[j].prf = Pending[i].prf
    BY <1>1, <2>1, PendingOf
  <2>3. QED
    BY <2>2 DEF IInv, Owned
<1>2. i \in DOMAIN inFlight => inFlight[i].rd # 0 /\ inFlight[i].prf = Pending[i].prf
  BY PendingOf DEF DestsOf, Writes
<1>3. Pending[i].prf \in {y.prf : y \in executing(in, k)}
        <=> \E j \in DOMAIN inFlight : /\ j = in.executes /\ inFlight[j].kind = k
                                       /\ inFlight[j].rd # 0 /\ inFlight[j].prf = Pending[i].prf
  BY DEF executing
<1>4. QED
  BY <1>1, <1>2, <1>3

LEMMA DestHeld ==
  ASSUME IInv, NEW i \in DestsOf(Pending)
  PROVE  /\ IsHeld(Pending, architecturalRegMap, Len(Pending), Pending[i].prf)
         /\ Pending[i].prf \in PRF /\ Pending[i].prf \notin PRFFreeList
         /\ Pending[i] \in Renamed /\ Writes(Pending[i])
<1>1. Pending \in Seq(Renamed)
  BY InvShape DEF PendingShape
<1>2. DOMAIN Pending = 1 .. Len(Pending) /\ Len(Pending) \in Nat
  BY <1>1
<1>3. i <= Len(Pending) /\ Pending[i] \in Renamed /\ Writes(Pending[i])
  BY <1>1, <1>2 DEF DestsOf
<1>4. IsHeld(Pending, architecturalRegMap, Len(Pending), Pending[i].prf)
  BY <1>3 DEF IsHeld
<1>5. Pending[i].prf \in PRF
  BY <1>3 DEF Renamed
<1>6. QED
  BY <1>3, <1>4, <1>5 DEF IInv, FreeAt

(* After the cycle a pending register is valid when the value exists: made  *)
(* by decode, woken up earlier, or answered now.                            *)
LEMMA Produced ==
  ASSUME IInv, NEW in \in Input, Cycle(in), NEW i \in DestsOf(Pending), failed(in) => i <= Oldest
  PROVE  /\ i \in DOMAIN inFlight =>
              (Pending[i].prf \in PRFValidList' <=>
                 \/ AtDecode(inFlight[i]) \/ inFlight[i].done
                 \/ i = in.executes /\ inFlight[i].kind = "long")
         /\ i \notin DOMAIN inFlight /\ ~failed(in) =>
              (Pending[i].prf \in PRFValidList' <=> AtDecode(Pending[i]))
<1> DEFINE p == Pending[i].prf
           long == {y.prf : y \in executing(in, "long")}
<1>1. p \in PRF /\ p \notin allocated(in) /\ Writes(Pending[i])
  BY DestHeld, AllocatedIs
<1>2. p \in long <=> i = in.executes /\ i \in DOMAIN inFlight /\ inFlight[i].kind = "long"
  BY ExecutingOwned
<1>3. p \in instrRetired => i \in DOMAIN inFlight /\ inFlight[i].done
  BY DEF IInv, WakeUpsOwned
<1>4. i \in DOMAIN inFlight =>
        (p \in PRFValidList <=> AtDecode(inFlight[i]) \/ (inFlight[i].done /\ p \notin instrRetired))
  BY PendingOf DEF IInv, ValidExact
<1>5. p \in validSetJump => i \notin DOMAIN inFlight /\ AtDecode(Pending[i])
  <2>1. SUFFICES ASSUME p \in validSetJump
                 PROVE  i \notin DOMAIN inFlight /\ AtDecode(Pending[i])
    OBVIOUS
  <2>2. PICK x \in outputBuffer : AtDecode(x) /\ x.rd # 0 /\ x.prf = p
    BY <2>1 DEF validSetJump
  <2>3. Pending[Len(inFlight) + 1] = x /\ Len(inFlight) \in Nat /\ DOMAIN inFlight = 1 .. Len(inFlight)
        /\ Pending \in Seq(Renamed) /\ Len(Pending) = Len(inFlight) + 1
    BY InvShape DEF PendingShape
  <2>4. Len(inFlight) + 1 \in DOMAIN Pending
    BY <2>3
  <2>5. Writes(x)
    BY <2>2 DEF Writes, AtDecode
  <2>6. Len(inFlight) + 1 \in DestsOf(Pending)
    BY <2>3, <2>4, <2>5 DEF DestsOf
  <2>7. i = Len(inFlight) + 1
    BY <2>2, <2>3, <2>6 DEF IInv, Owned
  <2>8. QED
    BY <2>2, <2>3, <2>7
<1>6. ASSUME i \notin DOMAIN inFlight
      PROVE  \E x \in outputBuffer : x = Pending[i]
  <2>1. PendingShape
    BY InvShape
  <2> DEFINE n == Len(inFlight)
  <2>2. /\ n \in Nat /\ DOMAIN inFlight = 1 .. n /\ Pending \in Seq(Renamed)
        /\ Len(Pending) = n + (IF outputBuffer = {} THEN 0 ELSE 1)
        /\ \A x \in outputBuffer : Pending[n + 1] = x
    BY <2>1 DEF PendingShape
  <2>3. DOMAIN Pending = 1 .. n + (IF outputBuffer = {} THEN 0 ELSE 1)
    BY <2>2
  <2>4. i \in DOMAIN Pending
    BY DEF DestsOf
  <2> HIDE DEF n
  <2>5. i = n + 1 /\ outputBuffer # {}
    <3>1. n \in Nat /\ i \notin 1 .. n
      BY <1>6, <2>2
    <3>2. i \in 1 .. n + (IF outputBuffer = {} THEN 0 ELSE 1)
      BY <2>3, <2>4
    <3>3. QED
      BY <3>1, <3>2
  <2>6. QED
    BY <2>2, <2>5
<1>7. i \notin DOMAIN inFlight =>
        /\ AtDecode(Pending[i]) => p \in validSetJump
        /\ ~AtDecode(Pending[i]) => p \notin PRFValidList
  <2>1. SUFFICES ASSUME NEW x \in outputBuffer, x = Pending[i]
                 PROVE  /\ AtDecode(Pending[i]) => p \in validSetJump
                        /\ ~AtDecode(Pending[i]) => p \notin PRFValidList
    BY <1>6
  <2>2. AtDecode(x) => p \in validSetJump
    BY <1>1, <2>1 DEF validSetJump, Writes
  <2>3. ~AtDecode(x) => p \notin PRFValidList
    BY <1>1, <2>1 DEF IInv, ValidExact
  <2>4. QED
    BY <2>1, <2>2, <2>3
<1>8. CASE ~failed(in)
  <2>1. PRFValidList' = ((PRFValidList \cup validSetJump) \ allocated(in)) \cup (instrRetired \cup long)
    BY <1>8 DEF Cycle, ValidList, validSetExec
  <2> HIDE DEF long, p
  <2>2. p \in PRFValidList' <=> p \in PRFValidList \/ p \in validSetJump \/ p \in instrRetired \/ p \in long
    BY <1>1, <2>1
  <2>3. QED
    BY <1>2, <1>3, <1>4, <1>5, <1>7, <1>8, <2>2 DEF p
<1>9. CASE failed(in)
  <2>1. PRFValidList' = (reservedValidList[0] \cup PRFValidList) \cup (instrRetired \cup long)
    BY <1>9 DEF Cycle, ValidList, validSetExec
  <2>2. p \in reservedValidList[0] => p \in PRFValidList
    <3>1. IsHeld(Pending, architecturalRegMap, Oldest, p)
      BY <1>9 DEF IsHeld
    <3>2. QED
      BY <1>1, <1>9, <3>1, CutNext DEF ValidAt
  <2> HIDE DEF long, p
  <2>3. p \in PRFValidList' <=> p \in PRFValidList \/ p \in instrRetired \/ p \in long
    BY <2>1, <2>2
  <2>4. QED
    BY <1>2, <1>3, <1>4, <1>9, <2>3 DEF p
<1>10. QED
  BY <1>8, <1>9

LEMMA MarkedExact ==
  ASSUME IInv, NEW in \in Input, Cycle(in), NEW i \in DestsOf(Pending), i \in DOMAIN inFlight
  PROVE  (\/ AtDecode(inFlight[i]) \/ inFlight[i].done
          \/ i = in.executes /\ inFlight[i].kind = "long")
         <=> AtDecode(Marked(in, i))
               \/ (Marked(in, i).done /\ Marked(in, i).prf \notin instrRetired')
<1> DEFINE x == inFlight[i]
<1>1. /\ Marked(in, i).kind = x.kind /\ Marked(in, i).prf = x.prf
      /\ Marked(in, i).done <=> x.done \/ i = in.executes \/ (fired(in) /\ i = Oldest)
  BY InvShape, MarkedIs
<1>2. x.prf \in instrRetired' <=> i = in.executes /\ x.kind = "op"
  <2>1. instrRetired' = {y.prf : y \in executing(in, "op")}
    BY DEF Cycle, InFlight
  <2>2. QED
    BY <2>1, ExecutingOwned, PendingOf
<1>3. AtDecode(Marked(in, i)) <=> AtDecode(x)
  BY <1>1 DEF AtDecode
<1>4. x.kind \in {"op", "long", "lui", "br", "jal"} /\ x.kind # "br"
  BY PendingOf, DestHeld DEF Issued, Writes
<1>5. i = in.executes => ~x.done /\ x.kind # "jal"
  <2>1. i # 0
    BY PendingOf, InvShape DEF PendingShape
  <2>2. QED
    BY <2>1, InputIs DEF IInv, Cfi
<1>6. fired(in) /\ i = Oldest => AtDecode(x)
  <2>1. fired(in) /\ i = Oldest => Cfi(x)
    BY InputIs, OldestIs, InvShape DEF IInv
  <2>2. QED
    BY <1>4, <2>1 DEF Cfi, AtDecode
<1> HIDE DEF x
<1>7. AtDecode(x) <=> x.kind \in {"lui", "jal"}
  BY DEF AtDecode
<1>8. QED
  BY <1>1, <1>2, <1>3, <1>4, <1>5, <1>6, <1>7 DEF x

(* A register in the architectural map stays valid. *)
LEMMA ArchValid ==
  ASSUME IInv, NEW in \in Input, Cycle(in), NEW r \in Regs
  PROVE  architecturalRegMap'[r] \in PRFValidList'
<1>1. ASSUME NEW p \in PRF, p \in PRFValidList,
             IsHeld(Pending, architecturalRegMap, Len(Pending), p)
      PROVE  p \in PRFValidList'
  BY <1>1, AllocatedIs, ValidKept
<1>2. /\ architecturalRegMap[r] \in PRF /\ architecturalRegMap[r] \in PRFValidList
      /\ IsHeld(Pending, architecturalRegMap, Len(Pending), architecturalRegMap[r])
  BY DEF IInv, TypeOK, ValidExact, IsHeld
<1>3. CASE architecturalRegMap'[r] = architecturalRegMap[r]
  BY <1>1, <1>2, <1>3
<1>4. CASE architecturalRegMap'[r] # architecturalRegMap[r]
  <2>1. in.retires /\ architecturalRegMap' = ArchAfter(Pending, architecturalRegMap)
        /\ 1 \in DOMAIN inFlight /\ inFlight[1].done
    BY <1>4, RetiredIs
  <2>2. Writes(Pending[1]) /\ architecturalRegMap'[r] = Pending[1].prf
    BY <1>4, <2>1 DEF ArchAfter
  <2>3. 1 \in DestsOf(Pending) /\ Pending[1].prf = inFlight[1].prf /\ Writes(inFlight[1])
    BY <2>1, <2>2, PendingOf DEF DestsOf
  <2>4. inFlight[1].prf \notin instrRetired
    BY <2>1, InputIs DEF IInv, Retirable
  <2>5. Pending[1].prf \in PRFValidList
    BY <2>1, <2>3, <2>4 DEF IInv, ValidExact
  <2>6. QED
    BY <1>1, <2>2, <2>3, <2>5, DestHeld
<1>5. QED
  BY <1>3, <1>4

(* The register handed out in this cycle is not valid. *)
LEMMA AllocatedInvalid ==
  ASSUME IInv, NEW in \in Input, Cycle(in), NEW p \in allocated(in)
  PROVE  p \notin PRFValidList'
<1>1. transfers(in) # {} /\ p \in PRFFreeList
  BY AllocatedIs
<1>2. ~failed(in) /\ inputBuffer # {}
  BY <1>1, TransferIs
<1>3. p \notin instrRetired
  BY <1>1, <1>2 DEF IInv, WakeUpsOwned
<1>4. p \notin {y.prf : y \in executing(in, "long")}
  <2>1. ASSUME NEW j \in DOMAIN inFlight, inFlight[j].kind = "long", inFlight[j].rd # 0,
               inFlight[j].prf = p
        PROVE  FALSE
    <3>1. Writes(inFlight[j])
      BY <2>1 DEF Writes
    <3>2. j \in DestsOf(Pending) /\ Pending[j].prf = p
      BY <2>1, <3>1, PendingOf
    <3>3. QED
      BY <1>1, <3>2, DestHeld
  <2>2. QED
    BY <2>1 DEF executing
<1>5. QED
  BY <1>2, <1>3, <1>4 DEF Cycle, ValidList, validSetExec

LEMMA ValidNext ==
  ASSUME IInv, NEW in \in Input, Cycle(in)
  PROVE  ValidExact'
<1> DEFINE Good(x) == Writes(x) => (x.prf \in PRFValidList' <=>
                                      AtDecode(x) \/ (x.done /\ x.prf \notin instrRetired'))
<1>1. BuffersOK /\ PendingShape /\ Len(inFlight) \in Nat /\ DOMAIN inFlight = 1 .. Len(inFlight)
  BY InvShape DEF PendingShape
<1>2. ASSUME NEW i \in DOMAIN inFlight, failed(in) => i <= Oldest
      PROVE  Good(Marked(in, i))
  <2>1. Marked(in, i).prf = Pending[i].prf /\ (Writes(Marked(in, i)) <=> i \in DestsOf(Pending))
    BY <1>1, MarkedIs, PendingOf DEF Writes
  <2>2. SUFFICES ASSUME i \in DestsOf(Pending)
                 PROVE  Pending[i].prf \in PRFValidList' <=>
                          AtDecode(Marked(in, i))
                            \/ (Marked(in, i).done /\ Marked(in, i).prf \notin instrRetired')
    BY <2>1
  <2>3. QED
    BY <1>2, <2>2, Produced, MarkedExact
<1>3. ASSUME NEW x \in outputBuffer, ~failed(in), Writes(x)
      PROVE  x.prf \in PRFValidList' <=> AtDecode(x)
  <2> DEFINE n == Len(inFlight)
  <2>1. Pending[n + 1] = x /\ n + 1 \notin DOMAIN inFlight /\ n \in Nat
    BY <1>1 DEF PendingShape
  <2>2. n + 1 \in DOMAIN Pending
    <3>1. Pending \in Seq(Renamed) /\ Len(Pending) = n + 1
      BY <1>1, <1>3 DEF PendingShape
    <3>2. QED
      BY <2>1, <3>1
  <2>3. n + 1 \in DestsOf(Pending)
    BY <1>3, <2>1, <2>2 DEF DestsOf
  <2>4. QED
    BY <1>3, <2>1, <2>3, Produced
<1> HIDE DEF Good
<1>4. ASSUME NEW j \in DOMAIN inFlight' PROVE Good(inFlight'[j])
  <2>1. CASE failed(in)
    BY <1>2, <2>1, CutNext
  <2>2. CASE ~failed(in)
    <3> DEFINE n == Len(inFlight)
               d == Shift(in)
               g == Grow(in)
    <3>1. /\ DOMAIN inFlight' = 1 .. n - d + g
          /\ \A i \in 1 .. n - d : inFlight'[i] = Marked(in, i + d)
          /\ in.takes => \A x \in outputBuffer : inFlight'[n - d + 1] = Entered(x)
      BY <2>2, FlightNext
    <3>2. /\ n \in Nat /\ d \in 0 .. 1 /\ g \in 0 .. 1 /\ d <= n /\ (in.takes <=> g = 1)
          /\ in.takes => outputBuffer # {}
      BY Lengths
    <3>3. DOMAIN inFlight = 1 .. n
      BY <1>1
    <3> HIDE DEF n, d, g
    <3>4. CASE j \in 1 .. n - d
      <4>1. j + d \in DOMAIN inFlight
        BY <3>2, <3>3, <3>4
      <4>2. QED
        BY <1>2, <2>2, <3>1, <3>4, <4>1
    <3>5. CASE j \notin 1 .. n - d
      <4>1. in.takes /\ j = n - d + 1
        BY <1>4, <3>1, <3>2, <3>5
      <4>2. PICK x \in outputBuffer : inFlight'[j] = Entered(x)
        BY <3>1, <3>2, <4>1
      <4>3. /\ Entered(x).prf = x.prf /\ Entered(x).done = (x.kind = "lui")
            /\ (AtDecode(Entered(x)) <=> AtDecode(x)) /\ (Writes(Entered(x)) <=> Writes(x))
        BY DEF Entered, AtDecode, Writes
      <4>4. x.kind = "lui" => AtDecode(x)
        BY DEF AtDecode
      <4>5. QED
        BY <1>3, <2>2, <4>2, <4>3, <4>4 DEF Good
    <3>6. QED
      BY <3>4, <3>5
  <2>3. QED
    BY <2>1, <2>2
<1>5. ASSUME NEW x \in outputBuffer', Writes(x), ~AtDecode(x) PROVE x.prf \notin PRFValidList'
  <2>1. ~failed(in)
    BY BuffersNext
  <2>2. outputBuffer' = IF transfers(in) # {} THEN {New(y) : y \in transfers(in)}
                        ELSE IF in.takes THEN {} ELSE outputBuffer
    BY <2>1 DEF Cycle, Buffers, New
  <2>3. CASE x \in outputBuffer
    BY <1>3, <1>5, <2>1, <2>3
  <2>4. CASE \E y \in transfers(in) : x = New(y)
    <3>1. PICK y \in transfers(in) : x = New(y)
      BY <2>4
    <3>2. x.prf = freeRegAddr /\ Writes(y)
      BY <1>5, <3>1 DEF New, Writes
    <3>3. freeRegAddr \in allocated(in)
      BY <3>2, AllocatedIs
    <3>4. QED
      BY <3>2, <3>3, AllocatedInvalid
  <2>5. QED
    BY <1>5, <2>2, <2>3, <2>4
<1>6. QED
  BY <1>4, <1>5, ArchValid DEF ValidExact, Good, AtDecode, Writes

LEMMA WakeUpsNext ==
  ASSUME IInv, NEW in \in Input, Cycle(in), Owned(Pending', architecturalRegMap'),
         FreeAt(Pending', architecturalRegMap', PRFFreeList', Len(Pending'))
  PROVE  WakeUpsOwned'
<1>1. SUFFICES ASSUME NEW p \in instrRetired'
               PROVE  /\ p \in PRFFreeList' => inputBuffer' = {}
                      /\ \A i \in DestsOf(Pending') :
                           Pending'[i].prf = p => i \in DOMAIN inFlight' /\ inFlight'[i].done
  BY DEF WakeUpsOwned, DestsOf, Writes
<1>2. instrRetired' = {y.prf : y \in executing(in, "op")}
  BY DEF Cycle, InFlight
<1>3. PICK j \in DOMAIN inFlight : /\ j = in.executes /\ inFlight[j].kind = "op"
                                   /\ inFlight[j].rd # 0 /\ inFlight[j].prf = p
  BY <1>2 DEF executing
<1>4. Writes(inFlight[j])
  BY <1>3 DEF Writes
<1>5. j \in DestsOf(Pending) /\ Pending[j].prf = p /\ j \in 1 .. Len(inFlight)
  BY <1>3, <1>4, PendingOf
<1>6. p \in PRF
  BY <1>5, DestHeld
<1>7. Marked(in, j).done /\ ~inFlight[j].done
  <2>1. j # 0 /\ BuffersOK
    BY <1>5, InvShape DEF PendingShape
  <2>2. QED
    BY <1>3, <2>1, MarkedIs, InputIs DEF IInv
<1>8. CASE failed(in)
  <2>1. inputBuffer' = {}
    BY <1>8, BuffersNext
  <2>2. ASSUME NEW i \in DestsOf(Pending'), Pending'[i].prf = p
        PROVE  i \in DOMAIN inFlight' /\ inFlight'[i].done
    <3>1. i \in DestsOf(Pending) /\ i <= Oldest /\ Agree(Pending, Pending', Oldest)
      BY <1>8, CutNext
    <3>2. Pending[i].prf = p
      BY <2>2, <3>1 DEF Agree
    <3>3. i = j
      BY <1>5, <3>1, <3>2 DEF IInv, Owned
    <3>4. j \in 1 .. Oldest /\ Oldest \in Nat
      BY <1>5, <1>8, <3>1, <3>3, CutNext
    <3>5. QED
      BY <1>7, <1>8, <3>3, <3>4, CutNext
  <2>3. QED
    BY <2>1, <2>2
<1>9. CASE ~failed(in)
  <2> DEFINE n == Len(inFlight)
             L == Len(Pending)
             d == Shift(in)
  <2>1. /\ n \in Nat /\ L \in Nat /\ d \in 0 .. 1 /\ Grow(in) \in 0 .. 1 /\ n <= L
        /\ (in.retires <=> d = 1)
    BY Lengths
  <2>2. /\ DOMAIN inFlight' = 1 .. n - d + Grow(in)
        /\ \A i \in 1 .. n - d : inFlight'[i] = Marked(in, i + d)
    BY <1>9, FlightNext
  <2>3. /\ Len(Pending') = L - d + (IF transfers(in) = {} THEN 0 ELSE 1)
        /\ \A i \in 1 .. L - d : Pending'[i] = Pending[i + d]
    BY <1>9, PendingNext DEF Moved
  <2>4. Pending' \in Seq(Renamed)
    <3>1. BuffersOK'
      BY BuffersNext
    <3>2. (BuffersOK => PendingShape)'
      BY PendingHasShape, PTL
    <3>3. QED
      BY <3>1, <3>2 DEF PendingShape
  <2>5. d = 1 => j # 1
    BY <1>7, <2>1, RetiredIs
  <2>6. j \in 1 .. n
    BY <1>5
  <2> DEFINE N == Len(Pending')
  <2>7. DOMAIN Pending' = 1 .. N
    BY <2>4
  <2> HIDE DEF n, L, d, N
  <2>8. /\ j - d \in 1 .. n - d /\ (j - d) + d = j /\ j - d \in 1 .. L - d
        /\ j - d \in 1 .. n - d + Grow(in)
    BY <2>1, <2>5, <2>6
  <2>9. N = L - d + (IF transfers(in) = {} THEN 0 ELSE 1)
    BY <2>3 DEF N
  <2>10. j - d \in 1 .. N /\ j - d <= N
    BY <2>1, <2>8, <2>9
  <2>11. Pending'[j - d] = Pending[j] /\ inFlight'[j - d] = Marked(in, j)
    BY <2>2, <2>3, <2>8
  <2>12. j - d \in DestsOf(Pending')
    BY <1>5, <2>7, <2>10, <2>11 DEF DestsOf
  <2>13. IsHeld(Pending', architecturalRegMap', Len(Pending'), p)
    BY <1>5, <2>10, <2>11, <2>12 DEF IsHeld, N
  <2>14. p \notin PRFFreeList'
    BY <1>6, <2>13 DEF FreeAt
  <2>15. ASSUME NEW i \in DestsOf(Pending'), Pending'[i].prf = p
         PROVE  i \in DOMAIN inFlight' /\ inFlight'[i].done
    <3>1. i = j - d
      BY <1>5, <2>11, <2>12, <2>15 DEF Owned
    <3>2. QED
      BY <1>7, <2>2, <2>8, <2>11, <3>1
  <2>16. QED
    BY <2>14, <2>15
<1>10. QED
  BY <1>8, <1>9
-----------------------------------------------------------------------------
(***************************************************************************)
(* The invariant is inductive.                                             *)
(***************************************************************************)
LEMMA TypesNext ==
  ASSUME IInv, NEW in \in Input, Cycle(in)
  PROVE  TypeOK'
<1>1. /\ BuffersOK' /\ Len(inFlight') <= RobDepth
      /\ inputBuffer' \subseteq Decoded /\ AtMostOne(inputBuffer')
  BY BuffersNext
<1>2. Cardinality(inputBuffer') <= 1 /\ Cardinality(outputBuffer') <= 1
  BY <1>1, FewElements DEF BuffersOK, AtMostOne
<1>3. architecturalRegMap' \in [Regs -> PRF]
  BY RestOwners
<1>4. 0 \in Checkpoints /\ freeRegAddr \in PRF /\ freeSetRetire(in) \subseteq PRF
  BY TransferIs, ReleasedHeld DEF Checkpoints
<1>5. frontEndRegMap' \in [Regs -> PRF]
  BY <1>4 DEF Cycle, Maps, IInv, TypeOK
<1>6. PRFFreeList' \subseteq PRF
  BY <1>4 DEF Cycle, FreeList, IInv, TypeOK
<1>7. ASSUME NEW k PROVE {x.prf : x \in executing(in, k)} \subseteq PRF
  <2>1. ASSUME NEW j \in DOMAIN inFlight PROVE inFlight[j].prf \in PRF
    BY PendingOf DEF Issued
  <2>2. QED
    BY <2>1 DEF executing
<1>8. instrRetired' \subseteq PRF
  BY <1>7 DEF Cycle, InFlight
<1>9. PRFValidList' \subseteq PRF
  <2>1. validSetJump \subseteq PRF /\ validSetExec(in) \subseteq PRF
    BY <1>7 DEF validSetJump, validSetExec, IInv, TypeOK, Renamed
  <2>2. reservedValidList[0] \subseteq PRF /\ PRFValidList \subseteq PRF
    BY <1>4 DEF IInv, TypeOK
  <2>3. QED
    BY <2>1, <2>2 DEF Cycle, ValidList
<1>10. ASSUME NEW S, NEW list \in [Checkpoints -> S], NEW snapshot \in S
       PROVE  Reserved(in, list, snapshot) \in [Checkpoints -> S]
  <2>1. ASSUME NEW c \in Checkpoints, c < nCheckpoints - 1 PROVE c + 1 \in Checkpoints
    BY <2>1 DEF Checkpoints
  <2>2. QED
    BY <2>1 DEF Reserved
<1> DEFINE links == {x \in transfers(in) : x.kind = "jal" /\ x.rd # 0}
           taken == IF links = {} THEN {} ELSE {freeRegAddr}
           snapMap == [r \in Regs |-> IF \E x \in links : x.rd = r THEN freeRegAddr
                                      ELSE frontEndRegMap[r]]
<1>11. /\ reservedRegMap' = Reserved(in, reservedRegMap, snapMap)
       /\ reservedFreeList' = [i \in Checkpoints |->
            Reserved(in, reservedFreeList, PRFFreeList \ taken)[i] \cup freeSetRetire(in)]
       /\ reservedValidList' = Reserved(in, reservedValidList, PRFValidList \ taken)
  BY DEF Cycle, Checkpoint
<1>12. snapMap \in [Regs -> PRF]
  BY <1>4 DEF IInv, TypeOK
<1> HIDE DEF links, taken, snapMap
<1>13. /\ PRFFreeList \ taken \in SUBSET PRF /\ PRFValidList \ taken \in SUBSET PRF
       /\ reservedRegMap \in [Checkpoints -> [Regs -> PRF]]
       /\ reservedFreeList \in [Checkpoints -> SUBSET PRF]
       /\ reservedValidList \in [Checkpoints -> SUBSET PRF]
  BY DEF IInv, TypeOK
<1>14. reservedRegMap' \in [Checkpoints -> [Regs -> PRF]]
  BY <1>10, <1>11, <1>12, <1>13
<1>15. reservedValidList' \in [Checkpoints -> SUBSET PRF]
  BY <1>10, <1>11, <1>13
<1>16. reservedFreeList' \in [Checkpoints -> SUBSET PRF]
  <2>1. Reserved(in, reservedFreeList, PRFFreeList \ taken) \in [Checkpoints -> SUBSET PRF]
    BY <1>10, <1>13
  <2>2. QED
    BY <1>4, <1>11, <2>1
<1>17. branchTracker' \in 0 .. nCheckpoints
  <2>1. CASE failed(in)
    BY <2>1, CutLists
  <2>2. CASE ~failed(in)
    BY <2>2, TrackerNext
  <2>3. QED
    BY <2>1, <2>2
<1>18. QED
  BY <1>1, <1>2, <1>3, <1>5, <1>6, <1>8, <1>9, <1>14, <1>15, <1>16, <1>17
     DEF TypeOK, BuffersOK

LEMMA ListsNext ==
  ASSUME IInv, NEW in \in Input, Cycle(in)
  PROVE  /\ Owned(Pending', architecturalRegMap')
         /\ FreeAt(Pending', architecturalRegMap', PRFFreeList', Len(Pending'))
         /\ MapAt(Pending', architecturalRegMap', frontEndRegMap', Len(Pending'))
         /\ CheckpointsExact' /\ PRFCount - 1 \in PRFFreeList'
<1>1. PRFCount - 1 \in PRFFreeList
  BY DEF IInv
<1>2. CASE failed(in)
  <2>1. PRFCount - 1 \in PRFFreeList'
    BY <1>1, <1>2 DEF Cycle, FreeList
  <2>2. QED
    BY <1>2, <2>1, CutLists
<1>3. CASE ~failed(in)
  <2>1. PRFFreeList' = (PRFFreeList \ allocated(in)) \cup freeSetRetire(in)
    BY <1>3, TransferIs DEF Cycle, FreeList
  <2>2. PRFCount - 1 \in PRFFreeList'
    BY <1>1, <2>1, AllocatedIs
  <2>3. QED
    BY <1>3, <2>1, <2>2, OwnersNext, TopNext, CheckpointsNext
<1>4. QED
  BY <1>2, <1>3

LEMMA NextKeeps == IInv /\ [Next]_vars => IInv'
<1> SUFFICES ASSUME IInv, [Next]_vars PROVE IInv'
  OBVIOUS
<1>1. ASSUME NEW in \in Input, Cycle(in) PROVE IInv'
  <2>1. TypeOK' /\ ValidExact'
    BY <1>1, TypesNext, ValidNext
  <2>2. AtMostOne(inputBuffer') /\ AtMostOne(outputBuffer')
    BY <1>1, BuffersNext DEF BuffersOK, AtMostOne
  <2>3. /\ Owned(Pending', architecturalRegMap')
        /\ FreeAt(Pending', architecturalRegMap', PRFFreeList', Len(Pending'))
        /\ MapAt(Pending', architecturalRegMap', frontEndRegMap', Len(Pending'))
        /\ CheckpointsExact' /\ PRFCount - 1 \in PRFFreeList'
    BY <1>1, ListsNext
  <2>4. WakeUpsOwned'
    BY <1>1, <2>3, WakeUpsNext
  <2>5. QED
    BY <2>1, <2>2, <2>3, <2>4 DEF IInv, AtMostOne, Owned, FreeAt, MapAt, IsHeld,
       Untouched, Youngest, DestsOf, Writes
<1>2. CASE UNCHANGED vars
  <2>1. /\ UNCHANGED <<inputBuffer, outputBuffer, inFlight, frontEndRegMap, architecturalRegMap>>
        /\ UNCHANGED <<PRFFreeList, PRFValidList, reservedRegMap, reservedFreeList>>
        /\ UNCHANGED <<reservedValidList, branchTracker, instrRetired>>
    BY <1>2 DEF vars, listVars
  <2>2. Pending' = Pending
    BY <2>1 DEF Pending
  <2>3. Open' = Open
    BY <2>1, <2>2 DEF Open, Cfi
  <2>4. TypeOK' /\ AtMostOne(inputBuffer)' /\ AtMostOne(outputBuffer)'
    BY <2>1 DEF IInv, TypeOK, AtMostOne
  <2>5. /\ Owned(Pending, architecturalRegMap)'
        /\ FreeAt(Pending, architecturalRegMap, PRFFreeList, Len(Pending))'
        /\ MapAt(Pending, architecturalRegMap, frontEndRegMap, Len(Pending))'
    BY <2>1, <2>2 DEF IInv, Owned, FreeAt, MapAt, IsHeld, Untouched, Youngest, DestsOf, Writes
  <2>6. CheckpointsExact'
    <3>1. PICK pos \in [0 .. branchTracker - 1 -> Open] : Saved(pos)
      BY DEF IInv, CheckpointsExact
    <3>2. Saved(pos)'
      BY <2>1, <2>2, <2>3, <3>1 DEF Saved, FreeAt, MapAt, ValidAt, IsHeld, Untouched, Youngest,
         DestsOf, Writes
    <3>3. pos \in [0 .. branchTracker' - 1 -> Open']
      BY <2>1, <2>3
    <3>4. QED
      BY <3>2, <3>3 DEF CheckpointsExact
  <2>7. WakeUpsOwned'
    BY <2>1, <2>2 DEF IInv, WakeUpsOwned, DestsOf, Writes
  <2>8. ValidExact'
    BY <2>1 DEF IInv, ValidExact, AtDecode, Writes
  <2>9. QED
    BY <2>1, <2>4, <2>5, <2>6, <2>7, <2>8 DEF IInv
<1>3. QED
  BY <1>1, <1>2 DEF Next

LEMMA InitHolds == Init => IInv
<1> SUFFICES ASSUME Init PROVE IInv
  OBVIOUS
<1>1. /\ inputBuffer = {} /\ outputBuffer = {} /\ inFlight = <<>> /\ instrRetired = {}
      /\ branchTracker = 0 /\ PRFFreeList = PRF \ Regs /\ PRFValidList = Regs
      /\ frontEndRegMap = [r \in Regs |-> r] /\ architecturalRegMap = [r \in Regs |-> r]
  BY DEF Init
<1>2. Regs \subseteq PRF /\ PRFCount - 1 \in PRF \ Regs /\ 0 \in 0 .. nCheckpoints
  BY DEF Regs, PRF
<1>3. Len(inFlight) = 0 /\ DOMAIN inFlight = {} /\ inFlight \in Seq(Issued)
  BY <1>1
<1>4. TypeOK
  <2>1. Cardinality(inputBuffer) <= 1 /\ Cardinality(outputBuffer) <= 1
    BY <1>1, FS_EmptySet
  <2>2. Len(inFlight) <= RobDepth
    BY <1>3
  <2>3. QED
    BY <1>1, <1>2, <1>3, <2>1, <2>2 DEF TypeOK, Init
<1>5. BuffersOK /\ AtMostOne(inputBuffer) /\ AtMostOne(outputBuffer)
  BY <1>1, <1>3 DEF BuffersOK, AtMostOne
<1>6. PendingShape
  BY <1>5, PendingHasShape
<1>7. Len(Pending) = 0 /\ DOMAIN Pending = {}
  BY <1>1, <1>3, <1>6 DEF PendingShape
<1>8. DestsOf(Pending) = {} /\ Open = {}
  BY <1>7 DEF DestsOf, Open
<1>9. \A r \in Regs : architecturalRegMap[r] = r /\ frontEndRegMap[r] = r
  BY <1>1
<1>10. Owned(Pending, architecturalRegMap)
  BY <1>8, <1>9 DEF Owned
<1>11. FreeAt(Pending, architecturalRegMap, PRFFreeList, Len(Pending))
  BY <1>1, <1>8, <1>9 DEF FreeAt, IsHeld
<1>12. MapAt(Pending, architecturalRegMap, frontEndRegMap, Len(Pending))
  BY <1>8, <1>9 DEF MapAt, Untouched
<1>13. CheckpointsExact
  <2>1. 0 .. branchTracker - 1 = {}
    BY <1>1
  <2>2. [c \in 0 .. branchTracker - 1 |-> 0] \in [0 .. branchTracker - 1 -> Open]
    BY <2>1
  <2>3. PICK q \in [0 .. branchTracker - 1 -> Open] : TRUE
    BY <2>2
  <2>4. Saved(q)
    BY <1>8, <2>1 DEF Saved
  <2>5. QED
    BY <2>3, <2>4 DEF CheckpointsExact
<1>14. WakeUpsOwned
  BY <1>1 DEF WakeUpsOwned
<1>15. ValidExact
  BY <1>1, <1>3, <1>9 DEF ValidExact
<1>16. PRFCount - 1 \in PRFFreeList
  BY <1>1, <1>2
<1>17. QED
  BY <1>4, <1>5, <1>10, <1>11, <1>12, <1>13, <1>14, <1>15, <1>16 DEF IInv

(* The invariant of renaming: every list, current or saved at a branch, is  *)
(* what the pending instructions up to that point make it.                  *)
THEOREM RenameInvariant == Spec => []IInv
<1>1. QED
  BY InitHolds, NextKeeps, PTL DEF Spec
-----------------------------------------------------------------------------
(***************************************************************************)
(* What it says about the registers.                                       *)
(***************************************************************************)
LEMMA CountedOnce ==
  ASSUME NEW S, IsFiniteSet(S), NEW T, NEW f \in [S -> T],
         \A x, y \in S : f[x] = f[y] => x = y, \A t \in T : \E x \in S : f[x] = t
  PROVE  Cardinality(T) = Cardinality(S)
<1>1. f \in Bijection(S, T)
  BY DEF Bijection, Injection, Surjection, IsInjective
<1>2. QED
  BY <1>1, FS_Bijection DEF ExistsBijection

LEMMA InvFree == IInv => FreeExact
<1> SUFFICES ASSUME IInv PROVE FreeExact
  OBVIOUS
<1> DEFINE A == {architecturalRegMap[r] : r \in Regs}
           D == {Pending[i].prf : i \in Dests}
<1>1. Pending \in Seq(Renamed) /\ Len(Pending) \in Nat /\ DOMAIN Pending = 1 .. Len(Pending)
  BY InvShape DEF PendingShape
<1>2. Dests = DestsOf(Pending) /\ Dests \subseteq 1 .. Len(Pending)
  BY <1>1 DEF Dests, DestsOf
<1>3. architecturalRegMap \in [Regs -> PRF] /\ PRFFreeList \subseteq PRF
  BY DEF IInv, TypeOK
<1>4. Owned(Pending, architecturalRegMap)
  BY DEF IInv
<1>5. PRFFreeList = PRF \ (A \cup D)
  <2>1. ASSUME NEW p \in PRF PROVE p \in PRFFreeList <=> p \notin A \cup D
    <3>1. p \in A <=> \E r \in Regs : architecturalRegMap[r] = p
      OBVIOUS
    <3>2. p \in D <=> \E i \in Dests : Pending[i].prf = p
      OBVIOUS
    <3>3. \A i \in Dests : i <= Len(Pending)
      BY <1>1, <1>2
    <3> HIDE DEF A, D
    <3>4. QED
      BY <1>2, <3>1, <3>2, <3>3 DEF IInv, FreeAt, IsHeld
  <2>2. QED
    BY <1>3, <2>1
<1>6. Cardinality(A) = regCount
  <2>1. IsFiniteSet(Regs) /\ Cardinality(Regs) = regCount
    <3>1. IsFiniteSet(0 .. regCount - 1)
          /\ Cardinality(0 .. regCount - 1)
               = IF 0 > regCount - 1 THEN 0 ELSE (regCount - 1) - 0 + 1
      BY FS_Interval
    <3>2. QED
      BY <3>1 DEF Regs
  <2>2. architecturalRegMap \in [Regs -> A]
    BY <1>3
  <2>3. \A r, s \in Regs : architecturalRegMap[r] = architecturalRegMap[s] => r = s
    BY <1>4 DEF Owned
  <2>4. \A t \in A : \E r \in Regs : architecturalRegMap[r] = t
    OBVIOUS
  <2> HIDE DEF A
  <2>5. Cardinality(A) = Cardinality(Regs)
    BY <2>1, <2>2, <2>3, <2>4, CountedOnce
  <2>6. QED
    BY <2>1, <2>5
<1>7. Cardinality(D) = Cardinality(Dests)
  <2> DEFINE f == [i \in Dests |-> Pending[i].prf]
  <2>1. IsFiniteSet(Dests)
    <3>1. IsFiniteSet(1 .. Len(Pending))
      BY <1>1, FS_Interval
    <3>2. QED
      BY <1>2, <3>1, FS_Subset
  <2>2. f \in [Dests -> D]
    OBVIOUS
  <2>3. \A i, j \in Dests : f[i] = f[j] => i = j
    BY <1>2, <1>4 DEF Owned
  <2>4. \A t \in D : \E i \in Dests : f[i] = t
    OBVIOUS
  <2> HIDE DEF D, f
  <2>5. QED
    BY <2>1, <2>2, <2>3, <2>4, CountedOnce
<1>8. A \cap D = {}
  BY <1>2, <1>4 DEF Owned
<1>9. QED
  BY <1>5, <1>6, <1>7, <1>8 DEF FreeExact

LEMMA InvMap == IInv => MapExact
<1> SUFFICES ASSUME IInv, NEW r \in Regs
             PROVE  LET writers == {i \in Dests : Pending[i].rd = r}
                    IN frontEndRegMap[r] = IF writers = {} THEN architecturalRegMap[r]
                                           ELSE Pending[Max(writers)].prf
  BY DEF MapExact
<1> DEFINE W == {i \in Dests : Pending[i].rd = r}
<1>1. Pending \in Seq(Renamed) /\ Len(Pending) \in Nat /\ DOMAIN Pending = 1 .. Len(Pending)
  BY InvShape DEF PendingShape
<1>2. Dests = DestsOf(Pending) /\ \A i \in Dests : i \in Nat /\ i <= Len(Pending)
  BY <1>1 DEF Dests, DestsOf
<1>3. CASE Untouched(Pending, Len(Pending), r) /\ frontEndRegMap[r] = architecturalRegMap[r]
  <2>1. W = {}
    BY <1>2, <1>3 DEF Untouched
  <2>2. QED
    BY <1>3, <2>1
<1>4. ASSUME NEW i \in DestsOf(Pending), Youngest(Pending, Len(Pending), r, i),
             frontEndRegMap[r] = Pending[i].prf
      PROVE  W # {} /\ frontEndRegMap[r] = Pending[Max(W)].prf
  <2>1. i \in W /\ W \in SUBSET Nat
    BY <1>2, <1>4 DEF Youngest
  <2>2. \A y \in W : y <= i
    BY <1>2, <1>4 DEF Youngest
  <2> HIDE DEF W
  <2>3. Max(W) = i
    BY <2>1, <2>2, MaxIs
  <2>4. QED
    BY <1>4, <2>1, <2>3
<1>5. QED
  BY <1>3, <1>4 DEF IInv, MapAt

(* No physical register leaks or has two owners, the front-end map names    *)
(* the youngest pending writer of every register, also after a              *)
(* misprediction restored it, and there is a checkpoint for every           *)
(* unresolved branch (decode.scala: PRFFreeList, frontEndRegMap,            *)
(* architecturalRegMap and their reserved copies).                          *)
THEOREM RegistersAccountedFor == Spec => []RegistersExact
<1>1. IInv => RegistersExact
  BY InvFree, InvMap DEF IInv, RegistersExact
<1>2. QED
  BY <1>1, RenameInvariant, PTL

(* The valid bit of a register is set exactly when its value has been       *)
(* produced, whatever the order of wake-ups, answers, restores and          *)
(* allocations (decode.scala: PRFValidList).                                *)
THEOREM ValidBitsMeanValues == Spec => []ValidExact
<1>1. IInv => ValidExact
  BY DEF IInv
<1>2. QED
  BY <1>1, RenameInvariant, PTL
===========================================================================
