--------------------------- MODULE RequestOrder ---------------------------
(***************************************************************************)
(* What the data cache's request queues promise (RequestScheduler).        *)
(* Requests wait in one list, in the order in which they arrived.  None is *)
(* ever lost.  A load may leave early, but never past an older `op` (store,*)
(* atomic or device access) to its dword; ops leave in order among         *)
(* themselves, and only when no branch can undo them any more.  A failed   *)
(* branch marks exactly its dependants.                                    *)
(***************************************************************************)
EXTENDS Integers, Sequences, SequencesExt

CONSTANTS Bits, Dwords

VARIABLES list,       \* waiting requests, oldest first
          arriving,   \* the request that the core presents (at most one)
          branchOps   \* the resolution that the core broadcasts

orderVars == <<list, arriving, branchOps>>

Body == [kind : {"load", "op"}, dword : Dwords]
Request == [body : Body, live : BOOLEAN, mask : SUBSET Bits]

Resolved == {o.bit : o \in branchOps}
Killed(r) == r.mask \cap Resolved # {} /\ \E o \in branchOps : ~o.passed

(* A request after this cycle's resolution; nothing is told of the mask of  *)
(* a dead one.                                                              *)
Aged(r) ==
  IF r.live /\ ~Killed(r)
  THEN [r EXCEPT !.mask = IF \E o \in branchOps : o.passed THEN @ \ Resolved ELSE @]
  ELSE [r EXCEPT !.live = FALSE, !.mask = {}]

AgedList(s) == [i \in DOMAIN s |-> Aged(s[i])]

(* The i-th request may leave. *)
MayLeave(i) ==
  /\ \A j \in 1 .. i - 1 : list[j].body.kind = "op" =>
        /\ list[i].body.kind = "load"
        /\ list[j].body.dword # list[i].body.dword
  /\ list[i].body.kind = "op" => Aged(list[i]).mask = {}

Init == list = <<>> /\ arriving = {} /\ branchOps = {}

Step(kept) ==
  /\ list' = AgedList(kept) \o (IF arriving = {} THEN <<>>
                                ELSE <<Aged(CHOOSE r \in arriving : TRUE)>>)
  /\ arriving' \in {{}} \cup {{r} : r \in Request}
  /\ branchOps' \in {{}} \cup {{o} : o \in [bit : Bits, passed : BOOLEAN]}

Next == \/ Step(list)
        \/ \E i \in DOMAIN list : MayLeave(i) /\ Step(RemoveAt(list, i))

Spec == Init /\ [][Next]_orderVars
=============================================================================
