----------------------------- MODULE CcuSystem -----------------------------
(***************************************************************************)
(* The coherency unit (Ccu) between its request queue, the caches and L2.  *)
(*                                                                         *)
(* The queue receives what BusOrder allows.  L2 appears as its queue of    *)
(* unanswered requests (l2_Rob.scala), which it answers in order and after *)
(* any time.  The caches accept a snoop, respond and send data after any   *)
(* time (Dcache/ACEUnit.scala, coherentAXIState).                          *)
(***************************************************************************)
EXTENDS Ccu, BusOrder

CONSTANTS Sent,        \* the requests of this instance, as <<kind, port>>
          Found,       \* the responses that caches give to a snoop
          L2Depth      \* L2's queue, 8

ASSUME SystemAssumption ==
  Sent \subseteq (Reads \cup {"WriteBack"}) \X Ports
  /\ {} \in Found /\ Found \subseteq SUBSET Flags
  /\ L2Depth \in Nat \ {0}

VARIABLES l2,         \* requests that L2 has not answered
          l2aw,       \* the write-back whose beats L2 is receiving, as a set
          beat        \* beats of the line in transfer

vars == <<ccuVars, queue, toCome, l2, l2aw, beat>>

FirstOf(s) == IF s = <<>> THEN {} ELSE {s[1]}

(* A cache owes a line from its response until FSM_12 took the last beat;   *)
(* only then does it accept another snoop (coherentDataOutState).           *)
Owes(p) == \/ snoop[p] \notin {"idle", "ca", "crbuff", "hold"} /\ "data" \in cr2[p]
           \/ /\ p \in Sources /\ (snoop[0] = "rsp" \/ fsm12 # "idle")
              /\ ~(last /\ fsm12 \in {"rsp", "done"})

(* What the caches and L2 may do in a cycle; a wire that the unit does not  *)
(* look at in this state stays down.                                        *)
Env ==
  LET when(b) == IF b THEN BOOLEAN ELSE {FALSE}
      asked == {p \in Ports : snoop[p] = "crbuff"}
  IN [accepts : when(ARVALID \/ AWVALID \/ WVALID),
      answers : when(l2 # <<>> /\ (fsm12 = "capture" \/ BREADY)),
      moves : when(\E p \in Ports : ACVALID(p) \/ RVALID(p) \/ BVALID(p)
                     \/ snoop[p] = "crbuff" \/ (fsm12 = "capture" /\ p \in Sources)),
      found : {f \in [Ports -> Found] : \A p \in Ports \ asked : f[p] = {}}]

Wires(env) ==
  LET heads == IF env.answers THEN FirstOf(l2) ELSE {}
      some == IF env.moves THEN Ports ELSE {}
      free == env.accepts /\ l2aw = {} /\ Len(l2) < L2Depth
  IN [deq |-> FirstOf(queue),
      arready |-> free, awready |-> free, wready |-> env.accepts /\ l2aw # {},
      rvalid |-> \E h \in heads : h.read,
      rlast |-> beat = Beats - 1,
      bid |-> {h.port : h \in {x \in heads : ~x.read}},
      ac |-> {p \in some : ~Owes(p)}, cr |-> some, cd |-> some, r |-> some, b |-> some,
      cdlast |-> IF beat = Beats - 1 THEN Ports ELSE {},
      crresp |-> [p \in Ports |-> IF env.moves THEN env.found[p] ELSE {}]]

(* Ports whose write-back is not yet acknowledged: they send no other one   *)
(* (writeACEState).                                                         *)
Writing == {queue[i].port : i \in {j \in DOMAIN queue : queue[j].tran = "WriteBack"}}
           \cup {i.port : i \in l2aw}
           \cup {l2[i].port : i \in {j \in DOMAIN l2 : ~l2[j].read}}
           \cup (IF fsm2 = "b" THEN {bport} ELSE {})

(* The queue gives up its first word and takes a new one. *)
Queue == \/ Idle(deqReady)
         \/ \E i \in Arrivals :
              /\ i.tran # "beat" => <<i.tran, i.port>> \in Sent
              /\ i.tran = "WriteBack" => i.port \notin Writing
              /\ Arrive(deqReady, i)

(* The front of L2: a read enters its queue with the address, a write with  *)
(* the last beat, and no other address is accepted before that (stall);     *)
(* both leave when answered, in order.                                      *)
L2(in) ==
  LET taken == captures(in) /\ in.rvalid /\ pbuf3.tran # "CleanUnique"
      left == (taken /\ in.rlast) \/ (BREADY /\ in.bid # {})
      rest == IF left THEN Tail(l2) ELSE l2
      written == WVALID /\ in.wready /\ \E i \in in.deq : i.last
      asked == IF ARVALID /\ in.arready
               THEN {[read |-> TRUE, port |-> i.port, line |-> i.line] : i \in in.deq}
               ELSE IF written
               THEN {[read |-> FALSE, port |-> i.port, line |-> i.line] : i \in l2aw}
               ELSE {}
  IN /\ l2' = IF asked = {} THEN rest ELSE Append(rest, CHOOSE i \in asked : TRUE)
     /\ l2aw' = IF AWVALID /\ in.awready THEN in.deq ELSE IF written THEN {} ELSE l2aw

(* Every source of a line sends the same number of beats, in step. *)
BeatCount(in) ==
  beat' = IF captures(in) THEN (IF beat = Beats - 1 THEN 0 ELSE beat + 1) ELSE beat

Init == /\ CcuInit
        /\ OrderInit
        /\ l2 = <<>> /\ l2aw = {} /\ beat = 0

Cycle(env) == LET in == Wires(env)
              IN CcuCycle(in) /\ Queue /\ L2(in) /\ BeatCount(in)

Next == \E env \in Env : Cycle(env)

Spec == Init /\ [][Next]_vars

(* The clock runs; L2 accepts and answers, and caches take and answer what  *)
(* is presented to them, after some time.                                   *)
Fairness == /\ WF_vars(Next)
            /\ WF_vars(\E env \in Env : env.accepts /\ Cycle(env))
            /\ WF_vars(\E env \in Env : env.answers /\ Cycle(env))
            /\ WF_vars(\E env \in Env : env.moves /\ Cycle(env))

FairSpec == Spec /\ Fairness
-----------------------------------------------------------------------------
(* Every register holds a value of its type. *)
TypeOK == /\ CcuTypeOK
          /\ queue \in Seq(Item) /\ toCome \in 0 .. Beats
          /\ l2 \in Seq([read : BOOLEAN, port : Ports, line : Lines])
          /\ beat \in 0 .. Beats - 1

(* The requests in the unit's stages, oldest first; queue[1] counts once it *)
(* has been sent to L2.                                                     *)
stage3 == IF fsm12 # "idle" \/ snoop[0] = "rsp" THEN <<pbuf3>> ELSE <<>>
stage2 == IF fsm3 = "snoop" \/ snoop[0] \notin {"idle", "rsp"} THEN <<pbuf2>> ELSE <<>>
stage1 == IF fsm3 \in {"sync", "buff2"} THEN <<pbuf1>> ELSE <<>>
stage0 == IF fsm3 \in {"buff1", "deq"} THEN <<queue[1]>> ELSE <<>>

(* Those of them that wait for L2, which a CleanUnique does not ask. *)
Waits(s) == IF s # <<>> /\ s[1].tran # "CleanUnique" THEN s ELSE <<>>
answered == fsm12 = "done" \/ (fsm12 \in {"rsp", "rspbar"} /\ last)
asked == (IF answered THEN <<>> ELSE Waits(stage3))
           \o Waits(stage2) \o Waits(stage1) \o Waits(stage0)

(* The unit takes L2's data without looking at its identifier (CAPTURE).    *)
(* It is right because the reads that L2 has not answered are, in order,    *)
(* those in the unit's stages, even when a cache supplies the line and L2's *)
(* copy is thrown away.  It follows that L2 acknowledges a write-back only  *)
(* after the caches were snooped for every read that L2 saw before it.      *)
L2Exact ==
  \E at \in [DOMAIN asked -> DOMAIN l2] :
     /\ \A i, j \in DOMAIN asked : i < j => at[i] < at[j]
     /\ {at[i] : i \in DOMAIN asked} = {j \in DOMAIN l2 : l2[j].read}
     /\ \A i \in DOMAIN asked : /\ l2[at[i]].port = asked[i].port
                                /\ l2[at[i]].line = asked[i].line

(* No cache is snooped for a line while another one still receives it: the  *)
(* fill would be installed after the snoop had found nothing (the address   *)
(* comparison in FSM_4 to FSM_11).                                          *)
NoSnoopDuringFill ==
  fsm12 # "idle" /\ pbuf2.line = pbuf3.line =>
    \A p \in Ports : snoop[p] \notin {"ca", "crbuff", "cr"}

(* A dirty line never loses its owner: an answer passes dirty exactly when  *)
(* some cache gave a dirty line away for it (ccu.scala, SELECT).            *)
DirtyPassedOn ==
  fsm12 = "rsp" => ("dirty" \in rsp <=> \E p \in Sources : "dirty" \in cr3[p])

(* FSM_1 and FSM_3 never take each other's words off the queue, although    *)
(* write beats look like reads to FSM_3.                                    *)
QueueFramed ==
  LET head(kinds) == queue # <<>> /\ queue[1].tran \in kinds
  IN /\ fsm3 \in {"ar", "buff1", "deq"} => head(Reads)
     /\ fsm1 \in {"aw", "deq1"} => head({"WriteBack"})
     /\ fsm1 \in {"wd", "deq2"} => head({"beat"})
     /\ fsm1 = "idle" => ~head({"beat"})

(* Three stages, two readers of one queue and L2's in-order answers stay in *)
(* step: each answer meets the request it belongs to, and no state machine  *)
(* takes a word that is meant for another.                                  *)
StagesExact == TypeOK /\ L2Exact /\ QueueFramed

(* A line is neither snooped while it is on its way to a cache nor stripped *)
(* of its dirty owner when several caches answer.                           *)
CoherentDelivery == NoSnoopDuringFill /\ DirtyPassedOn

(* The stages wait for each other (hold, sync) but never all at once: every *)
(* read that FSM_3 takes moves on to the snoop stage, and every write-back  *)
(* is acknowledged.                                                         *)
NothingBlocks ==
  /\ fsm3 # "idle" ~> fsm3 = "idle"
  /\ \A p \in Ports : p \in Writing ~> p \notin Writing
=============================================================================
