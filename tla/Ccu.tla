-------------------------------- MODULE Ccu --------------------------------
(***************************************************************************)
(* The cache coherency unit of Interconnect/ccu.scala: twelve state        *)
(* machines that take requests from one queue, read or write L2, snoop the *)
(* other ports and answer.  Reads pass three stages (pbuf1, pbuf2, pbuf3)  *)
(* that overlap: while FSM_12 answers one request, FSM_4 to FSM_11 may     *)
(* snoop for the next and FSM_3 fetch a third.                             *)
(*                                                                         *)
(* A cycle's input wires are the fields of `in`:                           *)
(*   deq                        head of the queue, as a set                *)
(*   arready, awready, wready   L2 accepts                                 *)
(*   rvalid, rlast, bid         L2 answers (bid: a set, empty for none)    *)
(*   ac, cr, cd, cdlast, r, b   ports with ACREADY, CRVALID, CDVALID,      *)
(*                              CDLAST, RREADY and BREADY up               *)
(*   crresp                     per port                                   *)
(* Memory barriers are left out: every port ties ARBAR and AWBAR to zero.  *)
(***************************************************************************)
EXTENDS BusItems

CONSTANT NoLine    \* address zero, the reset value, which is no memory line

ASSUME NoLineAssumption == NoLine \notin Lines

VARIABLES fsm1, fsm2, fsm3, fsm12,
          bport,                  \* the port of FSM_2's states B0 to B7
          snoop,                  \* FSM_4 to FSM_11, by port
          write_back,
          pbuf1, pbuf2, pbuf3,    \* requests in the three stages
          cr2, cr3,               \* crpbuf_2 and crpbuf_3, by port
          select,                 \* select_buff: a port as a set, empty for L2
          last, rsp               \* last_buff, rsp_buff

ccuVars == <<fsm1, fsm2, bport, fsm3, fsm12, snoop, write_back, pbuf1, pbuf2, pbuf3,
             cr2, cr3, select, last, rsp>>

Reset == [tran |-> "ReadNoSnoop", port |-> 0, line |-> NoLine]

(* CRRESP: DataTransfer, PassDirty, IsShared. *)
Flags == {"data", "dirty", "shared"}

First(in, kinds) == \E i \in in.deq : i.tran \in kinds
All(s) == \A p \in Ports : snoop[p] = s
-----------------------------------------------------------------------------
(* Faulty: FSM_1 does not wait for FSM_2 to take up the response. *)
Fsm1NoSync(in) ==
  /\ fsm1' = CASE fsm1 = "idle" /\ First(in, {"WriteBack"}) -> "aw"
               [] fsm1 = "aw" /\ in.awready -> "deq1"
               [] fsm1 = "deq1" -> "wait"
               [] fsm1 = "wait" /\ in.deq # {} -> "wd"
               [] fsm1 = "wd" /\ in.wready -> "deq2"
               [] fsm1 = "deq2" -> IF \E i \in in.deq : i.tran = "beat" /\ i.last
                                   THEN "sync" ELSE "wait"
               [] fsm1 = "sync" -> "idle"
               [] OTHER -> fsm1
  /\ write_back' = CASE fsm1 = "idle" /\ First(in, {"WriteBack"}) -> TRUE
                     [] fsm1 = "sync" -> FALSE
                     [] OTHER -> write_back

(* FSM_1 drains a write-back: address, then beat after beat, to L2. *)
Fsm1(in) ==
  /\ fsm1' = CASE fsm1 = "idle" /\ First(in, {"WriteBack"}) -> "aw"
               [] fsm1 = "aw" /\ in.awready -> "deq1"
               [] fsm1 = "deq1" -> "wait"
               [] fsm1 = "wait" /\ in.deq # {} -> "wd"
               [] fsm1 = "wd" /\ in.wready -> "deq2"
               [] fsm1 = "deq2" -> IF \E i \in in.deq : i.tran = "beat" /\ i.last
                                   THEN "sync" ELSE "wait"
               [] fsm1 = "sync" /\ fsm2 = "idle" -> "idle"
               [] OTHER -> fsm1
  /\ write_back' = CASE fsm1 = "idle" /\ First(in, {"WriteBack"}) -> TRUE
                     [] fsm1 = "sync" /\ fsm2 = "idle" -> FALSE
                     [] OTHER -> write_back

(* FSM_2 takes L2's write response and passes it to the port it names. *)
Fsm2(in) ==
  /\ fsm2' = CASE fsm2 = "idle" /\ fsm1 = "sync" -> "rsp"
               [] fsm2 = "rsp" /\ in.bid # {} -> "b"
               [] fsm2 = "b" /\ bport \in in.b -> "idle"
               [] OTHER -> fsm2
  /\ bport' = IF fsm2 = "rsp" /\ in.bid # {} THEN CHOOSE p \in in.bid : TRUE ELSE bport

(* FSM_3 sends a read to L2, takes it off the queue and, when no snoop is   *)
(* under way, hands it to the snoop stage.                                  *)
Fsm3(in) ==
  /\ fsm3' = CASE fsm3 = "idle" /\ ~write_back /\ First(in, Reads \ {"CleanUnique"}) -> "ar"
               [] fsm3 = "idle" /\ ~write_back /\ First(in, {"CleanUnique"}) -> "buff1"
               [] fsm3 = "ar" /\ in.arready -> "buff1"
               [] fsm3 = "buff1" -> "deq"
               [] fsm3 = "deq" -> "sync"
               [] fsm3 = "sync" /\ All("idle") -> "buff2"
               [] fsm3 = "buff2" -> "snoop"
               [] fsm3 = "snoop" -> "idle"
               [] OTHER -> fsm3
  /\ pbuf1' = IF fsm3 = "buff1" THEN CHOOSE i \in in.deq : TRUE ELSE pbuf1

deqReady == fsm1 \in {"deq1", "deq2"} \/ fsm3 = "deq"
-----------------------------------------------------------------------------
(* Faulty: no wait for the answer to the line's previous request. *)
StartSameLine(p) ==
  IF pbuf2.tran = "ReadNoSnoop" \/ pbuf2.port = p THEN "finish" ELSE "ca"

(* Where the snoop of a port starts: a request that is not snooped and its  *)
(* own requester are skipped; one for the line of the last answered request *)
(* holds until that answer is complete.                                     *)
Start(p) == IF pbuf2.tran = "ReadNoSnoop" THEN "finish"
            ELSE IF pbuf3.line = pbuf2.line THEN "hold"
            ELSE IF pbuf2.port = p THEN "finish" ELSE "ca"

(* FSM_4 to FSM_11: present the snoop, take the response, wait for the      *)
(* others and for FSM_12, hand over.                                        *)
Snoop(p, in) ==
  CASE snoop[p] = "idle" /\ fsm3 = "snoop" -> Start(p)
    [] snoop[p] = "hold" /\ fsm12 = "idle" -> IF pbuf2.port = p THEN "finish" ELSE "ca"
    [] snoop[p] = "ca" /\ p \in in.ac -> "crbuff"
    [] snoop[p] = "crbuff" /\ p \in in.cr -> "cr"
    [] snoop[p] = "cr" -> "finish"
    [] snoop[p] = "finish" /\ All("finish") -> "sync"
    [] snoop[p] = "sync" /\ fsm12 = "idle" -> "buf"
    [] snoop[p] = "buf" -> "rsp"
    [] snoop[p] = "rsp" -> "idle"
    [] OTHER -> snoop[p]

Responses(p, in) == CASE snoop[p] = "idle" -> {}
                      [] snoop[p] = "crbuff" -> in.crresp[p]
                      [] OTHER -> cr2[p]

SnoopStage(in) ==
  /\ snoop' = [p \in Ports |-> Snoop(p, in)]
  /\ cr2' = [p \in Ports |-> Responses(p, in)]
  /\ pbuf2' = IF fsm3 = "buff2" THEN pbuf1 ELSE pbuf2
  /\ cr3' = [p \in Ports |-> IF snoop[p] = "buf" THEN cr2[p] ELSE cr3[p]]
  /\ pbuf3' = IF snoop[0] = "buf" THEN pbuf2 ELSE pbuf3
-----------------------------------------------------------------------------
Sources == {p \in Ports : "data" \in cr3[p]}
Lowest(S) == CHOOSE p \in S : \A q \in S : p <= q

(* SELECT: a port that passes a dirty line before one with a clean copy. *)
Select == LET owners == {p \in Sources : "dirty" \in cr3[p]}
          IN IF owners # {} THEN {Lowest(owners)}
             ELSE IF Sources # {} THEN {Lowest(Sources)}
             ELSE {}

(* Faulty: L2's copy is not awaited when a cache has the line. *)
CapturesEarly(in) == /\ fsm12 = "capture"
                     /\ Sources \subseteq in.cd
                     /\ in.rvalid \/ pbuf3.tran = "CleanUnique" \/ Sources # {}

(* CAPTURE takes one beat from every source at once. *)
captures(in) == /\ fsm12 = "capture"
                /\ Sources \subseteq in.cd
                /\ in.rvalid \/ pbuf3.tran = "CleanUnique"

(* RRESP: a line from L2 for a ReadShared is marked shared. *)
Rresp == IF select # {} THEN UNION {cr3[p] \ {"data"} : p \in select}
         ELSE IF pbuf3.tran = "ReadShared" THEN {"shared"} ELSE {}

(* FSM_12 answers the requester, beat by beat or, when a CleanUnique found  *)
(* no data, with a single empty beat.                                       *)
Fsm12(in) ==
  /\ fsm12' =
       CASE fsm12 = "idle" /\ snoop[0] = "rsp" ->
              IF pbuf3.tran = "CleanUnique" /\ Sources = {} THEN "rspbar" ELSE "select"
         [] fsm12 = "select" -> "capture"
         [] captures(in) -> "rsp"
         [] fsm12 = "rsp" /\ pbuf3.port \in in.r -> IF last THEN "done" ELSE "capture"
         [] fsm12 = "rspbar" /\ pbuf3.port \in in.r -> "done"
         [] fsm12 = "done" -> "idle"
         [] OTHER -> fsm12
  /\ select' = IF fsm12 = "select" THEN Select ELSE select
  /\ rsp' = IF captures(in) THEN Rresp ELSE rsp
  /\ last' = CASE fsm12 = "idle" /\ snoop[0] = "rsp" /\ pbuf3.tran = "CleanUnique"
                    /\ Sources = {} -> TRUE
               [] captures(in) -> IF select = {} THEN in.rlast ELSE select \subseteq in.cdlast
               [] fsm12 = "done" -> FALSE
               [] OTHER -> last

CcuInit == /\ fsm1 = "idle" /\ fsm2 = "idle" /\ bport = 0 /\ fsm3 = "idle" /\ fsm12 = "idle"
           /\ snoop = [p \in Ports |-> "idle"]
           /\ write_back = FALSE
           /\ pbuf1 = Reset /\ pbuf2 = Reset /\ pbuf3 = Reset
           /\ cr2 = [p \in Ports |-> {}] /\ cr3 = [p \in Ports |-> {}]
           /\ select = {} /\ last = FALSE /\ rsp = {}

CcuCycle(in) == Fsm1(in) /\ Fsm2(in) /\ Fsm3(in) /\ SnoopStage(in) /\ Fsm12(in)

(* The output wires that depend on the state alone. *)
ARVALID == fsm3 = "ar"
AWVALID == fsm1 = "aw"
WVALID == fsm1 = "wd"
BREADY == fsm2 = "rsp"
ACVALID(p) == snoop[p] = "ca"
CRREADY(p) == snoop[p] = "cr"
RVALID(p) == pbuf3.port = p /\ fsm12 \in {"rsp", "rspbar"}
BVALID(p) == fsm2 = "b" /\ bport = p

CcuTypeOK ==
  /\ fsm1 \in {"idle", "aw", "deq1", "wait", "wd", "deq2", "sync"}
  /\ fsm2 \in {"idle", "rsp", "b"} /\ bport \in Ports
  /\ fsm3 \in {"idle", "ar", "buff1", "deq", "sync", "buff2", "snoop"}
  /\ fsm12 \in {"idle", "select", "capture", "rsp", "rspbar", "done"}
  /\ snoop \in [Ports -> {"idle", "ca", "crbuff", "cr", "finish", "sync", "buf", "rsp", "hold"}]
  /\ write_back \in BOOLEAN /\ last \in BOOLEAN
  /\ {pbuf1, pbuf2, pbuf3} \subseteq Request \cup {Reset}
  /\ cr2 \in [Ports -> SUBSET Flags] /\ cr3 \in [Ports -> SUBSET Flags]
  /\ select \in {{}} \cup {{p} : p \in Ports} /\ rsp \in SUBSET Flags
=============================================================================
