----------------------------- MODULE BusArbiter -----------------------------
(***************************************************************************)
(* The way of a request into the coherency unit: the address and write     *)
(* channels of each cache (Dcache/ACEUnit.scala), the round-robin arbiter  *)
(* (Interconnect/arbitter.scala) and the ring buffer behind it             *)
(* (Interconnect/ringbuffer.scala).                                        *)
(*                                                                         *)
(* A cycle's inputs are the fields of `in`: the reads that reach an idle   *)
(* read channel and the evictions that reach an idle write channel, as     *)
(* sets of items; b, the ports whose write is acknowledged; deq, whether   *)
(* the unit takes a word.                                                  *)
(***************************************************************************)
EXTENDS BusItems

CONSTANTS DPorts,      \* the ports of data caches: only they write
          Beats,       \* beats of a line, 8
          QueueDepth   \* ring buffer entries, 32

ASSUME ArbiterAssumption ==
  DPorts \subseteq Ports /\ {Beats, QueueDepth} \subseteq Nat \ {0}

VARIABLES rd,                 \* readACERequestState: the request, or none
          wr, wrLine, sent,   \* writeACEState, writeBuffer, writeCounter
          port, phase, wlast, \* stateReg; wlast of the port that has the turn
          mem, readReg, writeReg, fullReg, emptyReg

portVars == <<rd, wr, wrLine, sent>>
ringVars == <<mem, readReg, writeReg, fullReg, emptyReg>>
vars == <<portVars, port, phase, wlast, ringVars>>

ARVALID(p) == rd[p] # {}
AWVALID(p) == wr[p] = "request"
WVALID(p) == wr[p] = "data"
WLAST(p) == wr[p] = "data" /\ sent[p] = Beats - 1
-----------------------------------------------------------------------------
(* The arbiter grants by raising READY; the word enters the queue in the    *)
(* same cycle.                                                              *)
grantsAR(p) == port = p /\ phase = "r_enq" /\ ARVALID(p)
grantsAW(p) == port = p /\ phase = "wa_enq" /\ AWVALID(p)
grantsW(p) == port = p /\ phase = "wd_enq"

enqBits(p) == IF grantsAR(p) THEN rd[p]
              ELSE IF grantsAW(p) THEN {[tran |-> "WriteBack", port |-> p, line |-> wrLine[p]]}
              ELSE IF grantsW(p) THEN {[tran |-> "beat", last |-> WLAST(p)]}
              ELSE {}

(* The ring buffer's handshakes. *)
deqFires(in) == in.deq /\ ~emptyReg
enqReady(in) == ~fullReg \/ deqFires(in)
enqFires(in) == enqBits(port) # {} /\ enqReady(in)

(* Faulty: the turn returns to the first port. *)
FirstPort == 0

nextPort == (port + 1) % Cardinality(Ports)

(* Faulty: the next port is polled between the beats of a line. *)
ArbiterYields(in) ==
  /\ phase' = CASE phase = "poll" /\ ARVALID(port) -> "r"
                [] phase = "poll" /\ ~ARVALID(port) /\ AWVALID(port) -> "wa"
                [] phase = "poll" /\ ~ARVALID(port) /\ WVALID(port) -> "wd"
                [] phase = "r" /\ enqReady(in) -> "r_enq"
                [] phase = "wa" /\ enqReady(in) -> "wa_enq"
                [] phase = "wd" /\ enqReady(in) /\ WVALID(port) -> "wd_enq"
                [] phase \in {"r_enq", "wa_enq", "wd_enq"} -> "poll"
                [] OTHER -> phase
  /\ port' = IF phase \in {"r_enq", "wa_enq", "wd_enq"}
                \/ (phase = "poll" /\ ~ARVALID(port) /\ ~AWVALID(port) /\ ~WVALID(port))
             THEN nextPort ELSE port
  /\ wlast' = wlast

(* The arbiter: a port with nothing to send is passed over, reads go before *)
(* writes, and a write keeps the turn until its last beat.  The queue's     *)
(* room is looked at one cycle before the word is enqueued.                 *)
Arbiter(in) ==
  /\ phase' = CASE phase = "poll" /\ ARVALID(port) -> "r"
                [] phase = "poll" /\ ~ARVALID(port) /\ AWVALID(port) -> "wa"
                [] phase = "r" /\ enqReady(in) -> "r_enq"
                [] phase = "wa" /\ enqReady(in) -> "wa_enq"
                [] phase = "wa_enq" -> "wd"
                [] phase = "wd" /\ enqReady(in) /\ WVALID(port) -> "wd_enq"
                [] phase = "wd_enq" -> IF wlast THEN "poll" ELSE "wd"
                [] phase = "r_enq" -> "poll"
                [] OTHER -> phase
  /\ port' = IF \/ phase = "poll" /\ ~ARVALID(port) /\ ~AWVALID(port)
                \/ phase = "r_enq" \/ (phase = "wd_enq" /\ wlast)
             THEN nextPort ELSE port
  /\ wlast' = IF phase = "wd" THEN WLAST(port) ELSE wlast
-----------------------------------------------------------------------------

NextPtr(i) == IF i = QueueDepth - 1 THEN 0 ELSE i + 1

(* Faulty: full is noticed one word late. *)
RingLate(in) ==
  /\ mem' = IF enqFires(in) THEN [mem EXCEPT ![writeReg] = enqBits(port)] ELSE mem
  /\ writeReg' = IF enqFires(in) THEN NextPtr(writeReg) ELSE writeReg
  /\ readReg' = IF deqFires(in) THEN NextPtr(readReg) ELSE readReg
  /\ fullReg' = IF enqFires(in) /\ ~deqFires(in) THEN writeReg = readReg /\ ~emptyReg
                ELSE IF deqFires(in) /\ ~enqFires(in) THEN FALSE ELSE fullReg
  /\ emptyReg' = IF enqFires(in) /\ ~deqFires(in) THEN FALSE
                 ELSE IF deqFires(in) /\ ~enqFires(in) THEN NextPtr(readReg) = writeReg
                 ELSE emptyReg

(* The ring buffer; an enqueue and a dequeue together leave the flags. *)
Ring(in) ==
  /\ mem' = IF enqFires(in) THEN [mem EXCEPT ![writeReg] = enqBits(port)] ELSE mem
  /\ writeReg' = IF enqFires(in) THEN NextPtr(writeReg) ELSE writeReg
  /\ readReg' = IF deqFires(in) THEN NextPtr(readReg) ELSE readReg
  /\ fullReg' = IF enqFires(in) /\ ~deqFires(in) THEN NextPtr(writeReg) = readReg
                ELSE IF deqFires(in) /\ ~enqFires(in) THEN FALSE ELSE fullReg
  /\ emptyReg' = IF enqFires(in) /\ ~deqFires(in) THEN FALSE
                 ELSE IF deqFires(in) /\ ~enqFires(in) THEN NextPtr(readReg) = writeReg
                 ELSE emptyReg
-----------------------------------------------------------------------------

(* A cache starts a read only while it writes nothing (isWriteACEBusyWire). *)
Read(p, in) == IF rd[p] = {}
               THEN {i \in in.reads : /\ i.port = p /\ wr[p] = "idle"
                                      /\ ~\E w \in in.writes : w.port = p}
               ELSE IF grantsAR(p) THEN {} ELSE rd[p]

(* The write channel: address, beats, response. *)
Write(p, in) == CASE wr[p] = "idle" /\ \E w \in in.writes : w.port = p -> "loaded"
                  [] wr[p] = "loaded" -> "request"
                  [] grantsAW(p) -> "data"
                  [] grantsW(p) /\ wr[p] = "data" /\ WLAST(p) -> "response"
                  [] wr[p] = "response" /\ p \in in.b -> "idle"
                  [] OTHER -> wr[p]

Channels(in) ==
  /\ rd' = [p \in Ports |-> Read(p, in)]
  /\ wr' = [p \in Ports |-> Write(p, in)]
  /\ wrLine' = [p \in Ports |-> IF wr[p] = "idle" /\ \E w \in in.writes : w.port = p
                                THEN (CHOOSE w \in in.writes : w.port = p).line
                                ELSE wrLine[p]]
  /\ sent' = [p \in Ports |-> CASE wr[p] \in {"idle", "loaded"} -> 0
                                [] grantsW(p) /\ wr[p] = "data" -> (sent[p] + 1) % Beats
                                [] OTHER -> sent[p]]

Init == /\ rd = [p \in Ports |-> {}]
        /\ wr = [p \in Ports |-> "idle"]
        /\ wrLine \in {[p \in Ports |-> l] : l \in Lines}
        /\ sent = [p \in Ports |-> 0]
        /\ port = 0 /\ phase = "poll" /\ wlast = FALSE
        /\ mem = [i \in 0 .. QueueDepth - 1 |-> {}]
        /\ readReg = 0 /\ writeReg = 0 /\ fullReg = FALSE /\ emptyReg = TRUE

Cycle(in) == Arbiter(in) /\ Ring(in) /\ Channels(in)

Contents == LET n == IF fullReg THEN QueueDepth ELSE (writeReg - readReg) % QueueDepth
            IN [i \in 1 .. n |-> CHOOSE w \in mem[(readReg + i - 1) % QueueDepth] : TRUE]

(* Requests may come at any time.  A write is not acknowledged while its    *)
(* address is still in the queue.                                           *)
OnePerPort(S) == {T \in SUBSET S : \A i, j \in T : i.port = j.port => i = j}

Inputs ==
  LET kind(p) == IF p \in DPorts THEN "ReadShared" ELSE "ReadNoSnoop"
      queued(p) == \E i \in DOMAIN Contents :
                     Contents[i].tran = "WriteBack" /\ Contents[i].port = p
  IN [reads : OnePerPort({i \in Request : rd[i.port] = {} /\ i.tran = kind(i.port)}),
      writes : OnePerPort({i \in WriteBacks : i.port \in DPorts /\ wr[i.port] = "idle"}),
      b : SUBSET {p \in DPorts : wr[p] = "response" /\ ~queued(p)},
      deq : BOOLEAN]

Next == \E in \in Inputs : Cycle(in)

Spec == Init /\ [][Next]_vars

(* The clock runs and the unit keeps taking words off the queue. *)
FairSpec == Spec /\ WF_vars(Next) /\ WF_vars(\E in \in Inputs : in.deq /\ ~emptyReg /\ Cycle(in))
-----------------------------------------------------------------------------
(* The words are well formed and the pointers inside the buffer. *)
TypeOK == /\ rd \in [Ports -> SUBSET Request] /\ \A p \in Ports : Cardinality(rd[p]) <= 1
          /\ wr \in [Ports -> {"idle", "loaded", "request", "data", "response"}]
          /\ wrLine \in [Ports -> Lines] /\ sent \in [Ports -> 0 .. Beats - 1]
          /\ port \in Ports /\ wlast \in BOOLEAN
          /\ phase \in {"poll", "r", "r_enq", "wa", "wa_enq", "wd", "wd_enq"}
          /\ {readReg, writeReg} \subseteq 0 .. QueueDepth - 1
          /\ {fullReg, emptyReg} \subseteq BOOLEAN
          /\ mem \in [0 .. QueueDepth - 1 -> SUBSET Item]

(* What the coherency unit relies on: whatever requests of whatever ports   *)
(* meet in the arbiter, the queue holds each write-back followed by exactly *)
(* its beats (arbitter.scala keeps the turn; the beats carry no port), and  *)
(* the ring buffer's pointers stay inside it.                               *)
Order == INSTANCE BusOrder WITH
           queue <- Contents,
           toCome <- IF phase \in {"wd", "wd_enq"} THEN Beats - sent[port] ELSE 0
ImplementsBusOrder == Order!OrderSpec /\ []TypeOK

(* The handshake by which port p sees a word accepted. *)
Accepted(p) == \/ rd[p] # {} /\ rd'[p] = {}
               \/ wr[p] = "request" /\ wr'[p] = "data"
               \/ wr[p] = "data" /\ (sent'[p] # sent[p] \/ wr'[p] = "response")

(* The queue after the unit may have taken its first word. *)
MayTake(q) == {q} \cup {Tail(v) : v \in {q} \ {<<>>}}

QueuesTheAccepted ==
  LET here == {p \in Ports : Accepted(p)}
  IN IF here = {} THEN Contents' \in MayTake(Contents)
     ELSE \E p \in here, w \in enqBits(port) :
            /\ here = {p}
            /\ w.tran # "beat" => w.port = p
            /\ Contents' \in {Append(q, w) : q \in MayTake(Contents)}

(* A word that a cache sees accepted is in the queue, once, behind all      *)
(* others, although room was checked a cycle earlier: the arbiter raises    *)
(* READY without looking at the ring buffer again.                          *)
AcceptedIsQueued == [][QueuesTheAccepted]_vars

(* Round robin serves everyone: a read is accepted although other ports     *)
(* write whole lines, and a write although its port's reads go first.       *)
EveryRequestAccepted ==
  /\ \A p \in Ports : rd[p] # {} ~> rd[p] = {}
  /\ \A p \in DPorts : wr[p] = "request" ~> wr[p] = "response"
=============================================================================
