------------------------------ MODULE BusItems ------------------------------
(***************************************************************************)
(* What travels from the caches to the coherency unit                      *)
(* (Interconnect/Interconnect.scala): the words of the request queue.      *)
(***************************************************************************)
EXTENDS Integers, Sequences, FiniteSets

CONSTANTS Ports,    \* 0 .. 7: the data and instruction cache of each hart
          Lines     \* line addresses

ASSUME PortsAssumption == IsFiniteSet(Ports) /\ Ports # {} /\ Ports = 0 .. Cardinality(Ports) - 1

Snooped == {"ReadShared", "ReadUnique", "CleanUnique"}
Reads == Snooped \cup {"ReadNoSnoop"}
Request == [tran : Reads, port : Ports, line : Lines]
WriteBacks == [tran : {"WriteBack"}, port : Ports, line : Lines]

(* The encoding of FIFO.io.enq.bits: an address with its port and kind, or  *)
(* a beat with its last bit and no port.                                    *)
Item == Request \cup WriteBacks \cup [tran : {"beat"}, last : BOOLEAN]
=============================================================================
