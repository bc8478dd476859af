------------------------------ MODULE BusOrder ------------------------------
(***************************************************************************)
(* What the coherency unit may rely on in its request queue: a bounded     *)
(* queue in which a write-back is followed by its beats, the last one      *)
(* marked, with nothing in between.                                        *)
(***************************************************************************)
EXTENDS BusItems

CONSTANTS Beats,       \* beats of a line, 8
          QueueDepth   \* ring buffer entries, 32

ASSUME BusAssumption == {Beats, QueueDepth} \subseteq Nat \ {0}

VARIABLES queue,
          toCome      \* beats that the write-back enqueued last still owes

(* What may be enqueued. *)
Arrivals == IF toCome > 0 THEN {[tran |-> "beat", last |-> toCome = 1]}
            ELSE Request \cup WriteBacks

Rest(takes) == IF takes THEN Tail(queue) ELSE queue

Idle(takes) == queue' = Rest(takes) /\ UNCHANGED toCome

Arrive(takes, i) ==
  /\ Len(Rest(takes)) < QueueDepth
  /\ queue' = Append(Rest(takes), i)
  /\ toCome' = CASE i.tran = "WriteBack" -> Beats
                 [] i.tran = "beat" -> toCome - 1
                 [] OTHER -> toCome

OrderInit == queue = <<>> /\ toCome = 0

OrderNext == \E takes \in {t \in BOOLEAN : t => queue # <<>>} :
               \/ Idle(takes)
               \/ \E i \in Arrivals : Arrive(takes, i)

OrderSpec == OrderInit /\ [][OrderNext]_<<queue, toCome>>
=============================================================================
