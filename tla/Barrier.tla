------------------------------ MODULE Barrier ------------------------------
(***************************************************************************)
(* barrier() of workloads/demos/common/util.h: the sense-reversing barrier *)
(* that separates the phases of every multi-threaded demo.  A step is one  *)
(* access to memory that other harts see.  Stores of one hart reach memory *)
(* in program order, as the data cache performs them.                      *)
(***************************************************************************)
EXTENDS Host

VARIABLES
  sense, count,    \* the two shared words
  threadsense,     \* thread-local
  stage              \* where each hart is: "out" of the barrier, or at which
                   \* of its statements

barrierVars == <<sense, count, threadsense, stage>>

BarrierInit ==
  /\ sense = 0 /\ count = 0
  /\ threadsense = [h \in Harts |-> 0]
  /\ stage = [h \in Harts |-> "out"]

(* Faulty form of Arrive: compares the count after the addition. *)
ArriveEarly(h) ==
  /\ stage[h] = "out"
  /\ threadsense' = [threadsense EXCEPT ![h] = 1 - @]
  /\ count' = count + 1
  /\ stage' = [stage EXCEPT ![h] = IF count + 1 = NUM_HARTS - 1 THEN "reset" ELSE "spin"]
  /\ UNCHANGED sense

(* threadsense = !threadsense, and the amoadd: the hart that finds          *)
(* ncores - 1 is the last.                                                   *)
Arrive(h) ==
  /\ stage[h] = "out"
  /\ threadsense' = [threadsense EXCEPT ![h] = 1 - @]
  /\ count' = count + 1
  /\ stage' = [stage EXCEPT ![h] = IF count = NUM_HARTS - 1 THEN "reset" ELSE "spin"]
  /\ UNCHANGED sense

(* Faulty form of ResetCount: the counter is not cleared. *)
ResetForgotten(h) ==
  /\ stage[h] = "reset"
  /\ stage' = [stage EXCEPT ![h] = "release"]
  /\ UNCHANGED <<sense, count, threadsense>>

(* count = 0. *)
ResetCount(h) ==
  /\ stage[h] = "reset"
  /\ count' = 0
  /\ stage' = [stage EXCEPT ![h] = "release"]
  /\ UNCHANGED <<sense, threadsense>>

(* sense = threadsense. *)
Release(h) ==
  /\ stage[h] = "release"
  /\ sense' = threadsense[h]
  /\ stage' = [stage EXCEPT ![h] = "out"]
  /\ UNCHANGED <<count, threadsense>>

(* The load of `sense` that ends the spin. *)
Pass(h) ==
  /\ stage[h] = "spin"
  /\ sense = threadsense[h]
  /\ stage' = [stage EXCEPT ![h] = "out"]
  /\ UNCHANGED <<sense, count, threadsense>>

InBarrier(h) == ResetCount(h) \/ Release(h) \/ Pass(h)

BarrierNext == \E h \in Harts : Arrive(h) \/ InBarrier(h)

BarrierSpec == BarrierInit /\ [][BarrierNext]_barrierVars

-----------------------------------------------------------------------------
(* Properties.                                                               *)

(* The harts that the current round still holds back. *)
Held == {h \in Harts : threadsense[h] # sense}

(* The shared words always describe the current round: the counter is the    *)
(* number of harts that have arrived in it, except between the last hart's   *)
(* two stores; the last hart finds everybody else spinning; and no round is  *)
(* full with nobody left to open it.                                         *)
RoundExact ==
  /\ \A h \in Harts : stage[h] = "out" => h \notin Held
  /\ \A h \in Harts : stage[h] \in {"reset", "release"} =>
       /\ Held = Harts
       /\ \A g \in Harts \ {h} : stage[g] = "spin"
       /\ count = IF stage[h] = "release" THEN 0 ELSE NUM_HARTS
  /\ (\A h \in Harts : stage[h] \in {"out", "spin"}) =>
       count = Cardinality(Held) /\ Held # Harts

(* The barrier keeps what Rendezvous promises, over and over: nobody leaves  *)
(* barrier() before everybody has entered it, also when a fast hart is in    *)
(* the next call while a slow one has not seen the release of this one.      *)
Meeting == INSTANCE Rendezvous WITH
  Parties <- Harts,
  waiting <- Held,
  leaving <- {h \in Harts : stage[h] = "spin" /\ threadsense[h] = sense}

MeetingSpec == Meeting!Spec
=============================================================================
