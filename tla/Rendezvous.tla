----------------------------- MODULE Rendezvous -----------------------------
(***************************************************************************)
(* What a barrier promises, and nothing of how: a hart may leave only      *)
(* after every hart has arrived, and a hart that has left may arrive again *)
(* while the others are still on their way out.                            *)
(***************************************************************************)
CONSTANT Parties

VARIABLES waiting,   \* the harts that have arrived and may not leave yet
          leaving    \* the harts that may leave and have not done so

Init == waiting = {} /\ leaving = {}

Arrive(h) ==
  /\ h \notin waiting \cup leaving
  /\ waiting' = waiting \cup {h}
  /\ UNCHANGED leaving

(* The last hart opens the barrier and is the first to be out of it. *)
Open(h) ==
  /\ waiting = Parties
  /\ waiting' = {}
  /\ leaving' = Parties \ {h}

Leave(h) ==
  /\ h \in leaving
  /\ leaving' = leaving \ {h}
  /\ UNCHANGED waiting

Next == \E h \in Parties : Arrive(h) \/ Open(h) \/ Leave(h)

Spec == Init /\ [][Next]_<<waiting, leaving>>
=============================================================================
