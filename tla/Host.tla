-------------------------------- MODULE Host --------------------------------
(***************************************************************************)
(* What the C and C++ programs of the repository share: the command line   *)
(* that starts one of them.  A command is a record: `tool` names the       *)
(* executable (or the guest program), the other fields are its arguments   *)
(* and the image it loads.  The modules of the programs extend this one,   *)
(* and each takes steps only when its own tool was started.                *)
(***************************************************************************)
EXTENDS Integers, FiniteSets, Sequences

CONSTANTS NUM_HARTS,    \* emulator.h: 4
          Commands      \* the command lines of this instance

ASSUME HostAssumption ==
  /\ NUM_HARTS \in Nat \ {0}
  /\ \A c \in Commands : c.tool \in STRING

VARIABLE cmd            \* the command line, fixed when the process starts

Harts == 0 .. NUM_HARTS - 1
=============================================================================
