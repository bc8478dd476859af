----------------------------- MODULE MCRobFifo -----------------------------
(* RobFifo on a buffer of four slots. *)
EXTENDS RobFifo
=============================================================================
