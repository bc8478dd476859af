----------------------------- MODULE MCBackend -----------------------------
(* The back end of one hart on small queues.  What a ROB slot outside the    *)
(* window holds is never read, so states that differ only there are one.     *)
EXTENDS Backend

LiveView == <<readReg, writeReg, fullReg, emptyReg,
              [s \in {t \in Slots : Live(t)} |-> rob[s]], decVars, pipeVars>>
=============================================================================
