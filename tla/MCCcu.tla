------------------------------- MODULE MCCcu -------------------------------
(***************************************************************************)
(* CcuSystem for TLC.  Lines are only compared for equality.  The view     *)
(* leaves out buffers that are written before they are next read.          *)
(***************************************************************************)
EXTENDS CcuSystem, TLC

(* One port loads, one upgrades, one writes back; all are snooped. *)
Roles == {<<"ReadShared", 0>>, <<"CleanUnique", 1>>, <<"WriteBack", 2>>}

(* One port loads and upgrades, both write back. *)
Writers == {<<"ReadShared", 0>>, <<"CleanUnique", 0>>, <<"WriteBack", 0>>, <<"WriteBack", 1>>}

LineSymmetry == Permutations(Lines)

LiveView ==
  <<fsm1, fsm2, fsm3, fsm12, snoop, write_back, stage1, stage2, stage3, pbuf3.line,
    IF fsm2 = "b" THEN bport ELSE 0,
    IF stage2 = <<>> THEN {} ELSE cr2, IF stage3 = <<>> THEN {} ELSE cr3,
    IF fsm12 \in {"capture", "rsp"} THEN select ELSE {}, last,
    IF fsm12 = "rsp" THEN rsp ELSE {}, queue, toCome, l2, l2aw, beat>>
=============================================================================
