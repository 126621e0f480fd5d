---------------------------- MODULE MCPIDNamespace ----------------------------
(* Three tasks, two thread groups, three namespaces and two TIDs per        *)
(* namespace: enough for a clone into an existing group, a grandchild       *)
(* namespace (a parent chain of three), TID reuse after reaping,            *)
(* wrap-around and exhaustion.                                              *)
EXTENDS PIDNamespace

CONSTANTS t1, t2, t3, g1, g2, n0, n1, n2

MCTasks == {t1, t2, t3}
MCTGs == {g1, g2}
MCNSs == {n0, n1, n2}
MCMaxTID == 2
=============================================================================
