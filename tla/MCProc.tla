------------------------------- MODULE MCProc -------------------------------
(***************************************************************************)
(* An instance of ProcNodes for TLC: two parameters, and two tasks in two  *)
(* namespaces.                                                             *)
(***************************************************************************)
EXTENDS ProcNodes, TLC

CONSTANTS n1, n2, t1, t2, ns1, ns2

MCInitial == n1 :> 100 @@ n2 :> 200
MCNsOf    == t1 :> ns1 @@ t2 :> ns2
\* The shortest and the longest possible texts and one length between them.
MCstrlen  == [v \in Values |-> IF v < 10 THEN 2 ELSE IF v < 100 THEN 3 ELSE 12]
=============================================================================
