----------------------------- MODULE MCProxyPool -----------------------------
(* Instances of ProxyPool for TLC.                                         *)
EXTENDS ProxyPool, TLC

MCRow(n) == [on |-> TRUE, fails |-> n, used |-> 0]

MCTables == {1 :> MCRow(0), 1 :> MCRow(Threshold)}
=============================================================================
