------------------------------- MODULE MCTls -------------------------------
(* The accepting side writes two records, the connecting side one.        *)
EXTENDS Tls

ItemsOf == [e \in Side |-> IF e = "server" THEN 2 ELSE 1]
=============================================================================
