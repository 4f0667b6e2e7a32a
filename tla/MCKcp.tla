------------------------------- MODULE MCKcp -------------------------------
(* A conversation in which one end sends and the other reads.              *)
EXTENDS Kcp

MessagesOneWay == [e \in End |-> IF e = "a" THEN <<3, 1, 2>> ELSE <<>>]
NetOneWay == [e \in End |-> IF e = "a" THEN 1 ELSE 2]
=============================================================================
