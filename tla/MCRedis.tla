------------------------------- MODULE MCRedis -------------------------------
(* A cluster of two servers, the first with two connections.               *)
EXTENDS Redis, TLC

CONSTANTS a, b, a1, a2, b1

PoolsOf == (a1 :> a) @@ (a2 :> a) @@ (b1 :> b)
NoGreeting == <<>>
Password == <<"auth">>
=============================================================================
