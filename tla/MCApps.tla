------------------------------- MODULE MCApps -------------------------------
(***************************************************************************)
(* The Redis client and the main process with its children share nothing,  *)
(* so one run checks both: part says which of them the behaviour is about, *)
(* and the other stays as it began.                                        *)
(***************************************************************************)
EXTENDS MCRedis, Processes

VARIABLE part

appsVars == <<part, redisVars, vars>>

AppsInit == part \in {"redis", "processes"} /\ RedisInit /\ Init

Client_(A) == part = "redis" /\ A /\ UNCHANGED <<part, vars>>
Main(A) == part = "processes" /\ A /\ UNCHANGED <<part, redisVars>>

AppsNext == Client_(RedisNext) \/ Main(Next)

\* The fairness of each is that of its own specification.
AppsSpec ==
    /\ AppsInit /\ [][AppsNext]_appsVars
    /\ Fairness
    /\ WF_appsVars(Main(MainStep))
    /\ WF_appsVars(Main(OnSignalChild)) /\ WF_appsVars(Main(OnSignalTerm))
    /\ \A p \in Pids : WF_appsVars(Main(ChildExits(p)))
=============================================================================
