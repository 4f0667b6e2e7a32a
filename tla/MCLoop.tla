------------------------------- MODULE MCLoop -------------------------------
(* The loop with its command handle and handles of the other types.        *)
EXTENDS Loop, TLC

CONSTANTS cmd, con, acc, rcmd, r1, r2

Types == (cmd :> "link") @@ (con :> "connect") @@ (acc :> "accept")
TypesClient == (cmd :> "link") @@ (con :> "connect")
=============================================================================
