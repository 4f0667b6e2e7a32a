-------------------------------- MODULE Fifo --------------------------------
(***************************************************************************)
(* What every queue, link and stream of this code promises whoever uses    *)
(* it: what is put in comes out once, whole, and in the order it was put.  *)
(* Nothing is said of when.  Kcp, Tls, RingBlocks and LoopTask are shown   *)
(* to implement it, each under a mapping that gives put and got.           *)
(***************************************************************************)
EXTENDS Naturals, Sequences

CONSTANT Item       \* what can be put in

VARIABLES put,      \* all that was put in so far, in order
          got       \* all that came out so far, in order

Init == put = <<>> /\ got = <<>>

Put(x) == put' = Append(put, x) /\ UNCHANGED got

\* The oldest item that has not come out yet does.
Get ==
    /\ Len(got) < Len(put)
    /\ got' = Append(got, put[Len(got) + 1])
    /\ UNCHANGED put

Next == Get \/ \E x \in Item : Put(x)

Spec == Init /\ [][Next]_<<put, got>>
=============================================================================
