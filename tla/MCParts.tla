------------------------------ MODULE MCParts ------------------------------
(***************************************************************************)
(* The block ring, the slab allocator, the hash table and the TCP proxy    *)
(* share nothing, so one run checks all four: part says which of them the  *)
(* behaviour is about, and the others stay as they began.                  *)
(***************************************************************************)
EXTENDS RingBlocks, MemSlab, HashDict, Proxy, TLC

CONSTANTS s64, s2k, k1, k2, k3, k4

ChunksOf == (s64 :> 3) @@ (s2k :> 2)
BitmapOf == (s64 :> 1) @@ (s2k :> 0)
HashOf == (k1 :> 0) @@ (k2 :> 4) @@ (k3 :> 5) @@ (k4 :> 3)

VARIABLE part

vars == <<part, ringVars, slabVars, dictVars, proxyVars>>

Init ==
    /\ part \in {"ring", "slab", "dict", "proxy"}
    /\ RingInit /\ SlabInit /\ DictInit /\ ProxyInit

Ring(A) == part = "ring" /\ A /\ UNCHANGED <<part, slabVars, dictVars, proxyVars>>
Slab(A) == part = "slab" /\ A /\ UNCHANGED <<part, ringVars, dictVars, proxyVars>>
Dict(A) == part = "dict" /\ A /\ UNCHANGED <<part, ringVars, slabVars, proxyVars>>
Pairs(A) == part = "proxy" /\ A /\ UNCHANGED <<part, ringVars, slabVars, dictVars>>

Next == Ring(RingNext) \/ Slab(SlabNext) \/ Dict(DictNext) \/ Pairs(ProxyNext)

\* The loop of the proxy calls back what ends.
Spec ==
    /\ Init /\ [][Next]_vars
    /\ WF_vars(Pairs(PairWorks))
=============================================================================
