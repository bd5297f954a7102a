--------------------------- MODULE MCChainVerifier ---------------------------
(* One process at a time writes a longer chain, with one or two signing keys.*)
EXTENDS ChainVerifier

CONSTANTS w1, w2, e1, e2, e3, s1, k1, k2, f1, f2

MCSystemOf == [e \in Event |-> s1]
MCKeyOf == (w1 :> k1) @@ (w2 :> k2)

Symm == Permutations(Event)
=============================================================================
