--------------------------- MODULE MCPopulationRun ---------------------------
(* Two runs with keys of their own, one of which is given its window without *)
(* an offset; one closed window, two attributes.                             *)
EXTENDS FindingVerifier, TLC

CONSTANTS r1, r2, e1, a1, a2, v1, k1, k2

MCSpellingOf == (r1 :> {"UTC"}) @@ (r2 :> {"naive"})
MCKeyOf == (r1 :> k1) @@ (r2 :> k2)

Symm == Permutations(Attribute)
=============================================================================
