---------------------------- MODULE MCHumanReview ----------------------------
(* One verdict and one finding, each reviewed up to twice; two reviewer      *)
(* names, one of two principals (names are not unique) and one that only an  *)
(* unauthenticated caller can give; the tool, run repeatedly.                *)
EXTENDS HumanReview, TLC

CONSTANTS v1, f1, r1, r2, p1, p2, b1

MCNameOf == (p1 :> r1) @@ (p2 :> r1)
=============================================================================
