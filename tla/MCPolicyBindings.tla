-------------------------- MODULE MCPolicyBindings --------------------------
(* Three bindings of one policy to one adapter.                              *)
EXTENDS PolicyBindings, TLC

CONSTANTS b1, b2, b3, q1, q2, d1, d2

Symm == Permutations(Binding) \cup Permutations(Request) \cup Permutations(Seeder)
=============================================================================
