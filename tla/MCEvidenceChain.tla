--------------------------- MODULE MCEvidenceChain ---------------------------
(* Instances of EvidenceChain small enough for TLC.                          *)
EXTENDS EvidenceChain, TLC

CONSTANTS w1, w2, a1, a2, e1, e2, s1, k1, k2

MCStatus == {"ALLOW", "ESCALATE_FOR_REVIEW"}
MCSystemOf == [e \in Event |-> s1]

MCOneKey == [w \in Worker |-> k1]
=============================================================================
