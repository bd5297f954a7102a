----------------------------- MODULE MCIngestion -----------------------------
(* Policy p with two versions and q with one; or p alone, with a third       *)
(* version whose class this process does not have.                           *)
EXTENDS Ingestion

CONSTANTS p, q, v1, v2, v3

TwoFamilies == {<<p, v1>>, <<p, v2>>, <<q, v1>>}
OneFamily == {<<p, v1>>, <<p, v2>>, <<p, v3>>}
Undeployed == {<<p, v3>>}
DeployedOfFamily == OneFamily \ Undeployed
=============================================================================
