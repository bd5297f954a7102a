-------------------------- MODULE PluginLifecycle ---------------------------
(***************************************************************************)
(* What the registry of one plugin comes to for those who read it: each    *)
(* version has a stage, one transaction changes the stage of one version,  *)
(* and only the version that takes PRODUCTION over changes another one's   *)
(* with it, in the same step.  Ingestion lets its registrations change by  *)
(* these steps, and splits Seed into several of them.                      *)
(***************************************************************************)
CONSTANT Version

VARIABLE stage

Init == stage = [v \in Version |-> "absent"]

\* The version replaces the one that governs, which stays observable.
InProduction(v) ==
    [u \in Version |-> IF u = v THEN "PRODUCTION"
                       ELSE IF stage[u] = "PRODUCTION" THEN "SHADOW" ELSE stage[u]]

Register(v) == stage[v] = "absent" /\ stage' = [stage EXCEPT ![v] = "DRAFT"]

Observe(v) == stage[v] = "DRAFT" /\ stage' = [stage EXCEPT ![v] = "SHADOW"]

TakeOver(v) == stage[v] = "SHADOW" /\ stage' = InProduction(v)

\* The seed tool shows all of its promotions at once.
Seed(v) == stage[v] \in {"absent", "DRAFT"} /\ stage' = InProduction(v)

\* A promotion to SHADOW is committed after another one went further.
StepBack(v) == stage[v] = "PRODUCTION" /\ stage' = [stage EXCEPT ![v] = "SHADOW"]

Next ==
    \E v \in Version :
        Register(v) \/ Observe(v) \/ TakeOver(v) \/ Seed(v) \/ StepBack(v)

Spec == Init /\ [][Next]_stage
=============================================================================
