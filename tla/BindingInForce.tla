--------------------------- MODULE BindingInForce ---------------------------
(***************************************************************************)
(* What the bindings of one policy come to for those who read them, the    *)
(* ingestion route and the batch runs: what the policy is bound with (a    *)
(* severity, or parameters), or that it is not bound.  It is never         *)
(* exchanged for another one: whoever changes it leaves a time in between  *)
(* when the policy does not govern.  Ingestion and PopulationRun let their *)
(* configuration change by these steps.                                    *)
(***************************************************************************)
CONSTANTS Setting, None

VARIABLE in_force

Init == in_force = None

\* A binding is created or activated: only while none is active.
Bind(s) == in_force = None /\ in_force' = s

\* The active binding is deactivated.
Unbind == in_force # None /\ in_force' = None

Next == (\E s \in Setting : Bind(s)) \/ Unbind

Spec == Init /\ [][Next]_in_force
=============================================================================
