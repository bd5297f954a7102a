----------------------------- MODULE MCReporting -----------------------------
(* One event and one population finding over two units of time, and three    *)
(* beside the purge, which resolutions need to expire.                       *)
EXTENDS Reporting, TLC

CONSTANTS e1, f1

MCClockStops == [t \in Tool |-> IF t = "purge" THEN 3 ELSE 2]
MCRequested == {[start |-> 0, end |-> 2]}
MCRetention == ("shadow_findings" :> 0) @@ ("protected_attribute_resolutions" :> 1)
=============================================================================
