--------------------------- MODULE MCRequestServer ---------------------------
(* Two appends and a third request that share two connections.               *)
EXTENDS RequestServer, TLC

CONSTANTS q1, q2, q3, p1, p2

MCSends == (q1 :> {"ingest"}) @@ (q2 :> {"ingest"})
           @@ (q3 :> {"read", "change", "session", "readyz", "healthz"})
MCRoleOf == (p1 :> "INGESTION")
=============================================================================
