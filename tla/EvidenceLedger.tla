--------------------------- MODULE EvidenceLedger ---------------------------
(***************************************************************************)
(* What the Evidence Store promises, with no database in sight: governed   *)
(* decisions are recorded one at a time on a ledger that only grows at its *)
(* end, a decision event is recorded at most once, and a caller is told    *)
(* "recorded" only of a decision that is on the ledger.                    *)
(*                                                                         *)
(* A ledger maps positions to payloads.  Positions grow but need not be    *)
(* consecutive: the evidence table numbers its rows from an identity       *)
(* column, and a rolled back insert burns a number.                        *)
(***************************************************************************)
EXTENDS Naturals

CONSTANTS Position,     \* the numbers a position can have
          Event,        \* decision event ids
          Status        \* verdict statuses the governance engine can return

Payload == [event : Event, status : Status]

VARIABLES ledger,       \* position |-> payload
          acked         \* payloads whose caller was told they are recorded

vars == <<ledger, acked>>

Init == /\ ledger = [n \in {} |-> {}]
        /\ acked = {}

\* Record payload p at a position after every recorded one.
Record(n, p) ==
    /\ \A k \in DOMAIN ledger : k < n /\ ledger[k].event # p.event
    /\ ledger' = [k \in DOMAIN ledger \cup {n} |->
                    IF k = n THEN p ELSE ledger[k]]
    /\ UNCHANGED acked

\* Tell the caller of p that p is recorded.
Acknowledge(p) ==
    /\ \E k \in DOMAIN ledger : ledger[k] = p
    /\ acked' = acked \cup {p}
    /\ UNCHANGED ledger

Next == \/ \E n \in Position, p \in Payload : Record(n, p)
        \/ \E p \in Payload : Acknowledge(p)

Spec == Init /\ [][Next]_vars
=============================================================================
