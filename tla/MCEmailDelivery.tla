--------------------------- MODULE MCEmailDelivery ---------------------------
(* Instances of EmailDelivery for TLC. *)
EXTENDS EmailDelivery, TLC

CONSTANTS e1, p1, p2, r1, r2, r3, c1, c2

\* One process with a concurrency of two next to another one; the sweeps overlap.
MCHostOf == [a \in Runs \cup Sweeps |-> IF a \in {r1, r2, c1} THEN p1 ELSE p2]
=============================================================================
