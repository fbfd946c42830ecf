-------------------------- MODULE MCLegacyQueue --------------------------
(* Instances of LegacyQueue for TLC. *)
EXTENDS LegacyQueue

CONSTANTS t1, t2, k1

\* Two versions of one service in one environment; the second one waits for a
\* confirmation.
OneKey == [t \in Tasks |-> k1]
Later == [t \in Tasks |-> IF t = t1 THEN 1 ELSE 2]
SecondWaits == [t \in Tasks |-> IF t = t1 THEN "pending" ELSE "pending_confirmation"]
=============================================================================
