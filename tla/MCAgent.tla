------------------------------ MODULE MCAgent ------------------------------
(* Instances of Agent for TLC. *)
EXTENDS Agent, TLC

CONSTANTS t1, t2, w1, w2, s1, n1, n2, e1, e2, v1, v2

Ask(s, v, e, first) == [service |-> s, version |-> v, env |-> e, firstEnv |-> first]

\* Two versions of one service in one environment: one workload.
OneWorkload == t1 :> Ask(s1, v1, e1, e1) @@ t2 :> Ask(s1, v2, e1, e1)
OneNamespace == e1 :> n1

\* A record for e1, and the one the approval service has split off for e2.
SplitTask == t1 :> Ask(s1, v1, e1, e1) @@ t2 :> Ask(s1, v1, e2, e1)
TwoNamespaces == e1 :> n1 @@ e2 :> n2

OwnLock == [k \in Workloads |-> k]

InOrder == [t \in Tasks |-> IF t = t1 THEN 1 ELSE 2]

\* The agent starts when every task has been confirmed.  The version that runs
\* is the one the later of the two tasks asks for.
Backlog ==
  /\ image = [k \in Workloads |-> v2]
  /\ conf = [t \in Tasks |-> "confirmed"]
  /\ status = [t \in Tasks |-> "pending"]
  /\ Started

\* ... and does not end, so that its goroutines are all that has to go on.
BacklogSpec == Backlog /\ [][Next]_vars /\ Goroutines
=============================================================================
