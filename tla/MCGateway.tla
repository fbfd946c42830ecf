----------------------------- MODULE MCGateway -----------------------------
(* Instances of Gateway for TLC. *)
EXTENDS Gateway, TLC

CONSTANTS s1, s2, e1, e2, v1, v2, u1, p1, p2, d1, d2, q1, q2, st1

PushOf(ss, es) == [op |-> "push", services |-> ss, environments |-> es]
DeployOf(es, v) == [op |-> "deploy", service |-> s1, environments |-> es,
                    version |-> v, user |-> u1]
QueryOf(es, u) == [op |-> "query", service |-> s1, environments |-> es, user |-> u]
StatusOf(e, v) == [op |-> "status", service |-> s1, environment |-> e,
                   version |-> v, user |-> u1, status |-> "success"]

\* Two pushes, two deploys that overlap in one environment and two queries.
Mixed == p1 :> PushOf(<<s1>>, {e1}) @@ p2 :> PushOf(<<s1>>, {e2})
         @@ d1 :> DeployOf(<<e1>>, v1) @@ d2 :> DeployOf(<<e1, e2>>, v2)
         @@ q1 :> QueryOf({e1, e2}, AnyUser) @@ q2 :> QueryOf({e1}, u1)
         @@ st1 :> StatusOf(e1, v1)

\* The same with one version asked for twice.
Twice == [r \in Requests |-> IF r = d2 THEN DeployOf(<<e1, e2>>, v1) ELSE Mixed[r]]
=============================================================================
