-------------------------- MODULE DiscoveryProofs --------------------------
(***************************************************************************)
(* What holds of discovery for every set of services and environments,     *)
(* every seed and any number of changes, crashes and failed calls.         *)
(***************************************************************************)
EXTENDS Discovery, TLAPS

LEMMA InitType == Init => TypeOK
<1> SUFFICES ASSUME Init PROVE TypeOK
    OBVIOUS
<1>1. everDeployed \subseteq Services
  BY DEF Init
<1>2. pushData \subseteq Pairs /\ toSeed \subseteq Pairs /\ known \subseteq Pairs
  BY DEF Init
<1>3. queued \subseteq SUBSET Pairs
  BY DEF Init
<1>4. changes \in 0..MaxChanges /\ mishaps \in 0..MaxMishaps
  BY BoundAssumption DEF Init
<1> QED BY <1>1, <1>2, <1>3, <1>4 DEF Init, TypeOK

LEMMA NextType == TypeOK /\ [Next]_vars => TypeOK'
<1> SUFFICES ASSUME TypeOK, [Next]_vars PROVE TypeOK'
    OBVIOUS
<1> USE BoundAssumption, DefaultAssumption DEF TypeOK, Pairs, CallFails
<1>1. ASSUME NEW e \in Envs, DiscoverServicesFromNamespace(e) PROVE TypeOK'
  BY <1>1 DEF DiscoverServicesFromNamespace, cluster, seed, gateway
<1>2. CASE BuildPushRequest
  BY <1>2 DEF BuildPushRequest, cluster, seed, gateway
<1>3. CASE StartRound
  BY <1>3 DEF StartRound, cluster, seed, gateway
<1>4. CASE Compare
  BY <1>4 DEF Compare, Compared, Over, cluster, seed, gateway
<1>5. CASE PushData
  <2>1. queued' \subseteq SUBSET (Services \X Envs)
    BY <1>5 DEF PushData
  <2> QED BY <1>5, <2>1 DEF PushData, PushFailed, Over, cluster, seed
<1>6. CASE StorePushData
  <2>1. pushData' \subseteq Services \X Envs
    BY <1>6 DEF StorePushData
  <2> QED BY <1>6, <2>1 DEF StorePushData, Over, cluster, seed, gateway
<1>7. ASSUME NEW push \in queued, NEW s \in Services, ApplyPush(push, s) PROVE TypeOK'
  BY <1>7 DEF ApplyPush, cluster, seed, agent
<1>8. CASE SeedCheck
  BY <1>8 DEF SeedCheck, cluster, agent, gateway
<1>9. CASE SeedInsert
  BY <1>9 DEF SeedInsert, cluster, agent, gateway
<1>10. ASSUME NEW e \in Envs, NEW s \in Services, Change(e, s) PROVE TypeOK'
  BY <1>10 DEF Change, seed, agent, gateway
<1>11. CASE AgentRestarts
  BY <1>11 DEF AgentRestarts, cluster, seed, gateway
<1>12. CASE GatewayRestarts
  BY <1>12 DEF GatewayRestarts, cluster, seed, agent
<1>14. CASE SeedPairs
  BY <1>14 DEF SeedPairs, cluster, agent, gateway
<1>13. CASE UNCHANGED vars
  BY <1>13 DEF vars, cluster, seed, agent, gateway
<1> QED
  BY <1>1, <1>2, <1>3, <1>4, <1>5, <1>6, <1>7, <1>8, <1>9, <1>10, <1>11, <1>12,
     <1>13, <1>14 DEF Next, AgentStep, Apply, Others

\* Every variable of the agent, the seed, the gateway and push_data keeps its
\* type, and the scan is complete whenever a request is compared or pushed.
THEOREM TypeCorrect == Spec => []TypeOK
  BY InitType, NextType, PTL DEF Spec

-----------------------------------------------------------------------------
(***************************************************************************)
(* A service reaches the gateway by way of the scan and the pool's queue,  *)
(* so each of them must have held only services that were in the cluster.  *)
(***************************************************************************)
ClusterWasDeployed == \A e \in Envs : deployed[e] \subseteq everDeployed
FoundWasDeployed   == found \subseteq everDeployed
QueuedWasDeployed  == \A push \in queued : \A p \in push : p[1] \in everDeployed

SeenFirst == ClusterWasDeployed /\ FoundWasDeployed /\ QueuedWasDeployed /\ KnownWasDeployed

LEMMA InitSeen == Init => SeenFirst
  BY DEF Init, SeenFirst, ClusterWasDeployed, FoundWasDeployed, QueuedWasDeployed,
         KnownWasDeployed

LEMMA NextSeen == TypeOK /\ SeenFirst /\ [Next]_vars => SeenFirst'
<1> SUFFICES ASSUME TypeOK, SeenFirst, [Next]_vars PROVE SeenFirst'
    OBVIOUS
<1> USE DEF SeenFirst, ClusterWasDeployed, FoundWasDeployed, QueuedWasDeployed,
            KnownWasDeployed, TypeOK
<1>1. ASSUME NEW e \in Envs, DiscoverServicesFromNamespace(e) PROVE SeenFirst'
  BY <1>1 DEF DiscoverServicesFromNamespace, cluster, gateway
<1>2. CASE BuildPushRequest
  BY <1>2 DEF BuildPushRequest, cluster, gateway
<1>3. CASE StartRound
  BY <1>3 DEF StartRound, cluster, gateway
<1>4. CASE Compare
  BY <1>4 DEF Compare, Compared, Over, cluster, gateway
<1>5. CASE PushData
  <2>1. \A p \in found \X Envs : p[1] \in everDeployed
    OBVIOUS
  <2>2. queued' \subseteq queued \union {found \X Envs}
    BY <1>5 DEF PushData
  <2>3. found' \subseteq found /\ everDeployed' = everDeployed /\ deployed' = deployed
        /\ known' = known
    BY <1>5 DEF PushData, PushFailed, Over, cluster
  <2> QED BY <2>1, <2>2, <2>3
<1>6. CASE StorePushData
  BY <1>6 DEF StorePushData, Over, cluster, gateway
<1>7. ASSUME NEW push \in queued, NEW s \in Services, ApplyPush(push, s) PROVE SeenFirst'
  BY <1>7 DEF ApplyPush, cluster, agent
<1>8. CASE SeedCheck
  BY <1>8 DEF SeedCheck, cluster, agent, gateway
<1>9. CASE SeedInsert
  BY <1>9 DEF SeedInsert, cluster, agent, gateway
<1>10. ASSUME NEW e \in Envs, NEW s \in Services, Change(e, s) PROVE SeenFirst'
  BY <1>10 DEF Change, agent, gateway
<1>11. CASE AgentRestarts
  BY <1>11 DEF AgentRestarts, cluster, gateway
<1>12. CASE GatewayRestarts
  BY <1>12 DEF GatewayRestarts, cluster, agent
<1>14. CASE SeedPairs
  BY <1>14 DEF SeedPairs, cluster, agent, gateway
<1>13. CASE UNCHANGED vars
  BY <1>13 DEF vars, cluster, agent, gateway
<1> QED
  BY <1>1, <1>2, <1>3, <1>4, <1>5, <1>6, <1>7, <1>8, <1>9, <1>10, <1>11, <1>12,
     <1>13, <1>14 DEF Next, AgentStep, Apply, Others

\* The gateway never offers a service for deployment that the agent has not
\* seen in the cluster, whatever push_data is seeded with.
THEOREM OfferedExists == Spec => []KnownWasDeployed
<1>1. SeenFirst => KnownWasDeployed
  BY DEF SeenFirst
<1> QED BY <1>1, InitSeen, NextSeen, TypeCorrect, PTL DEF Spec

-----------------------------------------------------------------------------
(***************************************************************************)
(* Records are stored only after a push was answered: while the agent is   *)
(* about to store, what it stores is with the gateway.  The pairs the seed *)
(* is about to insert are pairs of default services.                       *)
(***************************************************************************)
AtGateway(p)   == p \in known \/ p \in UNION queued \/ p \in lost
StoringPushed  == pc = "store" => \A p \in found \X Envs : AtGateway(p)
SeedingDefault == \A p \in toSeed : p[1] \in Defaults

PushedFirst == StoringPushed /\ SeedingDefault /\ StoredWasPushed

LEMMA InitPushed == Init => PushedFirst
  BY DEF Init, PushedFirst, StoringPushed, SeedingDefault, StoredWasPushed

\* The gateway may only move a pair from its queue to what it knows or to what
\* it has lost.
LEMMA GatewayKeeps ==
  TypeOK /\ [Next]_vars => \A p : AtGateway(p) => AtGateway(p)'
<1> SUFFICES ASSUME TypeOK, [Next]_vars, NEW p, AtGateway(p) PROVE AtGateway(p)'
    OBVIOUS
<1> USE DEF AtGateway
<1>1. CASE PushData
  BY <1>1 DEF PushData
<1>2. ASSUME NEW push \in queued, NEW s \in Services, ApplyPush(push, s) PROVE AtGateway(p)'
  <2> DEFINE rows == {q \in push : q[1] = s}
             rest == push \ rows
  <2>1. CASE UNCHANGED mishaps /\ queued' = (queued \ {push}) \union ({rest} \ {{}})
             /\ known' = known \union rows /\ lost' = lost \ rows
    <3>1. p \in push => p \in rows \/ p \in UNION queued'
      <4>1. p \in rest => rest \in queued'
        BY <2>1
      <4> QED BY <4>1
    <3>2. ASSUME NEW other \in queued, other # push PROVE other \in queued'
      BY <2>1, <3>2
    <3> HIDE DEF rest, rows
    <3> QED BY <2>1, <3>1, <3>2
  <2>2. CASE queued' = queued \ {push} /\ known' \in {known, known \union rows}
             /\ lost' = (lost \union push) \ known'
    BY <2>2
  <2> QED BY <1>2, <2>1, <2>2 DEF ApplyPush
<1>3. CASE GatewayRestarts
  BY <1>3 DEF GatewayRestarts
<1>4. CASE UNCHANGED gateway
  BY <1>4 DEF gateway
<1>5. ASSUME NEW e \in Envs, DiscoverServicesFromNamespace(e) PROVE UNCHANGED gateway
  BY <1>5 DEF DiscoverServicesFromNamespace
<1>6. ASSUME BuildPushRequest \/ StartRound \/ Compare \/ StorePushData \/ SeedCheck
             \/ SeedPairs \/ SeedInsert \/ AgentRestarts \/ UNCHANGED vars
      PROVE  UNCHANGED gateway
  BY <1>6 DEF BuildPushRequest, StartRound, Compare, StorePushData, SeedCheck, SeedPairs, SeedInsert,
              AgentRestarts, vars
<1>7. ASSUME NEW e \in Envs, NEW s \in Services, Change(e, s) PROVE UNCHANGED gateway
  BY <1>7 DEF Change
<1> QED
  BY <1>1, <1>2, <1>3, <1>4, <1>5, <1>6, <1>7 DEF Next, AgentStep, Apply, Others

LEMMA NextPushed == TypeOK /\ PushedFirst /\ [Next]_vars => PushedFirst'
<1> SUFFICES ASSUME TypeOK, PushedFirst, [Next]_vars PROVE PushedFirst'
    OBVIOUS
<1> USE DEF PushedFirst, StoringPushed, SeedingDefault, StoredWasPushed, TypeOK
<1>1. \A p : AtGateway(p) => AtGateway(p)'
  BY GatewayKeeps
<1>2. \A p \in pushData : AtGateway(p)' \/ p[1] \in Defaults
  BY <1>1 DEF AtGateway
<1>3. ASSUME UNCHANGED pushData PROVE StoredWasPushed'
  BY <1>2, <1>3 DEF AtGateway
<1>4. ASSUME UNCHANGED <<found, pc>> PROVE StoringPushed'
  BY <1>1, <1>4
<1>5. ASSUME NEW e \in Envs, DiscoverServicesFromNamespace(e) PROVE PushedFirst'
  BY <1>3, <1>5 DEF DiscoverServicesFromNamespace, seed
<1>6. CASE BuildPushRequest
  BY <1>3, <1>6 DEF BuildPushRequest, seed
<1>7. CASE StartRound
  BY <1>3, <1>7 DEF StartRound, seed
<1>8. CASE Compare
  BY <1>3, <1>8 DEF Compare, Compared, Over, seed
<1>9. CASE PushData
  <2>1. pc' = "store" => found' \X Envs \in queued'
    BY <1>9 DEF PushData, PushFailed, Over
  <2>2. StoringPushed'
    BY <2>1 DEF AtGateway
  <2> QED BY <1>3, <1>9, <2>2 DEF PushData, seed
<1>10. CASE StorePushData
  <2>1. pushData' \subseteq pushData \union (found \X Envs)
    BY <1>10 DEF StorePushData
  <2>2. \A p \in found \X Envs : AtGateway(p)'
    BY <1>1, <1>10 DEF StorePushData
  <2>3. StoredWasPushed'
    BY <1>2, <2>1, <2>2 DEF AtGateway
  <2> QED BY <1>10, <2>3 DEF StorePushData, Over, seed
<1>11. ASSUME NEW push \in queued, NEW s \in Services, ApplyPush(push, s) PROVE PushedFirst'
  BY <1>3, <1>4, <1>11 DEF ApplyPush, agent, seed
<1>12. CASE SeedCheck
  BY <1>3, <1>4, <1>12 DEF SeedCheck, agent
<1>18. CASE SeedPairs
  <2>1. SeedingDefault'
    BY <1>18 DEF SeedPairs
  <2> QED BY <1>3, <1>4, <1>18, <2>1 DEF SeedPairs, agent
<1>13. CASE SeedInsert
  <2>1. pushData' \subseteq pushData \union toSeed
    BY <1>13 DEF SeedInsert
  <2>2. StoredWasPushed'
    BY <1>2, <2>1 DEF AtGateway
  <2> QED BY <1>4, <1>13, <2>2 DEF SeedInsert, agent
<1>14. ASSUME NEW e \in Envs, NEW s \in Services, Change(e, s) PROVE PushedFirst'
  BY <1>3, <1>4, <1>14 DEF Change, agent, seed
<1>15. CASE AgentRestarts
  BY <1>3, <1>15 DEF AgentRestarts, seed
<1>16. CASE GatewayRestarts
  BY <1>3, <1>4, <1>16 DEF GatewayRestarts, agent, seed
<1>17. CASE UNCHANGED vars
  BY <1>3, <1>4, <1>17 DEF vars, agent, seed
<1> QED
  BY <1>5, <1>6, <1>7, <1>8, <1>9, <1>10, <1>11, <1>12, <1>13, <1>14, <1>15,
     <1>16, <1>17, <1>18 DEF Next, AgentStep, Apply, Others

\* Whatever call fails, a pair in push_data that was not seeded is known to the
\* gateway, in a push it still has, or in one that it has answered and dropped
\* in a crash or with a failed upsert.
THEOREM RecordedWasPushed == Spec => []StoredWasPushed
<1>1. PushedFirst => StoredWasPushed
  BY DEF PushedFirst
<1> QED BY <1>1, InitPushed, NextPushed, TypeCorrect, PTL DEF Spec
=============================================================================
