----------------------------- MODULE Discovery -----------------------------
(***************************************************************************)
(* How services become known.  The agent scans the cluster, pushes what it *)
(* finds to the gateway and records in the collection push_data what it    *)
(* has pushed; from then on it pushes again only when a scan differs from  *)
(* push_data.  The approval service seeds an empty push_data when it       *)
(* starts.  The gateway answers a push before it applies it.               *)
(***************************************************************************)
EXTENDS Integers, FiniteSets

CONSTANTS
  Services, Envs,   \* Envs: the keys of env_mapping
  Defaults,         \* defaultServices of initPushData
  MaxChanges,       \* bound: changes of the cluster
  MaxMishaps        \* bound: crashes and failed calls together

ASSUME DefaultAssumption == Defaults \subseteq Services
ASSUME EnvAssumption == Envs # {}
ASSUME BoundAssumption == MaxChanges \in Nat /\ MaxMishaps \in Nat

VARIABLES
  deployed,          \* the cluster: services in the namespace of each environment
  everDeployed,      \* history: services there ever were
  pushData,          \* collection push_data: pairs of a service and an environment
  seedPc, toSeed,    \* initPushData of the approval service
  pc, round,         \* the agent: initialFullPush, then periodicPushDiscovery
  toScan, found,     \* BuildPushRequest: environments to scan, services so far
  queued, known,     \* gateway: pushes answered but not applied, and what it knows
  lost,              \* history: what the gateway has answered for and dropped,
                     \* as far as it has not learned it since
  changes, mishaps

cluster == <<deployed, everDeployed>>
seed    == <<seedPc, toSeed>>
agent   == <<pc, round, toScan, found>>
gateway == <<queued, known, lost>>
vars == <<cluster, pushData, seed, agent, gateway, changes, mishaps>>

Pairs == Services \X Envs
CallFails == mishaps < MaxMishaps /\ mishaps' = mishaps + 1

Init ==
  /\ deployed \in [Envs -> SUBSET Services]
  /\ everDeployed = UNION {deployed[e] : e \in Envs}
  /\ pushData = {}
  /\ seedPc = "down" /\ toSeed = {}
  /\ pc = "scan" /\ round = "initial" /\ toScan = Envs /\ found = {}
  /\ queued = {} /\ known = {} /\ lost = {}
  /\ changes = 0 /\ mishaps = 0

-----------------------------------------------------------------------------
(* BuildPushRequest *)

\* One namespace.  Deployments, StatefulSets and DaemonSets are listed by a
\* call each; a call that fails is logged and its services are missing.
DiscoverServicesFromNamespace(e) ==
  /\ pc = "scan" /\ e \in toScan
  /\ toScan' = toScan \ {e}
  /\ \/ /\ found' = found \union deployed[e]
        /\ UNCHANGED mishaps
     \/ /\ \E some \in SUBSET deployed[e] : found' = found \union some
        /\ CallFails
  /\ UNCHANGED <<cluster, pushData, seed, pc, round, gateway, changes>>

\* Mutant of BuildPushRequest: it does not wait for the last environment.
BuildEarly ==
  /\ pc = "scan"
  /\ pc' = IF round = "initial" THEN "push" ELSE "compare"
  /\ UNCHANGED <<cluster, pushData, seed, round, toScan, found, gateway, changes, mishaps>>

\* The first request is pushed as it is.
BuildPushRequest ==
  /\ pc = "scan" /\ toScan = {}
  /\ pc' = IF round = "initial" THEN "push" ELSE "compare"
  /\ UNCHANGED <<cluster, pushData, seed, round, toScan, found, gateway, changes, mishaps>>

\* The round is over, whether it went well or not.
Over == pc' = "idle" /\ found' = {}

StartRound ==
  /\ pc = "idle"
  /\ pc' = "scan" /\ round' = "periodic" /\ toScan' = Envs
  /\ UNCHANGED <<cluster, pushData, seed, found, gateway, changes, mishaps>>

\* Mutant of HasChanges: only sizes are compared.
HasSizeChange(services) == Cardinality(services) # Cardinality({p[1] : p \in pushData})

\* Mutant of HasChanges: pairs are counted as services.
HasPairChange(services) == Cardinality(services) # Cardinality(pushData)

\* HasChanges compares sets of services and of environments.
HasChanges(services) ==
  \/ services # {p[1] : p \in pushData}
  \/ Envs # {p[2] : p \in pushData}

\* Mutant of Compared: a service in push_data counts as found.
ComparedWithStored == pc' = "push" /\ found' = found \union {p[1] : p \in pushData}

\* The request is not touched.
Compared == pc' = "push" /\ UNCHANGED found

\* GetPushData and HasChanges.
Compare ==
  /\ pc = "compare"
  /\ \/ HasChanges(found) /\ Compared /\ UNCHANGED mishaps
     \/ ~HasChanges(found) /\ Over /\ UNCHANGED mishaps
     \/ CallFails /\ Over
  /\ UNCHANGED <<cluster, pushData, seed, round, toScan, gateway, changes>>

-----------------------------------------------------------------------------
(* PushData, and the gateway behind it: equal pushes in its queue are one *)

\* Mutant of PushFailed: the error is not looked at.
PushErrorDropped == CallFails /\ pc' = "store" /\ UNCHANGED found

PushFailed == CallFails /\ Over

\* The gateway refuses a request without services.  A failed call may have
\* reached it.
PushData ==
  /\ pc = "push"
  /\ \/ /\ found = {}
        /\ Over
        /\ UNCHANGED <<queued, mishaps>>
     \/ /\ found # {}
        /\ queued' = queued \union {found \X Envs}
        /\ pc' = "store"
        /\ UNCHANGED <<found, mishaps>>
     \/ /\ found # {}
        /\ queued' \in {queued, queued \union {found \X Envs}}
        /\ PushFailed
  /\ UNCHANGED <<cluster, pushData, seed, round, toScan, known, lost, changes>>

\* The upserts of StorePushData; nothing is ever removed.  A bulk write that
\* fails may have done some of them.
StorePushData ==
  /\ pc = "store"
  /\ \/ /\ pushData' = pushData \union (found \X Envs)
        /\ UNCHANGED mishaps
     \/ /\ \E some \in SUBSET (found \X Envs) : pushData' = pushData \union some
        /\ CallFails
  /\ Over
  /\ UNCHANGED <<cluster, seed, round, toScan, gateway, changes>>

\* StoreServiceEnvironments, one upsert: the environments of one service.  The
\* first one that fails, though it may have been applied, is the last one of
\* its push: Execute returns the error and the worker logs it.
ApplyPush(push, s) ==
  LET rows == {p \in push : p[1] = s}
      rest == push \ rows IN
  /\ push \in queued /\ rows # {}
  /\ \/ /\ queued' = (queued \ {push}) \union ({rest} \ {{}})
        /\ known' = known \union rows
        /\ lost' = lost \ rows
        /\ UNCHANGED mishaps
     \/ /\ CallFails
        /\ queued' = queued \ {push}
        /\ known' \in {known, known \union rows}
        /\ lost' = (lost \union push) \ known'
  /\ UNCHANGED <<cluster, pushData, seed, agent, changes>>

-----------------------------------------------------------------------------
(* initPushData of the approval service *)

\* The count of the whole collection; one that fails ends the process.
SeedCheck ==
  /\ seedPc = "down"
  /\ \/ seedPc' = (IF pushData = {} THEN "pairs" ELSE "up") /\ UNCHANGED mishaps
     \/ UNCHANGED seedPc /\ CallFails
  /\ UNCHANGED <<cluster, pushData, toSeed, agent, gateway, changes>>

\* The counts of the single pairs, here in one step; one that fails counts zero.
SeedPairs ==
  /\ seedPc = "pairs"
  /\ LET missing == (Defaults \X Envs) \ pushData IN
     \/ toSeed' = missing /\ UNCHANGED mishaps
     \/ CallFails /\ \E more \in SUBSET (Defaults \X Envs) : toSeed' = missing \union more
  /\ seedPc' = IF toSeed' = {} THEN "up" ELSE "insert"
  /\ UNCHANGED <<cluster, pushData, agent, gateway, changes>>

\* InsertMany ends at the first pair there is already, or fails, and so does
\* the process.
SeedInsert ==
  /\ seedPc = "insert"
  /\ \/ /\ toSeed \intersect pushData = {}
        /\ pushData' = pushData \union toSeed
        /\ seedPc' = "up" /\ UNCHANGED mishaps
     \/ /\ \/ toSeed \intersect pushData # {} /\ UNCHANGED mishaps
           \/ CallFails
        /\ \E some \in SUBSET (toSeed \ pushData) : pushData' = pushData \union some
        /\ seedPc' = "down"
  /\ toSeed' = {}
  /\ UNCHANGED <<cluster, agent, gateway, changes>>

-----------------------------------------------------------------------------
\* Someone deploys or removes a service.
Change(e, s) ==
  /\ changes < MaxChanges
  /\ changes' = changes + 1
  /\ deployed' = [deployed EXCEPT ![e] = IF s \in @ THEN @ \ {s} ELSE @ \union {s}]
  /\ everDeployed' = everDeployed \union {s}
  /\ UNCHANGED <<pushData, seed, agent, gateway, mishaps>>

AgentRestarts ==
  /\ CallFails
  /\ pc' = "scan" /\ round' = "initial" /\ toScan' = Envs /\ found' = {}
  /\ UNCHANGED <<cluster, pushData, seed, gateway, changes>>

GatewayRestarts ==
  /\ CallFails
  /\ queued # {}
  /\ queued' = {} /\ lost' = (lost \union UNION queued) \ known
  /\ UNCHANGED <<cluster, pushData, seed, agent, known, changes>>

AgentStep == (\E e \in Envs : DiscoverServicesFromNamespace(e)) \/ BuildPushRequest
             \/ StartRound \/ Compare \/ PushData \/ StorePushData
Apply  == \E push \in queued, s \in Services : ApplyPush(push, s)
Others == SeedCheck \/ SeedPairs \/ SeedInsert \/ (\E e \in Envs, s \in Services : Change(e, s))
          \/ AgentRestarts \/ GatewayRestarts

Next == AgentStep \/ Apply \/ Others

Spec == Init /\ [][Next]_vars

\* The agent's loop and the gateway's pool go on; nothing else has to happen.
FairSpec == Spec /\ WF_vars(AgentStep) /\ WF_vars(Apply)

-----------------------------------------------------------------------------
(* Properties *)

TypeOK ==
  /\ deployed \in [Envs -> SUBSET Services]
  /\ everDeployed \subseteq Services
  /\ pushData \subseteq Pairs
  /\ seedPc \in {"down", "pairs", "insert", "up"} /\ toSeed \subseteq Pairs
  /\ pc \in {"idle", "scan", "compare", "push", "store"}
  /\ round \in {"initial", "periodic"}
  /\ toScan \subseteq Envs /\ found \subseteq Services
  /\ pc # "scan" => toScan = {}
  /\ queued \subseteq SUBSET Pairs /\ known \subseteq Pairs
  /\ lost \subseteq Pairs
  /\ changes \in 0..MaxChanges /\ mishaps \in 0..MaxMishaps

\* The gateway never offers a service for deployment that was not seen in the
\* cluster, although push_data may hold seeded ones that do not exist
\* (agent.go 126-171, mongo.go 827).
KnownWasDeployed == \A p \in known : p[1] \in everDeployed

\* What is in push_data and was not seeded has reached the gateway, whichever
\* call fails: the gateway knows it, still has to apply a push with it, or has
\* answered a push with just this pair and dropped it, as a failed upsert or a
\* crash makes it do (agent.go 158-176, server.go 146-155, mongo.go 125-128).
StoredWasPushed ==
  \A p \in pushData :
    p \in known \/ p \in UNION queued \/ p[1] \in Defaults \/ p \in lost

Current == UNION {deployed[e] : e \in Envs}

\* A service that stays in the cluster becomes known for every environment,
\* whatever fails once: a missed scan, an unanswered or a dropped push and a
\* failed store are all made good by a later round.  It can stay unknown in one
\* way only, which is that push_data has it: as a default, or because a push was
\* recorded whose row for this service the gateway has dropped (agent.go 147-176).
ServiceBecomesKnown ==
  \A s \in Services \ Defaults :
    LET Rows == {s} \X Envs IN
    <>[](s \in Current) =>
      <>(Rows \subseteq known \/ (Rows \intersect lost # {} /\ Rows \intersect pushData # {}))

\* When push_data holds just the services of the cluster the agent goes quiet
\* (agent.go 147-154); as nothing is removed from push_data, a removed service
\* or a seed makes it push in every round.
PushingStops ==
  <>[](Current \X Envs = pushData /\ Current # {}) => <>[](pc \notin {"push", "store"})
=============================================================================
