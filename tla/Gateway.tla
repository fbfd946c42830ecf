------------------------------ MODULE Gateway ------------------------------
(***************************************************************************)
(* The gateway: HTTP handlers that run concurrently, each a goroutine with *)
(* one MongoDB call per step, the collections service_environments and     *)
(* deploy_queue, and a pool of workers behind a bounded channel that       *)
(* applies pushes after they have been answered.  The process may be       *)
(* killed; the collections survive it.                                     *)
(***************************************************************************)
EXTENDS Integers, Sequences, FiniteSets

CONSTANTS
  Requests,       \* the HTTP requests that may arrive, each once
  Request,        \* what each of them says
  Services, Envs, Versions, Users,
  AnyUser,        \* a query without a user
  PoolWorkers,    \* goroutines of the WorkerPool, 20 in the code
  PoolCapacity,   \* capacity of its channel, 1000 in the code
  MaxMishaps,     \* bound on crashes and failed MongoDB calls together
  NoRequest

Statuses == {"success", "failure", "no_action"}

PushRequest   == [op : {"push"}, services : Seq(Services), environments : SUBSET Envs]
DeployRequest == [op : {"deploy"}, service : Services, environments : Seq(Envs),
                  version : Versions, user : Users]
QueryRequest  == [op : {"query"}, service : Services, environments : SUBSET Envs,
                  user : Users \union {AnyUser}]
StatusRequest == [op : {"status"}, service : Services, environment : Envs,
                  version : Versions, user : Users, status : Statuses]

ASSUME RequestAssumption ==
  Request \in [Requests -> PushRequest \union DeployRequest
                             \union QueryRequest \union StatusRequest]
ASSUME PoolAssumption == PoolCapacity \in Nat \ {0}
ASSUME BoundAssumption == MaxMishaps \in Nat
ASSUME NullAssumption == NoRequest \notin Requests /\ AnyUser \notin Users

\* A document of deploy_queue.  It has no field "environment".
Document == [service : Services, environments : {{e} : e \in Envs},
             version : Versions, user : Users,
             status : {"pending", "assigned"} \union Statuses]

VARIABLES
  known,        \* service_environments: {} when the service has no document
  deployQueue,  \* deploy_queue, in the order of insertion
  jobs,         \* the pool's channel
  job, todo,    \* what each pool worker is at, and the services it has left
  pc,           \* where each handler is
  left,         \* environments a deploy has still to insert
  accepted, refused,  \* environments it has inserted, and failedEnvs
  found,        \* the document a query or a status update has read
  reply,        \* what was or will be answered
  crashes, faults

collections == <<known, deployQueue>>
pool    == <<jobs, job, todo>>
handler == <<pc, left, accepted, refused, found, reply>>
vars == <<collections, pool, handler, crashes, faults>>

-----------------------------------------------------------------------------
(* MongoStorage *)

\* Mutant of AddEnvironments: $set instead of $addToSet.
SetEnvironments(s, envs) == [known EXCEPT ![s] = envs]

\* One upsert of StoreServiceEnvironments.
AddEnvironments(s, envs) == [known EXCEPT ![s] = @ \union envs]

\* Mutant of Duplicates: the version is missing in the filter.
SameServiceAndEnv(q, e) ==
  {d \in DOMAIN deployQueue :
     /\ deployQueue[d].service = q.service
     /\ deployQueue[d].environments = {e}
     /\ deployQueue[d].status = "pending"}

\* What InsertDeployRequest counts before it inserts: the user is not compared.
Duplicates(q, e) ==
  {d \in DOMAIN deployQueue :
     /\ deployQueue[d].service = q.service
     /\ deployQueue[d].environments = {e}
     /\ deployQueue[d].version = q.version
     /\ deployQueue[d].status = "pending"}

NewDocument(q, e) ==
  [service |-> q.service, environments |-> {e}, version |-> q.version,
   user |-> q.user, status |-> "pending"]

QueryDeployQueueByServiceEnv(q) ==
  {d \in DOMAIN deployQueue :
     /\ deployQueue[d].service = q.service
     /\ deployQueue[d].environments \intersect q.environments # {}
     /\ deployQueue[d].status = "pending"
     /\ q.user = AnyUser \/ deployQueue[d].user = q.user}

\* The filter names a field no document has.
GetDeployByFilter(q) ==
  {d \in DOMAIN deployQueue :
     /\ deployQueue[d].service = q.service
     /\ deployQueue[d].version = q.version
     /\ "environment" \in DOMAIN deployQueue[d]
     /\ deployQueue[d].environment = q.environment}

\* Mutant of Updatable: the version is missing in the filter.
UpdatableAnyVersion(u) ==
  {d \in DOMAIN deployQueue :
     /\ deployQueue[d].service = u.service
     /\ u.environment \in deployQueue[d].environments
     /\ deployQueue[d].user = u.user
     /\ deployQueue[d].status = "pending"}

\* The documents UpdateStatus may change: one of them, and a pending one.
Updatable(u) ==
  {d \in DOMAIN deployQueue :
     /\ deployQueue[d].service = u.service
     /\ deployQueue[d].version = u.version
     /\ u.environment \in deployQueue[d].environments
     /\ deployQueue[d].user = u.user
     /\ deployQueue[d].status = "pending"}

-----------------------------------------------------------------------------
Init ==
  /\ known = [s \in Services |-> {}]
  /\ deployQueue = <<>>
  /\ jobs = <<>>
  /\ job = [w \in PoolWorkers |-> NoRequest]
  /\ todo = [w \in PoolWorkers |-> <<>>]
  /\ pc = [r \in Requests |-> "new"]
  /\ left = [r \in Requests |-> <<>>]
  /\ accepted = [r \in Requests |-> {}]
  /\ refused = [r \in Requests |-> {}]
  /\ found = [r \in Requests |-> 0]
  /\ reply = [r \in Requests |-> "none"]
  /\ crashes = 0
  /\ faults = 0

\* A call of MongoDB fails; a write may have been applied all the same.
CallFails ==
  /\ crashes + faults < MaxMishaps
  /\ faults' = faults + 1

At(r, op, p) == Request[r].op = op /\ pc[r] = p
Goto(r, p) == pc' = [pc EXCEPT ![r] = p]

\* The handler writes its answer and returns.
Answer(r, a) ==
  /\ Goto(r, "done")
  /\ reply' = [reply EXCEPT ![r] = a]

-----------------------------------------------------------------------------
(* handlePush *)

Push(r) ==
  /\ At(r, "push", "new")
  /\ \/ /\ Request[r].services = <<>> \/ Request[r].environments = {}
        /\ Answer(r, "bad")
     \/ /\ Request[r].services # <<>> /\ Request[r].environments # {}
        /\ Goto(r, "submit")
        /\ UNCHANGED reply
  /\ UNCHANGED <<collections, pool, left, accepted, refused, found, crashes, faults>>

\* Submit blocks while the channel is full.
SubmitPush(r) ==
  /\ At(r, "push", "submit")
  /\ Len(jobs) < PoolCapacity
  /\ jobs' = Append(jobs, r)
  /\ Answer(r, "queued")
  /\ UNCHANGED <<collections, job, todo, left, accepted, refused, found, crashes, faults>>

-----------------------------------------------------------------------------
(* handleDeploy *)

Deploy(r) ==
  LET q == Request[r]
      valid == /\ q.environments # <<>>
               /\ known[q.service] # {}
               /\ \A i \in DOMAIN q.environments : q.environments[i] \in known[q.service]
  IN /\ At(r, "deploy", "new")
     /\ \/ /\ (~valid /\ UNCHANGED faults) \/ CallFails
           /\ Answer(r, "bad")
           /\ UNCHANGED left
        \/ /\ valid
           /\ Goto(r, "count")
           /\ left' = [left EXCEPT ![r] = q.environments]
           /\ UNCHANGED <<reply, faults>>
     /\ UNCHANGED <<collections, pool, accepted, refused, found, crashes>>

\* Mutant of NextEnv: the loop goes once around too often.
NextEnvOffByOne(r) ==
  /\ left' = [left EXCEPT ![r] = Tail(@)]
  /\ IF left[r] = <<>> THEN Answer(r, "processed")
     ELSE Goto(r, "count") /\ UNCHANGED reply

\* The loop goes on with the next environment, or the answer lists them all.
NextEnv(r) ==
  /\ left' = [left EXCEPT ![r] = Tail(@)]
  /\ IF Len(left[r]) = 1 THEN Answer(r, "processed")
     ELSE Goto(r, "count") /\ UNCHANGED reply

RefuseEnv(r) ==
  /\ refused' = [refused EXCEPT ![r] = @ \union {Head(left[r])}]
  /\ NextEnv(r)

\* InsertDeployRequest, first call: look for a duplicate.
Count(r) ==
  /\ At(r, "deploy", "count")
  /\ \/ /\ \/ Duplicates(Request[r], Head(left[r])) # {} /\ UNCHANGED faults
           \/ CallFails
        /\ RefuseEnv(r)
     \/ /\ Duplicates(Request[r], Head(left[r])) = {}
        /\ Goto(r, "insert")
        /\ UNCHANGED <<left, refused, reply, faults>>
  /\ UNCHANGED <<collections, pool, accepted, found, crashes>>

\* InsertDeployRequest, second call: insert, whatever happened since.
Insert(r) ==
  LET inserted == Append(deployQueue, NewDocument(Request[r], Head(left[r])))
  IN /\ At(r, "deploy", "insert")
     /\ \/ /\ deployQueue' = inserted
           /\ accepted' = [accepted EXCEPT ![r] = @ \union {Head(left[r])}]
           /\ Goto(r, "submit")
           /\ UNCHANGED <<left, refused, reply, faults>>
        \/ /\ CallFails
           /\ deployQueue' \in {deployQueue, inserted}
           /\ RefuseEnv(r)
           /\ UNCHANGED accepted
     /\ UNCHANGED <<known, pool, found, crashes>>

SubmitDeploy(r) ==
  /\ At(r, "deploy", "submit")
  /\ Len(jobs) < PoolCapacity
  /\ jobs' = Append(jobs, r)
  /\ NextEnv(r)
  /\ UNCHANGED <<collections, job, todo, accepted, refused, found, crashes, faults>>

-----------------------------------------------------------------------------
(* handleQuery and handleStatus *)

\* The query takes the first document of an unordered result.
Query(r) ==
  LET results == QueryDeployQueueByServiceEnv(Request[r])
  IN /\ At(r, "query", "new")
     /\ \/ /\ results = {}
           /\ Answer(r, "nothing")
           /\ UNCHANGED <<found, faults>>
        \/ /\ CallFails
           /\ Answer(r, "bad")
           /\ UNCHANGED found
        \/ /\ found' \in {[found EXCEPT ![r] = d] : d \in results}
           /\ Goto(r, "update")
           /\ UNCHANGED <<reply, faults>>
     /\ UNCHANGED <<collections, pool, left, accepted, refused, crashes>>

\* A failed look-up is answered like one that finds nothing.
Status(r) ==
  /\ At(r, "status", "new")
  /\ IF GetDeployByFilter(Request[r]) = {} THEN Answer(r, "notFound")
     ELSE Goto(r, "update") /\ UNCHANGED reply
  /\ UNCHANGED <<collections, pool, left, accepted, refused, found, crashes, faults>>

\* A query assigns what it has found, a status update names its target.
StatusUpdate(r) ==
  IF Request[r].op = "status" THEN Request[r]
  ELSE LET d == deployQueue[found[r]]
       IN [service |-> d.service, version |-> d.version, user |-> d.user,
           environment |-> CHOOSE e \in d.environments : TRUE, status |-> "assigned"]

\* A query answers with the task even when nothing was updated.
Replied(r) == IF Request[r].op = "status" THEN "updated" ELSE "task"

UpdateStatus(r) ==
  LET u == StatusUpdate(r)
      updated == {[deployQueue EXCEPT ![d].status = u.status] : d \in Updatable(u)}
  IN /\ pc[r] = "update"
     /\ \/ /\ deployQueue' \in updated
           /\ UNCHANGED faults
        \/ /\ Updatable(u) = {}
           /\ UNCHANGED <<deployQueue, faults>>
        \/ /\ CallFails
           /\ deployQueue' \in updated \union {deployQueue}
     /\ Goto(r, "reply")
     /\ UNCHANGED <<known, pool, left, accepted, refused, found, reply, crashes>>

Reply(r) ==
  /\ pc[r] = "reply"
  /\ Answer(r, Replied(r))
  /\ UNCHANGED <<collections, pool, left, accepted, refused, found, crashes, faults>>

-----------------------------------------------------------------------------
(* WorkerPool *)

\* Only a push has work left to do: a DeployTask just logs.
ServicesOf(r) == IF Request[r].op = "push" THEN Request[r].services ELSE <<>>

Take(w) ==
  /\ job[w] = NoRequest
  /\ jobs # <<>>
  /\ job' = [job EXCEPT ![w] = Head(jobs)]
  /\ todo' = [todo EXCEPT ![w] = ServicesOf(Head(jobs))]
  /\ jobs' = Tail(jobs)
  /\ UNCHANGED <<collections, handler, crashes, faults>>

\* StoreServiceEnvironments returns at the first error.
Store(w) ==
  LET stored == AddEnvironments(Head(todo[w]), Request[job[w]].environments)
  IN /\ todo[w] # <<>>
     /\ \/ /\ known' = stored
           /\ todo' = [todo EXCEPT ![w] = Tail(@)]
           /\ UNCHANGED faults
        \/ /\ CallFails
           /\ known' \in {known, stored}
           /\ todo' = [todo EXCEPT ![w] = <<>>]
     /\ UNCHANGED <<deployQueue, jobs, job, handler, crashes>>

\* Mutant of Finish: the goroutine returns after its job.
FinishForGood(w) ==
  /\ job[w] # NoRequest /\ todo[w] = <<>>
  /\ UNCHANGED vars

Finish(w) ==
  /\ job[w] # NoRequest /\ todo[w] = <<>>
  /\ job' = [job EXCEPT ![w] = NoRequest]
  /\ UNCHANGED <<collections, jobs, todo, handler, crashes, faults>>

-----------------------------------------------------------------------------
\* The process ends and is started again: the channel and the requests in
\* flight are gone.
Crash ==
  /\ crashes + faults < MaxMishaps
  /\ crashes' = crashes + 1
  /\ jobs' = <<>>
  /\ job' = [w \in PoolWorkers |-> NoRequest]
  /\ todo' = [w \in PoolWorkers |-> <<>>]
  /\ pc' = [r \in Requests |-> IF pc[r] \in {"new", "done"} THEN pc[r] ELSE "lost"]
  /\ UNCHANGED <<collections, left, accepted, refused, found, reply, faults>>

Arrive(r) == Push(r) \/ Deploy(r) \/ Query(r) \/ Status(r)
Handle(r) == SubmitPush(r) \/ Count(r) \/ Insert(r) \/ SubmitDeploy(r)
             \/ UpdateStatus(r) \/ Reply(r)
Work(w)   == Take(w) \/ Store(w) \/ Finish(w)

Next == (\E r \in Requests : Arrive(r) \/ Handle(r))
        \/ (\E w \in PoolWorkers : Work(w)) \/ Crash

Spec == Init /\ [][Next]_vars

\* A handler that waits to submit a push goes on when it can, and the pool's
\* goroutines run.  Nobody has to send a request, and what the other handlers
\* do does not matter for the property below.
Fairness == /\ WF_vars(\E r \in Requests : SubmitPush(r))
            /\ WF_vars(\E w \in PoolWorkers : Work(w))

FairSpec == Spec /\ Fairness

-----------------------------------------------------------------------------
(* Properties *)

Points == {"new", "submit", "count", "insert", "update", "reply", "done", "lost"}

TypeOK ==
  /\ known \in [Services -> SUBSET Envs]
  /\ deployQueue \in Seq(Document)
  /\ jobs \in Seq(Requests) /\ Len(jobs) <= PoolCapacity
  /\ job \in [PoolWorkers -> Requests \union {NoRequest}]
  /\ todo \in [PoolWorkers -> Seq(Services)]
  /\ \A w \in PoolWorkers : todo[w] # <<>> => job[w] # NoRequest
  /\ pc \in [Requests -> Points]
  /\ left \in [Requests -> Seq(Envs)]
  /\ \A r \in Requests : pc[r] \in {"count", "insert"} => left[r] # <<>>
  /\ accepted \in [Requests -> SUBSET Envs]
  /\ refused \in [Requests -> SUBSET Envs]
  /\ found \in [Requests -> 0..Len(deployQueue)]
  /\ reply \in [Requests -> {"none", "bad", "queued", "processed", "nothing",
                              "task", "notFound", "updated"}]
  /\ crashes \in Nat /\ faults \in Nat
  /\ crashes + faults <= MaxMishaps

Concerns(d, q, e) ==
  /\ deployQueue[d].service = q.service
  /\ deployQueue[d].version = q.version
  /\ deployQueue[d].environments = {e}

\* Only what was pushed is ever deployed: handleDeploy checks the service's
\* environments once, before its loop, and pushes meanwhile only add to them
\* (server.go 384-397, mongo.go 115-131).
DocumentsAreKnown ==
  \A d \in DOMAIN deployQueue :
    deployQueue[d].environments \subseteq known[deployQueue[d].service]

\* An answered deploy has dealt with each of its environments: the accepted
\* ones have a document, and one is refused only for a document of the same
\* service, environment and version, or a failed call (server.go 404-431).
DeployIsAccountedFor ==
  \A r \in Requests : reply[r] = "processed" =>
    LET q == Request[r]
        docs(e) == {d \in DOMAIN deployQueue : Concerns(d, q, e)}
    IN /\ {q.environments[i] : i \in DOMAIN q.environments} = accepted[r] \union refused[r]
       /\ \A e \in accepted[r] : \E d \in docs(e) : deployQueue[d].user = q.user
       /\ \A e \in refused[r] : docs(e) # {} \/ faults > 0

\* Two documents, or two states of one, that ask for the same.
SameTask(c, d) ==
  /\ c.service = d.service /\ c.version = d.version
  /\ c.environments = d.environments /\ c.user = d.user

\* A document is assigned only for a query that has found a document of the
\* same service, environment, version and user and answers with it, unless
\* the process dies before the answer (server.go 537-591, mongo.go 237-252).
AssignedIsHandedOut ==
  \A d \in DOMAIN deployQueue :
    deployQueue[d].status = "assigned" =>
      \E r \in Requests :
        /\ found[r] # 0
        /\ SameTask(deployQueue[found[r]], deployQueue[d])
        /\ reply[r] = "task" \/ pc[r] = "reply" \/ pc[r] = "lost"

\* The code's claim (server.go 322): checking and inserting synchronously
\* avoids the race, so there is one pending document at most for a service,
\* an environment and a version.
NoDuplicatePending ==
  \A c, d \in DOMAIN deployQueue :
    /\ deployQueue[c].status = "pending" /\ deployQueue[d].status = "pending"
    /\ deployQueue[c].service = deployQueue[d].service
    /\ deployQueue[c].version = deployQueue[d].version
    /\ deployQueue[c].environments = deployQueue[d].environments
    => c = d

\* A push that has begun is applied to all its services, although it may wait
\* for the channel of the pool and is answered before a worker has seen it:
\* unless it is refused, the process ends or a write fails (server.go 300-308).
PushIsApplied ==
  \A r \in {p \in Requests : Request[p].op = "push"} :
    pc[r] # "new" ~>
      \/ reply[r] = "bad" \/ crashes > 0 \/ faults > 0
      \/ \A i \in DOMAIN Request[r].services :
           Request[r].environments \subseteq known[Request[r].services[i]]
=============================================================================
