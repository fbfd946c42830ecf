--------------------------- MODULE LegacyRollout ---------------------------
(***************************************************************************)
(* processTask of the legacy deployer and its Kubernetes client.  The      *)
(* client caches the *Deployment it has fetched for a minute and hands out *)
(* the pointer: who changes an image writes into the cache, and the call   *)
(* of Update then sends what the pointer holds.  The API server refuses it *)
(* (a conflict) when the deployment has been written since it was fetched. *)
(* Several workers may have tasks for one deployment at a time, and then    *)
(* one object: their writes to it, each a step here, are not synchronized. *)
(***************************************************************************)
EXTENDS Naturals, FiniteSets

CONSTANTS
  Workers,      \* cfg.MaxConcurrency goroutines
  Deployments, Images, FirstImage,
  Requests,     \* what a task asks for: a deployment and an image
  Objects,      \* addresses of deployments in memory
  NoRequest, NoImage, NoObject,
  MaxRuns,      \* bound on the tasks processed
  MaxFaults     \* bound on failed calls that are no conflict, and on crashes

ASSUME RequestAssumption == Requests \subseteq [deployment : Deployments, image : Images]
ASSUME ImageAssumption == FirstImage \in Images
\* Memory always has room for one more.
ASSUME ObjectAssumption ==
  /\ IsFiniteSet(Workers) /\ IsFiniteSet(Deployments) /\ IsFiniteSet(Objects)
  /\ Cardinality(Objects) > Cardinality(Workers) + Cardinality(Deployments)
ASSUME BoundAssumption == MaxRuns \in Nat /\ MaxFaults \in Nat
ASSUME NullAssumption ==
  NoRequest \notin Requests /\ NoImage \notin Images /\ NoObject \notin Objects

VARIABLES
  server,       \* each deployment: its image and the annotation previous-image
  object,       \* the deployments in memory
  fresh,        \* objects with the server's resourceVersion
  cached,       \* Client.cache: the object of each deployment
  pc, cur, dep, tries, result, \* the workers: control and locals of processTask
  before,       \* history: the image each worker's update has replaced
  stray,        \* history: objects with what a failed update left in them
                \* although the server would still accept them
  misled,       \* history: workers that read the old image from one of those
  alone,        \* history: workers with nobody else at their deployment so far
  runs, faults

client == <<object, fresh, cached>>
locals == <<pc, cur, dep, tries, result>>
bounds == <<runs, faults>>
history == <<before, stray, misled, alone>>
vars == <<server, client, locals, history, bounds>>

Content == [image : Images \union {NoImage}, previous : Images \union {NoImage}]
Blank == [image |-> NoImage, previous |-> NoImage]

Init ==
  /\ server = [d \in Deployments |-> [image |-> FirstImage, previous |-> NoImage]]
  /\ object = [o \in Objects |-> Blank]
  /\ fresh = {}
  /\ cached = [d \in Deployments |-> NoObject]
  /\ pc = [w \in Workers |-> "idle"]
  /\ cur = [w \in Workers |-> NoRequest]
  /\ dep = [w \in Workers |-> NoObject]
  /\ tries = [w \in Workers |-> 0]
  /\ result = [w \in Workers |-> "none"]
  /\ before = [w \in Workers |-> NoImage]
  /\ stray = {} /\ misled = {} /\ alone = {}
  /\ runs = 0 /\ faults = 0

-----------------------------------------------------------------------------
(* The cache *)

Dep(w) == cur[w].deployment
Busy == {w \in Workers : cur[w] # NoRequest}

ObjectsOf(d) == {cached[d]} \union {dep[w] : w \in {v \in Busy : Dep(v) = d}}
Free == Objects \ ({cached[d] : d \in Deployments} \union {dep[w] : w \in Workers})

\* GetDeployment: the cached pointer, or a copy that is fetched and cached.
IsCached(w) == cached[Dep(w)] # NoObject
Pointer(w)  == IF IsCached(w) THEN cached[Dep(w)] ELSE CHOOSE o \in Free : TRUE
Found(w)    == IF IsCached(w) THEN object[cached[Dep(w)]] ELSE server[Dep(w)]

\* ... and what its caller makes of the object.
GetDeployment(w, written) ==
  /\ dep' = [dep EXCEPT ![w] = Pointer(w)]
  /\ cached' = [cached EXCEPT ![Dep(w)] = Pointer(w)]
  /\ object' = [object EXCEPT ![Pointer(w)] = written]
  /\ fresh' = IF IsCached(w) THEN fresh ELSE fresh \union {Pointer(w)}
  /\ stray' = IF IsCached(w) THEN stray ELSE stray \ {Pointer(w)}

\* Three attempts fail; the last error is what counts.
Fault == faults < MaxFaults /\ faults' = faults + 1

\* What Update returns is dropped: no pointer has the new resourceVersion.
Written(w) ==
  /\ server' = [server EXCEPT ![Dep(w)] = object[dep[w]]]
  /\ fresh' = fresh \ ObjectsOf(Dep(w))

Update(w) == dep[w] \in fresh /\ Written(w)

\* Mutant of UpdateFails: a conflict renews the resourceVersion in the object.
UpdateFailsRenewed(w) ==
  \/ /\ dep[w] \notin fresh
     /\ fresh' = fresh \union {dep[w]}
     /\ UNCHANGED <<server, stray, faults>>
  \/ /\ dep[w] \in fresh /\ Fault
     /\ stray' = stray \union {dep[w]} /\ UNCHANGED <<server, fresh>>

\* A conflict stays one when it is tried again.  A call that fails otherwise
\* has been applied, and its repetition conflicts, or it has not.
UpdateFails(w) ==
  \/ dep[w] \notin fresh /\ UNCHANGED <<server, fresh, stray, faults>>
  \/ dep[w] \in fresh /\ Fault /\ Written(w) /\ UNCHANGED stray
  \/ /\ dep[w] \in fresh /\ Fault
     /\ stray' = stray \union {dep[w]} /\ UNCHANGED <<server, fresh>>

\* A minute after an object was stored.
CacheExpires(d) ==
  /\ cached[d] # NoObject
  /\ cached' = [cached EXCEPT ![d] = NoObject]
  /\ UNCHANGED <<server, object, fresh, locals, history, bounds>>

\* The deployment controller writes the status.
Touch(d) ==
  /\ ObjectsOf(d) \intersect fresh # {}
  /\ fresh' = fresh \ ObjectsOf(d)
  /\ UNCHANGED <<server, object, cached, locals, history, bounds>>

-----------------------------------------------------------------------------
(* processTask *)

At(w, p) == pc[w] = p
Goto(w, p) == pc' = [pc EXCEPT ![w] = p]
Ends(w, p, r) == Goto(w, p) /\ result' = [result EXCEPT ![w] = r]

Returns(w) ==
  /\ Ends(w, "idle", "none")
  /\ cur' = [cur EXCEPT ![w] = NoRequest]
  /\ dep' = [dep EXCEPT ![w] = NoObject]
  /\ tries' = [tries EXCEPT ![w] = 0]
  /\ before' = [before EXCEPT ![w] = NoImage]
  /\ misled' = misled \ {w} /\ alone' = alone \ {w}

\* A worker takes a task; for an environment that is not configured the task
\* ends at once.
Start(w) ==
  /\ At(w, "idle") /\ runs < MaxRuns
  /\ \/ \E r \in Requests :
          LET others == {v \in Busy : Dep(v) = r.deployment}
          IN /\ cur' = [cur EXCEPT ![w] = r]
             /\ alone' = IF others = {} THEN alone \union {w} ELSE alone \ others
             /\ Goto(w, "getImage")
     \/ UNCHANGED <<cur, pc, alone>>
  /\ runs' = runs + 1
  /\ UNCHANGED <<server, client, dep, tries, result, before, stray, misled, faults>>

\* GetNewImage; when it fails the task ends without a word to the gateway.
GetNewImage(w) ==
  /\ At(w, "getImage")
  /\ \/ /\ GetDeployment(w, Found(w))
        /\ Goto(w, "change")
        /\ UNCHANGED <<cur, tries, result, before, misled, alone, faults>>
     \/ Fault /\ Returns(w) /\ UNCHANGED <<client, stray>>
  /\ UNCHANGED <<server, runs>>

\* UpdateDeployment up to the call of Update.
ChangeImage(w) ==
  /\ At(w, "change")
  /\ \/ /\ GetDeployment(w, [image |-> cur[w].image, previous |-> Found(w).image])
        /\ misled' = IF Pointer(w) \in stray' THEN misled \union {w} ELSE misled
        /\ Goto(w, "put")
        /\ UNCHANGED <<result, faults>>
     \/ Fault /\ Ends(w, "complete", "failed") /\ UNCHANGED <<dep, client, stray, misled>>
  /\ UNCHANGED <<server, cur, tries, before, alone, runs>>

\* Mutant of Put: the error of the update is dropped.
PutUnchecked(w) ==
  /\ At(w, "put")
  /\ Goto(w, "check")
  /\ before' = [before EXCEPT ![w] = server[Dep(w)].image]
  /\ (Update(w) /\ UNCHANGED <<stray, faults>>) \/ UpdateFails(w)
  /\ UNCHANGED <<object, cached, cur, dep, tries, result, misled, alone, runs>>

Put(w) ==
  /\ At(w, "put")
  /\ \/ /\ Update(w) /\ Goto(w, "check")
        /\ before' = [before EXCEPT ![w] = server[Dep(w)].image]
        /\ UNCHANGED <<result, stray, faults>>
     \/ UpdateFails(w) /\ Ends(w, "complete", "failed") /\ UNCHANGED before
  /\ UNCHANGED <<object, cached, cur, dep, tries, misled, alone, runs>>

\* CheckNewPodStatus: all pods run, or the time is over.
CheckPods(w) ==
  /\ At(w, "check")
  /\ Ends(w, "complete", "success") \/ (Goto(w, "rollback") /\ UNCHANGED result)
  /\ UNCHANGED <<server, client, cur, dep, tries, history, bounds>>

\* Mutant of Again: one attempt too many.
AgainMore(w) ==
  /\ tries' = [tries EXCEPT ![w] = @ + 1]
  /\ IF tries[w] > 2 THEN Ends(w, "complete", "stuck")
                     ELSE Goto(w, "rollback") /\ UNCHANGED result

\* Three attempts, each a call of RollbackDeployment.
Again(w) ==
  /\ tries' = [tries EXCEPT ![w] = @ + 1]
  /\ IF tries[w] = 2 THEN Ends(w, "complete", "stuck")
                     ELSE Goto(w, "rollback") /\ UNCHANGED result

\* RollbackDeployment up to the call of Update.  The annotation is gone from the
\* object before Update is called: if that fails, the next attempt that finds
\* the object in the cache finds nothing to go back to.
Rollback(w) ==
  /\ At(w, "rollback")
  /\ \/ /\ Found(w).previous # NoImage
        /\ GetDeployment(w, [image |-> Found(w).previous, previous |-> NoImage])
        /\ Goto(w, "putBack")
        /\ UNCHANGED <<tries, result, faults>>
     \/ /\ Found(w).previous = NoImage
        /\ GetDeployment(w, Found(w)) /\ Again(w)
        /\ UNCHANGED faults
     \/ Fault /\ Again(w) /\ UNCHANGED <<dep, client, stray>>
  /\ UNCHANGED <<server, cur, before, misled, alone, runs>>

PutBack(w) ==
  /\ At(w, "putBack")
  /\ \/ Update(w) /\ Ends(w, "complete", "rolledBack")
                  /\ UNCHANGED <<tries, stray, faults>>
     \/ UpdateFails(w) /\ Again(w)
  /\ UNCHANGED <<object, cached, cur, dep, before, misled, alone, runs>>

\* feedbackCompleteToGateway asks until it is answered.
Complete(w) ==
  /\ At(w, "complete")
  /\ Returns(w)
  /\ UNCHANGED <<server, client, stray, bounds>>

\* The process ends; the queue runs its tasks again after the next start.
Crash ==
  /\ Fault
  /\ object' = [o \in Objects |-> Blank]
  /\ fresh' = {}
  /\ cached' = [d \in Deployments |-> NoObject]
  /\ pc' = [w \in Workers |-> "idle"]
  /\ cur' = [w \in Workers |-> NoRequest]
  /\ dep' = [w \in Workers |-> NoObject]
  /\ tries' = [w \in Workers |-> 0]
  /\ result' = [w \in Workers |-> "none"]
  /\ before' = [w \in Workers |-> NoImage]
  /\ stray' = {} /\ misled' = {} /\ alone' = {}
  /\ UNCHANGED <<server, runs>>

Process(w) == Start(w) \/ GetNewImage(w) \/ ChangeImage(w) \/ Put(w)
              \/ CheckPods(w) \/ Rollback(w) \/ PutBack(w) \/ Complete(w)

Next ==
  \/ \E w \in Workers : Process(w)
  \/ \E d \in Deployments : CacheExpires(d) \/ Touch(d)
  \/ Crash

Spec == Init /\ [][Next]_vars

-----------------------------------------------------------------------------
(* Properties *)

\* Every variable has its type, a worker that has a task is not idle, and no
\* task makes more than three attempts to go back (main.go 337-350).
TypeOK ==
  /\ server \in [Deployments -> [image : Images, previous : Images \union {NoImage}]]
  /\ object \in [Objects -> Content]
  /\ fresh \subseteq Objects
  /\ cached \in [Deployments -> Objects \union {NoObject}]
  /\ pc \in [Workers -> {"idle", "getImage", "change", "put", "check", "rollback",
                         "putBack", "complete"}]
  /\ cur \in [Workers -> Requests \union {NoRequest}]
  /\ dep \in [Workers -> Objects \union {NoObject}]
  /\ \A w \in Workers : pc[w] = "idle" <=> cur[w] = NoRequest
  /\ tries \in [Workers -> 0..3]
  /\ result \in [Workers -> {"none", "failed", "success", "stuck", "rolledBack"}]
  /\ before \in [Workers -> Images \union {NoImage}]
  /\ stray \subseteq Objects /\ misled \union alone \subseteq Workers
  /\ runs \in 0..MaxRuns /\ faults \in 0..MaxFaults

Writing(w) == pc[w] \in {"put", "putBack"}

\* The cache may hold an image that was never deployed, written there by an
\* update that failed.  But as long as the API server would accept the cached
\* object, it says what is deployed, or a worker is about to write it: who fails
\* with a conflict leaves his image in an object that conflicts.  The one other
\* object that lies and is accepted is that of an update that failed three times
\* without a conflict (client.go 106-123, 168-183, 255-279).
AcceptedIsTrue ==
  \A d \in Deployments :
    \/ cached[d] \notin fresh
    \/ object[cached[d]] = server[d]
    \/ cached[d] \in stray
    \/ \E w \in Busy : Writing(w) /\ dep[w] = cached[d]

\* What a worker tells about its task is true when it tells it, if no other
\* worker has had a task for the same deployment meanwhile: after a success the
\* deployment has the task's image, and after a rollback that succeeded the one
\* the task has replaced, although the tasks before it may have left other images
\* in the cache, overlapped each other or failed in any way.  Of these images a
\* single one gets through: that of an update that failed three times without a
\* conflict is taken for the old one by the next task within the minute, and a
\* rollback of that task goes to it (main.go 305-328, 337-350, client.go 168-183,
\* 242-284).
ReportIsTrue ==
  \A w \in alone :
    /\ result[w] = "success" => server[Dep(w)].image = cur[w].image
    /\ result[w] = "rolledBack" /\ w \notin misled => server[Dep(w)].image = before[w]
=============================================================================
