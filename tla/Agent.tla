------------------------------- MODULE Agent -------------------------------
(***************************************************************************)
(* The k8s-cd agent: one poller goroutine reads the confirmed records of   *)
(* the task collections and fills a bounded FIFO queue; a pool of worker   *)
(* goroutines takes the tasks out, marks the records, serialises on one    *)
(* mutex per workload, changes the workload's image, watches the pods and  *)
(* reports.  Every call to MongoDB, to the Kubernetes API or to a shared   *)
(* Go structure is a step of its own.  The process can be stopped, killed  *)
(* and started again; records, images and snapshots survive it.            *)
(***************************************************************************)
EXTENDS Integers, Sequences, FiniteSets

CONSTANTS
  Tasks,          \* task ids (UUIDs given by the approval service)
  Workers,        \* worker goroutines, cfg.Task.QueueWorkers of them
  Services, Namespaces, Envs, Versions,
  LockKeys,       \* strings that name a mutex
  Request,        \* what each task asks for
  NamespaceOf,    \* cfg.EnvMapping.Mappings
  LockKeyOf,      \* "service-namespace", not injective in general
  CreatedAt,      \* the records' created_at
  MaxQueueSize,   \* cfg.Task.MaxQueueSize, 0 for unbounded
  MaxExits,       \* bound on stops and crashes
  MaxFaults,      \* bound on failed calls of MongoDB
  NoWorker, NoTask, NoTag,
  UnknownTag      \* the tag "unknown" of handlePermanentFailure

Workloads == Services \X Namespaces

RequestType == [service : Services, version : Versions,
                env : Envs,         \* the collection the record is in
                firstEnv : Envs]    \* Environments[0] of the record

ASSUME RequestAssumption == Request \in [Tasks -> RequestType]
ASSUME NamespaceAssumption == NamespaceOf \in [Envs -> Namespaces]
ASSUME LockKeyAssumption == LockKeyOf \in [Workloads -> LockKeys]
ASSUME CreatedAtAssumption == CreatedAt \in [Tasks -> Nat]
ASSUME QueueAssumption == MaxQueueSize \in Nat
ASSUME BoundAssumption == MaxExits \in Nat /\ MaxFaults \in Nat
ASSUME NullAssumption ==
  /\ NoWorker \notin Workers
  /\ NoTask \notin Tasks
  /\ NoTag \notin Versions
  /\ UnknownTag \notin Versions
  /\ UnknownTag # NoTag

VARIABLES
  conf,       \* confirmation_status of each record, and whether it exists
  status,     \* status of each record, "none" when there is no record
  image,      \* image tag in each workload's pod template
  snapshots,  \* collection image_snapshots
  outcome,    \* last Telegram notification about each task
  queue,      \* TaskQueue.queue
  toPoll,     \* environments the poller has still to read in this tick
  batch,      \* records read and not yet enqueued
  locks,      \* TaskQueue.locks: the mutex of a key, named by its creator
  holder,     \* who holds each mutex
  pc, cur, handle, oldTag, result, pass,  \* each worker's control and locals
  proc,       \* the process: "up", "stopping", "down"
  exit,       \* how the process ended, "none" while it runs
  exits, faults

records == <<conf, status>>
cluster == <<image, snapshots>>
poller  == <<toPoll, batch>>
mutexes == <<locks, holder>>
worker  == <<pc, cur, handle, oldTag, result, pass>>
process == <<proc, exit, exits>>
vars == <<records, cluster, outcome, queue, poller, mutexes, worker,
          process, faults>>

-----------------------------------------------------------------------------
(* Records *)

Live(t) == conf[t] \in {"awaiting", "confirmed", "executed"}

SameSlot(t, u, env) ==
  /\ Request[u].service = Request[t].service
  /\ Request[u].version = Request[t].version
  /\ Request[u].env = env

\* Mutant of Hit: the filter forgets the version.
HitAnyVersion(t) == {u \in Tasks : Live(u) /\ Request[u].service = Request[t].service
                                          /\ Request[u].env = Request[t].firstEnv}

\* The record a filter on service and version finds in the collection of the
\* task's first environment.
Hit(t) == {u \in Tasks : Live(u) /\ SameSlot(t, u, Request[t].firstEnv)}

Workload(t) == <<Request[t].service, NamespaceOf[Request[t].env]>>
LockKey(t)  == LockKeyOf[Workload(t)]

-----------------------------------------------------------------------------
NoRecords ==
  /\ conf = [t \in Tasks |-> "absent"]
  /\ status = [t \in Tasks |-> "none"]

Started ==
  /\ image \in [Workloads -> Versions]
  /\ snapshots = {}
  /\ outcome = [t \in Tasks |-> "none"]
  /\ queue = <<>>
  /\ toPoll = {}
  /\ batch = {}
  /\ locks = [k \in LockKeys |-> NoWorker]
  /\ holder = [m \in LockKeys \X Workers |-> NoWorker]
  /\ pc = [w \in Workers |-> "idle"]
  /\ cur = [w \in Workers |-> NoTask]
  /\ handle = [w \in Workers |-> NoWorker]
  /\ oldTag = [w \in Workers |-> NoTag]
  /\ result = [w \in Workers |-> "none"]
  /\ pass = [w \in Workers |-> 1]
  /\ proc = "up"
  /\ exit = "none"
  /\ exits = 0
  /\ faults = 0

Init == NoRecords /\ Started

-----------------------------------------------------------------------------
(* The approval service, as the agent sees it: it stores a record under a  *)
(* unique (service, version, environment) and later confirms it.           *)

Submit(t) ==
  /\ conf[t] = "absent"
  /\ \A u \in Tasks : ~(Live(u) /\ SameSlot(t, u, Request[t].env))
  /\ conf' = [conf EXCEPT ![t] = "awaiting"]
  /\ status' = [status EXCEPT ![t] = "pending"]
  /\ UNCHANGED <<cluster, outcome, queue, poller, mutexes, worker,
                 process, faults>>

Approve(t) ==
  /\ conf[t] = "awaiting"
  /\ conf' = [conf EXCEPT ![t] = "confirmed"]
  /\ UNCHANGED <<status, cluster, outcome, queue, poller, mutexes, worker,
                 process, faults>>

-----------------------------------------------------------------------------
(* periodicPollTasksFromMongo *)

\* A call of MongoDB fails.
CallFails == faults < MaxFaults /\ faults' = faults + 1

\* The ticker starts a round over all environments, in the order of a Go map.
Round == IF toPoll = {} THEN Envs ELSE toPoll

\* Mutant of PollRead: the filter names the record's first environment.
PollReadFirst(e) ==
  /\ proc # "down"
  /\ e \in Round /\ batch = {}
  /\ toPoll' = Round \ {e}
  /\ batch' = {t \in Tasks : /\ conf[t] = "confirmed"
                             /\ Request[t].env = e /\ Request[t].firstEnv = e}
  /\ UNCHANGED <<records, cluster, outcome, queue, mutexes, worker, process,
                 faults>>

\* An environment whose query fails is left out of the round.
PollRead(e) ==
  /\ proc # "down"
  /\ e \in Round /\ batch = {}
  /\ toPoll' = Round \ {e}
  /\ \/ /\ batch' = {t \in Tasks : conf[t] = "confirmed" /\ Request[t].env = e}
        /\ UNCHANGED faults
     \/ CallFails /\ UNCHANGED batch
  /\ UNCHANGED <<records, cluster, outcome, queue, mutexes, worker, process>>

QueueFull == MaxQueueSize > 0 /\ Len(queue) >= MaxQueueSize

\* Records are enqueued in created_at order; a full queue drops the task.
Enqueue(t) ==
  /\ proc # "down"
  /\ t \in batch
  /\ \A u \in batch : CreatedAt[t] <= CreatedAt[u]
  /\ batch' = batch \ {t}
  /\ queue' = IF QueueFull THEN queue ELSE Append(queue, t)
  /\ UNCHANGED <<records, cluster, outcome, toPoll, mutexes, worker, process,
                 faults>>

Poll == (\E e \in Envs : PollRead(e)) \/ (\E t \in Tasks : Enqueue(t))

-----------------------------------------------------------------------------
(* A worker, from the queue to the mutex *)

At(w, p) == proc # "down" /\ pc[w] = p
Goto(w, p) == pc' = [pc EXCEPT ![w] = p]

\* The select prefers a closed stopCh, so a stopping worker takes nothing.
Dequeue(w) ==
  /\ At(w, "idle") /\ proc = "up"
  /\ queue # <<>>
  /\ cur' = [cur EXCEPT ![w] = Head(queue)]
  /\ queue' = Tail(queue)
  /\ Goto(w, "markExecuted")
  /\ UNCHANGED <<records, cluster, outcome, poller, mutexes, handle, oldTag,
                 result, pass, process, faults>>

\* The record is found by task id; a failed write is ignored.
MarkExecuted(w) ==
  /\ At(w, "markExecuted")
  /\ \/ /\ conf' = IF Live(cur[w]) THEN [conf EXCEPT ![cur[w]] = "executed"]
                                   ELSE conf
        /\ UNCHANGED faults
     \/ CallFails /\ UNCHANGED conf
  /\ Goto(w, "markRunning")
  /\ UNCHANGED <<status, cluster, outcome, queue, poller, mutexes, cur,
                 handle, oldTag, result, pass, process>>

SetStatus(w, s) ==
  status' = [t \in Tasks |-> IF t \in Hit(cur[w]) THEN s ELSE status[t]]

MarkRunning(w) ==
  /\ At(w, "markRunning")
  /\ \/ SetStatus(w, "running") /\ UNCHANGED faults
     \/ CallFails /\ UNCHANGED status
  /\ Goto(w, "getLock")
  /\ UNCHANGED <<conf, cluster, outcome, queue, poller, mutexes, cur, handle,
                 oldTag, result, pass, process>>

\* getLock, first half: look the key up under the read lock.
GetLock(w) ==
  LET m == locks[LockKey(cur[w])]
  IN /\ At(w, "getLock")
     /\ handle' = [handle EXCEPT ![w] = m]
     /\ Goto(w, IF m = NoWorker THEN "newLock" ELSE "lock")
     /\ UNCHANGED <<records, cluster, outcome, queue, poller, mutexes, cur,
                    oldTag, result, pass, process, faults>>

\* Mutant of NewLock: the second look-up is missing.
NewLockUnchecked(w) ==
  LET k == LockKey(cur[w])
  IN /\ At(w, "newLock")
     /\ locks' = [locks EXCEPT ![k] = w]
     /\ handle' = [handle EXCEPT ![w] = w]
     /\ Goto(w, "lock")
     /\ UNCHANGED <<records, cluster, outcome, queue, poller, holder, cur,
                    oldTag, result, pass, process, faults>>

\* getLock, second half: under the write lock the key is looked up again
\* before a new mutex is stored.
NewLock(w) ==
  LET k == LockKey(cur[w])
      m == IF locks[k] = NoWorker THEN w ELSE locks[k]
  IN /\ At(w, "newLock")
     /\ locks' = [locks EXCEPT ![k] = m]
     /\ handle' = [handle EXCEPT ![w] = m]
     /\ Goto(w, "lock")
     /\ UNCHANGED <<records, cluster, outcome, queue, poller, holder, cur,
                    oldTag, result, pass, process, faults>>

Mutex(w) == <<LockKey(cur[w]), handle[w]>>

\* Mutant of Lock: a try-lock whose answer is ignored.
LockUnguarded(w) ==
  /\ At(w, "lock")
  /\ holder' = [holder EXCEPT ![Mutex(w)] = w]
  /\ Goto(w, "snapshot")
  /\ UNCHANGED <<records, cluster, outcome, queue, poller, locks, cur, handle,
                 oldTag, result, pass, process, faults>>

Lock(w) ==
  /\ At(w, "lock")
  /\ holder[Mutex(w)] = NoWorker
  /\ holder' = [holder EXCEPT ![Mutex(w)] = w]
  /\ Goto(w, "snapshot")
  /\ UNCHANGED <<records, cluster, outcome, queue, poller, locks, cur, handle,
                 oldTag, result, pass, process, faults>>

-----------------------------------------------------------------------------
(* executeTask, under the mutex.  Any API call may fail. *)

\* A failure leaves executeTask through handleFailure, the first of two passes.
Fail(w) ==
  /\ Goto(w, "rollback")
  /\ result' = [result EXCEPT ![w] = "failure"]

Snapshot(w) ==
  LET tag == image[Workload(cur[w])]
  IN /\ At(w, "snapshot")
     /\ \/ /\ oldTag' = [oldTag EXCEPT ![w] = tag]
           /\ snapshots' = snapshots \union
                {[workload |-> Workload(cur[w]), task |-> cur[w], tag |-> tag]}
           /\ Goto(w, "prune")
           /\ UNCHANGED result
        \/ /\ Fail(w)
           /\ UNCHANGED <<oldTag, snapshots>>
     /\ UNCHANGED <<records, image, outcome, queue, poller, mutexes, cur,
                    handle, pass, process, faults>>

\* Mutant of Prune: the cleanup spares no task.
PruneAll(w) ==
  /\ At(w, "prune")
  /\ snapshots' = {s \in snapshots : s.workload # Workload(cur[w])}
  /\ Goto(w, "update")
  /\ UNCHANGED <<records, image, outcome, queue, poller, mutexes, cur, handle,
                 oldTag, result, pass, process, faults>>

\* DeleteSnapshotsExceptTask; its error is ignored.
Prune(w) ==
  /\ At(w, "prune")
  /\ \/ /\ snapshots' = {s \in snapshots :
                           s.workload = Workload(cur[w]) => s.task = cur[w]}
        /\ UNCHANGED faults
     \/ CallFails /\ UNCHANGED snapshots
  /\ Goto(w, "update")
  /\ UNCHANGED <<records, image, outcome, queue, poller, mutexes, cur, handle,
                 oldTag, result, pass, process>>

\* Mutant of UpdateImage: the error of the update is dropped.
UpdateErrorDropped(w) ==
  LET updated == [image EXCEPT ![Workload(cur[w])] = Request[cur[w]].version]
  IN /\ At(w, "update")
     /\ image' \in {image, updated}
     /\ Goto(w, "check")
     /\ UNCHANGED <<records, snapshots, outcome, queue, poller, mutexes, cur,
                    handle, oldTag, result, pass, process, faults>>

\* An update may fail, before or after the API server has applied it.
UpdateImage(w) ==
  LET updated == [image EXCEPT ![Workload(cur[w])] = Request[cur[w]].version]
  IN
  /\ At(w, "update")
  /\ \/ /\ image' = updated
        /\ Goto(w, "check")
        /\ UNCHANGED result
     \/ /\ Fail(w)
        /\ image' \in {image, updated}
  /\ UNCHANGED <<records, snapshots, outcome, queue, poller, mutexes, cur,
                 handle, oldTag, pass, process, faults>>

\* checkNewPodStatusWithEvents answers "success" or "rollback", nothing else.
CheckPods(w) ==
  /\ At(w, "check")
  /\ \/ /\ result' = [result EXCEPT ![w] = "success"]
        /\ Goto(w, "report")
     \/ Fail(w)
  /\ UNCHANGED <<records, cluster, outcome, queue, poller, mutexes, cur,
                 handle, oldTag, pass, process, faults>>

-----------------------------------------------------------------------------
(* handleSuccess and handleFailure *)

\* Mutant of RollbackWithSnapshot: the check of the snapshot is missing.
RollbackUnchecked(snapshot, current) == snapshot.tag

\* RollbackWithSnapshot refuses a snapshot without an image.
RollbackWithSnapshot(snapshot, current) ==
  IF snapshot.image = NoTag THEN current ELSE snapshot.tag

Rollback(w) ==
  LET k == Workload(cur[w])
  IN /\ At(w, "rollback")
     /\ image' = IF oldTag[w] = NoTag THEN image
                 ELSE [image EXCEPT ![k] =
                        RollbackWithSnapshot([image |-> NoTag, tag |-> oldTag[w]], @)]
     /\ Goto(w, "report")
     /\ UNCHANGED <<records, snapshots, outcome, queue, poller, mutexes, cur,
                    handle, oldTag, result, pass, process, faults>>

Report(w) ==
  /\ At(w, "report")
  /\ \/ /\ SetStatus(w, IF result[w] = "success" THEN "succeeded" ELSE "failed")
        /\ UNCHANGED faults
     \/ CallFails /\ UNCHANGED status
  /\ Goto(w, "delete")
  /\ UNCHANGED <<conf, cluster, outcome, queue, poller, mutexes, cur, handle,
                 oldTag, result, pass, process>>

\* Mutant of DeleteTask: a failed task keeps its record.
DeleteSucceeded(w) ==
  /\ At(w, "delete")
  /\ conf' = [t \in Tasks |-> IF t \in Hit(cur[w]) /\ result[w] = "success"
                               THEN "deleted" ELSE conf[t]]
  /\ Goto(w, "notify")
  /\ UNCHANGED <<status, cluster, outcome, queue, poller, mutexes, cur,
                 handle, oldTag, result, pass, process, faults>>

DeleteTask(w) ==
  /\ At(w, "delete")
  /\ \/ /\ conf' = [t \in Tasks |-> IF t \in Hit(cur[w]) THEN "deleted" ELSE conf[t]]
        /\ SetStatus(w, "none")
        /\ UNCHANGED faults
     \/ CallFails /\ UNCHANGED records
  /\ Goto(w, "notify")
  /\ UNCHANGED <<cluster, outcome, queue, poller, mutexes, cur,
                 handle, oldTag, result, pass, process>>

\* A failed task goes through handleFailure once more, from
\* handlePermanentFailure, with the tag "unknown".
Notify(w) ==
  LET again == result[w] = "failure" /\ pass[w] = 1
  IN /\ At(w, "notify")
     /\ outcome' = [outcome EXCEPT ![cur[w]] = result[w]]
     /\ Goto(w, IF again THEN "rollback" ELSE "unlock")
     /\ pass' = [pass EXCEPT ![w] = IF again THEN 2 ELSE @]
     /\ oldTag' = [oldTag EXCEPT ![w] = IF again THEN UnknownTag ELSE @]
     /\ UNCHANGED <<records, cluster, queue, poller, mutexes, cur, handle,
                    result, process, faults>>

\* Mutant of Unlock: the mutex is kept.
UnlockForgotten(w) ==
  /\ At(w, "unlock")
  /\ Goto(w, "idle")
  /\ cur' = [cur EXCEPT ![w] = NoTask]
  /\ handle' = [handle EXCEPT ![w] = NoWorker]
  /\ oldTag' = [oldTag EXCEPT ![w] = NoTag]
  /\ result' = [result EXCEPT ![w] = "none"]
  /\ pass' = [pass EXCEPT ![w] = 1]
  /\ UNCHANGED <<records, cluster, outcome, queue, poller, mutexes, process,
                 faults>>

Unlock(w) ==
  /\ At(w, "unlock")
  /\ holder' = [holder EXCEPT ![Mutex(w)] = NoWorker]
  /\ Goto(w, "idle")
  /\ cur' = [cur EXCEPT ![w] = NoTask]
  /\ handle' = [handle EXCEPT ![w] = NoWorker]
  /\ oldTag' = [oldTag EXCEPT ![w] = NoTag]
  /\ result' = [result EXCEPT ![w] = "none"]
  /\ pass' = [pass EXCEPT ![w] = 1]
  /\ UNCHANGED <<records, cluster, outcome, queue, poller, locks, process,
                 faults>>

-----------------------------------------------------------------------------
(* The process: SIGTERM, exit, crash, restart *)

\* The process ends and everything it kept in memory is gone.
Dies(how) ==
  /\ proc' = "down"
  /\ exit' = how
  /\ queue' = <<>>
  /\ toPoll' = {} /\ batch' = {}
  /\ locks' = [k \in LockKeys |-> NoWorker]
  /\ holder' = [m \in LockKeys \X Workers |-> NoWorker]
  /\ pc' = [w \in Workers |-> "idle"]
  /\ cur' = [w \in Workers |-> NoTask]
  /\ handle' = [w \in Workers |-> NoWorker]
  /\ oldTag' = [w \in Workers |-> NoTag]
  /\ result' = [w \in Workers |-> "none"]
  /\ pass' = [w \in Workers |-> 1]
  /\ UNCHANGED <<records, cluster, outcome, faults>>

StopSignal ==
  /\ proc = "up"
  /\ exits < MaxExits
  /\ proc' = "stopping"
  /\ exits' = exits + 1
  /\ UNCHANGED <<records, cluster, outcome, queue, poller, mutexes, worker,
                 exit, faults>>

WorkerStops(w) ==
  /\ At(w, "idle") /\ proc = "stopping"
  /\ Goto(w, "stopped")
  /\ UNCHANGED <<records, cluster, outcome, queue, poller, mutexes, cur,
                 handle, oldTag, result, pass, process, faults>>

\* When every worker has returned, Stop unlocks every mutex of the map.
\* Unlocking a free sync.Mutex is a fatal error, which recover() cannot catch.
StopUnlocks ==
  LET free(k) == locks[k] # NoWorker /\ holder[<<k, locks[k]>>] = NoWorker
  IN /\ proc = "stopping"
     /\ \A w \in Workers : pc[w] = "stopped"
     /\ Dies(IF \E k \in LockKeys : free(k) THEN "fatal" ELSE "clean")
     /\ UNCHANGED exits

\* main gives Stop 10 s, less than the 20 s that Stop gives the workers.
GraceExpires ==
  /\ proc = "stopping"
  /\ \E w \in Workers : pc[w] # "stopped"
  /\ Dies("forced")
  /\ UNCHANGED exits

Crash ==
  /\ proc = "up"
  /\ exits < MaxExits
  /\ exits' = exits + 1
  /\ Dies("crash")

Restart ==
  /\ proc = "down"
  /\ proc' = "up" /\ exit' = "none"
  /\ UNCHANGED <<records, cluster, outcome, queue, poller, mutexes, worker,
                 exits, faults>>

-----------------------------------------------------------------------------
Prepare(w) == Dequeue(w) \/ MarkExecuted(w) \/ MarkRunning(w)
              \/ GetLock(w) \/ NewLock(w) \/ Lock(w)
Execute(w) == Snapshot(w) \/ Prune(w) \/ UpdateImage(w) \/ CheckPods(w)
Settle(w)  == Rollback(w) \/ Report(w) \/ DeleteTask(w) \/ Notify(w) \/ Unlock(w)
Work(w)    == Prepare(w) \/ Execute(w) \/ Settle(w) \/ WorkerStops(w)

Approval == \E t \in Tasks : Submit(t) \/ Approve(t)
Process  == StopSignal \/ StopUnlocks \/ GraceExpires \/ Crash \/ Restart

\* The steps of the agent itself.
AgentNext == Poll \/ (\E w \in Workers : Work(w)) \/ Process

Next == Approval \/ AgentNext

Spec == Init /\ [][Next]_vars

\* The ticker and the goroutines run as long as the process does, a stopping
\* process ends at the latest when main's timer fires, and the deployment that
\* runs the process starts it again.  Nothing makes a user submit or approve,
\* and nothing makes the process stop.
Goroutines == WF_vars(Poll) /\ \A w \in Workers : WF_vars(Work(w))
Supervision == WF_vars(StopUnlocks \/ GraceExpires) /\ WF_vars(Restart)
Fairness == Goroutines /\ Supervision

FairSpec == Spec /\ Fairness

-----------------------------------------------------------------------------
(* Properties *)

PCs == {"idle", "markExecuted", "markRunning", "getLock", "newLock", "lock",
        "snapshot", "prune", "update", "check", "rollback", "report",
        "delete", "notify", "unlock", "stopped"}

Snapshots == [workload : Workloads, task : Tasks, tag : Versions]

\* Every variable stays in its type: in particular no image ever gets the
\* tag "unknown" and a busy worker always has a task.
TypeOK ==
  /\ conf \in [Tasks -> {"absent", "awaiting", "confirmed", "executed", "deleted"}]
  /\ status \in [Tasks -> {"none", "pending", "running", "succeeded", "failed"}]
  /\ image \in [Workloads -> Versions]
  /\ snapshots \subseteq Snapshots
  /\ outcome \in [Tasks -> {"none", "success", "failure"}]
  /\ queue \in Seq(Tasks)
  /\ toPoll \subseteq Envs
  /\ batch \subseteq Tasks
  /\ locks \in [LockKeys -> Workers \union {NoWorker}]
  /\ holder \in [LockKeys \X Workers -> Workers \union {NoWorker}]
  /\ pc \in [Workers -> PCs]
  /\ cur \in [Workers -> Tasks \union {NoTask}]
  /\ \A w \in Workers : cur[w] = NoTask => pc[w] \in {"idle", "stopped"}
  /\ handle \in [Workers -> Workers \union {NoWorker}]
  /\ oldTag \in [Workers -> Versions \union {NoTag, UnknownTag}]
  /\ result \in [Workers -> {"none", "success", "failure"}]
  /\ pass \in [Workers -> 1..2]
  /\ proc \in {"up", "stopping", "down"}
  /\ exit \in {"none", "clean", "fatal", "forced", "crash"}
  /\ exits \in 0..MaxExits
  /\ faults \in 0..MaxFaults

Critical == {"snapshot", "prune", "update", "check", "rollback", "report",
             "delete", "notify", "unlock"}

InCritical(w) == pc[w] \in Critical

\* Two workers never work on one workload at the same time: getLock hands
\* every worker the same mutex for a workload, although two workers may find
\* the key missing together, and executeTask runs under it (task.go 67-84).
WorkloadExclusive ==
  \A v, w \in Workers :
    InCritical(v) /\ InCritical(w) /\ v # w => Workload(cur[v]) # Workload(cur[w])

Verified(w) ==
  \/ pc[w] = "check"
  \/ pc[w] \in {"report", "delete", "notify", "unlock"} /\ result[w] = "success"

\* From the update of the image until the mutex is released the workload has
\* the version of the task whose pods are checked and whose success is
\* reported: no other task replaces it in between (task.go 136-161).
ImageIsHolders ==
  \A w \in Workers :
    Verified(w) => image[Workload(cur[w])] = Request[cur[w]].version

\* As long as a task holds its workload the snapshot it took is in
\* image_snapshots: the cleanup of another task never removes it
\* (k8s_client.go 288-302, mongo_client.go 84-98).
SnapshotSurvives ==
  \A w \in Workers :
    InCritical(w) /\ oldTag[w] \in Versions =>
      [workload |-> Workload(cur[w]), task |-> cur[w], tag |-> oldTag[w]] \in snapshots

\* A record marked executed belongs to a worker that is at it, unless the
\* process ended in between, a delete failed, or the record is not in the
\* collection of its first environment (task.go 112-118, 247-269).
OrphanExplained ==
  \A t \in Tasks :
    conf[t] = "executed" =>
      \/ \E w \in Workers : cur[w] = t /\ pc[w] # "notify" /\ pc[w] # "unlock"
      \/ exits > 0 \/ faults > 0
      \/ Request[t].firstEnv # Request[t].env

\* The agent deletes no record of a task it has not carried out, unless the
\* process ended before the result was announced, or another task names the
\* slot of the record as its own (task.go 247-269, mongo_client.go 109-124).
DeletedOnlyWhenDone ==
  \A t \in Tasks :
    conf[t] = "deleted" =>
      \/ outcome[t] # "none"
      \/ \E w \in Workers : cur[w] = t /\ pc[w] = "notify"
      \/ exits > 0
      \/ \E u \in Tasks \ {t} : SameSlot(u, t, Request[u].firstEnv)

\* A workload's rollouts are serial, and a success is announced only while
\* the workload has the announced version.
Occupant(k) == {w \in Workers : InCritical(w) /\ Workload(cur[w]) = k}

\* The task that occupies a workload.
Busy == [k \in Workloads |->
           IF Occupant(k) = {} THEN NoTask ELSE cur[CHOOSE w \in Occupant(k) : TRUE]]

VersionOf  == [t \in Tasks |-> Request[t].version]
WorkloadOf == [t \in Tasks |-> Workload(t)]

Serial == INSTANCE SerialRollouts WITH
  Version <- VersionOf, WorkloadOf <- WorkloadOf, busy <- Busy

ImplementsSerialRollouts == Serial!Spec

\* The code's claim (task.go 4, 316, 332): stopping never crashes.
StopNeverCrashes == exit # "fatal"

\* The code's claim (task.go 3, 247-269): a task that is over has its record
\* deleted, so that it is not carried out twice; its own, not that of another one.
DeletesItsOwnRecord ==
  [][\A t \in Tasks :
       Live(t) /\ conf'[t] = "deleted" =>
         \E w \in Workers : pc[w] = "delete" /\ cur[w] = t]_vars

\* A confirmed task is carried out: whatever is in front of it in the queue,
\* whoever holds its mutex and however often a full queue drops it, a result
\* is announced.
ConfirmedIsCarriedOut ==
  \A t \in Tasks : conf[t] = "confirmed" ~> outcome[t] # "none"

\* Even if the process is stopped or killed, a confirmed record does not stay
\* confirmed: a later poll finds it.
ConfirmedIsPickedUp ==
  \A t \in Tasks : conf[t] = "confirmed" ~> conf[t] # "confirmed"
=============================================================================
