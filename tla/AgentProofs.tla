---------------------------- MODULE AgentProofs ----------------------------
(***************************************************************************)
(* What holds of the agent for every set of tasks and workers, every queue *)
(* size and any number of exits and faults: its variables stay in their    *)
(* types, two workers never share a workload, and the workload keeps the   *)
(* version whose success is being reported.                                *)
(***************************************************************************)
EXTENDS Agent, TLAPS

\* Whether a call fails matters to no proof but through the count of faults.
USE DEF CallFails

\* What a task asks for is of the declared types.
LEMMA WorkloadType ==
  ASSUME NEW t \in Tasks
  PROVE  /\ Request[t] \in RequestType
         /\ Request[t].version \in Versions
         /\ Workload(t) \in Workloads
         /\ LockKey(t) \in LockKeys
  BY RequestAssumption, NamespaceAssumption, LockKeyAssumption
     DEF RequestType, Workload, LockKey, Workloads

LEMMA InitType == Init => TypeOK
  BY BoundAssumption DEF Init, NoRecords, Started, TypeOK, PCs

LEMMA NextType == TypeOK /\ [Next]_vars => TypeOK'
<1> SUFFICES ASSUME TypeOK, [Next]_vars PROVE TypeOK'
    OBVIOUS
<1> USE BoundAssumption, NullAssumption DEF TypeOK, PCs
<1>1. ASSUME NEW t \in Tasks, Submit(t) PROVE TypeOK'
  BY <1>1 DEF Submit, cluster, poller, mutexes, worker, process
<1>2. ASSUME NEW t \in Tasks, Approve(t) PROVE TypeOK'
  BY <1>2 DEF Approve, cluster, poller, mutexes, worker, process
<1>3. ASSUME NEW e \in Envs, PollRead(e) PROVE TypeOK'
  BY <1>3 DEF PollRead, Round, records, cluster, mutexes, worker, process
<1>4. ASSUME NEW t \in Tasks, Enqueue(t) PROVE TypeOK'
  BY <1>4 DEF Enqueue, QueueFull, records, cluster, mutexes, worker, process
<1>5. ASSUME NEW w \in Workers, Prepare(w) PROVE TypeOK'
  <2>1. CASE Dequeue(w)
    BY <2>1 DEF Dequeue, At, Goto, records, cluster, poller, mutexes, process
  <2>2. CASE MarkExecuted(w)
    <3>1. /\ conf' \in [Tasks -> {"absent", "awaiting", "confirmed", "executed", "deleted"}]
          /\ faults' \in 0..MaxFaults
      BY <2>2 DEF MarkExecuted, Live
    <3>2. /\ pc' \in [Workers -> PCs]
          /\ \A v \in Workers : cur'[v] = NoTask => pc'[v] \in {"idle", "stopped"}
      BY <2>2 DEF MarkExecuted, At, Goto
    <3> QED BY <2>2, <3>1, <3>2 DEF MarkExecuted, cluster, poller, mutexes, process
  <2>3. CASE MarkRunning(w)
    BY <2>3 DEF MarkRunning, SetStatus, At, Goto, cluster, poller, mutexes, process
  <2>4. CASE GetLock(w)
    BY <2>4, WorkloadType DEF GetLock, At, Goto, records, cluster, poller, mutexes, process
  <2>5. CASE NewLock(w)
    BY <2>5, WorkloadType DEF NewLock, At, Goto, records, cluster, poller, process
  <2>6. CASE Lock(w)
    BY <2>6, WorkloadType DEF Lock, Mutex, At, Goto, records, cluster, poller, process
  <2> QED BY <1>5, <2>1, <2>2, <2>3, <2>4, <2>5, <2>6 DEF Prepare
<1>6. ASSUME NEW w \in Workers, Execute(w) PROVE TypeOK'
  <2>1. CASE Snapshot(w)
    <3>1. cur[w] \in Tasks
      BY <2>1 DEF Snapshot, At
    <3>2. /\ oldTag' \in [Workers -> Versions \union {NoTag, UnknownTag}]
          /\ snapshots' \subseteq Snapshots
      BY <2>1, <3>1, WorkloadType DEF Snapshot, Snapshots
    <3>3. /\ pc' \in [Workers -> PCs]
          /\ result' \in [Workers -> {"none", "success", "failure"}]
          /\ \A v \in Workers : cur'[v] = NoTask => pc'[v] \in {"idle", "stopped"}
      BY <2>1 DEF Snapshot, Fail, At, Goto
    <3> QED BY <2>1, <3>2, <3>3 DEF Snapshot, records, poller, mutexes, process
  <2>2. CASE Prune(w)
    BY <2>2 DEF Prune, At, Goto, records, poller, mutexes, process
  <2>3. CASE UpdateImage(w)
    BY <2>3, WorkloadType
       DEF UpdateImage, Fail, At, Goto, records, poller, mutexes, process
  <2>4. CASE CheckPods(w)
    BY <2>4 DEF CheckPods, Fail, At, Goto, records, cluster, poller, mutexes, process
  <2> QED BY <1>6, <2>1, <2>2, <2>3, <2>4 DEF Execute
<1>7. ASSUME NEW w \in Workers, Settle(w) PROVE TypeOK'
  <2>1. CASE Rollback(w)
    BY <2>1, WorkloadType
       DEF Rollback, RollbackWithSnapshot, At, Goto, records, poller, mutexes, process
  <2>2. CASE Report(w)
    BY <2>2 DEF Report, SetStatus, At, Goto, cluster, poller, mutexes, process
  <2>3. CASE DeleteTask(w)
    BY <2>3 DEF DeleteTask, SetStatus, At, Goto, records, cluster, poller, mutexes, process
  <2>4. CASE Notify(w)
    BY <2>4 DEF Notify, At, Goto, records, cluster, poller, mutexes, process
  <2>5. CASE Unlock(w)
    <3>1. /\ pc' \in [Workers -> PCs]
          /\ cur' \in [Workers -> Tasks \union {NoTask}]
          /\ \A v \in Workers : cur'[v] = NoTask => pc'[v] \in {"idle", "stopped"}
      BY <2>5 DEF Unlock, At, Goto
    <3>2. holder' \in [LockKeys \X Workers -> Workers \union {NoWorker}]
      BY <2>5 DEF Unlock
    <3> QED BY <2>5, <3>1, <3>2 DEF Unlock, records, cluster, poller, process
  <2> QED BY <1>7, <2>1, <2>2, <2>3, <2>4, <2>5 DEF Settle
<1>8. ASSUME NEW w \in Workers, WorkerStops(w) PROVE TypeOK'
  BY <1>8 DEF WorkerStops, At, Goto, records, cluster, poller, mutexes, process
<1>9. ASSUME Process PROVE TypeOK'
  <2>1. CASE StopSignal
    BY <2>1 DEF StopSignal, records, cluster, poller, mutexes, worker
  <2>2. ASSUME NEW how \in {"clean", "fatal", "forced", "crash"}, Dies(how),
               exits' \in 0..MaxExits
        PROVE  TypeOK'
    BY <2>2 DEF Dies, records, cluster
  <2>3. CASE StopUnlocks
    BY <2>2, <2>3 DEF StopUnlocks
  <2>4. CASE GraceExpires
    BY <2>2, <2>4 DEF GraceExpires
  <2>5. CASE Crash
    BY <2>2, <2>5 DEF Crash
  <2>6. CASE Restart
    BY <2>6 DEF Restart, records, cluster, poller, mutexes, worker
  <2> QED BY <1>9, <2>1, <2>3, <2>4, <2>5, <2>6 DEF Process
<1>10. CASE UNCHANGED vars
  BY <1>10 DEF vars, records, cluster, poller, mutexes, worker, process
<1> QED
  BY <1>1, <1>2, <1>3, <1>4, <1>5, <1>6, <1>7, <1>8, <1>9, <1>10
     DEF Next, Approval, AgentNext, Poll, Work

\* Every variable of the agent stays in its type, whatever its steps.
THEOREM TypeCorrect == Spec => []TypeOK
  BY InitType, NextType, PTL DEF Spec
-----------------------------------------------------------------------------
(* Mutual exclusion.  The mutex a worker waits for or holds is the one the  *)
(* map has under its key, and a worker in its critical section holds it:    *)
(* with that, two workers on one workload would hold one mutex.             *)

UsesMapMutex(w) ==
  pc[w] \in Critical \union {"lock"} =>
    handle[w] \in Workers /\ locks[LockKey(cur[w])] = handle[w]

HoldsMutex(w) == InCritical(w) => holder[Mutex(w)] = w

MutexInv == \A w \in Workers : UsesMapMutex(w) /\ HoldsMutex(w)

LEMMA InitMutex == Init => MutexInv
  BY DEF Init, Started, MutexInv, UsesMapMutex, HoldsMutex, InCritical, Critical

\* A step that moves one worker without letting it enter the critical section
\* or wait for it, and leaves tasks and mutexes alone.
LEMMA MoveKeepsMutex ==
  ASSUME TypeOK, MutexInv, NEW w \in Workers, NEW p \in PCs,
         Goto(w, p), UNCHANGED <<cur, handle, mutexes>>,
         p \in Critical => pc[w] \in Critical, p # "lock"
  PROVE  MutexInv'
<1> SUFFICES ASSUME NEW v \in Workers PROVE (UsesMapMutex(v) /\ HoldsMutex(v))'
  BY DEF MutexInv
<1>1. pc'[v] \in Critical \union {"lock"} => pc[v] \in Critical \union {"lock"}
  BY DEF Goto, TypeOK
<1>2. pc'[v] \in Critical => pc[v] \in Critical
  BY DEF Goto, TypeOK
<1> QED
  BY <1>1, <1>2 DEF MutexInv, UsesMapMutex, HoldsMutex, InCritical, Mutex, LockKey,
                    Workload, mutexes

\* A step that changes no worker and no mutex.
LEMMA StutterKeepsMutex ==
  ASSUME MutexInv, UNCHANGED <<pc, cur, handle, mutexes>>
  PROVE  MutexInv'
  BY DEF MutexInv, UsesMapMutex, HoldsMutex, InCritical, Mutex, LockKey, Workload, mutexes

LEMMA NextMutex == TypeOK /\ MutexInv /\ [Next]_vars => MutexInv'
<1> SUFFICES ASSUME TypeOK, MutexInv, [Next]_vars PROVE MutexInv'
    OBVIOUS
<1> USE NullAssumption
<1>1. ASSUME Approval \/ Poll \/ StopSignal \/ Restart PROVE MutexInv'
  BY <1>1, StutterKeepsMutex
     DEF Approval, Submit, Approve, Poll, PollRead, Enqueue, StopSignal, Restart,
         worker, mutexes
<1>2. ASSUME NEW w \in Workers, Dequeue(w) PROVE MutexInv'
  <2> SUFFICES ASSUME NEW v \in Workers PROVE (UsesMapMutex(v) /\ HoldsMutex(v))'
    BY DEF MutexInv
  <2>1. /\ pc' = [pc EXCEPT ![w] = "markExecuted"]
        /\ cur' = [cur EXCEPT ![w] = Head(queue)]
        /\ UNCHANGED <<locks, holder, handle>>
    BY <1>2 DEF Dequeue, Goto, mutexes
  <2>2. CASE v = w
    BY <2>1, <2>2 DEF UsesMapMutex, HoldsMutex, InCritical, Critical, TypeOK
  <2>3. CASE v # w
    <3>1. pc'[v] = pc[v] /\ cur'[v] = cur[v]
      BY <2>1, <2>3 DEF TypeOK
    <3> QED BY <2>1, <3>1
            DEF MutexInv, UsesMapMutex, HoldsMutex, InCritical, Mutex, LockKey, Workload
  <2> QED BY <2>2, <2>3
<1>3. ASSUME NEW w \in Workers, MarkExecuted(w) \/ MarkRunning(w) PROVE MutexInv'
  <2>1. \E p \in {"markRunning", "getLock"} : Goto(w, p)
    BY <1>3 DEF MarkExecuted, MarkRunning
  <2> QED BY <1>3, <2>1, MoveKeepsMutex DEF MarkExecuted, MarkRunning, Critical, PCs
<1>4. ASSUME NEW w \in Workers, GetLock(w) PROVE MutexInv'
  <2> SUFFICES ASSUME NEW v \in Workers PROVE (UsesMapMutex(v) /\ HoldsMutex(v))'
    BY DEF MutexInv
  <2> DEFINE m == locks[LockKey(cur[w])]
  <2>1. /\ pc' = [pc EXCEPT ![w] = IF m = NoWorker THEN "newLock" ELSE "lock"]
        /\ handle' = [handle EXCEPT ![w] = m]
        /\ UNCHANGED <<locks, holder, cur>>
        /\ cur[w] \in Tasks
    BY <1>4 DEF GetLock, At, Goto, mutexes, TypeOK
  <2>2. CASE v = w
    <3>1. m \in Workers \union {NoWorker}
      BY <2>1, WorkloadType DEF TypeOK
    <3> QED BY <2>1, <2>2, <3>1
            DEF UsesMapMutex, HoldsMutex, InCritical, Critical, TypeOK, LockKey, Workload
  <2>3. CASE v # w
    <3>1. pc'[v] = pc[v] /\ handle'[v] = handle[v]
      BY <2>1, <2>3 DEF TypeOK
    <3> QED BY <2>1, <3>1
            DEF MutexInv, UsesMapMutex, HoldsMutex, InCritical, Mutex, LockKey, Workload
  <2> QED BY <2>2, <2>3
<1>5. ASSUME NEW w \in Workers, NewLock(w) PROVE MutexInv'
  <2> SUFFICES ASSUME NEW v \in Workers PROVE (UsesMapMutex(v) /\ HoldsMutex(v))'
    BY DEF MutexInv
  <2> DEFINE k == LockKey(cur[w])
             m == IF locks[k] = NoWorker THEN w ELSE locks[k]
  <2>1. /\ pc' = [pc EXCEPT ![w] = "lock"]
        /\ locks' = [locks EXCEPT ![k] = m]
        /\ handle' = [handle EXCEPT ![w] = m]
        /\ UNCHANGED <<holder, cur>>
        /\ cur[w] \in Tasks
    BY <1>5 DEF NewLock, At, Goto, TypeOK
  <2>2. k \in LockKeys /\ m \in Workers
    BY <2>1, WorkloadType DEF TypeOK
  <2>3. CASE v = w
    BY <2>1, <2>2, <2>3
       DEF UsesMapMutex, HoldsMutex, InCritical, Critical, TypeOK, LockKey, Workload
  <2>4. CASE v # w
    <3>1. pc'[v] = pc[v] /\ handle'[v] = handle[v]
      BY <2>1, <2>4 DEF TypeOK
    <3>2. pc[v] \in Critical \union {"lock"} =>
            locks[LockKey(cur[v])] \in Workers /\ locks[LockKey(cur[v])] = handle[v]
      BY DEF MutexInv, UsesMapMutex
    <3>3. pc[v] \in Critical \union {"lock"} => locks'[LockKey(cur[v])] = handle[v]
      BY <2>1, <2>2, <3>2 DEF TypeOK
    <3> QED BY <2>1, <3>1, <3>2, <3>3
            DEF MutexInv, UsesMapMutex, HoldsMutex, InCritical, Mutex, LockKey, Workload
  <2> QED BY <2>3, <2>4
<1>6. ASSUME NEW w \in Workers, Lock(w) PROVE MutexInv'
  <2> SUFFICES ASSUME NEW v \in Workers PROVE (UsesMapMutex(v) /\ HoldsMutex(v))'
    BY DEF MutexInv
  <2>1. /\ pc' = [pc EXCEPT ![w] = "snapshot"]
        /\ holder' = [holder EXCEPT ![Mutex(w)] = w]
        /\ holder[Mutex(w)] = NoWorker
        /\ UNCHANGED <<locks, handle, cur>>
        /\ pc[w] = "lock"
        /\ cur[w] \in Tasks
    BY <1>6 DEF Lock, At, Goto, TypeOK
  <2>2. Mutex(w) \in LockKeys \X Workers
    BY <2>1, WorkloadType DEF MutexInv, UsesMapMutex, Mutex
  <2>3. UsesMapMutex(v)'
    BY <2>1 DEF MutexInv, UsesMapMutex, Critical, TypeOK, LockKey, Workload
  <2>4. Mutex(v)' = Mutex(v)
    BY <2>1 DEF Mutex, LockKey, Workload
  <2>5. CASE v = w
    BY <2>1, <2>2, <2>3, <2>4, <2>5 DEF HoldsMutex, InCritical, TypeOK
  <2>6. CASE v # w
    <3>1. pc'[v] = pc[v]
      BY <2>1, <2>6 DEF TypeOK
    <3>2. InCritical(v) => holder[Mutex(v)] = v /\ Mutex(v) # Mutex(w)
      BY <2>1 DEF MutexInv, HoldsMutex
    <3>3. InCritical(v) => holder'[Mutex(v)] = v
      BY <2>1, <2>2, <3>2 DEF TypeOK
    <3> QED BY <2>3, <2>4, <3>1, <3>3 DEF HoldsMutex, InCritical
  <2> QED BY <2>5, <2>6
<1>7. ASSUME NEW w \in Workers,
             Execute(w) \/ Rollback(w) \/ Report(w) \/ DeleteTask(w) \/ Notify(w)
      PROVE  MutexInv'
  <2>1. \E p \in Critical : Goto(w, p)
    BY <1>7 DEF Execute, Snapshot, Prune, UpdateImage, CheckPods, Fail, Rollback,
                Report, DeleteTask, Notify, Critical
  <2>2. pc[w] \in Critical /\ UNCHANGED <<cur, handle, mutexes>>
    BY <1>7 DEF Execute, Snapshot, Prune, UpdateImage, CheckPods, Rollback,
                Report, DeleteTask, Notify, At, Critical
  <2> QED BY <2>1, <2>2, MoveKeepsMutex DEF Critical, PCs
<1>8. ASSUME NEW w \in Workers, Unlock(w) PROVE MutexInv'
  <2> SUFFICES ASSUME NEW v \in Workers PROVE (UsesMapMutex(v) /\ HoldsMutex(v))'
    BY DEF MutexInv
  <2>1. /\ pc' = [pc EXCEPT ![w] = "idle"]
        /\ holder' = [holder EXCEPT ![Mutex(w)] = NoWorker]
        /\ handle' = [handle EXCEPT ![w] = NoWorker]
        /\ cur' = [cur EXCEPT ![w] = NoTask]
        /\ UNCHANGED locks
        /\ pc[w] = "unlock"
    BY <1>8 DEF Unlock, At, Goto
  <2>2. CASE v = w
    BY <2>1, <2>2 DEF UsesMapMutex, HoldsMutex, InCritical, Critical, TypeOK
  <2>3. CASE v # w
    <3>1. pc'[v] = pc[v] /\ handle'[v] = handle[v] /\ cur'[v] = cur[v]
      BY <2>1, <2>3 DEF TypeOK
    <3>2. Mutex(v)' = Mutex(v) /\ LockKey(cur[v])' = LockKey(cur[v])
      BY <3>1 DEF Mutex, LockKey, Workload
    <3>3. InCritical(v) => holder[Mutex(v)] = v /\ Mutex(v) # Mutex(w)
      BY <2>1, <2>3 DEF MutexInv, HoldsMutex, InCritical, Critical
    <3>4. InCritical(v) => Mutex(v) \in LockKeys \X Workers
      <4>1. InCritical(v) => cur[v] \in Tasks
        BY DEF InCritical, Critical, TypeOK
      <4> QED BY <4>1, WorkloadType DEF MutexInv, UsesMapMutex, InCritical, Mutex
    <3>5. InCritical(v) => holder'[Mutex(v)] = v
      BY <2>1, <3>3, <3>4 DEF TypeOK
    <3> QED BY <2>1, <3>1, <3>2, <3>5 DEF MutexInv, UsesMapMutex, HoldsMutex, InCritical
  <2> QED BY <2>2, <2>3
<1>9. ASSUME NEW w \in Workers, WorkerStops(w) PROVE MutexInv'
  BY <1>9, MoveKeepsMutex DEF WorkerStops, Critical, PCs
<1>10. ASSUME NEW how, Dies(how) PROVE MutexInv'
  BY <1>10 DEF Dies, MutexInv, UsesMapMutex, HoldsMutex, InCritical, Critical
<1>11. CASE UNCHANGED vars
  BY <1>11, StutterKeepsMutex DEF vars, worker
<1> QED
  BY <1>1, <1>2, <1>3, <1>4, <1>5, <1>6, <1>7, <1>8, <1>9, <1>10, <1>11
     DEF Next, AgentNext, Work, Prepare, Settle, Process, StopUnlocks,
         GraceExpires, Crash

LEMMA MutexExcludes == TypeOK /\ MutexInv => WorkloadExclusive
<1> SUFFICES ASSUME TypeOK, MutexInv, NEW v \in Workers, NEW w \in Workers,
                    InCritical(v), InCritical(w), Workload(cur[v]) = Workload(cur[w])
             PROVE  v = w
  BY DEF WorkloadExclusive
<1>1. Mutex(v) = Mutex(w)
  BY DEF MutexInv, UsesMapMutex, InCritical, Mutex, LockKey
<1> QED BY <1>1 DEF MutexInv, HoldsMutex

\* For any number of workers and tasks, any mapping to namespaces and any
\* naming of the mutexes, two workers are never at one workload together.
THEOREM MutualExclusion == Spec => []WorkloadExclusive
<1>1. Init => MutexInv
  BY InitMutex
<1>2. TypeOK /\ MutexInv /\ [Next]_vars => MutexInv'
  BY NextMutex
<1>3. TypeOK /\ MutexInv => WorkloadExclusive
  BY MutexExcludes
<1> QED BY <1>1, <1>2, <1>3, TypeCorrect, PTL DEF Spec
-----------------------------------------------------------------------------
(* The announced version.  Only the update changes an image (a rollback is  *)
(* refused), and mutual exclusion keeps every other worker's update away    *)
(* from a workload whose pods are being checked.                            *)

RollsBackFailure == \A w \in Workers : pc[w] = "rollback" => result[w] = "failure"

ImageInv == ImageIsHolders /\ RollsBackFailure

LEMMA InitImage == Init => ImageInv
  BY DEF Init, Started, ImageInv, ImageIsHolders, Verified, RollsBackFailure

\* RollbackWithSnapshot never changes the image.
LEMMA RollbackIsRefused ==
  ASSUME TypeOK, NEW w \in Workers, Rollback(w)
  PROVE  image' = image
<1>1. cur[w] \in Tasks
  BY DEF Rollback, At, TypeOK
<1>2. Workload(cur[w]) \in Workloads
  BY <1>1, WorkloadType
<1> QED BY <1>2 DEF Rollback, RollbackWithSnapshot, TypeOK

\* A step of one worker leaves what another worker has verified as it is.
LEMMA OthersKeepImage ==
  ASSUME TypeOK, WorkloadExclusive, ImageInv,
         NEW w \in Workers, Work(w), NEW v \in Workers, v # w
  PROVE  /\ (Verified(v) => image[Workload(cur[v])] = Request[cur[v]].version)'
         /\ (pc[v] = "rollback" => result[v] = "failure")'
<1>1. pc'[v] = pc[v] /\ cur'[v] = cur[v] /\ result'[v] = result[v]
  BY DEF Work, Prepare, Dequeue, MarkExecuted, MarkRunning, GetLock, NewLock, Lock,
         Execute, Snapshot, Prune, UpdateImage, CheckPods, Fail,
         Settle, Rollback, Report, DeleteTask, Notify, Unlock, WorkerStops,
         Goto, TypeOK
<1>2. Workload(cur[v])' = Workload(cur[v]) /\ Verified(v)' = Verified(v)
  BY <1>1 DEF Workload, Verified
<1>3. CASE image' = image
  BY <1>1, <1>2, <1>3 DEF ImageInv, ImageIsHolders, RollsBackFailure
<1>4. CASE UpdateImage(w)
  <2>1. Verified(v) => Workload(cur[v]) # Workload(cur[w])
    BY <1>4 DEF WorkloadExclusive, InCritical, Critical, Verified, UpdateImage, At
  <2>2. Verified(v) => image'[Workload(cur[v])] = image[Workload(cur[v])]
    <3>1. Verified(v) => Workload(cur[v]) \in Workloads
      BY WorkloadType DEF Verified, TypeOK
    <3> QED BY <1>4, <2>1, <3>1 DEF UpdateImage, TypeOK
  <2> QED BY <1>1, <1>2, <2>2 DEF ImageInv, ImageIsHolders, RollsBackFailure
<1>5. image' = image \/ UpdateImage(w)
  BY RollbackIsRefused
     DEF Work, Prepare, Dequeue, MarkExecuted, MarkRunning, GetLock, NewLock, Lock,
         Execute, Snapshot, Prune, CheckPods,
         Settle, Report, DeleteTask, Notify, Unlock, WorkerStops, cluster
<1> QED BY <1>3, <1>4, <1>5

\* What a worker has verified stays so through its own steps.
LEMMA WorkerKeepsImage ==
  ASSUME TypeOK, ImageInv, NEW w \in Workers, Work(w)
  PROVE  /\ (Verified(w) => image[Workload(cur[w])] = Request[cur[w]].version)'
         /\ (pc[w] = "rollback" => result[w] = "failure")'
<1> USE DEF Verified, TypeOK
<1>1. CASE Prepare(w) \/ Snapshot(w) \/ Prune(w) \/ Unlock(w) \/ WorkerStops(w)
  <2>1. \/ pc'[w] \in {"markExecuted", "markRunning", "getLock", "newLock", "lock",
                       "snapshot", "prune", "update", "idle", "stopped"}
        \/ pc'[w] = "rollback" /\ result'[w] = "failure"
    BY <1>1 DEF Prepare, Dequeue, MarkExecuted, MarkRunning, GetLock, NewLock, Lock,
                Snapshot, Prune, Unlock, WorkerStops, Fail, Goto
  <2> QED BY <2>1
<1>2. CASE UpdateImage(w)
  <2>1. cur[w] \in Tasks /\ cur' = cur
    BY <1>2 DEF UpdateImage, At, worker
  <2>2. /\ Workload(cur[w]) \in Workloads
        /\ Workload(cur[w])' = Workload(cur[w])
    BY <2>1, WorkloadType DEF Workload
  <2>3. CASE pc'[w] = "rollback" /\ result'[w] = "failure"
    BY <2>3
  <2>4. CASE image' = [image EXCEPT ![Workload(cur[w])] = Request[cur[w]].version]
             /\ pc'[w] = "check"
    BY <2>1, <2>2, <2>4
  <2> QED BY <1>2, <2>3, <2>4 DEF UpdateImage, Fail, Goto
<1>3. CASE CheckPods(w)
  <2>1. cur' = cur /\ image' = image /\ pc[w] = "check"
    BY <1>3 DEF CheckPods, At, cluster
  <2>2. \/ pc'[w] = "report" /\ result'[w] = "success"
        \/ pc'[w] = "rollback" /\ result'[w] = "failure"
    BY <1>3 DEF CheckPods, Fail, Goto
  <2> QED BY <2>1, <2>2 DEF ImageInv, ImageIsHolders, Workload
<1>4. CASE Rollback(w) \/ Report(w) \/ DeleteTask(w) \/ Notify(w)
  <2>1. cur' = cur /\ image' = image /\ result' = result
    BY <1>4, RollbackIsRefused DEF Rollback, Report, DeleteTask, Notify, cluster
  <2>2. /\ Verified(w)' => Verified(w)
        /\ pc'[w] = "rollback" => result'[w] = "failure"
    BY <1>4, <2>1 DEF Rollback, Report, DeleteTask, Notify, At, Goto,
                      ImageInv, RollsBackFailure
  <2> QED BY <2>1, <2>2 DEF ImageInv, ImageIsHolders, Workload
<1> QED BY <1>1, <1>2, <1>3, <1>4 DEF Work, Execute, Settle

LEMMA NextImage == TypeOK /\ WorkloadExclusive /\ ImageInv /\ [Next]_vars => ImageInv'
<1> SUFFICES ASSUME TypeOK, WorkloadExclusive, ImageInv, [Next]_vars PROVE ImageInv'
    OBVIOUS
<1>1. ASSUME NEW w \in Workers, Work(w) PROVE ImageInv'
  <2> SUFFICES ASSUME NEW v \in Workers
               PROVE  /\ (Verified(v) => image[Workload(cur[v])] = Request[cur[v]].version)'
                      /\ (pc[v] = "rollback" => result[v] = "failure")'
    BY DEF ImageInv, ImageIsHolders, RollsBackFailure
  <2>1. CASE v = w
    BY <1>1, <2>1, WorkerKeepsImage
  <2>2. CASE v # w
    BY <1>1, <2>2, OthersKeepImage
  <2> QED BY <2>1, <2>2
<1>2. ASSUME UNCHANGED <<image, cur, pc, result>> PROVE ImageInv'
  BY <1>2 DEF ImageInv, ImageIsHolders, RollsBackFailure, Verified, Workload
<1>3. ASSUME NEW how, Dies(how) PROVE ImageInv'
  BY <1>3 DEF Dies, ImageInv, ImageIsHolders, RollsBackFailure, Verified
<1>4. CASE Approval \/ Poll \/ StopSignal \/ Restart
  BY <1>2, <1>4 DEF Approval, Submit, Approve, Poll, PollRead, Enqueue, StopSignal,
                    Restart, cluster, worker
<1>5. CASE StopUnlocks \/ GraceExpires \/ Crash
  BY <1>3, <1>5 DEF StopUnlocks, GraceExpires, Crash
<1>6. CASE UNCHANGED vars
  BY <1>2, <1>6 DEF vars, cluster, worker
<1> QED BY <1>1, <1>4, <1>5, <1>6 DEF Next, AgentNext, Process

\* Whatever other tasks run, a success is only ever reported while the
\* workload still has the version that was rolled out.
THEOREM SuccessIsTrue == Spec => []ImageIsHolders
<1>1. Init => ImageInv
  BY InitImage
<1>2. TypeOK /\ WorkloadExclusive /\ ImageInv /\ [Next]_vars => ImageInv'
  BY NextImage
<1>3. ImageInv => ImageIsHolders
  BY DEF ImageInv
<1> QED BY <1>1, <1>2, <1>3, TypeCorrect, MutualExclusion, PTL DEF Spec
-----------------------------------------------------------------------------
(* The snapshot.  A worker has a tag only in its critical section, and the   *)
(* cleanup of another one is about another workload.                         *)

\* A step of one worker leaves the locals of the others alone.
LEMMA OthersStay ==
  ASSUME TypeOK, NEW w \in Workers, Work(w), NEW v \in Workers, v # w
  PROVE  /\ pc'[v] = pc[v] /\ cur'[v] = cur[v]
         /\ oldTag'[v] = oldTag[v] /\ result'[v] = result[v]
  BY DEF Work, Prepare, Dequeue, MarkExecuted, MarkRunning, GetLock, NewLock, Lock,
         Execute, Snapshot, Prune, UpdateImage, CheckPods, Fail,
         Settle, Rollback, Report, DeleteTask, Notify, Unlock, WorkerStops,
         Goto, TypeOK

TagInCritical == \A w \in Workers : ~InCritical(w) => oldTag[w] = NoTag

\* The snapshot of worker w is there if it has taken one.
SnapshotKept(w) ==
  oldTag[w] \in Versions =>
    [workload |-> Workload(cur[w]), task |-> cur[w], tag |-> oldTag[w]] \in snapshots

SnapshotInv == TagInCritical /\ \A w \in Workers : SnapshotKept(w)

LEMMA InitSnapshot == Init => SnapshotInv
  BY NullAssumption DEF Init, Started, SnapshotInv, TagInCritical, SnapshotKept

LEMMA OthersKeepSnapshot ==
  ASSUME TypeOK, WorkloadExclusive, SnapshotInv,
         NEW w \in Workers, Work(w), NEW v \in Workers, v # w
  PROVE  (SnapshotKept(v) /\ (~InCritical(v) => oldTag[v] = NoTag))'
<1>1. /\ pc'[v] = pc[v] /\ cur'[v] = cur[v] /\ oldTag'[v] = oldTag[v]
      /\ Workload(cur[v])' = Workload(cur[v])
  BY OthersStay DEF Workload
<1>2. CASE snapshots \subseteq snapshots'
  BY <1>1, <1>2 DEF SnapshotInv, SnapshotKept, TagInCritical, InCritical
<1>3. CASE Prune(w)
  <2>1. oldTag[v] \in Versions => InCritical(v)
    BY NullAssumption DEF SnapshotInv, TagInCritical
  <2>2. oldTag[v] \in Versions => Workload(cur[v]) # Workload(cur[w])
    BY <1>3, <2>1 DEF WorkloadExclusive, InCritical, Critical, Prune, At
  <2> QED BY <1>1, <1>3, <2>2
          DEF Prune, SnapshotInv, SnapshotKept, TagInCritical, InCritical
<1> QED
  BY <1>2, <1>3
     DEF Work, Prepare, Dequeue, MarkExecuted, MarkRunning, GetLock, NewLock, Lock,
         Execute, Snapshot, UpdateImage, CheckPods,
         Settle, Rollback, Report, DeleteTask, Notify, Unlock, WorkerStops, cluster

LEMMA WorkerKeepsSnapshot ==
  ASSUME TypeOK, SnapshotInv, NEW w \in Workers, Work(w)
  PROVE  (SnapshotKept(w) /\ (~InCritical(w) => oldTag[w] = NoTag))'
<1> USE NullAssumption DEF TypeOK
<1>1. CASE Snapshot(w)
  <2>1. pc'[w] \in {"prune", "rollback"} /\ cur' = cur
    BY <1>1 DEF Snapshot, Fail, Goto
  <2>2. \/ /\ oldTag'[w] = image[Workload(cur[w])]
           /\ [workload |-> Workload(cur[w]), task |-> cur[w],
               tag |-> image[Workload(cur[w])]] \in snapshots'
        \/ UNCHANGED <<oldTag, snapshots>>
    BY <1>1 DEF Snapshot
  <2> QED BY <2>1, <2>2
          DEF SnapshotInv, SnapshotKept, InCritical, Critical, Workload
<1>2. CASE Prune(w)
  <2>1. pc'[w] = "update" /\ UNCHANGED <<cur, oldTag>>
    BY <1>2 DEF Prune, Goto
  <2>2. SnapshotKept(w)'
    BY <1>2, <2>1 DEF Prune, SnapshotInv, SnapshotKept, Workload
  <2> QED BY <2>1, <2>2 DEF InCritical, Critical
<1>3. CASE Notify(w) \/ Unlock(w)
  BY <1>3 DEF Notify, Unlock, At, Goto, SnapshotInv, SnapshotKept, TagInCritical,
              InCritical, Critical, cluster, Workload
<1>4. CASE UpdateImage(w) \/ CheckPods(w) \/ Rollback(w) \/ Report(w) \/ DeleteTask(w)
  <2>1. InCritical(w)' /\ UNCHANGED <<cur, oldTag, snapshots>>
    BY <1>4 DEF UpdateImage, CheckPods, Fail, Rollback, Report, DeleteTask, At, Goto,
                InCritical, Critical, cluster
  <2> QED BY <2>1 DEF SnapshotInv, SnapshotKept, Workload
<1>5. CASE Prepare(w) \/ WorkerStops(w)
  <2>1. ~InCritical(w) /\ oldTag' = oldTag
    BY <1>5 DEF Prepare, Dequeue, MarkExecuted, MarkRunning, GetLock, NewLock, Lock,
                WorkerStops, At, InCritical, Critical
  <2> QED BY <2>1 DEF SnapshotInv, SnapshotKept, TagInCritical
<1> QED BY <1>1, <1>2, <1>3, <1>4, <1>5 DEF Work, Execute, Settle

LEMMA NextSnapshot == TypeOK /\ WorkloadExclusive /\ SnapshotInv /\ [Next]_vars => SnapshotInv'
<1> SUFFICES ASSUME TypeOK, WorkloadExclusive, SnapshotInv, [Next]_vars PROVE SnapshotInv'
    OBVIOUS
<1>1. ASSUME NEW w \in Workers, Work(w) PROVE SnapshotInv'
  BY <1>1, WorkerKeepsSnapshot, OthersKeepSnapshot DEF SnapshotInv, TagInCritical
<1>2. ASSUME UNCHANGED <<snapshots, cur, pc, oldTag>> PROVE SnapshotInv'
  BY <1>2 DEF SnapshotInv, TagInCritical, SnapshotKept, InCritical, Workload
<1>3. ASSUME NEW how, Dies(how) PROVE SnapshotInv'
  BY <1>3, NullAssumption DEF Dies, SnapshotInv, TagInCritical, SnapshotKept
<1>4. CASE Approval \/ Poll \/ StopSignal \/ Restart
  BY <1>2, <1>4 DEF Approval, Submit, Approve, Poll, PollRead, Enqueue, StopSignal,
                    Restart, cluster, worker
<1>5. CASE StopUnlocks \/ GraceExpires \/ Crash
  BY <1>3, <1>5 DEF StopUnlocks, GraceExpires, Crash
<1>6. CASE UNCHANGED vars
  BY <1>2, <1>6 DEF vars, cluster, worker
<1> QED BY <1>1, <1>4, <1>5, <1>6 DEF Next, AgentNext, Process

\* However the rollouts of different workloads interleave, the cleanup of one
\* never takes the snapshot another still needs (mongo_client.go 84-98).
THEOREM SnapshotIsSafe == Spec => []SnapshotSurvives
<1>1. SnapshotInv => SnapshotSurvives
  BY DEF SnapshotInv, SnapshotKept, SnapshotSurvives
<1> QED BY <1>1, InitSnapshot, NextSnapshot, TypeCorrect, MutualExclusion, PTL DEF Spec
-----------------------------------------------------------------------------
(* Records.  A worker has a result from the end of its rollout on, and none  *)
(* of the waiting ones has a task; a stopping process was told to stop.      *)

Ended == {"rollback", "report", "delete", "notify", "unlock"}

WorkerInv ==
  \A w \in Workers : /\ pc[w] \in {"idle", "stopped"} => cur[w] = NoTask
                     /\ pc[w] \in Ended => result[w] # "none"

StopCounted == proc = "stopping" => exits > 0

RecordInv == WorkerInv /\ StopCounted /\ OrphanExplained /\ DeletedOnlyWhenDone

LEMMA InitRecord == Init => RecordInv
  BY DEF Init, NoRecords, Started, RecordInv, WorkerInv, Ended, StopCounted,
         OrphanExplained, DeletedOnlyWhenDone

LEMMA NextWorker == TypeOK /\ RecordInv /\ [Next]_vars => (WorkerInv /\ StopCounted)'
<1> SUFFICES ASSUME TypeOK, RecordInv, [Next]_vars PROVE (WorkerInv /\ StopCounted)'
    OBVIOUS
<1> USE DEF RecordInv, WorkerInv, StopCounted, Ended
<1>1. ASSUME NEW w \in Workers, Work(w) PROVE (WorkerInv /\ StopCounted)'
  <2>1. ASSUME NEW v \in Workers, v # w
        PROVE  /\ pc'[v] \in {"idle", "stopped"} => cur'[v] = NoTask
               /\ pc'[v] \in {"rollback", "report", "delete", "notify", "unlock"}
                    => result'[v] # "none"
    BY <1>1, <2>1, OthersStay
  <2>2. CASE Prepare(w) \/ WorkerStops(w)
    <3>1. \/ pc'[w] \in {"markExecuted", "markRunning", "getLock", "newLock", "lock",
                         "snapshot"}
          \/ WorkerStops(w)
      BY <2>2 DEF Prepare, Dequeue, MarkExecuted, MarkRunning, GetLock, NewLock, Lock,
                  Goto, TypeOK
    <3>2. WorkerStops(w) => cur'[w] = NoTask /\ pc'[w] = "stopped"
      BY DEF WorkerStops, At, Goto, TypeOK
    <3>3. UNCHANGED process
      BY <2>2 DEF Prepare, Dequeue, MarkExecuted, MarkRunning, GetLock, NewLock, Lock,
                  WorkerStops
    <3> QED BY <2>1, <3>1, <3>2, <3>3 DEF process
  <2>3. CASE Execute(w)
    <3>1. \/ pc'[w] \in {"prune", "update", "check"}
          \/ pc'[w] \in {"rollback", "report"} /\ result'[w] # "none"
      BY <2>3 DEF Execute, Snapshot, Prune, UpdateImage, CheckPods, Fail, Goto, TypeOK
    <3>2. UNCHANGED process
      BY <2>3 DEF Execute, Snapshot, Prune, UpdateImage, CheckPods
    <3> QED BY <2>1, <3>1, <3>2 DEF process
  <2>4. CASE Settle(w)
    <3>1. \/ pc[w] \in {"rollback", "report", "delete", "notify"}
             /\ pc'[w] \in {"rollback", "report", "delete", "notify", "unlock"}
             /\ result' = result
          \/ pc'[w] = "idle" /\ cur'[w] = NoTask
      BY <2>4 DEF Settle, Rollback, Report, DeleteTask, Notify, Unlock, At, Goto, TypeOK
    <3>2. UNCHANGED process
      BY <2>4 DEF Settle, Rollback, Report, DeleteTask, Notify, Unlock
    <3> QED BY <2>1, <3>1, <3>2 DEF process
  <2> QED BY <1>1, <2>2, <2>3, <2>4 DEF Work
<1>2. CASE Approval \/ Poll \/ UNCHANGED vars
  BY <1>2 DEF Approval, Submit, Approve, Poll, PollRead, Enqueue, worker, process, vars
<1>3. CASE StopSignal \/ Restart
  BY <1>3 DEF StopSignal, Restart, worker, TypeOK
<1>4. ASSUME NEW how, Dies(how) PROVE (WorkerInv /\ StopCounted)'
  BY <1>4 DEF Dies
<1>5. CASE StopUnlocks \/ GraceExpires \/ Crash
  BY <1>4, <1>5 DEF StopUnlocks, GraceExpires, Crash
<1> QED BY <1>1, <1>2, <1>3, <1>5 DEF Next, AgentNext, Process

\* Once the process was told to stop or was killed, that stays counted; so do
\* failed calls.
LEMMA CountsGrow ==
  TypeOK /\ StopCounted /\ [Next]_vars =>
    /\ exits > 0 => exits' > 0
    /\ faults > 0 => faults' > 0
    /\ ~Approval /\ ~Poll /\ (\A w \in Workers : ~Work(w)) =>
         exits' > 0 \/ UNCHANGED <<records, outcome, worker, exits, faults>>
<1> SUFFICES ASSUME TypeOK, StopCounted, [Next]_vars
             PROVE  /\ exits > 0 => exits' > 0
                    /\ faults > 0 => faults' > 0
                    /\ ~Approval /\ ~Poll /\ (\A w \in Workers : ~Work(w)) =>
                         exits' > 0 \/ UNCHANGED <<records, outcome, worker, exits, faults>>
    OBVIOUS
<1> USE DEF TypeOK
<1>1. ASSUME NEW w \in Workers, Work(w)
      PROVE  exits' = exits /\ faults' \in {faults, faults + 1}
  BY <1>1 DEF Work, Prepare, Dequeue, MarkExecuted, MarkRunning, GetLock, NewLock, Lock,
              Execute, Snapshot, Prune, UpdateImage, CheckPods, Fail,
              Settle, Rollback, Report, DeleteTask, Notify, Unlock, WorkerStops, process
<1>2. CASE Approval \/ Poll
  BY <1>2 DEF Approval, Submit, Approve, Poll, PollRead, Enqueue, process
<1>3. CASE Process
  BY <1>3 DEF Process, StopSignal, StopUnlocks, GraceExpires, Crash, Restart, Dies,
              StopCounted, worker
<1>4. CASE UNCHANGED vars
  BY <1>4 DEF vars, process
<1> QED BY <1>1, <1>2, <1>3, <1>4 DEF Next, AgentNext

\* The worker that is at a task: the same after the step of another one.
LEMMA OthersAreAt ==
  ASSUME TypeOK, NEW w \in Workers, Work(w), NEW v \in Workers, v # w, NEW t, cur[v] = t
  PROVE  cur'[v] = t /\ pc'[v] = pc[v]
  BY OthersStay

\* A record that a step of a worker leaves executed has its explanation kept,
\* or it is the worker's own.
LEMMA WorkKeepsOrphans ==
  ASSUME TypeOK, RecordInv, NEW w \in Workers, Work(w) PROVE OrphanExplained'
<1> SUFFICES ASSUME NEW t \in Tasks, conf'[t] = "executed",
                    exits' = 0, faults' = 0, Request[t].firstEnv = Request[t].env
             PROVE  \E v \in Workers : cur'[v] = t /\ pc'[v] # "notify" /\ pc'[v] # "unlock"
  <2>1. exits' \in Nat /\ faults' \in Nat
    BY NextType, BoundAssumption DEF TypeOK, Next, AgentNext
  <2> QED BY <2>1 DEF OrphanExplained
<1> USE DEF RecordInv, TypeOK
<1>0. exits = 0 /\ faults = 0
  BY CountsGrow, BoundAssumption DEF Next, AgentNext
<1>1. CASE conf[t] = "executed"
  <2>1. PICK v \in Workers : cur[v] = t /\ pc[v] # "notify" /\ pc[v] # "unlock"
    BY <1>0, <1>1 DEF OrphanExplained
  <2>2. CASE v # w
    BY <2>1, <2>2, OthersAreAt
  <2>3. CASE v = w
    <3>1. pc[w] # "idle"
      BY <2>1, <2>3, NullAssumption DEF WorkerInv
    <3>2. ~DeleteTask(w)
      BY <1>0, <1>1, <2>1, <2>3 DEF DeleteTask, Hit, Live, SameSlot
    <3>3. ~Dequeue(w) /\ ~Notify(w) /\ ~Unlock(w) /\ ~WorkerStops(w)
      BY <2>1, <2>3, <3>1 DEF Dequeue, Notify, Unlock, WorkerStops, At
    <3>4. CASE Prepare(w)
      BY <2>1, <2>3, <3>3, <3>4
         DEF Prepare, MarkExecuted, MarkRunning, GetLock, NewLock, Lock, Goto
    <3>5. CASE Execute(w)
      BY <2>1, <2>3, <3>5 DEF Execute, Snapshot, Prune, UpdateImage, CheckPods, Fail, Goto
    <3>6. CASE Settle(w)
      BY <2>1, <2>3, <3>2, <3>3, <3>6 DEF Settle, Rollback, Report, Goto
    <3> QED BY <3>3, <3>4, <3>5, <3>6 DEF Work
  <2> QED BY <2>2, <2>3
<1>2. CASE conf[t] # "executed"
  <2>1. MarkExecuted(w)
    BY <1>2 DEF Work, Prepare, Dequeue, MarkRunning, GetLock, NewLock, Lock,
                Execute, Snapshot, Prune, UpdateImage, CheckPods,
                Settle, Rollback, Report, DeleteTask, Notify, Unlock, WorkerStops, records
  <2>2. cur[w] = t
    BY <1>2, <2>1 DEF MarkExecuted
  <2> QED BY <2>1, <2>2 DEF MarkExecuted, Goto
<1> QED BY <1>1, <1>2

\* What a step of a worker deletes, it has just carried out.
LEMMA WorkKeepsDeleted ==
  ASSUME TypeOK, RecordInv, NEW w \in Workers, Work(w) PROVE DeletedOnlyWhenDone'
<1> SUFFICES ASSUME NEW t \in Tasks, conf'[t] = "deleted", exits' = 0,
                    \A u \in Tasks \ {t} : ~SameSlot(u, t, Request[u].firstEnv)
             PROVE  \/ outcome'[t] # "none"
                    \/ \E v \in Workers : cur'[v] = t /\ pc'[v] = "notify"
  <2>1. exits' \in Nat
    BY NextType, BoundAssumption DEF TypeOK, Next, AgentNext
  <2> QED BY <2>1 DEF DeletedOnlyWhenDone, SameSlot
<1> USE DEF RecordInv, TypeOK
<1>0. exits = 0
  BY CountsGrow, BoundAssumption DEF Next, AgentNext
<1>1. CASE Notify(w)
  <2>1. /\ cur[w] \in Tasks /\ result[w] # "none"
        /\ outcome' = [outcome EXCEPT ![cur[w]] = result[w]]
        /\ cur' = cur /\ conf' = conf
    BY <1>1 DEF Notify, At, WorkerInv, Ended, records
  <2>2. outcome[t] # "none" => outcome'[t] # "none"
    BY <2>1
  <2>3. ASSUME NEW v \in Workers, cur[v] = t, pc[v] = "notify"
        PROVE  outcome'[t] # "none" \/ pc'[v] = "notify"
    <3>1. CASE v = w
      BY <2>1, <2>3, <3>1
    <3>2. CASE v # w
      BY <2>3, <3>2, OthersStay
    <3> QED BY <3>1, <3>2
  <2> QED BY <1>0, <2>1, <2>2, <2>3 DEF DeletedOnlyWhenDone
<1>2. CASE conf[t] = "deleted" /\ ~Notify(w)
  <2>1. outcome' = outcome
    BY <1>2 DEF Work, Prepare, Dequeue, MarkExecuted, MarkRunning, GetLock, NewLock, Lock,
                Execute, Snapshot, Prune, UpdateImage, CheckPods,
                Settle, Rollback, Report, DeleteTask, Unlock, WorkerStops
  <2>2. CASE outcome[t] # "none"
    BY <2>1, <2>2
  <2>3. ASSUME NEW v \in Workers, cur[v] = t, pc[v] = "notify"
        PROVE  cur'[v] = t /\ pc'[v] = "notify"
    <3>1. v # w
      BY <1>2, <2>3 DEF Work, Prepare, Dequeue, MarkExecuted, MarkRunning, GetLock,
                        NewLock, Lock, Execute, Snapshot, Prune, UpdateImage, CheckPods,
                        Settle, Rollback, Report, DeleteTask, Unlock, WorkerStops, At
    <3> QED BY <2>3, <3>1, OthersAreAt
  <2> QED BY <1>0, <1>2, <2>2, <2>3 DEF DeletedOnlyWhenDone
<1>3. CASE conf[t] # "deleted"
  <2>1. DeleteTask(w)
    BY <1>3 DEF Work, Prepare, Dequeue, MarkExecuted, MarkRunning, GetLock, NewLock, Lock,
                Execute, Snapshot, Prune, UpdateImage, CheckPods,
                Settle, Rollback, Report, Notify, Unlock, WorkerStops, records
  <2>2. t \in Hit(cur[w]) /\ cur[w] \in Tasks
    BY <1>3, <2>1 DEF DeleteTask, At, records
  <2>3. cur[w] = t
    BY <2>2 DEF Hit
  <2> QED BY <2>1, <2>3 DEF DeleteTask, Goto
<1> QED BY <1>1, <1>2, <1>3

LEMMA NextRecord == TypeOK /\ RecordInv /\ [Next]_vars => RecordInv'
<1> SUFFICES ASSUME TypeOK, RecordInv, [Next]_vars
             PROVE  (OrphanExplained /\ DeletedOnlyWhenDone)'
  BY NextWorker DEF RecordInv
<1>1. ASSUME NEW w \in Workers, Work(w) PROVE (OrphanExplained /\ DeletedOnlyWhenDone)'
  BY <1>1, WorkKeepsOrphans, WorkKeepsDeleted
<1>2. CASE Approval
  <2>1. \A t \in Tasks : conf'[t] \in {"executed", "deleted"} => conf'[t] = conf[t]
    BY <1>2 DEF Approval, Submit, Approve, TypeOK
  <2>2. UNCHANGED <<outcome, worker, process, faults>>
    BY <1>2 DEF Approval, Submit, Approve
  <2> QED BY <2>1, <2>2 DEF RecordInv, OrphanExplained, DeletedOnlyWhenDone, worker, process
<1>3. CASE Poll
  <2>1. UNCHANGED <<records, outcome, worker, process>> /\ (faults > 0 => faults' > 0)
    BY <1>3, CountsGrow, BoundAssumption
       DEF Poll, PollRead, Enqueue, RecordInv, records, worker, process, TypeOK
  <2> QED BY <2>1 DEF RecordInv, OrphanExplained, DeletedOnlyWhenDone, records, worker,
                      process
<1>4. CASE exits' > 0
  BY <1>4 DEF OrphanExplained, DeletedOnlyWhenDone
<1>5. CASE UNCHANGED <<records, outcome, worker, exits, faults>>
  BY <1>5 DEF RecordInv, OrphanExplained, DeletedOnlyWhenDone, records, worker
<1> QED BY <1>1, <1>2, <1>3, <1>4, <1>5, CountsGrow DEF RecordInv

\* A record that stays executed with no worker at it has one of three causes:
\* an exit, a failed call, or a collection it is not looked for in
\* (task.go 112-118, 247-269).
THEOREM OrphansHaveACause == Spec => []OrphanExplained
<1>1. RecordInv => OrphanExplained
  BY DEF RecordInv
<1> QED BY <1>1, InitRecord, NextRecord, TypeCorrect, PTL DEF Spec

\* Only a rival for its slot or an exit makes the agent delete the record of a
\* task nobody was told about (task.go 247-269, mongo_client.go 109-124).
THEOREM DeletionIsEarned == Spec => []DeletedOnlyWhenDone
<1>1. RecordInv => DeletedOnlyWhenDone
  BY DEF RecordInv
<1> QED BY <1>1, InitRecord, NextRecord, TypeCorrect, PTL DEF Spec
=============================================================================
