--------------------------- MODULE AgentRefinement ---------------------------
(***************************************************************************)
(* The agent implements serial rollouts, for every set of tasks and        *)
(* workers: taking the mutex begins a rollout, the update of the image     *)
(* applies it, a notification announces its result, giving the mutex back  *)
(* finishes it, and the end of the process abandons all of them.           *)
(***************************************************************************)
EXTENDS AgentProofs

USE DEF CallFails, VersionOf, WorkloadOf

\* The choice is no choice when one worker occupies the workload.
LEMMA ChooseOnly ==
  ASSUME NEW w PROVE (CHOOSE v \in {w} : TRUE) = w
  OBVIOUS

LEMMA OccupantIsOne ==
  ASSUME TypeOK, WorkloadExclusive, NEW w \in Workers, InCritical(w)
  PROVE  Workload(cur[w]) \in Workloads /\ Busy[Workload(cur[w])] = cur[w]
<1>1. cur[w] \in Tasks
  BY DEF TypeOK, InCritical, Critical
<1>2. Workload(cur[w]) \in Workloads
  BY <1>1, WorkloadType
<1>3. Occupant(Workload(cur[w])) = {w}
  BY DEF Occupant, WorkloadExclusive
<1> QED BY <1>2, <1>3, ChooseOnly DEF Busy

\* A step that lets no worker in or out, and changes no occupant's task.
LEMMA NobodyEnters ==
  ASSUME \A v \in Workers : /\ InCritical(v)' <=> InCritical(v)
                            /\ InCritical(v) => cur'[v] = cur[v]
  PROVE  Busy' = Busy
<1>1. ASSUME NEW k \in Workloads PROVE Occupant(k)' = Occupant(k)
  BY DEF Occupant, Workload
<1>2. ASSUME NEW k \in Workloads, Occupant(k) # {}
      PROVE  cur'[CHOOSE w \in Occupant(k) : TRUE] = cur[CHOOSE w \in Occupant(k) : TRUE]
  <2>1. (CHOOSE w \in Occupant(k) : TRUE) \in Occupant(k)
    BY <1>2
  <2> QED BY <2>1 DEF Occupant
<1> QED BY <1>1, <1>2 DEF Busy

\* A worker that goes from one place of its critical section to another.
LEMMA StaysInside ==
  ASSUME TypeOK, NEW w \in Workers, InCritical(w), NEW p \in Critical,
         Goto(w, p), cur' = cur
  PROVE  Busy' = Busy
<1>1. \A v \in Workers : InCritical(v)' <=> InCritical(v)
  BY DEF InCritical, Critical, Goto, TypeOK
<1> QED BY <1>1, NobodyEnters

LEMMA Locking ==
  ASSUME TypeOK, WorkloadExclusive, WorkloadExclusive', NEW w \in Workers, Lock(w)
  PROVE  cur[w] \in Tasks /\ Serial!Begin(cur[w])
<1>1. /\ cur[w] \in Tasks /\ pc[w] = "lock" /\ cur' = cur
      /\ pc' = [pc EXCEPT ![w] = "snapshot"]
      /\ UNCHANGED <<image, outcome>>
  BY DEF Lock, At, Goto, TypeOK, cluster
<1>2. PICK k \in Workloads : k = Workload(cur[w])
  BY <1>1, WorkloadType
<1>3. /\ ~InCritical(w) /\ InCritical(w)'
      /\ \A v \in Workers \ {w} : InCritical(v)' <=> InCritical(v)
  BY <1>1 DEF InCritical, Critical, TypeOK
<1>4. Occupant(k) = {}
  BY <1>1, <1>2, <1>3 DEF Occupant, WorkloadExclusive, Workload
<1>5. Occupant(k)' = {w}
  BY <1>1, <1>2, <1>3, <1>4 DEF Occupant, Workload
<1>6. \A j \in Workloads \ {k} : Occupant(j)' = Occupant(j)
  BY <1>1, <1>2, <1>3 DEF Occupant, Workload
<1>7. Busy[k] = NoTask
  BY <1>4 DEF Busy
<1>8. ASSUME NEW j \in Workloads PROVE Busy'[j] = [Busy EXCEPT ![k] = cur[w]][j]
  <2>1. CASE j = k
    BY <1>1, <1>5, <2>1, ChooseOnly DEF Busy
  <2>2. CASE j # k
    BY <1>1, <1>6, <2>2 DEF Busy
  <2> QED BY <2>1, <2>2
<1>9. Busy' = [Busy EXCEPT ![k] = cur[w]]
  BY <1>8 DEF Busy
<1> QED BY <1>1, <1>2, <1>7, <1>9 DEF Busy, Serial!Begin

LEMMA Unlocking ==
  ASSUME TypeOK, WorkloadExclusive, NEW w \in Workers, Unlock(w)
  PROVE  cur[w] \in Tasks /\ Serial!Finish(cur[w])
<1>1. /\ cur[w] \in Tasks /\ pc[w] = "unlock"
      /\ cur' = [cur EXCEPT ![w] = NoTask]
      /\ pc' = [pc EXCEPT ![w] = "idle"]
      /\ UNCHANGED <<image, outcome>>
  BY DEF Unlock, At, Goto, TypeOK, cluster
<1>2. /\ InCritical(w) /\ ~InCritical(w)'
      /\ \A v \in Workers \ {w} : /\ InCritical(v)' <=> InCritical(v)
                                  /\ Workload(cur[v])' = Workload(cur[v])
                                  /\ cur'[v] = cur[v]
  BY <1>1 DEF InCritical, Critical, TypeOK, Workload
<1>3. PICK k \in Workloads : k = Workload(cur[w]) /\ Busy[k] = cur[w]
  BY <1>2, OccupantIsOne
<1>4. Occupant(k)' = {}
  BY <1>2, <1>3 DEF Occupant, WorkloadExclusive
<1>5. \A j \in Workloads \ {k} : Occupant(j)' = Occupant(j) /\ w \notin Occupant(j)
  BY <1>2, <1>3 DEF Occupant
<1>6. ASSUME NEW j \in Workloads \ {k}, Occupant(j) # {}
      PROVE  cur'[CHOOSE v \in Occupant(j) : TRUE] = cur[CHOOSE v \in Occupant(j) : TRUE]
  <2>1. (CHOOSE v \in Occupant(j) : TRUE) \in Occupant(j)
    BY <1>6
  <2> QED BY <1>2, <1>5, <2>1 DEF Occupant
<1>7. ASSUME NEW j \in Workloads PROVE Busy'[j] = [Busy EXCEPT ![k] = NoTask][j]
  <2>1. CASE j = k
    BY <1>4, <2>1 DEF Busy
  <2>2. CASE j # k
    BY <1>5, <1>6, <2>2 DEF Busy
  <2> QED BY <2>1, <2>2
<1>8. Busy' = [Busy EXCEPT ![k] = NoTask]
  BY <1>7 DEF Busy
<1> QED BY <1>1, <1>3, <1>8 DEF Busy, Serial!Finish, Serial!Occupies

LEMMA Updating ==
  ASSUME TypeOK, WorkloadExclusive, NEW w \in Workers, UpdateImage(w)
  PROVE  cur[w] \in Tasks /\ (Serial!Apply(cur[w]) \/ UNCHANGED Serial!vars)
<1>1. cur[w] \in Tasks /\ InCritical(w) /\ cur' = cur /\ outcome' = outcome
  BY DEF UpdateImage, At, TypeOK, InCritical, Critical, worker
<1>2. Busy' = Busy
  BY <1>1, StaysInside DEF UpdateImage, Fail, Critical
<1>3. Busy[Workload(cur[w])] = cur[w]
  BY <1>1, OccupantIsOne
<1>4. \/ image' = image
      \/ image' = [image EXCEPT ![Workload(cur[w])] = Request[cur[w]].version]
  BY DEF UpdateImage
<1> QED BY <1>1, <1>2, <1>3, <1>4 DEF Busy, Serial!Apply, Serial!Occupies, Serial!vars

LEMMA Notifying ==
  ASSUME TypeOK, WorkloadExclusive, ImageIsHolders, WorkerInv, NEW w \in Workers, Notify(w)
  PROVE  /\ cur[w] \in Tasks /\ result[w] \in {"success", "failure"}
         /\ Serial!Announce(cur[w], result[w])
<1>1. /\ cur[w] \in Tasks /\ InCritical(w) /\ cur' = cur
      /\ outcome' = [outcome EXCEPT ![cur[w]] = result[w]]
      /\ image' = image
  BY DEF Notify, At, TypeOK, InCritical, Critical, cluster
<1>2. result[w] \in {"success", "failure"}
  BY DEF Notify, At, WorkerInv, Ended, TypeOK
<1>3. Busy' = Busy
  BY <1>1, StaysInside DEF Notify, Critical
<1>4. Busy[Workload(cur[w])] = cur[w]
  BY <1>1, OccupantIsOne
<1>5. result[w] = "success" => image[Workload(cur[w])] = Request[cur[w]].version
  BY DEF ImageIsHolders, Verified, Notify, At
<1> QED BY <1>1, <1>2, <1>3, <1>4, <1>5 DEF Busy, Serial!Announce, Serial!Occupies

\* The steps of a worker that a workload does not notice.
LEMMA Unnoticed ==
  ASSUME TypeOK, NEW w \in Workers, Work(w),
         ~Lock(w), ~UpdateImage(w), ~Notify(w), ~Unlock(w)
  PROVE  UNCHANGED Serial!vars
<1>1. UNCHANGED <<image, outcome>>
  BY RollbackIsRefused
     DEF Work, Prepare, Dequeue, MarkExecuted, MarkRunning, GetLock, NewLock,
         Execute, Snapshot, Prune, CheckPods, Settle, Rollback, Report, DeleteTask,
         WorkerStops, cluster
<1>2. Busy' = Busy
  <2>1. CASE Prepare(w) \/ WorkerStops(w)
    <3>1. /\ ~InCritical(w) /\ ~InCritical(w)'
          /\ \A v \in Workers \ {w} : cur'[v] = cur[v] /\ pc'[v] = pc[v]
      BY <2>1 DEF Prepare, Dequeue, MarkExecuted, MarkRunning, GetLock, NewLock,
                  WorkerStops, At, Goto, InCritical, Critical, TypeOK
    <3> QED BY <3>1, NobodyEnters DEF InCritical
  <2>2. CASE Execute(w) \/ Settle(w)
    <3>1. \E p \in Critical : Goto(w, p)
      BY <2>2 DEF Execute, Snapshot, Prune, CheckPods, Fail, Settle, Rollback, Report,
                  DeleteTask, Critical
    <3>2. InCritical(w) /\ cur' = cur
      BY <2>2 DEF Execute, Snapshot, Prune, CheckPods, Settle, Rollback, Report,
                  DeleteTask, At, InCritical, Critical
    <3> QED BY <3>1, <3>2, StaysInside
  <2> QED BY <2>1, <2>2 DEF Work
<1> QED BY <1>1, <1>2 DEF Busy, Serial!vars

LEMMA Dying ==
  ASSUME NEW how, Dies(how) PROVE Serial!Abandon
<1>1. \A k \in Workloads : Occupant(k)' = {}
  BY DEF Dies, Occupant, InCritical, Critical
<1>2. Busy' = [k \in Workloads |-> NoTask]
  BY <1>1 DEF Busy
<1> QED BY <1>2 DEF Dies, cluster, Busy, Serial!Abandon

\* Every step of the agent is a step of serial rollouts or none.
LEMMA StepIsSerial ==
  ASSUME TypeOK, WorkloadExclusive, WorkloadExclusive', ImageIsHolders, WorkerInv,
         [Next]_vars
  PROVE  [Serial!Next]_(Serial!vars)
<1>1. ASSUME NEW w \in Workers, Work(w) PROVE [Serial!Next]_(Serial!vars)
  <2>1. CASE Lock(w)
    BY <2>1, Locking DEF Serial!Next
  <2>2. CASE UpdateImage(w)
    BY <2>2, Updating DEF Serial!Next
  <2>3. CASE Notify(w)
    BY <2>3, Notifying DEF Serial!Next
  <2>4. CASE Unlock(w)
    BY <2>4, Unlocking DEF Serial!Next
  <2> QED BY <1>1, <2>1, <2>2, <2>3, <2>4, Unnoticed
<1>2. CASE UNCHANGED <<image, outcome, cur, pc>>
  <2>1. Busy' = Busy
    BY <1>2, NobodyEnters DEF InCritical
  <2> QED BY <1>2, <2>1 DEF Busy, Serial!vars
<1>3. CASE Approval \/ Poll \/ StopSignal \/ Restart
  BY <1>2, <1>3 DEF Approval, Submit, Approve, Poll, PollRead, Enqueue, StopSignal,
                    Restart, cluster, worker
<1>4. CASE StopUnlocks \/ GraceExpires \/ Crash
  BY <1>4, Dying DEF StopUnlocks, GraceExpires, Crash, Serial!Next
<1>5. CASE UNCHANGED vars
  BY <1>2, <1>5 DEF vars, cluster, worker
<1> QED BY <1>1, <1>3, <1>4, <1>5 DEF Next, AgentNext, Process

LEMMA InitIsSerial == Init => Serial!Init
<1> SUFFICES ASSUME Init PROVE Serial!Init
    OBVIOUS
<1>1. \A k \in Workloads : Occupant(k) = {}
  BY DEF Init, Started, Occupant, InCritical, Critical
<1> QED BY <1>1 DEF Init, Started, Busy, Serial!Init

\* On each workload rollouts are serial, and a success is announced only while
\* the workload has the announced version, whatever the workers, the queue,
\* exits and faults do (task.go 57-84, 131-161).
THEOREM RolloutsAreSerial == Spec => ImplementsSerialRollouts
<1>1. RecordInv => WorkerInv
  BY DEF RecordInv
<1>2. Spec => []WorkerInv
  BY <1>1, InitRecord, NextRecord, TypeCorrect, PTL DEF Spec
<1> QED BY <1>2, InitIsSerial, StepIsSerial, TypeCorrect, MutualExclusion, SuccessIsTrue, PTL
        DEF Spec, ImplementsSerialRollouts, Serial!Spec
=============================================================================
