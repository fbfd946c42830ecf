# k8s-cicd: specifications

TLA+ models of the deployment pipeline in `src/`, the TLC configurations that
check them on small instances, and theorems about them with proofs checked by
TLAPS. Paths below are relative to `src/`.

## 1. The system

Two generations of the program live in the repository.

**The current pipeline** is three processes that talk over HTTP, MongoDB,
Telegram and the Kubernetes API.

| process | code | state it keeps |
|---|---|---|
| gateway (`cmd/gateway`) | `internal/api`, `internal/storage` | MongoDB `k8s_cicd`: `service_environments`, `deploy_queue`, statistics; in memory: a worker pool behind a bounded channel |
| approval (`cmd/k8s-approval`) | `approval/*` | MongoDB `cicd`: `tasks_<env>`, seed of `push_data`; in memory: `sentTasks`, update offsets and channels of the bots |
| agent (`cmd/k8s-cd`) | `agent/*` | the same `tasks_<env>`, `push_data`, `image_snapshots`; in memory: task queue, mutex map; the cluster's images |

How a deployment travels:

1. The agent scans the namespaces of the cluster and pushes the services it
   finds (`POST /push`); the gateway answers, then its pool writes
   `service_environments`. What was pushed is remembered in `push_data`, and the
   agent pushes again only when a scan differs from it.
2. A user asks for a deployment (`POST /deploy`); the gateway checks it against
   `service_environments` and inserts one pending document per environment.
3. The approval service queries every service and environment (`POST /query`);
   the gateway assigns a document and answers with it. The task is split over
   its environments and stored. Those in `query.confirm_envs` wait for a human;
   the others are confirmed at once.
4. A poller sends a Telegram popup for what waits. A press of a button comes back
   through `getUpdates`, is checked against the record, and confirms it or
   rejects and deletes it.
5. The agent polls the confirmed records into a queue. A worker marks the record
   executed, takes the mutex of the workload, snapshots and replaces the image,
   watches the pods, rolls back or reports, deletes the record, notifies.

**The legacy deployer** (`cmd/k8s-cicd`, with `internal/queue`, `internal/http`,
`internal/k8s`, `internal/dialog`, `internal/telegram`) does the same in one
process. A poller fetches tasks over HTTP into a queue, which has a map, a channel
and a goroutine for each service and environment, a channel to the workers and a
file of the day. A worker changes the image through a client that caches
Deployments, watches the pods, rolls back and reports to the gateway. The dialogs
let a user put a deployment together in Telegram. The command does not build
against the present `internal/config` and `internal/storage`, and nothing in the
repository calls `internal/dialog`, `ConfirmTask` and `CompleteTask` of the queue,
or `BotManager` of `internal/telegram`: the models take the exported functions as
what they can be called for. `internal/storage/redis.go` has no caller either.

### Components, and what makes each of them correct

| component | operations | hard behaviour | what must hold |
|---|---|---|---|
| agent: poller, queue, workers | poll, enqueue, dequeue, execute, settle, stop | workers racing for a mutex, a full queue, crash between mark and result, stop | one rollout per workload at a time; a reported success is true; no confirmed record is forgotten; no record deleted unexecuted |
| agent: Kubernetes client | snapshot, update, check, rollback, discover | partial failures, snapshots pruned while needed | the snapshot a task took survives it; a rollback rolls back |
| agent: discovery and push | scan, compare, push, store | one of four calls fails, seed at the same time | what is deployed becomes known; what is recorded was pushed |
| gateway: handlers, pool | push, deploy, query, status | overlapping handlers of several database calls, answered but not applied, full channel, crash | only known environments are queued; an answer accounts for every environment; what is assigned is handed out |
| approval: sync | query, dedupe, store, split, verify, force | five calls per record while poller, users and agent change it | nothing goes to a confirmed environment without a human |
| approval: bots | popup, mark, update poller, callback | popup and mark are two calls; updates delivered again after a restart | one popup per task and start; every waiting task is asked about; a rejected task goes away |
| gateway: statistics; agent: notifications | reports, messages | – | not modelled: see section 7 |
| legacy: queue | enqueue, pass on, confirm, complete, expire, persist, load | five goroutines on a map, channels and a file; blocking sends; crash with half of it done | what the map knows is on its way or on disk; passed on once; a restart brings it to a worker |
| legacy: rollout and Kubernetes client | get, update, check, roll back, complete | a cached object that is written into before the call that may fail | what is reported is true; the cache never passes a lie off as current |
| legacy: dialogs | start, process, cancel, time out | updates that overlap, a monitor per dialog that removes by user | submitted is what was shown, once; every dialog ends; no double close |
| legacy: Telegram bots | poll, send, answer | – | not modelled: see section 7 |

The single hazards, each at its line with the properties that watch it, are in
`PROJECT.json` under `hazards`.

## 2. Modules

| module | models | lines of the code |
|---|---|---|
| `Agent` | poller, bounded queue, workers, mutex map, rollout, stop, crash, restart | `agent/agent.go`, `agent/task/task.go`, `agent/kubernetes/k8s_client.go`, `agent/client/mongo_client.go`, `cmd/k8s-cd/main.go` |
| `SerialRollouts` | abstract: rollouts of a workload one after the other | – |
| `Gateway` | `handlePush`, `handleDeploy`, `handleQuery`, `handleStatus`, `WorkerPool`, `MongoStorage` | `internal/api/server.go`, `internal/storage/mongo.go` |
| `Approval` | `periodicQueryAndSync`, `handleStoredTask`, `pollPendingTasks`, `PollUpdates`, `HandleCallback` | `approval/agent.go`, `approval/client/mongo.go`, `approval/telegram/bot.go` |
| `Discovery` | scan, comparison, push, store; the seed; the gateway behind the push | `agent/agent.go`, `agent/kubernetes/k8s_client.go`, `agent/client/mongo_client.go`, `approval/client/mongo.go`, `internal/api/server.go` |
| `LegacyQueue` | `pollGateway`, `Enqueue`, `processKey`, `ConfirmTask`, `CompleteTask`, `persistTask`, `loadPendingTasks`, `cleanupExpiredTasks` | `internal/queue/queue.go`, `internal/http/client.go`, `cmd/k8s-cicd/main.go` |
| `LegacyRollout` | `processTask`, the Kubernetes client and its cache | `cmd/k8s-cicd/main.go`, `internal/k8s/client.go` |
| `Dialog` | `StartDialog`, `ProcessDialog`, `CancelDialog`, `monitorDialogTimeout` | `internal/dialog/dialog.go` |
| `MCAgent`, `MCGateway`, `MCApproval`, `MCDiscovery`, `MCLegacyQueue`, `MCLegacyRollout`, `MCDialog` | instances for TLC | – |
| `AgentProofs`, `GatewayProofs`, `ApprovalProofs`, `DiscoveryProofs`, `LegacyQueueProofs`, `LegacyRolloutProofs`, `DialogProofs` | theorems about the invariants and action properties | – |
| `AgentRefinement` | the theorem that `Agent` implements `SerialRollouts` | – |

`PROJECT.json` (`map`) gives the lines of every definition.

Conventions:

- **A step is one call** to MongoDB, Kubernetes, Telegram or a shared Go
  structure; what a goroutine does between two calls belongs to the step before.
  An action bears the name of the function it models, and the program counter of
  a goroutine says which call is next.
- **A call may fail** where the code handles an error, or drops it. A failed write
  was applied or was not: only the answer is certain to be missing. The bound on
  failed calls and crashes is a constant (`MaxFaults`, `MaxExits`, `MaxMishaps`).
- **Crash and restart**: memory is lost, collections, images, the chat and the
  updates Telegram keeps survive.
- Payloads are model values. Chinese statuses are named in English: 待确认
  pending, 已确认 confirmed, 已拒绝 rejected, 已执行 executed.
- A definition whose comment says *Mutant of X* is no part of any specification.
  It is X with a plausible mistake, and each property fails for one of them.

### Agent

`conf` and `status` are the confirmation status and the status of each task's
record, `image` and `snapshots` the cluster and `image_snapshots`, `queue` is
`TaskQueue.queue`, `toPoll` and `batch` the round of the poller, `locks` the map
of mutexes and `holder` who holds each. Go's two-step `getLock` (read lock, then
write lock with a second look) is `GetLock` and `NewLock`; a mutex is named by the
worker that created it, so that two mutexes for one key are possible in the model
and excluded only by the second look. `CallFails` is a failed call of MongoDB: an
environment's poll that finds nothing, a mark, a cleanup, a status or a deletion that
is logged and not written. `Lock` waits until the mutex is free.
`LockKeyOf` need not be injective, because "service-namespace" is not; the runs
give each workload a mutex of its own, the theorems hold for every naming.

`Submit` and `Approve` are the environment: a record is unique for service,
version and environment. `Approval` has the whole of what the approval service writes;
`Submit` only makes a new record, and does not set back one that is there. A rollout that fails goes through `Rollback`, which is
given a snapshot without an image and therefore does nothing but return an error
for a known old tag. `StopUnlocks` unlocks every mutex of the map: a free one is a
fatal error.

### Gateway

Every request is a goroutine that arrives at most once. `Deploy` validates;
`Count`, `Insert` and `SubmitDeploy` are the calls of one turn of the loop over
the environments. `Query` finds a pending document and `UpdateStatus` assigns one
with the same key (`SameTask`), which need not be the same document. `Push` only submits to the pool;
`Take`, `Store` (one upsert) and `Finish` are the pool's worker; the first upsert
that fails is the last one of its push. Counting, finding, inserting and updating may
fail too, the writes with or without having been applied.

### Approval

`task` has a slot for each service, version and environment: the unique index.
`QueryTasks` takes what the gateway has; an item may be returned
more than once (`delivered`), since the gateway hands out a task whose update to
assigned has failed. For each environment of an item the sync loop makes the
calls `StoreTask`, `UpdateStored`, `VerifyStored` and, when the record is not as
expected, `ForceStatus`, `ForcePopupSent`, `Reread`. `item` and `at` are where its two
loops stand. `Found(id)` is what a
search by id over the mapped collections may return. `Reread` dereferences its
result without looking at the error, so a record deleted meanwhile ends the
process. `updates`, `fetched` and `channel` are Telegram's queue, the offset and the Go
channel: an update fetched but not acknowledged is delivered again after a restart.
A generated UUID is named by what it was generated for. `SendPopup` that fails may
have shown the popup (`Shown`): Telegram's answer is lost, and the task does not get
into `sentTasks`, so that the next round sends another one. `unread` counts these
popups for each id. `cutShort` are the ids whose rejection was written by a handler
that a crash or a failed call stopped before the deletion. `Execute` and `Remove` are
the agent, reduced to what it does to the records, its poll and its mark in one step on
purpose; `Agent` has the detail. As there, the record deleted is the one of the task's
first environment.

### Discovery

`pc` and `round` follow `initialFullPush` (which does not compare) and
`periodicPushDiscovery`; the gateway is the set of pushes answered and not
applied. `ApplyPush` is the upsert of one service of a push; when it fails, which the
pool's worker only logs, the rest of the push is dropped. `lost` are the pairs the
gateway has answered for and dropped, that way or by its end, and has not learned
since. The counts of the seed's single pairs are one step (`SeedPairs`), in which each
may fail and then counts as zero. The environments of the
agent's and of the approval service's configuration are taken to be the same.

### LegacyQueue

Each of the four `Clients` (poller, loader, cleaner, an outside caller) runs a short
program on one task: `hand` is its copy, `todo` the steps it has still to do. A
step is one access to the map (`Store`, `Delete`), to the key's channel (`Send`,
`Resend`) or to the file (`Persist`, which `storageMu` makes one step). `known` is
`taskMap`, `channel` and `made` are `perKey`, `pending` is the local slice of
`processKey` and `phase` its control, `ready` the channel to the workers. `file` is
the file of today; `Midnight` puts an empty one in its place, and `torn` says that a
crash or a failed write has left it half written, after which `json.Unmarshal` fails
and nothing is read or written. Any access to the file may fail, as often as it likes:
`persistTask` logs it and goes on, and `unsaved` are the tasks whose last record did not
get into the file; the loader that can not read it loads nothing in this life of the
process (`unread`). The loader's read is one step with the restart, as nobody else
runs before it. `Store` is the access to the map together with `perKey.LoadOrStore`, the
next statement: a task confirmed between the two would find no channel, which is what
`unheard` stands for. The goroutine of a key starts after the first send of the one who
has made the channel (`sendFirst`), as in `Enqueue`; meanwhile others may send.
`Tick` sorts the slice before it is passed on: as any permutation in the order of the
requests' seconds, since `sort.Slice` is not stable. A task that is being passed on
may be confirmed once more: `ConfirmTask` only looks whether it is known.
What a worker does with a task is `Take` and `Finish` here, and `LegacyRollout`.

### LegacyRollout

`object` are the `*Deployment`s in memory, `cached` is the cache's pointer for each
deployment and `dep` the one a worker holds: two workers at one deployment hold one
pointer, and write into the same object. `fresh` is the set of objects with the
server's resourceVersion; the server refuses any other, and so does it the repetition
of a call that has been applied. The three attempts of a call are one step that
succeeds or fails. `ChangeImage` and `Rollback` write into the object, `Put` and
`PutBack` send it. `GetDeployment` loads from the cache or fetches and stores, and its
caller writes: one step; two fetches at once would give two objects, of which the cache
keeps one. The writes of two workers to one object are not synchronized, a data race
that is modelled as one write before or after the other. `storage.PersistDeployment`, which
`processTask` also calls, is not in the repository.

Three variables only remember: `stray` are the objects in which an update that failed
without a conflict has left its image, although the server would still accept them;
`misled` are the workers that read their old image from one of them; `alone` are those
whose task has overlapped no other one for the same deployment.

### Dialog

A dialog is found under its user's id, so one user stands for all. A handler (the
goroutine of an update) loads a pointer to the dialog and works with it across its
calls of Telegram (`held`), to its return; the map (`current`) may meanwhile hold
another dialog or none. `Check` reads clock and stage, `Reaction` says what follows,
and the writes are steps of their own: `Choose` writes the choice or the stage, `Clear`
empties `Messages` after its messages were deleted, `Answer` sends a new message and `Edit`
changes the last one, which is looked up again at index -1 when another handler has
emptied the list meanwhile. `filled` are the dialogs whose list is not empty. `Prompt`
shows the choice and may fail, after which the dialog waits for its confirmation all
the same (`unseen`). `monitor` is the goroutine of each dialog: started late
(after the messages of `StartDialog`), in its select, or removing. A signal is only received
in the select, a closed channel at any time before. `contended`, `untold`, `unseen` and
`shown` remember what the properties need. Any text at the stage "version" becomes
the version, a second press of "next_env" too. Slices and strings are written whole: that
two handlers who append to one slice at once may tear it is left out.

## 3. Runs

Every run that passes explores its whole state space.

| run | instance | question |
|---|---|---|
| `agent_rollouts` | 2 confirmed versions of one workload, 2 workers, queue of 1 | are rollouts of a workload serial, are reported successes true, do snapshots survive; does `Agent` refine `SerialRollouts`; is every confirmed task carried out, although a full queue drops it |
| `agent_restarts` | a record and one split off it, 1 worker, 1 exit, 1 failed call | which records may be left marked executed; is a confirmed one found again |
| `agent_stop` (violation) | 1 worker, 1 exit | "stopping never crashes" (`agent/task/task.go:4,332`) |
| `agent_split` (violation) | a record that waits for its user, and one split off it that does not | "a finished task deletes its record" (`agent/task/task.go:3`) |
| `gateway_requests` | 2 pushes, 2 deploys, 2 queries, 1 status; pool of 1 with room for 1; 1 mishap | do answers match what is stored, is an answered push applied |
| `gateway_duplicates` (violation) | two deploys of one version | "no race" (`internal/api/server.go:322`) |
| `approval_human` | 1 task returned up to twice, 2 presses by 2 users, 1 mishap | is there a human behind every confirmation, one popup per start and lost answer, no rejected record left |
| `approval_split` | 2 tasks split over a confirmed and an unconfirmed environment and colliding in both, 1 mishap | does each part get what its environment calls for, is every waiting one asked about, does everything handed out get its record |
| `discovery` | 2 services, one seeded, 2 environments, 1 change, 1 mishap | does what is deployed become known, was what is recorded pushed, does pushing stop |
| `legacy_queue` | 2 versions of one service, one to be confirmed; 1 worker, channel of 1 to it, 1 mishap, and any number of failed accesses to the file | do map, channels and file agree on what is to be done, is it passed on once, does what is listed reach a worker across a crash, an expiry or a full channel |
| `legacy_rollout` | 3 tasks for 2 versions of one deployment, 2 workers, 1 failed call or crash | is a cached object the server would accept true, is what a task reports |
| `dialog` | 2 dialogs of one user, 2 handlers that overlap once | is what is submitted what was shown, does every dialog end, whose end may a monitor take for its own, can a channel be closed twice |

### Why these bounds

Two workers are enough for the mutex: an argument about exclusion speaks of two
at a time, and the proof covers the rest. A queue of one is full with the second
task, a channel of one blocks the second push. Two tasks or deploys of one service
and environment collide in every way a third one could with one of them. One
mishap can hit every call and every point; two in a row are left to the proofs.
An item returned twice meets its own record in every status.

Symmetry is used in `legacy_rollout` only, which checks invariants: its workers and
its two versions are alike. That run and `dialog` have a VIEW, which leaves out what
nobody can read any more: an object no pointer leads to, and what a dialog held that
is neither in the map nor with a handler.

The legacy queue has one mishap, because liveness with two is more than five minutes
of graph search. Two in a row, such as a crash after a confirmation, an expiry or a
midnight, are covered for the invariants by the proofs; for `ListedIsTaken` they are not
part of the run. Failed accesses to the file need no bound, as they leave only one bit
behind. The channel of one to the workers is full with the first task. The channel of a
key holds four: it is never full with one task fetched, loaded and confirmed, as 100 do
not in the code (filled up before its goroutine starts, it would block its maker for
ever). A rollout's cache matters from one task to the next: the third task meets what
the second one made of what the first one left, and two workers are one more than are
alone. Two handlers of one user may overlap once in a run, which is enough for every
pair of updates; that a third one joins is left out. A push to the gateway names one
service in `gateway_requests`; that a failed upsert drops the rest of a push of several
is the subject of `discovery`.

`CHECK_DEADLOCK FALSE` is set where the system really stops: no request, item
or press is left, every task has been processed, every dialog has ended.

### Fairness

- `Agent`: weak fairness of the poller (a ticker), of each worker's next step, of the
  end of a stopping process (its timer) and of the restart (a Kubernetes
  Deployment). Nothing is assumed of users, crashes or stops.
  `agent_rollouts` checks `BacklogSpec`: its records are confirmed, its workload has the
  version of the later task, and its process does not end, so that only the poller and
  the workers (`Goroutines`) need fairness.
- `Gateway`: weak fairness of a push that can be submitted and of the pool's
  goroutines. With several pushes blocked at a full channel, one of them goes on;
  that each does follows because requests are finite.
- `Approval`: weak fairness of the sync loop and of the popup loop, both driven by tickers.
- `Discovery`: weak fairness of the agent's loop and of the pool.
- `LegacyQueue`: weak fairness of the steps a client has begun, of the loader, of the
  goroutine of each key (its receive, and its ticker with what follows), of the
  workers (`feedbackCompleteToGateway` asks until it is answered) and of the restart.
  The poller need not find anything and nobody has to confirm.
- `LegacyRollout` and `Dialog` check safety only. That a dialog ends is checked as the
  invariant `EndIsAhead`: somebody who will remove it is always there.

## 4. What the runs show

They confirm that the pieces that look dangerous are sound: the double-checked
mutex map, dropping tasks at a full queue, the sync loop that writes while users
decide (no confirmation without a human, no second popup in one start), the
comparison with `push_data`, the legacy queue's way from the map through two
channels to a worker, and the ends of a dialog as long as its user's updates do not
overlap. The legacy client's cache, which is written into before the call that may fail,
is nearly sound with any number of workers: an object left wrong by a conflict is one
the server refuses, and a worker that was alone at its deployment reports the truth.
One lie gets through. An update that fails three times for another reason leaves an
image that was never deployed in an object the server still accepts
(`internal/k8s/client.go:168-187`); the next task within the minute records it as the old
image, and a rollback of that task deploys it and reports success. `AcceptedIsTrue` and
`ReportIsTrue` name just this case (`stray`, `misled`); without it both are violated.

Three statements of the code about itself do not hold (`findings`):

- **`agent_stop`**: `Stop` unlocks every mutex of the map. Unlocking a free
  `sync.Mutex` is a fatal error that `recover` does not catch, so a SIGTERM after
  any task has finished kills the process.
- **`agent_split`**: a record that the approval service has split off for another
  environment keeps the list of all environments, and the agent's worker deletes
  by the first of them. The main environment's record, which may still wait for
  its user, is deleted, and the split one stays as executed.
- **`gateway_duplicates`**: counting and inserting are two calls, without a unique index.

Observations that need no model checker; the models follow the code in them:

- `handleFailure` passes a snapshot without an image, and `RollbackWithSnapshot`
  refuses it (`agent/task/task.go:256`, `agent/kubernetes/k8s_client.go:644`): a
  failed rollout of the current agent stays.
- The filter of a status update asks for the field `environment`; documents have
  `environments` (`internal/storage/mongo.go:260`): every status is answered with 404.
- Callback data is split at every dash, and a generated task id has four
  (`approval/telegram/bot.go:354`): a press on its popup is an "invalid operation".
  The runs give the task an id without a dash (`DashFree`), so that what lies
  behind the parser is checked too.
- The sync loop's second write (`approval/agent.go:219`) may come after a user's
  confirmation and set the record back to pending; the popup has been sent in this
  life of the process, so that nobody is asked again before the next start.
- A press that comes before `MarkPopupSent` has stored the bot's name is refused, and when
  that call fails every press is, until a restart sends another popup
  (`approval/telegram/bot.go:306`, `351-400`).
- A popup whose answer is lost is sent again in the next round
  (`approval/telegram/bot.go:289-317`): the chat then has two for one task.
- A push the gateway has answered is dropped from its first failed upsert on, with a
  line in the log (`internal/api/server.go:100-111`, `internal/storage/mongo.go:125-128`); the
  agent has it in `push_data`, finds no change and never pushes it again.
- A prompt that could not be sent leaves the dialog at the stage "confirm"
  (`internal/dialog/dialog.go:367-371`): a "confirm" typed then submits what nobody was shown.
- A task whose record in the file has failed is in the map only
  (`internal/queue/queue.go:135-179`), and a crash loses it.
- Of several items with one service, environment and version `dedupeTasks` keeps any
  one (`approval/agent.go:124-158`); environments only the others name are dropped.
  `HandedOutIsStored` speaks of items with a key of their own.
- Legacy workers at one deployment share its cached object: one can send what the
  other one has just written into it, and report it as his. `ReportIsTrue` speaks of
  tasks that overlap no other one of their deployment.
- A confirmation that reaches the legacy queue before its key has a channel is
  stored and sent to nobody (`internal/queue/queue.go:122`); only a restart brings it back.
- When `SendConfirmation` fails, the entry in `PendingConfirmations` stays
  (`internal/dialog/dialog.go:395-407`), and nothing in the repository reads the
  map or answers "confirm_api:".

Some properties hold only with an exception, which their text names and which is
as narrow as the code allows:

| property | exception |
|---|---|
| `OrphanExplained` | an exit, a failed call, or a record split off another one leaves a record executed for ever |
| `DeletedOnlyWhenDone` | an exit, or another task that names the record's slot as its own |
| `PushIsApplied` | a crash or a failed call: nobody repeats an answered push |
| `OnePopup` | one more popup of an id for each of its popups whose answer was lost |
| `RejectedIsDeleted` | a crash or a failed call that stopped this record's own handler between rejection and deletion |
| `AutoConfirmed` | a restart: an unconfirmed environment then waits for nobody; or a second failed call |
| `HandedOutIsStored` | a crash or a failed call; items that share their key |
| `StoredWasPushed` | a default service; a pair the gateway has answered for and dropped |
| `ServiceBecomesKnown` | a default service; a service in `push_data` of which the gateway has dropped a pair |
| `PendingIsOnDisk` | a task whose own last record failed; a file broken by another failed write or a crash; the next day |
| `ListedIsTaken` | a file that is broken, or that the loader could not read |
| `PassedOnOnce` | a task that has come back: from the file, after its removal, or by a confirmation |
| `AcceptedIsTrue`, `ReportIsTrue` | the object, and the worker, of the lie described above; for the report also overlapping tasks |
| `SubmittedIsShown` | two handlers at one dialog; for what was shown also a prompt that could not be sent |
| `PanicNeedsTwo` | two handlers at one dialog |
| `TimeoutIsOwn` | a monitor that could not know of its dialog's end removes the next one |

## 5. Proofs

TLAPS proves, for every value of the constants that meets the named assumptions
(which TLC evaluates in every run):

| theorem | property | inductive invariant |
|---|---|---|
| `AgentProofs!TypeCorrect` | `TypeOK` | itself |
| `AgentProofs!MutualExclusion` | `WorkloadExclusive` | `MutexInv`: a worker that waits or is inside uses the mutex in the map, and one that is inside holds it |
| `AgentProofs!SuccessIsTrue` | `ImageIsHolders` | `ImageInv`: also, a worker that rolls back has failed; relative to `TypeOK` and `WorkloadExclusive` |
| `AgentProofs!SnapshotIsSafe` | `SnapshotSurvives` | `SnapshotInv`: who is not inside has taken no snapshot, and a snapshot taken is there |
| `AgentProofs!OrphansHaveACause`, `DeletionIsEarned` | `OrphanExplained`, `DeletedOnlyWhenDone` | `RecordInv`: both, an idle worker has no task, one past its checks has a result, a stopping process has been counted |
| `AgentRefinement!RolloutsAreSerial` | `ImplementsSerialRollouts` | the invariants of `MutualExclusion` and `SuccessIsTrue`; each step is a step of `SerialRollouts` or none |
| `GatewayProofs!TypeCorrect` | `TypeOK` | `Types`: also, a deploy in its loop has an environment left, an update follows a query or a status, and a worker has services left of a push only |
| `GatewayProofs!OnlyKnownIsDeployed` | `DocumentsAreKnown` | `Checked`: what is left of a checked deploy is known |
| `GatewayProofs!DeploysAreAccountedFor` | `DeployIsAccountedFor` | `AccountInv` (an environment is accepted, refused or left) and `Backed` (each accepted one has its document, each refused one had another or a failure) |
| `GatewayProofs!OnlyTheFoundIsAssigned` | `AssignedIsHandedOut` | `HandedInv`: also, only a query has found a document, and it replies last |
| `ApprovalProofs!TypeCorrect` | `TypeOK` | itself |
| `ApprovalProofs!AskedOnce` | `OnePopup` | `PopupInv`: who is neither in `sentTasks` nor just asked had fewer popups the service knows of than there were starts |
| `ApprovalProofs!HumanConfirms` | `ConfirmedByHuman` | `HumanInv`: an id names one slot, and what a handler carries out was pressed by a permitted user |
| `ApprovalProofs!RejectedGoes` | `RejectedIsDeleted` | `RejectedInv`: ids name slots, and only mapped environments have rejected records |
| `DiscoveryProofs!TypeCorrect` | `TypeOK` | itself |
| `DiscoveryProofs!OfferedExists` | `KnownWasDeployed` | `SeenFirst`: the cluster, the scan and the pool's queue hold only services seen |
| `DiscoveryProofs!RecordedWasPushed` | `StoredWasPushed` | `PushedFirst`: while the agent is about to store, what it stores is with the gateway or was dropped by it; what the seed inserts is a default |
| `LegacyQueueProofs!TypeCorrect` | `TypeOK` | `Types`: also, each client is at a point of one of its own programs, with the status that program stores (`ClientsOK`), and a copy is only in the channel and slice of its own key (`QueuesOK`) |
| `LegacyQueueProofs!PendingIsUnderWayHolds` | `PendingIsUnderWay` | `OnItsWay`: what is on its way has the status that is passed on |
| `LegacyQueueProofs!PendingIsOnDiskHolds` | `PendingIsOnDisk` | `DiskInv`: the file's entry is pending, its last record has failed, or a client will write it or remove the task from the map (`OnDisk`), and only a task handed out to be confirmed waits for it (`WaitingIsAsked`) |
| `LegacyQueueProofs!PassedOnOnceHolds` | `PassedOnOnce` | `OnceInv`: of a task that has not come back only the poller has a copy to send, and one unknown to the map is nowhere, except in the hands of a poller about to store it |
| `LegacyRolloutProofs!TypeCorrect` | `TypeOK` | `Types`: also, a worker at a call has an object with an image, and has tries left |
| `LegacyRolloutProofs!CacheIsTrusted` | `AcceptedIsTrue` | with `PointersAreApart`: no object is cached for two deployments, and a worker's is cached for its own only |
| `LegacyRolloutProofs!ReportsAreTrue` | `ReportIsTrue` | `ReportInv`: also `AloneIsAlone`, and `ToldTruly`, what a lone worker at each point relies on |
| `DialogProofs!TypeCorrect` | `TypeOK` | `Types`: also, what a handler at each point holds (`HandlerOK`), and there is a dialog left for each that is being made (`Room`) |
| `DialogProofs!EndIsFinal` | `PanicNeedsTwo` | `Apart`: handlers at one dialog have been noticed, what is closed is not in the map, and who edits the last message alone finds it |
| `DialogProofs!EndComes` | `EndIsAhead` | itself, relative to `Types` and `Apart` |
| `DialogProofs!TimeoutsAreOwn` | `TimeoutIsOwn` | `ToldInv`: a dialog out of the map has a monitor that knows, will know before it waits, or is in `untold` |
| `DialogProofs!SubmissionIsShown` | `SubmittedIsShown` | `ShownInv`: what a handler has read is still so (`Reading`), the stages come in order, and the prompt before the stage "confirm" is left (`InOrder`), nobody comes back to what was submitted (`Final`) |

Why the strengthenings are needed:

- `ImageIsHolders` does not exclude a rollback after a success. `RollsBackFailure`
  does, and `WorkloadExclusive` keeps the other workers away from the image.
- `WorkloadExclusive` says nothing of the mutexes, so it cannot exclude a second
  worker that enters with another mutex. `MutexInv` ties each worker's handle to
  the one in the map. This is preserved because an entry of the map is written once,
  and a crash empties map, handles and program counters together.
- `SnapshotSurvives` needs that a worker enters without a snapshot of an earlier
  task. The cleanup of another worker spares it because both are at different workloads,
  which is `WorkloadExclusive` again.
- For the refinement the mapping reads the task of a workload off the worker inside
  (`Busy`); that this is a function, and that an announced version is the image, are
  the two invariants, with `WorkerInv`: who is past its rollout has a result. The critical section's
  entry is `Begin`, the update of the image `Apply`, a notification `Announce`, giving
  the mutex back `Finish`, a crash or exit `Abandon`.
- `DocumentsAreKnown` says nothing of a request between its check and its inserts.
  `CheckedStaysKnown` carries the check along the loop. It survives the pushes in
  between because `known` only grows (`KnownGrows`).
- `DeployIsAccountedFor` speaks of the answer only. `Accounted` is the loop's
  invariant; `Backed` survives because a document only ever changes its status.
- `ConfirmedByHuman` is about a record, a press is about an id. `IdsNameSlots`
  connects them: an id from upstream or a generated one leads to one record only, so
  that neither the sync loop nor a press reaches a record that it was not meant for.
- `OnePopup` counts per start. That the memory `sentTasks` is behind it, and not
  `popup_sent` in the record, which the sync loop resets, is what `PopupInv` says.
- `StoredWasPushed` does not say that a push comes before the store;
  `StoringPushed` does, and `GatewayKeeps` shows that the gateway does not forget
  except by dying.
- `PendingIsUnderWay` counts copies of any status, but one that waits for its
  confirmation is dropped on the way: `OnItsWay` needs the status. It also needs that
  a copy is in the queues of its own key, or the sort and the passing on of another key
  could lose it.
- `PendingIsOnDisk` speaks of tasks in nobody's hands; map and file differ as long
  as somebody has one. `OnDisk` says what he will do about it. An entry of another
  status is written by a program that goes on to remove the task, so it is right
  again at the end, whoever stored it again in between.
- `PassedOnOnce` is a sum over hands, channel, slice, second channel and workers.
  Every step moves a copy from one summand to another, the sort being a bijection of
  the slice's places (`CountReorder`), and only `Poll` adds one, when the map does not know the task; that
  nothing is left of it then is what `OnceInv` adds.
- `AcceptedIsTrue` would be broken by a write into an object that is cached twice;
  `PointersAreApart` excludes it. `ReportIsTrue` is about the end of a task:
  `ToldTruly` follows the image from the cached object to the server and back. That the
  other workers change nothing of it is `AloneIsAlone` with `PointersAreApart`: they are
  at other deployments, hence at other objects. A failed attempt to go back leaves a
  stray object too, which the next attempt finds; it remembers no old image, so that
  this attempt does nothing.
- In `Dialog` the properties speak of the map and the channels, and everything
  happens through pointers taken from the map before. `Apart` says which pointers
  there are. `ToldInv` follows the news of an end to the monitor; `Closing` is the
  moment between the removal and the close. `Final` keeps a dialog that was
  submitted from being submitted again: it is at its last stage, or only the handler
  that failed to send is at it, and removes it. A handler keeps its pointer to its
  return, so that a dialog that is not contended is read, written and answered by one
  handler at a time.

Assumptions beyond types: in `LegacyRollout` workers, deployments and objects are finite
and there are more objects than can be pointed to (memory has room for one more).
In `Dialog` handlers and dialogs are finite, for the count of the dialogs that are left.
In `Approval` ids of different items differ and generated ids are none of the upstream ones.

Each proof has one step per action. Facts about sequences and finite sets come from
`SequenceTheorems` and `FiniteSetTheorems`. Every property was first checked by
TLC on the instance of its component's run. Only model-checked are:

- all liveness properties (`ConfirmedIsCarriedOut`, `ServiceBecomesKnown`, `ListedIsTaken`
  and the like): they rest on fairness.

## 6. Plan

Done: all seven components' models, the refinement of `SerialRollouts`, and the
proofs of every safety property a run checks.

Next, the most important first:

1. `Pipeline`: gateway, approval and agent on one database, with the life of one
   deployment (asked, assigned, waiting, confirmed, carried out, gone) as the abstract
   specification. `Approval` has the agent, Telegram and its users at the same
   records already, `Discovery` the agent, the gateway and the seed.

Modules with theorems, and those they use, declare no RECURSIVE operator.

## 7. Not modelled, and why

- **Expiry.** TTL indexes remove old records, snapshots and documents after days;
  no record expires in the models.
- **Statistics and reports** (`internal/storage/stats.go`): `InsertDeploySuccess` is
  reached only by a status update that finds its task, and none does; the
  scheduler is shut down when `initScheduler` returns, so no report is sent.
- **Notifications** (`agent/telegram/bot.go`): messages out, no state.
- **Message formats**: `QueryTasks` accepts an array of tasks and the gateway
  answers with one object (`approval/api/query_client.go:107`,
  `internal/api/server.go:578`). The model takes the array, which the API document describes.
- **A callback of a user without a username** ends the process; the crash action
  stands for it.
- **Records without a task id** in the agent: nothing stores one.
- **Order of versions across workers**: Go's mutex does not order its waiters, and
  the code promises nothing; the older version may win.
- **IP whitelist, logging, configuration, formatting.** Configuration appears as CONSTANTS.
- **Redis** (`internal/storage/redis.go`): no caller.
- **`internal/telegram`**: `BotManager` has no caller. Its `confirmationChans` are
  looked up under a key no callback data can equal, so every press is answered
  as expired; what is left is sending messages.
- **The legacy deployer's reports** (`reportServicesToGateway`, `reportToGateway`,
  `verifyDataFromGateway`): requests out, repeated until answered. The functions of
  `internal/storage` and `internal/telegram` that the command calls are not in the repository.
- **Dialog layout**: keyboards, message ids and their deletion; `submitTasks`,
  `sendConfirmation` and `sendContinuePrompt`, which nothing calls.
- **The minute between two tasks of one key** in `processKey`: time is left to the scheduler.

## 8. Running

    tlc -workers 2 -config MCAgent_rollouts.cfg MCAgent
    tlapm AgentProofs.tla

The MC module of each component is run with each of its configurations. The
longest run, `agent_rollouts`, takes about two minutes, the longest proof,
`LegacyQueueProofs`, about three.
