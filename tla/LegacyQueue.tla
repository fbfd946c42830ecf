---------------------------- MODULE LegacyQueue ----------------------------
(***************************************************************************)
(* The queue of the legacy deployer (cmd/k8s-cicd): a map, a channel and a *)
(* goroutine for each service and environment, a channel to the workers,   *)
(* and a file of the day.  The poller, the loader, the cleaner and the     *)
(* callers of the queue each run a short program on one task; its steps    *)
(* are the accesses to the map, the channels and the file, and interleave. *)
(***************************************************************************)
EXTENDS Naturals, Sequences, FiniteSets, Functions

CONSTANTS
  Tasks,        \* keys: service, environment, version and second of the request
  Keys,         \* "service-env"
  KeyOf,        \* [Tasks -> Keys]
  Asked,        \* the status a task has when the gateway hands it out
  Second,       \* the timestamps of the requests
  Workers,      \* cfg.MaxConcurrency goroutines
  KeyCapacity, TaskCapacity,   \* capacities of the channels, 100 in the code
  NoTask,
  MaxMishaps    \* bound on crashes, midnights, expiries and calls from outside

ASSUME TaskAssumption ==
  /\ KeyOf \in [Tasks -> Keys]
  /\ Asked \in [Tasks -> {"pending", "pending_confirmation"}]
  /\ Second \in [Tasks -> Nat]
  /\ NoTask \notin Tasks
ASSUME CapacityAssumption == KeyCapacity \in Nat \ {0} /\ TaskCapacity \in Nat \ {0}
ASSUME BoundAssumption == MaxMishaps \in Nat

VARIABLES
  offered,    \* tasks the gateway has and nobody has completed
  fetched,    \* what the poller has fetched and not yet enqueued
  toLoad,     \* what the loader has read from the file and not yet taken on
  hand, todo, \* each client's copy of a task and the steps it has still to do
  known,      \* Queue.taskMap: the status of each task, "none" if absent
  channel,    \* Queue.perKey: what is in each channel
  made,       \* the keys that have a channel
  phase,      \* each processKey: not started, in its select, or passing on
  pending,    \* processKey's local slice
  ready,      \* Queue.tasks
  cur,        \* the task each worker is at
  file, torn, \* today's file: the status of each task; whether it is half written
  unsaved,    \* tasks whose last record of this life did not reach the file
  unread,     \* the loader of this life could not read the file
  up, days, mishaps,
  taken, again, unheard \* history of this life: tasks a worker got; tasks
                        \* that came back; tasks confirmed without a channel

inbox   == <<fetched, toLoad>>
clients == <<hand, todo>>
pipe    == <<channel, made, phase, pending, ready>>
disk    == <<file, torn, unsaved, unread>>
process == <<up, days, mishaps>>
history == <<taken, again, unheard>>
vars == <<offered, inbox, clients, known, pipe, cur, disk, process, history>>

\* Who works on the queue: pollGateway, loadPendingTasks, cleanupExpiredTasks
\* and whoever calls ConfirmTask or CompleteTask.
Clients == {"poller", "loader", "cleaner", "caller"}

Statuses == {"pending", "pending_confirmation", "completed", "expired"}
Copy(t, s) == [task |-> t, status |-> s]

\* What may go wrong, or is done from outside, is bounded.
Mishap == mishaps < MaxMishaps /\ mishaps' = mishaps + 1

-----------------------------------------------------------------------------
\* Everything that is lost with the process.
EmptyMemory ==
  /\ fetched = {} /\ toLoad = {}
  /\ hand = [p \in Clients |-> Copy(NoTask, "expired")]
  /\ todo = [p \in Clients |-> <<>>]
  /\ known = [t \in Tasks |-> "none"]
  /\ channel = [k \in Keys |-> <<>>]
  /\ made = {}
  /\ phase = [k \in Keys |-> "none"]
  /\ pending = [k \in Keys |-> <<>>]
  /\ ready = <<>>
  /\ cur = [w \in Workers |-> NoTask]
  /\ taken = {} /\ again = {} /\ unheard = {}

Init ==
  /\ offered = Tasks
  /\ EmptyMemory
  /\ file = [t \in Tasks |-> "none"] /\ torn = FALSE
  /\ unsaved = {} /\ unread = FALSE
  /\ up = TRUE
  /\ days = 0 /\ mishaps = 0

-----------------------------------------------------------------------------
(* The operations of the queue, as programs of the clients *)

Free(p) == up /\ todo[p] = <<>>
Does(p, t, s, steps) ==
  /\ hand' = [hand EXCEPT ![p] = Copy(t, s)]
  /\ todo' = [todo EXCEPT ![p] = steps]

EnqueueSteps == <<"store", "send", "persist">>

\* FetchTasks: the array of what the gateway has not seen completed.
Fetch ==
  /\ Free("poller") /\ fetched = {}
  /\ offered # {}
  /\ fetched' = offered
  /\ UNCHANGED <<offered, toLoad, clients, known, pipe, disk, cur, process,
                 history>>

\* Mutant of Poll: Enqueue does not look the key up.
PollUnchecked(t) ==
  /\ Free("poller") /\ t \in fetched
  /\ fetched' = fetched \ {t}
  /\ Does("poller", t, Asked[t], EnqueueSteps)
  /\ UNCHANGED <<offered, toLoad, known, pipe, disk, cur, process, history>>

\* Exists, then the look-up of Enqueue.
Poll(t) ==
  /\ Free("poller") /\ t \in fetched
  /\ fetched' = fetched \ {t}
  /\ IF known[t] = "none" THEN Does("poller", t, Asked[t], EnqueueSteps)
                          ELSE UNCHANGED clients
  /\ UNCHANGED <<offered, toLoad, known, pipe, disk, cur, process, history>>

\* loadPendingTasks, one record: what waits for a confirmation is only stored.
Load(c) ==
  /\ Free("loader") /\ c \in toLoad
  /\ toLoad' = toLoad \ {c}
  /\ IF known[c.task] = "none"
     THEN Does("loader", c.task, c.status,
               IF c.status = "pending" THEN EnqueueSteps ELSE <<"store", "persist">>)
     ELSE UNCHANGED clients
  /\ again' = again \union {c.task}
  /\ UNCHANGED <<offered, fetched, known, pipe, disk, cur, process, taken,
                 unheard>>

\* ConfirmTask and CompleteTask, called from outside.
Call ==
  /\ Free("caller") /\ Mishap
  /\ \E t \in Tasks :
       \/ /\ known[t] # "none"
          /\ Does("caller", t, "pending", <<"store", "persist", "resend">>)
          /\ again' = again \union {t}
       \/ /\ known[t] # "none"
          /\ Does("caller", t, "completed", <<"store", "persist", "delete">>)
          /\ UNCHANGED again
  /\ UNCHANGED <<offered, inbox, known, pipe, disk, cur, up, days, taken,
                 unheard>>

\* The cleaner finds a task that is older than half an hour.
Expire(t) ==
  /\ Free("cleaner") /\ Mishap
  /\ known[t] \in {"pending", "pending_confirmation"}
  /\ Does("cleaner", t, "expired", <<"persist", "delete">>)
  /\ UNCHANGED <<offered, inbox, known, pipe, disk, cur, up, days, history>>

-----------------------------------------------------------------------------
(* The steps of these programs *)

AtStep(p, step) == up /\ todo[p] # <<>> /\ Head(todo[p]) = step
Held(p) == hand[p].task
HandKey(p) == KeyOf[Held(p)]
Done(p) == /\ todo' = [todo EXCEPT ![p] = Tail(@)]
           /\ hand' = IF Len(todo[p]) = 1
                      THEN [hand EXCEPT ![p] = Copy(NoTask, "expired")] ELSE hand

\* The map, and for Enqueue the channel of the key, which its maker serves: two
\* accesses in one step, as only a confirmation in between, which finds no
\* channel, would see the difference.
Store(p) ==
  LET sends == "send" \in Range(todo[p])
      first == sends /\ HandKey(p) \notin made
  IN /\ AtStep(p, "store")
     /\ known' = [known EXCEPT ![Held(p)] = hand[p].status]
     /\ made' = IF first THEN made \union {HandKey(p)} ELSE made
     /\ todo' = [todo EXCEPT ![p] = IF first THEN <<"sendFirst", "persist">> ELSE Tail(@)]
     /\ UNCHANGED <<offered, inbox, hand, channel, phase, pending, ready,
                    disk, cur, process, history>>

\* A full channel blocks.  The goroutine of the key starts after the first send.
Send(p) ==
  LET k == HandKey(p)
  IN /\ AtStep(p, "send") \/ AtStep(p, "sendFirst")
     /\ Len(channel[k]) < KeyCapacity
     /\ channel' = [channel EXCEPT ![k] = Append(@, hand[p])]
     /\ phase' = IF AtStep(p, "sendFirst") THEN [phase EXCEPT ![k] = "select"] ELSE phase
     /\ Done(p)
     /\ UNCHANGED <<offered, inbox, known, made, pending, ready, disk, cur,
                    process, history>>

\* ConfirmTask sends only if the key has a channel.
Resend(p) ==
  LET k == HandKey(p)
  IN /\ AtStep(p, "resend")
     /\ IF k \in made
        THEN /\ Len(channel[k]) < KeyCapacity
             /\ channel' = [channel EXCEPT ![k] = Append(@, hand[p])]
             /\ UNCHANGED unheard
        ELSE /\ unheard' = unheard \union {Held(p)}
             /\ UNCHANGED channel
     /\ Done(p)
     /\ UNCHANGED <<offered, inbox, known, made, phase, pending, ready, disk,
                    cur, process, taken, again>>

\* The file can not be looked at, read or written; a write that fails half way
\* leaves it in pieces.  The failure is only logged.
PersistFails(p) ==
  /\ torn' \in {torn, TRUE}
  /\ unsaved' = unsaved \union {Held(p)}
  /\ UNCHANGED file

\* Mutant of Persist: a record that is in the file is not replaced.
PersistNew(p) ==
  /\ AtStep(p, "persist")
  /\ \/ /\ ~torn
        /\ file' = IF file[Held(p)] # "none" THEN file
                   ELSE [file EXCEPT ![Held(p)] = hand[p].status]
        /\ unsaved' = unsaved \ {Held(p)}
        /\ UNCHANGED torn
     \/ torn /\ unsaved' = unsaved \union {Held(p)} /\ UNCHANGED <<file, torn>>
     \/ PersistFails(p)
  /\ Done(p)
  /\ UNCHANGED <<offered, inbox, known, pipe, unread, cur, process, history>>

\* persistTask rewrites the file of today under a mutex; a half-written one
\* can not be read any more, so that nothing is written either.
Persist(p) ==
  /\ AtStep(p, "persist")
  /\ \/ /\ ~torn
        /\ file' = [file EXCEPT ![Held(p)] = hand[p].status]
        /\ unsaved' = unsaved \ {Held(p)}
        /\ UNCHANGED torn
     \/ torn /\ unsaved' = unsaved \union {Held(p)} /\ UNCHANGED <<file, torn>>
     \/ PersistFails(p)
  /\ Done(p)
  /\ UNCHANGED <<offered, inbox, known, pipe, unread, cur, process, history>>

Delete(p) ==
  /\ AtStep(p, "delete")
  /\ known' = [known EXCEPT ![Held(p)] = "none"]
  /\ again' = again \union {Held(p)}
  /\ Done(p)
  /\ UNCHANGED <<offered, inbox, pipe, disk, cur, process, taken, unheard>>

Step(p) == Store(p) \/ Send(p) \/ Resend(p) \/ Persist(p) \/ Delete(p)

-----------------------------------------------------------------------------
(* processKey *)

Receive(k) ==
  /\ up /\ phase[k] = "select"
  /\ channel[k] # <<>>
  /\ pending' = [pending EXCEPT ![k] = Append(@, Head(channel[k]))]
  /\ channel' = [channel EXCEPT ![k] = Tail(@)]
  /\ UNCHANGED <<offered, inbox, clients, known, made, phase, ready, disk,
                 cur, process, history>>

Earlier(c, d) == Second[c.task] < Second[d.task]

\* sort.Slice: it is not stable, so that copies of one second come in any order.
Sorted(s) == \A i, j \in DOMAIN s : i < j => ~Earlier(s[j], s[i])
Reorder(s, f) == [i \in DOMAIN s |-> s[f[i]]]

\* The ticker: what has been received is passed on in the order of the requests.
Tick(k) ==
  /\ up /\ phase[k] = "select"
  /\ pending[k] # <<>>
  /\ \E f \in Bijection(DOMAIN pending[k], DOMAIN pending[k]) :
       /\ Sorted(Reorder(pending[k], f))
       /\ pending' = [pending EXCEPT ![k] = Reorder(@, f)]
  /\ phase' = [phase EXCEPT ![k] = "pass"]
  /\ UNCHANGED <<offered, inbox, clients, known, channel, made, ready, disk,
                 cur, process, history>>

\* Mutant of Pass: a copy that does not fit is dropped.
PassOrDrop(k) ==
  /\ up /\ phase[k] = "pass"
  /\ ready' = IF Head(pending[k]).status = "pending" /\ Len(ready) < TaskCapacity
              THEN Append(ready, Head(pending[k]).task) ELSE ready
  /\ pending' = [pending EXCEPT ![k] = Tail(@)]
  /\ phase' = [phase EXCEPT ![k] = IF Len(pending[k]) = 1 THEN "select" ELSE "pass"]
  /\ UNCHANGED <<offered, inbox, clients, known, channel, made, disk, cur,
                 process, history>>

\* Mutant of Pass: the goroutine goes back to its select one copy too late.
PassTooLong(k) ==
  LET c == Head(pending[k])
  IN /\ up /\ phase[k] = "pass"
     /\ IF c.status = "pending"
        THEN /\ Len(ready) < TaskCapacity
             /\ ready' = Append(ready, c.task)
        ELSE UNCHANGED ready
     /\ pending' = [pending EXCEPT ![k] = Tail(@)]
     /\ phase' = [phase EXCEPT ![k] = IF pending[k] = <<>> THEN "select" ELSE "pass"]
     /\ UNCHANGED <<offered, inbox, clients, known, channel, made, disk, cur,
                    process, history>>

\* A copy that waits for its confirmation is left out; a full channel blocks.
Pass(k) ==
  LET c == Head(pending[k])
  IN /\ up /\ phase[k] = "pass"
     /\ IF c.status = "pending"
        THEN /\ Len(ready) < TaskCapacity
             /\ ready' = Append(ready, c.task)
        ELSE UNCHANGED ready
     /\ pending' = [pending EXCEPT ![k] = Tail(@)]
     /\ phase' = [phase EXCEPT ![k] = IF Len(pending[k]) = 1 THEN "select" ELSE "pass"]
     /\ UNCHANGED <<offered, inbox, clients, known, channel, made, disk, cur,
                    process, history>>

-----------------------------------------------------------------------------
(* worker; what processTask does to the cluster is LegacyRollout *)

Take(w) ==
  /\ up /\ cur[w] = NoTask
  /\ ready # <<>>
  /\ ready' = Tail(ready)
  /\ cur' = [cur EXCEPT ![w] = Head(ready)]
  /\ taken' = taken \union {Head(ready)}
  /\ UNCHANGED <<offered, inbox, clients, known, channel, made, phase,
                 pending, disk, process, again, unheard>>

\* processTask returns: with feedbackCompleteToGateway, which asks until it is
\* answered, or, for an invalid environment or image, without.
Finish(w) ==
  /\ up /\ cur[w] # NoTask
  /\ cur' = [cur EXCEPT ![w] = NoTask]
  /\ offered' \in {offered, offered \ {cur[w]}}
  /\ UNCHANGED <<inbox, clients, known, pipe, disk, process, history>>

-----------------------------------------------------------------------------
(* The process, the calendar, the gateway *)

\* EmptyMemory, as the effect of a step.
MemoryLost ==
  /\ fetched' = {} /\ toLoad' = {}
  /\ hand' = [p \in Clients |-> Copy(NoTask, "expired")]
  /\ todo' = [p \in Clients |-> <<>>]
  /\ known' = [t \in Tasks |-> "none"]
  /\ channel' = [k \in Keys |-> <<>>]
  /\ made' = {}
  /\ phase' = [k \in Keys |-> "none"]
  /\ pending' = [k \in Keys |-> <<>>]
  /\ ready' = <<>>
  /\ cur' = [w \in Workers |-> NoTask]
  /\ taken' = {} /\ again' = {} /\ unheard' = {}

\* A file that is being written when the process dies may be left in pieces.
Crash ==
  /\ up /\ Mishap
  /\ up' = FALSE
  /\ \/ UNCHANGED torn
     \/ (\E p \in Clients : AtStep(p, "persist")) /\ torn' = TRUE
  /\ MemoryLost
  /\ unsaved' = {}
  /\ UNCHANGED <<offered, file, unread, days>>

\* Mutant of Restart: the loader finds no file.
RestartEmpty ==
  /\ ~up
  /\ up' = TRUE
  /\ UNCHANGED <<offered, inbox, clients, known, pipe, disk, cur, days,
                 mishaps, history>>

\* Start: the loader reads the file of today at once, before the first tick of
\* the poller, or fails to.
Restart ==
  /\ ~up
  /\ up' = TRUE
  /\ \/ /\ toLoad' = IF torn THEN {}
                     ELSE {c \in [task : Tasks, status : {"pending", "pending_confirmation"}] :
                             file[c.task] = c.status}
        /\ unread' = FALSE
     \/ toLoad' = {} /\ unread' = TRUE
  /\ UNCHANGED <<offered, fetched, clients, known, pipe, file, torn, unsaved, cur,
                 days, mishaps, history>>

\* The next day has a file of its own.
Midnight ==
  /\ Mishap
  /\ days' = days + 1
  /\ file' = [t \in Tasks |-> "none"] /\ torn' = FALSE
  /\ UNCHANGED <<offered, inbox, clients, known, pipe, unsaved, unread, cur, up,
                 history>>

\* A gateway that has started again has no tasks.
GatewayRestarts ==
  /\ offered # {} /\ Mishap
  /\ offered' = {}
  /\ UNCHANGED <<inbox, clients, known, pipe, disk, cur, up, days, history>>

-----------------------------------------------------------------------------
PollGateway == Fetch \/ (\E t \in Tasks : Poll(t)) \/ Step("poller")
LoadTasks   == (\E c \in toLoad : Load(c)) \/ Step("loader")
Clean       == (\E t \in Tasks : Expire(t)) \/ Step("cleaner")
Called      == Call \/ Step("caller")
ProcessKey(k) == Receive(k) \/ Tick(k) \/ Pass(k)
Work(w)     == Take(w) \/ Finish(w)

Next ==
  \/ PollGateway \/ LoadTasks \/ Clean \/ Called
  \/ \E k \in Keys : ProcessKey(k)
  \/ \E w \in Workers : Work(w)
  \/ Crash \/ Restart \/ Midnight \/ GatewayRestarts

Spec == Init /\ [][Next]_vars

\* The goroutines run, the gateway answers in the end, and the process is
\* started again.  The poller need not find anything, and nobody has to call.
Fairness ==
  /\ WF_vars(Step("poller")) /\ WF_vars(LoadTasks) /\ WF_vars(Step("caller"))
  /\ \A k \in Keys : WF_vars(Receive(k)) /\ WF_vars(Tick(k) \/ Pass(k))
  /\ \A w \in Workers : WF_vars(Work(w))
  /\ WF_vars(Restart)

FairSpec == Spec /\ Fairness

-----------------------------------------------------------------------------
(* Properties *)

Copies == [task : Tasks, status : Statuses]

\* Every variable has its type, no channel holds more than its capacity, and
\* a goroutine that passes on has something to pass.
TypeOK ==
  /\ offered \subseteq Tasks /\ fetched \subseteq Tasks
  /\ toLoad \subseteq Copies
  /\ \A p \in Clients : hand[p] \in Copies \/ todo[p] = <<>>
  /\ known \in [Tasks -> Statuses \union {"none"}]
  /\ made \subseteq Keys
  /\ phase \in [Keys -> {"none", "select", "pass"}]
  /\ \A k \in Keys : /\ channel[k] \in Seq(Copies) /\ pending[k] \in Seq(Copies)
                     /\ Len(channel[k]) <= KeyCapacity
                     /\ phase[k] = "pass" => pending[k] # <<>>
  /\ ready \in Seq(Tasks) /\ Len(ready) <= TaskCapacity
  /\ cur \in [Workers -> Tasks \union {NoTask}]
  /\ file \in [Tasks -> Statuses \union {"none"}] /\ torn \in BOOLEAN
  /\ unsaved \subseteq Tasks /\ unread \in BOOLEAN
  /\ mishaps \in 0..MaxMishaps

Occurs(t, s) == {i \in DOMAIN s : s[i].task = t}

\* How many copies of a task are under way to a worker.
UnderWay(t) ==
  LET sending(p) == {"send", "sendFirst", "resend"} \intersect Range(todo[p]) # {}
      k == KeyOf[t]
  IN Cardinality({p \in Clients : Held(p) = t /\ sending(p)})
     + Cardinality(Occurs(t, channel[k])) + Cardinality(Occurs(t, pending[k]))
     + Cardinality({i \in DOMAIN ready : ready[i] = t})

\* What is registered as pending is on its way to a worker or has reached one:
\* the map refuses the task as long as it knows it, so that a copy lost between
\* map, channel, slice and second channel could not be brought again.  Only a
\* task that is confirmed before its key has a channel is not passed on
\* (queue.go 40-83, 114-128).
PendingIsUnderWay ==
  \A t \in Tasks :
    known[t] = "pending" => UnderWay(t) > 0 \/ t \in taken \union unheard

\* One copy of a task is passed on in one life of the process, unless the task
\* has come back: read from the file, removed from the map and fetched again,
\* or confirmed (queue.go 41-50).
PassedOnOnce ==
  \A t \in Tasks \ again :
    UnderWay(t) + (IF t \in taken THEN 1 ELSE 0) <= 1

\* What is registered as pending, and in nobody's hands, is in the file of today,
\* so that a restart finds it, whatever writes the same task at the same time:
\* unless its own last record failed, which is only logged, or another failed
\* write, a crash or midnight has broken the file (queue.go 46-54, 135-179).
PendingIsOnDisk ==
  \A t \in Tasks :
    /\ known[t] = "pending" /\ Asked[t] = "pending"
    /\ \A p \in Clients : Held(p) # t
    => file[t] = "pending" \/ t \in unsaved \/ torn \/ days > 0

\* A task the file lists as pending is taken by a worker, whatever blocks at a
\* full channel, whenever the process restarts, whichever records fail and
\* although the gateway may have forgotten it: unless the loader could not read
\* the file, which nobody repeats before the next restart (queue.go 181-212,
\* main.go 266-275).
ListedIsTaken ==
  \A t \in Tasks :
    Asked[t] = "pending" /\ ~torn /\ file[t] = "pending" ~>
      t \in taken \/ unread \/ torn \/ file[t] # "pending"
=============================================================================
