------------------------------ MODULE Approval ------------------------------
(***************************************************************************)
(* The approval service: one goroutine queries the gateway and stores what *)
(* it gets, one polls for pending tasks and sends popups to Telegram, and  *)
(* each bot has one that fetches updates and one that handles them.  They  *)
(* share the collections tasks_<env> with each other and with the          *)
(* deployment agent; every step below makes one call to MongoDB or to      *)
(* Telegram.  The process may be killed; the collections, the chat and     *)
(* the updates Telegram keeps survive it.                                  *)
(***************************************************************************)
EXTENDS Integers, Sequences, FiniteSets, Functions

CONSTANTS
  Services, Versions, Envs,
  Items, Item,         \* what the gateway has to offer, and what each of it says
  UpstreamIds, NoId,   \* task ids the gateway gives, and an item without one
  DashFree,            \* ids without a "-"; a generated UUID always has four
  ConfirmEnvs,         \* query.confirm_envs: environments that need a human
  Mapped,              \* mongo.env_mapping: environments that are searched by id
  Bots, NoBot, BotOf,  \* getBotForService
  Users, Allowed,      \* Telegram users, and those isUserAllowed accepts
  MaxDeliveries,       \* bound: how often the gateway returns one item
  MaxPresses,          \* bound: how often users press a button
  MaxMishaps,          \* bound: crashes and failed calls together
  NoTask, NoPress

\* A generated id is named by what it was generated for.
Uuids == Items \X Envs \X (1..MaxDeliveries)
Ids   == UpstreamIds \union Uuids
Slots == Services \X Versions \X Envs

ASSUME ItemAssumption ==
  /\ Items # {}
  /\ Item \in [Items -> [id : UpstreamIds \union {NoId}, service : Services,
                         version : Versions, environment : Envs,
                         environments : Seq(Envs)]]
  /\ \A i \in Items : Cardinality(Range(Item[i].environments)) = Len(Item[i].environments)
\* The gateway's ids name one item.
ASSUME IdAssumption ==
  /\ DashFree \subseteq UpstreamIds
  /\ NoId \notin UpstreamIds /\ UpstreamIds \intersect Uuids = {}
  /\ \A i, j \in Items : Item[i].id = Item[j].id => i = j \/ Item[i].id = NoId
ASSUME ConfigAssumption ==
  /\ ConfirmEnvs \in Seq(Envs) /\ ConfirmEnvs # <<>>
  /\ Mapped \subseteq Envs /\ Allowed \subseteq Users
  /\ NoBot \notin Bots /\ BotOf \in [Services -> Bots \union {NoBot}]
ASSUME BoundAssumption ==
  MaxDeliveries \in Nat /\ MaxPresses \in Nat /\ MaxMishaps \in Nat

Statuses == {"pending", "confirmed", "rejected", "executed"}
Task     == [id : Ids, environments : Seq(Envs), status : Statuses,
             popup_sent : BOOLEAN, popup_bot : Bots \union {NoBot}]
Press    == [user : Users, id : Ids, no : Nat, action : {"confirm", "reject"}]

ASSUME NullAssumption == NoTask \notin Task /\ NoPress \notin Press

VARIABLES
  task,               \* collections tasks_<env>: the record of each slot
  delivered,          \* gateway: how often each item was returned
  batch,              \* allTasks, then what is left of dedup
  syncPc, item, at,                 \* periodicQueryAndSync; its place in the
                      \* item's environments, 0 for the main one
  pollPc, pollAt, pending, asking,  \* pollPendingTasks: what GetPendingTasks
                                    \* returned, and the popup to be marked
  sentTasks,          \* ids a popup was sent for since the start
  chat, popups,       \* Telegram: visible popups, and how many an id has had
  unread,             \* history: for how many of them Telegram's answer was lost
  updates, pressed,   \* Telegram: updates it keeps, and all there ever were
  fetched, channel,   \* offset within updates, and botChannels
  handling, handlerPc, answer,      \* HandleCallback, and its last answer
  running,            \* agent: slots it is carrying out, with Environments[0]
  cutShort,           \* history: rejected ids whose handler did not finish
  starts,             \* how often the process was started
  mishaps             \* crashes and failed calls

syncVars    == <<batch, syncPc, item, at>>
pollVars    == <<pollPc, pollAt, pending, asking, sentTasks>>
chatVars    == <<chat, popups, unread>>
handlerVars == <<channel, handling, handlerPc, answer>>
botVars     == <<updates, pressed, fetched, handlerVars>>
rest == <<running, cutShort, starts>>
vars == <<task, delivered, syncVars, pollVars, chatVars, botVars, rest, mishaps>>

-----------------------------------------------------------------------------
(* MongoClient *)

\* Records a search by id may find, one of them in no particular order.
Found(id) == {s \in Slots : /\ s[3] \in Mapped
                            /\ task[s] # NoTask
                            /\ task[s].id = id}

\* One call to MongoDB or Telegram fails.
CallFails == mishaps < MaxMishaps /\ mishaps' = mishaps + 1

\* UpdateTaskStatus when it succeeds.
SetStatus(id, status) ==
  /\ task' \in {[task EXCEPT ![s].status = status] : s \in Found(id)}
  /\ UNCHANGED mishaps

\* UpdateTaskStatus when no record has the id, or the call fails.
SetNothing(id) ==
  /\ UNCHANGED task
  /\ \/ Found(id) = {} /\ UNCHANGED mishaps
     \/ CallFails

GetPendingTasks(e) ==
  {[id |-> task[s].id, service |-> s[1], environments |-> task[s].environments] :
     s \in {t \in Slots : /\ t[3] = e /\ task[t] # NoTask
                          /\ task[t].status = "pending" /\ ~task[t].popup_sent}}

-----------------------------------------------------------------------------
\* Between two rounds item is out of scope.
AnyItem == CHOOSE i \in Items : TRUE

Init ==
  /\ task = [s \in Slots |-> NoTask]
  /\ delivered = [i \in Items |-> 0]
  /\ batch = {} /\ syncPc = "query"
  /\ item = AnyItem /\ at = 0
  /\ pollPc = "read" /\ pollAt = 1 /\ pending = {} /\ asking = {} /\ sentTasks = {}
  /\ chat = {} /\ popups = [id \in Ids |-> 0] /\ unread = [id \in Ids |-> 0]
  /\ updates = [b \in Bots |-> <<>>] /\ pressed = {}
  /\ fetched = [b \in Bots |-> 0] /\ channel = [b \in Bots |-> <<>>]
  /\ handling = [b \in Bots |-> NoPress]
  /\ handlerPc = [b \in Bots |-> "idle"]
  /\ answer = [b \in Bots |-> "none"]
  /\ running = {} /\ cutShort = {}
  /\ starts = 1 /\ mishaps = 0

-----------------------------------------------------------------------------
(* periodicQueryAndSync *)

\* One query of the round; the gateway hands an item out when it likes.
QueryTasks(i) ==
  /\ syncPc = "query"
  /\ i \notin batch /\ delivered[i] < MaxDeliveries
  /\ batch' = batch \union {i}
  /\ delivered' = [delivered EXCEPT ![i] = @ + 1]
  /\ UNCHANGED <<task, syncPc, item, at, pollVars, chatVars, botVars, rest, mishaps>>

\* dedupeTasks keeps one item per key; no item comes with a status of its own.
Key(i) == <<Item[i].service, Item[i].environment, Item[i].version>>
Deduped(b) == {d \in SUBSET b : \A i \in b : Cardinality({j \in d : Key(j) = Key(i)}) = 1}

DedupeTasks ==
  /\ syncPc = "query" /\ batch # {}
  /\ batch' \in Deduped(batch)
  /\ syncPc' = "next"
  /\ UNCHANGED <<task, delivered, item, at, pollVars, chatVars, botVars, rest, mishaps>>

\* The item under its main environment first, then once for each other one.
NextTask(i) ==
  /\ syncPc = "next" /\ i \in batch
  /\ batch' = batch \ {i}
  /\ item' = i /\ at' = 0
  /\ syncPc' = "store"
  /\ UNCHANGED <<task, delivered, pollVars, chatVars, botVars, rest, mishaps>>

EndRound ==
  /\ syncPc = "next" /\ batch = {}
  /\ syncPc' = "query" /\ item' = AnyItem
  /\ UNCHANGED <<task, delivered, batch, at, pollVars, chatVars, botVars, rest, mishaps>>

MainEnv == Item[item].environment
env == IF at = 0 THEN MainEnv ELSE Item[item].environments[at]

\* Mutant of NextSub: an item is stored under its main environment only.
NextSubNone == syncPc' = "next" /\ at' = 0

\* The loop over the environments passes over the main one.
NextSub ==
  LET left == {j \in DOMAIN Item[item].environments :
                 j > at /\ Item[item].environments[j] # MainEnv}
  IN \/ left = {} /\ syncPc' = "next" /\ at' = 0
     \/ \E j \in left : (\A k \in left : j <= k) /\ at' = j /\ syncPc' = "store"

\* Mutant of TaskId: a task that is split off keeps the id.
TaskIdShared == IF Item[item].id # NoId THEN Item[item].id
                ELSE <<item, MainEnv, delivered[item]>>

\* The gateway's id, or one generated for an item without and for what is
\* split off it.
TaskId == IF env = MainEnv /\ Item[item].id # NoId THEN Item[item].id
          ELSE <<item, env, delivered[item]>>

Slot == <<Item[item].service, Item[item].version, env>>

NewTask == [id |-> TaskId, environments |-> Item[item].environments,
            status |-> "pending", popup_sent |-> FALSE, popup_bot |-> NoBot]

\* The upsert of StoreTask leaves a record of the slot as it is.
Upsert == [task EXCEPT ![Slot] = IF @ = NoTask THEN NewTask ELSE @]

StoreTask ==
  /\ syncPc = "store"
  /\ \/ task' = Upsert /\ UNCHANGED mishaps
     \/ UNCHANGED task /\ CallFails
  /\ syncPc' = "status"
  /\ UNCHANGED <<delivered, batch, item, at, pollVars, chatVars, botVars, rest>>

IsConfirmEnv(e) == e \in Range(ConfirmEnvs)

\* Mutant of Expected: the main environment decides for all of them.
ExpectedOfMain == IF IsConfirmEnv(MainEnv) THEN "pending" ELSE "confirmed"

Expected == IF IsConfirmEnv(env) THEN "pending" ELSE "confirmed"

\* handleStoredTask, first call; an error is logged.
UpdateStored ==
  /\ syncPc = "status"
  /\ SetStatus(TaskId, Expected) \/ SetNothing(TaskId)
  /\ syncPc' = "verify"
  /\ UNCHANGED <<delivered, batch, item, at, pollVars, chatVars, botVars, rest>>

AsExpected(t) == t.status = Expected /\ t.popup_sent = ~IsConfirmEnv(env)

\* Second call: read it back.
VerifyStored ==
  /\ syncPc = "verify"
  /\ \/ /\ \/ Found(TaskId) = {} /\ UNCHANGED mishaps
           \/ CallFails
        /\ NextSub
     \/ /\ \E s \in Found(TaskId) : AsExpected(task[s])
        /\ NextSub
        /\ UNCHANGED mishaps
     \/ /\ \E s \in Found(TaskId) : ~AsExpected(task[s])
        /\ syncPc' = "force"
        /\ UNCHANGED <<at, mishaps>>
  /\ UNCHANGED <<task, delivered, batch, item, pollVars, chatVars, botVars, rest>>

\* Third and fourth call: what it reads is not looked at again.
ForceStatus ==
  /\ syncPc = "force"
  /\ SetStatus(TaskId, Expected) \/ SetNothing(TaskId)
  /\ syncPc' = "popup"
  /\ UNCHANGED <<delivered, batch, item, at, pollVars, chatVars, botVars, rest>>

ForcePopupSent ==
  LET here == {s \in Slots : s[3] = env /\ task[s] # NoTask /\ task[s].id = TaskId}
  IN /\ syncPc = "popup"
     /\ \/ /\ task' \in {[task EXCEPT ![s].popup_sent = ~IsConfirmEnv(env)] : s \in here}
           /\ UNCHANGED mishaps
        \/ /\ UNCHANGED task
           /\ (here = {} /\ UNCHANGED mishaps) \/ CallFails
     /\ syncPc' = "reread"
     /\ UNCHANGED <<delivered, batch, item, at, pollVars, chatVars, botVars, rest>>

\* Rejections that have been written and whose record is still to be deleted.
Rejecting(b) == handlerPc[b] \in {"message", "delete"} /\ handling[b].action = "reject"

\* The process ends and is started again.
Restart ==
  /\ batch' = {} /\ syncPc' = "query"
  /\ item' = AnyItem /\ at' = 0
  /\ pollPc' = "read" /\ pollAt' = 1 /\ pending' = {} /\ asking' = {} /\ sentTasks' = {}
  /\ fetched' = [b \in Bots |-> 0] /\ channel' = [b \in Bots |-> <<>>]
  /\ handling' = [b \in Bots |-> NoPress]
  /\ handlerPc' = [b \in Bots |-> "idle"]
  /\ cutShort' = cutShort \union {handling[b].id : b \in {c \in Bots : Rejecting(c)}}
  /\ starts' = starts + 1
  /\ UNCHANGED <<task, delivered, chatVars, updates, pressed, answer, running>>

\* Fifth call: the record is read again to be logged.  The error is dropped,
\* and without a record the goroutine panics.
Reread ==
  /\ syncPc = "reread"
  /\ \/ /\ Found(TaskId) # {}
        /\ NextSub
        /\ UNCHANGED <<task, delivered, batch, item, pollVars, chatVars, botVars, rest, mishaps>>
     \/ /\ (Found(TaskId) = {} /\ UNCHANGED mishaps) \/ CallFails
        /\ Restart

-----------------------------------------------------------------------------
(* pollPendingTasks *)

ReadPending ==
  /\ pollPc = "read"
  /\ \/ /\ pending' = GetPendingTasks(ConfirmEnvs[pollAt])
        /\ UNCHANGED mishaps
     \/ /\ pending' = {}
        /\ CallFails
  /\ pollPc' = "send"
  /\ UNCHANGED <<task, delivered, syncVars, pollAt, asking, sentTasks, chatVars, botVars, rest>>

\* Mutant of NextEnv: counted from zero.
NextEnvFromZero ==
  /\ pollPc = "send" /\ pending = {}
  /\ pollAt' = (pollAt + 1) % Len(ConfirmEnvs)
  /\ pollPc' = "read"
  /\ UNCHANGED <<task, delivered, syncVars, pending, asking, sentTasks, chatVars, botVars,
                 rest, mishaps>>

NextEnv ==
  /\ pollPc = "send" /\ pending = {}
  /\ pollAt' = (pollAt % Len(ConfirmEnvs)) + 1
  /\ pollPc' = "read"
  /\ UNCHANGED <<task, delivered, syncVars, pending, asking, sentTasks, chatVars, botVars,
                 rest, mishaps>>

\* Mutant of Skipped: the memory of what was sent is not consulted.
SkippedOnlyUnmatched(p) == p.environments = <<>> \/ BotOf[p.service] = NoBot

Skipped(p) ==
  p.environments = <<>> \/ BotOf[p.service] = NoBot \/ p.id \in sentTasks

\* Mutant of NotSent: the task is remembered as sent.
NotSentButRemembered(p) == CallFails /\ sentTasks' = sentTasks \union {p.id}

\* An error is logged and the task is left for the next round.
NotSent(p) == CallFails /\ UNCHANGED sentTasks

Shown(p) ==
  /\ popups' = [popups EXCEPT ![p.id] = @ + 1]
  /\ chat' = chat \union {[id |-> p.id, no |-> popups[p.id] + 1]}

\* sendMessageWithKeyboard; the task is the one read before, whatever has
\* become of its record.  A call that fails may have shown the popup: only
\* Telegram's answer is lost.
SendPopup(p) ==
  /\ pollPc = "send" /\ p \in pending
  /\ pending' = pending \ {p}
  /\ \/ /\ ~Skipped(p)
        /\ Shown(p)
        /\ asking' = {p}
        /\ pollPc' = "mark"
        /\ UNCHANGED <<unread, sentTasks, mishaps>>
     \/ /\ Skipped(p)
        /\ UNCHANGED <<chatVars, asking, pollPc, sentTasks, mishaps>>
     \/ /\ ~Skipped(p)
        /\ NotSent(p)
        /\ \/ UNCHANGED chatVars
           \/ Shown(p) /\ unread' = [unread EXCEPT ![p.id] = @ + 1]
        /\ UNCHANGED <<asking, pollPc>>
  /\ UNCHANGED <<task, delivered, syncVars, pollAt, botVars, rest>>

\* An error of MarkPopupSent is logged; the popup counts as sent all the same.
MarkPopupSent(p) ==
  /\ pollPc = "mark" /\ asking = {p}
  /\ \/ /\ task' \in {[task EXCEPT ![s].popup_sent = TRUE,
                                   ![s].popup_bot = BotOf[p.service]] : s \in Found(p.id)}
        /\ UNCHANGED mishaps
     \/ SetNothing(p.id)
  /\ sentTasks' = sentTasks \union {p.id}
  /\ asking' = {}
  /\ pollPc' = "send"
  /\ UNCHANGED <<delivered, syncVars, pollAt, pending, chatVars, botVars, rest>>

-----------------------------------------------------------------------------
(* Telegram, and the goroutines of a bot *)

ServiceOfId(id) ==
  IF id \in Uuids THEN Item[id[1]].service
  ELSE Item[CHOOSE i \in Items : Item[i].id = id].service

\* A user presses a button of a popup that is still there.
PressButton(u, m, a) ==
  LET p == [user |-> u, id |-> m.id, no |-> m.no, action |-> a]
      b == BotOf[ServiceOfId(m.id)]
  IN /\ m \in chat /\ p \notin pressed
     /\ Cardinality(pressed) < MaxPresses
     /\ pressed' = pressed \union {p}
     /\ updates' = [updates EXCEPT ![b] = Append(@, p)]
     /\ UNCHANGED <<task, delivered, syncVars, pollVars, chatVars, fetched, handlerVars,
                    rest, mishaps>>

\* getUpdates: the offset it sends lets Telegram forget what was fetched
\* before.  The channel has room for 100 updates.
PollUpdates(b) ==
  LET new == SubSeq(updates[b], fetched[b] + 1, Len(updates[b]))
  IN /\ updates[b] # <<>>
     /\ updates' = [updates EXCEPT ![b] = new]
     /\ fetched' = [fetched EXCEPT ![b] = Len(new)]
     /\ channel' = [channel EXCEPT ![b] = @ \o new]
     /\ UNCHANGED <<task, delivered, syncVars, pollVars, chatVars, pressed, handling,
                    handlerPc, answer, rest, mishaps>>

Goto(b, p) == handlerPc' = [handlerPc EXCEPT ![b] = p]
Proceed(b, p, h) == Goto(b, p) /\ handling' = [handling EXCEPT ![b] = h] /\ UNCHANGED answer
Answer(b, a) ==
  /\ Goto(b, "idle")
  /\ handling' = [handling EXCEPT ![b] = NoPress]
  /\ answer' = [answer EXCEPT ![b] = a]

\* Mutant of Permitted: the user is not looked at.
PermittedToAll(b, p, t) == t.popup_bot = b

\* The record was asked about by this bot, and the user may answer.
Permitted(b, p, t) == t.popup_bot = b /\ p.user \in Allowed

\* HandleCallback up to the update: parse, GetTaskByID and the checks.
HandleCallback(b) ==
  LET p == Head(channel[b])
  IN /\ handlerPc[b] = "idle" /\ channel[b] # <<>>
     /\ channel' = [channel EXCEPT ![b] = Tail(@)]
     /\ \/ /\ p.id \notin DashFree
           /\ Answer(b, "invalid")
           /\ UNCHANGED mishaps
        \/ /\ p.id \in DashFree
           /\ Answer(b, "noTask")
           /\ (Found(p.id) = {} /\ UNCHANGED mishaps) \/ CallFails
        \/ /\ p.id \in DashFree
           /\ \E s \in Found(p.id) :
                IF Permitted(b, p, task[s]) THEN Proceed(b, "update", p)
                ELSE Answer(b, "refused")
           /\ UNCHANGED mishaps
     /\ UNCHANGED <<task, delivered, syncVars, pollVars, chatVars, updates, pressed,
                    fetched, rest>>

Verdict(p) == IF p.action = "confirm" THEN "confirmed" ELSE "rejected"

\* The update may be made although its answer is lost.
UpdateByUser(b) ==
  LET p == handling[b]
  IN /\ handlerPc[b] = "update"
     /\ \/ SetStatus(p.id, Verdict(p)) /\ Proceed(b, "message", p) /\ UNCHANGED cutShort
        \/ SetNothing(p.id) /\ Answer(b, "failed") /\ UNCHANGED cutShort
        \/ /\ CallFails /\ Answer(b, "failed")
           /\ task' \in {[task EXCEPT ![s].status = Verdict(p)] : s \in Found(p.id)}
           /\ cutShort' = IF p.action = "reject" THEN cutShort \union {p.id} ELSE cutShort
     /\ UNCHANGED <<delivered, syncVars, pollVars, chatVars, updates, pressed, fetched,
                    channel, running, starts>>

\* Mutant of AfterMessage: the record of a rejected task stays.
AfterMessageDone(b) == Answer(b, "done")

AfterMessage(b) ==
  IF handling[b].action = "reject" THEN Proceed(b, "delete", handling[b])
  ELSE Answer(b, "done")

\* DeleteMessage and the feedback; their errors are logged.
DeleteMessage(b) ==
  /\ handlerPc[b] = "message"
  /\ \/ /\ chat' = chat \ {[id |-> handling[b].id, no |-> handling[b].no]}
        /\ UNCHANGED mishaps
     \/ /\ UNCHANGED chat
        /\ CallFails
  /\ AfterMessage(b)
  /\ UNCHANGED <<task, delivered, syncVars, pollVars, popups, unread, updates, pressed, fetched,
                 channel, rest>>

DeleteTask(b) ==
  LET id == handling[b].id
  IN /\ handlerPc[b] = "delete"
     /\ \/ /\ task' \in {[task EXCEPT ![s] = NoTask] : s \in Found(id)}
           /\ UNCHANGED <<cutShort, mishaps>>
        \/ /\ Found(id) = {}
           /\ UNCHANGED <<task, cutShort, mishaps>>
        \/ /\ CallFails
           /\ cutShort' = cutShort \union {id}
           /\ UNCHANGED task
     /\ Answer(b, "done")
     /\ UNCHANGED <<delivered, syncVars, pollVars, chatVars, updates, pressed, fetched,
                    channel, running, starts>>

-----------------------------------------------------------------------------
(* The deployment agent, which works on the same records *)

\* The poller's read and the worker's mark in one step.
Execute(s) ==
  /\ task[s] # NoTask /\ task[s].status = "confirmed"
  /\ task' = [task EXCEPT ![s].status = "executed"]
  /\ running' = running \union
       {<<s, IF task[s].environments = <<>> THEN s[3] ELSE task[s].environments[1]>>}
  /\ UNCHANGED <<delivered, syncVars, pollVars, chatVars, botVars, cutShort, starts, mishaps>>

\* What is deleted is the record of the first environment of the task.
Remove(r) ==
  /\ r \in running
  /\ task' = [task EXCEPT ![<<r[1][1], r[1][2], r[2]>>] = NoTask]
  /\ running' = running \ {r}
  /\ UNCHANGED <<delivered, syncVars, pollVars, chatVars, botVars, cutShort, starts, mishaps>>

-----------------------------------------------------------------------------
Crash == CallFails /\ Restart

Store == StoreTask \/ UpdateStored \/ VerifyStored \/ ForceStatus \/ ForcePopupSent \/ Reread
Sync  == DedupeTasks \/ (\E i \in Items : NextTask(i)) \/ EndRound \/ Store
Poll  == ReadPending \/ NextEnv
         \/ (\E p \in pending : SendPopup(p)) \/ (\E p \in asking : MarkPopupSent(p))
Bot(b) == PollUpdates(b) \/ HandleCallback(b) \/ UpdateByUser(b)
          \/ DeleteMessage(b) \/ DeleteTask(b)
User  == \E u \in Users, m \in chat, a \in {"confirm", "reject"} : PressButton(u, m, a)
Agent == (\E s \in Slots : Execute(s)) \/ (\E r \in running : Remove(r))

Next == (\E i \in Items : QueryTasks(i)) \/ Sync \/ Poll \/ (\E b \in Bots : Bot(b))
        \/ User \/ Agent \/ Crash

Spec == Init /\ [][Next]_vars

\* The two loops go round for ever.  Nothing is assumed of the gateway, of the
\* users or of the agent.
FairSpec == Spec /\ WF_vars(Sync) /\ WF_vars(Poll)

-----------------------------------------------------------------------------
(* Properties *)

TypeOK ==
  /\ task \in [Slots -> Task \union {NoTask}]
  /\ delivered \in [Items -> 0..MaxDeliveries]
  /\ batch \subseteq Items
  /\ \A i \in batch : delivered[i] > 0
  /\ syncPc \in {"query", "next", "store", "status", "verify", "force", "popup", "reread"}
  /\ item \in Items /\ at \in 0..Len(Item[item].environments)
  /\ IF syncPc \in {"query", "next"} THEN at = 0 ELSE delivered[item] > 0
  /\ pollPc \in {"read", "send", "mark"} /\ pollAt \in DOMAIN ConfirmEnvs
  /\ pending \union asking \subseteq
       [id : Ids, service : Services, environments : Seq(Envs)]
  /\ sentTasks \subseteq Ids
  /\ popups \in [Ids -> Nat] /\ unread \in [Ids -> Nat]
  /\ chat \subseteq [id : Ids, no : Nat]
  /\ pressed \subseteq Press
  /\ updates \in [Bots -> Seq(pressed)]
  /\ channel \in [Bots -> Seq(pressed)]
  /\ fetched \in [Bots -> Nat]
  /\ \A b \in Bots : fetched[b] <= Len(updates[b])
  /\ handling \in [Bots -> Press \union {NoPress}]
  /\ handlerPc \in [Bots -> {"idle", "update", "message", "delete"}]
  /\ \A b \in Bots : handlerPc[b] = "idle" <=> handling[b] = NoPress
  /\ answer \in [Bots -> {"none", "invalid", "noTask", "refused", "failed", "done"}]
  /\ running \subseteq Slots \X Envs /\ cutShort \subseteq Ids
  /\ starts \in Nat \ {0} /\ mishaps \in 0..MaxMishaps

\* A call failed or the process ended.
Disturbed == mishaps > 0 \/ starts > 1

\* Nothing is deployed to an environment that needs a human unless a permitted
\* user has pressed the confirm button of a popup for that very task; what the
\* sync loop writes in between, redelivered updates and restarts never stand in
\* for it (agent.go 160-224, bot.go 343-420).
ConfirmedByHuman ==
  \A s \in Slots :
    /\ IsConfirmEnv(s[3]) /\ task[s] # NoTask
    /\ task[s].status \in {"confirmed", "executed"}
    => \E p \in pressed : /\ p.id = task[s].id /\ p.action = "confirm"
                          /\ p.user \in Allowed

\* A task is asked about once for each start of the process, although the sync
\* loop may set popup_sent back after the popup was sent; once more only for
\* each popup of its own that Telegram has shown without the service learning of
\* it, which the next round sends again (bot.go 258-317; agent.go 207-223).
OnePopup == \A id \in Ids : popups[id] <= starts + unread[id]

\* No rejected record is left behind: its handler is still about to delete it,
\* or it was this record's own handler that a crash or a failed call has stopped
\* between the rejection and the deletion (bot.go 411-474).
RejectedIsDeleted ==
  \A s \in Slots :
    task[s] # NoTask /\ task[s].status = "rejected" =>
      \/ \E b \in Bots : Rejecting(b) /\ handling[b].id = task[s].id
      \/ task[s].id \in cutShort

Pending(s, id) == task[s] # NoTask /\ task[s].id = id /\ task[s].status = "pending"

\* A task that waits for a human is asked about, whatever fails once and
\* whenever the process is restarted, by a popup that the service knows of; only
\* a task without environments or without a bot is passed over (bot.go 188-247,
\* 289-317).
PendingIsAsked ==
  \A s \in {t \in Slots : IsConfirmEnv(t[3]) /\ BotOf[t[1]] # NoBot} : \A id \in Ids :
    Pending(s, id) /\ task[s].environments # <<>> ~>
      popups[id] > unread[id] \/ ~Pending(s, id)

\* A task for any other environment goes through without a human, also when its
\* slot is taken or it is split off another task, and although one call of the
\* sync loop fails: its second write is there for that.  Only the end of the
\* process leaves it behind (agent.go 75-119, 160-223).
AutoConfirmed ==
  \A s \in {t \in Slots : ~IsConfirmEnv(t[3]) /\ t[3] \in Mapped} : \A id \in Ids :
    Pending(s, id) ~> ~Pending(s, id) \/ starts > 1 \/ mishaps > 1

\* Nothing the gateway has handed out is lost while no call fails and the
\* process runs: every environment of it gets a record, also when the item shares
\* its round with others.  Of several items with one key a single one is kept,
\* whose environments need not be those of the others (agent.go 77-119, 124-158).
HandedOutIsStored ==
  \A i \in {j \in Items : \A k \in Items : Key(j) = Key(k) => j = k} :
    \A e \in {Item[i].environment} \union Range(Item[i].environments) :
      i \in batch ~>
        task[<<Item[i].service, Item[i].version, e>>] # NoTask \/ Disturbed
=============================================================================
