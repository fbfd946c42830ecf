--------------------------- MODULE ApprovalProofs ---------------------------
(***************************************************************************)
(* What holds of the approval service for every configuration, any number *)
(* of tasks, users and bots, and however often calls fail or the process   *)
(* ends.                                                                   *)
(***************************************************************************)
EXTENDS Approval, SequenceTheorems, TLAPS

Records == [Slots -> Task \union {NoTask}]

-----------------------------------------------------------------------------
(* Facts about the configuration and about the operators of the model *)

\* What the gateway hands out is of the declared types.
LEMMA ItemType ==
  ASSUME NEW i \in Items
  PROVE  /\ Item[i].id \in UpstreamIds \union {NoId}
         /\ Item[i].service \in Services /\ Item[i].version \in Versions
         /\ Item[i].environment \in Envs
         /\ Item[i].environments \in Seq(Envs)
  BY ItemAssumption

LEMMA AnyItemType == AnyItem \in Items
  BY ItemAssumption DEF AnyItem

\* The environment the sync loop is at, and the id and the slot of the task it
\* makes of it.
LEMMA SyncTypes ==
  ASSUME item \in Items, at \in 0..Len(Item[item].environments),
         delivered \in [Items -> 0..MaxDeliveries]
  PROVE  /\ env \in Envs /\ Slot \in Slots
         /\ delivered[item] > 0 => TaskId \in Ids /\ NewTask \in Task
<1>1. env \in Envs
  BY ItemType, ElementOfSeq DEF env, MainEnv
<1>2. Slot \in Slots
  BY <1>1, ItemType DEF Slot, Slots
<1>3. ASSUME delivered[item] > 0 PROVE TaskId \in Ids
  <2>1. delivered[item] \in 1..MaxDeliveries
    BY <1>3, BoundAssumption
  <2> QED BY <1>1, <2>1, ItemType DEF TaskId, Ids, Uuids
<1>4. ASSUME delivered[item] > 0 PROVE NewTask \in Task
  BY <1>3, <1>4, ItemType DEF NewTask, Task, Statuses
<1> QED BY <1>1, <1>2, <1>3, <1>4

LEMMA ExpectedType == Expected \in {"pending", "confirmed"}
  BY DEF Expected

\* The next place of the loop is one of the item's environments.
LEMMA NextSubType ==
  ASSUME item \in Items, at \in 0..Len(Item[item].environments), NextSub
  PROVE  /\ (syncPc' = "next" /\ at' = 0) \/ syncPc' = "store"
         /\ at' \in 0..Len(Item[item].environments)
  BY ItemType DEF NextSub

\* An update of one record's status leaves records.
LEMMA SetStatusType ==
  ASSUME task \in Records, NEW id, NEW st \in Statuses, SetStatus(id, st)
  PROVE  task' \in Records
<1>1. PICK s \in Found(id) : task' = [task EXCEPT ![s].status = st]
  BY DEF SetStatus
<1>2. s \in Slots /\ task[s] \in Task
  BY <1>1 DEF Found, Records
<1>3. [task[s] EXCEPT !.status = st] \in Task
  BY <1>2 DEF Task
<1> QED BY <1>1, <1>2, <1>3 DEF Records

-----------------------------------------------------------------------------
(* Types *)

LEMMA InitType == Init => TypeOK
  BY BoundAssumption, ConfigAssumption, AnyItemType, ItemType, EmptySeq
     DEF Init, TypeOK

\* The conjuncts of TypeOK, by who changes them.
SyncType ==
  /\ delivered \in [Items -> 0..MaxDeliveries]
  /\ batch \subseteq Items
  /\ \A i \in batch : delivered[i] > 0
  /\ syncPc \in {"query", "next", "store", "status", "verify", "force", "popup", "reread"}
  /\ item \in Items /\ at \in 0..Len(Item[item].environments)
  /\ IF syncPc \in {"query", "next"} THEN at = 0 ELSE delivered[item] > 0

PollType ==
  /\ pollPc \in {"read", "send", "mark"} /\ pollAt \in DOMAIN ConfirmEnvs
  /\ pending \union asking \subseteq
       [id : Ids, service : Services, environments : Seq(Envs)]
  /\ sentTasks \subseteq Ids

ChatType ==
  /\ popups \in [Ids -> Nat] /\ unread \in [Ids -> Nat]
  /\ chat \subseteq [id : Ids, no : Nat]

BotType ==
  /\ pressed \subseteq Press
  /\ updates \in [Bots -> Seq(pressed)]
  /\ channel \in [Bots -> Seq(pressed)]
  /\ fetched \in [Bots -> Nat]
  /\ \A b \in Bots : fetched[b] <= Len(updates[b])
  /\ handling \in [Bots -> Press \union {NoPress}]
  /\ handlerPc \in [Bots -> {"idle", "update", "message", "delete"}]
  /\ \A b \in Bots : handlerPc[b] = "idle" <=> handling[b] = NoPress
  /\ answer \in [Bots -> {"none", "invalid", "noTask", "refused", "failed", "done"}]

RestType ==
  /\ task \in Records
  /\ running \subseteq Slots \X Envs /\ cutShort \subseteq Ids
  /\ starts \in Nat \ {0} /\ mishaps \in 0..MaxMishaps

LEMMA TypeParts ==
  /\ TypeOK => SyncType /\ PollType /\ ChatType /\ BotType /\ RestType
  /\ (SyncType /\ PollType /\ ChatType /\ BotType /\ RestType)' => TypeOK'
  BY DEF TypeOK, SyncType, PollType, ChatType, BotType, RestType, Records

\* What is not touched keeps its type.
LEMMA SyncKept == SyncType /\ UNCHANGED <<delivered, syncVars>> => SyncType'
  BY DEF SyncType, syncVars
LEMMA PollKept == PollType /\ UNCHANGED pollVars => PollType'
  BY DEF PollType, pollVars
LEMMA ChatKept == ChatType /\ UNCHANGED chatVars => ChatType'
  BY DEF ChatType, chatVars
LEMMA BotKept == BotType /\ UNCHANGED botVars => BotType'
  BY DEF BotType, botVars, handlerVars

LEMMA CallFailsType == mishaps \in 0..MaxMishaps /\ CallFails => mishaps' \in 0..MaxMishaps
  BY BoundAssumption DEF CallFails

\* A restart, whatever else happens with it.
LEMMA RestartType ==
  ASSUME TypeOK, Restart, mishaps' \in 0..MaxMishaps
  PROVE  TypeOK'
<1>1. SyncType'
  BY TypeParts, AnyItemType, ItemType DEF Restart, SyncType
<1>2. PollType'
  BY TypeParts, ConfigAssumption DEF Restart, PollType
<1>3. ChatType'
  BY TypeParts, ChatKept DEF Restart
<1>4. BotType'
  BY TypeParts, EmptySeq DEF Restart, BotType
<1>5. RestType'
  <2>1. \A b \in Bots : Rejecting(b) => handling[b].id \in Ids
    BY TypeParts DEF Rejecting, BotType, Press
  <2> QED BY <2>1, TypeParts DEF Restart, RestType
<1> QED BY <1>1, <1>2, <1>3, <1>4, <1>5, TypeParts

LEMMA SetNothingType ==
  ASSUME RestType, NEW id, SetNothing(id)
  PROVE  task' \in Records /\ mishaps' \in 0..MaxMishaps
  BY CallFailsType DEF SetNothing, RestType

\* The steps of the sync loop.
LEMMA SyncStepType ==
  ASSUME TypeOK, (\E i \in Items : QueryTasks(i)) \/ Sync
  PROVE  TypeOK'
<1> USE TypeParts
<1>1. ASSUME NEW i \in Items, QueryTasks(i) PROVE TypeOK'
  <2>1. SyncType'
    BY <1>1, BoundAssumption DEF QueryTasks, SyncType
  <2> QED BY <1>1, <2>1, PollKept, ChatKept, BotKept DEF QueryTasks, RestType, rest
<1>2. CASE DedupeTasks
  <2>1. SyncType'
    BY <1>2 DEF DedupeTasks, Deduped, SyncType
  <2> QED BY <1>2, <2>1, PollKept, ChatKept, BotKept DEF DedupeTasks, RestType, rest
<1>3. ASSUME NEW i \in Items, NextTask(i) PROVE TypeOK'
  <2>1. SyncType'
    BY <1>3, ItemType DEF NextTask, SyncType
  <2> QED BY <1>3, <2>1, PollKept, ChatKept, BotKept DEF NextTask, RestType, rest
<1>4. CASE EndRound
  <2>1. SyncType'
    BY <1>4, AnyItemType, ItemType DEF EndRound, SyncType
  <2> QED BY <1>4, <2>1, PollKept, ChatKept, BotKept DEF EndRound, RestType, rest
<1>5. CASE StoreTask
  <2>1. SyncType'
    BY <1>5 DEF StoreTask, SyncType
  <2>2. Upsert \in Records
    BY <1>5, SyncTypes DEF StoreTask, Upsert, SyncType, RestType, Records
  <2> QED BY <1>5, <2>1, <2>2, PollKept, ChatKept, BotKept, CallFailsType
          DEF StoreTask, RestType, rest
<1>6. CASE UpdateStored \/ ForceStatus
  <2>1. SyncType'
    BY <1>6 DEF UpdateStored, ForceStatus, SyncType
  <2>2. task' \in Records /\ mishaps' \in 0..MaxMishaps
    BY <1>6, SetStatusType, SetNothingType, ExpectedType
       DEF UpdateStored, ForceStatus, RestType, Statuses, SetStatus
  <2> QED BY <1>6, <2>1, <2>2, PollKept, ChatKept, BotKept
          DEF UpdateStored, ForceStatus, RestType, rest
<1>7. CASE VerifyStored
  <2>1. SyncType'
    BY <1>7, NextSubType DEF VerifyStored, SyncType
  <2> QED BY <1>7, <2>1, PollKept, ChatKept, BotKept, CallFailsType
          DEF VerifyStored, RestType, rest
<1>8. CASE ForcePopupSent
  <2>1. SyncType'
    BY <1>8 DEF ForcePopupSent, SyncType
  <2>2. ASSUME NEW s \in Slots, task[s] # NoTask, NEW sent \in BOOLEAN
        PROVE  [task EXCEPT ![s].popup_sent = sent] \in Records
    <3>1. task[s] \in Task
      BY <2>2 DEF RestType, Records
    <3>2. [task[s] EXCEPT !.popup_sent = sent] \in Task
      BY <2>2, <3>1 DEF Task
    <3> QED BY <3>2 DEF RestType, Records
  <2>3. task' \in Records
    BY <1>8, <2>2 DEF ForcePopupSent, RestType
  <2> QED BY <1>8, <2>1, <2>3, PollKept, ChatKept, BotKept, CallFailsType
          DEF ForcePopupSent, RestType, rest
<1>9. CASE Reread
  <2>1. CASE UNCHANGED mishaps /\ NextSub /\ UNCHANGED <<task, delivered, batch, item,
             pollVars, chatVars, botVars, rest>> /\ syncPc = "reread"
    <3>1. SyncType'
      BY <2>1, NextSubType DEF SyncType
    <3> QED BY <2>1, <3>1, PollKept, ChatKept, BotKept DEF RestType, rest
  <2>2. CASE Restart /\ (UNCHANGED mishaps \/ CallFails)
    BY <2>2, RestartType, CallFailsType DEF RestType
  <2> QED BY <1>9, <2>1, <2>2 DEF Reread
<1> QED BY <1>1, <1>2, <1>3, <1>4, <1>5, <1>6, <1>7, <1>8, <1>9 DEF Sync, Store

\* The steps of the popup loop.
LEMMA PollStepType ==
  ASSUME TypeOK, Poll
  PROVE  TypeOK'
<1> USE TypeParts
<1>1. CASE ReadPending
  <2>1. ConfirmEnvs[pollAt] \in Envs
    BY ConfigAssumption, ElementOfSeq DEF PollType
  <2>2. GetPendingTasks(ConfirmEnvs[pollAt]) \subseteq
          [id : Ids, service : Services, environments : Seq(Envs)]
    BY DEF GetPendingTasks, RestType, Records, Slots, Task
  <2>3. PollType'
    BY <1>1, <2>2 DEF ReadPending, PollType
  <2> QED BY <1>1, <2>3, SyncKept, ChatKept, BotKept, CallFailsType
          DEF ReadPending, RestType, rest
<1>2. CASE NextEnv
  <2>1. (pollAt % Len(ConfirmEnvs)) + 1 \in DOMAIN ConfirmEnvs
    <3>1. Len(ConfirmEnvs) \in Nat \ {0} /\ DOMAIN ConfirmEnvs = 1..Len(ConfirmEnvs)
      BY ConfigAssumption, EmptySeq, LenProperties
    <3> QED BY <3>1 DEF PollType
  <2>2. PollType'
    BY <1>2, <2>1 DEF NextEnv, PollType
  <2> QED BY <1>2, <2>2, SyncKept, ChatKept, BotKept DEF NextEnv, RestType, rest
<1>3. ASSUME NEW p \in pending, SendPopup(p) PROVE TypeOK'
  <2>1. p \in [id : Ids, service : Services, environments : Seq(Envs)]
    BY DEF PollType
  <2>2. Shown(p) => popups' \in [Ids -> Nat] /\ chat' \subseteq [id : Ids, no : Nat]
    BY <2>1 DEF Shown, ChatType
  <2>3. PollType' /\ ChatType'
    BY <1>3, <2>1, <2>2 DEF SendPopup, NotSent, PollType, ChatType, chatVars
  <2> QED BY <1>3, <2>3, SyncKept, BotKept, CallFailsType
          DEF SendPopup, NotSent, RestType, rest
<1>4. ASSUME NEW p \in asking, MarkPopupSent(p) PROVE TypeOK'
  <2>1. p \in [id : Ids, service : Services, environments : Seq(Envs)]
    BY DEF PollType
  <2>2. ASSUME NEW s \in Found(p.id)
        PROVE  [task EXCEPT ![s].popup_sent = TRUE, ![s].popup_bot = BotOf[p.service]] \in Records
    <3>1. s \in Slots /\ task[s] \in Task
      BY DEF Found, RestType, Records
    <3>2. BotOf[p.service] \in Bots \union {NoBot}
      BY <2>1, ConfigAssumption
    <3>3. [task[s] EXCEPT !.popup_sent = TRUE, !.popup_bot = BotOf[p.service]] \in Task
      BY <3>1, <3>2 DEF Task
    <3> DEFINE marked == [task EXCEPT ![s].popup_sent = TRUE, ![s].popup_bot = BotOf[p.service]]
    <3>4. marked[s] = [task[s] EXCEPT !.popup_sent = TRUE, !.popup_bot = BotOf[p.service]]
      BY <3>1 DEF RestType, Records
    <3> QED BY <3>1, <3>3, <3>4 DEF RestType, Records
  <2>3. task' \in Records /\ mishaps' \in 0..MaxMishaps
    BY <1>4, <2>2, SetNothingType DEF MarkPopupSent, RestType
  <2>4. PollType'
    BY <1>4, <2>1 DEF MarkPopupSent, PollType
  <2> QED BY <1>4, <2>3, <2>4, SyncKept, ChatKept, BotKept DEF MarkPopupSent, RestType, rest
<1> QED BY <1>1, <1>2, <1>3, <1>4 DEF Poll

\* What a goroutine of a bot is at.
HandlersType ==
  /\ handling \in [Bots -> Press \union {NoPress}]
  /\ handlerPc \in [Bots -> {"idle", "update", "message", "delete"}]
  /\ \A b \in Bots : handlerPc[b] = "idle" <=> handling[b] = NoPress
  /\ answer \in [Bots -> {"none", "invalid", "noTask", "refused", "failed", "done"}]

LEMMA AnswerType ==
  ASSUME HandlersType, NEW b \in Bots,
         NEW a \in {"invalid", "noTask", "refused", "failed", "done"}, Answer(b, a)
  PROVE  HandlersType'
  BY DEF HandlersType, Answer, Goto

LEMMA ProceedType ==
  ASSUME HandlersType, NEW b \in Bots, NEW h \in Press,
         NEW p \in {"update", "message", "delete"}, Proceed(b, p, h)
  PROVE  HandlersType'
  BY NullAssumption DEF HandlersType, Proceed, Goto

\* The steps of Telegram and of the bots.
LEMMA BotStepType ==
  ASSUME TypeOK, User \/ \E b \in Bots : Bot(b)
  PROVE  TypeOK'
<1> USE TypeParts
<1>0. HandlersType
  BY DEF BotType, HandlersType
<1>1. ASSUME NEW u \in Users, NEW m \in chat, NEW a \in {"confirm", "reject"},
             PressButton(u, m, a)
      PROVE  TypeOK'
  <2> DEFINE p == [user |-> u, id |-> m.id, no |-> m.no, action |-> a]
             b == BotOf[ServiceOfId(m.id)]
  <2>1. p \in Press /\ pressed' = pressed \union {p}
    BY <1>1 DEF PressButton, Press, ChatType
  <2>2. \A c \in Bots : updates[c] \in Seq(pressed') /\ channel[c] \in Seq(pressed')
    BY <2>1, SeqMonotonic DEF BotType
  <2>3. updates' = [updates EXCEPT ![b] = Append(@, p)]
    BY <1>1 DEF PressButton
  <2>4. \A c \in Bots : updates'[c] \in Seq(pressed') /\ Len(updates'[c]) >= Len(updates[c])
    BY <2>1, <2>2, <2>3, AppendProperties, LenProperties DEF BotType
  <2>5. UNCHANGED <<fetched, channel, handling, handlerPc, answer>>
    BY <1>1 DEF PressButton, handlerVars
  <2>6. \A c \in Bots : fetched[c] <= Len(updates'[c])
    <3> SUFFICES ASSUME NEW c \in Bots PROVE fetched[c] <= Len(updates'[c])
      OBVIOUS
    <3>1. Len(updates[c]) \in Nat /\ Len(updates'[c]) \in Nat
      BY <2>4, LenProperties DEF BotType
    <3> QED BY <2>4, <3>1 DEF BotType
  <2>7. updates' \in [Bots -> Seq(pressed')] /\ channel' \in [Bots -> Seq(pressed')]
    BY <2>2, <2>3, <2>4, <2>5 DEF BotType
  <2>8. pressed' \subseteq Press
    BY <2>1 DEF BotType
  <2>9. BotType'
    BY <2>5, <2>6, <2>7, <2>8 DEF BotType
  <2> QED BY <1>1, <2>9, SyncKept, PollKept, ChatKept DEF PressButton, RestType, rest
<1>2. ASSUME NEW b \in Bots, PollUpdates(b) PROVE TypeOK'
  <2> DEFINE new == SubSeq(updates[b], fetched[b] + 1, Len(updates[b]))
  <2>1. /\ updates[b] \in Seq(pressed) /\ channel[b] \in Seq(pressed)
        /\ Len(updates[b]) \in Nat /\ fetched[b] \in Nat
    BY LenProperties DEF BotType
  <2>2. new \in Seq(pressed)
    <3>1. \A i \in fetched[b] + 1 .. Len(updates[b]) : updates[b][i] \in pressed
      BY <2>1, ElementOfSeq
    <3> QED BY <2>1, <3>1, SubSeqProperties
  <2>3. channel[b] \o new \in Seq(pressed) /\ Len(new) \in Nat
    BY <2>1, <2>2, ConcatProperties, LenProperties
  <2>4. /\ updates' = [updates EXCEPT ![b] = new]
        /\ fetched' = [fetched EXCEPT ![b] = Len(new)]
        /\ channel' = [channel EXCEPT ![b] = @ \o new]
        /\ UNCHANGED <<pressed, handling, handlerPc, answer>>
    BY <1>2 DEF PollUpdates
  <2>5. \A c \in Bots : fetched'[c] <= Len(updates'[c])
    BY <2>1, <2>2, <2>3, <2>4 DEF BotType
  <2>6. /\ updates' \in [Bots -> Seq(pressed)] /\ channel' \in [Bots -> Seq(pressed)]
        /\ fetched' \in [Bots -> Nat]
    <3> HIDE DEF new
    <3> QED BY <2>2, <2>3, <2>4 DEF BotType
  <2>7. BotType'
    BY <2>4, <2>5, <2>6 DEF BotType
  <2> QED BY <1>2, <2>7, SyncKept, PollKept, ChatKept DEF PollUpdates, RestType, rest
<1>3. ASSUME NEW b \in Bots, HandleCallback(b) PROVE TypeOK'
  <2> DEFINE p == Head(channel[b])
  <2>1. p \in pressed /\ channel' \in [Bots -> Seq(pressed)]
    BY <1>3, HeadTailProperties DEF HandleCallback, BotType
  <2>2. p \in Press
    BY <2>1 DEF BotType
  <2>3. \/ \E a \in {"invalid", "noTask", "refused"} : Answer(b, a)
        \/ Proceed(b, "update", p)
    BY <1>3 DEF HandleCallback
  <2>4. HandlersType'
    <3>1. CASE \E a \in {"invalid", "noTask", "refused"} : Answer(b, a)
      BY <1>0, <3>1, AnswerType
    <3>2. CASE Proceed(b, "update", p)
      BY <1>0, <2>2, <3>2, ProceedType
    <3> QED BY <2>3, <3>1, <3>2
  <2>5. BotType'
    BY <1>3, <2>1, <2>4 DEF HandleCallback, BotType, HandlersType
  <2> QED BY <1>3, <2>5, SyncKept, PollKept, ChatKept, CallFailsType
          DEF HandleCallback, RestType, rest
<1>4. ASSUME NEW b \in Bots, UpdateByUser(b) PROVE TypeOK'
  <2> DEFINE p == handling[b]
  <2>1. p \in Press
    BY <1>4 DEF UpdateByUser, BotType
  <2>2. HandlersType'
    <3>1. CASE Answer(b, "failed")
      BY <1>0, <3>1, AnswerType
    <3>2. CASE Proceed(b, "message", p)
      BY <1>0, <2>1, <3>2, ProceedType
    <3> QED BY <1>4, <3>1, <3>2 DEF UpdateByUser
  <2>3. BotType'
    BY <1>4, <2>2 DEF UpdateByUser, BotType, HandlersType
  <2>4. ASSUME NEW s \in Found(p.id), task' = [task EXCEPT ![s].status = Verdict(p)]
        PROVE  task' \in Records
    <3>1. s \in Slots /\ task[s] \in Task /\ Verdict(p) \in Statuses
      BY DEF Found, RestType, Records, Verdict, Statuses
    <3>2. [task[s] EXCEPT !.status = Verdict(p)] \in Task
      BY <3>1 DEF Task
    <3> QED BY <2>4, <3>1, <3>2 DEF RestType, Records
  <2>5. task' \in Records /\ mishaps' \in 0..MaxMishaps
    BY <1>4, <2>4, SetNothingType, CallFailsType DEF UpdateByUser, SetStatus, RestType
  <2>6. cutShort' \subseteq Ids /\ running' \subseteq Slots \X Envs /\ starts' = starts
    BY <1>4, <2>1 DEF UpdateByUser, RestType, Press
  <2>7. RestType'
    BY <2>5, <2>6 DEF RestType
  <2> QED BY <1>4, <2>3, <2>7, SyncKept, PollKept, ChatKept DEF UpdateByUser
<1>5. ASSUME NEW b \in Bots, DeleteMessage(b) PROVE TypeOK'
  <2>1. handling[b] \in Press
    BY <1>5 DEF DeleteMessage, BotType
  <2>2. HandlersType'
    <3>1. CASE Answer(b, "done")
      BY <1>0, <3>1, AnswerType
    <3>2. CASE Proceed(b, "delete", handling[b])
      BY <1>0, <2>1, <3>2, ProceedType
    <3> QED BY <1>5, <3>1, <3>2 DEF DeleteMessage, AfterMessage
  <2>3. BotType'
    BY <1>5, <2>2 DEF DeleteMessage, BotType, HandlersType
  <2>4. ChatType'
    BY <1>5 DEF DeleteMessage, ChatType
  <2> QED BY <1>5, <2>3, <2>4, SyncKept, PollKept, CallFailsType
          DEF DeleteMessage, RestType, rest
<1>6. ASSUME NEW b \in Bots, DeleteTask(b) PROVE TypeOK'
  <2>1. HandlersType'
    BY <1>0, <1>6, AnswerType DEF DeleteTask
  <2>2. BotType'
    BY <1>6, <2>1 DEF DeleteTask, BotType, HandlersType
  <2>3. handling[b].id \in Ids
    BY <1>6 DEF DeleteTask, BotType, Press
  <2>4. task' \in Records /\ mishaps' \in 0..MaxMishaps /\ cutShort' \subseteq Ids
    BY <1>6, <2>3, CallFailsType DEF DeleteTask, RestType, Records
  <2>5. running' \subseteq Slots \X Envs /\ starts' = starts
    BY <1>6 DEF DeleteTask, RestType
  <2> QED BY <1>6, <2>2, <2>4, <2>5, SyncKept, PollKept, ChatKept DEF DeleteTask, RestType
<1> QED BY <1>1, <1>2, <1>3, <1>4, <1>5, <1>6 DEF User, Bot

LEMMA NextType == TypeOK /\ [Next]_vars => TypeOK'
<1> SUFFICES ASSUME TypeOK, [Next]_vars PROVE TypeOK'
    OBVIOUS
<1> USE TypeParts
<1>1. CASE Agent
  <2>1. ASSUME NEW s \in Slots, Execute(s)
        PROVE  task' \in Records /\ running' \subseteq Slots \X Envs
    <3>1. task[s] \in Task
      BY <2>1 DEF Execute, RestType, Records
    <3>2. [task[s] EXCEPT !.status = "executed"] \in Task
      BY <3>1 DEF Task, Statuses
    <3>3. task' \in Records
      BY <2>1, <3>2 DEF Execute, RestType, Records
    <3>4. (IF task[s].environments = <<>> THEN s[3] ELSE task[s].environments[1]) \in Envs
      <4>1. task[s].environments \in Seq(Envs) /\ s[3] \in Envs
        BY <3>1 DEF Task, Slots
      <4> QED BY <4>1, HeadTailProperties
    <3> QED BY <2>1, <3>3, <3>4 DEF Execute, RestType
  <2>2. ASSUME NEW r \in running, Remove(r)
        PROVE  task' \in Records /\ running' \subseteq Slots \X Envs
    BY <2>2 DEF Remove, RestType, Records
  <2> QED BY <1>1, <2>1, <2>2, SyncKept, PollKept, ChatKept, BotKept
          DEF Agent, Execute, Remove, RestType
<1>2. CASE Crash
  BY <1>2, RestartType, CallFailsType DEF Crash, RestType
<1>3. CASE UNCHANGED vars
  BY <1>3, SyncKept, PollKept, ChatKept, BotKept DEF vars, RestType, rest
<1> QED BY <1>1, <1>2, <1>3, SyncStepType, PollStepType, BotStepType DEF Next

\* Every variable of the approval service stays in its type (agent.go, bot.go,
\* mongo.go): whatever fails and whenever the process ends.
THEOREM TypeCorrect == Spec => []TypeOK
  BY InitType, NextType, PTL DEF Spec
-----------------------------------------------------------------------------
(* One popup for each start.  A task that has not been remembered as sent,  *)
(* and whose popup is not about to be, has had fewer popups that the        *)
(* service knows of than the process had starts.                            *)

Asked == {p.id : p \in asking}

PopupInv ==
  /\ pollPc # "mark" => asking = {}
  /\ OnePopup
  /\ \A id \in Ids \ (sentTasks \union Asked) : popups[id] < starts + unread[id]

LEMMA InitPopup == Init => PopupInv
  BY DEF Init, PopupInv, OnePopup

LEMMA NextPopup == TypeOK /\ PopupInv /\ [Next]_vars => PopupInv'
<1> SUFFICES ASSUME TypeOK, PopupInv, [Next]_vars PROVE PopupInv'
    OBVIOUS
<1>0. /\ popups \in [Ids -> Nat] /\ unread \in [Ids -> Nat] /\ starts \in Nat
      /\ pending \union asking \subseteq [id : Ids, service : Services, environments : Seq(Envs)]
  BY DEF TypeOK
<1> USE DEF PopupInv, OnePopup, Asked
<1>1. CASE UNCHANGED <<pollVars, popups, unread, starts>>
  BY <1>1 DEF pollVars
<1>2. CASE Restart
  <2>1. /\ UNCHANGED <<popups, unread>> /\ starts' = starts + 1
        /\ pollPc' = "read" /\ asking' = {}
    BY <1>2 DEF Restart, chatVars
  <2>2. \A id \in Ids : popups'[id] < starts' + unread'[id] /\ popups'[id] <= starts' + unread'[id]
    <3> SUFFICES ASSUME NEW id \in Ids
                 PROVE  popups[id] < starts + 1 + unread[id] /\ popups[id] <= starts + 1 + unread[id]
      BY <2>1
    <3>1. popups[id] \in Nat /\ unread[id] \in Nat /\ popups[id] <= starts + unread[id]
      BY <1>0
    <3> QED BY <1>0, <3>1
  <2> QED BY <2>1, <2>2
<1>3. CASE ReadPending \/ NextEnv
  BY <1>3 DEF ReadPending, NextEnv, chatVars, rest
<1>4. ASSUME NEW p \in pending, SendPopup(p) PROVE PopupInv'
  <2>1. p.id \in Ids /\ asking = {}
    BY <1>0, <1>4 DEF SendPopup
  <2>2. starts' = starts
    BY <1>4 DEF SendPopup, rest
  <2>3. CASE UNCHANGED <<popups, unread, asking, sentTasks>>
    BY <2>1, <2>2, <2>3
  <2>4. CASE /\ ~Skipped(p) /\ UNCHANGED <<unread, sentTasks>>
             /\ popups' = [popups EXCEPT ![p.id] = @ + 1]
             /\ asking' = {p} /\ pollPc' = "mark"
    BY <1>0, <2>1, <2>2, <2>4 DEF Skipped
  <2>5. CASE /\ UNCHANGED <<sentTasks, asking>>
             /\ popups' = [popups EXCEPT ![p.id] = @ + 1]
             /\ unread' = [unread EXCEPT ![p.id] = @ + 1]
    <3>1. ASSUME NEW id \in Ids
          PROVE  /\ popups[id] <= starts + unread[id] => popups'[id] <= starts + unread'[id]
                 /\ popups[id] < starts + unread[id] => popups'[id] < starts + unread'[id]
      <4>1. popups[id] \in Nat /\ unread[id] \in Nat
        BY <1>0
      <4>2. \/ popups'[id] = popups[id] + 1 /\ unread'[id] = unread[id] + 1
            \/ popups'[id] = popups[id] /\ unread'[id] = unread[id]
        BY <1>0, <2>5
      <4> QED BY <1>0, <4>1, <4>2
    <3> QED BY <2>1, <2>2, <2>5, <3>1
  <2> QED BY <1>4, <2>3, <2>4, <2>5 DEF SendPopup, Shown, NotSent, chatVars
<1>5. ASSUME NEW p \in asking, MarkPopupSent(p) PROVE PopupInv'
  BY <1>5 DEF MarkPopupSent, chatVars, rest
<1>6. CASE (\E i \in Items : QueryTasks(i)) \/ Sync
  <2>1. Restart \/ UNCHANGED <<pollVars, popups, unread, starts>>
    BY <1>6 DEF QueryTasks, Sync, DedupeTasks, NextTask, EndRound, Store, StoreTask,
                UpdateStored, VerifyStored, ForceStatus, ForcePopupSent, Reread, chatVars, rest
  <2> QED BY <1>1, <1>2, <2>1
<1>7. CASE User \/ Agent \/ \E b \in Bots : Bot(b)
  BY <1>1, <1>7 DEF User, PressButton, Agent, Execute, Remove, Bot, PollUpdates,
                    HandleCallback, UpdateByUser, DeleteMessage, DeleteTask, chatVars, rest
<1>8. CASE UNCHANGED vars
  BY <1>1, <1>8 DEF vars, chatVars, rest
<1> QED BY <1>2, <1>3, <1>4, <1>5, <1>6, <1>7, <1>8 DEF Next, Poll, Crash

\* Nobody is asked twice about a task in one life of the process, whatever the
\* sync loop writes into popup_sent and whichever calls fail, except once more
\* for each popup that was shown while its answer was lost (bot.go 258-317).
THEOREM AskedOnce == Spec => []OnePopup
<1>1. PopupInv => OnePopup
  BY DEF PopupInv
<1> QED BY <1>1, InitPopup, NextPopup, TypeCorrect, PTL DEF Spec
-----------------------------------------------------------------------------
(* What any step may do to a record: leave its id and status alone, create  *)
(* it, or change its status on behalf of the sync loop, of a user or of the *)
(* agent.                                                                   *)

Kept(s)    == task[s] # NoTask /\ task'[s].id = task[s].id /\ task'[s].status = task[s].status
Created(s) == syncPc = "store" /\ s = Slot /\ task[s] = NoTask /\ task'[s] = NewTask
Becomes(s, status) == task'[s].id = task[s].id /\ task'[s].status = status
BySync(s)  == syncPc \in {"status", "force"} /\ s \in Found(TaskId) /\ Becomes(s, Expected)
ByUser(s, b) ==
  LET p == handling[b]
  IN /\ handlerPc[b] = "update" /\ s \in Found(p.id)
     /\ Becomes(s, Verdict(p))
     /\ \/ handlerPc'[b] = "message" /\ handling' = handling
        \/ p.action = "reject" => p.id \in cutShort'
ByAgent(s) == task[s] # NoTask /\ task[s].status = "confirmed" /\ Becomes(s, "executed")

RecordStep(s) == Kept(s) \/ Created(s) \/ BySync(s) \/ (\E b \in Bots : ByUser(s, b)) \/ ByAgent(s)

LEMMA SetStatusStep ==
  ASSUME task \in Records, NEW id, NEW status,
         task' \in {[task EXCEPT ![f].status = status] : f \in Found(id)},
         NEW s \in Slots, task'[s] # NoTask
  PROVE  \/ task[s] # NoTask /\ task'[s] = task[s]
         \/ s \in Found(id) /\ Becomes(s, status)
<1>1. PICK f \in Found(id) : task' = [task EXCEPT ![f].status = status]
  OBVIOUS
<1>2. f \in Slots /\ task[f] \in Task
  BY <1>1 DEF Found, Records
<1>3. CASE s = f
  <2>1. task'[s] = [task[s] EXCEPT !.status = status]
    BY <1>1, <1>2, <1>3 DEF Records
  <2>2. task'[s].id = task[s].id /\ task'[s].status = status
    BY <1>2, <1>3, <2>1 DEF Task
  <2> QED BY <1>3, <2>2 DEF Becomes
<1>4. CASE s # f
  BY <1>1, <1>2, <1>4 DEF Records
<1> QED BY <1>3, <1>4

LEMMA RecordSteps ==
  ASSUME TypeOK, [Next]_vars, NEW s \in Slots, task'[s] # NoTask
  PROVE  RecordStep(s)
<1> USE DEF RecordStep
<1>0. task \in Records
  BY DEF TypeOK, Records
<1>1. CASE task'[s] = task[s]
  BY <1>1 DEF Kept
<1>2. CASE StoreTask
  BY <1>0, <1>1, <1>2, SyncTypes DEF StoreTask, Upsert, Created, Records
<1>3. CASE UpdateStored \/ ForceStatus
  <2>1. UNCHANGED task \/ SetStatus(TaskId, Expected)
    BY <1>3 DEF UpdateStored, ForceStatus, SetNothing
  <2> QED BY <1>0, <1>1, <1>3, <2>1, SetStatusStep
          DEF BySync, UpdateStored, ForceStatus, SetStatus
<1>4. CASE ForcePopupSent
  <2>1. CASE UNCHANGED task
    BY <1>1, <2>1
  <2>2. ASSUME NEW f \in Slots, task[f] # NoTask,
               task' = [task EXCEPT ![f].popup_sent = ~IsConfirmEnv(env)]
        PROVE  RecordStep(s)
    <3>1. CASE s = f
      <4>1. task[s] \in Task
        BY <1>0, <2>2, <3>1 DEF Records
      <4>2. task'[s] = [task[s] EXCEPT !.popup_sent = ~IsConfirmEnv(env)]
        BY <1>0, <2>2, <3>1 DEF Records
      <4> QED BY <2>2, <3>1, <4>1, <4>2 DEF Kept, Task
    <3>2. CASE s # f
      BY <1>0, <1>1, <2>2, <3>2 DEF Records
    <3> QED BY <3>1, <3>2
  <2> QED BY <1>4, <2>1, <2>2 DEF ForcePopupSent
<1>5. ASSUME NEW p \in asking, MarkPopupSent(p) PROVE RecordStep(s)
  <2>1. CASE UNCHANGED task
    BY <1>1, <2>1
  <2>2. ASSUME NEW f \in Found(p.id),
               task' = [task EXCEPT ![f].popup_sent = TRUE, ![f].popup_bot = BotOf[p.service]]
        PROVE  RecordStep(s)
    <3>1. f \in Slots /\ task[f] \in Task /\ task[f] # NoTask
      BY <1>0, <2>2 DEF Found, Records
    <3>2. CASE s = f
      <4>1. task'[s] = [task[s] EXCEPT !.popup_sent = TRUE, !.popup_bot = BotOf[p.service]]
        BY <1>0, <2>2, <3>1, <3>2 DEF Records
      <4> QED BY <3>1, <3>2, <4>1 DEF Kept, Task
    <3>3. CASE s # f
      BY <1>0, <1>1, <2>2, <3>1, <3>3 DEF Records
    <3> QED BY <3>2, <3>3
  <2> QED BY <1>5, <2>1, <2>2 DEF MarkPopupSent, SetNothing
<1>6. ASSUME NEW b \in Bots, UpdateByUser(b) PROVE RecordStep(s)
  <2>1. CASE UNCHANGED task
    BY <1>1, <2>1
  <2>2. CASE /\ SetStatus(handling[b].id, Verdict(handling[b]))
             /\ Proceed(b, "message", handling[b])
    <3>1. handlerPc'[b] = "message" /\ handling' = handling
      BY <2>2 DEF TypeOK, Proceed, Goto
    <3> QED BY <1>0, <1>1, <1>6, <2>2, <3>1, SetStatusStep DEF UpdateByUser, ByUser, SetStatus
  <2>3. CASE /\ task' \in {[task EXCEPT ![f].status = Verdict(handling[b])] :
                            f \in Found(handling[b].id)}
             /\ handling[b].action = "reject" => handling[b].id \in cutShort'
    BY <1>0, <1>1, <1>6, <2>3, SetStatusStep DEF UpdateByUser, ByUser
  <2> QED BY <1>6, <2>1, <2>2, <2>3 DEF UpdateByUser, SetNothing
<1>7. ASSUME NEW b \in Bots, DeleteTask(b) PROVE RecordStep(s)
  BY <1>0, <1>1, <1>7 DEF DeleteTask, SetNothing, Found, Records
<1>8. ASSUME NEW f \in Slots, Execute(f) PROVE RecordStep(s)
  <2>1. CASE s = f
    <3>1. task'[s] = [task[s] EXCEPT !.status = "executed"] /\ task[s] \in Task
      BY <1>0, <1>8, <2>1 DEF Execute, Records
    <3> QED BY <1>8, <2>1, <3>1 DEF Execute, ByAgent, Becomes, Task
  <2>2. CASE s # f
    BY <1>0, <1>1, <1>8, <2>2 DEF Execute, Records
  <2> QED BY <2>1, <2>2
<1>9. ASSUME NEW r \in running, Remove(r) PROVE RecordStep(s)
  BY <1>0, <1>1, <1>9 DEF Remove, Records
<1>10. CASE UNCHANGED task
  BY <1>1, <1>10
<1>11. \/ UNCHANGED task
       \/ StoreTask \/ UpdateStored \/ ForceStatus \/ ForcePopupSent
       \/ (\E p \in asking : MarkPopupSent(p))
       \/ (\E b \in Bots : UpdateByUser(b) \/ DeleteTask(b)) \/ Agent
  BY DEF Next, QueryTasks, Sync, DedupeTasks, NextTask, EndRound, Store, VerifyStored, Reread,
         Restart, Poll, ReadPending, NextEnv, SendPopup, Bot, PollUpdates, HandleCallback,
         DeleteMessage, User, PressButton, Crash, vars
<1> QED BY <1>2, <1>3, <1>4, <1>5, <1>6, <1>7, <1>8, <1>9, <1>10, <1>11 DEF Agent
-----------------------------------------------------------------------------
(* An id belongs to one slot: the gateway's id to its item's main           *)
(* environment, a generated one to what it was generated for.               *)

Names(id, s) ==
  \/ \E i \in Items : /\ id = Item[i].id /\ id # NoId
                      /\ s = <<Item[i].service, Item[i].version, Item[i].environment>>
  \/ id \in Uuids /\ s = <<Item[id[1]].service, Item[id[1]].version, id[2]>>

IdsNameSlots == \A s \in Slots : task[s] # NoTask => Names(task[s].id, s)

LEMMA NamesOne ==
  ASSUME NEW id, NEW s, NEW t, Names(id, s), Names(id, t)
  PROVE  s = t
<1>1. ASSUME NEW i \in Items, id = Item[i].id, id # NoId PROVE id \notin Uuids
  BY <1>1, ItemType, IdAssumption
<1> QED BY <1>1, IdAssumption DEF Names

LEMMA TaskIdNames ==
  ASSUME TypeOK, syncPc \notin {"query", "next"}
  PROVE  Names(TaskId, Slot)
<1>1. item \in Items /\ delivered[item] \in 1..MaxDeliveries /\ env \in Envs
  BY SyncTypes, BoundAssumption DEF TypeOK
<1>2. CASE env = MainEnv /\ Item[item].id # NoId
  BY <1>1, <1>2 DEF TaskId, Names, Slot, MainEnv
<1>3. CASE ~(env = MainEnv /\ Item[item].id # NoId)
  BY <1>1, <1>3 DEF TaskId, Names, Slot, Uuids
<1> QED BY <1>2, <1>3

\* What is found by the id of the task at hand is the record of its slot.
LEMMA FoundIsSlot ==
  ASSUME TypeOK, IdsNameSlots, syncPc \notin {"query", "next"}, NEW s \in Found(TaskId)
  PROVE  s = Slot
  BY TaskIdNames, NamesOne DEF IdsNameSlots, Found

\* Two records that are found by one id are one.
LEMMA FoundIsOne ==
  ASSUME IdsNameSlots, NEW id, NEW s \in Found(id), NEW t \in Found(id)
  PROVE  s = t
  BY NamesOne DEF IdsNameSlots, Found

LEMMA InitNames == Init => IdsNameSlots
  BY DEF Init, IdsNameSlots

LEMMA NextNames == TypeOK /\ IdsNameSlots /\ [Next]_vars => IdsNameSlots'
<1> SUFFICES ASSUME TypeOK, IdsNameSlots, [Next]_vars,
                    NEW s \in Slots, task'[s] # NoTask
             PROVE  Names(task'[s].id, s)
  BY DEF IdsNameSlots, Names
<1>1. CASE Created(s)
  BY <1>1, TaskIdNames DEF Created, NewTask
<1>2. CASE task[s] # NoTask /\ task'[s].id = task[s].id
  BY <1>2 DEF IdsNameSlots
<1> QED BY <1>1, <1>2, RecordSteps
        DEF RecordStep, Kept, BySync, ByUser, ByAgent, Becomes, Found

-----------------------------------------------------------------------------
(* A human behind every confirmation.  A handler that is past its checks    *)
(* works for a press of a permitted user.                                   *)

HandledIsPermitted ==
  \A b \in Bots :
    handlerPc[b] # "idle" => handling[b] \in pressed /\ handling[b].user \in Allowed

HumanInv == IdsNameSlots /\ HandledIsPermitted /\ ConfirmedByHuman

LEMMA InitHuman == Init => HumanInv
  BY InitNames DEF Init, HumanInv, HandledIsPermitted, ConfirmedByHuman

\* Presses are never forgotten.
LEMMA PressedGrows == TypeOK /\ [Next]_vars => pressed \subseteq pressed'
  BY DEF Next, QueryTasks, Sync, DedupeTasks, NextTask, EndRound, Store, StoreTask, UpdateStored,
         VerifyStored, ForceStatus, ForcePopupSent, Reread, Restart, Poll, ReadPending, NextEnv,
         SendPopup, MarkPopupSent, Bot, PollUpdates, HandleCallback, UpdateByUser,
         DeleteMessage, DeleteTask, User, PressButton, Agent, Execute, Remove, Crash,
         vars, botVars

\* A handler keeps its press, or takes one that it may carry out.
LEMMA NextHandled == TypeOK /\ HandledIsPermitted /\ [Next]_vars => HandledIsPermitted'
<1> SUFFICES ASSUME TypeOK, HandledIsPermitted, [Next]_vars,
                    NEW c \in Bots, handlerPc'[c] # "idle"
             PROVE  handling'[c] \in pressed' /\ handling'[c].user \in Allowed
  BY DEF HandledIsPermitted
<1>0. pressed \subseteq pressed'
  BY PressedGrows
<1>1. CASE handlerPc[c] # "idle" /\ handling'[c] = handling[c]
  BY <1>0, <1>1 DEF HandledIsPermitted
<1>2. ASSUME NEW b \in Bots, HandleCallback(b)
      PROVE  handling'[c] \in pressed /\ handling'[c].user \in Allowed
  <2>1. Head(channel[b]) \in pressed
    BY <1>2, HeadTailProperties DEF HandleCallback, TypeOK
  <2>2. CASE b = c
    <3>1. ~ \E a \in {"invalid", "noTask", "refused"} : Answer(b, a)
      BY <2>2 DEF Answer, Goto, TypeOK
    <3> QED BY <1>2, <2>1, <2>2, <3>1
            DEF HandleCallback, Proceed, Permitted, TypeOK
  <2>3. CASE b # c
    BY <1>2, <2>3 DEF HandleCallback, Proceed, Answer, Goto, TypeOK, HandledIsPermitted
  <2> QED BY <2>2, <2>3
<1>3. ASSUME NEW b \in Bots, UpdateByUser(b) \/ DeleteMessage(b) \/ DeleteTask(b)
      PROVE  handlerPc[c] # "idle" /\ handling'[c] = handling[c]
  <2>1. (\E a \in {"failed", "done"} : Answer(b, a))
        \/ (\E q \in {"message", "delete"} : Proceed(b, q, handling[b]))
    BY <1>3 DEF UpdateByUser, DeleteMessage, AfterMessage, DeleteTask
  <2>2. handlerPc[b] # "idle"
    BY <1>3 DEF UpdateByUser, DeleteMessage, DeleteTask
  <2> QED BY <2>1, <2>2 DEF Answer, Proceed, Goto, TypeOK
<1>4. CASE UNCHANGED <<handling, handlerPc>>
  BY <1>1, <1>4
<1>5. ~Restart
  BY DEF Restart
<1>6. \/ UNCHANGED <<handling, handlerPc>> \/ Restart
      \/ \E b \in Bots : HandleCallback(b) \/ UpdateByUser(b) \/ DeleteMessage(b) \/ DeleteTask(b)
  BY DEF Next, QueryTasks, Sync, DedupeTasks, NextTask, EndRound, Store, StoreTask, UpdateStored,
         VerifyStored, ForceStatus, ForcePopupSent, Reread, Poll, ReadPending, NextEnv,
         SendPopup, MarkPopupSent, Bot, PollUpdates, User, PressButton, Agent, Execute, Remove,
         Crash, vars, botVars, handlerVars
<1> QED BY <1>0, <1>1, <1>2, <1>3, <1>4, <1>5, <1>6

LEMMA NextConfirmed == TypeOK /\ HumanInv /\ [Next]_vars => ConfirmedByHuman'
<1> SUFFICES ASSUME TypeOK, HumanInv, [Next]_vars,
                    NEW s \in Slots, IsConfirmEnv(s[3]), task'[s] # NoTask,
                    task'[s].status \in {"confirmed", "executed"}
             PROVE  \E p \in pressed' : /\ p.id = task'[s].id /\ p.action = "confirm"
                                        /\ p.user \in Allowed
  BY DEF ConfirmedByHuman, IsConfirmEnv
<1> USE DEF HumanInv
<1>0. pressed \subseteq pressed'
  BY PressedGrows
<1>1. CASE Kept(s) \/ ByAgent(s)
  <2>1. /\ task[s] # NoTask /\ task[s].status \in {"confirmed", "executed"}
        /\ task'[s].id = task[s].id
    BY <1>1 DEF Kept, ByAgent, Becomes
  <2> QED BY <1>0, <2>1 DEF ConfirmedByHuman
<1>2. ~Created(s)
  BY DEF Created, NewTask
<1>3. ~BySync(s)
  <2> SUFFICES ASSUME BySync(s) PROVE FALSE
    OBVIOUS
  <2>1. s[3] = env
    BY FoundIsSlot DEF BySync, Slot
  <2> QED BY <2>1 DEF BySync, Becomes, Expected
<1>4. ASSUME NEW b \in Bots, ByUser(s, b)
      PROVE  \E p \in pressed : p.id = task'[s].id /\ p.action = "confirm" /\ p.user \in Allowed
  <2>1. handling[b] \in pressed /\ handling[b].user \in Allowed
    BY <1>4 DEF ByUser, HandledIsPermitted
  <2>2. task'[s].id = handling[b].id /\ handling[b].action = "confirm"
    BY <1>4 DEF ByUser, Becomes, Found, Verdict
  <2> QED BY <2>1, <2>2
<1> QED BY <1>0, <1>1, <1>2, <1>3, <1>4, RecordSteps DEF RecordStep

\* Nothing becomes confirmed in an environment that needs a human unless a
\* permitted user has pressed the confirm button of that very task
\* (agent.go 160-224, bot.go 343-420).
THEOREM HumanConfirms == Spec => []ConfirmedByHuman
<1>1. TypeOK /\ HumanInv /\ [Next]_vars => HumanInv'
  BY NextNames, NextHandled, NextConfirmed DEF HumanInv
<1>2. HumanInv => ConfirmedByHuman
  BY DEF HumanInv
<1> QED BY <1>1, <1>2, InitHuman, TypeCorrect, PTL DEF Spec
-----------------------------------------------------------------------------
(* Rejected records.  The handler that has rejected one finds it again: its *)
(* id names one slot, and that is in a collection that is searched.         *)

RejectedIsMapped ==
  \A s \in Slots : task[s] # NoTask /\ task[s].status = "rejected" => s[3] \in Mapped

RejectedInv == IdsNameSlots /\ RejectedIsMapped /\ RejectedIsDeleted

LEMMA InitRejected == Init => RejectedInv
  BY InitNames DEF Init, RejectedInv, RejectedIsMapped, RejectedIsDeleted

\* A record that is being rejected has its handler, or the handler was stopped.
Leaving(id) == (\E b \in Bots : Rejecting(b) /\ handling[b].id = id) \/ id \in cutShort

\* Handlers that were stopped are never forgotten.
LEMMA CutShortGrows == [Next]_vars => cutShort \subseteq cutShort'
  BY DEF Next, QueryTasks, Sync, DedupeTasks, NextTask, EndRound, Store, StoreTask, UpdateStored,
         VerifyStored, ForceStatus, ForcePopupSent, Reread, Restart, Poll, ReadPending, NextEnv,
         SendPopup, MarkPopupSent, Bot, PollUpdates, HandleCallback, UpdateByUser,
         DeleteMessage, DeleteTask, User, PressButton, Agent, Execute, Remove, Crash,
         vars, rest

\* A handler that is about to delete a record goes on until it has done so or
\* is stopped.
LEMMA LeavingStays ==
  ASSUME TypeOK, IdsNameSlots, [Next]_vars,
         NEW s \in Slots, task[s] # NoTask, s[3] \in Mapped, task'[s] # NoTask,
         Leaving(task[s].id)
  PROVE  Leaving(task[s].id)'
<1>0. s \in Found(task[s].id) /\ task'[s].id = task[s].id
  BY RecordSteps DEF Found, RecordStep, Kept, Created, BySync, ByUser, ByAgent, Becomes
<1>1. CASE task[s].id \in cutShort
  BY <1>0, <1>1, CutShortGrows DEF Leaving
<1>2. ASSUME NEW b \in Bots, Rejecting(b), handling[b].id = task[s].id
      PROVE  Leaving(task[s].id)'
  <2>1. ASSUME NEW c \in Bots, c # b,
               HandleCallback(c) \/ UpdateByUser(c) \/ DeleteMessage(c) \/ DeleteTask(c)
        PROVE  handlerPc'[b] = handlerPc[b] /\ handling'[b] = handling[b]
    BY <2>1 DEF HandleCallback, UpdateByUser, DeleteMessage, AfterMessage, DeleteTask,
                Answer, Proceed, Goto, TypeOK
  <2>2. ~HandleCallback(b) /\ ~UpdateByUser(b)
    BY <1>2 DEF Rejecting, HandleCallback, UpdateByUser
  <2>3. ASSUME DeleteMessage(b)
        PROVE  handlerPc'[b] = "delete" /\ handling'[b] = handling[b]
    BY <1>2, <2>3 DEF DeleteMessage, AfterMessage, Proceed, Goto, Rejecting, TypeOK
  <2>4. ASSUME DeleteTask(b) PROVE task[s].id \in cutShort'
    <3>1. ASSUME NEW f \in Found(task[s].id), task' = [task EXCEPT ![f] = NoTask]
          PROVE  FALSE
      <4>1. f = s
        BY <1>0, <3>1, FoundIsOne
      <4> QED BY <3>1, <4>1 DEF TypeOK
    <3> QED BY <1>0, <1>2, <2>4, <3>1 DEF DeleteTask
  <2>5. ASSUME Restart PROVE task[s].id \in cutShort'
    BY <1>2, <2>5 DEF Restart
  <2>6. \/ UNCHANGED <<handling, handlerPc>> \/ Restart
        \/ \E c \in Bots : HandleCallback(c) \/ UpdateByUser(c) \/ DeleteMessage(c) \/ DeleteTask(c)
    BY DEF Next, QueryTasks, Sync, DedupeTasks, NextTask, EndRound, Store, StoreTask,
           UpdateStored, VerifyStored, ForceStatus, ForcePopupSent, Reread, Poll, ReadPending,
           NextEnv, SendPopup, MarkPopupSent, Bot, PollUpdates, User, PressButton, Agent,
           Execute, Remove, Crash, vars, botVars, handlerVars
  <2>7. \/ handlerPc'[b] = handlerPc[b] /\ handling'[b] = handling[b]
        \/ handlerPc'[b] = "delete" /\ handling'[b] = handling[b]
        \/ task[s].id \in cutShort'
    BY <2>1, <2>2, <2>3, <2>4, <2>5, <2>6
  <2> QED BY <1>0, <1>2, <2>7 DEF Leaving, Rejecting
<1> QED BY <1>1, <1>2 DEF Leaving

LEMMA NextRejected == TypeOK /\ RejectedInv /\ [Next]_vars => RejectedInv'
<1> SUFFICES ASSUME TypeOK, RejectedInv, [Next]_vars PROVE RejectedInv'
    OBVIOUS
<1> USE DEF RejectedInv
<1>1. ASSUME NEW s \in Slots, task'[s] # NoTask, task'[s].status = "rejected"
      PROVE  s[3] \in Mapped /\ Leaving(task[s].id)' /\ task'[s].id = task[s].id
  <2>1. CASE Kept(s)
    <3>1. s[3] \in Mapped /\ task'[s].id = task[s].id
      BY <2>1, <1>1 DEF Kept, RejectedIsMapped
    <3>2. Leaving(task[s].id)
      BY <2>1, <1>1 DEF Kept, RejectedIsDeleted, Leaving
    <3> QED BY <1>1, <2>1, <3>1, <3>2, LeavingStays DEF Kept
  <2>2. ASSUME NEW b \in Bots, ByUser(s, b)
        PROVE  /\ s[3] \in Mapped /\ task'[s].id = task[s].id
               /\ Leaving(task[s].id)'
    <3>0. handling[b] \in Press
      BY <2>2 DEF ByUser, TypeOK
    <3>1. handling[b].action = "reject" /\ handling[b].id = task[s].id
      BY <1>1, <2>2, <3>0 DEF ByUser, Becomes, Verdict, Found, Press
    <3>2. s[3] \in Mapped /\ task'[s].id = task[s].id
      BY <2>2 DEF ByUser, Becomes, Found
    <3>3. \/ handlerPc'[b] = "message" /\ handling' = handling
          \/ task[s].id \in cutShort'
      BY <2>2, <3>1 DEF ByUser
    <3> QED BY <3>1, <3>2, <3>3 DEF Leaving, Rejecting
  <2>3. ~Created(s) /\ ~BySync(s) /\ ~ByAgent(s)
    BY <1>1, ExpectedType DEF Created, NewTask, BySync, ByAgent, Becomes
  <2> QED BY <1>1, <2>1, <2>2, <2>3, RecordSteps DEF RecordStep
<1>2. RejectedIsMapped'
  BY <1>1 DEF RejectedIsMapped
<1>3. RejectedIsDeleted'
  BY <1>1 DEF RejectedIsDeleted, Leaving, Rejecting
<1> QED BY <1>2, <1>3, NextNames

\* A rejected record is on its way out as long as the handler that rejected it
\* is neither cut off by the end of the process nor refused by MongoDB, whatever
\* else fails or is restarted (bot.go 411-474).
THEOREM RejectedGoes == Spec => []RejectedIsDeleted
<1>1. RejectedInv => RejectedIsDeleted
  BY DEF RejectedInv
<1> QED BY <1>1, InitRejected, NextRejected, TypeCorrect, PTL DEF Spec
=============================================================================
