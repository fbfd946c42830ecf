--------------------------- MODULE GatewayProofs ---------------------------
(***************************************************************************)
(* What holds of the gateway for every set of requests, every size of the  *)
(* pool and of its channel, and any number of crashes and failed calls.    *)
(***************************************************************************)
EXTENDS Gateway, SequenceTheorems, TLAPS

\* The fields of a request are those of its kind.
LEMMA RequestFields ==
  ASSUME NEW r \in Requests
  PROVE  /\ Request[r].op = "push" => Request[r] \in PushRequest
         /\ Request[r].op = "deploy" => Request[r] \in DeployRequest
         /\ Request[r].op = "query" => Request[r] \in QueryRequest
         /\ Request[r].op = "status" => Request[r] \in StatusRequest
  BY RequestAssumption DEF PushRequest, DeployRequest, QueryRequest, StatusRequest

LEMMA SequenceTail ==
  ASSUME NEW S, NEW s \in Seq(S), s # <<>>
  PROVE  /\ Head(s) \in S /\ Head(s) = s[1] /\ 1 \in DOMAIN s
         /\ Tail(s) \in Seq(S) /\ Len(Tail(s)) = Len(s) - 1
         /\ Tail(s) = <<>> => Len(s) = 1
         /\ \A i \in DOMAIN Tail(s) : i + 1 \in DOMAIN s /\ Tail(s)[i] = s[i + 1]
<1>1. Len(s) \in Nat \ {0} /\ DOMAIN s = 1..Len(s)
  BY EmptySeq, LenProperties
<1>2. Len(Tail(s)) = Len(s) - 1
  BY HeadTailProperties
<1>3. ASSUME Tail(s) = <<>> PROVE Len(s) = 1
  <2>1. Len(<<>>) = 0
    BY EmptySeq
  <2>2. Len(s) - 1 = 0
    BY <1>2, <1>3, <2>1, Zenon
  <2>3. \A n \in Nat : n - 1 = 0 => n = 1
    OBVIOUS
  <2> QED BY <1>1, <2>2, <2>3, Zenon
<1> QED BY <1>1, <1>2, <1>3, HeadTailProperties

LEMMA SequenceEnd ==
  ASSUME NEW S, NEW s \in Seq(S), NEW x \in S
  PROVE  /\ Append(s, x) \in Seq(S) /\ Len(Append(s, x)) = Len(s) + 1
         /\ DOMAIN Append(s, x) = 1..(Len(s) + 1) /\ DOMAIN s = 1..Len(s)
         /\ Append(s, x)[Len(s) + 1] = x
         /\ \A i \in DOMAIN s : Append(s, x)[i] = s[i]
  OBVIOUS

Replies == {"none", "bad", "queued", "processed", "nothing", "task", "notFound", "updated"}

\* The loop of handleDeploy never runs out of environments.
LEMMA NextEnvType ==
  ASSUME NEW r \in Requests, left \in [Requests -> Seq(Envs)], left[r] # <<>>,
         pc \in [Requests -> Points], reply \in [Requests -> Replies], NextEnv(r)
  PROVE  /\ left' \in [Requests -> Seq(Envs)]
         /\ pc' \in [Requests -> Points] /\ reply' \in [Requests -> Replies]
         /\ pc'[r] \in {"done", "count"}
         /\ left'[r] = <<>> => pc'[r] = "done"
         /\ \A q \in Requests \ {r} : pc'[q] = pc[q] /\ left'[q] = left[q]
<1>1. /\ Tail(left[r]) \in Seq(Envs)
      /\ Tail(left[r]) = <<>> => Len(left[r]) = 1
  BY SequenceTail
<1>2. left' = [left EXCEPT ![r] = Tail(@)]
  BY DEF NextEnv
<1>3. CASE Len(left[r]) = 1
  <2>1. pc' = [pc EXCEPT ![r] = "done"] /\ reply' = [reply EXCEPT ![r] = "processed"]
    BY <1>3 DEF NextEnv, Answer, Goto
  <2> QED BY <1>1, <1>2, <2>1 DEF Points, Replies
<1>4. CASE Len(left[r]) # 1
  <2>1. pc' = [pc EXCEPT ![r] = "count"] /\ reply' = reply
    BY <1>4 DEF NextEnv, Goto
  <2> QED BY <1>1, <1>2, <1>4, <2>1 DEF Points
<1> QED BY <1>3, <1>4

\* Where a deploy still has an environment to deal with.
Looping(r) ==
  \/ pc[r] \in {"count", "insert"}
  \/ pc[r] = "submit" /\ Request[r].op = "deploy"

LoopType == \A r \in Requests :
  Looping(r) => Request[r].op = "deploy" /\ left[r] # <<>>

\* Where a query or a status update is about to change a document.
UpdateType == \A r \in Requests :
  /\ pc[r] = "update" => Request[r].op \in {"query", "status"}
  /\ pc[r] = "update" /\ Request[r].op = "query" => found[r] # 0

\* A worker has services left of a push only.
WorkType == \A w \in PoolWorkers :
  todo[w] # <<>> => job[w] \in Requests /\ Request[job[w]].op = "push"

Types == TypeOK /\ LoopType /\ UpdateType /\ WorkType

LEMMA InitTypes == Init => Types
  BY BoundAssumption, PoolAssumption
     DEF Init, Types, TypeOK, LoopType, UpdateType, WorkType, Looping, Points

LEMMA CountType ==
  ASSUME Types, NEW r \in Requests, Count(r) PROVE Types'
<1>1. left[r] # <<>> /\ Request[r].op = "deploy" /\ left \in [Requests -> Seq(Envs)]
  BY DEF Types, TypeOK, LoopType, Looping, Count, At
<1>2. /\ pc[r] = "count" /\ pc \in [Requests -> Points] /\ reply \in [Requests -> Replies]
  BY DEF Types, TypeOK, Count, At, Replies
<1>3. /\ left' \in [Requests -> Seq(Envs)]
      /\ pc' \in [Requests -> Points] /\ reply' \in [Requests -> Replies]
      /\ pc'[r] \in {"done", "count", "insert"}
      /\ left'[r] = <<>> => pc'[r] = "done"
      /\ \A q \in Requests \ {r} : pc'[q] = pc[q] /\ left'[q] = left[q]
  <2>1. CASE RefuseEnv(r)
    BY <1>1, <1>2, <2>1, NextEnvType DEF RefuseEnv
  <2>2. CASE Goto(r, "insert") /\ UNCHANGED <<left, refused, reply, faults>>
    BY <1>1, <1>2, <2>2 DEF Goto, Points
  <2> QED BY <2>1, <2>2 DEF Count
<1>4. refused' \in [Requests -> SUBSET Envs]
  <2>1. Head(left[r]) \in Envs
    BY <1>1, SequenceTail
  <2>2. refused' \in {refused, [refused EXCEPT ![r] = @ \union {Head(left[r])}]}
    BY DEF Count, RefuseEnv
  <2>3. refused \in [Requests -> SUBSET Envs]
    BY DEF Types, TypeOK
  <2> QED BY <2>1, <2>2, <2>3
<1>5. /\ UNCHANGED <<known, deployQueue, jobs, job, todo, accepted, found, crashes>>
      /\ faults' \in Nat /\ crashes \in Nat /\ crashes + faults' <= MaxMishaps
  BY BoundAssumption DEF Count, CallFails, Types, TypeOK, collections, pool
<1>6. LoopType'
  <2> SUFFICES ASSUME NEW q \in Requests, Looping(q)'
               PROVE  Request[q].op = "deploy" /\ left'[q] # <<>>
    BY DEF LoopType
  <2>1. CASE q = r
    BY <1>1, <1>3, <2>1 DEF Looping
  <2>2. CASE q # r
    BY <1>1, <1>3, <2>2 DEF Types, LoopType, Looping
  <2> QED BY <2>1, <2>2
<1>7. UpdateType' /\ WorkType'
  <2>1. WorkType'
    BY <1>5 DEF Types, WorkType
  <2>2. \A q \in Requests : pc'[q] = "update" => pc[q] = "update"
    BY <1>3
  <2>3. UpdateType'
    BY <1>5, <2>2 DEF Types, UpdateType
  <2> QED BY <2>1, <2>3
<1>8. TypeOK'
  BY <1>3, <1>4, <1>5, <1>6 DEF Types, TypeOK, LoopType, Looping, Replies
<1> QED BY <1>6, <1>7, <1>8 DEF Types

LEMMA InsertType ==
  ASSUME Types, NEW r \in Requests, Insert(r) PROVE Types'
<1>1. /\ left[r] # <<>> /\ Request[r].op = "deploy" /\ left \in [Requests -> Seq(Envs)]
      /\ Request[r] \in DeployRequest
  BY RequestFields DEF Types, TypeOK, LoopType, Looping, Insert, At
<1>2. Head(left[r]) \in Envs
  BY <1>1, SequenceTail
<1>3. /\ pc[r] = "insert" /\ pc \in [Requests -> Points] /\ reply \in [Requests -> Replies]
  BY DEF Types, TypeOK, Insert, At, Replies
<1>4. /\ left' \in [Requests -> Seq(Envs)]
      /\ pc' \in [Requests -> Points] /\ reply' \in [Requests -> Replies]
      /\ pc'[r] \in {"done", "count", "submit"}
      /\ left'[r] = <<>> => pc'[r] = "done"
      /\ \A q \in Requests \ {r} : pc'[q] = pc[q] /\ left'[q] = left[q]
  <2>1. CASE RefuseEnv(r)
    BY <1>1, <1>3, <2>1, NextEnvType DEF RefuseEnv
  <2>2. CASE Goto(r, "submit") /\ UNCHANGED <<left, refused, reply>>
    BY <1>1, <1>3, <2>2 DEF Goto, Points
  <2> QED BY <2>1, <2>2 DEF Insert
<1>5. refused' \in [Requests -> SUBSET Envs] /\ accepted' \in [Requests -> SUBSET Envs]
  <2>1. refused' \in {refused, [refused EXCEPT ![r] = @ \union {Head(left[r])}]}
    BY DEF Insert, RefuseEnv
  <2>2. accepted' \in {accepted, [accepted EXCEPT ![r] = @ \union {Head(left[r])}]}
    BY DEF Insert
  <2>3. refused \in [Requests -> SUBSET Envs] /\ accepted \in [Requests -> SUBSET Envs]
    BY DEF Types, TypeOK
  <2> QED BY <1>2, <2>1, <2>2, <2>3
<1>6. deployQueue' \in Seq(Document) /\ Len(deployQueue') >= Len(deployQueue)
  <2>1. NewDocument(Request[r], Head(left[r])) \in Document
    BY <1>1, <1>2 DEF NewDocument, Document, DeployRequest
  <2>2. deployQueue' \in {deployQueue,
                          Append(deployQueue, NewDocument(Request[r], Head(left[r])))}
    BY DEF Insert
  <2>3. deployQueue \in Seq(Document) /\ Len(deployQueue) \in Nat
    BY DEF Types, TypeOK
  <2> QED BY <2>1, <2>2, <2>3, SequenceEnd
<1>7. found' \in [Requests -> 0..Len(deployQueue')]
  BY <1>6 DEF Types, TypeOK, Insert
<1>8. faults' \in Nat /\ crashes' \in Nat /\ crashes' + faults' <= MaxMishaps
  BY BoundAssumption DEF Types, TypeOK, Insert, CallFails
<1>9. UNCHANGED <<known, jobs, job, todo, found>>
  BY DEF Insert, pool
<1>10. LoopType'
  <2> SUFFICES ASSUME NEW q \in Requests, Looping(q)'
               PROVE  Request[q].op = "deploy" /\ left'[q] # <<>>
    BY DEF LoopType
  <2>1. CASE q = r
    BY <1>1, <1>4, <2>1 DEF Looping
  <2>2. CASE q # r
    BY <1>1, <1>4, <2>2 DEF Types, LoopType, Looping
  <2> QED BY <2>1, <2>2
<1>11. UpdateType' /\ WorkType'
  <2>1. WorkType'
    BY <1>9 DEF Types, WorkType
  <2>2. \A q \in Requests : pc'[q] = "update" => pc[q] = "update"
    BY <1>4
  <2>3. UpdateType'
    BY <1>9, <2>2 DEF Types, UpdateType
  <2> QED BY <2>1, <2>3
<1>12. TypeOK'
  BY <1>4, <1>5, <1>6, <1>7, <1>8, <1>9, <1>10 DEF Types, TypeOK, LoopType, Looping, Replies
<1> QED BY <1>10, <1>11, <1>12 DEF Types

LEMMA SubmitDeployType ==
  ASSUME Types, NEW r \in Requests, SubmitDeploy(r) PROVE Types'
<1>1. left[r] # <<>> /\ Request[r].op = "deploy" /\ left \in [Requests -> Seq(Envs)]
  BY DEF Types, TypeOK, LoopType, Looping, SubmitDeploy, At
<1>2. pc \in [Requests -> Points] /\ reply \in [Requests -> Replies]
  BY DEF Types, TypeOK, Replies
<1>3. /\ left' \in [Requests -> Seq(Envs)]
      /\ pc' \in [Requests -> Points] /\ reply' \in [Requests -> Replies]
      /\ pc'[r] \in {"done", "count"}
      /\ left'[r] = <<>> => pc'[r] = "done"
      /\ \A q \in Requests \ {r} : pc'[q] = pc[q] /\ left'[q] = left[q]
  BY <1>1, <1>2, NextEnvType DEF SubmitDeploy
<1>4. jobs' \in Seq(Requests) /\ Len(jobs') <= PoolCapacity
  BY PoolAssumption, SequenceEnd DEF Types, TypeOK, SubmitDeploy
<1>5. UNCHANGED <<known, deployQueue, job, todo, accepted, refused, found, crashes, faults>>
  BY DEF SubmitDeploy, collections
<1>6. LoopType'
  <2> SUFFICES ASSUME NEW q \in Requests, Looping(q)'
               PROVE  Request[q].op = "deploy" /\ left'[q] # <<>>
    BY DEF LoopType
  <2>1. CASE q = r
    BY <1>1, <1>3, <2>1 DEF Looping
  <2>2. CASE q # r
    BY <1>1, <1>3, <2>2 DEF Types, LoopType, Looping
  <2> QED BY <2>1, <2>2
<1>7. UpdateType' /\ WorkType'
  <2>1. WorkType'
    BY <1>5 DEF Types, WorkType
  <2>2. \A q \in Requests : pc'[q] = "update" => pc[q] = "update"
    BY <1>3
  <2>3. UpdateType'
    BY <1>5, <2>2 DEF Types, UpdateType
  <2> QED BY <2>1, <2>3
<1>8. TypeOK'
  BY <1>3, <1>4, <1>5, <1>6 DEF Types, TypeOK, LoopType, Looping, Replies
<1> QED BY <1>6, <1>7, <1>8 DEF Types

\* An update changes the status of one document and nothing else.
LEMMA UpdateKeepsRest ==
  ASSUME Types, NEW r \in Requests, UpdateStatus(r)
  PROVE  /\ deployQueue' \in Seq(Document) /\ Len(deployQueue') = Len(deployQueue)
         /\ \A c \in DOMAIN deployQueue : SameTask(deployQueue'[c], deployQueue[c])
<1> USE DEF SameTask
<1> DEFINE st == StatusUpdate(r).status
<1>1. st \in {"assigned"} \union Statuses
  BY RequestFields DEF Types, UpdateType, UpdateStatus, StatusUpdate, StatusRequest
<1>2. \/ UNCHANGED deployQueue
      \/ \E d \in DOMAIN deployQueue : deployQueue' = [deployQueue EXCEPT ![d].status = st]
  BY DEF UpdateStatus, Updatable
<1> HIDE DEF st
<1>3. deployQueue \in Seq(Document) /\ DOMAIN deployQueue = 1..Len(deployQueue)
  BY LenProperties DEF Types, TypeOK
<1>4. ASSUME NEW d \in DOMAIN deployQueue,
             deployQueue' = [deployQueue EXCEPT ![d].status = st]
      PROVE  /\ deployQueue' \in Seq(Document) /\ Len(deployQueue') = Len(deployQueue)
             /\ \A c \in DOMAIN deployQueue : SameTask(deployQueue'[c], deployQueue[c])
  <2> DEFINE doc == [deployQueue[d] EXCEPT !.status = st]
  <2>1. deployQueue[d] \in Document
    BY <1>3, ElementOfSeq
  <2>2. /\ doc \in Document
        /\ SameTask(doc, deployQueue[d])
    BY <1>1, <2>1 DEF Document
  <2>3. deployQueue' = [deployQueue EXCEPT ![d] = doc]
    BY <1>4
  <2> HIDE DEF doc
  <2>4. /\ deployQueue' \in Seq(Document) /\ Len(deployQueue') = Len(deployQueue)
        /\ \A c \in 1..Len(deployQueue) :
             deployQueue'[c] = IF c = d THEN doc ELSE deployQueue[c]
    BY <1>3, <2>2, <2>3, ExceptSeq
  <2> QED BY <1>3, <2>2, <2>4
<1> QED BY <1>2, <1>3, <1>4

LEMMA UpdateStatusType ==
  ASSUME Types, NEW r \in Requests, UpdateStatus(r) PROVE Types'
<1>3. deployQueue' \in Seq(Document) /\ Len(deployQueue') = Len(deployQueue)
  BY UpdateKeepsRest
<1>4. faults' \in Nat /\ crashes' \in Nat /\ crashes' + faults' <= MaxMishaps
  BY BoundAssumption DEF Types, TypeOK, UpdateStatus, CallFails
<1>5. pc' = [pc EXCEPT ![r] = "reply"]
  BY DEF UpdateStatus, Goto
<1>6. UNCHANGED <<known, jobs, job, todo, left, accepted, refused, found, reply>>
  BY DEF UpdateStatus, pool
<1>7. LoopType' /\ UpdateType' /\ WorkType'
  BY <1>5, <1>6 DEF Types, TypeOK, LoopType, Looping, UpdateType, WorkType
<1>8. TypeOK'
  BY <1>3, <1>4, <1>5, <1>6 DEF Types, TypeOK, Points
<1> QED BY <1>7, <1>8 DEF Types

LEMMA NextTypes == Types /\ [Next]_vars => Types'
<1> SUFFICES ASSUME Types, [Next]_vars PROVE Types'
    OBVIOUS
<1> USE BoundAssumption, PoolAssumption, NullAssumption
    DEF Types, TypeOK, LoopType, UpdateType, WorkType, Looping, Points, At, Goto, Answer
<1>1. ASSUME NEW r \in Requests, Push(r) PROVE Types'
  BY <1>1 DEF Push, collections, pool
<1>2. ASSUME NEW r \in Requests, SubmitPush(r) PROVE Types'
  <2>1. jobs' \in Seq(Requests) /\ Len(jobs') <= PoolCapacity
    BY <1>2, SequenceEnd DEF SubmitPush
  <2> QED BY <1>2, <2>1 DEF SubmitPush, collections
<1>3. ASSUME NEW r \in Requests, Deploy(r) PROVE Types'
  <2>1. Request[r].environments \in Seq(Envs)
    BY <1>3, RequestFields DEF Deploy, DeployRequest
  <2>2. left' \in [Requests -> Seq(Envs)]
    BY <1>3, <2>1 DEF Deploy
  <2>3. CASE Answer(r, "bad") /\ UNCHANGED left
    <3>1. faults' \in Nat /\ crashes' \in Nat /\ crashes' + faults' <= MaxMishaps
      BY <1>3 DEF Deploy, CallFails
    <3>2. UNCHANGED <<collections, pool, accepted, refused, found>>
      BY <1>3 DEF Deploy
    <3> QED BY <1>3, <2>3, <3>1, <3>2 DEF Deploy, collections, pool
  <2>4. CASE /\ Request[r].environments # <<>> /\ Goto(r, "count")
             /\ left' = [left EXCEPT ![r] = Request[r].environments]
             /\ UNCHANGED <<reply, faults>>
    BY <1>3, <2>2, <2>4 DEF Deploy, collections, pool
  <2> QED BY <1>3, <2>3, <2>4 DEF Deploy
<1>4. ASSUME NEW r \in Requests, Count(r) PROVE Types'
  <2> HIDE DEF Types
  <2> QED BY <1>4, CountType
<1>5. ASSUME NEW r \in Requests, Insert(r) PROVE Types'
  <2> HIDE DEF Types
  <2> QED BY <1>5, InsertType
<1>6. ASSUME NEW r \in Requests, SubmitDeploy(r) PROVE Types'
  <2> HIDE DEF Types
  <2> QED BY <1>6, SubmitDeployType
<1>7. ASSUME NEW r \in Requests, Query(r) PROVE Types'
  <2>1. CASE (Answer(r, "nothing") \/ Answer(r, "bad")) /\ UNCHANGED found
    <3>1. faults' \in Nat /\ crashes' \in Nat /\ crashes' + faults' <= MaxMishaps
      BY <1>7 DEF Query, CallFails
    <3>2. UNCHANGED <<collections, pool, left, accepted, refused>>
      BY <1>7 DEF Query
    <3>3. TypeOK'
      BY <2>1, <3>1, <3>2 DEF collections, pool
    <3>4. /\ LoopType' /\ UpdateType'
      BY <2>1, <3>2
    <3>5. WorkType'
      BY <3>2 DEF pool
    <3> QED BY <3>3, <3>4, <3>5
  <2>2. CASE /\ \E d \in DOMAIN deployQueue : found' = [found EXCEPT ![r] = d]
             /\ Goto(r, "update") /\ UNCHANGED <<reply, faults>>
    <3>1. DOMAIN deployQueue = 1..Len(deployQueue)
      BY LenProperties
    <3>2. PICK d \in DOMAIN deployQueue : found' = [found EXCEPT ![r] = d]
      BY <2>2
    <3>3. UNCHANGED <<collections, pool, left, accepted, refused, crashes>>
          /\ Request[r].op = "query"
      BY <1>7 DEF Query
    <3>4. TypeOK'
      BY <2>2, <3>1, <3>2, <3>3 DEF collections, pool
    <3>5. /\ pc' = [pc EXCEPT ![r] = "update"] /\ found'[r] # 0
          /\ \A q \in Requests \ {r} : found'[q] = found[q]
      BY <2>2, <3>1, <3>2
    <3>6. LoopType'
      BY <3>3, <3>5
    <3>7. UpdateType' /\ WorkType'
      BY <3>3, <3>5 DEF pool
    <3> QED BY <3>4, <3>6, <3>7
  <2> QED BY <1>7, <2>1, <2>2 DEF Query, QueryDeployQueueByServiceEnv
<1>8. ASSUME NEW r \in Requests, Status(r) PROVE Types'
  BY <1>8 DEF Status, collections, pool
<1>9. ASSUME NEW r \in Requests, UpdateStatus(r) PROVE Types'
  <2> HIDE DEF Types
  <2> QED BY <1>9, UpdateStatusType
<1>10. ASSUME NEW r \in Requests, Reply(r) PROVE Types'
  BY <1>10 DEF Reply, Replied, collections, pool
<1>11. ASSUME NEW w \in PoolWorkers, Take(w) PROVE Types'
  <2>1. /\ Head(jobs) \in Requests
        /\ Tail(jobs) \in Seq(Requests) /\ Len(Tail(jobs)) <= PoolCapacity
    BY <1>11, SequenceTail DEF Take
  <2>2. /\ ServicesOf(Head(jobs)) \in Seq(Services)
        /\ ServicesOf(Head(jobs)) # <<>> => Request[Head(jobs)].op = "push"
    BY <2>1, RequestFields DEF ServicesOf, PushRequest
  <2> QED BY <1>11, <2>1, <2>2 DEF Take, collections, handler
<1>12. ASSUME NEW w \in PoolWorkers, Store(w) PROVE Types'
  <2>1. Head(todo[w]) \in Services /\ Tail(todo[w]) \in Seq(Services)
    BY <1>12, SequenceTail DEF Store
  <2>2. Request[job[w]].environments \subseteq Envs
    BY <1>12, RequestFields DEF Store, PushRequest
  <2>3. known' \in [Services -> SUBSET Envs]
    BY <1>12, <2>1, <2>2 DEF Store, AddEnvironments
  <2>4. todo' \in [PoolWorkers -> Seq(Services)]
    <3>1. <<>> \in Seq(Services)
      OBVIOUS
    <3>2. todo' \in {[todo EXCEPT ![w] = Tail(@)], [todo EXCEPT ![w] = <<>>]}
      BY <1>12 DEF Store
    <3> QED BY <2>1, <3>1, <3>2
  <2>5. \A v \in PoolWorkers : todo'[v] # <<>> => todo[v] # <<>>
    BY <1>12 DEF Store
  <2>6. faults' \in Nat /\ crashes' + faults' <= MaxMishaps
    BY <1>12 DEF Store, CallFails
  <2> QED BY <1>12, <2>3, <2>4, <2>5, <2>6 DEF Store, handler
<1>13. ASSUME NEW w \in PoolWorkers, Finish(w) PROVE Types'
  BY <1>13 DEF Finish, collections, handler
<1>14. CASE Crash
  BY <1>14 DEF Crash, collections
<1>15. CASE UNCHANGED vars
  BY <1>15 DEF vars, collections, pool, handler
<1> QED
  BY <1>1, <1>2, <1>3, <1>4, <1>5, <1>6, <1>7, <1>8, <1>9, <1>10, <1>11, <1>12,
     <1>13, <1>14, <1>15 DEF Next, Arrive, Handle, Work

\* Every variable of the gateway keeps its type, whatever requests overlap: the
\* channel never exceeds its capacity, and the loop of handleDeploy never looks
\* at an environment that is not there.
THEOREM TypeCorrect == Spec => []TypeOK
<1>1. Types => TypeOK
  BY DEF Types
<1> QED BY <1>1, InitTypes, NextTypes, PTL DEF Spec

-----------------------------------------------------------------------------
(***************************************************************************)
(* A deploy checks its environments once, and inserts them one by one.  It *)
(* is safe because nothing ever shrinks what the gateway knows: what is    *)
(* left of a checked request stays known while the loop goes on.           *)
(***************************************************************************)
CheckedStaysKnown == \A r \in Requests : Looping(r) =>
  \A i \in DOMAIN left[r] : left[r][i] \in known[Request[r].service]

Checked == DocumentsAreKnown /\ CheckedStaysKnown

LEMMA InitChecked == Init => Checked
  BY DEF Init, Checked, DocumentsAreKnown, CheckedStaysKnown, Looping

LEMMA KnownGrows ==
  ASSUME Types, [Next]_vars, NEW s \in Services PROVE known[s] \subseteq known'[s]
<1>1. ASSUME NEW w \in PoolWorkers, Store(w) PROVE known[s] \subseteq known'[s]
  BY <1>1 DEF Store, AddEnvironments, Types, TypeOK
<1>2. CASE UNCHANGED known
  BY <1>2
<1>3. ASSUME NEW r \in Requests, Arrive(r) \/ Handle(r) PROVE UNCHANGED known
  BY <1>3 DEF Arrive, Handle, Push, Deploy, Query, Status, SubmitPush, Count, Insert,
              SubmitDeploy, UpdateStatus, Reply, collections
<1>4. ASSUME NEW w \in PoolWorkers, Take(w) \/ Finish(w) PROVE UNCHANGED known
  BY <1>4 DEF Take, Finish, collections
<1>5. ASSUME Crash \/ UNCHANGED vars PROVE UNCHANGED known
  BY <1>5 DEF Crash, vars, collections
<1> QED BY <1>1, <1>2, <1>3, <1>4, <1>5 DEF Next, Work

\* Documents are only appended, by Insert, and keep all but their status.
LEMMA DocumentsStay ==
  ASSUME Types, [Next]_vars
  PROVE  \/ UNCHANGED deployQueue
         \/ \E r \in Requests : Insert(r)
         \/ /\ DOMAIN deployQueue' = DOMAIN deployQueue
            /\ \A c \in DOMAIN deployQueue : SameTask(deployQueue'[c], deployQueue[c])
<1>1. ASSUME NEW r \in Requests, UpdateStatus(r)
      PROVE  /\ DOMAIN deployQueue' = DOMAIN deployQueue
             /\ \A c \in DOMAIN deployQueue : SameTask(deployQueue'[c], deployQueue[c])
  <2>1. deployQueue \in Seq(Document)
    BY DEF Types, TypeOK
  <2> QED BY <1>1, <2>1, UpdateKeepsRest, LenProperties
<1>2. ASSUME NEW r \in Requests, Arrive(r) \/ SubmitPush(r) \/ Count(r) \/ SubmitDeploy(r)
                                 \/ Reply(r)
      PROVE  UNCHANGED deployQueue
  BY <1>2 DEF Arrive, Push, Deploy, Query, Status, SubmitPush, Count, SubmitDeploy, Reply,
              collections
<1>3. ASSUME NEW w \in PoolWorkers, Work(w) PROVE UNCHANGED deployQueue
  BY <1>3 DEF Work, Take, Store, Finish, collections
<1>4. ASSUME Crash \/ UNCHANGED vars PROVE UNCHANGED deployQueue
  BY <1>4 DEF Crash, vars, collections
<1> QED BY <1>1, <1>2, <1>3, <1>4 DEF Next, Handle

LEMMA NextDocuments == Types /\ Checked /\ [Next]_vars => DocumentsAreKnown'
<1> SUFFICES ASSUME Types, Checked, [Next]_vars,
                    NEW d \in DOMAIN deployQueue'
             PROVE  deployQueue'[d].environments \subseteq known'[deployQueue'[d].service]
  BY DEF DocumentsAreKnown
<1>1. /\ deployQueue \in Seq(Document) /\ DOMAIN deployQueue = 1..Len(deployQueue)
      /\ \A c \in DOMAIN deployQueue : deployQueue[c] \in Document
  <2>1. deployQueue \in Seq(Document)
    BY DEF Types, TypeOK
  <2> QED BY <2>1, LenProperties, ElementOfSeq
<1>2. ASSUME NEW c \in DOMAIN deployQueue
      PROVE  deployQueue[c].environments \subseteq known'[deployQueue[c].service]
  <2>1. deployQueue[c].service \in Services
    BY <1>1 DEF Document
  <2> QED BY <2>1, KnownGrows DEF Checked, DocumentsAreKnown
<1>3. ASSUME NEW r \in Requests, Insert(r)
      PROVE  deployQueue'[d].environments \subseteq known'[deployQueue'[d].service]
  <2> DEFINE doc == NewDocument(Request[r], Head(left[r]))
  <2>1. /\ Looping(r) /\ Request[r] \in DeployRequest
        /\ left[r] \in Seq(Envs) /\ left[r] # <<>>
    BY <1>3, RequestFields DEF Insert, At, Looping, Types, TypeOK, LoopType
  <2>2. Head(left[r]) \in Envs /\ Head(left[r]) \in known[Request[r].service]
    BY <2>1, SequenceTail DEF Checked, CheckedStaysKnown
  <2>3. UNCHANGED known
    BY <1>3 DEF Insert
  <2>4. doc \in Document /\ doc.environments \subseteq known'[doc.service]
    BY <2>1, <2>2, <2>3 DEF NewDocument, Document, DeployRequest
  <2>5. deployQueue' \in {deployQueue, Append(deployQueue, doc)}
    BY <1>3 DEF Insert
  <2> HIDE DEF doc
  <2>6. deployQueue'[d] = doc \/ (d \in DOMAIN deployQueue /\ deployQueue'[d] = deployQueue[d])
    BY <1>1, <2>4, <2>5, SequenceEnd
  <2> QED BY <1>2, <2>4, <2>6
<1> QED BY <1>2, <1>3, DocumentsStay DEF SameTask

LEMMA NextChecked == Types /\ Checked /\ [Next]_vars => CheckedStaysKnown'
<1> SUFFICES ASSUME Types, Checked, [Next]_vars,
                    NEW r \in Requests, Looping(r)', NEW i \in DOMAIN left'[r]
             PROVE  left'[r][i] \in known'[Request[r].service]
  BY DEF CheckedStaysKnown
<1>1. Request[r] \in DeployRequest /\ Request[r].service \in Services
  <2>1. Types'
    BY NextTypes
  <2> QED BY <2>1, RequestFields DEF Types, LoopType, DeployRequest
<1>2. known[Request[r].service] \subseteq known'[Request[r].service]
  BY <1>1, KnownGrows
<1>3. ASSUME Looping(r), UNCHANGED left PROVE left'[r][i] \in known'[Request[r].service]
  BY <1>2, <1>3 DEF Checked, CheckedStaysKnown
<1>4. ASSUME NEW q \in Requests, NextEnv(q), left[q] # <<>>, pc[q] # "new", Looping(q)
      PROVE  left'[r][i] \in known'[Request[r].service]
  <2>1. /\ left \in [Requests -> Seq(Envs)]
        /\ pc \in [Requests -> Points] /\ reply \in [Requests -> Replies]
    BY DEF Types, TypeOK, Replies
  <2>2. CASE q = r
    <3>1. left'[r] = Tail(left[r])
      BY <1>4, <2>1, <2>2 DEF NextEnv
    <3>2. i + 1 \in DOMAIN left[r] /\ left'[r][i] = left[r][i + 1]
      BY <1>4, <2>1, <2>2, <3>1, SequenceTail
    <3> QED BY <1>2, <1>4, <2>2, <3>2 DEF Checked, CheckedStaysKnown
  <2>3. CASE q # r
    <3>1. pc'[r] = pc[r] /\ left'[r] = left[r]
      BY <1>4, <2>1, <2>3, NextEnvType
    <3> QED BY <1>2, <3>1 DEF Checked, CheckedStaysKnown, Looping
  <2> QED BY <2>2, <2>3
<1>5. ASSUME UNCHANGED <<pc, left>> PROVE left'[r][i] \in known'[Request[r].service]
  BY <1>3, <1>5 DEF Looping
<1>6. ASSUME NEW q \in Requests, Deploy(q) PROVE left'[r][i] \in known'[Request[r].service]
  <2>1. CASE q = r
    <3>1. /\ left' = [left EXCEPT ![r] = Request[r].environments]
          /\ \A j \in DOMAIN Request[r].environments :
               Request[r].environments[j] \in known[Request[r].service]
      BY <1>6, <2>1 DEF Deploy, Answer, Goto, Looping, Types, TypeOK
    <3>2. left'[r] = Request[r].environments
      BY <3>1 DEF Types, TypeOK
    <3> QED BY <1>2, <3>1, <3>2
  <2>2. CASE q # r
    <3>1. pc'[r] = pc[r] /\ left'[r] = left[r]
      BY <1>6, <2>2 DEF Deploy, Answer, Goto, Types, TypeOK
    <3> QED BY <1>2, <3>1 DEF Checked, CheckedStaysKnown, Looping
  <2> QED BY <2>1, <2>2
<1>7. ASSUME NEW q \in Requests, Push(q) \/ SubmitPush(q) \/ Query(q) \/ Status(q)
                                 \/ UpdateStatus(q) \/ Reply(q)
      PROVE  left'[r][i] \in known'[Request[r].service]
  <2>1. UNCHANGED left
    BY <1>7 DEF Push, SubmitPush, Query, Status, UpdateStatus, Reply
  <2>2. Looping(r)
    BY <1>1, <1>7 DEF Push, SubmitPush, Query, Status, UpdateStatus, Reply, At, Goto,
                      Answer, Looping, Types, TypeOK, LoopType, UpdateType, DeployRequest
  <2> QED BY <1>3, <2>1, <2>2
<1>8. ASSUME NEW q \in Requests, Count(q) \/ Insert(q) \/ SubmitDeploy(q)
      PROVE  left'[r][i] \in known'[Request[r].service]
  <2>1. Looping(q) /\ left[q] # <<>> /\ pc[q] # "new"
    BY <1>8 DEF Count, Insert, SubmitDeploy, At, Looping, Types, LoopType
  <2>2. CASE NextEnv(q)
    BY <1>4, <2>1, <2>2
  <2>3. CASE ~NextEnv(q)
    <3>1. UNCHANGED left /\ (Goto(q, "insert") \/ Goto(q, "submit"))
      BY <1>8, <2>3 DEF Count, Insert, SubmitDeploy, RefuseEnv
    <3>2. Looping(r)
      BY <2>1, <3>1 DEF Goto, Looping, Types, TypeOK
    <3> QED BY <1>3, <3>1, <3>2
  <2> QED BY <2>2, <2>3
<1>9. ASSUME NEW w \in PoolWorkers, Work(w) PROVE left'[r][i] \in known'[Request[r].service]
  BY <1>5, <1>9 DEF Work, Take, Store, Finish, handler
<1>10. CASE Crash
  BY <1>3, <1>10 DEF Crash, Looping, Types, TypeOK
<1>11. CASE UNCHANGED vars
  BY <1>5, <1>11 DEF vars, handler
<1> QED BY <1>6, <1>7, <1>8, <1>9, <1>10, <1>11 DEF Next, Arrive, Handle

\* Only what was pushed is ever deployed, although pushes are applied while
\* deploys that were checked before them go on.
THEOREM OnlyKnownIsDeployed == Spec => []DocumentsAreKnown
<1>1. Types /\ Checked /\ [Next]_vars => Checked'
  BY NextDocuments, NextChecked DEF Checked
<1>2. Checked => DocumentsAreKnown
  BY DEF Checked
<1> QED BY <1>1, <1>2, InitTypes, NextTypes, InitChecked, PTL DEF Spec
-----------------------------------------------------------------------------
(***************************************************************************)
(* A deploy deals with each of its environments: what it has not accepted  *)
(* or refused is left, and nothing takes a document away that has made it  *)
(* accept or refuse one.                                                   *)
(***************************************************************************)
Elems(s) == {s[i] : i \in DOMAIN s}

LEMMA ElemsSplit ==
  ASSUME NEW S, NEW s \in Seq(S), s # <<>>
  PROVE  /\ Elems(s) = {Head(s)} \union Elems(Tail(s))
         /\ Len(s) = 1 => Elems(s) = {Head(s)}
<1>1. /\ Head(s) = s[1] /\ Len(Tail(s)) = Len(s) - 1
      /\ \A i \in DOMAIN Tail(s) : i + 1 \in DOMAIN s /\ Tail(s)[i] = s[i + 1]
  BY SequenceTail
<1>2. /\ DOMAIN s = 1..Len(s) /\ Len(s) \in Nat /\ 1 \in DOMAIN s
      /\ DOMAIN Tail(s) = 1..Len(Tail(s))
  BY SequenceTail, LenProperties
<1>3. \A j \in DOMAIN s : j # 1 => j - 1 \in DOMAIN Tail(s) /\ s[j] = Tail(s)[j - 1]
  BY <1>1, <1>2
<1>4. Elems(s) \subseteq {Head(s)} \union Elems(Tail(s))
  BY <1>1, <1>3 DEF Elems
<1>5. {Head(s)} \union Elems(Tail(s)) \subseteq Elems(s)
  BY <1>1, <1>2 DEF Elems
<1>6. Len(s) = 1 => Elems(s) = {Head(s)}
  BY <1>1, <1>2 DEF Elems
<1> QED BY <1>4, <1>5, <1>6

Done(r) == accepted[r] \union refused[r]

Accounted(r) ==
  /\ pc[r] = "new" => Done(r) = {}
  /\ Looping(r) => Elems(Request[r].environments) = Done(r) \union Elems(left[r])
  /\ Looping(r) /\ pc[r] = "submit" => Head(left[r]) \in Done(r)
  /\ reply[r] = "processed" =>
       pc[r] = "done" /\ Elems(Request[r].environments) = Done(r)

AccountInv == \A r \in Requests : Accounted(r)

LEMMA InitAccount == Init => AccountInv
  BY DEF Init, AccountInv, Accounted, Done, Looping

\* The loop goes on after Head(left[r]) has been dealt with.
LEMMA NextEnvAccounts ==
  ASSUME Types, NEW r \in Requests, Looping(r), Accounted(r), NextEnv(r),
         Done(r)' = Done(r) \union {Head(left[r])}
  PROVE  Accounted(r)'
<1>1. /\ left[r] \in Seq(Envs) /\ left[r] # <<>> /\ left \in [Requests -> Seq(Envs)]
      /\ pc \in [Requests -> Points] /\ reply \in [Requests -> Replies]
  BY DEF Types, TypeOK, LoopType, Replies
<1>2. left'[r] = Tail(left[r])
  BY <1>1 DEF NextEnv
<1>3. /\ Elems(left[r]) = {Head(left[r])} \union Elems(Tail(left[r]))
      /\ Len(left[r]) = 1 => Elems(left[r]) = {Head(left[r])}
  BY <1>1, ElemsSplit
<1>4. Elems(Request[r].environments) = Done(r) \union Elems(left[r])
  BY DEF Accounted
<1>5. CASE Len(left[r]) = 1
  <2>1. pc'[r] = "done" /\ Elems(Request[r].environments) = Done(r)'
    BY <1>1, <1>3, <1>4, <1>5 DEF NextEnv, Answer, Goto
  <2> QED BY <2>1 DEF Accounted, Looping
<1>6. CASE Len(left[r]) # 1
  <2>1. pc'[r] = "count" /\ reply' = reply
    BY <1>1, <1>6 DEF NextEnv, Goto
  <2>2. Elems(Request[r].environments) = Done(r)' \union Elems(left'[r])
    BY <1>2, <1>3, <1>4
  <2>3. reply[r] # "processed"
    BY DEF Accounted, Looping
  <2> QED BY <2>1, <2>2, <2>3 DEF Accounted
<1> QED BY <1>5, <1>6

\* Handlers keep to their own: what one does leaves the account of another.
LEMMA OthersAccount ==
  ASSUME Types, AccountInv, NEW q \in Requests, Arrive(q) \/ Handle(q),
         NEW r \in Requests, r # q
  PROVE  Accounted(r)'
<1>1. /\ pc'[r] = pc[r] /\ left'[r] = left[r] /\ reply'[r] = reply[r]
      /\ accepted'[r] = accepted[r] /\ refused'[r] = refused[r]
  BY DEF Arrive, Handle, Push, Deploy, Query, Status, SubmitPush, Count, Insert,
         SubmitDeploy, UpdateStatus, Reply, RefuseEnv, NextEnv, Answer, Goto, Types, TypeOK
<1> QED BY <1>1 DEF AccountInv, Accounted, Done, Looping

LEMMA OwnAccount ==
  ASSUME Types, AccountInv, NEW r \in Requests, Arrive(r) \/ Handle(r)
  PROVE  Accounted(r)'
<1>0. /\ left \in [Requests -> Seq(Envs)]
      /\ pc \in [Requests -> Points] /\ reply \in [Requests -> Replies]
      /\ accepted \in [Requests -> SUBSET Envs] /\ refused \in [Requests -> SUBSET Envs]
      /\ Accounted(r)
  BY DEF Types, TypeOK, AccountInv, Replies
<1>1. CASE Push(r) \/ SubmitPush(r) \/ Query(r) \/ Status(r) \/ UpdateStatus(r) \/ Reply(r)
  <2>1. pc[r] # "done" /\ ~Looping(r)'
    BY <1>0, <1>1 DEF Push, SubmitPush, Query, Status, UpdateStatus, Reply, At, Goto, Answer,
                      Looping, Types, UpdateType
  <2>2. pc'[r] # "new" /\ reply'[r] # "processed"
    BY <1>0, <1>1, <2>1 DEF Push, SubmitPush, Query, Status, UpdateStatus, Reply, Replied,
                            At, Goto, Answer, Accounted
  <2> QED BY <2>1, <2>2 DEF Accounted
<1>2. CASE Deploy(r)
  <2>1. Done(r)' = {} /\ pc[r] = "new" /\ reply[r] # "processed"
    BY <1>0, <1>2 DEF Deploy, At, Accounted, Done
  <2>2. CASE Answer(r, "bad")
    BY <1>0, <2>2 DEF Answer, Goto, Accounted, Looping
  <2>3. CASE /\ Goto(r, "count") /\ UNCHANGED reply
             /\ left' = [left EXCEPT ![r] = Request[r].environments]
    BY <1>0, <2>1, <2>3 DEF Goto, Accounted
  <2> QED BY <1>2, <2>2, <2>3 DEF Deploy
<1>3. CASE Count(r) \/ Insert(r) \/ SubmitDeploy(r)
  <2>1. Looping(r) /\ reply[r] # "processed"
    BY <1>0, <1>3 DEF Count, Insert, SubmitDeploy, At, Looping, Accounted
  <2>2. CASE RefuseEnv(r) /\ accepted' = accepted
    <3>1. Done(r)' = Done(r) \union {Head(left[r])}
      BY <1>0, <2>2 DEF RefuseEnv, Done
    <3> QED BY <1>0, <2>1, <2>2, <3>1, NextEnvAccounts DEF RefuseEnv
  <2>3. CASE Count(r) /\ Goto(r, "insert") /\ UNCHANGED <<left, refused, reply>>
    <3>1. Done(r)' = Done(r) /\ pc'[r] = "insert"
      BY <1>0, <2>3 DEF Count, Goto, Done
    <3> QED BY <1>0, <2>1, <2>3, <3>1 DEF Accounted
  <2>4. CASE /\ accepted' = [accepted EXCEPT ![r] = @ \union {Head(left[r])}]
             /\ Goto(r, "submit") /\ UNCHANGED <<left, refused, reply>>
    <3>1. Done(r)' = Done(r) \union {Head(left[r])} /\ pc'[r] = "submit"
      BY <1>0, <2>4 DEF Goto, Done
    <3>2. Head(left[r]) \in Elems(left[r])
      BY <1>0, <2>1, ElemsSplit DEF Types, LoopType
    <3> QED BY <1>0, <2>1, <2>4, <3>1, <3>2 DEF Accounted
  <2>5. CASE SubmitDeploy(r)
    <3>1. Head(left[r]) \in Done(r)
      BY <1>0, <2>1, <2>5 DEF SubmitDeploy, At, Accounted
    <3>2. Done(r)' = Done(r) \union {Head(left[r])}
      BY <2>5, <3>1 DEF SubmitDeploy, Done
    <3> QED BY <1>0, <2>1, <2>5, <3>2, NextEnvAccounts DEF SubmitDeploy
  <2> QED BY <1>3, <2>2, <2>3, <2>4, <2>5 DEF Count, Insert
<1> QED BY <1>1, <1>2, <1>3 DEF Arrive, Handle

LEMMA NextAccount == Types /\ AccountInv /\ [Next]_vars => AccountInv'
<1> SUFFICES ASSUME Types, AccountInv, [Next]_vars, NEW r \in Requests PROVE Accounted(r)'
  BY DEF AccountInv
<1>1. ASSUME NEW q \in Requests, Arrive(q) \/ Handle(q) PROVE Accounted(r)'
  <2>1. CASE q = r
    BY <1>1, <2>1, OwnAccount
  <2>2. CASE q # r
    BY <1>1, <2>2, OthersAccount
  <2> QED BY <2>1, <2>2
<1>2. CASE UNCHANGED handler
  BY <1>2 DEF handler, AccountInv, Accounted, Done, Looping
<1>3. ASSUME NEW w \in PoolWorkers, Work(w) PROVE UNCHANGED handler
  BY <1>3 DEF Work, Take, Store, Finish
<1>4. CASE Crash
  BY <1>4 DEF Crash, AccountInv, Accounted, Done, Looping, Types, TypeOK
<1>5. CASE UNCHANGED vars
  BY <1>2, <1>5 DEF vars
<1> QED BY <1>1, <1>2, <1>3, <1>4, <1>5 DEF Next

\* No document goes away, and none changes but for its status.
LEMMA DocumentsPersist ==
  ASSUME Types, [Next]_vars, NEW c \in DOMAIN deployQueue
  PROVE  c \in DOMAIN deployQueue' /\ SameTask(deployQueue'[c], deployQueue[c])
<1>1. deployQueue \in Seq(Document)
  BY DEF Types, TypeOK
<1>2. ASSUME NEW r \in Requests, Insert(r)
      PROVE  c \in DOMAIN deployQueue' /\ deployQueue'[c] = deployQueue[c]
  <2> DEFINE doc == NewDocument(Request[r], Head(left[r]))
  <2>1. doc \in Document
    <3>1. left[r] \in Seq(Envs) /\ left[r] # <<>> /\ Request[r] \in DeployRequest
      BY <1>2, RequestFields DEF Insert, At, Types, TypeOK, LoopType, Looping
    <3>2. Head(left[r]) \in Envs
      BY <3>1, SequenceTail
    <3> QED BY <3>1, <3>2 DEF NewDocument, Document, DeployRequest
  <2>2. deployQueue' \in {deployQueue, Append(deployQueue, doc)}
    BY <1>2 DEF Insert
  <2> HIDE DEF doc
  <2> QED BY <1>1, <2>1, <2>2, SequenceEnd
<1> QED BY <1>2, DocumentsStay DEF SameTask

\* Who has accepted an environment has a document for it, and who has refused
\* one has seen another or a failure.
HasDocument(r, e) ==
  \E d \in DOMAIN deployQueue :
    Concerns(d, Request[r], e) /\ deployQueue[d].user = Request[r].user
SeenDocument(r, e) ==
  faults > 0 \/ \E d \in DOMAIN deployQueue : Concerns(d, Request[r], e)

Backed == \A r \in Requests :
  /\ \A e \in accepted[r] : HasDocument(r, e)
  /\ \A e \in refused[r] : SeenDocument(r, e)

LEMMA InitBacked == Init => Backed
  BY DEF Init, Backed

LEMMA FaultsStay ==
  ASSUME Types, [Next]_vars, faults > 0 PROVE faults' > 0
<1>1. faults \in Nat
  BY DEF Types, TypeOK
<1>2. faults' = faults \/ faults' = faults + 1
  BY DEF Next, Arrive, Handle, Work, Push, Deploy, Query, Status, SubmitPush, Count,
         Insert, SubmitDeploy, UpdateStatus, Reply, Take, Store, Finish, Crash, CallFails, vars
<1> QED BY <1>1, <1>2

LEMMA BackingStays ==
  ASSUME Types, [Next]_vars, NEW r \in Requests, NEW e
  PROVE  /\ HasDocument(r, e) => HasDocument(r, e)'
         /\ SeenDocument(r, e) => SeenDocument(r, e)'
  BY DocumentsPersist, FaultsStay DEF HasDocument, SeenDocument, Concerns, SameTask

\* What a deploy adds to the two sets is backed.
LEMMA AdditionsAreBacked ==
  ASSUME Types, NEW r \in Requests, Count(r) \/ Insert(r)
  PROVE  /\ \A e \in accepted'[r] \ accepted[r] : HasDocument(r, e)'
         /\ \A e \in refused'[r] \ refused[r] : SeenDocument(r, e)'
<1>0. /\ accepted \in [Requests -> SUBSET Envs] /\ refused \in [Requests -> SUBSET Envs]
      /\ deployQueue \in Seq(Document) /\ faults \in Nat
      /\ left[r] \in Seq(Envs) /\ left[r] # <<>> /\ Request[r] \in DeployRequest
  BY RequestFields DEF Count, Insert, At, Types, TypeOK, LoopType, Looping
<1> PICK h \in Envs : h = Head(left[r])
  BY <1>0, SequenceTail
<1> DEFINE doc == NewDocument(Request[r], h)
<1>1. CASE Count(r) /\ Duplicates(Request[r], h) # {} /\ UNCHANGED faults
  <2>1. SeenDocument(r, h)'
    BY <1>1 DEF Count, Duplicates, SeenDocument, Concerns, collections, Goto, At
  <2>2. accepted' = accepted /\ refused'[r] \ refused[r] \subseteq {h}
    BY <1>0, <1>1 DEF Count, RefuseEnv
  <2> QED BY <2>1, <2>2
<1>2. CASE Count(r) /\ UNCHANGED refused
  BY <1>2 DEF Count
<1>3. CASE Insert(r) /\ deployQueue' = Append(deployQueue, doc)
           /\ accepted' = [accepted EXCEPT ![r] = @ \union {h}] /\ refused' = refused
  <2>1. doc \in Document
    BY <1>0 DEF NewDocument, Document, DeployRequest
  <2>2. /\ doc.service = Request[r].service /\ doc.version = Request[r].version
        /\ doc.environments = {h} /\ doc.user = Request[r].user
    BY DEF NewDocument
  <2>3. \E d \in DOMAIN deployQueue' : deployQueue'[d] = doc
    <3> HIDE DEF doc
    <3>1. Len(deployQueue) \in Nat
      BY <1>0, LenProperties
    <3> QED BY <1>0, <1>3, <2>1, <3>1, SequenceEnd
  <2>4. \E d \in DOMAIN deployQueue' :
          /\ deployQueue'[d].service = Request[r].service
          /\ deployQueue'[d].version = Request[r].version
          /\ deployQueue'[d].environments = {h}
          /\ deployQueue'[d].user = Request[r].user
    BY <2>2, <2>3
  <2>5. \A e \in accepted'[r] \ accepted[r] : e = h
    BY <1>0, <1>3
  <2> QED BY <1>3, <2>4, <2>5 DEF HasDocument, Concerns
<1>4. CASE faults' = faults + 1 /\ accepted' = accepted
  BY <1>0, <1>4 DEF SeenDocument
<1> QED BY <1>1, <1>2, <1>3, <1>4 DEF Count, Insert, CallFails

LEMMA NextBacked == Types /\ Backed /\ [Next]_vars => Backed'
<1> SUFFICES ASSUME Types, Backed, [Next]_vars, NEW r \in Requests
             PROVE  /\ \A e \in accepted'[r] : HasDocument(r, e)'
                    /\ \A e \in refused'[r] : SeenDocument(r, e)'
  BY DEF Backed
<1>1. CASE accepted'[r] = accepted[r] /\ refused'[r] = refused[r]
  BY <1>1, BackingStays DEF Backed
<1>2. CASE Count(r) \/ Insert(r)
  BY <1>2, AdditionsAreBacked, BackingStays DEF Backed
<1>3. ASSUME NEW q \in Requests, Arrive(q) \/ Handle(q), ~Count(r), ~Insert(r)
      PROVE  accepted'[r] = accepted[r] /\ refused'[r] = refused[r]
  BY <1>3 DEF Arrive, Handle, Push, Deploy, Query, Status, SubmitPush, Count, Insert,
              SubmitDeploy, UpdateStatus, Reply, RefuseEnv, Types, TypeOK
<1>4. ASSUME Crash \/ UNCHANGED vars \/ \E w \in PoolWorkers : Work(w)
      PROVE  accepted'[r] = accepted[r] /\ refused'[r] = refused[r]
  BY <1>4 DEF Crash, vars, handler, Work, Take, Store, Finish
<1> QED BY <1>1, <1>2, <1>3, <1>4 DEF Next

\* Whatever requests overlap and whatever fails, a deploy that is answered has
\* neither forgotten an environment nor refused one without a reason.
THEOREM DeploysAreAccountedFor == Spec => []DeployIsAccountedFor
<1>1. AccountInv /\ Backed => DeployIsAccountedFor
  BY DEF AccountInv, Accounted, Done, Elems, Backed, HasDocument, SeenDocument,
         DeployIsAccountedFor
<1> QED BY <1>1, InitTypes, NextTypes, InitAccount, NextAccount, InitBacked, NextBacked, PTL
        DEF Spec
-----------------------------------------------------------------------------
(***************************************************************************)
(* A query answers with what it has found, and marks that document or one  *)
(* that says the same.                                                     *)
(***************************************************************************)
FoundByQuery == \A r \in Requests :
  /\ found[r] # 0 => Request[r].op = "query" /\ pc[r] # "new"
  /\ reply[r] = "task" => pc[r] = "done"

HandedInv == FoundByQuery /\ AssignedIsHandedOut

LEMMA InitHanded == Init => HandedInv
  BY DEF Init, HandedInv, FoundByQuery, AssignedIsHandedOut

LEMMA NextFound == Types /\ HandedInv /\ [Next]_vars => FoundByQuery'
<1> SUFFICES ASSUME Types, HandedInv, [Next]_vars PROVE FoundByQuery'
    OBVIOUS
<1> USE DEF HandedInv, FoundByQuery, Types, TypeOK, Points
<1>1. ASSUME NEW q \in Requests, Arrive(q) PROVE FoundByQuery'
  BY <1>1 DEF Arrive, Push, Deploy, Query, Status, QueryDeployQueueByServiceEnv,
              At, Goto, Answer
<1>2. ASSUME NEW q \in Requests, Count(q) \/ Insert(q) \/ SubmitDeploy(q) PROVE FoundByQuery'
  <2>1. /\ pc[q] # "done" /\ pc'[q] # "new" /\ found' = found
        /\ \A r \in Requests \ {q} : pc'[r] = pc[r] /\ reply'[r] = reply[r]
        /\ reply'[q] \in {reply[q], "processed"}
    BY <1>2 DEF Count, Insert, SubmitDeploy, RefuseEnv, NextEnv, At, Goto, Answer
  <2> QED BY <2>1
<1>3. ASSUME NEW q \in Requests, SubmitPush(q) \/ UpdateStatus(q) \/ Reply(q)
      PROVE  FoundByQuery'
  BY <1>3 DEF SubmitPush, UpdateStatus, Reply, At, Goto, Answer
<1>4. ASSUME NEW w \in PoolWorkers, Work(w) PROVE FoundByQuery'
  BY <1>4 DEF Work, Take, Store, Finish, handler
<1>5. CASE Crash
  BY <1>5 DEF Crash
<1>6. CASE UNCHANGED vars
  BY <1>6 DEF vars, handler
<1> QED BY <1>1, <1>2, <1>3, <1>4, <1>5, <1>6 DEF Next, Handle

\* That a query has answered with the document it found, or has got so far.
Handed(r) == found[r] # 0 /\ (reply[r] = "task" \/ pc[r] = "reply" \/ pc[r] = "lost")

LEMMA HandedStays ==
  ASSUME Types, HandedInv, [Next]_vars, NEW r \in Requests, Handed(r)
  PROVE  Handed(r)' /\ found'[r] = found[r]
<1> USE DEF Handed, HandedInv, FoundByQuery, Types, TypeOK, UpdateType
<1>1. ASSUME NEW q \in Requests, Arrive(q) PROVE Handed(r)' /\ found'[r] = found[r]
  BY <1>1 DEF Arrive, Push, Deploy, Query, Status, At, Goto, Answer
<1>2. ASSUME NEW q \in Requests, Handle(q), ~Reply(q)
      PROVE  Handed(r)' /\ found'[r] = found[r]
  <2>1. pc[q] \notin {"done", "lost", "reply"} /\ found' = found
    BY <1>2 DEF Handle, SubmitPush, Count, Insert, SubmitDeploy, UpdateStatus, At
  <2>2. \A p \in Requests \ {q} : pc'[p] = pc[p] /\ reply'[p] = reply[p]
    BY <1>2 DEF Handle, SubmitPush, Count, Insert, SubmitDeploy, UpdateStatus,
                RefuseEnv, NextEnv, Goto, Answer
  <2> QED BY <2>1, <2>2
<1>3. ASSUME NEW q \in Requests, Reply(q) PROVE Handed(r)' /\ found'[r] = found[r]
  BY <1>3 DEF Reply, Replied, Goto, Answer
<1>4. ASSUME NEW w \in PoolWorkers, Work(w) PROVE Handed(r)' /\ found'[r] = found[r]
  BY <1>4 DEF Work, Take, Store, Finish, handler
<1>5. CASE Crash
  BY <1>5 DEF Crash
<1>6. CASE UNCHANGED vars
  BY <1>6 DEF vars, handler
<1> QED BY <1>1, <1>2, <1>3, <1>4, <1>5, <1>6 DEF Next

\* What a step assigns says the same as what the query has found.
LEMMA AssignsTheFound ==
  ASSUME Types, HandedInv, [Next]_vars, NEW d \in DOMAIN deployQueue',
         deployQueue'[d].status = "assigned",
         ~(d \in DOMAIN deployQueue /\ deployQueue[d].status = "assigned")
  PROVE  \E r \in Requests : /\ Handed(r)' /\ found'[r] \in DOMAIN deployQueue
                             /\ d \in DOMAIN deployQueue
                             /\ SameTask(deployQueue[found'[r]], deployQueue[d])
<1>0. /\ deployQueue \in Seq(Document) /\ DOMAIN deployQueue = 1..Len(deployQueue)
      /\ \A c \in DOMAIN deployQueue : deployQueue[c] \in Document
  <2>1. deployQueue \in Seq(Document)
    BY DEF Types, TypeOK
  <2> QED BY <2>1, LenProperties, ElementOfSeq
<1>1. PICK r \in Requests : UpdateStatus(r)
  <2>1. ASSUME NEW q \in Requests, Insert(q) PROVE FALSE
    <3> DEFINE doc == NewDocument(Request[q], Head(left[q]))
    <3>1. left[q] \in Seq(Envs) /\ left[q] # <<>> /\ Request[q] \in DeployRequest
      BY <2>1, RequestFields DEF Insert, At, Types, TypeOK, LoopType, Looping
    <3>2. doc \in Document /\ doc.status = "pending"
      <4>1. Head(left[q]) \in Envs
        BY <3>1, SequenceTail
      <4> QED BY <3>1, <4>1 DEF NewDocument, Document, DeployRequest
    <3>3. deployQueue' \in {deployQueue, Append(deployQueue, doc)}
      BY <2>1 DEF Insert
    <3> HIDE DEF doc
    <3>4. deployQueue'[d] = doc \/ (d \in DOMAIN deployQueue /\ deployQueue'[d] = deployQueue[d])
      BY <1>0, <3>2, <3>3, SequenceEnd
    <3> QED BY <3>2, <3>4
  <2>2. deployQueue' # deployQueue
    OBVIOUS
  <2> QED BY <2>1, <2>2 DEF Next, Arrive, Handle, Push, Deploy, Query, Status, SubmitPush,
                            Count, SubmitDeploy, Reply, Work, Take, Store, Finish, Crash,
                            vars, collections
<1> DEFINE u == StatusUpdate(r)
<1>2. PICK c \in Updatable(u) : deployQueue' = [deployQueue EXCEPT ![c].status = u.status]
  BY <1>1 DEF UpdateStatus
<1>3. c = d /\ d \in DOMAIN deployQueue /\ u.status = "assigned"
  BY <1>0, <1>2 DEF Updatable, Document
<1>4. Request[r].op = "query" /\ found[r] # 0
  BY <1>1, <1>3, RequestFields
     DEF StatusUpdate, Types, UpdateType, UpdateStatus, StatusRequest, Statuses
<1>5. found[r] \in DOMAIN deployQueue
  BY <1>0, <1>4 DEF Types, TypeOK
<1>6. SameTask(deployQueue[found[r]], deployQueue[d])
  <2> DEFINE f == deployQueue[found[r]]
             g == deployQueue[d]
  <2>1. f \in Document /\ g \in Document
    BY <1>0, <1>3, <1>5
  <2>2. /\ u.service = f.service /\ u.version = f.version /\ u.user = f.user
        /\ u.environment = CHOOSE e \in f.environments : TRUE
    BY <1>4 DEF StatusUpdate
  <2>3. /\ g.service = u.service /\ g.version = u.version /\ g.user = u.user
        /\ u.environment \in g.environments
    BY <1>2, <1>3 DEF Updatable
  <2> HIDE DEF f, g, u
  <2>4. PICK e1, e2 \in Envs : f.environments = {e1} /\ g.environments = {e2}
    BY <2>1 DEF Document
  <2>5. u.environment \in f.environments
    BY <2>2, <2>4
  <2>6. f.environments = g.environments
    BY <2>3, <2>4, <2>5
  <2>7. SameTask(f, g)
    BY <2>2, <2>3, <2>6 DEF SameTask
  <2> QED BY <2>7 DEF f, g
<1>7. Handed(r)' /\ found' = found
  BY <1>1, <1>4 DEF UpdateStatus, Goto, Handed, Types, TypeOK
<1> QED BY <1>3, <1>5, <1>6, <1>7

LEMMA NextHanded == Types /\ HandedInv /\ [Next]_vars => HandedInv'
<1> SUFFICES ASSUME Types, HandedInv, [Next]_vars, NEW d \in DOMAIN deployQueue',
                    deployQueue'[d].status = "assigned"
             PROVE  \E r \in Requests :
                      /\ Handed(r)'
                      /\ SameTask(deployQueue'[found'[r]], deployQueue'[d])
  BY NextFound DEF HandedInv, AssignedIsHandedOut, Handed
<1>1. CASE d \in DOMAIN deployQueue /\ deployQueue[d].status = "assigned"
  <2>1. PICK r \in Requests : Handed(r) /\ SameTask(deployQueue[found[r]], deployQueue[d])
    BY <1>1 DEF HandedInv, AssignedIsHandedOut, Handed
  <2>2. found[r] \in DOMAIN deployQueue
    <3>1. DOMAIN deployQueue = 1..Len(deployQueue)
      BY LenProperties DEF Types, TypeOK
    <3> QED BY <2>1, <3>1 DEF Handed, Types, TypeOK
  <2>3. Handed(r)' /\ found'[r] = found[r]
    BY <2>1, HandedStays
  <2>4. /\ SameTask(deployQueue'[found[r]], deployQueue[found[r]])
        /\ SameTask(deployQueue'[d], deployQueue[d])
    BY <1>1, <2>2, DocumentsPersist
  <2>5. SameTask(deployQueue'[found[r]], deployQueue'[d])
    BY <2>1, <2>4 DEF SameTask
  <2> QED BY <2>3, <2>5
<1>2. CASE ~(d \in DOMAIN deployQueue /\ deployQueue[d].status = "assigned")
  <2>1. PICK r \in Requests :
          /\ Handed(r)' /\ found'[r] \in DOMAIN deployQueue /\ d \in DOMAIN deployQueue
          /\ SameTask(deployQueue[found'[r]], deployQueue[d])
    BY <1>2, AssignsTheFound
  <2>2. /\ SameTask(deployQueue'[found'[r]], deployQueue[found'[r]])
        /\ SameTask(deployQueue'[d], deployQueue[d])
    BY <2>1, DocumentsPersist
  <2>3. SameTask(deployQueue'[found'[r]], deployQueue'[d])
    BY <2>1, <2>2 DEF SameTask
  <2> QED BY <2>1, <2>3
<1> QED BY <1>1, <1>2

\* Two queries may race for a document or for two that say the same: whatever
\* is assigned, a query has been given its like (server.go 537-591).
THEOREM OnlyTheFoundIsAssigned == Spec => []AssignedIsHandedOut
<1>1. HandedInv => AssignedIsHandedOut
  BY DEF HandedInv
<1> QED BY <1>1, InitTypes, NextTypes, InitHanded, NextHanded, PTL DEF Spec
=============================================================================
