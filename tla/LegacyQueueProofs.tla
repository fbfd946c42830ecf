------------------------- MODULE LegacyQueueProofs -------------------------
(***************************************************************************)
(* What holds of the legacy deployer's queue for any tasks, keys, workers  *)
(* and capacities, and any number of crashes, midnights, expiries and      *)
(* calls from outside.                                                     *)
(***************************************************************************)
EXTENDS LegacyQueue, SequenceTheorems, FiniteSetTheorems, TLAPS

-----------------------------------------------------------------------------
(* Types.  Who works on the queue is at some point of one of his programs,  *)
(* and a task is only found in the channel and the slice of its own key.    *)

Nothing == Copy(NoTask, "expired")
CopiesOf(k) == {c \in Copies : KeyOf[c.task] = k}

PollerPrograms ==
  {<<>>, <<"store", "send", "persist">>, <<"send", "persist">>, <<"sendFirst", "persist">>,
   <<"persist">>}
LoaderPrograms == PollerPrograms \union {<<"store", "persist">>}
CleanerPrograms == {<<>>, <<"persist", "delete">>, <<"delete">>}
ConfirmPrograms == {<<"store", "persist", "resend">>, <<"persist", "resend">>, <<"resend">>}
CompletePrograms == {<<"store", "persist", "delete">>, <<"persist", "delete">>, <<"delete">>}
Programs == LoaderPrograms \union CleanerPrograms \union ConfirmPrograms \union CompletePrograms

ClientsOK ==
  /\ hand \in [Clients -> Copies \union {Nothing}] /\ todo \in [Clients -> Programs]
  /\ \A p \in Clients : IF todo[p] = <<>> THEN hand[p] = Nothing ELSE hand[p] \in Copies
  /\ /\ todo["poller"] \in PollerPrograms
     /\ todo["poller"] # <<>> => hand["poller"].status = Asked[Held("poller")]
  /\ /\ todo["loader"] \in LoaderPrograms
     /\ todo["loader"] = <<"store", "persist">> => hand["loader"].status # "pending"
     /\ todo["loader"] # <<>> =>
          hand["loader"].status \in {"pending", "pending_confirmation"}
  /\ todo["cleaner"] \in CleanerPrograms /\ hand["cleaner"].status = "expired"
  /\ \/ todo["caller"] = <<>>
     \/ todo["caller"] \in ConfirmPrograms /\ hand["caller"].status = "pending"
     \/ todo["caller"] \in CompletePrograms /\ hand["caller"].status = "completed"

QueuesOK ==
  /\ channel \in [Keys -> Seq(Copies)] /\ pending \in [Keys -> Seq(Copies)]
  /\ \A k \in Keys : channel[k] \in Seq(CopiesOf(k)) /\ pending[k] \in Seq(CopiesOf(k))

RestOK ==
  /\ taken \union again \union unheard \subseteq Tasks
  /\ days \in Nat /\ up \in BOOLEAN
  /\ toLoad \subseteq [task : Tasks, status : {"pending", "pending_confirmation"}]

Types == TypeOK /\ ClientsOK /\ QueuesOK /\ RestOK

-----------------------------------------------------------------------------
(* Lemmas about programs *)

LEMMA OneStep ==
  ASSUME NEW a
  PROVE  /\ <<a>> # <<>> /\ Head(<<a>>) = a /\ Tail(<<a>>) = <<>> /\ Len(<<a>>) = 1
         /\ Range(<<a>>) = {a}
BY DEF Range

LEMMA TwoSteps ==
  ASSUME NEW a, NEW b
  PROVE  /\ <<a, b>> # <<>> /\ Head(<<a, b>>) = a /\ Tail(<<a, b>>) = <<b>> /\ Len(<<a, b>>) = 2
         /\ Range(<<a, b>>) = {a, b}
<1>1. DOMAIN <<a, b>> = {1, 2}
  OBVIOUS
<1>2. Range(<<a, b>>) = {a, b}
  BY <1>1 DEF Range
<1> QED BY <1>2

LEMMA ThreeSteps ==
  ASSUME NEW a, NEW b, NEW c
  PROVE  /\ <<a, b, c>> # <<>> /\ Head(<<a, b, c>>) = a /\ Tail(<<a, b, c>>) = <<b, c>>
         /\ Len(<<a, b, c>>) = 3 /\ Range(<<a, b, c>>) = {a, b, c}
<1>1. DOMAIN <<a, b, c>> = {1, 2, 3}
  OBVIOUS
<1>2. Range(<<a, b, c>>) = {a, b, c}
  BY <1>1 DEF Range
<1> QED BY <1>2

LEMMA NoSteps == Range(<<>>) = {}
BY DEF Range

\* Where a program is at a step, and what is left of it afterwards.
LEMMA ProgramSteps ==
  ASSUME NEW x \in Programs, x # <<>>
  PROVE  /\ Head(x) = "store" =>
              \/ x = <<"store", "send", "persist">> /\ Tail(x) = <<"send", "persist">>
              \/ x = <<"store", "persist">> /\ Tail(x) = <<"persist">>
              \/ x = <<"store", "persist", "resend">> /\ Tail(x) = <<"persist", "resend">>
              \/ x = <<"store", "persist", "delete">> /\ Tail(x) = <<"persist", "delete">>
         /\ Head(x) \in {"send", "sendFirst"} =>
              x \in {<<"send", "persist">>, <<"sendFirst", "persist">>} /\ Tail(x) = <<"persist">>
         /\ Head(x) = "resend" => x = <<"resend">> /\ Tail(x) = <<>>
         /\ Head(x) = "delete" => x = <<"delete">> /\ Tail(x) = <<>>
         /\ Head(x) = "persist" =>
              \/ x = <<"persist">> /\ Tail(x) = <<>>
              \/ x = <<"persist", "resend">> /\ Tail(x) = <<"resend">>
              \/ x = <<"persist", "delete">> /\ Tail(x) = <<"delete">>
         /\ Head(x) \in {"store", "send", "sendFirst", "resend", "delete", "persist"}
         /\ Len(x) = 1 <=> Tail(x) = <<>>
<1> USE DEF Programs, LoaderPrograms, PollerPrograms, CleanerPrograms, ConfirmPrograms,
            CompletePrograms
<1>1. CASE x = <<"persist">>
  BY <1>1, OneStep
<1>2. CASE x = <<"delete">>
  BY <1>2, OneStep
<1>3. CASE x = <<"resend">>
  BY <1>3, OneStep
<1>4. CASE x = <<"send", "persist">>
  BY <1>4, TwoSteps
<1>5. CASE x = <<"sendFirst", "persist">>
  BY <1>5, TwoSteps
<1>6. CASE x = <<"store", "persist">>
  BY <1>6, TwoSteps
<1>7. CASE x = <<"persist", "delete">>
  BY <1>7, TwoSteps
<1>8. CASE x = <<"persist", "resend">>
  BY <1>8, TwoSteps
<1>9. CASE x = <<"store", "send", "persist">>
  BY <1>9, ThreeSteps
<1>10. CASE x = <<"store", "persist", "resend">>
  BY <1>10, ThreeSteps
<1>11. CASE x = <<"store", "persist", "delete">>
  BY <1>11, ThreeSteps
<1> QED BY <1>1, <1>2, <1>3, <1>4, <1>5, <1>6, <1>7, <1>8, <1>9, <1>10, <1>11

LEMMA ProgramRange ==
  /\ Range(<<"store", "send", "persist">>) = {"store", "send", "persist"}
  /\ Range(<<"store", "persist", "resend">>) = {"store", "persist", "resend"}
  /\ Range(<<"store", "persist", "delete">>) = {"store", "persist", "delete"}
  /\ Range(<<"send", "persist">>) = {"send", "persist"}
  /\ Range(<<"sendFirst", "persist">>) = {"sendFirst", "persist"}
  /\ Range(<<"store", "persist">>) = {"store", "persist"}
  /\ Range(<<"persist", "resend">>) = {"persist", "resend"}
  /\ Range(<<"persist", "delete">>) = {"persist", "delete"}
  /\ Range(<<"persist">>) = {"persist"} /\ Range(<<"delete">>) = {"delete"}
  /\ Range(<<"resend">>) = {"resend"} /\ Range(<<>>) = {}
<1>1. /\ Range(<<"store", "send", "persist">>) = {"store", "send", "persist"}
      /\ Range(<<"store", "persist", "resend">>) = {"store", "persist", "resend"}
      /\ Range(<<"store", "persist", "delete">>) = {"store", "persist", "delete"}
  BY ThreeSteps
<1>2. /\ Range(<<"send", "persist">>) = {"send", "persist"}
      /\ Range(<<"sendFirst", "persist">>) = {"sendFirst", "persist"}
      /\ Range(<<"store", "persist">>) = {"store", "persist"}
      /\ Range(<<"persist", "delete">>) = {"persist", "delete"}
      /\ Range(<<"persist", "resend">>) = {"persist", "resend"}
  BY TwoSteps
<1>3. /\ Range(<<"persist">>) = {"persist"}
      /\ Range(<<"delete">>) = {"delete"}
      /\ Range(<<"resend">>) = {"resend"}
  BY OneStep
<1> QED BY <1>1, <1>2, <1>3, NoSteps

-----------------------------------------------------------------------------

LEMMA InitTypes == Init => Types
<1> SUFFICES ASSUME Init PROVE Types
  OBVIOUS
<1>1. ClientsOK
  BY DEF Init, EmptyMemory, ClientsOK, PollerPrograms, LoaderPrograms, CleanerPrograms,
         Programs, Clients, Nothing, Copy, Held
<1>2. QueuesOK
  BY DEF Init, EmptyMemory, QueuesOK
<1>3. RestOK
  BY DEF Init, EmptyMemory, RestOK
<1>4. TypeOK
  <2>1. torn \in BOOLEAN /\ unsaved \subseteq Tasks /\ unread \in BOOLEAN
    BY Zenon DEF Init
  <2>2. \A k \in Keys : channel[k] \in Seq(Copies) /\ pending[k] \in Seq(Copies)
                        /\ Len(channel[k]) <= KeyCapacity /\ phase[k] = "none"
    BY CapacityAssumption DEF Init, EmptyMemory
  <2>3. ready \in Seq(Tasks) /\ Len(ready) <= TaskCapacity
    BY CapacityAssumption DEF Init, EmptyMemory
  <2> QED BY <2>1, <2>2, <2>3, BoundAssumption DEF Init, EmptyMemory, TypeOK, Clients
<1> QED BY <1>1, <1>2, <1>3, <1>4 DEF Types

\* A program that goes on to its next step.
LEMMA DoneClients ==
  ASSUME ClientsOK, NEW p \in Clients, todo[p] # <<>>, Head(todo[p]) # "store", Done(p)
  PROVE  ClientsOK'
<1>1. todo[p] \in Programs
  BY DEF ClientsOK
<1>2. PICK x : x = Tail(todo[p])
  OBVIOUS
<1>3. PICK y : y = IF Len(todo[p]) = 1 THEN Nothing ELSE hand[p]
  OBVIOUS
<1>4. todo' = [todo EXCEPT ![p] = x] /\ hand' = [hand EXCEPT ![p] = y]
  BY <1>2, <1>3 DEF Done, Nothing, ClientsOK
<1>5. \/ todo[p] \in {<<"send", "persist">>, <<"sendFirst", "persist">>} /\ x = <<"persist">>
         /\ y = hand[p]
      \/ todo[p] = <<"persist", "resend">> /\ x = <<"resend">> /\ y = hand[p]
      \/ todo[p] = <<"persist", "delete">> /\ x = <<"delete">> /\ y = hand[p]
      \/ todo[p] \in {<<"persist">>, <<"resend">>, <<"delete">>} /\ x = <<>> /\ y = Nothing
  <2>1. /\ <<"persist">> # <<>> /\ <<"resend">> # <<>> /\ <<"delete">> # <<>>
        /\ Len(todo[p]) = 1 <=> x = <<>>
    BY <1>1, <1>2, OneStep, ProgramSteps
  <2>2. CASE Head(todo[p]) \in {"send", "sendFirst"}
    BY <1>1, <1>2, <1>3, <2>1, <2>2, ProgramSteps
  <2>3. CASE Head(todo[p]) \in {"resend", "delete"}
    BY <1>1, <1>2, <1>3, <2>1, <2>3, ProgramSteps
  <2>4. CASE Head(todo[p]) = "persist"
    BY <1>1, <1>2, <1>3, <2>1, <2>4, ProgramSteps
  <2> QED BY <1>1, <2>2, <2>3, <2>4, ProgramSteps
<1> USE DEF PollerPrograms, LoaderPrograms, CleanerPrograms, ConfirmPrograms, CompletePrograms
<1>6. x \in Programs /\ y \in Copies \union {Nothing}
      /\ IF x = <<>> THEN y = Nothing ELSE y \in Copies
  <2>1. y = hand[p] => y \in Copies
    BY DEF ClientsOK
  <2>2. <<"persist">> # <<>> /\ <<"resend">> # <<>> /\ <<"delete">> # <<>>
    BY OneStep
  <2>3. x \in {<<"persist">>, <<"resend">>, <<"delete">>, <<>>} => x \in Programs
    BY DEF Programs
  <2> QED BY <1>5, <2>1, <2>2, <2>3
<1>7. hand' \in [Clients -> Copies \union {Nothing}] /\ todo' \in [Clients -> Programs]
      /\ \A q \in Clients : IF todo'[q] = <<>> THEN hand'[q] = Nothing ELSE hand'[q] \in Copies
  BY <1>4, <1>6 DEF ClientsOK
<1>8. CASE p = "poller"
  <2>1. x \in {<<>>, <<"persist">>} /\ (x # <<>> => y = hand[p])
    BY <1>5, <1>8 DEF ClientsOK
  <2> QED BY <1>4, <1>7, <1>8, <2>1 DEF ClientsOK, Held, Clients
<1>9. CASE p = "loader"
  <2>0. /\ todo[p] \notin {<<"persist", "resend">>, <<"persist", "delete">>}
        /\ todo[p] \notin {<<"resend">>, <<"delete">>}
    <3>1. Range(todo[p]) \subseteq {"store", "send", "sendFirst", "persist"}
      BY <1>9, ProgramRange DEF ClientsOK
    <3> QED BY <3>1, ProgramRange
  <2>1. x \in {<<>>, <<"persist">>} /\ (x # <<>> => y = hand[p])
    BY <1>5, <2>0
  <2> QED BY <1>4, <1>7, <1>9, <2>1 DEF ClientsOK, Held, Clients
<1>10. CASE p = "cleaner"
  <2>1. x \in {<<>>, <<"delete">>} /\ y.status = "expired"
    BY <1>5, <1>10 DEF ClientsOK, Nothing, Copy
  <2> QED BY <1>4, <1>7, <1>10, <2>1 DEF ClientsOK, Held, Clients
<1>11. CASE p = "caller"
  <2>1. \/ x = <<>>
        \/ x \in ConfirmPrograms /\ y.status = "pending"
        \/ x \in CompletePrograms /\ y.status = "completed"
    BY <1>5, <1>11 DEF ClientsOK
  <2> QED BY <1>4, <1>7, <1>11, <2>1 DEF ClientsOK, Held, Clients
<1> QED BY <1>8, <1>9, <1>10, <1>11 DEF Clients

\* ... and one that stores its task in the map.
LEMMA StoreClients ==
  ASSUME ClientsOK, NEW p \in Clients, Store(p)
  PROVE  ClientsOK'
<1>1. /\ todo[p] # <<>> /\ Head(todo[p]) = "store" /\ todo[p] \in Programs /\ hand' = hand
  BY DEF Store, AtStep, ClientsOK
<1>2. PICK x : x = IF "send" \in Range(todo[p]) /\ HandKey(p) \notin made
                   THEN <<"sendFirst", "persist">> ELSE Tail(todo[p])
  OBVIOUS
<1>3. todo' = [todo EXCEPT ![p] = x]
  BY <1>2 DEF Store
<1>4. \/ todo[p] = <<"store", "send", "persist">>
         /\ x \in {<<"send", "persist">>, <<"sendFirst", "persist">>}
      \/ todo[p] = <<"store", "persist">> /\ x = <<"persist">>
      \/ todo[p] = <<"store", "persist", "resend">> /\ x = <<"persist", "resend">>
      \/ todo[p] = <<"store", "persist", "delete">> /\ x = <<"persist", "delete">>
  <2>1. CASE todo[p] = <<"store", "send", "persist">>
    BY <1>2, <2>1, ThreeSteps
  <2>2. CASE todo[p] = <<"store", "persist">>
    BY <1>2, <2>2, TwoSteps, ProgramRange
  <2>3. CASE todo[p] = <<"store", "persist", "resend">>
    BY <1>2, <2>3, ThreeSteps, ProgramRange
  <2>4. CASE todo[p] = <<"store", "persist", "delete">>
    BY <1>2, <2>4, ThreeSteps, ProgramRange
  <2> QED BY <1>1, <2>1, <2>2, <2>3, <2>4, ProgramSteps
<1> USE DEF PollerPrograms, LoaderPrograms, CleanerPrograms, ConfirmPrograms, CompletePrograms
<1>5. x # <<>> /\ x \in Programs
  <2>1. <<"persist">> # <<>>
    BY OneStep
  <2> QED BY <1>4, <2>1, TwoSteps DEF Programs
<1>6. todo' \in [Clients -> Programs]
      /\ \A q \in Clients : IF todo'[q] = <<>> THEN hand'[q] = Nothing ELSE hand'[q] \in Copies
  BY <1>1, <1>3, <1>5 DEF ClientsOK
<1>7. CASE p \in {"poller", "loader"}
  <2>1. todo[p] \notin {<<"store", "persist", "resend">>, <<"store", "persist", "delete">>}
    <3>1. Range(todo[p]) \subseteq {"store", "send", "sendFirst", "persist"}
      BY <1>7, ProgramRange DEF ClientsOK
    <3> QED BY <3>1, ProgramRange
  <2>2. x \in {<<"send", "persist">>, <<"sendFirst", "persist">>, <<"persist">>}
    BY <1>4, <2>1
  <2>3. x # <<"store", "persist">>
    BY <2>2, OneStep, TwoSteps
  <2>4. x \in PollerPrograms /\ x \in LoaderPrograms
    BY <2>2
  <2> QED BY <1>1, <1>3, <1>6, <1>7, <2>3, <2>4 DEF ClientsOK, Held, Clients
<1>8. CASE p = "cleaner"
  <2>1. "store" \notin Range(todo[p])
    BY <1>8, ProgramRange DEF ClientsOK
  <2> QED BY <1>4, <2>1, ProgramRange
<1>9. CASE p = "caller"
  <2>1. "send" \notin Range(todo[p]) /\ todo[p] # <<"store", "persist">>
    <3>1. CASE todo[p] \in ConfirmPrograms
      BY <3>1, ProgramRange
    <3>2. CASE todo[p] \in CompletePrograms
      BY <3>2, ProgramRange
    <3> QED BY <1>1, <1>9, <3>1, <3>2 DEF ClientsOK
  <2>2. \/ x \in ConfirmPrograms /\ hand[p].status = "pending"
        \/ x \in CompletePrograms /\ hand[p].status = "completed"
    <3>1. todo[p] \in {<<"store", "persist", "resend">>, <<"store", "persist", "delete">>}
      BY <1>4, <2>1, ProgramRange
    <3>2. CASE todo[p] = <<"store", "persist", "resend">>
      <4>1. "resend" \in Range(todo[p])
        BY <3>2, ProgramRange
      <4>2. todo[p] \notin CompletePrograms
        BY <4>1, ProgramRange
      <4>3. x = <<"persist", "resend">>
        BY <1>2, <1>1, <2>1, <3>2, ThreeSteps
      <4> QED BY <1>1, <1>9, <4>2, <4>3 DEF ClientsOK
    <3>3. CASE todo[p] = <<"store", "persist", "delete">>
      <4>1. "delete" \in Range(todo[p])
        BY <3>3, ProgramRange
      <4>2. todo[p] \notin ConfirmPrograms
        BY <4>1, ProgramRange
      <4>3. x = <<"persist", "delete">>
        BY <1>2, <1>1, <2>1, <3>3, ThreeSteps
      <4> QED BY <1>1, <1>9, <4>2, <4>3 DEF ClientsOK
    <3> QED BY <3>1, <3>2, <3>3
  <2> QED BY <1>1, <1>3, <1>6, <1>9, <2>2 DEF ClientsOK, Held, Clients
<1> QED BY <1>7, <1>8, <1>9 DEF Clients

\* Who takes a program on.
LEMMA DoesClients ==
  ASSUME ClientsOK, NEW p \in Clients, NEW t \in Tasks, NEW s \in Statuses,
         NEW x \in Programs, x # <<>>, Does(p, t, s, x),
         p = "poller" => x \in PollerPrograms /\ s = Asked[t],
         p = "loader" => /\ x \in LoaderPrograms /\ s \in {"pending", "pending_confirmation"}
                         /\ x = <<"store", "persist">> => s # "pending",
         p = "cleaner" => x \in CleanerPrograms /\ s = "expired",
         p = "caller" => \/ x \in ConfirmPrograms /\ s = "pending"
                         \/ x \in CompletePrograms /\ s = "completed"
  PROVE  ClientsOK'
<1>1. PICK c \in Copies : c = [task |-> t, status |-> s]
  BY DEF Copies
<1>2. /\ hand' = [hand EXCEPT ![p] = c] /\ todo' = [todo EXCEPT ![p] = x]
      /\ c.status = s /\ c.task = t
  BY <1>1 DEF Does, Copy
<1>3. /\ hand' \in [Clients -> Copies \union {Nothing}] /\ todo' \in [Clients -> Programs]
      /\ \A q \in Clients : IF todo'[q] = <<>> THEN hand'[q] = Nothing ELSE hand'[q] \in Copies
  BY <1>2 DEF ClientsOK
<1> QED BY <1>2, <1>3 DEF ClientsOK, Held, Clients

LEMMA HandType ==
  ASSUME ClientsOK, NEW p \in Clients, todo[p] # <<>>
  PROVE  /\ Held(p) \in Tasks /\ hand[p].status \in Statuses /\ hand[p] \in Copies
         /\ HandKey(p) \in Keys /\ hand[p] \in CopiesOf(HandKey(p))
BY TaskAssumption DEF ClientsOK, Copies, Held, HandKey, CopiesOf

\* A queue of a key only changes to one of the same key.
QueueOK(q) == q \in [Keys -> Seq(Copies)] /\ \A k \in Keys : q[k] \in Seq(CopiesOf(k))

LEMMA QueueStep ==
  ASSUME NEW q, QueueOK(q), NEW k \in Keys, NEW s \in Seq(CopiesOf(k))
  PROVE  QueueOK([q EXCEPT ![k] = s])
<1>1. s \in Seq(Copies)
  BY DEF CopiesOf
<1> QED BY <1>1 DEF QueueOK

LEMMA QueuesAreOK == QueuesOK <=> QueueOK(channel) /\ QueueOK(pending)
BY DEF QueuesOK, QueueOK

\* The head of a queue and what is left without it.
LEMMA QueueHead ==
  ASSUME NEW q, QueueOK(q), NEW k \in Keys, q[k] # <<>>
  PROVE  /\ Head(q[k]) \in CopiesOf(k) /\ Tail(q[k]) \in Seq(CopiesOf(k))
         /\ Head(q[k]) \in Copies /\ Head(q[k]).task \in Tasks
         /\ Len(Tail(q[k])) = Len(q[k]) - 1 /\ Len(q[k]) \in Nat \ {0}
         /\ Len(q[k]) # 1 => Tail(q[k]) # <<>>
<1>1. PICK s \in Seq(CopiesOf(k)) : s = q[k]
  BY DEF QueueOK
<1>2. Head(s) \in CopiesOf(k) /\ Tail(s) \in Seq(CopiesOf(k)) /\ Len(Tail(s)) = Len(s) - 1
      /\ Len(s) \in Nat \ {0}
  BY <1>1
<1>3. Len(s) # 1 => Tail(s) # <<>>
  <2>1. PICK n \in Nat : n = Len(s)
    BY <1>2
  <2>2. PICK r : r = Tail(s)
    OBVIOUS
  <2>3. r = <<>> => Len(r) = 0
    OBVIOUS
  <2>4. Len(r) = Len(s) - 1
    BY <1>2, <2>2
  <2>5. r = <<>> => n - 1 = 0
    BY <2>1, <2>3, <2>4
  <2> QED BY <2>1, <2>2, <2>5
<1> QED BY <1>1, <1>2, <1>3 DEF CopiesOf, Copies

LEMMA ReorderType ==
  ASSUME NEW S, NEW s \in Seq(S), NEW f \in Bijection(DOMAIN s, DOMAIN s)
  PROVE  /\ Reorder(s, f) \in Seq(S) /\ DOMAIN Reorder(s, f) = DOMAIN s
         /\ Len(Reorder(s, f)) = Len(s)
<1>1. f \in [1..Len(s) -> 1..Len(s)]
  BY DEF Bijection, Injection
<1>2. Reorder(s, f) \in [1..Len(s) -> S]
  BY <1>1 DEF Reorder
<1> QED BY <1>2

-----------------------------------------------------------------------------

\* What a client's program and the queues have besides is left to TypeOK.
LEMMA ClientTypes ==
  ASSUME Types, NEW p \in Clients, Step(p) PROVE Types'
<1>0. todo[p] # <<>>
  BY DEF Step, Store, Send, Resend, Persist, Delete, AtStep
<1>1. /\ Held(p) \in Tasks /\ hand[p].status \in Statuses /\ hand[p] \in Copies
      /\ HandKey(p) \in Keys /\ hand[p] \in CopiesOf(HandKey(p))
  BY <1>0, HandType DEF Types
<1>2. ClientsOK'
  BY <1>0, StoreClients, DoneClients
     DEF Types, Step, Store, Send, Resend, Persist, Delete, AtStep
<1>3. UNCHANGED <<unread, inbox, offered, up, days, mishaps, cur, ready, taken>>
  BY DEF Step, Store, Send, Resend, Persist, Delete, disk, process, history, pipe
<1>7. torn' \in BOOLEAN /\ unsaved' \subseteq Tasks /\ unread' \in BOOLEAN
  <2>1. torn' = torn \/ torn' = TRUE
    BY DEF Step, Store, Send, Resend, Persist, PersistFails, Delete, disk
  <2>2. unsaved' \subseteq unsaved \union {Held(p)}
    BY DEF Step, Store, Send, Resend, Persist, PersistFails, Delete, disk
  <2>3. torn' \in BOOLEAN /\ unread' \in BOOLEAN
    BY <1>3, <2>1, Zenon DEF Types, TypeOK
  <2> QED BY <1>1, <2>2, <2>3 DEF Types, TypeOK
<1>4. CASE Store(p)
  <2>1. made' \subseteq Keys /\ known' \in [Tasks -> Statuses \union {"none"}]
        /\ UNCHANGED <<channel, phase, pending, file, again, unheard>>
    BY <1>1, <1>4 DEF Store, Types, TypeOK, disk, history
  <2>2. TypeOK'
    BY <1>2, <1>3, <1>7, <2>1 DEF Types, TypeOK, ClientsOK, inbox
  <2> QED BY <1>2, <1>3, <2>1, <2>2 DEF Types, QueuesOK, RestOK, inbox
<1>5. CASE Persist(p) \/ Delete(p)
  <2>1. /\ file' \in [Tasks -> Statuses \union {"none"}]
        /\ known' \in [Tasks -> Statuses \union {"none"}]
        /\ again' \subseteq Tasks
        /\ UNCHANGED <<channel, phase, pending, made, unheard>>
    BY <1>1, <1>5 DEF Persist, PersistFails, Delete, Types, TypeOK, RestOK, pipe, disk, history
  <2>2. TypeOK'
    BY <1>2, <1>3, <1>7, <2>1 DEF Types, TypeOK, ClientsOK, inbox
  <2> QED BY <1>2, <1>3, <2>1, <2>2 DEF Types, QueuesOK, RestOK, inbox
<1>6. CASE Send(p) \/ Resend(p)
  <2>1. /\ UNCHANGED <<known, made, pending, file, again>>
        /\ unheard' \subseteq Tasks
        /\ phase' \in [Keys -> {"none", "select", "pass"}]
        /\ \A k \in Keys : phase'[k] = "pass" => phase[k] = "pass"
    BY <1>1, <1>6 DEF Send, Resend, Types, TypeOK, RestOK, disk, history
  <2>2. \/ channel' = channel
        \/ /\ Len(channel[HandKey(p)]) < KeyCapacity
           /\ channel' = [channel EXCEPT ![HandKey(p)] = Append(@, hand[p])]
    BY <1>6 DEF Send, Resend
  <2>3. QueueOK(channel') /\ \A k \in Keys : Len(channel'[k]) <= KeyCapacity
    <3>1. CASE channel' = channel
      BY <3>1, QueuesAreOK DEF Types, TypeOK
    <3>2. CASE /\ Len(channel[HandKey(p)]) < KeyCapacity
               /\ channel' = [channel EXCEPT ![HandKey(p)] = Append(@, hand[p])]
      <4>1. PICK s : s = Append(channel[HandKey(p)], hand[p])
        OBVIOUS
      <4>2. s \in Seq(CopiesOf(HandKey(p))) /\ Len(s) <= KeyCapacity
        BY <1>1, <3>2, <4>1, CapacityAssumption DEF Types, QueuesOK
      <4>3. channel' = [channel EXCEPT ![HandKey(p)] = s]
        BY <3>2, <4>1
      <4>4. QueueOK(channel')
        BY <1>1, <4>2, <4>3, QueueStep, QueuesAreOK DEF Types
      <4> QED BY <1>1, <4>2, <4>3, <4>4 DEF Types, TypeOK, QueuesOK
    <3> QED BY <2>2, <3>1, <3>2
  <2>4. QueuesOK'
    BY <2>1, <2>3 DEF Types, QueuesOK, QueueOK
  <2>5. TypeOK'
    BY <1>2, <1>3, <1>7, <2>1, <2>3, <2>4 DEF Types, TypeOK, ClientsOK, QueuesOK, inbox
  <2> QED BY <1>2, <1>3, <2>1, <2>4, <2>5 DEF Types, RestOK, inbox
<1> QED BY <1>4, <1>5, <1>6 DEF Step

LEMMA NewTypes ==
  ASSUME Types,
         \/ Fetch \/ (\E t \in Tasks : Poll(t)) \/ (\E c \in toLoad : Load(c)) \/ Call
         \/ (\E t \in Tasks : Expire(t))
  PROVE  Types'
<1>1. /\ UNCHANGED <<offered, known, pipe, disk, cur, up, days, taken, unheard>>
      /\ fetched' \subseteq offered \union fetched /\ toLoad' \subseteq toLoad
      /\ mishaps' \in {mishaps, mishaps + 1} /\ mishaps' <= MaxMishaps
  BY BoundAssumption DEF Fetch, Poll, Load, Call, Expire, Mishap, inbox, process, history, Types, TypeOK
<1>2. again' \subseteq Tasks
  BY DEF Fetch, Poll, Load, Call, Expire, history, Types, TypeOK, RestOK, Copies
<1> USE DEF PollerPrograms, LoaderPrograms, CleanerPrograms, ConfirmPrograms, CompletePrograms,
            Programs, Statuses
<1>3. ClientsOK'
  <2>1. CASE UNCHANGED clients
    BY <2>1 DEF clients, Types, ClientsOK, Held
  <2>2. ASSUME NEW t \in Tasks, Does("poller", t, Asked[t], EnqueueSteps) PROVE ClientsOK'
    <3>1. Asked[t] \in Statuses
      BY TaskAssumption
    <3>2. EnqueueSteps \in PollerPrograms /\ EnqueueSteps \in Programs /\ EnqueueSteps # <<>>
      BY ThreeSteps DEF EnqueueSteps
    <3> QED BY <2>2, <3>1, <3>2, DoesClients DEF Types, Clients
  <2>3. ASSUME NEW c \in toLoad, Load(c) PROVE ClientsOK'
    <3>1. CASE UNCHANGED clients
      BY <2>1, <3>1
    <3>2. PICK x : x = IF c.status = "pending" THEN EnqueueSteps ELSE <<"store", "persist">>
      OBVIOUS
    <3>3. x \in LoaderPrograms /\ x \in Programs /\ x # <<>>
          /\ (x = <<"store", "persist">> => c.status # "pending")
      <4>1. EnqueueSteps # <<"store", "persist">>
        BY TwoSteps, ThreeSteps DEF EnqueueSteps
      <4> QED BY <3>2, <4>1, TwoSteps, ThreeSteps DEF EnqueueSteps
    <3>4. c.task \in Tasks /\ c.status \in {"pending", "pending_confirmation"}
      BY DEF Types, RestOK
    <3>5. CASE Does("loader", c.task, c.status, x)
      BY <3>3, <3>4, <3>5, DoesClients DEF Types, Clients
    <3> QED BY <2>3, <3>1, <3>2, <3>5 DEF Load
  <2>4. ASSUME Call PROVE ClientsOK'
    <3>1. <<"store", "persist", "resend">> # <<>> /\ <<"store", "persist", "delete">> # <<>>
      BY ThreeSteps
    <3> QED BY <2>4, <3>1, DoesClients DEF Types, Call, Clients
  <2>5. ASSUME NEW t \in Tasks, Expire(t) PROVE ClientsOK'
    <3>1. <<"persist", "delete">> # <<>>
      BY TwoSteps
    <3> QED BY <2>5, <3>1, DoesClients DEF Types, Expire, Clients
  <2> QED BY <2>1, <2>2, <2>3, <2>4, <2>5 DEF Fetch, Poll
<1>4. TypeOK'
  BY <1>1, <1>3 DEF Types, TypeOK, ClientsOK, pipe, disk
<1> QED BY <1>1, <1>2, <1>3, <1>4 DEF Types, QueuesOK, RestOK, pipe

LEMMA KeyTypes ==
  ASSUME Types, NEW k \in Keys, ProcessKey(k) PROVE Types'
<1>1. UNCHANGED <<offered, inbox, clients, known, made, disk, cur, process, history>>
  BY DEF ProcessKey, Receive, Tick, Pass
<1>2. QueueOK(channel) /\ QueueOK(pending)
  BY QueuesAreOK DEF Types
<1>3. ASSUME NEW q, NEW j \in Keys, QueueOK(q) PROVE q[j] \in Seq(Copies)
  BY <1>3 DEF QueueOK
<1>4. CASE Receive(k)
  <2>1. PICK s : s = Append(pending[k], Head(channel[k]))
    OBVIOUS
  <2>2. channel[k] # <<>> /\ channel' = [channel EXCEPT ![k] = Tail(channel[k])]
        /\ pending' = [pending EXCEPT ![k] = s] /\ UNCHANGED <<ready, phase>>
    BY <1>4, <2>1 DEF Receive
  <2>3. /\ Tail(channel[k]) \in Seq(CopiesOf(k)) /\ s \in Seq(CopiesOf(k)) /\ s # <<>>
        /\ Len(Tail(channel[k])) <= Len(channel[k])
    <3>1. /\ Head(channel[k]) \in CopiesOf(k) /\ Tail(channel[k]) \in Seq(CopiesOf(k))
          /\ Len(Tail(channel[k])) = Len(channel[k]) - 1 /\ Len(channel[k]) \in Nat \ {0}
      BY <1>2, <2>2, QueueHead
    <3>2. pending[k] \in Seq(CopiesOf(k))
      BY <1>2 DEF QueueOK
    <3> QED BY <2>1, <3>1, <3>2
  <2>4. QueueOK(channel') /\ QueueOK(pending')
    BY <1>2, <2>2, <2>3, QueueStep
  <2>5. /\ \A j \in Keys : channel'[j] = (IF j = k THEN Tail(channel[k]) ELSE channel[j])
        /\ \A j \in Keys : pending'[j] = (IF j = k THEN s ELSE pending[j])
    BY <1>2, <2>2 DEF QueueOK
  <2>6. \A j \in Keys : Len(channel'[j]) <= KeyCapacity /\ (phase'[j] = "pass" => pending'[j] # <<>>)
    <3> TAKE j \in Keys
    <3>1. Len(channel[k]) <= KeyCapacity /\ Len(channel[j]) <= KeyCapacity
          /\ (phase[j] = "pass" => pending[j] # <<>>)
      BY DEF Types, TypeOK
    <3> QED BY <1>2, <2>2, <2>3, <2>5, <3>1, QueueHead, CapacityAssumption
  <2>7. TypeOK'
    BY <1>1, <1>3, <2>2, <2>4, <2>6 DEF Types, TypeOK, inbox, clients, disk, process
  <2> QED BY <1>1, <2>4, <2>7, QueuesAreOK DEF Types, QueuesOK, QueueOK, RestOK, ClientsOK, Held,
             inbox, clients, process, history
<1>5. CASE Tick(k)
  <2>1. PICK f \in Bijection(DOMAIN pending[k], DOMAIN pending[k]) :
          pending' = [pending EXCEPT ![k] = Reorder(@, f)]
    BY <1>5 DEF Tick
  <2>2. PICK s : s = Reorder(pending[k], f)
    OBVIOUS
  <2>3. pending' = [pending EXCEPT ![k] = s] /\ pending[k] # <<>>
        /\ phase' = [phase EXCEPT ![k] = "pass"] /\ UNCHANGED <<channel, ready>>
    BY <1>5, <2>1, <2>2 DEF Tick
  <2>4. s \in Seq(CopiesOf(k)) /\ s # <<>>
    <3>1. pending[k] \in Seq(CopiesOf(k))
      BY <1>2 DEF QueueOK
    <3>2. s \in Seq(CopiesOf(k)) /\ Len(s) = Len(pending[k])
      BY <2>2, <3>1, ReorderType
    <3> QED BY <2>3, <3>1, <3>2
  <2>5. QueueOK(pending')
    BY <1>2, <2>3, <2>4, QueueStep
  <2>6. \A j \in Keys : phase'[j] = "pass" => pending'[j] # <<>>
    BY <1>2, <2>3, <2>4 DEF Types, TypeOK, QueueOK
  <2>7. TypeOK'
    BY <1>1, <1>3, <2>3, <2>5, <2>6 DEF Types, TypeOK, inbox, clients, disk, process
  <2> QED BY <1>1, <2>3, <2>5, <2>7 DEF Types, QueuesOK, QueueOK, RestOK, ClientsOK, Held,
             inbox, clients, process, history
<1>6. CASE Pass(k)
  <2>1. /\ phase[k] = "pass" /\ pending' = [pending EXCEPT ![k] = Tail(pending[k])]
        /\ phase' = [phase EXCEPT ![k] = IF Len(pending[k]) = 1 THEN "select" ELSE "pass"]
        /\ channel' = channel
        /\ \/ ready' = ready
           \/ Len(ready) < TaskCapacity /\ ready' = Append(ready, Head(pending[k]).task)
    BY <1>6 DEF Pass
  <2>2. pending[k] # <<>>
    BY <2>1 DEF Types, TypeOK
  <2>3. /\ Tail(pending[k]) \in Seq(CopiesOf(k)) /\ Head(pending[k]).task \in Tasks
        /\ Len(pending[k]) # 1 => Tail(pending[k]) # <<>>
    BY <1>2, <2>2, QueueHead
  <2>4. QueueOK(pending')
    BY <1>2, <2>1, <2>3, QueueStep
  <2>5. ready' \in Seq(Tasks) /\ Len(ready') <= TaskCapacity
    <3>1. PICK t \in Tasks : t = Head(pending[k]).task
      BY <2>3
    <3>2. CASE ready' = ready
      BY <3>2 DEF Types, TypeOK
    <3>3. CASE Len(ready) < TaskCapacity /\ ready' = Append(ready, t)
      BY <3>1, <3>3, CapacityAssumption DEF Types, TypeOK
    <3> QED BY <2>1, <3>1, <3>2, <3>3
  <2>6. \A j \in Keys : phase'[j] = "pass" => pending'[j] # <<>>
    BY <1>2, <2>1, <2>3 DEF Types, TypeOK, QueueOK
  <2>7. phase' \in [Keys -> {"none", "select", "pass"}]
    BY <2>1 DEF Types, TypeOK
  <2>8. TypeOK'
    BY <1>1, <1>3, <2>1, <2>4, <2>5, <2>6, <2>7 DEF Types, TypeOK, inbox, clients, disk, process
  <2> QED BY <1>1, <2>1, <2>4, <2>8 DEF Types, QueuesOK, QueueOK, RestOK, ClientsOK, Held,
             inbox, clients, process, history
<1> QED BY <1>4, <1>5, <1>6 DEF ProcessKey

LEMMA WorkTypes ==
  ASSUME Types, NEW w \in Workers, Work(w) PROVE Types'
<1>1. UNCHANGED <<inbox, clients, known, channel, made, phase, pending, disk, process, again, unheard>>
  BY DEF Work, Take, Finish, pipe, history
<1>2. /\ ready' \in Seq(Tasks) /\ Len(ready') <= TaskCapacity
      /\ cur' \in [Workers -> Tasks \union {NoTask}] /\ taken' \subseteq Tasks
      /\ offered' \subseteq Tasks
  <2>1. CASE Take(w)
    <3>1. /\ ready # <<>> /\ ready' = Tail(ready) /\ cur' = [cur EXCEPT ![w] = Head(ready)]
          /\ taken' = taken \union {Head(ready)} /\ offered' = offered
      BY <2>1 DEF Take
    <3>2. Head(ready) \in Tasks /\ ready' \in Seq(Tasks) /\ Len(ready') = Len(ready) - 1
          /\ Len(ready) \in Nat /\ Len(ready) <= TaskCapacity
      BY <3>1 DEF Types, TypeOK
    <3> QED BY <3>1, <3>2, CapacityAssumption DEF Types, TypeOK, RestOK
  <2>2. CASE Finish(w)
    BY <2>2 DEF Finish, pipe, history, Types, TypeOK, RestOK
  <2> QED BY <2>1, <2>2 DEF Work
<1>3. TypeOK'
  BY <1>1, <1>2 DEF Types, TypeOK, inbox, clients, disk, process
<1> QED BY <1>1, <1>2, <1>3 DEF Types, QueuesOK, RestOK, ClientsOK, Held, inbox, clients, process

\* A process that ends is as new.
LEMMA CrashTypes ==
  ASSUME Types, Crash PROVE Types'
<1>1. MemoryLost /\ up' = FALSE /\ UNCHANGED <<offered, file, days>>
      /\ mishaps' = mishaps + 1 /\ mishaps < MaxMishaps
  BY DEF Crash, Mishap
<1>2. ClientsOK'
  <2>1. /\ \A p \in Clients : hand'[p] = Nothing /\ todo'[p] = <<>>
        /\ hand' \in [Clients -> Copies \union {Nothing}] /\ todo' \in [Clients -> Programs]
    BY <1>1 DEF MemoryLost, Nothing, Programs, LoaderPrograms, PollerPrograms
  <2>2. <<"store", "persist">> # <<>>
    BY TwoSteps
  <2>3. Nothing.status = "expired"
    BY DEF Nothing, Copy
  <2> QED BY <2>1, <2>2, <2>3 DEF ClientsOK, PollerPrograms, LoaderPrograms, CleanerPrograms, Clients
<1>3. QueuesOK' /\ RestOK'
  <2>1. up' \in BOOLEAN
    BY <1>1, Zenon
  <2>2. QueuesOK'
    BY <1>1 DEF MemoryLost, QueuesOK
  <2>3. /\ taken' \union again' \union unheard' = {} /\ toLoad' = {} /\ days' = days
    BY <1>1 DEF MemoryLost
  <2>4. days' \in Nat
    BY <2>3 DEF Types, RestOK
  <2> QED BY <2>1, <2>2, <2>3, <2>4 DEF RestOK
<1>4. torn' \in BOOLEAN /\ unsaved' = {} /\ unread' \in BOOLEAN
  <2>1. (torn' = torn \/ torn' = TRUE) /\ unsaved' = {} /\ unread' = unread
    BY DEF Crash
  <2> QED BY <2>1, Zenon DEF Types, TypeOK
<1>5. mishaps' \in 0..MaxMishaps
  BY <1>1, BoundAssumption DEF Types, TypeOK
<1>6. \A k \in Keys : channel'[k] \in Seq(Copies) /\ pending'[k] \in Seq(Copies)
                      /\ Len(channel'[k]) <= KeyCapacity /\ phase'[k] = "none"
  BY <1>1, CapacityAssumption DEF MemoryLost
<1>7. ready' \in Seq(Tasks) /\ Len(ready') <= TaskCapacity
  BY <1>1, CapacityAssumption DEF MemoryLost
<1>8. TypeOK'
  BY <1>1, <1>2, <1>4, <1>5, <1>6, <1>7 DEF MemoryLost, Types, TypeOK, ClientsOK
<1> QED BY <1>2, <1>3, <1>8 DEF Types

LEMMA OutsideTypes ==
  ASSUME Types, Restart \/ Midnight \/ GatewayRestarts PROVE Types'
<1>1. UNCHANGED <<fetched, clients, known, pipe, cur, history>>
  BY DEF Restart, Midnight, GatewayRestarts, inbox
<1>2. toLoad' \subseteq [task : Tasks, status : {"pending", "pending_confirmation"}]
  BY DEF Restart, Midnight, GatewayRestarts, inbox, Types, RestOK
<1>3. /\ offered' \subseteq Tasks /\ file' \in [Tasks -> Statuses \union {"none"}]
      /\ mishaps' \in 0..MaxMishaps /\ days' \in Nat
  BY BoundAssumption DEF Restart, Midnight, GatewayRestarts, Mishap, disk, Types, TypeOK, RestOK
<1>4. torn' \in BOOLEAN /\ unsaved' = unsaved /\ unread' \in BOOLEAN /\ up' \in BOOLEAN
  <2>1. /\ (torn' = torn \/ torn' = FALSE) /\ (up' = up \/ up' = TRUE) /\ unsaved' = unsaved
        /\ (unread' = unread \/ unread' = FALSE \/ unread' = TRUE)
    BY DEF Restart, Midnight, GatewayRestarts, disk
  <2> QED BY <2>1, Zenon DEF Types, TypeOK, RestOK
<1>5. toLoad' \subseteq Copies
  BY <1>2 DEF Copies, Statuses
<1>6. TypeOK'
  BY <1>1, <1>3, <1>4, <1>5 DEF Types, TypeOK, clients, pipe
<1> QED BY <1>1, <1>2, <1>3, <1>4, <1>6
        DEF Types, QueuesOK, RestOK, ClientsOK, Held, clients, pipe, history

LEMMA NextTypes == Types /\ [Next]_vars => Types'
<1> SUFFICES ASSUME Types, [Next]_vars PROVE Types'
  OBVIOUS
<1>1. ASSUME UNCHANGED vars PROVE Types'
  <2>1. UNCHANGED <<offered, inbox, clients, known, pipe, cur, disk, process, history>>
    BY <1>1 DEF vars
  <2> QED BY <2>1 DEF Types, TypeOK, QueuesOK, RestOK, ClientsOK, Held, inbox, clients, pipe, disk,
             process, history
<1> QED BY <1>1, ClientTypes, NewTypes, KeyTypes, WorkTypes, CrashTypes, OutsideTypes
        DEF Next, PollGateway, LoadTasks, Clean, Called, Clients

\* Every variable keeps its type for any capacities: a channel never holds more
\* than it can, and a goroutine that passes on has something to pass
\* (queue.go 40-83).
THEOREM TypeCorrect == Spec => []TypeOK
BY InitTypes, NextTypes, PTL DEF Spec, Types

-----------------------------------------------------------------------------
(* What is registered as pending is on disk, or will be: the entry of another *)
(* status is written by a program that removes the task from the map, and a   *)
(* task only waits for a confirmation if it was handed out to do so.          *)

Waits(c) == c.status = "pending_confirmation" => Asked[c.task] = "pending_confirmation"

WaitingIsAsked ==
  /\ \A c \in toLoad : Waits(c)
  /\ \A t \in Tasks : Waits(Copy(t, file[t]))
  /\ \A p \in Clients : todo[p] # <<>> => Waits(hand[p])

Writes(p, t) ==
  /\ Held(p) = t
  /\ \/ "persist" \in Range(todo[p]) /\ hand[p].status = "pending"
     \/ "delete" \in Range(todo[p])

OnDisk ==
  \A t \in Tasks :
    known[t] = "pending" /\ Asked[t] = "pending"
    => file[t] = "pending" \/ t \in unsaved \/ torn \/ days # 0 \/ \E p \in Clients : Writes(p, t)

DiskInv == WaitingIsAsked /\ OnDisk


\* A step of one client leaves the others alone.
LEMMA OtherClients ==
  ASSUME Types, NEW p \in Clients, Step(p)
  PROVE  /\ \A q \in Clients : q # p => hand'[q] = hand[q] /\ todo'[q] = todo[q]
         /\ todo[p] # <<>> /\ todo[p] \in Programs
         /\ todo'[p] # <<>> => hand'[p] = hand[p]
<1>1. todo[p] # <<>> /\ todo[p] \in Programs
  BY DEF Step, Store, Send, Resend, Persist, Delete, AtStep, Types, ClientsOK
<1>2. CASE Store(p)
  BY <1>1, <1>2 DEF Store, Types, ClientsOK
<1>3. CASE Done(p)
  <2>1. todo'[p] = Tail(todo[p]) /\ (Len(todo[p]) = 1 <=> Tail(todo[p]) = <<>>)
    BY <1>1, <1>3, ProgramSteps DEF Done, Types, ClientsOK
  <2> QED BY <1>1, <1>3, <2>1 DEF Done, Types, ClientsOK
<1> QED BY <1>1, <1>2, <1>3 DEF Step, Send, Resend, Persist, Delete

\* What is left of a program after a step.
LEMMA WhatIsLeft ==
  ASSUME Types, NEW p \in Clients, Step(p)
  PROVE  /\ Store(p) => "persist" \in Range(todo'[p])
         /\ Send(p) => "persist" \in Range(todo'[p])
         /\ Resend(p) => "persist" \notin Range(todo[p])
         /\ "delete" \in Range(todo[p]) => "delete" \in Range(todo'[p]) \/ Delete(p)
         /\ Persist(p) => \/ "delete" \in Range(todo'[p]) \/ p \in {"poller", "loader"}
                          \/ hand[p].status = "pending"
<1>1. todo[p] # <<>> /\ todo[p] \in Programs
  BY OtherClients
<1>2. CASE Store(p)
  <2>1. Head(todo[p]) = "store" /\ ~Delete(p) /\ ~Persist(p) /\ ~Send(p) /\ ~Resend(p)
    BY <1>2 DEF Store, Send, Resend, Persist, Delete, AtStep
  <2>2. todo'[p] = <<"sendFirst", "persist">> \/ todo'[p] = Tail(todo[p])
    BY <1>2 DEF Store, Types, ClientsOK
  <2>3. CASE todo[p] \in {<<"store", "send", "persist">>, <<"store", "persist">>,
                          <<"store", "persist", "resend">>}
    <3>1. todo'[p] \in {<<"sendFirst", "persist">>, <<"send", "persist">>, <<"persist">>,
                        <<"persist", "resend">>}
      <4>1. CASE todo[p] = <<"store", "send", "persist">>
        BY <2>2, <4>1, ThreeSteps
      <4>2. CASE todo[p] = <<"store", "persist">>
        BY <2>2, <4>2, TwoSteps
      <4>3. CASE todo[p] = <<"store", "persist", "resend">>
        BY <2>2, <4>3, ThreeSteps
      <4> QED BY <2>3, <4>1, <4>2, <4>3
    <3>2. "persist" \in Range(todo'[p])
      BY <3>1, ProgramRange
    <3>3. "delete" \notin Range(todo[p])
      BY <2>3, ProgramRange
    <3> QED BY <2>1, <3>2, <3>3
  <2>4. CASE todo[p] = <<"store", "persist", "delete">>
    <3>1. "send" \notin Range(todo[p])
      BY <2>4, ProgramRange
    <3>2. todo'[p] = <<"persist", "delete">>
      BY <1>2, <2>4, <3>1, ThreeSteps DEF Store, Types, ClientsOK
    <3> QED BY <2>1, <3>2, ProgramRange
  <2> QED BY <1>1, <2>1, <2>3, <2>4, ProgramSteps
<1>3. ASSUME Done(p) PROVE todo'[p] = Tail(todo[p])
  BY <1>3 DEF Done, Types, ClientsOK
<1>4. CASE Send(p)
  <2>1. Head(todo[p]) \in {"send", "sendFirst"} /\ todo'[p] = Tail(todo[p])
        /\ ~Delete(p) /\ ~Persist(p) /\ ~Store(p) /\ ~Resend(p)
    BY <1>3, <1>4 DEF Store, Send, Resend, Persist, Delete, AtStep
  <2>2. todo'[p] = <<"persist">>
        /\ todo[p] \in {<<"send", "persist">>, <<"sendFirst", "persist">>}
    BY <1>1, <2>1, ProgramSteps
  <2> QED BY <2>1, <2>2, ProgramRange
<1>5. CASE Resend(p)
  <2>1. Head(todo[p]) = "resend" /\ ~Delete(p) /\ ~Persist(p) /\ ~Store(p) /\ ~Send(p)
    BY <1>5 DEF Store, Send, Resend, Persist, Delete, AtStep
  <2>2. todo[p] = <<"resend">>
    BY <1>1, <2>1, ProgramSteps
  <2> QED BY <2>1, <2>2, ProgramRange
<1>6. CASE Persist(p)
  <2>1. Head(todo[p]) = "persist" /\ todo'[p] = Tail(todo[p])
        /\ ~Delete(p) /\ ~Resend(p) /\ ~Store(p) /\ ~Send(p)
    BY <1>3, <1>6 DEF Store, Send, Resend, Persist, Delete, AtStep
  <2>2. CASE todo[p] = <<"persist", "delete">>
    BY <2>1, <2>2, TwoSteps, ProgramRange
  <2>3. CASE todo[p] \in {<<"persist">>, <<"persist", "resend">>}
    <3>1. "delete" \notin Range(todo[p]) /\ "persist" \in Range(todo[p])
      BY <2>3, ProgramRange
    <3>2. ASSUME p = "cleaner" PROVE FALSE
      BY <1>1, <2>1, <3>1, <3>2, ProgramRange DEF Types, ClientsOK, CleanerPrograms
    <3>3. ASSUME todo[p] \in CompletePrograms PROVE FALSE
      BY <3>1, <3>3, ProgramRange DEF CompletePrograms
    <3>4. p = "caller" => hand[p].status = "pending"
      BY <1>1, <3>3 DEF Types, ClientsOK
    <3> QED BY <2>1, <3>1, <3>2, <3>4 DEF Clients
  <2> QED BY <1>1, <2>1, <2>2, <2>3, ProgramSteps
<1>7. CASE Delete(p)
  BY <1>7 DEF Store, Send, Resend, Persist, Delete, AtStep
<1> QED BY <1>2, <1>4, <1>5, <1>6, <1>7 DEF Step

\* An idle client writes nothing.
LEMMA IdleWrites ==
  ASSUME Types, NEW p \in Clients, NEW t \in Tasks, Writes(p, t)
  PROVE  todo[p] # <<>>
BY ProgramRange DEF Writes

\* Enqueue, ConfirmTask and CompleteTask, step by step (queue.go 41-54, 114-133).
LEMMA DiskStep ==
  ASSUME Types, DiskInv, NEW p \in Clients, Step(p)
  PROVE  DiskInv'
<1>1. /\ UNCHANGED <<toLoad, days>> /\ Held(p) \in Tasks /\ todo[p] # <<>>
      /\ hand[p].status \in Statuses
  BY OtherClients, HandType
     DEF Types, Step, Store, Send, Resend, Persist, Delete, disk, process, inbox
<1>4. torn' = torn \/ torn' = TRUE
  BY DEF Step, Store, Send, Resend, Persist, PersistFails, Delete, disk
<1>2. WaitingIsAsked'
  <2>1. \A q \in Clients : todo'[q] # <<>> => hand'[q] = hand[q] /\ todo[q] # <<>>
    BY OtherClients
  <2>2. ASSUME NEW t \in Tasks PROVE Waits(Copy(t, file'[t]))
    <3>1. CASE file'[t] = file[t]
      BY <3>1 DEF DiskInv, WaitingIsAsked
    <3>2. CASE file'[t] # file[t]
      <4>1. Persist(p)
        BY <3>2 DEF Step, Store, Send, Resend, Persist, Delete, disk
      <4>2. t = Held(p) /\ file'[t] = hand[p].status
        BY <3>2, <4>1 DEF Persist, PersistFails, Types, TypeOK
      <4> QED BY <1>1, <4>2 DEF DiskInv, WaitingIsAsked, Waits, Held, Copy
    <3> QED BY <3>1, <3>2
  <2> QED BY <1>1, <2>1, <2>2 DEF DiskInv, WaitingIsAsked, Waits
<1>3. ASSUME NEW t \in Tasks, known'[t] = "pending", Asked[t] = "pending", ~torn, days = 0
      PROVE  file'[t] = "pending" \/ t \in unsaved' \/ \E q \in Clients : Writes(q, t)'
  <2>1. ASSUME NEW q \in Clients, q # p, Writes(q, t) PROVE Writes(q, t)'
    BY <2>1, OtherClients DEF Writes, Held
  <2>2. CASE Held(p) = t
    <3>1. CASE Store(p)
      <4>1. known'[t] = hand[p].status /\ hand' = hand
        BY <2>2, <3>1 DEF Store, Types, TypeOK
      <4>2. Writes(p, t)'
        BY <1>3, <2>2, <3>1, <4>1, WhatIsLeft DEF Writes, Held
      <4> QED BY <4>2
    <3>2. CASE Persist(p)
      <4>1. file'[t] = hand[p].status \/ t \in unsaved'
        BY <1>3, <2>2, <3>2 DEF Persist, PersistFails, Types, TypeOK
      <4>2. CASE "delete" \in Range(todo'[p])
        <5>1. todo'[p] # <<>>
          BY <4>2, ProgramRange
        <5>2. Writes(p, t)'
          BY <2>2, <4>2, <5>1, OtherClients DEF Writes, Held
        <5> QED BY <5>2
      <4>3. CASE p \in {"poller", "loader"}
        <5>1. hand[p].status = "pending"
          BY <1>1, <1>3, <2>2, <4>3 DEF Types, ClientsOK, DiskInv, WaitingIsAsked, Waits, Held
        <5> QED BY <4>1, <5>1
      <4> QED BY <3>2, <4>1, <4>2, <4>3, WhatIsLeft
    <3>3. CASE Delete(p)
      BY <1>3, <2>2, <3>3 DEF Delete, Types, TypeOK
    <3>4. CASE Send(p) \/ Resend(p)
      <4>1. known'[t] = known[t] /\ file'[t] = file[t] /\ unsaved' = unsaved
        BY <3>4 DEF Send, Resend, disk
      <4>2. Writes(p, t) => Writes(p, t)'
        <5>1. ASSUME Writes(p, t) PROVE "persist" \in Range(todo'[p]) \/ "delete" \in Range(todo'[p])
          BY <3>4, <5>1, WhatIsLeft DEF Writes, Delete, Send, Resend, AtStep
        <5>2. ASSUME Writes(p, t) PROVE todo'[p] # <<>>
          BY <5>1, <5>2, ProgramRange
        <5>3. ASSUME Writes(p, t), "delete" \notin Range(todo'[p]) PROVE hand[p].status = "pending"
          BY <3>4, <5>3, WhatIsLeft DEF Writes, Delete, Send, Resend, AtStep
        <5> QED BY <2>2, <5>1, <5>2, <5>3, OtherClients DEF Writes, Held
      <4> QED BY <1>3, <2>1, <4>1, <4>2 DEF DiskInv, OnDisk
    <3> QED BY <3>1, <3>2, <3>3, <3>4 DEF Step
  <2>3. CASE Held(p) # t
    <3>1. known'[t] = known[t] /\ file'[t] = file[t] /\ (t \in unsaved => t \in unsaved')
      BY <2>3 DEF Step, Store, Send, Resend, Persist, PersistFails, Delete, disk, Types, TypeOK
    <3>2. ~Writes(p, t)
      BY <2>3 DEF Writes
    <3> QED BY <1>3, <2>1, <3>1, <3>2 DEF DiskInv, OnDisk
  <2> QED BY <2>2, <2>3
<1> QED BY <1>1, <1>2, <1>3, <1>4 DEF DiskInv, OnDisk

\* A client that takes a program on was idle, and the others stay where they are.
LEMMA NewProgram ==
  ASSUME Types,
         \/ Fetch \/ (\E t \in Tasks : Poll(t)) \/ (\E c \in toLoad : Load(c)) \/ Call
         \/ (\E t \in Tasks : Expire(t)),
         NEW q \in Clients
  PROVE  \/ hand'[q] = hand[q] /\ todo'[q] = todo[q]
         \/ /\ todo[q] = <<>>
            /\ \/ q = "poller" /\ hand'[q].status = Asked[hand'[q].task]
               \/ q = "loader" /\ hand'[q] \in toLoad
               \/ q \in {"caller", "cleaner"} /\ hand'[q].status # "pending_confirmation"
<1>1. CASE UNCHANGED clients
  BY <1>1 DEF clients
<1>2. ASSUME NEW p \in Clients, NEW t \in Tasks, NEW u, NEW x, Does(p, t, u, x)
      PROVE  /\ q # p => hand'[q] = hand[q] /\ todo'[q] = todo[q]
             /\ q = p => /\ hand'[q].status = u /\ hand'[q].task = t
                         /\ hand'[q] = [task |-> t, status |-> u]
  BY <1>2 DEF Does, Copy, Types, ClientsOK
<1>3. ASSUME NEW t \in Tasks, Poll(t), ~UNCHANGED clients
      PROVE  Does("poller", t, Asked[t], EnqueueSteps) /\ todo["poller"] = <<>>
  BY <1>3 DEF Poll, Free
<1>4. ASSUME NEW c \in toLoad, Load(c), ~UNCHANGED clients
      PROVE  /\ \E x : Does("loader", c.task, c.status, x)
             /\ c.task \in Tasks /\ todo["loader"] = <<>>
             /\ c = [task |-> c.task, status |-> c.status]
  BY <1>4 DEF Load, Free, Types, RestOK
<1>5. ASSUME Call
      PROVE  /\ \E t \in Tasks : \E x : Does("caller", t, "pending", x) \/ Does("caller", t, "completed", x)
             /\ todo["caller"] = <<>>
  BY <1>5 DEF Call, Free
<1>6. ASSUME NEW t \in Tasks, Expire(t)
      PROVE  (\E x : Does("cleaner", t, "expired", x)) /\ todo["cleaner"] = <<>>
  BY <1>6 DEF Expire, Free
<1>7. CASE Fetch
  BY <1>1, <1>7 DEF Fetch
<1>8. CASE \E t \in Tasks : Poll(t)
  BY <1>1, <1>2, <1>3, <1>8 DEF Clients
<1>9. CASE \E c \in toLoad : Load(c)
  <2>1. PICK c \in toLoad : Load(c)
    BY <1>9
  <2>2. CASE ~UNCHANGED clients
    <3>1. PICK x : Does("loader", c.task, c.status, x)
      BY <1>4, <2>1, <2>2
    <3>2. c.task \in Tasks /\ todo["loader"] = <<>> /\ c = [task |-> c.task, status |-> c.status]
      BY <1>4, <2>1, <2>2
    <3> QED BY <1>2, <3>1, <3>2 DEF Clients
  <2> QED BY <1>1, <2>2
<1>10. CASE Call
  <2>1. PICK t \in Tasks : \E x : Does("caller", t, "pending", x) \/ Does("caller", t, "completed", x)
    BY <1>5, <1>10
  <2>2. PICK x : Does("caller", t, "pending", x) \/ Does("caller", t, "completed", x)
    BY <2>1
  <2>3. todo["caller"] = <<>>
    BY <1>5, <1>10
  <2>4. q # "caller" => hand'[q] = hand[q] /\ todo'[q] = todo[q]
    BY <1>2, <2>2 DEF Clients
  <2>5. q = "caller" => hand'[q].status \in {"pending", "completed"}
    BY <1>2, <2>2 DEF Clients
  <2> QED BY <2>3, <2>4, <2>5
<1>11. CASE \E t \in Tasks : Expire(t)
  BY <1>2, <1>6, <1>11 DEF Clients
<1> QED BY <1>7, <1>8, <1>9, <1>10, <1>11

LEMMA DiskNew ==
  ASSUME Types, DiskInv,
         \/ Fetch \/ (\E t \in Tasks : Poll(t)) \/ (\E c \in toLoad : Load(c)) \/ Call
         \/ (\E t \in Tasks : Expire(t))
  PROVE  DiskInv'
<1>1. /\ UNCHANGED <<known, file, torn, unsaved, days>> /\ toLoad' \subseteq toLoad
  BY DEF Fetch, Poll, Load, Call, Expire, disk, inbox, process
<1>2. WaitingIsAsked'
  <2>1. ASSUME NEW q \in Clients, todo'[q] # <<>> PROVE Waits(hand'[q])
    BY <2>1, NewProgram DEF DiskInv, WaitingIsAsked, Waits
  <2> QED BY <1>1, <2>1 DEF DiskInv, WaitingIsAsked, Waits
<1>3. ASSUME NEW q \in Clients, NEW t \in Tasks, Writes(q, t) PROVE Writes(q, t)'
  <2>1. todo[q] # <<>>
    BY <1>3, IdleWrites
  <2> QED BY <1>3, <2>1, NewProgram DEF Writes, Held
<1> QED BY <1>1, <1>2, <1>3 DEF DiskInv, OnDisk

LEMMA DiskStepAll == Types /\ DiskInv /\ [Next]_vars => DiskInv'
<1> SUFFICES ASSUME Types, DiskInv, [Next]_vars PROVE DiskInv'
  OBVIOUS
<1>1. ASSUME UNCHANGED <<toLoad, clients, known, disk, days>> PROVE DiskInv'
  BY <1>1 DEF DiskInv, WaitingIsAsked, OnDisk, Writes, Held, Waits, clients, disk
<1>2. ASSUME NEW k \in Keys, ProcessKey(k) PROVE DiskInv'
  BY <1>1, <1>2 DEF ProcessKey, Receive, Tick, Pass, inbox, process
<1>3. ASSUME NEW w \in Workers, Work(w) PROVE DiskInv'
  BY <1>1, <1>3 DEF Work, Take, Finish, inbox, process
<1>4. CASE GatewayRestarts \/ UNCHANGED vars
  BY <1>1, <1>4 DEF GatewayRestarts, vars, inbox, process
<1>5. CASE Crash
  <2>1. /\ toLoad' = {} /\ UNCHANGED file
        /\ \A t \in Tasks : known'[t] = "none"
        /\ \A p \in Clients : todo'[p] = <<>>
    BY <1>5 DEF Crash, MemoryLost
  <2> QED BY <2>1 DEF DiskInv, WaitingIsAsked, OnDisk, Waits, Copy
<1>6. CASE Restart
  <2>1. UNCHANGED <<clients, known, file, torn, unsaved, days>>
    BY <1>6 DEF Restart
  <2>2. \A c \in toLoad' : c.task \in Tasks /\ c.status = file[c.task]
    BY <1>6 DEF Restart
  <2>3. \A c \in toLoad' : Waits(c)
    BY <2>2 DEF DiskInv, WaitingIsAsked, Waits, Copy
  <2> QED BY <2>1, <2>3 DEF DiskInv, WaitingIsAsked, OnDisk, Writes, Held, Waits, clients
<1>7. CASE Midnight
  <2>1. UNCHANGED <<toLoad, clients>> /\ days' # 0 /\ \A t \in Tasks : file'[t] = "none"
    BY <1>7 DEF Midnight, inbox, Types, RestOK
  <2> QED BY <2>1 DEF DiskInv, WaitingIsAsked, OnDisk, Waits, Copy, clients
<1> QED BY <1>2, <1>3, <1>4, <1>5, <1>6, <1>7, DiskStep, DiskNew
        DEF Next, PollGateway, LoadTasks, Clean, Called, Clients

\* For any capacities, bounds and steps of the callers: a task registered as
\* pending that nobody is working on is pending in the file of today, unless the
\* last attempt to record it failed, the day has changed or a crash or a failed
\* write has left the file in pieces.  Enqueue, the cleaner, ConfirmTask and
\* CompleteTask write map and file at different times and overtake each other
\* (queue.go 46-54, 135-179).
THEOREM PendingIsOnDiskHolds == Spec => []PendingIsOnDisk
<1>1. Init => DiskInv
  <2> SUFFICES ASSUME Init PROVE DiskInv
    OBVIOUS
  <2>1. /\ \A t \in Tasks : known[t] = "none" /\ file[t] = "none"
        /\ toLoad = {} /\ \A p \in Clients : todo[p] = <<>>
    BY DEF Init, EmptyMemory
  <2> QED BY <2>1 DEF DiskInv, WaitingIsAsked, OnDisk, Waits, Copy
<1>2. Types /\ DiskInv => PendingIsOnDisk
  BY DEF Types, RestOK, DiskInv, OnDisk, PendingIsOnDisk, Writes
<1> QED BY <1>1, <1>2, InitTypes, NextTypes, DiskStepAll, PTL DEF Spec

-----------------------------------------------------------------------------
(* Lemmas about what is in a sequence                                        *)

LEMMA InRange ==
  ASSUME NEW S, NEW s \in Seq(S), NEW x
  PROVE  x \in Range(s) <=> \E i \in 1..Len(s) : s[i] = x
BY DEF Range

LEMMA RangeOfAppend ==
  ASSUME NEW S, NEW s \in Seq(S), NEW x \in S
  PROVE  Range(Append(s, x)) = Range(s) \union {x}
<1>0. Append(s, x) \in Seq(S)
  OBVIOUS
<1>1. PICK r \in Seq(S) : r = Append(s, x)
  BY <1>0
<1>2. Len(r) = Len(s) + 1 /\ r[Len(s) + 1] = x /\ \A i \in 1..Len(s) : r[i] = s[i]
  BY <1>1
<1>3. ASSUME NEW y \in Range(r) PROVE y \in Range(s) \union {x}
  <2>1. PICK i \in 1..Len(r) : r[i] = y
    BY <1>3, InRange
  <2> QED BY <1>2, <2>1, InRange
<1>4. ASSUME NEW y \in Range(s) PROVE y \in Range(r)
  <2>1. PICK i \in 1..Len(s) : s[i] = y
    BY <1>4, InRange
  <2>2. i \in 1..Len(r) /\ r[i] = y
    BY <1>2, <2>1
  <2> QED BY <2>2, InRange
<1>5. x \in Range(r)
  <2>1. Len(s) + 1 \in 1..Len(r)
    BY <1>2
  <2> QED BY <1>2, <2>1, InRange
<1> QED BY <1>1, <1>3, <1>4, <1>5

LEMMA RangeOfTail ==
  ASSUME NEW S, NEW s \in Seq(S), s # <<>>
  PROVE  Range(s) = Range(Tail(s)) \union {Head(s)} /\ Tail(s) \in Seq(S) /\ Head(s) \in S
<1>0. Tail(s) \in Seq(S)
  OBVIOUS
<1>1. PICK r \in Seq(S) : r = Tail(s)
  BY <1>0
<1>2. Len(s) = Len(r) + 1 /\ s[1] = Head(s) /\ \A i \in 1..Len(r) : r[i] = s[i + 1]
  BY <1>1
<1>3. ASSUME NEW y \in Range(s) PROVE y \in Range(r) \union {Head(s)}
  <2>1. PICK i \in 1..Len(s) : s[i] = y
    BY <1>3, InRange
  <2>2. CASE i # 1
    <3>1. i - 1 \in 1..Len(r) /\ r[i - 1] = y
      BY <1>2, <2>1, <2>2
    <3> QED BY <3>1, InRange
  <2> QED BY <1>2, <2>1, <2>2
<1>4. ASSUME NEW y \in Range(r) PROVE y \in Range(s)
  <2>1. PICK i \in 1..Len(r) : r[i] = y
    BY <1>4, InRange
  <2>2. i + 1 \in 1..Len(s) /\ s[i + 1] = y
    BY <1>2, <2>1
  <2> QED BY <2>2, InRange
<1>5. Head(s) \in Range(s)
  <2>1. 1 \in 1..Len(s)
    BY <1>2
  <2> QED BY <1>2, <2>1, InRange
<1> QED BY <1>1, <1>3, <1>4, <1>5

LEMMA RangeOfReorder ==
  ASSUME NEW S, NEW s \in Seq(S), NEW f \in Bijection(DOMAIN s, DOMAIN s)
  PROVE  Range(Reorder(s, f)) = Range(s)
<1>1. DOMAIN s = 1..Len(s)
  OBVIOUS
<1>2. /\ f \in [1..Len(s) -> 1..Len(s)]
      /\ \A j \in 1..Len(s) : \E i \in 1..Len(s) : f[i] = j
  BY <1>1 DEF Bijection, Injection, Surjection
<1>3. PICK r \in Seq(S) : r = Reorder(s, f)
  BY ReorderType
<1>4. Len(r) = Len(s) /\ \A i \in 1..Len(s) : r[i] = s[f[i]]
  BY <1>1, <1>3, ReorderType DEF Reorder
<1>5. ASSUME NEW x \in Range(r) PROVE x \in Range(s)
  <2>1. PICK i \in 1..Len(r) : r[i] = x
    BY <1>5, InRange
  <2>2. f[i] \in 1..Len(s) /\ s[f[i]] = x
    BY <1>2, <1>4, <2>1
  <2> QED BY <2>2, InRange
<1>6. ASSUME NEW x \in Range(s) PROVE x \in Range(r)
  <2>1. PICK j \in 1..Len(s) : s[j] = x
    BY <1>6, InRange
  <2>2. PICK i \in 1..Len(s) : f[i] = j
    BY <1>2, <2>1
  <2>3. i \in 1..Len(r) /\ r[i] = x
    BY <1>4, <2>1, <2>2
  <2> QED BY <2>3, InRange
<1> QED BY <1>3, <1>5, <1>6

-----------------------------------------------------------------------------
(* What is registered as pending is on its way.  The invariant says with     *)
(* which status: a copy that waits for a confirmation is left out on the way. *)

Sends(p) == {"send", "sendFirst", "resend"} \intersect Range(todo[p]) # {}

PendingCopyOf(t) ==
  \/ \E p \in Clients : Held(p) = t /\ Sends(p) /\ hand[p].status = "pending"
  \/ Copy(t, "pending") \in Range(channel[KeyOf[t]])
  \/ Copy(t, "pending") \in Range(pending[KeyOf[t]])
  \/ t \in Range(ready)
  \/ t \in taken \union unheard

OnItsWay == \A t \in Tasks : known[t] = "pending" => PendingCopyOf(t)

\* A program that has to send goes on to do so.
LEMMA SendsStep ==
  ASSUME Types, NEW p \in Clients, Step(p)
  PROVE  /\ IF Send(p) \/ Resend(p) THEN Sends(p) /\ ~Sends(p)' ELSE Sends(p)' = Sends(p)
         /\ Store(p) /\ hand[p].status = "pending" => Sends(p)'
         /\ Delete(p) => ~Sends(p)
         /\ Resend(p) => p = "caller" /\ todo[p] \in ConfirmPrograms
<1>1. todo[p] # <<>> /\ todo[p] \in Programs
  BY OtherClients
<1>2. CASE Store(p)
  <2>1. Head(todo[p]) = "store" /\ ~Delete(p) /\ ~Send(p) /\ ~Resend(p)
    BY <1>2 DEF Store, Send, Resend, Delete, AtStep
  <2>2. \/ todo'[p] = <<"sendFirst", "persist">> /\ "send" \in Range(todo[p])
        \/ todo'[p] = Tail(todo[p])
    BY <1>2 DEF Store, Types, ClientsOK
  <2>3. CASE todo[p] = <<"store", "send", "persist">>
    <3>1. todo'[p] \in {<<"send", "persist">>, <<"sendFirst", "persist">>}
      BY <2>2, <2>3, ThreeSteps
    <3> QED BY <2>1, <2>3, <3>1, ProgramRange DEF Sends
  <2>4. CASE todo[p] = <<"store", "persist", "resend">>
    <3>1. todo'[p] = <<"persist", "resend">>
      BY <2>2, <2>4, ThreeSteps, ProgramRange
    <3> QED BY <2>1, <2>4, <3>1, ProgramRange DEF Sends
  <2>5. CASE todo[p] = <<"store", "persist">>
    <3>1. todo'[p] = <<"persist">>
      BY <2>2, <2>5, TwoSteps, ProgramRange
    <3>2. p # "poller"
      BY <2>5, OneStep, TwoSteps, ThreeSteps, ProgramRange DEF Types, ClientsOK, PollerPrograms
    <3>3. p # "cleaner" /\ p # "caller"
      <4>1. "delete" \notin Range(todo[p]) /\ "resend" \notin Range(todo[p])
        BY <2>5, ProgramRange
      <4> QED BY <1>1, <4>1, ProgramRange
              DEF Types, ClientsOK, CleanerPrograms, ConfirmPrograms, CompletePrograms
    <3>4. hand[p].status # "pending"
      BY <2>5, <3>2, <3>3 DEF Types, ClientsOK, Clients
    <3> QED BY <2>1, <2>5, <3>1, <3>4, ProgramRange DEF Sends
  <2>6. CASE todo[p] = <<"store", "persist", "delete">>
    <3>1. todo'[p] = <<"persist", "delete">>
      BY <2>2, <2>6, ThreeSteps, ProgramRange
    <3>2. p # "loader" /\ p # "poller"
      <4>1. "delete" \in Range(todo[p])
        BY <2>6, ProgramRange
      <4> QED BY <4>1, ProgramRange DEF Types, ClientsOK, PollerPrograms, LoaderPrograms
    <3>3. todo[p] \notin ConfirmPrograms
      <4>1. "delete" \in Range(todo[p])
        BY <2>6, ProgramRange
      <4> QED BY <4>1, ProgramRange DEF ConfirmPrograms
    <3>4. hand[p].status # "pending"
      BY <1>1, <3>2, <3>3 DEF Types, ClientsOK, Clients
    <3> QED BY <2>1, <2>6, <3>1, <3>4, ProgramRange DEF Sends
  <2> QED BY <1>1, <2>1, <2>3, <2>4, <2>5, <2>6, ProgramSteps
<1>3. ASSUME Done(p) PROVE todo'[p] = Tail(todo[p])
  BY <1>3 DEF Done, Types, ClientsOK
<1>4. CASE Send(p)
  <2>1. Head(todo[p]) \in {"send", "sendFirst"} /\ todo'[p] = Tail(todo[p])
        /\ ~Delete(p) /\ ~Store(p) /\ ~Resend(p)
    BY <1>3, <1>4 DEF Store, Send, Resend, Delete, AtStep
  <2>2. todo'[p] = <<"persist">>
        /\ todo[p] \in {<<"send", "persist">>, <<"sendFirst", "persist">>}
    BY <1>1, <2>1, ProgramSteps
  <2> QED BY <1>4, <2>1, <2>2, ProgramRange DEF Sends
<1>5. CASE Resend(p)
  <2>1. Head(todo[p]) = "resend" /\ todo'[p] = Tail(todo[p]) /\ ~Delete(p) /\ ~Store(p)
    BY <1>3, <1>5 DEF Store, Send, Resend, Delete, AtStep
  <2>2. todo[p] = <<"resend">> /\ todo'[p] = <<>>
    BY <1>1, <2>1, ProgramSteps
  <2>3. p # "poller" /\ p # "loader" /\ p # "cleaner" /\ todo[p] \notin CompletePrograms
    <3>1. "resend" \in Range(todo[p])
      BY <2>2, ProgramRange
    <3> QED BY <3>1, ProgramRange
            DEF Types, ClientsOK, PollerPrograms, LoaderPrograms, CleanerPrograms, CompletePrograms
  <2>4. p = "caller" /\ todo[p] \in ConfirmPrograms
    BY <2>3, <1>1 DEF Types, ClientsOK, Clients
  <2> QED BY <1>5, <2>1, <2>2, <2>4, ProgramRange DEF Sends
<1>6. CASE Persist(p)
  <2>1. Head(todo[p]) = "persist" /\ todo'[p] = Tail(todo[p])
        /\ ~Delete(p) /\ ~Resend(p) /\ ~Store(p) /\ ~Send(p)
    BY <1>3, <1>6 DEF Store, Send, Resend, Persist, Delete, AtStep
  <2>2. \/ todo[p] = <<"persist", "delete">> /\ todo'[p] = <<"delete">>
        \/ todo[p] = <<"persist">> /\ todo'[p] = <<>>
        \/ todo[p] = <<"persist", "resend">> /\ todo'[p] = <<"resend">>
    BY <1>1, <2>1, ProgramSteps
  <2> QED BY <2>1, <2>2, ProgramRange DEF Sends
<1>7. CASE Delete(p)
  <2>1. Head(todo[p]) = "delete" /\ todo'[p] = Tail(todo[p])
        /\ ~Resend(p) /\ ~Store(p) /\ ~Send(p)
    BY <1>3, <1>7 DEF Store, Send, Resend, Persist, Delete, AtStep
  <2>2. todo[p] = <<"delete">> /\ todo'[p] = <<>>
    BY <1>1, <2>1, ProgramSteps
  <2> QED BY <2>1, <2>2, ProgramRange DEF Sends
<1> QED BY <1>2, <1>4, <1>5, <1>6, <1>7 DEF Step

LEMMA WayStep ==
  ASSUME Types, OnItsWay, NEW p \in Clients, Step(p)
  PROVE  OnItsWay'
<1>1. /\ Held(p) \in Tasks /\ todo[p] # <<>> /\ hand[p] \in Copies
      /\ HandKey(p) \in Keys /\ hand[p] \in CopiesOf(HandKey(p))
      /\ hand[p] = Copy(Held(p), hand[p].status)
      /\ UNCHANGED <<pending, ready, taken>> /\ unheard \subseteq unheard'
  BY OtherClients, HandType
     DEF Types, Step, Store, Send, Resend, Persist, Delete, pipe, history, Copies, Held, Copy
<1>2. SUFFICES ASSUME NEW t \in Tasks, known'[t] = "pending" PROVE PendingCopyOf(t)'
  BY DEF OnItsWay
<1>3. CASE Store(p) /\ Held(p) = t
  <2>1. hand[p].status = "pending" /\ hand' = hand
    BY <1>2, <1>3 DEF Store, Types, TypeOK
  <2>2. Sends(p)'
    BY <1>3, <2>1, SendsStep
  <2> QED BY <1>3, <2>1, <2>2 DEF PendingCopyOf, Held
<1>4. CASE ~(Store(p) /\ Held(p) = t)
  <2>1. PendingCopyOf(t)
    BY <1>2, <1>4 DEF OnItsWay, Step, Store, Send, Resend, Persist, Delete, Types, TypeOK
  <2>2. CASE channel' = channel /\ t \in unheard'
    BY <2>2 DEF PendingCopyOf
  <2>3. \A k \in Keys : Range(channel[k]) \subseteq Range(channel'[k])
    <3>1. CASE channel' = channel
      BY <3>1
    <3>2. CASE channel' # channel
      <4>1. channel' = [channel EXCEPT ![HandKey(p)] = Append(channel[HandKey(p)], hand[p])]
        BY <3>2 DEF Step, Store, Send, Resend, Persist, Delete, pipe
      <4>2. channel[HandKey(p)] \in Seq(Copies) /\ channel \in [Keys -> Seq(Copies)]
        BY <1>1 DEF Types, QueuesOK
      <4>3. Range(Append(channel[HandKey(p)], hand[p])) = Range(channel[HandKey(p)]) \union {hand[p]}
        BY <1>1, <4>2, RangeOfAppend
      <4> QED BY <4>1, <4>2, <4>3
    <3> QED BY <3>1, <3>2
  <2>4. ASSUME NEW q \in Clients, Held(q) = t, Sends(q), hand[q].status = "pending"
        PROVE  PendingCopyOf(t)'
    <3>1. CASE q # p
      BY <2>4, <3>1, OtherClients DEF PendingCopyOf, Sends, Held
    <3>2. CASE q = p /\ ~(Send(p) \/ Resend(p))
      <4>1. Sends(p)'
        BY <2>4, <3>2, SendsStep
      <4>2. todo'[p] # <<>>
        BY <4>1, ProgramRange DEF Sends
      <4> QED BY <2>4, <3>2, <4>1, <4>2, OtherClients DEF PendingCopyOf, Held
    <3>3. CASE q = p /\ (Send(p) \/ Resend(p))
      <4>1. HandKey(p) = KeyOf[t] /\ hand[p] = Copy(t, "pending")
        BY <1>1, <2>4, <3>3 DEF HandKey
      <4>2. \/ t \in unheard'
            \/ channel' = [channel EXCEPT ![HandKey(p)] = Append(channel[HandKey(p)], hand[p])]
        BY <2>4, <3>3 DEF Send, Resend
      <4>3. channel[HandKey(p)] \in Seq(Copies) /\ channel \in [Keys -> Seq(Copies)]
        BY <1>1 DEF Types, QueuesOK
      <4>4. Range(Append(channel[HandKey(p)], hand[p])) = Range(channel[HandKey(p)]) \union {hand[p]}
        BY <1>1, <4>3, RangeOfAppend
      <4> QED BY <1>1, <4>1, <4>2, <4>3, <4>4 DEF PendingCopyOf
    <3> QED BY <3>1, <3>2, <3>3
  <2>5. KeyOf[t] \in Keys
    BY TaskAssumption
  <2> QED BY <1>1, <2>1, <2>3, <2>4, <2>5 DEF PendingCopyOf
<1> QED BY <1>3, <1>4

LEMMA WayKey ==
  ASSUME Types, OnItsWay, NEW k \in Keys, ProcessKey(k)
  PROVE  OnItsWay'
<1>1. UNCHANGED <<clients, known, taken, unheard>>
  BY DEF ProcessKey, Receive, Tick, Pass, history
<1>2. SUFFICES ASSUME NEW t \in Tasks, PendingCopyOf(t) PROVE PendingCopyOf(t)'
  BY <1>1 DEF OnItsWay
<1>3. CASE ~(Copy(t, "pending") \in Range(channel[KeyOf[t]]) \union Range(pending[KeyOf[t]]))
           /\ Range(ready) \subseteq Range(ready')
  BY <1>1, <1>2, <1>3 DEF PendingCopyOf, Held, Sends, clients
<1>4. QueueOK(channel) /\ QueueOK(pending) /\ KeyOf[t] \in Keys
  BY QueuesAreOK, TaskAssumption DEF Types
<1>5. channel[k] \in Seq(Copies) /\ pending[k] \in Seq(Copies) /\ ready \in Seq(Tasks)
  BY DEF Types, TypeOK
<1>6. CASE Receive(k)
  <2>1. /\ channel[k] # <<>> /\ channel' = [channel EXCEPT ![k] = Tail(channel[k])]
        /\ pending' = [pending EXCEPT ![k] = Append(pending[k], Head(channel[k]))]
        /\ ready' = ready
    BY <1>6 DEF Receive
  <2>2. Range(channel[k]) = Range(Tail(channel[k])) \union {Head(channel[k])}
        /\ Head(channel[k]) \in Copies
    BY <1>5, <2>1, RangeOfTail
  <2>3. Range(Append(pending[k], Head(channel[k]))) = Range(pending[k]) \union {Head(channel[k])}
    BY <1>5, <2>2, RangeOfAppend
  <2>4. /\ \A j \in Keys : channel'[j] = (IF j = k THEN Tail(channel[k]) ELSE channel[j])
        /\ \A j \in Keys : pending'[j] = (IF j = k THEN Append(pending[k], Head(channel[k]))
                                                  ELSE pending[j])
    BY <1>4, <2>1 DEF QueueOK
  <2>5. \A j \in Keys : Range(channel[j]) \union Range(pending[j])
                        = Range(channel'[j]) \union Range(pending'[j])
    BY <2>2, <2>3, <2>4
  <2> QED BY <1>1, <1>2, <1>3, <1>4, <2>1, <2>5 DEF PendingCopyOf, Held, Sends, clients
<1>7. CASE Tick(k)
  <2>1. PICK f \in Bijection(DOMAIN pending[k], DOMAIN pending[k]) :
          pending' = [pending EXCEPT ![k] = Reorder(pending[k], f)]
    BY <1>7 DEF Tick
  <2>2. channel' = channel /\ ready' = ready /\ Range(Reorder(pending[k], f)) = Range(pending[k])
    BY <1>5, <1>7, <2>1, RangeOfReorder DEF Tick
  <2>3. \A j \in Keys : Range(pending'[j]) = Range(pending[j])
    BY <1>4, <2>1, <2>2 DEF QueueOK
  <2> QED BY <1>1, <1>2, <1>4, <2>2, <2>3 DEF PendingCopyOf, Held, Sends, clients
<1>8. CASE Pass(k)
  <2>1. /\ pending[k] # <<>> /\ pending' = [pending EXCEPT ![k] = Tail(pending[k])]
        /\ channel' = channel
        /\ ready' = IF Head(pending[k]).status = "pending"
                    THEN Append(ready, Head(pending[k]).task) ELSE ready
    BY <1>8 DEF Pass, Types, TypeOK
  <2>2. Range(pending[k]) = Range(Tail(pending[k])) \union {Head(pending[k])}
        /\ Head(pending[k]).task \in Tasks
    BY <1>4, <1>5, <2>1, RangeOfTail, QueueHead
  <2>3. Range(Append(ready, Head(pending[k]).task)) = Range(ready) \union {Head(pending[k]).task}
    BY <1>5, <2>2, RangeOfAppend
  <2>4. \A j \in Keys : pending'[j] = (IF j = k THEN Tail(pending[k]) ELSE pending[j])
    BY <1>4, <2>1 DEF QueueOK
  <2>5. Range(ready) \subseteq Range(ready')
    BY <2>1, <2>3
  <2>6. ASSUME Copy(t, "pending") \in Range(pending[KeyOf[t]])
        PROVE  Copy(t, "pending") \in Range(pending'[KeyOf[t]]) \/ t \in Range(ready')
    <3>1. CASE KeyOf[t] = k /\ Head(pending[k]) = Copy(t, "pending")
      BY <2>1, <2>3, <3>1 DEF Copy
    <3> QED BY <1>4, <2>2, <2>4, <2>6, <3>1
  <2> QED BY <1>1, <1>2, <2>1, <2>5, <2>6 DEF PendingCopyOf, Held, Sends, clients
<1> QED BY <1>6, <1>7, <1>8 DEF ProcessKey

LEMMA WayNext == Types /\ OnItsWay /\ [Next]_vars => OnItsWay'
<1> SUFFICES ASSUME Types, OnItsWay, [Next]_vars PROVE OnItsWay'
  OBVIOUS
<1>1. ASSUME UNCHANGED <<clients, known, pipe, taken, unheard>> PROVE OnItsWay'
  BY <1>1 DEF OnItsWay, PendingCopyOf, Sends, Held, clients, pipe
<1>2. ASSUME NEW w \in Workers, Work(w) PROVE OnItsWay'
  <2>1. CASE Finish(w)
    BY <1>1, <2>1 DEF Finish, history
  <2>2. CASE Take(w)
    <3>1. /\ ready # <<>> /\ ready' = Tail(ready) /\ taken' = taken \union {Head(ready)}
          /\ UNCHANGED <<clients, known, channel, pending, unheard>>
      BY <2>2 DEF Take
    <3>2. Range(ready) = Range(Tail(ready)) \union {Head(ready)}
      BY <3>1, RangeOfTail DEF Types, TypeOK
    <3> QED BY <3>1, <3>2 DEF OnItsWay, PendingCopyOf, Sends, Held, clients
  <2> QED BY <1>2, <2>1, <2>2 DEF Work
<1>3. CASE GatewayRestarts \/ Restart \/ Midnight \/ UNCHANGED vars
  BY <1>1, <1>3 DEF GatewayRestarts, Restart, Midnight, vars, history
<1>4. CASE Crash
  <2>1. \A t \in Tasks : known'[t] = "none"
    BY <1>4 DEF Crash, MemoryLost
  <2> QED BY <2>1 DEF OnItsWay
<1>5. ASSUME \/ Fetch \/ (\E t \in Tasks : Poll(t)) \/ (\E c \in toLoad : Load(c)) \/ Call
             \/ (\E t \in Tasks : Expire(t))
      PROVE  OnItsWay'
  <2>1. UNCHANGED <<known, pipe, taken, unheard>>
    BY <1>5 DEF Fetch, Poll, Load, Call, Expire, history
  <2>2. \A q \in Clients : Sends(q) => hand'[q] = hand[q] /\ todo'[q] = todo[q]
    BY <1>5, NewProgram, ProgramRange DEF Sends
  <2> QED BY <2>1, <2>2 DEF OnItsWay, PendingCopyOf, Sends, Held, pipe
<1> QED BY <1>2, <1>3, <1>4, <1>5, WayStep, WayKey
        DEF Next, PollGateway, LoadTasks, Clean, Called, Clients

-----------------------------------------------------------------------------
(* Lemmas about how often something is in a sequence                         *)

LEMMA SomePlaces ==
  ASSUME NEW S, NEW s \in Seq(S), NEW I \in SUBSET DOMAIN s
  PROVE  IsFiniteSet(I) /\ Cardinality(I) \in Nat /\ (I = {} <=> Cardinality(I) = 0)
<1>1. DOMAIN s = 1..Len(s) /\ Len(s) \in Nat
  OBVIOUS
<1>2. IsFiniteSet(1..Len(s))
  BY <1>1, FS_Interval
<1>3. IsFiniteSet(I)
  BY <1>1, <1>2, FS_Subset
<1> QED BY <1>3, FS_CardinalityType, FS_EmptySet

\* What UnderWay adds up.
LEMMA UnderWayParts ==
  ASSUME Types, NEW t \in Tasks
  PROVE  /\ UnderWay(t) = Cardinality({p \in Clients : Held(p) = t /\ Sends(p)})
                          + Cardinality(Occurs(t, channel[KeyOf[t]]))
                          + Cardinality(Occurs(t, pending[KeyOf[t]]))
                          + Cardinality({i \in DOMAIN ready : ready[i] = t})
         /\ IsFiniteSet({p \in Clients : Held(p) = t /\ Sends(p)})
         /\ Cardinality({p \in Clients : Held(p) = t /\ Sends(p)}) \in Nat
         /\ Cardinality(Occurs(t, channel[KeyOf[t]])) \in Nat
         /\ Cardinality(Occurs(t, pending[KeyOf[t]])) \in Nat
         /\ Cardinality({i \in DOMAIN ready : ready[i] = t}) \in Nat
<1>1. UnderWay(t) = Cardinality({p \in Clients : Held(p) = t /\ Sends(p)})
                    + Cardinality(Occurs(t, channel[KeyOf[t]]))
                    + Cardinality(Occurs(t, pending[KeyOf[t]]))
                    + Cardinality({i \in DOMAIN ready : ready[i] = t})
  BY Zenon DEF UnderWay, Sends
<1>2. IsFiniteSet(Clients)
  <2>1. IsFiniteSet({"caller"})
    BY FS_Singleton
  <2>2. IsFiniteSet({"caller"} \union {"cleaner"})
    BY <2>1, FS_AddElement
  <2>3. IsFiniteSet(({"caller"} \union {"cleaner"}) \union {"loader"})
    BY <2>2, FS_AddElement
  <2>4. IsFiniteSet((({"caller"} \union {"cleaner"}) \union {"loader"}) \union {"poller"})
    BY <2>3, FS_AddElement
  <2>5. Clients = (({"caller"} \union {"cleaner"}) \union {"loader"}) \union {"poller"}
    BY DEF Clients
  <2> QED BY <2>4, <2>5
<1>3. PICK H : H = {p \in Clients : Held(p) = t /\ Sends(p)}
  OBVIOUS
<1>4. IsFiniteSet(H) /\ Cardinality(H) \in Nat
  BY <1>2, <1>3, FS_Subset, FS_CardinalityType
<1>5. channel[KeyOf[t]] \in Seq(Copies) /\ pending[KeyOf[t]] \in Seq(Copies) /\ ready \in Seq(Tasks)
  BY TaskAssumption DEF Types, TypeOK
<1>6. Cardinality(Occurs(t, channel[KeyOf[t]])) \in Nat /\ Cardinality(Occurs(t, pending[KeyOf[t]])) \in Nat
  BY <1>5, SomePlaces DEF Occurs
<1>7. Cardinality({i \in DOMAIN ready : ready[i] = t}) \in Nat
  BY <1>5, SomePlaces
<1> QED BY <1>1, <1>3, <1>4, <1>6, <1>7

\* For any tasks, keys and capacities: a task registered as pending is in a
\* program that will send it, in a channel, in a slice or in the second channel,
\* a worker has had it, or it was confirmed before its key had a channel
\* (queue.go 40-83, 114-128).
THEOREM PendingIsUnderWayHolds == Spec => []PendingIsUnderWay
<1>1. Init => OnItsWay
  BY DEF Init, EmptyMemory, OnItsWay
<1>2. Types /\ OnItsWay => PendingIsUnderWay
  <2> SUFFICES ASSUME Types, OnItsWay, NEW t \in Tasks, known[t] = "pending"
               PROVE  UnderWay(t) > 0 \/ t \in taken \union unheard
    BY DEF PendingIsUnderWay
  <2>1. PendingCopyOf(t)
    BY DEF OnItsWay
  <2>2. channel[KeyOf[t]] \in Seq(Copies) /\ pending[KeyOf[t]] \in Seq(Copies) /\ ready \in Seq(Tasks)
    BY TaskAssumption DEF Types, TypeOK
  <2>3. ASSUME NEW p \in Clients, Held(p) = t, Sends(p) 
        PROVE  Cardinality({q \in Clients : Held(q) = t /\ Sends(q)}) # 0
    <3>1. PICK H : H = {q \in Clients : Held(q) = t /\ Sends(q)}
      OBVIOUS
    <3>2. Cardinality(H) # 0
      BY <2>3, <3>1, UnderWayParts, FS_EmptySet
    <3> QED BY <3>1, <3>2
  <2>4. ASSUME NEW s \in Seq(Copies), Copy(t, "pending") \in Range(s)
        PROVE  Cardinality(Occurs(t, s)) # 0
    <3>1. PICK i \in 1..Len(s) : s[i] = Copy(t, "pending")
      BY <2>4, InRange
    <3>2. i \in Occurs(t, s) /\ Occurs(t, s) \in SUBSET DOMAIN s
      BY <3>1 DEF Occurs, Copy
    <3> QED BY <3>2, SomePlaces
  <2>5. ASSUME t \in Range(ready) PROVE Cardinality({i \in DOMAIN ready : ready[i] = t}) # 0
    <3>1. PICK i \in 1..Len(ready) : ready[i] = t
      BY <2>2, <2>5, InRange
    <3>2. PICK I \in SUBSET DOMAIN ready : I = {j \in DOMAIN ready : ready[j] = t}
      OBVIOUS
    <3>3. i \in I
      BY <2>2, <3>1, <3>2
    <3> QED BY <2>2, <3>2, <3>3, SomePlaces
  <2>6. PICK a \in Nat, b \in Nat, c \in Nat, d \in Nat :
          /\ a = Cardinality({p \in Clients : Held(p) = t /\ Sends(p)})
          /\ b = Cardinality(Occurs(t, channel[KeyOf[t]]))
          /\ c = Cardinality(Occurs(t, pending[KeyOf[t]]))
          /\ d = Cardinality({i \in DOMAIN ready : ready[i] = t})
    BY UnderWayParts
  <2>7. UnderWay(t) = a + b + c + d
    BY <2>6, UnderWayParts
  <2>8. a # 0 \/ b # 0 \/ c # 0 \/ d # 0 \/ t \in taken \union unheard
    BY <2>1, <2>2, <2>3, <2>4, <2>5, <2>6 DEF PendingCopyOf
  <2> QED BY <2>7, <2>8
<1> QED BY <1>1, <1>2, InitTypes, NextTypes, WayNext, PTL DEF Spec

-----------------------------------------------------------------------------
(* One copy of a task that has not come back.                                *)

Places(s, A) == {i \in DOMAIN s : s[i] \in A}
Count(s, A) == Cardinality(Places(s, A))
Of(t) == {c \in Copies : c.task = t}
OneIf(b) == IF b THEN 1 ELSE 0

InHand(t) == Held("poller") = t /\ Sends("poller")
PassedOn(t) ==
  OneIf(InHand(t)) + Count(channel[KeyOf[t]], Of(t)) + Count(pending[KeyOf[t]], Of(t))
  + Count(ready, {t}) + OneIf(t \in taken)

ToStore(t) == Held("poller") = t /\ todo["poller"] # <<>> /\ Head(todo["poller"]) = "store"

OnceInv ==
  /\ todo["loader"] # <<>> => Held("loader") \in again
  /\ todo["caller"] \in ConfirmPrograms => Held("caller") \in again
  /\ \A t \in Tasks \ again :
       PassedOn(t) <= 1 /\ (known[t] = "none" => PassedOn(t) = OneIf(ToStore(t)))

LEMMA CountType ==
  ASSUME NEW S, NEW s \in Seq(S), NEW A
  PROVE  /\ Count(s, A) \in Nat /\ IsFiniteSet(Places(s, A))
         /\ Places(s, A) = {i \in 1..Len(s) : s[i] \in A}
<1>1. Places(s, A) \in SUBSET DOMAIN s /\ DOMAIN s = 1..Len(s)
  BY DEF Places
<1> QED BY <1>1, SomePlaces DEF Count, Places

LEMMA CountOfNothing ==
  ASSUME NEW A PROVE Count(<<>>, A) = 0
<1>1. Places(<<>>, A) = {}
  BY DEF Places
<1> QED BY <1>1, FS_EmptySet DEF Count

LEMMA CountAppend ==
  ASSUME NEW S, NEW s \in Seq(S), NEW x \in S, NEW A
  PROVE  Count(Append(s, x), A) = Count(s, A) + OneIf(x \in A)
<1>0. Append(s, x) \in Seq(S)
  OBVIOUS
<1>1. PICK r \in Seq(S) : r = Append(s, x)
  BY <1>0
<1>2. /\ Len(r) = Len(s) + 1 /\ r[Len(s) + 1] = x /\ \A i \in 1..Len(s) : r[i] = s[i]
      /\ Len(s) \in Nat
  BY <1>1
<1>3. Places(r, A) = {i \in 1..Len(r) : r[i] \in A} /\ Places(s, A) = {i \in 1..Len(s) : s[i] \in A}
  BY CountType
<1>4. CASE x \in A
  <2>1. Places(r, A) = Places(s, A) \union {Len(s) + 1} /\ Len(s) + 1 \notin Places(s, A)
    BY <1>2, <1>3, <1>4
  <2>2. Cardinality(Places(r, A)) = Cardinality(Places(s, A)) + 1
    BY <2>1, CountType, FS_AddElement
  <2> QED BY <1>1, <1>4, <2>2 DEF Count, OneIf
<1>5. CASE x \notin A
  <2>1. Places(r, A) = Places(s, A)
    BY <1>2, <1>3, <1>5
  <2>2. Count(r, A) = Count(s, A) /\ Count(s, A) \in Nat
    BY <2>1, CountType DEF Count
  <2> QED BY <1>1, <1>5, <2>2 DEF OneIf
<1> QED BY <1>4, <1>5

\* ... which counts, or does not.
LEMMA CountAppendIn ==
  ASSUME NEW S, NEW s \in Seq(S), NEW A, NEW x \in S
  PROVE  /\ x \in A => Count(Append(s, x), A) = Count(s, A) + 1
         /\ x \notin A => Count(Append(s, x), A) = Count(s, A)
<1>1. PICK n \in Nat : n = Count(s, A)
  BY CountType
<1>2. Count(Append(s, x), A) = n + OneIf(x \in A)
  BY <1>1, CountAppend
<1> QED BY <1>1, <1>2 DEF OneIf

LEMMA CountTail ==
  ASSUME NEW S, NEW s \in Seq(S), s # <<>>, NEW A
  PROVE  Count(s, A) = Count(Tail(s), A) + OneIf(Head(s) \in A)
<1>0. Tail(s) \in Seq(S)
  OBVIOUS
<1>1. PICK r \in Seq(S) : r = Tail(s)
  BY <1>0
<1>2. /\ Len(s) = Len(r) + 1 /\ s[1] = Head(s) /\ \A i \in 1..Len(r) : r[i] = s[i + 1]
      /\ Len(r) \in Nat
  BY <1>1
<1>3. /\ Places(r, A) = {i \in 1..Len(r) : r[i] \in A} /\ Places(s, A) = {i \in 1..Len(s) : s[i] \in A}
      /\ IsFiniteSet(Places(r, A)) /\ IsFiniteSet(Places(s, A))
      /\ Count(r, A) \in Nat /\ Count(s, A) \in Nat
  BY CountType
<1>4. PICK X : X = Places(r, A)
  OBVIOUS
<1>5. PICK Y : Y = Places(s, A) \ {1}
  OBVIOUS
<1>6. Y = {i \in 2..Len(s) : s[i] \in A}
  BY <1>2, <1>3, <1>5
<1>7. PICK f : f = [i \in X |-> i + 1]
  OBVIOUS
<1>8. \A i \in X : i \in Nat /\ i + 1 \in Y
  BY <1>2, <1>3, <1>4, <1>6
<1>9. \A j \in Y : j - 1 \in X /\ f[j - 1] = j
  <2> TAKE j \in Y
  <2>1. j \in 2..Len(s) /\ s[j] \in A
    BY <1>6
  <2>2. j - 1 \in 1..Len(r) /\ r[j - 1] = s[j]
    BY <1>2, <2>1
  <2>3. j - 1 \in X
    BY <1>3, <1>4, <2>1, <2>2
  <2> QED BY <1>7, <2>1, <2>3
<1>10. f \in Bijection(X, Y)
  <2>1. f \in [X -> Y]
    BY <1>7, <1>8
  <2>2. \A a, b \in X : f[a] = f[b] => a = b
    BY <1>7, <1>8
  <2>3. \A j \in Y : \E i \in X : f[i] = j
    BY <1>9
  <2> QED BY <2>1, <2>2, <2>3 DEF Bijection, Injection, Surjection, IsInjective
<1>11. Cardinality(Y) = Cardinality(X)
  BY <1>3, <1>4, <1>10, FS_Bijection DEF ExistsBijection
<1>12. Cardinality(Y) = IF 1 \in Places(s, A) THEN Count(s, A) - 1 ELSE Count(s, A)
  BY <1>3, <1>5, FS_RemoveElement DEF Count
<1>13. 1 \in Places(s, A) <=> Head(s) \in A
  BY <1>2, <1>3
<1>14. PICK m \in Nat, n \in Nat : m = Count(r, A) /\ n = Count(s, A)
  BY <1>3
<1>15. m = IF Head(s) \in A THEN n - 1 ELSE n
  BY <1>4, <1>11, <1>12, <1>13, <1>14 DEF Count
<1>16. n = m + OneIf(Head(s) \in A)
  BY <1>15 DEF OneIf
<1> QED BY <1>1, <1>14, <1>16

LEMMA CountReorder ==
  ASSUME NEW S, NEW s \in Seq(S), NEW f \in Bijection(DOMAIN s, DOMAIN s), NEW A
  PROVE  Count(Reorder(s, f), A) = Count(s, A)
<1>1. DOMAIN s = 1..Len(s)
  OBVIOUS
<1>2. /\ f \in [1..Len(s) -> 1..Len(s)]
      /\ \A i, j \in 1..Len(s) : f[i] = f[j] => i = j
      /\ \A j \in 1..Len(s) : \E i \in 1..Len(s) : f[i] = j
  BY <1>1 DEF Bijection, Injection, Surjection, IsInjective
<1>3. PICK r \in Seq(S) : r = Reorder(s, f)
  BY ReorderType
<1>4. Len(r) = Len(s) /\ \A i \in 1..Len(s) : r[i] = s[f[i]]
  BY <1>1, <1>3, ReorderType DEF Reorder
<1>5. PICK X : X = {i \in 1..Len(s) : r[i] \in A}
  OBVIOUS
<1>6. PICK Y : Y = {i \in 1..Len(s) : s[i] \in A}
  OBVIOUS
<1>7. X = Places(r, A) /\ Y = Places(s, A) /\ IsFiniteSet(X)
  <2>1. Places(r, A) = {i \in 1..Len(r) : r[i] \in A} /\ IsFiniteSet(Places(r, A))
    BY CountType
  <2>2. Places(s, A) = {i \in 1..Len(s) : s[i] \in A}
    BY CountType
  <2>3. X = {i \in 1..Len(r) : r[i] \in A}
    BY <1>4, <1>5
  <2> QED BY <1>6, <2>1, <2>2, <2>3
<1>8. PICK g : g = [i \in X |-> f[i]]
  OBVIOUS
<1>9. g \in Bijection(X, Y)
  <2>1. g \in [X -> Y]
    BY <1>2, <1>4, <1>5, <1>6, <1>8
  <2>2. \A a, b \in X : g[a] = g[b] => a = b
    BY <1>2, <1>5, <1>8
  <2>3. ASSUME NEW j \in Y PROVE \E i \in X : g[i] = j
    <3>1. PICK i \in 1..Len(s) : f[i] = j
      BY <1>2, <1>6
    <3>2. i \in X
      BY <1>4, <1>5, <1>6, <2>3, <3>1
    <3> QED BY <1>8, <3>1, <3>2
  <2> QED BY <2>1, <2>2, <2>3 DEF Bijection, Injection, Surjection, IsInjective
<1>10. Cardinality(Y) = Cardinality(X)
  BY <1>7, <1>9, FS_Bijection DEF ExistsBijection
<1> QED BY <1>3, <1>7, <1>10 DEF Count

LEMMA PassedOnType ==
  ASSUME Types, NEW t \in Tasks
  PROVE  /\ Count(channel[KeyOf[t]], Of(t)) \in Nat /\ Count(pending[KeyOf[t]], Of(t)) \in Nat
         /\ Count(ready, {t}) \in Nat
         /\ OneIf(InHand(t)) \in {0, 1} /\ OneIf(t \in taken) \in {0, 1}
         /\ KeyOf[t] \in Keys /\ channel[KeyOf[t]] \in Seq(Copies) /\ pending[KeyOf[t]] \in Seq(Copies)
         /\ ready \in Seq(Tasks)
<1>1. channel[KeyOf[t]] \in Seq(Copies) /\ pending[KeyOf[t]] \in Seq(Copies) /\ ready \in Seq(Tasks)
      /\ KeyOf[t] \in Keys
  BY TaskAssumption DEF Types, TypeOK
<1>2. /\ Count(channel[KeyOf[t]], Of(t)) \in Nat /\ Count(pending[KeyOf[t]], Of(t)) \in Nat
      /\ Count(ready, {t}) \in Nat
  BY <1>1, CountType
<1> QED BY <1>1, <1>2 DEF OneIf

\* Of a task that has not come back only the poller holds a copy to send.
LEMMA OnlyThePoller ==
  ASSUME Types, OnceInv, NEW p \in Clients, Sends(p), Held(p) \notin again
  PROVE  p = "poller"
<1>1. todo[p] # <<>>
  BY ProgramRange DEF Sends
<1>2. p # "loader"
  BY <1>1 DEF OnceInv
<1>3. ASSUME todo[p] \in CleanerPrograms \union CompletePrograms PROVE FALSE
  BY <1>3, ProgramRange DEF Sends, CleanerPrograms, CompletePrograms
<1>4. p # "cleaner" /\ p # "caller"
  BY <1>1, <1>3 DEF Types, ClientsOK, OnceInv
<1> QED BY <1>2, <1>4 DEF Clients

LEMMA ToStoreIsInHand ==
  ASSUME Types, NEW t \in Tasks, ToStore(t)
  PROVE  InHand(t)
<1>1. todo["poller"] \in PollerPrograms /\ todo["poller"] # <<>> /\ Head(todo["poller"]) = "store"
      /\ Held("poller") = t
  BY DEF ToStore, Types, ClientsOK
<1>2. todo["poller"] = <<"store", "send", "persist">>
  BY <1>1, OneStep, TwoSteps, ThreeSteps DEF PollerPrograms
<1> QED BY <1>1, <1>2, ProgramRange DEF InHand, Sends

\* What is left of a program does not begin with the map.
LEMMA StoreIsFirst ==
  ASSUME Types, NEW p \in Clients, Step(p), todo'[p] # <<>>
  PROVE  Head(todo'[p]) # "store"
<1>1. todo[p] # <<>> /\ todo[p] \in Programs
  BY OtherClients
<1>2. todo'[p] = <<"sendFirst", "persist">> \/ todo'[p] = Tail(todo[p])
  BY DEF Step, Store, Send, Resend, Persist, Delete, Done, Types, ClientsOK
<1>3. CASE todo'[p] = <<"sendFirst", "persist">>
  BY <1>3, TwoSteps
<1>4. CASE todo'[p] = Tail(todo[p])
  <2>1. PICK x : x = todo'[p]
    OBVIOUS
  <2>2. x \in {<<"send", "persist">>, <<"persist">>, <<"persist", "resend">>,
               <<"persist", "delete">>, <<"resend">>, <<"delete">>}
    BY <1>1, <1>4, <2>1, ProgramSteps
  <2>3. x \in {<<"persist">>, <<"resend">>, <<"delete">>} => Head(x) # "store"
    BY OneStep
  <2>4. CASE x = <<"send", "persist">>
    BY <2>1, <2>4, TwoSteps
  <2>5. CASE x = <<"persist", "resend">>
    BY <2>1, <2>5, TwoSteps
  <2>6. CASE x = <<"persist", "delete">>
    BY <2>1, <2>6, TwoSteps
  <2> QED BY <2>1, <2>2, <2>3, <2>4, <2>5, <2>6
<1> QED BY <1>2, <1>3, <1>4

\* A step of a client keeps the copies of a task together.
LEMMA OnceStep ==
  ASSUME Types, Types', OnceInv, NEW p \in Clients, Step(p)
  PROVE  OnceInv'
<1>1. /\ Held(p) \in Tasks /\ todo[p] # <<>> /\ hand[p] \in Copies /\ HandKey(p) \in Keys
      /\ hand[p].task = Held(p) /\ hand[p].status # "none" /\ HandKey(p) = KeyOf[Held(p)]
      /\ UNCHANGED <<pending, ready, taken>> /\ again \subseteq again'
  BY OtherClients, HandType
     DEF Types, Step, Store, Send, Resend, Persist, Delete, pipe, history, Held, HandKey, Statuses
<1>2. ASSUME todo'["loader"] # <<>> PROVE Held("loader")' \in again'
  BY <1>1, <1>2, OtherClients DEF OnceInv, Held, Clients
<1>3. ASSUME todo'["caller"] \in ConfirmPrograms PROVE Held("caller")' \in again'
  <2>1. CASE p # "caller"
    BY <1>1, <1>3, <2>1, OtherClients DEF OnceInv, Held, Clients
  <2>2. CASE p = "caller"
    <3>1. "resend" \in Range(todo'[p])
      BY <1>3, <2>2, ProgramRange DEF ConfirmPrograms
    <3>2. Sends(p)' /\ todo'[p] # <<>>
      BY <3>1, ProgramRange DEF Sends
    <3>3. Sends(p)
      BY <3>2, SendsStep
    <3>4. todo[p] \notin CompletePrograms
      BY <3>3, ProgramRange DEF Sends, CompletePrograms
    <3>5. todo[p] \in ConfirmPrograms
      BY <1>1, <2>2, <3>4 DEF Types, ClientsOK
    <3> QED BY <1>1, <2>2, <3>2, <3>5, OtherClients DEF OnceInv, Held
  <2> QED BY <2>1, <2>2
<1>4. ASSUME NEW t \in Tasks, t \notin again'
      PROVE  PassedOn(t)' <= 1 /\ (known'[t] = "none" => PassedOn(t)' = OneIf(ToStore(t)'))
  <2>1. t \notin again /\ PassedOn(t) <= 1 /\ (known[t] = "none" => PassedOn(t) = OneIf(ToStore(t)))
    BY <1>1, <1>4 DEF OnceInv
  <2>2. \/ known'[t] = known[t] /\ (Held(p) # t \/ ~Store(p))
        \/ known'[t] # "none" /\ Held(p) = t /\ Store(p)
    BY <1>1, <1>4 DEF Step, Store, Send, Resend, Persist, Delete, Types, TypeOK
  <2>3. ToStore(t)' => FALSE \/ (p # "poller" /\ ToStore(t))
    BY StoreIsFirst, OtherClients DEF ToStore, Held, Clients
  <2>4. ToStore(t) => ToStore(t)' \/ (p = "poller" /\ Held(p) = t /\ Store(p))
    <3>1. CASE p # "poller"
      BY <3>1, OtherClients DEF ToStore, Held, Clients
    <3>2. CASE p = "poller"
      BY <3>2 DEF ToStore, Step, Store, Send, Resend, Persist, Delete, AtStep
    <3> QED BY <3>1, <3>2
  <2>5. CASE Send(p) /\ Held(p) = t
    <3>1. p = "poller" /\ InHand(t) /\ ~InHand(t)'
      BY <2>1, <2>5, OnlyThePoller, SendsStep DEF InHand
    <3>2. Count(channel'[KeyOf[t]], Of(t)) = Count(channel[KeyOf[t]], Of(t)) + 1
      <4>1. hand[p] \in Of(t)
        BY <1>1, <2>5 DEF Of
      <4>2. channel'[KeyOf[t]] = Append(channel[KeyOf[t]], hand[p])
        BY <1>1, <2>5 DEF Send, Types, QueuesOK
      <4>3. PICK q \in Seq(Copies) : q = channel[KeyOf[t]]
        BY PassedOnType
      <4>4. Count(Append(q, hand[p]), Of(t)) = Count(q, Of(t)) + 1
        BY <1>1, <4>1, CountAppendIn
      <4> QED BY <4>2, <4>3, <4>4
    <3>3. PassedOn(t)' = PassedOn(t)
      <4>1. /\ OneIf(InHand(t)) = 1 /\ OneIf(InHand(t)') = 0
        BY <3>1 DEF OneIf
      <4>2. PICK a \in Nat, b \in Nat, c \in Nat, d \in {0, 1} :
              /\ a = Count(channel[KeyOf[t]], Of(t)) /\ b = Count(pending[KeyOf[t]], Of(t))
              /\ c = Count(ready, {t}) /\ d = OneIf(t \in taken)
        BY PassedOnType
      <4>3. PassedOn(t) = 1 + a + b + c + d
        BY <4>1, <4>2 DEF PassedOn
      <4>4. PassedOn(t)' = 0 + (a + 1) + b + c + d
        BY <1>1, <3>2, <4>1, <4>2 DEF PassedOn
      <4> QED BY <4>3, <4>4
    <3>4. ~ToStore(t)' /\ ~ToStore(t)
      BY <2>3, <2>5, <3>1 DEF ToStore, Send, AtStep
    <3>5. OneIf(ToStore(t)') = 0 /\ OneIf(ToStore(t)) = 0
      BY <3>4 DEF OneIf
    <3>6. known'[t] = known[t]
      BY <2>2, <2>5 DEF Send, Store, AtStep
    <3> QED BY <2>1, <3>3, <3>5, <3>6
  <2>6. CASE ~(Send(p) /\ Held(p) = t)
    <3>1. ~(Resend(p) /\ Held(p) = t)
      BY <2>1, SendsStep DEF OnceInv
    <3>2. InHand(t)' = InHand(t)
      <4>1. CASE p # "poller"
        BY <4>1, OtherClients DEF InHand, Sends, Held, Clients
      <4>2. CASE p = "poller" /\ Held(p) = t
        <5>1. Sends(p)' = Sends(p)
          BY <2>6, <3>1, <4>2, SendsStep
        <5>2. Sends(p)' => todo'[p] # <<>>
          BY ProgramRange DEF Sends
        <5> QED BY <4>2, <5>1, <5>2, OtherClients DEF InHand, Held
      <4>3. CASE p = "poller" /\ Held(p) # t
        <5>1. Sends(p)' => Held(p)' # t
          BY <4>3, OtherClients, ProgramRange DEF Sends, Held
        <5> QED BY <4>3, <5>1 DEF InHand
      <4> QED BY <4>1, <4>2, <4>3
    <3>3. Count(channel'[KeyOf[t]], Of(t)) = Count(channel[KeyOf[t]], Of(t))
      <4>1. CASE channel' = channel
        BY <4>1
      <4>2. CASE channel' # channel
        <5>1. Held(p) # t /\ hand[p] \notin Of(t)
          BY <1>1, <2>6, <3>1, <4>2 DEF Step, Store, Send, Resend, Persist, Delete, pipe, Of
        <5>2. channel' = [channel EXCEPT ![HandKey(p)] = Append(channel[HandKey(p)], hand[p])]
          BY <4>2 DEF Step, Store, Send, Resend, Persist, Delete, pipe
        <5>3. CASE HandKey(p) = KeyOf[t]
          <6>1. channel'[KeyOf[t]] = Append(channel[KeyOf[t]], hand[p])
            BY <1>1, <5>2, <5>3 DEF Types, QueuesOK
          <6>2. PICK q \in Seq(Copies) : q = channel[KeyOf[t]]
            BY PassedOnType
          <6>3. Count(Append(q, hand[p]), Of(t)) = Count(q, Of(t))
            BY <1>1, <5>1, CountAppendIn
          <6> QED BY <6>1, <6>2, <6>3
        <5>4. CASE HandKey(p) # KeyOf[t]
          BY <5>2, <5>4, PassedOnType DEF Types, QueuesOK
        <5> QED BY <5>3, <5>4
      <4> QED BY <4>1, <4>2
    <3>4. PassedOn(t)' = PassedOn(t)
      BY <1>1, <3>2, <3>3 DEF PassedOn
    <3>5. known'[t] = "none" => known[t] = "none" /\ (ToStore(t)' <=> ToStore(t))
      BY <2>2, <2>3, <2>4
    <3> QED BY <2>1, <3>4, <3>5 DEF OneIf
  <2> QED BY <2>5, <2>6
<1> QED BY <1>2, <1>3, <1>4 DEF OnceInv

LEMMA OnceNew ==
  ASSUME Types, OnceInv,
         \/ Fetch \/ (\E t \in Tasks : Poll(t)) \/ (\E c \in toLoad : Load(c)) \/ Call
         \/ (\E t \in Tasks : Expire(t))
  PROVE  OnceInv'
<1>1. UNCHANGED <<known, channel, pending, ready, taken>> /\ again \subseteq again'
  BY DEF Fetch, Poll, Load, Call, Expire, pipe, history
<1>2. ASSUME NEW p \in Clients, NEW t, NEW u, NEW x, Does(p, t, u, x)
      PROVE  /\ \A q \in Clients \ {p} : Held(q)' = Held(q) /\ todo'[q] = todo[q]
             /\ Held(p)' = t /\ todo'[p] = x
  BY <1>2 DEF Does, Copy, Types, ClientsOK, Held
<1>3. CASE \E t \in Tasks : Poll(t) /\ ~UNCHANGED clients
  <2>1. PICK s \in Tasks : Poll(s) /\ ~UNCHANGED clients
    BY <1>3
  <2>2. /\ Does("poller", s, Asked[s], EnqueueSteps) /\ known[s] = "none" /\ again' = again
        /\ todo["poller"] = <<>>
    BY <2>1 DEF Poll, Free, history
  <2>3. /\ \A q \in {"loader", "cleaner", "caller"} : Held(q)' = Held(q) /\ todo'[q] = todo[q]
        /\ Held("poller")' = s /\ todo'["poller"] = EnqueueSteps
    BY <1>2, <2>2 DEF Clients
  <2>4. /\ Sends("poller")' /\ Head(EnqueueSteps) = "store" /\ EnqueueSteps # <<>>
        /\ ~Sends("poller")
    BY <2>2, <2>3, ProgramRange, ThreeSteps DEF EnqueueSteps, Sends
  <2>5. ASSUME NEW t \in Tasks, t \notin again
        PROVE  PassedOn(t)' <= 1 /\ (known'[t] = "none" => PassedOn(t)' = OneIf(ToStore(t)'))
    <3>1. PassedOn(t) <= 1 /\ (known[t] = "none" => PassedOn(t) = OneIf(ToStore(t)))
      BY <2>5 DEF OnceInv
    <3>2. ~ToStore(t) /\ ~InHand(t) /\ (ToStore(t)' <=> t = s) /\ (InHand(t)' <=> t = s)
      BY <2>2, <2>3, <2>4 DEF ToStore, InHand
    <3>3. OneIf(ToStore(t)) = 0 /\ OneIf(InHand(t)) = 0
      BY <3>2 DEF OneIf
    <3>4. PICK a \in Nat, b \in Nat, c \in Nat, d \in {0, 1} :
            /\ a = Count(channel[KeyOf[t]], Of(t)) /\ b = Count(pending[KeyOf[t]], Of(t))
            /\ c = Count(ready, {t}) /\ d = OneIf(t \in taken)
      BY PassedOnType
    <3>5. PassedOn(t) = 0 + a + b + c + d
      BY <3>3, <3>4 DEF PassedOn
    <3>6. PICK h : h = OneIf(InHand(t)')
      OBVIOUS
    <3>7. PassedOn(t)' = h + a + b + c + d
      BY <1>1, <3>4, <3>6 DEF PassedOn
    <3>8. h = (IF t = s THEN 1 ELSE 0) /\ OneIf(ToStore(t)') = h
      BY <3>2, <3>6 DEF OneIf
    <3>9. CASE t = s
      <4>1. a + b + c + d = 0
        BY <2>2, <3>1, <3>3, <3>4, <3>5, <3>9
      <4>2. h = 1
        BY <3>8, <3>9
      <4>3. PassedOn(t)' = 1
        BY <3>4, <3>7, <4>1, <4>2
      <4> QED BY <3>8, <4>2, <4>3
    <3>10. CASE t # s
      <4>1. PassedOn(t)' = PassedOn(t) /\ OneIf(ToStore(t)') = 0
        BY <3>4, <3>5, <3>7, <3>8, <3>10
      <4> QED BY <1>1, <3>1, <3>3, <4>1
    <3> QED BY <3>9, <3>10
  <2> QED BY <2>2, <2>3, <2>5 DEF OnceInv
<1>4. CASE ~\E t \in Tasks : Poll(t) /\ ~UNCHANGED clients
  <2>1. Held("poller")' = Held("poller") /\ todo'["poller"] = todo["poller"]
    <3>1. CASE UNCHANGED clients
      BY <3>1 DEF clients, Held
    <3>2. CASE \E c \in toLoad : Load(c)
      BY <1>2, <3>1, <3>2 DEF Load, Clients
    <3>3. CASE Call
      BY <1>2, <3>3 DEF Call, Clients
    <3>4. CASE \E t \in Tasks : Expire(t)
      BY <1>2, <3>4 DEF Expire, Clients
    <3> QED BY <1>4, <3>1, <3>2, <3>3, <3>4 DEF Fetch
  <2>2. ASSUME todo'["loader"] # <<>> PROVE Held("loader")' \in again'
    <3>1. CASE Held("loader")' = Held("loader") /\ todo'["loader"] = todo["loader"]
      BY <1>1, <2>2, <3>1 DEF OnceInv
    <3>2. CASE \E c \in toLoad : Load(c)
      <4>1. PICK c \in toLoad : Load(c)
        BY <3>2
      <4>2. CASE UNCHANGED clients
        BY <3>1, <4>2 DEF clients, Held
      <4>3. CASE ~UNCHANGED clients
        <5>1. again' = again \union {c.task} /\ \E x : Does("loader", c.task, c.status, x)
          BY <4>1, <4>3 DEF Load
        <5> QED BY <1>2, <5>1 DEF Clients
      <4> QED BY <4>2, <4>3
    <3>3. CASE Call
      BY <1>2, <3>1, <3>3 DEF Call, Clients
    <3>4. CASE \E t \in Tasks : Expire(t)
      BY <1>2, <3>1, <3>4 DEF Expire, Clients
    <3>5. CASE UNCHANGED clients
      BY <3>1, <3>5 DEF clients, Held
    <3> QED BY <1>4, <3>2, <3>3, <3>4, <3>5 DEF Fetch
  <2>3. ASSUME todo'["caller"] \in ConfirmPrograms PROVE Held("caller")' \in again'
    <3>1. CASE Held("caller")' = Held("caller") /\ todo'["caller"] = todo["caller"]
      BY <1>1, <2>3, <3>1 DEF OnceInv
    <3>2. CASE \E c \in toLoad : Load(c)
      <4>1. PICK c \in toLoad : Load(c)
        BY <3>2
      <4> QED BY <1>2, <3>1, <4>1 DEF Load, Clients, clients, Held
    <3>3. CASE Call
      <4>1. PICK t \in Tasks :
              \/ /\ Does("caller", t, "pending", <<"store", "persist", "resend">>)
                 /\ again' = again \union {t}
              \/ Does("caller", t, "completed", <<"store", "persist", "delete">>)
        BY <3>3 DEF Call
      <4>2. <<"store", "persist", "delete">> \notin ConfirmPrograms
        <5>1. "delete" \in Range(<<"store", "persist", "delete">>)
          BY ProgramRange
        <5> QED BY <5>1, ProgramRange DEF ConfirmPrograms
      <4>3. ~Does("caller", t, "completed", <<"store", "persist", "delete">>)
        BY <1>2, <2>3, <4>2 DEF Clients
      <4> QED BY <1>2, <4>1, <4>3 DEF Clients
    <3>4. CASE \E t \in Tasks : Expire(t)
      BY <1>2, <3>1, <3>4 DEF Expire, Clients
    <3>5. CASE UNCHANGED clients
      BY <3>1, <3>5 DEF clients, Held
    <3> QED BY <1>4, <3>2, <3>3, <3>4, <3>5 DEF Fetch
  <2>4. ASSUME NEW t \in Tasks
        PROVE  PassedOn(t)' = PassedOn(t) /\ ToStore(t)' = ToStore(t)
    BY <1>1, <2>1 DEF PassedOn, InHand, Sends, ToStore
  <2> QED BY <1>1, <2>2, <2>3, <2>4 DEF OnceInv
<1> QED BY <1>3, <1>4

\* The arithmetic of the next lemma.
LEMMA OneOfThem ==
  ASSUME NEW h \in Nat, NEW a \in Nat, NEW b \in Nat, NEW c \in Nat, NEW d \in Nat, NEW o \in Nat,
         h + a + b + c + d = o, o <= 1, o = 1 => h = 1
  PROVE  b = 0
OBVIOUS

LEMMA OneLess ==
  ASSUME NEW h \in Nat, NEW a \in Nat, NEW b \in Nat, NEW c \in Nat, NEW d \in Nat,
         NEW b2 \in Nat, NEW c2 \in Nat, b = b2 + 1, c2 <= c + 1
  PROVE  /\ h + a + b2 + c2 + d <= h + a + b + c + d
         /\ h + a + b2 + c2 + d \in Nat /\ b # 0
OBVIOUS

\* processKey moves copies on.
LEMMA OnceKey ==
  ASSUME Types, OnceInv, NEW k \in Keys, ProcessKey(k)
  PROVE  OnceInv'
<1>1. UNCHANGED <<clients, known, taken, again>>
  BY DEF ProcessKey, Receive, Tick, Pass, history
<1>2. \A t \in Tasks : InHand(t)' = InHand(t) /\ ToStore(t)' = ToStore(t)
  BY <1>1 DEF InHand, ToStore, Held, Sends, clients
<1>3. SUFFICES ASSUME NEW t \in Tasks, t \notin again
               PROVE  PassedOn(t)' <= 1 /\ (known[t] = "none" => PassedOn(t)' = OneIf(ToStore(t)))
  <2>1. /\ todo'["loader"] # <<>> => Held("loader")' \in again'
        /\ todo'["caller"] \in ConfirmPrograms => Held("caller")' \in again'
    BY <1>1 DEF OnceInv, Held, clients
  <2> QED BY <1>1, <1>2, <1>3, <2>1 DEF OnceInv
<1>4. PassedOn(t) <= 1 /\ (known[t] = "none" => PassedOn(t) = OneIf(ToStore(t)))
  BY <1>3 DEF OnceInv
<1>5. PICK h \in Nat, a \in Nat, b \in Nat, c \in Nat, d \in Nat :
        /\ h = OneIf(InHand(t))
        /\ a = Count(channel[KeyOf[t]], Of(t)) /\ b = Count(pending[KeyOf[t]], Of(t))
        /\ c = Count(ready, {t}) /\ d = OneIf(t \in taken)
  BY PassedOnType
<1>6. PassedOn(t) = h + a + b + c + d
  BY <1>5 DEF PassedOn
<1>7. h = OneIf(InHand(t)') /\ d = OneIf(t \in taken')
  BY <1>1, <1>2, <1>5
<1>8. OneIf(ToStore(t)) \in {0, 1} /\ (OneIf(ToStore(t)) = 1 => h = 1)
  BY <1>5, ToStoreIsInHand DEF OneIf
<1>9. QueueOK(channel) /\ QueueOK(pending)
  BY QueuesAreOK DEF Types
<1>10. PICK q \in Seq(Copies), r \in Seq(Copies) : q = channel[KeyOf[t]] /\ r = pending[KeyOf[t]]
  BY PassedOnType
<1>11. SUFFICES \/ PassedOn(t)' = PassedOn(t)
                \/ b # 0 /\ PassedOn(t)' \in Nat /\ PassedOn(t)' <= PassedOn(t)
  <2>1. PICK o \in Nat : o = OneIf(ToStore(t)) /\ o <= 1
    BY <1>8
  <2>2. h + a + b + c + d <= 1 /\ (known[t] = "none" => h + a + b + c + d = o)
    BY <1>4, <1>6, <2>1
  <2>3. o = 1 => h = 1
    BY <1>8, <2>1
  <2>4. ASSUME known[t] = "none" PROVE b = 0
    <3>1. h + a + b + c + d = o /\ o <= 1
      BY <2>1, <2>2, <2>4
    <3> QED BY <2>3, <3>1, OneOfThem
  <2>5. CASE PassedOn(t)' = PassedOn(t)
    BY <1>4, <2>5
  <2>6. CASE b # 0 /\ PassedOn(t)' \in Nat /\ PassedOn(t)' <= PassedOn(t)
    <3>0. h + a + b + c + d \in Nat
      OBVIOUS
    <3>1. PICK m \in Nat, n \in Nat : m = PassedOn(t)' /\ n = PassedOn(t)
      BY <1>6, <2>6, <3>0
    <3>2. m <= n /\ n <= 1
      BY <1>4, <2>6, <3>1
    <3>3. m <= 1
      BY <3>2
    <3> QED BY <2>4, <2>6, <3>1, <3>3
  <2> QED BY <1>11, <2>5, <2>6
<1>12. PassedOn(t)' = h + Count(channel'[KeyOf[t]], Of(t)) + Count(pending'[KeyOf[t]], Of(t))
                      + Count(ready', {t}) + d
  BY <1>7 DEF PassedOn
<1>13. CASE channel'[KeyOf[t]] = q /\ pending'[KeyOf[t]] = r /\ Count(ready', {t}) = c
  BY <1>5, <1>6, <1>10, <1>12, <1>13
<1>14. CASE Receive(k)
  <2>1. /\ channel[k] # <<>> /\ channel' = [channel EXCEPT ![k] = Tail(channel[k])]
        /\ pending' = [pending EXCEPT ![k] = Append(pending[k], Head(channel[k]))]
        /\ ready' = ready
    BY <1>14 DEF Receive
  <2>2. CASE KeyOf[t] # k
    BY <1>5, <1>9, <1>10, <1>13, <2>1, <2>2 DEF QueueOK
  <2>3. CASE KeyOf[t] = k
    <3>1. q # <<>> /\ channel'[KeyOf[t]] = Tail(q) /\ pending'[KeyOf[t]] = Append(r, Head(q))
      BY <1>9, <1>10, <2>1, <2>3 DEF QueueOK
    <3>2. Head(q) \in Copies /\ Tail(q) \in Seq(Copies)
      BY <3>1
    <3>3. PICK e : e = OneIf(Head(q) \in Of(t))
      OBVIOUS
    <3>4. e \in {0, 1}
      BY <3>3 DEF OneIf
    <3>5. PICK a2 \in Nat : a2 = Count(Tail(q), Of(t))
      BY <3>2, CountType
    <3>6. a = a2 + e
      BY <1>5, <1>10, <3>1, <3>3, <3>5, CountTail
    <3>7. Count(Append(r, Head(q)), Of(t)) = b + e
      BY <1>5, <1>10, <3>2, <3>3, CountAppend
    <3>8. PICK b2 \in Nat : b2 = b + e
      BY <3>4
    <3>9. PassedOn(t)' = h + a2 + b2 + c + d
      BY <1>5, <1>12, <2>1, <3>1, <3>5, <3>7, <3>8
    <3> QED BY <1>6, <3>4, <3>6, <3>8, <3>9
  <2> QED BY <2>2, <2>3
<1>15. CASE Tick(k)
  <2>1. PICK f \in Bijection(DOMAIN pending[k], DOMAIN pending[k]) :
          pending' = [pending EXCEPT ![k] = Reorder(pending[k], f)]
    BY <1>15 DEF Tick
  <2>2. channel' = channel /\ ready' = ready
    BY <1>15 DEF Tick
  <2>3. CASE KeyOf[t] # k
    BY <1>5, <1>9, <1>10, <1>13, <2>1, <2>2, <2>3 DEF QueueOK
  <2>4. CASE KeyOf[t] = k
    <3>1. pending'[KeyOf[t]] = Reorder(r, f) /\ f \in Bijection(DOMAIN r, DOMAIN r)
      BY <1>9, <1>10, <2>1, <2>4 DEF QueueOK
    <3>2. Count(Reorder(r, f), Of(t)) = b
      BY <1>5, <1>10, <3>1, CountReorder
    <3>3. PassedOn(t)' = h + a + b + c + d
      BY <1>5, <1>12, <2>2, <3>1, <3>2
    <3> QED BY <1>6, <3>3
  <2> QED BY <2>3, <2>4
<1>16. CASE Pass(k)
  <2>1. /\ pending[k] # <<>> /\ pending' = [pending EXCEPT ![k] = Tail(pending[k])]
        /\ channel' = channel
        /\ ready' = IF Head(pending[k]).status = "pending"
                    THEN Append(ready, Head(pending[k]).task) ELSE ready
    BY <1>16 DEF Pass, Types, TypeOK
  <2>2. /\ Head(pending[k]) \in CopiesOf(k) /\ Head(pending[k]).task \in Tasks
        /\ Head(pending[k]) \in Copies
    BY <1>9, <2>1, QueueHead
  <2>3. ready \in Seq(Tasks)
    BY PassedOnType
  <2>4. CASE Head(pending[k]).task # t
    <3>1. Head(pending[k]).task \notin {t} /\ Head(pending[k]) \notin Of(t)
      BY <2>4 DEF Of
    <3>2. Count(ready', {t}) = c
      <4>1. PICK y \in Tasks : y = Head(pending[k]).task
        BY <2>2
      <4>2. Count(Append(ready, y), {t}) = Count(ready, {t})
        BY <2>3, <3>1, <4>1, CountAppendIn
      <4> QED BY <1>5, <2>1, <4>1, <4>2
    <3>3. CASE KeyOf[t] # k
      BY <1>9, <1>10, <1>13, <2>1, <3>2, <3>3 DEF QueueOK
    <3>4. CASE KeyOf[t] = k
      <4>1. r # <<>> /\ pending'[KeyOf[t]] = Tail(r) /\ Head(r) \notin Of(t)
        BY <1>9, <1>10, <2>1, <3>1, <3>4 DEF QueueOK
      <4>2. PICK b2 \in Nat : b2 = Count(Tail(r), Of(t))
        <5>1. Tail(r) \in Seq(Copies)
          BY <4>1
        <5> QED BY <5>1, CountType
      <4>3. b = b2 + OneIf(Head(r) \in Of(t))
        BY <1>5, <1>10, <4>1, <4>2, CountTail
      <4>4. b = b2
        BY <4>1, <4>3 DEF OneIf
      <4>5. PassedOn(t)' = h + a + b + c + d
        BY <1>5, <1>12, <2>1, <3>2, <4>1, <4>2, <4>4
      <4> QED BY <1>6, <4>5
    <3> QED BY <3>3, <3>4
  <2>5. CASE Head(pending[k]).task = t
    <3>1. KeyOf[t] = k /\ r # <<>> /\ Head(r) \in Of(t) /\ pending'[KeyOf[t]] = Tail(r)
      BY <1>9, <1>10, <2>1, <2>2, <2>5 DEF CopiesOf, Of, QueueOK
    <3>2. PICK b2 \in Nat : b2 = Count(Tail(r), Of(t))
      <4>1. Tail(r) \in Seq(Copies)
        BY <3>1
      <4> QED BY <4>1, CountType
    <3>3. b = b2 + OneIf(Head(r) \in Of(t))
      BY <1>5, <1>10, <3>1, <3>2, CountTail
    <3>4. b = b2 + 1
      BY <3>1, <3>3 DEF OneIf
    <3>5. Count(Append(ready, t), {t}) = c + 1
      <4>1. t \in {t}
        OBVIOUS
      <4> QED BY <1>5, <2>3, <4>1, CountAppendIn
    <3>6. PICK c2 \in Nat : Count(ready', {t}) = c2 /\ (c2 = c \/ c2 = c + 1)
      BY <1>5, <2>1, <2>5, <3>5
    <3>7. PassedOn(t)' = h + a + b2 + c2 + d
      BY <1>5, <1>12, <2>1, <3>1, <3>2, <3>6
    <3>8. c2 <= c + 1
      BY <3>6
    <3>9. /\ h + a + b2 + c2 + d <= h + a + b + c + d
          /\ h + a + b2 + c2 + d \in Nat /\ b # 0
      BY <3>4, <3>8, OneLess
    <3> QED BY <1>6, <3>7, <3>9
  <2> QED BY <2>4, <2>5
<1> QED BY <1>14, <1>15, <1>16 DEF ProcessKey

LEMMA OnceNext == Types /\ Types' /\ OnceInv /\ [Next]_vars => OnceInv'
<1> SUFFICES ASSUME Types, Types', OnceInv, [Next]_vars PROVE OnceInv'
  OBVIOUS
<1>1. ASSUME UNCHANGED <<clients, known, channel, pending, ready, taken, again>> PROVE OnceInv'
  BY <1>1 DEF OnceInv, PassedOn, InHand, ToStore, Sends, Held, clients
<1>2. ASSUME NEW w \in Workers, Work(w) PROVE OnceInv'
  <2>1. CASE Finish(w)
    BY <1>1, <2>1 DEF Finish, history, pipe
  <2>2. CASE Take(w)
    <3>1. /\ ready # <<>> /\ ready' = Tail(ready) /\ taken' = taken \union {Head(ready)}
          /\ UNCHANGED <<clients, known, channel, pending, again>>
      BY <2>2 DEF Take
    <3>2. \A t \in Tasks : InHand(t)' = InHand(t) /\ ToStore(t)' = ToStore(t)
      BY <3>1 DEF InHand, ToStore, Held, Sends, clients
    <3>3. ASSUME NEW t \in Tasks, t \notin again PROVE PassedOn(t)' = PassedOn(t)
      <4>1. PICK h \in {0, 1}, a \in Nat, b \in Nat, c \in Nat, d \in {0, 1} :
              /\ h = OneIf(InHand(t))
              /\ a = Count(channel[KeyOf[t]], Of(t)) /\ b = Count(pending[KeyOf[t]], Of(t))
              /\ c = Count(ready, {t}) /\ d = OneIf(t \in taken)
        BY PassedOnType
      <4>2. PassedOn(t) = h + a + b + c + d
        BY <4>1 DEF PassedOn
      <4>3. PassedOn(t) <= 1
        BY <3>3 DEF OnceInv
      <4>4. PICK c2 \in Nat : c2 = Count(Tail(ready), {t})
        <5>1. ready \in Seq(Tasks)
          BY PassedOnType
        <5>2. Tail(ready) \in Seq(Tasks)
          BY <3>1, <5>1
        <5> QED BY <5>2, CountType
      <4>5. c = c2 + OneIf(Head(ready) \in {t})
        BY <3>1, <4>1, <4>4, PassedOnType, CountTail
      <4>6. PICK d2 : d2 = OneIf(t \in taken')
        OBVIOUS
      <4>7. PassedOn(t)' = h + a + b + c2 + d2
        BY <3>1, <3>2, <4>1, <4>4, <4>6 DEF PassedOn
      <4>8. CASE Head(ready) = t
        <5>1. c = c2 + 1
          BY <4>5, <4>8 DEF OneIf
        <5>2. d2 = 1
          BY <3>1, <4>6, <4>8 DEF OneIf
        <5>3. d = 0
          BY <4>1, <4>2, <4>3, <4>4, <5>1
        <5> QED BY <4>1, <4>2, <4>4, <4>7, <5>1, <5>2, <5>3
      <4>9. CASE Head(ready) # t
        <5>1. c = c2
          BY <4>4, <4>5, <4>9 DEF OneIf
        <5>2. d2 = d
          BY <3>1, <4>1, <4>6, <4>9 DEF OneIf
        <5> QED BY <4>2, <4>7, <5>1, <5>2
      <4> QED BY <4>8, <4>9
    <3>4. /\ todo'["loader"] # <<>> => Held("loader")' \in again'
          /\ todo'["caller"] \in ConfirmPrograms => Held("caller")' \in again'
      BY <3>1 DEF OnceInv, Held, clients
    <3> QED BY <3>1, <3>2, <3>3, <3>4 DEF OnceInv
  <2> QED BY <1>2, <2>1, <2>2 DEF Work
<1>3. CASE GatewayRestarts \/ Restart \/ Midnight \/ UNCHANGED vars
  BY <1>1, <1>3 DEF GatewayRestarts, Restart, Midnight, vars, history, pipe
<1>4. CASE Crash
  <2>1. /\ \A p \in Clients : todo'[p] = <<>>
        /\ \A k \in Keys : channel'[k] = <<>> /\ pending'[k] = <<>>
        /\ ready' = <<>> /\ taken' = {}
    BY <1>4 DEF Crash, MemoryLost
  <2>2. ~Sends("poller")' /\ todo'["caller"] \notin ConfirmPrograms
    BY <2>1, ProgramRange, OneStep, TwoSteps, ThreeSteps DEF Sends, Clients, ConfirmPrograms
  <2>3. ASSUME NEW t \in Tasks PROVE PassedOn(t)' = 0 /\ OneIf(ToStore(t)') = 0
    <3>1. ~InHand(t)' /\ ~ToStore(t)'
      BY <2>1, <2>2 DEF InHand, ToStore, Clients
    <3>2. OneIf(InHand(t)') = 0 /\ OneIf(ToStore(t)') = 0 /\ OneIf(t \in taken') = 0
      BY <2>1, <3>1 DEF OneIf
    <3>3. /\ Count(channel'[KeyOf[t]], Of(t)) = 0 /\ Count(pending'[KeyOf[t]], Of(t)) = 0
          /\ Count(ready', {t}) = 0
      BY <2>1, CountOfNothing, PassedOnType
    <3> QED BY <3>2, <3>3 DEF PassedOn
  <2> QED BY <2>1, <2>2, <2>3 DEF OnceInv, Clients
<1>5. ASSUME \/ Fetch \/ (\E t \in Tasks : Poll(t)) \/ (\E c \in toLoad : Load(c)) \/ Call
             \/ (\E t \in Tasks : Expire(t))
      PROVE  OnceInv'
  BY <1>5, OnceNew
<1> QED BY <1>2, <1>3, <1>4, <1>5, OnceStep, OnceKey
        DEF Next, PollGateway, LoadTasks, Clean, Called, Clients

\* For any capacities and any interleaving of the clients, of the goroutines of
\* the keys and of the workers: in one life of the process a task that has not
\* come back is under way once or has been taken, not both (queue.go 41-50).
THEOREM PassedOnOnceHolds == Spec => []PassedOnOnce
<1>1. Init => OnceInv
  <2> SUFFICES ASSUME Init PROVE OnceInv
    OBVIOUS
  <2>1. /\ \A p \in Clients : todo[p] = <<>>
        /\ \A k \in Keys : channel[k] = <<>> /\ pending[k] = <<>>
        /\ ready = <<>> /\ taken = {}
    BY DEF Init, EmptyMemory
  <2>2. ~Sends("poller") /\ todo["caller"] \notin ConfirmPrograms
    BY <2>1, ProgramRange, OneStep, TwoSteps, ThreeSteps DEF Sends, Clients, ConfirmPrograms
  <2>3. ASSUME NEW t \in Tasks PROVE PassedOn(t) = 0 /\ OneIf(ToStore(t)) = 0
    <3>1. ~InHand(t) /\ ~ToStore(t)
      BY <2>1, <2>2 DEF InHand, ToStore, Clients
    <3>2. OneIf(InHand(t)) = 0 /\ OneIf(ToStore(t)) = 0 /\ OneIf(t \in taken) = 0
      BY <2>1, <3>1 DEF OneIf
    <3>3. /\ Count(channel[KeyOf[t]], Of(t)) = 0 /\ Count(pending[KeyOf[t]], Of(t)) = 0
          /\ Count(ready, {t}) = 0
      <4>1. KeyOf[t] \in Keys
        BY TaskAssumption
      <4> QED BY <2>1, <4>1, CountOfNothing
    <3> QED BY <3>2, <3>3 DEF PassedOn
  <2> QED BY <2>1, <2>2, <2>3 DEF OnceInv, Clients
<1>2. Types /\ OnceInv => PassedOnOnce
  <2> SUFFICES ASSUME Types, OnceInv, NEW t \in Tasks, t \notin again
               PROVE  UnderWay(t) + (IF t \in taken THEN 1 ELSE 0) <= 1
    BY DEF PassedOnOnce
  <2>1. PICK h \in {0, 1}, a \in Nat, b \in Nat, c \in Nat, d \in {0, 1} :
          /\ h = OneIf(InHand(t))
          /\ a = Count(channel[KeyOf[t]], Of(t)) /\ b = Count(pending[KeyOf[t]], Of(t))
          /\ c = Count(ready, {t}) /\ d = OneIf(t \in taken)
    BY PassedOnType
  <2>2. h + a + b + c + d <= 1
    BY <2>1 DEF OnceInv, PassedOn
  <2>3. PICK H : H = {p \in Clients : Held(p) = t /\ Sends(p)}
    OBVIOUS
  <2>4. Cardinality(H) = h
    <3>1. CASE InHand(t)
      <4>1. H = {"poller"}
        BY <2>3, <3>1, OnlyThePoller DEF InHand, Clients
      <4> QED BY <2>1, <3>1, <4>1, FS_Singleton DEF OneIf
    <3>2. CASE ~InHand(t)
      <4>1. H = {}
        BY <2>3, <3>2, OnlyThePoller DEF InHand
      <4> QED BY <2>1, <3>2, <4>1, FS_EmptySet DEF OneIf
    <3> QED BY <3>1, <3>2
  <2>5. ASSUME NEW s \in Seq(Copies) PROVE Occurs(t, s) = Places(s, Of(t))
    BY DEF Occurs, Places, Of
  <2>6. /\ Cardinality(Occurs(t, channel[KeyOf[t]])) = a
        /\ Cardinality(Occurs(t, pending[KeyOf[t]])) = b
    BY <2>1, <2>5, PassedOnType DEF Count
  <2>7. Cardinality({i \in DOMAIN ready : ready[i] = t}) = c
    <3>1. {i \in DOMAIN ready : ready[i] = t} = Places(ready, {t})
      BY DEF Places
    <3> QED BY <2>1, <3>1 DEF Count
  <2>8. UnderWay(t) = h + a + b + c
    BY <2>3, <2>4, <2>6, <2>7, UnderWayParts
  <2> QED BY <2>1, <2>2, <2>8 DEF OneIf
<1> QED BY <1>1, <1>2, InitTypes, NextTypes, OnceNext, PTL DEF Spec
=============================================================================
