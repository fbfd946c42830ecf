---------------------------- MODULE DialogProofs ----------------------------
(***************************************************************************)
(* What holds of the dialogs of the legacy deployer for any number of      *)
(* handlers, dialogs and environments, and any overlapping of updates.     *)
(***************************************************************************)
EXTENDS Dialog, SequenceTheorems, FiniteSetTheorems, TLAPS

-----------------------------------------------------------------------------
(* Types.  A handler past its load holds a dialog that has been made, and   *)
(* there is room for the dialogs that are being made.                       *)

Empty == {"idle", "load", "store"}
Calling == {"load", "signal", "remove", "store"}
Choosing == {"select", "toEnv", "toggle", "toVersion", "toConfirm"}
Showing == {"clear", "answer", "edit", "wipe", "prompt"}
Points == Empty \union Calling \union Choosing \union Showing
          \union {"show", "check", "expire", "submit", "send", "discard", "close"}

HandlerOK ==
  /\ pc \in [Handlers -> Points]
  /\ \A h \in Handlers :
       /\ pc[h] \in Empty => held[h] = NoDialog
       /\ pc[h] \notin Empty => held[h] \in Made
       /\ pc[h] \in Calling => text[h] \in Calls
       /\ pc[h] = "store" => text[h] = "start"
       /\ pc[h] = "toggle" => text[h] \in Envs

Room == Cardinality(Made) + Cardinality(Making) <= Cardinality(Dialogs)

Types == TypeOK /\ HandlerOK /\ Room

-----------------------------------------------------------------------------
(* Ends *)

\* Two handlers at one dialog have been noticed, a dialog that is closed, or about
\* to be, is no longer in the map, and who edits the last message alone finds it.
Apart ==
  /\ \A g, h \in Handlers : held[g] = held[h] /\ held[g] # NoDialog => g = h \/ held[g] \in contended
  /\ \A d \in closed : d \in Made /\ current # d
  /\ \A h \in Handlers : /\ pc[h] = "close" => current # held[h]
                         /\ held[h] \in closed => held[h] \in contended
                         /\ pc[h] = "edit" => held[h] \in filled \union contended
  /\ PanicNeedsTwo

\* One handler makes a dialog and starts its monitor.
MakerOK ==
  \A h \in Handlers : pc[h] = "show" =>
    /\ monitor[held[h]] = "none"
    /\ \A g \in Handlers : pc[g] = "show" /\ held[g] = held[h] => g = h

Closing(d) == \E h \in Handlers : held[h] = d /\ pc[h] = "close"

\* A dialog that is no longer in the map has a monitor that knows, or will know
\* before it waits, or that has missed it.
Told(d) ==
  current # d =>
    /\ d \in Made /\ monitor[d] \in {"none", "started"} =>
         d \in untold \/ Closing(d) \/ d \in closed
    /\ monitor[d] \in {"waiting", "removing"} => d \in untold \/ Closing(d)

ToldInv ==
  /\ MakerOK
  /\ \A d \in Dialogs : d \notin Made => monitor[d] = "none"
  /\ \A h \in Handlers : pc[h] = "remove" =>
       held[h] \in untold \/ monitor[held[h]] = "ended"
  /\ \A d \in Dialogs : Told(d)

-----------------------------------------------------------------------------
(* What is submitted *)

\* The user was shown what he has chosen, or the prompt could not be sent.
Asked(d) == shown[d] = envs[d] \/ d \in unseen

\* What a handler has read of its dialog is still so.
Reading(h, d) ==
  /\ pc[h] \in {"select", "toEnv"} => stage[d] = "service"
  /\ pc[h] = "toEnv" => selected[d]
  /\ pc[h] \in {"toggle", "toVersion"} => stage[d] = "env"
  /\ pc[h] = "toVersion" => envs[d] # {}
  /\ pc[h] = "toConfirm" => stage[d] = "version"
  /\ pc[h] \in {"wipe", "prompt", "submit", "send"} => stage[d] = "confirm"
  /\ pc[h] = "submit" => Asked(d)

\* The stages come in their order ...
InOrder(d) ==
  /\ stage[d] \in {"env", "version", "confirm", "continue"} => selected[d]
  /\ stage[d] \in {"version", "confirm", "continue"} => envs[d] # {}
  /\ stage[d] = "confirm" =>
       Asked(d) \/ \E h \in Handlers : held[h] = d /\ pc[h] \in {"wipe", "prompt"}

\* ... and nobody comes back to one that has been submitted.
Final(d) ==
  /\ submitted[d] = <<envs[d]>> /\ Asked(d) /\ selected[d] /\ envs[d] # {} /\ d \in Made
  /\ \A h \in Handlers : held[h] = d =>
       stage[d] = "continue" \/ pc[h] \in {"send", "discard", "close"}
  /\ current = d =>
       \/ stage[d] = "continue"
       \/ \E h \in Handlers : held[h] = d /\ pc[h] \in {"send", "discard"}

DialogOK(d) ==
  d \notin contended =>
    /\ InOrder(d)
    /\ submitted[d] = <<>> \/ Final(d)
    /\ \A h \in Handlers : held[h] = d => Reading(h, d)

ShownInv == \A d \in Dialogs : DialogOK(d)

-----------------------------------------------------------------------------

LEMMA InitTypes == Init => Types
<1> SUFFICES ASSUME Init PROVE Types
  OBVIOUS
<1>1. Made = {} /\ Making = {}
  BY DEF Init, Made, Making
<1>2. Room
  BY <1>1, FS_EmptySet, FS_CardinalityType, BoundAssumption DEF Room
<1>3. HandlerOK
  BY <1>1 DEF Init, HandlerOK, Points, Empty, Calling, Choosing, Showing
<1>4. TypeOK
  <2>1. selected \in [Dialogs -> BOOLEAN] /\ panicked \in BOOLEAN
    BY Zenon DEF Init
  <2>2. submitted \in [Dialogs -> Seq(SUBSET Envs)]
    BY DEF Init
  <2>3. envs \in [Dialogs -> SUBSET Envs] /\ shown \in [Dialogs -> SUBSET Envs]
    BY DEF Init
  <2> QED BY <2>1, <2>2, <2>3, BoundAssumption DEF Init, TypeOK
<1> QED BY <1>2, <1>3, <1>4 DEF Types

LEMMA HeldType ==
  ASSUME HandlerOK, TypeOK, NEW h \in Handlers, pc[h] \notin Empty
  PROVE  held[h] \in Dialogs /\ held[h] \in Made /\ held[h] # NoDialog /\ stage[held[h]] # "none"
BY NullAssumption DEF HandlerOK, Made

LEMMA Counts ==
  /\ IsFiniteSet(Made) /\ IsFiniteSet(Making)
  /\ Cardinality(Made) \in Nat /\ Cardinality(Making) \in Nat /\ Cardinality(Dialogs) \in Nat
<1>1. Made \subseteq Dialogs /\ Making \subseteq Handlers
  BY DEF Made, Making
<1>2. IsFiniteSet(Made) /\ IsFiniteSet(Making)
  BY <1>1, FS_Subset, BoundAssumption
<1> QED BY <1>2, FS_CardinalityType, BoundAssumption

\* There is a dialog left for a handler that is to store one.
LEMMA UnusedIsFree ==
  ASSUME Types, NEW h \in Handlers, pc[h] = "store"
  PROVE  Unused \in Dialogs \ Made
<1>1. h \in Making
  BY DEF Types, HandlerOK, Calling, Making
<1>2. Cardinality(Making) # 0
  BY <1>1, Counts, FS_EmptySet
<1>3. Cardinality(Made) < Cardinality(Dialogs)
  BY <1>2, Counts DEF Types, Room
<1>4. ~(Dialogs \subseteq Made)
  BY <1>3, Counts, FS_Subset
<1> QED BY <1>4 DEF Unused

LEMMA RoomKept ==
  ASSUME Room, Made' = Made, Making' \subseteq Making
  PROVE  Room'
<1>1. /\ IsFiniteSet(Making') /\ Cardinality(Making') <= Cardinality(Making)
      /\ Cardinality(Making') \in Nat
  BY Counts, FS_Subset, FS_CardinalityType
<1> QED BY <1>1, Counts DEF Room

\* A step of one handler leaves the others where they are.
Others(h) ==
  \A g \in Handlers \ {h} : pc'[g] = pc[g] /\ held'[g] = held[g] /\ text'[g] = text[g]

LEMMA HandlerStep ==
  ASSUME Types, NEW h \in Handlers, Others(h), Made \subseteq Made', pc' \in [Handlers -> Points],
         /\ pc'[h] \in Empty => held'[h] = NoDialog
         /\ pc'[h] \notin Empty => held'[h] \in Made'
         /\ pc'[h] \in Calling => text'[h] \in Calls
         /\ pc'[h] = "store" => text'[h] = "start"
         /\ pc'[h] = "toggle" => text'[h] \in Envs
  PROVE  /\ HandlerOK'
         /\ (pc'[h] \in Calling /\ text'[h] = "start" => h \in Making) => Making' \subseteq Making
<1>1. HandlerOK'
  BY DEF Types, HandlerOK, Others
<1>2. ASSUME pc'[h] \in Calling /\ text'[h] = "start" => h \in Making
      PROVE  Making' \subseteq Making
  BY <1>2 DEF Making, Others, Calling
<1> QED BY <1>1, <1>2

LEMMA OthersKept ==
  ASSUME Types, NEW h \in Handlers, Update(h) \/ Handle(h)
  PROVE  Others(h)
<1> USE DEF Types, TypeOK, HandlerOK, Others
<1>1. ASSUME CancelDialog(h) \/ StartDialog(h) \/ ProcessDialog(h) PROVE Others(h)
  BY <1>1 DEF CancelDialog, StartDialog, ProcessDialog, Arrives, Begins, Goto, Load
<1>2. ASSUME LoadToCancel(h) \/ Signal(h) \/ Remove(h) PROVE Others(h)
  BY <1>2 DEF LoadToCancel, Signal, Remove, Cancelled, Returns, Begins, Goto, Load
<1>3. ASSUME StoreDialog(h) \/ ShowServices(h) PROVE Others(h)
  BY <1>3 DEF StoreDialog, ShowServices, Returns, Begins, Goto
<1>4. ASSUME Check(h) \/ Expire(h) \/ Choose(h) PROVE Others(h)
  BY <1>4 DEF Check, Expire, Choose, Returns, Begins, Goto
<1>5. ASSUME Submit(h) \/ Send(h) \/ Discard(h) \/ Close(h) PROVE Others(h)
  BY <1>5 DEF Submit, Send, Discard, Close, Returns, Begins, Goto
<1>6. ASSUME Shows(h) PROVE Others(h)
  BY <1>6 DEF Shows, Clear, Answer, Edit, Prompt, Returns, Begins, Goto
<1> QED BY <1>1, <1>2, <1>3, <1>4, <1>5, <1>6
        DEF Update, Handle, Cancels, Starts, Processes

\* A handler that makes nothing keeps the room there is.
LEMMA StepTypes ==
  ASSUME Types, NEW h \in Handlers, Update(h) \/ Handle(h), TypeOK',
         Made' = Made, pc' \in [Handlers -> Points],
         /\ pc'[h] \in Empty => held'[h] = NoDialog
         /\ pc'[h] \notin Empty => held'[h] \in Made'
         /\ pc'[h] \in Calling => text'[h] \in Calls
         /\ pc'[h] = "store" => text'[h] = "start"
         /\ pc'[h] = "toggle" => text'[h] \in Envs
         /\ pc'[h] \in Calling /\ text'[h] = "start" => h \in Making
  PROVE  Types'
<1>1. HandlerOK' /\ Making' \subseteq Making
  BY OthersKept, HandlerStep
<1> QED BY <1>1, RoomKept DEF Types

LEMMA CancelTypes ==
  ASSUME Types, NEW h \in Handlers, CancelDialog(h) \/ Cancels(h) PROVE Types'
<1> USE DEF Points, Empty, Calling, Choosing, Showing
<1>0. Update(h) \/ Handle(h)
  BY DEF Update, Handle
<1>1. CASE CancelDialog(h)
  <2>1. pc[h] = "idle" /\ pc'[h] = "load" /\ text'[h] = "close" /\ held' = held
        /\ pc' \in [Handlers -> Points]
    BY <1>1 DEF CancelDialog, At, Arrives, Begins, Goto, Types, HandlerOK, TypeOK
  <2>2. TypeOK' /\ Made' = Made
    <3>1. overlaps' \in 0..MaxOverlaps
      BY <1>1, BoundAssumption DEF CancelDialog, Arrives, Types, TypeOK
    <3>2. text' \in [Handlers -> Texts \union Calls \union {NoText}]
      BY <1>1 DEF CancelDialog, Arrives, Begins, Types, TypeOK, Calls
    <3> QED BY <1>1, <3>1, <3>2 DEF CancelDialog, choices, history, Types, TypeOK, Made
  <2> QED BY <1>0, <2>1, <2>2, StepTypes DEF Types, HandlerOK, Calls
<1>2. ASSUME Cancelled(h), pc[h] \in {"load", "remove"}
      PROVE  /\ pc' \in [Handlers -> Points] /\ held' \in [Handlers -> Dialogs \union {NoDialog}]
             /\ text' \in [Handlers -> Texts \union Calls \union {NoText}]
             /\ held'[h] = NoDialog
             /\ pc'[h] = "idle" \/ (pc'[h] = "store" /\ text'[h] = "start" /\ h \in Making)
  BY <1>2 DEF Cancelled, Returns, Begins, Goto, Types, HandlerOK, TypeOK, Making
<1>3. CASE LoadToCancel(h)
  <2>0. pc[h] = "load" /\ stage' = stage /\ Made' = Made
    BY <1>3 DEF LoadToCancel, At, choices, Made
  <2>1. CASE current = NoDialog /\ Cancelled(h) /\ UNCHANGED contended
    <3>1. TypeOK'
      BY <1>2, <1>3, <2>0, <2>1 DEF LoadToCancel, choices, clock, Types, TypeOK
    <3> QED BY <1>0, <1>2, <2>0, <2>1, <3>1, StepTypes DEF Calls
  <2>2. CASE current # NoDialog /\ Load(h) /\ Goto(h, "signal") /\ UNCHANGED text
    <3>1. current \in Made /\ current \in Dialogs
      BY <2>2 DEF Types, TypeOK, Made
    <3>2. /\ pc' \in [Handlers -> Points] /\ pc'[h] = "signal" /\ held'[h] = current
          /\ held' \in [Handlers -> Dialogs \union {NoDialog}]
          /\ contended' \subseteq Dialogs
      BY <2>2, <3>1 DEF Load, Goto, Types, HandlerOK, TypeOK
    <3>3. TypeOK'
      BY <1>3, <2>2, <3>2 DEF LoadToCancel, choices, clock, Types, TypeOK
    <3>4. text[h] = "start" => h \in Making
      BY <2>0 DEF Making
    <3>5. text[h] \in Calls
      BY <2>0 DEF Types, HandlerOK
    <3> QED BY <1>0, <2>0, <2>2, <3>1, <3>2, <3>3, <3>4, <3>5, StepTypes
  <2> QED BY <1>3, <2>1, <2>2 DEF LoadToCancel
<1>4. CASE Signal(h)
  <2>1. pc[h] = "signal" /\ pc' \in [Handlers -> Points] /\ pc'[h] = "remove"
        /\ UNCHANGED <<held, text>> /\ Made' = Made
    BY <1>4 DEF Signal, At, Goto, Types, HandlerOK, choices, Made
  <2>2. held[h] \in Dialogs /\ held[h] \in Made
    BY <2>1, HeldType DEF Types
  <2>3. TypeOK'
    <3>1. panicked' \in BOOLEAN
      <4>1. panicked' = TRUE \/ panicked' = panicked
        BY <1>4 DEF Signal
      <4> QED BY <4>1, Zenon DEF Types, TypeOK
    <3>2. /\ monitor' \in [Dialogs -> {"none", "started", "waiting", "removing", "ended"}]
          /\ \A d \in closed : monitor'[d] # "waiting"
          /\ untold' \subseteq Dialogs
      BY <1>4, <2>2 DEF Signal, Types, TypeOK
    <3> QED BY <1>4, <3>1, <3>2 DEF Signal, choices, clock, Types, TypeOK
  <2>4. text[h] \in Calls /\ (text[h] = "start" => h \in Making)
    BY <2>1 DEF Making, Types, HandlerOK
  <2> QED BY <1>0, <2>1, <2>2, <2>3, <2>4, StepTypes
<1>5. CASE Remove(h)
  <2>0. pc[h] = "remove" /\ Cancelled(h) /\ Made' = Made
    BY <1>5 DEF Remove, At, choices, Made
  <2>1. TypeOK'
    BY <1>2, <1>5, <2>0 DEF Remove, Delete, choices, clock, Types, TypeOK
  <2> QED BY <1>0, <1>2, <2>0, <2>1, StepTypes DEF Calls
<1> QED BY <1>1, <1>3, <1>4, <1>5 DEF Cancels

LEMMA StartTypes ==
  ASSUME Types, NEW h \in Handlers, StartDialog(h) \/ Starts(h) PROVE Types'
<1> USE DEF Points, Empty, Calling, Choosing, Showing
<1>0. Others(h)
  BY OthersKept DEF Update, Handle
<1>1. CASE StartDialog(h)
  <2>1. /\ pc[h] = "idle" /\ pc'[h] \in {"store", "load"} /\ text'[h] = "start" /\ held' = held
        /\ pc' \in [Handlers -> Points]
    BY <1>1 DEF StartDialog, At, Arrives, Begins, Goto, Types, HandlerOK, TypeOK
  <2>2. TypeOK' /\ Made' = Made
    <3>1. overlaps' \in 0..MaxOverlaps
      BY <1>1, BoundAssumption DEF StartDialog, Arrives, Types, TypeOK
    <3>2. text' \in [Handlers -> Texts \union Calls \union {NoText}]
      BY <1>1 DEF StartDialog, Arrives, Begins, Types, TypeOK, Calls
    <3> QED BY <1>1, <3>1, <3>2 DEF StartDialog, choices, history, Types, TypeOK, Made
  <2>3. HandlerOK'
    BY <1>0, <2>1, <2>2, HandlerStep DEF Calls, Types, HandlerOK
  <2>4. Room'
    <3>1. Making' \subseteq Making \union {h}
      BY <1>0 DEF Others, Making
    <3>2. /\ IsFiniteSet(Making \union {h})
          /\ Cardinality(Making \union {h}) <= Cardinality(Making) + 1
          /\ Cardinality(Making \union {h}) \in Nat
      <4>1. CASE h \in Making
        <5>1. Making \union {h} = Making
          BY <4>1
        <5>2. Cardinality(Making) <= Cardinality(Making) + 1
          BY Counts
        <5> QED BY <5>1, <5>2, Counts, Zenon
      <4>2. CASE h \notin Making
        <5>1. /\ IsFiniteSet(Making \union {h})
              /\ Cardinality(Making \union {h}) = Cardinality(Making) + 1
          BY <4>2, Counts, FS_AddElement
        <5> QED BY <5>1, Counts
      <4> QED BY <4>1, <4>2
    <3>3. Cardinality(Making') <= Cardinality(Making \union {h}) /\ Cardinality(Making') \in Nat
      BY <3>1, <3>2, FS_Subset, FS_CardinalityType
    <3>4. Cardinality(Made) + Cardinality(Making) < Cardinality(Dialogs)
      BY <1>1 DEF StartDialog
    <3> QED BY <2>2, <3>2, <3>3, <3>4, Counts DEF Room
  <2> QED BY <2>2, <2>3, <2>4 DEF Types
<1>2. CASE StoreDialog(h)
  <2>1. pc[h] = "store" /\ text' = text /\ pc' = [pc EXCEPT ![h] = "show"]
    BY <1>2 DEF StoreDialog, At, Goto
  <2>2. PICK d \in Dialogs \ Made : d = Unused
    BY <2>1, UnusedIsFree
  <2>3. /\ stage' = [stage EXCEPT ![d] = "service"] /\ held' = [held EXCEPT ![h] = d]
        /\ current' = d
    BY <1>2, <2>2 DEF StoreDialog
  <2>4. Made' = Made \union {d}
    BY <2>2, <2>3 DEF Made, Types, TypeOK
  <2>5. TypeOK'
    <3>1. filled' \subseteq Dialogs
      BY <1>2, <2>2 DEF StoreDialog, MayFill, Types, TypeOK
    <3> QED BY <1>2, <2>2, <2>3, <3>1 DEF StoreDialog, clock, Types, TypeOK
  <2>6. pc' \in [Handlers -> Points] /\ pc'[h] = "show" /\ held'[h] = d
    BY <2>1, <2>3 DEF Types, HandlerOK, TypeOK
  <2>7. HandlerOK'
    BY <1>0, <2>4, <2>6, HandlerStep
  <2>8. Room'
    <3>1. h \in Making /\ Making' \subseteq Making \ {h}
      BY <1>0, <2>1, <2>6 DEF Making, Others, Types, HandlerOK
    <3>2. /\ IsFiniteSet(Making \ {h})
          /\ Cardinality(Making \ {h}) = Cardinality(Making) - 1
      BY <3>1, Counts, FS_RemoveElement
    <3>3. Cardinality(Making') <= Cardinality(Making \ {h}) /\ Cardinality(Making') \in Nat
      BY <3>1, <3>2, FS_Subset, FS_CardinalityType
    <3>4. Cardinality(Made') = Cardinality(Made) + 1
      BY <2>2, <2>4, Counts, FS_AddElement
    <3> QED BY <3>2, <3>3, <3>4, Counts DEF Types, Room
  <2> QED BY <2>5, <2>7, <2>8 DEF Types
<1>3. CASE ShowServices(h)
  <2>1. /\ pc[h] = "show" /\ pc' \in [Handlers -> Points] /\ pc'[h] = "idle"
        /\ held' \in [Handlers -> Dialogs \union {NoDialog}] /\ held'[h] = NoDialog
        /\ text' \in [Handlers -> Texts \union Calls \union {NoText}]
    BY <1>3 DEF ShowServices, At, Returns, Begins, Goto, Types, HandlerOK, TypeOK
  <2>2. held[h] \in Dialogs
    BY <2>1, HeldType DEF Types
  <2>3. TypeOK' /\ Made' = Made
    <3>1. filled' \subseteq Dialogs
      BY <1>3, <2>2 DEF ShowServices, MayFill, Types, TypeOK
    <3> QED BY <1>3, <2>1, <2>2, <3>1 DEF ShowServices, clock, history, Types, TypeOK, Made
  <2> QED BY <2>1, <2>3, StepTypes, <1>3 DEF Handle, Starts
<1> QED BY <1>1, <1>2, <1>3 DEF Starts

\* What a reaction says of the stage it was decided at.
LEMMA ReactionMeans ==
  ASSUME NEW d, NEW x, NEW r, r = Reaction(d, x)
  PROVE  /\ r \in {"discard", "select", "toEnv", "toggle", "toVersion", "toConfirm",
                   "submit", "idle"}
         /\ r = "select" => stage[d] = "service"
         /\ r = "toEnv" => stage[d] = "service" /\ selected[d]
         /\ r = "toggle" => stage[d] = "env" /\ x \in Envs
         /\ r = "toVersion" => stage[d] = "env" /\ envs[d] # {}
         /\ r = "toConfirm" => stage[d] = "version"
         /\ r = "submit" => stage[d] = "confirm"
         /\ stage[d] = "continue" => r = "idle"
BY DEF Reaction

\* The steps at the end of which a handler goes on to a point where it holds its
\* dialog still, or lets it go.
LEMMA MoveTypes ==
  ASSUME Types, NEW h \in Handlers, pc[h] \notin Empty,
         NEW p \in Points \ (Empty \union Calling), Goto(h, p), UNCHANGED <<held, text>>,
         p = "toggle" => text[h] \in Envs
  PROVE  /\ pc' \in [Handlers -> Points] /\ pc'[h] = p
         /\ held'[h] = held[h] /\ held'[h] \in Made
         /\ held' \in [Handlers -> Dialogs \union {NoDialog}]
         /\ text' \in [Handlers -> Texts \union Calls \union {NoText}]
BY DEF Goto, Types, HandlerOK, TypeOK

LEMMA ReturnTypes ==
  ASSUME Types, NEW h \in Handlers, Returns(h)
  PROVE  /\ pc' \in [Handlers -> Points] /\ pc'[h] = "idle" /\ held'[h] = NoDialog
         /\ held' \in [Handlers -> Dialogs \union {NoDialog}]
         /\ text' \in [Handlers -> Texts \union Calls \union {NoText}]
BY DEF Returns, Begins, Goto, Types, HandlerOK, TypeOK, Points, Empty

LEMMA LookTypes ==
  ASSUME Types, NEW h \in Handlers, ProcessDialog(h) \/ Check(h) \/ Expire(h) PROVE Types'
<1> USE DEF Points, Empty, Calling, Choosing, Showing
<1>0. Update(h) \/ Handle(h)
  BY DEF Update, Handle, Processes
<1>1. CASE ProcessDialog(h)
  <2>1. PICK x \in Texts : Arrives(h, x, "check")
    BY <1>1 DEF ProcessDialog
  <2>2. current \in Made /\ current \in Dialogs
    BY <1>1 DEF ProcessDialog, Types, TypeOK, Made
  <2>3. /\ pc' \in [Handlers -> Points] /\ pc'[h] = "check" /\ held'[h] = current
        /\ held' \in [Handlers -> Dialogs \union {NoDialog}]
        /\ contended' \subseteq Dialogs
        /\ text' \in [Handlers -> Texts \union Calls \union {NoText}]
    BY <1>1, <2>1, <2>2 DEF ProcessDialog, Load, Arrives, Begins, Goto, Types, HandlerOK, TypeOK
  <2>4. overlaps' \in 0..MaxOverlaps
    BY <2>1, BoundAssumption DEF Arrives, Types, TypeOK
  <2>5. TypeOK' /\ Made' = Made
    BY <1>1, <2>3, <2>4 DEF ProcessDialog, choices, Types, TypeOK, Made
  <2> QED BY <1>0, <2>2, <2>3, <2>5, StepTypes
<1>2. CASE Check(h)
  <2>1. PICK r : r = IF held[h] \in old THEN "expire" ELSE Reaction(held[h], text[h])
    OBVIOUS
  <2>2. /\ r \in Points \ (Calling \union {"load", "store"})
        /\ r = "toggle" => text[h] \in Envs
    BY <2>1, ReactionMeans
  <2>3. /\ pc[h] = "check"
        /\ IF r = "idle" THEN Returns(h) ELSE Goto(h, r) /\ UNCHANGED <<held, text>>
    BY <1>2, <2>1 DEF Check, At
  <2>4. Made' = Made
    BY <1>2 DEF Check, choices, Made
  <2>5. CASE r = "idle"
    <3>1. TypeOK'
      BY <1>2, <2>3, <2>5, ReturnTypes DEF Check, choices, clock, history, Types, TypeOK
    <3> QED BY <1>0, <2>3, <2>4, <2>5, <3>1, ReturnTypes, StepTypes
  <2>6. CASE r # "idle"
    <3>1. /\ pc' \in [Handlers -> Points] /\ pc'[h] = r
          /\ held'[h] \in Made /\ UNCHANGED <<held, text>>
      BY <2>2, <2>3, <2>6, MoveTypes
    <3>2. TypeOK'
      BY <1>2, <3>1 DEF Check, choices, clock, history, Types, TypeOK
    <3> QED BY <1>0, <2>2, <2>4, <2>6, <3>1, <3>2, StepTypes
  <2> QED BY <2>5, <2>6
<1>3. CASE Expire(h)
  <2>1. pc[h] = "expire" /\ Returns(h) /\ Made' = Made
    BY <1>3 DEF Expire, At, choices, Made
  <2>2. held[h] \in Dialogs
    BY <2>1, HeldType DEF Types
  <2>3. TypeOK'
    BY <1>3, <2>1, <2>2, ReturnTypes DEF Expire, choices, clock, Types, TypeOK
  <2> QED BY <1>0, <2>1, <2>3, ReturnTypes, StepTypes
<1> QED BY <1>1, <1>2, <1>3

LEMMA ChooseTypes ==
  ASSUME Types, NEW h \in Handlers, Choose(h) \/ Send(h) PROVE Types'
<1> USE DEF Points, Empty, Calling, Choosing, Showing
<1>0. Update(h) \/ Handle(h)
  BY DEF Handle, Processes
<1>1. pc[h] \in {"select", "toEnv", "toggle", "toVersion", "toConfirm", "send"}
  BY DEF Choose, Send, At
<1>2. held[h] \in Dialogs /\ held[h] \in Made /\ held[h] # NoDialog
  BY <1>1, HeldType DEF Types
<1>3. /\ stage' \in [Dialogs -> {"none", "service", "env", "version", "confirm", "continue"}]
      /\ Made' = Made
  <2>1. \/ stage' = stage
        \/ \E s \in {"env", "version", "confirm", "continue"} : Enters(held[h], s)
    BY DEF Choose, Send
  <2>2. CASE stage' = stage
    BY <2>2 DEF Types, TypeOK, Made
  <2>3. ASSUME NEW s \in {"env", "version", "confirm", "continue"}, Enters(held[h], s)
        PROVE  /\ stage' \in [Dialogs -> {"none", "service", "env", "version", "confirm", "continue"}]
               /\ Made' = Made
    BY <1>2, <2>3 DEF Enters, Types, TypeOK, Made
  <2> QED BY <2>1, <2>2, <2>3
<1>4. current' # NoDialog => stage'[current'] # "none"
  BY <1>3 DEF Made, Types, TypeOK, Choose, Send
<1>5. selected' \in [Dialogs -> BOOLEAN]
  <2>1. selected' = selected \/ selected' = [selected EXCEPT ![held[h]] = TRUE]
    BY DEF Choose, Send
  <2>2. selected \in [Dialogs -> BOOLEAN]
    BY Zenon DEF Types, TypeOK
  <2> QED BY <2>1, <2>2
<1>6. envs' \in [Dialogs -> SUBSET Envs]
  <2>1. CASE UNCHANGED envs
    BY <2>1 DEF Types, TypeOK
  <2>2. CASE pc[h] = "toggle" /\ envs' = [envs EXCEPT ![held[h]] = Toggle(@, text[h])]
    <3>1. text[h] \in Envs /\ envs[held[h]] \in SUBSET Envs
      BY <1>2, <2>2 DEF Types, HandlerOK, TypeOK
    <3>2. Toggle(envs[held[h]], text[h]) \in SUBSET Envs
      BY <3>1 DEF Toggle
    <3> QED BY <2>2, <3>2 DEF Types, TypeOK
  <2> QED BY <2>1, <2>2 DEF Choose, Send, At
<1>7. \/ Returns(h)
      \/ \E p \in Showing \union {"discard"} : Goto(h, p) /\ UNCHANGED <<held, text>>
  BY DEF Choose, Send
<1>8. UNCHANGED <<current, submitted, closed, monitor, old, overlaps, panicked, shown,
                  filled, unseen, contended, untold>>
  BY DEF Choose, Send, clock, history
<1>9. CASE Returns(h)
  <2>1. TypeOK'
    BY <1>3, <1>4, <1>5, <1>6, <1>8, <1>9, ReturnTypes DEF Types, TypeOK
  <2> QED BY <1>0, <1>3, <1>9, <2>1, ReturnTypes, StepTypes
<1>10. ASSUME NEW p \in Showing \union {"discard"}, Goto(h, p), UNCHANGED <<held, text>>
       PROVE  Types'
  <2>1. /\ pc' \in [Handlers -> Points] /\ pc'[h] = p
        /\ held'[h] \in Made /\ UNCHANGED <<held, text>>
    BY <1>1, <1>10, MoveTypes
  <2>2. TypeOK'
    BY <1>3, <1>4, <1>5, <1>6, <1>8, <2>1 DEF Types, TypeOK
  <2> QED BY <1>0, <1>3, <2>1, <2>2, StepTypes
<1> QED BY <1>7, <1>9, <1>10

\* What a handler shows the user changes no choice.
LEMMA ShowTypes ==
  ASSUME Types, NEW h \in Handlers, Shows(h) PROVE Types'
<1> USE DEF Points, Empty, Calling, Choosing, Showing
<1>0. Handle(h)
  BY DEF Handle, Processes
<1>1. /\ pc[h] \in Showing
      /\ UNCHANGED <<current, stage, selected, envs, submitted, closed, monitor, old, overlaps,
                     contended, untold>>
  BY DEF Shows, Clear, Answer, Edit, Prompt, At, clock, history
<1>2. held[h] \in Dialogs /\ held[h] \in Made /\ Made' = Made
  BY <1>1, HeldType DEF Types, Made
<1>3. /\ filled' \union unseen' \subseteq Dialogs
      /\ shown' \in [Dialogs -> SUBSET Envs]
  <2>1. filled' \subseteq filled \union {held[h]} /\ unseen' \subseteq unseen \union {held[h]}
    BY DEF Shows, Clear, Answer, Edit, Prompt, MayFill, history
  <2>2. shown' = shown \/ shown' = [shown EXCEPT ![held[h]] = envs[held[h]]]
    BY DEF Shows, Clear, Answer, Edit, Prompt, history
  <2> QED BY <1>2, <2>1, <2>2 DEF Types, TypeOK
<1>4. panicked' \in BOOLEAN
  <2>1. panicked' = panicked \/ panicked' \in {FALSE, held[h] \notin filled}
    BY DEF Shows, Clear, Answer, Edit, Prompt
  <2> QED BY <2>1, Zenon DEF Types, TypeOK
<1>5. \/ Returns(h)
      \/ \E p \in Showing : Goto(h, p) /\ UNCHANGED <<held, text>>
  BY DEF Shows, Clear, Answer, Edit, Prompt
<1>6. CASE Returns(h)
  <2>1. TypeOK'
    BY <1>1, <1>3, <1>4, <1>6, ReturnTypes DEF Types, TypeOK
  <2> QED BY <1>0, <1>2, <1>6, <2>1, ReturnTypes, StepTypes
<1>7. ASSUME NEW p \in Showing, Goto(h, p), UNCHANGED <<held, text>>
      PROVE  Types'
  <2>1. /\ pc' \in [Handlers -> Points] /\ pc'[h] = p
        /\ held'[h] \in Made /\ UNCHANGED <<held, text>>
    BY <1>1, <1>7, MoveTypes
  <2>2. TypeOK'
    BY <1>1, <1>3, <1>4, <2>1 DEF Types, TypeOK
  <2> QED BY <1>0, <1>2, <2>1, <2>2, StepTypes
<1> QED BY <1>5, <1>6, <1>7

LEMMA EndTypes ==
  ASSUME Types, NEW h \in Handlers, Submit(h) \/ Discard(h) \/ Close(h) PROVE Types'
<1> USE DEF Points, Empty, Calling, Choosing, Showing
<1>0. Update(h) \/ Handle(h)
  BY DEF Handle, Processes
<1>1. /\ pc[h] \in {"submit", "discard", "close"}
      /\ held[h] \in Dialogs /\ held[h] \in Made
  <2>1. pc[h] \in {"submit", "discard", "close"}
    BY DEF Submit, Discard, Close, At
  <2> QED BY <2>1, HeldType DEF Types
<1>2. Made' = Made
  BY DEF Submit, Discard, Close, choices, Made
<1>4. CASE Submit(h)
  <2>1. submitted' \in [Dialogs -> Seq(SUBSET Envs)]
    <3>1. envs[held[h]] \in SUBSET Envs /\ submitted[held[h]] \in Seq(SUBSET Envs)
      BY <1>1 DEF Types, TypeOK
    <3>2. Append(submitted[held[h]], envs[held[h]]) \in Seq(SUBSET Envs)
      BY <3>1, AppendProperties
    <3> QED BY <1>4, <3>2 DEF Submit, Types, TypeOK
  <2>2. /\ pc' \in [Handlers -> Points] /\ pc'[h] = "send"
        /\ held'[h] \in Made /\ UNCHANGED <<held, text>>
    BY <1>1, <1>4, MoveTypes DEF Submit
  <2>3. TypeOK'
    BY <1>4, <2>1, <2>2 DEF Submit, clock, history, Types, TypeOK
  <2> QED BY <1>0, <1>2, <2>2, <2>3, StepTypes
<1>5. CASE Discard(h)
  <2>1. /\ pc' \in [Handlers -> Points] /\ pc'[h] = "close"
        /\ held'[h] \in Made /\ UNCHANGED <<held, text>>
    BY <1>1, <1>5, MoveTypes DEF Discard
  <2>2. TypeOK'
    BY <1>5, <2>1 DEF Discard, Delete, choices, clock, Types, TypeOK
  <2> QED BY <1>0, <1>2, <2>1, <2>2, StepTypes
<1>6. CASE Close(h)
  <2>1. panicked' \in BOOLEAN
    <3>1. panicked' = TRUE \/ panicked' = panicked
      BY <1>6 DEF Close
    <3> QED BY <3>1, Zenon DEF Types, TypeOK
  <2>2. /\ monitor' = [monitor EXCEPT ![held[h]] = IF @ = "waiting" THEN "ended" ELSE @]
        /\ closed' = closed \union {held[h]}
        /\ untold' \subseteq untold \union {held[h]}
    BY <1>6 DEF Close
  <2>3. /\ monitor' \in [Dialogs -> {"none", "started", "waiting", "removing", "ended"}]
        /\ \A d \in closed' : monitor'[d] # "waiting"
        /\ closed' \union untold' \subseteq Dialogs
    BY <1>1, <2>2 DEF Types, TypeOK
  <2>4. TypeOK'
    BY <1>6, <2>1, <2>3, ReturnTypes DEF Close, choices, clock, Types, TypeOK
  <2> QED BY <1>0, <1>2, <1>6, <2>4, ReturnTypes, StepTypes DEF Close
<1> QED BY <1>4, <1>5, <1>6

LEMMA MonitorTypes ==
  ASSUME Types, NEW d \in Dialogs, Monitor(d) \/ Age(d) PROVE Types'
<1>1. UNCHANGED <<stage, selected, envs, filled, submitted, closed, pc, held, text, panicked,
                  overlaps, shown, unseen, contended>>
  BY DEF Monitor, Wait, Timeout, RemoveTimedOut, Age, choices, clock, handlers, history
<1>2. Made' = Made /\ Making' = Making
  BY <1>1 DEF Made, Making
<1>3. HandlerOK' /\ Room'
  BY <1>1, <1>2 DEF Types, HandlerOK, Room
<1>4. /\ monitor' \in [Dialogs -> {"none", "started", "waiting", "removing", "ended"}]
      /\ \A e \in closed : monitor'[e] # "waiting"
  BY DEF Monitor, Wait, Timeout, RemoveTimedOut, Age, Types, TypeOK
<1>5. old' \union untold' \subseteq Dialogs /\ (current' = current \/ current' = NoDialog)
  BY DEF Monitor, Wait, Timeout, RemoveTimedOut, Delete, Age, clock, history, Types, TypeOK
<1>6. TypeOK'
  BY <1>1, <1>4, <1>5 DEF Types, TypeOK
<1> QED BY <1>3, <1>6 DEF Types

LEMMA NextTypes == Types /\ [Next]_vars => Types'
<1> SUFFICES ASSUME Types, [Next]_vars PROVE Types'
  OBVIOUS
<1>1. ASSUME NEW h \in Handlers, Update(h) \/ Handle(h) PROVE Types'
  BY <1>1, CancelTypes, StartTypes, LookTypes, ChooseTypes, ShowTypes, EndTypes
     DEF Update, Handle, Cancels, Starts, Processes
<1>2. CASE UNCHANGED vars
  <2>1. Made' = Made /\ Making' = Making
    BY <1>2 DEF vars, choices, handlers, Made, Making
  <2> QED BY <1>2, <2>1 DEF vars, choices, clock, handlers, history, Types, TypeOK, HandlerOK, Room
<1> QED BY <1>1, <1>2, MonitorTypes DEF Next

\* Every variable keeps its type: in particular there is always a dialog for who
\* is to store one, what the map holds has been made, and no monitor waits at a
\* closed channel (dialog.go 49-79, 700-728).
THEOREM TypeCorrect == Spec => []TypeOK
<1>1. Types => TypeOK
  BY DEF Types
<1> QED BY <1>1, InitTypes, NextTypes, PTL DEF Spec
-----------------------------------------------------------------------------
(* The end of a dialog is final *)

LEMMA InitApart == Init => Apart
BY DEF Init, Apart, PanicNeedsTwo

LEMMA ApartKept ==
  ASSUME Types, Types', Apart, closed' = closed, Made \subseteq Made', contended \subseteq contended',
         current' \in {current, NoDialog},
         \A g \in Handlers :
           /\ held'[g] \in {held[g], NoDialog}
           /\ pc'[g] = "close" => pc[g] = "close" \/ current' = NoDialog
           /\ pc'[g] = "edit" =>
                \/ pc[g] = "edit" /\ filled \subseteq filled'
                \/ held'[g] \in filled' \union contended',
         panicked' => panicked \/ contended' # {}
  PROVE  Apart'
<1>1. \A g, h \in Handlers :
        held'[g] = held'[h] /\ held'[g] # NoDialog => g = h \/ held'[g] \in contended'
  BY DEF Apart
<1>2. \A d \in closed' : d \in Made' /\ current' # d
  BY NullAssumption DEF Apart, Types, TypeOK
<1>3. ASSUME NEW h \in Handlers, pc'[h] = "close" PROVE current' # held'[h]
  <2>1. held'[h] # NoDialog /\ held'[h] = held[h]
    <3>1. held'[h] \in Made'
      BY <1>3 DEF Types, HandlerOK, Empty
    <3> QED BY <3>1, NullAssumption DEF Made
  <2> QED BY <1>3, <2>1 DEF Apart
<1>4. \A h \in Handlers : held'[h] \in closed' => held'[h] \in contended'
  BY NullAssumption DEF Apart, Types, TypeOK
<1>5. ASSUME NEW h \in Handlers, pc'[h] = "edit" PROVE held'[h] \in filled' \union contended'
  <2>1. held'[h] # NoDialog /\ held'[h] = held[h]
    <3>1. held'[h] \in Made'
      BY <1>5 DEF Types, HandlerOK, Empty
    <3> QED BY <3>1, NullAssumption DEF Made
  <2> QED BY <1>5, <2>1 DEF Apart
<1>6. PanicNeedsTwo'
  BY DEF Apart, PanicNeedsTwo
<1> QED BY <1>1, <1>2, <1>3, <1>4, <1>5, <1>6 DEF Apart

\* A handler that does not come to the edit of a message, when Messages keeps what
\* it has, and one that empties it.
LEMMA EditKept ==
  ASSUME Apart, NEW h \in Handlers, Others(h), pc'[h] # "edit", contended \subseteq contended',
         filled \subseteq filled' \/ filled' = filled \ {held[h]},
         held[h] # NoDialog \/ filled \subseteq filled'
  PROVE  \A g \in Handlers : pc'[g] = "edit" =>
           \/ pc[g] = "edit" /\ filled \subseteq filled'
           \/ held'[g] \in filled' \union contended'
<1> SUFFICES ASSUME NEW g \in Handlers, pc'[g] = "edit", ~(filled \subseteq filled')
             PROVE  held'[g] \in filled' \union contended'
  BY DEF Others
<1>1. g # h /\ pc[g] = "edit" /\ held'[g] = held[g] /\ filled' = filled \ {held[h]}
  BY DEF Others
<1>2. held[g] = held[h] => held[g] \in contended
  BY <1>1 DEF Apart
<1>3. held[g] \in filled \union contended
  BY <1>1 DEF Apart
<1> QED BY <1>1, <1>2, <1>3

LEMMA LoadApart ==
  ASSUME Types, Apart, NEW h \in Handlers, Load(h), Others(h), current \in Made,
         UNCHANGED <<closed, current, stage, filled, panicked>>, pc'[h] \notin {"close", "edit"}
  PROVE  Apart'
<1>1. /\ held' = [held EXCEPT ![h] = current] /\ contended \subseteq contended'
      /\ \A g \in Handlers \ {h} : held[g] = current => current \in contended'
  BY DEF Load
<1>2. /\ held'[h] = current /\ Made' = Made
      /\ \A g \in Handlers \ {h} : held'[g] = held[g] /\ pc'[g] = pc[g]
  BY <1>1 DEF Others, Made, Types, TypeOK
<1>3. \A g, k \in Handlers :
        held'[g] = held'[k] /\ held'[g] # NoDialog => g = k \/ held'[g] \in contended'
  BY <1>1, <1>2 DEF Apart
<1>4. \A g \in Handlers : /\ pc'[g] = "close" => current' # held'[g]
                          /\ held'[g] \in closed' => held'[g] \in contended'
                          /\ pc'[g] = "edit" => held'[g] \in filled' \union contended'
  BY <1>1, <1>2 DEF Apart
<1>5. PanicNeedsTwo'
  BY <1>1 DEF Apart, PanicNeedsTwo
<1> QED BY <1>2, <1>3, <1>4, <1>5 DEF Apart

LEMMA StoreApart ==
  ASSUME Types, Apart, NEW h \in Handlers, StoreDialog(h)
  PROVE  Apart'
<1>0. pc[h] = "store" /\ Others(h)
  BY OthersKept DEF StoreDialog, At, Update, Handle, Starts
<1>1. PICK d \in Dialogs \ Made : d = Unused
  BY <1>0, UnusedIsFree
<1>2. /\ held'[h] = d /\ current' = d /\ pc'[h] = "show"
      /\ stage' = [stage EXCEPT ![d] = "service"]
      /\ UNCHANGED <<closed, panicked, contended>> /\ filled \subseteq filled'
  BY <1>0, <1>1 DEF StoreDialog, MayFill, Goto, Types, HandlerOK, TypeOK
<1>3. Made \subseteq Made'
  BY <1>1, <1>2 DEF Made, Types, TypeOK
<1>4. \A g \in Handlers \ {h} : /\ held'[g] = held[g] /\ pc'[g] = pc[g]
                                /\ held[g] # d
  BY <1>0, <1>1, NullAssumption DEF Others, Types, HandlerOK
<1>5. \A e \in closed : e \in Made /\ e # d
  BY <1>1 DEF Apart
<1>6. \A g, k \in Handlers :
        held'[g] = held'[k] /\ held'[g] # NoDialog => g = k \/ held'[g] \in contended'
  BY <1>2, <1>4 DEF Apart
<1>7. \A g \in Handlers : /\ pc'[g] = "close" => current' # held'[g]
                          /\ held'[g] \in closed' => held'[g] \in contended'
                          /\ pc'[g] = "edit" => held'[g] \in filled' \union contended'
  BY <1>2, <1>4, <1>5 DEF Apart
<1>8. PanicNeedsTwo'
  BY <1>2 DEF Apart, PanicNeedsTwo
<1> QED BY <1>2, <1>3, <1>5, <1>6, <1>7, <1>8 DEF Apart

LEMMA CloseApart ==
  ASSUME Types, Types', Apart, NEW h \in Handlers, Close(h)
  PROVE  Apart'
<1>0. pc[h] = "close" /\ Returns(h) /\ Others(h)
  BY OthersKept DEF Close, At, Handle, Processes
<1>1. /\ held'[h] = NoDialog /\ pc'[h] = "idle"
      /\ \A g \in Handlers \ {h} : held'[g] = held[g] /\ pc'[g] = pc[g]
  BY <1>0, ReturnTypes DEF Others
<1>2. /\ closed' = closed \union {held[h]} /\ Made' = Made
      /\ UNCHANGED <<current, filled, contended>>
      /\ panicked' => panicked \/ held[h] \in closed
  BY DEF Close, choices, Made
<1>3. held[h] \in Dialogs /\ held[h] \in Made /\ held[h] # NoDialog /\ current # held[h]
  BY <1>0, HeldType DEF Types, Empty, Apart
<1>4. \A d \in closed' : d \in Made' /\ current' # d
  BY <1>2, <1>3 DEF Apart
<1>5. \A g, k \in Handlers :
        held'[g] = held'[k] /\ held'[g] # NoDialog => g = k \/ held'[g] \in contended'
  BY <1>1, <1>2 DEF Apart
<1>6. \A g \in Handlers : /\ pc'[g] = "close" => current' # held'[g]
                          /\ pc'[g] = "edit" => held'[g] \in filled' \union contended'
  BY <1>1, <1>2 DEF Apart
<1>7. ASSUME NEW g \in Handlers, held'[g] \in closed' PROVE held'[g] \in contended'
  <2>1. NoDialog \notin closed'
    BY NullAssumption DEF Types, TypeOK
  <2>2. g # h /\ held[g] # NoDialog
    BY <1>1, <1>7, <2>1
  <2> QED BY <1>1, <1>2, <1>7, <2>2 DEF Apart
<1>8. PanicNeedsTwo'
  BY <1>2 DEF Apart, PanicNeedsTwo
<1> QED BY <1>4, <1>5, <1>6, <1>7, <1>8 DEF Apart

LEMMA NextApart ==
  ASSUME Types, Types', Apart, [Next]_vars PROVE Apart'
<1>1. ASSUME NEW h \in Handlers, CancelDialog(h) \/ StartDialog(h) PROVE Apart'
  <2>1. /\ Others(h) /\ pc'[h] \notin {"close", "edit"}
        /\ UNCHANGED <<held, closed, current, contended, panicked, stage, filled>>
    BY <1>1, OthersKept
       DEF Update, CancelDialog, StartDialog, Arrives, Begins, Goto, choices, history,
           Types, HandlerOK
  <2>2. \A g \in Handlers : pc'[g] \in {"close", "edit"} => pc[g] = pc'[g]
    BY <2>1 DEF Others
  <2> QED BY <2>1, <2>2, ApartKept DEF Made
<1>2. ASSUME NEW h \in Handlers, ProcessDialog(h) PROVE Apart'
  <2>1. /\ Others(h) /\ Load(h) /\ pc'[h] \notin {"close", "edit"}
        /\ UNCHANGED <<closed, current, panicked, stage, filled>>
    BY <1>2, OthersKept
       DEF Update, ProcessDialog, Arrives, Begins, Goto, choices, Types, HandlerOK
  <2>2. current \in Made
    BY <1>2 DEF ProcessDialog, Types, TypeOK, Made
  <2> QED BY <2>1, <2>2, LoadApart
<1>3. ASSUME NEW h \in Handlers, LoadToCancel(h) PROVE Apart'
  <2>0. Others(h) /\ UNCHANGED <<closed, current, panicked, stage, filled>>
    BY <1>3, OthersKept DEF LoadToCancel, choices, Handle, Cancels
  <2>1. CASE current # NoDialog /\ Load(h) /\ Goto(h, "signal")
    <3>1. current \in Made /\ pc'[h] \notin {"close", "edit"}
      BY <2>1 DEF Goto, Types, HandlerOK, TypeOK, Made
    <3> QED BY <2>0, <2>1, <3>1, LoadApart
  <2>2. CASE Cancelled(h) /\ UNCHANGED contended
    <3>1. pc'[h] \notin {"close", "edit"} /\ held'[h] = NoDialog
      BY <2>2 DEF Cancelled, Returns, Begins, Goto, Types, HandlerOK, TypeOK
    <3> QED BY <2>0, <2>2, <3>1, ApartKept DEF Made, Others
  <2> QED BY <1>3, <2>1, <2>2 DEF LoadToCancel
<1>4. ASSUME NEW h \in Handlers, Signal(h) PROVE Apart'
  <2>1. /\ Others(h) /\ pc'[h] = "remove" /\ pc[h] = "signal"
        /\ UNCHANGED <<held, closed, current, contended, stage, filled>>
        /\ panicked' => panicked \/ held[h] \in closed
    BY <1>4, OthersKept DEF Signal, At, Goto, choices, Types, HandlerOK, Handle, Cancels
  <2> QED BY <2>1, ApartKept DEF Made, Others, Apart
<1>5. ASSUME NEW h \in Handlers, Remove(h) PROVE Apart'
  <2>1. Others(h) /\ Cancelled(h) /\ current' = NoDialog
        /\ UNCHANGED <<closed, contended, stage, filled, panicked>>
    BY <1>5, OthersKept DEF Remove, Delete, choices, Handle, Cancels
  <2>2. held'[h] = NoDialog /\ pc'[h] # "edit"
    BY <2>1 DEF Cancelled, Returns, Begins, Goto, Types, HandlerOK, TypeOK
  <2> QED BY <2>1, <2>2, ApartKept DEF Made, Others
<1>6. ASSUME NEW h \in Handlers, ShowServices(h) \/ Expire(h) \/ Answer(h) \/ Edit(h) \/ Prompt(h)
      PROVE  Apart'
  <2>1. /\ Others(h) /\ Returns(h) /\ current' \in {current, NoDialog}
        /\ UNCHANGED <<closed, contended, stage>> /\ filled \subseteq filled'
    BY <1>6, OthersKept
       DEF ShowServices, Expire, Answer, Edit, Prompt, MayFill, choices, history, Handle, Starts,
           Processes, Shows
  <2>2. panicked' => panicked \/ contended' # {}
    <3>1. CASE Edit(h)
      <4>1. pc[h] = "edit" /\ panicked' \in {FALSE, held[h] \notin filled}
        BY <3>1 DEF Edit, At
      <4> QED BY <2>1, <4>1 DEF Apart
    <3>2. CASE ShowServices(h) \/ Expire(h) \/ Answer(h) \/ Prompt(h)
      BY <3>2 DEF ShowServices, Expire, Answer, Prompt
    <3> QED BY <1>6, <3>1, <3>2
  <2>3. pc'[h] = "idle" /\ held'[h] = NoDialog
    BY <2>1, ReturnTypes
  <2> QED BY <2>1, <2>2, <2>3, ApartKept DEF Made, Others
<1>7. ASSUME NEW h \in Handlers, Check(h) \/ Choose(h) \/ Clear(h) \/ Submit(h) \/ Send(h)
      PROVE  Apart'
  <2>1. Others(h) /\ UNCHANGED <<current, closed, contended, panicked>> /\ Made \subseteq Made'
    <3>1. UNCHANGED stage \/ \E d \in Dialogs, s \in {"env", "version", "confirm", "continue"} :
            Enters(d, s)
      BY <1>7, HeldType DEF Check, Choose, Clear, Submit, Send, choices, At, Types, Empty
    <3>2. Made \subseteq Made'
      BY <3>1 DEF Enters, Made, Types, TypeOK
    <3> QED BY <1>7, <3>2, OthersKept
            DEF Check, Choose, Clear, Submit, Send, history, Handle, Processes, Shows
  <2>2. /\ held'[h] \in {held[h], NoDialog} /\ pc'[h] # "close"
        /\ pc'[h] = "edit" => filled' = filled /\ held[h] \in filled /\ held' = held
    <3>1. CASE Check(h)
      <4>1. \A x : LET r == IF held[h] \in old THEN "expire" ELSE Reaction(held[h], x)
                   IN  r \notin {"close", "edit"}
        BY DEF Reaction
      <4> QED BY <3>1, <4>1, ReturnTypes DEF Check, Goto, Types, HandlerOK
    <3>2. CASE Choose(h)
      BY <3>2 DEF Choose, Goto, Types, HandlerOK
    <3>3. CASE Clear(h) \/ Submit(h) \/ Send(h)
      BY <3>3, ReturnTypes DEF Clear, Submit, Send, Goto, Types, HandlerOK
    <3> QED BY <1>7, <3>1, <3>2, <3>3
  <2>3. \/ filled' = filled
        \/ filled' = filled \ {held[h]} /\ pc[h] \notin Empty
    BY <1>7 DEF Check, Choose, Clear, Submit, Send, choices, At, Empty
  <2>4. \A g \in Handlers : pc'[g] = "edit" =>
          \/ pc[g] = "edit" /\ filled \subseteq filled'
          \/ held'[g] \in filled' \union contended'
    <3>1. CASE pc'[h] # "edit"
      BY <2>1, <2>3, <3>1, EditKept, HeldType DEF Types
    <3>2. CASE pc'[h] = "edit"
      BY <2>1, <2>2, <3>2 DEF Others
    <3> QED BY <3>1, <3>2
  <2> QED BY <2>1, <2>2, <2>4, ApartKept DEF Others
<1>8. ASSUME NEW h \in Handlers, Discard(h) PROVE Apart'
  <2>1. /\ Others(h) /\ current' = NoDialog /\ pc'[h] = "close"
        /\ UNCHANGED <<held, closed, contended, stage, filled, panicked>>
    BY <1>8, OthersKept DEF Discard, Delete, Goto, choices, Handle, Processes, Types, HandlerOK
  <2> QED BY <2>1, ApartKept DEF Made, Others
<1>9. ASSUME NEW d \in Dialogs, Monitor(d) \/ Age(d) PROVE Apart'
  <2>1. /\ current' \in {current, NoDialog}
        /\ UNCHANGED <<pc, held, closed, contended, stage, filled, panicked>>
    BY <1>9 DEF Monitor, Wait, Timeout, RemoveTimedOut, Delete, Age, choices, handlers, history
  <2> QED BY <2>1, ApartKept DEF Made
<1>10. CASE UNCHANGED vars
  BY <1>10, ApartKept DEF vars, choices, handlers, history, Made
<1> QED BY <1>1, <1>2, <1>3, <1>4, <1>5, <1>6, <1>7, <1>8, <1>9, <1>10, StoreApart, CloseApart
        DEF Next, Update, Handle, Cancels, Starts, Processes, Shows

\* A channel is closed twice or used after it was closed, and the last of no
\* messages is looked up, only when two handlers are at one dialog
\* (dialog.go 272-302, 338-350, 402-406, 700-703).
THEOREM EndIsFinal == Spec => []PanicNeedsTwo
<1>1. Apart => PanicNeedsTwo
  BY DEF Apart
<1> QED BY <1>1, InitTypes, NextTypes, InitApart, NextApart, PTL DEF Spec
-----------------------------------------------------------------------------
(* Somebody will end the dialog in the map *)

Ahead(d) ==
  \/ monitor[d] \in {"started", "waiting", "removing"}
  \/ \E h \in Handlers : held[h] = d /\ pc[h] \in {"show", "remove"}

LEMMA AheadMeans ==
  ASSUME Apart
  PROVE  EndIsAhead <=> \A d \in Dialogs : current = d /\ ~panicked => Ahead(d)
BY DEF EndIsAhead, Ahead, Apart

\* What a step must not do to the dialog that stays in the map.
LEMMA AheadKept ==
  ASSUME Types, NEW d \in Dialogs, Ahead(d), NEW h \in Handlers, Others(h),
         monitor'[d] = monitor[d], pc[h] \notin {"show", "remove"}
  PROVE  Ahead(d)'
BY DEF Ahead, Others

LEMMA NextAhead ==
  ASSUME Types, Types', Apart, EndIsAhead, [Next]_vars, Apart' PROVE EndIsAhead'
<1> SUFFICES ASSUME NEW d \in Dialogs, current' = d, ~panicked' PROVE Ahead(d)'
  <2>1. \A d \in Dialogs : current' = d /\ ~panicked' => d \notin closed'
    BY DEF Apart
  <2> QED BY <2>1 DEF EndIsAhead, Ahead
<1>0. current = d => ~panicked /\ Ahead(d) /\ d \notin closed
  <2>1. ~panicked
    <3>1. CASE UNCHANGED vars
      BY <3>1 DEF vars
    <3>2. CASE Next
      BY <3>2 DEF Next, Update, CancelDialog, StartDialog, ProcessDialog, Handle, Cancels,
                  LoadToCancel, Signal, Remove, Starts, StoreDialog, ShowServices, Processes,
                  Check, Expire, Choose, Shows, Clear, Answer, Edit, Prompt, Submit, Send,
                  Discard, Close,
                  Monitor, Wait, Timeout, RemoveTimedOut, Age, At
    <3> QED BY <3>1, <3>2
  <2> QED BY <2>1, AheadMeans DEF Apart
<1>1. d # NoDialog
  BY NullAssumption
<1>2. ASSUME NEW h \in Handlers, StoreDialog(h) PROVE Ahead(d)'
  <2>1. held'[h] = d /\ pc'[h] = "show"
    BY <1>2 DEF StoreDialog, Goto, Types, HandlerOK, TypeOK
  <2> QED BY <2>1 DEF Ahead
<1>3. ASSUME NEW h \in Handlers, ShowServices(h) PROVE Ahead(d)'
  <2>1. /\ monitor' = [monitor EXCEPT ![held[h]] = "started"] /\ current = d /\ pc[h] = "show"
        /\ Others(h)
    BY <1>3, OthersKept DEF ShowServices, At, Handle, Starts
  <2>2. CASE held[h] = d
    BY <2>1, <2>2 DEF Ahead, Types, TypeOK
  <2>3. CASE held[h] # d
    <3>1. monitor'[d] = monitor[d]
      BY <2>1, <2>3 DEF Types, TypeOK
    <3>2. CASE monitor[d] \in {"started", "waiting", "removing"}
      BY <3>1, <3>2 DEF Ahead
    <3>3. ASSUME NEW g \in Handlers, held[g] = d, pc[g] \in {"show", "remove"} PROVE Ahead(d)'
      BY <2>1, <2>3, <3>3 DEF Ahead, Others
    <3> QED BY <1>0, <2>1, <3>2, <3>3 DEF Ahead
  <2> QED BY <2>2, <2>3
<1>4. ASSUME NEW h \in Handlers, Signal(h) PROVE Ahead(d)'
  <2>1. /\ current = d /\ pc[h] = "signal" /\ pc'[h] = "remove" /\ held' = held /\ Others(h)
        /\ held[h] # d => monitor'[d] = monitor[d]
    <3>1. /\ current' = current /\ held' = held /\ pc[h] = "signal" /\ Goto(h, "remove")
          /\ \/ monitor' = [monitor EXCEPT ![held[h]] = "ended"]
             \/ monitor' = monitor
      BY <1>4 DEF Signal, At
    <3>2. Others(h)
      BY <1>4, OthersKept DEF Handle, Cancels
    <3> QED BY <3>1, <3>2 DEF Goto, Types, HandlerOK, TypeOK
  <2>2. CASE held[h] = d
    BY <2>1, <2>2 DEF Ahead
  <2>3. CASE held[h] # d
    BY <1>0, <2>1, <2>3, AheadKept
  <2> QED BY <2>2, <2>3
<1>5. ASSUME NEW h \in Handlers, Close(h) PROVE Ahead(d)'
  <2>1. /\ current = d /\ pc[h] = "close" /\ Others(h)
        /\ monitor' = [monitor EXCEPT ![held[h]] = IF @ = "waiting" THEN "ended" ELSE @]
    BY <1>5, OthersKept DEF Close, At, Handle, Processes
  <2>2. held[h] # d
    BY <2>1 DEF Apart
  <2>3. monitor'[d] = monitor[d]
    BY <2>1, <2>2 DEF Types, TypeOK
  <2> QED BY <1>0, <2>1, <2>3, AheadKept
<1>6. ASSUME NEW h \in Handlers, Remove(h) \/ Expire(h) \/ Discard(h) PROVE FALSE
  BY <1>1, <1>6 DEF Remove, Expire, Discard, Delete
<1>7. ASSUME NEW h \in Handlers, Update(h) \/ LoadToCancel(h) PROVE Ahead(d)'
  BY <1>0, <1>7, OthersKept, AheadKept
     DEF Update, CancelDialog, StartDialog, ProcessDialog, LoadToCancel, At, Handle, Cancels
<1>8. ASSUME NEW h \in Handlers,
             Check(h) \/ Choose(h) \/ Shows(h) \/ Submit(h) \/ Send(h)
      PROVE  Ahead(d)'
  <2>1. current' = current /\ monitor' = monitor /\ pc[h] \notin {"show", "remove"}
    BY <1>8 DEF Check, Choose, Shows, Clear, Answer, Edit, Prompt, Submit, Send, At
  <2> QED BY <1>0, <1>8, <2>1, OthersKept, AheadKept DEF Handle, Processes
<1>9. ASSUME NEW e \in Dialogs, Monitor(e) \/ Age(e) PROVE Ahead(d)'
  <2>1. UNCHANGED <<pc, held>>
    BY <1>9 DEF Monitor, Wait, Timeout, RemoveTimedOut, Age, handlers
  <2>2. current = d
    BY <1>1, <1>9 DEF Monitor, Wait, Timeout, RemoveTimedOut, Delete, Age
  <2>3. monitor[d] \in {"started", "waiting", "removing"} =>
          monitor'[d] \in {"started", "waiting", "removing"}
    BY <1>0, <1>1, <1>9, <2>2
       DEF Monitor, Wait, Timeout, RemoveTimedOut, Delete, Age, Types, TypeOK
  <2> QED BY <1>0, <2>1, <2>2, <2>3 DEF Ahead
<1>10. CASE UNCHANGED vars
  BY <1>0, <1>10 DEF vars, handlers, Ahead
<1> QED BY <1>2, <1>3, <1>4, <1>5, <1>6, <1>7, <1>8, <1>9, <1>10
        DEF Next, Handle, Cancels, Starts, Processes

\* Every dialog in the map has somebody who will remove it: a monitor that has
\* not been told off, or a handler that is about to start it or to remove the
\* dialog (dialog.go 49-79, 693-728).
THEOREM EndComes == Spec => []EndIsAhead
<1>1. Init => EndIsAhead
  BY NullAssumption DEF Init, EndIsAhead
<1> QED BY <1>1, NextAhead, InitTypes, NextTypes, InitApart, NextApart, PTL DEF Spec
-----------------------------------------------------------------------------
(* What a monitor may take for its own end *)

LEMMA InitTold == Init => ToldInv
BY NullAssumption DEF Init, ToldInv, MakerOK, Told, Made

LEMMA StageKept ==
  ASSUME Types, NEW h \in Handlers, Update(h) \/ Handle(h), pc[h] # "store"
  PROVE  Made' = Made
<1>1. \/ UNCHANGED stage
      \/ /\ pc[h] \notin Empty
         /\ \E s \in {"env", "version", "confirm", "continue"} : Enters(held[h], s)
  BY DEF Update, CancelDialog, StartDialog, ProcessDialog, Handle, Cancels, LoadToCancel, Signal,
         Remove, Starts, StoreDialog, ShowServices, Processes, Check, Expire, Choose, Shows,
         Clear, Answer, Edit, Prompt, Submit, Send, Discard, Close, At, choices, Empty
<1>2. CASE UNCHANGED stage
  BY <1>2 DEF Made
<1>3. ASSUME NEW s \in {"env", "version", "confirm", "continue"}, Enters(held[h], s),
             pc[h] \notin Empty
      PROVE  Made' = Made
  BY <1>3, HeldType DEF Enters, Made, Types, TypeOK
<1> QED BY <1>1, <1>2, <1>3

\* Most steps of a handler leave the monitors alone, and tell of a dialog that
\* they take out of the map.
LEMMA ToldQuiet ==
  ASSUME ToldInv, NEW h \in Handlers, Others(h), pc[h] # "close",
         monitor' = monitor, untold \subseteq untold', closed' = closed, Made' = Made,
         pc'[h] \notin {"show", "remove"},
         \A d \in Dialogs : current = d /\ current' # d =>
           d \in untold' \/ Closing(d)' \/ monitor[d] = "ended"
  PROVE  ToldInv'
<1>1. \A d \in Dialogs : Closing(d) => Closing(d)'
  BY DEF Closing, Others
<1>2. MakerOK'
  BY DEF ToldInv, MakerOK, Others
<1>3. \A d \in Dialogs : d \notin Made' => monitor'[d] = "none"
  BY DEF ToldInv
<1>4. \A g \in Handlers : pc'[g] = "remove" => held'[g] \in untold' \/ monitor'[held'[g]] = "ended"
  BY DEF ToldInv, Others
<1>5. ASSUME NEW d \in Dialogs PROVE Told(d)'
  <2>1. Told(d)
    BY DEF ToldInv
  <2>2. CASE current # d
    BY <1>1, <2>1, <2>2 DEF Told
  <2>3. CASE current = d
    BY <2>3 DEF Told
  <2> QED BY <2>2, <2>3
<1> QED BY <1>2, <1>3, <1>4, <1>5 DEF ToldInv

LEMMA StoreTold ==
  ASSUME Types, ToldInv, NEW h \in Handlers, StoreDialog(h)
  PROVE  ToldInv'
<1>0. pc[h] = "store" /\ Others(h)
  BY OthersKept DEF StoreDialog, At, Update, Handle, Starts
<1>1. PICK u \in Dialogs \ Made : u = Unused
  BY <1>0, UnusedIsFree
<1>2. /\ held'[h] = u /\ current' = u /\ pc'[h] = "show"
      /\ stage' = [stage EXCEPT ![u] = "service"]
      /\ UNCHANGED <<closed, monitor>>
      /\ untold' = untold \union ({current} \ {NoDialog})
  BY <1>0, <1>1 DEF StoreDialog, Goto, Types, HandlerOK, TypeOK
<1>3. Made' = Made \union {u} /\ monitor[u] = "none"
  BY <1>1, <1>2 DEF Made, Types, TypeOK, ToldInv
<1>4. \A g \in Handlers \ {h} :
        pc'[g] = pc[g] /\ held'[g] = held[g] /\ (pc[g] = "show" => held[g] # u)
  BY <1>0, <1>1 DEF Others, Types, HandlerOK, Empty
<1>5. MakerOK'
  <2>1. ASSUME NEW g \in Handlers, pc'[g] = "show"
        PROVE  /\ monitor'[held'[g]] = "none"
               /\ \A k \in Handlers : pc'[k] = "show" /\ held'[k] = held'[g] => k = g
    BY <1>2, <1>3, <1>4, <2>1 DEF ToldInv, MakerOK
  <2> QED BY <2>1 DEF MakerOK
<1>6. \A d \in Dialogs : d \notin Made' => monitor'[d] = "none"
  BY <1>2, <1>3 DEF ToldInv
<1>7. \A g \in Handlers : pc'[g] = "remove" => held'[g] \in untold' \/ monitor'[held'[g]] = "ended"
  BY <1>2, <1>4 DEF ToldInv
<1>8. ASSUME NEW d \in Dialogs, d # u PROVE Told(d)'
  <2>1. Told(d) /\ (Closing(d) => Closing(d)') /\ (d \in Made' => d \in Made)
    BY <1>0, <1>3, <1>4, <1>8 DEF ToldInv, Closing
  <2>2. current = d => d \in untold'
    BY <1>2, NullAssumption
  <2> QED BY <1>2, <2>1, <2>2 DEF Told
<1>9. Told(u)'
  BY <1>2 DEF Told
<1> QED BY <1>5, <1>6, <1>7, <1>8, <1>9 DEF ToldInv

LEMMA ShowTold ==
  ASSUME Types, ToldInv, NEW h \in Handlers, ShowServices(h)
  PROVE  ToldInv'
<1>0. /\ pc[h] = "show" /\ Others(h) /\ Returns(h) /\ Made' = Made
      /\ UNCHANGED <<current, closed, untold>>
      /\ monitor' = [monitor EXCEPT ![held[h]] = "started"]
  BY OthersKept, StageKept DEF ShowServices, At, history, Handle, Starts
<1>1. /\ pc'[h] = "idle" /\ held[h] \in Dialogs /\ held[h] \in Made /\ monitor[held[h]] = "none"
      /\ \A g \in Handlers \ {h} : pc[g] = "show" => held[g] # held[h]
  BY <1>0, ReturnTypes, HeldType DEF Types, Empty, ToldInv, MakerOK
<1>2. \A g \in Handlers : pc'[g] \in {"show", "remove", "close"} =>
        g # h /\ pc'[g] = pc[g] /\ held'[g] = held[g] /\ held[g] \in Dialogs
  BY <1>0, <1>1, HeldType DEF Others, Types, Empty
<1>3. /\ monitor'[held[h]] = "started"
      /\ \A d \in Dialogs : d # held[h] => monitor'[d] = monitor[d]
  BY <1>0, <1>1 DEF Types, TypeOK
<1>4. MakerOK'
  BY <1>1, <1>2, <1>3 DEF ToldInv, MakerOK
<1>5. \A d \in Dialogs : d \notin Made' => monitor'[d] = "none"
  BY <1>0, <1>1, <1>3 DEF ToldInv
<1>6. \A g \in Handlers : pc'[g] = "remove" => held'[g] \in untold' \/ monitor'[held'[g]] = "ended"
  BY <1>0, <1>1, <1>2, <1>3 DEF ToldInv
<1>7. ASSUME NEW d \in Dialogs PROVE Told(d)'
  <2>1. Told(d) /\ (Closing(d) => Closing(d)')
    BY <1>0, <1>2 DEF ToldInv, Closing, Others
  <2> QED BY <1>0, <1>1, <1>3, <2>1 DEF Told
<1> QED BY <1>4, <1>5, <1>6, <1>7 DEF ToldInv

\* A monitor that is waiting may be told of its end at any time.
LEMMA SignalTold ==
  ASSUME Types, ToldInv, NEW h \in Handlers, Signal(h)
  PROVE  ToldInv'
<1>0. /\ pc[h] = "signal" /\ Others(h) /\ Goto(h, "remove") /\ Made' = Made
      /\ UNCHANGED <<current, closed, held>>
      /\ \/ /\ monitor[held[h]] = "waiting" /\ untold' = untold
            /\ monitor' = [monitor EXCEPT ![held[h]] = "ended"]
         \/ untold' = untold \union {held[h]} /\ monitor' = monitor
  <2>1. Others(h)
    BY OthersKept DEF Handle, Cancels
  <2>2. pc[h] = "signal"
    BY DEF Signal, At
  <2>3. Made' = Made
    BY <2>2, StageKept DEF Handle, Cancels
  <2> QED BY <2>1, <2>2, <2>3 DEF Signal
<1>1. pc'[h] = "remove" /\ held[h] \in Dialogs
  BY <1>0, HeldType DEF Goto, Types, HandlerOK, Empty
<1>2. /\ \A d \in Dialogs : \/ monitor'[d] = monitor[d]
                            \/ monitor[d] = "waiting" /\ monitor'[d] = "ended"
      /\ held[h] \in untold' \/ monitor'[held[h]] = "ended"
      /\ untold \subseteq untold'
  BY <1>0, <1>1 DEF Types, TypeOK
<1>3. \A g \in Handlers : pc'[g] \in {"show", "remove", "close"} =>
        g = h \/ (pc'[g] = pc[g] /\ held[g] \in Dialogs)
  BY <1>0, HeldType DEF Others, Types, Empty
<1>4. MakerOK'
  <2>1. ASSUME NEW g \in Handlers, pc'[g] = "show"
        PROVE  pc[g] = "show" /\ held[g] \in Dialogs /\ held'[g] = held[g]
    BY <1>0, <1>1, <1>3, <2>1
  <2>2. \A g \in Handlers : pc'[g] = "show" => monitor'[held'[g]] = "none"
    BY <1>2, <2>1 DEF ToldInv, MakerOK
  <2> QED BY <2>1, <2>2 DEF ToldInv, MakerOK
<1>5. \A d \in Dialogs : d \notin Made' => monitor'[d] = "none"
  BY <1>0, <1>2 DEF ToldInv
<1>6. \A g \in Handlers : pc'[g] = "remove" => held'[g] \in untold' \/ monitor'[held'[g]] = "ended"
  BY <1>0, <1>2, <1>3 DEF ToldInv
<1>7. ASSUME NEW d \in Dialogs PROVE Told(d)'
  <2>1. Told(d) /\ (Closing(d) => Closing(d)')
    BY <1>0 DEF ToldInv, Closing, Others
  <2> QED BY <1>0, <1>2, <2>1 DEF Told
<1> QED BY <1>4, <1>5, <1>6, <1>7 DEF ToldInv

LEMMA CloseTold ==
  ASSUME Types, Types', Apart, ToldInv, NEW h \in Handlers, Close(h)
  PROVE  ToldInv'
<1>0. /\ pc[h] = "close" /\ Others(h) /\ Returns(h) /\ Made' = Made
      /\ UNCHANGED current
      /\ closed' = closed \union {held[h]}
      /\ monitor' = [monitor EXCEPT ![held[h]] = IF @ = "waiting" THEN "ended" ELSE @]
      /\ untold' = IF monitor[held[h]] = "removing" THEN untold \union {held[h]} ELSE untold
  <2>1. Others(h) /\ pc[h] = "close"
    BY OthersKept DEF Handle, Processes, Close, At
  <2>2. Made' = Made
    BY <2>1, StageKept DEF Handle, Processes
  <2> QED BY <2>1, <2>2 DEF Close
<1>1. pc'[h] = "idle" /\ held[h] \in Dialogs /\ held[h] \in Made
  BY <1>0, ReturnTypes, HeldType DEF Types, Empty
<1>2. \A d \in Dialogs : \/ monitor'[d] = monitor[d]
                         \/ monitor[d] = "waiting" /\ monitor'[d] = "ended"
  BY <1>0, <1>1 DEF Types, TypeOK
<1>3. \A g \in Handlers : pc'[g] \in {"show", "remove", "close"} =>
        g # h /\ pc'[g] = pc[g] /\ held'[g] = held[g] /\ held[g] \in Dialogs
  BY <1>0, <1>1, HeldType DEF Others, Types, Empty
<1>4. MakerOK'
  BY <1>2, <1>3 DEF ToldInv, MakerOK
<1>5. \A d \in Dialogs : d \notin Made' => monitor'[d] = "none"
  BY <1>0, <1>2 DEF ToldInv
<1>6. \A g \in Handlers : pc'[g] = "remove" => held'[g] \in untold' \/ monitor'[held'[g]] = "ended"
  BY <1>0, <1>2, <1>3 DEF ToldInv
<1>7. ASSUME NEW d \in Dialogs PROVE Told(d)'
  <2>1. Told(d)
    BY DEF ToldInv
  <2>2. CASE d = held[h]
    <3>1. d \in closed' /\ monitor'[d] # "waiting" /\ (monitor'[d] = "removing" => d \in untold')
      BY <1>0, <1>2, <2>2 DEF Types, TypeOK
    <3> QED BY <3>1 DEF Told
  <2>3. CASE d # held[h]
    <3>1. Closing(d) => Closing(d)'
      BY <1>0, <2>3 DEF Closing, Others
    <3> QED BY <1>0, <1>2, <2>1, <3>1 DEF Told
  <2> QED BY <2>2, <2>3
<1> QED BY <1>4, <1>5, <1>6, <1>7 DEF ToldInv

LEMMA MonitorTold ==
  ASSUME Types, Apart, ToldInv, NEW e \in Dialogs, Monitor(e) \/ Age(e)
  PROVE  ToldInv'
<1>0. /\ UNCHANGED <<stage, closed, pc, held>> /\ Made' = Made
      /\ current' = current \/ (RemoveTimedOut(e) /\ current' = NoDialog)
      /\ untold \subseteq untold'
  BY DEF Monitor, Wait, Timeout, RemoveTimedOut, Delete, Age, choices, handlers, history, Made
<1>1. \A d \in Dialogs :
        \/ monitor'[d] = monitor[d]
        \/ d = e /\ monitor[d] = "started" /\ d \in closed /\ monitor'[d] = "ended"
        \/ d = e /\ monitor[d] = "started" /\ d \notin closed /\ monitor'[d] = "waiting"
        \/ d = e /\ monitor[d] = "waiting" /\ monitor'[d] \in {"ended", "removing"}
        \/ d = e /\ monitor[d] = "removing" /\ monitor'[d] = "ended"
  BY DEF Monitor, Wait, Timeout, RemoveTimedOut, Age, Types, TypeOK
<1>2. \A g \in Handlers : pc[g] \in {"show", "remove"} => held[g] \in Dialogs
  BY HeldType DEF Types, Empty
<1>3. MakerOK'
  BY <1>0, <1>1, <1>2 DEF ToldInv, MakerOK
<1>4. \A d \in Dialogs : d \notin Made' => monitor'[d] = "none"
  BY <1>0, <1>1 DEF ToldInv
<1>5. \A g \in Handlers : pc'[g] = "remove" => held'[g] \in untold' \/ monitor'[held'[g]] = "ended"
  BY <1>0, <1>1, <1>2 DEF ToldInv
<1>6. ASSUME NEW d \in Dialogs PROVE Told(d)'
  <2>1. Told(d) /\ (Closing(d) => Closing(d)')
    BY <1>0 DEF ToldInv, Closing
  <2>2. CASE current' = current
    <3>1. d \notin Made => monitor[d] = "none"
      BY DEF ToldInv
    <3> QED BY <1>0, <1>1, <2>1, <2>2, <3>1 DEF Told
  <2>3. CASE RemoveTimedOut(e) /\ current' = NoDialog
    <3>1. /\ monitor[e] = "removing" /\ monitor' = [monitor EXCEPT ![e] = "ended"]
          /\ untold' = untold \union ({current} \ {e, NoDialog})
      BY <2>3 DEF RemoveTimedOut, Delete
    <3>2. CASE d = e
      <4>1. monitor'[d] = "ended"
        BY <3>1, <3>2 DEF Types, TypeOK
      <4> QED BY <4>1 DEF Told
    <3>3. CASE d # e
      <4>1. monitor'[d] = monitor[d] /\ (current = d => d \in untold')
        BY <3>1, <3>3, NullAssumption DEF Types, TypeOK
      <4> QED BY <1>0, <2>1, <4>1 DEF Told
    <3> QED BY <3>2, <3>3
  <2> QED BY <1>0, <2>2, <2>3
<1> QED BY <1>3, <1>4, <1>5, <1>6 DEF ToldInv

LEMMA NextTold ==
  ASSUME Types, Types', Apart, ToldInv, [Next]_vars PROVE ToldInv'
<1>1. ASSUME NEW h \in Handlers, Update(h) PROVE ToldInv'
  <2>1. /\ Others(h) /\ pc[h] = "idle" /\ pc'[h] \in {"load", "store", "check"}
        /\ UNCHANGED <<monitor, untold, closed, current>>
    BY <1>1, OthersKept
       DEF Update, CancelDialog, StartDialog, ProcessDialog, At, Arrives, Begins, Goto, history,
           Types, HandlerOK
  <2>2. Made' = Made
    BY <1>1, <2>1, StageKept
  <2> QED BY <2>1, <2>2, ToldQuiet
<1>2. ASSUME NEW h \in Handlers, LoadToCancel(h) PROVE ToldInv'
  <2>1. /\ Others(h) /\ pc[h] = "load" /\ pc'[h] \in {"idle", "store", "signal"}
        /\ UNCHANGED <<monitor, untold, closed, current>>
    BY <1>2, OthersKept
       DEF Handle, Cancels, LoadToCancel, At, Cancelled, Returns, Begins, Goto, Types, HandlerOK
  <2>2. Made' = Made
    BY <1>2, <2>1, StageKept DEF Handle, Cancels
  <2> QED BY <2>1, <2>2, ToldQuiet
<1>3. ASSUME NEW h \in Handlers, Remove(h) PROVE ToldInv'
  <2>1. /\ Others(h) /\ pc[h] = "remove" /\ pc'[h] \in {"idle", "store"}
        /\ UNCHANGED <<monitor, closed>>
        /\ untold' = untold \union ({current} \ {held[h], NoDialog})
    BY <1>3, OthersKept
       DEF Handle, Cancels, Remove, Delete, At, Cancelled, Returns, Begins, Goto, Types, HandlerOK
  <2>2. Made' = Made
    BY <1>3, <2>1, StageKept DEF Handle, Cancels
  <2>3. \A d \in Dialogs : current = d => d \in untold' \/ monitor[d] = "ended"
    BY <2>1, NullAssumption DEF ToldInv
  <2> QED BY <2>1, <2>2, <2>3, ToldQuiet
<1>4. ASSUME NEW h \in Handlers, Expire(h) PROVE ToldInv'
  <2>1. /\ Others(h) /\ pc[h] = "expire" /\ Returns(h) /\ UNCHANGED <<monitor, closed>>
        /\ untold' = untold \union ({current, held[h]} \ {NoDialog})
    BY <1>4, OthersKept DEF Handle, Processes, Expire, At
  <2>2. Made' = Made
    BY <1>4, <2>1, StageKept DEF Handle, Processes
  <2>3. \A d \in Dialogs : current = d => d \in untold'
    BY <2>1, NullAssumption
  <2> QED BY <2>1, <2>2, <2>3, ReturnTypes, ToldQuiet
<1>5. ASSUME NEW h \in Handlers,
             Check(h) \/ Choose(h) \/ Shows(h) \/ Submit(h) \/ Send(h)
      PROVE  ToldInv'
  <2>1. /\ Others(h) /\ pc[h] \notin {"close", "store"}
        /\ UNCHANGED <<monitor, untold, closed, current>>
    BY <1>5, OthersKept
       DEF Handle, Processes, Check, Choose, Shows, Clear, Answer, Edit, Prompt, Submit, Send, At,
           history
  <2>2. Made' = Made
    BY <1>5, <2>1, StageKept DEF Handle, Processes
  <2>3. pc'[h] \notin {"show", "remove"}
    <3>1. CASE Check(h)
      <4>1. \A x : LET r == IF held[h] \in old THEN "expire" ELSE Reaction(held[h], x)
                   IN  r \notin {"show", "remove"}
        BY DEF Reaction
      <4> QED BY <3>1, <4>1, ReturnTypes DEF Check, Goto, Types, HandlerOK
    <3>2. CASE Choose(h) \/ Shows(h) \/ Submit(h) \/ Send(h)
      BY <3>2, ReturnTypes
         DEF Choose, Shows, Clear, Answer, Edit, Prompt, Submit, Send, Goto, Types, HandlerOK
    <3> QED BY <1>5, <3>1, <3>2
  <2> QED BY <2>1, <2>2, <2>3, ToldQuiet
<1>6. ASSUME NEW h \in Handlers, Discard(h) PROVE ToldInv'
  <2>1. /\ Others(h) /\ pc[h] = "discard" /\ pc'[h] = "close" /\ UNCHANGED <<held, monitor, closed>>
        /\ untold' = untold \union ({current} \ {held[h], NoDialog})
    BY <1>6, OthersKept DEF Handle, Processes, Discard, Delete, At, Goto, Types, HandlerOK
  <2>2. Made' = Made
    BY <1>6, <2>1, StageKept DEF Handle, Processes
  <2>3. \A d \in Dialogs : current = d => d \in untold' \/ Closing(d)'
    BY <2>1, NullAssumption DEF Closing
  <2> QED BY <2>1, <2>2, <2>3, ToldQuiet
<1>7. CASE UNCHANGED vars
  BY <1>7 DEF vars, choices, handlers, history, ToldInv, MakerOK, Told, Closing, Made
<1> QED BY <1>1, <1>2, <1>3, <1>4, <1>5, <1>6, <1>7, StoreTold, ShowTold, SignalTold, CloseTold,
           MonitorTold
        DEF Next, Handle, Cancels, Starts, Processes

\* A monitor whose time is over removes another dialog than its own only if it
\* could not know of the end of its own (dialog.go 248-254, 716-728).
THEOREM TimeoutsAreOwn == Spec => TimeoutIsOwn
<1>1. ToldInv => \A d \in Dialogs :
        RemoveTimedOut(d) /\ current \notin {d, NoDialog} =>
          d \in untold \/ \E h \in Handlers : held[h] = d /\ pc[h] = "close"
  BY DEF ToldInv, Told, Closing, RemoveTimedOut
<1> QED BY <1>1, InitTypes, NextTypes, InitApart, NextApart, InitTold, NextTold, PTL
        DEF Spec, TimeoutIsOwn
-----------------------------------------------------------------------------
(* What is submitted is what was shown *)

LEMMA InitShown == Init => ShownInv
BY NullAssumption DEF Init, ShownInv, DialogOK, InOrder, Reading

\* A handler at a dialog nobody else has been at is there alone.
LEMMA Alone ==
  ASSUME Apart, NEW h \in Handlers, NEW d \in Dialogs, held[h] = d, d \notin contended
  PROVE  \A g \in Handlers : held[g] = d => g = h
BY NullAssumption DEF Apart

Same(d) ==
  /\ stage'[d] = stage[d] /\ selected'[d] = selected[d] /\ envs'[d] = envs[d]
  /\ shown'[d] = shown[d] /\ (d \in unseen' <=> d \in unseen) /\ submitted'[d] = submitted[d]

\* A dialog stays in order when a handler comes to it, leaves it or goes on.
LEMMA DialogKept ==
  ASSUME NEW d \in Dialogs, DialogOK(d), Same(d), contended \subseteq contended',
         current' = d => current = d,
         NEW h \in Handlers, Others(h), d \notin contended' =>
           /\ held[h] = d /\ pc[h] \in {"wipe", "prompt"} =>
                held'[h] = d /\ pc'[h] \in {"wipe", "prompt"}
           /\ held'[h] = d => Reading(h, d)'
           /\ held'[h] = d /\ submitted[d] # <<>> =>
                stage[d] = "continue" \/ pc'[h] \in {"send", "discard", "close"}
           /\ held[h] = d /\ pc[h] \in {"send", "discard"} /\ current' = d =>
                held'[h] = d /\ pc'[h] \in {"send", "discard"}
  PROVE  DialogOK(d)'
<1> SUFFICES ASSUME d \notin contended'
             PROVE  /\ InOrder(d)' /\ (submitted'[d] = <<>> \/ Final(d)')
                    /\ \A g \in Handlers : held'[g] = d => Reading(g, d)'
  BY DEF DialogOK
<1>0. /\ InOrder(d) /\ (submitted[d] = <<>> \/ Final(d))
      /\ \A g \in Handlers : held[g] = d => Reading(g, d)
      /\ \A g \in Handlers \ {h} : pc'[g] = pc[g] /\ held'[g] = held[g]
  BY DEF DialogOK, Others
<1>1. InOrder(d)'
  <2>1. ASSUME NEW g \in Handlers, held[g] = d, pc[g] \in {"wipe", "prompt"}
        PROVE  held'[g] = d /\ pc'[g] \in {"wipe", "prompt"}
    BY <1>0, <2>1
  <2> QED BY <1>0, <2>1 DEF InOrder, Same, Asked
<1>2. ASSUME NEW g \in Handlers, held'[g] = d PROVE Reading(g, d)'
  <2>1. CASE g = h
    BY <1>2, <2>1
  <2>2. CASE g # h
    BY <1>0, <1>2, <2>2 DEF Reading, Same, Asked
  <2> QED BY <2>1, <2>2
<1>3. ASSUME Final(d), submitted[d] # <<>> PROVE Final(d)'
  <2>1. /\ submitted'[d] = <<envs'[d]>> /\ Asked(d)' /\ selected'[d] /\ envs'[d] # {}
        /\ d \in Made'
    BY <1>3 DEF Final, Same, Made, Asked
  <2>2. ASSUME NEW g \in Handlers, held'[g] = d
        PROVE  stage'[d] = "continue" \/ pc'[g] \in {"send", "discard", "close"}
    BY <1>0, <1>3, <2>2 DEF Final, Same
  <2>3. ASSUME current' = d, stage[d] # "continue"
        PROVE  \E g \in Handlers : held'[g] = d /\ pc'[g] \in {"send", "discard"}
    <3>1. PICK g \in Handlers : held[g] = d /\ pc[g] \in {"send", "discard"}
      BY <1>3, <2>3 DEF Final
    <3> QED BY <1>0, <2>3, <3>1
  <2> QED BY <2>1, <2>2, <2>3 DEF Final, Same
<1>4. submitted'[d] = <<>> \/ Final(d)'
  BY <1>0, <1>3 DEF Same
<1> QED BY <1>1, <1>2, <1>4

\* ... whoever else does something.
LEMMA OtherDialog ==
  ASSUME Types, NEW d \in Dialogs, DialogOK(d), Same(d), contended \subseteq contended',
         current' = d => current = d,
         NEW h \in Handlers, Others(h), held[h] # d, held'[h] # d
  PROVE  DialogOK(d)'
BY DialogKept

LEMMA NobodyDialog ==
  ASSUME NEW d \in Dialogs, DialogOK(d), Same(d), contended' = contended,
         current' = d => current = d, UNCHANGED <<pc, held>>
  PROVE  DialogOK(d)'
<1>1. InOrder(d) => InOrder(d)'
  BY DEF InOrder, Same, Asked
<1>2. Final(d) => Final(d)'
  BY DEF Final, Same, Made, Asked
<1>3. \A g \in Handlers : Reading(g, d) => Reading(g, d)'
  BY DEF Reading, Same, Asked
<1> QED BY <1>1, <1>2, <1>3 DEF DialogOK, Same

\* Who loads a dialog that has been submitted finds it at its last stage.
LEMMA LoadShown ==
  ASSUME Types, ShownInv, NEW h \in Handlers, Others(h), Load(h), pc[h] \in Empty,
         pc'[h] \in {"check", "signal"},
         UNCHANGED <<current, stage, selected, envs, submitted, shown, unseen>>
  PROVE  ShownInv'
<1> SUFFICES ASSUME NEW d \in Dialogs PROVE DialogOK(d)'
  BY DEF ShownInv
<1>1. /\ DialogOK(d) /\ Same(d) /\ contended \subseteq contended' /\ held[h] # d
      /\ held'[h] = current
      /\ current = d /\ d \notin contended' => \A g \in Handlers \ {h} : held[g] # d
  BY NullAssumption DEF ShownInv, Same, Load, Types, HandlerOK, TypeOK
<1>2. ASSUME d \notin contended', current = d, submitted[d] # <<>> PROVE stage[d] = "continue"
  <2>1. Final(d)
    BY <1>1, <1>2 DEF DialogOK
  <2> QED BY <1>1, <1>2, <2>1 DEF Final
<1>3. Reading(h, d)'
  BY DEF Reading
<1> QED BY <1>1, <1>2, <1>3, DialogKept

\* A handler that goes on without a word to its dialog.
LEMMA MoveShown ==
  ASSUME Types, ShownInv, NEW h \in Handlers, Others(h),
         UNCHANGED <<stage, selected, envs, submitted, shown, unseen, contended>>,
         current' \in {current, NoDialog}, held'[h] \in {held[h], NoDialog},
         pc[h] \notin {"wipe", "prompt"},
         held'[h] = held[h] /\ held[h] # NoDialog =>
           pc'[h] \in {"remove", "check", "expire", "answer", "discard", "close"},
         pc[h] \in {"send", "discard"} => current' = NoDialog \/ pc'[h] = "discard",
         pc'[h] \in {"discard", "close"} => held'[h] = held[h],
         pc[h] \in {"send", "discard", "close"} =>
           held'[h] = NoDialog \/ pc'[h] \in {"discard", "close"}
  PROVE  ShownInv'
<1> SUFFICES ASSUME NEW d \in Dialogs PROVE DialogOK(d)'
  BY DEF ShownInv
<1>1. /\ DialogOK(d) /\ Same(d) /\ (current' = d => current = d) /\ d # NoDialog
  BY NullAssumption DEF ShownInv, Same, choices
<1>2. held'[h] = d => held[h] = d /\ pc'[h] \in {"remove", "check", "expire", "answer", "discard", "close"}
  BY <1>1
<1>3. held'[h] = d => Reading(h, d)'
  BY <1>2 DEF Reading
<1>4. ASSUME d \notin contended, held'[h] = d, submitted[d] # <<>>
      PROVE  stage[d] = "continue" \/ pc'[h] \in {"send", "discard", "close"}
  <2>1. Final(d)
    BY <1>1, <1>4 DEF DialogOK
  <2> QED BY <1>1, <1>2, <1>4, <2>1 DEF Final
<1> QED BY <1>1, <1>2, <1>3, <1>4, DialogKept

\* The steps that do not touch what is chosen, submitted or shown.
LEMMA QuietShown ==
  ASSUME Types, ShownInv, NEW h \in Handlers,
         \/ Update(h) \/ Cancels(h) \/ ShowServices(h) \/ Expire(h) \/ Discard(h) \/ Close(h)
         \/ Answer(h) \/ Edit(h) \/ (Clear(h) /\ pc[h] = "clear")
  PROVE  ShownInv'
<1>0. Others(h)
  BY OthersKept DEF Handle, Starts, Processes, Shows
<1> USE DEF Types, HandlerOK, Empty
<1>1. CASE CancelDialog(h) \/ StartDialog(h)
  <2>1. /\ UNCHANGED <<stage, selected, envs, submitted, shown, unseen, contended, current,
                       held>>
        /\ pc[h] = "idle" /\ pc'[h] \in {"load", "store"}
    BY <1>1 DEF CancelDialog, StartDialog, At, Arrives, Begins, Goto, history, choices
  <2> QED BY <1>0, <2>1, MoveShown
<1>2. CASE ProcessDialog(h)
  <2>1. /\ UNCHANGED <<stage, selected, envs, submitted, shown, unseen, current>>
        /\ pc[h] = "idle" /\ pc'[h] = "check" /\ Load(h)
    BY <1>2 DEF ProcessDialog, At, Arrives, Begins, Goto, choices
  <2> QED BY <1>0, <2>1, LoadShown
<1>3. CASE LoadToCancel(h)
  <2>1. /\ UNCHANGED <<stage, selected, envs, submitted, shown, unseen, current>> /\ pc[h] = "load"
    BY <1>3 DEF LoadToCancel, At, choices
  <2>2. CASE Load(h) /\ Goto(h, "signal")
    <3>1. pc'[h] = "signal"
      BY <2>2 DEF Goto
    <3> QED BY <1>0, <2>1, <2>2, <3>1, LoadShown
  <2>3. CASE Cancelled(h) /\ UNCHANGED contended
    <3>1. held'[h] = NoDialog /\ pc'[h] \in {"idle", "store"}
      BY <2>3 DEF Cancelled, Returns, Begins, Goto, TypeOK
    <3> QED BY <1>0, <2>1, <2>3, <3>1, MoveShown
  <2> QED BY <1>3, <2>2, <2>3 DEF LoadToCancel
<1>4. CASE Signal(h)
  <2>1. /\ UNCHANGED <<stage, selected, envs, submitted, shown, unseen, contended, current,
                       held>>
        /\ pc[h] = "signal" /\ pc'[h] = "remove"
    BY <1>4 DEF Signal, At, Goto, choices
  <2> QED BY <1>0, <2>1, MoveShown
<1>5. CASE Remove(h)
  <2>1. /\ UNCHANGED <<stage, selected, envs, submitted, shown, unseen, contended>>
        /\ current' = NoDialog
        /\ pc[h] = "remove" /\ held'[h] = NoDialog /\ pc'[h] \in {"idle", "store"}
    BY <1>5 DEF Remove, Delete, At, Cancelled, Returns, Begins, Goto, TypeOK, choices
  <2> QED BY <1>0, <2>1, MoveShown
<1>6. CASE ShowServices(h) \/ Expire(h) \/ Close(h) \/ Answer(h) \/ Edit(h)
  <2>1. /\ UNCHANGED <<stage, selected, envs, submitted, shown, unseen, contended>>
        /\ current' \in {current, NoDialog}
        /\ pc[h] \in {"show", "expire", "close", "answer", "edit"}
        /\ held'[h] = NoDialog /\ pc'[h] = "idle"
    BY <1>6, ReturnTypes DEF ShowServices, Expire, Close, Answer, Edit, At, history, choices
  <2> QED BY <1>0, <2>1, MoveShown
<1>7. CASE Discard(h)
  <2>1. /\ UNCHANGED <<stage, selected, envs, submitted, shown, unseen, contended, held>>
        /\ current' = NoDialog
        /\ pc[h] = "discard" /\ pc'[h] = "close"
    BY <1>7 DEF Discard, Delete, At, Goto, choices
  <2> QED BY <1>0, <2>1, MoveShown
<1>8. CASE Clear(h) /\ pc[h] = "clear"
  <2>1. /\ UNCHANGED <<stage, selected, envs, submitted, shown, unseen, contended, current,
                       held>>
        /\ pc'[h] = "answer"
    BY <1>8 DEF Clear, At, Goto, history
  <2> QED BY <1>0, <1>8, <2>1, MoveShown
<1> QED BY <1>1, <1>2, <1>3, <1>4, <1>5, <1>6, <1>7, <1>8 DEF Update, Cancels

\* A new dialog starts at the first stage.
LEMMA StoreShown ==
  ASSUME Types, ShownInv, NEW h \in Handlers, StoreDialog(h)
  PROVE  ShownInv'
<1> SUFFICES ASSUME NEW d \in Dialogs PROVE DialogOK(d)'
  BY DEF ShownInv
<1>0. Others(h) /\ pc[h] = "store"
  BY OthersKept DEF Handle, Starts, StoreDialog, At
<1>1. PICK u \in Dialogs \ Made : u = Unused
  BY <1>0, UnusedIsFree
<1>2. /\ stage' = [stage EXCEPT ![u] = "service"] /\ current' = u
      /\ held' = [held EXCEPT ![h] = u] /\ pc'[h] = "show"
      /\ UNCHANGED <<selected, envs, submitted, shown, unseen, contended>>
  BY <1>1 DEF StoreDialog, Goto, Types, HandlerOK
<1>3. DialogOK(d) /\ held[h] = NoDialog /\ held'[h] = u
  BY <1>0, <1>2 DEF ShownInv, Types, HandlerOK, TypeOK, Empty
<1>4. CASE d # u
  <2>1. Same(d) /\ held[h] # d /\ held'[h] # d /\ current' # d
    BY <1>2, <1>3, <1>4, NullAssumption DEF Same, Types, TypeOK
  <2> QED BY <1>0, <1>2, <1>3, <2>1, OtherDialog
<1>5. CASE d = u
  <2>1. stage'[d] = "service" /\ UNCHANGED <<selected, envs, submitted, shown, unseen, contended>>
    BY <1>2, <1>5 DEF Types, TypeOK
  <2>2. d \notin contended => submitted'[d] = <<>>
    BY <1>1, <1>3, <1>5, <2>1 DEF DialogOK, Final
  <2>3. \A g \in Handlers : held'[g] = d => g = h
    BY <1>0, <1>1, <1>5, NullAssumption DEF Others, Types, HandlerOK, Made
  <2>4. \A g \in Handlers : held'[g] = d => Reading(g, d)'
    BY <1>2, <2>3 DEF Reading
  <2>5. InOrder(d)'
    BY <2>1 DEF InOrder
  <2> QED BY <2>1, <2>2, <2>4, <2>5 DEF DialogOK
<1> QED BY <1>4, <1>5

\* A handler at the dialog d knows what it has read.
LEMMA CheckShown ==
  ASSUME Types, Apart, ShownInv, NEW h \in Handlers, Check(h)
  PROVE  ShownInv'
<1>0. /\ Others(h) /\ pc[h] = "check"
      /\ UNCHANGED <<current, stage, selected, envs, submitted, shown, unseen, contended>>
  BY OthersKept DEF Handle, Processes, Check, At, history, choices
<1>1. PICK r : r = IF held[h] \in old THEN "expire" ELSE Reaction(held[h], text[h])
  OBVIOUS
<1>2. IF r = "idle" THEN Returns(h) ELSE Goto(h, r) /\ UNCHANGED <<held, text>>
  BY <1>1 DEF Check
<1>3. CASE r = "idle"
  BY <1>0, <1>2, <1>3, ReturnTypes, MoveShown
<1>4. CASE r # "idle"
  <2> SUFFICES ASSUME NEW d \in Dialogs PROVE DialogOK(d)'
    BY DEF ShownInv
  <2>1. pc'[h] = r /\ held'[h] = held[h] /\ DialogOK(d) /\ Same(d)
    BY <1>0, <1>2, <1>4 DEF Goto, Types, HandlerOK, ShownInv, Same, choices
  <2>2. CASE held[h] # d
    BY <1>0, <2>1, <2>2, OtherDialog
  <2>3. CASE held[h] = d /\ d \notin contended
    <3>1. \A g \in Handlers : held[g] = d => g = h
      BY <2>3, Alone
    <3>2. submitted[d] # <<>> => stage[d] = "continue"
      BY <1>0, <2>1, <2>3 DEF DialogOK, Final
    <3>3. r \in {"expire", "discard"} \/ (r = Reaction(d, text[h]) /\ stage[d] # "continue")
      BY <1>1, <1>4, <2>3, ReactionMeans
    <3>4. Reading(h, d)'
      <4>1. CASE r \in {"expire", "discard"}
        BY <2>1, <4>1 DEF Reading
      <4>2. CASE r = Reaction(d, text[h])
        <5>1. r = "submit" => Asked(d)
          BY <1>0, <2>1, <2>3, <3>1, <4>2, ReactionMeans DEF DialogOK, InOrder
        <5>2. r \notin {"wipe", "prompt", "send"}
          BY <4>2, ReactionMeans
        <5>3. /\ r \in {"select", "toEnv"} => stage[d] = "service"
              /\ r = "toEnv" => selected[d]
              /\ r \in {"toggle", "toVersion"} => stage[d] = "env"
              /\ r = "toVersion" => envs[d] # {}
              /\ r = "toConfirm" => stage[d] = "version"
              /\ r = "submit" => stage[d] = "confirm"
          BY <4>2, ReactionMeans
        <5> QED BY <2>1, <5>1, <5>2, <5>3 DEF Reading, Same, Asked
      <4> QED BY <3>3, <4>1, <4>2
    <3> QED BY <1>0, <2>1, <3>2, <3>4, DialogKept
  <2>4. CASE d \in contended
    BY <1>0, <2>4 DEF DialogOK
  <2> QED BY <2>2, <2>3, <2>4
<1> QED BY <1>3, <1>4

\* What a handler writes at a dialog does not reach another one.
LEMMA WriteShown ==
  ASSUME Types, Apart, ShownInv, NEW h \in Handlers, Others(h), pc[h] \notin Empty,
         UNCHANGED <<current, contended>>, held'[h] \in {held[h], NoDialog},
         NEW d \in Dialogs, d = held[h], \A e \in Dialogs \ {d} : Same(e),
         d \notin contended /\ (\A g \in Handlers : held[g] = d => g = h)
           /\ DialogOK(d) /\ Reading(h, d) => DialogOK(d)'
  PROVE  ShownInv'
<1> SUFFICES ASSUME NEW e \in Dialogs PROVE DialogOK(e)'
  BY DEF ShownInv
<1>1. CASE e # d
  BY <1>1, NullAssumption, OtherDialog DEF ShownInv
<1>2. CASE e = d /\ d \notin contended
  <2>1. DialogOK(d) /\ Reading(h, d)
    BY <1>2 DEF ShownInv, DialogOK
  <2> QED BY <1>2, <2>1, Alone
<1>3. CASE e = d /\ d \in contended
  BY <1>3 DEF DialogOK
<1> QED BY <1>1, <1>2, <1>3

\* A choice is made before anything is submitted.
LEMMA ChooseShown ==
  ASSUME Types, Apart, ShownInv, NEW h \in Handlers, Choose(h)
  PROVE  ShownInv'
<1>0. /\ Others(h) /\ pc[h] \in Choosing
      /\ UNCHANGED <<current, submitted, shown, unseen, contended, held>>
  BY OthersKept DEF Handle, Processes, Choose, At, Choosing, history
<1>1. PICK d \in Dialogs : d = held[h]
  BY <1>0, HeldType DEF Types, Choosing, Empty
<1>2. /\ pc[h] \notin Empty
      /\ IF pc[h] = "toConfirm" THEN pc'[h] = "wipe" ELSE pc'[h] \in {"clear", "answer", "edit"}
  BY <1>0 DEF Choose, At, Goto, Choosing, Empty, Types, HandlerOK
<1>3. /\ \/ pc[h] = "select" /\ selected' = [selected EXCEPT ![d] = TRUE] /\ UNCHANGED <<stage, envs>>
         \/ pc[h] = "toEnv" /\ stage' = [stage EXCEPT ![d] = "env"] /\ UNCHANGED <<selected, envs>>
         \/ /\ pc[h] = "toggle" /\ envs' = [envs EXCEPT ![d] = Toggle(@, text[h])]
            /\ UNCHANGED <<selected, stage>>
         \/ /\ pc[h] = "toVersion" /\ stage' = [stage EXCEPT ![d] = "version"]
            /\ UNCHANGED <<selected, envs>>
         \/ /\ pc[h] = "toConfirm" /\ stage' = [stage EXCEPT ![d] = "confirm"]
            /\ UNCHANGED <<selected, envs>>
  BY <1>1 DEF Choose, At, Enters
<1>4. \A e \in Dialogs \ {d} : Same(e)
  BY <1>0, <1>3 DEF Same, Types, TypeOK
<1>5. ASSUME d \notin contended, \A g \in Handlers : held[g] = d => g = h, DialogOK(d), Reading(h, d)
      PROVE  DialogOK(d)'
  <2>1. /\ selected'[d] = (selected[d] \/ pc[h] = "select")
        /\ pc[h] # "toggle" => envs'[d] = envs[d]
        /\ pc[h] = "toEnv" => stage'[d] = "env"
        /\ pc[h] = "toVersion" => stage'[d] = "version"
        /\ pc[h] = "toConfirm" => stage'[d] = "confirm"
        /\ pc[h] \notin {"toEnv", "toVersion", "toConfirm"} => stage'[d] = stage[d]
    BY <1>3 DEF Types, TypeOK
  <2>2. /\ stage[d] \in {"service", "env", "version"}
        /\ pc[h] \in {"select", "toEnv"} => stage[d] = "service"
        /\ pc[h] \in {"toggle", "toVersion"} => stage[d] = "env"
        /\ pc[h] = "toConfirm" => stage[d] = "version"
    BY <1>0, <1>5 DEF Reading, Choosing
  <2>3. submitted'[d] = <<>>
    BY <1>0, <1>1, <1>5, <2>2 DEF DialogOK, Final, Choosing
  <2>4. InOrder(d)'
    <3>1. CASE pc[h] = "toConfirm"
      BY <1>0, <1>1, <1>2, <1>5, <2>1, <2>2, <3>1 DEF DialogOK, InOrder
    <3>2. CASE pc[h] # "toConfirm"
      BY <1>0, <1>5, <2>1, <2>2, <3>2 DEF DialogOK, InOrder, Reading, Choosing
    <3> QED BY <3>1, <3>2
  <2>5. \A g \in Handlers : held'[g] = d => Reading(g, d)'
    BY <1>0, <1>2, <1>5, <2>1 DEF Reading
  <2> QED BY <2>3, <2>4, <2>5 DEF DialogOK
<1> QED BY <1>0, <1>1, <1>2, <1>4, <1>5, WriteShown

\* Between the version and the prompt the user has not been shown the choice.
LEMMA PromptShown ==
  ASSUME Types, Apart, ShownInv, NEW h \in Handlers, Prompt(h) \/ (Clear(h) /\ pc[h] = "wipe")
  PROVE  ShownInv'
<1>0. /\ Others(h) /\ pc[h] \in {"wipe", "prompt"}
      /\ UNCHANGED <<current, stage, selected, envs, submitted, contended>>
  BY OthersKept DEF Handle, Processes, Shows, Clear, Prompt, At, history
<1>1. PICK d \in Dialogs : d = held[h]
  BY <1>0, HeldType DEF Types, Empty
<1>2. \/ /\ pc[h] = "wipe" /\ UNCHANGED <<shown, unseen, held>> /\ pc'[h] = "prompt"
      \/ /\ pc[h] = "prompt" /\ held'[h] = NoDialog /\ pc'[h] = "idle"
         /\ \/ shown' = [shown EXCEPT ![d] = envs[d]] /\ unseen' = unseen
            \/ shown' = shown /\ unseen' = unseen \union {d}
  BY <1>1, ReturnTypes DEF Clear, Prompt, At, Goto, history, Types, HandlerOK
<1>3. \A e \in Dialogs \ {d} : Same(e)
  BY <1>0, <1>2 DEF Same, Types, TypeOK
<1>4. ASSUME d \notin contended, \A g \in Handlers : held[g] = d => g = h, DialogOK(d), Reading(h, d)
      PROVE  DialogOK(d)'
  <2>1. stage[d] = "confirm" /\ selected[d] /\ envs[d] # {} /\ submitted[d] = <<>>
    BY <1>0, <1>1, <1>4 DEF DialogOK, InOrder, Final, Reading
  <2>2. \A g \in Handlers : held'[g] = d => g = h
    BY <1>0, <1>4, NullAssumption DEF Others
  <2>3. CASE pc[h] = "wipe"
    <3>1. held'[h] = d /\ pc'[h] = "prompt"
      BY <1>1, <1>2, <2>3
    <3>2. InOrder(d)'
      BY <1>0, <2>1, <3>1 DEF InOrder
    <3>3. \A g \in Handlers : held'[g] = d => Reading(g, d)'
      BY <1>0, <2>1, <2>2, <3>1 DEF Reading
    <3> QED BY <1>0, <2>1, <3>2, <3>3 DEF DialogOK
  <2>4. CASE pc[h] = "prompt"
    <3>1. Asked(d)' /\ held'[h] = NoDialog
      BY <1>0, <1>2, <2>4 DEF Asked, Types, TypeOK
    <3>2. InOrder(d)'
      BY <1>0, <2>1, <3>1 DEF InOrder
    <3>3. \A g \in Handlers : held'[g] # d
      BY <2>2, <3>1, NullAssumption
    <3> QED BY <1>0, <2>1, <3>2, <3>3 DEF DialogOK
  <2> QED BY <1>0, <2>3, <2>4
<1>5. held'[h] \in {held[h], NoDialog} /\ pc[h] \notin Empty
  BY <1>0, <1>2 DEF Empty
<1> QED BY <1>0, <1>1, <1>3, <1>4, <1>5, WriteShown

\* What is stored is what the user was asked about, and whoever has stored it leaves
\* the dialog at its last stage or removes it.
LEMMA SubmitShown ==
  ASSUME Types, Apart, ShownInv, NEW h \in Handlers, Submit(h)
  PROVE  ShownInv'
<1>0. /\ Others(h) /\ pc[h] = "submit" /\ pc'[h] = "send"
      /\ UNCHANGED <<current, stage, selected, envs, shown, unseen, contended, held>>
  BY OthersKept DEF Handle, Processes, Submit, At, Goto, Types, HandlerOK, history
<1>1. PICK d \in Dialogs : d = held[h]
  BY <1>0, HeldType DEF Types, Empty
<1>2. submitted' = [submitted EXCEPT ![d] = Append(@, envs[d])]
  BY <1>1 DEF Submit
<1>3. \A e \in Dialogs \ {d} : Same(e)
  BY <1>0, <1>2 DEF Same, Types, TypeOK
<1>4. ASSUME d \notin contended, \A g \in Handlers : held[g] = d => g = h, DialogOK(d), Reading(h, d)
      PROVE  DialogOK(d)'
  <2>1. /\ stage[d] = "confirm" /\ Asked(d) /\ selected[d] /\ envs[d] # {}
        /\ submitted[d] = <<>>
    BY <1>0, <1>1, <1>4 DEF DialogOK, InOrder, Final, Reading
  <2>2. submitted'[d] = <<envs'[d]>>
    BY <1>0, <1>2, <2>1 DEF Types, TypeOK
  <2>3. /\ stage'[d] = "confirm" /\ Asked(d)' /\ selected'[d] /\ envs'[d] # {}
        /\ held'[h] = d
    BY <1>0, <1>1, <2>1 DEF Asked
  <2>4. \A g \in Handlers : held'[g] = d => g = h
    BY <1>0, <1>4
  <2>5. Final(d)'
    BY <1>0, <2>2, <2>3, <2>4 DEF Final, Made
  <2>6. InOrder(d)' /\ Reading(h, d)'
    BY <1>0, <2>3 DEF InOrder, Reading
  <2> QED BY <2>4, <2>5, <2>6 DEF DialogOK
<1> QED BY <1>0, <1>1, <1>3, <1>4, WriteShown DEF Empty

LEMMA SendShown ==
  ASSUME Types, Apart, ShownInv, NEW h \in Handlers, Send(h)
  PROVE  ShownInv'
<1>0. /\ Others(h) /\ pc[h] = "send"
      /\ UNCHANGED <<current, selected, envs, submitted, shown, unseen, contended>>
  BY OthersKept DEF Handle, Processes, Send, At, history
<1>1. PICK d \in Dialogs : d = held[h]
  BY <1>0, HeldType DEF Types, Empty
<1>2. CASE Goto(h, "discard") /\ UNCHANGED <<stage, held, text>>
  <2>1. pc'[h] = "discard"
    BY <1>0, <1>2 DEF Goto, Types, HandlerOK
  <2> QED BY <1>0, <1>2, <2>1, MoveShown
<1>3. CASE stage' = [stage EXCEPT ![d] = "continue"] /\ Returns(h)
  <2>1. held'[h] = NoDialog
    BY <1>3, ReturnTypes
  <2>2. \A e \in Dialogs \ {d} : Same(e)
    BY <1>0, <1>3 DEF Same, Types, TypeOK
  <2>3. ASSUME d \notin contended, \A g \in Handlers : held[g] = d => g = h, DialogOK(d), Reading(h, d)
        PROVE  DialogOK(d)'
    <3>1. stage[d] = "confirm" /\ selected[d] /\ envs[d] # {} /\ stage'[d] = "continue"
      BY <1>0, <1>1, <1>3, <2>3 DEF DialogOK, InOrder, Reading, Types, TypeOK
    <3>2. \A g \in Handlers : held'[g] # d
      BY <1>0, <1>1, <2>1, <2>3, NullAssumption DEF Others
    <3>3. InOrder(d)'
      BY <1>0, <3>1 DEF InOrder
    <3>4. ASSUME Final(d) PROVE Final(d)'
      BY <1>0, <3>1, <3>2, <3>4 DEF Final, Made, Asked
    <3> QED BY <1>0, <2>3, <3>2, <3>3, <3>4 DEF DialogOK
  <2> QED BY <1>0, <1>1, <2>1, <2>2, <2>3, WriteShown DEF Empty
<1> QED BY <1>1, <1>2, <1>3 DEF Send, Enters

LEMMA NextShown ==
  ASSUME Types, Apart, ShownInv, [Next]_vars PROVE ShownInv'
<1>1. ASSUME NEW d \in Dialogs, Monitor(d) \/ Age(d) PROVE ShownInv'
  <2>1. /\ UNCHANGED <<stage, selected, envs, submitted, shown, unseen, contended, pc, held>>
        /\ current' \in {current, NoDialog}
    BY <1>1 DEF Monitor, Wait, Timeout, RemoveTimedOut, Delete, Age, choices, handlers, history
  <2> SUFFICES ASSUME NEW e \in Dialogs PROVE DialogOK(e)'
    BY DEF ShownInv
  <2>2. DialogOK(e) /\ Same(e) /\ (current' = e => current = e)
    BY <2>1, NullAssumption DEF ShownInv, Same, choices
  <2> QED BY <2>1, <2>2, NobodyDialog
<1>2. CASE UNCHANGED vars
  <2> SUFFICES ASSUME NEW e \in Dialogs PROVE DialogOK(e)'
    BY DEF ShownInv
  <2>1. DialogOK(e) /\ Same(e) /\ UNCHANGED <<contended, current, pc, held>>
    BY <1>2 DEF ShownInv, Same, vars, choices, handlers, history
  <2> QED BY <2>1, NobodyDialog
<1>3. ASSUME NEW h \in Handlers, Shows(h) PROVE ShownInv'
  <2>1. ASSUME Clear(h) PROVE pc[h] \in {"clear", "wipe"}
    BY <2>1 DEF Clear, At
  <2> QED BY <1>3, <2>1, QuietShown, PromptShown DEF Shows
<1> QED BY <1>1, <1>2, <1>3, QuietShown, StoreShown, CheckShown, ChooseShown, SubmitShown,
           SendShown
        DEF Next, Handle, Starts, Processes

\* What waits for the administrator's confirmation is what the user has chosen and
\* was shown, unless the prompt could not be sent, and it is asked for once, at any
\* dialog that no two handlers were at together (dialog.go 256-411).
THEOREM SubmissionIsShown == Spec => []SubmittedIsShown
<1>1. ASSUME ShownInv, Types, NEW d \in Dialogs \ contended
      PROVE  /\ Len(submitted[d]) <= 1
             /\ \A i \in DOMAIN submitted[d] :
                  /\ selected[d] /\ envs[d] # {} /\ submitted[d][i] = envs[d]
                  /\ shown[d] = submitted[d][i] \/ d \in unseen
  <2>1. CASE submitted[d] = <<>>
    BY <2>1
  <2>2. CASE submitted[d] = <<envs[d]>> /\ Asked(d) /\ selected[d] /\ envs[d] # {}
    <3>1. Len(submitted[d]) = 1 /\ DOMAIN submitted[d] = {1} /\ submitted[d][1] = envs[d]
      BY <2>2
    <3> QED BY <2>2, <3>1 DEF Asked
  <2> QED BY <1>1, <2>1, <2>2 DEF ShownInv, DialogOK, Final
<1>2. Types /\ ShownInv => SubmittedIsShown
  BY <1>1 DEF SubmittedIsShown
<1> QED BY <1>2, InitTypes, NextTypes, InitApart, NextApart, InitShown, NextShown, PTL DEF Spec
=============================================================================
