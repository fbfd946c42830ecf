------------------------------- MODULE Dialog -------------------------------
(***************************************************************************)
(* The deployment dialogs of the legacy deployer (internal/dialog).  A     *)
(* dialog is found under its user, so that one user stands for all.  Every *)
(* update of the chat is processed by a handler, which keeps a pointer to  *)
(* the dialog it has loaded over its calls of Telegram, and every dialog   *)
(* has a monitor that removes whatever dialog the user then has.           *)
(***************************************************************************)
EXTENDS Naturals, Sequences, FiniteSets

CONSTANTS
  Handlers,     \* goroutines that process updates
  Dialogs,      \* the DialogStates that may be made, a bound
  Envs,
  NoDialog, NoText,
  MaxOverlaps   \* bound on the updates that find another handler at work

ASSUME NullAssumption == NoDialog \notin Dialogs
ASSUME BoundAssumption ==
  MaxOverlaps \in Nat /\ IsFiniteSet(Handlers) /\ IsFiniteSet(Dialogs)

VARIABLES
  current,      \* dialogs[userID]
  stage,        \* DialogState.Stage, "none" if it has not been made
  selected,     \* DialogState.Selected # ""
  envs,         \* DialogState.SelectedEnvs
  filled,       \* dialogs whose DialogState.Messages is not empty
  submitted,    \* PendingConfirmations: what has been stored for each dialog
  closed,       \* dialogs whose timeoutCancel is closed
  monitor,      \* the goroutine of each dialog
  old,          \* dialogs that were started longer than DialogTimeout ago
  pc, held, text, \* the handlers: control, the dialog loaded, the update
  panicked,
  overlaps,     \* how many updates have found another handler at work
  shown,        \* history: what the prompt to confirm has shown
  unseen,       \* history: dialogs whose prompt to confirm was not sent
  contended,    \* history: dialogs two handlers held at the same time
  untold        \* history: dialogs whose monitor has missed their end

choices == <<stage, selected, envs, filled>>
handlers == <<pc, held, text>>
clock == <<old, overlaps>>
history == <<shown, unseen, contended, untold>>
vars == <<current, choices, submitted, closed, monitor, clock, handlers,
          panicked, history>>

\* What a user presses or types, where any text will do for a version, and why
\* a handler runs that processes no text.
Texts == {"select", "next", "confirm", "cancel"} \union Envs
Calls == {"start", "close"}

Init ==
  /\ current = NoDialog
  /\ stage = [d \in Dialogs |-> "none"]
  /\ selected = [d \in Dialogs |-> FALSE]
  /\ envs = [d \in Dialogs |-> {}] /\ filled = {}
  /\ submitted = [d \in Dialogs |-> <<>>]
  /\ closed = {}
  /\ monitor = [d \in Dialogs |-> "none"]
  /\ old = {}
  /\ pc = [h \in Handlers |-> "idle"]
  /\ held = [h \in Handlers |-> NoDialog]
  /\ text = [h \in Handlers |-> NoText]
  /\ panicked = FALSE
  /\ overlaps = 0
  /\ shown = [d \in Dialogs |-> {}]
  /\ unseen = {} /\ contended = {} /\ untold = {}

-----------------------------------------------------------------------------
At(h, p) == ~panicked /\ pc[h] = p
Goto(h, p) == pc' = [pc EXCEPT ![h] = p]
Begins(h, x, p) == Goto(h, p) /\ text' = [text EXCEPT ![h] = x]
\* An update is taken by a free handler; which one does not matter.
Arrives(h, x, p) ==
  /\ h = CHOOSE g \in Handlers : pc[g] = "idle"
  /\ Begins(h, x, p)
  /\ IF \A g \in Handlers : pc[g] = "idle" THEN UNCHANGED overlaps
     ELSE overlaps < MaxOverlaps /\ overlaps' = overlaps + 1
Returns(h) ==
  /\ Begins(h, NoText, "idle")
  /\ held' = [held EXCEPT ![h] = NoDialog]

\* A handler loads a dialog from the map, and may not be the only one.
Load(h) ==
  /\ held' = [held EXCEPT ![h] = current]
  /\ contended' = contended \union {d \in {current} : \E g \in Handlers \ {h} : held[g] = d}

\* dialogs.Delete(userID) on behalf of the dialog d may hit another one.
Delete(d) ==
  /\ current' = NoDialog
  /\ untold' = untold \union ({current} \ {d, NoDialog})

-----------------------------------------------------------------------------
(* CancelDialog, for the user or for StartDialog *)

CancelDialog(h) ==
  /\ At(h, "idle")
  /\ Arrives(h, "close", "load")
  /\ UNCHANGED <<current, choices, submitted, closed, monitor, old, held,
                 panicked, history>>

Cancelled(h) ==
  IF text[h] = "start"
  THEN Goto(h, "store") /\ held' = [held EXCEPT ![h] = NoDialog] /\ UNCHANGED text
  ELSE Returns(h)

LoadToCancel(h) ==
  /\ At(h, "load")
  /\ IF current = NoDialog THEN Cancelled(h) /\ UNCHANGED contended
                           ELSE Load(h) /\ Goto(h, "signal") /\ UNCHANGED text
  /\ UNCHANGED <<current, choices, submitted, closed, monitor, clock, panicked,
                 shown, unseen, untold>>

\* The send does not wait: only a monitor in its select receives it.  On a
\* closed channel it panics.
Signal(h) ==
  LET d == held[h]
  IN /\ At(h, "signal")
     /\ IF d \in closed THEN panicked' = TRUE ELSE UNCHANGED panicked
     /\ IF monitor[d] = "waiting"
        THEN monitor' = [monitor EXCEPT ![d] = "ended"] /\ UNCHANGED untold
        ELSE untold' = untold \union {d} /\ UNCHANGED monitor
     /\ Goto(h, "remove")
     /\ UNCHANGED <<current, choices, submitted, closed, clock, held, text,
                    shown, unseen,
                    contended>>

\* Mutant of Remove: what was cancelled stays in the map.
RemoveNothing(h) ==
  /\ At(h, "remove")
  /\ Cancelled(h)
  /\ UNCHANGED <<current, choices, submitted, closed, monitor, clock,
                 panicked, history>>

Remove(h) ==
  /\ At(h, "remove")
  /\ Delete(held[h])
  /\ Cancelled(h)
  /\ UNCHANGED <<choices, submitted, closed, monitor, clock, panicked, shown, unseen,
                 contended>>

-----------------------------------------------------------------------------
(* StartDialog *)

Made == {d \in Dialogs : stage[d] # "none"}
Making == {h \in Handlers : text[h] = "start" /\ pc[h] \in {"load", "signal", "remove", "store"}}
Unused == CHOOSE d \in Dialogs \ Made : TRUE

StartDialog(h) ==
  /\ At(h, "idle")
  /\ Cardinality(Made) + Cardinality(Making) < Cardinality(Dialogs)
  /\ Arrives(h, "start", IF current = NoDialog THEN "store" ELSE "load")
  /\ UNCHANGED <<current, choices, submitted, closed, monitor, old, held,
                 panicked, history>>

\* Mutant of StoreDialog: the new dialog has no stage.
StoreDialogBlank(h) ==
  /\ At(h, "store")
  /\ LET d == Unused IN
       /\ held' = [held EXCEPT ![h] = d]
       /\ current' = d
  /\ Goto(h, "show")
  /\ UNCHANGED <<choices, submitted, closed, monitor, clock, text, panicked,
                 history>>

\* A message to the chat may fail, and is kept in Messages only if it does not.
MayFill(d) == filled' \in {filled, filled \union {d}}

\* A dialog that another handler has stored meanwhile is overwritten.
StoreDialog(h) ==
  /\ At(h, "store")
  /\ LET d == Unused IN
       /\ stage' = [stage EXCEPT ![d] = "service"]
       /\ held' = [held EXCEPT ![h] = d]
       /\ current' = d
       /\ MayFill(d)
  /\ untold' = untold \union ({current} \ {NoDialog})
  /\ Goto(h, "show")
  /\ UNCHANGED <<selected, envs, submitted, closed, monitor, clock, text,
                 panicked, shown, unseen, contended>>

\* The messages with the services, up to three times ten seconds apart when the
\* list is empty; the monitor is started only then.
ShowServices(h) ==
  /\ At(h, "show")
  /\ monitor' = [monitor EXCEPT ![held[h]] = "started"]
  /\ MayFill(held[h])
  /\ Returns(h)
  /\ UNCHANGED <<current, stage, selected, envs, submitted, closed, clock,
                 panicked, history>>

-----------------------------------------------------------------------------
(* ProcessDialog *)

ProcessDialog(h) ==
  /\ At(h, "idle")
  /\ current # NoDialog
  /\ Load(h)
  /\ \E x \in Texts : Arrives(h, x, "check")
  /\ UNCHANGED <<current, choices, submitted, closed, monitor, old, panicked,
                 shown, unseen, untold>>

\* Mutant of Reaction: an environment is also chosen while the user confirms.
ReactionLate(d, x) ==
  CASE x = "cancel" /\ stage[d] # "continue"               -> "discard"
    [] stage[d] = "service" /\ x = "select"                -> "select"
    [] stage[d] = "service" /\ x = "next" /\ selected[d]   -> "toEnv"
    [] stage[d] \in {"env", "confirm"} /\ x \in Envs       -> "toggle"
    [] stage[d] = "env" /\ x = "next" /\ envs[d] # {}      -> "toVersion"
    [] stage[d] = "version" /\ x # "cancel"                -> "toConfirm"
    [] stage[d] = "confirm" /\ x = "confirm"               -> "submit"
    [] OTHER                                               -> "idle"

\* What the handler is about to do; "idle": it answers and returns.  Whatever is
\* typed at the stage "version" is the version.
Reaction(d, x) ==
  CASE x = "cancel" /\ stage[d] # "continue"               -> "discard"
    [] stage[d] = "service" /\ x = "select"                -> "select"
    [] stage[d] = "service" /\ x = "next" /\ selected[d]   -> "toEnv"
    [] stage[d] = "env" /\ x \in Envs                      -> "toggle"
    [] stage[d] = "env" /\ x = "next" /\ envs[d] # {}      -> "toVersion"
    [] stage[d] = "version" /\ x # "cancel"                -> "toConfirm"
    [] stage[d] = "confirm" /\ x = "confirm"               -> "submit"
    [] OTHER                                               -> "idle"

\* Its start is compared with the clock, its stage and the text decide.
Check(h) ==
  LET d == held[h]
      next == IF d \in old THEN "expire" ELSE Reaction(d, text[h])
  IN /\ At(h, "check")
     /\ IF next = "idle" THEN Returns(h) ELSE Goto(h, next) /\ UNCHANGED <<held, text>>
     /\ UNCHANGED <<current, choices, submitted, closed, monitor, clock,
                    panicked,
                    history>>

\* An old dialog is removed, and nobody tells its monitor.
Expire(h) ==
  /\ At(h, "expire")
  /\ current' = NoDialog
  /\ untold' = untold \union ({current, held[h]} \ {NoDialog})
  /\ Returns(h)
  /\ UNCHANGED <<choices, submitted, closed, monitor, clock, panicked, shown, unseen,
                 contended>>

Toggle(S, e) == IF e \in S THEN S \ {e} ELSE S \union {e}
Enters(d, s) == stage' = [stage EXCEPT ![d] = s]

\* The choice is written where the handler has found the dialog, and is shown in
\* its last message, if there is one, or in a new one.
Choose(h) ==
  LET d == held[h]
      answer == IF d \in filled THEN "edit" ELSE "answer"
  IN /\ \/ /\ At(h, "select") /\ Goto(h, answer)
           /\ selected' = [selected EXCEPT ![d] = TRUE]
           /\ UNCHANGED <<stage, envs>>
        \/ /\ At(h, "toggle") /\ Goto(h, answer)
           /\ envs' = [envs EXCEPT ![d] = Toggle(@, text[h])]
           /\ UNCHANGED <<stage, selected>>
        \/ /\ At(h, "toEnv") /\ Goto(h, "clear")
           /\ Enters(d, "env") /\ UNCHANGED <<selected, envs>>
        \/ /\ At(h, "toVersion") /\ Goto(h, "clear")
           /\ Enters(d, "version") /\ UNCHANGED <<selected, envs>>
        \/ /\ At(h, "toConfirm") /\ Goto(h, "wipe")
           /\ Enters(d, "confirm") /\ UNCHANGED <<selected, envs>>
     /\ UNCHANGED <<current, filled, submitted, closed, monitor, clock, held, text,
                    panicked, history>>

\* Messages is emptied when its messages have been deleted from the chat.
Clear(h) ==
  /\ \/ At(h, "clear") /\ Goto(h, "answer")
     \/ At(h, "wipe") /\ Goto(h, "prompt")
  /\ filled' = filled \ {held[h]}
  /\ UNCHANGED <<current, stage, selected, envs, submitted, closed, monitor, clock,
                 held, text, panicked, history>>

Answer(h) ==
  /\ At(h, "answer")
  /\ MayFill(held[h])
  /\ Returns(h)
  /\ UNCHANGED <<current, stage, selected, envs, submitted, closed, monitor, clock,
                 panicked, history>>

\* The last message is looked up again after it has been edited, at the index -1
\* when Messages has been emptied meanwhile; not if the edit has failed.
Edit(h) ==
  /\ At(h, "edit")
  /\ panicked' \in {FALSE, held[h] \notin filled}
  /\ MayFill(held[h])
  /\ Returns(h)
  /\ UNCHANGED <<current, stage, selected, envs, submitted, closed, monitor, clock,
                 history>>

\* The dialog waits for the confirmation whether or not the prompt was sent.
Prompt(h) ==
  LET d == held[h]
  IN /\ At(h, "prompt")
     /\ \/ /\ shown' = [shown EXCEPT ![d] = envs[d]]
           /\ filled' = filled \union {d} /\ UNCHANGED unseen
        \/ unseen' = unseen \union {d} /\ UNCHANGED <<shown, filled>>
     /\ Returns(h)
     /\ UNCHANGED <<current, stage, selected, envs, submitted, closed, monitor, clock,
                    panicked, contended, untold>>

\* A task for each environment is put into PendingConfirmations ...
Submit(h) ==
  /\ At(h, "submit")
  /\ filled' = filled \ {held[h]}
  /\ submitted' = [submitted EXCEPT ![held[h]] = Append(@, envs[held[h]])]
  /\ Goto(h, "send")
  /\ UNCHANGED <<current, stage, selected, envs, closed, monitor, clock, held,
                 text, panicked, history>>

\* ... and stays there when the message for the confirmation can not be sent.
Send(h) ==
  /\ At(h, "send")
  /\ \/ Enters(held[h], "continue") /\ Returns(h)
     \/ Goto(h, "discard") /\ UNCHANGED <<stage, held, text>>
  /\ UNCHANGED <<current, selected, envs, filled, submitted, closed, monitor,
                 clock, panicked, history>>

\* Mutant of Discard: the dialog stays in the map.
DiscardNothing(h) ==
  /\ At(h, "discard")
  /\ Goto(h, "close")
  /\ UNCHANGED <<current, choices, submitted, closed, monitor, clock, held,
                 text,
                 panicked, history>>

Discard(h) ==
  /\ At(h, "discard")
  /\ Delete(held[h])
  /\ Goto(h, "close")
  /\ UNCHANGED <<choices, submitted, closed, monitor, clock, held, text,
                 panicked,
                 shown, unseen, contended>>

\* Mutant of Close: the channel stays open.
CloseNothing(h) ==
  /\ At(h, "close")
  /\ Returns(h)
  /\ UNCHANGED <<current, choices, submitted, closed, monitor, clock,
                 panicked, history>>

\* Whoever waits is told, a monitor that has not come to its select will be, one
\* that is already removing a dialog is not.  The second close panics.
Close(h) ==
  LET d == held[h]
  IN /\ At(h, "close")
     /\ IF d \in closed THEN panicked' = TRUE ELSE UNCHANGED panicked
     /\ closed' = closed \union {d}
     /\ monitor' = [monitor EXCEPT ![d] = IF @ = "waiting" THEN "ended" ELSE @]
     /\ untold' = IF monitor[d] = "removing" THEN untold \union {d} ELSE untold
     /\ Returns(h)
     /\ UNCHANGED <<current, choices, submitted, clock, shown, unseen, contended>>

-----------------------------------------------------------------------------
(* monitorDialogTimeout *)

Wait(d) ==
  /\ ~panicked /\ monitor[d] = "started"
  /\ monitor' = [monitor EXCEPT ![d] = IF d \in closed THEN "ended" ELSE "waiting"]
  /\ UNCHANGED <<current, choices, submitted, closed, clock, handlers,
                 panicked, history>>

\* The timer is younger than the dialog.  Any dialog of the user will do.
Timeout(d) ==
  /\ ~panicked /\ monitor[d] = "waiting" /\ d \in old
  /\ monitor' = [monitor EXCEPT ![d] = IF current = NoDialog THEN "ended" ELSE "removing"]
  /\ UNCHANGED <<current, choices, submitted, closed, clock, handlers,
                 panicked, history>>

\* The messages of the monitor's own dialog are deleted before.
RemoveTimedOut(d) ==
  /\ ~panicked /\ monitor[d] = "removing"
  /\ monitor' = [monitor EXCEPT ![d] = "ended"]
  /\ Delete(d)
  /\ UNCHANGED <<choices, submitted, closed, clock, handlers, panicked, shown, unseen,
                 contended>>

\* DialogTimeout seconds have passed.
Age(d) ==
  /\ ~panicked /\ stage[d] # "none" /\ d \notin old
  /\ old' = old \union {d}
  /\ UNCHANGED <<current, choices, submitted, closed, monitor, handlers,
                 panicked,
                 overlaps, history>>

-----------------------------------------------------------------------------
Cancels(h) == LoadToCancel(h) \/ Signal(h) \/ Remove(h)
Starts(h) == StoreDialog(h) \/ ShowServices(h)
Shows(h) == Clear(h) \/ Answer(h) \/ Edit(h) \/ Prompt(h)
Processes(h) == Check(h) \/ Expire(h) \/ Choose(h) \/ Shows(h) \/ Submit(h)
                \/ Send(h) \/ Discard(h) \/ Close(h)
Handle(h) == Cancels(h) \/ Starts(h) \/ Processes(h)
Update(h) == CancelDialog(h) \/ StartDialog(h) \/ ProcessDialog(h)
Monitor(d) == Wait(d) \/ Timeout(d) \/ RemoveTimedOut(d)

Next ==
  \/ \E h \in Handlers : Update(h) \/ Handle(h)
  \/ \E d \in Dialogs : Monitor(d) \/ Age(d)

Spec == Init /\ [][Next]_vars

-----------------------------------------------------------------------------
(* Properties *)

\* Every variable has its type, the user's dialog has been made, and no monitor
\* waits at a closed channel.
TypeOK ==
  /\ current \in Dialogs \union {NoDialog}
  /\ stage \in [Dialogs -> {"none", "service", "env", "version", "confirm", "continue"}]
  /\ current # NoDialog => stage[current] # "none"
  /\ selected \in [Dialogs -> BOOLEAN]
  /\ envs \in [Dialogs -> SUBSET Envs] /\ shown \in [Dialogs -> SUBSET Envs]
  /\ submitted \in [Dialogs -> Seq(SUBSET Envs)]
  /\ monitor \in [Dialogs -> {"none", "started", "waiting", "removing", "ended"}]
  /\ \A d \in closed : monitor[d] # "waiting"
  /\ filled \union closed \union old \subseteq Dialogs
  /\ contended \union untold \union unseen \subseteq Dialogs
  /\ held \in [Handlers -> Dialogs \union {NoDialog}]
  /\ text \in [Handlers -> Texts \union Calls \union {NoText}]
  /\ panicked \in BOOLEAN
  /\ overlaps \in 0..MaxOverlaps

\* What waits for the administrator's confirmation is what the user has chosen, a
\* service, at least one environment and the version, and was shown before he
\* confirmed, unless the prompt could not be sent; no choice changes it, and it is
\* asked for once, whether or not the message was sent.  Unless two handlers were at
\* the dialog together, as they may be between the check of a stage and the write
\* that follows it (dialog.go 256-411).
SubmittedIsShown ==
  \A d \in Dialogs \ contended :
    /\ Len(submitted[d]) <= 1
    /\ \A i \in DOMAIN submitted[d] :
         /\ selected[d] /\ envs[d] # {} /\ submitted[d][i] = envs[d]
         /\ shown[d] = submitted[d][i] \/ d \in unseen

\* A channel is closed twice or used after it was closed, and the last message is
\* looked up in a list that has been emptied, only when two handlers are at one
\* dialog: its end is final for whoever comes later, and a message that was there
\* stays there while it is edited (dialog.go 272-302, 338-350, 402-406, 700-703).
PanicNeedsTwo == panicked => contended # {}

\* A monitor whose time is over removes another dialog than its own only if it
\* could not know of the end of its own: the signal found it outside of its
\* select, a handler found the dialog old and told nobody, or the channel is
\* closed only after the dialog was removed (dialog.go 248-254, 716-728).
TimeoutIsOwn ==
  [][\A d \in Dialogs :
       RemoveTimedOut(d) /\ current \notin {d, NoDialog} =>
         d \in untold \/ \E h \in Handlers : held[h] = d /\ pc[h] = "close"]_vars

\* Every dialog comes to its end, whatever the user does and whoever has been told
\* what: the one in the map has a monitor that has not been told off, or a handler
\* that is about to start it or to remove the dialog (dialog.go 49-79, 693-728).
EndIsAhead ==
  \A d \in Dialogs : current = d /\ ~panicked =>
    /\ d \notin closed
    /\ \/ monitor[d] \in {"started", "waiting", "removing"}
       \/ \E h \in Handlers : held[h] = d /\ pc[h] \in {"show", "remove"}
=============================================================================
