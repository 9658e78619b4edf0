---------------------------- MODULE LoadingDialog ----------------------------
(***************************************************************************)
(* The container of the dialogs, ModalContainer.tsx: it shows the loading  *)
(* dialog while an operation, a remote call, a payment or a drawer is      *)
(* waited for, and in it the errors of the operations and the messages of  *)
(* the engine.  It composes the remote calls with the answers of the       *)
(* operations (sagas/businessState.ts), the messages (userNotification)    *)
(* and the middleware of the dialogs (modalMiddleware.ts), here one step   *)
(* per request.                                                            *)
(*                                                                         *)
(* The store is rendered after each put of a saga, but only once for all   *)
(* that an event handler of a screen dispatches.  What the container       *)
(* dispatches while it is updated comes back to it as its next update, and *)
(* what it sets of its own state is read at once by render, and by the     *)
(* next componentWillReceiveProps only when it is committed.               *)
(***************************************************************************)
EXTENDS RemoteCall, Sequences, SequencesExt

CONSTANTS None,
          MaxOperations,  \* bound on the operations under way
          MaxEnds         \* bound on the answers of the engine

ASSUME BoundAssumption == MaxOperations \in Nat \ {0} /\ MaxEnds \in Nat

ASSUME NoneAssumption ==
  None \notin {"plain", "shown", "noted", "apart", "device", "override", "forfeit", "refund",
               "active", "reversal", "cancelling", "nonIntegrated", "drawer", "fallback"}

VARIABLES store,      \* what the container maps to its props, but remoteCall
          dialogs,    \* the requests kept by the middleware, the dialogs shown
          todo,       \* what a saga has yet to put in this stretch
          due,        \* is there a change the container has not rendered?
          seen,       \* this.props
          committed,  \* this.state
          wanted,     \* this.state with what setState has queued
          ended,      \* the number of operations that have ended
          piled       \* history: has an alert left several requests behind?

own  == <<store, dialogs, todo, due, seen, committed, wanted, ended, piled>>
all  == <<own, vars>>

\* LOADING_MODAL, MANAGER_APPROVAL_MODAL, RETRY_VOID_AS_REFUND_MODAL,
\* ERROR_MESSAGE_MODAL, SUSPEND_TRANSACTION_MODAL and ALERT_MODAL; only the
\* last cannot be cancelled.
Dialogs == {"loading", "approval", "retry", "reversal", "suspend", "alert"}

\* How the container deals with what an operation ends with: none and plain are
\* no PosBusinessError; noted ones are shown by the current scene; apart ones,
\* device, override and forfeit are in the list of the errors handled separately.
Errors == {None, "plain", "shown", "noted", "apart", "device", "override", "forfeit"}

\* Messages the container shows, those of the current scene and
\* SSF_PAYMENT_DEVICE_AUTH_VOID_FAILED_ALLOW_REFUND.
Messages == {None, "shown", "noted", "refund"}

\* The logical states and the state values the container tells apart; the
\* authorization device is active, or the drawer awaited, or the authorization
\* waits for what its name says, or change could not be issued.
Waiting == "merchandise waiting"
Engine ==
  {<<Waiting, value>> : value \in {None, "active", "reversal", "cancelling", "nonIntegrated"}}
  \cup {<<"other waiting", "active">>, <<"ordinary", None>>, <<"ordinary", "drawer">>,
        <<"ordinary", "fallback">>, <<"logged off", None>>}

-----------------------------------------------------------------------------
(* The middleware: d is [buffer, shown, broken], changed by one request.   *)

Cancellable(m) == m # "alert"

IndexOf(m, d) == SelectInSeq(d.buffer, LAMBDA e : e = m)

\* The entry hidden gives its place to the one behind it; without an entry of
\* its own (index -1) the last is dropped, and reading behind it throws.
HideBy(show, m, d) ==
  LET index == IndexOf(m, d)
      left  == IF index > 0 THEN RemoveAt(d.buffer, index)
               ELSE IF d.buffer = <<>> THEN <<>> ELSE Front(d.buffer)
  IN  IF m \notin d.shown THEN d
      ELSE IF index = 0 /\ left # <<>> THEN [d EXCEPT !.broken = TRUE]
      ELSE IF index = 0 \/ Len(left) < index
        THEN [d EXCEPT !.buffer = left, !.shown = @ \ {m}]
      ELSE LET spliced == [d EXCEPT !.buffer = RemoveAt(left, index)]
           IN  [show[<<left[index], spliced>>] EXCEPT !.shown = @ \ {m}]

ShowBy(show, m, d) ==
  IF m \in d.shown THEN d
  ELSE LET pushed == [d EXCEPT !.buffer = Append(@, m)] IN
       IF Len(pushed.buffer) > 1 /\ Cancellable(Head(pushed.buffer))
         THEN HideBy(show, Head(pushed.buffer), pushed)
         ELSE [pushed EXCEPT !.shown = @ \cup {m}]

\* The dialogs with n requests in the buffer.
Holding(n) == [buffer : [1 .. n -> Dialogs], shown : SUBSET Dialogs, broken : BOOLEAN]

\* A show with n requests in the buffer.  The hide inside takes two from the
\* n + 1 there are, and shows the second of them again.
ShowAmong[n \in Nat] ==
  [request \in Dialogs \X Holding(n) |-> ShowBy(ShowAmong[n - 1], request[1], request[2])]

Show(m, d) == ShowBy(ShowAmong[Len(d.buffer) - 1], m, d)

Hide(m, d) == HideBy(ShowAmong[Len(d.buffer) - 2], m, d)

Destroy(m, d) ==
  IF \E i \in DOMAIN d.buffer : d.buffer[i] = m THEN d ELSE [d EXCEPT !.shown = @ \ {m}]

-----------------------------------------------------------------------------
(* What the container reads of its props and of its state. *)

Props ==
  [inProgress |-> store.count > 0, error |-> store.error, logical |-> store.engine[1],
   value |-> store.engine[2], message |-> store.message, blocked |-> store.blocked,
   shown |-> dialogs.shown, remote |-> state.isProcessing]

\* processingStarted
Processing(p, c) == p.inProgress \/ p.remote \/ c.error \/ c.payment \/ c.drawerWaiting

\* processingStopped
Stopped(p, c) == ~p.inProgress /\ ~p.remote /\ ~c.error /\ ~c.payment /\ ~c.drawerWaiting

DevicePaying(p) == p.logical \in {Waiting, "other waiting"} /\ p.value = "active"

NotificationNeeded(p) == p.error # None \/ p.message # None

OperationEnds(old, new) == old.inProgress /\ ~new.inProgress

ShouldHandleError(old, new) ==
  \/ OperationEnds(old, new)
  \/ old.logical = Waiting /\ new.logical # Waiting

NonIntegratedInput(old, new) ==
  new.value = "nonIntegrated" /\ (old.value = "nonIntegrated" => OperationEnds(old, new))

\* Mutant: accepted or not.
ManualReversal_UntilOver(old, new) == new.value = "reversal"

\* Started, or still going on and not accepted by the operator.
ManualReversal(old, new) ==
  new.value = "reversal" /\ (old.value = "reversal" => ~committed.reversalWaiting)

-----------------------------------------------------------------------------
(* What the container does: w is [c, message, dialogs], the state it wants, *)
(* the message in the store and the dialogs.                                *)

\* onMessageDisplayClose, with the state it reads.
Closed(now, w) ==
  [w EXCEPT !.c.error = FALSE, !.c.notified = FALSE,
            !.message = IF now.notified THEN None ELSE @]

\* onModalCancel
Cancelled(now, w) ==
  Closed(now, [w EXCEPT !.dialogs = Hide("reversal", Hide("retry", Hide("approval", @)))])

\* handleError and what it calls.
ErrorHandled(new, w) ==
  CASE new.error \in {None, "plain"} -> [w EXCEPT !.c.payment = FALSE]
    [] new.error = "shown" -> [w EXCEPT !.c.payment = FALSE, !.c.error = TRUE]
    [] new.error = "noted" -> [w EXCEPT !.message = None]
    [] new.error = "device" -> [w EXCEPT !.c.choosing = TRUE]
    [] new.error = "override" ->
         [w EXCEPT !.dialogs = Show("approval", Hide("loading", @))]
    [] new.error = "forfeit" -> [w EXCEPT !.dialogs = Show("alert", @)]
    [] OTHER -> w

\* handleUserNotification
MessageHandled(new, w) ==
  CASE new.message = "shown" -> [w EXCEPT !.c.error = TRUE, !.c.notified = TRUE]
    [] new.message = "noted" -> [w EXCEPT !.message = None]
    [] new.message = "refund" /\ ~committed.payment ->
         [w EXCEPT !.dialogs = Show("retry", Hide("loading", @)), !.c.notified = TRUE]
    [] OTHER -> w

\* The first of the cases of componentWillReceiveProps that applies.
Received(old, new, w) ==
  CASE NonIntegratedInput(old, new) -> w
    [] ~NonIntegratedInput(old, new) /\ ManualReversal(old, new) ->
         [w EXCEPT !.dialogs = Show("reversal", @)]
    [] OTHER ->
         IF DevicePaying(new) /\ ~NotificationNeeded(new) THEN [w EXCEPT !.c.payment = TRUE]
         ELSE IF ShouldHandleError(old, new) THEN ErrorHandled(new, w)
         ELSE IF new.message # None /\ ~committed.notified THEN MessageHandled(new, w)
         ELSE w

\* Mutant: a message is removed like an error.
Removes_Messages(old, new) ==
  \/ new.inProgress /\ ~old.inProgress
  \/ new.logical = "logged off" /\ old.logical # "logged off"

\* "Remove any existing dialog pop-up"
Removes(old, new) ==
  \/ new.inProgress /\ ~old.inProgress /\ ~committed.notified
  \/ new.logical = "logged off" /\ old.logical # "logged off"

WillReceiveProps(old, new, w) ==
  LET received == Received(old, new, w)
  IN  IF Removes(old, new)
        THEN [received EXCEPT !.c.error = FALSE, !.c.notified = FALSE]
        ELSE received

\* Mutant: the end of a block is an update like any other, which shows nothing.
LoadingUpdated_BlockEnds(old, new, now, d) ==
  IF new.blocked # old.blocked THEN Hide("loading", d)
  ELSE IF Processing(new, now) /\ "loading" \notin new.shown /\ ~new.blocked THEN Show("loading", d)
  ELSE IF Stopped(new, now) /\ "loading" \in new.shown THEN Hide("loading", d) ELSE d

\* Of the loading dialog, by the progress that was rendered; an alert shuts it.
LoadingUpdated(old, new, now, d) ==
  IF new.blocked THEN IF old.blocked THEN d ELSE Hide("loading", d)
  ELSE IF Processing(new, now) /\ "loading" \notin new.shown THEN Show("loading", d)
  ELSE IF Stopped(new, now) /\ "loading" \in new.shown THEN Hide("loading", d) ELSE d

DrawerUpdated(old, new, w) ==
  IF (old.value = "drawer") = (new.value = "drawer") THEN w
  ELSE [w EXCEPT !.c.drawerWaiting = new.value = "drawer"]

ReversalUpdated(old, new, now, w) ==
  IF old.value = "cancelling" /\ new.value # "cancelling"
    THEN [Cancelled(now, w) EXCEPT !.c.reversalWaiting = FALSE]
    ELSE w

\* checkChangeFallbackHandling
FallbackUpdated(old, new, w) ==
  IF OperationEnds(old, new) /\ new.error = None /\ new.value = "fallback"
    THEN [w EXCEPT !.dialogs = Show("alert", @)]
    ELSE w

DidUpdate(old, new, now, w) ==
  FallbackUpdated(old, new, ReversalUpdated(old, new, now, DrawerUpdated(old, new,
    [w EXCEPT !.dialogs = LoadingUpdated(old, new, now, @)])))

-----------------------------------------------------------------------------

Calm    == ~due /\ wanted = committed
Settled == Calm /\ todo = <<>>

Current == [c |-> wanted, message |-> store.message, dialogs |-> dialogs]

\* The store after one put of performBusinessOperation.
Stored(put, s) ==
  CASE put.put = "request" -> [s EXCEPT !.count = @ + 1]
    [] put.put = "notified" -> [s EXCEPT !.message = None]
    [] put.put = "success" ->
         [s EXCEPT !.count = @ - 1, !.error = None, !.engine = <<@[1], put.value>>]
    [] put.put = "failure" -> [s EXCEPT !.count = @ - 1, !.error = put.error]
    [] put.put = "logical state" -> [s EXCEPT !.engine = <<put.logical, @[2]>>]

Requested(s) == Stored([put |-> "notified"], Stored([put |-> "request"], s))

DialogInit ==
  /\ Init
  /\ store = [count |-> 0, error |-> None, engine |-> <<"logged off", None>>,
              message |-> None, blocked |-> FALSE]
  /\ dialogs = [buffer |-> <<>>, shown |-> {}, broken |-> FALSE]
  /\ todo = <<>>
  /\ due = FALSE
  /\ seen = Props
  /\ committed = [payment |-> FALSE, error |-> FALSE, notified |-> FALSE, choosing |-> FALSE,
                  drawerWaiting |-> FALSE, reversalWaiting |-> FALSE]
  /\ wanted = committed
  /\ ended = 0
  /\ piled = FALSE

\* A saga puts what it has yet to put; the store is rendered after each.
Put ==
  /\ Calm
  /\ todo # <<>>
  /\ store' = Stored(Head(todo), store)
  /\ todo' = Tail(todo)
  /\ due' = TRUE
  /\ UNCHANGED <<dialogs, seen, committed, wanted, ended, vars>>

\* The container is updated.  The alert, once shown, blocks the others
\* (AlertModal's componentDidMount), and unblocks them when it is hidden.
Update ==
  /\ due \/ wanted # committed
  /\ LET received == IF due THEN WillReceiveProps(seen, Props, Current) ELSE Current
         updated  == DidUpdate(seen, Props, received.c, received)
     IN  /\ committed' = received.c
         /\ wanted' = updated.c
         /\ dialogs' = updated.dialogs
         /\ store' = [store EXCEPT !.message = updated.message,
                                   !.blocked = "alert" \in dialogs.shown]
  /\ seen' = Props
  /\ due' = (store' # store \/ dialogs'.shown # dialogs.shown)
  /\ UNCHANGED <<todo, ended, vars>>

\* An event handler: all it dispatches is rendered at once.
Handled(w, s) ==
  /\ Settled
  /\ wanted' = w.c
  /\ dialogs' = w.dialogs
  /\ store' = s
  /\ due' = (s # store \/ w.dialogs.shown # dialogs.shown)
  /\ UNCHANGED <<todo, seen, committed, ended, vars>>

MayRequest == store.count < MaxOperations

\* A screen requests an operation; a dialog would cover it.
Operate ==
  /\ MayRequest
  /\ dialogs.shown = {}
  /\ Handled(Current, Requested(store))

\* A saga does, at a notification of a device, a payment or a domain.
OperateInBackground ==
  /\ Settled
  /\ MayRequest
  /\ store' = Stored([put |-> "request"], store)
  /\ todo' = <<[put |-> "notified"]>>
  /\ due' = TRUE
  /\ UNCHANGED <<dialogs, seen, committed, wanted, ended, vars>>

\* The engine's answer, put at once; the logical state follows.
End(puts) ==
  /\ Settled
  /\ store.count > 0
  /\ ended < MaxEnds
  /\ ended' = ended + 1
  /\ store' = Stored(Head(puts), store)
  /\ todo' = Tail(puts)
  /\ due' = TRUE
  /\ UNCHANGED <<dialogs, seen, committed, wanted, vars>>

Succeed(engine) ==
  End(<<[put |-> "success", value |-> engine[2]], [put |-> "logical state", logical |-> engine[1]]>>)

Fail(error) == End(<<[put |-> "failure", error |-> error]>>)

\* The engine has a message for the operator.
Notify(message) ==
  /\ Settled
  /\ store' = [store EXCEPT !.message = message]
  /\ due' = TRUE
  /\ UNCHANGED <<dialogs, todo, seen, committed, wanted, ended, vars>>

RemoteCalls ==
  /\ Settled
  /\ \/ Initialized
     \/ \E info \in Announcements : Announce(info)
  /\ due' = TRUE
  /\ UNCHANGED <<store, dialogs, todo, seen, committed, wanted, ended>>

\* The button below an error or a message.
Close ==
  /\ "loading" \in dialogs.shown
  /\ committed.error
  /\ LET w == Closed(committed, Current)
     IN  Handled(w, [store EXCEPT !.message = w.message])

\* The manager approves, or the refund is accepted: the dialog is hidden and
\* the operation requested again.
Accept(m) ==
  /\ m \in dialogs.shown
  /\ MayRequest
  /\ Handled(Closed(committed, [Current EXCEPT !.dialogs = Hide(m, @)]), Requested(store))

\* A post void whose refund is declined is reported to have failed.
Dismiss(m) ==
  LET w == Cancelled(committed, Current)
  IN  /\ m \in dialogs.shown
      /\ \/ Handled(w, [store EXCEPT !.message = w.message])
         \/ m = "retry" /\ MayRequest /\ Handled(w, Requested(store))

\* A screen asks whether to suspend the transaction.
AskSuspend ==
  /\ dialogs.shown = {}
  /\ Handled([Current EXCEPT !.dialogs = Show("suspend", @)], store)

\* handleSuspendTransaction, handleCancelSuspendTransaction
AnswerSuspend ==
  LET w == [Current EXCEPT !.dialogs = Hide("suspend", @)]
  IN  /\ "suspend" \in dialogs.shown
      /\ \/ Handled(w, store)
         \/ MayRequest /\ Handled(w, Requested(store))

\* handleManualReversal
ReverseManually ==
  /\ "reversal" \in dialogs.shown
  /\ MayRequest
  /\ LET cancelled == Cancelled(committed, Current)
     IN  Handled([cancelled EXCEPT !.dialogs = Show("loading", @), !.c.reversalWaiting = TRUE],
                 Requested(store))

\* onDeviceSelected, resetPaymentDeviceSelection
ChooseDevice ==
  /\ committed.choosing
  /\ dialogs.shown = {}
  /\ \/ Handled([Current EXCEPT !.c.choosing = FALSE], store)
     \/ MayRequest /\ Handled([Current EXCEPT !.c.choosing = FALSE], Requested(store))

\* A button of the alert, which may request an operation.
PressButton ==
  LET w        == [Current EXCEPT !.dialogs = Destroy("alert", Hide("alert", @))]
      unlocked == [store EXCEPT !.blocked = FALSE]
  IN  /\ "alert" \in dialogs.shown
      /\ \/ Handled(w, unlocked)
         \/ MayRequest /\ Handled(w, Requested(unlocked))

\* The engine has the alert dismissed; no button is pressed.
DismissAlert ==
  /\ Settled
  /\ "alert" \in dialogs.shown
  /\ dialogs' = Destroy("alert", Hide("alert", dialogs))
  /\ due' = TRUE
  /\ UNCHANGED <<store, todo, seen, committed, wanted, ended, vars>>

Stimulus ==
  \/ Operate \/ OperateInBackground
  \/ \E engine \in Engine : Succeed(engine)
  \/ \E error \in Errors \ {None} : Fail(error)
  \/ \E message \in Messages \ {None} : Notify(message)
  \/ RemoteCalls
  \/ Close \/ ReverseManually \/ ChooseDevice \/ PressButton \/ DismissAlert
  \/ AskSuspend \/ AnswerSuspend
  \/ \E m \in {"approval", "retry"} : Accept(m) \/ Dismiss(m)

\* A show asks only the front of the buffer to make room: behind it, and with
\* no locked dialog in front, another request is lost sight of.
Piled(d) == Len(d.buffer) > 1 /\ Cancellable(Head(d.buffer))

Recorded == piled' = (piled \/ Piled(dialogs'))

\* The exception of the middleware reaches nobody: nothing is rendered after it.
DialogNext == ~dialogs.broken /\ (Put \/ Update \/ Stimulus) /\ Recorded

\* React renders what is due, and the saga goes on, in the same stretch.
DialogSpec ==
  /\ DialogInit /\ [][DialogNext]_all
  /\ WF_all(~dialogs.broken /\ (Put \/ Update) /\ Recorded)

-----------------------------------------------------------------------------

\* Once the updates have come to rest, and unless an alert blocks it, the
\* loading dialog is shown exactly while something is processed or told:
\* whatever order answers, messages, calls and dialogs come in, and whichever
\* dialogs the middleware has displaced, no spinner is left behind and the
\* screens are never free while an operation is under way.  Only an alert that
\* was shown in front of three others or more puts an end to this.
LoadingShown ==
  Settled /\ ~store.blocked /\ ~piled => ("loading" \in dialogs.shown <=> Processing(Props, committed))

\* The button below what is told, or one of the dialogs that end with closing it.
Pressed == Close \/ ReverseManually \/ \E m \in {"approval", "retry"} : Accept(m) \/ Dismiss(m)

\* The container itself closes what it tells, as a press of the dialogs does.
CancellingOver == seen.value = "cancelling" /\ seen'.value # "cancelling"

LoggedOff == seen.logical # "logged off" /\ seen'.logical = "logged off"

\* A message the container tells goes only when a button is pressed or the
\* operator is logged off: no operation that begins or ends, no error, call,
\* payment or dialog takes it away unread, whatever the updates are made of.
\* There is one exception: an answer after which the authorization of a tender
\* is no longer being cancelled has the container close a message, too.
MessageStays ==
  [][ committed.error /\ committed.notified /\ wanted.error /\ ~wanted'.error
      => Pressed \/ LoggedOff \/ CancellingOver ]_all

\* Of a manual reversal nobody has accepted while something is processed: each
\* update shows its dialog in the place of the loading dialog, and the loading
\* dialog in its place.
Contended == seen.value = "reversal" /\ ~committed.reversalWaiting /\ Processing(seen, committed)

\* The updates the container causes by what it dispatches and sets while it is
\* updated come to rest, unless two dialogs contend for the one place.
Rests == []<>(Calm \/ dialogs.broken \/ Contended)
=============================================================================
