-------------------------- MODULE ModalMiddleware --------------------------
(***************************************************************************)
(* The redux middleware that serialises the application's modal dialogs    *)
(* (src/middleware/modalMiddleware.ts), the two reducers its actions reach  *)
(* (src/reducers/modal.ts and the one of redux-modal, which agree on what   *)
(* is displayed) and the alert saga (src/sagas/alertModal.ts).              *)
(*                                                                         *)
(* The middleware dispatches again from inside a dispatch, so the model    *)
(* keeps the JavaScript call stack: a frame is a redux action on its way   *)
(* into the middleware ("dispatch") or past it ("next").  One step runs    *)
(* the frame on top.  JavaScript is single threaded, so a component or a   *)
(* saga dispatches only when the stack is empty.                           *)
(***************************************************************************)
EXTENDS Integers, Sequences

CONSTANTS Modals,     \* the names of the modal components
          Locking,    \* the modals that may be requested with cancellable: false
          Alert,      \* ALERT_MODAL
          NoModal,    \* stands for no modal at all
          MaxBuffer   \* bound on the requests in the middleware's buffer

ASSUME ModalsAssumption == Alert \in Modals /\ Locking \subseteq Modals /\ NoModal \notin Modals
ASSUME BoundAssumption == MaxBuffer \in Nat

VARIABLES buffer,     \* the module-level array of SHOW requests
          view,       \* state.modal: what the reducer holds for each modal
          stack,      \* the call stack of store.dispatch
          thrown,     \* a dispatch ended with a TypeError
          asked       \* history: the action the callers dispatched last

vars == <<buffer, view, stack, thrown, asked>>

\* A SHOW request: only the alert saga ever passes cancellable: false.
Requests == {r \in [modal : Modals, cancellable : BOOLEAN] :
                r.cancellable \/ r.modal \in Locking}

\* A modal is absent before it is first shown and once destroyed; "locked"
\* is a displayed modal whose props say cancellable: false.
Views == {"absent", "hidden", "shown", "locked"}

Displayed(m) == view[m] \in {"shown", "locked"}

Frames == [at : {"dispatch", "next"}, type : {"SHOW", "HIDE", "DESTROY"}, request : Requests]

Dispatch(type, r) == [at |-> "dispatch", type |-> type, request |-> r]

Pass(f) == [f EXCEPT !.at = "next"]

\* hide(modal) and destroy(modal) carry a modal and no props.
Bare(m) == [modal |-> m, cancellable |-> TRUE]

\* buffer.map(...).indexOf(m), counted from 1; 0 when there is none.
IndexOf(m) ==
  IF \E i \in DOMAIN buffer : buffer[i].modal = m
    THEN CHOOSE i \in DOMAIN buffer :
           buffer[i].modal = m /\ \A j \in 1 .. i - 1 : buffer[j].modal # m
    ELSE 0

\* s.splice(i - 1, 1): without element i.
Without(s, i) == SubSeq(s, 1, i - 1) \o SubSeq(s, i + 1, Len(s))

\* buffer.splice(index, 1): JavaScript counts index -1 from the end.
Spliced(i) == Without(buffer, IF i = 0 THEN Len(buffer) ELSE i)

Init == /\ buffer = <<>>
        /\ view = [m \in Modals |-> "absent"]
        /\ stack = <<>>
        /\ thrown = FALSE
        /\ asked = Dispatch("DESTROY", Bare(Alert))

-----------------------------------------------------------------------------
(* The callers: components and sagas.                                      *)

Call(frames) == /\ stack = <<>>
                /\ stack' = frames
                /\ asked' = frames[1]
                /\ UNCHANGED <<buffer, view, thrown>>

\* showModal(modal, props); the alert saga's handleShowAlertModalRequest.
ShowModal(r) == Len(buffer) < MaxBuffer /\ Call(<<Dispatch("SHOW", r)>>)

HideModal(m) == Call(<<Dispatch("HIDE", Bare(m))>>)

DestroyModal(m) == Call(<<Dispatch("DESTROY", Bare(m))>>)

\* handleDismissAlertModalRequest, and the buttons of the alert: hide, then destroy.
DismissAlert == Call(<<Dispatch("HIDE", Bare(Alert)), Dispatch("DESTROY", Bare(Alert))>>)

-----------------------------------------------------------------------------
(* The middleware.                                                         *)

Running(at, type) == stack # <<>> /\ stack[1].at = at /\ stack[1].type = type

\* Replace the frame on top by the frames it calls.
Return(frames) == stack' = frames \o Tail(stack)

Ignore == Return(<<>>) /\ UNCHANGED <<buffer, view, thrown, asked>>

\* Mutants: the buffer compared with 2; the cancellable flag ignored.
HandleShow_LateRoom ==
  /\ Running("dispatch", "SHOW")
  /\ LET r == stack[1].request
         b == Append(buffer, r)
     IN  IF Displayed(r.modal) THEN Ignore
         ELSE /\ buffer' = b
              /\ Return(IF Len(b) > 2 /\ b[1].cancellable
                          THEN <<Dispatch("HIDE", Bare(b[1].modal))>> ELSE <<Pass(stack[1])>>)
              /\ UNCHANGED <<view, thrown, asked>>

HandleShow_IgnoresLock ==
  /\ Running("dispatch", "SHOW")
  /\ LET r == stack[1].request
         b == Append(buffer, r)
     IN  IF Displayed(r.modal) THEN Ignore
         ELSE /\ buffer' = b
              /\ Return(IF Len(b) > 1
                          THEN <<Dispatch("HIDE", Bare(b[1].modal))>> ELSE <<Pass(stack[1])>>)
              /\ UNCHANGED <<view, thrown, asked>>

\* A modal already displayed is not shown again; otherwise the request is
\* buffered, and either it is let through or the oldest request makes room.
HandleShow ==
  /\ Running("dispatch", "SHOW")
  /\ LET r == stack[1].request
     IN  IF Displayed(r.modal) THEN Ignore
         ELSE LET b == Append(buffer, r)
              IN  /\ buffer' = b
                  /\ IF Len(b) > 1 /\ b[1].cancellable
                       THEN Return(<<Dispatch("HIDE", Bare(b[1].modal))>>)
                       ELSE Return(<<Pass(stack[1])>>)
                  /\ UNCHANGED <<view, thrown, asked>>

\* Slips: the request that waited is forgotten; a dialog the buffer does not know is left alone.
HandleHide_ForgetsNext ==
  /\ Running("dispatch", "HIDE")
  /\ LET i == IndexOf(stack[1].request.modal)
         rest == Spliced(i)
     IN  IF ~Displayed(stack[1].request.modal) THEN Ignore
         ELSE /\ buffer' = IF i > 0 /\ Len(rest) >= i THEN Without(rest, i) ELSE rest
              /\ Return(<<Pass(stack[1])>>)
              /\ UNCHANGED <<view, thrown, asked>>

HandleHide_TrackedOnly ==
  /\ Running("dispatch", "HIDE")
  /\ LET i == IndexOf(stack[1].request.modal)
         rest == Spliced(i)
     IN  IF ~Displayed(stack[1].request.modal) \/ i = 0 THEN Ignore
         ELSE /\ buffer' = IF Len(rest) >= i THEN Without(rest, i) ELSE rest
              /\ Return(IF Len(rest) < i \/ Displayed(rest[i].modal)
                          THEN <<Pass(stack[1])>>
                          ELSE <<Dispatch("SHOW", rest[i]), Pass(stack[1])>>)
              /\ UNCHANGED <<view, thrown, asked>>

\* What follows the request at its index, now that it is spliced out, is
\* taken out too and dispatched again unless it is displayed.
HandleHide ==
  /\ Running("dispatch", "HIDE")
  /\ LET m == stack[1].request.modal
         i == IndexOf(m)
         rest == Spliced(i)
         follows == rest # <<>> /\ Len(rest) >= i
     IN  \/ /\ ~Displayed(m)
            /\ Ignore
         \/ /\ Displayed(m) /\ ~follows
            /\ buffer' = rest
            /\ Return(<<Pass(stack[1])>>)
            /\ UNCHANGED <<view, thrown, asked>>
         \/ /\ Displayed(m) /\ follows /\ i > 0
            /\ buffer' = Without(rest, i)
            /\ Return(IF Displayed(rest[i].modal)
                        THEN <<Pass(stack[1])>>
                        ELSE <<Dispatch("SHOW", rest[i]), Pass(stack[1])>>)
            /\ UNCHANGED <<view, thrown, asked>>
         \/ /\ Displayed(m) /\ follows /\ i = 0   \* buffer[-1].payload throws
            /\ buffer' = rest
            /\ stack' = <<>>
            /\ thrown' = TRUE
            /\ UNCHANGED <<view, asked>>

\* Slip: a dialog still in the buffer is destroyed.
HandleDestroy_Unguarded ==
  /\ Running("dispatch", "DESTROY")
  /\ IF view[stack[1].request.modal] = "absent" THEN Ignore
     ELSE Return(<<Pass(stack[1])>>) /\ UNCHANGED <<buffer, view, thrown, asked>>

\* An absent dialog, or one whose request is in the buffer, is not destroyed.
HandleDestroy ==
  /\ Running("dispatch", "DESTROY")
  /\ LET m == stack[1].request.modal
     IN  IF view[m] = "absent" \/ IndexOf(m) > 0 THEN Ignore
         ELSE Return(<<Pass(stack[1])>>) /\ UNCHANGED <<buffer, view, thrown, asked>>

\* next(action): the reducers.
Reduce ==
  /\ stack # <<>> /\ stack[1].at = "next"
  /\ LET f == stack[1]
     IN  view' = [view EXCEPT ![f.request.modal] =
                    CASE f.type = "SHOW" /\ f.request.cancellable -> "shown"
                      [] f.type = "SHOW" /\ ~f.request.cancellable -> "locked"
                      [] f.type = "HIDE" -> "hidden"
                      [] f.type = "DESTROY" -> "absent"]
  /\ stack' = Tail(stack)
  /\ UNCHANGED <<buffer, thrown, asked>>

Environment == \/ \E r \in Requests : ShowModal(r)
               \/ \E m \in Modals : HideModal(m) \/ DestroyModal(m)
               \/ DismissAlert

Middleware == HandleShow \/ HandleHide \/ HandleDestroy \/ Reduce

Next == Environment \/ Middleware

\* A call that has been made runs to its end.
Spec == Init /\ [][Next]_vars /\ WF_vars(Middleware)

-----------------------------------------------------------------------------
(* Properties.                                                             *)

TypeOK == /\ buffer \in Seq(Requests)
          /\ view \in [Modals -> Views]
          /\ stack \in Seq(Frames)
          /\ thrown \in BOOLEAN
          /\ asked \in Frames

\* Every call made into the middleware has returned.
Quiet == stack = <<>>

\* Between two calls the buffer holds the request of the dialog displayed and
\* nothing else: no dialog is displayed behind the middleware's back, no
\* request waits for a dialog that is gone, and two dialogs never overlap.
SingleDialog ==
  Quiet => /\ Len(buffer) <= 1
           /\ {m \in Modals : Displayed(m)} = {buffer[i].modal : i \in DOMAIN buffer}

\* The nested dispatches never index the buffer out of its bounds.
NoTypeError == ~thrown

\* modalMiddleware.ts:24: a show that has returned displays its dialog, even
\* when another dialog had to make room for it.
ShowServed == Quiet /\ asked.type = "SHOW" => Displayed(asked.request.modal)

\* A hide that has returned without an exception leaves its dialog hidden: the
\* request that follows it in the buffer never brings the same dialog back.
HideServed == Quiet /\ asked.type = "HIDE" /\ ~thrown => ~Displayed(asked.request.modal)

\* A dialog that is not cancellable disappears only when a caller hides or
\* destroys that very dialog: no show makes it yield its place.
LockKept == [][\A m \in Modals : view[m] = "locked" /\ view'[m] # "locked" =>
                 asked.type # "SHOW" /\ asked.request.modal = m]_vars

-----------------------------------------------------------------------------
(* The promise, as long as every request is cancellable.  A dialog keeps   *)
(* the place until it is hidden; its destruction, which follows, changes   *)
(* nothing.                                                                *)

Front ==
  LET shown == {m \in Modals : Displayed(m)}
      old == {m \in shown : buffer = <<>> \/ m # buffer[Len(buffer)].modal}
  IN  IF old # {} THEN CHOOSE m \in old : TRUE
      ELSE IF shown # {} THEN CHOOSE m \in shown : TRUE ELSE NoModal

Served == \A i \in DOMAIN stack : stack[i].type = "DESTROY"

Slot == INSTANCE DialogSlot
          WITH front <- Front,
               request <- IF Served THEN [type |-> "IDLE", modal |-> NoModal]
                          ELSE [type |-> asked.type, modal |-> asked.request.modal]

\* The middleware implements the single place for a dialog, and serves every
\* request that it is handed.
ServesSlot == Slot!Spec
=============================================================================
