----------------------------- MODULE DialogSlot -----------------------------
(***************************************************************************)
(* What the modal middleware promises its callers: one place on the screen *)
(* for a dialog.  A request is served before the next one is made; a show  *)
(* puts its dialog in the place, whatever was there, and a hide empties    *)
(* the place when its dialog is the one displayed.                         *)
(***************************************************************************)
CONSTANTS Modals, NoModal

VARIABLES front,   \* the dialog displayed, or NoModal
          request  \* the request being served, or Idle

slot == <<front, request>>

Requests == [type : {"SHOW", "HIDE"}, modal : Modals]

Idle == [type |-> "IDLE", modal |-> NoModal]

Init == front = NoModal /\ request = Idle

Ask(r) == /\ request = Idle
          /\ request' = r
          /\ UNCHANGED front

Serve == /\ request # Idle
         /\ front' = CASE request.type = "SHOW" -> request.modal
                       [] request.type = "HIDE" ->
                            IF front = request.modal THEN NoModal ELSE front
         /\ request' = Idle

Next == Serve \/ \E r \in Requests : Ask(r)

Spec == Init /\ [][Next]_slot /\ WF_slot(Serve)
=============================================================================
