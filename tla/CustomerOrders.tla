--------------------------- MODULE CustomerOrders ---------------------------
(***************************************************************************)
(* The customer orders: the screen that searches an order, the one that    *)
(* shows it and picks up or cancels its items (components/customerOrder),  *)
(* and the slice of the store they share (sagas/orders.ts,                 *)
(* reducers/orders.ts).                                                    *)
(*                                                                         *)
(* A step is one stimulus with everything it sets off.  The engine's       *)
(* answers and the main screen are external.                               *)
(***************************************************************************)
EXTENDS Integers, Sequences, SequencesExt

CONSTANTS References,  \* the order references that are entered or scanned
          Lines,       \* of each order, its lines by number
          Manageable,  \* the orders whose type and payment allow an action
          Undefined,
          Empty,       \* an answer without orders
          NotANumber,
          Keyed,       \* what is typed in a quantity field, beside NotANumber
          MaxPending   \* bound on the operations in flight

Line == [quantity : Nat \ {0},
         ready : {"yes", "no", "unknown"},  \* availableActions.isReadyForPickup
         cancel : BOOLEAN]                  \* availableActions.canCancel

ASSUME LinesAssumption ==
  /\ \A o \in References : \A l \in DOMAIN Lines[o] : Lines[o][l] \in Line
  /\ Manageable \subseteq References
ASSUME NamesAssumption ==
  Undefined \notin References /\ Empty \notin References /\ Undefined # Empty
ASSUME KeyedAssumption == Keyed \subseteq Nat /\ NotANumber \notin Int

VARIABLES partial,       \* configuration: allowPickupQuantityModification
          screen,
          fromHistory,   \* the screens were opened for an order of the history
          requested,     \* navigation parameter: the order of the history
          mode,          \* uiState.mode, as far as the orders are concerned
          inTransaction, \* a transaction is open
          inProgress, order, hasSelection, selection, \* state.orders
          pending,       \* the operations without an answer
          overlapped,    \* history: the last was sent while another had no answer
          unanswered,    \* history: the last ended and the slice was not told
          halted         \* an exception left a saga or a render

slice == <<inProgress, order, hasSelection, selection>>
sent == <<pending, overlapped, unanswered>>
place == <<screen, fromHistory, requested>>
vars == <<partial, place, mode, inTransaction, slice, sent, halted>>

Screens == {"elsewhere", "inquiry", "details"}
ActionModes == {"pickup", "cancel"}
Modes == ActionModes \cup {"reference", "none"}

\* inActionMode
InActionMode == mode \in ActionModes

Shown == order \in References

\* What can be done with a line in a mode: the entry's "selectable".
Selectable(line, action) == IF action = "pickup" THEN line.ready = "yes" ELSE line.cancel

\* getDefaultOrderItemsSelected: for a pickup all that is ready is selected
\* at first, for a cancellation nothing.
DefaultSelection(o, action) ==
  [l \in DOMAIN Lines[o] |->
     [selectable |-> Selectable(Lines[o][l], action),
      selected |-> action = "pickup" /\ Selectable(Lines[o][l], action),
      quantity |-> Lines[o][l].quantity]]

\* By quantity or by checkbox: checkedLineItems, shouldEnableDoneButton.
ByQuantity == mode = "pickup" /\ partial

\* Mutant: a quantity is enough, whether or not the line can be picked up.
Checked_Unready ==
  {l \in DOMAIN selection :
     IF ByQuantity THEN selection[l].quantity # NotANumber /\ selection[l].quantity > 0
                   ELSE selection[l].selected}

\* checkedLineItems, of the lines that are submitted.
Checked ==
  {l \in DOMAIN selection :
     IF ByQuantity
     THEN /\ selection[l].selectable
          /\ selection[l].quantity # NotANumber /\ selection[l].quantity > 0
     ELSE selection[l].selected}

\* shouldEnableDoneButton: a field without a number makes the sum none.
DoneEnabled ==
  /\ Shown /\ hasSelection /\ Checked # {}
  /\ ByQuantity => \A l \in DOMAIN selection :
                     selection[l].selectable => selection[l].quantity # NotANumber

\* NumericInput between 0 and the quantity of the line; parseInt.
Clamped(typed, most) ==
  IF typed = NotANumber THEN NotANumber ELSE IF typed > most THEN most ELSE typed

Init ==
  /\ partial \in BOOLEAN
  /\ screen = "elsewhere" /\ fromHistory = FALSE /\ requested = Undefined
  /\ mode = "none" /\ inTransaction = FALSE
  /\ inProgress = FALSE /\ order = Undefined /\ hasSelection = TRUE /\ selection = <<>>
  /\ pending = <<>> /\ overlapped = FALSE /\ unanswered = FALSE
  /\ halted = FALSE

-----------------------------------------------------------------------------
(* The slice of the store.                                                 *)

\* INITIAL_STATE, with inProgress as given.
Reset(busy) ==
  /\ inProgress' = busy
  /\ order' = Undefined
  /\ hasSelection' = TRUE /\ selection' = <<>>

\* Mutant: an answer without an order does not end the progress.
Replace_Busy(orders) ==
  /\ inProgress' = (inProgress /\ orders = Undefined)
  /\ order' = orders
  /\ hasSelection' = FALSE /\ selection' = <<>>

\* An answer replaces the whole slice: the selections are undefined.
Replace(orders) ==
  /\ inProgress' = FALSE
  /\ order' = orders
  /\ hasSelection' = FALSE /\ selection' = <<>>

\* The request of an operation, with the slice it leaves behind.
Send(operation) ==
  /\ Len(pending) < MaxPending
  /\ pending' = Append(pending, operation)
  /\ overlapped' = (pending # <<>>)
  /\ unanswered' = FALSE
  /\ Reset(TRUE)

SearchFor(o) == Send([kind |-> "search", order |-> o, items |-> <<>>])

-----------------------------------------------------------------------------
(* OrderInquiryScreen                                                      *)

Enter ==
  /\ screen = "elsewhere"
  /\ screen' = "inquiry" /\ fromHistory' = FALSE /\ requested' = Undefined
  /\ mode' = "reference"
  /\ UNCHANGED <<partial, inTransaction, slice, sent, halted>>

\* From the history of transactions the screen searches when it is mounted.
EnterFromHistory(o) ==
  /\ screen = "elsewhere"
  /\ screen' = "inquiry" /\ fromHistory' = TRUE /\ requested' = o
  /\ SearchFor(o)
  /\ UNCHANGED <<partial, mode, inTransaction, halted>>

Search(o) ==
  /\ screen = "inquiry" /\ ~fromHistory
  /\ SearchFor(o)
  /\ UNCHANGED <<partial, place, mode, inTransaction, halted>>

\* Mutant: a scan searches during an action too.
Scan_AnyMode(o) ==
  /\ screen # "elsewhere" /\ mode # "none"
  /\ SearchFor(o)
  /\ UNCHANGED <<partial, place, mode, inTransaction, halted>>

\* A code is scanned, or entered by the keyboard wedge, in the mode of the
\* inquiry: it stays while the details are shown.
Scan(o) ==
  /\ screen # "elsewhere" /\ mode = "reference"
  /\ SearchFor(o)
  /\ UNCHANGED <<partial, place, mode, inTransaction, halted>>

\* The screens are left: the inquiry's unmounting clears the orders (that of
\* the history was replaced by the details), and both reset their mode.
Leave ==
  /\ screen' = "elsewhere"
  /\ mode' = "none"
  /\ IF screen = "inquiry" \/ ~fromHistory
     THEN Reset(FALSE) /\ unanswered' = FALSE
     ELSE UNCHANGED <<slice, unanswered>>
  /\ UNCHANGED <<partial, fromHistory, requested, inTransaction, pending, overlapped, halted>>

BackFromInquiry == screen = "inquiry" /\ Leave

-----------------------------------------------------------------------------
(* OrderInquiryDetailScreen                                                *)

\* Mutant: the selection is gathered only if there is none.
StartAction_Keep(action) ==
  /\ screen = "details" /\ ~InActionMode
  /\ order \in Manageable /\ ~inTransaction
  /\ \E l \in DOMAIN Lines[order] : Selectable(Lines[order][l], action)
  /\ mode' = action
  /\ inProgress' = FALSE
  /\ hasSelection' = TRUE
  /\ selection' = IF hasSelection THEN selection ELSE DefaultSelection(order, action)
  /\ UNCHANGED <<partial, place, inTransaction, order, sent, halted>>

\* handleMenuPickup, handleMenuCancel: the items displayed gather the
\* selection when the mode becomes one of an action.
StartAction(action) ==
  /\ screen = "details" /\ ~InActionMode
  /\ order \in Manageable /\ ~inTransaction
  /\ \E l \in DOMAIN Lines[order] : Selectable(Lines[order][l], action)
  /\ mode' = action
  /\ inProgress' = FALSE
  /\ hasSelection' = TRUE /\ selection' = DefaultSelection(order, action)
  /\ UNCHANGED <<partial, place, inTransaction, order, sent, halted>>

\* handleOrderItemSelection
PressLine(l) ==
  /\ screen = "details" /\ Shown /\ InActionMode
  /\ l \in DOMAIN Lines[order] \cap DOMAIN selection /\ selection[l].selectable
  /\ selection' = [selection EXCEPT ![l].selected = ~ @]
  /\ UNCHANGED <<partial, place, mode, inTransaction, inProgress, order, hasSelection, sent, halted>>

\* handleOrderItemQuantity: without a selection the exception leaves the saga.
\* The field is disabled only if the line is known not to be ready.
KeyQuantity(l, typed) ==
  /\ screen = "details" /\ Shown /\ ByQuantity
  /\ l \in DOMAIN Lines[order] /\ Lines[order][l].ready # "no"
  /\ IF hasSelection /\ l \in DOMAIN selection
     THEN /\ selection' =
               [selection EXCEPT ![l].quantity = Clamped(typed, Lines[order][l].quantity)]
          /\ UNCHANGED halted
     ELSE halted' = TRUE /\ UNCHANGED selection
  /\ UNCHANGED <<partial, place, mode, inTransaction, inProgress, order, hasSelection, sent>>

\* handleDoneButton
Done ==
  /\ screen = "details" /\ InActionMode /\ DoneEnabled
  /\ Send([kind |-> mode, order |-> order, items |-> [l \in Checked |-> selection[l].quantity]])
  /\ UNCHANGED <<partial, place, mode, inTransaction, halted>>

\* Back ends the action first, and the next one leaves the details.
BackFromAction ==
  /\ screen = "details" /\ InActionMode
  /\ mode' = "none"
  /\ UNCHANGED <<partial, place, inTransaction, slice, sent, halted>>

BackFromDetails ==
  /\ screen = "details" /\ ~InActionMode
  /\ IF fromHistory
     THEN Leave
     ELSE /\ screen' = "inquiry" /\ mode' = "reference"
          /\ Reset(FALSE) /\ unanswered' = FALSE
          /\ UNCHANGED <<partial, fromHistory, requested, inTransaction, pending, overlapped,
                         halted>>

-----------------------------------------------------------------------------
(* The answers, in any order.                                              *)

HasOrder == ~inProgress /\ Shown

Ended(k) == pending' = RemoveAt(pending, k)

\* The orders are found: the inquiry moves on to the details.  Those of the
\* history take the place of the inquiry and search once more.
OrderFound(k) ==
  /\ pending[k].kind = "search"
  /\ IF screen = "inquiry" /\ ~HasOrder
     THEN /\ screen' = "details"
          /\ IF fromHistory
             THEN /\ Reset(TRUE)
                  /\ pending' = Append(RemoveAt(pending, k),
                                       [kind |-> "search", order |-> requested, items |-> <<>>])
                  /\ overlapped' = (Len(pending) > 1)
             ELSE Replace(pending[k].order) /\ Ended(k) /\ UNCHANGED overlapped
     ELSE /\ Replace(pending[k].order) /\ Ended(k)
          /\ UNCHANGED <<screen, overlapped>>
  /\ unanswered' = FALSE
  /\ UNCHANGED <<partial, fromHistory, requested, mode, inTransaction, halted>>

\* An answer without orders: the details are drawn of the first of none.
NothingFound(k) ==
  /\ pending[k].kind = "search"
  /\ Replace(Empty) /\ Ended(k)
  /\ halted' = (screen = "details")
  /\ unanswered' = FALSE
  /\ UNCHANGED <<partial, place, mode, inTransaction, overlapped>>

SearchFails(k) ==
  /\ pending[k].kind = "search"
  /\ Replace(Undefined) /\ Ended(k)
  /\ unanswered' = FALSE
  /\ UNCHANGED <<partial, place, mode, inTransaction, overlapped, halted>>

\* The answer has no data of orders, or the action is refused: nothing is put.
NotTold(k) ==
  /\ Ended(k)
  /\ unanswered' = TRUE
  /\ UNCHANGED <<partial, place, mode, inTransaction, slice, overlapped, halted>>

\* The items are in a transaction: its opening resets the mode.
ActionDone(k) ==
  /\ pending[k].kind \in ActionModes
  /\ Replace(Undefined) /\ Ended(k)
  /\ inTransaction' = TRUE
  /\ mode' = IF inTransaction THEN mode ELSE "none"
  /\ unanswered' = FALSE
  /\ UNCHANGED <<partial, place, overlapped, halted>>

\* External: the main screen moves on with the transaction.
MainMovesOn ==
  /\ screen # "elsewhere" /\ inTransaction
  /\ Leave

\* External: the transaction ends.
TransactionEnds ==
  /\ screen = "elsewhere" /\ inTransaction
  /\ inTransaction' = FALSE
  /\ UNCHANGED <<partial, place, mode, slice, sent, halted>>

Next ==
  /\ ~halted
  /\ \/ Enter \/ BackFromInquiry
     \/ \E o \in References : EnterFromHistory(o) \/ Search(o) \/ Scan(o)
     \/ \E action \in ActionModes : StartAction(action)
     \/ Shown /\ \E l \in DOMAIN Lines[order] :
          PressLine(l) \/ \E typed \in Keyed \cup {NotANumber} : KeyQuantity(l, typed)
     \/ Done \/ BackFromAction \/ BackFromDetails
     \/ \E k \in DOMAIN pending :
          OrderFound(k) \/ NothingFound(k) \/ SearchFails(k) \/ NotTold(k) \/ ActionDone(k)
     \/ MainMovesOn \/ TransactionEnds

Spec == Init /\ [][Next]_vars

-----------------------------------------------------------------------------
(* Properties.                                                             *)

Quantities == Nat \cup {NotANumber}

OrderItemSelection == [selectable : BOOLEAN, selected : BOOLEAN, quantity : Quantities]

IsOperation(operation) ==
  /\ operation.kind \in {"search"} \cup ActionModes
  /\ operation.order \in References
  /\ \A l \in DOMAIN operation.items : operation.items[l] \in Quantities

\* The state is of its types: a selection is of line numbers, and what an
\* operation carries is of an order that was asked for.
TypeOK ==
  /\ partial \in BOOLEAN /\ fromHistory \in BOOLEAN /\ inTransaction \in BOOLEAN
  /\ screen \in Screens /\ mode \in Modes
  /\ requested \in References \cup {Undefined}
  /\ screen = "inquiry" /\ fromHistory => requested # Undefined
  /\ inProgress \in BOOLEAN /\ hasSelection \in BOOLEAN
  /\ order \in References \cup {Undefined, Empty}
  /\ \A l \in DOMAIN selection : selection[l] \in OrderItemSelection
  /\ pending \in Seq(Range(pending)) /\ \A k \in DOMAIN pending : IsOperation(pending[k])
  /\ overlapped \in BOOLEAN /\ unanswered \in BOOLEAN /\ halted \in BOOLEAN

\* The selection belongs to what is shown: it has an entry for every line of
\* the order, so that no line is drawn without one, and in an action nothing
\* is selected that the action does not allow, in quantities of the line.
SelectionFits ==
  Shown /\ hasSelection =>
    /\ DOMAIN selection = DOMAIN Lines[order]
    /\ InActionMode =>
         \A l \in DOMAIN selection :
           /\ selection[l].selectable = Selectable(Lines[order][l], mode)
           /\ selection[l].selected => selection[l].selectable
           /\ \/ selection[l].quantity = Lines[order][l].quantity
              \/ ByQuantity /\ \/ selection[l].quantity = NotANumber
                               \/ selection[l].quantity \in 0..Lines[order][l].quantity

\* The items of an operation are some of its order's, of those the action
\* allows, whole ones unless a pickup is by quantity.
Fits(operation) ==
  LET lines == Lines[operation.order]
      items == operation.items
  IN /\ DOMAIN items # {} /\ DOMAIN items \subseteq DOMAIN lines
     /\ \A l \in DOMAIN items :
          /\ Selectable(lines[l], operation.kind)
          /\ \/ items[l] = lines[l].quantity
             \/ operation.kind = "pickup" /\ partial /\ items[l] \in 1..lines[l].quantity

\* What is submitted fits the order it is submitted with, whatever was
\* selected for another action or another order before.
SubmittedFits ==
  \A k \in DOMAIN pending : pending[k].kind \in ActionModes => Fits(pending[k])

\* The slice is busy only while an operation is under way, and shows no order
\* meanwhile; or the last one ended without the slice being told, as a
\* refused pickup or cancellation does: the details stay empty.
BusyOnly ==
  inProgress => /\ ~Shown
                /\ pending # <<>> \/ unanswered

\* No exception leaves a saga or a render, except that the details are shown
\* an answer without orders, or that operations overlapped: the answer of an
\* earlier search takes away the selection of the order being picked up.
ThrowsOnly == halted => overlapped \/ (screen = "details" /\ order = Empty)
=============================================================================
