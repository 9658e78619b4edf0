------------------------ MODULE CustomerOrdersProofs ------------------------
(***************************************************************************)
(* Whatever the orders, their lines and the number of operations under     *)
(* way: the selection fits the order it is drawn with, what is submitted   *)
(* fits its order, and the screens throw only where it is said they do.    *)
(***************************************************************************)
EXTENDS CustomerOrders, TLAPS, SequenceTheorems

LineNumbers == UNION {DOMAIN Lines[o] : o \in References}

Items == UNION {[numbers -> Quantities] : numbers \in SUBSET LineNumbers}

Operations == [kind : {"search"} \cup ActionModes, order : References, items : Items \cup {<<>>}]

Sound == {operation \in Operations : operation.kind \in ActionModes => Fits(operation)}

Scalars ==
  /\ partial \in BOOLEAN /\ fromHistory \in BOOLEAN /\ inTransaction \in BOOLEAN
  /\ screen \in Screens /\ mode \in Modes
  /\ requested \in References \cup {Undefined}
  /\ inProgress \in BOOLEAN /\ hasSelection \in BOOLEAN
  /\ order \in References \cup {Undefined, Empty}
  /\ overlapped \in BOOLEAN /\ unanswered \in BOOLEAN /\ halted \in BOOLEAN

SelectionTyped == \A l \in DOMAIN selection : selection[l] \in OrderItemSelection

\* An action is under way on the details only, and the history's inquiry
\* knows the order.
Placed ==
  /\ InActionMode => screen = "details"
  /\ screen = "inquiry" /\ fromHistory => requested \in References

\* Without overlapping: one operation, no order shown until its answer, and
\* the order of an action keeps its selection.
Alone ==
  ~overlapped =>
    /\ Len(pending) <= 1
    /\ pending # <<>> => ~Shown
    /\ \A k \in DOMAIN pending : pending[k].kind = "search" => ~InActionMode
    /\ InActionMode /\ Shown => hasSelection

IInv ==
  /\ Scalars
  /\ SelectionTyped
  /\ pending \in Seq(Sound)
  /\ Placed
  /\ Alone
  /\ SelectionFits
  /\ BusyOnly
  /\ ThrowsOnly

-----------------------------------------------------------------------------
(* The operations that are pending.                                        *)

LEMMA Removed ==
  ASSUME NEW S, NEW s \in Seq(S), NEW k \in DOMAIN s
  PROVE  /\ RemoveAt(s, k) \in Seq(S)
         /\ Len(RemoveAt(s, k)) = Len(s) - 1
<1>1. k \in 1 .. Len(s) /\ Len(s) \in Nat
  BY LenProperties
<1>2. SubSeq(s, 1, k - 1) \in Seq(S) /\ Len(SubSeq(s, 1, k - 1)) = k - 1
  BY <1>1, SubSeqProperties
<1>3. SubSeq(s, k + 1, Len(s)) \in Seq(S) /\ Len(SubSeq(s, k + 1, Len(s))) = Len(s) - k
  BY <1>1, SubSeqProperties
<1>4. RemoveAt(s, k) \in Seq(S)
  BY <1>2, <1>3, ConcatProperties DEF RemoveAt
<1>5. Len(RemoveAt(s, k)) = (k - 1) + (Len(s) - k)
  BY <1>2, <1>3, ConcatProperties DEF RemoveAt
<1> QED
  BY <1>1, <1>4, <1>5

LEMMA SearchSound ==
  ASSUME NEW o \in References
  PROVE  [kind |-> "search", order |-> o, items |-> <<>>] \in Sound
BY Zenon DEF Sound, Operations, ActionModes

\* The sequence of operations stays sound, in every way it changes.
LEMMA PendingSound ==
  ASSUME IInv, UNCHANGED partial
  PROVE  /\ \A k \in DOMAIN pending : pending[k] \in Sound
         /\ UNCHANGED pending => pending' \in Seq(Sound')
         /\ \A k \in DOMAIN pending : Ended(k) => pending' \in Seq(Sound')
         /\ \A operation \in Sound : Send(operation) => pending' \in Seq(Sound')
<1>1. Sound' = Sound
  BY DEF Sound, Fits
<1>2. pending \in Seq(Sound)
  BY DEF IInv
<1>3. \A k \in DOMAIN pending : pending[k] \in Sound
  BY <1>2, ElementOfSeq, LenProperties
<1>4. \A k \in DOMAIN pending : RemoveAt(pending, k) \in Seq(Sound)
  BY <1>2, Removed
<1>5. \A operation \in Sound : Append(pending, operation) \in Seq(Sound)
  BY <1>2, AppendProperties
<1> QED
  BY <1>1, <1>2, <1>3, <1>4, <1>5 DEF Ended, Send

\* A request that is sent leaves the slice empty: nothing but the sequence
\* is left to look at.
LEMMA SendOK ==
  ASSUME IInv, UNCHANGED <<partial, inTransaction, halted, mode>>, ~halted,
         screen' \in Screens, fromHistory' \in BOOLEAN,
         requested' \in References \cup {Undefined}, Placed',
         NEW operation \in Sound, Send(operation),
         operation.kind = "search" => ~InActionMode
  PROVE  IInv'
<1>1. pending' \in Seq(Sound')
  BY PendingSound
<1>2. order' = Undefined /\ inProgress' = TRUE /\ hasSelection' = TRUE /\ selection' = <<>>
  BY DEF Send, Reset
<1>3. ~Shown'
  BY <1>2, NamesAssumption DEF Shown
<1>4. overlapped' = (pending # <<>>) /\ unanswered' = FALSE
  BY DEF Send
<1>5. pending \in Seq(Sound) /\ pending' = Append(pending, operation)
  BY DEF IInv, Send
<1>6. pending' # <<>> /\ Len(pending') = Len(pending) + 1
  BY <1>5, AppendProperties, EmptySeq
<1>7. Scalars'
  BY <1>2, <1>4 DEF IInv, Scalars
<1>8. SelectionTyped'
  BY <1>2 DEF SelectionTyped
<1>9. Alone'
  <2>1. CASE overlapped'
    BY <2>1 DEF Alone
  <2>2. CASE ~overlapped'
    <3>1. pending = <<>>
      BY <1>4, <2>2
    <3>2. Len(pending') = 1 /\ pending'[1] = operation
      BY <3>1, <1>5, AppendProperties, EmptySeq
    <3>3. \A k \in DOMAIN pending' : k = 1
      BY <3>2, <1>1, LenProperties
    <3>4. \A k \in DOMAIN pending' : pending'[k].kind = "search" => ~InActionMode'
      BY <3>2, <3>3 DEF InActionMode
    <3> QED
      BY <3>2, <3>4, <1>3 DEF Alone
  <2> QED
    BY <2>1, <2>2
<1>10. SelectionFits' /\ BusyOnly' /\ ThrowsOnly'
  BY <1>3, <1>6 DEF SelectionFits, BusyOnly, ThrowsOnly
<1> QED
  BY <1>1, <1>7, <1>8, <1>9, <1>10 DEF IInv

-----------------------------------------------------------------------------
(* The steps.                                                              *)

\* The slice as it was, or emptied: no request is sent, no action begun.
LEMMA SliceOK ==
  ASSUME IInv, Scalars', Placed', UNCHANGED <<partial, pending, overlapped, halted>>,
         InActionMode' => mode' = mode, ~halted,
         \/ UNCHANGED <<slice, unanswered>>
         \/ Reset(FALSE)
  PROVE  IInv'
<1>1. pending' \in Seq(Sound')
  BY PendingSound
<1>2. CASE Reset(FALSE)
  <2>1. ~Shown' /\ selection' = <<>> /\ inProgress' = FALSE
    BY <1>2, NamesAssumption DEF Reset, Shown
  <2>2. SelectionTyped' /\ SelectionFits' /\ BusyOnly' /\ ThrowsOnly'
    BY <2>1 DEF SelectionTyped, SelectionFits, BusyOnly, ThrowsOnly
  <2>3. Alone'
    BY <2>1 DEF IInv, Alone, InActionMode
  <2> QED
    BY <1>1, <2>2, <2>3 DEF IInv
<1>3. CASE UNCHANGED <<slice, unanswered>>
  <2>1. SelectionTyped' /\ BusyOnly' /\ ThrowsOnly'
    BY <1>3 DEF IInv, SelectionTyped, BusyOnly, ThrowsOnly, slice, Shown
  <2>2. Alone'
    BY <1>3 DEF IInv, Alone, slice, Shown, InActionMode
  <2>3. SelectionFits'
    BY <1>3 DEF IInv, SelectionFits, slice, Shown, InActionMode, ByQuantity
  <2> QED
    BY <1>1, <2>1, <2>2, <2>3 DEF IInv
<1> QED
  BY <1>2, <1>3

\* An answer that replaces the slice.
LEMMA ReplaceOK ==
  ASSUME IInv, Scalars', Placed', UNCHANGED <<partial, overlapped>>,
         NEW orders \in References \cup {Undefined, Empty}, Replace(orders),
         NEW k \in DOMAIN pending, Ended(k),
         pending[k].kind = "search" \/ ~InActionMode' \/ orders = Undefined,
         InActionMode' => mode' = mode,
         ThrowsOnly'
  PROVE  IInv'
<1>1. pending' \in Seq(Sound') /\ pending \in Seq(Sound)
  BY PendingSound DEF IInv
<1>2. order' = orders /\ inProgress' = FALSE /\ hasSelection' = FALSE /\ selection' = <<>>
  BY DEF Replace
<1>3. SelectionTyped' /\ SelectionFits' /\ BusyOnly'
  BY <1>2 DEF SelectionTyped, SelectionFits, BusyOnly
<1>4. Len(pending') = Len(pending) - 1
  BY <1>1, Removed DEF Ended
<1>5. Alone'
  <2>1. SUFFICES ASSUME ~overlapped
                 PROVE  Alone'
    BY DEF Alone
  <2>2. Len(pending) <= 1 /\ Len(pending) \in Nat /\ Len(pending') \in Nat
    BY <2>1, <1>1, LenProperties DEF IInv, Alone
  <2>3. Len(pending') = 0
    BY <2>2, <1>4
  <2>4. pending' = <<>>
    BY <2>3, <1>1, EmptySeq
  <2>5. ~(InActionMode' /\ Shown')
    BY <2>1, <1>2, NamesAssumption DEF IInv, Alone, InActionMode, Shown
  <2> QED
    BY <2>4, <2>5 DEF Alone
<1> QED
  BY <1>1, <1>3, <1>5 DEF IInv

LEMMA LeaveOK ==
  ASSUME IInv, ~halted, Leave
  PROVE  IInv'
<1>1. Placed'
  BY DEF Leave, Placed, InActionMode, ActionModes
<1>2. Scalars'
  BY NamesAssumption DEF IInv, Scalars, Leave, Reset, Screens, Modes, ActionModes, slice
<1>3. UNCHANGED <<partial, pending, overlapped, halted>> /\ ~InActionMode'
  BY DEF Leave, InActionMode, ActionModes
<1> QED
  BY <1>1, <1>2, <1>3, SliceOK DEF Leave

LEMMA DoneOK ==
  ASSUME IInv, ~halted, Done
  PROVE  IInv'
<1> DEFINE items == [l \in Checked |-> selection[l].quantity]
           operation == [kind |-> mode, order |-> order, items |-> items]
<1>1. order \in References /\ hasSelection /\ Checked # {} /\ InActionMode
  BY DEF Done, DoneEnabled, Shown
<1>2. DOMAIN selection = DOMAIN Lines[order] /\ Checked \subseteq DOMAIN selection
  BY <1>1 DEF IInv, SelectionFits, Shown, Checked
<1>3. ASSUME NEW l \in Checked
      PROVE  /\ Selectable(Lines[order][l], mode)
             /\ \/ items[l] = Lines[order][l].quantity
                \/ mode = "pickup" /\ partial /\ items[l] \in 1..Lines[order][l].quantity
  <2>1. /\ selection[l].selectable = Selectable(Lines[order][l], mode)
        /\ selection[l].selected => selection[l].selectable
    BY <1>1, <1>2, <1>3 DEF IInv, SelectionFits, Shown
  <2>2. \/ selection[l].quantity = Lines[order][l].quantity
        \/ ByQuantity /\ \/ selection[l].quantity = NotANumber
                         \/ selection[l].quantity \in 0..Lines[order][l].quantity
    BY <1>1, <1>2, <1>3 DEF IInv, SelectionFits, Shown
  <2>3. selection[l].selectable \/ selection[l].selected
    BY <1>3, Zenon DEF Checked
  <2>4. ByQuantity => selection[l].quantity # NotANumber /\ selection[l].quantity > 0
    BY <1>3 DEF Checked
  <2>5. Lines[order][l].quantity \in Nat
    BY <1>1, <1>2, <1>3, LinesAssumption DEF Line
  <2>6. Selectable(Lines[order][l], mode)
    BY <2>1, <2>3, Zenon
  <2> QED
    BY <2>2, <2>4, <2>5, <2>6 DEF ByQuantity
<1>4. items \in Items
  <2>1. Checked \in SUBSET LineNumbers
    BY <1>1, <1>2 DEF LineNumbers
  <2>2. \A l \in Checked : selection[l].quantity \in Quantities
    BY <1>2 DEF IInv, SelectionTyped, OrderItemSelection
  <2>3. items \in [Checked -> Quantities]
    BY <2>2
  <2> HIDE DEF items
  <2> QED
    BY <2>1, <2>3 DEF Items
<1>5. operation \in Operations
  BY <1>1, <1>4, Zenon DEF Operations, InActionMode
<1>6. Fits(operation)
  <2> HIDE DEF items
  <2>1. DOMAIN items = Checked
    BY DEF items
  <2> QED
    BY <1>1, <1>2, <1>3, <2>1 DEF Fits
<1>7. operation \in Sound
  BY <1>5, <1>6 DEF Sound
<1>8. operation.kind # "search"
  BY <1>1 DEF InActionMode, ActionModes
<1>9. /\ UNCHANGED <<partial, inTransaction, halted, mode, screen, fromHistory, requested>>
      /\ Send(operation)
  BY DEF Done, place
<1>10. /\ screen' \in Screens /\ fromHistory' \in BOOLEAN
       /\ requested' \in References \cup {Undefined} /\ Placed'
  BY <1>9 DEF IInv, Scalars, Placed, InActionMode
<1> HIDE DEF operation
<1> QED
  BY <1>7, <1>8, <1>9, <1>10, SendOK

LEMMA StartActionOK ==
  ASSUME IInv, ~halted, NEW action \in ActionModes, StartAction(action)
  PROVE  IInv'
<1>1. order \in References /\ Shown' /\ screen' = "details" /\ mode' = action
  BY LinesAssumption DEF StartAction, Shown, place
<1>2. selection' = DefaultSelection(order, action) /\ hasSelection' = TRUE /\ inProgress' = FALSE
  BY DEF StartAction
<1>3. UNCHANGED <<partial, place, inTransaction, order, sent, halted>>
  BY DEF StartAction
<1>4. pending' \in Seq(Sound')
  BY <1>3, PendingSound DEF sent
<1>5. ASSUME NEW l \in DOMAIN Lines[order]
      PROVE  /\ selection'[l].selectable = Selectable(Lines[order][l], action)
             /\ selection'[l].selected =
                  (action = "pickup" /\ Selectable(Lines[order][l], action))
             /\ selection'[l].quantity = Lines[order][l].quantity
  BY <1>2, <1>5, Zenon DEF DefaultSelection
<1>6. DOMAIN selection' = DOMAIN Lines[order]
  BY <1>2 DEF DefaultSelection
<1>7. SelectionTyped'
  <2>1. ASSUME NEW l \in DOMAIN Lines[order]
        PROVE  /\ Selectable(Lines[order][l], action) \in BOOLEAN
               /\ Lines[order][l].quantity \in Quantities
    BY <1>1, <2>1, LinesAssumption DEF Line, Selectable, Quantities
  <2>2. ASSUME NEW l \in DOMAIN Lines[order]
        PROVE  selection'[l] \in OrderItemSelection
    BY <1>2, <2>1, <2>2, Zenon DEF DefaultSelection, OrderItemSelection
  <2> QED
    BY <1>6, <2>2 DEF SelectionTyped
<1>8. SelectionFits'
  <2>1. ASSUME NEW l \in DOMAIN selection'
        PROVE  /\ selection'[l].selectable = Selectable(Lines[order'][l], mode')
               /\ selection'[l].selected => selection'[l].selectable
               /\ selection'[l].quantity = Lines[order'][l].quantity
    BY <1>1, <1>3, <1>5, <1>6, <2>1, Zenon
  <2> QED
    BY <1>3, <1>6, <2>1 DEF SelectionFits
<1>9. Scalars'
  BY <1>1, <1>2, <1>3 DEF IInv, Scalars, place, sent, Modes
<1>10. Placed'
  BY <1>1 DEF Placed
<1>11. Alone'
  <2>1. ~overlapped => pending = <<>>
    BY <1>1 DEF IInv, Alone, Shown
  <2>2. ~overlapped => DOMAIN pending = {}
    BY <2>1
  <2> QED
    BY <1>2, <1>3, <2>1, <2>2 DEF IInv, Alone, sent
<1>12. BusyOnly' /\ ThrowsOnly'
  BY <1>2, <1>3 DEF BusyOnly, ThrowsOnly
<1> QED
  BY <1>4, <1>7, <1>8, <1>9, <1>10, <1>11, <1>12 DEF IInv

LEMMA PressLineOK ==
  ASSUME IInv, ~halted, NEW l, PressLine(l)
  PROVE  IInv'
<1>1. UNCHANGED <<partial, place, mode, inTransaction, inProgress, order, hasSelection, sent, halted>>
  BY DEF PressLine
<1>2. l \in DOMAIN selection /\ selection[l].selectable /\ InActionMode
  BY DEF PressLine
<1>3. /\ DOMAIN selection' = DOMAIN selection
      /\ \A m \in DOMAIN selection : m # l => selection'[m] = selection[m]
      /\ selection'[l] = [selection[l] EXCEPT !.selected = ~ @]
  BY DEF PressLine
<1>4. pending' \in Seq(Sound')
  BY <1>1, PendingSound DEF sent
<1>5. Scalars' /\ Placed' /\ Alone' /\ BusyOnly' /\ ThrowsOnly'
  BY <1>1 DEF IInv, Scalars, Placed, Alone, BusyOnly, ThrowsOnly, InActionMode, Shown, place, sent
<1>6. selection[l] \in OrderItemSelection
  BY <1>2 DEF IInv, SelectionTyped
<1>7. /\ selection'[l] \in OrderItemSelection
      /\ selection'[l].selectable = selection[l].selectable
      /\ selection'[l].quantity = selection[l].quantity
  BY <1>3, <1>6 DEF OrderItemSelection
<1>8. SelectionTyped'
  BY <1>3, <1>7 DEF IInv, SelectionTyped
<1>9. SelectionFits'
  <2>1. SUFFICES ASSUME Shown, hasSelection, InActionMode,
                        DOMAIN selection = DOMAIN Lines[order], NEW m \in DOMAIN selection
                 PROVE  /\ selection'[m].selectable = Selectable(Lines[order][m], mode)
                        /\ selection'[m].selected => selection'[m].selectable
                        /\ \/ selection'[m].quantity = Lines[order][m].quantity
                           \/ ByQuantity /\ \/ selection'[m].quantity = NotANumber
                                            \/ selection'[m].quantity
                                                 \in 0..Lines[order][m].quantity
    BY <1>1, <1>2, <1>3 DEF IInv, SelectionFits, Shown, InActionMode, ByQuantity
  <2>2. /\ selection[m].selectable = Selectable(Lines[order][m], mode)
        /\ selection[m].selected => selection[m].selectable
        /\ \/ selection[m].quantity = Lines[order][m].quantity
           \/ ByQuantity /\ \/ selection[m].quantity = NotANumber
                            \/ selection[m].quantity \in 0..Lines[order][m].quantity
    BY <2>1 DEF IInv, SelectionFits
  <2>3. CASE m = l
    BY <1>2, <1>7, <2>2, <2>3, Zenon
  <2>4. CASE m # l
    BY <1>3, <2>2, <2>4, Zenon
  <2> QED
    BY <2>3, <2>4
<1> QED
  BY <1>4, <1>5, <1>8, <1>9 DEF IInv

LEMMA KeyQuantityOK ==
  ASSUME IInv, ~halted, NEW l, NEW typed \in Keyed \cup {NotANumber}, KeyQuantity(l, typed)
  PROVE  IInv'
<1>1. UNCHANGED <<partial, place, mode, inTransaction, inProgress, order, hasSelection, sent>>
  BY DEF KeyQuantity
<1>2. Shown /\ ByQuantity /\ InActionMode /\ l \in DOMAIN Lines[order]
  BY DEF KeyQuantity, ByQuantity, InActionMode, ActionModes
<1>3. pending' \in Seq(Sound')
  BY <1>1, PendingSound DEF sent
<1>4. halted' \in BOOLEAN
  BY DEF KeyQuantity, IInv, Scalars
<1>5. Scalars' /\ Placed' /\ Alone' /\ BusyOnly'
  BY <1>1, <1>4 DEF IInv, Scalars, Placed, Alone, BusyOnly, InActionMode, Shown, place, sent
<1>6. CASE hasSelection /\ l \in DOMAIN selection
  <2> DEFINE most == Lines[order][l].quantity
  <2>1. UNCHANGED halted /\ selection' = [selection EXCEPT ![l].quantity = Clamped(typed, most)]
    BY <1>6 DEF KeyQuantity
  <2>2. most \in Nat
    BY <1>2, LinesAssumption DEF Shown, Line
  <2>3. Clamped(typed, most) = NotANumber \/ Clamped(typed, most) \in 0..most
    <3>1. CASE typed = NotANumber
      BY <3>1 DEF Clamped
    <3>2. CASE typed # NotANumber
      <4>1. typed \in Nat /\ most \in Nat
        BY <2>2, <3>2, KeyedAssumption
      <4>2. Clamped(typed, most) = IF typed > most THEN most ELSE typed
        BY <3>2 DEF Clamped
      <4>3. Clamped(typed, most) \in 0..most
        BY <4>1, <4>2
      <4> QED
        BY <4>3
    <3> QED
      BY <3>1, <3>2
  <2> HIDE DEF most
  <2>4. Clamped(typed, most) \in Quantities
    BY <2>2, <2>3 DEF Quantities
  <2>5. selection[l] \in OrderItemSelection
    BY <1>6 DEF IInv, SelectionTyped
  <2>6. /\ DOMAIN selection' = DOMAIN selection
        /\ \A m \in DOMAIN selection : m # l => selection'[m] = selection[m]
        /\ selection'[l] = [selection[l] EXCEPT !.quantity = Clamped(typed, most)]
    BY <1>6, <2>1
  <2>7. /\ selection'[l] \in OrderItemSelection
        /\ selection'[l].selectable = selection[l].selectable
        /\ selection'[l].selected = selection[l].selected
        /\ selection'[l].quantity = Clamped(typed, most)
    BY <2>4, <2>5, <2>6 DEF OrderItemSelection
  <2>8. SelectionTyped'
    BY <2>6, <2>7 DEF IInv, SelectionTyped
  <2>9. ThrowsOnly'
    BY <1>1, <2>1 DEF IInv, ThrowsOnly, sent, place
  <2>10. SelectionFits'
    <3>1. SUFFICES ASSUME NEW m \in DOMAIN selection, DOMAIN selection = DOMAIN Lines[order]
                   PROVE  /\ selection'[m].selectable = Selectable(Lines[order][m], mode)
                          /\ selection'[m].selected => selection'[m].selectable
                          /\ \/ selection'[m].quantity = Lines[order][m].quantity
                             \/ ByQuantity /\ \/ selection'[m].quantity = NotANumber
                                              \/ selection'[m].quantity
                                                   \in 0..Lines[order][m].quantity
      BY <1>1, <1>2, <1>6, <2>6 DEF IInv, SelectionFits, Shown, InActionMode, ByQuantity
    <3>2. /\ selection[m].selectable = Selectable(Lines[order][m], mode)
          /\ selection[m].selected => selection[m].selectable
          /\ \/ selection[m].quantity = Lines[order][m].quantity
             \/ ByQuantity /\ \/ selection[m].quantity = NotANumber
                              \/ selection[m].quantity \in 0..Lines[order][m].quantity
      BY <1>2, <1>6, <3>1 DEF IInv, SelectionFits
    <3>3. CASE m = l
      BY <1>2, <2>3, <2>7, <3>2, <3>3, Zenon DEF most
    <3>4. CASE m # l
      BY <2>6, <3>2, <3>4, Zenon
    <3> QED
      BY <3>3, <3>4
  <2> QED
    BY <1>3, <1>5, <2>8, <2>9, <2>10 DEF IInv
<1>7. CASE ~(hasSelection /\ l \in DOMAIN selection)
  <2>1. UNCHANGED selection
    BY <1>7 DEF KeyQuantity
  <2>2. ~hasSelection
    BY <1>2, <1>7 DEF IInv, SelectionFits
  <2>3. overlapped
    BY <1>2, <2>2 DEF IInv, Alone
  <2>4. SelectionTyped' /\ SelectionFits'
    BY <1>1, <2>1, <2>2 DEF IInv, SelectionTyped, SelectionFits
  <2>5. ThrowsOnly'
    BY <1>1, <2>3 DEF ThrowsOnly, sent
  <2> QED
    BY <1>3, <1>5, <2>4, <2>5 DEF IInv
<1> QED
  BY <1>6, <1>7

\* An answer the slice is not told of.
LEMMA NotToldOK ==
  ASSUME IInv, ~halted, NEW k \in DOMAIN pending, NotTold(k)
  PROVE  IInv'
<1>1. /\ UNCHANGED <<partial, place, mode, inTransaction, slice, overlapped, halted>>
      /\ unanswered' = TRUE
      /\ Ended(k)
  BY DEF NotTold
<1>2. pending' \in Seq(Sound') /\ pending \in Seq(Sound)
  BY <1>1, PendingSound DEF IInv
<1>3. Scalars' /\ Placed' /\ BusyOnly' /\ ThrowsOnly'
  BY <1>1 DEF IInv, Scalars, Placed, BusyOnly, ThrowsOnly, InActionMode, Shown, place, slice
<1>4. SelectionTyped' /\ SelectionFits'
  BY <1>1 DEF IInv, SelectionTyped, SelectionFits, InActionMode, Shown, ByQuantity, slice
<1>5. Alone'
  <2>1. SUFFICES ASSUME ~overlapped
                 PROVE  Alone'
    BY <1>1 DEF Alone
  <2>2. Len(pending') = Len(pending) - 1 /\ Len(pending) <= 1
    BY <2>1, <1>1, <1>2, Removed DEF IInv, Alone, Ended
  <2>3. Len(pending) \in Nat /\ Len(pending') \in Nat
    BY <1>2, LenProperties
  <2>4. pending' = <<>>
    BY <2>2, <2>3, <1>2, EmptySeq
  <2>5. InActionMode /\ Shown => hasSelection
    BY <2>1 DEF IInv, Alone
  <2> QED
    BY <1>1, <2>4, <2>5 DEF Alone, InActionMode, Shown, slice
<1> QED
  BY <1>2, <1>3, <1>4, <1>5 DEF IInv

\* The steps that neither send nor answer anything.
LEMMA ScreenOK ==
  ASSUME IInv, ~halted, Enter \/ BackFromAction \/ BackFromDetails \/ TransactionEnds
  PROVE  IInv'
<1>1. CASE BackFromDetails /\ fromHistory
  BY <1>1, LeaveOK DEF BackFromDetails
<1>2. CASE Enter \/ BackFromAction \/ (BackFromDetails /\ ~fromHistory) \/ TransactionEnds
  <2>1. /\ UNCHANGED <<partial, pending, overlapped, halted>>
        /\ \/ UNCHANGED <<slice, unanswered>>
           \/ Reset(FALSE)
    BY <1>2 DEF Enter, BackFromAction, BackFromDetails, TransactionEnds, sent
  <2>2. InActionMode' => mode' = mode
    BY <1>2 DEF Enter, BackFromAction, BackFromDetails, TransactionEnds, InActionMode, ActionModes
  <2>3. Placed'
    BY <1>2 DEF IInv, Placed, Enter, BackFromAction, BackFromDetails, TransactionEnds,
                InActionMode, ActionModes, place
  <2>4. inProgress' \in BOOLEAN /\ hasSelection' \in BOOLEAN
        /\ order' \in References \cup {Undefined, Empty} /\ unanswered' \in BOOLEAN
    BY <1>2 DEF IInv, Scalars, Enter, BackFromAction, BackFromDetails, TransactionEnds, Reset,
                slice, sent
  <2>5. /\ screen' \in Screens /\ mode' \in Modes /\ fromHistory' \in BOOLEAN
        /\ requested' \in References \cup {Undefined} /\ inTransaction' \in BOOLEAN
    BY <1>2 DEF IInv, Scalars, Enter, BackFromAction, BackFromDetails, TransactionEnds,
                Screens, Modes, place
  <2>6. Scalars'
    BY <2>1, <2>4, <2>5 DEF IInv, Scalars
  <2> QED
    BY <2>1, <2>2, <2>3, <2>6, SliceOK
<1> QED
  BY <1>1, <1>2

\* The answers.
LEMMA AnswerOK ==
  ASSUME IInv, ~halted, NEW k \in DOMAIN pending,
         NothingFound(k) \/ SearchFails(k) \/ ActionDone(k)
  PROVE  IInv'
<1> DEFINE orders == IF NothingFound(k) THEN Empty ELSE Undefined
<1>1. UNCHANGED <<partial, overlapped, place>> /\ Ended(k)
  BY DEF NothingFound, SearchFails, ActionDone
<1>2. Replace(orders) /\ orders \in References \cup {Undefined, Empty}
  BY DEF NothingFound, SearchFails, ActionDone
<1>3. pending[k].kind = "search" \/ orders = Undefined
  BY DEF NothingFound
<1>4. InActionMode' => mode' = mode
  BY DEF NothingFound, SearchFails, ActionDone, InActionMode, ActionModes
<1>5. ThrowsOnly'
  BY <1>1 DEF NothingFound, SearchFails, ActionDone, Replace, ThrowsOnly, place
<1>6. Placed'
  BY <1>1, <1>4 DEF IInv, Placed, InActionMode, place
<1>7. /\ mode' \in Modes /\ inTransaction' \in BOOLEAN /\ halted' \in BOOLEAN
      /\ unanswered' = FALSE
  BY DEF IInv, Scalars, NothingFound, SearchFails, ActionDone, Modes
<1>8. Scalars'
  BY <1>1, <1>2, <1>7 DEF IInv, Scalars, Replace, place
<1> HIDE DEF orders
<1> QED
  BY <1>1, <1>2, <1>3, <1>4, <1>5, <1>6, <1>8, ReplaceOK

LEMMA OrderFoundOK ==
  ASSUME IInv, ~halted, NEW k \in DOMAIN pending, OrderFound(k)
  PROVE  IInv'
<1>1. pending[k] \in Sound /\ pending[k].kind = "search" /\ pending \in Seq(Sound)
  BY PendingSound DEF OrderFound, IInv
<1>2. pending[k].order \in References
  BY <1>1 DEF Sound, Operations
<1>3. UNCHANGED <<partial, fromHistory, requested, mode, inTransaction, halted>> /\ unanswered' = FALSE
  BY DEF OrderFound
<1>4. CASE Replace(pending[k].order) /\ Ended(k) /\ UNCHANGED overlapped
           /\ (UNCHANGED screen \/ screen' = "details")
  <2>1. Placed'
    BY <1>3, <1>4 DEF IInv, Placed, InActionMode
  <2>2. Scalars'
    BY <1>2, <1>3, <1>4 DEF IInv, Scalars, Replace, Screens
  <2>3. ThrowsOnly'
    BY <1>3 DEF ThrowsOnly
  <2> QED
    BY <1>1, <1>2, <1>3, <1>4, <2>1, <2>2, <2>3, ReplaceOK DEF InActionMode
<1>5. CASE /\ screen = "inquiry" /\ fromHistory /\ screen' = "details" /\ Reset(TRUE)
           /\ pending' = Append(RemoveAt(pending, k),
                                [kind |-> "search", order |-> requested, items |-> <<>>])
           /\ overlapped' = (Len(pending) > 1)
  <2> DEFINE operation == [kind |-> "search", order |-> requested, items |-> <<>>]
             rest == RemoveAt(pending, k)
  <2>1. operation \in Sound /\ ~InActionMode
    BY <1>5, SearchSound DEF IInv, Placed
  <2>2. rest \in Seq(Sound) /\ Len(rest) = Len(pending) - 1 /\ Len(pending) \in Nat
    BY <1>1, Removed, LenProperties
  <2>3. operation.kind = "search" /\ pending' = Append(rest, operation)
    BY <1>5
  <2> HIDE DEF operation, rest
  <2>4. /\ pending' \in Seq(Sound) /\ Len(pending') = Len(rest) + 1
        /\ pending'[Len(rest) + 1] = operation
    BY <2>1, <2>2, <2>3, AppendProperties
  <2>5. Sound' = Sound
    BY <1>3 DEF Sound, Fits
  <2>6. ~Shown' /\ selection' = <<>> /\ ~InActionMode'
    BY <1>3, <1>5, <2>1, NamesAssumption DEF Reset, Shown, InActionMode
  <2>7. pending' # <<>>
    BY <2>2, <2>4, EmptySeq
  <2>8. Alone'
    <3> DEFINE several == Len(pending) > 1
    <3>1. ~several => Len(pending') <= 1
      BY <2>2, <2>4
    <3>2. overlapped' = several
      BY <1>5
    <3> HIDE DEF several
    <3> QED
      BY <3>1, <3>2, <2>6, Zenon DEF Alone
  <2>9. Scalars' /\ Placed'
    <3> DEFINE several == Len(pending) > 1
    <3>1. several \in BOOLEAN /\ overlapped' = several
      BY <1>5
    <3> HIDE DEF several
    <3>2. overlapped' \in BOOLEAN
      BY <3>1, Zenon
    <3>3. inProgress' \in BOOLEAN /\ hasSelection' \in BOOLEAN /\ order' = Undefined
      BY <1>5 DEF Reset
    <3> QED
      BY <1>3, <1>5, <2>6, <3>2, <3>3 DEF IInv, Scalars, Placed, Screens
  <2>10. SelectionTyped' /\ SelectionFits' /\ BusyOnly' /\ ThrowsOnly'
    BY <1>3, <2>6, <2>7 DEF SelectionTyped, SelectionFits, BusyOnly, ThrowsOnly
  <2> QED
    BY <2>4, <2>5, <2>8, <2>9, <2>10 DEF IInv
<1> QED
  BY <1>4, <1>5, Zenon DEF OrderFound

-----------------------------------------------------------------------------
(* The invariant.                                                          *)

LEMMA InitOK == Init => IInv
<1> SUFFICES ASSUME Init
             PROVE  IInv
  OBVIOUS
<1>1. pending \in Seq(Sound) /\ Len(pending) = 0
  BY EmptySeq DEF Init
<1>2. ~Shown /\ selection = <<>> /\ ~InActionMode
  BY NamesAssumption DEF Init, Shown, InActionMode, ActionModes
<1>3. Scalars /\ Placed
  BY <1>2 DEF Init, Scalars, Placed, Screens, Modes
<1>4. SelectionTyped /\ SelectionFits /\ BusyOnly /\ ThrowsOnly
  BY <1>2 DEF Init, SelectionTyped, SelectionFits, BusyOnly, ThrowsOnly
<1>5. Alone
  BY <1>1, <1>2 DEF Alone
<1> QED
  BY <1>1, <1>3, <1>4, <1>5 DEF IInv

LEMMA SearchOK ==
  ASSUME IInv, ~halted, NEW o \in References, EnterFromHistory(o) \/ Search(o) \/ Scan(o)
  PROVE  IInv'
<1> DEFINE operation == [kind |-> "search", order |-> o, items |-> <<>>]
<1>1. operation \in Sound /\ Send(operation)
  BY SearchSound DEF EnterFromHistory, Search, Scan, SearchFor
<1>2. ~InActionMode
  BY DEF EnterFromHistory, Search, Scan, IInv, Placed, InActionMode, ActionModes
<1>3. UNCHANGED <<partial, inTransaction, halted, mode>>
  BY DEF EnterFromHistory, Search, Scan
<1>4. /\ screen' \in Screens /\ fromHistory' \in BOOLEAN
      /\ requested' \in References \cup {Undefined} /\ Placed'
  <2>1. ~InActionMode'
    BY <1>2, <1>3 DEF InActionMode
  <2>2. CASE EnterFromHistory(o)
    BY <2>1, <2>2 DEF EnterFromHistory, Placed, Screens
  <2>3. CASE UNCHANGED place
    BY <2>1, <2>3 DEF IInv, Scalars, Placed, place
  <2> QED
    BY <2>2, <2>3 DEF Search, Scan
<1> HIDE DEF operation
<1> QED
  BY <1>1, <1>2, <1>3, <1>4, SendOK

LEMMA NextOK == IInv /\ [Next]_vars => IInv'
<1> SUFFICES ASSUME IInv, [Next]_vars
             PROVE  IInv'
  OBVIOUS
<1>1. CASE UNCHANGED vars
  <2>1. UNCHANGED <<partial, place, mode, inTransaction, slice, sent, halted>>
    BY <1>1 DEF vars
  <2>2. pending' \in Seq(Sound')
    BY <2>1, PendingSound DEF sent
  <2>3. Scalars' /\ Placed' /\ Alone' /\ BusyOnly' /\ ThrowsOnly'
    BY <2>1 DEF IInv, Scalars, Placed, Alone, BusyOnly, ThrowsOnly, InActionMode, Shown, place,
                sent, slice
  <2>4. SelectionTyped' /\ SelectionFits'
    BY <2>1 DEF IInv, SelectionTyped, SelectionFits, InActionMode, Shown, ByQuantity, slice
  <2> QED
    BY <2>2, <2>3, <2>4 DEF IInv
<1>2. CASE Next
  <2>1. ~halted
    BY <1>2 DEF Next
  <2>2. CASE BackFromInquiry \/ MainMovesOn
    BY <2>1, <2>2, LeaveOK DEF BackFromInquiry, MainMovesOn
  <2>3. CASE Enter \/ BackFromAction \/ BackFromDetails \/ TransactionEnds
    BY <2>1, <2>3, ScreenOK
  <2>4. CASE \E o \in References : EnterFromHistory(o) \/ Search(o) \/ Scan(o)
    BY <2>1, <2>4, SearchOK
  <2>5. CASE \E action \in ActionModes : StartAction(action)
    BY <2>1, <2>5, StartActionOK
  <2>6. CASE \E l \in DOMAIN Lines[order] :
               PressLine(l) \/ \E typed \in Keyed \cup {NotANumber} : KeyQuantity(l, typed)
    BY <2>1, <2>6, PressLineOK, KeyQuantityOK
  <2>7. CASE Done
    BY <2>1, <2>7, DoneOK
  <2>8. CASE \E k \in DOMAIN pending :
               OrderFound(k) \/ NothingFound(k) \/ SearchFails(k) \/ NotTold(k) \/ ActionDone(k)
    BY <2>1, <2>8, OrderFoundOK, AnswerOK, NotToldOK
  <2> QED
    BY <1>2, <2>2, <2>3, <2>4, <2>5, <2>6, <2>7, <2>8 DEF Next
<1> QED
  BY <1>1, <1>2

\* A sequence is one over its own range.
LEMMA OwnRange ==
  ASSUME NEW S, NEW s \in Seq(S)
  PROVE  s \in Seq(Range(s))
<1>1. s = [i \in 1..Len(s) |-> s[i]] /\ Len(s) \in Nat
  BY LenProperties
<1>2. \A i \in 1..Len(s) : s[i] \in Range(s)
  BY LenProperties DEF Range
<1> QED
  BY <1>1, <1>2, IsASeq

LEMMA Consequences == IInv => TypeOK /\ SelectionFits /\ SubmittedFits /\ BusyOnly /\ ThrowsOnly
<1> SUFFICES ASSUME IInv
             PROVE  TypeOK /\ SubmittedFits
  BY DEF IInv
<1>1. pending \in Seq(Sound) /\ \A k \in DOMAIN pending : pending[k] \in Sound
  BY PendingSound DEF IInv
<1>2. \A k \in DOMAIN pending : IsOperation(pending[k])
  <2>1. SUFFICES ASSUME NEW k \in DOMAIN pending, NEW l \in DOMAIN pending[k].items
                 PROVE  pending[k].items[l] \in Quantities
    BY <1>1 DEF IsOperation, Sound, Operations
  <2>2. pending[k].items \in Items \cup {<<>>}
    BY <1>1 DEF Sound, Operations
  <2> QED
    BY <2>1, <2>2 DEF Items
<1>3. TypeOK
  BY <1>1, <1>2, OwnRange, NamesAssumption DEF IInv, Scalars, SelectionTyped, Placed, TypeOK
<1>4. SubmittedFits
  BY <1>1 DEF SubmittedFits, Sound
<1> QED
  BY <1>3, <1>4

\* The state keeps its types, whatever is typed, scanned and answered.
THEOREM TypeCorrect == Spec => []TypeOK
<1>1. IInv => TypeOK
  BY Consequences
<1> QED
  BY <1>1, InitOK, NextOK, PTL DEF Spec

\* The selection fits the order that is shown, line by line.
THEOREM SelectionCorrect == Spec => []SelectionFits
<1>1. IInv => SelectionFits
  BY Consequences
<1> QED
  BY <1>1, InitOK, NextOK, PTL DEF Spec

\* What is submitted fits its order, for every order and every quantity.
THEOREM SubmissionCorrect == Spec => []SubmittedFits
<1>1. IInv => SubmittedFits
  BY Consequences
<1> QED
  BY <1>1, InitOK, NextOK, PTL DEF Spec

\* The slice is busy while something is under way, or was not told.
THEOREM ProgressCorrect == Spec => []BusyOnly
<1>1. IInv => BusyOnly
  BY Consequences
<1> QED
  BY <1>1, InitOK, NextOK, PTL DEF Spec

\* The exceptions that leave a saga or a render are the ones named.
THEOREM ThrowsCorrect == Spec => []ThrowsOnly
<1>1. IInv => ThrowsOnly
  BY Consequences
<1> QED
  BY <1>1, InitOK, NextOK, PTL DEF Spec
=============================================================================
