------------------------------- MODULE Returns -------------------------------
(***************************************************************************)
(* Returns with an original transaction: the screens that search, choose   *)
(* and show it (components/return), the quantities the operator enters     *)
(* (sagas/return.ts, reducers/return.ts) and the business operations that  *)
(* record the transaction and apply the quantities to the basket.          *)
(*                                                                         *)
(* A step is one stimulus with everything it sets off: a press, a scan,    *)
(* the answer of an operation.  The engine's answer is external.           *)
(***************************************************************************)
EXTENDS Integers, Sequences, SequencesExt

CONSTANTS Transactions,  \* the transactions a search may find
          None,
          Keys,          \* the items' lookup keys
          Sublines,      \* of each transaction, its lines' sublines in order
          Refundable,    \* within the return period and in the home currency
          TaxFree,       \* those with a tax free form
          Keyed,         \* what is typed in a quantity field, beside NotANumber
          NotANumber,
          Configurations, \* the configurations of the stores
          MaxPending     \* bound on the operations in flight

Kinds == {"Sale", "Order", "Fulfillment"}

ASSUME TransactionsAssumption == None \notin Transactions
ASSUME SublinesAssumption ==
  /\ \A t \in Transactions :
       Sublines[t] \in Seq([kind : Kinds, key : Keys, returnable : BOOLEAN, available : Nat])
  /\ Refundable \subseteq Transactions /\ TaxFree \subseteq Transactions
ASSUME KeyedAssumption == Keyed \subseteq Int /\ NotANumber \notin Int /\ MaxPending \in Nat

VARIABLES settings,    \* the configuration of the store
          screen,
          autoMove,    \* navigation parameter of the details screen
          found,       \* the transactions the search has found
          session,     \* the engine's return session: isReturning, returnWithTransaction
          recorded,    \* ItemHandlingSession.transactions
          transaction, \* ItemHandlingSession.transactionInformationForReturn
          basket,      \* the quantities on the return lines of the basket
          working,     \* state.returnState.workingReturnedQuantities
          starting,    \* state.returnState.startingReturnedQuantities
          pending,     \* the operations without an answer
          contended,   \* history: two transactions were asked for at once
          halted       \* an exception left a saga: the root saga is gone

engine == <<session, recorded, transaction, basket>>
entered == <<working, starting>>
vars == <<settings, screen, autoMove, found, engine, entered, pending, contended, halted>>

Settings == [oms : BOOLEAN,         \* sourceForOrderHistory is "OMS"
             selectLine : BOOLEAN,  \* ReturnWithTransactionQuantityChangeMode
             multiple : BOOLEAN,    \* multipleTransactionsAllowed
             returnAll : BOOLEAN]   \* enableReturnAll

ASSUME ConfigurationsAssumption == Configurations \subseteq Settings

Screens == {"main", "search", "results", "details", "taxError"}

Available(t, i) == Sublines[t][i].available

\* Mutant: the ordered lines are left out.
Gathered_Sold(t) == {i \in DOMAIN Sublines[t] : Sublines[t][i].kind = "Sale"}

\* returnableItemFilter: the sublines the screen lists and the quantities are kept of.
Gathered(t) == {i \in DOMAIN Sublines[t] : Sublines[t][i].kind # "Fulfillment"}

Indices == UNION {Gathered(t) : t \in Transactions}

\* The quantities of no transaction, before any was gathered.
Nothing == [of |-> None, quantity |-> <<>>, typed |-> {}]

\* getSublineQuantityReturned: what the basket holds of each listed subline.
GatheredQuantities(t) == [of |-> t, quantity |-> basket[t], typed |-> {}]

HasReturned(quantities) == \E i \in DOMAIN quantities.quantity : quantities.quantity[i] # 0

Operation(kind, t) ==
  [kind |-> kind, transaction |-> t, of |-> None, quantity |-> <<>>, changed |-> FALSE]

ChoiceKinds == {"record", "select"}

Choosing(operations, t) ==
  \E k \in DOMAIN operations : operations[k].kind \in ChoiceKinds /\ operations[k].transaction = t

\* Another transaction is asked for, while one is shown or asked for.
Contended(operations, shown, t) ==
  \E u \in Transactions :
    /\ Choosing(operations, u)
    /\ \/ \E v \in Transactions \ {u} : Choosing(operations, v)
       \/ shown = "details" /\ t # u

Init ==
  /\ settings \in Configurations
  /\ screen = "main" /\ autoMove = FALSE /\ found = {}
  /\ session = "none" /\ recorded = {} /\ transaction = None
  /\ basket = [t \in Transactions |-> [i \in Gathered(t) |-> 0]]
  /\ working = Nothing /\ starting = Nothing
  /\ pending = <<>> /\ contended = FALSE /\ halted = FALSE

-----------------------------------------------------------------------------
(* The screens.  Send puts business operations; the details screen gathers *)
(* the quantities when it is mounted.                                      *)

Send(operations) ==
  /\ Len(pending) + Len(operations) <= MaxPending
  /\ pending' = pending \o operations

\* Bound: the session is asked to end once at a time; later presses meet the
\* loading dialog.
SendEnd(operation) ==
  /\ \A k \in DOMAIN pending : pending[k].kind \in ChoiceKinds
  /\ Send(<<operation>>)

\* Mutant: the screen that is shown again does not gather.
ShowDetails_NoGather(t, auto) ==
  /\ screen' = "details" /\ autoMove' = auto
  /\ working' = IF working.of = None THEN GatheredQuantities(t) ELSE working
  /\ starting' = IF working.of = None THEN GatheredQuantities(t) ELSE starting
  /\ UNCHANGED halted

ShowDetails(t, auto) ==
  /\ screen' = "details" /\ autoMove' = auto
  /\ working' = GatheredQuantities(t)
  /\ starting' = GatheredQuantities(t)
  /\ UNCHANGED halted

Show(next) ==
  /\ screen' = next
  /\ UNCHANGED <<autoMove, entered, halted>>

Stay == UNCHANGED <<screen, autoMove, entered, halted>>

\* The main screen enters the return mode; with a return under way the
\* search screen passes on to the details at once.
EnterReturns ==
  /\ screen = "main" /\ session = "none" /\ pending = <<>>
  /\ session' = "transaction"
  /\ IF /\ ~settings.multiple /\ transaction # None
        /\ HasReturned(GatheredQuantities(transaction))
     THEN ShowDetails(transaction, TRUE)
     ELSE Show("search")
  /\ UNCHANGED <<recorded, transaction, basket, pending>>

\* handleTransactionChosen, for a transaction that is not the one shown.
Choice(t) == Operation(IF t \in recorded THEN "select" ELSE "record", t)

\* The search has ended: the result screen is mounted, and a single result
\* is first recorded, whether or not it may be returned, and then chosen.
SearchEnds(results) ==
  /\ screen = "search"
  /\ found' = results
  /\ \/ /\ \A t \in results : results # {t}
        /\ Show("results") /\ UNCHANGED pending
     \/ \E t \in Transactions :
          /\ results = {t}
          /\ \/ /\ transaction = t
                /\ Send(<<Operation("record", t)>>) /\ ShowDetails(t, FALSE)
             \/ /\ transaction # t /\ t \in Refundable
                /\ Send(<<Operation("record", t), Choice(t)>>) /\ Show("results")
             \/ /\ transaction # t /\ t \notin Refundable
                /\ Send(<<Operation("record", t)>>) /\ Show("results")
  /\ UNCHANGED engine

\* A result is pressed; those that may not be returned any more are refused.
ChooseResult(t) ==
  /\ screen = "results" /\ t \in found
  /\ \/ transaction = t /\ ShowDetails(t, FALSE) /\ UNCHANGED pending
     \/ transaction # t /\ t \in Refundable /\ Send(<<Choice(t)>>) /\ Stay
  /\ UNCHANGED engine

\* The search screen lists what was recorded, where several are allowed.
ChooseRecorded(t) ==
  /\ screen = "search" /\ settings.multiple /\ t \in recorded
  /\ \/ transaction = t /\ ShowDetails(t, FALSE) /\ UNCHANGED pending
     \/ transaction # t /\ Send(<<Operation("select", t)>>) /\ Stay
  /\ UNCHANGED engine

\* No receipt, or the search was offline: the session goes on without one.
ReturnWithoutTransaction ==
  /\ screen = "search"
  /\ SendEnd(Operation("leave", None))
  /\ Stay /\ UNCHANGED engine

\* The Back button of each of the screens.
Back ==
  /\ \/ /\ screen = "search"
        /\ SendEnd(Operation("exit", None)) /\ Stay
     \/ /\ screen = "results"
        /\ Show("search") /\ UNCHANGED pending
     \/ /\ screen = "details"
        /\ IF autoMove \/ \E t \in Transactions : HasReturned(GatheredQuantities(t))
             THEN SendEnd(Operation("exit", None)) /\ Stay
             ELSE Show("results") /\ UNCHANGED pending
     \/ /\ screen = "taxError"
        /\ Show("main") /\ UNCHANGED pending
  /\ UNCHANGED engine

-----------------------------------------------------------------------------
(* The quantities.  The copy the sagas make of the working quantities is a *)
(* shallow one: what they assign is assigned in the state.                 *)

Sellable(t, i) == Sublines[t][i].returnable

\* The lines the details screen lets the operator change.
Offered(t, i) ==
  /\ i \in Gathered(t) /\ Sellable(t, i) /\ Available(t, i) # 0
  /\ ~(settings.oms /\ Sublines[t][i].kind = "Order")

\* The saga of a scanned item has a condition of its own.
ReturnableWhenScanned(t, i) ==
  Sellable(t, i) /\ settings.oms /\ Sublines[t][i].kind = "Sale"

\* The three branches of handleUpdateReturnedItemQuantity; no comparison
\* with NaN is true.
Clamped(n, available, current) ==
  IF n = NotANumber THEN current
  ELSE IF n <= available /\ n >= 0 THEN n
  ELSE IF n > available THEN available ELSE 0

\* Mutant: starting and working quantities share their entries.
Enter_Aliased(quantity, typed) ==
  /\ working' = [working EXCEPT !.quantity = quantity, !.typed = @ \cup typed]
  /\ starting' = working'
  /\ UNCHANGED halted

Enter(quantity, typed) ==
  /\ working' = [working EXCEPT !.quantity = quantity, !.typed = @ \cup typed]
  /\ UNCHANGED <<starting, halted>>

Throw == halted' = TRUE /\ UNCHANGED entered

Entering == UNCHANGED <<screen, autoMove, engine, pending>>

\* A quantity is typed, or a line is pressed to select or deselect it.
ChangeQuantity(i) ==
  /\ screen = "details" /\ transaction # None
  /\ Offered(transaction, i)
  /\ LET available == Available(transaction, i) IN
     IF i \notin DOMAIN working.quantity
     THEN Throw
     ELSE \E n \in IF settings.selectLine
                   THEN {IF working.quantity[i] = available THEN 0 ELSE available}
                   ELSE Keyed \cup {NotANumber} :
            Enter([working.quantity EXCEPT ![i] = Clamped(n, available, @)], {i})
  /\ Entering

\* Return all: every returnable line that is listed, the ordered ones of an
\* order management system, which the screen disables, included.
ReturnAll ==
  /\ screen = "details" /\ transaction # None /\ settings.returnAll
  /\ LET listed == {i \in Gathered(transaction) : Sellable(transaction, i)}
         chosen == {i \in listed : Available(transaction, i) > 0} IN
     /\ chosen # {}
     /\ IF chosen \subseteq DOMAIN working.quantity
        THEN Enter([i \in DOMAIN working.quantity |->
                      IF i \in chosen THEN Available(transaction, i) ELSE working.quantity[i]],
                   chosen)
        ELSE Throw
  /\ Entering

\* Mutant: an item of any line fits.
Fits_Always(t, i) == TRUE

\* Is there something left to return of the subline?
Fits(t, i) == working.quantity[i] < Available(t, i)

\* The subline a scanned item is searched on: the first with something left.
\* A fulfilled line has no working quantity, and reading it throws.
FirstFit(t, key) ==
  {i \in DOMAIN Sublines[t] :
     /\ Sublines[t][i].key = key
     /\ i \in DOMAIN working.quantity => Fits(t, i)
     /\ \A j \in DOMAIN Sublines[t] :
          j < i /\ Sublines[t][j].key = key => j \in DOMAIN working.quantity /\ ~Fits(t, j)}

\* handleRecordEnteredItemRequest, for an item scanned or keyed on the details screen.
ScanItem(key) ==
  /\ screen = "details"
  /\ IF transaction = None THEN Throw
     ELSE LET fits == FirstFit(transaction, key) IN
          \/ /\ \A i \in fits : i \in DOMAIN working.quantity /\ ~ReturnableWhenScanned(transaction, i)
             /\ UNCHANGED <<entered, halted>>
          \/ \E i \in fits \ DOMAIN working.quantity : Throw
          \/ \E i \in fits \cap DOMAIN working.quantity :
               /\ ReturnableWhenScanned(transaction, i)
               /\ Enter([working.quantity EXCEPT
                           ![i] = IF settings.selectLine
                                  THEN Available(transaction, i) ELSE @ + 1], {i})
  /\ Entering

\* RETURN_WITH_TRANSACTION_QUANTITIES_CHANGED: the entries differ, their
\* quantities or their input sources.
Changed == starting.quantity # working.quantity \/ starting.typed # working.typed

\* The Done button, once something is to be returned.
Done ==
  /\ screen = "details" /\ HasReturned(working)
  /\ SendEnd([kind |-> "apply", transaction |-> transaction, of |-> working.of,
              quantity |-> working.quantity, changed |-> Changed])
  /\ Stay /\ UNCHANGED engine

-----------------------------------------------------------------------------
(* The answers of the engine, in any order, and the screens' reactions.  A *)
(* return session's operations are refused once it has ended.              *)

Answered(k) == pending' = RemoveAt(pending, k)

\* The transaction is the one to return from: the screens that wait for one
\* show it, the details screen goes on with the quantities it has.
ChosenAnswered(k) ==
  /\ pending[k].kind \in ChoiceKinds /\ session # "none"
  /\ Answered(k)
  /\ recorded' = recorded \cup {pending[k].transaction}
  /\ transaction' = pending[k].transaction
  /\ \/ /\ screen = "results" \/ (screen = "search" /\ settings.multiple)
        /\ ShowDetails(pending[k].transaction, screen = "search")
     \/ /\ \/ screen \notin {"results", "search"}
           \/ screen = "search" /\ ~settings.multiple
           \/ transaction = pending[k].transaction
        /\ Stay
  /\ UNCHANGED <<session, basket>>

\* What the engine makes of quantities that are reported as changed.
Applied(operation) ==
  IF operation.changed /\ operation.of # None /\ operation.of = operation.transaction
  THEN [basket EXCEPT ![operation.of] = operation.quantity] ELSE basket

\* EXIT_RETURN_MODE: the details screen leaves, or has a tax free form voided first.
ExitAnswered(k) ==
  /\ pending[k].kind \in {"exit", "apply"} /\ session # "none"
  /\ basket' = IF pending[k].kind = "apply" THEN Applied(pending[k]) ELSE basket
  /\ session' = "none"
  /\ transaction' \in {transaction, None}
  /\ UNCHANGED recorded
  /\ IF screen \notin {"search", "details"} THEN Answered(k) /\ Stay
     ELSE IF /\ screen = "details" /\ HasReturned(working)
             /\ transaction' \in TaxFree
          THEN pending' = Append(RemoveAt(pending, k), Operation("void", transaction')) /\ Stay
          ELSE Answered(k) /\ Show("main")

\* EXIT_RETURN_WITH_TRANSACTION ends the search only.
LeaveAnswered(k) ==
  /\ pending[k].kind = "leave" /\ session = "transaction"
  /\ Answered(k)
  /\ session' = "noReceipt"
  /\ IF screen = "search" THEN Show("main") ELSE Stay
  /\ UNCHANGED <<recorded, transaction, basket>>

\* The tax free form is voided, or the error screen says why not.
VoidAnswered(k) ==
  /\ pending[k].kind = "void"
  /\ Answered(k)
  /\ IF screen = "details" THEN Show("main") \/ Show("taxError") ELSE Stay
  /\ UNCHANGED engine

\* An operation is refused: a notification, no more; the void of a tax free
\* form is answered above.
OperationFails(k) ==
  /\ pending[k].kind # "void"
  /\ Answered(k) /\ Stay /\ UNCHANGED engine

\* On the main screen a return line is voided, or the sale is closed.
VoidReturnLine(t, i) ==
  /\ screen = "main" /\ pending = <<>> /\ basket[t][i] # 0
  /\ basket' = [basket EXCEPT ![t][i] = 0]
  /\ Stay /\ UNCHANGED <<session, recorded, transaction, pending>>

CloseSale ==
  /\ screen = "main" /\ pending = <<>>
  /\ session' = "none" /\ recorded' = {} /\ transaction' = None
  /\ basket' = [t \in Transactions |-> [i \in Gathered(t) |-> 0]]
  /\ Stay /\ UNCHANGED pending

-----------------------------------------------------------------------------

Answer == \E k \in DOMAIN pending :
            \/ ChosenAnswered(k) \/ ExitAnswered(k) \/ LeaveAnswered(k)
            \/ VoidAnswered(k) \/ OperationFails(k)

Enters == \/ ReturnAll
          \/ \E i \in Indices : ChangeQuantity(i)
          \/ \E key \in Keys : ScanItem(key)

Navigates ==
  \/ EnterReturns \/ ReturnWithoutTransaction \/ Back \/ Done \/ CloseSale
  \/ \E t \in Transactions : ChooseResult(t) \/ ChooseRecorded(t)
  \/ \E t \in Transactions : \E i \in Gathered(t) : VoidReturnLine(t, i)

Next ==
  /\ ~halted
  /\ \/ (Answer \/ Enters \/ Navigates) /\ UNCHANGED found
     \/ \E results \in SUBSET Transactions : SearchEnds(results)
  /\ contended' = (contended \/ Contended(pending', screen', transaction'))
  /\ UNCHANGED settings

Spec == Init /\ [][Next]_vars

-----------------------------------------------------------------------------

\* The quantities of the transaction they are of.
QuantityOf(of, quantity) ==
  IF of = None THEN quantity = <<>> ELSE quantity \in [Gathered(of) -> Int]

IsEntered(entry) ==
  /\ entry \in [of : Transactions \cup {None}, quantity : {entry.quantity}, typed : SUBSET Indices]
  /\ QuantityOf(entry.of, entry.quantity)

OperationKinds == ChoiceKinds \cup {"exit", "apply", "leave", "void"}

IsOperation(operation) ==
  /\ operation \in [kind : OperationKinds, transaction : Transactions \cup {None},
                    of : Transactions \cup {None}, quantity : {operation.quantity},
                    changed : BOOLEAN]
  /\ QuantityOf(operation.of, operation.quantity)

TypeOK ==
  /\ settings \in Settings /\ screen \in Screens /\ autoMove \in BOOLEAN
  /\ found \subseteq Transactions /\ recorded \subseteq Transactions
  /\ session \in {"none", "transaction", "noReceipt"}
  /\ transaction \in Transactions \cup {None}
  /\ DOMAIN basket = Transactions
  /\ \A t \in Transactions : basket[t] \in [Gathered(t) -> Int]
  /\ IsEntered(working) /\ IsEntered(starting)
  /\ pending \in Seq(Range(pending)) /\ \A k \in DOMAIN pending : IsOperation(pending[k])
  /\ contended \in BOOLEAN /\ halted \in BOOLEAN

\* What is to be returned of a line is never more than is left of it, and
\* never negative, however it was entered: typed, pressed, scanned or with
\* the others; nor is what the basket holds (getSublineAvailableReturnQuantity).
Within(t, quantity) ==
  \A i \in Gathered(t) : quantity[i] >= 0 /\ quantity[i] <= Available(t, i)

WithinAvailable ==
  ~contended => /\ \A t \in Transactions : Within(t, basket[t])
                /\ working.of # None => Within(working.of, working.quantity)

\* Done submits the quantities of the transaction it names, although the
\* quantities are gathered once, when the screen is mounted, and the
\* transaction is the engine's: only two transactions asked for at once can
\* part them (ReturnDetailsScreen, applyReturnWithTransactionItems).
SubmittedTogether ==
  \A k \in DOMAIN pending :
    pending[k].kind = "apply" /\ ~contended =>
      pending[k].transaction \in {pending[k].of, None}

\* When the engine has taken what Done submitted, the basket holds the
\* quantities the screen showed: no change goes unreported because the
\* starting quantities changed with the working ones (the _.merge of reducers/return.ts).
AppliedAsEntered ==
  [][\A k \in DOMAIN pending :
       /\ ExitAnswered(k) /\ pending[k].kind = "apply"
       /\ pending[k].of = pending[k].transaction
       => basket'[pending[k].of] = pending[k].quantity]_vars

\* A saga throws only on a scan with a fulfilled line in the transaction,
\* when the engine has dropped the transaction the screen still shows, and
\* when two transactions were asked for at once.
ThrowsOnly ==
  [][halted' => \/ contended \/ transaction = None
                \/ \E i \in DOMAIN Sublines[transaction] :
                     Sublines[transaction][i].kind = "Fulfillment"]_vars
=============================================================================
