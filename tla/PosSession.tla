----------------------------- MODULE PosSession -----------------------------
(***************************************************************************)
(* The point of sale's session: business operations (sagas/businessState,  *)
(* reducers/businessState), the UI state they lead to (reducers/uiState),  *)
(* the scanner that is enabled and disabled around them (sagas/            *)
(* deviceService, deviceNotification, updateUiState) and the data events   *)
(* that start them (sagas/resolveDataEvent).                               *)
(*                                                                         *)
(* redux-saga runs everything a stimulus sets off before it takes the next *)
(* one: a dispatch from a screen, the engine's answer, a timer.  A step of *)
(* the model is one stimulus with all the puts, reducers and takeEvery     *)
(* handlers it sets off, in the order the sagas put them.                  *)
(***************************************************************************)
EXTENDS DataEvents, Sequences, FiniteSets

CONSTANTS Ops,            \* identities for the business operations in flight
          OperatorModes,  \* the modes the screens ask for
          ScanEntries,    \* the entries that are scanned or keyed
          MaxNumber       \* bound on the transaction numbers

ASSUME OpsAssumption == IsFiniteSet(Ops)
ASSUME EntriesAssumption == ScanEntries \subseteq Entries
ASSUME BoundAssumption == MaxNumber \in Nat

VARIABLES engine,   \* the engine's logical state and last transaction number
          pending,  \* the operations whose answer the saga waits for
          business, \* state.businessState
          ui,       \* state.uiState
          delayed,  \* what is left to do of closings that wait for the delay
          receipt,  \* the transaction the receipt options were chosen for, or 0
          halted,   \* an exception left a saga: the root saga is gone
          lapped    \* history: the last state put on the screens is a late one

vars == <<engine, pending, business, ui, delayed, receipt, halted, lapped>>

\* deviceService.ts, scannerAllowedInCurrentUi.
DisabledModes == {"ItemNotFound", "Tendering", "WaitingToClearTransaction", "WaitingToClose",
                  "DiscountTypeSelection", "QuantityChange", "PriceChange", "ProductDetail",
                  "ProductScreen", "ReasonCode", "SCOPopup", "ThankYou", "ChangePassword",
                  "InformationTerminal", "StoreOperation", "SubscriptionToken",
                  "BalanceInquiryTenderSelection"}

DisabledStates == {"TerminalClosed"}

Modes == LocalModes \cup DisabledModes \cup
         {"Unset", "FatalError", "VoidTransaction", "ReturnWithTransaction", "ItemSelection"}

ASSUME ModesAssumption == OperatorModes \subseteq Modes

ScannerAllowed(logicalState, mode) == logicalState \notin DisabledStates /\ mode \notin DisabledModes

\* handleScannerUpdate for a request whose enabled is not false.
Gate(count, logicalState, mode) == count = 0 /\ ScannerAllowed(logicalState, mode)

\* Mutant: the last operation is never counted out.
InProgressCount_OffByOne(increment) ==
  IF increment THEN business.inProgressCount + 1
  ELSE IF business.inProgressCount > 1 THEN business.inProgressCount - 1 ELSE business.inProgressCount

\* updateInProgress
InProgressCount(increment) ==
  IF increment THEN business.inProgressCount + 1
  ELSE IF business.inProgressCount > 0 THEN business.inProgressCount - 1 ELSE 0

-----------------------------------------------------------------------------
(* The engine: which results handleUiBusinessEvent may answer with.        *)

TransactionStates == {"InMerchandise", "InMerchandiseWaiting", "WaitingToClose", "InFiscalControl"}

EngineStates == TransactionStates \cup {"NotInTransaction", "TerminalClosed"}

Results == [logicalState : EngineStates, number : 0 .. MaxNumber,
            open : BOOLEAN, waitingToClose : BOOLEAN, closed : BOOLEAN]

Result(logicalState, number, closed) ==
  [logicalState |-> logicalState, number |-> number,
   open |-> closed \/ logicalState \in TransactionStates,
   waitingToClose |-> logicalState = "WaitingToClose", closed |-> closed]

EngineMoves == {<<"NotInTransaction", "TerminalClosed">>, <<"TerminalClosed", "NotInTransaction">>,
                <<"InMerchandise", "InMerchandiseWaiting">>, <<"InMerchandiseWaiting", "InMerchandise">>,
                <<"InMerchandise", "WaitingToClose">>, <<"WaitingToClose", "InMerchandise">>}

\* An operation leaves the register where it is, moves it within a
\* transaction, opens a transaction or closes the one that is open.
EngineResults(state) ==
  {Result(state.logicalState, state.number, FALSE)} \cup
  {Result(move[2], state.number, FALSE) :
     move \in {m \in EngineMoves : m[1] = state.logicalState}} \cup
  {Result(to, state.number + 1, FALSE) :
     to \in {t \in {"InMerchandise", "InFiscalControl"} :
               state.logicalState = "NotInTransaction" /\ state.number < MaxNumber}} \cup
  {Result("NotInTransaction", state.number, TRUE) :
     s \in {state.logicalState} \cap TransactionStates}

-----------------------------------------------------------------------------

Init == /\ engine \in [logicalState : {"NotInTransaction", "TerminalClosed"}, number : {0}]
        /\ pending = {}
        /\ business = [inProgressCount |-> 0, number |-> 0, display |-> "undefined"]
        /\ ui = [logicalState |-> "Undefined", mode |-> "Unset", scannerEnabled |-> TRUE]
        /\ delayed = <<>>
        /\ receipt = 0
        /\ halted = FALSE
        /\ lapped = FALSE

\* The screens that offer operations are shown once the register has answered.
Started == ui.logicalState # "Undefined"

\* BUSINESS_OPERATION.REQUEST: the reducer counts the operation and
\* performBusinessOperation disables the scanner before it calls the engine.
Begin(op) ==
  /\ op \notin pending
  /\ pending' = pending \cup {op}
  /\ business' = [business EXCEPT !.inProgressCount = InProgressCount(TRUE)]
  /\ ui' = [ui EXCEPT !.scannerEnabled = FALSE]

RequestOperation(op) ==
  /\ ~halted
  /\ Begin(op)
  /\ UNCHANGED <<engine, delayed, receipt, halted, lapped>>

\* Mutants: a new mode forgets what is in flight; the logical state is left
\* out of the payload.
UiState_Ungated(count, logicalState, mode) ==
  [logicalState |-> logicalState, mode |-> mode,
   scannerEnabled |-> ScannerAllowed(logicalState, mode)]

UiState_KeepsState(count, logicalState, mode) ==
  [logicalState |-> IF ui.logicalState = "Undefined" THEN logicalState ELSE ui.logicalState,
   mode |-> mode, scannerEnabled |-> Gate(count, logicalState, mode)]

\* updateUiState.request or updateUiMode.request, and the ScannerUpdate
\* that the saga of updateUiState.ts puts after it.
UiState(count, logicalState, mode) ==
  [logicalState |-> logicalState, mode |-> mode,
   scannerEnabled |-> Gate(count, logicalState, mode)]

\* updateUiMode.request from a screen.
SetMode(mode) ==
  /\ ~halted
  /\ Started
  /\ ui' = UiState(business.inProgressCount, ui.logicalState, mode)
  /\ UNCHANGED <<engine, pending, business, delayed, receipt, halted, lapped>>

\* The operator chooses a receipt category for the transaction on display.
ChooseReceipt ==
  /\ ~halted
  /\ business.display = "shown"
  /\ receipt' = business.number
  /\ UNCHANGED <<engine, pending, business, ui, delayed, halted, lapped>>

\* BUSINESS_OPERATION.SUCCESS replaces the state values, lines and display.
Reduced(result) ==
  [inProgressCount |-> InProgressCount(FALSE), number |-> result.number,
   display |-> IF result.open THEN "shown" ELSE "cleared"]

\* Mutant: the clearing takes whatever transaction is displayed.
ClearDisplay_Any(state, number) == [state EXCEPT !.display = "cleared"]

\* CLEAR_RECEIPT in reducers/businessState: only the transaction to clear.
ClearDisplay(state, number) ==
  IF state.number = number THEN [state EXCEPT !.display = "cleared"] ELSE state

\* Mutant: the end of a closing leaves the logical state.
FinishClosing_KeepsState(closing, state) ==
  /\ ui' = UiState(state.inProgressCount, ui.logicalState, "Unset")
  /\ business' = IF closing.clears THEN ClearDisplay(state, closing.number) ELSE state
  /\ receipt' = IF closing.clears THEN 0 ELSE receipt

\* The end of a closing: updateUiState.request without a mode, then, unless
\* the closed transaction was a fiscal control one, clearReceipt.request.
FinishClosing(closing, state) ==
  /\ ui' = UiState(state.inProgressCount, closing.logicalState, "Unset")
  /\ business' = IF closing.clears THEN ClearDisplay(state, closing.number) ELSE state
  /\ receipt' = IF closing.clears THEN 0 ELSE receipt

PreservedPairs == {<<"InMerchandise", "InMerchandiseWaiting">>, <<"InMerchandiseWaiting", "InMerchandise">>,
                   <<"WaitingToClose", "ReadyToClose">>, <<"ReadyToClose", "WaitingToClose">>}

\* checkToPreserveUiMode
PreservesMode(result) ==
  \/ ui.logicalState = result.logicalState
  \/ <<ui.logicalState, result.logicalState>> \in PreservedPairs
  \/ /\ ui.mode = "GiftCardIssue"
     /\ ui.logicalState = "NotInTransaction" /\ result.logicalState = "InMerchandise"
  \/ ui.mode \in {"SearchPostVoidable", "WaitingForInput"}

\* The mode an answer leads to when it closes nothing.
NextMode(result) ==
  IF result.waitingToClose /\ ui.mode \notin {"BalanceInquiry", "WaitingToClose"} THEN "WaitingToClose"
  ELSE IF PreservesMode(result) THEN ui.mode ELSE "Unset"

\* Mutant: any answer within a transaction is taken for its closing.
Closes_Open(result) == result.open /\ ui.mode # "BalanceInquiry"

\* Answers after which the receipt display is to be cleared.
Closes(result) == result.open /\ result.closed /\ ui.mode # "BalanceInquiry"

Closing(result) == [logicalState |-> result.logicalState, number |-> result.number,
                    clears |-> ui.logicalState # "InFiscalControl"]

\* The engine answers, and the saga brings the screens to the new state. The
\* display of a void is kept for DELAY_BEFORE_RECEIPT_CLEAR.
OperationSucceeds(op, result) ==
  /\ ~halted
  /\ op \in pending
  /\ pending' = pending \ {op}
  /\ engine' = [logicalState |-> result.logicalState, number |-> result.number]
  /\ \/ /\ Closes(result) /\ ui.mode = "VoidTransaction"
        /\ business' = Reduced(result)
        /\ ui' = UiState(InProgressCount(FALSE), ui.logicalState, "WaitingToClearTransaction")
        /\ delayed' = Append(delayed, Closing(result))
        /\ UNCHANGED <<receipt, lapped>>
     \/ /\ Closes(result) /\ ui.mode # "VoidTransaction"
        /\ FinishClosing(Closing(result), Reduced(result))
        /\ lapped' = FALSE
        /\ UNCHANGED delayed
     \/ /\ ~Closes(result)
        /\ business' = Reduced(result)
        /\ ui' = UiState(InProgressCount(FALSE), result.logicalState, NextMode(result))
        /\ lapped' = FALSE
        /\ UNCHANGED <<delayed, receipt>>
  /\ UNCHANGED halted

\* handleBusinessOperationFail re-enables the scanner; updateUiMode.failure
\* sets the mode and has no ScannerUpdate of its own.
AfterFailure ==
  [ui EXCEPT !.scannerEnabled = Gate(InProgressCount(FALSE), ui.logicalState, ui.mode),
             !.mode = IF ui.logicalState = "Undefined" THEN "FatalError" ELSE ui.mode]

\* The engine rejects the operation. Without a logical state to fall back
\* on, the application goes to its fatal error screen.
OperationFails(op) ==
  /\ ~halted
  /\ op \in pending
  /\ pending' = pending \ {op}
  /\ business' = [business EXCEPT !.inProgressCount = InProgressCount(FALSE)]
  /\ ui' = AfterFailure
  /\ UNCHANGED <<engine, delayed, receipt, halted, lapped>>

\* The delay of a void is over: its result goes to the screens, whatever
\* operations have been answered meanwhile.
DelayEnds ==
  /\ ~halted
  /\ delayed # <<>>
  /\ FinishClosing(Head(delayed), business)
  /\ lapped' = (Head(delayed).logicalState # engine.logicalState)
  /\ delayed' = Tail(delayed)
  /\ UNCHANGED <<engine, pending, halted>>

\* A notification of a scan or of the keyboard wedge leads to a ScannerUpdate.
Notified(source, reply) ==
  IF source \in {"ScanData", "KeyListenerData"} /\ reply \in {"started", "processed", "failure"}
    THEN [ui EXCEPT !.scannerEnabled =
            reply # "started" /\ Gate(business.inProgressCount, ui.logicalState, ui.mode)]
    ELSE ui

\* resolveDataEvent: reads the state values of the session before anything
\* else, which are undefined until an operation has succeeded.
DataEvent(source, entry) ==
  /\ ~halted
  /\ Started \/ ui.mode = "FatalError"
  /\ IF business.display = "undefined"
       THEN halted' = TRUE /\ UNCHANGED <<pending, business, ui>>
       ELSE \E outcome \in ResolveDataEvent(source, ui.logicalState, ui.mode,
                                            ui.scannerEnabled, entry) :
              /\ halted' = (outcome.reply = "throws")
              /\ \/ outcome.request /\ \E op \in Ops : Begin(op)
                 \/ /\ ~outcome.request
                    /\ ui' = Notified(source, outcome.reply)
                    /\ UNCHANGED <<pending, business>>
  /\ UNCHANGED <<engine, delayed, receipt, lapped>>

Answer == \E op \in pending : \/ OperationFails(op)
                              \/ \E result \in EngineResults(engine) : OperationSucceeds(op, result)

\* Nothing takes the actions that screens still dispatch.
Halted == halted /\ UNCHANGED vars

Next == \/ \E op \in Ops : RequestOperation(op)
        \/ \E mode \in OperatorModes : SetMode(mode)
        \/ ChooseReceipt
        \/ Answer
        \/ DelayEnds
        \/ \E source \in Sources, entry \in ScanEntries : DataEvent(source, entry)
        \/ Halted

\* The engine settles every promise, and timers expire.
Spec == Init /\ [][Next]_vars /\ WF_vars(Answer) /\ WF_vars(DelayEnds)

-----------------------------------------------------------------------------
(* Properties.                                                             *)

Closings == [logicalState : EngineStates, number : 0 .. MaxNumber, clears : BOOLEAN]

\* The state keeps its types.
TypeOK ==
  /\ engine \in [logicalState : EngineStates, number : 0 .. MaxNumber]
  /\ pending \subseteq Ops
  /\ business \in [inProgressCount : Nat, number : 0 .. MaxNumber,
                   display : {"undefined", "shown", "cleared"}]
  /\ ui \in [logicalState : LogicalStates, mode : Modes, scannerEnabled : BOOLEAN]
  /\ delayed \in Seq(Closings)
  /\ receipt \in 0 .. MaxNumber
  /\ halted \in BOOLEAN
  /\ lapped \in BOOLEAN

\* The counter behind the loading dialog counts the operations that are still
\* to be answered, however requests, successes and failures interleave
\* (reducers/businessState.ts, updateInProgress).
InProgressCounts == business.inProgressCount = Cardinality(pending)

\* The scanner is on only while no operation is in flight and where the
\* logical state and the mode allow it, although ten handlers set it one
\* after the other (sagas/deviceService.ts, handleScannerUpdate).
ScannerSafe == ui.scannerEnabled => Gate(business.inProgressCount, ui.logicalState, ui.mode)

\* The converse, as the comment in deviceService.ts has it: "if mode is not in
\* disabledModes or disabledStates, allow the scanner".  An operator faced
\* with an idle register is never left with a dead scanner.
ScannerNotStuck ==
  Gate(business.inProgressCount, ui.logicalState, ui.mode) => ui.scannerEnabled

\* The screens show the transaction the engine has open: neither a late
\* clearing of an earlier transaction (reducers/businessState.ts,
\* determineChangesToClearReceipt) nor a failure removes it.
OpenTransactionShown ==
  engine.logicalState \in TransactionStates
    => business.number = engine.number /\ business.display = "shown"

\* The clearing of a transaction that came before the one the engine is in.
ClearsLate == delayed # <<>> /\ Head(delayed).number < engine.number /\ delayed' = Tail(delayed)

\* Receipt options chosen for the transaction the engine has open last until
\* it is closed: no answer, failure, mode or data event takes them away, only
\* the late clearing of an earlier transaction, which does not look at the
\* number of the one it resets them for (reducers/receipt.ts, CLEAR_RECEIPT).
ReceiptOptionsKept ==
  [][ receipt = engine.number /\ {engine.logicalState, engine'.logicalState} \subseteq TransactionStates
        => receipt' = receipt \/ ClearsLate ]_vars

\* The screens of an open transaction show its logical state, whatever is in
\* flight or fails, from its first answer on.  Only the delayed result of a
\* void that other operations have overtaken puts them back, and the next
\* answer brings them forward again (sagas/businessState.ts, the delay
\* before updateUiState.request).
OpenTransactionFresh ==
  engine.logicalState \in TransactionStates => ui.logicalState = engine.logicalState \/ lapped

\* Every operation is answered: the loading dialog goes away, unless requests
\* never cease or an exception has taken the sagas down.
Unblocked ==
  <>[][pending' \subseteq pending]_pending => []<>(business.inProgressCount = 0 \/ halted)

\* The screens follow the register: the abstract specification Register.
R == INSTANCE Register WITH States <- EngineStates, Unknown <- "Undefined",
       actual <- engine.logicalState, shown <- ui.logicalState, astray <- lapped \/ halted

FollowsRegister == R!Spec

=============================================================================
