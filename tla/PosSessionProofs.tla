-------------------------- MODULE PosSessionProofs --------------------------
(***************************************************************************)
(* Theorems about PosSession, for any set of operations in flight, any     *)
(* modes and entries, and any bound on the transaction numbers.            *)
(***************************************************************************)
EXTENDS PosSession, FiniteSetTheorems, TLAPS

-----------------------------------------------------------------------------
(* What the engine may answer.                                             *)

\* The four kinds of answers.
LEMMA ResultKinds ==
  ASSUME NEW result \in EngineResults(engine)
  PROVE  \/ result = Result(engine.logicalState, engine.number, FALSE)
         \/ \E move \in EngineMoves :
              move[1] = engine.logicalState /\ result = Result(move[2], engine.number, FALSE)
         \/ \E to \in {"InMerchandise", "InFiscalControl"} :
              /\ engine.logicalState = "NotInTransaction" /\ engine.number < MaxNumber
              /\ result = Result(to, engine.number + 1, FALSE)
         \/ /\ engine.logicalState \in TransactionStates
            /\ result = Result("NotInTransaction", engine.number, TRUE)
<1>1. CASE result = Result(engine.logicalState, engine.number, FALSE)
  BY <1>1
<1>2. CASE result \in {Result(move[2], engine.number, FALSE) :
                       move \in {m \in EngineMoves : m[1] = engine.logicalState}}
  BY <1>2
<1>3. CASE result \in {Result(to, engine.number + 1, FALSE) :
                       to \in {t \in {"InMerchandise", "InFiscalControl"} :
                                 engine.logicalState = "NotInTransaction" /\ engine.number < MaxNumber}}
  BY <1>3
<1>4. CASE result \in {Result("NotInTransaction", engine.number, TRUE) :
                       s \in {engine.logicalState} \cap TransactionStates}
  BY <1>4
<1> QED BY <1>1, <1>2, <1>3, <1>4 DEF EngineResults

\* The engine moves between its states.
LEMMA MoveStates ==
  \A move \in EngineMoves :
    /\ move[1] \in EngineStates /\ move[2] \in EngineStates
    /\ move[2] \in TransactionStates => move[1] \in TransactionStates
  BY DEF EngineMoves, EngineStates, TransactionStates

\* The engine's answers are results: one within the transaction, if any, one
\* that opens a transaction under the next number, or one that closes it.
LEMMA ResultFacts ==
  ASSUME engine \in [logicalState : EngineStates, number : 0 .. MaxNumber],
         NEW result \in EngineResults(engine)
  PROVE  /\ result \in Results
         /\ \/ /\ result.number = engine.number /\ ~result.closed
               /\ result.logicalState \in TransactionStates =>
                    result.open /\ engine.logicalState \in TransactionStates
            \/ /\ result.number = engine.number + 1 /\ ~result.closed
               /\ result.open /\ engine.logicalState \notin TransactionStates
            \/ /\ result.number = engine.number /\ result.logicalState = "NotInTransaction"
               /\ "NotInTransaction" \notin TransactionStates
<1> USE BoundAssumption
<1>0. engine.logicalState \in EngineStates /\ engine.number \in 0 .. MaxNumber
  OBVIOUS
<1>1. ASSUME result = Result(engine.logicalState, engine.number, FALSE)
      PROVE  /\ result \in Results /\ result.number = engine.number /\ ~result.closed
             /\ result.logicalState \in TransactionStates =>
                  result.open /\ engine.logicalState \in TransactionStates
  BY <1>0, <1>1 DEF Result, Results
<1>2. ASSUME NEW move \in EngineMoves, move[1] = engine.logicalState,
             result = Result(move[2], engine.number, FALSE)
      PROVE  /\ result \in Results /\ result.number = engine.number /\ ~result.closed
             /\ result.logicalState \in TransactionStates =>
                  result.open /\ engine.logicalState \in TransactionStates
  BY <1>2, MoveStates DEF Result, Results
<1>3. ASSUME NEW to \in {"InMerchandise", "InFiscalControl"},
             engine.logicalState = "NotInTransaction", engine.number < MaxNumber,
             result = Result(to, engine.number + 1, FALSE)
      PROVE  /\ result \in Results /\ result.number = engine.number + 1 /\ ~result.closed
             /\ result.open /\ engine.logicalState \notin TransactionStates
  <2>1. to \in TransactionStates /\ to \in EngineStates
    BY DEF TransactionStates, EngineStates
  <2>2. engine.number + 1 \in 0 .. MaxNumber
    BY <1>3
  <2> QED BY <1>3, <2>1, <2>2 DEF Result, Results, TransactionStates
<1>4. ASSUME result = Result("NotInTransaction", engine.number, TRUE)
      PROVE  /\ result \in Results /\ result.number = engine.number
             /\ result.logicalState = "NotInTransaction"
             /\ "NotInTransaction" \notin TransactionStates
  BY <1>0, <1>4 DEF Result, Results, EngineStates, TransactionStates
<1>5. CASE result = Result(engine.logicalState, engine.number, FALSE)
  BY <1>0, <1>1, <1>5
<1>6. CASE \E move \in EngineMoves :
             move[1] = engine.logicalState /\ result = Result(move[2], engine.number, FALSE)
  BY <1>0, <1>2, <1>6
<1>7. CASE \E to \in {"InMerchandise", "InFiscalControl"} :
             /\ engine.logicalState = "NotInTransaction" /\ engine.number < MaxNumber
             /\ result = Result(to, engine.number + 1, FALSE)
  BY <1>0, <1>3, <1>7
<1>8. CASE result = Result("NotInTransaction", engine.number, TRUE)
  BY <1>0, <1>4, <1>8
<1> QED BY ResultKinds, <1>5, <1>6, <1>7, <1>8

-----------------------------------------------------------------------------
(* Types.                                                                  *)

LEMMA CountType ==
  ASSUME business.inProgressCount \in Nat, NEW increment \in BOOLEAN
  PROVE  InProgressCount(increment) \in Nat
  BY DEF InProgressCount

LEMMA GateType ==
  ASSUME NEW count, NEW logicalState, NEW mode
  PROVE  Gate(count, logicalState, mode) \in BOOLEAN
  BY DEF Gate, ScannerAllowed

\* The type of the UI state and of the business state.
UiStates == [logicalState : LogicalStates, mode : Modes, scannerEnabled : BOOLEAN]

BusinessStates == [inProgressCount : Nat, number : 0 .. MaxNumber,
                   display : {"undefined", "shown", "cleared"}]

LEMMA UiStateType ==
  ASSUME NEW count, NEW logicalState \in LogicalStates, NEW mode \in Modes
  PROVE  UiState(count, logicalState, mode) \in UiStates
  BY GateType DEF UiState, UiStates

LEMMA KnownNames ==
  /\ EngineStates \subseteq LogicalStates
  /\ {"Unset", "FatalError", "WaitingToClearTransaction", "WaitingToClose"} \subseteq Modes
  BY DEF EngineStates, TransactionStates, LogicalStates, Modes, DisabledModes

LEMMA FinishType ==
  ASSUME TypeOK, NEW closing \in Closings, NEW state \in BusinessStates,
         FinishClosing(closing, state)
  PROVE  ui' \in UiStates /\ business' \in BusinessStates /\ receipt' \in 0 .. MaxNumber
<1>1. ui' \in UiStates
  BY UiStateType, KnownNames DEF FinishClosing, Closings
<1>2. ClearDisplay(state, closing.number) \in BusinessStates
  BY DEF ClearDisplay, BusinessStates
<1>3. business' \in BusinessStates
  BY <1>2 DEF FinishClosing
<1>4. receipt' \in 0 .. MaxNumber
  BY BoundAssumption DEF FinishClosing, TypeOK
<1> QED BY <1>1, <1>3, <1>4

LEMMA BeginType ==
  ASSUME TypeOK, NEW op \in Ops, Begin(op)
  PROVE  pending' \subseteq Ops /\ business' \in BusinessStates /\ ui' \in UiStates
<1>1. InProgressCount(TRUE) \in Nat
  BY CountType DEF TypeOK
<1> QED BY <1>1 DEF Begin, TypeOK, BusinessStates, UiStates

LEMMA SuccessType ==
  ASSUME TypeOK, NEW op \in pending, NEW result \in EngineResults(engine),
         OperationSucceeds(op, result)
  PROVE  TypeOK'
<1>1. result \in Results
  BY ResultFacts DEF TypeOK
<1>2. InProgressCount(FALSE) \in Nat
  BY CountType DEF TypeOK
<1>3. Reduced(result) \in BusinessStates
  BY <1>1, <1>2 DEF Reduced, Results, BusinessStates
<1>4. Closing(result) \in Closings
  BY <1>1, KnownNames DEF Closing, Closings, Results
<1>5. NextMode(result) \in Modes
  BY KnownNames DEF NextMode, TypeOK
<1>6. engine' \in [logicalState : EngineStates, number : 0 .. MaxNumber]
  BY <1>1 DEF OperationSucceeds, Results
<1>7. /\ business' \in BusinessStates /\ ui' \in UiStates
      /\ delayed' \in Seq(Closings) /\ receipt' \in 0 .. MaxNumber /\ lapped' \in BOOLEAN
  <2>1. CASE /\ Closes(result) /\ ui.mode = "VoidTransaction"
             /\ business' = Reduced(result)
             /\ ui' = UiState(InProgressCount(FALSE), ui.logicalState, "WaitingToClearTransaction")
             /\ delayed' = Append(delayed, Closing(result))
             /\ UNCHANGED <<receipt, lapped>>
    <3>1. ui' \in UiStates
      BY <2>1, UiStateType, KnownNames DEF TypeOK
    <3>2. delayed' \in Seq(Closings)
      BY <2>1, <1>4 DEF TypeOK
    <3>3. receipt' \in 0 .. MaxNumber /\ lapped' \in BOOLEAN
      BY <2>1 DEF TypeOK
    <3> QED BY <2>1, <3>1, <3>2, <3>3, <1>3
  <2>2. CASE /\ Closes(result) /\ ui.mode # "VoidTransaction"
             /\ FinishClosing(Closing(result), Reduced(result))
             /\ lapped' = FALSE
             /\ UNCHANGED delayed
    BY <2>2, <1>3, <1>4, FinishType DEF TypeOK
  <2>3. CASE /\ ~Closes(result)
             /\ business' = Reduced(result)
             /\ ui' = UiState(InProgressCount(FALSE), result.logicalState, NextMode(result))
             /\ lapped' = FALSE
             /\ UNCHANGED <<delayed, receipt>>
    <3>1. ui' \in UiStates
      BY <2>3, <1>1, <1>5, UiStateType, KnownNames DEF Results
    <3> QED BY <2>3, <3>1, <1>3 DEF TypeOK
  <2> QED BY <2>1, <2>2, <2>3 DEF OperationSucceeds
<1>8. pending' \subseteq Ops /\ halted' \in BOOLEAN
  BY DEF OperationSucceeds, TypeOK
<1> QED BY <1>6, <1>7, <1>8 DEF TypeOK, UiStates, BusinessStates

LEMMA FailureType ==
  ASSUME TypeOK, NEW op \in pending, OperationFails(op)
  PROVE  TypeOK'
<1>1. InProgressCount(FALSE) \in Nat
  BY CountType DEF TypeOK
<1>2. AfterFailure \in UiStates
  BY GateType, KnownNames DEF AfterFailure, TypeOK, UiStates
<1> QED BY <1>1, <1>2 DEF OperationFails, TypeOK, UiStates

LEMMA DataEventType ==
  ASSUME TypeOK, NEW source \in Sources, NEW entry \in ScanEntries, DataEvent(source, entry)
  PROVE  TypeOK'
<1>1. halted' \in BOOLEAN
  BY DEF DataEvent
<1>2. pending' \subseteq Ops /\ business' \in BusinessStates /\ ui' \in UiStates
  <2>1. CASE business.display = "undefined"
    BY <2>1 DEF DataEvent, TypeOK, UiStates, BusinessStates
  <2>2. CASE business.display # "undefined"
    <3>1. PICK outcome : \/ outcome.request /\ \E op \in Ops : Begin(op)
                         \/ /\ ~outcome.request
                            /\ ui' = Notified(source, outcome.reply)
                            /\ UNCHANGED <<pending, business>>
      BY <2>2 DEF DataEvent
    <3>2. CASE \E op \in Ops : Begin(op)
      BY <3>2, BeginType
    <3>3. CASE ui' = Notified(source, outcome.reply) /\ UNCHANGED <<pending, business>>
      <4>1. Notified(source, outcome.reply) \in UiStates
        BY GateType DEF Notified, TypeOK, UiStates
      <4> QED BY <3>3, <4>1 DEF TypeOK, BusinessStates
    <3> QED BY <3>1, <3>2, <3>3
  <2> QED BY <2>1, <2>2
<1> QED BY <1>1, <1>2 DEF DataEvent, TypeOK, UiStates, BusinessStates

\* Every step keeps the types.
LEMMA TypeInductive == TypeOK /\ [Next]_vars => TypeOK'
<1> SUFFICES ASSUME TypeOK, [Next]_vars PROVE TypeOK'
  OBVIOUS
<1>1. ASSUME NEW op \in Ops, RequestOperation(op) PROVE TypeOK'
  BY <1>1, BeginType DEF RequestOperation, TypeOK, UiStates, BusinessStates
<1>2. ASSUME NEW mode \in OperatorModes, SetMode(mode) PROVE TypeOK'
  <2>1. ui' \in UiStates
    BY <1>2, UiStateType, ModesAssumption DEF SetMode, TypeOK
  <2> QED BY <1>2, <2>1 DEF SetMode, TypeOK, UiStates
<1>3. ASSUME ChooseReceipt PROVE TypeOK'
  BY <1>3 DEF ChooseReceipt, TypeOK
<1>4. ASSUME Answer PROVE TypeOK'
  BY <1>4, SuccessType, FailureType DEF Answer
<1>5. ASSUME DelayEnds PROVE TypeOK'
  <2>1. Head(delayed) \in Closings /\ Tail(delayed) \in Seq(Closings)
    BY <1>5 DEF DelayEnds, TypeOK
  <2>2. business \in BusinessStates
    BY DEF TypeOK, BusinessStates
  <2>3. ui' \in UiStates /\ business' \in BusinessStates /\ receipt' \in 0 .. MaxNumber
    BY <1>5, <2>1, <2>2, FinishType DEF DelayEnds
  <2> QED BY <1>5, <2>1, <2>3 DEF DelayEnds, TypeOK, UiStates, BusinessStates
<1>6. ASSUME NEW source \in Sources, NEW entry \in ScanEntries, DataEvent(source, entry)
      PROVE  TypeOK'
  BY <1>6, DataEventType
<1>7. ASSUME UNCHANGED vars PROVE TypeOK'
  BY <1>7 DEF vars, TypeOK
<1> QED BY <1>1, <1>2, <1>3, <1>4, <1>5, <1>6, <1>7 DEF Next, Halted

LEMMA TypeInitial == Init => TypeOK
<1> SUFFICES ASSUME Init PROVE TypeOK
  OBVIOUS
<1>1. <<>> \in Seq(Closings)
  OBVIOUS
<1>2. ui \in UiStates
  BY KnownNames DEF Init, UiStates, LogicalStates
<1>3. engine \in [logicalState : EngineStates, number : 0 .. MaxNumber]
  BY BoundAssumption DEF Init, EngineStates
<1>4. business \in BusinessStates /\ receipt \in 0 .. MaxNumber
  BY BoundAssumption DEF Init, BusinessStates
<1>5. pending \subseteq Ops /\ halted \in BOOLEAN /\ lapped \in BOOLEAN /\ delayed \in Seq(Closings)
  BY <1>1 DEF Init
<1> QED BY <1>2, <1>3, <1>4, <1>5 DEF TypeOK, UiStates, BusinessStates

\* The session keeps its types: sagas/businessState.ts never writes a mode or
\* a logical state that the screens do not know.
THEOREM TypeCorrect == Spec => []TypeOK
<1> QED BY TypeInitial, TypeInductive, PTL DEF Spec

-----------------------------------------------------------------------------
(* The operations in flight are counted.                                   *)

\* What adding and removing an operation does to the number in flight.
LEMMA PendingCardinality ==
  ASSUME pending \subseteq Ops
  PROVE  /\ Cardinality(pending) \in Nat
         /\ \A op : op \notin pending => Cardinality(pending \cup {op}) = Cardinality(pending) + 1
         /\ \A op \in pending : /\ Cardinality(pending) > 0
                              /\ Cardinality(pending \ {op}) = Cardinality(pending) - 1
<1>1. IsFiniteSet(pending)
  BY OpsAssumption, FS_Subset
<1>2. Cardinality(pending) \in Nat
  BY <1>1, FS_CardinalityType
<1>3. ASSUME NEW op, op \notin pending
      PROVE  Cardinality(pending \cup {op}) = Cardinality(pending) + 1
  BY <1>1, <1>3, FS_AddElement
<1>4. ASSUME NEW op \in pending
      PROVE  /\ Cardinality(pending) > 0
             /\ Cardinality(pending \ {op}) = Cardinality(pending) - 1
  <2>1. Cardinality(pending) # 0
    BY <1>1, FS_EmptySet
  <2>2. Cardinality(pending \ {op}) = Cardinality(pending) - 1
    BY <1>1, FS_RemoveElement
  <2> QED BY <1>2, <2>1, <2>2
<1> QED BY <1>2, <1>3, <1>4

LEMMA BeginCounts ==
  ASSUME TypeOK, InProgressCounts, NEW op, Begin(op)
  PROVE  InProgressCounts'
<1>1. pending \subseteq Ops
  BY DEF TypeOK
<1>2. business'.inProgressCount = business.inProgressCount + 1
  BY DEF Begin, InProgressCount, TypeOK
<1> QED BY <1>1, <1>2, PendingCardinality DEF Begin, InProgressCounts

\* An answer, whatever it is, counts one operation out.
LEMMA AnswerCounts ==
  ASSUME TypeOK, InProgressCounts, Answer
  PROVE  InProgressCounts'
<1>1. PICK op \in pending : \/ OperationFails(op)
                            \/ \E result \in EngineResults(engine) : OperationSucceeds(op, result)
  BY DEF Answer
<1>2. pending \subseteq Ops
  BY DEF TypeOK
<1>3. pending' = pending \ {op}
  BY <1>1 DEF OperationFails, OperationSucceeds
<1>4. business'.inProgressCount = InProgressCount(FALSE)
  <2>1. CASE OperationFails(op)
    BY <2>1 DEF OperationFails, TypeOK
  <2>2. ASSUME NEW result \in EngineResults(engine), OperationSucceeds(op, result)
        PROVE  business'.inProgressCount = InProgressCount(FALSE)
    <3>1. Reduced(result).inProgressCount = InProgressCount(FALSE)
      BY DEF Reduced
    <3>2. ClearDisplay(Reduced(result), Closing(result).number).inProgressCount
            = InProgressCount(FALSE)
      BY <3>1 DEF ClearDisplay, Reduced
    <3>3. \/ business' = Reduced(result)
          \/ business' = ClearDisplay(Reduced(result), Closing(result).number)
      BY <2>2 DEF OperationSucceeds, FinishClosing
    <3> QED BY <3>1, <3>2, <3>3
  <2> QED BY <1>1, <2>1, <2>2
<1>5. InProgressCount(FALSE) = business.inProgressCount - 1
  BY <1>2, PendingCardinality DEF InProgressCount, InProgressCounts
<1> QED BY <1>2, <1>3, <1>4, <1>5, PendingCardinality DEF InProgressCounts

LEMMA CountsInductive == TypeOK /\ InProgressCounts /\ [Next]_vars => InProgressCounts'
<1> SUFFICES ASSUME TypeOK, InProgressCounts, [Next]_vars PROVE InProgressCounts'
  OBVIOUS
<1>1. ASSUME NEW op \in Ops, RequestOperation(op) PROVE InProgressCounts'
  BY <1>1, BeginCounts DEF RequestOperation
<1>2. ASSUME NEW mode \in OperatorModes, SetMode(mode) PROVE InProgressCounts'
  BY <1>2 DEF SetMode, InProgressCounts
<1>3. ASSUME ChooseReceipt PROVE InProgressCounts'
  BY <1>3 DEF ChooseReceipt, InProgressCounts
<1>4. ASSUME Answer PROVE InProgressCounts'
  BY <1>4, AnswerCounts
<1>5. ASSUME DelayEnds PROVE InProgressCounts'
  <2>1. business'.inProgressCount = business.inProgressCount
    BY <1>5 DEF DelayEnds, FinishClosing, ClearDisplay, TypeOK
  <2> QED BY <1>5, <2>1 DEF DelayEnds, InProgressCounts
<1>6. ASSUME NEW source \in Sources, NEW entry \in ScanEntries, DataEvent(source, entry)
      PROVE  InProgressCounts'
  <2>1. \/ \E op \in Ops : Begin(op)
        \/ UNCHANGED <<pending, business>>
    BY <1>6 DEF DataEvent
  <2>2. CASE \E op \in Ops : Begin(op)
    BY <2>2, BeginCounts
  <2>3. CASE UNCHANGED <<pending, business>>
    BY <2>3 DEF InProgressCounts
  <2> QED BY <2>1, <2>2, <2>3
<1>7. ASSUME UNCHANGED vars PROVE InProgressCounts'
  BY <1>7 DEF vars, InProgressCounts
<1> QED BY <1>1, <1>2, <1>3, <1>4, <1>5, <1>6, <1>7 DEF Next, Halted

\* However requests, successes and failures interleave, the counter behind
\* the loading dialog is the number of operations still to be answered
\* (reducers/businessState.ts, updateInProgress): its decrement never has to
\* stop at zero.
THEOREM OperationsCounted == Spec => []InProgressCounts
<1>1. Init => InProgressCounts
  BY FS_EmptySet DEF Init, InProgressCounts
<1> QED BY <1>1, TypeInitial, TypeInductive, CountsInductive, PTL DEF Spec

-----------------------------------------------------------------------------
(* The scanner.                                                            *)

LEMMA FatalErrorAllowed == "FatalError" \notin DisabledModes
  BY DEF DisabledModes

\* The end of a closing sets the scanner by the state it leads to.
LEMMA FinishSafe ==
  ASSUME NEW closing, NEW state \in BusinessStates, FinishClosing(closing, state)
  PROVE  ScannerSafe'
<1>1. ClearDisplay(state, closing.number).inProgressCount = state.inProgressCount
  BY DEF ClearDisplay, BusinessStates
<1>2. business'.inProgressCount = state.inProgressCount
  BY <1>1 DEF FinishClosing
<1> QED BY <1>2 DEF FinishClosing, UiState, ScannerSafe, Gate

LEMMA AnswerSafe ==
  ASSUME TypeOK, ScannerSafe, Answer
  PROVE  ScannerSafe'
<1>1. PICK op \in pending : \/ OperationFails(op)
                            \/ \E result \in EngineResults(engine) : OperationSucceeds(op, result)
  BY DEF Answer
<1>2. CASE OperationFails(op)
  <2>1. /\ ui'.scannerEnabled = Gate(InProgressCount(FALSE), ui.logicalState, ui.mode)
        /\ ui'.logicalState = ui.logicalState
        /\ ui'.mode \in {ui.mode, "FatalError"}
        /\ business'.inProgressCount = InProgressCount(FALSE)
    BY <1>2 DEF OperationFails, AfterFailure, TypeOK
  <2> QED BY <2>1, FatalErrorAllowed DEF ScannerSafe, Gate, ScannerAllowed
<1>3. ASSUME NEW result \in EngineResults(engine), OperationSucceeds(op, result)
      PROVE  ScannerSafe'
  <2>1. result \in Results
    BY ResultFacts DEF TypeOK
  <2>2. /\ Reduced(result) \in BusinessStates
        /\ Reduced(result).inProgressCount = InProgressCount(FALSE)
    BY <2>1, CountType DEF Reduced, BusinessStates, Results, TypeOK
  <2>3. CASE FinishClosing(Closing(result), Reduced(result))
    BY <2>2, <2>3, FinishSafe
  <2>4. ASSUME NEW logicalState, NEW mode, business' = Reduced(result),
               ui' = UiState(InProgressCount(FALSE), logicalState, mode)
        PROVE  ScannerSafe'
    BY <2>2, <2>4 DEF UiState, ScannerSafe, Gate
  <2> QED BY <1>3, <2>3, <2>4 DEF OperationSucceeds
<1> QED BY <1>1, <1>2, <1>3

LEMMA SafeInductive == TypeOK /\ ScannerSafe /\ [Next]_vars => ScannerSafe'
<1> SUFFICES ASSUME TypeOK, ScannerSafe, [Next]_vars PROVE ScannerSafe'
  OBVIOUS
<1>0. ASSUME NEW op, Begin(op) PROVE ScannerSafe'
  BY <1>0 DEF Begin, ScannerSafe, TypeOK
<1>1. ASSUME NEW op \in Ops, RequestOperation(op) PROVE ScannerSafe'
  BY <1>0, <1>1 DEF RequestOperation
<1>2. ASSUME NEW mode \in OperatorModes, SetMode(mode) PROVE ScannerSafe'
  BY <1>2 DEF SetMode, UiState, ScannerSafe, Gate
<1>3. ASSUME ChooseReceipt PROVE ScannerSafe'
  BY <1>3 DEF ChooseReceipt, ScannerSafe, Gate
<1>4. ASSUME Answer PROVE ScannerSafe'
  BY <1>4, AnswerSafe
<1>5. ASSUME DelayEnds PROVE ScannerSafe'
  <2>1. business \in BusinessStates
    BY DEF TypeOK, BusinessStates
  <2> QED BY <1>5, <2>1, FinishSafe DEF DelayEnds
<1>6. ASSUME NEW source \in Sources, NEW entry \in ScanEntries, DataEvent(source, entry)
      PROVE  ScannerSafe'
  <2>1. \/ \E op \in Ops : Begin(op)
        \/ \E reply : ui' = Notified(source, reply) /\ UNCHANGED business
        \/ UNCHANGED <<business, ui>>
    BY <1>6 DEF DataEvent
  <2>2. CASE \E op \in Ops : Begin(op)
    BY <1>0, <2>2
  <2>3. ASSUME NEW reply, ui' = Notified(source, reply), UNCHANGED business
        PROVE  ScannerSafe'
    <3>1. CASE ui' = ui
      BY <2>3, <3>1 DEF ScannerSafe, Gate
    <3>2. CASE ui' = [ui EXCEPT !.scannerEnabled =
                        reply # "started" /\ Gate(business.inProgressCount, ui.logicalState, ui.mode)]
      BY <2>3, <3>2 DEF ScannerSafe, Gate, TypeOK
    <3> QED BY <2>3, <3>1, <3>2 DEF Notified
  <2>4. CASE UNCHANGED <<business, ui>>
    BY <2>4 DEF ScannerSafe, Gate
  <2> QED BY <2>1, <2>2, <2>3, <2>4
<1>7. ASSUME UNCHANGED vars PROVE ScannerSafe'
  BY <1>7 DEF vars, ScannerSafe, Gate
<1> QED BY <1>1, <1>2, <1>3, <1>4, <1>5, <1>6, <1>7 DEF Next, Halted

\* Whatever sets the scanner last, it is on only while nothing is in flight
\* and where the logical state and the mode allow it (deviceService.ts).
THEOREM ScannerGated == Spec => []ScannerSafe
<1>1. Init => ScannerSafe
  BY DEF Init, ScannerSafe, Gate, ScannerAllowed, DisabledStates, DisabledModes
<1> QED BY <1>1, TypeInitial, TypeInductive, SafeInductive, PTL DEF Spec

-----------------------------------------------------------------------------
(* The transaction on display.                                             *)

\* What a clearing that is still to come is about: a transaction that was
\* closed before the one that may be open now.
ClosedBefore ==
  \A i \in 1 .. Len(delayed) :
    /\ delayed[i].number <= engine.number
    /\ engine.logicalState \in TransactionStates => delayed[i].number < engine.number

ShownInv == ClosedBefore /\ OpenTransactionShown

LEMMA SuccessShown ==
  ASSUME TypeOK, ShownInv, NEW op \in pending, NEW result \in EngineResults(engine),
         OperationSucceeds(op, result)
  PROVE  ShownInv'
<1>1. result \in Results
  BY ResultFacts DEF TypeOK
<1>2. \/ /\ result.number = engine.number /\ ~result.closed
         /\ result.logicalState \in TransactionStates =>
              result.open /\ engine.logicalState \in TransactionStates
      \/ /\ result.number = engine.number + 1 /\ ~result.closed
         /\ result.open /\ engine.logicalState \notin TransactionStates
      \/ /\ result.number = engine.number /\ result.logicalState \notin TransactionStates
  BY ResultFacts DEF TypeOK
<1>3. engine'.logicalState = result.logicalState /\ engine'.number = result.number
  BY DEF OperationSucceeds
<1>4. engine.number \in Nat /\ result.number \in Nat
  BY <1>1, BoundAssumption DEF TypeOK, Results
<1>5. \A n \in Nat : n <= engine.number /\ (engine.logicalState \in TransactionStates => n < engine.number)
        => n <= result.number /\ (result.logicalState \in TransactionStates => n < result.number)
  BY <1>2, <1>4
<1>6. ClosedBefore'
  <2>1. \A i \in 1 .. Len(delayed) : delayed[i].number \in Nat
    <3>1. \A i \in 1 .. Len(delayed) : delayed[i] \in Closings
      BY DEF TypeOK
    <3> QED BY <3>1, BoundAssumption DEF Closings
  <2>2. CASE delayed' = delayed
    BY <1>3, <1>5, <2>1, <2>2 DEF ShownInv, ClosedBefore
  <2>3. CASE Closes(result) /\ delayed' = Append(delayed, Closing(result))
    <3>1. result.logicalState \notin TransactionStates
      BY <1>2, <2>3 DEF Closes
    <3>2. delayed \in Seq(Closings)
      BY DEF TypeOK
    <3>3. ASSUME NEW i \in 1 .. Len(delayed') PROVE delayed'[i].number <= result.number
      <4>1. CASE i \in 1 .. Len(delayed)
        BY <1>5, <2>1, <2>3, <3>2, <4>1 DEF ShownInv, ClosedBefore
      <4>2. CASE i = Len(delayed) + 1
        BY <1>4, <2>3, <3>2, <4>2 DEF Closing
      <4> QED BY <2>3, <3>2, <3>3, <4>1, <4>2
    <3> QED BY <1>3, <3>1, <3>3 DEF ClosedBefore
  <2> QED BY <2>2, <2>3 DEF OperationSucceeds
<1>7. OpenTransactionShown'
  <2>1. CASE result.logicalState \notin TransactionStates
    BY <1>3, <2>1 DEF OpenTransactionShown
  <2>2. CASE result.logicalState \in TransactionStates
    <3>1. result.open /\ ~result.closed
      BY <1>2, <2>2
    <3>2. business' = Reduced(result)
      BY <3>1 DEF OperationSucceeds, Closes
    <3> QED BY <1>3, <3>1, <3>2 DEF OpenTransactionShown, Reduced
  <2> QED BY <2>1, <2>2
<1> QED BY <1>6, <1>7 DEF ShownInv

LEMMA DelayShown ==
  ASSUME TypeOK, ShownInv, DelayEnds
  PROVE  ShownInv'
<1>1. delayed \in Seq(Closings) /\ delayed # <<>> /\ delayed' = Tail(delayed) /\ engine' = engine
  BY DEF DelayEnds, TypeOK
<1>2. ClosedBefore'
  BY <1>1 DEF ShownInv, ClosedBefore
<1>3. ASSUME engine.logicalState \in TransactionStates
      PROVE  business'.number = engine.number /\ business'.display = "shown"
  <2>1. Head(delayed) = delayed[1] /\ 1 \in 1 .. Len(delayed)
    BY <1>1
  <2>2. Head(delayed).number < engine.number
    BY <1>3, <2>1 DEF ShownInv, ClosedBefore
  <2>3. business.number = engine.number /\ business.display = "shown"
    BY <1>3 DEF ShownInv, OpenTransactionShown
  <2>4. Head(delayed).number # engine.number
    BY <1>1, <2>1, <2>2, BoundAssumption DEF TypeOK, Closings
  <2>5. business' = business
    BY <2>3, <2>4 DEF DelayEnds, FinishClosing, ClearDisplay
  <2> QED BY <2>3, <2>5
<1> QED BY <1>1, <1>2, <1>3 DEF ShownInv, OpenTransactionShown

LEMMA ShownInductive == TypeOK /\ ShownInv /\ [Next]_vars => ShownInv'
<1> SUFFICES ASSUME TypeOK, ShownInv, [Next]_vars PROVE ShownInv'
  OBVIOUS
<1>0. ASSUME UNCHANGED <<engine, delayed>>,
             business'.number = business.number, business'.display = business.display
      PROVE  ShownInv'
  BY <1>0 DEF ShownInv, ClosedBefore, OpenTransactionShown
<1>1. ASSUME NEW op, Begin(op) PROVE business'.number = business.number /\ business'.display = business.display
  BY <1>1 DEF Begin, TypeOK
<1>2. ASSUME NEW op \in Ops, RequestOperation(op) PROVE ShownInv'
  BY <1>0, <1>1, <1>2 DEF RequestOperation
<1>3. ASSUME NEW mode \in OperatorModes, SetMode(mode) PROVE ShownInv'
  BY <1>0, <1>3 DEF SetMode
<1>4. ASSUME ChooseReceipt PROVE ShownInv'
  BY <1>0, <1>4 DEF ChooseReceipt
<1>5. ASSUME NEW op \in pending, OperationFails(op) PROVE ShownInv'
  <2>1. business'.number = business.number /\ business'.display = business.display
    BY <1>5 DEF OperationFails, TypeOK
  <2> QED BY <1>0, <1>5, <2>1 DEF OperationFails
<1>6. ASSUME DelayEnds PROVE ShownInv'
  BY <1>6, DelayShown
<1>7. ASSUME NEW source \in Sources, NEW entry \in ScanEntries, DataEvent(source, entry)
      PROVE  ShownInv'
  <2>1. (\E op \in Ops : Begin(op)) \/ UNCHANGED business
    BY <1>7 DEF DataEvent
  <2>2. UNCHANGED <<engine, delayed>>
    BY <1>7 DEF DataEvent
  <2> QED BY <1>0, <1>1, <2>1, <2>2
<1>8. ASSUME UNCHANGED vars PROVE ShownInv'
  BY <1>0, <1>8 DEF vars
<1> QED BY <1>2, <1>3, <1>4, <1>5, <1>6, <1>7, <1>8, SuccessShown DEF Next, Halted, Answer

\* The screens show the transaction the engine has open, however the delayed
\* clearing of a voided one interleaves with the operations of the next
\* (reducers/businessState.ts, determineChangesToClearReceipt). The proof
\* needs that a clearing still to come is about an earlier transaction.
THEOREM OpenTransactionDisplayed == Spec => []OpenTransactionShown
<1>1. Init => ShownInv
  BY DEF Init, ShownInv, ClosedBefore, OpenTransactionShown, TransactionStates
<1>2. ShownInv => OpenTransactionShown
  BY DEF ShownInv
<1> QED BY <1>1, <1>2, TypeInitial, TypeInductive, ShownInductive, PTL DEF Spec

-----------------------------------------------------------------------------
(* The scanner is not left off.                                            *)

\* The modes the session may be in; before the first answer there is no other
\* than that of the start, and of its failure.
ModesKnown ==
  /\ ui.mode \in OperatorModes \cup
       {"Unset", "FatalError", "WaitingToClose", "WaitingToClearTransaction"}
  /\ ui.logicalState = "Undefined" => ui.mode \in {"Unset", "FatalError"}

LEMMA SuccessModes ==
  ASSUME TypeOK, ModesKnown, NEW op \in pending, NEW result \in EngineResults(engine),
         OperationSucceeds(op, result)
  PROVE  ModesKnown'
<1>1. result.logicalState # "Undefined"
  BY ResultFacts DEF TypeOK, Results, EngineStates, TransactionStates
<1>2. CASE Closes(result) /\ ui.mode = "VoidTransaction"
  <2>1. ui' = UiState(InProgressCount(FALSE), ui.logicalState, "WaitingToClearTransaction")
    BY <1>2 DEF OperationSucceeds
  <2>2. ui.logicalState # "Undefined"
    BY <1>2 DEF ModesKnown
  <2> QED BY <2>1, <2>2 DEF ModesKnown, UiState
<1>3. CASE Closes(result) /\ ui.mode # "VoidTransaction"
  <2>1. FinishClosing(Closing(result), Reduced(result))
    BY <1>3 DEF OperationSucceeds
  <2> QED BY <1>1, <2>1 DEF ModesKnown, UiState, FinishClosing, Closing
<1>4. CASE ~Closes(result)
  <2>1. ui' = UiState(InProgressCount(FALSE), result.logicalState, NextMode(result))
    BY <1>4 DEF OperationSucceeds
  <2>2. NextMode(result) \in {ui.mode, "Unset", "WaitingToClose"}
    BY DEF NextMode
  <2> QED BY <1>1, <2>1, <2>2 DEF ModesKnown, UiState
<1> QED BY <1>2, <1>3, <1>4

\* The closings that wait for the delay lead to a state that is known.
ClosingsKnown == \A i \in 1 .. Len(delayed) : delayed[i].logicalState # "Undefined"

LEMMA ModesInductive ==
  TypeOK /\ ModesKnown /\ ClosingsKnown /\ [Next]_vars => ModesKnown' /\ ClosingsKnown'
<1> SUFFICES ASSUME TypeOK, ModesKnown, ClosingsKnown, [Next]_vars
             PROVE  ModesKnown' /\ ClosingsKnown'
  OBVIOUS
<1>0. ASSUME UNCHANGED delayed, ui'.mode = ui.mode, ui'.logicalState = ui.logicalState
      PROVE  ModesKnown' /\ ClosingsKnown'
  BY <1>0 DEF ModesKnown, ClosingsKnown
<1>1. ASSUME NEW op, Begin(op) PROVE ui'.mode = ui.mode /\ ui'.logicalState = ui.logicalState
  BY <1>1 DEF Begin, TypeOK
<1>2. ASSUME NEW op \in Ops, RequestOperation(op) PROVE ModesKnown' /\ ClosingsKnown'
  BY <1>0, <1>1, <1>2 DEF RequestOperation
<1>3. ASSUME NEW mode \in OperatorModes, SetMode(mode) PROVE ModesKnown' /\ ClosingsKnown'
  BY <1>3 DEF SetMode, Started, UiState, ModesKnown, ClosingsKnown
<1>4. ASSUME ChooseReceipt PROVE ModesKnown' /\ ClosingsKnown'
  BY <1>0, <1>4 DEF ChooseReceipt
<1>5. ASSUME NEW op \in pending, OperationFails(op) PROVE ModesKnown' /\ ClosingsKnown'
  <2>1. /\ ui'.logicalState = ui.logicalState
        /\ ui'.mode = IF ui.logicalState = "Undefined" THEN "FatalError" ELSE ui.mode
    BY <1>5 DEF OperationFails, AfterFailure, TypeOK
  <2> QED BY <1>5, <2>1 DEF OperationFails, ModesKnown, ClosingsKnown
<1>6. ASSUME NEW op \in pending, NEW result \in EngineResults(engine), OperationSucceeds(op, result)
      PROVE  ModesKnown' /\ ClosingsKnown'
  <2>1. result.logicalState # "Undefined"
    BY ResultFacts DEF TypeOK, Results, EngineStates, TransactionStates
  <2>2. delayed \in Seq(Closings)
    BY DEF TypeOK
  <2>3. ClosingsKnown'
    <3>1. CASE UNCHANGED delayed
      BY <3>1 DEF ClosingsKnown
    <3>2. CASE delayed' = Append(delayed, Closing(result))
      <4>1. Closing(result).logicalState # "Undefined"
        BY <2>1 DEF Closing
      <4>2. ASSUME NEW i \in 1 .. Len(delayed') PROVE delayed'[i].logicalState # "Undefined"
        <5>1. CASE i \in 1 .. Len(delayed)
          BY <2>2, <3>2, <5>1 DEF ClosingsKnown
        <5>2. CASE i = Len(delayed) + 1
          BY <2>2, <3>2, <4>1, <5>2
        <5> QED BY <2>2, <3>2, <4>2, <5>1, <5>2
      <4> QED BY <4>2 DEF ClosingsKnown
    <3> QED BY <1>6, <3>1, <3>2 DEF OperationSucceeds
  <2> QED BY <1>6, <2>3, SuccessModes
<1>7. ASSUME DelayEnds PROVE ModesKnown' /\ ClosingsKnown'
  <2>1. delayed \in Seq(Closings) /\ delayed # <<>> /\ delayed' = Tail(delayed)
    BY <1>7 DEF DelayEnds, TypeOK
  <2>2. Head(delayed) = delayed[1] /\ 1 \in 1 .. Len(delayed)
    BY <2>1
  <2>3. Head(delayed).logicalState # "Undefined"
    BY <2>2 DEF ClosingsKnown
  <2>4. ModesKnown'
    BY <1>7, <2>3 DEF DelayEnds, FinishClosing, UiState, ModesKnown
  <2> QED BY <2>1, <2>4 DEF ClosingsKnown
<1>8. ASSUME NEW source \in Sources, NEW entry \in ScanEntries, DataEvent(source, entry)
      PROVE  ModesKnown' /\ ClosingsKnown'
  <2>1. \/ \E op \in Ops : Begin(op)
        \/ \E reply : ui' = Notified(source, reply)
        \/ UNCHANGED ui
    BY <1>8 DEF DataEvent
  <2>2. ASSUME NEW reply, ui' = Notified(source, reply)
        PROVE  ui'.mode = ui.mode /\ ui'.logicalState = ui.logicalState
    BY <2>2 DEF Notified, TypeOK
  <2>3. UNCHANGED delayed
    BY <1>8 DEF DataEvent
  <2> QED BY <1>0, <1>1, <2>1, <2>2, <2>3
<1>9. ASSUME UNCHANGED vars PROVE ModesKnown' /\ ClosingsKnown'
  BY <1>0, <1>9 DEF vars
<1> QED BY <1>2, <1>3, <1>4, <1>5, <1>6, <1>7, <1>8, <1>9 DEF Next, Halted, Answer

\* Only in the transaction history does a scan or the keyboard wedge tell of a
\* business operation that is not requested.
LEMMA StartedByRequest ==
  ASSUME NEW source \in {"ScanData", "KeyListenerData"}, NEW logicalState, NEW mode,
         mode # "TransactionHistory", NEW scannable \in BOOLEAN, NEW entry,
         NEW outcome \in ResolveDataEvent(source, logicalState, mode, scannable, entry),
         ~outcome.request
  PROVE  outcome.reply # "started"
<1> DEFINE uiMode == DetermineUiMode(logicalState, mode)
<1>1. uiMode # "TransactionHistory"
  BY DEF DetermineUiMode, LocalModes, SilentModes, SearchModes, InquiryModes
<1> HIDE DEF uiMode
<1>2. \A reply \in {"failure", "processed", "none", "throws"} :
        Answers(reply).reply # "started" /\ Starts.request
  BY DEF Answers, Starts
<1>3. \A o \in HandleReturnWithTransaction(entry) \cup HandleCustomerSearch(entry) \cup IfIdentified(entry)
              \cup NormalScan(mode, entry) : ~o.request => o.reply # "started"
  <2>1. \A o \in HandleReturnWithTransaction(entry) : o.reply # "started"
    BY <1>2 DEF HandleReturnWithTransaction
  <2> QED BY <1>2, <2>1 DEF HandleCustomerSearch, IfIdentified, NormalScan
<1>4. \A o \in CommonHandling(uiMode, entry) : ~o.request => o.reply # "started"
  BY <1>2, <1>3 DEF CommonHandling, SearchModes, SilentModes
<1>5. CASE source = "ScanData"
  <2>1. outcome \in HandleScannedData(uiMode, mode, entry)
    BY <1>5 DEF ResolveDataEvent, uiMode
  <2> QED BY <1>1, <1>2, <1>3, <1>4, <2>1 DEF HandleScannedData, InquiryModes
<1>6. CASE source = "KeyListenerData"
  <2>1. outcome \in HandleKeyListenerData(uiMode, mode, scannable, entry)
    BY <1>6 DEF ResolveDataEvent, uiMode
  <2> QED BY <1>1, <1>2, <1>3, <1>4, <2>1 DEF HandleKeyListenerData, InquiryModes
<1> QED BY <1>5, <1>6

\* An end of an operation, or of a closing, sets the scanner by the state it
\* leads to.
LEMMA SetByGate ==
  ASSUME NEW count, NEW logicalState, NEW mode, ui' = UiState(count, logicalState, mode),
         business'.inProgressCount = count
  PROVE  ScannerNotStuck'
BY DEF UiState, ScannerNotStuck

LEMMA AnswerRecovers ==
  ASSUME TypeOK, ModesKnown, ScannerNotStuck, Answer
  PROVE  ScannerNotStuck'
<1>1. PICK op \in pending : \/ OperationFails(op)
                            \/ \E result \in EngineResults(engine) : OperationSucceeds(op, result)
  BY DEF Answer
<1>2. CASE OperationFails(op)
  <2>1. /\ ui'.scannerEnabled = Gate(InProgressCount(FALSE), ui.logicalState, ui.mode)
        /\ ui'.logicalState = ui.logicalState
        /\ ui'.mode = IF ui.logicalState = "Undefined" THEN "FatalError" ELSE ui.mode
        /\ business'.inProgressCount = InProgressCount(FALSE)
    BY <1>2 DEF OperationFails, AfterFailure, TypeOK
  <2>2. ui.logicalState = "Undefined" => ui.mode \notin DisabledModes
    BY DEF ModesKnown, DisabledModes
  <2> QED BY <2>1, <2>2 DEF ScannerNotStuck, Gate, ScannerAllowed
<1>3. ASSUME NEW result \in EngineResults(engine), OperationSucceeds(op, result)
      PROVE  ScannerNotStuck'
  <2>1. result \in Results
    BY ResultFacts DEF TypeOK
  <2>2. /\ Reduced(result) \in BusinessStates
        /\ Reduced(result).inProgressCount = InProgressCount(FALSE)
    BY <2>1, CountType DEF Reduced, BusinessStates, Results, TypeOK
  <2>3. CASE FinishClosing(Closing(result), Reduced(result))
    <3>1. business'.inProgressCount = Reduced(result).inProgressCount
      BY <2>2, <2>3 DEF FinishClosing, ClearDisplay, BusinessStates
    <3> QED BY <2>3, <3>1, SetByGate DEF FinishClosing
  <2>4. ASSUME NEW logicalState, NEW mode, business' = Reduced(result),
               ui' = UiState(InProgressCount(FALSE), logicalState, mode)
        PROVE  ScannerNotStuck'
    BY <2>2, <2>4, SetByGate
  <2> QED BY <1>3, <2>3, <2>4 DEF OperationSucceeds
<1> QED BY <1>1, <1>2, <1>3

LEMMA RecoversInductive ==
  ASSUME "TransactionHistory" \notin OperatorModes
  PROVE  TypeOK /\ InProgressCounts /\ ModesKnown /\ ScannerNotStuck /\ [Next]_vars => ScannerNotStuck'
<1> SUFFICES ASSUME TypeOK, InProgressCounts, ModesKnown, ScannerNotStuck, [Next]_vars
             PROVE  ScannerNotStuck'
  OBVIOUS
<1>0. ASSUME NEW op, Begin(op) PROVE ScannerNotStuck'
  <2>1. business'.inProgressCount # 0
    BY <1>0 DEF Begin, InProgressCount, TypeOK
  <2> QED BY <2>1 DEF ScannerNotStuck, Gate
<1>1. ASSUME NEW op \in Ops, RequestOperation(op) PROVE ScannerNotStuck'
  BY <1>0, <1>1 DEF RequestOperation
<1>2. ASSUME NEW mode \in OperatorModes, SetMode(mode) PROVE ScannerNotStuck'
  BY <1>2, SetByGate DEF SetMode
<1>3. ASSUME UNCHANGED <<business, ui>> PROVE ScannerNotStuck'
  BY <1>3 DEF ScannerNotStuck, Gate
<1>4. ASSUME Answer PROVE ScannerNotStuck'
  BY <1>4, AnswerRecovers
<1>5. ASSUME DelayEnds PROVE ScannerNotStuck'
  <2>1. business'.inProgressCount = business.inProgressCount
    BY <1>5 DEF DelayEnds, FinishClosing, ClearDisplay, TypeOK
  <2> QED BY <1>5, <2>1, SetByGate DEF DelayEnds, FinishClosing
<1>6. ASSUME NEW source \in Sources, NEW entry \in ScanEntries, DataEvent(source, entry)
      PROVE  ScannerNotStuck'
  <2>1. CASE business.display = "undefined"
    BY <1>3, <1>6, <2>1 DEF DataEvent
  <2>2. CASE business.display # "undefined"
    <3>1. PICK outcome \in ResolveDataEvent(source, ui.logicalState, ui.mode, ui.scannerEnabled, entry) :
                  \/ outcome.request /\ \E op \in Ops : Begin(op)
                  \/ /\ ~outcome.request
                     /\ ui' = Notified(source, outcome.reply)
                     /\ UNCHANGED <<pending, business>>
      BY <1>6, <2>2 DEF DataEvent
    <3>2. CASE \E op \in Ops : Begin(op)
      BY <1>0, <3>2
    <3>3. CASE ~outcome.request /\ ui' = Notified(source, outcome.reply) /\ UNCHANGED business
      <4>1. CASE ui' = ui
        BY <1>3, <3>3, <4>1
      <4>2. CASE ui' # ui
        <5>1. /\ source \in {"ScanData", "KeyListenerData"}
              /\ ui' = [ui EXCEPT !.scannerEnabled = outcome.reply # "started" /\
                          Gate(business.inProgressCount, ui.logicalState, ui.mode)]
          BY <3>3, <4>2 DEF Notified
        <5>2. ui.mode # "TransactionHistory" /\ ui.scannerEnabled \in BOOLEAN
          BY DEF ModesKnown, TypeOK
        <5>3. outcome.reply # "started"
          BY <3>3, <5>1, <5>2, StartedByRequest
        <5> QED BY <3>3, <5>1, <5>3 DEF ScannerNotStuck, TypeOK
      <4> QED BY <4>1, <4>2
    <3> QED BY <3>1, <3>2, <3>3
  <2> QED BY <2>1, <2>2
<1> QED BY <1>1, <1>2, <1>3, <1>4, <1>5, <1>6 DEF Next, Halted, ChooseReceipt, vars

LEMMA ModesInitial == Init => ModesKnown /\ ClosingsKnown
BY DEF Init, ModesKnown, ClosingsKnown

\* Where the transaction history is not offered, an idle register in a state
\* and mode that allow it has its scanner on, in every interleaving: whatever
\* disables the scanner has started what will enable it again, and nothing
\* but the scan in that mode (sagas/resolveDataEvent.ts) tells of an operation
\* that it does not start.
THEOREM ScannerRecovers ==
  "TransactionHistory" \notin OperatorModes => (Spec => []ScannerNotStuck)
<1> SUFFICES ASSUME "TransactionHistory" \notin OperatorModes PROVE Spec => []ScannerNotStuck
  OBVIOUS
<1>1. Init => ScannerNotStuck
  BY DEF Init, ScannerNotStuck
<1>2. TypeOK /\ InProgressCounts /\ ModesKnown /\ ScannerNotStuck /\ [Next]_vars => ScannerNotStuck'
  BY RecoversInductive
<1>3. Init => InProgressCounts
  BY FS_EmptySet DEF Init, InProgressCounts
<1> QED BY <1>1, <1>2, <1>3, ModesInitial, ModesInductive, TypeInitial, TypeInductive, CountsInductive,
           PTL DEF Spec

-----------------------------------------------------------------------------
(* The screens follow the register.                                        *)

\* An answer moves the screens with the register; only that of a void leaves
\* them, and takes the register out of its transaction.
LEMMA SuccessFollows ==
  ASSUME TypeOK, ModesKnown, NEW op \in pending, NEW result \in EngineResults(engine),
         OperationSucceeds(op, result)
  PROVE  /\ engine'.logicalState \in EngineStates
         /\ \/ ui'.logicalState = engine'.logicalState /\ lapped' = FALSE
            \/ /\ ui'.logicalState = ui.logicalState /\ ui.logicalState # "Undefined"
               /\ lapped' = lapped /\ engine'.logicalState \notin TransactionStates
<1>1. engine'.logicalState = result.logicalState /\ result.logicalState \in EngineStates
  BY ResultFacts DEF TypeOK, Results, OperationSucceeds
<1>2. Closes(result) => result.logicalState \notin TransactionStates
  BY ResultFacts DEF TypeOK, Closes
<1>3. CASE Closes(result) /\ ui.mode = "VoidTransaction"
  BY <1>1, <1>2, <1>3 DEF OperationSucceeds, UiState, ModesKnown
<1>4. CASE FinishClosing(Closing(result), Reduced(result)) /\ lapped' = FALSE
  BY <1>1, <1>4 DEF FinishClosing, UiState, Closing
<1>5. CASE /\ ui' = UiState(InProgressCount(FALSE), result.logicalState, NextMode(result))
           /\ lapped' = FALSE
  BY <1>1, <1>5 DEF UiState
<1> QED BY <1>3, <1>4, <1>5 DEF OperationSucceeds

\* The end of a delay moves the screens to a state of the register: to the one
\* it is in, or to one that is out of date.
LEMMA DelayFollows ==
  ASSUME TypeOK, DelayEnds
  PROVE  /\ engine' = engine /\ ui'.logicalState \in EngineStates /\ ~halted /\ ~halted'
         /\ lapped' = (ui'.logicalState # engine.logicalState)
<1>1. Head(delayed) \in Closings
  BY DEF DelayEnds, TypeOK
<1>2. ui'.logicalState = Head(delayed).logicalState
  BY DEF DelayEnds, FinishClosing, UiState
<1> QED BY <1>1, <1>2 DEF DelayEnds, TypeOK, Closings

\* Every other step leaves register and screens where they are, and at most
\* takes the sagas down.
LEMMA OthersFollow ==
  ASSUME TypeOK, [Next]_vars
  PROVE  \/ \E op \in pending, result \in EngineResults(engine) : OperationSucceeds(op, result)
         \/ DelayEnds
         \/ /\ UNCHANGED <<engine, lapped>> /\ ui'.logicalState = ui.logicalState
            /\ halted => halted'
<1>1. ASSUME NEW op, Begin(op) PROVE ui'.logicalState = ui.logicalState
  BY <1>1 DEF Begin, TypeOK
<1>2. ASSUME NEW source, NEW reply, ui' = Notified(source, reply)
      PROVE  ui'.logicalState = ui.logicalState
  BY <1>2 DEF Notified, TypeOK
<1>3. ASSUME NEW source \in Sources, NEW entry \in ScanEntries, DataEvent(source, entry)
      PROVE  /\ UNCHANGED <<engine, lapped>> /\ ui'.logicalState = ui.logicalState
             /\ ~halted
  <2>1. \/ \E op \in Ops : Begin(op)
        \/ \E reply : ui' = Notified(source, reply)
        \/ UNCHANGED ui
    BY <1>3 DEF DataEvent
  <2> QED BY <1>1, <1>2, <1>3, <2>1 DEF DataEvent
<1>4. ASSUME NEW op, OperationFails(op)
      PROVE  UNCHANGED <<engine, lapped, halted>> /\ ui'.logicalState = ui.logicalState
  BY <1>4 DEF OperationFails, AfterFailure, TypeOK
<1>5. ASSUME NEW op, RequestOperation(op)
      PROVE  UNCHANGED <<engine, lapped, halted>> /\ ui'.logicalState = ui.logicalState
  BY <1>1, <1>5 DEF RequestOperation
<1>6. ASSUME NEW mode, SetMode(mode)
      PROVE  UNCHANGED <<engine, lapped, halted>> /\ ui'.logicalState = ui.logicalState
  BY <1>6 DEF SetMode, UiState
<1> QED BY <1>3, <1>4, <1>5, <1>6 DEF Next, Answer, ChooseReceipt, Halted, vars

LEMMA FreshInductive == TypeOK /\ ModesKnown /\ OpenTransactionFresh /\ [Next]_vars => OpenTransactionFresh'
<1> SUFFICES ASSUME TypeOK, ModesKnown, OpenTransactionFresh, [Next]_vars PROVE OpenTransactionFresh'
  OBVIOUS
<1>1. ASSUME NEW op \in pending, NEW result \in EngineResults(engine), OperationSucceeds(op, result)
      PROVE  OpenTransactionFresh'
  BY <1>1, SuccessFollows DEF OpenTransactionFresh
<1>2. CASE DelayEnds
  BY <1>2, DelayFollows DEF OpenTransactionFresh
<1> QED BY <1>1, <1>2, OthersFollow DEF OpenTransactionFresh

\* However operations overlap with each other and with the delayed result of
\* a void, the screens of an open transaction show its logical state, unless
\* the last thing put on them is the result of a void that the register has
\* left behind (sagas/businessState.ts).
THEOREM OpenTransactionFollowed == Spec => []OpenTransactionFresh
<1>1. Init => OpenTransactionFresh
  BY DEF Init, OpenTransactionFresh, TransactionStates
<1> QED BY <1>1, FreshInductive, ModesInitial, ModesInductive, TypeInitial, TypeInductive, PTL DEF Spec

LEMMA RegisterStep == TypeOK /\ ModesKnown /\ [Next]_vars => [R!Next]_(R!register)
<1> SUFFICES ASSUME TypeOK, ModesKnown, [Next]_vars PROVE [R!Next]_(R!register)
  OBVIOUS
<1>1. ASSUME NEW op \in pending, NEW result \in EngineResults(engine), OperationSucceeds(op, result)
      PROVE  R!Next
  <2>1. ~halted /\ ~halted'
    BY <1>1 DEF OperationSucceeds
  <2>2. CASE ui'.logicalState = engine'.logicalState /\ lapped' = FALSE
    <3>1. (lapped \/ halted)' = FALSE
      BY <2>1, <2>2
    <3> QED BY <1>1, <2>2, <3>1, SuccessFollows DEF R!Next, R!Move
  <2>3. CASE /\ ui'.logicalState = ui.logicalState /\ ui.logicalState # "Undefined"
             /\ lapped' = lapped
    <3>1. (lapped \/ halted)' = (lapped \/ halted)
      BY <2>1, <2>3
    <3> QED BY <1>1, <2>3, <3>1, SuccessFollows DEF R!Next, R!Lead
  <2> QED BY <1>1, <2>2, <2>3, SuccessFollows
<1>2. ASSUME DelayEnds PROVE R!Next
  BY <1>2, DelayFollows DEF R!Next, R!Follow, R!Stray
<1>3. ASSUME UNCHANGED <<engine, lapped>>, ui'.logicalState = ui.logicalState, halted => halted'
      PROVE  [R!Next]_(R!register)
  <2>1. CASE halted' = halted
    BY <1>3, <2>1 DEF R!register
  <2>2. CASE halted' # halted
    <3>1. halted' = TRUE
      BY <1>3, <2>2, TypeInductive DEF TypeOK
    <3>2. (lapped \/ halted)' = TRUE
      BY <3>1
    <3> QED BY <1>3, <3>2 DEF R!Next, R!Stray
  <2> QED BY <2>1, <2>2
<1> QED BY <1>1, <1>2, <1>3, OthersFollow

\* The session implements the register and its screens, step by step, under
\* every interleaving: every step is one of the register's, or none.
THEOREM ImplementsRegister == Spec => R!Init /\ [][R!Next]_(R!register)
<1>1. Init => R!Init
  BY DEF Init, R!Init, EngineStates
<1> QED BY <1>1, RegisterStep, ModesInitial, ModesInductive, TypeInitial, TypeInductive, PTL DEF Spec

-----------------------------------------------------------------------------
(* The receipt options.                                                    *)

LEMMA OptionsStep ==
  TypeOK /\ ShownInv /\ [Next]_vars =>
    (receipt = engine.number /\ {engine.logicalState, engine'.logicalState} \subseteq TransactionStates
       => receipt' = receipt \/ ClearsLate)
<1> SUFFICES ASSUME TypeOK, ShownInv, [Next]_vars, receipt = engine.number,
                    engine.logicalState \in TransactionStates, engine'.logicalState \in TransactionStates
             PROVE  receipt' = receipt \/ ClearsLate
  OBVIOUS
<1>1. CASE ChooseReceipt
  BY <1>1 DEF ChooseReceipt, ShownInv, OpenTransactionShown
<1>2. ASSUME NEW op \in pending, NEW result \in EngineResults(engine), OperationSucceeds(op, result)
      PROVE  receipt' = receipt
  <2>1. ~Closes(result)
    BY <1>2, ResultFacts DEF TypeOK, Closes, OperationSucceeds
  <2> QED BY <1>2, <2>1 DEF OperationSucceeds
<1>3. CASE DelayEnds
  <2>1. delayed \in Seq(Closings) /\ delayed # <<>> /\ delayed' = Tail(delayed)
    BY <1>3 DEF DelayEnds, TypeOK
  <2>2. Head(delayed) = delayed[1] /\ 1 \in 1 .. Len(delayed)
    BY <2>1
  <2> QED BY <2>1, <2>2 DEF ShownInv, ClosedBefore, ClearsLate
<1> QED BY <1>1, <1>2, <1>3 DEF Next, Halted, Answer, RequestOperation, SetMode, OperationFails,
           DataEvent, vars

\* The receipt options chosen for the transaction that is open stay until it
\* is closed; what takes them away before is the late clearing of a voided
\* transaction that came before it, and nothing else (reducers/receipt.ts).
THEOREM ReceiptOptionsStay == Spec => ReceiptOptionsKept
<1>1. Init => ShownInv
  BY DEF Init, ShownInv, ClosedBefore, OpenTransactionShown, TransactionStates
<1>2. TypeOK /\ ShownInv /\ [Next]_vars =>
        [receipt = engine.number /\ {engine.logicalState, engine'.logicalState} \subseteq TransactionStates
              => receipt' = receipt \/ ClearsLate]_vars
  BY OptionsStep
<1> QED BY <1>1, <1>2, TypeInitial, TypeInductive, ShownInductive, PTL
           DEF Spec, ReceiptOptionsKept
=============================================================================
