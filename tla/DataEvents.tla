----------------------------- MODULE DataEvents -----------------------------
(***************************************************************************)
(* What the data event saga (src/sagas/resolveDataEvent.ts) decides for a  *)
(* scan, a keyboard wedge entry, a keyed entry, a line void or a payment:  *)
(* whether a business operation is requested, and which notification       *)
(* follows.  The notification matters: src/sagas/deviceNotification.ts     *)
(* sets the scanner by it.                                                 *)
(*                                                                         *)
(* Modes and logical states bear the names of src/reducers/uiState.ts and  *)
(* of the store selling component, without their UI_MODE_ prefix.          *)
(***************************************************************************)
EXTENDS Naturals

CONSTANT Unattended  \* UserSession.unattended: a self checkout session?

ASSUME UnattendedAssumption == Unattended \in BOOLEAN

\* "Unset" is the mode undefined, "Undefined" the logical state undefined.
LogicalStates == {"Undefined", "NotInTransaction", "TerminalClosed", "InMerchandise",
                  "InMerchandiseWaiting", "WaitingToClose", "ReadyToClose",
                  "InFiscalControl", "InTillControl", "InNoSale"}

SellingStates == {"NotInTransaction", "InMerchandise", "WaitingToClose", "InMerchandiseWaiting"}

SilentModes == {"BalanceInquiry", "GiftCardIssue", "GiftCertificateIssue", "WaitingForInput",
                "ReceiptPrinterChoice"}

SearchModes == {"TillOperation", "PaidOperation", "SearchSuspendedTransactions"}

InquiryModes == {"ProductInquiry", "OrderReferenceInquiry"}

\* The modes that have a local mode of their own.
LocalModes == SilentModes \cup SearchModes \cup InquiryModes \cup
  {"Tendering", "TransactionHistory", "AssignMember", "SearchPostVoidable",
   "ReturnTransactionSearch", "CustomerSearch", "ValueCertificateSearch"}

DetermineUiMode(logicalState, mode) ==
  IF logicalState \in SellingStates
    THEN IF mode \in LocalModes THEN mode
         ELSE IF mode \in {"ChangePassword", "StoreOperation", "InformationTerminal"}
           THEN "Unrecognized" ELSE "Normal"
    ELSE IF logicalState \in {"InTillControl", "InNoSale"} /\ mode = "ReceiptPrinterChoice"
           THEN mode ELSE "Unrecognized"

\* What the data entry discriminator makes of the data; it throws on a code
\* it cannot identify.
Entries == {"Item", "Coupon", "Customer", "Transaction", "Unidentified"}

\* The notification: "started" and "processed" are dataEvent.success with
\* businessProcessStarted true and false, "throws" is an exception that
\* leaves the saga.
Replies == {"started", "processed", "failure", "none", "throws"}

Outcomes == [request : BOOLEAN, reply : Replies]

Starts == [request |-> TRUE, reply |-> "started"]
Answers(reply) == [request |-> FALSE, reply |-> reply]

\* The return screen records an item of the original transaction, or refuses it.
HandleReturnWithTransaction(entry) ==
  {Answers("failure")} \cup {Answers(IF entry = "Item" THEN "processed" ELSE "none")}

\* The search identifies the code outside of any try block.
HandleCustomerSearch(entry) ==
  {IF entry = "Unidentified" THEN Answers("throws") ELSE Starts}

\* try { request } catch { failure }, around a code that is to be identified.
IfIdentified(entry) == {IF entry = "Unidentified" THEN Answers("failure") ELSE Starts}

\* LOCAL_UI_MODE_NORMAL of a scan and of the keyboard wedge.
NormalScan(mode, entry) ==
  CASE entry = "Unidentified" \/ (entry = "Customer" /\ Unattended) -> {Answers("failure")}
    [] entry = "Transaction" -> {Answers("processed")}
    [] OTHER -> IF mode = "ReturnWithTransaction"
                  THEN HandleReturnWithTransaction(entry) ELSE {Starts}

\* Mutant: the searches are taken for business operations.
CommonHandling_SearchStarts(uiMode, entry) ==
  CASE uiMode = "ReturnTransactionSearch" -> IfIdentified(entry)
    [] uiMode \in {"ValueCertificateSearch", "SearchPostVoidable"} -> {Starts}
    [] uiMode \in SearchModes -> {Answers("started")}
    [] uiMode \in SilentModes -> {Answers("none")}
    [] OTHER -> {Answers("failure")}

\* The modes in which the three handlers of an entry agree.
CommonHandling(uiMode, entry) ==
  CASE uiMode = "ReturnTransactionSearch" -> IfIdentified(entry)
    [] uiMode \in {"ValueCertificateSearch", "SearchPostVoidable"} -> {Starts}
    [] uiMode \in SearchModes -> {Answers("processed")}
    [] uiMode \in SilentModes -> {Answers("none")}
    [] OTHER -> {Answers("failure")}

HandleScannedData(uiMode, mode, entry) ==
  CASE uiMode = "Normal"             -> NormalScan(mode, entry)
    [] uiMode = "CustomerSearch"     -> HandleCustomerSearch(entry)
    [] uiMode = "TransactionHistory" -> {Answers("started")}
    [] uiMode \in InquiryModes       -> {[request |-> TRUE, reply |-> "processed"]}
    [] uiMode = "AssignMember"       -> IfIdentified(entry)
    [] OTHER                         -> CommonHandling(uiMode, entry)

HandleKeyListenerData(uiMode, mode, isScannable, entry) ==
  IF ~isScannable THEN {Answers("failure")}
  ELSE CASE uiMode = "Normal"             -> NormalScan(mode, entry)
         [] uiMode = "CustomerSearch"     -> HandleCustomerSearch(entry)
         [] uiMode = "TransactionHistory" -> {Answers("processed")}
         [] uiMode \in InquiryModes \cup {"BalanceInquiry"} -> {Starts}
         [] uiMode = "AssignMember"       -> IfIdentified(entry)
         [] OTHER                         -> CommonHandling(uiMode, entry)

\* Keyed data asks for the return screen before it looks at the entry, and
\* never for an unattended session.
HandleKeyedData(uiMode, mode, entry) ==
  CASE uiMode = "Normal" ->
         IF entry = "Unidentified" THEN {Answers("failure")}
         ELSE IF mode = "ReturnWithTransaction" THEN HandleReturnWithTransaction(entry)
         ELSE IF entry = "Transaction" THEN {Answers("processed")} ELSE {Starts}
    [] uiMode = "TransactionHistory" -> {Answers("started")}
    [] uiMode \in {"Tendering", "ProductInquiry", "AssignMember"} -> {Starts}
    [] OTHER -> CommonHandling(uiMode, entry)

\* A payment device's answer always becomes a business operation; of the
\* user interface's own events only the void of a line does.
HandlePaymentData == {Starts}
HandleUIData == {Starts, Answers("failure")}

Sources == {"ScanData", "KeyedData", "IUIData", "PaymentData", "KeyListenerData"}

\* resolveDataEvent, for a register in logicalState and mode.
ResolveDataEvent(source, logicalState, mode, isScannable, entry) ==
  LET uiMode == DetermineUiMode(logicalState, mode) IN
  CASE source = "ScanData"        -> HandleScannedData(uiMode, mode, entry)
    [] source = "KeyedData"       -> HandleKeyedData(uiMode, mode, entry)
    [] source = "IUIData"         -> HandleUIData
    [] source = "PaymentData"     -> HandlePaymentData
    [] source = "KeyListenerData" -> HandleKeyListenerData(uiMode, mode, isScannable, entry)
=============================================================================
