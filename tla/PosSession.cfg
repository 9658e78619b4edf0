CONSTANTS
  op1 = op1
  op2 = op2
  Ops <- MCOps
  OperatorModes <- AllScreens
  ScanEntries <- Entries
  MaxNumber = 2
  Unattended = TRUE
SPECIFICATION Spec
INVARIANTS InProgressCounts ScannerSafe ScannerNotStuck OpenTransactionShown OpenTransactionFresh
PROPERTIES ReceiptOptionsKept Unblocked FollowsRegister
