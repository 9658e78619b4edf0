CONSTANTS
  op1 = op1
  op2 = op2
  Ops <- MCOneOp
  OperatorModes <- HistoryScreens
  ScanEntries <- Identified
  MaxNumber = 2
  Unattended = FALSE
SPECIFICATION Spec
INVARIANT ScannerNotStuck
