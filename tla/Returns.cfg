SPECIFICATION Spec
CONSTANTS
  t1 = t1
  t2 = t2
  None = None
  NotANumber = NotANumber
  Transactions = {t1, t2}
  Keys = {"a"}
  Sublines <- MCSublines
  Refundable = {t1}
  TaxFree = {t2}
  Keyed <- MCKeyed
  Configurations <- MCConfigurations
  MaxPending = 2
CHECK_DEADLOCK FALSE
INVARIANTS WithinAvailable SubmittedTogether
PROPERTIES AppliedAsEntered ThrowsOnly
