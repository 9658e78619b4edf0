SPECIFICATION Spec
CONSTANTS
  o1 = o1
  o2 = o2
  References = {o1, o2}
  Lines <- MCLines
  Manageable = {o1, o2}
  Undefined = Undefined
  Empty = Empty
  NotANumber = NotANumber
  Keyed = {0, 1, 3}
  MaxPending = 3
CHECK_DEADLOCK FALSE
INVARIANTS SelectionFits SubmittedFits BusyOnly ThrowsOnly
