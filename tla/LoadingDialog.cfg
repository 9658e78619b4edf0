CONSTANTS
  None = None
  LastCall = 0
  MaxOperations = 2
  MaxEnds = 2
SPECIFICATION DialogSpec
INVARIANTS LoadingShown NotBlocked
PROPERTIES MessageStays Rests
\* An exception of the middleware stops the application.
CHECK_DEADLOCK FALSE
