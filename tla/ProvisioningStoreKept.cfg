SPECIFICATION Spec
CONSTANTS
  Runs = 1
  Domains = {d1}
  Stores = {s1, s2}
  Devices = {t1}
  LastKey = 1
  Combined = {{}, {"failure"}}
  Leaving = FALSE
  None = None
INVARIANTS MasterAlwaysOfStore
