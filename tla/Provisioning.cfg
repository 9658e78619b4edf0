SPECIFICATION FairSpec
CONSTANTS
  Runs = 2
  Domains = {d1, d2}
  Stores = {s1, s2}
  Devices = {t1}
  LastKey = 2
  Combined = {{}, {"failure"}, {"interruption"}, {"failure", "interruption"}, {"overlap"}}
  Leaving = TRUE
  None = None
INVARIANTS CredentialsBeforeReady SameTerminal SameTenant MasterReadable MasterFollowsStore ResetHonoured
PROPERTIES Answered
