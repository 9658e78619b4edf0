------------------------ MODULE ProvisioningProofs -------------------------
(***************************************************************************)
(* Provisioning keeps its types, and a terminal that is ready has its      *)
(* credentials, for any number of runs, tenants and terminals, whatever    *)
(* fails and whenever the process ends.  As long as runs do not overlap,   *)
(* what is persisted fits the run under way, so that a terminal's and a    *)
(* tenant's settings are of one, the database is of the terminal's key,    *)
(* and of its store unless it is misjudged, and a reset that is reported   *)
(* has happened.                                                           *)
(***************************************************************************)
EXTENDS Provisioning, TLAPS

\* A run that provisions or starts a terminal knows which.
Knowing == {"registerClient", "storeTerminal", "storeKey", "lastValues", "download", "install",
            "authenticate", "bind", "configure", "afterReady", "dispatchTasks", "reset",
               "resetBind"}

Identified == \A s \in Sagas : saga[s].step \in Knowing => saga[s].deviceIdentity # None

TypeInv == TypeOK /\ Identified

\* The values that are written are these.
LEMMA KeysWritten ==
  /\ Written(TerminalKeys) = {"deviceIdentity", "transactionNumber", "clientApiCredentials"}
  /\ Written(TenantKeys) = {"domain", "servicesBaseUrl"}
<1>1. DOMAIN TerminalKeys = 1 .. 3 /\ DOMAIN TenantKeys = 1 .. 2
  BY DEF TerminalKeys, TenantKeys
<1> QED
  BY <1>1 DEF Written, TerminalKeys, TenantKeys

\* What a run may be set to.
LEMMA RunTypes ==
  /\ Idle \in RunStates /\ Idle.step \notin Knowing
  /\ \A operation \in Operations, step \in Steps : Run(operation, step) \in RunStates
<1>1. 0 \in Nat /\ 0 \in 0 .. LastKey
  BY ProvisioningAssumption
<1>2. Idle \in RunStates
  BY <1>1, Zenon DEF Idle, RunStates
<1>3. Idle.step \notin Knowing
  BY DEF Idle, Knowing
<1>4. ASSUME NEW operation \in Operations, NEW step \in Steps
      PROVE  Run(operation, step) \in RunStates
  BY <1>2 DEF Run, RunStates
<1> QED
  BY <1>2, <1>3, <1>4

LEMMA SetRun ==
  ASSUME TypeInv, NEW s \in Sagas, NEW run \in RunStates,
         run.step \in Knowing => run.deviceIdentity # None,
         saga' = [saga EXCEPT ![s] = run]
  PROVE  saga' \in [Sagas -> RunStates] /\ Identified'
<1>1. saga' \in [Sagas -> RunStates]
  BY DEF TypeInv, TypeOK
<1>2. ASSUME NEW t \in Sagas PROVE saga'[t] = IF t = s THEN run ELSE saga[t]
  BY DEF TypeInv, TypeOK
<1>3. Identified'
  BY <1>2 DEF TypeInv, Identified
<1> QED
  BY <1>1, <1>3

LEMMA Ended ==
  ASSUME TypeInv, NEW s \in Sagas, End(s)
  PROVE  saga' \in [Sagas -> RunStates] /\ Identified'
BY RunTypes, SetRun DEF End

LEMMA Continued ==
  ASSUME TypeInv, NEW s \in Sagas, NEW step \in Steps, Continue(s, step),
         step \in Knowing => saga[s].deviceIdentity # None
  PROVE  saga' \in [Sagas -> RunStates] /\ Identified'
<1> DEFINE run == [saga[s] EXCEPT !.step = step]
<1>1. saga[s] \in RunStates
  BY DEF TypeInv, TypeOK
<1>2. run \in RunStates /\ run.step = step /\ run.deviceIdentity = saga[s].deviceIdentity
  BY <1>1 DEF RunStates
<1>3. saga' = [saga EXCEPT ![s] = run]
  BY DEF Continue
<1> HIDE DEF run
<1> QED
  BY <1>2, <1>3, SetRun


SettingsTypes == [appStatus : Statuses, inProgress : BOOLEAN,
                  deviceIdentity : DeviceIdentity \cup {None}]

LEMMA SuccessTypes ==
  ASSUME NEW appStatus \in Statuses, NEW deviceIdentity \in DeviceIdentity \cup {None},
         Success(appStatus, deviceIdentity)
  PROVE  settings' \in SettingsTypes
BY DEF Success, SettingsTypes

LEMMA CaughtTypes ==
  ASSUME TypeInv, NEW s \in Sagas, Caught(s)
  PROVE  /\ saga' \in [Sagas -> RunStates] /\ Identified'
         /\ settings' \in SettingsTypes
         /\ fatal' \in BOOLEAN
         /\ resetTask' \in {"none", "taken", "failed", "completed"}
<1>1. saga' \in [Sagas -> RunStates] /\ Identified'
  BY Ended DEF Caught
<1>2. settings' \in SettingsTypes
  BY DEF Caught, TypeInv, TypeOK, SettingsTypes, Statuses
<1>3. fatal' \in BOOLEAN
  BY Zenon DEF Caught, TypeInv, TypeOK
<1>4. resetTask' \in {"none", "taken", "failed", "completed"}
  BY DEF Caught, TypeInv, TypeOK
<1> QED
  BY <1>1, <1>2, <1>3, <1>4

LEMMA FaultTypes ==
  ASSUME TypeInv, NEW kind \in {"overlap", "failure", "interruption"}
  PROVE  /\ Fault(kind) => faults' \subseteq {"overlap", "failure", "interruption"}
         /\ Once(kind) => faults' \subseteq {"overlap", "failure", "interruption"}
BY DEF Fault, Once, TypeInv, TypeOK

LEMMA StartTypes ==
  ASSUME TypeInv, NEW s \in Sagas, NEW run \in RunStates, Start(s, run),
         run.step \in Knowing => run.deviceIdentity # None,
         keyboard' \in BOOLEAN, misjudged' \in BOOLEAN
  PROVE  TypeInv'
<1>1. saga' \in [Sagas -> RunStates] /\ Identified'
  BY SetRun DEF Start
<1>2. settings' \in SettingsTypes
  BY DEF Start, TypeInv, TypeOK, SettingsTypes
<1>3. faults' \subseteq {"overlap", "failure", "interruption"}
  BY FaultTypes DEF Start, TypeInv, TypeOK
<1> QED
  BY <1>1, <1>2, <1>3 DEF Start, TypeInv, TypeOK, SettingsTypes, persisted

\* A database that is made now is one of the store that is known.
LEMMA MasterTypes ==
  ASSUME TypeInv, NEW s \in Sagas, saga[s].step \in Knowing
  PROVE  NewMaster(saga[s].deviceIdentity) \in Masters
<1>1. saga[s].deviceIdentity \in DeviceIdentity
  BY DEF TypeInv, TypeOK, Identified, RunStates
<1>2. saga[s].deviceIdentity.retailLocationId \in Stores
  BY <1>1 DEF DeviceIdentity
<1>3. encryptionKey \in 0 .. LastKey
  BY DEF TypeInv, TypeOK
<1> QED
  BY <1>2, <1>3, Zenon DEF NewMaster, Masters


LEMMA TypesAndIdentity == Spec => []TypeInv
<1> USE DEF SettingsTypes
<1>1. Init => TypeInv
  <2> SUFFICES ASSUME Init PROVE TypeInv
    OBVIOUS
  <2>1. encryptionKey \in 0 .. LastKey /\ lastKey \in 0 .. LastKey
    BY ProvisioningAssumption DEF Init
  <2>2. saga \in [Sagas -> RunStates] /\ Identified
    BY RunTypes DEF Init, Identified
  <2>3. settings \in SettingsTypes
    BY DEF Init, Unloaded, Statuses
  <2> QED
    BY <2>1, <2>2, <2>3 DEF Init, TypeInv, TypeOK
<1>2. ASSUME TypeInv, NEW s \in Sagas, Launch(s) PROVE TypeInv'
  <2> DEFINE run == Run("initAppSettings", "loadSettings")
  <2>1. run \in RunStates /\ run.step \notin Knowing
    BY RunTypes DEF Run, Idle, Operations, Steps, Knowing
  <2>2. Start(s, run) /\ keyboard' \in BOOLEAN /\ misjudged' \in BOOLEAN
    BY <1>2 DEF Launch, TypeInv, TypeOK
  <2> HIDE DEF run
  <2> QED
    BY <1>2, <2>1, <2>2, StartTypes
<1>3. ASSUME TypeInv, NEW s \in Sagas, Cancel(s) PROVE TypeInv'
  <2> DEFINE run == Run("initAppSettings", "loadSettings")
  <2>1. run \in RunStates /\ run.step \notin Knowing
    BY RunTypes DEF Run, Idle, Operations, Steps, Knowing
  <2>2. Start(s, run) /\ keyboard' \in BOOLEAN /\ misjudged' \in BOOLEAN
    BY <1>3 DEF Cancel, TypeInv, TypeOK
  <2> HIDE DEF run
  <2> QED
    BY <1>3, <2>1, <2>2, StartTypes
<1>4. ASSUME TypeInv, NEW s \in Sagas, PrepareChange(s) PROVE TypeInv'
  <2> DEFINE run == Run("prepareTerminalSettingsChange", "configureAdmin")
  <2>1. run \in RunStates /\ run.step \notin Knowing
    BY RunTypes DEF Run, Idle, Operations, Steps, Knowing
  <2>2. Start(s, run) /\ keyboard' \in BOOLEAN /\ misjudged' \in BOOLEAN
    BY <1>4 DEF PrepareChange, TypeInv, TypeOK
  <2> HIDE DEF run
  <2> QED
    BY <1>4, <2>1, <2>2, StartTypes
<1>5. ASSUME TypeInv, NEW s \in Sagas, NEW domain \in Domains, SelectDomain(s,
   domain) PROVE TypeInv'
  <2> DEFINE run == [Run("setTenantSettings", "discoverTenant") EXCEPT !.domain = domain]
  <2>1. Run("setTenantSettings", "discoverTenant") \in RunStates
    BY RunTypes DEF Operations, Steps
  <2>2. run \in RunStates
    BY <2>1 DEF RunStates
  <2>3. run.step \notin Knowing
    BY DEF Run, Idle, Knowing
  <2>4. Start(s, run) /\ keyboard' \in BOOLEAN /\ misjudged' \in BOOLEAN
    BY <1>5 DEF SelectDomain, TypeInv, TypeOK
  <2> HIDE DEF run
  <2> QED
    BY <1>5, <2>2, <2>3, <2>4, StartTypes
<1>6. ASSUME TypeInv, SearchNumber PROVE TypeInv'
  BY <1>6 DEF SearchNumber, TypeInv, TypeOK, Identified, persisted
<1>7. ASSUME TypeInv, NumberAnswered PROVE TypeInv'
  BY <1>7 DEF NumberAnswered, TypeInv, TypeOK, Identified, persisted
<1>8. ASSUME TypeInv, NEW s \in Sagas, NEW deviceIdentity \in DeviceIdentity, SaveTerminal(s,
   deviceIdentity) PROVE TypeInv'
  <2> DEFINE first == Run("setTerminalSettings", "registerClient")
             run == [first EXCEPT !.deviceIdentity = deviceIdentity,
                                  !.storeChanged = StoreChanged(deviceIdentity)]
  <2>1. first \in RunStates
    BY RunTypes DEF Operations, Steps
  <2>2. StoreChanged(deviceIdentity) \in BOOLEAN
    BY DEF StoreChanged
  <2>3. run \in RunStates /\ run.deviceIdentity = deviceIdentity
    <3> HIDE DEF first
    <3> QED BY <2>1, <2>2 DEF RunStates
  <2>4. deviceIdentity # None
    BY ProvisioningAssumption DEF DeviceIdentity
  <2>5. Start(s, run) /\ keyboard' \in BOOLEAN /\ misjudged' \in BOOLEAN
    BY <1>8 DEF SaveTerminal
  <2> HIDE DEF run
  <2> QED
    BY <1>8, <2>3, <2>4, <2>5, StartTypes
<1>9. ASSUME TypeInv, NEW s \in Sagas, Fails(s) PROVE TypeInv'
  <2>1. Caught(s)
    BY <1>9 DEF Fails
  <2>2. faults' \subseteq {"overlap", "failure", "interruption"}
    BY <1>9, FaultTypes DEF Fails, TypeInv, TypeOK
  <2> QED
    BY <2>1, <2>2, <1>9, CaughtTypes DEF Fails, TypeInv, TypeOK, persisted, screen
<1>10. ASSUME TypeInv, NEW s \in Sagas, WriteRejected(s) PROVE TypeInv'
  <2>1. Caught(s)
    BY <1>10 DEF WriteRejected
  <2>2. faults' \subseteq {"overlap", "failure", "interruption"}
    BY <1>10, FaultTypes DEF WriteRejected, TypeInv, TypeOK
  <2> QED
    BY <2>1, <2>2, <1>10, CaughtTypes DEF WriteRejected, TypeInv, TypeOK, persisted, screen
<1>11. ASSUME TypeInv, NEW s \in Sagas, SettingMissing(s) PROVE TypeInv'
  <2>1. Caught(s)
    BY <1>11 DEF SettingMissing
  <2>2. faults' \subseteq {"overlap", "failure", "interruption"}
    BY <1>11, FaultTypes DEF SettingMissing, TypeInv, TypeOK
  <2> QED
    BY <2>1, <2>2, <1>11, CaughtTypes DEF SettingMissing, TypeInv, TypeOK, persisted, screen
<1>12. ASSUME TypeInv, NEW s \in Sagas, LoadNothing(s) PROVE TypeInv'
  <2>1. saga' \in [Sagas -> RunStates] /\ Identified'
    BY <1>12, Ended DEF LoadNothing
  <2>2. terminal["deviceIdentity"] \in DeviceIdentity \cup {None}
    BY <1>12, KeysWritten DEF TypeInv, TypeOK
  <2>3. settings' \in SettingsTypes
    BY <1>12, <2>2, SuccessTypes DEF LoadNothing, Statuses
  <2> QED
    BY <2>1, <1>12, <2>3 DEF LoadNothing, TypeInv, TypeOK, persisted, screen
<1>13. ASSUME TypeInv, NEW s \in Sagas, LoadSettings(s) PROVE TypeInv'
  <2> DEFINE run == [saga[s] EXCEPT !.deviceIdentity = terminal["deviceIdentity"],
                                !.step = "createBindingsInTenant"]
  <2>1. saga[s] \in RunStates
    BY <1>13 DEF TypeInv, TypeOK
  <2>0. terminal["deviceIdentity"] \in DeviceIdentity \cup {None}
    BY <1>13, KeysWritten DEF TypeInv, TypeOK
  <2>2. run \in RunStates
    BY <2>0, <2>1 DEF RunStates, Steps
  <2>3. run.step \in Knowing => run.deviceIdentity # None
    BY <1>13, <2>1 DEF RunStates, Knowing
  <2>4. saga' = [saga EXCEPT ![s] = run]
    BY <1>13 DEF LoadSettings
  <2>5. saga' \in [Sagas -> RunStates] /\ Identified'
    <3> HIDE DEF run
    <3> QED BY <1>13, <2>2, <2>3, <2>4, SetRun
  <2> QED
    BY <2>5, <1>13 DEF LoadSettings, OfAnotherStore, TypeInv, TypeOK, persisted, screen
<1>14. ASSUME TypeInv, NEW s \in Sagas, DiscoverTenant(s) PROVE TypeInv'
  <2> DEFINE run == [saga[s] EXCEPT !.step = "storeTenant", !.next = 1]
  <2>1. saga[s] \in RunStates
    BY <1>14 DEF TypeInv, TypeOK
  <2>2. run \in RunStates
    BY <2>1 DEF RunStates, Steps
  <2>3. run.step \in Knowing => run.deviceIdentity # None
    BY <1>14, <2>1 DEF RunStates, Knowing
  <2>4. saga' = [saga EXCEPT ![s] = run]
    BY <1>14 DEF DiscoverTenant
  <2>5. saga' \in [Sagas -> RunStates] /\ Identified'
    <3> HIDE DEF run
    <3> QED BY <1>14, <2>2, <2>3, <2>4, SetRun
  <2> QED
    BY <2>5, <1>14 DEF DiscoverTenant, TypeInv, TypeOK, persisted, screen
<1>15. ASSUME TypeInv, NEW s \in Sagas, StoreTenant(s) PROVE TypeInv'
  <2> DEFINE run == [saga[s] EXCEPT !.next = saga[s].next + 1,
                   !.step = IF saga[s].next = Len(TenantKeys) THEN "createBindingsInTenant" ELSE @]
  <2>1. saga[s] \in RunStates
    BY <1>15 DEF TypeInv, TypeOK
  <2>8. saga[s].next + 1 \in Nat
    BY <2>1 DEF RunStates
  <2>9. (IF saga[s].next = Len(TenantKeys) THEN "createBindingsInTenant" ELSE saga[s].step) \in Steps \cup {"none"}
    BY <2>1 DEF RunStates, Steps
  <2>2. run \in RunStates
    BY <2>1, <2>8, <2>9, Zenon DEF RunStates, Steps
  <2>3. run.step \in Knowing => run.deviceIdentity # None
    BY <1>15, <2>1 DEF RunStates, Knowing, StoreTenant, At
  <2>4. saga' = [saga EXCEPT ![s] = run]
    BY <1>15 DEF StoreTenant
  <2>5. saga' \in [Sagas -> RunStates] /\ Identified'
    <3> HIDE DEF run
    <3> QED BY <1>15, <2>2, <2>3, <2>4, SetRun
  <2>6. saga[s].domain \in Domains \cup {None}
    BY <2>1 DEF RunStates
  <2>7. tenant' \in [Written(TenantKeys) -> Domains \cup {None}]
    BY <1>15, <2>6 DEF StoreTenant, TypeInv, TypeOK
  <2> QED
    BY <2>5, <2>7, <1>15 DEF StoreTenant, TypeInv, TypeOK, persisted, screen
<1>16. ASSUME TypeInv, NEW s \in Sagas, CreateBindingsInTenant(s) PROVE TypeInv'
  <2>1. saga' \in [Sagas -> RunStates] /\ Identified'
    BY <1>16, Continued DEF CreateBindingsInTenant, At, Steps, Knowing, Identified, TypeInv
  <2> QED
    BY <2>1, <1>16 DEF CreateBindingsInTenant, At, TypeInv, TypeOK, persisted, screen
<1>17. ASSUME TypeInv, NEW s \in Sagas, ConfigureAdmin(s) PROVE TypeInv'
  <2>1. saga' \in [Sagas -> RunStates] /\ Identified'
    BY <1>17, Ended DEF ConfigureAdmin
  <2>2. settings' \in SettingsTypes
    BY <1>17, SuccessTypes DEF ConfigureAdmin, TypeInv, TypeOK, RunStates, Statuses, At
  <2> QED
    BY <2>1, <1>17, <2>2 DEF ConfigureAdmin, TypeInv, TypeOK, persisted, screen
<1>18. ASSUME TypeInv, NEW s \in Sagas, RegisterClient(s) PROVE TypeInv'
  <2> DEFINE run == [saga[s] EXCEPT !.key = Key, !.step = "storeTerminal", !.next = 1]
  <2>1. saga[s] \in RunStates
    BY <1>18 DEF TypeInv, TypeOK
  <2>0. Key \in 0 .. LastKey
    BY <1>18, ProvisioningAssumption DEF RegisterClient, Key, TypeInv, TypeOK
  <2>2. run \in RunStates
    BY <2>0, <2>1 DEF RunStates, Steps
  <2>3. run.step \in Knowing => run.deviceIdentity # None
    BY <1>18, <2>1 DEF RunStates, RegisterClient, At, TypeInv, Identified, Knowing
  <2>4. saga' = [saga EXCEPT ![s] = run]
    BY <1>18 DEF RegisterClient
  <2>5. saga' \in [Sagas -> RunStates] /\ Identified'
    <3> HIDE DEF run
    <3> QED BY <1>18, <2>2, <2>3, <2>4, SetRun
  <2>6. lastKey' \in 0 .. LastKey
    BY <1>18, <2>0 DEF RegisterClient, TypeInv, TypeOK
  <2> QED
    BY <2>5, <2>6, <1>18 DEF RegisterClient, TypeInv, TypeOK, persisted, screen
<1>19. ASSUME TypeInv, NEW s \in Sagas, StoreTerminal(s) PROVE TypeInv'
  <2> DEFINE run == [saga[s] EXCEPT !.next = saga[s].next + 1,
                   !.step = IF saga[s].next = Len(TerminalKeys) THEN "storeKey" ELSE @]
  <2>1. saga[s] \in RunStates
    BY <1>19 DEF TypeInv, TypeOK
  <2>8. saga[s].next + 1 \in Nat
    BY <2>1 DEF RunStates
  <2>9. (IF saga[s].next = Len(TerminalKeys) THEN "storeKey" ELSE saga[s].step) \in Steps \cup {"none"}
    BY <2>1 DEF RunStates, Steps
  <2>2. run \in RunStates
    BY <2>1, <2>8, <2>9, Zenon DEF RunStates, Steps
  <2>3. run.step \in Knowing => run.deviceIdentity # None
    BY <1>19, <2>1 DEF RunStates, StoreTerminal, At, TypeInv, Identified, Knowing
  <2>4. saga' = [saga EXCEPT ![s] = run]
    BY <1>19 DEF StoreTerminal
  <2>5. saga' \in [Sagas -> RunStates] /\ Identified'
    <3> HIDE DEF run
    <3> QED BY <1>19, <2>2, <2>3, <2>4, SetRun
  <2>6. saga[s].deviceIdentity \in DeviceIdentity \cup {None}
    BY <2>1 DEF RunStates
  <2>7. terminal' \in [Written(TerminalKeys) -> DeviceIdentity \cup {None}]
    BY <1>19, <2>6 DEF StoreTerminal, TypeInv, TypeOK
  <2> QED
    BY <2>5, <2>7, <1>19 DEF StoreTerminal, TypeInv, TypeOK, persisted, screen
<1>20. ASSUME TypeInv, NEW s \in Sagas, StoreKey(s) PROVE TypeInv'
  <2>1. saga' \in [Sagas -> RunStates] /\ Identified'
    BY <1>20, Continued DEF StoreKey, At, Steps, Knowing, Identified, TypeInv
  <2>2. encryptionKey' \in 0 .. LastKey
    BY <1>20 DEF StoreKey, TypeInv, TypeOK, RunStates
  <2> QED
    BY <2>1, <1>20, <2>2 DEF StoreKey, At, TypeInv, TypeOK, persisted, screen
<1>21. ASSUME TypeInv, NEW s \in Sagas, LastValues(s) PROVE TypeInv'
  <2>1. saga' \in [Sagas -> RunStates] /\ Identified'
    BY <1>21, Continued DEF LastValues, At, Steps, Knowing, Identified, TypeInv
  <2> QED
    BY <2>1, <1>21 DEF LastValues, At, TypeInv, TypeOK, persisted, screen
<1>22. ASSUME TypeInv, NEW s \in Sagas, Download(s) PROVE TypeInv'
  <2>1. saga' \in [Sagas -> RunStates] /\ Identified'
    BY <1>22, Continued DEF Download, At, Steps, Knowing, Identified, TypeInv
  <2>2. settings' \in SettingsTypes
    BY <1>22, SuccessTypes DEF Download, TypeInv, TypeOK, RunStates, Statuses, At
  <2> QED
    BY <2>1, <1>22, <2>2 DEF Download, At, TypeInv, TypeOK, persisted, screen
<1>23. ASSUME TypeInv, NEW s \in Sagas, Install(s) PROVE TypeInv'
  <2>1. saga' \in [Sagas -> RunStates] /\ Identified'
    BY <1>23, Continued DEF Install, At, Steps, Knowing, Identified, TypeInv
  <2>2. master' \in Masters \cup {None}
    BY <1>23, MasterTypes DEF Install, At, Knowing, TypeInv, TypeOK
  <2> QED
    BY <2>1, <1>23, <2>2 DEF Install, At, TypeInv, TypeOK, persisted, screen
<1>24. ASSUME TypeInv, NEW s \in Sagas, Authenticate(s) PROVE TypeInv'
  <2>1. saga' \in [Sagas -> RunStates] /\ Identified'
    BY <1>24, Continued DEF Authenticate, At, Steps, Knowing, Identified, TypeInv
  <2> QED
    BY <2>1, <1>24 DEF Authenticate, At, TypeInv, TypeOK, persisted, screen
<1>25. ASSUME TypeInv, NEW s \in Sagas, Bind(s) PROVE TypeInv'
  <2>1. saga' \in [Sagas -> RunStates] /\ Identified'
    BY <1>25, Continued DEF Bind, At, Steps, Knowing, Identified, TypeInv
  <2>2. master' \in Masters \cup {None}
    BY <1>25, MasterTypes DEF Bind, At, Knowing, TypeInv, TypeOK
  <2> QED
    BY <2>1, <1>25, <2>2 DEF Bind, At, TypeInv, TypeOK, persisted, screen
<1>26. ASSUME TypeInv, NEW s \in Sagas, Configure(s) PROVE TypeInv'
  <2>1. saga' \in [Sagas -> RunStates] /\ Identified'
    BY <1>26, Continued DEF Configure, At, Steps, Knowing, Identified, TypeInv
  <2>2. settings' \in SettingsTypes
    BY <1>26, SuccessTypes DEF Configure, TypeInv, TypeOK, RunStates, Statuses, At
  <2> QED
    BY <2>1, <1>26, <2>2 DEF Configure, At, TypeInv, TypeOK, persisted, screen
<1>27. ASSUME TypeInv, NEW s \in Sagas, AfterReady(s) PROVE TypeInv'
  <2>1. saga' \in [Sagas -> RunStates] /\ Identified'
    BY <1>27, Continued, Ended DEF AfterReady, At, Steps, Knowing, Identified, TypeInv
  <2> QED
    BY <2>1, <1>27 DEF AfterReady, TypeInv, TypeOK, persisted, screen
<1>28. ASSUME TypeInv, NEW s \in Sagas, NothingToDo(s) PROVE TypeInv'
  <2>1. saga' \in [Sagas -> RunStates] /\ Identified'
    BY <1>28, Continued DEF NothingToDo, At, Steps, Knowing, Identified, TypeInv
  <2> QED
    BY <2>1, <1>28 DEF NothingToDo, At, TypeInv, TypeOK, persisted, screen
<1>29. ASSUME TypeInv, NEW s \in Sagas, ResetAsked(s) PROVE TypeInv'
  <2>1. saga' \in [Sagas -> RunStates] /\ Identified'
    BY <1>29, Continued DEF ResetAsked, At, Steps, Knowing, Identified, TypeInv
  <2>2. master' \in Masters \cup {None}
    BY <1>29 DEF ResetAsked, TypeInv, TypeOK, Masters
  <2> QED
    BY <2>1, <1>29, <2>2 DEF ResetAsked, At, TypeInv, TypeOK, persisted, screen
<1>30. ASSUME TypeInv, NEW s \in Sagas, DispatchFails(s) PROVE TypeInv'
  <2>1. saga' \in [Sagas -> RunStates] /\ Identified'
    BY <1>30, Continued DEF DispatchFails, At, Steps, Knowing, Identified, TypeInv
  <2>2. faults' \subseteq {"overlap", "failure", "interruption"}
    BY <1>30, FaultTypes DEF DispatchFails
  <2> QED
    BY <2>1, <1>30, <2>2 DEF DispatchFails, At, TypeInv, TypeOK, persisted, screen
<1>31. ASSUME TypeInv, NEW s \in Sagas, NothingToReset(s) PROVE TypeInv'
  <2>1. saga' \in [Sagas -> RunStates] /\ Identified'
    BY <1>31, Ended DEF NothingToReset
  <2> QED
    BY <2>1, <1>31 DEF NothingToReset, TypeInv, TypeOK, persisted, screen
<1>32. ASSUME TypeInv, NEW s \in Sagas, Reset(s) PROVE TypeInv'
  <2>1. saga' \in [Sagas -> RunStates] /\ Identified'
    BY <1>32, Continued DEF Reset, At, Steps, Knowing, Identified, TypeInv
  <2>2. settings' \in SettingsTypes
    BY <1>32, SuccessTypes DEF Reset, TypeInv, TypeOK, RunStates, Statuses, At
  <2> QED
    BY <2>1, <1>32, <2>2 DEF Reset, At, TypeInv, TypeOK, persisted, screen
<1>33. ASSUME TypeInv, NEW s \in Sagas, ResetBind(s) PROVE TypeInv'
  <2>1. saga' \in [Sagas -> RunStates] /\ Identified'
    BY <1>33, Continued DEF ResetBind, At, Steps, Knowing, Identified, TypeInv
  <2>2. settings' \in SettingsTypes
    BY <1>33, SuccessTypes DEF ResetBind, TypeInv, TypeOK, RunStates, Statuses, At
  <2>3. master' \in Masters
    BY <1>33, MasterTypes DEF ResetBind, At, Knowing
  <2> QED
    BY <2>1, <1>33, <2>2, <2>3 DEF ResetBind, At, TypeInv, TypeOK, persisted, screen
<1>34. ASSUME TypeInv, NEW s \in Sagas, ClearFlag(s) PROVE TypeInv'
  <2>1. saga' \in [Sagas -> RunStates] /\ Identified'
    BY <1>34, Continued DEF ClearFlag, At, Steps, Knowing, Identified, TypeInv
  <2> QED
    BY <2>1, <1>34 DEF ClearFlag, At, TypeInv, TypeOK, persisted, screen
<1>35. ASSUME TypeInv, NEW s \in Sagas, CompleteTask(s) PROVE TypeInv'
  <2>1. saga' \in [Sagas -> RunStates] /\ Identified'
    BY <1>35, Ended DEF CompleteTask
  <2> QED
    BY <2>1, <1>35 DEF CompleteTask, TypeInv, TypeOK, persisted, screen
<1>36. ASSUME TypeInv, Crash PROVE TypeInv'
  <2>1. saga' \in [Sagas -> RunStates] /\ Identified'
    BY <1>36, RunTypes DEF Crash, Ends, Identified
  <2>2. settings' \in SettingsTypes
    BY <1>36 DEF Crash, Ends, Unloaded, Statuses
  <2>3. faults' \subseteq {"overlap", "failure", "interruption"}
    BY <1>36, FaultTypes DEF Crash, TypeInv, TypeOK
  <2> QED
    BY <2>1, <2>2, <2>3, <1>36 DEF Crash, Ends, TypeInv, TypeOK, persisted
<1>37. ASSUME TypeInv, NEW s \in Sagas, Restart(s) PROVE TypeInv'
  <2>1. saga' \in [Sagas -> RunStates] /\ Identified'
    BY <1>37, RunTypes DEF Restart, Ends, Identified
  <2>2. settings' \in SettingsTypes
    BY <1>37 DEF Restart, Ends, Unloaded, Statuses
  <2>3. faults' \subseteq {"overlap", "failure", "interruption"}
    BY <1>37, FaultTypes DEF Restart, TypeInv, TypeOK
  <2> QED
    BY <2>1, <2>2, <2>3, <1>37 DEF Restart, Ends, TypeInv, TypeOK, persisted
<1>38. TypeInv /\ UNCHANGED vars => TypeInv'
  BY DEF TypeInv, TypeOK, Identified, vars, persisted, screen
<1>39. TypeInv /\ [Next]_vars => TypeInv'
  BY <1>2, <1>3, <1>4, <1>5, <1>6, <1>7, <1>8, <1>9, <1>10, <1>11, <1>12, <1>13, <1>14, <1>15,
     <1>16, <1>17, <1>18, <1>19, <1>20, <1>21, <1>22, <1>23, <1>24, <1>25, <1>26, <1>27, <1>28,
        <1>29, <1>30, <1>31, <1>32, <1>33, <1>34, <1>35, <1>36, <1>37,
     <1>38 DEF Next, User, Step, Goes
<1> QED
  BY <1>1, <1>39, PTL DEF Spec

\* The values keep their types: what the forms and the services leave behind is
\* always of a tenant or of a terminal, whatever fails.
THEOREM TypeCorrect == Spec => []TypeOK
BY TypesAndIdentity, PTL DEF TypeInv

-----------------------------------------------------------------------------
\* What follows the credentials in the order of the writes.
AfterCredentials == {"storeKey", "lastValues", "download", "install", "bind", "configure",
                     "afterReady", "dispatchTasks", "reset", "resetBind"}

Has(k) == terminal[k] # None

Chain == /\ Has("clientApiCredentials") => Has("transactionNumber")
         /\ Has("transactionNumber") => Has("deviceIdentity")

Progress == \A s \in Sagas : saga[s].step = "storeTerminal" =>
  /\ saga[s].next \in 1 .. 3
  /\ saga[s].next >= 2 => Has("deviceIdentity")
  /\ saga[s].next >= 3 => Has("transactionNumber")

Later == \A s \in Sagas : saga[s].step \in AfterCredentials => Has("clientApiCredentials")

CredentialsInv == Chain /\ Progress /\ Later /\ (Ready => Has("clientApiCredentials"))

\* As long as the terminal's values stay, it takes a run that goes on past the
\* credentials, or a terminal that gets ready, to need them.
LEMMA Kept ==
  ASSUME CredentialsInv, terminal' = terminal,
         \A t \in Sagas : \/ saga'[t] = saga[t]
                          \/ saga'[t].step \notin AfterCredentials \cup {"storeTerminal"}
                          \/ saga'[t].step # "storeTerminal" /\ Has("clientApiCredentials"),
         Ready' => Ready \/ Has("clientApiCredentials")
  PROVE  CredentialsInv'
<1>1. \A k : Has(k)' = Has(k)
  BY DEF Has
<1>2. Chain'
  BY <1>1 DEF CredentialsInv, Chain
<1>3. Progress'
  BY <1>1 DEF CredentialsInv, Progress
<1>4. Later'
  BY <1>1 DEF CredentialsInv, Later
<1>5. Ready' => Has("clientApiCredentials")'
  BY <1>1 DEF CredentialsInv
<1> QED
  BY <1>2, <1>3, <1>4, <1>5 DEF CredentialsInv

\* The run that takes a step is the only one that moves.
LEMMA Moved ==
  ASSUME TypeInv, NEW s \in Sagas
  PROVE  /\ End(s) => \A t \in Sagas : saga'[t] = saga[t] \/ saga'[t].step = "none"
         /\ \A run : saga' = [saga EXCEPT ![s] = run] =>
                \A t \in Sagas : saga'[t] = saga[t] \/ saga'[t] = run
         /\ \A step : Continue(s, step) =>
                \A t \in Sagas : saga'[t] = saga[t] \/ saga'[t].step = step
BY DEF TypeInv, TypeOK, End, Continue, Idle, RunStates

LEMMA CredentialsStep == TypeInv /\ CredentialsInv /\ [Next]_vars => CredentialsInv'
<1> SUFFICES ASSUME TypeInv, CredentialsInv, [Next]_vars PROVE CredentialsInv'
  OBVIOUS
<1>1. ASSUME NEW s \in Sagas, Launch(s) PROVE CredentialsInv'
  <2>1. terminal' = terminal /\ (Ready' => Ready \/ Has("clientApiCredentials"))
    BY <1>1 DEF Launch, Start, Run, Idle, persisted, Ready, Success, Caught, CredentialsInv,
       Later, At, AfterCredentials
  <2>2. \A t \in Sagas : \/ saga'[t] = saga[t]
                         \/ saga'[t].step \notin AfterCredentials \cup {"storeTerminal"}
                         \/ saga'[t].step # "storeTerminal" /\ Has("clientApiCredentials")
    BY <1>1, Moved DEF Launch, Start, Run, Idle, Caught, At, AfterCredentials, CredentialsInv, Later
  <2> QED
    BY <2>1, <2>2, Kept
<1>2. ASSUME NEW s \in Sagas, Cancel(s) PROVE CredentialsInv'
  <2>1. terminal' = terminal /\ (Ready' => Ready \/ Has("clientApiCredentials"))
    BY <1>2 DEF Cancel, Start, Run, Idle, persisted, Ready, Success, Caught, CredentialsInv,
       Later, At, AfterCredentials
  <2>2. \A t \in Sagas : \/ saga'[t] = saga[t]
                         \/ saga'[t].step \notin AfterCredentials \cup {"storeTerminal"}
                         \/ saga'[t].step # "storeTerminal" /\ Has("clientApiCredentials")
    BY <1>2, Moved DEF Cancel, Start, Run, Idle, Caught, At, AfterCredentials, CredentialsInv, Later
  <2> QED
    BY <2>1, <2>2, Kept
<1>3. ASSUME NEW s \in Sagas, PrepareChange(s) PROVE CredentialsInv'
  <2>1. terminal' = terminal /\ (Ready' => Ready \/ Has("clientApiCredentials"))
    BY <1>3 DEF PrepareChange, Start, Run, Idle, persisted, Ready, Success, Caught,
       CredentialsInv, Later, At, AfterCredentials
  <2>2. \A t \in Sagas : \/ saga'[t] = saga[t]
                         \/ saga'[t].step \notin AfterCredentials \cup {"storeTerminal"}
                         \/ saga'[t].step # "storeTerminal" /\ Has("clientApiCredentials")
    BY <1>3, Moved DEF PrepareChange, Start, Run, Idle, Caught, At, AfterCredentials,
       CredentialsInv, Later
  <2> QED
    BY <2>1, <2>2, Kept
<1>4. ASSUME NEW s \in Sagas, NEW domain \in Domains, SelectDomain(s, domain) PROVE CredentialsInv'
  <2>1. terminal' = terminal /\ (Ready' => Ready \/ Has("clientApiCredentials"))
    BY <1>4 DEF SelectDomain, Start, Run, Idle, persisted, Ready, Success, Caught, CredentialsInv,
       Later, At, AfterCredentials
  <2>2. \A t \in Sagas : \/ saga'[t] = saga[t]
                         \/ saga'[t].step \notin AfterCredentials \cup {"storeTerminal"}
                         \/ saga'[t].step # "storeTerminal" /\ Has("clientApiCredentials")
    BY <1>4, Moved DEF SelectDomain, Start, Run, Idle, Caught, At, AfterCredentials,
       CredentialsInv, Later
  <2> QED
    BY <2>1, <2>2, Kept
<1>5. ASSUME NEW s \in Sagas, NEW deviceIdentity \in DeviceIdentity,
            SaveTerminal(s, deviceIdentity) PROVE CredentialsInv'
  <2>1. terminal' = terminal /\ (Ready' => Ready \/ Has("clientApiCredentials"))
    BY <1>5 DEF SaveTerminal, Start, Run, Idle, persisted, Ready, Success, Caught, CredentialsInv,
       Later, At, AfterCredentials
  <2>2. \A t \in Sagas : \/ saga'[t] = saga[t]
                         \/ saga'[t].step \notin AfterCredentials \cup {"storeTerminal"}
                         \/ saga'[t].step # "storeTerminal" /\ Has("clientApiCredentials")
    BY <1>5, Moved DEF SaveTerminal, Start, Run, Idle, Caught, At, AfterCredentials,
       CredentialsInv, Later
  <2> QED
    BY <2>1, <2>2, Kept
<1>6. ASSUME SearchNumber PROVE CredentialsInv'
  <2>1. terminal' = terminal /\ (Ready' => Ready \/ Has("clientApiCredentials"))
    BY <1>6 DEF SearchNumber, persisted, Ready, Success, Caught, CredentialsInv, Later, At,
       AfterCredentials
  <2>2. \A t \in Sagas : \/ saga'[t] = saga[t]
                         \/ saga'[t].step \notin AfterCredentials \cup {"storeTerminal"}
                         \/ saga'[t].step # "storeTerminal" /\ Has("clientApiCredentials")
    BY <1>6, Moved DEF SearchNumber, Caught, At, AfterCredentials, CredentialsInv, Later
  <2> QED
    BY <2>1, <2>2, Kept
<1>7. ASSUME NumberAnswered PROVE CredentialsInv'
  <2>1. terminal' = terminal /\ (Ready' => Ready \/ Has("clientApiCredentials"))
    BY <1>7 DEF NumberAnswered, persisted, Ready, Success, Caught, CredentialsInv, Later, At,
       AfterCredentials
  <2>2. \A t \in Sagas : \/ saga'[t] = saga[t]
                         \/ saga'[t].step \notin AfterCredentials \cup {"storeTerminal"}
                         \/ saga'[t].step # "storeTerminal" /\ Has("clientApiCredentials")
    BY <1>7, Moved DEF NumberAnswered, Caught, At, AfterCredentials, CredentialsInv, Later
  <2> QED
    BY <2>1, <2>2, Kept
<1>8. ASSUME NEW s \in Sagas, Fails(s) PROVE CredentialsInv'
  <2>1. terminal' = terminal /\ (Ready' => Ready \/ Has("clientApiCredentials"))
    BY <1>8 DEF Fails, persisted, Ready, Success, Caught, CredentialsInv, Later, At,
       AfterCredentials
  <2>2. \A t \in Sagas : \/ saga'[t] = saga[t]
                         \/ saga'[t].step \notin AfterCredentials \cup {"storeTerminal"}
                         \/ saga'[t].step # "storeTerminal" /\ Has("clientApiCredentials")
    BY <1>8, Moved DEF Fails, Caught, At, AfterCredentials, CredentialsInv, Later
  <2> QED
    BY <2>1, <2>2, Kept
<1>9. ASSUME NEW s \in Sagas, WriteRejected(s) PROVE CredentialsInv'
  <2>1. terminal' = terminal /\ (Ready' => Ready \/ Has("clientApiCredentials"))
    BY <1>9 DEF WriteRejected, persisted, Ready, Success, Caught, CredentialsInv, Later, At,
       AfterCredentials
  <2>2. \A t \in Sagas : \/ saga'[t] = saga[t]
                         \/ saga'[t].step \notin AfterCredentials \cup {"storeTerminal"}
                         \/ saga'[t].step # "storeTerminal" /\ Has("clientApiCredentials")
    BY <1>9, Moved DEF WriteRejected, Caught, At, AfterCredentials, CredentialsInv, Later
  <2> QED
    BY <2>1, <2>2, Kept
<1>10. ASSUME NEW s \in Sagas, SettingMissing(s) PROVE CredentialsInv'
  <2>1. terminal' = terminal /\ (Ready' => Ready \/ Has("clientApiCredentials"))
    BY <1>10 DEF SettingMissing, persisted, Ready, Success, Caught, CredentialsInv, Later, At,
       AfterCredentials
  <2>2. \A t \in Sagas : \/ saga'[t] = saga[t]
                         \/ saga'[t].step \notin AfterCredentials \cup {"storeTerminal"}
                         \/ saga'[t].step # "storeTerminal" /\ Has("clientApiCredentials")
    BY <1>10, Moved DEF SettingMissing, Caught, At, AfterCredentials, CredentialsInv, Later
  <2> QED
    BY <2>1, <2>2, Kept
<1>11. ASSUME NEW s \in Sagas, LoadNothing(s) PROVE CredentialsInv'
  <2>1. terminal' = terminal /\ (Ready' => Ready \/ Has("clientApiCredentials"))
    BY <1>11 DEF LoadNothing, persisted, Ready, Success, Caught, CredentialsInv, Later, At,
       AfterCredentials
  <2>2. \A t \in Sagas : \/ saga'[t] = saga[t]
                         \/ saga'[t].step \notin AfterCredentials \cup {"storeTerminal"}
                         \/ saga'[t].step # "storeTerminal" /\ Has("clientApiCredentials")
    BY <1>11, Moved DEF LoadNothing, Caught, At, AfterCredentials, CredentialsInv, Later
  <2> QED
    BY <2>1, <2>2, Kept
<1>12. ASSUME NEW s \in Sagas, LoadSettings(s) PROVE CredentialsInv'
  <2>1. terminal' = terminal /\ (Ready' => Ready \/ Has("clientApiCredentials"))
    BY <1>12 DEF LoadSettings, TypeInv, TypeOK, RunStates, persisted, Ready, Success, Caught,
       CredentialsInv, Later, At, AfterCredentials
  <2>2. \A t \in Sagas : \/ saga'[t] = saga[t]
                         \/ saga'[t].step \notin AfterCredentials \cup {"storeTerminal"}
                         \/ saga'[t].step # "storeTerminal" /\ Has("clientApiCredentials")
    BY <1>12, Moved DEF LoadSettings, TypeInv, TypeOK, RunStates, Caught, At, AfterCredentials,
       CredentialsInv, Later
  <2> QED
    BY <2>1, <2>2, Kept
<1>13. ASSUME NEW s \in Sagas, DiscoverTenant(s) PROVE CredentialsInv'
  <2>1. terminal' = terminal /\ (Ready' => Ready \/ Has("clientApiCredentials"))
    BY <1>13 DEF DiscoverTenant, TypeInv, TypeOK, RunStates, persisted, Ready, Success, Caught,
       CredentialsInv, Later, At, AfterCredentials
  <2>2. \A t \in Sagas : \/ saga'[t] = saga[t]
                         \/ saga'[t].step \notin AfterCredentials \cup {"storeTerminal"}
                         \/ saga'[t].step # "storeTerminal" /\ Has("clientApiCredentials")
    BY <1>13, Moved DEF DiscoverTenant, TypeInv, TypeOK, RunStates, Caught, At, AfterCredentials,
       CredentialsInv, Later
  <2> QED
    BY <2>1, <2>2, Kept
<1>14. ASSUME NEW s \in Sagas, StoreTenant(s) PROVE CredentialsInv'
  <2>1. terminal' = terminal /\ (Ready' => Ready \/ Has("clientApiCredentials"))
    BY <1>14 DEF StoreTenant, TypeInv, TypeOK, RunStates, persisted, Ready, Success, Caught,
       CredentialsInv, Later, At, AfterCredentials
  <2>2. \A t \in Sagas : \/ saga'[t] = saga[t]
                         \/ saga'[t].step \notin AfterCredentials \cup {"storeTerminal"}
                         \/ saga'[t].step # "storeTerminal" /\ Has("clientApiCredentials")
    BY <1>14, Moved DEF StoreTenant, TypeInv, TypeOK, RunStates, Caught, At, AfterCredentials,
       CredentialsInv, Later
  <2> QED
    BY <2>1, <2>2, Kept
<1>15. ASSUME NEW s \in Sagas, CreateBindingsInTenant(s) PROVE CredentialsInv'
  <2>1. terminal' = terminal /\ (Ready' => Ready \/ Has("clientApiCredentials"))
    BY <1>15 DEF CreateBindingsInTenant, persisted, Ready, Success, Caught, CredentialsInv, Later,
       At, AfterCredentials
  <2>2. \A t \in Sagas : \/ saga'[t] = saga[t]
                         \/ saga'[t].step \notin AfterCredentials \cup {"storeTerminal"}
                         \/ saga'[t].step # "storeTerminal" /\ Has("clientApiCredentials")
    BY <1>15, Moved DEF CreateBindingsInTenant, Caught, At, AfterCredentials, CredentialsInv, Later
  <2> QED
    BY <2>1, <2>2, Kept
<1>16. ASSUME NEW s \in Sagas, ConfigureAdmin(s) PROVE CredentialsInv'
  <2>1. terminal' = terminal /\ (Ready' => Ready \/ Has("clientApiCredentials"))
    BY <1>16 DEF ConfigureAdmin, persisted, Ready, Success, Caught, CredentialsInv, Later, At,
       AfterCredentials
  <2>2. \A t \in Sagas : \/ saga'[t] = saga[t]
                         \/ saga'[t].step \notin AfterCredentials \cup {"storeTerminal"}
                         \/ saga'[t].step # "storeTerminal" /\ Has("clientApiCredentials")
    BY <1>16, Moved DEF ConfigureAdmin, Caught, At, AfterCredentials, CredentialsInv, Later
  <2> QED
    BY <2>1, <2>2, Kept
<1>17. ASSUME NEW s \in Sagas, RegisterClient(s) PROVE CredentialsInv'
  <2>1. \A k : Has(k)' = Has(k)
    BY <1>17 DEF RegisterClient, persisted, Has
  <2>2. \A t \in Sagas : \/ saga'[t] = saga[t]
                         \/ saga'[t].step = "storeTerminal" /\ saga'[t].next = 1
    BY <1>17 DEF RegisterClient, TypeInv, TypeOK, RunStates
  <2>3. Ready' = Ready
    BY <1>17 DEF RegisterClient, Ready
  <2>4. Progress'
    BY <2>1, <2>2 DEF Progress, CredentialsInv
  <2>5. Later'
    BY <2>1, <2>2 DEF Later, CredentialsInv, AfterCredentials
  <2> QED
    BY <2>1, <2>3, <2>4, <2>5 DEF CredentialsInv, Chain
<1>18. ASSUME NEW s \in Sagas, StoreTerminal(s) PROVE CredentialsInv'
  <2> DEFINE next == saga[s].next
  <2>1. next \in 1 .. 3 /\ (next >= 2 => Has("deviceIdentity")) /\ (next >= 3 => Has("transactionNumber"))
    BY <1>18 DEF StoreTerminal, At, CredentialsInv, Progress
  <2>2. saga[s].deviceIdentity # None
    BY <1>18 DEF StoreTerminal, At, TypeInv, Identified, Knowing
  <2>3. terminal' = [terminal EXCEPT ![TerminalKeys[next]] = saga[s].deviceIdentity]
    BY <1>18 DEF StoreTerminal
  <2>4. /\ TerminalKeys[1] = "deviceIdentity" /\ TerminalKeys[2] = "transactionNumber"
        /\ TerminalKeys[3] = "clientApiCredentials" /\ Len(TerminalKeys) = 3
    BY DEF TerminalKeys
  <2>5. DOMAIN terminal = {"deviceIdentity", "transactionNumber", "clientApiCredentials"}
    BY KeysWritten DEF TypeInv, TypeOK
  <2>6. \A k \in DOMAIN terminal :
          terminal'[k] = IF k = TerminalKeys[next] THEN saga[s].deviceIdentity ELSE terminal[k]
    BY <2>3
  <2>7. \A k \in DOMAIN terminal : k = TerminalKeys[next] \/ Has(k) => Has(k)'
    BY <2>2, <2>6 DEF Has
  <2>8. \A k \in DOMAIN terminal : k # TerminalKeys[next] => Has(k)' = Has(k)
    BY <2>6 DEF Has
  <2>9. Chain'
    BY <2>1, <2>4, <2>5, <2>7, <2>8 DEF Chain, CredentialsInv
  <2>10. \A t \in Sagas \ {s} : saga'[t] = saga[t]
    BY <1>18 DEF StoreTerminal, TypeInv, TypeOK
  <2>11. /\ saga'[s].next = next + 1
         /\ saga'[s].step = IF next = 3 THEN "storeKey" ELSE "storeTerminal"
    BY <1>18, <2>4 DEF StoreTerminal, At, TypeInv, TypeOK, RunStates
  <2>12. ASSUME NEW t \in Sagas, saga'[t].step = "storeTerminal"
         PROVE  /\ saga'[t].next \in 1 .. 3
                /\ saga'[t].next >= 2 => Has("deviceIdentity")'
                /\ saga'[t].next >= 3 => Has("transactionNumber")'
    <3>1. CASE t = s
      BY <3>1, <2>1, <2>4, <2>5, <2>7, <2>11, <2>12
    <3>2. CASE t # s
      BY <3>2, <2>5, <2>7, <2>10, <2>12 DEF CredentialsInv, Progress
    <3> QED
      BY <3>1, <3>2
  <2>13. ASSUME NEW t \in Sagas, saga'[t].step \in AfterCredentials
         PROVE  Has("clientApiCredentials")'
    <3>1. CASE t = s
      BY <3>1, <2>1, <2>4, <2>5, <2>7, <2>11, <2>13 DEF AfterCredentials
    <3>2. CASE t # s
      BY <3>2, <2>5, <2>7, <2>10, <2>13 DEF CredentialsInv, Later
    <3> QED
      BY <3>1, <3>2
  <2>14. Ready' => Has("clientApiCredentials")'
    BY <1>18, <2>5, <2>7 DEF StoreTerminal, Ready, CredentialsInv
  <2> QED
    BY <2>9, <2>12, <2>13, <2>14 DEF CredentialsInv, Progress, Later
<1>19. ASSUME NEW s \in Sagas, StoreKey(s) PROVE CredentialsInv'
  <2>1. terminal' = terminal /\ (Ready' => Ready \/ Has("clientApiCredentials"))
    BY <1>19 DEF StoreKey, persisted, Ready, Success, Caught, CredentialsInv, Later, At,
       AfterCredentials
  <2>2. \A t \in Sagas : \/ saga'[t] = saga[t]
                         \/ saga'[t].step \notin AfterCredentials \cup {"storeTerminal"}
                         \/ saga'[t].step # "storeTerminal" /\ Has("clientApiCredentials")
    BY <1>19, Moved DEF StoreKey, Caught, At, AfterCredentials, CredentialsInv, Later
  <2> QED
    BY <2>1, <2>2, Kept
<1>20. ASSUME NEW s \in Sagas, LastValues(s) PROVE CredentialsInv'
  <2>1. terminal' = terminal /\ (Ready' => Ready \/ Has("clientApiCredentials"))
    BY <1>20 DEF LastValues, persisted, Ready, Success, Caught, CredentialsInv, Later, At,
       AfterCredentials
  <2>2. \A t \in Sagas : \/ saga'[t] = saga[t]
                         \/ saga'[t].step \notin AfterCredentials \cup {"storeTerminal"}
                         \/ saga'[t].step # "storeTerminal" /\ Has("clientApiCredentials")
    BY <1>20, Moved DEF LastValues, Caught, At, AfterCredentials, CredentialsInv, Later
  <2> QED
    BY <2>1, <2>2, Kept
<1>21. ASSUME NEW s \in Sagas, Download(s) PROVE CredentialsInv'
  <2>1. terminal' = terminal /\ (Ready' => Ready \/ Has("clientApiCredentials"))
    BY <1>21 DEF Download, persisted, Ready, Success, Caught, CredentialsInv, Later, At,
       AfterCredentials
  <2>2. \A t \in Sagas : \/ saga'[t] = saga[t]
                         \/ saga'[t].step \notin AfterCredentials \cup {"storeTerminal"}
                         \/ saga'[t].step # "storeTerminal" /\ Has("clientApiCredentials")
    BY <1>21, Moved DEF Download, Caught, At, AfterCredentials, CredentialsInv, Later
  <2> QED
    BY <2>1, <2>2, Kept
<1>22. ASSUME NEW s \in Sagas, Install(s) PROVE CredentialsInv'
  <2>1. terminal' = terminal /\ (Ready' => Ready \/ Has("clientApiCredentials"))
    BY <1>22 DEF Install, persisted, Ready, Success, Caught, CredentialsInv, Later, At,
       AfterCredentials
  <2>2. \A t \in Sagas : \/ saga'[t] = saga[t]
                         \/ saga'[t].step \notin AfterCredentials \cup {"storeTerminal"}
                         \/ saga'[t].step # "storeTerminal" /\ Has("clientApiCredentials")
    BY <1>22, Moved DEF Install, Caught, At, AfterCredentials, CredentialsInv, Later
  <2> QED
    BY <2>1, <2>2, Kept
<1>23. ASSUME NEW s \in Sagas, Authenticate(s) PROVE CredentialsInv'
  <2>1. terminal' = terminal /\ Ready' = Ready
    BY <1>23 DEF Authenticate, persisted, Ready
  <2>2. Has("clientApiCredentials")
    BY <1>23 DEF Authenticate, Has
  <2>3. \A t \in Sagas : saga'[t] = saga[t] \/ saga'[t].step = "bind"
    BY <1>23, Moved DEF Authenticate
  <2> QED
    BY <2>1, <2>2, <2>3, Kept
<1>24. ASSUME NEW s \in Sagas, Bind(s) PROVE CredentialsInv'
  <2>1. terminal' = terminal /\ (Ready' => Ready \/ Has("clientApiCredentials"))
    BY <1>24 DEF Bind, persisted, Ready, Success, Caught, CredentialsInv, Later, At,
       AfterCredentials
  <2>2. \A t \in Sagas : \/ saga'[t] = saga[t]
                         \/ saga'[t].step \notin AfterCredentials \cup {"storeTerminal"}
                         \/ saga'[t].step # "storeTerminal" /\ Has("clientApiCredentials")
    BY <1>24, Moved DEF Bind, Caught, At, AfterCredentials, CredentialsInv, Later
  <2> QED
    BY <2>1, <2>2, Kept
<1>25. ASSUME NEW s \in Sagas, Configure(s) PROVE CredentialsInv'
  <2>1. terminal' = terminal /\ (Ready' => Ready \/ Has("clientApiCredentials"))
    BY <1>25 DEF Configure, persisted, Ready, Success, Caught, CredentialsInv, Later, At,
       AfterCredentials
  <2>2. \A t \in Sagas : \/ saga'[t] = saga[t]
                         \/ saga'[t].step \notin AfterCredentials \cup {"storeTerminal"}
                         \/ saga'[t].step # "storeTerminal" /\ Has("clientApiCredentials")
    BY <1>25, Moved DEF Configure, Caught, At, AfterCredentials, CredentialsInv, Later
  <2> QED
    BY <2>1, <2>2, Kept
<1>26. ASSUME NEW s \in Sagas, AfterReady(s) PROVE CredentialsInv'
  <2>1. terminal' = terminal /\ (Ready' => Ready \/ Has("clientApiCredentials"))
    BY <1>26 DEF AfterReady, persisted, Ready, Success, Caught, CredentialsInv, Later, At,
       AfterCredentials
  <2>2. \A t \in Sagas : \/ saga'[t] = saga[t]
                         \/ saga'[t].step \notin AfterCredentials \cup {"storeTerminal"}
                         \/ saga'[t].step # "storeTerminal" /\ Has("clientApiCredentials")
    BY <1>26, Moved DEF AfterReady, Caught, At, AfterCredentials, CredentialsInv, Later
  <2> QED
    BY <2>1, <2>2, Kept
<1>27. ASSUME NEW s \in Sagas, NothingToDo(s) PROVE CredentialsInv'
  <2>1. terminal' = terminal /\ (Ready' => Ready \/ Has("clientApiCredentials"))
    BY <1>27 DEF NothingToDo, persisted, Ready, Success, Caught, CredentialsInv, Later, At,
       AfterCredentials
  <2>2. \A t \in Sagas : \/ saga'[t] = saga[t]
                         \/ saga'[t].step \notin AfterCredentials \cup {"storeTerminal"}
                         \/ saga'[t].step # "storeTerminal" /\ Has("clientApiCredentials")
    BY <1>27, Moved DEF NothingToDo, Caught, At, AfterCredentials, CredentialsInv, Later
  <2> QED
    BY <2>1, <2>2, Kept
<1>28. ASSUME NEW s \in Sagas, ResetAsked(s) PROVE CredentialsInv'
  <2>1. terminal' = terminal /\ (Ready' => Ready \/ Has("clientApiCredentials"))
    BY <1>28 DEF ResetAsked, persisted, Ready, Success, Caught, CredentialsInv, Later, At,
       AfterCredentials
  <2>2. \A t \in Sagas : \/ saga'[t] = saga[t]
                         \/ saga'[t].step \notin AfterCredentials \cup {"storeTerminal"}
                         \/ saga'[t].step # "storeTerminal" /\ Has("clientApiCredentials")
    BY <1>28, Moved DEF ResetAsked, Caught, At, AfterCredentials, CredentialsInv, Later
  <2> QED
    BY <2>1, <2>2, Kept
<1>29. ASSUME NEW s \in Sagas, DispatchFails(s) PROVE CredentialsInv'
  <2>1. terminal' = terminal /\ (Ready' => Ready \/ Has("clientApiCredentials"))
    BY <1>29 DEF DispatchFails, persisted, Ready, Success, Caught, CredentialsInv, Later, At,
       AfterCredentials
  <2>2. \A t \in Sagas : \/ saga'[t] = saga[t]
                         \/ saga'[t].step \notin AfterCredentials \cup {"storeTerminal"}
                         \/ saga'[t].step # "storeTerminal" /\ Has("clientApiCredentials")
    BY <1>29, Moved DEF DispatchFails, Caught, At, AfterCredentials, CredentialsInv, Later
  <2> QED
    BY <2>1, <2>2, Kept
<1>30. ASSUME NEW s \in Sagas, NothingToReset(s) PROVE CredentialsInv'
  <2>1. terminal' = terminal /\ (Ready' => Ready \/ Has("clientApiCredentials"))
    BY <1>30 DEF NothingToReset, persisted, Ready, Success, Caught, CredentialsInv, Later, At,
       AfterCredentials
  <2>2. \A t \in Sagas : \/ saga'[t] = saga[t]
                         \/ saga'[t].step \notin AfterCredentials \cup {"storeTerminal"}
                         \/ saga'[t].step # "storeTerminal" /\ Has("clientApiCredentials")
    BY <1>30, Moved DEF NothingToReset, Caught, At, AfterCredentials, CredentialsInv, Later
  <2> QED
    BY <2>1, <2>2, Kept
<1>31. ASSUME NEW s \in Sagas, Reset(s) PROVE CredentialsInv'
  <2>1. terminal' = terminal /\ (Ready' => Ready \/ Has("clientApiCredentials"))
    BY <1>31 DEF Reset, persisted, Ready, Success, Caught, CredentialsInv, Later, At,
       AfterCredentials
  <2>2. \A t \in Sagas : \/ saga'[t] = saga[t]
                         \/ saga'[t].step \notin AfterCredentials \cup {"storeTerminal"}
                         \/ saga'[t].step # "storeTerminal" /\ Has("clientApiCredentials")
    BY <1>31, Moved DEF Reset, Caught, At, AfterCredentials, CredentialsInv, Later
  <2> QED
    BY <2>1, <2>2, Kept
<1>32. ASSUME NEW s \in Sagas, ResetBind(s) PROVE CredentialsInv'
  <2>1. terminal' = terminal /\ (Ready' => Ready \/ Has("clientApiCredentials"))
    BY <1>32 DEF ResetBind, persisted, Ready, Success, Caught, CredentialsInv, Later, At,
       AfterCredentials
  <2>2. \A t \in Sagas : \/ saga'[t] = saga[t]
                         \/ saga'[t].step \notin AfterCredentials \cup {"storeTerminal"}
                         \/ saga'[t].step # "storeTerminal" /\ Has("clientApiCredentials")
    BY <1>32, Moved DEF ResetBind, Caught, At, AfterCredentials, CredentialsInv, Later
  <2> QED
    BY <2>1, <2>2, Kept
<1>33. ASSUME NEW s \in Sagas, ClearFlag(s) PROVE CredentialsInv'
  <2>1. terminal' = terminal /\ (Ready' => Ready \/ Has("clientApiCredentials"))
    BY <1>33 DEF ClearFlag, persisted, Ready, Success, Caught, CredentialsInv, Later, At,
       AfterCredentials
  <2>2. \A t \in Sagas : \/ saga'[t] = saga[t]
                         \/ saga'[t].step \notin AfterCredentials \cup {"storeTerminal"}
                         \/ saga'[t].step # "storeTerminal" /\ Has("clientApiCredentials")
    BY <1>33, Moved DEF ClearFlag, Caught, At, AfterCredentials, CredentialsInv, Later
  <2> QED
    BY <2>1, <2>2, Kept
<1>34. ASSUME NEW s \in Sagas, CompleteTask(s) PROVE CredentialsInv'
  <2>1. terminal' = terminal /\ (Ready' => Ready \/ Has("clientApiCredentials"))
    BY <1>34 DEF CompleteTask, persisted, Ready, Success, Caught, CredentialsInv, Later, At,
       AfterCredentials
  <2>2. \A t \in Sagas : \/ saga'[t] = saga[t]
                         \/ saga'[t].step \notin AfterCredentials \cup {"storeTerminal"}
                         \/ saga'[t].step # "storeTerminal" /\ Has("clientApiCredentials")
    BY <1>34, Moved DEF CompleteTask, Caught, At, AfterCredentials, CredentialsInv, Later
  <2> QED
    BY <2>1, <2>2, Kept
<1>35. ASSUME Crash PROVE CredentialsInv'
  <2>1. terminal' = terminal /\ ~Ready'
    BY <1>35 DEF Crash, Ends, persisted, Ready, Unloaded
  <2>2. \A t \in Sagas : saga'[t].step = "none"
    BY <1>35 DEF Crash, Ends, Idle
  <2> QED
    BY <2>1, <2>2, Kept DEF AfterCredentials
<1>36. ASSUME NEW s \in Sagas, Restart(s) PROVE CredentialsInv'
  <2>1. terminal' = terminal /\ ~Ready'
    BY <1>36 DEF Restart, Ends, persisted, Ready, Unloaded
  <2>2. \A t \in Sagas : saga'[t].step = "none"
    BY <1>36 DEF Restart, Ends, Idle
  <2> QED
    BY <2>1, <2>2, Kept DEF AfterCredentials
<1>37. CASE UNCHANGED vars
  BY <1>37, Kept DEF vars, persisted, Ready
<1> QED
  BY <1>1, <1>2, <1>3, <1>4, <1>5, <1>6, <1>7, <1>8, <1>9, <1>10, <1>11, <1>12, <1>13, <1>14,
     <1>15, <1>16, <1>17, <1>18, <1>19, <1>20, <1>21, <1>22, <1>23, <1>24, <1>25, <1>26, <1>27,
        <1>28, <1>29, <1>30, <1>31, <1>32, <1>33, <1>34, <1>35, <1>36,
     <1>37 DEF Next, User, Step, Goes

\* A terminal that is ready has an identity, a transaction number and
\* credentials, for any number of overlapping runs and any failures: the
\* credentials are written last, and what needs them comes after.
THEOREM CredentialsCorrect == Spec => []CredentialsBeforeReady
<1>1. Init => CredentialsInv
  BY KeysWritten DEF Init, CredentialsInv, Chain, Progress, Later, Ready, Has, Idle, Unloaded,
                     AfterCredentials
<1>2. CredentialsInv => CredentialsBeforeReady
  BY DEF CredentialsInv, CredentialsBeforeReady, Chain, Has
<1> QED
  BY <1>1, <1>2, CredentialsStep, TypesAndIdentity, PTL DEF Spec

-----------------------------------------------------------------------------
\* The run under way, when there is at most one; Idle when there is none.
Current(r) ==
  \/ r = Idle /\ \A s \in Sagas : saga[s].step = "none"
  \/ r.step # "none" /\ \E s \in Sagas : saga[s] = r

\* Without an overlap there is at most one run under way.
OneRun == "overlap" \notin faults =>
  \A s, t \in Sagas : saga[s].step # "none" /\ saga[t].step # "none" => s = t

\* A run that goes on is the one under way, and so it stays until it ends.
LEMMA Turned ==
  ASSUME OneRun, "overlap" \notin faults, NEW s \in Sagas, saga[s].step # "none",
         \A t \in Sagas \ {s} : saga'[t] = saga[t],
         saga'[s] = Idle \/ saga'[s].step # "none"
  PROVE  Current(saga[s]) /\ \A r : Current(r)' => r = saga'[s]
<1>1. Idle.step = "none"
  BY DEF Idle
<1>2. \A t \in Sagas \ {s} : saga[t].step = "none"
  BY DEF OneRun
<1> QED
  BY <1>1, <1>2, Zenon DEF Current

\* A run that starts with nothing under way is the one under way.
LEMMA Began ==
  ASSUME TypeInv, NEW s \in Sagas, NEW run, run.step # "none", Start(s, run), "overlap" \notin faults'
  PROVE  Current(Idle) /\ faults' = faults /\ \A r : Current(r)' => r = run
<1>1. Idle.step = "none"
  BY DEF Idle
<1>2. UnderWay = {}
  BY DEF Start, Once, Fault
<1>3. \A t \in Sagas : saga[t] = Idle
  BY <1>2 DEF UnderWay
<1>4. \A t \in Sagas : saga'[t] = IF t = s THEN run ELSE Idle
  BY <1>3 DEF Start, TypeInv, TypeOK
<1>5. faults' = faults
  BY <1>2 DEF Start
<1>6. Current(Idle)
  BY <1>1, <1>3 DEF Current
<1>7. \A r : Current(r)' => r = run
  BY <1>1, <1>4, Zenon DEF Current
<1> QED
  BY <1>5, <1>6, <1>7

\* What goes on is under way, and alone changes; what has gone wrong has.
Advances(s) ==
  /\ saga[s].step # "none"
  /\ \A t \in Sagas \ {s} : saga'[t] = saga[t]
  /\ saga'[s] = Idle \/ saga'[s].step # "none"
  /\ faults \subseteq faults'

LEMMA StepAdvances ==
  ASSUME TypeInv, NEW s \in Sagas, Goes(s) \/ Fails(s) \/ WriteRejected(s) \/ SettingMissing(s)
  PROVE  Advances(s)
<1>0. saga \in [Sagas -> RunStates] /\ saga[s] \in RunStates
  BY DEF TypeInv, TypeOK
<1>1. CASE End(s) /\ saga[s].step # "none" /\ faults \subseteq faults'
  BY <1>0, <1>1 DEF End, Advances
<1>2. ASSUME NEW step \in Steps, Continue(s, step), saga[s].step # "none", faults \subseteq faults'
      PROVE  Advances(s)
  BY <1>0, <1>2 DEF Continue, Advances, RunStates, Steps
<1>3. CASE Fails(s) \/ WriteRejected(s) \/ SettingMissing(s)
  BY <1>1, <1>3 DEF Fails, WriteRejected, SettingMissing, Caught, At, Fault, Once
<1>4. CASE LoadNothing(s) \/ ConfigureAdmin(s) \/ NothingToReset(s) \/ CompleteTask(s)
  BY <1>1, <1>4 DEF LoadNothing, ConfigureAdmin, NothingToReset, CompleteTask, At
<1>5. CASE LoadSettings(s) \/ DiscoverTenant(s) \/ StoreTenant(s) \/ RegisterClient(s) \/ StoreTerminal(s)
  BY <1>0, <1>5 DEF LoadSettings, DiscoverTenant, StoreTenant, RegisterClient, StoreTerminal, At,
    RunStates, Advances
<1>6. CASE AfterReady(s)
  BY <1>1, <1>2, <1>6 DEF AfterReady, At, Steps
<1>7. CASE \/ CreateBindingsInTenant(s) \/ StoreKey(s) \/ LastValues(s) \/ Download(s) \/ Install(s)
           \/ Authenticate(s) \/ Bind(s) \/ Configure(s)
  BY <1>2, <1>7 DEF CreateBindingsInTenant, StoreKey, LastValues, Download, Install, Authenticate, Bind,
     Configure, At, Steps
<1>8. CASE \/ NothingToDo(s) \/ ResetAsked(s) \/ DispatchFails(s) \/ Reset(s) \/ ResetBind(s)
           \/ ClearFlag(s)
  BY <1>2, <1>8 DEF NothingToDo, ResetAsked, DispatchFails, Reset, ResetBind, ClearFlag, At, Steps, Fault
<1> QED
  BY <1>3, <1>4, <1>5, <1>6, <1>7, <1>8 DEF Goes

LEMMA Stays ==
  ASSUME TypeInv, OneRun, NEW s \in Sagas, Advances(s)
  PROVE  OneRun'
BY DEF OneRun, Advances, Idle

LEMMA Starting ==
  ASSUME TypeInv, NEW s \in Sagas, NEW run, run.step # "none", Start(s, run)
  PROVE  OneRun' /\ faults \subseteq faults'
<1>1. faults \subseteq faults'
  BY DEF Start, Once, Fault
<1>2. "overlap" \notin faults' => UnderWay = {}
  BY DEF Start, Once, Fault
<1>3. UnderWay = {} => \A t \in Sagas \ {s} : saga'[t].step = "none"
  BY DEF Start, UnderWay, TypeInv, TypeOK, Idle
<1> QED
  BY <1>1, <1>2, <1>3 DEF OneRun

LEMMA Stopped ==
  ASSUME Ends
  PROVE  OneRun' /\ \A r : Current(r)' => r = Idle
<1>1. \A s \in Sagas : saga'[s].step = "none"
  BY DEF Ends, Idle
<1> QED
  BY <1>1, Zenon DEF OneRun, Current

LEMMA UserStarts ==
  ASSUME NEW s \in Sagas, User(s)
  PROVE  \E run : run.step # "none" /\ Start(s, run)
<1>1. /\ Run("initAppSettings", "loadSettings").step # "none"
      /\ Run("prepareTerminalSettingsChange", "configureAdmin").step # "none"
      /\ \A domain : [Run("setTenantSettings", "discoverTenant") EXCEPT !.domain = domain].step # "none"
      /\ \A i, c : [Run("setTerminalSettings", "registerClient") EXCEPT
                      !.deviceIdentity = i, !.storeChanged = c].step # "none"
  BY DEF Run, Idle
<1> QED
  BY <1>1, Zenon DEF User, Launch, Cancel, PrepareChange, SelectDomain, SaveTerminal

LEMMA OneRunStep == TypeInv /\ OneRun /\ [Next]_vars => OneRun' /\ faults \subseteq faults'
<1> SUFFICES ASSUME TypeInv, OneRun, [Next]_vars PROVE OneRun' /\ faults \subseteq faults'
  OBVIOUS
<1>1. ASSUME NEW s \in Sagas, User(s) PROVE OneRun' /\ faults \subseteq faults'
  BY <1>1, UserStarts, Starting
<1>2. ASSUME NEW s \in Sagas, Goes(s) \/ Fails(s) \/ WriteRejected(s) \/ SettingMissing(s)
      PROVE  OneRun' /\ faults \subseteq faults'
  BY <1>2, StepAdvances, Stays DEF Advances
<1>3. ASSUME Ends, faults \subseteq faults' PROVE OneRun' /\ faults \subseteq faults'
  BY <1>3, Stopped
<1>4. CASE Crash \/ \E s \in Sagas : Restart(s)
  BY <1>3, <1>4 DEF Crash, Restart, Once, Fault
<1>5. CASE SearchNumber \/ NumberAnswered \/ UNCHANGED vars
  BY <1>5 DEF SearchNumber, NumberAnswered, vars, OneRun
<1> QED
  BY <1>1, <1>2, <1>4, <1>5 DEF Next, Step

Identity == terminal["deviceIdentity"]

\* The steps in which the terminal's settings, its key and its database change.
Changing == {"storeTerminal", "storeKey", "lastValues", "download", "install", "authenticate", "bind"}

\* The steps of a run that has the persisted identity.
Provisioned == (Changing \ {"storeTerminal"})
                 \cup {"configure", "afterReady", "dispatchTasks", "reset", "resetBind"}

\* What the run under way presupposes of the tenant: it is in the form of the
\* tenant until it has written all of its values, and whatever comes after has
\* a tenant.
TenantFits(r) ==
  /\ r.step \in {"discoverTenant", "storeTenant"} =>
       r.domain # None /\ settings.appStatus = "PendingTenantSettings"
  /\ r.step = "storeTenant" => r.next \in 1 .. 2 /\ (r.next = 2 => tenant["domain"] = r.domain)
  /\ r.step # "storeTenant" => tenant["servicesBaseUrl"] = tenant["domain"]
  /\ (\/ r.step \notin {"none", "loadSettings", "discoverTenant", "storeTenant"}
      \/ settings.appStatus \notin {"Uninitialized", "PendingTenantSettings"})
     => tenant["domain"] # None
  /\ r.operation = "prepareTerminalSettingsChange" => r.step = "configureAdmin"

\* Of the terminal: its values are those of one terminal but while they are
\* written, when the terminal is not ready.
TerminalFits(r) ==
  /\ r.step = "storeTerminal" =>
       /\ r.next \in 1 .. 3
       /\ r.next >= 2 => Identity = r.deviceIdentity
       /\ r.next >= 3 => terminal["transactionNumber"] = r.deviceIdentity
  /\ r.step # "storeTerminal" =>
       terminal["transactionNumber"] = Identity /\ terminal["clientApiCredentials"] = Identity
  /\ r.step \in Provisioned => r.deviceIdentity = Identity
  /\ r.step = "createBindingsInTenant" /\ r.deviceIdentity # None => r.deviceIdentity = Identity
  /\ r.step \in Changing \cup {"loadSettings", "discoverTenant", "storeTenant",
                               "createBindingsInTenant", "registerClient"} => ~Ready
  /\ Ready => settings.deviceIdentity = Identity

\* Of the key: one that is persisted is kept, and a terminal that is written
\* gets one before there is a database.
KeyFits(r) ==
  /\ r.step \in {"storeTerminal", "storeKey"} =>
       r.key # 0 /\ (encryptionKey # 0 => r.key = encryptionKey)
  /\ r.step \notin {"storeTerminal", "storeKey"} /\ Identity # None => encryptionKey # 0
  /\ master # None => encryptionKey # 0 /\ master.key = encryptionKey

\* Of the store, as long as nothing goes wrong: the database is of the
\* persisted terminal's, or a run is on its way to bind that knows whether it is.
StoreFits(r) ==
  /\ ~misjudged
  /\ r.step \in Changing \cup {"registerClient"} /\ master # None =>
       r.storeChanged \/ master.store = r.deviceIdentity.retailLocationId
  /\ r.step \notin Changing /\ master # None =>
       Identity # None /\ master.store = Identity.retailLocationId
  /\ r.step = "configure" \/ Ready => master # None
  /\ settings.appStatus \in {"PendingTenantSettings", "PendingTerminalSettings"}
       /\ r.step \notin Changing \cup {"configure"} => settings.deviceIdentity = Identity
  /\ r.operation = "initAppSettings" /\ r.step = "createBindingsInTenant" =>
       r.deviceIdentity = Identity
  /\ r.operation = "initAppSettings" /\ r.step = "configureAdmin" => Identity = None
  /\ r.operation # "initAppSettings"
       /\ r.step \in {"discoverTenant", "storeTenant", "createBindingsInTenant", "configureAdmin"}
       => settings.deviceIdentity = Identity

\* The database has been bound for the terminal, of its store unless misjudged.
OfStore(deviceIdentity) ==
  master # None /\ (misjudged \/ master.store = deviceIdentity.retailLocationId)

\* Of the store, whatever goes wrong: unless it misjudges the database, a run
\* on its way to bind knows whether it is of another store; until then no
\* terminal is ready, and from then on the database is of the run's store.
MasterFits(r) ==
  /\ master # None /\ ~misjudged
       /\ (\/ r.step \in Changing \cup {"registerClient"}
           \/ r.step = "createBindingsInTenant" /\ r.deviceIdentity # None)
       => r.storeChanged \/ master.store = r.deviceIdentity.retailLocationId
  /\ r.step \in {"discoverTenant", "storeTenant"} => r.deviceIdentity = None
  /\ r.step = "configure" => OfStore(r.deviceIdentity)
  /\ r.step \in Changing \cup {"loadSettings", "discoverTenant", "storeTenant",
                               "createBindingsInTenant", "registerClient", "configure"} => ~Ready
  /\ Ready => OfStore(settings.deviceIdentity)

\* Of the reset: it is completed, and no longer flagged, with a new database.
ResetFits(r) ==
  /\ r.step \in {"clearFlag", "completeTask"} \/ resetTask = "completed" =>
       master # None /\ master.fresh
  /\ resetTask = "taken" /\ faults \subseteq {"interruption"} /\ ~resetFlag =>
       master # None /\ master.fresh

Fits(r) ==
  /\ faults \subseteq {"failure"} => TenantFits(r) /\ TerminalFits(r) /\ KeyFits(r)
  /\ faults = {} => StoreFits(r)
  /\ MasterFits(r)
  /\ ResetFits(r)

\* As long as runs do not overlap, what is persisted fits the run under way.
RunInv == OneRun /\ ("overlap" \notin faults => \A r : Current(r) => Fits(r))

\* A database that is made now.
LEMMA MasterMade ==
  ASSUME TypeInv, NEW s \in Sagas, saga[s].step \in Knowing,
         NEW m, m = NewMaster(saga[s].deviceIdentity)
  PROVE  /\ m # None
         /\ m.store = saga[s].deviceIdentity.retailLocationId
         /\ m.key = encryptionKey
         /\ m.fresh
<1>1. m \in Masters
  BY MasterTypes
<1>2. m # None
  BY <1>1, ProvisioningAssumption DEF Masters
<1> QED
  BY <1>2, Zenon DEF NewMaster

\* A database that is to be reset is otherwise what it was.
LEMMA MasterMarked ==
  ASSUME TypeInv, master # None, NEW m, m = [master EXCEPT !.fresh = FALSE]
  PROVE  m # None /\ m.store = master.store /\ m.key = master.key /\ ~m.fresh
<1>1. master \in Masters
  BY DEF TypeInv, TypeOK
<1>2. m \in Masters /\ m.store = master.store /\ m.key = master.key /\ m.fresh = FALSE
  BY <1>1 DEF Masters
<1> QED
  BY <1>2, ProvisioningAssumption DEF Masters

\* What is caught leaves the identity in the state, and ends the run.
LEMMA CaughtSettings ==
  ASSUME TypeInv, NEW s \in Sagas, Caught(s)
  PROVE  /\ saga'[s] = Idle
         /\ settings'.deviceIdentity = settings.deviceIdentity
         /\ settings'.appStatus = IF saga[s].operation = "prepareTerminalSettingsChange"
                                    THEN "PendingTerminalSettings" ELSE settings.appStatus
BY DEF Caught, End, TypeInv, TypeOK

\* A step of the run under way keeps what is persisted of the tenant fitting it.
LEMMA TenantFitsKept ==
  ASSUME TypeInv, NEW s \in Sagas, TenantFits(saga[s]),
         Goes(s) \/ Fails(s) \/ SettingMissing(s), NEW r, r = saga'[s]
  PROVE  TenantFits(r)'
<1>1. CASE LoadNothing(s) \/ LoadSettings(s) \/ CreateBindingsInTenant(s) \/ ConfigureAdmin(s)
  BY <1>1, KeysWritten DEF LoadNothing, LoadSettings, CreateBindingsInTenant, ConfigureAdmin,
     TenantFits, At, End, Continue, Success, Idle, TypeInv, TypeOK, RunStates, persisted, Ready,
     TenantKeys
<1>2. CASE DiscoverTenant(s) \/ StoreTenant(s)
  BY <1>2, KeysWritten DEF DiscoverTenant, StoreTenant, TenantFits, At, End, Continue, Success,
     Idle, TypeInv, TypeOK, RunStates, persisted, Ready, TenantKeys
<1>3. CASE RegisterClient(s) \/ StoreTerminal(s) \/ StoreKey(s)
  BY <1>3, KeysWritten DEF RegisterClient, StoreTerminal, StoreKey, TenantFits, At, End,
     Continue, Success, Idle, TypeInv, TypeOK, RunStates, persisted, Ready, TenantKeys
<1>4. CASE LastValues(s) \/ Download(s) \/ Install(s) \/ Authenticate(s)
  BY <1>4, KeysWritten DEF LastValues, Download, Install, Authenticate, TenantFits, At, End,
     Continue, Success, Idle, TypeInv, TypeOK, RunStates, persisted, Ready, TenantKeys
<1>5. CASE Bind(s) \/ Configure(s) \/ AfterReady(s)
  BY <1>5, KeysWritten DEF Bind, Configure, AfterReady, TenantFits, At, End, Continue, Success,
     Idle, TypeInv, TypeOK, RunStates, persisted, Ready, TenantKeys
<1>6. CASE NothingToDo(s) \/ ResetAsked(s) \/ DispatchFails(s) \/ NothingToReset(s)
  BY <1>6, KeysWritten DEF NothingToDo, ResetAsked, DispatchFails, NothingToReset, TenantFits,
     At, End, Continue, Success, Idle, TypeInv, TypeOK, RunStates, persisted, Ready, TenantKeys
<1>7. CASE Reset(s) \/ ResetBind(s) \/ ClearFlag(s) \/ CompleteTask(s)
  BY <1>7, KeysWritten DEF Reset, ResetBind, ClearFlag, CompleteTask, TenantFits, At, End,
     Continue, Success, Idle, TypeInv, TypeOK, RunStates, persisted, Ready, TenantKeys
<1>8. CASE Fails(s) \/ SettingMissing(s)
  BY <1>8, CaughtSettings, KeysWritten DEF Fails, SettingMissing, TenantFits, At, End, Continue,
     Success, Idle, TypeInv, TypeOK, RunStates, persisted, Ready, TenantKeys
<1> QED
  BY <1>1, <1>2, <1>3, <1>4, <1>5, <1>6, <1>7, <1>8 DEF Goes

\* Likewise the settings of the terminal,
LEMMA TerminalFitsKept ==
  ASSUME TypeInv, NEW s \in Sagas, TenantFits(saga[s]), TerminalFits(saga[s]),
         Goes(s) \/ Fails(s) \/ SettingMissing(s), NEW r, r = saga'[s]
  PROVE  TerminalFits(r)'
<1>1. CASE LoadNothing(s) \/ LoadSettings(s) \/ CreateBindingsInTenant(s) \/ ConfigureAdmin(s)
  BY <1>1, KeysWritten DEF LoadNothing, LoadSettings, CreateBindingsInTenant, ConfigureAdmin,
     TerminalFits, At, End, Continue, Success, Idle, TypeInv, TypeOK, RunStates, persisted, Ready,
     Knowing, Identified, Changing, Provisioned, TerminalKeys, Identity
<1>2. CASE DiscoverTenant(s) \/ StoreTenant(s)
  BY <1>2, KeysWritten DEF DiscoverTenant, StoreTenant, TerminalFits, At, End, Continue,
     Success, Idle, TypeInv, TypeOK, RunStates, persisted, Ready, Knowing, Identified, Changing,
     Provisioned, TerminalKeys, Identity, TenantFits
<1>3. CASE RegisterClient(s) \/ StoreTerminal(s) \/ StoreKey(s)
  BY <1>3, KeysWritten DEF RegisterClient, StoreTerminal, StoreKey, TerminalFits, At, End,
     Continue, Success, Idle, TypeInv, TypeOK, RunStates, persisted, Ready, Knowing, Identified,
     Changing, Provisioned, TerminalKeys, Identity
<1>4. CASE LastValues(s) \/ Download(s) \/ Install(s) \/ Authenticate(s)
  BY <1>4, KeysWritten DEF LastValues, Download, Install, Authenticate, TerminalFits, At, End,
     Continue, Success, Idle, TypeInv, TypeOK, RunStates, persisted, Ready, Knowing, Identified,
     Changing, Provisioned, TerminalKeys, Identity
<1>5. CASE Bind(s) \/ Configure(s) \/ AfterReady(s)
  BY <1>5, KeysWritten DEF Bind, Configure, AfterReady, TerminalFits, At, End, Continue,
     Success, Idle, TypeInv, TypeOK, RunStates, persisted, Ready, Knowing, Identified, Changing,
     Provisioned, TerminalKeys, Identity
<1>6. CASE NothingToDo(s) \/ ResetAsked(s) \/ DispatchFails(s) \/ NothingToReset(s)
  BY <1>6, KeysWritten DEF NothingToDo, ResetAsked, DispatchFails, NothingToReset, TerminalFits,
     At, End, Continue, Success, Idle, TypeInv, TypeOK, RunStates, persisted, Ready, Knowing,
     Identified, Changing, Provisioned, TerminalKeys, Identity
<1>7. CASE Reset(s) \/ ResetBind(s) \/ ClearFlag(s) \/ CompleteTask(s)
  BY <1>7, KeysWritten DEF Reset, ResetBind, ClearFlag, CompleteTask, TerminalFits, At, End,
     Continue, Success, Idle, TypeInv, TypeOK, RunStates, persisted, Ready, Knowing, Identified,
     Changing, Provisioned, TerminalKeys, Identity
<1>8. CASE Fails(s) \/ SettingMissing(s)
  BY <1>8, CaughtSettings, KeysWritten DEF Fails, SettingMissing, TerminalFits, At, End,
     Continue, Success, Idle, TypeInv, TypeOK, RunStates, persisted, Ready, Knowing, Identified,
     Changing, Provisioned, TerminalKeys, Identity
<1> QED
  BY <1>1, <1>2, <1>3, <1>4, <1>5, <1>6, <1>7, <1>8 DEF Goes

\* the key,
LEMMA KeyFitsKept ==
  ASSUME TypeInv, NEW s \in Sagas, TerminalFits(saga[s]), KeyFits(saga[s]),
         Goes(s) \/ Fails(s) \/ SettingMissing(s), NEW r, r = saga'[s]
  PROVE  KeyFits(r)'
<1>1. CASE LoadNothing(s) \/ LoadSettings(s) \/ CreateBindingsInTenant(s) \/ ConfigureAdmin(s)
  BY <1>1 DEF LoadNothing, LoadSettings, CreateBindingsInTenant, ConfigureAdmin, KeyFits, At,
     End, Continue, Success, Idle, TypeInv, TypeOK, RunStates, persisted, Knowing, Identified, Key,
     Identity, TerminalFits, Changing, Provisioned
<1>2. CASE DiscoverTenant(s) \/ StoreTenant(s)
  BY <1>2 DEF DiscoverTenant, StoreTenant, KeyFits, At, End, Continue, Success, Idle, TypeInv,
     TypeOK, RunStates, persisted, Knowing, Identified, Key, Identity, TerminalFits, Changing,
     Provisioned
<1>3. CASE RegisterClient(s) \/ StoreTerminal(s) \/ StoreKey(s)
  BY <1>3 DEF RegisterClient, StoreTerminal, StoreKey, KeyFits, At, End, Continue, Success,
     Idle, TypeInv, TypeOK, RunStates, persisted, Knowing, Identified, Key, Identity, TerminalFits,
     Changing, Provisioned
<1>4. CASE LastValues(s) \/ Download(s) \/ Install(s) \/ Authenticate(s)
  BY <1>4, MasterMade DEF LastValues, Download, Install, Authenticate, KeyFits, At, End,
     Continue, Success, Idle, TypeInv, TypeOK, RunStates, persisted, Knowing, Identified, Key,
     Identity, TerminalFits, Changing, Provisioned
<1>5. CASE Bind(s) \/ Configure(s) \/ AfterReady(s)
  BY <1>5, MasterMade DEF Bind, Configure, AfterReady, KeyFits, At, End, Continue, Success,
     Idle, TypeInv, TypeOK, RunStates, persisted, Knowing, Identified, Key, Identity, TerminalFits,
     Changing, Provisioned
<1>6. CASE NothingToDo(s) \/ ResetAsked(s) \/ DispatchFails(s) \/ NothingToReset(s)
  BY <1>6, MasterMarked DEF NothingToDo, ResetAsked, DispatchFails, NothingToReset, KeyFits, At,
     End, Continue, Success, Idle, TypeInv, TypeOK, RunStates, persisted, Knowing, Identified, Key,
     Identity, TerminalFits, Changing, Provisioned
<1>7. CASE Reset(s) \/ ResetBind(s) \/ ClearFlag(s) \/ CompleteTask(s)
  BY <1>7, MasterMade DEF Reset, ResetBind, ClearFlag, CompleteTask, KeyFits, At, End, Continue,
     Success, Idle, TypeInv, TypeOK, RunStates, persisted, Knowing, Identified, Key, Identity,
     TerminalFits, Changing, Provisioned
<1>8. CASE Fails(s) \/ SettingMissing(s)
  BY <1>8, CaughtSettings DEF Fails, SettingMissing, KeyFits, At, End, Continue, Success, Idle,
     TypeInv, TypeOK, RunStates, persisted, Knowing, Identified, Key, Identity, TerminalFits,
     Changing, Provisioned
<1> QED
  BY <1>1, <1>2, <1>3, <1>4, <1>5, <1>6, <1>7, <1>8 DEF Goes

\* the store, as long as nothing fails,
LEMMA StoreFitsKept ==
  ASSUME TypeInv, NEW s \in Sagas, TenantFits(saga[s]), TerminalFits(saga[s]), StoreFits(saga[s]),
         Goes(s) \/ SettingMissing(s), ~DispatchFails(s), NEW r, r = saga'[s]
  PROVE  StoreFits(r)'
<1>0. CASE LoadSettings(s)
  <2>1. ~misjudged'
    BY <1>0 DEF LoadSettings, StoreFits, At, Changing, Identity, OfAnotherStore
  <2> QED
    BY <1>0, <2>1 DEF LoadSettings, StoreFits, At, TypeInv, TypeOK, RunStates, persisted, Ready,
       Changing, Identity
<1>1. CASE LoadNothing(s) \/ CreateBindingsInTenant(s) \/ ConfigureAdmin(s)
  BY <1>1 DEF LoadNothing, CreateBindingsInTenant, ConfigureAdmin, StoreFits, At,
     End, Continue, Success, Idle, TypeInv, TypeOK, RunStates, persisted, Ready, Knowing,
     Identified, Changing, Identity, TerminalFits, Provisioned
<1>2. CASE DiscoverTenant(s) \/ StoreTenant(s)
  BY <1>2 DEF DiscoverTenant, StoreTenant, StoreFits, At, End, Continue, Success, Idle, TypeInv,
     TypeOK, RunStates, persisted, Ready, Knowing, Identified, Changing, Identity, TerminalFits,
     Provisioned
<1>3. CASE RegisterClient(s)
  BY <1>3 DEF RegisterClient, StoreFits, At, TypeInv, TypeOK, RunStates, persisted, Ready,
     Identity, Changing
<1>9. CASE StoreTerminal(s)
  <2>1. ~Ready /\ ~Ready'
    BY <1>9 DEF StoreTerminal, Ready, TerminalFits, At, Changing
  <2>2. /\ r.step \in {"storeTerminal", "storeKey"}
        /\ r.storeChanged = saga[s].storeChanged
        /\ r.deviceIdentity = saga[s].deviceIdentity
    BY <1>9 DEF StoreTerminal, At, TypeInv, TypeOK, RunStates
  <2> QED
    BY <1>9, <2>1, <2>2 DEF StoreTerminal, StoreFits, At, Changing
<1>10. CASE StoreKey(s)
  BY <1>10 DEF StoreKey, StoreFits, At, Continue, TypeInv, TypeOK, RunStates, Ready, Identity,
     Changing
<1>4. CASE LastValues(s) \/ Download(s) \/ Install(s) \/ Authenticate(s)
  BY <1>4, MasterMade DEF LastValues, Download, Install, Authenticate, StoreFits, At, End,
     Continue, Success, Idle, TypeInv, TypeOK, RunStates, persisted, Ready, Knowing, Identified,
     Changing, Identity, TerminalFits, Provisioned
<1>5. CASE Bind(s) \/ Configure(s) \/ AfterReady(s)
  BY <1>5, MasterMade DEF Bind, Configure, AfterReady, StoreFits, At, End, Continue, Success,
     Idle, TypeInv, TypeOK, RunStates, persisted, Ready, Knowing, Identified, Changing, Identity,
     TerminalFits, Provisioned
<1>6. CASE NothingToDo(s) \/ ResetAsked(s) \/ NothingToReset(s)
  BY <1>6, MasterMarked DEF NothingToDo, ResetAsked, NothingToReset, StoreFits, At, End,
     Continue, Success, Idle, TypeInv, TypeOK, RunStates, persisted, Ready, Knowing, Identified,
     Changing, Identity, TerminalFits, Provisioned
<1>7. CASE Reset(s) \/ ResetBind(s) \/ ClearFlag(s) \/ CompleteTask(s)
  BY <1>7, MasterMade DEF Reset, ResetBind, ClearFlag, CompleteTask, StoreFits, At, End,
     Continue, Success, Idle, TypeInv, TypeOK, RunStates, persisted, Ready, Knowing, Identified,
     Changing, Identity, TerminalFits, Provisioned
<1>8. CASE SettingMissing(s)
  BY <1>8, CaughtSettings DEF SettingMissing, StoreFits, At, Caught, End, Continue, Success,
     Idle, TypeInv, TypeOK, RunStates, persisted, Ready, Knowing, Identified, Changing, Identity,
     TerminalFits, Provisioned, TenantFits
<1> QED
  BY <1>0, <1>1, <1>2, <1>3, <1>4, <1>5, <1>6, <1>7, <1>8, <1>9, <1>10 DEF Goes

\* or that the run misjudges it, whatever fails,
LEMMA MasterFitsKept ==
  ASSUME TypeInv, NEW s \in Sagas, MasterFits(saga[s]),
         Goes(s) \/ Fails(s) \/ SettingMissing(s) \/ WriteRejected(s), NEW r, r = saga'[s]
  PROVE  MasterFits(r)'
<1>1. CASE LoadSettings(s)
  <2>1. r.step = "createBindingsInTenant" /\ r.deviceIdentity = terminal["deviceIdentity"]
    BY <1>1 DEF LoadSettings, At, TypeInv, TypeOK, RunStates
  <2>2. ~Ready /\ UNCHANGED <<master, settings>>
    BY <1>1 DEF LoadSettings, MasterFits, At
  <2>3. r.deviceIdentity # None /\ ~misjudged' /\ master # None =>
          master.store = r.deviceIdentity.retailLocationId
    BY <1>1, <2>1 DEF LoadSettings, OfAnotherStore
  <2> QED
    BY <2>1, <2>2, <2>3 DEF MasterFits, Changing, Ready
<1>2. CASE LoadNothing(s) \/ CreateBindingsInTenant(s) \/ ConfigureAdmin(s)
  BY <1>2 DEF LoadNothing, CreateBindingsInTenant, ConfigureAdmin, MasterFits, OfStore, At, End,
     Continue, Success, Idle, TypeInv, TypeOK, RunStates, Ready, Changing
<1>3. CASE DiscoverTenant(s) \/ StoreTenant(s) \/ RegisterClient(s) \/ StoreTerminal(s) \/ StoreKey(s)
  <2>1. UNCHANGED <<master, misjudged, settings>> /\ ~Ready
    BY <1>3 DEF DiscoverTenant, StoreTenant, RegisterClient, StoreTerminal, StoreKey, MasterFits,
       At, Changing
  <2>2. /\ r.storeChanged = saga[s].storeChanged
        /\ r.deviceIdentity = saga[s].deviceIdentity
        /\ r.step \in {"storeTenant", "createBindingsInTenant", "storeTerminal", "storeKey", "lastValues"}
        /\ r.step \in {"storeTerminal", "storeKey", "lastValues"} =>
             saga[s].step \in Changing \cup {"registerClient"}
        /\ r.step \in {"storeTenant", "createBindingsInTenant"} => r.deviceIdentity = None
    BY <1>3 DEF DiscoverTenant, StoreTenant, RegisterClient, StoreTerminal, StoreKey, At, Continue,
       MasterFits, Changing, TypeInv, TypeOK, RunStates
  <2> QED
    BY <2>1, <2>2 DEF MasterFits, Changing, Ready
<1>4. CASE LastValues(s) \/ Download(s) \/ Install(s) \/ Authenticate(s)
  BY <1>4, MasterMade DEF LastValues, Download, Install, Authenticate, MasterFits, OfStore, At,
     Continue, Success, TypeInv, TypeOK, RunStates, Ready, Knowing, Changing
<1>5. CASE Bind(s) \/ Configure(s) \/ AfterReady(s)
  BY <1>5, MasterMade DEF Bind, Configure, AfterReady, MasterFits, OfStore, At, End, Continue,
     Success, Idle, TypeInv, TypeOK, RunStates, Ready, Knowing, Changing
<1>6. CASE NothingToDo(s) \/ ResetAsked(s) \/ NothingToReset(s) \/ DispatchFails(s)
  BY <1>6, MasterMarked DEF NothingToDo, ResetAsked, NothingToReset, DispatchFails, MasterFits,
     OfStore, At, End, Continue, Idle, TypeInv, TypeOK, RunStates, Ready, Changing
<1>7. CASE Reset(s) \/ ResetBind(s) \/ ClearFlag(s) \/ CompleteTask(s)
  BY <1>7, MasterMade DEF Reset, ResetBind, ClearFlag, CompleteTask, MasterFits, OfStore, At,
     End, Continue, Success, Idle, TypeInv, TypeOK, RunStates, Ready, Knowing, Changing
<1>8. CASE Fails(s) \/ SettingMissing(s) \/ WriteRejected(s)
  <2>1. Caught(s) /\ UNCHANGED <<master, misjudged>>
    BY <1>8 DEF Fails, SettingMissing, WriteRejected
  <2>2. /\ r.step = "none"
        /\ settings'.deviceIdentity = settings.deviceIdentity
        /\ Ready' => Ready
    BY <2>1, CaughtSettings DEF Idle, Ready
  <2> QED
    BY <2>1, <2>2 DEF MasterFits, OfStore, Changing
<1> QED
  BY <1>1, <1>2, <1>3, <1>4, <1>5, <1>6, <1>7, <1>8 DEF Goes

\* and the reset, whatever fails.
LEMMA ResetFitsKept ==
  ASSUME TypeInv, NEW s \in Sagas, ResetFits(saga[s]), faults \subseteq faults',
         Goes(s) \/ Fails(s) \/ SettingMissing(s) \/ WriteRejected(s), NEW r, r = saga'[s]
  PROVE  ResetFits(r)'
<1>1. CASE LoadNothing(s) \/ LoadSettings(s) \/ CreateBindingsInTenant(s) \/ ConfigureAdmin(s)
  BY <1>1 DEF LoadNothing, LoadSettings, CreateBindingsInTenant, ConfigureAdmin, ResetFits, At,
     End, Continue, Success, Idle, TypeInv, TypeOK, RunStates, persisted, Knowing, Identified
<1>2. CASE DiscoverTenant(s) \/ StoreTenant(s)
  BY <1>2 DEF DiscoverTenant, StoreTenant, ResetFits, At, End, Continue, Success, Idle, TypeInv,
     TypeOK, RunStates, persisted, Knowing, Identified
<1>3. CASE RegisterClient(s) \/ StoreTerminal(s) \/ StoreKey(s)
  BY <1>3 DEF RegisterClient, StoreTerminal, StoreKey, ResetFits, At, End, Continue, Success,
     Idle, TypeInv, TypeOK, RunStates, persisted, Knowing, Identified
<1>4. CASE LastValues(s) \/ Download(s) \/ Install(s) \/ Authenticate(s)
  BY <1>4, MasterMade DEF LastValues, Download, Install, Authenticate, ResetFits, At, End,
     Continue, Success, Idle, TypeInv, TypeOK, RunStates, persisted, Knowing, Identified
<1>5. CASE Bind(s) \/ Configure(s) \/ AfterReady(s)
  BY <1>5, MasterMade DEF Bind, Configure, AfterReady, ResetFits, At, End, Continue, Success,
     Idle, TypeInv, TypeOK, RunStates, persisted, Knowing, Identified
<1>6. CASE NothingToDo(s) \/ NothingToReset(s)
  BY <1>6 DEF NothingToDo, NothingToReset, ResetFits, At, End, Continue, Idle, TypeInv, TypeOK,
     RunStates, persisted
<1>9. CASE ResetAsked(s)
  BY <1>9, MasterMarked DEF ResetAsked, ResetFits, At, Continue, TypeInv, TypeOK, RunStates
<1>10. CASE DispatchFails(s)
  <2>1. "failure" \in faults'
    BY <1>10 DEF DispatchFails, Fault
  <2> QED
    BY <1>10, <2>1 DEF DispatchFails, ResetFits, At, Continue, TypeInv, TypeOK, RunStates
<1>7. CASE Reset(s) \/ ResetBind(s) \/ ClearFlag(s) \/ CompleteTask(s)
  BY <1>7, MasterMade DEF Reset, ResetBind, ClearFlag, CompleteTask, ResetFits, At, End,
     Continue, Success, Idle, TypeInv, TypeOK, RunStates, persisted, Knowing, Identified
<1>8. CASE Fails(s) \/ SettingMissing(s) \/ WriteRejected(s)
  <2>1. Caught(s) /\ master' = master /\ resetFlag' = resetFlag
    BY <1>8 DEF Fails, SettingMissing, WriteRejected, persisted
  <2>2. saga'[s] = Idle
    BY <2>1, CaughtSettings
  <2>3. r.step = "none" /\ resetTask' \in {"failed", resetTask}
    BY <2>1, <2>2 DEF Caught, Idle
  <2> QED
    BY <2>1, <2>3 DEF ResetFits
<1> QED
  BY <1>1, <1>2, <1>3, <1>4, <1>5, <1>6, <1>7, <1>8, <1>9, <1>10 DEF Goes


\* So a step of the run under way keeps all of it.
LEMMA FitsKept ==
  ASSUME TypeInv, NEW s \in Sagas, Fits(saga[s]), faults \subseteq faults',
         Goes(s) \/ Fails(s) \/ SettingMissing(s) \/ WriteRejected(s), NEW r, r = saga'[s]
  PROVE  Fits(r)'
<1>1. ResetFits(r)' /\ MasterFits(r)'
  BY ResetFitsKept, MasterFitsKept DEF Fits
<1>2. WriteRejected(s) => "interruption" \in faults'
  BY DEF WriteRejected, Once, Fault
<1>3. Fails(s) \/ DispatchFails(s) => "failure" \in faults'
  BY DEF Fails, DispatchFails, Fault
<1>4. ASSUME faults' \subseteq {"failure"} PROVE (TenantFits(r) /\ TerminalFits(r) /\ KeyFits(r))'
  <2>1. TenantFits(saga[s]) /\ TerminalFits(saga[s]) /\ KeyFits(saga[s])
    BY <1>4 DEF Fits
  <2>2. Goes(s) \/ Fails(s) \/ SettingMissing(s)
    BY <1>2, <1>4
  <2> QED
    BY <2>1, <2>2, TenantFitsKept, TerminalFitsKept, KeyFitsKept
<1>5. ASSUME faults' = {} PROVE StoreFits(r)'
  <2>1. TenantFits(saga[s]) /\ TerminalFits(saga[s]) /\ StoreFits(saga[s])
    BY <1>5 DEF Fits
  <2>2. (Goes(s) \/ SettingMissing(s)) /\ ~DispatchFails(s)
    BY <1>2, <1>3, <1>5
  <2> QED
    BY <2>1, <2>2, StoreFitsKept
<1> QED
  BY <1>1, <1>4, <1>5 DEF Fits

\* What a run that starts presupposes holds with nothing under way.
LEMMA StartFits ==
  ASSUME TypeInv, Fits(Idle), NEW s \in Sagas, NEW run, Start(s, run), faults' = faults,
         \/ (Launch(s) \/ Cancel(s)) /\ run = Run("initAppSettings", "loadSettings")
         \/ PrepareChange(s) /\ run = Run("prepareTerminalSettingsChange", "configureAdmin")
         \/ \E domain \in Domains :
              /\ SelectDomain(s, domain)
              /\ run = [Run("setTenantSettings", "discoverTenant") EXCEPT !.domain = domain]
         \/ \E deviceIdentity \in DeviceIdentity :
              /\ SaveTerminal(s, deviceIdentity)
              /\ run = [Run("setTerminalSettings", "registerClient") EXCEPT
                          !.deviceIdentity = deviceIdentity,
                          !.storeChanged = StoreChanged(deviceIdentity)]
  PROVE  Fits(run)'
<1>1. /\ UNCHANGED <<tenant, terminal, encryptionKey, resetFlag, master, resetTask, faults>>
      /\ settings'.appStatus = settings.appStatus
      /\ settings'.deviceIdentity = settings.deviceIdentity
  BY DEF Start, persisted, TypeInv, TypeOK
<1>2. Idle.step = "none" /\ Idle.operation = "none"
  BY DEF Idle
<1>3. CASE (Launch(s) \/ Cancel(s)) /\ run = Run("initAppSettings", "loadSettings")
  <2>1. run.step = "loadSettings" /\ run.operation = "initAppSettings"
    BY <1>3 DEF Run, Idle
  <2>2. ~Ready /\ misjudged' = misjudged
    BY <1>3 DEF Launch, Cancel, Ready
  <2> QED
    BY <1>1, <1>2, <2>1, <2>2 DEF Fits, TenantFits, TerminalFits, KeyFits, StoreFits, MasterFits,
       OfStore, ResetFits, Ready, Identity, Changing, Provisioned
<1>4. CASE PrepareChange(s) /\ run = Run("prepareTerminalSettingsChange", "configureAdmin")
  <2>1. run.step = "configureAdmin" /\ run.operation = "prepareTerminalSettingsChange"
    BY <1>4 DEF Run, Idle
  <2>2. Ready /\ settings.appStatus = "Ready" /\ misjudged' = misjudged
    BY <1>4 DEF PrepareChange, Ready
  <2> QED
    BY <1>1, <1>2, <2>1, <2>2 DEF Fits, TenantFits, TerminalFits, KeyFits, StoreFits, MasterFits,
       OfStore, ResetFits, Ready, Identity, Changing, Provisioned
<1>5. ASSUME NEW domain \in Domains, SelectDomain(s, domain),
             run = [Run("setTenantSettings", "discoverTenant") EXCEPT !.domain = domain]
      PROVE  Fits(run)'
  <2>1. /\ run.step = "discoverTenant" /\ run.operation = "setTenantSettings" /\ run.domain = domain
        /\ run.deviceIdentity = None
    BY <1>5 DEF Run, Idle
  <2>2. domain # None /\ ~Ready /\ settings.appStatus = "PendingTenantSettings" /\ misjudged' = misjudged
    BY <1>5, ProvisioningAssumption DEF SelectDomain, Ready
  <2> QED
    BY <1>1, <1>2, <2>1, <2>2 DEF Fits, TenantFits, TerminalFits, KeyFits, StoreFits, MasterFits,
       OfStore, ResetFits, Ready, Identity, Changing, Provisioned
<1>6. ASSUME NEW deviceIdentity \in DeviceIdentity, SaveTerminal(s, deviceIdentity),
             run = [Run("setTerminalSettings", "registerClient") EXCEPT
                      !.deviceIdentity = deviceIdentity,
                      !.storeChanged = StoreChanged(deviceIdentity)]
      PROVE  Fits(run)'
  <2>1. /\ run.step = "registerClient" /\ run.operation = "setTerminalSettings"
        /\ run.deviceIdentity = deviceIdentity
        /\ run.storeChanged = StoreChanged(deviceIdentity)
    BY <1>6 DEF Run, Idle
  <2>2. ~Ready /\ settings.appStatus = "PendingTerminalSettings"
    BY <1>6 DEF SaveTerminal, Ready
  <2>3. faults = {} /\ master # None =>
          run.storeChanged \/ master.store = run.deviceIdentity.retailLocationId
    BY <1>2, <2>1, <2>2 DEF Fits, StoreFits, Changing, StoreChanged
  <2>4. faults = {} => ~misjudged'
    BY <1>6, <2>1, <2>3 DEF SaveTerminal, OfAnotherStore
  <2>5. StoreFits(run)' \/ faults # {}
    BY <1>1, <1>2, <2>1, <2>2, <2>3, <2>4 DEF Fits, StoreFits, Ready, Identity, Changing
  <2>6. MasterFits(run)'
    <3>1. master # None /\ ~misjudged' =>
            run.storeChanged \/ master.store = run.deviceIdentity.retailLocationId
      BY <1>6, <2>1 DEF SaveTerminal, OfAnotherStore
    <3> QED
      BY <1>1, <2>1, <2>2, <3>1 DEF MasterFits, Changing, Ready
  <2> QED
    BY <1>1, <1>2, <2>1, <2>2, <2>5, <2>6 DEF Fits, TenantFits, TerminalFits, KeyFits, ResetFits,
       Ready, Identity, Changing, Provisioned
<1> QED
  BY <1>3, <1>4, <1>5, <1>6

\* When the process ends, what is persisted is as with nothing under way.
LEMMA EndFits ==
  ASSUME TypeInv, Ends, faults \subseteq faults', NEW r, Fits(r),
         \/ r = Idle
         \/ r.step = "configure" /\ r \in RunStates
         \/ ~(faults' \subseteq {"failure"})
  PROVE  Fits(Idle)'
<1>1. /\ UNCHANGED <<tenant, terminal, encryptionKey, resetFlag, master, resetTask, misjudged>>
      /\ settings' = Unloaded /\ ~Ready'
  BY DEF Ends, persisted, Unloaded, Ready
<1>2. Idle.step = "none" /\ Idle.operation = "none"
  BY DEF Idle
<1>3. settings'.appStatus = "Uninitialized"
  BY <1>1 DEF Unloaded
<1>4. ResetFits(Idle)' /\ MasterFits(Idle)'
  BY <1>1, <1>2 DEF Fits, ResetFits, MasterFits, Changing
<1>5. CASE ~(faults' \subseteq {"failure"})
  BY <1>4, <1>5 DEF Fits
<1>6. CASE r = Idle \/ r.step = "configure"
  BY <1>1, <1>2, <1>3, <1>4, <1>6 DEF Fits, TenantFits, TerminalFits, KeyFits, StoreFits,
     Ready, Identity, Changing, Provisioned
<1> QED
  BY <1>5, <1>6

\* There is always a current run to speak of.
LEMMA SomeRun == \E r : Current(r)
BY Zenon DEF Current

LEMMA RunInvStep == TypeInv /\ RunInv /\ [Next]_vars => RunInv'
<1> SUFFICES ASSUME TypeInv, RunInv, [Next]_vars, "overlap" \notin faults', NEW r, Current(r)'
             PROVE  Fits(r)'
  BY OneRunStep DEF RunInv
<1>1. faults \subseteq faults' /\ OneRun /\ "overlap" \notin faults
  BY OneRunStep DEF RunInv
<1>2. \A q : Current(q) => Fits(q)
  BY <1>1 DEF RunInv
<1>3. ASSUME NEW s \in Sagas, User(s) PROVE Fits(r)'
  <2> DEFINE Starts(run) ==
         \/ (Launch(s) \/ Cancel(s)) /\ run = Run("initAppSettings", "loadSettings")
         \/ PrepareChange(s) /\ run = Run("prepareTerminalSettingsChange", "configureAdmin")
         \/ \E domain \in Domains :
              /\ SelectDomain(s, domain)
              /\ run = [Run("setTenantSettings", "discoverTenant") EXCEPT !.domain = domain]
         \/ \E deviceIdentity \in DeviceIdentity :
              /\ SaveTerminal(s, deviceIdentity)
              /\ run = [Run("setTerminalSettings", "registerClient") EXCEPT
                          !.deviceIdentity = deviceIdentity,
                          !.storeChanged = StoreChanged(deviceIdentity)]
  <2>1. PICK run : Starts(run)
    BY <1>3, Zenon DEF User
  <2>2. Start(s, run)
    BY <2>1, Zenon DEF Launch, Cancel, PrepareChange, SelectDomain, SaveTerminal
  <2>3. run.step # "none"
    BY <2>1 DEF Run, Idle
  <2>4. Current(Idle) /\ faults' = faults /\ r = run
    BY <2>2, <2>3, Began
  <2> QED
    BY <1>2, <2>1, <2>2, <2>4, StartFits
<1>4. ASSUME NEW s \in Sagas, Goes(s) \/ Fails(s) \/ WriteRejected(s) \/ SettingMissing(s)
      PROVE  Fits(r)'
  <2>1. Current(saga[s]) /\ r = saga'[s]
    BY <1>1, <1>4, StepAdvances, Turned DEF Advances
  <2> QED
    BY <1>1, <1>2, <1>4, <2>1, FitsKept
<1>5. CASE Crash
  <2>1. Ends /\ r = Idle
    BY <1>5, Stopped DEF Crash
  <2>2. CASE UnderWay = {}
    <3>1. \A s \in Sagas : saga[s] = Idle
      BY <2>2 DEF UnderWay
    <3>2. Current(Idle)
      BY <3>1 DEF Current, Idle
    <3> QED
      BY <1>1, <1>2, <2>1, <3>2, EndFits DEF Fits
  <2>3. CASE UnderWay # {}
    <3>1. "interruption" \in faults'
      BY <1>5, <2>3 DEF Crash, Once, Fault
    <3>2. PICK q : Current(q)
      BY SomeRun
    <3> QED
      BY <1>1, <1>2, <2>1, <3>1, <3>2, EndFits DEF Fits
  <2> QED
    BY <2>2, <2>3
<1>6. ASSUME NEW s \in Sagas, Restart(s) PROVE Fits(r)'
  <2>1. Ends /\ r = Idle
    BY <1>6, Stopped DEF Restart
  <2>2. saga[s].step = "configure" /\ saga[s] \in RunStates
    BY <1>6 DEF Restart, At, TypeInv, TypeOK
  <2>3. Current(saga[s])
    BY <2>2 DEF Current
  <2> QED
    BY <1>1, <1>2, <2>1, <2>2, <2>3, EndFits DEF Fits
<1>7. CASE SearchNumber \/ NumberAnswered \/ UNCHANGED vars
  <2>1. /\ UNCHANGED <<tenant, terminal, encryptionKey, resetFlag, master, resetTask, faults, saga,
                     misjudged>>
        /\ settings'.appStatus = settings.appStatus
        /\ settings'.deviceIdentity = settings.deviceIdentity
    BY <1>7 DEF SearchNumber, NumberAnswered, vars, persisted, TypeInv, TypeOK
  <2>2. Current(r)
    BY <2>1 DEF Current
  <2> QED
    BY <1>2, <2>1, <2>2 DEF Fits, TenantFits, TerminalFits, KeyFits, StoreFits, MasterFits,
       OfStore, ResetFits, Ready, Identity
<1> QED
  BY <1>3, <1>4, <1>5, <1>6, <1>7 DEF Next, Step

LEMMA RunInvAlways == Spec => []RunInv
<1>1. Init => RunInv
  <2> SUFFICES ASSUME Init PROVE RunInv
    OBVIOUS
  <2>1. \A r : Current(r) => r = Idle
    BY DEF Init, Current, Idle
  <2>2. OneRun
    BY DEF Init, OneRun, Idle
  <2>3. Fits(Idle)
    BY KeysWritten DEF Init, Fits, TenantFits, TerminalFits, KeyFits, StoreFits, MasterFits,
       ResetFits, Ready, Identity, Changing, Provisioned, Unloaded, Idle
  <2> QED
    BY <2>1, <2>2, <2>3 DEF RunInv
<1> QED
  BY <1>1, RunInvStep, TypesAndIdentity, PTL DEF Spec

\* A provisioned terminal has the settings of one terminal, and they are the
\* ones it works with, unless it was interrupted or overlapped: whatever fails,
\* a run that has begun to write goes on to the last of the values.
THEOREM SameTerminalAlways == Spec => []SameTerminal
<1>1. TypeInv /\ RunInv => SameTerminal
  <2> SUFFICES ASSUME TypeInv, RunInv, Ready, faults \subseteq {"failure"}
               PROVE  \A k \in DOMAIN terminal : terminal[k] = settings.deviceIdentity
    BY DEF SameTerminal
  <2>1. PICK r : Current(r)
    BY SomeRun
  <2>2. TerminalFits(r)
    BY <2>1 DEF RunInv, Fits
  <2>3. DOMAIN terminal = {"deviceIdentity", "transactionNumber", "clientApiCredentials"}
    BY KeysWritten DEF TypeInv, TypeOK
  <2> QED
    BY <2>2, <2>3 DEF TerminalFits, Identity, Changing
<1> QED
  BY <1>1, TypesAndIdentity, RunInvAlways, PTL

\* Likewise the tenant, from the form of the terminal on.
THEOREM SameTenantAlways == Spec => []SameTenant
<1>1. TypeInv /\ RunInv => SameTenant
  <2> SUFFICES ASSUME TypeInv, RunInv, faults \subseteq {"failure"},
                      settings.appStatus \notin {"Uninitialized", "PendingTenantSettings"}
               PROVE  tenant["domain"] # None /\ \A k \in DOMAIN tenant : tenant[k] = tenant["domain"]
    BY DEF SameTenant
  <2>1. PICK r : Current(r)
    BY SomeRun
  <2>2. TenantFits(r)
    BY <2>1 DEF RunInv, Fits
  <2>3. DOMAIN tenant = {"domain", "servicesBaseUrl"}
    BY KeysWritten DEF TypeInv, TypeOK
  <2> QED
    BY <2>2, <2>3 DEF TenantFits
<1> QED
  BY <1>1, TypesAndIdentity, RunInvAlways, PTL

\* The database can be read with the persisted key: a key once persisted is
\* kept, and there is one before there is a database.
THEOREM MasterReadableAlways == Spec => []MasterReadable
<1>1. RunInv => MasterReadable
  <2> SUFFICES ASSUME RunInv, master # None, faults \subseteq {"failure"}
               PROVE  master.key = encryptionKey
    BY DEF MasterReadable
  <2>1. PICK r : Current(r)
    BY SomeRun
  <2>2. KeyFits(r)
    BY <2>1 DEF RunInv, Fits
  <2> QED
    BY <2>2 DEF KeyFits
<1> QED
  BY <1>1, RunInvAlways, PTL

\* Whatever fails and whenever the process ends, a terminal that is ready works
\* on the database of its store, unless the last run to take a terminal met a
\* database of another store with an identity that does not tell so; and it
\* never does as long as nothing goes wrong, however often the store changes.
THEOREM MasterFollowsStoreAlways == Spec => []MasterFollowsStore
<1>1. RunInv => MasterFollowsStore
  <2> SUFFICES ASSUME RunInv PROVE MasterFollowsStore
    OBVIOUS
  <2>1. PICK r : Current(r)
    BY SomeRun
  <2>2. "overlap" \notin faults => MasterFits(r) /\ (faults = {} => StoreFits(r))
    BY <2>1 DEF RunInv, Fits
  <2>3. Ready /\ "overlap" \notin faults /\ ~misjudged =>
          master.store = settings.deviceIdentity.retailLocationId
    BY <2>2 DEF MasterFits, OfStore
  <2>4. misjudged => faults # {}
    BY <2>2 DEF StoreFits
  <2> QED
    BY <2>3, <2>4 DEF MasterFollowsStore
<1> QED
  BY <1>1, RunInvAlways, PTL

\* A reset that is reported as completed has happened, and one that was handed
\* out is not forgotten when the application ends, whenever that is.
THEOREM ResetHonouredAlways == Spec => []ResetHonoured
<1>1. RunInv => ResetHonoured
  <2> SUFFICES ASSUME RunInv, "overlap" \notin faults
               PROVE  /\ resetTask = "completed" => master.fresh
                      /\ resetTask = "taken" /\ faults \subseteq {"interruption"} =>
                           resetFlag \/ master.fresh
    BY DEF ResetHonoured
  <2>1. PICK r : Current(r)
    BY SomeRun
  <2>2. ResetFits(r)
    BY <2>1 DEF RunInv, Fits
  <2> QED
    BY <2>2, Zenon DEF ResetFits
<1> QED
  BY <1>1, RunInvAlways, PTL
=============================================================================
