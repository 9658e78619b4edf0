---------------------------- MODULE Provisioning ----------------------------
(***************************************************************************)
(* How a device becomes a terminal (src/sagas/settings.ts): the settings   *)
(* the application loads when it starts, the tenant, then the terminal the *)
(* user provisions, each persisted by one write after the other, and the   *)
(* reset of the master database the server may ask for.  The process may   *)
(* end between any two steps; what is persisted, the master database and   *)
(* the server's task are all that is left when it starts again.            *)
(*                                                                         *)
(* A saga is one run of a handler; it is at the step it will take next,    *)
(* and one step is what happens between two awaits.  Writes of adjacent    *)
(* values that nothing tells apart are one step.  What a terminal's        *)
(* settings are is left out: a value written for a terminal is that        *)
(* terminal, one written for a tenant is its domain.                       *)
(***************************************************************************)
EXTENDS Integers, Sequences

CONSTANTS Runs,        \* bound on the runs of handlers under way at a time
          Domains, Stores, Devices,
          LastKey,     \* bound on the encryption keys that are generated
          Combined,    \* bound: the faults that one behaviour may combine
          Leaving,     \* may the settings of a ready terminal be left? No screen does.
          None

ASSUME ProvisioningAssumption ==
  /\ Runs \in Nat /\ LastKey \in Nat
  /\ Leaving \in BOOLEAN
  /\ Combined \subseteq SUBSET {"overlap", "failure", "interruption"}
  /\ None \notin Domains /\ None \notin [retailLocationId : Stores, deviceId : Devices]
  /\ None \notin [store : Stores, key : 0 .. LastKey, fresh : BOOLEAN]

VARIABLES tenant,         \* persisted by setTenantSettings
          terminal,       \* persisted by setTerminalSettings
          encryptionKey,  \* persisted by setTerminalSettings, 0: there is none
          resetFlag,      \* persisted: is the master database to be reset?
          master,         \* the master database on the device
          resetTask,      \* the server's view of the last reset it asked for
          lastKey,        \* the last encryption key generated
          saga,           \* the runs of handlers under way
          settings,       \* state.settings
          fatal,          \* is the user interface in the fatal error mode?
          search,         \* is the search of the last transaction number under way?
          keyboard,       \* is the keyboard open in the form of the terminal?
          faults,         \* what has gone wrong so far
          misjudged       \* history: a database of another store met the last run unseen

persisted == <<tenant, terminal, encryptionKey, resetFlag>>
screen == <<search, keyboard>>
vars == <<persisted, master, resetTask, lastKey, saga, settings, fatal, screen, faults, misjudged>>

DeviceIdentity == [retailLocationId : Stores, deviceId : Devices]

Sagas == 1 .. Runs

\* The values in the order they are written: with the domain go the tenant's
\* configuration and realm, with the base URL the other URLs, with the identity
\* the store's currency, locale and profile, with the API's credentials those
\* of the synchronization.
TenantKeys == <<"domain", "servicesBaseUrl">>

\* Mutant: the credentials are written before the transaction number.
TerminalKeys_CredentialsFirst == <<"deviceIdentity", "clientApiCredentials", "transactionNumber">>

TerminalKeys == <<"deviceIdentity", "transactionNumber", "clientApiCredentials">>

Written(keys) == {keys[i] : i \in DOMAIN keys}

Statuses == {"Uninitialized", "PendingTenantSettings", "PendingTerminalSettings",
             "PendingDatabaseDownload", "Ready"}

Operations == {"initAppSettings", "setTenantSettings", "setTerminalSettings",
               "prepareTerminalSettingsChange"}

Steps == {"loadSettings", "discoverTenant", "storeTenant", "createBindingsInTenant",
          "configureAdmin", "registerClient", "storeTerminal", "storeKey", "lastValues",
          "download", "install", "authenticate", "bind", "configure", "afterReady",
          "dispatchTasks", "reset", "resetBind", "clearFlag", "completeTask"}

Idle == [operation |-> "none", step |-> "none", next |-> 0, domain |-> None,
         deviceIdentity |-> None, storeChanged |-> FALSE, key |-> 0]

UnderWay == {s \in Sagas : saga[s] # Idle}

Unloaded == [appStatus |-> "Uninitialized", inProgress |-> FALSE, deviceIdentity |-> None]

Init ==
  /\ tenant = [k \in Written(TenantKeys) |-> None]
  /\ terminal = [k \in Written(TerminalKeys) |-> None]
  /\ encryptionKey = 0
  /\ resetFlag = FALSE
  /\ master = None
  /\ resetTask = "none"
  /\ lastKey = 0
  /\ saga = [s \in Sagas |-> Idle]
  /\ settings = Unloaded
  /\ fatal = FALSE
  /\ search = FALSE
  /\ keyboard = FALSE
  /\ faults = {}
  /\ misjudged = FALSE

-----------------------------------------------------------------------------
Fault(kind) ==
  /\ faults \cup {kind} \in Combined
  /\ faults' = faults \cup {kind}

\* Bound: a behaviour is interrupted once, and overlaps two runs once.
Once(kind) == kind \notin faults /\ Fault(kind)

\* A database that is created now, and so since the last reset was asked for.
NewMaster(deviceIdentity) ==
  [store |-> deviceIdentity.retailLocationId, key |-> encryptionKey, fresh |-> TRUE]

\* takeEvery forks a handler whatever is under way; each begins with a request.
Start(s, run) ==
  /\ saga[s] = Idle /\ 1 .. s - 1 \subseteq UnderWay
  /\ saga' = [saga EXCEPT ![s] = run]
  /\ settings' = [settings EXCEPT !.inProgress = TRUE]
  /\ IF UnderWay = {} THEN UNCHANGED faults ELSE Once("overlap")
  /\ UNCHANGED <<persisted, master, resetTask, lastKey, fatal, search>>

Run(operation, step) == [Idle EXCEPT !.operation = operation, !.step = step]

\* RootContainer.componentDidMount
Launch(s) ==
  /\ settings.appStatus = "Uninitialized" /\ UnderWay = {} /\ ~fatal
  /\ Start(s, Run("initAppSettings", "loadSettings"))
  /\ UNCHANGED <<keyboard, misjudged>>

\* The form of the tenant takes a domain while an earlier one is handled.
SelectDomain(s, domain) ==
  /\ settings.appStatus = "PendingTenantSettings" /\ ~fatal
  /\ Start(s, [Run("setTenantSettings", "discoverTenant") EXCEPT !.domain = domain])
  /\ UNCHANGED <<keyboard, misjudged>>

\* The last transaction number is looked for when its field is focused.
SearchNumber ==
  /\ settings.appStatus = "PendingTerminalSettings" /\ ~fatal
  /\ ~settings.inProgress /\ ~search
  /\ search' = TRUE
  /\ keyboard' = TRUE
  /\ settings' = [settings EXCEPT !.inProgress = TRUE]
  /\ UNCHANGED <<persisted, master, resetTask, lastKey, saga, fatal, faults, misjudged>>

\* Found or not, the answer ends the progress, be it that of another request.
NumberAnswered ==
  /\ search
  /\ search' = FALSE
  /\ settings' = [settings EXCEPT !.inProgress = FALSE]
  /\ UNCHANGED <<persisted, master, resetTask, lastKey, saga, fatal, keyboard, faults,
                 misjudged>>

StoreChanged(deviceIdentity) ==
  /\ settings.deviceIdentity # None
  /\ deviceIdentity.retailLocationId # settings.deviceIdentity.retailLocationId

\* What the comparison is for: is there a database, of another store?
OfAnotherStore(deviceIdentity) == master # None /\ master.store # deviceIdentity.retailLocationId

\* The buttons of the form are disabled while there is progress, its keyboard
\* is not.
SaveTerminal(s, deviceIdentity) ==
  /\ settings.appStatus = "PendingTerminalSettings" /\ ~fatal
  /\ settings.inProgress => keyboard
  /\ Start(s, [Run("setTerminalSettings", "registerClient") EXCEPT
                 !.deviceIdentity = deviceIdentity, !.storeChanged = StoreChanged(deviceIdentity)])
  /\ keyboard' = FALSE
  /\ misjudged' = (OfAnotherStore(deviceIdentity) /\ ~StoreChanged(deviceIdentity))

\* Cancel, and the back button of the device, which the form goes on heeding
\* under the screen of the download.
Cancel(s) ==
  /\ \/ settings.appStatus = "PendingTerminalSettings"
     \/ settings.appStatus = "PendingDatabaseDownload" /\ settings.deviceIdentity = None
  /\ ~settings.inProgress /\ ~fatal
  /\ Start(s, Run("initAppSettings", "loadSettings"))
  /\ keyboard' = FALSE
  /\ UNCHANGED misjudged

PrepareChange(s) ==
  /\ Leaving
  /\ settings.appStatus = "Ready" /\ UnderWay = {} /\ ~fatal
  /\ Start(s, Run("prepareTerminalSettingsChange", "configureAdmin"))
  /\ UNCHANGED <<keyboard, misjudged>>

-----------------------------------------------------------------------------
At(s, step) == saga[s].step = step

Continue(s, step) == saga' = [saga EXCEPT ![s].step = step]

End(s) == saga' = [saga EXCEPT ![s] = Idle]

Success(appStatus, deviceIdentity) ==
  settings' = [appStatus |-> appStatus, inProgress |-> FALSE, deviceIdentity |-> deviceIdentity]

\* Mutant: no failure is put.
Caught_Silent(s) ==
  /\ fatal' = (fatal \/ saga[s].operation = "initAppSettings")
  /\ resetTask' = IF saga[s].step \in {"reset", "resetBind"} THEN "failed" ELSE resetTask
  /\ End(s)
  /\ UNCHANGED settings

\* The catch block: initAppSettings goes on to the fatal error mode, and
\* prepareTerminalSettingsChange to its success all the same.
Caught(s) ==
  /\ settings' =
       [settings EXCEPT !.inProgress = FALSE,
          !.appStatus = IF saga[s].operation = "prepareTerminalSettingsChange"
                          THEN "PendingTerminalSettings" ELSE @]
  /\ fatal' = (fatal \/ saga[s].operation = "initAppSettings")
  /\ resetTask' = IF saga[s].step \in {"reset", "resetBind"} THEN "failed" ELSE resetTask
  /\ End(s)

\* A service, a container or the database fails.
Fails(s) ==
  /\ \/ saga[s].step \in {"loadSettings", "discoverTenant", "createBindingsInTenant",
                          "configureAdmin", "registerClient", "lastValues", "download",
                          "authenticate", "bind", "configure", "afterReady", "resetBind"}
     \/ At(s, "reset") /\ resetFlag
  /\ Caught(s)
  /\ Fault("failure")
  /\ UNCHANGED <<persisted, master, lastKey, screen, misjudged>>

\* The storage of the device rejects a write.
WriteRejected(s) ==
  /\ saga[s].step \in {"storeTenant", "storeTerminal", "storeKey", "clearFlag"}
  /\ Caught(s)
  /\ Once("interruption")
  /\ UNCHANGED <<persisted, master, lastKey, screen, misjudged>>

\* A setting that was never persisted is used.
SettingMissing(s) ==
  /\ \/ At(s, "configureAdmin") /\ tenant["servicesBaseUrl"] = None
     \/ At(s, "authenticate") /\ None \in {tenant["servicesBaseUrl"], terminal["clientApiCredentials"]}
  /\ Caught(s)
  /\ UNCHANGED <<persisted, master, lastKey, screen, faults, misjudged>>

-----------------------------------------------------------------------------
LoadNothing(s) ==
  /\ At(s, "loadSettings")
  /\ tenant["domain"] = None
  /\ Success("PendingTenantSettings", terminal["deviceIdentity"])
  /\ End(s)
  /\ UNCHANGED <<persisted, master, resetTask, lastKey, fatal, screen, faults, misjudged>>

\* Mutant: the identity in the state is preferred to the persisted one.
LoadSettings_FromState(s) ==
  /\ At(s, "loadSettings")
  /\ tenant["domain"] # None
  /\ saga' = [saga EXCEPT
                ![s].deviceIdentity = IF settings.deviceIdentity = None
                                        THEN terminal["deviceIdentity"] ELSE settings.deviceIdentity,
                ![s].step = "createBindingsInTenant"]
  /\ UNCHANGED <<persisted, master, resetTask, lastKey, settings, fatal, screen, faults,
                 misjudged>>

LoadSettings(s) ==
  /\ At(s, "loadSettings")
  /\ tenant["domain"] # None
  /\ saga' = [saga EXCEPT ![s].deviceIdentity = terminal["deviceIdentity"],
                          ![s].step = "createBindingsInTenant"]
  /\ misjudged' = IF terminal["deviceIdentity"] = None THEN misjudged
                  ELSE OfAnotherStore(terminal["deviceIdentity"])
  /\ UNCHANGED <<persisted, master, resetTask, lastKey, settings, fatal, screen, faults>>

DiscoverTenant(s) ==
  /\ At(s, "discoverTenant")
  /\ saga' = [saga EXCEPT ![s].step = "storeTenant", ![s].next = 1]
  /\ UNCHANGED <<persisted, master, resetTask, lastKey, settings, fatal, screen, faults,
                 misjudged>>

\* Mutant: a base URL that is there is kept.
StoreTenant_KeepsUrl(s) ==
  LET next == saga[s].next IN
  /\ At(s, "storeTenant")
  /\ tenant' = [tenant EXCEPT ![TenantKeys[next]] =
                  IF next = 2 /\ @ # None THEN @ ELSE saga[s].domain]
  /\ saga' = [saga EXCEPT
                ![s].next = next + 1,
                ![s].step = IF next = Len(TenantKeys) THEN "createBindingsInTenant" ELSE @]
  /\ UNCHANGED <<terminal, encryptionKey, resetFlag, master, resetTask, lastKey, settings, fatal,
                 screen, faults, misjudged>>

StoreTenant(s) ==
  LET next == saga[s].next IN
  /\ At(s, "storeTenant")
  /\ tenant' = [tenant EXCEPT ![TenantKeys[next]] = saga[s].domain]
  /\ saga' = [saga EXCEPT
                ![s].next = next + 1,
                ![s].step = IF next = Len(TenantKeys) THEN "createBindingsInTenant" ELSE @]
  /\ UNCHANGED <<terminal, encryptionKey, resetFlag, master, resetTask, lastKey, settings, fatal,
                 screen, faults, misjudged>>

CreateBindingsInTenant(s) ==
  /\ At(s, "createBindingsInTenant")
  /\ Continue(s, IF saga[s].deviceIdentity = None THEN "configureAdmin" ELSE "authenticate")
  /\ UNCHANGED <<persisted, master, resetTask, lastKey, settings, fatal, screen, faults,
                 misjudged>>

ConfigureAdmin(s) ==
  /\ At(s, "configureAdmin")
  /\ tenant["servicesBaseUrl"] # None
  /\ Success("PendingTerminalSettings",
             IF saga[s].operation = "initAppSettings" THEN None ELSE settings.deviceIdentity)
  /\ End(s)
  /\ UNCHANGED <<persisted, master, resetTask, lastKey, fatal, screen, faults, misjudged>>

\* Mutant: every registration makes a new key.
Key_AlwaysNew == lastKey + 1

\* getCouchbaseEncryptionKey: a stored key is kept, as the database needs it.
Key == IF encryptionKey = 0 THEN lastKey + 1 ELSE encryptionKey

RegisterClient(s) ==
  /\ At(s, "registerClient")
  /\ Key <= LastKey
  /\ lastKey' = IF Key > lastKey THEN Key ELSE lastKey
  /\ saga' = [saga EXCEPT ![s].key = Key, ![s].step = "storeTerminal", ![s].next = 1]
  /\ UNCHANGED <<persisted, master, resetTask, settings, fatal, screen, faults, misjudged>>

StoreTerminal(s) ==
  LET next == saga[s].next IN
  /\ At(s, "storeTerminal")
  /\ terminal' = [terminal EXCEPT ![TerminalKeys[next]] = saga[s].deviceIdentity]
  /\ saga' = [saga EXCEPT
                ![s].next = next + 1,
                ![s].step = IF next = Len(TerminalKeys) THEN "storeKey" ELSE @]
  /\ UNCHANGED <<tenant, encryptionKey, resetFlag, master, resetTask, lastKey, settings, fatal,
                 screen, faults, misjudged>>

StoreKey(s) ==
  /\ At(s, "storeKey")
  /\ encryptionKey' = saga[s].key
  /\ Continue(s, "lastValues")
  /\ UNCHANGED <<tenant, terminal, resetFlag, master, resetTask, lastKey, settings, fatal, screen,
                 faults, misjudged>>

\* A database is downloaded only when there is none.
LastValues(s) ==
  /\ At(s, "lastValues")
  /\ Continue(s, IF master = None THEN "download" ELSE "authenticate")
  /\ UNCHANGED <<persisted, master, resetTask, lastKey, settings, fatal, screen, faults,
                 misjudged>>

\* The first event of the download: if it is under way, its screen is shown.
Download(s) ==
  /\ At(s, "download")
  /\ \/ Success("PendingDatabaseDownload", settings.deviceIdentity)
     \/ UNCHANGED settings
  /\ Continue(s, "install")
  /\ UNCHANGED <<persisted, master, resetTask, lastKey, fatal, screen, faults, misjudged>>

\* Without a file, or if it cannot be installed, the database is left to bind.
Install(s) ==
  /\ At(s, "install")
  /\ master' \in {master, NewMaster(saga[s].deviceIdentity)}
  /\ Continue(s, "authenticate")
  /\ UNCHANGED <<persisted, resetTask, lastKey, settings, fatal, screen, faults, misjudged>>

Authenticate(s) ==
  /\ At(s, "authenticate")
  /\ None \notin {tenant["servicesBaseUrl"], terminal["clientApiCredentials"]}
  /\ Continue(s, "bind")
  /\ UNCHANGED <<persisted, master, resetTask, lastKey, settings, fatal, screen, faults,
                 misjudged>>

\* Mutant: the location is compared with the one persisted by now.
Bind_ComparedLate(s) ==
  /\ At(s, "bind")
  /\ master' = IF \/ master = None
                  \/ saga[s].deviceIdentity.retailLocationId
                       # terminal["deviceIdentity"].retailLocationId
                 THEN NewMaster(saga[s].deviceIdentity) ELSE master
  /\ Continue(s, "configure")
  /\ UNCHANGED <<persisted, resetTask, lastKey, settings, fatal, screen, faults, misjudged>>

\* bindTerminalDIContainer
Bind(s) ==
  /\ At(s, "bind")
  /\ master' = IF master = None \/ saga[s].storeChanged
                 THEN NewMaster(saga[s].deviceIdentity) ELSE master
  /\ Continue(s, "configure")
  /\ UNCHANGED <<persisted, resetTask, lastKey, settings, fatal, screen, faults, misjudged>>

Configure(s) ==
  /\ At(s, "configure")
  /\ Success("Ready", saga[s].deviceIdentity)
  /\ Continue(s, "afterReady")
  /\ UNCHANGED <<persisted, master, resetTask, lastKey, fatal, screen, faults, misjudged>>

\* The exchange rates and what else follows; initAppSettings goes on to the tasks.
AfterReady(s) ==
  /\ At(s, "afterReady")
  /\ IF saga[s].operation = "initAppSettings" THEN Continue(s, "dispatchTasks") ELSE End(s)
  /\ UNCHANGED <<persisted, master, resetTask, lastKey, settings, fatal, screen, faults,
                 misjudged>>

-----------------------------------------------------------------------------
NothingToDo(s) ==
  /\ At(s, "dispatchTasks")
  /\ Continue(s, "reset")
  /\ UNCHANGED <<persisted, master, resetTask, lastKey, settings, fatal, screen, faults,
                 misjudged>>

\* databaseResetTask
ResetAsked(s) ==
  /\ At(s, "dispatchTasks")
  /\ resetFlag' = TRUE
  /\ resetTask' = "taken"
  /\ master' = IF master = None THEN None ELSE [master EXCEPT !.fresh = FALSE]
  /\ Continue(s, "reset")
  /\ UNCHANGED <<tenant, terminal, encryptionKey, lastKey, settings, fatal, screen, faults,
                 misjudged>>

\* The catch block of initializeTaskDispatcher clears the flag.
DispatchFails(s) ==
  /\ At(s, "dispatchTasks")
  /\ resetFlag' = FALSE
  /\ Fault("failure")
  /\ Continue(s, "reset")
  /\ UNCHANGED <<tenant, terminal, encryptionKey, master, resetTask, lastKey, settings, fatal, screen,
                 misjudged>>

NothingToReset(s) ==
  /\ At(s, "reset")
  /\ ~resetFlag
  /\ End(s)
  /\ UNCHANGED <<persisted, master, resetTask, lastKey, settings, fatal, screen, faults,
                 misjudged>>

\* Mutant: the flag is cleared before the database is bound anew.
Reset_FlagFirst(s) ==
  /\ At(s, "reset")
  /\ resetFlag
  /\ resetFlag' = FALSE
  /\ Continue(s, "resetBind")
  /\ UNCHANGED <<tenant, terminal, encryptionKey, master, resetTask, lastKey, settings, fatal,
                 screen, faults, misjudged>>

\* The database is shut down and, perhaps, downloaded.
Reset(s) ==
  /\ At(s, "reset")
  /\ resetFlag
  /\ \/ Success("PendingDatabaseDownload", settings.deviceIdentity)
     \/ UNCHANGED settings
  /\ Continue(s, "resetBind")
  /\ UNCHANGED <<persisted, master, resetTask, lastKey, fatal, screen, faults, misjudged>>

ResetBind(s) ==
  /\ At(s, "resetBind")
  /\ master' = NewMaster(saga[s].deviceIdentity)
  /\ Success("Ready", saga[s].deviceIdentity)
  /\ misjudged' = FALSE
  /\ Continue(s, "clearFlag")
  /\ UNCHANGED <<persisted, resetTask, lastKey, fatal, screen, faults>>

ClearFlag(s) ==
  /\ At(s, "clearFlag")
  /\ resetFlag' = FALSE
  /\ Continue(s, "completeTask")
  /\ UNCHANGED <<tenant, terminal, encryptionKey, master, resetTask, lastKey, settings, fatal,
                 screen, faults, misjudged>>

CompleteTask(s) ==
  /\ At(s, "completeTask")
  /\ resetTask' = "completed"
  /\ End(s)
  /\ UNCHANGED <<persisted, master, lastKey, settings, fatal, screen, faults, misjudged>>

-----------------------------------------------------------------------------
\* The process ends, and nothing but what is persisted is left.
Ends ==
  /\ saga' = [s \in Sagas |-> Idle]
  /\ settings' = Unloaded
  /\ fatal' = FALSE
  /\ search' = FALSE
  /\ keyboard' = FALSE
  /\ UNCHANGED <<persisted, master, resetTask, lastKey, misjudged>>

Crash ==
  /\ settings # Unloaded \/ fatal
  /\ \/ UnderWay = {} /\ UNCHANGED faults
     \/ UnderWay # {} /\ Once("interruption")
  /\ Ends

\* New configuration values: the application restarts itself.
Restart(s) ==
  /\ At(s, "configure")
  /\ \/ UnderWay = {s} /\ UNCHANGED faults
     \/ UnderWay # {s} /\ Once("interruption")
  /\ Ends

User(s) ==
  \/ Launch(s) \/ Cancel(s) \/ PrepareChange(s)
  \/ \E domain \in Domains : SelectDomain(s, domain)
  \/ \E deviceIdentity \in DeviceIdentity : SaveTerminal(s, deviceIdentity)

Goes(s) ==
  \/ LoadNothing(s) \/ LoadSettings(s)
  \/ DiscoverTenant(s) \/ StoreTenant(s) \/ CreateBindingsInTenant(s) \/ ConfigureAdmin(s)
  \/ RegisterClient(s) \/ StoreTerminal(s) \/ StoreKey(s) \/ LastValues(s)
  \/ Download(s) \/ Install(s) \/ Authenticate(s) \/ Bind(s) \/ Configure(s) \/ AfterReady(s)
  \/ NothingToDo(s) \/ ResetAsked(s) \/ DispatchFails(s)
  \/ NothingToReset(s) \/ Reset(s) \/ ResetBind(s) \/ ClearFlag(s) \/ CompleteTask(s)

Step(s) == Goes(s) \/ Fails(s) \/ WriteRejected(s) \/ SettingMissing(s) \/ Restart(s)

Next == (\E s \in Sagas : User(s) \/ Step(s)) \/ SearchNumber \/ NumberAnswered \/ Crash

Spec == Init /\ [][Next]_vars

\* What has been called answers; nobody has to do anything, or to crash.
Fairness == WF_vars(NumberAnswered) /\ \A s \in Sagas : WF_vars(Step(s))

FairSpec == Spec /\ Fairness

-----------------------------------------------------------------------------
RunStates == [operation : Operations \cup {"none"}, step : Steps \cup {"none"}, next : Nat,
         domain : Domains \cup {None}, deviceIdentity : DeviceIdentity \cup {None},
         storeChanged : BOOLEAN, key : 0 .. LastKey]

Masters == [store : Stores, key : 0 .. LastKey, fresh : BOOLEAN]

TypeOK ==
  /\ tenant \in [Written(TenantKeys) -> Domains \cup {None}]
  /\ terminal \in [Written(TerminalKeys) -> DeviceIdentity \cup {None}]
  /\ encryptionKey \in 0 .. LastKey /\ lastKey \in 0 .. LastKey
  /\ resetFlag \in BOOLEAN
  /\ master \in Masters \cup {None}
  /\ resetTask \in {"none", "taken", "failed", "completed"}
  /\ saga \in [Sagas -> RunStates]
  /\ settings \in [appStatus : Statuses, inProgress : BOOLEAN,
                   deviceIdentity : DeviceIdentity \cup {None}]
  /\ fatal \in BOOLEAN /\ search \in BOOLEAN /\ keyboard \in BOOLEAN
  /\ faults \subseteq {"overlap", "failure", "interruption"}
  /\ misjudged \in BOOLEAN

Ready == settings.appStatus = "Ready"

\* Whatever fails and whenever the process ends, a terminal that is ready has
\* an identity, a transaction number to go on from and credentials: those are
\* written in an order that makes the credentials the last of the three.
CredentialsBeforeReady ==
  Ready => None \notin {terminal["deviceIdentity"], terminal["transactionNumber"],
                        terminal["clientApiCredentials"]}

\* Unless it is interrupted between two writes or overlapped, provisioning
\* leaves the persisted settings of one terminal, and that terminal is ready.
SameTerminal ==
  Ready /\ faults \subseteq {"failure"} =>
    \A k \in DOMAIN terminal : terminal[k] = settings.deviceIdentity

\* Likewise, all that is persisted for the tenant is of one domain.
SameTenant ==
  settings.appStatus \notin {"Uninitialized", "PendingTenantSettings"} /\ faults \subseteq {"failure"} =>
    tenant["domain"] # None /\ \A k \in DOMAIN tenant : tenant[k] = tenant["domain"]

\* The master database can be read with the persisted key.
MasterReadable ==
  master # None /\ faults \subseteq {"failure"} => master.key = encryptionKey

\* Whatever fails and is interrupted, a terminal works on the database of its
\* store: "if the retail location has changed, the master database will be
\* deleted" (sagas/settings.ts:639, setTerminalSettings).  One kind of run is
\* excused: the last to take the terminal found a database of another store and
\* compared with an identity that does not tell so.  That takes a failure or an
\* interruption before; as long as nothing goes wrong, no run misjudges.
MasterFollowsStore ==
  /\ Ready /\ "overlap" \notin faults /\ ~misjudged =>
       master.store = settings.deviceIdentity.retailLocationId
  /\ misjudged => faults # {}

\* The promise without that excuse.
MasterAlwaysOfStore ==
  Ready /\ "overlap" \notin faults => master.store = settings.deviceIdentity.retailLocationId

\* A reset the server was told of as completed has happened since it asked,
\* and one it has handed out is not forgotten by an application that ends.
ResetHonoured ==
  /\ resetTask = "completed" /\ "overlap" \notin faults => master.fresh
  /\ resetTask = "taken" /\ faults \subseteq {"interruption"} => resetFlag \/ master.fresh

\* A request for settings is answered: the forms do not stay disabled.
Answered == settings.inProgress ~> ~settings.inProgress
=============================================================================
