# Verification of the Captone UI

TLA+ models of the state machinery of the Captone UI, a React Native point-of-sale client, with
TLC runs over small instances and proofs, checked by TLAPS, of the theorems that hold for every
instance. Paths below are relative to the repository's `src/` directory.

Contents: [inventory](#inventory) - [how the code runs](#how-the-code-runs-and-what-a-step-is) -
[modules](#modules) - [runs](#runs) - [proofs](#proofs) - [what is only
model-checked](#what-is-only-model-checked) - [what is not modelled](#what-is-not-modelled) -
[plan](#plan).

## Inventory

The client is a redux store with two middlewares (`reduxStore.ts`): the modal middleware and
redux-saga. Screens (`components/`) dispatch `REQUEST` actions; reducers (`reducers/`) record that
work is in progress; some fifty saga modules (`sagas/`), forked under one root saga (`sagas/index.ts`),
call the selling engine, the devices, the services and the device's storage, and put `SUCCESS` or
`FAILURE`, which reducers record and screens render. The engine, the drivers and the adapters are
packages of other repositories, reached through an inversify container.

| Component | State | Operations | Interacts with | What is hard | What makes it correct |
|---|---|---|---|---|---|
| **Modal dialogs** `middleware/modalMiddleware.ts`, `reducers/modal.ts`, `sagas/alertModal.ts` | a module-level buffer of show requests; for each dialog whether it is displayed and its props | show, hide, destroy; show and dismiss the alert | every screen and saga that opens a dialog | the middleware dispatches from inside a dispatch; one flag, `cancellable`, turns a single place into several | one dialog at a time; a request is served; a locked alert stays |
| **Point of sale session** `sagas/businessState.ts`, `reducers/businessState.ts`, `reducers/uiState.ts` | operations in flight and their counter; state values and displayed transaction; logical state, mode | business operation request, success, failure; mode changes; delayed clearing of a void | engine, screens, data events, device, payment and domain notifications | any number of operations in flight; an answer worked off three seconds later; failures before anything is known | the counter counts; screens follow the register; the open transaction stays displayed; nobody waits forever |
| **Data events** `sagas/resolveDataEvent.ts` | none | scan, keyboard wedge, keyed data, payment data, UI data, each in some twenty modes | session, scanner, discriminator, drawers, returns | five handlers of the same shape with small differences, exceptions inside and outside of `try` | the notification says whether an operation was started |
| **Scanner control** `sagas/deviceService.ts`, `deviceNotification.ts`, `updateUiState.ts` | scanner on or off | enable, disable, by ten handlers | session, data events | the last writer wins | on only where allowed; never left off |
| **Remote calls** `sagas/remoteCall.ts`, `reducers/remoteCall.ts` | processing flag, last sequence number | announcement of a start or an end; opening the channel | engine, loading dialog | announcements out of order | a call that ended never blocks the screens |
| **Cash drawers** `sagas/cashDrawers.ts`, `reducers/cashDrawers.ts`, `ScanDrawerScreen.tsx` | list on the device; progress, drawer, error | validate, update; pages; store | data events, main screen, till operations | tasks overlap; pages fail; one flag for two kinds of task | whole lists only; no listed drawer refused; every validation answered |
| **Loading dialog** `ModalContainer.tsx`, `sagas/userNotification.ts` | the error, message, payment, drawer and reversal it waits for; which dialog it asked for | shows and hides of the loading dialog upon every update; buttons of the dialogs | the modules above, messages of the engine | its updates dispatch, and come back to it as the next update; other dialogs displace its own | displayed exactly while something is in progress or told; a message stays until it is read; updates come to rest |
| **Provisioning and settings** `sagas/settings.ts`, `clientRegistration.ts`, `downloadDatabase.ts`, `auth.ts` | tenant and terminal settings and the key on the device; the master database; application status | start, set tenant, prepare, set and cancel terminal, reset of the database | storage, services, the server's tasks | settings written one by one; a restart decides by what it finds; the form can be submitted twice | a ready terminal is whole; the database can be read and is of its store; a reset is honoured |
| **Authentication and access lock** `sagas/auth.ts`, `appAccessLock.ts` | credentials, session, lock | log in and out, configure, lock | provisioning, every HTTP request | listeners installed again and again | a rejected credential locks, once |
| **Returns** `sagas/return.ts`, `reducers/return.ts`, `components/return/` | the transaction of the return session; working and starting quantities; the basket's | search, choose, enter a quantity in four ways, done, back | data events, session | two copies of the quantities, changed in place; the session is the engine's, the quantities the screen's | never more than is available; what is submitted is what was shown, of the same transaction |
| **Customer orders** `sagas/orders.ts`, `reducers/orders.ts`, `components/customerOrder/` | order shown, progress, selection | search, scan, pick up, cancel | session, main screen, transaction history | late answers of searches nobody waits for; failures nobody is told | the selection fits order and action; the slice is not left busy |
| **Totalling** `MainScreen.tsx` and the screens it opens up to the payment | the navigator's stack; flags of the main screen for what it waits for | Total, the buttons of nine screens, answers, frames | session, loading dialog, navigator | the screen learns only that the last operation ended, not which; callbacks close over what was true earlier | payment only for a totalled transaction; no step skipped; no order without its customer |
| **Transaction searches** `sagas/transactions.ts`, `suspendedTransactions.ts` | one list, one progress flag | three searches | session | failure of another kind of request | every search ends its progress |
| **Receipts** `sagas/receipt.ts`, `reducers/receipt.ts` | options of the transaction on display | choose, search, clear | session | cleared by the session's delayed clearing | options last as long as their transaction |
| **Inquiries, reference data** | results | request, answer | adapters | little | an answer per request |
| **Notification channels** | channel per source | open, close, forward | engine, devices | opened anew at each initialisation | one live listener |
| **Timers, tasks, camera, store, screens** | - | - | - | little, or presentation only | - |

`PROJECT.json` lists these with their sources and status, and under `hazards` what can go wrong, at its line.

## How the code runs, and what a step is

JavaScript is single threaded, and redux-saga runs everything that a stimulus sets off - the
reducers, each `takeEvery` handler up to its next `call` of a promise, the actions those put - before
the next stimulus. A step of most modules is therefore one stimulus
(a dispatch from a screen, the settling of a promise, a timer, a channel's message) with all it sets
off, in the order the sagas put it. Two modules look inside such a step, because the code's
difficulty is there: the steps of `ModalMiddleware` are the frames of the JavaScript call stack, and
those of `LoadingDialog` the puts of a saga and the updates of the container after each of them
(react-redux renders a put at once, but only once for all that an event handler dispatches).
`Provisioning` takes one step from await to await.

Interleaving comes from promises. `takeEvery` starts a task for every request, and background
requests are real: `deviceStatusNotification.ts`, `paymentNotification.ts` and
`domainNotification.ts` request business operations whenever a device or the payment service says
so, also while the operator's own operation is under way.

An exception that leaves a saga ends the root saga with all watchers: `halted` in `PosSession`,
`CashDrawers`, `Returns` and `CustomerOrders`. A screen's exception ends the application: `screen = "crashed"` in
`CashDrawers`, `halted` in `CustomerOrders`; one of the middleware, `dialogs.broken` in
`LoadingDialog`. Nothing is modelled after any of them. The process that ends and starts again is
modelled where something outlives it, in `Provisioning` (`Crash`, `Restart`).

## Modules

| Module | Models | Extends |
|---|---|---|
| `ModalMiddleware` | the middleware, the reducers behind it, the alert saga | |
| `DialogSlot` | abstract: a single place for a dialog | |
| `DataEvents` | the decisions of `resolveDataEvent.ts`, as operators | |
| `PosSession` | operations, UI state, scanner, delayed clearing, data events | `DataEvents` |
| `Register` | abstract: the screens follow the register | |
| `RemoteCall` | announcements, channel, reducer | |
| `CashDrawers` | validation and update tasks, pages, device list, drawer screen | |
| `LoadingDialog` | the container of the dialogs with remote calls, operations, messages and the middleware's place | `RemoteCall` |
| `Provisioning` | start, tenant, terminal, database and its reset, with crashes | |
| `Returns` | returns with an original transaction | |
| `CustomerOrders` | search, pickup and cancellation of customer orders | |
| `Totalling` | from the Total button to the payment | |
| `MC*` | constants of the runs | the module they name |
| `*Proofs` | theorems | the module they name, TLAPS |

An operator with an underscore in its name (`HandleShow_IgnoresLock`) is a mutant: its definition
bears the mistake the comment before it names. It is used nowhere in the specifications; a mutant put in
place of the definition it is named after must violate the property `PROJECT.json` names, which shows that
the property depends on that part of the code.

### ModalMiddleware

`buffer` is the module-level array of `middleware/modalMiddleware.ts`; `view[m]` what redux-modal's reducer holds
for a dialog (`absent`, `hidden`, `shown`, and `locked` for shown with `cancellable: false`, which
only the alert saga asks for); `stack` the nested `store.dispatch` calls, a frame being an action on its way
into the middleware or past it (`next`). `thrown` records a TypeError, `asked` what the caller
dispatched last. `HandleShow`, `HandleHide` and `HandleDestroy` are the three branches of the
middleware, `Reduce` is `next(action)`; `ShowModal`, `HideModal`, `DestroyModal` and `DismissAlert` (a hide
and a destroy in one go) are the callers', which call when the stack is empty. `splice(-1, 1)`, which
removes the last element, and `buffer[-1]`, which throws, are modelled as they are in JavaScript.

*Simplified*: listeners of the store run at the end of every `next`, also inside a nested
dispatch, and a component could show a dialog from there; the model's callers wait for the call
before theirs to return.

*Promise*: with no locked dialog, `ServesSlot`: the middleware implements `DialogSlot`. The mapping
takes for the place's dialog the displayed one that is older (`Front`), since for one step within a hide two are displayed, and for the
pending request the one asked until only destroys, which change nothing, are left.

*Found*: `ShowServed` fails once an alert that is not cancellable has been involved: only
`buffer[0]` is asked to make room, whether or not it is the dialog in front. A trace of the same origin shows a displayed dialog destroyed without
being hidden: hiding the alert drops the buffer entry of the dialog displayed over it
(`modalMiddleware.ts:53`), and line 59 then lets its destroy through, against the comment at line 60.

### DataEvents and PosSession

`DataEvents` says, for a source of data, a logical state, a mode and what the entry is (`Entries`, the discriminator's
verdict), which outcomes the saga has: whether a business operation is requested, and which
notification follows - `started` and `processed` are `dataEvent.success` with
`businessProcessStarted` true and false, `throws` leaves the saga. Where the code asks for data that
is not modelled, the outcome is a choice. The input of the operation is left out.

`PosSession` keeps `engine` (the register's logical state and transaction number, external),
`pending` (operations the saga awaits), `business` and `ui` (the two reducers), `delayed` (closings
that wait for `DELAY_BEFORE_RECEIPT_CLEAR`), `receipt` (the transaction the receipt options were
chosen for) and `halted`. `lapped` is a history variable: the last state put on the screens is the result of a void
the register has left behind.

| Action | Code |
|---|---|
| `RequestOperation`, `Begin` | `businessOperation.request`; counter up, scanner off |
| `OperationSucceeds` | the answer in `performBusinessOperation`: reducers, then one of three continuations: closing with delay, closing at once, new logical state and mode |
| `OperationFails` | its `catch`: counter down, scanner by the gate, fatal error without a logical state |
| `DelayEnds` | after the delay: logical state, no mode, clear the receipt |
| `SetMode` | `updateUiMode.request` of a screen and the scanner update after it |
| `ChooseReceipt` | the receipt category screens |
| `DataEvent` | `resolveDataEvent` with the notification's scanner update (`deviceNotification.ts`) |

The engine's answers (`EngineResults`) are an external model, from how `businessState.ts` and the screens use
the result: stay, move within a transaction, open one, close the open one. Operations overlap with each other and with the delayed
clearing of a void at any time.

*Left out*: tender control states, the feature action buttons, scrolling, sounds.

*Promise*: `FollowsRegister`: the register leaves the screens behind only from a state they have been shown, and they catch up
(`Register`), unless they are `astray`: what they have caught up with was out of date, or the root saga is gone.

*Found*, and told here because no comment of the code says otherwise:
- The delayed end of a void puts the logical state of its own, old result (`businessState.ts:113`), also when operations have opened the next
  transaction meanwhile: its screens are those of no transaction until the next answer. The clearing of the display that follows is guarded by the
  transaction number, this is not. `OpenTransactionFresh` excuses it (`lapped`).
- The same interleaving loses receipt options chosen for the next transaction: `CLEAR_RECEIPT` resets them (`reducers/receipt.ts:87`)
  without the look at the transaction number that `reducers/businessState.ts:64` takes. `ReceiptOptionsKept` excuses it (`ClearsLate`).
- In the transaction history `ScannerNotStuck` fails (`resolveDataEvent.ts:352`, run `pos_scanner_stuck`).

### RemoteCall

`listening` is the channel, `announced` the announcements made so far, in any order, `state` the reducer's. `Announce` is the emitter,
the channel and the reducer in one: the watcher takes every message as it is emitted. Every
announcement comes at most once; `Initialized` may come again at any time.

*Observed*: a start that is dropped because another call is processing does not leave its sequence
number, although the comment at `reducers/remoteCall.ts:20-22` has the latest one always saved. The
flag then falls open, as `EndsRemembered` needs it to, and no property suffers. The module has no run of its own: `LoadingDialog` extends it.

### CashDrawers

`version` and `Versions` are the service's list and how it changes, `local` the list of the device, `tasks` the
sagas under way (kind, drawer, stage, what was fetched, offset), `state` the reducer's, `screen` and
`outcome` the drawer screen and what it made of the last validation, `overlapped` a history variable: two tasks, or an update and the open screen,
have been under way at once; `from` (of a task) and `torn` (of the device's list) are history, too: which lists the pages came from, and that the
pages stored last came from more than one, or that one of them had failed. The stages are where a saga waits: `load` for the storage, `page` for
the service, `store` for the storage. Any page may fail; an error counts as an empty page of an empty list, as in
the code's `catch`. The storage may reject the load and the write, around which there is no `try`
(`StorageRejects`): the exception ends every task and the root saga (`halted`), and `inProgress` stays.

*Left out*: the previous drawer of the screen's other branch; the till
operations that follow.

*Found*:
- When a later page fails, the pages before it are stored as the list and searched (`cashDrawers.ts:130-133`), although the comment at line 77 speaks of
  the full list: a listed drawer is refused, and the device keeps a part. So it does with pages of two lists. `WholeList` and
  `RefusedIsUnlisted` excuse just these (`torn`, `from`).
- When the storage rejects, the validation is never answered: no alert comes, and the screens wait for `inProgress`. `Answered` excuses it (`halted`).
- The screen takes the end of an update for the end of a validation and reads a result it has not
  (`ScanDrawerScreen.tsx:272`); `NoCrash` excuses it (`overlapped`). Of two overlapping
  tasks the one that stores last wins, also with the earlier list (`cashDrawers.ts:70,80`).

### LoadingDialog

Extends `RemoteCall` and adds `store` (the parts of business state, UI state, user notification and modal block
the container maps to its props), `dialogs` (the middleware, one request being one step, with its buffer, what is
displayed and whether it has thrown), and the container: `seen` (its props), `committed` and `wanted`
(its state, and its state with what `setState` has queued). The nested calls of the middleware, a hide inside a show and the show of the request behind
it, are a recursive function of the number of requests (`ShowAmong`). `todo` are the puts a saga has
left in this stretch, `due` a change that is not rendered yet. `piled` is a history variable: an alert has left several requests behind.

`Put` and `Update` are what the scheduler of JavaScript does by itself: a saga's put, and
`componentWillReceiveProps` with `componentDidUpdate` (`WillReceiveProps`, `DidUpdate` and the
operators before them, one for each member the container calls from there). All others are stimuli, which come when the
stretch before has come to its end: operations of the screens and of the background, their answers, messages, remote calls, and
the buttons of the container's own dialogs, of the alert and of the suspension.

*Left out*: the dialogs for self-checkout, loyalty and uploaded logs (further users of the same place), the camera,
native alerts, the cached spinner of the tax refund.

*Found*, and told here because no comment of the code says otherwise:
- A manual reversal that waits asks for its dialog at each update, anything processed asks for the loading dialog; both in one
  place, they displace each other for ever once a remote call, an error or another operation comes to it.
  `Rests` excuses this (`Contended`).
- An alert open over a retried post void, and a manager's approval asked for meanwhile, lead the middleware to `buffer[-1].payload`
  and its TypeError (`dialogs.broken`).
- An alert in front of three other requests or more (approval, retry and reversal asked for while it is open) leaves at least two of them in the buffer when it is
  dismissed, with no locked one in front. A show then asks only the first to make room, and the request is lost sight of behind the
  others: with an operation under way no loading dialog is displayed, and the screens are free. It needs three answers of the engine at one alert.
  It is what `modal_show_dropped` shows of the middleware alone, seen from the container; `LoadingShown` excuses it (`piled`).
- The error of an operation that fails while another one is under way is never displayed: only
  the end of the last one is looked at (`ModalContainer.tsx:478`). An error that stays in the business state
  keeps a payment on the device from being announced.
- After an answer with which a tender's authorization is no longer being cancelled, be it that of a background operation, the container does what the cancel button of
  the retry's dialog does, which closes a message (`ModalContainer.tsx:320-321`, `779-789`, `651-658`): whatever is told at that moment goes unread.
  `MessageStays` excuses that answer alone (`CancellingOver`).
- The error of an operation that fails replaces the text of a message that is told (`handleError` sets `error` alone). The model does not tell texts apart:
  `MessageStays` is about whether something is told.
- A dialog for a retry that is displaced leaves its message in the store, and a second message that comes while one is
  displayed is lost when that one is closed.
- The container passes `cancelable: true` where the middleware reads `cancellable`; it makes no difference, since only `false` is
  told apart. The receipt summary blocks dialogs with the flag the alert uses.

### Provisioning

`tenant` and `terminal` are what is persisted, value by value in the order of the writes; adjacent values no later start tells apart
are one. `master` is the database on the device (of which store, under which key, fresh since a reset was asked), `resetTask` the server's
view of the reset, `saga` the runs of handlers: an operation, the step it takes next and what it carries
between them. A step is what lies between two awaits.

| Action | Code |
|---|---|
| `Launch`, `LoadNothing`, `LoadSettings` | `initAppSettings`: the status by the domain and the identity found (`settings.ts:417-444`) |
| `SelectDomain` to `CreateBindingsInTenant` | `setTenantSettings` with `setTenantValues` |
| `ConfigureAdmin`, `PrepareChange` | `prepareTerminalSettings` |
| `SaveTerminal` to `Authenticate` | `setTerminalSettings`: registration, values, key, download, authentication |
| `Bind` to `CompleteTask` | the terminal's start and the reset of the database the server asked for |
| `SearchNumber`, `NumberAnswered`, `Cancel` | the form `TerminalSettings.tsx` with its search |
| `Fails`, `WriteRejected`, `SettingMissing`, `DispatchFails` | the failures, each with its `catch` |
| `Crash`, `Restart` | the process ends; the next one knows what is persisted |

`faults` records what has gone wrong in a behaviour: a failure, an interruption, two runs that overlap. The properties say which of
them they survive. `misjudged` is a history variable, too: the last run that took a terminal found a database of another store, and the identity it compared
with does not tell so. `MasterFollowsStore` excuses such a run, whatever else has failed or was interrupted, and says that there is none as long as
nothing has gone wrong.

*Found*:
- The reset asked for between `bind` and `clearFlag` of an overlapping start is lost; `ResetHonoured` is about behaviours without this overlap.
- A process that ends between the tenant's domain and its service addresses starts with the fatal error each time (`settings.ts:528`):
  the domain alone marks a tenant as selected.
- A terminal provisioned for another store after a failed attempt keeps the first store's database and is ready on it, although "if the retail location has
  changed, the master database will be deleted" (`settings.ts:639-640`): the store is compared with the one in the state (`668`), which an attempt that
  fails after the download has not set. The run `provisioning_store_kept` shows it with a single failure and a terminal that was never ready before.
- `LoginScreen.tsx:96` copies the lock only in its constructor, and nothing stores `appLocked: false`; `HardwareBackButtonHandler` never removes
  its listener; `PENDING_DATABASE_DOWNLOAD` stays after a failure; `TerminalSettingsScreen` starts anew without saying whether it is a tablet. A
  failure to dispatch the server's tasks clears a reset taken at an earlier start (`tasks.ts:43`).

### Returns

`session`, `recorded`, `transaction` and `basket` are the engine's, as its state values show them; `working` and `starting` the
slice's quantities, each with the transaction it was gathered for (`of`), which the code does not record; `screen`, `found`
and `autoMove` the screens'. `pending` holds the operations without an answer, with all they carry. `Enters` are the four ways
of entering a quantity (`ChangeQuantity` for typing and the two buttons, `ReturnAll`, `ScanItem`), `Navigates` the presses that move between screens, `Answer`
the engine's answers with what the mounted screen does upon them.

*External*: the answers of the engine (`ChosenAnswered`, `ExitAnswered`, ...). What is available of a line is taken to be a natural
number: of a negative one, a typed 0 would store that negative.

*Found*:
- A scan gathers fulfilled lines, which have no working quantity: a TypeError leaves the saga
  (`return.ts:171,248`). So does a scan after the engine has dropped the transaction.
- A single search result is recorded by two operations, and without the checks of return period and currency; two transactions
  asked for at once leave the details of one with the quantities of the other (`contended`).
- A scan requires an order management system and sold items where the screen offers more; *Return all* sets ordered lines the screen disables.
- An input source switched on and off again counts as a change. Cancelling with one result mounts the search anew, which
  chooses it again (Peru, Costa Rica). A late answer of images clears the images of the transaction shown.

### CustomerOrders

The slice (`inProgress`, `order`, `hasSelection`, `selection`), the screens (`screen`, `mode`, `fromHistory`, `requested`) and the
operations in flight. `Send` is the request with the reset of the slice (`Reset`); the answers are `OrderFound`, `NothingFound`, `SearchFails`,
`ActionDone`, and `NotTold` for a refused pickup or cancellation, of which the slice learns nothing. `MainMovesOn`
is what the main screen does once a transaction is open.

*Found*: late answers. The answer of an earlier search replaces the slice under the operator's hands: the next quantity typed finds
no selection, and the exception ends the root saga (`orders.ts:158`); one that finds nothing while the details are open is counted as an
order there, and reading its type ends the application (`OrderInquiryDetailScreen.tsx:325`). After a refused pickup the slice stays busy and the details, whose order the
request dropped, stay empty (`orders.ts:104`). The order stays in the slice after the details of a
history entry are left; the answer of a search abandoned in one visit opens the details in the next one.

### Totalling

The chain of operations and screens between the Total button and the payment. The main screen drives it from
`componentDidUpdate` and from closures it hands to the screens. It learns of an answer only by the
fall of `inProgress`, the counter of all operations of the application: `main.sent` is what is under
way, and an answer that is not the last goes unseen. Operators map the main screen's record to the next (`MoveToBagScreen`,
`MoveFromCustomerScreen`, ...), each named after its method; the actions are a press on a screen, an answer (`Answer`, with the `componentDidUpdate`s of all mounted screens),
a frame (`Frame`: `requestAnimationFrame`) and a request of the background.

*Taken for granted*: a press comes when no operation is under way, which is `LoadingDialog`'s business, and after the
frame; the order and prompts a closure has captured are those of the moment, since nothing changes the transaction while its screen is open;
`navigation.replace` and `pop` act on the focused screen.

*Left out*: the token of a subscription (with the flow *payment before token* and a balance due, it is asked for later), the
drawer to be selected before the payment, replacing an unavailable item, orders fulfilled or cancelled from the history.

*Found*. Flags that say what is waited for outlive it, and are read at the next answer of any operation. `astray`
is the set of marks such failures leave: `"total"`, when a total has failed or was left requested, and `"unsubscription"`, when taking back a subscription has failed -
the total goes on after it, past a customer it may still require. `MainStays` and `PaymentTotalled` excuse only the first mark, `CustomerHeld` and
`NothingSkipped` only an unsubscription that is under way or has failed.
- A failed total, or one that removes loyalty discounts, leaves `totalTransactionRequested` set
  (`MainScreen.tsx:1763`). The next operation that ends well opens the payment: a scanned item, or the reservation of the next attempt while
  its total is under way. After a total from the customer screen, the payment then even replaces the main screen.
- The shipping fee, or the unsubscription, and the total are requested together (`1245`, `1057-1062`); the error of the one answered first
  is not looked at.
- `isVoidLotteryCode` stays after a void that failed: removing the code later, or ending the transaction, starts
  totalling. The errors of the bag fee and of a partial reservation are not looked at.
- A background operation answered after the reservation hides it from the main screen: the chain ends, and Total has to be pressed again.
- A customer required for a return is asked for, but leaving the screen goes on without one.

## Runs

"Violated" runs show a disagreement between the code and its own comment; `PROJECT.json` quotes it.

| Run | States | Shows |
|---|---|---|
| `modal_cancellable` | 1 508 | four dialogs, none locked: one place, every request served, no TypeError |
| `modal_locking` | 123 882 | with a locked alert: a hide hides its dialog (`HideServed`); no show makes the alert yield (`LockKept`) |
| `modal_show_dropped` | - | violated `ShowServed` |
| `pos_session` | 12 020 | two operations, any data, sixteen modes, delayed clearings that meet later operations: counter, scanner, open transaction, receipt options, screens and register |
| `pos_scanner_stuck` | - | violated `ScannerNotStuck`, in the transaction history |
| `cash_drawers` | 92 784 | two tasks, a list that changes while it is read, any page may fail, the storage may reject: whole lists, no listed drawer refused, every validation answered, each up to what is told above |
| `loading_dialog` | 408 547 | two operations, two answers, messages, a remote call, six dialogs: the loading dialog is displayed when it has to be and only then (here no requests pile up), messages stay but for one answer, updates come to rest |
| `provisioning` | 375 382 | two tenants, two stores, failures, one interruption, or two runs that overlap: what a ready terminal, its database and the server's reset can rely on |
| `provisioning_store_kept` | - | violated `MasterAlwaysOfStore`: one failure, two stores |
| `returns` | 1 656 350 | two transactions, three configurations, two operations in flight: quantities within what is left, submitted and applied as shown |
| `customer_orders` | 220 940 | two orders, three operations in flight: selection and slice |
| `totalling` | 787 443 | five stores, five baskets: no payment without a total, no step or customer skipped |

### Bounds

- *Dialogs*: four, the alert and three others: a dialog in front, one that yields, one that waits and
  one not involved. `MaxBuffer = 4`: a request that waits for each; without locks the buffer never
  has more than two. The dialogs other than the alert are symmetric in the runs without liveness.
- *Session*: `MaxNumber = 2` transactions: the one being cleared and the next one. Two operations
  in flight: one that closes and one that opens, or one that is answered while the other goes on; the theorems are for any number. `Unattended`
  is a session of self-checkout, in which a customer's card is refused. The modes of
  the runs (`MCPosSession`) are one of every kind the sagas tell apart. `TransactionHistory` is
  in a run of its own, for what it violates.
- *Drawers*: pages of two; a list of a page and a half, an empty one, and one of exactly a page, so
  that a page is the first of two, the last, the only one or none; the longer list may change, and either page fail, before it is read to its end; two tasks.
- *Loading dialog*: `MaxOperations = 2` at a time, so that one ends while the other goes on; `MaxEnds = 2` answers in a behaviour,
  so that the second finds what the first has left. Two answers do not reach a pile of requests (`piled`), with three the buffer can grow without a
  bound and no instance is finite: what an alert leaves behind, and any number of answers, is the proof's part; `LastCall = 0`, a single remote call, started and ended at any moment. Calls that overlap
  are left to the proof of `NotBlocked` for any number of them.
- *Provisioning*: `Runs = 2` handlers at a time. `Combined` names the faults one behaviour may combine: failure with interruption, or an overlap
  alone; with an overlap, every further fault multiplies the states. Two stores and one device each: a terminal of the same and of another store.
  `LastKey = 2`: a key and the one a second registration generates. `Leaving` lets a ready terminal be left, which no screen offers.
- *Returns*: an item sold and one fulfilled under one key, and an ordered one; typed quantities below, within and above what is available.
  `MaxPending = 2`: two operations answer in either order; those that end the session are sent once at a time.
- *Customer orders*: lines ready, not ready and of unknown readiness, more and less cancellable; `MaxPending = 3`: two searches and an action.
- *Totalling*: every option of a store is on in one of the configurations and off in another, every kind of basket is there; a subscription comes of its
  operation. `Background` is sent once at a time.

### Deadlock

`CHECK_DEADLOCK FALSE` stands where the program may stop: an exception that ends the root saga or a
screen (`returns`, `customer_orders`), one of the middleware (`loading_dialog`).

### Fairness

- The session: the engine settles every promise (`WF Answer`) and timers expire (`WF DelayEnds`).
  Nothing is assumed of the operator.
- The middleware: a call that has been made runs to its end (`WF Middleware`).
- Drawers: storage and service answer, reject or fail (`WF Step(t)`), the latter by the adapter's time-outs.
- Provisioning: what has been called answers (`WF NumberAnswered`, `WF Step(s)` of each run); nobody has to do anything, or to crash.
- Loading dialog: a saga goes on with its puts, and React renders (`WF` of `Put` or `Update`).
- The other modules need none: their properties are safety.

## Proofs

The theorems are of `Spec => []...` (or of an action property) for every value of the constants under the assumptions the modules name; a hypothesis of a theorem
that is more than such an assumption is named below with its reason. Each rests on an inductive invariant. An
invariant holds of a state and of what is under way in it - frames, operations in flight, pages, runs - for it is there that a later step finds what an earlier one
has left.

**`ModalMiddlewareProofs`**, for any dialogs and any buffer bound:

- `TypeCorrect`: any locks. Its weight is in the lemmas on `Without` and `Spliced`: whatever index a hide computes, what is left in the
  buffer are requests.
- `HideServedAlways` (`HideServed`): any locks. `Underneath` says that only the frame on top of the stack may go on to show a dialog, `Hiding` that
  a frame which hides the dialog is still to run, or that the dialog is gone and what is left on the stack only takes dialogs away. What the buffer holds does not matter.
- `LockKeptAlways` (`LockKept`), with `Locking \subseteq {Alert}`: the alert saga is the only code that asks for `cancellable: false`. `LockInv`
  follows the nested frames: none of them hides a locked alert that no caller has asked away (`Spared`), since only the front of the buffer is asked to make room (`Making`), and that is then a request
  that is not cancellable, or the buffer has lost sight of the alert altogether (`Holding`).
- `SingleDialogAlways` (`SingleDialog`), `NoTypeErrorAlways` (`NoTypeError`) and `ShowServedAlways` (`ShowServed`), with `Locking = {}`: an alert that is locked breaks them (see *Found* above; the
  run `modal_show_dropped` shows it of the last). `PhaseInv` lists the
  eleven phases a call goes through, each with the buffer, the stack and what is displayed: at rest; a destroy; a hide; a show in the free place; a show that has another dialog
  make room, and is dispatched again from within that dialog's hide. Every step leads from one to the next, and `ShowInv` says that a show asked for is in one of its own until it rests displayed.
- `ServesSlotStepwise`: the safety part of the refinement `ServesSlot`, with the same hypothesis. By the phases, each
  step is a step of `DialogSlot` or a stutter.

**`PosSessionProofs`**, for any set of operations, modes, entries, any bound:

- `TypeCorrect`;
- `OperationsCounted` (`InProgressCounts`), with the finiteness of `Ops`: each request adds one element to `pending`
  and one to the counter, each answer takes one, and the counter's floor at zero is never reached;
- `ScannerGated` (`ScannerSafe`): every action that could make the gate false sets the scanner;
- `OpenTransactionDisplayed` (`OpenTransactionShown`): the strengthening says that a closing that waits has a number
  no greater than the engine's, and a smaller one while a transaction is open, so that `ClearDisplay` misses the open one;
- `ScannerRecovers` (`ScannerNotStuck`), for operator modes without `TransactionHistory`, in which the run `pos_scanner_stuck` shows it violated. The
  strengthening `ModesKnown` says which modes there are, and which before the first answer;
- `OpenTransactionFollowed` (`OpenTransactionFresh`), `ReceiptOptionsStay` (`ReceiptOptionsKept`) and `ImplementsRegister`, the safety part of `FollowsRegister`, under
  every overlap of operations and delayed closings. An answer moves the screens to the register's state, or closes its transaction and leaves them (`SuccessFollows`);
  the end of a delay moves them to that state or is out of date (`DelayFollows`); nothing else moves either (`OthersFollow`). `OpenTransactionFresh` is inductive with the
  types and `ModesKnown`.

**`LoadingDialogProofs`**, for any number of calls, operations and answers; that `None` is no name of an error, message or state value is an assumption of the module:

- `TypeCorrect`, `NeverBlockedForGood` (`NotBlocked`) and `EndsKept` (`EndsRemembered`) of `RemoteCall` alone. `NotBlocked` is not inductive by itself: that a start
  which is heeded has not ended yet follows from `EndsRemembered`. The invariant is their conjunction with the type;
- `ImplementsRemoteCalls`: every behaviour of the dialogs is one of `RemoteCall`, so that its theorems hold among them (`NotBlockedAmongDialogs`);
- `DialogTypeCorrect`. It rests on the recursion: `ShowAmongDef` says that the recursive definition has a solution, so that its equation holds, by the solutions for the numbers
  up to n, which agree (`UpToExists`, `UpToAgree`); `ShowAmongTyped` that its values are dialogs. Each is an argument by the least number for which it would fail (`LeastNat`);
- `BufferSoundAlways`: until a pile is recorded, a show and a hide keep the buffer `Sound`: each request is for another dialog which is displayed, the alert is in front, and
  without it there is one request at most. Then what a nested show asks for is displayed already, or the only one (`ShowSound`, `HideSound`). Only the hide of the
  alert can leave a pile;
- `LoadingShownAlways` (`LoadingShown`). An update after which nothing is left to render has changed neither the store nor what is displayed, and has committed the state by which it
  showed or hid the loading dialog: had it done either, what is displayed would have changed (`UpdateSettles`). What it does later in the same update,
  closing the other dialogs or showing the alert, takes the loading dialog away only with a change, too (`DidUpdateFollows`);
- `MessageStaysAlways` (`MessageStays`): the removal at the end of `componentWillReceiveProps` leaves a message, unless the operator is logged off (`ReceivedTells`);
  of what `componentDidUpdate` does, only the end of the cancelling closes what is told (`DidUpdateTells`); stimuli other than the buttons leave it (`OthersTell`).

**`CashDrawersProofs`**, for any drawers, lists, page size and tasks:

- `TypeCorrect`, `ProgressIsShown` (`ProgressShown`), `NeverCrashes` (`NoCrash`). The invariant `UpToOverlap` says `overlapped` or
  `Sequential`: at most one task (`OneTask`), which is a validation of a drawer, or an update while the drawer
  screen is not open (`Purpose`), progress exactly while a task is under way or once the storage has rejected (`Progress`), after which none is (`Gone`), the screen not crashed (`Running`). Each action
  either keeps `Sequential` or sets `overlapped`;
- `WholeListAlways` (`WholeList`) and `RefusedAsUnlisted` (`RefusedIsUnlisted`), whatever page fails, however tasks overlap and lists change. `Reading` says
  of a task that it has read nothing, a prefix of one list the service has had (the whole of it before the write), or pages of more than one list or a failed one (`Mixed`): only what is `Mixed`
  is stored as `torn`, or refuses a drawer that is listed.

**`ProvisioningProofs`**, for any tenants, terminals, runs and combination of faults; that `None` is no database is an assumption of the module:

- `TypeCorrect`, whose strengthening `Identified` says that a run past the registration knows its terminal;
- `CredentialsCorrect` (`CredentialsBeforeReady`), the property that has to hold whatever fails
  and whenever the process ends. Its invariant follows the writes: what a run has written so far is set, in the order of `TerminalKeys`, and a terminal that
  is starting has all of them;
- `SameTerminalAlways` (`SameTerminal`), `SameTenantAlways` (`SameTenant`), `MasterReadableAlways` (`MasterReadable`), `MasterFollowsStoreAlways` (`MasterFollowsStore`) and
  `ResetHonouredAlways` (`ResetHonoured`). The faults each survives are in the property itself. `RunInv` says that unless runs
  have overlapped there is one (`OneRun`), and that what is persisted fits it, or what it would be if it started now (`Current`): a terminal and a tenant of
  which the run has written a part are of one (`TerminalFits`, `TenantFits`), the database has the persisted key, or will get it (`KeyFits`), is of the store the run works
  for, unless it is about to be downloaded (`StoreFits` as long as nothing has gone wrong, when no run misjudges; `MasterFits` whatever has, with a run that may have misjudged), and a
  reset handed out is taken, asked for or done (`ResetFits`).

**`ReturnsProofs`**, for any transactions, lines and number of operations: `TypeCorrect`, `QuantitiesCorrect` (`WithinAvailable`), `SubmissionCorrect` (`SubmittedTogether`),
`ApplicationCorrect` (`AppliedAsEntered`) and `ThrowsCorrect` (`ThrowsOnly`). The invariant
says of every operation in flight what it may carry (`Sound`), that the details show the transaction whose quantities are entered (`Shown`), and that
without contention no two transactions are asked for (`Quiet`); a history variable weakens each part, and monotonicity of `Sound` in it is a lemma. What is applied
rests on `Fresh`: while the session lasts, the details start from what the basket holds, and what has been submitted is reported as changed or is what the basket holds.

**`CustomerOrdersProofs`**, for any orders, lines and number of operations: `SelectionCorrect` (`SelectionFits`), `SubmissionCorrect` (`SubmittedFits`),
`ProgressCorrect` (`BusyOnly`), `ThrowsCorrect` (`ThrowsOnly`) and `TypeCorrect`, from one inductive invariant: besides these, that an action's mode
is set only in the details (`Placed`) and that, unless operations overlapped, one is under way at most, no order is shown until its answer, and that of an action keeps its selection (`Alone`).

**`TotallingProofs`**, for any configurations and baskets: `TypeCorrect`, `MainStaysAlways` (`MainStays`), `PaymentTotalledAlways` (`PaymentTotalled`), `CustomerHeldAlways` (`CustomerHeld`),
`NothingSkippedAlways` (`NothingSkipped`). The invariant has three parts:

- `InOrder`: what each screen on the stack, each frame and each operation presupposes has been asked (`Due`);
- `Alone`: what begins the chain, or changes the order, does so from the main screen with nothing else under way;
- `Straight`, while no total is astray: a total that is requested is under way, or has been answered while what was sent with it has not; a frame stands
  for a total that was answered; a screen is replaced only above the main one; the payment's screens are there only with an answered total.

Assumptions on constants are in the modules (`...Assumption`) and evaluated by the runs.

## What is only model-checked

- *Liveness*: `Unblocked`, `Answered` of the drawers and of provisioning, `Rests`, and the fairness of the abstract specifications in `ServesSlot` and `FollowsRegister`. There is no
  rule here for fairness and ENABLED. What these refinements say of steps is proved.
- *Violated by the code*: `ShowServed` with a locked alert, `ScannerNotStuck` in the transaction history; the theorems have the opposite as a hypothesis.
  `MasterAlwaysOfStore`: the theorem is about `MasterFollowsStore`, which excuses the runs that misjudge, and no others.

Few proofs need induction: the pages of a list are
fetched by actions, and buffers, stacks and operations in flight are described by their elements. The nested shows of the loading dialog do; there
the least number of a set takes the place of the library's theorems on induction, which take an operator as parameter.

## What is not modelled

- *Transaction searches*: `transactions.ts` and `suspendedTransactions.ts` share a flag and a list among kinds of requests. Worth having; not done yet.
- *Authentication and the access lock* beyond the steps of provisioning: what a rejected credential does, and the blocked version.
- *Receipts, inquiries, reference data, notification channels, background tasks, camera*: one answer per request and nothing kept in between; where channels meet the
  session they are its concurrent operations.
- *Screens*: most of the repository's lines are layout, styles and forms of some four hundred screens and components. They render what the models
  tell of, and what they dispatch is the models' input. Those with a control flow of their own - the loading dialog, the drawer screen,
  the provisioning forms, returns, customer orders, the main screen's way to the payment - are modelled. The payment screen and the till screens are next of the kind.
- The selling engine, device drivers, services and storage are external. The wording of messages, inputs of operations, prices and
  amounts are data no property is about.

## Plan

Done: `ModalMiddleware`, `PosSession`, `RemoteCall`, `CashDrawers` with their abstract specifications; then `Provisioning`, `LoadingDialog`
(composed with `RemoteCall`), `Returns`, `CustomerOrders`, `Totalling`; theorems for every safety property of a passing run, for the steps of both refinements, and for the composition of `LoadingDialog` with `RemoteCall`.

1. `Payment`: the payment screen's own chain, from the tender to the receipt, on the pattern of `Totalling`; it would take the place of the runs with the smallest questions.
2. `Searches`: transactions and suspended transactions, answers and failures of overlapping requests. The token of a subscription in `Totalling`.

A run is one question: pass runs group the properties of one instance, and a violation has the smallest instance
that shows it. The project keeps to a dozen of them.
