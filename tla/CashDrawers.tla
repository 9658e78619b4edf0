---------------------------- MODULE CashDrawers -----------------------------
(***************************************************************************)
(* The cash drawers of a store: a list kept on the device, refreshed page  *)
(* by page from the store accounting service (src/sagas/cashDrawers.ts,    *)
(* src/reducers/cashDrawers.ts), and the screen that has a drawer          *)
(* validated before it starts a till operation                             *)
(* (src/components/tillManagement/ScanDrawerScreen.tsx).                   *)
(*                                                                         *)
(* takeEvery starts a task for every request, and the tasks interleave     *)
(* where they wait: for the device's storage, for a page, for a write.     *)
(***************************************************************************)
EXTENDS Naturals, Sequences, Functions

CONSTANTS Drawers,   \* cash drawers, on the service's list or not
          Fixed,     \* those that belong to a terminal and cannot be shared
          Versions,  \* the lists the service has, one after the other
          PageSize,
          Tasks      \* identities for the tasks under way

ASSUME DrawersAssumption == Fixed \subseteq Drawers /\ Versions \in Seq(Seq(Drawers)) /\ Versions # <<>>
ASSUME PagesAssumption == PageSize \in Nat \ {0}

None == "none"
ASSUME NoneAssumption == {None, "waiting", "invalid", "unable"} \cap Drawers = {}

VARIABLES version,    \* the service's list is Versions[version]
          local,      \* the drawers on the list of the device
          tasks,      \* the tasks under way
          state,      \* state.cashDrawerState
          screen,     \* the drawer screen: closed, open or crashed
          outcome,    \* what it made of the last validation
          halted,     \* an exception left a saga: the root saga is gone
          overlapped, \* history: a task has met another, or an update the screen
          torn        \* history: the device's list was not read from one list

vars == <<version, local, tasks, state, screen, outcome, halted, overlapped, torn>>

Listed == Range(Versions[version])

\* from is history: the lists a task has read pages of, 0 for a page that failed.
IdleTask == [kind |-> None, input |-> None, stage |-> "idle", fetched |-> {}, offset |-> 0,
             from |-> {}]

Task(kind, input, stage) == [IdleTask EXCEPT !.kind = kind, !.input = input, !.stage = stage]

Active(t) == tasks[t].stage # "idle"

AllIdle == \A t \in Tasks : ~Active(t)

\* takeEvery starts a task, as long as there is a root saga to start it.
Forked(t, task) == IF halted THEN tasks ELSE [tasks EXCEPT ![t] = task]

Init == /\ version = 1
        /\ local = {}
        /\ tasks = [t \in Tasks |-> IdleTask]
        /\ state = [inProgress |-> FALSE, cashDrawer |-> None, error |-> FALSE]
        /\ screen = "closed"
        /\ outcome = None
        /\ halted = FALSE
        /\ overlapped = FALSE
        /\ torn = FALSE

-----------------------------------------------------------------------------
(* The reducer, and the screen that watches inProgress fall.               *)

\* Mutant: a failure keeps inProgress.
Failure_InProgress == [state EXCEPT !.error = TRUE]

Success(drawer) == [inProgress |-> FALSE, cashDrawer |-> drawer, error |-> FALSE]
Failure == [state EXCEPT !.inProgress = FALSE, !.error = TRUE]
Updated == [state EXCEPT !.inProgress = FALSE, !.error = FALSE]

\* The screen sees inProgress fall.
Falls(next) == screen = "open" /\ state.inProgress /\ ~next.inProgress

Shown(drawer) == IF drawer \in Fixed THEN "unable" ELSE drawer

\* Mutant: the screen reads the drawer without a look at the error.
Rendered_DrawerFirst(next) ==
  /\ state' = next
  /\ \/ ~Falls(next) /\ UNCHANGED <<screen, outcome>>
     \/ /\ Falls(next) /\ next.cashDrawer = None
        /\ screen' = "crashed" /\ UNCHANGED outcome
     \/ /\ Falls(next) /\ next.cashDrawer # None
        /\ outcome' = Shown(next.cashDrawer) /\ UNCHANGED screen

\* componentDidUpdate: an alert for an error, else the drawer is read, and the
\* till operation started unless the drawer cannot be shared.
Rendered(next) ==
  /\ state' = next
  /\ \/ ~Falls(next) /\ UNCHANGED <<screen, outcome>>
     \/ /\ Falls(next) /\ next.error
        /\ outcome' = "invalid" /\ UNCHANGED screen
     \/ /\ Falls(next) /\ ~next.error /\ next.cashDrawer = None
        /\ screen' = "crashed" /\ UNCHANGED outcome
     \/ /\ Falls(next) /\ ~next.error /\ next.cashDrawer # None
        /\ outcome' = Shown(next.cashDrawer) /\ UNCHANGED screen

-----------------------------------------------------------------------------
(* Requests.                                                               *)

\* A drawer is scanned or keyed in on the drawer screen.
Validate(t, drawer) ==
  /\ screen = "open"
  /\ ~Active(t)
  /\ tasks' = Forked(t, Task("validate", drawer, "load"))
  /\ state' = [state EXCEPT !.inProgress = TRUE]
  /\ outcome' = "waiting"
  /\ overlapped' = (overlapped \/ ~AllIdle)
  /\ UNCHANGED <<version, local, screen, halted, torn>>

\* The terminal has been opened (MainScreen, checkAndHandleTerminalOpenChange).
Update(t) ==
  /\ screen # "crashed"
  /\ ~Active(t)
  /\ tasks' = Forked(t, Task("update", None, "page"))
  /\ state' = [state EXCEPT !.inProgress = TRUE]
  /\ overlapped' = (overlapped \/ ~AllIdle \/ screen = "open")
  /\ UNCHANGED <<version, local, screen, outcome, halted, torn>>

OpenScreen ==
  /\ screen = "closed"
  /\ screen' = "open"
  /\ overlapped' = (overlapped \/ ~AllIdle)
  /\ UNCHANGED <<version, local, tasks, state, outcome, halted, torn>>

CloseScreen ==
  /\ screen = "open"
  /\ screen' = "closed"
  /\ outcome' = None
  /\ UNCHANGED <<version, local, tasks, state, halted, overlapped, torn>>

\* The service's list changes.
ListChanges ==
  /\ screen # "crashed"
  /\ version < Len(Versions)
  /\ version' = version + 1
  /\ UNCHANGED <<local, tasks, state, screen, outcome, halted, overlapped, torn>>

-----------------------------------------------------------------------------
(* The tasks.                                                              *)

\* The end of a task that has fetched a list, if it is not empty.
Finish(t, fetched) ==
  /\ tasks' = [tasks EXCEPT ![t] = IdleTask]
  /\ \/ tasks[t].kind = "update" /\ Rendered(Updated)
     \/ /\ tasks[t].kind = "validate" /\ tasks[t].input \in fetched
        /\ Rendered(Success(tasks[t].input))
     \/ /\ tasks[t].kind = "validate" /\ tasks[t].input \notin fetched
        /\ Rendered(Failure)

\* The device's storage rejects: no try is around the call, so the exception
\* leaves the saga and ends every task. Nothing resets inProgress.
StorageRejects ==
  /\ halted' = TRUE
  /\ tasks' = [t \in Tasks |-> IdleTask]
  /\ UNCHANGED <<local, state, screen, outcome, torn>>

\* The list of the device is loaded, and searched first.
LoadLocal(t) ==
  /\ screen # "crashed"
  /\ tasks[t].stage = "load"
  /\ \/ /\ tasks[t].input \in local
        /\ Finish(t, local)
        /\ UNCHANGED <<local, halted, torn>>
     \/ /\ tasks[t].input \notin local
        /\ tasks' = [tasks EXCEPT ![t].stage = "page"]
        /\ UNCHANGED <<local, state, screen, outcome, halted, torn>>
     \/ StorageRejects
  /\ UNCHANGED <<version, overlapped>>

\* The drawers of the page at an offset.
Page(offset) ==
  LET list == Versions[version] IN
  {list[i] : i \in {j \in DOMAIN list : offset < j /\ j <= offset + PageSize}}

\* Mutant: the last page is left out.
More_SkipsLast(offset) == offset + PageSize < Len(Versions[version])

\* Does the list go on after the pages read so far?
More(offset) == offset < Len(Versions[version])

\* Mutant: a page replaces those before it.
Gathered_LastOnly(t, arrives) == IF arrives THEN Page(tasks[t].offset) ELSE tasks[t].fetched

\* The drawers fetched so far, with those of the page that is due.
Gathered(t, arrives) == tasks[t].fetched \cup (IF arrives THEN Page(tasks[t].offset) ELSE {})

\* Where the page that is due comes from.
Source(arrives) == {IF arrives THEN version ELSE 0}

\* One page arrives, or fails. A failure counts as an empty page of an empty
\* list, which ends the loop with what was fetched before it.
FetchPage(t, arrives) ==
  LET offset  == tasks[t].offset + PageSize
      fetched == Gathered(t, arrives)
      from    == tasks[t].from \cup Source(arrives)
  IN
  /\ screen # "crashed"
  /\ tasks[t].stage = "page"
  /\ \/ /\ arrives /\ More(offset)
        /\ tasks' = [tasks EXCEPT ![t].offset = offset, ![t].fetched = fetched, ![t].from = from]
        /\ UNCHANGED <<state, screen, outcome>>
     \/ /\ ~(arrives /\ More(offset)) /\ fetched # {}
        /\ tasks' = [tasks EXCEPT ![t].stage = "store", ![t].offset = offset,
                                  ![t].fetched = fetched, ![t].from = from]
        /\ UNCHANGED <<state, screen, outcome>>
     \/ /\ ~(arrives /\ More(offset)) /\ fetched = {}
        /\ Finish(t, {})
  /\ UNCHANGED <<version, local, halted, overlapped, torn>>

\* Every page the task has read is of the same list.
Together(task) == \E i \in DOMAIN Versions : task.from = {i}

\* The list of the device is replaced.
Store(t) ==
  /\ screen # "crashed"
  /\ tasks[t].stage = "store"
  /\ \/ /\ local' = tasks[t].fetched
        /\ torn' = ~Together(tasks[t])
        /\ Finish(t, tasks[t].fetched)
        /\ UNCHANGED halted
     \/ StorageRejects
  /\ UNCHANGED <<version, overlapped>>

Step(t) == LoadLocal(t) \/ Store(t) \/ \E arrives \in BOOLEAN : FetchPage(t, arrives)

\* The exception has taken the application down.
Crashed == screen = "crashed" /\ UNCHANGED vars

Next == \/ \E t \in Tasks, drawer \in Drawers : Validate(t, drawer)
        \/ \E t \in Tasks : Update(t)
        \/ OpenScreen \/ CloseScreen \/ ListChanges \/ Crashed
        \/ \E t \in Tasks : Step(t)

\* The storage and the service answer or fail, in time.
Spec == Init /\ [][Next]_vars /\ \A t \in Tasks : WF_vars(Step(t))

-----------------------------------------------------------------------------
(* Properties.                                                             *)

Kinds == {None, "validate", "update"}
Stages == {"idle", "load", "page", "store"}

TypeOK ==
  /\ version \in DOMAIN Versions
  /\ local \subseteq Drawers
  /\ tasks \in [Tasks -> [kind : Kinds, input : Drawers \cup {None}, stage : Stages,
                          fetched : SUBSET Drawers, offset : Nat, from : SUBSET Nat]]
  /\ state \in [inProgress : BOOLEAN, cashDrawer : Drawers \cup {None}, error : BOOLEAN]
  /\ screen \in {"closed", "open", "crashed"}
  /\ outcome \in Drawers \cup {None, "waiting", "invalid", "unable"}
  /\ halted \in BOOLEAN /\ overlapped \in BOOLEAN /\ torn \in BOOLEAN

\* The device keeps a list the service has had, never a part of one nor a mix
\* of two, however tasks, failures and changes of the list interleave. The
\* one exception is a list whose pages the task that stored it last read from
\* more than one list, or lost a later one of (sagas/cashDrawers.ts, the
\* catch in retrieveRemoteCashDrawerList).
WholeList ==
  local = {} \/ torn \/ \E i \in 1 .. version : local = Range(Versions[i])

\* A drawer that a fetched list refuses is not on that list: the pages that
\* all arrive from one list make up "the full list" (sagas/cashDrawers.ts).
RefusedIsUnlisted ==
  [][ \A t \in Tasks :
        tasks[t].stage = "store" /\ tasks[t].kind = "validate" /\ tasks'[t] = IdleTask
          /\ state'.error /\ ~halted'
          => \A i \in 1 .. version :
               tasks[t].from = {i} => tasks[t].input \notin Range(Versions[i]) ]_vars

\* The flag the screens wait for says whether a task is under way, as long as
\* no two tasks overlap; once the storage has rejected it stays set, with no
\* task left to reset it (reducers/cashDrawers.ts, inProgress).
ProgressShown == overlapped \/ (state.inProgress <=> ~AllIdle \/ halted)

\* As long as no two tasks overlap, the screen never reads the drawer of a
\* validation that gave none (ScanDrawerScreen, componentDidUpdate).
NoCrash == overlapped \/ screen # "crashed"

\* Every validation ends in a till operation or in an alert, whatever page
\* fails, unless the operator leaves the screen, another task overlaps it or
\* the storage rejects (sagas/cashDrawers.ts).
Answered == outcome = "waiting" ~> outcome # "waiting" \/ overlapped \/ halted
=============================================================================
