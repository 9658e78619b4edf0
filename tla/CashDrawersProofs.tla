------------------------- MODULE CashDrawersProofs --------------------------
(***************************************************************************)
(* The cash drawers keep their types; as long as no two tasks overlap, the *)
(* progress flag tells the truth and the drawer screen never reads a       *)
(* drawer that is not there; and the pages that all arrive from one list   *)
(* make up that list, whatever fails and however tasks overlap: for any    *)
(* drawers, lists and page size.                                           *)
(***************************************************************************)
EXTENDS CashDrawers, TLAPS

TaskType == [kind : Kinds, input : Drawers \cup {None}, stage : Stages,
             fetched : SUBSET Drawers, offset : Nat, from : SUBSET Nat]

StateType == [inProgress : BOOLEAN, cashDrawer : Drawers \cup {None}, error : BOOLEAN]

Types == /\ version \in DOMAIN Versions
         /\ local \subseteq Drawers
         /\ tasks \in [Tasks -> TaskType]
         /\ state \in StateType
         /\ screen \in {"closed", "open", "crashed"}
         /\ outcome \in Drawers \cup {None, "waiting", "invalid", "unable"}

Flags == halted \in BOOLEAN /\ overlapped \in BOOLEAN /\ torn \in BOOLEAN

LEMMA TypeSplit == TypeOK <=> Types /\ Flags
BY DEF TypeOK, Types, Flags, TaskType, StateType

\* Tasks, and what the reducer makes of their answers, have their types.
LEMMA TaskTypes ==
  /\ IdleTask \in TaskType
  /\ \A d \in Drawers : Task("validate", d, "load") \in TaskType
  /\ Task("update", None, "page") \in TaskType
BY DEF IdleTask, Task, TaskType, Kinds, Stages

LEMMA AnswerTypes ==
  ASSUME state \in StateType
  PROVE  /\ \A d \in Drawers : Success(d) \in StateType
         /\ Failure \in StateType /\ Updated \in StateType
BY DEF StateType, Success, Failure, Updated

\* The lists of the service are lists of drawers.
LEMMA VersionType ==
  ASSUME NEW v \in DOMAIN Versions
  PROVE  Versions[v] \in Seq(Drawers)
BY DrawersAssumption

LEMMA PageType ==
  ASSUME version \in DOMAIN Versions, NEW offset \in Nat
  PROVE  Page(offset) \subseteq Drawers
<1>1. Versions[version] \in Seq(Drawers)
  BY VersionType
<1>2. \A i \in DOMAIN Versions[version] : Versions[version][i] \in Drawers
  BY <1>1
<1> QED
  BY <1>2 DEF Page

\* What the screen shows after the reducer, whatever the answer.
LEMMA RenderedType ==
  ASSUME TypeOK, NEW next \in StateType, Rendered(next)
  PROVE  /\ state' \in StateType
         /\ screen' \in {"closed", "open", "crashed"}
         /\ outcome' \in Drawers \cup {None, "waiting", "invalid", "unable"}
<1>1. next.cashDrawer \in Drawers \cup {None}
  BY DEF StateType
<1>2. state' = next
  BY DEF Rendered
<1>3. screen' = screen \/ screen' = "crashed"
  BY DEF Rendered
<1>4. \/ outcome' = "invalid" \/ outcome' = outcome
      \/ next.cashDrawer # None /\ outcome' = Shown(next.cashDrawer)
  BY DEF Rendered
<1>5. next.cashDrawer # None => Shown(next.cashDrawer) \in Drawers \cup {"unable"}
  BY <1>1 DEF Shown
<1>6. outcome' \in Drawers \cup {None, "waiting", "invalid", "unable"}
  BY <1>4, <1>5 DEF TypeOK
<1> QED
  BY <1>2, <1>3, <1>6 DEF TypeOK

LEMMA FinishType ==
  ASSUME TypeOK, NEW t \in Tasks, NEW fetched, tasks[t] \in TaskType, Finish(t, fetched)
  PROVE  /\ tasks' \in [Tasks -> TaskType]
         /\ state' \in StateType
         /\ screen' \in {"closed", "open", "crashed"}
         /\ outcome' \in Drawers \cup {None, "waiting", "invalid", "unable"}
<1>1. tasks' \in [Tasks -> TaskType]
  BY TypeSplit, TaskTypes DEF Finish, Types
<1>2. state \in StateType
  BY TypeSplit DEF Types
<1>3. CASE tasks[t].kind = "update" /\ Rendered(Updated)
  BY <1>1, <1>2, <1>3, AnswerTypes, RenderedType
<1>4. CASE tasks[t].input \in Drawers /\ Rendered(Success(tasks[t].input))
  BY <1>1, <1>2, <1>4, AnswerTypes, RenderedType
<1>5. CASE Rendered(Failure)
  BY <1>1, <1>2, <1>5, AnswerTypes, RenderedType
<1>6. tasks[t].input = None => Success(tasks[t].input) \in StateType
  BY DEF Success, StateType
<1>7. CASE tasks[t].input = None /\ Rendered(Success(tasks[t].input))
  BY <1>1, <1>6, <1>7, RenderedType
<1>8. tasks[t].input \in Drawers \cup {None}
  BY DEF TaskType
<1> QED
  BY <1>3, <1>4, <1>5, <1>7, <1>8 DEF Finish

\* A task that is forked, or not.
LEMMA ForkedType ==
  ASSUME tasks \in [Tasks -> TaskType], NEW t \in Tasks, NEW task \in TaskType
  PROVE  Forked(t, task) \in [Tasks -> TaskType]
BY DEF Forked

LEMMA RejectsType == ASSUME Types, StorageRejects, UNCHANGED version PROVE Types'
BY TaskTypes DEF StorageRejects, Types

\* Every step keeps the types.
LEMMA TypesInductive == TypeOK /\ [Next]_vars => Types'
<1> SUFFICES ASSUME TypeOK, [Next]_vars PROVE Types'
  OBVIOUS
<1>0. /\ version \in DOMAIN Versions /\ local \subseteq Drawers
      /\ tasks \in [Tasks -> TaskType] /\ state \in StateType
      /\ screen \in {"closed", "open", "crashed"}
      /\ outcome \in Drawers \cup {None, "waiting", "invalid", "unable"}
  BY TypeSplit DEF Types
<1>1. CASE UNCHANGED vars
  BY <1>0, <1>1 DEF vars, Types
<1>2. ASSUME NEW t \in Tasks, NEW d \in Drawers, Validate(t, d) PROVE Types'
  <2>1. tasks' \in [Tasks -> TaskType]
    BY <1>0, <1>2, TaskTypes, ForkedType DEF Validate
  <2>2. state' \in StateType
    BY <1>0, <1>2 DEF Validate, StateType
  <2> QED
    BY <1>0, <1>2, <2>1, <2>2 DEF Validate, Types
<1>3. ASSUME NEW t \in Tasks, Update(t) PROVE Types'
  <2>1. tasks' \in [Tasks -> TaskType]
    BY <1>0, <1>3, TaskTypes, ForkedType DEF Update
  <2>2. state' \in StateType
    BY <1>0, <1>3 DEF Update, StateType
  <2> QED
    BY <1>0, <1>3, <2>1, <2>2 DEF Update, Types
<1>4. CASE OpenScreen
  BY <1>0, <1>4 DEF OpenScreen, Types
<1>5. CASE CloseScreen
  BY <1>0, <1>5 DEF CloseScreen, Types
<1>6. CASE ListChanges
  <2>1. version + 1 \in DOMAIN Versions
    BY <1>0, <1>6, DrawersAssumption DEF ListChanges
  <2> QED
    BY <1>0, <1>6, <2>1 DEF ListChanges, Types
<1>7. ASSUME NEW t \in Tasks, Step(t) PROVE Types'
  <2>0. tasks[t] \in TaskType
    BY <1>0
  <2>1. CASE LoadLocal(t)
    <3>1. CASE Finish(t, local) /\ UNCHANGED local
      BY <1>0, <2>0, <2>1, <3>1, FinishType DEF LoadLocal, Types
    <3>2. CASE /\ tasks' = [tasks EXCEPT ![t].stage = "page"]
               /\ UNCHANGED <<local, state, screen, outcome>>
      <4>1. [tasks[t] EXCEPT !.stage = "page"] \in TaskType
        BY <2>0 DEF TaskType, Stages
      <4>2. tasks' \in [Tasks -> TaskType]
        BY <1>0, <3>2, <4>1
      <4> QED
        BY <1>0, <2>1, <3>2, <4>2 DEF LoadLocal, Types
    <3>3. CASE StorageRejects
      BY <2>1, <3>3, RejectsType, TypeSplit DEF LoadLocal
    <3> QED
      BY <2>1, <3>1, <3>2, <3>3 DEF LoadLocal
  <2>2. CASE Store(t)
    <3>1. tasks[t].fetched \subseteq Drawers
      BY <2>0 DEF TaskType
    <3>2. version' = version
      BY <2>2 DEF Store
    <3>3. CASE Finish(t, tasks[t].fetched) /\ local' = tasks[t].fetched
      BY <1>0, <2>0, <3>1, <3>2, <3>3, FinishType DEF Types
    <3>4. CASE StorageRejects
      BY <3>2, <3>4, RejectsType, TypeSplit
    <3> QED
      BY <2>2, <3>3, <3>4 DEF Store
  <2>3. ASSUME NEW arrives \in BOOLEAN, FetchPage(t, arrives) PROVE Types'
    <3> DEFINE offset == tasks[t].offset + PageSize
               fetched == Gathered(t, arrives)
               from    == tasks[t].from \cup Source(arrives)
    <3>1. offset \in Nat /\ tasks[t].offset \in Nat
      BY <2>0, PagesAssumption DEF TaskType
    <3>f. from \subseteq Nat
      BY <1>0, <2>0, DrawersAssumption DEF TaskType, Source
    <3>2. tasks[t].fetched \subseteq Drawers
      BY <2>0 DEF TaskType
    <3>3. fetched \subseteq Drawers
      BY <1>0, <3>1, <3>2, PageType DEF Gathered
    <3>4. \/ /\ tasks' = [tasks EXCEPT ![t].offset = offset, ![t].fetched = fetched, ![t].from = from]
             /\ UNCHANGED <<state, screen, outcome>>
          \/ /\ tasks' = [tasks EXCEPT ![t].stage = "store", ![t].offset = offset,
                                       ![t].fetched = fetched, ![t].from = from]
             /\ UNCHANGED <<state, screen, outcome>>
          \/ Finish(t, {})
      BY <2>3 DEF FetchPage
    <3>5. UNCHANGED <<version, local>>
      BY <2>3 DEF FetchPage
    <3> HIDE DEF offset, fetched, from
    <3>6. [tasks[t] EXCEPT !.offset = offset, !.fetched = fetched, !.from = from] \in TaskType
      BY <2>0, <3>1, <3>3, <3>f DEF TaskType
    <3>7. [tasks[t] EXCEPT !.stage = "store", !.offset = offset,
                           !.fetched = fetched, !.from = from] \in TaskType
      BY <2>0, <3>1, <3>3, <3>f DEF TaskType, Stages
    <3>8. CASE Finish(t, {})
      BY <1>0, <2>0, <3>5, <3>8, FinishType DEF Types
    <3>9. CASE /\ tasks' = [tasks EXCEPT ![t].offset = offset, ![t].fetched = fetched, ![t].from = from]
               /\ UNCHANGED <<state, screen, outcome>>
      <4>1. tasks' \in [Tasks -> TaskType]
        BY <1>0, <3>6, <3>9
      <4> QED
        BY <1>0, <3>5, <3>9, <4>1 DEF Types
    <3>10. CASE /\ tasks' = [tasks EXCEPT ![t].stage = "store", ![t].offset = offset,
                                          ![t].fetched = fetched, ![t].from = from]
                /\ UNCHANGED <<state, screen, outcome>>
      <4>1. tasks' \in [Tasks -> TaskType]
        BY <1>0, <3>7, <3>10
      <4> QED
        BY <1>0, <3>5, <3>10, <4>1 DEF Types
    <3> QED
      BY <3>4, <3>8, <3>9, <3>10
  <2> QED
    BY <1>7, <2>1, <2>2, <2>3 DEF Step
<1>8. CASE Crashed
  BY <1>0, <1>8 DEF Crashed, vars, Types
<1> QED
  BY <1>1, <1>2, <1>3, <1>4, <1>5, <1>6, <1>7, <1>8 DEF Next

LEMMA FlagsInductive == TypeOK /\ [Next]_vars => Flags'
<1> SUFFICES ASSUME TypeOK, [Next]_vars PROVE Flags'
  OBVIOUS
<1>0. Flags
  BY TypeSplit
<1>1. ASSUME NEW t \in Tasks, Step(t) PROVE Flags'
  <2>1. overlapped' = overlapped /\ halted' \in BOOLEAN
    BY <1>0, <1>1 DEF Step, LoadLocal, FetchPage, Store, StorageRejects, Flags
  <2>2. torn' = torn \/ torn' = ~Together(tasks[t])
    BY <1>1 DEF Step, LoadLocal, FetchPage, Store, StorageRejects
  <2> QED BY <1>0, <2>1, <2>2 DEF Flags
<1>2. CASE UNCHANGED vars \/ CloseScreen \/ ListChanges \/ Crashed
  BY <1>0, <1>2 DEF CloseScreen, ListChanges, Crashed, vars, Flags
<1>3. CASE OpenScreen
  BY <1>0, <1>3 DEF OpenScreen, Flags
<1>4. ASSUME NEW t \in Tasks, (\E d \in Drawers : Validate(t, d)) \/ Update(t)
      PROVE  Flags'
  BY <1>0, <1>4 DEF Validate, Update, Flags
<1> QED
  BY <1>1, <1>2, <1>3, <1>4 DEF Next

LEMMA TypeInductive == TypeOK /\ [Next]_vars => TypeOK'
<1>1. TypeOK' <=> Types' /\ Flags'
  BY DEF TypeOK, Types, Flags, TaskType, StateType
<1> QED
  BY <1>1, TypesInductive, FlagsInductive

LEMMA TypeInitial == Init => TypeOK
<1> SUFFICES ASSUME Init PROVE TypeOK
  OBVIOUS
<1>1. 1 \in DOMAIN Versions
  BY DrawersAssumption
<1>2. tasks \in [Tasks -> TaskType]
  BY TaskTypes DEF Init
<1>3. state \in StateType
  BY DEF Init, StateType
<1> QED
  BY <1>1, <1>2, <1>3, TypeSplit DEF Init, Types, Flags

\* The list, the tasks, the reducer's state and the screen keep their types.
THEOREM TypeCorrect == Spec => []TypeOK
BY TypeInitial, TypeInductive, PTL DEF Spec

-----------------------------------------------------------------------------
(* As long as nothing overlaps.  That the screen never meets a drawer that *)
(* is not there rests on what can be under way while it is open: one       *)
(* validation.                                                             *)

OneTask == \A t, u \in Tasks : Active(t) /\ Active(u) => t = u

Purpose == \A t \in Tasks : Active(t) =>
             /\ \/ tasks[t].kind = "validate" /\ tasks[t].input \in Drawers
                \/ tasks[t].kind = "update" /\ screen # "open"

Progress == state.inProgress <=> ~AllIdle \/ halted

Running == screen # "crashed"

\* Nothing is under way once the root saga is gone.
Gone == halted => AllIdle

Sequential == TypeOK /\ OneTask /\ Purpose /\ Progress /\ Running /\ Gone

LEMMA SequentialInitial == Init => Sequential
<1> SUFFICES ASSUME Init PROVE Sequential
  OBVIOUS
<1>1. TypeOK
  BY TypeInitial
<1>2. \A t \in Tasks : ~Active(t)
  BY DEF Init, Active, IdleTask
<1>3. ~state.inProgress /\ screen # "crashed" /\ ~halted
  BY DEF Init
<1> QED
  BY <1>1, <1>2, <1>3 DEF Sequential, OneTask, Purpose, Progress, Running, Gone, AllIdle

\* A task starts where there was none.
LEMMA StartSequential ==
  ASSUME Sequential, NEW t \in Tasks, NEW task \in TaskType, AllIdle, task.stage # "idle",
         \/ task.kind = "validate" /\ task.input \in Drawers
         \/ task.kind = "update" /\ screen # "open",
         tasks' = Forked(t, task), halted' = halted,
         state' = [state EXCEPT !.inProgress = TRUE], screen' = screen
  PROVE  OneTask' /\ Purpose' /\ Progress' /\ Running' /\ Gone'
<1>0. CASE halted
  <2>1. tasks' = tasks /\ state'.inProgress
    BY <1>0, TypeSplit DEF Forked, Sequential, Types, StateType
  <2>2. \A u \in Tasks : ~Active(u)'
    BY <2>1 DEF AllIdle, Active
  <2>3. AllIdle'
    BY <2>2 DEF AllIdle
  <2> QED
    BY <1>0, <2>1, <2>2, <2>3 DEF OneTask, Purpose, Progress, Running, Gone, Sequential
<1> SUFFICES ASSUME ~halted PROVE OneTask' /\ Purpose' /\ Progress' /\ Running' /\ Gone'
  BY <1>0
<1>a. tasks' = [tasks EXCEPT ![t] = task]
  BY DEF Forked
<1>1. tasks \in [Tasks -> TaskType] /\ state \in StateType
  BY TypeSplit DEF Sequential, Types
<1>2. \A u \in Tasks : u # t => tasks'[u] = tasks[u]
  BY <1>1, <1>a
<1>3. tasks'[t] = task
  BY <1>1, <1>a
<1>4. \A u \in Tasks : Active(u)' <=> u = t
  BY <1>2, <1>3 DEF Active, AllIdle
<1>5. OneTask' /\ Purpose'
  BY <1>3, <1>4 DEF OneTask, Purpose
<1>6. state'.inProgress
  BY <1>1 DEF StateType
<1>7. ~AllIdle'
  BY <1>4 DEF AllIdle
<1>8. Running'
  BY DEF Sequential, Running
<1> QED
  BY <1>5, <1>6, <1>7, <1>8 DEF Progress, Gone

\* A task goes on.
LEMMA ContinueSequential ==
  ASSUME Sequential, NEW t \in Tasks, NEW task \in TaskType, Active(t), task.stage # "idle",
         task.kind = tasks[t].kind, task.input = tasks[t].input,
         tasks' = [tasks EXCEPT ![t] = task], UNCHANGED <<state, screen, halted>>
  PROVE  OneTask' /\ Purpose' /\ Progress' /\ Running' /\ Gone'
<1>1. tasks \in [Tasks -> TaskType]
  BY TypeSplit DEF Sequential, Types
<1>2. \A u \in Tasks : u # t => tasks'[u] = tasks[u]
  BY <1>1
<1>3. tasks'[t] = task
  BY <1>1
<1>4. \A u \in Tasks : Active(u)' <=> Active(u)
  BY <1>2, <1>3 DEF Active
<1>5. OneTask'
  BY <1>4 DEF OneTask, Sequential
<1>6. Purpose'
  BY <1>2, <1>3, <1>4 DEF Purpose, Sequential
<1>7. AllIdle' <=> AllIdle
  BY <1>4 DEF AllIdle
<1>8. Progress' /\ Running' /\ Gone'
  BY <1>7 DEF Progress, Running, Gone, Sequential
<1> QED
  BY <1>5, <1>6, <1>8

\* A task ends: the screen is given an error or a drawer.
LEMMA FinishSequential ==
  ASSUME Sequential, NEW t \in Tasks, NEW fetched, Active(t), Finish(t, fetched), halted' = halted
  PROVE  OneTask' /\ Purpose' /\ Progress' /\ Running' /\ Gone'
<1>0. ~halted /\ ~halted'
  BY DEF Sequential, Gone, AllIdle
<1>1. tasks \in [Tasks -> TaskType] /\ state \in StateType
  BY TypeSplit DEF Sequential, Types
<1>2. tasks' = [tasks EXCEPT ![t] = IdleTask]
  BY DEF Finish
<1>3. tasks'[t] = IdleTask /\ \A u \in Tasks : u # t => tasks'[u] = tasks[u]
  BY <1>1, <1>2
<1>4. \A u \in Tasks : ~Active(u)'
  <2>1. \A u \in Tasks : Active(u) => u = t
    BY DEF Sequential, OneTask
  <2>2. IdleTask.stage = "idle"
    BY DEF IdleTask
  <2> QED
    BY <1>3, <2>1, <2>2 DEF Active
<1>5. OneTask' /\ Purpose' /\ AllIdle'
  BY <1>4 DEF OneTask, Purpose, AllIdle
<1>6. \/ tasks[t].kind = "validate" /\ tasks[t].input \in Drawers
      \/ tasks[t].kind = "update" /\ screen # "open"
  BY DEF Sequential, Purpose
<1>7. screen # "crashed"
  BY DEF Sequential, Running
<1>8. CASE tasks[t].kind = "validate" /\ tasks[t].input \in Drawers /\ Rendered(Success(tasks[t].input))
  <2>1. /\ ~Success(tasks[t].input).inProgress
        /\ Success(tasks[t].input).cashDrawer # None
    BY <1>8, NoneAssumption DEF Success
  <2> QED
    BY <1>0, <1>5, <1>7, <1>8, <2>1 DEF Rendered, Progress, Running, Gone
<1>9. CASE Rendered(Failure)
  <2>1. ~Failure.inProgress /\ Failure.error
    BY <1>1 DEF Failure, StateType
  <2> QED
    BY <1>0, <1>5, <1>7, <1>9, <2>1 DEF Rendered, Progress, Running, Gone
<1>10. CASE tasks[t].kind = "update" /\ screen # "open" /\ Rendered(Updated)
  <2>1. ~Updated.inProgress
    BY <1>1 DEF Updated, StateType
  <2>2. ~Falls(Updated)
    BY <1>10 DEF Falls
  <2> QED
    BY <1>0, <1>5, <1>7, <1>10, <2>1, <2>2 DEF Rendered, Progress, Running, Gone
<1> QED
  BY <1>6, <1>8, <1>9, <1>10 DEF Finish

\* The storage rejects: nothing is under way any more, and the flag stays.
LEMMA RejectsSequential ==
  ASSUME Sequential, NEW t \in Tasks, Active(t), StorageRejects
  PROVE  OneTask' /\ Purpose' /\ Progress' /\ Running' /\ Gone'
<1>1. \A u \in Tasks : ~Active(u)'
  BY DEF StorageRejects, Active, IdleTask
<1>2. OneTask' /\ Purpose' /\ AllIdle'
  BY <1>1 DEF OneTask, Purpose, AllIdle
<1>3. state.inProgress
  BY DEF Sequential, Progress, AllIdle
<1> QED
  BY <1>2, <1>3 DEF Progress, Running, Gone, Sequential, StorageRejects

LEMMA SequentialInductive == Sequential /\ [Next]_vars => Sequential' \/ overlapped'
<1> SUFFICES ASSUME Sequential, [Next]_vars, ~overlapped' PROVE Sequential'
  OBVIOUS
<1>0. TypeOK' /\ tasks \in [Tasks -> TaskType]
  BY TypeInductive, TypeSplit DEF Sequential, Types
<1> SUFFICES OneTask' /\ Purpose' /\ Progress' /\ Running' /\ Gone'
  BY <1>0 DEF Sequential
<1>1. ASSUME UNCHANGED <<tasks, state, screen, halted>> PROVE OneTask' /\ Purpose' /\ Progress' /\ Running' /\ Gone'
  BY <1>1 DEF Sequential, OneTask, Purpose, Progress, Running, Gone, AllIdle, Active
<1>2. ASSUME NEW t \in Tasks, NEW d \in Drawers, Validate(t, d)
      PROVE  OneTask' /\ Purpose' /\ Progress' /\ Running' /\ Gone'
  <2>1. Task("validate", d, "load") \in TaskType
    BY TaskTypes
  <2>2. /\ Task("validate", d, "load").stage # "idle"
        /\ Task("validate", d, "load").kind = "validate"
        /\ Task("validate", d, "load").input = d
    BY DEF Task, IdleTask
  <2> QED
    BY <1>2, <2>1, <2>2, StartSequential DEF Validate
<1>3. ASSUME NEW t \in Tasks, Update(t)
      PROVE  OneTask' /\ Purpose' /\ Progress' /\ Running' /\ Gone'
  <2>1. Task("update", None, "page") \in TaskType
    BY TaskTypes
  <2>2. /\ Task("update", None, "page").stage # "idle"
        /\ Task("update", None, "page").kind = "update"
    BY DEF Task, IdleTask
  <2> QED
    BY <1>3, <2>1, <2>2, StartSequential DEF Update
<1>4. CASE OpenScreen
  <2>1. AllIdle /\ screen' = "open" /\ UNCHANGED <<tasks, state, halted>>
    BY <1>4 DEF OpenScreen
  <2>2. \A t \in Tasks : ~Active(t)'
    BY <2>1 DEF AllIdle, Active
  <2>3. AllIdle'
    BY <2>2 DEF AllIdle
  <2> QED
    BY <2>1, <2>2, <2>3 DEF Sequential, OneTask, Purpose, Progress, Running, Gone
<1>5. CASE CloseScreen
  <2>1. screen' = "closed" /\ UNCHANGED <<tasks, state, halted>>
    BY <1>5 DEF CloseScreen
  <2>2. \A t \in Tasks : Active(t)' <=> Active(t)
    BY <2>1 DEF Active
  <2>3. AllIdle' <=> AllIdle
    BY <2>2 DEF AllIdle
  <2> QED
    BY <2>1, <2>2, <2>3 DEF Sequential, OneTask, Purpose, Progress, Running, Gone
<1>6. ASSUME NEW t \in Tasks, Step(t)
      PROVE  OneTask' /\ Purpose' /\ Progress' /\ Running' /\ Gone'
  <2>0. tasks[t] \in TaskType /\ tasks'[t] \in TaskType
    BY <1>0, TypeSplit DEF TypeOK, TaskType
  <2>1. CASE LoadLocal(t)
    <3>1. Active(t)
      BY <2>1 DEF LoadLocal, Active
    <3>2. CASE Finish(t, local) /\ halted' = halted
      BY <3>1, <3>2, FinishSequential
    <3>3. CASE tasks' = [tasks EXCEPT ![t].stage = "page"] /\ UNCHANGED <<state, screen, halted>>
      <4> DEFINE task == [tasks[t] EXCEPT !.stage = "page"]
      <4>1. task \in TaskType /\ task.stage # "idle" /\ task.kind = tasks[t].kind /\ task.input = tasks[t].input
        BY <2>0 DEF TaskType, Stages
      <4>2. tasks' = [tasks EXCEPT ![t] = task]
        BY <3>3
      <4> HIDE DEF task
      <4> QED
        BY <3>1, <3>3, <4>1, <4>2, ContinueSequential
    <3>4. CASE StorageRejects
      BY <3>1, <3>4, RejectsSequential
    <3> QED
      BY <2>1, <3>2, <3>3, <3>4 DEF LoadLocal
  <2>2. CASE Store(t)
    <3>1. Active(t)
      BY <2>2 DEF Store, Active
    <3> QED
      BY <2>2, <3>1, FinishSequential, RejectsSequential DEF Store
  <2>3. ASSUME NEW arrives \in BOOLEAN, FetchPage(t, arrives)
        PROVE  OneTask' /\ Purpose' /\ Progress' /\ Running' /\ Gone'
    <3>1. Active(t)
      BY <2>3 DEF FetchPage, Active
    <3>2. CASE Finish(t, {}) /\ halted' = halted
      BY <3>1, <3>2, FinishSequential
    <3>3. ASSUME NEW o, NEW f, NEW v,
                 tasks' = [tasks EXCEPT ![t].offset = o, ![t].fetched = f, ![t].from = v],
                 UNCHANGED <<state, screen, halted>>
          PROVE  OneTask' /\ Purpose' /\ Progress' /\ Running' /\ Gone'
      <4> DEFINE task == [tasks[t] EXCEPT !.offset = o, !.fetched = f, !.from = v]
      <4>1. tasks' = [tasks EXCEPT ![t] = task]
        BY <3>3
      <4>2. tasks'[t] = task
        BY <1>0, <4>1
      <4>3. task.stage = tasks[t].stage /\ task.kind = tasks[t].kind /\ task.input = tasks[t].input
        BY <2>0 DEF TaskType
      <4> HIDE DEF task
      <4> QED
        BY <2>0, <3>1, <3>3, <4>1, <4>2, <4>3, ContinueSequential DEF Active
    <3>4. ASSUME NEW o, NEW f, NEW v,
                 tasks' = [tasks EXCEPT ![t].stage = "store", ![t].offset = o,
                                        ![t].fetched = f, ![t].from = v],
                 UNCHANGED <<state, screen, halted>>
          PROVE  OneTask' /\ Purpose' /\ Progress' /\ Running' /\ Gone'
      <4> DEFINE task == [tasks[t] EXCEPT !.stage = "store", !.offset = o, !.fetched = f, !.from = v]
      <4>1. tasks' = [tasks EXCEPT ![t] = task]
        BY <3>4
      <4>2. tasks'[t] = task
        BY <1>0, <4>1
      <4>3. task.stage # "idle" /\ task.kind = tasks[t].kind /\ task.input = tasks[t].input
        BY <2>0 DEF TaskType
      <4> HIDE DEF task
      <4> QED
        BY <2>0, <3>1, <3>4, <4>1, <4>2, <4>3, ContinueSequential
    <3> QED
      BY <2>3, <3>2, <3>3, <3>4 DEF FetchPage
  <2> QED
    BY <1>6, <2>1, <2>2, <2>3 DEF Step
<1>7. CASE UNCHANGED vars \/ Crashed \/ ListChanges
  BY <1>1, <1>7 DEF vars, Crashed, ListChanges
<1> QED
  BY <1>2, <1>3, <1>4, <1>5, <1>6, <1>7 DEF Next

\* An overlap is never forgotten.
LEMMA OverlapKept == TypeOK /\ overlapped /\ [Next]_vars => overlapped'
BY DEF Next, Validate, Update, OpenScreen, CloseScreen, ListChanges, Step, LoadLocal,
       FetchPage, Store, Crashed, vars

\* The inductive invariant.
UpToOverlap == TypeOK /\ (overlapped \/ Sequential)

LEMMA UpToOverlapInvariant == Spec => []UpToOverlap
<1>1. Init => UpToOverlap
  BY TypeInitial, SequentialInitial DEF UpToOverlap
<1>2. UpToOverlap /\ [Next]_vars => UpToOverlap'
  BY TypeInductive, SequentialInductive, OverlapKept DEF UpToOverlap
<1> QED
  BY <1>1, <1>2, PTL DEF Spec

\* One task at a time, and none while the screen opens: inProgress of
\* reducers/cashDrawers.ts is TRUE while a task is under way, and for good
\* once the storage has rejected, at no other time.
THEOREM ProgressIsShown == Spec => []ProgressShown
<1>1. UpToOverlap => ProgressShown
  BY DEF UpToOverlap, Sequential, Progress, ProgressShown
<1> QED
  BY <1>1, UpToOverlapInvariant, PTL

\* Then the drawer screen never reads a drawer that is not there
\* (ScanDrawerScreen.tsx, componentDidUpdate).
THEOREM NeverCrashes == Spec => []NoCrash
<1>1. UpToOverlap => NoCrash
  BY DEF UpToOverlap, Sequential, Running, NoCrash
<1> QED
  BY <1>1, UpToOverlapInvariant, PTL
-----------------------------------------------------------------------------
(* The pages that all arrive from one list make up that list.              *)

\* The drawers of the first pages of a list.
Prefix(v, n) == {Versions[v][i] : i \in {j \in DOMAIN Versions[v] : j <= n}}

\* Some page came from another list than the others, or from none.
Mixed(from) == from # {} /\ \A i \in DOMAIN Versions : from # {i}

\* A task has read nothing yet, the first pages of a list, or a mix; what it
\* stores is a whole list, or a mix.
Reads(task) ==
  /\ task.stage \in {"load", "page"} =>
       \/ task.offset = 0 /\ task.fetched = {} /\ task.from = {}
       \/ \E v \in 1 .. version : task.from = {v} /\ task.fetched = Prefix(v, task.offset)
       \/ Mixed(task.from)
  /\ task.stage = "store" =>
       \/ \E v \in 1 .. version : task.from = {v} /\ task.fetched = Range(Versions[v])
       \/ Mixed(task.from)

Reading == \A t \in Tasks : Reads(tasks[t])

\* The inductive invariant.
Whole == Reading /\ WholeList

LEMMA VersionsType ==
  ASSUME NEW v \in DOMAIN Versions
  PROVE  /\ Len(Versions) \in Nat /\ v \in 1 .. Len(Versions)
         /\ Versions[v] \in Seq(Drawers)
         /\ Len(Versions[v]) \in Nat
         /\ DOMAIN Versions[v] = 1 .. Len(Versions[v])
<1>1. Len(Versions) \in Nat /\ v \in 1 .. Len(Versions)
  BY DrawersAssumption
<1>2. Versions[v] \in Seq(Drawers)
  BY VersionType
<1> QED BY <1>1, <1>2

\* The first page begins the list, and each page goes on where the others end.
LEMMA PagesJoin ==
  ASSUME version \in DOMAIN Versions, NEW n \in Nat
  PROVE  /\ Page(0) = Prefix(version, PageSize)
         /\ Prefix(version, n) \cup Page(n) = Prefix(version, n + PageSize)
         /\ Len(Versions[version]) <= n => Prefix(version, n) = Range(Versions[version])
<1> DEFINE list == Versions[version]
<1>1. Len(list) \in Nat /\ DOMAIN list = 1 .. Len(list)
  BY VersionsType
<1>2. PageSize \in Nat
  BY PagesAssumption
<1> HIDE DEF list
<1>3. /\ Page(0) = {list[i] : i \in {j \in DOMAIN list : 0 < j /\ j <= 0 + PageSize}}
      /\ Page(n) = {list[i] : i \in {j \in DOMAIN list : n < j /\ j <= n + PageSize}}
      /\ \A k \in Nat : Prefix(version, k) = {list[i] : i \in {j \in DOMAIN list : j <= k}}
      /\ Range(list) = {list[i] : i \in DOMAIN list}
  BY DEF Page, Prefix, Range, list
<1>4. {j \in DOMAIN list : 0 < j /\ j <= 0 + PageSize} = {j \in DOMAIN list : j <= PageSize}
  BY <1>1, <1>2
<1>5. \A j \in DOMAIN list : j <= n + PageSize <=> j <= n \/ (n < j /\ j <= n + PageSize)
  BY <1>1, <1>2
<1>6. Len(list) <= n => {j \in DOMAIN list : j <= n} = DOMAIN list
  BY <1>1
<1>7. n + PageSize \in Nat
  BY <1>2
<1>8. Prefix(version, n) \cup Page(n) = Prefix(version, n + PageSize)
  BY <1>3, <1>5, <1>7
<1> QED BY <1>2, <1>3, <1>4, <1>6, <1>8 DEF list

\* A page that fails, or comes from another list, makes a mix of what was
\* read, and a mix stays one.
LEMMA MixedKept ==
  ASSUME version \in DOMAIN Versions, NEW from, NEW arrives \in BOOLEAN
  PROVE  /\ ~arrives => Mixed(from \cup Source(arrives))
         /\ Mixed(from) => Mixed(from \cup Source(arrives))
         /\ \A v \in Nat : v # version => Mixed({v} \cup {version})
<1>1. 0 \notin DOMAIN Versions
  BY DrawersAssumption
<1>2. ~arrives => 0 \in from \cup Source(arrives)
  BY DEF Source
<1> QED BY <1>1, <1>2 DEF Mixed, Source

\* What a task has read once a page has arrived or failed.
LEMMA PageReads ==
  ASSUME Types, NEW t \in Tasks, NEW arrives \in BOOLEAN, Reads(tasks[t]), tasks[t].stage = "page"
  PROVE  LET from == tasks[t].from \cup Source(arrives)
         IN  \/ Mixed(from)
             \/ /\ arrives /\ from = {version}
                /\ Gathered(t, arrives) = Prefix(version, tasks[t].offset + PageSize)
<1> DEFINE before  == tasks[t].offset
           from    == tasks[t].from \cup Source(arrives)
<1>0. version \in DOMAIN Versions /\ tasks[t] \in TaskType
  BY DEF Types
<1>1. before \in Nat /\ PageSize \in Nat /\ version \in Nat
  BY <1>0, PagesAssumption, VersionsType DEF TaskType
<1>2. CASE ~arrives \/ Mixed(tasks[t].from)
  BY <1>0, <1>2, MixedKept
<1>3. CASE arrives /\ ~Mixed(tasks[t].from)
  <2>1. /\ Gathered(t, arrives) = tasks[t].fetched \cup Page(before)
        /\ from = tasks[t].from \cup {version}
    BY <1>3 DEF Gathered, Source
  <2>2. CASE before = 0 /\ tasks[t].fetched = {} /\ tasks[t].from = {}
    <3>1. Gathered(t, arrives) = Page(0) /\ before + PageSize = PageSize /\ from = {version}
      BY <1>1, <2>1, <2>2
    <3> QED BY <1>0, <1>1, <1>3, <3>1, PagesJoin
  <2>3. ASSUME NEW v \in 1 .. version, tasks[t].from = {v}, tasks[t].fetched = Prefix(v, before)
        PROVE  \/ Mixed(from)
               \/ from = {version} /\ Gathered(t, arrives) = Prefix(version, before + PageSize)
    <3>1. CASE v = version
      BY <1>0, <1>1, <2>1, <2>3, <3>1, PagesJoin
    <3>2. CASE v # version
      <4>1. v \in Nat /\ from = {v} \cup {version}
        BY <1>1, <2>1, <2>3
      <4>2. Mixed({v} \cup {version})
        BY <1>0, <3>2, <4>1, MixedKept
      <4> QED BY <4>1, <4>2
    <3> QED BY <3>1, <3>2
  <2> QED BY <1>3, <2>2, <2>3 DEF Reads
<1> QED BY <1>2, <1>3

\* A task that starts has read nothing, and one that has ended is idle.
LEMMA FreshReads ==
  /\ Reads(IdleTask)
  /\ \A d \in Drawers : Reads(Task("validate", d, "load"))
  /\ Reads(Task("update", None, "page"))
BY DEF Reads, IdleTask, Task

LEMMA ReadsKept ==
  ASSUME version' = version, NEW t \in Tasks, NEW task, tasks'[t] = task, Reads(task)
  PROVE  Reads(tasks[t])'
BY DEF Reads, Prefix, Mixed

LEMMA ReadingKept ==
  ASSUME Types, Reading, NEW t \in Tasks, NEW task, tasks' = [tasks EXCEPT ![t] = task],
         version' = version, Reads(task)
  PROVE  Reading'
<1>1. tasks'[t] = task /\ \A u \in Tasks : u # t => tasks'[u] = tasks[u]
  BY DEF Types
<1>2. \A u \in Tasks : Reads(tasks[u])
  BY DEF Reading
<1>3. ASSUME NEW u \in Tasks PROVE Reads(tasks[u])'
  <2>1. CASE u = t
    BY <1>1, <2>1, ReadsKept
  <2>2. CASE u # t
    BY <1>1, <1>2, <2>2, ReadsKept
  <2> QED BY <2>1, <2>2
<1> QED BY <1>3 DEF Reading

LEMMA ForkedReading ==
  ASSUME Types, Reading, NEW t \in Tasks, NEW task, tasks' = Forked(t, task),
         version' = version, Reads(task)
  PROVE  Reading'
<1>1. CASE halted
  <2>1. tasks' = tasks
    BY <1>1 DEF Forked
  <2> QED BY <2>1 DEF Reading, Reads, Prefix, Mixed
<1>2. CASE ~halted
  BY <1>2, ReadingKept DEF Forked
<1> QED BY <1>1, <1>2

LEMMA RejectsReading ==
  ASSUME StorageRejects, version' = version
  PROVE  Reading'
<1>1. ASSUME NEW u \in Tasks PROVE Reads(tasks[u])'
  <2>1. tasks'[u] = IdleTask
    BY DEF StorageRejects
  <2> QED BY <2>1, FreshReads, ReadsKept
<1> QED BY <1>1 DEF Reading

\* A task goes on to its next page, or to the write.
LEMMA FetchReading ==
  ASSUME Types, Reading, NEW t \in Tasks, NEW arrives \in BOOLEAN, FetchPage(t, arrives)
  PROVE  Reading'
<1> DEFINE offset == tasks[t].offset + PageSize
           fetched == Gathered(t, arrives)
           from == tasks[t].from \cup Source(arrives)
<1>0. Reads(tasks[t]) /\ tasks[t] \in TaskType /\ version \in DOMAIN Versions
  BY DEF Reading, Types
<1>1. /\ tasks[t].stage = "page" /\ version' = version
      /\ \/ tasks' = [tasks EXCEPT ![t].offset = offset, ![t].fetched = fetched, ![t].from = from]
         \/ /\ ~(arrives /\ More(offset))
            /\ tasks' = [tasks EXCEPT ![t].stage = "store", ![t].offset = offset,
                                      ![t].fetched = fetched, ![t].from = from]
         \/ Finish(t, {})
  BY DEF FetchPage
<1>2. \/ Mixed(from)
      \/ arrives /\ from = {version} /\ fetched = Prefix(version, offset)
  BY <1>0, <1>1, PageReads
<1>3. version \in 1 .. version /\ offset \in Nat /\ Len(Versions[version]) \in Nat
  BY <1>0, VersionsType, PagesAssumption DEF TaskType
<1>4. ~More(offset) => Prefix(version, offset) = Range(Versions[version])
  BY <1>0, <1>3, PagesJoin DEF More
<1> HIDE DEF offset, fetched, from
<1>5. CASE tasks' = [tasks EXCEPT ![t].offset = offset, ![t].fetched = fetched, ![t].from = from]
  <2> DEFINE task == [tasks[t] EXCEPT !.offset = offset, !.fetched = fetched, !.from = from]
  <2>1. tasks' = [tasks EXCEPT ![t] = task]
    BY <1>5
  <2>2. task.stage = "page" /\ task.offset = offset /\ task.fetched = fetched /\ task.from = from
    BY <1>0, <1>1 DEF TaskType
  <2> HIDE DEF task
  <2>3. Reads(task)
    BY <1>2, <1>3, <2>2 DEF Reads
  <2> QED BY <1>1, <2>1, <2>3, ReadingKept
<1>6. CASE /\ ~(arrives /\ More(offset))
           /\ tasks' = [tasks EXCEPT ![t].stage = "store", ![t].offset = offset,
                                     ![t].fetched = fetched, ![t].from = from]
  <2> DEFINE task == [tasks[t] EXCEPT !.stage = "store", !.offset = offset,
                                      !.fetched = fetched, !.from = from]
  <2>1. tasks' = [tasks EXCEPT ![t] = task]
    BY <1>6
  <2>2. task.stage = "store" /\ task.fetched = fetched /\ task.from = from
    BY <1>0 DEF TaskType
  <2> HIDE DEF task
  <2>3. Reads(task)
    BY <1>2, <1>3, <1>4, <1>6, <2>2 DEF Reads
  <2> QED BY <1>1, <2>1, <2>3, ReadingKept
<1>7. CASE Finish(t, {})
  BY <1>1, <1>7, FreshReads, ReadingKept DEF Finish
<1> QED BY <1>1, <1>5, <1>6, <1>7

LEMMA WholeStep ==
  ASSUME TypeOK, Whole, [Next]_vars
  PROVE  Whole'
<1>0. Types /\ Reading /\ WholeList
  BY TypeSplit DEF Whole
<1>1. ASSUME local' = local, torn' = torn, version' = version PROVE WholeList'
  BY <1>0, <1>1 DEF WholeList
<1>2. ASSUME NEW t \in Tasks, NEW d \in Drawers, Validate(t, d) PROVE Whole'
  <2>1. Reading'
    BY <1>0, <1>2, FreshReads, ForkedReading DEF Validate
  <2> QED BY <1>1, <1>2, <2>1 DEF Validate, Whole
<1>3. ASSUME NEW t \in Tasks, Update(t) PROVE Whole'
  <2>1. Reading'
    BY <1>0, <1>3, FreshReads, ForkedReading DEF Update
  <2> QED BY <1>1, <1>3, <2>1 DEF Update, Whole
<1>4. CASE OpenScreen \/ CloseScreen \/ Crashed \/ UNCHANGED vars
  <2>1. UNCHANGED <<version, local, tasks, torn>>
    BY <1>4 DEF OpenScreen, CloseScreen, Crashed, vars
  <2>2. Reading'
    BY <1>0, <2>1 DEF Reading, Reads, Prefix, Mixed
  <2> QED BY <1>1, <2>1, <2>2 DEF Whole
<1>5. CASE ListChanges
  <2>1. version' = version + 1 /\ UNCHANGED <<local, tasks, torn>>
    BY <1>5 DEF ListChanges
  <2>2. version \in Nat
    BY <1>0, VersionsType DEF Types
  <2>3. \A i \in 1 .. version : i \in 1 .. version'
    BY <2>1, <2>2
  <2>4. ASSUME NEW t \in Tasks PROVE Reads(tasks[t])'
    <3>1. Reads(tasks[t])
      BY <1>0 DEF Reading
    <3> QED BY <2>1, <2>3, <3>1 DEF Reads, Prefix, Mixed
  <2>5. WholeList'
    BY <1>0, <2>1, <2>3 DEF WholeList
  <2> QED BY <2>4, <2>5 DEF Whole, Reading
<1>6. ASSUME NEW t \in Tasks, Step(t) PROVE Whole'
  <2>0. Reads(tasks[t]) /\ tasks[t] \in TaskType
    BY <1>0 DEF Reading, Types
  <2>a. ASSUME NEW fetched, Finish(t, fetched), version' = version PROVE Reading'
    BY <1>0, <2>a, FreshReads, ReadingKept DEF Finish
  <2>b. ASSUME StorageRejects, version' = version PROVE Whole'
    BY <1>1, <2>b, RejectsReading DEF StorageRejects, Whole
  <2>1. CASE LoadLocal(t)
    <3>1. CASE Finish(t, local) /\ UNCHANGED <<local, torn>>
      BY <1>1, <2>1, <2>a, <3>1 DEF LoadLocal, Whole
    <3>2. CASE tasks' = [tasks EXCEPT ![t].stage = "page"] /\ UNCHANGED <<local, torn>>
      <4> DEFINE task == [tasks[t] EXCEPT !.stage = "page"]
      <4>1. tasks' = [tasks EXCEPT ![t] = task]
        BY <3>2
      <4>2. Reads(task)
        BY <2>0, <2>1 DEF Reads, TaskType, LoadLocal
      <4> HIDE DEF task
      <4>3. Reading'
        BY <1>0, <2>1, <4>1, <4>2, ReadingKept DEF LoadLocal
      <4> QED BY <1>1, <2>1, <3>2, <4>3 DEF LoadLocal, Whole
    <3> QED BY <2>1, <2>b, <3>1, <3>2 DEF LoadLocal
  <2>2. CASE Store(t)
    <3>1. tasks[t].stage = "store" /\ version' = version
      BY <2>2 DEF Store
    <3>2. CASE /\ local' = tasks[t].fetched /\ torn' = ~Together(tasks[t])
               /\ Finish(t, tasks[t].fetched)
      <4>1. Mixed(tasks[t].from) => torn'
        BY <3>2 DEF Mixed, Together
      <4>2. WholeList'
        BY <2>0, <3>1, <3>2, <4>1 DEF Reads, WholeList
      <4> QED BY <2>a, <3>1, <3>2, <4>2 DEF Whole
    <3> QED BY <2>2, <2>b, <3>1, <3>2 DEF Store
  <2>3. ASSUME NEW arrives \in BOOLEAN, FetchPage(t, arrives) PROVE Whole'
    <3>1. Reading'
      BY <1>0, <2>3, FetchReading
    <3> QED BY <1>1, <2>3, <3>1 DEF FetchPage, Whole
  <2> QED BY <1>6, <2>1, <2>2, <2>3 DEF Step
<1> QED BY <1>2, <1>3, <1>4, <1>5, <1>6 DEF Next

LEMMA WholeInitial == Init => Whole
<1> SUFFICES ASSUME Init PROVE Whole
  OBVIOUS
<1>1. \A t \in Tasks : Reads(tasks[t])
  BY FreshReads DEF Init
<1> QED BY <1>1 DEF Init, Whole, Reading, WholeList

\* sagas/cashDrawers.ts: whatever page fails, however tasks overlap and the
\* service's list changes, the device keeps a whole list, unless the task that
\* stored it read its pages from more than one list or lost a later one.
THEOREM WholeListAlways == Spec => []WholeList
<1>1. TypeOK /\ Whole /\ [Next]_vars => Whole'
  BY WholeStep
<1>2. Whole => WholeList
  BY DEF Whole
<1> QED BY <1>1, <1>2, WholeInitial, TypeCorrect, PTL DEF Spec

\* Only the write of its task ends a validation that has fetched a list, other
\* than a rejection of the storage.
LEMMA EndedByStore ==
  ASSUME Types, Next, NEW t \in Tasks, tasks[t].stage = "store", tasks'[t] = IdleTask, ~halted'
  PROVE  Store(t) /\ ~StorageRejects
<1>1. tasks \in [Tasks -> TaskType] /\ IdleTask.stage = "idle"
  BY DEF Types, IdleTask
<1>2. tasks'[t].stage = "idle" /\ tasks'[t] # tasks[t] /\ ~StorageRejects
  BY <1>1 DEF StorageRejects
<1>3. ASSUME NEW u \in Tasks, NEW task, tasks' = [tasks EXCEPT ![u] = task] \/ tasks' = Forked(u, task)
      PROVE  u = t
  BY <1>1, <1>2, <1>3 DEF Forked
<1>4. ASSUME NEW u \in Tasks, NEW d \in Drawers, Validate(u, d) PROVE FALSE
  <2>1. u = t
    BY <1>3, <1>4 DEF Validate
  <2> QED BY <1>4, <2>1 DEF Validate, Active
<1>5. ASSUME NEW u \in Tasks, Update(u) PROVE FALSE
  <2>1. u = t
    BY <1>3, <1>5 DEF Update
  <2> QED BY <1>5, <2>1 DEF Update, Active
<1>6. CASE OpenScreen \/ CloseScreen \/ ListChanges \/ Crashed
  BY <1>2, <1>6 DEF OpenScreen, CloseScreen, ListChanges, Crashed, vars
<1>7. ASSUME NEW u \in Tasks, Step(u) PROVE Store(t)
  <2>1. \E task : tasks' = [tasks EXCEPT ![u] = task]
    <3>1. CASE LoadLocal(u) \/ Store(u)
      BY <1>2, <3>1 DEF LoadLocal, Store, Finish
    <3>2. ASSUME NEW arrives, FetchPage(u, arrives) PROVE \E task : tasks' = [tasks EXCEPT ![u] = task]
      <4> DEFINE offset  == tasks[u].offset + PageSize
                 fetched == Gathered(u, arrives)
                 from    == tasks[u].from \cup Source(arrives)
      <4>1. \/ tasks' = [tasks EXCEPT ![u].offset = offset, ![u].fetched = fetched, ![u].from = from]
            \/ tasks' = [tasks EXCEPT ![u].stage = "store", ![u].offset = offset,
                                      ![u].fetched = fetched, ![u].from = from]
            \/ Finish(u, {})
        BY <3>2 DEF FetchPage
      <4> HIDE DEF offset, fetched, from
      <4>2. CASE tasks' = [tasks EXCEPT ![u].offset = offset, ![u].fetched = fetched, ![u].from = from]
        <5>1. tasks' = [tasks EXCEPT ![u] =
                          [tasks[u] EXCEPT !.offset = offset, !.fetched = fetched, !.from = from]]
          BY <4>2
        <5> QED BY <5>1
      <4>3. CASE tasks' = [tasks EXCEPT ![u].stage = "store", ![u].offset = offset,
                                        ![u].fetched = fetched, ![u].from = from]
        <5>1. tasks' = [tasks EXCEPT ![u] =
                          [tasks[u] EXCEPT !.stage = "store", !.offset = offset,
                                           !.fetched = fetched, !.from = from]]
          BY <4>3
        <5> QED BY <5>1
      <4> QED BY <4>1, <4>2, <4>3 DEF Finish
    <3> QED BY <1>7, <3>1, <3>2 DEF Step
  <2>2. u = t
    BY <1>3, <2>1
  <2> QED BY <1>7, <2>2 DEF Step, LoadLocal, FetchPage
<1> QED BY <1>2, <1>4, <1>5, <1>6, <1>7 DEF Next

\* sagas/cashDrawers.ts: a drawer that a fetched list refuses is not on that
\* list, in every interleaving.
THEOREM RefusedAsUnlisted == Spec => RefusedIsUnlisted
<1>1. TypeOK /\ Whole /\ [Next]_vars => Whole'
  BY WholeStep
<1>2. TypeOK /\ Whole /\ [Next]_vars =>
        [ \A t \in Tasks :
            tasks[t].stage = "store" /\ tasks[t].kind = "validate" /\ tasks'[t] = IdleTask
              /\ state'.error /\ ~halted'
              => \A i \in 1 .. version :
                   tasks[t].from = {i} => tasks[t].input \notin Range(Versions[i]) ]_vars
  <2> SUFFICES ASSUME TypeOK, Whole, Next, NEW t \in Tasks,
                      tasks[t].stage = "store", tasks[t].kind = "validate",
                      tasks'[t] = IdleTask, state'.error, ~halted',
                      NEW i \in 1 .. version, tasks[t].from = {i}
               PROVE  tasks[t].input \notin Range(Versions[i])
    OBVIOUS
  <2>0. Types /\ version \in DOMAIN Versions
    BY TypeSplit DEF Types
  <2>1. i \in DOMAIN Versions
    BY <2>0, VersionsType
  <2>2. tasks[t].fetched = Range(Versions[i])
    <3>1. ~Mixed(tasks[t].from)
      BY <2>1 DEF Mixed
    <3>2. PICK v \in 1 .. version : tasks[t].from = {v} /\ tasks[t].fetched = Range(Versions[v])
      BY <3>1 DEF Whole, Reading, Reads
    <3>3. v = i
      BY <3>2
    <3> QED BY <3>2, <3>3
  <2>3. tasks[t].input \notin tasks[t].fetched
    <3>1. /\ Finish(t, tasks[t].fetched)
          /\ ~Success(tasks[t].input).error
      BY <2>0, EndedByStore DEF Store, Success
    <3> QED BY <3>1 DEF Finish, Rendered
  <2> QED BY <2>2, <2>3
<1> QED BY <1>1, <1>2, WholeInitial, TypeCorrect, PTL DEF Spec, RefusedIsUnlisted
=============================================================================
