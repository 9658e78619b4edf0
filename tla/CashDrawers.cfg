CONSTANTS
  d1 = d1
  d2 = d2
  d3 = d3
  task1 = task1
  task2 = task2
  Drawers <- MCDrawers
  Fixed <- MCFixed
  Tasks <- MCTasks
  Versions <- Lists
  PageSize = 2
SPECIFICATION Spec
INVARIANTS WholeList NoCrash
PROPERTIES RefusedIsUnlisted Answered
