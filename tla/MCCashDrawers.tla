--------------------------- MODULE MCCashDrawers ----------------------------
(***************************************************************************)
(* A list that changes, of pages of two drawers, two tasks at a time.       *)
(***************************************************************************)
EXTENDS CashDrawers

CONSTANTS d1, d2, d3, task1, task2

MCDrawers == {d1, d2, d3}

MCFixed == {d2}

MCTasks == {task1, task2}

\* A page and a half, no list for a while, a full page.  The longer list may
\* change between its pages.
Lists == << <<d2, d3, d1>>, <<>>, <<d1, d3>> >>
=============================================================================
