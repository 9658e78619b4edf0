------------------------------ MODULE Register ------------------------------
(***************************************************************************)
(* What the business saga and the UI state promise together: the screens   *)
(* follow the register.  They move with it or catch up with it later, and  *)
(* always do, unless what they catch up with is out of date by then: they  *)
(* are astray until the register's next move brings them back.             *)
(***************************************************************************)
CONSTANTS States, Unknown

VARIABLES actual,  \* the logical state of the register
          shown,   \* the one the screens are in; Unknown before the first answer
          astray   \* the screens have been put in a state that is out of date

register == <<actual, shown, astray>>

Init == actual \in States /\ shown = Unknown /\ astray = FALSE

\* The screens move with the register.
Move == /\ actual' \in States
        /\ shown' = actual'
        /\ astray' = FALSE

\* The register moves and the screens are left to show what was.
Lead == /\ shown # Unknown
        /\ actual' \in States
        /\ UNCHANGED <<shown, astray>>

Follow == /\ shown' = actual
          /\ astray' = FALSE
          /\ UNCHANGED actual

Stray == /\ shown' \in States \/ UNCHANGED shown
         /\ astray' = TRUE
         /\ UNCHANGED actual

Next == Move \/ Lead \/ Follow \/ Stray

\* The screens catch up as long as they are not astray.
Spec == Init /\ [][Next]_register /\ WF_register(shown # Unknown /\ ~astray /\ Follow)
=============================================================================
