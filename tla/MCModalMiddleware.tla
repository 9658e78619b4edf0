-------------------------- MODULE MCModalMiddleware --------------------------
(***************************************************************************)
(* Model values for the dialogs of components/common/constants.ts, and the *)
(* symmetry of the dialogs other than the alert.                           *)
(***************************************************************************)
EXTENDS ModalMiddleware, TLC

CONSTANTS alert, loading, approval, suspend

MCModals == {alert, loading, approval, suspend}

MCSymmetry == Permutations(Modals \ {alert})
=============================================================================
