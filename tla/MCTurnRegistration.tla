------------------------- MODULE MCTurnRegistration -------------------------
(***************************************************************************)
(* Small instances of TurnRegistration: the refresh period and its margin  *)
(* are scaled down, a delay may take up all but one tick of the margin.    *)
(***************************************************************************)
EXTENDS TurnRegistration
=============================================================================
