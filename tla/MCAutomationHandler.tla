------------------------ MODULE MCAutomationHandler ------------------------
(***************************************************************************)
(* Instances of AutomationHandler, and of the dashboard that watches it,   *)
(* for TLC.  The amounts an admin tries include a negative one, which the  *)
(* entry points must refuse.                                               *)
(***************************************************************************)
EXTENDS Dashboard

NoAmounts == {}
ScopeAmounts == {-1, 0, 2}
ManualTries == {-1, 1, 3}

=============================================================================
