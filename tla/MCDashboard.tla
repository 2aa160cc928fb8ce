---------------------------- MODULE MCDashboard ----------------------------
(***************************************************************************)
(* Values of Dashboard's constants for TLC.                                *)
(***************************************************************************)
EXTENDS Dashboard

\* A book in service, then none.
MCViews == <<[sequence |-> 5, ready |-> TRUE], [sequence |-> 0, ready |-> FALSE]>>

=============================================================================
