------------------------- MODULE MCRunCoordinator -------------------------
(* Model checking RunCoordinator: one Session, and two execution objects so *)
(* that a settled execution and its successor exist at once.                *)
EXTENDS RunCoordinator
=============================================================================
