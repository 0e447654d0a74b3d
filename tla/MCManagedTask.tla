--------------------------- MODULE MCManagedTask ---------------------------
(* Lives of the service and of a default server, small enough for TLC.     *)
EXTENDS ManagedTask, TLC

Lives == Permutations(Managed)
=============================================================================
