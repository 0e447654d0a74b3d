--------------------------- MODULE MCKeyedMutex ---------------------------
(* Model checking KeyedMutex: two keys, three fibers, and one more entry   *)
(* than there are keys, so that a removed entry and its successor coexist. *)
EXTENDS KeyedMutex

=============================================================================
