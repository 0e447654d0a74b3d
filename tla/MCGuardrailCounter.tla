------------------------ MODULE MCGuardrailCounter ------------------------
(* Model checking GuardrailCounter: one family, and one pool object more   *)
(* than the map and the closures of waiting calls can keep alive at once.  *)
EXTENDS GuardrailCounter, TLC

Symmetry == Permutations(Calls) \cup Permutations(Pools)

=============================================================================
