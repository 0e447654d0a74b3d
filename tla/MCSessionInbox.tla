--------------------------- MODULE MCSessionInbox ---------------------------
(* The instances of SessionInbox that TLC checks.                            *)
EXTENDS SessionInbox

\* Callers are interchangeable, and so are message IDs.
Symmetry == Permutations(Clients) \cup Permutations(Inputs)
=============================================================================
