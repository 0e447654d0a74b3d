------------------------------- MODULE Mutex -------------------------------
(***************************************************************************)
(* What packages/core/src/effect/keyed-mutex.ts promises its users: for    *)
(* every key a mutual exclusion lock, and nothing shared between keys.     *)
(* inside[k] is the set of fibers running an effect under the lock of k.   *)
(***************************************************************************)
CONSTANTS Keys,    \* what is locked (session ids, aggregate ids, ...)
          Fibers   \* the fibers that call withLock

VARIABLE inside

Init == inside = [k \in Keys |-> {}]

\* A fiber may start its effect only while no other one runs under this key.
Enter(f, k) == /\ inside[k] = {}
               /\ inside' = [inside EXCEPT ![k] = {f}]

Exit(f, k) == /\ f \in inside[k]
              /\ inside' = [inside EXCEPT ![k] = @ \ {f}]

Next == \E f \in Fibers, k \in Keys : Enter(f, k) \/ Exit(f, k)

Spec == Init /\ [][Next]_inside

=============================================================================
