------------------------------ MODULE Doorbell ------------------------------
(***************************************************************************)
(* What packages/core/src/session/run-coordinator.ts promises its users of *)
(* a key, without its fibers, execution objects, locks and waiters: drains *)
(* come one after the other, a wake begins one or rings a bell, and a bell *)
(* that has been rung is given up only to the beginning of a drain, to a   *)
(* stop or to the shutdown.  While a transition holds the key idle, wakes  *)
(* are kept for its end, and so is a bell that a stop would discard.       *)
(***************************************************************************)
CONSTANT Keys  \* Sessions

VARIABLES stage,  \* stage[k]: idle; a drain is to begin; it drains; it is about to settle
          bell,   \* bell[k]: the bell has been rung since the last drain was to begin
          held,   \* held[k]: a transition holds the key
          kept,   \* kept[k]: and has been told of a wake
          closed  \* shutdown has been called

vars == <<stage, bell, held, kept, closed>>

Stages == {"idle", "begin", "draining", "settling"}

Init == /\ stage = [k \in Keys |-> "idle"]
        /\ bell = [k \in Keys |-> FALSE]
        /\ held = [k \in Keys |-> FALSE]
        /\ kept = [k \in Keys |-> FALSE]
        /\ closed = FALSE

Goto(k, from, to) == stage[k] \in from /\ stage' = [stage EXCEPT ![k] = to]

Ring(k) == \/ ~closed /\ Goto(k, {"idle"}, "begin") /\ UNCHANGED bell
           \/ closed /\ stage[k] = "idle" /\ UNCHANGED <<stage, bell>>
           \/ stage[k] # "idle" /\ bell' = [bell EXCEPT ![k] = TRUE] /\ UNCHANGED stage

Wake(k) == \/ ~held[k] /\ Ring(k) /\ UNCHANGED <<held, kept, closed>>
           \/ held[k] /\ kept' = [kept EXCEPT ![k] = TRUE] /\ UNCHANGED <<stage, bell, held, closed>>

\* A caller who waits for a drain begins one when there is none.
Run(k) == /\ ~held[k] /\ ~closed /\ Goto(k, {"idle"}, "begin")
          /\ UNCHANGED <<bell, held, kept, closed>>

Drain(k) == /\ Goto(k, {"begin"}, "draining")
            /\ UNCHANGED <<bell, held, kept, closed>>

\* The bell has been rung while it drained.
Again(k) == /\ bell[k] /\ Goto(k, {"draining"}, "begin")
            /\ bell' = [bell EXCEPT ![k] = FALSE]
            /\ UNCHANGED <<held, kept, closed>>

\* Nothing is left to do, or the drain fails, at once if it must.
End(k) == /\ Goto(k, {"begin", "draining"}, "settling")
          /\ UNCHANGED <<bell, held, kept, closed>>

\* An interrupt, of a user, a transition or the shutdown.
Stop(k) == /\ Goto(k, {"begin", "draining"}, "settling")
           /\ kept' = [kept EXCEPT ![k] = @ \/ (held[k] /\ bell[k])]
           /\ bell' = [bell EXCEPT ![k] = FALSE]
           /\ UNCHANGED <<held, closed>>

\* A successor answers the bell, unless a transition takes it.
Settle(k) == /\ Goto(k, {"settling"}, IF bell[k] /\ ~held[k] /\ ~closed THEN "begin" ELSE "idle")
             /\ kept' = [kept EXCEPT ![k] = @ \/ (held[k] /\ bell[k])]
             /\ bell' = [bell EXCEPT ![k] = FALSE]
             /\ UNCHANGED <<held, closed>>

Hold(k) == /\ ~held[k] /\ held' = [held EXCEPT ![k] = TRUE]
           /\ UNCHANGED <<stage, bell, kept, closed>>

\* What has been kept is rung.
Release(k) == /\ held[k] /\ held' = [held EXCEPT ![k] = FALSE]
              /\ kept' = [kept EXCEPT ![k] = FALSE]
              /\ IF kept[k] THEN Ring(k) ELSE UNCHANGED <<stage, bell>>
              /\ UNCHANGED closed

Close == closed' = TRUE /\ UNCHANGED <<stage, bell, held, kept>>

Next == \/ \E k \in Keys : \/ Wake(k) \/ Run(k) \/ Drain(k) \/ Again(k) \/ End(k)
                           \/ Stop(k) \/ Settle(k) \/ Hold(k) \/ Release(k)
        \/ Close

Spec == Init /\ [][Next]_vars

=============================================================================
