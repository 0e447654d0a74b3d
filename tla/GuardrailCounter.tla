-------------------------- MODULE GuardrailCounter --------------------------
(***************************************************************************)
(* packages/core/src/session/guardrail-counter.ts: the slots of a Session  *)
(* family for shells, subagents or reviews.  A call of `reserve` takes a   *)
(* free slot, or waits in line for one with a timeout; a released slot goes*)
(* to the first in line.                                                   *)
(*                                                                         *)
(* A pool is an object that `reserve` finds in the map, keeps in a closure *)
(* and queues on later, while `release` looks the map up again: pools have *)
(* an identity here, and the map forgets them when they become empty.      *)
(*                                                                         *)
(* A step is what a fiber does up to a point where it may be suspended.    *)
(* Besides the wait itself these are the operations at which the scheduler *)
(* may take the fiber off after its quota of operations: between finding   *)
(* the pool full and queueing, and between queueing and being protected.   *)
(*                                                                         *)
(* Keys are the pairs of a family and a kind of one cap.  A call without   *)
(* `wait` that finds the pool full fails and changes nothing.              *)
(***************************************************************************)
EXTENDS Naturals, SequencesExt

CONSTANTS Keys,   \* families, for one kind of slot
          Calls,  \* calls of reserve
          Pools,  \* identities of pool objects
          None,   \* no pool
          Limit   \* the cap

ASSUME NoneAssumption == None \notin Pools /\ None \notin Calls
ASSUME LimitAssumption == Limit \in Nat \ {0}

VARIABLES pools,    \* pools[k]: the pool of k in the map, or None
          slots,    \* slots[p]: the calls whose slots p counts
          waiters,  \* waiters[p]: the calls in line
          at,       \* at[c]: where in reserve, or in using the slot, a call is
          of,       \* of[c]: the key it reserves for
          mine,     \* mine[c]: the pool it closed over, while it needs it
          granted,  \* granted[c]: a slot has been given to it
          stale     \* history: a call queued although its pool had room again

vars == <<pools, slots, waiters, at, of, mine, granted, stale>>

\* A call: not begun or returned; the pool was full; in line; protected and
\* waiting; holder of a reservation; interrupted in line before it was protected.
Points == {"none", "full", "queued", "waiting", "holding", "lost"}
InLine == {"queued", "waiting", "lost"}

TypeOK == /\ pools \in [Keys -> Pools \cup {None}]
          /\ slots \in [Pools -> Seq(Calls)]
          /\ waiters \in [Pools -> Seq(Calls)]
          /\ at \in [Calls -> Points]
          /\ of \in [Calls -> Keys]
          /\ mine \in [Calls -> Pools \cup {None}]
          /\ granted \in [Calls -> BOOLEAN]
          /\ stale \in BOOLEAN

Init == /\ pools = [k \in Keys |-> None]
        /\ slots = [p \in Pools |-> <<>>]
        /\ waiters = [p \in Pools |-> <<>>]
        /\ at = [c \in Calls |-> "none"]
        /\ of \in [Calls -> Keys]
        /\ mine = [c \in Calls |-> None]
        /\ granted = [c \in Calls |-> FALSE]
        /\ stale = FALSE

\* An object nothing refers to: what `{ slots: [], waiters: [] }` allocates.
Fresh(p) == (\A k \in Keys : pools[k] # p) /\ (\A c \in Calls : mine[c] # p)

\* s.splice(s.indexOf(c), 1); an index of -1 counts from the end of the array.
Splice(s, c) ==
  IF s = <<>> THEN s
  ELSE RemoveAt(s, IF Contains(s, c) THEN CHOOSE i \in DOMAIN s : s[i] = c ELSE Len(s))

-----------------------------------------------------------------------------
Room(p) == Len(slots[p]) < Limit

\* reserve finds room, perhaps in a pool it creates.
Take(c, k) ==
  /\ at[c] = "none"
  /\ \/ /\ pools[k] # None /\ Room(pools[k])
        /\ slots' = [slots EXCEPT ![pools[k]] = Append(@, c)]
        /\ UNCHANGED <<pools, waiters>>
     \/ /\ pools[k] = None
        /\ \E p \in Pools : /\ Fresh(p)
                            /\ pools' = [pools EXCEPT ![k] = p]
                            /\ slots' = [slots EXCEPT ![p] = <<c>>]
                            /\ waiters' = [waiters EXCEPT ![p] = <<>>]
  /\ at' = [at EXCEPT ![c] = "holding"]
  /\ of' = [of EXCEPT ![c] = k]
  /\ granted' = [granted EXCEPT ![c] = TRUE]
  /\ UNCHANGED <<mine, stale>>

\* reserve finds the pool full, and its caller is prepared to wait.
FindFull(c, k) ==
  /\ at[c] = "none"
  /\ pools[k] # None /\ ~Room(pools[k])
  /\ at' = [at EXCEPT ![c] = "full"]
  /\ of' = [of EXCEPT ![c] = k]
  /\ mine' = [mine EXCEPT ![c] = pools[k]]
  /\ UNCHANGED <<pools, slots, waiters, granted, stale>>

\* It queues on the pool it found, which may have changed since.
Enqueue(c) == /\ at[c] = "full"
              /\ waiters' = [waiters EXCEPT ![mine[c]] = Append(@, c)]
              /\ stale' = (stale \/ Room(mine[c]))
              /\ at' = [at EXCEPT ![c] = "queued"]
              /\ UNCHANGED <<pools, slots, of, mine, granted>>

\* uninterruptibleMask: from here on an interrupt takes the call out of the line.
Protect(c) == /\ at[c] = "queued"
              /\ at' = [at EXCEPT ![c] = "waiting"]
              /\ UNCHANGED <<pools, slots, waiters, of, mine, granted, stale>>

\* Interrupted before it queued.
Cancel(c) == /\ at[c] = "full"
             /\ at' = [at EXCEPT ![c] = "none"]
             /\ mine' = [mine EXCEPT ![c] = None]
             /\ UNCHANGED <<pools, slots, waiters, of, granted, stale>>

\* Interrupted in line before it was protected: nobody takes it out again.
Lose(c) == /\ at[c] = "queued"
           /\ at' = [at EXCEPT ![c] = "lost"]
           /\ mine' = [mine EXCEPT ![c] = None]
           /\ UNCHANGED <<pools, slots, waiters, of, granted, stale>>

\* The deferred is done: reserve returns the reservation.
Resume(c) == /\ at[c] = "waiting" /\ granted[c]
             /\ at' = [at EXCEPT ![c] = "holding"]
             /\ mine' = [mine EXCEPT ![c] = None]
             /\ UNCHANGED <<pools, slots, waiters, of, granted, stale>>

\* Mutant of Free: the slot is given up, nobody in line gets it.
FreeSilently(c) == LET k == of[c]  p == pools[k] IN
  /\ p # None
  /\ slots' = [slots EXCEPT ![p] = Splice(@, c)]
  /\ pools' = [pools EXCEPT ![k] = IF Splice(slots[p], c) = <<>> /\ waiters[p] = <<>>
                                   THEN None ELSE p]
  /\ granted' = [granted EXCEPT ![c] = FALSE]
  /\ UNCHANGED waiters

\* Mutant of Free: pop() instead of shift().
FreeToLast(c) == LET k == of[c]  p == pools[k] IN
  /\ p # None
  /\ slots' = [slots EXCEPT ![p] = IF waiters[p] = <<>> THEN Splice(@, c)
                                   ELSE Append(Splice(@, c), Last(waiters[p]))]
  /\ pools' = [pools EXCEPT ![k] = IF Splice(slots[p], c) = <<>> /\ waiters[p] = <<>>
                                   THEN None ELSE p]
  /\ waiters' = [waiters EXCEPT ![p] = IF @ = <<>> THEN @ ELSE Front(@)]
  /\ granted' = [d \in Calls |-> \/ granted[d] /\ d # c
                                 \/ waiters[p] # <<>> /\ d = Last(waiters[p])]

\* release: the slot goes to the first in line, or back to the pool that the map
\* has now; the map forgets an empty pool, and one that release had to create.
Free(c) == LET p == pools[of[c]] IN
  \/ /\ p = None
     /\ granted' = [granted EXCEPT ![c] = FALSE]
     /\ UNCHANGED <<pools, slots, waiters>>
  \/ /\ p # None /\ waiters[p] = <<>>
     /\ slots' = [slots EXCEPT ![p] = Splice(@, c)]
     /\ pools' = [pools EXCEPT ![of[c]] = IF Splice(slots[p], c) = <<>> THEN None ELSE @]
     /\ granted' = [granted EXCEPT ![c] = FALSE]
     /\ UNCHANGED waiters
  \/ /\ p # None /\ waiters[p] # <<>>
     /\ slots' = [slots EXCEPT ![p] = Append(Splice(@, c), Head(waiters[p]))]
     /\ waiters' = [waiters EXCEPT ![p] = Tail(@)]
     /\ granted' = [granted EXCEPT ![c] = FALSE, ![Head(waiters[p])] = TRUE]
     /\ UNCHANGED pools

\* The holder of a reservation releases it.
Release(c) == /\ at[c] = "holding"
              /\ Free(c)
              /\ at' = [at EXCEPT ![c] = "none"]
              /\ UNCHANGED <<of, mine, stale>>

\* Mutant of Abandon: a slot granted meanwhile is not given back.
AbandonForgetting(c) ==
  /\ at[c] = "waiting"
  /\ waiters' = [waiters EXCEPT ![mine[c]] = IF granted[c] THEN @ ELSE Splice(@, c)]
  /\ at' = [at EXCEPT ![c] = "none"]
  /\ mine' = [mine EXCEPT ![c] = None]
  /\ granted' = [granted EXCEPT ![c] = FALSE]
  /\ UNCHANGED <<pools, slots, of, stale>>

\* The wait times out or is interrupted; a grant may have come just before.
Abandon(c) ==
  /\ at[c] = "waiting"
  /\ \/ granted[c] /\ Free(c)
     \/ /\ ~granted[c]
        /\ waiters' = [waiters EXCEPT ![mine[c]] = Splice(@, c)]
        /\ pools' = [pools EXCEPT ![of[c]] =
                       IF slots[mine[c]] = <<>> /\ Splice(waiters[mine[c]], c) = <<>>
                       THEN None ELSE @]
        /\ UNCHANGED <<slots, granted>>
  /\ at' = [at EXCEPT ![c] = "none"]
  /\ mine' = [mine EXCEPT ![c] = None]
  /\ UNCHANGED <<of, stale>>

Next == \E c \in Calls :
          \/ \E k \in Keys : Take(c, k) \/ FindFull(c, k)
          \/ Enqueue(c) \/ Protect(c) \/ Cancel(c) \/ Lose(c)
          \/ Resume(c) \/ Release(c) \/ Abandon(c)

Spec == Init /\ [][Next]_vars

\* Runnable fibers run, and every holder releases in the end.  Nothing is assumed
\* of timers: a call that waits may wait for ever.
Fairness == \A c \in Calls :
              WF_vars(Enqueue(c) \/ Protect(c) \/ Resume(c) \/ Release(c))

FairSpec == Spec /\ Fairness

-----------------------------------------------------------------------------
\* The calls of k that have a slot, whether or not they have resumed yet.
Reserved(k) == {c \in Calls : of[c] = k /\ granted[c]}

\* specs/session-guardrails.md:110, "The implemented family caps": no family has
\* more slots out than its cap.  The code does not keep it (see CapHolds).
FamilyCap == \A k \in Keys : Cardinality(Reserved(k)) <= Limit

\* The cap is kept through every race of releases, timeouts and interrupts, as
\* long as no call has queued behind a check that no longer held (:116-123).
CapHolds == stale \/ FamilyCap

\* Nobody waits beside a free slot: a slot is handed to the first in line by the
\* call that releases or abandons it, never offered to newcomers first (:84-97).
NoIdleCapacity ==
  stale \/ \A k \in Keys : pools[k] # None /\ waiters[pools[k]] # <<>>
                             => Len(slots[pools[k]]) = Limit

\* Every slot a pool counts belongs to a call that has it, and the other way
\* round: a timeout that races a grant neither leaks the slot nor frees it twice.
SlotsOwned ==
  stale \/ \A k \in Keys :
             IF pools[k] = None THEN Reserved(k) = {}
             ELSE ToSet(slots[pools[k]]) = Reserved(k)

\* The cap and the owners of the slots, which a run checks together.
SlotInv == CapHolds /\ SlotsOwned

\* The place of c in its line.
Ahead(c, d) == \E p \in Pools : \E i, j \in DOMAIN waiters[p] :
                  i < j /\ waiters[p][i] = c /\ waiters[p][j] = d

\* First come, first served: no call gets a slot while one that queued before it
\* is still in line (test "grants released slots ... in arrival order").
ArrivalOrder ==
  [][\A c, d \in Calls :
       Ahead(c, d) /\ ~granted[d] /\ granted'[d]
         => \A p \in Pools : c \notin ToSet(waiters'[p])]_vars

\* A call in line that does not give up gets a slot, unless a slot went to a call
\* that is gone, or the line is one nobody serves.
WaiterServed ==
  \A c \in Calls : at[c] = "waiting" ~> \/ at[c] # "waiting"
                                        \/ stale
                                        \/ \E d \in Calls : at[d] = "lost"

\* specs/session-guardrails.md:116, "Reservations are ... released after success,
\* failure, cancellation, interruption": an interrupted call keeps no slot.  The code
\* does not keep this for a call that gets lost in line.
InterruptedHoldsNothing == \A c \in Calls : at[c] = "lost" => ~granted[c]

=============================================================================
