------------------------ MODULE RunCoordinatorProofs ------------------------
(***************************************************************************)
(* The safety of RunCoordinator for every set of keys, executions, clients.*)
(*                                                                         *)
(* What carries the proof is that the map `executions` and the fibers that *)
(* have not settled are the same thing (Registered), that a transition     *)
(* entry exists exactly while some call has counted into it (Counted), and *)
(* that a closed coordinator is shutting down every key that still has an  *)
(* execution (Closing).                                                    *)
(***************************************************************************)
EXTENDS RunCoordinator, TLAPS

\* The map holds exactly the executions that have not settled.
Registered ==
  /\ \A k \in Keys : executions[k] # None =>
       phase[executions[k]] \in Live /\ key[executions[k]] = k
  /\ \A x \in Execs : phase[x] \in Live => executions[key[x]] = x

\* The calls in a transition entry are those between Reserve and Release.
Counted ==
  \A k \in Keys, c \in Clients :
    c \in users[k] <=> at[c] \in Transiting /\ of[c] = k

\* The mutex of a key is held by the one client inside its transition.
Locked ==
  \A k \in Keys, c \in Clients :
    lock[k] = c <=> at[c] \in Inside /\ of[c] = k

\* A transition that has seen its key idle still sees it idle.
StaysIdle == \A c \in Clients : at[c] = "quiet" => executions[of[c]] = None

\* Whoever waits for an execution names one.
WaitsForSome ==
  \A c \in Clients :
    at[c] \in {"joined", "stopped", "fiber", "interrupting"} => on[c] \in Execs

\* A closed coordinator is shutting down every key that has an execution.
Closing ==
  closed => \A k \in Keys : executions[k] # None => closer[k] \in {"interrupt", "idle"}

IInv == /\ TypeOK
        /\ Registered
        /\ Counted
        /\ Locked
        /\ StaysIdle
        /\ WaitsForSome
        /\ NoOrphanWaiter
        /\ NoDoorbellLost
        /\ StopClearsDoorbell
        /\ Closing

-----------------------------------------------------------------------------
\* IInv holds initially.
LEMMA InitIInv == Init => IInv
<1> SUFFICES ASSUME Init PROVE IInv
  OBVIOUS
<1>1. TypeOK
  BY DEF Init, TypeOK, Phases, Points
<1>2. Registered /\ Counted /\ Locked /\ StaysIdle /\ WaitsForSome
  BY NoneAssumption DEF Init, Registered, Counted, Locked, StaysIdle, WaitsForSome,
     Live, Owned, Transiting, Inside
<1>3. NoOrphanWaiter /\ NoDoorbellLost /\ StopClearsDoorbell /\ Closing
  BY DEF Init, NoOrphanWaiter, NoDoorbellLost, StopClearsDoorbell, Closing
<1> QED BY <1>1, <1>2, <1>3 DEF IInv

\* The steps of a fiber that neither register nor settle an execution.
LEMMA FiberIInv ==
  ASSUME IInv, NEW x \in Execs, Begin(x) \/ NextDrain(x) \/ Loop(x) \/ Finish(x)
  PROVE  IInv'
<1>0. /\ phase[x] \in Live
      /\ phase'[x] \in Live
      /\ phase' = [phase EXCEPT ![x] = phase'[x]]
      /\ UNCHANGED <<executions, key, stopping, transitionVars, clientVars, closed, closer>>
  BY DEF Begin, NextDrain, Loop, Finish, Step, IInv, TypeOK, Live, Owned, Phases
<1>1. pendingWake' \in [Execs -> BOOLEAN]
  BY Zenon DEF Begin, NextDrain, Loop, Finish, IInv, TypeOK
<1>2. owed' \in [Keys -> {"none", "rung", "taken"}]
  BY DEF Begin, NextDrain, Loop, Finish, Answered, IInv, TypeOK
<1>3. TypeOK'
  <2>1. phase' \in [Execs -> Phases]
    BY <1>0 DEF IInv, TypeOK, Live, Owned, Phases
  <2> QED BY <2>1, <1>0, <1>1, <1>2 DEF IInv, TypeOK, transitionVars, clientVars
<1>4. Registered'
  BY <1>0 DEF IInv, TypeOK, Registered
<1>5. Counted' /\ Locked' /\ StaysIdle' /\ WaitsForSome' /\ Closing'
  BY <1>0 DEF IInv, Counted, Locked, StaysIdle, WaitsForSome, Closing,
     transitionVars, clientVars
<1>6. NoOrphanWaiter'
  BY <1>0 DEF IInv, TypeOK, WaitsForSome, NoOrphanWaiter, Reserved, Live, Owned, transitionVars, clientVars
<1>7. executions[key[x]] = x /\ key[x] \in Keys
  BY <1>0 DEF IInv, TypeOK, Registered
<1>8. NoDoorbellLost'
  BY <1>0, <1>7 DEF Begin, NextDrain, Loop, Finish, Answered, IInv, TypeOK,
     NoDoorbellLost, Carried, Reserved, Registered, transitionVars
<1>9. StopClearsDoorbell'
  BY <1>0, <1>7 DEF Begin, NextDrain, Loop, Finish, Answered, IInv, TypeOK,
     StopClearsDoorbell, Registered
<1> QED BY <1>3, <1>4, <1>5, <1>6, <1>8, <1>9 DEF IInv

\* What an answer to a wake, or a started execution, leaves alone: other keys,
\* and every execution somebody waits for.
OthersKept(k) ==
  /\ \A j \in Keys : j # k =>
       /\ executions'[j] = executions[j]
       /\ owed'[j] = owed[j]
       /\ executions[j] # None =>
            /\ pendingWake'[executions[j]] = pendingWake[executions[j]]
            /\ stopping'[executions[j]] = stopping[executions[j]]
  /\ \A c \in Clients : on[c] \in Execs => phase'[on[c]] = phase[on[c]]

FiberTypes ==
  /\ executions \in [Keys -> Execs \cup {None}]
  /\ phase \in [Execs -> Phases]
  /\ key \in [Execs -> Keys]
  /\ pendingWake \in [Execs -> BOOLEAN]
  /\ stopping \in [Execs -> BOOLEAN]

\* Registering an execution for an idle key (wake, run).
LEMMA StartFacts ==
  ASSUME IInv, NEW k \in Keys, NEW x \in Execs, Start(k, x, phase),
         executions[k] = None, \A j \in Keys : j # k => owed'[j] = owed[j]
  PROVE  /\ FiberTypes'
         /\ Registered'
         /\ OthersKept(k)
         /\ executions'[k] = x /\ ~stopping'[x]
<1>1. /\ executions' \in [Keys -> Execs \cup {None}]
      /\ phase' \in [Execs -> Phases]
      /\ key' \in [Execs -> Keys]
  BY DEF Start, IInv, TypeOK, Phases
<1>2. pendingWake' \in [Execs -> BOOLEAN] /\ stopping' \in [Execs -> BOOLEAN]
  BY Zenon DEF Start, IInv, TypeOK
<1>3. /\ executions'[k] = x /\ ~stopping'[x]
      /\ \A y \in Execs : y # x => phase'[y] = phase[y]
      /\ phase[x] = "free" /\ \A c \in Clients : on[c] # x
  BY DEF Start, Fresh, IInv, TypeOK
<1>4. \A j \in Keys : executions[j] # x
  BY <1>3, NoneAssumption DEF IInv, Registered, Live, Owned
<1>5. OthersKept(k)
  BY <1>3, <1>4 DEF Start, IInv, TypeOK, OthersKept
<1>6. Registered'
  BY <1>1, <1>3, <1>4, NoneAssumption DEF Start, IInv, TypeOK, Registered, Live, Owned
<1> QED BY <1>1, <1>2, <1>3, <1>5, <1>6 DEF FiberTypes

\* Answering a wake: the bell of the registered execution, or a new execution.
LEMMA RingFacts ==
  ASSUME IInv, NEW k \in Keys, Ring(k)
  PROVE  /\ FiberTypes'
         /\ owed' \in [Keys -> {"none", "rung", "taken"}]
         /\ Registered'
         /\ StopClearsDoorbell'
         /\ OthersKept(k)
         /\ executions[k] = None /\ executions'[k] # None => ~closed
         /\ \/ owed'[k] # "rung" \/ closed
            \/ executions'[k] # None /\ pendingWake'[executions'[k]]
<1>1. CASE /\ executions[k] # None
           /\ pendingWake' = [pendingWake EXCEPT ![executions[k]] = TRUE]
           /\ owed' = [owed EXCEPT ![k] = "rung"]
           /\ UNCHANGED <<executions, phase, key, stopping>>
  <2>1. pendingWake' \in [Execs -> BOOLEAN]
    BY <1>1, Zenon DEF IInv, TypeOK
  <2>2. FiberTypes' /\ owed' \in [Keys -> {"none", "rung", "taken"}]
    BY <1>1, <2>1 DEF FiberTypes, IInv, TypeOK
  <2>3. Registered' /\ OthersKept(k)
    <3>1. Registered'
      BY <1>1 DEF IInv, Registered
    <3>2. \A j \in Keys : j # k /\ executions[j] # None => executions[j] # executions[k]
      BY <1>1 DEF IInv, Registered
    <3> QED BY <1>1, <3>1, <3>2 DEF IInv, TypeOK, OthersKept
  <2>4. StopClearsDoorbell' /\ executions'[k] # None /\ pendingWake'[executions'[k]]
    BY <1>1 DEF IInv, TypeOK, Registered, StopClearsDoorbell
  <2> QED BY <1>1, <2>2, <2>3, <2>4
<1>2. CASE /\ executions[k] = None /\ ~closed
           /\ \E x \in Execs : Start(k, x, phase)
           /\ owed' = [owed EXCEPT ![k] = "taken"]
  <2>1. PICK x \in Execs : Start(k, x, phase)
    BY <1>2
  <2>2. /\ owed' \in [Keys -> {"none", "rung", "taken"}] /\ owed'[k] # "rung"
        /\ \A j \in Keys : j # k => owed'[j] = owed[j]
    BY <1>2 DEF IInv, TypeOK
  <2>3. /\ FiberTypes' /\ Registered' /\ OthersKept(k)
        /\ executions'[k] = x /\ ~stopping'[x]
    BY <1>2, <2>1, <2>2, StartFacts
  <2>4. StopClearsDoorbell'
    BY <2>2, <2>3 DEF IInv, StopClearsDoorbell, OthersKept
  <2> QED BY <1>2, <2>2, <2>3, <2>4
<1>3. CASE executions[k] = None /\ closed /\ UNCHANGED <<fiberVars, owed>>
  <2>1. UNCHANGED <<executions, phase, key, pendingWake, stopping, owed>>
    BY <1>3 DEF fiberVars
  <2> QED BY <1>3, <2>1 DEF IInv, TypeOK, FiberTypes, Registered, StopClearsDoorbell, OthersKept
<1> QED BY <1>1, <1>2, <1>3 DEF Ring

\* What stopping the execution of a key does to the doorbells.
LEMMA StopFacts ==
  ASSUME IInv, NEW k \in Keys, Interruptible(k), Stop(k), UNCHANGED closed
  PROVE  /\ FiberTypes'
         /\ doorbell' \in [Keys -> BOOLEAN]
         /\ owed' \in [Keys -> {"none", "rung", "taken"}]
         /\ Registered'
         /\ StopClearsDoorbell'
         /\ NoDoorbellLost'
         /\ UNCHANGED <<executions, phase, key, users, lock>>
<1>0. executions[k] \in Execs /\ UNCHANGED <<executions, phase, key, users, lock>>
  BY DEF Interruptible, Stop, IInv, TypeOK
<1>1. /\ stopping' \in [Execs -> BOOLEAN]
      /\ pendingWake' \in [Execs -> BOOLEAN]
      /\ doorbell' \in [Keys -> BOOLEAN]
  BY <1>0, Zenon DEF Stop, IInv, TypeOK
<1>2. owed' \in [Keys -> {"none", "rung", "taken"}]
  BY DEF Stop, IInv, TypeOK
<1>3. FiberTypes' /\ Registered'
  BY <1>0, <1>1 DEF IInv, TypeOK, FiberTypes, Registered
<1>4. \A j \in Keys : j # k /\ executions[j] # None =>
         /\ executions[j] # executions[k]
         /\ pendingWake'[executions[j]] = pendingWake[executions[j]]
         /\ stopping'[executions[j]] = stopping[executions[j]]
  <2>1. \A j \in Keys : j # k /\ executions[j] # None => executions[j] # executions[k]
    BY <1>0, NoneAssumption DEF IInv, Registered
  <2> QED BY <1>0, <2>1 DEF Stop, IInv, TypeOK
<1>5. ~pendingWake'[executions[k]]
  BY <1>0 DEF Stop, IInv, TypeOK
<1>6. StopClearsDoorbell'
  BY <1>0, <1>4, <1>5 DEF Stop, IInv, TypeOK, StopClearsDoorbell
<1>7. NoDoorbellLost'
  <2>1. ASSUME NEW j \in Keys, owed'[j] = "rung", j # k
        PROVE  Carried(j)'
    <3>1. Carried(j)
      BY <2>1 DEF Stop, IInv, TypeOK, NoDoorbellLost
    <3>2. doorbell'[j] = doorbell[j]
      BY <2>1 DEF Stop, IInv, TypeOK
    <3> QED BY <1>0, <1>4, <2>1, <3>1, <3>2 DEF Carried, Reserved
  <2>2. ASSUME owed'[k] = "rung"
        PROVE  Carried(k)'
    <3>1. Reserved(k) /\ owed[k] = "rung"
      BY <2>2 DEF Stop, IInv, TypeOK
    <3>2. Carried(k)
      BY <3>1 DEF IInv, NoDoorbellLost
    <3>3. doorbell'[k] <=> doorbell[k] \/ pendingWake[executions[k]]
      BY <3>1 DEF Stop, IInv, TypeOK
    <3> QED BY <1>0, <3>1, <3>2, <3>3 DEF Carried, Reserved
  <2> QED BY <2>1, <2>2 DEF NoDoorbellLost
<1> QED BY <1>0, <1>1, <1>2, <1>3, <1>6, <1>7

\* A client that goes on to p, having started or stopped waiting for x.
LEMMA GoTypes ==
  ASSUME IInv, NEW c \in Clients, NEW p \in Points, NEW x \in Execs \cup {None},
         Go(c, p, x)
  PROVE  /\ at' \in [Clients -> Points]
         /\ on' \in [Clients -> Execs \cup {None}]
         /\ at'[c] = p /\ on'[c] = x
         /\ \A d \in Clients : d # c => at'[d] = at[d] /\ on'[d] = on[d]
BY DEF Go, IInv, TypeOK

\* A client goes on to p, in or out of a transition as before; no execution is
\* registered or settled and no transition entry changes.
LEMMA MoveFacts ==
  ASSUME IInv, NEW c \in Clients, NEW p \in Points, NEW x \in Execs \cup {None},
         Go(c, p, x),
         p \in Transiting <=> at[c] \in Transiting,
         p \in Inside <=> at[c] \in Inside,
         p \in {"joined", "stopped", "fiber", "interrupting"} =>
           x \in Execs /\ phase[x] \in Live,
         p = "transition" => Reserved(of'[c]),
         p = "quiet" => executions[of[c]] = None,
         of' \in [Clients -> Keys],
         at[c] \in Transiting => of'[c] = of[c],
         \A d \in Clients : d # c => of'[d] = of[d],
         UNCHANGED <<executions, phase, users, lock>>
  PROVE  /\ at' \in [Clients -> Points] /\ on' \in [Clients -> Execs \cup {None}]
         /\ Counted' /\ Locked' /\ StaysIdle' /\ WaitsForSome' /\ NoOrphanWaiter'
<1>1. /\ at' \in [Clients -> Points]
      /\ on' \in [Clients -> Execs \cup {None}]
      /\ at'[c] = p /\ on'[c] = x
      /\ \A d \in Clients : d # c => at'[d] = at[d] /\ on'[d] = on[d]
  BY GoTypes
<1>2. Inside \subseteq Transiting
  BY DEF Transiting
<1>3. Counted' /\ Locked'
  BY <1>1, <1>2 DEF IInv, Counted, Locked
<1>4. StaysIdle'
  BY <1>1 DEF IInv, StaysIdle, Transiting, Inside
<1>5. WaitsForSome' /\ NoOrphanWaiter'
  BY <1>1 DEF IInv, WaitsForSome, NoOrphanWaiter, Reserved, Live, Owned
<1> QED BY <1>1, <1>3, <1>4, <1>5

\* wake.
LEMMA WakeIInv ==
  ASSUME IInv, NEW k \in Keys, Wake(k)
  PROVE  IInv'
<1>1. CASE Reserved(k)
  <2>0. /\ doorbell' = [doorbell EXCEPT ![k] = TRUE]
        /\ owed' = [owed EXCEPT ![k] = "rung"]
        /\ UNCHANGED <<executions, phase, key, pendingWake, stopping, users, lock,
                       at, of, on, closed, closer>>
    BY <1>1 DEF Wake, fiberVars, clientVars
  <2>1. doorbell' \in [Keys -> BOOLEAN]
    BY <2>0, Zenon DEF IInv, TypeOK
  <2>2. TypeOK'
    BY <2>0, <2>1 DEF IInv, TypeOK
  <2>3. /\ Registered' /\ Counted' /\ Locked' /\ StaysIdle' /\ WaitsForSome'
        /\ NoOrphanWaiter' /\ Closing'
    BY <2>0 DEF IInv, Registered, Counted, Locked, StaysIdle, WaitsForSome,
       NoOrphanWaiter, Reserved, Closing
  <2>4. NoDoorbellLost'
    BY <1>1, <2>0 DEF IInv, TypeOK, NoDoorbellLost, Carried, Reserved
  <2>5. StopClearsDoorbell'
    BY <2>0 DEF IInv, TypeOK, StopClearsDoorbell
  <2> QED BY <2>2, <2>3, <2>4, <2>5 DEF IInv
<1>2. CASE ~Reserved(k) /\ Ring(k)
  <2>0. UNCHANGED <<users, doorbell, lock, at, of, on, closed, closer>>
    BY <1>1, <1>2 DEF Wake, transitionVars, clientVars
  <2>1. /\ FiberTypes'
        /\ owed' \in [Keys -> {"none", "rung", "taken"}]
        /\ Registered'
        /\ StopClearsDoorbell'
        /\ OthersKept(k)
        /\ executions[k] = None /\ executions'[k] # None => ~closed
        /\ \/ owed'[k] # "rung" \/ closed
           \/ executions'[k] # None /\ pendingWake'[executions'[k]]
    BY <1>2, RingFacts
  <2>2. TypeOK'
    BY <2>0, <2>1 DEF IInv, TypeOK, FiberTypes
  <2>3. Counted' /\ Locked' /\ WaitsForSome' /\ NoOrphanWaiter'
    BY <2>0, <2>1 DEF IInv, Counted, Locked, WaitsForSome, NoOrphanWaiter, Reserved, OthersKept
  <2>4. StaysIdle'
    BY <1>2, <2>0, <2>1 DEF IInv, TypeOK, Counted, StaysIdle, Reserved, Transiting, Inside, OthersKept
  <2>5. NoDoorbellLost'
    BY <2>0, <2>1 DEF IInv, NoDoorbellLost, Carried, Reserved, OthersKept
  <2>6. Closing'
    BY <2>0, <2>1 DEF IInv, Closing, OthersKept
  <2> QED BY <2>1, <2>2, <2>3, <2>4, <2>5, <2>6 DEF IInv
<1> QED BY <1>1, <1>2 DEF Wake

\* The end of a fiber whose interrupters go on.
LEMMA EndIInv ==
  ASSUME IInv, NEW x \in Execs, End(x)
  PROVE  IInv'
<1>0. /\ phase[x] = "after" /\ phase' = [phase EXCEPT ![x] = "free"]
      /\ at' = [c \in Clients |-> IF on[c] = x /\ at[c] = "fiber" THEN "returned"
                ELSE IF on[c] = x /\ at[c] = "interrupting" THEN "idling" ELSE at[c]]
      /\ on' = [c \in Clients |-> IF on[c] = x /\ at[c] \in {"fiber", "interrupting"}
                                  THEN None ELSE on[c]]
      /\ UNCHANGED <<executions, key, users, doorbell, lock, of, closed, closer, owed>>
  BY DEF End, Step, Resolve, transitionVars
<1>1. pendingWake' \in [Execs -> BOOLEAN] /\ stopping' \in [Execs -> BOOLEAN]
  BY Zenon DEF End, IInv, TypeOK
<1>2. TypeOK'
  <2>1. phase' \in [Execs -> Phases] /\ at' \in [Clients -> Points]
        /\ on' \in [Clients -> Execs \cup {None}]
    BY <1>0 DEF IInv, TypeOK, Phases, Points, Interrupting, Transiting, Inside
  <2> QED BY <1>0, <1>1, <2>1 DEF IInv, TypeOK
<1>3. \A k \in Keys : executions[k] # x
  BY <1>0, NoneAssumption DEF IInv, Registered, Live, Owned
<1>4. Registered'
  BY <1>0, <1>3 DEF IInv, TypeOK, Registered, Live, Owned
<1>5. \A c \in Clients : /\ at'[c] \in Transiting <=> at[c] \in Transiting
                         /\ at'[c] \in Inside <=> at[c] \in Inside
                         /\ at'[c] = "quiet" <=> at[c] = "quiet"
  BY <1>0 DEF Transiting, Inside
<1>6. Counted' /\ Locked' /\ StaysIdle' /\ Closing'
  BY <1>0, <1>5 DEF IInv, Counted, Locked, StaysIdle, Closing
<1>7. WaitsForSome' /\ NoOrphanWaiter'
  BY <1>0 DEF IInv, TypeOK, WaitsForSome, NoOrphanWaiter, Reserved, Live, Owned
<1>8. \A k \in Keys : executions[k] # None =>
         /\ pendingWake'[executions[k]] = pendingWake[executions[k]]
         /\ stopping'[executions[k]] = stopping[executions[k]]
  BY <1>3 DEF End, IInv, TypeOK
<1>9. NoDoorbellLost' /\ StopClearsDoorbell'
  BY <1>0, <1>8 DEF IInv, NoDoorbellLost, Carried, Reserved, StopClearsDoorbell
<1> QED BY <1>2, <1>4, <1>6, <1>7, <1>9 DEF IInv

\* What settling does to the clients: those that waited for x go on.
LEMMA SettleClients ==
  ASSUME IInv, NEW x \in Execs, Settle(x)
  PROVE  /\ at' \in [Clients -> Points] /\ on' \in [Clients -> Execs \cup {None}]
         /\ \A c \in Clients :
              /\ at'[c] \in Transiting <=> at[c] \in Transiting
              /\ at'[c] \in Inside <=> at[c] \in Inside
              /\ at'[c] = "quiet" <=> at[c] = "quiet"
              /\ at'[c] = "transition" => at[c] = "transition"
              /\ at'[c] \in {"joined", "stopped", "fiber", "interrupting"} =>
                   at'[c] = at[c] /\ on'[c] = on[c]
              /\ at'[c] \in {"joined", "stopped"} => on[c] # x
<1>1. /\ at' = [c \in Clients |-> IF on[c] = x /\ at[c] = "joined" THEN "none"
                ELSE IF on[c] = x /\ at[c] = "stopped" THEN "retry" ELSE at[c]]
      /\ on' = [c \in Clients |-> IF on[c] = x /\ at[c] \in {"joined", "stopped"}
                                  THEN None ELSE on[c]]
  BY DEF Settle, Resolve
<1> QED BY <1>1 DEF IInv, TypeOK, Points, Running, Transiting, Inside

\* The settlement of an execution.
LEMMA SettleIInv ==
  ASSUME IInv, NEW x \in Execs, Settle(x)
  PROVE  IInv'
<1> DEFINE k == key[x]
<1>0. /\ phase[x] = "settling" /\ k \in Keys /\ executions[k] = x
      /\ \A j \in Keys : j # k => executions[j] # x
      /\ UNCHANGED <<users, lock, of, closed, closer>>
  BY NoneAssumption DEF Settle, IInv, TypeOK, Registered, Live
<1>c. /\ at' \in [Clients -> Points] /\ on' \in [Clients -> Execs \cup {None}]
      /\ \A c \in Clients :
           /\ at'[c] \in Transiting <=> at[c] \in Transiting
           /\ at'[c] \in Inside <=> at[c] \in Inside
           /\ at'[c] = "quiet" <=> at[c] = "quiet"
           /\ at'[c] = "transition" => at[c] = "transition"
           /\ at'[c] \in {"joined", "stopped", "fiber", "interrupting"} =>
                at'[c] = at[c] /\ on'[c] = on[c]
           /\ at'[c] \in {"joined", "stopped"} => on[c] # x
  BY SettleClients
<1>1. Counted' /\ Locked' /\ WaitsForSome'
  BY <1>0, <1>c DEF IInv, Counted, Locked, WaitsForSome
<1>2. CASE /\ executions' = [executions EXCEPT ![k] = None]
           /\ phase' = [phase EXCEPT ![x] = "after"]
           /\ UNCHANGED <<key, pendingWake, stopping, owed>>
           /\ \/ /\ Reserved(k)
                 /\ doorbell' = [doorbell EXCEPT ![k] = @ \/ pendingWake[x]]
              \/ /\ ~Reserved(k) /\ (closed \/ ~pendingWake[x])
                 /\ UNCHANGED doorbell
  <2>1. TypeOK'
    <3>1. doorbell' \in [Keys -> BOOLEAN]
      BY <1>2, Zenon DEF IInv, TypeOK
    <3>2. /\ executions' \in [Keys -> Execs \cup {None}]
          /\ phase' \in [Execs -> Phases]
      BY <1>2 DEF IInv, TypeOK, Phases
    <3> QED BY <1>0, <1>2, <1>c, <3>1, <3>2 DEF IInv, TypeOK
  <2>2. Registered'
    BY <1>0, <1>2, NoneAssumption DEF IInv, TypeOK, Registered, Live, Owned
  <2>3. StaysIdle' /\ Closing' /\ StopClearsDoorbell'
    BY <1>0, <1>2, <1>c DEF IInv, TypeOK, StaysIdle, Closing, StopClearsDoorbell
  <2>4. NoOrphanWaiter'
    BY <1>0, <1>2, <1>c DEF IInv, TypeOK, WaitsForSome, NoOrphanWaiter, Reserved
  <2>5. NoDoorbellLost'
    <3>1. ASSUME NEW j \in Keys, owed[j] = "rung", j # k
          PROVE  Carried(j)'
      <4>1. Carried(j)
        BY <3>1 DEF IInv, NoDoorbellLost
      <4>2. doorbell'[j] = doorbell[j] /\ executions'[j] = executions[j]
        BY <1>0, <1>2, <3>1 DEF IInv, TypeOK
      <4> QED BY <1>0, <1>2, <4>1, <4>2 DEF Carried, Reserved
    <3>2. ASSUME owed[k] = "rung"
          PROVE  Carried(k)'
      <4>1. Carried(k)
        BY <1>0, <3>2 DEF IInv, NoDoorbellLost
      <4>2. closed \/ (Reserved(k) /\ doorbell'[k])
        BY <1>0, <1>2, <4>1 DEF Carried, IInv, TypeOK
      <4> QED BY <1>0, <1>2, <4>2 DEF Carried, Reserved
    <3> QED BY <1>2, <3>1, <3>2 DEF NoDoorbellLost
  <2> QED BY <1>1, <2>1, <2>2, <2>3, <2>4, <2>5 DEF IInv
<1>3. ASSUME NEW y \in Execs,
             ~Reserved(k), pendingWake[x], ~closed,
             Start(k, y, [phase EXCEPT ![x] = "after"]), Answered(k), UNCHANGED doorbell
      PROVE  IInv'
  <2>0. /\ y # x /\ phase[y] = "free" /\ \A c \in Clients : on[c] # y
        /\ \A j \in Keys : executions[j] # y
    BY <1>0, <1>3, NoneAssumption DEF Start, Fresh, IInv, Registered, Live, Owned
  <2>1. TypeOK'
    <3>1. pendingWake' \in [Execs -> BOOLEAN] /\ stopping' \in [Execs -> BOOLEAN]
      BY <1>3, Zenon DEF Start, IInv, TypeOK
    <3>2. /\ executions' \in [Keys -> Execs \cup {None}]
          /\ phase' \in [Execs -> Phases]
          /\ key' \in [Execs -> Keys]
          /\ owed' \in [Keys -> {"none", "rung", "taken"}]
      BY <1>0, <1>3 DEF Start, Answered, IInv, TypeOK, Phases
    <3> QED BY <1>0, <1>3, <1>c, <3>1, <3>2 DEF IInv, TypeOK
  <2>2. Registered'
    BY <1>0, <1>3, <2>0, NoneAssumption DEF Start, IInv, TypeOK, Registered, Live, Owned
  <2>3. StaysIdle'
    BY <1>0, <1>3, <1>c DEF IInv, TypeOK, Counted, StaysIdle, Reserved, Transiting, Inside, Start
  <2>4. Closing'
    BY <1>0, <1>3 DEF IInv, Closing
  <2>5. NoOrphanWaiter'
    BY <1>0, <1>3, <2>0, <1>c DEF Start, IInv, TypeOK, WaitsForSome, NoOrphanWaiter, Reserved
  <2>6. \A j \in Keys : j # k =>
          /\ executions'[j] = executions[j] /\ owed'[j] = owed[j]
          /\ executions[j] # None =>
               /\ pendingWake'[executions[j]] = pendingWake[executions[j]]
               /\ stopping'[executions[j]] = stopping[executions[j]]
    BY <1>0, <1>3, <2>0 DEF Start, Answered, IInv, TypeOK
  <2>7. executions'[k] = y /\ ~stopping'[y] /\ owed'[k] # "rung"
    BY <1>0, <1>3 DEF Start, Answered, IInv, TypeOK
  <2>8. NoDoorbellLost' /\ StopClearsDoorbell'
    BY <1>0, <1>3, <2>6, <2>7 DEF IInv, NoDoorbellLost, Carried, Reserved, StopClearsDoorbell
  <2> QED BY <1>1, <2>1, <2>2, <2>3, <2>4, <2>5, <2>8 DEF IInv
<1> QED BY <1>2, <1>3 DEF Settle

\* Steps of a client that change nothing but what it waits for.
LEMMA ClientIInv ==
  ASSUME IInv, NEW c \in Clients, NEW p \in Points, NEW x \in Execs \cup {None},
         Go(c, p, x),
         p \in Transiting <=> at[c] \in Transiting,
         p \in Inside <=> at[c] \in Inside,
         p \in {"joined", "stopped", "fiber", "interrupting"} =>
           x \in Execs /\ phase[x] \in Live,
         p = "transition" => Reserved(of'[c]),
         p = "quiet" => executions[of[c]] = None,
         of' \in [Clients -> Keys],
         at[c] \in Transiting => of'[c] = of[c],
         \A d \in Clients : d # c => of'[d] = of[d],
         UNCHANGED <<fiberVars, transitionVars, closed, closer, owed>>
  PROVE  IInv'
<1>0. UNCHANGED <<executions, phase, key, pendingWake, stopping, users, doorbell, lock,
                  closed, closer, owed>>
  BY DEF fiberVars, transitionVars
<1>1. /\ at' \in [Clients -> Points] /\ on' \in [Clients -> Execs \cup {None}]
      /\ Counted' /\ Locked' /\ StaysIdle' /\ WaitsForSome' /\ NoOrphanWaiter'
  BY <1>0, MoveFacts
<1>2. TypeOK'
  BY <1>0, <1>1 DEF IInv, TypeOK
<1>3. /\ Registered' /\ NoDoorbellLost' /\ StopClearsDoorbell' /\ Closing'
  BY <1>0 DEF IInv, Registered, NoDoorbellLost, Carried, Reserved, StopClearsDoorbell, Closing
<1> QED BY <1>1, <1>2, <1>3 DEF IInv

\* A client calls run, gives up waiting, or goes on after interrupt.
LEMMA RunIInv ==
  ASSUME IInv, NEW c \in Clients,
         (\E k \in Keys : Run(c, k)) \/ CancelRun(c) \/ AfterInterrupt(c)
  PROVE  IInv'
<1>1. PICK p \in {"retry", "none"} :
        /\ Go(c, p, None)
        /\ at[c] \notin Transiting
        /\ of' \in [Clients -> Keys] /\ \A d \in Clients : d # c => of'[d] = of[d]
        /\ UNCHANGED <<fiberVars, transitionVars, closed, closer, owed>>
  BY DEF Run, Call, CancelRun, AfterInterrupt, IInv, TypeOK,
     Running, Interrupting, Transiting, Inside
<1>2. p \in Points /\ p \notin Transiting /\ p \notin Inside
  BY DEF Points, Running, Transiting, Inside
<1>3. at[c] \notin Inside
  BY <1>1 DEF Transiting
<1> QED BY <1>1, <1>2, <1>3, ClientIInv

\* run: join, wait, start, or give up.
LEMMA RetryIInv ==
  ASSUME IInv, NEW c \in Clients, Retry(c)
  PROVE  IInv'
<1> DEFINE k == of[c]
<1>0. /\ at[c] = "retry" /\ k \in Keys
      /\ UNCHANGED <<users, doorbell, lock, of, closed, closer>>
  BY DEF Retry, IInv, TypeOK, transitionVars
<1>1. ASSUME NEW p \in {"transition", "stopped", "joined", "none"},
             NEW x \in Execs \cup {None}, Go(c, p, x),
             p = "transition" => Reserved(k),
             p \in {"stopped", "joined"} => x # None /\ x = executions[k],
             UNCHANGED <<fiberVars, owed>>
      PROVE  IInv'
  <2>1. p \in Points /\ p \notin Transiting /\ p \notin Inside
    BY DEF Points, Running, Transiting, Inside
  <2>2. at[c] \notin Transiting /\ at[c] \notin Inside
    BY <1>0 DEF Transiting, Inside
  <2>3. x # None /\ x = executions[k] => x \in Execs /\ phase[x] \in Live
    BY <1>0 DEF IInv, Registered
  <2>4. of' \in [Clients -> Keys]
    BY <1>0 DEF IInv, TypeOK
  <2> QED BY <1>0, <1>1, <2>1, <2>2, <2>3, <2>4, ClientIInv DEF transitionVars
<1>2. ASSUME NEW x \in Execs, ~Reserved(k), executions[k] = None, ~closed,
             Start(k, x, phase), Go(c, "joined", x), UNCHANGED owed
      PROVE  IInv'
  <2>1. "joined" \in Points
    BY DEF Points, Running
  <2>2. /\ at' \in [Clients -> Points]
        /\ on' \in [Clients -> Execs \cup {None}]
        /\ at'[c] = "joined" /\ on'[c] = x
        /\ \A d \in Clients : d # c => at'[d] = at[d] /\ on'[d] = on[d]
    BY <1>2, <2>1, GoTypes
  <2>3. /\ FiberTypes' /\ Registered' /\ OthersKept(k)
        /\ executions'[k] = x /\ ~stopping'[x]
    BY <1>0, <1>2, StartFacts
  <2>4. TypeOK'
    BY <1>0, <1>2, <2>2, <2>3 DEF IInv, TypeOK, FiberTypes
  <2>5. Counted' /\ Locked'
    BY <1>0, <2>2 DEF IInv, Counted, Locked, Transiting, Inside
  <2>6. StaysIdle'
    BY <1>0, <1>2, <2>2, <2>3 DEF IInv, TypeOK, Counted, StaysIdle, Reserved, Transiting,
       Inside, OthersKept
  <2>7. phase'[x] \in Live
    BY <1>2 DEF Start, IInv, TypeOK, Live, Owned
  <2>8. WaitsForSome' /\ NoOrphanWaiter'
    BY <1>0, <2>2, <2>3, <2>7 DEF IInv, TypeOK, WaitsForSome, NoOrphanWaiter, Reserved, OthersKept
  <2>9. ~Carried(k)
    BY <1>2 DEF Carried
  <2>10. NoDoorbellLost' /\ StopClearsDoorbell' /\ Closing'
    BY <1>0, <1>2, <2>3, <2>9 DEF IInv, NoDoorbellLost, Carried, Reserved, StopClearsDoorbell,
       Closing, OthersKept
  <2> QED BY <2>3, <2>4, <2>5, <2>6, <2>8, <2>10 DEF IInv
<1>3. executions[k] \in Execs \cup {None}
  BY <1>0 DEF IInv, TypeOK
<1>4. CASE Reserved(k) /\ Go(c, "transition", None) /\ UNCHANGED <<fiberVars, owed>>
  BY <1>1, <1>4
<1>5. CASE /\ executions[k] # None /\ UNCHANGED <<fiberVars, owed>>
           /\ Go(c, IF stopping[executions[k]] THEN "stopped" ELSE "joined", executions[k])
  BY <1>1, <1>3, <1>5
<1>6. CASE Go(c, "none", None) /\ UNCHANGED <<fiberVars, owed>>
  BY <1>1, <1>6
<1> QED BY <1>2, <1>4, <1>5, <1>6 DEF Retry

\* interrupt, called by a client or by a transition.
LEMMA InterruptIInv ==
  ASSUME IInv, NEW c \in Clients, NEW k \in Keys,
         Interrupt(c, k) \/ (StopKey(c) /\ k = of[c])
  PROVE  IInv'
<1> DEFINE x == executions[k]
<1>1. /\ x \in Execs \cup {None}
      /\ Interruptible(k) => x \in Execs /\ phase[x] \in Live
  BY DEF IInv, TypeOK, Interruptible, Live
<1>2. /\ of' \in [Clients -> Keys]
      /\ at[c] \in Transiting => of'[c] = of[c]
      /\ \A d \in Clients : d # c => of'[d] = of[d]
      /\ UNCHANGED <<closed, closer>>
  BY DEF Interrupt, StopKey, Call, IInv, TypeOK, Transiting, Inside
<1>3. ASSUME NEW p \in {"fiber", "interrupting"}, Interruptible(k), Stop(k), Go(c, p, x),
             IF p = "fiber" THEN at[c] = "none" ELSE at[c] = "holding"
      PROVE  IInv'
  <2>1. /\ FiberTypes'
        /\ doorbell' \in [Keys -> BOOLEAN]
        /\ owed' \in [Keys -> {"none", "rung", "taken"}]
        /\ Registered'
        /\ StopClearsDoorbell'
        /\ NoDoorbellLost'
        /\ UNCHANGED <<executions, phase, key, users, lock>>
    BY <1>2, <1>3, StopFacts
  <2>2. /\ p \in Points
        /\ p \in Transiting <=> at[c] \in Transiting
        /\ p \in Inside <=> at[c] \in Inside
    BY <1>3 DEF Points, Interrupting, Transiting, Inside
  <2>3. /\ at' \in [Clients -> Points] /\ on' \in [Clients -> Execs \cup {None}]
        /\ Counted' /\ Locked' /\ StaysIdle' /\ WaitsForSome' /\ NoOrphanWaiter'
    BY <1>1, <1>2, <1>3, <2>1, <2>2, MoveFacts
  <2>4. TypeOK'
    BY <1>2, <2>1, <2>3 DEF IInv, TypeOK, FiberTypes
  <2>5. Closing'
    BY <1>2, <2>1 DEF IInv, Closing
  <2> QED BY <2>1, <2>3, <2>4, <2>5 DEF IInv
<1>4. ASSUME NEW p \in {"returned", "idling"}, NEW y \in {x, None}, Go(c, p, y),
             IF p = "returned" THEN at[c] = "none" ELSE at[c] = "holding",
             UNCHANGED <<fiberVars, transitionVars, owed>>
      PROVE  IInv'
  <2>1. /\ p \in Points
        /\ p \in Transiting <=> at[c] \in Transiting
        /\ p \in Inside <=> at[c] \in Inside
    BY <1>4 DEF Points, Interrupting, Transiting, Inside
  <2> QED BY <1>1, <1>2, <1>4, <2>1, ClientIInv
<1> QED BY <1>3, <1>4 DEF Interrupt, Call, StopKey

\* withTransition: reserving, acquiring the mutex, observing idleness.
LEMMA ReserveIInv ==
  ASSUME IInv, NEW c \in Clients, NEW k \in Keys, Reserve(c, k)
  PROVE  IInv'
<1>0. /\ at[c] = "none" /\ of' = [of EXCEPT ![c] = k]
      /\ users' = [users EXCEPT ![k] = @ \cup {c}]
      /\ Go(c, "queued", None)
      /\ UNCHANGED <<executions, phase, key, pendingWake, stopping, doorbell, lock,
                     closed, closer, owed>>
  BY DEF Reserve, Call, fiberVars
<1>1. /\ at' \in [Clients -> Points]
      /\ on' \in [Clients -> Execs \cup {None}]
      /\ at'[c] = "queued" /\ on'[c] = None
      /\ \A d \in Clients : d # c => at'[d] = at[d] /\ on'[d] = on[d]
  BY <1>0, GoTypes DEF Points, Transiting
<1>2. TypeOK'
  BY <1>0, <1>1 DEF IInv, TypeOK
<1>3. Counted' /\ Locked'
  BY <1>0, <1>1 DEF IInv, TypeOK, Counted, Locked, Transiting, Inside
<1>4. \A j \in Keys : Reserved(j) => Reserved(j)'
  BY <1>0 DEF Reserved, IInv, TypeOK
<1>5. /\ Registered' /\ StaysIdle' /\ WaitsForSome' /\ NoOrphanWaiter'
      /\ NoDoorbellLost' /\ StopClearsDoorbell' /\ Closing'
  BY <1>0, <1>1, <1>4 DEF IInv, TypeOK, Registered, StaysIdle, WaitsForSome, NoOrphanWaiter,
     NoDoorbellLost, Carried, StopClearsDoorbell, Closing
<1> QED BY <1>2, <1>3, <1>5 DEF IInv

LEMMA AcquireIInv ==
  ASSUME IInv, NEW c \in Clients, Acquire(c)
  PROVE  IInv'
<1>0. /\ at[c] = "queued" /\ lock[of[c]] = None
      /\ lock' = [lock EXCEPT ![of[c]] = c]
      /\ Go(c, "holding", None)
      /\ UNCHANGED <<executions, phase, key, pendingWake, stopping, users, doorbell, of,
                     closed, closer, owed>>
  BY DEF Acquire, fiberVars
<1>1. /\ at' \in [Clients -> Points]
      /\ on' \in [Clients -> Execs \cup {None}]
      /\ at'[c] = "holding" /\ on'[c] = None
      /\ \A d \in Clients : d # c => at'[d] = at[d] /\ on'[d] = on[d]
  BY <1>0, GoTypes DEF Points, Transiting, Inside
<1>2. TypeOK'
  BY <1>0, <1>1 DEF IInv, TypeOK
<1>3. Counted' /\ Locked'
  BY <1>0, <1>1, NoneAssumption DEF IInv, TypeOK, Counted, Locked, Transiting, Inside
<1>4. /\ Registered' /\ StaysIdle' /\ WaitsForSome' /\ NoOrphanWaiter'
      /\ NoDoorbellLost' /\ StopClearsDoorbell' /\ Closing'
  BY <1>0, <1>1 DEF IInv, Registered, StaysIdle, WaitsForSome, NoOrphanWaiter, Reserved,
     NoDoorbellLost, Carried, StopClearsDoorbell, Closing
<1> QED BY <1>2, <1>3, <1>4 DEF IInv

LEMMA ObserveIdleIInv ==
  ASSUME IInv, NEW c \in Clients, ObserveIdle(c)
  PROVE  IInv'
<1>1. /\ "quiet" \in Points
      /\ "quiet" \in Transiting <=> at[c] \in Transiting
      /\ "quiet" \in Inside <=> at[c] \in Inside
  BY DEF ObserveIdle, Points, Transiting, Inside
<1>2. of' \in [Clients -> Keys]
  BY DEF ObserveIdle, IInv, TypeOK
<1> QED BY <1>1, <1>2, ClientIInv DEF ObserveIdle

\* The finalizer of withTransition.
LEMMA ReleaseIInv ==
  ASSUME IInv, NEW c \in Clients, Release(c)
  PROVE  IInv'
<1> DEFINE k == of[c]
           last == users[k] = {c}
<1>0. /\ k \in Keys /\ at[c] \in Transiting /\ c \in users[k] /\ Reserved(k)
      /\ lock' = [lock EXCEPT ![k] = IF @ = c THEN None ELSE @]
      /\ users' = [users EXCEPT ![k] = @ \ {c}]
      /\ doorbell' = [doorbell EXCEPT ![k] = IF last THEN FALSE ELSE @]
      /\ UNCHANGED <<of, closed, closer>>
  BY DEF Release, IInv, TypeOK, Counted, Reserved
<1>1. /\ at' \in [Clients -> Points] /\ on' \in [Clients -> Execs \cup {None}]
      /\ at'[c] = "none" /\ on'[c] = None
      /\ \A d \in Clients : d # c =>
           /\ on'[d] = on[d]
           /\ \/ at'[d] = at[d] /\ ~(last /\ at[d] = "transition" /\ of[d] = k)
              \/ last /\ at[d] = "transition" /\ of[d] = k /\ at'[d] = "retry"
  BY DEF Release, IInv, TypeOK, Points, Running
<1>2. /\ users' \in [Keys -> SUBSET Clients]
      /\ lock' \in [Keys -> Clients \cup {None}]
      /\ doorbell' \in [Keys -> BOOLEAN]
  <2>1. doorbell' \in [Keys -> BOOLEAN]
    BY <1>0, Zenon DEF IInv, TypeOK
  <2> QED BY <1>0, <2>1 DEF IInv, TypeOK
<1>3. Counted'
  BY <1>0, <1>1 DEF IInv, TypeOK, Counted, Transiting, Inside
<1>4. Locked'
  BY <1>0, <1>1, NoneAssumption DEF IInv, TypeOK, Locked, Transiting, Inside
<1>5. /\ ~last => Reserved(k)'
      /\ \A j \in Keys : j # k => (Reserved(j)' <=> Reserved(j)) /\ doorbell'[j] = doorbell[j]
      /\ ~last => doorbell'[k] = doorbell[k]
  BY <1>0 DEF Reserved, IInv, TypeOK
<1>6. CASE last /\ doorbell[k] /\ Ring(k)
  <2>1. /\ FiberTypes'
        /\ owed' \in [Keys -> {"none", "rung", "taken"}]
        /\ Registered'
        /\ StopClearsDoorbell'
        /\ OthersKept(k)
        /\ executions[k] = None /\ executions'[k] # None => ~closed
        /\ \/ owed'[k] # "rung" \/ closed
           \/ executions'[k] # None /\ pendingWake'[executions'[k]]
    BY <1>0, <1>6, RingFacts
  <2>2. TypeOK'
    BY <1>0, <1>1, <1>2, <2>1 DEF IInv, TypeOK, FiberTypes
  <2>3. \A d \in Clients : at'[d] = "quiet" => of[d] # k /\ at[d] = "quiet"
    BY <1>0, <1>1, <1>6 DEF IInv, Counted, Transiting, Inside
  <2>4. StaysIdle'
    BY <1>0, <2>1, <2>3 DEF IInv, TypeOK, StaysIdle, OthersKept
  <2>5. WaitsForSome'
    BY <1>1 DEF IInv, WaitsForSome
  <2>8. NoOrphanWaiter'
    <3>1. ASSUME NEW d \in Clients, at'[d] \in {"joined", "stopped", "fiber", "interrupting"}
          PROVE  at'[d] = at[d] /\ on'[d] = on[d] /\ phase'[on[d]] = phase[on[d]]
      <4>1. at'[d] = at[d] /\ on'[d] = on[d]
        BY <1>1, <3>1
      <4> QED BY <2>1, <3>1, <4>1 DEF IInv, WaitsForSome, OthersKept
    <3>2. ASSUME NEW d \in Clients, at'[d] = "transition"
          PROVE  Reserved(of[d])'
      <4>1. at[d] = "transition" /\ of[d] # k /\ of[d] \in Keys
        BY <1>1, <1>6, <3>2 DEF IInv, TypeOK
      <4> QED BY <1>0, <1>5, <4>1 DEF IInv, NoOrphanWaiter
    <3> QED BY <1>0, <3>1, <3>2 DEF IInv, NoOrphanWaiter, Reserved
  <2>6. NoDoorbellLost'
    BY <1>0, <1>5, <2>1 DEF IInv, NoDoorbellLost, Carried, OthersKept
  <2>7. Closing'
    BY <1>0, <2>1 DEF IInv, Closing, OthersKept
  <2> QED BY <1>3, <1>4, <2>1, <2>2, <2>4, <2>5, <2>6, <2>7, <2>8 DEF IInv
<1>7. CASE ~(last /\ doorbell[k]) /\ UNCHANGED <<fiberVars, owed>>
  <2>0. UNCHANGED <<executions, phase, key, pendingWake, stopping, owed>>
    BY <1>7 DEF fiberVars
  <2>1. TypeOK'
    BY <1>0, <1>1, <1>2, <2>0 DEF IInv, TypeOK
  <2>2. Registered' /\ StopClearsDoorbell' /\ Closing'
    BY <1>0, <2>0 DEF IInv, Registered, StopClearsDoorbell, Closing
  <2>3. StaysIdle'
    BY <1>0, <1>1, <2>0 DEF IInv, StaysIdle
  <2>4. WaitsForSome' /\ NoOrphanWaiter'
    BY <1>0, <1>1, <1>5, <2>0 DEF IInv, TypeOK, WaitsForSome, NoOrphanWaiter
  <2>5. NoDoorbellLost'
    <3>1. ASSUME NEW j \in Keys, owed[j] = "rung"
          PROVE  Carried(j)'
      <4>1. Carried(j)
        BY <3>1 DEF IInv, NoDoorbellLost
      <4> QED BY <1>0, <1>5, <1>7, <2>0, <4>1 DEF Carried
    <3> QED BY <2>0, <3>1 DEF NoDoorbellLost
  <2> QED BY <1>3, <1>4, <2>1, <2>2, <2>3, <2>4, <2>5 DEF IInv
<1> QED BY <1>6, <1>7 DEF Release

\* shutdown.
LEMMA ShutdownIInv ==
  ASSUME IInv, Shutdown \/ \E k \in Keys : CloseInterrupt(k) \/ CloseIdle(k)
  PROVE  IInv'
<1>1. CASE Shutdown
  <2>0. /\ closed' = TRUE
        /\ closer' = [k \in Keys |-> IF executions[k] = None THEN "none" ELSE "interrupt"]
        /\ UNCHANGED <<executions, phase, key, pendingWake, stopping, users, doorbell, lock,
                       at, of, on, owed>>
    BY <1>1 DEF Shutdown, fiberVars, transitionVars, clientVars
  <2>1. TypeOK' /\ Closing'
    BY <2>0 DEF IInv, TypeOK, Closing
  <2> QED BY <2>0, <2>1 DEF IInv, Registered, Counted, Locked, StaysIdle, WaitsForSome,
         NoOrphanWaiter, Reserved, NoDoorbellLost, Carried, StopClearsDoorbell
<1>2. ASSUME NEW k \in Keys, CloseInterrupt(k)
      PROVE  IInv'
  <2>0. /\ closer' = [closer EXCEPT ![k] = "idle"]
        /\ UNCHANGED <<at, of, on, closed>>
    BY <1>2 DEF CloseInterrupt, clientVars
  <2>1. CASE Interruptible(k) /\ Stop(k)
    <3>1. /\ FiberTypes'
          /\ doorbell' \in [Keys -> BOOLEAN]
          /\ owed' \in [Keys -> {"none", "rung", "taken"}]
          /\ Registered'
          /\ StopClearsDoorbell'
          /\ NoDoorbellLost'
          /\ UNCHANGED <<executions, phase, key, users, lock>>
      BY <2>0, <2>1, StopFacts
    <3>2. TypeOK' /\ Closing'
      BY <2>0, <3>1 DEF IInv, TypeOK, FiberTypes, Closing
    <3> QED BY <2>0, <3>1, <3>2 DEF IInv, Counted, Locked, StaysIdle, WaitsForSome,
           NoOrphanWaiter, Reserved
  <2>2. CASE UNCHANGED <<fiberVars, transitionVars, owed>>
    <3>0. UNCHANGED <<executions, phase, key, pendingWake, stopping, users, doorbell, lock, owed>>
      BY <2>2 DEF fiberVars, transitionVars
    <3>1. TypeOK' /\ Closing'
      BY <2>0, <3>0 DEF IInv, TypeOK, Closing
    <3> QED BY <2>0, <3>0, <3>1 DEF IInv, Registered, Counted, Locked, StaysIdle,
           WaitsForSome, NoOrphanWaiter, Reserved, NoDoorbellLost, Carried, StopClearsDoorbell
  <2> QED BY <1>2, <2>1, <2>2 DEF CloseInterrupt
<1>3. ASSUME NEW k \in Keys, CloseIdle(k)
      PROVE  IInv'
  <2>0. /\ executions[k] = None /\ closer' = [closer EXCEPT ![k] = "done"]
        /\ UNCHANGED <<executions, phase, key, pendingWake, stopping, users, doorbell, lock,
                       at, of, on, closed, owed>>
    BY <1>3 DEF CloseIdle, fiberVars, transitionVars, clientVars
  <2>1. TypeOK' /\ Closing'
    BY <2>0 DEF IInv, TypeOK, Closing
  <2> QED BY <2>0, <2>1 DEF IInv, Registered, Counted, Locked, StaysIdle, WaitsForSome,
         NoOrphanWaiter, Reserved, NoDoorbellLost, Carried, StopClearsDoorbell
<1> QED BY <1>1, <1>2, <1>3

\* Every step of the coordinator preserves IInv.
LEMMA NextIInv == IInv /\ [Next]_vars => IInv'
<1> SUFFICES ASSUME IInv, [Next]_vars PROVE IInv'
  OBVIOUS
<1>1. ASSUME NEW x \in Execs, Fiber(x) PROVE IInv'
  BY <1>1, FiberIInv, SettleIInv, EndIInv DEF Fiber
<1>2. ASSUME NEW k \in Keys, Wake(k) \/ CloseInterrupt(k) \/ CloseIdle(k) PROVE IInv'
  BY <1>2, WakeIInv, ShutdownIInv
<1>3. ASSUME NEW c \in Clients, NEW k \in Keys, Run(c, k) \/ Interrupt(c, k) \/ Reserve(c, k)
      PROVE  IInv'
  BY <1>3, RunIInv, InterruptIInv, ReserveIInv
<1>4. ASSUME NEW c \in Clients, Progress(c) \/ CancelRun(c) \/ AfterInterrupt(c)
      PROVE  IInv'
  <2>1. of[c] \in Keys
    BY DEF IInv, TypeOK
  <2> QED BY <1>4, <2>1, RetryIInv, AcquireIInv, InterruptIInv, ObserveIdleIInv, ReleaseIInv,
         RunIInv DEF Progress
<1>5. CASE Shutdown
  BY <1>5, ShutdownIInv
<1>6. CASE UNCHANGED vars
  BY <1>6 DEF vars, fiberVars, transitionVars, clientVars, IInv, TypeOK, Registered, Counted,
     Locked, StaysIdle, WaitsForSome, NoOrphanWaiter, Reserved, NoDoorbellLost, Carried,
     StopClearsDoorbell, Closing
<1> QED BY <1>1, <1>2, <1>3, <1>4, <1>5, <1>6 DEF Next

\* The inductive invariant of the coordinator.
THEOREM Inductive == Spec => []IInv
BY InitIInv, NextIInv, PTL DEF Spec

-----------------------------------------------------------------------------
\* Every variable keeps values of its kind.
THEOREM Typing == Spec => []TypeOK
<1>1. IInv => TypeOK
  BY DEF IInv
<1> QED BY <1>1, Inductive, PTL

\* Execution is serialized per key (run-coordinator.ts:6), successors included.
THEOREM Serialized == Spec => []OneExecution
<1>1. IInv => OneExecution
  BY DEF IInv, Registered, OneExecution
<1> QED BY <1>1, Inductive, PTL

\* No rung doorbell disappears before a drain answers it, whatever settles, is
\* interrupted, reserved or released in between (:119-125, :197-199).
THEOREM DoorbellKept == Spec => []NoDoorbellLost
<1>1. IInv => NoDoorbellLost
  BY DEF IInv
<1> QED BY <1>1, Inductive, PTL

\* Only a wake after the interruption gives a stopped execution a successor (:14).
THEOREM StoppedQuiet == Spec => []StopClearsDoorbell
<1>1. IInv => StopClearsDoorbell
  BY DEF IInv
<1> QED BY <1>1, Inductive, PTL

\* A key that a transition has seen idle stays idle until it releases, and the
\* transitions of a key serialize (:20, :123-125).
THEOREM TransitionExclusive == Spec => [](TransitionQuiet /\ TransitionsSerialize)
<1>1. IInv => TransitionQuiet
  BY NoneAssumption DEF IInv, StaysIdle, Registered, TransitionQuiet
<1>2. IInv => TransitionsSerialize
  BY DEF IInv, TypeOK, Locked, TransitionsSerialize
<1> QED BY <1>1, <1>2, Inductive, PTL

\* Whoever waits, waits for something that is still to come (:34, :182).
THEOREM NobodyOrphaned == Spec => []NoOrphanWaiter
<1>1. IInv => NoOrphanWaiter
  BY DEF IInv
<1> QED BY <1>1, Inductive, PTL

\* Once shutdown has returned, nothing executes (:219-226).
THEOREM ShutdownFinal == Spec => []ShutdownQuiet
<1>1. IInv => ShutdownQuiet
  BY NoneAssumption DEF IInv, TypeOK, Registered, Closing, ShutdownQuiet
<1> QED BY <1>1, Inductive, PTL

\* What has been promised to be quiet is quiet: the key of a transition and, after
\* shutdown, every key.
THEOREM Quieted == Spec => []QuietInv
<1>1. TransitionQuiet /\ ShutdownQuiet => QuietInv
  BY DEF QuietInv
<1> QED BY <1>1, TransitionExclusive, ShutdownFinal, PTL

-----------------------------------------------------------------------------
(* The coordinator implements one doorbell per key (Doorbell).             *)

stages == [k \in Keys |-> StageOf(k)]
bells == [k \in Keys |-> Rung(k)]
holds == [k \in Keys |-> Reserved(k)]

\* Nothing that Doorbell shows of a key has moved,
Same(j) == /\ StageOf(j)' = StageOf(j) /\ Rung(j)' = Rung(j)
           /\ Reserved(j)' = Reserved(j) /\ doorbell'[j] = doorbell[j]

\* because nothing has that it is made of.
Still(j) ==
  /\ executions'[j] = executions[j] /\ users'[j] = users[j] /\ doorbell'[j] = doorbell[j]
  /\ executions[j] # None => /\ phase'[executions[j]] = phase[executions[j]]
                             /\ pendingWake'[executions[j]] = pendingWake[executions[j]]
                             /\ stopping'[executions[j]] = stopping[executions[j]]

LEMMA StillSame == ASSUME NEW j \in Keys, Still(j) PROVE Same(j)
<1>1. StageOf(j)' = StageOf(j)
  BY DEF Still, StageOf
<1>2. Rung(j)' = Rung(j)
  BY DEF Still, Rung
<1>3. Reserved(j)' = Reserved(j)
  BY DEF Still, Reserved
<1> QED BY <1>1, <1>2, <1>3 DEF Same, Still

\* What a step that concerns one key shows.
LEMMA Shown ==
  ASSUME TypeOK, TypeOK', NEW k \in Keys, \A j \in Keys : j # k => Same(j)
  PROVE  /\ stages' = [stages EXCEPT ![k] = StageOf(k)']
         /\ bells' = [bells EXCEPT ![k] = Rung(k)']
         /\ holds' = [holds EXCEPT ![k] = Reserved(k)']
         /\ doorbell' = [doorbell EXCEPT ![k] = doorbell'[k]]
<1>1. doorbell' = [doorbell EXCEPT ![k] = doorbell'[k]]
  BY DEF Same, TypeOK
<1>2. stages' = [stages EXCEPT ![k] = StageOf(k)']
  BY DEF Same, stages
<1>3. bells' = [bells EXCEPT ![k] = Rung(k)']
  BY DEF Same, bells
<1>4. holds' = [holds EXCEPT ![k] = Reserved(k)']
  BY DEF Same, holds
<1> QED BY <1>1, <1>2, <1>3, <1>4

LEMMA Hidden ==
  ASSUME TypeOK, TypeOK', closed' = closed, \A j \in Keys : Same(j)
  PROVE  UNCHANGED Bell!vars
<1>1. stages' = stages /\ bells' = bells /\ holds' = holds
  BY DEF Same, stages, bells, holds
<1>2. doorbell' = doorbell
  BY DEF Same, TypeOK
<1> QED BY <1>1, <1>2 DEF Bell!vars, stages, bells, holds

\* A wake that nothing keeps.
Rings(k) ==
  \/ StageOf(k) = "idle" /\ ~closed /\ StageOf(k)' = "begin" /\ Rung(k)' = Rung(k)
  \/ StageOf(k) = "idle" /\ closed /\ StageOf(k)' = "idle" /\ Rung(k)' = Rung(k)
  \/ StageOf(k) # "idle" /\ StageOf(k)' = StageOf(k) /\ Rung(k)' = TRUE

\* The steps of Doorbell, by what they do to the key they concern.
LEMMA Functions ==
  ASSUME TypeOK, TypeOK', NEW k \in Keys, \A j \in Keys : j # k => Same(j), closed' = closed
  PROVE  /\ stages' = [stages EXCEPT ![k] = StageOf(k)'] /\ bells' = [bells EXCEPT ![k] = Rung(k)']
         /\ holds' = [holds EXCEPT ![k] = Reserved(k)'] /\ doorbell' = [doorbell EXCEPT ![k] = doorbell'[k]]
         /\ stages[k] = StageOf(k) /\ bells[k] = Rung(k) /\ holds[k] = Reserved(k)
         /\ Rung(k)' = Rung(k) => bells' = bells
         /\ Reserved(k)' = Reserved(k) => holds' = holds
         /\ StageOf(k)' = StageOf(k) => stages' = stages
         /\ doorbell'[k] = doorbell[k] => doorbell' = doorbell
         /\ Rung(k) \in BOOLEAN /\ Reserved(k) \in BOOLEAN
<1>1. /\ stages' = [stages EXCEPT ![k] = StageOf(k)'] /\ bells' = [bells EXCEPT ![k] = Rung(k)']
      /\ holds' = [holds EXCEPT ![k] = Reserved(k)'] /\ doorbell' = [doorbell EXCEPT ![k] = doorbell'[k]]
      /\ stages[k] = StageOf(k) /\ bells[k] = Rung(k) /\ holds[k] = Reserved(k)
  BY Shown DEF stages, bells, holds
<1>2. /\ Rung(k)' = Rung(k) => bells' = bells
      /\ Reserved(k)' = Reserved(k) => holds' = holds
      /\ StageOf(k)' = StageOf(k) => stages' = stages
      /\ doorbell'[k] = doorbell[k] => doorbell' = doorbell
  <2>1. Rung(k)' = Rung(k) => bells' = bells
    BY <1>1 DEF bells
  <2>2. Reserved(k)' = Reserved(k) => holds' = holds
    BY <1>1 DEF holds
  <2>3. StageOf(k)' = StageOf(k) => stages' = stages
    BY <1>1 DEF stages
  <2>4. doorbell'[k] = doorbell[k] => doorbell' = doorbell
    <3>1. doorbell' = [doorbell EXCEPT ![k] = doorbell'[k]]
      BY <1>1
    <3> QED BY <3>1 DEF TypeOK
  <2> QED BY <2>1, <2>2, <2>3, <2>4
<1>3. Rung(k) \in BOOLEAN /\ Reserved(k) \in BOOLEAN
  BY DEF Rung, Reserved, TypeOK
<1> QED BY <1>1, <1>2, <1>3

LEMMA Steps ==
  ASSUME TypeOK, TypeOK', NEW k \in Keys, \A j \in Keys : j # k => Same(j), closed' = closed
  PROVE  /\ (/\ Same(k)) => UNCHANGED Bell!vars
         /\ (/\ StageOf(k) = "begin"
             /\ StageOf(k)' = "draining"
             /\ Rung(k)' = Rung(k)
             /\ Reserved(k)' = Reserved(k)
             /\ doorbell'[k] = doorbell[k]) => Bell!Drain(k)
         /\ (/\ StageOf(k) = "draining"
             /\ StageOf(k)' = "begin"
             /\ Rung(k)
             /\ Rung(k)' = FALSE
             /\ Reserved(k)' = Reserved(k)
             /\ doorbell'[k] = doorbell[k]) => Bell!Again(k)
         /\ (/\ StageOf(k) = "draining"
             /\ StageOf(k)' = "settling"
             /\ Rung(k)' = Rung(k)
             /\ Reserved(k)' = Reserved(k)
             /\ doorbell'[k] = doorbell[k]) => Bell!End(k)
         /\ (/\ StageOf(k) \in {"begin", "draining"}
             /\ StageOf(k)' = "settling"
             /\ Rung(k)' = FALSE
             /\ Reserved(k)' = Reserved(k)
             /\ doorbell'[k] = (doorbell[k] \/ (Reserved(k) /\ Rung(k)))) => Bell!Stop(k)
         /\ (/\ StageOf(k) = "settling"
             /\ StageOf(k)' = (IF Rung(k) /\ ~Reserved(k) /\ ~closed THEN "begin" ELSE "idle")
             /\ Rung(k)' = FALSE
             /\ Reserved(k)' = Reserved(k)
             /\ doorbell'[k] = (doorbell[k] \/ (Reserved(k) /\ Rung(k)))) => Bell!Settle(k)
         /\ (/\ ~closed
             /\ ~Reserved(k)
             /\ StageOf(k) = "idle"
             /\ StageOf(k)' = "begin"
             /\ Rung(k)' = Rung(k)
             /\ Reserved(k)' = Reserved(k)
             /\ doorbell'[k] = doorbell[k]) => Bell!Run(k)
         /\ (/\ ~Reserved(k)
             /\ Reserved(k)'
             /\ StageOf(k)' = StageOf(k)
             /\ Rung(k)' = Rung(k)
             /\ doorbell'[k] = doorbell[k]) => Bell!Hold(k)
         /\ (/\ ~Reserved(k)
             /\ Rings(k)
             /\ Reserved(k)' = Reserved(k)
             /\ doorbell'[k] = doorbell[k]) => Bell!Wake(k)
         /\ (/\ Reserved(k)
             /\ doorbell'[k] = TRUE
             /\ StageOf(k)' = StageOf(k)
             /\ Rung(k)' = Rung(k)
             /\ Reserved(k)' = Reserved(k)) => Bell!Wake(k)
         /\ (/\ Reserved(k)
             /\ ~Reserved(k)'
             /\ doorbell'[k] = FALSE
             /\ IF doorbell[k] THEN Rings(k) ELSE StageOf(k)' = StageOf(k) /\ Rung(k)' = Rung(k)) => Bell!Release(k)
<1>1. (/\ Same(k)) => UNCHANGED Bell!vars
  BY Functions DEF Same, Bell!vars, stages, bells, holds
<1>2. (/\ StageOf(k) = "begin"
       /\ StageOf(k)' = "draining"
       /\ Rung(k)' = Rung(k)
       /\ Reserved(k)' = Reserved(k)
       /\ doorbell'[k] = doorbell[k]) => Bell!Drain(k)
  BY Functions DEF Bell!Drain, Bell!Goto, stages, bells, holds
<1>3. (/\ StageOf(k) = "draining"
       /\ StageOf(k)' = "begin"
       /\ Rung(k)
       /\ Rung(k)' = FALSE
       /\ Reserved(k)' = Reserved(k)
       /\ doorbell'[k] = doorbell[k]) => Bell!Again(k)
  BY Functions DEF Bell!Again, Bell!Goto, stages, bells, holds
<1>4. (/\ StageOf(k) = "draining"
       /\ StageOf(k)' = "settling"
       /\ Rung(k)' = Rung(k)
       /\ Reserved(k)' = Reserved(k)
       /\ doorbell'[k] = doorbell[k]) => Bell!End(k)
  BY Functions DEF Bell!End, Bell!Goto, stages, bells, holds
<1>5. (/\ StageOf(k) \in {"begin", "draining"}
       /\ StageOf(k)' = "settling"
       /\ Rung(k)' = FALSE
       /\ Reserved(k)' = Reserved(k)
       /\ doorbell'[k] = (doorbell[k] \/ (Reserved(k) /\ Rung(k)))) => Bell!Stop(k)
  BY Functions DEF Bell!Stop, Bell!Goto, stages, bells, holds
<1>6. (/\ StageOf(k) = "settling"
       /\ StageOf(k)' = (IF Rung(k) /\ ~Reserved(k) /\ ~closed THEN "begin" ELSE "idle")
       /\ Rung(k)' = FALSE
       /\ Reserved(k)' = Reserved(k)
       /\ doorbell'[k] = (doorbell[k] \/ (Reserved(k) /\ Rung(k)))) => Bell!Settle(k)
  BY Functions DEF Bell!Settle, Bell!Goto, stages, bells, holds
<1>7. (/\ ~closed
       /\ ~Reserved(k)
       /\ StageOf(k) = "idle"
       /\ StageOf(k)' = "begin"
       /\ Rung(k)' = Rung(k)
       /\ Reserved(k)' = Reserved(k)
       /\ doorbell'[k] = doorbell[k]) => Bell!Run(k)
  BY Functions DEF Bell!Run, Bell!Goto, stages, bells, holds
<1>8. (/\ ~Reserved(k)
       /\ Reserved(k)'
       /\ StageOf(k)' = StageOf(k)
       /\ Rung(k)' = Rung(k)
       /\ doorbell'[k] = doorbell[k]) => Bell!Hold(k)
  BY Functions DEF Bell!Hold, stages, bells, holds
<1>9. (/\ ~Reserved(k)
       /\ Rings(k)
       /\ Reserved(k)' = Reserved(k)
       /\ doorbell'[k] = doorbell[k]) => Bell!Wake(k)
  BY Functions DEF Bell!Wake, Bell!Ring, Bell!Goto, Rings, stages, bells, holds
<1>10. (/\ Reserved(k)
       /\ doorbell'[k] = TRUE
       /\ StageOf(k)' = StageOf(k)
       /\ Rung(k)' = Rung(k)
       /\ Reserved(k)' = Reserved(k)) => Bell!Wake(k)
  BY Functions DEF Bell!Wake, Bell!Ring, Bell!Goto, Rings, stages, bells, holds
<1>11. (/\ Reserved(k)
       /\ ~Reserved(k)'
       /\ doorbell'[k] = FALSE
       /\ IF doorbell[k] THEN Rings(k) ELSE StageOf(k)' = StageOf(k) /\ Rung(k)' = Rung(k)) => Bell!Release(k)
  <2> SUFFICES ASSUME Reserved(k), ~Reserved(k)', doorbell'[k] = FALSE,
                      IF doorbell[k] THEN Rings(k)
                                     ELSE StageOf(k)' = StageOf(k) /\ Rung(k)' = Rung(k)
               PROVE  Bell!Release(k)
    OBVIOUS
  <2>1. /\ holds[k] /\ holds' = [holds EXCEPT ![k] = FALSE]
        /\ doorbell' = [doorbell EXCEPT ![k] = FALSE] /\ closed' = closed
    <3>1. Reserved(k)' = FALSE
      BY DEF Reserved
    <3> QED BY <3>1, Functions
  <2>2. CASE doorbell[k]
    <3>1. Bell!Ring(k)
      BY <2>2, Functions DEF Bell!Ring, Bell!Goto, Rings, stages, bells
    <3> QED BY <2>1, <2>2, <3>1 DEF Bell!Release, holds
  <2>3. CASE ~doorbell[k]
    <3>1. stages' = stages /\ bells' = bells
      BY <2>3, Functions
    <3> QED BY <2>1, <2>3, <3>1 DEF Bell!Release, stages, bells, holds
  <2> QED BY <2>2, <2>3
<1> QED BY <1>1, <1>2, <1>3, <1>4, <1>5, <1>6, <1>7, <1>8, <1>9, <1>10, <1>11

\* The steps of an execution's fiber.
LEMMA FiberBell ==
  ASSUME IInv, IInv', NEW x \in Execs, Fiber(x)
  PROVE  Bell!Next \/ UNCHANGED Bell!vars
<1>k. PICK k \in Keys : k = key[x]
  BY DEF IInv, TypeOK
<1>0. TypeOK /\ TypeOK'
  BY DEF IInv
<1>1. CASE Begin(x) \/ NextDrain(x) \/ Loop(x) \/ Finish(x)
  <2>1. /\ phase[x] \in Live /\ phase'[x] \in Live /\ phase' = [phase EXCEPT ![x] = phase'[x]]
        /\ UNCHANGED <<executions, stopping, users, doorbell, closed>>
    BY <1>1 DEF Begin, NextDrain, Loop, Finish, Step, IInv, TypeOK, Live, Owned, transitionVars
  <2>2. executions[k] = x /\ x # None /\ \A j \in Keys : j # k => executions[j] # x
    BY <1>k, <2>1, NoneAssumption DEF IInv, Registered
  <2>3. \A y \in Execs : y # x => pendingWake'[y] = pendingWake[y] /\ phase'[y] = phase[y]
    BY <1>1, <2>1 DEF Begin, NextDrain, Loop, Finish, IInv, TypeOK
  <2>4. \A j \in Keys : j # k => Same(j)
    <3>1. \A j \in Keys : j # k => Still(j)
      BY <2>1, <2>2, <2>3 DEF Still, IInv, TypeOK
    <3> QED BY <3>1, StillSame
  <2>5. Reserved(k)' = Reserved(k) /\ doorbell'[k] = doorbell[k]
    BY <2>1 DEF Reserved
  <2>6. CASE stopping[x]
    <3>1. StageOf(k)' = StageOf(k) /\ pendingWake' = pendingWake
      BY <1>1, <2>1, <2>2, <2>6 DEF StageOf, Begin, NextDrain, Loop, Finish
    <3>2. Same(k)
      BY <2>1, <2>5, <3>1 DEF Same, Rung
    <3> QED BY <1>0, <2>1, <2>4, <3>2, Steps
  <2>7. CASE ~stopping[x]
    <3>1. CASE Begin(x)
      <4>1. Same(k)
        BY <2>1, <2>2, <2>5, <2>7, <3>1 DEF Same, StageOf, Rung, Begin, Step, TypeOK, IInv
      <4> QED BY <1>0, <2>1, <2>4, <4>1, Steps
    <3>2. CASE NextDrain(x)
      <4>1. StageOf(k) = "begin" /\ StageOf(k)' = "draining" /\ Rung(k)' = Rung(k)
        BY <2>1, <2>2, <2>7, <3>2 DEF StageOf, Rung, NextDrain, Step, TypeOK, IInv
      <4>2. Bell!Drain(k)
        BY <1>0, <2>1, <2>4, <2>5, <4>1, Steps
      <4> QED BY <1>0, <4>2 DEF Bell!Next
    <3>3. CASE Loop(x)
      <4>1. StageOf(k) = "draining" /\ StageOf(k)' = "begin" /\ Rung(k)
        BY <2>1, <2>2, <2>7, <3>3 DEF StageOf, Rung, Loop, Step, TypeOK, IInv
      <4>2. Rung(k)' = FALSE
        BY <2>1, <2>2, <3>3 DEF Rung, Loop, TypeOK, IInv
      <4>3. Bell!Again(k)
        BY <1>0, <2>1, <2>4, <2>5, <4>1, <4>2, Steps
      <4> QED BY <1>0, <4>3 DEF Bell!Next
    <3>4. CASE Finish(x)
      <4>1. StageOf(k) = "draining" /\ StageOf(k)' = "settling" /\ Rung(k)' = Rung(k)
        BY <2>1, <2>2, <2>7, <3>4 DEF StageOf, Rung, Finish, Step, TypeOK, IInv
      <4>2. Bell!End(k)
        BY <1>0, <2>1, <2>4, <2>5, <4>1, Steps
      <4> QED BY <1>0, <4>2 DEF Bell!Next
    <3> QED BY <1>1, <3>1, <3>2, <3>3, <3>4
  <2> QED BY <2>6, <2>7
<1>2. CASE Settle(x)
  <2>1. /\ phase[x] = "settling" /\ UNCHANGED <<users, closed>>
        /\ executions[k] = x /\ x # None /\ \A j \in Keys : j # k => executions[j] # x
    BY <1>k, <1>2, NoneAssumption DEF Settle, IInv, Registered, Live
  <2>2. /\ StageOf(k) = "settling" /\ Rung(k) = pendingWake[x]
        /\ Reserved(k)' = Reserved(k)
    BY <2>1 DEF StageOf, Rung, Reserved, IInv, TypeOK
  <2>3. CASE ~Reserved(k) /\ Rung(k) /\ ~closed
    <3>1. UNCHANGED doorbell /\ \E y \in Execs : Start(k, y, [phase EXCEPT ![x] = "after"])
      BY <1>k, <1>2, <2>2, <2>3 DEF Settle
    <3>2. PICK y \in Execs : Start(k, y, [phase EXCEPT ![x] = "after"])
      BY <3>1
    <3>3. phase[y] = "free" /\ y # None /\ y # x /\ \A j \in Keys : executions[j] # y
      BY <2>1, <3>2, NoneAssumption DEF Start, Fresh, IInv, Registered, Live, Owned
    <3>4. /\ executions' = [executions EXCEPT ![k] = y]
          /\ \A z \in Execs : z # x /\ z # y => /\ phase'[z] = phase[z] /\ stopping'[z] = stopping[z]
                                               /\ pendingWake'[z] = pendingWake[z]
          /\ phase'[y] = "begin" /\ ~pendingWake'[y] /\ ~stopping'[y]
      BY <3>2 DEF Start, IInv, TypeOK
    <3>5. \A j \in Keys : j # k => Still(j)
      BY <1>0, <2>1, <3>1, <3>3, <3>4 DEF Still, TypeOK
    <3>6. \A j \in Keys : j # k => Same(j)
      BY <3>5, StillSame
    <3>7. StageOf(k)' = "begin" /\ Rung(k)' = FALSE /\ doorbell'[k] = doorbell[k]
      BY <1>0, <3>1, <3>3, <3>4 DEF StageOf, Rung, TypeOK
    <3>8. doorbell'[k] = (doorbell[k] \/ (Reserved(k) /\ Rung(k)))
      BY <1>0, <2>3, <3>7 DEF TypeOK
    <3>9. Bell!Settle(k)
      BY <1>0, <2>1, <2>2, <2>3, <3>6, <3>7, <3>8, Steps
    <3> QED BY <1>0, <3>9 DEF Bell!Next
  <2>4. CASE ~(~Reserved(k) /\ Rung(k) /\ ~closed)
    <3>1. /\ executions' = [executions EXCEPT ![k] = None]
          /\ phase' = [phase EXCEPT ![x] = "after"] /\ UNCHANGED <<pendingWake, stopping>>
      BY <1>k, <1>2, <2>2, <2>4 DEF Settle
    <3>2. \A j \in Keys : j # k => doorbell'[j] = doorbell[j]
      BY <1>k, <1>0, <1>2 DEF Settle, TypeOK
    <3>3. doorbell'[k] = (doorbell[k] \/ (Reserved(k) /\ Rung(k)))
      <4>1. CASE Reserved(k)
        <5>1. doorbell' = [doorbell EXCEPT ![k] = @ \/ pendingWake[x]]
          BY <1>k, <1>2, <4>1 DEF Settle
        <5>2. doorbell'[k] = (doorbell[k] \/ pendingWake[x])
          BY <1>0, <5>1 DEF TypeOK
        <5> QED BY <2>2, <4>1, <5>2
      <4>2. CASE ~Reserved(k)
        <5>1. doorbell' = doorbell
          BY <1>k, <1>2, <2>2, <2>4, <4>2 DEF Settle
        <5>2. doorbell[k] \in BOOLEAN
          BY <1>0 DEF TypeOK
        <5> QED BY <4>2, <5>1, <5>2
      <4> QED BY <4>1, <4>2
    <3>4. \A j \in Keys : j # k => Still(j)
      BY <1>0, <2>1, <3>1, <3>2 DEF Still, TypeOK
    <3>5. \A j \in Keys : j # k => Same(j)
      BY <3>4, StillSame
    <3>6. StageOf(k)' = "idle" /\ Rung(k)' = FALSE
      BY <1>0, <3>1 DEF StageOf, Rung, TypeOK
    <3>7. Bell!Settle(k)
      BY <1>0, <2>1, <2>2, <2>4, <3>3, <3>5, <3>6, Steps
    <3> QED BY <1>0, <3>7 DEF Bell!Next
  <2> QED BY <2>3, <2>4
<1>3. CASE End(x)
  <2>1. /\ phase[x] = "after" /\ UNCHANGED <<executions, users, doorbell, closed>>
        /\ \A y \in Execs : y # x => /\ phase'[y] = phase[y] /\ stopping'[y] = stopping[y]
                                     /\ pendingWake'[y] = pendingWake[y]
    BY <1>0, <1>3 DEF End, Step, TypeOK, transitionVars
  <2>2. \A j \in Keys : executions[j] # x
    BY <2>1, NoneAssumption DEF IInv, Registered, Live, Owned
  <2>3. \A j \in Keys : Same(j)
    <3>1. \A j \in Keys : Still(j)
      BY <1>0, <2>1, <2>2 DEF Still, TypeOK
    <3> QED BY <3>1, StillSame
  <2> QED BY <1>0, <2>1, <2>3, Hidden
<1> QED BY <1>1, <1>2, <1>3 DEF Fiber

\* A new execution begins a drain of an idle key, and is none of another one.
LEMMA StartShown ==
  ASSUME IInv, NEW k \in Keys, NEW x \in Execs, Start(k, x, phase), executions[k] = None,
         \A j \in Keys : j # k => users'[j] = users[j] /\ doorbell'[j] = doorbell[j]
  PROVE  /\ StageOf(k) = "idle" /\ StageOf(k)' = "begin" /\ Rung(k)' = Rung(k)
         /\ \A j \in Keys : j # k => Same(j)
<1>1. x # None /\ \A j \in Keys : executions[j] # x
  BY NoneAssumption DEF Start, Fresh, IInv, Registered, Live, Owned
<1>2. /\ executions' = [executions EXCEPT ![k] = x]
      /\ \A z \in Execs : z # x => /\ phase'[z] = phase[z] /\ stopping'[z] = stopping[z]
                                   /\ pendingWake'[z] = pendingWake[z]
      /\ phase'[x] = "begin" /\ ~pendingWake'[x] /\ ~stopping'[x]
  BY DEF Start, IInv, TypeOK
<1>3. StageOf(k) = "idle" /\ StageOf(k)' = "begin" /\ Rung(k)' = Rung(k)
  BY <1>1, <1>2 DEF StageOf, Rung, IInv, TypeOK
<1>4. \A j \in Keys : j # k => Still(j)
  BY <1>1, <1>2 DEF Still, IInv, TypeOK
<1> QED BY <1>3, <1>4, StillSame

\* What a ring shows, and that it concerns one key.
LEMMA RingShown ==
  ASSUME IInv, NEW k \in Keys, Ring(k), closed' = closed,
         \A j \in Keys : j # k => users'[j] = users[j] /\ doorbell'[j] = doorbell[j]
  PROVE  Rings(k) /\ \A j \in Keys : j # k => Same(j)
<1> USE DEF Rings
<1>0. executions[k] # None => /\ executions[k] \in Execs /\ phase[executions[k]] \in Live
                              /\ \A j \in Keys : j # k => executions[j] # executions[k]
  BY DEF IInv, TypeOK, Registered
<1>1. CASE /\ executions[k] # None
           /\ pendingWake' = [pendingWake EXCEPT ![executions[k]] = TRUE]
           /\ UNCHANGED <<executions, phase, key, stopping>>
  <2>1. /\ pendingWake'[executions[k]] = TRUE
        /\ \A x \in Execs : x # executions[k] => pendingWake'[x] = pendingWake[x]
    BY <1>0, <1>1 DEF IInv, TypeOK
  <2>2. StageOf(k) # "idle" /\ StageOf(k)' = StageOf(k) /\ Rung(k)' = TRUE
    BY <1>1, <2>1 DEF StageOf, Rung
  <2>3. \A j \in Keys : j # k => Still(j)
    <3>1. \A j \in Keys : j # k /\ executions[j] # None =>
            executions[j] \in Execs /\ executions[j] # executions[k]
      BY <1>0, <1>1 DEF IInv, TypeOK
    <3> QED BY <1>1, <2>1, <3>1 DEF Still
  <2> QED BY <2>2, <2>3, StillSame
<1>2. CASE executions[k] = None /\ ~closed /\ \E x \in Execs : Start(k, x, phase)
  BY <1>2, StartShown
<1>3. CASE executions[k] = None /\ closed /\ UNCHANGED fiberVars
  <2>1. StageOf(k) = "idle" /\ StageOf(k)' = "idle" /\ Rung(k)' = Rung(k)
    BY <1>3 DEF StageOf, Rung, fiberVars
  <2>2. \A j \in Keys : j # k => Still(j)
    BY <1>3 DEF Still, fiberVars
  <2> QED BY <1>3, <2>1, <2>2, StillSame
<1> QED BY <1>1, <1>2, <1>3 DEF Ring

\* Whoever stops a key, and whoever does nothing to what Doorbell shows.
LEMMA StopShown ==
  ASSUME IInv, IInv', NEW k \in Keys, Interruptible(k), Stop(k), closed' = closed
  PROVE  Bell!Stop(k)
<1> DEFINE x == executions[k]
<1>1. /\ x \in Execs /\ x # None /\ phase[x] \in Owned /\ ~stopping[x]
      /\ \A j \in Keys : j # k => executions[j] # x
  BY DEF Interruptible, IInv, TypeOK, Registered
<1>2. /\ stopping'[x] = TRUE /\ pendingWake'[x] = FALSE
      /\ \A y \in Execs : y # x => stopping'[y] = stopping[y] /\ pendingWake'[y] = pendingWake[y]
      /\ UNCHANGED <<executions, phase, users>>
      /\ \A j \in Keys : j # k => doorbell'[j] = doorbell[j]
  BY <1>1 DEF Stop, IInv, TypeOK
<1>3. doorbell'[k] = (doorbell[k] \/ (Reserved(k) /\ Rung(k)))
  <2>1. doorbell' = [doorbell EXCEPT ![k] = @ \/ (Reserved(k) /\ pendingWake[x])]
    BY DEF Stop
  <2>2. doorbell'[k] = (doorbell[k] \/ (Reserved(k) /\ pendingWake[x]))
    BY <2>1 DEF IInv, TypeOK
  <2>3. Rung(k) = pendingWake[x]
    BY <1>1 DEF Rung, IInv, TypeOK
  <2> QED BY <2>2, <2>3
<1>4. \A j \in Keys : j # k => Still(j)
  BY <1>1, <1>2 DEF Still, IInv, TypeOK
<1>5. \A j \in Keys : j # k => Same(j)
  BY <1>4, StillSame
<1>6. /\ StageOf(k) \in {"begin", "draining"} /\ StageOf(k)' = "settling"
      /\ Rung(k)' = FALSE /\ Reserved(k)' = Reserved(k)
  BY <1>1, <1>2 DEF StageOf, Rung, Reserved, Owned
<1> QED BY <1>3, <1>5, <1>6, Steps DEF IInv

LEMMA NothingShown ==
  ASSUME IInv, IInv', UNCHANGED <<fiberVars, users, doorbell, closed>>
  PROVE  UNCHANGED Bell!vars
<1>1. \A j \in Keys : Still(j)
  BY DEF Still, fiberVars
<1> QED BY <1>1, StillSame, Hidden DEF IInv

LEMMA WakeBell ==
  ASSUME IInv, IInv', NEW k \in Keys, Wake(k)
  PROVE  Bell!Wake(k)
<1>1. CASE Reserved(k)
  <2>1. UNCHANGED <<fiberVars, users, closed>> /\ doorbell' = [doorbell EXCEPT ![k] = TRUE]
    BY <1>1 DEF Wake
  <2>2. doorbell'[k] = TRUE /\ \A j \in Keys : j # k => doorbell'[j] = doorbell[j]
    BY <2>1 DEF IInv, TypeOK
  <2>3. \A j \in Keys : j # k => Same(j)
    <3>1. \A j \in Keys : j # k => Still(j)
      BY <2>1, <2>2 DEF Still, fiberVars
    <3> QED BY <3>1, StillSame
  <2>4. StageOf(k)' = StageOf(k) /\ Rung(k)' = Rung(k) /\ Reserved(k)' = Reserved(k)
    BY <2>1 DEF StageOf, Rung, Reserved, fiberVars
  <2> QED BY <1>1, <2>1, <2>2, <2>3, <2>4, Steps DEF IInv
<1>2. CASE ~Reserved(k)
  <2>1. Ring(k) /\ UNCHANGED <<users, doorbell, closed>>
    BY <1>2 DEF Wake, transitionVars
  <2>2. Rings(k) /\ \A j \in Keys : j # k => Same(j)
    BY <2>1, RingShown
  <2>3. Reserved(k)' = Reserved(k) /\ doorbell'[k] = doorbell[k]
    BY <2>1 DEF Reserved
  <2> QED BY <1>2, <2>1, <2>2, <2>3, Steps DEF IInv
<1> QED BY <1>1, <1>2

\* run, once it may begin an execution, does; before, it only waits.
LEMMA RetryBell ==
  ASSUME IInv, IInv', NEW c \in Clients, Retry(c)
  PROVE  Bell!Next \/ UNCHANGED Bell!vars
<1>k. PICK k \in Keys : k = of[c]
  BY DEF IInv, TypeOK
<1>1. UNCHANGED <<users, doorbell, closed>>
  BY DEF Retry, transitionVars
<1>2. CASE UNCHANGED fiberVars
  BY <1>1, <1>2, NothingShown
<1>3. CASE ~UNCHANGED fiberVars
  <2>1. /\ ~Reserved(k) /\ executions[k] = None /\ ~closed
        /\ \E y \in Execs : Start(k, y, phase)
    BY <1>k, <1>3 DEF Retry
  <2>2. /\ StageOf(k) = "idle" /\ StageOf(k)' = "begin" /\ Rung(k)' = Rung(k)
        /\ \A j \in Keys : j # k => Same(j)
    BY <1>1, <2>1, StartShown
  <2>3. Reserved(k)' = Reserved(k) /\ doorbell'[k] = doorbell[k]
    BY <1>1 DEF Reserved
  <2>4. Bell!Run(k)
    BY <1>1, <2>1, <2>2, <2>3, Steps DEF IInv
  <2> QED BY <2>4 DEF Bell!Next
<1> QED BY <1>2, <1>3

\* The first call to reserve a transition holds the key.
LEMMA ReserveBell ==
  ASSUME IInv, IInv', NEW c \in Clients, NEW k \in Keys, Reserve(c, k)
  PROVE  Bell!Next \/ UNCHANGED Bell!vars
<1>1. /\ UNCHANGED <<fiberVars, doorbell, closed>>
      /\ c \in users'[k] /\ \A j \in Keys : j # k => users'[j] = users[j]
  BY DEF Reserve, IInv, TypeOK
<1>2. \A j \in Keys : j # k => Same(j)
  <2>1. \A j \in Keys : j # k => Still(j)
    BY <1>1 DEF Still, fiberVars
  <2> QED BY <2>1, StillSame
<1>3. /\ Reserved(k)' /\ StageOf(k)' = StageOf(k) /\ Rung(k)' = Rung(k)
      /\ doorbell'[k] = doorbell[k]
  BY <1>1 DEF Reserved, StageOf, Rung, fiberVars
<1>4. CASE Reserved(k)
  <2>1. Same(k)
    BY <1>3, <1>4 DEF Same, Reserved
  <2> QED BY <1>1, <1>2, <2>1, Steps DEF IInv
<1>5. CASE ~Reserved(k)
  <2>1. Bell!Hold(k)
    BY <1>1, <1>2, <1>3, <1>5, Steps DEF IInv
  <2> QED BY <2>1 DEF Bell!Next
<1> QED BY <1>4, <1>5

\* The last call out releases it, and rings what was kept.
LEMMA ReleaseBell ==
  ASSUME IInv, IInv', NEW c \in Clients, Release(c)
  PROVE  Bell!Next \/ UNCHANGED Bell!vars
<1>k. PICK k \in Keys : k = of[c]
  BY DEF IInv, TypeOK
<1> DEFINE last == users[k] = {c}
<1>1. /\ c \in users[k] /\ UNCHANGED closed
      /\ users' = [users EXCEPT ![k] = @ \ {c}]
      /\ doorbell' = [doorbell EXCEPT ![k] = IF last THEN FALSE ELSE @]
      /\ IF last /\ doorbell[k] THEN Ring(k) ELSE UNCHANGED <<fiberVars, owed>>
  BY <1>k DEF Release, IInv, Counted
<1>2. /\ users'[k] = users[k] \ {c}
      /\ doorbell'[k] = IF last THEN FALSE ELSE doorbell[k]
      /\ \A j \in Keys : j # k => users'[j] = users[j] /\ doorbell'[j] = doorbell[j]
  BY <1>1 DEF IInv, TypeOK
<1>3. Reserved(k) /\ (last <=> ~Reserved(k)')
  BY <1>1, <1>2 DEF Reserved
<1>4. CASE last /\ doorbell[k]
  <2>1. Rings(k) /\ \A j \in Keys : j # k => Same(j)
    BY <1>1, <1>2, <1>4, RingShown
  <2>2. Bell!Release(k)
    BY <1>1, <1>2, <1>3, <1>4, <2>1, Steps DEF IInv
  <2> QED BY <2>2 DEF Bell!Next
<1>5. CASE ~(last /\ doorbell[k])
  <2>1. UNCHANGED fiberVars
    BY <1>1, <1>5
  <2>2. \A j \in Keys : j # k => Same(j)
    <3>1. \A j \in Keys : j # k => Still(j)
      BY <1>2, <2>1 DEF Still, fiberVars
    <3> QED BY <3>1, StillSame
  <2>3. StageOf(k)' = StageOf(k) /\ Rung(k)' = Rung(k)
    BY <2>1 DEF StageOf, Rung, fiberVars
  <2>4. CASE last
    <3>1. Bell!Release(k)
      BY <1>1, <1>2, <1>3, <1>5, <2>2, <2>3, <2>4, Steps DEF IInv
    <3> QED BY <3>1 DEF Bell!Next
  <2>5. CASE ~last
    <3>1. Same(k)
      BY <1>2, <1>3, <2>3, <2>5 DEF Same, Reserved
    <3> QED BY <1>1, <2>2, <3>1, Steps DEF IInv
  <2> QED BY <2>4, <2>5
<1> QED BY <1>4, <1>5

\* Every step of the coordinator is a step of Doorbell or is not seen there.
LEMMA NextBell == IInv /\ IInv' /\ [Next]_vars => Bell!Next \/ UNCHANGED Bell!vars
<1> SUFFICES ASSUME IInv, IInv', [Next]_vars PROVE Bell!Next \/ UNCHANGED Bell!vars
  OBVIOUS
<1>1. ASSUME NEW x \in Execs, Fiber(x) PROVE Bell!Next \/ UNCHANGED Bell!vars
  BY <1>1, FiberBell
<1>2. ASSUME NEW k \in Keys, Wake(k) PROVE Bell!Next
  BY <1>2, WakeBell DEF Bell!Next
<1>3. ASSUME NEW k \in Keys, CloseInterrupt(k) PROVE Bell!Next \/ UNCHANGED Bell!vars
  <2>1. CASE Interruptible(k)
    BY <1>3, <2>1, StopShown DEF CloseInterrupt, Bell!Next
  <2>2. CASE ~Interruptible(k)
    BY <1>3, <2>2, NothingShown DEF CloseInterrupt, transitionVars
  <2> QED BY <2>1, <2>2
<1>4. ASSUME NEW c \in Clients, NEW k \in Keys, Interrupt(c, k)
      PROVE  Bell!Next \/ UNCHANGED Bell!vars
  <2>1. CASE Interruptible(k)
    BY <1>4, <2>1, StopShown DEF Interrupt, Bell!Next
  <2>2. CASE ~Interruptible(k)
    BY <1>4, <2>2, NothingShown DEF Interrupt, transitionVars
  <2> QED BY <2>1, <2>2
<1>5. ASSUME NEW c \in Clients, StopKey(c) PROVE Bell!Next \/ UNCHANGED Bell!vars
  <2>k. PICK k \in Keys : k = of[c]
    BY DEF IInv, TypeOK
  <2>1. CASE Interruptible(k)
    BY <1>5, <2>k, <2>1, StopShown DEF StopKey, Bell!Next
  <2>2. CASE ~Interruptible(k)
    BY <1>5, <2>k, <2>2, NothingShown DEF StopKey, transitionVars
  <2> QED BY <2>1, <2>2
<1>6. ASSUME NEW c \in Clients, Retry(c) \/ Release(c) \/ \E k \in Keys : Reserve(c, k)
      PROVE  Bell!Next \/ UNCHANGED Bell!vars
  BY <1>6, RetryBell, ReleaseBell, ReserveBell
<1>7. ASSUME NEW c \in Clients,
             \/ \E k \in Keys : Run(c, k)
             \/ Acquire(c) \/ ObserveIdle(c) \/ CancelRun(c) \/ AfterInterrupt(c)
      PROVE  UNCHANGED Bell!vars
  BY <1>7, NothingShown DEF Run, Acquire, ObserveIdle, CancelRun, AfterInterrupt,
     transitionVars
<1>8. ASSUME NEW k \in Keys, CloseIdle(k) PROVE UNCHANGED Bell!vars
  BY <1>8, NothingShown DEF CloseIdle, transitionVars
<1>9. CASE Shutdown
  <2>1. closed' = TRUE /\ UNCHANGED <<fiberVars, users, doorbell>>
    BY <1>9 DEF Shutdown, transitionVars
  <2>2. \A j \in Keys : Still(j)
    BY <2>1 DEF Still, fiberVars
  <2>3. \A j \in Keys : Same(j)
    BY <2>2, StillSame
  <2>4. stages' = stages /\ bells' = bells /\ holds' = holds
    BY <2>3 DEF Same, stages, bells, holds
  <2>5. Bell!Close
    BY <2>1, <2>4 DEF Bell!Close, stages, bells, holds
  <2> QED BY <2>5 DEF Bell!Next
<1>10. CASE UNCHANGED vars
  BY <1>10, NothingShown DEF vars, transitionVars
<1> QED BY <1>1, <1>2, <1>3, <1>4, <1>5, <1>6, <1>7, <1>8, <1>9, <1>10 DEF Next, Progress

\* The coordinator keeps what Doorbell promises to its users, whatever is interrupted,
\* reserved, released, settled and shut down in between (run-coordinator.ts:1-40).
THEOREM Promise == Spec => ImplementsDoorbell
<1>1. Init => Bell!Init
  <2> SUFFICES ASSUME Init PROVE Bell!Init
    OBVIOUS
  <2>1. \A k \in Keys : StageOf(k) = "idle" /\ Rung(k) = FALSE /\ Reserved(k) = FALSE
    BY DEF Init, StageOf, Rung, Reserved
  <2> QED BY <2>1 DEF Init, Bell!Init
<1>2. IInv /\ IInv' /\ [Next]_vars => [Bell!Next]_(Bell!vars)
  BY NextBell
<1> QED BY <1>1, <1>2, Inductive, PTL DEF Spec, ImplementsDoorbell, Bell!Spec

=============================================================================
