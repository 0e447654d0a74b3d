--------------------------- MODULE RunCoordinator ---------------------------
(***************************************************************************)
(* packages/core/src/session/run-coordinator.ts: for each key (a Session)  *)
(* at most one execution, a fiber that drains the Session's work until its *)
(* doorbell is quiet; and transitions, which hold a key idle while e.g. the*)
(* Session's model is switched.                                            *)
(*                                                                         *)
(* JavaScript runs one fiber at a time.  A step is what one fiber does up  *)
(* to a point where it suspends: an execution's fiber in a phase, a caller *)
(* at a point of the operation it called, or the shutdown of one key.      *)
(*                                                                         *)
(* Executions are objects with an identity, so that "at most one drain per *)
(* key" is a fact about the map `executions`, not about the model.  What a *)
(* drain does, its exit and its `force` flag are left to its caller: only  *)
(* whether it succeeded decides what the coordinator does.  `users` is the *)
(* set of the calls a transition's counter counts; the keyed mutex is the  *)
(* lock that KeyedMutex shows it to be.                                    *)
(***************************************************************************)
EXTENDS FiniteSets

CONSTANTS Keys,     \* Sessions
          Execs,    \* identities of execution objects
          Clients,  \* fibers that call run, interrupt or withTransition
          None      \* no execution, no client

ASSUME NoneAssumption == None \notin Execs /\ None \notin Clients

VARIABLES
  executions,  \* executions[k]: the registered execution of k, or None
  phase,       \* phase[x]: where the fiber of execution x is
  key,         \* key[x]: the key x was started for
  pendingWake, \* pendingWake[x]: the doorbell of x
  stopping,    \* stopping[x]: x has been interrupted
  users,       \* users[k]: the calls that hold k's transition entry; {}: no entry
  doorbell,    \* doorbell[k]: the doorbell of k's transition entry
  lock,        \* lock[k]: who has transitionLocks of k
  at,          \* at[c]: where in its operation a client is
  of,          \* of[c]: the key it named
  on,          \* on[c]: the execution it waits for, or found
  closed,      \* shutdown has been called
  closer,      \* closer[k]: where shutdown is with k
  owed         \* history: what has become of the last accepted wake of k

fiberVars == <<executions, phase, key, pendingWake, stopping>>
transitionVars == <<users, doorbell, lock>>
clientVars == <<at, of, on>>
vars == <<fiberVars, transitionVars, clientVars, closed, closer, owed>>

\* An execution's fiber: in the leading yield, in the started hook, in a drain,
\* in the yield before the next drain, in the settled hook, in afterSettled.
Phases == {"free", "begin", "starting", "draining", "looping", "settling", "after"}
Owned == {"begin", "starting", "draining", "looping"}  \* execution.owner is set
Live == Owned \cup {"settling"}                        \* not yet settled

Running == {"retry", "transition", "stopped", "joined"}
Interrupting == {"fiber", "returned"}
Inside == {"holding", "interrupting", "idling", "quiet"}
Transiting == Inside \cup {"queued"}
Points == {"none"} \cup Running \cup Interrupting \cup Transiting

TypeOK == /\ executions \in [Keys -> Execs \cup {None}]
          /\ phase \in [Execs -> Phases]
          /\ key \in [Execs -> Keys]
          /\ pendingWake \in [Execs -> BOOLEAN]
          /\ stopping \in [Execs -> BOOLEAN]
          /\ users \in [Keys -> SUBSET Clients]
          /\ doorbell \in [Keys -> BOOLEAN]
          /\ lock \in [Keys -> Clients \cup {None}]
          /\ at \in [Clients -> Points]
          /\ of \in [Clients -> Keys]
          /\ on \in [Clients -> Execs \cup {None}]
          /\ closed \in BOOLEAN
          /\ closer \in [Keys -> {"none", "interrupt", "idle", "done"}]
          /\ owed \in [Keys -> {"none", "rung", "taken"}]

Init == /\ executions = [k \in Keys |-> None]
        /\ phase = [x \in Execs |-> "free"]
        /\ key \in [Execs -> Keys]
        /\ pendingWake = [x \in Execs |-> FALSE]
        /\ stopping = [x \in Execs |-> FALSE]
        /\ users = [k \in Keys |-> {}]
        /\ doorbell = [k \in Keys |-> FALSE]
        /\ lock = [k \in Keys |-> None]
        /\ at = [c \in Clients |-> "none"]
        /\ of \in [Clients -> Keys]
        /\ on = [c \in Clients |-> None]
        /\ closed = FALSE
        /\ closer = [k \in Keys |-> "none"]
        /\ owed = [k \in Keys |-> "none"]

Reserved(k) == users[k] # {}

\* Nothing refers to x: what `start` allocates.
Fresh(x) == phase[x] = "free" /\ \A c \in Clients : on[c] # x

-----------------------------------------------------------------------------
(* The pieces of state changes that several operations share.              *)

\* start: register a new execution and fork its fiber up to its first yield.
\* ph is `phase` as the calling step leaves it.
Start(k, x, ph) == /\ Fresh(x)
                   /\ executions' = [executions EXCEPT ![k] = x]
                   /\ phase' = [ph EXCEPT ![x] = "begin"]
                   /\ key' = [key EXCEPT ![x] = k]
                   /\ pendingWake' = [pendingWake EXCEPT ![x] = FALSE]
                   /\ stopping' = [stopping EXCEPT ![x] = FALSE]

\* Mutant of Ring: every wake starts an execution.
RingStarting(k) ==
  \/ /\ ~closed
     /\ \E x \in Execs : Start(k, x, phase)
     /\ owed' = [owed EXCEPT ![k] = "taken"]
  \/ closed /\ UNCHANGED <<fiberVars, owed>>

\* wake, when no transition is reserved.
Ring(k) ==
  \/ /\ executions[k] # None
     /\ pendingWake' = [pendingWake EXCEPT ![executions[k]] = TRUE]
     /\ owed' = [owed EXCEPT ![k] = "rung"]
     /\ UNCHANGED <<executions, phase, key, stopping>>
  \/ /\ executions[k] = None /\ ~closed
     /\ \E x \in Execs : Start(k, x, phase)
     /\ owed' = [owed EXCEPT ![k] = "taken"]
  \/ /\ executions[k] = None /\ closed
     /\ UNCHANGED <<fiberVars, owed>>

\* The doorbell of the finished drain or execution has been answered by a new
\* one that has not yet begun.
Answered(k) == owed' = [owed EXCEPT ![k] = IF @ = "rung" THEN "taken" ELSE @]

\* The part of interrupt that runs before it waits for the fiber; the wake that
\* no transition protects is discarded with the execution.
Interruptible(k) == /\ executions[k] # None
                    /\ phase[executions[k]] \in Owned
                    /\ ~stopping[executions[k]]

\* Mutant of Stop: the doorbell is discarded although a transition is reserved.
StopDiscarding(k) == LET x == executions[k] IN
  /\ stopping' = [stopping EXCEPT ![x] = TRUE]
  /\ pendingWake' = [pendingWake EXCEPT ![x] = FALSE]
  /\ owed' = [owed EXCEPT ![k] = IF Reserved(k) THEN @ ELSE "none"]
  /\ UNCHANGED <<executions, phase, key, users, lock, doorbell>>

Stop(k) == LET x == executions[k] IN
  /\ stopping' = [stopping EXCEPT ![x] = TRUE]
  /\ doorbell' = [doorbell EXCEPT ![k] = @ \/ (Reserved(k) /\ pendingWake[x])]
  /\ pendingWake' = [pendingWake EXCEPT ![x] = FALSE]
  /\ owed' = [owed EXCEPT ![k] = IF Reserved(k) THEN @ ELSE "none"]
  /\ UNCHANGED <<executions, phase, key, users, lock>>

-----------------------------------------------------------------------------
(* The fiber of an execution.                                              *)

Step(x, from, to) == /\ phase[x] = from
                     /\ phase' = [phase EXCEPT ![x] = to]

\* The leading yield ends; an interruption meanwhile skips the started hook.
Begin(x) == /\ Step(x, "begin", IF stopping[x] THEN "settling" ELSE "starting")
            /\ UNCHANGED <<executions, key, pendingWake, stopping>>
            /\ UNCHANGED <<transitionVars, clientVars, closed, closer, owed>>

\* A drain begins, after the started hook or after the yield of the loop; a
\* fiber that has been interrupted goes to its exit handlers instead.
NextDrain(x) ==
  /\ \E p \in {"starting", "looping"} :
       Step(x, p, IF stopping[x] THEN "settling" ELSE "draining")
  /\ owed' = [owed EXCEPT ![key[x]] = IF stopping[x] THEN @ ELSE "none"]
  /\ UNCHANGED <<executions, key, pendingWake, stopping>>
  /\ UNCHANGED <<transitionVars, clientVars, closed, closer>>

\* A drain succeeds and the doorbell has been rung: drain again.
Loop(x) == /\ ~stopping[x] /\ pendingWake[x]
           /\ Step(x, "draining", "looping")
           /\ pendingWake' = [pendingWake EXCEPT ![x] = FALSE]
           /\ Answered(key[x])
           /\ UNCHANGED <<executions, key, stopping>>
           /\ UNCHANGED <<transitionVars, clientVars, closed, closer>>

\* A drain succeeds with nothing left to do, fails, or is interrupted (the last
\* two may happen at any time, so there is no guard); the first exit handler gives
\* up the ownership of the fiber and runs the settled hook.
Finish(x) == /\ Step(x, "draining", "settling")
             /\ UNCHANGED <<executions, key, pendingWake, stopping>>
             /\ UNCHANGED <<transitionVars, clientVars, closed, closer, owed>>

\* The clients that wait for x at p go on at p1, those at q at q1.
Resolve(x, p, p1, q, q1) ==
  /\ at' = [c \in Clients |-> IF on[c] = x /\ at[c] = p THEN p1
                              ELSE IF on[c] = x /\ at[c] = q THEN q1 ELSE at[c]]
  /\ on' = [c \in Clients |-> IF on[c] = x /\ at[c] \in {p, q} THEN None ELSE on[c]]

\* settle, the second exit handler, without a pause: a reserved transition takes
\* the doorbell, else a rung doorbell starts a successor; then `done` resolves.
Settle(x) ==
  LET k == key[x]
      ph == [phase EXCEPT ![x] = "after"]
      forget == /\ executions' = [executions EXCEPT ![k] = None]
                /\ phase' = ph
                /\ UNCHANGED <<key, pendingWake, stopping>>
  IN /\ phase[x] = "settling"
     /\ \/ /\ Reserved(k)
           /\ doorbell' = [doorbell EXCEPT ![k] = @ \/ pendingWake[x]]
           /\ forget
           /\ UNCHANGED owed
        \/ /\ ~Reserved(k) /\ pendingWake[x] /\ ~closed
           /\ \E y \in Execs : Start(k, y, ph)
           /\ Answered(k)
           /\ UNCHANGED doorbell
        \/ /\ ~Reserved(k) /\ (closed \/ ~pendingWake[x])
           /\ forget
           /\ UNCHANGED <<doorbell, owed>>
     /\ Resolve(x, "joined", "none", "stopped", "retry")
     /\ UNCHANGED <<users, lock, of, closed, closer>>

\* The fiber ends after the afterSettled hook and Fiber.interrupt returns.  The
\* object is garbage; clearing its flags merges states that differ in nothing else.
End(x) == /\ Step(x, "after", "free")
          /\ Resolve(x, "fiber", "returned", "interrupting", "idling")
          /\ pendingWake' = [pendingWake EXCEPT ![x] = FALSE]
          /\ stopping' = [stopping EXCEPT ![x] = FALSE]
          /\ UNCHANGED <<executions, key>>
          /\ UNCHANGED <<transitionVars, of, closed, closer, owed>>

-----------------------------------------------------------------------------
(* The operations.                                                         *)

Go(c, point, x) == /\ at' = [at EXCEPT ![c] = point]
                   /\ on' = [on EXCEPT ![c] = x]

\* Mutant of Wake: a reserved transition does not hold the doorbell back.
WakeThrough(k) == /\ Ring(k)
                  /\ UNCHANGED <<transitionVars, clientVars, closed, closer>>

Wake(k) == \/ /\ Reserved(k)
              /\ doorbell' = [doorbell EXCEPT ![k] = TRUE]
              /\ owed' = [owed EXCEPT ![k] = "rung"]
              /\ UNCHANGED <<fiberVars, users, lock, clientVars, closed, closer>>
           \/ /\ ~Reserved(k)
              /\ Ring(k)
              /\ UNCHANGED <<transitionVars, clientVars, closed, closer>>

\* A client names a key and begins an operation on it.
Call(c, k) == at[c] = "none" /\ of' = [of EXCEPT ![c] = k]

Run(c, k) == /\ Call(c, k)
             /\ Go(c, "retry", None)
             /\ UNCHANGED <<fiberVars, transitionVars, closed, closer, owed>>

\* The suspended body of run, evaluated first and after every wait.
Retry(c) ==
  LET k == of[c]
      x == executions[k]
  IN /\ at[c] = "retry"
     /\ \/ /\ Reserved(k)
           /\ Go(c, "transition", None)
           /\ UNCHANGED <<fiberVars, owed>>
        \/ /\ ~Reserved(k) /\ x # None
           /\ Go(c, IF stopping[x] THEN "stopped" ELSE "joined", x)
           /\ UNCHANGED <<fiberVars, owed>>
        \/ /\ ~Reserved(k) /\ x = None /\ closed
           /\ Go(c, "none", None)
           /\ UNCHANGED <<fiberVars, owed>>
        \/ /\ ~Reserved(k) /\ x = None /\ ~closed
           /\ \E y \in Execs : Start(k, y, phase) /\ Go(c, "joined", y)
           /\ UNCHANGED owed
     /\ UNCHANGED <<transitionVars, of, closed, closer>>

\* The caller of run is interrupted itself; the execution goes on.
CancelRun(c) == /\ at[c] \in Running
                /\ Go(c, "none", None)
                /\ UNCHANGED <<fiberVars, transitionVars, of, closed, closer, owed>>

Interrupt(c, k) ==
  /\ Call(c, k)
  /\ \/ /\ Interruptible(k)
        /\ Stop(k)
        /\ Go(c, "fiber", executions[k])
     \/ /\ ~Interruptible(k)
        /\ Go(c, "returned", executions[k])
        /\ UNCHANGED <<fiberVars, transitionVars, owed>>
  /\ UNCHANGED <<closed, closer>>

\* The caller of interrupt goes on (it may also stop waiting).
AfterInterrupt(c) == /\ at[c] \in Interrupting
                     /\ Go(c, "none", None)
                     /\ UNCHANGED <<fiberVars, transitionVars, of, closed, closer, owed>>

-----------------------------------------------------------------------------
(* withTransition, with the effect its users run in it: interrupt the key, *)
(* await its idleness, change the Session.  The effect may end or fail at  *)
(* any point, and a queued call may be cancelled.                          *)

Reserve(c, k) == /\ Call(c, k)
                 /\ users' = [users EXCEPT ![k] = @ \cup {c}]
                 /\ Go(c, "queued", None)
                 /\ UNCHANGED <<fiberVars, doorbell, lock, closed, closer, owed>>

Acquire(c) == /\ at[c] = "queued" /\ lock[of[c]] = None
              /\ lock' = [lock EXCEPT ![of[c]] = c]
              /\ Go(c, "holding", None)
              /\ UNCHANGED <<fiberVars, users, doorbell, of, closed, closer, owed>>

StopKey(c) == /\ at[c] = "holding"
              /\ \/ /\ Interruptible(of[c])
                    /\ Stop(of[c])
                    /\ Go(c, "interrupting", executions[of[c]])
                 \/ /\ ~Interruptible(of[c])
                    /\ Go(c, "idling", None)
                    /\ UNCHANGED <<fiberVars, transitionVars, owed>>
              /\ UNCHANGED <<of, closed, closer>>

\* awaitIdle returns: it re-checks the map each time `done` of an execution
\* resolves, so it can return whenever nothing is registered.
ObserveIdle(c) == /\ at[c] = "idling" /\ executions[of[c]] = None
                  /\ Go(c, "quiet", None)
                  /\ UNCHANGED <<fiberVars, transitionVars, of, closed, closer, owed>>

\* Mutant of Release: the entry's `done` is not resolved.
ReleaseSilently(c) ==
  LET k == of[c]
      last == users[k] = {c}
  IN /\ at[c] \in Transiting
     /\ lock' = [lock EXCEPT ![k] = IF @ = c THEN None ELSE @]
     /\ users' = [users EXCEPT ![k] = @ \ {c}]
     /\ doorbell' = [doorbell EXCEPT ![k] = IF last THEN FALSE ELSE @]
     /\ IF last /\ doorbell[k] THEN Ring(k) ELSE UNCHANGED <<fiberVars, owed>>
     /\ Go(c, "none", None)
     /\ UNCHANGED <<of, closed, closer>>

\* Mutant of Release: the doorbell is removed with the entry.
ReleaseForgetting(c) ==
  LET k == of[c]
      last == users[k] = {c}
  IN /\ at[c] \in Transiting
     /\ lock' = [lock EXCEPT ![k] = IF @ = c THEN None ELSE @]
     /\ users' = [users EXCEPT ![k] = @ \ {c}]
     /\ doorbell' = [doorbell EXCEPT ![k] = IF last THEN FALSE ELSE @]
     /\ at' = [d \in Clients |->
                 IF d = c THEN "none"
                 ELSE IF last /\ at[d] = "transition" /\ of[d] = k
                      THEN "retry" ELSE at[d]]
     /\ on' = [on EXCEPT ![c] = None]
     /\ UNCHANGED <<fiberVars, of, closed, closer, owed>>

\* The finalizer: the last call out removes the entry, resolves the callers of
\* run that wait for it, and forwards an observed doorbell.
Release(c) ==
  LET k == of[c]
      last == users[k] = {c}
      Waits(d) == last /\ at[d] = "transition" /\ of[d] = k
  IN /\ at[c] \in Transiting
     /\ lock' = [lock EXCEPT ![k] = IF @ = c THEN None ELSE @]
     /\ users' = [users EXCEPT ![k] = @ \ {c}]
     /\ doorbell' = [doorbell EXCEPT ![k] = IF last THEN FALSE ELSE @]
     /\ IF last /\ doorbell[k] THEN Ring(k) ELSE UNCHANGED <<fiberVars, owed>>
     /\ at' = [d \in Clients |-> IF d = c THEN "none"
                                 ELSE IF Waits(d) THEN "retry" ELSE at[d]]
     /\ on' = [on EXCEPT ![c] = None]
     /\ UNCHANGED <<of, closed, closer>>

-----------------------------------------------------------------------------
(* shutdown: close, then interrupt every active key and await its idleness.*)

Shutdown == /\ ~closed
            /\ closed' = TRUE
            /\ closer' = [k \in Keys |->
                            IF executions[k] = None THEN "none" ELSE "interrupt"]
            /\ UNCHANGED <<fiberVars, transitionVars, clientVars, owed>>

\* Mutant of CloseInterrupt: interrupt is trusted to wait, awaitIdle left out.
CloseTrusting(k) == /\ closer[k] = "interrupt"
                    /\ IF Interruptible(k)
                       THEN Stop(k)
                       ELSE UNCHANGED <<fiberVars, transitionVars, owed>>
                    /\ closer' = [closer EXCEPT ![k] = "done"]
                    /\ UNCHANGED <<clientVars, closed>>

\* Mutant of CloseInterrupt: shutdown only awaits the idleness of the key.
ClosePatiently(k) == /\ closer[k] = "interrupt"
                     /\ closer' = [closer EXCEPT ![k] = "idle"]
                     /\ UNCHANGED <<fiberVars, transitionVars, clientVars, closed, owed>>

CloseInterrupt(k) == /\ closer[k] = "interrupt"
                     /\ IF Interruptible(k)
                        THEN Stop(k)
                        ELSE UNCHANGED <<fiberVars, transitionVars, owed>>
                     /\ closer' = [closer EXCEPT ![k] = "idle"]
                     /\ UNCHANGED <<clientVars, closed>>

\* Fiber.interrupt and awaitIdle both wait; the later of the two is awaitIdle's
\* observation that nothing is registered.
CloseIdle(k) == /\ closer[k] = "idle" /\ executions[k] = None
                /\ closer' = [closer EXCEPT ![k] = "done"]
                /\ UNCHANGED <<fiberVars, transitionVars, clientVars, closed, owed>>

-----------------------------------------------------------------------------
Fiber(x) == \/ Begin(x) \/ NextDrain(x) \/ Loop(x) \/ Finish(x)
            \/ Settle(x) \/ End(x)

Progress(c) == Retry(c) \/ Acquire(c) \/ StopKey(c) \/ ObserveIdle(c) \/ Release(c)

Next == \/ \E x \in Execs : Fiber(x)
        \/ \E k \in Keys : Wake(k) \/ CloseInterrupt(k) \/ CloseIdle(k)
        \/ \E c \in Clients, k \in Keys : Run(c, k) \/ Interrupt(c, k) \/ Reserve(c, k)
        \/ \E c \in Clients : Progress(c) \/ CancelRun(c) \/ AfterInterrupt(c)
        \/ Shutdown

Spec == Init /\ [][Next]_vars

\* The scheduler runs every runnable fiber, drains and hooks end, and an effect
\* in a transition ends once nothing keeps it waiting.  No caller has to call,
\* to wake, to cancel, or to shut down.  (Fairness of Retry is strong because the
\* finite set Execs may, unlike the heap, have no free object for a moment.)
Fairness ==
  /\ \A x \in Execs : WF_vars(Fiber(x))
  /\ \A c \in Clients : /\ SF_vars(Retry(c))
                        /\ WF_vars(\/ Acquire(c) \/ ObserveIdle(c) \/ AfterInterrupt(c)
                                   \/ at[c] \in {"holding", "quiet"} /\ Release(c))
  /\ \A k \in Keys : WF_vars(CloseInterrupt(k) \/ CloseIdle(k))

FairSpec == Spec /\ Fairness

-----------------------------------------------------------------------------
(* Safety.                                                                 *)

\* :6 "Serializes execution for each key": no two executions of a key overlap,
\* from registration to the end of the settled hook, successors included.
OneExecution ==
  \A x, y \in Execs :
    phase[x] \in Live /\ phase[y] \in Live /\ key[x] = key[y] => x = y

\* A doorbell that has not been answered by a new drain is still set somewhere
\* that will be looked at: with the transition entry or the registered execution.
Carried(k) == \/ Reserved(k) /\ doorbell[k]
              \/ executions[k] # None /\ pendingWake[executions[k]]
              \/ closed

\* :119-125, :197-199: whatever settles, reserves, releases or is interrupted in
\* between, a rung doorbell is carried over until a drain answers it.
NoDoorbellLost == \A k \in Keys : owed[k] = "rung" => Carried(k)

\* :197 "a wake rung before the transition must survive the interruption": also
\* when a new execution, not yet draining, had answered it.  The code does not keep
\* this: TLC refutes it, and the proofs and runs use NoDoorbellLost.
WakeSurvives ==
  \A k \in Keys :
    owed[k] # "none" =>
      \/ Carried(k)
      \/ /\ executions[k] # None
         /\ phase[executions[k]] \in {"begin", "starting", "looping"}
         /\ ~stopping[executions[k]]

\* :14 "Stops the active execution, clears its doorbell": a stopped execution has
\* a successor only for a wake that came after it was stopped.
StopClearsDoorbell ==
  \A k \in Keys : LET x == executions[k] IN
    x # None /\ stopping[x] /\ pendingWake[x] => owed[k] = "rung"

\* :123-125: from the moment a transition has seen its key idle until it
\* releases, nothing executes for the key, whoever wakes or runs it.
TransitionQuiet ==
  \A c \in Clients : at[c] = "quiet" =>
    \A x \in Execs : key[x] = of[c] => phase[x] \notin Live

\* Transitions of a key serialize (:20).
TransitionsSerialize ==
  \A c, d \in Clients :
    at[c] \in Inside /\ at[d] \in Inside /\ of[c] = of[d] => c = d

\* Nobody waits for something that has already happened: a joined execution, a
\* stopped one, a fiber or a transition entry is still there to resolve (:34, :182).
NoOrphanWaiter ==
  \A c \in Clients :
    /\ at[c] \in {"joined", "stopped"} => phase[on[c]] \in Live
    /\ at[c] \in {"fiber", "interrupting"} => phase[on[c]] # "free"
    /\ at[c] = "transition" => Reserved(of[c])

\* After shutdown has returned nothing executes, ever (:219-226): keys that were
\* idle when it was called, late doorbells and callers of run included.
ShutdownQuiet ==
  closed /\ (\A k \in Keys : closer[k] \in {"none", "done"}) =>
    \A x \in Execs : phase[x] \notin Live

\* The two promises of quiet, to a transition and to the caller of shutdown, which
\* a run checks together.
QuietInv == TransitionQuiet /\ ShutdownQuiet

-----------------------------------------------------------------------------
(* The doorbell that users of the coordinator are promised.                *)

\* Where the drains of a key are: a stopped execution is about to settle.
StageOf(k) == LET x == executions[k] IN
  IF x = None THEN "idle"
  ELSE IF stopping[x] \/ phase[x] = "settling" THEN "settling"
  ELSE IF phase[x] = "draining" THEN "draining"
  ELSE "begin"

Rung(k) == executions[k] # None /\ pendingWake[executions[k]]

Bell == INSTANCE Doorbell
          WITH stage <- [k \in Keys |-> StageOf(k)],
               bell <- [k \in Keys |-> Rung(k)],
               held <- [k \in Keys |-> Reserved(k)],
               kept <- doorbell

\* The map of executions with its flags implements one doorbell per key, whatever
\* is interrupted, reserved, released, settled and shut down in between.
ImplementsDoorbell == Bell!Spec

-----------------------------------------------------------------------------
(* Liveness.                                                               *)

\* From now on nobody interrupts a key or reserves a transition.
Undisturbed == \A c \in Clients : at[c] \notin Interrupting \cup Transiting

\* A rung doorbell is answered, unless interrupts or transitions keep coming or
\* the coordinator is shut down.
WakeAnswered ==
  <>[]Undisturbed => \A k \in Keys : owed[k] = "rung" ~> owed[k] # "rung" \/ closed

\* A transition that awaits the idleness of its key gets it however often the key
\* is woken meanwhile: the reservation suppresses successors (:123-125).  The lock
\* admits one client of a key at a time.
AwaitsIdle(k) == \E c \in Clients : of[c] = k /\ at[c] \in {"interrupting", "idling"}

TransitionReachesIdle == \A k \in Keys : AwaitsIdle(k) ~> ~AwaitsIdle(k)

\* shutdown returns, however often the keys are woken meanwhile.
ShutdownReturns == closed ~> \A k \in Keys : closer[k] \in {"none", "done"}

\* Whoever awaits the idleness of a key gets it, which a run checks together.
IdlenessReached == TransitionReachesIdle /\ ShutdownReturns

=============================================================================
