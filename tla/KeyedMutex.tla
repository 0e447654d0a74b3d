----------------------------- MODULE KeyedMutex -----------------------------
(***************************************************************************)
(* The keyed mutex of packages/core/src/effect/keyed-mutex.ts: a map from  *)
(* keys to reference-counted semaphores, created by the first user of a    *)
(* key and removed by the last one.                                        *)
(*                                                                         *)
(* An entry of the map is an object, so entries have an identity here: two *)
(* fibers exclude each other only when they wait on the SAME entry, and    *)
(* that is what creating and removing entries could break.                 *)
(*                                                                         *)
(* JavaScript runs one fiber at a time; a step is what a fiber does        *)
(* between two points at which the Effect scheduler may switch fibers.     *)
(***************************************************************************)
EXTENDS Naturals, FiniteSets

CONSTANTS Keys,       \* what is locked
          Fibers,     \* the fibers that call withLock
          Entries,    \* the identities of map entries
          NoEntry,    \* the absence of an entry
          MaxStrands  \* bound: cancellations that land in the unguarded gap

ASSUME EntryAssumption == NoEntry \notin Entries
ASSUME FibersFinite == IsFiniteSet(Fibers)
ASSUME StrandsAssumption == MaxStrands \in Nat

VARIABLES locks,   \* locks[k]: the entry of k in the map, or NoEntry
          users,   \* users[e]: the reference count of an entry
          taken,   \* taken[e]: the semaphore's only permit is taken
          pc,      \* pc[f]: where in withLock the fiber is
          key,     \* key[f]: the key it asked for
          entry,   \* entry[f]: the entry its call closed over
          strands  \* strands[e]: references whose finalizer never runs

lockVars == <<locks, users, taken, pc, key, entry, strands>>

PCs == {"idle", "entering", "waiting", "holding", "leaving"}

LockTypeOK == /\ locks \in [Keys -> Entries \cup {NoEntry}]
              /\ users \in [Entries -> Nat]
              /\ taken \in [Entries -> BOOLEAN]
              /\ pc \in [Fibers -> PCs]
              /\ key \in [Fibers -> Keys]
              /\ entry \in [Fibers -> Entries \cup {NoEntry}]
              /\ strands \in [Entries -> Nat]

LockInit == /\ locks = [k \in Keys |-> NoEntry]
            /\ users = [e \in Entries |-> 0]
            /\ taken = [e \in Entries |-> FALSE]
            /\ pc = [f \in Fibers |-> "idle"]
            /\ key \in [Fibers -> Keys]
            /\ entry = [f \in Fibers |-> NoEntry]
            /\ strands = [e \in Entries |-> 0]

\* The calls that reference an entry.
Users(e) == {f \in Fibers : entry[f] = e}

\* An object nothing refers to: what `{ semaphore, users: 0 }` allocates.
Fresh(e) == /\ \A k \in Keys : locks[k] # e
            /\ Users(e) = {}

-----------------------------------------------------------------------------
\* The suspended body of withLock: find or create the entry and count in.
Reference(f, k, e) ==
  /\ pc[f] = "idle"
  /\ IF locks[k] # NoEntry THEN e = locks[k] ELSE Fresh(e)
  /\ locks' = [locks EXCEPT ![k] = e]
  /\ users' = [users EXCEPT ![e] = IF locks[k] = NoEntry THEN 1 ELSE @ + 1]
  /\ taken' = [taken EXCEPT ![e] = IF locks[k] = NoEntry THEN FALSE ELSE @]
  /\ strands' = [strands EXCEPT ![e] = IF locks[k] = NoEntry THEN 0 ELSE @]
  /\ pc' = [pc EXCEPT ![f] = "entering"]
  /\ key' = [key EXCEPT ![f] = k]
  /\ entry' = [entry EXCEPT ![f] = e]

\* `Effect.ensuring` takes hold: from here on the call counts out on any exit.
Guard(f) == /\ pc[f] = "entering"
            /\ pc' = [pc EXCEPT ![f] = "waiting"]
            /\ UNCHANGED <<locks, users, taken, key, entry, strands>>

\* withLock is interruptible and registers its finalizer one operation after it
\* counted in; a fiber cancelled in between never counts out.
Strand(f) == /\ pc[f] = "entering"
             /\ strands[entry[f]] < MaxStrands
             /\ strands' = [strands EXCEPT ![entry[f]] = @ + 1]
             /\ pc' = [pc EXCEPT ![f] = "idle"]
             /\ entry' = [entry EXCEPT ![f] = NoEntry]
             /\ UNCHANGED <<locks, users, taken, key>>

\* Mutant of Take: two permits instead of one.
TakeAnyway(f) == /\ pc[f] = "waiting"
                 /\ taken' = [taken EXCEPT ![entry[f]] = TRUE]
                 /\ pc' = [pc EXCEPT ![f] = "holding"]
                 /\ UNCHANGED <<locks, users, key, entry, strands>>

\* Semaphore.withPermit (the effect library): take the permit when it is free.
\* The library chooses among the waiters.
Take(f) == /\ pc[f] = "waiting"
           /\ ~taken[entry[f]]
           /\ taken' = [taken EXCEPT ![entry[f]] = TRUE]
           /\ pc' = [pc EXCEPT ![f] = "holding"]
           /\ UNCHANGED <<locks, users, key, entry, strands>>

\* Mutant of Release: the permit is not given back.
ReleaseKeepingPermit(f) == /\ pc[f] = "holding"
                           /\ pc' = [pc EXCEPT ![f] = "leaving"]
                           /\ UNCHANGED <<locks, users, taken, key, entry, strands>>

\* Semaphore.withPermit: the effect under the lock ends, in any way.
Release(f) == /\ pc[f] = "holding"
              /\ taken' = [taken EXCEPT ![entry[f]] = FALSE]
              /\ pc' = [pc EXCEPT ![f] = "leaving"]
              /\ UNCHANGED <<locks, users, key, entry, strands>>

\* Semaphore.withPermit: a waiter is interrupted before it got the permit.
Cancel(f) == /\ pc[f] = "waiting"
             /\ pc' = [pc EXCEPT ![f] = "leaving"]
             /\ UNCHANGED <<locks, users, taken, key, entry, strands>>

\* The finalizer: count out, and drop the entry with its last user.
Leave(f) == /\ pc[f] = "leaving"
            /\ users' = [users EXCEPT ![entry[f]] = @ - 1]
            /\ locks' = [locks EXCEPT ![key[f]] =
                           IF users[entry[f]] = 1 THEN NoEntry ELSE @]
            /\ pc' = [pc EXCEPT ![f] = "idle"]
            /\ entry' = [entry EXCEPT ![f] = NoEntry]
            /\ UNCHANGED <<taken, key, strands>>

LockNext == \E f \in Fibers :
              \/ \E k \in Keys, e \in Entries : Reference(f, k, e)
              \/ Guard(f) \/ Strand(f) \/ Take(f) \/ Release(f) \/ Cancel(f) \/ Leave(f)

LockSpec == LockInit /\ [][LockNext]_lockVars

\* A fiber that has begun a call finishes it: the scheduler runs every runnable
\* fiber, effects under the lock end, and the semaphore hands a free permit to
\* one of its waiters (the library, not this code, says to which).
LockFairness ==
  /\ \A f \in Fibers : WF_lockVars(Guard(f) \/ Release(f) \/ Leave(f))
  /\ \A k \in Keys : WF_lockVars(\E f \in Fibers : key[f] = k /\ Take(f))

LockFairSpec == LockSpec /\ LockFairness

-----------------------------------------------------------------------------
Holding(f, k) == pc[f] = "holding" /\ key[f] = k

\* keyed-mutex.ts:14, "same key -> queue": two effects under the lock of one key
\* never overlap, although every call may have found or made its own entry.
MutualExclusion ==
  \A k \in Keys, f, g \in Fibers : Holding(f, k) /\ Holding(g, k) => f = g

\* While somebody waits for a key somebody gets its lock: no permit disappears
\* with a removed entry or a cancelled waiter (:31-36).
WaitersProgress ==
  \A k \in Keys :
    (\E f \in Fibers : pc[f] = "waiting" /\ key[f] = k)
      ~> \/ \E f \in Fibers : Holding(f, k)
         \/ ~\E f \in Fibers : pc[f] = "waiting" /\ key[f] = k

\* The fibers under the lock of each key, and the lock users are promised.
Abstract == INSTANCE Mutex
              WITH inside <- [k \in Keys |-> {f \in Fibers : Holding(f, k)}]

\* The map of counted semaphores implements one lock per key.
ImplementsMutex == Abstract!Spec

=============================================================================
