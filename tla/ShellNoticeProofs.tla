------------------------- MODULE ShellNoticeProofs -------------------------
(* Proofs about ShellNotice: a Session is outstanding as long as a notice is *)
(* on its way, no promised notice is lost without a trace, and a row that    *)
(* owes one is taken only from a dead server's shell.  The invariant follows *)
(* a promise from the call that makes it, by the fiber and the row, to the   *)
(* list of the server that finds it after a crash.                           *)
EXTENDS ShellNotice, TLAPS

Starting == {"reading", "listing", "sweeping"}

\* Who runs a call is up or dead, and a call under way has a living owner, but for
\* the shell that was spawned and never recorded.
Owned ==
  \A x \in Shells :
    /\ owner[x] = None <=> pc[x] = "none"
    /\ owner[x] # None => Up(x) \/ Dead(x)
    /\ pc[x] \in InCall \ {"spawned"} => Up(x)

\* One managed server after the other, and only managed ones reconcile.
InTurn ==
  /\ \A m, n \in Managed : m < n /\ life[n] # "unborn" => life[m] = "dead"
  /\ \A s \in Servers : life[s] \in Starting => s \in Managed

\* What a starting server has on its list is nobody's, and not reported as lost yet.
Listed ==
  \A s \in Servers :
    /\ todo[s] # {} => life[s] \in {"listing", "sweeping"}
    /\ \A x \in todo[s] : row[x] # "lost" /\ (life[s] = "sweeping" => Dead(x))

\* The lease of a job that has moved to the background, until its notice is told of.
Held ==
  \A x \in Shells :
    /\ moved[x] => lease[x] \/ fiber[x] \in {"told", "ended"}
    /\ pc[x] \in {"owing", "owed"} => lease[x]
    /\ pc[x] = "running" /\ Up(x) => lease[x] \/ fiber[x] \in {"told", "ended"}

\* The fiber that a call forks with its answer, and what it has done.
Forked ==
  \A x \in Shells :
    /\ fiber[x] # "none" => pc[x] = "running" /\ Up(x)
    /\ pc[x] = "running" /\ Up(x) => fiber[x] # "none"
    /\ fiber[x] \in {"admitted", "told", "ended"} => notice[x] \/ deleted

\* There is a row once the shell is recorded, and it says so as long as a notice is owed.
Promised ==
  \A x \in Shells :
    /\ pc[x] \in {"none", "spawned"} => row[x] = "none"
    /\ pc[x] = "owed" \/ fiber[x] = "waiting" => row[x] = "owed" \/ unowed[x]
    /\ pc[x] = "running" /\ Dead(x) =>
         notice[x] \/ deleted \/ unowed[x] \/ row[x] \in {"owed", "lost"} \/ starts > diedAt[x]

\* A lost notice is that of a dead owner's ended command, and its mark is no earlier
\* than the owner's death.
Lost ==
  \A x \in Shells :
    /\ row[x] = "lost" => Dead(x) /\ shell[x] # "live" /\ diedAt[x] <= mark[x] /\ mark[x] <= starts
    /\ diedAt[x] <= starts

IInv == TypeOK /\ Owned /\ InTurn /\ Listed /\ Held /\ Forked /\ Promised /\ Lost /\ Tracked


\* The vocabulary of the model, expanded everywhere; the parts of the invariant
\* and the actions are cited where they are used.
USE BoundsAssumption, NoneAssumption
    DEF Managed, Servers, Starting, InCall, Set, Move, Up, Dead, ledger, session, process,
        servers, history, vars
-----------------------------------------------------------------------------
(* The tool call keeps the invariant.                                      *)

\* A shell is spawned: it has an owner from now on, and no row, job, lease or fiber yet.
LEMMA SpawnKeeps ==
  ASSUME IInv, NEW x \in Shells, NEW s \in Servers, Spawn(x, s)
  PROVE  IInv'
<1>1. TypeOK'
  BY DEF IInv, TypeOK, Spawn
<1>2. Owned'
  BY DEF IInv, TypeOK, Owned, Spawn
<1>3. Listed'
  BY DEF IInv, TypeOK, Owned, Listed, Spawn
<1>4. Held'
  BY DEF IInv, Held, Spawn
<1>5. Forked'
  BY DEF IInv, Forked, Spawn
<1>6. Promised'
  BY DEF IInv, Promised, Spawn
<1>7. Lost'
  BY DEF IInv, TypeOK, Owned, Lost, Spawn
<1>8. Tracked'
  BY DEF IInv, TypeOK, Tracked, Spawn
<1>9. InTurn'
  BY DEF IInv, InTurn, Spawn
<1> QED BY <1>1, <1>2, <1>3, <1>4, <1>5, <1>6, <1>7, <1>8, <1>9 DEF IInv

\* The row and the job of a shell are made: it was on no starting server's list, for it
\* had no row, and it is in the ledger before its call can go on.
LEMMA RecordKeeps ==
  ASSUME IInv, NEW x \in Shells, Record(x)
  PROVE  IInv'
<1>1. TypeOK'
  BY DEF IInv, TypeOK, Record
<1>2. Owned'
  BY DEF IInv, Owned, Record
<1>3. Listed'
  BY DEF IInv, Listed, Record
<1>4. Held'
  BY DEF IInv, Held, Record
<1>5. Forked'
  BY DEF IInv, Forked, Record
<1>6. Promised'
  BY DEF IInv, TypeOK, Forked, Promised, Record
<1>7. Lost'
  BY DEF IInv, Lost, Record
<1>8. Tracked'
  BY DEF IInv, TypeOK, Tracked, Record
<1>9. InTurn'
  BY DEF IInv, InTurn, Record
<1> QED BY <1>1, <1>2, <1>3, <1>4, <1>5, <1>6, <1>7, <1>8, <1>9 DEF IInv

\* A call that asks for the background takes the lease before it owes the notice.
LEMMA BackgroundNowKeeps ==
  ASSUME IInv, NEW x \in Shells, BackgroundNow(x)
  PROVE  IInv'
<1>1. TypeOK'
  BY DEF IInv, TypeOK, BackgroundNow
<1>2. Owned'
  BY DEF IInv, Owned, BackgroundNow
<1>3. Held'
  BY DEF IInv, TypeOK, Held, BackgroundNow
<1>4. Forked'
  BY DEF IInv, Forked, BackgroundNow
<1>5. Promised'
  BY DEF IInv, Promised, BackgroundNow
<1>6. Tracked'
  BY DEF IInv, Tracked, BackgroundNow
<1>7. InTurn' /\ Listed' /\ Lost'
  BY DEF IInv, InTurn, Listed, Lost, BackgroundNow
<1> QED BY <1>1, <1>2, <1>3, <1>4, <1>5, <1>6, <1>7 DEF IInv

\* A call waits for its job, or answers with what has ended; neither promises anything.
LEMMA BlockKeeps ==
  ASSUME IInv, NEW x \in Shells, Block(x)
  PROVE  IInv'
<1>1. TypeOK'
  BY DEF IInv, TypeOK, Block
<1>2. Owned'
  BY DEF IInv, Owned, Block
<1>3. Held'
  BY DEF IInv, Held, Block
<1>4. Forked'
  BY DEF IInv, Forked, Block
<1>5. Promised'
  BY DEF IInv, Promised, Block
<1>6. Tracked'
  BY DEF IInv, Tracked, Block
<1>7. InTurn' /\ Listed' /\ Lost'
  BY DEF IInv, InTurn, Listed, Lost, Block
<1> QED BY <1>1, <1>2, <1>3, <1>4, <1>5, <1>6, <1>7 DEF IInv

\* The deadline of a block takes the lease, of a job that has ended as well.
LEMMA DeadlineKeeps ==
  ASSUME IInv, NEW x \in Shells, Deadline(x)
  PROVE  IInv'
<1>1. TypeOK'
  BY DEF IInv, TypeOK, Deadline
<1>2. Held'
  BY DEF IInv, TypeOK, Held, Deadline
<1>3. Owned' /\ InTurn' /\ Listed' /\ Forked' /\ Promised' /\ Lost' /\ Tracked'
  BY DEF IInv, Owned, InTurn, Listed, Forked, Promised, Lost, Tracked, Deadline
<1> QED BY <1>1, <1>2, <1>3 DEF IInv

\* The jobs that a Session's client moves to the background get their leases with the
\* mark.
LEMMA BackgroundAllKeeps ==
  ASSUME IInv, NEW s \in Servers, BackgroundAll(s)
  PROVE  IInv'
<1>1. TypeOK'
  BY DEF IInv, TypeOK, BackgroundAll
<1>2. Held'
  BY DEF IInv, Held, BackgroundAll
<1>3. Owned' /\ InTurn' /\ Listed' /\ Forked' /\ Promised' /\ Lost' /\ Tracked'
  BY DEF IInv, Owned, InTurn, Listed, Forked, Promised, Lost, Tracked, BackgroundAll
<1> QED BY <1>1, <1>2, <1>3 DEF IInv

\* A wait is over: a job that has moved still has its lease, because the fiber that
\* releases it is forked later.
LEMMA UnblockKeeps ==
  ASSUME IInv, NEW x \in Shells, Unblock(x)
  PROVE  IInv'
<1>1. TypeOK'
  BY DEF IInv, TypeOK, Unblock
<1>2. Owned'
  BY DEF IInv, Owned, Unblock
<1>3. Held'
  BY DEF IInv, TypeOK, Held, Forked, Unblock
<1>4. Forked'
  BY DEF IInv, Forked, Unblock
<1>5. Promised'
  BY DEF IInv, Promised, Unblock
<1>6. Tracked'
  BY DEF IInv, Tracked, Unblock
<1>7. InTurn' /\ Listed' /\ Lost'
  BY DEF IInv, InTurn, Listed, Lost, Unblock
<1> QED BY <1>1, <1>2, <1>3, <1>4, <1>5, <1>6, <1>7 DEF IInv

\* An interrupted call promises nothing any more, and had no fiber.
LEMMA InterruptKeeps ==
  ASSUME IInv, NEW x \in Shells, Interrupt(x)
  PROVE  IInv'
<1>1. TypeOK'
  BY DEF IInv, TypeOK, Interrupt
<1>2. Owned'
  BY DEF IInv, TypeOK, Owned, Interrupt
<1>3. Held'
  BY DEF IInv, TypeOK, Held, Interrupt
<1>4. Forked'
  BY DEF IInv, TypeOK, Forked, Interrupt
<1>5. Promised'
  BY DEF IInv, TypeOK, Promised, Interrupt
<1>6. Tracked'
  BY DEF IInv, TypeOK, Tracked, Interrupt
<1>7. InTurn' /\ Listed' /\ Lost'
  BY DEF IInv, InTurn, Listed, Lost, Interrupt
<1> QED BY <1>1, <1>2, <1>3, <1>4, <1>5, <1>6, <1>7 DEF IInv

\* The end of a cancelled job: its call is interrupted, its shell removed.
LEMMA CancelKeeps ==
  ASSUME IInv, NEW x \in Shells, Cancel(x)
  PROVE  IInv'
<1>1. TypeOK'
  BY DEF IInv, TypeOK, Cancel
<1>2. Owned'
  BY DEF IInv, Owned, Cancel
<1>3. Held'
  BY DEF IInv, Held, Cancel
<1>4. Forked'
  BY DEF IInv, Forked, Cancel
<1>5. Promised'
  BY DEF IInv, Promised, Cancel
<1>6. Lost'
  BY DEF IInv, Lost, Cancel
<1>7. Tracked'
  BY DEF IInv, Tracked, Cancel
<1>8. InTurn' /\ Listed'
  BY DEF IInv, InTurn, Listed, Cancel
<1> QED BY <1>1, <1>2, <1>3, <1>4, <1>5, <1>6, <1>7, <1>8 DEF IInv

\* The row owes the notice, or was gone already, which unowed remembers.
LEMMA OweKeeps ==
  ASSUME IInv, NEW x \in Shells, Owe(x)
  PROVE  IInv'
<1>1. TypeOK'
  BY DEF IInv, TypeOK, Owe
<1>2. Owned'
  BY DEF IInv, Owned, Owe
<1>3. Listed'
  BY DEF IInv, Listed, Owe
<1>4. Held'
  BY DEF IInv, Held, Owe
<1>5. Forked'
  BY DEF IInv, Forked, Owe
<1>6. Promised'
  <2>1. row' = [row EXCEPT ![x] = IF row[x] = "kept" THEN "owed" ELSE row[x]]
    BY DEF Owe
  <2>2. row'[x] = "owed" \/ unowed'[x]
    BY <2>1 DEF IInv, TypeOK, Owe
  <2>3. \A y \in Shells \ {x} : row'[y] = row[y] /\ unowed'[y] = unowed[y] /\ pc'[y] = pc[y]
    BY DEF IInv, TypeOK, Owe
  <2>4. pc'[x] = "owed"
    BY DEF IInv, TypeOK, Owe
  <2>5. UNCHANGED <<fiber, life, owner, notice, deleted, starts, diedAt>>
    BY DEF Owe
  <2> QED BY <2>2, <2>3, <2>4, <2>5 DEF Promised, IInv
<1>7. Lost'
  BY DEF IInv, Lost, Owe
<1>8. Tracked'
  BY DEF IInv, Tracked, Owe
<1>9. InTurn'
  BY DEF IInv, InTurn, Owe
<1> QED BY <1>1, <1>2, <1>3, <1>4, <1>5, <1>6, <1>7, <1>8, <1>9 DEF IInv

\* The call answers: what Owe and the move did is what the fiber now relies on.
LEMMA AnswerKeeps ==
  ASSUME IInv, NEW x \in Shells, Answer(x)
  PROVE  IInv'
<1>1. TypeOK'
  BY DEF IInv, TypeOK, Answer
<1>2. Owned'
  BY DEF IInv, Owned, Answer
<1>3. Held'
  BY DEF IInv, Held, Answer
<1>4. Forked'
  BY DEF IInv, TypeOK, Forked, Answer
<1>5. Promised'
  BY DEF IInv, Promised, Answer
<1>6. Tracked'
  BY DEF IInv, Tracked, Answer
<1>7. InTurn' /\ Listed' /\ Lost'
  BY DEF IInv, InTurn, Listed, Lost, Answer
<1> QED BY <1>1, <1>2, <1>3, <1>4, <1>5, <1>6, <1>7 DEF IInv

-----------------------------------------------------------------------------
(* The shell and its job keep it.                                           *)

\* A command ends: no row depends on that.
LEMMA ExitKeeps ==
  ASSUME IInv, NEW x \in Shells, Exit(x)
  PROVE  IInv'
<1>1. TypeOK'
  BY DEF IInv, TypeOK, Exit
<1>2. Lost'
  BY DEF IInv, Lost, Exit
<1>3. Tracked'
  BY DEF IInv, Tracked, Exit
<1>4. Owned' /\ InTurn' /\ Listed' /\ Held' /\ Forked' /\ Promised'
  BY DEF IInv, Owned, InTurn, Listed, Held, Forked, Promised, Exit
<1> QED BY <1>1, <1>2, <1>3, <1>4 DEF IInv

\* A command is killed before its row is released.
LEMMA RemoveKeeps ==
  ASSUME IInv, NEW x \in Shells, Remove(x)
  PROVE  IInv'
<1>1. TypeOK'
  BY DEF IInv, TypeOK, Remove
<1>2. Lost'
  BY DEF IInv, Lost, Remove
<1>3. Tracked'
  BY DEF IInv, Tracked, Remove
<1>4. Owned' /\ InTurn' /\ Listed' /\ Held' /\ Forked' /\ Promised'
  BY DEF IInv, Owned, InTurn, Listed, Held, Forked, Promised, Remove
<1> QED BY <1>1, <1>2, <1>3, <1>4 DEF IInv

\* The row of a removed shell goes unless it owes a notice.
LEMMA ReleaseKeeps ==
  ASSUME IInv, NEW x \in Shells, Release(x)
  PROVE  IInv'
<1>1. TypeOK'
  BY DEF IInv, TypeOK, Release
<1>2. Listed'
  BY DEF IInv, TypeOK, Listed, Release
<1>3. Promised'
  BY DEF IInv, Promised, Release
<1>4. Lost'
  BY DEF IInv, Lost, Release
<1>5. Tracked'
  BY DEF IInv, Tracked, Release
<1>6. Owned' /\ InTurn' /\ Held' /\ Forked'
  BY DEF IInv, Owned, InTurn, Held, Forked, Release
<1> QED BY <1>1, <1>2, <1>3, <1>4, <1>5, <1>6 DEF IInv

\* A job settles: the invariant is not about jobs, but for their leases.
LEMMA SettleKeeps ==
  ASSUME IInv, NEW x \in Shells, Settle(x)
  PROVE  IInv'
<1>1. TypeOK'
  BY DEF IInv, TypeOK, Settle
<1>2. Owned' /\ InTurn' /\ Listed' /\ Held' /\ Forked' /\ Promised' /\ Lost' /\ Tracked'
  BY DEF IInv, Owned, InTurn, Listed, Held, Forked, Promised, Lost, Tracked, Settle
<1> QED BY <1>1, <1>2 DEF IInv

\* A settled job's waiters are told: the invariant is not about jobs, but for their
\* leases.
LEMMA CompleteKeeps ==
  ASSUME IInv, NEW x \in Shells, Complete(x)
  PROVE  IInv'
<1>1. TypeOK'
  BY DEF IInv, TypeOK, Complete
<1>2. Owned' /\ InTurn' /\ Listed' /\ Held' /\ Forked' /\ Promised' /\ Lost' /\ Tracked'
  BY DEF IInv, Owned, InTurn, Listed, Held, Forked, Promised, Lost, Tracked, Complete
<1> QED BY <1>1, <1>2 DEF IInv

-----------------------------------------------------------------------------
(* The fiber that delivers the notice keeps it.                             *)

\* The notice is admitted, or the Session is gone: from here on the lease is not needed.
LEMMA AdmitKeeps ==
  ASSUME IInv, NEW x \in Shells, Admit(x)
  PROVE  IInv'
<1>1. TypeOK'
  BY DEF IInv, TypeOK, Admit
<1>2. Held'
  BY DEF IInv, Held, Admit
<1>3. Forked'
  BY DEF IInv, TypeOK, Held, Forked, Admit
<1>4. Promised'
  BY DEF IInv, Promised, Admit
<1>5. Owned' /\ InTurn' /\ Listed' /\ Lost' /\ Tracked'
  BY DEF IInv, Owned, InTurn, Listed, Lost, Tracked, Admit
<1> QED BY <1>1, <1>2, <1>3, <1>4, <1>5 DEF IInv

\* The lease is released, after the notice was admitted.
LEMMA TellKeeps ==
  ASSUME IInv, NEW x \in Shells, Tell(x)
  PROVE  IInv'
<1>1. TypeOK'
  BY DEF IInv, TypeOK, Tell
<1>2. Held'
  BY DEF IInv, TypeOK, Held, Forked, Tell
<1>3. Forked'
  BY DEF IInv, Forked, Tell
<1>4. Promised'
  BY DEF IInv, Promised, Tell
<1>5. Owned' /\ InTurn' /\ Listed' /\ Lost' /\ Tracked'
  BY DEF IInv, Owned, InTurn, Listed, Lost, Tracked, Tell
<1> QED BY <1>1, <1>2, <1>3, <1>4, <1>5 DEF IInv

\* The row is cleared, after the notice was admitted; no starting server has a list of a
\* living server's rows but as it has read them.
LEMMA ClearKeeps ==
  ASSUME IInv, NEW x \in Shells, Clear(x)
  PROVE  IInv'
<1>1. TypeOK'
  BY DEF IInv, TypeOK, Clear
<1>2. Listed'
  BY DEF IInv, TypeOK, Listed, Clear
<1>3. Held'
  BY DEF IInv, Held, Clear
<1>4. Forked'
  BY DEF IInv, Forked, Clear
<1>5. Promised'
  BY DEF IInv, TypeOK, Forked, Promised, Clear
<1>6. Lost'
  BY DEF IInv, Lost, Clear
<1>7. Tracked'
  BY DEF IInv, Tracked, Clear
<1>8. Owned' /\ InTurn'
  BY DEF IInv, Owned, InTurn, Clear
<1> QED BY <1>1, <1>2, <1>3, <1>4, <1>5, <1>6, <1>7, <1>8 DEF IInv

-----------------------------------------------------------------------------
(* The Session and the servers keep it.                                     *)

\* An execution starts: it acknowledges what was lost before, and is later than every
\* death so far.
LEMMA StartExecutionKeeps ==
  ASSUME IInv, StartExecution
  PROVE  IInv'
<1>1. TypeOK'
  BY DEF IInv, TypeOK, StartExecution
<1>2. Promised'
  BY DEF IInv, TypeOK, Promised, StartExecution
<1>3. Lost'
  BY DEF IInv, TypeOK, Lost, StartExecution
<1>4. Owned' /\ InTurn' /\ Listed' /\ Held' /\ Forked' /\ Tracked'
  BY DEF IInv, Owned, InTurn, Listed, Held, Forked, Tracked, StartExecution
<1> QED BY <1>1, <1>2, <1>3, <1>4 DEF IInv

\* A deleted Session is owed nothing.
LEMMA DeleteKeeps ==
  ASSUME IInv, Delete
  PROVE  IInv'
<1>1. TypeOK'
  BY DEF IInv, TypeOK, Delete
<1>2. Forked'
  BY DEF IInv, Forked, Delete
<1>3. Promised'
  BY DEF IInv, Promised, Delete
<1>4. Owned' /\ InTurn' /\ Listed' /\ Held' /\ Lost' /\ Tracked'
  BY DEF IInv, Owned, InTurn, Listed, Held, Lost, Tracked, Delete
<1> QED BY <1>1, <1>2, <1>3, <1>4 DEF IInv

\* A server dies: a promise it had made is in the ledger, or its notice admitted; it has
\* no list any more.
LEMMA CrashKeeps ==
  ASSUME IInv, NEW s \in Servers, Crash(s)
  PROVE  IInv'
<1>1. TypeOK'
  BY DEF IInv, TypeOK, Crash
<1>2. Owned'
  BY DEF IInv, Owned, Crash
<1>3. InTurn'
  BY DEF IInv, InTurn, Crash
<1>4. Listed'
  BY DEF IInv, TypeOK, Listed, Crash
<1>5. Held'
  BY DEF IInv, TypeOK, Held, Crash
<1>6. Forked'
  BY DEF IInv, TypeOK, Forked, Crash
<1>7. Promised'
  BY DEF IInv, TypeOK, Owned, Forked, Promised, Crash
<1>8. Lost'
  BY DEF IInv, TypeOK, Lost, Crash
<1>9. Tracked'
  BY DEF IInv, Tracked, Crash
<1> QED BY <1>1, <1>2, <1>3, <1>4, <1>5, <1>6, <1>7, <1>8, <1>9 DEF IInv

\* A server begins: nobody's owner, for it was unborn; a managed one follows the death of
\* those before.
LEMMA BeginKeeps ==
  ASSUME IInv, NEW s \in Servers, Begin(s)
  PROVE  IInv'
<1>1. TypeOK'
  BY DEF IInv, TypeOK, Begin
<1>2. Owned'
  BY DEF IInv, Owned, Begin
<1>3. InTurn'
  BY DEF IInv, InTurn, Begin
<1>4. Listed'
  BY DEF IInv, Listed, Begin
<1>5. Held'
  BY DEF IInv, TypeOK, Owned, Held, Begin
<1>6. Forked'
  BY DEF IInv, TypeOK, Owned, Forked, Begin
<1>7. Promised'
  BY DEF IInv, Promised, Begin
<1>8. Lost'
  BY DEF IInv, Lost, Begin
<1>9. Tracked'
  BY DEF IInv, Tracked, Begin
<1> QED BY <1>1, <1>2, <1>3, <1>4, <1>5, <1>6, <1>7, <1>8, <1>9 DEF IInv

\* A managed server reads the rows that owe or are kept.
LEMMA ReadKeeps ==
  ASSUME IInv, NEW s \in Servers, Read(s)
  PROVE  IInv'
<1>1. TypeOK'
  BY DEF IInv, TypeOK, Read
<1>2. Owned'
  BY DEF IInv, Owned, Read
<1>3. InTurn'
  BY DEF IInv, InTurn, Read
<1>4. Listed'
  BY DEF IInv, TypeOK, Listed, Read
<1>5. Held'
  BY DEF IInv, Held, Read
<1>6. Forked'
  BY DEF IInv, Forked, Read
<1>7. Promised'
  BY DEF IInv, Promised, Read
<1>8. Lost'
  BY DEF IInv, Lost, Read
<1>9. Tracked'
  BY DEF IInv, Tracked, Read
<1> QED BY <1>1, <1>2, <1>3, <1>4, <1>5, <1>6, <1>7, <1>8, <1>9 DEF IInv

\* It keeps the rows of dead owners, or nothing.
LEMMA ListKeeps ==
  ASSUME IInv, NEW s \in Servers, List(s)
  PROVE  IInv'
<1>1. TypeOK'
  <2>1. todo' \in [Servers -> SUBSET Shells]
    <3> DEFINE named == {x \in todo[s] : Dead(x)}
    <3>1. todo \in [Servers -> SUBSET Shells]
      BY DEF IInv, TypeOK
    <3>2. named \in SUBSET Shells
      BY <3>1
    <3>3. todo' = [todo EXCEPT ![s] = named] \/ todo' = [todo EXCEPT ![s] = {}]
      BY DEF List
    <3> HIDE DEF named
    <3> QED BY <3>1, <3>2, <3>3
  <2>2. life' \in [Servers -> {"unborn", "reading", "listing", "sweeping", "up", "dead"}]
    BY DEF IInv, TypeOK, List
  <2> QED BY <2>1, <2>2 DEF IInv, TypeOK, List
<1>2. Owned'
  BY DEF IInv, Owned, List
<1>3. InTurn'
  BY DEF IInv, InTurn, List
<1>4. Listed'
  BY DEF IInv, TypeOK, Listed, List
<1>5. Held'
  BY DEF IInv, Held, List
<1>6. Forked'
  BY DEF IInv, Forked, List
<1>7. Promised'
  BY DEF IInv, Promised, List
<1>8. Lost'
  BY DEF IInv, Lost, List
<1>9. Tracked'
  BY DEF IInv, Tracked, List
<1> QED BY <1>1, <1>2, <1>3, <1>4, <1>5, <1>6, <1>7, <1>8, <1>9 DEF IInv

\* It terminates a surviving command.
LEMMA TerminateKeeps ==
  ASSUME IInv, NEW s \in Servers, NEW x \in Shells, Terminate(s, x)
  PROVE  IInv'
<1>1. TypeOK'
  BY DEF IInv, TypeOK, Terminate
<1>2. Lost'
  BY DEF IInv, Lost, Terminate
<1>3. Tracked'
  BY DEF IInv, Tracked, Terminate
<1>4. Owned' /\ InTurn' /\ Listed' /\ Held' /\ Forked' /\ Promised'
  BY DEF IInv, Owned, InTurn, Listed, Held, Forked, Promised, Terminate
<1> QED BY <1>1, <1>2, <1>3, <1>4 DEF IInv

\* It discards a row or marks it as lost, with the executions so far: those of a dead
\* server's shell, and no other server is reconciling.
LEMMA MarkKeeps ==
  ASSUME IInv, NEW s \in Servers, NEW x \in Shells, Mark(s, x)
  PROVE  IInv'
<1>1. TypeOK'
  BY DEF IInv, TypeOK, Mark
<1>2. Listed'
  BY DEF IInv, TypeOK, InTurn, Listed, Mark
<1>3. Promised'
  BY DEF IInv, TypeOK, Owned, Listed, Forked, Promised, Mark
<1>4. Lost'
  BY DEF IInv, TypeOK, Listed, Lost, Mark
<1>5. Tracked'
  BY DEF IInv, TypeOK, Tracked, Mark
<1>6. Owned' /\ InTurn' /\ Held' /\ Forked'
  BY DEF IInv, Owned, InTurn, Held, Forked, Mark
<1> QED BY <1>1, <1>2, <1>3, <1>4, <1>5, <1>6 DEF IInv

\* It discards what has been acknowledged by an execution since, and is up.
LEMMA DiscardKeeps ==
  ASSUME IInv, NEW s \in Servers, Discard(s)
  PROVE  IInv'
<1>1. TypeOK'
  BY DEF IInv, TypeOK, Discard, Reported
<1>2. Owned'
  BY DEF IInv, Owned, Discard, Reported
<1>3. InTurn'
  BY DEF IInv, InTurn, Discard, Reported
<1>4. Listed'
  BY DEF IInv, TypeOK, Listed, Discard, Reported
<1>5. Held'
  BY DEF IInv, TypeOK, Owned, Held, Discard, Reported
<1>6. Forked'
  BY DEF IInv, TypeOK, Owned, Forked, Discard, Reported
<1>7. Promised'
  <2>1. ASSUME NEW x \in Shells, row[x] = "lost", row'[x] # "lost", ~deleted
        PROVE  starts > diedAt[x]
    <3>1. starts # mark[x]
      BY <2>1 DEF IInv, TypeOK, Discard, Reported
    <3>2. diedAt[x] <= mark[x] /\ mark[x] <= starts
      BY <2>1 DEF IInv, Lost
    <3>3. starts \in Nat /\ mark[x] \in Nat /\ diedAt[x] \in Nat
      BY DEF IInv, TypeOK
    <3> QED BY <3>1, <3>2, <3>3
  <2>2. \A x \in Shells : row[x] # "lost" => row'[x] = row[x]
    BY DEF IInv, TypeOK, Discard
  <2>3. \A x \in Shells : Dead(x)' => Dead(x)
    BY DEF IInv, TypeOK, Discard
  <2>4. \A x \in Shells : row'[x] \in {row[x], "none"}
    BY DEF IInv, TypeOK, Discard
  <2>5. UNCHANGED <<pc, fiber, notice, deleted, unowed, starts, diedAt>>
    BY DEF Discard
  <2> QED BY <2>1, <2>2, <2>3, <2>4, <2>5 DEF IInv, TypeOK, Promised
<1>8. Lost'
  BY DEF IInv, Lost, Discard, Reported
<1>9. Tracked'
  BY DEF IInv, TypeOK, Lost, Tracked, Discard, Reported
<1> QED BY <1>1, <1>2, <1>3, <1>4, <1>5, <1>6, <1>7, <1>8, <1>9 DEF IInv

-----------------------------------------------------------------------------
(* The invariant of the specification.                                     *)

\* Nothing has been spawned, and no server lives.
LEMMA InitIInv == Init => IInv
<1> SUFFICES ASSUME Init
             PROVE  IInv
  OBVIOUS
<1>1. TypeOK
  <2>1. todo \in [Servers -> SUBSET Shells]
    BY DEF Init
  <2>2. 0 \in 0..MaxStarts
    OBVIOUS
  <2>3. owner \in [Shells -> Servers \cup {None}]
    BY DEF Init
  <2> QED BY <2>1, <2>2, <2>3 DEF Init, TypeOK
<1>2. Owned /\ InTurn /\ Listed
  BY DEF Init, Owned, InTurn, Listed
<1>3. Held /\ Forked /\ Promised /\ Lost /\ Tracked
  BY DEF Init, Held, Forked, Promised, Lost, Tracked
<1> QED BY <1>1, <1>2, <1>3 DEF IInv

\* Every step keeps the invariant, whoever takes it.
LEMMA NextIInv == IInv /\ [Next]_vars => IInv'
<1> SUFFICES ASSUME IInv, [Next]_vars
             PROVE  IInv'
  OBVIOUS
<1>1. ASSUME NEW x \in Shells, CallStep(x)
      PROVE  IInv'
    BY <1>1, SpawnKeeps, RecordKeeps, BackgroundNowKeeps, BlockKeeps, DeadlineKeeps,
       UnblockKeeps, InterruptKeeps, CancelKeeps, OweKeeps, AnswerKeeps DEF CallStep
<1>2. ASSUME NEW x \in Shells, ShellStep(x)
      PROVE  IInv'
    BY <1>2, ExitKeeps, RemoveKeeps, ReleaseKeeps, SettleKeeps, CompleteKeeps DEF ShellStep
<1>3. ASSUME NEW x \in Shells, FiberStep(x)
      PROVE  IInv'
    BY <1>3, AdmitKeeps, TellKeeps, ClearKeeps DEF FiberStep
<1>4. ASSUME NEW s \in Servers, ServerStep(s)
      PROVE  IInv'
    BY <1>4, BeginKeeps, CrashKeeps, ReadKeeps, ListKeeps, DiscardKeeps, BackgroundAllKeeps,
       TerminateKeeps, MarkKeeps DEF ServerStep
<1>5. CASE UNCHANGED vars
  BY <1>5 DEF IInv, TypeOK, Owned, InTurn, Listed, Held, Forked, Promised, Lost, Tracked
<1> QED BY <1>1, <1>2, <1>3, <1>4, <1>5, StartExecutionKeeps, DeleteKeeps DEF Next

\* The inductive invariant holds in every reachable state, for any number of shells,
\* lives, other servers and executions.
THEOREM Inductive == Spec => []IInv
  BY InitIInv, NextIInv, PTL DEF Spec

\* Type correctness, and a command that runs is in the ledger: every variable keeps its
\* type, and the row of a shell outlives its command, so that the next managed start
\* finds it.
THEOREM Ledger == Spec => []LedgerInv
<1>1. IInv => LedgerInv
  BY DEF IInv, LedgerInv
<1> QED BY <1>1, Inductive, PTL

\* The lease of Job.list (job.ts, noticePending) covers every notice that has been
\* promised and not admitted yet: the Session stays outstanding.
THEOREM Covered == Spec => []LeaseCovers
<1>1. IInv => LeaseCovers
  BY DEF IInv, Held, Forked, LeaseCovers
<1> QED BY <1>1, Inductive, PTL

\* A promised notice is admitted, under way, owed in the ledger or reported as lost, until
\* the Session runs again; crashes at any point included.
THEOREM Accounted == Spec => []NoticeAccounted
<1>1. ASSUME IInv, NEW x \in Shells, pc[x] = "running", Up(x)
      PROVE  notice[x] \/ deleted \/ fiber[x] = "waiting"
  BY <1>1 DEF IInv, TypeOK, Forked
<1>2. ASSUME IInv, NEW x \in Shells, pc[x] = "running", Dead(x)
      PROVE  \/ notice[x] \/ deleted \/ unowed[x] \/ row[x] = "owed" \/ Reported(x)
             \/ starts > diedAt[x]
  <2>1. CASE row[x] = "lost" /\ starts # mark[x]
    <3>1. diedAt[x] <= mark[x] /\ mark[x] <= starts
      BY <1>2, <2>1 DEF IInv, Lost
    <3>2. starts \in Nat /\ mark[x] \in Nat /\ diedAt[x] \in Nat
      BY <1>2 DEF IInv, TypeOK
    <3> QED BY <2>1, <3>1, <3>2
  <2>2. CASE ~(row[x] = "lost" /\ starts # mark[x])
    BY <1>2, <2>2 DEF IInv, Promised, Reported
  <2> QED BY <2>1, <2>2
<1>3. ASSUME IInv, NEW x \in Shells, pc[x] = "running"
      PROVE  Up(x) \/ Dead(x)
  BY <1>3 DEF IInv, Owned
<1>4. IInv => NoticeAccounted
  BY <1>1, <1>2, <1>3 DEF NoticeAccounted
<1> QED BY <1>4, Inductive, PTL

\* ShellLedger.noticeAdmitted and reconcile are the only steps that take a row which owes
\* its notice: the first after the notice, the second from a dead server's shell.
THEOREM Kept == Spec => OwedUntilAdmitted
<1> DEFINE Owing(x) == (row[x] = "owed" /\ row'[x] # "owed") => notice[x] \/ deleted \/ Dead(x)
<1>1. ASSUME IInv, [Next]_vars, NEW x \in Shells
      PROVE  Owing(x)
  <2>1. ASSUME NEW y \in Shells, CallStep(y)
        PROVE  Owing(x)
    <3>1. CASE Record(y) \/ Owe(y)
      BY <1>1, <3>1 DEF IInv, TypeOK, Promised, Record, Owe
    <3>2. CASE ~(Record(y) \/ Owe(y))
      BY <2>1, <3>2 DEF CallStep, Spawn, BackgroundNow, Block, Deadline, Unblock, Interrupt,
         Cancel, Answer
    <3> QED BY <3>1, <3>2
  <2>2. ASSUME NEW y \in Shells, ShellStep(y)
        PROVE  Owing(x)
    BY <1>1, <2>2 DEF IInv, TypeOK, ShellStep, Exit, Remove, Release, Settle, Complete
  <2>3. ASSUME NEW y \in Shells, FiberStep(y)
        PROVE  Owing(x)
    BY <1>1, <2>3 DEF IInv, TypeOK, Forked, FiberStep, Admit, Tell, Clear
  <2>4. ASSUME NEW s \in Servers, ServerStep(s)
        PROVE  Owing(x)
    <3>1. ASSUME NEW y \in Shells, Mark(s, y)
          PROVE  Owing(x)
      BY <1>1, <3>1 DEF IInv, TypeOK, Listed, Mark
    <3>2. CASE Discard(s)
      BY <1>1, <3>2 DEF IInv, TypeOK, Discard
    <3>3. CASE ~Discard(s) /\ ~\E y \in Shells : Mark(s, y)
      BY <2>4, <3>3 DEF ServerStep, Begin, Crash, Read, List, BackgroundAll, Terminate
    <3> QED BY <3>1, <3>2, <3>3
  <2>5. CASE StartExecution \/ Delete \/ UNCHANGED vars
    BY <2>5 DEF StartExecution, Delete
  <2> QED BY <1>1, <2>1, <2>2, <2>3, <2>4, <2>5 DEF Next
<1>2. IInv /\ [Next]_vars => [\A x \in Shells : Owing(x)]_vars
  BY <1>1
<1> QED BY <1>2, Inductive, PTL DEF Spec, OwedUntilAdmitted
=============================================================================
