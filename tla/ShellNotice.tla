----------------------------- MODULE ShellNotice -----------------------------
(* Shell commands that move to the background: the tool call (tool/shell.ts),*)
(* the job (job.ts), the shell (shell.ts) and its row in the ledger          *)
(* (shell/ledger.ts), over several lives of the service.  A call that has    *)
(* answered "running in the background" has promised its Session a notice.   *)
(* While its process lives, a forked fiber delivers the notice and the job's *)
(* lease keeps the Session outstanding; when the process dies the row tells  *)
(* the next managed start, which reports the notice as lost.                 *)
(*                                                                           *)
(* One Session.  Every call has a shell and a job of its own.  Interrupts of *)
(* a call before its job is started, a failing ps when a shell is recorded,  *)
(* child tasks and the text of notices are left out.  The ordered teardown   *)
(* of a server is Remove for each of its shells, and then Crash.             *)
EXTENDS Naturals

CONSTANTS
  Shells,     \* shell tool calls, each with its shell and job
  Lives,      \* bound: lives of the managed server, one after the other
  Default,    \* lives of other servers on the same database: they do not reconcile
  None,
  MaxStarts   \* bound: executions of the Session that start

Managed == 1..Lives
Servers == Managed \cup Default

ASSUME BoundsAssumption == Lives \in Nat /\ MaxStarts \in Nat
ASSUME NoneAssumption == None \notin Servers

VARIABLES
  life,     \* per server: "unborn", "reading" ... (starting), "up", "dead"
  todo,     \* per starting server: rows read, then rows of dead owners
  owner,    \* per shell: the server that runs it
  pc,       \* per shell: the tool call
  job,      \* per shell: "none", "running", "settled" (in the map), "done" (the deferred too)
  moved,    \* per shell: isBackgrounded of its job
  lease,    \* per shell: noticePending of its job
  shell,    \* per shell: its command and its entry in `sessions` of shell.ts
  fiber,    \* per shell: the fiber notifyWhenDone forks
  row,      \* ledger: "none", "kept" (no notice owed), "owed", "lost" (time_lost is set)
  mark,     \* ledger: start_seq
  notice,   \* durable: the notice's synthetic input has been admitted
  starts,   \* durable: number of Execution.Started events of the Session
  deleted,  \* durable: the Session has been deleted
  diedAt,   \* history: `starts` when the owner died
  unowed    \* history: noticeOwed found no row to update

ledger == <<row, mark>>
session == <<notice, starts, deleted>>
process == <<pc, job, moved, lease, shell, fiber>>
servers == <<life, todo, owner>>
history == <<diedAt, unowed>>
vars == <<servers, process, ledger, session, history>>

InCall == {"spawned", "created", "blocked", "cancelling", "owing", "owed"}

TypeOK ==
  /\ life \in [Servers -> {"unborn", "reading", "listing", "sweeping", "up", "dead"}]
  /\ todo \in [Servers -> SUBSET Shells]
  /\ owner \in [Shells -> Servers \cup {None}]
  /\ pc \in [Shells -> InCall \cup {"none", "running", "finished", "interrupted"}]
  /\ job \in [Shells -> {"none", "running", "settled", "done"}]
  /\ moved \in [Shells -> BOOLEAN] /\ lease \in [Shells -> BOOLEAN]
  /\ shell \in [Shells -> {"none", "live", "exited", "removing", "removed"}]
  /\ fiber \in [Shells -> {"none", "waiting", "admitted", "told", "ended"}]
  /\ row \in [Shells -> {"none", "kept", "owed", "lost"}]
  /\ mark \in [Shells -> 0..MaxStarts]
  /\ notice \in [Shells -> BOOLEAN] /\ starts \in 0..MaxStarts /\ deleted \in BOOLEAN
  /\ diedAt \in [Shells -> 0..MaxStarts] /\ unowed \in [Shells -> BOOLEAN]

Init ==
  /\ life = [s \in Servers |-> "unborn"] /\ todo = [s \in Servers |-> {}]
  /\ owner = [x \in Shells |-> None]
  /\ pc = [x \in Shells |-> "none"] /\ job = [x \in Shells |-> "none"]
  /\ moved = [x \in Shells |-> FALSE] /\ lease = [x \in Shells |-> FALSE]
  /\ shell = [x \in Shells |-> "none"] /\ fiber = [x \in Shells |-> "none"]
  /\ row = [x \in Shells |-> "none"] /\ mark = [x \in Shells |-> 0]
  /\ notice = [x \in Shells |-> FALSE] /\ starts = 0 /\ deleted = FALSE
  /\ diedAt = [x \in Shells |-> 0] /\ unowed = [x \in Shells |-> FALSE]

Set(f, x, v) == [f EXCEPT ![x] = v]

\* The process that runs x is alive.
Up(x) == owner[x] # None /\ life[owner[x]] = "up"
Dead(x) == owner[x] # None /\ life[owner[x]] = "dead"

-----------------------------------------------------------------------------
(* The tool call.                                                          *)

\* Shell.create: the command runs before its row is written.
Spawn(x, s) == /\ pc[x] = "none" /\ life[s] = "up" /\ ~deleted
               /\ owner' = Set(owner, x, s)
               /\ pc' = Set(pc, x, "spawned")
               /\ shell' = Set(shell, x, "live")
               /\ UNCHANGED <<life, todo, job, moved, lease, fiber, ledger, session, history>>

\* ShellLedger.record, and Job.start with the run that waits for the shell.
Record(x) == /\ pc[x] = "spawned" /\ Up(x)
             /\ row' = Set(row, x, "kept")
             /\ job' = Set(job, x, "running")
             /\ pc' = Set(pc, x, "created")
             /\ UNCHANGED <<servers, moved, lease, shell, fiber, mark, session, history>>

\* Mutant of Move: a job that has finished is left as it is.
MoveRunning(x) == /\ moved' = Set(moved, x, moved[x] \/ job[x] = "running")
                  /\ lease' = Set(lease, x, lease[x] \/ job[x] = "running")

\* Job.backgroundWithReason: a running job is marked and its signal given; a shell's
\* job that has finished owes a notice all the same.
Move(x) == /\ moved' = Set(moved, x, moved[x] \/ job[x] = "running")
           /\ lease' = Set(lease, x, TRUE)

\* background: true
BackgroundNow(x) == /\ pc[x] = "created" /\ Up(x)
                    /\ Move(x)
                    /\ pc' = Set(pc, x, "owing")
                    /\ UNCHANGED <<servers, job, shell, fiber, ledger, session, history>>

\* Job.block, whose first look may find the job finished.
Block(x) == /\ pc[x] = "created" /\ Up(x)
            /\ pc' = Set(pc, x, IF job[x] = "running" THEN "blocked" ELSE "finished")
            /\ UNCHANGED <<servers, job, moved, lease, shell, fiber, ledger, session, history>>

\* The deadline of a block; it races the end of the wait and may find a finished job.
Deadline(x) == /\ pc[x] = "blocked" /\ Up(x) /\ ~moved[x]
               /\ Move(x)
               /\ UNCHANGED <<servers, pc, job, shell, fiber, ledger, session, history>>

\* Session.background: Job.backgroundAll takes what runs and blocks the Session.
BackgroundAll(s) ==
  LET found == {x \in Shells : owner[x] = s /\ pc[x] = "blocked" /\ job[x] = "running" /\ ~moved[x]}
  IN /\ life[s] = "up" /\ found # {}
     /\ moved' = [x \in Shells |-> moved[x] \/ x \in found]
     /\ lease' = [x \in Shells |-> lease[x] \/ x \in found]
     /\ UNCHANGED <<servers, pc, job, shell, fiber, ledger, session, history>>

\* The wait of a block is over: the signal, or the end of the job.
Unblock(x) == /\ pc[x] = "blocked" /\ Up(x)
              /\ moved[x] \/ job[x] = "done"
              /\ pc' = Set(pc, x, IF moved[x] THEN "owing" ELSE "finished")
              /\ UNCHANGED <<servers, job, moved, lease, shell, fiber, ledger, session, history>>

\* A blocked call that is interrupted cancels its job; later it just stops.
Interrupt(x) ==
  /\ Up(x)
  /\ \/ /\ pc[x] = "blocked" /\ job[x] = "running"
        /\ job' = Set(job, x, "settled")
        /\ pc' = Set(pc, x, "cancelling")
     \/ /\ (pc[x] = "blocked" /\ job[x] # "running") \/ pc[x] \in {"owing", "owed"}
        /\ pc' = Set(pc, x, "interrupted")
        /\ UNCHANGED job
  /\ UNCHANGED <<servers, moved, lease, shell, fiber, ledger, session, history>>

\* Job.cancel goes on: closing the job's scope interrupts its run, which removes the shell.
Cancel(x) == /\ pc[x] = "cancelling" /\ Up(x) /\ job[x] = "done"
             /\ shell' = Set(shell, x, IF shell[x] = "removed" THEN "removed" ELSE "removing")
             /\ pc' = Set(pc, x, "interrupted")
             /\ UNCHANGED <<servers, job, moved, lease, fiber, ledger, session, history>>

\* notifyWhenDone, first half: ShellLedger.noticeOwed, whose update may match no row ...
Owe(x) == /\ pc[x] = "owing" /\ Up(x)
          /\ row' = Set(row, x, IF row[x] = "kept" THEN "owed" ELSE row[x])
          /\ unowed' = Set(unowed, x, row[x] # "kept")
          /\ pc' = Set(pc, x, "owed")
          /\ UNCHANGED <<servers, job, moved, lease, shell, fiber, mark, session, diedAt>>

\* ... and then the fiber is forked and the call answers.
Answer(x) == /\ pc[x] = "owed" /\ Up(x)
             /\ pc' = Set(pc, x, "running")
             /\ fiber' = Set(fiber, x, "waiting")
             /\ UNCHANGED <<servers, job, moved, lease, shell, ledger, session, history>>

-----------------------------------------------------------------------------
(* The shell and its job.                                                  *)

\* The command ends by itself, by its timeout or its memory limit.  Without an owner
\* nobody takes notice.
Exit(x) == /\ shell[x] = "live"
           /\ shell' = Set(shell, x, "exited")
           /\ UNCHANGED <<servers, pc, job, moved, lease, fiber, ledger, session, history>>

\* removeSession, for a client, for the teardown or for the limit of exited shells:
\* the command is killed ...
Remove(x) == /\ shell[x] \in {"live", "exited"} /\ job[x] # "none" /\ Up(x)
             /\ shell' = Set(shell, x, "removing")
             /\ UNCHANGED <<servers, pc, job, moved, lease, fiber, ledger, session, history>>

\* ... and only then its row is released, unless it owes a notice.
Release(x) == /\ shell[x] = "removing" /\ Up(x)
              /\ shell' = Set(shell, x, "removed")
              /\ row' = Set(row, x, IF row[x] = "kept" THEN "none" ELSE row[x])
              /\ UNCHANGED <<servers, pc, job, moved, lease, fiber, mark, session, history>>

\* Mutant of Settle: the run does not notice that its shell was removed.
SettleExited(x) == /\ job[x] = "running" /\ shell[x] = "exited" /\ Up(x)
                   /\ job' = Set(job, x, "settled")
                   /\ UNCHANGED <<servers, pc, moved, lease, shell, fiber, ledger, session, history>>

\* The run of the job returns, or interrupts itself when the shell was killed.
Settle(x) == /\ job[x] = "running" /\ shell[x] \in {"exited", "removed"} /\ Up(x)
             /\ job' = Set(job, x, "settled")
             /\ UNCHANGED <<servers, pc, moved, lease, shell, fiber, ledger, session, history>>

\* settle and cancel complete the deferred after the map has changed.
Complete(x) == /\ job[x] = "settled" /\ Up(x)
               /\ job' = Set(job, x, "done")
               /\ UNCHANGED <<servers, pc, moved, lease, shell, fiber, ledger, session, history>>

-----------------------------------------------------------------------------
(* The fiber that delivers the notice.                                     *)

\* Job.wait has returned; orchestration.notice admits the input under its fixed ID,
\* or there is no Session any more.
Admit(x) == /\ fiber[x] = "waiting" /\ Up(x) /\ job[x] \in {"settled", "done"}
            /\ notice' = Set(notice, x, ~deleted)
            /\ fiber' = Set(fiber, x, "admitted")
            /\ UNCHANGED <<servers, pc, job, moved, lease, shell, ledger, starts, deleted, history>>

\* Job.noticeAdmitted
Tell(x) == /\ fiber[x] = "admitted" /\ Up(x)
           /\ lease' = Set(lease, x, FALSE)
           /\ fiber' = Set(fiber, x, "told")
           /\ UNCHANGED <<servers, pc, job, moved, shell, ledger, session, history>>

\* ShellLedger.noticeAdmitted: the row of a command that still runs is kept.
Clear(x) == /\ fiber[x] = "told" /\ Up(x)
            /\ row' = Set(row, x, IF shell[x] = "live" /\ row[x] # "none" THEN "kept" ELSE "none")
            /\ fiber' = Set(fiber, x, "ended")
            /\ UNCHANGED <<servers, pc, job, moved, lease, shell, mark, session, history>>

-----------------------------------------------------------------------------
(* The Session and the servers.                                            *)

\* An execution of the Session starts; its last one has no call in progress any more.
StartExecution == /\ starts < MaxStarts /\ ~deleted
                  /\ \E s \in Servers : life[s] = "up"
                  /\ \A x \in Shells : pc[x] \in InCall => ~Up(x)
                  /\ starts' = starts + 1
                  /\ UNCHANGED <<servers, process, ledger, notice, deleted, history>>

Delete == /\ ~deleted /\ \E s \in Servers : life[s] = "up"
          /\ deleted' = TRUE
          /\ UNCHANGED <<servers, process, ledger, notice, starts, history>>

\* What is not in the database goes with the process, but for a command that still runs.
Crash(s) == /\ life[s] \notin {"unborn", "dead"}
            /\ life' = Set(life, s, "dead")
            /\ todo' = Set(todo, s, {})
            /\ LET Gone(f, v) == [x \in Shells |-> IF owner[x] = s THEN v ELSE f[x]] IN
               /\ job' = Gone(job, "none") /\ fiber' = Gone(fiber, "none")
               /\ moved' = Gone(moved, FALSE) /\ lease' = Gone(lease, FALSE)
               /\ pc' = [x \in Shells |-> IF owner[x] = s /\ pc[x] \notin {"spawned", "running"} THEN "interrupted" ELSE pc[x]]
               /\ shell' = [x \in Shells |-> IF owner[x] = s /\ shell[x] # "live" THEN "exited" ELSE shell[x]]
               /\ diedAt' = Gone(diedAt, starts)
            /\ UNCHANGED <<owner, ledger, session, unowed>>

\* A managed server starts when the one before is gone; another one at any time.
Begin(s) == /\ life[s] = "unborn"
            /\ s \in Managed => \A m \in 1..s - 1 : life[m] = "dead"
            /\ life' = Set(life, s, IF s \in Managed THEN "reading" ELSE "up")
            /\ UNCHANGED <<todo, owner, process, ledger, session, history>>

\* ShellLedger.reconcile, at a managed start: the rows are read ...
Read(s) == /\ life[s] = "reading"
           /\ todo' = Set(todo, s, {x \in Shells : row[x] \in {"kept", "owed"}})
           /\ life' = Set(life, s, "listing")
           /\ UNCHANGED <<owner, process, ledger, session, history>>

\* Mutant of List: every row of another server is taken.
ListForeign(s) == /\ life[s] = "listing"
                  /\ todo' = Set(todo, s, {x \in todo[s] : owner[x] # s})
                  /\ life' = Set(life, s, "sweeping")
                  /\ UNCHANGED <<owner, process, ledger, session, history>>

\* ... and then the processes; if there is no list, no row is touched.
List(s) == /\ life[s] = "listing"
           /\ \/ todo' = Set(todo, s, {x \in todo[s] : Dead(x)})
              \/ todo' = Set(todo, s, {})
           /\ life' = Set(life, s, "sweeping")
           /\ UNCHANGED <<owner, process, ledger, session, history>>

\* A surviving command is terminated.
Terminate(s, x) == /\ life[s] = "sweeping" /\ x \in todo[s] /\ shell[x] = "live"
                   /\ shell' = Set(shell, x, "exited")
                   /\ UNCHANGED <<servers, pc, job, moved, lease, fiber, ledger, session, history>>

\* Mutant of Mark: before the command is terminated.
MarkEarly(s, x) == /\ life[s] = "sweeping" /\ x \in todo[s]
                   /\ IF row[x] = "owed"
                      THEN row' = Set(row, x, "lost") /\ mark' = Set(mark, x, starts)
                      ELSE row' = Set(row, x, "none") /\ UNCHANGED mark
                   /\ todo' = Set(todo, s, todo[s] \ {x})
                   /\ UNCHANGED <<life, owner, process, session, history>>

\* Its row is discarded, or says what was lost and how far the Session had run.
Mark(s, x) == /\ life[s] = "sweeping" /\ x \in todo[s] /\ shell[x] # "live"
              /\ IF row[x] = "owed"
                 THEN row' = Set(row, x, "lost") /\ mark' = Set(mark, x, starts)
                 ELSE row' = Set(row, x, "none") /\ UNCHANGED mark
              /\ todo' = Set(todo, s, todo[s] \ {x})
              /\ UNCHANGED <<life, owner, process, session, history>>

\* lostSessions, of GET /api/session/outstanding: lost and not acknowledged, by a start
\* since or by the end of the Session.
Reported(x) == row[x] = "lost" /\ ~deleted /\ starts = mark[x]

\* Mutant of Discard: what was lost in an earlier life is taken for old.
DiscardLost(s) == /\ life[s] = "sweeping" /\ todo[s] = {}
                  /\ row' = [x \in Shells |-> IF row[x] = "lost" THEN "none" ELSE row[x]]
                  /\ life' = Set(life, s, "up")
                  /\ UNCHANGED <<todo, owner, process, mark, session, history>>

\* discardAcknowledged; the server is up.
Discard(s) == /\ life[s] = "sweeping" /\ todo[s] = {}
              /\ row' = [x \in Shells |-> IF row[x] = "lost" /\ ~Reported(x) THEN "none" ELSE row[x]]
              /\ life' = Set(life, s, "up")
              /\ UNCHANGED <<todo, owner, process, mark, session, history>>

-----------------------------------------------------------------------------
CallStep(x) == \/ \E s \in Servers : Spawn(x, s)
               \/ Record(x) \/ BackgroundNow(x) \/ Block(x) \/ Deadline(x) \/ Unblock(x)
               \/ Interrupt(x) \/ Cancel(x) \/ Owe(x) \/ Answer(x)
ShellStep(x) == Exit(x) \/ Remove(x) \/ Release(x) \/ Settle(x) \/ Complete(x)
FiberStep(x) == Admit(x) \/ Tell(x) \/ Clear(x)
ServerStep(s) == \/ Begin(s) \/ Crash(s) \/ Read(s) \/ List(s) \/ Discard(s) \/ BackgroundAll(s)
                 \/ \E x \in Shells : Terminate(s, x) \/ Mark(s, x)

Next == \/ \E x \in Shells : CallStep(x) \/ ShellStep(x) \/ FiberStep(x)
        \/ \E s \in Servers : ServerStep(s)
        \/ StartExecution \/ Delete

Spec == Init /\ [][Next]_vars

\* Fibers that can go on do.  Nothing makes a command end, a caller call or a server start.
Fairness == \A x \in Shells : WF_vars(Release(x) \/ Settle(x) \/ Complete(x)) /\ WF_vars(FiberStep(x))
FairSpec == Spec /\ Fairness

-----------------------------------------------------------------------------
(* Properties.                                                             *)

\* "A background shell retains a process-local outstanding lease across process settlement
\* and releases it after its synthetic notice admission": the Session of a call that has
\* answered stays outstanding until the notice is there, however the command, the call and
\* the moves to the background have interleaved.
LeaseCovers == \A x \in Shells :
                 (pc[x] = "running" /\ Up(x) /\ ~notice[x] /\ ~deleted) => lease[x]

\* No promise is lost without a trace: the notice of a call that has answered is admitted,
\* or under way in a living process, or owed in the ledger, or reported as lost until the
\* Session runs again.  The exception is a shell removed before its notice was owed.
NoticeAccounted ==
  \A x \in Shells : pc[x] = "running" =>
    \/ notice[x] \/ deleted \/ unowed[x]
    \/ Up(x) /\ fiber[x] = "waiting"
    \/ row[x] = "owed" \/ Reported(x)
    \/ Dead(x) /\ starts > diedAt[x]

\* A row stops owing its notice only when that has been admitted, or when its owner is
\* dead: the reconciliation of a starting server never takes the row of a living one.
OwedUntilAdmitted ==
  [][\A x \in Shells : (row[x] = "owed" /\ row'[x] # "owed") =>
       notice[x] \/ deleted \/ Dead(x)]_vars

\* While its owner may still be alive, or has left a notice, a command that runs is in the
\* ledger, where the next managed start finds it: its row goes after the command, not before.
Tracked == \A x \in Shells : (shell[x] = "live" /\ pc[x] # "spawned") => row[x] # "none"

\* The type invariant and Tracked, which a run checks together.
LedgerInv == TypeOK /\ Tracked

\* When the command of a call that has answered ends, the notice arrives and the lease is
\* released, as long as the process and the Session live.
NoticeArrives ==
  \A x \in Shells : (pc[x] = "running" /\ shell[x] # "live")
                      ~> (notice[x] /\ ~lease[x]) \/ deleted \/ Dead(x)

\* The same sentence read the other way: a lease is held for a call in progress or for a
\* notice that somebody is going to deliver.  The code does not keep this: see the
\* README.
LeaseHasHolder == \A x \in Shells : (lease[x] /\ Up(x)) =>
                    pc[x] \in InCall \/ fiber[x] \in {"waiting", "admitted"}
=============================================================================
