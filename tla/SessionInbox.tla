--------------------------- MODULE SessionInbox ---------------------------
(***************************************************************************)
(* packages/core/src/session/pending.ts: the inbox of one Session, with    *)
(* those who fill and empty it: Session.prompt and Session.synthetic of    *)
(* session/runtime.ts, the drain loop of session/runner/llm.ts             *)
(* (drainExecution and the promotion of attemptStep), and the hooks of     *)
(* session/execution.ts around a drain, with its retry of failed drains.   *)
(*                                                                         *)
(* The run coordinator is the bell it promises to be: a wake starts an     *)
(* execution or rings a bell, and an execution ends with the bell unrung.  *)
(* A query or a transaction is one step.  What the model answers, and      *)
(* everything else a Step does, is a choice.  Left out: calls that admit   *)
(* without a wake, forced drains, staged reverts, managed tasks, and       *)
(* rejected Dots delegations.                                              *)
(***************************************************************************)
EXTENDS Integers, FiniteSets, SequencesExt

CONSTANTS Clients,    \* callers of prompt and synthetic
          Inputs,     \* message IDs; callers may use one again
          Kinds,      \* what they admit: "user", "synthetic"
          Deliveries, \* and how: "steer", "queue"
          None,       \* no holder of the inbox lock, no call
          RetryLimit, \* failedSuccessorLimit
          UserShell   \* whether the user may run commands in the Session

Records == [id : Inputs, kind : Kinds, delivery : Deliveries]

ASSUME NoneAssumption == None \notin Clients \cup Records \cup {"runner"}
ASSUME RunnerAssumption == "runner" \notin Clients
ASSUME KindAssumption == Kinds \subseteq {"user", "synthetic"}
ASSUME DeliveryAssumption == Deliveries \subseteq {"steer", "queue"}
ASSUME LimitAssumption == RetryLimit \in Nat /\ UserShell \in BOOLEAN

VARIABLES admitted,   \* the records of the admitted events, in order of their seq
          pending,    \* IDs of the rows of session_pending, but the compaction's
          compacting, \* a compaction row is pending
          promoted,   \* IDs in the order of their promoted events
          inbox,      \* who holds the inbox lock
          pc,         \* pc[c]: where a call is
          call,       \* call[c]: the record it is to admit
          at,         \* where the Session's execution is
          bell,       \* pendingWake of the coordinator
          promotion,  \* promotion: the delivery to promote
          batch,      \* the rows being promoted, by their admitted_seq
          asked,      \* history: how many had been admitted when steers were last looked for
          begun,      \* history: how many had been promoted when the drain began
          snapshot,   \* drainPendingSnapshot
          stopped,    \* stopRequested
          failed,     \* failedPending: what was pending at the last failure, how often
          shell,      \* activeShells has the Session
          excused     \* history: why the rows may lie there

db == <<admitted, pending, compacting, promoted>>
calls == <<pc, call>>
drain == <<promotion, batch, asked, begun>>
retries == <<snapshot, stopped, failed>>
vars == <<db, inbox, calls, at, bell, drain, retries, shell, excused>>

\* A call: looking for an earlier admission; waiting for the lock; looking again
\* under it; inserting; refused by the table; about to wake; refused for good.
Waits == {"idle", "looking", "locking", "checking", "inserting", "conflicted",
          "waking", "refused"}

\* The execution: none; a drain begins; it looks for steers, for queued inputs; a
\* Step reads the rows to promote, waits for the lock, promotes them, calls the
\* model; steers are looked for once more; the drain has ended; it has failed; the
\* settled hook runs.
Stages == {"idle", "begin", "steers", "queue", "read", "lock", "promote", "call",
           "more", "ended", "failed", "settling"}

NoFailure == [ids |-> {}, count |-> 0]

TypeOK == /\ admitted \in Seq(Records)
          /\ pending \subseteq Inputs
          /\ compacting \in BOOLEAN
          /\ promoted \in Seq(Inputs)
          /\ inbox \in Clients \cup {"runner", None}
          /\ pc \in [Clients -> Waits]
          /\ call \in [Clients -> Records \cup {None}]
          /\ at \in Stages
          /\ bell \in BOOLEAN
          /\ promotion \in {"steer", "queue"}
          /\ batch \subseteq DOMAIN admitted
          /\ asked \in Nat /\ begun \in Nat
          /\ snapshot \subseteq Inputs
          /\ stopped \in BOOLEAN
          /\ failed \in [ids : SUBSET Inputs, count : 0 .. RetryLimit + 1]
          /\ shell \in BOOLEAN /\ excused \in BOOLEAN
          /\ (inbox = "runner") = (at = "promote")
          /\ (batch # {}) => at \in {"lock", "promote"}

Init == /\ admitted = <<>> /\ pending = {} /\ compacting = FALSE /\ promoted = <<>>
        /\ inbox = None
        /\ pc = [c \in Clients |-> "idle"]
        /\ call = [c \in Clients |-> None]
        /\ at = "idle" /\ bell = FALSE
        /\ promotion = "steer" /\ batch = {} /\ asked = 0 /\ begun = 0
        /\ snapshot = {} /\ stopped = FALSE /\ failed = NoFailure
        /\ shell = FALSE /\ excused = FALSE

\* The rows of a delivery, each by its admitted_seq.
Rows(delivery) == {n \in DOMAIN admitted : /\ admitted[n].id \in pending
                                           /\ admitted[n].delivery = delivery}

has(delivery) == ~compacting /\ Rows(delivery) # {}

\* Mutant of First: the latest row.
Latest(rows) == {n \in rows : \A m \in rows : m <= n}

\* The first of some rows, in the order of admitted_seq.
First(rows) == {n \in rows : \A m \in rows : n <= m}

\* The kind an ID has been admitted as.
KindsOf(id) == {a.kind : a \in {b \in ToSet(admitted) : b.id = id}}

\* Mutant of Ring: an execution, whoever executes.
RingAnew == at' = "begin" /\ UNCHANGED bell

\* wake of the coordinator.
Ring == IF at = "idle" THEN at' = "begin" /\ UNCHANGED bell
                       ELSE bell' = TRUE /\ UNCHANGED at

-----------------------------------------------------------------------------
(* prompt and synthetic.                                                   *)

Goto(c, place) == pc' = [pc EXCEPT ![c] = place]

Return(c) == Goto(c, "idle") /\ call' = [call EXCEPT ![c] = None]

Call(c) == /\ pc[c] = "idle"
           /\ \E r \in Records : call' = [call EXCEPT ![c] = r]
           /\ Goto(c, "looking")
           /\ UNCHANGED <<db, inbox, at, bell, drain, retries, excused, shell>>

\* What follows from what an ID is known as.
Found(c, otherwise) ==
  \/ /\ KindsOf(call[c].id) = {call[c].kind}
     /\ Goto(c, "waking")
  \/ /\ KindsOf(call[c].id) \notin {{}, {call[c].kind}}
     /\ Goto(c, "refused")
  \/ /\ KindsOf(call[c].id) = {}
     /\ Goto(c, otherwise)

\* lookup, without the lock.
Look(c) == /\ pc[c] = "looking"
           /\ Found(c, IF call[c].kind = "user" THEN "locking" ELSE "checking")
           /\ UNCHANGED <<db, inbox, call, at, bell, drain, retries, excused, shell>>

\* Mutant of Lock: prompt does without the lock, as synthetic does.
LockNothing(c) == /\ pc[c] = "locking"
                  /\ Goto(c, "checking")
                  /\ UNCHANGED <<db, inbox, call, at, bell, drain, retries, excused, shell>>

\* A prompt is admitted under the inbox lock.
Lock(c) == /\ pc[c] = "locking" /\ inbox = None
           /\ inbox' = c
           /\ Goto(c, "checking")
           /\ UNCHANGED <<db, call, at, bell, drain, retries, excused, shell>>

Unlock(c) == inbox' = IF inbox = c THEN None ELSE inbox

\* lookup again and admit, up to its transaction.
Check(c) == /\ pc[c] = "checking"
            /\ Found(c, "inserting")
            /\ IF KindsOf(call[c].id) = {} THEN UNCHANGED inbox ELSE Unlock(c)
            /\ UNCHANGED <<db, call, at, bell, drain, retries, excused, shell>>

\* The transaction of InputAdmitted: an ID with a row or a message is refused.
Insert(c) == /\ pc[c] = "inserting"
             /\ \/ /\ KindsOf(call[c].id) = {}
                   /\ admitted' = Append(admitted, call[c])
                   /\ pending' = pending \cup {call[c].id}
                   /\ Goto(c, "waking") /\ Unlock(c)
                \/ /\ KindsOf(call[c].id) # {}
                   /\ Goto(c, "conflicted")
                   /\ UNCHANGED <<admitted, pending, inbox>>
             /\ UNCHANGED <<compacting, promoted, call, at, bell, drain, retries, excused, shell>>

\* A refused insert finds the pending row, or nothing when it has been promoted.
Recheck(c) == /\ pc[c] = "conflicted"
              /\ \/ /\ call[c].id \in pending /\ KindsOf(call[c].id) = {call[c].kind}
                    /\ Goto(c, "waking")
                 \/ /\ call[c].id \notin pending \/ KindsOf(call[c].id) # {call[c].kind}
                    /\ Goto(c, "refused")
              /\ Unlock(c)
              /\ UNCHANGED <<db, call, at, bell, drain, retries, excused, shell>>

\* Mutant of Wake: a Session that executes needs no bell.
WakeIdle(c) == /\ pc[c] = "waking"
               /\ Return(c)
               /\ at' = IF at = "idle" THEN "begin" ELSE at
               /\ UNCHANGED <<db, inbox, bell, drain, retries, excused, shell>>

\* A prompt leaves the bell to the end of a shell the user runs in the Session.
Wake(c) == /\ pc[c] = "waking"
           /\ Return(c)
           /\ IF call[c].kind = "user" /\ shell THEN UNCHANGED <<at, bell>> ELSE Ring
           /\ UNCHANGED <<db, inbox, drain, retries, excused, shell>>

\* The call fails with a conflict.
Refuse(c) == /\ pc[c] = "refused"
             /\ Return(c)
             /\ UNCHANGED <<db, inbox, at, bell, drain, retries, excused, shell>>

-----------------------------------------------------------------------------
(* A drain.                                                                *)

\* The drain hook of execution.ts.
Begin == /\ at = "begin"
         /\ snapshot' = pending /\ stopped' = FALSE
         /\ excused' = FALSE
         /\ at' = "steers" /\ begun' = Len(promoted)
         /\ UNCHANGED <<db, inbox, calls, bell, promotion, batch, asked, failed, shell>>

\* Mutant of AskSteers: the queued inputs first.
AskQueueFirst == /\ at = "steers"
                 /\ asked' = IF compacting THEN 0 ELSE Len(admitted)
                 /\ \/ has("steer") /\ ~has("queue") /\ promotion' = "steer" /\ at' = "read"
                    \/ (~has("steer") \/ has("queue")) /\ at' = "queue" /\ UNCHANGED promotion
                 /\ UNCHANGED <<db, inbox, calls, bell, batch, begun, retries, excused, shell>>

\* drainExecution, at its start and when a turn has ended.
AskSteers == /\ at = "steers"
             /\ asked' = IF compacting THEN 0 ELSE Len(admitted)
             /\ \/ has("steer") /\ promotion' = "steer" /\ at' = "read"
                \/ ~has("steer") /\ at' = "queue" /\ UNCHANGED promotion
             /\ UNCHANGED <<db, inbox, calls, bell, batch, begun, retries, excused, shell>>

AskQueue == /\ at = "queue"
            /\ \/ has("queue") /\ promotion' = "queue" /\ at' = "read" /\ UNCHANGED asked
               \/ ~has("queue") /\ at' = "ended" /\ asked' = 0 /\ UNCHANGED promotion
            /\ UNCHANGED <<db, inbox, calls, bell, batch, begun, retries, excused, shell>>

\* What promoteSteers and promoteNextQueued read before they take the lock.
Candidates == IF promotion = "steer" THEN Rows("steer") ELSE First(Rows("queue"))

\* Steers follow a queued input into the same Step.
AfterPromotion == IF promotion = "queue" THEN promotion' = "steer" /\ at' = "read"
                                         ELSE at' = "call" /\ UNCHANGED promotion

\* A compaction, or no queued row, and nothing is promoted.
Read == /\ at = "read"
        /\ \/ /\ ~compacting /\ (promotion = "steer" \/ Candidates # {})
              /\ batch' = Candidates
              /\ at' = "lock" /\ UNCHANGED promotion
           \/ /\ compacting \/ (promotion = "queue" /\ Candidates = {})
              /\ AfterPromotion /\ UNCHANGED batch
        /\ UNCHANGED <<db, inbox, calls, bell, asked, begun, retries, excused, shell>>

\* publish: nothing is promoted when a compaction came first.
Take == /\ at = "lock" /\ inbox = None
        /\ inbox' = "runner"
        /\ batch' = IF compacting THEN {} ELSE batch
        /\ at' = "promote"
        /\ UNCHANGED <<db, calls, bell, promotion, asked, begun, retries, excused, shell>>

\* The transaction of InputPromoted, for one row after the other: it becomes a message.
Promote(n) ==
  /\ at = "promote"
  /\ ~compacting /\ admitted[n].id \in pending
  /\ batch' = batch \ {n}
  /\ pending' = pending \ {admitted[n].id}
  /\ promoted' = Append(promoted, admitted[n].id)
  /\ UNCHANGED <<admitted, compacting, inbox, calls, at, bell, promotion, asked, begun,
                 retries, excused, shell>>

\* The lock is released.
Promoted == /\ at = "promote" /\ batch = {}
            /\ inbox' = None
            /\ AfterPromotion
            /\ UNCHANGED <<db, calls, bell, batch, asked, begun, retries, excused, shell>>

\* The model has answered: it wants to go on, with the steers of the next boundary,
Continue == /\ at = "call"
            /\ at' = "read"
            /\ UNCHANGED <<db, inbox, calls, bell, drain, retries, excused, shell>>

\* or it has finished,
Finish == /\ at = "call"
          /\ at' = "more"
          /\ UNCHANGED <<db, inbox, calls, bell, drain, retries, excused, shell>>

\* and goes on only if there are steers.
AskMore == /\ at = "more"
           /\ at' = IF has("steer") THEN "read" ELSE "steers"
           /\ UNCHANGED <<db, inbox, calls, bell, drain, retries, excused, shell>>

\* The drain is over: another one answers the bell, or the hook forgets the failures.
End == /\ at = "ended"
       /\ \/ bell /\ bell' = FALSE /\ at' = "begin" /\ UNCHANGED <<snapshot, stopped, failed>>
          \/ /\ ~bell /\ at' = "settling" /\ UNCHANGED bell
             /\ failed' = NoFailure /\ snapshot' = {} /\ stopped' = FALSE
       /\ begun' = 0
       /\ UNCHANGED <<db, inbox, calls, promotion, batch, asked, excused, shell>>

\* What a fiber held in its variables, and its lock, go with it.
DrainGone == /\ batch' = {} /\ promotion' = "steer" /\ asked' = 0
             /\ inbox' = IF inbox = "runner" THEN None ELSE inbox

\* A drain fails in anything it does but the transaction of a promotion.
Fail == /\ at \in {"begin", "steers", "queue", "read", "promote", "call", "more"}
        /\ at' = "failed"
        /\ DrainGone
        /\ UNCHANGED <<db, calls, bell, begun, retries, excused, shell>>

\* retryFailedPending: one more wake, RetryLimit times for the same rows, unless the
\* drain had promoted something or the user has asked for a stop.
Retry ==
  LET count == IF failed.count > 0 /\ failed.ids = pending THEN failed.count + 1 ELSE 1
      again == ~stopped /\ snapshot # {} /\ snapshot \subseteq pending
  IN /\ at = "failed"
     /\ at' = "settling"
     /\ snapshot' = {} /\ begun' = 0
     /\ failed' = IF again THEN [ids |-> pending,
                                 count |-> IF count > RetryLimit THEN RetryLimit + 1 ELSE count]
                  ELSE IF ~stopped /\ snapshot # {} /\ pending = {} THEN NoFailure ELSE failed
     /\ bell' = (bell \/ (again /\ count <= RetryLimit))
     /\ excused' = (excused \/ stopped \/ snapshot = {} \/ Len(promoted) > begun \/ count > RetryLimit)
     /\ UNCHANGED <<db, inbox, calls, promotion, batch, asked, stopped, shell>>

\* The settled hook returns: a successor answers the bell.
Settle == /\ at = "settling"
          /\ at' = IF bell THEN "begin" ELSE "idle"
          /\ bell' = FALSE
          /\ UNCHANGED <<db, inbox, calls, drain, retries, excused, shell>>

-----------------------------------------------------------------------------
(* The user's stop, compactions, crashes.                                  *)

Running == at \notin {"idle", "failed", "settling"}

\* interrupt: the bell is cleared with the execution, whose hook forgets the failures.
Stop == \/ /\ Running
           /\ at' = "settling" /\ bell' = FALSE
           /\ DrainGone /\ begun' = 0
           /\ failed' = NoFailure /\ snapshot' = {} /\ stopped' = FALSE
           /\ excused' = TRUE
           /\ UNCHANGED <<db, calls, shell>>
        \/ /\ ~Running /\ ~stopped
           /\ stopped' = TRUE
           /\ UNCHANGED <<db, inbox, calls, at, bell, drain, snapshot, failed, excused, shell>>

\* Mutant of AdmitCompaction: without the lock.
AdmitCompactionAnyway ==
  /\ ~compacting
  /\ compacting' = TRUE
  /\ UNCHANGED <<admitted, pending, promoted, inbox, calls, at, bell, drain, retries, excused, shell>>

\* admitCompaction, all of it under the inbox lock.
AdmitCompaction ==
  /\ inbox = None /\ ~compacting
  /\ compacting' = TRUE
  /\ UNCHANGED <<admitted, pending, promoted, inbox, calls, at, bell, drain, retries, excused, shell>>

\* settleCompaction wakes nobody.
SettleCompaction ==
  /\ compacting
  /\ compacting' = FALSE /\ excused' = TRUE
  /\ UNCHANGED <<admitted, pending, promoted, inbox, calls, at, bell, drain, retries, shell>>

\* Session.shell of the user: the Session is marked for as long as the command runs ...
ShellBegins == /\ UserShell /\ ~shell
               /\ shell' = TRUE
               /\ UNCHANGED <<db, inbox, calls, at, bell, drain, retries, excused>>

\* Mutant of ShellEnds: no wake at the end.
ShellEndsSilently == /\ shell
                     /\ shell' = FALSE
                     /\ UNCHANGED <<db, inbox, calls, at, bell, drain, retries, excused>>

\* ... and woken at the end of it, whatever that is.
ShellEnds == /\ shell
             /\ shell' = FALSE
             /\ Ring
             /\ UNCHANGED <<db, inbox, calls, drain, retries, excused>>

\* The process dies, and a root Session is not resumed.
Crash == /\ at # "idle" \/ shell \/ \E c \in Clients : pc[c] # "idle"
         /\ inbox' = None
         /\ pc' = [c \in Clients |-> "idle"] /\ call' = [c \in Clients |-> None]
         /\ at' = "idle" /\ bell' = FALSE /\ shell' = FALSE
         /\ batch' = {} /\ promotion' = "steer" /\ asked' = 0 /\ begun' = 0
         /\ snapshot' = {} /\ stopped' = FALSE /\ failed' = NoFailure
         /\ excused' = TRUE
         /\ UNCHANGED db

Admission(c) == Look(c) \/ Lock(c) \/ Check(c) \/ Insert(c) \/ Recheck(c) \/ Wake(c) \/ Refuse(c)

Drain == \/ Begin \/ AskSteers \/ AskQueue \/ Read \/ Take \/ Promoted
         \/ (\E n \in First(batch) : Promote(n)) \/ AskMore \/ End \/ Retry \/ Settle

Next == \/ \E c \in Clients : Call(c) \/ Admission(c)
        \/ Drain \/ Continue \/ Finish \/ Fail
        \/ Stop \/ AdmitCompaction \/ SettleCompaction \/ Crash \/ ShellBegins \/ ShellEnds

Spec == Init /\ [][Next]_vars
\* Everyone goes on; a Step does not want another Step for ever, and a command of the
\* user ends, or its call is interrupted.
FairSpec == /\ Spec /\ WF_vars(Drain)
            /\ SF_vars(Take) /\ SF_vars(Finish) /\ WF_vars(ShellEnds)
            /\ \A c \in Clients : WF_vars(Admission(c))

-----------------------------------------------------------------------------
(* Properties.                                                             *)

AdmittedIds == [i \in DOMAIN admitted |-> admitted[i].id]

\* The first admission wins: an ID is admitted once, as one kind, whoever uses it again
\* and whether or not its input has been promoted in between.  What has been admitted is
\* a row or a message, never both and never twice a message.
RowOrMessage == /\ IsInjective(AdmittedIds) /\ IsInjective(promoted)
                /\ pending \cap ToSet(promoted) = {}
                /\ pending \cup ToSet(promoted) = ToSet(AdmittedIds)

\* Inputs of one delivery become messages in the order of their admission, and none
\* that was admitted later does while an earlier one waits.
InDeliveryOrder ==
  \A i, j \in DOMAIN admitted :
    (i < j /\ admitted[i].delivery = admitted[j].delivery /\ admitted[j].id \in ToSet(promoted))
      => \E k, l \in DOMAIN promoted :
           k < l /\ promoted[k] = admitted[i].id /\ promoted[l] = admitted[j].id

\* The rows about to be promoted still lie there, and no compaction has come between
\* the reading of the rows, which is outside the lock, and their promotions.
BatchStands == (at = "promote" /\ batch # {})
                 => ~compacting /\ \A n \in batch : admitted[n].id \in pending

\* The type invariant and BatchStands, which a run checks together.
InboxInv == TypeOK /\ BatchStands

\* "Sending a prompt never fails on ID reuse", but across kinds.
PromptsAccepted ==
  \A c \in Clients : (pc[c] = "refused" /\ call[c].kind = "user")
                       => KindsOf(call[c].id) \subseteq {"synthetic"}

\* What a caller who uses an ID again may rely on, which a run checks together.
ReuseInv == RowOrMessage /\ PromptsAccepted

\* An input whose call has returned lies in an idle Session only because of what excuses
\* it: a stop, a crash, a compaction, or a drain that failed after it had promoted
\* something or failed too often; or a shell of the user still runs.  No admission is lost
\* between the last look of a drain and its end.
NoStranded == (pending # {} /\ at = "idle" /\ \A c \in Clients : pc[c] # "waking")
                => compacting \/ excused \/ shell

\* A queued input is promoted only when every steer that was there when the drain last
\* asked for steers has been.
SteersFirst ==
  [][(promoted' # promoted /\ promotion = "queue")
       => \A i \in DOMAIN admitted : (admitted[i].delivery = "steer" /\ admitted[i].id \in pending)
                                       => i > asked]_vars

\* A row is promoted in the end, whoever else is served and however many drains fail on
\* the way, or it is excused.
RowPromoted == \A i \in Inputs : i \in pending ~> (i \notin pending \/ compacting \/ excused)

\* The Session's execution, as the coordinator's users see it.
Stage == CASE at = "idle" -> "idle"
           [] at = "begin" -> "begin"
           [] at \in {"failed", "settling"} -> "settling"
           [] OTHER -> "draining"

Bell == INSTANCE Doorbell
          WITH Keys <- {"session"},
               stage <- [k \in {"session"} |-> Stage],
               bell <- [k \in {"session"} |-> bell],
               held <- [k \in {"session"} |-> FALSE],
               kept <- [k \in {"session"} |-> FALSE],
               closed <- FALSE

\* Whoever admits, drains, fails and retries asks of the coordinator what it promises
\* (Doorbell), and is given what it promises, until the process dies.
UsesDoorbell == Bell!Init /\ [][Bell!Next \/ Crash]_(Bell!vars)

\* The comment over synthetic: "A reused input ID is the same input: return the durable
\* record and wake", as prompts do.  Without the lock the code does not keep this.
SyntheticsAccepted ==
  \A c \in Clients : (pc[c] = "refused" /\ call[c].kind = "synthetic")
                       => "synthetic" \notin KindsOf(call[c].id)
=============================================================================
