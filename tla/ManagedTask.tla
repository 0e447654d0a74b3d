---------------------------- MODULE ManagedTask ----------------------------
(***************************************************************************)
(* One managed child task (a subagent Session launched by its parent) over *)
(* the lives of the servers that run it: packages/core/src/session         *)
(*   orchestration.ts   what the parent and the user ask of the task       *)
(*   execution.ts       the hooks that gate a drain and settle the task    *)
(*   projector.ts       the transitions of the task's row                  *)
(*   execution/         shutdown, and what the next startup makes of it    *)
(* A server is one life of a process.  Its fibers and its sets are lost    *)
(* when it dies; the task's row, the Session's inbox and its log survive.  *)
(* At most one managed server is alive (the service elects one); a default *)
(* server, say `serve --stdio`, runs only its startup pass over this task. *)
(* Attached ownership (`supervising`), progress notes and the wording of   *)
(* notices are left out.                                                   *)
(***************************************************************************)
EXTENDS Naturals, FiniteSets

CONSTANTS Managed,      \* lives of the managed service, one at a time
          Default,      \* lives of servers that are not the service
          Overlap,      \* may a default server start during a managed startup
          MaxRevision,  \* bound: requests are made below this revision
          None

ASSUME Assumptions ==
  /\ None \notin Managed \union Default
  /\ Managed \intersect Default = {}
  /\ IsFiniteSet(Managed)
  /\ Overlap \in BOOLEAN
  /\ MaxRevision \in Nat

VARIABLES
  \* durable
  task,       \* the row: state, revision and the server that claims it
  pending,    \* inputs admitted and not yet promoted
  latest,     \* latest execution event of the Session's log
  suspended,  \* time_suspended is set
  step,       \* what the latest assistant message shows
  spent,      \* a recovery resumed the task and no step has ended since
  review,     \* the recovery item of the review box
  \* per process
  mode,       \* where each server is in its life
  plan,       \* what its startup pass read and decided, before it commits
  \* in the managed server that is alive
  run,        \* phase of the Session's execution
  result,     \* how its drain ended
  must,       \* the drain owes a step though nothing is pending
  bell,       \* pendingWake
  woken,      \* woken.has(child)
  asking,     \* subagent_report has yet to interrupt its own drain
  op,         \* the orchestration call that holds the child's lock
  \* history
  acked,      \* pending inputs whose call returned in this run of the task
  revived     \* automatic recoveries since the last step ended

durable == <<task, pending, latest, suspended, step, spent, review>>
execution == <<run, result, must, bell, woken>>
vars == <<durable, mode, plan, execution, asking, op, acked, revived>>

Servers == Managed \union Default
Terminal == {"completed", "failed", "cancelled", "lost"}
Stale == {"starting", "running", "waiting", "cancelling"}
Inputs == {"launch", "message", "answer", "steer"}
Alive(s) == s # None /\ mode[s] \notin {"off", "dead"}
Booting == {"reconcile", "read", "commit", "kick"}
NoPlan == [verdict |-> "none", seen |-> None]
Forget(s) == plan' = [plan EXCEPT ![s] = NoPlan]

Up(s) == s \in Managed /\ mode[s] = "up"
Running(s) == s \in Managed /\ mode[s] \in {"up", "closing", "closed"}

Init ==
  /\ task = [state |-> "none", owner |-> None, revision |-> 0]
  /\ pending = {} /\ latest = "none" /\ suspended = FALSE
  /\ step = "none" /\ spent = FALSE /\ review = "none"
  /\ mode = [s \in Servers |-> "off"]
  /\ plan = [s \in Servers |-> NoPlan]
  /\ run = "idle" /\ result = "ok" /\ must = FALSE
  /\ bell = FALSE /\ woken = FALSE
  /\ asking = FALSE /\ op = "none"
  /\ acked = {} /\ revived = 0

-----------------------------------------------------------------------------
(* The row.  A change bumps the revision; a claim names the server.        *)

Change(state) == task' = [task EXCEPT !.state = state, !.revision = @ + 1]
Claim(s, state) ==
  task' = [state |-> state, owner |-> s, revision |-> task.revision + 1]

(* projectTask: "started" from starting, or again after a terminal state.  *)
Startable == task.state \in {"starting"} \union Terminal

-----------------------------------------------------------------------------
(* The doorbell, as RunCoordinator has it.                                 *)

Closed == \E s \in Managed : mode[s] = "closed"

Ring ==
  /\ woken' = TRUE
  /\ IF run = "idle"
     THEN /\ run' = IF Closed THEN "idle" ELSE "starting"
          /\ must' = FALSE
          /\ UNCHANGED bell
     ELSE bell' = TRUE /\ UNCHANGED <<run, must>>
  /\ UNCHANGED result

(* interrupt: only a drain that has not ended; the doorbell is discarded.  *)
(* A tool call cut short leaves an effect nobody knows.                    *)
Interrupt(reason) ==
  IF run \in {"starting", "hook", "drain", "step"}
  THEN /\ run' = "done" /\ result' = reason /\ bell' = FALSE /\ must' = FALSE
       /\ step' = CASE run = "step" /\ step = "open" -> "failed"
                    [] run = "step" /\ step = "tool" -> "unknown"
                    [] OTHER -> step
       /\ UNCHANGED woken
  ELSE UNCHANGED <<execution, step>>

-----------------------------------------------------------------------------
(* What the parent and the user ask, under the child's lock: one at a time *)
(* and each in the steps between which another fiber, or a crash, may run. *)

Free(s) == Up(s) /\ op = "none" /\ task.revision < MaxRevision

Done == op' = "none" /\ acked' = acked \union pending

Launch(s) ==
  /\ Free(s)
  /\ task.state \in {"none", "starting"}
  /\ task' = IF task.state = "none" THEN [task EXCEPT !.state = "starting", !.owner = s] ELSE task
  /\ op' = "admit"
  /\ UNCHANGED <<pending, latest, suspended, step, spent, review, mode, plan, execution, asking, acked, revived>>

LaunchAdmit ==
  /\ op = "admit"
  /\ pending' = pending \union {"launch"}
  /\ op' = "start"
  /\ UNCHANGED <<task, latest, suspended, step, spent, review, mode, plan, execution, asking, acked, revived>>

(* publish "started", which the projector refuses in any other state; with *)
(* it a run of the task begins.                                            *)
Start(s) ==
  /\ Running(s) /\ op = "start"
  /\ IF Startable THEN Claim(s, "running") /\ op' = "wake" /\ acked' = {}
                  ELSE op' = "none" /\ UNCHANGED <<task, acked>>
  /\ UNCHANGED <<pending, latest, suspended, step, spent, review, mode, plan, execution, asking, revived>>

(* The last step of most calls: execution.wake, and the answer.            *)
Wake ==
  /\ op = "wake"
  /\ Ring /\ Done
  /\ UNCHANGED <<durable, mode, plan, asking, revived>>

Send(s) ==
  /\ Free(s)
  /\ task.state \in {"running"} \union Terminal
  /\ review # "stopped"
  /\ "message" \notin pending
  /\ pending' = pending \union {"message"}
  /\ op' = IF task.state \in Terminal THEN "start" ELSE "ring"
  /\ UNCHANGED <<task, latest, suspended, step, spent, review, mode, plan, execution, asking, acked, revived>>

SendRing ==
  /\ op = "ring"
  /\ Ring /\ op' = "look"
  /\ UNCHANGED <<durable, mode, plan, asking, acked, revived>>

(* Did the task end before it heard the doorbell, the message still there? *)
SendLook ==
  /\ op = "look"
  /\ IF task.state \in Terminal /\ "message" \in pending
     THEN op' = "start" /\ UNCHANGED acked
     ELSE Done
  /\ UNCHANGED <<durable, mode, plan, execution, asking, revived>>

(* A mutant: an answer that does not look for a recovery question.         *)
AnswerAnything(s) ==
  /\ Free(s)
  /\ task.state = "waiting"
  /\ pending' = pending \union {"answer"}
  /\ op' = "reply"
  /\ UNCHANGED <<task, latest, suspended, step, spent, review, mode, plan, execution, asking, acked, revived>>

Answer(s) ==
  /\ Free(s)
  /\ task.state = "waiting" /\ review = "none"
  /\ pending' = pending \union {"answer"}
  /\ op' = "reply"
  /\ UNCHANGED <<task, latest, suspended, step, spent, review, mode, plan, execution, asking, acked, revived>>

Reply(s) ==
  /\ Running(s) /\ op = "reply"
  /\ IF task.state = "waiting" THEN Claim(s, "running") /\ op' = "wake"
                               ELSE op' = "none" /\ UNCHANGED task
  /\ UNCHANGED <<pending, latest, suspended, step, spent, review, mode, plan, execution, asking, acked, revived>>

(* The recovery question is withdrawn first, by an event of its own.       *)
Cancel(s) ==
  /\ Free(s)
  /\ task.state \in {"starting", "running", "waiting"}
  /\ review' = "none"
  /\ op' = "cancel"
  /\ UNCHANGED <<task, pending, latest, suspended, step, spent, mode, plan, execution, asking, acked, revived>>

CancelRequest ==
  /\ op = "cancel"
  /\ IF task.state \in {"starting", "running", "waiting"}
     THEN Change("cancelling") /\ op' = "stop"
     ELSE op' = "none" /\ UNCHANGED task
  /\ UNCHANGED <<pending, latest, suspended, step, spent, review, mode, plan, execution, asking, acked, revived>>

CancelStop ==
  /\ op = "stop"
  /\ Interrupt("user") /\ op' = "close"
  /\ UNCHANGED <<task, pending, latest, suspended, spent, review, mode, plan, asking, acked, revived>>

CancelClose ==
  /\ op = "close"
  /\ IF task.state = "cancelling" THEN Change("cancelled") ELSE UNCHANGED task
  /\ op' = "none" /\ acked' = {}
  /\ UNCHANGED <<pending, latest, suspended, step, spent, review, mode, plan, execution, asking, revived>>

(* resolveRecovery, in one transaction: stop, or continue, also later.     *)
DecideStop(s) ==
  /\ Free(s)
  /\ review = "open" /\ task.state = "waiting"
  /\ Change("lost") /\ review' = "stopped" /\ acked' = {}
  /\ UNCHANGED <<pending, latest, suspended, step, spent, mode, plan, execution, asking, op, revived>>

DecideContinue(s) ==
  /\ Free(s)
  /\ \/ review = "open" /\ task.state = "waiting"
     \/ review = "stopped" /\ task.state = "lost"
  /\ Claim(s, "running")
  /\ review' = "none"
  /\ step' = "failed"     \* its tools are excluded from later questions
  /\ pending' = pending \union {"steer"}
  /\ op' = "wake"
  /\ UNCHANGED <<latest, suspended, spent, mode, plan, execution, asking, acked, revived>>

(* The caller's fiber is interrupted between two steps of its call.        *)
Abandon ==
  /\ op # "none"
  /\ op' = "none"
  /\ UNCHANGED <<durable, mode, plan, execution, asking, acked, revived>>

-----------------------------------------------------------------------------
(* The execution: its hooks, and the drain they gate.                      *)

(* started: the log says so, and an old suspension is cleared.             *)
Started ==
  /\ run = "starting"
  /\ run' = "hook" /\ latest' = "started" /\ suspended' = FALSE
  /\ UNCHANGED <<task, pending, step, spent, review, mode, plan, result, must, bell, woken, asking, op, acked, revived>>

(* loop: a doorbell rung while the drain ran begins another in its place.  *)
Loop ==
  /\ result' = "ok"
  /\ run' = IF bell THEN "hook" ELSE "done"
  /\ bell' = FALSE

(* The gate: a task that is not running, or claimed elsewhere, is skipped. *)
Hook(s) ==
  /\ Running(s) /\ run = "hook"
  /\ woken' = FALSE
  /\ IF task.state = "running" /\ task.owner = s
     THEN run' = "drain" /\ UNCHANGED <<result, must, bell>>
     ELSE Loop /\ must' = FALSE
  /\ UNCHANGED <<durable, mode, plan, asking, op, acked, revived>>

Step ==
  /\ run = "drain" /\ (must \/ pending # {})
  /\ run' = "step" /\ step' = "open" /\ must' = FALSE
  /\ pending' = {} /\ acked' = {}
  /\ UNCHANGED <<task, latest, suspended, spent, review, mode, plan, result, bell, woken, asking, op, revived>>

StepEnds(as) ==
  /\ run' = "drain" /\ step' = as /\ spent' = FALSE /\ revived' = 0
  /\ UNCHANGED <<task, pending, latest, suspended, review, mode, plan, result, bell, woken, op, acked>>

FinalAnswer ==
  /\ run = "step" /\ step = "open"
  /\ StepEnds("final") /\ UNCHANGED <<must, asking>>

ToolRuns ==
  /\ run = "step" /\ step = "open"
  /\ step' = "tool"
  /\ UNCHANGED <<task, pending, latest, suspended, spent, review, mode, plan, execution, asking, op, acked, revived>>

ToolEnds ==
  /\ run = "step" /\ step = "tool"
  /\ StepEnds("ended") /\ must' = TRUE /\ UNCHANGED asking

(* subagent_report asks the parent, and will interrupt the drain it is in. *)
Ask ==
  /\ run = "step" /\ step = "tool" /\ op = "none" /\ ~asking
  /\ task.state = "running" /\ task.revision < MaxRevision
  /\ Change("waiting") /\ asking' = TRUE
  /\ UNCHANGED <<pending, latest, suspended, step, spent, review, mode, plan, execution, op, acked, revived>>

AskInterrupt ==
  /\ asking /\ asking' = FALSE
  /\ Interrupt("user")
  /\ UNCHANGED <<task, pending, latest, suspended, spent, review, mode, plan, op, acked, revived>>

StepFails ==
  /\ run = "step" /\ step = "open"
  /\ run' = "done" /\ result' = "failed" /\ step' = "failed" /\ must' = FALSE
  /\ UNCHANGED <<task, pending, latest, suspended, spent, review, mode, plan, bell, woken, asking, op, acked, revived>>

DrainEnds ==
  /\ run = "drain" /\ ~must /\ pending = {}
  /\ Loop
  /\ UNCHANGED <<durable, mode, plan, must, woken, asking, op, acked, revived>>

(* settled: first the log; an interruption keeps the suspension.           *)
Settle ==
  /\ run = "done"
  /\ run' = "settling"
  /\ latest' = CASE result = "ok" -> "succeeded" [] OTHER -> result
  /\ suspended' = (suspended /\ result \in {"user", "shutdown"})
  /\ UNCHANGED <<task, pending, step, spent, review, mode, plan, result, must, bell, woken, asking, op, acked, revived>>

(* A mutant: a completion that does not ask whether it was woken.          *)
SettleDeaf ==
  /\ run = "settling"
  /\ run' = "leaving"
  /\ IF task.state = "running" /\ result \in {"ok", "failed"}
     THEN Change(IF result = "failed" THEN "failed" ELSE "completed") /\ acked' = {}
     ELSE UNCHANGED <<task, acked>>
  /\ UNCHANGED <<pending, latest, suspended, step, spent, review, mode, plan, result, must, bell, woken, asking, op, revived>>

(* settleTask: a completion defers to a wake rung since the last drain.    *)
SettleTask ==
  /\ run = "settling"
  /\ run' = "leaving"
  /\ IF task.state = "running" /\ (result = "failed" \/ (result = "ok" /\ ~woken))
     THEN Change(IF result = "failed" THEN "failed" ELSE "completed") /\ acked' = {}
     ELSE UNCHANGED <<task, acked>>
  /\ UNCHANGED <<pending, latest, suspended, step, spent, review, mode, plan, result, must, bell, woken, asking, op, revived>>

Leave ==
  /\ run = "leaving"
  /\ run' = IF bell /\ ~Closed THEN "starting" ELSE "idle"
  /\ bell' = FALSE
  /\ UNCHANGED <<durable, mode, plan, result, must, woken, asking, op, acked, revived>>

-----------------------------------------------------------------------------
(* A server's life.                                                        *)

Volatile == run' = "idle" /\ result' = "ok" /\ must' = FALSE /\ bell' = FALSE
            /\ woken' = FALSE /\ asking' = FALSE /\ op' = "none" /\ acked' = {}

Begin(s) ==
  /\ mode[s] = "off"
  /\ s \in Managed => \A m \in Managed : ~Alive(m)
  /\ Overlap \/ \A o \in Servers : mode[o] \notin Booting
  /\ mode' = [mode EXCEPT ![s] = IF s \in Managed THEN "reconcile" ELSE "read"]
  /\ UNCHANGED <<durable, plan, execution, asking, op, acked, revived>>

(* Executions a dead server left open are closed as interrupted.           *)
Reconcile(s) ==
  /\ mode[s] = "reconcile"
  /\ mode' = [mode EXCEPT ![s] = "read"]
  /\ IF latest = "started" /\ ~Alive(task.owner)
     THEN /\ latest' = "interrupted"
          /\ step' = CASE step = "open" -> "failed" [] step = "tool" -> "unknown" [] OTHER -> step
     ELSE UNCHANGED <<latest, step>>
  /\ UNCHANGED <<task, pending, suspended, spent, review, plan, execution, asking, op, acked, revived>>

Interrupted == latest = "interrupted" \/ (latest = "shutdown" /\ suspended)

(* A mutant: a resume that brought no step is not remembered.              *)
VerdictForgetful ==
  CASE task.state = "waiting" -> "leave"
    [] task.state = "cancelling" \/ (task.state = "starting" /\ pending = {}) -> "lost"
    [] task.state = "starting" -> "started"
    [] ~Interrupted /\ pending = {} -> "lost"
    [] Interrupted /\ step = "unknown" -> "ask"
    [] Interrupted /\ pending = {} /\ step = "final" -> "completed"
    [] OTHER -> "resumed"

(* recoverTask decides from the row, the inbox and the log ...             *)
Verdict ==
  CASE task.state = "waiting" -> "leave"
    [] task.state = "cancelling" -> "lost"
    [] task.state = "starting" -> IF pending = {} THEN "lost" ELSE "started"
    [] OTHER ->
       CASE ~Interrupted /\ pending = {} -> "lost"
         [] Interrupted /\ step = "unknown" -> "ask"
         [] spent -> "lost"
         [] Interrupted /\ pending = {} /\ step = "final" -> "completed"
         [] OTHER -> "resumed"

Read(s) ==
  /\ mode[s] = "read"
  /\ IF task.state \in Stale /\ ~Alive(task.owner)
     THEN LET verdict == IF s \in Managed THEN Verdict
                         ELSE IF task.state = "waiting" THEN "leave" ELSE "lost"
          IN plan' = [plan EXCEPT ![s] = [verdict |-> verdict, seen |-> task]]
     ELSE UNCHANGED plan
  /\ mode' = [mode EXCEPT ![s] = "commit"]
  /\ UNCHANGED <<durable, execution, asking, op, acked, revived>>

(* ... and commits in one transaction, when the row is unchanged.          *)
Unchanged(s) == task = plan[s].seen

Recover(s) ==
  LET verdict == plan[s].verdict IN
  /\ mode[s] = "commit" /\ s \in Managed
  /\ IF verdict \in {"none", "leave"} \/ ~Unchanged(s)
     THEN /\ mode' = [mode EXCEPT ![s] = "up"] /\ Forget(s)
          /\ UNCHANGED <<task, spent, review, revived>>
     ELSE /\ \/ /\ verdict \in {"lost", "completed"} /\ Change(verdict)
                /\ UNCHANGED <<spent, review, revived>>
             \/ /\ verdict = "ask" /\ Change("waiting") /\ review' = "open"
                /\ UNCHANGED <<spent, revived>>
             \/ /\ verdict = "started" /\ Claim(s, "running")
                /\ UNCHANGED <<spent, review, revived>>
             \/ /\ verdict = "resumed" /\ Claim(s, "running")
                /\ spent' = TRUE /\ revived' = revived + 1 /\ UNCHANGED review
          /\ IF verdict \in {"started", "resumed"}
             THEN mode' = [mode EXCEPT ![s] = "kick"] /\ plan' = [plan EXCEPT ![s].seen = None]
             ELSE mode' = [mode EXCEPT ![s] = "up"] /\ Forget(s)
  /\ UNCHANGED <<pending, latest, suspended, step, execution, asking, op, acked>>

(* Only then is the task woken, or resumed by a drain that owes a step.    *)
Kick(s) ==
  /\ mode[s] = "kick"
  /\ mode' = [mode EXCEPT ![s] = "up"]
  /\ run' = "starting"
  /\ must' = (plan[s].verdict = "resumed")
  /\ woken' = (plan[s].verdict = "started")
  /\ Forget(s)
  /\ UNCHANGED <<durable, result, bell, asking, op, acked, revived>>

(* loseStaleTasks publishes without asking again.  A row that moved on to  *)
(* a terminal state, or a loss recorded under the same event ID, refuses   *)
(* the event, and the default server does not start.                       *)
Lose(s) ==
  /\ mode[s] = "commit" /\ s \in Default
  /\ IF plan[s].verdict # "lost"
     THEN mode' = [mode EXCEPT ![s] = "up"] /\ UNCHANGED <<task, acked>>
     ELSE IF task.state \in Stale
          THEN mode' = [mode EXCEPT ![s] = "up"] /\ Change("lost") /\ acked' = {}
          ELSE mode' = [mode EXCEPT ![s] = "dead"] /\ UNCHANGED <<task, acked>>
  /\ Forget(s)
  /\ UNCHANGED <<pending, latest, suspended, step, spent, review, execution, asking, op, revived>>

(* Graceful shutdown: suspend what is active, close, interrupt, exit.      *)
Suspend(s) ==
  /\ Up(s)
  /\ mode' = [mode EXCEPT ![s] = "closing"]
  /\ suspended' = (suspended \/ run # "idle")
  /\ UNCHANGED <<task, pending, latest, step, spent, review, plan, execution, asking, op, acked, revived>>

Shutdown(s) ==
  /\ mode[s] = "closing"
  /\ mode' = [mode EXCEPT ![s] = "closed"]
  /\ Interrupt("shutdown")
  /\ UNCHANGED <<task, pending, latest, suspended, spent, review, plan, asking, op, acked, revived>>

Exit(s) ==
  /\ mode[s] = "closed" /\ run = "idle"
  /\ mode' = [mode EXCEPT ![s] = "dead"]
  /\ Volatile
  /\ UNCHANGED <<durable, plan, revived>>

(* A kill, at any moment of a managed server's life; the last one stays.   *)
Crash(s) ==
  /\ s \in Managed /\ Alive(s)
  /\ \E m \in Managed : mode[m] = "off"
  /\ mode' = [mode EXCEPT ![s] = "dead"]
  /\ Volatile /\ Forget(s)
  /\ UNCHANGED <<durable, revived>>

Call(s) ==
  \/ Launch(s) \/ Start(s) \/ Send(s) \/ Answer(s) \/ Reply(s) \/ Cancel(s)
  \/ DecideStop(s) \/ DecideContinue(s)

Boot(s) == Begin(s) \/ Reconcile(s) \/ Read(s) \/ Recover(s) \/ Kick(s) \/ Lose(s)

Next ==
  \/ \E s \in Servers :
       \/ Call(s) \/ Boot(s) \/ Hook(s)
       \/ Suspend(s) \/ Shutdown(s) \/ Exit(s) \/ Crash(s)
  \/ LaunchAdmit \/ SendRing \/ SendLook \/ Wake \/ CancelRequest \/ CancelStop \/ CancelClose \/ Abandon
  \/ Started \/ Step \/ FinalAnswer \/ ToolRuns \/ ToolEnds \/ Ask \/ AskInterrupt
  \/ StepFails \/ DrainEnds \/ Settle \/ SettleTask \/ Leave

Spec == Init /\ [][Next]_vars

-----------------------------------------------------------------------------
Rows == [state : {"none"} \union Stale \union Terminal, owner : Managed \union {None}, revision : Nat]
Verdicts == {"none", "leave", "lost", "started", "ask", "completed", "resumed"}

DurableOK ==
  /\ task \in Rows /\ pending \subseteq Inputs /\ acked \subseteq pending
  /\ latest \in {"none", "started", "succeeded", "failed", "user", "shutdown", "interrupted"}
  /\ step \in {"none", "open", "tool", "ended", "final", "failed", "unknown"}
  /\ review \in {"none", "open", "stopped"}
  /\ suspended \in BOOLEAN /\ spent \in BOOLEAN

ServersOK ==
  /\ mode \in [Servers -> {"off", "up", "closing", "closed", "dead"} \union Booting]
  /\ plan \in [Servers -> [verdict : Verdicts, seen : Rows \union {None}]]
  /\ op \in {"none", "admit", "start", "wake", "ring", "look", "reply", "cancel", "stop", "close"}
  /\ asking \in BOOLEAN /\ revived \in Nat

ExecutionOK ==
  /\ run \in {"idle", "starting", "hook", "drain", "step", "done", "settling", "leaving"}
  /\ result \in {"ok", "failed", "user", "shutdown"}
  /\ must \in BOOLEAN /\ bell \in BOOLEAN /\ woken \in BOOLEAN

TypeOK == DurableOK /\ ServersOK /\ ExecutionOK

(* Once a managed server is ready, no work is left to a server that died:  *)
(* whatever the death interrupted (a launch, a step, a shutdown, an        *)
(* earlier recovery) the startup settled it, asked, or took it over.       *)
NoOrphan ==
  \A s \in Managed : Up(s) /\ task.state \in {"starting", "running"} => Alive(task.owner)

(* However often servers die, the task is resumed at most once without a   *)
(* step ending in between: a step that kills the server is not looped.     *)
NoCrashLoop == revived <= 1

(* While the effects of an interrupted tool await the user's decision, and *)
(* after the user stopped the task, nothing runs over them: no answer,     *)
(* message, restart or leftover drain starts a step.                       *)
NothingUndecided ==
  /\ review = "open" => task.state = "waiting" /\ step = "unknown"
  /\ review = "stopped" => task.state = "lost" /\ step = "unknown"

(* The type invariant, NoOrphan and NothingUndecided, which a run checks   *)
(* together.                                                               *)
TaskInv == TypeOK /\ NoOrphan /\ NothingUndecided

(* A completion overlooks no input whose call returned in this run of the  *)
(* task: the wake, the drain and the settle may come in any order.  (One   *)
(* left behind by an earlier run it may overlook: see the README.)         *)
CompletionHears ==
  [][task.state # "completed" /\ task'.state = "completed" => acked = {}]_vars

(* A message whose send returned does not stay behind in a completed task. *)
(* The code does not keep this: see the README.                            *)
MessageHeard ==
  task.state = "completed" => "message" \notin acked

(* A startup pass settles the task it read, or nothing: what another pass  *)
(* has claimed or settled since its read stands.  The code does not keep   *)
(* this when two startup passes overlap (Overlap): see the README.         *)
StartupRespectsClaims ==
  [][\A s \in Servers :
       mode[s] = "commit" /\ mode'[s] # "commit" /\ task' # task => task = plan[s].seen]_vars
=============================================================================
