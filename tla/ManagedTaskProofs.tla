------------------------- MODULE ManagedTaskProofs -------------------------
(* Proofs about ManagedTask, for any number of lives of the servers and any  *)
(* number of requests: a task whose server died is settled, asked about or   *)
(* taken over before the next server is up; it is resumed once without a     *)
(* step; nothing runs over an undecided tool call; and a completion has heard*)
(* every input whose bell was rung for it.  The invariant has three themes:  *)
(* what a startup pass has read is so still when it commits, for nobody else *)
(* is there to change it; whoever holds a task that runs is the server that  *)
(* is up; and what a drain leaves behind has a bell of its own.              *)
EXTENDS ManagedTask, TLAPS

-----------------------------------------------------------------------------
(* The inductive invariant.                                                  *)

\* One life of the service at a time.
Single == \A s, t \in Managed : Alive(s) /\ Alive(t) => s = t

\* Unless they may overlap, one startup pass at a time.
Apart == ~Overlap => \A s, t \in Servers : mode[s] \in Booting /\ mode[t] \in Booting => s = t

\* A default server has no execution and recovers nothing; a plan is what a startup pass
\* has between its reading and its commit.
Placed ==
  /\ \A d \in Default : /\ mode[d] \notin {"reconcile", "kick", "closing", "closed"}
                        /\ plan[d].verdict \in {"none", "leave", "lost"}
  /\ \A s \in Servers : plan[s].verdict # "none" => mode[s] \in {"commit", "kick"}

\* Fibers are the service's: there are none, and no call has returned, until it is up.
Hosted ==
  (\A s \in Managed : ~Running(s))
    => run = "idle" /\ op = "none" /\ ~asking /\ ~bell /\ acked = {}

\* A server claims no task before it commits its recovery, and then has the one that runs.
Owned ==
  \A s \in Managed :
    /\ mode[s] \in {"off", "reconcile", "read", "commit"} => task.owner # s
    /\ mode[s] \in {"kick", "up", "closing", "closed"} /\ task.state \in {"starting", "running"}
         => task.owner = s

\* What the service's startup pass read is so still when it commits, or has been lost.
Planned ==
  \A s \in Managed :
    /\ mode[s] = "commit" /\ plan[s].verdict \in {"none", "leave"}
         => task.state \notin {"starting", "running"}
    /\ mode[s] = "commit" /\ plan[s].verdict \notin {"none", "leave"}
         => /\ plan[s].seen.state \in {"starting", "running", "cancelling"}
            /\ task = plan[s].seen \/ task.state \notin {"starting", "running"}
    /\ mode[s] = "commit" /\ plan[s].verdict \in {"started", "resumed"}
         => plan[s].seen.state \in {"starting", "running"}
    /\ mode[s] = "commit" /\ plan[s].verdict = "resumed" => ~spent
    /\ mode[s] = "commit" /\ plan[s].verdict = "ask" => step = "unknown"
    /\ mode[s] = "kick" => plan[s].verdict \in {"started", "resumed"}

\* A recovery is counted while it is remembered as spent.
Counted == /\ ~spent => revived = 0
           /\ revived <= 1

\* Nothing runs, and nobody calls, over a question or a stop.
Undecided ==
  /\ review = "stopped" => task.state = "lost" /\ op = "none" /\ acked = {}
  /\ ~Overlap =>
       /\ review = "open" => task.state = "waiting"
       /\ review # "none" => step = "unknown" /\ run = "idle" /\ op = "none" /\ ~asking
       /\ \A s \in Managed : mode[s] = "kick" => review = "none"
       /\ \A d \in Default : mode[d] = "commit" /\ plan[d].verdict = "lost" => review # "open"

\* Whoever rings has not seen the task ask; what a drain that was not interrupted has left
\* behind came later, with a bell of its own.
Heard ==
  /\ op \in {"wake", "ring", "look"} => task.state # "waiting"
  /\ op = "look" /\ task.state = "running" /\ run \in {"done", "settling"} /\ result = "ok" /\ ~woken
       => pending = {}
  /\ ~Overlap =>
       /\ task.state \in {"running", "waiting"} /\ run \in {"done", "settling"} /\ result = "ok" /\ ~woken
            => acked = {}
       /\ task.state = "waiting" =>
            /\ run \in {"starting", "hook"} => acked = {}
            /\ run \in {"done", "settling", "leaving"} /\ bell => acked = {}
            /\ run = "step" /\ step = "open" => acked = {}

IInv == /\ DurableOK /\ ServersOK /\ ExecutionOK /\ Single /\ Apart /\ Placed /\ Hosted
        /\ Owned /\ Planned /\ Counted /\ Undecided /\ Heard

\* The vocabulary of the model, expanded everywhere; the parts of the invariant and the
\* actions are cited where they are used.
USE Assumptions
    DEF durable, execution, vars, Servers, Terminal, Stale, Inputs, Alive, Booting, NoPlan, Forget,
        Up, Running, Startable, Closed, Free, Done, Volatile, StepEnds, Verdicts

-----------------------------------------------------------------------------
(* The row, and the verdict.                                                 *)

\* A transition of the row (projectTask).
LEMMA ChangeSets ==
  ASSUME task \in Rows, NEW state \in Stale \union Terminal, Change(state)
  PROVE  /\ task' \in Rows
         /\ task'.state = state /\ task'.owner = task.owner /\ task'.revision = task.revision + 1
<1>1. task' = [state |-> state, owner |-> task.owner, revision |-> task.revision + 1]
  BY DEF Rows, Change
<1> QED BY <1>1 DEF Rows

LEMMA ClaimSets ==
  ASSUME task \in Rows, NEW s \in Managed, NEW state \in Stale \union Terminal, Claim(s, state)
  PROVE  /\ task' \in Rows
         /\ task'.state = state /\ task'.owner = s /\ task'.revision = task.revision + 1
  BY DEF Rows, Claim

\* The state of the row.
LEMMA Typed ==
  ASSUME task \in Rows
  PROVE  /\ task.state \in {"none"} \union Stale \union Terminal
         /\ task.owner \in Managed \union {None} /\ task.revision \in Nat
  BY DEF Rows

\* What recoverTask decides, and from what.
LEMMA VerdictSays ==
  ASSUME task.state \in Stale
  PROVE  /\ Verdict \in Verdicts \ {"none"}
         /\ Verdict = "leave" <=> task.state = "waiting"
         /\ Verdict \in {"started", "resumed"} => task.state \in {"starting", "running"}
         /\ Verdict = "resumed" => ~spent
         /\ Verdict = "ask" => step = "unknown"
  BY DEF Verdict

-----------------------------------------------------------------------------
(* Calls keep the invariant.                                                 *)

\* A launch names the server that is up, on a task nobody had or its own.
LEMMA LaunchKeeps ==
  ASSUME IInv, NEW s \in Servers, Launch(s)
  PROVE  IInv'
<1>1. DurableOK'
  <2>1. task' \in Rows
    <3>1. CASE task.state = "none"
      <4>1. task' = [state |-> "starting", owner |-> s, revision |-> task.revision]
        BY <3>1 DEF IInv, DurableOK, Rows, Launch
      <4> QED BY <4>1, Typed DEF IInv, DurableOK, Rows, Launch
    <3>2. CASE task.state # "none"
      BY <3>2 DEF IInv, DurableOK, Launch
    <3> QED BY <3>1, <3>2
  <2> QED BY <2>1 DEF IInv, DurableOK, Launch
<1>2. ServersOK'
  BY DEF IInv, ServersOK, Launch
<1>3. Hosted'
  BY DEF IInv, Hosted, Launch
<1>4. Owned'
  BY DEF IInv, DurableOK, ServersOK, Single, Owned, Launch
<1>5. Planned'
  BY DEF IInv, DurableOK, ServersOK, Single, Planned, Launch
<1>6. Undecided'
  BY DEF IInv, DurableOK, ServersOK, ExecutionOK, Undecided, Launch
<1>7. Heard'
  BY DEF IInv, Heard, Launch
<1>8. ExecutionOK' /\ Single' /\ Apart' /\ Placed' /\ Counted'
  BY DEF IInv, ExecutionOK, Single, Apart, Placed, Counted, Launch
<1> QED BY <1>1, <1>2, <1>3, <1>4, <1>5, <1>6, <1>7, <1>8 DEF IInv

\* A start claims the task for the server that is up; with it a new run of the task
\* begins, of which no call has returned.
LEMMA StartKeeps ==
  ASSUME IInv, NEW s \in Servers, Start(s)
  PROVE  IInv'
<1>1. DurableOK'
  BY ClaimSets DEF IInv, DurableOK, Start
<1>2. ServersOK'
  BY DEF IInv, ServersOK, Start
<1>3. Hosted'
  BY DEF IInv, Hosted, Start
<1>4. Owned'
  BY ClaimSets DEF IInv, DurableOK, ServersOK, Single, Owned, Start
<1>5. Planned'
  BY DEF IInv, DurableOK, ServersOK, Single, Planned, Start
<1>6. Undecided'
  BY DEF IInv, Undecided, Start
<1>7. Heard'
  <2>1. /\ op' \in {"wake", "ring", "look"} => task'.state # "waiting"
        /\ (op' = "look" /\ task'.state = "running" /\ run' \in {"done", "settling"} /\ result' = "ok" /\ ~woken')
             => pending' = {}
    BY ClaimSets DEF IInv, DurableOK, Heard, Start
  <2>2. ASSUME ~Overlap, task'.state \in {"running", "waiting"}, run' \in {"done", "settling"}, result' = "ok", ~woken'
        PROVE  acked' = {}
    BY <2>2, ClaimSets DEF IInv, DurableOK, Heard, Start
  <2>3. ASSUME ~Overlap, task'.state = "waiting"
        PROVE  /\ run' \in {"starting", "hook"} => acked' = {}
               /\ (run' \in {"done", "settling", "leaving"} /\ bell') => acked' = {}
               /\ (run' = "step" /\ step' = "open") => acked' = {}
    BY <2>3, ClaimSets DEF IInv, DurableOK, Heard, Start
  <2> QED BY <2>1, <2>2, <2>3 DEF Heard
<1>8. ExecutionOK' /\ Single' /\ Apart' /\ Placed' /\ Counted'
  BY DEF IInv, ExecutionOK, Single, Apart, Placed, Counted, Start
<1> QED BY <1>1, <1>2, <1>3, <1>4, <1>5, <1>6, <1>7, <1>8 DEF IInv

\* A message waits for its bell, or for the restart of a task that has ended; neither a
\* waiting nor a stopped task takes one.
LEMMA SendKeeps ==
  ASSUME IInv, NEW s \in Servers, Send(s)
  PROVE  IInv'
<1>1. DurableOK'
  BY DEF IInv, DurableOK, Send
<1>2. ServersOK'
  BY DEF IInv, ServersOK, Send
<1>3. Hosted'
  BY DEF IInv, Hosted, Send
<1>4. Undecided'
  BY DEF IInv, DurableOK, ServersOK, ExecutionOK, Undecided, Send
<1>5. Heard'
  BY DEF IInv, Heard, Send
<1>6. ExecutionOK' /\ Single' /\ Apart' /\ Placed' /\ Owned' /\ Planned' /\ Counted'
  BY DEF IInv, ExecutionOK, Single, Apart, Placed, Owned, Planned, Counted, Send
<1> QED BY <1>1, <1>2, <1>3, <1>4, <1>5, <1>6 DEF IInv

\* An answer is taken while the task waits, and not for a recovery question.
LEMMA AnswerKeeps ==
  ASSUME IInv, NEW s \in Servers, Answer(s)
  PROVE  IInv'
<1>1. DurableOK'
  BY DEF IInv, DurableOK, Answer
<1>2. ServersOK'
  BY DEF IInv, ServersOK, Answer
<1>3. Hosted'
  BY DEF IInv, Hosted, Answer
<1>4. Undecided'
  BY DEF IInv, Undecided, Answer
<1>5. Heard'
  BY DEF IInv, Heard, Answer
<1>6. ExecutionOK' /\ Single' /\ Apart' /\ Placed' /\ Owned' /\ Planned' /\ Counted'
  BY DEF IInv, ExecutionOK, Single, Apart, Placed, Owned, Planned, Counted, Answer
<1> QED BY <1>1, <1>2, <1>3, <1>4, <1>5, <1>6 DEF IInv

\* The answer makes the task run again: what its drain has left behind came with an
\* interruption.
LEMMA ReplyKeeps ==
  ASSUME IInv, NEW s \in Servers, Reply(s)
  PROVE  IInv'
<1>1. DurableOK'
  BY ClaimSets DEF IInv, DurableOK, Reply
<1>2. ServersOK'
  BY DEF IInv, ServersOK, Reply
<1>3. Hosted'
  BY DEF IInv, Hosted, Reply
<1>4. Owned'
  BY ClaimSets DEF IInv, DurableOK, ServersOK, Single, Owned, Reply
<1>5. Planned'
  BY DEF IInv, DurableOK, ServersOK, Single, Planned, Reply
<1>6. Undecided'
  BY DEF IInv, Undecided, Reply
<1>7. Heard'
  BY ClaimSets DEF IInv, DurableOK, Heard, Reply
<1>8. ExecutionOK' /\ Single' /\ Apart' /\ Placed' /\ Counted'
  BY DEF IInv, ExecutionOK, Single, Apart, Placed, Counted, Reply
<1> QED BY <1>1, <1>2, <1>3, <1>4, <1>5, <1>6, <1>7, <1>8 DEF IInv

\* A cancel takes the recovery question away before it changes the task's state.
LEMMA CancelKeeps ==
  ASSUME IInv, NEW s \in Servers, Cancel(s)
  PROVE  IInv'
<1>1. DurableOK' /\ ServersOK'
  BY DEF IInv, DurableOK, ServersOK, Cancel
<1>2. Hosted'
  BY DEF IInv, Hosted, Cancel
<1>3. Undecided'
  BY DEF IInv, Undecided, Cancel
<1>4. Heard'
  BY DEF IInv, Heard, Cancel
<1>5. ExecutionOK' /\ Single' /\ Apart' /\ Placed' /\ Owned' /\ Planned' /\ Counted'
  BY DEF IInv, ExecutionOK, Single, Apart, Placed, Owned, Planned, Counted, Cancel
<1> QED BY <1>1, <1>2, <1>3, <1>4, <1>5 DEF IInv

\* Then it does, unless the task has ended meanwhile.
LEMMA CancelRequestKeeps ==
  ASSUME IInv, CancelRequest
  PROVE  IInv'
<1>1. DurableOK'
  BY ChangeSets DEF IInv, DurableOK, CancelRequest
<1>2. ServersOK'
  BY DEF IInv, ServersOK, CancelRequest
<1>3. Hosted'
  BY DEF IInv, Hosted, CancelRequest
<1>4. Owned'
  BY ChangeSets DEF IInv, DurableOK, ServersOK, Owned, CancelRequest
<1>5. Planned'
  BY ChangeSets DEF IInv, DurableOK, ServersOK, Single, Hosted, Planned, CancelRequest
<1>6. Undecided'
  BY DEF IInv, Undecided, CancelRequest
<1>7. Heard'
  BY ChangeSets DEF IInv, DurableOK, Heard, CancelRequest
<1>8. ExecutionOK' /\ Single' /\ Apart' /\ Placed' /\ Counted'
  BY DEF IInv, ExecutionOK, Single, Apart, Placed, Counted, CancelRequest
<1> QED BY <1>1, <1>2, <1>3, <1>4, <1>5, <1>6, <1>7, <1>8 DEF IInv

\* A stop of the user settles the question: the task is lost, and stays so.
LEMMA DecideStopKeeps ==
  ASSUME IInv, NEW s \in Servers, DecideStop(s)
  PROVE  IInv'
<1>1. DurableOK'
  BY ChangeSets DEF IInv, DurableOK, DecideStop
<1>2. Hosted'
  BY DEF IInv, Hosted, DecideStop
<1>3. Owned'
  BY ChangeSets DEF IInv, DurableOK, ServersOK, Owned, DecideStop
<1>4. Planned'
  BY DEF IInv, DurableOK, ServersOK, Single, Planned, DecideStop
<1>5. Undecided'
  BY ChangeSets DEF IInv, DurableOK, ServersOK, ExecutionOK, Undecided, DecideStop
<1>6. Heard'
  BY DEF IInv, Heard, DecideStop
<1>7. ServersOK' /\ ExecutionOK' /\ Single' /\ Apart' /\ Placed' /\ Counted'
  BY DEF IInv, ServersOK, ExecutionOK, Single, Apart, Placed, Counted, DecideStop
<1> QED BY <1>1, <1>2, <1>3, <1>4, <1>5, <1>6, <1>7 DEF IInv

\* The user has the task continued, over which nothing ran meanwhile.
LEMMA DecideContinueKeeps ==
  ASSUME IInv, NEW s \in Servers, DecideContinue(s)
  PROVE  IInv'
<1>1. DurableOK'
  BY ClaimSets DEF IInv, DurableOK, DecideContinue
<1>2. ServersOK'
  BY DEF IInv, ServersOK, DecideContinue
<1>3. Hosted'
  BY DEF IInv, Hosted, DecideContinue
<1>4. Owned'
  BY ClaimSets DEF IInv, DurableOK, ServersOK, Single, Owned, DecideContinue
<1>5. Planned'
  BY DEF IInv, DurableOK, ServersOK, Single, Planned, DecideContinue
<1>6. Undecided'
  BY DEF IInv, Undecided, DecideContinue
<1>7. Heard'
  <2>1. /\ op' \in {"wake", "ring", "look"} => task'.state # "waiting"
        /\ (op' = "look" /\ task'.state = "running" /\ run' \in {"done", "settling"} /\ result' = "ok" /\ ~woken')
             => pending' = {}
    BY ClaimSets DEF IInv, DurableOK, Undecided, Heard, DecideContinue
  <2>2. ASSUME ~Overlap, task'.state \in {"running", "waiting"}, run' \in {"done", "settling"}, result' = "ok", ~woken'
        PROVE  acked' = {}
    BY <2>2, ClaimSets DEF IInv, DurableOK, Undecided, Heard, DecideContinue
  <2>3. ASSUME ~Overlap, task'.state = "waiting"
        PROVE  /\ run' \in {"starting", "hook"} => acked' = {}
               /\ (run' \in {"done", "settling", "leaving"} /\ bell') => acked' = {}
               /\ (run' = "step" /\ step' = "open") => acked' = {}
    BY <2>3, ClaimSets DEF IInv, DurableOK, Undecided, Heard, DecideContinue
  <2> QED BY <2>1, <2>2, <2>3 DEF Heard
<1>8. ExecutionOK' /\ Single' /\ Apart' /\ Placed' /\ Counted'
  BY DEF IInv, ExecutionOK, Single, Apart, Placed, Counted, DecideContinue
<1> QED BY <1>1, <1>2, <1>3, <1>4, <1>5, <1>6, <1>7, <1>8 DEF IInv

-----------------------------------------------------------------------------
(* Startup passes keep it.                                                   *)

\* A startup begins: of the service only when none is alive, and alone unless passes may
\* overlap.
LEMMA BeginKeeps ==
  ASSUME IInv, NEW s \in Servers, Begin(s)
  PROVE  IInv'
<1>1. ServersOK'
  BY DEF IInv, ServersOK, Begin
<1>2. Single'
  BY DEF IInv, Single, Begin
<1>3. Apart'
  BY DEF IInv, Apart, Begin
<1>4. Placed'
  BY DEF IInv, Placed, Begin
<1>5. Hosted'
  BY DEF IInv, Hosted, Begin
<1>6. Owned'
  BY DEF IInv, Owned, Begin
<1>7. Planned'
  BY DEF IInv, Planned, Begin
<1>8. Undecided'
  BY DEF IInv, Undecided, Begin
<1>9. DurableOK' /\ ExecutionOK' /\ Counted' /\ Heard'
  BY DEF IInv, DurableOK, ExecutionOK, Counted, Heard, Begin
<1> QED BY <1>1, <1>2, <1>3, <1>4, <1>5, <1>6, <1>7, <1>8, <1>9 DEF IInv

\* An open execution is closed; what a decision of the user awaits has been closed
\* before.
LEMMA ReconcileKeeps ==
  ASSUME IInv, NEW s \in Servers, Reconcile(s)
  PROVE  IInv'
<1>1. DurableOK'
  BY DEF IInv, DurableOK, Reconcile
<1>2. ServersOK'
  BY DEF IInv, ServersOK, Reconcile
<1>3. Single'
  BY DEF IInv, Single, Reconcile
<1>4. Apart'
  BY DEF IInv, Apart, Reconcile
<1>5. Placed'
  BY DEF IInv, Placed, Reconcile
<1>6. Hosted'
  BY DEF IInv, Hosted, Reconcile
<1>7. Owned'
  BY DEF IInv, Owned, Reconcile
<1>8. Planned'
  BY DEF IInv, Planned, Reconcile
<1>9. Undecided'
  BY DEF IInv, Undecided, Reconcile
<1>10. Heard'
  BY DEF IInv, Heard, Reconcile
<1>11. ExecutionOK' /\ Counted'
  BY DEF IInv, ExecutionOK, Counted, Reconcile
<1> QED BY <1>1, <1>2, <1>3, <1>4, <1>5, <1>6, <1>7, <1>8, <1>9, <1>10, <1>11 DEF IInv

\* A startup pass reads the row: what it decides follows from what is there, and the row
\* of a managed service names a server that is not alive.
LEMMA ReadKeeps ==
  ASSUME IInv, NEW s \in Servers, Read(s)
  PROVE  IInv'
<1>1. ServersOK'
  BY DEF IInv, DurableOK, ServersOK, Read, Verdict
<1>2. Single'
  BY DEF IInv, Single, Read
<1>3. Apart'
  BY DEF IInv, Apart, Read
<1>4. Placed'
  BY DEF IInv, ServersOK, Placed, Read, Verdict
<1>5. Hosted'
  BY DEF IInv, Hosted, Read
<1>6. Owned'
  BY DEF IInv, Owned, Read
<1>7. Planned'
  <2>1. \A t \in Managed : t # s => mode'[t] = mode[t] /\ plan'[t] = plan[t]
    BY DEF IInv, ServersOK, Read
  <2>2. ASSUME s \in Managed
        PROVE  /\ mode'[s] = "commit" /\ plan[s].verdict = "none" /\ task.owner # s
               /\ \A t \in Managed : Alive(t) => t = s
    BY <2>2 DEF IInv, ServersOK, Single, Placed, Owned, Read
  <2>3. ASSUME s \in Managed, task.state \in Stale
        PROVE  plan'[s] = [verdict |-> Verdict, seen |-> task]
    BY <2>2, <2>3, Typed DEF IInv, DurableOK, ServersOK, Read
  <2>4. ASSUME s \in Managed, task.state \notin Stale
        PROVE  plan'[s] = plan[s]
    BY <2>4 DEF IInv, ServersOK, Read
  <2>5. UNCHANGED <<task, spent, step>>
    BY DEF Read
  <2>6. CASE s \in Managed /\ task.state \in Stale
    <3>1. /\ plan'[s].verdict = Verdict /\ plan'[s].seen = task /\ mode'[s] = "commit"
      BY <2>2, <2>3, <2>6
    <3> QED BY <3>1, <2>1, <2>5, <2>6, VerdictSays DEF IInv, Planned
  <2>7. CASE s \in Managed /\ task.state \notin Stale
    BY <2>1, <2>2, <2>4, <2>5, <2>7 DEF IInv, Planned
  <2>8. CASE s \notin Managed
    BY <2>1, <2>5, <2>8 DEF IInv, Planned
  <2> QED BY <2>6, <2>7, <2>8
<1>8. Undecided'
  BY DEF IInv, DurableOK, ServersOK, ExecutionOK, Single, Placed, Undecided, Read, Verdict
<1>9. DurableOK' /\ ExecutionOK' /\ Counted' /\ Heard'
  BY DEF IInv, DurableOK, ExecutionOK, Counted, Heard, Read, Verdict
<1> QED BY <1>1, <1>2, <1>3, <1>4, <1>5, <1>6, <1>7, <1>8, <1>9 DEF IInv

\* The transaction finds the row as it was read, and settles, asks or claims; a resume is
\* counted when it is remembered.
LEMMA RecoverKeeps ==
  ASSUME IInv, NEW s \in Servers, Recover(s)
  PROVE  IInv'
<1>1. DurableOK'
  BY ChangeSets, ClaimSets DEF IInv, DurableOK, Recover
<1>2. ServersOK'
  BY DEF IInv, ServersOK, Recover
<1>3. Single'
  BY DEF IInv, ServersOK, Single, Recover, Unchanged
<1>4. Apart'
  BY DEF IInv, ServersOK, Apart, Recover, Unchanged
<1>5. Placed'
  BY DEF IInv, ServersOK, Placed, Recover, Unchanged
<1>6. Hosted'
  BY DEF IInv, ServersOK, Hosted, Recover, Unchanged
<1>7. Owned'
  BY ChangeSets, ClaimSets DEF IInv, DurableOK, ServersOK, Single, Owned, Planned, Recover, Unchanged
<1>8. Planned'
  BY DEF IInv, DurableOK, ServersOK, Single, Planned, Recover, Unchanged
<1>9. Counted'
  BY DEF IInv, ServersOK, Planned, Counted, Recover, Unchanged
<1>10. Undecided'
  BY ChangeSets, ClaimSets DEF IInv, DurableOK, ServersOK, ExecutionOK, Single, Apart, Placed, Hosted, Planned,
         Undecided, Recover, Unchanged
<1>11. Heard'
  BY DEF IInv, DurableOK, Single, Hosted, Heard, Recover, Unchanged
<1>12. ExecutionOK'
  BY DEF IInv, ExecutionOK, Recover, Unchanged
<1> QED BY <1>1, <1>2, <1>3, <1>4, <1>5, <1>6, <1>7, <1>8, <1>9, <1>10, <1>11, <1>12 DEF
           IInv

\* What was claimed is run: it is not under a question, which would have been asked
\* instead.
LEMMA KickKeeps ==
  ASSUME IInv, NEW s \in Servers, Kick(s)
  PROVE  IInv'
<1>1. ServersOK'
  BY DEF IInv, ServersOK, Kick
<1>2. ExecutionOK'
  BY DEF IInv, ExecutionOK, Kick
<1>3. Single'
  BY DEF IInv, Single, Kick
<1>4. Apart'
  BY DEF IInv, Apart, Kick
<1>5. Placed'
  BY DEF IInv, ServersOK, Placed, Kick
<1>6. Hosted'
  BY DEF IInv, ServersOK, Placed, Hosted, Kick
<1>7. Owned'
  BY DEF IInv, Owned, Kick
<1>8. Planned'
  BY DEF IInv, DurableOK, ServersOK, Single, Planned, Kick
<1>9. Undecided'
  BY DEF IInv, DurableOK, ServersOK, ExecutionOK, Placed, Undecided, Kick
<1>10. Heard'
  BY DEF IInv, DurableOK, Single, Placed, Hosted, Owned, Planned, Heard, Kick
<1>11. DurableOK' /\ Counted'
  BY DEF IInv, DurableOK, Counted, Kick
<1> QED BY <1>1, <1>2, <1>3, <1>4, <1>5, <1>6, <1>7, <1>8, <1>9, <1>10, <1>11 DEF IInv

\* A default server loses a stale task, or does not start; with no overlap, none that is
\* asked about.
LEMMA LoseKeeps ==
  ASSUME IInv, NEW s \in Servers, Lose(s)
  PROVE  IInv'
<1>1. DurableOK'
  BY ChangeSets DEF IInv, DurableOK, Lose
<1>2. ServersOK'
  BY DEF IInv, ServersOK, Lose
<1>3. Single'
  BY DEF IInv, ServersOK, Single, Lose
<1>4. Apart'
  BY DEF IInv, ServersOK, Apart, Lose
<1>5. Placed'
  BY DEF IInv, ServersOK, Placed, Lose
<1>6. Hosted'
  BY DEF IInv, ServersOK, Hosted, Lose
<1>7. Owned'
  BY ChangeSets DEF IInv, DurableOK, ServersOK, Owned, Lose
<1>8. Planned'
  BY ChangeSets DEF IInv, DurableOK, ServersOK, Single, Planned, Lose
<1>9. Undecided'
  BY DEF IInv, DurableOK, ServersOK, ExecutionOK, Undecided, Lose
<1>10. Heard'
  BY ChangeSets DEF IInv, DurableOK, Heard, Lose
<1>11. ExecutionOK' /\ Counted'
  BY DEF IInv, ExecutionOK, Counted, Lose
<1> QED BY <1>1, <1>2, <1>3, <1>4, <1>5, <1>6, <1>7, <1>8, <1>9, <1>10, <1>11 DEF IInv

-----------------------------------------------------------------------------
(* The execution and its server keep it.                                     *)

\* The gate: a drain begins for the task that its own server runs.
LEMMA HookKeeps ==
  ASSUME IInv, NEW s \in Servers, Hook(s)
  PROVE  IInv'
<1>1. ExecutionOK'
  BY DEF IInv, ExecutionOK, Hook, Loop
<1>2. Hosted'
  BY DEF IInv, Hosted, Hook, Loop
<1>3. Undecided'
  BY DEF IInv, Undecided, Hook, Loop
<1>4. Heard'
  BY DEF IInv, DurableOK, Owned, Heard, Hook, Loop
<1>5. DurableOK' /\ ServersOK' /\ Single' /\ Apart' /\ Placed' /\ Owned' /\ Planned' /\ Counted'
  BY DEF IInv, DurableOK, ServersOK, Single, Apart, Placed, Owned, Planned, Counted, Hook, Loop
<1> QED BY <1>1, <1>2, <1>3, <1>4, <1>5 DEF IInv

\* A shutdown begins with what is active.
LEMMA SuspendKeeps ==
  ASSUME IInv, NEW s \in Servers, Suspend(s)
  PROVE  IInv'
<1>1. DurableOK'
  BY DEF IInv, DurableOK, Suspend
<1>2. ServersOK'
  BY DEF IInv, ServersOK, Suspend
<1>3. Single'
  BY DEF IInv, Single, Suspend
<1>4. Apart'
  BY DEF IInv, Apart, Suspend
<1>5. Placed'
  BY DEF IInv, Placed, Suspend
<1>6. Hosted'
  BY DEF IInv, Hosted, Suspend
<1>7. Owned'
  BY DEF IInv, Owned, Suspend
<1>8. Planned'
  BY DEF IInv, Planned, Suspend
<1>9. Undecided'
  BY DEF IInv, Undecided, Suspend
<1>10. ExecutionOK' /\ Counted' /\ Heard'
  BY DEF IInv, ExecutionOK, Counted, Heard, Suspend
<1> QED BY <1>1, <1>2, <1>3, <1>4, <1>5, <1>6, <1>7, <1>8, <1>9, <1>10 DEF IInv

\* It interrupts the drain.
LEMMA ShutdownKeeps ==
  ASSUME IInv, NEW s \in Servers, Shutdown(s)
  PROVE  IInv'
<1>1. DurableOK'
  BY DEF IInv, DurableOK, Shutdown, Interrupt
<1>2. ServersOK'
  BY DEF IInv, ServersOK, Shutdown
<1>3. ExecutionOK'
  BY DEF IInv, ExecutionOK, Shutdown, Interrupt
<1>4. Single'
  BY DEF IInv, Single, Shutdown
<1>5. Apart'
  BY DEF IInv, Apart, Shutdown
<1>6. Placed'
  BY DEF IInv, Placed, Shutdown
<1>7. Hosted'
  BY DEF IInv, Hosted, Shutdown, Interrupt
<1>8. Owned'
  BY DEF IInv, Owned, Shutdown
<1>9. Planned'
  BY DEF IInv, Planned, Shutdown, Interrupt
<1>10. Undecided'
  BY DEF IInv, Undecided, Shutdown, Interrupt
<1>11. Heard'
  BY DEF IInv, Heard, Shutdown, Interrupt
<1>12. Counted'
  BY DEF IInv, Counted, Shutdown, Interrupt
<1> QED BY <1>1, <1>2, <1>3, <1>4, <1>5, <1>6, <1>7, <1>8, <1>9, <1>10, <1>11, <1>12 DEF
           IInv

\* And takes with it all that is not durable.
LEMMA ExitKeeps ==
  ASSUME IInv, NEW s \in Servers, Exit(s)
  PROVE  IInv'
<1>1. DurableOK'
  BY DEF IInv, DurableOK, Exit
<1>2. ServersOK'
  BY DEF IInv, ServersOK, Exit
<1>3. ExecutionOK'
  BY DEF IInv, ExecutionOK, Exit
<1>4. Single'
  BY DEF IInv, Single, Exit
<1>5. Apart'
  BY DEF IInv, Apart, Exit
<1>6. Placed'
  BY DEF IInv, Placed, Exit
<1>7. Hosted'
  BY DEF IInv, Hosted, Exit
<1>8. Owned'
  BY DEF IInv, Owned, Exit
<1>9. Planned'
  BY DEF IInv, Planned, Exit
<1>10. Undecided'
  BY DEF IInv, Undecided, Exit
<1>11. Heard'
  BY DEF IInv, Heard, Exit
<1>12. Counted'
  BY DEF IInv, Counted, Exit
<1> QED BY <1>1, <1>2, <1>3, <1>4, <1>5, <1>6, <1>7, <1>8, <1>9, <1>10, <1>11, <1>12 DEF
           IInv

\* So does a crash.
LEMMA CrashKeeps ==
  ASSUME IInv, NEW s \in Servers, Crash(s)
  PROVE  IInv'
<1>1. DurableOK'
  BY DEF IInv, DurableOK, Crash
<1>2. ServersOK'
  BY DEF IInv, ServersOK, Crash
<1>3. ExecutionOK'
  BY DEF IInv, ExecutionOK, Crash
<1>4. Single'
  BY DEF IInv, Single, Crash
<1>5. Apart'
  BY DEF IInv, Apart, Crash
<1>6. Placed'
  BY DEF IInv, ServersOK, Placed, Crash
<1>7. Hosted'
  BY DEF IInv, Hosted, Crash
<1>8. Owned'
  BY DEF IInv, Owned, Crash
<1>9. Planned'
  BY DEF IInv, DurableOK, ServersOK, Single, Planned, Crash
<1>10. Undecided'
  BY DEF IInv, Undecided, Crash
<1>11. Heard'
  BY DEF IInv, Heard, Crash
<1>12. Counted'
  BY DEF IInv, Counted, Crash
<1> QED BY <1>1, <1>2, <1>3, <1>4, <1>5, <1>6, <1>7, <1>8, <1>9, <1>10, <1>11, <1>12 DEF
           IInv

-----------------------------------------------------------------------------
(* The later steps of calls keep it.                                         *)

\* The launch's input is admitted.
LEMMA LaunchAdmitKeeps ==
  ASSUME IInv, LaunchAdmit
  PROVE  IInv'
<1>1. DurableOK'
  BY DEF IInv, DurableOK, LaunchAdmit
<1>2. ServersOK'
  BY DEF IInv, ServersOK, LaunchAdmit
<1>3. Hosted'
  BY DEF IInv, Hosted, LaunchAdmit
<1>4. Undecided'
  BY DEF IInv, Undecided, LaunchAdmit
<1>5. Heard'
  BY DEF IInv, Heard, LaunchAdmit
<1>6. ExecutionOK' /\ Single' /\ Apart' /\ Placed' /\ Owned' /\ Planned' /\ Counted'
  BY DEF IInv, ExecutionOK, Single, Apart, Placed, Owned, Planned, Counted, LaunchAdmit
<1> QED BY <1>1, <1>2, <1>3, <1>4, <1>5, <1>6 DEF IInv

\* The message's bell is rung, for a task that has not asked meanwhile.
LEMMA SendRingKeeps ==
  ASSUME IInv, SendRing
  PROVE  IInv'
<1>1. ServersOK'
  BY DEF IInv, ServersOK, SendRing
<1>2. ExecutionOK'
  BY DEF IInv, ExecutionOK, SendRing, Ring
<1>3. Hosted'
  BY DEF IInv, Hosted, SendRing
<1>4. Undecided'
  BY DEF IInv, Undecided, SendRing
<1>5. Heard'
  BY DEF IInv, Heard, SendRing, Ring
<1>6. DurableOK' /\ Single' /\ Apart' /\ Placed' /\ Owned' /\ Planned' /\ Counted'
  BY DEF IInv, DurableOK, Single, Apart, Placed, Owned, Planned, Counted, SendRing, Ring
<1> QED BY <1>1, <1>2, <1>3, <1>4, <1>5, <1>6 DEF IInv

\* Then it is restarted, or the message has been heard, or its bell will be.
LEMMA SendLookKeeps ==
  ASSUME IInv, SendLook
  PROVE  IInv'
<1>1. DurableOK'
  BY DEF IInv, DurableOK, SendLook
<1>2. ServersOK'
  BY DEF IInv, ServersOK, SendLook
<1>3. Hosted'
  BY DEF IInv, Hosted, SendLook
<1>4. Undecided'
  BY DEF IInv, Undecided, SendLook
<1>5. Heard'
  BY DEF IInv, Heard, SendLook
<1>6. ExecutionOK' /\ Single' /\ Apart' /\ Placed' /\ Owned' /\ Planned' /\ Counted'
  BY DEF IInv, ExecutionOK, Single, Apart, Placed, Owned, Planned, Counted, SendLook
<1> QED BY <1>1, <1>2, <1>3, <1>4, <1>5, <1>6 DEF IInv

\* A bell is rung: the drain that looked before defers to it.
LEMMA WakeKeeps ==
  ASSUME IInv, Wake
  PROVE  IInv'
<1>1. DurableOK'
  BY DEF IInv, DurableOK, Wake
<1>2. ServersOK'
  BY DEF IInv, ServersOK, Wake
<1>3. ExecutionOK'
  BY DEF IInv, ExecutionOK, Wake, Ring
<1>4. Hosted'
  BY DEF IInv, Hosted, Wake
<1>5. Undecided'
  BY DEF IInv, Undecided, Wake
<1>6. Heard'
  BY DEF IInv, Heard, Wake, Ring
<1>7. Single' /\ Apart' /\ Placed' /\ Owned' /\ Planned' /\ Counted'
  BY DEF IInv, Single, Apart, Placed, Owned, Planned, Counted, Wake, Ring
<1> QED BY <1>1, <1>2, <1>3, <1>4, <1>5, <1>6, <1>7 DEF IInv

\* A cancel interrupts the drain.
LEMMA CancelStopKeeps ==
  ASSUME IInv, CancelStop
  PROVE  IInv'
<1>1. DurableOK'
  BY DEF IInv, DurableOK, CancelStop, Interrupt
<1>2. ServersOK'
  BY DEF IInv, ServersOK, CancelStop
<1>3. ExecutionOK'
  BY DEF IInv, ExecutionOK, CancelStop, Interrupt
<1>4. Hosted'
  BY DEF IInv, Hosted, CancelStop
<1>5. Planned'
  BY DEF IInv, Planned, CancelStop, Interrupt
<1>6. Undecided'
  BY DEF IInv, Undecided, CancelStop
<1>7. Heard'
  BY DEF IInv, Heard, CancelStop, Interrupt
<1>8. Single' /\ Apart' /\ Placed' /\ Owned' /\ Counted'
  BY DEF IInv, Single, Apart, Placed, Owned, Counted, CancelStop, Interrupt
<1> QED BY <1>1, <1>2, <1>3, <1>4, <1>5, <1>6, <1>7, <1>8 DEF IInv

\* And closes the task.
LEMMA CancelCloseKeeps ==
  ASSUME IInv, CancelClose
  PROVE  IInv'
<1>1. DurableOK'
  BY ChangeSets DEF IInv, DurableOK, CancelClose
<1>2. ServersOK'
  BY DEF IInv, ServersOK, CancelClose
<1>3. Hosted'
  BY DEF IInv, Hosted, CancelClose
<1>4. Owned'
  BY ChangeSets DEF IInv, DurableOK, ServersOK, Owned, CancelClose
<1>5. Planned'
  BY ChangeSets DEF IInv, DurableOK, ServersOK, Single, Planned, CancelClose
<1>6. Undecided'
  BY DEF IInv, Undecided, CancelClose
<1>7. Heard'
  BY DEF IInv, Heard, CancelClose
<1>8. ExecutionOK' /\ Single' /\ Apart' /\ Placed' /\ Counted'
  BY DEF IInv, ExecutionOK, Single, Apart, Placed, Counted, CancelClose
<1> QED BY <1>1, <1>2, <1>3, <1>4, <1>5, <1>6, <1>7, <1>8 DEF IInv

\* The caller goes away.
LEMMA AbandonKeeps ==
  ASSUME IInv, Abandon
  PROVE  IInv'
<1>1. ServersOK'
  BY DEF IInv, ServersOK, Abandon
<1>2. Hosted'
  BY DEF IInv, Hosted, Abandon
<1>3. Undecided'
  BY DEF IInv, Undecided, Abandon
<1>4. Heard'
  BY DEF IInv, Heard, Abandon
<1>5. DurableOK' /\ ExecutionOK' /\ Single' /\ Apart' /\ Placed' /\ Owned' /\ Planned' /\ Counted'
  BY DEF IInv, DurableOK, ExecutionOK, Single, Apart, Placed, Owned, Planned, Counted,
         Abandon
<1> QED BY <1>1, <1>2, <1>3, <1>4, <1>5 DEF IInv

-----------------------------------------------------------------------------
(* The drain and its hooks keep it.                                          *)

\* The log says that an execution has started.
LEMMA StartedKeeps ==
  ASSUME IInv, Started
  PROVE  IInv'
<1>1. DurableOK'
  BY DEF IInv, DurableOK, Started
<1>2. ExecutionOK'
  BY DEF IInv, ExecutionOK, Started
<1>3. Hosted'
  BY DEF IInv, Hosted, Started
<1>4. Undecided'
  BY DEF IInv, Undecided, Started
<1>5. Heard'
  BY DEF IInv, Heard, Started
<1>6. ServersOK' /\ Single' /\ Apart' /\ Placed' /\ Owned' /\ Planned' /\ Counted'
  BY DEF IInv, ServersOK, Single, Apart, Placed, Owned, Planned, Counted, Started
<1> QED BY <1>1, <1>2, <1>3, <1>4, <1>5, <1>6 DEF IInv

\* A step takes all that is pending.
LEMMA StepKeeps ==
  ASSUME IInv, Step
  PROVE  IInv'
<1>1. DurableOK'
  BY DEF IInv, DurableOK, Step
<1>2. ExecutionOK'
  BY DEF IInv, ExecutionOK, Step
<1>3. Hosted'
  BY DEF IInv, Hosted, Step
<1>4. Planned'
  BY DEF IInv, DurableOK, ServersOK, Single, Hosted, Planned, Step
<1>5. Undecided'
  BY DEF IInv, Undecided, Step
<1>6. Heard'
  BY DEF IInv, Heard, Step
<1>7. ServersOK' /\ Single' /\ Apart' /\ Placed' /\ Owned' /\ Counted'
  BY DEF IInv, ServersOK, Single, Apart, Placed, Owned, Counted, Step
<1> QED BY <1>1, <1>2, <1>3, <1>4, <1>5, <1>6, <1>7 DEF IInv

\* It ends with an answer,
LEMMA FinalAnswerKeeps ==
  ASSUME IInv, FinalAnswer
  PROVE  IInv'
<1>1. DurableOK'
  BY DEF IInv, DurableOK, FinalAnswer
<1>2. ServersOK'
  BY DEF IInv, ServersOK, FinalAnswer
<1>3. ExecutionOK'
  BY DEF IInv, ExecutionOK, FinalAnswer
<1>4. Hosted'
  BY DEF IInv, Hosted, FinalAnswer
<1>5. Planned'
  BY DEF IInv, Planned, FinalAnswer
<1>6. Counted'
  BY DEF IInv, Counted, FinalAnswer
<1>7. Undecided'
  BY DEF IInv, Undecided, FinalAnswer
<1>8. Heard'
  BY DEF IInv, Heard, FinalAnswer
<1>9. Single' /\ Apart' /\ Placed' /\ Owned'
  BY DEF IInv, Single, Apart, Placed, Owned, FinalAnswer
<1> QED BY <1>1, <1>2, <1>3, <1>4, <1>5, <1>6, <1>7, <1>8, <1>9 DEF IInv

\* or runs a tool,
LEMMA ToolRunsKeeps ==
  ASSUME IInv, ToolRuns
  PROVE  IInv'
<1>1. DurableOK'
  BY DEF IInv, DurableOK, ToolRuns
<1>2. Planned'
  BY DEF IInv, Planned, ToolRuns
<1>3. Undecided'
  BY DEF IInv, Undecided, ToolRuns
<1>4. Heard'
  BY DEF IInv, Heard, ToolRuns
<1>5. ServersOK' /\ ExecutionOK' /\ Single' /\ Apart' /\ Placed' /\ Hosted' /\ Owned' /\ Counted'
  BY DEF IInv, ServersOK, ExecutionOK, Single, Apart, Placed, Hosted, Owned, Counted,
         ToolRuns
<1> QED BY <1>1, <1>2, <1>3, <1>4, <1>5 DEF IInv

\* which ends.
LEMMA ToolEndsKeeps ==
  ASSUME IInv, ToolEnds
  PROVE  IInv'
<1>1. DurableOK'
  BY DEF IInv, DurableOK, ToolEnds
<1>2. ServersOK'
  BY DEF IInv, ServersOK, ToolEnds
<1>3. ExecutionOK'
  BY DEF IInv, ExecutionOK, ToolEnds
<1>4. Hosted'
  BY DEF IInv, Hosted, ToolEnds
<1>5. Planned'
  BY DEF IInv, Planned, ToolEnds
<1>6. Counted'
  BY DEF IInv, Counted, ToolEnds
<1>7. Undecided'
  BY DEF IInv, Undecided, ToolEnds
<1>8. Heard'
  BY DEF IInv, Heard, ToolEnds
<1>9. Single' /\ Apart' /\ Placed' /\ Owned'
  BY DEF IInv, Single, Apart, Placed, Owned, ToolEnds
<1> QED BY <1>1, <1>2, <1>3, <1>4, <1>5, <1>6, <1>7, <1>8, <1>9 DEF IInv

\* The child asks while its tool runs.
LEMMA AskKeeps ==
  ASSUME IInv, Ask
  PROVE  IInv'
<1>1. DurableOK'
  BY ChangeSets DEF IInv, DurableOK, Ask
<1>2. ServersOK'
  BY DEF IInv, ServersOK, Ask
<1>3. Hosted'
  BY DEF IInv, Hosted, Ask
<1>4. Owned'
  BY ChangeSets DEF IInv, DurableOK, ServersOK, Owned, Ask
<1>5. Planned'
  BY ChangeSets DEF IInv, DurableOK, ServersOK, Single, Planned, Ask
<1>6. Undecided'
  BY DEF IInv, Undecided, Ask
<1>7. Heard'
  BY DEF IInv, Heard, Ask
<1>8. ExecutionOK' /\ Single' /\ Apart' /\ Placed' /\ Counted'
  BY DEF IInv, ExecutionOK, Single, Apart, Placed, Counted, Ask
<1> QED BY <1>1, <1>2, <1>3, <1>4, <1>5, <1>6, <1>7, <1>8 DEF IInv

\* And interrupts its own drain, with the bell.
LEMMA AskInterruptKeeps ==
  ASSUME IInv, AskInterrupt
  PROVE  IInv'
<1>1. DurableOK'
  BY DEF IInv, DurableOK, AskInterrupt, Interrupt
<1>2. ServersOK'
  BY DEF IInv, ServersOK, AskInterrupt
<1>3. ExecutionOK'
  BY DEF IInv, ExecutionOK, AskInterrupt, Interrupt
<1>4. Hosted'
  BY DEF IInv, Hosted, AskInterrupt
<1>5. Planned'
  BY DEF IInv, Planned, AskInterrupt, Interrupt
<1>6. Undecided'
  BY DEF IInv, Undecided, AskInterrupt
<1>7. Heard'
  BY DEF IInv, Heard, AskInterrupt, Interrupt
<1>8. Single' /\ Apart' /\ Placed' /\ Owned' /\ Counted'
  BY DEF IInv, Single, Apart, Placed, Owned, Counted, AskInterrupt, Interrupt
<1> QED BY <1>1, <1>2, <1>3, <1>4, <1>5, <1>6, <1>7, <1>8 DEF IInv

\* A step fails: it has taken what was pending.
LEMMA StepFailsKeeps ==
  ASSUME IInv, StepFails
  PROVE  IInv'
<1>1. DurableOK'
  BY DEF IInv, DurableOK, StepFails
<1>2. ExecutionOK'
  BY DEF IInv, ExecutionOK, StepFails
<1>3. Hosted'
  BY DEF IInv, Hosted, StepFails
<1>4. Planned'
  BY DEF IInv, Planned, StepFails
<1>5. Undecided'
  BY DEF IInv, Undecided, StepFails
<1>6. Heard'
  BY DEF IInv, Heard, StepFails
<1>7. ServersOK' /\ Single' /\ Apart' /\ Placed' /\ Owned' /\ Counted'
  BY DEF IInv, ServersOK, Single, Apart, Placed, Owned, Counted, StepFails
<1> QED BY <1>1, <1>2, <1>3, <1>4, <1>5, <1>6, <1>7 DEF IInv

\* A drain ends with nothing pending.
LEMMA DrainEndsKeeps ==
  ASSUME IInv, DrainEnds
  PROVE  IInv'
<1>1. ExecutionOK'
  BY DEF IInv, ExecutionOK, DrainEnds, Loop
<1>2. Hosted'
  BY DEF IInv, Hosted, DrainEnds, Loop
<1>3. Undecided'
  BY DEF IInv, Undecided, DrainEnds, Loop
<1>4. Heard'
  BY DEF IInv, DurableOK, Heard, DrainEnds, Loop
<1>5. DurableOK' /\ ServersOK' /\ Single' /\ Apart' /\ Placed' /\ Owned' /\ Planned' /\ Counted'
  BY DEF IInv, DurableOK, ServersOK, Single, Apart, Placed, Owned, Planned, Counted,
         DrainEnds, Loop
<1> QED BY <1>1, <1>2, <1>3, <1>4, <1>5 DEF IInv

\* The log says how it ended.
LEMMA SettleKeeps ==
  ASSUME IInv, Settle
  PROVE  IInv'
<1>1. DurableOK'
  BY DEF IInv, DurableOK, ExecutionOK, Settle
<1>2. ExecutionOK'
  BY DEF IInv, ExecutionOK, Settle
<1>3. Hosted'
  BY DEF IInv, Hosted, Settle
<1>4. Undecided'
  BY DEF IInv, Undecided, Settle
<1>5. Heard'
  BY DEF IInv, Heard, Settle
<1>6. ServersOK' /\ Single' /\ Apart' /\ Placed' /\ Owned' /\ Planned' /\ Counted'
  BY DEF IInv, ServersOK, Single, Apart, Placed, Owned, Planned, Counted, Settle
<1> QED BY <1>1, <1>2, <1>3, <1>4, <1>5, <1>6 DEF IInv

\* The task ends with it, unless it was woken since.
LEMMA SettleTaskKeeps ==
  ASSUME IInv, SettleTask
  PROVE  IInv'
<1>1. DurableOK'
  BY ChangeSets DEF IInv, DurableOK, SettleTask
<1>2. ExecutionOK'
  BY DEF IInv, ExecutionOK, SettleTask
<1>3. Hosted'
  BY DEF IInv, Hosted, SettleTask
<1>4. Owned'
  BY ChangeSets DEF IInv, DurableOK, ServersOK, Owned, SettleTask
<1>5. Planned'
  BY ChangeSets DEF IInv, DurableOK, ServersOK, Single, Planned, SettleTask
<1>6. Undecided'
  BY DEF IInv, Undecided, SettleTask
<1>7. Heard'
  <2>1. /\ op' \in {"wake", "ring", "look"} => task'.state # "waiting"
        /\ (op' = "look" /\ task'.state = "running" /\ run' \in {"done", "settling"} /\ result' = "ok" /\ ~woken')
             => pending' = {}
    BY ChangeSets DEF IInv, DurableOK, Heard, SettleTask
  <2>2. ASSUME ~Overlap, task'.state \in {"running", "waiting"}, run' \in {"done", "settling"}, result' = "ok", ~woken'
        PROVE  acked' = {}
    BY <2>2, ChangeSets DEF IInv, DurableOK, Heard, SettleTask
  <2>3. ASSUME ~Overlap, task'.state = "waiting"
        PROVE  /\ run' \in {"starting", "hook"} => acked' = {}
               /\ (run' \in {"done", "settling", "leaving"} /\ bell') => acked' = {}
               /\ (run' = "step" /\ step' = "open") => acked' = {}
    BY <2>3, ChangeSets DEF IInv, DurableOK, Heard, SettleTask
  <2> QED BY <2>1, <2>2, <2>3 DEF Heard
<1>8. ServersOK' /\ Single' /\ Apart' /\ Placed' /\ Counted'
  BY DEF IInv, ServersOK, Single, Apart, Placed, Counted, SettleTask
<1> QED BY <1>1, <1>2, <1>3, <1>4, <1>5, <1>6, <1>7, <1>8 DEF IInv

\* The execution ends, or its bell begins another.
LEMMA LeaveKeeps ==
  ASSUME IInv, Leave
  PROVE  IInv'
<1>1. ExecutionOK'
  BY DEF IInv, ExecutionOK, Leave
<1>2. Hosted'
  BY DEF IInv, Hosted, Leave
<1>3. Undecided'
  BY DEF IInv, Undecided, Leave
<1>4. Heard'
  BY DEF IInv, Heard, Leave
<1>5. DurableOK' /\ ServersOK' /\ Single' /\ Apart' /\ Placed' /\ Owned' /\ Planned' /\ Counted'
  BY DEF IInv, DurableOK, ServersOK, Single, Apart, Placed, Owned, Planned, Counted, Leave
<1> QED BY <1>1, <1>2, <1>3, <1>4, <1>5 DEF IInv

-----------------------------------------------------------------------------
(* The invariant of the specification.                                       *)

\* Nothing has been launched, and no server has begun.
LEMMA InitIInv == Init => IInv
<1> SUFFICES ASSUME Init
             PROVE  IInv
  OBVIOUS
<1>1. DurableOK /\ ServersOK /\ ExecutionOK
  BY DEF Init, DurableOK, ServersOK, ExecutionOK, Rows
<1>2. Single /\ Apart /\ Placed /\ Hosted /\ Owned /\ Planned /\ Counted /\ Undecided /\ Heard
  BY DEF Init, Single, Apart, Placed, Hosted, Owned, Planned, Counted, Undecided, Heard
<1> QED BY <1>1, <1>2 DEF IInv

\* Every step keeps the invariant, whoever takes it.
LEMMA NextIInv == IInv /\ [Next]_vars => IInv'
<1> SUFFICES ASSUME IInv, [Next]_vars
             PROVE  IInv'
  OBVIOUS
<1>1. ASSUME NEW s \in Servers, Call(s)
      PROVE  IInv'
  BY <1>1, LaunchKeeps, StartKeeps, SendKeeps, AnswerKeeps, ReplyKeeps, CancelKeeps,
     DecideStopKeeps, DecideContinueKeeps DEF Call
<1>2. ASSUME NEW s \in Servers, Boot(s)
      PROVE  IInv'
  BY <1>2, BeginKeeps, ReconcileKeeps, ReadKeeps, RecoverKeeps, KickKeeps, LoseKeeps DEF
     Boot
<1>3. CASE UNCHANGED vars
  <2>1. DurableOK' /\ ServersOK' /\ ExecutionOK'
    BY <1>3 DEF IInv, DurableOK, ServersOK, ExecutionOK
  <2>2. Single' /\ Apart' /\ Placed' /\ Hosted' /\ Owned' /\ Planned' /\ Counted' /\ Undecided' /\ Heard'
    BY <1>3 DEF IInv, Single, Apart, Placed, Hosted, Owned, Planned, Counted, Undecided, Heard
  <2> QED BY <2>1, <2>2 DEF IInv
<1> QED BY <1>1, <1>2, <1>3, HookKeeps, SuspendKeeps, ShutdownKeeps, ExitKeeps,
           CrashKeeps, LaunchAdmitKeeps, SendRingKeeps, SendLookKeeps, WakeKeeps,
           CancelRequestKeeps, CancelStopKeeps, CancelCloseKeeps, AbandonKeeps, StartedKeeps, StepKeeps,
           FinalAnswerKeeps, ToolRunsKeeps, ToolEndsKeeps, AskKeeps, AskInterruptKeeps,
           StepFailsKeeps, DrainEndsKeeps, SettleKeeps, SettleTaskKeeps, LeaveKeeps DEF
           Next

\* The inductive invariant holds in every reachable state, whether startup passes overlap
\* or not.
THEOREM Inductive == Spec => []IInv
  BY InitIInv, NextIInv, PTL DEF Spec

\* The variables keep their types.
THEOREM Typing == Spec => []TypeOK
<1>1. IInv => TypeOK
  BY DEF IInv, TypeOK
<1> QED BY <1>1, Inductive, PTL

\* However often servers die, a task is resumed once without a step ending in between
\* (recoverTask remembers a resume in recovery_spent, which the end of a step clears).
THEOREM NotLooped == Spec => []NoCrashLoop
<1>1. IInv => NoCrashLoop
  BY DEF IInv, Counted, NoCrashLoop
<1> QED BY <1>1, Inductive, PTL

\* A server that is up has every task that starts or runs: what an earlier one left has
\* been settled, asked about or claimed (recover, recoverTask).
THEOREM NoneOrphaned == Spec => []NoOrphan
<1>1. ASSUME IInv
      PROVE  NoOrphan
  <2> SUFFICES ASSUME NEW s \in Managed, Up(s), task.state \in {"starting", "running"}
               PROVE  Alive(task.owner)
    BY DEF NoOrphan
  <2>1. task.owner = s
    BY <1>1 DEF IInv, Owned
  <2> QED BY <2>1
<1> QED BY <1>1, Inductive, PTL

\* With startup passes that do not overlap: types, no orphan, and nothing runs over an
\* interrupted tool call the user has not decided upon, or has stopped (resolveRecovery).
THEOREM NothingRunsOver == ASSUME Overlap = FALSE
                           PROVE  Spec => []TaskInv
<1>1. IInv => NothingUndecided
  BY DEF IInv, Undecided, NothingUndecided
<1>2. TypeOK /\ NoOrphan /\ NothingUndecided => TaskInv
  BY DEF TaskInv
<1> QED BY <1>1, <1>2, Inductive, Typing, NoneOrphaned, PTL

\* With the same: a completion leaves no input behind whose call has returned in this run
\* of the task (settleTask defers to woken; the hook that clears it is followed by a drain).
THEOREM Hears == ASSUME Overlap = FALSE
                 PROVE  Spec => CompletionHears
<1> DEFINE Heeded == (task.state # "completed" /\ task'.state = "completed") => acked = {}
<1>1. ASSUME IInv, [Next]_vars
      PROVE  [Heeded]_vars
  <2> SUFFICES ASSUME task.state # "completed", task'.state = "completed"
               PROVE  acked = {}
    OBVIOUS
  <2>1. ASSUME NEW s \in Servers, Call(s)
        PROVE  FALSE
    <3>1. CASE Launch(s)
      BY <1>1, <3>1 DEF IInv, DurableOK, Rows, Launch
    <3>2. CASE Start(s) \/ Reply(s) \/ DecideContinue(s)
      <4>1. s \in Managed
        BY <3>2 DEF Start, Reply, DecideContinue
      <4> QED BY <1>1, <3>2, <4>1, ClaimSets DEF IInv, DurableOK, Start, Reply, DecideContinue
    <3>3. CASE Send(s) \/ Answer(s) \/ Cancel(s) \/ DecideStop(s)
      BY <1>1, <3>3, ChangeSets DEF IInv, DurableOK, Send, Answer, Cancel, DecideStop
    <3> QED BY <2>1, <3>1, <3>2, <3>3 DEF Call
  <2>2. ASSUME NEW s \in Servers, Boot(s)
        PROVE  acked = {}
    <3>1. CASE Begin(s) \/ Reconcile(s) \/ Read(s) \/ Kick(s) \/ Lose(s)
      BY <1>1, <3>1, ChangeSets DEF IInv, DurableOK, Begin, Reconcile, Read, Kick, Lose
    <3>2. CASE Recover(s)
      <4>1. s \in Managed /\ mode[s] = "commit"
        BY <3>2 DEF Recover
      <4> QED BY <1>1, <4>1 DEF IInv, Single, Hosted
    <3> QED BY <2>2, <3>1, <3>2 DEF Boot
  <2>3. CASE SettleTask
    <3>1. task.state = "running" /\ run = "settling" /\ result = "ok" /\ ~woken
      BY <1>1, <2>3, ChangeSets DEF IInv, DurableOK, SettleTask
    <3> QED BY <1>1, <3>1 DEF IInv, Heard
  <2>4. ASSUME NEW s \in Servers, Hook(s) \/ Suspend(s) \/ Shutdown(s) \/ Exit(s) \/ Crash(s)
        PROVE  FALSE
    BY <2>4 DEF Hook, Suspend, Shutdown, Exit, Crash
  <2>5. CASE LaunchAdmit \/ SendRing \/ SendLook \/ Wake \/ CancelRequest \/ CancelStop \/ CancelClose \/ Abandon
    BY <1>1, <2>5, ChangeSets
       DEF IInv, DurableOK, LaunchAdmit, SendRing, SendLook, Wake, CancelRequest, CancelStop, CancelClose, Abandon
  <2>6. CASE \/ Started \/ Step \/ FinalAnswer \/ ToolRuns \/ ToolEnds \/ Ask \/ AskInterrupt
             \/ StepFails \/ DrainEnds \/ Settle \/ Leave
    BY <1>1, <2>6, ChangeSets
       DEF IInv, DurableOK, Started, Step, FinalAnswer, ToolRuns, ToolEnds, Ask, AskInterrupt,
           StepFails, DrainEnds, Settle, Leave
  <2> QED BY <1>1, <2>1, <2>2, <2>3, <2>4, <2>5, <2>6 DEF Next
<1>2. IInv /\ [Next]_vars => [Heeded]_vars
  BY <1>1
<1> QED BY <1>2, Inductive, PTL DEF Spec, CompletionHears
=============================================================================
