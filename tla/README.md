# Formal models of YCoding

YCoding is a terminal-first coding agent. A client (terminal UI, command line, web, remote relay)
talks to a server process; the server keeps **Sessions**, feeds user inputs to a language model in
**drains** made of **Steps**, runs tools and shells for it, and records everything as durable
**events** in SQLite. The program is a TypeScript monorepo on the Effect library: one JavaScript
thread, many fibers. This directory holds TLA+ models of the part in which fibers, callers,
crashes and clients interleave: `packages/core/src` (sessions, events, locks) and the event stream
of `packages/server/src`.

All paths below are relative to the repository root. A ":123" in a module's comment is a line of the
file the module names at its head.

Contents:
1. [Running](#1-running)
2. [How the code runs, and what a step is](#2-how-the-code-runs-and-what-a-step-is)
3. [Inventory of the system](#3-inventory-of-the-system)
4. [The modules](#4-the-modules)
5. [The runs: what each checks, bounds](#5-the-runs-what-each-checks-bounds)
6. [Fairness](#6-fairness)
7. [What is proved, and how](#7-what-is-proved-and-how)
8. [Where the code and its documentation disagree](#8-where-the-code-and-its-documentation-disagree)
9. [Not modelled, and why](#9-not-modelled-and-why)
10. [Plan](#10-plan)

## 1. Running

```
tlasany RunCoordinator.tla                                   # parse
tlc -workers 2 -config MCRunCoordinator.cfg MCRunCoordinator # model-check one run
tlapm RunCoordinatorProofs.tla                               # check the proofs of a module
```

`PROJECT.json` lists every run with its expected result, the source lines each definition
stands for (`map`), the mutants (a plausible bug per property, which the run must catch), the
hazards of the code and the theorems.

## 2. How the code runs, and what a step is

* **Fibers.** JavaScript runs one fiber at a time. A fiber can be taken off at an asynchronous
  operation, at an explicit yield, and — this matters in several modules — between any two Effect
  operations once it has used up its quota of operations. Code inside one `Effect.sync` or
  `Effect.suspend` body is never split. A *step* of a model is what one fiber does between two
  such points; where two points enclose only operations on the fiber's own variables they are
  merged.
* **Interruption.** A fiber can be interrupted at any operation outside an uninterruptible region.
  Its finalizers run; what it has not yet protected by a finalizer is lost with it. The models have
  an action for each place where that makes a difference (`Strand`, `Cancel`, `Lose`, `CancelRun`,
  `Interrupt`, `Stop`, `AskInterrupt`, `Quit`).
* **Database.** One SQLite connection behind a semaphore serves all queries of a process, and nested
  transactions are savepoints. A query, and a transaction with its projections, is one step. A
  transaction that fails leaves nothing behind and is no step. Other processes share the file: where
  they do (`ManagedTask`, `CompactionJob`, `ShellNotice`), what one has read may be old when it writes.
* **Processes.** The service runs as one *managed* server at a time and is started again when it dies;
  *default* servers (`serve --stdio`) may run beside it on the same database. A life of a process is an
  element of a set (`Managed`, `Default`, `Processes`); `Crash` loses its fibers and maps and keeps
  what was committed. Shutdown, where it is more than a crash, has steps of its own.
* **Libraries.** The semaphore, deferreds, queues and streams of `effect` are modelled from how the
  code uses them and marked `external` in the map where they have an action of their own (`Take` and
  `Release` of KeyedMutex, `Pull` of EventFeed, ...).
* **Identity.** Map entries, executions and pools are *objects*: one fiber may keep one that the map
  has forgotten and replaced. The models give them identities from a finite set; an object may be
  used again only when nothing refers to it (`Fresh`), as garbage is. This is what makes properties
  such as "at most one execution per Session" facts about the code and not about a function's type.
* **History variables** record what the code does not (what a wake is owed, whether a check had
  become stale) and are called so where they are declared. No guard of a program action reads one,
  but for `removed` of EventLog (a removed Session cannot be followed or created again) and the
  bounds on how often a thing happens. `excused` of SessionInbox and `stale` of GuardrailCounter delimit, in
  the properties, what the code keeps from what it does not.

## 3. Inventory of the system

| Component | State | Operations | Talks to | What is hard | What makes it correct |
|---|---|---|---|---|---|
| **Keyed mutex** `effect/keyed-mutex.ts` | map key → (semaphore, count of users) | `withLock` | everyone who serializes per Session, file or ID | entries created and removed while others wait or are cancelled | one effect at a time per key, waiters are served |
| **Run coordinator** `session/run-coordinator.ts` | map of executions with doorbell and stop flag; map of transition entries with a count and a doorbell; closed flag | `run`, `wake`, `interrupt`, `awaitIdle`, `withTransition`, `shutdown` | Session execution gives it drains and hooks; prompts wake it | a wake, a settle, an interrupt, a reservation and shutdown in every order | one drain per Session, no doorbell lost, transitions find their Session idle, nobody waits for what is gone |
| **Guardrail counter** `session/guardrail-counter.ts` | map (family, kind) → slots and a line of waiters | `reserve`, `release`, timeout, interruption | shells, subagents, reviews | a pool is forgotten and made again while calls keep the old one; a timeout races a grant | the cap, first come first served, no idle slot, no leaked slot |
| **Event log** `event.ts` | rows with consecutive numbers, the sequence row, one wake per follower | `publish`, `publishBatch`, `log` (replay, marker, tail), fork, `remove` | every durable change of a Session; clients that follow one | events committed between replay and tail; pages of undecodable events; lost connections, crashes | a follower gets each readable event once, in order |
| **Event feed** `server/src/event-feed.ts`, `event.ts` notify | a bounded queue per connection | offer, subscribe, heartbeat, fail | the live path behind every publish | publishers overtake each other; slow clients; events that cannot be encoded; interrupted publishers | the same unbroken run of frames for all, or the end of the connection |
| **Session inbox** `session/pending.ts`, with `runtime.ts` and `runner/llm.ts` | rows admitted and not promoted; the compaction row; inbox lock | `prompt`, `synthetic`, promotion of steers and of one queued input, compaction, retry after failure | the coordinator (wake), the event log (each change is an event) | rows read before the lock is taken; IDs used again while in flight; failed drains | first admission wins, delivery order, no input stranded |
| **Durable event replay** `event.ts:530-610` | owner of a sequence row | `replay`, `replayAll`, `claim` | import of a Session copied from elsewhere | duplicates, gaps, foreign owners, divergence | what is stored never changes, owner fences writers |
| **Managed tasks** `session/orchestration.ts`, `session/execution.ts`, `session/execution/{restart,interrupted,recovery}.ts`, `session/task.ts` | the task's row (state, revision, owner); `woken`, the execution of the child; recovery items of the review box | launch, send, answer, question, cancel, decisions; hooks that gate and settle a drain; shutdown, startup passes | coordinator, inbox, review box, process start | the process dies between any two writes; bells, drains and completions of one child overlap; two startup passes | no task is left to a dead server, none restarts without end, uncertain tools are asked about, a completion hears what was sent |
| **Background shells** `tool/shell.ts`, `job.ts`, `shell.ts`, `shell/ledger.ts` | the job (background flag, lease), the command, the ledger's row | run, move to the background (call, deadline, all), interrupt, remove, notice, reconcile | inbox (synthetic notice), recovery, process start | the command, the call and the moves race; a crash between any two steps of a notice | the promised notice is admitted, owed or reported lost; no command outlives its row |
| **Compaction jobs** `session/compaction-job.ts`, `session/compaction-execution.ts`, `session/context-state.ts` | rows: status, owner, lease, boundary, digest; per process a registry of signals | admit, supersede, claim, heartbeat, activate, settle, wait | runner (the gate), context revisions | a lease expires while its owner works; two processes claim; a boundary moves under a pending job | one runs at a time, one revision per job, a lost owner settles nothing, callers return |
| **Requests to the user** `form.ts`, `question.ts`, `permission.ts` | pending forms with a deferred and an epoch; one permit for settlements; the asks under way | ask, reply, cancel, delegated reply, reconsider, defer, supersede | tools, clients, Dots, coordinators, autonomy, review box, prompts | six parties decide and then wait for one permit; the autonomy changes meanwhile; publications fail | one outcome that everyone is told, no stale form open, no form waits for a sleeper, asks return |
| **Guardrail reviews** `session/guardrail.ts` | rules, review requests | assert, review | counter, requests | as requests | as requests |
| **Coordination** `coordination/index.ts`, `session/coordination-runtime.ts`, `session/orchestration.ts` | projects with revisions, owners, hand-offs | create, assign, hand off, reconcile | Sessions, tasks | concurrent revisions, recovery | compare-and-set on revisions, one owner |
| **Autonomy, keep-awake** `session/autonomy.ts`, `keep-awake.ts` | modes and sleep of a family, with a revision | set, sleep, wake | requests (in `Form`), OS | ordering with requests | requests of a sleeping family are deferred |
| **Runner** `session/runner/llm.ts` | none durable of its own | drain, Step, tools | everything above | drain loop (in SessionInbox), tool fibers | one Step at a time |
| **Session operations** `session/runtime.ts`, `session/revert.ts`, `session/model-switch.ts` | Session rows | create, archive, remove, revert, switch model | transition of the coordinator, log | staged reverts | transitions are exclusive |
| Project artifacts, memory, terminals, providers, tools, MCP, plugins, TUI, client, protocol, schema | — | — | — | data, I/O, presentation | — |

How they interact, on the path of one prompt: `Session.prompt` admits a row in the **inbox**
(under the inbox lock, an instance of the **keyed mutex**) by publishing an event to the **event
log**, whose `notify` rings the followers' wakes and offers the event to the **event feed**; then it
wakes the **coordinator**, which starts an execution or rings the bell of the one in progress; the
execution's drain promotes rows of the inbox into messages, again by events, and calls the model,
whose tools take slots of the **guardrail counter**, ask the user (**requests**), start commands
that may move to the background (**shells**: the notice of their end is a synthetic input) and child
Sessions (**managed tasks**, whose rows outlive the process). A context that grows too large is
replaced behind a gate by a **compaction job**. When the drain ends, the hooks settle the task, and the
coordinator looks at the bell and starts over or settles.

The hazards of these components, each at the line where it bites and with the properties that
would catch it, are listed under `hazards` in `PROJECT.json`.

## 4. The modules

Each component has a module; `MC...` modules only add symmetry sets; `...Proofs` modules extend the
component with its theorems. Two of them extend two components each: `EventProofs` (`EventLog`,
`EventFeed`) and `CompactionJobProofs` (`CompactionJob`, `KeyedMutex`, whose locks the jobs take). That is why
the specification of the second of each pair has names of its own (`FeedInit`, `FeedSpec`, `LockInit`,
`LockSpec`, ...).

### `Mutex`, `KeyedMutex` — `packages/core/src/effect/keyed-mutex.ts`

`Mutex` is what a user of `withLock` is promised: per key, a set `inside` with at most one member,
entered and left one at a time. `KeyedMutex` is the code: `locks` is the map, `users[e]` the count
in an entry, `taken[e]` its semaphore's permit. `Reference` is the suspended body (find or create,
count in), `Guard` the point where `Effect.ensuring` takes hold, `Take`/`Release`/`Cancel` the
semaphore's `withPermit`, `Leave` the finalizer that counts out and drops the entry. `Strand` is a
fiber interrupted in the one operation between counting in and being protected: it never counts out
and its entry stays in the map for ever. That is a small leak of memory and, as the run shows,
nothing else: exclusion and service survive it. `ImplementsMutex` is the refinement.

### `Doorbell`, `RunCoordinator` — `packages/core/src/session/run-coordinator.ts`

`Doorbell` is what users of a key are promised: drains come one after the other; a wake begins one or
rings a bell; a rung bell is given up only to the beginning of a drain, to a stop or to the shutdown;
and while transitions hold the key, wakes are kept for the end of the last one. It has no execution
objects, fibers, locks or waiters. `ImplementsDoorbell` is the refinement: an execution that has been
told to stop shows as `settling` from then on, the leading yield, the started hook and the yield
between two drains as `begin`, `afterSettled` as nothing, since the object has left the map. What the
code does not promise (section 8: a wake whose drain has not begun is lost to an interrupt in a
transition) `Doorbell` does not promise either.


One action per piece of code between two suspensions.

* `executions`, `pendingWake`, `stopping` and `phase` are the map of executions, the two flags of an
  execution object and the place of its fiber: `begin` (the leading yield), `starting` (the started
  hook), `draining`, `looping` (the yield before another drain), `settling` (the settled hook),
  `after` (`afterSettled`).
* `users`, `doorbell`, `lock` are a key's transition entry (its counter as the set of calls it
  counts) and the keyed mutex of transitions.
* `at`, `of`, `on` are callers of `run` (with its loop: wait for a transition, for a stopped
  execution, join), `interrupt` and `withTransition`. The effect inside a transition is what its
  users run there: interrupt the Session, await its idleness, change it; it may end anywhere.
* `Wake`, `Retry`, `Interrupt`, `Settle`, `Release`, `Shutdown`, ... are the functions of the file.
  `Release` and `Settle` contain the forwarding of doorbells and the resolution of waiters, because
  the code does them without a pause.

Drains and hooks are choices (they may end, fail or be interrupted at any time); exits and the
`force` flag are passed through by the code and left out. The disposal of the fiber set on scope
close is not modelled: `shutdown` precedes it.

### `GuardrailCounter` — `packages/core/src/session/guardrail-counter.ts`

A call of `reserve` takes a slot (`Take`), or finds the pool full (`FindFull`), queues (`Enqueue`),
is protected (`Protect`) and then waits, is granted (by another call's `Release`/`Abandon`),
resumes, gives up (`Abandon`: timeout or interruption) or is interrupted at a place nobody cleans up
(`Lose`). `Free` is `release`, with the splice that removes the last element when its argument is
absent, exactly as `Array.splice(-1, 1)` does. Two suspension points sit inside `reserve` (between
finding the pool full and queueing, and between queueing and protection); both matter, see section 8.

### `EventLog` — `packages/core/src/event.ts`, `session/projector.ts` (forks)

One aggregate. `Publish` is the transaction (one event or a batch, possibly of a type the reader
cannot decode: `hidden`), `Ring` the wakes after it, `Fork` a Session created with an inherited
history, whose first event has number 0 and whose sequence row already stands at the parent's number.
Followers are the state machine of `log`: `Connect` subscribes the wake, `Watermark` and `Target`
read the latest number, `ReadPage` reads a page outside any lock, `Deliver`, `Mark`, `Wake`,
`Latest`. `Disconnect` and `Crash` lose what was read and not delivered; the client comes back with
the cursor it keeps (`seen`), which the marker moves too. A read without `follow` is a follower that
disconnects after its marker.

### `EventFeed` — `packages/server/src/event-feed.ts`, `event.ts` (`notify`)

What a publish owes after its transaction. Publishers walk through their events one listener at a
time and overtake each other; the feed's listener skips internal events, encodes public ones
(`Encode`), offers the frame to all registered queues in one go (`Offer`), and fails them all when
it cannot encode (`Fail`). A full queue (`Full`) is failed and keeps what it had accepted. Heartbeats take
room like frames (`Put`), but are only counted (`beats`): a client reads all that is queued, so where they
lie in a queue makes no difference. `stage` is where `notify` is. `Interrupt` is a `publish` interrupted after its commit — `publishBatch` cannot be.

### `SessionInbox` — `session/pending.ts`, with `runtime.ts`, `runner/llm.ts`, `execution.ts`

* Callers: `Look` (without a lock), `Lock` (prompts only), `Check`, `Insert` (the transaction that
  refuses a known ID), `Recheck` after a refusal, `Wake`. `synthetic` differs from `prompt` in
  doing without the lock.
* Inputs are numbered as `admitted_seq` does; `Rows` and a `batch` are sets of those numbers, and
  `First` is what the queries order by.
* The drain: `Begin` (the drain hook takes its snapshot), `AskSteers`, `AskQueue`, `Read` (rows,
  outside the lock), `Take` (lock, compaction looked at again), `Promote` (one transaction per row),
  `Promoted`, the model's answer (`Continue`/`Finish`), `AskMore`, `End`.
* Failure: `Fail` anywhere but inside a transaction, then `Retry`, the rule of `retryFailedPending`:
  a bell for its own successor, up to `failedSuccessorLimit` times for the same rows.
* `Stop`, `Crash`, and the compaction row, a barrier to promotion.

The coordinator appears here as the bell that `RunCoordinator` is shown to implement: `UsesDoorbell` says
that admissions, drains, retries and stops take steps of `Doorbell` and no others, until a crash, which
forgets the bell with the process. `ShellBegins` and `ShellEnds` are a command of the user (`runtime.ts`,
`shell`): while it runs, inputs are admitted without a wake, and its finalizer rings if any lie there;
`UserShell` switches them on. Left out are other admissions without a wake, forced drains, staged reverts, managed
tasks and rejected Dots delegations. `AdmitCompaction` has no caller in production code: rows of that
kind come from Sessions of earlier versions, and the barrier they make is still in the code.

### `ManagedTask` — `session/orchestration.ts`, `execution.ts`, `execution/{restart,interrupted,recovery}.ts`, `task.ts`

One child task over several lives of the managed server and one of a default server.

* History: `acked` are the pending inputs whose call has returned in this run of the task (a run begins
  with `Start`), `revived` counts recoveries since a step ended.
* Durable: `task` (state, revision, claiming server), `pending` (the child's inbox), `latest`, `step` and
  `suspended` (what the Session's log and its last message show a startup), `spent` (a recovery has
  resumed the task and no step has ended since), `review` (the recovery item of the review box).
* Per process: `run`, `result`, `must`, `bell` are the coordinator's execution of the child; `woken`
  is the set of that name in `execution.ts`; `op` is the orchestration call that holds the child's lock.
* Calls: `Launch`/`LaunchAdmit`/`Start`/`Wake`, `Send`/`SendRing`/`SendLook`, `Answer`/`Reply`,
  `Cancel`/`CancelRequest`/`CancelStop`/`CancelClose`, `DecideStop`, `DecideContinue`; `Abandon` is a
  caller interrupted between two of its steps.
* The execution: `Started` and `Hook` (the gate), `Step`, its ends (`FinalAnswer`, `ToolRuns`/`ToolEnds`,
  `StepFails`), the child's own question (`Ask`, then `AskInterrupt`, the interrupt it forks),
  `DrainEnds` (it and a drain that the gate skips go through `Loop`), `Settle`/`SettleTask` (the settled
  hook), `Leave`.
* Servers: `Suspend`, `Shutdown`, `Exit`; `Crash`; and a startup pass: `Begin`, `Reconcile`, `Read`,
  `Recover` (one transaction, if the row is unchanged), `Kick`; a default server's pass ends in `Lose`.

`Verdict` is the table of `recoverTask`. Left out: attached ownership, progress notes, prompts and stops
of the user to the child itself (a stop acts as `AskInterrupt` does), goal continuation, a second
managed server at the same time.

### `CompactionJob` — `session/compaction-job.ts`, `compaction-execution.ts`, `context-state.ts`, `runner/compaction-gate.ts`

The rows of one Session's jobs, two processes with one caller each (every caller holds the Session's
admission gate) and one worker per claimed job. A call is `Enter`, `Admit` (read what is there),
`Advance` (move the boundary of a pending job) or `Replace` (settle one that does not fit) or `Insert`,
then `Start`, `Claim`, `Publish` (the event whose commit checks again), `Wait`, `Signalled`; callers may
`Quit`. A worker is `Build`, `Activate` (the transaction that moves the context's revision and ends the
job) or `Refuse`, `Heartbeat`, `Settle`, `Done` (the registry's signal). `Expire` is thirty seconds without
a heartbeat, which may happen to a worker that lives (`MaxFaults` counts those and the deaths).
What a manifest contains is left out: building one may fail at any time. So are re-admission under an
ID of the caller's choice, legacy rows and `jobs.end`, which only tests call.

### `ShellNotice` — `tool/shell.ts`, `job.ts`, `shell.ts`, `shell/ledger.ts`

One shell call over lives of the service: the call (`pc`), its job (`job`, `moved`: in the background,
`lease`: the Session counts as outstanding), the command (`shell`), the fiber that delivers the notice
(`fiber`) and the row (`row`). `Move` is `backgroundWithReason`, reached by the call itself
(`BackgroundNow`), its deadline (`Deadline`, which then steers) or `BackgroundAll`; `Owe` and `Answer` are
what the call does afterwards. The command ends (`Exit`) or is removed in steps (`Remove`, `Release`), the
job settles and completes (`Settle`, `Complete`), the fiber admits the notice, tells the job and clears
the row (`Admit`, `Tell`, `Clear`). A starting managed server reconciles: `Read`, `List` (rows of dead
owners), `Terminate`, `Mark`, `Discard`. Left out: jobs of other kinds, output, the notice's text,
interrupts before the job is started, a failing `ps`, reuse of process IDs.

### `Form` — `form.ts`, with `session/runtime.ts`

`Form.ask` of one Session, and everybody who may settle its form.

* `ask[a]` is a call: the epoch it entered with (`ticket`), the revision of the autonomy it has read
  (`seen`), what it will do when its form is out (`plan`). `Enter`, `ReadMode`, `ReadSleep`, then for a
  sleeping user `Judge`, `Recheck`, `Review`; the form is created (`CreateWaiting`: in the cache before
  it is announced), announced (`Announce`), perhaps dropped (`Drop`, when a prompt has come), assessed
  (`Assess`) and answered (`Reply`), awaited (`Await`); `Interrupt` and `Quit` are the caller's interruption.
* `held` is the permit of `exclusive`, with the settlement it is held for. `Take` checks the form under it,
  `Complete` publishes, sets the form and tells the ask; `CompleteFails` is a publication that fails.
* The others: `Decide` (the user, or a Dots client), `Reconsider`/`Reconsidered` (a coordinator's study
  without the permit, its answer with it), `ChangeMode`, `FallAsleep` with `DeferPending` and `Defer` (the
  conversion of the pending forms, under the family's lock), `WakeUp`, and a prompt under answers mode
  `yolo`: `Prompt`, `Admit`, `CancelPending`, `CancelObsolete`.

A read of the autonomy and the synchronous code after it are one step: nothing suspends between the
two. Left out: fields, validation and assessments, escalation (metadata only), forms made by `create`
(they have no epoch, and neither sleep nor a prompt concerns them), retention, the end of a Location,
`question.ts` (section 9).

## 5. The runs: what each checks, bounds

An invariant named `...Inv` joins two or three that a run checks together, as `IdlenessReached` does two
liveness properties; the module states each of them on its own. Every module has one type invariant: where a
theorem proves it (`KeyedMutex`, `RunCoordinator`, `GuardrailCounter`, `EventLog`) no run repeats it, elsewhere it is part of such a
joined invariant; `LockTypeOK` and `FeedTypeOK` are those of `KeyedMutex` and `EventFeed`. Times are
those of two workers on the machine the project was built on.

| Run | Instance | States | What it shows |
|---|---|---|---|
| `keyed_mutex` | 2 keys, 3 fibers, 3 entries, 1 stranded cancellation per entry | 20 264, 9 s | `WaitersProgress` (somebody gets the lock while somebody waits); `ImplementsMutex` |
| `coordinator` | 1 Session, 2 execution objects, 2 callers, fairness | 170 189, 153 s | `OneExecution`, `NoDoorbellLost`, `QuietInv` (`TransitionQuiet`, `ShutdownQuiet`), `NoOrphanWaiter` in every interleaving of two operations, wakes and shutdown; `ImplementsDoorbell`; `WakeAnswered`, `IdlenessReached` (`TransitionReachesIdle`, `ShutdownReturns`), although wakes never stop |
| `guardrail_counter` | 1 family, 3 calls, cap 1, 3 pool objects, fairness | 134 225, 27 s | `SlotInv` (`CapHolds`, `SlotsOwned`), `ArrivalOrder`, `WaiterServed` |
| `event_log` | 1 follower, numbers up to 3, batches up to 2, pages of 2, a fork at 1, 2 committers at once, fairness | 363 806, 94 s | `NothingMissed`, `InOrder`, `Followed` |
| `event_feed` | 2 publishers, 2 connections, queues of one frame, 2 events, batches up to 2, fairness | 134 820, 53 s | `SameRun`, `FeedInv` (`NoSilentGap`), `Received` |
| `session_inbox` | 1 caller, 2 IDs, both deliveries, 2 retries, symmetry | 415 280, 40 s | `InDeliveryOrder`, `InboxInv` (`BatchStands`), `NoStranded`, `SteersFirst`, `UsesDoorbell` |
| `session_inbox_reuse` | 2 callers, 1 ID, both kinds, 1 retry, a command of the user, fairness | 447 680, 77 s | `ReuseInv` (`RowOrMessage`, `PromptsAccepted`), `RowPromoted` |
| `managed_task` | 3 lives of the service, 1 of a default server, requests below revision 4, symmetry | 1 312 945, 80 s | `TaskInv` (`NoOrphan`, `NothingUndecided`), `NoCrashLoop`, `CompletionHears` |
| `compaction_job` | 2 processes, 2 jobs, 2 boundaries, 3 kinds of request, 1 fault, fairness | 358 842, 128 s | `JobInv` (`OneRunning`, `OneRevision`), `HolderDecides`, `CallReturns` |
| `shell_notice` | 1 call, 3 lives of the service, 1 of another server, 3 executions, fairness | 79 277, 7 s | `LeaseCovers`, `NoticeAccounted`, `LedgerInv` (`Tracked`), `OwedUntilAdmitted`, `NoticeArrives` |
| `form` | 2 asks, one to be decided by the user; at most 2 of 1 prompt, 1 change of the autonomy and 1 failed publication, fairness | 424 828, 70 s | `RequestInv` (`OneSettlement`), `NoStaleForm`, `SleepDefers`, `AskReturns` |
| `form_fence` | the same | — | a violation: `AnswersFenced`, section 8 |

Why the bounds are enough for the interesting cases:

* **keyed mutex**: two waiters behind a holder, and a newcomer after the last one has left, need
  three fibers; removal and re-creation of an entry while another key uses one needs two keys and a
  third entry.
* **coordinator**: keys do not share state (the maps are keyed), so one is enough; the proofs cover any
  number of keys, executions and callers. Two execution objects let a successor begin while its
  predecessor is in `afterSettled`; three live ones cannot be needed, since `OneExecution` keeps one
  live. Wakes are not bounded. Two callers are a transition against a run, an interrupt or another
  transition.
* **guardrail counter**: cap 1 makes every release a grant; three calls are a holder and a line of
  two. Three pool objects are a forgotten one, the current one and a fresh one.
* **event log**: numbers up to 3 with pages of 2 give a full page, a short page and an empty page; a
  fork at 1 leaves a gap; two committers allow a commit between another's commit and its wake.
  Followers do not interact: each has its own wake, and all are rung in one step.
* **event feed**: a queue of one frame overflows at the second; two connections, one of which falls
  behind; two publishers overtake each other, one may run a batch of two.
* **session inbox**: order needs two inputs; callers race with the drain and with compactions for the lock.
  Reuse needs two callers that race with each other, and one ID. Two callers with two IDs and one retry have
  been checked as well (3 676 354 states, 2 to 5 minutes), and the proofs cover any number. One or two
  retries make the limit and its reset reachable; the code's limit is 3.
* **managed task**: three lives are a server, one that recovers and dies again, and one that finds what
  that recovery left; `NoCrashLoop` needs all three. Revisions below 4 are a launch, a question, an
  answer and an end. One more is a message that restarts the task while its execution is still in its
  settled hook: the same properties have been checked there as well (2 133 706 states, 2 to 4 minutes),
  and the proofs cover every bound. The default server starts its pass after the service has started
  (`Overlap = FALSE`); both at once is a case of section 8.
* **compaction job**: two processes claim one job, or take it over; two jobs and two boundaries are a
  superseded one and its successor; the request for another model (`c2`) cannot join the others. One
  fault is a death or a lease that its living owner lets expire.
* **shell notice**: a call, the server that dies with it, the one that reports, and the one after a
  report; the other server must be left alone by all of them. Two calls over two lives have
  been checked as well (514 758 states); calls share nothing but the sweep of a starting server.
* **form**: two asks share the Session's epoch and its permit. One change of the autonomy is enough to
  be stale, to fall asleep or to wake; one prompt supersedes; one publication fails. The run
  has any two of these three; all of them together have been checked too (1 175 609 states), and the safety
  properties with two changes (18 million states).

Deadlock is checked for the mutex, the coordinator, the log, the feed and the inbox. The other systems
may stop: calls of the guardrail counter that are interrupted for good (`lost`) may hold every slot, and
tasks, jobs, shells and asks end.

## 6. Fairness

Weak fairness on a program step means the scheduler runs every runnable fiber, which a FIFO run
queue does. Nothing is assumed of users: no caller calls, cancels, stops or shuts down, no
connection is made, no crash happens by fairness.

* `KeyedMutex`: a fiber inside `withLock` goes on; for each key, a free permit is given to one of its
  waiters (not to a particular one: that is the library's business, so no waiter is promised its turn).
* `RunCoordinator`: fibers of executions, drains and hooks end (a drain is bounded by its model call
  and can be interrupted); a transition's effect ends once it has nothing to wait for. `Retry` has
  strong fairness only because the finite set of execution objects can be used up for a moment, which
  the heap cannot. `WakeAnswered` is conditional: a bell is answered if interrupts and transitions
  stop from some point on. Without that, a user who keeps interrupting keeps the drain from running.
* `GuardrailCounter`: runnable calls go on and every holder releases; `WaiterServed` excepts the
  lines of section 8.
* `EventLog`, `EventFeed`: committers ring, listeners return, a client that stays connected reads.
* `SessionInbox`: the drain and every admission go on; a command of the user ends; the drain is served by
  the inbox lock (`SF(Take)`: the semaphore's queue is FIFO), and a model does not ask for another Step
  for ever (`SF(Finish)`). The last is an assumption about the model, which an agent's Step limit only
  asks to stop.
* `CompactionJob`: callers and workers run; a lease that nobody renews expires. Nobody has to call, and
  messages need not complete.
* `ShellNotice`: the settling of a shell that has ended, and the fiber that delivers its notice, go on.
  Nothing makes a command end or a server start.
* `Form`: each ask, a settlement that has the permit, the conversion of a sleeping user's forms and a
  prompt go on. An evaluation of the decision model ends, because the call has a deadline. Nothing is
  assumed of the user, of clients, of coordinators and of the answers mode.
* `ManagedTask` has safety properties only.

## 7. What is proved, and how

Every component that is modelled has proofs, in eight modules, for every value of the constants under the
assumptions named in the modules: `None` is not an object; fibers and lives of the service are finite sets;
caps and pages are positive, the bounds of counters natural numbers; kinds, deliveries and answers modes are
the code's; and the names of a model's parts are not those of its clients. Two theorems of
`ManagedTaskProofs` assume `Overlap = FALSE` (below). Nothing is assumed of the number of clients, inputs,
lives or requests.

* **`CompactionJobProofs`**, of the jobs — `Invariance`, `OneAtATime`, `Decided`, `Compaction`. Which steps
  may change which row is shown once for every action (`RowStep`, `RowSteps`), and which place of a call leads
  to which (`CallMoves`); the invariants follow from that. `OneRunning` alone is not inductive: a claim
  sees that no other row runs, but an insertion takes the place of no other row only because there is a
  free number for every admission under way (`Room`); that advancing, replacing or claiming meets the row the call
  has read, or one that has moved on, needs `Named`; and that the holder of a lease is the one who
  settles needs its worker to be alive and not through (`HolderWorks`), with its job in the process's registry
  (`Registered`). `EndedOnce`: no two jobs ended from the
  same context and none from the latest, from which `OneRevision` follows, that it has moved on once for
  every job that ended.
  `HolderDecides` is the action property: a running job's boundary stands, and only a step of its holder's
  worker ends or fails it, ending it only on the context it was built for. (A job that is still pending
  may be failed by anybody: `Replace` supersedes it.)
* **`CompactionJobProofs`**, of `KeyedMutex` — `Exclusion`, `Implementation`, `LockTyping`. Exclusion is not
  inductive: two calls on one key exclude each other only if they use the same entry. The invariant says that
  a call in progress refers to the entry the map has for its key (`CallsShareEntry`), which survives
  `Leave` because the count covers every call and every stranded reference (`CountCovers`, a
  statement about cardinalities), so an entry is removed with its last user only; entries are not
  shared between keys (`EntriesDistinct`) and a permit has one holder (`OnePermit`). The refinement
  maps every step to a step of `Mutex` or a stutter.
* **`RunCoordinatorProofs`** — `Typing`, `Serialized`, `DoorbellKept`, `StoppedQuiet`,
  `TransitionExclusive`, `NobodyOrphaned`, `ShutdownFinal`, `Quieted` (the two quiet promises together),
  `Promise`. One inductive invariant for all: the map
  of executions and the fibers that have not settled are the same thing (`Registered`, from which
  one execution per key follows); the transition entry of a key counts exactly the calls between
  reservation and release (`Counted`); its lock has the one client inside (`Locked`); a transition that
  has seen its key idle still does (`StaysIdle`); every waiter names an object (`WaitsForSome`); a
  closed coordinator is shutting down every key that has an execution (`Closing`); with these,
  `NoOrphanWaiter`, `NoDoorbellLost` and `StopClearsDoorbell` are preserved by each action. `Promise` is the
  refinement of `Doorbell`: what a step shows of the other keys does not change (`Still`, which needs
  that an object belongs to one key), what it shows of its own decides which step of `Doorbell` it is
  (`Steps`), and a step of a settled fiber, of a caller or of a lock shows nothing (`Hidden`).
* **`GuardrailCounterProofs`** — `Typing`, `Capped`, `NoneIdle`, `Owned`, `Sound`
  (cap and owners together). Key by key: the slots of the
  pool in the map are the granted calls, each once; its line is the calls that wait, each once; and
  whoever closed over a pool closed over the one in the map, or over an empty one. Lemmas first state what
  appending, shifting and splicing do to the elements of a sequence. The theorems are conditional on
  `stale`, the history of the defect in section 8: they say that it is the *only* way to lose the cap.
  `InTurn` is the arrival order, which needs no condition: a slot is granted by a shift of the line, so
  whoever is granted was the head of it.
* **`EventProofs`**, of the log — `Typing`, `Complete`, `Sorted`, `NoGaps`, `WakesKept`. The invariant relates,
  for each connected follower, the client's cursor, the buffer, the stream's cursor and the end of the
  log: the buffer is what lies between the two cursors (`Buffered`), what lies beyond the second is
  behind a read under way or a wake (`Awake`), and a marker is emitted only when everything up to it
  has been read (`Replayed`).
* **`EventProofs`**, of the live feed — `FeedInvariance`, `SameFrames`, `NoGap`, `OnceOffered`. A connection's
  frames are compared with those offered place by place (`Run`), which `Offer` keeps because it reaches
  every registered queue at once and drops the ones it cannot reach. `NoSilentGap` needs to know where an event
  is between its commit and the feed: what a publisher owes is stored, owed by no other and owed once
  (`Turns`), a publisher that owes nothing is idle, and outside a batch it owes one event at most
  (`Staged`), so that an interrupt loses no more than the model says it does. From the same invariant,
  `OfferedOnce`: nothing is offered twice, and nothing that is not public.
* **`FormProofs`** — `Inductive`, `Typing`, `Settlement` (with `OneSettlement`), `NoneStale`, `NobodyAsked`. The
  invariant says where a call is while its form is not there, pending or settled (`Forms`); that whoever
  has the permit has it for a pending form, an ask for its own and a sweep for one still on its list
  (`Holding`; the exception is a form that its failed announcement has taken back, `Gone`); that a call's
  epoch is not a later one (`Tickets`); and what a conversion of a sleeping user's forms still owes while it
  is under way (`Sleeping`). `SleepDefers` is not inductive without the last: the ask that has read
  that the user is awake must have its form in the cache before the conversion makes its list. Lemmas
  first state what the helpers do to a call (`OverCall`, `StepCall`, `PresentCall`, `ReturnCall`).

* **`SessionInboxProofs`** — `AdmittedOnce`, `InOrder`, `BatchSafe`, `Accepted`, `NobodyStranded`,
  `SteersServed`, `Reused` (the first and the fourth together), `Promised`. The order
  of promotion is not inductive: between the reading of rows and their promotion, outside the lock, others
  are admitted and promoted. The invariant keeps with each row of a
  batch all earlier pending ones of its delivery (`Batch`), so that the least of the batch is the least of
  the table; a prompt that looks again under the lock still has it when it inserts (`Prompting`); what
  lies in the table while queued inputs are served came after the last look for steers (`Asked`); and
  pending rows have a drain that is going to look, a bell, a call about to ring, or an excuse
  (`Attended`). The last is the promise that no admission is lost between a drain's last look and its end.
  `Promised` shows, action by action, that the Session's execution moves as `Doorbell` does, which is what
  `Promise` says of the coordinator.
* **`ShellNoticeProofs`** — `Ledger`, `Covered`, `Accounted`, `Kept`. The invariant follows the lease from
  the move to the fiber (`Held`, `Forked`), the row from the shell's recording to its notice
  (`Promised`), and the list of a starting server, whose entries belong to the dead and have not been
  reported (`Listed`, `Lost`); servers come one after the other (`InTurn`), and a shell's owner is alive or
  has died (`Owned`). A lost notice carries the number of the start that marked it, which is what makes
  `Accounted` hold over any number of restarts.
* **`ManagedTaskProofs`** — `Typing`, `NotLooped`, `NoneOrphaned`, `NothingRunsOver`, `Hears`. Three
  themes. A startup pass decides from what it read: nothing but a loss can have changed it at the commit,
  because no other life of the service is alive (`Single`), fibers and calls are those of a server that is
  up (`Hosted`), and a server owns nothing before its recovery commits (`Owned`, `Planned`); so an orphan is
  always settled, asked about or claimed, and a resume is counted once (`Counted`). Nothing runs and nobody
  calls over an open question or a stop (`Undecided`). And an input that an execution's end leaves behind
  has a bell that rang after its last look (`Heard`). `Undecided` and `Heard` hold when startup passes do
  not overlap; with overlapping ones they do not (section 8), so `NothingRunsOver` and `Hears`
  assume that they do not, and the others do not need it.

The attempt to prove `Hears` showed that the property was too strong as it was first checked: it passed
with requests below revision 4 and fails with one more (section 8, 6). It now speaks of the inputs acknowledged
in the current run of the task, and has been checked with that bound too.

**Only model-checked** are all liveness properties and the refinement's fairness (the prover has neither
liveness under fairness nor `ENABLED`). Every invariant
and action property that a passing run checks, and each refinement, is stated by a theorem.
No model needs induction over data or a `RECURSIVE` operator.

## 8. Where the code and its documentation disagree

The first is the run `form_fence`, with its quotation in `findings`. For each of the others, the module
states as a formula what the code does not keep; a line in the run's `.cfg` brings the trace (seconds).

1. **An automatic answer is fenced too early** (`AnswersFenced`, run `form_fence`). `Form.ask` compares
   the autonomy's revision when the evaluation ends (`form.ts:462`, `:426`), publishes, waits for the permit
   of settlements and then replies without looking again. `specs/decisions.md:45` has such answers fenced
   "before settlement. Any change on that chain, including revocation followed by restoration, MUST
   invalidate the result". The coordinator's answer is fenced under the permit (`:600`).
2. **A wake can be lost under a transition** (`INVARIANT WakeSurvives` in `MCRunCoordinator.cfg`). `wake` on
   an idle Session starts an execution whose `pendingWake` is false. If, before its first drain begins, a
   transition is reserved and interrupts it, the interrupt hands over `pendingWake` — nothing — and the
   wake is neither forwarded nor kept. `run-coordinator.ts:197` says "a wake rung before the transition must
   survive the interruption". `NoDoorbellLost` states what the code does keep.
3. **A family can exceed its cap** (`INVARIANT FamilyCap` in `MCGuardrailCounter.cfg`). `reserve` keeps the
   pool it found full across a suspension; a release in between empties and forgets the pool; the call
   then waits in a pool nobody releases to, and when it gives up it deletes the map entry of the *new*
   pool. (`specs/session-guardrails.md:110`.)
4. **An interrupted waiter can be given a slot** (`INVARIANT InterruptedHoldsNothing`, same file): it is
   pushed in line one operation before it is protected, and nobody takes it out or releases for it.
   (`specs/session-guardrails.md:116`.)
5. **A synthetic input's retry can be refused** (`INVARIANT SyntheticsAccepted` in
   `MCSessionInboxReuse.cfg`): `synthetic` does without the inbox lock, so that an ID of its own kind
   admitted and promoted during its transaction makes it die with a conflict, where its comment promises
   the durable record.
6. **A message can stay behind in a completed task** (`INVARIANT MessageHeard` in `MCManagedTask.cfg`).
   `send` to a task that has just ended publishes its new start and rings only then
   (`orchestration.ts:821-822`); an execution that an earlier bell left behind, gated out of its drain, is
   in its settled hook in between and completes the task, because nobody was woken since its drain began
   (`execution.ts:246`). The comment at `execution.ts:170` has completion defer to such a wake. An input left
   behind that way stays overlooked: the gated drain has cleared `woken` (`execution.ts:260`), and when the
   next message restarts the task, that drain's settled hook may complete it once more over both.
7. **A default server's startup can overrule a recovery** (`PROPERTY StartupRespectsClaims` in
   `MCManagedTask.cfg`, with `Overlap = TRUE`). `loseStaleTasks` (`task.ts:89`) publishes `lost` without
   asking whether the row is what it read; a managed startup at the same moment may have claimed it.
   `specs/session-restart-continuation.md` has every recovery transition guarded by the row's revision and
   claim.
8. **A caller of compaction can wait for a signal nobody gives** (`INVARIANT SignalFollows` in
   `MCCompactionJob.cfg`). A job is registered in the process before it is claimed; when the claim's
   publication is refused (`compaction-execution.ts:82`) the entry stays, and the next caller in this
   process that is given the same job waits for it. `CallReturns` excepts exactly these callers.
9. **An interrupted call can leave its lease behind** (`INVARIANT LeaseHasHolder` in `MCShellNotice.cfg`).
   Backgrounding a job takes the lease (`job.ts:308`) before the call forks the fiber that releases it
   (`tool/shell.ts:164`); a call interrupted in between leaves the Session outstanding until the process
   ends. `specs/session.md:108`: "A background shell retains a process-local outstanding lease across
   process settlement and releases it after its synthetic notice admission, or discards that notice when
   its Session has been deleted".

Observations. *Mutex, coordinator, log, inbox*: an entry stranded in the keyed mutex stays for the life
of the process; a second `interrupt` returns before the first one's cleanup has ended (so transitions
await idleness, and are right to); a `publish` interrupted between commit and notification leaves a
durable event that no live client is told of (`NoSilentGap` excepts it); a drain that fails after it has
promoted something rings no bell for the rows left behind (`excused`). *Tasks*: the interrupt that
`subagent_report` forks may come after the answer's own bell and discard it; inputs of a failed task
wait for the next `send`; a cancel followed by a send can continue a child with uncertain tools without
a decision of the user, and one cut off between the withdrawal of the recovery question and its own
request leaves a waiting task whose question no review item owns, which the parent may answer over
uncertain tools. *Compaction*: `specs/session.md:336` says that the gate reloads the candidate and
continues when another process has the lease, but `run` polls until the job is terminal; an insert that
meets the unique index dies instead of reporting a conflict; `advanceBoundary` of two processes may
move a boundary back. *Shells*: a crash between the admission of a notice and the clearing of its row
reports a delivered notice as lost; a shell removed between its move and `noticeOwed` owes nothing
(`unowed`). *Forms*: a settlement whose publication fails leaves the form open with nobody waiting
(`missed`); a conversion that fails leaves the remaining forms open for a sleeping user (logged, as the
docs say); an ask that has read "asleep" opens a review without asking whether a prompt came meanwhile.

## 9. Not modelled, and why

The models cover what interleaves. Most of the repository does not: of its 400 000 lines, the
terminal UI, the web client, generated clients, provider adapters and content stores are far the
larger part, and they hold presentation, formats and data.

* **Durable event replay** and **coordination** are planned (section 10).
* **`question.ts`, `permission.ts` and guardrail reviews**: protocols like that of `Form` over other
  payloads. `Question.ask` has no caller in production code; it looks at `superseded` before it awaits the
  autonomy and registers the request only then (`:368-377`), where `Form` looks again after it has
  created its form.
* **What the modelled components leave out** is listed with each module in section 4.
* **Runner beyond the drain loop, Session operations beyond prompt, synthetic, shell and transitions**:
  their control is a sequence inside one fiber; what interleaves is in the modules above. Staged reverts
  are committed by the next prompt; they are a hazard without a property.
* **Autonomy, keep-awake**: a record with a revision, which is in `Form`, and the operating system.
* **Dots, remote control, relay**: a protocol of its own with authentication.
* **Project artifacts, memory, terminals**: a content store, search and ranking, a cache with an atomic
  removal: data more than control.
* **Providers, tools, plugins, MCP**: external services; models choose their outcomes freely.
* **TUI, clients, protocol, schema**: presentation, formats, generated code.

## 10. Plan

Done, with proofs: `KeyedMutex`, `RunCoordinator`, `GuardrailCounter`, `EventLog`, `EventFeed`, `Form`,
`SessionInbox`, `ShellNotice`, `ManagedTask`, `CompactionJob`.

| Next | Models | Properties and theorems aimed at |
|---|---|---|
| `ManagedTask` with `Doorbell` | the bell of a child's execution in each life of a server, with its hooks, stops and shutdowns | that it takes no other steps than `Doorbell`, as `UsesDoorbell` says of `SessionInbox` |
| `EventReplay` | `replay`, `replayAll`, `claim` over the storage of `EventLog` | stored events never change; owner fencing |
| `Coordination` | projects with revisions and hand-offs | one owner, no lost update |
