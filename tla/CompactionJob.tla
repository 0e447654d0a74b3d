--------------------------- MODULE CompactionJob ---------------------------
(***************************************************************************)
(* The compaction jobs of one Session and the processes that share them    *)
(* through the database: packages/core/src/session                         *)
(*   compaction-job.ts        admission, leases and settlement             *)
(*   compaction-execution.ts  the executor and its registry, per process   *)
(*   context-state.ts         activation, which settles a job as ended     *)
(*   runtime.ts, runner/compaction-gate.ts   who asks for a compaction     *)
(* Jobs are numbered in the order of their creation.  A process has one    *)
(* call at a time, for every caller holds the Session's admission gate.    *)
(* What a manifest contains is left out: building one, and the checks of   *)
(* protected state and selectors, may fail at any time.                    *)
(***************************************************************************)
EXTENDS Naturals, FiniteSets, FiniteSetsExt

CONSTANTS Processes,
          Requests,            \* pairs of a kind and a configuration digest
          ActivationAttempts,
          MaxJobs,             \* bound: jobs ever admitted
          MaxHead,             \* bound: complete messages
          MaxFaults,           \* bound: deaths, and leases a live worker lets expire
          None

ASSUME Assumptions ==
  /\ None \notin Processes
  /\ \A r \in Requests : r[1] \in {"advise", "manual", "mandatory"}
  /\ {ActivationAttempts, MaxJobs, MaxHead} \subseteq Nat \ {0}
  /\ MaxFaults \in Nat

VARIABLES
  \* durable
  jobs,      \* the rows, by number
  revision,  \* of the Session's context
  head,      \* its latest complete message
  \* per process
  call,      \* the caller that holds the admission gate
  active,    \* the executor's registry: jobs with a signal to wait for
  worker,    \* the background fiber of a job: phase, attempts, failure
  \* environment
  faults

vars == <<jobs, revision, head, call, active, worker, faults>>

Jobs == 1..MaxJobs
Kinds == {"advise", "manual", "mandatory"}
Configs == {r[2] : r \in Requests}
Unused == {j \in Jobs : jobs[j].status = "none"}
Pending == {j \in Jobs : jobs[j].status = "pending"}
Running == {j \in Jobs : jobs[j].status = "running"}
Active == Pending \union Running
Terminal(j) == jobs[j].status \in {"ended", "failed"}
Holds(p, j) == jobs[j].status = "running" /\ jobs[j].owner = p

NoJob == [status |-> "none", through |-> 0, base |-> 0, config |-> None, owner |-> None, live |-> FALSE, code |-> "none"]
NoCall == [pc |-> "idle", kind |-> "manual", job |-> 0, through |-> 0, base |-> 0, old |-> 0, config |-> None]
NoWorker == [phase |-> "none", tries |-> 0, code |-> "none"]

Init ==
  /\ jobs = [j \in Jobs |-> NoJob]
  /\ revision = 0 /\ head = 1
  /\ call = [p \in Processes |-> NoCall]
  /\ active = [p \in Processes |-> {}]
  /\ worker = [p \in Processes |-> [j \in Jobs |-> NoWorker]]
  /\ faults = 0

-----------------------------------------------------------------------------
(* A call: what it reads at the gate, and its admission.                   *)

At(p, pc) == call[p].pc = pc
Goto(p, pc) == call' = [call EXCEPT ![p].pc = pc]
Join(p, j) ==
  call' = [call EXCEPT ![p] = [NoCall EXCEPT !.pc = "start", !.job = j,
                               !.kind = IF call[p].kind = "advise" THEN "advise" ELSE "manual"]]
Return(p) == call' = [call EXCEPT ![p] = NoCall]

Calling == {p \in Processes : call[p].pc \notin {"idle", "dead"}}

(* hasUnchangedDeterministicFailure                                        *)
FailedBefore(through, config) ==
  \E j \in Jobs : /\ jobs[j].status = "failed" /\ jobs[j].code = "deterministic"
                  /\ jobs[j].through = through /\ jobs[j].base = revision /\ jobs[j].config = config

(* Behind the gate, who waits joins the oldest active job.  A new one is   *)
(* admitted otherwise, up to a boundary that may have been read before.    *)
Enter(p, kind, config, through) ==
  /\ At(p, "idle")
  /\ Cardinality(Unused) > Cardinality(Calling)
  /\ \/ /\ kind # "advise" /\ Active # {}
        /\ call' = [call EXCEPT ![p] = [NoCall EXCEPT !.pc = "start", !.job = Min(Active)]]
     \/ /\ kind = "advise" \/ Active = {}
        /\ kind = "manual" \/ ~FailedBefore(through, config)
        /\ call' = [call EXCEPT ![p] = [NoCall EXCEPT !.pc = "admit", !.kind = kind, !.config = config,
                                                     !.through = through, !.base = revision]]
  /\ UNCHANGED <<jobs, revision, head, active, worker, faults>>

Compatible(p, j) == jobs[j].base = call[p].base /\ jobs[j].config = call[p].config

(* admitUnlocked decides from the rows it reads ...                        *)
Admit(p) ==
  /\ At(p, "admit")
  /\ IF call[p].kind = "advise" /\ Active # {}
     THEN Join(p, IF Running # {} THEN Min(Running) ELSE Min(Active))
     ELSE IF revision # call[p].base \/ Cardinality(Pending) > 1 THEN Return(p)
     ELSE IF Pending = {} THEN Goto(p, "insert")
     ELSE LET j == Min(Pending) IN
          call' = [call EXCEPT ![p].pc = IF Compatible(p, j) THEN "advance" ELSE "replace",
                               ![p].job = j, ![p].old = jobs[j].through]
  /\ UNCHANGED <<jobs, revision, head, active, worker, faults>>

(* ... and then advances the pending row, if it still is,                  *)
Advance(p) ==
  /\ At(p, "advance")
  /\ IF call[p].through > call[p].old /\ call[p].job \in Pending
     THEN jobs' = [jobs EXCEPT ![call[p].job].through = call[p].through]
     ELSE UNCHANGED jobs
  /\ Join(p, call[p].job)
  /\ UNCHANGED <<revision, head, active, worker, faults>>

(* or settles an incompatible one as superseded,                           *)
Replace(p) ==
  /\ At(p, "replace")
  /\ IF call[p].job \in Pending
     THEN jobs' = [jobs EXCEPT ![call[p].job].status = "failed", ![call[p].job].code = "superseded"]
          /\ Goto(p, "insert")
     ELSE Return(p) /\ UNCHANGED jobs
  /\ UNCHANGED <<revision, head, active, worker, faults>>

(* and inserts; one pending row per base revision, or the call dies.       *)
Insert(p) ==
  LET j == Min(Unused) IN
  /\ At(p, "insert")
  /\ IF \E k \in Pending : jobs[k].base = call[p].base
     THEN Return(p) /\ UNCHANGED jobs
     ELSE /\ jobs' = [jobs EXCEPT ![j] = [NoJob EXCEPT !.status = "pending", !.through = call[p].through,
                                                       !.base = call[p].base, !.config = call[p].config]]
          /\ Join(p, j)
  /\ UNCHANGED <<revision, head, active, worker, faults>>

-----------------------------------------------------------------------------
(* start: register the job, claim it, fork its worker.                     *)

Claimed(p, j) ==
  /\ jobs' = [jobs EXCEPT ![j].status = "running", ![j].owner = p, ![j].live = TRUE]
  /\ worker' = [worker EXCEPT ![p][j] = [phase |-> "build", tries |-> ActivationAttempts, code |-> "none"]]

Started(p) == IF call[p].kind = "advise" THEN Return(p) ELSE Goto(p, "wait")

Start(p) ==
  LET j == call[p].job IN
  /\ At(p, "start")
  /\ IF Terminal(j) \/ j \in active[p]
     THEN Started(p) /\ UNCHANGED active
     ELSE Goto(p, "claim") /\ active' = [active EXCEPT ![p] = @ \union {j}]
  /\ UNCHANGED <<jobs, revision, head, worker, faults>>

(* Not claimed: another process works on it, or on another job.            *)
NotClaimed(p) ==
  /\ active' = [active EXCEPT ![p] = @ \ {call[p].job}]
  /\ IF call[p].job \in Pending THEN Return(p) ELSE Started(p)

(* A mutant: a running job is left to its owner, dead or alive.            *)
ClaimPending(p) ==
  LET j == call[p].job IN
  /\ At(p, "claim")
  /\ IF j \in Pending /\ Running = {}
     THEN Goto(p, "publish") /\ UNCHANGED active
     ELSE NotClaimed(p)
  /\ UNCHANGED <<jobs, worker, revision, head, faults>>

(* claimUnlocked: an expired lease is taken over by one guarded update ... *)
Claim(p) ==
  LET j == call[p].job IN
  /\ At(p, "claim")
  /\ \/ /\ j \in Running /\ ~jobs[j].live
        /\ Claimed(p, j) /\ Started(p) /\ UNCHANGED active
     \/ /\ Terminal(j) \/ (j \in Running /\ jobs[j].live) \/ (j \in Pending /\ Running # {})
        /\ NotClaimed(p) /\ UNCHANGED <<jobs, worker>>
     \/ /\ j \in Pending /\ Running = {}
        /\ Goto(p, "publish") /\ UNCHANGED <<jobs, active, worker>>
  /\ UNCHANGED <<revision, head, faults>>

(* ... a pending job starts by an event whose commit checks again.  The    *)
(* refusal leaves start by an error, past the registry's clean-up.         *)
Publish(p) ==
  LET j == call[p].job IN
  /\ At(p, "publish")
  /\ IF j \in Pending /\ Running = {}
     THEN Claimed(p, j) /\ Started(p)
     ELSE Return(p) /\ UNCHANGED <<jobs, worker>>
  /\ UNCHANGED <<revision, head, active, faults>>

-----------------------------------------------------------------------------
(* run: wait for the worker of this process, or poll for another's.        *)

Wait(p) ==
  LET j == call[p].job IN
  /\ At(p, "wait")
  /\ IF Terminal(j) THEN Return(p)
     ELSE Goto(p, IF j \in active[p] THEN "await" ELSE "start")
  /\ UNCHANGED <<jobs, revision, head, active, worker, faults>>

Signalled(p) ==
  /\ At(p, "await") /\ call[p].job \notin active[p]
  /\ Goto(p, "wait")
  /\ UNCHANGED <<jobs, revision, head, active, worker, faults>>

(* The caller is interrupted; start is uninterruptible, the worker stays.  *)
Quit(p) ==
  /\ call[p].pc \notin {"idle", "dead", "start", "claim", "publish"}
  /\ Return(p)
  /\ UNCHANGED <<jobs, revision, head, active, worker, faults>>

-----------------------------------------------------------------------------
(* The worker.                                                             *)

Fails(p, j, code) == worker' = [worker EXCEPT ![p][j] = [NoWorker EXCEPT !.phase = "settle", !.code = code]]
Ends(p, j) == worker' = [worker EXCEPT ![p][j] = [NoWorker EXCEPT !.phase = "done"]]

Build(p, j) ==
  /\ worker[p][j].phase = "build"
  /\ \/ worker' = [worker EXCEPT ![p][j].phase = "activate"]
     \/ \E code \in {"deterministic", "other"} : Fails(p, j, code)
  /\ UNCHANGED <<jobs, revision, head, call, active, faults>>

(* A mutant: the transaction does not ask whose job it settles.            *)
ActivateUnfenced(p, j) ==
  /\ worker[p][j].phase = "activate"
  /\ revision = jobs[j].base
  /\ revision' = revision + 1
  /\ jobs' = IF Holds(p, j) THEN [jobs EXCEPT ![j].status = "ended", ![j].owner = None, ![j].live = FALSE] ELSE jobs
  /\ Ends(p, j)
  /\ UNCHANGED <<head, call, active, faults>>

(* One transaction: the context moves on and the job has ended.            *)
Activate(p, j) ==
  /\ worker[p][j].phase = "activate"
  /\ Holds(p, j) /\ revision = jobs[j].base
  /\ revision' = revision + 1
  /\ jobs' = [jobs EXCEPT ![j].status = "ended", ![j].owner = None, ![j].live = FALSE]
  /\ Ends(p, j)
  /\ UNCHANGED <<head, call, active, faults>>

(* Or it is refused: a race it may retry, or an error; the manifest that   *)
(* another owner of this job has activated counts as its own.              *)
Refuse(p, j) ==
  /\ worker[p][j].phase = "activate"
  /\ \/ /\ worker[p][j].tries > 1
        /\ worker' = [worker EXCEPT ![p][j].phase = "build", ![p][j].tries = @ - 1]
     \/ Fails(p, j, "other")
     \/ jobs[j].status = "ended" /\ Ends(p, j)
  /\ UNCHANGED <<jobs, revision, head, call, active, faults>>

(* The heartbeat renews a lease it still has, expired or not; when it has  *)
(* been taken over, it ends the race with the worker.                      *)
Heartbeat(p, j) ==
  /\ worker[p][j].phase \in {"build", "activate"}
  /\ IF Holds(p, j)
     THEN ~jobs[j].live /\ jobs' = [jobs EXCEPT ![j].live = TRUE] /\ UNCHANGED worker
     ELSE Fails(p, j, "other") /\ UNCHANGED jobs
  /\ UNCHANGED <<revision, head, call, active, faults>>

Locked(p) == call[p].pc \in {"advance", "replace", "insert", "publish"}

(* A mutant: the failure is recorded whoever holds the lease.              *)
SettleUnfenced(p, j) ==
  /\ worker[p][j].phase = "settle" /\ ~Locked(p)
  /\ jobs' = IF j \in Running
             THEN [jobs EXCEPT ![j].status = "failed", ![j].owner = None, ![j].live = FALSE, ![j].code = worker[p][j].code]
             ELSE jobs
  /\ Ends(p, j)
  /\ UNCHANGED <<revision, head, call, active, faults>>

(* settle, and fail under the state lock: refused without the lease.       *)
Settle(p, j) ==
  /\ worker[p][j].phase = "settle" /\ ~Locked(p)
  /\ jobs' = IF Holds(p, j)
             THEN [jobs EXCEPT ![j].status = "failed", ![j].owner = None, ![j].live = FALSE, ![j].code = worker[p][j].code]
             ELSE jobs
  /\ Ends(p, j)
  /\ UNCHANGED <<revision, head, call, active, faults>>

Done(p, j) ==
  /\ worker[p][j].phase = "done"
  /\ worker' = [worker EXCEPT ![p][j] = NoWorker]
  /\ active' = [active EXCEPT ![p] = @ \ {j}]
  /\ UNCHANGED <<jobs, revision, head, call, faults>>

-----------------------------------------------------------------------------
(* The environment.                                                        *)

Complete ==
  /\ head < MaxHead /\ head' = head + 1
  /\ UNCHANGED <<jobs, revision, call, active, worker, faults>>

Working(j) == worker[jobs[j].owner][j].phase # "none"

(* Thirty seconds without a heartbeat: the owner is gone, or has stalled.  *)
Expire(j) ==
  /\ j \in Running /\ jobs[j].live
  /\ IF Working(j) THEN faults < MaxFaults /\ faults' = faults + 1 ELSE UNCHANGED faults
  /\ jobs' = [jobs EXCEPT ![j].live = FALSE]
  /\ UNCHANGED <<revision, head, call, active, worker>>

(* A process dies, or shuts down; the one that replaces it is another.     *)
Crash(p) ==
  /\ ~At(p, "dead")
  /\ faults < MaxFaults /\ faults' = faults + 1
  /\ call' = [call EXCEPT ![p] = [NoCall EXCEPT !.pc = "dead"]]
  /\ active' = [active EXCEPT ![p] = {}]
  /\ worker' = [worker EXCEPT ![p] = [j \in Jobs |-> NoWorker]]
  /\ UNCHANGED <<jobs, revision, head>>

CallStep(p) ==
  \/ Admit(p) \/ Advance(p) \/ Replace(p) \/ Insert(p)
  \/ Start(p) \/ Claim(p) \/ Publish(p) \/ Wait(p) \/ Signalled(p)

WorkerStep(p, j) ==
  Build(p, j) \/ Activate(p, j) \/ Refuse(p, j) \/ Heartbeat(p, j) \/ Settle(p, j) \/ Done(p, j)

Next ==
  \/ Complete
  \/ \E j \in Jobs : Expire(j)
  \/ \E p \in Processes :
       \/ \E request \in Requests, through \in 1..head : Enter(p, request[1], request[2], through)
       \/ CallStep(p) \/ Quit(p) \/ Crash(p)
       \/ \E j \in Jobs : WorkerStep(p, j)

Spec == Init /\ [][Next]_vars

(* Fibers run; a lease nobody renews expires.  Nobody has to call, and     *)
(* messages need not complete.                                             *)
Fairness ==
  /\ \A p \in Processes : WF_vars(CallStep(p))
  /\ \A p \in Processes, j \in Jobs : WF_vars(WorkerStep(p, j))
  /\ \A j \in Jobs : WF_vars(Expire(j) /\ UNCHANGED faults)

FairSpec == Spec /\ Fairness

-----------------------------------------------------------------------------
TypeOK ==
  /\ jobs \in [Jobs -> [status : {"none", "pending", "running", "ended", "failed"}, through : 0..MaxHead,
                        base : 0..MaxJobs, config : Configs \union {None}, owner : Processes \union {None},
                        live : BOOLEAN, code : {"none", "superseded", "deterministic", "other"}]]
  /\ revision \in 0..MaxJobs /\ head \in 1..MaxHead
  /\ call \in [Processes -> [pc : {"idle", "dead", "admit", "advance", "replace", "insert", "start", "claim",
                                   "publish", "wait", "await"},
                             kind : Kinds, job : 0..MaxJobs, through : 0..MaxHead, base : 0..MaxJobs,
                             old : 0..MaxHead, config : Configs \union {None}]]
  /\ active \in [Processes -> SUBSET Jobs]
  /\ worker \in [Processes -> [Jobs -> [phase : {"none", "build", "activate", "settle", "done"},
                                        tries : 0..ActivationAttempts,
                                        code : {"none", "deterministic", "other"}]]]
  /\ faults \in 0..MaxFaults
  /\ \A j \in Jobs : j \in Running <=> jobs[j].owner # None

(* Two processes that both saw no running job, or both saw a lease expire, *)
(* never both start: one compaction of the Session runs at a time.         *)
OneRunning == Cardinality(Running) <= 1

(* The context of the Session moved on exactly once for every job that     *)
(* ended, whoever else had built a context for the job meanwhile.          *)
OneRevision == revision = Cardinality({j \in Jobs : jobs[j].status = "ended"})

(* The type invariant and the two before, which a run checks together.     *)
JobInv == TypeOK /\ OneRunning /\ OneRevision

(* The worker of p, when it has come to that, settles the job.             *)
Settles(p, j) ==
  /\ worker[p][j].phase = (IF jobs'[j].status = "ended" THEN "activate" ELSE "settle")
  /\ worker'[p][j].phase = "done"

(* What a worker was told to cover stands while it works, although other   *)
(* admissions may have found its job pending, and a running job is settled *)
(* by a step of the worker of the process that holds its lease: another    *)
(* one, whose lease was taken over, can neither end the job nor fail it    *)
(* under the new owner.  It ends only if the context is still the one it   *)
(* was built on, and what is settled stays settled.                        *)
HolderDecides ==
  [][\A j \in Jobs :
       /\ j \in Running => jobs'[j].through = jobs[j].through /\ jobs'[j].base = jobs[j].base
       /\ (j \in Running /\ Terminal(j)') => Settles(jobs[j].owner, j)
       /\ (j \in Running /\ jobs'[j].status = "ended") => revision = jobs[j].base /\ revision' = revision + 1
       /\ Terminal(j) => jobs'[j] = jobs[j]]_vars

(* A caller waits for the signal of a registered job that has no worker.   *)
Jammed(p) ==
  At(p, "await") /\ call[p].job \in active[p] /\ worker[p][call[p].job].phase = "none"

(* Whoever compacts and waits gets an answer, whichever process works and  *)
(* whichever dies, unless it waits for a signal nobody will give.          *)
CallReturns ==
  \A p \in Processes : At(p, "wait") ~> (call[p].pc \in {"idle", "dead"} \/ Jammed(p))

(* The signal a caller waits for has somebody who will give it.  The code  *)
(* does not keep this: see the README.                                     *)
SignalFollows == \A p \in Processes : ~Jammed(p)
=============================================================================
