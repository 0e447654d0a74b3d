------------------------ MODULE CompactionJobProofs ------------------------
(***************************************************************************)
(* For any number of processes and requests: one compaction of a Session   *)
(* runs at a time, its context moves on once for every job that ended, and *)
(* a job is settled by the process that holds its lease.                   *)
(*                                                                         *)
(* None of this is inductive alone.  That an insertion finds a number that *)
(* is free needs Room; that a step changes a job that exists needs Named;  *)
(* that a holder settles needs its worker to be there, HolderWorks.  What  *)
(* a step may do to the rows (RowStep) and to the calls (CallMoves) is     *)
(* shown once for every action, and the invariants follow from that.       *)
(*                                                                         *)
(* The second part is about the locks the services take.                   *)
(***************************************************************************)
EXTENDS CompactionJob, KeyedMutex, FiniteSetTheorems, WellFoundedInduction, TLAPS

Rows == [status : {"none", "pending", "running", "ended", "failed"}, through : 0..MaxHead,
         base : 0..MaxJobs, config : Configs \union {None}, owner : Processes \union {None},
         live : BOOLEAN, code : {"none", "superseded", "deterministic", "other"}]
Calls == [pc : {"idle", "dead", "admit", "advance", "replace", "insert", "start", "claim",
                "publish", "wait", "await"},
          kind : Kinds, job : 0..MaxJobs, through : 0..MaxHead, base : 0..MaxJobs,
          old : 0..MaxHead, config : Configs \union {None}]
Workers == [phase : {"none", "build", "activate", "settle", "done"},
            tries : 0..ActivationAttempts, code : {"none", "deterministic", "other"}]

(* A row has an owner exactly while its job runs.                          *)
Owned(row) == row.status = "running" <=> row.owner # None

LEMMA Types ==
  TypeOK <=> /\ jobs \in [Jobs -> Rows]
             /\ revision \in 0..MaxJobs /\ head \in 1..MaxHead
             /\ call \in [Processes -> Calls]
             /\ active \in [Processes -> SUBSET Jobs]
             /\ worker \in [Processes -> [Jobs -> Workers]]
             /\ faults \in 0..MaxFaults
             /\ \A j \in Jobs : Owned(jobs[j])
  BY DEF TypeOK, Rows, Calls, Workers, Owned, Running

(* The oldest of some jobs is one of them.                                 *)
LEMMA LeastIn == ASSUME NEW S, S \subseteq Jobs, S # {}
                 PROVE  Min(S) \in S
<1> DEFINE R == {ss \in Nat \X Nat : ss[1] < ss[2]}
<1>1. S \subseteq Nat
  BY Assumptions DEF Jobs
<1>2. OpToRel(<, Nat) = R
  BY DEF OpToRel
<1>3. IsWellFoundedOn(R, Nat)
  BY <1>2, NatLessThanWellFounded
<1>4. PICK x \in S : \A y \in S : ~(<<y, x>> \in R)
  <2> HIDE DEF R
  <2> QED BY <1>1, <1>3, WFMin
<1>5. ASSUME NEW y \in S PROVE x <= y
  <2>1. x \in Nat /\ y \in Nat
    BY <1>1
  <2> DEFINE pair == <<y, x>>
  <2>2. pair \in Nat \X Nat /\ pair[1] = y /\ pair[2] = x
    BY <2>1
  <2>3. ~(y < x)
    <3> SUFFICES ASSUME y < x PROVE pair \in R
      BY <1>4
    <3> HIDE DEF pair
    <3> QED BY <2>2
  <2> QED BY <2>1, <2>3
<1> QED BY <1>5 DEF Min

(* A call that has chosen its job has chosen one that was admitted.        *)
Naming == {"advance", "replace", "start", "claim", "publish", "wait", "await"}
Named ==
  \A p \in Processes :
    call[p].pc \in Naming => call[p].job \in Jobs /\ jobs[call[p].job].status # "none"

(* There is a number for every call that may come to insert a job.         *)
Admitting == {p \in Processes : call[p].pc \in {"admit", "replace", "insert"}}
Room == IsFiniteSet(Calling) /\ Cardinality(Admitting) <= Cardinality(Unused)

(* Two running jobs are one.                                               *)
Alone == \A i, j \in Running : i = j

LEMMA Sizes == /\ None \notin Processes
               /\ ActivationAttempts \in Nat \ {0} /\ MaxJobs \in Nat \ {0} /\ MaxHead \in Nat \ {0}
               /\ MaxFaults \in Nat
               /\ \A r \in Requests : r[1] \in Kinds /\ r[2] \in Configs
  BY Assumptions DEF Kinds, Configs

LEMMA Plain == ASSUME TypeOK
               PROVE  /\ NoCall \in Calls /\ NoWorker \in Workers
                      /\ NoJob \in Rows /\ Owned(NoJob)
                      /\ Unused \subseteq Jobs /\ Pending \subseteq Jobs /\ Running \subseteq Jobs
                      /\ Active \subseteq Jobs
  BY Sizes DEF NoCall, Calls, NoWorker, Workers, NoJob, Rows, Owned, Unused, Pending, Running, Active, Kinds

LEMMA Subsets == ASSUME NEW S, S \subseteq Jobs
                 PROVE  IsFiniteSet(S) /\ Cardinality(S) \in 0..MaxJobs
<1>1. IsFiniteSet(Jobs) /\ Cardinality(Jobs) = MaxJobs
  BY Sizes, FS_Interval DEF Jobs
<1> QED BY <1>1, FS_Subset, FS_CardinalityType

LEMMA CallUpdate == ASSUME TypeOK, NEW p \in Processes, NEW c \in Calls, call' = [call EXCEPT ![p] = c]
                    PROVE  call' \in [Processes -> Calls]
  BY Types

LEMMA RowUpdate == ASSUME TypeOK, NEW j \in Jobs, NEW r \in Rows, Owned(r), jobs' = [jobs EXCEPT ![j] = r]
                   PROVE  jobs' \in [Jobs -> Rows] /\ \A k \in Jobs : Owned(jobs'[k])
  BY Types

-----------------------------------------------------------------------------
LEMMA GotoType == ASSUME TypeOK, NEW p \in Processes,
                         NEW point \in {"idle", "admit", "advance", "replace", "insert", "start", "claim",
                                      "publish", "wait", "await"}, Goto(p, point)
                  PROVE  call' \in [Processes -> Calls]
<1> DEFINE c == [call[p] EXCEPT !.pc = point]
<1>1. c \in Calls
  BY Types DEF Calls
<1>2. call' = [call EXCEPT ![p] = c]
  BY DEF Goto
<1> QED BY <1>1, <1>2, CallUpdate

LEMMA JoinType == ASSUME TypeOK, NEW p \in Processes, NEW j \in Jobs, Join(p, j)
                  PROVE  call' \in [Processes -> Calls]
<1> DEFINE kind == IF call[p].kind = "advise" THEN "advise" ELSE "manual"
           c == [NoCall EXCEPT !.pc = "start", !.job = j, !.kind = kind]
<1>1. j \in 0..MaxJobs /\ kind \in Kinds
  BY Sizes DEF Jobs, Kinds
<1>2. c \in Calls
  <2> HIDE DEF kind
  <2> QED BY <1>1, Plain DEF Calls, NoCall
<1>3. call' = [call EXCEPT ![p] = c]
  BY DEF Join
<1> QED BY <1>2, <1>3, CallUpdate

LEMMA ReturnType == ASSUME TypeOK, NEW p \in Processes, Return(p)
                    PROVE  call' \in [Processes -> Calls]
  BY Plain, CallUpdate DEF Return

LEMMA StartedType == ASSUME TypeOK, NEW p \in Processes, Started(p)
                     PROVE  call' \in [Processes -> Calls]
  BY GotoType, ReturnType DEF Started

LEMMA ClaimedType == ASSUME TypeOK, NEW p \in Processes, NEW j \in Jobs, Claimed(p, j)
                     PROVE  /\ jobs' \in [Jobs -> Rows] /\ \A k \in Jobs : Owned(jobs'[k])
                            /\ worker' \in [Processes -> [Jobs -> Workers]]
<1>1. jobs[j] \in Rows /\ worker[p] \in [Jobs -> Workers]
  BY Types
<1> DEFINE r == [jobs[j] EXCEPT !.status = "running", !.owner = p, !.live = TRUE]
<1>2. r \in Rows /\ Owned(r)
  BY <1>1, Sizes DEF Rows, Owned
<1>3. jobs' = [jobs EXCEPT ![j] = r]
  BY <1>1, Types DEF Claimed, Rows
<1>4. [phase |-> "build", tries |-> ActivationAttempts, code |-> "none"] \in Workers
  BY Sizes DEF Workers
<1>5. worker' \in [Processes -> [Jobs -> Workers]]
  BY <1>4, Types DEF Claimed
<1> QED BY <1>2, <1>3, <1>5, RowUpdate

-----------------------------------------------------------------------------
(* What a step may do to the rows.                                         *)

(* It is admitted, advanced, or superseded;                                *)
Waits(j) ==
  /\ jobs[j].status \in {"none", "pending"} /\ jobs'[j].status \in {"pending", "failed"}
  /\ jobs[j].status = "none" => jobs'[j].status = "pending" /\ \E p \in Processes : Insert(p)
  /\ revision' = revision

(* starts when no other runs;                                              *)
Starts(j) ==
  /\ jobs[j].status = "pending" /\ jobs'[j].status = "running" /\ Running = {}
  /\ \E p \in Processes : Claimed(p, j)
  /\ revision' = revision

(* runs on or fails, under the hand of its holder;                         *)
Works(j) ==
  /\ jobs[j].status = "running" /\ jobs'[j].status \in {"running", "failed"}
  /\ jobs'[j].through = jobs[j].through /\ jobs'[j].base = jobs[j].base
  /\ jobs'[j].status = "running" => jobs'[j].owner = jobs[j].owner \/ \E p \in Processes : Claimed(p, j)
  /\ jobs'[j].status = "failed" => Settles(jobs[j].owner, j)
  /\ revision' = revision

(* ends, and the context moves on from its base.                           *)
Finishes(j) ==
  /\ jobs[j].status = "running" /\ jobs'[j].status = "ended"
  /\ jobs'[j].through = jobs[j].through /\ jobs'[j].base = jobs[j].base
  /\ Settles(jobs[j].owner, j)
  /\ revision = jobs[j].base /\ revision' = revision + 1

Touches(j) ==
  /\ jobs' \in [Jobs -> Rows] /\ \A k \in Jobs : Owned(jobs'[k])
  /\ \A k \in Jobs \ {j} : jobs'[k] = jobs[k]
  /\ Waits(j) \/ Starts(j) \/ Works(j) \/ Finishes(j)

RowStep == UNCHANGED <<jobs, revision>> \/ \E j \in Jobs : Touches(j)

LEMMA OneRow == ASSUME TypeOK, NEW j \in Jobs, NEW r \in Rows, Owned(r), jobs' = [jobs EXCEPT ![j] = r],
                       Waits(j) \/ Starts(j) \/ Works(j) \/ Finishes(j)
                PROVE  RowStep
<1>1. \A k \in Jobs \ {j} : jobs'[k] = jobs[k]
  BY Types
<1> QED BY <1>1, RowUpdate DEF RowStep, Touches

LEMMA AdvanceRow == ASSUME TypeOK, Named, NEW p \in Processes, Advance(p) PROVE RowStep
<1>1. CASE UNCHANGED jobs
  BY <1>1 DEF Advance, RowStep
<1>2. CASE call[p].job \in Pending /\ jobs' = [jobs EXCEPT ![call[p].job].through = call[p].through]
  <2> DEFINE j == call[p].job
             r == [jobs[j] EXCEPT !.through = call[p].through]
  <2>1. j \in Jobs /\ jobs[j] \in Rows /\ jobs[j].status = "pending" /\ Owned(jobs[j]) /\ call[p] \in Calls
    BY <1>2, Types DEF Pending
  <2>2. call[p].through \in 0..MaxHead
    BY <2>1 DEF Calls
  <2>3. r \in Rows /\ Owned(r) /\ r.status = "pending"
    BY <2>1, <2>2 DEF Rows, Owned
  <2>4. jobs' = [jobs EXCEPT ![j] = r] /\ jobs'[j] = r
    BY <1>2, <2>1, Types
  <2>5. Waits(j)
    BY <2>1, <2>3, <2>4 DEF Waits, Advance
  <2> QED BY <2>1, <2>3, <2>4, <2>5, OneRow
<1> QED BY <1>1, <1>2 DEF Advance

LEMMA ReplaceRow == ASSUME TypeOK, NEW p \in Processes, Replace(p) PROVE RowStep
<1>1. CASE UNCHANGED jobs
  BY <1>1 DEF Replace, RowStep
<1>2. CASE /\ call[p].job \in Pending
           /\ jobs' = [jobs EXCEPT ![call[p].job].status = "failed", ![call[p].job].code = "superseded"]
  <2> DEFINE j == call[p].job
             r == [jobs[j] EXCEPT !.status = "failed", !.code = "superseded"]
  <2>1. j \in Jobs /\ jobs[j] \in Rows /\ jobs[j].status = "pending" /\ Owned(jobs[j])
    BY <1>2, Types DEF Pending
  <2>2. r \in Rows /\ Owned(r) /\ r.status = "failed"
    BY <2>1 DEF Rows, Owned
  <2>3. jobs' = [jobs EXCEPT ![j] = r] /\ jobs'[j] = r
    BY <1>2, <2>1, Types
  <2>4. Waits(j)
    BY <2>1, <2>2, <2>3 DEF Waits, Replace
  <2> QED BY <2>1, <2>2, <2>3, <2>4, OneRow
<1> QED BY <1>1, <1>2 DEF Replace

LEMMA InsertRow == ASSUME TypeOK, Unused # {}, NEW p \in Processes, Insert(p) PROVE RowStep
<1>1. CASE UNCHANGED jobs
  BY <1>1 DEF Insert, RowStep
<1>2. CASE ~UNCHANGED jobs
  <2> DEFINE j == Min(Unused)
             r == [NoJob EXCEPT !.status = "pending", !.through = call[p].through,
                                !.base = call[p].base, !.config = call[p].config]
  <2>1. j \in Unused /\ j \in Jobs /\ jobs[j].status = "none"
    <3>1. j \in Unused
      BY LeastIn, Plain
    <3> HIDE DEF j
    <3> QED BY <3>1 DEF Unused
  <2>2. call[p].through \in 0..MaxHead /\ call[p].base \in 0..MaxJobs /\ call[p].config \in Configs \union {None}
    BY Types DEF Calls
  <2>3. r \in Rows /\ Owned(r) /\ r.status = "pending"
    BY <2>2, Plain DEF Rows, Owned, NoJob
  <2> HIDE DEF r
  <2>4. jobs' = [jobs EXCEPT ![j] = r]
    BY <1>2 DEF Insert, r
  <2> HIDE DEF j
  <2>5. jobs'[j] = r
    BY <2>1, <2>4, Types
  <2>6. Waits(j)
    BY <2>1, <2>3, <2>5 DEF Waits, Insert
  <2> QED BY <2>1, <2>3, <2>4, <2>6, OneRow
<1> QED BY <1>1, <1>2

LEMMA ClaimedRow == ASSUME TypeOK, NEW p \in Processes, NEW j \in Jobs, Claimed(p, j), UNCHANGED revision,
                           j \in Running \/ (j \in Pending /\ Running = {})
                    PROVE  RowStep
<1> DEFINE r == [jobs[j] EXCEPT !.status = "running", !.owner = p, !.live = TRUE]
<1>1. jobs[j] \in Rows /\ jobs[j].status \in {"pending", "running"}
  BY Types DEF Running, Pending
<1>2. r \in Rows /\ Owned(r) /\ r.status = "running" /\ r.through = jobs[j].through /\ r.base = jobs[j].base
  BY <1>1, Sizes DEF Rows, Owned
<1>3. jobs' = [jobs EXCEPT ![j] = r] /\ jobs'[j] = r
  BY <1>1, Types DEF Claimed, Rows
<1>4. Starts(j) \/ Works(j)
  BY <1>1, <1>2, <1>3 DEF Starts, Works, Running, Pending
<1> QED BY <1>2, <1>3, <1>4, OneRow

LEMMA ClaimRow == ASSUME TypeOK, NEW p \in Processes, Claim(p) \/ Publish(p) PROVE RowStep
<1>1. CASE UNCHANGED <<jobs, revision>>
  BY <1>1 DEF RowStep
<1>2. CASE ~UNCHANGED <<jobs, revision>>
  <2> DEFINE j == call[p].job
  <2>1. Claimed(p, j) /\ UNCHANGED revision /\ (j \in Running \/ (j \in Pending /\ Running = {}))
    BY <1>2 DEF Claim, Publish
  <2> QED BY <2>1, ClaimedRow, Plain
<1> QED BY <1>1, <1>2

LEMMA EndsHere == ASSUME TypeOK, NEW p \in Processes, NEW j \in Jobs, Ends(p, j)
                  PROVE  worker'[p][j].phase = "done"
  BY Types DEF Ends, NoWorker

LEMMA ActivateRow == ASSUME TypeOK, NEW p \in Processes, NEW j \in Jobs, Activate(p, j) PROVE RowStep
<1> DEFINE r == [jobs[j] EXCEPT !.status = "ended", !.owner = None, !.live = FALSE]
<1>1. jobs[j] \in Rows /\ jobs[j].status = "running" /\ jobs[j].owner = p
  BY Types DEF Activate, Holds
<1>2. r \in Rows /\ Owned(r) /\ r.status = "ended" /\ r.through = jobs[j].through /\ r.base = jobs[j].base
  BY <1>1 DEF Rows, Owned
<1>3. jobs' = [jobs EXCEPT ![j] = r] /\ jobs'[j] = r
  BY <1>1, Types DEF Activate, Rows
<1>4. Settles(p, j)
  BY <1>2, <1>3, EndsHere DEF Settles, Activate
<1>5. Finishes(j)
  BY <1>1, <1>2, <1>3, <1>4 DEF Finishes, Activate
<1> QED BY <1>2, <1>3, <1>5, OneRow

LEMMA SettleRow == ASSUME TypeOK, NEW p \in Processes, NEW j \in Jobs, Settle(p, j) PROVE RowStep
<1>1. CASE ~Holds(p, j)
  BY <1>1 DEF Settle, RowStep
<1>2. CASE Holds(p, j)
  <2> DEFINE r == [jobs[j] EXCEPT !.status = "failed", !.owner = None, !.live = FALSE, !.code = worker[p][j].code]
  <2>1. jobs[j] \in Rows /\ jobs[j].status = "running" /\ jobs[j].owner = p /\ worker[p][j] \in Workers
    BY <1>2, Types DEF Holds
  <2>2. r \in Rows /\ Owned(r) /\ r.status = "failed" /\ r.through = jobs[j].through /\ r.base = jobs[j].base
    BY <2>1 DEF Rows, Owned, Workers
  <2>3. jobs' = [jobs EXCEPT ![j] = r] /\ jobs'[j] = r
    BY <1>2, <2>1, Types DEF Settle, Rows
  <2>4. Settles(p, j)
    BY <2>2, <2>3, EndsHere DEF Settles, Settle
  <2>5. Works(j)
    BY <2>1, <2>2, <2>3, <2>4 DEF Works, Settle
  <2> QED BY <2>2, <2>3, <2>5, OneRow
<1> QED BY <1>1, <1>2

(* A lease is renewed, or expires.                                         *)
LEMMA LeaseRow == ASSUME TypeOK, NEW j \in Jobs, NEW live \in BOOLEAN, j \in Running, UNCHANGED revision,
                         jobs' = [jobs EXCEPT ![j].live = live]
                  PROVE  RowStep
<1> DEFINE r == [jobs[j] EXCEPT !.live = live]
<1>1. jobs[j] \in Rows /\ jobs[j].status = "running" /\ Owned(jobs[j])
  BY Types DEF Running
<1>2. /\ r \in Rows /\ Owned(r)
      /\ r.status = "running" /\ r.through = jobs[j].through /\ r.base = jobs[j].base /\ r.owner = jobs[j].owner
  BY <1>1 DEF Rows, Owned
<1>3. jobs' = [jobs EXCEPT ![j] = r] /\ jobs'[j] = r
  BY <1>1, Types DEF Rows
<1>4. Works(j)
  BY <1>1, <1>2, <1>3 DEF Works
<1> QED BY <1>2, <1>3, <1>4, OneRow

(* So a call that inserts finds a number.                                  *)
LEMMA RoomForOne == ASSUME TypeOK, Room, Admitting # {} PROVE Unused # {}
<1>1. Admitting \subseteq Calling
  BY DEF Admitting, Calling
<1>2. IsFiniteSet(Admitting)
  BY <1>1, FS_Subset DEF Room
<1>3. Cardinality(Admitting) \in Nat /\ Cardinality(Admitting) # 0
  BY <1>2, FS_CardinalityType, FS_EmptySet
<1>4. Cardinality({}) = 0
  BY FS_EmptySet
<1> QED BY <1>3, <1>4 DEF Room

(* Every step does one of these to one row, or none to any.                *)
LEMMA RowSteps == ASSUME TypeOK, Named, Room, [Next]_vars PROVE RowStep
<1>1. CASE UNCHANGED <<jobs, revision>>
  BY <1>1 DEF RowStep
<1>2. CASE \E j \in Jobs : Expire(j)
  BY <1>2, LeaseRow DEF Expire
<1>3. ASSUME NEW p \in Processes, CallStep(p) PROVE RowStep
  <2>1. CASE Insert(p)
    <3>1. p \in Admitting
      BY <2>1 DEF Insert, At, Admitting
    <3> QED BY <2>1, <3>1, RoomForOne, InsertRow
  <2> QED BY <1>1, <1>3, <2>1, AdvanceRow, ReplaceRow, ClaimRow DEF CallStep, Admit, Start, Wait, Signalled
<1>4. ASSUME NEW p \in Processes, NEW j \in Jobs, WorkerStep(p, j) PROVE RowStep
  <2>1. CASE Heartbeat(p, j)
    BY <1>1, <2>1, LeaseRow DEF Heartbeat, Holds, Running
  <2> QED BY <1>1, <1>4, <2>1, ActivateRow, SettleRow DEF WorkerStep, Build, Refuse, Done
<1> QED BY <1>1, <1>2, <1>3, <1>4 DEF Next, vars, Complete, Enter, Quit, Crash

-----------------------------------------------------------------------------
(* What follows from that for the rows together.                           *)

Ended == {j \in Jobs : jobs[j].status = "ended"}

(* No two jobs ended from the same context, and none from the latest.      *)
EndedOnce ==
  /\ \A j \in Ended : jobs[j].base < revision
  /\ \A i, j \in Ended : jobs[i].base = jobs[j].base => i = j

LEMMA TouchesOne == ASSUME TypeOK, NEW j \in Jobs, Touches(j), NEW k \in Jobs, k # j
                    PROVE  jobs'[k] = jobs[k]
  BY DEF Touches

LEMMA AloneStep == ASSUME TypeOK, Alone, RowStep PROVE Alone'
<1>1. CASE UNCHANGED jobs
  BY <1>1 DEF Alone, Running
<1>2. ASSUME NEW j \in Jobs, Touches(j) PROVE Alone'
  <2>1. CASE Starts(j)
    <3>1. \A k \in Running' : k = j
      BY <1>2, <2>1, TouchesOne DEF Starts, Running
    <3> QED BY <3>1 DEF Alone
  <2>2. CASE ~Starts(j)
    <3>1. Running' \subseteq Running
      BY <1>2, <2>2, TouchesOne DEF Touches, Waits, Works, Finishes, Running
    <3> QED BY <3>1 DEF Alone
  <2> QED BY <2>1, <2>2
<1> QED BY <1>1, <1>2 DEF RowStep

LEMMA RevisionStep == ASSUME TypeOK, OneRevision, RowStep PROVE OneRevision' /\ revision' \in 0..MaxJobs
<1>1. OneRevision <=> revision = Cardinality(Ended)
  BY DEF OneRevision, Ended
<1>2. OneRevision' <=> revision' = Cardinality(Ended')
  BY DEF OneRevision, Ended
<1>3. revision' = Cardinality(Ended')
  <2>1. CASE UNCHANGED <<jobs, revision>>
    BY <1>1, <2>1 DEF Ended
  <2>2. ASSUME NEW j \in Jobs, Touches(j) PROVE revision' = Cardinality(Ended')
    <3>1. CASE Finishes(j)
      <4>1. j \notin Ended /\ Ended' = Ended \union {j}
        BY <2>2, <3>1, TouchesOne DEF Finishes, Ended
      <4>2. IsFiniteSet(Ended)
        BY Subsets DEF Ended
      <4>3. Cardinality(Ended') = Cardinality(Ended) + 1
        BY <4>1, <4>2, FS_AddElement
      <4> QED BY <1>1, <3>1, <4>3 DEF Finishes
    <3>2. CASE ~Finishes(j)
      <4>1. Ended' = Ended
        BY <2>2, <3>2, TouchesOne DEF Touches, Waits, Starts, Works, Ended
      <4> QED BY <1>1, <2>2, <3>2, <4>1 DEF Touches, Waits, Starts, Works
    <3> QED BY <3>1, <3>2
  <2> QED BY <2>1, <2>2 DEF RowStep
<1>4. Ended' \subseteq Jobs
  BY DEF Ended
<1> QED BY <1>2, <1>3, <1>4, Subsets

LEMMA EndedOnceStep == ASSUME TypeOK, EndedOnce, RowStep PROVE EndedOnce'
<1>1. CASE UNCHANGED <<jobs, revision>>
  BY <1>1 DEF EndedOnce, Ended
<1>2. ASSUME NEW j \in Jobs, Touches(j) PROVE EndedOnce'
  <2>1. revision \in Nat
    BY Types
  <2>2. CASE Finishes(j)
    <3>1. Ended' = Ended \union {j} /\ \A k \in Ended : jobs'[k] = jobs[k]
      BY <1>2, <2>2, TouchesOne DEF Finishes, Ended
    <3>2. jobs'[j].base = revision /\ revision' = revision + 1
      BY <2>2 DEF Finishes
    <3>3. \A k \in Ended : jobs[k].base \in Nat
      BY Types DEF Ended, Rows
    <3> HIDE DEF Ended
    <3> QED BY <2>1, <3>1, <3>2, <3>3 DEF EndedOnce
  <2>3. CASE ~Finishes(j)
    <3>1. Ended' = Ended /\ (\A k \in Ended : jobs'[k] = jobs[k]) /\ revision' = revision
      BY <1>2, <2>3, TouchesOne DEF Touches, Waits, Starts, Works, Ended
    <3> HIDE DEF Ended
    <3> QED BY <3>1 DEF EndedOnce
  <2> QED BY <2>2, <2>3
<1> QED BY <1>1, <1>2 DEF RowStep

LEMMA DecidesStep ==
  ASSUME TypeOK, RowStep, NEW j \in Jobs
  PROVE  /\ j \in Running => jobs'[j].through = jobs[j].through /\ jobs'[j].base = jobs[j].base
         /\ (j \in Running /\ Terminal(j)') => Settles(jobs[j].owner, j)
         /\ (j \in Running /\ jobs'[j].status = "ended") => revision = jobs[j].base /\ revision' = revision + 1
         /\ Terminal(j) => jobs'[j] = jobs[j]
<1>1. CASE UNCHANGED jobs
  BY <1>1 DEF Running, Terminal
<1>2. ASSUME NEW k \in Jobs, Touches(k), k # j PROVE jobs'[j] = jobs[j]
  BY <1>2, TouchesOne
<1>3. CASE jobs'[j] = jobs[j]
  BY <1>3 DEF Running, Terminal
<1>4. CASE Touches(j)
  BY <1>4 DEF Touches, Waits, Starts, Works, Finishes, Running, Terminal
<1> QED BY <1>1, <1>2, <1>3, <1>4 DEF RowStep

(* A job that was admitted is not forgotten, and none is admitted without  *)
(* a call that came to insert it.                                          *)
LEMMA Known == ASSUME TypeOK, RowStep, NEW j \in Jobs, jobs[j].status # "none"
               PROVE  jobs'[j].status # "none"
<1>1. CASE UNCHANGED jobs
  BY <1>1
<1>2. ASSUME NEW k \in Jobs, Touches(k) PROVE jobs'[j].status # "none"
  BY <1>2, TouchesOne DEF Touches, Waits, Starts, Works, Finishes
<1> QED BY <1>1, <1>2 DEF RowStep

-----------------------------------------------------------------------------
(* What a step may do to the calls: one of them moves on, its job is one   *)
(* that was admitted, and it came in only if there was room for another.   *)

Choosing == {"admit", "replace", "insert"}
Claiming == {"claim", "publish"}

CallMove(p, c) ==
  /\ c \in Calls /\ call' = [call EXCEPT ![p] = c]
  /\ c.pc \in Naming => c.job \in Jobs /\ jobs'[c.job].status # "none"
  /\ c.pc \in Choosing => p \in Admitting \/ p \notin Calling
  /\ c.pc \notin {"idle", "dead"} => p \in Calling \/ Cardinality(Unused) > Cardinality(Calling)
  /\ c.pc \in Claiming => Start(p) \/ Claim(p)
  /\ call[p].pc # "dead"

CallMoves == UNCHANGED call \/ \E p \in Processes, c \in Calls : CallMove(p, c)

LEMMA ReturnMoves == ASSUME TypeOK, NEW p \in Processes, p \in Calling, Return(p) PROVE CallMoves
  BY Plain DEF Calling, Return, CallMoves, CallMove, NoCall, Naming, Choosing, Claiming

LEMMA GotoMoves ==
  ASSUME TypeOK, NEW p \in Processes, p \in Calling,
         NEW point \in {"admit", "advance", "replace", "insert", "start", "claim", "publish", "wait", "await"}, Goto(p, point),
         point \in Naming => call[p].job \in Jobs /\ jobs'[call[p].job].status # "none",
         point \in Choosing => p \in Admitting,
         point \in Claiming => Start(p) \/ Claim(p)
  PROVE  CallMoves
<1> DEFINE c == [call[p] EXCEPT !.pc = point]
<1>1. c \in Calls /\ c.pc = point /\ c.job = call[p].job
  BY Types DEF Calls
<1>2. call' = [call EXCEPT ![p] = c]
  BY DEF Goto
<1> QED BY <1>1, <1>2 DEF Calling, CallMoves, CallMove

LEMMA JoinMoves == ASSUME TypeOK, NEW p \in Processes, p \in Calling, NEW j \in Jobs, jobs'[j].status # "none", Join(p, j)
                   PROVE  CallMoves
<1> DEFINE kind == IF call[p].kind = "advise" THEN "advise" ELSE "manual"
           c == [NoCall EXCEPT !.pc = "start", !.job = j, !.kind = kind]
<1>1. j \in 0..MaxJobs /\ kind \in Kinds
  BY Sizes DEF Jobs, Kinds
<1>2. c \in Calls /\ c.pc = "start" /\ c.job = j
  <2> HIDE DEF kind
  <2> QED BY <1>1, Plain DEF Calls, NoCall
<1>3. call' = [call EXCEPT ![p] = c]
  BY DEF Join
<1> QED BY <1>2, <1>3 DEF Calling, CallMoves, CallMove, Choosing, Claiming

LEMMA StartedMoves == ASSUME TypeOK, NEW p \in Processes, p \in Calling,
                             call[p].job \in Jobs, jobs'[call[p].job].status # "none", Started(p)
                      PROVE  CallMoves
  BY GotoMoves, ReturnMoves DEF Started, Choosing, Claiming

LEMMA EnterMoves == ASSUME TypeOK, NEW p \in Processes, NEW request \in Requests, NEW through \in 1..head,
                           Enter(p, request[1], request[2], through)
                    PROVE  CallMoves
<1>1. request[1] \in Kinds /\ request[2] \in Configs /\ through \in 0..MaxHead /\ revision \in 0..MaxJobs
  BY Sizes, Types
<1>2. Cardinality(Unused) > Cardinality(Calling) /\ p \notin Calling /\ call[p].pc # "dead"
  BY DEF Enter, Calling, At
<1>3. CASE Active # {} /\ call' = [call EXCEPT ![p] = [NoCall EXCEPT !.pc = "start", !.job = Min(Active)]]
  <2> DEFINE j == Min(Active)
  <2>1. j \in Active
    BY <1>3, LeastIn, Plain
  <2> HIDE DEF j
  <2>2. j \in Jobs /\ j \in 0..MaxJobs /\ jobs'[j].status # "none"
    BY <2>1, Sizes DEF Active, Pending, Running, Jobs, Enter
  <2> DEFINE c == [NoCall EXCEPT !.pc = "start", !.job = j]
  <2>3. c \in Calls /\ c.pc = "start" /\ c.job = j
    BY <2>2, Plain DEF Calls, NoCall
  <2>4. call' = [call EXCEPT ![p] = c]
    BY <1>3 DEF j
  <2> QED BY <1>2, <2>2, <2>3, <2>4 DEF CallMoves, CallMove, Choosing, Claiming
<1>4. CASE call' = [call EXCEPT ![p] = [NoCall EXCEPT !.pc = "admit", !.kind = request[1], !.config = request[2],
                                                     !.through = through, !.base = revision]]
  <2> DEFINE c == [NoCall EXCEPT !.pc = "admit", !.kind = request[1], !.config = request[2],
                                 !.through = through, !.base = revision]
  <2>1. c \in Calls /\ c.pc = "admit"
    BY <1>1, Plain DEF Calls, NoCall
  <2> QED BY <1>2, <1>4, <2>1 DEF CallMoves, CallMove, Naming, Claiming
<1> QED BY <1>3, <1>4 DEF Enter

LEMMA AdmitMoves == ASSUME TypeOK, NEW p \in Processes, Admit(p) PROVE CallMoves
<1>1. p \in Calling /\ p \in Admitting /\ jobs' = jobs
  BY DEF Admit, At, Calling, Admitting
<1>2. ASSUME NEW S, S \subseteq Active, S # {}
      PROVE  Min(S) \in S /\ Min(S) \in Jobs /\ jobs[Min(S)].status # "none"
  <2>1. Min(S) \in S
    BY <1>2, LeastIn, Plain
  <2> QED BY <1>2, <2>1 DEF Active, Pending, Running
<1>3. CASE call[p].kind = "advise" /\ Active # {}
  <2> DEFINE j == IF Running # {} THEN Min(Running) ELSE Min(Active)
  <2>1. j \in Jobs /\ jobs[j].status # "none"
    BY <1>2, <1>3 DEF Active
  <2>2. Join(p, j)
    BY <1>3 DEF Admit
  <2> HIDE DEF j
  <2> QED BY <1>1, <2>1, <2>2, JoinMoves
<1>4. CASE ~(call[p].kind = "advise" /\ Active # {}) /\ ~(revision # call[p].base \/ Cardinality(Pending) > 1) /\ Pending # {}
  <2> DEFINE j == Min(Pending)
             point == IF Compatible(p, j) THEN "advance" ELSE "replace"
             c == [call[p] EXCEPT !.pc = point, !.job = j, !.old = jobs[j].through]
  <2>1. j \in Jobs /\ jobs[j].status # "none"
    BY <1>2, <1>4 DEF Active
  <2>2. call' = [call EXCEPT ![p] = c]
    <3>1. call' = [call EXCEPT ![p].pc = point, ![p].job = j, ![p].old = jobs[j].through]
      BY <1>4 DEF Admit
    <3> HIDE DEF j, point
    <3> QED BY <3>1, Types DEF Calls
  <2> HIDE DEF j
  <2>3. point \in {"advance", "replace"}
    OBVIOUS
  <2>4. call[p] \in Calls /\ j \in 0..MaxJobs /\ jobs[j].through \in 0..MaxHead
    BY <2>1, Sizes, Types DEF Rows, Jobs
  <2> HIDE DEF point
  <2>5. c \in Calls /\ c.pc = point /\ c.job = j
    BY <2>3, <2>4 DEF Calls
  <2> QED BY <1>1, <2>1, <2>2, <2>3, <2>5 DEF Calling, CallMoves, CallMove, Claiming
<1>5. CASE Return(p)
  BY <1>1, <1>5, ReturnMoves
<1>6. CASE Goto(p, "insert")
  BY <1>1, <1>6, GotoMoves DEF Naming, Claiming
<1> QED BY <1>3, <1>4, <1>5, <1>6 DEF Admit

LEMMA InsertMoves == ASSUME TypeOK, Unused # {}, NEW p \in Processes, Insert(p) PROVE CallMoves
<1> p \in Calling
  BY DEF Insert, At, Calling
<1>1. CASE Return(p)
  BY <1>1, ReturnMoves
<1>2. CASE ~Return(p)
  <2> DEFINE j == Min(Unused)
  <2>1. j \in Jobs
    BY LeastIn, Plain
  <2>2. /\ jobs' = [jobs EXCEPT ![j] = [NoJob EXCEPT !.status = "pending", !.through = call[p].through,
                                                     !.base = call[p].base, !.config = call[p].config]]
        /\ Join(p, j)
    BY <1>2 DEF Insert
  <2> HIDE DEF j
  <2>3. jobs'[j].status = "pending"
    BY <2>1, <2>2, Types DEF NoJob
  <2> QED BY <2>1, <2>2, <2>3, JoinMoves
<1> QED BY <1>1, <1>2

(* The steps of a call that has named its job.                             *)
LEMMA NamedMoves ==
  ASSUME TypeOK, Named, RowStep, NEW p \in Processes,
         Advance(p) \/ Replace(p) \/ Start(p) \/ Claim(p) \/ Publish(p) \/ Wait(p) \/ Signalled(p)
  PROVE  CallMoves
<1>1. call[p].pc \in Naming /\ p \in Calling
  BY DEF Advance, Replace, Start, Claim, Publish, Wait, Signalled, At, Naming, Calling
<1>2. call[p].job \in Jobs /\ jobs'[call[p].job].status # "none"
  BY <1>1, Known DEF Named
<1>3. CASE Advance(p)
  BY <1>1, <1>2, <1>3, JoinMoves DEF Advance
<1>4. CASE Replace(p)
  <2>1. p \in Admitting
    BY <1>4 DEF Replace, At, Admitting
  <2> QED BY <1>1, <1>2, <1>4, <2>1, GotoMoves, ReturnMoves DEF Replace, Claiming
<1>5. ASSUME \/ (Start(p) /\ Goto(p, "claim")) \/ (Claim(p) /\ Goto(p, "publish"))
             \/ Goto(p, "await") \/ Goto(p, "start") \/ Goto(p, "wait")
      PROVE  CallMoves
  BY <1>1, <1>2, <1>5, GotoMoves DEF Choosing, Claiming
<1>6. ASSUME Started(p) \/ Return(p) PROVE CallMoves
  BY <1>1, <1>2, <1>6, StartedMoves, ReturnMoves
<1> QED BY <1>3, <1>4, <1>5, <1>6 DEF Start, Claim, NotClaimed, Publish, Wait, Signalled

(* Every step moves one call like this, or none.                           *)
LEMMA MovesOne == ASSUME TypeOK, Named, Room, [Next]_vars PROVE CallMoves
<1>1. RowStep
  BY RowSteps
<1>2. ASSUME NEW p \in Processes, CallStep(p) PROVE CallMoves
  <2>1. CASE Insert(p)
    <3>1. p \in Admitting
      BY <2>1 DEF Insert, At, Admitting
    <3> QED BY <2>1, <3>1, RoomForOne, InsertMoves
  <2> QED BY <1>1, <1>2, <2>1, AdmitMoves, NamedMoves DEF CallStep
<1>3. ASSUME NEW p \in Processes, Crash(p) PROVE CallMoves
  <2> DEFINE c == [NoCall EXCEPT !.pc = "dead"]
  <2>1. c \in Calls /\ c.pc = "dead"
    BY Plain DEF Calls, NoCall
  <2> QED BY <1>3, <2>1 DEF Crash, At, CallMoves, CallMove, Naming, Choosing, Claiming
<1>4. ASSUME NEW p \in Processes, NEW j \in Jobs, WorkerStep(p, j) PROVE CallMoves
  BY <1>4 DEF WorkerStep, Build, Activate, Refuse, Heartbeat, Settle, Done, CallMoves
<1>5. CASE Complete \/ (\E j \in Jobs : Expire(j)) \/ UNCHANGED vars
  BY <1>5 DEF Complete, Expire, vars, CallMoves
<1> QED BY <1>2, <1>3, <1>4, <1>5, EnterMoves, ReturnMoves DEF Next, Quit, Calling

LEMMA NamedStep == ASSUME TypeOK, Named, Room, [Next]_vars PROVE Named'
<1>1. RowStep /\ CallMoves
  BY RowSteps, MovesOne
<1>2. ASSUME NEW p \in Processes, call'[p] = call[p], call'[p].pc \in Naming
      PROVE  call'[p].job \in Jobs /\ jobs'[call'[p].job].status # "none"
  BY <1>1, <1>2, Known DEF Named
<1>3. ASSUME NEW p \in Processes, NEW c \in Calls, CallMove(p, c) PROVE Named'
  <2>1. \A q \in Processes : call'[q] = IF q = p THEN c ELSE call[q]
    BY <1>3, Types DEF CallMove
  <2>2. ASSUME NEW q \in Processes, call'[q].pc \in Naming
        PROVE  call'[q].job \in Jobs /\ jobs'[call'[q].job].status # "none"
    BY <1>2, <1>3, <2>1, <2>2 DEF CallMove
  <2> QED BY <2>2 DEF Named
<1>4. CASE UNCHANGED call
  BY <1>2, <1>4 DEF Named
<1> QED BY <1>1, <1>3, <1>4 DEF CallMoves

(* Only an insertion uses a number up.                                     *)
LEMMA Spent == ASSUME TypeOK, RowStep, \A p \in Processes : ~Insert(p) PROVE Unused' = Unused
<1>1. CASE UNCHANGED jobs
  BY <1>1 DEF Unused
<1>2. ASSUME NEW j \in Jobs, Touches(j) PROVE Unused' = Unused
  <2>1. jobs[j].status # "none" /\ jobs'[j].status # "none"
    BY <1>2 DEF Touches, Waits, Starts, Works, Finishes
  <2> QED BY <1>2, <2>1, TouchesOne DEF Unused
<1> QED BY <1>1, <1>2 DEF RowStep

LEMMA RoomStep == ASSUME TypeOK, Named, Room, [Next]_vars PROVE Room'
<1>1. RowStep /\ CallMoves
  BY RowSteps, MovesOne
<1>2. IsFiniteSet(Unused) /\ IsFiniteSet(Unused') /\ IsFiniteSet(Calling) /\ IsFiniteSet(Admitting)
  <2>1. Unused \subseteq Jobs /\ Unused' \subseteq Jobs /\ Admitting \subseteq Calling
    BY DEF Unused, Admitting, Calling
  <2> QED BY <2>1, Subsets, FS_Subset DEF Room
<1>3. IsFiniteSet(Calling')
  <2>1. CASE UNCHANGED call
    BY <1>2, <2>1 DEF Calling
  <2>2. ASSUME NEW p \in Processes, NEW c \in Calls, CallMove(p, c) PROVE IsFiniteSet(Calling')
    <3>1. Calling' \subseteq Calling \union {p}
      BY <2>2, Types DEF CallMove, Calling
    <3> QED BY <1>2, <3>1, FS_AddElement, FS_Subset
  <2> QED BY <1>1, <2>1, <2>2 DEF CallMoves
<1>4. /\ Cardinality(Unused) \in Nat /\ Cardinality(Unused') \in Nat
      /\ Cardinality(Admitting) \in Nat /\ Cardinality(Calling) \in Nat
  BY <1>2, FS_CardinalityType
<1>5. ASSUME \A p \in Processes : ~Insert(p) PROVE Cardinality(Admitting') <= Cardinality(Unused')
  <2>1. Unused' = Unused
    BY <1>1, <1>5, Spent
  <2>2. CASE UNCHANGED call
    BY <2>1, <2>2 DEF Room, Admitting
  <2>3. ASSUME NEW p \in Processes, NEW c \in Calls, CallMove(p, c)
        PROVE  Cardinality(Admitting') <= Cardinality(Unused')
    <3>1. CASE c.pc \in Choosing /\ p \notin Admitting
      <4>1. Admitting' = Admitting \union {p} /\ Admitting \subseteq Calling
        BY <2>3, <3>1, Types DEF CallMove, Admitting, Choosing, Calling
      <4>2. Cardinality(Admitting') = Cardinality(Admitting) + 1
        BY <1>2, <3>1, <4>1, FS_AddElement
      <4>3. Cardinality(Admitting) <= Cardinality(Calling)
        BY <1>2, <4>1, FS_Subset
      <4>4. Cardinality(Unused) > Cardinality(Calling)
        BY <2>3, <3>1 DEF CallMove, Choosing
      <4> QED BY <1>4, <2>1, <4>2, <4>3, <4>4
    <3>2. CASE ~(c.pc \in Choosing /\ p \notin Admitting)
      <4>1. Admitting' \subseteq Admitting
        BY <2>3, <3>2, Types DEF CallMove, Admitting, Choosing
      <4>2. Cardinality(Admitting') <= Cardinality(Admitting) /\ Cardinality(Admitting') \in Nat
        BY <1>2, <4>1, FS_Subset, FS_CardinalityType
      <4> QED BY <1>4, <2>1, <4>2 DEF Room
    <3> QED BY <3>1, <3>2
  <2> QED BY <1>1, <2>2, <2>3 DEF CallMoves
<1>6. ASSUME NEW p \in Processes, Insert(p) PROVE Cardinality(Admitting') <= Cardinality(Unused')
  <2>1. p \in Admitting
    BY <1>6 DEF Insert, At, Admitting
  <2>2. Admitting' = Admitting \ {p}
    <3>1. call'[p].pc \notin Choosing /\ \A q \in Processes \ {p} : call'[q] = call[q]
      <4>1. Return(p) \/ Join(p, Min(Unused))
        BY <1>6 DEF Insert
      <4>2. ASSUME NEW j, Join(p, j) PROVE call'[p].pc = "start" /\ \A q \in Processes \ {p} : call'[q] = call[q]
        BY <4>2, Types DEF Join, NoCall
      <4>3. CASE Return(p)
        BY <4>3, Types DEF Return, NoCall, Choosing
      <4> QED BY <4>1, <4>2, <4>3 DEF Choosing
    <3> QED BY <3>1 DEF Admitting, Choosing
  <2>3. Cardinality(Admitting') = Cardinality(Admitting) - 1
    BY <1>2, <2>1, <2>2, FS_RemoveElement
  <2>4. PICK j \in Jobs : Unused \ {j} \subseteq Unused'
    <3>1. CASE UNCHANGED jobs
      <4>1. 1 \in Jobs
        BY Sizes DEF Jobs
      <4> QED BY <3>1, <4>1 DEF Unused
    <3>2. ASSUME NEW j \in Jobs, Touches(j) PROVE Unused \ {j} \subseteq Unused'
      BY <3>2, TouchesOne DEF Unused
    <3> QED BY <1>1, <3>1, <3>2 DEF RowStep
  <2>5. Cardinality(Unused) - 1 <= Cardinality(Unused')
    <3>1. Cardinality(Unused \ {j}) <= Cardinality(Unused')
      BY <1>2, <2>4, FS_Subset
    <3>2. Cardinality(Unused \ {j}) >= Cardinality(Unused) - 1
      <4>1. CASE j \in Unused
        <5>1. Cardinality(Unused \ {j}) = Cardinality(Unused) - 1
          BY <1>2, <4>1, FS_RemoveElement
        <5> QED BY <1>4, <5>1
      <4>2. CASE j \notin Unused
        <5>1. Unused \ {j} = Unused
          BY <4>2
        <5> QED BY <1>4, <5>1
      <4> QED BY <4>1, <4>2
    <3>3. Cardinality(Unused \ {j}) \in Nat
      BY <1>2, FS_RemoveElement, FS_CardinalityType
    <3> QED BY <1>4, <3>1, <3>2, <3>3
  <2> QED BY <1>4, <2>3, <2>5 DEF Room
<1> QED BY <1>3, <1>5, <1>6 DEF Room

-----------------------------------------------------------------------------
(* Workers and the registry.                                               *)

LEMMA WorkerTypes == ASSUME TypeOK, Named, [Next]_vars
                     PROVE  /\ active' \in [Processes -> SUBSET Jobs]
                            /\ worker' \in [Processes -> [Jobs -> Workers]]
<1>1. CASE UNCHANGED <<active, worker>>
  BY <1>1, Types
<1>2. ASSUME NEW p \in Processes, CallStep(p)
      PROVE  active' \in [Processes -> SUBSET Jobs] /\ worker' \in [Processes -> [Jobs -> Workers]]
  <2>1. CASE Start(p)
    <3>1. call[p].job \in Jobs
      BY <2>1 DEF Start, At, Named, Naming
    <3> QED BY <2>1, <3>1, Types DEF Start
  <2>2. CASE Claim(p) \/ Publish(p)
    <3>1. call[p].job \in Jobs
      BY <2>2 DEF Claim, Publish, At, Named, Naming
    <3> QED BY <2>2, <3>1, Types, ClaimedType DEF Claim, Publish, NotClaimed
  <2> QED BY <1>1, <1>2, <2>1, <2>2 DEF CallStep, Admit, Advance, Replace, Insert, Wait, Signalled
<1>3. ASSUME NEW p \in Processes, NEW j \in Jobs, WorkerStep(p, j)
      PROVE  active' \in [Processes -> SUBSET Jobs] /\ worker' \in [Processes -> [Jobs -> Workers]]
  <2>1. worker[p][j] \in Workers
    BY Types
  <2>2. ASSUME NEW w \in Workers, worker' = [worker EXCEPT ![p][j] = w]
        PROVE  worker' \in [Processes -> [Jobs -> Workers]]
    BY <2>2, Types
  <2>3. ASSUME NEW code \in {"deterministic", "other"}, Fails(p, j, code)
        PROVE  worker' \in [Processes -> [Jobs -> Workers]]
    BY <2>2, <2>3, Plain DEF Fails, NoWorker, Workers
  <2>4. ASSUME Ends(p, j) PROVE worker' \in [Processes -> [Jobs -> Workers]]
    BY <2>2, <2>4, Plain DEF Ends, NoWorker, Workers
  <2>5. CASE Build(p, j)
    <3>1. CASE worker' = [worker EXCEPT ![p][j].phase = "activate"]
      <4> DEFINE w == [worker[p][j] EXCEPT !.phase = "activate"]
      <4>1. w \in Workers /\ worker' = [worker EXCEPT ![p][j] = w]
        BY <2>1, <3>1, Types DEF Workers
      <4> QED BY <2>2, <2>5, <4>1, Types DEF Build
    <3> QED BY <2>3, <2>5, <3>1, Types DEF Build
  <2>6. CASE Refuse(p, j)
    <3>1. CASE /\ worker[p][j].tries > 1
               /\ worker' = [worker EXCEPT ![p][j].phase = "build", ![p][j].tries = @ - 1]
      <4> DEFINE w == [worker[p][j] EXCEPT !.phase = "build", !.tries = @ - 1]
      <4>1. worker[p][j].tries - 1 \in 0..ActivationAttempts
        BY <2>1, <3>1, Sizes DEF Workers
      <4>2. w \in Workers /\ worker' = [worker EXCEPT ![p][j] = w]
        BY <2>1, <3>1, <4>1, Types DEF Workers
      <4> QED BY <2>2, <2>6, <4>2, Types DEF Refuse
    <3> QED BY <2>3, <2>4, <2>6, <3>1, Types DEF Refuse
  <2>7. CASE Done(p, j)
    BY <2>2, <2>7, Plain, Types DEF Done
  <2>8. CASE Activate(p, j) \/ Heartbeat(p, j) \/ Settle(p, j)
    BY <2>3, <2>4, <2>8, Types DEF Activate, Heartbeat, Settle
  <2> QED BY <1>3, <2>5, <2>6, <2>7, <2>8 DEF WorkerStep
<1>4. ASSUME NEW p \in Processes, Crash(p)
      PROVE  active' \in [Processes -> SUBSET Jobs] /\ worker' \in [Processes -> [Jobs -> Workers]]
  BY <1>4, Plain, Types DEF Crash
<1> QED BY <1>1, <1>2, <1>3, <1>4 DEF Next, vars, Complete, Expire, Enter, Quit

LEMMA TypeStep == ASSUME TypeOK, OneRevision, Named, Room, [Next]_vars PROVE TypeOK'
<1>1. RowStep /\ CallMoves
  BY RowSteps, MovesOne
<1>2. revision' \in 0..MaxJobs
  BY <1>1, RevisionStep
<1>3. jobs' \in [Jobs -> Rows] /\ \A j \in Jobs : Owned(jobs'[j])
  BY <1>1, Types DEF RowStep, Touches
<1>4. call' \in [Processes -> Calls]
  BY <1>1, CallUpdate, Types DEF CallMoves, CallMove
<1>5. head' \in 1..MaxHead /\ faults' \in 0..MaxFaults
  <2>1. ASSUME \/ head' = head /\ (faults' = faults \/ (faults < MaxFaults /\ faults' = faults + 1))
               \/ head < MaxHead /\ head' = head + 1 /\ faults' = faults
        PROVE  head' \in 1..MaxHead /\ faults' \in 0..MaxFaults
    BY <2>1, Sizes, Types
  <2>2. ASSUME NEW p \in Processes, CallStep(p) PROVE head' = head /\ faults' = faults
    BY <2>2 DEF CallStep, Admit, Advance, Replace, Insert, Start, Claim, Publish, Wait, Signalled
  <2>3. ASSUME NEW p \in Processes, NEW j \in Jobs, WorkerStep(p, j) PROVE head' = head /\ faults' = faults
    BY <2>3 DEF WorkerStep, Build, Activate, Refuse, Heartbeat, Settle, Done
  <2>4. ASSUME NEW p \in Processes, NEW request \in Requests, NEW through \in 1..head,
               Enter(p, request[1], request[2], through)
        PROVE  head' = head /\ faults' = faults
    BY <2>4 DEF Enter
  <2> QED BY <2>1, <2>2, <2>3, <2>4 DEF Next, vars, Complete, Expire, Quit, Crash
<1>6. /\ active' \in [Processes -> SUBSET Jobs]
      /\ worker' \in [Processes -> [Jobs -> Workers]]
  BY WorkerTypes
<1>7. (TypeOK <=> /\ jobs \in [Jobs -> Rows]
                  /\ revision \in 0..MaxJobs /\ head \in 1..MaxHead
                  /\ call \in [Processes -> Calls]
                  /\ active \in [Processes -> SUBSET Jobs]
                  /\ worker \in [Processes -> [Jobs -> Workers]]
                  /\ faults \in 0..MaxFaults
                  /\ \A j \in Jobs : Owned(jobs[j]))'
  BY DEF TypeOK, Rows, Calls, Workers, Owned, Running, Jobs, Kinds, Configs
<1> QED BY <1>2, <1>3, <1>4, <1>5, <1>6, <1>7 DEF Jobs, Rows, Owned, Calls, Workers, Configs, Kinds

(* A job with a worker is in its process's registry, and so is the one a   *)
(* call is claiming, which has no worker yet.                              *)
Registered ==
  \A p \in Processes :
    /\ \A j \in Jobs : worker[p][j].phase # "none" => j \in active[p]
    /\ call[p].pc \in Claiming => worker[p][call[p].job].phase = "none" /\ call[p].job \in active[p]

(* The process that holds a job has a worker on it that has not settled,   *)
(* or is dead.                                                             *)
HolderWorks ==
  \A p \in Processes, j \in Jobs :
    Holds(p, j) => At(p, "dead") \/ worker[p][j].phase \in {"build", "activate", "settle"}

(* The call of one process changes.                                        *)
Only(p) == \A q \in Processes \ {p} : call'[q] = call[q]

LEMMA GotoOnly == ASSUME TypeOK, NEW p \in Processes, NEW point, Goto(p, point)
                  PROVE  Only(p) /\ call'[p].pc = point /\ call'[p].job = call[p].job
  BY Types DEF Goto, Only, Calls

LEMMA StartedOnly == ASSUME TypeOK, NEW p \in Processes, Started(p) \/ Return(p)
                     PROVE  Only(p) /\ call'[p].pc \in {"idle", "wait"}
  BY GotoOnly, Types DEF Started, Return, NoCall, Only

LEMMA ClaimedOnly == ASSUME TypeOK, NEW p \in Processes, NEW j \in Jobs, Claimed(p, j)
                     PROVE  /\ worker'[p][j].phase = "build"
                            /\ \A q \in Processes, k \in Jobs : q # p \/ k # j => worker'[q][k] = worker[q][k]
  BY Types DEF Claimed

LEMMA WorkerOnly == ASSUME TypeOK, NEW p \in Processes, NEW j \in Jobs, WorkerStep(p, j)
                    PROVE  /\ worker[p][j].phase # "none" /\ UNCHANGED call
                           /\ \A q \in Processes, k \in Jobs : q # p \/ k # j => worker'[q][k] = worker[q][k]
<1>1. CASE Build(p, j) \/ Refuse(p, j)
  BY <1>1, Types DEF Build, Refuse, Fails, Ends
<1>2. CASE Activate(p, j) \/ Heartbeat(p, j) \/ Settle(p, j) \/ Done(p, j)
  BY <1>2, Types DEF Activate, Heartbeat, Settle, Done, Fails, Ends
<1> QED BY <1>1, <1>2 DEF WorkerStep

LEMMA RegisteredStep == ASSUME TypeOK, Named, Room, Registered, [Next]_vars PROVE Registered'
<1> DEFINE Reg(q) == /\ \A j \in Jobs : worker[q][j].phase # "none" => j \in active[q]
                     /\ call[q].pc \in Claiming => worker[q][call[q].job].phase = "none" /\ call[q].job \in active[q]
<1>1. ASSUME NEW q \in Processes, call'[q] = call[q], worker'[q] = worker[q], active'[q] = active[q] PROVE Reg(q)'
  BY <1>1 DEF Registered, Jobs, Claiming
<1>2. ASSUME NEW p \in Processes, Reg(p)', Only(p),
             \A q \in Processes \ {p} : worker'[q] = worker[q] /\ active'[q] = active[q]
      PROVE  Registered'
  <2>1. \A q \in Processes : Reg(q)'
    BY <1>1, <1>2 DEF Only
  <2> QED BY <2>1 DEF Registered
<1>3. CASE UNCHANGED <<call, worker, active>>
  BY <1>3 DEF Registered, Jobs, Claiming
<1>4. ASSUME NEW p \in Processes, Only(p), call'[p].pc \notin Claiming, UNCHANGED <<worker, active>>
      PROVE  Registered'
  <2>1. Reg(p)'
    BY <1>4 DEF Registered, Jobs, Claiming
  <2> QED BY <1>2, <1>4, <2>1
<1>5. ASSUME NEW p \in Processes, Start(p) PROVE Registered'
  <2> DEFINE j == call[p].job
  <2>1. j \in Jobs
    BY <1>5 DEF Start, At, Named, Naming
  <2>2. CASE Started(p) /\ UNCHANGED active
    BY <1>4, <1>5, <2>2, StartedOnly DEF Start, Claiming
  <2>3. CASE j \notin active[p] /\ Goto(p, "claim") /\ active' = [active EXCEPT ![p] = @ \union {j}]
    <3>1. worker' = worker /\ worker[p][j].phase = "none"
      BY <1>5, <2>1, <2>3 DEF Start, Registered
    <3>2. Only(p) /\ call'[p].job = j
      BY <2>3, GotoOnly
    <3>3. active'[p] = active[p] \union {j} /\ \A q \in Processes \ {p} : active'[q] = active[q]
      BY <2>3, Types
    <3>4. Reg(p)'
      BY <3>1, <3>2, <3>3 DEF Registered, Jobs, Claiming
    <3> QED BY <1>2, <3>1, <3>2, <3>3, <3>4
  <2> QED BY <1>5, <2>2, <2>3 DEF Start
<1>6. ASSUME NEW p \in Processes, Claim(p) \/ Publish(p) PROVE Registered'
  <2> DEFINE j == call[p].job
  <2>1. j \in Jobs /\ worker[p][j].phase = "none" /\ j \in active[p]
    BY <1>6 DEF Claim, Publish, At, Named, Naming, Registered, Claiming
  <2>2. CASE Claimed(p, j) /\ Started(p) /\ UNCHANGED active
    <3>1. Only(p) /\ call'[p].pc \notin Claiming
      BY <2>2, StartedOnly DEF Claiming
    <3>2. \A q \in Processes, k \in Jobs : q # p \/ k # j => worker'[q][k] = worker[q][k]
      BY <2>1, <2>2, ClaimedOnly
    <3>3. \A q \in Processes \ {p} : worker'[q] = worker[q]
      BY <2>2, Types DEF Claimed
    <3>4. Reg(p)'
      BY <2>1, <2>2, <3>1, <3>2 DEF Registered, Jobs, Claiming
    <3> QED BY <1>2, <2>2, <3>1, <3>3, <3>4
  <2>3. CASE NotClaimed(p) /\ UNCHANGED worker
    <3>1. Only(p) /\ call'[p].pc \notin Claiming
      BY <2>3, StartedOnly DEF NotClaimed, Claiming
    <3>2. active'[p] = active[p] \ {j} /\ \A q \in Processes \ {p} : active'[q] = active[q]
      BY <2>3, Types DEF NotClaimed
    <3>3. Reg(p)'
      BY <2>1, <2>3, <3>1, <3>2 DEF Registered, Jobs, Claiming
    <3> QED BY <1>2, <2>3, <3>1, <3>2, <3>3
  <2>4. CASE Goto(p, "publish") /\ UNCHANGED <<active, worker>>
    <3>1. Only(p) /\ call'[p].job = j
      BY <2>4, GotoOnly
    <3>2. Reg(p)'
      BY <2>1, <2>4, <3>1 DEF Registered, Jobs, Claiming
    <3> QED BY <1>2, <2>4, <3>1, <3>2
  <2>5. CASE Return(p) /\ UNCHANGED <<active, worker>>
    BY <1>4, <2>5, StartedOnly DEF Claiming
  <2> QED BY <1>6, <2>2, <2>3, <2>4, <2>5 DEF Claim, Publish
<1>7. ASSUME NEW p \in Processes, NEW j \in Jobs, WorkerStep(p, j) PROVE Registered'
  <2>1. /\ j \in active[p] /\ worker[p][j].phase # "none" /\ UNCHANGED call
        /\ \A q \in Processes, k \in Jobs : q # p \/ k # j => worker'[q][k] = worker[q][k]
    BY <1>7, WorkerOnly DEF Registered
  <2>2. \A q \in Processes, k \in Jobs : (q # p \/ k # j) /\ k \in active[q] => k \in active'[q]
    BY <1>7, Types DEF WorkerStep, Build, Activate, Refuse, Heartbeat, Settle, Done
  <2>3. worker'[p][j].phase # "none" => j \in active'[p]
    <3>1. CASE UNCHANGED active
      BY <2>1, <3>1
    <3>2. CASE Done(p, j)
      BY <3>2, Types DEF Done, NoWorker
    <3> QED BY <1>7, <3>1, <3>2 DEF WorkerStep, Build, Activate, Refuse, Heartbeat, Settle
  <2>4. ASSUME NEW q \in Processes, call[q].pc \in Claiming
        PROVE  call[q].job \in Jobs /\ (q # p \/ call[q].job # j)
    BY <2>1, <2>4 DEF Registered, Named, Naming, Claiming
  <2>5. \A q \in Processes : Reg(q)'
    BY <2>1, <2>2, <2>3, <2>4 DEF Registered, Jobs, Claiming
  <2> QED BY <2>5 DEF Registered
<1>8. ASSUME NEW p \in Processes, Crash(p) PROVE Registered'
  <2>1. /\ Only(p) /\ call'[p].pc = "dead" /\ worker'[p] = [j \in Jobs |-> NoWorker]
        /\ \A q \in Processes \ {p} : worker'[q] = worker[q] /\ active'[q] = active[q]
    BY <1>8, Types DEF Crash, Only, NoCall
  <2>2. Reg(p)'
    BY <2>1 DEF NoWorker, Claiming, Jobs
  <2> QED BY <1>2, <2>1, <2>2
<1>9. CASE UNCHANGED <<worker, active>> /\ \A p \in Processes : ~Start(p) /\ ~Claim(p)
  <2>1. ASSUME NEW p \in Processes, NEW c \in Calls, CallMove(p, c) PROVE Registered'
    BY <1>4, <1>9, <2>1, Types DEF CallMove, Only
  <2> QED BY <1>3, <1>9, <2>1, MovesOne DEF CallMoves
<1>10. ASSUME NEW p \in Processes, CallStep(p) PROVE Registered'
  BY <1>5, <1>6, <1>9, <1>10 DEF CallStep, Admit, Advance, Replace, Insert, Wait, Signalled
<1> QED BY <1>5, <1>6, <1>7, <1>8, <1>9, <1>10 DEF Next, vars, Complete, Expire, Enter, Quit

LEMMA StaysDead == ASSUME TypeOK, CallMoves, NEW p \in Processes, At(p, "dead") PROVE At(p, "dead")'
<1>1. ASSUME NEW q \in Processes, NEW c \in Calls, CallMove(q, c) PROVE At(p, "dead")'
  BY <1>1, Types DEF CallMove, At
<1> QED BY <1>1 DEF CallMoves, At

(* Who holds a job held it before, or has claimed it in this step.         *)
LEMMA StaysHeld == ASSUME TypeOK, RowStep, NEW p \in Processes, NEW j \in Jobs, Holds(p, j)'
                   PROVE  Holds(p, j) \/ Claimed(p, j)
<1>1. CASE UNCHANGED jobs
  BY <1>1 DEF Holds
<1>2. ASSUME NEW k \in Jobs, Touches(k), k # j PROVE Holds(p, j)
  BY <1>2, TouchesOne DEF Holds
<1>3. ASSUME NEW q \in Processes, Claimed(q, j) PROVE Claimed(p, j)
  <2>1. jobs'[j].owner = q
    BY <1>3, Types DEF Claimed, Rows
  <2> QED BY <1>3, <2>1 DEF Holds
<1>4. CASE Touches(j)
  <2>1. ASSUME jobs[j].status = "running", jobs'[j].owner = jobs[j].owner PROVE Holds(p, j)
    BY <2>1 DEF Holds
  <2> QED BY <1>3, <1>4, <2>1 DEF Touches, Waits, Starts, Works, Finishes, Holds
<1> QED BY <1>1, <1>2, <1>4 DEF RowStep

LEMMA HolderStep == ASSUME TypeOK, Named, Room, HolderWorks, [Next]_vars PROVE HolderWorks'
<1> SUFFICES ASSUME NEW q \in Processes, NEW k \in Jobs, Holds(q, k)'
             PROVE  At(q, "dead")' \/ worker'[q][k].phase \in {"build", "activate", "settle"}
  BY DEF HolderWorks, Jobs, At
<1>1. CASE Claimed(q, k)
  BY <1>1, ClaimedOnly
<1>2. CASE At(q, "dead")
  BY <1>2, MovesOne, StaysDead
<1>3. CASE Holds(q, k) /\ worker[q][k].phase \in {"build", "activate", "settle"}
  <2>1. CASE worker'[q][k] = worker[q][k]
    BY <1>3, <2>1
  <2>2. ASSUME NEW p \in Processes, NEW j \in Jobs, Claimed(p, j)
        PROVE  worker'[q][k] = worker[q][k] \/ worker'[q][k].phase = "build"
    BY <2>2, ClaimedOnly
  <2>3. ASSUME NEW p \in Processes, CallStep(p)
        PROVE  worker'[q][k] = worker[q][k] \/ worker'[q][k].phase = "build"
    <3>1. CASE UNCHANGED worker
      BY <3>1
    <3>2. CASE Claim(p) \/ Publish(p)
      <4>1. call[p].job \in Jobs
        BY <3>2 DEF Claim, Publish, At, Named, Naming
      <4> QED BY <2>2, <3>1, <3>2, <4>1 DEF Claim, Publish
    <3> QED BY <2>3, <3>1, <3>2 DEF CallStep, Admit, Advance, Replace, Insert, Start, Wait, Signalled
  <2>4. ASSUME WorkerStep(q, k) PROVE worker'[q][k].phase \in {"build", "activate", "settle"}
    <3>1. worker[q][k] \in Workers /\ jobs[k].status # "ended"
      BY <1>3, Types DEF Holds
    <3>2. ASSUME NEW code, Fails(q, k, code) PROVE worker'[q][k].phase = "settle"
      BY <3>2, Types DEF Fails, NoWorker
    <3>3. CASE Build(q, k)
      BY <3>1, <3>2, <3>3, Types DEF Build, Workers
    <3>4. CASE Refuse(q, k)
      <4>1. CASE worker' = [worker EXCEPT ![q][k].phase = "build", ![q][k].tries = @ - 1]
        BY <3>1, <4>1, Types DEF Workers
      <4> QED BY <3>1, <3>2, <3>4, <4>1 DEF Refuse
    <3>5. CASE Heartbeat(q, k)
      BY <1>3, <3>2, <3>5 DEF Heartbeat
    <3>6. ~Activate(q, k) /\ ~Settle(q, k)
      BY <1>3, Types DEF Activate, Settle, Holds, Rows
    <3>7. ~Done(q, k)
      BY <1>3 DEF Done
    <3> QED BY <2>4, <3>3, <3>4, <3>5, <3>6, <3>7 DEF WorkerStep
  <2>5. ASSUME NEW p \in Processes, NEW j \in Jobs, WorkerStep(p, j), p # q \/ j # k PROVE worker'[q][k] = worker[q][k]
    BY <2>5, WorkerOnly
  <2>6. ASSUME NEW p \in Processes, Crash(p) PROVE worker'[q][k] = worker[q][k] \/ At(q, "dead")'
    BY <2>6, Types DEF Crash, At, NoCall
  <2> QED BY <2>1, <2>3, <2>4, <2>5, <2>6 DEF Next, vars, Complete, Expire, Enter, Quit
<1> QED BY <1>1, <1>2, <1>3, RowSteps, StaysHeld DEF HolderWorks

-----------------------------------------------------------------------------
(* The inductive invariant.                                                *)

IInv ==
  /\ TypeOK /\ OneRevision
  /\ Named /\ Room
  /\ Alone /\ EndedOnce
  /\ Registered /\ HolderWorks

LEMMA Starting == Init => IInv
<1> SUFFICES ASSUME Init PROVE IInv
  OBVIOUS
<1>1. TypeOK
  <2>1. NoCall \in Calls /\ NoWorker \in Workers /\ NoJob \in Rows /\ Owned(NoJob)
    BY Sizes DEF NoCall, Calls, NoWorker, Workers, NoJob, Rows, Owned, Kinds
  <2>2. jobs \in [Jobs -> Rows] /\ \A j \in Jobs : Owned(jobs[j])
    BY <2>1 DEF Init
  <2>3. revision \in 0..MaxJobs /\ head \in 1..MaxHead /\ faults \in 0..MaxFaults
    BY Sizes DEF Init
  <2>4. /\ call \in [Processes -> Calls] /\ active \in [Processes -> SUBSET Jobs]
        /\ worker \in [Processes -> [Jobs -> Workers]]
    BY <2>1 DEF Init
  <2> QED BY <2>2, <2>3, <2>4, Types
<1>2. Ended = {} /\ Running = {}
  BY DEF Init, Ended, Running, NoJob
<1>3. OneRevision
  BY <1>2, FS_EmptySet DEF Init, OneRevision, Ended
<1>4. Named /\ Registered
  BY DEF Init, Named, Naming, Registered, Claiming, NoCall, NoWorker
<1>5. Room
  <2>1. Calling = {} /\ Admitting = {}
    BY DEF Init, Calling, Admitting, NoCall
  <2>2. Cardinality(Unused) \in 0..MaxJobs
    BY Subsets DEF Unused
  <2> QED BY <2>1, <2>2, FS_EmptySet DEF Room
<1>6. HolderWorks
  BY DEF Init, HolderWorks, Holds, NoJob
<1> QED BY <1>1, <1>2, <1>3, <1>4, <1>5, <1>6 DEF IInv, Alone, EndedOnce

LEMMA Inductive == IInv /\ [Next]_vars => IInv'
<1> SUFFICES ASSUME IInv, [Next]_vars PROVE IInv'
  OBVIOUS
<1>1. RowStep
  BY RowSteps DEF IInv
<1>2. TypeOK'
  BY TypeStep DEF IInv
<1>3. OneRevision' /\ Alone' /\ EndedOnce'
  BY <1>1, RevisionStep, AloneStep, EndedOnceStep DEF IInv
<1>4. Named' /\ Room' /\ Registered' /\ HolderWorks'
  BY NamedStep, RoomStep, RegisteredStep, HolderStep DEF IInv
<1> QED BY <1>2, <1>3, <1>4 DEF IInv

(* The inductive invariant holds in every reachable state.                 *)
THEOREM Invariance == Spec => []IInv
  BY Starting, Inductive, PTL DEF Spec

LEMMA OneOf == ASSUME TypeOK, Alone PROVE OneRunning
<1>1. CASE Running = {}
  BY <1>1, FS_EmptySet DEF OneRunning
<1>2. CASE Running # {}
  <2>1. PICK j \in Running : Running = {j}
    BY <1>2 DEF Alone
  <2> QED BY <2>1, FS_Singleton DEF OneRunning
<1> QED BY <1>1, <1>2

(* Two processes never both claim, whatever they read before, and every    *)
(* activation is counted by one ended job (compaction-job.ts, claim;       *)
(* context-state.ts, activate).                                            *)
THEOREM OneAtATime == Spec => []JobInv
<1>1. IInv => JobInv
  BY OneOf DEF IInv, JobInv
<1> QED BY <1>1, Invariance, PTL

(* While a job runs its boundary and base stand; what ends or fails it is  *)
(* a step of its holder's worker, on the context it was built for; and it  *)
(* is settled once (settle, fail, activate).                               *)
THEOREM Decided == Spec => HolderDecides
<1> DEFINE Step == \A j \in Jobs :
       /\ j \in Running => jobs'[j].through = jobs[j].through /\ jobs'[j].base = jobs[j].base
       /\ (j \in Running /\ Terminal(j)') => Settles(jobs[j].owner, j)
       /\ (j \in Running /\ jobs'[j].status = "ended") => revision = jobs[j].base /\ revision' = revision + 1
       /\ Terminal(j) => jobs'[j] = jobs[j]
<1>1. IInv /\ [Next]_vars => Step
  BY RowSteps, DecidesStep DEF IInv
<1>2. Spec => [][Step]_vars
  <2> HIDE DEF Step
  <2> QED BY <1>1, Invariance, PTL DEF Spec
<1> QED BY <1>2 DEF HolderDecides

(* No context is compacted twice; a job with a worker is in its process's  *)
(* registry, so that waiters find its signal (compaction-execution.ts);    *)
(* and the live holder of a job has a worker that has not settled it.      *)
THEOREM Compaction == Spec => [](EndedOnce /\ Registered /\ HolderWorks)
<1>1. IInv => EndedOnce /\ Registered /\ HolderWorks
  BY DEF IInv
<1> QED BY <1>1, Invariance, PTL

-----------------------------------------------------------------------------
(* The locks of the services (compaction-job.ts:124-125): a keyed mutex    *)
(* for the admission gates and one for the state of the jobs.  What is     *)
(* proved of it holds for every user of keyed-mutex.ts.                    *)

\* A call in progress refers to the entry the map has for its key.
CallsShareEntry ==
  \A f \in Fibers :
    IF pc[f] = "idle" THEN entry[f] = NoEntry
                      ELSE entry[f] \in Entries /\ locks[key[f]] = entry[f]

\* No entry serves two keys.
EntriesDistinct ==
  \A j, k \in Keys : locks[j] = locks[k] /\ locks[j] # NoEntry => j = k

\* The reference count covers the calls in progress and the stranded ones.
CountCovers ==
  \A e \in Entries : users[e] = Cardinality(Users(e)) + strands[e]

\* The permit of an entry has at most one holder, and is taken while it has.
OnePermit ==
  \A f, g \in Fibers :
    pc[f] = "holding" => /\ taken[entry[f]]
                         /\ pc[g] = "holding" /\ entry[g] = entry[f] => f = g

LockInv == LockTypeOK /\ CallsShareEntry /\ EntriesDistinct /\ CountCovers /\ OnePermit

-----------------------------------------------------------------------------
\* The calls referring to an entry are finitely many, so they can be counted.
LEMMA UsersFinite == \A e : IsFiniteSet(Users(e)) /\ Cardinality(Users(e)) \in Nat
BY FibersFinite, FS_Subset, FS_CardinalityType DEF Users

\* Counting one more call (Reference).
LEMMA CountIn ==
  ASSUME NEW f \in Fibers, NEW e \in Entries, LockTypeOK, entry[f] = NoEntry,
         entry' = [entry EXCEPT ![f] = e]
  PROVE  /\ Cardinality(Users(e)') = Cardinality(Users(e)) + 1
         /\ \A d \in Entries : d # e => Users(d)' = Users(d)
<1>1. Users(e)' = Users(e) \cup {f} /\ f \notin Users(e)
  BY EntryAssumption DEF Users, LockTypeOK
<1>2. \A d \in Entries : d # e => Users(d)' = Users(d)
  BY EntryAssumption DEF Users, LockTypeOK
<1> QED BY <1>1, <1>2, UsersFinite, FS_AddElement

\* Counting one call less (Leave, Strand).
LEMMA CountOut ==
  ASSUME NEW f \in Fibers, NEW e \in Entries, LockTypeOK, entry[f] = e,
         entry' = [entry EXCEPT ![f] = NoEntry]
  PROVE  /\ Cardinality(Users(e)') = Cardinality(Users(e)) - 1
         /\ Cardinality(Users(e)) \in Nat \ {0}
         /\ Cardinality(Users(e)) = 1 => Users(e) = {f}
         /\ \A d \in Entries : d # e => Users(d)' = Users(d)
<1>0. f \in Users(e)
  BY DEF Users
<1>1. Users(e)' = Users(e) \ {f}
  BY EntryAssumption DEF Users, LockTypeOK
<1>2. \A d \in Entries : d # e => Users(d)' = Users(d)
  BY EntryAssumption DEF Users, LockTypeOK
<1>3. /\ IsFiniteSet(Users(e) \ {f})
      /\ Cardinality(Users(e) \ {f}) = Cardinality(Users(e)) - 1
  BY <1>0, UsersFinite, FS_RemoveElement
<1>4. Cardinality(Users(e)) \in Nat /\ Cardinality(Users(e) \ {f}) \in Nat
  BY <1>3, UsersFinite, FS_CardinalityType
<1>5. ASSUME Cardinality(Users(e)) = 1 PROVE Users(e) = {f}
  <2>1. Cardinality(Users(e) \ {f}) = 0
    BY <1>3, <1>5
  <2>2. Users(e) \ {f} = {}
    BY <2>1, <1>3, FS_EmptySet
  <2> QED BY <2>2, <1>0
<1> QED BY <1>1, <1>2, <1>3, <1>4, <1>5

\* LockInv holds initially.
LEMMA LockStarting == LockInit => LockInv
<1> SUFFICES ASSUME LockInit PROVE LockInv
  OBVIOUS
<1>1. LockTypeOK /\ CallsShareEntry /\ EntriesDistinct /\ OnePermit
  BY EntryAssumption DEF LockInit, LockTypeOK, PCs, CallsShareEntry, EntriesDistinct, OnePermit
<1>2. \A e \in Entries : Users(e) = {}
  BY EntryAssumption DEF LockInit, Users
<1>3. CountCovers
  BY <1>2, FS_EmptySet DEF LockInit, CountCovers
<1> QED BY <1>1, <1>3 DEF LockInv

\* Every step of withLock preserves LockInv.
LEMMA LockInductive == LockInv /\ [LockNext]_lockVars => LockInv'
<1> SUFFICES ASSUME LockInv, [LockNext]_lockVars PROVE LockInv'
  OBVIOUS
<1> USE DEF LockInv
<1>1. ASSUME NEW f \in Fibers, NEW k \in Keys, NEW e \in Entries, Reference(f, k, e)
      PROVE  LockInv'
  <2> USE <1>1
  <2>1. LockTypeOK'
    <3>1. taken' \in [Entries -> BOOLEAN]
      BY Zenon DEF Reference, LockTypeOK
    <3>2. users' \in [Entries -> Nat] /\ strands' \in [Entries -> Nat]
      BY DEF Reference, LockTypeOK
    <3>3. /\ locks' \in [Keys -> Entries \cup {NoEntry}]
          /\ pc' \in [Fibers -> PCs]
          /\ key' \in [Fibers -> Keys]
          /\ entry' \in [Fibers -> Entries \cup {NoEntry}]
      BY DEF Reference, LockTypeOK, PCs
    <3> QED BY <3>1, <3>2, <3>3 DEF LockTypeOK
  <2>2. CallsShareEntry'
    BY EntryAssumption DEF Reference, LockTypeOK, CallsShareEntry
  <2>3. EntriesDistinct'
    BY EntryAssumption DEF Reference, Fresh, LockTypeOK, EntriesDistinct
  <2>4. CountCovers'
    <3>1. /\ Cardinality(Users(e)') = Cardinality(Users(e)) + 1
          /\ \A d \in Entries : d # e => Users(d)' = Users(d)
      BY CountIn DEF Reference, CallsShareEntry
    <3>2. Cardinality(Users(e)) \in Nat
      BY UsersFinite
    <3>3. CASE locks[k] = NoEntry
      <4>1. Cardinality(Users(e)) = 0
        BY <3>3, FS_EmptySet DEF Reference, Fresh
      <4> QED BY <3>1, <3>3, <4>1 DEF Reference, CountCovers, LockTypeOK
    <3>4. CASE locks[k] # NoEntry
      BY <3>1, <3>2, <3>4 DEF Reference, CountCovers, LockTypeOK
    <3> QED BY <3>3, <3>4
  <2>5. OnePermit'
    BY DEF Reference, Fresh, Users, LockTypeOK, CallsShareEntry, OnePermit
  <2> QED BY <2>1, <2>2, <2>3, <2>4, <2>5
<1>2. ASSUME NEW f \in Fibers, Guard(f) \/ Take(f) \/ Release(f) \/ Cancel(f)
      PROVE  LockInv'
  <2> USE <1>2 DEF Guard, Take, Release, Cancel
  <2>1. LockTypeOK'
    BY DEF LockTypeOK, PCs, CallsShareEntry
  <2>2. CallsShareEntry' /\ EntriesDistinct'
    BY DEF LockTypeOK, CallsShareEntry, EntriesDistinct
  <2>3. CountCovers'
    BY DEF CountCovers, Users
  <2>4. OnePermit'
    BY DEF LockTypeOK, CallsShareEntry, OnePermit
  <2> QED BY <2>1, <2>2, <2>3, <2>4
<1>3. ASSUME NEW f \in Fibers, Strand(f) \/ Leave(f)
      PROVE  LockInv'
  <2>0. PICK d \in Entries : d = entry[f]
    BY <1>3 DEF Strand, Leave, CallsShareEntry
  <2>1. /\ Cardinality(Users(d)') = Cardinality(Users(d)) - 1
        /\ Cardinality(Users(d)) \in Nat \ {0}
        /\ Cardinality(Users(d)) = 1 => Users(d) = {f}
        /\ \A c \in Entries : c # d => Users(c)' = Users(c)
    BY <1>3, <2>0, CountOut DEF Strand, Leave
  <2>2. users[d] = Cardinality(Users(d)) + strands[d] /\ strands[d] \in Nat
    BY DEF CountCovers, LockTypeOK
  <2>3. LockTypeOK'
    BY <1>3, <2>0, <2>1, <2>2 DEF Strand, Leave, LockTypeOK, PCs
  <2>4. CallsShareEntry'
    <3>1. \A g \in Fibers \ {f} : users[d] = 1 => entry[g] # d
      BY <2>1, <2>2 DEF Users
    <3> QED BY <1>3, <2>0, <3>1 DEF Strand, Leave, LockTypeOK, CallsShareEntry
  <2>5. EntriesDistinct'
    BY <1>3, <2>0 DEF Strand, Leave, LockTypeOK, EntriesDistinct
  <2>6. CountCovers'
    BY <1>3, <2>0, <2>1, <2>2 DEF Strand, Leave, LockTypeOK, CountCovers
  <2>7. OnePermit'
    BY <1>3 DEF Strand, Leave, LockTypeOK, OnePermit
  <2> QED BY <2>3, <2>4, <2>5, <2>6, <2>7
<1>4. CASE UNCHANGED lockVars
  BY <1>4 DEF lockVars, LockTypeOK, CallsShareEntry, EntriesDistinct, CountCovers, Users, OnePermit
<1> QED BY <1>1, <1>2, <1>3, <1>4 DEF LockNext

\* The reference count is right in every reachable state.
THEOREM LockInvariance == LockSpec => []LockInv
BY LockStarting, LockInductive, PTL DEF LockSpec

\* Effects under the lock of one key never overlap (keyed-mutex.ts:14).
THEOREM Exclusion == LockSpec => []MutualExclusion
<1>1. LockInv => MutualExclusion
  BY DEF LockInv, CallsShareEntry, OnePermit, MutualExclusion, Holding
<1> QED BY <1>1, LockInvariance, PTL

\* withLock never leaves a value of a wrong kind behind, whatever the order.
THEOREM LockTyping == LockSpec => []LockTypeOK
<1>1. LockInv => LockTypeOK
  BY DEF LockInv
<1> QED BY <1>1, LockInvariance, PTL

\* The fibers under each lock: what KeyedMutex shows of itself to a user.
Inside == [k \in Keys |-> {f \in Fibers : Holding(f, k)}]

\* A step that moves no fiber into or out of an effect is invisible.
LEMMA Invisible ==
  ASSUME \A k \in Keys, g \in Fibers : Holding(g, k)' <=> Holding(g, k)
  PROVE  Inside' = Inside
BY DEF Inside

\* The counted semaphores implement one mutual exclusion lock per key.
THEOREM Implementation == LockSpec => ImplementsMutex
<1>1. LockInit => Abstract!Init
  BY DEF LockInit, Abstract!Init, Holding
<1>2. ASSUME LockInv, [LockNext]_lockVars
      PROVE  Abstract!Next \/ Inside' = Inside
  <2>1. ASSUME NEW f \in Fibers, Take(f)
        PROVE  Abstract!Next
    <3>1. key[f] \in Keys /\ entry[f] \in Entries
      BY <1>2, <2>1 DEF LockInv, LockTypeOK, CallsShareEntry, Take
    <3>2. \A g \in Fibers : ~Holding(g, key[f])
      BY <1>2, <2>1 DEF LockInv, CallsShareEntry, OnePermit, Take, Holding
    <3>3. \A g \in Fibers, k \in Keys :
            Holding(g, k)' <=> Holding(g, k) \/ (g = f /\ k = key[f])
      BY <1>2, <2>1 DEF Take, Holding, LockInv, LockTypeOK
    <3>4. Inside[key[f]] = {}
      BY <3>1, <3>2 DEF Inside
    <3>5. Inside' = [Inside EXCEPT ![key[f]] = {f}]
      BY <3>1, <3>2, <3>3 DEF Inside
    <3>6. Abstract!Enter(f, key[f])
      BY <3>4, <3>5 DEF Abstract!Enter, Inside
    <3> QED BY <3>1, <3>6 DEF Abstract!Next
  <2>2. ASSUME NEW f \in Fibers, Release(f)
        PROVE  Abstract!Next
    <3>1. key[f] \in Keys
      BY <1>2 DEF LockInv, LockTypeOK
    <3>2. Holding(f, key[f])
      BY <2>2 DEF Release, Holding
    <3>3. \A g \in Fibers, k \in Keys :
            Holding(g, k)' <=> Holding(g, k) /\ ~(g = f /\ k = key[f])
      BY <1>2, <2>2 DEF Release, Holding, LockInv, LockTypeOK
    <3>4. f \in Inside[key[f]]
      BY <3>1, <3>2 DEF Inside
    <3>5. Inside' = [Inside EXCEPT ![key[f]] = @ \ {f}]
      BY <3>1, <3>3 DEF Inside
    <3>6. Abstract!Exit(f, key[f])
      BY <3>4, <3>5 DEF Abstract!Exit, Inside
    <3> QED BY <3>1, <3>6 DEF Abstract!Next
  <2>3. ASSUME NEW f \in Fibers,
               \/ \E k \in Keys, e \in Entries : Reference(f, k, e)
               \/ Guard(f) \/ Strand(f) \/ Cancel(f) \/ Leave(f)
        PROVE  Inside' = Inside
    <3>1. \A k \in Keys, g \in Fibers : Holding(g, k)' <=> Holding(g, k)
      BY <1>2, <2>3 DEF Reference, Guard, Strand, Cancel, Leave, Holding, LockInv, LockTypeOK
    <3> QED BY <3>1, Invisible
  <2>4. CASE UNCHANGED lockVars
    BY <2>4, Invisible DEF lockVars, Holding
  <2> QED BY <1>2, <2>1, <2>2, <2>3, <2>4 DEF LockNext
<1>3. LockInv /\ [LockNext]_lockVars => [Abstract!Next]_Inside
  BY <1>2
<1> QED BY <1>1, <1>3, LockInvariance, PTL DEF LockSpec, ImplementsMutex, Abstract!Spec, Inside

=============================================================================
