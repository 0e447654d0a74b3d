-------------------------------- MODULE Form --------------------------------
(* Requests to the user (packages/core/src/form.ts) of one Session: tools   *)
(* ask (Form.ask), and the user, a Dots client, a coordinator, the answers  *)
(* mode, the user's sleep and the next prompt compete to settle the form.   *)
(* All of them settle it under one permit (`settle`), and whoever comes     *)
(* second finds it settled. What each of them decided before it had the     *)
(* permit may be out of date by then: the autonomy has a revision, and asks *)
(* have an epoch that a prompt advances (runtime.ts,                        *)
(* supersedeQuestionWaits).                                                 *)
(*                                                                          *)
(* A read of the autonomy and the synchronous code after it is one step; an *)
(* evaluation, a publication and the wait for the permit are steps of their *)
(* own. Left out: the fields and their assessments, the chain of reasons of *)
(* an escalation, forms without an ask, retention and the end of the        *)
(* Location.                                                                *)
EXTENDS Naturals

CONSTANTS Asks,       \* calls of ask, each with its form
          Explicit,   \* those whose requireExplicitDecision is set
          None,
          Modes,      \* the answers modes that are used
          MaxPrompts, \* bound: prompts that supersede
          MaxChanges, \* bound: changes of the answers mode and of sleep by the user
          MaxFaults,  \* bound: publications that fail
          MaxEvents   \* bound: all of these together

VARIABLES answers,  \* the Session's effective answers mode
          asleep,   \* the user sleeps
          rev,      \* the autonomy's revision
          epoch,    \* `asks`: the Session's epoch
          ask,      \* per ask: the call
          form,     \* per ask: the state of its form
          held,     \* who holds the permit, and for what
          sleeper,  \* the conversion when the user falls asleep (applyFamilySleep)
          prompt,   \* a prompt that supersedes
          study,    \* `reconsidering`: a form a coordinator studies, the revision it has read
          prompts, faults, \* how many there have been
          missed    \* history: forms that a failed publication left pending

autonomy == <<answers, asleep, rev>>
actors == <<sleeper, prompt, study>>
bounds == <<prompts, faults>>
vars == <<autonomy, epoch, ask, form, held, actors, bounds, missed>>

ASSUME NoneAssumption == None \notin Nat /\ Explicit \subseteq Asks
ASSUME NamesAssumption == Asks \cap {"none", "user", "coordinator", "sleep", "prompt"} = {}
ASSUME ModesAssumption == Modes \subseteq {"manual", "auto", "yolo"}
ASSUME BoundsAssumption == MaxPrompts \in Nat /\ MaxChanges \in Nat /\ MaxFaults \in Nat
                            /\ MaxEvents \in Nat

Settlements == {"answered", "cancelled", "deferred"}
Actors == Asks \cup {"user", "coordinator", "sleep", "prompt"}
Waiting == {"await", "assess", "reply"}

Init ==
  /\ answers \in Modes /\ asleep \in BOOLEAN /\ rev = 0 /\ epoch = 0
  /\ ask = [a \in Asks |-> [pc |-> "idle", ticket |-> 0, seen |-> None,
                            plan |-> "await", result |-> "none"]]
  /\ form = [a \in Asks |-> "none"]
  /\ held = None
  /\ sleeper = [pc |-> "idle", list |-> {}] /\ prompt = [pc |-> "idle", list |-> {}]
  /\ study = None
  /\ prompts = 0 /\ faults = 0 /\ missed = {}

\* The bound on them together.
Room == prompts + faults + rev < MaxEvents

Live(a) == ask[a].pc \notin {"idle", "ended"}
Superseded(a) == ask[a].ticket # epoch
Pending(a) == form[a] = "pending"
Settled(a) == form[a] \in Settlements

Step(a, to) == ask' = [ask EXCEPT ![a].pc = to]
Over(call, result) ==
  [call EXCEPT !.pc = "ended", !.result = result, !.seen = None, !.plan = "await"]
\* Where no form is left pending, its epoch is forgotten.
End(a, result) == ask' = [ask EXCEPT ![a] = [Over(@, result) EXCEPT !.ticket = 0]]

\* Nothing but the settlement of its form moves the call any more.
Rest(call) ==
  [call EXCEPT !.pc = "await", !.seen = None, !.plan = IF @ = "reply" THEN @ ELSE "await"]

\* Mutant of Take: the form is not looked at again under the permit.
TakeAny(a, to, who) == held = None /\ held' = [form |-> a, to |-> to, by |-> who]

\* withPermit: a settlement of a's form begins.
Take(a, to, who) == held = None /\ Pending(a) /\ held' = [form |-> a, to |-> to, by |-> who]

\* With the permit, the form turns out not to be pending.
TooLate(a) == held = None /\ ~Pending(a) /\ UNCHANGED held

-----------------------------------------------------------------------------
(* An ask.                                                                   *)

\* enter: the count of asks under way is deleted, with the epoch, when it is zero.
Enter(a) ==
  /\ ask[a].pc = "idle"
  /\ epoch' = IF \E b \in Asks : Live(b) THEN epoch ELSE 0
  /\ ask' = [ask EXCEPT ![a].pc = "mode", ![a].ticket = epoch']
  /\ UNCHANGED <<autonomy, form, held, actors, bounds, missed>>

\* What the autonomy is, for an ask that may be answered automatically.
ReadMode(a) ==
  /\ ask[a].pc = "mode"
  /\ ask' = [ask EXCEPT ![a].pc = "asleep",
                        ![a].seen = IF answers = "manual" \/ a \in Explicit THEN None ELSE rev]
  /\ UNCHANGED <<autonomy, epoch, form, held, actors, bounds, missed>>

\* createWaiting: the form is there, and others see it, before it is announced.
CreateWaiting(a, plan) ==
  /\ form' = [form EXCEPT ![a] = "pending"]
  /\ ask' = [ask EXCEPT ![a].pc = "announce", ![a].plan = plan,
                        ![a].seen = IF plan = "await" THEN None ELSE @]

\* An ask for a user who is awake, unless a prompt has come in between.
Present(a, plan) ==
  IF Superseded(a) THEN End(a, "cancelled") /\ UNCHANGED form
                   ELSE CreateWaiting(a, plan)

ReadSleep(a) ==
  /\ ask[a].pc = "asleep"
  /\ \/ /\ asleep
        /\ Step(a, IF ask[a].seen # None THEN "judge" ELSE "review")
        /\ UNCHANGED form
     \/ ~asleep /\ Present(a, IF ask[a].seen # None THEN "assess" ELSE "await")
  /\ UNCHANGED <<autonomy, epoch, held, actors, bounds, missed>>

\* decisionAnswer for a sleeping user.  An answer stands if nothing has changed.
Judge(a) ==
  /\ ask[a].pc = "judge"
  /\ \/ ask[a].seen = rev /\ CreateWaiting(a, "reply")
     \/ Step(a, "recheck") /\ UNCHANGED form
  /\ UNCHANGED <<autonomy, epoch, held, actors, bounds, missed>>

Recheck(a) ==
  /\ ask[a].pc = "recheck"
  /\ IF asleep THEN Step(a, "review") /\ UNCHANGED form ELSE Present(a, "await")
  /\ UNCHANGED <<autonomy, epoch, held, actors, bounds, missed>>

\* openReview, which the box's limit may refuse.
Review(a) ==
  /\ ask[a].pc = "review"
  /\ \E result \in {"deferred", "full"} : End(a, result)
  /\ UNCHANGED <<autonomy, epoch, form, held, actors, bounds, missed>>

\* Mutant of Announce: nobody looks again for a prompt.
AnnounceBlind(a) ==
  /\ ask[a].pc = "announce"
  /\ Step(a, ask[a].plan)
  /\ UNCHANGED <<autonomy, epoch, form, held, actors, bounds, missed>>

\* The Created event is out; a prompt may have come meanwhile.
Announce(a) ==
  /\ ask[a].pc = "announce"
  /\ Step(a, IF Superseded(a) THEN "drop" ELSE ask[a].plan)
  /\ UNCHANGED <<autonomy, epoch, form, held, actors, bounds, missed>>

AnnounceFails(a) ==
  /\ ask[a].pc = "announce" /\ faults < MaxFaults /\ Room
  /\ faults' = faults + 1
  /\ form' = [form EXCEPT ![a] = "none"]
  /\ End(a, "died")
  /\ UNCHANGED <<autonomy, epoch, held, actors, prompts, missed>>

\* cancelObsolete of the ask itself.
Drop(a) ==
  /\ ask[a].pc = "drop"
  /\ \/ Take(a, "cancelled", a) /\ UNCHANGED ask
     \/ TooLate(a) /\ Step(a, ask[a].plan)
  /\ UNCHANGED <<autonomy, epoch, form, actors, bounds, missed>>

\* decisionAnswer races the form's settlement; autonomyUnchanged is asked once.
Assess(a) ==
  /\ ask[a].pc = "assess"
  /\ \/ ask[a].seen = rev /\ Step(a, "reply")
     \/ ask' = [ask EXCEPT ![a] = Rest(@)]
  /\ UNCHANGED <<autonomy, epoch, form, held, actors, bounds, missed>>

Reply(a) ==
  /\ ask[a].pc = "reply"
  /\ \/ Take(a, "answered", a) /\ UNCHANGED ask
     \/ TooLate(a) /\ ask' = [ask EXCEPT ![a] = Rest(@)]
  /\ UNCHANGED <<autonomy, epoch, form, actors, bounds, missed>>

Await(a) ==
  /\ ask[a].pc = "await" /\ Settled(a)
  /\ End(a, form[a])
  /\ UNCHANGED <<autonomy, epoch, form, held, actors, bounds, missed>>

\* The caller is interrupted: seen where the mask is restored, which it is not
\* around the reply for a sleeping user.
Interrupt(a) ==
  /\ \/ ask[a].pc = "judge" /\ End(a, "interrupted")
     \/ /\ ask[a].pc \in Waiting /\ ask[a].plan # "reply"
        /\ held # None => held.by # a
        /\ Step(a, "quit")
  /\ UNCHANGED <<autonomy, epoch, form, held, actors, bounds, missed>>

Quit(a) ==
  /\ ask[a].pc = "quit"
  /\ \/ Take(a, "cancelled", a) /\ UNCHANGED ask
     \/ TooLate(a) /\ End(a, "interrupted")
  /\ UNCHANGED <<autonomy, epoch, form, actors, bounds, missed>>

-----------------------------------------------------------------------------
(* complete, and what it returns to.                                         *)

Called(call, done) ==
  CASE call.pc = "quit" -> Over(call, "interrupted")
    [] call.pc # "quit" /\ ~done -> Over(call, "died")
    [] call.pc = "drop" /\ done -> [call EXCEPT !.pc = call.plan]
    [] call.pc = "reply" /\ done -> Rest(call)

\* The next form of a sweep; a failure ends the sweep.
Onward(sweep, a, done) ==
  LET rest == IF done THEN sweep.list \ {a} ELSE {} IN
  [pc |-> IF rest = {} THEN "idle" ELSE sweep.pc, list |-> rest]

Return(done) ==
  LET a == held.form  who == held.by IN
  /\ held' = None
  /\ ask' = IF who \in Asks THEN [ask EXCEPT ![who] = Called(@, done)] ELSE ask
  /\ sleeper' = IF who = "sleep" THEN Onward(sleeper, a, done) ELSE sleeper
  /\ prompt' = IF who = "prompt" THEN Onward(prompt, a, done) ELSE prompt
  /\ study' = IF who = "coordinator" THEN None ELSE study

Settle == form' = [form EXCEPT ![held.form] = held.to]

\* The event is published, the form set and its ask told.
Complete ==
  /\ held # None
  /\ Settle /\ Return(TRUE)
  /\ UNCHANGED <<autonomy, epoch, bounds, missed>>

\* The publication fails: the form stays pending, but for a Dots decision, whose
\* receipt is committed already.
CompleteFails ==
  /\ held # None /\ faults < MaxFaults /\ Room
  /\ faults' = faults + 1
  /\ \/ held.by = "user" /\ Settle
     \/ UNCHANGED form
  /\ missed' = missed \cup
       {a \in Asks : Pending(a) /\ \/ held.by = "sleep" /\ a \in sleeper.list
                                   \/ held.by = "prompt" /\ a \in prompt.list
                                   \/ held.by \in Asks /\ a = held.form}
  /\ Return(FALSE)
  /\ UNCHANGED <<autonomy, epoch, prompts>>

-----------------------------------------------------------------------------
(* The others.                                                               *)

\* reply and cancel of the user, replyDelegated and cancelDelegated.
Decide(a) ==
  /\ \E to \in {"answered", "cancelled"} : Take(a, to, "user")
  /\ UNCHANGED <<autonomy, epoch, ask, form, actors, bounds, missed>>

\* reconsider looks at a form, and studies it without the permit ...
Reconsider(a) ==
  /\ study = None /\ held = None /\ Pending(a)
  /\ answers # "manual" /\ a \notin Explicit
  /\ study' = [form |-> a, seen |-> rev]
  /\ UNCHANGED <<autonomy, epoch, ask, form, held, sleeper, prompt, bounds, missed>>

\* ... and settles it if it still may.
Reconsidered ==
  /\ study # None /\ held = None
  /\ \/ study.seen = rev /\ Take(study.form, "answered", "coordinator") /\ UNCHANGED study
     \/ study' = None /\ UNCHANGED held
  /\ UNCHANGED <<autonomy, epoch, ask, form, sleeper, prompt, bounds, missed>>

ChangeMode ==
  /\ rev < MaxChanges /\ Room
  /\ \E mode \in Modes \ {answers} : answers' = mode
  /\ rev' = rev + 1
  /\ UNCHANGED <<asleep, epoch, ask, form, held, actors, bounds, missed>>

\* The family's lock is held from here to the end of the conversion.
FallAsleep ==
  /\ ~asleep /\ sleeper.pc = "idle" /\ rev < MaxChanges /\ Room
  /\ asleep' = TRUE /\ rev' = rev + 1
  /\ sleeper' = [sleeper EXCEPT !.pc = "list"]
  /\ UNCHANGED <<answers, epoch, ask, form, held, prompt, study, bounds, missed>>

Sweep(list, pc) == [pc |-> IF list = {} THEN "idle" ELSE pc, list |-> list]

\* Mutant of DeferPending: a form is in the cache only after its announcement.
DeferAnnounced ==
  /\ sleeper.pc = "list"
  /\ sleeper' = Sweep({a \in Asks : Pending(a) /\ ask[a].pc # "announce"}, "convert")
  /\ UNCHANGED <<autonomy, epoch, ask, form, held, prompt, study, bounds, missed>>

\* deferPending
DeferPending ==
  /\ sleeper.pc = "list"
  /\ sleeper' = Sweep({a \in Asks : Pending(a)}, "convert")
  /\ UNCHANGED <<autonomy, epoch, ask, form, held, prompt, study, bounds, missed>>

Defer(a) ==
  /\ sleeper.pc = "convert" /\ a \in sleeper.list
  /\ \/ Take(a, "deferred", "sleep") /\ UNCHANGED sleeper
     \/ TooLate(a) /\ sleeper' = Onward(sleeper, a, TRUE)
  /\ UNCHANGED <<autonomy, epoch, ask, form, prompt, study, bounds, missed>>

\* The user wakes, or prompts without superseding anything.
WakeUp ==
  /\ asleep /\ sleeper.pc = "idle" /\ rev < MaxChanges /\ Room
  /\ asleep' = FALSE /\ rev' = rev + 1
  /\ UNCHANGED <<answers, epoch, ask, form, held, actors, bounds, missed>>

\* Session.prompt looks at the answers mode before it admits the input.
Prompt ==
  /\ prompt.pc = "idle" /\ answers = "yolo" /\ prompts < MaxPrompts /\ Room
  /\ prompt' = [prompt EXCEPT !.pc = "admit"] /\ prompts' = prompts + 1
  /\ UNCHANGED <<autonomy, epoch, ask, form, held, sleeper, study, faults, missed>>

\* wakeIfAsleep
Admit ==
  /\ prompt.pc = "admit" /\ sleeper.pc = "idle"
  /\ asleep' = FALSE /\ rev' = IF asleep THEN rev + 1 ELSE rev
  /\ prompt' = [prompt EXCEPT !.pc = "supersede"]
  /\ UNCHANGED <<answers, epoch, ask, form, held, sleeper, study, bounds, missed>>

\* Mutant of CancelPending: the new epoch is not the one compared with.
CancelEarlier ==
  /\ prompt.pc = "supersede"
  /\ IF \E a \in Asks : Live(a)
     THEN /\ epoch' = epoch + 1
          /\ prompt' = Sweep({a \in Asks : Pending(a) /\ ask[a].ticket < epoch}, "cancel")
     ELSE prompt' = Sweep({}, "cancel") /\ UNCHANGED epoch
  /\ UNCHANGED <<autonomy, ask, form, held, sleeper, study, bounds, missed>>

\* cancelPending
CancelPending ==
  /\ prompt.pc = "supersede"
  /\ IF \E a \in Asks : Live(a)
     THEN /\ epoch' = epoch + 1
          /\ prompt' = Sweep({a \in Asks : Pending(a) /\ ask[a].ticket < epoch'}, "cancel")
     ELSE prompt' = Sweep({}, "cancel") /\ UNCHANGED epoch
  /\ UNCHANGED <<autonomy, ask, form, held, sleeper, study, bounds, missed>>

CancelObsolete(a) ==
  /\ prompt.pc = "cancel" /\ a \in prompt.list
  /\ \/ Take(a, "cancelled", "prompt") /\ UNCHANGED prompt
     \/ TooLate(a) /\ prompt' = Onward(prompt, a, TRUE)
  /\ UNCHANGED <<autonomy, epoch, ask, form, sleeper, study, bounds, missed>>

-----------------------------------------------------------------------------
Go(a) ==
  \/ ReadMode(a) \/ ReadSleep(a) \/ Judge(a) \/ Recheck(a) \/ Review(a)
  \/ Announce(a) \/ Drop(a) \/ Assess(a) \/ Reply(a) \/ Await(a) \/ Quit(a)

Next ==
  \/ \E a \in Asks : Enter(a) \/ Go(a) \/ AnnounceFails(a) \/ Interrupt(a)
  \/ Complete \/ CompleteFails
  \/ \E a \in Asks : Decide(a) \/ Reconsider(a)
  \/ Reconsidered
  \/ ChangeMode \/ FallAsleep \/ DeferPending \/ WakeUp
  \/ \E a \in Asks : Defer(a) \/ CancelObsolete(a)
  \/ Prompt \/ Admit \/ CancelPending

Spec == Init /\ [][Next]_vars

\* The service's fibers go on; evaluations have a deadline.  Nothing is asked of
\* the user, a client, a coordinator or the answers mode.
Fairness ==
  /\ \A a \in Asks : WF_vars(Go(a))
  /\ WF_vars(Complete)
  /\ WF_vars(DeferPending \/ \E a \in Asks : Defer(a))
  /\ WF_vars(Admit \/ CancelPending \/ \E a \in Asks : CancelObsolete(a))

FairSpec == Spec /\ Fairness
-----------------------------------------------------------------------------
(* Properties.                                                               *)

Stages == {"idle", "mode", "asleep", "judge", "recheck", "review", "announce",
           "drop", "quit", "ended"} \cup Waiting
Results == Settlements \cup {"none", "full", "died", "interrupted"}

TypeOK ==
  /\ answers \in Modes /\ asleep \in BOOLEAN
  /\ rev \in Nat /\ epoch \in Nat
  /\ ask \in [Asks -> [pc : Stages, ticket : Nat, seen : {None} \cup Nat,
                       plan : Waiting, result : Results]]
  /\ form \in [Asks -> Settlements \cup {"none", "pending"}]
  /\ held \in {None} \cup [form : Asks, to : Settlements, by : Actors]
  /\ sleeper \in [pc : {"idle", "list", "convert"}, list : SUBSET Asks]
  /\ prompt \in [pc : {"idle", "admit", "supersede", "cancel"}, list : SUBSET Asks]
  /\ study \in {None} \cup [form : Asks, seen : Nat]
  /\ prompts \in 0..MaxPrompts /\ faults \in 0..MaxFaults /\ missed \subseteq Asks

\* What a tool was told is what became of its form, for the user and for every
\* client, to the end, and an ask that is over leaves no form open, unless the
\* publication of its end has failed.  All who settle a form (form.ts:330,
\* 596, 671, 683, 702, 716) find it pending under the permit.
OneSettlement ==
  \A a \in Asks :
    /\ ask[a].result \in Settlements /\ form[a] # "none" => ask[a].result = form[a]
    /\ Pending(a) /\ ~Live(a) => a \in missed

RequestInv == TypeOK /\ OneSettlement

\* A prompt under answers mode yolo releases the Session's earlier questions: none
\* of them stays open behind it, whether its form was there when the prompt looked,
\* was created while it looked, or is created later by a call that began before
\* (form.ts:405, 435, 453 and cancelPending).
NoStaleForm ==
  \A a \in Asks :
    Live(a) /\ Pending(a) /\ Superseded(a) =>
      \/ ask[a].pc \in {"announce", "drop"}
      \/ prompt.pc = "cancel" /\ a \in prompt.list
      \/ a \in missed

\* Once the conversion is done, no form waits for a sleeping user: what is still
\* open is about to be settled by the ask's own answer, or its conversion failed.
\* An ask that has read that the user is awake must have its form in the cache
\* before the conversion looks there (form.ts:407-454, 323-334).
SleepDefers ==
  asleep /\ sleeper.pc = "idle" =>
    \A a \in Asks : Pending(a) => a \in missed \/ (Live(a) /\ ask[a].plan = "reply")

\* A call that has nothing more to wait for: its form is settled, a prompt has
\* superseded it, or there is nobody awake to wait for.
Due(a) == Live(a) /\ a \notin missed /\ (Settled(a) \/ Superseded(a) \/ asleep)

\* An ask does not go on for ever when its form has been settled, when a prompt has
\* superseded it, or while the user sleeps: settlements and sweeps that wait for
\* the permit, and for each other, never block each other for good.
AskReturns == \A a \in Asks : []<>~Due(a)

\* An automatic answer settles a request only under the autonomy it was assessed
\* under.  The code asks before it publishes the assessment, or the form, and
\* before it waits for the permit (form.ts:426-445, 462-471); a coordinator's
\* answer is fenced under the permit (form.ts:600).
AnswersFenced ==
  [][\A a \in Asks :
       (held = None /\ held' # None /\ held'.by = a /\ held'.to = "answered")
         => ask[a].seen = rev]_vars
=============================================================================
