----------------------------- MODULE FormProofs -----------------------------
(* Proofs about Form: what a tool is told is what became of its form, no     *)
(* prompt leaves an earlier question open behind it, and no form waits for a *)
(* sleeping user.  The invariant says where a call is while its form is      *)
(* pending, and who may hold the permit for what.                            *)
EXTENDS Form, TLAPS

\* Stages of a call whose form is not there yet, and of one whose form is.
Early == {"idle", "mode", "asleep", "judge", "recheck", "review"}
Late == {"announce", "drop", "quit"} \cup Waiting

Call == [pc : Stages, ticket : Nat, seen : {None} \cup Nat, plan : Waiting, result : Results]

\* A call has the Session's epoch, or an earlier one.
Tickets == \A a \in Asks : Live(a) => ask[a].ticket <= epoch

\* The form and the call that waits for it.
FormOf(a) ==
  /\ ask[a].pc \in Early => form[a] = "none"
  /\ ask[a].pc \in Late => form[a] # "none"
  /\ ask[a].pc # "ended" => ask[a].result = "none"
  /\ ask[a].pc = "ended" =>
       /\ Pending(a) => a \in missed
       /\ ask[a].result \in Settlements => form[a] \in {"none", ask[a].result}

Forms == \A a \in Asks : FormOf(a)

\* A form that its failed announcement has taken back.
Gone(a) == form[a] = "none" /\ ask[a].pc = "ended" /\ ask[a].result \notin Settlements

\* Who has the permit settles a pending form, of an ask only its own, of a sweep
\* one that the sweep still has to settle.
Holding ==
  held # None =>
    /\ Pending(held.form) \/ Gone(held.form)
    /\ held.by \in Asks => held.by = held.form /\ ask[held.by].pc \in {"drop", "reply", "quit"}
    /\ held.by = "sleep" => sleeper.pc = "convert" /\ held.form \in sleeper.list
    /\ held.by = "prompt" => prompt.pc = "cancel" /\ held.form \in prompt.list

\* What SleepDefers promises at the end of a conversion, while it is under way.
Sleeping ==
  /\ sleeper.pc # "idle" => asleep
  /\ asleep /\ sleeper.pc # "list" =>
       \A a \in Asks : Pending(a) =>
         \/ a \in missed
         \/ Live(a) /\ ask[a].plan = "reply"
         \/ sleeper.pc = "convert" /\ a \in sleeper.list

IInv == TypeOK /\ Tickets /\ Forms /\ Holding /\ NoStaleForm /\ Sleeping

\* The vocabulary of the model, expanded everywhere; the parts of the invariant
\* and the actions are cited where they are used.
USE NoneAssumption, NamesAssumption, BoundsAssumption
    DEF Call, Early, Late, Waiting, Stages, Results, Settlements, Actors, Live, Pending,
        Superseded, Settled, Gone, vars, autonomy, actors, bounds
-----------------------------------------------------------------------------
(* What the helpers do to a call.                                            *)

\* ask, as TypeOK has it.
LEMMA AskTyped == ASSUME TypeOK PROVE ask \in [Asks -> Call]
  BY DEF TypeOK

\* Over ends a call with a result, whoever told it, and keeps its epoch.
LEMMA OverCall ==
  ASSUME NEW call \in Call, NEW result \in Results
  PROVE  /\ Over(call, result) \in Call
         /\ Over(call, result).pc = "ended" /\ Over(call, result).result = result
  BY DEF Over

\* Rest puts a call where only its form's settlement moves it, and nothing else.
LEMMA RestCall ==
  ASSUME NEW call \in Call
  PROVE  /\ Rest(call) \in Call /\ Rest(call).pc = "await"
         /\ Rest(call).ticket = call.ticket /\ Rest(call).result = call.result
         /\ call.plan = "reply" => Rest(call).plan = "reply"
  BY DEF Rest

\* The new value of a call that ask' is said to have is the value, and the other
\* calls are as they were.
LEMMA OneCall ==
  ASSUME TypeOK, NEW a \in Asks, NEW call \in Call, ask' = [ask EXCEPT ![a] = call]
  PROVE  /\ ask' \in [Asks -> Call] /\ ask'[a] = call
         /\ \A b \in Asks \ {a} : ask'[b] = ask[b]
  BY AskTyped

\* End of an ask (form.ts, finalizer of ask): it is over, the others go on.
LEMMA EndCall ==
  ASSUME TypeOK, NEW a \in Asks, NEW result \in Results, End(a, result)
  PROVE  /\ ask' \in [Asks -> Call] /\ ask'[a].pc = "ended" /\ ask'[a].result = result
         /\ \A b \in Asks \ {a} : ask'[b] = ask[b]
<1> DEFINE call == [Over(ask[a], result) EXCEPT !.ticket = 0]
<1>1. ask[a] \in Call
  BY AskTyped
<1>2. Over(ask[a], result) \in Call
  BY <1>1, OverCall
<1>3. call \in Call /\ call.pc = "ended" /\ call.result = result
  BY <1>1, <1>2, OverCall
<1>4. ask' = [ask EXCEPT ![a] = call]
  BY DEF End
<1> HIDE DEF call
<1> QED BY <1>3, <1>4, OneCall

\* Step moves one call and leaves its epoch, plan and result alone.
LEMMA StepCall ==
  ASSUME TypeOK, NEW a \in Asks, NEW to \in Stages, Step(a, to)
  PROVE  /\ ask' \in [Asks -> Call] /\ ask'[a].pc = to
         /\ ask'[a].ticket = ask[a].ticket /\ ask'[a].result = ask[a].result
         /\ ask'[a].plan = ask[a].plan
         /\ \A b \in Asks \ {a} : ask'[b] = ask[b]
  BY AskTyped DEF Step

\* An ask that rests, the others as they were.
LEMMA RestOne ==
  ASSUME TypeOK, NEW a \in Asks, ask' = [ask EXCEPT ![a] = Rest(@)]
  PROVE  /\ ask' \in [Asks -> Call] /\ ask'[a].pc = "await"
         /\ ask'[a].ticket = ask[a].ticket /\ ask'[a].result = ask[a].result
         /\ ask[a].plan = "reply" => ask'[a].plan = "reply"
         /\ \A b \in Asks \ {a} : ask'[b] = ask[b]
<1>1. ask[a] \in Call
  BY AskTyped
<1> QED BY <1>1, RestCall, OneCall

\* CreateWaiting: the form is there, its call about to announce it.
LEMMA CreateCall ==
  ASSUME TypeOK, NEW a \in Asks, NEW plan \in Waiting, CreateWaiting(a, plan)
  PROVE  /\ ask' \in [Asks -> Call] /\ ask'[a].pc = "announce" /\ ask'[a].plan = plan
         /\ ask'[a].ticket = ask[a].ticket /\ ask'[a].result = ask[a].result
         /\ \A b \in Asks \ {a} : ask'[b] = ask[b]
<1> DEFINE call == [ask[a] EXCEPT !.pc = "announce", !.plan = plan,
                                  !.seen = IF plan = "await" THEN None ELSE @]
<1>1. ask \in [Asks -> Call] /\ ask[a] \in Call
  BY AskTyped
<1>2. /\ call \in Call /\ call.pc = "announce" /\ call.plan = plan
      /\ call.ticket = ask[a].ticket /\ call.result = ask[a].result
  BY <1>1
<1>3. ask' = [ask EXCEPT ![a] = call]
  BY <1>1 DEF CreateWaiting
<1> HIDE DEF call
<1> QED BY <1>2, <1>3, OneCall

\* Present: a prompt that came in between ends the ask, and nothing is shown.
LEMMA PresentCall ==
  ASSUME TypeOK, NEW a \in Asks, NEW plan \in Waiting, Present(a, plan)
  PROVE  /\ ask' \in [Asks -> Call]
         /\ \A b \in Asks \ {a} : ask'[b] = ask[b]
         /\ \/ ask'[a].pc = "ended" /\ ask'[a].result = "cancelled" /\ form' = form
            \/ /\ ask'[a].pc = "announce" /\ ask'[a].plan = plan
               /\ ask'[a].ticket = ask[a].ticket /\ ask'[a].result = ask[a].result
               /\ ask[a].ticket = epoch /\ form' = [form EXCEPT ![a] = "pending"]
<1>1. CASE Superseded(a)
  <2>1. End(a, "cancelled") /\ form' = form
    BY <1>1 DEF Present
  <2> QED BY <2>1, EndCall
<1>2. CASE ~Superseded(a)
  <2>1. CreateWaiting(a, plan)
    BY <1>2 DEF Present
  <2>2. form' = [form EXCEPT ![a] = "pending"]
    BY <2>1 DEF CreateWaiting
  <2> QED BY <1>2, <2>1, <2>2, CreateCall
<1> QED BY <1>1, <1>2

\* Return gives the permit back; the ask that held it goes on, or is over.
LEMMA ReturnCall ==
  ASSUME TypeOK, Forms, Holding, held # None, NEW done \in BOOLEAN, Return(done)
  PROVE  /\ ask' \in [Asks -> Call]
         /\ held.by \notin Asks => ask' = ask
         /\ \A b \in Asks \ {held.form} : ask'[b] = ask[b]
         /\ held.by \in Asks =>
              LET call == ask[held.form]  new == ask'[held.form] IN
              \/ new.pc = "ended" /\ new.result \notin Settlements /\ (done => call.pc = "quit")
              \/ /\ done /\ new.pc \in Waiting /\ new.ticket = call.ticket
                 /\ new.result = call.result /\ (call.plan = "reply" => new.plan = "reply")
<1>1. CASE held.by \notin Asks
  <2>1. ask' = ask
    BY <1>1 DEF Return
  <2> QED BY <1>1, <2>1, AskTyped
<1>2. CASE held.by \in Asks
  <2> DEFINE a == held.form
             call == ask[a]
  <2>1. a \in Asks /\ held.by = a /\ call.pc \in {"drop", "reply", "quit"}
    BY <1>2 DEF TypeOK, Holding
  <2>2. ask' = [ask EXCEPT ![a] = Called(@, done)]
    BY <1>2, <2>1 DEF Return
  <2>3. call \in Call
    BY <2>1, AskTyped
  <2>4. \/ /\ Called(call, done) \in Call /\ Called(call, done).pc = "ended"
           /\ Called(call, done).result \notin Settlements /\ (done => call.pc = "quit")
        \/ /\ Called(call, done) \in Call /\ done /\ Called(call, done).pc \in Waiting
           /\ Called(call, done).ticket = call.ticket /\ Called(call, done).result = call.result
           /\ call.plan = "reply" => Called(call, done).plan = "reply"
    <3>1. CASE call.pc = "quit"
      <4>1. Called(call, done) = Over(call, "interrupted")
        BY <3>1 DEF Called
      <4> QED BY <2>3, <3>1, <4>1, OverCall
    <3>2. CASE call.pc # "quit" /\ ~done
      <4>1. Called(call, done) = Over(call, "died")
        BY <3>2 DEF Called
      <4> QED BY <2>3, <3>2, <4>1, OverCall
    <3>3. CASE call.pc = "drop" /\ done
      <4>1. Called(call, done) = [call EXCEPT !.pc = call.plan]
        BY <3>3 DEF Called
      <4> QED BY <2>3, <3>3, <4>1
    <3>4. CASE call.pc = "reply" /\ done
      <4>1. Called(call, done) = Rest(call)
        BY <3>4 DEF Called
      <4> QED BY <2>3, <3>4, <4>1, RestCall
    <3> QED BY <2>1, <3>1, <3>2, <3>3, <3>4
  <2>5. ask'[a] = Called(call, done) /\ ask' \in [Asks -> Call]
        /\ \A b \in Asks \ {a} : ask'[b] = ask[b]
    <3> HIDE DEF call
    <3> DEFINE new == Called(call, done)
    <3>1. new \in Call
      BY <2>4
    <3>2. ask' = [ask EXCEPT ![a] = new]
      BY <2>2 DEF call
    <3> HIDE DEF new
    <3>3. ask' \in [Asks -> Call] /\ ask'[a] = new /\ \A b \in Asks \ {a} : ask'[b] = ask[b]
      BY <2>1, <3>1, <3>2, OneCall
    <3> QED BY <3>3 DEF new
  <2> QED BY <1>2, <2>1, <2>4, <2>5
<1> QED BY <1>1, <1>2

-----------------------------------------------------------------------------
(* Each action preserves the invariant.                                      *)

\* A call enters with the Session's epoch; nobody else is there if that is forgotten.
LEMMA EnterKeeps == ASSUME IInv, NEW a \in Asks, Enter(a) PROVE IInv'
<1>1. epoch' \in Nat /\ ask \in [Asks -> Call]
  BY AskTyped DEF IInv, Enter, TypeOK
<1>2. ask' = [ask EXCEPT ![a] = [ask[a] EXCEPT !.pc = "mode", !.ticket = epoch']]
  BY <1>1 DEF Enter
<1>3. ask' \in [Asks -> Call]
  BY <1>1, <1>2
<1>4. TypeOK'
  BY <1>3 DEF IInv, TypeOK, Enter
<1>5. Tickets'
  BY <1>3 DEF IInv, TypeOK, Tickets, Enter
<1>6. Forms'
  BY <1>3 DEF IInv, TypeOK, Forms, FormOf, Enter
<1>7. Holding'
  BY <1>3 DEF IInv, TypeOK, Holding, Enter
<1>8. NoStaleForm'
  BY <1>3 DEF IInv, TypeOK, NoStaleForm, Enter
<1>9. Sleeping'
  BY <1>3 DEF IInv, TypeOK, Sleeping, Enter
<1> QED BY <1>4, <1>5, <1>6, <1>7, <1>8, <1>9 DEF IInv

\* The call has no form yet, and reads the revision.
LEMMA ReadModeKeeps == ASSUME IInv, NEW a \in Asks, ReadMode(a) PROVE IInv'
<1>1. rev \in Nat /\ ask \in [Asks -> Call]
  BY AskTyped DEF IInv, TypeOK
<1>2. PICK seen \in {None} \cup Nat :
       ask' = [ask EXCEPT ![a] = [ask[a] EXCEPT !.pc = "asleep", !.seen = seen]]
  <2>1. CASE answers = "manual" \/ a \in Explicit
    BY <1>1, <2>1 DEF ReadMode
  <2>2. CASE ~(answers = "manual" \/ a \in Explicit)
    BY <1>1, <2>2 DEF ReadMode
  <2> QED BY <2>1, <2>2
<1>3. ask' \in [Asks -> Call]
  BY <1>1, <1>2
<1>4. TypeOK'
  BY <1>3 DEF IInv, TypeOK, ReadMode
<1>5. Tickets'
  BY <1>3 DEF IInv, TypeOK, Tickets, ReadMode
<1>6. Forms'
  BY <1>3 DEF IInv, TypeOK, Forms, FormOf, ReadMode
<1>7. Holding'
  BY <1>3 DEF IInv, TypeOK, Holding, ReadMode
<1>8. NoStaleForm'
  BY <1>3 DEF IInv, TypeOK, NoStaleForm, ReadMode
<1>9. Sleeping'
  BY <1>3 DEF IInv, TypeOK, Sleeping, ReadMode
<1> QED BY <1>4, <1>5, <1>6, <1>7, <1>8, <1>9 DEF IInv

\* The form of a call that has read that the user is awake is in the cache at once.
LEMMA ReadSleepKeeps == ASSUME IInv, NEW a \in Asks, ReadSleep(a) PROVE IInv'
<1>1. \/ asleep /\ form' = form /\ Step(a, IF ask[a].seen # None THEN "judge" ELSE "review")
      \/ ~asleep /\ Present(a, IF ask[a].seen # None THEN "assess" ELSE "await")
  BY DEF ReadSleep
<1>2. /\ ask' \in [Asks -> Call]
      /\ \A b \in Asks \ {a} : ask'[b] = ask[b]
      /\ \/ asleep /\ form' = form /\ ask'[a].pc \in {"judge", "review"}
            /\ ask'[a].ticket = ask[a].ticket /\ ask'[a].result = ask[a].result
         \/ ask'[a].pc = "ended" /\ ask'[a].result = "cancelled" /\ form' = form
         \/ /\ ~asleep /\ ask'[a].pc = "announce" /\ ask[a].ticket = epoch
            /\ ask'[a].ticket = ask[a].ticket /\ ask'[a].result = ask[a].result
            /\ form' = [form EXCEPT ![a] = "pending"]
  BY <1>1, StepCall, PresentCall DEF IInv
<1>3. /\ ask[a].pc = "asleep"
      /\ UNCHANGED <<autonomy, epoch, held, actors, bounds, missed>>
  BY DEF ReadSleep
<1>4. TypeOK'
  BY <1>2, <1>3 DEF IInv, TypeOK
<1>5. Tickets'
  BY <1>2, <1>3 DEF IInv, TypeOK, Tickets
<1>6. Forms'
  BY <1>2, <1>3 DEF IInv, TypeOK, Forms, FormOf
<1>7. Holding'
  BY <1>2, <1>3 DEF IInv, TypeOK, Holding
<1>8. NoStaleForm'
  BY <1>2, <1>3 DEF IInv, TypeOK, NoStaleForm
<1>9. Sleeping'
  BY <1>2, <1>3 DEF IInv, TypeOK, Forms, FormOf, Sleeping
<1> QED BY <1>4, <1>5, <1>6, <1>7, <1>8, <1>9 DEF IInv

\* A form that the ask will answer itself may stay open while the user sleeps.
LEMMA JudgeKeeps == ASSUME IInv, NEW a \in Asks, Judge(a) PROVE IInv'
<1>1. /\ ask' \in [Asks -> Call]
      /\ \A b \in Asks \ {a} : ask'[b] = ask[b]
      /\ ask'[a].ticket = ask[a].ticket /\ ask'[a].result = ask[a].result
      /\ \/ form' = form /\ ask'[a].pc = "recheck"
         \/ /\ ask'[a].pc = "announce" /\ ask'[a].plan = "reply"
            /\ form' = [form EXCEPT ![a] = "pending"]
  BY StepCall, CreateCall DEF IInv, Judge, CreateWaiting
<1>2. /\ ask[a].pc = "judge"
      /\ UNCHANGED <<autonomy, epoch, held, actors, bounds, missed>>
  BY DEF Judge
<1>3. TypeOK'
  BY <1>1, <1>2 DEF IInv, TypeOK
<1>4. Tickets'
  BY <1>1, <1>2 DEF IInv, TypeOK, Tickets
<1>5. Forms'
  BY <1>1, <1>2 DEF IInv, TypeOK, Forms, FormOf
<1>6. Holding'
  BY <1>1, <1>2 DEF IInv, TypeOK, Holding
<1>7. NoStaleForm'
  BY <1>1, <1>2 DEF IInv, TypeOK, NoStaleForm
<1>8. Sleeping'
  BY <1>1, <1>2 DEF IInv, TypeOK, Forms, FormOf, Sleeping
<1> QED BY <1>3, <1>4, <1>5, <1>6, <1>7, <1>8 DEF IInv

\* As ReadSleep, the evaluation having been in vain.
LEMMA RecheckKeeps == ASSUME IInv, NEW a \in Asks, Recheck(a) PROVE IInv'
<1>1. \/ asleep /\ form' = form /\ Step(a, "review")
      \/ ~asleep /\ Present(a, "await")
  BY DEF Recheck
<1>2. /\ ask' \in [Asks -> Call]
      /\ \A b \in Asks \ {a} : ask'[b] = ask[b]
      /\ \/ asleep /\ form' = form /\ ask'[a].pc = "review"
            /\ ask'[a].ticket = ask[a].ticket /\ ask'[a].result = ask[a].result
         \/ ask'[a].pc = "ended" /\ ask'[a].result = "cancelled" /\ form' = form
         \/ /\ ~asleep /\ ask'[a].pc = "announce" /\ ask[a].ticket = epoch
            /\ ask'[a].ticket = ask[a].ticket /\ ask'[a].result = ask[a].result
            /\ form' = [form EXCEPT ![a] = "pending"]
  BY <1>1, StepCall, PresentCall DEF IInv
<1>3. /\ ask[a].pc = "recheck"
      /\ UNCHANGED <<autonomy, epoch, held, actors, bounds, missed>>
  BY DEF Recheck
<1>4. TypeOK'
  BY <1>2, <1>3 DEF IInv, TypeOK
<1>5. Tickets'
  BY <1>2, <1>3 DEF IInv, TypeOK, Tickets
<1>6. Forms'
  BY <1>2, <1>3 DEF IInv, TypeOK, Forms, FormOf
<1>7. Holding'
  BY <1>2, <1>3 DEF IInv, TypeOK, Holding
<1>8. NoStaleForm'
  BY <1>2, <1>3 DEF IInv, TypeOK, NoStaleForm
<1>9. Sleeping'
  BY <1>2, <1>3 DEF IInv, TypeOK, Forms, FormOf, Sleeping
<1> QED BY <1>4, <1>5, <1>6, <1>7, <1>8, <1>9 DEF IInv

\* A request that becomes a review has no form.
LEMMA ReviewKeeps == ASSUME IInv, NEW a \in Asks, Review(a) PROVE IInv'
<1>1. /\ ask' \in [Asks -> Call] /\ ask'[a].pc = "ended" /\ ask'[a].result \in {"deferred", "full"}
      /\ \A b \in Asks \ {a} : ask'[b] = ask[b]
  BY EndCall DEF IInv, Review
<1>2. /\ ask[a].pc = "review"
      /\ UNCHANGED <<autonomy, epoch, form, held, actors, bounds, missed>>
  BY DEF Review
<1>3. TypeOK'
  BY <1>1, <1>2 DEF IInv, TypeOK
<1>4. Tickets'
  BY <1>1, <1>2 DEF IInv, TypeOK, Tickets
<1>5. Forms'
  BY <1>1, <1>2 DEF IInv, TypeOK, Forms, FormOf
<1>6. Holding'
  BY <1>1, <1>2 DEF IInv, TypeOK, Holding
<1>7. NoStaleForm'
  BY <1>1, <1>2 DEF IInv, TypeOK, NoStaleForm
<1>8. Sleeping'
  BY <1>1, <1>2 DEF IInv, TypeOK, Forms, FormOf, Sleeping
<1> QED BY <1>3, <1>4, <1>5, <1>6, <1>7, <1>8 DEF IInv

\* A form that a prompt has overtaken is about to be dropped.
LEMMA AnnounceKeeps == ASSUME IInv, NEW a \in Asks, Announce(a) PROVE IInv'
<1>1. /\ ask' \in [Asks -> Call]
      /\ \A b \in Asks \ {a} : ask'[b] = ask[b]
      /\ ask'[a].ticket = ask[a].ticket /\ ask'[a].result = ask[a].result
      /\ ask'[a].plan = ask[a].plan
      /\ \/ Superseded(a) /\ ask'[a].pc = "drop"
         \/ ~Superseded(a) /\ ask'[a].pc = ask[a].plan
  BY AskTyped, StepCall DEF IInv, Announce
<1>2. /\ ask[a].pc = "announce"
      /\ UNCHANGED <<autonomy, epoch, form, held, actors, bounds, missed>>
  BY DEF Announce
<1>3. TypeOK'
  BY <1>1, <1>2 DEF IInv, TypeOK
<1>4. Tickets'
  BY <1>1, <1>2 DEF IInv, TypeOK, Tickets
<1>5. Forms'
  BY <1>1, <1>2 DEF IInv, TypeOK, Forms, FormOf
<1>6. Holding'
  BY <1>1, <1>2 DEF IInv, TypeOK, Holding
<1>7. NoStaleForm'
  BY <1>1, <1>2 DEF IInv, TypeOK, NoStaleForm
<1>8. Sleeping'
  BY <1>1, <1>2 DEF IInv, TypeOK, Sleeping
<1> QED BY <1>3, <1>4, <1>5, <1>6, <1>7, <1>8 DEF IInv

\* The permit may be held for a form that is taken back; it will settle nothing.
LEMMA AnnounceFailsKeeps == ASSUME IInv, NEW a \in Asks, AnnounceFails(a) PROVE IInv'
<1>1. /\ ask' \in [Asks -> Call] /\ ask'[a].pc = "ended" /\ ask'[a].result = "died"
      /\ \A b \in Asks \ {a} : ask'[b] = ask[b]
  BY EndCall DEF IInv, AnnounceFails
<1>2. /\ ask[a].pc = "announce" /\ form' = [form EXCEPT ![a] = "none"]
      /\ faults < MaxFaults /\ faults' = faults + 1
      /\ UNCHANGED <<autonomy, epoch, held, actors, prompts, missed>>
  BY DEF AnnounceFails
<1>3. TypeOK'
  BY <1>1, <1>2 DEF IInv, TypeOK
<1>4. Tickets'
  BY <1>1, <1>2 DEF IInv, TypeOK, Tickets
<1>5. Forms'
  BY <1>1, <1>2 DEF IInv, TypeOK, Forms, FormOf
<1>6. Holding'
  BY <1>1, <1>2 DEF IInv, TypeOK, Holding
<1>7. NoStaleForm'
  BY <1>1, <1>2 DEF IInv, TypeOK, NoStaleForm
<1>8. Sleeping'
  BY <1>1, <1>2 DEF IInv, TypeOK, Sleeping
<1> QED BY <1>3, <1>4, <1>5, <1>6, <1>7, <1>8 DEF IInv

\* The ask takes the permit for its own form, or finds it settled.
LEMMA DropKeeps == ASSUME IInv, NEW a \in Asks, Drop(a) PROVE IInv'
<1>1. /\ ask' \in [Asks -> Call]
      /\ \A b \in Asks \ {a} : ask'[b] = ask[b]
      /\ \/ Take(a, "cancelled", a) /\ ask' = ask
         \/ /\ TooLate(a) /\ ask'[a].pc = ask[a].plan /\ ask'[a].ticket = ask[a].ticket
            /\ ask'[a].result = ask[a].result /\ ask'[a].plan = ask[a].plan
  BY AskTyped, StepCall DEF IInv, Drop
<1>2. /\ ask[a].pc = "drop"
      /\ UNCHANGED <<autonomy, epoch, form, actors, bounds, missed>>
  BY DEF Drop
<1>3. TypeOK'
  BY <1>1, <1>2 DEF IInv, TypeOK, Take, TooLate
<1>4. Tickets'
  BY <1>1, <1>2 DEF IInv, TypeOK, Tickets, Take, TooLate
<1>5. Forms'
  BY <1>1, <1>2 DEF IInv, TypeOK, Forms, FormOf, Take, TooLate
<1>6. Holding'
  BY <1>1, <1>2 DEF IInv, TypeOK, Holding, Take, TooLate
<1>7. NoStaleForm'
  BY <1>1, <1>2 DEF IInv, TypeOK, NoStaleForm, Take, TooLate
<1>8. Sleeping'
  BY <1>1, <1>2 DEF IInv, TypeOK, Sleeping, Take, TooLate
<1> QED BY <1>3, <1>4, <1>5, <1>6, <1>7, <1>8 DEF IInv

\* The call goes on to reply or rests; its form stays as it is.
LEMMA AssessKeeps == ASSUME IInv, NEW a \in Asks, Assess(a) PROVE IInv'
<1>1. /\ ask' \in [Asks -> Call]
      /\ \A b \in Asks \ {a} : ask'[b] = ask[b]
      /\ ask'[a].pc \in Waiting /\ ask'[a].ticket = ask[a].ticket
      /\ ask'[a].result = ask[a].result /\ (ask[a].plan = "reply" => ask'[a].plan = "reply")
  BY StepCall, RestOne DEF IInv, Assess
<1>2. /\ ask[a].pc = "assess"
      /\ UNCHANGED <<autonomy, epoch, form, held, actors, bounds, missed>>
  BY DEF Assess
<1>3. TypeOK'
  BY <1>1, <1>2 DEF IInv, TypeOK
<1>4. Tickets'
  BY <1>1, <1>2 DEF IInv, TypeOK, Tickets
<1>5. Forms'
  BY <1>1, <1>2 DEF IInv, TypeOK, Forms, FormOf
<1>6. Holding'
  BY <1>1, <1>2 DEF IInv, TypeOK, Holding
<1>7. NoStaleForm'
  BY <1>1, <1>2 DEF IInv, TypeOK, NoStaleForm
<1>8. Sleeping'
  BY <1>1, <1>2 DEF IInv, TypeOK, Sleeping
<1> QED BY <1>3, <1>4, <1>5, <1>6, <1>7, <1>8 DEF IInv

\* As Drop, with an answer.
LEMMA ReplyKeeps == ASSUME IInv, NEW a \in Asks, Reply(a) PROVE IInv'
<1>1. /\ ask' \in [Asks -> Call]
      /\ \A b \in Asks \ {a} : ask'[b] = ask[b]
      /\ \/ Take(a, "answered", a) /\ ask' = ask
         \/ /\ TooLate(a) /\ ask'[a].pc = "await" /\ ask'[a].ticket = ask[a].ticket
            /\ ask'[a].result = ask[a].result /\ (ask[a].plan = "reply" => ask'[a].plan = "reply")
  BY AskTyped, RestOne DEF IInv, Reply
<1>2. /\ ask[a].pc = "reply"
      /\ UNCHANGED <<autonomy, epoch, form, actors, bounds, missed>>
  BY DEF Reply
<1>3. TypeOK'
  BY <1>1, <1>2 DEF IInv, TypeOK, Take, TooLate
<1>4. Tickets'
  BY <1>1, <1>2 DEF IInv, TypeOK, Tickets, Take, TooLate
<1>5. Forms'
  BY <1>1, <1>2 DEF IInv, TypeOK, Forms, FormOf, Take, TooLate
<1>6. Holding'
  BY <1>1, <1>2 DEF IInv, TypeOK, Holding, Take, TooLate
<1>7. NoStaleForm'
  BY <1>1, <1>2 DEF IInv, TypeOK, NoStaleForm, Take, TooLate
<1>8. Sleeping'
  BY <1>1, <1>2 DEF IInv, TypeOK, Sleeping, Take, TooLate
<1> QED BY <1>3, <1>4, <1>5, <1>6, <1>7, <1>8 DEF IInv

\* A call ends with what its form has become.
LEMMA AwaitKeeps == ASSUME IInv, NEW a \in Asks, Await(a) PROVE IInv'
<1>1. /\ ask' \in [Asks -> Call] /\ ask'[a].pc = "ended" /\ ask'[a].result = form[a]
      /\ \A b \in Asks \ {a} : ask'[b] = ask[b]
  BY EndCall DEF IInv, Await
<1>2. /\ ask[a].pc = "await" /\ Settled(a)
      /\ UNCHANGED <<autonomy, epoch, form, held, actors, bounds, missed>>
  BY DEF Await
<1>3. TypeOK'
  BY <1>1, <1>2 DEF IInv, TypeOK
<1>4. Tickets'
  BY <1>1, <1>2 DEF IInv, TypeOK, Tickets
<1>5. Forms'
  BY <1>1, <1>2 DEF IInv, TypeOK, Forms, FormOf
<1>6. Holding'
  BY <1>1, <1>2 DEF IInv, TypeOK, Holding
<1>7. NoStaleForm'
  BY <1>1, <1>2 DEF IInv, TypeOK, NoStaleForm
<1>8. Sleeping'
  BY <1>1, <1>2 DEF IInv, TypeOK, Sleeping
<1> QED BY <1>3, <1>4, <1>5, <1>6, <1>7, <1>8 DEF IInv

\* A call interrupted before it has a form is over; a later one has a form to cancel.
LEMMA InterruptKeeps == ASSUME IInv, NEW a \in Asks, Interrupt(a) PROVE IInv'
<1>1. /\ ask' \in [Asks -> Call]
      /\ \A b \in Asks \ {a} : ask'[b] = ask[b]
      /\ \/ /\ ask[a].pc = "judge" /\ ask'[a].pc = "ended" /\ ask'[a].result = "interrupted"
         \/ /\ ask[a].pc \in Waiting /\ ask[a].plan # "reply" /\ (held # None => held.by # a)
            /\ ask'[a].pc = "quit" /\ ask'[a].ticket = ask[a].ticket
            /\ ask'[a].result = ask[a].result
  BY EndCall, StepCall DEF IInv, Interrupt
<1>2. /\ ask[a].pc \in {"judge"} \cup Waiting
      /\ UNCHANGED <<autonomy, epoch, form, held, actors, bounds, missed>>
  BY DEF Interrupt
<1>3. TypeOK'
  BY <1>1, <1>2 DEF IInv, TypeOK
<1>4. Tickets'
  BY <1>1, <1>2 DEF IInv, TypeOK, Tickets
<1>5. Forms'
  BY <1>1, <1>2 DEF IInv, TypeOK, Forms, FormOf
<1>6. Holding'
  BY <1>1, <1>2 DEF IInv, TypeOK, Holding
<1>7. NoStaleForm'
  BY <1>1, <1>2 DEF IInv, TypeOK, NoStaleForm
<1>8. Sleeping'
  BY <1>1, <1>2 DEF IInv, TypeOK, Forms, FormOf, Sleeping
<1> QED BY <1>3, <1>4, <1>5, <1>6, <1>7, <1>8 DEF IInv

\* As Drop; a call whose form is settled already is over, with no settlement as its result.
LEMMA QuitKeeps == ASSUME IInv, NEW a \in Asks, Quit(a) PROVE IInv'
<1>1. /\ ask' \in [Asks -> Call]
      /\ \A b \in Asks \ {a} : ask'[b] = ask[b]
      /\ \/ Take(a, "cancelled", a) /\ ask' = ask
         \/ TooLate(a) /\ ask'[a].pc = "ended" /\ ask'[a].result = "interrupted"
  BY AskTyped, EndCall DEF IInv, Quit
<1>2. /\ ask[a].pc = "quit"
      /\ UNCHANGED <<autonomy, epoch, form, actors, bounds, missed>>
  BY DEF Quit
<1>3. TypeOK'
  BY <1>1, <1>2 DEF IInv, TypeOK, Take, TooLate
<1>4. Tickets'
  BY <1>1, <1>2 DEF IInv, TypeOK, Tickets, Take, TooLate
<1>5. Forms'
  BY <1>1, <1>2 DEF IInv, TypeOK, Forms, FormOf, Take, TooLate
<1>6. Holding'
  BY <1>1, <1>2 DEF IInv, TypeOK, Holding, Take, TooLate
<1>7. NoStaleForm'
  BY <1>1, <1>2 DEF IInv, TypeOK, NoStaleForm, Take, TooLate
<1>8. Sleeping'
  BY <1>1, <1>2 DEF IInv, TypeOK, Sleeping, Take, TooLate
<1> QED BY <1>3, <1>4, <1>5, <1>6, <1>7, <1>8 DEF IInv

\* The form that was pending under the permit is settled; a sweep goes on without it.
LEMMA CompleteKeeps == ASSUME IInv, Complete PROVE IInv'
<1>1. /\ held # None /\ Return(TRUE) /\ form' = [form EXCEPT ![held.form] = held.to]
      /\ UNCHANGED <<autonomy, epoch, bounds, missed>>
  BY DEF Complete, Settle
<1>2. /\ held' = None
      /\ sleeper' = IF held.by = "sleep" THEN Onward(sleeper, held.form, TRUE) ELSE sleeper
      /\ prompt' = IF held.by = "prompt" THEN Onward(prompt, held.form, TRUE) ELSE prompt
      /\ study' = IF held.by = "coordinator" THEN None ELSE study
  BY <1>1 DEF Return
<1>3. /\ ask' \in [Asks -> Call]
      /\ held.by \notin Asks => ask' = ask
      /\ \A b \in Asks \ {held.form} : ask'[b] = ask[b]
      /\ held.by \in Asks =>
           LET call == ask[held.form]  new == ask'[held.form] IN
           \/ new.pc = "ended" /\ new.result \notin Settlements /\ call.pc = "quit"
           \/ /\ new.pc \in Waiting /\ new.ticket = call.ticket
              /\ new.result = call.result /\ (call.plan = "reply" => new.plan = "reply")
  BY <1>1, ReturnCall DEF IInv
<1>4. TypeOK'
  BY <1>1, <1>2, <1>3 DEF IInv, TypeOK, Onward
<1>5. Tickets'
  <2> SUFFICES ASSUME NEW b \in Asks, Live(b)' PROVE ask'[b].ticket <= epoch
    BY <1>1 DEF Tickets
  <2>1. CASE b # held.form \/ held.by \notin Asks
    BY <1>3, <2>1 DEF IInv, Tickets
  <2>2. CASE b = held.form /\ held.by \in Asks
    BY <1>1, <1>3, <2>2 DEF IInv, Tickets, Holding
  <2> QED BY <2>1, <2>2
<1>6. Forms'
  <2> SUFFICES ASSUME NEW b \in Asks PROVE FormOf(b)'
    BY DEF Forms
  <2>1. FormOf(b)
    BY DEF IInv, Forms
  <2>2. held.form \in Asks /\ held.to \in Settlements /\ form'[held.form] = held.to
        /\ \A c \in Asks \ {held.form} : form'[c] = form[c]
    BY <1>1 DEF IInv, TypeOK
  <2>3. CASE b # held.form
    BY <1>1, <1>3, <2>1, <2>2, <2>3 DEF FormOf
  <2>4. CASE b = held.form /\ held.by \notin Asks
    BY <1>1, <1>3, <2>1, <2>2, <2>4 DEF FormOf, IInv, Holding
  <2>5. CASE b = held.form /\ held.by \in Asks
    BY <1>1, <1>3, <2>1, <2>2, <2>5 DEF FormOf, IInv, TypeOK, Holding
  <2> QED BY <2>3, <2>4, <2>5
<1>7. Holding'
  BY <1>1, <1>2, <1>3 DEF IInv, TypeOK, Holding, Onward
<1>8. NoStaleForm'
  BY <1>1, <1>2, <1>3 DEF IInv, TypeOK, Forms, FormOf, Holding, NoStaleForm, Onward
<1>9. Sleeping'
  BY <1>1, <1>2, <1>3 DEF IInv, TypeOK, Forms, FormOf, Holding, Sleeping, Onward
<1> QED BY <1>4, <1>5, <1>6, <1>7, <1>8, <1>9 DEF IInv

\* A form whose publication has failed is `missed`, or its sweep ends with it.
LEMMA CompleteFailsKeeps == ASSUME IInv, CompleteFails PROVE IInv'
<1>1. /\ held # None /\ Return(FALSE) /\ faults < MaxFaults /\ faults' = faults + 1
      /\ \/ held.by = "user" /\ form' = [form EXCEPT ![held.form] = held.to]
         \/ form' = form
      /\ missed' = missed \cup
           {a \in Asks : Pending(a) /\ \/ held.by = "sleep" /\ a \in sleeper.list
                                       \/ held.by = "prompt" /\ a \in prompt.list
                                       \/ held.by \in Asks /\ a = held.form}
      /\ UNCHANGED <<autonomy, epoch, prompts>>
  BY DEF CompleteFails, Settle
<1>2. /\ held' = None
      /\ sleeper' = IF held.by = "sleep" THEN Onward(sleeper, held.form, FALSE) ELSE sleeper
      /\ prompt' = IF held.by = "prompt" THEN Onward(prompt, held.form, FALSE) ELSE prompt
      /\ study' = IF held.by = "coordinator" THEN None ELSE study
  BY <1>1 DEF Return
<1>3. /\ ask' \in [Asks -> Call]
      /\ held.by \notin Asks => ask' = ask
      /\ \A b \in Asks \ {held.form} : ask'[b] = ask[b]
      /\ held.by \in Asks =>
           LET call == ask[held.form]  new == ask'[held.form] IN
           new.pc = "ended" /\ new.result \notin Settlements
  BY <1>1, ReturnCall DEF IInv
<1>4. TypeOK'
  BY <1>1, <1>2, <1>3 DEF IInv, TypeOK, Onward
<1>5. Tickets'
  BY <1>1, <1>2, <1>3 DEF IInv, TypeOK, Tickets, Forms, FormOf, Holding, Onward
<1>6. Forms'
  BY <1>1, <1>2, <1>3 DEF IInv, TypeOK, Forms, FormOf, Holding, Onward
<1>7. Holding'
  BY <1>1, <1>2, <1>3 DEF IInv, TypeOK, Holding, Onward
<1>8. NoStaleForm'
  BY <1>1, <1>2, <1>3 DEF IInv, TypeOK, Forms, FormOf, Holding, NoStaleForm, Onward
<1>9. Sleeping'
  BY <1>1, <1>2, <1>3 DEF IInv, TypeOK, Forms, FormOf, Holding, Sleeping, Onward
<1> QED BY <1>4, <1>5, <1>6, <1>7, <1>8, <1>9 DEF IInv

\* The permit is taken for a form that is pending.
LEMMA DecideKeeps == ASSUME IInv, NEW a \in Asks, Decide(a) PROVE IInv'
<1>1. TypeOK'
  BY DEF IInv, TypeOK, Decide, Take
<1>2. Holding'
  BY DEF IInv, TypeOK, Holding, Decide, Take
<1>3. Tickets' /\ Forms' /\ NoStaleForm' /\ Sleeping'
  BY DEF IInv, Tickets, Forms, FormOf, NoStaleForm, Sleeping, Decide, Take
<1> QED BY <1>1, <1>2, <1>3 DEF IInv

\* A coordinator only reads.
LEMMA ReconsiderKeeps == ASSUME IInv, NEW a \in Asks, Reconsider(a) PROVE IInv'
<1>1. TypeOK'
  BY DEF IInv, TypeOK, Reconsider
<1>2. Tickets' /\ Forms' /\ Holding' /\ NoStaleForm' /\ Sleeping'
  BY DEF IInv, Tickets, Forms, FormOf, Holding, NoStaleForm, Sleeping, Reconsider
<1> QED BY <1>1, <1>2 DEF IInv

\* The coordinator takes the permit for a form that is pending, or gives up.
LEMMA ReconsideredKeeps == ASSUME IInv, Reconsidered PROVE IInv'
<1>1. TypeOK'
  BY DEF IInv, TypeOK, Reconsidered, Take
<1>2. Holding'
  BY DEF IInv, TypeOK, Holding, Reconsidered, Take
<1>3. Tickets' /\ Forms' /\ NoStaleForm' /\ Sleeping'
  BY DEF IInv, Tickets, Forms, FormOf, NoStaleForm, Sleeping, Reconsidered, Take
<1> QED BY <1>1, <1>2, <1>3 DEF IInv

\* The invariant does not depend on the answers mode.
LEMMA ChangeModeKeeps == ASSUME IInv, ChangeMode PROVE IInv'
<1>1. TypeOK'
  BY DEF IInv, TypeOK, ChangeMode
<1>2. Tickets' /\ Forms' /\ Holding' /\ NoStaleForm' /\ Sleeping'
  BY DEF IInv, Tickets, Forms, FormOf, Holding, NoStaleForm, Sleeping, ChangeMode
<1> QED BY <1>1, <1>2 DEF IInv

\* The conversion owes the user every form from the moment sleep begins.
LEMMA FallAsleepKeeps == ASSUME IInv, FallAsleep PROVE IInv'
<1>1. TypeOK'
  BY DEF IInv, TypeOK, FallAsleep
<1>2. Holding'
  BY DEF IInv, TypeOK, Holding, FallAsleep
<1>3. Sleeping'
  BY DEF IInv, TypeOK, Sleeping, FallAsleep
<1>4. Tickets' /\ Forms' /\ NoStaleForm'
  BY DEF IInv, Tickets, Forms, FormOf, NoStaleForm, FallAsleep
<1> QED BY <1>1, <1>2, <1>3, <1>4 DEF IInv

\* Every form that is pending is on the list of the conversion.
LEMMA DeferPendingKeeps == ASSUME IInv, DeferPending PROVE IInv'
<1>1. TypeOK'
  BY DEF IInv, TypeOK, DeferPending, Sweep
<1>2. Holding'
  BY DEF IInv, TypeOK, Holding, DeferPending, Sweep
<1>3. Sleeping'
  BY DEF IInv, TypeOK, Sleeping, DeferPending, Sweep
<1>4. Tickets' /\ Forms' /\ NoStaleForm'
  BY DEF IInv, Tickets, Forms, FormOf, NoStaleForm, DeferPending, Sweep
<1> QED BY <1>1, <1>2, <1>3, <1>4 DEF IInv

\* Nobody sleeps, and nothing is promised.
LEMMA WakeUpKeeps == ASSUME IInv, WakeUp PROVE IInv'
<1>1. rev' \in Nat
  BY DEF IInv, TypeOK, WakeUp
<1>2. TypeOK'
  BY <1>1 DEF IInv, TypeOK, WakeUp
<1>3. Sleeping'
  BY <1>1 DEF IInv, TypeOK, Sleeping, WakeUp
<1>4. Tickets' /\ Forms' /\ Holding' /\ NoStaleForm'
  BY DEF IInv, Tickets, Forms, FormOf, Holding, NoStaleForm, WakeUp
<1> QED BY <1>2, <1>3, <1>4 DEF IInv

\* The conversion takes the permit for a form on its list, or finds it settled.
LEMMA DeferKeeps == ASSUME IInv, NEW a \in Asks, Defer(a) PROVE IInv'
<1>1. TypeOK'
  BY DEF IInv, TypeOK, Defer, Take, TooLate, Onward
<1>2. Holding'
  BY DEF IInv, TypeOK, Holding, Defer, Take, TooLate, Onward
<1>3. Sleeping'
  BY DEF IInv, TypeOK, Sleeping, Defer, Take, TooLate, Onward
<1>4. Tickets' /\ Forms' /\ NoStaleForm'
  BY DEF IInv, Tickets, Forms, FormOf, NoStaleForm, Defer, Take, TooLate, Onward
<1> QED BY <1>1, <1>2, <1>3, <1>4 DEF IInv

\* A prompt begins to supersede, with an empty list.
LEMMA PromptKeeps == ASSUME IInv, Prompt PROVE IInv'
<1>1. prompts' \in 0..MaxPrompts
  BY DEF IInv, TypeOK, Prompt
<1>2. TypeOK'
  BY <1>1 DEF IInv, TypeOK, Prompt
<1>3. Holding'
  BY <1>1 DEF IInv, TypeOK, Holding, Prompt
<1>4. NoStaleForm'
  BY <1>1 DEF IInv, TypeOK, NoStaleForm, Prompt
<1>5. Tickets' /\ Forms' /\ Sleeping'
  BY DEF IInv, Tickets, Forms, FormOf, Sleeping, Prompt
<1> QED BY <1>2, <1>3, <1>4, <1>5 DEF IInv

\* The prompt wakes the user; no conversion is under way.
LEMMA AdmitKeeps == ASSUME IInv, Admit PROVE IInv'
<1>1. rev' \in Nat
  BY DEF IInv, TypeOK, Admit
<1>2. TypeOK'
  BY <1>1 DEF IInv, TypeOK, Admit
<1>3. Holding'
  BY <1>1 DEF IInv, TypeOK, Holding, Admit
<1>4. NoStaleForm'
  BY <1>1 DEF IInv, TypeOK, NoStaleForm, Admit
<1>5. Sleeping'
  BY <1>1 DEF IInv, TypeOK, Sleeping, Admit
<1>6. Tickets' /\ Forms'
  BY DEF IInv, Tickets, Forms, FormOf, Admit
<1> QED BY <1>2, <1>3, <1>4, <1>5, <1>6 DEF IInv

\* Every form of an earlier epoch that is pending is on the list of the prompt.
LEMMA CancelPendingKeeps == ASSUME IInv, CancelPending PROVE IInv'
<1>1. TypeOK'
  BY DEF IInv, TypeOK, CancelPending, Sweep
<1>2. Tickets'
  BY DEF IInv, TypeOK, Tickets, CancelPending, Sweep
<1>3. Holding'
  BY DEF IInv, TypeOK, Holding, CancelPending, Sweep
<1>4. NoStaleForm'
  BY DEF IInv, TypeOK, NoStaleForm, CancelPending, Sweep
<1>5. Forms' /\ Sleeping'
  BY DEF IInv, Forms, FormOf, Sleeping, CancelPending, Sweep
<1> QED BY <1>1, <1>2, <1>3, <1>4, <1>5 DEF IInv

\* As Defer, for the list of the prompt.
LEMMA CancelObsoleteKeeps == ASSUME IInv, NEW a \in Asks, CancelObsolete(a) PROVE IInv'
<1>1. TypeOK'
  BY DEF IInv, TypeOK, CancelObsolete, Take, TooLate, Onward
<1>2. Holding'
  BY DEF IInv, TypeOK, Holding, CancelObsolete, Take, TooLate, Onward
<1>3. NoStaleForm'
  BY DEF IInv, TypeOK, NoStaleForm, CancelObsolete, Take, TooLate, Onward
<1>4. Tickets' /\ Forms' /\ Sleeping'
  BY DEF IInv, Tickets, Forms, FormOf, Sleeping, CancelObsolete, Take, TooLate, Onward
<1> QED BY <1>1, <1>2, <1>3, <1>4 DEF IInv

-----------------------------------------------------------------------------
(* The invariant.                                                            *)

\* Nothing is asked at the start.
LEMMA InitIInv == Init => IInv
<1> SUFFICES ASSUME Init PROVE IInv
  OBVIOUS
<1>1. TypeOK
  BY ModesAssumption DEF Init, TypeOK
<1>2. Tickets /\ Forms /\ Holding
  BY DEF Init, Tickets, Forms, FormOf, Holding
<1>3. NoStaleForm /\ Sleeping
  BY DEF Init, NoStaleForm, Sleeping
<1> QED BY <1>1, <1>2, <1>3 DEF IInv

\* Every step, and a stutter, preserves it.
LEMMA NextIInv == IInv /\ [Next]_vars => IInv'
<1> SUFFICES ASSUME IInv, [Next]_vars PROVE IInv'
  OBVIOUS
<1>1. ASSUME NEW a \in Asks, Enter(a) \/ Go(a) \/ AnnounceFails(a) \/ Interrupt(a) PROVE IInv'
  <2>1. CASE Go(a)
    BY <2>1, ReadModeKeeps, ReadSleepKeeps, JudgeKeeps, RecheckKeeps, ReviewKeeps,
       AnnounceKeeps, DropKeeps, AssessKeeps, ReplyKeeps, AwaitKeeps, QuitKeeps DEF Go
  <2>2. CASE Enter(a) \/ AnnounceFails(a) \/ Interrupt(a)
    BY <2>2, EnterKeeps, AnnounceFailsKeeps, InterruptKeeps
  <2> QED BY <1>1, <2>1, <2>2
<1>2. ASSUME NEW a \in Asks, Decide(a) \/ Reconsider(a) \/ Defer(a) \/ CancelObsolete(a) PROVE IInv'
  BY <1>2, DecideKeeps, ReconsiderKeeps, DeferKeeps, CancelObsoleteKeeps
<1>3. CASE Complete \/ CompleteFails
  BY <1>3, CompleteKeeps, CompleteFailsKeeps
<1>4. CASE Reconsidered \/ ChangeMode \/ FallAsleep \/ DeferPending \/ WakeUp
  BY <1>4, ReconsideredKeeps, ChangeModeKeeps, FallAsleepKeeps, DeferPendingKeeps, WakeUpKeeps
<1>5. CASE Prompt \/ Admit \/ CancelPending
  BY <1>5, PromptKeeps, AdmitKeeps, CancelPendingKeeps
<1>6. CASE UNCHANGED vars
  <2>1. TypeOK' /\ Tickets' /\ Forms'
    BY <1>6 DEF IInv, TypeOK, Tickets, Forms, FormOf
  <2>2. Holding' /\ NoStaleForm' /\ Sleeping'
    BY <1>6 DEF IInv, Holding, NoStaleForm, Sleeping
  <2> QED BY <2>1, <2>2 DEF IInv
<1> QED BY <1>1, <1>2, <1>3, <1>4, <1>5, <1>6 DEF Next

\* The invariant holds in every state the service reaches.
THEOREM Inductive == Spec => []IInv
<1> QED BY InitIInv, NextIInv, PTL DEF Spec

\* The state has the types declared for it, whoever asks, settles or prompts.
THEOREM Typing == Spec => []TypeOK
<1>1. IInv => TypeOK
  BY DEF IInv
<1> QED BY <1>1, Inductive, PTL

\* However many tools ask and whoever settles: what a tool was told is what became
\* of its form, and an ask that is over leaves no form open (form.ts, complete under
\* the permit), but for a failed publication.
THEOREM Settlement == Spec => []RequestInv
<1>1. IInv => TypeOK
  BY DEF IInv
<1>2. IInv => OneSettlement
  <2> SUFFICES ASSUME IInv, NEW a \in Asks
               PROVE  /\ ask[a].result \in Settlements /\ form[a] # "none"
                           => ask[a].result = form[a]
                      /\ Pending(a) /\ ~Live(a) => a \in missed
    BY DEF OneSettlement
  <2>1. FormOf(a)
    BY DEF IInv, Forms
  <2> QED BY <2>1 DEF FormOf
<1>3. IInv => RequestInv
  BY <1>1, <1>2 DEF RequestInv
<1> QED BY <1>3, Inductive, PTL

\* However many prompts supersede: none leaves an earlier question open behind it
\* (form.ts, ask and cancelPending).
THEOREM NoneStale == Spec => []NoStaleForm
<1>1. IInv => NoStaleForm
  BY DEF IInv
<1> QED BY <1>1, Inductive, PTL

\* Once the conversion of a family that falls asleep is done, no form waits for the
\* sleeping user (form.ts, ask and deferPending).
THEOREM NobodyAsked == Spec => []SleepDefers
<1>1. IInv => SleepDefers
  BY DEF IInv, Sleeping, SleepDefers
<1> QED BY <1>1, Inductive, PTL
=============================================================================
