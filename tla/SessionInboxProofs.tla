------------------------- MODULE SessionInboxProofs -------------------------
(* Proofs about SessionInbox: an input is admitted once and becomes a message*)
(* once, in the order of admission; a prompt is never refused because prompts*)
(* used its ID before; queued inputs let the steers go first; and an input   *)
(* whose call has returned has a drain or a bell to look for it, or an       *)
(* excuse.  The invariant follows a batch of rows from its reading, outside  *)
(* the lock, to its promotions, and says who is going to look next.          *)
EXTENDS SessionInbox, TLAPS

\* What is admitted, and what has become of it: RowOrMessage, element by element.
Once ==
  /\ \A m, n \in DOMAIN admitted : admitted[m].id = admitted[n].id => m = n
  /\ \A k, l \in DOMAIN promoted : promoted[k] = promoted[l] => k = l
  /\ \A k \in DOMAIN promoted : promoted[k] \notin pending
  /\ \A k \in DOMAIN promoted : \E n \in DOMAIN admitted : admitted[n].id = promoted[k]
  /\ \A i \in pending : \E n \in DOMAIN admitted : admitted[n].id = i
  /\ \A n \in DOMAIN admitted :
       admitted[n].id \in pending \/ \E k \in DOMAIN promoted : promoted[k] = admitted[n].id

\* The batch that a promotion has read: rows that still lie there, and with each of them
\* all earlier ones of its delivery.
Batch ==
  /\ \A n \in batch : admitted[n].id \in pending
  /\ \A n \in batch, m \in DOMAIN admitted :
       (m < n /\ admitted[m].delivery = admitted[n].delivery /\ admitted[m].id \in pending)
         => m \in batch
  /\ at = "promote" /\ batch # {} => ~compacting

\* A prompt that looks again holds the inbox, and goes on only with an ID that no prompt
\* has been admitted under.
Prompting ==
  \A c \in Clients : pc[c] # "idle" =>
    /\ call[c] \in Records
    /\ pc[c] \in {"conflicted", "refused"} =>
         \E n \in DOMAIN admitted : admitted[n].id = call[c].id
    /\ call[c].kind = "user" =>
         /\ pc[c] \in {"checking", "inserting", "conflicted"} => inbox = c
         /\ pc[c] \in {"inserting", "conflicted", "refused"} =>
              ~\E n \in DOMAIN admitted :
                 admitted[n].id = call[c].id /\ admitted[n].kind = "user"

\* While the drain serves queued inputs, the steers that lie there came later than its
\* last look for steers.
Asked ==
  /\ asked <= Len(admitted)
  /\ promotion = "queue" => at \in {"read", "lock", "promote"}
  /\ at = "queue" \/ promotion = "queue" =>
       \A n \in DOMAIN admitted :
         (admitted[n].delivery = "steer" /\ admitted[n].id \in pending) => n > asked

\* What a failed drain started from is still pending, or it has promoted something.
Snapshot == begun <= Len(promoted) /\ (snapshot \subseteq pending \/ Len(promoted) > begun)

\* Somebody is going to look at the rows, or something excuses them.
Attended ==
  \/ pending = {} \/ compacting \/ excused \/ shell \/ \E c \in Clients : pc[c] = "waking"
  \/ bell /\ at # "idle"
  \/ at \in {"begin", "steers", "read", "lock", "promote", "call", "more", "failed"}
  \/ at = "queue" /\ Rows("queue") # {}

\* Inputs of one delivery become messages in order: InDeliveryOrder, without its sets.
Ordered ==
  \A m, n \in DOMAIN admitted : \A l \in DOMAIN promoted :
    (m < n /\ admitted[m].delivery = admitted[n].delivery /\ promoted[l] = admitted[n].id)
      => \E k \in DOMAIN promoted : k < l /\ promoted[k] = admitted[m].id

IInv == /\ TypeOK /\ Once /\ Ordered /\ Batch /\ Prompting /\ Asked /\ Snapshot /\ Attended

\* The vocabulary of the model, expanded everywhere; the parts of the invariant
\* and the actions are cited where they are used.
USE NoneAssumption, RunnerAssumption, KindAssumption, DeliveryAssumption, LimitAssumption
    DEF Waits, Stages, db, calls, drain, retries, vars, Goto, Return, Unlock, DrainGone, Records

-----------------------------------------------------------------------------
(* What the helpers do.                                                      *)

\* A longer log keeps what it had, and has the new record at its end.
LEMMA Appended ==
  ASSUME NEW S, NEW s \in Seq(S), NEW e \in S
  PROVE  /\ Append(s, e) \in Seq(S)
         /\ Len(s) \in Nat /\ DOMAIN s = 1 .. Len(s)
         /\ Len(Append(s, e)) = Len(s) + 1
         /\ DOMAIN Append(s, e) = DOMAIN s \cup {Len(s) + 1}
         /\ \A n \in DOMAIN s : Append(s, e)[n] = s[n]
         /\ Append(s, e)[Len(s) + 1] = e
  OBVIOUS

\* A record of the log is a record.
LEMMA Element == ASSUME NEW S, NEW s \in Seq(S), NEW n \in DOMAIN s PROVE s[n] \in S
  OBVIOUS

\* No failure is one that failed may remember.
LEMMA NoFailureTyped == NoFailure \in [ids : SUBSET Inputs, count : 0 .. RetryLimit + 1]
  BY DEF NoFailure

\* The kinds of an ID, by the numbers of its admissions.
LEMMA KindsOfIs ==
  ASSUME NEW id, NEW kind
  PROVE  kind \in KindsOf(id) <=>
           \E n \in DOMAIN admitted : admitted[n].id = id /\ admitted[n].kind = kind
  BY DEF KindsOf, ToSet

\* What Found leaves a call with (lookup of pending.ts and what prompt makes of it): it
\* wakes; or it is refused and no prompt has used its ID; or nobody has.
LEMMA FoundCases ==
  ASSUME TypeOK, Once, NEW c \in Clients, NEW otherwise, call[c] \in Records,
         Found(c, otherwise)
  PROVE  \/ /\ pc' = [pc EXCEPT ![c] = "waking"]
            /\ KindsOf(call[c].id) # {}
         \/ /\ pc' = [pc EXCEPT ![c] = "refused"]
            /\ KindsOf(call[c].id) # {}
            /\ \E n \in DOMAIN admitted : admitted[n].id = call[c].id
            /\ call[c].kind = "user" =>
                 ~\E n \in DOMAIN admitted : admitted[n].id = call[c].id /\ admitted[n].kind = "user"
         \/ /\ pc' = [pc EXCEPT ![c] = otherwise]
            /\ KindsOf(call[c].id) = {}
            /\ ~\E n \in DOMAIN admitted : admitted[n].id = call[c].id
<1>1. CASE KindsOf(call[c].id) = {call[c].kind} /\ pc' = [pc EXCEPT ![c] = "waking"]
  BY <1>1
<1>2. CASE KindsOf(call[c].id) \notin {{}, {call[c].kind}} /\ pc' = [pc EXCEPT ![c] = "refused"]
  <2>1. ASSUME NEW n \in DOMAIN admitted, admitted[n].id = call[c].id,
               admitted[n].kind = call[c].kind
        PROVE  FALSE
    <3>1. call[c].kind \in KindsOf(call[c].id)
      BY <2>1, KindsOfIs
    <3>2. ASSUME NEW kind \in KindsOf(call[c].id)
          PROVE  kind = call[c].kind
      <4>1. PICK m \in DOMAIN admitted : admitted[m].id = call[c].id /\ admitted[m].kind = kind
        BY KindsOfIs
      <4>2. m = n
        BY <4>1, <2>1 DEF Once
      <4> QED BY <4>1, <4>2, <2>1
    <3>3. KindsOf(call[c].id) = {call[c].kind}
      BY <3>1, <3>2
    <3> QED BY <3>3, <1>2
  <2>2. \E n \in DOMAIN admitted : admitted[n].id = call[c].id
    <3>1. PICK kind : kind \in KindsOf(call[c].id)
      BY <1>2
    <3> QED BY <3>1, KindsOfIs
  <2> QED BY <1>2, <2>1, <2>2
<1>3. CASE KindsOf(call[c].id) = {} /\ pc' = [pc EXCEPT ![c] = otherwise]
  <2>1. ASSUME NEW n \in DOMAIN admitted, admitted[n].id = call[c].id
        PROVE  FALSE
    <3>1. admitted[n].kind \in KindsOf(call[c].id)
      BY <2>1, KindsOfIs
    <3> QED BY <3>1, <1>3
  <2> QED BY <1>3, <2>1
<1> QED BY <1>1, <1>2, <1>3 DEF Found

\* An insert admits a new ID, or finds it taken (the transaction of InputAdmitted).
LEMMA Inserted ==
  ASSUME IInv, NEW c \in Clients, Insert(c), KindsOf(call[c].id) = {}
  PROVE  \E new \in Nat \ {0} :
            /\ call[c] \in Records
            /\ admitted' \in Seq(Records)
            /\ Len(admitted) = new - 1 /\ Len(admitted') = new
            /\ DOMAIN admitted' = DOMAIN admitted \cup {new}
            /\ DOMAIN admitted = 1 .. new - 1
            /\ \A n \in DOMAIN admitted : n < new /\ admitted'[n] = admitted[n]
            /\ admitted'[new] = call[c]
            /\ \A n \in DOMAIN admitted : admitted[n].id # call[c].id
            /\ call[c].id \notin pending
            /\ \A k \in DOMAIN promoted : promoted[k] # call[c].id
            /\ pending' = pending \cup {call[c].id}
            /\ pc' = [pc EXCEPT ![c] = "waking"]
            /\ inbox' = IF inbox = c THEN None ELSE inbox
<1>1. call[c] \in Records
  BY DEF IInv, Prompting, Insert
<1>2. admitted \in Seq(Records)
  BY DEF IInv, TypeOK
<1>3. admitted' = Append(admitted, call[c])
  BY DEF Insert
<1>4. ASSUME NEW n \in DOMAIN admitted, admitted[n].id = call[c].id
      PROVE  FALSE
  <2>1. admitted[n].kind \in KindsOf(call[c].id)
    BY <1>4, KindsOfIs
  <2> QED BY <2>1
<1>5. call[c].id \notin pending /\ \A k \in DOMAIN promoted : promoted[k] # call[c].id
  BY <1>4 DEF IInv, Once
<1>6. /\ pending' = pending \cup {call[c].id}
      /\ pc' = [pc EXCEPT ![c] = "waking"]
      /\ inbox' = IF inbox = c THEN None ELSE inbox
  BY DEF Insert
<1>7. /\ admitted' \in Seq(Records) /\ Len(admitted) \in Nat
      /\ Len(admitted') = Len(admitted) + 1
      /\ DOMAIN admitted' = DOMAIN admitted \cup {Len(admitted) + 1}
      /\ DOMAIN admitted = 1 .. Len(admitted)
      /\ \A n \in DOMAIN admitted : admitted'[n] = admitted[n]
      /\ admitted'[Len(admitted) + 1] = call[c]
  BY <1>1, <1>2, <1>3, Appended
<1>8. \A n \in DOMAIN admitted : n < Len(admitted) + 1
  BY <1>7
<1> DEFINE new == Len(admitted) + 1
<1>9. new \in Nat \ {0} /\ Len(admitted) = new - 1 /\ DOMAIN admitted = 1 .. new - 1
  BY <1>7
<1>10. /\ admitted' \in Seq(Records) /\ Len(admitted') = new
       /\ DOMAIN admitted' = DOMAIN admitted \cup {new}
       /\ \A n \in DOMAIN admitted : n < new /\ admitted'[n] = admitted[n]
       /\ admitted'[new] = call[c]
  BY <1>7, <1>8
<1> HIDE DEF new
<1> QED BY <1>1, <1>4, <1>5, <1>6, <1>9, <1>10

\* An insert that finds its ID taken changes nothing but where the call is.
LEMMA Conflicted ==
  ASSUME IInv, NEW c \in Clients, Insert(c), KindsOf(call[c].id) # {}
  PROVE  /\ pc' = [pc EXCEPT ![c] = "conflicted"]
         /\ UNCHANGED <<admitted, pending, inbox>>
         /\ \E n \in DOMAIN admitted : admitted[n].id = call[c].id
<1>1. PICK kind : kind \in KindsOf(call[c].id)
  OBVIOUS
<1>2. \E n \in DOMAIN admitted : admitted[n].id = call[c].id
  BY <1>1, KindsOfIs
<1> QED BY <1>2 DEF Insert

-----------------------------------------------------------------------------
(* prompt and synthetic keep the invariant.                                 *)

\* A call begins: it has a record, and has done nothing with it.
LEMMA CallKeeps ==
  ASSUME IInv, NEW c \in Clients, Call(c)
  PROVE  IInv'
<1>1. TypeOK'
  BY DEF IInv, TypeOK, Call
<1>2. Prompting'
  BY DEF IInv, TypeOK, Prompting, Call
<1>3. Attended'
  BY DEF IInv, Attended, Call, Rows
<1>4. Once' /\ Ordered' /\ Batch' /\ Asked' /\ Snapshot'
  BY DEF IInv, Once, Ordered, Batch, Asked, Snapshot, Call
<1> QED BY <1>1, <1>2, <1>3, <1>4 DEF IInv

\* The lookup without the lock: a prompt goes on to the lock, and only synthetic to the
\* lookup that follows it.
LEMMA LookKeeps ==
  ASSUME IInv, NEW c \in Clients, Look(c)
  PROVE  IInv'
<1>1. TypeOK'
  BY DEF IInv, TypeOK, Once, Look, Found
<1>2. Prompting'
  <2>1. pc[c] = "looking" /\ call[c] \in Records
    BY DEF IInv, Prompting, Look
  <2>2. PICK next \in {"locking", "checking"} :
          Found(c, next) /\ (next = "checking" => call[c].kind # "user")
    BY DEF Look
  <2>3. UNCHANGED <<admitted, call, inbox>>
    BY DEF Look
  <2> DEFINE used == \E n \in DOMAIN admitted : admitted[n].id = call[c].id
             prompted == \E n \in DOMAIN admitted :
                           admitted[n].id = call[c].id /\ admitted[n].kind = "user"
  <2>4. \/ pc' = [pc EXCEPT ![c] = "waking"]
        \/ pc' = [pc EXCEPT ![c] = "refused"] /\ used /\ (call[c].kind = "user" => ~prompted)
        \/ pc' = [pc EXCEPT ![c] = next] /\ ~used
    BY <2>1, <2>2, FoundCases DEF IInv
  <2>5. \A d \in Clients \ {c} : pc'[d] = pc[d] /\ inbox' = inbox
    BY <2>3, <2>4 DEF IInv, TypeOK
  <2>6. pc'[c] \in {"waking", "refused", "locking", "checking"}
    BY <2>4 DEF IInv, TypeOK
  <2>7. call[c].kind = "user" => ~prompted \/ pc'[c] = "waking"
    BY <2>4 DEF IInv, TypeOK
  <2>8. call[c].kind = "user" => pc'[c] # "checking"
    BY <2>2, <2>4 DEF IInv, TypeOK
  <2>9. pc'[c] = "refused" => used
    BY <2>4 DEF IInv, TypeOK
  <2> QED BY <2>1, <2>3, <2>5, <2>6, <2>7, <2>8, <2>9 DEF IInv, Prompting
<1>3. Attended'
  BY DEF IInv, TypeOK, Attended, Look, Found, Rows
<1>4. Once' /\ Ordered' /\ Batch' /\ Asked' /\ Snapshot'
  BY DEF IInv, Once, Ordered, Batch, Asked, Snapshot, Look, Found
<1> QED BY <1>1, <1>2, <1>3, <1>4 DEF IInv

\* A prompt takes the inbox lock, which nobody had.
LEMMA LockKeeps ==
  ASSUME IInv, NEW c \in Clients, Lock(c)
  PROVE  IInv'
<1>1. TypeOK'
  BY DEF IInv, TypeOK, Lock
<1>2. Prompting'
  BY DEF IInv, Prompting, Lock
<1>3. Attended'
  BY DEF IInv, Attended, Lock, Rows
<1>4. Once' /\ Ordered' /\ Batch' /\ Asked' /\ Snapshot'
  BY DEF IInv, Once, Ordered, Batch, Asked, Snapshot, Lock
<1> QED BY <1>1, <1>2, <1>3, <1>4 DEF IInv

\* The lookup under the lock: a prompt keeps the lock as long as it may still insert.
LEMMA CheckKeeps ==
  ASSUME IInv, NEW c \in Clients, Check(c)
  PROVE  IInv'
<1>1. TypeOK'
  BY DEF IInv, TypeOK, Check, Found
<1>2. Prompting'
  <2>1. pc[c] = "checking" /\ call[c] \in Records
    BY DEF IInv, Prompting, Check
  <2>2. /\ Found(c, "inserting") /\ UNCHANGED <<admitted, call>>
        /\ inbox' = IF KindsOf(call[c].id) = {} \/ inbox # c THEN inbox ELSE None
    BY DEF Check
  <2> DEFINE used == \E n \in DOMAIN admitted : admitted[n].id = call[c].id
             prompted == \E n \in DOMAIN admitted :
                           admitted[n].id = call[c].id /\ admitted[n].kind = "user"
  <2>3. \/ pc' = [pc EXCEPT ![c] = "waking"]
        \/ pc' = [pc EXCEPT ![c] = "refused"] /\ used /\ (call[c].kind = "user" => ~prompted)
        \/ pc' = [pc EXCEPT ![c] = "inserting"] /\ inbox' = inbox /\ ~used
    BY <2>1, <2>2, FoundCases DEF IInv
  <2>4. \A d \in Clients \ {c} : pc'[d] = pc[d] /\ (inbox = d => inbox' = d)
    BY <2>2, <2>3 DEF IInv, TypeOK
  <2>5. pc'[c] \in {"waking", "refused", "inserting"}
    BY <2>3 DEF IInv, TypeOK
  <2>6. call[c].kind = "user" => ~prompted \/ pc'[c] = "waking"
    BY <2>3 DEF IInv, TypeOK
  <2>7. call[c].kind = "user" /\ pc'[c] = "inserting" => inbox' = c
    BY <2>1, <2>3 DEF IInv, TypeOK, Prompting
  <2>8. pc'[c] = "refused" => used
    BY <2>3 DEF IInv, TypeOK
  <2> QED BY <2>1, <2>2, <2>4, <2>5, <2>6, <2>7, <2>8 DEF IInv, Prompting
<1>3. Attended'
  BY DEF IInv, TypeOK, Attended, Check, Found, Rows
<1>4. Once' /\ Ordered' /\ Batch' /\ Asked' /\ Snapshot'
  BY DEF IInv, Once, Ordered, Batch, Asked, Snapshot, Check, Found
<1> QED BY <1>1, <1>2, <1>3, <1>4 DEF IInv

\* The transaction of InputAdmitted: a new record is the last of the log, a row, and its
\* call about to wake; an insert by somebody else under the same ID is no prompt's, for
\* the prompt has the lock.
LEMMA InsertKeeps ==
  ASSUME IInv, NEW c \in Clients, Insert(c)
  PROVE  IInv'
<1>1. /\ pc[c] = "inserting"
      /\ UNCHANGED <<compacting, promoted, call, at, bell, promotion, batch, asked, begun,
                     snapshot, stopped, failed, excused, shell>>
  BY DEF Insert
<1>2. CASE KindsOf(call[c].id) = {}
  <2>1. PICK new \in Nat \ {0} :
          /\ call[c] \in Records
          /\ admitted' \in Seq(Records)
          /\ Len(admitted) = new - 1 /\ Len(admitted') = new
          /\ DOMAIN admitted' = DOMAIN admitted \cup {new}
          /\ DOMAIN admitted = 1 .. new - 1
          /\ \A n \in DOMAIN admitted : n < new /\ admitted'[n] = admitted[n]
          /\ admitted'[new] = call[c]
          /\ \A n \in DOMAIN admitted : admitted[n].id # call[c].id
          /\ call[c].id \notin pending
          /\ \A k \in DOMAIN promoted : promoted[k] # call[c].id
          /\ pending' = pending \cup {call[c].id}
          /\ pc' = [pc EXCEPT ![c] = "waking"]
          /\ inbox' = IF inbox = c THEN None ELSE inbox
    BY <1>2, Inserted
  <2>2. TypeOK'
    BY <1>1, <2>1 DEF IInv, TypeOK
  <2>3. Once'
    <3>1. \A n \in DOMAIN admitted : admitted'[n].id = admitted[n].id
      BY <2>1
    <3>2. admitted'[new].id = call[c].id
      BY <2>1
    <3>3. \A m, n \in DOMAIN admitted' : admitted'[m].id = admitted'[n].id => m = n
      BY <2>1, <3>1, <3>2 DEF IInv, Once
    <3>4. \A k \in DOMAIN promoted : promoted[k] \notin pending'
      BY <2>1 DEF IInv, Once
    <3>5. \A i \in pending' : \E n \in DOMAIN admitted' : admitted'[n].id = i
      BY <2>1, <3>1, <3>2 DEF IInv, Once
    <3>6. \A k \in DOMAIN promoted : \E n \in DOMAIN admitted' : admitted'[n].id = promoted[k]
      BY <2>1, <3>1 DEF IInv, Once
    <3>7. \A n \in DOMAIN admitted' :
            admitted'[n].id \in pending' \/ \E k \in DOMAIN promoted : promoted[k] = admitted'[n].id
      BY <2>1, <3>1, <3>2 DEF IInv, Once
    <3> QED BY <1>1, <3>3, <3>4, <3>5, <3>6, <3>7 DEF IInv, Once
  <2>4. Ordered'
    <3> SUFFICES ASSUME NEW m \in DOMAIN admitted', NEW n \in DOMAIN admitted',
                        NEW l \in DOMAIN promoted, m < n,
                        admitted'[m].delivery = admitted'[n].delivery,
                        promoted[l] = admitted'[n].id
                 PROVE  \E k \in DOMAIN promoted : k < l /\ promoted[k] = admitted'[m].id
      BY <1>1 DEF Ordered
    <3>1. n # new
      BY <2>1
    <3>2. m # new
      BY <2>1, <3>1
    <3> QED BY <2>1, <3>1, <3>2 DEF IInv, Ordered
  <2>5. Batch'
    BY <1>1, <2>1 DEF IInv, TypeOK, Once, Batch
  <2>6. Prompting'
    <3> SUFFICES ASSUME NEW d \in Clients, pc'[d] # "idle", d # c
                 PROVE  /\ pc[d] \in {"conflicted", "refused"} =>
                             \E n \in DOMAIN admitted' : admitted'[n].id = call[d].id
                        /\ call[d].kind = "user" /\ pc[d] \in {"checking", "inserting", "conflicted"} => inbox' = d
                        /\ call[d].kind = "user" /\ pc[d] \in {"inserting", "conflicted", "refused"} =>
                             ~\E n \in DOMAIN admitted' :
                                admitted'[n].id = call[d].id /\ admitted'[n].kind = "user"
      BY <1>1, <2>1 DEF IInv, TypeOK, Prompting
    <3>1. pc'[d] = pc[d] /\ pc[d] # "idle"
      BY <2>1 DEF IInv, TypeOK
    <3>2. call[d].kind = "user" /\ pc[d] \in {"checking", "inserting", "conflicted"} => inbox' = d
      BY <2>1, <3>1 DEF IInv, Prompting
    <3>3. ASSUME call[d].kind = "user", pc[d] \in {"inserting", "conflicted", "refused"}, NEW n \in DOMAIN admitted',
                 admitted'[n].id = call[d].id, admitted'[n].kind = "user"
          PROVE  FALSE
      <4>1. CASE n \in DOMAIN admitted
        BY <2>1, <3>1, <3>3, <4>1 DEF IInv, Prompting
      <4>2. CASE n = new
        <5>1. call[c].kind = "user" /\ call[c].id = call[d].id
          BY <2>1, <3>3, <4>2
        <5>2. inbox = c
          BY <1>1, <5>1 DEF IInv, Prompting
        <5>3. pc[d] \in {"inserting", "conflicted"} => inbox = d
          BY <3>1, <3>3 DEF IInv, Prompting
        <5>4. pc[d] # "refused"
          BY <2>1, <3>1, <5>1 DEF IInv, Prompting
        <5> QED BY <3>3, <5>2, <5>3, <5>4
      <4> QED BY <2>1, <3>3, <4>1, <4>2
    <3>4. pc[d] \in {"conflicted", "refused"} =>
            \E n \in DOMAIN admitted' : admitted'[n].id = call[d].id
      BY <2>1, <3>1 DEF IInv, Prompting
    <3> QED BY <3>2, <3>3, <3>4
  <2>7. Asked'
    BY <1>1, <2>1 DEF IInv, TypeOK, Asked
  <2>8. Snapshot'
    BY <1>1, <2>1 DEF IInv, TypeOK, Snapshot
  <2>9. Attended'
    BY <1>1, <2>1 DEF IInv, TypeOK, Attended
  <2> QED BY <2>2, <2>3, <2>4, <2>5, <2>6, <2>7, <2>8, <2>9 DEF IInv
<1>3. CASE KindsOf(call[c].id) # {}
  <2>1. /\ pc' = [pc EXCEPT ![c] = "conflicted"]
        /\ UNCHANGED <<admitted, pending, inbox>>
        /\ \E n \in DOMAIN admitted : admitted[n].id = call[c].id
    BY <1>3, Conflicted
  <2>2. TypeOK'
    BY <1>1, <2>1 DEF IInv, TypeOK
  <2>3. Once'
    BY <1>1, <2>1 DEF IInv, TypeOK, Once
  <2>4. Ordered'
    BY <1>1, <2>1 DEF IInv, TypeOK, Ordered
  <2>5. Batch'
    BY <1>1, <2>1 DEF IInv, TypeOK, Batch
  <2>6. Prompting'
    BY <1>1, <2>1 DEF IInv, TypeOK, Prompting
  <2>7. Asked'
    BY <1>1, <2>1 DEF IInv, TypeOK, Asked
  <2>8. Snapshot'
    BY <1>1, <2>1 DEF IInv, TypeOK, Snapshot
  <2>9. Attended'
    BY <1>1, <2>1 DEF IInv, TypeOK, Attended, Rows
  <2> QED BY <2>2, <2>3, <2>4, <2>5, <2>6, <2>7, <2>8, <2>9 DEF IInv
<1> QED BY <1>2, <1>3

\* The conflict of an insert: the call wakes, or is refused, whatever the row has become.
LEMMA RecheckKeeps ==
  ASSUME IInv, NEW c \in Clients, Recheck(c)
  PROVE  IInv'
<1>1. TypeOK'
  BY DEF IInv, TypeOK, Once, Recheck
<1>2. Prompting'
  BY DEF IInv, TypeOK, Prompting, Recheck
<1>3. Attended'
  BY DEF IInv, TypeOK, Attended, Recheck, Rows
<1>4. Once' /\ Ordered' /\ Batch' /\ Asked' /\ Snapshot'
  BY DEF IInv, Once, Ordered, Batch, Asked, Snapshot, Recheck
<1> QED BY <1>1, <1>2, <1>3, <1>4 DEF IInv

\* A wake starts a drain or rings its bell, but for a prompt while the user's shell runs.
LEMMA WakeKeeps ==
  ASSUME IInv, NEW c \in Clients, Wake(c)
  PROVE  IInv'
<1>1. TypeOK'
  <2>1. CASE call[c].kind = "user" /\ shell
    BY <2>1 DEF IInv, TypeOK, Wake
  <2>2. CASE ~(call[c].kind = "user" /\ shell) /\ at = "idle"
    BY <2>2 DEF IInv, TypeOK, Wake, Ring
  <2>3. CASE ~(call[c].kind = "user" /\ shell) /\ at # "idle"
    BY <2>3 DEF IInv, TypeOK, Wake, Ring
  <2> QED BY <2>1, <2>2, <2>3
<1>2. Batch'
  BY DEF IInv, Batch, Wake, Ring
<1>3. Prompting'
  BY DEF IInv, TypeOK, Prompting, Wake
<1>4. Asked'
  BY DEF IInv, Asked, Wake, Ring
<1>5. Attended'
  BY DEF IInv, Attended, Wake, Ring, Rows
<1>6. Once' /\ Ordered' /\ Snapshot'
  BY DEF IInv, Once, Ordered, Snapshot, Wake, Ring
<1> QED BY <1>1, <1>2, <1>3, <1>4, <1>5, <1>6 DEF IInv

\* A refused call returns.
LEMMA RefuseKeeps ==
  ASSUME IInv, NEW c \in Clients, Refuse(c)
  PROVE  IInv'
<1>1. TypeOK'
  BY DEF IInv, TypeOK, Refuse
<1>2. Prompting'
  BY DEF IInv, TypeOK, Prompting, Refuse
<1>3. Attended'
  BY DEF IInv, Attended, Refuse, Rows
<1>4. Once' /\ Ordered' /\ Batch' /\ Asked' /\ Snapshot'
  BY DEF IInv, Once, Ordered, Batch, Asked, Snapshot, Refuse
<1> QED BY <1>1, <1>2, <1>3, <1>4 DEF IInv

-----------------------------------------------------------------------------
(* A drain keeps it.                                                        *)

\* A drain begins, and remembers what is pending.
LEMMA BeginKeeps ==
  ASSUME IInv, Begin
  PROVE  IInv'
<1>1. TypeOK'
  <2>1. Len(promoted) \in Nat
    BY DEF IInv, TypeOK
  <2> QED BY <2>1 DEF IInv, TypeOK, Begin
<1>2. Batch'
  BY DEF IInv, Batch, Begin
<1>3. Asked'
  BY DEF IInv, Asked, Begin
<1>4. Snapshot'
  BY DEF IInv, Snapshot, Begin
<1>5. Attended'
  BY DEF IInv, Attended, Begin
<1>6. Once' /\ Ordered' /\ Prompting'
  BY DEF IInv, Once, Ordered, Prompting, Begin
<1> QED BY <1>1, <1>2, <1>3, <1>4, <1>5, <1>6 DEF IInv

\* A drain looks for steers: where it finds none, those that come are later than asked,
\* and what is pending is queued.
LEMMA AskSteersKeeps ==
  ASSUME IInv, AskSteers
  PROVE  IInv'
<1>1. TypeOK'
  BY DEF IInv, TypeOK, AskSteers
<1>2. Batch'
  BY DEF IInv, Batch, AskSteers
<1>3. Asked'
  BY DEF IInv, Asked, AskSteers, has, Rows
<1>4. Attended'
  <2>1. CASE has("steer")
    BY <2>1 DEF IInv, AskSteers, Attended
  <2>2. CASE ~has("steer") /\ ~compacting /\ pending # {}
    <3>1. PICK n \in DOMAIN admitted : admitted[n].id \in pending
      BY <2>2 DEF IInv, Once
    <3>2. admitted[n] \in Records
      BY Element DEF IInv, TypeOK
    <3>3. admitted[n].delivery \in {"steer", "queue"}
      BY <3>2
    <3>4. admitted[n].delivery # "steer"
      BY <2>2, <3>1 DEF has, Rows
    <3>5. Rows("queue") # {}
      BY <3>1, <3>3, <3>4 DEF Rows
    <3>6. Rows("queue")' = Rows("queue")
      BY DEF AskSteers, Rows
    <3> QED BY <2>2, <3>5, <3>6 DEF AskSteers, Attended
  <2>3. CASE ~has("steer") /\ (compacting \/ pending = {})
    BY <2>3 DEF AskSteers, Attended
  <2> QED BY <2>1, <2>2, <2>3
<1>5. Once' /\ Ordered' /\ Prompting' /\ Snapshot'
  BY DEF IInv, Once, Ordered, Prompting, Snapshot, AskSteers
<1> QED BY <1>1, <1>2, <1>3, <1>4, <1>5 DEF IInv

\* A drain looks for queued inputs: when it finds none, what is pending has come since it
\* looked for steers, and its call has rung or is about to.
LEMMA AskQueueKeeps ==
  ASSUME IInv, AskQueue
  PROVE  IInv'
<1>1. TypeOK'
  BY DEF IInv, TypeOK, AskQueue
<1>2. Batch'
  BY DEF IInv, Batch, AskQueue
<1>3. Asked'
  BY DEF IInv, Asked, AskQueue
<1>4. Attended'
  BY DEF IInv, Attended, AskQueue, has, Rows
<1>5. Once' /\ Ordered' /\ Prompting' /\ Snapshot'
  BY DEF IInv, Once, Ordered, Prompting, Snapshot, AskQueue
<1> QED BY <1>1, <1>2, <1>3, <1>4, <1>5 DEF IInv

\* The rows to promote are read: all steers, or the first queued input, and so with each
\* all earlier ones of its delivery.
LEMMA ReadKeeps ==
  ASSUME IInv, Read
  PROVE  IInv'
<1>1. TypeOK'
  BY DEF IInv, TypeOK, Read, Candidates, Rows, First, AfterPromotion
<1>2. Batch'
  BY DEF IInv, TypeOK, Batch, Read, Candidates, Rows, First, AfterPromotion
<1>3. Asked'
  BY DEF IInv, Asked, Read, Candidates, Rows, First, AfterPromotion
<1>4. Attended'
  BY DEF IInv, Attended, Read, Candidates, Rows, First, AfterPromotion
<1>5. Once' /\ Ordered' /\ Prompting' /\ Snapshot'
  BY DEF IInv, Once, Ordered, Prompting, Snapshot, Read, AfterPromotion
<1> QED BY <1>1, <1>2, <1>3, <1>4, <1>5 DEF IInv

\* The lock is taken for the promotions, for none of them after a compaction.
LEMMA TakeKeeps ==
  ASSUME IInv, Take
  PROVE  IInv'
<1>1. TypeOK'
  BY DEF IInv, TypeOK, Take
<1>2. Batch'
  BY DEF IInv, Batch, Take
<1>3. Prompting'
  BY DEF IInv, Prompting, Take
<1>4. Asked'
  BY DEF IInv, Asked, Take
<1>5. Attended'
  BY DEF IInv, Attended, Take
<1>6. Once' /\ Ordered' /\ Snapshot'
  BY DEF IInv, Once, Ordered, Snapshot, Take
<1> QED BY <1>1, <1>2, <1>3, <1>4, <1>5, <1>6 DEF IInv

\* The first row of the batch becomes a message: the earlier ones of its delivery have
\* been promoted.
LEMMA PromoteKeeps ==
  ASSUME IInv, NEW n \in First(batch), Promote(n)
  PROVE  IInv'
<1>1. TypeOK'
  BY DEF IInv, TypeOK, Promote
<1>2. Once'
  <2>1. PICK id \in Inputs : /\ id = admitted[n].id /\ id \in pending
                              /\ pending' = pending \ {id}
                              /\ promoted' = Append(promoted, id)
                              /\ n \in DOMAIN admitted /\ UNCHANGED admitted
    BY DEF IInv, TypeOK, Promote, First
  <2>2. /\ Len(promoted) \in Nat /\ DOMAIN promoted = 1 .. Len(promoted)
        /\ DOMAIN promoted' = DOMAIN promoted \cup {Len(promoted) + 1}
        /\ \A k \in DOMAIN promoted : promoted'[k] = promoted[k]
        /\ promoted'[Len(promoted) + 1] = id
    BY <2>1, Appended DEF IInv, TypeOK
  <2> QED BY <2>1, <2>2 DEF IInv, Once
<1>3. Ordered'
  <2>1. PICK id \in Inputs : /\ id = admitted[n].id /\ id \in pending
                              /\ promoted' = Append(promoted, id)
                              /\ n \in DOMAIN admitted /\ UNCHANGED admitted
    BY DEF IInv, TypeOK, Promote, First
  <2>2. /\ Len(promoted) \in Nat /\ DOMAIN promoted = 1 .. Len(promoted)
        /\ DOMAIN promoted' = DOMAIN promoted \cup {Len(promoted) + 1}
        /\ \A k \in DOMAIN promoted : promoted'[k] = promoted[k]
        /\ promoted'[Len(promoted) + 1] = id
    BY <2>1, Appended DEF IInv, TypeOK
  <2>3. ASSUME NEW m \in DOMAIN admitted, m < n, admitted[m].delivery = admitted[n].delivery
        PROVE  \E k \in DOMAIN promoted : promoted[k] = admitted[m].id
    <3>1. admitted[m].id \notin pending
      BY <2>3 DEF IInv, TypeOK, Batch, First
    <3> QED BY <3>1 DEF IInv, Once
  <2>4. ASSUME NEW l \in DOMAIN promoted', NEW m \in DOMAIN admitted, NEW j \in DOMAIN admitted,
               m < j, admitted[m].delivery = admitted[j].delivery, promoted'[l] = admitted[j].id
        PROVE  \E k \in DOMAIN promoted' : k < l /\ promoted'[k] = admitted[m].id
    <3>1. CASE l \in DOMAIN promoted
      BY <2>2, <2>4, <3>1 DEF IInv, Ordered
    <3>2. CASE l = Len(promoted) + 1
      <4>1. j = n
        BY <2>1, <2>2, <2>4, <3>2 DEF IInv, Once
      <4> QED BY <2>2, <2>3, <2>4, <3>2, <4>1
    <3> QED BY <2>2, <3>1, <3>2
  <2> QED BY <2>1, <2>4 DEF Ordered
<1>4. Batch'
  BY DEF IInv, TypeOK, Once, Batch, Promote, First
<1>5. Asked'
  BY DEF IInv, Asked, Promote
<1>6. Snapshot'
  BY DEF IInv, TypeOK, Snapshot, Promote
<1>7. Attended'
  BY DEF IInv, Attended, Promote
<1>8. Prompting'
  BY DEF IInv, Prompting, Promote
<1> QED BY <1>1, <1>2, <1>3, <1>4, <1>5, <1>6, <1>7, <1>8 DEF IInv

\* The lock is released.
LEMMA PromotedKeeps ==
  ASSUME IInv, Promoted
  PROVE  IInv'
<1>1. TypeOK'
  BY DEF IInv, TypeOK, Promoted, AfterPromotion
<1>2. Batch'
  BY DEF IInv, Batch, Promoted
<1>3. Prompting'
  BY DEF IInv, TypeOK, Prompting, Promoted
<1>4. Asked'
  BY DEF IInv, Asked, Promoted, AfterPromotion
<1>5. Attended'
  BY DEF IInv, Attended, Promoted, AfterPromotion, Rows
<1>6. Once' /\ Ordered' /\ Snapshot'
  BY DEF IInv, Once, Ordered, Snapshot, Promoted, AfterPromotion
<1> QED BY <1>1, <1>2, <1>3, <1>4, <1>5, <1>6 DEF IInv

\* A Step ends with a look for steers.
LEMMA AskMoreKeeps ==
  ASSUME IInv, AskMore
  PROVE  IInv'
<1>1. TypeOK'
  BY DEF IInv, TypeOK, AskMore
<1>2. Batch'
  BY DEF IInv, Batch, AskMore
<1>3. Asked'
  BY DEF IInv, Asked, AskMore
<1>4. Attended'
  BY DEF IInv, Attended, AskMore
<1>5. Once' /\ Ordered' /\ Prompting' /\ Snapshot'
  BY DEF IInv, Once, Ordered, Prompting, Snapshot, AskMore
<1> QED BY <1>1, <1>2, <1>3, <1>4, <1>5 DEF IInv

\* A drain ends with a bell that is answered, or with no row but those that are excused.
LEMMA EndKeeps ==
  ASSUME IInv, End
  PROVE  IInv'
<1>1. TypeOK'
  <2>1. CASE bell
    BY <2>1 DEF IInv, TypeOK, End
  <2>2. CASE ~bell
    BY <2>2, NoFailureTyped DEF IInv, TypeOK, End
  <2> QED BY <2>1, <2>2
<1>2. Batch'
  BY DEF IInv, Batch, End
<1>3. Asked'
  BY DEF IInv, Asked, End
<1>4. Snapshot'
  BY DEF IInv, TypeOK, Snapshot, End
<1>5. Attended'
  BY DEF IInv, Attended, End
<1>6. Once' /\ Ordered' /\ Prompting'
  BY DEF IInv, Once, Ordered, Prompting, End
<1> QED BY <1>1, <1>2, <1>3, <1>4, <1>5, <1>6 DEF IInv

\* A failed drain rings for what it found, unless it promoted something, or was stopped,
\* or failed too often: each is an excuse.
LEMMA RetryKeeps ==
  ASSUME IInv, Retry
  PROVE  IInv'
<1>1. TypeOK'
  BY NoFailureTyped DEF IInv, TypeOK, Retry
<1>2. Batch'
  BY DEF IInv, Batch, Retry
<1>3. Asked'
  BY DEF IInv, Asked, Retry
<1>4. Snapshot'
  BY DEF IInv, Snapshot, Retry
<1>5. Attended'
  <2>1. stopped \/ snapshot = {} \/ Len(promoted) > begun => excused'
    BY DEF Retry
  <2>2. CASE ~stopped /\ snapshot # {} /\ snapshot \subseteq pending
    <3>1. PICK count \in Nat : /\ bell' = (bell \/ count <= RetryLimit)
                               /\ excused' = (excused \/ stopped \/ snapshot = {}
                                                \/ Len(promoted) > begun \/ count > RetryLimit)
      <4> DEFINE again == IF failed.count > 0 /\ failed.ids = pending THEN failed.count + 1 ELSE 1
      <4>1. failed.count \in Nat
        BY DEF IInv, TypeOK
      <4>2. again \in Nat
        BY <4>1
      <4> QED BY <2>2, <4>2 DEF Retry
    <3>2. at' = "settling"
      BY DEF Retry
    <3>3. CASE count <= RetryLimit
      BY <3>1, <3>2, <3>3 DEF Attended
    <3>4. CASE count > RetryLimit
      BY <3>1, <3>4 DEF Attended
    <3> QED BY <3>3, <3>4
  <2>3. CASE ~(stopped \/ snapshot = {}) /\ ~(snapshot \subseteq pending)
    BY <2>1, <2>3 DEF IInv, Snapshot, Attended
  <2> QED BY <2>1, <2>2, <2>3 DEF Attended
<1>6. Once' /\ Ordered' /\ Prompting'
  BY DEF IInv, Once, Ordered, Prompting, Retry
<1> QED BY <1>1, <1>2, <1>3, <1>4, <1>5, <1>6 DEF IInv

\* An execution ends, or its successor begins.
LEMMA SettleKeeps ==
  ASSUME IInv, Settle
  PROVE  IInv'
<1>1. TypeOK'
  BY DEF IInv, TypeOK, Settle
<1>2. Batch'
  BY DEF IInv, Batch, Settle
<1>3. Asked'
  BY DEF IInv, Asked, Settle
<1>4. Attended'
  BY DEF IInv, Attended, Settle
<1>5. Once' /\ Ordered' /\ Prompting' /\ Snapshot'
  BY DEF IInv, Once, Ordered, Prompting, Snapshot, Settle
<1> QED BY <1>1, <1>2, <1>3, <1>4, <1>5 DEF IInv

\* The model goes on.
LEMMA ContinueKeeps ==
  ASSUME IInv, Continue
  PROVE  IInv'
<1>1. TypeOK'
  BY DEF IInv, TypeOK, Continue
<1>2. Batch'
  BY DEF IInv, Batch, Continue
<1>3. Asked'
  BY DEF IInv, Asked, Continue
<1>4. Attended'
  BY DEF IInv, Attended, Continue
<1>5. Once' /\ Ordered' /\ Prompting' /\ Snapshot'
  BY DEF IInv, Once, Ordered, Prompting, Snapshot, Continue
<1> QED BY <1>1, <1>2, <1>3, <1>4, <1>5 DEF IInv

\* The model has finished.
LEMMA FinishKeeps ==
  ASSUME IInv, Finish
  PROVE  IInv'
<1>1. TypeOK'
  BY DEF IInv, TypeOK, Finish
<1>2. Batch'
  BY DEF IInv, Batch, Finish
<1>3. Asked'
  BY DEF IInv, Asked, Finish
<1>4. Attended'
  BY DEF IInv, Attended, Finish
<1>5. Once' /\ Ordered' /\ Prompting' /\ Snapshot'
  BY DEF IInv, Once, Ordered, Prompting, Snapshot, Finish
<1> QED BY <1>1, <1>2, <1>3, <1>4, <1>5 DEF IInv

\* A drain fails with whatever it holds.
LEMMA FailKeeps ==
  ASSUME IInv, Fail
  PROVE  IInv'
<1>1. TypeOK'
  BY DEF IInv, TypeOK, Fail
<1>2. Batch'
  BY DEF IInv, Batch, Fail
<1>3. Prompting'
  BY DEF IInv, Prompting, Fail
<1>4. Asked'
  BY DEF IInv, Asked, Fail
<1>5. Attended'
  BY DEF IInv, Attended, Fail
<1>6. Once' /\ Ordered' /\ Snapshot'
  BY DEF IInv, Once, Ordered, Snapshot, Fail
<1> QED BY <1>1, <1>2, <1>3, <1>4, <1>5, <1>6 DEF IInv

-----------------------------------------------------------------------------
(* Stops, compactions, commands and crashes keep it.                        *)

\* A stop clears the bell, which is an excuse; or it is remembered for the retry.
LEMMA StopKeeps ==
  ASSUME IInv, Stop
  PROVE  IInv'
<1>1. TypeOK'
  <2>1. CASE Running
    <3>1. failed' = NoFailure /\ batch' = {} /\ at' = "settling" /\ begun' = 0
      BY <2>1 DEF Stop
    <3>2. inbox' \in {None} \cup Clients
      BY <2>1 DEF IInv, TypeOK, Stop
    <3>3. UNCHANGED <<admitted, pending, compacting, promoted, pc, call, shell>>
      BY <2>1 DEF Stop
    <3>4. bell' = FALSE /\ promotion' = "steer" /\ asked' = 0 /\ snapshot' = {} /\ stopped' = FALSE /\ excused' = TRUE
      BY <2>1 DEF Stop
    <3> QED BY <3>1, <3>2, <3>3, <3>4, NoFailureTyped DEF IInv, TypeOK
  <2>2. CASE ~Running
    BY <2>2 DEF IInv, TypeOK, Stop, Running
  <2> QED BY <2>1, <2>2
<1>2. Batch'
  BY DEF IInv, Batch, Stop
<1>3. Prompting'
  BY DEF IInv, Prompting, Stop
<1>4. Asked'
  BY DEF IInv, Asked, Stop
<1>5. Snapshot'
  BY DEF IInv, Snapshot, Stop
<1>6. Attended'
  BY DEF IInv, Attended, Stop, Running, Rows
<1>7. Once' /\ Ordered'
  BY DEF IInv, Once, Ordered, Stop
<1> QED BY <1>1, <1>2, <1>3, <1>4, <1>5, <1>6, <1>7 DEF IInv

\* A compaction comes only while nobody has the lock.
LEMMA AdmitCompactionKeeps ==
  ASSUME IInv, AdmitCompaction
  PROVE  IInv'
<1>1. TypeOK'
  BY DEF IInv, TypeOK, AdmitCompaction
<1>2. Batch'
  BY DEF IInv, TypeOK, Batch, AdmitCompaction
<1>3. Attended'
  BY DEF IInv, Attended, AdmitCompaction
<1>4. Once' /\ Ordered' /\ Prompting' /\ Asked' /\ Snapshot'
  BY DEF IInv, Once, Ordered, Prompting, Asked, Snapshot, AdmitCompaction
<1> QED BY <1>1, <1>2, <1>3, <1>4 DEF IInv

\* The end of a compaction wakes nobody, which is an excuse.
LEMMA SettleCompactionKeeps ==
  ASSUME IInv, SettleCompaction
  PROVE  IInv'
<1>1. TypeOK'
  BY DEF IInv, TypeOK, SettleCompaction
<1>2. Batch'
  BY DEF IInv, Batch, SettleCompaction
<1>3. Attended'
  BY DEF IInv, Attended, SettleCompaction
<1>4. Once' /\ Ordered' /\ Prompting' /\ Asked' /\ Snapshot'
  BY DEF IInv, Once, Ordered, Prompting, Asked, Snapshot, SettleCompaction
<1> QED BY <1>1, <1>2, <1>3, <1>4 DEF IInv

\* A crash takes all that is not in the database, which is an excuse.
LEMMA CrashKeeps ==
  ASSUME IInv, Crash
  PROVE  IInv'
<1>1. TypeOK'
  BY NoFailureTyped DEF IInv, TypeOK, Crash
<1>2. Batch'
  BY DEF IInv, Batch, Crash
<1>3. Prompting'
  BY DEF IInv, Prompting, Crash
<1>4. Asked'
  BY DEF IInv, Asked, Crash
<1>5. Snapshot'
  BY DEF IInv, Snapshot, Crash
<1>6. Attended'
  BY DEF IInv, Attended, Crash
<1>7. Once' /\ Ordered'
  BY DEF IInv, Once, Ordered, Crash
<1> QED BY <1>1, <1>2, <1>3, <1>4, <1>5, <1>6, <1>7 DEF IInv

\* A command of the user begins.
LEMMA ShellBeginsKeeps ==
  ASSUME IInv, ShellBegins
  PROVE  IInv'
<1>1. TypeOK'
  BY DEF IInv, TypeOK, ShellBegins
<1>2. Attended'
  BY DEF IInv, Attended, ShellBegins
<1>3. Once' /\ Ordered' /\ Batch' /\ Prompting' /\ Asked' /\ Snapshot'
  BY DEF IInv, Once, Ordered, Batch, Prompting, Asked, Snapshot, ShellBegins
<1> QED BY <1>1, <1>2, <1>3 DEF IInv

\* It ends, and rings for the prompts that came meanwhile.
LEMMA ShellEndsKeeps ==
  ASSUME IInv, ShellEnds
  PROVE  IInv'
<1>1. TypeOK'
  BY DEF IInv, TypeOK, ShellEnds, Ring
<1>2. Batch'
  BY DEF IInv, Batch, ShellEnds, Ring
<1>3. Asked'
  BY DEF IInv, Asked, ShellEnds, Ring
<1>4. Attended'
  BY DEF IInv, Attended, ShellEnds, Ring, Rows
<1>5. Once' /\ Ordered' /\ Prompting' /\ Snapshot'
  BY DEF IInv, Once, Ordered, Prompting, Snapshot, ShellEnds, Ring
<1> QED BY <1>1, <1>2, <1>3, <1>4, <1>5 DEF IInv

-----------------------------------------------------------------------------
(* The invariant of the specification.                                       *)

\* Nothing has been admitted, and nobody is there.
LEMMA InitIInv == Init => IInv
<1> SUFFICES ASSUME Init
             PROVE  IInv
  OBVIOUS
<1>1. TypeOK
  <2>1. admitted = <<>> /\ admitted \in Seq(Records) /\ promoted \in Seq(Inputs)
    BY DEF Init
  <2>2. pc \in [Clients -> Waits] /\ call \in [Clients -> Records \cup {None}]
    BY DEF Init
  <2>3. batch = {} /\ (inbox = "runner") = (at = "promote")
    BY DEF Init
  <2> QED BY <2>1, <2>2, <2>3, NoFailureTyped DEF Init, TypeOK
<1>2. Once /\ Ordered /\ Batch /\ Prompting /\ Asked /\ Snapshot /\ Attended
  BY DEF Init, Once, Ordered, Batch, Prompting, Asked, Snapshot, Attended
<1> QED BY <1>1, <1>2 DEF IInv

\* Every step keeps the invariant, whoever takes it.
LEMMA NextIInv == IInv /\ [Next]_vars => IInv'
<1> SUFFICES ASSUME IInv, [Next]_vars
             PROVE  IInv'
  OBVIOUS
<1>1. ASSUME NEW c \in Clients, Call(c) \/ Admission(c)
      PROVE  IInv'
    BY <1>1, CallKeeps, LookKeeps, LockKeeps, CheckKeeps, InsertKeeps, RecheckKeeps,
       WakeKeeps, RefuseKeeps DEF Admission
<1>2. CASE Drain
    BY <1>2, BeginKeeps, AskSteersKeeps, AskQueueKeeps, ReadKeeps, TakeKeeps,
       PromotedKeeps, PromoteKeeps, AskMoreKeeps, EndKeeps, RetryKeeps, SettleKeeps DEF
       Drain
<1>3. CASE UNCHANGED vars
  <2>1. TypeOK'
    BY <1>3 DEF IInv, TypeOK
  <2>2. Once' /\ Ordered' /\ Batch' /\ Prompting'
    BY <1>3 DEF IInv, Once, Ordered, Batch, Prompting
  <2>3. Asked' /\ Snapshot' /\ Attended'
    BY <1>3 DEF IInv, Asked, Snapshot, Attended, Rows
  <2> QED BY <2>1, <2>2, <2>3 DEF IInv
<1> QED BY <1>1, <1>2, <1>3, ContinueKeeps, FinishKeeps, FailKeeps, StopKeeps,
           AdmitCompactionKeeps, SettleCompactionKeeps, CrashKeeps, ShellBeginsKeeps,
           ShellEndsKeeps DEF Next

\* The inductive invariant holds in every reachable state, for any number of callers,
\* IDs and retries.
THEOREM Inductive == Spec => []IInv
  BY InitIInv, NextIInv, PTL DEF Spec

\* An ID is admitted once, whoever uses it again and whenever, and its input is a row or
\* a message (projectAdmitted and projectPromoted of pending.ts).
THEOREM AdmittedOnce == Spec => []RowOrMessage
<1>1. ASSUME IInv
      PROVE  RowOrMessage
  <2>1. IsInjective(AdmittedIds)
    BY <1>1 DEF IInv, Once, IsInjective, AdmittedIds
  <2>2. IsInjective(promoted)
    BY <1>1 DEF IInv, Once, IsInjective
  <2>3. pending \cap ToSet(promoted) = {}
    BY <1>1 DEF IInv, Once, ToSet
  <2>4. pending \cup ToSet(promoted) = ToSet(AdmittedIds)
    BY <1>1 DEF IInv, Once, ToSet, AdmittedIds
  <2> QED BY <2>1, <2>2, <2>3, <2>4 DEF RowOrMessage
<1> QED BY <1>1, Inductive, PTL

\* The rows of a delivery become messages in the order of admitted_seq (promoteSteers
\* and promoteNextQueued), although they are read before the lock is taken.
THEOREM InOrder == Spec => []InDeliveryOrder
<1>1. ASSUME IInv
      PROVE  InDeliveryOrder
  <2> SUFFICES ASSUME NEW i \in DOMAIN admitted, NEW j \in DOMAIN admitted, i < j,
                      admitted[i].delivery = admitted[j].delivery,
                      admitted[j].id \in ToSet(promoted)
               PROVE  \E k, l \in DOMAIN promoted :
                        k < l /\ promoted[k] = admitted[i].id /\ promoted[l] = admitted[j].id
    BY DEF InDeliveryOrder
  <2>1. PICK l \in DOMAIN promoted : promoted[l] = admitted[j].id
    BY DEF ToSet
  <2> QED BY <1>1, <2>1 DEF IInv, Ordered
<1> QED BY <1>1, Inductive, PTL

\* Types, and between the reading of a batch and its promotion no row of it goes and no
\* compaction comes (publish).
THEOREM BatchSafe == Spec => []InboxInv
<1>1. IInv => InboxInv
  BY DEF IInv, Batch, InboxInv, BatchStands
<1> QED BY <1>1, Inductive, PTL

\* A prompt is refused for an ID of another kind only, never because its insert lost a
\* race with another prompt (Session.prompt of runtime.ts, under the inbox lock).
THEOREM Accepted == Spec => []PromptsAccepted
<1>1. ASSUME IInv
      PROVE  PromptsAccepted
  <2> SUFFICES ASSUME NEW c \in Clients, pc[c] = "refused", call[c].kind = "user",
                      NEW kind \in KindsOf(call[c].id)
               PROVE  kind = "synthetic"
    BY DEF PromptsAccepted
  <2>1. PICK n \in DOMAIN admitted : admitted[n].id = call[c].id /\ admitted[n].kind = kind
    BY KindsOfIs
  <2>2. kind # "user"
    BY <1>1, <2>1 DEF IInv, Prompting
  <2>3. admitted[n] \in Records
    BY <1>1, Element DEF IInv, TypeOK
  <2> QED BY <2>1, <2>2, <2>3
<1> QED BY <1>1, Inductive, PTL

\* What a caller who uses an ID again may rely on: the two together.
THEOREM Reused == Spec => []ReuseInv
<1>1. RowOrMessage /\ PromptsAccepted => ReuseInv
  BY DEF ReuseInv
<1> QED BY <1>1, AdmittedOnce, Accepted, PTL

\* No admission is lost between a drain's last look and its end: an input that lies in an
\* idle Session has an excuse (drainExecution, retryFailedPending and the coordinator's
\* bell).
THEOREM NobodyStranded == Spec => []NoStranded
<1>1. IInv => NoStranded
  BY DEF IInv, Attended, NoStranded
<1> QED BY <1>1, Inductive, PTL

\* A queued input lets the steers go first that were there when the drain looked.
THEOREM SteersServed == Spec => SteersFirst
<1> DEFINE Served == (promoted' # promoted /\ promotion = "queue")
                       => \A i \in DOMAIN admitted :
                            (admitted[i].delivery = "steer" /\ admitted[i].id \in pending)
                              => i > asked
<1>1. IInv => Served
  BY DEF IInv, Asked
<1>2. IInv /\ [Next]_vars => [Served]_vars
  BY <1>1
<1> QED BY <1>2, Inductive, PTL DEF Spec, SteersFirst

-----------------------------------------------------------------------------
(* The Session uses the coordinator as a doorbell (Doorbell).              *)

LEMMA StageIs ==
  ASSUME TypeOK
  PROVE  /\ Stage = "idle" <=> at = "idle"
         /\ Stage = "begin" <=> at = "begin"
         /\ Stage = "settling" <=> at \in {"failed", "settling"}
         /\ Stage = "draining" <=> at \in {"steers", "queue", "read", "lock", "promote",
                                           "call", "more", "ended"}
BY DEF Stage, TypeOK, Stages

\* The steps of Doorbell, by what they do to the one key there is.
LEMMA BellSteps ==
  ASSUME bell \in BOOLEAN, bell' \in BOOLEAN
  PROVE  /\ (Stage' = Stage /\ bell' = bell) => UNCHANGED Bell!vars
         /\ (Stage = "begin" /\ Stage' = "draining" /\ bell' = bell) => Bell!Next
         /\ (Stage = "draining" /\ Stage' = "begin" /\ bell /\ ~bell') => Bell!Next
         /\ (Stage \in {"begin", "draining"} /\ Stage' = "settling" /\ bell' = bell) => Bell!Next
         /\ (Stage \in {"begin", "draining"} /\ Stage' = "settling" /\ ~bell') => Bell!Next
         /\ (Stage = "settling" /\ Stage' = (IF bell THEN "begin" ELSE "idle") /\ ~bell')
              => Bell!Next
         /\ (Stage = "idle" /\ Stage' = "begin" /\ bell' = bell) => Bell!Next
         /\ (Stage # "idle" /\ Stage' = Stage /\ bell') => Bell!Next
<1> DEFINE k == "session"
           S == {"session"}
<1>0. k \in S
  OBVIOUS
<1>1. (Stage' = Stage /\ bell' = bell) => UNCHANGED Bell!vars
  BY DEF Bell!vars
<1>2. (Stage = "begin" /\ Stage' = "draining" /\ bell' = bell) => Bell!Drain(k)
  BY DEF Bell!Drain, Bell!Goto
<1>3. (Stage = "draining" /\ Stage' = "begin" /\ bell /\ ~bell') => Bell!Again(k)
  BY DEF Bell!Again, Bell!Goto
<1>4. (Stage \in {"begin", "draining"} /\ Stage' = "settling" /\ bell' = bell) => Bell!End(k)
  BY DEF Bell!End, Bell!Goto
<1>5. (Stage \in {"begin", "draining"} /\ Stage' = "settling" /\ ~bell') => Bell!Stop(k)
  BY DEF Bell!Stop, Bell!Goto
<1>6. (Stage = "settling" /\ Stage' = (IF bell THEN "begin" ELSE "idle") /\ ~bell')
        => Bell!Settle(k)
  BY DEF Bell!Settle, Bell!Goto
<1>7. (Stage = "idle" /\ Stage' = "begin" /\ bell' = bell) => Bell!Wake(k)
  BY DEF Bell!Wake, Bell!Ring, Bell!Goto
<1>8. (Stage # "idle" /\ Stage' = Stage /\ bell') => Bell!Wake(k)
  BY DEF Bell!Wake, Bell!Ring, Bell!Goto
<1> QED BY <1>1, <1>2, <1>3, <1>4, <1>5, <1>6, <1>7, <1>8 DEF Bell!Next

LEMMA RingUses ==
  ASSUME TypeOK, TypeOK', Ring
  PROVE  Bell!Next
<1>1. CASE at = "idle"
  <2>1. Stage = "idle" /\ Stage' = "begin" /\ bell' = bell
    BY <1>1, StageIs DEF Ring, Stage
  <2> QED BY <2>1, BellSteps DEF TypeOK
<1>2. CASE at # "idle"
  <2>1. Stage # "idle" /\ Stage' = Stage /\ bell' = TRUE
    BY <1>2, StageIs DEF Ring, Stage
  <2> QED BY <2>1, BellSteps DEF TypeOK
<1> QED BY <1>1, <1>2

LEMMA NextUses ==
  ASSUME TypeOK, TypeOK', [Next]_vars
  PROVE  Bell!Next \/ Crash \/ UNCHANGED Bell!vars
<1> DEFINE Goal == Bell!Next \/ Crash \/ UNCHANGED Bell!vars
           Draining == {"steers", "queue", "read", "lock", "promote", "call", "more", "ended"}
<1>0. bell \in BOOLEAN /\ bell' \in BOOLEAN
  BY DEF TypeOK
<1>s. (at \in Draining => Stage = "draining") /\ (at' \in Draining => Stage' = "draining")
  BY DEF Stage
<1>u. UNCHANGED <<at, bell>> => Goal
  <2> SUFFICES ASSUME UNCHANGED <<at, bell>> PROVE Goal
    OBVIOUS
  <2>1. Stage' = Stage
    BY DEF Stage
  <2> QED BY <1>0, <2>1, BellSteps
<1>d. (at \in Draining /\ at' \in Draining /\ bell' = bell) => Goal
  BY <1>0, <1>s, BellSteps
<1>1. ASSUME NEW c \in Clients, Call(c) \/ Admission(c) PROVE Goal
  <2>1. CASE UNCHANGED <<at, bell>>
    BY <1>u, <2>1
  <2>2. CASE ~UNCHANGED <<at, bell>>
    <3>1. Ring
      BY <1>1, <2>2 DEF Call, Admission, Look, Lock, Check, Insert, Recheck, Wake, Refuse
    <3> QED BY <3>1, RingUses
  <2> QED BY <2>1, <2>2
<1>2. CASE Begin
  <2>1. Stage = "begin" /\ Stage' = "draining" /\ bell' = bell
    BY <1>2 DEF Begin, Stage
  <2> QED BY <1>0, <2>1, BellSteps
<1>3. CASE AskSteers \/ AskQueue \/ Read \/ Take \/ Promoted \/ AskMore \/ Continue \/ Finish
  <2>1. at \in Draining /\ at' \in Draining /\ bell' = bell
    BY <1>3 DEF AskSteers, AskQueue, Read, Take, Promoted, AskMore, Continue, Finish, AfterPromotion
  <2> QED BY <1>d, <2>1
<1>4. ASSUME NEW n \in First(batch), Promote(n) PROVE Goal
  BY <1>4, <1>u DEF Promote
<1>5. CASE End
  <2>1. Stage = "draining"
    BY <1>5 DEF End, Stage
  <2>2. \/ Stage' = "begin" /\ bell /\ bell' = FALSE
        \/ Stage' = "settling" /\ bell' = bell
    BY <1>5 DEF End, Stage
  <2> QED BY <1>0, <2>1, <2>2, BellSteps
<1>6. CASE Retry
  <2>1. Stage = "settling" /\ Stage' = "settling"
    BY <1>6 DEF Retry, Stage
  <2>2. bell' = bell \/ bell' = TRUE
    BY <1>0, <1>6 DEF Retry
  <2> QED BY <1>0, <2>1, <2>2, BellSteps
<1>7. CASE Settle
  <2>1. Stage = "settling" /\ Stage' = (IF bell THEN "begin" ELSE "idle") /\ bell' = FALSE
    BY <1>7 DEF Settle, Stage
  <2> QED BY <1>0, <2>1, BellSteps
<1>8. CASE Fail
  <2>1. Stage \in {"begin", "draining"} /\ Stage' = "settling" /\ bell' = bell
    BY <1>8 DEF Fail, Stage
  <2> QED BY <1>0, <2>1, BellSteps
<1>9. CASE Stop
  <2>1. CASE Running /\ at' = "settling" /\ bell' = FALSE
    <3>1. Stage \in {"begin", "draining"} /\ Stage' = "settling"
      BY <2>1 DEF Running, Stage, TypeOK, Stages
    <3> QED BY <1>0, <2>1, <3>1, BellSteps
  <2>2. CASE UNCHANGED <<at, bell>>
    BY <1>u, <2>2
  <2> QED BY <1>9, <2>1, <2>2 DEF Stop
<1>10. CASE AdmitCompaction \/ SettleCompaction \/ ShellBegins
  BY <1>10, <1>u DEF AdmitCompaction, SettleCompaction, ShellBegins
<1>11. CASE ShellEnds
  BY <1>11, RingUses DEF ShellEnds
<1>12. CASE UNCHANGED vars
  BY <1>12, <1>u DEF vars
<1> QED BY <1>1, <1>2, <1>3, <1>4, <1>5, <1>6, <1>7, <1>8, <1>9, <1>10, <1>11, <1>12
        DEF Next, Drain

\* Admissions, drains, retries and stops go by the coordinator's promise, for any number
\* of callers, inputs and failures: it is what the coordinator is proved to keep.
THEOREM Promised == Spec => UsesDoorbell
<1>1. Init => Bell!Init
  BY DEF Init, Bell!Init, Stage
<1>2. IInv /\ IInv' /\ [Next]_vars => [Bell!Next \/ Crash]_(Bell!vars)
  BY NextUses DEF IInv
<1> QED BY <1>1, <1>2, Inductive, PTL DEF Spec, UsesDoorbell
=============================================================================
