----------------------------- MODULE EventLog -----------------------------
(***************************************************************************)
(* packages/core/src/event.ts: the durable event log of one aggregate (a   *)
(* Session) and the streams that follow it.                                *)
(*                                                                         *)
(* Events get consecutive numbers inside a database transaction, after     *)
(* which the committer rings the wake of every follower -- a sliding       *)
(* channel of capacity one, so wakes coalesce.  A follower subscribes,     *)
(* notes the latest number, reads the stored events up to it in pages,     *)
(* emits a marker, and from then on reads up to the latest number at every *)
(* wake.  What the committer tells live observers is module EventFeed.     *)
(*                                                                         *)
(* One connection guarded by a semaphore serves every query, so a query or *)
(* a transaction is one step.  A transaction that fails leaves nothing     *)
(* behind and is no step.  A log read without `follow` is a follower that  *)
(* disconnects after its marker.                                           *)
(***************************************************************************)
EXTENDS Integers, FiniteSets, SequencesExt

CONSTANTS Followers,   \* clients that follow the log
          ParentSeq,   \* the number a fork inherits its history up to
          PageSize,    \* logReadPageSize
          Committers,  \* bound: publishers at work at the same time
          MaxBatch,    \* bound: events of one batch
          MaxSeq       \* bound: the last number given

ASSUME ParentAssumption == ParentSeq \in Nat
ASSUME PageAssumption == PageSize \in Nat \ {0}
ASSUME BoundAssumption == /\ MaxBatch \in Nat \ {0} /\ MaxSeq \in Nat
                          /\ Committers \in Nat \ {0}

VARIABLES latest,    \* seq of the event_sequence row, -1 when there is none
          rows,      \* the numbers of the stored events
          hidden,    \* those of types this reader does not get to see
          removed,   \* history: the aggregate has been removed
          unrung,    \* committers that have not rung the wakes yet
          at,        \* at[f]: where the stream of a follower is
          wake,      \* wake[f]: its wake has been rung
          sequence,  \* sequence[f]: `sequence` of log, the last number read
          through,   \* through[f]: the number it reads up to
          buffer,    \* buffer[f]: events read and not delivered
          seen,      \* seen[f]: the cursor the client keeps
          start,     \* start[f]: the cursor the client began with
          out        \* out[f]: the events the client has been given since

log == <<latest, rows, hidden, removed>>
streams == <<at, wake, sequence, through, buffer>>
clients == <<seen, start, out>>
vars == <<log, unrung, streams, clients>>

Numbers == 0..MaxSeq
Cursors == Numbers \cup {-1}

\* A stream: not open; subscribed; reading the history; about to emit the marker;
\* waiting for a wake; woken; reading the events behind a wake.
Places == {"off", "subscribed", "replaying", "marking", "live", "woken", "tailing"}

TypeOK == /\ latest \in Cursors
          /\ rows \subseteq Numbers
          /\ hidden \subseteq rows
          /\ removed \in BOOLEAN
          /\ unrung \in 0..Committers
          /\ at \in [Followers -> Places]
          /\ wake \in [Followers -> BOOLEAN]
          /\ sequence \in [Followers -> Cursors]
          /\ through \in [Followers -> Cursors]
          /\ buffer \in [Followers -> SUBSET Numbers]
          /\ seen \in [Followers -> Cursors]
          /\ start \in [Followers -> Cursors]
          /\ out \in [Followers -> Seq(Numbers)]

Init == /\ latest = -1 /\ rows = {} /\ hidden = {} /\ removed = FALSE
        /\ unrung = 0
        /\ at = [f \in Followers |-> "off"]
        /\ wake = [f \in Followers |-> FALSE]
        /\ sequence = [f \in Followers |-> -1]
        /\ through = [f \in Followers |-> -1]
        /\ buffer = [f \in Followers |-> {}]
        /\ seen = [f \in Followers |-> -1]
        /\ start = [f \in Followers |-> -1]
        /\ out = [f \in Followers |-> <<>>]

-----------------------------------------------------------------------------
(* Publishing.                                                             *)

\* n events are stored, those of h of a hidden type.
Store(n, h) == LET new == latest + 1 .. latest + n IN
                 /\ latest' = latest + n
                 /\ rows' = rows \cup new
                 /\ hidden' = hidden \cup h

\* The transaction of publish (one event) and of publishBatch.
Publish == \E n \in 1..MaxBatch : \E h \in SUBSET (latest + 1 .. latest + n) :
             /\ latest + n <= MaxSeq /\ unrung < Committers
             /\ Store(n, h)
             /\ unrung' = unrung + 1
             /\ UNCHANGED <<removed, streams, clients>>

\* The batch that creates a fork: its first event is number 0 and, in the same
\* transaction, the projector reserves the numbers of the inherited history.
Fork == /\ latest = -1 /\ ~removed /\ ParentSeq <= MaxSeq /\ unrung < Committers
        /\ latest' = ParentSeq /\ rows' = {0}
        /\ unrung' = unrung + 1
        /\ UNCHANGED <<hidden, removed, streams, clients>>

\* After its transaction, uninterruptibly, a committer publishes to every wake.
Ring == /\ unrung > 0
        /\ unrung' = unrung - 1
        /\ wake' = [f \in Followers |-> at[f] # "off"]
        /\ UNCHANGED <<log, at, sequence, through, buffer, clients>>

\* remove: the sequence row and the events, without a wake.
RemoveAll == /\ ~removed
             /\ removed' = TRUE
             /\ latest' = -1 /\ rows' = {} /\ hidden' = {}
             /\ UNCHANGED <<unrung, streams, clients>>

-----------------------------------------------------------------------------
(* Following.                                                              *)

Close(f) == /\ at' = [at EXCEPT ![f] = "off"]
            /\ wake' = [wake EXCEPT ![f] = FALSE]
            /\ buffer' = [buffer EXCEPT ![f] = {}]

\* A client begins at the watermark of a snapshot it took.
Watermark(f) == /\ at[f] = "off"
                /\ seen' = [seen EXCEPT ![f] = latest]
                /\ start' = [start EXCEPT ![f] = latest]
                /\ out' = [out EXCEPT ![f] = <<>>]
                /\ UNCHANGED <<log, unrung, streams>>

\* Mutant of Connect: a reconnecting client is served from where it once began.
ConnectAgain(f) == /\ at[f] = "off" /\ ~removed
                   /\ at' = [at EXCEPT ![f] = "subscribed"]
                   /\ wake' = [wake EXCEPT ![f] = FALSE]
                   /\ sequence' = [sequence EXCEPT ![f] = start[f]]
                   /\ UNCHANGED <<log, unrung, through, buffer, clients>>

\* log: a known Session, its wake registered before anything is read.
Connect(f) == /\ at[f] = "off" /\ ~removed
              /\ at' = [at EXCEPT ![f] = "subscribed"]
              /\ wake' = [wake EXCEPT ![f] = FALSE]
              /\ sequence' = [sequence EXCEPT ![f] = seen[f]]
              /\ UNCHANGED <<log, unrung, through, buffer, clients>>

\* latestSequence: what the history is read up to.
Target(f) == /\ at[f] = "subscribed"
             /\ at' = [at EXCEPT ![f] = "replaying"]
             /\ through' = [through EXCEPT ![f] = latest]
             /\ UNCHANGED <<log, unrung, wake, sequence, buffer, clients>>

Unread(f) == {s \in rows : sequence[f] < s /\ s <= through[f]}

\* readAfter: the first PageSize stored events behind the cursor.
Page(f) == {s \in Unread(f) : Cardinality({t \in Unread(f) : t <= s}) <= PageSize}

Highest(S) == CHOOSE s \in S : \A t \in S : t <= s

\* Mutant of ReadPage: the cursor is the last event decoded, not the last read.
ReadPageDecoded(f) ==
  LET page == Page(f) \ hidden
      next == IF at[f] = "replaying" THEN "marking" ELSE "live"
  IN /\ at[f] \in {"replaying", "tailing"} /\ buffer[f] = {}
     /\ buffer' = [buffer EXCEPT ![f] = page]
     /\ \/ /\ page = {}
           /\ at' = [at EXCEPT ![f] = next]
           /\ UNCHANGED sequence
        \/ /\ page # {}
           /\ sequence' = [sequence EXCEPT ![f] = Highest(page)]
           /\ at' = [at EXCEPT ![f] = IF Highest(page) < through[f] THEN @ ELSE next]
     /\ UNCHANGED <<log, unrung, wake, through, clients>>

\* Mutant of ReadPage: one page and no more.
ReadPageOnce(f) ==
  LET page == Page(f)
      next == IF at[f] = "replaying" THEN "marking" ELSE "live"
  IN /\ at[f] \in {"replaying", "tailing"} /\ buffer[f] = {}
     /\ buffer' = [buffer EXCEPT ![f] = page \ hidden]
     /\ sequence' = [sequence EXCEPT ![f] = IF page = {} THEN @ ELSE Highest(page)]
     /\ at' = [at EXCEPT ![f] = next]
     /\ UNCHANGED <<log, unrung, wake, through, clients>>

\* The next page of readThrough; the last one ends it.
ReadPage(f) ==
  LET page == Page(f)
      next == IF at[f] = "replaying" THEN "marking" ELSE "live"
  IN /\ at[f] \in {"replaying", "tailing"} /\ buffer[f] = {}
     /\ buffer' = [buffer EXCEPT ![f] = page \ hidden]
     /\ \/ /\ page = {}
           /\ at' = [at EXCEPT ![f] = next]
           /\ UNCHANGED sequence
        \/ /\ page # {}
           /\ sequence' = [sequence EXCEPT ![f] = Highest(page)]
           /\ at' = [at EXCEPT ![f] = IF Highest(page) < through[f] THEN @ ELSE next]
     /\ UNCHANGED <<log, unrung, wake, through, clients>>

\* An event reaches the client, which moves its cursor.
Deliver(f) == \E s \in buffer[f] :
                /\ \A t \in buffer[f] : s <= t
                /\ buffer' = [buffer EXCEPT ![f] = @ \ {s}]
                /\ out' = [out EXCEPT ![f] = Append(@, s)]
                /\ seen' = [seen EXCEPT ![f] = s]
                /\ UNCHANGED <<log, unrung, at, wake, sequence, through, start>>

\* The marker reaches the client, which takes its number for a cursor.
Mark(f) == /\ at[f] = "marking" /\ buffer[f] = {}
           /\ at' = [at EXCEPT ![f] = "live"]
           /\ seen' = [seen EXCEPT ![f] = IF through[f] > @ THEN through[f] ELSE @]
           /\ UNCHANGED <<log, unrung, wake, sequence, through, buffer, start, out>>

\* The stream takes a wake.
Wake(f) == /\ at[f] = "live" /\ buffer[f] = {} /\ wake[f]
           /\ at' = [at EXCEPT ![f] = "woken"]
           /\ wake' = [wake EXCEPT ![f] = FALSE]
           /\ UNCHANGED <<log, unrung, sequence, through, buffer, clients>>

\* ... and reads the latest number; nothing to do when it has been read already.
Latest(f) == /\ at[f] = "woken"
             /\ \/ /\ latest > sequence[f]
                   /\ at' = [at EXCEPT ![f] = "tailing"]
                   /\ through' = [through EXCEPT ![f] = latest]
                \/ /\ latest <= sequence[f]
                   /\ at' = [at EXCEPT ![f] = "live"]
                   /\ UNCHANGED through
             /\ UNCHANGED <<log, unrung, wake, sequence, buffer, clients>>

\* The connection is lost, with everything read and not delivered.
Disconnect(f) == /\ at[f] # "off"
                 /\ Close(f)
                 /\ UNCHANGED <<log, unrung, sequence, through, clients>>

\* The process dies: only the database and the clients remember anything.
Crash == /\ unrung' = 0
         /\ at' = [f \in Followers |-> "off"]
         /\ wake' = [f \in Followers |-> FALSE]
         /\ buffer' = [f \in Followers |-> {}]
         /\ UNCHANGED <<log, sequence, through, clients>>

Follow(f) == Target(f) \/ ReadPage(f) \/ Deliver(f) \/ Mark(f) \/ Wake(f) \/ Latest(f)

Next == \/ Publish \/ Fork \/ Ring \/ RemoveAll \/ Crash
        \/ \E f \in Followers : Watermark(f) \/ Connect(f) \/ Follow(f) \/ Disconnect(f)

Spec == Init /\ [][Next]_vars

\* Committers ring, streams are pulled by clients that read; nothing else is owed.
FairSpec == Spec /\ WF_vars(Ring) /\ \A f \in Followers : WF_vars(Follow(f))

-----------------------------------------------------------------------------
\* The events a follower may see.
Readable == rows \ hidden

\* What a client has been given is exactly what its cursor says: every readable
\* event after the cursor it began with and up to the one it keeps, through
\* pages, markers, coalesced wakes, lost connections and restarts (log, :712-759:
\* "Durable, ordered per-aggregate log read").
NothingMissed ==
  removed \/ \A f \in Followers :
               ToSet(out[f]) = {s \in Readable : start[f] < s /\ s <= seen[f]}

\* Events come in the order of their numbers, and none comes twice, although the
\* rest of a page is lost with every connection (log, :719-728).
InOrder == \A f \in Followers : \A i, j \in DOMAIN out[f] : i < j => out[f][i] < out[f][j]

\* The numbers after an inherited history are given once each, without a gap, and
\* none of the inherited numbers but the first is ever given (commitDurableEvent).
Contiguous ==
  removed \/ rows = 0 .. latest
          \/ /\ ParentSeq <= latest
             /\ rows = {0} \cup (ParentSeq + 1 .. latest)

\* A wake is never lost: a follower that waits although events are stored beyond
\* its cursor has been or is about to be woken (subscribing before reading,
\* :737-739, and a channel that keeps one wake however often it is rung).
WakeKept ==
  removed \/ unrung > 0 \/ \A f \in Followers :
               at[f] = "live" /\ ~wake[f] => \A s \in rows : s <= sequence[f]

\* A connected follower is given every event, unless the Session is removed.
Followed ==
  \A f \in Followers, s \in Numbers :
    s \in Readable /\ s > seen[f] ~> s <= seen[f] \/ at[f] = "off" \/ removed

=============================================================================
