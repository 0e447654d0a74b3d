----------------------------- MODULE EventFeed -----------------------------
(***************************************************************************)
(* The live path of an event: what publish and publishBatch of             *)
(* packages/core/src/event.ts owe after their transaction (notify), and    *)
(* packages/server/src/event-feed.ts, the listener that encodes a public   *)
(* event once and offers the frame to one bounded queue per connection.    *)
(*                                                                         *)
(* Publishers are fibers.  notify calls the listeners one after another,   *)
(* and any of them may take its time, so publishers overtake each other    *)
(* between their commits and the feed.  publish may be interrupted once    *)
(* its event is stored, publishBatch may not.  Reading a connection is the *)
(* stream library's: a pull takes everything queued, and a queue that has  *)
(* failed surfaces the failure after the frames accepted before it.  So    *)
(* where in a queue its heartbeats are makes no difference: they are       *)
(* counted.                                                                *)
(***************************************************************************)
EXTENDS Integers, FiniteSets, SequencesExt

CONSTANTS Publishers,   \* fibers that publish
          Connections,  \* HTTP connections, each used again after it has closed
          Capacity,     \* SubscriberCapacity
          MaxEvents,    \* bound: events ever published
          BatchLimit    \* bound: events of one batch

ASSUME CapacityAssumption == Capacity \in Nat \ {0}
ASSUME FeedBoundAssumption == MaxEvents \in Nat /\ BatchLimit \in Nat \ {0}

VARIABLES kinds,    \* kinds[e]: what the feed makes of event e
          todo,     \* todo[p]: committed events publisher p has not been through with
          batch,    \* batch[p]: p is in publishBatch
          stage,    \* stage[p]: where notify is with the first of them
          offered,  \* history: the frames offered, in order
          lost,     \* history: events whose publisher was interrupted
          conn,     \* conn[c]: the state of a connection
          queue,    \* queue[c]: the events in its queue
          beats,    \* beats[c]: the heartbeats among them
          got,      \* got[c]: events it has been sent
          since,    \* since[c]: how many frames had been offered when it was registered
          from      \* from[c]: how many events had been stored then

publishing == <<kinds, todo, batch, stage>>
history == <<offered, lost>>
serving == <<conn, queue, beats, got, since, from>>
feedVars == <<publishing, history, serving>>

Events == 1 .. MaxEvents
Kinds == {"public", "internal", "malformed"}
Heartbeat == 0

\* open; failed by an overflow; failed by an encoding error; closed.
Conditions == {"open", "overflowed", "broken", "closed"}

FeedTypeOK == /\ kinds \in Seq(Kinds) /\ Len(kinds) <= MaxEvents
              /\ todo \in [Publishers -> Seq(Events)]
              /\ batch \in [Publishers -> BOOLEAN]
              /\ stage \in [Publishers -> {"idle", "owed", "encoding", "failing"}]
              /\ offered \in Seq(Events) /\ Len(offered) <= MaxEvents
              /\ lost \subseteq Events
              /\ conn \in [Connections -> Conditions]
              /\ queue \in [Connections -> Seq(Events)]
              /\ beats \in [Connections -> Nat]
              /\ \A c \in Connections : Len(queue[c]) + beats[c] <= Capacity
              /\ got \in [Connections -> Seq(Events)]
              /\ since \in [Connections -> 0 .. MaxEvents]
              /\ from \in [Connections -> 0 .. MaxEvents]

FeedInit == /\ kinds = <<>>
            /\ todo = [p \in Publishers |-> <<>>]
            /\ batch = [p \in Publishers |-> FALSE]
            /\ stage = [p \in Publishers |-> "idle"]
            /\ offered = <<>> /\ lost = {}
            /\ conn = [c \in Connections |-> "closed"]
            /\ queue = [c \in Connections |-> <<>>]
            /\ beats = [c \in Connections |-> 0]
            /\ got = [c \in Connections |-> <<>>]
            /\ since = [c \in Connections |-> 0]
            /\ from = [c \in Connections |-> 0]

\* The registered queues: `subscribers` of the feed.
subscribers == {c \in Connections : conn[c] = "open"}

\* An offer to a queue this long is refused.
Full(c) == Len(queue[c]) + beats[c] >= Capacity

\* One frame more in the queues of these connections.
Put(frame, cs) ==
  IF frame = Heartbeat
  THEN /\ beats' = [c \in Connections |-> IF c \in cs THEN beats[c] + 1 ELSE beats[c]]
       /\ UNCHANGED queue
  ELSE /\ queue' = [c \in Connections |-> IF c \in cs THEN Append(queue[c], frame) ELSE queue[c]]
       /\ UNCHANGED beats

-----------------------------------------------------------------------------
(* Publishers.                                                             *)

\* The transaction: the events are stored and owed to the listeners.
PublishEvents(p) == /\ stage[p] = "idle"
                    /\ \E n \in 1 .. BatchLimit : \E ks \in [1 .. n -> Kinds], b \in BOOLEAN :
                         /\ Len(kinds) + n <= MaxEvents /\ (b \/ n = 1)
                         /\ kinds' = kinds \o ks
                         /\ todo' = [todo EXCEPT ![p] = [i \in 1 .. n |-> Len(kinds) + i]]
                         /\ batch' = [batch EXCEPT ![p] = b]
                    /\ stage' = [stage EXCEPT ![p] = "owed"]
                    /\ UNCHANGED <<history, serving>>

\* Mutant of Pass: a batch notifies of its last event only.
PassAll(p) == /\ todo' = [todo EXCEPT ![p] = <<>>]
              /\ stage' = [stage EXCEPT ![p] = "idle"]
              /\ batch' = [batch EXCEPT ![p] = FALSE]

\* The feed is through with an event; the other listeners and the in-process
\* subscribers take their time, then comes the next of the batch.
Pass(p) == /\ todo' = [todo EXCEPT ![p] = Tail(@)]
           /\ stage' = [stage EXCEPT ![p] = IF Len(todo[p]) = 1 THEN "idle" ELSE "owed"]
           /\ batch' = [batch EXCEPT ![p] = @ /\ Len(todo[p]) > 1]

\* publish of the feed: an internal event, or nobody to send it to.
Skip(p) == /\ stage[p] = "owed"
           /\ kinds[Head(todo[p])] = "internal" \/ subscribers = {}
           /\ Pass(p)
           /\ UNCHANGED <<kinds, history, serving>>

\* ... or it is encoded; a malformed event is logged, which may yield.
Encode(p) == /\ stage[p] = "owed" /\ subscribers # {}
             /\ \/ /\ kinds[Head(todo[p])] = "public"
                   /\ stage' = [stage EXCEPT ![p] = "encoding"]
                \/ /\ kinds[Head(todo[p])] = "malformed"
                   /\ stage' = [stage EXCEPT ![p] = "failing"]
             /\ UNCHANGED <<kinds, todo, batch, history, serving>>

\* Mutant of Enqueue: a full queue misses the frame and stays.
EnqueueLossy(frame) ==
  /\ Put(frame, {c \in subscribers : ~Full(c)})
  /\ UNCHANGED conn

\* offerUnsafe on every registered queue: the full ones are removed and failed.
Enqueue(frame) ==
  /\ conn' = [c \in Connections |-> IF c \in subscribers /\ Full(c) THEN "overflowed" ELSE conn[c]]
  /\ Put(frame, {c \in subscribers : ~Full(c)})

Offer(p) == /\ stage[p] = "encoding"
            /\ Enqueue(Head(todo[p]))
            /\ offered' = Append(offered, Head(todo[p]))
            /\ Pass(p)
            /\ UNCHANGED <<kinds, lost, got, since, from>>

\* Mutant of Fail: the malformed event is skipped, its readers stay.
FailNobody(p) == /\ stage[p] = "failing"
                 /\ Pass(p)
                 /\ UNCHANGED <<kinds, history, serving>>

\* fail: every queue registered by now.
Fail(p) == /\ stage[p] = "failing"
           /\ conn' = [c \in Connections |->
                         IF c \in subscribers THEN "broken" ELSE conn[c]]
           /\ Pass(p)
           /\ UNCHANGED <<kinds, history, queue, beats, got, since, from>>

\* publish is interrupted, or a listener of a live-only event fails before the feed.
Interrupt(p) == /\ stage[p] # "idle" /\ ~batch[p]
                /\ lost' = lost \cup {Head(todo[p])}
                /\ todo' = [todo EXCEPT ![p] = <<>>]
                /\ stage' = [stage EXCEPT ![p] = "idle"]
                /\ UNCHANGED <<kinds, batch, offered, serving>>

-----------------------------------------------------------------------------
(* Connections.                                                            *)

\* The interval, on every registered queue.
Beat == /\ subscribers # {}
        /\ Enqueue(Heartbeat)
        /\ UNCHANGED <<publishing, history, got, since, from>>

\* subscribe: a queue of its own, registered.
Subscribe(c) == /\ conn[c] = "closed"
                /\ conn' = [conn EXCEPT ![c] = "open"]
                /\ queue' = [queue EXCEPT ![c] = <<>>] /\ beats' = [beats EXCEPT ![c] = 0]
                /\ got' = [got EXCEPT ![c] = <<>>]
                /\ since' = [since EXCEPT ![c] = Len(offered)]
                /\ from' = [from EXCEPT ![c] = Len(kinds)]
                /\ UNCHANGED <<publishing, history>>

\* The client reads.
Pull(c) == /\ conn[c] # "closed" /\ Len(queue[c]) + beats[c] > 0
           /\ got' = [got EXCEPT ![c] = @ \o queue[c]]
           /\ queue' = [queue EXCEPT ![c] = <<>>] /\ beats' = [beats EXCEPT ![c] = 0]
           /\ UNCHANGED <<publishing, history, conn, since, from>>

\* The request's scope closes: the client has gone, or has read the failure.
Release(c) == /\ conn[c] # "closed"
              /\ conn' = [conn EXCEPT ![c] = "closed"]
              /\ queue' = [queue EXCEPT ![c] = <<>>] /\ beats' = [beats EXCEPT ![c] = 0]
              /\ got' = [got EXCEPT ![c] = <<>>]
              /\ since' = [since EXCEPT ![c] = 0]
              /\ from' = [from EXCEPT ![c] = 0]
              /\ UNCHANGED <<publishing, history>>

Notify(p) == Skip(p) \/ Encode(p) \/ Offer(p) \/ Fail(p)

FeedNext == \/ \E p \in Publishers : PublishEvents(p) \/ Notify(p) \/ Interrupt(p)
            \/ Beat
            \/ \E c \in Connections : Subscribe(c) \/ Pull(c) \/ Release(c)

FeedSpec == FeedInit /\ [][FeedNext]_feedVars

\* Listeners return and clients read; nobody has to publish, beat or connect.
FeedFairSpec == /\ FeedSpec
                /\ \A p \in Publishers : WF_feedVars(Notify(p))
                /\ \A c \in Connections : WF_feedVars(Pull(c))

-----------------------------------------------------------------------------
Sent(c) == got[c] \o queue[c]

\* What a connection has been sent and will be is a run of the frames offered,
\* from its registration: up to now while it is registered, up to its failure when
\* it has been failed -- the frames accepted before are still its own.  So every
\* healthy connection sees the same frames in the same order, whoever else
\* overflows (event-feed.ts publish, :58-75).
SameRun ==
  \A c \in Connections : conn[c] # "closed" =>
    /\ Sent(c) = SubSeq(offered, since[c] + 1, since[c] + Len(Sent(c)))
    /\ c \in subscribers => since[c] + Len(Sent(c)) = Len(offered)

Owed == UNION {ToSet(todo[p]) : p \in Publishers}

\* No silent gap: an event stored after a connection was registered has been sent
\* to it, or its publisher is still on the way to the feed, or was interrupted --
\* if the event could not be encoded, the connection is not open any more.
NoSilentGap ==
  \A c \in subscribers : \A e \in from[c] + 1 .. Len(kinds) :
    kinds[e] # "internal" => e \in Owed \cup lost \cup ToSet(Sent(c))

\* The type invariant and NoSilentGap, which a run checks together.
FeedInv == FeedTypeOK /\ NoSilentGap

\* A client that reads gets every public event stored while it is connected, unless
\* its connection ends or the publisher is interrupted.
Received ==
  \A c \in Connections, e \in Events :
    (/\ c \in subscribers /\ e \in from[c] + 1 .. Len(kinds) /\ kinds[e] = "public")
      ~> e \in ToSet(got[c]) \/ c \notin subscribers \/ e \in lost

=============================================================================
