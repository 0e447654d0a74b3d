---------------------------- MODULE EventProofs ----------------------------
(***************************************************************************)
(* The two ways an event reaches a client, each a specification of its own:*)
(* the theorems about EventLog assume nothing of EventFeed, nor these of   *)
(* EventLog.                                                               *)
(*                                                                         *)
(* The log (EventLog), for every number of followers, every page size and  *)
(* every length of the log: what a client has been given is exactly what   *)
(* its cursor says, in order, and no wake is lost.  The invariant relates, *)
(* for each connected follower, the cursor of the client, the events read  *)
(* and not delivered, the cursor of the stream and the end of the log: the *)
(* buffer is what lies between the two cursors, and what lies beyond the   *)
(* second is behind a read under way or a wake.                            *)
(*                                                                         *)
(* The live feed (EventFeed), for every number of publishers, connections  *)
(* and events and every capacity: what a connection was sent is a run of   *)
(* what was offered, and an event stored since it connected was sent to it,*)
(* is owed by a publisher still, or was lost with its publisher.           *)
(***************************************************************************)
EXTENDS EventLog, EventFeed, SequenceTheorems, FiniteSetTheorems, WellFoundedInduction, TLAPS

Rows == \A s \in rows : s <= latest

\* What holds of a stream and its client whatever becomes of the log.
Ordered(f) ==
  /\ \A i, j \in DOMAIN out[f] : i < j => out[f][i] < out[f][j]
  /\ \A s \in ToSet(out[f]) : /\ s <= seen[f]
                              /\ at[f] # "off" => s <= sequence[f]
                              /\ \A t \in buffer[f] : s < t
  /\ at[f] # "off" => \A t \in buffer[f] : t <= sequence[f]
  /\ at[f] = "off" => buffer[f] = {}

Given(f) == ToSet(out[f]) = {s \in Readable : start[f] < s /\ s <= seen[f]}

Bounded(f) == /\ start[f] <= seen[f] /\ seen[f] <= latest
              /\ sequence[f] <= latest /\ through[f] <= latest

Buffered(f) == at[f] # "off" =>
  /\ buffer[f] = {s \in Readable : seen[f] < s /\ s <= sequence[f]}
  /\ \A s \in rows : s <= seen[f] => s <= sequence[f]

Replayed(f) == at[f] = "marking" => \A s \in rows : s <= through[f] => s <= sequence[f]

Awake(f) == unrung > 0 \/ wake[f] \/
  /\ at[f] \in {"replaying", "tailing"} =>
       \A s \in rows : s <= through[f] \/ s <= sequence[f]
  /\ at[f] \in {"marking", "live"} => \A s \in rows : s <= sequence[f]

Kept(f) == Given(f) /\ Bounded(f) /\ Buffered(f) /\ Replayed(f) /\ Awake(f)

IInv == /\ TypeOK /\ Rows
        /\ \A f \in Followers : Ordered(f)
        /\ removed \/ (Contiguous /\ \A f \in Followers : Kept(f))

-----------------------------------------------------------------------------
(* Least and greatest elements, pages, sequences.                          *)

Less == {p \in Nat \X Nat : p[1] < p[2]}

\* A non-empty set of naturals has a least element.
LEMMA Least ==
  ASSUME NEW S \in SUBSET Nat, S # {}
  PROVE  \E m \in S : \A s \in S : m <= s
<1>1. IsWellFoundedOn(Less, Nat)
  BY NatLessThanWellFounded DEF OpToRel, Less
<1>2. PICK m \in S : \A s \in S : ~(<<s, m>> \in Less)
  BY <1>1, WFMin
<1>3. ASSUME NEW s \in S, s < m PROVE FALSE
  <2>1. <<s, m>> \in Nat \X Nat /\ <<s, m>>[1] < <<s, m>>[2]
    BY <1>3
  <2>2. <<s, m>> \in Less
    BY <2>1, Zenon DEF Less
  <2> QED BY <1>2, <2>2
<1>4. ASSUME NEW s \in S PROVE m <= s
  <2>1. s \in Nat /\ m \in Nat /\ ~(s < m)
    BY <1>3
  <2> QED BY <2>1
<1> QED BY <1>4

\* A non-empty set of bounded naturals has a greatest one.
LEMMA Greatest ==
  ASSUME NEW n \in Nat, NEW S \in SUBSET (0..n), S # {}
  PROVE  Highest(S) \in S /\ \A s \in S : s <= Highest(S)
<1> DEFINE T == {n - s : s \in S}
<1>1. T \in SUBSET Nat /\ T # {}
  <2>1. \A s \in S : s \in 0..n /\ n - s \in Nat
    OBVIOUS
  <2> QED BY <2>1
<1>2. PICK m \in T : \A t \in T : m <= t
  <2> HIDE DEF T
  <2> QED BY <1>1, Least
<1>3. n - m \in S /\ \A s \in S : s <= n - m
  BY <1>2
<1> QED BY <1>3 DEF Highest

\* A page holds the first unread events: it is empty only when nothing is left,
\* and nothing before its last event is left out.
LEMMA PageFacts ==
  ASSUME TypeOK, NEW f \in Followers
  PROVE  /\ Page(f) \subseteq Unread(f) /\ Page(f) \subseteq Numbers
         /\ Page(f) = {} => Unread(f) = {}
         /\ Page(f) # {} => /\ Highest(Page(f)) \in Page(f)
                            /\ \A s \in Page(f) : s <= Highest(Page(f))
         /\ \A s \in Page(f), t \in Unread(f) : t <= s => t \in Page(f)
<1> DEFINE U == Unread(f)  upto(s) == {t \in U : t <= s}
<1>1. U \in SUBSET (0..MaxSeq) /\ MaxSeq \in Nat
  BY BoundAssumption DEF TypeOK, Unread, Numbers
<1>2. Page(f) = {s \in U : Cardinality(upto(s)) <= PageSize}
  BY DEF Page
<1> HIDE DEF U
<1>3. \A s : IsFiniteSet(upto(s)) /\ Cardinality(upto(s)) \in Nat
  <2> TAKE s
  <2>1. IsFiniteSet(0..MaxSeq)
    BY <1>1, FS_Interval
  <2>2. upto(s) \in SUBSET (0..MaxSeq)
    BY <1>1
  <2> HIDE DEF upto
  <2> QED BY <2>1, <2>2, FS_Subset, FS_CardinalityType
<1>4. ASSUME NEW s \in Page(f), NEW t \in U, t <= s PROVE t \in Page(f)
  <2>1. ASSUME NEW u \in upto(t) PROVE u \in upto(s)
    <3>1. u \in U /\ u <= t /\ s \in U
      BY <1>2, <1>4, <2>1, Zenon
    <3>2. u \in Int /\ t \in Int /\ s \in Int
      BY <1>1, <3>1
    <3>3. u <= s
      BY <1>4, <3>1, <3>2
    <3> QED BY <3>1, <3>3
  <2>2. Cardinality(upto(t)) <= Cardinality(upto(s))
    <3>1. upto(t) \in SUBSET upto(s)
      BY <2>1
    <3> HIDE DEF upto
    <3> QED BY <1>3, <3>1, FS_Subset
  <2>3. Cardinality(upto(s)) <= PageSize
    BY <1>2, <1>4
  <2>4. Cardinality(upto(t)) <= PageSize
    <3> HIDE DEF upto
    <3> QED BY <1>3, <2>2, <2>3, PageAssumption
  <2> QED BY <1>2, <1>4, <2>4
<1>5. ASSUME U # {} PROVE Page(f) # {}
  <2>1. PICK m \in U : \A s \in U : m <= s
    <3>1. U \in SUBSET Nat
      BY <1>1
    <3> QED BY <1>5, <3>1, Least
  <2>2. upto(m) = {m}
    <3>1. ASSUME NEW t \in U, t <= m PROVE t = m
      <4>1. m <= t /\ t \in Int /\ m \in Int
        BY <1>1, <2>1
      <4> QED BY <3>1, <4>1
    <3>2. m <= m
      BY <1>1
    <3> QED BY <3>1, <3>2
  <2>3. Cardinality(upto(m)) = 1
    BY <2>2, FS_Singleton
  <2> QED BY <1>2, <2>1, <2>3, PageAssumption
<1>6. Page(f) \in SUBSET (0..MaxSeq) /\ Page(f) \subseteq U
  BY <1>1, <1>2
<1>7. Page(f) # {} => /\ Highest(Page(f)) \in Page(f)
                      /\ \A s \in Page(f) : s <= Highest(Page(f))
  BY <1>1, <1>6, Greatest
<1> QED BY <1>4, <1>5, <1>6, <1>7 DEF U, Numbers

\* One more element at the end of a sequence.
LEMMA Grown ==
  ASSUME NEW S, NEW s \in Seq(S), NEW e \in S
  PROVE  /\ Append(s, e) \in Seq(S)
         /\ ToSet(Append(s, e)) = ToSet(s) \cup {e}
         /\ DOMAIN s = 1..Len(s) /\ Len(s) \in Nat
         /\ DOMAIN Append(s, e) = 1..(Len(s) + 1)
         /\ \A i \in 1..Len(s) : Append(s, e)[i] = s[i] /\ s[i] \in ToSet(s)
         /\ Append(s, e)[Len(s) + 1] = e
<1> DEFINE t == Append(s, e)
<1>1. /\ t \in Seq(S) /\ Len(t) = Len(s) + 1 /\ Len(s) \in Nat
      /\ \A i \in 1..Len(s) : t[i] = s[i]
      /\ t[Len(s) + 1] = e
      /\ DOMAIN s = 1..Len(s) /\ DOMAIN t = 1..Len(t)
  BY AppendProperties, LenProperties
<1> HIDE DEF t
<1>2. ToSet(t) = ToSet(s) \cup {e}
  BY <1>1 DEF ToSet
<1>3. \A i \in 1..Len(s) : s[i] \in ToSet(s)
  BY <1>1 DEF ToSet
<1> QED BY <1>1, <1>2, <1>3 DEF t

-----------------------------------------------------------------------------
\* The initial state.
LEMMA InitIInv == Init => IInv
<1> SUFFICES ASSUME Init PROVE IInv
  OBVIOUS
<1>1. TypeOK /\ Rows
  <2>1. wake \in [Followers -> BOOLEAN] /\ removed \in BOOLEAN
    BY Zenon DEF Init
  <2> QED BY <2>1, BoundAssumption DEF Init, TypeOK, Rows, Numbers, Cursors, Places
<1>2. ToSet(<<>>) = {}
  BY DEF ToSet
<1>3. ASSUME NEW f \in Followers PROVE Ordered(f) /\ Kept(f)
  BY <1>2 DEF Init, Ordered, Kept, Given, Bounded, Buffered, Replayed, Awake, Readable
<1>4. Contiguous
  BY DEF Init, Contiguous
<1> QED BY <1>1, <1>3, <1>4 DEF IInv

\* New events lie beyond everything that refers to the log.
LEMMA Grow ==
  ASSUME TypeOK, Rows, NEW f \in Followers, Kept(f),
         rows \subseteq rows', rows' \subseteq Nat, \A s \in rows' \ rows : s > latest,
         latest' \in Int, latest <= latest', hidden' \cap rows = hidden,
         unrung' > 0, UNCHANGED <<streams, clients>>
  PROVE  Kept(f)'
<1>1. /\ start[f] \in Int /\ seen[f] \in Int /\ sequence[f] \in Int /\ through[f] \in Int
      /\ latest \in Int /\ rows \subseteq Int
  BY DEF TypeOK, Cursors, Numbers
<1>2. /\ at' = at /\ sequence' = sequence /\ through' = through /\ buffer' = buffer
      /\ seen' = seen /\ start' = start /\ out' = out
  BY DEF streams, clients
<1>3. ASSUME NEW s \in rows', s <= latest PROVE s \in rows
  <2>1. s \in Int /\ (s \in rows \/ s > latest)
    OBVIOUS
  <2> QED BY <1>1, <1>3, <2>1
<1>4. \A s \in rows : s \in Readable' <=> s \in Readable
  BY DEF Readable
<1>5. ASSUME NEW s, s <= seen[f] \/ s <= sequence[f] \/ s <= through[f], s \in rows'
      PROVE  s \in rows
  <2>1. s \in rows \/ s > latest
    BY <1>5
  <2> QED BY <1>1, <1>3, <1>5, <2>1 DEF Kept, Bounded
<1>6. Readable \subseteq rows /\ Readable' \subseteq rows'
  BY DEF Readable
<1>7. Given(f)'
  BY <1>2, <1>4, <1>5, <1>6 DEF Kept, Given
<1>8. Bounded(f)'
  BY <1>1, <1>2 DEF Kept, Bounded
<1>9. Buffered(f)'
  <2> SUFFICES ASSUME at[f] # "off" PROVE Buffered(f)'
    BY <1>2 DEF Buffered
  <2>1. \A s : s \in Readable' /\ s <= sequence[f] <=> s \in Readable /\ s <= sequence[f]
    BY <1>4, <1>5, <1>6
  <2>2. {s \in Readable' : seen[f] < s /\ s <= sequence[f]} = {s \in Readable : seen[f] < s /\ s <= sequence[f]}
    BY <2>1
  <2> QED BY <1>2, <1>5, <2>2 DEF Kept, Buffered
<1>10. Replayed(f)'
  BY <1>2, <1>5 DEF Kept, Replayed
<1> QED BY <1>7, <1>8, <1>9, <1>10 DEF Kept, Awake


-----------------------------------------------------------------------------
\* The types of what the log consists of, and of a stream, in one place.
LogOK == /\ latest \in Cursors /\ rows \subseteq Numbers /\ hidden \subseteq rows
         /\ removed \in BOOLEAN /\ unrung \in 0..Committers

StreamsOK == /\ at \in [Followers -> Places]
             /\ wake \in [Followers -> BOOLEAN]
             /\ sequence \in [Followers -> Cursors]
             /\ through \in [Followers -> Cursors]
             /\ buffer \in [Followers -> SUBSET Numbers]

ClientsOK == /\ seen \in [Followers -> Cursors]
             /\ start \in [Followers -> Cursors]
             /\ out \in [Followers -> Seq(Numbers)]

LEMMA TypeParts == TypeOK <=> LogOK /\ StreamsOK /\ ClientsOK
BY DEF TypeOK, LogOK, StreamsOK, ClientsOK

\* Every step keeps the types, and the sequence row at or above every event.
LEMMA TypeStep ==
  ASSUME TypeOK, Rows, [Next]_vars
  PROVE  TypeOK' /\ Rows'
<1>1. LogOK /\ StreamsOK /\ ClientsOK
  BY TypeParts
<1>2. MaxSeq \in Nat /\ Committers \in Nat \ {0} /\ MaxBatch \in Nat /\ ParentSeq \in Nat
  BY BoundAssumption, ParentAssumption
<1>3. CASE UNCHANGED vars
  BY <1>1, <1>3 DEF vars, log, streams, clients, TypeOK, Rows
<1>4. CASE Publish
  <2>0. PICK n \in 1..MaxBatch : \E h \in SUBSET (latest + 1 .. latest + n) :
          latest + n <= MaxSeq /\ unrung < Committers /\ Store(n, h)
    BY <1>4 DEF Publish
  <2>1. PICK h \in SUBSET (latest + 1 .. latest + n) :
          latest + n <= MaxSeq /\ unrung < Committers /\ Store(n, h)
    BY <2>0
  <2>2. unrung' = unrung + 1 /\ UNCHANGED <<removed, streams, clients>>
    BY <1>4 DEF Publish
  <2>3. /\ latest' = latest + n /\ rows' = rows \cup (latest + 1 .. latest + n)
        /\ hidden' = hidden \cup h
    BY <2>1 DEF Store
  <2>4. latest \in Int /\ -1 <= latest /\ n \in Nat /\ latest + 1 .. latest + n \subseteq Numbers
    BY <1>1, <1>2, <2>1 DEF LogOK, Cursors, Numbers
  <2>5. LogOK'
    BY <1>1, <1>2, <2>1, <2>2, <2>3, <2>4 DEF LogOK, Cursors, Numbers
  <2>6. StreamsOK' /\ ClientsOK'
    BY <1>1, <2>2 DEF StreamsOK, ClientsOK, streams, clients
  <2>7. Rows'
    BY <1>1, <2>1, <2>3, <2>4 DEF Rows, LogOK, Numbers
  <2> QED BY <2>5, <2>6, <2>7 DEF TypeOK, LogOK, StreamsOK, ClientsOK
<1>5. CASE Fork
  <2>1. /\ latest = -1 /\ unrung < Committers /\ ParentSeq <= MaxSeq
        /\ latest' = ParentSeq /\ rows' = {0}
        /\ unrung' = unrung + 1 /\ UNCHANGED <<hidden, removed, streams, clients>>
    BY <1>5 DEF Fork
  <2>2. rows = {}
    BY <1>1, <1>2, <2>1 DEF Rows, LogOK, Numbers
  <2>3. LogOK' /\ Rows'
    BY <1>1, <1>2, <2>1, <2>2 DEF LogOK, Cursors, Numbers, Rows
  <2>4. StreamsOK' /\ ClientsOK'
    BY <1>1, <2>1 DEF StreamsOK, ClientsOK, streams, clients
  <2> QED BY <2>3, <2>4 DEF TypeOK, LogOK, StreamsOK, ClientsOK
<1>6. CASE Ring
  <2>1. /\ unrung > 0 /\ unrung' = unrung - 1
        /\ UNCHANGED <<log, at, sequence, through, buffer, clients>>
    BY <1>6 DEF Ring
  <2>2. wake' \in [Followers -> BOOLEAN]
    BY <1>6, Zenon DEF Ring
  <2>3. LogOK' /\ Rows'
    BY <1>1, <1>2, <2>1 DEF LogOK, Rows, log
  <2>4. StreamsOK' /\ ClientsOK'
    BY <1>1, <2>1, <2>2 DEF StreamsOK, ClientsOK, clients
  <2> QED BY <2>3, <2>4 DEF TypeOK, LogOK, StreamsOK, ClientsOK
<1>7. CASE RemoveAll
  BY <1>1, <1>7 DEF RemoveAll, TypeOK, LogOK, StreamsOK, ClientsOK, Rows, Cursors, streams, clients
<1>8. CASE Crash
  <2>1. wake' \in [Followers -> BOOLEAN]
    BY <1>8, Zenon DEF Crash
  <2> QED BY <1>1, <1>2, <1>8, <2>1
          DEF Crash, TypeOK, LogOK, StreamsOK, ClientsOK, Rows, Places, log, clients
<1>9. ASSUME NEW f \in Followers,
             Watermark(f) \/ Connect(f) \/ Follow(f) \/ Disconnect(f)
      PROVE  TypeOK' /\ Rows'
  <2>1. UNCHANGED <<log, unrung>>
    BY <1>9 DEF Watermark, Connect, Follow, Target, ReadPage, Deliver, Mark, Wake, Latest, Disconnect
  <2>2. LogOK' /\ Rows'
    BY <1>1, <2>1 DEF LogOK, Rows, log
  <2>3. StreamsOK' /\ ClientsOK'
    <3>1. CASE Watermark(f)
      <4>1. <<>> \in Seq(Numbers)
        BY EmptySeq
      <4> QED BY <1>1, <3>1, <4>1 DEF Watermark, LogOK, StreamsOK, ClientsOK, streams
    <3>2. CASE Connect(f)
      BY <1>1, <3>2 DEF Connect, StreamsOK, ClientsOK, Places, clients
    <3>3. CASE Target(f)
      BY <1>1, <3>3 DEF Target, LogOK, StreamsOK, ClientsOK, Places, clients
    <3>4. CASE ReadPage(f)
      <4>1. /\ Page(f) \subseteq Numbers
            /\ Page(f) # {} => Highest(Page(f)) \in Cursors
        BY PageFacts DEF Cursors
      <4> QED BY <1>1, <3>4, <4>1 DEF ReadPage, StreamsOK, ClientsOK, Places, clients
    <3>5. CASE Deliver(f)
      <4>1. PICK s \in buffer[f] : /\ buffer' = [buffer EXCEPT ![f] = @ \ {s}]
                                   /\ out' = [out EXCEPT ![f] = Append(@, s)]
                                   /\ seen' = [seen EXCEPT ![f] = s]
                                   /\ UNCHANGED <<at, wake, sequence, through, start>>
        BY <3>5 DEF Deliver
      <4>2. s \in Numbers /\ Append(out[f], s) \in Seq(Numbers)
        BY <1>1, <4>1, Grown DEF StreamsOK, ClientsOK
      <4> QED BY <1>1, <4>1, <4>2 DEF StreamsOK, ClientsOK, Cursors
    <3>6. CASE Mark(f)
      BY <1>1, <3>6 DEF Mark, StreamsOK, ClientsOK, Places
    <3>7. CASE Wake(f)
      BY <1>1, <3>7 DEF Wake, StreamsOK, ClientsOK, Places, clients
    <3>8. CASE Latest(f)
      BY <1>1, <3>8 DEF Latest, LogOK, StreamsOK, ClientsOK, Places, clients
    <3>9. CASE Disconnect(f)
      BY <1>1, <3>9 DEF Disconnect, Close, StreamsOK, ClientsOK, Places, clients
    <3> QED BY <1>9, <3>1, <3>2, <3>3, <3>4, <3>5, <3>6, <3>7, <3>8, <3>9 DEF Follow
  <2> QED BY <2>2, <2>3 DEF TypeOK, LogOK, StreamsOK, ClientsOK
<1> QED BY <1>3, <1>4, <1>5, <1>6, <1>7, <1>8, <1>9 DEF Next


-----------------------------------------------------------------------------
\* What a client has been given stays in order, whatever is stored or removed.
LEMMA OrderedStep ==
  ASSUME TypeOK, \A f \in Followers : Ordered(f), [Next]_vars
  PROVE  \A f \in Followers : Ordered(f)'
<1>1. /\ at \in [Followers -> Places] /\ out \in [Followers -> Seq(Numbers)]
      /\ sequence \in [Followers -> Cursors] /\ seen \in [Followers -> Cursors]
      /\ buffer \in [Followers -> SUBSET Numbers] /\ start \in [Followers -> Cursors]
      /\ through \in [Followers -> Cursors] /\ latest \in Cursors
  BY DEF TypeOK
<1>2. Numbers \subseteq Int /\ Cursors \subseteq Int
  BY BoundAssumption DEF Numbers, Cursors
<1>0. \A f \in Followers : ToSet(out[f]) \subseteq Int
  <2> TAKE f \in Followers
  <2>1. out[f] \in Seq(Numbers)
    BY <1>1
  <2>2. \A i \in DOMAIN out[f] : out[f][i] \in Numbers
    BY <2>1, LenProperties
  <2> QED BY <1>2, <2>2 DEF ToSet
<1>3. ASSUME NEW f \in Followers,
             at'[f] = at[f], sequence'[f] = sequence[f], buffer'[f] = buffer[f],
             seen'[f] = seen[f], out'[f] = out[f]
      PROVE  Ordered(f)'
  BY <1>3 DEF Ordered
<1>4. ASSUME NEW f \in Followers, at'[f] = "off", buffer'[f] = {},
             seen'[f] = seen[f], out'[f] = out[f]
      PROVE  Ordered(f)'
  BY <1>4 DEF Ordered
<1>5. CASE UNCHANGED vars
  BY <1>3, <1>5 DEF vars, streams, clients
<1>6. CASE Publish \/ Fork \/ Ring \/ RemoveAll
  BY <1>3, <1>6 DEF Publish, Fork, Ring, RemoveAll, streams, clients
<1>7. CASE Crash
  BY <1>4, <1>7 DEF Crash, clients
<1>8. ASSUME NEW f \in Followers,
             Watermark(f) \/ Connect(f) \/ Follow(f) \/ Disconnect(f)
      PROVE  \A g \in Followers : Ordered(g)'
  <2>1. ASSUME NEW g \in Followers, g # f PROVE Ordered(g)'
    <3>1. /\ at'[g] = at[g] /\ sequence'[g] = sequence[g] /\ buffer'[g] = buffer[g]
          /\ seen'[g] = seen[g] /\ out'[g] = out[g]
      BY <1>1, <1>8, <2>1 DEF Watermark, Connect, Follow, Target, ReadPage, Deliver, Mark,
                              Wake, Latest, Disconnect, Close, streams, clients
    <3> QED BY <1>3, <3>1
  <2>2. Ordered(f)'
    <3>1. CASE Watermark(f)
      <4>1. out'[f] = <<>> /\ ToSet(<<>>) = {} /\ DOMAIN <<>> = {} /\ at'[f] = "off"
            /\ buffer'[f] = {}
        BY <1>1, <3>1 DEF Watermark, streams, ToSet, Ordered
      <4> QED BY <4>1 DEF Ordered
    <3>2. CASE Connect(f)
      <4>1. /\ sequence'[f] = seen[f] /\ at[f] = "off" /\ seen'[f] = seen[f]
            /\ out'[f] = out[f] /\ buffer'[f] = buffer[f] /\ at'[f] # "off"
        BY <1>1, <3>2 DEF Connect, clients
      <4> QED BY <4>1 DEF Ordered
    <3>3. CASE Target(f) \/ Wake(f) \/ Latest(f)
      <4>1. /\ sequence'[f] = sequence[f] /\ at[f] # "off" /\ seen'[f] = seen[f]
            /\ out'[f] = out[f] /\ buffer'[f] = buffer[f] /\ at'[f] # "off"
        BY <1>1, <3>3 DEF Target, Wake, Latest, clients
      <4> QED BY <4>1 DEF Ordered
    <3>4. CASE ReadPage(f)
      <4> DEFINE page == Page(f)  top == Highest(page)
      <4>1. /\ at[f] # "off" /\ at'[f] # "off" /\ seen'[f] = seen[f] /\ out'[f] = out[f]
            /\ buffer'[f] = page \ hidden /\ buffer[f] = {}
            /\ sequence'[f] = IF page = {} THEN sequence[f] ELSE top
        BY <1>1, <3>4 DEF ReadPage, clients
      <4>2. /\ \A t \in page : t \in Int /\ sequence[f] < t
            /\ page # {} => top \in page /\ \A t \in page : t <= top
        BY <1>2, PageFacts DEF Unread
      <4>3. sequence[f] \in Int /\ \A s \in ToSet(out[f]) : s \in Int
        BY <1>0, <1>1, <1>2
      <4> HIDE DEF page, top
      <4>4. ASSUME NEW s \in ToSet(out[f])
            PROVE  s <= seen[f] /\ s <= sequence'[f] /\ \A t \in page : s < t
        <5>1. s \in Int /\ s <= sequence[f] /\ s <= seen[f]
          BY <4>1, <4>3 DEF Ordered
        <5>2. \A t \in page : s < t
          BY <4>2, <4>3, <5>1
        <5>3. s <= sequence'[f]
          BY <4>1, <4>2, <4>3, <5>1
        <5> QED BY <5>1, <5>2, <5>3
      <4>5. \A t \in buffer'[f] : t <= sequence'[f]
        BY <4>1, <4>2
      <4> QED BY <4>1, <4>4, <4>5 DEF Ordered
    <3>5. CASE Deliver(f)
      <4>1. PICK s \in buffer[f] : /\ \A t \in buffer[f] : s <= t
                                   /\ buffer' = [buffer EXCEPT ![f] = @ \ {s}]
                                   /\ out' = [out EXCEPT ![f] = Append(@, s)]
                                   /\ seen' = [seen EXCEPT ![f] = s]
                                   /\ UNCHANGED <<at, sequence>>
        BY <3>5 DEF Deliver
      <4>2. /\ buffer'[f] = buffer[f] \ {s} /\ out'[f] = Append(out[f], s) /\ seen'[f] = s
            /\ at' = at /\ sequence' = sequence /\ at[f] # "off"
        BY <1>1, <4>1 DEF Ordered
      <4>3. /\ s \in Numbers /\ s \in Int /\ \A t \in buffer[f] : t \in Int
            /\ sequence[f] \in Int /\ s <= sequence[f]
        BY <1>1, <1>2, <4>1, <4>2 DEF Ordered
      <4> DEFINE new == Append(out[f], s)  n == Len(out[f])
      <4>4. /\ n \in Nat /\ DOMAIN out[f] = 1..n /\ DOMAIN new = 1..(n + 1)
            /\ ToSet(new) = ToSet(out[f]) \cup {s}
            /\ \A i \in 1..n : new[i] = out[f][i] /\ out[f][i] \in ToSet(out[f])
            /\ new[n + 1] = s
        BY <1>1, <4>3, Grown
      <4>5. \A t \in ToSet(out[f]) : t < s /\ t \in Int
        BY <1>0, <4>1 DEF Ordered
      <4> HIDE DEF new, n
      <4>6. ASSUME NEW i \in DOMAIN new, NEW j \in DOMAIN new, i < j PROVE new[i] < new[j]
        <5>1. i \in 1..n
          BY <4>4, <4>6
        <5>2. CASE j = n + 1
          BY <4>4, <4>5, <5>1, <5>2
        <5>3. CASE j # n + 1
          <6>1. j \in 1..n
            BY <4>4, <5>3
          <6> QED BY <4>4, <4>6, <5>1, <6>1 DEF Ordered
        <5> QED BY <5>2, <5>3
      <4>7. ASSUME NEW u \in ToSet(new)
            PROVE  u <= s /\ u <= sequence[f] /\ \A t \in buffer[f] \ {s} : u < t
        <5>1. CASE u = s
          BY <4>1, <4>3, <5>1
        <5>2. CASE u \in ToSet(out[f])
          BY <4>2, <4>3, <4>5, <5>2 DEF Ordered
        <5> QED BY <4>4, <4>7, <5>1, <5>2
      <4>8. \A t \in buffer'[f] : t <= sequence[f]
        BY <4>2 DEF Ordered
      <4>9. out'[f] = new
        BY <4>2 DEF new
      <4> QED BY <4>2, <4>6, <4>7, <4>8, <4>9 DEF Ordered
    <3>6. CASE Mark(f)
      <4>1. /\ sequence'[f] = sequence[f] /\ at[f] # "off" /\ at'[f] # "off"
            /\ out'[f] = out[f] /\ buffer'[f] = buffer[f]
            /\ seen'[f] = IF through[f] > seen[f] THEN through[f] ELSE seen[f]
        BY <1>1, <3>6 DEF Mark
      <4>0. seen[f] \in Int /\ through[f] \in Int
        BY <1>1, <1>2
      <4>2. /\ seen[f] \in Int /\ seen[f] <= seen'[f]
            /\ seen'[f] \in Int /\ \A s \in ToSet(out[f]) : s \in Int
        BY <1>0, <4>0, <4>1
      <4>3. \A s \in ToSet(out[f]) : s <= seen'[f]
        BY <4>2 DEF Ordered
      <4> QED BY <4>1, <4>3 DEF Ordered
    <3>7. CASE Disconnect(f)
      <4>1. at'[f] = "off" /\ buffer'[f] = {} /\ seen'[f] = seen[f] /\ out'[f] = out[f]
        BY <1>1, <3>7 DEF Disconnect, Close, clients
      <4> QED BY <1>4, <4>1
    <3> QED BY <1>8, <3>1, <3>2, <3>3, <3>4, <3>5, <3>6, <3>7 DEF Follow
  <2> QED BY <2>1, <2>2
<1> QED BY <1>5, <1>6, <1>7, <1>8 DEF Next

-----------------------------------------------------------------------------
\* While the aggregate exists, every step keeps each follower complete.
LEMMA KeptStep ==
  ASSUME TypeOK, Rows, \A f \in Followers : Ordered(f) /\ Kept(f),
         [Next]_vars, ~removed', TypeOK'
  PROVE  \A f \in Followers : Kept(f)'
<1>1. /\ at \in [Followers -> Places] /\ out \in [Followers -> Seq(Numbers)]
      /\ sequence \in [Followers -> Cursors] /\ seen \in [Followers -> Cursors]
      /\ buffer \in [Followers -> SUBSET Numbers] /\ start \in [Followers -> Cursors]
      /\ through \in [Followers -> Cursors] /\ wake \in [Followers -> BOOLEAN]
  BY DEF TypeOK
<1>2. /\ Numbers \subseteq Int /\ Cursors \subseteq Int /\ rows \subseteq Int
      /\ latest \in Int /\ unrung \in Int /\ unrung >= 0
  BY BoundAssumption DEF Numbers, Cursors, TypeOK
<1>3. \A f \in Followers : /\ seen[f] \in Int /\ sequence[f] \in Int
                           /\ through[f] \in Int /\ start[f] \in Int
  BY <1>1, <1>2
<1>4. ASSUME NEW f \in Followers, UNCHANGED <<log, unrung>>,
             at'[f] = at[f], wake'[f] = wake[f], sequence'[f] = sequence[f],
             through'[f] = through[f], buffer'[f] = buffer[f],
             seen'[f] = seen[f], start'[f] = start[f], out'[f] = out[f]
      PROVE  Kept(f)'
  BY <1>4 DEF Kept, Given, Bounded, Buffered, Replayed, Awake, Readable, log
<1>5. ASSUME NEW f \in Followers, UNCHANGED log, at'[f] = "off",
             sequence'[f] = sequence[f], through'[f] = through[f],
             seen'[f] = seen[f], start'[f] = start[f], out'[f] = out[f]
      PROVE  Kept(f)'
  BY <1>5 DEF Kept, Given, Bounded, Buffered, Replayed, Awake, Readable, log
<1>6. CASE UNCHANGED vars
  BY <1>4, <1>6 DEF vars, streams, clients
<1>7. CASE Publish
  <2>1. PICK n \in 1..MaxBatch : \E h \in SUBSET (latest + 1 .. latest + n) : Store(n, h)
    BY <1>7 DEF Publish
  <2>2. PICK h \in SUBSET (latest + 1 .. latest + n) : Store(n, h)
    BY <2>1
  <2>3. /\ latest' = latest + n /\ rows' = rows \cup (latest + 1 .. latest + n)
        /\ hidden' = hidden \cup h
    BY <2>2 DEF Store
  <2>4. unrung' = unrung + 1 /\ UNCHANGED <<streams, clients>>
    BY <1>7 DEF Publish
  <2>5. h \cap rows = {} /\ hidden \subseteq rows
    BY <1>2, <2>2 DEF Rows, TypeOK
  <2>6. /\ rows \subseteq rows' /\ \A s \in rows' \ rows : s > latest
        /\ latest' \in Int /\ latest <= latest' /\ unrung' > 0
    BY <1>2, <2>1, <2>3, <2>4
  <2>7. rows' \subseteq Nat
    BY BoundAssumption DEF TypeOK, Numbers
  <2>8. hidden' \cap rows = hidden
    BY <2>3, <2>5
  <2> QED BY <2>4, <2>6, <2>7, <2>8, Grow
<1>8. CASE Fork
  <2>1. /\ latest = -1 /\ latest' = ParentSeq /\ rows' = {0} /\ hidden' = hidden
        /\ unrung' = unrung + 1 /\ UNCHANGED <<streams, clients>>
    BY <1>8 DEF Fork
  <2>2. rows = {} /\ hidden = {}
    BY <1>2, <2>1, BoundAssumption DEF Rows, TypeOK, Numbers
  <2>3. /\ rows \subseteq rows' /\ \A s \in rows' \ rows : s > latest
        /\ latest' \in Int /\ latest <= latest' /\ unrung' > 0 /\ rows' \subseteq Nat
        /\ hidden' \cap rows = hidden
    BY <1>2, <2>1, <2>2, ParentAssumption
  <2> QED BY <2>1, <2>3, Grow
<1>9. CASE Ring
  <2> SUFFICES ASSUME NEW f \in Followers PROVE Kept(f)'
    OBVIOUS
  <2>1. /\ UNCHANGED <<log, at, sequence, through, buffer, clients>>
        /\ wake'[f] \/ at[f] = "off"
    BY <1>9 DEF Ring
  <2> QED BY <2>1 DEF Kept, Given, Bounded, Buffered, Replayed, Awake, Readable, log, clients
<1>10. CASE RemoveAll
  BY <1>10 DEF RemoveAll
<1>11. CASE Crash
  BY <1>5, <1>11 DEF Crash, clients
<1>12. ASSUME NEW f \in Followers,
              Watermark(f) \/ Connect(f) \/ Follow(f) \/ Disconnect(f)
       PROVE  \A g \in Followers : Kept(g)'
  <2>0. UNCHANGED <<log, unrung>> /\ rows' = rows /\ hidden' = hidden /\ latest' = latest
    BY <1>12 DEF Watermark, Connect, Follow, Target, ReadPage, Deliver, Mark, Wake, Latest,
                 Disconnect, log
  <2>00. Readable' = Readable /\ Readable \subseteq rows
    BY <2>0 DEF Readable
  <2>i. \A s : s \in Readable \/ s \in rows => s \in Int
    BY <1>2, <2>00
  <2>f. seen[f] \in Int /\ sequence[f] \in Int /\ through[f] \in Int /\ start[f] \in Int
    BY <1>3
  <2>1. ASSUME NEW g \in Followers, g # f PROVE Kept(g)'
    <3>1. /\ at'[g] = at[g] /\ wake'[g] = wake[g] /\ sequence'[g] = sequence[g]
          /\ through'[g] = through[g] /\ buffer'[g] = buffer[g]
          /\ seen'[g] = seen[g] /\ start'[g] = start[g] /\ out'[g] = out[g]
      BY <1>1, <1>12, <2>1 DEF Watermark, Connect, Follow, Target, ReadPage, Deliver, Mark,
                               Wake, Latest, Disconnect, Close, streams, clients
    <3> QED BY <1>4, <2>0, <3>1
  <2>2. Kept(f)'
    <3> Given(f) /\ Bounded(f) /\ Buffered(f) /\ Replayed(f) /\ Awake(f) /\ Ordered(f)
      BY DEF Kept
    <3>1. CASE Watermark(f)
      <4>1. /\ out'[f] = <<>> /\ ToSet(<<>>) = {} /\ at'[f] = "off"
            /\ seen'[f] = latest /\ start'[f] = latest
            /\ sequence'[f] = sequence[f] /\ through'[f] = through[f]
        BY <1>1, <3>1 DEF Watermark, streams, ToSet
      <4>0. ASSUME NEW s \in Readable PROVE ~(latest < s /\ s <= latest)
        <5>1. s \in Int /\ latest \in Int
          BY <1>2, <2>i
        <5> QED BY <5>1
      <4>2. {s \in Readable : latest < s /\ s <= latest} = {}
        BY <4>0
      <4> QED BY <1>2, <2>0, <2>00, <4>1, <4>2
              DEF Kept, Given, Bounded, Buffered, Replayed, Awake
    <3>2. CASE Connect(f)
      <4>1. /\ sequence'[f] = seen[f] /\ at[f] = "off" /\ seen'[f] = seen[f]
            /\ start'[f] = start[f] /\ through'[f] = through[f]
            /\ out'[f] = out[f] /\ buffer'[f] = {} /\ at'[f] = "subscribed"
        BY <1>1, <3>2 DEF Connect, clients, Ordered
      <4>0. ASSUME NEW s \in Readable PROVE ~(seen[f] < s /\ s <= seen[f])
        <5>1. s \in Int /\ seen[f] \in Int
          BY <2>f, <2>i
        <5> QED BY <5>1
      <4>2. {s \in Readable : seen[f] < s /\ s <= seen[f]} = {}
        BY <4>0
      <4> QED BY <2>0, <2>00, <4>1, <4>2 DEF Kept, Given, Bounded, Buffered, Replayed, Awake
    <3>3. CASE Target(f)
      <4>1. /\ at[f] # "off" /\ at'[f] = "replaying" /\ through'[f] = latest
            /\ sequence'[f] = sequence[f] /\ buffer'[f] = buffer[f]
            /\ seen'[f] = seen[f] /\ start'[f] = start[f] /\ out'[f] = out[f]
        BY <1>1, <3>3 DEF Target, clients
      <4> QED BY <1>2, <2>0, <2>00, <4>1
              DEF Kept, Given, Bounded, Buffered, Replayed, Awake, Rows
    <3>4. CASE ReadPage(f)
      <4> DEFINE page == Page(f)  top == Highest(page)
      <4>1. /\ at[f] \in {"replaying", "tailing"} /\ buffer[f] = {}
            /\ seen'[f] = seen[f] /\ start'[f] = start[f] /\ out'[f] = out[f]
            /\ through'[f] = through[f] /\ wake'[f] = wake[f]
            /\ buffer'[f] = page \ hidden
            /\ sequence'[f] = IF page = {} THEN sequence[f] ELSE top
            /\ IF page # {} /\ top < through[f] THEN at'[f] = at[f]
               ELSE at'[f] = IF at[f] = "replaying" THEN "marking" ELSE "live"
        BY <1>1, <3>4 DEF ReadPage, clients
      <4>2. /\ \A t \in page : t \in rows /\ t \in Int /\ sequence[f] < t /\ t <= through[f]
            /\ page = {} => \A t \in rows : t <= sequence[f] \/ t > through[f]
            /\ page # {} => top \in page /\ \A t \in page : t <= top
        <5>1. ASSUME NEW t \in page
              PROVE  t \in rows /\ t \in Int /\ sequence[f] < t /\ t <= through[f]
          <6>1. t \in Unread(f)
            BY <5>1, PageFacts
          <6> QED BY <2>i, <6>1 DEF Unread
        <5>2. ASSUME page = {}, NEW t \in rows PROVE t <= sequence[f] \/ t > through[f]
          <6>1. t \notin Unread(f)
            BY <5>2, PageFacts
          <6>2. t \in Int /\ ~(sequence[f] < t /\ t <= through[f])
            BY <2>i, <5>2, <6>1 DEF Unread
          <6> QED BY <2>f, <6>2
        <5>3. page # {} => top \in page /\ \A t \in page : t <= top
          BY PageFacts
        <5> HIDE DEF page, top
        <5> QED BY <5>1, <5>2, <5>3
      <4>3. \A s \in page, t \in rows : sequence[f] < t /\ t <= s => t \in page
        <5>1. ASSUME NEW s \in page, NEW t \in rows, sequence[f] < t, t <= s
              PROVE  t \in page
          <6>1. t <= through[f]
            BY <1>2, <1>3, <4>2, <5>1
          <6>2. t \in Unread(f)
            BY <5>1, <6>1 DEF Unread
          <6> QED BY <5>1, <6>2, PageFacts
        <5> QED BY <5>1
      <4> HIDE DEF page, top
      <4>4. CASE page = {}
        <5>1. \A s \in rows : s <= sequence[f] \/ s > through[f]
          BY <4>2, <4>4
        <5>2. /\ sequence'[f] = sequence[f] /\ buffer'[f] = buffer[f]
              /\ at'[f] = IF at[f] = "replaying" THEN "marking" ELSE "live"
          BY <4>1, <4>4
        <5>3. Replayed(f)'
          BY <1>2, <1>3, <2>0, <4>1, <5>1, <5>2 DEF Replayed
        <5>4. Awake(f)'
          BY <1>2, <1>3, <2>0, <4>1, <5>1, <5>2 DEF Awake
        <5>5. Given(f)' /\ Bounded(f)' /\ Buffered(f)'
          BY <2>0, <2>00, <4>1, <5>2 DEF Given, Bounded, Buffered
        <5> QED BY <5>3, <5>4, <5>5 DEF Kept
      <4>5. CASE page # {}
        <5>1. /\ sequence'[f] = top /\ top \in page /\ \A t \in page : t <= top
              /\ top \in Int /\ sequence[f] < top /\ top \in rows /\ top <= latest
          BY <4>1, <4>2, <4>5 DEF Rows
        <5>2. ASSUME NEW s \in rows, s <= sequence[f] PROVE s <= top
          <6>1. s \in Int /\ sequence[f] \in Int /\ top \in Int /\ sequence[f] < top
            BY <2>f, <2>i, <5>1
          <6> QED BY <5>2, <6>1
        <5>3. Given(f)' /\ Bounded(f)'
          BY <2>0, <2>00, <4>1, <5>1 DEF Given, Bounded
        <5>4. \A s \in rows : s <= seen[f] => s <= sequence[f]
          BY <4>1 DEF Buffered
        <5>5. ASSUME NEW s
              PROVE  s \in page \ hidden <=> s \in Readable /\ seen[f] < s /\ s <= top
          <6>1. ASSUME s \in page \ hidden PROVE s \in Readable /\ seen[f] < s /\ s <= top
            <7>1. s \in rows /\ s \in Int /\ sequence[f] < s /\ s \in Readable
              BY <4>2, <6>1 DEF Readable
            <7>2. seen[f] < s
              BY <1>3, <5>4, <7>1
            <7> QED BY <5>1, <6>1, <7>1, <7>2
          <6>2. ASSUME s \in Readable, seen[f] < s, s <= top PROVE s \in page \ hidden
            <7>1. s \in rows /\ s \in Int /\ s \notin hidden
              BY <1>2, <6>2 DEF Readable
            <7>2. ~(s <= sequence[f])
              BY <4>1, <6>2 DEF Buffered
            <7>3. sequence[f] < s
              BY <1>3, <7>1, <7>2
            <7> QED BY <4>3, <5>1, <6>2, <7>1, <7>3
          <6> QED BY <6>1, <6>2
        <5>6. Buffered(f)'
          <6>1. buffer'[f] = {s \in Readable : seen[f] < s /\ s <= top}
            BY <4>1, <5>5
          <6> QED BY <2>0, <2>00, <4>1, <5>1, <5>2, <5>4, <6>1 DEF Buffered
        <5>7. at'[f] # at[f] => through[f] <= top
          BY <1>3, <4>1, <5>1
        <5>8. Replayed(f)'
          BY <1>2, <1>3, <2>0, <4>1, <5>1, <5>7 DEF Replayed
        <5>9. Awake(f)'
          <6>1. CASE unrung > 0 \/ wake[f]
            BY <2>0, <4>1, <6>1 DEF Awake
          <6>2. CASE ~(unrung > 0 \/ wake[f])
            <7>1. \A s \in rows : s <= through[f] \/ s <= sequence[f]
              BY <4>1, <6>2 DEF Awake
            <7>2. \A s \in rows : s <= through[f] \/ s <= top
              BY <5>2, <7>1
            <7>3. at'[f] # at[f] => \A s \in rows : s <= top
              BY <1>2, <1>3, <5>1, <5>7, <7>2
            <7> QED BY <2>0, <4>1, <5>1, <7>2, <7>3 DEF Awake
          <6> QED BY <6>1, <6>2
        <5> QED BY <5>3, <5>6, <5>8, <5>9 DEF Kept
      <4> QED BY <4>4, <4>5
    <3>5. CASE Deliver(f)
      <4>1. PICK s \in buffer[f] : /\ \A t \in buffer[f] : s <= t
                                   /\ buffer' = [buffer EXCEPT ![f] = @ \ {s}]
                                   /\ out' = [out EXCEPT ![f] = Append(@, s)]
                                   /\ seen' = [seen EXCEPT ![f] = s]
                                   /\ UNCHANGED <<at, wake, sequence, through, start>>
        BY <3>5 DEF Deliver
      <4>2. /\ buffer'[f] = buffer[f] \ {s} /\ out'[f] = Append(out[f], s) /\ seen'[f] = s
            /\ at' = at /\ sequence' = sequence /\ at[f] # "off" /\ wake' = wake
            /\ through' = through /\ start' = start
        BY <1>1, <4>1 DEF Ordered
      <4>3. /\ s \in Readable /\ seen[f] < s /\ s <= sequence[f] /\ s \in Int /\ s \in Numbers
        BY <1>1, <1>2, <2>00, <4>1, <4>2 DEF Buffered
      <4>4. ToSet(out'[f]) = ToSet(out[f]) \cup {s}
        BY <1>1, <4>2, <4>3, Grown
      <4>5. ASSUME NEW t \in Readable, seen[f] < t, t <= s PROVE t = s
        <5>1. t \in Int /\ t <= sequence[f]
          <6>1. t \in Int /\ s \in Int /\ sequence[f] \in Int
            BY <2>f, <2>i, <4>3, <4>5
          <6>2. t <= s /\ s <= sequence[f]
            BY <4>3, <4>5
          <6> QED BY <6>1, <6>2
        <5>2. t \in buffer[f]
          BY <4>2, <4>5, <5>1 DEF Buffered
        <5> QED BY <4>1, <4>3, <4>5, <5>1, <5>2
      <4>6. Given(f)'
        <5>1. ASSUME NEW t \in Readable
              PROVE  start[f] < t /\ t <= s <=> (start[f] < t /\ t <= seen[f]) \/ t = s
          <6>1. /\ t \in Int /\ s \in Int /\ seen[f] \in Int /\ start[f] \in Int
                /\ start[f] <= seen[f] /\ seen[f] < s
            BY <2>f, <2>i, <4>3 DEF Bounded
          <6>2. seen[f] < t /\ t <= s => t = s
            BY <4>5, <5>1
          <6> QED BY <6>1, <6>2
        <5> QED BY <2>00, <4>2, <4>3, <4>4, <5>1 DEF Given
      <4>7. Bounded(f)'
        BY <1>2, <1>3, <2>0, <4>2, <4>3 DEF Bounded
      <4>8. Buffered(f)'
        <5>1. ASSUME NEW t \in Readable, t <= sequence[f]
              PROVE  s < t <=> seen[f] < t /\ t # s
          <6>1. t \in Int /\ s \in Int /\ seen[f] \in Int /\ seen[f] < s
            BY <2>f, <2>i, <4>3, <5>1
          <6>2. seen[f] < t /\ t <= s => t = s
            BY <4>5, <5>1
          <6> QED BY <6>1, <6>2
        <5>2. buffer'[f] = {t \in Readable : s < t /\ t <= sequence[f]}
          BY <4>2, <5>1 DEF Buffered
        <5>3. ASSUME NEW t \in rows, t <= s PROVE t <= sequence[f]
          <6>1. t \in Int /\ s \in Int /\ sequence[f] \in Int /\ s <= sequence[f]
            BY <2>f, <2>i, <4>3
          <6> QED BY <5>3, <6>1
        <5> QED BY <2>0, <2>00, <4>2, <5>2, <5>3 DEF Buffered
      <4> QED BY <2>0, <4>2, <4>6, <4>7, <4>8 DEF Kept, Replayed, Awake
    <3>6. CASE Mark(f)
      <4>1. /\ at[f] = "marking" /\ at'[f] = "live" /\ buffer[f] = {} /\ buffer'[f] = {}
            /\ sequence'[f] = sequence[f] /\ out'[f] = out[f] /\ start'[f] = start[f]
            /\ through'[f] = through[f] /\ wake'[f] = wake[f]
            /\ seen'[f] = IF through[f] > seen[f] THEN through[f] ELSE seen[f]
        BY <1>1, <3>6 DEF Mark
      <4>2. seen[f] <= seen'[f] /\ seen'[f] \in Int /\ seen'[f] <= latest
        BY <1>3, <4>1 DEF Bounded
      <4>3. \A s \in rows : s <= seen'[f] => s <= sequence[f]
        BY <1>3, <4>1 DEF Replayed, Buffered
      <4>4. \A s \in Readable : s <= seen'[f] <=> s <= seen[f]
        <5>1. ASSUME NEW s \in Readable, s <= seen'[f] PROVE s <= seen[f]
          <6>1. s <= sequence[f] /\ s \in Int
            BY <1>2, <2>00, <4>3, <5>1
          <6> QED BY <1>3, <4>1, <5>1, <6>1 DEF Buffered
        <5>2. ASSUME NEW s \in Readable, s <= seen[f] PROVE s <= seen'[f]
          BY <1>2, <1>3, <2>00, <4>2, <5>2
        <5> QED BY <5>1, <5>2
      <4>5. Given(f)'
        BY <2>00, <4>1, <4>4 DEF Given
      <4>6. Bounded(f)'
        BY <1>3, <2>0, <4>1, <4>2 DEF Bounded
      <4>7. Buffered(f)'
        <5>1. {s \in Readable : seen'[f] < s /\ s <= sequence[f]} = {}
          <6>1. ASSUME NEW s \in Readable, seen'[f] < s, s <= sequence[f] PROVE FALSE
            <7>1. seen[f] < s
              <8>1. s \in Int /\ seen[f] \in Int /\ seen'[f] \in Int /\ seen[f] <= seen'[f]
                BY <2>f, <2>i, <4>2, <6>1
              <8> QED BY <6>1, <8>1
            <7> QED BY <4>1, <6>1, <7>1 DEF Buffered
          <6> QED BY <6>1
        <5> QED BY <2>0, <2>00, <4>1, <4>3, <5>1 DEF Buffered
      <4>8. Awake(f)' /\ Replayed(f)'
        BY <2>0, <4>1 DEF Awake, Replayed
      <4> QED BY <4>5, <4>6, <4>7, <4>8 DEF Kept
    <3>7. CASE Wake(f)
      <4>1. /\ at[f] = "live" /\ at'[f] = "woken" /\ through'[f] = through[f]
            /\ sequence'[f] = sequence[f] /\ buffer'[f] = buffer[f]
            /\ seen'[f] = seen[f] /\ start'[f] = start[f] /\ out'[f] = out[f]
        BY <1>1, <3>7 DEF Wake, clients
      <4> QED BY <2>0, <2>00, <4>1 DEF Kept, Given, Bounded, Buffered, Replayed, Awake
    <3>8. CASE Latest(f)
      <4>1. /\ at[f] = "woken" /\ sequence'[f] = sequence[f] /\ buffer'[f] = buffer[f]
            /\ seen'[f] = seen[f] /\ start'[f] = start[f] /\ out'[f] = out[f]
            /\ \/ at'[f] = "tailing" /\ through'[f] = latest
               \/ at'[f] = "live" /\ through'[f] = through[f] /\ latest <= sequence[f]
        BY <1>1, <3>8 DEF Latest, clients
      <4>2. \A s \in rows : s <= latest
        BY DEF Rows
      <4>3. ASSUME latest <= sequence[f], NEW s \in rows PROVE s <= sequence[f]
        <5>1. s \in Int /\ latest \in Int /\ sequence[f] \in Int /\ s <= latest
          BY <1>2, <2>f, <2>i, <4>2
        <5> QED BY <4>3, <5>1
      <4>4. Awake(f)' /\ Replayed(f)'
        BY <2>0, <4>1, <4>2, <4>3 DEF Awake, Replayed
      <4>5. Given(f)' /\ Bounded(f)' /\ Buffered(f)'
        BY <1>2, <2>0, <2>00, <4>1 DEF Given, Bounded, Buffered
      <4> QED BY <4>4, <4>5 DEF Kept
    <3>9. CASE Disconnect(f)
      <4>1. /\ at'[f] = "off" /\ sequence'[f] = sequence[f] /\ through'[f] = through[f]
            /\ seen'[f] = seen[f] /\ start'[f] = start[f] /\ out'[f] = out[f]
        BY <1>1, <3>9 DEF Disconnect, Close, clients
      <4> QED BY <1>5, <2>0, <4>1
    <3> QED BY <1>12, <3>1, <3>2, <3>3, <3>4, <3>5, <3>6, <3>7, <3>8, <3>9 DEF Follow
  <2> QED BY <2>1, <2>2
<1> QED BY <1>6, <1>7, <1>8, <1>9, <1>10, <1>11, <1>12 DEF Next

\* Numbers are given one after another.
LEMMA ContiguousStep ==
  ASSUME TypeOK, Rows, [Next]_vars, ~removed', Contiguous
  PROVE  Contiguous'
<1>1. latest \in Int /\ -1 <= latest /\ rows \subseteq Nat /\ ParentSeq \in Nat /\ ~removed
  <2>1. latest \in Cursors /\ rows \subseteq Numbers
    BY DEF TypeOK
  <2>2. removed => removed'
    BY DEF Next, vars, log, Publish, Fork, Ring, RemoveAll, Crash, Watermark, Connect, Follow,
           Target, ReadPage, Deliver, Mark, Wake, Latest, Disconnect
  <2> QED BY <2>1, <2>2, BoundAssumption, ParentAssumption DEF Cursors, Numbers
<1>2. CASE UNCHANGED <<latest, rows>>
  BY <1>1, <1>2 DEF Contiguous
<1>3. CASE Publish
  <2>1. PICK n \in 1..MaxBatch : \E h \in SUBSET (latest + 1 .. latest + n) : Store(n, h)
    BY <1>3 DEF Publish
  <2>2. latest' = latest + n /\ rows' = rows \cup (latest + 1 .. latest + n) /\ n \in Nat
    BY <2>1 DEF Store
  <2>3. CASE rows = 0 .. latest
    BY <1>1, <2>2, <2>3 DEF Contiguous
  <2>4. CASE ParentSeq <= latest /\ rows = {0} \cup (ParentSeq + 1 .. latest)
    BY <1>1, <2>2, <2>4 DEF Contiguous
  <2> QED BY <1>1, <2>3, <2>4 DEF Contiguous
<1>4. CASE Fork
  BY <1>1, <1>4 DEF Fork, Contiguous
<1>5. CASE RemoveAll
  BY <1>5 DEF RemoveAll
<1> QED
  BY <1>2, <1>3, <1>4, <1>5
  DEF Next, vars, log, Ring, Crash, Watermark, Connect, Follow, Target, ReadPage, Deliver,
      Mark, Wake, Latest, Disconnect

\* The invariant holds in every reachable state.
THEOREM Inductive == Spec => []IInv
<1>1. IInv /\ [Next]_vars => IInv'
  <2> SUFFICES ASSUME IInv, [Next]_vars PROVE IInv'
    OBVIOUS
  <2>1. TypeOK /\ Rows /\ \A f \in Followers : Ordered(f)
    BY DEF IInv
  <2>2. TypeOK' /\ Rows'
    BY <2>1, TypeStep
  <2>3. \A f \in Followers : Ordered(f)'
    BY <2>1, <2>2, OrderedStep
  <2>4. ASSUME ~removed' PROVE ~removed
    BY <2>4 DEF Next, vars, log, Publish, Fork, Ring, RemoveAll, Crash, Watermark, Connect,
                Follow, Target, ReadPage, Deliver, Mark, Wake, Latest, Disconnect
  <2>5. ASSUME ~removed' PROVE Contiguous' /\ \A f \in Followers : Kept(f)'
    <3>1. Contiguous /\ \A f \in Followers : Kept(f)
      BY <2>4, <2>5 DEF IInv
    <3> QED BY <2>1, <2>2, <2>5, <3>1, ContiguousStep, KeptStep
  <2> QED BY <2>2, <2>3, <2>5, Zenon DEF IInv
<1> QED BY <1>1, InitIInv, PTL DEF Spec

\* The types of event.ts's log and streams, for every page size and length.
THEOREM Typing == Spec => []TypeOK
<1>1. IInv => TypeOK
  BY DEF IInv
<1> QED BY <1>1, Inductive, PTL

\* Clients are given exactly what their cursors say, whatever the pages, the wakes
\* and the crashes (log and readThrough of event.ts).
THEOREM Complete == Spec => []NothingMissed
<1>1. IInv => NothingMissed
  BY DEF IInv, Kept, Given, NothingMissed
<1> QED BY <1>1, Inductive, PTL

\* Clients are given events in the order of their numbers, none of them twice.
THEOREM Sorted == Spec => []InOrder
<1>1. IInv => InOrder
  BY DEF IInv, Ordered, InOrder
<1> QED BY <1>1, Inductive, PTL

\* The numbers of the stored events have no gap but the inherited one.
THEOREM NoGaps == Spec => []Contiguous
<1>1. IInv => Contiguous
  <2>1. removed => Contiguous
    BY DEF Contiguous
  <2> QED BY <2>1 DEF IInv
<1> QED BY <1>1, Inductive, PTL

\* No wake of a waiting stream is lost.
THEOREM WakesKept == Spec => []WakeKept
<1>1. IInv => WakeKept
  BY DEF IInv, Kept, Awake, WakeKept
<1> QED BY <1>1, Inductive, PTL

-----------------------------------------------------------------------------
(* The live path (EventFeed).  What is stored is owed to the feed, which   *)
(* is a specification of its own: nothing is assumed of the log here.      *)

\* The bounds' assumptions, under one name.
FeedAssumptions == Capacity \in Nat \ {0} /\ MaxEvents \in Nat /\ BatchLimit \in Nat \ {0}

LEMMA FeedAssumed == FeedAssumptions
BY CapacityAssumption, FeedBoundAssumption DEF FeedAssumptions

Stored == 1 .. Len(kinds)
Owes(p) == ToSet(todo[p])

\* Where a publisher is, against what it owes: one event outside a batch.
Staged ==
  \A p \in Publishers :
    /\ stage[p] = "idle" <=> todo[p] = <<>>
    /\ stage[p] = "idle" => ~batch[p]
    /\ ~batch[p] => Len(todo[p]) <= 1
    /\ stage[p] = "encoding" => kinds[todo[p][1]] = "public"

\* An event is owed by one publisher, and once.
Turns ==
  /\ \A p \in Publishers : Owes(p) \subseteq Stored /\ IsInjective(todo[p])
  /\ \A p, q \in Publishers : p # q => Owes(p) \cap Owes(q) = {}

\* An event is offered once, a public one, and no longer owed then.
OfferedOnce ==
  /\ IsInjective(offered)
  /\ \A e \in ToSet(offered) : e \in Stored /\ kinds[e] = "public" /\ e \notin Owed

\* What a connection was sent lies in what was offered, place by place.
Run(c) == conn[c] # "closed" =>
  /\ since[c] + Len(Sent(c)) <= Len(offered)
  /\ conn[c] = "open" => since[c] + Len(Sent(c)) = Len(offered)
  /\ \A i \in 1 .. Len(Sent(c)) : Sent(c)[i] = offered[since[c] + i]

FeedIInv ==
  /\ FeedAssumptions /\ FeedTypeOK
  /\ Staged /\ Turns /\ OfferedOnce
  /\ \A c \in Connections : Run(c)
  /\ NoSilentGap

-----------------------------------------------------------------------------
(* Sequences.                                                              *)

LEMMA Appended ==
  ASSUME NEW S, NEW s \in Seq(S), NEW e \in S
  PROVE  /\ Append(s, e) \in Seq(S) /\ Len(Append(s, e)) = Len(s) + 1
         /\ \A i \in 1 .. Len(s) : Append(s, e)[i] = s[i]
         /\ Append(s, e)[Len(s) + 1] = e
         /\ ToSet(Append(s, e)) = ToSet(s) \cup {e}
         /\ IsInjective(s) /\ e \notin ToSet(s) => IsInjective(Append(s, e))
<1>1. /\ Append(s, e) \in Seq(S) /\ Len(Append(s, e)) = Len(s) + 1 /\ Len(s) \in Nat
      /\ \A i \in 1 .. Len(s) : Append(s, e)[i] = s[i]
      /\ Append(s, e)[Len(s) + 1] = e
  OBVIOUS
<1>2. DOMAIN s = 1 .. Len(s) /\ DOMAIN Append(s, e) = 1 .. Len(s) + 1
  BY <1>1, LenProperties
<1> DEFINE t == Append(s, e)
<1> HIDE DEF t
<1>3. ToSet(t) = ToSet(s) \cup {e}
  <2>1. \A x \in ToSet(t) : x \in ToSet(s) \cup {e}
    BY <1>1, <1>2 DEF ToSet, t
  <2>2. \A x \in ToSet(s) : x \in ToSet(t)
    BY <1>1, <1>2 DEF ToSet, t
  <2>3. e \in ToSet(t)
    BY <1>1, <1>2 DEF ToSet, t
  <2> QED BY <2>1, <2>2, <2>3
<1>4. ASSUME IsInjective(s), e \notin ToSet(s) PROVE IsInjective(t)
  <2>1. \A i \in 1 .. Len(s) : s[i] \in ToSet(s)
    BY <1>2 DEF ToSet
  <2> QED BY <1>1, <1>2, <1>4, <2>1 DEF IsInjective, t
<1> QED BY <1>1, <1>3, <1>4 DEF t

LEMMA Shortened ==
  ASSUME NEW S, NEW s \in Seq(S), s # <<>>, IsInjective(s)
  PROVE  /\ Head(s) = s[1] /\ s[1] \in ToSet(s) /\ Head(s) \in S
         /\ Len(s) \in Nat \ {0}
         /\ Tail(s) \in Seq(S) /\ Len(Tail(s)) = Len(s) - 1
         /\ IsInjective(Tail(s))
         /\ ToSet(Tail(s)) = ToSet(s) \ {Head(s)}
<1>1. /\ Head(s) = s[1] /\ Head(s) \in S /\ Len(s) \in Nat \ {0}
      /\ Tail(s) \in Seq(S) /\ Len(Tail(s)) = Len(s) - 1
      /\ \A i \in 1 .. Len(s) - 1 : Tail(s)[i] = s[i + 1]
  BY HeadTailProperties, EmptySeq
<1> DEFINE t == Tail(s)
<1>2. DOMAIN s = 1 .. Len(s) /\ DOMAIN t = 1 .. Len(s) - 1
  BY <1>1, LenProperties
<1>3. \A i, j \in 1 .. Len(s) : s[i] = s[j] => i = j
  BY <1>2 DEF IsInjective
<1> HIDE DEF t
<1>4. IsInjective(t)
  BY <1>1, <1>2, <1>3 DEF IsInjective, t
<1>5. \A x \in ToSet(t) : x \in ToSet(s) /\ x # s[1]
  BY <1>1, <1>2, <1>3 DEF ToSet, t
<1>6. ASSUME NEW x \in ToSet(s), x # s[1] PROVE x \in ToSet(t)
  <2>1. PICK i \in 1 .. Len(s) : x = s[i]
    BY <1>2 DEF ToSet
  <2>2. i - 1 \in 1 .. Len(s) - 1 /\ t[i - 1] = s[i]
    BY <1>1, <1>6, <2>1 DEF t
  <2> QED BY <1>2, <2>1, <2>2 DEF ToSet
<1>7. s[1] \in ToSet(s)
  BY <1>1, <1>2 DEF ToSet
<1> QED BY <1>1, <1>4, <1>5, <1>6, <1>7 DEF t

LEMMA NoneIn == ToSet(<<>>) = {} /\ IsInjective(<<>>)
  BY DEF ToSet, IsInjective

LEMMA SentType == ASSUME FeedTypeOK, NEW c \in Connections
                  PROVE  Sent(c) \in Seq(Events) /\ Len(Sent(c)) \in Nat
  BY ConcatProperties, LenProperties DEF FeedTypeOK, Sent

\* An injective sequence over the stored events is no longer than they are many.
LEMMA OfferedBound ==
  ASSUME NEW n \in Nat, NEW s \in Seq(Events), IsInjective(s), ToSet(s) \subseteq 1 .. n
  PROVE  Len(s) <= n
<1>1. Len(s) \in Nat /\ DOMAIN s = 1 .. Len(s)
  BY LenProperties
<1>2. s \in [1 .. Len(s) -> 1 .. n]
  BY <1>1, LenProperties DEF ToSet
<1>3. \A i, j \in 1 .. Len(s) : s[i] = s[j] => i = j
  BY <1>1 DEF IsInjective
<1>4. ASSUME NEW m \in Nat PROVE IsFiniteSet(1 .. m) /\ Cardinality(1 .. m) = m
  <2>1. IsFiniteSet(1 .. m) /\ Cardinality(1 .. m) = IF 1 > m THEN 0 ELSE m - 1 + 1
    BY FS_Interval
  <2> QED BY <2>1
<1>5. ASSUME Cardinality(1 .. n) < Cardinality(1 .. Len(s)) PROVE FALSE
  <2> DEFINE S == 1 .. Len(s)  T == 1 .. n
  <2>1. IsFiniteSet(S) /\ IsFiniteSet(T) /\ s \in [S -> T] /\ Cardinality(T) < Cardinality(S)
    BY <1>1, <1>2, <1>4, <1>5
  <2> HIDE DEF S, T
  <2>2. \E x, y \in S : x # y /\ s[x] = s[y]
    BY <2>1, FS_PigeonHole
  <2> QED BY <1>3, <2>2 DEF S
<1> QED BY <1>1, <1>4, <1>5

-----------------------------------------------------------------------------
(* Publishers: what a step makes of the events that are owed.              *)

\* Every publisher but p is where it was.
Else(p) == \A q \in Publishers \ {p} : todo'[q] = todo[q] /\ stage'[q] = stage[q] /\ batch'[q] = batch[q]

\* What the invariants ask of p alone.
Fine(p) ==
  /\ todo[p] \in Seq(Events) /\ batch[p] \in BOOLEAN
  /\ stage[p] \in {"idle", "owed", "encoding", "failing"}
  /\ stage[p] = "idle" <=> todo[p] = <<>>
  /\ stage[p] = "idle" => ~batch[p]
  /\ ~batch[p] => Len(todo[p]) <= 1
  /\ stage[p] = "encoding" => kinds[todo[p][1]] = "public"
  /\ Owes(p) \subseteq Stored /\ IsInjective(todo[p])

LEMMA IsFine == ASSUME FeedTypeOK, Staged, Turns, NEW p \in Publishers PROVE Fine(p)
  BY DEF FeedTypeOK, Staged, Turns, Fine

\* The publishing variables are functions on the publishers.
Shaped == /\ todo \in [Publishers -> Seq(Events)] /\ batch \in [Publishers -> BOOLEAN]
          /\ stage \in [Publishers -> {"idle", "owed", "encoding", "failing"}]

LEMMA Passed ==
  ASSUME FeedTypeOK, Staged, Turns, NEW p \in Publishers, stage[p] # "idle", Pass(p), UNCHANGED kinds
  PROVE  /\ Else(p) /\ Fine(p)' /\ Shaped'
         /\ Head(todo[p]) \in Owes(p) /\ Head(todo[p]) \in Events /\ Head(todo[p]) = todo[p][1]
         /\ Owes(p)' = Owes(p) \ {Head(todo[p])}
<1> DEFINE s == todo[p]
<1>1. Fine(p)
  BY IsFine
<1>2. s \in Seq(Events) /\ s # <<>> /\ IsInjective(s)
  BY <1>1 DEF Fine
<1>3. /\ Head(s) = s[1] /\ s[1] \in ToSet(s) /\ Head(s) \in Events
      /\ Len(s) \in Nat \ {0}
      /\ Tail(s) \in Seq(Events) /\ Len(Tail(s)) = Len(s) - 1
      /\ IsInjective(Tail(s))
      /\ ToSet(Tail(s)) = ToSet(s) \ {Head(s)}
  BY <1>2, Shortened
<1>4. /\ todo'[p] = Tail(s)
      /\ stage'[p] = (IF Len(s) = 1 THEN "idle" ELSE "owed")
      /\ batch'[p] = (batch[p] /\ Len(s) > 1)
  BY DEF Pass, FeedTypeOK
<1>5. Else(p)
  BY DEF Pass, FeedTypeOK, Else
<1>6. Shaped'
  BY <1>3 DEF Pass, FeedTypeOK, Shaped
<1>7. Fine(p)'
  <2> HIDE DEF s
  <2>1. Tail(s) = <<>> <=> Len(s) = 1
    <3>1. Tail(s) = <<>> => Len(Tail(s)) = 0
      <4>1. Len(<<>>) = 0
        OBVIOUS
      <4> QED BY <4>1
    <3>2. Tail(s) # <<>> => Len(Tail(s)) # 0
      BY <1>3, EmptySeq
    <3> QED BY <1>3, <3>1, <3>2
  <2>2. ~batch'[p] => Len(s) = 1
    <3>1. CASE Len(s) > 1
      <4>1. batch'[p] = batch[p]
        BY <1>1, <1>4, <3>1, Zenon DEF Fine
      <4>2. batch[p]
        BY <1>1, <1>3, <3>1 DEF Fine, s
      <4> QED BY <4>1, <4>2
    <3>2. CASE ~(Len(s) > 1)
      BY <1>3, <3>2
    <3> QED BY <3>1, <3>2
  <2>3. Stored' = Stored
    BY DEF Stored
  <2>4. todo'[p] \in Seq(Events) /\ batch'[p] \in BOOLEAN /\ stage'[p] \in {"idle", "owed"}
    BY <1>3, <1>4
  <2>5. (stage'[p] = "idle" <=> todo'[p] = <<>>) /\ (stage'[p] = "idle" => ~batch'[p])
    <3>1. CASE Len(s) = 1
      <4>1. ~(Len(s) > 1)
        BY <3>1
      <4>2. ~batch'[p]
        BY <1>4, <4>1, Zenon
      <4> QED BY <1>4, <2>1, <3>1, <4>2
    <3>2. CASE Len(s) # 1
      BY <1>4, <2>1, <3>2
    <3> QED BY <3>1, <3>2
  <2>6. ~batch'[p] => Len(todo'[p]) <= 1
    BY <1>3, <1>4, <2>2
  <2>7. ToSet(todo'[p]) \subseteq Stored' /\ IsInjective(todo'[p])
    BY <1>1, <1>3, <1>4, <2>3 DEF Fine, Owes, s
  <2> QED BY <2>4, <2>5, <2>6, <2>7 DEF Fine, Owes, Events, Stored
<1> QED BY <1>3, <1>4, <1>5, <1>6, <1>7 DEF Owes

LEMMA Interrupted ==
  ASSUME FeedTypeOK, Staged, Turns, NEW p \in Publishers, Interrupt(p)
  PROVE  /\ Else(p) /\ Fine(p)' /\ Shaped'
         /\ Head(todo[p]) \in Events /\ Owes(p) = {Head(todo[p])} /\ Owes(p)' = {}
<1> DEFINE s == todo[p]
<1>1. Fine(p) /\ stage[p] # "idle" /\ ~batch[p]
  BY IsFine DEF Interrupt
<1>2. s \in Seq(Events) /\ s # <<>> /\ Len(s) <= 1
  BY <1>1 DEF Fine
<1>3. Len(s) = 1 /\ Head(s) = s[1] /\ Head(s) \in Events
  <2> HIDE DEF s
  <2>1. Len(s) \in Nat \ {0}
    BY <1>2, EmptySeq
  <2>2. Head(s) = s[1] /\ Head(s) \in Events
    BY <1>2, HeadTailProperties
  <2>3. Len(s) = 1
    <3> DEFINE n == Len(s)
    <3>1. n \in Nat \ {0} /\ n <= 1
      BY <1>2, <2>1
    <3> HIDE DEF n
    <3>2. n = 1
      BY <3>1
    <3> QED BY <3>2 DEF n
  <2> QED BY <2>2, <2>3, Zenon
<1>4. DOMAIN s = {1}
  BY <1>2, <1>3, LenProperties
<1>5. todo'[p] = <<>> /\ stage'[p] = "idle" /\ batch'[p] = batch[p]
  BY DEF Interrupt, FeedTypeOK
<1>6. Else(p)
  BY DEF Interrupt, FeedTypeOK, Else
<1>7. Shaped'
  BY DEF Interrupt, FeedTypeOK, Shaped
<1>8. <<>> \in Seq(Events) /\ Len(<<>>) = 0
  OBVIOUS
<1>9. Fine(p)'
  BY <1>1, <1>5, <1>8, NoneIn DEF Fine, Owes
<1> QED BY <1>3, <1>4, <1>5, <1>6, <1>7, <1>9, NoneIn DEF Owes, ToSet

LEMMA Encoded ==
  ASSUME FeedTypeOK, Staged, Turns, NEW p \in Publishers, Encode(p)
  PROVE  Else(p) /\ Fine(p)' /\ Shaped' /\ UNCHANGED todo
<1>1. Fine(p) /\ stage[p] # "idle"
  BY IsFine DEF Encode
<1>2. Head(todo[p]) = todo[p][1]
  BY <1>1, HeadTailProperties DEF Fine
<1>3. stage'[p] \in {"encoding", "failing"} /\ (stage'[p] = "encoding" => kinds[todo[p][1]] = "public")
  BY <1>2 DEF Encode, FeedTypeOK
<1>4. Stored' = Stored /\ UNCHANGED <<todo, batch, kinds>>
  BY DEF Encode, Stored
<1>5. Fine(p)'
  BY <1>1, <1>3, <1>4 DEF Fine, Owes, Events
<1> QED BY <1>5 DEF Encode, FeedTypeOK, Else, Shaped

LEMMA Stores ==
  ASSUME FeedAssumptions, FeedTypeOK, Staged, Turns, NEW p \in Publishers, PublishEvents(p)
  PROVE  /\ Else(p) /\ Fine(p)' /\ Shaped'
         /\ Owes(p) = {} /\ Owes(p)' = Stored' \ Stored
         /\ kinds' \in Seq(Kinds) /\ Len(kinds') <= MaxEvents
         /\ Stored \subseteq Stored' /\ \A e \in Stored : kinds'[e] = kinds[e]
<1>1. stage[p] = "idle" /\ kinds \in Seq(Kinds) /\ Len(kinds) \in Nat
  BY LenProperties DEF PublishEvents, FeedTypeOK
<1>2. PICK n \in 1 .. BatchLimit : \E ks \in [1 .. n -> Kinds], b \in BOOLEAN :
        /\ Len(kinds) + n <= MaxEvents /\ (b \/ n = 1)
        /\ kinds' = kinds \o ks
        /\ todo' = [todo EXCEPT ![p] = [i \in 1 .. n |-> Len(kinds) + i]]
        /\ batch' = [batch EXCEPT ![p] = b]
  BY DEF PublishEvents
<1>0. PICK ks \in [1 .. n -> Kinds], b \in BOOLEAN :
        /\ Len(kinds) + n <= MaxEvents /\ (b \/ n = 1)
        /\ kinds' = kinds \o ks
        /\ todo' = [todo EXCEPT ![p] = [i \in 1 .. n |-> Len(kinds) + i]]
        /\ batch' = [batch EXCEPT ![p] = b]
  BY <1>2
<1>3. n \in Nat \ {0}
  BY DEF FeedAssumptions
<1>4. ks \in Seq(Kinds) /\ Len(ks) = n
  BY <1>3
<1>5. /\ kinds' \in Seq(Kinds) /\ Len(kinds') = Len(kinds) + n
      /\ \A i \in 1 .. Len(kinds) : kinds'[i] = kinds[i]
  <2>1. /\ kinds \o ks \in Seq(Kinds) /\ Len(kinds \o ks) = Len(kinds) + Len(ks)
        /\ \A i \in 1 .. Len(kinds) + Len(ks) : (kinds \o ks)[i] =
             IF i <= Len(kinds) THEN kinds[i] ELSE ks[i - Len(kinds)]
    BY <1>1, <1>4, ConcatProperties
  <2>2. \A i \in 1 .. Len(kinds) : i \in 1 .. Len(kinds) + n /\ i <= Len(kinds)
    BY <1>1, <1>3
  <2> QED BY <1>0, <1>4, <2>1, <2>2
<1> DEFINE s == [i \in 1 .. n |-> Len(kinds) + i]
<1>6. s \in Seq(Events) /\ Len(s) = n
  BY <1>0, <1>1, <1>3 DEF Events, FeedAssumptions
<1>7. IsInjective(s) /\ ToSet(s) = Stored' \ Stored
  <2>1. DOMAIN s = 1 .. n
    OBVIOUS
  <2>2. \A i \in 1 .. n : s[i] = Len(kinds) + i
    OBVIOUS
  <2> HIDE DEF s
  <2>3. IsInjective(s)
    BY <1>1, <1>3, <2>1, <2>2 DEF IsInjective
  <2>4. \A e \in ToSet(s) : e \in Stored' \ Stored
    BY <1>1, <1>3, <1>5, <2>1, <2>2 DEF ToSet, Stored
  <2>5. ASSUME NEW e \in Stored' \ Stored PROVE e \in ToSet(s)
    <3>1. e - Len(kinds) \in 1 .. n /\ s[e - Len(kinds)] = e
      BY <1>1, <1>3, <1>5, <2>2 DEF Stored
    <3> QED BY <2>1, <3>1 DEF ToSet
  <2> QED BY <2>3, <2>4, <2>5
<1>8. todo'[p] = s /\ stage'[p] = "owed" /\ batch'[p] = b
  BY <1>0 DEF PublishEvents, FeedTypeOK
<1>9. s # <<>>
  BY <1>3, <1>6
<1> HIDE DEF s
<1>10. Fine(p)'
  <2>1. (stage'[p] = "idle" <=> todo'[p] = <<>>) /\ stage'[p] # "encoding"
    BY <1>8, <1>9
  <2>2. ~b => Len(s) <= 1
    BY <1>0, <1>6
  <2>3. ToSet(todo'[p]) \subseteq Stored' /\ IsInjective(todo'[p]) /\ todo'[p] \in Seq(Events)
    BY <1>6, <1>7, <1>8
  <2> QED BY <1>8, <2>1, <2>2, <2>3 DEF Fine, Owes, Events, Stored
<1>11. Else(p) /\ Shaped'
  BY <1>0, <1>6 DEF PublishEvents, FeedTypeOK, Else, Shaped, s
<1>12. Owes(p) = {}
  BY <1>1, NoneIn DEF Staged, Owes
<1>13. Stored \subseteq Stored' /\ Len(kinds') <= MaxEvents
  BY <1>0, <1>1, <1>3, <1>5 DEF Stored
<1> QED BY <1>5, <1>7, <1>8, <1>10, <1>11, <1>12, <1>13 DEF Owes, Stored

Turn(p) ==
  /\ Else(p) /\ Fine(p)' /\ Shaped'
  /\ kinds' \in Seq(Kinds) /\ Len(kinds') <= MaxEvents
  /\ Stored \subseteq Stored' /\ \A e \in Stored : kinds'[e] = kinds[e]
  /\ Owes(p)' \subseteq Owes(p) \cup (Stored' \ Stored)

Turning == UNCHANGED publishing \/ \E p \in Publishers : Turn(p)

LEMMA Turned ==
  ASSUME FeedAssumptions, FeedTypeOK, Staged, Turns, [FeedNext]_feedVars
  PROVE  Turning
<1>1. CASE UNCHANGED publishing
  BY <1>1 DEF Turning
<1>2. ASSUME NEW p \in Publishers, PublishEvents(p) PROVE Turn(p)
  BY <1>2, Stores DEF Turn
<1>3. ASSUME NEW p \in Publishers, Notify(p) \/ Interrupt(p) PROVE Turn(p)
  <2>1. UNCHANGED kinds
    BY <1>3 DEF Notify, Skip, Encode, Offer, Fail, Interrupt
  <2>2. Else(p) /\ Fine(p)' /\ Shaped' /\ Owes(p)' \subseteq Owes(p)
    <3>1. CASE Encode(p)
      BY <3>1, Encoded DEF Owes
    <3>2. CASE Interrupt(p)
      BY <3>2, Interrupted
    <3>3. CASE Skip(p) \/ Offer(p) \/ Fail(p)
      BY <2>1, <3>3, Passed DEF Skip, Offer, Fail
    <3> QED BY <1>3, <3>1, <3>2, <3>3 DEF Notify
  <2>3. kinds' \in Seq(Kinds) /\ Len(kinds') <= MaxEvents
    BY <2>1 DEF FeedTypeOK
  <2>4. Stored \subseteq Stored' /\ \A e \in Stored : kinds'[e] = kinds[e]
    BY <2>1 DEF Stored
  <2> QED BY <2>2, <2>3, <2>4 DEF Turn
<1> QED BY <1>1, <1>2, <1>3 DEF FeedNext, feedVars, Beat, Subscribe, Pull, Release, Turning

LEMMA OwedIs == \A e : e \in Owed <=> \E p \in Publishers : e \in Owes(p)
  BY DEF Owed, Owes

LEMMA FinePart == ASSUME NEW p \in Publishers, Fine(p)
                  PROVE  stage[p] = "encoding" => todo[p][1] \in Owes(p)
<1> SUFFICES ASSUME stage[p] = "encoding" PROVE todo[p][1] \in Owes(p)
  OBVIOUS
<1>1. todo[p] \in Seq(Events) /\ todo[p] # <<>> /\ IsInjective(todo[p])
  BY DEF Fine
<1> QED BY <1>1, Shortened DEF Owes

LEMMA TurnsStep ==
  ASSUME FeedAssumptions, FeedTypeOK, Staged, Turns, Turning
  PROVE  Staged' /\ Turns' /\ Shaped' /\ kinds' \in Seq(Kinds) /\ Len(kinds') <= MaxEvents
<1>1. CASE UNCHANGED publishing
  BY <1>1 DEF publishing, Staged, Turns, Shaped, FeedTypeOK, Owes, Stored, Events, Kinds
<1>2. ASSUME NEW p \in Publishers, Turn(p)
      PROVE  Staged' /\ Turns' /\ Shaped' /\ kinds' \in Seq(Kinds) /\ Len(kinds') <= MaxEvents
  <2>1. ASSUME NEW q \in Publishers PROVE Fine(q)'
    <3>1. CASE q = p
      BY <1>2, <3>1 DEF Turn
    <3>2. CASE q # p
      <4>1. Fine(q)
        BY IsFine
      <4>2. todo'[q] = todo[q] /\ stage'[q] = stage[q] /\ batch'[q] = batch[q]
        BY <1>2, <3>2 DEF Turn, Else
      <4>3. Stored \subseteq Stored' /\ (stage[q] = "encoding" => kinds'[todo[q][1]] = kinds[todo[q][1]])
        BY <1>2, <4>1, FinePart DEF Turn, Fine
      <4> QED BY <4>1, <4>2, <4>3 DEF Fine, Owes, Events
    <3> QED BY <3>1, <3>2
  <2>2. Staged'
    BY <2>1 DEF Staged, Fine
  <2>3. ASSUME NEW q \in Publishers, NEW r \in Publishers, q # r PROVE Owes(q)' \cap Owes(r)' = {}
    <3>1. \A s \in Publishers \ {p} : Owes(s)' = Owes(s)
      BY <1>2 DEF Turn, Else, Owes
    <3>2. \A s \in Publishers : Owes(s) \subseteq Stored
      BY DEF Turns
    <3>3. Owes(q) \cap Owes(r) = {}
      BY <2>3 DEF Turns
    <3>4. Owes(p)' \subseteq Owes(p) \cup (Stored' \ Stored)
      BY <1>2 DEF Turn
    <3> QED BY <2>3, <3>1, <3>2, <3>3, <3>4
  <2>4. Turns'
    BY <2>1, <2>3 DEF Turns, Fine, Owes
  <2> QED BY <1>2, <2>2, <2>4 DEF Turn
<1> QED BY <1>1, <1>2 DEF Turning

\* What is owed: what was, and what has just been stored.
LEMMA OwedStep ==
  ASSUME FeedAssumptions, FeedTypeOK, Staged, Turns, Turning
  PROVE  /\ Owed' \subseteq Owed \cup (Stored' \ Stored)
         /\ Stored \subseteq Stored' /\ \A e \in Stored : kinds'[e] = kinds[e]
<1>1. CASE UNCHANGED publishing
  BY <1>1 DEF publishing, Owed, Stored
<1>2. ASSUME NEW p \in Publishers, Turn(p) PROVE Owed' \subseteq Owed \cup (Stored' \ Stored)
  <2>1. \A s \in Publishers \ {p} : Owes(s)' = Owes(s)
    BY <1>2 DEF Turn, Else, Owes
  <2>2. \A e : e \in Owed' <=> \E q \in Publishers : e \in Owes(q)'
    BY DEF Owed, Owes
  <2> QED BY <1>2, <2>1, <2>2, OwedIs DEF Turn
<1> QED BY <1>1, <1>2 DEF Turning, Turn

LEMMA OnceStep ==
  ASSUME FeedAssumptions, FeedTypeOK, Staged, Turns, OfferedOnce, [FeedNext]_feedVars
  PROVE  OfferedOnce' /\ offered' \in Seq(Events)
<1>1. Turning
  BY Turned
<1>2. CASE UNCHANGED offered
  <2>1. ASSUME NEW e \in ToSet(offered) PROVE e \in Stored' /\ kinds'[e] = "public" /\ e \notin Owed'
    BY <1>1, OwedStep DEF OfferedOnce
  <2> QED BY <1>2, <2>1 DEF OfferedOnce, FeedTypeOK, Events, ToSet
<1>3. ASSUME NEW p \in Publishers, Offer(p) PROVE OfferedOnce' /\ offered' \in Seq(Events)
  <2> DEFINE e == Head(todo[p])
  <2>1. /\ stage[p] = "encoding" /\ Pass(p) /\ UNCHANGED kinds /\ offered' = Append(offered, e)
    BY <1>3 DEF Offer
  <2>2. /\ Else(p) /\ e \in Owes(p) /\ e \in Events /\ e = todo[p][1] /\ Owes(p)' = Owes(p) \ {e}
    BY <2>1, Passed
  <2> HIDE DEF e
  <2>3. e \in Owed /\ e \in Stored /\ kinds[e] = "public"
    BY <2>1, <2>2, OwedIs, IsFine DEF Fine
  <2>4. e \notin Owed'
    <3>1. \A q \in Publishers \ {p} : Owes(q)' = Owes(q) /\ e \notin Owes(q)
      BY <2>2 DEF Else, Owes, Turns
    <3>2. \A x : x \in Owed' <=> \E q \in Publishers : x \in Owes(q)'
      BY DEF Owed, Owes
    <3> QED BY <2>2, <3>1, <3>2
  <2>5. offered \in Seq(Events) /\ IsInjective(offered) /\ e \notin ToSet(offered)
    BY <2>3 DEF FeedTypeOK, OfferedOnce
  <2>6. offered' \in Seq(Events) /\ IsInjective(offered') /\ ToSet(offered') = ToSet(offered) \cup {e}
    BY <2>1, <2>2, <2>5, Appended
  <2>7. ASSUME NEW x \in ToSet(offered') PROVE x \in Stored' /\ kinds'[x] = "public" /\ x \notin Owed'
    <3>1. CASE x = e
      BY <2>1, <2>3, <2>4, <3>1 DEF Stored
    <3>2. CASE x # e
      BY <1>1, <2>6, <2>7, <3>2, OwedStep DEF OfferedOnce
    <3> QED BY <3>1, <3>2
  <2> QED BY <2>6, <2>7 DEF OfferedOnce
<1>4. UNCHANGED offered \/ \E p \in Publishers : Offer(p)
  BY DEF FeedNext, feedVars, history, PublishEvents, Notify, Skip, Encode, Fail, Interrupt,
         Beat, Subscribe, Pull, Release, serving
<1> QED BY <1>2, <1>3, <1>4

-----------------------------------------------------------------------------
(* Connections: what a step makes of what one is sent.                     *)

\* Nothing: it may be failed, and may have read what was queued.
Same(c) ==
  /\ Sent(c)' = Sent(c) /\ since'[c] = since[c] /\ from'[c] = from[c]
  /\ conn'[c] = "open" => conn[c] = "open"
  /\ conn'[c] # "closed" => conn[c] # "closed"

\* It begins, after everything offered and stored so far.
Joined(c) == Sent(c)' = <<>> /\ since'[c] = Len(offered) /\ from'[c] = Len(kinds)

\* It gets the event and stays.
Fed(c, e) ==
  /\ conn[c] = "open" /\ conn'[c] = "open"
  /\ Sent(c)' = Append(Sent(c), e) /\ since'[c] = since[c] /\ from'[c] = from[c]

\* The event is offered: it is queued, or the connection is not registered then.
Served(c, e) == Fed(c, e) \/ (Same(c) /\ conn'[c] # "open")

\* The connections' variables have their types.
Serving ==
  /\ conn \in [Connections -> Conditions]
  /\ queue \in [Connections -> Seq(Events)]
  /\ beats \in [Connections -> Nat]
  /\ \A c \in Connections : Len(queue[c]) + beats[c] <= Capacity
  /\ got \in [Connections -> Seq(Events)]
  /\ since \in [Connections -> 0 .. MaxEvents]
  /\ from \in [Connections -> 0 .. MaxEvents]

LEMMA AppendedRight ==
  ASSUME NEW S, NEW s \in Seq(S), NEW t \in Seq(S), NEW e \in S
  PROVE  s \o Append(t, e) = Append(s \o t, e)
<1>1. <<e>> \in Seq(S) /\ s \o t \in Seq(S)
  BY ConcatProperties
<1>2. Append(t, e) = t \o <<e>> /\ Append(s \o t, e) = (s \o t) \o <<e>>
  BY <1>1, AppendIsConcat
<1>3. (s \o t) \o <<e>> = s \o (t \o <<e>>)
  BY <1>1, ConcatAssociative
<1> QED BY <1>2, <1>3

LEMMA Enqueued ==
  ASSUME FeedAssumptions, FeedTypeOK, NEW frame \in Events \cup {Heartbeat}, Enqueue(frame),
         UNCHANGED <<got, since, from>>
  PROVE  /\ Serving'
         /\ \A c \in Connections : IF frame = Heartbeat THEN Same(c) ELSE Served(c, frame)
<1> DEFINE cs == {c \in subscribers : ~Full(c)}
<1>1. conn' = [c \in Connections |-> IF c \in subscribers /\ Full(c) THEN "overflowed" ELSE conn[c]]
  BY DEF Enqueue
<1>2. conn' \in [Connections -> Conditions]
  BY <1>1 DEF FeedTypeOK, Conditions
<1>3. \A c \in Connections : c \in cs <=> conn[c] = "open" /\ Len(queue[c]) + beats[c] < Capacity
  <2>1. \A c \in Connections : Len(queue[c]) \in Nat /\ beats[c] \in Nat /\ Capacity \in Nat
    BY LenProperties DEF FeedTypeOK, FeedAssumptions
  <2> QED BY <2>1 DEF subscribers, Full
<1>4. \A c \in Connections : \/ c \in cs /\ conn[c] = "open" /\ conn'[c] = "open"
                             \/ /\ c \notin cs /\ conn'[c] # "open"
                                /\ conn'[c] # "closed" => conn[c] # "closed"
  BY <1>1 DEF subscribers
<1> HIDE DEF cs
<1>5. CASE frame = Heartbeat
  <2>1. /\ beats' = [c \in Connections |-> IF c \in cs THEN beats[c] + 1 ELSE beats[c]]
        /\ UNCHANGED queue
    BY <1>5 DEF Enqueue, Put, cs
  <2>2. \A c \in Connections : Len(queue'[c]) + beats'[c] <= Capacity
    <3>1. \A c \in Connections : Len(queue[c]) \in Nat /\ beats[c] \in Nat /\ Capacity \in Nat
      BY LenProperties DEF FeedTypeOK, FeedAssumptions
    <3> QED BY <1>3, <2>1, <3>1 DEF FeedTypeOK
  <2>3. beats' \in [Connections -> Nat]
    BY <2>1 DEF FeedTypeOK
  <2>4. Serving'
    BY <1>2, <2>1, <2>2, <2>3 DEF Serving, FeedTypeOK, Events, Conditions
  <2>5. \A c \in Connections : Same(c)
    BY <1>4, <2>1 DEF Same, Sent
  <2> QED BY <1>5, <2>4, <2>5
<1>6. CASE frame # Heartbeat
  <2>1. /\ queue' = [c \in Connections |-> IF c \in cs THEN Append(queue[c], frame) ELSE queue[c]]
        /\ UNCHANGED beats /\ frame \in Events
    BY <1>6 DEF Enqueue, Put, cs
  <2>2. \A c \in Connections : /\ Append(queue[c], frame) \in Seq(Events)
                               /\ Len(Append(queue[c], frame)) = Len(queue[c]) + 1
    BY <2>1 DEF FeedTypeOK
  <2>3. \A c \in Connections : Len(queue'[c]) + beats'[c] <= Capacity
    <3>1. \A c \in Connections : Len(queue[c]) \in Nat /\ beats[c] \in Nat /\ Capacity \in Nat
      BY LenProperties DEF FeedTypeOK, FeedAssumptions
    <3> QED BY <1>3, <2>1, <2>2, <3>1 DEF FeedTypeOK
  <2>4. queue' \in [Connections -> Seq(Events)]
    BY <2>1, <2>2 DEF FeedTypeOK
  <2>5. Serving'
    BY <1>2, <2>1, <2>3, <2>4 DEF Serving, FeedTypeOK, Events, Conditions
  <2>6. ASSUME NEW c \in Connections PROVE Served(c, frame)
    <3>1. CASE c \in cs
      <4>1. Sent(c)' = Append(Sent(c), frame)
        BY <2>1, <3>1, AppendedRight DEF Sent, FeedTypeOK
      <4> QED BY <1>4, <3>1, <4>1 DEF Served, Fed
    <3>2. CASE c \notin cs
      BY <1>4, <2>1, <3>2 DEF Served, Same, Sent
    <3> QED BY <3>1, <3>2
  <2> QED BY <1>6, <2>5, <2>6
<1> QED BY <1>5, <1>6

\* Every connection goes on, begins or ends; or one event is offered to them all.
Serve ==
  \/ UNCHANGED offered /\ \A c \in Connections : Same(c) \/ Joined(c) \/ conn'[c] = "closed"
  \/ \E e \in Events : offered' = Append(offered, e) /\ \A c \in Connections : Served(c, e)

LEMMA OfferServes ==
  ASSUME FeedAssumptions, FeedTypeOK, Staged, Turns, NEW p \in Publishers, Offer(p)
  PROVE  /\ Serving' /\ Head(todo[p]) \in Events
         /\ offered' = Append(offered, Head(todo[p]))
         /\ \A c \in Connections : Served(c, Head(todo[p]))
<1> DEFINE e == Head(todo[p])
<1>1. /\ Enqueue(e) /\ Pass(p) /\ stage[p] # "idle" /\ offered' = Append(offered, e)
      /\ UNCHANGED kinds /\ UNCHANGED <<got, since, from>>
  BY DEF Offer
<1>2. e \in Events
  BY <1>1, Passed
<1> HIDE DEF e
<1>3. e # Heartbeat /\ e \in Events \cup {Heartbeat}
  BY <1>2 DEF Events, Heartbeat, FeedAssumptions
<1>4. Serving' /\ \A c \in Connections : Served(c, e)
  BY <1>1, <1>3, Enqueued
<1> QED BY <1>1, <1>2, <1>4 DEF e

LEMMA ServeStep ==
  ASSUME FeedAssumptions, FeedTypeOK, Staged, Turns, [FeedNext]_feedVars
  PROVE  Serving' /\ Serve
<1>1. CASE UNCHANGED <<serving, offered>>
  BY <1>1 DEF serving, Serving, FeedTypeOK, Serve, Same, Sent, Events, Conditions
<1>2. ASSUME NEW p \in Publishers, Offer(p) PROVE Serving' /\ Serve
  <2>1. /\ Serving' /\ Head(todo[p]) \in Events
        /\ offered' = Append(offered, Head(todo[p]))
        /\ \A c \in Connections : Served(c, Head(todo[p]))
    BY <1>2, OfferServes
  <2> QED BY <2>1 DEF Serve
<1>3. CASE Beat
  <2>1. Enqueue(Heartbeat) /\ UNCHANGED <<got, since, from>> /\ UNCHANGED offered
    BY <1>3 DEF Beat, history
  <2>2. Serving' /\ \A c \in Connections : Same(c)
    BY <2>1, Enqueued
  <2> QED BY <2>1, <2>2 DEF Serve
<1>4. ASSUME NEW p \in Publishers, Fail(p) PROVE Serving' /\ Serve
  <2>1. /\ conn' = [c \in Connections |-> IF c \in subscribers THEN "broken" ELSE conn[c]]
        /\ UNCHANGED <<offered, queue, beats, got, since, from>>
    BY <1>4 DEF Fail, history
  <2>2. conn' \in [Connections -> Conditions]
    BY <2>1 DEF FeedTypeOK, Conditions
  <2>3. Serving'
    BY <2>1, <2>2 DEF Serving, FeedTypeOK, Events, Conditions
  <2>4. \A c \in Connections : Same(c)
    BY <2>1 DEF Same, Sent, subscribers
  <2> QED BY <2>1, <2>3, <2>4 DEF Serve
<1>5. ASSUME NEW c \in Connections, Subscribe(c) \/ Pull(c) \/ Release(c)
      PROVE  Serving' /\ Serve
  <2>1. \A d \in Connections \ {c} :
          /\ conn'[d] = conn[d] /\ queue'[d] = queue[d] /\ beats'[d] = beats[d] /\ got'[d] = got[d]
          /\ since'[d] = since[d] /\ from'[d] = from[d]
    BY <1>5 DEF Subscribe, Pull, Release, FeedTypeOK
  <2>2. UNCHANGED offered /\ \A d \in Connections \ {c} : Same(d)
    BY <1>5, <2>1 DEF Same, Sent, Subscribe, Pull, Release, history
  <2>3. queue'[c] = <<>> /\ beats'[c] = 0
    BY <1>5 DEF Subscribe, Pull, Release, FeedTypeOK
  <2>4. \A d \in Connections : Len(queue'[d]) + beats'[d] <= Capacity
    <3>1. Len(<<>>) = 0 /\ Capacity \in Nat
      BY DEF FeedAssumptions
    <3>2. Len(queue'[c]) + beats'[c] <= Capacity
      BY <2>3, <3>1
    <3> QED BY <2>1, <3>2 DEF FeedTypeOK
  <2>5. queue' \in [Connections -> Seq(Events)] /\ beats' \in [Connections -> Nat]
    <3>1. <<>> \in Seq(Events)
      OBVIOUS
    <3>2. queue' = [queue EXCEPT ![c] = <<>>] /\ beats' = [beats EXCEPT ![c] = 0]
      BY <1>5 DEF Subscribe, Pull, Release
    <3> QED BY <3>1, <3>2 DEF FeedTypeOK
  <2>6. Len(offered) \in 0 .. MaxEvents /\ Len(kinds) \in 0 .. MaxEvents /\ 0 \in 0 .. MaxEvents
    BY LenProperties DEF FeedTypeOK, FeedAssumptions
  <2>7. since' \in [Connections -> 0 .. MaxEvents] /\ from' \in [Connections -> 0 .. MaxEvents]
    <3>1. CASE Subscribe(c)
      BY <2>6, <3>1 DEF Subscribe, FeedTypeOK
    <3>2. CASE Pull(c)
      BY <3>2 DEF Pull, FeedTypeOK
    <3>3. CASE Release(c)
      BY <2>6, <3>3 DEF Release, FeedTypeOK
    <3> QED BY <1>5, <3>1, <3>2, <3>3
  <2>8. conn' \in [Connections -> Conditions]
    BY <1>5 DEF Subscribe, Pull, Release, FeedTypeOK, Conditions
  <2>9. got[c] \o queue[c] \in Seq(Events) /\ (got[c] \o queue[c]) \o <<>> = got[c] \o queue[c]
        /\ <<>> \o <<>> = <<>>
    <3>1. got[c] \o queue[c] \in Seq(Events)
      BY ConcatProperties DEF FeedTypeOK
    <3> QED BY <3>1, ConcatEmptySeq
  <2>10. got' \in [Connections -> Seq(Events)]
    <3>1. CASE Subscribe(c) \/ Release(c)
      <4>1. <<>> \in Seq(Events)
        OBVIOUS
      <4>2. got' = [got EXCEPT ![c] = <<>>]
        BY <3>1 DEF Subscribe, Release
      <4> QED BY <4>1, <4>2 DEF FeedTypeOK
    <3>2. CASE Pull(c)
      BY <2>9, <3>2 DEF Pull, FeedTypeOK
    <3> QED BY <1>5, <3>1, <3>2
  <2>11. Same(c) \/ Joined(c) \/ conn'[c] = "closed"
    <3>1. CASE Subscribe(c)
      BY <2>9, <3>1 DEF Subscribe, Joined, Sent, FeedTypeOK
    <3>2. CASE Pull(c)
      BY <2>9, <3>2 DEF Pull, Same, Sent, FeedTypeOK
    <3>3. CASE Release(c)
      BY <3>3 DEF Release, FeedTypeOK
    <3> QED BY <1>5, <3>1, <3>2, <3>3
  <2>12. Serving'
    BY <2>4, <2>5, <2>7, <2>8, <2>10 DEF Serving, Events, Conditions
  <2> QED BY <2>2, <2>11, <2>12 DEF Serve
<1> QED BY <1>1, <1>2, <1>3, <1>4, <1>5
        DEF FeedNext, feedVars, history, PublishEvents, Notify, Skip, Encode, Interrupt

\* The type invariant is kept.
LEMMA FeedTypeStep ==
  ASSUME FeedAssumptions, FeedTypeOK, Staged, Turns, OfferedOnce, [FeedNext]_feedVars
  PROVE  FeedTypeOK'
<1>1. Turning
  BY Turned
<1>2. Shaped' /\ kinds' \in Seq(Kinds) /\ Len(kinds') <= MaxEvents
  BY <1>1, TurnsStep
<1>3. Serving'
  BY ServeStep
<1>4. offered' \in Seq(Events) /\ OfferedOnce'
  BY OnceStep
<1>5. Len(offered') <= MaxEvents
  <2>1. Len(kinds') \in Nat /\ Len(offered') \in Nat
    BY <1>2, <1>4, LenProperties
  <2>2. IsInjective(offered') /\ ToSet(offered') \subseteq 1 .. Len(kinds')
    BY <1>4 DEF OfferedOnce, Stored
  <2>3. Len(offered') <= Len(kinds')
    BY <1>4, <2>1, <2>2, OfferedBound
  <2> QED BY <1>2, <2>1, <2>3 DEF FeedAssumptions
<1>6. lost' \subseteq Events
  <2>1. CASE UNCHANGED lost
    BY <2>1 DEF FeedTypeOK
  <2>2. ASSUME NEW p \in Publishers, Interrupt(p) PROVE lost' \subseteq Events
    <3>1. Head(todo[p]) \in Events
      BY <2>2, Interrupted
    <3> QED BY <2>2, <3>1 DEF Interrupt, FeedTypeOK
  <2> QED BY <2>1, <2>2
          DEF FeedNext, feedVars, history, PublishEvents, Notify, Skip, Encode, Offer, Fail,
              Beat, Subscribe, Pull, Release
<1> QED BY <1>2, <1>3, <1>4, <1>5, <1>6 DEF FeedTypeOK, Shaped, Serving, Events, Kinds, Conditions

LEMMA RunStep ==
  ASSUME FeedTypeOK, FeedTypeOK', Serve, NEW c \in Connections, Run(c)
  PROVE  Run(c)'
<1> SUFFICES ASSUME conn'[c] # "closed" PROVE Run(c)'
  BY DEF Run
<1>1. /\ offered \in Seq(Events) /\ Len(offered) \in Nat /\ since[c] \in Nat
      /\ Sent(c) \in Seq(Events) /\ Len(Sent(c)) \in Nat
  <2>1. Sent(c) \in Seq(Events) /\ Len(Sent(c)) \in Nat
    BY SentType
  <2>2. offered \in Seq(Events) /\ Len(offered) \in Nat
    BY LenProperties DEF FeedTypeOK
  <2>3. since[c] \in 0 .. MaxEvents
    BY DEF FeedTypeOK
  <2> QED BY <2>1, <2>2, <2>3
<1>2. CASE UNCHANGED offered /\ Joined(c)
  <2>1. Len(<<>>) = 0
    OBVIOUS
  <2> QED BY <1>1, <1>2, <2>1 DEF Run, Joined
<1>3. CASE UNCHANGED offered /\ Same(c)
  BY <1>3 DEF Run, Same
<1>4. ASSUME NEW e \in Events, offered' = Append(offered, e), Served(c, e) PROVE Run(c)'
  <2> DEFINE n == Len(offered)  s == Sent(c)
  <2>1. /\ Len(offered') = n + 1 /\ offered'[n + 1] = e
        /\ \A i \in 1 .. n : offered'[i] = offered[i]
    BY <1>1, <1>4, Appended
  <2>2. /\ Len(Append(s, e)) = Len(s) + 1 /\ Append(s, e)[Len(s) + 1] = e
        /\ \A i \in 1 .. Len(s) : Append(s, e)[i] = s[i]
    BY <1>1, Appended
  <2>3. CASE Fed(c, e)
    <3>1. /\ conn[c] = "open" /\ Sent(c)' = Append(s, e) /\ since'[c] = since[c]
          /\ since[c] + Len(s) = n /\ \A i \in 1 .. Len(s) : s[i] = offered[since[c] + i]
      BY <2>3 DEF Fed, Run
    <3> DEFINE t == Append(s, e)
    <3> HIDE DEF n, s, t
    <3>2. Len(s) \in Nat /\ n \in Nat /\ since[c] \in Nat
      BY <1>1 DEF s, n
    <3>6. since[c] + Len(s) = n
      BY <3>1
    <3>3. ASSUME NEW i \in 1 .. Len(s) + 1 PROVE t[i] = offered'[since[c] + i]
      <4>1. CASE i = Len(s) + 1
        <5>1. since[c] + i = n + 1
          BY <3>2, <3>6, <4>1
        <5> QED BY <2>1, <2>2, <4>1, <5>1 DEF t
      <4>2. CASE i # Len(s) + 1
        <5>1. i \in 1 .. Len(s) /\ since[c] + i \in 1 .. n
          BY <3>2, <3>6, <4>2
        <5> QED BY <2>1, <2>2, <3>1, <5>1 DEF t
      <4> QED BY <4>1, <4>2
    <3>4. Len(t) = Len(s) + 1 /\ Sent(c)' = t
      BY <2>2, <3>1 DEF t
    <3>5. since[c] + Len(t) = Len(offered')
      <4>1. Len(offered') = n + 1 /\ Len(t) = Len(s) + 1
        BY <2>1, <3>4
      <4> QED BY <3>2, <3>6, <4>1
    <3> QED BY <1>1, <2>1, <3>1, <3>2, <3>3, <3>4, <3>5 DEF Run
  <2>4. CASE Same(c) /\ conn'[c] # "open"
    <3>1. /\ Sent(c)' = s /\ since'[c] = since[c] /\ since[c] + Len(s) <= n
          /\ \A i \in 1 .. Len(s) : s[i] = offered[since[c] + i]
      BY <2>4 DEF Same, Run
    <3> HIDE DEF n, s
    <3>2. Len(s) \in Nat /\ n \in Nat
      BY <1>1 DEF s, n
    <3>3. \A i \in 1 .. Len(s) : since[c] + i \in 1 .. n
      BY <1>1, <3>1, <3>2
    <3>4. \A i \in 1 .. Len(s) : s[i] = offered'[since[c] + i]
      BY <2>1, <3>1, <3>3
    <3>5. since[c] + Len(s) <= Len(offered')
      BY <1>1, <2>1, <3>1, <3>2
    <3> QED BY <2>4, <3>1, <3>4, <3>5 DEF Run
  <2> QED BY <1>4, <2>3, <2>4 DEF Served
<1> QED BY <1>2, <1>3, <1>4 DEF Serve

\* Place by place is as a run.
LEMMA RunIsSame ==
  ASSUME FeedTypeOK, \A c \in Connections : Run(c)
  PROVE  SameRun
<1> SUFFICES ASSUME NEW c \in Connections, conn[c] # "closed"
             PROVE  /\ Sent(c) = SubSeq(offered, since[c] + 1, since[c] + Len(Sent(c)))
                    /\ c \in subscribers => since[c] + Len(Sent(c)) = Len(offered)
  BY DEF SameRun
<1> DEFINE s == Sent(c)  m == since[c]  l == Len(s)  n == Len(offered)
<1>1. offered \in Seq(Events) /\ n \in Nat /\ m \in Nat /\ s \in Seq(Events) /\ l \in Nat
  BY SentType, LenProperties DEF FeedTypeOK
<1>2. m + l <= n /\ \A i \in 1 .. l : s[i] = offered[m + i]
  BY DEF Run
<1>3. c \in subscribers => m + l = n
  BY DEF Run, subscribers
<1>4. \A i \in 1 .. n : offered[i] \in Events
  BY <1>1, ElementOfSeq
<1> HIDE DEF s, m, l, n
<1>5. \A i \in m + 1 .. m + l : offered[i] \in Events
  BY <1>1, <1>2, <1>4
<1>6. m + 1 \in Int /\ m + l \in Int
  BY <1>1
<1>7. /\ SubSeq(offered, m + 1, m + l) \in Seq(Events)
      /\ Len(SubSeq(offered, m + 1, m + l)) = (IF m + 1 <= m + l THEN (m + l) - (m + 1) + 1 ELSE 0)
      /\ \A i \in 1 .. (m + l) - (m + 1) + 1 : SubSeq(offered, m + 1, m + l)[i] = offered[(m + 1) + i - 1]
  BY <1>5, <1>6, SubSeqProperties
<1> DEFINE t == SubSeq(offered, m + 1, m + l)
<1> HIDE DEF t
<1>8. t \in Seq(Events) /\ Len(t) = l
  BY <1>1, <1>7 DEF t
<1>9. \A i \in 1 .. l : i \in 1 .. (m + l) - (m + 1) + 1 /\ (m + 1) + i - 1 = m + i
  BY <1>1
<1>10. \A i \in 1 .. l : s[i] = t[i]
  BY <1>2, <1>7, <1>9 DEF t
<1>11. s = t
  BY <1>1, <1>8, <1>10, SeqEqual DEF l
<1> QED BY <1>3, <1>11 DEF s, m, l, n, t

-----------------------------------------------------------------------------
(* What becomes of an event that is owed.                                  *)

\* What has just been stored is owed.
LEMMA Owing ==
  ASSUME FeedAssumptions, FeedTypeOK, Staged, Turns, [FeedNext]_feedVars
  PROVE  Stored' \ Stored \subseteq Owed'
<1>1. CASE UNCHANGED kinds
  BY <1>1 DEF Stored
<1>2. ASSUME NEW p \in Publishers, PublishEvents(p) PROVE Stored' \ Stored \subseteq Owed'
  <2>1. Owes(p)' = Stored' \ Stored
    BY <1>2, Stores
  <2>2. Owes(p)' \subseteq Owed'
    BY DEF Owed, Owes
  <2> QED BY <2>1, <2>2
<1> QED BY <1>1, <1>2 DEF FeedNext, feedVars, publishing, Notify, Skip, Encode, Offer, Fail,
                          Interrupt,
                          Beat, Subscribe, Pull, Release

\* An event not internal is owed until it is offered, its publisher is interrupted, or
\* there is nobody registered.
LEMMA Fate ==
  ASSUME FeedAssumptions, FeedTypeOK, Staged, Turns, [FeedNext]_feedVars,
         NEW e \in Owed, kinds[e] # "internal", e \notin Owed'
  PROVE  \/ e \in lost' \/ subscribers' = {}
         \/ \A c \in Connections : Served(c, e)
<1>1. PICK p \in Publishers : e \in Owes(p)
  BY OwedIs
<1>2. e \notin Owes(p)'
  BY DEF Owed, Owes
<1>3. todo'[p] # todo[p]
  BY <1>1, <1>2 DEF Owes
<1>4. ~UNCHANGED todo
  BY <1>3
<1>5. ASSUME NEW q \in Publishers, PublishEvents(q) PROVE FALSE
  <2>1. Else(q) /\ Owes(q) = {}
    BY <1>5, Stores
  <2> QED BY <1>1, <1>3, <2>1 DEF Else
<1>6. ASSUME NEW q \in Publishers, Skip(q) \/ Offer(q) \/ Fail(q)
      PROVE  q = p /\ e = Head(todo[p])
  <2>1. Else(q) /\ Owes(q)' = Owes(q) \ {Head(todo[q])}
    BY <1>6, Passed DEF Skip, Offer, Fail
  <2> QED BY <1>1, <1>2, <1>3, <2>1 DEF Else
<1>7. ASSUME NEW q \in Publishers, Skip(q) PROVE subscribers' = {}
  <2>1. kinds[Head(todo[p])] # "internal"
    BY <1>6, <1>7
  <2> QED BY <1>6, <1>7, <2>1 DEF Skip, serving, subscribers
<1>8. ASSUME NEW q \in Publishers, Offer(q) PROVE \A c \in Connections : Served(c, e)
  BY <1>6, <1>8, OfferServes
<1>9. ASSUME NEW q \in Publishers, Fail(q) PROVE subscribers' = {}
  BY <1>9 DEF Fail, subscribers
<1>10. ASSUME NEW q \in Publishers, Interrupt(q) PROVE e \in lost'
  <2>1. Else(q) /\ Owes(q) = {Head(todo[q])} /\ lost' = lost \cup {Head(todo[q])}
    BY <1>10, Interrupted DEF Interrupt
  <2> QED BY <1>1, <1>3, <2>1 DEF Else
<1> QED BY <1>4, <1>5, <1>7, <1>8, <1>9, <1>10
        DEF FeedNext, feedVars, publishing, Notify, Encode, Beat, Subscribe, Pull, Release

LEMMA GapStep ==
  ASSUME FeedAssumptions, FeedTypeOK, Staged, Turns, NoSilentGap, [FeedNext]_feedVars
  PROVE  NoSilentGap'
<1> SUFFICES ASSUME NEW c \in subscribers', NEW e \in from'[c] + 1 .. Len(kinds'),
                    kinds'[e] # "internal"
             PROVE  e \in Owed' \cup lost' \cup ToSet(Sent(c))'
  BY DEF NoSilentGap
<1>1. c \in Connections /\ conn'[c] = "open"
  BY DEF subscribers
<1>2. Turning /\ Serve
  BY Turned, ServeStep
<1>3. /\ Stored \subseteq Stored' /\ \A x \in Stored : kinds'[x] = kinds[x]
      /\ Stored' \ Stored \subseteq Owed'
  BY <1>2, OwedStep, Owing
<1>4. from'[c] \in Nat /\ from[c] \in Nat /\ Len(kinds) \in Nat /\ Len(kinds') \in Nat
  <2>1. Serving' /\ kinds' \in Seq(Kinds)
    BY <1>2, ServeStep, TurnsStep
  <2> QED BY <1>1, <2>1, LenProperties DEF FeedTypeOK, Serving
<1>5. e \in Stored'
  BY <1>4 DEF Stored
<1>6. CASE e \notin Stored
  BY <1>3, <1>5, <1>6
<1>7. CASE e \in Stored /\ (Same(c) \/ \E x \in Events : Fed(c, x))
  <2>1. conn[c] = "open" /\ from'[c] = from[c]
    BY <1>1, <1>7 DEF Same, Fed
  <2>2. c \in subscribers /\ e \in from[c] + 1 .. Len(kinds) /\ kinds[e] # "internal"
    BY <1>1, <1>3, <1>4, <1>7, <2>1 DEF subscribers, Stored
  <2>3. e \in Owed \cup lost \cup ToSet(Sent(c))
    BY <2>2 DEF NoSilentGap
  <2>4. Sent(c) \in Seq(Events)
    BY <1>1, SentType
  <2>5. ToSet(Sent(c)) \subseteq ToSet(Sent(c))'
    <3>1. CASE Same(c)
      BY <3>1 DEF Same, ToSet
    <3>2. ASSUME NEW x \in Events, Fed(c, x) PROVE ToSet(Sent(c)) \subseteq ToSet(Sent(c))'
      <4>1. ToSet(Append(Sent(c), x)) = ToSet(Sent(c)) \cup {x}
        BY <2>4, Appended
      <4>2. ToSet(Sent(c))' = ToSet(Append(Sent(c), x))
        BY <3>2 DEF Fed, ToSet
      <4> QED BY <4>1, <4>2
    <3> QED BY <1>7, <3>1, <3>2
  <2>6. lost \subseteq lost'
    BY DEF FeedNext, feedVars, history, PublishEvents, Notify, Skip, Encode, Offer, Fail, Interrupt,
           Beat, Subscribe, Pull, Release
  <2>7. ASSUME e \in Owed, e \notin Owed' PROVE e \in lost' \cup ToSet(Sent(c))'
    <3>1. e \in lost' \/ subscribers' = {} \/ Served(c, e)
      BY <1>1, <2>2, <2>7, Fate
    <3>2. ASSUME Served(c, e) PROVE e \in ToSet(Sent(c))'
      <4>1. Fed(c, e)
        BY <1>1, <3>2 DEF Served
      <4>2. e \in Events
        <5>1. Len(kinds) <= MaxEvents
          BY DEF FeedTypeOK
        <5> QED BY <1>4, <1>7, <5>1 DEF Stored, Events, FeedAssumptions
      <4>3. ToSet(Append(Sent(c), e)) = ToSet(Sent(c)) \cup {e}
        BY <2>4, <4>2, Appended
      <4>4. ToSet(Sent(c))' = ToSet(Append(Sent(c), e))
        BY <4>1 DEF Fed, ToSet
      <4> QED BY <4>3, <4>4
    <3> QED BY <3>1, <3>2
  <2> QED BY <2>3, <2>5, <2>6, <2>7
<1>8. CASE Joined(c)
  BY <1>3, <1>4, <1>5, <1>8 DEF Joined, Stored
<1> QED BY <1>1, <1>2, <1>6, <1>7, <1>8 DEF Serve, Served

-----------------------------------------------------------------------------
(* The invariant.                                                          *)

LEMMA FeedStarting == ASSUME FeedAssumptions, FeedInit PROVE FeedIInv
<1>1. /\ kinds = <<>> /\ offered = <<>> /\ lost = {} /\ Len(<<>>) = 0
      /\ \A p \in Publishers : todo[p] = <<>> /\ batch[p] = FALSE /\ stage[p] = "idle"
      /\ \A c \in Connections : conn[c] = "closed"
  BY DEF FeedInit
<1>2. FeedTypeOK
  <2>1. /\ <<>> \in Seq(Kinds) /\ <<>> \in Seq(Events)
        /\ MaxEvents \in Nat /\ Capacity \in Nat /\ 0 \in 0 .. MaxEvents
    BY DEF FeedAssumptions
  <2>2. \A c \in Connections : Len(queue[c]) + beats[c] <= Capacity
    BY <1>1, <2>1 DEF FeedInit
  <2> QED BY <1>1, <2>1, <2>2 DEF FeedInit, FeedTypeOK, Conditions
<1>3. Staged /\ Turns
  <2>1. \A p \in Publishers : Owes(p) = {} /\ IsInjective(todo[p])
    BY <1>1, NoneIn DEF Owes
  <2> QED BY <1>1, <2>1 DEF Staged, Turns
<1>4. OfferedOnce
  BY <1>1, NoneIn DEF OfferedOnce
<1>5. (\A c \in Connections : Run(c)) /\ NoSilentGap
  BY <1>1 DEF Run, NoSilentGap, subscribers
<1> QED BY <1>2, <1>3, <1>4, <1>5 DEF FeedIInv

LEMMA FeedInductive == ASSUME FeedIInv, [FeedNext]_feedVars PROVE FeedIInv'
<1>1. Turning /\ Serve /\ FeedTypeOK'
  BY Turned, ServeStep, FeedTypeStep DEF FeedIInv
<1>2. Staged' /\ Turns'
  BY <1>1, TurnsStep DEF FeedIInv
<1>3. OfferedOnce'
  BY OnceStep DEF FeedIInv
<1>4. \A c \in Connections : Run(c)'
  BY <1>1, RunStep DEF FeedIInv
<1>5. NoSilentGap'
  BY GapStep DEF FeedIInv
<1> QED BY <1>1, <1>2, <1>3, <1>4, <1>5 DEF FeedIInv

\* The inductive invariant.
THEOREM FeedInvariance == FeedSpec => []FeedIInv
<1>1. FeedInit => FeedIInv
  BY FeedStarting, FeedAssumed
<1>2. FeedIInv /\ [FeedNext]_feedVars => FeedIInv'
  BY FeedInductive
<1> QED BY <1>1, <1>2, PTL DEF FeedSpec

\* What a connection has been sent and will be is a run of the frames offered, from
\* its registration, whoever else overflows (event-feed.ts publish).
THEOREM SameFrames == FeedSpec => []SameRun
<1>1. FeedIInv => SameRun
  BY RunIsSame DEF FeedIInv
<1> QED BY <1>1, FeedInvariance, PTL

\* Types, the bound of every queue, and no silent gap: an event stored after a
\* connection was registered has been sent to it, is owed, or was lost with its
\* publisher (event-feed.ts publish, fail; event.ts notify).
THEOREM NoGap == FeedSpec => []FeedInv
<1>1. FeedIInv => FeedInv
  BY DEF FeedIInv, FeedInv
<1> QED BY <1>1, FeedInvariance, PTL

\* No event is offered twice, none that is not public is offered, and what has been
\* offered is owed to nobody any more: a publisher that is late, or one of a batch,
\* does not repeat what another has sent.
THEOREM OnceOffered == FeedSpec => []OfferedOnce
<1>1. FeedIInv => OfferedOnce
  BY DEF FeedIInv
<1> QED BY <1>1, FeedInvariance, PTL

=============================================================================
