----------------------- MODULE GuardrailCounterProofs -----------------------
(***************************************************************************)
(* For every cap, every set of families and of calls: GuardrailCounter     *)
(* keeps the cap, loses no slot and leaves none idle, as long as no call   *)
(* queued behind a check that no longer held.                              *)
(*                                                                         *)
(* The invariant says, key by key, that a pool in the map is what its      *)
(* fields claim: its slots are the calls granted one, each once, and its   *)
(* line the calls that wait for one, each once; and that whoever closed    *)
(* over a pool closed over the one in the map, or over one that is empty.  *)
(***************************************************************************)
EXTENDS GuardrailCounter, SequenceTheorems, FiniteSetTheorems, TLAPS

Distinct(s) == \A i, j \in 1..Len(s) : s[i] = s[j] => i = j

-----------------------------------------------------------------------------
(* What the operations on sequences do to their elements.                  *)

\* A new last element.
LEMMA Appended ==
  ASSUME NEW S, NEW s \in Seq(S), NEW e \in S
  PROVE  /\ Append(s, e) \in Seq(S)
         /\ Append(s, e) # <<>>
         /\ Len(Append(s, e)) = Len(s) + 1
         /\ \A d : Contains(Append(s, e), d) <=> Contains(s, d) \/ d = e
         /\ Distinct(s) /\ ~Contains(s, e) => Distinct(Append(s, e))
<1>1. /\ Append(s, e) \in Seq(S)
      /\ Append(s, e) # <<>>
      /\ Len(Append(s, e)) = Len(s) + 1
      /\ Len(s) \in Nat
      /\ \A i \in 1..Len(s) : Append(s, e)[i] = s[i]
      /\ Append(s, e)[Len(s) + 1] = e
  BY AppendProperties, LenProperties
<1> DEFINE t == Append(s, e)
<1> HIDE DEF t
<1>2. \A d : Contains(t, d) <=> Contains(s, d) \/ d = e
  BY <1>1 DEF Contains, t
<1>3. Distinct(s) /\ ~Contains(s, e) => Distinct(t)
  BY <1>1 DEF Contains, Distinct, t
<1> QED BY <1>1, <1>2, <1>3 DEF t

\* The rest of a line.
LEMMA Shifted ==
  ASSUME NEW S, NEW s \in Seq(S), s # <<>>
  PROVE  /\ Head(s) \in S
         /\ Tail(s) \in Seq(S)
         /\ Contains(s, Head(s))
         /\ Distinct(s) => /\ Distinct(Tail(s))
                           /\ \A d : Contains(Tail(s), d) <=> Contains(s, d) /\ d # Head(s)
<1>1. /\ Head(s) \in S /\ Tail(s) \in Seq(S) /\ Len(s) \in Nat \ {0}
      /\ Len(Tail(s)) = Len(s) - 1
      /\ Head(s) = s[1]
      /\ \A i \in 1..Len(Tail(s)) : Tail(s)[i] = s[i + 1]
  BY HeadTailProperties, EmptySeq
<1> DEFINE t == Tail(s)  h == Head(s)
<1> HIDE DEF t, h
<1>2. Contains(s, h)
  BY <1>1 DEF Contains, h
<1>3. ASSUME Distinct(s) PROVE Distinct(t)
  BY <1>1, <1>3 DEF Distinct, t
<1>4. ASSUME Distinct(s), NEW d PROVE Contains(t, d) <=> Contains(s, d) /\ d # h
  <2>1. Contains(t, d) => Contains(s, d) /\ d # h
    BY <1>1, <1>4 DEF Contains, Distinct, t, h
  <2>2. ASSUME NEW i \in 1..Len(s), s[i] = d, d # h PROVE Contains(t, d)
    <3>1. i - 1 \in 1..Len(t) /\ t[i - 1] = d
      BY <1>1, <2>2 DEF t, h
    <3> QED BY <3>1 DEF Contains
  <2> QED BY <2>1, <2>2 DEF Contains
<1> QED BY <1>1, <1>2, <1>3, <1>4 DEF t, h

\* Removing the element at i.
LEMMA Removed ==
  ASSUME NEW S, NEW s \in Seq(S), NEW i \in 1..Len(s)
  PROVE  /\ RemoveAt(s, i) \in Seq(S)
         /\ Len(RemoveAt(s, i)) = Len(s) - 1
         /\ \A j \in 1..(Len(s) - 1) : RemoveAt(s, i)[j] = IF j < i THEN s[j] ELSE s[j + 1]
<1> DEFINE a == SubSeq(s, 1, i - 1)  b == SubSeq(s, i + 1, Len(s))
<1>1. Len(s) \in Nat /\ \A j \in 1..Len(s) : s[j] \in S
  BY LenProperties
<1>2. a \in Seq(S) /\ Len(a) = i - 1 /\ \A j \in 1..(i - 1) : a[j] = s[j]
  BY <1>1, SubSeqProperties
<1>3. b \in Seq(S) /\ Len(b) = Len(s) - i /\ \A j \in 1..(Len(s) - i) : b[j] = s[i + j]
  BY <1>1, SubSeqProperties
<1> HIDE DEF a, b
<1> DEFINE t == a \o b
<1>4. /\ t \in Seq(S) /\ Len(t) = Len(a) + Len(b)
      /\ \A j \in 1..(Len(a) + Len(b)) : t[j] = IF j <= Len(a) THEN a[j] ELSE b[j - Len(a)]
  BY <1>2, <1>3, ConcatProperties
<1> HIDE DEF t
<1>5. Len(t) = Len(s) - 1
  BY <1>1, <1>2, <1>3, <1>4
<1>6. ASSUME NEW j \in 1..(Len(s) - 1) PROVE t[j] = IF j < i THEN s[j] ELSE s[j + 1]
  <2>1. CASE j < i
    <3>0. j \in 1..(i - 1) /\ j \in 1..(Len(a) + Len(b)) /\ j <= Len(a)
      BY <1>1, <1>2, <1>3, <2>1
    <3>1. j \in 1..(i - 1) /\ t[j] = a[j]
      BY <1>4, <3>0
    <3> QED BY <1>2, <2>1, <3>1
  <2>2. CASE ~(j < i)
    <3>0. /\ j - Len(a) \in 1..(Len(s) - i) /\ j \in 1..(Len(a) + Len(b))
          /\ ~(j <= Len(a)) /\ i + (j - Len(a)) = j + 1
      BY <1>1, <1>2, <1>3, <2>2
    <3>1. t[j] = b[j - Len(a)]
      BY <1>4, <3>0
    <3> QED BY <1>3, <2>2, <3>0, <3>1
  <2> QED BY <2>1, <2>2
<1> QED BY <1>4, <1>5, <1>6 DEF RemoveAt, t, a, b

\* Splice keeps sequences what they are, and removes one occurrence.
LEMMA SpliceType ==
  ASSUME NEW S, NEW s \in Seq(S), NEW c
  PROVE  Splice(s, c) \in Seq(S)
<1>1. CASE s = <<>>
  BY <1>1 DEF Splice
<1>2. CASE s # <<>> /\ Contains(s, c)
  <2>1. (CHOOSE i \in DOMAIN s : s[i] = c) \in 1..Len(s)
    BY <1>2, LenProperties DEF Contains
  <2> QED BY <1>2, <2>1, Removed DEF Splice
<1>3. CASE s # <<>> /\ ~Contains(s, c)
  BY <1>3, Removed, EmptySeq DEF Splice
<1> QED BY <1>1, <1>2, <1>3

LEMMA Spliced ==
  ASSUME NEW S, NEW s \in Seq(S), NEW c, Contains(s, c), Distinct(s)
  PROVE  /\ Splice(s, c) \in Seq(S)
         /\ Len(Splice(s, c)) = Len(s) - 1
         /\ Distinct(Splice(s, c))
         /\ \A d : Contains(Splice(s, c), d) <=> Contains(s, d) /\ d # c
<1>1. PICK i \in 1..Len(s) : i = (CHOOSE j \in DOMAIN s : s[j] = c) /\ s[i] = c
  BY LenProperties DEF Contains
<1>2. s # <<>> /\ Len(s) \in Nat
  BY <1>1, LenProperties, EmptySeq
<1> DEFINE t == RemoveAt(s, i)
<1>3. Splice(s, c) = t
  BY <1>1, <1>2 DEF Splice
<1>4. /\ t \in Seq(S)
      /\ Len(t) = Len(s) - 1
      /\ \A j \in 1..(Len(s) - 1) : t[j] = IF j < i THEN s[j] ELSE s[j + 1]
  BY <1>1, Removed
<1> HIDE DEF t
<1>g. ASSUME NEW j \in 1..Len(t)
      PROVE  \E n \in 1..Len(s) : /\ n # i /\ t[j] = s[n]
                                  /\ n = IF j < i THEN j ELSE j + 1
  <2>1. j \in 1..(Len(s) - 1) /\ j \in Int /\ i \in Int
    BY <1>1, <1>2, <1>4
  <2>2. CASE j < i
    <3>1. j \in 1..Len(s) /\ j # i
      BY <1>2, <2>1, <2>2
    <3> QED BY <1>4, <2>1, <2>2, <3>1
  <2>3. CASE ~(j < i)
    <3>1. j + 1 \in 1..Len(s) /\ j + 1 # i
      BY <1>2, <2>1, <2>3
    <3> QED BY <1>4, <2>1, <2>3, <3>1
  <2> QED BY <2>2, <2>3
<1>5. Distinct(t)
  <2> SUFFICES ASSUME NEW j \in 1..Len(t), NEW n \in 1..Len(t), t[j] = t[n]
               PROVE  j = n
    BY DEF Distinct
  <2>1. PICK a \in 1..Len(s) : t[j] = s[a] /\ a = IF j < i THEN j ELSE j + 1
    BY <1>g
  <2>2. PICK b \in 1..Len(s) : t[n] = s[b] /\ b = IF n < i THEN n ELSE n + 1
    BY <1>g
  <2>3. a = b
    BY <2>1, <2>2 DEF Distinct
  <2>4. j \in Int /\ n \in Int /\ i \in Int
    BY <1>1, <1>2, <1>4
  <2> QED BY <2>1, <2>2, <2>3, <2>4
<1>6. ASSUME NEW d PROVE Contains(t, d) <=> Contains(s, d) /\ d # c
  <2>1. Contains(t, d) => Contains(s, d) /\ d # c
    BY <1>1, <1>g DEF Contains, Distinct
  <2>2. ASSUME NEW n \in 1..Len(s), s[n] = d, d # c PROVE Contains(t, d)
    <3>1. CASE n < i
      BY <1>1, <1>2, <1>4, <2>2, <3>1 DEF Contains
    <3>2. CASE i < n
      <4>1. n - 1 \in 1..Len(t) /\ n - 1 \in 1..(Len(s) - 1) /\ ~(n - 1 < i)
        BY <1>1, <1>2, <1>4, <2>2, <3>2
      <4>2. t[n - 1] = s[n - 1 + 1] /\ n - 1 + 1 = n
        BY <1>2, <1>4, <4>1
      <4> QED BY <2>2, <4>1, <4>2 DEF Contains
    <3> QED BY <1>1, <1>2, <2>2, <3>1, <3>2
  <2> QED BY <2>1, <2>2 DEF Contains
<1> QED BY <1>3, <1>4, <1>5, <1>6

\* Nothing is in the empty sequence.
LEMMA Empty ==
  ASSUME NEW S PROVE <<>> \in Seq(S) /\ Distinct(<<>>) /\ \A d : ~Contains(<<>>, d)
BY EmptySeq DEF Distinct, Contains

\* A sequence of one.
LEMMA Single ==
  ASSUME NEW S, NEW e \in S
  PROVE  /\ <<e>> \in Seq(S) /\ <<e>> # <<>> /\ Len(<<e>>) = 1 /\ Distinct(<<e>>)
         /\ \A d : Contains(<<e>>, d) <=> d = e
BY DEF Distinct, Contains

-----------------------------------------------------------------------------
(* The inductive invariant.                                                *)

\* No pool serves two keys.
Owner == \A k, l \in Keys : pools[k] = pools[l] /\ pools[k] # None => k = l

\* A pool in the map is in use, within the cap, and full while somebody waits.
PoolOK(k) ==
  pools[k] # None =>
    /\ slots[pools[k]] # <<>>
    /\ Len(slots[pools[k]]) <= Limit
    /\ Distinct(slots[pools[k]]) /\ Distinct(waiters[pools[k]])
    /\ waiters[pools[k]] # <<>> => Len(slots[pools[k]]) = Limit

\* Its slots and its line are those of the calls for its key.
Members(k) ==
  \A c \in Calls :
    IF pools[k] = None
      THEN of[c] = k => ~granted[c] /\ at[c] \notin InLine
      ELSE /\ Contains(slots[pools[k]], c) <=> of[c] = k /\ granted[c]
           /\ Contains(waiters[pools[k]], c) <=> of[c] = k /\ at[c] \in InLine /\ ~granted[c]

\* A call that closed over a pool closed over the one in the map, or, before it
\* queues, over one that has been emptied.
CallOK(c) ==
  /\ at[c] \in {"none", "full"} => ~granted[c]
  /\ at[c] = "holding" => granted[c]
  /\ mine[c] # None <=> at[c] \in {"full", "queued", "waiting"}
  /\ at[c] \in {"queued", "waiting"} => mine[c] = pools[of[c]]
  /\ at[c] = "full" /\ mine[c] # pools[of[c]] => slots[mine[c]] = <<>>
  /\ \A k \in Keys : mine[c] = pools[k] /\ mine[c] # None => of[c] = k

Good == Owner /\ (\A k \in Keys : PoolOK(k) /\ Members(k)) /\ (\A c \in Calls : CallOK(c))

IInv == TypeOK /\ (stale \/ Good)

-----------------------------------------------------------------------------
(* The types.                                                              *)

\* Whatever release does to the pools, they stay pools.
LEMMA FreeType ==
  ASSUME TypeOK, NEW c \in Calls, Free(c)
  PROVE  /\ pools' \in [Keys -> Pools \cup {None}]
         /\ slots' \in [Pools -> Seq(Calls)]
         /\ waiters' \in [Pools -> Seq(Calls)]
         /\ granted' \in [Calls -> BOOLEAN]
<1> DEFINE p == pools[of[c]]
<1>1. of[c] \in Keys /\ p \in Pools \cup {None}
  BY DEF TypeOK
<1>2. CASE p = None /\ granted' = [granted EXCEPT ![c] = FALSE]
              /\ UNCHANGED <<pools, slots, waiters>>
  <2>1. granted' \in [Calls -> BOOLEAN]
    BY <1>2, Zenon DEF TypeOK
  <2> QED BY <1>2, <2>1 DEF TypeOK
<1>3. CASE /\ p # None /\ waiters[p] = <<>>
           /\ slots' = [slots EXCEPT ![p] = Splice(@, c)]
           /\ pools' = [pools EXCEPT ![of[c]] = IF Splice(slots[p], c) = <<>> THEN None ELSE @]
           /\ granted' = [granted EXCEPT ![c] = FALSE]
           /\ UNCHANGED waiters
  <2>1. granted' \in [Calls -> BOOLEAN]
    BY <1>3, Zenon DEF TypeOK
  <2>2. Splice(slots[p], c) \in Seq(Calls)
    BY <1>1, <1>3, SpliceType DEF TypeOK
  <2> QED BY <1>1, <1>3, <2>1, <2>2 DEF TypeOK
<1>4. CASE /\ p # None /\ waiters[p] # <<>>
           /\ slots' = [slots EXCEPT ![p] = Append(Splice(@, c), Head(waiters[p]))]
           /\ waiters' = [waiters EXCEPT ![p] = Tail(@)]
           /\ granted' = [granted EXCEPT ![c] = FALSE, ![Head(waiters[p])] = TRUE]
           /\ UNCHANGED pools
  <2>1. granted' \in [Calls -> BOOLEAN]
    BY <1>4, Zenon DEF TypeOK
  <2>2. waiters[p] \in Seq(Calls) /\ slots[p] \in Seq(Calls)
    BY <1>1, <1>4 DEF TypeOK
  <2>3. Head(waiters[p]) \in Calls /\ Tail(waiters[p]) \in Seq(Calls)
    BY <1>4, <2>2, Shifted
  <2>4. Append(Splice(slots[p], c), Head(waiters[p])) \in Seq(Calls)
    BY <2>2, <2>3, SpliceType, Appended
  <2> QED BY <1>1, <1>4, <2>1, <2>3, <2>4 DEF TypeOK
<1> QED BY <1>2, <1>3, <1>4 DEF Free

LEMMA NextType == TypeOK /\ [Next]_vars => TypeOK'
<1> SUFFICES ASSUME TypeOK, [Next]_vars PROVE TypeOK'
  OBVIOUS
<1>1. ASSUME NEW c \in Calls, NEW k \in Keys, Take(c, k) PROVE TypeOK'
  <2>1. granted' \in [Calls -> BOOLEAN]
    BY <1>1, Zenon DEF TypeOK, Take
  <2>2. CASE pools[k] # None /\ slots' = [slots EXCEPT ![pools[k]] = Append(@, c)]
             /\ UNCHANGED <<pools, waiters>>
    <3>1. pools[k] \in Pools /\ Append(slots[pools[k]], c) \in Seq(Calls)
      BY <2>2, Appended DEF TypeOK
    <3> QED BY <1>1, <2>1, <2>2, <3>1 DEF TypeOK, Take, Points
  <2>3. CASE \E p \in Pools : /\ pools' = [pools EXCEPT ![k] = p]
                              /\ slots' = [slots EXCEPT ![p] = <<c>>]
                              /\ waiters' = [waiters EXCEPT ![p] = <<>>]
    BY <1>1, <2>1, <2>3, Single, Empty DEF TypeOK, Take, Points
  <2> QED BY <1>1, <2>2, <2>3 DEF Take
<1>2. ASSUME NEW c \in Calls, NEW k \in Keys, FindFull(c, k) PROVE TypeOK'
  BY <1>2 DEF TypeOK, FindFull, Points
<1>3. ASSUME NEW c \in Calls, Enqueue(c) PROVE TypeOK'
  <2>1. mine[c] = None \/ Append(waiters[mine[c]], c) \in Seq(Calls)
    BY Appended DEF TypeOK
  <2>2. stale' \in BOOLEAN
    BY <1>3 DEF Enqueue
  <2> QED BY <1>3, <2>1, <2>2, NoneAssumption DEF TypeOK, Enqueue, Points
<1>4. ASSUME NEW c \in Calls, Protect(c) \/ Cancel(c) \/ Lose(c) \/ Resume(c) PROVE TypeOK'
  BY <1>4 DEF TypeOK, Protect, Cancel, Lose, Resume, Points
<1>5. ASSUME NEW c \in Calls, Release(c) PROVE TypeOK'
  BY <1>5, FreeType DEF TypeOK, Release, Points
<1>6. ASSUME NEW c \in Calls, Abandon(c) PROVE TypeOK'
  <2>1. CASE granted[c] /\ Free(c)
    BY <1>6, <2>1, FreeType DEF TypeOK, Abandon, Points
  <2>2. CASE ~granted[c]
    <3>1. mine[c] = None \/ Splice(waiters[mine[c]], c) \in Seq(Calls)
      BY SpliceType DEF TypeOK
    <3>0. waiters' = [waiters EXCEPT ![mine[c]] = Splice(waiters[mine[c]], c)]
      BY <1>6, <2>2 DEF Abandon
    <3>2. waiters' \in [Pools -> Seq(Calls)]
      <4>1. CASE mine[c] \in Pools
        BY <3>0, <3>1, <4>1, NoneAssumption DEF TypeOK
      <4>2. CASE mine[c] = None
        BY <3>0, <4>2, NoneAssumption DEF TypeOK
      <4> QED BY <4>1, <4>2 DEF TypeOK
    <3>3. pools' \in [Keys -> Pools \cup {None}]
      BY <1>6, <2>2 DEF TypeOK, Abandon
    <3> QED BY <1>6, <2>2, <3>2, <3>3 DEF TypeOK, Abandon, Points
  <2> QED BY <1>6, <2>1, <2>2 DEF Abandon
<1>7. CASE UNCHANGED vars
  BY <1>7 DEF TypeOK, vars
<1> QED BY <1>1, <1>2, <1>3, <1>4, <1>5, <1>6, <1>7 DEF Next

-----------------------------------------------------------------------------
(* Each action keeps the invariant.                                        *)

\* A call that finds room.
LEMMA TakeGood ==
  ASSUME TypeOK, Good, NEW c \in Calls, NEW k \in Keys, Take(c, k) PROVE Good'
<1>0. /\ at[c] = "none" /\ ~granted[c] /\ mine[c] = None
      /\ at' = [at EXCEPT ![c] = "holding"] /\ of' = [of EXCEPT ![c] = k]
      /\ granted' = [granted EXCEPT ![c] = TRUE] /\ mine' = mine
  BY DEF Take, Good, CallOK
<1>1. /\ \A d \in Calls : d # c => at'[d] = at[d] /\ of'[d] = of[d] /\ granted'[d] = granted[d]
      /\ at'[c] = "holding" /\ of'[c] = k /\ granted'[c]
  BY <1>0 DEF TypeOK
<1>2. CASE /\ pools[k] # None /\ Room(pools[k])
           /\ slots' = [slots EXCEPT ![pools[k]] = Append(@, c)]
           /\ UNCHANGED <<pools, waiters>>
  <2> DEFINE p == pools[k]
  <2>1. p \in Pools /\ slots[p] \in Seq(Calls) /\ Len(slots[p]) \in Nat /\ Distinct(slots[p])
    BY <1>2, LenProperties DEF TypeOK, Good, PoolOK
  <2>2. ~Contains(slots[p], c)
    BY <1>0, <1>2 DEF Good, Members
  <2>3. slots'[p] = Append(slots[p], c) /\ \A q \in Pools : q # p => slots'[q] = slots[q]
    BY <1>2, <2>1 DEF TypeOK
  <2>4. /\ slots'[p] # <<>> /\ Len(slots'[p]) = Len(slots[p]) + 1 /\ Distinct(slots'[p])
        /\ \A d : Contains(slots'[p], d) <=> Contains(slots[p], d) \/ d = c
    BY <2>1, <2>2, <2>3, Appended
  <2>5. waiters[p] = <<>>
    BY <1>2, <2>1, LimitAssumption DEF Good, PoolOK, Room
  <2>6. Owner'
    BY <1>2 DEF Good, Owner
  <2>7. ASSUME NEW j \in Keys PROVE PoolOK(j)' /\ Members(j)'
    <3>1. CASE j = k
      <4>1. PoolOK(j)'
        BY <1>2, <2>1, <2>3, <2>4, <2>5, <3>1, LimitAssumption DEF Good, PoolOK, Room
      <4>2. Members(j)'
        BY <1>0, <1>1, <1>2, <2>1, <2>3, <2>4, <3>1 DEF Good, Members, InLine
      <4> QED BY <4>1, <4>2
    <3>2. CASE j # k
      <4>1. pools[j] = None \/ (pools[j] \in Pools /\ pools[j] # p)
        BY <1>2, <3>2 DEF Good, Owner, TypeOK
      <4>2. PoolOK(j)'
        BY <1>2, <2>3, <4>1 DEF Good, PoolOK
      <4>3. Members(j)'
        BY <1>0, <1>1, <1>2, <2>3, <3>2, <4>1 DEF Good, Members, InLine
      <4> QED BY <4>2, <4>3
    <3> QED BY <3>1, <3>2
  <2>8. ASSUME NEW d \in Calls PROVE CallOK(d)'
    <3>1. mine[d] # None /\ mine[d] # pools[of[d]] => mine[d] # p /\ mine[d] \in Pools
      BY <1>2 DEF Good, CallOK, TypeOK
    <3> QED BY <1>0, <1>1, <1>2, <2>3, <3>1 DEF Good, CallOK
  <2> QED BY <2>6, <2>7, <2>8 DEF Good
<1>3. CASE /\ pools[k] = None
           /\ \E p \in Pools : /\ Fresh(p)
                               /\ pools' = [pools EXCEPT ![k] = p]
                               /\ slots' = [slots EXCEPT ![p] = <<c>>]
                               /\ waiters' = [waiters EXCEPT ![p] = <<>>]
  <2>1. PICK p \in Pools : /\ Fresh(p)
                           /\ pools' = [pools EXCEPT ![k] = p]
                           /\ slots' = [slots EXCEPT ![p] = <<c>>]
                           /\ waiters' = [waiters EXCEPT ![p] = <<>>]
    BY <1>3
  <2>2. /\ pools'[k] = p /\ \A j \in Keys : j # k => pools'[j] = pools[j] /\ pools[j] # p
        /\ slots'[p] = <<c>> /\ \A q \in Pools : q # p => slots'[q] = slots[q]
        /\ waiters'[p] = <<>> /\ \A q \in Pools : q # p => waiters'[q] = waiters[q]
        /\ p # None
    BY <2>1, NoneAssumption DEF TypeOK, Fresh
  <2>3. Owner'
    BY <2>2 DEF Good, Owner
  <2>4. ASSUME NEW j \in Keys PROVE PoolOK(j)' /\ Members(j)'
    <3>1. CASE j = k
      <4>0. /\ <<c>> # <<>> /\ Len(<<c>>) = 1 /\ Distinct(<<c>>) /\ Distinct(<<>>)
            /\ \A d : (Contains(<<c>>, d) <=> d = c) /\ ~Contains(<<>>, d)
        BY Single, Empty
      <4>1. PoolOK(j)'
        <5>1. /\ pools'[j] = p /\ slots'[p] = <<c>> /\ waiters'[p] = <<>>
              /\ Len(<<c>>) <= Limit
          BY <2>2, <3>1, <4>0, LimitAssumption
        <5> QED BY <4>0, <5>1, Zenon DEF PoolOK
      <4>2. Members(j)'
        BY <1>1, <1>3, <2>2, <3>1, <4>0 DEF Good, Members
      <4> QED BY <4>1, <4>2
    <3>2. CASE j # k
      <4>1. pools[j] = None \/ (pools[j] \in Pools /\ pools[j] # p)
        BY <2>2, <3>2 DEF TypeOK
      <4>2. PoolOK(j)'
        BY <2>2, <3>2, <4>1 DEF Good, PoolOK
      <4>3. Members(j)'
        BY <1>0, <1>1, <2>2, <3>2, <4>1 DEF Good, Members, InLine
      <4> QED BY <4>2, <4>3
    <3> QED BY <3>1, <3>2
  <2>5. ASSUME NEW d \in Calls PROVE CallOK(d)'
    <3>1. mine[d] # p /\ (mine[d] # None => mine[d] \in Pools)
      BY <2>1 DEF Fresh, TypeOK
    <3>2. d # c /\ of[d] = k => at[d] \notin InLine /\ ~granted[d]
      BY <1>3 DEF Good, Members
    <3>3. CASE d = c
      BY <1>0, <1>1, <3>3 DEF Good, CallOK
    <3>4. CASE d # c
      <4>1. of[d] \in Keys /\ at'[d] = at[d] /\ of'[d] = of[d] /\ mine'[d] = mine[d] /\ CallOK(d)
        BY <1>0, <1>1, <3>4 DEF TypeOK, Good
      <4>2. at[d] \in {"queued", "waiting"} => pools'[of[d]] = pools[of[d]]
        BY <2>2, <3>2, <3>4, <4>1 DEF InLine
      <4>3. mine[d] # None /\ mine[d] # pools'[of[d]] => mine[d] # pools[of[d]]
        BY <1>3, <2>2, <4>1
      <4> QED BY <1>1, <2>2, <3>1, <3>4, <4>1, <4>2, <4>3 DEF CallOK
    <3> QED BY <3>3, <3>4
  <2> QED BY <2>3, <2>4, <2>5 DEF Good
<1> QED BY <1>2, <1>3 DEF Take

\* A call that finds the pool full.
LEMMA FindFullGood ==
  ASSUME TypeOK, Good, NEW c \in Calls, NEW k \in Keys, FindFull(c, k) PROVE Good'
<1>1. /\ \A d \in Calls : d # c => at'[d] = at[d] /\ of'[d] = of[d] /\ mine'[d] = mine[d]
      /\ at'[c] = "full" /\ of'[c] = k /\ mine'[c] = pools[k] /\ pools[k] # None
      /\ at[c] = "none" /\ ~granted[c]
      /\ UNCHANGED <<pools, slots, waiters, granted>>
  BY DEF FindFull, TypeOK, Good, CallOK
<1>2. Owner' /\ \A j \in Keys : PoolOK(j)'
  BY <1>1 DEF Good, Owner, PoolOK
<1>3. ASSUME NEW j \in Keys PROVE Members(j)'
  BY <1>1 DEF Good, Members, InLine
<1>4. ASSUME NEW d \in Calls PROVE CallOK(d)'
  BY <1>1 DEF Good, CallOK, Owner
<1> QED BY <1>2, <1>3, <1>4 DEF Good

\* A call that queues on a pool that is still full, hence still in the map.
LEMMA EnqueueGood ==
  ASSUME TypeOK, Good, NEW c \in Calls, Enqueue(c), ~stale' PROVE Good'
<1> DEFINE k == of[c]  p == mine[c]
<1>1. /\ at[c] = "full" /\ ~Room(p) /\ p # None /\ ~granted[c] /\ k \in Keys /\ p \in Pools
      /\ waiters' = [waiters EXCEPT ![p] = Append(@, c)]
      /\ at' = [at EXCEPT ![c] = "queued"]
      /\ UNCHANGED <<pools, slots, of, mine, granted>>
  BY DEF Enqueue, TypeOK, Good, CallOK
<1>2. slots[p] # <<>>
  BY <1>1, EmptySeq, LimitAssumption DEF Room
<1>3. pools[k] = p
  BY <1>1, <1>2 DEF Good, CallOK
<1>4. Len(slots[p]) = Limit
  BY <1>1, <1>3, LenProperties, LimitAssumption DEF Good, PoolOK, Room, TypeOK
<1>5. ~Contains(waiters[p], c) /\ waiters[p] \in Seq(Calls) /\ Distinct(waiters[p])
  BY <1>1, <1>3 DEF Good, Members, PoolOK, InLine, TypeOK
<1>6. waiters'[p] = Append(waiters[p], c) /\ \A q \in Pools : q # p => waiters'[q] = waiters[q]
  BY <1>1 DEF TypeOK
<1>7. /\ Distinct(waiters'[p])
      /\ \A d : Contains(waiters'[p], d) <=> Contains(waiters[p], d) \/ d = c
  BY <1>5, <1>6, Appended
<1>8. at'[c] = "queued" /\ \A d \in Calls : d # c => at'[d] = at[d]
  BY <1>1 DEF TypeOK
<1>9. Owner'
  BY <1>1 DEF Good, Owner
<1>10. ASSUME NEW j \in Keys PROVE PoolOK(j)' /\ Members(j)'
  <2>1. CASE j = k
    <3>1. PoolOK(j)'
      BY <1>1, <1>3, <1>4, <1>7, <2>1 DEF Good, PoolOK
    <3>2. Members(j)'
      BY <1>1, <1>3, <1>7, <1>8, <2>1 DEF Good, Members, InLine
    <3> QED BY <3>1, <3>2
  <2>2. CASE j # k
    <3>1. pools[j] = None \/ (pools[j] \in Pools /\ pools[j] # p)
      BY <1>1, <1>3, <2>2 DEF Good, Owner, TypeOK
    <3>2. PoolOK(j)'
      BY <1>1, <1>6, <3>1 DEF Good, PoolOK
    <3>3. Members(j)'
      BY <1>1, <1>6, <1>8, <2>2, <3>1 DEF Good, Members, InLine
    <3> QED BY <3>2, <3>3
  <2> QED BY <2>1, <2>2
<1>11. ASSUME NEW d \in Calls PROVE CallOK(d)'
  BY <1>1, <1>3, <1>8 DEF Good, CallOK
<1> QED BY <1>9, <1>10, <1>11 DEF Good

\* Steps of one call that leave the pools alone.
LEMMA QuietGood ==
  ASSUME TypeOK, Good, NEW c \in Calls, Protect(c) \/ Cancel(c) \/ Lose(c) \/ Resume(c)
  PROVE  Good'
<1>1. UNCHANGED <<pools, slots, waiters, of, granted>>
  BY DEF Protect, Cancel, Lose, Resume
<1>2. \A d \in Calls : d # c => at'[d] = at[d] /\ mine'[d] = mine[d]
  BY DEF Protect, Cancel, Lose, Resume, TypeOK
<1>3. \/ at[c] = "queued" /\ at'[c] = "waiting" /\ mine'[c] = mine[c]
      \/ at[c] = "full" /\ at'[c] = "none" /\ mine'[c] = None
      \/ at[c] = "queued" /\ at'[c] = "lost" /\ mine'[c] = None
      \/ at[c] = "waiting" /\ granted[c] /\ at'[c] = "holding" /\ mine'[c] = None
  BY DEF Protect, Cancel, Lose, Resume, TypeOK
<1>4. Owner' /\ \A j \in Keys : PoolOK(j)'
  BY <1>1 DEF Good, Owner, PoolOK
<1>5. ASSUME NEW j \in Keys PROVE Members(j)'
  <2>1. \A d \in Calls : ~granted[d] => (at'[d] \in InLine <=> at[d] \in InLine)
    BY <1>2, <1>3 DEF InLine
  <2>2. \A d \in Calls : at[d] \notin InLine => at'[d] \notin InLine
    BY <1>2, <1>3 DEF InLine
  <2> QED BY <1>1, <2>1, <2>2 DEF Good, Members
<1>6. ASSUME NEW d \in Calls PROVE CallOK(d)'
  BY <1>1, <1>2, <1>3 DEF Good, CallOK
<1> QED BY <1>4, <1>5, <1>6 DEF Good

\* A call that leaves the line.
LEMMA LeaveGood ==
  ASSUME TypeOK, Good, NEW c \in Calls, Abandon(c), ~granted[c] PROVE Good'
<1> DEFINE k == of[c]  p == mine[c]
<1>1. /\ at[c] = "waiting" /\ p = pools[k] /\ p # None /\ k \in Keys /\ p \in Pools
      /\ waiters' = [waiters EXCEPT ![p] = Splice(@, c)]
      /\ at' = [at EXCEPT ![c] = "none"] /\ mine' = [mine EXCEPT ![c] = None]
      /\ UNCHANGED <<slots, of, granted>>
  BY DEF Abandon, TypeOK, Good, CallOK
<1>2. slots[p] # <<>> /\ Distinct(waiters[p]) /\ waiters[p] \in Seq(Calls) /\ Contains(waiters[p], c)
  BY <1>1 DEF Good, PoolOK, Members, InLine, TypeOK
<1>3. pools' = pools
  BY <1>1, <1>2 DEF Abandon, TypeOK
<1>4. /\ Distinct(Splice(waiters[p], c))
      /\ \A d : Contains(Splice(waiters[p], c), d) <=> Contains(waiters[p], d) /\ d # c
  BY <1>2, Spliced
<1>5. waiters[p] # <<>>
  BY <1>2, Empty
<1>6. waiters'[p] = Splice(waiters[p], c) /\ \A q \in Pools : q # p => waiters'[q] = waiters[q]
  BY <1>1 DEF TypeOK
<1>7. /\ at'[c] = "none" /\ mine'[c] = None
      /\ \A d \in Calls : d # c => at'[d] = at[d] /\ mine'[d] = mine[d]
  BY <1>1 DEF TypeOK
<1>8. Owner'
  BY <1>3 DEF Good, Owner
<1>9. ASSUME NEW j \in Keys PROVE PoolOK(j)' /\ Members(j)'
  <2>1. CASE j = k
    <3>1. PoolOK(j)'
      BY <1>1, <1>3, <1>4, <1>5, <1>6, <2>1 DEF Good, PoolOK
    <3>2. Members(j)'
      BY <1>1, <1>3, <1>4, <1>6, <1>7, <2>1 DEF Good, Members, InLine
    <3> QED BY <3>1, <3>2
  <2>2. CASE j # k
    <3>1. pools[j] = None \/ (pools[j] \in Pools /\ pools[j] # p)
      BY <1>1, <2>2 DEF Good, Owner, TypeOK
    <3>2. PoolOK(j)'
      BY <1>1, <1>3, <1>6, <3>1 DEF Good, PoolOK
    <3>3. Members(j)'
      BY <1>1, <1>3, <1>6, <1>7, <2>2, <3>1 DEF Good, Members, InLine
    <3> QED BY <3>2, <3>3
  <2> QED BY <2>1, <2>2
<1>10. ASSUME NEW d \in Calls PROVE CallOK(d)'
  BY <1>1, <1>3, <1>7 DEF Good, CallOK
<1> QED BY <1>8, <1>9, <1>10 DEF Good

\* A slot released with nobody in line.
LEMMA FreeIdleGood ==
  ASSUME TypeOK, Good, NEW c \in Calls, granted[c],
         Free(c), waiters[pools[of[c]]] = <<>>,
         at' = [at EXCEPT ![c] = "none"], mine' = [mine EXCEPT ![c] = None], of' = of
  PROVE  Good'
<1> DEFINE k == of[c]  p == pools[k]  left == Splice(slots[p], c)
<1>1. k \in Keys /\ p # None /\ p \in Pools
  BY DEF TypeOK, Good, Members
<1>2. /\ slots' = [slots EXCEPT ![p] = left]
      /\ pools' = [pools EXCEPT ![k] = IF left = <<>> THEN None ELSE @]
      /\ granted' = [granted EXCEPT ![c] = FALSE]
      /\ waiters' = waiters
  BY <1>1 DEF Free
<1>3. slots[p] \in Seq(Calls) /\ Distinct(slots[p]) /\ Contains(slots[p], c) /\ Len(slots[p]) <= Limit
  BY <1>1 DEF Good, PoolOK, Members, TypeOK
<1>4. /\ Len(left) <= Limit /\ Distinct(left)
      /\ \A d : Contains(left, d) <=> Contains(slots[p], d) /\ d # c
  <2>1. Len(left) = Len(slots[p]) - 1 /\ Len(slots[p]) \in Nat
    BY <1>3, Spliced, LenProperties
  <2> QED BY <1>3, <2>1, Spliced, LimitAssumption
<1> HIDE DEF left
<1>5. /\ slots'[p] = left /\ \A q \in Pools : q # p => slots'[q] = slots[q]
      /\ at'[c] = "none" /\ mine'[c] = None /\ ~granted'[c]
      /\ \A d \in Calls : d # c => /\ at'[d] = at[d] /\ mine'[d] = mine[d]
                                   /\ granted'[d] = granted[d]
      /\ \A j \in Keys : j # k => pools'[j] = pools[j]
      /\ pools'[k] = (IF left = <<>> THEN None ELSE p)
  BY <1>1, <1>2 DEF TypeOK
<1>6. \A d \in Calls : of[d] = k => /\ at[d] \in InLine => granted[d]
                                    /\ granted[d] /\ d # c => Contains(left, d)
  BY <1>1, <1>4, Empty DEF Good, Members
<1>7. ASSUME left = <<>>
      PROVE  \A d \in Calls : d # c /\ of[d] = k => ~granted[d] /\ at[d] \notin InLine
  <2>1. \A d \in Calls : ~Contains(left, d)
    BY <1>7, Empty
  <2>2. ASSUME NEW d \in Calls, d # c, of[d] = k PROVE ~granted[d] /\ at[d] \notin InLine
    <3>1. ~granted[d]
      BY <1>6, <2>1, <2>2
    <3>2. at[d] \in InLine => granted[d]
      BY <1>6, <2>2, Zenon
    <3> QED BY <3>1, <3>2
  <2> QED BY <2>2
<1>8. Owner'
  BY <1>5, <1>1 DEF Good, Owner
<1>9. ASSUME NEW j \in Keys PROVE PoolOK(j)' /\ Members(j)'
  <2>1. CASE j = k
    <3>1. PoolOK(j)'
      BY <1>1, <1>2, <1>4, <1>5, <2>1 DEF Good, PoolOK
    <3>2. ASSUME left = <<>> PROVE Members(j)'
      <4>1. pools'[j] = None
        BY <1>5, <2>1, <3>2
      <4>2. ASSUME NEW d \in Calls, of'[d] = j PROVE ~granted'[d] /\ at'[d] \notin InLine
        <5>1. of[d] = k
          BY <2>1, <4>2
        <5> QED BY <1>5, <1>6, <1>7, <3>2, <5>1 DEF InLine
      <4> QED BY <4>1, <4>2 DEF Members
    <3>3. ASSUME left # <<>> PROVE Members(j)'
      <4>1. pools'[j] = p
        BY <1>5, <2>1, <3>3
      <4>2. ASSUME NEW d \in Calls
            PROVE  /\ Contains(left, d) <=> of'[d] = j /\ granted'[d]
                   /\ Contains(waiters[p], d) <=> of'[d] = j /\ at'[d] \in InLine /\ ~granted'[d]
        <5>1. /\ Contains(slots[p], d) <=> of[d] = k /\ granted[d]
              /\ Contains(waiters[p], d) <=> of[d] = k /\ at[d] \in InLine /\ ~granted[d]
          BY <1>1 DEF Good, Members
        <5>2. CASE d = c
          BY <1>4, <1>5, <2>1, <5>1, <5>2 DEF InLine
        <5>3. CASE d # c
          BY <1>4, <1>5, <2>1, <5>1, <5>3
        <5> QED BY <5>2, <5>3
      <4> QED BY <1>1, <1>2, <1>5, <4>1, <4>2 DEF Members
    <3> QED BY <3>1, <3>2, <3>3
  <2>2. CASE j # k
    <3>1. pools[j] = None \/ (pools[j] \in Pools /\ pools[j] # p)
      BY <1>1, <2>2 DEF Good, Owner, TypeOK
    <3>2. PoolOK(j)'
      BY <1>2, <1>5, <2>2, <3>1 DEF Good, PoolOK
    <3>3. Members(j)'
      BY <1>2, <1>5, <2>2, <3>1 DEF Good, Members, InLine
    <3> QED BY <3>2, <3>3
  <2> QED BY <2>1, <2>2
<1>10. ASSUME NEW d \in Calls PROVE CallOK(d)'
  <2>1. CASE d = c
    BY <1>5, <2>1 DEF CallOK
  <2>2. CASE d # c
    <3>1. CallOK(d) /\ of[d] \in Keys /\ at'[d] = at[d] /\ mine'[d] = mine[d] /\ granted'[d] = granted[d]
      BY <1>5, <2>2 DEF Good, TypeOK
    <3>2. at[d] \in {"queued", "waiting"} => pools'[of[d]] = pools[of[d]]
      <4>1. CASE of[d] # k
        BY <1>5, <3>1, <4>1
      <4>2. ASSUME of[d] = k, at[d] \in {"queued", "waiting"} PROVE pools'[k] = p
        <5>1. left # <<>>
          BY <1>6, <1>7, <2>2, <4>2 DEF InLine
        <5> QED BY <1>5, <5>1
      <4> QED BY <4>1, <4>2
    <3>3. ASSUME at[d] = "full", mine[d] # pools'[of[d]] PROVE slots'[mine[d]] = <<>>
      <4>1. mine[d] # None /\ mine[d] \in Pools
        BY <3>1, <3>3 DEF CallOK, TypeOK
      <4>2. CASE mine[d] = p
        BY <1>1, <1>5, <3>1, <3>3, <4>1, <4>2 DEF CallOK
      <4>3. CASE mine[d] # p
        BY <1>5, <3>1, <3>3, <4>1, <4>3 DEF CallOK
      <4> QED BY <4>2, <4>3
    <3>4. \A j \in Keys : mine[d] = pools'[j] /\ mine[d] # None => of[d] = j
      BY <1>5, <3>1 DEF CallOK
    <3> QED BY <3>1, <3>2, <3>3, <3>4 DEF CallOK
  <2> QED BY <2>1, <2>2
<1> QED BY <1>8, <1>9, <1>10 DEF Good

\* A slot handed to the first in line.
LEMMA FreeHandGood ==
  ASSUME TypeOK, Good, NEW c \in Calls, granted[c],
         Free(c), waiters[pools[of[c]]] # <<>>,
         at' = [at EXCEPT ![c] = "none"], mine' = [mine EXCEPT ![c] = None], of' = of
  PROVE  Good'
<1> DEFINE k == of[c]  p == pools[k]  left == Splice(slots[p], c)
           n == Head(waiters[p])  rest == Tail(waiters[p])
<1>1. k \in Keys /\ p # None /\ p \in Pools
  BY DEF TypeOK, Good, Members
<1>2. /\ slots' = [slots EXCEPT ![p] = Append(left, n)]
      /\ waiters' = [waiters EXCEPT ![p] = rest]
      /\ granted' = [granted EXCEPT ![c] = FALSE, ![n] = TRUE]
      /\ pools' = pools
  BY <1>1 DEF Free
<1>3. /\ slots[p] \in Seq(Calls) /\ Distinct(slots[p]) /\ Contains(slots[p], c)
      /\ waiters[p] \in Seq(Calls) /\ Distinct(waiters[p]) /\ Len(slots[p]) = Limit
  BY <1>1 DEF Good, PoolOK, Members, TypeOK
<1>4. /\ left \in Seq(Calls) /\ Len(left) = Limit - 1 /\ Distinct(left)
      /\ \A d : Contains(left, d) <=> Contains(slots[p], d) /\ d # c
  BY <1>3, Spliced
<1>5. /\ n \in Calls /\ Contains(waiters[p], n) /\ Distinct(rest)
      /\ \A d : Contains(rest, d) <=> Contains(waiters[p], d) /\ d # n
  BY <1>3, Shifted
<1> HIDE DEF left, n, rest
<1>6. of[n] = k /\ at[n] \in InLine /\ ~granted[n] /\ n # c /\ ~Contains(left, n)
  BY <1>1, <1>4, <1>5 DEF Good, Members
<1> DEFINE full == Append(left, n)
<1>7. /\ full # <<>> /\ Len(full) = Limit /\ Distinct(full)
      /\ \A d : Contains(full, d) <=> Contains(left, d) \/ d = n
  <2>1. Len(full) = Len(left) + 1
    BY <1>4, <1>5, Appended
  <2>2. Len(full) = Limit
    BY <1>4, <2>1, LimitAssumption
  <2> QED BY <1>4, <1>5, <1>6, <2>2, Appended
<1> HIDE DEF full
<1>8. /\ slots'[p] = full /\ \A q \in Pools : q # p => slots'[q] = slots[q]
      /\ waiters'[p] = rest /\ \A q \in Pools : q # p => waiters'[q] = waiters[q]
  BY <1>1, <1>2 DEF TypeOK, full
<1>9. /\ at'[c] = "none" /\ mine'[c] = None /\ ~granted'[c] /\ granted'[n]
      /\ \A d \in Calls : d # c => at'[d] = at[d] /\ mine'[d] = mine[d]
      /\ \A d \in Calls : d # c /\ d # n => granted'[d] = granted[d]
  <2>1. \A d \in Calls : d # c => at'[d] = at[d] /\ mine'[d] = mine[d]
    BY DEF TypeOK
  <2>2. at'[c] = "none" /\ mine'[c] = None
    BY DEF TypeOK
  <2>3. /\ ~granted'[c] /\ granted'[n]
        /\ \A d \in Calls : d # c /\ d # n => granted'[d] = granted[d]
    BY <1>2, <1>5, <1>6, Zenon DEF TypeOK
  <2> QED BY <2>1, <2>2, <2>3
<1>10. Owner'
  BY <1>2 DEF Good, Owner
<1>11. ASSUME NEW j \in Keys PROVE PoolOK(j)' /\ Members(j)'
  <2>1. CASE j = k
    <3>1. PoolOK(j)'
      BY <1>1, <1>2, <1>5, <1>7, <1>8, <2>1, LimitAssumption DEF Good, PoolOK
    <3>2. ASSUME NEW d \in Calls
          PROVE  /\ Contains(full, d) <=> of'[d] = j /\ granted'[d]
                 /\ Contains(rest, d) <=> of'[d] = j /\ at'[d] \in InLine /\ ~granted'[d]
      <4>1. /\ Contains(slots[p], d) <=> of[d] = k /\ granted[d]
            /\ Contains(waiters[p], d) <=> of[d] = k /\ at[d] \in InLine /\ ~granted[d]
        BY <1>1 DEF Good, Members
      <4>2. CASE d = c
        BY <1>4, <1>5, <1>6, <1>7, <1>9, <2>1, <4>1, <4>2 DEF InLine
      <4>3. CASE d = n
        BY <1>4, <1>5, <1>6, <1>7, <1>9, <2>1, <4>1, <4>3 DEF InLine
      <4>4. CASE d # c /\ d # n
        BY <1>4, <1>5, <1>7, <1>9, <2>1, <4>1, <4>4
      <4> QED BY <4>2, <4>3, <4>4
    <3>3. Members(j)'
      <4>1. pools'[j] = p /\ p # None /\ slots'[p] = full /\ waiters'[p] = rest
        BY <1>1, <1>2, <1>8, <2>1
      <4> QED BY <3>2, <4>1 DEF Members
    <3> QED BY <3>1, <3>3
  <2>2. CASE j # k
    <3>1. pools[j] = None \/ (pools[j] \in Pools /\ pools[j] # p)
      BY <1>1, <2>2 DEF Good, Owner, TypeOK
    <3>2. PoolOK(j)'
      BY <1>2, <1>8, <2>2, <3>1 DEF Good, PoolOK
    <3>3. \A d \in Calls : of[d] = j => at'[d] = at[d] /\ granted'[d] = granted[d]
      BY <1>6, <1>9, <2>2
    <3>4. Members(j)'
      <4>1. pools'[j] = pools[j] /\ Members(j)
        BY <1>2 DEF Good
      <4>2. pools[j] # None => slots'[pools[j]] = slots[pools[j]] /\ waiters'[pools[j]] = waiters[pools[j]]
        BY <1>8, <3>1
      <4>3. ASSUME NEW d \in Calls
            PROVE  of'[d] = of[d] /\ (of[d] = j => at'[d] = at[d] /\ granted'[d] = granted[d])
        BY <3>3
      <4> QED BY <4>1, <4>2, <4>3 DEF Members
    <3> QED BY <3>2, <3>4
  <2> QED BY <2>1, <2>2
<1>12. ASSUME NEW d \in Calls PROVE CallOK(d)'
  <2>1. CASE d = c
    BY <1>9, <2>1 DEF CallOK
  <2>2. CASE d # c
    <3>1. CallOK(d) /\ of[d] \in Keys /\ at'[d] = at[d] /\ mine'[d] = mine[d]
      BY <1>9, <2>2 DEF Good, TypeOK
    <3>2. at[d] \in {"none", "full"} => ~granted'[d]
      BY <1>6, <1>9, <2>2, <3>1 DEF CallOK, InLine
    <3>3. at[d] = "holding" => granted'[d]
      BY <1>9, <2>2, <3>1 DEF CallOK
    <3>4. at[d] = "full" /\ mine[d] # pools[of[d]] => slots'[mine[d]] = <<>>
      <4>1. SUFFICES ASSUME at[d] = "full", mine[d] # pools[of[d]] PROVE slots'[mine[d]] = <<>>
        OBVIOUS
      <4>2. mine[d] \in Pools /\ slots[mine[d]] = <<>> /\ mine[d] # None
        BY <3>1, <4>1 DEF CallOK, TypeOK
      <4>3. mine[d] # p
        BY <1>1, <3>1, <4>1, <4>2 DEF CallOK
      <4> QED BY <1>8, <4>2, <4>3
    <3> QED BY <1>2, <3>1, <3>2, <3>3, <3>4 DEF CallOK
  <2> QED BY <2>1, <2>2
<1> QED BY <1>10, <1>11, <1>12 DEF Good

-----------------------------------------------------------------------------
(* The theorems.                                                           *)

LEMMA InitIInv == Init => IInv
<1> SUFFICES ASSUME Init PROVE IInv
  OBVIOUS
<1>1. TypeOK
  <2>1. granted \in [Calls -> BOOLEAN]
    BY Zenon DEF Init
  <2>2. <<>> \in Seq(Calls)
    BY Empty
  <2> QED BY <2>1, <2>2 DEF Init, TypeOK, Points
<1>2. \A k \in Keys : pools[k] = None
  BY DEF Init
<1>3. \A c \in Calls : at[c] = "none" /\ ~granted[c] /\ mine[c] = None
  BY DEF Init
<1>4. Good
  BY <1>2, <1>3 DEF Good, Owner, PoolOK, Members, CallOK, InLine
<1> QED BY <1>1, <1>4 DEF IInv

LEMMA NextIInv == IInv /\ [Next]_vars => IInv'
<1> SUFFICES ASSUME IInv, [Next]_vars PROVE IInv'
  OBVIOUS
<1>1. TypeOK /\ TypeOK'
  BY NextType DEF IInv
<1>2. SUFFICES ASSUME ~stale' PROVE Good'
  BY <1>1 DEF IInv
<1>3. CASE UNCHANGED vars
  BY <1>2, <1>3 DEF IInv, vars, Good, Owner, PoolOK, Members, CallOK
<1>4. ASSUME NEW c \in Calls, NEW k \in Keys, Take(c, k) PROVE Good'
  BY <1>1, <1>2, <1>4, TakeGood DEF IInv, Take
<1>5. ASSUME NEW c \in Calls, NEW k \in Keys, FindFull(c, k) PROVE Good'
  BY <1>1, <1>2, <1>5, FindFullGood DEF IInv, FindFull
<1>6. ASSUME NEW c \in Calls, Enqueue(c) PROVE Good'
  BY <1>1, <1>2, <1>6, EnqueueGood DEF IInv, Enqueue
<1>7. ASSUME NEW c \in Calls, Protect(c) \/ Cancel(c) \/ Lose(c) \/ Resume(c) PROVE Good'
  <2>1. ~stale
    BY <1>2, <1>7 DEF Protect, Cancel, Lose, Resume
  <2> QED BY <1>1, <1>7, <2>1, QuietGood DEF IInv
<1>8. ASSUME NEW c \in Calls, Release(c) PROVE Good'
  <2>1. ~stale /\ Good
    BY <1>2, <1>8 DEF IInv, Release
  <2>2. granted[c] /\ mine[c] = None
    BY <1>8, <2>1 DEF Good, CallOK, Release
  <2>3. Free(c) /\ at' = [at EXCEPT ![c] = "none"] /\ of' = of /\ mine' = mine
    BY <1>8 DEF Release
  <2>4. mine' = [mine EXCEPT ![c] = None]
    BY <1>1, <2>2, <2>3 DEF TypeOK
  <2> QED BY <1>1, <2>1, <2>2, <2>3, <2>4, FreeIdleGood, FreeHandGood
<1>9. ASSUME NEW c \in Calls, Abandon(c) PROVE Good'
  <2>1. ~stale /\ Good
    BY <1>2, <1>9 DEF IInv, Abandon
  <2>2. CASE ~granted[c]
    BY <1>1, <1>9, <2>1, <2>2, LeaveGood
  <2>3. CASE granted[c]
    <3>1. Free(c) /\ at' = [at EXCEPT ![c] = "none"] /\ of' = of /\ mine' = [mine EXCEPT ![c] = None]
      BY <1>9, <2>3 DEF Abandon
    <3> QED BY <1>1, <2>1, <2>3, <3>1, FreeIdleGood, FreeHandGood
  <2> QED BY <2>2, <2>3
<1> QED BY <1>3, <1>4, <1>5, <1>6, <1>7, <1>8, <1>9 DEF Next

\* The invariant holds in every reachable state.
THEOREM Inductive == Spec => []IInv
<1>1. Init => IInv
  BY InitIInv
<1>2. IInv /\ [Next]_vars => IInv'
  BY NextIInv
<1> QED BY <1>1, <1>2, PTL DEF Spec

\* The variables keep their types, the anomaly included.
THEOREM Typing == Spec => []TypeOK
<1>1. IInv => TypeOK
  BY DEF IInv
<1> QED BY <1>1, Inductive, PTL

\* A set whose elements all occur in a sequence is no larger than it is long.
LEMMA Covered ==
  ASSUME NEW S, NEW s \in Seq(S), NEW T, \A d \in T : Contains(s, d)
  PROVE  IsFiniteSet(T) /\ Cardinality(T) <= Len(s)
<1> DEFINE I == 1..Len(s)  R == {s[i] : i \in I}
<1>1. Len(s) \in Nat /\ s \in [I -> R]
  BY LenProperties
<1>2. s \in Surjection(I, R)
  BY <1>1 DEF Surjection
<1>3. IsFiniteSet(I) /\ Cardinality(I) = Len(s)
  BY <1>1, FS_Interval
<1>4. IsFiniteSet(R) /\ Cardinality(R) <= Len(s)
  BY <1>2, <1>3, FS_Surjection
<1>5. T \in SUBSET R
  BY DEF Contains
<1>6. IsFiniteSet(T) /\ Cardinality(T) <= Cardinality(R)
  BY <1>4, <1>5, FS_Subset
<1>7. Cardinality(T) \in Nat /\ Cardinality(R) \in Nat
  BY <1>4, <1>6, FS_CardinalityType
<1> QED BY <1>1, <1>4, <1>6, <1>7

\* No family has more slots out than its cap, whatever releases, timeouts and
\* interrupts race, unless a call queued behind a check that no longer held.
THEOREM Capped == Spec => []CapHolds
<1>1. IInv => CapHolds
  <2> SUFFICES ASSUME IInv, ~stale, NEW k \in Keys PROVE Cardinality(Reserved(k)) <= Limit
    BY DEF CapHolds, FamilyCap
  <2>1. TypeOK /\ PoolOK(k) /\ Members(k)
    BY DEF IInv, Good
  <2>2. CASE pools[k] = None
    <3>1. Reserved(k) = {}
      BY <2>1, <2>2 DEF Members, Reserved
    <3> QED BY <3>1, FS_EmptySet, LimitAssumption
  <2>3. CASE pools[k] # None
    <3>1. slots[pools[k]] \in Seq(Calls) /\ Len(slots[pools[k]]) <= Limit
      BY <2>1, <2>3 DEF TypeOK, PoolOK
    <3>2. \A d \in Reserved(k) : Contains(slots[pools[k]], d)
      BY <2>1, <2>3 DEF Members, Reserved
    <3>3. IsFiniteSet(Reserved(k)) /\ Cardinality(Reserved(k)) <= Len(slots[pools[k]])
      BY <3>1, <3>2, Covered
    <3>4. Cardinality(Reserved(k)) \in Nat /\ Len(slots[pools[k]]) \in Nat
      BY <3>1, <3>3, FS_CardinalityType, LenProperties
    <3> QED BY <3>1, <3>3, <3>4, LimitAssumption
  <2> QED BY <2>2, <2>3
<1> QED BY <1>1, Inductive, PTL

\* No slot is idle while a call waits in line.
THEOREM NoneIdle == Spec => []NoIdleCapacity
<1>1. IInv => NoIdleCapacity
  BY DEF IInv, Good, PoolOK, NoIdleCapacity
<1> QED BY <1>1, Inductive, PTL

\* Slots and the calls that have one correspond, through every race of a timeout
\* or an interrupt with a grant.
THEOREM Owned == Spec => []SlotsOwned
<1>1. IInv => SlotsOwned
  <2> SUFFICES ASSUME IInv, ~stale, NEW k \in Keys
               PROVE  IF pools[k] = None THEN Reserved(k) = {}
                                         ELSE ToSet(slots[pools[k]]) = Reserved(k)
    BY DEF SlotsOwned
  <2>1. TypeOK /\ Members(k)
    BY DEF IInv, Good
  <2>2. CASE pools[k] = None
    BY <2>1, <2>2 DEF Members, Reserved
  <2>3. CASE pools[k] # None
    <3> DEFINE s == slots[pools[k]]
    <3>1. s \in Seq(Calls)
      BY <2>1, <2>3 DEF TypeOK
    <3>2. DOMAIN s = 1..Len(s) /\ \A i \in 1..Len(s) : s[i] \in Calls
      BY <3>1, LenProperties
    <3>3. \A c \in Calls : Contains(s, c) <=> c \in Reserved(k)
      BY <2>1, <2>3 DEF Members, Reserved
    <3> HIDE DEF s
    <3>4. \A c : c \in ToSet(s) <=> c \in Calls /\ Contains(s, c)
      BY <3>2 DEF ToSet, Contains
    <3>5. ToSet(s) = Reserved(k)
      BY <3>3, <3>4 DEF Reserved
    <3> QED BY <2>3, <3>5 DEF s
  <2> QED BY <2>2, <2>3
<1> QED BY <1>1, Inductive, PTL

\* The counter is sound: no more slots than the cap, each with its call, whatever
\* releases, timeouts and interrupts race, unless a call queued behind a check that
\* no longer held.
THEOREM Sound == Spec => []SlotInv
<1>1. CapHolds /\ SlotsOwned => SlotInv
  BY DEF SlotInv
<1> QED BY <1>1, Capped, Owned, PTL

-----------------------------------------------------------------------------
(* First come, first served.  Unlike the rest this holds whether or not a    *)
(* call has queued behind a check that no longer held, so it has an          *)
(* invariant of its own, about lines in every pool.                          *)

\* The calls in line at p, each once: without a slot, and where they think they are,
\* unless they are lost.
LineOK(p) ==
  /\ Distinct(waiters[p])
  /\ \A c \in Calls : Contains(waiters[p], c) =>
       /\ ~granted[c] /\ at[c] \in InLine
       /\ at[c] # "lost" => mine[c] = p
       /\ \A q \in Pools : Contains(waiters[q], c) => q = p

\* A call that is not in line yet has no slot; one that waits is in line until it has.
PlaceOK(c) ==
  /\ at[c] \in {"none", "full"} => ~granted[c]
  /\ at[c] = "holding" => granted[c]
  /\ at[c] \in {"full", "queued", "waiting"} => mine[c] \in Pools
  /\ at[c] \in {"queued", "waiting"} /\ ~granted[c] => Contains(waiters[mine[c]], c)

Lines == (\A p \in Pools : LineOK(p)) /\ (\A c \in Calls : PlaceOK(c))

\* A slot released or given back: the first in line leaves it, or nobody does.
LEMMA FreeLines ==
  ASSUME TypeOK, Lines, NEW c \in Calls, Free(c), granted[c],
         at' = [at EXCEPT ![c] = "none"], mine' = mine \/ mine' = [mine EXCEPT ![c] = None]
  PROVE  Lines'
<1> DEFINE p == pools[of[c]]
<1>1. /\ waiters \in [Pools -> Seq(Calls)] /\ granted \in [Calls -> BOOLEAN]
      /\ at \in [Calls -> Points] /\ mine \in [Calls -> Pools \cup {None}]
      /\ p \in Pools \cup {None}
  BY DEF TypeOK
<1>2. \A q \in Pools : ~Contains(waiters[q], c)
  BY DEF Lines, LineOK
<1>3. at'[c] = "none" /\ \A d \in Calls \ {c} : at'[d] = at[d] /\ mine'[d] = mine[d]
  BY <1>1
<1>4. CASE granted' = [granted EXCEPT ![c] = FALSE] /\ UNCHANGED waiters
  <2>1. granted'[c] = FALSE /\ \A d \in Calls \ {c} : granted'[d] = granted[d]
    BY <1>1, <1>4
  <2>2. \A q \in Pools : LineOK(q)'
    BY <1>2, <1>3, <1>4, <2>1 DEF Lines, LineOK
  <2>3. \A d \in Calls : PlaceOK(d)'
    BY <1>3, <1>4, <2>1 DEF Lines, PlaceOK
  <2> QED BY <2>2, <2>3 DEF Lines
<1>5. CASE /\ p # None /\ waiters[p] # <<>>
           /\ waiters' = [waiters EXCEPT ![p] = Tail(@)]
           /\ granted' = [granted EXCEPT ![c] = FALSE, ![Head(waiters[p])] = TRUE]
  <2> DEFINE h == Head(waiters[p])
  <2>1. p \in Pools /\ waiters[p] \in Seq(Calls) /\ Distinct(waiters[p])
    BY <1>1, <1>5 DEF Lines, LineOK
  <2>2. /\ h \in Calls /\ Tail(waiters[p]) \in Seq(Calls) /\ Contains(waiters[p], h)
        /\ Distinct(Tail(waiters[p]))
        /\ \A d : Contains(Tail(waiters[p]), d) <=> Contains(waiters[p], d) /\ d # h
    BY <1>5, <2>1, Shifted
  <2>3. waiters'[p] = Tail(waiters[p]) /\ \A q \in Pools \ {p} : waiters'[q] = waiters[q]
    BY <1>1, <1>5, <2>1
  <2>4. h # c
    BY <1>2, <2>1, <2>2
  <2> HIDE DEF h
  <2>5. /\ granted'[c] = FALSE /\ granted'[h] = TRUE
        /\ \A d \in Calls \ {c, h} : granted'[d] = granted[d]
    BY <1>1, <1>5, <2>2, <2>4 DEF h
  <2>6. \A q \in Pools : ~Contains(waiters'[q], h) /\ ~Contains(waiters'[q], c)
    BY <1>2, <2>1, <2>2, <2>3 DEF Lines, LineOK
  <2>7. \A q \in Pools, d \in Calls : Contains(waiters'[q], d) <=> Contains(waiters[q], d) /\ d # h
    BY <2>2, <2>3, <2>6
  <2>8. \A q \in Pools : Distinct(waiters'[q])
    BY <2>2, <2>3 DEF Lines, LineOK
  <2>9. \A q \in Pools : LineOK(q)'
    BY <1>3, <2>5, <2>6, <2>7, <2>8 DEF Lines, LineOK
  <2>10. ASSUME NEW d \in Calls
         PROVE  PlaceOK(d)'
    <3>1. CASE d = h
      BY <1>3, <2>1, <2>2, <2>4, <2>5, <3>1 DEF Lines, LineOK, PlaceOK, InLine
    <3>2. CASE d = c
      BY <1>3, <2>5, <3>2 DEF PlaceOK
    <3>3. CASE d \notin {c, h}
      BY <1>3, <2>5, <2>7, <3>3 DEF Lines, PlaceOK
    <3> QED BY <3>1, <3>2, <3>3
  <2> QED BY <2>9, <2>10 DEF Lines
<1> QED BY <1>4, <1>5 DEF Free

\* Every step keeps the lines in order.
LEMMA NextLines == TypeOK /\ Lines /\ [Next]_vars => Lines'
<1> SUFFICES ASSUME TypeOK, Lines, [Next]_vars
             PROVE  Lines'
  OBVIOUS
<1> USE NoneAssumption DEF Points, InLine
<1>0. /\ waiters \in [Pools -> Seq(Calls)] /\ granted \in [Calls -> BOOLEAN]
      /\ at \in [Calls -> Points] /\ mine \in [Calls -> Pools \cup {None}]
  BY DEF TypeOK
<1>1. ASSUME NEW c \in Calls, NEW k \in Keys, Take(c, k)
      PROVE  Lines'
  <2>1. \A q \in Pools : ~Contains(waiters[q], c)
    BY <1>1 DEF Lines, LineOK, Take
  <2>2. /\ at'[c] = "holding" /\ granted'[c] = TRUE
        /\ \A d \in Calls \ {c} : at'[d] = at[d] /\ granted'[d] = granted[d]
        /\ UNCHANGED mine
    BY <1>0, <1>1 DEF Take
  <2>3. CASE UNCHANGED waiters
    BY <2>1, <2>2, <2>3 DEF Lines, LineOK, PlaceOK
  <2>4. ASSUME NEW p \in Pools, Fresh(p), waiters' = [waiters EXCEPT ![p] = <<>>]
        PROVE  Lines'
    <3>1. /\ Distinct(waiters'[p]) /\ \A d : ~Contains(waiters'[p], d)
          /\ \A q \in Pools \ {p} : waiters'[q] = waiters[q]
      BY <1>0, <2>4, Empty
    <3>2. \A d \in Calls : mine[d] # p
      BY <2>4 DEF Fresh
    <3>3. \A q \in Pools : LineOK(q)'
      BY <2>1, <2>2, <3>1 DEF Lines, LineOK
    <3>4. \A d \in Calls : PlaceOK(d)'
      BY <2>2, <3>1, <3>2 DEF Lines, PlaceOK
    <3> QED BY <3>3, <3>4 DEF Lines
  <2> QED BY <1>1, <2>3, <2>4 DEF Take
<1>2. ASSUME NEW c \in Calls, NEW k \in Keys, FindFull(c, k)
      PROVE  Lines'
  <2>1. pools[k] \in Pools
    BY <1>2 DEF TypeOK, FindFull
  <2>2. \A q \in Pools : ~Contains(waiters[q], c)
    BY <1>2 DEF Lines, LineOK, FindFull
  <2>3. /\ at'[c] = "full" /\ mine'[c] = pools[k]
        /\ \A d \in Calls \ {c} : at'[d] = at[d] /\ mine'[d] = mine[d]
        /\ UNCHANGED <<waiters, granted>> /\ at[c] = "none"
    BY <1>0, <1>2 DEF FindFull
  <2>4. \A q \in Pools : LineOK(q)'
    BY <2>2, <2>3 DEF Lines, LineOK
  <2>5. \A d \in Calls : PlaceOK(d)'
    BY <2>1, <2>3 DEF Lines, PlaceOK
  <2> QED BY <2>4, <2>5 DEF Lines
<1>3. ASSUME NEW c \in Calls, Enqueue(c)
      PROVE  Lines'
  <2> DEFINE p == mine[c]
  <2>1. p \in Pools /\ ~granted[c] /\ at[c] = "full"
    BY <1>3 DEF Lines, PlaceOK, Enqueue
  <2>2. \A q \in Pools : ~Contains(waiters[q], c)
    BY <2>1 DEF Lines, LineOK
  <2>3. /\ waiters'[p] = Append(waiters[p], c)
        /\ \A q \in Pools \ {p} : waiters'[q] = waiters[q]
    BY <1>0, <1>3, <2>1 DEF Enqueue
  <2>4. /\ at'[c] = "queued" /\ \A d \in Calls \ {c} : at'[d] = at[d]
        /\ UNCHANGED <<mine, granted>>
    BY <1>0, <1>3 DEF Enqueue
  <2>5. /\ Distinct(waiters'[p])
        /\ \A d : Contains(waiters'[p], d) <=> Contains(waiters[p], d) \/ d = c
    BY <1>0, <2>1, <2>2, <2>3, Appended DEF Lines, LineOK
  <2> HIDE DEF p
  <2>6. \A q \in Pools, d \in Calls :
          Contains(waiters'[q], d) <=> Contains(waiters[q], d) \/ (q = p /\ d = c)
    BY <2>3, <2>5
  <2>7. ASSUME NEW q \in Pools
        PROVE  LineOK(q)'
    <3>1. Distinct(waiters'[q])
      BY <2>3, <2>5 DEF Lines, LineOK
    <3>2. ASSUME NEW d \in Calls, Contains(waiters'[q], d), d # c
          PROVE  /\ ~granted'[d] /\ at'[d] \in InLine
                 /\ at'[d] # "lost" => mine'[d] = q
                 /\ \A r \in Pools : Contains(waiters'[r], d) => r = q
      BY <2>4, <2>6, <3>2 DEF Lines, LineOK
    <3>3. ASSUME Contains(waiters'[q], c)
          PROVE  /\ ~granted'[c] /\ at'[c] \in InLine
                 /\ at'[c] # "lost" => mine'[c] = q
                 /\ \A r \in Pools : Contains(waiters'[r], c) => r = q
      BY <2>1, <2>2, <2>4, <2>6, <3>3 DEF p
    <3> QED BY <3>1, <3>2, <3>3 DEF LineOK
  <2>8. \A d \in Calls : PlaceOK(d)'
    BY <2>1, <2>4, <2>6 DEF Lines, PlaceOK, p
  <2> QED BY <2>7, <2>8 DEF Lines
<1>4. ASSUME NEW c \in Calls, Protect(c) \/ Cancel(c) \/ Lose(c) \/ Resume(c)
      PROVE  Lines'
  <2>1. /\ UNCHANGED <<waiters, granted>>
        /\ \A d \in Calls \ {c} : at'[d] = at[d] /\ mine'[d] = mine[d]
    BY <1>0, <1>4 DEF Protect, Cancel, Lose, Resume
  <2>2. \/ at[c] = "queued" /\ at'[c] = "waiting" /\ mine'[c] = mine[c]
        \/ at[c] = "full" /\ at'[c] = "none"
        \/ at[c] = "queued" /\ at'[c] = "lost"
        \/ at[c] = "waiting" /\ granted[c] /\ at'[c] = "holding"
    BY <1>0, <1>4 DEF Protect, Cancel, Lose, Resume
  <2>3. \A q \in Pools : LineOK(q)'
    BY <2>1, <2>2 DEF Lines, LineOK
  <2>4. \A d \in Calls : PlaceOK(d)'
    BY <2>1, <2>2 DEF Lines, PlaceOK
  <2> QED BY <2>3, <2>4 DEF Lines
<1>5. ASSUME NEW c \in Calls, Release(c)
      PROVE  Lines'
  <2>1. granted[c]
    BY <1>5 DEF Lines, PlaceOK, Release
  <2> QED BY <1>5, <2>1, FreeLines DEF Release
<1>6. ASSUME NEW c \in Calls, Abandon(c)
      PROVE  Lines'
  <2>1. CASE granted[c] /\ Free(c)
    BY <1>6, <2>1, FreeLines DEF Abandon
  <2>2. CASE ~granted[c]
    <3> DEFINE p == mine[c]
    <3>1. p \in Pools /\ Contains(waiters[p], c) /\ Distinct(waiters[p])
      BY <1>6, <2>2 DEF Lines, LineOK, PlaceOK, Abandon
    <3>2. /\ waiters'[p] = Splice(waiters[p], c)
          /\ \A q \in Pools \ {p} : waiters'[q] = waiters[q]
      BY <1>0, <1>6, <2>2, <3>1 DEF Abandon
    <3>3. /\ at'[c] = "none" /\ UNCHANGED granted
          /\ \A d \in Calls \ {c} : at'[d] = at[d] /\ mine'[d] = mine[d]
      BY <1>0, <1>6, <2>2 DEF Abandon
    <3>4. /\ Distinct(waiters'[p])
          /\ \A d : Contains(waiters'[p], d) <=> Contains(waiters[p], d) /\ d # c
      BY <1>0, <3>1, <3>2, Spliced
    <3> HIDE DEF p
    <3>5. \A q \in Pools, d \in Calls :
            Contains(waiters'[q], d) <=> Contains(waiters[q], d) /\ d # c
      BY <3>1, <3>2, <3>4 DEF Lines, LineOK
    <3>6. \A q \in Pools : LineOK(q)'
      BY <3>1, <3>2, <3>3, <3>4, <3>5 DEF Lines, LineOK
    <3>7. \A d \in Calls : PlaceOK(d)'
      BY <2>2, <3>3, <3>5 DEF Lines, PlaceOK
    <3> QED BY <3>6, <3>7 DEF Lines
  <2> QED BY <1>6, <2>1, <2>2 DEF Abandon
<1>7. CASE UNCHANGED vars
  BY <1>7 DEF Lines, LineOK, PlaceOK, vars
<1> QED BY <1>1, <1>2, <1>3, <1>4, <1>5, <1>6, <1>7 DEF Next

\* Only the first in line is granted a slot that somebody gives up.
LEMMA HeadFirst ==
  ASSUME TypeOK, Lines, NEW c \in Calls, NEW d \in Calls, Ahead(c, d), ~granted[d], [Next]_vars
  PROVE  ~granted'[d]
<1>0. /\ waiters \in [Pools -> Seq(Calls)] /\ granted \in [Calls -> BOOLEAN]
  BY DEF TypeOK
<1>1. PICK p \in Pools : \E i, j \in DOMAIN waiters[p] :
                           i < j /\ waiters[p][i] = c /\ waiters[p][j] = d
  BY DEF Ahead
<1>2. PICK j \in 2..Len(waiters[p]) : waiters[p][j] = d
  <2>1. DOMAIN waiters[p] = 1..Len(waiters[p]) /\ Len(waiters[p]) \in Nat
    BY <1>0, LenProperties
  <2> QED BY <1>1, <2>1
<1>3. Contains(waiters[p], d) /\ Len(waiters[p]) \in Nat
  BY <1>0, <1>2, LenProperties DEF Contains
<1>4. at[d] \in InLine /\ \A q \in Pools : Contains(waiters[q], d) => q = p
  BY <1>3 DEF Lines, LineOK
<1>5. d # Head(waiters[p])
  <2>1. Head(waiters[p]) = waiters[p][1]
    BY <1>0, <1>2, <1>3, HeadTailProperties, EmptySeq
  <2>2. Distinct(waiters[p])
    BY DEF Lines, LineOK
  <2> QED BY <1>2, <1>3, <2>1, <2>2 DEF Distinct
<1>6. ASSUME NEW e \in Calls, Free(e)
      PROVE  ~granted'[d]
  <2> DEFINE q == pools[of[e]]
  <2>1. CASE granted' = [granted EXCEPT ![e] = FALSE]
    BY <1>0, <2>1
  <2>2. CASE /\ q # None /\ waiters[q] # <<>>
             /\ granted' = [granted EXCEPT ![e] = FALSE, ![Head(waiters[q])] = TRUE]
    <3>1. q \in Pools /\ waiters[q] \in Seq(Calls)
      BY <2>2 DEF TypeOK
    <3>2. Contains(waiters[q], Head(waiters[q]))
      BY <2>2, <3>1, Shifted
    <3>3. d # Head(waiters[q])
      BY <1>4, <1>5, <3>1, <3>2
    <3> QED BY <1>0, <2>2, <3>3
  <2> QED BY <1>6, <2>1, <2>2 DEF Free
<1>7. ASSUME NEW e \in Calls, NEW k \in Keys, Take(e, k)
      PROVE  ~granted'[d]
  BY <1>0, <1>4, <1>7 DEF Take, InLine
<1> QED BY <1>6, <1>7 DEF Next, FindFull, Enqueue, Protect, Cancel, Lose, Resume, Release, Abandon, vars

\* First come, first served, also where a call has queued behind a check that no longer
\* held: release gives the slot to the first in line, and nobody gets past it.
THEOREM InTurn == Spec => ArrivalOrder
<1> DEFINE Fair == \A c, d \in Calls :
                     Ahead(c, d) /\ ~granted[d] /\ granted'[d]
                       => \A p \in Pools : c \notin ToSet(waiters'[p])
<1>1. Init => Lines
  BY Empty DEF Init, Lines, LineOK, PlaceOK
<1>2. TypeOK /\ Lines /\ [Next]_vars => [Fair]_vars
  BY HeadFirst
<1>3. Spec => []Lines
  BY <1>1, NextLines, Typing, PTL DEF Spec
<1> QED BY <1>2, <1>3, Typing, PTL DEF Spec, ArrivalOrder
=============================================================================
