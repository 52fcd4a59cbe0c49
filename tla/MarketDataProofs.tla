--------------------------- MODULE MarketDataProofs ----------------------------
(***************************************************************************)
(* Theorems about MarketFeed, for any capacities and any number of events  *)
(* and failures, and about MarketCalendar, for any tables.                 *)
(*                                                                         *)
(* The invariant of the feed has one part for each lock: the tick channel  *)
(* holds events in order, all of them later than the last known tick; the  *)
(* retry buffer and the flush loop's batch hold different items; the bars  *)
(* hold different events. A fourth part ties the ingest loop to the bars:  *)
(* an event that is being ingested is in no bar yet.                       *)
(***************************************************************************)
EXTENDS MarketFeed, MarketCalendar, FiniteSets, SequenceTheorems, FiniteSetTheorems,
        WellFoundedInduction, TLAPS

Distinct(s) == \A i, j \in DOMAIN s : s[i] = s[j] => i = j

--------------------------------------------------------------------------------
(* Sequences *)

\* The elements of a sequence over S are in S.
LEMMA ElementsType ==
  ASSUME NEW S, NEW s \in Seq(S)
  PROVE  Elements(s) \subseteq S /\ DOMAIN s = 1..Len(s) /\ Len(s) \in Nat
  BY LenProperties DEF Elements

\* Append adds one element at the end.
LEMMA AppendElements ==
  ASSUME NEW S, NEW s \in Seq(S), NEW e \in S
  PROVE  /\ Append(s, e) \in Seq(S)
         /\ Len(Append(s, e)) = Len(s) + 1
         /\ Elements(Append(s, e)) = Elements(s) \cup {e}
         /\ Distinct(s) /\ e \notin Elements(s) => Distinct(Append(s, e))
  <1> DEFINE u == Append(s, e)
  <1>1. /\ u \in Seq(S) /\ Len(u) = Len(s) + 1 /\ Len(s) \in Nat
        /\ DOMAIN u = 1..(Len(s) + 1) /\ DOMAIN s = 1..Len(s)
        /\ \A i \in 1..Len(s) : u[i] = s[i]
        /\ u[Len(s) + 1] = e
      BY AppendProperties, ElementsType
  <1> HIDE DEF u
  <1>2. Elements(u) = Elements(s) \cup {e}
    <2>1. Elements(u) \subseteq Elements(s) \cup {e}
        BY <1>1 DEF Elements
    <2>2. \A i \in 1..Len(s) : s[i] \in Elements(u)
        BY <1>1 DEF Elements
    <2>3. e \in Elements(u)
      <3>1. Len(s) + 1 \in DOMAIN u
          BY <1>1
      <3> QED
          BY <1>1, <3>1 DEF Elements
    <2> QED
        BY <1>1, <2>1, <2>2, <2>3 DEF Elements
  <1>3. ASSUME Distinct(s), e \notin Elements(s)
        PROVE  Distinct(u)
    <2>1. \A i \in 1..Len(s) : s[i] # e
        BY <1>1, <1>3 DEF Elements
    <2> QED
        BY <1>1, <1>3, <2>1 DEF Distinct
  <1> QED
      BY <1>1, <1>2, <1>3 DEF u

\* Concatenation joins the elements, and keeps them distinct when the parts are disjoint.
LEMMA ConcatElements ==
  ASSUME NEW S, NEW s \in Seq(S), NEW t \in Seq(S)
  PROVE  /\ s \o t \in Seq(S)
         /\ Len(s \o t) = Len(s) + Len(t)
         /\ Elements(s \o t) = Elements(s) \cup Elements(t)
         /\ Distinct(s) /\ Distinct(t) /\ Elements(s) \cap Elements(t) = {}
              => Distinct(s \o t)
  <1> DEFINE u == s \o t
  <1>1. /\ u \in Seq(S) /\ Len(u) = Len(s) + Len(t) /\ Len(s) \in Nat /\ Len(t) \in Nat
        /\ DOMAIN u = 1..(Len(s) + Len(t)) /\ DOMAIN s = 1..Len(s) /\ DOMAIN t = 1..Len(t)
        /\ \A i \in 1..(Len(s) + Len(t)) :
             u[i] = IF i <= Len(s) THEN s[i] ELSE t[i - Len(s)]
      BY ConcatProperties, ElementsType
  <1> HIDE DEF u
  <1>2. \A i \in 1..Len(s) : i \in DOMAIN u /\ u[i] = s[i]
      BY <1>1
  <1>3. ASSUME NEW i \in 1..Len(t)
        PROVE  i + Len(s) \in DOMAIN u /\ u[i + Len(s)] = t[i]
    <2>1. /\ i + Len(s) \in 1..(Len(s) + Len(t)) /\ ~(i + Len(s) <= Len(s))
          /\ (i + Len(s)) - Len(s) = i
        BY <1>1
    <2> QED
        BY <1>1, <2>1
  <1>4. \A i \in DOMAIN u : \/ i \in 1..Len(s) /\ u[i] = s[i]
                            \/ i - Len(s) \in 1..Len(t) /\ u[i] = t[i - Len(s)]
      BY <1>1
  <1>5. Elements(u) = Elements(s) \cup Elements(t)
    <2>1. Elements(u) \subseteq Elements(s) \cup Elements(t)
        BY <1>1, <1>4 DEF Elements
    <2>2. Elements(s) \subseteq Elements(u)
        BY <1>1, <1>2 DEF Elements
    <2>3. Elements(t) \subseteq Elements(u)
        BY <1>1, <1>3 DEF Elements
    <2> QED
        BY <2>1, <2>2, <2>3
  <1>6. ASSUME Distinct(s), Distinct(t), Elements(s) \cap Elements(t) = {},
               NEW i \in DOMAIN u, NEW j \in DOMAIN u, u[i] = u[j]
        PROVE  i = j
    <2>1. CASE i \in 1..Len(s) /\ j \in 1..Len(s)
        BY <1>1, <1>6, <2>1 DEF Distinct
    <2>2. CASE i \notin 1..Len(s) /\ j \notin 1..Len(s)
      <3>1. i - Len(s) \in DOMAIN t /\ j - Len(s) \in DOMAIN t
          BY <1>1, <1>4, <1>6, <2>2
      <3>2. t[i - Len(s)] = t[j - Len(s)]
          BY <1>4, <1>6, <2>2
      <3>3. i - Len(s) = j - Len(s)
          BY <1>6, <3>1, <3>2 DEF Distinct
      <3> QED
          BY <1>1, <1>6, <3>3
    <2>3. ASSUME NEW k \in 1..Len(s), NEW l \in 1..Len(t) PROVE s[k] # t[l]
        BY <1>1, <1>6, <2>3 DEF Elements
    <2> QED
        BY <1>4, <1>6, <2>1, <2>2, <2>3
  <1> QED
      BY <1>1, <1>5, <1>6 DEF u, Distinct

\* A subsequence has only elements of the sequence, each as often at most.
LEMMA SubSeqElements ==
  ASSUME NEW S, NEW s \in Seq(S), NEW m \in Nat \ {0}, NEW n \in Nat, n <= Len(s)
  PROVE  /\ SubSeq(s, m, n) \in Seq(S)
         /\ Len(SubSeq(s, m, n)) = IF m <= n THEN n - m + 1 ELSE 0
         /\ Elements(SubSeq(s, m, n)) \subseteq Elements(s)
         /\ Distinct(s) => Distinct(SubSeq(s, m, n))
  <1> DEFINE u == SubSeq(s, m, n)
  <1>1. DOMAIN s = 1..Len(s) /\ Len(s) \in Nat /\ \A i \in 1..Len(s) : s[i] \in S
      BY LenProperties
  <1>2. \A i \in m..n : s[i] \in S
      BY <1>1
  <1>3. /\ u \in Seq(S)
        /\ Len(u) = IF m <= n THEN n - m + 1 ELSE 0
        /\ \A i \in 1..(n - m + 1) : u[i] = s[m + i - 1]
      BY <1>2, SubSeqProperties
  <1> HIDE DEF u
  <1>4. DOMAIN u = 1..Len(u)
      BY <1>3, LenProperties
  <1>5. \A i \in DOMAIN u : i \in Int /\ m + i - 1 \in DOMAIN s /\ u[i] = s[m + i - 1]
      BY <1>1, <1>3, <1>4
  <1>6. Distinct(s) => Distinct(u)
    <2> SUFFICES ASSUME Distinct(s), NEW i \in DOMAIN u, NEW j \in DOMAIN u, u[i] = u[j]
                 PROVE  i = j
        BY DEF Distinct
    <2>1. m + i - 1 = m + j - 1
        BY <1>5 DEF Distinct
    <2> QED
        BY <1>5, <2>1
  <1>7. Elements(u) \subseteq Elements(s)
      BY <1>5 DEF Elements
  <1> QED
      BY <1>3, <1>6, <1>7 DEF u

\* A sequence without repetition has as many elements as it is long.
LEMMA DistinctCardinality ==
  ASSUME NEW S, NEW s \in Seq(S), Distinct(s)
  PROVE  IsFiniteSet(Elements(s)) /\ Cardinality(Elements(s)) = Len(s)
  <1>1. s \in [1..Len(s) -> S] /\ DOMAIN s = 1..Len(s) /\ Len(s) \in Nat
      BY LenProperties
  <1>2. s \in [1..Len(s) -> Elements(s)]
      BY <1>1 DEF Elements
  <1>3. s \in Bijection(1..Len(s), Elements(s))
    <2>1. \A i, j \in 1..Len(s) : s[i] = s[j] => i = j
        BY <1>1 DEF Distinct
    <2>2. \A e \in Elements(s) : \E i \in 1..Len(s) : s[i] = e
        BY <1>1 DEF Elements
    <2> QED
        BY <1>2, <2>1, <2>2 DEF Bijection, Injection, Surjection, IsInjective
  <1>4. ExistsBijection(1..Len(s), Elements(s))
      BY <1>3 DEF ExistsBijection
  <1> QED
      BY <1>1, <1>4, FS_CountingElements, FS_NatBijection

\* Cutting at the capacity loses elements only of a sequence longer than that.
LEMMA CappedElements ==
  ASSUME NEW S, NEW s \in Seq(S)
  PROVE  /\ Capped(s) \in Seq(S)
         /\ Len(Capped(s)) <= MaxBuffer
         /\ Elements(Capped(s)) \subseteq Elements(s)
         /\ Distinct(s) => Distinct(Capped(s))
         /\ Elements(Capped(s)) # Elements(s) => Len(s) > MaxBuffer
  <1>1. MaxBuffer \in Nat /\ 1 \in Nat \ {0} /\ Len(s) \in Nat
      BY MarketFeedAssumption, ElementsType
  <1>2. CASE Len(s) > MaxBuffer
    <2>1. Capped(s) = SubSeq(s, 1, MaxBuffer) /\ MaxBuffer <= Len(s)
        BY <1>1, <1>2 DEF Capped
    <2> QED
        BY <1>1, <1>2, <2>1, SubSeqElements
  <1>3. CASE ~(Len(s) > MaxBuffer)
      BY <1>1, <1>3 DEF Capped
  <1> QED
      BY <1>2, <1>3

\* The tail of a sequence: the elements but the first, each at the place before its own.
LEMMA TailElements ==
  ASSUME NEW S, NEW s \in Seq(S), s # <<>>
  PROVE  /\ Head(s) \in S /\ Tail(s) \in Seq(S)
         /\ Len(s) \in Nat \ {0} /\ Len(Tail(s)) = Len(s) - 1
         /\ DOMAIN s = 1..Len(s) /\ DOMAIN Tail(s) = 1..(Len(s) - 1)
         /\ Head(s) = s[1]
         /\ \A i \in 1..(Len(s) - 1) : Tail(s)[i] = s[i + 1]
  <1>1. /\ Head(s) \in S /\ Tail(s) \in Seq(S) /\ Len(Tail(s)) = Len(s) - 1
        /\ \A i \in 1..Len(Tail(s)) : Tail(s)[i] = s[i + 1]
      BY HeadTailProperties
  <1>2. Len(s) \in Nat /\ DOMAIN s = 1..Len(s) /\ (Len(s) = 0 => s = <<>>)
      BY LenProperties, EmptySeq
  <1>3. DOMAIN Tail(s) = 1..Len(Tail(s))
      BY <1>1, LenProperties
  <1>4. Head(s) = s[1]
      BY <1>2
  <1> QED
      BY <1>1, <1>2, <1>3, <1>4

\* A bar at the end of a sequence adds its ticks, and overlaps with no other if it did not.
LEMMA AppendBar ==
  ASSUME NEW s \in Seq(Bar), NEW b \in Bar
  PROVE  /\ Append(s, b) \in Seq(Bar)
         /\ Len(Append(s, b)) = Len(s) + 1
         /\ TicksIn(Append(s, b)) = TicksIn(s) \cup b.ticks
         /\ Apart(s) /\ b.ticks \cap TicksIn(s) = {} => Apart(Append(s, b))
  <1> DEFINE u == Append(s, b)
  <1>1. /\ u \in Seq(Bar) /\ Len(u) = Len(s) + 1 /\ Len(s) \in Nat
        /\ DOMAIN u = 1..(Len(s) + 1) /\ DOMAIN s = 1..Len(s)
        /\ \A i \in 1..Len(s) : u[i] = s[i]
        /\ u[Len(s) + 1] = b
      BY AppendProperties, ElementsType
  <1> HIDE DEF u
  <1>2. DOMAIN u = DOMAIN s \cup {Len(s) + 1} /\ Len(s) + 1 \notin DOMAIN s
      BY <1>1
  <1>3. TicksIn(u) = TicksIn(s) \cup b.ticks
    <2>1. \A i \in DOMAIN s : u[i] = s[i]
        BY <1>1
    <2> QED
        BY <1>1, <1>2, <2>1 DEF TicksIn
  <1>4. ASSUME Apart(s), b.ticks \cap TicksIn(s) = {}
        PROVE  Apart(u)
    <2>1. \A i \in DOMAIN s : u[i] = s[i] /\ u[i].ticks \cap b.ticks = {}
        BY <1>1, <1>4 DEF TicksIn
    <2> QED
        BY <1>1, <1>2, <1>4, <2>1 DEF Apart
  <1> QED
      BY <1>1, <1>3, <1>4 DEF u

\* The first bar of a sequence shares no tick with the others.
LEMMA TailBars ==
  ASSUME NEW s \in Seq(Bar), s # <<>>, Apart(s)
  PROVE  /\ Head(s) \in Bar /\ Tail(s) \in Seq(Bar) /\ Len(Tail(s)) < Len(s)
         /\ Apart(Tail(s))
         /\ TicksIn(s) = Head(s).ticks \cup TicksIn(Tail(s))
         /\ Head(s).ticks \cap TicksIn(Tail(s)) = {}
  <1> DEFINE u == Tail(s)
             h == Head(s)
  <1>1. /\ h \in Bar /\ u \in Seq(Bar) /\ Len(s) \in Nat \ {0} /\ Len(u) = Len(s) - 1
        /\ DOMAIN s = 1..Len(s) /\ DOMAIN u = 1..(Len(s) - 1)
        /\ h = s[1]
        /\ \A i \in 1..(Len(s) - 1) : u[i] = s[i + 1]
      BY TailElements
  <1> HIDE DEF u, h
  <1>2. \A i \in DOMAIN u : i + 1 \in DOMAIN s /\ i + 1 # 1 /\ u[i] = s[i + 1]
      BY <1>1
  <1>3. 1 \in DOMAIN s /\ \A i \in DOMAIN s : i = 1 \/ (i - 1 \in DOMAIN u /\ u[i - 1] = s[i])
      BY <1>1
  <1>4. Apart(u)
    <2>1. \A i, j \in DOMAIN u : i # j => i + 1 # j + 1
        BY <1>1
    <2> QED
        BY <1>2, <2>1 DEF Apart
  <1>5. TicksIn(s) = h.ticks \cup TicksIn(u)
    <2>1. TicksIn(u) \subseteq TicksIn(s)
        BY <1>2 DEF TicksIn
    <2>2. h.ticks \subseteq TicksIn(s)
        BY <1>1, <1>3 DEF TicksIn
    <2>3. TicksIn(s) \subseteq h.ticks \cup TicksIn(u)
        BY <1>1, <1>3 DEF TicksIn
    <2> QED
        BY <2>1, <2>2, <2>3
  <1>6. h.ticks \cap TicksIn(u) = {}
    <2>1. \A i \in DOMAIN u : h.ticks \cap u[i].ticks = {}
      <3> TAKE i \in DOMAIN u
      <3>1. 1 \in DOMAIN s /\ i + 1 \in DOMAIN s /\ i + 1 # 1
          BY <1>2, <1>3
      <3>2. s[1].ticks \cap s[i + 1].ticks = {}
          BY <3>1 DEF Apart
      <3> QED
          BY <1>1, <1>2, <3>2
    <2> QED
        BY <2>1 DEF TicksIn
  <1>7. Len(u) < Len(s)
      BY <1>1
  <1> QED
      BY <1>1, <1>4, <1>5, <1>6, <1>7 DEF u, h

\* The empty sequence.
LEMMA EmptySequence ==
  /\ Elements(<<>>) = {} /\ Distinct(<<>>)
  /\ TicksIn(<<>>) = {} /\ Apart(<<>>)
  BY DEF Elements, Distinct, TicksIn, Apart

--------------------------------------------------------------------------------
(* The inductive invariant of the feed *)

\* The tick channel holds events in the order of the exchange, later than the last known.
OrderInv ==
  /\ lastKnown.event <= newest
  /\ \A i \in DOMAIN tickCh : lastKnown.event < tickCh[i].event /\ tickCh[i].event <= newest
  /\ \A i, j \in DOMAIN tickCh : i < j => tickCh[i].event < tickCh[j].event

Failing(g) == IF publisher[g].pc = "failed" THEN 1 ELSE 0

\* A failure has been counted for each message that was, or will be, offered to the buffer;
\* a message is in one place.
RetryInv ==
  /\ items + Failing("ingest") + Failing("first") + Failing("periodic") <= faults
  /\ Distinct(buffer)
  /\ Distinct(flusher.batch)
  /\ Elements(buffer) \cap Elements(flusher.batch) = {}
  /\ Held \subseteq 1..items
  /\ flusher.pc = "wait" => flusher.batch = <<>>

\* The event of the ingest loop is in no bar yet.
LinkInv ==
  /\ \A e \in counted : e <= lastKnown.event
  /\ publisher["ingest"].pc # "wait" => lastKnown.event \notin counted
  /\ publisher["ingest"].pc \in {"publish", "failed", "count"} => lastKnown \in Tick

FeedInv == FeedTypeOK /\ OrderInv

RedisInv == RedisTypeOK /\ RetryInv

BarsInv == BarsTypeOK /\ TickInOneBar

IInv == FeedInv /\ RedisInv /\ BarsInv /\ LinkInv

\* The constants are what the assumption says.
LEMMA ConstantTypes ==
  /\ TickCapacity \in Nat /\ TickCapacity > 0 /\ BarCapacity \in Nat /\ BarCapacity > 0
  /\ MaxBuffer \in Nat /\ MaxBuffer > 0 /\ MaxEvents \in Nat /\ MaxFaults \in Nat
  /\ MaxMinute \in Nat /\ MaxMinute > 0
  BY MarketFeedAssumption

\* The variables that number events hold natural numbers.
LEMMA EventTypes ==
  /\ \A e \in Events : e \in Nat
  /\ \A tick \in RawTick \cup Tick \cup {NoTick} : tick.event \in Nat
  /\ \A n \in 0..MaxEvents : n \in Nat
  BY ConstantTypes DEF Events, RawTick, Tick, NoTick

\* A part of the invariant does not depend on what the others are about.
LEMMA Frames ==
  /\ FeedInv /\ UNCHANGED feed => FeedInv'
  /\ RedisInv /\ UNCHANGED <<redis, faults>> => RedisInv'
  /\ BarsInv /\ UNCHANGED bars => BarsInv'
  /\ LinkInv /\ UNCHANGED <<lastKnown, counted, publisher>> => LinkInv'
  <1>1. FeedInv /\ UNCHANGED feed => FeedInv'
      BY DEF FeedInv, FeedTypeOK, OrderInv, feed
  <1>2. RedisInv /\ UNCHANGED <<redis, faults>> => RedisInv'
      BY DEF RedisInv, RedisTypeOK, RetryInv, Failing, Held, redis
  <1>3. BarsInv /\ UNCHANGED bars => BarsInv'
      BY DEF BarsInv, BarsTypeOK, TickInOneBar, bars
  <1>4. LinkInv /\ UNCHANGED <<lastKnown, counted, publisher>> => LinkInv'
      BY DEF LinkInv
  <1> QED
      BY <1>1, <1>2, <1>3, <1>4

\* A further failure of somebody else leaves the retry buffer what it was.
LEMMA FaultFrame ==
  ASSUME RedisInv, UNCHANGED redis, faults' = faults \/ Fault
  PROVE  RedisInv'
  <1>1. faults \in Nat /\ faults' \in 0..MaxFaults /\ faults <= faults'
      BY ConstantTypes DEF RedisInv, RedisTypeOK, Fault
  <1>2. RedisTypeOK'
      BY <1>1 DEF RedisInv, RedisTypeOK, redis
  <1>3. \A g \in Publishers : Failing(g) \in Nat /\ Failing(g)' = Failing(g)
      BY DEF Failing, redis
  <1>4. RetryInv'
    <2>1. items \in Nat /\ items' = items
        BY DEF RedisInv, RedisTypeOK, redis
    <2>2. (items + Failing("ingest") + Failing("first") + Failing("periodic") <= faults)'
        BY <1>1, <1>3, <2>1 DEF RedisInv, RetryInv, Publishers
    <2> QED
        BY <2>1, <2>2 DEF RedisInv, RetryInv, Held, redis
  <1> QED
      BY <1>2, <1>4 DEF RedisInv

--------------------------------------------------------------------------------
(* The publishers and the retry buffer *)

\* The sum of three failures changes by what one of them changes.
LEMMA FailingSum ==
  ASSUME NEW a \in Nat, NEW b \in Nat, NEW c \in Nat,
         NEW a1 \in Nat, NEW b1 \in Nat, NEW c1 \in Nat,
         NEW n \in Nat, NEW m \in Nat, NEW k \in Nat, NEW l \in Nat,
         n + a + b + c <= k,
         \/ b1 = b /\ c1 = c /\ m + a1 + k <= n + a + l
         \/ a1 = a /\ c1 = c /\ m + b1 + k <= n + b + l
         \/ a1 = a /\ b1 = b /\ m + c1 + k <= n + c + l
  PROVE  m + a1 + b1 + c1 <= l
  BY SMT

\* The failure a publisher is handling is counted.
LEMMA FailuresCounted ==
  ASSUME RedisInv, NEW g \in Publishers, NEW r \in PublisherRecord,
         publisher' = [publisher EXCEPT ![g] = r],
         NEW n \in Nat, items' = n, faults' \in Nat,
         LET before == IF publisher[g].pc = "failed" THEN 1 ELSE 0
             after  == IF r.pc = "failed" THEN 1 ELSE 0
         IN n + after + faults <= items + before + faults'
  PROVE  (items + Failing("ingest") + Failing("first") + Failing("periodic") <= faults)'
  <1>1. /\ publisher'[g] = r /\ \A h \in Publishers \ {g} : publisher'[h] = publisher[h]
        /\ items \in Nat /\ faults \in Nat
        /\ items + Failing("ingest") + Failing("first") + Failing("periodic") <= faults
      BY ConstantTypes DEF RedisInv, RedisTypeOK, RetryInv
  <1>2. /\ Failing("ingest") \in Nat /\ Failing("first") \in Nat /\ Failing("periodic") \in Nat
        /\ Failing("ingest")' \in Nat /\ Failing("first")' \in Nat /\ Failing("periodic")' \in Nat
      BY DEF Failing
  <1>3. n + Failing(g)' + faults <= items + Failing(g) + faults'
      BY <1>1 DEF Failing
  <1>4. \A h \in Publishers \ {g} : Failing(h)' = Failing(h)
      BY <1>1 DEF Failing
  <1>5. \/ Failing("first")' = Failing("first") /\ Failing("periodic")' = Failing("periodic")
           /\ n + Failing("ingest")' + faults <= items + Failing("ingest") + faults'
        \/ Failing("ingest")' = Failing("ingest") /\ Failing("periodic")' = Failing("periodic")
           /\ n + Failing("first")' + faults <= items + Failing("first") + faults'
        \/ Failing("ingest")' = Failing("ingest") /\ Failing("first")' = Failing("first")
           /\ n + Failing("periodic")' + faults <= items + Failing("periodic") + faults'
    <2>1. CASE g = "ingest"
        BY <1>3, <1>4, <2>1 DEF Publishers
    <2>2. CASE g = "first"
        BY <1>3, <1>4, <2>2 DEF Publishers
    <2>3. CASE g = "periodic"
        BY <1>3, <1>4, <2>3 DEF Publishers
    <2> QED
        BY <2>1, <2>2, <2>3 DEF Publishers
  <1>6. n + Failing("ingest")' + Failing("first")' + Failing("periodic")' <= faults'
      BY <1>1, <1>2, <1>5, FailingSum
  <1> QED
      BY <1>6

\* A publisher moves on; a failure is counted when it is its own.
LEMMA PublisherMoves ==
  ASSUME RedisInv, NEW g \in Publishers, NEW r \in PublisherRecord,
         publisher' = [publisher EXCEPT ![g] = r],
         latest' \in 0..MaxEvents,
         UNCHANGED <<buffer, flusher, items, retried>>,
         \/ r.pc # "failed" /\ faults' = faults
         \/ r.pc = "failed" /\ Fault
  PROVE  RedisInv'
  <1>1. /\ faults \in Nat /\ faults' \in 0..MaxFaults /\ items \in Nat
        /\ (r.pc = "failed" => faults' = faults + 1) /\ faults <= faults'
      BY ConstantTypes DEF RedisInv, RedisTypeOK, Fault
  <1>2. /\ publisher' \in [Publishers -> PublisherRecord] /\ publisher'[g] = r
        /\ \A h \in Publishers \ {g} : publisher'[h] = publisher[h]
      BY DEF RedisInv, RedisTypeOK
  <1>3. RedisTypeOK'
      BY <1>1, <1>2 DEF RedisInv, RedisTypeOK
  <1>4. (items + Failing("ingest") + Failing("first") + Failing("periodic") <= faults)'
    <2> DEFINE before == IF publisher[g].pc = "failed" THEN 1 ELSE 0
               after == IF r.pc = "failed" THEN 1 ELSE 0
    <2>1. items' = items /\ faults' \in Nat
        BY <1>1, ConstantTypes
    <2>2. items + after + faults <= items + before + faults'
      <3>1. before \in Nat
          OBVIOUS
      <3>2. CASE r.pc = "failed"
        <4>1. after = 1 /\ faults' = faults + 1
            BY <1>1, <3>2
        <4> HIDE DEF before, after
        <4> QED
            BY <1>1, <2>1, <3>1, <4>1
      <3>3. CASE r.pc # "failed"
        <4>1. after = 0 /\ faults' = faults
            BY <3>3
        <4> HIDE DEF before, after
        <4> QED
            BY <1>1, <2>1, <3>1, <4>1
      <3> QED
          BY <3>2, <3>3
    <2> QED
        BY <1>1, <2>1, <2>2, FailuresCounted
  <1>5. RetryInv'
      BY <1>4 DEF RedisInv, RetryInv, Held
  <1> QED
      BY <1>3, <1>5 DEF RedisInv

\* What a publisher does to the link between the ingest loop and the bars.
LEMMA PublisherLink ==
  ASSUME LinkInv, UNCHANGED <<lastKnown, counted>>,
         \/ publisher'["ingest"] = publisher["ingest"]
         \/ publisher'["ingest"].pc = "wait"
         \/ publisher["ingest"].pc \in {"publish", "failed", "count"}
  PROVE  LinkInv'
  BY DEF LinkInv

\* A message is offered to the buffer: it is new, and dropped only when the buffer is full.
LEMMA KeepInv ==
  ASSUME RedisInv, NEW g \in Publishers, Keep(g)
  PROVE  /\ RedisInv'
         /\ items' = items + 1 /\ items + 1 \in Items /\ retried' = retried
         /\ \/ Held' = Held \cup {items + 1}
            \/ Held' = Held /\ items + 1 \notin Held /\ Len(buffer) >= MaxBuffer
  <1> DEFINE r == [pc |-> AfterPublish[g], event |-> 0]
             i == items + 1
  <1>1. /\ publisher[g].pc = "failed" /\ items' = i
        /\ buffer' = IF Len(buffer) < MaxBuffer THEN Append(buffer, i) ELSE buffer
        /\ UNCHANGED <<feed, latest, flusher, retried, bars, faults>>
      BY DEF Keep
  <1>2. publisher' = [publisher EXCEPT ![g] = r] /\ r \in PublisherRecord /\ r.pc # "failed"
    <2>1. AfterPublish[g] \in {"count", "done", "wait"}
        BY DEF AfterPublish, Publishers
    <2>2. r \in PublisherRecord /\ r.pc # "failed"
        BY <2>1, ConstantTypes DEF PublisherRecord
    <2> QED
        BY <2>2 DEF Keep, Return, GoTo
  <1> HIDE DEF r
  <1>3. /\ publisher' \in [Publishers -> PublisherRecord] /\ publisher'[g] = r
        /\ \A h \in Publishers \ {g} : publisher'[h] = publisher[h]
      BY <1>2 DEF RedisInv, RedisTypeOK
  <1>4. /\ items \in Nat /\ faults \in Nat /\ faults <= MaxFaults /\ MaxFaults \in Nat
        /\ MaxBuffer \in Nat
        /\ buffer \in Seq(Items) /\ Len(buffer) \in Nat /\ Len(buffer) <= MaxBuffer
      BY ConstantTypes, ElementsType DEF RedisInv, RedisTypeOK
  <1>5. (items + Failing("ingest") + Failing("first") + Failing("periodic") <= faults)'
    <2>1. items' = i /\ i \in Nat /\ faults' = faults /\ faults' \in Nat
        BY <1>1, <1>4
    <2>2. i + 0 + faults <= items + 1 + faults'
        BY <1>4, <2>1
    <2> QED
        BY <1>1, <1>2, <2>1, <2>2, FailuresCounted
  <1>6. i \in Items
    <2>1. /\ Failing("ingest")' \in Nat /\ Failing("first")' \in Nat /\ Failing("periodic")' \in Nat
          /\ items' = i /\ faults' = faults
        BY <1>1 DEF Failing
    <2> QED
        BY <1>4, <1>5, <2>1 DEF Items
  <1>7. Held \subseteq 1..items /\ i \notin Held
      BY <1>4 DEF RedisInv, RetryInv
  <1>8. /\ buffer' \in Seq(Items) /\ Len(buffer') <= MaxBuffer /\ Distinct(buffer')
        /\ \/ Elements(buffer') = Elements(buffer) \cup {i}
           \/ buffer' = buffer /\ Len(buffer) >= MaxBuffer
    <2>1. Distinct(buffer) /\ i \notin Elements(buffer)
        BY <1>7 DEF Held, RedisInv, RetryInv
    <2>2. CASE Len(buffer) < MaxBuffer
        BY <1>1, <1>4, <1>6, <2>1, <2>2, AppendElements
    <2>3. CASE ~(Len(buffer) < MaxBuffer)
        BY <1>1, <1>4, <2>1, <2>3
    <2> QED
        BY <2>2, <2>3
  <1>9. flusher' = flusher /\ retried' = retried /\ faults' = faults /\ latest' = latest
      BY <1>1
  <1>10. RedisTypeOK'
      BY <1>1, <1>3, <1>4, <1>6, <1>8, <1>9 DEF RedisInv, RedisTypeOK, Items
  <1>11. Held' \subseteq 1..items'
      BY <1>1, <1>4, <1>7, <1>8, <1>9 DEF Held
  <1>12. Elements(buffer') \cap Elements(flusher'.batch) = {}
    <2>1. Elements(buffer) \cap Elements(flusher.batch) = {} /\ i \notin Elements(flusher.batch)
        BY <1>7 DEF Held, RedisInv, RetryInv
    <2> QED
        BY <1>8, <1>9, <2>1
  <1>13. RetryInv'
      BY <1>5, <1>8, <1>9, <1>11, <1>12 DEF RedisInv, RetryInv
  <1> QED
      BY <1>1, <1>6, <1>7, <1>8, <1>9, <1>10, <1>13 DEF RedisInv, Held

\* The flush loop moves items between the buffer and its batch, or lets some go.
LEMMA FlusherMoves ==
  ASSUME RedisInv, NEW b \in Seq(Items), NEW f \in [pc : {"wait", "exec", "failed"}, batch : Seq(Items)],
         buffer' = b, flusher' = f,
         Len(b) <= MaxBuffer, Distinct(b), Distinct(f.batch),
         Elements(b) \cap Elements(f.batch) = {},
         Elements(b) \cup Elements(f.batch) \subseteq Held,
         f.pc = "wait" => f.batch = <<>>,
         UNCHANGED <<publisher, latest, items>>,
         retried' \in [Items -> Nat],
         faults' = faults \/ Fault
  PROVE  RedisInv' /\ Held' = Elements(b) \cup Elements(f.batch)
  <1>1. faults \in Nat /\ faults' \in 0..MaxFaults /\ faults <= faults' /\ items \in Nat
      BY ConstantTypes DEF RedisInv, RedisTypeOK, Fault
  <1>2. RedisTypeOK'
      BY <1>1 DEF RedisInv, RedisTypeOK
  <1>3. Held' = Elements(b) \cup Elements(f.batch)
      BY DEF Held
  <1>4. (items + Failing("ingest") + Failing("first") + Failing("periodic") <= faults)'
    <2>1. \A g \in Publishers : Failing(g) \in Nat /\ Failing(g)' = Failing(g)
        BY DEF Failing
    <2> QED
        BY <1>1, <2>1 DEF RedisInv, RetryInv, Publishers
  <1>5. Held' \subseteq 1..items'
      BY <1>3 DEF RedisInv, RetryInv
  <1>6. RetryInv'
      BY <1>4, <1>5 DEF RetryInv
  <1> QED
      BY <1>2, <1>3, <1>6 DEF RedisInv

\* What the flush loop starts from.
LEMMA FlusherFrom ==
  ASSUME RedisInv
  PROVE  /\ buffer \in Seq(Items) /\ flusher.batch \in Seq(Items)
         /\ flusher = [pc |-> flusher.pc, batch |-> flusher.batch]
         /\ Distinct(buffer) /\ Distinct(flusher.batch)
         /\ Elements(buffer) \cap Elements(flusher.batch) = {}
         /\ Len(buffer) <= MaxBuffer
         /\ \A some : Retried(some) \in [Items -> Nat]
         /\ <<>> \in Seq(Items) /\ Len(<<>>) <= MaxBuffer
  BY ConstantTypes DEF RedisInv, RedisTypeOK, RetryInv, Retried

\* The buffer goes to the batch as a whole.
LEMMA FlushTakesInv ==
  ASSUME RedisInv, FlushTakes
  PROVE  RedisInv' /\ Held' = Held
  <1> DEFINE f == [pc |-> "exec", batch |-> buffer]
             b == <<>>
  <1>1. flusher.batch = <<>>
      BY DEF FlushTakes, RedisInv, RetryInv
  <1>2. /\ f \in [pc : {"wait", "exec", "failed"}, batch : Seq(Items)] /\ b \in Seq(Items)
        /\ f.pc # "wait" /\ f.batch = buffer /\ Len(b) <= MaxBuffer
      BY FlusherFrom
  <1>3. Elements(b) = {} /\ Distinct(b) /\ Held = Elements(f.batch)
      BY <1>1, EmptySequence DEF Held
  <1>4. /\ buffer' = b /\ flusher' = f /\ UNCHANGED <<publisher, latest, items, retried, faults>>
      BY DEF FlushTakes
  <1>5. retried' \in [Items -> Nat]
      BY <1>4 DEF RedisInv, RedisTypeOK
  <1> HIDE DEF f, b
  <1>6. Distinct(f.batch)
      BY <1>2, FlusherFrom
  <1>7. RedisInv' /\ Held' = Elements(b) \cup Elements(f.batch)
      BY <1>2, <1>3, <1>4, <1>5, <1>6, FlusherMoves
  <1> QED
      BY <1>3, <1>7

\* An acknowledged batch is let go.
LEMMA FlushSucceedsInv ==
  ASSUME RedisInv, FlushSucceeds
  PROVE  RedisInv' /\ Held' = Held \ Elements(flusher.batch)
  <1> DEFINE f == [pc |-> "wait", batch |-> <<>>]
  <1>1. /\ f \in [pc : {"wait", "exec", "failed"}, batch : Seq(Items)]
        /\ f.batch = <<>> /\ Elements(f.batch) = {} /\ Distinct(f.batch)
      BY FlusherFrom, EmptySequence
  <1>2. /\ buffer' = buffer /\ flusher' = f /\ UNCHANGED <<publisher, latest, items, faults>>
        /\ retried' \in [Items -> Nat]
      BY FlusherFrom DEF FlushSucceeds
  <1> HIDE DEF f
  <1>3. RedisInv' /\ Held' = Elements(buffer) \cup Elements(f.batch)
      BY <1>1, <1>2, FlusherFrom, FlusherMoves DEF Held
  <1> QED
      BY <1>1, <1>3, FlusherFrom DEF Held

\* A failed batch stays with the flush loop.
LEMMA FlushFailsInv ==
  ASSUME RedisInv, FlushFails
  PROVE  RedisInv' /\ Held' = Held
  <1> DEFINE f == [pc |-> "failed", batch |-> flusher.batch]
  <1>1. /\ f \in [pc : {"wait", "exec", "failed"}, batch : Seq(Items)]
        /\ f.batch = flusher.batch /\ f.pc # "wait"
      BY FlusherFrom
  <1>2. flusher' = f
      BY FlusherFrom DEF FlushFails
  <1>3. /\ buffer' = buffer /\ UNCHANGED <<publisher, latest, items>>
        /\ faults' = faults \/ Fault
        /\ retried' \in [Items -> Nat]
      BY FlusherFrom DEF FlushFails, RedisInv, RedisTypeOK
  <1> HIDE DEF f
  <1>4. RedisInv' /\ Held' = Elements(buffer) \cup Elements(f.batch)
      BY <1>1, <1>2, <1>3, FlusherFrom, FlusherMoves DEF Held
  <1> QED
      BY <1>1, <1>4 DEF Held

\* A put-back lets go of items only when batch and buffer together exceed the capacity.
LEMMA PutBackInv ==
  ASSUME RedisInv, PutBack
  PROVE  /\ RedisInv'
         /\ Held' \subseteq Held
         /\ Held' # Held =>
              /\ flusher.batch \o buffer \in Seq(Items)
              /\ Distinct(flusher.batch \o buffer)
              /\ Len(flusher.batch \o buffer) >= MaxBuffer
              /\ Elements(flusher.batch \o buffer) \subseteq Held
  <1> DEFINE f == [pc |-> "wait", batch |-> <<>>]
             joined == flusher.batch \o buffer
             b == Capped(joined)
  <1>1. /\ f \in [pc : {"wait", "exec", "failed"}, batch : Seq(Items)]
        /\ f.batch = <<>> /\ Elements(f.batch) = {} /\ Distinct(f.batch)
      BY FlusherFrom, EmptySequence
  <1>2. /\ joined \in Seq(Items) /\ Distinct(joined) /\ Len(joined) \in Nat
        /\ Elements(joined) = Held
      BY FlusherFrom, ConcatElements, ElementsType DEF Held
  <1> HIDE DEF joined
  <1>3. /\ b \in Seq(Items) /\ Len(b) <= MaxBuffer /\ Elements(b) \subseteq Held
        /\ Distinct(b) /\ (Elements(b) # Held => Len(joined) > MaxBuffer)
      BY <1>2, CappedElements
  <1>4. /\ buffer' = b /\ flusher' = f /\ UNCHANGED <<publisher, latest, items, faults>>
        /\ retried' \in [Items -> Nat]
      BY DEF PutBack, RedisInv, RedisTypeOK, joined
  <1> HIDE DEF f, b
  <1>5. RedisInv' /\ Held' = Elements(b) \cup Elements(f.batch)
      BY <1>1, <1>3, <1>4, FlusherMoves
  <1>6. Held' # Held => Len(joined) >= MaxBuffer
      BY <1>1, <1>2, <1>3, <1>5, ConstantTypes
  <1> QED
      BY <1>1, <1>2, <1>3, <1>5, <1>6 DEF joined

--------------------------------------------------------------------------------
(* The exchange and the ingest loop *)

\* What the parser makes of a quote or a trade is a tick of that event.
LEMMA SentType ==
  ASSUME NEW n \in Events, NEW m \in Nat, NEW tick \in Sent(n, m)
  PROVE  tick \in RawTick /\ tick.event = n
  <1>1. CASE \E q \in Quotes : tick = QuoteTick(q, n, m)
    <2>1. PICK q \in Quotes : tick = QuoteTick(q, n, m)
        BY <1>1
    <2>2. q.bid \in Int /\ q.ask \in Int
        BY MarketFeedAssumption
    <2>3. (q.bid + q.ask) \div 2 \in Int
        BY <2>2
    <2> QED
        BY <2>1, <2>2, <2>3 DEF QuoteTick, RawTick
  <1>2. CASE \E t \in Trades : tick = TradeTick(t, n, m)
    <2>1. PICK t \in Trades : tick = TradeTick(t, n, m)
        BY <1>2
    <2>2. t.price \in Int /\ t.size \in Int
        BY MarketFeedAssumption
    <2> QED
        BY <2>1, <2>2 DEF TradeTick, RawTick
  <1> QED
      BY <1>1, <1>2 DEF Sent

\* An event of the exchange is the newest, at the end of the channel if it gets there.
LEMMA EventInv ==
  ASSUME FeedInv, Event
  PROVE  FeedInv'
  <1>1. /\ newest \in Nat /\ newest < MaxEvents /\ newest' = newest + 1
        /\ now' = now /\ lastKnown' = lastKnown
        /\ newest + 1 \in Events /\ newest' \in 0..MaxEvents
      BY ConstantTypes DEF FeedInv, FeedTypeOK, Event, Events
  <1>2. lastKnown.event \in Nat /\ lastKnown.event <= newest
      BY <1>1 DEF FeedInv, FeedTypeOK, OrderInv, Tick, NoTick, Events
  <1>3. CASE tickCh' = tickCh
    <2>1. FeedTypeOK'
        BY <1>1, <1>3 DEF FeedInv, FeedTypeOK
    <2>2. \A i \in DOMAIN tickCh : tickCh[i].event \in Nat
        BY ElementsType, EventTypes DEF FeedInv, FeedTypeOK
    <2>3. OrderInv'
        BY <1>1, <1>2, <1>3, <2>2 DEF FeedInv, OrderInv
    <2> QED
        BY <2>1, <2>3 DEF FeedInv
  <1>4. ASSUME NEW tick \in RawTick, tick.event = newest + 1, Len(tickCh) < TickCapacity,
               tickCh' = Append(tickCh, tick)
        PROVE  FeedInv'
    <2>1. /\ tickCh \in Seq(RawTick) /\ Len(tickCh) \in Nat /\ DOMAIN tickCh = 1..Len(tickCh)
          /\ tickCh' \in Seq(RawTick) /\ Len(tickCh') = Len(tickCh) + 1
          /\ DOMAIN tickCh' = 1..(Len(tickCh) + 1)
          /\ \A i \in 1..Len(tickCh) : tickCh'[i] = tickCh[i]
          /\ tickCh'[Len(tickCh) + 1] = tick
        BY <1>4, AppendProperties, ElementsType DEF FeedInv, FeedTypeOK
    <2>2. FeedTypeOK'
        BY <1>1, <1>4, <2>1, ConstantTypes DEF FeedInv, FeedTypeOK
    <2>3. \A i \in DOMAIN tickCh : /\ tickCh'[i].event = tickCh[i].event
                                   /\ tickCh[i].event \in Nat
                                   /\ tickCh[i].event <= newest
                                   /\ lastKnown.event < tickCh[i].event
      <3>1. \A i \in DOMAIN tickCh : tickCh[i] \in RawTick
          BY <2>1
      <3> QED
          BY <2>1, <3>1, EventTypes DEF FeedInv, FeedTypeOK, OrderInv
    <2>4. \A i \in DOMAIN tickCh' : \/ i \in DOMAIN tickCh
                                    \/ i = Len(tickCh) + 1 /\ tickCh'[i].event = newest + 1
        BY <1>4, <2>1
    <2>5. \A i \in DOMAIN tickCh' : /\ lastKnown.event < tickCh'[i].event
                                    /\ tickCh'[i].event <= newest + 1
        BY <1>1, <1>2, <2>3, <2>4
    <2>6. ASSUME NEW i \in DOMAIN tickCh', NEW j \in DOMAIN tickCh', i < j
          PROVE  tickCh'[i].event < tickCh'[j].event
      <3>1. i \in DOMAIN tickCh
          BY <2>1, <2>6
      <3>2. CASE j \in DOMAIN tickCh
          BY <2>3, <2>6, <3>1, <3>2 DEF FeedInv, OrderInv
      <3>3. CASE j \notin DOMAIN tickCh
          BY <1>1, <2>3, <2>4, <3>1, <3>3
      <3> QED
          BY <3>2, <3>3
    <2>7. OrderInv'
        BY <1>1, <1>2, <2>5, <2>6 DEF OrderInv
    <2> QED
        BY <2>2, <2>7 DEF FeedInv
  <1>5. ASSUME NEW m \in Stamps, NEW tick \in Sent(newest + 1, m), Receive(tick)
        PROVE  FeedInv'
    <2>1. tick \in RawTick /\ tick.event = newest + 1
        BY <1>1, SentType, ConstantTypes DEF Stamps, Minutes
    <2> QED
        BY <1>3, <1>4, <1>5, <2>1 DEF Receive
  <1> QED
      BY <1>3, <1>5 DEF Event

\* Minute moves the clock alone.
LEMMA MinuteInv ==
  ASSUME FeedInv, Minute
  PROVE  FeedInv'
  <1>1. now' \in Minutes
      BY ConstantTypes DEF FeedInv, FeedTypeOK, Minute, Minutes
  <1> QED
      BY <1>1 DEF FeedInv, FeedTypeOK, OrderInv, Minute

\* A tick that is valid has no negative numbers; merging keeps its event.
LEMMA MergedType ==
  ASSUME NEW tick \in RawTick, NEW prev \in Tick \cup {NoTick}, NEW horizon,
         Valid(tick, prev, horizon)
  PROVE  Merged(tick, prev) \in Tick /\ Merged(tick, prev).event = tick.event
  <1>1. prev.bid \in Nat /\ prev.ask \in Nat /\ prev.volume \in Nat
      BY DEF Tick, NoTick
  <1>2. /\ tick.event \in Events /\ tick.minute \in Nat /\ tick.traded \in Int
        /\ tick.bid \in Nat /\ tick.ask \in Nat /\ tick.last \in Nat /\ tick.volume \in Nat
      BY DEF Valid, RawTick
  <1>3. /\ DOMAIN tick = {"event", "bid", "ask", "last", "volume", "minute", "traded"}
        /\ tick \in Tick
      BY <1>2 DEF RawTick, Tick
  <1> QED
      BY <1>1, <1>3 DEF Merged, Tick

\* The head of the channel is later than the last known tick, and earlier than the rest.
LEMMA HeadOfChannel ==
  ASSUME FeedInv, tickCh # <<>>
  PROVE  /\ Head(tickCh) \in RawTick
         /\ Tail(tickCh) \in Seq(RawTick) /\ Len(Tail(tickCh)) <= TickCapacity
         /\ lastKnown.event \in Nat /\ newest \in Nat
         /\ lastKnown.event < Head(tickCh).event /\ Head(tickCh).event <= newest
         /\ \A i \in DOMAIN Tail(tickCh) : /\ Tail(tickCh)[i].event \in Nat
                                            /\ Head(tickCh).event < Tail(tickCh)[i].event
                                            /\ Tail(tickCh)[i].event <= newest
         /\ \A i, j \in DOMAIN Tail(tickCh) :
              i < j => Tail(tickCh)[i].event < Tail(tickCh)[j].event
  <1> DEFINE u == Tail(tickCh)
             h == Head(tickCh)
  <1>1. /\ tickCh \in Seq(RawTick) /\ h \in RawTick /\ u \in Seq(RawTick)
        /\ Len(tickCh) \in Nat \ {0} /\ Len(u) = Len(tickCh) - 1
        /\ DOMAIN tickCh = 1..Len(tickCh) /\ DOMAIN u = 1..(Len(tickCh) - 1)
        /\ h = tickCh[1]
        /\ \A i \in 1..(Len(tickCh) - 1) : u[i] = tickCh[i + 1]
      BY TailElements DEF FeedInv, FeedTypeOK
  <1> HIDE DEF u, h
  <1>2. Len(u) <= TickCapacity
      BY <1>1, ConstantTypes DEF FeedInv, FeedTypeOK
  <1>3. lastKnown.event \in Nat /\ newest \in Nat
      BY EventTypes DEF FeedInv, FeedTypeOK
  <1>4. 1 \in DOMAIN tickCh /\ lastKnown.event < h.event /\ h.event <= newest
      BY <1>1 DEF FeedInv, OrderInv
  <1>5. \A i \in DOMAIN u : /\ i + 1 \in DOMAIN tickCh /\ 1 < i + 1 /\ u[i] = tickCh[i + 1]
                            /\ u[i] \in RawTick
      BY <1>1
  <1>6. \A i \in DOMAIN u : u[i].event \in Nat /\ h.event < u[i].event /\ u[i].event <= newest
    <2>1. \A i \in DOMAIN u : u[i].event \in Nat
        BY <1>5, EventTypes
    <2>2. \A i \in DOMAIN u : h.event < u[i].event /\ u[i].event <= newest
        BY <1>1, <1>4, <1>5 DEF FeedInv, OrderInv
    <2> QED
        BY <2>1, <2>2
  <1>7. ASSUME NEW i \in DOMAIN u, NEW j \in DOMAIN u, i < j
        PROVE  u[i].event < u[j].event
    <2>1. i + 1 < j + 1
        BY <1>1, <1>7
    <2> QED
        BY <1>5, <1>7, <2>1 DEF FeedInv, OrderInv
  <1> QED
      BY <1>1, <1>2, <1>3, <1>4, <1>6, <1>7 DEF u, h

\* The ingest loop takes the first tick, which no bar holds yet, or rejects it.
LEMMA IngestInv ==
  ASSUME FeedInv, RedisInv, LinkInv, counted \subseteq Events, Ingest
  PROVE  FeedInv' /\ RedisInv' /\ LinkInv'
  <1> DEFINE tick == Head(tickCh)
             r == [pc |-> "publish", event |-> tick.event]
  <1>1. /\ publisher["ingest"].pc = "wait" /\ tickCh # <<>> /\ tickCh' = Tail(tickCh)
        /\ \/ /\ lastKnown' = Merged(tick, lastKnown)
              /\ publisher' = [publisher EXCEPT !["ingest"] = r]
              /\ \E horizon : Valid(tick, lastKnown, horizon)
           \/ UNCHANGED <<lastKnown, publisher>>
        /\ UNCHANGED <<now, newest, latest, buffer, flusher, items, retried, bars, faults>>
      BY DEF Ingest, StartPublishing
  <1>2. /\ tick \in RawTick /\ tick.event \in Events
        /\ tickCh' \in Seq(RawTick) /\ Len(tickCh') <= TickCapacity
        /\ lastKnown.event \in Nat /\ newest \in Nat
        /\ lastKnown.event < tick.event /\ tick.event <= newest
        /\ \A i \in DOMAIN tickCh' : /\ tickCh'[i].event \in Nat
                                     /\ tick.event < tickCh'[i].event
                                     /\ tickCh'[i].event <= newest
        /\ \A i, j \in DOMAIN tickCh' : i < j => tickCh'[i].event < tickCh'[j].event
      BY <1>1, HeadOfChannel DEF RawTick
  <1> HIDE DEF tick
  <1>3. CASE UNCHANGED <<lastKnown, publisher>>
    <2>1. FeedTypeOK' /\ OrderInv'
        BY <1>1, <1>2, <1>3, ConstantTypes DEF FeedInv, FeedTypeOK, OrderInv, Events
    <2>2. UNCHANGED <<redis, faults>>
        BY <1>1, <1>3 DEF redis
    <2>3. UNCHANGED <<lastKnown, counted, publisher>>
        BY <1>1, <1>3 DEF bars
    <2> QED
        BY <2>1, <2>2, <2>3, Frames DEF FeedInv
  <1>4. CASE /\ lastKnown' = Merged(tick, lastKnown)
             /\ publisher' = [publisher EXCEPT !["ingest"] = r]
             /\ \E horizon : Valid(tick, lastKnown, horizon)
    <2>1. lastKnown' \in Tick /\ lastKnown'.event = tick.event
        BY <1>2, <1>4, MergedType DEF FeedInv, FeedTypeOK
    <2>2. FeedTypeOK' /\ OrderInv'
        BY <1>1, <1>2, <2>1, ConstantTypes DEF FeedInv, FeedTypeOK, OrderInv, Events
    <2>3. r \in PublisherRecord /\ r.pc = "publish" /\ "ingest" \in Publishers
        BY <1>2, ConstantTypes DEF PublisherRecord, Publishers, Events
    <2> HIDE DEF r
    <2>4. /\ UNCHANGED <<buffer, flusher, items, retried>> /\ faults' = faults
          /\ latest' \in 0..MaxEvents
        BY <1>1 DEF RedisInv, RedisTypeOK
    <2>5. RedisInv'
        BY <1>4, <2>3, <2>4, PublisherMoves
    <2>6. \A e \in counted : e \in Nat /\ e < tick.event
      <3>1. \A e \in counted : e \in Nat
          BY EventTypes
      <3> QED
          BY <1>2, EventTypes, <3>1 DEF LinkInv
    <2>7. counted' = counted /\ tick.event \in Nat
        BY <1>1, <1>2, EventTypes DEF bars
    <2>8. (\A e \in counted : e <= lastKnown.event)' /\ (lastKnown.event \notin counted)'
        BY <2>1, <2>6, <2>7
    <2>9. LinkInv'
        BY <2>1, <2>8 DEF LinkInv
    <2> QED
        BY <2>2, <2>5, <2>9 DEF FeedInv
  <1> QED
      BY <1>1, <1>3, <1>4

--------------------------------------------------------------------------------
(* The bars *)

\* A bar handed on is in the channel, or counted as lost.
LEMMA EmitBarInv ==
  ASSUME BarsInv, EmitBar(bar)
  PROVE  /\ outputCh' \in Seq(Bar) /\ Len(outputCh') <= BarCapacity
         /\ lost' \subseteq Events
         /\ Apart(outputCh')
         /\ TicksIn(outputCh') \cup lost' = TicksIn(outputCh) \cup lost \cup bar.ticks
         /\ TicksIn(outputCh') \cap lost' = {}
         /\ TicksIn(outputCh') \cap TicksIn(published) = {}
         /\ lost' \cap TicksIn(published) = {}
  <1>1. /\ bar \in Bar /\ bar.ticks \subseteq Events /\ outputCh \in Seq(Bar)
        /\ Len(outputCh) \in Nat
      BY ElementsType DEF BarsInv, BarsTypeOK, Bar
  <1>2. CASE Len(outputCh) < BarCapacity
    <2>1. outputCh' = Append(outputCh, bar) /\ lost' = lost
        BY <1>2 DEF EmitBar
    <2>2. /\ outputCh' \in Seq(Bar) /\ Len(outputCh') = Len(outputCh) + 1
          /\ TicksIn(outputCh') = TicksIn(outputCh) \cup bar.ticks
          /\ Apart(outputCh')
        BY <1>1, <2>1, AppendBar DEF BarsInv, TickInOneBar
    <2> QED
        BY <1>1, <1>2, <2>1, <2>2, ConstantTypes DEF BarsInv, BarsTypeOK, TickInOneBar
  <1>3. CASE ~(Len(outputCh) < BarCapacity)
    <2>1. outputCh' = outputCh /\ lost' = lost \cup bar.ticks
        BY <1>3 DEF EmitBar
    <2> QED
        BY <1>1, <2>1 DEF BarsInv, BarsTypeOK, TickInOneBar
  <1> QED
      BY <1>2, <1>3

\* The timer hands the bar on and forgets it.
LEMMA CheckAndEmitInv ==
  ASSUME BarsInv, CheckAndEmit
  PROVE  BarsInv'
  <1>1. EmitBar(bar) /\ bar' = NoBar /\ UNCHANGED <<published, counted>>
      BY DEF CheckAndEmit
  <1>2. NoBar \in Bar /\ NoBar.ticks = {}
      BY DEF NoBar, Bar
  <1>3. BarsTypeOK'
      BY <1>1, <1>2, EmitBarInv DEF BarsInv, BarsTypeOK
  <1>4. TickInOneBar'
      BY <1>1, <1>2, EmitBarInv DEF BarsInv, TickInOneBar
  <1> QED
      BY <1>3, <1>4 DEF BarsInv

\* The published bar leaves the channel for the stream, or is lost.
LEMMA PublishBarInv ==
  ASSUME BarsInv, PublishBar
  PROVE  BarsInv'
  <1> DEFINE h == Head(outputCh)
  <1>1. /\ outputCh # <<>> /\ outputCh' = Tail(outputCh) /\ UNCHANGED <<bar, counted>>
        /\ \/ published' = Append(published, h) /\ lost' = lost
           \/ lost' = lost \cup h.ticks /\ published' = published
      BY DEF PublishBar
  <1>2. /\ outputCh \in Seq(Bar) /\ published \in Seq(Bar) /\ Apart(outputCh)
        /\ Len(outputCh) \in Nat
      BY ElementsType DEF BarsInv, BarsTypeOK, TickInOneBar
  <1>3. /\ h \in Bar /\ outputCh' \in Seq(Bar) /\ Len(outputCh') < Len(outputCh)
        /\ Apart(outputCh')
        /\ TicksIn(outputCh) = h.ticks \cup TicksIn(outputCh')
        /\ h.ticks \cap TicksIn(outputCh') = {}
      BY <1>1, <1>2, TailBars
  <1> HIDE DEF h
  <1>4. h.ticks \subseteq Events /\ Len(outputCh') \in Nat
      BY <1>3, ElementsType DEF Bar
  <1>5. Len(outputCh') <= BarCapacity
      BY <1>2, <1>3, <1>4, ConstantTypes DEF BarsInv, BarsTypeOK
  <1>6. CASE published' = Append(published, h) /\ lost' = lost
    <2>1. h.ticks \cap TicksIn(published) = {}
        BY <1>3 DEF BarsInv, TickInOneBar
    <2>2. /\ published' \in Seq(Bar) /\ TicksIn(published') = TicksIn(published) \cup h.ticks
          /\ Apart(published')
        BY <1>2, <1>3, <1>6, <2>1, AppendBar DEF BarsInv, TickInOneBar
    <2>3. BarsTypeOK'
        BY <1>1, <1>3, <1>5, <1>6, <2>2 DEF BarsInv, BarsTypeOK
    <2>4. TickInOneBar'
        BY <1>1, <1>3, <1>6, <2>2 DEF BarsInv, TickInOneBar
    <2> QED
        BY <2>3, <2>4 DEF BarsInv
  <1>7. CASE lost' = lost \cup h.ticks /\ published' = published
    <2>1. BarsTypeOK'
        BY <1>1, <1>3, <1>4, <1>5, <1>7 DEF BarsInv, BarsTypeOK
    <2>2. TickInOneBar'
        BY <1>1, <1>3, <1>7 DEF BarsInv, TickInOneBar
    <2> QED
        BY <2>1, <2>2 DEF BarsInv
  <1> QED
      BY <1>1, <1>6, <1>7

\* A tick joins the bar it belongs to; its event was in none.
LEMMA AddTickInv ==
  ASSUME FeedInv, RedisInv, BarsInv, LinkInv, AddTick
  PROVE  FeedInv' /\ RedisInv' /\ BarsInv' /\ LinkInv'
  <1> DEFINE e == lastKnown.event
             r == [pc |-> "wait", event |-> 0]
  <1>1. /\ publisher["ingest"].pc = "count" /\ publisher' = [publisher EXCEPT !["ingest"] = r]
        /\ counted' = counted \cup {e}
        /\ UNCHANGED <<feed, latest, buffer, flusher, items, retried, published, faults>>
        /\ \/ EmitBar(bar) /\ bar' = WithTick(NoBar, lastKnown)
           \/ bar' = WithTick(bar, lastKnown) /\ UNCHANGED <<outputCh, lost>>
      BY DEF AddTick, GoTo
  <1>2. lastKnown \in Tick /\ e \in Events /\ e \notin counted
      BY <1>1 DEF LinkInv, Tick
  <1>3. FeedInv'
      BY <1>1, Frames
  <1>4. /\ r \in PublisherRecord /\ r.pc = "wait" /\ "ingest" \in Publishers
        /\ latest' \in 0..MaxEvents
      BY <1>1, ConstantTypes DEF PublisherRecord, Publishers, RedisInv, RedisTypeOK
  <1>5. publisher'["ingest"].pc = "wait"
      BY <1>1, <1>4 DEF RedisInv, RedisTypeOK
  <1> HIDE DEF r
  <1>6. RedisInv'
      BY <1>1, <1>4, PublisherMoves
  <1>7. LinkInv'
    <2>1. lastKnown' = lastKnown /\ e <= e
        BY <1>1, <1>2, ConstantTypes DEF feed, Events
    <2> QED
        BY <1>1, <1>5, <2>1 DEF LinkInv
  <1>8. ASSUME NEW b \in Bar
        PROVE  WithTick(b, lastKnown) \in Bar /\ WithTick(b, lastKnown).ticks = b.ticks \cup {e}
      BY <1>2 DEF WithTick, Bar, Tick
  <1>9. NoBar \in Bar /\ NoBar.ticks = {} /\ bar \in Bar /\ counted' \subseteq Events
      BY <1>1, <1>2 DEF NoBar, Bar, BarsInv, BarsTypeOK
  <1>10. published' = published
      BY <1>1
  <1>11. CASE EmitBar(bar) /\ bar' = WithTick(NoBar, lastKnown)
    <2>1. bar' \in Bar /\ bar'.ticks = {e}
        BY <1>8, <1>9, <1>11
    <2>2. BarsTypeOK'
        BY <1>9, <1>10, <1>11, <2>1, EmitBarInv DEF BarsInv, BarsTypeOK
    <2>3. e \notin TicksIn(outputCh') /\ e \notin lost' /\ e \notin TicksIn(published)
        BY <1>2, <1>11, EmitBarInv DEF BarsInv, TickInOneBar
    <2>4. TickInOneBar'
        BY <1>1, <1>10, <1>11, <2>1, <2>3, EmitBarInv DEF BarsInv, TickInOneBar
    <2> QED
        BY <1>3, <1>6, <1>7, <2>2, <2>4 DEF BarsInv
  <1>12. CASE bar' = WithTick(bar, lastKnown) /\ UNCHANGED <<outputCh, lost>>
    <2>1. bar' \in Bar /\ bar'.ticks = bar.ticks \cup {e}
        BY <1>8, <1>9, <1>12
    <2>2. BarsTypeOK'
        BY <1>9, <1>10, <1>12, <2>1 DEF BarsInv, BarsTypeOK
    <2>3. e \notin TicksIn(outputCh) /\ e \notin lost /\ e \notin TicksIn(published)
        BY <1>2 DEF BarsInv, TickInOneBar
    <2>4. TickInOneBar'
        BY <1>1, <1>10, <1>12, <2>1, <2>3 DEF BarsInv, TickInOneBar
    <2> QED
        BY <1>3, <1>6, <1>7, <2>2, <2>4 DEF BarsInv
  <1> QED
      BY <1>1, <1>3, <1>6, <1>7, <1>11, <1>12

--------------------------------------------------------------------------------
(* The invariant holds *)

\* At the start everything is empty.
LEMMA InitInv == Init => IInv
  <1> SUFFICES ASSUME Init PROVE IInv
      OBVIOUS
  <1>1. /\ now = 1 /\ newest = 0 /\ tickCh = <<>> /\ lastKnown = NoTick
        /\ publisher = [g \in Publishers |-> [pc |-> "wait", event |-> 0]] /\ latest = 0
        /\ buffer = <<>> /\ flusher = [pc |-> "wait", batch |-> <<>>] /\ items = 0
        /\ retried = [i \in Items |-> 0] /\ bar = NoBar /\ outputCh = <<>> /\ published = <<>>
        /\ counted = {} /\ lost = {} /\ faults = 0
      BY DEF Init
  <1>2. <<>> \in Seq(RawTick) /\ <<>> \in Seq(Items) /\ <<>> \in Seq(Bar) /\ Len(<<>>) = 0
      OBVIOUS
  <1>3. FeedInv
    <2>1. FeedTypeOK
        BY <1>1, <1>2, ConstantTypes DEF FeedTypeOK, Minutes
    <2>2. OrderInv
        BY <1>1 DEF OrderInv, NoTick
    <2> QED
        BY <2>1, <2>2 DEF FeedInv
  <1>4. RedisInv
    <2>1. /\ publisher \in [Publishers -> PublisherRecord]
          /\ \A g \in Publishers : publisher[g].pc = "wait"
        BY <1>1, ConstantTypes DEF PublisherRecord
    <2>2. RedisTypeOK
      <3>1. retried \in [Items -> Nat]
          BY <1>1
      <3>2. flusher \in [pc : {"wait", "exec", "failed"}, batch : Seq(Items)]
          BY <1>1, <1>2
      <3> QED
          BY <1>1, <1>2, <2>1, <3>1, <3>2, ConstantTypes DEF RedisTypeOK
    <2>3. items + Failing("ingest") + Failing("first") + Failing("periodic") <= faults
      <3>1. Failing("ingest") = 0 /\ Failing("first") = 0 /\ Failing("periodic") = 0
          BY <2>1 DEF Failing, Publishers
      <3> QED
          BY <1>1, <3>1
    <2>4. RetryInv
        BY <1>1, <2>3, EmptySequence DEF RetryInv, Held
    <2> QED
        BY <2>2, <2>4 DEF RedisInv
  <1>5. BarsInv
    <2>1. NoBar \in Bar /\ NoBar.ticks = {}
        BY DEF NoBar, Bar
    <2>2. BarsTypeOK
        BY <1>1, <1>2, <2>1, ConstantTypes DEF BarsTypeOK
    <2>3. TickInOneBar
        BY <1>1, <2>1, EmptySequence DEF TickInOneBar
    <2> QED
        BY <2>2, <2>3 DEF BarsInv
  <1>6. LinkInv
      BY <1>1 DEF LinkInv, Publishers
  <1> QED
      BY <1>3, <1>4, <1>5, <1>6 DEF IInv

\* A call of PublishTick, or a request to the REST interface, moves its goroutine on.
LEMMA PublishInv ==
  ASSUME IInv, NEW g \in Publishers,
         PublishSucceeds(g) \/ PublishFails(g) \/ Fetch(g) \/ FetchFails(g)
  PROVE  IInv' /\ UNCHANGED <<buffer, flusher, items, retried>>
  <1>1. /\ UNCHANGED <<feed, bars, buffer, flusher, items, retried>>
        /\ g = "ingest" => publisher[g].pc = "publish"
      BY DEF PublishSucceeds, PublishFails, Fetch, FetchFails
  <1>2. /\ latest' \in 0..MaxEvents /\ newest \in 0..MaxEvents
        /\ publisher[g] \in PublisherRecord
      BY DEF IInv, FeedInv, FeedTypeOK, RedisInv, RedisTypeOK, PublisherRecord,
             PublishSucceeds, PublishFails, Fetch, FetchFails
  <1>3. \E r \in PublisherRecord :
          /\ publisher' = [publisher EXCEPT ![g] = r]
          /\ \/ r.pc # "failed" /\ faults' = faults
             \/ r.pc = "failed" /\ Fault
    <2>1. ASSUME NEW pc \in {"wait", "fallback", "publish", "failed", "count", "done"},
                 NEW n \in 0..MaxEvents
          PROVE  [pc |-> pc, event |-> n] \in PublisherRecord
        BY DEF PublisherRecord
    <2>2. 0 \in 0..MaxEvents
        BY ConstantTypes
    <2>3. CASE PublishSucceeds(g)
      <3>1. AfterPublish[g] \in {"count", "done", "wait"}
          BY DEF AfterPublish, Publishers
      <3>2. [pc |-> AfterPublish[g], event |-> 0] \in PublisherRecord
          BY <2>1, <2>2, <3>1
      <3> QED
          BY <2>3, <3>1, <3>2 DEF PublishSucceeds, Return, GoTo
    <2>4. CASE PublishFails(g)
      <3>1. [pc |-> "failed", event |-> 0] \in PublisherRecord
          BY <2>1, <2>2
      <3> QED
          BY <2>4, <3>1 DEF PublishFails, GoTo
    <2>5. CASE Fetch(g)
      <3>1. [pc |-> "publish", event |-> newest] \in PublisherRecord
          BY <1>2, <2>1
      <3> QED
          BY <2>5, <3>1 DEF Fetch, StartPublishing
    <2>6. CASE FetchFails(g)
      <3> DEFINE pc == CASE g = "periodic" -> "wait"
                         [] publisher[g].pc = "wait" -> "fallback"
                         [] OTHER -> "done"
      <3>1. pc \in {"wait", "fallback", "done"}
          OBVIOUS
      <3>2. publisher' = [publisher EXCEPT ![g] = [pc |-> pc, event |-> 0]] /\ faults' = faults
          BY <2>6 DEF FetchFails, GoTo
      <3> HIDE DEF pc
      <3>3. [pc |-> pc, event |-> 0] \in PublisherRecord
          BY <2>1, <2>2, <3>1
      <3> QED
          BY <3>1, <3>2, <3>3
    <2> QED
        BY <2>3, <2>4, <2>5, <2>6
  <1>4. PICK r \in PublisherRecord :
          /\ publisher' = [publisher EXCEPT ![g] = r]
          /\ \/ r.pc # "failed" /\ faults' = faults
             \/ r.pc = "failed" /\ Fault
      BY <1>3
  <1>5. RedisInv'
      BY <1>1, <1>2, <1>4, PublisherMoves DEF IInv
  <1>6. LinkInv'
    <2>1. UNCHANGED <<lastKnown, counted>>
        BY <1>1 DEF feed, bars
    <2>2. g # "ingest" => publisher'["ingest"] = publisher["ingest"]
        BY <1>4 DEF IInv, RedisInv, RedisTypeOK, Publishers
    <2> QED
        BY <1>1, <2>1, <2>2, PublisherLink DEF IInv
  <1> QED
      BY <1>1, <1>5, <1>6, Frames DEF IInv

\* The rest of PublishTick, after a failure.
LEMMA KeepsInv ==
  ASSUME IInv, NEW g \in Publishers, Keep(g)
  PROVE  IInv'
  <1>1. /\ UNCHANGED <<feed, bars>> /\ publisher[g].pc = "failed"
        /\ publisher' = [publisher EXCEPT ![g] = [pc |-> AfterPublish[g], event |-> 0]]
      BY DEF Keep, Return, GoTo
  <1>2. RedisInv'
      BY KeepInv DEF IInv
  <1>3. LinkInv'
    <2>1. UNCHANGED <<lastKnown, counted>>
        BY <1>1 DEF feed, bars
    <2>2. g # "ingest" => publisher'["ingest"] = publisher["ingest"]
        BY <1>1 DEF IInv, RedisInv, RedisTypeOK, Publishers
    <2> QED
        BY <1>1, <2>1, <2>2, PublisherLink DEF IInv
  <1> QED
      BY <1>1, <1>2, <1>3, Frames DEF IInv

\* Every step preserves the invariant.
LEMMA StepInv == IInv /\ [Next]_vars => IInv'
  <1> SUFFICES ASSUME IInv, [Next]_vars PROVE IInv'
      OBVIOUS
  <1>1. CASE Event
    <2>1. UNCHANGED <<redis, bars, faults>> /\ UNCHANGED <<lastKnown, counted, publisher>>
        BY <1>1 DEF Event, redis, bars
    <2> QED
        BY <1>1, <2>1, EventInv, Frames DEF IInv
  <1>2. CASE Minute
    <2>1. UNCHANGED <<redis, bars, faults>> /\ UNCHANGED <<lastKnown, counted, publisher>>
        BY <1>2 DEF Minute, redis, bars
    <2> QED
        BY <1>2, <2>1, MinuteInv, Frames DEF IInv
  <1>3. CASE Ingest
    <2>1. UNCHANGED bars /\ counted \subseteq Events
        BY <1>3 DEF Ingest, IInv, BarsInv, BarsTypeOK
    <2> QED
        BY <1>3, <2>1, IngestInv, Frames DEF IInv
  <1>4. ASSUME NEW g \in Publishers,
               PublishSucceeds(g) \/ PublishFails(g) \/ Fetch(g) \/ FetchFails(g)
        PROVE  IInv'
      BY <1>4, PublishInv
  <1>5. ASSUME NEW g \in Publishers, Keep(g)
        PROVE  IInv'
      BY <1>5, KeepsInv
  <1>6. CASE FlushTakes \/ FlushSucceeds \/ FlushFails \/ PutBack
    <2>1. UNCHANGED <<feed, bars, publisher>> /\ UNCHANGED <<lastKnown, counted, publisher>>
        BY <1>6 DEF FlushTakes, FlushSucceeds, FlushFails, PutBack, feed, bars
    <2>2. RedisInv'
        BY <1>6, FlushTakesInv, FlushSucceedsInv, FlushFailsInv, PutBackInv DEF IInv
    <2> QED
        BY <2>1, <2>2, Frames DEF IInv
  <1>7. CASE AddTick
      BY <1>7, AddTickInv DEF IInv
  <1>8. CASE CheckAndEmit
    <2>1. UNCHANGED <<feed, redis, faults>> /\ UNCHANGED <<lastKnown, counted, publisher>>
        BY <1>8 DEF CheckAndEmit, feed, redis
    <2> QED
        BY <1>8, <2>1, CheckAndEmitInv, Frames DEF IInv
  <1>9. CASE PublishBar
    <2>1. /\ UNCHANGED <<feed, redis>> /\ UNCHANGED <<lastKnown, counted, publisher>>
          /\ faults' = faults \/ Fault
        BY <1>9 DEF PublishBar, feed, redis
    <2> QED
        BY <1>9, <2>1, PublishBarInv, FaultFrame, Frames DEF IInv
  <1>10. CASE UNCHANGED vars
    <2>1. /\ UNCHANGED feed /\ UNCHANGED <<redis, faults>> /\ UNCHANGED bars
          /\ UNCHANGED <<lastKnown, counted, publisher>>
        BY <1>10 DEF vars, feed, redis, bars
    <2> QED
        BY <2>1, Frames DEF IInv
  <1> QED
      BY <1>1, <1>2, <1>3, <1>4, <1>5, <1>6, <1>7, <1>8, <1>9, <1>10 DEF Next

\* The inductive invariant holds throughout.
THEOREM FeedInvariance == Spec => []IInv
  BY InitInv, StepInv, PTL DEF Spec

\* Every variable keeps its type: the channels and the retry buffer keep their capacities,
\* whatever AddTick, PublishTick and the put-back do.
THEOREM FeedTypeCorrect == Spec => []TypeOK
  <1>1. IInv => TypeOK
      BY DEF IInv, FeedInv, RedisInv, BarsInv, TypeOK
  <1> QED
      BY <1>1, FeedInvariance, PTL

\* bar_aggregator.go counts each tick into exactly one bar, whoever emits the bars.
THEOREM TickInOneBarHolds == Spec => []TickInOneBar
  <1>1. IInv => TickInOneBar
      BY DEF IInv, BarsInv
  <1> QED
      BY <1>1, FeedInvariance, PTL

--------------------------------------------------------------------------------
(* What the retry buffer holds *)

\* What is bounded is the buffer; the batch was the buffer.
BatchBounded == Len(flusher.batch) <= MaxBuffer

\* Up to two buffers of messages are held: the one that fills and the one that is sent.
HeldBounded == IsFiniteSet(Held) /\ Cardinality(Held) <= 2 * MaxBuffer

\* No step makes the batch longer than the buffer may be.
LEMMA BatchStep ==
  ASSUME IInv, BatchBounded, [Next]_vars
  PROVE  BatchBounded'
  <1>1. /\ Len(buffer) <= MaxBuffer /\ Len(<<>>) <= MaxBuffer
        /\ flusher = [pc |-> flusher.pc, batch |-> flusher.batch]
      BY FlusherFrom DEF IInv
  <1>2. ASSUME flusher'.batch \in {flusher.batch, buffer, <<>>} PROVE BatchBounded'
      BY <1>1, <1>2 DEF BatchBounded
  <1>3. ASSUME UNCHANGED flusher PROVE BatchBounded'
      BY <1>2, <1>3
  <1>4. CASE Event \/ Minute \/ Ingest \/ AddTick \/ CheckAndEmit \/ PublishBar \/ UNCHANGED vars
      BY <1>3, <1>4 DEF Event, Minute, Ingest, AddTick, CheckAndEmit, PublishBar, vars, redis
  <1>5. ASSUME NEW g \in Publishers,
               \/ PublishSucceeds(g) \/ PublishFails(g) \/ Fetch(g) \/ FetchFails(g) \/ Keep(g)
        PROVE  UNCHANGED flusher
      BY <1>5 DEF PublishSucceeds, PublishFails, Fetch, FetchFails, Keep
  <1>6. CASE FlushTakes
      BY <1>2, <1>6 DEF FlushTakes
  <1>7. CASE FlushSucceeds \/ PutBack
      BY <1>2, <1>7 DEF FlushSucceeds, PutBack
  <1>8. CASE FlushFails
    <2>1. flusher' = [flusher EXCEPT !.pc = "failed"]
        BY <1>8 DEF FlushFails
    <2>2. flusher'.batch = flusher.batch
        BY <1>1, <2>1
    <2> QED
        BY <1>2, <2>2
  <1> QED
      BY <1>3, <1>4, <1>5, <1>6, <1>7, <1>8 DEF Next

\* Two sequences of distinct messages, neither longer than the buffer may be.
LEMMA BoundedHeld ==
  ASSUME RedisInv, BatchBounded
  PROVE  HeldBounded
  <1> DEFINE B == Elements(buffer)
             F == Elements(flusher.batch)
  <1>1. /\ buffer \in Seq(Items) /\ flusher.batch \in Seq(Items)
        /\ Distinct(buffer) /\ Distinct(flusher.batch) /\ B \cap F = {}
        /\ Len(buffer) <= MaxBuffer /\ MaxBuffer \in Nat
      BY FlusherFrom, ConstantTypes
  <1>2. /\ IsFiniteSet(B) /\ Cardinality(B) = Len(buffer) /\ Len(buffer) \in Nat
        /\ IsFiniteSet(F) /\ Cardinality(F) = Len(flusher.batch) /\ Len(flusher.batch) \in Nat
      BY <1>1, DistinctCardinality, ElementsType
  <1> HIDE DEF B, F
  <1>3. /\ IsFiniteSet(B \cup F)
        /\ Cardinality(B \cup F) = Cardinality(B) + Cardinality(F) - Cardinality(B \cap F)
      BY <1>2, FS_Union
  <1>4. Cardinality(B \cap F) = 0
      BY <1>1, FS_EmptySet
  <1>5. Cardinality(B \cup F) <= 2 * MaxBuffer
      BY <1>1, <1>2, <1>3, <1>4 DEF BatchBounded
  <1> QED
      BY <1>3, <1>5 DEF HeldBounded, Held, B, F

\* However long Redis is away, the memory for the messages it is owed is bounded: the
\* capacity is that of the buffer alone, and the batch being sent comes on top of it.
THEOREM HeldBoundedHolds == Spec => []HeldBounded
  <1>1. Init => BatchBounded
      BY ConstantTypes DEF Init, BatchBounded
  <1>2. IInv /\ BatchBounded /\ [Next]_vars => BatchBounded'
      BY BatchStep
  <1>3. IInv /\ BatchBounded => HeldBounded
      BY BoundedHeld DEF IInv
  <1> QED
      BY <1>1, <1>2, <1>3, FeedInvariance, PTL DEF Spec

--------------------------------------------------------------------------------
(* The retry buffer implements the bounded outbox *)

\* Items in memory, distinct in a sequence, bound the size of memory from below.
LEMMA HeldAtLeast ==
  ASSUME RedisInv, NEW s \in Seq(Items), Distinct(s), Elements(s) \subseteq Held,
         Len(s) >= MaxBuffer
  PROVE  Cardinality(Held) >= MaxBuffer
  <1>1. IsFiniteSet(Held)
    <2>1. IsFiniteSet(1..items)
        BY FS_Interval DEF RedisInv, RedisTypeOK
    <2> QED
        BY <2>1, FS_Subset DEF RedisInv, RetryInv
  <1>2. Cardinality(Elements(s)) = Len(s) /\ Len(s) \in Nat /\ MaxBuffer \in Nat
      BY DistinctCardinality, ElementsType, ConstantTypes
  <1>3. /\ Cardinality(Elements(s)) <= Cardinality(Held)
        /\ Cardinality(Held) \in Nat
      BY <1>1, FS_Subset, FS_CardinalityType
  <1> QED
      BY <1>2, <1>3

\* The abstract module counts with the same operator.
LEMMA RetryCounts == \A S : Retry!Cardinality(S) = Cardinality(S)
  BY DEF Cardinality, Retry!Cardinality

\* The empty buffer is the empty outbox.
LEMMA InitRefines == Init => Retry!OutboxInit
  <1> SUFFICES ASSUME Init PROVE Retry!OutboxInit
      OBVIOUS
  <1>1. 1..items = {}
      BY DEF Init
  <1>2. Held = {}
      BY EmptySequence DEF Init, Held
  <1>3. retried = [i \in Items |-> 0]
      BY DEF Init
  <1> QED
      BY <1>1, <1>2, <1>3 DEF Retry!OutboxInit

\* A failed publication is accepted, or given up by a full buffer.
LEMMA KeepRefines ==
  ASSUME RedisInv, NEW g \in Publishers, Keep(g)
  PROVE  Retry!OutboxNext
  <1> DEFINE i == items + 1
  <1>1. /\ i \in Items /\ items' = i /\ retried' = retried /\ items \in Nat
        /\ \/ Held' = Held \cup {i}
           \/ Held' = Held /\ i \notin Held /\ Len(buffer) >= MaxBuffer
      BY KeepInv DEF RedisInv, RedisTypeOK
  <1>2. i \notin 1..items /\ (1..items)' = (1..items) \cup {i}
      BY <1>1
  <1>3. PICK dropped \in SUBSET (Held \cup Items) :
          /\ Held' = (Held \cup {i}) \ dropped
          /\ dropped # {} => Len(buffer) >= MaxBuffer
    <2>1. CASE Held' = Held \cup {i}
      <3>1. {} \in SUBSET (Held \cup Items) /\ Held' = (Held \cup {i}) \ {}
          BY <2>1
      <3> QED
          BY <3>1
    <2>2. CASE Held' = Held /\ i \notin Held /\ Len(buffer) >= MaxBuffer
      <3>1. {i} \in SUBSET (Held \cup Items) /\ Held' = (Held \cup {i}) \ {i}
          BY <1>1, <2>2
      <3> QED
          BY <2>2, <3>1
    <2> QED
        BY <1>1, <2>1, <2>2
  <1>4. dropped # {} => Cardinality(Held) >= MaxBuffer
      BY <1>3, FlusherFrom, HeldAtLeast DEF Held
  <1>5. Retry!Accept(i, dropped)
      BY <1>1, <1>2, <1>3, <1>4, RetryCounts DEF Retry!Accept
  <1> QED
      BY <1>1, <1>3, <1>5 DEF Retry!OutboxNext

\* A batch in the stream, or a part of one, is delivered.
LEMMA FlushRefines ==
  ASSUME RedisInv, NEW some, some \subseteq Held, retried' = Retried(some),
         items' = items, Held' \in {Held, Held \ some}
  PROVE  Retry!OutboxNext
  <1>1. retried' = [i \in Items |-> IF i \in some THEN retried[i] + 1 ELSE retried[i]]
      BY DEF Retried
  <1>2. Retry!Deliver(some)
      BY <1>1 DEF Retry!Deliver
  <1> QED
      BY <1>2 DEF Retry!OutboxNext

\* Every step of the feed is a step of the outbox, or none.
LEMMA StepRefines == IInv /\ [Next]_vars => [Retry!OutboxNext]_(Retry!outbox)
  <1> SUFFICES ASSUME IInv, [Next]_vars PROVE [Retry!OutboxNext]_(Retry!outbox)
      OBVIOUS
  <1>1. RedisInv
      BY DEF IInv
  <1>2. ASSUME Held' = Held, retried' = retried, items' = items
        PROVE  UNCHANGED Retry!outbox
      BY <1>2 DEF Retry!outbox
  <1>3. ASSUME UNCHANGED <<buffer, flusher, items, retried>>
        PROVE  UNCHANGED Retry!outbox
      BY <1>2, <1>3 DEF Held
  <1>4. CASE Event \/ Minute \/ Ingest \/ AddTick \/ CheckAndEmit \/ PublishBar \/ UNCHANGED vars
      BY <1>3, <1>4 DEF Event, Minute, Ingest, AddTick, CheckAndEmit, PublishBar, vars, redis
  <1>5. ASSUME NEW g \in Publishers,
               PublishSucceeds(g) \/ PublishFails(g) \/ Fetch(g) \/ FetchFails(g)
        PROVE  UNCHANGED Retry!outbox
      BY <1>3, <1>5, PublishInv
  <1>6. ASSUME NEW g \in Publishers, Keep(g)
        PROVE  Retry!OutboxNext
      BY <1>1, <1>6, KeepRefines
  <1>7. CASE FlushTakes
      BY <1>1, <1>2, <1>7, FlushTakesInv DEF FlushTakes
  <1>8. CASE FlushSucceeds
    <2> DEFINE some == Elements(flusher.batch)
    <2>1. some \subseteq Held /\ Held' = Held \ some
        BY <1>1, <1>8, FlushSucceedsInv DEF Held
    <2>2. retried' = Retried(some) /\ items' = items
        BY <1>8 DEF FlushSucceeds
    <2> HIDE DEF some
    <2> QED
        BY <1>1, <2>1, <2>2, FlushRefines
  <1>9. CASE FlushFails
    <2>1. Held' = Held /\ items' = items
        BY <1>1, <1>9, FlushFailsInv DEF FlushFails
    <2>2. CASE retried' = retried
        BY <1>2, <2>1, <2>2
    <2>3. ASSUME NEW some \in SUBSET Elements(flusher.batch), retried' = Retried(some)
          PROVE  Retry!OutboxNext
      <3>1. some \subseteq Held
          BY DEF Held
      <3> QED
          BY <1>1, <2>1, <2>3, <3>1, FlushRefines
    <2> QED
        BY <1>9, <2>2, <2>3 DEF FlushFails
  <1>10. CASE PutBack
    <2>1. retried' = retried /\ items' = items
        BY <1>10 DEF PutBack
    <2>2. CASE Held' = Held
        BY <1>2, <2>1, <2>2
    <2>3. CASE Held' # Held
      <3>1. Held' \subseteq Held /\ Cardinality(Held) >= MaxBuffer
          BY <1>1, <1>10, <2>3, PutBackInv, HeldAtLeast
      <3> DEFINE dropped == Held \ Held'
      <3>2. Held' = Held \ dropped /\ dropped \in SUBSET Held
          BY <3>1
      <3> HIDE DEF dropped
      <3>3. Retry!GiveUp(dropped)
          BY <2>1, <3>1, <3>2, RetryCounts DEF Retry!GiveUp
      <3> QED
          BY <3>2, <3>3 DEF Retry!OutboxNext
    <2> QED
        BY <2>2, <2>3
  <1> QED
      BY <1>4, <1>5, <1>6, <1>7, <1>8, <1>9, <1>10 DEF Next

\* A message redis_publisher.go kept leaves memory only into the stream, or when MaxBuffer
\* are held, and is not sent again once the stream has acknowledged it.
THEOREM RetryImplementsOutbox == Spec => ImplementsOutbox
  BY InitRefines, StepRefines, FeedInvariance, PTL
     DEF Spec, ImplementsOutbox, Retry!OutboxSpec

--------------------------------------------------------------------------------
(* The calendars *)

\* The hours of the sessions.
LEMMA Hours ==
  /\ Opening = 570 /\ Clock(9, 30) = 570 /\ Clock(13, 0) = 780 /\ Clock(16, 0) = 960
  /\ Clock(4, 0) = 240 /\ Clock(20, 0) = 1200
  /\ \A d : Closing(d) = IF d \in earlyCloses THEN 780 ELSE 960
  BY DEF Opening, Clock, Closing

\* market_calendar.go opens a trading day once: before the opening, the session, and after
\* the close are apart.
THEOREM SessionsApart ==
  \A t \in Times : /\ ~(IsMarketOpen(t) /\ IsPreMarket(t))
                   /\ ~(IsMarketOpen(t) /\ IsAfterHours(t))
                   /\ ~(IsPreMarket(t) /\ IsAfterHours(t))
  <1> SUFFICES ASSUME NEW t \in Times
               PROVE  /\ ~(IsMarketOpen(t) /\ IsPreMarket(t))
                      /\ ~(IsMarketOpen(t) /\ IsAfterHours(t))
                      /\ ~(IsPreMarket(t) /\ IsAfterHours(t))
      OBVIOUS
  <1>1. t.minute \in Nat
      BY DEF Times
  <1> QED
      BY <1>1, Hours DEF IsMarketOpen, IsPreMarket, IsAfterHours

\* The first trading day ahead is one, and none comes before it.
LEMMA FirstAhead ==
  ASSUME NEW d \in Nat, Ahead(d) # {}
  PROVE  /\ Min(Ahead(d)) \in Ahead(d)
         /\ \A n \in Ahead(d) : Min(Ahead(d)) <= n
  <1>1. Ahead(d) \subseteq Nat
      BY DEF Ahead
  <1>2. PICK m \in Ahead(d) : \A n \in Ahead(d) : ~(<<n, m>> \in OpToRel(<, Nat))
      BY <1>1, WFMin, NatLessThanWellFounded, Zenon
  <1>3. \A n \in Ahead(d) : ~(n < m)
      BY <1>1, <1>2, Zenon DEF OpToRel
  <1>4. \A n \in Ahead(d) : m <= n
      BY <1>1, <1>3
  <1> QED
      BY <1>4 DEF Min

\* "NextOpen returns the next market open time": whatever the tables, when a trading day is
\* among the next ten, it answers with an opening to come, and none comes before it.
THEOREM NextOpenIsNext ==
  ASSUME NEW t \in Times, Ahead(t.day) # {} \/ (IsTradingDay(t.day) /\ t.minute < Opening)
  PROVE  /\ NextOpen(t).minute = Opening
         /\ IsTradingDay(NextOpen(t).day)
         /\ Before(t, NextOpen(t))
         /\ \A d \in Nat : IsTradingDay(d) /\ Before(t, At(d, Opening))
                           => ~Before(At(d, Opening), NextOpen(t))
  <1>1. t.day \in Nat /\ t.minute \in Nat /\ Opening \in Nat
      BY Hours DEF Times
  <1>2. CASE IsTradingDay(t.day) /\ t.minute < Opening
    <2>1. NextOpen(t) = [day |-> t.day, minute |-> Opening]
        BY <1>2 DEF NextOpen, At
    <2> QED
        BY <1>1, <1>2, <2>1 DEF Before, At
  <1>3. CASE ~(IsTradingDay(t.day) /\ t.minute < Opening)
    <2> DEFINE m == Min(Ahead(t.day))
    <2>1. NextOpen(t) = [day |-> m, minute |-> Opening]
        BY <1>3 DEF NextOpen, At
    <2>2. m \in Ahead(t.day) /\ \A n \in Ahead(t.day) : m <= n
        BY <1>1, <1>3, FirstAhead
    <2> HIDE DEF m
    <2>3. m \in Nat /\ t.day < m /\ m <= t.day + 10 /\ IsTradingDay(m)
        BY <1>1, <2>2 DEF Ahead
    <2>4. ASSUME NEW d \in Nat, IsTradingDay(d), Before(t, At(d, Opening))
          PROVE  ~Before(At(d, Opening), NextOpen(t))
      <3>1. t.day < d
          BY <1>1, <1>3, <2>4 DEF Before, At
      <3>2. m <= d
        <4>1. CASE d <= t.day + 10
          <5>1. d \in Ahead(t.day)
              BY <1>1, <2>4, <3>1, <4>1 DEF Ahead
          <5> QED
              BY <2>2, <5>1
        <4>2. CASE ~(d <= t.day + 10)
            BY <1>1, <2>3, <4>2
        <4> QED
            BY <4>1, <4>2
      <3> QED
          BY <1>1, <2>1, <2>3, <3>2 DEF Before, At
    <2> QED
        BY <1>1, <2>1, <2>3, <2>4 DEF Before
  <1> QED
      BY <1>2, <1>3

\* "NextClose returns the next market close time": the same of the closes, which come at
\* one o'clock on some days and at four on the others.
THEOREM NextCloseIsNext ==
  ASSUME NEW t \in Times,
         Ahead(t.day) # {} \/ (IsTradingDay(t.day) /\ t.minute < Closing(t.day))
  PROVE  /\ NextClose(t).minute = Closing(NextClose(t).day)
         /\ IsTradingDay(NextClose(t).day)
         /\ Before(t, NextClose(t))
         /\ \A d \in Nat : IsTradingDay(d) /\ Before(t, At(d, Closing(d)))
                           => ~Before(At(d, Closing(d)), NextClose(t))
  <1>1. t.day \in Nat /\ t.minute \in Nat /\ \A d : Closing(d) \in Nat
      BY Hours DEF Times
  <1>2. CASE IsTradingDay(t.day) /\ t.minute < Closing(t.day)
    <2>1. NextClose(t) = [day |-> t.day, minute |-> Closing(t.day)]
        BY <1>2 DEF NextClose, At
    <2> QED
        BY <1>1, <1>2, <2>1 DEF Before, At
  <1>3. CASE ~(IsTradingDay(t.day) /\ t.minute < Closing(t.day))
    <2> DEFINE m == Min(Ahead(t.day))
    <2>1. NextClose(t) = [day |-> m, minute |-> Closing(m)]
        BY <1>3 DEF NextClose, At
    <2>2. m \in Ahead(t.day) /\ \A n \in Ahead(t.day) : m <= n
        BY <1>1, <1>3, FirstAhead
    <2> HIDE DEF m
    <2>3. m \in Nat /\ t.day < m /\ m <= t.day + 10 /\ IsTradingDay(m)
        BY <1>1, <2>2 DEF Ahead
    <2>4. ASSUME NEW d \in Nat, IsTradingDay(d), Before(t, At(d, Closing(d)))
          PROVE  ~Before(At(d, Closing(d)), NextClose(t))
      <3>1. t.day < d
          BY <1>1, <1>3, <2>4 DEF Before, At
      <3>2. m <= d
        <4>1. CASE d <= t.day + 10
          <5>1. d \in Ahead(t.day)
              BY <1>1, <2>4, <3>1, <4>1 DEF Ahead
          <5> QED
              BY <2>2, <5>1
        <4>2. CASE ~(d <= t.day + 10)
            BY <1>1, <2>3, <4>2
        <4> QED
            BY <4>1, <4>2
      <3> QED
          BY <1>1, <2>1, <2>3, <3>2 DEF Before, At
    <2> QED
        BY <1>1, <2>1, <2>3, <2>4 DEF Before
  <1> QED
      BY <1>2, <1>3

\* Ten days are enough for the search of NextOpen and NextClose: a table that never closes
\* two days in a row leaves a Tuesday or a Wednesday of them open.
THEOREM TenDaysAreEnough ==
  ASSUME \A n \in holidays : n + 1 \notin holidays
  PROVE  \A d \in Nat : Ahead(d) # {}
  <1> SUFFICES ASSUME NEW d \in Nat PROVE Ahead(d) # {}
      OBVIOUS
  <1>1. PICK n \in (d + 1)..(d + 9) : Weekday(n) = 2 /\ Weekday(n + 1) = 3
    <2>1. PICK q \in Nat : 7 * q <= d /\ d < 7 * q + 7
      <3>1. d \div 7 \in Nat
          OBVIOUS
      <3>2. 7 * (d \div 7) <= d /\ d < 7 * (d \div 7) + 7
          OBVIOUS
      <3> QED
          BY <3>1, <3>2
    <2>2. \A x \in Nat : (7 * x + 6 + 3) % 7 = 2 /\ (7 * x + 7 + 3) % 7 = 3
        OBVIOUS
    <2>3. PICK x \in Nat : 7 * x + 6 \in (d + 1)..(d + 9)
      <3>1. CASE d < 7 * q + 6
          BY <2>1, <3>1
      <3>2. CASE ~(d < 7 * q + 6)
        <4>1. q + 1 \in Nat /\ 7 * (q + 1) + 6 \in (d + 1)..(d + 9)
            BY <2>1, <3>2
        <4> QED
            BY <4>1
      <3> QED
          BY <3>1, <3>2
    <2>4. Weekday(7 * x + 6) = 2 /\ Weekday((7 * x + 6) + 1) = 3
        BY <2>2 DEF Weekday
    <2> QED
        BY <2>3, <2>4
  <1>2. n \in Nat /\ n \in (d + 1)..(d + 10) /\ n + 1 \in (d + 1)..(d + 10)
      OBVIOUS
  <1>3. n \notin holidays \/ n + 1 \notin holidays
      OBVIOUS
  <1> QED
      BY <1>1, <1>2, <1>3 DEF Ahead, IsTradingDay, IsWeekend

\* The answers fit together: while the market is open it stays open to the minute before
\* NextClose, which MinutesUntilClose counts, and is closed then.
THEOREM OpenUntilNextClose ==
  ASSUME NEW t \in Times, IsMarketOpen(t)
  PROVE  /\ NextClose(t) = At(t.day, t.minute + MinutesUntilClose(t))
         /\ ~IsMarketOpen(NextClose(t))
         /\ \A u \in Times : ~Before(u, t) /\ Before(u, NextClose(t)) => IsMarketOpen(u)
  <1>1. /\ t.day \in Nat /\ t.minute \in Nat /\ Closing(t.day) \in Nat
        /\ IsTradingDay(t.day) /\ Opening <= t.minute /\ t.minute < Closing(t.day)
        /\ Opening \in Nat
      BY Hours DEF Times, IsMarketOpen
  <1>2. NextClose(t) = [day |-> t.day, minute |-> Closing(t.day)]
      BY <1>1 DEF NextClose, At
  <1>3. t.minute + MinutesUntilClose(t) = Closing(t.day)
      BY <1>1 DEF MinutesUntilClose
  <1>4. ~IsMarketOpen(NextClose(t))
      BY <1>1, <1>2 DEF IsMarketOpen
  <1>5. ASSUME NEW u \in Times, ~Before(u, t), Before(u, NextClose(t))
        PROVE  IsMarketOpen(u)
    <2>1. u.day \in Nat /\ u.minute \in Nat
        BY DEF Times
    <2>2. u.day = t.day /\ t.minute <= u.minute /\ u.minute < Closing(t.day)
        BY <1>1, <1>2, <1>5, <2>1 DEF Before
    <2> QED
        BY <1>1, <2>1, <2>2 DEF IsMarketOpen
  <1> QED
      BY <1>2, <1>3, <1>4, <1>5 DEF At

\* While it is closed it stays closed to the minute before NextOpen, and is open then.
THEOREM ClosedUntilNextOpen ==
  ASSUME NEW t \in Times, ~IsMarketOpen(t),
         Ahead(t.day) # {} \/ (IsTradingDay(t.day) /\ t.minute < Opening)
  PROVE  /\ IsMarketOpen(NextOpen(t))
         /\ \A u \in Times : ~Before(u, t) /\ Before(u, NextOpen(t)) => ~IsMarketOpen(u)
  <1> DEFINE n == NextOpen(t)
  <1>1. /\ n.minute = Opening /\ IsTradingDay(n.day)
        /\ \A d \in Nat : IsTradingDay(d) /\ Before(t, At(d, Opening))
                          => ~Before(At(d, Opening), n)
      BY NextOpenIsNext
  <1> HIDE DEF n
  <1>2. t.day \in Nat /\ t.minute \in Nat /\ Opening \in Nat
        /\ \A d : Closing(d) \in Nat /\ Opening < Closing(d)
      BY Hours DEF Times
  <1>3. IsMarketOpen(n)
      BY <1>1, <1>2 DEF IsMarketOpen
  <1>4. ASSUME NEW u \in Times, ~Before(u, t), Before(u, n), IsMarketOpen(u)
        PROVE  FALSE
    <2>1. /\ u.day \in Nat /\ u.minute \in Nat /\ IsTradingDay(u.day)
          /\ Opening <= u.minute /\ u.minute < Closing(u.day)
        BY <1>4 DEF Times, IsMarketOpen
    <2>2. Before(t, At(u.day, Opening))
      <3>1. CASE t.day < u.day
          BY <3>1 DEF Before, At
      <3>2. CASE ~(t.day < u.day)
        <4>1. u.day = t.day /\ t.minute <= u.minute
            BY <1>2, <1>4, <2>1, <3>2 DEF Before
        <4>2. t.minute < Opening
            BY <1>2, <2>1, <4>1 DEF IsMarketOpen
        <4> QED
            BY <4>1, <4>2 DEF Before, At
      <3> QED
          BY <3>1, <3>2
    <2>3. ~Before(At(u.day, Opening), n)
        BY <1>1, <2>1, <2>2
    <2>4. n.day \in Nat \/ n.day < u.day \/ ~(n.day < u.day)
        OBVIOUS
    <2> QED
        BY <1>1, <1>2, <1>4, <2>1, <2>3 DEF Before, At
  <1> QED
      BY <1>3, <1>4 DEF n

\* The gateway's market_routes.go, and the OMS's checkMarketHours with it, know no tables:
\* they hold the market open on every holiday that is a weekday, and after an early close,
\* and differ from the market data service's calendar then only.
THEOREM GatewayIgnoresTables ==
  \A t \in Times :
    /\ IsMarketOpen(t) => GatewayIsOpen(t) /\ MarketHoursPass(t)
    /\ GatewayIsOpen(t) /\ ~IsMarketOpen(t) <=>
         /\ ~IsWeekend(t.day) /\ t.minute >= 570 /\ t.minute < 960
         /\ t.day \in holidays \/ (t.day \in earlyCloses /\ t.minute >= 780)
  <1> SUFFICES ASSUME NEW t \in Times
               PROVE  /\ IsMarketOpen(t) => GatewayIsOpen(t) /\ MarketHoursPass(t)
                      /\ GatewayIsOpen(t) /\ ~IsMarketOpen(t) <=>
                           /\ ~IsWeekend(t.day) /\ t.minute >= 570 /\ t.minute < 960
                           /\ t.day \in holidays \/ (t.day \in earlyCloses /\ t.minute >= 780)
      OBVIOUS
  <1>1. t.minute \in Nat
      BY DEF Times
  <1> QED
      BY <1>1, Hours DEF IsMarketOpen, IsTradingDay, GatewayIsOpen, MarketHoursPass

================================================================================
