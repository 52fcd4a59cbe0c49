---------------------------- MODULE DBWriterProofs -----------------------------
(***************************************************************************)
(* Theorems about DBWriter, for any capacity, any number of ticks and any  *)
(* number of failing copies. A tick is in one place because what the two   *)
(* goroutines hold and what the buffer holds are disjoint; the invariant   *)
(* says so of the sequences, and that only a tick that arrived is anywhere.*)
(***************************************************************************)
EXTENDS DBWriter, FiniteSets, SequenceTheorems, FiniteSetTheorems, TLAPS

--------------------------------------------------------------------------------
(* Sequences *)

\* The elements of a sequence over S are in S.
LEMMA ElementsType ==
  ASSUME NEW S, NEW s \in Seq(S)
  PROVE  Elements(s) \subseteq S /\ DOMAIN s = 1..Len(s) /\ Len(s) \in Nat
  BY LenProperties DEF Elements

\* Append adds one element at the end.
LEMMA AppendElements ==
  ASSUME NEW S, NEW s \in Seq(S), NEW e \in S
  PROVE  /\ Append(s, e) \in Seq(S)
         /\ Len(Append(s, e)) = Len(s) + 1
         /\ Elements(Append(s, e)) = Elements(s) \cup {e}
         /\ Distinct(s) /\ e \notin Elements(s) => Distinct(Append(s, e))
  <1> DEFINE u == Append(s, e)
  <1>1. /\ u \in Seq(S) /\ Len(u) = Len(s) + 1 /\ Len(s) \in Nat
        /\ DOMAIN u = 1..(Len(s) + 1) /\ DOMAIN s = 1..Len(s)
        /\ \A i \in 1..Len(s) : u[i] = s[i]
        /\ u[Len(s) + 1] = e
      BY AppendProperties, ElementsType
  <1> HIDE DEF u
  <1>2. Elements(u) = Elements(s) \cup {e}
    <2>1. Elements(u) \subseteq Elements(s) \cup {e}
        BY <1>1 DEF Elements
    <2>2. \A i \in 1..Len(s) : s[i] \in Elements(u)
        BY <1>1 DEF Elements
    <2>3. e \in Elements(u)
      <3>1. Len(s) + 1 \in DOMAIN u
          BY <1>1
      <3> QED
          BY <1>1, <3>1 DEF Elements
    <2> QED
        BY <1>1, <2>1, <2>2, <2>3 DEF Elements
  <1>3. ASSUME Distinct(s), e \notin Elements(s)
        PROVE  Distinct(u)
    <2>1. \A i \in 1..Len(s) : s[i] # e
        BY <1>1, <1>3 DEF Elements
    <2> QED
        BY <1>1, <1>3, <2>1 DEF Distinct
  <1> QED
      BY <1>1, <1>2, <1>3 DEF u

\* Concatenation joins the elements, and keeps them distinct when the parts are disjoint.
LEMMA ConcatElements ==
  ASSUME NEW S, NEW s \in Seq(S), NEW t \in Seq(S)
  PROVE  /\ s \o t \in Seq(S)
         /\ Len(s \o t) = Len(s) + Len(t)
         /\ Elements(s \o t) = Elements(s) \cup Elements(t)
         /\ Distinct(s) /\ Distinct(t) /\ Elements(s) \cap Elements(t) = {}
              => Distinct(s \o t)
  <1> DEFINE u == s \o t
  <1>1. /\ u \in Seq(S) /\ Len(u) = Len(s) + Len(t) /\ Len(s) \in Nat /\ Len(t) \in Nat
        /\ DOMAIN u = 1..(Len(s) + Len(t)) /\ DOMAIN s = 1..Len(s) /\ DOMAIN t = 1..Len(t)
        /\ \A i \in 1..(Len(s) + Len(t)) :
             u[i] = IF i <= Len(s) THEN s[i] ELSE t[i - Len(s)]
      BY ConcatProperties, ElementsType
  <1> HIDE DEF u
  <1>2. \A i \in 1..Len(s) : i \in DOMAIN u /\ u[i] = s[i]
      BY <1>1
  <1>3. ASSUME NEW i \in 1..Len(t)
        PROVE  i + Len(s) \in DOMAIN u /\ u[i + Len(s)] = t[i]
    <2>1. /\ i + Len(s) \in 1..(Len(s) + Len(t)) /\ ~(i + Len(s) <= Len(s))
          /\ (i + Len(s)) - Len(s) = i
        BY <1>1
    <2> QED
        BY <1>1, <2>1
  <1>4. \A i \in DOMAIN u : \/ i \in 1..Len(s) /\ u[i] = s[i]
                            \/ i - Len(s) \in 1..Len(t) /\ u[i] = t[i - Len(s)]
      BY <1>1
  <1>5. Elements(u) = Elements(s) \cup Elements(t)
    <2>1. Elements(u) \subseteq Elements(s) \cup Elements(t)
        BY <1>1, <1>4 DEF Elements
    <2>2. Elements(s) \subseteq Elements(u)
        BY <1>1, <1>2 DEF Elements
    <2>3. Elements(t) \subseteq Elements(u)
        BY <1>1, <1>3 DEF Elements
    <2> QED
        BY <2>1, <2>2, <2>3
  <1>6. ASSUME Distinct(s), Distinct(t), Elements(s) \cap Elements(t) = {},
               NEW i \in DOMAIN u, NEW j \in DOMAIN u, u[i] = u[j]
        PROVE  i = j
    <2>1. CASE i \in 1..Len(s) /\ j \in 1..Len(s)
        BY <1>1, <1>6, <2>1 DEF Distinct
    <2>2. CASE i \notin 1..Len(s) /\ j \notin 1..Len(s)
      <3>1. i - Len(s) \in DOMAIN t /\ j - Len(s) \in DOMAIN t
          BY <1>1, <1>4, <1>6, <2>2
      <3>2. t[i - Len(s)] = t[j - Len(s)]
          BY <1>4, <1>6, <2>2
      <3>3. i - Len(s) = j - Len(s)
          BY <1>6, <3>1, <3>2 DEF Distinct
      <3> QED
          BY <1>1, <1>6, <3>3
    <2>3. ASSUME NEW k \in 1..Len(s), NEW l \in 1..Len(t) PROVE s[k] # t[l]
        BY <1>1, <1>6, <2>3 DEF Elements
    <2> QED
        BY <1>4, <1>6, <2>1, <2>2, <2>3
  <1> QED
      BY <1>1, <1>5, <1>6 DEF u, Distinct

\* A subsequence has only elements of the sequence, each as often at most.
LEMMA SubSeqElements ==
  ASSUME NEW S, NEW s \in Seq(S), NEW m \in Nat \ {0}, NEW n \in Nat, n <= Len(s)
  PROVE  /\ SubSeq(s, m, n) \in Seq(S)
         /\ Len(SubSeq(s, m, n)) = IF m <= n THEN n - m + 1 ELSE 0
         /\ Elements(SubSeq(s, m, n)) \subseteq Elements(s)
         /\ Distinct(s) => Distinct(SubSeq(s, m, n))
  <1> DEFINE u == SubSeq(s, m, n)
  <1>1. DOMAIN s = 1..Len(s) /\ Len(s) \in Nat /\ \A i \in 1..Len(s) : s[i] \in S
      BY LenProperties
  <1>2. \A i \in m..n : s[i] \in S
      BY <1>1
  <1>3. /\ u \in Seq(S)
        /\ Len(u) = IF m <= n THEN n - m + 1 ELSE 0
        /\ \A i \in 1..(n - m + 1) : u[i] = s[m + i - 1]
      BY <1>2, SubSeqProperties
  <1> HIDE DEF u
  <1>4. DOMAIN u = 1..Len(u)
      BY <1>3, LenProperties
  <1>5. \A i \in DOMAIN u : i \in Int /\ m + i - 1 \in DOMAIN s /\ u[i] = s[m + i - 1]
      BY <1>1, <1>3, <1>4
  <1>6. Distinct(s) => Distinct(u)
    <2> SUFFICES ASSUME Distinct(s), NEW i \in DOMAIN u, NEW j \in DOMAIN u, u[i] = u[j]
                 PROVE  i = j
        BY DEF Distinct
    <2>1. m + i - 1 = m + j - 1
        BY <1>5 DEF Distinct
    <2> QED
        BY <1>5, <2>1
  <1>7. Elements(u) \subseteq Elements(s)
      BY <1>5 DEF Elements
  <1> QED
      BY <1>3, <1>6, <1>7 DEF u

\* A sequence without repetition has as many elements as it is long.
LEMMA DistinctCardinality ==
  ASSUME NEW S, NEW s \in Seq(S), Distinct(s)
  PROVE  IsFiniteSet(Elements(s)) /\ Cardinality(Elements(s)) = Len(s)
  <1>1. s \in [1..Len(s) -> S] /\ DOMAIN s = 1..Len(s) /\ Len(s) \in Nat
      BY LenProperties
  <1>2. s \in [1..Len(s) -> Elements(s)]
      BY <1>1 DEF Elements
  <1>3. s \in Bijection(1..Len(s), Elements(s))
    <2>1. \A i, j \in 1..Len(s) : s[i] = s[j] => i = j
        BY <1>1 DEF Distinct
    <2>2. \A e \in Elements(s) : \E i \in 1..Len(s) : s[i] = e
        BY <1>1 DEF Elements
    <2> QED
        BY <1>2, <2>1, <2>2 DEF Bijection, Injection, Surjection, IsInjective
  <1>4. ExistsBijection(1..Len(s), Elements(s))
      BY <1>3 DEF ExistsBijection
  <1> QED
      BY <1>1, <1>4, FS_CountingElements, FS_NatBijection

\* Cutting at the capacity loses elements only of a sequence longer than that.
LEMMA CappedElements ==
  ASSUME NEW S, NEW s \in Seq(S)
  PROVE  /\ Capped(s) \in Seq(S)
         /\ Len(Capped(s)) <= MaxBuffer
         /\ Elements(Capped(s)) \subseteq Elements(s)
         /\ Distinct(s) => Distinct(Capped(s))
         /\ Elements(Capped(s)) # Elements(s) => Len(s) > MaxBuffer
  <1>1. MaxBuffer \in Nat /\ 1 \in Nat \ {0} /\ Len(s) \in Nat
      BY DBWriterAssumption, ElementsType
  <1>2. CASE Len(s) > MaxBuffer
    <2>1. Capped(s) = SubSeq(s, 1, MaxBuffer) /\ MaxBuffer <= Len(s)
        BY <1>1, <1>2 DEF Capped
    <2> QED
        BY <1>1, <1>2, <2>1, SubSeqElements
  <1>3. CASE ~(Len(s) > MaxBuffer)
      BY <1>1, <1>3 DEF Capped
  <1> QED
      BY <1>2, <1>3

--------------------------------------------------------------------------------
(* The inductive invariant *)

\* A goroutine has a copy only from the take to the end of the put-back.
BatchInv ==
  \A f \in Flushers : flusher[f].pc \notin {"copy", "failed"} => flusher[f].batch = <<>>

\* Only ticks that arrived are in memory or in the table.
ArrivedInv ==
  /\ \A t \in InMemory : t <= arrived
  /\ \A t \in Ticks : stored[t] > 0 => t <= arrived

IInv == TypeOK /\ BatchInv /\ OnePlace /\ ArrivedInv /\ StoredOnce

Other(f) == IF f = "timer" THEN "size" ELSE "timer"

\* What is in memory, seen from one of the goroutines.
LEMMA SeenFrom ==
  ASSUME NEW f \in Flushers
  PROVE  /\ Other(f) \in Flushers /\ Other(f) # f
         /\ \A g \in Flushers : g = f \/ g = Other(f)
         /\ InMemory = Elements(buffer) \cup InHand(f) \cup InHand(Other(f))
         /\ OnePlace <=> /\ Distinct(buffer)
                         /\ Distinct(flusher[f].batch) /\ Distinct(flusher[Other(f)].batch)
                         /\ InHand(f) \cap Elements(buffer) = {}
                         /\ InHand(Other(f)) \cap Elements(buffer) = {}
                         /\ InHand(f) \cap InHand(Other(f)) = {}
  <1>1. CASE f = "timer"
      BY <1>1 DEF Other, Flushers, InMemory, OnePlace
  <1>2. CASE f = "size"
      BY <1>2 DEF Other, Flushers, InMemory, OnePlace
  <1> QED
      BY <1>1, <1>2 DEF Flushers

\* The same of the next state.
LEMMA SeenFromNext ==
  ASSUME NEW f \in Flushers
  PROVE  /\ InMemory' = Elements(buffer') \cup Elements(flusher'[f].batch) \cup Elements(flusher'[Other(f)].batch)
         /\ OnePlace' <=> /\ Distinct(buffer')
                          /\ Distinct(flusher'[f].batch) /\ Distinct(flusher'[Other(f)].batch)
                          /\ Elements(flusher'[f].batch) \cap Elements(buffer') = {}
                          /\ Elements(flusher'[Other(f)].batch) \cap Elements(buffer') = {}
                          /\ Elements(flusher'[f].batch) \cap Elements(flusher'[Other(f)].batch) = {}
  <1>1. CASE f = "timer"
      BY <1>1 DEF Other, Flushers, InMemory, OnePlace, InHand
  <1>2. CASE f = "size"
      BY <1>2 DEF Other, Flushers, InMemory, OnePlace, InHand
  <1> QED
      BY <1>1, <1>2 DEF Flushers

\* The empty sequence holds nothing.
LEMMA EmptyElements == Elements(<<>>) = {} /\ Distinct(<<>>)
  BY DEF Elements, Distinct

\* The states a goroutine is set to have their type, and no copy where there should be none.
LEMMA FlusherTypes ==
  ASSUME TypeOK, NEW f \in Flushers
  PROVE  /\ Waiting \in FlusherRecord /\ Stopped \in FlusherRecord
         /\ Returned(f) \in {Waiting, Stopped}
         /\ Waiting.batch = <<>> /\ Stopped.batch = <<>>
         /\ Loaded(f) \in FlusherRecord /\ Loaded(f).batch = buffer
         /\ Loaded(f).pc \in {"copy", "failed"}
  <1>1. /\ <<>> \in Seq(Ticks) /\ buffer \in Seq(Ticks) /\ flusher[f] \in FlusherRecord
      BY DEF TypeOK
  <1> QED
      BY <1>1 DEF Waiting, Stopped, Returned, Loaded, FlusherRecord

\* A goroutine set to a record with the batch it had, or moved on without the buffer: the
\* invariant stays when no tick moves.
LEMMA FrameInv ==
  ASSUME IInv, NEW f \in Flushers, NEW r \in FlusherRecord,
         flusher' = [flusher EXCEPT ![f] = r],
         r.batch = flusher[f].batch,
         r.pc \notin {"copy", "failed"} => r.batch = <<>>,
         UNCHANGED <<buffer, arrived, stored, unanswered>>,
         stopping' \in BOOLEAN, faults' \in Nat
  PROVE  IInv' /\ InMemory' = InMemory
  <1>1. /\ flusher \in [Flushers -> FlusherRecord] /\ flusher' \in [Flushers -> FlusherRecord]
        /\ flusher'[f] = r
        /\ \A g \in Flushers : flusher'[g].batch = flusher[g].batch
        /\ \A g \in Flushers : g # f => flusher'[g] = flusher[g]
      BY DEF IInv, TypeOK
  <1>2. /\ InHand("timer")' = InHand("timer") /\ InHand("size")' = InHand("size")
        /\ InMemory' = InMemory
      BY <1>1 DEF InHand, InMemory, Flushers, Elements
  <1>3. TypeOK'
      BY <1>1 DEF IInv, TypeOK
  <1>4. BatchInv'
      BY <1>1 DEF IInv, BatchInv
  <1>5. OnePlace'
    <2> DEFINE g == Other(f)
    <2>1. g \in Flushers /\ OnePlace
        BY SeenFrom DEF IInv
    <2>2. /\ buffer' = buffer
          /\ flusher'[f].batch = flusher[f].batch /\ flusher'[g].batch = flusher[g].batch
        BY <1>1, <2>1
    <2>3. /\ Distinct(buffer)
          /\ Distinct(flusher[f].batch) /\ Distinct(flusher[g].batch)
          /\ Elements(flusher[f].batch) \cap Elements(buffer) = {}
          /\ Elements(flusher[g].batch) \cap Elements(buffer) = {}
          /\ Elements(flusher[f].batch) \cap Elements(flusher[g].batch) = {}
        BY <2>1, SeenFrom DEF InHand
    <2> QED
        BY <2>2, <2>3, SeenFromNext
  <1>6. ArrivedInv'
      BY <1>2 DEF IInv, ArrivedInv
  <1>7. StoredOnce'
      BY <1>2 DEF IInv, StoredOnce
  <1> QED
      BY <1>2, <1>3, <1>4, <1>5, <1>6, <1>7 DEF IInv

--------------------------------------------------------------------------------
(* One lemma for each action *)

\* A new tick is new everywhere; a full buffer lets go of its head and of nothing else.
LEMMA AddTickInv ==
  ASSUME IInv, AddTick
  PROVE  /\ IInv'
         /\ \E dropped \in SUBSET InMemory :
              /\ InMemory' = (InMemory \cup {arrived + 1}) \ dropped
              /\ dropped # {} => Len(buffer) >= MaxBuffer
  <1> DEFINE tick == arrived + 1
             n == Len(buffer) - MaxBuffer + 1
             kept == IF Len(buffer) >= MaxBuffer THEN From(buffer, n) ELSE buffer
             hands == InHand("timer") \cup InHand("size")
             dropped == Elements(buffer) \ Elements(kept)
  <1>1. /\ buffer \in Seq(Ticks) /\ Len(buffer) \in Nat /\ Len(buffer) <= MaxBuffer
        /\ MaxBuffer \in Nat /\ MaxBuffer > 0 /\ MaxTicks \in Nat /\ arrived \in Nat
        /\ arrived < MaxTicks /\ tick \in Ticks /\ arrived' = tick
        /\ buffer' = Append(kept, tick)
        /\ UNCHANGED <<flusher, stopping, stored, faults, unanswered>>
      BY DBWriterAssumption, ElementsType DEF IInv, TypeOK, AddTick, Ticks
  <1>2. /\ kept \in Seq(Ticks) /\ Len(kept) < MaxBuffer /\ Len(kept) \in Nat
        /\ Elements(kept) \subseteq Elements(buffer)
        /\ Distinct(buffer) => Distinct(kept)
        /\ Elements(kept) # Elements(buffer) => Len(buffer) >= MaxBuffer
    <2>1. CASE Len(buffer) >= MaxBuffer
      <3>1. n = 1 /\ n + 1 = 2
          BY <1>1, <2>1
      <3> DEFINE rest == SubSeq(buffer, 2, Len(buffer))
      <3>2. /\ rest \in Seq(Ticks)
            /\ Len(rest) = IF 2 <= Len(buffer) THEN Len(buffer) - 2 + 1 ELSE 0
            /\ Elements(rest) \subseteq Elements(buffer)
            /\ Distinct(buffer) => Distinct(rest)
        <4>1. 2 \in Nat \ {0} /\ Len(buffer) <= Len(buffer)
            BY <1>1
        <4> QED
            BY <1>1, <4>1, SubSeqElements
      <3>3. kept = rest
          BY <2>1, <3>1 DEF From
      <3> HIDE DEF kept, n, rest
      <3> QED
          BY <1>1, <2>1, <3>2, <3>3
    <2>2. CASE ~(Len(buffer) >= MaxBuffer)
        BY <1>1, <2>2
    <2> QED
        BY <2>1, <2>2
  <1> HIDE DEF kept, n
  <1>3. tick \notin InMemory
    <2>1. \A t \in InMemory : t <= arrived
        BY DEF IInv, ArrivedInv
    <2> QED
        BY <1>1, <2>1
  <1>4. /\ buffer' \in Seq(Ticks) /\ Len(buffer') <= MaxBuffer
        /\ Elements(buffer') = Elements(kept) \cup {tick}
        /\ Distinct(buffer')
    <2>1. Distinct(kept) /\ tick \notin Elements(kept)
        BY <1>2, <1>3 DEF IInv, OnePlace, InMemory
    <2> QED
        BY <1>1, <1>2, <2>1, AppendElements
  <1>5. /\ InMemory = Elements(buffer) \cup hands
        /\ InMemory' = Elements(kept) \cup {tick} \cup hands
        /\ Elements(buffer) \cap hands = {}
    <2>1. InMemory' = Elements(buffer') \cup Elements(flusher'["timer"].batch)
                                       \cup Elements(flusher'["size"].batch)
        BY DEF InMemory, InHand
    <2> QED
        BY <1>1, <1>4, <2>1 DEF InMemory, InHand, IInv, OnePlace, Flushers
  <1>6. InMemory' = (InMemory \cup {tick}) \ dropped /\ dropped \subseteq InMemory
      BY <1>2, <1>3, <1>5
  <1>7. TypeOK'
      BY <1>1, <1>4 DEF IInv, TypeOK, Ticks
  <1>8. BatchInv'
      BY <1>1 DEF IInv, BatchInv
  <1>9. OnePlace'
    <2>1. "timer" \in Flushers /\ OnePlace
        BY DEF Flushers, IInv
    <2> DEFINE g == Other("timer")
    <2>2. g \in Flushers /\ \A f \in Flushers : InHand(f) \subseteq hands
        BY <2>1, SeenFrom DEF Flushers
    <2>3. /\ Distinct(flusher["timer"].batch) /\ Distinct(flusher[g].batch)
          /\ Elements(flusher["timer"].batch) \cap Elements(buffer') = {}
          /\ Elements(flusher[g].batch) \cap Elements(buffer') = {}
          /\ Elements(flusher["timer"].batch) \cap Elements(flusher[g].batch) = {}
        BY <1>2, <1>3, <1>4, <1>5, <2>1, <2>2, SeenFrom DEF InHand
    <2> QED
        BY <1>1, <1>4, <2>1, <2>3, SeenFromNext
  <1>10. ArrivedInv'
    <2>1. \A t \in InMemory' : t <= arrived'
      <3>1. InMemory \subseteq Nat /\ \A t \in InMemory : t <= arrived
        <4>1. Elements(buffer) \subseteq Ticks /\ hands \subseteq Ticks
            BY <1>1, ElementsType DEF InHand, IInv, TypeOK, FlusherRecord, Flushers
        <4> QED
            BY <1>5, <4>1 DEF IInv, ArrivedInv, Ticks
      <3> QED
          BY <1>1, <1>6, <3>1
    <2>2. \A t \in Ticks : stored'[t] > 0 => t <= arrived'
        BY <1>1 DEF IInv, ArrivedInv, Ticks, TypeOK
    <2> QED
        BY <2>1, <2>2 DEF ArrivedInv
  <1>11. StoredOnce'
    <2>1. ASSUME unanswered = 0, NEW t \in Ticks
          PROVE  stored[t] <= IF t \in InMemory' THEN 0 ELSE 1
      <3>1. stored[t] \in Nat /\ stored[t] <= IF t \in InMemory THEN 0 ELSE 1
          BY <2>1 DEF IInv, StoredOnce, TypeOK
      <3>2. CASE t = tick
        <4>1. ~(stored[t] > 0)
            BY <1>1, <3>2 DEF IInv, ArrivedInv
        <4> QED
            BY <3>1, <4>1
      <3>3. CASE t # tick
          BY <1>6, <3>1, <3>3
      <3> QED
          BY <3>2, <3>3
    <2> QED
        BY <1>1, <2>1 DEF StoredOnce
  <1> QED
      BY <1>2, <1>6, <1>7, <1>8, <1>9, <1>10, <1>11 DEF IInv

\* The length was read: nothing moves.
LEMMA DecideInv ==
  ASSUME IInv, NEW f \in Flushers, Decide(f)
  PROVE  IInv' /\ InMemory' = InMemory
  <1> DEFINE r == [flusher[f] EXCEPT !.pc = "flush"]
  <1>1. flusher[f] \in FlusherRecord /\ flusher[f].batch = <<>>
      BY DEF IInv, TypeOK, BatchInv, Decide
  <1>2. r \in FlusherRecord /\ r.batch = <<>>
      BY <1>1 DEF FlusherRecord
  <1>3. flusher' = [flusher EXCEPT ![f] = r]
      BY DEF Decide
  <1>4. UNCHANGED <<buffer, arrived, stopping, stored, faults, unanswered>>
      BY DEF Decide
  <1> HIDE DEF r
  <1>5. stopping' \in BOOLEAN /\ faults' \in Nat
      BY <1>4 DEF IInv, TypeOK
  <1> QED
      BY <1>1, <1>2, <1>3, <1>4, <1>5, FrameInv

\* A goroutine that leaves holds nothing.
LEMMA LeaveInv ==
  ASSUME IInv, NEW f \in Flushers, Leave(f)
  PROVE  IInv' /\ InMemory' = InMemory
  <1> DEFINE r == IF f = "timer" THEN [Waiting EXCEPT !.pc = "flush", !.final = TRUE]
                                 ELSE Stopped
  <1>1. flusher[f].batch = <<>> /\ <<>> \in Seq(Ticks)
      BY DEF IInv, BatchInv, Leave
  <1>2. r \in FlusherRecord /\ r.batch = <<>>
      BY <1>1 DEF FlusherRecord, Waiting, Stopped
  <1>3. flusher' = [flusher EXCEPT ![f] = r]
      BY DEF Leave
  <1>4. UNCHANGED <<buffer, arrived, stopping, stored, faults, unanswered>>
      BY DEF Leave
  <1> HIDE DEF r
  <1>5. stopping' \in BOOLEAN /\ faults' \in Nat
      BY <1>4 DEF IInv, TypeOK
  <1> QED
      BY <1>1, <1>2, <1>3, <1>4, <1>5, FrameInv

\* The buffer moves into the goroutine's hand, whole.
LEMMA TakeInv ==
  ASSUME IInv, NEW f \in Flushers, Take(f)
  PROVE  IInv' /\ InMemory' = InMemory
  <1> DEFINE g == Other(f)
             r == IF buffer = <<>> THEN Returned(f) ELSE Loaded(f)
  <1>1. /\ g \in Flushers /\ g # f
        /\ flusher \in [Flushers -> FlusherRecord] /\ flusher[f].batch = <<>>
        /\ MaxBuffer \in Nat
      BY SeenFrom, DBWriterAssumption DEF IInv, TypeOK, BatchInv, Take
  <1>2. /\ r \in FlusherRecord /\ r.batch = buffer
        /\ r.pc \notin {"copy", "failed"} => r.batch = <<>>
      BY FlusherTypes DEF IInv
  <1>3. /\ flusher' = [flusher EXCEPT ![f] = r] /\ buffer' = <<>>
        /\ UNCHANGED <<arrived, stopping, stored, faults, unanswered>>
      BY DEF Take
  <1> HIDE DEF r
  <1>4. /\ flusher' \in [Flushers -> FlusherRecord]
        /\ flusher'[f] = r /\ flusher'[g] = flusher[g]
        /\ \A h \in Flushers : h = f \/ flusher'[h] = flusher[h]
      BY <1>1, <1>2, <1>3
  <1>5. InMemory' = InMemory
    <2>1. InMemory = Elements(buffer) \cup Elements(flusher[f].batch)
                                      \cup Elements(flusher[g].batch)
        BY SeenFrom DEF InHand
    <2>2. InMemory' = Elements(buffer') \cup Elements(flusher'[f].batch)
                                        \cup Elements(flusher'[g].batch)
        BY SeenFromNext
    <2> QED
        BY <1>1, <1>2, <1>3, <1>4, <2>1, <2>2, EmptyElements
  <1>6. OnePlace'
    <2>1. /\ Distinct(buffer) /\ Distinct(flusher[g].batch)
          /\ Elements(flusher[g].batch) \cap Elements(buffer) = {}
        BY SeenFrom DEF IInv, InHand
    <2> QED
        BY <1>2, <1>3, <1>4, <2>1, SeenFromNext, EmptyElements
  <1>7. TypeOK'
    <2>1. <<>> \in Seq(Ticks) /\ Len(<<>>) = 0
        OBVIOUS
    <2> QED
        BY <1>1, <1>3, <1>4, <2>1 DEF IInv, TypeOK
  <1>8. BatchInv'
      BY <1>2, <1>4 DEF IInv, BatchInv
  <1>9. ArrivedInv' /\ StoredOnce'
      BY <1>3, <1>5 DEF IInv, ArrivedInv, StoredOnce
  <1> QED
      BY <1>5, <1>6, <1>7, <1>8, <1>9 DEF IInv

\* Counting the batch in keeps the counts natural, and counts nothing else.
LEMMA WithBatchType ==
  ASSUME TypeOK, NEW f \in Flushers
  PROVE  /\ WithBatch(f) \in [Ticks -> Nat]
         /\ \A t \in Ticks : WithBatch(f)[t] = IF t \in InHand(f) THEN stored[t] + 1
                                                               ELSE stored[t]
  BY DEF TypeOK, WithBatch, InHand

\* An acknowledged copy leaves memory in the step that adds it to the table.
LEMMA CopySucceedsInv ==
  ASSUME IInv, NEW f \in Flushers, CopySucceeds(f)
  PROVE  IInv' /\ InMemory' = InMemory \ InHand(f)
  <1> DEFINE g == Other(f)
             r == Returned(f)
  <1>1. /\ g \in Flushers /\ g # f
        /\ flusher \in [Flushers -> FlusherRecord]
      BY SeenFrom DEF IInv, TypeOK
  <1>2. /\ r \in FlusherRecord /\ r.batch = <<>>
      BY FlusherTypes DEF IInv
  <1>3. /\ flusher' = [flusher EXCEPT ![f] = r] /\ stored' = WithBatch(f)
        /\ UNCHANGED <<buffer, arrived, stopping, faults, unanswered>>
      BY DEF CopySucceeds
  <1> HIDE DEF r
  <1>4. /\ flusher' \in [Flushers -> FlusherRecord]
        /\ flusher'[f] = r /\ flusher'[g] = flusher[g]
        /\ \A h \in Flushers : h = f \/ flusher'[h] = flusher[h]
      BY <1>1, <1>2, <1>3
  <1>5. /\ Distinct(buffer) /\ Distinct(flusher[g].batch)
        /\ InHand(f) \cap Elements(buffer) = {}
        /\ InHand(f) \cap Elements(flusher[g].batch) = {}
        /\ Elements(flusher[g].batch) \cap Elements(buffer) = {}
        /\ InMemory = Elements(buffer) \cup InHand(f) \cup Elements(flusher[g].batch)
      BY SeenFrom DEF IInv, InHand
  <1>6. InMemory' = InMemory \ InHand(f)
    <2>1. InMemory' = Elements(buffer') \cup Elements(flusher'[f].batch)
                                        \cup Elements(flusher'[g].batch)
        BY SeenFromNext
    <2> QED
        BY <1>2, <1>3, <1>4, <1>5, <2>1, EmptyElements
  <1>7. OnePlace'
      BY <1>2, <1>3, <1>4, <1>5, SeenFromNext, EmptyElements
  <1>8. TypeOK'
      BY <1>3, <1>4, WithBatchType DEF IInv, TypeOK
  <1>9. BatchInv'
      BY <1>2, <1>4 DEF IInv, BatchInv
  <1>10. ArrivedInv'
    <2>1. \A t \in InHand(f) : t <= arrived
        BY <1>5 DEF IInv, ArrivedInv
    <2>2. \A t \in Ticks : stored'[t] > 0 => t <= arrived
        BY <1>3, <2>1, WithBatchType DEF IInv, ArrivedInv
    <2> QED
        BY <1>3, <1>6, <2>2 DEF IInv, ArrivedInv
  <1>11. StoredOnce'
    <2>1. ASSUME unanswered = 0, NEW t \in Ticks
          PROVE  stored'[t] <= IF t \in InMemory' THEN 0 ELSE 1
      <3>1. stored[t] \in Nat /\ stored[t] <= IF t \in InMemory THEN 0 ELSE 1
          BY <2>1 DEF IInv, StoredOnce, TypeOK
      <3>2. stored'[t] = IF t \in InHand(f) THEN stored[t] + 1 ELSE stored[t]
          BY <1>3, WithBatchType DEF IInv
      <3> QED
          BY <1>5, <1>6, <3>1, <3>2
    <2> QED
        BY <1>3, <2>1 DEF StoredOnce
  <1> QED
      BY <1>6, <1>7, <1>8, <1>9, <1>10, <1>11 DEF IInv

\* A copy whose answer is lost stays in hand.
LEMMA CopyFailsInv ==
  ASSUME IInv, NEW f \in Flushers, CopyFails(f)
  PROVE  IInv' /\ InMemory' = InMemory
  <1> DEFINE g == Other(f)
             r == [flusher[f] EXCEPT !.pc = "failed"]
  <1>1. /\ g \in Flushers /\ g # f
        /\ flusher \in [Flushers -> FlusherRecord]
      BY SeenFrom DEF IInv, TypeOK
  <1>2. /\ r \in FlusherRecord /\ r.batch = flusher[f].batch /\ r.pc = "failed"
      BY <1>1 DEF FlusherRecord
  <1>3. /\ flusher' = [flusher EXCEPT ![f] = r]
        /\ UNCHANGED <<buffer, arrived, stopping>>
        /\ faults' \in Nat
        /\ \/ UNCHANGED <<stored, unanswered>>
           \/ stored' = WithBatch(f) /\ unanswered' = unanswered + 1
      BY DEF CopyFails, IInv, TypeOK
  <1>4. stopping' \in BOOLEAN
      BY <1>3 DEF IInv, TypeOK
  <1> HIDE DEF r
  <1>5. CASE UNCHANGED <<stored, unanswered>>
      BY <1>2, <1>3, <1>4, <1>5, FrameInv
  <1>6. CASE stored' = WithBatch(f) /\ unanswered' = unanswered + 1
    <2>1. /\ flusher' \in [Flushers -> FlusherRecord]
          /\ flusher'[f] = r /\ flusher'[g] = flusher[g]
          /\ \A h \in Flushers : h = f \/ flusher'[h] = flusher[h]
        BY <1>1, <1>2, <1>3
    <2>2. InMemory' = InMemory
      <3>1. InMemory = Elements(buffer) \cup Elements(flusher[f].batch)
                                        \cup Elements(flusher[g].batch)
          BY SeenFrom DEF InHand
      <3>2. InMemory' = Elements(buffer') \cup Elements(flusher'[f].batch)
                                          \cup Elements(flusher'[g].batch)
          BY SeenFromNext
      <3> QED
          BY <1>2, <1>3, <2>1, <3>1, <3>2
    <2>3. OnePlace'
      <3>1. /\ Distinct(buffer)
            /\ Distinct(flusher[f].batch) /\ Distinct(flusher[g].batch)
            /\ Elements(flusher[f].batch) \cap Elements(buffer) = {}
            /\ Elements(flusher[g].batch) \cap Elements(buffer) = {}
            /\ Elements(flusher[f].batch) \cap Elements(flusher[g].batch) = {}
          BY SeenFrom DEF IInv, InHand
      <3> QED
          BY <1>2, <1>3, <2>1, <3>1, SeenFromNext
    <2>4. TypeOK'
        BY <1>3, <1>4, <1>6, <2>1, WithBatchType DEF IInv, TypeOK
    <2>5. BatchInv'
        BY <1>2, <2>1 DEF IInv, BatchInv
    <2>6. ArrivedInv'
      <3>1. \A t \in InHand(f) : t <= arrived
          BY SeenFrom DEF IInv, ArrivedInv
      <3>2. \A t \in Ticks : stored'[t] > 0 => t <= arrived
          BY <1>6, <3>1, WithBatchType DEF IInv, ArrivedInv
      <3> QED
          BY <1>3, <2>2, <3>2 DEF IInv, ArrivedInv
    <2>7. StoredOnce'
        BY <1>6 DEF IInv, TypeOK, StoredOnce
    <2> QED
        BY <2>2, <2>3, <2>4, <2>5, <2>6, <2>7 DEF IInv
  <1> QED
      BY <1>3, <1>5, <1>6

\* A put-back lets go of ticks only when copy and buffer together exceed the capacity.
LEMMA PutBackInv ==
  ASSUME IInv, NEW f \in Flushers, PutBack(f)
  PROVE  /\ IInv'
         /\ InMemory' \subseteq InMemory
         /\ InMemory' # InMemory =>
              /\ flusher[f].batch \o buffer \in Seq(Ticks)
              /\ Distinct(flusher[f].batch \o buffer)
              /\ Len(flusher[f].batch \o buffer) >= MaxBuffer
              /\ Elements(flusher[f].batch \o buffer) \subseteq InMemory
  <1> DEFINE g == Other(f)
             r == Returned(f)
             joined == flusher[f].batch \o buffer
  <1>1. /\ g \in Flushers /\ g # f
        /\ flusher \in [Flushers -> FlusherRecord] /\ flusher[f].batch \in Seq(Ticks)
        /\ buffer \in Seq(Ticks) /\ MaxBuffer \in Nat
      BY SeenFrom, DBWriterAssumption DEF IInv, TypeOK, FlusherRecord
  <1>2. /\ r \in FlusherRecord /\ r.batch = <<>>
      BY FlusherTypes DEF IInv
  <1>3. /\ flusher' = [flusher EXCEPT ![f] = r] /\ buffer' = Capped(joined)
        /\ UNCHANGED <<arrived, stopping, stored, faults, unanswered>>
      BY DEF PutBack
  <1> HIDE DEF r
  <1>4. /\ flusher' \in [Flushers -> FlusherRecord]
        /\ flusher'[f] = r /\ flusher'[g] = flusher[g]
        /\ \A h \in Flushers : h = f \/ flusher'[h] = flusher[h]
      BY <1>1, <1>2, <1>3
  <1>5. /\ Distinct(buffer) /\ Distinct(flusher[f].batch) /\ Distinct(flusher[g].batch)
        /\ Elements(flusher[f].batch) \cap Elements(buffer) = {}
        /\ Elements(flusher[f].batch) \cap Elements(flusher[g].batch) = {}
        /\ Elements(flusher[g].batch) \cap Elements(buffer) = {}
        /\ InMemory = Elements(buffer) \cup Elements(flusher[f].batch)
                                       \cup Elements(flusher[g].batch)
      BY SeenFrom DEF IInv, InHand
  <1>6. /\ joined \in Seq(Ticks) /\ Distinct(joined)
        /\ Elements(joined) = Elements(flusher[f].batch) \cup Elements(buffer)
        /\ Len(joined) \in Nat
      BY <1>1, <1>5, ConcatElements, ElementsType
  <1> HIDE DEF joined
  <1>7. /\ buffer' \in Seq(Ticks) /\ Len(buffer') <= MaxBuffer
        /\ Elements(buffer') \subseteq Elements(joined) /\ Distinct(buffer')
        /\ Elements(buffer') # Elements(joined) => Len(joined) > MaxBuffer
      BY <1>3, <1>6, CappedElements
  <1>8. InMemory' = Elements(buffer') \cup Elements(flusher[g].batch)
    <2>1. InMemory' = Elements(buffer') \cup Elements(flusher'[f].batch)
                                        \cup Elements(flusher'[g].batch)
        BY SeenFromNext
    <2> QED
        BY <1>2, <1>4, <2>1, EmptyElements
  <1>9. InMemory' \subseteq InMemory /\ (InMemory' # InMemory => Len(joined) > MaxBuffer)
      BY <1>5, <1>6, <1>7, <1>8
  <1>10. OnePlace'
    <2>1. Elements(flusher[g].batch) \cap Elements(buffer') = {}
        BY <1>5, <1>6, <1>7
    <2> QED
        BY <1>2, <1>4, <1>5, <1>7, <2>1, SeenFromNext, EmptyElements
  <1>11. TypeOK'
      BY <1>3, <1>4, <1>7 DEF IInv, TypeOK
  <1>12. BatchInv'
      BY <1>2, <1>4 DEF IInv, BatchInv
  <1>13. ArrivedInv'
      BY <1>3, <1>9 DEF IInv, ArrivedInv
  <1>14. StoredOnce'
    <2>1. ASSUME unanswered = 0, NEW t \in Ticks
          PROVE  stored[t] <= IF t \in InMemory' THEN 0 ELSE 1
      <3>1. stored[t] \in Nat /\ stored[t] <= IF t \in InMemory THEN 0 ELSE 1
          BY <2>1 DEF IInv, StoredOnce, TypeOK
      <3> QED
          BY <1>9, <3>1
    <2> QED
        BY <1>3, <2>1 DEF StoredOnce
  <1>15. InMemory' # InMemory => Len(joined) >= MaxBuffer /\ Elements(joined) \subseteq InMemory
      BY <1>1, <1>5, <1>6, <1>9
  <1> QED
      BY <1>6, <1>9, <1>10, <1>11, <1>12, <1>13, <1>14, <1>15 DEF IInv, joined

\* No variable but `stopping` moves.
LEMMA StillInv ==
  ASSUME IInv, UNCHANGED <<buffer, arrived, flusher, stored, faults, unanswered>>,
         stopping' \in BOOLEAN
  PROVE  IInv' /\ InMemory' = InMemory
  <1>1. "timer" \in Flushers /\ flusher \in [Flushers -> FlusherRecord]
      BY DEF Flushers, IInv, TypeOK
  <1> DEFINE r == flusher["timer"]
  <1>2. r \in FlusherRecord /\ (r.pc \notin {"copy", "failed"} => r.batch = <<>>)
      BY <1>1 DEF IInv, BatchInv
  <1>3. flusher' = [flusher EXCEPT !["timer"] = r]
      BY <1>1
  <1>4. faults' \in Nat
      BY DEF IInv, TypeOK
  <1> HIDE DEF r
  <1>5. r.batch = flusher["timer"].batch
      BY DEF r
  <1> QED
      BY <1>1, <1>2, <1>3, <1>4, <1>5, FrameInv

\* At the start nothing arrived and nothing is anywhere.
LEMMA InitInv == Init => IInv
  <1> SUFFICES ASSUME Init PROVE IInv
      OBVIOUS
  <1>1. /\ <<>> \in Seq(Ticks) /\ Len(<<>>) = 0 /\ Waiting \in FlusherRecord
        /\ Waiting.batch = <<>> /\ MaxBuffer \in Nat /\ MaxTicks \in Nat
      BY DBWriterAssumption DEF Waiting, FlusherRecord
  <1>2. /\ buffer = <<>> /\ arrived = 0 /\ \A f \in Flushers : flusher[f] = Waiting
        /\ flusher \in [Flushers -> FlusherRecord]
        /\ \A t \in Ticks : stored[t] = 0
      BY <1>1 DEF Init
  <1>3. TypeOK
    <2>1. stored \in [Ticks -> Nat] /\ arrived \in 0..MaxTicks
        BY <1>1 DEF Init
    <2>2. stopping \in BOOLEAN /\ faults \in Nat /\ unanswered \in Nat
        BY DEF Init
    <2> QED
        BY <1>1, <1>2, <2>1, <2>2, DBWriterAssumption DEF TypeOK
  <1>4. BatchInv
      BY <1>1, <1>2 DEF BatchInv
  <1>5. InMemory = {}
      BY <1>1, <1>2, EmptyElements DEF InMemory, InHand, Flushers
  <1>6. OnePlace
      BY <1>1, <1>2, EmptyElements DEF OnePlace, InHand, Flushers
  <1>7. ArrivedInv /\ StoredOnce
      BY <1>2, <1>5 DEF ArrivedInv, StoredOnce
  <1> QED
      BY <1>3, <1>4, <1>6, <1>7 DEF IInv

\* Every step preserves the invariant.
LEMMA StepInv == IInv /\ [Next]_vars => IInv'
  <1> SUFFICES ASSUME IInv, [Next]_vars PROVE IInv'
      OBVIOUS
  <1>1. CASE AddTick
      BY <1>1, AddTickInv
  <1>2. ASSUME NEW f \in Flushers, Decide(f) PROVE IInv'
      BY <1>2, DecideInv
  <1>3. ASSUME NEW f \in Flushers, Leave(f) PROVE IInv'
      BY <1>3, LeaveInv
  <1>4. ASSUME NEW f \in Flushers, Take(f) PROVE IInv'
      BY <1>4, TakeInv
  <1>5. ASSUME NEW f \in Flushers, CopySucceeds(f) PROVE IInv'
      BY <1>5, CopySucceedsInv
  <1>6. ASSUME NEW f \in Flushers, CopyFails(f) PROVE IInv'
      BY <1>6, CopyFailsInv
  <1>7. ASSUME NEW f \in Flushers, PutBack(f) PROVE IInv'
      BY <1>7, PutBackInv
  <1>8. CASE Shutdown
      BY <1>8, StillInv DEF Shutdown
  <1>9. CASE UNCHANGED vars
    <2>1. stopping' \in BOOLEAN
        BY <1>9 DEF IInv, TypeOK, vars
    <2> QED
        BY <1>9, <2>1, StillInv DEF vars
  <1> QED
      BY <1>1, <1>2, <1>3, <1>4, <1>5, <1>6, <1>7, <1>8, <1>9 DEF Next

--------------------------------------------------------------------------------
(* Theorems *)

\* The inductive invariant holds throughout.
THEOREM WriterInvariance == Spec => []IInv
  BY InitInv, StepInv, PTL DEF Spec

\* Every variable keeps its type, and the buffer its capacity, whatever AddTick and the two
\* put-backs do.
THEOREM WriterTypeCorrect == Spec => []TypeOK
  <1>1. IInv => TypeOK
      BY DEF IInv
  <1> QED
      BY <1>1, WriterInvariance, PTL

\* No tick is in memory twice, however the flushes interleave (db_writer.go's flush takes a
\* copy under the lock and puts it back under the lock).
THEOREM OnePlaceHolds == Spec => []OnePlace
  <1>1. IInv => OnePlace
      BY DEF IInv
  <1> QED
      BY <1>1, WriterInvariance, PTL

\* Without a lost answer, no tick is inserted twice.
THEOREM StoredOnceHolds == Spec => []StoredOnce
  <1>1. IInv => StoredOnce
      BY DEF IInv
  <1> QED
      BY <1>1, WriterInvariance, PTL

--------------------------------------------------------------------------------
(* What memory holds *)

\* What is bounded is the buffer; a copy was a buffer.
BatchBounded == \A f \in Flushers : Len(flusher[f].batch) <= MaxBuffer

\* The writer as a whole holds up to three buffers: the one that fills and the two copies.
MemoryBounded == IsFiniteSet(InMemory) /\ Cardinality(InMemory) <= 3 * MaxBuffer

\* No step makes a copy longer than the buffer may be.
LEMMA BatchBoundedStep ==
  ASSUME IInv, BatchBounded, [Next]_vars
  PROVE  BatchBounded'
  <1>1. /\ flusher \in [Flushers -> FlusherRecord] /\ Len(buffer) <= MaxBuffer
        /\ Len(<<>>) = 0 /\ MaxBuffer \in Nat /\ 0 <= MaxBuffer
      BY DBWriterAssumption DEF IInv, TypeOK
  <1>2. ASSUME NEW f \in Flushers, NEW r,
               flusher' = [flusher EXCEPT ![f] = r],
               r.batch \in {flusher[f].batch, buffer, <<>>}
        PROVE  BatchBounded'
      BY <1>1, <1>2 DEF BatchBounded
  <1>3. ASSUME NEW f \in Flushers, Decide(f) \/ CopyFails(f) PROVE BatchBounded'
    <2>1. \E step \in {"flush", "failed"} : flusher' = [flusher EXCEPT ![f].pc = step]
        BY <1>3 DEF Decide, CopyFails
    <2>2. PICK step \in {"flush", "failed"} :
            flusher' = [flusher EXCEPT ![f] = [flusher[f] EXCEPT !.pc = step]]
        BY <2>1
    <2>3. [flusher[f] EXCEPT !.pc = step].batch = flusher[f].batch
        BY <1>1 DEF FlusherRecord
    <2> QED
        BY <1>2, <2>2, <2>3
  <1>4. ASSUME NEW f \in Flushers, Leave(f) \/ CopySucceeds(f) \/ PutBack(f)
        PROVE  BatchBounded'
    <2>1. PICK r \in {Waiting, Stopped, [Waiting EXCEPT !.pc = "flush", !.final = TRUE]} :
            flusher' = [flusher EXCEPT ![f] = r]
        BY <1>4 DEF Leave, CopySucceeds, PutBack, Returned
    <2>2. r.batch = <<>>
      <3>1. Waiting.batch = <<>>
          BY DEF Waiting
      <3>2. Stopped.batch = <<>> /\ [Waiting EXCEPT !.pc = "flush", !.final = TRUE].batch = <<>>
          BY DEF Waiting, Stopped
      <3> QED
          BY <2>1, <3>1, <3>2
    <2> QED
        BY <1>2, <2>1, <2>2
  <1>5. ASSUME NEW f \in Flushers, Take(f) PROVE BatchBounded'
    <2>1. PICK r \in {Returned(f), Loaded(f)} : flusher' = [flusher EXCEPT ![f] = r]
        BY <1>5 DEF Take
    <2>2. r.batch \in {buffer, <<>>}
        BY FlusherTypes DEF IInv
    <2> QED
        BY <1>2, <2>1, <2>2
  <1>6. ASSUME AddTick \/ Shutdown \/ UNCHANGED vars PROVE BatchBounded'
      BY <1>6 DEF AddTick, Shutdown, vars, BatchBounded
  <1> QED
      BY <1>3, <1>4, <1>5, <1>6 DEF Next

\* Three sequences of distinct ticks, none longer than the buffer may be.
LEMMA BoundedMemory ==
  ASSUME IInv, BatchBounded
  PROVE  MemoryBounded
  <1> DEFINE B == Elements(buffer)
             T == InHand("timer")
             S == InHand("size")
  <1>1. /\ IsFiniteSet(B) /\ Cardinality(B) \in Nat /\ Cardinality(B) <= MaxBuffer
        /\ MaxBuffer \in Nat
      BY DistinctCardinality, FS_CardinalityType, DBWriterAssumption DEF IInv, TypeOK, OnePlace
  <1>2. ASSUME NEW f \in Flushers
        PROVE  /\ IsFiniteSet(InHand(f)) /\ Cardinality(InHand(f)) \in Nat
               /\ Cardinality(InHand(f)) <= MaxBuffer
    <2>1. flusher[f].batch \in Seq(Ticks) /\ Distinct(flusher[f].batch)
        BY DEF IInv, TypeOK, FlusherRecord, OnePlace
    <2> QED
        BY <2>1, DistinctCardinality, FS_CardinalityType DEF BatchBounded, InHand
  <1>3. /\ IsFiniteSet(T) /\ Cardinality(T) \in Nat /\ Cardinality(T) <= MaxBuffer
        /\ IsFiniteSet(S) /\ Cardinality(S) \in Nat /\ Cardinality(S) <= MaxBuffer
      BY <1>2 DEF Flushers
  <1> HIDE DEF B, T, S
  <1>4. /\ IsFiniteSet(B \cup T) /\ Cardinality(B \cup T) \in Nat
        /\ Cardinality(B \cup T) <= 2 * MaxBuffer
    <2>1. IsFiniteSet(B \cap T) /\ Cardinality(B \cap T) \in Nat
        BY <1>1, FS_Subset, FS_CardinalityType
    <2>2. /\ IsFiniteSet(B \cup T)
          /\ Cardinality(B \cup T) = Cardinality(B) + Cardinality(T) - Cardinality(B \cap T)
        BY <1>1, <1>3, FS_Union
    <2> QED
        BY <1>1, <1>3, <2>1, <2>2, FS_CardinalityType
  <1>5. /\ IsFiniteSet((B \cup T) \cup S)
        /\ Cardinality((B \cup T) \cup S) <= 3 * MaxBuffer
    <2>1. IsFiniteSet((B \cup T) \cap S) /\ Cardinality((B \cup T) \cap S) \in Nat
        BY <1>4, FS_Subset, FS_CardinalityType
    <2>2. /\ IsFiniteSet((B \cup T) \cup S)
          /\ Cardinality((B \cup T) \cup S)
               = Cardinality(B \cup T) + Cardinality(S) - Cardinality((B \cup T) \cap S)
        BY <1>3, <1>4, FS_Union
    <2> QED
        BY <1>1, <1>3, <1>4, <2>1, <2>2
  <1> QED
      BY <1>5 DEF InMemory, MemoryBounded, B, T, S

\* However long the database is away, the writer's memory is bounded: maxBuffer is the
\* bound of the buffer alone, and the two copies being flushed come on top of it.
THEOREM MemoryBoundedHolds == Spec => []MemoryBounded
  <1>1. Init => BatchBounded
      BY DBWriterAssumption DEF Init, BatchBounded, Waiting
  <1>2. IInv /\ BatchBounded /\ [Next]_vars => BatchBounded'
      BY BatchBoundedStep
  <1>3. IInv /\ BatchBounded => MemoryBounded
      BY BoundedMemory
  <1> QED
      BY <1>1, <1>2, <1>3, WriterInvariance, PTL DEF Spec

--------------------------------------------------------------------------------
(* The writer implements the bounded outbox *)

\* Memory is finite.
LEMMA MemoryFinite ==
  ASSUME IInv
  PROVE  IsFiniteSet(InMemory) /\ InMemory \subseteq Ticks
  <1>1. InMemory \subseteq Ticks
      BY ElementsType DEF IInv, TypeOK, InMemory, InHand, FlusherRecord, Flushers
  <1>2. IsFiniteSet(Ticks)
      BY FS_Interval, DBWriterAssumption DEF Ticks
  <1> QED
      BY <1>1, <1>2, FS_Subset

\* A sequence of distinct ticks in memory bounds the size of memory from below.
LEMMA MemoryAtLeast ==
  ASSUME IInv, NEW s \in Seq(Ticks), Distinct(s), Elements(s) \subseteq InMemory,
         Len(s) >= MaxBuffer
  PROVE  Cardinality(InMemory) >= MaxBuffer
  <1>1. Cardinality(Elements(s)) = Len(s) /\ Len(s) \in Nat /\ MaxBuffer \in Nat
      BY DistinctCardinality, ElementsType, DBWriterAssumption
  <1>2. /\ Cardinality(Elements(s)) <= Cardinality(InMemory)
        /\ Cardinality(InMemory) \in Nat
      BY MemoryFinite, FS_Subset, FS_CardinalityType
  <1> QED
      BY <1>1, <1>2

\* The abstract module counts with the same operator.
LEMMA StoreCounts == \A S : Store!Cardinality(S) = Cardinality(S)
  BY DEF Cardinality, Store!Cardinality

\* The empty writer is the empty outbox.
LEMMA InitRefines == Init => Store!OutboxInit
  <1> SUFFICES ASSUME Init PROVE Store!OutboxInit
      OBVIOUS
  <1>1. 1..arrived = {}
      BY DEF Init
  <1>2. InMemory = {}
      BY EmptyElements DEF Init, InMemory, InHand, Flushers, Waiting
  <1>3. stored = [i \in Ticks |-> 0]
      BY DEF Init
  <1> QED
      BY <1>1, <1>2, <1>3 DEF Store!OutboxInit

\* AddTick accepts the tick, and drops for it only from a full buffer.
LEMMA AddTickRefines ==
  ASSUME IInv, AddTick
  PROVE  Store!OutboxNext
  <1>1. PICK dropped \in SUBSET InMemory :
          /\ InMemory' = (InMemory \cup {arrived + 1}) \ dropped
          /\ dropped # {} => Len(buffer) >= MaxBuffer
      BY AddTickInv
  <1>2. dropped # {} => Cardinality(InMemory) >= MaxBuffer
    <2>1. buffer \in Seq(Ticks) /\ Distinct(buffer) /\ Elements(buffer) \subseteq InMemory
        BY DEF IInv, TypeOK, OnePlace, InMemory
    <2> QED
        BY <1>1, <2>1, MemoryAtLeast
  <1>3. /\ arrived + 1 \in Ticks /\ arrived + 1 \notin 1..arrived
        /\ (1..arrived)' = (1..arrived) \cup {arrived + 1}
        /\ stored' = stored
    <2>1. /\ arrived \in Nat /\ MaxTicks \in Nat /\ arrived < MaxTicks
          /\ arrived' = arrived + 1 /\ stored' = stored
        BY DBWriterAssumption DEF IInv, TypeOK, AddTick
    <2> QED
        BY <2>1 DEF Ticks
  <1>4. Store!Accept(arrived + 1, dropped)
    <2> DEFINE accepted == 1..arrived
    <2>1. accepted' = accepted \cup {arrived + 1} /\ arrived + 1 \notin accepted
        BY <1>3
    <2> QED
        BY <1>1, <1>2, <1>3, <2>1, StoreCounts DEF Store!Accept
  <1> QED
      BY <1>1, <1>3, <1>4 DEF Store!OutboxNext

\* A copy that reached the table delivers the batch.
LEMMA CopyRefines ==
  ASSUME IInv, NEW f \in Flushers, stored' = WithBatch(f), arrived' = arrived,
         InMemory' \in {InMemory, InMemory \ InHand(f)}
  PROVE  Store!OutboxNext
  <1>1. InHand(f) \subseteq InMemory
      BY SeenFrom
  <1>2. stored' = [t \in Ticks |-> IF t \in InHand(f) THEN stored[t] + 1 ELSE stored[t]]
      BY DEF WithBatch, InHand
  <1>3. Store!Deliver(InHand(f))
      BY <1>1, <1>2 DEF Store!Deliver
  <1> QED
      BY <1>1, <1>3 DEF Store!OutboxNext

\* Every step of the writer is a step of the outbox, or none.
LEMMA StepRefines == IInv /\ [Next]_vars => [Store!OutboxNext]_(Store!outbox)
  <1> SUFFICES ASSUME IInv, [Next]_vars PROVE [Store!OutboxNext]_(Store!outbox)
      OBVIOUS
  <1>1. ASSUME InMemory' = InMemory, stored' = stored, arrived' = arrived
        PROVE  UNCHANGED Store!outbox
      BY <1>1 DEF Store!outbox
  <1>2. CASE AddTick
      BY <1>2, AddTickRefines
  <1>3. ASSUME NEW f \in Flushers, Decide(f) \/ Leave(f) \/ Take(f)
        PROVE  UNCHANGED Store!outbox
    <2>1. InMemory' = InMemory
        BY <1>3, DecideInv, LeaveInv, TakeInv
    <2>2. stored' = stored /\ arrived' = arrived
        BY <1>3 DEF Decide, Leave, Take
    <2> QED
        BY <1>1, <2>1, <2>2
  <1>4. ASSUME NEW f \in Flushers, CopySucceeds(f)
        PROVE  Store!OutboxNext
    <2>1. InMemory' = InMemory \ InHand(f)
        BY <1>4, CopySucceedsInv
    <2>2. stored' = WithBatch(f) /\ arrived' = arrived
        BY <1>4 DEF CopySucceeds
    <2> QED
        BY <2>1, <2>2, CopyRefines
  <1>5. ASSUME NEW f \in Flushers, CopyFails(f)
        PROVE  [Store!OutboxNext]_(Store!outbox)
    <2>1. InMemory' = InMemory
        BY <1>5, CopyFailsInv
    <2>2. arrived' = arrived /\ (stored' = stored \/ stored' = WithBatch(f))
        BY <1>5 DEF CopyFails
    <2>3. CASE stored' = stored
        BY <1>1, <2>1, <2>2, <2>3
    <2>4. CASE stored' = WithBatch(f)
        BY <2>1, <2>2, <2>4, CopyRefines
    <2> QED
        BY <2>2, <2>3, <2>4
  <1>6. ASSUME NEW f \in Flushers, PutBack(f)
        PROVE  [Store!OutboxNext]_(Store!outbox)
    <2>1. stored' = stored /\ arrived' = arrived
        BY <1>6 DEF PutBack
    <2>2. CASE InMemory' = InMemory
        BY <1>1, <2>1, <2>2
    <2>3. CASE InMemory' # InMemory
      <3>1. InMemory' \subseteq InMemory /\ Cardinality(InMemory) >= MaxBuffer
          BY <1>6, <2>3, PutBackInv, MemoryAtLeast
      <3> DEFINE dropped == InMemory \ InMemory'
      <3>2. InMemory' = InMemory \ dropped /\ dropped \in SUBSET InMemory
          BY <3>1
      <3> HIDE DEF dropped
      <3>3. Store!GiveUp(dropped)
          BY <2>1, <3>1, <3>2, StoreCounts DEF Store!GiveUp
      <3> QED
          BY <3>2, <3>3 DEF Store!OutboxNext
    <2> QED
        BY <2>2, <2>3
  <1>7. CASE Shutdown \/ UNCHANGED vars
    <2>1. UNCHANGED <<buffer, arrived, flusher, stored, faults, unanswered>>
          /\ stopping' \in BOOLEAN
        BY <1>7 DEF Shutdown, vars, IInv, TypeOK
    <2> QED
        BY <1>1, <2>1, StillInv
  <1> QED
      BY <1>2, <1>3, <1>4, <1>5, <1>6, <1>7 DEF Next

\* A tick leaves memory only into the database, or when MaxBuffer ticks are held, and once
\* acknowledged it is not inserted again.
THEOREM ImplementsOutboxHolds == Spec => ImplementsOutbox
  BY InitRefines, StepRefines, WriterInvariance, PTL DEF Spec, ImplementsOutbox, Store!OutboxSpec
================================================================================
