------------------------------- MODULE DBWriter --------------------------------
(***************************************************************************)
(* The tick buffer in front of market_ticks: AddTick, called by the ingest *)
(* loop and the backfill, and two goroutines that flush the same buffer,   *)
(* one on a timer and one when the buffer has grown. Each takes the buffer *)
(* under bufferMu, copies it to the database without the lock, and puts it *)
(* back under the lock when the copy fails. A step is a section under the  *)
(* lock or the COPY statement, which is atomic in the database.            *)
(*                                                                         *)
(* Ticks are numbered in the order AddTick sees them.                      *)
(*                                                                         *)
(* A definition marked "Variant of" is the code with one slip in it. No    *)
(* action uses it: it shows that a property can tell the slip.             *)
(***************************************************************************)
EXTENDS Naturals, Sequences

CONSTANTS
  MaxBuffer,  \* capacity of the buffer (100000 in the code)
  FlushSize,  \* size the second goroutine waits for (5000 in the code)
  MaxTicks,   \* bound: ticks that arrive
  MaxFaults   \* bound: COPY statements that fail

ASSUME DBWriterAssumption ==
  /\ MaxBuffer \in Nat \ {0}
  /\ FlushSize \in 1..MaxBuffer
  /\ MaxTicks \in Nat
  /\ MaxFaults \in Nat

Ticks == 1..MaxTicks

Flushers == {"timer", "size"}

VARIABLES
  buffer,      \* w.buffer
  arrived,     \* ticks AddTick has seen
  flusher,     \* flusher[f]: where the goroutine stands, and its copy of the buffer
  stopping,    \* the context is cancelled, or done closed
  stored,      \* stored[t]: copies of t in market_ticks
  faults,      \* COPY statements that failed so far
  unanswered   \* those among them that had been executed

vars == <<buffer, arrived, flusher, stopping, stored, faults, unanswered>>

\* "flush": the goroutine decided to flush. "failed": its copy failed. `final` holds from
\* the start of flushAll.
FlusherRecord ==
  [pc : {"wait", "flush", "copy", "failed", "stopped"}, batch : Seq(Ticks),
   final : BOOLEAN]

TypeOK ==
  /\ buffer \in Seq(Ticks)
  /\ Len(buffer) <= MaxBuffer
  /\ arrived \in 0..MaxTicks
  /\ flusher \in [Flushers -> FlusherRecord]
  /\ stopping \in BOOLEAN
  /\ stored \in [Ticks -> Nat]
  /\ faults \in Nat
  /\ unanswered \in Nat

Waiting == [pc |-> "wait", batch |-> <<>>, final |-> FALSE]

Stopped == [Waiting EXCEPT !.pc = "stopped"]

Init ==
  /\ buffer = <<>>
  /\ arrived = 0
  /\ flusher = [f \in Flushers |-> Waiting]
  /\ stopping = FALSE
  /\ stored = [t \in Ticks |-> 0]
  /\ faults = 0
  /\ unanswered = 0

Elements(s) == {s[i] : i \in DOMAIN s}

--------------------------------------------------------------------------------

\* The sequence without its first n elements: s[n:] in Go.
From(s, n) == SubSeq(s, n + 1, Len(s))

\* AddTick: a full buffer loses its head, then the tick goes to the end.
AddTick ==
  LET tick == arrived + 1
      dropped == Len(buffer) - MaxBuffer + 1
  IN /\ arrived < MaxTicks
     /\ arrived' = tick
     /\ buffer' = IF Len(buffer) >= MaxBuffer THEN Append(From(buffer, dropped), tick)
                                              ELSE Append(buffer, tick)
     /\ UNCHANGED <<flusher, stopping, stored, faults, unanswered>>

\* Variant of Threshold: the timer flushes only a buffer that has grown, too.
ThresholdOfSize(f) == FlushSize

\* The least length at which a goroutine decides to flush.
Threshold(f) == IF f = "timer" THEN 1 ELSE FlushSize

\* A tick of the goroutine's clock: read the length under the lock, and decide.
Decide(f) ==
  /\ flusher[f].pc = "wait"
  /\ Len(buffer) >= Threshold(f)
  /\ flusher' = [flusher EXCEPT ![f].pc = "flush"]
  /\ UNCHANGED <<buffer, arrived, stopping, stored, faults, unanswered>>

\* The goroutine sees that it has to stop. Only the timer's flushes once more.
Leave(f) ==
  /\ flusher[f].pc = "wait"
  /\ stopping
  /\ flusher' = [flusher EXCEPT ![f] = IF f = "timer"
                                       THEN [Waiting EXCEPT !.pc = "flush", !.final = TRUE]
                                       ELSE Stopped]
  /\ UNCHANGED <<buffer, arrived, stopping, stored, faults, unanswered>>

\* Where a goroutine goes once its flush returned.
Returned(f) == IF flusher[f].final THEN Stopped ELSE Waiting

\* Where it goes with a copy of the buffer. With the context cancelled, CopyFrom fails
\* before it asks the database; flushAll has a context of its own.
Loaded(f) ==
  [flusher[f] EXCEPT !.batch = buffer,
                     !.pc = IF stopping /\ ~flusher[f].final THEN "failed" ELSE "copy"]

\* Variant of Take: the buffer is copied and not emptied.
TakeWithoutReset(f) ==
  /\ flusher[f].pc = "flush"
  /\ flusher' = [flusher EXCEPT ![f] = IF buffer = <<>> THEN Returned(f) ELSE Loaded(f)]
  /\ UNCHANGED <<buffer, arrived, stopping, stored, faults, unanswered>>

\* flush, up to the unlock: copy the buffer and empty it; return if there is nothing.
Take(f) ==
  /\ flusher[f].pc = "flush"
  /\ buffer' = <<>>
  /\ flusher' = [flusher EXCEPT ![f] = IF buffer = <<>> THEN Returned(f) ELSE Loaded(f)]
  /\ UNCHANGED <<arrived, stopping, stored, faults, unanswered>>

WithBatch(f) ==
  [t \in Ticks |-> IF t \in Elements(flusher[f].batch) THEN stored[t] + 1 ELSE stored[t]]

\* The COPY succeeds and the goroutine learns it.
CopySucceeds(f) ==
  /\ flusher[f].pc = "copy"
  /\ stored' = WithBatch(f)
  /\ flusher' = [flusher EXCEPT ![f] = Returned(f)]
  /\ UNCHANGED <<buffer, arrived, stopping, faults, unanswered>>

\* The COPY returns an error: not executed, or executed and the answer lost. A cancelled
\* context is an error that owes nothing to the database, and is not counted.
CopyFails(f) ==
  /\ flusher[f].pc = "copy"
  /\ \/ faults < MaxFaults /\ faults' = faults + 1
     \/ stopping /\ ~flusher[f].final /\ UNCHANGED faults
  /\ \/ UNCHANGED <<stored, unanswered>>
     \/ stored' = WithBatch(f) /\ unanswered' = unanswered + 1
  /\ flusher' = [flusher EXCEPT ![f].pc = "failed"]
  /\ UNCHANGED <<buffer, arrived, stopping>>

\* Variant of Capped: the buffer may grow past its capacity.
Uncapped(s) == s

\* w.buffer[:w.maxBuffer], when there is more.
Capped(s) == IF Len(s) > MaxBuffer THEN SubSeq(s, 1, MaxBuffer) ELSE s

\* Variant of PutBack: what arrived during the copy is overwritten.
PutBackOver(f) ==
  /\ flusher[f].pc = "failed"
  /\ buffer' = flusher[f].batch
  /\ flusher' = [flusher EXCEPT ![f] = Returned(f)]
  /\ UNCHANGED <<arrived, stopping, stored, faults, unanswered>>

\* The copy goes in front of what arrived since; the end is cut off.
PutBack(f) ==
  /\ flusher[f].pc = "failed"
  /\ buffer' = Capped(flusher[f].batch \o buffer)
  /\ flusher' = [flusher EXCEPT ![f] = Returned(f)]
  /\ UNCHANGED <<arrived, stopping, stored, faults, unanswered>>

\* The process is told to stop: the context is cancelled, then done closed.
Shutdown ==
  /\ ~stopping
  /\ stopping' = TRUE
  /\ UNCHANGED <<buffer, arrived, flusher, stored, faults, unanswered>>

Flush(f) == Decide(f) \/ Leave(f) \/ Take(f) \/ CopySucceeds(f) \/ CopyFails(f) \/ PutBack(f)

Next ==
  \/ AddTick
  \/ \E f \in Flushers :
       \/ Decide(f) \/ Leave(f) \/ Take(f)
       \/ CopySucceeds(f) \/ CopyFails(f) \/ PutBack(f)
  \/ Shutdown

\* The clocks tick and the statements return. Nothing is owed by the feed or the operator.
Fairness == \A f \in Flushers : WF_vars(Flush(f))

Spec == Init /\ [][Next]_vars

FairSpec == Spec /\ Fairness

--------------------------------------------------------------------------------
(* Properties *)

InHand(f) == Elements(flusher[f].batch)

InMemory == Elements(buffer) \cup InHand("timer") \cup InHand("size")

Distinct(s) == \A i, j \in DOMAIN s : s[i] = s[j] => i = j

\* A tick is in memory once: no interleaving of the two goroutines and AddTick leaves it
\* both in the buffer and in a copy, or twice in the buffer after a put-back.
OnePlace ==
  /\ Distinct(buffer)
  /\ \A f \in Flushers : Distinct(flusher[f].batch)
  /\ \A f \in Flushers : InHand(f) \cap Elements(buffer) = {}
  /\ InHand("timer") \cap InHand("size") = {}

\* As long as no answer was lost, a tick reaches market_ticks at most once, and only when
\* memory has let it go: the table, which has no unique key, does not absorb duplicates.
StoredOnce ==
  unanswered = 0 =>
    \A t \in Ticks : stored[t] <= IF t \in InMemory THEN 0 ELSE 1

\* The writer implements the bounded outbox: a tick leaves memory only into the database,
\* or when MaxBuffer ticks are held; one acknowledged is not written again.
Store == INSTANCE Outbox WITH Items <- Ticks, Capacity <- MaxBuffer,
           accepted <- 1..arrived, held <- InMemory, delivered <- stored

ImplementsOutbox == Store!OutboxSpec

\* Under FairSpec: a tick does not stay in memory for ever, whichever goroutine took it
\* and however often its copy failed, unless the process is told to stop.
TicksSettle == \A t \in Ticks : t \in InMemory ~> t \notin InMemory \/ stopping
================================================================================
