------------------------------- MODULE HubProofs -------------------------------
(***************************************************************************)
(* Theorems of WSHub, for every set of clients, every capacity and every   *)
(* number of messages: types, that the hub never panics, and that it       *)
(* implements the feed. They rest on WSHubAssumption.                      *)
(***************************************************************************)
EXTENDS WSHub, TLAPS

\* A client's channel is closed exactly when it has been in the map and is not any more.
MapAgrees ==
  /\ ~panicked
  /\ \A c \in Clients : closed[c] <=> conn[c] # "none" /\ c \notin clients
  /\ \A c \in clients : conn[c] # "none"
  /\ fan.left \subseteq clients

\* The broadcast channel holds the messages after the last one taken, which is the one
\* being handed out.
Queued ==
  /\ Len(broadcast) <= arrived
  /\ \A i \in 1..Len(broadcast) : broadcast[i] = Taken + i
  /\ fan # Idle => fan.left # {} /\ fan.message = Taken /\ fan.message \in Messages

InHand(c) == IF hand[c] = 0 THEN 0 ELSE 1

\* The last message the writer of c has taken.
Upto(c) == from[c] + Len(written[c]) + InHand(c)

Awaited(c) == IF c \in fan.left THEN 1 ELSE 0

\* Of one client: what is written, in hand, queued and still to come are consecutive.
InStep(c) ==
  /\ writer[c] \in {"none", "waiting"} => hand[c] = 0
  /\ writer[c] = "writing" => hand[c] = from[c] + Len(written[c]) + 1
  /\ conn[c] = "none" =>
       reader[c] = "none" /\ writer[c] = "none" /\ written[c] = <<>> /\ send[c] = <<>>
  /\ writer[c] \in {"waiting", "writing"} =>
       \A i \in 1..Len(send[c]) : send[c][i] = Upto(c) + i
  /\ conn[c] # "none" => Upto(c) + Len(send[c]) <= Taken
  /\ c \in clients => Upto(c) + Len(send[c]) + Awaited(c) = Taken

IInv == TypeOK /\ MapAgrees /\ Queued /\ \A c \in Clients : InStep(c)

--------------------------------------------------------------------------------

LEMMA SeqOps ==
  ASSUME NEW S, NEW s \in Seq(S), NEW e \in S
  PROVE  /\ Append(s, e) \in Seq(S) /\ Len(Append(s, e)) = Len(s) + 1
         /\ \A i \in 1..Len(s) : Append(s, e)[i] = s[i]
         /\ Append(s, e)[Len(s) + 1] = e
         /\ s # <<>> => /\ Head(s) \in S /\ Head(s) = s[1]
                        /\ Tail(s) \in Seq(S) /\ Len(Tail(s)) = Len(s) - 1
                        /\ \A i \in 1..(Len(s) - 1) : Tail(s)[i] = s[i + 1]
OBVIOUS

LEMMA TakenType == ASSUME TypeOK, Queued PROVE Taken \in 0..MaxMessages
BY WSHubAssumption DEF TypeOK, Queued, Taken

LEMMA StartInv == Init => IInv
<1> SUFFICES ASSUME Init PROVE IInv
    OBVIOUS
<1>1. TypeOK
    <2>1. <<>> \in Seq(Messages) /\ Len(<<>>) = 0
        OBVIOUS
    <2>2. /\ send \in [Clients -> Seq(Messages)] /\ written \in [Clients -> Seq(Messages)]
          /\ broadcast \in Seq(Messages) /\ \A c \in Clients : Len(send[c]) <= SendCap
        BY <2>1, WSHubAssumption DEF Init
    <2>3. Len(broadcast) <= BroadcastCap
        BY <2>1, WSHubAssumption DEF Init
    <2>4. fan \in [message : 0..MaxMessages, left : SUBSET Clients]
        BY WSHubAssumption DEF Init, Idle
    <2>5. arrived \in 0..MaxMessages /\ from \in [Clients -> 0..MaxMessages]
          /\ hand \in [Clients -> 0..MaxMessages]
        BY WSHubAssumption DEF Init
    <2>6. /\ clients \in SUBSET Clients /\ closed \in [Clients -> BOOLEAN]
          /\ conn \in [Clients -> {"none", "open", "closed"}]
          /\ peer \in [Clients -> {"up", "gone"}]
          /\ reader \in [Clients -> {"none", "reading", "unregister", "close", "done"}]
          /\ writer \in [Clients -> {"none", "waiting", "writing", "done"}]
          /\ panicked \in BOOLEAN
        BY DEF Init
    <2> QED
        BY <2>2, <2>3, <2>4, <2>5, <2>6 DEF TypeOK
<1>2. MapAgrees /\ Queued
    BY DEF Init, MapAgrees, Queued, Idle, Taken
<1>3. \A c \in Clients : InStep(c)
    BY DEF Init, InStep, Upto, InHand, Idle
<1> QED
    BY <1>1, <1>2, <1>3 DEF IInv

\* Steps that leave Run's state, and the client's, alone.
LEMMA SameClient ==
  ASSUME IInv, NEW c \in Clients, InStep(c),
         UNCHANGED <<from[c], send[c], conn[c], reader[c], writer[c], hand[c], written[c]>>,
         UNCHANGED <<clients, fan>>, Taken' = Taken
  PROVE  InStep(c)'
BY DEF InStep, Upto, InHand, Awaited

LEMMA BroadcastInv == IInv /\ Broadcast => IInv' /\ Taken' = Taken
<1> SUFFICES ASSUME IInv, Broadcast PROVE IInv' /\ Taken' = Taken
    OBVIOUS
<1> USE DEF IInv
<1>1. arrived + 1 \in Messages /\ broadcast \in Seq(Messages)
    BY WSHubAssumption DEF Broadcast, TypeOK, Messages
<1>2. /\ broadcast' \in Seq(Messages) /\ Len(broadcast') = Len(broadcast) + 1
      /\ \A i \in 1..Len(broadcast) : broadcast'[i] = broadcast[i]
      /\ broadcast'[Len(broadcast) + 1] = arrived + 1
    BY <1>1, SeqOps DEF Broadcast
<1>3. Taken' = Taken
    BY <1>2 DEF Broadcast, Taken, TypeOK
<1>4. TypeOK'
    BY <1>1, <1>2, WSHubAssumption DEF Broadcast, TypeOK, hubVars, pumpVars, Messages
<1>5. MapAgrees'
    BY DEF Broadcast, MapAgrees, hubVars, pumpVars
<1>6. Queued'
    <2>1. Len(broadcast') <= arrived'
        BY <1>2 DEF Broadcast, Queued, TypeOK
    <2>2. ASSUME NEW i \in 1..Len(broadcast') PROVE broadcast'[i] = Taken' + i
        <3>1. Len(broadcast) \in Nat /\ arrived \in Nat
            BY <1>1 DEF TypeOK
        <3>2. CASE i \in 1..Len(broadcast)
            BY <3>2, <1>2, <1>3 DEF Queued
        <3>3. CASE i = Len(broadcast) + 1
            BY <3>1, <3>3, <1>2, <1>3 DEF Taken
        <3> QED
            BY <3>1, <3>2, <3>3, <1>2
    <2> QED
        BY <2>1, <2>2, <1>3 DEF Broadcast, Queued, hubVars
<1>7. ASSUME NEW c \in Clients PROVE InStep(c)'
    BY <1>3, SameClient DEF Broadcast, hubVars, pumpVars
<1> QED
    BY <1>3, <1>4, <1>5, <1>6, <1>7

LEMMA RegisterInv == ASSUME IInv, NEW d \in Clients, Register(d) PROVE IInv' /\ Taken' = Taken
<1> USE DEF IInv
<1>1. Taken \in 0..MaxMessages /\ Taken' = Taken
    BY TakenType DEF Register, Taken, feedVars
<1>2. TypeOK'
    BY <1>1 DEF Register, TypeOK, feedVars
<1>3. MapAgrees'
    BY DEF Register, MapAgrees, AtSelect, Idle, TypeOK
<1>4. Queued'
    BY <1>1 DEF Register, Queued, feedVars
<1>5. ASSUME NEW c \in Clients PROVE InStep(c)'
    <2>1. CASE c = d
        <3>1. /\ conn[d] = "none" /\ fan' = Idle
              /\ UNCHANGED <<send, hand, written>>
              /\ from'[d] = Taken /\ writer'[d] = "waiting" /\ conn'[d] = "open"
            BY DEF Register, AtSelect, TypeOK
        <3>2. written[d] = <<>> /\ send[d] = <<>> /\ hand[d] = 0
            BY <3>1 DEF InStep
        <3>3. Upto(d)' = Taken /\ Awaited(d)' = 0 /\ Len(send'[d]) = 0
            BY <3>1, <3>2, <1>1 DEF Upto, InHand, Awaited, Idle
        <3> QED
            BY <2>1, <3>1, <3>2, <3>3, <1>1 DEF InStep
    <2>2. CASE c # d
        BY <2>2, <1>1 DEF Register, InStep, Upto, InHand, Awaited, TypeOK
    <2> QED
        BY <2>1, <2>2
<1> QED
    BY <1>1, <1>2, <1>3, <1>4, <1>5

LEMMA UnregisterInv ==
  ASSUME IInv, NEW d \in Clients, Unregister(d) PROVE IInv' /\ Taken' = Taken
<1> USE DEF IInv
<1>1. Taken' = Taken
    BY DEF Unregister, Taken, feedVars
<1>2. TypeOK'
    BY DEF Unregister, Close, TypeOK, feedVars
<1>3. MapAgrees'
    BY DEF Unregister, Close, MapAgrees, AtSelect, Idle, TypeOK
<1>4. Queued'
    BY <1>1 DEF Unregister, Queued, feedVars
<1>5. ASSUME NEW c \in Clients PROVE InStep(c)'
    BY <1>1 DEF Unregister, InStep, Upto, InHand, Awaited
<1> QED
    BY <1>1, <1>2, <1>3, <1>4, <1>5

LEMMA TakeMessageInv == IInv /\ TakeMessage => IInv' /\ Taken' = Taken + 1
<1> SUFFICES ASSUME IInv, TakeMessage PROVE IInv' /\ Taken' = Taken + 1
    OBVIOUS
<1> USE DEF IInv
<1>1. broadcast \in Seq(Messages) /\ broadcast # <<>>
    BY DEF TakeMessage, TypeOK
<1>2. /\ broadcast' \in Seq(Messages) /\ Len(broadcast') = Len(broadcast) - 1
      /\ Head(broadcast) \in Messages /\ Head(broadcast) = broadcast[1]
      /\ \A i \in 1..Len(broadcast') : broadcast'[i] = broadcast[i + 1]
    BY <1>1, SeqOps DEF TakeMessage
<1>3. Len(broadcast) \in Nat /\ Len(broadcast) > 0 /\ arrived \in Nat /\ arrived' = arrived
    BY <1>1 DEF TypeOK, TakeMessage
<1>4. Taken' = Taken + 1 /\ Taken \in Nat
    BY <1>2, <1>3, TakenType DEF Taken
<1>5. Head(broadcast) = Taken'
    BY <1>2, <1>3, <1>4 DEF Queued
<1>6. TypeOK'
    BY <1>2, <1>3, WSHubAssumption DEF TakeMessage, TypeOK, pumpVars, Idle, Messages
<1>7. MapAgrees'
    BY DEF TakeMessage, MapAgrees, pumpVars, Idle
<1>8. Queued'
    <2>1. Len(broadcast') <= arrived'
        BY <1>2, <1>3 DEF Queued
    <2>2. ASSUME NEW i \in 1..Len(broadcast') PROVE broadcast'[i] = Taken' + i
        BY <1>2, <1>3, <1>4 DEF Queued
    <2>3. fan' # Idle => fan'.left # {} /\ fan'.message = Taken' /\ fan'.message \in Messages
        BY <1>2, <1>5 DEF TakeMessage
    <2> QED
        BY <2>1, <2>2, <2>3, Zenon DEF Queued, Idle
<1>9. ASSUME NEW c \in Clients PROVE InStep(c)'
    <2>1. /\ InStep(c) /\ fan = Idle
          /\ UNCHANGED <<from, send, conn, reader, writer, hand, written, clients>>
        BY DEF TakeMessage, AtSelect, pumpVars
    <2>2. Len(send[c]) \in Nat /\ Upto(c) \in Nat
        BY DEF TypeOK, Upto, InHand
    <2>3. Upto(c)' = Upto(c)
        BY <2>1 DEF Upto, InHand
    <2>4. conn[c] # "none" => Upto(c)' + Len(send'[c]) <= Taken'
        BY <2>1, <2>2, <2>3, <1>4 DEF InStep
    <2>5. c \in clients => Upto(c)' + Len(send'[c]) + Awaited(c)' = Taken'
        <3>1. c \in clients => c \in fan'.left
            BY DEF TakeMessage
        <3> QED
            BY <3>1, <2>1, <2>2, <2>3, <1>4 DEF InStep, Awaited, Idle
    <2> QED
        BY <2>1, <2>3, <2>4, <2>5 DEF InStep
<1> QED
    BY <1>4, <1>6, <1>7, <1>8, <1>9

LEMMA HandOutInv == ASSUME IInv, NEW d \in Clients, HandOut(d) PROVE IInv' /\ Taken' = Taken
<1> USE DEF IInv
<1>1. Taken' = Taken /\ Taken \in 0..MaxMessages
    BY TakenType DEF HandOut, Taken, feedVars
<1>2. /\ d \in fan.left /\ d \in clients /\ ~closed[d] /\ conn[d] # "none"
      /\ fan # Idle /\ fan.message = Taken /\ fan.message \in Messages
    BY DEF HandOut, MapAgrees, Queued, Idle
<1>3. /\ fan' \in [message : 0..MaxMessages, left : SUBSET Clients]
      /\ fan'.left = fan.left \ {d}
      /\ fan' # Idle => fan'.left # {} /\ fan'.message = fan.message
    <2>1. fan \in [message : 0..MaxMessages, left : SUBSET Clients]
        BY DEF TypeOK
    <2>2. CASE fan.left = {d}
        BY <2>1, <2>2, WSHubAssumption DEF HandOut, PassedOn, Idle
    <2>3. CASE fan.left # {d}
        <3>1. fan' = [fan EXCEPT !.left = fan.left \ {d}]
            BY <2>3 DEF HandOut, PassedOn
        <3>2. fan.left \ {d} # {}
            BY <2>3, <1>2
        <3> QED
            BY <2>1, <3>1, <3>2
    <2> QED
        BY <2>2, <2>3
<1>4. /\ \A c \in Clients \ {d} : Awaited(c)' = Awaited(c)
      /\ Awaited(d) = 1 /\ Awaited(d)' = 0
    BY <1>2, <1>3 DEF Awaited
<1>5. CASE Len(send[d]) < SendCap
    <2>1. /\ send' = [send EXCEPT ![d] = Append(@, fan.message)]
          /\ UNCHANGED <<arrived, broadcast, clients, from, closed, panicked,
                         conn, peer, reader, writer, hand, written>>
        BY <1>2, <1>5 DEF HandOut, Enqueue, MapAgrees, feedVars, pumpVars, TypeOK
    <2>2. send[d] \in Seq(Messages) /\ send \in [Clients -> Seq(Messages)]
        BY DEF TypeOK
    <2>3. /\ send'[d] \in Seq(Messages) /\ Len(send'[d]) = Len(send[d]) + 1
          /\ \A i \in 1..Len(send[d]) : send'[d][i] = send[d][i]
          /\ send'[d][Len(send[d]) + 1] = Taken
        BY <2>1, <2>2, <1>2, SeqOps
    <2>4. send' \in [Clients -> Seq(Messages)] /\ \A c \in Clients \ {d} : send'[c] = send[c]
        BY <2>1, <2>2, <2>3
    <2>5. TypeOK'
        BY <2>1, <2>2, <2>3, <2>4, <1>3, <1>5, WSHubAssumption DEF TypeOK
    <2>6. MapAgrees' /\ Queued'
        BY <2>1, <1>1, <1>2, <1>3 DEF MapAgrees, Queued, Idle
    <2>7. ASSUME NEW c \in Clients PROVE InStep(c)'
        <3>1. Upto(c)' = Upto(c) /\ Upto(c) \in Nat /\ Len(send[c]) \in Nat
            BY <2>1 DEF Upto, InHand, TypeOK
        <3>2. CASE c # d
            BY <3>1, <3>2, <2>1, <2>4, <1>1, <1>4 DEF InStep
        <3>3. CASE c = d
            <4>1. Upto(d) + Len(send[d]) + 1 = Taken
                BY <1>2, <1>4 DEF InStep
            <4>2. ASSUME writer'[d] \in {"waiting", "writing"}, NEW i \in 1..Len(send'[d])
                  PROVE  send'[d][i] = Upto(d)' + i
                <5>1. writer[d] \in {"waiting", "writing"} /\ i \in 1..(Len(send[d]) + 1)
                    BY <4>2, <2>1, <2>3
                <5>2. CASE i \in 1..Len(send[d])
                    BY <5>1, <5>2, <3>1, <3>3, <2>3 DEF InStep
                <5>3. CASE i = Len(send[d]) + 1
                    BY <5>3, <4>1, <3>1, <3>3, <2>3
                <5> QED
                    BY <5>1, <5>2, <5>3, <3>1
            <4>3. Upto(d)' + Len(send'[d]) + Awaited(d)' = Taken'
                BY <4>1, <3>1, <3>3, <2>3, <1>1, <1>4
            <4> QED
                BY <4>2, <4>3, <3>1, <3>3, <2>1, <2>3, <1>1, <1>2, <1>4 DEF InStep
        <3> QED
            BY <3>2, <3>3
    <2> QED
        BY <2>5, <2>6, <2>7, <1>1
<1>6. CASE ~(Len(send[d]) < SendCap)
    <2>1. /\ clients' = clients \ {d}
          /\ closed' = [closed EXCEPT ![d] = TRUE] /\ panicked' = panicked
          /\ UNCHANGED <<arrived, broadcast, from, send, conn, peer, reader, writer, hand, written>>
        BY <1>2, <1>6 DEF HandOut, Drop, Close, MapAgrees, feedVars, pumpVars, TypeOK
    <2>2. TypeOK'
        BY <2>1, <1>3 DEF TypeOK
    <2>3. MapAgrees' /\ Queued'
        BY <2>1, <1>1, <1>2, <1>3 DEF MapAgrees, Queued, Idle, TypeOK
    <2>4. ASSUME NEW c \in Clients PROVE InStep(c)'
        BY <2>1, <1>1, <1>4 DEF InStep, Upto, InHand
    <2> QED
        BY <2>2, <2>3, <2>4, <1>1
<1> QED
    BY <1>5, <1>6

LEMMA TakeInv == ASSUME IInv, NEW d \in Clients, Take(d) PROVE IInv' /\ Taken' = Taken
<1> USE DEF IInv
<1>1. Taken' = Taken /\ UNCHANGED <<arrived, broadcast, fan, clients, from, closed, panicked,
                                    conn, peer, reader, written>>
    BY DEF Take, Taken, feedVars, hubVars
<1>2. send \in [Clients -> Seq(Messages)] /\ send[d] \in Seq(Messages) /\ send[d] # <<>>
    BY DEF Take, TypeOK
<1>3. /\ send' = [send EXCEPT ![d] = Tail(@)] /\ hand' = [hand EXCEPT ![d] = Head(send[d])]
      /\ writer' = [writer EXCEPT ![d] = "writing"] /\ writer[d] = "waiting"
    BY DEF Take
<1>4. /\ send'[d] \in Seq(Messages) /\ Len(send'[d]) = Len(send[d]) - 1
      /\ hand'[d] = send[d][1] /\ hand'[d] \in Messages
      /\ \A i \in 1..Len(send'[d]) : send'[d][i] = send[d][i + 1]
    BY <1>2, <1>3, SeqOps DEF TypeOK
<1>5. send' \in [Clients -> Seq(Messages)] /\ \A c \in Clients \ {d} : send'[c] = send[c]
    BY <1>2, <1>3, <1>4
<1>6. Len(send[d]) \in Nat \ {0} /\ from[d] \in Nat /\ Len(written[d]) \in Nat
    BY <1>2 DEF TypeOK
<1>7. hand[d] = 0 /\ hand'[d] = from[d] + Len(written[d]) + 1 /\ hand'[d] # 0
    BY <1>3, <1>4, <1>6 DEF InStep, Upto, InHand, Messages
<1>8. TypeOK'
    BY <1>1, <1>3, <1>4, <1>5, <1>6, WSHubAssumption DEF TypeOK, Messages
<1>9. MapAgrees' /\ Queued'
    BY <1>1 DEF MapAgrees, Queued
<1>10. ASSUME NEW c \in Clients PROVE InStep(c)'
    <2>1. CASE c # d
        BY <2>1, <1>1, <1>3, <1>5 DEF InStep, Upto, InHand, Awaited, TypeOK
    <2>2. CASE c = d
        <3>1. Upto(d) = from[d] + Len(written[d]) /\ Upto(d)' = Upto(d) + 1
            BY <1>1, <1>6, <1>7 DEF Upto, InHand
        <3>2. conn[d] # "none"
            BY <1>3 DEF InStep
        <3>3. ASSUME NEW i \in 1..Len(send'[d]) PROVE send'[d][i] = Upto(d)' + i
            BY <3>1, <1>3, <1>4, <1>6 DEF InStep
        <3>4. Upto(d)' + Len(send'[d]) = Upto(d) + Len(send[d]) /\ Awaited(d)' = Awaited(d)
            BY <3>1, <1>1, <1>4, <1>6 DEF Awaited
        <3>5. /\ writer'[d] = "writing" /\ hand'[d] = from'[d] + Len(written'[d]) + 1
              /\ conn'[d] # "none"
            BY <3>2, <1>1, <1>3, <1>7 DEF TypeOK
        <3> QED
            BY <2>2, <3>1, <3>3, <3>4, <3>5, <1>1 DEF InStep
    <2> QED
        BY <2>1, <2>2
<1> QED
    BY <1>1, <1>8, <1>9, <1>10

LEMMA WriteSucceedsInv ==
  ASSUME IInv, NEW d \in Clients, WriteSucceeds(d)
  PROVE  IInv' /\ Taken' = Taken
<1> USE DEF IInv
<1>1. Taken' = Taken /\ UNCHANGED <<arrived, broadcast, fan, clients, from, closed, panicked, send,
                                    conn, peer, reader>>
    BY DEF WriteSucceeds, Taken, feedVars, hubVars
<1>2. /\ written' = [written EXCEPT ![d] = Append(@, hand[d])]
      /\ hand' = [hand EXCEPT ![d] = 0] /\ writer' = [writer EXCEPT ![d] = "waiting"]
      /\ writer[d] = "writing" /\ conn[d] = "open"
    BY DEF WriteSucceeds
<1>3. /\ from[d] \in Nat /\ Len(written[d]) \in Nat /\ written[d] \in Seq(Messages)
      /\ written \in [Clients -> Seq(Messages)]
    BY DEF TypeOK
<1>4. hand[d] = from[d] + Len(written[d]) + 1 /\ hand[d] # 0 /\ hand[d] \in Messages
    BY <1>2, <1>3 DEF InStep, TypeOK, Messages
<1>5. written'[d] \in Seq(Messages) /\ Len(written'[d]) = Len(written[d]) + 1
    BY <1>2, <1>3, <1>4, SeqOps
<1>6. written' \in [Clients -> Seq(Messages)] /\ \A c \in Clients \ {d} : written'[c] = written[c]
    BY <1>2, <1>3, <1>5
<1>7. TypeOK'
    BY <1>1, <1>2, <1>5, <1>6, WSHubAssumption DEF TypeOK
<1>8. MapAgrees' /\ Queued'
    BY <1>1 DEF MapAgrees, Queued
<1>9. ASSUME NEW c \in Clients PROVE InStep(c)'
    <2>1. CASE c # d
        BY <2>1, <1>1, <1>2, <1>6 DEF InStep, Upto, InHand, Awaited, TypeOK
    <2>2. CASE c = d
        <3>1. Upto(d)' = Upto(d) /\ Awaited(d)' = Awaited(d)
            BY <1>1, <1>2, <1>3, <1>4, <1>5 DEF Upto, InHand, Awaited, TypeOK
        <3>2. writer'[d] = "waiting" /\ hand'[d] = 0 /\ conn'[d] = "open"
            BY <1>1, <1>2 DEF TypeOK
        <3> QED
            BY <2>2, <3>1, <3>2, <1>1, <1>2 DEF InStep
    <2> QED
        BY <2>1, <2>2
<1> QED
    BY <1>1, <1>7, <1>8, <1>9

LEMMA WriterReturnsInv ==
  ASSUME IInv, NEW d \in Clients, WriterReturns(d), writer[d] \in {"waiting", "writing"}
  PROVE  IInv' /\ Taken' = Taken
<1> USE DEF IInv
<1>1. Taken' = Taken
    BY DEF WriterReturns, Taken, feedVars
<1>2. TypeOK'
    BY DEF WriterReturns, TypeOK, feedVars, hubVars
<1>3. conn[d] # "none"
    BY DEF InStep
<1>4. MapAgrees' /\ Queued'
    BY <1>1, <1>3 DEF WriterReturns, MapAgrees, Queued, feedVars, hubVars, TypeOK
<1>5. ASSUME NEW c \in Clients PROVE InStep(c)'
    BY <1>1, <1>3 DEF WriterReturns, InStep, Upto, InHand, Awaited, TypeOK, hubVars
<1> QED
    BY <1>1, <1>2, <1>4, <1>5

LEMMA ReaderInv ==
  ASSUME IInv, NEW d \in Clients, ReadFails(d) \/ ReaderCloses(d) \/ PeerLeaves(d)
  PROVE  IInv' /\ Taken' = Taken
<1> USE DEF IInv
<1>1. Taken' = Taken
    BY DEF ReadFails, ReaderCloses, PeerLeaves, Taken, feedVars
<1>2. TypeOK'
    BY DEF ReadFails, ReaderCloses, PeerLeaves, TypeOK, feedVars, hubVars
<1>3. \A c \in Clients : conn'[c] = "none" <=> conn[c] = "none"
    BY DEF ReadFails, ReaderCloses, PeerLeaves, InStep, TypeOK
<1>4. MapAgrees' /\ Queued'
    BY <1>1, <1>3 DEF ReadFails, ReaderCloses, PeerLeaves, MapAgrees, Queued, feedVars, hubVars, TypeOK
<1>5. \A c \in Clients : conn[c] = "none" => UNCHANGED reader[c]
    BY DEF ReadFails, ReaderCloses, PeerLeaves, InStep, TypeOK
<1>6. ASSUME NEW c \in Clients PROVE InStep(c)'
    <2>1. UNCHANGED <<from, send, writer, hand, written, clients, fan>>
        BY DEF ReadFails, ReaderCloses, PeerLeaves, hubVars
    <2>2. Upto(c)' = Upto(c) /\ Awaited(c)' = Awaited(c)
        BY <2>1 DEF Upto, InHand, Awaited
    <2> QED
        BY <2>1, <2>2, <1>1, <1>3, <1>5 DEF InStep
<1> QED
    BY <1>1, <1>2, <1>4, <1>6

LEMMA StutterInv == IInv /\ UNCHANGED vars => IInv' /\ Taken' = Taken
<1> SUFFICES ASSUME IInv, UNCHANGED vars PROVE IInv' /\ Taken' = Taken
    OBVIOUS
<1> USE DEF IInv
<1>1. Taken' = Taken
    BY DEF vars, Taken
<1>2. TypeOK' /\ MapAgrees' /\ Queued'
    BY <1>1 DEF vars, TypeOK, MapAgrees, Queued
<1>3. ASSUME NEW c \in Clients PROVE InStep(c)'
    BY <1>1, SameClient DEF vars
<1> QED
    BY <1>1, <1>2, <1>3

\* The steps of Next, those that end WritePump taken together.
LEMMA Steps ==
  ASSUME [Next]_vars
  PROVE  \/ Broadcast \/ TakeMessage \/ UNCHANGED vars
         \/ \E c \in Clients :
              \/ Register(c) \/ Unregister(c) \/ HandOut(c) \/ Take(c) \/ WriteSucceeds(c)
              \/ WriterReturns(c) /\ writer[c] \in {"waiting", "writing"}
              \/ ReadFails(c) \/ ReaderCloses(c) \/ PeerLeaves(c)
BY Zenon DEF Next, SeeClosed, WriteFails, PingFails

LEMMA NextInv == IInv /\ [Next]_vars => IInv'
<1> SUFFICES ASSUME IInv, [Next]_vars PROVE IInv'
    OBVIOUS
<1>1. CASE Broadcast
    BY <1>1, BroadcastInv
<1>2. CASE TakeMessage
    BY <1>2, TakeMessageInv
<1>3. CASE UNCHANGED vars
    BY <1>3, StutterInv
<1>4. ASSUME NEW c \in Clients, Register(c) \/ Unregister(c) \/ HandOut(c) PROVE IInv'
    BY <1>4, RegisterInv, UnregisterInv, HandOutInv
<1>5. ASSUME NEW c \in Clients,
             \/ Take(c) \/ WriteSucceeds(c)
             \/ WriterReturns(c) /\ writer[c] \in {"waiting", "writing"}
      PROVE  IInv'
    BY <1>5, TakeInv, WriteSucceedsInv, WriterReturnsInv
<1>6. ASSUME NEW c \in Clients, ReadFails(c) \/ ReaderCloses(c) \/ PeerLeaves(c) PROVE IInv'
    BY <1>6, ReaderInv
<1> QED
    BY <1>1, <1>2, <1>3, <1>4, <1>5, <1>6, Steps

THEOREM Invariance == Spec => []IInv
<1>1. IInv /\ [Next]_vars => IInv'
    BY NextInv
<1> QED
    BY StartInv, <1>1, PTL DEF Spec

\* The variables of the hub stay in their types, whatever the pumps, the relay and the
\* browsers do and in which order.
THEOREM TypeCorrect == Spec => []TypeOK
<1>1. IInv => TypeOK
    BY DEF IInv
<1> QED
    BY Invariance, <1>1, PTL

\* The hub never sends on a closed channel and closes none twice: neither a drop, nor an
\* unregistration, nor any order of both panics.
THEOREM NeverPanics == Spec => []NoPanic
<1>1. IInv => NoPanic
    BY DEF IInv, MapAgrees, NoPanic
<1> QED
    BY Invariance, <1>1, PTL

--------------------------------------------------------------------------------
(* What a browser is sent, and what a client leaves behind *)

\* The messages written to a connection are those after its registration, one by one.
InOrder == \A c \in Clients : \A i \in 1..Len(written[c]) : written[c][i] = from[c] + i

\* A client in the map has all but a channel, its writer's message and Run's.
NotFarBehind == \A c \in clients : Taken - (from[c] + Len(written[c])) <= SendCap + 2

\* Each way out of a client leads on to the next: who is in the map has a reader that will
\* unregister it, a pump that ended has closed the connection, which ends the other, and
\* nobody else closes one. MapAgrees adds that who left the map has its channel closed.
Attended ==
  \A c \in Clients :
    /\ c \in clients => reader[c] \in {"reading", "unregister"}
    /\ conn[c] = "none" <=> writer[c] = "none"
    /\ conn[c] = "closed" <=> writer[c] = "done" \/ reader[c] = "done"

\* What a client is sent is in order, and stays so whatever it is.
LEMMA InOrderStep ==
  ASSUME IInv, InOrder, [Next]_vars
  PROVE  InOrder'
<1>1. ASSUME UNCHANGED <<from, written>> PROVE InOrder'
    BY <1>1 DEF InOrder
<1>2. ASSUME NEW d \in Clients, Register(d) PROVE InOrder'
    <2>1. /\ written[d] = <<>> /\ UNCHANGED written /\ from' = [from EXCEPT ![d] = Taken]
          /\ from \in [Clients -> 0..MaxMessages]
        BY <1>2 DEF Register, IInv, TypeOK, InStep
    <2>2. ASSUME NEW c \in Clients, NEW i \in 1..Len(written[c])
          PROVE  written[c][i] = from'[c] + i
        BY <2>1, <2>2 DEF InOrder
    <2> QED
        BY <2>1, <2>2 DEF InOrder
<1>3. ASSUME NEW d \in Clients, WriteSucceeds(d) PROVE InOrder'
    <2> DEFINE w == Append(written[d], hand[d])
    <2>1. /\ written \in [Clients -> Seq(Messages)] /\ hand[d] \in 0..MaxMessages
          /\ hand[d] = from[d] + Len(written[d]) + 1 /\ from[d] \in Nat
          /\ written' = [written EXCEPT ![d] = w] /\ UNCHANGED from
        BY <1>3 DEF WriteSucceeds, hubVars, IInv, TypeOK, InStep
    <2>2. hand[d] \in Messages /\ Len(written[d]) \in Nat
        BY <2>1, WSHubAssumption DEF Messages
    <2>3. /\ Len(w) = Len(written[d]) + 1 /\ w[Len(written[d]) + 1] = hand[d]
          /\ \A i \in 1..Len(written[d]) : w[i] = written[d][i]
        BY <2>1, <2>2, SeqOps
    <2> HIDE DEF w
    <2>4. \A i \in 1..Len(w) : w[i] = from[d] + i
        BY <2>1, <2>2, <2>3 DEF InOrder
    <2>5. ASSUME NEW c \in Clients, NEW i \in 1..Len(written'[c])
          PROVE  written'[c][i] = from[c] + i
      <3>1. CASE c = d
          BY <2>1, <2>4, <2>5, <3>1
      <3>2. CASE c # d
          BY <2>1, <2>5, <3>2 DEF InOrder
      <3> QED
          BY <3>1, <3>2
    <2> QED
        BY <2>1, <2>5 DEF InOrder
<1>4. ASSUME NEW d \in Clients,
             \/ Unregister(d) \/ HandOut(d) \/ Take(d) \/ SeeClosed(d) \/ WriteFails(d)
             \/ PingFails(d) \/ ReadFails(d) \/ ReaderCloses(d) \/ PeerLeaves(d)
      PROVE  UNCHANGED <<from, written>>
    BY <1>4
    DEF Unregister, HandOut, Take, SeeClosed, WriteFails, PingFails, ReadFails, ReaderCloses,
        PeerLeaves, WriterReturns, hubVars, pumpVars
<1>5. ASSUME Broadcast \/ TakeMessage \/ UNCHANGED vars PROVE UNCHANGED <<from, written>>
    BY <1>5 DEF Broadcast, TakeMessage, vars, hubVars, pumpVars
<1> QED
    BY <1>1, <1>2, <1>3, <1>4, <1>5 DEF Next

\* The pumps leave the map and the connection as Attended says.
LEMMA AttendedStep ==
  ASSUME IInv, Attended, [Next]_vars
  PROVE  Attended'
<1>1. /\ reader \in [Clients -> {"none", "reading", "unregister", "close", "done"}]
      /\ writer \in [Clients -> {"none", "waiting", "writing", "done"}]
      /\ conn \in [Clients -> {"none", "open", "closed"}]
    BY DEF IInv, TypeOK
<1>2. ASSUME clients' \subseteq clients, UNCHANGED <<conn, reader>>,
             \A c \in Clients : \/ writer'[c] = writer[c]
                                \/ {writer[c], writer'[c]} = {"waiting", "writing"}
      PROVE  Attended'
    BY <1>1, <1>2 DEF Attended
<1>3. ASSUME NEW d \in Clients, Register(d) PROVE Attended'
    BY <1>1, <1>3 DEF Register, Attended
<1>4. ASSUME NEW d \in Clients, Unregister(d) PROVE Attended'
    <2>1. /\ clients' = clients \ {d} /\ UNCHANGED <<conn, writer>>
          /\ reader[d] = "unregister" /\ reader' = [reader EXCEPT ![d] = "close"]
        BY <1>4 DEF Unregister
    <2> QED
        BY <1>1, <2>1 DEF Attended
<1>5. ASSUME NEW d \in Clients, ReadFails(d) PROVE Attended'
    BY <1>1, <1>5 DEF ReadFails, hubVars, Attended
<1>6. ASSUME NEW d \in Clients, ReaderCloses(d) PROVE Attended'
    <2>1. /\ reader[d] = "close" /\ UNCHANGED <<clients, writer>> /\ conn[d] # "none"
          /\ reader' = [reader EXCEPT ![d] = "done"] /\ conn' = [conn EXCEPT ![d] = "closed"]
        BY <1>6 DEF ReaderCloses, hubVars, IInv, InStep
    <2> QED
        BY <1>1, <2>1 DEF Attended
<1>7. ASSUME NEW d \in Clients, SeeClosed(d) \/ WriteFails(d) \/ PingFails(d)
      PROVE  Attended'
    <2>1. /\ writer[d] \in {"waiting", "writing"} /\ UNCHANGED <<clients, reader>>
          /\ writer' = [writer EXCEPT ![d] = "done"] /\ conn' = [conn EXCEPT ![d] = "closed"]
        BY <1>7 DEF SeeClosed, WriteFails, PingFails, WriterReturns, hubVars
    <2> QED
        BY <1>1, <2>1 DEF Attended
<1>8. ASSUME NEW d \in Clients, Take(d) \/ WriteSucceeds(d) PROVE Attended'
    <2>1. /\ UNCHANGED <<clients, conn, reader>>
          /\ \/ writer[d] = "waiting" /\ writer' = [writer EXCEPT ![d] = "writing"]
             \/ writer[d] = "writing" /\ writer' = [writer EXCEPT ![d] = "waiting"]
        BY <1>8 DEF Take, WriteSucceeds, hubVars
    <2> QED
        BY <1>1, <1>2, <2>1
<1>9. ASSUME NEW d \in Clients, HandOut(d) \/ PeerLeaves(d) PROVE Attended'
    <2>1. clients' \subseteq clients /\ UNCHANGED <<conn, reader, writer>>
        BY <1>9 DEF HandOut, Enqueue, Drop, PeerLeaves, hubVars, pumpVars
    <2> QED
        BY <1>2, <2>1
<1>10. ASSUME Broadcast \/ TakeMessage \/ UNCHANGED vars PROVE Attended'
    <2>1. UNCHANGED <<clients, conn, reader, writer>>
        BY <1>10 DEF Broadcast, TakeMessage, vars, hubVars, pumpVars
    <2> QED
        BY <1>2, <2>1
<1> QED
    BY <1>3, <1>4, <1>5, <1>6, <1>7, <1>8, <1>9, <1>10 DEF Next

\* A browser is sent the messages since it registered, each once and none missing, and as
\* long as it is in the map it is at most a channel and two messages behind Run: who cannot
\* keep up is cut off (hub.go's default branch), never fed with gaps.
THEOREM ReadsInOrder == Spec => [](InOrder /\ NotFarBehind)
<1>1. Init => InOrder
    BY DEF Init, InOrder
<1>2. IInv /\ InOrder /\ [Next]_vars => InOrder'
    BY InOrderStep
<1>3. IInv => NotFarBehind
    <2> SUFFICES ASSUME IInv, NEW c \in clients
                 PROVE  Taken - (from[c] + Len(written[c])) <= SendCap + 2
        BY DEF NotFarBehind
    <2>1. /\ c \in Clients /\ from[c] \in Nat /\ Len(written[c]) \in Nat
          /\ Len(send[c]) \in Nat /\ Len(send[c]) <= SendCap /\ SendCap \in Nat
          /\ InHand(c) \in 0..1 /\ Awaited(c) \in 0..1
        BY WSHubAssumption DEF IInv, TypeOK, InHand, Awaited
    <2>2. from[c] + Len(written[c]) + InHand(c) + Len(send[c]) + Awaited(c) = Taken
        BY <2>1 DEF IInv, InStep, Upto
    <2> QED
        BY <2>1, <2>2
<1> QED
    BY <1>1, <1>2, <1>3, Invariance, PTL DEF Spec

\* No client is stranded: as long as it is in the map, its reader is there to take it out;
\* once it is not, its channel is closed, which ends its writer; and whichever pump ends
\* first has closed the connection, which ends the other. It is what GoneIsForgotten needs
\* of every state, whatever the scheduler owes.
THEOREM NobodyIsStranded == Spec => [](Attended /\ MapAgrees)
<1>1. Init => Attended
    BY DEF Init, Attended
<1>2. IInv /\ Attended /\ [Next]_vars => Attended'
    BY AttendedStep
<1>3. IInv => MapAgrees
    BY DEF IInv
<1> QED
    BY <1>1, <1>2, <1>3, Invariance, PTL DEF Spec

--------------------------------------------------------------------------------
(* The refinement *)

Places == [c \in Clients |-> Place(c)]

LEMMA StartFeed == Init => Feed!FeedInit
<1> SUFFICES ASSUME Init PROVE Feed!FeedInit
    OBVIOUS
<1>1. Taken = 0
    <2>1. Len(<<>>) = 0
        OBVIOUS
    <2>2. arrived = 0 /\ Len(broadcast) = 0
        BY <2>1 DEF Init
    <2> QED
        BY <2>2 DEF Taken
<1>2. \A c \in Clients : Place(c) = "out"
    BY DEF Init, Place
<1> QED
    BY <1>1, <1>2 DEF Init, Feed!FeedInit

\* A step that moves no client, takes no message and writes none is a stutter.
LEMMA SameFeed ==
  ASSUME Taken' = Taken, UNCHANGED <<from, written, clients>>,
         \A c \in Clients : conn'[c] = "none" <=> conn[c] = "none"
  PROVE  UNCHANGED Feed!feed
<1>1. Places' = Places
    BY DEF Places, Place
<1> QED
    BY <1>1 DEF Feed!feed, Places

LEMMA ExtendStep == IInv /\ TakeMessage => Feed!Extend
<1> SUFFICES ASSUME IInv, TakeMessage PROVE Feed!Extend
    OBVIOUS
<1>1. Taken' = Taken + 1 /\ Taken \in Nat
    BY TakeMessageInv, TakenType DEF IInv
<1>2. UNCHANGED <<from, written, clients, conn>> /\ fan = Idle
    BY DEF TakeMessage, pumpVars, AtSelect
<1>3. Places' = Places
    BY <1>2 DEF Places, Place
<1>4. ASSUME NEW c \in Clients, Places[c] = "in" PROVE Feed!Lag(c) < SendCap + 2
    <2>1. c \in clients
        BY <1>4 DEF Places, Place
    <2>2. Awaited(c) = 0
        BY <1>2 DEF Awaited, Idle
    <2>3. from[c] + Len(written[c]) + InHand(c) + Len(send[c]) = Taken
        BY <2>1, <2>2, <1>4, <1>1 DEF IInv, InStep, Upto, TypeOK, InHand
    <2>4. InHand(c) \in 0..1 /\ Len(send[c]) <= SendCap
        BY <1>4 DEF InHand, IInv, TypeOK
    <2>5. Len(send[c]) \in Nat /\ from[c] \in Nat /\ Len(written[c]) \in Nat
        BY <1>4 DEF IInv, TypeOK
    <2> QED
        BY <2>3, <2>4, <2>5, <1>1, WSHubAssumption DEF Feed!Lag
<1> QED
    BY <1>1, <1>2, <1>3, <1>4 DEF Feed!Extend, Places

LEMMA JoinStep == ASSUME IInv, NEW d \in Clients, Register(d) PROVE Feed!Join(d)
<1>1. Taken' = Taken
    BY RegisterInv
<1>2. d \notin clients /\ conn[d] = "none" /\ UNCHANGED written
    BY DEF Register, IInv, MapAgrees
<1>3. from' = [from EXCEPT ![d] = Taken] /\ clients' = clients \cup {d}
    BY DEF Register
<1>4. \A c \in Clients \ {d} : conn'[c] = conn[c]
    BY DEF Register, IInv, TypeOK
<1>5. Places[d] = "out" /\ Places' = [Places EXCEPT ![d] = "in"]
    BY <1>2, <1>3, <1>4 DEF Places, Place
<1> QED
    BY <1>1, <1>2, <1>3, <1>5 DEF Feed!Join, Places

\* A client in the map leaves it.
LEMMA CutStep ==
  ASSUME IInv, NEW d \in Clients, d \in clients, clients' = clients \ {d}, Taken' = Taken,
         UNCHANGED <<from, written, conn>>
  PROVE  Feed!Cut(d)
<1>1. conn[d] # "none"
    BY DEF IInv, MapAgrees
<1>2. Places[d] = "in" /\ Places' = [Places EXCEPT ![d] = "cut"]
    BY <1>1 DEF Places, Place
<1> QED
    BY <1>2 DEF Feed!Cut, Places

LEMMA UnregisterStep ==
  ASSUME IInv, NEW d \in Clients, Unregister(d)
  PROVE  Feed!Cut(d) \/ UNCHANGED Feed!feed
<1>1. Taken' = Taken /\ UNCHANGED <<from, written, conn>> /\ clients' = clients \ {d}
    BY UnregisterInv DEF Unregister
<1>2. CASE d \in clients
    BY <1>1, <1>2, CutStep
<1>3. CASE d \notin clients
    BY <1>1, <1>3, SameFeed
<1> QED
    BY <1>2, <1>3

LEMMA HandOutStep ==
  ASSUME IInv, NEW d \in Clients, HandOut(d)
  PROVE  Feed!Cut(d) \/ UNCHANGED Feed!feed
<1>1. Taken' = Taken /\ UNCHANGED <<from, written, conn>> /\ d \in clients
    BY HandOutInv DEF HandOut, pumpVars, IInv, MapAgrees
<1>2. CASE Len(send[d]) < SendCap
    BY <1>1, <1>2, SameFeed DEF HandOut, Enqueue
<1>3. CASE ~(Len(send[d]) < SendCap)
    BY <1>1, <1>3, CutStep DEF HandOut, Drop
<1> QED
    BY <1>2, <1>3

LEMMA ReceiveStep == ASSUME IInv, NEW d \in Clients, WriteSucceeds(d) PROVE Feed!Receive(d)
<1>1. Taken' = Taken /\ Taken \in Nat /\ UNCHANGED <<from, clients, conn>>
    <2>1. Taken' = Taken /\ Taken \in Nat
        BY WriteSucceedsInv, TakenType DEF IInv
    <2>2. UNCHANGED <<from, clients, conn>>
        BY DEF WriteSucceeds, hubVars
    <2> QED
        BY <2>1, <2>2
<1>2. Places' = Places
    BY <1>1 DEF Places, Place
<1>3. /\ from[d] \in Nat /\ Len(written[d]) \in Nat /\ Len(send[d]) \in Nat
      /\ hand[d] = from[d] + Len(written[d]) + 1
    BY DEF IInv, TypeOK, InStep, WriteSucceeds
<1>4. written' = [written EXCEPT ![d] = Append(@, from[d] + Len(written[d]) + 1)]
    BY <1>3 DEF WriteSucceeds
<1>5. conn[d] # "none"
    BY DEF WriteSucceeds
<1>6. Feed!Lag(d) > 0
    BY <1>1, <1>3, <1>5 DEF IInv, InStep, Upto, InHand, Feed!Lag
<1>7. Places[d] # "out"
    BY <1>5 DEF Places, Place
<1> QED
    BY <1>1, <1>2, <1>4, <1>6, <1>7 DEF Feed!Receive, Places

LEMMA FeedStep == IInv /\ [Next]_vars => [Feed!FeedNext]_(Feed!feed)
<1> SUFFICES ASSUME IInv, [Next]_vars PROVE [Feed!FeedNext]_(Feed!feed)
    OBVIOUS
<1>1. CASE Broadcast
    BY <1>1, BroadcastInv, SameFeed DEF Broadcast, hubVars, pumpVars
<1>2. CASE TakeMessage
    BY <1>2, ExtendStep DEF Feed!FeedNext
<1>3. CASE UNCHANGED vars
    BY <1>3, StutterInv, SameFeed DEF vars
<1>4. ASSUME NEW c \in Clients, Register(c) PROVE [Feed!FeedNext]_(Feed!feed)
    BY <1>4, JoinStep DEF Feed!FeedNext
<1>5. ASSUME NEW c \in Clients, Unregister(c) \/ HandOut(c)
      PROVE  [Feed!FeedNext]_(Feed!feed)
    BY <1>5, UnregisterStep, HandOutStep DEF Feed!FeedNext
<1>6. ASSUME NEW c \in Clients, WriteSucceeds(c) PROVE [Feed!FeedNext]_(Feed!feed)
    BY <1>6, ReceiveStep DEF Feed!FeedNext
<1>7. ASSUME NEW c \in Clients, Take(c) PROVE [Feed!FeedNext]_(Feed!feed)
    BY <1>7, TakeInv, SameFeed DEF Take, hubVars
<1>8. ASSUME NEW c \in Clients, WriterReturns(c), writer[c] \in {"waiting", "writing"}
      PROVE  [Feed!FeedNext]_(Feed!feed)
    <2>1. conn[c] # "none" /\ \A d \in Clients : conn'[d] = "none" <=> conn[d] = "none"
        BY <1>8 DEF IInv, InStep, WriterReturns, TypeOK
    <2> QED
        BY <1>8, <2>1, WriterReturnsInv, SameFeed DEF WriterReturns, hubVars
<1>9. ASSUME NEW c \in Clients, ReadFails(c) \/ ReaderCloses(c) \/ PeerLeaves(c)
      PROVE  [Feed!FeedNext]_(Feed!feed)
    <2>1. \A d \in Clients : conn'[d] = "none" <=> conn[d] = "none"
        BY <1>9 DEF IInv, InStep, ReadFails, ReaderCloses, PeerLeaves, TypeOK
    <2>2. UNCHANGED <<from, written, clients>>
        BY <1>9 DEF ReadFails, ReaderCloses, PeerLeaves, hubVars
    <2> QED
        BY <1>9, <2>1, <2>2, ReaderInv, SameFeed
<1> QED
    BY <1>1, <1>2, <1>3, <1>4, <1>5, <1>6, <1>7, <1>8, <1>9, Steps

\* The hub implements the feed: no client misses a message between two it received, gets
\* one twice, or stays subscribed while it lags further than its channel allows.
THEOREM HubImplementsFeed == Spec => ImplementsFeed
<1>1. IInv /\ [Next]_vars => [Feed!FeedNext]_(Feed!feed)
    BY FeedStep
<1> QED
    BY Invariance, StartFeed, <1>1, PTL DEF Spec, ImplementsFeed, Feed!FeedSpec
================================================================================
