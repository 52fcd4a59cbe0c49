---------------------------- MODULE ExecutionLedger ----------------------------
(***************************************************************************)
(* What order execution promises, with every mechanism left out: an order  *)
(* is handed to the broker at most once; the broker executes it at most    *)
(* once, whole, and only after it was handed over; and the database books  *)
(* an execution at most once, whole, and only after it happened. None of   *)
(* the three is ever taken back. Cancellations, faults and restarts may    *)
(* keep an order from going further; they never make it go twice.          *)
(***************************************************************************)
EXTENDS Naturals

CONSTANTS Orders, Quantity

VARIABLES
  sent,      \* sent[o]: how often o was handed to the broker
  executed,  \* executed[o]: shares the broker executed for o
  booked     \* booked[o]: shares the database records as filled for o

ledger == <<sent, executed, booked>>

LedgerInit ==
  /\ sent = [o \in Orders |-> 0]
  /\ executed = [o \in Orders |-> 0]
  /\ booked = [o \in Orders |-> 0]

Send(o) ==
  /\ sent[o] = 0
  /\ sent' = [sent EXCEPT ![o] = 1]
  /\ UNCHANGED <<executed, booked>>

Execute(o) ==
  /\ sent[o] = 1
  /\ executed[o] = 0
  /\ executed' = [executed EXCEPT ![o] = Quantity[o]]
  /\ UNCHANGED <<sent, booked>>

Book(o) ==
  /\ executed[o] = Quantity[o]
  /\ booked[o] = 0
  /\ booked' = [booked EXCEPT ![o] = Quantity[o]]
  /\ UNCHANGED <<sent, executed>>

LedgerNext == \E o \in Orders : Send(o) \/ Execute(o) \/ Book(o)

LedgerSpec == LedgerInit /\ [][LedgerNext]_ledger
================================================================================
