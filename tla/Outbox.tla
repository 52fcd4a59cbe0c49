-------------------------------- MODULE Outbox ---------------------------------
(***************************************************************************)
(* What a bounded buffer in front of a store promises, with its locks,     *)
(* batches and retries left out. An item handed in is held until the store *)
(* has acknowledged it; while it is held it may reach the store more than  *)
(* once, when an acknowledgement is lost, and never again afterwards. An   *)
(* item is given up only while at least Capacity items are held.           *)
(***************************************************************************)
EXTENDS Naturals, FiniteSets

CONSTANTS Items, Capacity

VARIABLES
  accepted,   \* items handed in so far
  held,       \* items in memory
  delivered   \* delivered[i]: copies of i in the store

outbox == <<accepted, held, delivered>>

OutboxInit ==
  /\ accepted = {}
  /\ held = {}
  /\ delivered = [i \in Items |-> 0]

\* Hand in i; a full buffer may give up items for it, i itself among them.
Accept(i, dropped) ==
  /\ i \notin accepted
  /\ dropped # {} => Cardinality(held) >= Capacity
  /\ accepted' = accepted \cup {i}
  /\ held' = (held \cup {i}) \ dropped
  /\ UNCHANGED delivered

\* The store takes a batch, and the caller learns of it or does not.
Deliver(batch) ==
  /\ batch \subseteq held
  /\ delivered' = [i \in Items |-> IF i \in batch THEN delivered[i] + 1 ELSE delivered[i]]
  /\ held' \in {held, held \ batch}
  /\ UNCHANGED accepted

GiveUp(dropped) ==
  /\ Cardinality(held) >= Capacity
  /\ held' = held \ dropped
  /\ UNCHANGED <<accepted, delivered>>

OutboxNext ==
  \/ \E i \in Items, dropped \in SUBSET (held \cup Items) : Accept(i, dropped)
  \/ \E batch \in SUBSET held : Deliver(batch)
  \/ \E dropped \in SUBSET held : GiveUp(dropped)

OutboxSpec == OutboxInit /\ [][OutboxNext]_outbox
================================================================================
