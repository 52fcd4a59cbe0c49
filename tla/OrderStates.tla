------------------------------ MODULE OrderStates ------------------------------
(***************************************************************************)
(* The states of an order and the table of transitions the OMS allows.     *)
(* Pure definitions, shared by every module that moves an order.           *)
(***************************************************************************)

\* model.OrderState, the eleven constants.
OrderState ==
  {"PENDING", "APPROVED", "AWAITING_APPROVAL", "SUBMITTED", "ACCEPTED", "PARTIAL_FILL",
   "FILLED", "CANCELLED", "REJECTED", "EXPIRED", "FAILED"}

\* OrderState.IsTerminal; the gateway's cancel statement lists the same five.
Terminal == {"FILLED", "CANCELLED", "REJECTED", "EXPIRED", "FAILED"}

\* The edges of ValidTransitions. A terminal state is not a key of the map.
ValidTransitions ==
  ({"PENDING"} \X {"APPROVED", "AWAITING_APPROVAL", "REJECTED"})
  \cup ({"AWAITING_APPROVAL"} \X {"APPROVED", "CANCELLED", "EXPIRED"})
  \cup ({"APPROVED"} \X {"SUBMITTED", "FAILED"})
  \cup ({"SUBMITTED"} \X {"ACCEPTED", "REJECTED", "FAILED", "CANCELLED"})
  \cup ({"ACCEPTED"} \X {"PARTIAL_FILL", "FILLED", "CANCELLED", "EXPIRED"})
  \cup ({"PARTIAL_FILL"} \X {"PARTIAL_FILL", "FILLED", "CANCELLED"})

CanTransition(from, to) == <<from, to>> \in ValidTransitions
================================================================================
