\* Two clients, three messages, channels of one: a client falls behind, leaves, or both.
SPECIFICATION FairSpec
CONSTANTS
  Clients = {c1, c2}
  SendCap = 1
  BroadcastCap = 1
  MaxMessages = 3
INVARIANTS
  TypeOK
  NoPanic
PROPERTIES
  ImplementsFeed
  BroadcastReturns
  GoneIsForgotten
CHECK_DEADLOCK FALSE
