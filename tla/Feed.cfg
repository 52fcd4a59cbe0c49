SPECIFICATION FairSpec
CONSTANTS
  Quotes <- MCQuotes
  Trades <- MCTrades
  TickCapacity = 1
  BarCapacity = 1
  MaxBuffer = 1
  MaxEvents = 2
  MaxMinute = 2
  MaxFaults = 2
INVARIANTS
  TypeOK
  TickInOneBar
PROPERTIES
  ImplementsOutbox
  LatestCatchesUp
CHECK_DEADLOCK FALSE
