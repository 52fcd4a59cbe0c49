SPECIFICATION Spec
CONSTANTS
  Quotes <- MCQuotes
  Trades <- MCTrades
  TickCapacity = 1
  BarCapacity = 1
  MaxBuffer = 1
  MaxEvents = 2
  MaxMinute = 2
  MaxFaults = 2
INVARIANT
  BarVolumeIsTraded
CHECK_DEADLOCK FALSE
