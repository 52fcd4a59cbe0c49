\* Four ticks, a buffer of three, two failing copies, a shutdown at any time.
SPECIFICATION FairSpec
CONSTANTS
  MaxBuffer = 3
  FlushSize = 2
  MaxTicks = 4
  MaxFaults = 2
INVARIANTS
  TypeOK
  OnePlace
  StoredOnce
PROPERTIES
  ImplementsOutbox
  TicksSettle
CHECK_DEADLOCK FALSE
