\* Two connections that break, a third, one failure in each call, one change of the list.
SPECIFICATION FairSpec
CONSTANTS
  A = A
  B = B
  Symbols = {A, B}
  FirstWatchlist = {A}
  MaxConns = 3
  MaxFailures = 1
  MaxReloads = 1
INVARIANTS
  TypeOK
  OneDriver
  WatchedIsServed
  KeptAlive
PROPERTIES
  WatchedGetsServed
CHECK_DEADLOCK FALSE
