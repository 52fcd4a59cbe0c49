\* Two changes of the settings, one fault, one restart, two orders, two units of time.
SPECIFICATION FairSpec
CONSTANTS
  X = X
  Symbols = {X}
  Orders <- MCOrders
  Settings <- MCSettings
  Defaults <- MCDefaults
  Prices = {1}
  FallbackPrice = 2
  Losses = {0, 2}
  RateWindow = 2
  DuplicateWindow = 1
  MaxTime = 2
  MaxChecks = 2
  MaxRestarts = 1
  MaxChanges = 2
  MaxFaults = 1
INVARIANTS
  TypeOK
  SettingsFollow
  NoTwins
PROPERTIES
  RateHolds
  SettingsArrive
CHECK_DEADLOCK FALSE
