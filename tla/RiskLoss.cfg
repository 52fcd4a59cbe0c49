\* Two changes of the settings, one fault, one restart, three orders, two units of time.
SPECIFICATION Spec
CONSTANTS
  X = X
  Symbols = {X}
  Orders <- MCOrders
  Settings <- MCSettings
  Defaults <- MCDefaults
  Prices = {1}
  FallbackPrice = 2
  Losses = {0, 2}
  RateWindow = 2
  DuplicateWindow = 1
  MaxTime = 2
  MaxChecks = 3
  MaxRestarts = 1
  MaxChanges = 2
  MaxFaults = 1
PROPERTY
  LossStopsTrading
CHECK_DEADLOCK FALSE
