\* Two orders, one failing database statement, one restart, both trading modes.
SPECIFICATION Spec
CONSTANTS
  o1 = o1
  o2 = o2
  o3 = o3
  X = X
  NoOrder = NoOrder
  Orders = {o1, o2}
  Symbols = {X}
  SymbolOf <- MCSymbolOf
  SideOf <- MCSideOf
  TypeOf <- MCTypeOf
  Quantity <- MCQuantity
  Levels = {0, 1, 3}
  Modes = {"paper", "live"}
  SignalCap = 1
  UpdateCap = 1
  MaxFaults = 1
  MaxRestarts = 1
INVARIANTS
  TypeOK
  BookedIffFilled
  OnlyVettedOrdersReachBroker
  BrokerClaimsAreTrue
  BookMatchesSimulator
PROPERTIES
  SettledStaysSettled
  KilledProcessSendsNothing
  ImplementsLedger
