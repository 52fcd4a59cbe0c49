\* Three market orders and an update channel of one slot; no fault and no restart.
SPECIFICATION FairSpec
CONSTANTS
  o1 = o1
  o2 = o2
  o3 = o3
  X = X
  NoOrder = NoOrder
  Orders = {o1, o2, o3}
  Symbols = {X}
  SymbolOf <- MCSymbolOf
  SideOf <- MCSideOf
  TypeOf <- AllMarket
  Quantity <- MCQuantity
  Levels = {3}
  Modes = {"paper"}
  SignalCap = 1
  UpdateCap = 1
  MaxFaults = 0
  MaxRestarts = 0
PROPERTIES
  LoopReturns
  FillsDrain
