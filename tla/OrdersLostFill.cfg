\* One market order in paper mode: no fault and no restart.
SPECIFICATION Spec
CONSTANTS
  o1 = o1
  o2 = o2
  o3 = o3
  X = X
  NoOrder = NoOrder
  Orders = {o1}
  Symbols = {X}
  SymbolOf <- MCSymbolOf
  SideOf <- MCSideOf
  TypeOf <- MCTypeOf
  Quantity <- MCQuantity
  Levels = {3}
  Modes = {"paper"}
  SignalCap = 1
  UpdateCap = 1
  MaxFaults = 0
  MaxRestarts = 0
INVARIANT
  FillsFindTheirOrder
