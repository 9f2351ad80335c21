CONSTANTS
  p1 = p1
  p2 = p2
  w1 = w1
  w2 = w2
  NoTarget = NoTarget
  NoWire = NoWire
  Targets = {p1}
  Wires = {w1}
  WireTurn <- MCWireTurn
  LateExecute = FALSE
  MaxChan = 2
  MaxMoves = 1
  MaxCancels = 1
  MaxLosses = 1
SPECIFICATION FairSpec
CHECK_DEADLOCK FALSE
PROPERTY DispatchResolves AbortEndsMotion
