CONSTANTS
  p1 = p1
  p2 = p2
  w1 = w1
  w2 = w2
  NoTarget = NoTarget
  NoWire = NoWire
  Targets = {p1, p2}
  Wires = {w1, w2}
  WireTurn <- MCWireTurn
  LateExecute = FALSE
  MaxChan = 2
  MaxMoves = 2
  MaxCancels = 1
  MaxLosses = 1
SYMMETRY MCSymmetry
SPECIFICATION Spec
CHECK_DEADLOCK FALSE
INVARIANT MotionDone TurnAllowsExecute
PROPERTY MovesWithTable ExecuteAfterTurn
