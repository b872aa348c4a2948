CONSTANTS
  World = {w1, w2}
  Key = {k1, k2}
  NoWorld = NoWorld
  NoKey = NoKey
  TornKey = TornKey
SPECIFICATION Spec
SYMMETRY Symmetric
CHECK_DEADLOCK FALSE
INVARIANTS
  TypeOK
  CustodyAfterSetup
  RecordedPrefix
