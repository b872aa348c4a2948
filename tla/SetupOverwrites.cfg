CONSTANTS
  World = {w1, w2}
  Key = {k1}
  NoWorld = NoWorld
  NoKey = NoKey
  TornKey = TornKey
SPECIFICATION Spec
CHECK_DEADLOCK FALSE
PROPERTY
  SetupKeepsEvidence
