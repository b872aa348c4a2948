CONSTANTS
  Sig = {s1, s2}
  Tester = {u1}
  Proc = {p1}
  Operator = Operator
  Escrow = Escrow
  NoSig = NoSig
  Backing = 1
  Supply = 1
  Lag = 0
  MaxSlot = 1
  MaxCycles = 1
SPECIFICATION Spec
CHECK_DEADLOCK FALSE
PROPERTY
  OneOpenTransaction
