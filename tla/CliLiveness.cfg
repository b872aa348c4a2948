CONSTANTS
  Sig = {s1, s2}
  Tester = {u1}
  Proc = {p1}
  Operator = Operator
  Escrow = Escrow
  NoSig = NoSig
  Backing = 1
  Supply = 2
  Lag = 1
  MaxSlot = 3
  MaxCycles = 1
SPECIFICATION RecoverySpec
CHECK_DEADLOCK FALSE
PROPERTIES
  CommandTerminates
  FinalizedPendingRecovers
