CONSTANTS
  Sig = {s1, s2}
  Tab = {i1}
  Recovery = {k1, k2}
  Tester = {u1}
  Wallet = u1
  Operator = Operator
  Escrow = Escrow
  NoSig = NoSig
  NoTab = NoTab
  Backing = 1
  Supply = 1
  Lag = 0
  MaxSlot = 1
  WalletMoves = TRUE
SPECIFICATION Spec

CHECK_DEADLOCK FALSE
INVARIANT
  EvidenceRetained
