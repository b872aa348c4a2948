CONSTANTS
  Sig = {s1, s2, s3}
  Tab = {i1}
  Recovery = {k1}
  Tester = {u1}
  Wallet = u1
  Operator = Operator
  Escrow = Escrow
  NoSig = NoSig
  NoTab = NoTab
  Backing = 1
  Supply = 1
  Lag = 1
  MaxSlot = 1
  WalletMoves = FALSE
SPECIFICATION FairSpec
CHECK_DEADLOCK FALSE
INVARIANTS
  TypeOK
  EvidenceRetained
PROPERTIES
  SuccessUnlocks
