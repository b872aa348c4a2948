CONSTANTS
  Sig = {s1, s2, s3, s4}
  Tester = {u1, u2}
  Proc = {p1}
  Operator = Operator
  Escrow = Escrow
  NoSig = NoSig
  Backing = 1
  Supply = 1
  Lag = 1
  MaxSlot = 5
  MaxCycles = 2
SPECIFICATION Spec
SYMMETRY Symmetric
CHECK_DEADLOCK FALSE
INVARIANTS
  RecordedSucceeded
  SnapshotConsistent
  EvidenceAccounted
  EvidenceMatchesCustody
PROPERTIES
  NoBlindResend
  PendingClearedByProof
  CanaryCustody
