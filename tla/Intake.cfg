CONSTANTS
  m1 = m1
  m2 = m2
  w = w
  Mint = {m1, m2}
  NoMint = NoMint
  Compatible = {m1, m2}
  SupplyOf <- Supplies
  Size = {2}
  WalletOf <- OneWallet
  Backing = 1
  MaxSubmissions = 2
  MaxCalls = 1
SPECIFICATION FairSpec
INVARIANTS
  TypeOK
  StoredIsSound
  SentIsStored
PROPERTIES
  SubmissionEnds
