CONSTANTS
  x = x  y = y  z = z  u = u  alice = alice  bob = bob
  Token = {x, y, z, u}
  T0 <- MCT0
  Creator <- MCCreator
  Trades <- MCTrades
  Holdings <- MCHoldings
  Minted = {x, z, u}
  Revokes <- MCRevokes
  Month <- MCMonth
  MintRank <- MCMintRank
  PoolRank <- MCPoolRank
  HashRank <- MCHashRank
  BatchSize <- MCBatchSize
  Days = 2
  Threshold = 5
  SampleSizes = {3}
  Skips = {TRUE, FALSE}
  Times = {104, 120}
  MaxFaults = 2
SPECIFICATION FairSpec
INVARIANTS
  LabelsAreTrue
  FeaturesAreKnowable
  CreditsBounded
  SampleIsSound
PROPERTIES
  SnapshotRunsComplete
  Resumable
CHECK_DEADLOCK FALSE
