CONSTANTS
  x = x  y = y  z = z  u = u  alice = alice  bob = bob
  Token = {x, y, z, u}
  T0 <- MCT0
  Creator <- MCCreator
  Trades <- MCTrades
  Holdings <- MCHoldings
  Minted = {x, z, u}
  Revokes <- MCRevokes
  Month <- MCMonth
  MintRank <- MCMintRank
  PoolRank <- MCPoolRank
  HashRank <- MCHashRank
  BatchSize <- MCBatchSize
  Days = 2
  Threshold = 5
  SampleSizes = {1, 3}
  Skips = {TRUE}
  Times = {104, 120}
  MaxFaults = 0
SPECIFICATION Spec
INVARIANT
  LabelsAreTrue
CHECK_DEADLOCK FALSE
