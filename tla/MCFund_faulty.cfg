CONSTANTS
  Ticker = {t1}
  Viewer = {v1}
  Deposit = 20
  FeePct = 20
  MinSlipPct = 10
  MaxSlipPct = 90
  SlipCapPct = 20
  DustUsd = 2
  CloseUnits = 2
  Amount = {10, 20}
  Lot = {1, 6, 8}
  Price = {1, 4}
  Liquidity = {0, 100}
  MaxTrades = 3
  MaxFaults = 1
SPECIFICATION Spec
INVARIANTS Solvent AccountIsJournalled HistoryIsOwn
INVARIANTS UnprotectedIsReported AuditsAreCloses
