CONSTANTS
  Ticker = {t1, t2}
  Viewer = {}
  Deposit = 20
  FeePct = 20
  MinSlipPct = 10
  MaxSlipPct = 90
  SlipCapPct = 20
  DustUsd = 2
  CloseUnits = 2
  Amount = {10}
  Lot = {1, 8}
  Price = {1, 3}
  Liquidity = {0, 50, 100}
  MaxTrades = 5
  MaxFaults = 0
SPECIFICATION Spec
INVARIANTS LedgerBalances ClosesAreAudited
SYMMETRY TickerSymmetry
