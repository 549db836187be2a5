CONSTANTS
  Ticker = {t1}
  Viewer = {v1}
  Deposit = 20
  FeePct = 20
  MinSlipPct = 10
  MaxSlipPct = 90
  SlipCapPct = 20
  DustUsd = 2
  CloseUnits = 2
  Amount = {10}
  Lot = {1, 6, 8}
  Price = {1}
  Liquidity = {100}
  MaxTrades = 4
  MaxFaults = 0
SPECIFICATION Spec
INVARIANTS NoPhantomTriggers
