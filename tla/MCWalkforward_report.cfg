CONSTANTS
  FeePct = 1
  Day = 4
  Month = 12
  Days = 2
  MinLiquidity = 50
  MaxLaunches = 10
  MinCurve = 20
  HeuristicLiquidity = 100
  HeuristicLaunches = {1, 2, 3}
  HeuristicCurve = 40
  TrueGraduations <- MCTrueGraduations
  SlotCount = 2
  Bankroll = 40
  EntryOffset = 2
  StopPct = 50
  World <- MCWorld
  MinTrainRows = 2
  MinTestRows = 2
  Score = {20, 50}
  EntryThreshold = 50
  CalibrationPct = 34
  MaxDrawdownPct = 40
SPECIFICATION Spec
INVARIANTS
  SlotsAndMoney
  ProfitIsLabelled
  StopLimitsHold
  TrainedOnThePast
  ReportIsEarned
CHECK_DEADLOCK FALSE
