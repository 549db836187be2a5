CONSTANTS
  a = a  b = b
  Symbol = {a, b}
  PromoteAt = 3
  RejectAt = 2
  MinObservations = 2
  StopBounds <- MCStopBounds
  StopDefault = 10
  Bucket = {0, 15, 40}
  PenaltyBounds <- MCPenaltyBounds
  PenaltyDefault <- MCPenaltyDefault
  World <- MCWorld
  JumpRatio = 100
  Lookback = 4
  DayTicks = 3
  ForceAfter = 3
  ContestBar = 35
  ProbeBar = 30
  MaxFaults = 1
SPECIFICATION Spec
INVARIANTS
  LedgerIsSound
  SilenceBounded
  TriggersAreReal
  RulesAreEarned
  CalibrationBounded
PROPERTIES
  RejectedForGood
  RefreshHeals
CHECK_DEADLOCK FALSE
