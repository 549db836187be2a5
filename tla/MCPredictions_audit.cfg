CONSTANTS
  a = a  b = b  p1 = p1  p2 = p2  w1 = w1  m1 = m1  m2 = m2  m3 = m3
  t1 = t1
  Specialist = {a, b}
  Mint = {m1, m2, m3}
  ColdPicks = 1
  ColdTotal = 2
  Pick = {p1, p2}
  Watch = {w1}
  Tick = {t1}
  Owner <- MCOwner
  Kind <- MCKind
  Reading <- MCReading
  Output <- MCOutput
  V1Audits = 1
  EnqueueBusy = FALSE
  Horizon = 1
  MaxTime = 2
  MaxFaults = 1
SPECIFICATION FairSpec
INVARIANTS
  CountsAreExact
  BookIsFair
PROPERTIES
  WatchesKept
  IsAuditQueue
  QueuedIsCounted
CHECK_DEADLOCK FALSE
