CONSTANTS
  x = x  y = y
  Account = {x, y}
  Accounts <- MCAccounts
  SubId = {1, 2}
  Capacity = 1
  MaxBackoff = 4
  MaxSlot = 2
  MaxFaults = 2
SPECIFICATION FairSpec
PROPERTIES
  IsAccountFeed
  StopsOrFollows
CHECK_DEADLOCK FALSE
