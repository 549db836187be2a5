CONSTANTS
  Mint = {m1}
  NoMint = NoMint
  Proc = {p1, p2}
  SnapshotWindow = 0
  OutcomeWindow = 1
  ScanLag = 1
  MaxTime = 2
  MaxFaults = 1
SPECIFICATION FairSpec
INVARIANTS StatusBacked
PROPERTIES RowsAreFinal IsLabelledDataset MaturedIsSettled
