CONSTANTS
  Mint = {m1, m2}
  NoMint = NoMint
  Proc = {p1}
  SnapshotWindow = 1
  OutcomeWindow = 2
  ScanLag = 2
  MaxTime = 3
  MaxFaults = 1
SYMMETRY TokenSymmetry
SPECIFICATION Spec
INVARIANTS NoGraduationLost WindowsRespected
