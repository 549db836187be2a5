CONSTANTS
  Writer = {w1}
  Row = {r1, r2}
  Inode = {i1, i2, i3}
  NoInode = NoInode
  MaxRows = 4
SPECIFICATION FileSpec
PROPERTIES WritesAreAtomic IsAppendLog
SYMMETRY Symmetry
CHECK_DEADLOCK FALSE
