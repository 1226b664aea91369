\* Two goroutines write the file, their calls overlapping or not; crashes and
\* power failures.
CONSTANTS
  short = short long = long
  Writers = {w1, w2}
  Values = {short, long}
  Length <- MCLength
  Inodes = {i1, i2, i3}
  NoInode = NoInode
  Absent = Absent
  Empty = Empty
  Torn = Torn
  NoValue = NoValue
SPECIFICATION Spec
SYMMETRY Symmetry
INVARIANTS
  NeverTorn
PROPERTIES
  IsAtomicCell
