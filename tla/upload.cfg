\* Uploads racing each other, reconciliation, crashes and disk errors.
CONSTANTS
  n1 = n1 w1 = w1 w2 = w2 f1 = f1 f2 = f2 f3 = f3
  Nodes = {n1}
  Workers = {w1, w2}
  Files = {f1, f2, f3}
  Descs = {d1}
  Home <- MCHome2
  Size <- MCSize3
  MaxFileSize = 2
  MaxCapacity = 2
  ConfigModes = {"rw"}
  Activities = {"upload", "reconcile", "crash"}
  IOErrors = TRUE
  NoMeta = NoMeta
  Torn = Torn
  NoFile = NoFile
  NoMode = NoMode
SPECIFICATION Spec
INVARIANTS
  TypeOK
  AckedOnDisk
  AckedServed
  AttrHasData
  CapacityBound
SYMMETRY Symmetry
