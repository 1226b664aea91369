\* Two requests at a time for one file, on a process in edit mode whose disk may
\* fail, beside expiry, GC, reconciliation and crashes.
CONSTANTS
  n1 = n1 w1 = w1 w2 = w2 f1 = f1 f2 = f2 f3 = f3
  Nodes = {n1}
  Workers = {w1, w2}
  Files = {f1}
  Descs = {d1}
  Home <- MCHome2
  Size <- MCSize1
  MaxFileSize = 1
  MaxCapacity = 2
  ConfigModes = {"edit"}
  Activities = {"upload", "update", "delete", "gc", "reconcile", "ttl", "crash"}
  IOErrors = TRUE
  NoMeta = NoMeta
  Torn = Torn
  NoFile = NoFile
  NoMode = NoMode
SPECIFICATION Spec
INVARIANTS
  AckedOnDisk
  AckedServed
  TotalIsSum
  IndexMirrorsAttr
  NoFalseAlarm
PROPERTIES
  IsFileLifecycle
SYMMETRY Symmetry
