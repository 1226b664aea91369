\* Two requests at a time, mode transitions among them, beside the GC and
\* crashes, with fair scheduling.
CONSTANTS
  n1 = n1 w1 = w1 w2 = w2 f1 = f1 f2 = f2 f3 = f3
  Nodes = {n1}
  Workers = {w1, w2}
  Files = {f1}
  Descs = {d1}
  Home <- MCHome2
  Size <- MCSize1
  MaxFileSize = 1
  MaxCapacity = 2
  ConfigModes = {"edit", "rw"}
  Activities = {"upload", "update", "delete", "mode", "gc", "crash"}
  IOErrors = FALSE
  NoMeta = NoMeta
  Torn = Torn
  NoFile = NoFile
  NoMode = NoMode
SPECIFICATION FairSpec
INVARIANTS
  ModePersisted
  WalTracksUploads
PROPERTIES
  CleanDeleteCollected
  ModePath
