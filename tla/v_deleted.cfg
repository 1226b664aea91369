\* An update and a delete of one file at the same time, with the GC.
CONSTANTS
  n1 = n1 w1 = w1 w2 = w2 f1 = f1 f2 = f2 f3 = f3
  Nodes = {n1}
  Workers = {w1, w2}
  Files = {f1}
  Descs = {d1}
  Home <- MCHome2
  Size <- MCSize1
  MaxFileSize = 1
  MaxCapacity = 1
  ConfigModes = {"edit"}
  Activities = {"upload", "update", "delete", "gc"}
  IOErrors = FALSE
  NoMeta = NoMeta
  Torn = Torn
  NoFile = NoFile
  NoMode = NoMode
SPECIFICATION FairSpec
PROPERTIES
  DeletedCollected
