\* Two processes, failovers and shutdowns, uploads and reconciliation.
CONSTANTS
  n1 = n1 n2 = n2 w1 = w1 w2 = w2 f1 = f1
  Nodes = {n1, n2}
  Workers = {w1, w2}
  Files = {f1}
  Descs = {d1}
  Home <- MCHome
  Size <- MCSize
  MaxFileSize = 1
  MaxCapacity = 1
  ConfigModes = {"rw"}
  Activities = {"upload", "reconcile", "crash"}
  IOErrors = FALSE
  NoMeta = NoMeta
  Torn = Torn
  NoFile = NoFile
  NoMode = NoMode
  NoNode = NoNode
  DeadNode = DeadNode
SPECIFICATION FairReplicaSpec
INVARIANTS
  ElectionTypeOK
  WritesUnderLock
PROPERTIES
  KnownEverywhere
  LeaderFound
  IsFileLifecycle
