\* Two synchronisations that read the SE one file at a time, beside clients and
\* administrators, who may register it a second time under a new id.
CONSTANTS
  s1 = s1 s2 = s2
  Files = {f1, f2}
  Descs = {d1}
  Names = {n1}
  Modes = {"edit", "rw"}
  Ids = {i1, i2}
  Periodic = s1
  Syncs = {s1, s2}
  PageSize = 1
  First = 2
  MaxEvents = 2
  Activities = {"upload", "modify", "collect", "register", "mode", "rename", "drop"}
  None = None
SPECIFICATION Spec
INVARIANTS
  TypeOK
  NothingSkipped
  SyncExact
  NoOrphans
PROPERTIES
  Converges
CHECK_DEADLOCK FALSE
