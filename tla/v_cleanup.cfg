\* A download answered by a process of the SE whose index lags behind the leader's.
CONSTANTS
  s1 = s1 q1 = q1
  Files = {f1}
  Descs = {d1}
  Names = {n1}
  Modes = {"rw"}
  Ids = {i1}
  Periodic = s1
  Syncs = {s1}
  PageSize = 2
  First = 0
  MaxEvents = 1
  Activities = {"upload", "replica"}
  None = None
  Instances = {q1}
  Readers = {r1}
  At <- MCAt
SPECIFICATION CacheSpec
INVARIANTS
  CleanedIsGone
CHECK_DEADLOCK FALSE
