\* One instance of the Query Module with two requests at a time beside the clients
\* of the registry and one synchronisation; the SE has a second process.
CONSTANTS
  s1 = s1 q1 = q1
  Files = {f1}
  Descs = {d1}
  Names = {n1}
  Modes = {"rw"}
  Ids = {i1}
  Periodic = s1
  Syncs = {s1}
  PageSize = 2
  First = 1
  MaxEvents = 2
  Activities = {"upload","modify","collect","replica","edit","error","register"}
  None = None
  Instances = {q1}
  Readers = {r1, r2}
  At <- MCAt
SPECIFICATION CacheSpec
INVARIANTS
  CacheTypeOK
PROPERTIES
  CleanConverges
  CacheDrains
CHECK_DEADLOCK FALSE
