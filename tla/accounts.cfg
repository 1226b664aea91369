\* Two synchronisations that may overlap, a request at a time, two accounts that
\* may have the same name, and administrators of Keycloak.
CONSTANTS
  t1 = t1
  Accounts = {a1, a2}
  Names = {n1}
  Scopes = {c1, c2}
  Kids = {1, 2, 3, 4, 5, 6}
  Uids = {1, 2, 3, 4, 5, 6}
  Syncs = {t1, t2}
  Ticker = t1
  Workers = {w1}
  MaxEvents = 3
  Activities = {"create", "update", "delete", "keycloak", "error", "abort", "trigger"}
  None = None
SPECIFICATION Spec
INVARIANTS
  TypeOK
  SyncAgrees
  OwnClient
PROPERTIES
  AccountsConverge
CHECK_DEADLOCK FALSE
