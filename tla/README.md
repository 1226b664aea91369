# goartstore: specifications, model checks and proofs

goartstore stores files on Storage Elements (SE), registers them in an Admin
Module (AM, with PostgreSQL and Keycloak) and serves search and downloads
through a Query Module (QM). This directory specifies in TLA+ the parts of the
three that keep state and share it, model-checks small instances with TLC and
proves the main safety properties for all instances with TLAPS.

Paths are relative to `src/`: `storage-element/internal/...` and so on; where
the module is clear from the context, the file name alone is given.

## The system

| Part | State it keeps | Operations | Talks to |
|---|---|---|---|
| SE upload (`service/upload.go`) | none of its own | Upload | WAL, file store, attr files, index, mode |
| SE index (`storage/index`) | map of metadata, running total of active bytes | Add, Update, Remove, Rebuild, List | attr files |
| SE attr, mode and WAL files (`storage/attr`, `replica/mode_file.go`, `storage/wal`) | files on disk, `path.tmp` | Write, Read, Delete | the kernel |
| SE WAL (`storage/wal`) | one file per transaction | StartTransaction, Commit, Rollback, RecoverPending | |
| SE file store (`storage/filestore`) | data files | SaveFile, DeleteFile | |
| SE handlers (`api/handlers`) | none | PATCH, DELETE, download, mode transition, reconcile | all of the above |
| SE mode machine (`domain/mode`) | current mode | TransitionTo, ForceMode, CanPerform | `mode.json` |
| SE GC (`service/gc.go`) | snapshot of a pass | RunOnce by ticker | index, attr files, file store |
| SE reconciliation (`service/reconcile.go`) | pass under way | RunOnce by ticker or request | directory, index |
| SE election and replication (`replica`, `main.go`) | flock, `.leader.info`, role, address, refresh | election, promotion, refresh, proxying | NFS, other SEs |
| AM registries (`service/storage_elements.go`, `file_registry.go`) | tables `storage_elements`, `file_registry` | Create, Update, Delete; Register, Update, Delete | PostgreSQL, SE |
| AM storage sync (`service/storage_sync.go`) | what SyncOne has read so far | SyncOne, SyncAll | SE, PostgreSQL |
| AM service accounts (`service/service_accounts.go`) | table `service_accounts`, clients of Keycloak | Create, Update, Delete | Keycloak, PostgreSQL |
| AM account sync (`service/sa_sync.go`) | two listings | SyncNow | Keycloak, PostgreSQL |
| Token caches (AM `keycloak/client.go`, QM `adminclient/client.go`) | a token and its expiry, a mutex | getToken, GetToken | the issuer |
| QM download and cache (`service/download.go`, `cache.go`, `search.go`) | LRU cache with a TTL, one per instance | Download, GetFileMetadata, lazy clean-up | AM, SE, PostgreSQL |
| AM users, roles, IdP, settings, dependency monitor, web UI | single rows; cookies of the browser | single statements, pages | PostgreSQL, Keycloak |

Hard behaviours. In the SE, requests, GC, reconciliation and refresh share the
index and the files with no lock that spans a whole operation, and even the
temporary file of an attr.json; a process can die between any two steps of an
upload; each step of an upload, and of its
rollback, can fail; in replicated mode several processes share one directory
and leadership moves. Between the modules there are no transactions: AM copies
an SE's listing page by page while it moves, two databases of accounts are
changed one after the other by requests that may stop half way, several
synchronisations overlap, QM acts on cached records, and what it is told may
come from a process that lags behind. `PROJECT.json` lists the hazards one by
one with the line where each bites.

What makes each part correct:

* upload, WAL, files: an acknowledged upload survives everything but a DELETE,
  and overlapping operations spoil at most the attr.json of their own file;
  metadata never lack their data; the WAL tells uploads under way from others;
* index: it agrees with the attr.json files, and its total with its entries;
* GC: it removes what was deleted, and nothing else;
* reconciliation: no false alarm;
* modes: `mode.json`, the processes and the accepted operations agree;
* election: one writer, a leader in the end, everybody learns of every upload;
* AM sync: no file that stayed is taken for gone, an undisturbed pass is exact,
  the registry converges to what the SE holds;
* AM accounts: identifiers are never mixed up, both sides converge;
* QM: the clean-up marks what is gone and nothing else, no stale record stays;
* tokens: what is handed out is still good, everybody is served.

## Modules

| Module | What it is |
|---|---|
| `StorageModes` | constant-level: modes, transition matrix, allowed operations |
| `StorageElement` | SE processes over one data directory: requests, GC, reconciliation, crash and start |
| `FileLifecycle` | abstract: the life of each file, who knows it, what was promised |
| `StorageElementProofs` | types, durability, availability, the running total |
| `StorageElementBounds` | reconciliation reports, the WAL, the capacity limit, mode.json, index and disk; `StorageElement` implements `FileLifecycle` |
| `Replica` | extends `StorageElement` with the election: which process runs what, and when |
| `ReplicaProofs` | one writer at a time; the properties of `StorageElement`, and the refinement, under failover |
| `AtomicFile` | calls of `attr.Write` (`SaveMode`, `writeEntry`) for one file, overlapping or not, by system calls, inodes and power failures |
| `AtomicCell` | the abstract file those callers rely on: atomic for a call that is alone, anything after calls that overlap |
| `AtomicFileProofs` | `AtomicFile` implements `AtomicCell` with any number of writers |
| `RegistrySync` | the AM's row of an SE and its file registry, beside the SE as a listing that moves; SyncOne, clients, administrators |
| `RegistrySyncProofs` | types, foreign keys, nothing skipped, exactness of an undisturbed pass |
| `FileCache` | extends `RegistrySync` with QM instances: cache, download, lazy clean-up |
| `FileCacheProofs` | types, the clean-up is right when the SE has one process, `RegistrySync` beside the Query Module |
| `AccountSync` | accounts in PostgreSQL and in Keycloak: requests, SyncNow, administrators of Keycloak |
| `AccountSyncProofs` | types, identifiers, agreement after an undisturbed pass |
| `TokenCache` | the token caches of AM and QM, with the clocks of client and issuer |
| `TokenCacheProofs` | types, the lock, the life left in a token |
| `MC...` | values of constants for TLC |

`StorageElement` and `Replica` compose by extension: `Replica` restricts when
the actions of `StorageElement` may happen (a request on a process that accepts
writes, a GC pass on a leader) and adds the steps that change index and mode
from outside. `AtomicFile` and `StorageElement` compose by refinement:
`StorageElement` handles an attr.json as the cell of `AtomicCell`, one step
(`Take`) for a write that is alone, and for writes that overlap any outcome
`AtomicCell` allows them (next section). `StorageElement` and `Replica` in
turn implement `FileLifecycle`, which forgets requests, daemons and the
election and keeps what clients can rely on: the stage of each file, the files
each process knows, the processes that serve and the uploads each has
acknowledged. The refinement mapping (`IsFileLifecycle`, at the end of
`StorageElement`) reads the stage off the disk and the accepted deletions;
"lost" is an upload that came to nothing, whose name the WAL still bars. Two
things it forgets: what attr.json says of a file whose DELETE was accepted (such
a file is "doomed" while its data last and "gone" afterwards, so that the
revival of `v_deleted` is a stutter, and the refinement says nothing about it),
and the text of an attr.json at any time. Files of `crossed` are `muddled`
there: a scan may miss them.
`FileCache` extends `RegistrySync`:
QM and AM share the table `file_registry`. `RegistrySync` sees an SE as what
`ListFiles` returns; that a listing taken from the leader is right is what
`AckedServed`, `TotalIsSum` and the other properties of `StorageElement` are
about, that one taken from a follower may lag is `KnownEverywhere` of `Replica`.

### State and code

Storage Element:

* `data`, `attr`, `modeFile`, `wal`: the data files, the attr.json files,
  mode.json and the WAL directory. A file is named by its file_id. The WAL
  directory is private to a process (a pod volume), the rest is shared.
* `up`, `mode`, `index`, `total`: the process, `StateMachine.current`,
  `Index.files`, `Index.totalActiveSize`.
* `req[w]`: a request goroutine: what it does next and the copy of the metadata
  it holds. `gc[n]`, `rec[n]`: the two daemons with their snapshots.
* `scraps[f]`: what writes of f's attr.json that overlapped have left in the
  shared `path.tmp`, or have yet to do to it. Empty as long as no two met.
* `acked`, `doomed`, `gone`: what clients were told; `crossed`: the files that
  two operations (an upload, PATCH, DELETE or GC's marking, each from its copy
  of the metadata to its index update) have worked on at the same time; `raced`:
  the processes in which two transitions have overlapped since they were
  started. Only properties read them, with one exception: `rec.stable` copies
  `acked` for `NoFalseAlarm`.
* `Replica`: `lock` (flock on `.leader.lock`), `leaderInfo`, `role`,
  `leaderAddr`, `phase` (how far main and the election have come), `refresh`,
  `loaded` (the mode LoadMode returned, between reading and forcing it).

Admin Module and Query Module:

* `RegistrySync`: `listing`, `meta`, `seMode` are the SE: its files newest
  first, their metadata, its mode. `row` and `registry` are the two tables,
  `usedIds` the UUIDs given out. `sync[s]` is a SyncOne under way: the row it
  read, its offset, the ids seen, the page it is writing. `edit` and `form` are
  the two read-modify-write requests (a file, the row) between read and write.
  `sync.still` and `alone` are history: the files that stayed since a pass
  began, and the passes nobody has come across.
* `FileCache`: `cache[q]` the LRU of an instance, `reader[r]` a request with the
  record it goes by, `replica` the index of a second process of the SE.
* `AccountSync`: `db` the table, `kc` the clients, by client_id; `uid` and `kid`
  are the primary key of a row and the internal id of a client. `sync[s]` holds
  the two listings, what is left to do and the row about to be written; `req[w]`
  a request of an administrator. `alone` is history as above.
* `TokenCache`: `cache` with the age the client counts and the age the issuer
  counts, `flight` the request under way, `holder` the lock, `given` history.

### Steps

An action is the code between two accesses to state that another goroutine can
change: a remote call, a statement of SQL, a lock. Merged into one step in the
Storage Element, because the parts commute with what others do:

* CanPerform, the capacity check and StartTransaction in `UploadStart`: each
  reads or writes one thing, and the interleavings lost are those where the
  mode or the total changes between two checks, which the later, longer window
  up to `UploadIndex` contains;
* SaveFile and the reading of the mode for the retention policy in
  `UploadSave`: the data file has a fresh name nobody else uses;
* the deletion of data, the deletion of attr.json and the rollback of the WAL
  in `UploadUndo`: nobody knows of the file yet;
* a rebuild of the index: it holds the index lock while it scans, and every
  writer of an attr.json updates the index afterwards, so the scan of each file
  can be placed at the end of the rebuild;
* reading `.leader.info` and trying the lock in `Retry` and `TryLock`;
* draining the server and `election.Stop` in `Shutdown`: after the drain the
  process has no requests. A drain that times out ends the process (`Die`).

The directory listing of reconciliation is one step, as `os.ReadDir` of a
directory that does not change under it is. `IOErrors` lets writes and removals
fail; reads of the disk never fail, but what they find may not parse. A rejected upload covers
tags that do not parse, attr.json over 4 KB and a failed write. Data files are
never rewritten, so size and checksum mismatches are not modelled.

Writes of attr.json. attr.Write creates (and truncates), writes, fsyncs and
renames one `path.tmp`, and nothing keeps a PATCH, a DELETE, GC's marking and
the operations of a second process from doing so at the same time. A write is
under way, in `StorageElement`, from the moment its goroutine has its copy of
the metadata to the step in which it ends (`InHand`: the earliest moment it can
have created the file). `AttrWrite` of a write beside which no other was under
way is one step. Beside others it publishes its own text, that of any of them,
what those that died have left, or a text that does not parse (`Torn`), and it
may fail because another one took `path.tmp` away (`AttrWriteFails`). It then
leaves `scraps` behind until the last of the writers that met has ended, and so
long the published file may change once more, because some of them still have
it open (`AttrOverwritten`); a process that dies takes its writes along and
leaves its scraps (`TmpAbandoned`). This is `AtomicCell` with its `Anything`
spelled out, and a little more permissive: writes count as overlapping before
they have called `os.Create`. `SaveMode` is written in the same way: alone in
one step (`saveMode`), beside others (`saveBeside`) with any of their modes,
`Torn`, or no effect. `ScanDir` passes over a torn attr.json and LoadMode fails
on a torn mode.json, as they do in the code.

What that does to the properties: an attr.json is in doubt exactly for files of
`crossed`, and so `AckedOnDisk`, `AckedServed` and `IndexMirrorsAttr` say
something else of these: `AckedOnDisk` that the data and some attr.json are
there still, `AckedServed` that no other file answers 404. All other properties
make no exception for them.

`Replica` assumes that a live process keeps its flock; a dead host may keep it
until the NFS lease ends (`DeadNode`). main asks `IsLeader` immediately after
`election.Start`, so the refresh starts exactly when the process begins as a
follower.

In the other modules:

* `Upsert` writes one row of a page at a time: BatchUpsert runs statement by
  statement, outside a transaction. The page a pass listed stays in its hands
  while the SE moves on.
* `CreateSE` is one step with the Info it asks: nobody can see the row before.
* The statuses `active` and `deleted` stand for those of a file; `expired` is
  copied like any other.
* In `AccountSync` a call to Keycloak and the statement that follows it are two
  steps everywhere but in `CreateLocal` (a statement only) and `MatchKid` (a
  statement only). reconcileScopes may write the row twice, with the old and
  with the present identifier: one write, of the second, since both are the row
  as it was listed. Identifiers nobody remembers are used again (`FreshKid`),
  which keeps their set finite without bounding the behaviours.
* A listing that fails and a context that is cancelled end a pass (`SyncFail`),
  a call for one account that fails does not (`SyncSkip`).
* In `TokenCache` a tick is a unit of the clock in which margin, timeout and
  life are measured; ages are not counted beyond the life of a token.
  `DoubleChecked` tells the QM client, which looks under the read lock first,
  from the Keycloak client of AM, which takes the one lock it has. The write of
  the token by requestToken and its return are one step: both hold the lock.

## Runs

| Run | Instance | What it shows |
|---|---|---|
| `upload` | 1 process, 2 goroutines, 3 files of 2, 2 and 1 bytes in 2 bytes of capacity, rw | `AckedOnDisk`, `AckedServed`, `AttrHasData`, `CapacityBound`, types, with crashes, disk errors, reconciliation |
| `lifecycle` | 1 process, 2 goroutines, 1 file, edit | `AckedOnDisk`, `AckedServed`, `TotalIsSum`, `IndexMirrorsAttr`, `NoFalseAlarm` with update, delete, expiry, GC, reconciliation, crashes and disk errors; refinement of `FileLifecycle` |
| `restarts` | 1 process, 2 goroutines, 1 file, edit or rw, transitions, GC, crashes | `ModePersisted`, `ModePath`, `WalTracksUploads`, `CleanDeleteCollected` |
| `atomicfile` | 2 writers, 2 values of different length, 3 inodes | `NeverTorn`, refinement of `AtomicCell` |
| `replica` | 2 processes, 1 goroutine each, 1 file | `WritesUnderLock`, `KnownEverywhere`, `LeaderFound`; refinement of `FileLifecycle` |
| `modes` | 2 processes, 1 goroutine each, transitions | `ModesConverge` |
| `registry` | 2 synchronisations, pages of 1, 2 files (both there at first), 2 row identifiers, 2 changes | `NothingSkipped`, `SyncExact`, `NoOrphans`, `Converges` |
| `query` | 1 instance, 2 requests, 1 synchronisation, pages of 2, 1 file, an SE of 2 processes, 2 changes | `CleanConverges`, `CacheDrains` |
| `accounts` | 2 synchronisations, 1 request at a time, 2 accounts of one name, 2 sets of scopes, 3 events | `SyncAgrees`, `OwnClient`, `AccountsConverge` |
| `tokens` | 2 goroutines, lives of 0, 2 and 6 ticks, margin 3, timeout 2 | `StillGood`, `LockCovers`, `EverybodyServed` |
| `v_deleted`, `v_cleanup` | the smallest instance | the code departs from what its comments say |

The bounds of the Storage Element: two goroutines are what every race here
needs, because state is shared per file and each race is between two holders of
a copy; three files suffice to overfill a store (one stored, two admitted at
once). A file_id is used once, so the number of uploads is bounded
by `Files`.
`Activities` says what the environment does in a run: each run has the
activities its question is about, and leaves out those that only multiply
states. Two processes are one leader and one follower with both directions of
failover; the lock admits no more than one, whatever their number (a theorem).
In `AtomicFile` two writers suffice for calls that overlap, and three inodes are
the published file, the temporary one and one that a power failure may bring
back. `CHECK_DEADLOCK` is on in these runs.

The bounds of the others: `MaxEvents` bounds the changes made by clients and
administrators and the errors, never the work of a synchronisation, so that the
convergence properties say what happens after the last change. Two changes make
the races of `registry`: a removal and an upload under one pass, a row deleted
and another change, a transition and a renaming. Pages of one file put a page
boundary between the two files; the short last page, which ends a pass without
another request, is taken in `query` with pages of two. Two identifiers let a
row be deleted and registered again while a pass goes on that read the first
one: an insertion that took any present row for its own breaks `NoOrphans`
(mutant `InsertableUnderAny`). Which new identifier a row is given makes no
difference, so they are taken in one order (`NextId`). Two accounts with one name are the
conflict the table can raise; three events are a request that stops half way and
a change in Keycloak, or a request and two failures. The lives of tokens are none
at all, which is what an answer without `expires_in` comes to, one below the
margin, which is asked for anew at each use, and one above it. Where
the system may stop (`MaxEvents` used up and nothing to do) deadlock is not
checked: `registry`, `query`, `accounts`, `v_cleanup`.

Overlapping operations are in all these runs but `modes`, and some properties
except what these have spoilt, because the code does not keep it:

* `crossed` (`AckedOnDisk`, `AckedServed`, `IndexMirrorsAttr`, `KnownEverywhere`,
  `CleanDeleteCollected`): two operations on one file may leave an attr.json that
  no rebuild can read, an index that the slower of them brought back, or a
  deleted file in active use (`v_deleted`).
* `raced` (`ModePersisted`, `ModePath`, `ModesConverge`): two transitions on one
  process change the mode in memory under its lock (`mode.go:66`) and save it
  outside (`mode.go:87`), so that mode.json may hold the mode of the first or a
  mixture. A restart reads the file and ends it, and so does the refresh, with
  the mode the file holds; but a process that won the lock on its first try has
  no refresh, and mode and mode.json may then stay apart until it restarts. No
  property promises more.

`modes` has one goroutine for each process: behaviours in which no two
transitions of one process overlap, while those of the two processes do. With
two on each, or on one of them, the state space is too large for a liveness
property (beyond 800,000 states), and the behaviours it would add are those that
`raced` excepts; safety under such overlaps is checked in `restarts` and proved
for any number (`ModeSurvives`, `ModeFileFollowsMatrix`).

### Where code and text differ

* `v_deleted`: a PATCH that overlaps a DELETE revives the file (`files.go:238`).
* `v_cleanup`: a download answered 404 by a process of the SE that has not
  refreshed its index makes QM mark a file deleted that the SE has
  (`download.go:136`; the comment at `:208` says the file is absent). With one
  process the clean-up is right (theorem `CleanUpIsRight`), and the next
  synchronisation repairs the record (`CleanConverges`).

Noticed while modelling, without a run of their own:

* Storage Element. Expired files are marked and never removed (`gc.go:225`
  takes files with status deleted only; `docs/briefs/storage-element.md:40`
  says the SE removes them). WAL recovery marks entries rolled back and removes
  nothing (`main.go:92`). `attr.go:43` calls Write atomic. It is for a call that is
  alone; but there is one name for the temporary file (`attr.go:64`), and PATCH,
  DELETE and GC hold no lock, so that calls that overlap can publish an empty or
  mixed attr.json, which the next rebuild of the index passes over
  (`attr.go:134`): the file is on disk and answers 404. `NeverTorn` without
  `mixed` is violated in `atomicfile`, `AckedServed` without `crossed` in
  `lifecycle`. Two transitions at a time can leave mode.json behind the mode of
  the process, off the matrix, or torn (`mode.go:66`, `:87`). A promoted follower goes on refreshing and
  can undo a mode transition in memory (`main.go:177`). `README.md:225`
  describes a shutdown that releases the lock before the HTTP server is
  drained; the code drains first (`main.go:293`), and `WritesUnderLock` depends
  on it (mutant `ShutdownUndrained`). `summary.ok` of reconciliation subtracts
  orphans that are in no index (`reconcile.go:188`); `CleanCommitted` has no
  caller. A process that wins the lock on its first try has no refresh, so a
  file uploaded through the old leader between its index build and its promotion
  is unknown to it until reconciliation (six hours by default):
  `KnownEverywhere` holds only because reconciliation is fair.
* The way back from ar. `docs/briefs/storage-element.md:199` forbids it, and with
  one process mode.json never takes it (theorem `ModeFileFollowsMatrix`). But a
  promoted follower is leader before it has loaded mode.json
  (`election.go:181`, `main.go:158`), and its server is up: a transition that
  arrives in between is judged by the mode its last refresh left, and its
  outcome replaces ar in mode.json for everybody (the leader goes rw, ro, ar and
  ends; the other process, still in rw, is promoted and takes rw to ro). TLC
  finds it with `ModePath` in the place of `ModesConverge` in `modes.cfg`.
* Synchronisation of files. An SE without files leaves its records active: the
  slice of ids is nil, goes out as NULL, and `file_id != ALL(NULL)` selects no
  row (`storage_sync.go:233`, `repository/file_registry.go:252`), while
  `docs/briefs/admin-module.md` has missing files marked deleted. `SyncExact`,
  `Converges` and `CleanConverges` exclude the empty SE for this reason. A
  renaming of an SE during a pass is lost, because the pass writes the whole
  row back (`storage_sync.go:304`), and what clients change in the registry
  alone lasts until the next pass.
* Accounts. The table wins over Keycloak about scopes (`sa_sync.go:303`), while
  `docs/briefs/admin-module.md:455` and `:777` have the last write win; enabled
  and suspended are never reconciled; an account whose deletion failed in
  Keycloak comes back with the next pass.
* Tokens. With the defaults margin and timeout are both 30 seconds, so that the
  slowest answer uses the margin up: `StillGood` then only promises that the
  token is not yet expired. QM asks AM for tokens at `/auth/token`
  (`adminclient/client.go:160`), a route the source of AM does not have.
  `AM_KEYCLOAK_CLIENT_TIMEOUT` is read and not used (`main.go:86`).

### Fairness

Clients, administrators, the clock, crashes, errors and mode transitions are not
fair. Fair are: the steps of a request that was accepted (goroutines run on),
the tickers of GC and of the two synchronisations, the restart of a dead process
(the orchestrator), and in `Replica` each election (retryLoop), the refresh
ticker, the reconciliation of a leader, the end of a process that was shut down,
and the end of an NFS lease (a timer of the server). In `FileCache` the TTL
passes and the second process of the SE refreshes. All of it is weak fairness,
with one exception: in `TokenCache` the two ways to a lock are strongly fair,
because the mutexes of Go hand the lock to a waiter that has waited for long
(starvation mode), and a request ends by its timeout. Liveness under crashes is
stated for behaviours in which the processes stay up from some point on; the
convergence properties for behaviours in which changes come to an end, which
`MaxEvents` sees to.

## Theorems

For every number of processes, goroutines, files, sizes and descriptions, from
`ConstantsOK` and `ReplicaOK`:

* `TypeCorrect`. The types alone are not inductive: a request past its first
  step has a file and metadata in hand (`ReqInHand`), and so has a GC pass.
* `Durable`, `Served`, `NoGhostMetadata` (one invariant, `DurInv`, per file; no
  assumption about who writes an attr.json and when):
  `Complete`: metadata on disk come with data and are not marked deleted, until
  a DELETE is accepted; `Backed`: whoever holds metadata (an index, a GC
  snapshot, a request past attr.Write, a client), the disk has them too;
  `OneUploader`, `Private`: until attr.Write nobody but the uploader knows the
  file, so that a rollback destroys nothing of others; `Named`: a file in use
  has a WAL entry, so that its name is not given out again; `DeletedMeans`: the
  status deleted is only ever seen after an accepted DELETE, which is why the
  sweep of the GC is harmless; `Indexed`: who acknowledged has it in the index,
  rebuilds and restarts included, unless the file was crossed; `Clean`: until
  two operations meet on a file one at most works on it, its attr.json is whole
  and `path.tmp` holds nothing of it. What overlapping writers can publish
  (`scraps`) is bound by the same parts: none of it says deleted before a DELETE
  was accepted (`DeletedMeans`), and none outlives the writers of a file that
  is not there (`Private`). Without `Backed`, a snapshot of the GC could
  revive metadata of a file that is gone; without `Private`, a rollback could
  remove an acknowledged file.
* `TotalExact`: with lemmas about the cardinality of the set of bytes of a set
  of files (`SizeOfAdd`), since the total is a sum over a set.
* `ReportsAreFair`: what was acknowledged when the directory was listed is in
  both halves of the listing (`ListedOnce`), by `DurInv`, and no step shrinks the
  set of accepted deletions.
* `WalIsExact`: a process that is down has no requests (`DownIdle`), one that is
  up has a pending entry for each upload under way (`Tracked`); `OneUploader`
  closes an entry only once.
* `OvershootIsBounded`, assuming one process that serves uploads only
  (`UploadsOnly`): the files that count in the index, that a rebuild would
  count, or that are on their way (`Claimed`) fit into the capacity and one
  largest file for each of the other requests. The check sees only the first;
  the others are on their way as long as they are not in the index (`Stray`).
  The assumptions are needed: a second process does not see what the first one
  stores, and a PATCH that crosses an expiry makes a file active again whose
  place has been given away.
* `ModeSurvives`, `ModeFileFollowsMatrix`, assuming one process and a disk that
  works, with any number of requests: a request that is alone with mode.json
  when it changes the mode is the only one to save it (`SaversKnown`), mode.json
  is behind only while that request is on (`ModeSaved`), and the mode it carries
  is the one of the process, one step of the matrix on from the file
  (`ModeInHand`). A crash between transition and SaveMode resumes in the old
  mode, and nothing has been written. The last two hold until transitions have
  overlapped (`raced`), and again after the next restart.
* `IndexIsMirror`, assuming one process (`OneProcess`), with any number of
  requests, expiry, GC and a disk that may fail (`MirrorInv`, of the files no
  two operations have met on): the index differs from the disk only while
  somebody is between the two writes (`Settling`); what a request holds agrees
  with what it is about to replace (`RequestSees`), and so does the snapshot of
  a GC pass, whose sweep is out of the reach of requests but for the DELETE that
  marked the file (`GcSees`). By `Clean` of `DurInv` a file outside `crossed` has
  one operation at a time, which is what every step rests on. With two processes
  it fails: a follower lags.
* `FilesLiveOnce`: `StorageElement` implements `FileLifecycle`, for any number
  of processes and goroutines, with crashes and disk errors. `DurInv` is not
  enough for the steps: `LifeInv` adds that what the sweep has in hand has lost
  its data once its attr.json is about to go (`Swept`), that a file whose DELETE
  was accepted keeps some attr.json as long as its data (`Whole`, without which a
  restart would not know it), and that an upload about to be acknowledged is
  known to its process, was removed after a DELETE or has been crossed
  (`Answered`). Each action is then a step of one file, a scan of one process, a
  death, a meeting of operations or a stutter (`NextRefines`). A file without
  metadata and without an upload under way is "new" only if its name was never
  used, so a file that comes back after its removal or its rollback, one that a
  running process forgets, or data swept before a DELETE have no step to map to.
  A revival before the removal has one, as said above: `CleanDeleteCollected`
  and `v_deleted` are about that.
* `LifecycleIsReliable`: what the abstract specification is worth. `Reliable`,
  the promise to a client that was answered 201, follows from `FileLifecycle`
  alone, with `KnownWasKept` (a process knows no file that was not kept).
* `WholeUnlessMixed`, `WriteIsAtomic`, for any number of writers: a published
  inode that one call wrote alone is whole and synced (`Published`), `path.tmp`
  is never a published inode (`Apart`), and a call that has overlapped with none
  is the only one under way and `path.tmp` is its inode (`Alone`). `mixed` are
  the inodes that calls which overlapped may write; the cell holds `Anything` as
  long as one of them is published.
* `OneWriterAtATime`: `Holding` (the lock is held from flock to Stop), `Leads`
  (the role is not older than the lock), `Working` (requests run in a process that
  leads; the drain precedes Stop). `Leads` is needed because the role outlives
  the lock in a process that was shut down.
* `DurableThroughFailover`, `ServedThroughFailover`: a step of `Replica` is a
  step of `StorageElement`, or replaces an index by what is on disk, or sets the
  mode of a running process; `DurInv` survives all three.
* `TotalExactOnReplicas`, `NoGhostMetadataThroughFailover`,
  `ReportsAreFairThroughFailover`, `WalIsExactThroughFailover`,
  `FilesLiveOnceThroughFailover`: the same decomposition carries the inductive
  invariants of the other theorems, gathered in one (`SharedInv`); the three
  kinds of steps touch neither the requests nor the WAL, and a refresh is a
  `Scan` of the abstract system. `ModePersisted`, `ModePath` and
  `IndexMirrorsAttr` do not carry over: a promotion breaks the second (see
  above), and a follower lags behind the disk, in its mode and in its index, and
  may be promoted before it has caught up.

For every set of files, page size, number of synchronisations and of changes,
from `RegistryOK`:

* `RecordsHaveTheirRow`: `NoOrphans` is inductive with the types; what it takes
  is that a record keeps the row it was inserted with and that an insertion
  needs that row to be there still.
* `NothingIsSkipped`: of the files that stayed (`still`) those at or before the
  offset are among the ids seen (`Ahead`, `Through`: of the others each stands
  behind the offset). `Inserted` and `Removed` say where files go in the listing
  when one enters or leaves it: an upload only pushes files back, where they are
  read again, a removal pulls at most one over the offset.
* `ExactWhenAlone`: while nobody comes across, the files read so far are shown
  in the registry, but for those of the page in hand (`ExactInv`), and at the
  marking what was not read is not in the SE.

From `FileCacheOK` as well: `CacheTypeCorrect`, and `CleanUpIsRight`, assuming
that the SE has one process: records, pages in hand and cached copies are all of
files that have been uploaded (`Uploaded`), so a 404 means that the file has
left the listing, and names are not used twice.
`RecordsHaveTheirRowBesideCache`, `NothingIsSkippedBesideCache` and, assuming one
process again, `ExactBesideCache` keep the theorems of `RegistrySync` where the
Query Module writes the same table: a mark changes one status and inserts
nothing, and by `CleanedIsGone` only of a file that no listing in progress can
have in it, so that it is what the synchronisation would have written. With an
SE of two processes `ExactBesideCache` fails as in `v_cleanup`.

For every number of accounts, workers and synchronisations, from `AccountsOK`:

* `NobodyElsesClient`: whatever names an identifier (a row, a client, a listing,
  a copy, a request) names it for one account (`Owned`); a step hands
  identifiers on (`KeepsHeld`) or takes one that nobody holds (`FreshIsFree`).
* `AgreesWhenAlone`: names are unique in the table; an undisturbed pass has made
  the accounts it is done with agree, and the others are as they were listed
  (`OnCourse`).

For every number of callers, margin, timeout and life, from `TokensOK`:

* `OneRequest`: inductive with the types. `TokensAreGood`: the issuer's count is
  ahead of the client's by no more than the timeout (`ClocksClose`), and what a
  caller was given was fresh or new at that moment (`GivenGood`).

Model-checked only: everything about liveness (`CleanDeleteCollected`,
`KnownEverywhere`, `LeaderFound`, `ModesConverge`, `Converges`,
`CleanConverges`, `CacheDrains`, `AccountsConverge`, `EverybodyServed`).
Liveness under fairness is outside what the prover handles.

## Not modelled

Downloads as streams, ranges, JWT and scopes, health, metrics, configuration and
generated code: they read once and change nothing. A lease lost by a live
leader: the code has no reaction to it. Read errors of the disk. Search of QM:
two read-only statements. Users, roles, IdP status and settings of AM: single
statements on single rows. RotateSecret: nobody else keeps the secret. The
endpoints of the dependency monitor, which live in a library. The web UI, which
keeps its session in a cookie of the browser and renders pages mostly generated
from templates. The Ingester, which exists in the docs only.

`RegistrySync` takes the listing from the leader of an SE; a listing answered by
a follower may lack files its index has not seen yet and would have them marked
deleted until the next pass. Files whose dates do not parse, and an SE that is
not `online`, which SyncAll passes over, are left out; so are the limits of the
listings of SyncNow (1000 clients, 10000 rows).

## Plan

Done: the Storage Element with its replication and its files, the two
synchronisations of the Admin Module with the requests they race with, the
download path of the Query Module, the token caches; the abstract
`FileLifecycle` and the proofs that the Storage Element implements it, alone and
replicated. Left, in this order:

1. `RegistrySync` over `FileLifecycle` instead of over a listing that moves
   freely, and a synchronisation that is answered by a follower.
2. The endpoints of the dependency monitor beside `RegistrySync`.
3. Proofs: what a transition of a replicated SE keeps once the new leader has
   loaded its mode.
