--------------------------- MODULE StorageElement ---------------------------
(***************************************************************************)
(* One or several Storage Element processes over one data directory.       *)
(*                                                                         *)
(* A file is named by its file_id; its data file and its attr.json are two *)
(* entries of the data directory.  A process n keeps an in-memory index of *)
(* the attr.json files, the running total of active bytes, the operating   *)
(* mode and a private write-ahead log.  Requests run in worker goroutines, *)
(* next to the GC and the reconciliation goroutine.  Nothing but the mutex *)
(* of the index, of the WAL and of the state machine orders them: every    *)
(* action below is one stretch of code between two accesses to state that  *)
(* another goroutine can change.                                           *)
(*                                                                         *)
(* The standalone deployment is Nodes = {n}.  Replica adds the election.   *)
(***************************************************************************)
EXTENDS StorageModes, Integers, FiniteSets

CONSTANTS
  Nodes,         \* Storage Element processes sharing the data directory
  Workers,       \* request goroutines
  Files,         \* supply of file_ids (uuid.New never repeats one)
  Descs,         \* descriptions a client may give to a file
  Home,          \* the process each worker belongs to
  Size,          \* size in bytes of each upload
  MaxFileSize,   \* SE_MAX_FILE_SIZE
  MaxCapacity,   \* SE_MAX_CAPACITY
  ConfigModes,   \* values SE_MODE may have when a process starts
  Activities,    \* bound: what the environment and the daemons do in a run
  IOErrors,      \* may a disk operation fail?
  NoMeta,        \* no metadata: file absent from the index or no attr.json
  Torn,          \* an attr.json or mode.json that does not parse
  NoFile, NoMode

Statuses == {"active", "deleted", "expired"}

FileMetadata == [status : Statuses, temporary : BOOLEAN, description : Descs]

MaybeMeta == FileMetadata \union {NoMeta}

\* What may be in an attr.json.
Contents == FileMetadata \union {Torn}

NoFiles == [f \in Files |-> NoMeta]

AllActivities == {"upload", "update", "delete", "mode", "gc", "reconcile",
                  "crash", "ttl"}

ASSUME ConstantsOK ==
  /\ IsFiniteSet(Nodes) /\ IsFiniteSet(Workers) /\ IsFiniteSet(Files)
  /\ Home \in [Workers -> Nodes]
  /\ MaxFileSize \in Nat /\ MaxCapacity \in Nat
  /\ Size \in [Files -> 0..MaxFileSize]    \* a larger one is answered 413
  /\ ConfigModes \subseteq Modes
  /\ Activities \subseteq AllActivities
  /\ IOErrors \in BOOLEAN
  /\ NoMeta \notin FileMetadata /\ Torn \notin MaybeMeta
  /\ NoFile \notin Files /\ Modes \intersect {NoMode, Torn} = {}

VARIABLES
  data,        \* data files in the data directory
  attr,        \* contents of the attr.json files
  scraps,      \* what writes that met have left in or done to attr.json.tmp
  modeFile,    \* mode.json
  wal,         \* WAL directory of each process
  up,          \* processes that are running
  mode,        \* StateMachine.current of each process, NoMode when it is down
  index,       \* Index.files
  total,       \* Index.totalActiveSize
  req,         \* the request each worker is executing
  gc,          \* the GC goroutine
  rec,         \* the reconciliation goroutine
  report,      \* the last ReconcileResponse of each process
  overdue      \* files whose expires_at has passed

\* What clients know, and what happened at the same time: nothing in the code
\* reads these.
VARIABLES
  acked,       \* uploads each process has answered 201
  doomed,      \* files a DELETE has been accepted for
  gone,        \* files whose DELETE has been answered 204
  crossed,     \* files that two operations have worked on at the same time
  raced        \* processes in which two mode transitions have overlapped

diskVars   == <<data, attr, scraps, modeFile, wal>>
clientVars == <<acked, doomed, gone, crossed, raced>>
vars == <<diskVars, up, mode, index, total, req, gc, rec, report, overdue,
          clientVars>>

-----------------------------------------------------------------------------
(* Index (storage/index)                                                   *)

\* The bytes of the files of S, as a set of (file, byte number) pairs.
Bytes(S) == {b \in S \X (1..MaxFileSize) : b[2] <= Size[b[1]]}

SizeOf(S) == Cardinality(Bytes(S))

IsActive(m) == m # NoMeta /\ m.status = "active"

ActiveFiles(files) == {f \in Files : IsActive(files[f])}

Weight(m, f) == IF IsActive(m) THEN Size[f] ELSE 0

PutIndex(n, f, m) ==
  /\ index' = [index EXCEPT ![n][f] = m]
  /\ total' = [total EXCEPT ![n] = (@ - Weight(index[n][f], f)) + Weight(m, f)]

IndexAdd(n, f, m) == PutIndex(n, f, m)

\* Mutants of IndexUpdate: the old entry stays in the total; no update at all.
IndexUpdateKeepsOldWeight(n, f, m) ==
  /\ index' = [index EXCEPT ![n][f] = m]
  /\ total' = [total EXCEPT ![n] = @ + Weight(m, f)]

IndexUpdateForgotten(n, f, m) == UNCHANGED <<index, total>>

\* Update fails on a file that is not in the index; every caller ignores it.
IndexUpdate(n, f, m) ==
  IF index[n][f] = NoMeta THEN UNCHANGED <<index, total>> ELSE PutIndex(n, f, m)

IndexRemove(n, f) == PutIndex(n, f, NoMeta)

\* ScanDir passes over an attr.json that cannot be parsed.
ScanDir == [f \in Files |-> IF attr[f] = Torn THEN NoMeta ELSE attr[f]]

\* Mutant of IndexRebuild: only active files get in.
IndexRebuildActiveOnly(n) ==
  /\ index' = [index EXCEPT ![n] =
                 [f \in Files |-> IF IsActive(ScanDir[f]) THEN ScanDir[f] ELSE NoMeta]]
  /\ total' = [total EXCEPT ![n] = SizeOf(ActiveFiles(ScanDir))]

\* BuildFromDir and RebuildFromDir scan the attr.json files under the lock.
IndexRebuild(n) ==
  /\ index' = [index EXCEPT ![n] = ScanDir]
  /\ total' = [total EXCEPT ![n] = SizeOf(ActiveFiles(ScanDir))]

-----------------------------------------------------------------------------
(* Disk (storage/filestore, storage/attr, storage/wal)                     *)

\* Where the run allows it, a write or a removal on disk may fail; reads do not.
Fails == IOErrors

\* A temporary file is renamed when it is complete; removing what is not there
\* is no error.
SaveFile(f) == data' = data \union {f}

DeleteFile(f) == data' = data \ {f}

\* attr.Write fills path.tmp and renames it to path; nothing keeps two writes of
\* one file apart, and both use the same path.tmp (AtomicFile looks inside).  A
\* write is under way from the moment its goroutine holds what it will write:
\* these are the metadata that the requests of W and the GC of N bring to f.
InHand(f, W, N) ==
  {req[w].meta : w \in {v \in W : /\ req[v].file = f
                                 /\ req[v].step \in {"attr", "patch", "del"}}}
    \union
  {gc[n].todo[f] : n \in {k \in N : gc[k].step = "mark" /\ gc[k].todo[f] # NoMeta}}

\* A write ends while those of others go on: its rename took path.tmp away from
\* them, or its clean-up did.  The last one leaves nothing behind.
TmpLeft(f, others) ==
  scraps' = [scraps EXCEPT ![f] = IF others = {} THEN {} ELSE @ \union {Torn}]

\* attr.Write ends.  Alone, it replaces the file in one step; beside others it
\* publishes whatever is in the file they share.
AttrWrite(f, m, others) ==
  /\ \E c \in {m} \union (IF others = {} /\ scraps[f] = {} THEN {}
                           ELSE {Torn} \union others \union scraps[f]) :
       attr' = [attr EXCEPT ![f] = c]
  /\ TmpLeft(f, others)

\* ... or fails: the disk does, or the text exceeds 4 KB, or path.tmp is no longer
\* there.
AttrWriteFails(f, others) ==
  /\ Fails \/ scraps[f] # {}
  /\ UNCHANGED attr
  /\ TmpLeft(f, others)

AttrDelete(f) == attr' = [attr EXCEPT ![f] = NoMeta] /\ UNCHANGED scraps

WalStatuses == {"none", "pending", "committed", "rolled_back"}

WalSet(n, f, s) == wal' = [wal EXCEPT ![n][f] = s]

StartTransaction(n, f) == WalSet(n, f, "pending")

\* Commit and Rollback only leave the state pending, and may fail to.
Commit(n, f) ==
  \/ wal[n][f] = "pending" /\ WalSet(n, f, "committed")
  \/ (wal[n][f] # "pending" \/ Fails) /\ UNCHANGED wal

Rollback(n, f) ==
  \/ wal[n][f] = "pending" /\ WalSet(n, f, "rolled_back")
  \/ (wal[n][f] # "pending" \/ Fails) /\ UNCHANGED wal

-----------------------------------------------------------------------------
(* Requests                                                                *)

SaveSteps == {"saveMode", "saveBeside"}

RequestSteps == {"idle", "save", "attr", "add", "commit", "undo",
                 "patch", "patchIndex", "del", "delIndex"} \union SaveSteps

Idle == [step |-> "idle", file |-> NoFile, meta |-> NoMeta, mode |-> NoMode]

\* Worker w of process Home[w] takes up a request, or goes on with it.
Begin(w, step, f, m) ==
  req' = [req EXCEPT ![w] = [Idle EXCEPT !.step = step, !.file = f, !.meta = m]]

Goto(w, step) == req' = [req EXCEPT ![w].step = step]

Finish(w) == req' = [req EXCEPT ![w] = Idle]

At(w, step) == up[Home[w]] /\ req[w].step = step

\* The other writes of f's attr.json that are under way beside worker w's.
BesideReq(w, f) == InHand(f, Workers \ {w}, Nodes)

\* An upload, an update, a delete or the GC is changing what is said of f.
BusyReq(w, f) ==
  /\ req[w].file = f
  /\ req[w].step \in {"attr", "add", "patch", "patchIndex", "del", "delIndex"}

BusyGc(n, f) == gc[n].step \in {"mark", "markIndex"} /\ gc[n].todo[f] # NoMeta

Busy(f) == (\E w \in Workers : BusyReq(w, f)) \/ (\E n \in Nodes : BusyGc(n, f))

Cross(S) == crossed' = crossed \union {f \in S : Busy(f)}

FreshFile(f) == \A n \in Nodes : wal[n][f] = "none"

\* Mutant of HasRoom: the size of the new file is left out.
HasRoomNow(n, f) == Size[f] > 0 => total[n] <= MaxCapacity

\* The capacity check reads the total without reserving anything; an empty
\* file passes it even when the store is full.
HasRoom(n, f) == Size[f] > 0 => total[n] + Size[f] <= MaxCapacity

\* UploadService.Upload up to StartTransaction.
UploadStart(w, f, d) ==
  LET n == Home[w] IN
  /\ "upload" \in Activities
  /\ At(w, "idle")
  /\ CanPerform(mode[n], "upload")
  /\ HasRoom(n, f)
  /\ FreshFile(f)
  /\ StartTransaction(n, f)
  /\ Begin(w, "save", f,
           [status |-> "active", temporary |-> FALSE, description |-> d])
  /\ UNCHANGED <<data, attr, scraps, modeFile, up, mode, index, total, gc, rec, report,
                 overdue, clientVars>>

\* Mutant of UploadSave: the upload goes on after SaveFile failed.
UploadSaveUnchecked(w) ==
  /\ At(w, "save")
  /\ \/ SaveFile(req[w].file)
     \/ Fails /\ UNCHANGED data
  /\ req' = [req EXCEPT ![w].step = "attr",
                        ![w].meta.temporary = (mode[Home[w]] = "edit")]
  /\ UNCHANGED <<attr, scraps, modeFile, wal, up, mode, index, total, gc, rec, report,
                 overdue, clientVars>>

\* SaveFile, then the retention policy from the mode the process is in now.
UploadSave(w) ==
  /\ At(w, "save")
  /\ \/ /\ SaveFile(req[w].file)
        /\ req' = [req EXCEPT ![w].step = "attr",
                              ![w].meta.temporary = (mode[Home[w]] = "edit")]
        /\ UNCHANGED wal
     \/ /\ Fails
        /\ Rollback(Home[w], req[w].file)
        /\ Finish(w)
        /\ UNCHANGED data
  /\ UNCHANGED <<attr, scraps, modeFile, up, mode, index, total, gc, rec, report,
                 overdue, clientVars>>

\* Mutant of UploadReject: the upload goes on after attr.Write failed.
UploadRejectUnchecked(w) ==
  /\ At(w, "attr")
  /\ Goto(w, "add")
  /\ UNCHANGED <<diskVars, up, mode, index, total, gc, rec, report, overdue,
                 clientVars>>

\* The tags do not parse, or attr.json exceeds 4 KB, or its write fails.
UploadReject(w) ==
  /\ At(w, "attr")
  /\ TmpLeft(req[w].file, BesideReq(w, req[w].file))
  /\ Goto(w, "undo")
  /\ UNCHANGED <<data, attr, modeFile, wal, up, mode, index, total, gc, rec, report, overdue,
                 clientVars>>

UploadAttr(w) ==
  /\ At(w, "attr")
  /\ AttrWrite(req[w].file, req[w].meta, BesideReq(w, req[w].file))
  /\ Goto(w, "add")
  /\ UNCHANGED <<data, modeFile, wal, up, mode, index, total, gc, rec, report,
                 overdue, clientVars>>

\* Mutant of UploadUndo: the transaction is not closed.
UploadUndoKeepsPending(w) ==
  LET f == req[w].file IN
  /\ At(w, "undo")
  /\ DeleteFile(f)
  /\ AttrDelete(f)
  /\ Finish(w)
  /\ UNCHANGED <<modeFile, wal, up, mode, index, total, gc, rec, report, overdue,
                 clientVars>>

\* The rollback closure: errors of the two deletions are dropped.
UploadUndo(w) ==
  LET f == req[w].file IN
  /\ At(w, "undo")
  /\ \/ DeleteFile(f)
     \/ Fails /\ UNCHANGED data
  /\ AttrDelete(f)
  /\ Rollback(Home[w], f)
  /\ Finish(w)
  /\ UNCHANGED <<modeFile, up, mode, index, total, gc, rec, report, overdue,
                 clientVars>>

\* Mutant of UploadIndex: the file is left for the next rebuild.
UploadIndexLater(w) ==
  /\ At(w, "add")
  /\ Goto(w, "commit")
  /\ UNCHANGED <<diskVars, up, mode, index, total, gc, rec, report, overdue,
                 clientVars>>

UploadIndex(w) ==
  /\ At(w, "add")
  /\ IndexAdd(Home[w], req[w].file, req[w].meta)
  /\ Goto(w, "commit")
  /\ UNCHANGED <<diskVars, up, mode, gc, rec, report, overdue, clientVars>>

\* The client gets its 201 whether or not the commit record was written.
UploadCommit(w) ==
  /\ At(w, "commit")
  /\ Commit(Home[w], req[w].file)
  /\ acked' = [acked EXCEPT ![Home[w]] = @ \union {req[w].file}]
  /\ Finish(w)
  /\ UNCHANGED <<data, attr, scraps, modeFile, up, mode, index, total, gc, rec, report,
                 overdue, doomed, gone, crossed, raced>>

\* UpdateFileMetadata: a copy of the index entry is taken and changed.
PatchStart(w, f, d) ==
  LET n == Home[w] IN
  /\ "update" \in Activities
  /\ At(w, "idle")
  /\ CanPerform(mode[n], "update")
  /\ IsActive(index[n][f])
  /\ Begin(w, "patch", f, [index[n][f] EXCEPT !.description = d])
  /\ Cross({f})
  /\ UNCHANGED <<diskVars, up, mode, index, total, gc, rec, report, overdue,
                 acked, doomed, gone, raced>>

\* The handler of DELETE: a soft delete, of active and of expired files.
DeleteStart(w, f) ==
  LET n == Home[w] IN
  /\ "delete" \in Activities
  /\ At(w, "idle")
  /\ CanPerform(mode[n], "delete")
  /\ index[n][f] # NoMeta
  /\ index[n][f].status # "deleted"
  /\ Begin(w, "del", f, [index[n][f] EXCEPT !.status = "deleted"])
  /\ doomed' = doomed \union {f}
  /\ Cross({f})
  /\ UNCHANGED <<diskVars, up, mode, index, total, gc, rec, report, overdue,
                 acked, gone, raced>>

\* Both handlers rewrite attr.json from their copy; on an error they give up.
WriteMeta(w) ==
  LET f == req[w].file IN
  /\ \/ /\ At(w, "patch") /\ Goto(w, "patchIndex")
        /\ AttrWrite(f, req[w].meta, BesideReq(w, f))
     \/ /\ At(w, "del") /\ Goto(w, "delIndex")
        /\ AttrWrite(f, req[w].meta, BesideReq(w, f))
     \/ /\ At(w, "patch") \/ At(w, "del")
        /\ AttrWriteFails(f, BesideReq(w, f))
        /\ Finish(w)
  /\ UNCHANGED <<data, modeFile, wal, up, mode, index, total, gc, rec, report,
                 overdue, clientVars>>

\* ... and then put the copy in the index and answer.
UpdateMeta(w) ==
  /\ At(w, "patchIndex") \/ At(w, "delIndex")
  /\ IndexUpdate(Home[w], req[w].file, req[w].meta)
  /\ gone' = IF At(w, "delIndex") THEN gone \union {req[w].file} ELSE gone
  /\ Finish(w)
  /\ UNCHANGED <<diskVars, up, mode, gc, rec, report, overdue, acked, doomed,
                 crossed, raced>>

\* The workers of n that are about to write mode.json, or are at it.
Saving(n) == {w \in Workers : Home[w] = n /\ req[w].step \in SaveSteps}

\* TransitionMode: the state machine first, mode.json afterwards.
TransitionTo(w, target, confirm) ==
  LET n == Home[w]
      others == Saving(n)
  IN
  /\ "mode" \in Activities
  /\ At(w, "idle")
  /\ TransitionAllowed(mode[n], target, confirm)
  /\ mode' = [mode EXCEPT ![n] = target]
  /\ req' = [v \in Workers |->
       CASE v = w -> [Idle EXCEPT !.step = IF others = {} THEN "saveMode" ELSE "saveBeside",
                                  !.mode = target]
         [] v \in others -> [req[v] EXCEPT !.step = "saveBeside"]
         [] OTHER -> req[v]]
  /\ raced' = IF others = {} THEN raced ELSE raced \union {n}
  /\ UNCHANGED <<diskVars, up, index, total, gc, rec, report, overdue,
                 acked, doomed, gone, crossed>>

\* SaveMode writes as attr.Write does: alone in one step; of writes that overlap
\* each may publish another's mode or no valid file, or fail.
SaveMode(w) ==
  /\ \/ At(w, "saveMode") /\ modeFile' = req[w].mode
     \/ At(w, "saveMode") /\ Fails /\ UNCHANGED modeFile
     \/ /\ At(w, "saveBeside")
        /\ modeFile' \in {modeFile, Torn} \union {req[v].mode : v \in Saving(Home[w])}
  /\ Finish(w)
  /\ UNCHANGED <<data, attr, scraps, wal, up, mode, index, total, gc, rec, report,
                 overdue, clientVars>>

-----------------------------------------------------------------------------
(* GC (service/gc).  todo holds the entries of the snapshot that are still *)
(* to be handled, cur the one in hand.                                     *)

GcIdle == [step |-> "idle", todo |-> NoFiles, cur |-> NoFile]

GcSteps == {"idle", "mark", "markIndex", "sweep", "sweepAttr", "sweepIndex"}

Todo(n) == {f \in Files : gc[n].todo[f] # NoMeta}

IsExpired(m, f) == m.temporary /\ f \in overdue

GcAt(n, step) == up[n] /\ gc[n].step = step

GcNext(n, step, f) ==
  gc' = [gc EXCEPT ![n].step = step, ![n].todo[f] = NoMeta, ![n].cur = NoFile]

GcHold(n, step, f) == gc' = [gc EXCEPT ![n].step = step, ![n].cur = f]

\* RunOnce, phase 1: markExpired lists the active files whose TTL is over.
GcMarkBegin(n) ==
  /\ "gc" \in Activities
  /\ GcAt(n, "idle")
  /\ Cross({f \in Files : IsActive(index[n][f]) /\ IsExpired(index[n][f], f)})
  /\ gc' = [gc EXCEPT ![n].step = "mark",
                      ![n].todo = [f \in Files |->
                         IF IsActive(index[n][f]) /\ IsExpired(index[n][f], f)
                         THEN [index[n][f] EXCEPT !.status = "expired"]
                         ELSE NoMeta]]
  /\ UNCHANGED <<diskVars, up, mode, index, total, req, rec, report, overdue,
                 acked, doomed, gone, raced>>

GcMarkAttr(n) ==
  /\ GcAt(n, "mark")
  /\ \E f \in Todo(n) :
       LET others == InHand(f, Workers, Nodes \ {n}) IN
       \/ AttrWrite(f, gc[n].todo[f], others) /\ GcHold(n, "markIndex", f)
       \/ AttrWriteFails(f, others) /\ GcNext(n, "mark", f)
  /\ UNCHANGED <<data, modeFile, wal, up, mode, index, total, req, rec, report,
                 overdue, clientVars>>

GcMarkIndex(n) ==
  LET f == gc[n].cur IN
  /\ GcAt(n, "markIndex")
  /\ IndexUpdate(n, f, gc[n].todo[f])
  /\ GcNext(n, "mark", f)
  /\ UNCHANGED <<diskVars, up, mode, req, rec, report, overdue, clientVars>>

\* Mutants of Sweepable: expired files too; expired files instead.
SweepableInactive(m) == m # NoMeta /\ m.status # "active"

SweepableExpired(m) == m # NoMeta /\ m.status = "expired"

Sweepable(m) == m # NoMeta /\ m.status = "deleted"

\* Phase 2: deleteFiles lists the files with status deleted, and only those.
GcSweepBegin(n) ==
  /\ GcAt(n, "mark")
  /\ Todo(n) = {}
  /\ gc' = [gc EXCEPT ![n].step = "sweep",
                      ![n].todo = [f \in Files |->
                         IF Sweepable(index[n][f]) THEN index[n][f] ELSE NoMeta]]
  /\ UNCHANGED <<diskVars, up, mode, index, total, req, rec, report, overdue,
                 clientVars>>

\* Mutant of GcSweepData: the metadata follow though the data could not be removed.
GcSweepDataUnchecked(n) ==
  /\ GcAt(n, "sweep")
  /\ \E f \in Todo(n) :
       /\ DeleteFile(f) \/ (Fails /\ UNCHANGED data)
       /\ GcHold(n, "sweepAttr", f)
  /\ UNCHANGED <<attr, scraps, modeFile, wal, up, mode, index, total, req, rec, report,
                 overdue, clientVars>>

GcSweepData(n) ==
  /\ GcAt(n, "sweep")
  /\ \E f \in Todo(n) :
       \/ DeleteFile(f) /\ GcHold(n, "sweepAttr", f)
       \/ Fails /\ GcNext(n, "sweep", f) /\ UNCHANGED data
  /\ UNCHANGED <<attr, scraps, modeFile, wal, up, mode, index, total, req, rec, report,
                 overdue, clientVars>>

\* A failed removal of attr.json is only logged.
GcSweepAttr(n) ==
  LET f == gc[n].cur IN
  /\ GcAt(n, "sweepAttr")
  /\ \/ AttrDelete(f)
     \/ Fails /\ UNCHANGED <<attr, scraps>>
  /\ GcHold(n, "sweepIndex", f)
  /\ UNCHANGED <<data, modeFile, wal, up, mode, index, total, req, rec, report,
                 overdue, clientVars>>

GcSweepIndex(n) ==
  LET f == gc[n].cur IN
  /\ GcAt(n, "sweepIndex")
  /\ IndexRemove(n, f)
  /\ GcNext(n, "sweep", f)
  /\ UNCHANGED <<diskVars, up, mode, req, rec, report, overdue, clientVars>>

GcEnd(n) ==
  /\ GcAt(n, "sweep")
  /\ Todo(n) = {}
  /\ gc' = [gc EXCEPT ![n] = GcIdle]
  /\ UNCHANGED <<diskVars, up, mode, index, total, req, rec, report, overdue,
                 clientVars>>

-----------------------------------------------------------------------------
(* Reconciliation (service/reconcile)                                      *)

\* ReadDir skips dot files; mode.json is an ordinary name to it.
DataNames == data \union (IF modeFile = NoMode THEN {} ELSE {"mode.json"})

\* Mutant of AttrNames: metadata of inactive files are skipped.
AttrNamesActive == ActiveFiles(ScanDir)

AttrNames == {f \in Files : attr[f] # NoMeta}

RecIdle == [busy |-> FALSE, dataFiles |-> {}, attrFiles |-> {}, stable |-> {}]

NoReport == [orphaned |-> {}, missing |-> {}, stable |-> {}, ok |-> 0]

Acked == UNION {acked[n] : n \in Nodes}

\* RunOnce, up to the directory listing.  stable is for the invariants only.
ReconcileBegin(n) ==
  /\ "reconcile" \in Activities
  /\ up[n] /\ ~rec[n].busy
  /\ rec' = [rec EXCEPT ![n] = [busy |-> TRUE, dataFiles |-> DataNames,
                                attrFiles |-> AttrNames, stable |-> Acked]]
  /\ UNCHANGED <<diskVars, up, mode, index, total, req, gc, report, overdue,
                 clientVars>>

\* The classification, the rebuild of the index and the summary.
ReconcileEnd(n) ==
  LET orphaned == rec[n].dataFiles \ rec[n].attrFiles
      missing  == rec[n].attrFiles \ rec[n].dataFiles
      ok       == Cardinality({f \in Files : ScanDir[f] # NoMeta})
                    - (Cardinality(orphaned) + Cardinality(missing))
  IN
  /\ up[n] /\ rec[n].busy
  /\ IndexRebuild(n)
  /\ report' = [report EXCEPT ![n] =
                  [orphaned |-> orphaned, missing |-> missing,
                   stable |-> rec[n].stable, ok |-> IF ok < 0 THEN 0 ELSE ok]]
  /\ rec' = [rec EXCEPT ![n] = RecIdle]
  /\ UNCHANGED <<diskVars, up, mode, req, gc, overdue, clientVars>>

-----------------------------------------------------------------------------
(* Process and clock                                                       *)

\* The file one write has renamed is still open in others: what they write and
\* truncate now happens to attr.json itself.
AttrOverwritten(f) ==
  /\ scraps[f] # {}
  /\ attr[f] # NoMeta
  /\ \E c \in {Torn} \union InHand(f, Workers, Nodes) :
       attr' = [attr EXCEPT ![f] = c]
  /\ UNCHANGED <<data, scraps, modeFile, wal, up, mode, index, total, req, gc, rec,
                 report, overdue, clientVars>>

\* The writes under way on n end with it.  What they have put into path.tmp may
\* still be published by a write of another process.
TmpAbandoned(n) ==
  LET mine == {w \in Workers : Home[w] = n}
      dead(f)   == InHand(f, mine, {n})
      others(f) == InHand(f, Workers \ mine, Nodes \ {n})
  IN scraps' = [f \in Files |->
       CASE others(f) = {} -> {}
         [] others(f) # {} /\ dead(f) = {} -> scraps[f]
         [] OTHER -> scraps[f] \union dead(f) \union {Torn}]

\* The process dies: its goroutines and all it kept in memory are gone.
Crash(n) ==
  /\ "crash" \in Activities
  /\ up[n]
  /\ TmpAbandoned(n)
  /\ raced' = raced \ {n}
  /\ up' = [up EXCEPT ![n] = FALSE]
  /\ mode' = [mode EXCEPT ![n] = NoMode]
  /\ index' = [index EXCEPT ![n] = NoFiles]
  /\ total' = [total EXCEPT ![n] = 0]
  /\ req' = [w \in Workers |-> IF Home[w] = n THEN Idle ELSE req[w]]
  /\ gc' = [gc EXCEPT ![n] = GcIdle]
  /\ rec' = [rec EXCEPT ![n] = RecIdle]
  /\ report' = [report EXCEPT ![n] = NoReport]
  /\ UNCHANGED <<data, attr, modeFile, wal, overdue, acked, doomed, gone, crossed>>

\* RecoverPending + Rollback: pending entries are marked, nothing else is
\* undone.  An entry whose rewrite fails stays pending.
RecoverWal(n) ==
  \E kept \in SUBSET {f \in Files : wal[n][f] = "pending"} :
    /\ kept # {} => Fails
    /\ wal' = [wal EXCEPT ![n] =
         [f \in Files |-> IF wal[n][f] = "pending" /\ f \notin kept
                          THEN "rolled_back" ELSE wal[n][f]]]

\* Mutants of InitialMode: SE_MODE wins; a missing mode.json is not noticed.
InitialModeFromConfig(m) == m

InitialModeFromFile(m) == modeFile

\* SE_MODE is m; a mode.json that can be read wins over it.
InitialMode(m) == IF modeFile \in Modes THEN modeFile ELSE m

\* main: the initial mode, WAL recovery, BuildFromDir.
Start(n) ==
  /\ ~up[n]
  /\ up' = [up EXCEPT ![n] = TRUE]
  /\ \E m \in ConfigModes : mode' = [mode EXCEPT ![n] = InitialMode(m)]
  /\ RecoverWal(n)
  /\ IndexRebuild(n)
  /\ UNCHANGED <<data, attr, scraps, modeFile, req, gc, rec, report, overdue,
                 clientVars>>

TtlPasses(f) ==
  /\ "ttl" \in Activities
  /\ f \notin overdue
  /\ attr[f] # NoMeta
  /\ attr[f] # Torn => attr[f].temporary
  /\ overdue' = overdue \union {f}
  /\ UNCHANGED <<diskVars, up, mode, index, total, req, gc, rec, report,
                 clientVars>>

-----------------------------------------------------------------------------

\* Empty volumes; no process has been started yet.
Init ==
  /\ data = {}
  /\ attr = NoFiles
  /\ scraps = [f \in Files |-> {}]
  /\ modeFile = NoMode
  /\ wal = [n \in Nodes |-> [f \in Files |-> "none"]]
  /\ up = [n \in Nodes |-> FALSE]
  /\ mode = [n \in Nodes |-> NoMode]
  /\ index = [n \in Nodes |-> NoFiles]
  /\ total = [n \in Nodes |-> 0]
  /\ req = [w \in Workers |-> Idle]
  /\ gc = [n \in Nodes |-> GcIdle]
  /\ rec = [n \in Nodes |-> RecIdle]
  /\ report = [n \in Nodes |-> NoReport]
  /\ overdue = {}
  /\ acked = [n \in Nodes |-> {}]
  /\ doomed = {}
  /\ gone = {}
  /\ crossed = {}
  /\ raced = {}

Upload(w) ==
  \/ \E f \in Files, d \in Descs : UploadStart(w, f, d)
  \/ UploadSave(w) \/ UploadReject(w) \/ UploadAttr(w) \/ UploadUndo(w)
  \/ UploadIndex(w) \/ UploadCommit(w)

Patch(w)  == \E f \in Files, d \in Descs : PatchStart(w, f, d)
Delete(w) == \E f \in Files : DeleteStart(w, f)

TransitionMode(w) ==
  \E target \in Modes, confirm \in BOOLEAN : TransitionTo(w, target, confirm)

Request(w) ==
  \/ Upload(w) \/ Patch(w) \/ Delete(w) \/ WriteMeta(w) \/ UpdateMeta(w)
  \/ TransitionMode(w) \/ SaveMode(w)

Gc(n) ==
  \/ GcMarkBegin(n) \/ GcMarkAttr(n) \/ GcMarkIndex(n)
  \/ GcSweepBegin(n) \/ GcSweepData(n) \/ GcSweepAttr(n) \/ GcSweepIndex(n)
  \/ GcEnd(n)

Reconcile(n) == ReconcileBegin(n) \/ ReconcileEnd(n)

Next ==
  \/ \E w \in Workers : Request(w)
  \/ \E n \in Nodes : Gc(n) \/ Reconcile(n) \/ Crash(n) \/ Start(n)
  \/ \E f \in Files : TtlPasses(f) \/ AttrOverwritten(f)

Spec == Init /\ [][Next]_vars

\* Scheduling: an accepted request runs on, the GC ticker keeps ticking and a
\* dead process is started again.  Clients, the clock and crashes are not fair.
Continue(w) ==
  \/ UploadSave(w) \/ UploadReject(w) \/ UploadAttr(w) \/ UploadUndo(w)
  \/ UploadIndex(w) \/ UploadCommit(w)
  \/ WriteMeta(w) \/ UpdateMeta(w) \/ SaveMode(w)

Fairness ==
  /\ \A w \in Workers : WF_vars(Continue(w))
  /\ \A n \in Nodes : WF_vars(Gc(n)) /\ WF_vars(Start(n))

FairSpec == Spec /\ Fairness

-----------------------------------------------------------------------------
(* Properties                                                              *)

UploadSteps == {"save", "attr", "add", "commit", "undo"}

Request_ == [step : RequestSteps, file : Files \union {NoFile},
             meta : MaybeMeta, mode : Modes \union {NoMode}]

GcState == [step : GcSteps, todo : [Files -> MaybeMeta],
            cur : Files \union {NoFile}]

RecState == [busy : BOOLEAN, dataFiles : SUBSET (Files \union {"mode.json"}),
             attrFiles : SUBSET Files, stable : SUBSET Files]

Report == [orphaned : SUBSET (Files \union {"mode.json"}),
           missing : SUBSET Files, stable : SUBSET Files, ok : Int]

\* Every variable holds a value of its kind.
TypeOK ==
  /\ data \in SUBSET Files
  /\ attr \in [Files -> Contents \union {NoMeta}]
  /\ scraps \in [Files -> SUBSET Contents]
  /\ modeFile \in Modes \union {NoMode, Torn}
  /\ wal \in [Nodes -> [Files -> WalStatuses]]
  /\ up \in [Nodes -> BOOLEAN]
  /\ mode \in [Nodes -> Modes \union {NoMode}]
  /\ \A n \in Nodes : up[n] => mode[n] \in Modes
  /\ index \in [Nodes -> [Files -> MaybeMeta]]
  /\ total \in [Nodes -> Int]
  /\ req \in [Workers -> Request_]
  /\ gc \in [Nodes -> GcState]
  /\ rec \in [Nodes -> RecState]
  /\ report \in [Nodes -> Report]
  /\ overdue \in SUBSET Files
  /\ acked \in [Nodes -> SUBSET Files]
  /\ doomed \in SUBSET Files
  /\ gone \in SUBSET Files
  /\ crossed \in SUBSET Files
  /\ raced \in SUBSET Nodes

\* An upload answered 201 stays on disk, data and attr.json, through crashes,
\* restarts, GC passes, reconciliations and every other request, until a
\* DELETE of that file is accepted, and nothing marks it deleted before; only
\* operations on this very file that overlap can spoil the text of its attr.json
\* (Upload, rollback, attr.Write, markExpired, deleteFiles).
AckedOnDisk ==
  \A n \in Nodes : \A f \in acked[n] \ doomed :
    /\ f \in data
    /\ attr[f] # NoMeta
    /\ IF attr[f] = Torn THEN f \in crossed ELSE attr[f].status # "deleted"

\* DownloadService.Serve: the answer to GET /files/{id}/download.
DownloadStatus(n, f) ==
  CASE ~CanPerform(mode[n], "download") -> 409
    [] index[n][f] = NoMeta             -> 404
    [] ~IsActive(index[n][f])           -> 409
    [] f \notin data                    -> 404
    [] OTHER                            -> 200

\* A process that answered 201 for a file never answers 404 for it while it is
\* up, also after it was restarted or its index rebuilt, unless a DELETE of the
\* file was accepted, or operations on this very file have overlapped, whose
\* attr.json a rebuild may pass over (BuildFromDir, Add, Update, Remove, Serve).
AckedServed ==
  \A n \in Nodes : \A f \in acked[n] \ doomed :
    up[n] /\ DownloadStatus(n, f) = 404 => f \in crossed

\* Metadata never precede or outlive the data they describe, except for files
\* under deletion: SaveFile comes before attr.Write, and the rollback and GC
\* remove the data only of what was never indexed or was deleted.
AttrHasData ==
  \A f \in Files \ doomed : attr[f] # NoMeta => f \in data

\* totalActiveSize, which is only ever adjusted by differences, is the size
\* of the active files of the index (Add, Update, Remove, BuildFromDir).
TotalIsSum ==
  \A n \in Nodes : total[n] = SizeOf(ActiveFiles(index[n]))

\* The capacity check is racy, but the overshoot is bounded: one file for
\* every other upload in flight (Upload, step 2.1).
CapacityBound ==
  \A n \in Nodes :
    total[n] <= MaxCapacity + (Cardinality(Workers) - 1) * MaxFileSize

\* On a process whose disk does not fail, a WAL entry is pending exactly while
\* an upload works under it, and committed only for an upload that was
\* answered 201 (StartTransaction, Commit, Rollback, WAL recovery in main).
WalTracksUploads ==
  ~IOErrors =>
    \A n \in Nodes : \A f \in Files :
      /\ up[n] => (wal[n][f] = "pending" <=>
                     \E w \in Workers : /\ Home[w] = n
                                        /\ req[w].file = f
                                        /\ req[w].step \in UploadSteps)
      /\ wal[n][f] = "committed" => f \in acked[n]

\* Reconciliation raises no false alarm: a file that was acknowledged before
\* the directory was listed, and not deleted since, is in no issue (reconcile).
NoFalseAlarm ==
  \A n \in Nodes :
    (report[n].orphaned \union report[n].missing)
      \intersect (report[n].stable \ doomed) = {}

\* No request is about f and no GC pass has it in hand.
Quiet(f) ==
  /\ \A w \in Workers : req[w].file # f
  /\ \A n \in Nodes : gc[n].todo[f] = NoMeta

\* While nothing is under way for a file, a running process has of it what its
\* attr.json says, however many requests, GC passes, rebuilds and crashes went
\* before: each writes the disk and then its copy into the index.  Two cases are
\* left out: operations on this file that overlapped, and an attr.json that the
\* GC could not remove after the data (WriteMeta, UpdateMeta, markExpired,
\* deleteFiles, BuildFromDir).
IndexMirrorsAttr ==
  \A n \in Nodes : \A f \in Files \ crossed :
    up[n] /\ Quiet(f) /\ (IOErrors => f \in data) => index[n][f] = attr[f]

\* When no transition is under way, mode.json, once it is there and valid, holds
\* the mode the process works in, so that a restart resumes in it, unless two
\* transitions of this process have overlapped: they may save in the other
\* order, or into each other's file (TransitionMode, SaveMode).
ModePersisted ==
  \A n \in Nodes :
    up[n] /\ Saving(n) = {} /\ n \notin raced =>
      (modeFile \in Modes => modeFile = mode[n])

\* mode.json only ever moves along the transition matrix, through restarts in
\* the middle of a transition as well, unless two transitions have overlapped: an
\* archive stays an archive whatever SE_MODE says (TransitionMode, SaveMode, main).
ModePath ==
  [][\/ modeFile \notin Modes
     \/ <<modeFile, modeFile'>> \in validTransitions
     \/ raced # {}]_modeFile

Collected(f) == f \notin data /\ attr[f] = NoMeta

AllUp == \A n \in Nodes : up[n]

\* A file whose DELETE was answered 204 is physically removed by the GC,
\* provided the process does not crash for ever.
DeletedCollected ==
  <>[]AllUp => \A f \in Files : (f \in gone) ~> Collected(f)

\* What the code does of that: it removes the file for good if the DELETE met no
\* other operation on it, through snapshots, rebuilds and restarts (DeleteFile,
\* deleteFiles).
CleanDeleteCollected ==
  <>[]AllUp => \A f \in Files : (f \in gone \ crossed) ~> Collected(f)

InTransit(f) == \E w \in Workers : req[w].file = f /\ req[w].step \in UploadSteps

\* How far a file has come, by what is on disk and what was accepted.
StageOf(f) ==
  CASE f \in doomed -> IF f \in data THEN "doomed" ELSE "gone"
    [] f \notin doomed /\ attr[f] # NoMeta -> "kept"
    [] OTHER -> IF InTransit(f) THEN "coming" ELSE IF FreshFile(f) THEN "new" ELSE "lost"

Lifecycle == INSTANCE FileLifecycle WITH
  stage    <- [f \in Files |-> StageOf(f)],
  known    <- [n \in Nodes |-> {f \in Files : index[n][f] # NoMeta}],
  serving  <- {n \in Nodes : up[n]},
  promised <- acked,
  muddled  <- crossed

\* Whatever requests, GC, reconciliation, crashes and disk errors do, each file
\* goes through the one life of FileLifecycle: what was kept is given up only by
\* the GC after a DELETE, what was rolled back or removed never comes back, and
\* a running process forgets nothing that is there (Upload and its rollback,
\* deleteFiles, BuildFromDir, Add, Remove).
IsFileLifecycle == Lifecycle!Spec

=============================================================================
