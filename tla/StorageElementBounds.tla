------------------------ MODULE StorageElementBounds ------------------------
(***************************************************************************)
(* More proofs about StorageElement, on top of its durability: the verdict *)
(* of reconciliation, the write-ahead log, the capacity limit, the life of *)
(* a file; and for an element served by one process, the mode it keeps on  *)
(* disk and the mirror its index is, with any number of requests at once.  *)
(***************************************************************************)
EXTENDS StorageElementProofs

-----------------------------------------------------------------------------
(* Reconciliation.  What was acknowledged when the directory was listed is *)
(* in both halves of the listing, and whatever happens while it is being   *)
(* classified, the listing is what is classified.                          *)

ListedOnce(n) ==
  rec[n].busy =>
    rec[n].stable \ doomed \subseteq rec[n].dataFiles \intersect rec[n].attrFiles

Cleared(n) ==
  (report[n].orphaned \union report[n].missing)
    \intersect (report[n].stable \ doomed) = {}

ReportInv == \A n \in Nodes : ListedOnce(n) /\ Cleared(n)

\* A DELETE that was accepted stays accepted.
LEMMA DoomedGrows ==
  ASSUME [Next]_vars
  PROVE  doomed \subseteq doomed'
<1>1. ASSUME NEW w \in Workers, Request(w) PROVE doomed \subseteq doomed'
  BY <1>1 DEF Request, Upload, Patch, Delete, TransitionMode, UploadStart, UploadSave,
     UploadReject, UploadAttr, UploadUndo, UploadIndex, UploadCommit, PatchStart,
     DeleteStart, WriteMeta, UpdateMeta, TransitionTo, SaveMode, clientVars
<1>2. ASSUME NEW n \in Nodes, Gc(n) PROVE doomed \subseteq doomed'
  BY <1>2 DEF Gc, GcMarkBegin, GcMarkAttr, GcMarkIndex, GcSweepBegin, GcSweepData,
     GcSweepAttr, GcSweepIndex, GcEnd, clientVars
<1> QED
  BY <1>1, <1>2 DEF Next, Reconcile, ReconcileBegin, ReconcileEnd, Crash, Start,
     TtlPasses, AttrOverwritten, clientVars, vars

\* Nothing but reconciliation and the end of the process touches its state.
LEMMA ReportFrame ==
  ASSUME [Next]_vars,
         ~\E n \in Nodes : ReconcileBegin(n) \/ ReconcileEnd(n) \/ Crash(n)
  PROVE  UNCHANGED <<rec, report>>
<1>1. ASSUME NEW w \in Workers, Request(w) PROVE UNCHANGED <<rec, report>>
  BY <1>1 DEF Request, Upload, Patch, Delete, TransitionMode, UploadStart, UploadSave,
     UploadReject, UploadAttr, UploadUndo, UploadIndex, UploadCommit, PatchStart,
     DeleteStart, WriteMeta, UpdateMeta, TransitionTo, SaveMode
<1>2. ASSUME NEW n \in Nodes, Gc(n) PROVE UNCHANGED <<rec, report>>
  BY <1>2 DEF Gc, GcMarkBegin, GcMarkAttr, GcMarkIndex, GcSweepBegin, GcSweepData,
     GcSweepAttr, GcSweepIndex, GcEnd
<1> QED
  BY <1>1, <1>2 DEF Next, Reconcile, Start, TtlPasses, AttrOverwritten, vars

LEMMA ReportStep == TypeInv /\ DurInv /\ ReportInv /\ [Next]_vars => ReportInv'
<1> SUFFICES ASSUME TypeInv, DurInv, ReportInv, [Next]_vars,
                    NEW k \in Nodes
             PROVE  ListedOnce(k)' /\ Cleared(k)'
  BY DEF ReportInv
<1>0. /\ ListedOnce(k) /\ Cleared(k) /\ doomed \subseteq doomed'
      /\ rec \in [Nodes -> RecState] /\ report \in [Nodes -> Report]
  BY DoomedGrows DEF ReportInv, TypeInv, RecType
<1>1. CASE UNCHANGED <<rec[k], report[k]>>
  BY <1>0, <1>1 DEF ListedOnce, Cleared
<1>2. ASSUME NEW n \in Nodes, ReconcileBegin(n), k = n
      PROVE  ListedOnce(k)' /\ Cleared(k)'
  <2>1. Acked \ doomed \subseteq DataNames \intersect AttrNames
    <3>1. \A f \in Acked \ doomed : f \in data /\ f \in Files /\ attr[f] # NoMeta
      BY DurableMeans DEF AckedOnDisk, Acked, TypeInv, ClientType
    <3> QED
      BY <3>1 DEF DataNames, AttrNames
  <2>2. /\ rec'[k] = [busy |-> TRUE, dataFiles |-> DataNames,
                      attrFiles |-> AttrNames, stable |-> Acked]
        /\ UNCHANGED <<doomed, report>>
    BY <1>0, <1>2 DEF ReconcileBegin, clientVars
  <2> QED
    BY <1>0, <2>1, <2>2 DEF ListedOnce, Cleared
<1>3. ASSUME NEW n \in Nodes, ReconcileEnd(n), k = n
      PROVE  ListedOnce(k)' /\ Cleared(k)'
  <2>1. /\ rec'[k] = RecIdle
        /\ report'[k].orphaned = rec[k].dataFiles \ rec[k].attrFiles
        /\ report'[k].missing = rec[k].attrFiles \ rec[k].dataFiles
        /\ report'[k].stable = rec[k].stable
        /\ rec[k].busy
    BY <1>0, <1>3 DEF ReconcileEnd
  <2> QED
    BY <1>0, <2>1 DEF ListedOnce, Cleared, RecIdle
<1>4. ASSUME NEW n \in Nodes, Crash(n), k = n
      PROVE  ListedOnce(k)' /\ Cleared(k)'
  BY <1>0, <1>4 DEF Crash, ListedOnce, Cleared, RecIdle, NoReport
<1>5. ASSUME NEW n \in Nodes, ReconcileBegin(n) \/ ReconcileEnd(n) \/ Crash(n), k # n
      PROVE  UNCHANGED <<rec[k], report[k]>>
  BY <1>0, <1>5 DEF ReconcileBegin, ReconcileEnd, Crash
<1> QED
  BY <1>1, <1>2, <1>3, <1>4, <1>5, ReportFrame

\* Reconciliation, on any of the processes that share the directory, never
\* calls a file orphaned or missing that had been acknowledged before the
\* directory was listed and has not been deleted since (reconcile.go).
THEOREM ReportsAreFair == Spec => []NoFalseAlarm
<1>1. Init => ReportInv
  BY DEF Init, ReportInv, ListedOnce, Cleared, RecIdle, NoReport
<1>2. (TypeInv /\ DurInv /\ ReportInv) /\ [Next]_vars => (TypeInv /\ DurInv /\ ReportInv)'
  BY NextType, NextDur, ReportStep
<1>3. ReportInv => NoFalseAlarm
  BY DEF ReportInv, Cleared, NoFalseAlarm
<1> QED
  BY <1>1, <1>2, <1>3, InitType, InitDur, PTL DEF Spec

-----------------------------------------------------------------------------
(* The write-ahead log.  A process that is down has no requests; one that  *)
(* is up has a pending entry for every upload under way and for no other.  *)

DownIdle == \A w \in Workers : ~up[Home[w]] => req[w].step = "idle"

Underway(n, f) == \E w \in Workers : Home[w] = n /\ Uploading(w, f)

Tracked(n, f) ==
  /\ up[n] => (wal[n][f] = "pending" <=> Underway(n, f))
  /\ wal[n][f] = "committed" => f \in acked[n]

WalInv == DownIdle /\ \A n \in Nodes : \A f \in Files : Tracked(n, f)

\* Requests are taken up and carried on by processes that are up.
LEMMA RequestUp ==
  ASSUME TypeInv, NEW w \in Workers, Request(w)
  PROVE  /\ up[Home[w]] /\ UNCHANGED up
         /\ \A v \in Workers \ {w} : req[v].step = "idle" => req'[v].step = "idle"
<1>1. CASE TransitionMode(w)
  BY <1>1, TransitionReq DEF TransitionMode, TransitionTo, At, TypeInv, Saving, SaveSteps
<1>2. CASE ~TransitionMode(w)
  BY <1>2 DEF TypeInv, ReqType, Request, Upload, Patch, Delete, At, Begin,
     Goto, Finish, UploadStart, UploadSave, UploadReject, UploadAttr, UploadUndo,
     UploadIndex, UploadCommit, PatchStart, DeleteStart, WriteMeta, UpdateMeta, SaveMode
<1> QED BY <1>1, <1>2

LEMMA DownStep == TypeInv /\ DownIdle /\ [Next]_vars => DownIdle'
<1> SUFFICES ASSUME TypeInv, DownIdle, [Next]_vars PROVE DownIdle'
  OBVIOUS
<1>1. ASSUME NEW w \in Workers, Request(w) PROVE DownIdle'
  BY <1>1, RequestUp DEF DownIdle
<1>2. ASSUME NEW n \in Nodes, Gc(n) PROVE DownIdle'
  BY <1>2 DEF DownIdle, Gc, GcMarkBegin, GcMarkAttr, GcMarkIndex, GcSweepBegin,
     GcSweepData, GcSweepAttr, GcSweepIndex, GcEnd
<1>3. ASSUME NEW n \in Nodes, Crash(n) \/ Start(n) PROVE DownIdle'
  BY <1>3, ConstantsOK DEF DownIdle, Crash, Start, Idle, TypeInv, ProcType
<1> QED
  BY <1>1, <1>2, <1>3 DEF Next, Reconcile, ReconcileBegin, ReconcileEnd, TtlPasses,
     AttrOverwritten, vars, DownIdle

\* A mode transition is no upload's step.
LEMMA TransitionUploads ==
  ASSUME TypeInv, NEW w \in Workers, NEW target \in Modes, NEW confirm \in BOOLEAN,
         TransitionTo(w, target, confirm)
  PROVE  \A v \in Workers : \A f \in Files : Uploading(v, f)' <=> Uploading(v, f)
BY TransitionReq DEF TypeInv, Uploading, UploadSteps, Saving, SaveSteps

\* A step of a request that neither begins nor ends an upload, and a step that
\* is no request's, leave the log alone.
LEMMA TrackedFrame ==
  ASSUME WalInv, UNCHANGED <<wal, up, acked>>,
         \A w \in Workers : \A f \in Files : Uploading(w, f)' <=> Uploading(w, f)
  PROVE  \A n \in Nodes : \A f \in Files : Tracked(n, f)'
BY DEF WalInv, Tracked, Underway

LEMMA WalStep ==
  ASSUME ~IOErrors
  PROVE  TypeInv /\ DurInv /\ WalInv /\ [Next]_vars => WalInv'
<1> SUFFICES ASSUME TypeInv, DurInv, WalInv, [Next]_vars
             PROVE  \A n \in Nodes : \A f \in Files : Tracked(n, f)'
  BY DownStep DEF WalInv
<1>0. /\ wal \in [Nodes -> [Files -> WalStatuses]]
      /\ req \in [Workers -> Request_]
      /\ acked \in [Nodes -> SUBSET Files]
      /\ up \in [Nodes -> BOOLEAN]
      /\ ~Fails
  BY DEF TypeInv, DiskType, ReqType, ClientType, ProcType, Fails
<1>1. ASSUME NEW w \in Workers, NEW g \in Files, NEW d \in Descs, UploadStart(w, g, d)
      PROVE  \A n \in Nodes : \A f \in Files : Tracked(n, f)'
  <2>1. /\ wal' = [wal EXCEPT ![Home[w]][g] = "pending"]
        /\ Uploading(w, g)' /\ req[w].step = "idle"
        /\ \A f \in Files : Uploading(w, f)' => f = g
        /\ UNCHANGED <<up, acked>> /\ Home[w] \in Nodes
    BY <1>0, <1>1, ConstantsOK DEF UploadStart, StartTransaction, WalSet, Begin, At,
       Uploading, UploadSteps, Idle, clientVars
  <2>2. \A v \in Workers \ {w} : \A f \in Files : Uploading(v, f)' <=> Uploading(v, f)
    BY <1>0, <1>1 DEF UploadStart, Begin, Uploading
  <2>3. \A f \in Files : ~Uploading(w, f)
    BY <2>1 DEF Uploading, UploadSteps
  <2>4. Underway(Home[w], g)' /\ wal'[Home[w]][g] = "pending"
    BY <1>0, <2>1 DEF Underway
  <2>5. ASSUME NEW k \in Nodes, NEW f \in Files, f # g \/ k # Home[w]
        PROVE  (Underway(k, f)' <=> Underway(k, f)) /\ wal'[k][f] = wal[k][f]
    BY <1>0, <2>1, <2>2, <2>3, <2>5 DEF Underway
  <2> QED
    BY <2>1, <2>4, <2>5 DEF WalInv, Tracked
<1>2. ASSUME NEW w \in Workers, UploadCommit(w) \/ UploadUndo(w)
      PROVE  \A n \in Nodes : \A f \in Files : Tracked(n, f)'
  <2> DEFINE n == Home[w]
  <2>0. PICK g \in Files : g = req[w].file
    BY <1>2 DEF UploadCommit, UploadUndo, At, TypeInv, ReqType, ReqInHand, SaveSteps
  <2>1. /\ Uploading(w, g) /\ n \in Nodes /\ up[n] /\ UNCHANGED up
        /\ \A f \in Files : f # g => ~Uploading(w, f)
        /\ \A f \in Files : ~Uploading(w, f)'
    BY <1>0, <1>2, <2>0, ConstantsOK DEF UploadCommit, UploadUndo, At, Finish, Idle,
       Uploading, UploadSteps
  <2>2. \A v \in Workers \ {w} : \A f \in Files : Uploading(v, f)' <=> Uploading(v, f)
    BY <1>0, <1>2 DEF UploadCommit, UploadUndo, Finish, Uploading
  <2>3. \A v \in Workers : Uploading(v, g) => v = w
    BY <2>1 DEF DurInv, DurParts, OneUploader
  <2>4. wal[n][g] = "pending"
    BY <2>1 DEF WalInv, Tracked, Underway
  <2>5. /\ \/ wal' = [wal EXCEPT ![n][g] = "rolled_back"]
           \/ wal' = [wal EXCEPT ![n][g] = "committed"] /\ g \in acked'[n]
        /\ \A k \in Nodes : acked[k] \subseteq acked'[k]
    BY <1>0, <1>2, <2>0, <2>1, <2>4 DEF UploadCommit, UploadUndo, Commit, Rollback,
       WalSet, clientVars
  <2>6. ~Underway(n, g)'
    BY <2>1, <2>2, <2>3 DEF Underway
  <2>7. ASSUME NEW k \in Nodes, NEW f \in Files, f # g \/ k # n
        PROVE  (Underway(k, f)' <=> Underway(k, f)) /\ wal'[k][f] = wal[k][f]
    BY <1>0, <2>1, <2>2, <2>5, <2>7 DEF Underway
  <2>8. /\ wal'[n][g] # "pending"
        /\ wal'[n][g] = "committed" => g \in acked'[n]
    BY <1>0, <2>1, <2>5
  <2> QED
    BY <2>1, <2>5, <2>6, <2>7, <2>8 DEF WalInv, Tracked
<1>3. ASSUME NEW w \in Workers,
             \/ UploadSave(w) \/ UploadReject(w) \/ UploadAttr(w) \/ UploadIndex(w)
      PROVE  \A n \in Nodes : \A f \in Files : Tracked(n, f)'
  <2>0. /\ {req[w].step, req'[w].step} \subseteq UploadSteps
        /\ req'[w].file = req[w].file
        /\ \A v \in Workers \ {w} : req'[v] = req[v]
    BY <1>0, <1>3 DEF UploadSave, UploadReject, UploadAttr, UploadIndex, At, Goto,
       UploadSteps, Request_
  <2>1. \A v \in Workers : \A f \in Files : Uploading(v, f)' <=> Uploading(v, f)
    BY <2>0 DEF Uploading
  <2> QED
    BY <1>0, <1>3, <2>1, TrackedFrame DEF UploadSave, UploadReject, UploadAttr,
       UploadIndex, diskVars, clientVars
<1>4. ASSUME NEW w \in Workers,
             \/ Patch(w) \/ Delete(w) \/ WriteMeta(w) \/ UpdateMeta(w) \/ SaveMode(w)
      PROVE  \A n \in Nodes : \A f \in Files : Tracked(n, f)'
  <2>0. /\ req[w].step \notin UploadSteps /\ req'[w].step \notin UploadSteps
        /\ \A v \in Workers \ {w} : req'[v] = req[v]
    <3>1. CASE Patch(w)
      BY <1>0, <3>1, IdleType DEF Patch, PatchStart, At, Begin, UploadSteps, Request_
    <3>2. CASE Delete(w)
      BY <1>0, <3>2, IdleType DEF Delete, DeleteStart, At, Begin, UploadSteps, Request_
    <3>3. CASE WriteMeta(w)
      BY <1>0, <3>3 DEF WriteMeta, At, Goto, Finish, Idle, UploadSteps, Request_
    <3>4. CASE UpdateMeta(w) \/ SaveMode(w)
      BY <1>0, <3>4 DEF UpdateMeta, SaveMode, At, Finish, Idle, UploadSteps
    <3> QED
      BY <1>4, <3>1, <3>2, <3>3, <3>4
  <2>1. \A v \in Workers : \A f \in Files : Uploading(v, f)' <=> Uploading(v, f)
    BY <2>0 DEF Uploading
  <2> QED
    BY <1>4, <2>1, TrackedFrame DEF Patch, Delete, PatchStart, DeleteStart,
       WriteMeta, UpdateMeta, SaveMode, diskVars, clientVars
<1>9. ASSUME NEW w \in Workers, TransitionMode(w)
      PROVE  \A n \in Nodes : \A f \in Files : Tracked(n, f)'
  BY <1>9, TransitionUploads, TrackedFrame DEF TransitionMode, TransitionTo, diskVars
<1>5. ASSUME NEW n \in Nodes, Gc(n) \/ Reconcile(n)
      PROVE  \A k \in Nodes : \A f \in Files : Tracked(k, f)'
  <2>1. UNCHANGED <<wal, up, req, acked>>
    BY <1>5 DEF Gc, Reconcile, GcMarkBegin, GcMarkAttr, GcMarkIndex, GcSweepBegin,
       GcSweepData, GcSweepAttr, GcSweepIndex, GcEnd, ReconcileBegin, ReconcileEnd,
       diskVars, clientVars
  <2> QED
    BY <2>1, TrackedFrame DEF Uploading
<1>6. ASSUME NEW n \in Nodes, Crash(n)
      PROVE  \A k \in Nodes : \A f \in Files : Tracked(k, f)'
  <2>1. /\ UNCHANGED <<wal, acked>> /\ ~up'[n]
        /\ \A k \in Nodes \ {n} : up'[k] = up[k]
        /\ \A w \in Workers : Home[w] # n => req'[w] = req[w]
    BY <1>0, <1>6 DEF Crash, diskVars, clientVars
  <2> QED
    BY <2>1 DEF WalInv, Tracked, Underway, Uploading
<1>7. ASSUME NEW n \in Nodes, Start(n)
      PROVE  \A k \in Nodes : \A f \in Files : Tracked(k, f)'
  <2>1. /\ UNCHANGED <<req, acked>> /\ ~up[n]
        /\ \A k \in Nodes \ {n} : up'[k] = up[k] /\ wal'[k] = wal[k]
        /\ \A f \in Files : /\ wal'[n][f] # "pending"
                            /\ wal'[n][f] = "committed" => wal[n][f] = "committed"
    BY <1>0, <1>7 DEF Start, RecoverWal, clientVars
  <2>2. \A f \in Files : ~Underway(n, f)
    BY <2>1 DEF WalInv, DownIdle, Underway, Uploading, UploadSteps
  <2> QED
    BY <2>1, <2>2 DEF WalInv, Tracked, Underway, Uploading
<1>8. ASSUME (\E f \in Files : TtlPasses(f) \/ AttrOverwritten(f)) \/ UNCHANGED vars
      PROVE  \A k \in Nodes : \A f \in Files : Tracked(k, f)'
  BY <1>8, TrackedFrame DEF TtlPasses, AttrOverwritten, vars, diskVars, clientVars, Uploading
<1> QED
  BY <1>1, <1>2, <1>3, <1>4, <1>5, <1>6, <1>7, <1>8, <1>9 DEF Next, Request, Upload

\* While the disk does not fail, the log of a running process is pending for
\* exactly the uploads under way, so that recovery after a crash rolls back those
\* and no other, and a committed entry is an upload that was answered (wal.go).
THEOREM WalIsExact == Spec => []WalTracksUploads
<1>1. CASE IOErrors
  <2>1. WalTracksUploads
    BY <1>1 DEF WalTracksUploads
  <2> QED
    BY <2>1, PTL
<1>2. CASE ~IOErrors
  <2>1. Init => WalInv
    BY DEF Init, WalInv, DownIdle, Tracked, Underway, Uploading, UploadSteps, Idle
  <2>2. (TypeInv /\ DurInv /\ WalInv) /\ [Next]_vars => (TypeInv /\ DurInv /\ WalInv)'
    BY <1>2, NextType, NextDur, WalStep
  <2>3. WalInv => WalTracksUploads
    BY DEF WalInv, Tracked, Underway, Uploading, WalTracksUploads
  <2> QED
    BY <2>1, <2>2, <2>3, InitType, InitDur, PTL DEF Spec
<1> QED
  BY <1>1, <1>2

-----------------------------------------------------------------------------
(* The capacity limit, for one process that serves uploads.  Claimed are   *)
(* the files that count now, would count after a rebuild of the index, or  *)
(* are on their way: the check at the start of an upload bounds them all,  *)
(* although it sees only the first.                                        *)

Uploaders == {w \in Workers : req[w].step \in UploadSteps}

InFlight == {req[w].file : w \in Uploaders}

Claimed(n) == ActiveFiles(index[n]) \union ActiveFiles(attr) \union InFlight

Allowance == (Cardinality(Workers) - 1) * MaxFileSize

UploadsOnly == Activities \intersect {"update", "delete", "gc"} = {}

OneProcess == \A m, n \in Nodes : m = n

\* Nothing but uploads and mode changes is under way; metadata on their way are
\* those of an active file, and are where the upload has put them so far.
Plain ==
  /\ \A w \in Workers :
       /\ req[w].step \in UploadSteps \union {"idle"} \union SaveSteps
       /\ req[w].step \in UploadSteps => req[w].meta.status = "active"
       /\ req[w].step \in {"add", "commit"} => IsActive(attr[req[w].file])
       /\ req[w].step = "commit" => IsActive(index[Home[w]][req[w].file])
  /\ \A n \in Nodes : gc[n].step = "idle"
  /\ crossed = {}

\* So no two writes of an attr.json meet.
LEMMA NothingTorn ==
  ASSUME TypeInv, DurInv, Plain
  PROVE  \A f \in Files : attr[f] \in MaybeMeta /\ scraps[f] = {} /\ ScanDir[f] = attr[f]
BY DEF TypeInv, DiskType, DurInv, DurParts, Clean, Plain, MaybeMeta, Contents, ScanDir

\* What a rebuild would add to the index is still on its way.
Stray(n) ==
  up[n] => ActiveFiles(attr) \ ActiveFiles(index[n]) \subseteq InFlight

Room(n) == SizeOf(Claimed(n)) <= MaxCapacity + Allowance

CapInv == DownIdle /\ Plain /\ \A n \in Nodes : Stray(n) /\ Room(n)

LEMMA SizeOfMonotone ==
  ASSUME NEW S \in SUBSET Files, NEW T \in SUBSET S
  PROVE  SizeOf(T) <= SizeOf(S)
<1>1. Bytes(T) \subseteq Bytes(S)
  BY DEF Bytes
<1> QED
  BY <1>1, BytesFinite, FS_Subset DEF SizeOf

LEMMA SizeOfUnion ==
  ASSUME NEW S \in SUBSET Files, NEW T \in SUBSET Files
  PROVE  SizeOf(S \union T) <= SizeOf(S) + SizeOf(T)
<1>1. Bytes(S \union T) = Bytes(S) \union Bytes(T)
  BY DEF Bytes
<1>2. IsFiniteSet(Bytes(S)) /\ IsFiniteSet(Bytes(T))
  BY BytesFinite
<1> DEFINE I == Bytes(S) \intersect Bytes(T)
<1>3. Cardinality(I) \in Nat
  BY <1>2, FS_Subset, FS_CardinalityType
<1>4. Cardinality(Bytes(S) \union Bytes(T)) =
        Cardinality(Bytes(S)) + Cardinality(Bytes(T)) - Cardinality(I)
  BY <1>2, FS_Union
<1>5. Cardinality(Bytes(S)) \in Nat /\ Cardinality(Bytes(T)) \in Nat
  BY <1>2, FS_CardinalityType
<1>6. SizeOf(S \union T) = SizeOf(S) + SizeOf(T) - Cardinality(I)
  BY <1>1, <1>4 DEF SizeOf
<1>7. SizeOf(S) \in Nat /\ SizeOf(T) \in Nat
  BY <1>5 DEF SizeOf
<1> HIDE DEF I
<1> QED
  BY <1>3, <1>6, <1>7

\* So many requests hold at most so many times the largest file.
LEMMA SizeOfHeld ==
  ASSUME NEW V \in SUBSET Workers, NEW h \in [V -> Files]
  PROVE  SizeOf({h[v] : v \in V}) <= Cardinality(V) * MaxFileSize
<1> DEFINE B == 1..MaxFileSize
           P == V \X B
           S == {h[v] : v \in V}
           g == [p \in P |-> <<h[p[1]], p[2]>>]
           T == {g[p] : p \in P}
<1>1. MaxFileSize \in Nat /\ IsFiniteSet(V) /\ IsFiniteSet(B)
  BY ConstantsOK, FS_Subset, FS_Interval
<1>2. Cardinality(B) = MaxFileSize
  <2>1. ASSUME NEW k \in Nat PROVE Cardinality(1..k) = k
    BY FS_Interval
  <2> QED
    BY <1>1, <2>1
<1>3. IsFiniteSet(P) /\ Cardinality(P) = Cardinality(V) * Cardinality(B)
  BY <1>1, FS_Product
<1>4. IsFiniteSet(T) /\ Cardinality(T) <= Cardinality(P)
  <2>1. g \in [P -> T] /\ \A t \in T : \E p \in P : g[p] = t
    OBVIOUS
  <2> HIDE DEF P, g, T
  <2>2. g \in Surjection(P, T)
    BY <2>1, Fun_IsSurj
  <2> QED
    BY <1>3, <2>2, FS_Surjection
<1>5. Bytes(S) \subseteq T
  <2> SUFFICES ASSUME NEW b \in Bytes(S) PROVE b \in T
    OBVIOUS
  <2>1. b = <<b[1], b[2]>> /\ b[1] \in S /\ b[2] \in B
    BY DEF Bytes
  <2>2. PICK v \in V : b[1] = h[v]
    BY <2>1
  <2>3. <<v, b[2]>> \in P /\ b = g[<<v, b[2]>>]
    BY <2>1, <2>2
  <2> QED
    BY <2>3
<1>6. Cardinality(Bytes(S)) <= Cardinality(T)
  BY <1>4, <1>5, FS_Subset
<1>7. Cardinality(Bytes(S)) \in Nat /\ Cardinality(T) \in Nat /\ Cardinality(P) \in Nat
  BY <1>3, <1>4, <1>5, FS_Subset, FS_CardinalityType
<1> HIDE DEF P, T, B, S, g
<1>8. Cardinality(Bytes(S)) <= Cardinality(V) * MaxFileSize
  BY <1>2, <1>3, <1>4, <1>6, <1>7
<1> QED
  BY <1>8 DEF SizeOf, S

LEMMA ClaimedFiles ==
  ASSUME TypeInv, NEW n \in Nodes
  PROVE  InFlight \subseteq Files /\ Claimed(n) \subseteq Files
BY DEF TypeInv, ReqType, ReqInHand, SaveSteps, InFlight, Uploaders, UploadSteps, Claimed,
   ActiveFiles

LEMMA RoomStays ==
  ASSUME TypeInv, NEW n \in Nodes, Room(n), Claimed(n)' \subseteq Claimed(n)
  PROVE  Room(n)'
<1> DEFINE C == Claimed(n)
           D == Claimed(n)'
           L == MaxCapacity + Allowance
<1>1. C \in SUBSET Files /\ D \in SUBSET C
  BY ClaimedFiles
<1>2. SizeOf(D) <= SizeOf(C) /\ SizeOf(C) <= L
  BY <1>1, SizeOfMonotone DEF Room
<1>3. SizeOf(D) \in Nat /\ SizeOf(C) \in Nat
  BY <1>1, SizeOfType
<1>4. L \in Int
  BY ConstantsOK, FS_CardinalityType DEF Allowance
<1> HIDE DEF C, D, L
<1>5. SizeOf(D) <= L
  BY <1>2, <1>3, <1>4
<1> QED
  BY <1>5 DEF Room, D, L

\* All uploads but the one that is being checked, at their largest.
LEMMA OthersFit ==
  ASSUME TypeInv, NEW w \in Workers, w \notin Uploaders
  PROVE  SizeOf(InFlight) <= Allowance
<1> DEFINE h == [v \in Uploaders |-> req[v].file]
           k == Cardinality(Uploaders)
           m == Cardinality(Workers)
<1>1. Uploaders \in SUBSET Workers /\ InFlight = {h[v] : v \in Uploaders}
  BY DEF Uploaders, InFlight
<1>2. h \in [Uploaders -> Files]
  BY DEF TypeInv, ReqType, ReqInHand, SaveSteps, Uploaders, UploadSteps
<1>3. SizeOf(InFlight) <= k * MaxFileSize
  BY <1>1, <1>2, SizeOfHeld
<1>4. k <= m - 1 /\ k \in Nat /\ m \in Nat
  <2>1. IsFiniteSet(Workers) /\ IsFiniteSet(Workers \ {w})
    BY ConstantsOK, FS_RemoveElement
  <2>2. Cardinality(Workers \ {w}) = m - 1
    BY <2>1, FS_RemoveElement
  <2>3. k <= Cardinality(Workers \ {w}) /\ IsFiniteSet(Uploaders)
    BY <1>1, <2>1, FS_Subset
  <2> QED
    BY <2>1, <2>2, <2>3, FS_CardinalityType
<1>5. MaxFileSize \in Nat /\ SizeOf(InFlight) \in Nat
  BY <1>1, <1>2, ConstantsOK, SizeOfType
<1> HIDE DEF k, m
<1>6. k * MaxFileSize <= (m - 1) * MaxFileSize
  BY <1>4, <1>5
<1>7. SizeOf(InFlight) <= (m - 1) * MaxFileSize
  BY <1>3, <1>4, <1>5, <1>6
<1> QED
  BY <1>7 DEF Allowance, m

\* The check that lets an upload in keeps room for all that is on its way.
LEMMA RoomAtStart ==
  ASSUME TypeInv, TotalIsSum, CapInv, OneProcess, NEW w \in Workers, NEW g \in Files,
         NEW d \in Descs, UploadStart(w, g, d), NEW n \in Nodes
  PROVE  Room(n)'
<1> DEFINE A == ActiveFiles(index[n])
           R == InFlight
           C == Claimed(n)
           D == Claimed(n)'
           L == MaxCapacity + Allowance
<1>1. n = Home[w] /\ up[n] /\ HasRoom(n, g) /\ w \notin Uploaders /\ UNCHANGED <<index, attr>>
  BY ConstantsOK DEF OneProcess, UploadStart, At, Uploaders, UploadSteps
<1>2. InFlight' \subseteq InFlight \union {g}
  BY IdleType DEF UploadStart, Begin, InFlight, Uploaders, TypeInv, ReqType, Request_
<1>3. A \in SUBSET Files /\ R \in SUBSET Files /\ C \in SUBSET Files /\ D \subseteq C \union {g}
  BY <1>1, <1>2, ClaimedFiles DEF Claimed, ActiveFiles
<1>4. /\ Size[g] \in Nat /\ SizeOf({g}) = Size[g] /\ L \in Int
      /\ MaxCapacity \in Nat /\ Allowance \in Int
  BY ConstantsOK, BytesOfOne, FS_CardinalityType DEF SizeOf, Allowance
<1>5. CASE Size[g] = 0
  <2>1. Bytes(C \union {g}) = Bytes(C)
    BY <1>5, ConstantsOK DEF Bytes
  <2>2. SizeOf(D) <= SizeOf(C)
    BY <1>3, <2>1, SizeOfMonotone DEF SizeOf
  <2>3. SizeOf(C) <= L /\ SizeOf(C) \in Nat /\ SizeOf(D) \in Nat
    BY <1>3, SizeOfType DEF CapInv, Room
  <2> HIDE DEF C, D, L
  <2>4. SizeOf(D) <= L
    BY <1>4, <2>2, <2>3
  <2> QED
    BY <2>4 DEF Room, D, L
<1>6. CASE Size[g] > 0
  <2>1. D \subseteq (A \union {g}) \union R
    BY <1>1, <1>3 DEF CapInv, Stray, Claimed
  <2>2. /\ SizeOf(D) <= SizeOf((A \union {g}) \union R)
        /\ SizeOf((A \union {g}) \union R) <= SizeOf(A \union {g}) + SizeOf(R)
        /\ SizeOf(A \union {g}) <= SizeOf(A) + SizeOf({g})
    BY <1>3, <2>1, SizeOfMonotone, SizeOfUnion
  <2>3. SizeOf(A) + Size[g] <= MaxCapacity
    BY <1>1, <1>6 DEF HasRoom, TotalIsSum
  <2>4. SizeOf(R) <= Allowance
    BY <1>1, OthersFit
  <2>5. /\ SizeOf(D) \in Nat /\ SizeOf(A) \in Nat /\ SizeOf(R) \in Nat
        /\ SizeOf(A \union {g}) \in Nat /\ SizeOf((A \union {g}) \union R) \in Nat
    BY <1>3, <2>1, SizeOfType
  <2> HIDE DEF A, R, C, D
  <2>6. SizeOf(D) <= L
    BY <1>4, <2>2, <2>3, <2>4, <2>5
  <2> QED
    BY <2>6 DEF Room, D
<1> QED
  BY <1>4, <1>5, <1>6

\* One lemma per kind of step.  Shrinks: the step claims nothing new.
Shrinks == \A n \in Nodes : Claimed(n)' \subseteq Claimed(n)

CapParts == Plain /\ \A n \in Nodes : Stray(n)

LEMMA UploadStartCap ==
  ASSUME TypeInv, CapInv, NEW w \in Workers, NEW g \in Files, NEW d \in Descs,
         UploadStart(w, g, d)
  PROVE  CapParts'
<1> DEFINE m == [status |-> "active", temporary |-> FALSE, description |-> d]
<1>1. /\ req'[w].step = "save" /\ req'[w].meta = m /\ req[w].step = "idle"
      /\ \A v \in Workers \ {w} : req'[v] = req[v]
      /\ UNCHANGED <<attr, index, gc, up, crossed>>
  BY IdleType DEF UploadStart, Begin, At, TypeInv, ReqType, Request_, clientVars
<1>2. InFlight \subseteq InFlight'
  BY <1>1 DEF InFlight, Uploaders, UploadSteps
<1>3. Plain'
  BY <1>1 DEF CapInv, Plain, UploadSteps
<1> QED
  BY <1>1, <1>2, <1>3 DEF CapParts, CapInv, Stray

LEMMA UploadSaveCap ==
  ASSUME TypeInv, DurInv, CapInv, NEW w \in Workers, UploadSave(w)
  PROVE  CapParts' /\ Shrinks
<1>1. /\ req[w].step = "save" /\ req[w].file \in Files
      /\ UNCHANGED <<attr, index, gc, up, crossed>>
      /\ \A v \in Workers \ {w} : req'[v] = req[v]
  BY DEF UploadSave, clientVars, At, Finish, TypeInv, ReqType, ReqInHand, SaveSteps
<1>2. attr[req[w].file] = NoMeta
  BY <1>1 DEF DurInv, DurParts, Private, EarlySteps
<1>3. \/ /\ req'[w].step = "attr" /\ req'[w].file = req[w].file
         /\ req'[w].meta.status = req[w].meta.status
      \/ req'[w].step = "idle"
  BY <1>1 DEF UploadSave, Finish, Idle, TypeInv, ReqType, ReqInHand, SaveSteps, Request_,
     FileMetadata
<1>4. Plain'
  BY <1>1, <1>3 DEF CapInv, Plain, UploadSteps
<1>5. InFlight' \subseteq InFlight /\ InFlight \subseteq InFlight' \union {req[w].file}
  BY <1>1, <1>3 DEF InFlight, Uploaders, UploadSteps
<1>6. InFlight' = InFlight \/ req[w].file \notin ActiveFiles(attr)
  BY <1>2 DEF ActiveFiles, IsActive
<1>7. CapParts'
  BY <1>1, <1>2, <1>4, <1>5 DEF CapParts, CapInv, Stray, ActiveFiles, IsActive
<1> QED
  BY <1>1, <1>5, <1>7 DEF Shrinks, Claimed

LEMMA UploadAttrCap ==
  ASSUME TypeInv, DurInv, CapInv, NEW w \in Workers, UploadReject(w) \/ UploadAttr(w)
  PROVE  CapParts' /\ Shrinks
<1>1. /\ req[w].step = "attr" /\ req[w].file \in Files /\ req[w].meta \in FileMetadata
      /\ UNCHANGED <<index, gc, up, crossed>>
      /\ \A v \in Workers \ {w} : req'[v] = req[v]
      /\ req'[w].file = req[w].file /\ req'[w].meta = req[w].meta
  BY DEF UploadReject, UploadAttr, At, Goto, clientVars, TypeInv, ReqType, ReqInHand, SaveSteps, Request_
<1>2. \/ req'[w].step = "undo" /\ UNCHANGED attr
      \/ /\ req'[w].step = "add"
         /\ attr' = [attr EXCEPT ![req[w].file] = req[w].meta]
  <2>1. scraps[req[w].file] = {} /\ BesideReq(w, req[w].file) = {}
    BY <1>1, PrivateAlone DEF DurInv, EarlySteps, BesideReq
  <2> QED
    BY <2>1 DEF UploadReject, UploadAttr, Goto, AttrWrite, diskVars, TypeInv, ReqType,
       Request_
<1>3. IsActive(req[w].meta)
  BY <1>1, ConstantsOK DEF CapInv, Plain, IsActive, UploadSteps
<1>4. attr \in [Files -> MaybeMeta]
  BY NothingTorn DEF TypeInv, DiskType, CapInv
<1>5. \A f \in Files : IsActive(attr[f]) => IsActive(attr'[f])
  BY <1>2, <1>3, <1>4
<1>6. \A f \in Files : IsActive(attr'[f]) => IsActive(attr[f]) \/ f = req[w].file
  BY <1>2, <1>4
<1>7. InFlight' = InFlight /\ req[w].file \in InFlight
  BY <1>1, <1>2 DEF InFlight, Uploaders, UploadSteps
<1>8. Plain'
  <2>1. ASSUME NEW v \in Workers, req[v].step \in {"add", "commit"}
        PROVE  IsActive(attr'[req[v].file])
    BY <2>1, <1>5 DEF CapInv, Plain, TypeInv, ReqType, ReqInHand, SaveSteps
  <2>2. req'[w].step = "add" => IsActive(attr'[req[w].file])
    BY <1>1, <1>2, <1>3, <1>4
  <2> QED
    BY <1>1, <1>2, <2>1, <2>2 DEF CapInv, Plain, UploadSteps
<1>9. \A n \in Nodes : Stray(n)'
  BY <1>1, <1>6, <1>7 DEF CapInv, Stray, ActiveFiles
<1>10. Shrinks
  BY <1>1, <1>6, <1>7 DEF Shrinks, Claimed, ActiveFiles
<1> QED
  BY <1>8, <1>9, <1>10 DEF CapParts

LEMMA UploadUndoCap ==
  ASSUME TypeInv, DurInv, CapInv, NEW w \in Workers, UploadUndo(w)
  PROVE  CapParts' /\ Shrinks
<1>1. PICK g \in Files : g = req[w].file
  BY DEF UploadUndo, At, TypeInv, ReqType, ReqInHand, SaveSteps
<1>2. /\ req[w].step = "undo" /\ req'[w].step = "idle"
      /\ UNCHANGED <<index, gc, up, crossed>>
      /\ \A v \in Workers \ {w} : req'[v] = req[v]
      /\ attr' = [attr EXCEPT ![g] = NoMeta] /\ attr \in [Files -> MaybeMeta]
  BY <1>1, NothingTorn DEF UploadUndo, At, Finish, Idle, AttrDelete, TypeInv, ReqType,
     DiskType, CapInv, clientVars
<1>3. \A v \in Workers \ {w} : req[v].step \in UploadSteps => req[v].file # g
  BY <1>1, <1>2 DEF DurInv, DurParts, OneUploader, Uploading, UploadSteps
<1>4. /\ \A f \in Files : f # g => attr'[f] = attr[f]
      /\ ~IsActive(attr'[g])
  BY <1>2 DEF IsActive
<1>5. InFlight' \subseteq InFlight /\ InFlight \subseteq InFlight' \union {g}
  BY <1>1, <1>2 DEF InFlight, Uploaders, UploadSteps
<1>6. Plain'
  <2>1. ASSUME NEW v \in Workers \ {w}, req[v].step \in {"add", "commit"}
        PROVE  IsActive(attr'[req[v].file])
    BY <1>3, <1>4, <2>1 DEF CapInv, Plain, TypeInv, ReqType, ReqInHand, SaveSteps, UploadSteps
  <2> QED
    BY <1>2, <2>1 DEF CapInv, Plain, UploadSteps
<1>7. ActiveFiles(attr)' \subseteq ActiveFiles(attr) \ {g}
  BY <1>4 DEF ActiveFiles
<1>8. \A n \in Nodes : Stray(n)'
  BY <1>2, <1>5, <1>7 DEF CapInv, Stray
<1>9. Shrinks
  BY <1>2, <1>5, <1>7 DEF Shrinks, Claimed
<1> QED
  BY <1>6, <1>8, <1>9 DEF CapParts

LEMMA UploadIndexCap ==
  ASSUME TypeInv, CapInv, NEW w \in Workers, UploadIndex(w)
  PROVE  CapParts' /\ Shrinks
<1>1. PICK g \in Files : g = req[w].file
  BY DEF UploadIndex, At, TypeInv, ReqType, ReqInHand, SaveSteps
<1> DEFINE k == Home[w]
<1>2. /\ req[w].step = "add" /\ req'[w].step = "commit"
      /\ UNCHANGED <<attr, gc, up, crossed>>
      /\ \A v \in Workers \ {w} : req'[v] = req[v]
      /\ req'[w].file = req[w].file /\ req'[w].meta = req[w].meta
      /\ index' = [index EXCEPT ![k][g] = req[w].meta]
      /\ index \in [Nodes -> [Files -> MaybeMeta]] /\ k \in Nodes
  BY <1>1, ConstantsOK DEF UploadIndex, At, Goto, IndexAdd, PutIndex, diskVars, clientVars, TypeInv,
     ReqType, Request_, IndexType
<1>3. IsActive(req[w].meta) /\ IsActive(attr[g])
  BY <1>1, <1>2, ConstantsOK DEF CapInv, Plain, IsActive, UploadSteps, TypeInv, ReqType,
     ReqInHand, SaveSteps
<1>4. \A n \in Nodes : \A f \in Files :
        index'[n][f] = IF n = k /\ f = g THEN req[w].meta ELSE index[n][f]
  BY <1>2
<1>5. InFlight' = InFlight /\ g \in InFlight
  BY <1>1, <1>2 DEF InFlight, Uploaders, UploadSteps
<1>6. Plain'
  <2>1. ASSUME NEW v \in Workers, req[v].step = "commit"
        PROVE  IsActive(index'[Home[v]][req[v].file])
    BY <2>1, <1>3, <1>4, ConstantsOK DEF CapInv, Plain, TypeInv, ReqType, ReqInHand, SaveSteps
  <2>2. IsActive(index'[Home[w]][req[w].file])
    BY <1>1, <1>2, <1>3, <1>4
  <2> QED
    BY <1>1, <1>2, <1>3, <2>1, <2>2 DEF CapInv, Plain, UploadSteps
<1>7. \A n \in Nodes : /\ ActiveFiles(index[n]) \subseteq ActiveFiles(index'[n])
                       /\ ActiveFiles(index'[n]) \subseteq ActiveFiles(index[n]) \union {g}
  BY <1>3, <1>4 DEF ActiveFiles
<1>8. \A n \in Nodes : Stray(n)'
  BY <1>2, <1>5, <1>7 DEF CapInv, Stray
<1>9. Shrinks
  BY <1>2, <1>5, <1>7 DEF Shrinks, Claimed
<1> QED
  BY <1>6, <1>8, <1>9 DEF CapParts

\* The answer, and the end of a mode change.
LEMMA EndCap ==
  ASSUME TypeInv, CapInv, OneProcess, NEW w \in Workers,
         UploadCommit(w) \/ TransitionMode(w) \/ SaveMode(w)
  PROVE  CapParts' /\ Shrinks
<1>1. /\ req[w].step \in {"commit", "idle"} \union SaveSteps
      /\ req'[w].step \in {"idle"} \union SaveSteps
      /\ UNCHANGED <<attr, index, gc, up, crossed>>
      /\ \A v \in Workers \ {w} :
           req'[v] = req[v] \/ {req[v].step, req'[v].step} \subseteq SaveSteps
  <2>1. CASE UploadCommit(w) \/ SaveMode(w)
    BY <2>1 DEF UploadCommit, SaveMode, At, Finish, Idle, TypeInv, ReqType, SaveSteps,
       clientVars
  <2>2. CASE TransitionMode(w)
    <3>1. PICK t \in Modes, c \in BOOLEAN : TransitionTo(w, t, c)
      BY <2>2 DEF TransitionMode
    <3>3. req[w].step = "idle" /\ UNCHANGED <<attr, index, gc, up, crossed>>
      BY <3>1 DEF TransitionTo, At, diskVars
    <3>4. req'[w].step \in SaveSteps
      BY <3>1, TransitionReq DEF TypeInv
    <3>5. ASSUME NEW v \in Workers \ {w}
          PROVE  req'[v] = req[v] \/ {req[v].step, req'[v].step} \subseteq SaveSteps
      BY <3>1 DEF TransitionTo, Saving, TypeInv, ReqType, Request_, SaveSteps
    <3> QED
      BY <3>3, <3>4, <3>5
  <2> QED
    BY <2>1, <2>2
<1>2. Plain'
  BY <1>1 DEF CapInv, Plain, UploadSteps, SaveSteps
<1>3. /\ InFlight' \subseteq InFlight
      /\ \A f \in InFlight : f \in InFlight' \/ (f = req[w].file /\ req[w].step = "commit")
  BY <1>1 DEF InFlight, Uploaders, UploadSteps, SaveSteps
<1>4. ASSUME req[w].step = "commit", NEW n \in Nodes
      PROVE  req[w].file \in ActiveFiles(index[n])
  BY <1>4, ConstantsOK DEF CapInv, Plain, OneProcess, ActiveFiles, TypeInv, ReqType,
     ReqInHand, SaveSteps
<1>5. \A n \in Nodes : Stray(n)'
  BY <1>1, <1>3, <1>4 DEF CapInv, Stray
<1>6. Shrinks
  BY <1>1, <1>3 DEF Shrinks, Claimed
<1> QED
  BY <1>2, <1>5, <1>6 DEF CapParts

\* The index is rebuilt from what is on disk.
LEMMA RebuildCap ==
  ASSUME TypeInv, DurInv, CapInv, OneProcess, NEW n \in Nodes, ReconcileEnd(n) \/ Start(n)
  PROVE  CapParts' /\ Shrinks
<1>1. UNCHANGED <<attr, req, gc, crossed>> /\ index'[n] = attr /\ \A k \in Nodes : k = n
  <2>1. ScanDir = attr
    BY NothingTorn DEF CapInv, ScanDir, TypeInv, DiskType
  <2> QED
    BY <2>1 DEF ReconcileEnd, Start, IndexRebuild, diskVars, clientVars, OneProcess,
       TypeInv, IndexType
<1>2. InFlight' = InFlight
  BY <1>1 DEF InFlight, Uploaders
<1>3. Plain'
  BY <1>1, ConstantsOK DEF CapInv, Plain, TypeInv, ReqType, ReqInHand, SaveSteps
<1>4. \A k \in Nodes : Stray(k)'
  BY <1>1 DEF Stray
<1>5. Shrinks
  BY <1>1, <1>2 DEF Shrinks, Claimed
<1> QED
  BY <1>3, <1>4, <1>5 DEF CapParts

LEMMA CrashCap ==
  ASSUME TypeInv, CapInv, OneProcess, NEW n \in Nodes, Crash(n)
  PROVE  CapParts' /\ Shrinks
<1>1. /\ \A k \in Nodes : k = n
      /\ ~up'[n] /\ UNCHANGED <<attr, crossed>> /\ index'[n] = NoFiles /\ gc'[n].step = "idle"
      /\ \A w \in Workers : req'[w].step = "idle"
  BY ConstantsOK DEF Crash, OneProcess, diskVars, TypeInv, ProcType, IndexType, GcType,
     GcIdle, Idle
<1>2. InFlight' = {} /\ ActiveFiles(index'[n]) = {}
  BY <1>1 DEF InFlight, Uploaders, UploadSteps, ActiveFiles, NoFiles, IsActive
<1>3. Plain'
  BY <1>1 DEF CapInv, Plain, UploadSteps
<1>4. \A k \in Nodes : Stray(k)'
  BY <1>1 DEF Stray
<1>5. Shrinks
  BY <1>1, <1>2 DEF Shrinks, Claimed
<1> QED
  BY <1>3, <1>4, <1>5 DEF CapParts

LEMMA CapStep ==
  ASSUME UploadsOnly, OneProcess
  PROVE  TypeInv /\ DurInv /\ TotalIsSum /\ CapInv /\ [Next]_vars => CapInv'
<1> SUFFICES ASSUME TypeInv, DurInv, TotalIsSum, CapInv, [Next]_vars
             PROVE  CapParts' /\ \A n \in Nodes : Room(n)'
  BY DownStep DEF CapInv, CapParts
<1>1. ASSUME NEW w \in Workers, NEW g \in Files, NEW d \in Descs, UploadStart(w, g, d)
      PROVE  CapParts' /\ \A n \in Nodes : Room(n)'
  BY <1>1, UploadStartCap, RoomAtStart
<1>2. Shrinks => \A n \in Nodes : Room(n)'
  BY RoomStays DEF CapInv, Shrinks
<1>3. ASSUME NEW w \in Workers, Request(w),
             ~\E g \in Files, d \in Descs : UploadStart(w, g, d)
      PROVE  CapParts' /\ Shrinks
  <2>1. ~Patch(w) /\ ~Delete(w)
    BY DEF Patch, Delete, PatchStart, DeleteStart, UploadsOnly
  <2>2. ~WriteMeta(w) /\ ~UpdateMeta(w)
    BY DEF WriteMeta, UpdateMeta, At, CapInv, Plain, UploadSteps, SaveSteps
  <2> QED
    BY <1>3, <2>1, <2>2, UploadSaveCap, UploadAttrCap, UploadUndoCap, UploadIndexCap,
       EndCap DEF Request, Upload
<1>4. ASSUME NEW n \in Nodes PROVE ~Gc(n)
  <2>1. ~GcMarkBegin(n)
    BY DEF GcMarkBegin, UploadsOnly
  <2> QED
    BY <2>1 DEF Gc, GcMarkAttr, GcMarkIndex, GcSweepBegin, GcSweepData, GcSweepAttr,
       GcSweepIndex, GcEnd, GcAt, CapInv, Plain
<1>5. ASSUME NEW n \in Nodes, ReconcileEnd(n) \/ Crash(n) \/ Start(n)
      PROVE  CapParts' /\ Shrinks
  BY <1>5, RebuildCap, CrashCap
<1>6. ASSUME \/ \E n \in Nodes : ReconcileBegin(n)
             \/ \E f \in Files : TtlPasses(f)
             \/ UNCHANGED vars
      PROVE  CapParts' /\ Shrinks
  <2>1. UNCHANGED <<attr, index, req, gc, up, crossed>>
    BY <1>6 DEF ReconcileBegin, TtlPasses, vars, diskVars, clientVars
  <2> QED
    BY <2>1 DEF CapParts, CapInv, Plain, Stray, Shrinks, Claimed, InFlight, Uploaders
<1>7. \A f \in Files : ~AttrOverwritten(f)
  BY NothingTorn DEF AttrOverwritten, CapInv
<1> QED
  BY <1>1, <1>2, <1>3, <1>4, <1>5, <1>6, <1>7 DEF Next, Reconcile

\* A process that serves uploads never counts more than its capacity and one file
\* of the largest size for every other request it can serve at a time, although
\* the check reserves nothing; through crashes, rebuilds and disk errors
\* (upload.go, step 2.1).
THEOREM OvershootIsBounded ==
  ASSUME UploadsOnly, OneProcess, Workers # {}
  PROVE  Spec => []CapacityBound
<1>1. Init => CapInv
  <2> SUFFICES ASSUME Init PROVE CapInv
    OBVIOUS
  <2>1. /\ \A w \in Workers : req[w].step = "idle"
        /\ \A n \in Nodes : gc[n].step = "idle" /\ ~up[n]
        /\ crossed = {}
    BY DEF Init, Idle, GcIdle
  <2>2. ASSUME NEW n \in Nodes PROVE Claimed(n) = {}
    BY <2>1 DEF Init, Claimed, InFlight, Uploaders, UploadSteps, ActiveFiles, NoFiles,
       IsActive
  <2>3. SizeOf({}) = 0
    <3>1. Bytes({}) = {}
      BY DEF Bytes
    <3> QED
      BY <3>1, FS_EmptySet DEF SizeOf
  <2>4. Allowance \in Nat
    <3>1. Cardinality(Workers) \in Nat /\ Cardinality(Workers) # 0
      BY ConstantsOK, FS_CardinalityType, FS_EmptySet
    <3>2. Cardinality(Workers) - 1 \in Nat /\ MaxFileSize \in Nat
      BY <3>1, ConstantsOK
    <3> QED
      BY <3>2 DEF Allowance
  <2>5. 0 <= MaxCapacity + Allowance
    BY <2>4, ConstantsOK
  <2>6. ASSUME NEW n \in Nodes PROVE Stray(n) /\ Room(n)
    BY <2>1, <2>2, <2>3, <2>5 DEF Stray, Room
  <2> QED
    BY <2>1, <2>6 DEF CapInv, DownIdle, Plain, UploadSteps
<1>2. (TypeInv /\ DurInv /\ CapInv) /\ TotalIsSum /\ [Next]_vars
        => (TypeInv /\ DurInv /\ CapInv)'
  BY NextType, NextDur, CapStep
<1>3. TypeInv /\ TotalIsSum /\ CapInv => CapacityBound
  <2> SUFFICES ASSUME TypeInv, TotalIsSum, CapInv, NEW n \in Nodes
               PROVE  total[n] <= MaxCapacity + Allowance
    BY DEF CapacityBound, Allowance
  <2> DEFINE A == ActiveFiles(index[n])
             C == Claimed(n)
             L == MaxCapacity + Allowance
  <2>1. A \in SUBSET C /\ C \in SUBSET Files /\ A \in SUBSET Files
    BY ClaimedFiles DEF Claimed
  <2>2. SizeOf(A) <= SizeOf(C) /\ SizeOf(C) <= L /\ total[n] = SizeOf(A)
    BY <2>1, SizeOfMonotone DEF CapInv, Room, TotalIsSum
  <2>3. SizeOf(A) \in Nat /\ SizeOf(C) \in Nat /\ L \in Int
    BY <2>1, SizeOfType, ConstantsOK, FS_CardinalityType DEF Allowance
  <2> HIDE DEF A, C, L
  <2>4. total[n] <= L
    BY <2>2, <2>3
  <2> QED
    BY <2>4 DEF L
<1> QED
  BY <1>1, <1>2, <1>3, TotalExact, InitType, InitDur, PTL DEF Spec

-----------------------------------------------------------------------------
(* The mode of one process, on a disk that works.  Transitions may overlap, *)
(* and then mode.json may hold anything; a restart ends that.               *)

\* A request that is alone with mode.json is alone in saving it, and two that
\* are not have raced.
SaversKnown ==
  /\ \A v, w \in Workers :
       req[w].step = "saveMode" /\ req[v].step \in SaveSteps => v = w
  /\ \A w \in Workers : req[w].step = "saveBeside" => raced # {}

\* Whenever mode.json is not up to date, the request that will see to it is on.
ModeSaved ==
  raced = {} =>
    \A n \in Nodes : up[n] /\ Saving(n) = {} => modeFile \notin Modes \/ modeFile = mode[n]

\* It saves the mode the process works in, one step on from the one on disk.
ModeInHand ==
  raced = {} =>
    \A w \in Workers : req[w].step = "saveMode" =>
      /\ req[w].mode = mode[Home[w]]
      /\ modeFile \notin Modes \/ <<modeFile, req[w].mode>> \in validTransitions

ModeParts == SaversKnown /\ ModeSaved /\ ModeInHand

ModeInv == DownIdle /\ ModeParts

\* A request that neither saves nor begins to leaves all of that alone.
LEMMA OtherRequestsMode ==
  ASSUME TypeInv, NEW w \in Workers, Request(w), ~TransitionMode(w), ~SaveMode(w)
  PROVE  /\ UNCHANGED <<modeFile, mode, up, raced>>
         /\ req[w].step \notin SaveSteps /\ req'[w].step \notin SaveSteps
         /\ \A v \in Workers \ {w} : req'[v] = req[v]
<1>0. req \in [Workers -> Request_]
  BY DEF TypeInv, ReqType
<1>1. UNCHANGED <<modeFile, mode, up, raced>>
  BY DEF Request, Upload, Patch, Delete, UploadStart, UploadSave, UploadReject,
     UploadAttr, UploadUndo, UploadIndex, UploadCommit, PatchStart, DeleteStart,
     WriteMeta, UpdateMeta, diskVars, clientVars
<1>2. req[w].step \notin SaveSteps /\ \A v \in Workers \ {w} : req'[v] = req[v]
  BY <1>0 DEF Request, Upload, Patch, Delete, At, UploadStart, UploadSave, UploadReject,
     UploadAttr, UploadUndo, UploadIndex, UploadCommit, PatchStart, DeleteStart,
     WriteMeta, UpdateMeta, SaveSteps, Begin, Goto, Finish
<1>3. req'[w].step \notin SaveSteps
  <2> USE DEF SaveSteps
  <2>1. CASE UploadSave(w)
    BY <1>0, <2>1 DEF UploadSave, Finish, Idle, Request_
  <2>2. CASE \E f \in Files, d \in Descs : UploadStart(w, f, d)
    BY <1>0, <2>2, IdleType DEF UploadStart, Begin, Request_
  <2>3. CASE Patch(w)
    BY <1>0, <2>3, IdleType DEF Patch, PatchStart, Begin, Request_
  <2>4. CASE Delete(w)
    BY <1>0, <2>4, IdleType DEF Delete, DeleteStart, Begin, Request_
  <2>5. CASE UploadReject(w) \/ UploadAttr(w) \/ UploadIndex(w) \/ WriteMeta(w)
    BY <1>0, <2>5 DEF UploadReject, UploadAttr, UploadIndex, WriteMeta, Goto, Finish,
       Idle, Request_
  <2>6. CASE UploadUndo(w) \/ UploadCommit(w) \/ UpdateMeta(w)
    BY <1>0, <2>6 DEF UploadUndo, UploadCommit, UpdateMeta, Finish, Idle
  <2> QED
    BY <2>1, <2>2, <2>3, <2>4, <2>5, <2>6 DEF Request, Upload
<1> QED BY <1>1, <1>2, <1>3

LEMMA ModeFrame ==
  ASSUME ModeParts, UNCHANGED <<modeFile, mode, up, raced>>,
         \A w \in Workers : \/ req'[w] = req[w]
                            \/ req[w].step \notin SaveSteps /\ req'[w].step \notin SaveSteps
  PROVE  ModeParts'
<1> USE DEF SaveSteps
<1>1. \A n \in Nodes : Saving(n)' = Saving(n)
  BY DEF Saving
<1>2. SaversKnown'
  BY DEF ModeParts, SaversKnown
<1> QED BY <1>1, <1>2 DEF ModeParts, ModeSaved, ModeInHand

LEMMA ModeStep ==
  ASSUME ~IOErrors, OneProcess
  PROVE  TypeInv /\ ModeInv /\ [Next]_vars => ModeInv'
<1> SUFFICES ASSUME TypeInv, ModeInv, [Next]_vars PROVE ModeParts'
  BY DownStep DEF ModeInv
<1>0. /\ req \in [Workers -> Request_] /\ mode \in [Nodes -> Modes \union {NoMode}]
      /\ up \in [Nodes -> BOOLEAN] /\ Home \in [Workers -> Nodes] /\ ~Fails
      /\ raced \in SUBSET Nodes /\ ModeParts
  BY ConstantsOK DEF TypeInv, ReqType, ProcType, ClientType, Fails, ModeInv
<1>1. ASSUME NEW w \in Workers, Request(w), ~TransitionMode(w), ~SaveMode(w)
      PROVE  ModeParts'
  BY <1>0, <1>1, OtherRequestsMode, ModeFrame
<1>2. ASSUME NEW w \in Workers, TransitionMode(w) PROVE ModeParts'
  <2>1. PICK t \in Modes, c \in BOOLEAN : TransitionTo(w, t, c)
    BY <1>2 DEF TransitionMode
  <2> DEFINE n == Home[w]
  <2>2. /\ UNCHANGED <<modeFile, up>> /\ mode'[n] = t /\ n \in Nodes
        /\ raced' = IF Saving(n) = {} THEN raced ELSE raced \union {n}
        /\ TransitionAllowed(mode[n], t, c) /\ up[n]
    BY <1>0, <2>1 DEF TransitionTo, diskVars, At
  <2>3. \A v \in Workers : req[v].step \in SaveSteps <=> v \in Saving(n)
    BY <1>0 DEF Saving, OneProcess
  <2>4. req'[w].step = IF Saving(n) = {} THEN "saveMode" ELSE "saveBeside"
    BY <1>0, <2>1, IdleType DEF TransitionTo, Request_
  <2>5. req'[w].mode = t /\ w \in Saving(n)'
    BY <1>0, <2>1, TransitionReq DEF Saving, TypeInv, ReqType
  <2>6. \A v \in Workers \ {w} :
          req'[v].step = IF v \in Saving(n) THEN "saveBeside" ELSE req[v].step
    BY <2>1, TransitionReq DEF TypeInv
  <2>7. SaversKnown'
    BY <2>2, <2>3, <2>4, <2>6 DEF SaversKnown, SaveSteps, ModeInv, ModeParts
  <2>8. ModeSaved'
    BY <2>2, <2>5 DEF ModeSaved, OneProcess
  <2>9. ModeInHand'
    <3> SUFFICES ASSUME raced' = {}, NEW v \in Workers, req'[v].step = "saveMode"
                 PROVE  /\ req'[v].mode = mode'[Home[v]]
                        /\ modeFile' \notin Modes
                             \/ <<modeFile', req'[v].mode>> \in validTransitions
      BY DEF ModeInHand
    <3>1. raced = {} /\ Saving(n) = {} /\ v = w
      BY <2>2, <2>3, <2>6 DEF SaveSteps
    <3>2. modeFile \notin Modes \/ modeFile = mode[n]
      BY <1>0, <2>2, <3>1 DEF ModeParts, ModeSaved
    <3> QED
      BY <2>2, <2>5, <3>1, <3>2 DEF TransitionAllowed
  <2> QED
    BY <2>7, <2>8, <2>9 DEF ModeParts
<1>3. ASSUME NEW w \in Workers, SaveMode(w) PROVE ModeParts'
  <2>1. /\ UNCHANGED <<mode, up, raced>> /\ req'[w].step = "idle"
        /\ \A v \in Workers \ {w} : req'[v] = req[v]
        /\ req[w].step \in SaveSteps
        /\ req[w].step = "saveMode" => modeFile' = req[w].mode
    BY <1>0, <1>3 DEF SaveMode, At, Finish, Idle, SaveSteps, clientVars
  <2>2. SaversKnown'
    BY <1>0, <2>1 DEF ModeParts, SaversKnown, SaveSteps
  <2>3. raced = {} => /\ modeFile' = mode[Home[w]]
                      /\ \A v \in Workers \ {w} : req[v].step \notin SaveSteps
    BY <1>0, <2>1 DEF ModeParts, SaversKnown, ModeInHand, SaveSteps
  <2>4. ModeSaved'
    BY <1>0, <2>1, <2>3 DEF ModeSaved, OneProcess
  <2>5. ModeInHand'
    BY <2>1, <2>3 DEF ModeInHand, SaveSteps
  <2> QED
    BY <2>2, <2>4, <2>5 DEF ModeParts
<1>4. ASSUME NEW n \in Nodes, Gc(n) \/ Reconcile(n) PROVE ModeParts'
  <2>1. UNCHANGED <<modeFile, mode, up, raced, req>>
    BY <1>4 DEF Gc, Reconcile, GcMarkBegin, GcMarkAttr, GcMarkIndex, GcSweepBegin,
       GcSweepData, GcSweepAttr, GcSweepIndex, GcEnd, ReconcileBegin, ReconcileEnd,
       diskVars, clientVars
  <2> QED BY <1>0, <2>1, ModeFrame
<1>5. ASSUME NEW n \in Nodes, Crash(n) PROVE ModeParts'
  <2>1. /\ \A w \in Workers : req'[w].step = "idle"
        /\ \A k \in Nodes : ~up'[k]
    BY <1>0, <1>5 DEF Crash, OneProcess, Idle
  <2> QED BY <2>1 DEF ModeParts, SaversKnown, ModeSaved, ModeInHand, SaveSteps
<1>6. ASSUME NEW n \in Nodes, Start(n) PROVE ModeParts'
  <2>1. /\ ~up[n] /\ UNCHANGED <<modeFile, req, raced>>
        /\ modeFile \notin Modes \/ modeFile = mode'[n]
    BY <1>0, <1>6 DEF Start, InitialMode, clientVars
  <2>2. \A w \in Workers : req[w].step = "idle"
    BY <1>0, <2>1 DEF ModeInv, DownIdle, OneProcess
  <2> QED
    BY <1>0, <2>1, <2>2 DEF ModeParts, SaversKnown, ModeSaved, ModeInHand, OneProcess,
       SaveSteps
<1>7. ASSUME (\E f \in Files : TtlPasses(f) \/ AttrOverwritten(f)) \/ UNCHANGED vars
      PROVE  ModeParts'
  <2>1. UNCHANGED <<modeFile, mode, up, raced, req>>
    BY <1>7 DEF TtlPasses, AttrOverwritten, vars, diskVars, clientVars
  <2> QED BY <1>0, <2>1, ModeFrame
<1> QED
  BY <1>1, <1>2, <1>3, <1>4, <1>5, <1>6, <1>7 DEF Next

LEMMA InitMode == Init => ModeInv
BY DEF Init, ModeInv, DownIdle, ModeParts, SaversKnown, ModeSaved, ModeInHand, Idle,
   SaveSteps

\* A restart goes on in the mode the process worked in, unless the process died in
\* the middle of a transition, or two transitions have overlapped since it was
\* started, of which there may be any number (TransitionMode, main).
THEOREM ModeSurvives ==
  ASSUME ~IOErrors, OneProcess
  PROVE  Spec => []ModePersisted
<1>2. (TypeInv /\ ModeInv) /\ [Next]_vars => (TypeInv /\ ModeInv)'
  BY NextType, ModeStep
<1>3. TypeInv /\ ModeInv => ModePersisted
  BY DEF TypeInv, ClientType, ModeInv, ModeParts, ModeSaved, ModePersisted, OneProcess
<1> QED
  BY <1>2, <1>3, InitType, InitMode, PTL DEF Spec

\* mode.json moves along the transition matrix, however many requests there are,
\* also when a process dies in the middle of a transition: the next one starts in
\* the mode on disk, whatever SE_MODE says. It leaves the matrix only after two
\* transitions of one process have overlapped (TransitionMode, SaveMode, main).
THEOREM ModeFileFollowsMatrix ==
  ASSUME ~IOErrors, OneProcess
  PROVE  Spec => ModePath
<1>2. (TypeInv /\ ModeInv) /\ [Next]_vars => (TypeInv /\ ModeInv)'
  BY NextType, ModeStep
<1>3. TypeInv /\ ModeInv /\ [Next]_vars
        => [\/ modeFile \notin Modes
            \/ <<modeFile, modeFile'>> \in validTransitions
            \/ raced # {}]_modeFile
  <2> SUFFICES ASSUME TypeInv, ModeInv, [Next]_vars, modeFile' # modeFile, raced = {}
               PROVE  modeFile \notin Modes \/ <<modeFile, modeFile'>> \in validTransitions
    OBVIOUS
  <2>1. PICK w \in Workers : SaveMode(w)
    BY DEF Next, Request, Upload, Patch, Delete, TransitionMode, TransitionTo, UploadStart,
       UploadSave, UploadReject, UploadAttr, UploadUndo, UploadIndex, UploadCommit,
       PatchStart, DeleteStart, WriteMeta, UpdateMeta, Gc, Reconcile, GcMarkBegin,
       GcMarkAttr, GcMarkIndex, GcSweepBegin, GcSweepData, GcSweepAttr, GcSweepIndex,
       GcEnd, ReconcileBegin, ReconcileEnd, Crash, Start, TtlPasses, AttrOverwritten,
       vars, diskVars
  <2> QED
    BY <2>1 DEF SaveMode, At, ModeInv, ModeParts, SaversKnown, ModeInHand, SaveSteps
<1> QED
  BY <1>2, <1>3, InitType, InitMode, PTL DEF Spec, ModePath

-----------------------------------------------------------------------------
(* The life of a file.  Beside what DurInv says: of a file under deletion  *)
(* the metadata go after the data, in the index as well as on disk, and so *)
(* a process that is about to acknowledge a file knows it or it is gone,   *)
(* unless others have worked on it at the same time.                       *)

Swept(n) == gc[n].step \in {"sweepAttr", "sweepIndex"} => gc[n].cur \notin data

Whole(f) == f \in doomed /\ f \in data => attr[f] # NoMeta

Answered(w) ==
  req[w].step = "commit" =>
    \/ index[Home[w]][req[w].file] # NoMeta
    \/ req[w].file \in crossed \union (doomed \ data)

LifeInv ==
  /\ \A n \in Nodes : Swept(n)
  /\ \A f \in Files : Whole(f)
  /\ \A w \in Workers : Answered(w)

\* What DurInv says of the file that a request or the sweep has in hand.
LEMMA InHandFacts ==
  ASSUME TypeInv, DurInv
  PROVE  /\ \A w \in Workers : req[w].step \in FileSteps =>
              /\ req[w].file \in Files /\ req[w].meta \in FileMetadata
              /\ req[w].meta # NoMeta
              /\ req[w].step \in EarlySteps =>
                   attr[req[w].file] = NoMeta /\ req[w].file \notin doomed
              /\ req[w].step \notin EarlySteps =>
                   attr[req[w].file] # NoMeta \/ req[w].file \in doomed
              /\ req[w].meta.status = "deleted" => req[w].file \in doomed
         /\ \A n \in Nodes : gc[n].step \in {"sweepAttr", "sweepIndex"} =>
              gc[n].cur \in Files /\ gc[n].cur \in doomed
         /\ \A n \in Nodes : \A f \in Files :
              /\ gc[n].step = "sweep" /\ gc[n].todo[f] # NoMeta => f \in doomed
              /\ index[n][f] # NoMeta \/ gc[n].todo[f] # NoMeta =>
                   attr[f] # NoMeta \/ f \in doomed
<1>1. ASSUME NEW w \in Workers, req[w].step \in FileSteps
      PROVE  /\ req[w].file \in Files /\ req[w].meta \in FileMetadata
             /\ req[w].meta # NoMeta
  BY <1>1, ConstantsOK DEF TypeInv, ReqType, ReqInHand, SaveSteps, FileSteps
<1>2. ASSUME NEW w \in Workers, req[w].step \in EarlySteps
      PROVE  attr[req[w].file] = NoMeta /\ req[w].file \notin doomed
  BY <1>1, <1>2 DEF DurInv, DurParts, Private, EarlySteps, FileSteps, RequestSteps, SaveSteps
<1>3. ASSUME NEW w \in Workers, req[w].step \in FileSteps \ EarlySteps
      PROVE  attr[req[w].file] # NoMeta \/ req[w].file \in doomed
  BY <1>1, <1>3 DEF DurInv, DurParts, Backed, Known
<1>4. ASSUME NEW w \in Workers, req[w].step \in FileSteps, req[w].meta.status = "deleted"
      PROVE  req[w].file \in doomed
  BY <1>1, <1>4 DEF DurInv, DurParts, DeletedMeans
<1>5. ASSUME NEW n \in Nodes, gc[n].step \in {"sweepAttr", "sweepIndex"}
      PROVE  gc[n].cur \in Files /\ gc[n].cur \in doomed
  BY <1>5 DEF DurInv, DurParts, DeletedMeans, TypeInv, GcType, GcInHand
<1>6. ASSUME NEW n \in Nodes, NEW f \in Files
      PROVE  /\ gc[n].step = "sweep" /\ gc[n].todo[f] # NoMeta => f \in doomed
             /\ index[n][f] # NoMeta \/ gc[n].todo[f] # NoMeta =>
                  attr[f] # NoMeta \/ f \in doomed
  BY DEF DurInv, DurParts, DeletedMeans, Backed, Known
<1> QED
  BY <1>1, <1>2, <1>3, <1>4, <1>5, <1>6

\* A request in its first steps has its file to itself.
LEMMA EarlyIsAlone ==
  ASSUME TypeInv, DurInv, NEW w \in Workers, req[w].step \in UploadSteps
  PROVE  \A v \in Workers : Uploading(v, req[w].file) => v = w
<1>1. req[w].file \in Files
  BY InHandFacts DEF UploadSteps, FileSteps, RequestSteps, SaveSteps
<1> QED
  BY <1>1 DEF DurInv, DurParts, OneUploader, Uploading

LEMMA LifeFrame ==
  ASSUME LifeInv
  PROVE  /\ UNCHANGED <<gc, data>> => \A n \in Nodes : Swept(n)'
         /\ UNCHANGED <<data, attr, doomed>> => \A f \in Files : Whole(f)'
         /\ UNCHANGED <<req, index, doomed, data>> /\ crossed \subseteq crossed' =>
              \A w \in Workers : Answered(w)'
BY DEF LifeInv, Swept, Whole, Answered

\* attr.Write never takes the file away, whoever it meets.
LEMMA WriteKeeps ==
  ASSUME TypeInv, NEW g \in Files, NEW m \in FileMetadata, NEW W \in SUBSET Workers,
         NEW N \in SUBSET Nodes,
         AttrWrite(g, m, InHand(g, W, N)) \/ AttrWriteFails(g, InHand(g, W, N))
  PROVE  /\ \A f \in Files : attr[f] # NoMeta => attr'[f] # NoMeta
         /\ \A f \in Files \ {g} : attr'[f] = attr[f]
         /\ AttrWrite(g, m, InHand(g, W, N)) => attr'[g] # NoMeta
<1>1. attr \in [Files -> Contents \union {NoMeta}] /\ scraps[g] \in SUBSET Contents
      /\ NoMeta \notin Contents
  BY ConstantsOK DEF TypeInv, DiskType, Contents, MaybeMeta
<1>2. InHand(g, W, N) \in SUBSET FileMetadata
  BY InHandType DEF TypeInv
<1> DEFINE others == InHand(g, W, N)
<1> HIDE DEF others
<1>3. AttrWriteFails(g, others) => UNCHANGED attr
  BY DEF AttrWriteFails
<1>4. ASSUME AttrWrite(g, m, others)
      PROVE  attr'[g] # NoMeta /\ \A f \in Files \ {g} : attr'[f] = attr[f]
  <2>1. PICK c \in {m} \union (IF others = {} /\ scraps[g] = {} THEN {}
                               ELSE {Torn} \union others \union scraps[g]) :
          attr' = [attr EXCEPT ![g] = c]
    BY <1>4 DEF AttrWrite
  <2>2. c \in Contents
    BY <1>1, <1>2, <2>1 DEF Contents, others
  <2> QED BY <1>1, <2>1, <2>2
<1> QED BY <1>1, <1>2, <1>3, <1>4 DEF others

\* Index updates keep what is known; the removal of the GC is of a file that is gone.
LEMMA PutIndexAnswered ==
  ASSUME TypeInv, NEW n \in Nodes, NEW f \in Files, NEW m, PutIndex(n, f, m),
         m # NoMeta \/ f \in doomed \ data, UNCHANGED <<doomed, data, crossed>>,
         NEW w \in Workers, Answered(w), req'[w].step = "commit" => req'[w] = req[w],
         req[w].step = "commit" => req[w].file \in Files
  PROVE  Answered(w)'
<1>1. \A k \in Nodes : \A g \in Files :
        index'[k][g] = IF k = n /\ g = f THEN m ELSE index[k][g]
  BY DEF PutIndex, TypeInv, IndexType
<1> QED
  BY <1>1, ConstantsOK DEF Answered

LEMMA RebuildAnswered ==
  ASSUME TypeInv, DurInv, LifeInv, NEW n \in Nodes, IndexRebuild(n),
         UNCHANGED <<doomed, data, req, crossed>>, NEW w \in Workers
  PROVE  Answered(w)'
<1>1. \A k \in Nodes : index'[k] = IF k = n THEN ScanDir ELSE index[k]
  BY DEF IndexRebuild, TypeInv, IndexType
<1>2. req[w].step = "commit" =>
        req[w].file \in Files /\ (attr[req[w].file] # NoMeta \/ req[w].file \in doomed)
  BY InHandFacts DEF FileSteps, RequestSteps, SaveSteps, EarlySteps
<1>3. \A f \in Files : attr[f] # NoMeta => ScanDir[f] # NoMeta \/ f \in crossed
  BY DEF ScanDir, DurInv, DurParts, Clean
<1> QED
  BY <1>1, <1>2, <1>3, ConstantsOK DEF LifeInv, Answered, Whole

LEMMA RequestLife ==
  ASSUME TypeInv, DurInv, LifeInv, NEW w \in Workers, Request(w)
  PROVE  LifeInv'
<1> USE DEF diskVars, clientVars, FileSteps, EarlySteps, RequestSteps, SaveSteps,
            UploadSteps, At
<1>0. /\ req \in [Workers -> Request_] /\ attr \in [Files -> Contents \union {NoMeta}]
      /\ Home \in [Workers -> Nodes] /\ Idle \in Request_
  BY ConstantsOK, IdleType DEF TypeInv, ReqType, DiskType
<1>1. \A v \in Workers : Answered(v) /\ (req[v].step = "commit" => req[v].file \in Files)
  BY InHandFacts DEF LifeInv
<1>2. ASSUME UNCHANGED gc, data' \subseteq data PROVE \A n \in Nodes : Swept(n)'
  BY <1>2 DEF LifeInv, Swept
<1>3. ASSUME \A v \in Workers : req'[v].step = "commit" => req'[v] = req[v],
             UNCHANGED index, doomed \subseteq doomed', data' \subseteq data,
             crossed \subseteq crossed'
      PROVE  \A v \in Workers : Answered(v)'
  BY <1>1, <1>3 DEF Answered
<1>4. ASSUME NEW f \in Files, NEW d \in Descs, UploadStart(w, f, d) PROVE LifeInv'
  <2>1. \A v \in Workers : req'[v].step = "commit" => req'[v] = req[v]
    BY <1>0, <1>4 DEF UploadStart, Begin, Idle
  <2> QED
    BY <1>3, <1>4, <2>1, LifeFrame DEF UploadStart, LifeInv
<1>5. CASE UploadSave(w)
  <2>1. \A v \in Workers : req'[v].step = "commit" => req'[v] = req[v]
    BY <1>0, <1>5 DEF UploadSave, Finish, Idle, Request_
  <2>2. /\ data' \subseteq data \union {req[w].file}
        /\ req[w].file \notin doomed
        /\ UNCHANGED <<attr, gc, doomed, index, crossed>>
    BY <1>5, InHandFacts DEF UploadSave, SaveFile
  <2>3. \A n \in Nodes : Swept(n)'
    BY <2>2, InHandFacts DEF LifeInv, Swept
  <2>4. \A f \in Files : Whole(f)'
    BY <2>2 DEF LifeInv, Whole
  <2>5. \A v \in Workers : Answered(v)'
    BY <1>1, <2>1, <2>2 DEF Answered
  <2> QED
    BY <2>3, <2>4, <2>5 DEF LifeInv
<1>6. CASE UploadReject(w) \/ UploadAttr(w)
  <2>1. \A v \in Workers : req'[v].step = "commit" => req'[v] = req[v]
    BY <1>0, <1>6 DEF UploadReject, UploadAttr, Goto, Request_
  <2>2. \A f \in Files : attr[f] # NoMeta => attr'[f] # NoMeta
    BY <1>0, <1>6, InHandFacts, WriteKeeps DEF UploadReject, UploadAttr, BesideReq
  <2>3. UNCHANGED <<data, gc, doomed, index, crossed>>
    BY <1>6 DEF UploadReject, UploadAttr
  <2> QED
    BY <1>2, <1>3, <2>1, <2>2, <2>3 DEF LifeInv, Whole
<1>7. CASE UploadUndo(w)
  <2>1. \A v \in Workers : req'[v].step = "commit" => req'[v] = req[v]
    BY <1>0, <1>7 DEF UploadUndo, Finish, Idle
  <2>2. /\ data' \subseteq data /\ req[w].file \notin doomed
        /\ \A f \in Files : f # req[w].file => attr'[f] = attr[f]
        /\ UNCHANGED <<gc, doomed, index, crossed>>
    BY <1>0, <1>7, InHandFacts DEF UploadUndo, DeleteFile, AttrDelete
  <2> QED
    BY <1>2, <1>3, <2>1, <2>2 DEF LifeInv, Whole
<1>8. CASE UploadIndex(w)
  <2>1. /\ \A v \in Workers : v # w => req'[v] = req[v]
        /\ req'[w].file = req[w].file
    BY <1>0, <1>8 DEF UploadIndex, Goto, Request_
  <2>2. /\ req[w].file \in Files /\ req[w].meta # NoMeta
        /\ PutIndex(Home[w], req[w].file, req[w].meta)
        /\ UNCHANGED <<data, attr, gc, doomed, crossed>>
    BY <1>8, InHandFacts DEF UploadIndex, IndexAdd
  <2>3. \A v \in Workers : v # w => Answered(v)'
    BY <1>0, <1>1, <2>1, <2>2, PutIndexAnswered
  <2>4. index'[Home[w]][req[w].file] # NoMeta
    BY <1>0, <2>2 DEF PutIndex, TypeInv, IndexType
  <2> QED
    BY <2>1, <2>2, <2>3, <2>4, LifeFrame DEF LifeInv, Answered
<1>9. CASE UploadCommit(w)
  <2>1. \A v \in Workers : req'[v].step = "commit" => req'[v] = req[v]
    BY <1>0, <1>9 DEF UploadCommit, Finish, Idle
  <2> QED
    BY <1>3, <1>9, <2>1, LifeFrame DEF UploadCommit, LifeInv
<1>10. CASE Patch(w) \/ TransitionMode(w) \/ SaveMode(w)
  <2>1. \A v \in Workers : req'[v].step = "commit" => req'[v] = req[v]
    <3>1. CASE Patch(w)
      <4>1. PICK f \in Files, d \in Descs : PatchStart(w, f, d)
        BY <3>1 DEF Patch
      <4> QED
        BY <1>0, <4>1 DEF PatchStart, Begin, Idle
    <3>2. CASE TransitionMode(w)
      <4>1. PICK t \in Modes, c \in BOOLEAN : TransitionTo(w, t, c)
        BY <3>2 DEF TransitionMode
      <4>2. ASSUME NEW v \in Workers, req'[v].step = "commit" PROVE req'[v] = req[v]
        <5>0. ReqType
          BY DEF TypeInv
        <5>1. v # w /\ v \notin Saving(Home[w])
          BY <4>1, <4>2, <5>0, TransitionReq
        <5> QED
          BY <4>1, <5>1 DEF TransitionTo
      <4> QED
        BY <4>2
    <3>3. CASE SaveMode(w)
      BY <1>0, <3>3 DEF SaveMode, Finish, Idle
    <3> QED
      BY <1>10, <3>1, <3>2, <3>3
  <2>2. UNCHANGED <<data, attr, gc, doomed, index>> /\ crossed \subseteq crossed'
    BY <1>10 DEF Patch, PatchStart, Cross, TransitionMode, TransitionTo, SaveMode
  <2> QED
    BY <1>3, <2>1, <2>2, LifeFrame DEF LifeInv
<1>11. ASSUME NEW f \in Files, DeleteStart(w, f) PROVE LifeInv'
  <2>1. \A v \in Workers : req'[v].step = "commit" => req'[v] = req[v]
    BY <1>0, <1>11 DEF DeleteStart, Begin, Idle
  <2>2. attr[f] # NoMeta \/ f \in doomed
    BY <1>0, <1>11, InHandFacts DEF DeleteStart
  <2>3. /\ doomed' = doomed \union {f} /\ UNCHANGED <<data, attr, gc, index>>
        /\ crossed \subseteq crossed'
    BY <1>11 DEF DeleteStart, Cross
  <2> QED
    BY <1>2, <1>3, <2>1, <2>2, <2>3 DEF LifeInv, Whole
<1>12. CASE WriteMeta(w)
  <2>1. \A v \in Workers : req'[v].step = "commit" => req'[v] = req[v]
    BY <1>0, <1>12 DEF WriteMeta, Goto, Finish, Idle, Request_
  <2>2. \A f \in Files : attr[f] # NoMeta => attr'[f] # NoMeta
    BY <1>0, <1>12, InHandFacts, WriteKeeps DEF WriteMeta, BesideReq
  <2>3. UNCHANGED <<data, gc, doomed, index, crossed>>
    BY <1>12 DEF WriteMeta
  <2> QED
    BY <1>2, <1>3, <2>1, <2>2, <2>3 DEF LifeInv, Whole
<1>13. CASE UpdateMeta(w)
  <2>1. \A v \in Workers : req'[v].step = "commit" => req'[v] = req[v]
    BY <1>0, <1>13 DEF UpdateMeta, Finish, Idle
  <2>2. UNCHANGED <<data, attr, gc, doomed, crossed>>
    BY <1>13 DEF UpdateMeta
  <2>3. CASE UNCHANGED index
    BY <1>3, <2>1, <2>2, <2>3, LifeFrame DEF LifeInv
  <2>4. CASE PutIndex(Home[w], req[w].file, req[w].meta)
    <3>1. req[w].file \in Files /\ req[w].meta # NoMeta
      BY <1>13, InHandFacts DEF UpdateMeta
    <3> QED
      BY <1>0, <1>1, <2>1, <2>2, <2>4, <3>1, PutIndexAnswered, LifeFrame DEF LifeInv
  <2> QED
    BY <1>13, <2>3, <2>4 DEF UpdateMeta, IndexUpdate
<1> QED
  BY <1>4, <1>5, <1>6, <1>7, <1>8, <1>9, <1>10, <1>11, <1>12, <1>13 DEF Request, Upload, Delete

LEMMA GcLife ==
  ASSUME TypeInv, DurInv, LifeInv, NEW n \in Nodes, Gc(n)
  PROVE  LifeInv'
<1> USE DEF diskVars, clientVars
<1>0. /\ gc \in [Nodes -> GcState] /\ attr \in [Files -> Contents \union {NoMeta}]
      /\ gc[n] \in GcState /\ Home \in [Workers -> Nodes]
  BY ConstantsOK DEF TypeInv, GcType, DiskType
<1>1. UNCHANGED <<req, doomed>> /\ crossed \subseteq crossed'
  BY DEF Gc, GcMarkBegin, Cross, GcMarkAttr, GcMarkIndex, GcSweepBegin, GcSweepData,
     GcSweepAttr, GcSweepIndex, GcEnd
<1>2. \A v \in Workers : Answered(v) /\ (req[v].step = "commit" => req[v].file \in Files)
  BY InHandFacts DEF LifeInv, FileSteps, RequestSteps, SaveSteps
<1>3. ASSUME data' \subseteq data, \A k \in Nodes : k # n => gc'[k] = gc[k], Swept(n)'
      PROVE  \A k \in Nodes : Swept(k)'
  BY <1>3 DEF LifeInv, Swept
<1>4. CASE GcMarkBegin(n) \/ GcSweepBegin(n) \/ GcEnd(n)
  <2>1. Swept(n)' /\ \A k \in Nodes : k # n => gc'[k] = gc[k]
    BY <1>0, <1>4 DEF GcMarkBegin, GcSweepBegin, GcEnd, Swept, GcIdle, GcState
  <2> QED
    BY <1>1, <1>3, <1>4, <2>1, LifeFrame DEF LifeInv, GcMarkBegin, GcSweepBegin, GcEnd
<1>5. CASE GcMarkAttr(n)
  <2>1. PICK f \in Todo(n) :
          LET others == InHand(f, Workers, Nodes \ {n}) IN
          \/ AttrWrite(f, gc[n].todo[f], others) /\ GcHold(n, "markIndex", f)
          \/ AttrWriteFails(f, others) /\ GcNext(n, "mark", f)
    BY <1>5 DEF GcMarkAttr
  <2>2. Swept(n)' /\ \A k \in Nodes : k # n => gc'[k] = gc[k]
    BY <1>0, <2>1 DEF GcHold, GcNext, Swept, GcState
  <2>3. \A g \in Files : attr[g] # NoMeta => attr'[g] # NoMeta
    <3>1. f \in Files /\ gc[n].todo[f] \in FileMetadata
      BY <1>0, <2>1 DEF Todo, GcState, MaybeMeta
    <3> QED BY <2>1, <3>1, WriteKeeps
  <2>4. UNCHANGED <<data, index>>
    BY <1>5 DEF GcMarkAttr
  <2> QED
    BY <1>1, <1>3, <2>2, <2>3, <2>4, LifeFrame DEF LifeInv, Whole
<1>6. CASE GcMarkIndex(n)
  <2>1. Swept(n)' /\ \A k \in Nodes : k # n => gc'[k] = gc[k]
    BY <1>0, <1>6 DEF GcMarkIndex, GcNext, Swept, GcState
  <2>2. UNCHANGED <<data, attr, crossed>>
    BY <1>6 DEF GcMarkIndex
  <2>3. gc[n].cur \in Files /\ gc[n].todo[gc[n].cur] # NoMeta
    BY <1>6 DEF GcMarkIndex, GcAt, TypeInv, GcType, GcInHand
  <2>4. \A v \in Workers : Answered(v)'
    <3>1. CASE UNCHANGED index
      BY <1>1, <2>2, <3>1, LifeFrame
    <3>2. CASE PutIndex(n, gc[n].cur, gc[n].todo[gc[n].cur])
      BY <1>1, <1>2, <2>2, <2>3, <3>2, PutIndexAnswered
    <3> QED
      BY <1>6, <3>1, <3>2 DEF GcMarkIndex, IndexUpdate
  <2> QED
    BY <1>1, <1>3, <2>1, <2>2, <2>4, LifeFrame DEF LifeInv
<1>7. CASE GcSweepData(n)
  <2>1. PICK f \in Todo(n) :
          \/ data' = data \ {f} /\ GcHold(n, "sweepAttr", f)
          \/ GcNext(n, "sweep", f) /\ UNCHANGED data
    BY <1>7 DEF GcSweepData, DeleteFile
  <2>2. Swept(n)' /\ \A k \in Nodes : k # n => gc'[k] = gc[k]
    BY <1>0, <2>1 DEF GcHold, GcNext, Swept, GcState
  <2>3. data' \subseteq data /\ UNCHANGED <<attr, index>>
    BY <1>7, <2>1 DEF GcSweepData
  <2> QED
    BY <1>1, <1>2, <1>3, <2>2, <2>3 DEF LifeInv, Whole, Answered
<1>8. CASE GcSweepAttr(n)
  <2>1. gc[n].cur \notin data /\ UNCHANGED <<data, index>>
    BY <1>8 DEF GcSweepAttr, GcAt, LifeInv, Swept
  <2>2. Swept(n)' /\ \A k \in Nodes : k # n => gc'[k] = gc[k]
    BY <1>0, <1>8, <2>1 DEF GcSweepAttr, GcHold, Swept, GcState
  <2>3. \A g \in Files : g # gc[n].cur => attr'[g] = attr[g]
    BY <1>0, <1>8 DEF GcSweepAttr, AttrDelete
  <2> QED
    BY <1>1, <1>3, <2>1, <2>2, <2>3, LifeFrame DEF LifeInv, Whole
<1>9. CASE GcSweepIndex(n)
  <2>1. /\ gc[n].cur \in Files /\ gc[n].cur \in doomed \ data
        /\ UNCHANGED <<data, attr, crossed>> /\ PutIndex(n, gc[n].cur, NoMeta)
    BY <1>9, InHandFacts DEF GcSweepIndex, GcAt, LifeInv, Swept, IndexRemove
  <2>2. Swept(n)' /\ \A k \in Nodes : k # n => gc'[k] = gc[k]
    BY <1>0, <1>9 DEF GcSweepIndex, GcNext, Swept, GcState
  <2>3. \A v \in Workers : Answered(v)'
    BY <1>1, <1>2, <2>1, PutIndexAnswered
  <2> QED
    BY <1>1, <1>3, <2>1, <2>2, <2>3, LifeFrame DEF LifeInv
<1> QED
  BY <1>4, <1>5, <1>6, <1>7, <1>8, <1>9 DEF Gc

LEMMA LifeStep == TypeInv /\ DurInv /\ LifeInv /\ [Next]_vars => LifeInv'
<1> SUFFICES ASSUME TypeInv, DurInv, LifeInv, [Next]_vars PROVE LifeInv'
  OBVIOUS
<1> USE DEF diskVars, clientVars
<1>1. ASSUME NEW n \in Nodes, ReconcileEnd(n) \/ Start(n) PROVE LifeInv'
  <2>1. IndexRebuild(n) /\ UNCHANGED <<data, attr, doomed, req, gc, crossed>>
    BY <1>1 DEF ReconcileEnd, Start
  <2> QED
    BY <2>1, RebuildAnswered, LifeFrame DEF LifeInv
<1>2. ASSUME NEW n \in Nodes, Crash(n) PROVE LifeInv'
  <2>1. /\ \A k \in Nodes : gc'[k] = IF k = n THEN GcIdle ELSE gc[k]
        /\ \A k \in Nodes : index'[k] = IF k = n THEN NoFiles ELSE index[k]
        /\ \A w \in Workers : req'[w] = IF Home[w] = n THEN Idle ELSE req[w]
        /\ UNCHANGED <<data, attr, doomed, crossed>>
    BY <1>2 DEF Crash, TypeInv, GcType, IndexType
  <2>2. \A k \in Nodes : Swept(k)'
    BY <2>1 DEF LifeInv, Swept, GcIdle
  <2>3. \A w \in Workers : Answered(w)'
    BY <2>1, ConstantsOK DEF LifeInv, Answered, Idle
  <2> QED
    BY <2>1, <2>2, <2>3, LifeFrame DEF LifeInv
<1>3. ASSUME (\E n \in Nodes : ReconcileBegin(n)) \/ (\E f \in Files : TtlPasses(f))
               \/ UNCHANGED vars
      PROVE  LifeInv'
  <2>1. UNCHANGED <<data, attr, doomed, req, gc, index, crossed>>
    BY <1>3 DEF ReconcileBegin, TtlPasses, vars
  <2> QED
    BY <2>1, LifeFrame DEF LifeInv
<1>4. ASSUME NEW f \in Files, AttrOverwritten(f) PROVE LifeInv'
  <2>1. PICK c \in {Torn} \union InHand(f, Workers, Nodes) : attr' = [attr EXCEPT ![f] = c]
    BY <1>4 DEF AttrOverwritten
  <2>2. c # NoMeta
    BY ConstantsOK, InHandType DEF MaybeMeta, TypeInv
  <2>3. \A g \in Files : attr[g] # NoMeta => attr'[g] # NoMeta
    BY <2>1, <2>2 DEF TypeInv, DiskType
  <2>4. UNCHANGED <<data, doomed, req, gc, index, crossed>>
    BY <1>4 DEF AttrOverwritten
  <2> QED
    BY <2>3, <2>4, LifeFrame DEF LifeInv, Whole
<1> QED
  BY <1>1, <1>2, <1>3, <1>4, RequestLife, GcLife DEF Next, Reconcile

\* What the abstract specification sees of a state.
Stages == [f \in Files |-> StageOf(f)]
Knows == [n \in Nodes |-> {f \in Files : index[n][f] # NoMeta}]
UpNodes == {n \in Nodes : up[n]}

\* A step that a file's stage does not notice.
Steady(f) ==
  \/ f \in doomed /\ f \in doomed' /\ (f \in data <=> f \in data')
  \/ /\ f \notin doomed /\ f \notin doomed'
     /\ \/ attr[f] # NoMeta /\ attr'[f] # NoMeta
        \/ /\ attr[f] = NoMeta /\ attr'[f] = NoMeta
           /\ InTransit(f) <=> InTransit(f)'
           /\ InTransit(f) \/ (FreshFile(f) <=> FreshFile(f)')

\* A file that a process holds metadata of is kept, or was.
LEMMA HeldStage ==
  ASSUME NEW f \in Files, attr[f] # NoMeta \/ f \in doomed
  PROVE  StageOf(f) \in {"kept", "doomed", "gone"}
BY DEF StageOf

LEMMA SteadyStage ==
  ASSUME NEW f \in Files, Steady(f)
  PROVE  StageOf(f)' = StageOf(f)
BY DEF Steady, StageOf

LEMMA AllSteady ==
  ASSUME \A f \in Files : Steady(f)
  PROVE  Stages' = Stages
BY SteadyStage DEF Stages

LEMMA Stutters ==
  ASSUME Stages' = Stages, Knows' = Knows, UpNodes' = UpNodes, UNCHANGED <<acked, crossed>>
  PROVE  UNCHANGED Lifecycle!vars
BY DEF Lifecycle!vars, Stages, Knows, UpNodes

LEMMA BecomeMeans ==
  ASSUME NEW f \in Files, NEW from, NEW to, StageOf(f) = from, StageOf(f)' = to,
         \A g \in Files \ {f} : Steady(g),
         Knows' = Knows, UpNodes' = UpNodes, UNCHANGED acked
  PROVE  Lifecycle!Become(f, from, to)
<1>1. \A g \in Files \ {f} : StageOf(g)' = StageOf(g)
  BY SteadyStage
<1>2. Stages' = [Stages EXCEPT ![f] = to]
  BY <1>1 DEF Stages
<1>3. Stages[f] = from
  BY DEF Stages
<1> QED
  BY <1>2, <1>3 DEF Lifecycle!Become, Stages, Knows, UpNodes

\* Operations on files the process knows may have met.
LEMMA MuddleMeans ==
  ASSUME TypeInv, DurInv, Stages' = Stages, Knows' = Knows, UpNodes' = UpNodes,
         UNCHANGED acked, NEW n \in Nodes, NEW S \in SUBSET Files, Cross(S),
         \A f \in S : index[n][f] # NoMeta
  PROVE  Lifecycle!Next
<1>1. PICK T \in SUBSET Files : T = {f \in S : Busy(f)}
  OBVIOUS
<1>2. \A f \in T : Stages[f] \in {"kept", "doomed", "gone"}
  BY <1>1, InHandFacts, HeldStage DEF Stages
<1>3. T \subseteq {f \in Files : Stages[f] \in {"kept", "doomed", "gone"}}
  BY <1>2
<1>4. Lifecycle!Muddle(T)
  BY <1>1, <1>3 DEF Lifecycle!Muddle, Lifecycle!In, Stages, Knows, UpNodes, Cross
<1> QED
  BY <1>4 DEF Lifecycle!Next

\* Only the request of w changes, and as an upload it goes on with its file or not.
LEMMA TransitFrame ==
  ASSUME NEW w \in Workers, \A v \in Workers \ {w} : req'[v] = req[v],
         NEW f \in Files, Uploading(w, f)' <=> Uploading(w, f)
  PROVE  InTransit(f)' <=> InTransit(f)
BY DEF InTransit, Uploading

\* The upload of w is over, and nobody else uploads its file.
LEMMA TransitEnds ==
  ASSUME TypeInv, DurInv, NEW w \in Workers, \A v \in Workers \ {w} : req'[v] = req[v],
         req[w].step \in UploadSteps, req'[w].step = "idle", NEW f \in Files
  PROVE  /\ f # req[w].file => (InTransit(f)' <=> InTransit(f))
         /\ f = req[w].file => ~InTransit(f)'
<1>1. ASSUME f # req[w].file
      PROVE  InTransit(f)' <=> InTransit(f)
  <2>1. ~Uploading(w, f) /\ ~Uploading(w, f)'
    BY <1>1 DEF Uploading, UploadSteps
  <2> QED
    BY <2>1, TransitFrame
<1>2. ASSUME f = req[w].file
      PROVE  ~InTransit(f)'
  BY <1>2, EarlyIsAlone DEF InTransit, Uploading, UploadSteps
<1> QED
  BY <1>1, <1>2

\* Closing a WAL entry leaves it there.
LEMMA WalClosed ==
  ASSUME TypeInv, NEW n \in Nodes, NEW g \in Files,
         Commit(n, g) \/ Rollback(n, g) \/ UNCHANGED wal, NEW f \in Files
  PROVE  FreshFile(f)' <=> FreshFile(f)
BY DEF TypeInv, DiskType, Commit, Rollback, WalSet, FreshFile

LEMMA NotFresh ==
  ASSUME TypeInv, DurInv, NEW w \in Workers, NEW f \in Files, Uploading(w, f)
  PROVE  ~FreshFile(f)
BY DEF DurInv, DurParts, Named

\* An upload before attr.Write is coming, and nobody has accepted a DELETE.
LEMMA EarlyIsComing ==
  ASSUME TypeInv, DurInv, NEW w \in Workers, req[w].step \in EarlySteps
  PROVE  /\ req[w].file \in Files /\ req[w].file \notin doomed
         /\ attr[req[w].file] = NoMeta /\ InTransit(req[w].file)
         /\ StageOf(req[w].file) = "coming"
<1>1. /\ req[w].file \in Files /\ req[w].file \notin doomed
      /\ attr[req[w].file] = NoMeta
  BY InHandFacts DEF EarlySteps, FileSteps, RequestSteps, SaveSteps
<1>2. InTransit(req[w].file)
  BY DEF InTransit, EarlySteps, UploadSteps
<1> QED
  BY <1>1, <1>2 DEF StageOf

\* Update changes what is known of a file, not which files are known.
LEMMA UpdateKnows ==
  ASSUME TypeInv, NEW n \in Nodes, NEW f \in Files, NEW m, m # NoMeta,
         IndexUpdate(n, f, m)
  PROVE  Knows' = Knows
<1>1. CASE UNCHANGED index
  BY <1>1 DEF Knows
<1>2. CASE index[n][f] # NoMeta /\ PutIndex(n, f, m)
  <2>1. \A k \in Nodes, g \in Files :
          index'[k][g] = IF k = n /\ g = f THEN m ELSE index[k][g]
    BY <1>2 DEF PutIndex, TypeInv, IndexType
  <2> QED
    BY <1>2, <2>1 DEF Knows
<1> QED
  BY <1>1, <1>2 DEF IndexUpdate

LEMMA UploadRefines ==
  ASSUME TypeInv, DurInv, LifeInv, NEW w \in Workers, Upload(w)
  PROVE  [Lifecycle!Next]_(Lifecycle!vars)
<1> USE DEF diskVars, clientVars
<1>0. /\ req \in [Workers -> Request_] /\ attr \in [Files -> Contents \union {NoMeta}]
      /\ Home[w] \in Nodes /\ Idle \in Request_ /\ Idle.step = "idle"
  BY ConstantsOK, IdleType DEF TypeInv, ReqType, DiskType, Idle
<1>1. ASSUME NEW f \in Files, NEW d \in Descs, UploadStart(w, f, d)
      PROVE  Lifecycle!Next
  <2>1. /\ FreshFile(f) /\ StartTransaction(Home[w], f) /\ req[w].step = "idle"
        /\ UNCHANGED <<data, attr, doomed, acked, index, up, crossed>>
    BY <1>1 DEF UploadStart, At
  <2>2. /\ \A v \in Workers \ {w} : req'[v] = req[v]
        /\ req'[w].step = "save" /\ req'[w].file = f
    BY <1>0, <1>1 DEF UploadStart, Begin, Idle
  <2>3. StageOf(f) = "new"
    BY <2>1 DEF DurInv, DurParts, Named, StageOf, InTransit, Uploading
  <2>4. f \notin doomed /\ attr[f] = NoMeta
    BY <2>1 DEF DurInv, DurParts, Named
  <2>5. InTransit(f)'
    BY <2>2 DEF InTransit, UploadSteps
  <2>6. StageOf(f)' = "coming"
    BY <2>1, <2>4, <2>5 DEF StageOf
  <2>7. ASSUME NEW g \in Files \ {f}
        PROVE  Steady(g)
    <3>1. InTransit(g)' <=> InTransit(g)
      BY <2>1, <2>2, TransitFrame DEF Uploading, UploadSteps
    <3>2. FreshFile(g)' <=> FreshFile(g)
      BY <1>0, <2>1 DEF StartTransaction, WalSet, FreshFile, TypeInv, DiskType
    <3> QED
      BY <2>1, <3>1, <3>2 DEF Steady
  <2>8. Lifecycle!Become(f, "new", "coming")
    BY <2>1, <2>3, <2>6, <2>7, BecomeMeans DEF Knows, UpNodes
  <2> QED
    BY <2>1, <2>8 DEF Lifecycle!Begin, Lifecycle!Next
<1>2. CASE UploadSave(w)
  <2>0. PICK f \in Files : f = req[w].file
    BY <1>2, InHandFacts DEF UploadSave, At, FileSteps, RequestSteps, SaveSteps
  <2>1. /\ req[w].step \in EarlySteps /\ f \in Files /\ f \notin doomed
        /\ attr[f] = NoMeta /\ InTransit(f) /\ StageOf(f) = "coming"
        /\ UNCHANGED <<attr, doomed, acked, index, up, crossed>>
    BY <1>2, <2>0, EarlyIsComing DEF UploadSave, At, EarlySteps
  <2>2. \A v \in Workers \ {w} : req'[v] = req[v]
    BY <1>0, <2>0, <1>2 DEF UploadSave, Finish
  <2>3. CASE Finish(w) /\ Rollback(Home[w], f) /\ UNCHANGED data
    <3>1. req'[w].step = "idle"
      BY <1>0, <2>0, <2>3 DEF Finish
    <3>2. \A g \in Files : FreshFile(g)' <=> FreshFile(g)
      BY <1>0, <2>0, <2>1, <2>3, WalClosed
    <3>3. \A g \in Files \ {f} : Steady(g)
      BY <2>0, <2>1, <2>2, <2>3, <3>1, <3>2, TransitEnds DEF Steady, EarlySteps, UploadSteps
    <3>4. ~InTransit(f)' /\ ~FreshFile(f)
      BY <2>0, <2>1, <2>2, <3>1, TransitEnds, NotFresh DEF EarlySteps, UploadSteps, Uploading
    <3>5. StageOf(f)' = "lost"
      BY <2>0, <2>1, <3>2, <3>4 DEF StageOf
    <3>6. Lifecycle!Become(f, "coming", "lost")
      BY <2>0, <2>1, <3>3, <3>5, BecomeMeans DEF Knows, UpNodes
    <3> QED
      BY <2>0, <2>1, <3>6 DEF Lifecycle!GiveUp, Lifecycle!Next
  <2>4. CASE /\ SaveFile(f) /\ UNCHANGED wal
             /\ req'[w].step = "attr" /\ req'[w].file = f
    <3>1. \A g \in Files : InTransit(g)' <=> InTransit(g)
      BY <2>0, <2>1, <2>2, <2>4, TransitFrame DEF Uploading, UploadSteps, EarlySteps
    <3>2. \A g \in Files : FreshFile(g)' <=> FreshFile(g)
      BY <2>4 DEF FreshFile
    <3>3. \A g \in Files : g \in doomed => (g \in data' <=> g \in data)
      BY <2>0, <2>1, <2>4 DEF SaveFile
    <3>4. \A g \in Files : Steady(g)
      BY <2>1, <3>1, <3>2, <3>3 DEF Steady
    <3> QED
      BY <2>0, <2>1, <3>4, AllSteady, Stutters DEF Knows, UpNodes
  <2> QED
    BY <1>0, <2>0, <1>2, <2>3, <2>4 DEF UploadSave, Request_
<1>3. CASE UploadReject(w)
  <2>1. /\ \A v \in Workers \ {w} : req'[v] = req[v]
        /\ req[w].step = "attr" /\ req'[w].step = "undo" /\ req'[w].file = req[w].file
        /\ UNCHANGED <<data, attr, wal, doomed, acked, index, up, crossed>>
    BY <1>0, <1>3 DEF UploadReject, Goto, At, Request_
  <2>2. \A g \in Files : InTransit(g)' <=> InTransit(g)
    BY <2>1, TransitFrame DEF Uploading, UploadSteps
  <2>3. \A g \in Files : Steady(g)
    BY <2>1, <2>2 DEF Steady, FreshFile
  <2> QED
    BY <2>1, <2>3, AllSteady, Stutters DEF Knows, UpNodes
<1>4. CASE UploadAttr(w)
  <2>0. PICK f \in Files : f = req[w].file
    BY <1>4, InHandFacts DEF UploadAttr, At, FileSteps, RequestSteps, SaveSteps
  <2>1. /\ req[w].step = "attr" /\ f \in Files /\ f \notin doomed
        /\ attr[f] = NoMeta /\ StageOf(f) = "coming"
        /\ req[w].meta \in FileMetadata
        /\ UNCHANGED <<data, wal, doomed, acked, index, up, crossed>>
    BY <1>4, <2>0, EarlyIsComing, InHandFacts DEF UploadAttr, At, EarlySteps, FileSteps, RequestSteps, SaveSteps
  <2>2. /\ \A v \in Workers \ {w} : req'[v] = req[v]
        /\ req'[w].step = "add" /\ req'[w].file = f
        /\ AttrWrite(f, req[w].meta, InHand(f, Workers \ {w}, Nodes))
    BY <1>0, <2>0, <1>4 DEF UploadAttr, Goto, BesideReq, Request_
  <2>6. attr'[f] # NoMeta /\ \A g \in Files \ {f} : attr'[g] = attr[g]
    BY <2>0, <2>1, <2>2, WriteKeeps
  <2>3. \A g \in Files \ {f} : Steady(g)
    <3>1. \A g \in Files : InTransit(g)' <=> InTransit(g)
      BY <2>0, <2>1, <2>2, TransitFrame DEF Uploading, UploadSteps
    <3> QED
      BY <1>0, <2>0, <2>1, <2>6, <3>1 DEF Steady, FreshFile
  <2>4. StageOf(f)' = "kept"
    BY <2>0, <2>1, <2>6 DEF StageOf
  <2>5. Lifecycle!Become(f, "coming", "kept")
    BY <2>0, <2>1, <2>3, <2>4, BecomeMeans DEF Knows, UpNodes
  <2> QED
    BY <2>0, <2>1, <2>5 DEF Lifecycle!Keep, Lifecycle!Next
<1>5. CASE UploadUndo(w)
  <2>0. PICK f \in Files : f = req[w].file
    BY <1>5, InHandFacts DEF UploadUndo, At, FileSteps, RequestSteps, SaveSteps
  <2>1. /\ req[w].step = "undo" /\ f \in Files /\ f \notin doomed
        /\ attr[f] = NoMeta /\ StageOf(f) = "coming"
        /\ UNCHANGED <<doomed, acked, index, up, crossed>>
    BY <1>5, <2>0, EarlyIsComing DEF UploadUndo, At, EarlySteps
  <2>2. /\ \A v \in Workers \ {w} : req'[v] = req[v]
        /\ req'[w].step = "idle"
        /\ attr' = [attr EXCEPT ![f] = NoMeta]
        /\ data' = data \ {f} \/ UNCHANGED data
        /\ Rollback(Home[w], f)
    <3>1. Finish(w) /\ AttrDelete(f) /\ Rollback(Home[w], f)
      BY <1>5, <2>0 DEF UploadUndo
    <3>2. data' = data \ {f} \/ UNCHANGED data
      BY <1>5, <2>0 DEF UploadUndo, DeleteFile
    <3> QED
      BY <1>0, <3>1, <3>2 DEF Finish, AttrDelete
  <2>3. \A g \in Files : FreshFile(g)' <=> FreshFile(g)
    BY <1>0, <2>0, <2>1, <2>2, WalClosed
  <2>4. \A g \in Files \ {f} : Steady(g)
    BY <1>0, <2>0, <2>1, <2>2, <2>3, TransitEnds DEF Steady, UploadSteps
  <2>5. ~InTransit(f)' /\ ~FreshFile(f)
    BY <2>0, <2>1, <2>2, TransitEnds, NotFresh DEF UploadSteps, Uploading
  <2>6. StageOf(f)' = "lost"
    BY <1>0, <2>0, <2>1, <2>2, <2>3, <2>5 DEF StageOf
  <2>7. Lifecycle!Become(f, "coming", "lost")
    BY <2>0, <2>1, <2>4, <2>6, BecomeMeans DEF Knows, UpNodes
  <2> QED
    BY <2>0, <2>1, <2>7 DEF Lifecycle!GiveUp, Lifecycle!Next
<1>6. CASE UploadIndex(w)
  <2> DEFINE n == Home[w]
  <2>0. PICK f \in Files : f = req[w].file
    BY <1>6, InHandFacts DEF UploadIndex, At, FileSteps, RequestSteps, SaveSteps
  <2>1. /\ req[w].step = "add" /\ up[n] /\ f \in Files /\ req[w].meta # NoMeta
        /\ attr[f] # NoMeta \/ f \in doomed
        /\ UNCHANGED <<data, attr, wal, doomed, acked, up, crossed>>
    BY <1>6, <2>0, InHandFacts DEF UploadIndex, At, FileSteps, RequestSteps, SaveSteps, EarlySteps
  <2>2. /\ \A v \in Workers \ {w} : req'[v] = req[v]
        /\ req'[w].step = "commit" /\ req'[w].file = f
        /\ index' = [index EXCEPT ![n][f] = req[w].meta]
    BY <1>0, <2>0, <1>6 DEF UploadIndex, Goto, IndexAdd, PutIndex, Request_
  <2>3. \A g \in Files : InTransit(g)' <=> InTransit(g)
    BY <2>0, <2>1, <2>2, TransitFrame DEF Uploading, UploadSteps
  <2>4. \A g \in Files : Steady(g)
    BY <2>0, <2>1, <2>3 DEF Steady, FreshFile
  <2>5. Stages' = Stages
    BY <2>0, <2>4, AllSteady
  <2>6. Knows' = [Knows EXCEPT ![n] = @ \union {f}]
    <3>1. \A k \in Nodes, g \in Files :
            index'[k][g] = IF k = n /\ g = f THEN req[w].meta ELSE index[k][g]
      BY <1>0, <2>0, <2>2 DEF TypeInv, IndexType
    <3>2. Knows \in [Nodes -> SUBSET Files] /\ Knows' \in [Nodes -> SUBSET Files]
      BY DEF Knows
    <3>3. \A k \in Nodes : Knows'[k] = IF k = n THEN Knows[k] \union {f} ELSE Knows[k]
      BY <2>0, <2>1, <3>1 DEF Knows
    <3> QED
      BY <1>0, <3>2, <3>3
  <2>7. StageOf(f) \in {"kept", "doomed", "gone"}
    BY <2>0, <2>1, HeldStage
  <2>8. n \in UpNodes /\ UNCHANGED UpNodes
    BY <1>0, <2>0, <2>1 DEF UpNodes
  <2>9. f \in {g \in Files : Stages[g] \in {"kept", "doomed", "gone"}}
    BY <2>0, <2>1, <2>7 DEF Stages
  <2>10. Lifecycle!Learn(n, f)
    BY <2>0, <2>1, <2>5, <2>6, <2>8, <2>9 DEF Lifecycle!Learn, Lifecycle!In, Stages, Knows, UpNodes
  <2> QED
    BY <1>0, <2>0, <2>1, <2>10 DEF Lifecycle!Next
<1>7. CASE UploadCommit(w)
  <2> DEFINE n == Home[w]
  <2>0. PICK f \in Files : f = req[w].file
    BY <1>7, InHandFacts DEF UploadCommit, At, FileSteps, RequestSteps, SaveSteps
  <2>1. /\ req[w].step = "commit" /\ up[n] /\ f \in Files
        /\ attr[f] # NoMeta \/ f \in doomed
        /\ index[n][f] # NoMeta \/ f \in crossed \union (doomed \ data)
        /\ UNCHANGED <<data, attr, index, doomed, up, crossed>>
        /\ Commit(n, f) /\ acked' = [acked EXCEPT ![n] = @ \union {f}]
    BY <1>7, <2>0, InHandFacts DEF UploadCommit, At, FileSteps, RequestSteps, SaveSteps, EarlySteps, LifeInv, Answered
  <2>2. /\ \A v \in Workers \ {w} : req'[v] = req[v]
        /\ req'[w].step = "idle"
    BY <1>0, <2>0, <1>7 DEF UploadCommit, Finish
  <2>3. \A g \in Files : FreshFile(g)' <=> FreshFile(g)
    BY <1>0, <2>0, <2>1, WalClosed
  <2>4. \A g \in Files : Steady(g)
    BY <2>0, <2>1, <2>2, <2>3, TransitEnds DEF Steady, UploadSteps
  <2>5. Stages' = Stages /\ Knows' = Knows /\ UpNodes' = UpNodes
    BY <2>0, <2>1, <2>4, AllSteady DEF Knows, UpNodes
  <2>6. f \in Knows[n] \union {g \in Files : Stages[g] \in {"gone"}}
              \union (crossed \intersect {g \in Files : Stages[g] \in {"kept", "doomed"}})
    BY <1>0, <2>0, <2>1 DEF Knows, Stages, StageOf
  <2>7. Lifecycle!Promise(n, f)
    BY <1>0, <2>0, <2>1, <2>5, <2>6 DEF Lifecycle!Promise, Lifecycle!In, Stages, Knows, UpNodes
  <2> QED
    BY <1>0, <2>0, <2>1, <2>7 DEF Lifecycle!Next
<1> QED
  BY <1>1, <1>2, <1>3, <1>4, <1>5, <1>6, <1>7 DEF Upload

\* A request that uploads nothing moves no file on, unless a DELETE is accepted.
LEMMA OtherRequestsRefine ==
  ASSUME TypeInv, DurInv, LifeInv, NEW w \in Workers, Request(w), ~Upload(w)
  PROVE  [Lifecycle!Next]_(Lifecycle!vars)
<1> USE DEF diskVars, clientVars
<1>0. /\ req \in [Workers -> Request_] /\ attr \in [Files -> Contents \union {NoMeta}]
      /\ Home[w] \in Nodes /\ Idle \in Request_ /\ Idle.step = "idle"
  BY ConstantsOK, IdleType DEF TypeInv, ReqType, DiskType, Idle
<1>1. ASSUME \A v \in Workers \ {w} : req'[v] = req[v],
             req[w].step \notin UploadSteps, req'[w].step \notin UploadSteps
      PROVE  \A g \in Files : InTransit(g)' <=> InTransit(g)
  BY <1>1, TransitFrame DEF Uploading
<1>2. ASSUME NEW f \in Files, DeleteStart(w, f)
      PROVE  [Lifecycle!Next]_(Lifecycle!vars)
  <2>1. /\ \A v \in Workers \ {w} : req'[v] = req[v]
        /\ req[w].step \notin UploadSteps /\ req'[w].step \notin UploadSteps
    BY <1>0, <1>2 DEF DeleteStart, Begin, At, Idle, UploadSteps
  <2>2. /\ doomed' = doomed \union {f} /\ UNCHANGED <<data, attr, wal, index, up, acked>>
        /\ up[Home[w]] /\ index[Home[w]][f] # NoMeta /\ Cross({f})
    BY <1>2 DEF DeleteStart, At
  <2>3. \A g \in Files : (InTransit(g)' <=> InTransit(g)) /\ (FreshFile(g)' <=> FreshFile(g))
    BY <1>1, <2>1, <2>2 DEF FreshFile
  <2>4. \A g \in Files \ {f} : Steady(g)
    BY <2>2, <2>3 DEF Steady
  <2>5. Knows' = Knows /\ UpNodes' = UpNodes
    BY <2>2 DEF Knows, UpNodes
  <2>6. CASE f \in doomed
    <3>1. Steady(f)
      BY <2>2, <2>6 DEF Steady
    <3>2. Stages' = Stages
      BY <2>4, <3>1, AllSteady
    <3> QED
      BY <1>0, <2>2, <2>5, <3>2, MuddleMeans
  <2>7. CASE f \notin doomed
    <3>1. attr[f] # NoMeta /\ f \in data
      BY <1>0, <2>2, <2>7, InHandFacts DEF DurInv, DurParts, Complete
    <3>2. StageOf(f) = "kept" /\ StageOf(f)' = "doomed"
      BY <2>2, <2>7, <3>1 DEF StageOf
    <3>3. Lifecycle!Become(f, "kept", "doomed")
      BY <2>2, <2>4, <2>5, <3>2, BecomeMeans
    <3>4. Home[w] \in UpNodes /\ f \in Knows[Home[w]]
      BY <1>0, <2>2 DEF UpNodes, Knows
    <3>5. crossed' \in {crossed, crossed \union {f}}
      BY <2>2 DEF Cross
    <3>6. Lifecycle!Doom(Home[w], f)
      BY <3>3, <3>4, <3>5 DEF Lifecycle!Doom, UpNodes, Knows
    <3> QED
      BY <1>0, <3>6 DEF Lifecycle!Next
  <2> QED
    BY <2>6, <2>7
<1>3. CASE Patch(w)
  <2>1. PICK f \in Files, d \in Descs : PatchStart(w, f, d)
    BY <1>3 DEF Patch
  <2>2. /\ \A v \in Workers \ {w} : req'[v] = req[v]
        /\ req[w].step \notin UploadSteps /\ req'[w].step \notin UploadSteps
    BY <1>0, <2>1 DEF PatchStart, Begin, At, Idle, UploadSteps
  <2>3. /\ UNCHANGED <<data, attr, wal, doomed, acked, index, up>>
        /\ Cross({f}) /\ index[Home[w]][f] # NoMeta
    BY <2>1 DEF PatchStart, IsActive
  <2>4. \A g \in Files : (InTransit(g)' <=> InTransit(g)) /\ (FreshFile(g)' <=> FreshFile(g))
    BY <1>1, <2>2, <2>3 DEF FreshFile
  <2>5. Stages' = Stages
    BY <2>3, <2>4, AllSteady DEF Steady
  <2> QED
    BY <1>0, <2>3, <2>5, MuddleMeans DEF Knows, UpNodes
<1>6. CASE TransitionMode(w) \/ SaveMode(w)
  <2>1. \A g \in Files : InTransit(g)' <=> InTransit(g)
    <3>1. CASE TransitionMode(w)
      BY <3>1, TransitionUploads DEF TransitionMode, InTransit, Uploading
    <3>2. CASE SaveMode(w)
      <4>1. /\ \A v \in Workers \ {w} : req'[v] = req[v]
            /\ req[w].step \notin UploadSteps /\ req'[w].step \notin UploadSteps
        BY <1>0, <3>2 DEF SaveMode, Finish, At, UploadSteps
      <4> QED
        BY <1>1, <4>1
    <3> QED
      BY <1>6, <3>1, <3>2
  <2>2. UNCHANGED <<data, attr, wal, doomed, acked, index, up, crossed>>
    BY <1>6 DEF TransitionMode, TransitionTo, SaveMode
  <2>3. \A g \in Files : Steady(g)
    BY <2>1, <2>2 DEF Steady, FreshFile
  <2> QED
    BY <2>2, <2>3, AllSteady, Stutters DEF Knows, UpNodes
<1>4. CASE WriteMeta(w)
  <2>1. /\ \A v \in Workers \ {w} : req'[v] = req[v]
        /\ req[w].step \in {"patch", "del"} /\ req'[w].step \notin UploadSteps
    BY <1>0, <1>4 DEF WriteMeta, Goto, Finish, At, UploadSteps, Request_
  <2>2. UNCHANGED <<data, wal, doomed, acked, index, up, crossed>>
    BY <1>4 DEF WriteMeta
  <2>3. \A g \in Files : (InTransit(g)' <=> InTransit(g)) /\ (FreshFile(g)' <=> FreshFile(g))
    BY <1>1, <2>1, <2>2 DEF FreshFile, UploadSteps
  <2>4. /\ req[w].file \in Files /\ req[w].meta \in FileMetadata
        /\ attr[req[w].file] # NoMeta \/ req[w].file \in doomed
    BY <2>1, InHandFacts DEF FileSteps, RequestSteps, SaveSteps, EarlySteps
  <2>5. \/ AttrWrite(req[w].file, req[w].meta, InHand(req[w].file, Workers \ {w}, Nodes))
        \/ AttrWriteFails(req[w].file, InHand(req[w].file, Workers \ {w}, Nodes))
    BY <1>4 DEF WriteMeta, BesideReq
  <2>6. \A g \in Files : g \in doomed \/ (attr'[g] = NoMeta <=> attr[g] = NoMeta)
    BY <2>4, <2>5, WriteKeeps
  <2>7. \A g \in Files : Steady(g)
    BY <2>2, <2>3, <2>6 DEF Steady
  <2> QED
    BY <2>2, <2>7, AllSteady, Stutters DEF Knows, UpNodes
<1>5. CASE UpdateMeta(w)
  <2>1. /\ \A v \in Workers \ {w} : req'[v] = req[v]
        /\ req[w].step \in {"patchIndex", "delIndex"} /\ req'[w].step \notin UploadSteps
    BY <1>0, <1>5 DEF UpdateMeta, Finish, At, UploadSteps
  <2>2. UNCHANGED <<data, attr, wal, doomed, acked, up, crossed>>
    BY <1>5 DEF UpdateMeta
  <2>3. \A g \in Files : (InTransit(g)' <=> InTransit(g)) /\ (FreshFile(g)' <=> FreshFile(g))
    BY <1>1, <2>1, <2>2 DEF FreshFile, UploadSteps
  <2>4. \A g \in Files : Steady(g)
    BY <2>2, <2>3 DEF Steady
  <2>5. req[w].file \in Files /\ req[w].meta # NoMeta
    BY <2>1, InHandFacts DEF FileSteps, RequestSteps, SaveSteps
  <2>6. IndexUpdate(Home[w], req[w].file, req[w].meta)
    BY <1>5 DEF UpdateMeta
  <2>7. Knows' = Knows
    BY <1>0, <2>5, <2>6, UpdateKnows
  <2> QED
    BY <2>2, <2>4, <2>7, AllSteady, Stutters DEF UpNodes
<1> QED
  BY <1>2, <1>3, <1>4, <1>5, <1>6 DEF Request, Delete

LEMMA GcRefines ==
  ASSUME TypeInv, DurInv, LifeInv, NEW n \in Nodes, Gc(n)
  PROVE  [Lifecycle!Next]_(Lifecycle!vars)
<1> USE DEF diskVars, clientVars
<1>0. attr \in [Files -> Contents \union {NoMeta}] /\ gc[n] \in GcState
  BY DEF TypeInv, DiskType, GcType
<1>1. UNCHANGED <<req, wal, doomed, acked, up>> /\ up[n]
  BY DEF Gc, GcMarkBegin, GcMarkAttr, GcMarkIndex, GcSweepBegin, GcSweepData,
     GcSweepAttr, GcSweepIndex, GcEnd, GcAt
<1>2. \A g \in Files : (InTransit(g)' <=> InTransit(g)) /\ (FreshFile(g)' <=> FreshFile(g))
  BY <1>1 DEF FreshFile, InTransit
<1>3. ASSUME NEW f \in Files, f \in doomed \/ (attr'[f] = NoMeta <=> attr[f] = NoMeta),
             f \notin doomed \/ (f \in data' <=> f \in data)
      PROVE  Steady(f)
  BY <1>1, <1>2, <1>3 DEF Steady
<1>10. CASE GcMarkBegin(n)
  <2>1. UNCHANGED <<data, attr, index>>
    BY <1>10 DEF GcMarkBegin
  <2>2. PICK S \in SUBSET Files : Cross(S) /\ \A f \in S : index[n][f] # NoMeta
    BY <1>10 DEF GcMarkBegin, IsActive
  <2>3. Stages' = Stages
    BY <1>3, <2>1, AllSteady
  <2> QED
    BY <1>1, <2>1, <2>2, <2>3, MuddleMeans DEF Knows, UpNodes
<1>4. CASE GcSweepBegin(n) \/ GcEnd(n)
  <2>1. UNCHANGED <<data, attr, index, crossed>>
    BY <1>4 DEF GcSweepBegin, GcEnd
  <2> QED
    BY <1>1, <1>3, <2>1, AllSteady, Stutters DEF Knows, UpNodes
<1>5. CASE GcMarkAttr(n)
  <2>1. PICK f \in Todo(n) :
          \/ AttrWrite(f, gc[n].todo[f], InHand(f, Workers, Nodes \ {n}))
          \/ AttrWriteFails(f, InHand(f, Workers, Nodes \ {n}))
    BY <1>5 DEF GcMarkAttr
  <2>2. UNCHANGED <<data, index, crossed>>
    BY <1>5 DEF GcMarkAttr
  <2>3. /\ f \in Files /\ gc[n].todo[f] \in FileMetadata
        /\ attr[f] # NoMeta \/ f \in doomed
    BY <1>0, <2>1, InHandFacts DEF Todo, GcState, MaybeMeta
  <2>4. \A g \in Files : g \in doomed \/ (attr'[g] = NoMeta <=> attr[g] = NoMeta)
    BY <2>1, <2>3, WriteKeeps
  <2> QED
    BY <1>1, <1>3, <2>2, <2>4, AllSteady, Stutters DEF Knows, UpNodes
<1>6. CASE GcMarkIndex(n)
  <2>1. /\ gc[n].cur \in Files /\ gc[n].todo[gc[n].cur] # NoMeta
        /\ IndexUpdate(n, gc[n].cur, gc[n].todo[gc[n].cur])
        /\ UNCHANGED <<data, attr, crossed>>
    BY <1>6 DEF GcMarkIndex, GcAt, TypeInv, GcType, GcInHand
  <2>2. Knows' = Knows
    BY <2>1, UpdateKnows
  <2> QED
    BY <1>1, <1>3, <2>1, <2>2, AllSteady, Stutters DEF UpNodes
<1>7. CASE GcSweepData(n)
  <2>1. PICK f \in Todo(n) : data' = data \ {f} \/ UNCHANGED data
    BY <1>7 DEF GcSweepData, DeleteFile
  <2>2. f \in Files /\ f \in doomed /\ UNCHANGED <<attr, index, crossed>>
    BY <1>7, <2>1, InHandFacts DEF GcSweepData, GcAt, Todo
  <2>3. \A g \in Files \ {f} : Steady(g)
    BY <1>3, <2>1, <2>2
  <2>4. Knows' = Knows /\ UpNodes' = UpNodes
    BY <1>1, <2>2 DEF Knows, UpNodes
  <2>5. CASE f \in data /\ f \notin data'
    <3>1. StageOf(f) = "doomed" /\ StageOf(f)' = "gone"
      BY <1>1, <2>2, <2>5 DEF StageOf
    <3>2. Lifecycle!Become(f, "doomed", "gone")
      BY <1>1, <2>2, <2>3, <2>4, <3>1, BecomeMeans
    <3> QED
      BY <2>2, <3>2 DEF Lifecycle!Collect, Lifecycle!Next
  <2>6. CASE f \in data <=> f \in data'
    <3>1. Steady(f)
      BY <1>3, <2>2, <2>6
    <3> QED
      BY <1>1, <2>2, <2>3, <2>4, <3>1, AllSteady, Stutters
  <2> QED
    BY <2>1, <2>5, <2>6
<1>8. CASE GcSweepAttr(n)
  <2>1. /\ gc[n].cur \in Files /\ gc[n].cur \in doomed /\ UNCHANGED <<data, index, crossed>>
        /\ AttrDelete(gc[n].cur) \/ UNCHANGED attr
    BY <1>8, InHandFacts DEF GcSweepAttr, GcAt
  <2>2. \A g \in Files : g \in doomed \/ attr'[g] = attr[g]
    BY <1>0, <2>1 DEF AttrDelete
  <2> QED
    BY <1>1, <1>3, <2>1, <2>2, AllSteady, Stutters DEF Knows, UpNodes
<1>9. CASE GcSweepIndex(n)
  <2>1. PICK f \in Files : f = gc[n].cur
    BY <1>9, InHandFacts DEF GcSweepIndex, GcAt
  <2>2. /\ f \in doomed \ data /\ UNCHANGED <<data, attr, crossed>>
        /\ index' = [index EXCEPT ![n][f] = NoMeta]
    BY <1>9, <2>1, InHandFacts DEF GcSweepIndex, GcAt, LifeInv, Swept, IndexRemove, PutIndex
  <2>3. Stages' = Stages
    BY <1>3, <2>2, AllSteady
  <2>4. Knows' = [Knows EXCEPT ![n] = @ \ {f}]
    <3>1. \A k \in Nodes, g \in Files :
            index'[k][g] = IF k = n /\ g = f THEN NoMeta ELSE index[k][g]
      BY <2>2 DEF TypeInv, IndexType
    <3>2. Knows \in [Nodes -> SUBSET Files] /\ Knows' \in [Nodes -> SUBSET Files]
      BY DEF Knows
    <3>3. \A k \in Nodes : Knows'[k] = IF k = n THEN Knows[k] \ {f} ELSE Knows[k]
      BY <3>1 DEF Knows
    <3> QED
      BY <3>2, <3>3
  <2>5. n \in UpNodes /\ UNCHANGED UpNodes
    BY <1>1 DEF UpNodes
  <2>6. f \in {g \in Files : Stages[g] \in {"gone"}}
    BY <2>2 DEF Stages, StageOf
  <2>7. Lifecycle!Forget(n, f)
    BY <1>1, <2>2, <2>3, <2>4, <2>5, <2>6 DEF Lifecycle!Forget, Lifecycle!In, Stages, Knows, UpNodes
  <2> QED
    BY <2>7 DEF Lifecycle!Next
<1> QED
  BY <1>4, <1>5, <1>6, <1>7, <1>8, <1>9, <1>10 DEF Gc

\* A process reads the directory: when it starts, and when it reconciles.
LEMMA RebuildRefines ==
  ASSUME TypeInv, DurInv, LifeInv, NEW n \in Nodes, IndexRebuild(n),
         UNCHANGED <<data, attr, req, doomed, acked, crossed>>,
         \A f \in Files : FreshFile(f)' <=> FreshFile(f),
         up' = [up EXCEPT ![n] = TRUE]
  PROVE  Lifecycle!Next
<1>0. PICK S \in SUBSET Files : S = {f \in Files : ScanDir[f] # NoMeta}
  OBVIOUS
<1>1. \A f \in Files : InTransit(f)' <=> InTransit(f)
  BY DEF InTransit
<1>2. \A f \in Files : Steady(f)
  BY <1>1 DEF Steady
<1>3. Stages' = Stages
  BY <1>2, AllSteady
<1>4. Knows' = [Knows EXCEPT ![n] = S]
  <2>1. \A k \in Nodes : index'[k] = IF k = n THEN ScanDir ELSE index[k]
    BY DEF IndexRebuild, TypeInv, IndexType
  <2>2. Knows \in [Nodes -> SUBSET Files] /\ Knows' \in [Nodes -> SUBSET Files]
    BY DEF Knows
  <2>3. \A k \in Nodes : Knows'[k] = IF k = n THEN S ELSE Knows[k]
    BY <1>0, <2>1 DEF Knows
  <2> QED
    BY <2>2, <2>3
<1>5. UpNodes' = UpNodes \union {n}
  <2>1. \A k \in Nodes : up'[k] = IF k = n THEN TRUE ELSE up[k]
    BY DEF TypeInv, ProcType
  <2> QED
    BY <2>1 DEF UpNodes
<1>6. {f \in Files : Stages[f] \in {"kept", "doomed"}} \ crossed \subseteq S
  <2> SUFFICES ASSUME NEW f \in Files, Stages[f] \in {"kept", "doomed"}, f \notin crossed
               PROVE  f \in S
    OBVIOUS
  <2>1. attr[f] # NoMeta
    BY DEF Stages, StageOf, LifeInv, Whole
  <2>2. attr[f] # Torn
    BY DEF DurInv, DurParts, Clean
  <2> QED
    BY <1>0, <2>1, <2>2 DEF ScanDir
<1>7. S \subseteq {f \in Files : Stages[f] \in {"kept", "doomed", "gone"}}
  BY <1>0 DEF Stages, StageOf, ScanDir
<1>8. Lifecycle!Scan(n, S)
  BY <1>3, <1>4, <1>5, <1>6, <1>7 DEF Lifecycle!Scan, Lifecycle!In, Stages, Knows, UpNodes
<1> QED
  BY <1>8 DEF Lifecycle!Next

\* A crash loses the uploads that were coming, and the index.
LEMMA CrashRefines ==
  ASSUME TypeInv, DurInv, LifeInv, NEW n \in Nodes, Crash(n)
  PROVE  Lifecycle!Next
<1>1. PICK S \in SUBSET Files :
        S = {f \in Files : /\ f \notin doomed /\ attr[f] = NoMeta
                           /\ \E w \in Workers : Home[w] = n /\ Uploading(w, f)}
  OBVIOUS
<1>2. /\ \A k \in Nodes : up'[k] = IF k = n THEN FALSE ELSE up[k]
      /\ \A k \in Nodes : index'[k] = IF k = n THEN NoFiles ELSE index[k]
      /\ \A w \in Workers : req'[w] = IF Home[w] = n THEN Idle ELSE req[w]
      /\ UNCHANGED <<data, attr, wal, doomed, acked, crossed>> /\ up[n]
  BY DEF Crash, TypeInv, ProcType, IndexType, diskVars, clientVars
<1>3. ASSUME NEW f \in Files
      PROVE  StageOf(f)' = IF f \in S THEN "lost" ELSE StageOf(f)
  <2>1. FreshFile(f)' <=> FreshFile(f)
    BY <1>2 DEF FreshFile
  <2>2. CASE f \in S
    <3>1. PICK w \in Workers : Home[w] = n /\ Uploading(w, f)
      BY <1>1, <2>2
    <3>2. f \notin doomed /\ attr[f] = NoMeta /\ ~FreshFile(f)
      BY <1>1, <2>2, <3>1, NotFresh
    <3>3. \A v \in Workers : Uploading(v, f) => v = w
      BY <3>1, EarlyIsAlone DEF Uploading
    <3>4. ~InTransit(f)'
      BY <1>2, <3>1, <3>3 DEF InTransit, Uploading, Idle, UploadSteps
    <3> QED
      BY <1>2, <2>1, <2>2, <3>2, <3>4 DEF StageOf
  <2>3. CASE f \notin S
    <3>1. f \notin doomed /\ attr[f] = NoMeta => (InTransit(f)' <=> InTransit(f))
      BY <1>1, <1>2, <2>3 DEF InTransit, Uploading, Idle, UploadSteps
    <3>2. Steady(f)
      BY <1>2, <2>1, <3>1 DEF Steady
    <3> QED
      BY <2>3, <3>2, SteadyStage
  <2> QED
    BY <2>2, <2>3
<1>4. Stages' = [f \in Files |-> IF f \in S THEN "lost" ELSE Stages[f]]
  BY <1>3 DEF Stages
<1>5. S \subseteq {f \in Files : Stages[f] \in {"coming"}}
  BY <1>1 DEF Stages, StageOf, InTransit, Uploading
<1>6. Knows' = [Knows EXCEPT ![n] = {}]
  <2>1. Knows \in [Nodes -> SUBSET Files] /\ Knows' \in [Nodes -> SUBSET Files]
    BY DEF Knows
  <2>2. \A k \in Nodes : Knows'[k] = IF k = n THEN {} ELSE Knows[k]
    BY <1>2 DEF Knows, NoFiles
  <2> QED
    BY <2>1, <2>2
<1>7. n \in UpNodes /\ UpNodes' = UpNodes \ {n}
  BY <1>2 DEF UpNodes
<1>8. Lifecycle!Die(n, S)
  BY <1>2, <1>4, <1>5, <1>6, <1>7 DEF Lifecycle!Die, Lifecycle!In, Stages, Knows, UpNodes
<1> QED
  BY <1>8 DEF Lifecycle!Next

LEMMA InitRefines == Init => Lifecycle!Init
<1> SUFFICES ASSUME Init PROVE Lifecycle!Init
  OBVIOUS
<1>1. \A f \in Files : StageOf(f) = "new"
  BY ConstantsOK DEF Init, StageOf, NoFiles, InTransit, Idle, UploadSteps, FreshFile
<1> QED
  BY <1>1 DEF Init, Lifecycle!Init, NoFiles

LEMMA NextRefines ==
  ASSUME TypeInv, DurInv, LifeInv, [Next]_vars
  PROVE  [Lifecycle!Next]_(Lifecycle!vars)
<1> USE DEF diskVars, clientVars
<1>1. ASSUME NEW w \in Workers, Request(w) PROVE [Lifecycle!Next]_(Lifecycle!vars)
  BY <1>1, UploadRefines, OtherRequestsRefine
<1>2. ASSUME NEW n \in Nodes, ReconcileEnd(n) PROVE Lifecycle!Next
  <2>1. up' = [up EXCEPT ![n] = TRUE]
    BY <1>2 DEF ReconcileEnd, TypeInv, ProcType
  <2>2. IndexRebuild(n) /\ UNCHANGED <<data, attr, wal, req, doomed, acked, crossed>>
    BY <1>2 DEF ReconcileEnd
  <2> QED
    BY <2>1, <2>2, RebuildRefines DEF FreshFile
<1>3. ASSUME NEW n \in Nodes, Start(n) PROVE Lifecycle!Next
  <2>1. /\ IndexRebuild(n) /\ UNCHANGED <<data, attr, req, doomed, acked, crossed>>
        /\ up' = [up EXCEPT ![n] = TRUE] /\ RecoverWal(n)
    BY <1>3 DEF Start
  <2>2. \A f \in Files : FreshFile(f)' <=> FreshFile(f)
    BY <2>1 DEF RecoverWal, FreshFile, TypeInv, DiskType
  <2> QED
    BY <2>1, <2>2, RebuildRefines
<1>4. ASSUME (\E n \in Nodes : ReconcileBegin(n)) \/ (\E f \in Files : TtlPasses(f))
               \/ UNCHANGED vars
      PROVE  UNCHANGED Lifecycle!vars
  <2>1. UNCHANGED <<data, attr, wal, doomed, acked, req, index, up, crossed>>
    BY <1>4 DEF ReconcileBegin, TtlPasses, vars
  <2>2. \A f \in Files : Steady(f)
    BY <2>1 DEF Steady, FreshFile, InTransit
  <2> QED
    BY <2>1, <2>2, AllSteady, Stutters DEF Knows, UpNodes
<1>5. ASSUME NEW f \in Files, AttrOverwritten(f) PROVE UNCHANGED Lifecycle!vars
  <2>1. PICK c \in {Torn} \union InHand(f, Workers, Nodes) :
          attr[f] # NoMeta /\ attr' = [attr EXCEPT ![f] = c]
    BY <1>5 DEF AttrOverwritten
  <2>2. c # NoMeta
    BY ConstantsOK, InHandType DEF MaybeMeta, TypeInv
  <2>3. \A g \in Files : attr'[g] = NoMeta <=> attr[g] = NoMeta
    BY <2>1, <2>2 DEF TypeInv, DiskType
  <2>4. UNCHANGED <<data, wal, doomed, acked, req, index, up, crossed>>
    BY <1>5 DEF AttrOverwritten
  <2>5. \A g \in Files : Steady(g)
    BY <2>3, <2>4 DEF Steady, FreshFile, InTransit
  <2> QED
    BY <2>4, <2>5, AllSteady, Stutters DEF Knows, UpNodes
<1> QED
  BY <1>1, <1>2, <1>3, <1>4, <1>5, GcRefines, CrashRefines DEF Next, Reconcile

LEMMA InitLife == Init => LifeInv
BY DEF Init, LifeInv, Swept, Whole, Answered, GcIdle, Idle

\* Every behaviour of any number of processes over one data directory takes
\* each file through the one life FileLifecycle describes, whatever crashes and
\* disk errors do (Upload and its rollback, RunOnce of the GC and of the
\* reconciliation, DeleteFile, main).
THEOREM FilesLiveOnce == Spec => IsFileLifecycle
<1>1. TypeInv /\ DurInv /\ LifeInv /\ [Next]_vars => LifeInv'
  BY LifeStep
<1>2. TypeInv /\ DurInv /\ LifeInv /\ [Next]_vars => [Lifecycle!Next]_(Lifecycle!vars)
  BY NextRefines
<1> QED
  BY <1>1, <1>2, InitLife, InitRefines, Invariant, PTL
     DEF Spec, IsFileLifecycle, Lifecycle!Spec

-----------------------------------------------------------------------------
(* What the abstract specification is worth: the promise to a client that  *)
(* was answered 201 follows from it alone, so whatever implements it keeps *)
(* the promise.                                                            *)

LifecycleInv == acked \in Lifecycle!Promises /\ Lifecycle!KnownWasKept /\ Lifecycle!Reliable

LEMMA LifecycleStep ==
  ASSUME LifecycleInv, [Lifecycle!Next]_(Lifecycle!vars)
  PROVE  LifecycleInv'
<1> DEFINE Past(f) == Stages[f] \in {"kept", "doomed", "gone"}
<1>0. /\ acked \in [Nodes -> SUBSET Files]
      /\ \A n \in Nodes : Knows[n] \subseteq Files /\ \A f \in Knows[n] : Past(f)
      /\ \A n \in Nodes : \A f \in acked[n] :
            /\ Past(f)
            /\ n \in UpNodes => f \in Knows[n] \union crossed \/ Stages[f] = "gone"
  BY DEF LifecycleInv, Lifecycle!Promises, Lifecycle!KnownWasKept, Lifecycle!Reliable,
         Lifecycle!In, Stages, Knows, UpNodes
<1>1. ASSUME acked' \in [Nodes -> SUBSET Files],
             \A n \in Nodes : Knows'[n] \subseteq Files /\ \A f \in Knows'[n] : Past(f)',
             \A n \in Nodes : \A f \in acked'[n] :
               /\ Past(f)'
               /\ n \in UpNodes' => f \in Knows'[n] \union crossed' \/ Stages'[f] = "gone"
      PROVE  LifecycleInv'
  BY <1>1 DEF LifecycleInv, Lifecycle!Promises, Lifecycle!KnownWasKept, Lifecycle!Reliable,
         Lifecycle!In, Stages, Knows, UpNodes
<1>2. ASSUME NEW f \in Files, NEW from, NEW to, Lifecycle!Become(f, from, to),
             to \in {"kept", "doomed", "gone"} \/ from \notin {"kept", "doomed", "gone"},
             from # "gone", crossed \subseteq crossed'
      PROVE  LifecycleInv'
  <2>1. /\ Stages' = [Stages EXCEPT ![f] = to] /\ Stages[f] = from
        /\ acked' = acked /\ Knows' = Knows /\ UpNodes' = UpNodes
    BY <1>2 DEF Lifecycle!Become, Stages, Knows, UpNodes
  <2>2. \A g \in Files : Stages'[g] = IF g = f THEN to ELSE Stages[g]
    BY <2>1 DEF Stages
  <2> HIDE DEF Past
  <2>3. \A g \in Files : Past(g) => Past(g)'
    BY <1>2, <2>1, <2>2 DEF Past
  <2> QED
    BY <1>0, <1>1, <1>2, <2>1, <2>2, <2>3
<1>3. ASSUME UNCHANGED Stages, acked' \in [Nodes -> SUBSET Files],
             \A n \in Nodes : Knows'[n] \subseteq Files /\ \A f \in Knows'[n] : Past(f),
             \A n \in Nodes : \A f \in acked'[n] :
               /\ Past(f)
               /\ n \in UpNodes' => f \in Knows'[n] \union crossed' \/ Stages[f] = "gone"
      PROVE  LifecycleInv'
  <2>1. \A f : Past(f)' <=> Past(f)
    BY <1>3
  <2> HIDE DEF Past
  <2> QED
    BY <1>1, <1>3, <2>1
<1>4. ASSUME NEW f \in Files, Lifecycle!Begin(f) \/ Lifecycle!Keep(f) \/ Lifecycle!GiveUp(f)
                                \/ Lifecycle!Collect(f)
      PROVE  LifecycleInv'
  BY <1>2, <1>4 DEF Lifecycle!Begin, Lifecycle!Keep, Lifecycle!GiveUp, Lifecycle!Collect
<1>5. ASSUME NEW n \in Nodes, NEW f \in Files, Lifecycle!Doom(n, f) PROVE LifecycleInv'
  BY <1>2, <1>5 DEF Lifecycle!Doom
<1>6. ASSUME NEW n \in Nodes, NEW f \in Files,
             Lifecycle!Learn(n, f) \/ Lifecycle!Forget(n, f) \/ Lifecycle!Promise(n, f)
      PROVE  LifecycleInv'
  <2>1. CASE Lifecycle!Learn(n, f)
    <3>1. /\ Stages' = Stages /\ UpNodes' = UpNodes /\ acked' = acked /\ Past(f)
          /\ crossed' = crossed
          /\ Knows' = [Knows EXCEPT ![n] = @ \union {f}]
      BY <2>1 DEF Lifecycle!Learn, Lifecycle!In, Stages, Knows, UpNodes
    <3>2. \A k \in Nodes : Knows'[k] = IF k = n THEN Knows[k] \union {f} ELSE Knows[k]
      BY <3>1 DEF Knows
    <3> HIDE DEF Past
    <3> QED
      BY <1>0, <1>3, <3>1, <3>2
  <2>2. CASE Lifecycle!Forget(n, f)
    <3>1. /\ Stages' = Stages /\ UpNodes' = UpNodes /\ acked' = acked /\ Stages[f] = "gone"
          /\ crossed' = crossed
          /\ Knows' = [Knows EXCEPT ![n] = @ \ {f}]
      BY <2>2 DEF Lifecycle!Forget, Lifecycle!In, Stages, Knows, UpNodes
    <3>2. \A k \in Nodes : Knows'[k] = IF k = n THEN Knows[k] \ {f} ELSE Knows[k]
      BY <3>1 DEF Knows
    <3> HIDE DEF Past
    <3> QED
      BY <1>0, <1>3, <3>1, <3>2
  <2>3. CASE Lifecycle!Promise(n, f)
    <3>1. /\ Stages' = Stages /\ UpNodes' = UpNodes /\ Knows' = Knows
          /\ acked' = [acked EXCEPT ![n] = @ \union {f}]
          /\ f \in Knows[n] \/ Stages[f] = "gone" \/ (f \in crossed /\ Past(f))
          /\ crossed' = crossed
      BY <2>3 DEF Lifecycle!Promise, Lifecycle!In, Stages, Knows, UpNodes
    <3>2. acked' \in [Nodes -> SUBSET Files]
          /\ \A k \in Nodes : acked'[k] = IF k = n THEN acked[k] \union {f} ELSE acked[k]
      BY <1>0, <3>1
    <3>3. Past(f)
      BY <1>0, <3>1
    <3> HIDE DEF Past
    <3> QED
      BY <1>0, <1>3, <3>1, <3>2, <3>3
  <2> QED
    BY <1>6, <2>1, <2>2, <2>3
<1>7. ASSUME NEW n \in Nodes, NEW S \in SUBSET Files, Lifecycle!Scan(n, S) PROVE LifecycleInv'
  <2>1. /\ Stages' = Stages /\ UpNodes' = UpNodes \union {n} /\ acked' = acked
        /\ Knows' = [Knows EXCEPT ![n] = S] /\ crossed' = crossed
        /\ \A f \in S : Past(f)
        /\ \A f \in Files : Past(f) => f \in S \union crossed \/ Stages[f] = "gone"
    BY <1>7 DEF Lifecycle!Scan, Lifecycle!In, Stages, Knows, UpNodes
  <2>2. \A k \in Nodes : Knows'[k] = IF k = n THEN S ELSE Knows[k]
    BY <2>1 DEF Knows
  <2> HIDE DEF Past
  <2> QED
    BY <1>0, <1>3, <2>1, <2>2
<1>8. ASSUME NEW n \in Nodes, NEW S \in SUBSET Files, Lifecycle!Die(n, S) PROVE LifecycleInv'
  <2>1. /\ Stages' = [f \in Files |-> IF f \in S THEN "lost" ELSE Stages[f]]
        /\ UpNodes' = UpNodes \ {n} /\ acked' = acked /\ crossed' = crossed
        /\ Knows' = [Knows EXCEPT ![n] = {}]
        /\ \A f \in S : Stages[f] = "coming"
    BY <1>8 DEF Lifecycle!Die, Lifecycle!In, Stages, Knows, UpNodes
  <2>2. \A k \in Nodes : Knows'[k] = IF k = n THEN {} ELSE Knows[k]
    BY <2>1 DEF Knows
  <2>3. \A f \in Files : /\ Past(f) => Past(f)'
                         /\ Stages[f] = "gone" => Stages'[f] = "gone"
    BY <2>1
  <2> HIDE DEF Past
  <2> QED
    BY <1>0, <1>1, <2>1, <2>2, <2>3
<1>9. CASE UNCHANGED Lifecycle!vars \/ \E S \in SUBSET Files : Lifecycle!Muddle(S)
  <2>1. /\ Stages' = Stages /\ UpNodes' = UpNodes /\ acked' = acked /\ Knows' = Knows
        /\ crossed \subseteq crossed'
    BY <1>9 DEF Lifecycle!vars, Lifecycle!Muddle, Stages, Knows, UpNodes
  <2> HIDE DEF Past
  <2> QED
    BY <1>0, <1>3, <2>1
<1> QED
  BY <1>4, <1>5, <1>6, <1>7, <1>8, <1>9 DEF Lifecycle!Next

\* A system that behaves as FileLifecycle says keeps its promise to clients: what
\* was answered 201 has been kept, and the process that answered knows it as
\* long as there is anything left of it, through its own restarts too.
THEOREM LifecycleIsReliable == Lifecycle!Spec => []Lifecycle!Reliable
<1>1. Lifecycle!Init => LifecycleInv
  <2> SUFFICES ASSUME Lifecycle!Init PROVE LifecycleInv
    OBVIOUS
  <2>1. acked = [n \in Nodes |-> {}]
    BY DEF Lifecycle!Init
  <2>2. Knows = [n \in Nodes |-> {}]
    BY DEF Lifecycle!Init, Knows
  <2>3. \A n \in Nodes : acked[n] = {} /\ Knows[n] = {}
    BY <2>1, <2>2
  <2> QED
    BY <2>1, <2>3 DEF LifecycleInv, Lifecycle!Promises, Lifecycle!KnownWasKept,
       Lifecycle!Reliable, Knows
<1>2. LifecycleInv /\ [Lifecycle!Next]_(Lifecycle!vars) => LifecycleInv'
  BY LifecycleStep
<1>3. LifecycleInv => Lifecycle!Reliable
  BY DEF LifecycleInv
<1> QED
  BY <1>1, <1>2, <1>3, PTL DEF Lifecycle!Spec

-----------------------------------------------------------------------------
(* The index of a process that has the directory to itself.  For a file no *)
(* two operations have met on, it differs from what is on disk only while  *)
(* a request or the GC is between its two writes, and only that one will   *)
(* bring the two together again.                                           *)

Works(w, f) ==
  /\ req[w].file = f
  /\ req[w].step \in {"add", "patch", "patchIndex", "del", "delIndex"}

Sunk(m) == m = NoMeta \/ m.status = "deleted"

Sweeping(n, f) == gc[n].step = "sweepIndex" /\ gc[n].cur = f

\* What a request knows of the file it works on.
RequestSees(w, n, f) ==
  LET m == req[w].meta
      a == attr[f]
      i == index[n][f]
  IN
  CASE req[w].step = "patch"      -> ~Sunk(m) /\ ~Sunk(a) /\ i = a
    [] req[w].step = "del"        -> Sunk(m) /\ ~Sunk(a) /\ i = a
    [] req[w].step = "add"        -> ~Sunk(m) /\ a = m /\ i \in {NoMeta, m}
    [] req[w].step = "patchIndex" -> ~Sunk(m) /\ a = m /\ ~Sunk(i)
    [] req[w].step = "delIndex"   ->
         /\ Sunk(m)
         /\ \/ a = m /\ i # NoMeta
            \/ a = NoMeta /\ (i = NoMeta \/ (Sunk(i) /\ Sweeping(n, f)))
    [] OTHER -> TRUE

\* What a pass of the GC knows of a file that it still has to handle.
GcSees(n, f) ==
  LET m == gc[n].todo[f]
      a == attr[f]
      i == index[n][f]
  IN
  /\ gc[n].step # "idle"
  /\ gc[n].step \in {"mark", "markIndex"} =>
       /\ ~Sunk(m) /\ ~Sunk(i)
       /\ IF gc[n].step = "markIndex" /\ gc[n].cur = f THEN a = m ELSE i = a
  /\ gc[n].step \in {"sweep", "sweepAttr", "sweepIndex"} =>
       /\ Sunk(a) /\ Sunk(i)
       /\ Sweeping(n, f) => a = NoMeta
       /\ \A w \in Workers : Works(w, f) => req[w].step = "delIndex"

\* Somebody has written attr.json and is about to bring the index up to it.
Settling(n, f) ==
  \/ \E w \in Workers : Works(w, f) /\ req[w].step \in {"add", "patchIndex", "delIndex"}
  \/ gc[n].step \in {"markIndex", "sweepIndex"} /\ gc[n].cur = f

Mirrored(n, f) ==
  /\ \A w \in Workers : Works(w, f) => RequestSees(w, n, f)
  /\ gc[n].todo[f] # NoMeta => GcSees(n, f)
  /\ up[n] => index[n][f] = attr[f] \/ Settling(n, f)

\* The files the mirror is kept for: an attr.json that the GC could not remove
\* after the data stays behind.
Kept(f) == f \notin crossed /\ (IOErrors => f \in data)

MirrorInv == \A n \in Nodes : \A f \in Files : Kept(f) => Mirrored(n, f)

LEMMA MirrorTypes ==
  ASSUME TypeInv
  PROVE  /\ req \in [Workers -> Request_] /\ gc \in [Nodes -> GcState]
         /\ attr \in [Files -> Contents \union {NoMeta}]
         /\ index \in [Nodes -> [Files -> MaybeMeta]]
         /\ \A n \in Nodes : gc[n].todo \in [Files -> MaybeMeta]
         /\ \A w \in Workers : Home[w] \in Nodes
         /\ \A w \in Workers : req[w].step \in FileSteps =>
              req[w].file \in Files /\ req[w].meta \in FileMetadata
         /\ \A m \in FileMetadata : m # NoMeta
BY ConstantsOK DEF TypeInv, ReqType, ReqInHand, GcType, GcState, DiskType, IndexType,
   FileSteps, SaveSteps

\* Nothing that is said of f changes, and what changes about requests is not f's.
LEMMA MirrorFrame ==
  ASSUME MirrorInv, NEW n \in Nodes, NEW f \in Files, Kept(f)', crossed \subseteq crossed',
         f \in data' => f \in data, attr'[f] = attr[f], index'[n][f] = index[n][f],
         up'[n] = up[n], gc'[n] = gc[n],
         \A w \in Workers : req'[w] = req[w] \/ (~Works(w, f) /\ ~Works(w, f)')
  PROVE  Mirrored(n, f)'
<1>1. Mirrored(n, f)
  BY DEF MirrorInv, Kept
<1>2. Sweeping(n, f)' <=> Sweeping(n, f)
  BY DEF Sweeping
<1>3. ASSUME NEW w \in Workers, Works(w, f)'
      PROVE  RequestSees(w, n, f)'
  <2>1. Works(w, f) /\ req'[w] = req[w]
    BY <1>3 DEF Works
  <2> QED
    BY <1>1, <1>2, <2>1 DEF Mirrored, RequestSees
<1>4. GcSees(n, f) => GcSees(n, f)'
  BY <1>2 DEF GcSees, Works
<1>5. Settling(n, f) => Settling(n, f)'
  BY DEF Settling, Works
<1> QED
  BY <1>1, <1>3, <1>4, <1>5 DEF Mirrored

\* Whoever works on a file that is kept is alone with it.
LEMMA MirrorAlone ==
  ASSUME TypeInv, DurInv, NEW f \in Files, Kept(f), NEW w \in Workers, Works(w, f)
  PROVE  /\ \A v \in Workers \ {w} : ~Works(v, f)
         /\ \A n \in Nodes : ~BusyGc(n, f)
         /\ BesideReq(w, f) = {} /\ scraps[f] = {}
<1>1. DurParts(f) /\ BusyReq(w, f) /\ f \notin crossed
  BY DEF DurInv, Works, BusyReq, Kept
<1>2. \A v \in Workers : Works(v, f) => BusyReq(v, f)
  BY DEF Works, BusyReq
<1> QED
  BY <1>1, <1>2, AloneAtWork DEF DurParts, Clean

\* A request may begin on what a client sees of a file: that is what is on disk.
LEMMA BeginsLevel ==
  ASSUME TypeInv, MirrorInv, NEW n \in Nodes, up[n], NEW f \in Files, Kept(f), ~Busy(f),
         ~Sunk(index[n][f])
  PROVE  /\ index[n][f] = attr[f]
         /\ \A v \in Workers : ~Works(v, f)
         /\ gc[n].todo[f] = NoMeta
<1>1. Mirrored(n, f)
  BY DEF MirrorInv
<1>2. \A v \in Workers : ~Works(v, f)
  BY DEF Busy, BusyReq, Works
<1>3. gc[n].todo[f] = NoMeta
  <2>1. gc[n].todo[f] # NoMeta =>
          gc[n].step \in {"idle", "sweep", "sweepAttr", "sweepIndex"}
    BY DEF Busy, BusyGc, TypeInv, GcType, GcState, GcSteps
  <2> QED
    BY <1>1, <2>1 DEF Mirrored, GcSees
<1>4. ~(gc[n].step \in {"markIndex", "sweepIndex"} /\ gc[n].cur = f)
  BY <1>3 DEF TypeInv, GcType, GcInHand
<1> QED
  BY <1>1, <1>2, <1>3, <1>4 DEF Mirrored, Settling

\* The steps of an upload, seen from one file that stays kept.
LEMMA UploadMirror ==
  ASSUME TypeInv, DurInv, MirrorInv, OneProcess, NEW w \in Workers, Upload(w),
         NEW n \in Nodes, NEW f \in Files, Kept(f)'
  PROVE  Mirrored(n, f)'
<1> USE DEF diskVars, clientVars
<1>0. /\ req \in [Workers -> Request_] /\ Home[w] = n
      /\ attr \in [Files -> Contents \union {NoMeta}]
      /\ index \in [Nodes -> [Files -> MaybeMeta]]
  BY MirrorTypes DEF OneProcess
<1>1. /\ UNCHANGED <<gc, up, crossed>>
      /\ \A v \in Workers \ {w} : req'[v] = req[v]
  <2>1. UNCHANGED <<gc, up, crossed>>
    BY DEF Upload, UploadStart, UploadSave, UploadReject, UploadAttr, UploadUndo,
       UploadIndex, UploadCommit
  <2>2. CASE UploadSave(w)
    BY <1>0, <2>1, <2>2 DEF UploadSave, Finish
  <2>3. CASE ~UploadSave(w)
    BY <1>0, <2>1, <2>3 DEF Upload, UploadStart, UploadReject, UploadAttr, UploadUndo,
       UploadIndex, UploadCommit, Begin, Goto, Finish
  <2> QED
    BY <2>1, <2>2, <2>3
<1>2. ASSUME UNCHANGED <<attr, index>>, f \in data' => f \in data,
             ~Works(w, f), ~Works(w, f)'
      PROVE  Mirrored(n, f)'
  BY <1>1, <1>2, MirrorFrame
<1>3. ASSUME NEW g \in Files, NEW d \in Descs, UploadStart(w, g, d) PROVE Mirrored(n, f)'
  BY <1>0, <1>2, <1>3 DEF UploadStart, Begin, Idle, At, Works
<1>4. CASE UploadSave(w) /\ req[w].file = f
  <2>1. req[w].step \in EarlySteps /\ DurParts(f)
    BY <1>4 DEF UploadSave, At, EarlySteps, DurInv
  <2>2. /\ \A v \in Workers \ {w} : ~Works(v, f)
        /\ gc[n].todo[f] = NoMeta /\ index[n][f] = NoMeta /\ attr[f] = NoMeta
    BY <1>4, <2>1, PrivateAlone DEF Works, FileSteps, RequestSteps, SaveSteps
  <2>3. ~Works(w, f)' /\ UNCHANGED <<attr, index>>
    BY <1>0, <1>4 DEF UploadSave, Finish, Idle, Works, Request_
  <2> QED
    BY <1>1, <2>2, <2>3 DEF Mirrored, Works
<1>5. CASE UploadSave(w) /\ req[w].file # f
  <2>1. ~Works(w, f) /\ ~Works(w, f)' /\ UNCHANGED <<attr, index>>
    BY <1>0, <1>5 DEF UploadSave, Finish, Idle, At, Works, Request_
  <2>2. f \in data' => f \in data
    BY <1>5 DEF UploadSave, SaveFile
  <2> QED
    BY <1>2, <2>1, <2>2
<1>6. CASE UploadReject(w)
  <2>1. ~Works(w, f) /\ ~Works(w, f)'
    BY <1>0, <1>6 DEF UploadReject, Goto, At, Works, Request_
  <2> QED
    BY <1>2, <1>6, <2>1 DEF UploadReject
<1>7. CASE UploadCommit(w)
  <2>1. ~Works(w, f) /\ ~Works(w, f)'
    BY <1>0, <1>7 DEF UploadCommit, Finish, Idle, At, Works
  <2> QED
    BY <1>2, <1>7, <2>1 DEF UploadCommit
<1>8. CASE UploadUndo(w)
  <2>1. ~Works(w, f) /\ ~Works(w, f)'
    BY <1>0, <1>8 DEF UploadUndo, Finish, Idle, At, Works
  <2>2. attr[req[w].file] = NoMeta
    BY <1>8, EarlyIsComing DEF UploadUndo, At, EarlySteps
  <2>3. UNCHANGED <<attr, index>> /\ data' \subseteq data
    BY <1>0, <1>8, <2>2 DEF UploadUndo, AttrDelete, DeleteFile
  <2> QED
    BY <1>2, <2>1, <2>3
<1>9. CASE UploadAttr(w) /\ req[w].file # f
  <2>1. ~Works(w, f) /\ ~Works(w, f)'
    BY <1>0, <1>9 DEF UploadAttr, Goto, Works, Request_
  <2>2. attr'[f] = attr[f] /\ UNCHANGED <<index, data>>
    BY <1>0, <1>9 DEF UploadAttr, AttrWrite
  <2> QED
    BY <1>1, <2>1, <2>2, MirrorFrame
<1>10. CASE UploadAttr(w) /\ req[w].file = f
  <2>1. req[w].step \in EarlySteps /\ req[w].step = "attr" /\ DurParts(f)
    BY <1>10 DEF UploadAttr, At, EarlySteps, DurInv
  <2>2. /\ \A v \in Workers \ {w} : ~Works(v, f)
        /\ gc[n].todo[f] = NoMeta /\ index[n][f] = NoMeta /\ attr[f] = NoMeta
        /\ scraps[f] = {} /\ f \notin doomed /\ InHand(f, Workers \ {w}, Nodes) = {}
    BY <1>10, <2>1, PrivateAlone DEF Works, FileSteps, RequestSteps, SaveSteps
  <2>3. attr'[f] = req[w].meta /\ UNCHANGED <<index, data>>
    BY <1>0, <1>10, <2>2 DEF UploadAttr, AttrWrite, BesideReq
  <2>4. req'[w].step = "add" /\ req'[w].file = f /\ req'[w].meta = req[w].meta
    BY <1>0, <1>10 DEF UploadAttr, Goto, Request_
  <2>5. ~Sunk(req[w].meta)
    BY <1>10, <2>1, <2>2, InHandFacts DEF Sunk, FileSteps, RequestSteps, SaveSteps
  <2> QED
    BY <1>1, <2>2, <2>3, <2>4, <2>5 DEF Mirrored, RequestSees, Settling, Works
<1>11. CASE UploadIndex(w) /\ req[w].file # f
  <2>1. ~Works(w, f) /\ ~Works(w, f)'
    BY <1>0, <1>11 DEF UploadIndex, Goto, Works, Request_
  <2>2. index'[n][f] = index[n][f] /\ UNCHANGED <<attr, data>>
    BY <1>0, <1>11 DEF UploadIndex, IndexAdd, PutIndex
  <2> QED
    BY <1>1, <2>1, <2>2, MirrorFrame
<1>12. CASE UploadIndex(w) /\ req[w].file = f
  <2>1. Works(w, f) /\ req[w].step = "add" /\ UNCHANGED <<attr, data>>
    BY <1>12 DEF UploadIndex, At, Works
  <2>2. Kept(f)
    BY <1>1, <2>1 DEF Kept
  <2>3. \A v \in Workers \ {w} : ~Works(v, f)
    BY <2>1, <2>2, MirrorAlone
  <2>4. attr[f] = req[w].meta /\ gc[n].todo[f] = NoMeta
    <3>1. Mirrored(n, f) /\ ~BusyGc(n, f)
      BY <2>1, <2>2, MirrorAlone DEF MirrorInv
    <3>2. gc[n].todo[f] # NoMeta => ~GcSees(n, f)
      BY <2>1, <3>1 DEF GcSees, BusyGc, TypeInv, GcType, GcState, GcSteps, MirrorInv
    <3> QED
      BY <2>1, <3>1, <3>2 DEF Mirrored, RequestSees
  <2>5. index'[n][f] = req[w].meta
    BY <1>0, <1>12 DEF UploadIndex, IndexAdd, PutIndex
  <2>6. ~Works(w, f)'
    BY <1>0, <1>12 DEF UploadIndex, Goto, Works, Request_
  <2> QED
    BY <1>1, <2>1, <2>3, <2>4, <2>5, <2>6 DEF Mirrored, Works
<1> QED
  BY <1>3, <1>4, <1>5, <1>6, <1>7, <1>8, <1>9, <1>10, <1>11, <1>12 DEF Upload

\* The steps of the other requests.
LEMMA RequestMirror ==
  ASSUME TypeInv, DurInv, MirrorInv, OneProcess, NEW w \in Workers, Request(w), ~Upload(w),
         NEW n \in Nodes, NEW f \in Files, Kept(f)'
  PROVE  Mirrored(n, f)'
<1> USE DEF diskVars, clientVars
<1>0. /\ req \in [Workers -> Request_] /\ Home[w] = n
      /\ attr \in [Files -> Contents \union {NoMeta}]
      /\ index \in [Nodes -> [Files -> MaybeMeta]]
  BY MirrorTypes DEF OneProcess
<1>1. UNCHANGED <<gc, up, data>> /\ crossed \subseteq crossed'
  BY DEF Request, Patch, PatchStart, Delete, DeleteStart, Cross, WriteMeta, UpdateMeta,
     TransitionMode, TransitionTo, SaveMode
<1>2. Kept(f)
  BY <1>1 DEF Kept
<1>3. Mirrored(n, f)
  BY <1>2 DEF MirrorInv
<1>4. ASSUME attr'[f] = attr[f], index'[n][f] = index[n][f],
             \A v \in Workers \ {w} : req'[v] = req[v],
             ~Works(w, f), ~Works(w, f)'
      PROVE  Mirrored(n, f)'
  BY <1>1, <1>4, MirrorFrame
<1>5. CASE TransitionMode(w)
  <2>1. PICK t \in Modes, c \in BOOLEAN : TransitionTo(w, t, c)
    BY <1>5 DEF TransitionMode
  <2>2. ReqType
    BY DEF TypeInv
  <2>3. ASSUME NEW v \in Workers, Works(v, f) \/ Works(v, f)' PROVE req'[v] = req[v]
    <3>1. v # w /\ v \notin Saving(Home[w])
      BY <2>1, <2>2, <2>3, TransitionReq DEF Works, Saving, SaveSteps
    <3> QED
      BY <2>1, <3>1 DEF TransitionTo
  <2> QED
    BY <1>1, <1>5, <2>1, <2>3, MirrorFrame DEF TransitionTo
<1>6. CASE SaveMode(w)
  BY <1>0, <1>4, <1>6 DEF SaveMode, Finish, Idle, At, Works, SaveSteps
<1>7. CASE Patch(w) \/ Delete(w)
  <2>1. PICK g \in Files, m \in FileMetadata, step \in {"patch", "del"} :
          /\ At(w, "idle") /\ Cross({g}) /\ Begin(w, step, g, m)
          /\ ~Sunk(index[n][g]) /\ (step = "del" <=> Sunk(m))
          /\ UNCHANGED <<attr, index>>
    <3>1. ASSUME NEW g \in Files, NEW d \in Descs, PatchStart(w, g, d)
          PROVE  /\ At(w, "idle") /\ Cross({g})
                 /\ Begin(w, "patch", g, [index[n][g] EXCEPT !.description = d])
                 /\ [index[n][g] EXCEPT !.description = d] \in FileMetadata
                 /\ ~Sunk([index[n][g] EXCEPT !.description = d])
                 /\ ~Sunk(index[n][g])
                 /\ UNCHANGED <<attr, index>>
      BY <1>0, <3>1, ConstantsOK DEF PatchStart, IsActive, MaybeMeta, FileMetadata, Sunk
    <3>2. ASSUME NEW g \in Files, DeleteStart(w, g)
          PROVE  /\ At(w, "idle") /\ Cross({g})
                 /\ Begin(w, "del", g, [index[n][g] EXCEPT !.status = "deleted"])
                 /\ [index[n][g] EXCEPT !.status = "deleted"] \in FileMetadata
                 /\ Sunk([index[n][g] EXCEPT !.status = "deleted"])
                 /\ ~Sunk(index[n][g])
                 /\ UNCHANGED <<attr, index>>
      BY <1>0, <3>2 DEF DeleteStart, MaybeMeta, FileMetadata, Statuses, Sunk
    <3> QED
      BY <1>7, <3>1, <3>2 DEF Patch, Delete
  <2>2. req'[w].step = step /\ req'[w].file = g /\ req'[w].meta = m
    BY <1>0, <2>1 DEF Begin, Idle
  <2>3. ~Works(w, f) /\ \A v \in Workers \ {w} : req'[v] = req[v]
    BY <1>0, <2>1 DEF At, Begin, Works
  <2>4. CASE g # f
    BY <1>4, <2>1, <2>2, <2>3, <2>4 DEF Works
  <2>5. CASE g = f
    <3>1. ~Busy(f)
      BY <2>1, <2>5 DEF Cross, Kept
    <3>2. up[n]
      BY <1>0, <2>1 DEF At
    <3>3. /\ index[n][f] = attr[f] /\ gc[n].todo[f] = NoMeta
          /\ \A v \in Workers : ~Works(v, f)
      BY <1>2, <2>1, <2>5, <3>1, <3>2, BeginsLevel
    <3> QED
      BY <1>1, <2>1, <2>2, <2>3, <2>5, <3>3 DEF Mirrored, RequestSees, Works
  <2> QED
    BY <2>4, <2>5
<1>8. CASE WriteMeta(w)
  <2>1. index' = index /\ \A v \in Workers \ {w} : req'[v] = req[v]
    BY <1>0, <1>8 DEF WriteMeta, Goto, Finish
  <2>2. CASE req[w].file # f
    <3>1. attr'[f] = attr[f]
      BY <1>0, <1>8, <2>2 DEF WriteMeta, AttrWrite, AttrWriteFails
    <3>2. ~Works(w, f) /\ ~Works(w, f)'
      BY <1>0, <1>8, <2>2 DEF WriteMeta, Goto, Finish, Idle, Works, Request_
    <3> QED
      BY <1>4, <2>1, <3>1, <3>2
  <2>3. CASE req[w].file = f
    <3>1. Works(w, f) /\ req[w].step \in {"patch", "del"}
      BY <1>8, <2>3 DEF WriteMeta, At, Works
    <3>2. /\ \A v \in Workers \ {w} : ~Works(v, f)
          /\ ~BusyGc(n, f) /\ BesideReq(w, f) = {} /\ scraps[f] = {}
      BY <1>2, <3>1, MirrorAlone
    <3>3. RequestSees(w, n, f)
      BY <1>3, <3>1 DEF Mirrored
    <3>4. gc[n].todo[f] = NoMeta
      BY <1>3, <3>1, <3>2 DEF Mirrored, GcSees, BusyGc, TypeInv, GcType, GcState, GcSteps
    <3>5. CASE AttrWriteFails(f, BesideReq(w, f)) /\ Finish(w)
      <4>1. attr' = attr /\ ~Works(w, f)'
        BY <1>0, <3>5 DEF AttrWriteFails, Finish, Idle, Works
      <4>2. index[n][f] = attr[f]
        BY <3>1, <3>3 DEF RequestSees
      <4> QED
        BY <1>1, <2>1, <3>2, <3>4, <4>1, <4>2 DEF Mirrored, Works
    <3>6. CASE /\ AttrWrite(f, req[w].meta, BesideReq(w, f))
               /\ \/ req[w].step = "patch" /\ Goto(w, "patchIndex")
                  \/ req[w].step = "del" /\ Goto(w, "delIndex")
      <4>1. attr'[f] = req[w].meta
        BY <1>0, <3>2, <3>6 DEF AttrWrite
      <4>2. /\ req'[w].step = IF req[w].step = "patch" THEN "patchIndex" ELSE "delIndex"
            /\ req'[w].file = f /\ req'[w].meta = req[w].meta
        BY <1>0, <2>3, <3>1, <3>6 DEF Goto, Request_
      <4>3. RequestSees(w, n, f)'
        BY <2>1, <3>1, <3>3, <4>1, <4>2 DEF RequestSees, Sunk
      <4> QED
        BY <1>1, <2>1, <3>1, <3>2, <3>4, <4>2, <4>3 DEF Mirrored, Settling, Works
    <3> QED
      BY <1>8, <2>3, <3>5, <3>6 DEF WriteMeta, At
  <2> QED
    BY <2>2, <2>3
<1>9. CASE UpdateMeta(w)
  <2>1. /\ attr' = attr /\ ~Works(w, f)'
        /\ \A v \in Workers \ {w} : req'[v] = req[v]
    BY <1>0, <1>9 DEF UpdateMeta, Finish, Idle, Works
  <2>2. CASE req[w].file # f
    <3>1. index'[n][f] = index[n][f]
      BY <1>0, <1>9, <2>2 DEF UpdateMeta, IndexUpdate, PutIndex
    <3> QED
      BY <1>4, <2>1, <2>2, <3>1 DEF Works
  <2>3. CASE req[w].file = f
    <3>1. Works(w, f) /\ req[w].step \in {"patchIndex", "delIndex"}
      BY <1>9, <2>3 DEF UpdateMeta, At, Works
    <3>2. (\A v \in Workers \ {w} : ~Works(v, f)) /\ ~BusyGc(n, f)
      BY <1>2, <3>1, MirrorAlone
    <3>3. RequestSees(w, n, f)
      BY <1>3, <3>1 DEF Mirrored
    <3>4. index'[n][f] = IF index[n][f] = NoMeta THEN NoMeta ELSE req[w].meta
      BY <1>0, <1>9, <2>3 DEF UpdateMeta, IndexUpdate, PutIndex
    <3>5. \A v \in Workers : ~Works(v, f)'
      BY <1>1, <2>1, <3>2 DEF Works
    <3>6. up'[n] => index'[n][f] = attr'[f] \/ Settling(n, f)'
      BY <1>1, <2>1, <3>1, <3>3, <3>4 DEF RequestSees, Settling, Sunk, Sweeping
    <3>7. gc'[n].todo[f] # NoMeta => GcSees(n, f)'
      <4>1. gc[n].todo[f] # NoMeta =>
              /\ GcSees(n, f) /\ gc[n].step \in {"sweep", "sweepAttr", "sweepIndex"}
        BY <1>3, <3>2 DEF Mirrored, GcSees, BusyGc, TypeInv, GcType, GcState, GcSteps
      <4>2. gc[n].todo[f] # NoMeta => Sunk(req[w].meta)
        BY <3>1, <3>3, <4>1 DEF GcSees, RequestSees
      <4> QED
        BY <1>1, <2>1, <3>4, <3>5, <4>1, <4>2 DEF GcSees, Sweeping, Sunk
    <3> QED
      BY <3>5, <3>6, <3>7 DEF Mirrored
  <2> QED
    BY <2>2, <2>3
<1> QED
  BY <1>5, <1>6, <1>7, <1>8, <1>9 DEF Request

\* A pass of the GC goes on, with other files in hand.
LEMMA GcMirrorFrame ==
  ASSUME MirrorInv, NEW n \in Nodes, NEW f \in Files, Kept(f), UNCHANGED <<req, up>>,
         attr'[f] = attr[f], index'[n][f] = index[n][f],
         ~(gc[n].step \in {"markIndex", "sweepIndex"} /\ gc[n].cur = f),
         ~(gc'[n].step \in {"markIndex", "sweepIndex"} /\ gc'[n].cur = f),
         \/ gc'[n].todo[f] = NoMeta
         \/ /\ gc'[n].todo[f] = gc[n].todo[f]
            /\ \/ {gc[n].step, gc'[n].step} \subseteq {"mark", "markIndex"}
               \/ {gc[n].step, gc'[n].step} \subseteq {"sweep", "sweepAttr", "sweepIndex"}
  PROVE  Mirrored(n, f)'
<1>1. Mirrored(n, f)
  BY DEF MirrorInv
<1>2. ~Sweeping(n, f) /\ ~Sweeping(n, f)'
  BY DEF Sweeping
<1>3. ASSUME NEW w \in Workers, Works(w, f)' PROVE RequestSees(w, n, f)'
  BY <1>1, <1>2, <1>3 DEF Mirrored, RequestSees, Works
<1>4. gc'[n].todo[f] # NoMeta => GcSees(n, f)'
  BY <1>1, <1>2 DEF Mirrored, GcSees, Works
<1>5. Settling(n, f) => Settling(n, f)'
  BY DEF Settling, Works
<1> QED
  BY <1>1, <1>3, <1>4, <1>5 DEF Mirrored

\* The steps of the GC.
LEMMA GcMirror ==
  ASSUME TypeInv, DurInv, LifeInv, MirrorInv, OneProcess, NEW n \in Nodes, Gc(n),
         NEW f \in Files, Kept(f)'
  PROVE  Mirrored(n, f)'
<1> USE DEF diskVars, clientVars
<1> DEFINE cur == gc[n].cur
<1>0. /\ gc \in [Nodes -> GcState] /\ gc[n] \in GcState
      /\ attr \in [Files -> Contents \union {NoMeta}]
      /\ index \in [Nodes -> [Files -> MaybeMeta]]
  BY MirrorTypes
<1>1. UNCHANGED <<req, up>> /\ crossed \subseteq crossed' /\ data' \subseteq data /\ up[n]
  BY DEF Gc, GcMarkBegin, Cross, GcMarkAttr, GcMarkIndex, GcSweepBegin, GcSweepData,
     GcSweepAttr, GcSweepIndex, GcEnd, GcAt, DeleteFile
<1>2. Kept(f)
  BY <1>1 DEF Kept
<1>3. Mirrored(n, f)
  BY <1>2 DEF MirrorInv
<1>4. \/ cur \in Files /\ gc[n].todo[cur] # NoMeta
      \/ gc[n].step \notin {"markIndex", "sweepAttr", "sweepIndex"}
  BY DEF TypeInv, GcType, GcInHand
<1>5. CASE GcMarkBegin(n)
  <2>1. UNCHANGED <<attr, index>> /\ gc[n].step = "idle" /\ gc'[n].step = "mark"
    BY <1>0, <1>5 DEF GcMarkBegin, GcAt, GcState
  <2>2. CASE gc'[n].todo[f] = NoMeta
    BY <1>1, <1>2, <2>1, <2>2, GcMirrorFrame
  <2>3. CASE gc'[n].todo[f] # NoMeta
    <3>1. /\ gc'[n].todo[f] = [index[n][f] EXCEPT !.status = "expired"]
          /\ IsActive(index[n][f]) /\ ~Busy(f)
      BY <1>0, <1>5, <2>3 DEF GcMarkBegin, Cross, GcState, Kept
    <3>2. /\ index[n][f] = attr[f] /\ ~Sunk(index[n][f])
          /\ \A v \in Workers : ~Works(v, f)
      BY <1>1, <1>2, <3>1, BeginsLevel DEF Sunk, IsActive
    <3>3. ~Sunk(gc'[n].todo[f])
      <4>1. index[n][f] \in FileMetadata
        BY <1>0, <3>1 DEF IsActive, MaybeMeta
      <4>2. gc'[n].todo[f] \in FileMetadata /\ gc'[n].todo[f].status = "expired"
        BY <3>1, <4>1 DEF FileMetadata, Statuses
      <4> QED
        BY <2>3, <4>2 DEF Sunk
    <3> QED
      BY <1>1, <2>1, <3>2, <3>3 DEF Mirrored, GcSees, Works
  <2> QED
    BY <2>2, <2>3
<1>6. CASE GcMarkAttr(n)
  <2>1. PICK g \in Todo(n) :
          \/ /\ AttrWrite(g, gc[n].todo[g], InHand(g, Workers, Nodes \ {n}))
             /\ GcHold(n, "markIndex", g)
          \/ AttrWriteFails(g, InHand(g, Workers, Nodes \ {n})) /\ GcNext(n, "mark", g)
    BY <1>6 DEF GcMarkAttr
  <2>2. gc[n].step = "mark" /\ index' = index /\ g \in Files /\ gc[n].todo[g] # NoMeta
    BY <1>6, <2>1 DEF GcMarkAttr, GcAt, Todo
  <2>3. CASE g # f
    <3>1. attr'[f] = attr[f]
      BY <1>0, <2>1, <2>3 DEF AttrWrite, AttrWriteFails
    <3>2. /\ gc'[n].todo[f] = gc[n].todo[f] /\ gc'[n].step \in {"mark", "markIndex"}
          /\ gc'[n].cur \in {g, NoFile}
      <4>1. CASE GcHold(n, "markIndex", g)
        BY <1>0, <2>2, <4>1 DEF GcHold, GcState
      <4>2. CASE GcNext(n, "mark", g)
        BY <1>0, <2>2, <2>3, <4>2 DEF GcNext, GcState
      <4> QED
        BY <2>1, <4>1, <4>2
    <3> QED
      BY <1>1, <1>2, <2>2, <2>3, <3>1, <3>2, GcMirrorFrame, ConstantsOK
  <2>4. CASE g = f
    <3>1. BusyGc(n, f) /\ DurParts(f) /\ f \notin crossed
      BY <1>2, <2>2, <2>4 DEF BusyGc, DurInv, Kept
    <3>2. /\ InHand(f, Workers, Nodes \ {n}) = {} /\ scraps[f] = {}
          /\ \A w \in Workers : ~Works(w, f)
      BY <3>1, AloneAtWork DEF DurParts, Clean, Works, BusyReq
    <3>3. GcSees(n, f)
      BY <1>3, <2>2, <2>4 DEF Mirrored
    <3>4. CASE AttrWriteFails(f, InHand(f, Workers, Nodes \ {n})) /\ GcNext(n, "mark", f)
      <4>1. attr' = attr /\ gc'[n].todo[f] = NoMeta /\ gc'[n].step = "mark"
        BY <1>0, <3>4 DEF AttrWriteFails, GcNext, GcState
      <4> QED
        BY <1>1, <1>2, <2>2, <4>1, GcMirrorFrame
    <3>5. CASE /\ AttrWrite(f, gc[n].todo[f], InHand(f, Workers, Nodes \ {n}))
               /\ GcHold(n, "markIndex", f)
      <4>1. attr'[f] = gc[n].todo[f]
        BY <1>0, <3>2, <3>5 DEF AttrWrite
      <4>2. gc'[n].step = "markIndex" /\ gc'[n].cur = f /\ gc'[n].todo = gc[n].todo
        BY <1>0, <3>5 DEF GcHold, GcState
      <4>3. GcSees(n, f)'
        BY <2>2, <3>3, <4>1, <4>2 DEF GcSees
      <4> QED
        BY <1>1, <3>2, <4>2, <4>3 DEF Mirrored, Settling, Works
    <3> QED
      BY <2>1, <2>4, <3>4, <3>5
  <2> QED
    BY <2>3, <2>4
<1>7. CASE GcMarkIndex(n)
  <2>1. /\ gc[n].step = "markIndex" /\ attr' = attr
        /\ gc'[n].step = "mark" /\ gc'[n].cur = NoFile /\ gc'[n].todo[cur] = NoMeta
        /\ \A g \in Files : g # cur => gc'[n].todo[g] = gc[n].todo[g]
    BY <1>0, <1>4, <1>7 DEF GcMarkIndex, GcAt, GcNext, GcState
  <2>2. CASE cur # f
    <3>1. index'[n][f] = index[n][f]
      BY <1>0, <1>7, <2>2 DEF GcMarkIndex, IndexUpdate, PutIndex
    <3> QED
      BY <1>1, <1>2, <2>1, <2>2, <3>1, GcMirrorFrame, ConstantsOK
  <2>3. CASE cur = f
    <3>1. BusyGc(n, f) /\ DurParts(f) /\ f \notin crossed
      BY <1>2, <1>4, <2>1, <2>3 DEF BusyGc, DurInv, Kept
    <3>2. \A w \in Workers : ~Works(w, f)
      BY <3>1 DEF DurParts, Clean, Works, BusyReq
    <3>3. GcSees(n, f)
      BY <1>3, <1>4, <2>1, <2>3 DEF Mirrored
    <3>4. index'[n][f] = attr[f]
      BY <1>0, <1>7, <2>1, <2>3, <3>3 DEF GcMarkIndex, IndexUpdate, PutIndex, GcSees, Sunk
    <3> QED
      BY <1>1, <2>1, <2>3, <3>2, <3>4 DEF Mirrored, Works
  <2> QED
    BY <2>2, <2>3
<1>8. CASE GcSweepBegin(n)
  <2>1. /\ gc[n].step = "mark" /\ UNCHANGED <<attr, index>> /\ gc[n].todo[f] = NoMeta
        /\ gc'[n].step = "sweep"
        /\ gc'[n].todo[f] = IF Sweepable(index[n][f]) THEN index[n][f] ELSE NoMeta
    BY <1>0, <1>8 DEF GcSweepBegin, GcAt, Todo, GcState
  <2>2. CASE gc'[n].todo[f] = NoMeta
    BY <1>1, <1>2, <2>1, <2>2, GcMirrorFrame
  <2>3. CASE gc'[n].todo[f] # NoMeta
    <3>1. Sunk(index[n][f]) /\ index[n][f] # NoMeta
      BY <2>1, <2>3 DEF Sweepable, Sunk
    <3>2. ASSUME NEW w \in Workers, Works(w, f)
          PROVE  req[w].step = "delIndex" /\ Sunk(attr[f]) /\ RequestSees(w, n, f)
      BY <1>3, <3>1, <3>2 DEF Mirrored, RequestSees, Works, Sunk
    <3>3. Sunk(attr[f])
      BY <1>1, <1>3, <2>1, <3>1, <3>2 DEF Mirrored, Settling
    <3>4. ~Sweeping(n, f) /\ ~Sweeping(n, f)'
      BY <2>1 DEF Sweeping
    <3>5. \A w \in Workers : Works(w, f)' => RequestSees(w, n, f)'
      BY <1>1, <2>1, <3>2, <3>4 DEF RequestSees, Works
    <3>6. up'[n] => index'[n][f] = attr'[f] \/ Settling(n, f)'
      BY <1>1, <1>3, <2>1 DEF Mirrored, Settling, Works
    <3>7. GcSees(n, f)'
      BY <1>1, <2>1, <3>1, <3>2, <3>3, <3>4 DEF GcSees, Works
    <3> QED
      BY <3>5, <3>6, <3>7 DEF Mirrored
  <2> QED
    BY <2>2, <2>3
<1>9. CASE GcSweepData(n)
  <2>1. PICK g \in Todo(n) :
          GcHold(n, "sweepAttr", g) \/ GcNext(n, "sweep", g)
    BY <1>9 DEF GcSweepData
  <2>2. gc[n].step = "sweep" /\ UNCHANGED <<attr, index>> /\ g \in Files
    BY <1>9, <2>1 DEF GcSweepData, GcAt, Todo
  <2>3. /\ gc'[n].step \in {"sweep", "sweepAttr"}
        /\ gc'[n].todo[f] \in {gc[n].todo[f], NoMeta}
    BY <1>0, <2>1, <2>2 DEF GcHold, GcNext, GcState
  <2> QED
    BY <1>1, <1>2, <2>2, <2>3, GcMirrorFrame
<1>10. CASE GcSweepAttr(n)
  <2>1. /\ gc[n].step = "sweepAttr" /\ index' = index
        /\ gc'[n].step = "sweepIndex" /\ gc'[n].cur = cur /\ gc'[n].todo = gc[n].todo
        /\ AttrDelete(cur) \/ (IOErrors /\ attr' = attr)
    BY <1>0, <1>10 DEF GcSweepAttr, GcAt, GcHold, GcState, Fails
  <2>2. CASE cur # f
    <3>1. attr'[f] = attr[f]
      BY <1>0, <2>1, <2>2 DEF AttrDelete
    <3> QED
      BY <1>1, <1>2, <2>1, <2>2, <3>1, GcMirrorFrame
  <2>3. CASE cur = f
    <3>1. attr'[f] = NoMeta
      BY <1>0, <1>2, <2>1, <2>3 DEF AttrDelete, LifeInv, Swept, Kept
    <3>2. GcSees(n, f)
      BY <1>3, <1>4, <2>1, <2>3 DEF Mirrored
    <3>3. Sweeping(n, f)' /\ GcSees(n, f)'
      BY <1>1, <2>1, <2>3, <3>1, <3>2 DEF Sweeping, GcSees, Works, Sunk
    <3>4. ASSUME NEW w \in Workers, Works(w, f)' PROVE RequestSees(w, n, f)'
      <4>1. Works(w, f) /\ req[w].step = "delIndex" /\ RequestSees(w, n, f)
        BY <1>1, <1>3, <2>1, <3>2, <3>4 DEF GcSees, Works, Mirrored
      <4> QED
        BY <1>1, <2>1, <3>1, <3>2, <3>3, <4>1 DEF RequestSees, GcSees
    <3> QED
      BY <2>1, <2>3, <3>3, <3>4 DEF Mirrored, Settling
  <2> QED
    BY <2>2, <2>3
<1>11. CASE GcSweepIndex(n)
  <2>1. /\ gc[n].step = "sweepIndex" /\ attr' = attr
        /\ gc'[n].step = "sweep" /\ gc'[n].cur = NoFile /\ gc'[n].todo[cur] = NoMeta
        /\ \A g \in Files : g # cur => gc'[n].todo[g] = gc[n].todo[g]
    BY <1>0, <1>4, <1>11 DEF GcSweepIndex, GcAt, GcNext, GcState
  <2>2. CASE cur # f
    <3>1. index'[n][f] = index[n][f]
      BY <1>0, <1>11, <2>2 DEF GcSweepIndex, IndexRemove, PutIndex
    <3> QED
      BY <1>1, <1>2, <2>1, <2>2, <3>1, GcMirrorFrame, ConstantsOK
  <2>3. CASE cur = f
    <3>1. GcSees(n, f) /\ Sweeping(n, f)
      BY <1>3, <1>4, <2>1, <2>3 DEF Mirrored, Sweeping
    <3>2. attr[f] = NoMeta /\ \A w \in Workers : Works(w, f) => req[w].step = "delIndex"
      BY <2>1, <3>1 DEF GcSees
    <3>3. index'[n][f] = NoMeta
      BY <1>0, <1>11, <2>3 DEF GcSweepIndex, IndexRemove, PutIndex
    <3>4. ASSUME NEW w \in Workers, Works(w, f)' PROVE RequestSees(w, n, f)'
      <4>1. Works(w, f) /\ req[w].step = "delIndex" /\ RequestSees(w, n, f)
        BY <1>1, <1>3, <3>2, <3>4 DEF Works, Mirrored
      <4> QED
        BY <1>1, <2>1, <3>2, <3>3, <4>1 DEF RequestSees
    <3> QED
      BY <2>1, <2>3, <3>2, <3>3, <3>4 DEF Mirrored
  <2> QED
    BY <2>2, <2>3
<1>12. CASE GcEnd(n)
  <2>1. /\ gc[n].step = "sweep" /\ UNCHANGED <<attr, index>> /\ gc'[n] = GcIdle
    BY <1>0, <1>12 DEF GcEnd, GcAt
  <2> QED
    BY <1>1, <1>2, <2>1, GcMirrorFrame DEF GcIdle, NoFiles
<1> QED
  BY <1>5, <1>6, <1>7, <1>8, <1>9, <1>10, <1>11, <1>12 DEF Gc

\* A process reads the directory, when it starts or reconciles.
LEMMA RebuildMirror ==
  ASSUME TypeInv, DurInv, MirrorInv, NEW n \in Nodes, IndexRebuild(n),
         UNCHANGED <<data, attr, req, gc, crossed>>, NEW f \in Files, Kept(f)'
  PROVE  Mirrored(n, f)'
<1>1. Kept(f) /\ Mirrored(n, f)
  BY DEF Kept, MirrorInv
<1>2. index'[n][f] = attr[f]
  <2>1. attr[f] # Torn
    BY <1>1 DEF Kept, DurInv, DurParts, Clean
  <2> QED
    BY <2>1, MirrorTypes DEF IndexRebuild, ScanDir
<1>3. Sweeping(n, f)' <=> Sweeping(n, f)
  BY DEF Sweeping
<1>4. ASSUME NEW w \in Workers, Works(w, f)' PROVE RequestSees(w, n, f)'
  BY <1>1, <1>2, <1>3, <1>4 DEF Mirrored, RequestSees, Works, Sunk
<1>5. gc[n].todo[f] # NoMeta => GcSees(n, f)'
  BY <1>1, <1>2, <1>3 DEF Mirrored, GcSees, Works, Sunk
<1> QED
  BY <1>2, <1>4, <1>5 DEF Mirrored

LEMMA CrashMirror ==
  ASSUME TypeInv, OneProcess, NEW n \in Nodes, Crash(n), NEW f \in Files
  PROVE  Mirrored(n, f)'
<1>1. /\ ~up'[n] /\ gc'[n] = GcIdle
      /\ \A w \in Workers : req'[w] = Idle
  BY ConstantsOK DEF Crash, OneProcess, TypeInv, ProcType, GcType
<1> QED
  BY <1>1 DEF Mirrored, Works, Idle, GcIdle, NoFiles

LEMMA MirrorStep ==
  ASSUME OneProcess
  PROVE  TypeInv /\ DurInv /\ LifeInv /\ MirrorInv /\ [Next]_vars => MirrorInv'
<1> SUFFICES ASSUME TypeInv, DurInv, LifeInv, MirrorInv, [Next]_vars,
                    NEW n \in Nodes, NEW f \in Files, Kept(f)'
             PROVE  Mirrored(n, f)'
  BY DEF MirrorInv
<1> USE DEF diskVars, clientVars
<1>1. ASSUME NEW w \in Workers, Request(w) PROVE Mirrored(n, f)'
  BY <1>1, UploadMirror, RequestMirror
<1>2. ASSUME NEW k \in Nodes, Gc(k) \/ ReconcileEnd(k) \/ Start(k) \/ Crash(k)
      PROVE  Mirrored(n, f)'
  <2>1. k = n
    BY DEF OneProcess
  <2>2. CASE ReconcileEnd(n) \/ Start(n)
    <3>1. IndexRebuild(n) /\ UNCHANGED <<data, attr, req, gc, crossed>>
      BY <2>2 DEF ReconcileEnd, Start
    <3> QED
      BY <3>1, RebuildMirror
  <2> QED
    BY <1>2, <2>1, <2>2, GcMirror, CrashMirror
<1>3. ASSUME (\E k \in Nodes : ReconcileBegin(k)) \/ (\E g \in Files : TtlPasses(g))
               \/ UNCHANGED vars
      PROVE  Mirrored(n, f)'
  <2>1. UNCHANGED <<data, attr, index, up, gc, req, crossed>>
    BY <1>3 DEF ReconcileBegin, TtlPasses, vars
  <2> QED
    BY <2>1, MirrorFrame
<1>4. ASSUME NEW g \in Files, AttrOverwritten(g) PROVE Mirrored(n, f)'
  <2>1. UNCHANGED <<data, index, up, gc, req, crossed>>
    BY <1>4 DEF AttrOverwritten
  <2>2. g # f
    BY <1>4, <2>1 DEF AttrOverwritten, Kept, DurInv, DurParts, Clean
  <2>3. attr'[f] = attr[f]
    BY <1>4, <2>2, MirrorTypes DEF AttrOverwritten
  <2> QED
    BY <2>1, <2>3, MirrorFrame
<1> QED
  BY <1>1, <1>2, <1>3, <1>4 DEF Next, Reconcile

\* A process that has the directory to itself answers for every file with what is
\* on its disk, however many requests run at a time, expiry and failing disks
\* included, as soon as nothing is under way for the file: unless operations on it
\* have overlapped, no copy of its metadata, of a request or of the GC, is ever put
\* back after the file has moved on (WriteMeta, UpdateMeta, markExpired,
\* deleteFiles, BuildFromDir).
THEOREM IndexIsMirror == OneProcess => (Spec => []IndexMirrorsAttr)
<1> SUFFICES ASSUME OneProcess PROVE Spec => []IndexMirrorsAttr
  OBVIOUS
<1>1. Init => MirrorInv
  BY DEF Init, MirrorInv, Mirrored, Works, Idle, GcIdle, NoFiles
<1>2. TypeInv /\ DurInv /\ LifeInv /\ MirrorInv /\ [Next]_vars => MirrorInv'
  BY MirrorStep
<1>3. TypeInv /\ DurInv /\ LifeInv /\ [Next]_vars => LifeInv'
  BY LifeStep
<1>4. TypeInv /\ MirrorInv => IndexMirrorsAttr
  <2> SUFFICES ASSUME TypeInv, MirrorInv, NEW n \in Nodes, NEW f \in Files \ crossed,
                      up[n], Quiet(f), IOErrors => f \in data
               PROVE  index[n][f] = attr[f]
    BY DEF IndexMirrorsAttr
  <2>1. Mirrored(n, f)
    BY DEF MirrorInv, Kept
  <2>2. ~Settling(n, f)
    BY DEF Settling, Works, Quiet, TypeInv, GcType, GcInHand
  <2> QED
    BY <2>1, <2>2 DEF Mirrored
<1> QED
  BY <1>1, <1>2, <1>3, <1>4, InitLife, Invariant, PTL DEF Spec

=============================================================================
