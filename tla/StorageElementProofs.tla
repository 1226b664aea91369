------------------------ MODULE StorageElementProofs ------------------------
(***************************************************************************)
(* Proofs about StorageElement, for every number of processes sharing the  *)
(* data directory, every number of requests in flight and every supply of  *)
(* files: type correctness, and the durability of acknowledged uploads.    *)
(***************************************************************************)
EXTENDS StorageElement, TLAPS, FunctionTheorems, FiniteSetTheorems

USE DEF SaveFile, DeleteFile

-----------------------------------------------------------------------------
(* Type correctness, in one part per group of variables.  A request and a  *)
(* GC pass have a file in hand in the steps that use one: without that the *)
(* types alone are not inductive.                                          *)

DiskType ==
  /\ data \in SUBSET Files
  /\ attr \in [Files -> Contents \union {NoMeta}]
  /\ scraps \in [Files -> SUBSET Contents]
  /\ modeFile \in Modes \union {NoMode, Torn}
  /\ wal \in [Nodes -> [Files -> WalStatuses]]

ProcType ==
  /\ up \in [Nodes -> BOOLEAN]
  /\ mode \in [Nodes -> Modes \union {NoMode}]
  /\ \A n \in Nodes : up[n] => mode[n] \in Modes

IndexType ==
  /\ index \in [Nodes -> [Files -> MaybeMeta]]
  /\ total \in [Nodes -> Int]

ReqInHand(w) ==
  /\ req[w].step \notin {"idle"} \union SaveSteps =>
       req[w].file \in Files /\ req[w].meta \in FileMetadata
  /\ req[w].step \in SaveSteps => req[w].mode \in Modes

ReqType ==
  /\ req \in [Workers -> Request_]
  /\ \A w \in Workers : ReqInHand(w)

GcInHand(n) ==
  gc[n].step \in {"markIndex", "sweepAttr", "sweepIndex"} =>
    gc[n].cur \in Files /\ gc[n].todo[gc[n].cur] # NoMeta

GcType ==
  /\ gc \in [Nodes -> GcState]
  /\ \A n \in Nodes : GcInHand(n)

RecType ==
  /\ rec \in [Nodes -> RecState]
  /\ report \in [Nodes -> Report]

ClientType ==
  /\ overdue \in SUBSET Files
  /\ acked \in [Nodes -> SUBSET Files]
  /\ doomed \in SUBSET Files
  /\ gone \in SUBSET Files
  /\ crossed \in SUBSET Files
  /\ raced \in SUBSET Nodes

TypeInv ==
  /\ DiskType /\ ProcType /\ IndexType /\ ReqType /\ GcType /\ RecType
  /\ ClientType

LEMMA TypeInvTypeOK == TypeInv => TypeOK
BY DEF TypeInv, TypeOK, DiskType, ProcType, IndexType, ReqType, GcType, RecType,
   ClientType

-----------------------------------------------------------------------------
(* What the operators the actions are built from do to the types.          *)

LEMMA BytesFinite ==
  ASSUME NEW S \in SUBSET Files
  PROVE  IsFiniteSet(Bytes(S))
<1>1. IsFiniteSet(S) /\ IsFiniteSet(1..MaxFileSize)
  BY ConstantsOK, FS_Subset, FS_Interval
<1>2. IsFiniteSet(S \X (1..MaxFileSize))
  BY <1>1, FS_Product
<1> QED BY <1>2, FS_Subset DEF Bytes

LEMMA SizeOfType ==
  ASSUME NEW S \in SUBSET Files
  PROVE  SizeOf(S) \in Nat
BY BytesFinite, FS_CardinalityType DEF SizeOf

LEMMA PutIndexType ==
  ASSUME IndexType, NEW n \in Nodes, NEW f \in Files, NEW m \in MaybeMeta,
         PutIndex(n, f, m)
  PROVE  IndexType'
<1>1. Weight(m, f) \in Int /\ Weight(index[n][f], f) \in Int
  BY ConstantsOK DEF Weight
<1> QED BY <1>1 DEF PutIndex, IndexType

LEMMA IndexRebuildType ==
  ASSUME IndexType, DiskType, NEW n \in Nodes, IndexRebuild(n)
  PROVE  IndexType'
<1>1. SizeOf(ActiveFiles(ScanDir)) \in Int
  BY SizeOfType DEF ActiveFiles
<1>2. ScanDir \in [Files -> MaybeMeta]
  BY DEF ScanDir, DiskType, Contents, MaybeMeta
<1> QED BY <1>1, <1>2 DEF IndexRebuild, IndexType

FileSteps == RequestSteps \ ({"idle"} \union SaveSteps)

LEMMA IdleType == Idle \in Request_
BY DEF Idle, Request_, RequestSteps, MaybeMeta

LEMMA BeginType ==
  ASSUME ReqType, NEW w \in Workers, NEW step \in FileSteps, NEW f \in Files,
         NEW m \in FileMetadata, Begin(w, step, f, m)
  PROVE  ReqType'
<1> DEFINE r == [Idle EXCEPT !.step = step, !.file = f, !.meta = m]
<1>1. req' = [req EXCEPT ![w] = r]
  BY DEF Begin
<1>2. r \in Request_ /\ r.step = step /\ r.file = f /\ r.meta = m
  BY IdleType DEF Request_, FileSteps, MaybeMeta
<1>3. req' \in [Workers -> Request_]
  BY <1>1, <1>2 DEF ReqType
<1>4. ASSUME NEW v \in Workers PROVE ReqInHand(v)'
  BY <1>1, <1>2 DEF ReqType, ReqInHand, FileSteps
<1> QED BY <1>3, <1>4 DEF ReqType

LEMMA GotoType ==
  ASSUME ReqType, NEW w \in Workers, req[w].step \in FileSteps,
         NEW step \in FileSteps, Goto(w, step)
  PROVE  ReqType'
<1>1. req' = [req EXCEPT ![w] = [req[w] EXCEPT !.step = step]]
  BY DEF Goto
<1>2. [req[w] EXCEPT !.step = step] \in Request_
  BY DEF ReqType, Request_, FileSteps
<1>3. req' \in [Workers -> Request_]
  BY <1>1, <1>2 DEF ReqType
<1>4. ASSUME NEW v \in Workers PROVE ReqInHand(v)'
  BY <1>1 DEF ReqType, ReqInHand, FileSteps, Request_
<1> QED BY <1>3, <1>4 DEF ReqType

LEMMA FinishType ==
  ASSUME ReqType, NEW w \in Workers, Finish(w)
  PROVE  ReqType'
<1>1. req' \in [Workers -> Request_]
  BY IdleType DEF Finish, ReqType
<1>2. ASSUME NEW v \in Workers PROVE ReqInHand(v)'
  BY DEF Finish, Idle, ReqType, ReqInHand, SaveSteps
<1> QED BY <1>1, <1>2 DEF ReqType

LEMMA GcHoldType ==
  ASSUME GcType, NEW n \in Nodes, NEW step \in GcSteps, NEW f \in Todo(n),
         GcHold(n, step, f)
  PROVE  GcType'
<1>1. gc' = [gc EXCEPT ![n] = [gc[n] EXCEPT !.step = step, !.cur = f]]
  BY DEF GcHold
<1>2. [gc[n] EXCEPT !.step = step, !.cur = f] \in GcState
  BY DEF GcType, GcState, Todo
<1>3. gc' \in [Nodes -> GcState]
  BY <1>1, <1>2 DEF GcType
<1>4. ASSUME NEW k \in Nodes PROVE GcInHand(k)'
  BY <1>1 DEF GcType, GcInHand, Todo, GcState
<1> QED BY <1>3, <1>4 DEF GcType

LEMMA GcNextType ==
  ASSUME GcType, NEW n \in Nodes, NEW step \in {"mark", "sweep"}, NEW f \in Files,
         GcNext(n, step, f)
  PROVE  GcType'
<1> DEFINE t == [gc[n].todo EXCEPT ![f] = NoMeta]
           g == [gc[n] EXCEPT !.step = step, !.todo = t, !.cur = NoFile]
<1>1. gc' = [gc EXCEPT ![n] = g]
  BY DEF GcNext
<1>2. t \in [Files -> MaybeMeta]
  BY DEF GcType, GcState, MaybeMeta
<1>3. g \in GcState
  BY <1>2 DEF GcType, GcState, GcSteps
<1>4. gc' \in [Nodes -> GcState]
  BY <1>1, <1>3 DEF GcType
<1>5. ASSUME NEW k \in Nodes PROVE GcInHand(k)'
  BY <1>1 DEF GcType, GcInHand, GcState
<1> QED BY <1>4, <1>5 DEF GcType

LEMMA GcBeginType ==
  ASSUME GcType, NEW n \in Nodes, NEW step \in {"mark", "sweep"},
         NEW todo \in [Files -> MaybeMeta],
         gc' = [gc EXCEPT ![n].step = step, ![n].todo = todo]
  PROVE  GcType'
<1> DEFINE g == [gc[n] EXCEPT !.step = step, !.todo = todo]
<1>1. gc' = [gc EXCEPT ![n] = g]
  OBVIOUS
<1>2. g \in GcState
  BY DEF GcType, GcState, GcSteps
<1>3. gc' \in [Nodes -> GcState]
  BY <1>1, <1>2 DEF GcType
<1>4. ASSUME NEW k \in Nodes PROVE GcInHand(k)'
  BY <1>1 DEF GcType, GcInHand, GcState
<1> QED BY <1>3, <1>4 DEF GcType

\* What is under way for a file is a set of metadata.
LEMMA InHandType ==
  ASSUME ReqType, GcType, NEW f \in Files, NEW W \in SUBSET Workers, NEW N \in SUBSET Nodes
  PROVE  InHand(f, W, N) \in SUBSET FileMetadata
<1>1. ASSUME NEW w \in W, req[w].step \in {"attr", "patch", "del"}
      PROVE  req[w].meta \in FileMetadata
  BY <1>1 DEF ReqType, ReqInHand, SaveSteps
<1>2. ASSUME NEW n \in N, gc[n].todo[f] # NoMeta
      PROVE  gc[n].todo[f] \in FileMetadata
  BY <1>2 DEF GcType, GcState, MaybeMeta
<1> QED BY <1>1, <1>2 DEF InHand

LEMMA AttrWriteType ==
  ASSUME DiskType, NEW f \in Files, NEW m \in FileMetadata,
         NEW others \in SUBSET FileMetadata,
         AttrWrite(f, m, others) \/ AttrWriteFails(f, others)
  PROVE  /\ attr' \in [Files -> Contents \union {NoMeta}]
         /\ scraps' \in [Files -> SUBSET Contents]
<1>1. scraps' \in [Files -> SUBSET Contents]
  BY DEF DiskType, AttrWrite, AttrWriteFails, TmpLeft, Contents
<1>2. CASE AttrWriteFails(f, others)
  BY <1>1, <1>2 DEF DiskType, AttrWriteFails
<1>3. CASE AttrWrite(f, m, others)
  <2>1. PICK c \in {m} \union {Torn} \union others \union scraps[f] :
          attr' = [attr EXCEPT ![f] = c]
    BY <1>3 DEF AttrWrite
  <2>2. c \in Contents
    BY <2>1 DEF DiskType, Contents
  <2> QED BY <1>1, <2>1, <2>2 DEF DiskType
<1> QED BY <1>2, <1>3

LEMMA AttrDeleteType ==
  ASSUME DiskType, NEW f \in Files, AttrDelete(f)
  PROVE  /\ attr' \in [Files -> Contents \union {NoMeta}]
         /\ scraps' \in [Files -> SUBSET Contents]
BY DEF DiskType, AttrDelete

LEMMA WalSetType ==
  ASSUME DiskType, NEW n \in Nodes, NEW f \in Files, NEW s \in WalStatuses,
         WalSet(n, f, s)
  PROVE  wal' \in [Nodes -> [Files -> WalStatuses]]
BY DEF DiskType, WalSet

LEMMA WalCloseType ==
  ASSUME DiskType, NEW n \in Nodes, NEW f \in Files,
         Commit(n, f) \/ Rollback(n, f)
  PROVE  wal' \in [Nodes -> [Files -> WalStatuses]]
BY DEF DiskType, Commit, Rollback, WalSet, WalStatuses

LEMMA SaveStepType ==
  ASSUME ReqType, NEW w \in Workers, req[w].step = "save", NEW b \in BOOLEAN,
         req' = [req EXCEPT ![w].step = "attr", ![w].meta.temporary = b]
  PROVE  ReqType'
<1> DEFINE m == [req[w].meta EXCEPT !.temporary = b]
           r == [req[w] EXCEPT !.step = "attr", !.meta = m]
<1>1. req' = [req EXCEPT ![w] = r]
  BY DEF ReqType, Request_
<1>2. m \in FileMetadata
  BY DEF ReqType, ReqInHand, FileMetadata, SaveSteps
<1>3. r \in Request_
  BY <1>2 DEF ReqType, Request_, RequestSteps, MaybeMeta
<1>4. req' \in [Workers -> Request_]
  BY <1>1, <1>3 DEF ReqType
<1>5. ASSUME NEW v \in Workers PROVE ReqInHand(v)'
  BY <1>1, <1>2 DEF ReqType, ReqInHand, Request_, SaveSteps
<1> QED BY <1>4, <1>5 DEF ReqType

LEMMA GcIdleType ==
  ASSUME GcType, NEW n \in Nodes, gc' = [gc EXCEPT ![n] = GcIdle]
  PROVE  GcType'
BY DEF GcType, GcInHand, GcIdle, GcState, GcSteps, NoFiles, MaybeMeta

\* A part holds as long as its variables do not change.
LEMMA Frame ==
  ASSUME TypeInv
  PROVE  /\ UNCHANGED diskVars => DiskType'
         /\ UNCHANGED <<up, mode>> => ProcType'
         /\ UNCHANGED <<index, total>> => IndexType'
         /\ UNCHANGED req => ReqType'
         /\ UNCHANGED gc => GcType'
         /\ UNCHANGED <<rec, report>> => RecType'
         /\ UNCHANGED <<overdue, clientVars>> => ClientType'
BY DEF TypeInv, DiskType, ProcType, IndexType, ReqType, ReqInHand, GcType, GcInHand,
   RecType, ClientType, diskVars, clientVars

-----------------------------------------------------------------------------
(* One lemma per action.                                                   *)

LEMMA UploadStartType ==
  ASSUME TypeInv, NEW w \in Workers, NEW f \in Files, NEW d \in Descs, UploadStart(w, f, d)
  PROVE  TypeInv'
<1>1. Home[w] \in Nodes
  BY ConstantsOK
<1>2. [status |-> "active", temporary |-> FALSE, description |-> d] \in FileMetadata
  BY DEF FileMetadata, Statuses
<1>3. DiskType'
  BY <1>1, WalSetType DEF UploadStart, StartTransaction, TypeInv, DiskType,
     WalStatuses
<1>4. ReqType'
  BY <1>2, BeginType DEF UploadStart, TypeInv, FileSteps, RequestSteps, SaveSteps
<1> QED BY <1>3, <1>4, Frame DEF TypeInv, UploadStart

LEMMA UploadSaveType ==
  ASSUME TypeInv, NEW w \in Workers, UploadSave(w)
  PROVE  TypeInv'
<1>1. Home[w] \in Nodes
  BY ConstantsOK
<1>2. req[w].step \in FileSteps /\ req[w].file \in Files /\ req[w].meta \in FileMetadata
  BY DEF UploadSave, At, TypeInv, ReqType, ReqInHand, FileSteps, RequestSteps, SaveSteps
<1>3. req[w].step = "save" /\ (mode[Home[w]] = "edit") \in BOOLEAN
  BY DEF UploadSave, At
<1>4. DiskType'
  BY <1>1, <1>2, WalCloseType DEF UploadSave, TypeInv, DiskType
<1>5. ReqType'
  BY <1>3, FinishType, SaveStepType DEF UploadSave, TypeInv
<1> QED BY <1>4, <1>5, Frame DEF TypeInv, UploadSave

LEMMA UploadRejectType ==
  ASSUME TypeInv, NEW w \in Workers, UploadReject(w)
  PROVE  TypeInv'
<1>1. req[w].step \in FileSteps /\ req[w].file \in Files /\ req[w].meta \in FileMetadata
  BY DEF UploadReject, At, TypeInv, ReqType, ReqInHand, FileSteps,
     RequestSteps, SaveSteps
<1>2. DiskType'
  BY <1>1 DEF UploadReject, TmpLeft, TypeInv, DiskType, Contents
<1>3. ReqType'
  BY <1>1, GotoType DEF UploadReject, TypeInv, FileSteps, RequestSteps, SaveSteps
<1> QED BY <1>2, <1>3, Frame DEF TypeInv, UploadReject

LEMMA UploadAttrType ==
  ASSUME TypeInv, NEW w \in Workers, UploadAttr(w)
  PROVE  TypeInv'
<1>1. req[w].step \in FileSteps /\ req[w].file \in Files /\ req[w].meta \in FileMetadata
  BY DEF UploadAttr, At, TypeInv, ReqType, ReqInHand, FileSteps, RequestSteps, SaveSteps
<1>2. BesideReq(w, req[w].file) \in SUBSET FileMetadata
  BY <1>1, InHandType DEF BesideReq, TypeInv
<1>4. DiskType'
  BY <1>1, <1>2, AttrWriteType DEF UploadAttr, TypeInv, DiskType
<1>3. ReqType'
  BY <1>1, GotoType DEF UploadAttr, TypeInv, FileSteps, RequestSteps, SaveSteps
<1> QED BY <1>3, <1>4, Frame DEF TypeInv, UploadAttr

LEMMA UploadUndoType ==
  ASSUME TypeInv, NEW w \in Workers, UploadUndo(w)
  PROVE  TypeInv'
<1>1. Home[w] \in Nodes
  BY ConstantsOK
<1>2. req[w].step \in FileSteps /\ req[w].file \in Files /\ req[w].meta \in FileMetadata
  BY DEF UploadUndo, At, TypeInv, ReqType, ReqInHand, FileSteps, RequestSteps, SaveSteps
<1>3. DiskType'
  BY <1>1, <1>2, AttrDeleteType, WalCloseType DEF UploadUndo, TypeInv, DiskType
<1>4. ReqType'
  BY FinishType DEF UploadUndo, TypeInv
<1> QED BY <1>3, <1>4, Frame DEF TypeInv, UploadUndo

LEMMA UploadIndexType ==
  ASSUME TypeInv, NEW w \in Workers, UploadIndex(w)
  PROVE  TypeInv'
<1>1. Home[w] \in Nodes
  BY ConstantsOK
<1>2. req[w].step \in FileSteps /\ req[w].file \in Files /\ req[w].meta \in FileMetadata
  BY DEF UploadIndex, At, TypeInv, ReqType, ReqInHand, FileSteps, RequestSteps, SaveSteps
<1>3. IndexType'
  BY <1>1, <1>2, PutIndexType DEF UploadIndex, IndexAdd, TypeInv, MaybeMeta
<1>4. ReqType'
  BY <1>2, GotoType DEF UploadIndex, TypeInv, FileSteps, RequestSteps, SaveSteps
<1> QED BY <1>3, <1>4, Frame DEF TypeInv, UploadIndex

LEMMA UploadCommitType ==
  ASSUME TypeInv, NEW w \in Workers, UploadCommit(w)
  PROVE  TypeInv'
<1>1. Home[w] \in Nodes
  BY ConstantsOK
<1>2. req[w].step \in FileSteps /\ req[w].file \in Files /\ req[w].meta \in FileMetadata
  BY DEF UploadCommit, At, TypeInv, ReqType, ReqInHand, FileSteps,
     RequestSteps, SaveSteps
<1>3. DiskType'
  BY <1>1, <1>2, WalCloseType DEF UploadCommit, TypeInv, DiskType
<1>4. ReqType'
  BY FinishType DEF UploadCommit, TypeInv
<1>5. ClientType'
  BY <1>1, <1>2 DEF UploadCommit, TypeInv, ClientType
<1> QED BY <1>3, <1>4, <1>5, Frame DEF TypeInv, UploadCommit

LEMMA PatchStartType ==
  ASSUME TypeInv, NEW w \in Workers, NEW f \in Files, NEW d \in Descs, PatchStart(w, f, d)
  PROVE  TypeInv'
<1>1. Home[w] \in Nodes
  BY ConstantsOK
<1>2. [index[Home[w]][f] EXCEPT !.description = d] \in FileMetadata
  BY <1>1 DEF PatchStart, IsActive, TypeInv, IndexType, MaybeMeta,
     FileMetadata
<1>3. ReqType'
  BY <1>2, BeginType DEF PatchStart, TypeInv, FileSteps, RequestSteps, SaveSteps
<1>4. ClientType'
  BY DEF PatchStart, Cross, TypeInv, ClientType
<1> QED BY <1>3, <1>4, Frame DEF TypeInv, PatchStart

LEMMA DeleteStartType ==
  ASSUME TypeInv, NEW w \in Workers, NEW f \in Files, DeleteStart(w, f)
  PROVE  TypeInv'
<1>1. Home[w] \in Nodes
  BY ConstantsOK
<1>2. [index[Home[w]][f] EXCEPT !.status = "deleted"] \in FileMetadata
  BY <1>1 DEF DeleteStart, TypeInv, IndexType, MaybeMeta, FileMetadata,
     Statuses
<1>3. ReqType'
  BY <1>2, BeginType DEF DeleteStart, TypeInv, FileSteps, RequestSteps, SaveSteps
<1>4. ClientType'
  BY DEF DeleteStart, Cross, TypeInv, ClientType
<1> QED BY <1>3, <1>4, Frame DEF TypeInv, DeleteStart

LEMMA WriteMetaType ==
  ASSUME TypeInv, NEW w \in Workers, WriteMeta(w)
  PROVE  TypeInv'
<1>1. req[w].step \in FileSteps /\ req[w].file \in Files /\ req[w].meta \in FileMetadata
  BY DEF WriteMeta, At, TypeInv, ReqType, ReqInHand, FileSteps, RequestSteps, SaveSteps
<1>2. BesideReq(w, req[w].file) \in SUBSET FileMetadata
  BY <1>1, InHandType DEF BesideReq, TypeInv
<1>4. DiskType'
  BY <1>1, <1>2, AttrWriteType DEF WriteMeta, TypeInv, DiskType
<1>3. ReqType'
  BY <1>1, GotoType, FinishType DEF WriteMeta, TypeInv, FileSteps,
     RequestSteps, SaveSteps
<1> QED BY <1>3, <1>4, Frame DEF TypeInv, WriteMeta

LEMMA UpdateMetaType ==
  ASSUME TypeInv, NEW w \in Workers, UpdateMeta(w)
  PROVE  TypeInv'
<1>1. Home[w] \in Nodes
  BY ConstantsOK
<1>2. req[w].step \in FileSteps /\ req[w].file \in Files /\ req[w].meta \in FileMetadata
  BY DEF UpdateMeta, At, TypeInv, ReqType, ReqInHand, FileSteps, RequestSteps, SaveSteps
<1>3. IndexType'
  BY <1>1, <1>2, PutIndexType, Frame DEF UpdateMeta, IndexUpdate, TypeInv,
     MaybeMeta
<1>4. ReqType'
  BY FinishType DEF UpdateMeta, TypeInv
<1>5. ClientType'
  BY <1>2 DEF UpdateMeta, TypeInv, ClientType
<1> QED BY <1>3, <1>4, <1>5, Frame DEF TypeInv, UpdateMeta

\* A transition changes its own request, and tells those that are saving that
\* they are no longer alone.
LEMMA TransitionReq ==
  ASSUME ReqType, NEW w \in Workers, NEW target \in Modes, NEW confirm \in BOOLEAN,
         TransitionTo(w, target, confirm)
  PROVE  /\ req[w].step = "idle"
         /\ req'[w].step \in SaveSteps /\ req'[w].file = NoFile
         /\ req'[w].meta = NoMeta /\ req'[w].mode = target
         /\ \A v \in Workers \ {w} :
              /\ req'[v].file = req[v].file /\ req'[v].meta = req[v].meta
              /\ req'[v].mode = req[v].mode
              /\ req'[v].step = IF v \in Saving(Home[w]) THEN "saveBeside"
                                ELSE req[v].step
         /\ req' \in [Workers -> Request_]
<1> DEFINE first == [Idle EXCEPT !.step = IF Saving(Home[w]) = {} THEN "saveMode"
                                          ELSE "saveBeside",
                                 !.mode = target]
           new(v) == CASE v = w -> first
                       [] v \in Saving(Home[w]) -> [req[v] EXCEPT !.step = "saveBeside"]
                       [] OTHER -> req[v]
<1>1. first \in Request_ /\ first.step \in SaveSteps /\ first.file = NoFile
      /\ first.meta = NoMeta /\ first.mode = target
  BY IdleType DEF Idle, Request_, SaveSteps, RequestSteps
<1>2. req' = [v \in Workers |-> new(v)]
  BY DEF TransitionTo
<1>3. req[w].step = "idle" /\ w \notin Saving(Home[w])
  BY DEF TransitionTo, At, Saving, SaveSteps
<1> HIDE DEF first
<1>4. ASSUME NEW v \in Workers \ {w}, v \in Saving(Home[w])
      PROVE  /\ new(v) \in Request_ /\ new(v).step = "saveBeside"
             /\ new(v).file = req[v].file /\ new(v).meta = req[v].meta
             /\ new(v).mode = req[v].mode
  BY <1>4 DEF ReqType, Request_, SaveSteps, RequestSteps
<1>5. ASSUME NEW v \in Workers \ {w}, v \notin Saving(Home[w])
      PROVE  new(v) = req[v] /\ req[v] \in Request_
  BY <1>5 DEF ReqType
<1>6. new(w) = first
  BY <1>3
<1> HIDE DEF new
<1>7. \A v \in Workers : new(v) \in Request_
  BY <1>1, <1>4, <1>5, <1>6
<1> QED BY <1>1, <1>2, <1>3, <1>4, <1>5, <1>6, <1>7

LEMMA TransitionToType ==
  ASSUME TypeInv, NEW w \in Workers, NEW target \in Modes, NEW confirm \in BOOLEAN, TransitionTo(w, target, confirm)
  PROVE  TypeInv'
<1>1. Home[w] \in Nodes
  BY ConstantsOK
<1>2. ProcType'
  BY <1>1 DEF TransitionTo, TypeInv, ProcType
<1>3. ReqType'
  <2>1. ASSUME NEW v \in Workers PROVE ReqInHand(v)'
    <3>1. CASE v = w
      BY <3>1, TransitionReq DEF TypeInv, ReqInHand, SaveSteps
    <3>2. CASE v # w
      BY <3>2, TransitionReq DEF TypeInv, ReqType, ReqInHand, SaveSteps, Saving
    <3> QED BY <3>1, <3>2
  <2> QED BY <2>1, TransitionReq DEF TypeInv, ReqType
<1>4. ClientType'
  BY <1>1 DEF TransitionTo, TypeInv, ClientType
<1> QED BY <1>2, <1>3, <1>4, Frame DEF TypeInv, TransitionTo

LEMMA SaveModeType ==
  ASSUME TypeInv, NEW w \in Workers, SaveMode(w)
  PROVE  TypeInv'
<1>1. \A v \in Workers : req[v].step \in SaveSteps => req[v].mode \in Modes
  BY DEF TypeInv, ReqType, ReqInHand
<1>2. modeFile' \in Modes \union {NoMode, Torn}
  BY <1>1 DEF SaveMode, At, Saving, SaveSteps, TypeInv, DiskType
<1>3. DiskType'
  BY <1>2 DEF SaveMode, TypeInv, DiskType
<1>4. ReqType'
  BY FinishType DEF SaveMode, TypeInv
<1> QED BY <1>3, <1>4, Frame DEF TypeInv, SaveMode

LEMMA GcMarkBeginType ==
  ASSUME TypeInv, NEW n \in Nodes, GcMarkBegin(n)
  PROVE  TypeInv'
<1> DEFINE expired(f) == [index[n][f] EXCEPT !.status = "expired"]
           todo == [f \in Files |->
                      IF IsActive(index[n][f]) /\ IsExpired(index[n][f], f)
                      THEN expired(f) ELSE NoMeta]
<1>1. ASSUME NEW f \in Files, index[n][f] # NoMeta
      PROVE  expired(f) \in FileMetadata
  BY <1>1 DEF TypeInv, IndexType, MaybeMeta, FileMetadata, Statuses
<1>2. todo \in [Files -> MaybeMeta]
  BY <1>1 DEF MaybeMeta, IsActive
<1>3. gc' = [gc EXCEPT ![n].step = "mark", ![n].todo = todo]
  BY DEF GcMarkBegin
<1> HIDE DEF todo
<1>4. GcType'
  BY <1>2, <1>3, GcBeginType DEF TypeInv
<1>5. ClientType'
  BY DEF GcMarkBegin, Cross, TypeInv, ClientType
<1> QED BY <1>4, <1>5, Frame DEF TypeInv, GcMarkBegin

LEMMA GcMarkAttrType ==
  ASSUME TypeInv, NEW n \in Nodes, GcMarkAttr(n)
  PROVE  TypeInv'
<1>1. PICK f \in Todo(n) :
        LET others == InHand(f, Workers, Nodes \ {n}) IN
        \/ AttrWrite(f, gc[n].todo[f], others) /\ GcHold(n, "markIndex", f)
        \/ AttrWriteFails(f, others) /\ GcNext(n, "mark", f)
  BY DEF GcMarkAttr
<1>2. f \in Files /\ gc[n].todo[f] \in FileMetadata
  BY DEF Todo, TypeInv, GcType, GcState, MaybeMeta
<1>3. InHand(f, Workers, Nodes \ {n}) \in SUBSET FileMetadata
  BY <1>2, InHandType DEF TypeInv
<1>4. DiskType'
  BY <1>1, <1>2, <1>3, AttrWriteType DEF GcMarkAttr, TypeInv, DiskType
<1>5. GcType'
  BY <1>1, <1>2, GcHoldType, GcNextType DEF TypeInv, GcSteps
<1> QED BY <1>4, <1>5, Frame DEF TypeInv, GcMarkAttr

LEMMA GcMarkIndexType ==
  ASSUME TypeInv, NEW n \in Nodes, GcMarkIndex(n)
  PROVE  TypeInv'
<1>1. gc[n].cur \in Files /\ gc[n].todo[gc[n].cur] \in MaybeMeta
  BY DEF GcMarkIndex, GcAt, TypeInv, GcType, GcInHand, GcState
<1>2. IndexType'
  BY <1>1, PutIndexType, Frame DEF GcMarkIndex, IndexUpdate, TypeInv
<1>3. GcType'
  BY <1>1, GcNextType DEF GcMarkIndex, TypeInv
<1> QED BY <1>2, <1>3, Frame DEF TypeInv, GcMarkIndex

LEMMA GcSweepBeginType ==
  ASSUME TypeInv, NEW n \in Nodes, GcSweepBegin(n)
  PROVE  TypeInv'
<1> DEFINE todo == [f \in Files |->
                      IF Sweepable(index[n][f]) THEN index[n][f] ELSE NoMeta]
<1>1. todo \in [Files -> MaybeMeta]
  BY DEF TypeInv, IndexType, MaybeMeta
<1>2. gc' = [gc EXCEPT ![n].step = "sweep", ![n].todo = todo]
  BY DEF GcSweepBegin
<1> HIDE DEF todo
<1>3. GcType'
  BY <1>1, <1>2, GcBeginType DEF TypeInv
<1> QED BY <1>3, Frame DEF TypeInv, GcSweepBegin

LEMMA GcSweepDataType ==
  ASSUME TypeInv, NEW n \in Nodes, GcSweepData(n)
  PROVE  TypeInv'
<1>1. DiskType'
  BY DEF GcSweepData, TypeInv, DiskType
<1>2. GcType'
  BY GcHoldType, GcNextType DEF GcSweepData, Todo, TypeInv, GcSteps
<1> QED BY <1>1, <1>2, Frame DEF TypeInv, GcSweepData

LEMMA GcSweepAttrType ==
  ASSUME TypeInv, NEW n \in Nodes, GcSweepAttr(n)
  PROVE  TypeInv'
<1>1. gc[n].cur \in Todo(n)
  BY DEF GcSweepAttr, GcAt, TypeInv, GcType, GcInHand, Todo
<1>2. DiskType'
  BY <1>1, AttrDeleteType DEF GcSweepAttr, Todo, TypeInv, DiskType
<1>3. GcType'
  BY <1>1, GcHoldType DEF GcSweepAttr, TypeInv, GcSteps
<1> QED BY <1>2, <1>3, Frame DEF TypeInv, GcSweepAttr

LEMMA GcSweepIndexType ==
  ASSUME TypeInv, NEW n \in Nodes, GcSweepIndex(n)
  PROVE  TypeInv'
<1>1. gc[n].cur \in Files
  BY DEF GcSweepIndex, GcAt, TypeInv, GcType, GcInHand
<1>2. IndexType'
  BY <1>1, PutIndexType DEF GcSweepIndex, IndexRemove, TypeInv, MaybeMeta
<1>3. GcType'
  BY <1>1, GcNextType DEF GcSweepIndex, TypeInv
<1> QED BY <1>2, <1>3, Frame DEF TypeInv, GcSweepIndex

LEMMA GcEndType ==
  ASSUME TypeInv, NEW n \in Nodes, GcEnd(n)
  PROVE  TypeInv'
<1>1. GcType'
  BY GcIdleType DEF GcEnd, TypeInv
<1> QED BY <1>1, Frame DEF TypeInv, GcEnd

LEMMA ReconcileBeginType ==
  ASSUME TypeInv, NEW n \in Nodes, ReconcileBegin(n)
  PROVE  TypeInv'
<1>1. RecType'
  BY DEF ReconcileBegin, DataNames, AttrNames, Acked, TypeInv, RecType,
     RecState, DiskType, ClientType
<1> QED BY <1>1, Frame DEF TypeInv, ReconcileBegin

LEMMA ReconcileEndType ==
  ASSUME TypeInv, NEW n \in Nodes, ReconcileEnd(n)
  PROVE  TypeInv'
<1> DEFINE orphaned == rec[n].dataFiles \ rec[n].attrFiles
           missing  == rec[n].attrFiles \ rec[n].dataFiles
           scanned  == {f \in Files : ScanDir[f] # NoMeta}
           ok       == Cardinality(scanned)
                         - (Cardinality(orphaned) + Cardinality(missing))
           r == [orphaned |-> orphaned, missing |-> missing,
                 stable |-> rec[n].stable, ok |-> IF ok < 0 THEN 0 ELSE ok]
<1>1. /\ orphaned \in SUBSET (Files \union {"mode.json"})
      /\ missing \in SUBSET Files
      /\ rec[n].stable \in SUBSET Files
      /\ scanned \in SUBSET Files
  BY DEF TypeInv, RecType, RecState
<1>2. IsFiniteSet(Files) /\ IsFiniteSet(Files \union {"mode.json"})
  BY ConstantsOK, FS_AddElement
<1>3. IsFiniteSet(orphaned) /\ IsFiniteSet(missing) /\ IsFiniteSet(scanned)
  BY <1>1, <1>2, FS_Subset
<1>4. ok \in Int
  BY <1>3, FS_CardinalityType
<1>5. r \in Report
  BY <1>1, <1>4 DEF Report
<1>6. RecIdle \in RecState
  BY DEF RecIdle, RecState
<1>7. RecType'
  BY <1>5, <1>6 DEF ReconcileEnd, TypeInv, RecType
<1>8. IndexType'
  BY IndexRebuildType DEF ReconcileEnd, TypeInv
<1> QED BY <1>7, <1>8, Frame DEF TypeInv, ReconcileEnd

LEMMA CrashType ==
  ASSUME TypeInv, NEW n \in Nodes, Crash(n)
  PROVE  TypeInv'
<1>1. ProcType'
  BY DEF Crash, TypeInv, ProcType
<1>2. IndexType'
  BY DEF Crash, NoFiles, MaybeMeta, TypeInv, IndexType
<1>3. ReqType'
  BY IdleType DEF Crash, Idle, TypeInv, ReqType, ReqInHand, SaveSteps
<1>4. GcType'
  BY GcIdleType DEF Crash, TypeInv
<1>5. RecType'
  BY DEF Crash, RecIdle, NoReport, RecState, Report, TypeInv, RecType
<1>6. scraps' \in [Files -> SUBSET Contents]
  <2> DEFINE mine == {w \in Workers : Home[w] = n}
             dead(f) == InHand(f, mine, {n})
             others(f) == InHand(f, Workers \ mine, Nodes \ {n})
             left(f) == CASE others(f) = {} -> {}
                          [] others(f) # {} /\ dead(f) = {} -> scraps[f]
                          [] OTHER -> scraps[f] \union dead(f) \union {Torn}
  <2>1. scraps' = [f \in Files |-> left(f)]
    BY DEF Crash, TmpAbandoned
  <2>2. ASSUME NEW f \in Files PROVE dead(f) \in SUBSET Contents
    BY InHandType DEF TypeInv, Contents
  <2>3. ASSUME NEW f \in Files PROVE scraps[f] \in SUBSET Contents /\ Torn \in Contents
    BY DEF TypeInv, DiskType, Contents
  <2> HIDE DEF dead, others
  <2>4. ASSUME NEW f \in Files PROVE left(f) \in SUBSET Contents
    BY <2>2, <2>3
  <2> QED BY <2>1, <2>4
<1>7. DiskType' /\ ClientType'
  BY <1>6 DEF Crash, TypeInv, DiskType, ClientType
<1> QED BY <1>1, <1>2, <1>3, <1>4, <1>5, <1>7 DEF TypeInv

LEMMA StartType ==
  ASSUME TypeInv, NEW n \in Nodes, Start(n)
  PROVE  TypeInv'
<1>1. DiskType'
  BY DEF Start, RecoverWal, TypeInv, DiskType, WalStatuses
<1>2. ProcType'
  BY ConstantsOK DEF Start, InitialMode, TypeInv, ProcType, DiskType
<1>3. IndexType'
  BY IndexRebuildType DEF Start, TypeInv
<1> QED BY <1>1, <1>2, <1>3, Frame DEF TypeInv, Start

LEMMA TtlPassesType ==
  ASSUME TypeInv, NEW f \in Files, TtlPasses(f)
  PROVE  TypeInv'
<1>1. ClientType'
  BY DEF TtlPasses, clientVars, TypeInv, ClientType
<1> QED BY <1>1, Frame DEF TypeInv, TtlPasses

LEMMA AttrOverwrittenType ==
  ASSUME TypeInv, NEW f \in Files, AttrOverwritten(f)
  PROVE  TypeInv'
<1>1. PICK c \in {Torn} \union InHand(f, Workers, Nodes) : attr' = [attr EXCEPT ![f] = c]
  BY DEF AttrOverwritten
<1>2. c \in Contents
  BY <1>1, InHandType DEF TypeInv, Contents
<1>3. DiskType'
  BY <1>1, <1>2 DEF AttrOverwritten, TypeInv, DiskType
<1> QED BY <1>3, Frame DEF TypeInv, AttrOverwritten

LEMMA InitType == Init => TypeInv
<1> SUFFICES ASSUME Init PROVE TypeInv
  OBVIOUS
<1>1. DiskType
  BY DEF Init, DiskType, NoFiles, MaybeMeta, WalStatuses
<1>2. ProcType /\ ClientType
  BY DEF Init, ProcType, ClientType
<1>3. IndexType
  BY DEF Init, IndexType, NoFiles, MaybeMeta
<1>4. ReqType
  BY IdleType DEF Init, ReqType, ReqInHand, Idle, SaveSteps
<1>5. GcType
  BY DEF Init, GcType, GcInHand, GcIdle, GcState, GcSteps, NoFiles, MaybeMeta
<1>6. RecType
  BY DEF Init, RecType, RecIdle, RecState, NoReport, Report
<1> QED BY <1>1, <1>2, <1>3, <1>4, <1>5, <1>6 DEF TypeInv

LEMMA NextType == TypeInv /\ [Next]_vars => TypeInv'
<1> SUFFICES ASSUME TypeInv, [Next]_vars PROVE TypeInv'
  OBVIOUS
<1>1. ASSUME NEW w \in Workers, Request(w) PROVE TypeInv'
  BY <1>1, UploadStartType, UploadSaveType, UploadRejectType, UploadAttrType,
     UploadUndoType, UploadIndexType, UploadCommitType, PatchStartType,
     DeleteStartType, WriteMetaType, UpdateMetaType, TransitionToType,
     SaveModeType
     DEF Request, Upload, Patch, Delete, TransitionMode
<1>2. ASSUME NEW n \in Nodes, Gc(n) PROVE TypeInv'
  BY <1>2, GcMarkBeginType, GcMarkAttrType, GcMarkIndexType, GcSweepBeginType,
     GcSweepDataType, GcSweepAttrType, GcSweepIndexType, GcEndType DEF Gc
<1>3. ASSUME NEW n \in Nodes, Reconcile(n) \/ Crash(n) \/ Start(n) PROVE TypeInv'
  BY <1>3, ReconcileBeginType, ReconcileEndType, CrashType, StartType
     DEF Reconcile
<1>4. CASE UNCHANGED vars
  BY <1>4, Frame DEF vars, TypeInv
<1> QED BY <1>1, <1>2, <1>3, <1>4, TtlPassesType, AttrOverwrittenType DEF Next

\* Every variable keeps the type its declaration promises, however many
\* requests, GC passes, reconciliations and crashes interleave.
THEOREM TypeCorrect == Spec => []TypeOK
<1>1. Spec => []TypeInv
  BY InitType, NextType, PTL DEF Spec
<1> QED BY <1>1, TypeInvTypeOK, PTL

-----------------------------------------------------------------------------
(* Durability.  The inductive invariant speaks of one file at a time.      *)

EarlySteps == {"save", "attr", "undo"}

Uploading(w, f) == req[w].file = f /\ req[w].step \in UploadSteps

\* Somebody holds metadata of f: an index, a GC snapshot, a request past
\* attr.Write, or the client.
Known(f) ==
  \/ \E n \in Nodes : \/ index[n][f] # NoMeta
                      \/ gc[n].todo[f] # NoMeta
                      \/ f \in acked[n]
  \/ \E w \in Workers : /\ req[w].file = f
                        /\ req[w].step \in FileSteps \ EarlySteps

\* Until its deletion is accepted, a file that has metadata has its data ...
Complete(f) ==
  f \notin doomed /\ attr[f] # NoMeta =>
    f \in data /\ (attr[f] # Torn => attr[f].status # "deleted")

\* ... and a file that anybody holds metadata of has them on disk.
Backed(f) == f \notin doomed /\ Known(f) => attr[f] # NoMeta

\* A file has one uploader, and before attr.Write nobody else knows of it.
OneUploader(f) ==
  \A v, w \in Workers : Uploading(v, f) /\ Uploading(w, f) => v = w

Private(f) ==
  \A w \in Workers : req[w].file = f /\ req[w].step \in EarlySteps =>
    /\ attr[f] = NoMeta /\ scraps[f] = {}
    /\ f \notin doomed
    /\ req[w].step = "attr" => f \in data

\* A file_id in use has a WAL entry, so that no other upload gets it.
Named(f) ==
  \/ attr[f] # NoMeta \/ scraps[f] # {} \/ f \in doomed
  \/ \E w \in Workers : Uploading(w, f)
  => ~FreshFile(f)

\* The status deleted appears only after a DELETE was accepted, and the sweep
\* touches only such files.
DeletedMeans(f) ==
  /\ \A n \in Nodes :
       /\ index[n][f] # NoMeta /\ index[n][f].status = "deleted" => f \in doomed
       /\ gc[n].todo[f] # NoMeta /\ gc[n].todo[f].status = "deleted" => f \in doomed
       /\ gc[n].step \in {"sweep", "sweepAttr", "sweepIndex"} =>
            (gc[n].todo[f] # NoMeta => f \in doomed)
  /\ \A w \in Workers :
       req[w].file = f /\ req[w].step \in FileSteps /\ req[w].meta.status = "deleted"
         => f \in doomed
  /\ \A c \in scraps[f] : c # Torn /\ c.status = "deleted" => f \in doomed

\* Until two operations meet on a file, one at most works on it, and its attr.json
\* is whole.
Clean(f) ==
  f \notin crossed =>
    /\ scraps[f] = {} /\ attr[f] # Torn
    /\ \A v, w \in Workers : BusyReq(v, f) /\ BusyReq(w, f) => v = w
    /\ \A w \in Workers, n \in Nodes : ~(BusyReq(w, f) /\ BusyGc(n, f))
    /\ \A k, n \in Nodes : BusyGc(k, f) /\ BusyGc(n, f) => k = n

\* The process that acknowledged f, or is about to, has it in its index.
Indexed(f) ==
  \A n \in Nodes :
    f \notin doomed \union crossed /\ up[n]
      /\ (\/ f \in acked[n]
          \/ \E w \in Workers : /\ Home[w] = n
                                /\ req[w].file = f
                                /\ req[w].step = "commit")
      => index[n][f] # NoMeta

DurParts(f) ==
  /\ Complete(f) /\ Backed(f) /\ OneUploader(f) /\ Private(f) /\ Named(f)
  /\ DeletedMeans(f) /\ Clean(f) /\ Indexed(f)

DurInv == \A f \in Files : DurParts(f)

\* A part holds as long as its variables do not change.
LEMMA DurFrame ==
  ASSUME NEW f \in Files, DurParts(f)
  PROVE  /\ UNCHANGED <<data, attr, doomed>> => Complete(f)'
         /\ UNCHANGED <<attr, index, req, gc, acked, doomed>> => Backed(f)'
         /\ UNCHANGED <<req>> => OneUploader(f)'
         /\ UNCHANGED <<data, attr, scraps, req, doomed>> => Private(f)'
         /\ UNCHANGED <<attr, scraps, wal, req, doomed>> => Named(f)'
         /\ UNCHANGED <<index, req, gc, scraps, doomed>> => DeletedMeans(f)'
         /\ UNCHANGED <<attr, scraps, req, gc, crossed>> => Clean(f)'
         /\ UNCHANGED <<up, index, req, acked, doomed, crossed>> => Indexed(f)'
BY DEF DurParts, Complete, Backed, Known, OneUploader, Uploading, Private, Named,
   FreshFile, DeletedMeans, Clean, BusyReq, BusyGc, Indexed

\* What is under way for a file is as sound as the invariant says.
LEMMA InHandSound ==
  ASSUME TypeInv, NEW f \in Files, DurParts(f),
         NEW W \in SUBSET Workers, NEW N \in SUBSET Nodes
  PROVE  /\ \A c \in InHand(f, W, N) :
              c \in FileMetadata /\ (c.status = "deleted" => f \in doomed)
         /\ InHand(f, W, N) # {} => ~FreshFile(f)
<1> DEFINE Writes(w) == req[w].file = f /\ req[w].step \in {"attr", "patch", "del"}
           Marks(n) == gc[n].step = "mark" /\ gc[n].todo[f] # NoMeta
<1>1. ASSUME NEW w \in W, Writes(w)
      PROVE  /\ req[w].meta.status = "deleted" => f \in doomed
             /\ ~FreshFile(f)
  BY <1>1 DEF DurParts, DeletedMeans, Named, Uploading, UploadSteps, Backed, Known,
     FileSteps, EarlySteps, RequestSteps, SaveSteps
<1>2. ASSUME NEW n \in N, Marks(n)
      PROVE  /\ gc[n].todo[f].status = "deleted" => f \in doomed
             /\ ~FreshFile(f)
  BY <1>2 DEF DurParts, DeletedMeans, Named, Backed, Known
<1>3. InHand(f, W, N) =
        {req[w].meta : w \in {v \in W : Writes(v)}}
          \union {gc[n].todo[f] : n \in {k \in N : Marks(k)}}
  BY DEF InHand
<1>4. InHand(f, W, N) \in SUBSET FileMetadata
  BY InHandType DEF TypeInv
<1> QED BY <1>1, <1>2, <1>3, <1>4

\* Whoever works alone on a file finds no other write of it under way.
LEMMA AloneAtWork ==
  ASSUME TypeInv, NEW f \in Files, DurParts(f), f \notin crossed
  PROVE  /\ \A w \in Workers : BusyReq(w, f) => BesideReq(w, f) = {}
         /\ \A n \in Nodes : BusyGc(n, f) => InHand(f, Workers, Nodes \ {n}) = {}
         /\ \A W \in SUBSET Workers, N \in SUBSET Nodes :
              InHand(f, W, N) # {} => InHand(f, Workers \ W, Nodes \ N) = {}
BY DEF DurParts, Clean, BesideReq, InHand, BusyReq, BusyGc

\* Until attr.Write has ended, the uploader of a file is alone with it.
LEMMA PrivateAlone ==
  ASSUME TypeInv, NEW f \in Files, DurParts(f), NEW w \in Workers,
         req[w].file = f, req[w].step \in EarlySteps
  PROVE  /\ \A v \in Workers \ {w} : req[v].file = f => req[v].step \notin FileSteps
         /\ \A n \in Nodes : gc[n].todo[f] = NoMeta /\ index[n][f] = NoMeta
         /\ attr[f] = NoMeta /\ scraps[f] = {} /\ f \notin doomed
         /\ \A v \in Workers \ {w} : ~BusyReq(v, f)
         /\ \A n \in Nodes : ~BusyGc(n, f)
         /\ \A W \in SUBSET (Workers \ {w}), N \in SUBSET Nodes : InHand(f, W, N) = {}
<1> USE DEF EarlySteps, UploadSteps, FileSteps, RequestSteps, SaveSteps
<1>1. attr[f] = NoMeta /\ scraps[f] = {} /\ f \notin doomed
  BY DEF DurParts, Private
<1>2. ~Known(f)
  BY <1>1 DEF DurParts, Backed
<1>3. \A n \in Nodes : gc[n].todo[f] = NoMeta /\ index[n][f] = NoMeta
  BY <1>2 DEF Known
<1>4. ASSUME NEW v \in Workers \ {w}, req[v].file = f PROVE req[v].step \notin FileSteps
  BY <1>2, <1>4 DEF Known, DurParts, OneUploader, Uploading
<1>5. \A v \in Workers \ {w} : ~BusyReq(v, f)
  BY <1>4 DEF BusyReq
<1>6. \A n \in Nodes : ~BusyGc(n, f)
  BY <1>3 DEF BusyGc
<1>7. \A W \in SUBSET (Workers \ {w}), N \in SUBSET Nodes : InHand(f, W, N) = {}
  BY <1>3, <1>4 DEF InHand
<1> QED BY <1>1, <1>3, <1>4, <1>5, <1>6, <1>7

\* Nobody takes up work on a file, and its attr.json stays whole.
LEMMA CleanKept ==
  ASSUME NEW f \in Files, DurParts(f),
         \A v \in Workers : BusyReq(v, f)' => BusyReq(v, f),
         \A n \in Nodes : BusyGc(n, f)' => BusyGc(n, f),
         crossed \subseteq crossed',
         f \notin crossed => scraps'[f] = {} /\ (attr[f] # Torn => attr'[f] # Torn)
  PROVE  Clean(f)'
BY DEF DurParts, Clean

\* Somebody takes up work on a file, and others find it busy.
LEMMA CleanCrossed ==
  ASSUME NEW f \in Files, DurParts(f), UNCHANGED <<attr, scraps>>,
         crossed \subseteq crossed', Busy(f) => f \in crossed',
         \/ \E w \in Workers : /\ \A v \in Workers \ {w} : BusyReq(v, f)' => BusyReq(v, f)
                               /\ \A n \in Nodes : BusyGc(n, f)' => BusyGc(n, f)
         \/ \E n \in Nodes : /\ \A v \in Workers : BusyReq(v, f)' => BusyReq(v, f)
                             /\ \A k \in Nodes \ {n} : BusyGc(k, f)' => BusyGc(k, f)
  PROVE  Clean(f)'
BY DEF DurParts, Clean, Busy

\* What the end of a write does to a file that has metadata, or is doomed.
LEMMA WriteFacts ==
  ASSUME TypeInv, NEW f \in Files, DurParts(f), NEW g \in Files, NEW m \in FileMetadata,
         NEW W \in SUBSET Workers, NEW N \in SUBSET Nodes,
         AttrWrite(g, m, InHand(g, W, N)) \/ AttrWriteFails(g, InHand(g, W, N)),
         f = g => /\ f \in doomed \/ attr[f] # NoMeta
                  /\ m.status = "deleted" => f \in doomed
                  /\ f \notin crossed => InHand(g, W, N) = {}
  PROVE  /\ attr[f] # NoMeta => attr'[f] # NoMeta
         /\ attr'[f] # NoMeta => f \in doomed \/ attr[f] # NoMeta
         /\ attr'[f] # Torn /\ attr'[f] # NoMeta /\ attr'[f].status = "deleted" =>
              f \in doomed
         /\ f \notin crossed => scraps'[f] = {} /\ (attr[f] # Torn => attr'[f] # Torn)
         /\ \A c \in scraps'[f] : c # Torn /\ c.status = "deleted" => f \in doomed
         /\ scraps'[f] # {} => scraps[f] # {} \/ f \in doomed \/ attr[f] # NoMeta
<1> DEFINE others == InHand(g, W, N)
<1>1. /\ attr \in [Files -> Contents \union {NoMeta}]
      /\ scraps \in [Files -> SUBSET Contents]
      /\ NoMeta \notin FileMetadata /\ Torn \notin FileMetadata /\ NoMeta # Torn
  BY ConstantsOK DEF TypeInv, DiskType, MaybeMeta
<1>2. others \in SUBSET FileMetadata
  BY InHandType DEF TypeInv
<1>3. /\ attr[f] # NoMeta /\ attr[f] # Torn /\ attr[f].status = "deleted" => f \in doomed
      /\ \A c \in scraps[f] : c # Torn /\ c.status = "deleted" => f \in doomed
      /\ f \notin crossed => scraps[f] = {}
  BY DEF DurParts, Complete, DeletedMeans, Clean
<1>4. scraps' = [scraps EXCEPT ![g] = IF others = {} THEN {} ELSE scraps[g] \union {Torn}]
  BY DEF AttrWrite, AttrWriteFails, TmpLeft
<1>5. CASE f # g
  <2>1. attr'[f] = attr[f]
    BY <1>1, <1>5 DEF AttrWrite, AttrWriteFails
  <2>2. scraps'[f] = scraps[f]
    BY <1>1, <1>4, <1>5
  <2> QED BY <1>3, <2>1, <2>2
<1>6. CASE f = g
  <2>1. scraps'[f] = IF others = {} THEN {} ELSE scraps[f] \union {Torn}
    BY <1>1, <1>4, <1>6
  <2>2. \/ attr'[f] = attr[f]
        \/ attr'[f] \in {m} \union (IF others = {} /\ scraps[f] = {} THEN {}
                                    ELSE {Torn} \union others \union scraps[f])
    BY <1>1, <1>6 DEF AttrWrite, AttrWriteFails
  <2>3. \A c \in others : c.status = "deleted" => f \in doomed
    BY <1>6, InHandSound
  <2>4. \A c \in scraps[f] : c \in Contents
    BY <1>1
  <2> HIDE DEF others
  <2>5. \/ attr'[f] = attr[f]
        \/ /\ attr'[f] # NoMeta
           /\ attr'[f] # Torn /\ attr'[f].status = "deleted" => f \in doomed
    BY <1>1, <1>2, <1>3, <1>6, <2>2, <2>3, <2>4 DEF Contents
  <2>6. f \notin crossed => scraps'[f] = {} /\ (attr[f] # Torn => attr'[f] # Torn)
    BY <1>1, <1>3, <1>6, <2>1, <2>2 DEF others
  <2>7. \A c \in scraps'[f] : c # Torn /\ c.status = "deleted" => f \in doomed
    BY <1>3, <2>1
  <2> QED BY <1>3, <1>6, <2>5, <2>6, <2>7
<1> QED BY <1>5, <1>6

\* WAL entries never go away.
LEMMA FreshBefore ==
  ASSUME DiskType, NEW n \in Nodes, NEW g \in Files, NEW f \in Files,
         StartTransaction(n, g) \/ Commit(n, g) \/ Rollback(n, g) \/ UNCHANGED wal,
         FreshFile(f)'
  PROVE  FreshFile(f)
BY DEF DiskType, StartTransaction, Commit, Rollback, WalSet, FreshFile

\* A GC step only forgets entries of its snapshot.
LEMMA GcSnapshot ==
  ASSUME GcType, NEW n \in Nodes, NEW step \in GcSteps, NEW g \in Files,
         GcHold(n, step, g) \/ GcNext(n, step, g), NEW f \in Files, NEW k \in Nodes
  PROVE  /\ gc'[k].todo[f] = gc[k].todo[f] \/ gc'[k].todo[f] = NoMeta
         /\ gc'[k].step = IF k = n THEN step ELSE gc[k].step
<1>1. gc[k] \in GcState
  BY DEF GcType
<1>2. CASE GcHold(n, step, g)
  BY <1>1, <1>2 DEF GcType, GcHold, GcState
<1>3. CASE GcNext(n, step, g)
  BY <1>1, <1>3 DEF GcType, GcNext, GcState
<1> QED BY <1>2, <1>3

LEMMA UploadStartDur ==
  ASSUME TypeInv, DurInv, NEW w \in Workers, NEW g \in Files, NEW d \in Descs, UploadStart(w, g, d)
  PROVE  DurInv'
<1> SUFFICES ASSUME NEW f \in Files, DurParts(f) PROVE DurParts(f)'
  BY DEF DurInv
<1> USE DEF TypeInv, diskVars, clientVars, ReqType, ReqInHand, Request_,
   UploadSteps, EarlySteps, FileSteps, RequestSteps, SaveSteps
<1>1. \A v \in Workers \ {w} : req'[v] = req[v]
  BY DEF UploadStart, Begin
<1>2. req'[w].step = "save" /\ req'[w].file = g /\ req'[w].meta.status = "active"
  BY DEF UploadStart, Begin, Idle
<1>3. FreshFile(g)
  BY DEF UploadStart
<1>4. FreshFile(f)' => FreshFile(f) /\ f # g
  BY ConstantsOK, FreshBefore DEF UploadStart, StartTransaction, WalSet,
     FreshFile, DiskType
<1>5. Backed(f)'
  BY <1>1, <1>2 DEF DurParts, Backed, Known, UploadStart
<1>6. OneUploader(f)'
  BY <1>1, <1>2, <1>3 DEF DurParts, OneUploader, Uploading, Named
<1>7. Private(f)'
  BY <1>1, <1>2, <1>3 DEF DurParts, Private, Named, UploadStart
<1>11. Clean(f)'
  BY <1>1, <1>2 DEF DurParts, Clean, BusyReq, BusyGc, UploadStart
<1>8. Named(f)'
  BY <1>1, <1>2, <1>4 DEF DurParts, Named, Uploading, UploadStart
<1>9. DeletedMeans(f)'
  BY <1>1, <1>2 DEF DurParts, DeletedMeans, UploadStart
<1>10. Indexed(f)'
  BY <1>1, <1>2 DEF DurParts, Indexed, UploadStart
<1> QED BY <1>5, <1>6, <1>7, <1>8, <1>9, <1>10, <1>11, DurFrame DEF DurParts,
   UploadStart

LEMMA UploadSaveDur ==
  ASSUME TypeInv, DurInv, NEW w \in Workers, UploadSave(w)
  PROVE  DurInv'
<1> SUFFICES ASSUME NEW f \in Files, DurParts(f) PROVE DurParts(f)'
  BY DEF DurInv
<1> USE DEF TypeInv, diskVars, clientVars, ReqType, ReqInHand, Request_,
   UploadSteps, EarlySteps, FileSteps, RequestSteps, SaveSteps
<1>1. \A v \in Workers \ {w} : req'[v] = req[v]
  BY DEF UploadSave, Finish
<1>2. req[w].step = "save" /\ req[w].meta \in FileMetadata
  BY DEF UploadSave, At
<1>3. \/ req'[w].step = "attr" /\ req'[w].file = req[w].file /\ req'[w].meta.status = req[w].meta.status
      \/ req'[w].step = "idle"
  BY <1>2 DEF UploadSave, Finish, Idle, FileMetadata
<1>4. req'[w].step = "attr" => req[w].file \in data'
  BY DEF UploadSave, Finish, Idle
<1>5. data \subseteq data'
  BY DEF UploadSave
<1>6. FreshFile(f)' => FreshFile(f)
  BY <1>2, ConstantsOK, FreshBefore DEF UploadSave
<1>7. Complete(f)'
  BY <1>5 DEF DurParts, Complete, UploadSave
<1>8. Backed(f)'
  BY <1>1, <1>3 DEF DurParts, Backed, Known, UploadSave
<1>9. OneUploader(f)'
  BY <1>1, <1>2, <1>3 DEF DurParts, OneUploader, Uploading
<1>10. Private(f)'
  BY <1>1, <1>2, <1>3, <1>4, <1>5 DEF DurParts, Private, UploadSave
<1>11. Named(f)'
  BY <1>1, <1>2, <1>3, <1>6 DEF DurParts, Named, Uploading, UploadSave
<1>12. DeletedMeans(f)'
  BY <1>1, <1>2, <1>3 DEF DurParts, DeletedMeans, UploadSave
<1>13. Indexed(f)'
  BY <1>1, <1>3 DEF DurParts, Indexed, UploadSave
<1>14. Clean(f)'
  <2>1. \A v \in Workers \ {w} : BusyReq(v, f)' <=> BusyReq(v, f)
    BY <1>1 DEF BusyReq
  <2>2. \A n \in Nodes : BusyGc(n, f)' <=> BusyGc(n, f)
    BY DEF BusyGc, UploadSave
  <2>3. BusyReq(w, f)' => req[w].file = f
    BY <1>3 DEF BusyReq
  <2>4. CASE req[w].file = f
    BY <1>2, <2>1, <2>2, <2>4, PrivateAlone DEF DurParts, Clean, UploadSave
  <2>5. CASE req[w].file # f
    BY <2>1, <2>2, <2>3, <2>5 DEF DurParts, Clean, UploadSave
  <2> QED BY <2>4, <2>5
<1> QED BY <1>7, <1>8, <1>9, <1>10, <1>11, <1>12, <1>13, <1>14, DurFrame DEF
   DurParts, UploadSave

LEMMA UploadRejectDur ==
  ASSUME TypeInv, DurInv, NEW w \in Workers, UploadReject(w)
  PROVE  DurInv'
<1> SUFFICES ASSUME NEW f \in Files, DurParts(f) PROVE DurParts(f)'
  BY DEF DurInv
<1> USE DEF UploadSteps, EarlySteps, FileSteps, RequestSteps, SaveSteps
<1>1. \A v \in Workers \ {w} : req'[v] = req[v]
  BY DEF UploadReject, Goto
<1>2. /\ req[w].step = "attr" /\ req'[w].step = "undo"
      /\ req'[w].file = req[w].file /\ req'[w].meta = req[w].meta
  BY DEF UploadReject, At, Goto, TypeInv, ReqType, Request_
<1>3. UNCHANGED <<data, attr, wal, up, index, gc, acked, doomed, crossed>>
  BY DEF UploadReject, clientVars
<1>4. scraps'[f] = scraps[f]
  <2>1. CASE req[w].file = f
    BY <1>2, <2>1, PrivateAlone DEF UploadReject, TmpLeft, BesideReq, TypeInv, DiskType
  <2>2. CASE req[w].file # f
    BY <2>2 DEF UploadReject, TmpLeft, TypeInv, DiskType
  <2> QED BY <2>1, <2>2
<1>5. Backed(f)'
  BY <1>1, <1>2, <1>3 DEF DurParts, Backed, Known
<1>6. OneUploader(f)'
  BY <1>1, <1>2 DEF DurParts, OneUploader, Uploading
<1>7. Private(f)'
  BY <1>1, <1>2, <1>3, <1>4 DEF DurParts, Private
<1>8. Named(f)'
  BY <1>1, <1>2, <1>3, <1>4 DEF DurParts, Named, Uploading, FreshFile
<1>9. DeletedMeans(f)'
  BY <1>1, <1>2, <1>3, <1>4 DEF DurParts, DeletedMeans
<1>10. Clean(f)'
  BY <1>1, <1>2, <1>3, <1>4 DEF DurParts, Clean, BusyReq, BusyGc
<1>11. Indexed(f)'
  BY <1>1, <1>2, <1>3 DEF DurParts, Indexed
<1> QED BY <1>3, <1>5, <1>6, <1>7, <1>8, <1>9, <1>10, <1>11, DurFrame DEF DurParts

LEMMA UploadAttrDur ==
  ASSUME TypeInv, DurInv, NEW w \in Workers, UploadAttr(w)
  PROVE  DurInv'
<1> SUFFICES ASSUME NEW f \in Files, DurParts(f) PROVE DurParts(f)'
  BY DEF DurInv
<1> USE DEF UploadSteps, EarlySteps, FileSteps, RequestSteps, SaveSteps
<1>1. \A v \in Workers \ {w} : req'[v] = req[v]
  BY DEF UploadAttr, Goto
<1>2. /\ req[w].step = "attr" /\ req'[w].step = "add"
      /\ req'[w].file = req[w].file /\ req'[w].meta = req[w].meta
      /\ req[w].file \in Files /\ req[w].meta \in FileMetadata
  BY DEF UploadAttr, At, Goto, TypeInv, ReqType, Request_, ReqInHand
<1>3. UNCHANGED <<data, wal, up, index, gc, acked, doomed, crossed>>
  BY DEF UploadAttr, clientVars
<1>4. CASE req[w].file # f
  <2>1. attr'[f] = attr[f] /\ scraps'[f] = scraps[f]
    BY <1>2, <1>4 DEF UploadAttr, AttrWrite, TmpLeft, TypeInv, DiskType
  <2>2. Complete(f)' /\ Backed(f)'
    BY <1>1, <1>2, <1>3, <1>4, <2>1 DEF DurParts, Complete, Backed, Known
  <2>3. OneUploader(f)' /\ Private(f)' /\ Named(f)'
    BY <1>1, <1>2, <1>3, <1>4, <2>1
       DEF DurParts, OneUploader, Uploading, Private, Named, FreshFile
  <2>4. DeletedMeans(f)' /\ Indexed(f)'
    BY <1>1, <1>2, <1>3, <1>4, <2>1 DEF DurParts, DeletedMeans, Indexed
  <2>5. Clean(f)'
    BY <1>1, <1>2, <1>3, <1>4, <2>1 DEF DurParts, Clean, BusyReq, BusyGc
  <2> QED BY <2>2, <2>3, <2>4, <2>5 DEF DurParts
<1>5. CASE req[w].file = f
  <2>1. /\ \A v \in Workers \ {w} : req[v].file = f => req[v].step \notin FileSteps
        /\ \A n \in Nodes : gc[n].todo[f] = NoMeta /\ index[n][f] = NoMeta
        /\ attr[f] = NoMeta /\ scraps[f] = {} /\ f \notin doomed
        /\ BesideReq(w, f) = {}
    BY <1>2, <1>5, PrivateAlone DEF BesideReq
  <2>2. attr'[f] = req[w].meta /\ scraps'[f] = {}
    BY <1>2, <1>5, <2>1 DEF UploadAttr, AttrWrite, TmpLeft, TypeInv, DiskType
  <2>3. attr'[f] # NoMeta /\ attr'[f] # Torn
    BY <1>2, <2>2, ConstantsOK DEF MaybeMeta
  <2>4. req[w].meta.status # "deleted"
    BY <1>2, <1>5, <2>1 DEF DurParts, DeletedMeans
  <2>5. f \in data
    BY <1>2, <1>5 DEF DurParts, Private
  <2>6. Complete(f)' /\ Backed(f)'
    BY <1>3, <2>2, <2>3, <2>4, <2>5 DEF Complete, Backed
  <2>7. OneUploader(f)' /\ Private(f)'
    BY <1>1, <1>2, <1>5, <2>1 DEF DurParts, OneUploader, Uploading, Private
  <2>8. Named(f)'
    BY <1>2, <1>3, <1>5 DEF DurParts, Named, Uploading, FreshFile
  <2>9. DeletedMeans(f)'
    BY <1>1, <1>2, <1>3, <2>1, <2>2, <2>4 DEF DurParts, DeletedMeans
  <2>10. Clean(f)'
    BY <1>1, <1>2, <1>3, <2>1, <2>2, <2>3 DEF Clean, BusyReq, BusyGc
  <2>11. Indexed(f)'
    BY <1>1, <1>2, <1>3 DEF DurParts, Indexed
  <2> QED BY <2>6, <2>7, <2>8, <2>9, <2>10, <2>11 DEF DurParts
<1> QED BY <1>4, <1>5

LEMMA UploadUndoDur ==
  ASSUME TypeInv, DurInv, NEW w \in Workers, UploadUndo(w)
  PROVE  DurInv'
<1> SUFFICES ASSUME NEW f \in Files, DurParts(f) PROVE DurParts(f)'
  BY DEF DurInv
<1> USE DEF TypeInv, diskVars, clientVars, ReqType, ReqInHand, Request_,
   UploadSteps, EarlySteps, FileSteps, RequestSteps, SaveSteps, UploadUndo, AttrDelete,
   Rollback, WalSet, Finish, Idle, At, DiskType
<1>1. FreshFile(f)' => FreshFile(f)
  BY ConstantsOK, FreshBefore DEF UploadUndo
<1>2. Complete(f)'
  BY DEF DurParts, Complete
<1>3. Backed(f)'
  BY DEF DurParts, Backed, Known, Private
<1>4. OneUploader(f)'
  BY DEF DurParts, OneUploader, Uploading
<1>5. Private(f)'
  BY DEF DurParts, Private, OneUploader, Uploading
<1>6. Named(f)'
  BY <1>1 DEF DurParts, Named, Uploading
<1>7. DeletedMeans(f)'
  BY DEF DurParts, DeletedMeans
<1>8. Indexed(f)'
  BY DEF DurParts, Indexed
<1>9. Clean(f)'
  BY ConstantsOK DEF DurParts, Clean, BusyReq, BusyGc, MaybeMeta
<1> QED BY <1>2, <1>3, <1>4, <1>5, <1>6, <1>7, <1>8, <1>9, DurFrame DEF DurParts,
   UploadUndo

LEMMA UploadIndexDur ==
  ASSUME TypeInv, DurInv, NEW w \in Workers, UploadIndex(w)
  PROVE  DurInv'
<1> SUFFICES ASSUME NEW f \in Files, DurParts(f) PROVE DurParts(f)'
  BY DEF DurInv
<1> USE DEF TypeInv, diskVars, clientVars, ReqType, ReqInHand, Request_,
   UploadSteps, EarlySteps, FileSteps, RequestSteps, SaveSteps, UploadIndex, IndexAdd,
   PutIndex, Goto, At, IndexType, ProcType, FreshFile
<1>1. Home[w] \in Nodes /\ req[w].meta \in FileMetadata /\ req[w].file \in Files
  BY ConstantsOK
<1>2. \A n \in Nodes : index'[n][f] = IF n = Home[w] /\ f = req[w].file THEN req[w].meta ELSE index[n][f]
  BY <1>1
<1>3. Backed(f)'
  BY <1>1 DEF DurParts, Backed, Known
<1>4. OneUploader(f)'
  BY DEF DurParts, OneUploader, Uploading
<1>5. Private(f)'
  BY DEF DurParts, Private
<1>6. Named(f)'
  BY DEF DurParts, Named, Uploading
<1>7. DeletedMeans(f)'
  BY <1>1 DEF DurParts, DeletedMeans
<1>8. Indexed(f)'
  BY <1>1, <1>2, ConstantsOK DEF DurParts, Indexed
<1>9. Clean(f)'
  BY DEF DurParts, Clean, BusyReq, BusyGc
<1> QED BY <1>3, <1>4, <1>5, <1>6, <1>7, <1>8, <1>9, DurFrame DEF DurParts,
   UploadIndex

LEMMA UploadCommitDur ==
  ASSUME TypeInv, DurInv, NEW w \in Workers, UploadCommit(w)
  PROVE  DurInv'
<1> SUFFICES ASSUME NEW f \in Files, DurParts(f) PROVE DurParts(f)'
  BY DEF DurInv
<1> USE DEF TypeInv, diskVars, clientVars, ReqType, ReqInHand, Request_,
   UploadSteps, EarlySteps, FileSteps, RequestSteps, SaveSteps, UploadCommit, Commit,
   WalSet, Finish, Idle, At, ClientType
<1>1. FreshFile(f)' => FreshFile(f)
  BY ConstantsOK, FreshBefore DEF UploadCommit
<1>2. Backed(f)'
  BY DEF DurParts, Backed, Known
<1>3. OneUploader(f)'
  BY DEF DurParts, OneUploader, Uploading
<1>4. Private(f)'
  BY DEF DurParts, Private
<1>5. Named(f)'
  BY <1>1 DEF DurParts, Named, Uploading
<1>6. DeletedMeans(f)'
  BY DEF DurParts, DeletedMeans
<1>7. Indexed(f)'
  BY DEF DurParts, Indexed
<1>8. Clean(f)'
  BY DEF DurParts, Clean, BusyReq, BusyGc
<1> QED BY <1>2, <1>3, <1>4, <1>5, <1>6, <1>7, <1>8, DurFrame DEF DurParts,
   UploadCommit

LEMMA PatchStartDur ==
  ASSUME TypeInv, DurInv, NEW w \in Workers, NEW g \in Files, NEW d \in Descs, PatchStart(w, g, d)
  PROVE  DurInv'
<1> SUFFICES ASSUME NEW f \in Files, DurParts(f) PROVE DurParts(f)'
  BY DEF DurInv
<1> USE DEF TypeInv, diskVars, clientVars, ReqType, ReqInHand, Request_,
   UploadSteps, EarlySteps, FileSteps, RequestSteps, SaveSteps, IndexType, IsActive
<1>1. \A v \in Workers \ {w} : req'[v] = req[v]
  BY DEF PatchStart, Begin
<1>2. req'[w].step = "patch" /\ req'[w].file = g /\ req'[w].meta.status = "active"
  BY ConstantsOK DEF PatchStart, Begin, Idle, FileMetadata, MaybeMeta
<1>3. Home[w] \in Nodes /\ index[Home[w]][g] # NoMeta
  BY ConstantsOK DEF PatchStart
<1>4. Backed(f)'
  BY <1>1, <1>2, <1>3 DEF DurParts, Backed, Known, PatchStart
<1>5. OneUploader(f)'
  BY <1>1, <1>2 DEF DurParts, OneUploader, Uploading
<1>6. Private(f)'
  BY <1>1, <1>2 DEF DurParts, Private, PatchStart
<1>7. Named(f)'
  BY <1>1, <1>2 DEF DurParts, Named, Uploading, FreshFile, PatchStart
<1>8. DeletedMeans(f)'
  BY <1>1, <1>2 DEF DurParts, DeletedMeans, PatchStart
<1>9. Indexed(f)'
  BY <1>1, <1>2 DEF DurParts, Indexed, PatchStart, Cross
<1>12. Clean(f)'
  <2>1. crossed' = crossed \union {x \in {g} : Busy(x)}
    BY DEF PatchStart, Cross
  <2>2. \A v \in Workers \ {w} : BusyReq(v, f)' <=> BusyReq(v, f)
    BY <1>1 DEF BusyReq
  <2>3. \A n \in Nodes : BusyGc(n, f)' <=> BusyGc(n, f)
    BY DEF BusyGc, PatchStart
  <2>4. UNCHANGED <<attr, scraps>>
    BY DEF PatchStart
  <2>5. CASE f = g
    BY <2>1, <2>2, <2>3, <2>4, <2>5, CleanCrossed
  <2>6. CASE f # g
    <3>1. \A v \in Workers : BusyReq(v, f)' => BusyReq(v, f)
      BY <1>2, <2>2, <2>6 DEF BusyReq
    <3> QED BY <2>1, <2>3, <2>4, <3>1, CleanKept DEF DurParts, Clean
  <2> QED BY <2>5, <2>6
<1> QED BY <1>4, <1>5, <1>6, <1>7, <1>8, <1>9, <1>12, DurFrame DEF DurParts,
   PatchStart

LEMMA DeleteStartDur ==
  ASSUME TypeInv, DurInv, NEW w \in Workers, NEW g \in Files, DeleteStart(w, g)
  PROVE  DurInv'
<1> SUFFICES ASSUME NEW f \in Files, DurParts(f) PROVE DurParts(f)'
  BY DEF DurInv
<1> USE DEF TypeInv, diskVars, clientVars, ReqType, ReqInHand, Request_,
   UploadSteps, EarlySteps, FileSteps, RequestSteps, SaveSteps, IndexType, ClientType
<1>1. \A v \in Workers \ {w} : req'[v] = req[v]
  BY DEF DeleteStart, Begin
<1>2. req'[w].step = "del" /\ req'[w].file = g
  BY ConstantsOK DEF DeleteStart, Begin, Idle
<1>3. Home[w] \in Nodes /\ index[Home[w]][g] # NoMeta
  BY ConstantsOK DEF DeleteStart
<1>4. f = g => f \in doomed \/ attr[f] # NoMeta
  BY <1>3 DEF DurParts, Backed, Known
<1>5. Complete(f)'
  BY DEF DurParts, Complete, DeleteStart
<1>6. Backed(f)'
  BY <1>1, <1>2, <1>3 DEF DurParts, Backed, Known, DeleteStart
<1>7. OneUploader(f)'
  BY <1>1, <1>2 DEF DurParts, OneUploader, Uploading
<1>8. Private(f)'
  BY <1>1, <1>2, <1>3, <1>4 DEF DurParts, Private, DeleteStart
<1>9. Named(f)'
  BY <1>1, <1>2, <1>4 DEF DurParts, Named, Uploading, FreshFile, DeleteStart
<1>10. DeletedMeans(f)'
  BY <1>1, <1>2 DEF DurParts, DeletedMeans, DeleteStart
<1>11. Indexed(f)'
  BY <1>1, <1>2 DEF DurParts, Indexed, DeleteStart, Cross
<1>12. Clean(f)'
  <2>1. crossed' = crossed \union {x \in {g} : Busy(x)}
    BY DEF DeleteStart, Cross
  <2>2. \A v \in Workers \ {w} : BusyReq(v, f)' <=> BusyReq(v, f)
    BY <1>1 DEF BusyReq
  <2>3. \A n \in Nodes : BusyGc(n, f)' <=> BusyGc(n, f)
    BY DEF BusyGc, DeleteStart
  <2>4. UNCHANGED <<attr, scraps>>
    BY DEF DeleteStart
  <2>5. CASE f = g
    BY <2>1, <2>2, <2>3, <2>4, <2>5, CleanCrossed
  <2>6. CASE f # g
    <3>1. \A v \in Workers : BusyReq(v, f)' => BusyReq(v, f)
      BY <1>2, <2>2, <2>6 DEF BusyReq
    <3> QED BY <2>1, <2>3, <2>4, <3>1, CleanKept DEF DurParts, Clean
  <2> QED BY <2>5, <2>6
<1> QED BY <1>5, <1>6, <1>7, <1>8, <1>9, <1>10, <1>11, <1>12, DurFrame DEF DurParts,
   DeleteStart

LEMMA WriteMetaDur ==
  ASSUME TypeInv, DurInv, NEW w \in Workers, WriteMeta(w)
  PROVE  DurInv'
<1> SUFFICES ASSUME NEW f \in Files, DurParts(f) PROVE DurParts(f)'
  BY DEF DurInv
<1> DEFINE g == req[w].file
<1> USE DEF TypeInv, diskVars, clientVars, ReqType, ReqInHand, Request_,
   UploadSteps, EarlySteps, FileSteps, RequestSteps, SaveSteps, IndexType
<1>1. \A v \in Workers \ {w} : req'[v] = req[v]
  BY DEF WriteMeta, Goto, Finish
<1>2. /\ req[w].step \in {"patch", "del"}
      /\ req[w].file \in Files /\ req[w].meta \in FileMetadata
  BY ConstantsOK DEF WriteMeta, At
<1>3. \/ /\ req'[w].step \in {"patchIndex", "delIndex"}
         /\ req'[w].file = req[w].file
         /\ req'[w].meta = req[w].meta
      \/ req'[w].step = "idle"
  BY <1>2 DEF WriteMeta, Goto, Finish, Idle
<1>4. /\ AttrWrite(g, req[w].meta, BesideReq(w, g)) \/ AttrWriteFails(g, BesideReq(w, g))
      /\ UNCHANGED <<data, wal, up, index, gc, acked, doomed, crossed>>
  BY DEF WriteMeta
<1>5. f = g => /\ f \in doomed \/ attr[f] # NoMeta
               /\ req[w].meta.status = "deleted" => f \in doomed
               /\ f \notin crossed => BesideReq(w, g) = {}
  <2> SUFFICES ASSUME f = g
               PROVE  /\ f \in doomed \/ attr[f] # NoMeta
                      /\ req[w].meta.status = "deleted" => f \in doomed
                      /\ f \notin crossed => BesideReq(w, g) = {}
    OBVIOUS
  <2>1. f \in doomed \/ attr[f] # NoMeta
    BY <1>2 DEF DurParts, Backed, Known
  <2>2. req[w].meta.status = "deleted" => f \in doomed
    BY <1>2 DEF DurParts, DeletedMeans
  <2>3. BusyReq(w, f)
    BY <1>2 DEF BusyReq
  <2> QED BY <2>1, <2>2, <2>3, AloneAtWork
<1>6. /\ attr[f] # NoMeta => attr'[f] # NoMeta
      /\ attr'[f] # NoMeta => f \in doomed \/ attr[f] # NoMeta
      /\ attr'[f] # Torn /\ attr'[f] # NoMeta /\ attr'[f].status = "deleted" =>
           f \in doomed
      /\ f \notin crossed => scraps'[f] = {} /\ (attr[f] # Torn => attr'[f] # Torn)
      /\ \A c \in scraps'[f] : c # Torn /\ c.status = "deleted" => f \in doomed
      /\ scraps'[f] # {} => scraps[f] # {} \/ f \in doomed \/ attr[f] # NoMeta
  BY <1>2, <1>4, <1>5, WriteFacts DEF BesideReq
<1> HIDE DEF g
<1>7. Complete(f)'
  BY <1>4, <1>6 DEF DurParts, Complete
<1>8. Backed(f)'
  BY <1>1, <1>2, <1>3, <1>4, <1>6 DEF DurParts, Backed, Known
<1>9. OneUploader(f)'
  BY <1>1, <1>2, <1>3 DEF DurParts, OneUploader, Uploading
<1>10. Private(f)'
  <2>1. ASSUME NEW v \in Workers, req'[v].file = f, req'[v].step \in EarlySteps
        PROVE  /\ v # w /\ req[v] = req'[v] /\ scraps'[f] = {} /\ attr'[f] = NoMeta
               /\ f \notin doomed' /\ (req[v].step = "attr" => f \in data')
    <3>1. v # w /\ req[v] = req'[v]
      BY <1>1, <1>2, <1>3, <2>1
    <3>2. attr[f] = NoMeta /\ scraps[f] = {} /\ f \notin doomed
          /\ (req[v].step = "attr" => f \in data)
      BY <2>1, <3>1 DEF DurParts, Private
    <3> QED BY <1>4, <1>6, <3>1, <3>2
  <2> QED BY <2>1 DEF Private
<1>11. Named(f)'
  BY <1>1, <1>2, <1>3, <1>4, <1>6 DEF DurParts, Named, Uploading, FreshFile
<1>12. DeletedMeans(f)'
  BY <1>1, <1>2, <1>3, <1>4, <1>6 DEF DurParts, DeletedMeans
<1>13. Clean(f)'
  <2>1. \A v \in Workers : BusyReq(v, f)' => BusyReq(v, f)
    BY <1>1, <1>2, <1>3 DEF BusyReq
  <2>2. \A n \in Nodes : BusyGc(n, f)' => BusyGc(n, f)
    BY <1>4 DEF BusyGc
  <2> QED BY <1>4, <1>6, <2>1, <2>2, CleanKept
<1>14. Indexed(f)'
  BY <1>1, <1>2, <1>3, <1>4 DEF DurParts, Indexed
<1> QED BY <1>7, <1>8, <1>9, <1>10, <1>11, <1>12, <1>13, <1>14 DEF DurParts

LEMMA UpdateMetaDur ==
  ASSUME TypeInv, DurInv, NEW w \in Workers, UpdateMeta(w)
  PROVE  DurInv'
<1> SUFFICES ASSUME NEW f \in Files, DurParts(f) PROVE DurParts(f)'
  BY DEF DurInv
<1> USE DEF TypeInv, diskVars, clientVars, ReqType, ReqInHand, Request_,
   UploadSteps, EarlySteps, FileSteps, RequestSteps, SaveSteps, IndexType
<1>1. \A v \in Workers \ {w} : req'[v] = req[v]
  BY DEF UpdateMeta, Finish
<1>2. /\ req[w].step \in {"patchIndex", "delIndex"}
      /\ req[w].file \in Files /\ req[w].meta # NoMeta /\ Home[w] \in Nodes
  BY ConstantsOK DEF UpdateMeta, At
<1>3. req'[w].step = "idle"
  BY DEF UpdateMeta, Finish, Idle
<1>4. \A n \in Nodes :
        \/ index'[n][f] = index[n][f]
        \/ f = req[w].file /\ index'[n][f] = req[w].meta
  BY <1>2 DEF UpdateMeta, IndexUpdate, PutIndex
<1>5. f = req[w].file => f \in doomed \/ attr[f] # NoMeta
  BY <1>2 DEF DurParts, Backed, Known
<1>6. Backed(f)'
  BY <1>1, <1>2, <1>3, <1>4, <1>5 DEF DurParts, Backed, Known, UpdateMeta
<1>7. OneUploader(f)'
  BY <1>1, <1>3 DEF DurParts, OneUploader, Uploading
<1>8. Private(f)'
  BY <1>1, <1>3 DEF DurParts, Private, UpdateMeta
<1>9. Named(f)'
  BY <1>1, <1>3 DEF DurParts, Named, Uploading, FreshFile, UpdateMeta
<1>10. DeletedMeans(f)'
  BY ZenonT(60), <1>1, <1>2, <1>3, <1>4 DEF DurParts, DeletedMeans, UpdateMeta
<1>11. Indexed(f)'
  BY <1>1, <1>2, <1>3, <1>4 DEF DurParts, Indexed, UpdateMeta
<1>12. Clean(f)'
  <2>1. \A v \in Workers : BusyReq(v, f)' => BusyReq(v, f)
    BY <1>1, <1>3 DEF BusyReq
  <2>2. \A n \in Nodes : BusyGc(n, f)' => BusyGc(n, f)
    BY DEF BusyGc, UpdateMeta
  <2> QED BY <2>1, <2>2, CleanKept DEF UpdateMeta, DurParts, Clean
<1> QED BY <1>6, <1>7, <1>8, <1>9, <1>10, <1>11, <1>12, DurFrame DEF DurParts,
   UpdateMeta

LEMMA TransitionToDur ==
  ASSUME TypeInv, DurInv, NEW w \in Workers, NEW target \in Modes, NEW confirm \in BOOLEAN, TransitionTo(w, target, confirm)
  PROVE  DurInv'
<1> SUFFICES ASSUME NEW f \in Files, DurParts(f) PROVE DurParts(f)'
  BY DEF DurInv
<1> USE DEF diskVars, UploadSteps, EarlySteps, FileSteps, RequestSteps, SaveSteps
<1>1. ASSUME NEW v \in Workers
      PROVE  \/ req'[v].file = req[v].file /\ req'[v].meta = req[v].meta
                /\ req'[v].step = req[v].step
             \/ req[v].step \in {"idle"} \union SaveSteps /\ req'[v].step \in SaveSteps
  BY TransitionReq DEF TypeInv, Saving
<1>2. UNCHANGED <<data, attr, scraps, wal, up, index, gc, acked, doomed, crossed>>
  BY DEF TransitionTo
<1>3. Complete(f)' /\ Backed(f)'
  BY <1>1, <1>2 DEF DurParts, Complete, Backed, Known
<1>4. OneUploader(f)'
  BY <1>1 DEF DurParts, OneUploader, Uploading
<1>5. Private(f)'
  BY <1>1, <1>2 DEF DurParts, Private
<1>6. Named(f)'
  BY <1>1, <1>2 DEF DurParts, Named, Uploading, FreshFile
<1>7. DeletedMeans(f)'
  BY <1>1, <1>2 DEF DurParts, DeletedMeans
<1>8. Clean(f)'
  BY <1>1, <1>2 DEF DurParts, Clean, BusyReq, BusyGc
<1>9. Indexed(f)'
  BY <1>1, <1>2 DEF DurParts, Indexed
<1> QED BY <1>3, <1>4, <1>5, <1>6, <1>7, <1>8, <1>9 DEF DurParts

LEMMA SaveModeDur ==
  ASSUME TypeInv, DurInv, NEW w \in Workers, SaveMode(w)
  PROVE  DurInv'
<1> SUFFICES ASSUME NEW f \in Files, DurParts(f) PROVE DurParts(f)'
  BY DEF DurInv
<1> USE DEF TypeInv, diskVars, clientVars, ReqType, ReqInHand, Request_,
   UploadSteps, EarlySteps, FileSteps, RequestSteps, SaveSteps, SaveMode, Finish, Idle,
   At, FreshFile
<1>1. Backed(f)'
  BY DEF DurParts, Backed, Known
<1>2. OneUploader(f)'
  BY DEF DurParts, OneUploader, Uploading
<1>3. Private(f)'
  BY DEF DurParts, Private
<1>4. Named(f)'
  BY DEF DurParts, Named, Uploading
<1>5. DeletedMeans(f)'
  BY DEF DurParts, DeletedMeans
<1>6. Indexed(f)'
  BY DEF DurParts, Indexed
<1>7. Clean(f)'
  BY DEF DurParts, Clean, BusyReq, BusyGc
<1> QED BY <1>1, <1>2, <1>3, <1>4, <1>5, <1>6, <1>7, DurFrame DEF DurParts, SaveMode

LEMMA GcMarkBeginDur ==
  ASSUME TypeInv, DurInv, NEW n \in Nodes, GcMarkBegin(n)
  PROVE  DurInv'
<1> SUFFICES ASSUME NEW f \in Files, DurParts(f) PROVE DurParts(f)'
  BY DEF DurInv
<1> USE DEF diskVars, clientVars, TypeInv, GcType, GcState, IndexType,
   FileMetadata, MaybeMeta
<1>1. Backed(f)'
  BY DEF DurParts, Backed, Known, GcMarkBegin, IsActive
<1>2. DeletedMeans(f)'
  BY DEF DurParts, DeletedMeans, GcMarkBegin, IsActive
<1>3. Clean(f)'
  <2> DEFINE S == {x \in Files : IsActive(index[n][x]) /\ IsExpired(index[n][x], x)}
  <2>1. /\ crossed' = crossed \union {x \in S : Busy(x)}
        /\ UNCHANGED <<attr, scraps, req>>
    BY DEF GcMarkBegin, Cross
  <2>2. /\ \A v \in Workers : BusyReq(v, f)' <=> BusyReq(v, f)
        /\ \A k \in Nodes \ {n} : BusyGc(k, f)' <=> BusyGc(k, f)
    BY <2>1 DEF BusyReq, BusyGc, GcMarkBegin
  <2>3. gc'[n].todo[f] # NoMeta => f \in S
    BY DEF GcMarkBegin
  <2>4. CASE f \in S
    <3>1. Busy(f) => f \in crossed'
      BY <2>1, <2>4
    <3> QED BY <2>1, <2>2, <3>1, CleanCrossed
  <2>5. CASE f \notin S
    <3>1. \A k \in Nodes : BusyGc(k, f)' => BusyGc(k, f)
      BY <2>2, <2>3, <2>5 DEF BusyGc
    <3> QED BY <2>1, <2>2, <3>1, CleanKept DEF DurParts, Clean
  <2> QED BY <2>4, <2>5
<1>4. Indexed(f)'
  BY DEF DurParts, Indexed, GcMarkBegin, Cross
<1> QED BY <1>1, <1>2, <1>3, <1>4, DurFrame DEF DurParts, GcMarkBegin

LEMMA GcMarkAttrDur ==
  ASSUME TypeInv, DurInv, NEW n \in Nodes, GcMarkAttr(n)
  PROVE  DurInv'
<1> SUFFICES ASSUME NEW f \in Files, DurParts(f) PROVE DurParts(f)'
  BY DEF DurInv
<1> USE DEF diskVars, clientVars
<1>1. PICK g \in Todo(n) :
         LET others == InHand(g, Workers, Nodes \ {n}) IN
         \/ AttrWrite(g, gc[n].todo[g], others) /\ GcHold(n, "markIndex", g)
         \/ AttrWriteFails(g, others) /\ GcNext(n, "mark", g)
  BY DEF GcMarkAttr
<1>2. GcType /\ GcInHand(n)
  BY DEF TypeInv, GcType
<1>3. /\ g \in Files /\ gc[n].todo[g] # NoMeta /\ gc[n].step = "mark"
      /\ gc[n].todo[g] \in FileMetadata
      /\ UNCHANGED <<data, wal, up, index, req, acked, doomed, crossed>>
  BY <1>2 DEF Todo, GcMarkAttr, GcAt, GcType, GcState, MaybeMeta
<1>4. \A k \in Nodes : \/ gc'[k].todo[f] = gc[k].todo[f]
                       \/ gc'[k].todo[f] = NoMeta
  BY <1>1, <1>2, <1>3, GcSnapshot DEF GcSteps
<1>5. \A k \in Nodes : IF k = n THEN gc'[k].step \in {"mark", "markIndex"}
                       ELSE gc'[k].step = gc[k].step
  BY <1>1, <1>2, <1>3, GcSnapshot DEF GcSteps
<1>6. f = g => /\ f \in doomed \/ attr[f] # NoMeta
               /\ gc[n].todo[g].status = "deleted" => f \in doomed
               /\ f \notin crossed => InHand(g, Workers, Nodes \ {n}) = {}
  <2> SUFFICES ASSUME f = g
               PROVE  /\ f \in doomed \/ attr[f] # NoMeta
                      /\ gc[n].todo[g].status = "deleted" => f \in doomed
                      /\ f \notin crossed => InHand(g, Workers, Nodes \ {n}) = {}
    OBVIOUS
  <2>1. f \in doomed \/ attr[f] # NoMeta
    BY <1>3 DEF DurParts, Backed, Known
  <2>2. gc[n].todo[g].status = "deleted" => f \in doomed
    BY <1>3 DEF DurParts, DeletedMeans
  <2>3. BusyGc(n, f)
    BY <1>3 DEF BusyGc
  <2> QED BY <2>1, <2>2, <2>3, AloneAtWork
<1>7. /\ attr[f] # NoMeta => attr'[f] # NoMeta
      /\ attr'[f] # NoMeta => f \in doomed \/ attr[f] # NoMeta
      /\ attr'[f] # Torn /\ attr'[f] # NoMeta /\ attr'[f].status = "deleted" =>
           f \in doomed
      /\ f \notin crossed => scraps'[f] = {} /\ (attr[f] # Torn => attr'[f] # Torn)
      /\ \A c \in scraps'[f] : c # Torn /\ c.status = "deleted" => f \in doomed
      /\ scraps'[f] # {} => scraps[f] # {} \/ f \in doomed \/ attr[f] # NoMeta
  BY <1>1, <1>3, <1>6, WriteFacts
<1>8. Complete(f)'
  BY <1>3, <1>7 DEF DurParts, Complete
<1>9. Backed(f)'
  BY <1>3, <1>4, <1>7 DEF DurParts, Backed, Known
<1>10. Private(f)'
  <2>1. ASSUME NEW v \in Workers, req[v].file = f, req[v].step \in EarlySteps
        PROVE  /\ attr'[f] = NoMeta /\ scraps'[f] = {} /\ f \notin doomed
               /\ req[v].step = "attr" => f \in data
    <3>1. attr[f] = NoMeta /\ scraps[f] = {} /\ f \notin doomed
          /\ (req[v].step = "attr" => f \in data)
      BY <2>1 DEF DurParts, Private
    <3> QED BY <1>7, <3>1
  <2> QED BY <1>3, <2>1 DEF Private
<1>11. Named(f)'
  BY <1>3, <1>7 DEF DurParts, Named, Uploading, FreshFile
<1>12. DeletedMeans(f)'
  BY <1>3, <1>4, <1>5, <1>7 DEF DurParts, DeletedMeans
<1>13. Clean(f)'
  <2>1. \A v \in Workers : BusyReq(v, f)' => BusyReq(v, f)
    BY <1>3 DEF BusyReq
  <2>2. \A k \in Nodes : BusyGc(k, f)' => BusyGc(k, f)
    BY <1>3, <1>4, <1>5 DEF BusyGc
  <2> QED BY <1>3, <1>7, <2>1, <2>2, CleanKept
<1> QED BY <1>3, <1>8, <1>9, <1>10, <1>11, <1>12, <1>13, DurFrame DEF DurParts

LEMMA GcMarkIndexDur ==
  ASSUME TypeInv, DurInv, NEW n \in Nodes, GcMarkIndex(n)
  PROVE  DurInv'
<1> SUFFICES ASSUME NEW f \in Files, DurParts(f) PROVE DurParts(f)'
  BY DEF DurInv
<1> USE DEF diskVars, clientVars
<1>1. GcType /\ GcInHand(n)
  BY DEF TypeInv, GcType
<1>2. gc[n].cur \in Files /\ gc[n].todo[gc[n].cur] # NoMeta
  BY <1>1 DEF GcMarkIndex, GcAt, GcInHand
<1>3. \A k \in Nodes : \/ gc'[k].todo[f] = gc[k].todo[f]
                       \/ gc'[k].todo[f] = NoMeta
  BY <1>1, <1>2, GcSnapshot DEF GcMarkIndex, GcSteps
<1>4. \A k \in Nodes : gc'[k].step \in {"sweep", "sweepAttr", "sweepIndex"} =>
                        gc[k].step \in {"sweep", "sweepAttr", "sweepIndex"}
  BY <1>1, <1>2, GcSnapshot DEF GcMarkIndex, GcSteps
<1>5. \/ UNCHANGED index
      \/ index' = [index EXCEPT ![n][gc[n].cur] = gc[n].todo[gc[n].cur]]
  BY DEF GcMarkIndex, IndexUpdate, PutIndex
<1>6. \A k \in Nodes : \/ index'[k][f] = index[k][f]
                       \/ index'[k][f] = gc[n].todo[f] /\ gc[n].todo[f] # NoMeta
  BY <1>2, <1>5 DEF TypeInv, IndexType
<1>7. Backed(f)'
  BY <1>3, <1>6 DEF DurParts, Backed, Known, GcMarkIndex
<1>8. DeletedMeans(f)'
  BY <1>3, <1>4, <1>6 DEF DurParts, DeletedMeans, GcMarkIndex
<1>9. Indexed(f)'
  BY <1>6 DEF DurParts, Indexed, GcMarkIndex
<1>10. Clean(f)'
  <2>1. \A v \in Workers : BusyReq(v, f)' => BusyReq(v, f)
    BY DEF BusyReq, GcMarkIndex
  <2>2. \A k \in Nodes : BusyGc(k, f)' => BusyGc(k, f)
    BY <1>1, <1>2, <1>3, GcSnapshot DEF BusyGc, GcMarkIndex, GcAt, GcSteps
  <2> QED BY <2>1, <2>2, CleanKept DEF GcMarkIndex, DurParts, Clean
<1> QED BY <1>7, <1>8, <1>9, <1>10, DurFrame DEF DurParts, GcMarkIndex

LEMMA GcSweepBeginDur ==
  ASSUME TypeInv, DurInv, NEW n \in Nodes, GcSweepBegin(n)
  PROVE  DurInv'
<1> SUFFICES ASSUME NEW f \in Files, DurParts(f) PROVE DurParts(f)'
  BY DEF DurInv
<1> USE DEF diskVars, clientVars, TypeInv, GcType, GcState, IndexType
<1>1. Backed(f)'
  BY DEF DurParts, Backed, Known, GcSweepBegin, Sweepable
<1>2. DeletedMeans(f)'
  BY DEF DurParts, DeletedMeans, GcSweepBegin, Sweepable
<1>3. Clean(f)'
  BY DEF DurParts, Clean, BusyReq, BusyGc, GcSweepBegin
<1> QED BY <1>1, <1>2, <1>3, DurFrame DEF DurParts, GcSweepBegin

LEMMA GcSweepDataDur ==
  ASSUME TypeInv, DurInv, NEW n \in Nodes, GcSweepData(n)
  PROVE  DurInv'
<1> SUFFICES ASSUME NEW f \in Files, DurParts(f) PROVE DurParts(f)'
  BY DEF DurInv
<1> USE DEF diskVars, clientVars
<1>1. PICK g \in Todo(n) :
         \/ data' = data \ {g} /\ GcHold(n, "sweepAttr", g)
         \/ GcNext(n, "sweep", g) /\ UNCHANGED data
  BY DEF GcSweepData
<1>2. GcType /\ GcInHand(n)
  BY DEF TypeInv, GcType
<1>3. g \in Files /\ gc[n].todo[g] # NoMeta /\ gc[n].step = "sweep"
  BY DEF Todo, GcSweepData, GcAt
<1>4. \A k \in Nodes : \/ gc'[k].todo[f] = gc[k].todo[f]
                       \/ gc'[k].todo[f] = NoMeta
  BY <1>1, <1>2, <1>3, GcSnapshot DEF GcSteps
<1>5. \A k \in Nodes : gc'[k].step \in {"sweep", "sweepAttr", "sweepIndex"} =>
                        gc[k].step \in {"sweep", "sweepAttr", "sweepIndex"}
  BY <1>1, <1>2, <1>3, GcSnapshot DEF GcSteps
<1>6. f = g => f \in doomed
  BY <1>3 DEF DurParts, DeletedMeans
<1>7. Complete(f)'
  BY <1>1, <1>6 DEF DurParts, Complete, GcSweepData
<1>8. Backed(f)'
  BY <1>4 DEF DurParts, Backed, Known, GcSweepData
<1>9. Private(f)'
  BY <1>1, <1>6 DEF DurParts, Private, Backed, Known, GcSweepData, EarlySteps
<1>10. DeletedMeans(f)'
  BY <1>4, <1>5 DEF DurParts, DeletedMeans, GcSweepData
<1>11. Clean(f)'
  <2>1. \A v \in Workers : BusyReq(v, f)' => BusyReq(v, f)
    BY DEF BusyReq, GcSweepData
  <2>2. \A k \in Nodes : BusyGc(k, f)' => BusyGc(k, f)
    BY <1>1, <1>2, <1>3, <1>4, GcSnapshot DEF BusyGc, GcSteps
  <2> QED BY <2>1, <2>2, CleanKept DEF GcSweepData, DurParts, Clean
<1> QED BY <1>7, <1>8, <1>9, <1>10, <1>11, DurFrame DEF DurParts, GcSweepData

LEMMA GcSweepAttrDur ==
  ASSUME TypeInv, DurInv, NEW n \in Nodes, GcSweepAttr(n)
  PROVE  DurInv'
<1> SUFFICES ASSUME NEW f \in Files, DurParts(f) PROVE DurParts(f)'
  BY DEF DurInv
<1> USE DEF diskVars, clientVars
<1>1. GcType /\ GcInHand(n)
  BY DEF TypeInv, GcType
<1>2. gc[n].cur \in Files /\ gc[n].todo[gc[n].cur] # NoMeta
  BY <1>1 DEF GcSweepAttr, GcAt, GcInHand
<1>3. \A k \in Nodes : \/ gc'[k].todo[f] = gc[k].todo[f]
                       \/ gc'[k].todo[f] = NoMeta
  BY <1>1, <1>2, GcSnapshot DEF GcSweepAttr, GcSteps
<1>4. \A k \in Nodes : gc'[k].step \in {"sweep", "sweepAttr", "sweepIndex"} =>
                        gc[k].step \in {"sweep", "sweepAttr", "sweepIndex"}
  BY <1>1, <1>2, GcSnapshot DEF GcSweepAttr, GcAt, GcSteps
<1>5. f = gc[n].cur => f \in doomed
  BY <1>2 DEF GcSweepAttr, GcAt, DurParts, DeletedMeans
<1>6. \/ UNCHANGED attr
      \/ attr' = [attr EXCEPT ![gc[n].cur] = NoMeta]
  BY DEF GcSweepAttr, AttrDelete
<1>13. UNCHANGED scraps
  BY DEF GcSweepAttr, AttrDelete
<1>7. attr'[f] = attr[f] \/ (attr'[f] = NoMeta /\ f \in doomed)
  BY <1>2, <1>5, <1>6 DEF TypeInv, DiskType
<1>8. Complete(f)'
  BY <1>7 DEF DurParts, Complete, GcSweepAttr
<1>9. Backed(f)'
  BY <1>3, <1>7 DEF DurParts, Backed, Known, GcSweepAttr
<1>10. Private(f)'
  BY <1>7, <1>13 DEF DurParts, Private, GcSweepAttr, EarlySteps
<1>11. Named(f)'
  BY <1>7, <1>13 DEF DurParts, Named, Uploading, FreshFile, GcSweepAttr
<1>12. DeletedMeans(f)'
  BY <1>3, <1>4, <1>13 DEF DurParts, DeletedMeans, GcSweepAttr
<1>14. Clean(f)'
  <2>1. \A v \in Workers : BusyReq(v, f)' => BusyReq(v, f)
    BY DEF BusyReq, GcSweepAttr
  <2>2. \A k \in Nodes : BusyGc(k, f)' => BusyGc(k, f)
    BY <1>1, <1>2, <1>3, GcSnapshot DEF BusyGc, GcSweepAttr, GcAt, GcSteps
  <2>3. NoMeta # Torn
    BY ConstantsOK DEF MaybeMeta
  <2> QED BY <1>7, <1>13, <2>1, <2>2, <2>3, CleanKept DEF GcSweepAttr, DurParts, Clean
<1> QED BY <1>8, <1>9, <1>10, <1>11, <1>12, <1>14, DurFrame DEF DurParts, GcSweepAttr

LEMMA GcSweepIndexDur ==
  ASSUME TypeInv, DurInv, NEW n \in Nodes, GcSweepIndex(n)
  PROVE  DurInv'
<1> SUFFICES ASSUME NEW f \in Files, DurParts(f) PROVE DurParts(f)'
  BY DEF DurInv
<1> USE DEF diskVars, clientVars
<1>1. GcType /\ GcInHand(n)
  BY DEF TypeInv, GcType
<1>2. gc[n].cur \in Files /\ gc[n].todo[gc[n].cur] # NoMeta
  BY <1>1 DEF GcSweepIndex, GcAt, GcInHand
<1>3. \A k \in Nodes : \/ gc'[k].todo[f] = gc[k].todo[f]
                       \/ gc'[k].todo[f] = NoMeta
  BY <1>1, <1>2, GcSnapshot DEF GcSweepIndex, GcSteps
<1>4. \A k \in Nodes : gc'[k].step \in {"sweep", "sweepAttr", "sweepIndex"} =>
                        gc[k].step \in {"sweep", "sweepAttr", "sweepIndex"}
  BY <1>1, <1>2, GcSnapshot DEF GcSweepIndex, GcAt, GcSteps
<1>5. f = gc[n].cur => f \in doomed
  BY <1>2 DEF GcSweepIndex, GcAt, DurParts, DeletedMeans
<1>6. \A k \in Nodes : \/ index'[k][f] = index[k][f]
                       \/ index'[k][f] = NoMeta /\ f \in doomed
  BY <1>2, <1>5 DEF GcSweepIndex, IndexRemove, PutIndex, TypeInv, IndexType
<1>7. Backed(f)'
  BY <1>3, <1>6 DEF DurParts, Backed, Known, GcSweepIndex
<1>8. DeletedMeans(f)'
  BY <1>3, <1>4, <1>6 DEF DurParts, DeletedMeans, GcSweepIndex
<1>9. Indexed(f)'
  BY <1>6 DEF DurParts, Indexed, GcSweepIndex
<1>10. Clean(f)'
  <2>1. \A v \in Workers : BusyReq(v, f)' => BusyReq(v, f)
    BY DEF BusyReq, GcSweepIndex
  <2>2. \A k \in Nodes : BusyGc(k, f)' => BusyGc(k, f)
    BY <1>1, <1>2, <1>3, GcSnapshot DEF BusyGc, GcSweepIndex, GcAt, GcSteps
  <2> QED BY <2>1, <2>2, CleanKept DEF GcSweepIndex, DurParts, Clean
<1> QED BY <1>7, <1>8, <1>9, <1>10, DurFrame DEF DurParts, GcSweepIndex

LEMMA GcEndDur ==
  ASSUME TypeInv, DurInv, NEW n \in Nodes, GcEnd(n)
  PROVE  DurInv'
<1> SUFFICES ASSUME NEW f \in Files, DurParts(f) PROVE DurParts(f)'
  BY DEF DurInv
<1> USE DEF diskVars, clientVars, TypeInv, GcType
<1>1. Backed(f)'
  BY DEF DurParts, Backed, Known, GcEnd, GcIdle, NoFiles
<1>2. DeletedMeans(f)'
  BY DEF DurParts, DeletedMeans, GcEnd, GcIdle, NoFiles
<1>3. Clean(f)'
  BY DEF DurParts, Clean, BusyReq, BusyGc, GcEnd, GcIdle, NoFiles
<1> QED BY <1>1, <1>2, <1>3, DurFrame DEF DurParts, GcEnd

LEMMA ReconcileEndDur ==
  ASSUME TypeInv, DurInv, NEW n \in Nodes, ReconcileEnd(n)
  PROVE  DurInv'
<1> SUFFICES ASSUME NEW f \in Files, DurParts(f) PROVE DurParts(f)'
  BY DEF DurInv
<1> USE DEF diskVars, clientVars
<1>1. \A k \in Nodes : index'[k][f] = IF k = n THEN ScanDir[f] ELSE index[k][f]
  BY DEF ReconcileEnd, IndexRebuild, IndexType, TypeInv
<1>7. ScanDir[f] = IF attr[f] = Torn THEN NoMeta ELSE attr[f]
  BY DEF ScanDir
<1>2. Backed(f)'
  BY <1>1, <1>7 DEF DurParts, Backed, Known, ReconcileEnd
<1>3. DeletedMeans(f)'
  BY <1>1, <1>7 DEF DurParts, DeletedMeans, Complete, ReconcileEnd
<1>4. Indexed(f)'
  BY <1>1, <1>7 DEF DurParts, Indexed, Backed, Known, Clean, ReconcileEnd, UploadSteps,
     EarlySteps, FileSteps, RequestSteps, SaveSteps
<1> QED BY <1>2, <1>3, <1>4, DurFrame DEF DurParts, ReconcileEnd

LEMMA CrashDur ==
  ASSUME TypeInv, DurInv, NEW n \in Nodes, Crash(n)
  PROVE  DurInv'
<1> SUFFICES ASSUME NEW f \in Files, DurParts(f) PROVE DurParts(f)'
  BY DEF DurInv
<1> USE DEF diskVars, clientVars, TypeInv, UploadSteps, EarlySteps, FileSteps,
   RequestSteps, SaveSteps
<1>1. \A w \in Workers : req'[w] = req[w] \/ req'[w].step = "idle"
  BY DEF Crash, Idle
<1>2. \A k \in Nodes : IF k = n
         THEN index'[k][f] = NoMeta /\ gc'[k].todo[f] = NoMeta /\ gc'[k].step = "idle"
         ELSE index'[k] = index[k] /\ gc'[k] = gc[k]
  BY DEF Crash, GcIdle, NoFiles, IndexType, GcType
<1> DEFINE mine == {w \in Workers : Home[w] = n}
           dead == InHand(f, mine, {n})
           others == InHand(f, Workers \ mine, Nodes \ {n})
<1>9. scraps'[f] = CASE others = {} -> {}
                     [] others # {} /\ dead = {} -> scraps[f]
                     [] OTHER -> scraps[f] \union dead \union {Torn}
  BY DEF Crash, TmpAbandoned
<1>10. /\ \A c \in dead : c.status = "deleted" => f \in doomed
       /\ dead # {} => ~FreshFile(f)
  BY InHandSound
<1>11. f \notin crossed /\ dead # {} => others = {}
  <2>1. mine \in SUBSET Workers /\ {n} \in SUBSET Nodes
    OBVIOUS
  <2> HIDE DEF mine
  <2>2. ASSUME f \notin crossed PROVE dead # {} => others = {}
    BY <2>1, <2>2, AloneAtWork
  <2> QED BY <2>2
<1>12. \A w \in Workers \ mine : req[w].file = f /\ req[w].step \in EarlySteps => dead = {}
  BY PrivateAlone
<1> HIDE DEF dead, others
<1>13. /\ scraps'[f] \subseteq scraps[f] \union dead \union {Torn}
       /\ dead = {} => scraps'[f] \subseteq scraps[f]
       /\ others = {} => scraps'[f] = {}
  BY <1>9
<1>3. Backed(f)'
  BY <1>1, <1>2 DEF DurParts, Backed, Known, Crash
<1>4. OneUploader(f)'
  BY <1>1 DEF DurParts, OneUploader, Uploading
<1>5. Private(f)'
  <2>1. \A w \in Workers : req'[w].step # "idle" => w \notin mine /\ req'[w] = req[w]
    BY DEF Crash, Idle
  <2> QED BY <1>12, <1>13, <2>1 DEF DurParts, Private, Crash
<1>6. Named(f)'
  BY <1>1, <1>10, <1>13 DEF DurParts, Named, Uploading, FreshFile, Crash
<1>7. DeletedMeans(f)'
  BY <1>1, <1>2, <1>10, <1>13 DEF DurParts, DeletedMeans, Crash
<1>14. Clean(f)'
  <2>1. \A w \in Workers : BusyReq(w, f)' => BusyReq(w, f)
    BY <1>1 DEF BusyReq
  <2>2. \A k \in Nodes : BusyGc(k, f)' => BusyGc(k, f)
    BY <1>2 DEF BusyGc
  <2>3. f \notin crossed => scraps'[f] = {}
    BY <1>11, <1>13 DEF DurParts, Clean
  <2> QED BY <2>1, <2>2, <2>3, CleanKept DEF Crash
<1>8. Indexed(f)'
  BY <1>1, <1>2 DEF DurParts, Indexed, Crash, ProcType
<1> QED BY <1>3, <1>4, <1>5, <1>6, <1>7, <1>8, <1>14, DurFrame DEF DurParts, Crash

LEMMA StartDur ==
  ASSUME TypeInv, DurInv, NEW n \in Nodes, Start(n)
  PROVE  DurInv'
<1> SUFFICES ASSUME NEW f \in Files, DurParts(f) PROVE DurParts(f)'
  BY DEF DurInv
<1> USE DEF diskVars, clientVars
<1>1. \A k \in Nodes : index'[k][f] = IF k = n THEN ScanDir[f] ELSE index[k][f]
  BY DEF Start, IndexRebuild, IndexType, TypeInv
<1>7. ScanDir[f] = IF attr[f] = Torn THEN NoMeta ELSE attr[f]
  BY DEF ScanDir
<1>2. FreshFile(f)' => FreshFile(f)
  BY DEF Start, RecoverWal, FreshFile, TypeInv, DiskType
<1>3. Backed(f)'
  BY <1>1, <1>7 DEF DurParts, Backed, Known, Start
<1>4. Named(f)'
  BY <1>2 DEF DurParts, Named, Uploading, Start
<1>5. DeletedMeans(f)'
  BY <1>1, <1>7 DEF DurParts, DeletedMeans, Complete, Start
<1>6. Indexed(f)'
  BY <1>1, <1>7 DEF DurParts, Indexed, Backed, Known, Clean, Start, TypeInv, ProcType,
     UploadSteps, EarlySteps, FileSteps, RequestSteps, SaveSteps
<1> QED BY <1>3, <1>4, <1>5, <1>6, DurFrame DEF DurParts, Start

LEMMA AttrOverwrittenDur ==
  ASSUME TypeInv, DurInv, NEW g \in Files, AttrOverwritten(g)
  PROVE  DurInv'
<1> SUFFICES ASSUME NEW f \in Files, DurParts(f) PROVE DurParts(f)'
  BY DEF DurInv
<1>1. PICK c \in {Torn} \union InHand(g, Workers, Nodes) : attr' = [attr EXCEPT ![g] = c]
  BY DEF AttrOverwritten
<1>2. /\ scraps[g] # {} /\ attr[g] # NoMeta
      /\ UNCHANGED <<data, scraps, wal, up, index, req, gc, acked, doomed, crossed>>
  BY DEF AttrOverwritten, clientVars
<1>3. \/ attr'[f] = attr[f]
      \/ /\ attr[f] # NoMeta /\ scraps[f] # {}
         /\ attr'[f] # NoMeta
         /\ attr'[f] # Torn => (attr'[f].status = "deleted" => f \in doomed)
  <2>1. CASE f = g
    <3>1. attr'[f] = c
      BY <1>1, <2>1 DEF TypeInv, DiskType
    <3>2. c = Torn \/ (c \in FileMetadata /\ (c.status = "deleted" => f \in doomed))
      BY <1>1, <2>1, InHandSound
    <3> QED BY <1>2, <2>1, <3>1, <3>2, ConstantsOK DEF MaybeMeta
  <2>2. CASE f # g
    BY <1>1, <2>2 DEF TypeInv, DiskType
  <2> QED BY <2>1, <2>2
<1>4. Complete(f)' /\ Backed(f)' /\ Private(f)'
  BY <1>2, <1>3 DEF DurParts, Complete, Backed, Known, Private
<1>5. Named(f)' /\ Clean(f)'
  BY <1>2, <1>3 DEF DurParts, Named, Uploading, FreshFile, Clean, BusyReq, BusyGc
<1> QED BY <1>2, <1>4, <1>5, DurFrame DEF DurParts

LEMMA InitDur == Init => DurInv
<1> SUFFICES ASSUME Init, NEW f \in Files PROVE DurParts(f)
  BY DEF DurInv
<1>1. /\ attr[f] = NoMeta /\ NoMeta # Torn /\ scraps[f] = {} /\ doomed = {}
      /\ \A w \in Workers : req[w].step = "idle"
      /\ \A n \in Nodes : /\ index[n][f] = NoMeta /\ gc[n].todo[f] = NoMeta
                          /\ gc[n].step = "idle" /\ acked[n] = {}
  BY ConstantsOK DEF Init, NoFiles, Idle, GcIdle, MaybeMeta
<1> QED BY <1>1 DEF DurParts, Complete, Backed, Known, OneUploader, Uploading,
   Private, Named, DeletedMeans, Clean, BusyReq, BusyGc, Indexed, UploadSteps, EarlySteps, FileSteps,
   RequestSteps, SaveSteps

LEMMA NextDur == TypeInv /\ DurInv /\ [Next]_vars => DurInv'
<1> SUFFICES ASSUME TypeInv, DurInv, [Next]_vars PROVE DurInv'
  OBVIOUS
<1>1. ASSUME NEW w \in Workers, Request(w) PROVE DurInv'
  BY <1>1, UploadStartDur, UploadSaveDur, UploadRejectDur, UploadAttrDur,
     UploadUndoDur, UploadIndexDur, UploadCommitDur, PatchStartDur, DeleteStartDur,
     WriteMetaDur, UpdateMetaDur, TransitionToDur, SaveModeDur
     DEF Request, Upload, Patch, Delete, TransitionMode
<1>2. ASSUME NEW n \in Nodes, Gc(n) PROVE DurInv'
  BY <1>2, GcMarkBeginDur, GcMarkAttrDur, GcMarkIndexDur, GcSweepBeginDur,
     GcSweepDataDur, GcSweepAttrDur, GcSweepIndexDur, GcEndDur DEF Gc
<1>3. ASSUME NEW n \in Nodes, ReconcileEnd(n) \/ Crash(n) \/ Start(n) PROVE DurInv'
  BY <1>3, ReconcileEndDur, CrashDur, StartDur
<1>4. CASE \/ \E n \in Nodes : ReconcileBegin(n)
           \/ \E f \in Files : TtlPasses(f)
           \/ UNCHANGED vars
  <2> SUFFICES ASSUME NEW f \in Files, DurParts(f) PROVE DurParts(f)'
    BY DEF DurInv
  <2> QED BY <1>4, DurFrame DEF DurParts, ReconcileBegin, TtlPasses, vars, diskVars,
     clientVars
<1> QED BY <1>1, <1>2, <1>3, <1>4, AttrOverwrittenDur DEF Next, Reconcile

\* The two invariants together, and what they mean for the client.
LEMMA Invariant == Spec => [](TypeInv /\ DurInv)
<1>1. Init => TypeInv /\ DurInv
  BY InitType, InitDur
<1>2. (TypeInv /\ DurInv) /\ [Next]_vars => (TypeInv /\ DurInv)'
  BY NextType, NextDur
<1> QED BY <1>1, <1>2, PTL DEF Spec

LEMMA DurableMeans ==
  ASSUME TypeInv, DurInv
  PROVE  AckedOnDisk /\ AckedServed /\ AttrHasData
<1>1. ASSUME NEW n \in Nodes, NEW f \in acked[n] \ doomed
      PROVE  /\ f \in data /\ attr[f] # NoMeta
             /\ attr[f] = Torn => f \in crossed
             /\ attr[f] # Torn => attr[f].status # "deleted"
             /\ up[n] => index[n][f] # NoMeta \/ f \in crossed
  BY DEF TypeInv, ClientType, DurInv, DurParts, Complete, Backed, Known, Clean, Indexed
<1>2. AckedOnDisk
  BY <1>1 DEF AckedOnDisk
<1>3. AckedServed
  BY <1>1 DEF AckedServed, DownloadStatus
<1>4. AttrHasData
  BY DEF AttrHasData, DurInv, DurParts, Complete
<1> QED BY <1>2, <1>3, <1>4

\* An acknowledged upload stays on disk through every interleaving, crash and
\* restart, on every process that shares the directory, until a DELETE of the
\* file was accepted; the writes of its attr.json may share one path.tmp, and only
\* if operations on this file met is the text of attr.json in doubt (Upload,
\* WriteMeta, GC, RecoverWal, attr.Write).
THEOREM Durable == Spec => []AckedOnDisk
BY Invariant, DurableMeans, PTL

\* The process that acknowledged an upload never answers 404 for it, unless
\* operations on this file met, whose attr.json a rebuild may pass over (index).
THEOREM Served == Spec => []AckedServed
BY Invariant, DurableMeans, PTL

\* A file that was not deleted has no metadata without data (Upload, rollback, GC).
THEOREM NoGhostMetadata == Spec => []AttrHasData
BY Invariant, DurableMeans, PTL

-----------------------------------------------------------------------------
(* The running total of active bytes.                                      *)

LEMMA BytesOfOne ==
  ASSUME NEW f \in Files
  PROVE  IsFiniteSet(Bytes({f})) /\ Cardinality(Bytes({f})) = Size[f]
<1>1. Size[f] \in Nat /\ Size[f] <= MaxFileSize /\ MaxFileSize \in Nat
  BY ConstantsOK
<1>2. Bytes({f}) = {f} \X (1..Size[f])
  BY <1>1 DEF Bytes
<1> DEFINE b == [i \in 1..Size[f] |-> <<f, i>>]
<1>3. b \in [1..Size[f] -> Bytes({f})]
  BY <1>2
<1>4. \A i, j \in 1..Size[f] : b[i] = b[j] => i = j
  OBVIOUS
<1>5. \A c \in Bytes({f}) : \E i \in 1..Size[f] : b[i] = c
  BY <1>2
<1> HIDE DEF b
<1>6. b \in Bijection(1..Size[f], Bytes({f}))
  BY <1>3, <1>4, <1>5, Fun_IsBij
<1>7. ExistsBijection(1..Size[f], Bytes({f}))
  BY <1>6 DEF ExistsBijection
<1>8. IsFiniteSet(1..Size[f]) /\ Cardinality(1..Size[f]) = Size[f]
  <2>1. ASSUME NEW k \in Nat PROVE IsFiniteSet(1..k) /\ Cardinality(1..k) = k
    BY FS_Interval
  <2> QED BY <1>1, <2>1
<1> DEFINE I == 1..Size[f]
           T == Bytes({f})
<1>9. IsFiniteSet(I) /\ ExistsBijection(I, T) /\ Cardinality(I) = Size[f]
  BY <1>7, <1>8
<1> HIDE DEF I
<1>10. IsFiniteSet(T) /\ Cardinality(T) = Cardinality(I)
  BY <1>9, FS_Bijection
<1> QED BY <1>9, <1>10

\* A file more in the set is its size more in the sum.
LEMMA SizeOfAdd ==
  ASSUME NEW S \in SUBSET Files, NEW f \in Files \ S
  PROVE  SizeOf(S \union {f}) = SizeOf(S) + Size[f]
<1>1. Bytes(S \union {f}) = Bytes(S) \union Bytes({f})
  BY DEF Bytes
<1>2. Bytes(S) \intersect Bytes({f}) = {}
  BY DEF Bytes
<1>3. IsFiniteSet(Bytes(S)) /\ IsFiniteSet(Bytes({f}))
  BY BytesFinite
<1>4. Cardinality(Bytes(S) \intersect Bytes({f})) = 0
  BY <1>2, FS_EmptySet
<1>5. Cardinality(Bytes(S)) \in Nat /\ Cardinality(Bytes({f})) = Size[f] /\ Size[f] \in Nat
  BY <1>3, FS_CardinalityType, BytesOfOne, ConstantsOK
<1>6. Cardinality(Bytes(S) \union Bytes({f})) =
        Cardinality(Bytes(S)) + Cardinality(Bytes({f}))
          - Cardinality(Bytes(S) \intersect Bytes({f}))
  BY <1>3, FS_Union
<1>7. SizeOf(S \union {f}) = Cardinality(Bytes(S) \union Bytes({f}))
  BY <1>1 DEF SizeOf
<1>8. SizeOf(S) = Cardinality(Bytes(S))
  BY DEF SizeOf
<1> QED BY <1>4, <1>5, <1>6, <1>7, <1>8

\* Whatever entry of the index is replaced by whatever metadata, the
\* adjustment of the total is the change of the sum.
LEMMA PutIndexTotal ==
  ASSUME IndexType, TotalIsSum, NEW n \in Nodes, NEW f \in Files, NEW m \in MaybeMeta,
         PutIndex(n, f, m)
  PROVE  TotalIsSum'
<1> DEFINE old == ActiveFiles(index[n])
           new == ActiveFiles(index'[n])
           rest == old \ {f}
<1>1. rest \in SUBSET Files /\ f \in Files \ rest
  BY DEF ActiveFiles
<1>2. old = IF IsActive(index[n][f]) THEN rest \union {f} ELSE rest
  BY DEF ActiveFiles
<1>3. new = IF IsActive(m) THEN rest \union {f} ELSE rest
  BY DEF ActiveFiles, PutIndex, IndexType
<1>4. SizeOf(rest \union {f}) = SizeOf(rest) + Size[f]
  BY <1>1, SizeOfAdd
<1>5. SizeOf(rest) \in Nat /\ Size[f] \in Nat
  BY <1>1, SizeOfType, ConstantsOK
<1> HIDE DEF old, new, rest
<1>6. SizeOf(old) = SizeOf(rest) + Weight(index[n][f], f)
  BY <1>2, <1>4, <1>5 DEF Weight
<1>7. SizeOf(new) = SizeOf(rest) + Weight(m, f)
  BY <1>3, <1>4, <1>5 DEF Weight
<1>8. Weight(m, f) \in Int /\ Weight(index[n][f], f) \in Int
  BY <1>5 DEF Weight
<1>9. total'[n] = SizeOf(new)
  <2>1. total[n] = SizeOf(old)
    BY DEF TotalIsSum, old
  <2>2. total'[n] = (total[n] - Weight(index[n][f], f)) + Weight(m, f)
    BY DEF PutIndex, IndexType
  <2> QED BY <2>1, <2>2, <1>5, <1>6, <1>7, <1>8
<1>10. ASSUME NEW k \in Nodes, k # n
       PROVE  total'[k] = total[k] /\ index'[k] = index[k]
  BY <1>10 DEF PutIndex, IndexType
<1> QED BY <1>9, <1>10 DEF TotalIsSum, new

LEMMA IndexRebuildTotal ==
  ASSUME IndexType, TotalIsSum, NEW n \in Nodes, IndexRebuild(n)
  PROVE  TotalIsSum'
BY DEF IndexType, TotalIsSum, IndexRebuild

LEMMA CrashTotal ==
  ASSUME IndexType, TotalIsSum, NEW n \in Nodes, Crash(n)
  PROVE  TotalIsSum'
<1>1. ActiveFiles(NoFiles) = {}
  BY DEF ActiveFiles, NoFiles, IsActive
<1>2. Bytes({}) = {}
  BY DEF Bytes
<1>3. SizeOf(ActiveFiles(NoFiles)) = 0
  BY <1>1, <1>2, FS_EmptySet DEF SizeOf
<1> QED BY <1>3 DEF Crash, IndexType, TotalIsSum

LEMMA NextTotal == TypeInv /\ TotalIsSum /\ [Next]_vars => TotalIsSum'
<1> SUFFICES ASSUME TypeInv, TotalIsSum, [Next]_vars PROVE TotalIsSum'
  OBVIOUS
<1>1. CASE UNCHANGED <<index, total>>
  BY <1>1 DEF TotalIsSum
<1>2. ASSUME NEW w \in Workers, UploadIndex(w) \/ UpdateMeta(w) PROVE TotalIsSum'
  <2>1. /\ Home[w] \in Nodes /\ req[w].file \in Files /\ req[w].meta \in MaybeMeta
        /\ IndexType
    BY <1>2, ConstantsOK DEF UploadIndex, UpdateMeta, At, TypeInv, ReqType, ReqInHand,
       RequestSteps, SaveSteps, MaybeMeta
  <2> QED BY <1>1, <1>2, <2>1, PutIndexTotal
          DEF UploadIndex, UpdateMeta, IndexAdd, IndexUpdate
<1>3. ASSUME NEW n \in Nodes, GcMarkIndex(n) \/ GcSweepIndex(n) PROVE TotalIsSum'
  <2>1. /\ gc[n].cur \in Files /\ gc[n].todo[gc[n].cur] \in MaybeMeta
        /\ NoMeta \in MaybeMeta /\ IndexType
    BY <1>3 DEF GcMarkIndex, GcSweepIndex, GcAt, TypeInv, GcType, GcInHand, GcState,
       MaybeMeta
  <2> QED BY <1>1, <1>3, <2>1, PutIndexTotal
          DEF GcMarkIndex, GcSweepIndex, IndexUpdate, IndexRemove
<1>4. ASSUME NEW n \in Nodes, ReconcileEnd(n) \/ Start(n) \/ Crash(n) PROVE TotalIsSum'
  BY <1>4, IndexRebuildTotal, CrashTotal DEF ReconcileEnd, Start, TypeInv
<1>5. ASSUME NEW w \in Workers, Request(w), ~UploadIndex(w), ~UpdateMeta(w)
      PROVE  UNCHANGED <<index, total>>
  BY <1>5 DEF Request, Upload, Patch, Delete, TransitionMode, UploadStart, UploadSave,
     UploadReject, UploadAttr, UploadUndo, UploadCommit, PatchStart, DeleteStart,
     WriteMeta, TransitionTo, SaveMode
<1>6. ASSUME NEW n \in Nodes, Gc(n), ~GcMarkIndex(n), ~GcSweepIndex(n)
      PROVE  UNCHANGED <<index, total>>
  BY <1>6 DEF Gc, GcMarkBegin, GcMarkAttr, GcSweepBegin, GcSweepData, GcSweepAttr, GcEnd
<1>7. ASSUME \/ \E n \in Nodes : ReconcileBegin(n)
             \/ \E f \in Files : TtlPasses(f) \/ AttrOverwritten(f)
             \/ UNCHANGED vars
      PROVE  UNCHANGED <<index, total>>
  BY <1>7 DEF ReconcileBegin, TtlPasses, AttrOverwritten, vars
<1> QED BY <1>1, <1>2, <1>3, <1>4, <1>5, <1>6, <1>7 DEF Next, Reconcile

\* totalActiveSize, adjusted by differences in three operations and recomputed in
\* two, never drifts from the size of the active files of the index.
THEOREM TotalExact == Spec => []TotalIsSum
<1>1. Init => TotalIsSum
  <2> SUFFICES ASSUME Init PROVE TotalIsSum
    OBVIOUS
  <2>1. Bytes({}) = {}
    BY DEF Bytes
  <2>2. ASSUME NEW n \in Nodes PROVE ActiveFiles(index[n]) = {} /\ total[n] = 0
    BY DEF Init, NoFiles, ActiveFiles, IsActive
  <2> QED BY <2>1, <2>2, FS_EmptySet DEF TotalIsSum, SizeOf
<1>2. (TypeInv /\ TotalIsSum) /\ [Next]_vars => (TypeInv /\ TotalIsSum)'
  BY NextType, NextTotal
<1> QED BY <1>1, <1>2, InitType, PTL DEF Spec

=============================================================================
