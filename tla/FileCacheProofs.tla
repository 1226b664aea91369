--------------------------- MODULE FileCacheProofs ---------------------------
(***************************************************************************)
(* Proofs about FileCache, for every number of instances, requests, files  *)
(* and synchronisations.                                                   *)
(***************************************************************************)
EXTENDS FileCache, RegistrySyncProofs

-----------------------------------------------------------------------------
(* Types.  A request that has read the database has a record.              *)

HasRecord(r) ==
  reader[r].pc \notin {"idle", "db"} => reader[r].rec # None

CacheInv == CacheTypeOK /\ TypeInv /\ \A r \in Readers : HasRecord(r)

LEMMA Requests ==
  ASSUME CacheInv, NEW r \in Readers
  PROVE  /\ reader[r] \in Request /\ IdleRequest \in Request
         /\ reader[r].file \in Files
         /\ At[r] \in Instances
         /\ reader[r].pc \notin {"idle", "db"} => reader[r].rec \in Record
<1>1. (CHOOSE f \in Files : TRUE) \in Files
  BY RegistryOK DEF RegistryOK
<1> QED
  BY <1>1, FileCacheOK DEF CacheInv, CacheTypeOK, HasRecord, Request, Stages, IdleRequest, FileCacheOK

LEMMA Going ==
  ASSUME NEW q \in Request, q.rec \in Record, IdleRequest \in Request
  PROVE  /\ WithRecord(q) \in Request
         /\ WithRecord(q).pc \in {"idle", "locate"}
         /\ WithRecord(q).pc = "locate" => WithRecord(q).rec = q.rec /\ WithRecord(q).file = q.file
         /\ WithRecord(q).rec # None => WithRecord(q).rec = q.rec /\ WithRecord(q).file = q.file
BY DEF WithRecord, Request, IdleRequest, Stages

\* Only the clean-up of a request touches the registry.
LEMMA ReadersLeaveAlone ==
  ASSUME NEW r \in Readers, Step(r), ~MarkDeleted(r)
  PROVE  UNCHANGED vars
BY DEF Step, GetByID, CacheSet, GetStorageElement, Fetch, CacheDelete, ReadFail

\* Marking a record deleted keeps the types of the registry.
LEMMA MarkTyped ==
  ASSUME CacheInv, NEW r \in Readers, MarkDeleted(r)
  PROVE  TypeInv'
<1>1. reader[r].file \in Files
  BY Requests
<1>2. registry' \in [Files -> Record \cup {None}]
  BY <1>1 DEF MarkDeleted, SoftDelete, CacheInv, TypeInv, TypeOK, Record, Statuses
<1>3. UNCHANGED <<listing, meta, uploaded, seMode, row, usedIds, sync, edit, form, alone, events>>
  BY DEF MarkDeleted, seVars
<1> QED
  BY <1>2, <1>3 DEF CacheInv, TypeInv, TypeOK, InHand, ListingOK

LEMMA ReaderTyped ==
  ASSUME CacheInv, NEW r \in Readers,
         Step(r) \/ \E k \in {"metadata", "download"}, f \in Files : Ask(r, k, f)
  PROVE  /\ reader' \in [Readers -> Request] /\ (\A t \in Readers : HasRecord(t)')
         /\ cache' \in [Instances -> [Files -> Record \cup {None}]]
         /\ replica' \subseteq Files
<1>0. /\ reader \in [Readers -> Request] /\ cache \in [Instances -> [Files -> Record \cup {None}]]
      /\ replica \subseteq Files /\ registry \in [Files -> Record \cup {None}]
  BY DEF CacheInv, CacheTypeOK, TypeOK
<1>1. /\ reader[r] \in Request /\ IdleRequest \in Request /\ reader[r].file \in Files
      /\ At[r] \in Instances /\ (reader[r].pc \notin {"idle", "db"} => reader[r].rec \in Record)
  BY Requests
<1>2. ASSUME NEW q \in Request, reader' = [reader EXCEPT ![r] = q],
             q.pc \notin {"idle", "db"} => q.rec # None
      PROVE  reader' \in [Readers -> Request] /\ (\A t \in Readers : HasRecord(t)')
  BY <1>0, <1>2 DEF CacheInv, HasRecord
<1>3. IdleRequest.pc = "idle"
  BY DEF IdleRequest
<1>4. ASSUME NEW k \in {"metadata", "download"}, NEW f \in Files, Ask(r, k, f)
      PROVE  /\ reader' \in [Readers -> Request] /\ (\A t \in Readers : HasRecord(t)')
             /\ cache' = cache /\ replica' = replica
  <2> DEFINE q == [pc |-> "db", kind |-> k, file |-> f, rec |-> cache[At[r]][f]]
  <2>1. q \in Request /\ q.rec = cache[At[r]][f] /\ q.pc = "db"
    BY <1>0, <1>1 DEF Request, Stages
  <2>2. reader' = [reader EXCEPT ![r] = IF cache[At[r]][f] = None THEN q ELSE WithRecord(q)]
        /\ cache' = cache /\ replica' = replica
    BY <1>4 DEF Ask
  <2>3. cache[At[r]][f] = None \/ cache[At[r]][f] \in Record
    BY <1>0, <1>1
  <2> HIDE DEF q
  <2>4. CASE cache[At[r]][f] = None
    BY <1>2, <2>1, <2>2, <2>4
  <2>5. CASE cache[At[r]][f] # None
    <3>1. /\ WithRecord(q) \in Request
          /\ WithRecord(q).pc \notin {"idle", "db"} => WithRecord(q).rec # None
      BY <1>1, <2>1, <2>3, <2>5, Going
    <3> HIDE DEF q
    <3>2. reader' = [reader EXCEPT ![r] = WithRecord(q)]
      BY <2>2, <2>5
    <3> QED
      BY <1>2, <2>2, <3>1, <3>2
  <2> QED
    BY <2>4, <2>5
<1>5. CASE GetByID(r)
  <2>1. CASE registry[reader[r].file] = None
    BY <1>0, <1>1, <1>2, <1>3, <1>5, <2>1 DEF GetByID
  <2>2. CASE registry[reader[r].file] # None
    <3> DEFINE q == [reader[r] EXCEPT !.pc = "fill", !.rec = registry[reader[r].file]]
    <3>1. q \in Request /\ q.rec # None
      BY <1>0, <1>1, <2>2 DEF Request, Stages
    <3>2. reader' = [reader EXCEPT ![r] = q] /\ cache' = cache /\ replica' = replica
      BY <1>0, <1>5, <2>2 DEF GetByID
    <3> QED
      BY <1>0, <1>2, <3>1, <3>2
  <2> QED
    BY <2>1, <2>2
<1>6. CASE CacheSet(r)
  <2>1. reader' = [reader EXCEPT ![r] = WithRecord(reader[r])] /\ replica' = replica
        /\ reader[r].rec \in Record /\ reader[r].rec # None
        /\ cache' = [cache EXCEPT ![At[r]][reader[r].file] = reader[r].rec]
    BY <1>0, <1>1, <1>6 DEF CacheSet, CacheInv, HasRecord
  <2>2. /\ WithRecord(reader[r]) \in Request
        /\ WithRecord(reader[r]).pc \notin {"idle", "db"} => WithRecord(reader[r]).rec # None
    BY <1>1, <1>6, <2>1, Going DEF CacheSet
  <2> QED
    BY <1>0, <1>1, <1>2, <2>1, <2>2
<1>7. CASE GetStorageElement(r)
  <2> DEFINE q == IF row # None /\ row.id = reader[r].rec.se
                  THEN [reader[r] EXCEPT !.pc = "fetch"] ELSE IdleRequest
  <2>1. q \in Request /\ (q.pc \notin {"idle", "db"} => q.rec # None)
    BY <1>1, <1>3, <1>7 DEF GetStorageElement, Request, Stages, CacheInv, HasRecord
  <2>2. reader' = [reader EXCEPT ![r] = q] /\ cache' = cache /\ replica' = replica
    BY <1>0, <1>7 DEF GetStorageElement
  <2> HIDE DEF q
  <2> QED
    BY <1>0, <1>2, <2>1, <2>2
<1>8. CASE Fetch(r)
  <2> DEFINE q == [reader[r] EXCEPT !.pc = "mark"]
  <2>1. q \in Request /\ q.rec # None
    BY <1>1, <1>8 DEF Fetch, Request, Stages, CacheInv, HasRecord
  <2>2. (reader' = [reader EXCEPT ![r] = q] \/ reader' = [reader EXCEPT ![r] = IdleRequest])
        /\ cache' = cache /\ replica' = replica
    BY <1>0, <1>8 DEF Fetch
  <2> HIDE DEF q
  <2> QED
    BY <1>0, <1>1, <1>2, <1>3, <2>1, <2>2
<1>9. CASE MarkDeleted(r)
  <2> DEFINE q == [reader[r] EXCEPT !.pc = "purge"]
  <2>1. q \in Request /\ q.rec # None
    BY <1>1, <1>9 DEF MarkDeleted, Request, Stages, CacheInv, HasRecord
  <2>2. (reader' = [reader EXCEPT ![r] = q] \/ reader' = [reader EXCEPT ![r] = IdleRequest])
        /\ cache' = cache /\ replica' = replica
    BY <1>0, <1>9 DEF MarkDeleted
  <2> HIDE DEF q
  <2> QED
    BY <1>0, <1>1, <1>2, <1>3, <2>1, <2>2
<1>10. CASE CacheDelete(r) \/ ReadFail(r)
  <2>1. reader' = [reader EXCEPT ![r] = IdleRequest] /\ replica' = replica
        /\ (cache' = cache \/ cache' = [cache EXCEPT ![At[r]][reader[r].file] = None])
    BY <1>10 DEF CacheDelete, ReadFail
  <2>2. cache' \in [Instances -> [Files -> Record \cup {None}]]
    <3>1. [cache[At[r]] EXCEPT ![reader[r].file] = None] \in [Files -> Record \cup {None}]
      BY <1>0, <1>1
    <3> QED
      BY <1>0, <1>1, <2>1, <3>1
  <2>3. reader' \in [Readers -> Request] /\ (\A t \in Readers : HasRecord(t)')
    BY <1>1, <1>2, <1>3, <2>1
  <2> QED
    BY <1>0, <2>1, <2>2, <2>3
<1> QED
  BY <1>0, <1>4, <1>5, <1>6, <1>7, <1>8, <1>9, <1>10 DEF Step

LEMMA CacheStep == CacheInv /\ [CacheNext]_allVars => CacheInv'
<1> SUFFICES ASSUME CacheInv, [CacheNext]_allVars PROVE CacheInv'
  OBVIOUS
<1>1. CASE [Next]_vars /\ UNCHANGED cacheVars
  <2>1. TypeInv'
    BY <1>1, TypeStep DEF CacheInv
  <2> QED
    BY <1>1, <2>1 DEF CacheInv, CacheTypeOK, TypeInv, HasRecord, cacheVars
<1>2. ASSUME NEW r \in Readers,
             Step(r) \/ \E k \in {"metadata", "download"}, f \in Files : Ask(r, k, f)
      PROVE  CacheInv'
  <2>1. TypeInv'
    <3>1. MarkDeleted(r) \/ UNCHANGED vars
      BY <1>2, ReadersLeaveAlone DEF Ask
    <3> QED
      BY <3>1, MarkTyped, TypeStep DEF CacheInv
  <2> QED
    BY <1>2, <2>1, ReaderTyped DEF CacheInv, CacheTypeOK, TypeInv
<1>3. ASSUME NEW q \in Instances, NEW f \in Files, Expire(q, f) PROVE CacheInv'
  <2>1. TypeInv'
    BY <1>3, TypeStep DEF CacheInv, Expire
  <2> QED
    BY <1>3, <2>1 DEF CacheInv, CacheTypeOK, TypeInv, HasRecord, Expire
<1>4. CASE ReplicaRefresh
  <2>1. TypeInv'
    BY <1>4, TypeStep DEF CacheInv, ReplicaRefresh
  <2>2. ToSet(listing) \subseteq Files
    BY DEF CacheInv, TypeInv, TypeOK, ToSet
  <2> QED
    BY <1>4, <2>1, <2>2 DEF CacheInv, CacheTypeOK, TypeInv, HasRecord, ReplicaRefresh
<1> QED
  BY <1>1, <1>2, <1>3, <1>4 DEF CacheNext, allVars, cacheVars

LEMMA CacheAlways == CacheSpec => []CacheInv
<1>1. CacheInit => CacheInv
  <2> SUFFICES ASSUME CacheInit PROVE CacheInv
    OBVIOUS
  <2>1. TypeInv
    BY TypeInit DEF CacheInit
  <2>2. IdleRequest \in Request /\ IdleRequest.pc = "idle"
    BY RegistryOK DEF RegistryOK, IdleRequest, Request, Stages
  <2> QED
    BY <2>1, <2>2 DEF CacheInit, CacheInv, CacheTypeOK, TypeInv, HasRecord, EmptyCache
<1> QED
  BY <1>1, CacheStep, PTL DEF CacheSpec

\* The variables of the Query Module keep their types, and those of the registry
\* keep theirs beside it.
THEOREM CacheTypeCorrect == CacheSpec => []CacheTypeOK
<1>1. CacheInv => CacheTypeOK
  BY DEF CacheInv
<1> QED
  BY <1>1, CacheAlways, PTL

-----------------------------------------------------------------------------
(* Clean-up while one process of the SE answers every request.  Whatever   *)
(* anybody holds of a file, in a row, a page, a cache or a request, the    *)
(* file was uploaded; and an SE never takes a file back that it had.       *)

Rows == \A f \in Files : registry[f] # None => f \in uploaded
Pages == \A s \in Syncs : FilesOf(sync[s].page) \subseteq uploaded
Copies ==
  /\ \A q \in Instances, f \in Files : cache[q][f] # None => f \in uploaded
  /\ \A r \in Readers : reader[r].rec # None => reader[r].file \in uploaded

Uploaded == Rows /\ Pages /\ Copies /\ CleanedIsGone

\* What the SE and the registry do.
LEMMA RowsStep ==
  ASSUME TypeInv, Rows, Pages, [Next]_vars
  PROVE  /\ Rows' /\ Pages' /\ uploaded \subseteq uploaded'
         /\ \A f \in uploaded : f \notin ToSet(listing) => f \notin ToSet(listing)'
<1>0. /\ sync \in [Syncs -> Syncing] /\ registry \in [Files -> Record \cup {None}]
      /\ listing \in Seq(Files) /\ uploaded \subseteq Files
      /\ \A i \in 1..Len(listing) : listing[i] \in uploaded
  BY DEF TypeInv, TypeOK, ListingOK
<1>1. CASE UNCHANGED <<listing, uploaded>> /\ Rows' /\ Pages'
  BY <1>1
<1>2. ASSUME NEW f \in Files, NEW d \in Descs, NEW i \in 1..Len(listing) + 1, SEUpload(f, d, i)
      PROVE  /\ Rows' /\ Pages' /\ uploaded \subseteq uploaded'
             /\ \A g \in uploaded : g \notin ToSet(listing) => g \notin ToSet(listing)'
  <2>1. /\ uploaded' = uploaded \cup {f} /\ f \notin uploaded /\ listing' = InsertAt(listing, i, f)
        /\ registry' = registry /\ sync' = sync
    BY <1>2 DEF SEUpload, dbVars
  <2>2. /\ InsertAt(listing, i, f) \in Seq(Files)
        /\ Len(InsertAt(listing, i, f)) = Len(listing) + 1 /\ Len(listing) \in Nat
        /\ \A j \in 1..Len(listing) + 1 : InsertAt(listing, i, f)[j] =
              IF j < i THEN listing[j] ELSE IF j = i THEN f ELSE listing[j - 1]
    BY <1>0, Inserted
  <2>3. ASSUME NEW j \in 1..Len(listing')
        PROVE  listing'[j] = f \/ \E k \in 1..Len(listing) : listing'[j] = listing[k]
    <3>1. j \in 1..Len(listing) + 1
      BY <2>1, <2>2
    <3>2. CASE j < i
      BY <2>1, <2>2, <3>1, <3>2
    <3>3. CASE j = i
      BY <2>1, <2>2, <3>1, <3>3
    <3>4. CASE j > i
      <4>1. listing'[j] = listing[j - 1] /\ j - 1 \in 1..Len(listing)
        BY <2>1, <2>2, <3>1, <3>4
      <4> QED
        BY <4>1
    <3> QED
      BY <3>1, <3>2, <3>3, <3>4
  <2>4. \A g \in ToSet(listing)' : g = f \/ g \in ToSet(listing)
    BY <1>0, <2>1, <2>2, <2>3 DEF ToSet
  <2> QED
    BY <2>1, <2>4 DEF Rows, Pages
<1>3. ASSUME NEW i \in 1..Len(listing), SECollect(i)
      PROVE  /\ Rows' /\ Pages' /\ uploaded' = uploaded
             /\ \A g \in uploaded : g \notin ToSet(listing) => g \notin ToSet(listing)'
  <2>1. /\ uploaded' = uploaded /\ listing' = RemoveAt(listing, i) /\ registry' = registry
        /\ \A s \in Syncs : sync'[s].page = sync[s].page
    BY <1>0, <1>3 DEF SECollect, dbVars, Syncing
  <2>2. /\ RemoveAt(listing, i) \in Seq(Files)
        /\ Len(RemoveAt(listing, i)) = Len(listing) - 1 /\ Len(listing) \in Nat
        /\ \A j \in 1..Len(listing) - 1 : RemoveAt(listing, i)[j] =
              IF j < i THEN listing[j] ELSE listing[j + 1]
    BY <1>0, Removed
  <2>3. \A j \in 1..Len(listing') : \E k \in 1..Len(listing) : listing'[j] = listing[k]
    <3> SUFFICES ASSUME NEW j \in 1..Len(listing) - 1
                 PROVE  \E k \in 1..Len(listing) : listing'[j] = listing[k]
      BY <2>1, <2>2
    <3>1. j \in 1..Len(listing) /\ j + 1 \in 1..Len(listing)
      BY <2>2
    <3> QED
      BY <2>1, <2>2, <3>1
  <2>4. ToSet(listing)' \subseteq ToSet(listing)
    <3>1. DOMAIN listing' = 1..Len(listing') /\ DOMAIN listing = 1..Len(listing)
      BY <1>0, <2>1, <2>2
    <3> QED
      BY <2>3, <3>1 DEF ToSet
  <2> QED
    BY <2>1, <2>4 DEF Rows, Pages
<1>4. CASE SENext
  <2>1. ASSUME NEW f \in Files, NEW m \in Meta, SEModify(f, m) PROVE UNCHANGED <<listing, uploaded, registry, sync>>
    BY <2>1 DEF SEModify, dbVars
  <2>2. ASSUME NEW m \in Modes, SETransition(m) PROVE UNCHANGED <<listing, uploaded, registry, sync>>
    BY <2>2 DEF SETransition, dbVars
  <2> QED
    BY <1>2, <1>3, <1>4, <2>1, <2>2 DEF SENext, Rows, Pages
<1>5. CASE AdminNext \/ ClientNext \/ UNCHANGED vars
  <2>1. UNCHANGED <<listing, uploaded, sync>>
    BY <1>5 DEF AdminNext, ClientNext, CreateSE, DeleteSE, UpdateSERead, UpdateSEWrite, Register,
                UpdateFileRead, UpdateFileWrite, DeleteFile, vars, seVars
  <2>2. ASSUME AdminNext, NEW f \in Files, registry'[f] # None PROVE registry[f] # None
    <3>1. registry' = registry \/ registry' = DropRow(registry, row.id)
      BY <2>2 DEF AdminNext, CreateSE, DeleteSE, UpdateSERead, UpdateSEWrite, dbVars
    <3> QED
      BY <2>2, <3>1 DEF DropRow
  <2>3. ASSUME ClientNext, NEW f \in Files, registry'[f] # None
        PROVE  registry[f] # None \/ f \in uploaded
    <3>1. ASSUME NEW g \in Files, NEW d \in Descs, Register(g, d)
          PROVE  registry[f] # None \/ f \in uploaded
      BY <1>0, <2>3, <3>1 DEF Register
    <3>2. ASSUME NEW g \in Files, NEW m \in Meta, UpdateFileRead(g, m) PROVE registry[f] # None
      BY <2>3, <3>2 DEF UpdateFileRead, dbVars
    <3>3. CASE UpdateFileWrite
      BY <2>3, <3>3 DEF UpdateFileWrite
    <3>4. ASSUME NEW g \in Files, DeleteFile(g) PROVE registry[f] # None
      BY <1>0, <2>3, <3>4 DEF DeleteFile, SoftDelete
    <3> QED
      BY <2>3, <3>1, <3>2, <3>3, <3>4 DEF ClientNext
  <2>4. ASSUME UNCHANGED vars PROVE registry' = registry
    BY <2>4 DEF vars, dbVars
  <2>5. Rows' /\ Pages'
    BY <1>5, <2>1, <2>2, <2>3, <2>4 DEF Rows, Pages
  <2> QED
    BY <2>1, <2>5
<1>6. ASSUME NEW s \in Syncs, SyncBegin(s) \/ SyncStep(s)
      PROVE  UNCHANGED <<listing, uploaded>> /\ Rows' /\ Pages'
  <2>0. UNCHANGED <<listing, uploaded>>
    BY <1>6 DEF SyncBegin, SyncStep, SyncInfo, SyncList, SyncUpsert, SyncReject, SyncMark, SyncUpdate,
                SyncFail, seVars
  <2>1. ASSUME NEW x \in Syncing, sync' = [sync EXCEPT ![s] = x], FilesOf(x.page) \subseteq uploaded
        PROVE  Pages'
    BY <1>0, <2>0, <2>1 DEF Pages
  <2>2. CASE SyncList(s)
    <3> DEFINE q == Page(sync[s].offset)
    <3>0. sync[s].offset \in Nat
      BY <1>0 DEF Syncing
    <3>1. \A i \in 1..Len(q) : q[i].file \in uploaded
      BY <1>0, <3>0, PageOK
    <3>2. sync'[s].page = q /\ (\A t \in Syncs \ {s} : sync'[t] = sync[t]) /\ registry' = registry
      BY <1>0, <2>2 DEF SyncList, Syncing, dbVars
    <3> HIDE DEF q
    <3>3. FilesOf(q) \subseteq uploaded
      BY <3>1 DEF FilesOf
    <3> QED
      BY <2>0, <3>2, <3>3 DEF Rows, Pages
  <2>3. CASE SyncUpsert(s)
    <3> DEFINE q == sync[s].page
    <3>1. q \in Seq(Listed) /\ q # <<>> /\ sync[s].row \in Row
      BY <1>0, <2>3 DEF TypeInv, InHand, SyncUpsert, Syncing
    <3>2. sync'[s].page = Tail(q) /\ (\A t \in Syncs \ {s} : sync'[t] = sync[t])
          /\ registry' = Upsert(registry, sync[s].row.id, Head(q))
      BY <1>0, <2>3 DEF SyncUpsert, Syncing
    <3>3. FilesOf(q) \subseteq uploaded
      BY DEF Pages
    <3> HIDE DEF q
    <3>4. /\ Head(q) = q[1] /\ Len(q) \in Nat /\ Len(q) >= 1 /\ Tail(q) \in Seq(Listed)
          /\ Len(Tail(q)) = Len(q) - 1
          /\ \A k \in 1..Len(q) - 1 : Tail(q)[k] = q[k + 1]
      BY <3>1, HeadTailProperties, EmptySeq, LenProperties
    <3>5. Head(q).file \in uploaded
      BY <3>3, <3>4 DEF FilesOf
    <3>6. FilesOf(Tail(q)) \subseteq uploaded
      BY <3>3, <3>4 DEF FilesOf
    <3>7. \A f \in Files : registry'[f] # None => f = Head(q).file \/ registry[f] # None
      BY <1>0, <3>2 DEF Upsert
    <3> QED
      BY <2>0, <3>2, <3>5, <3>6, <3>7 DEF Rows, Pages
  <2>4. CASE SyncMark(s)
    <3>1. \A t \in Syncs : sync'[t].page = sync[t].page
      BY <1>0, <2>4 DEF SyncMark, Syncing
    <3>2. \A f \in Files : registry'[f] # None => registry[f] # None
      BY <2>4 DEF SyncMark, MarkDeletedExcept
    <3> QED
      BY <2>0, <3>1, <3>2 DEF Rows, Pages
  <2>5. CASE SyncBegin(s) \/ SyncReject(s) \/ SyncUpdate(s) \/ SyncFail(s)
    <3>0. IdleSync.page = <<>>
      BY DEF IdleSync
    <3>1. sync'[s].page = <<>> /\ (\A t \in Syncs \ {s} : sync'[t] = sync[t]) /\ registry' = registry
      <4>1. CASE SyncBegin(s)
        BY <1>0, <4>1 DEF SyncBegin, IdleSync, dbVars
      <4>2. CASE SyncReject(s) \/ SyncUpdate(s) \/ SyncFail(s)
        BY <1>0, <3>0, <4>2 DEF SyncReject, SyncUpdate, SyncFail, dbVars
      <4> QED
        BY <2>5, <4>1, <4>2
    <3>2. FilesOf(<<>>) = {}
      BY DEF FilesOf
    <3> QED
      BY <2>0, <3>1, <3>2 DEF Rows, Pages
  <2>6. CASE SyncInfo(s)
    <3>1. (\A t \in Syncs : sync'[t].page = sync[t].page) /\ registry' = registry
      BY <1>0, <2>6 DEF SyncInfo, Syncing, dbVars
    <3> QED
      BY <2>0, <3>1 DEF Rows, Pages
  <2> QED
    BY <1>6, <2>0, <2>2, <2>3, <2>4, <2>5, <2>6 DEF SyncStep
<1> QED
  BY <1>1, <1>4, <1>5, <1>6 DEF Next

LEMMA UploadedStep ==
  ASSUME "replica" \notin Activities, CacheInv, Uploaded, [CacheNext]_allVars
  PROVE  Uploaded'
<1>0. /\ reader \in [Readers -> Request] /\ cache \in [Instances -> [Files -> Record \cup {None}]]
      /\ TypeInv
  BY DEF CacheInv, CacheTypeOK
<1>1. CASE [Next]_vars /\ UNCHANGED cacheVars
  <2>1. /\ Rows' /\ Pages' /\ uploaded \subseteq uploaded'
        /\ \A f \in uploaded : f \notin ToSet(listing) => f \notin ToSet(listing)'
    BY <1>0, <1>1, RowsStep DEF Uploaded
  <2>2. \A r \in Readers : reader[r].pc = "mark" => reader[r].file \in uploaded
    BY DEF Uploaded, Copies, CacheInv, HasRecord
  <2>3. Copies'
    BY <1>1, <2>1 DEF Uploaded, Copies, cacheVars
  <2>4. CleanedIsGone'
    BY <1>1, <2>1, <2>2 DEF Uploaded, CleanedIsGone, cacheVars
  <2> QED
    BY <2>1, <2>3, <2>4 DEF Uploaded
<1>2. ASSUME NEW r \in Readers,
             Step(r) \/ \E k \in {"metadata", "download"}, f \in Files : Ask(r, k, f)
      PROVE  Uploaded'
  <2>0. /\ reader[r] \in Request /\ IdleRequest \in Request /\ reader[r].file \in Files
        /\ At[r] \in Instances /\ (reader[r].pc \notin {"idle", "db"} => reader[r].rec \in Record)
        /\ (reader[r].rec # None => reader[r].file \in uploaded)
    BY Requests DEF CacheInv, Uploaded, Copies
  <2>1. UNCHANGED <<listing, uploaded, sync>>
    BY <1>2 DEF Step, Ask, GetByID, CacheSet, GetStorageElement, Fetch, MarkDeleted, CacheDelete,
                ReadFail, vars, seVars
  <2>2. Rows' /\ Pages'
    <3>1. \A f \in Files : registry'[f] # None => registry[f] # None
      <4>1. CASE MarkDeleted(r)
        BY <2>0, <4>1 DEF MarkDeleted, SoftDelete
      <4>2. CASE ~MarkDeleted(r)
        BY <1>2, <4>2, ReadersLeaveAlone DEF Ask, vars, dbVars
      <4> QED
        BY <4>1, <4>2
    <3> QED
      BY <2>1, <3>1 DEF Uploaded, Rows, Pages
  \* What the request holds next, and what it leaves in the cache.
  <2>3. ASSUME NEW q \in Request, reader' = [reader EXCEPT ![r] = q],
               q.rec # None => q.file \in uploaded,
               q.pc = "mark" => q.file \notin ToSet(listing),
               \A i \in Instances, f \in Files : cache'[i][f] # None => f \in uploaded
        PROVE  Copies' /\ CleanedIsGone'
    BY <1>0, <2>1, <2>3 DEF Uploaded, Copies, CleanedIsGone
  <2>4. IdleRequest.pc = "idle" /\ IdleRequest.rec = None
    BY DEF IdleRequest
  <2>5. cache' = cache => \A i \in Instances, f \in Files : cache'[i][f] # None => f \in uploaded
    BY DEF Uploaded, Copies
  <2>6. ASSUME NEW k \in {"metadata", "download"}, NEW f \in Files, Ask(r, k, f)
        PROVE  Copies' /\ CleanedIsGone'
    <3> DEFINE q == [pc |-> "db", kind |-> k, file |-> f, rec |-> cache[At[r]][f]]
    <3>1. q \in Request /\ q.rec = cache[At[r]][f] /\ q.pc = "db" /\ q.file = f
          /\ (q.rec = None \/ q.rec \in Record)
      BY <1>0, <2>0 DEF Request, Stages
    <3>2. reader' = [reader EXCEPT ![r] = IF q.rec = None THEN q ELSE WithRecord(q)] /\ cache' = cache
      BY <2>6 DEF Ask
    <3>3. q.rec # None => f \in uploaded
      BY <2>0, <3>1 DEF Uploaded, Copies
    <3> HIDE DEF q
    <3>4. CASE q.rec = None
      BY <2>3, <2>5, <3>1, <3>2, <3>4
    <3>5. CASE q.rec # None
      <4>1. /\ WithRecord(q) \in Request /\ WithRecord(q).pc # "mark"
            /\ (WithRecord(q).rec # None => WithRecord(q).file = f)
        BY <2>0, <3>1, <3>5, Going
      <4>2. reader' = [reader EXCEPT ![r] = WithRecord(q)]
        BY <3>2, <3>5
      <4> QED
        BY <2>3, <2>5, <3>2, <3>3, <3>5, <4>1, <4>2
    <3> QED
      BY <3>4, <3>5
  <2>7. ASSUME GetByID(r) PROVE Copies' /\ CleanedIsGone'
    <3>1. CASE registry[reader[r].file] = None
      BY <2>0, <2>3, <2>4, <2>5, <2>7, <3>1 DEF GetByID
    <3>2. CASE registry[reader[r].file] # None
      <4> DEFINE q == [reader[r] EXCEPT !.pc = "fill", !.rec = registry[reader[r].file]]
      <4>1. q \in Request /\ q.pc = "fill" /\ q.file = reader[r].file /\ q.file \in uploaded
        BY <1>0, <2>0, <3>2 DEF Request, Stages, TypeInv, TypeOK, Uploaded, Rows
      <4>2. reader' = [reader EXCEPT ![r] = q] /\ cache' = cache
        BY <1>0, <2>7, <3>2 DEF GetByID
      <4> HIDE DEF q
      <4> QED
        BY <2>3, <2>5, <4>1, <4>2
    <3> QED
      BY <3>1, <3>2
  <2>8. ASSUME CacheSet(r) PROVE Copies' /\ CleanedIsGone'
    <3>1. /\ reader' = [reader EXCEPT ![r] = WithRecord(reader[r])]
          /\ cache' = [cache EXCEPT ![At[r]][reader[r].file] = reader[r].rec]
          /\ reader[r].rec \in Record /\ reader[r].rec # None /\ reader[r].file \in uploaded
      BY <1>0, <2>0, <2>8 DEF CacheSet, CacheInv, HasRecord
    <3>2. /\ WithRecord(reader[r]) \in Request /\ WithRecord(reader[r]).pc # "mark"
          /\ (WithRecord(reader[r]).rec # None => WithRecord(reader[r]).file = reader[r].file)
      BY <2>0, <3>1, Going
    <3>3. \A i \in Instances, f \in Files : cache'[i][f] # None => f \in uploaded
      BY <1>0, <2>0, <3>1 DEF Uploaded, Copies
    <3> QED
      BY <2>3, <3>1, <3>2, <3>3
  <2>9. ASSUME GetStorageElement(r) PROVE Copies' /\ CleanedIsGone'
    <3> DEFINE q == IF row # None /\ row.id = reader[r].rec.se
                    THEN [reader[r] EXCEPT !.pc = "fetch"] ELSE IdleRequest
    <3>1. q \in Request /\ q.pc # "mark" /\ (q.rec # None => q.file = reader[r].file)
          /\ (q.rec # None => reader[r].rec # None)
      BY <2>0, <2>4 DEF Request, Stages
    <3>2. reader' = [reader EXCEPT ![r] = q] /\ cache' = cache
      BY <1>0, <2>9 DEF GetStorageElement
    <3> HIDE DEF q
    <3> QED
      BY <2>0, <2>3, <2>5, <3>1, <3>2
  <2>10. ASSUME Fetch(r) PROVE Copies' /\ CleanedIsGone'
    <3>1. CASE Missing(reader[r].file) /\ reader' = [reader EXCEPT ![r].pc = "mark"]
      <4> DEFINE q == [reader[r] EXCEPT !.pc = "mark"]
      <4>1. q \in Request /\ q.file = reader[r].file /\ (q.rec # None => reader[r].rec # None)
        BY <2>0 DEF Request, Stages
      <4>2. reader' = [reader EXCEPT ![r] = q] /\ cache' = cache
        BY <1>0, <2>10, <3>1 DEF Fetch
      <4>3. q.file \notin ToSet(listing)
        BY <3>1, <4>1 DEF Missing
      <4> HIDE DEF q
      <4> QED
        BY <2>0, <2>3, <2>5, <4>1, <4>2, <4>3
    <3>2. CASE reader' = [reader EXCEPT ![r] = IdleRequest]
      BY <2>0, <2>3, <2>4, <2>5, <2>10, <3>2 DEF Fetch
    <3> QED
      BY <2>10, <3>1, <3>2 DEF Fetch
  <2>11. ASSUME MarkDeleted(r) PROVE Copies' /\ CleanedIsGone'
    <3> DEFINE q == [reader[r] EXCEPT !.pc = "purge"]
    <3>1. q \in Request /\ q.pc = "purge" /\ q.file = reader[r].file
          /\ (q.rec # None => reader[r].rec # None)
      BY <2>0 DEF Request, Stages
    <3>2. (reader' = [reader EXCEPT ![r] = q] \/ reader' = [reader EXCEPT ![r] = IdleRequest])
          /\ cache' = cache
      BY <1>0, <2>11 DEF MarkDeleted
    <3> HIDE DEF q
    <3> QED
      BY <2>0, <2>3, <2>4, <2>5, <3>1, <3>2
  <2>12. ASSUME CacheDelete(r) \/ ReadFail(r) PROVE Copies' /\ CleanedIsGone'
    <3>1. reader' = [reader EXCEPT ![r] = IdleRequest]
          /\ (cache' = cache \/ cache' = [cache EXCEPT ![At[r]][reader[r].file] = None])
      BY <2>12 DEF CacheDelete, ReadFail
    <3>2. \A i \in Instances, f \in Files : cache'[i][f] # None => f \in uploaded
      BY <1>0, <2>0, <3>1 DEF Uploaded, Copies
    <3> QED
      BY <2>0, <2>3, <2>4, <3>1, <3>2
  <2> QED
    BY <1>2, <2>2, <2>6, <2>7, <2>8, <2>9, <2>10, <2>11, <2>12 DEF Step, Uploaded
<1>3. ASSUME NEW q \in Instances, NEW f \in Files, Expire(q, f) PROVE Uploaded'
  <2>1. \A i \in Instances, g \in Files : cache'[i][g] # None => cache[i][g] # None
    BY <1>0, <1>3 DEF Expire
  <2> QED
    BY <1>3, <2>1 DEF Expire, Uploaded, Rows, Pages, Copies, CleanedIsGone, vars, seVars, dbVars
<1>4. CASE ReplicaRefresh
  BY <1>4 DEF ReplicaRefresh
<1> QED
  BY <1>1, <1>2, <1>3, <1>4 DEF CacheNext, allVars, cacheVars

LEMMA UploadedAlways ==
  ASSUME "replica" \notin Activities
  PROVE  CacheSpec => []Uploaded
<1>1. CacheInit => Uploaded
  <2> SUFFICES ASSUME CacheInit PROVE Uploaded
    OBVIOUS
  <2>1. IdleRequest.pc = "idle" /\ IdleRequest.rec = None /\ IdleSync.page = <<>>
    BY DEF IdleRequest, IdleSync
  <2>2. FilesOf(<<>>) = {}
    BY DEF FilesOf
  <2> QED
    BY <2>1, <2>2 DEF CacheInit, Init, Uploaded, Rows, Pages, Copies, CleanedIsGone, EmptyCache
<1>2. CacheInv /\ Uploaded /\ [CacheNext]_allVars => Uploaded'
  BY UploadedStep
<1> QED
  BY <1>1, <1>2, CacheAlways, PTL DEF CacheSpec

\* While the SE has one process, whose index is the one the listing is read
\* from, lazy clean-up marks deleted only what the SE has lost, however old the
\* record was that the request went by (download.go:136, :209).
THEOREM CleanUpIsRight ==
  ASSUME "replica" \notin Activities
  PROVE  CacheSpec => []CleanedIsGone
<1>1. Uploaded => CleanedIsGone
  BY DEF Uploaded
<1> QED
  BY <1>1, UploadedAlways, PTL

-----------------------------------------------------------------------------
(* What is proved of the registry and its synchronisation holds beside the *)
(* Query Module, a second writer of the status of a record.                *)

\* A step of the two is one of the registry's, a mark, or no business of the registry.
LEMMA CacheSplit ==
  ASSUME [CacheNext]_allVars, ~[Next]_vars
  PROVE  \E r \in Readers : MarkDeleted(r)
BY ReadersLeaveAlone DEF CacheNext, allVars, Ask, Expire, ReplicaRefresh

LEMMA MarkWrites ==
  ASSUME CacheInv, NEW r \in Readers, MarkDeleted(r)
  PROVE  /\ reader[r].pc = "mark" /\ reader[r].file \in Files
         /\ UNCHANGED <<listing, meta, row, sync, alone>>
         /\ \A f \in Files : registry'[f] # None <=> registry[f] # None
         /\ \A f \in Files : registry[f] # None => registry'[f].se = registry[f].se
         /\ \A f \in Files : registry'[f] = registry[f]
                              \/ (f = reader[r].file /\ registry'[f].status = "deleted")
<1>1. reader[r].file \in Files
  BY Requests
<1>2. registry \in [Files -> Record \cup {None}]
  BY DEF CacheInv, TypeInv, TypeOK
<1>3. \A f \in Files : registry[f] # None => registry[f] \in Record
                                             /\ [registry[f] EXCEPT !.status = "deleted"] \in Record
  BY <1>2 DEF Record, Statuses
<1>4. registry' = registry \/ registry' = SoftDelete(registry, reader[r].file)
  BY DEF MarkDeleted
<1>5. \A f \in Files : registry'[f] = registry[f]
        \/ (/\ f = reader[r].file /\ registry[f] # None
            /\ registry'[f] = [registry[f] EXCEPT !.status = "deleted"])
  BY <1>1, <1>2, <1>4 DEF SoftDelete
<1>6. /\ reader[r].pc = "mark"
      /\ UNCHANGED <<listing, meta, row, sync, alone>>
  BY DEF MarkDeleted, seVars
<1>7. \A f \in Files : registry[f] # None =>
         /\ [registry[f] EXCEPT !.status = "deleted"].se = registry[f].se
         /\ [registry[f] EXCEPT !.status = "deleted"].status = "deleted"
         /\ [registry[f] EXCEPT !.status = "deleted"] # None
  BY <1>3, NoneOK DEF Record
<1> QED
  BY <1>1, <1>5, <1>6, <1>7

LEMMA OrphansBesideCache == CacheSpec => []NoOrphans
<1>1. CacheInit => NoOrphans
  BY DEF CacheInit, Init, NoOrphans
<1>2. CacheInv /\ NoOrphans /\ [CacheNext]_allVars => NoOrphans'
  <2> SUFFICES ASSUME CacheInv, NoOrphans, [CacheNext]_allVars PROVE NoOrphans'
    OBVIOUS
  <2>1. CASE [Next]_vars
    BY <2>1, OrphansStep DEF CacheInv
  <2>2. ASSUME NEW r \in Readers, MarkDeleted(r) PROVE NoOrphans'
    BY <2>2, MarkWrites DEF NoOrphans
  <2> QED
    BY <2>1, <2>2, CacheSplit
<1> QED
  BY <1>1, <1>2, CacheAlways, PTL DEF CacheSpec

\* No record outlives the row of its SE while instances of the Query Module mark
\* records they read long before (file.go:152, MarkDeleted, beside DeleteSE).
THEOREM RecordsHaveTheirRowBesideCache == CacheSpec => []NoOrphans
BY OrphansBesideCache

\* A synchronisation about to mark files deleted has listed all that were in the SE
\* throughout, but for one per removal, beside any number of downloads and their
\* clean-up (storage_sync.go:296, MarkDeletedExcept, beside download.go:209).
THEOREM NothingIsSkippedBesideCache == CacheSpec => []NothingSkipped
<1>1. CacheInit => PagingInv
  BY DEF CacheInit, Init, PagingInv, SkipInv, Through, IdleSync
<1>2. CacheInv /\ PagingInv /\ [CacheNext]_allVars => PagingInv'
  <2> SUFFICES ASSUME CacheInv, PagingInv, [CacheNext]_allVars PROVE PagingInv'
    OBVIOUS
  <2>1. CASE [Next]_vars
    BY <2>1, PagingStep DEF CacheInv
  <2>2. ASSUME NEW r \in Readers, MarkDeleted(r) PROVE PagingInv'
    <3> SUFFICES ASSUME NEW s \in Syncs PROVE SkipInv(s)'
      BY DEF PagingInv
    <3>1. SkipInv(s) /\ listing' = listing /\ sync'[s] = sync[s]
      BY <2>2, MarkWrites DEF PagingInv
    <3> QED
      BY <3>1, SkipSame
  <2> QED
    BY <2>1, <2>2, CacheSplit
<1>3. PagingInv => NothingSkipped
  BY DEF PagingInv, SkipInv, Through, NothingSkipped
<1> QED
  BY <1>1, <1>2, <1>3, CacheAlways, PTL DEF CacheSpec

\* A mark of a file the SE has lost does not undo what a synchronisation has
\* brought into agreement, in the middle of its pages or after them.
LEMMA ExactBesideMark ==
  ASSUME CacheInv, Uploaded, NEW r \in Readers, MarkDeleted(r), NEW s \in Syncs, ExactInv(s)
  PROVE  ExactInv(s)'
<1>1. /\ UNCHANGED <<listing, meta, row, sync>>
      /\ \A f \in Files : registry'[f] # None <=> registry[f] # None
      /\ \A f \in Files : registry'[f] = registry[f]
                           \/ (f = reader[r].file /\ registry'[f].status = "deleted")
      /\ reader[r].file \notin ToSet(listing)
  BY MarkWrites DEF Uploaded, CleanedIsGone
<1>2. sync[s] \in Syncing /\ listing \in Seq(Files) /\ sync'[s] = sync[s]
      /\ Len(listing) \in Nat /\ sync[s].offset \in Nat
  BY <1>1 DEF CacheInv, TypeInv, TypeOK, Syncing
<1>3. ToSet(listing) \subseteq Files
  BY <1>2 DEF ToSet
<1>4. ASSUME NEW f \in ToSet(listing), Shown(f) PROVE Shown(f)'
  <2>1. registry'[f] = registry[f] /\ meta' = meta
    BY <1>1, <1>3, <1>4
  <2> QED
    BY <1>4, <2>1 DEF Shown
<1>5. ASSUME FilesAgree PROVE FilesAgree'
  <2> SUFFICES ASSUME NEW f \in Files
               PROVE  /\ f \in ToSet(listing) => Shown(f)'
                      /\ f \notin ToSet(listing) =>
                            (registry'[f] # None => registry'[f].status = "deleted")
    BY <1>1 DEF FilesAgree, Shown
  <2>1. f \in ToSet(listing) => Shown(f)
    BY <1>5 DEF FilesAgree, Shown
  <2>2. f \notin ToSet(listing) => (registry[f] # None => registry[f].status = "deleted")
    BY <1>5 DEF FilesAgree
  <2> QED
    BY <1>1, <1>4, <2>1, <2>2
<1>6. ASSUME sync[s].offset <= Len(listing) PROVE Read(sync[s].offset) \subseteq ToSet(listing)
  BY <1>2, <1>6 DEF Read, ToSet
<1>7. /\ Read(sync[s].offset)' = Read(sync[s].offset) /\ ToSet(listing)' = ToSet(listing)
      /\ Len(listing)' = Len(listing)
  BY <1>1, <1>2 DEF Read
<1> QED
  BY <1>1, <1>2, <1>4, <1>5, <1>6, <1>7 DEF ExactInv

\* A synchronisation that met nobody but the clean-up of the Query Module leaves
\* the registry in agreement with the SE, while one process of the SE answers.
THEOREM ExactBesideCache ==
  ASSUME "replica" \notin Activities
  PROVE  CacheSpec => []SyncExact
<1>1. CacheInit => AloneInv
  BY DEF CacheInit, Init, AloneInv
<1>2. CacheInv /\ NoOrphans /\ Uploaded /\ AloneInv /\ [CacheNext]_allVars => AloneInv'
  <2> SUFFICES ASSUME CacheInv, NoOrphans, Uploaded, AloneInv, [CacheNext]_allVars PROVE AloneInv'
    OBVIOUS
  <2>1. CASE [Next]_vars
    BY <2>1, AloneStep DEF CacheInv
  <2>2. ASSUME NEW r \in Readers, MarkDeleted(r) PROVE AloneInv'
    <3>1. alone' = alone /\ alone \subseteq Syncs
      BY <2>2, MarkWrites DEF CacheInv, TypeInv, TypeOK
    <3> QED
      BY <2>2, <3>1, ExactBesideMark DEF AloneInv
  <2> QED
    BY <2>1, <2>2, CacheSplit
<1>3. AloneInv => SyncExact
  BY DEF AloneInv, ExactInv, SyncExact
<1> QED
  BY <1>1, <1>2, <1>3, CacheAlways, OrphansBesideCache, UploadedAlways, PTL DEF CacheSpec

=============================================================================
