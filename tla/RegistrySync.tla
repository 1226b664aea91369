---------------------------- MODULE RegistrySync ----------------------------
(***************************************************************************)
(* The file registry of the Admin Module (PostgreSQL) beside one Storage   *)
(* Element, and the synchronisation that copies the second into the first: *)
(* storage_sync.go, storage_elements.go, file_registry.go of               *)
(* admin-module/internal.                                                  *)
(*                                                                         *)
(* The Storage Element is seen as its listing: the files of its index,     *)
(* newest first, with their metadata.  The synchronisation reads it page   *)
(* by page, by offset, while uploads and the garbage collector move it.    *)
(***************************************************************************)
EXTENDS Naturals, Sequences, SequencesExt

CONSTANTS
    Files,       \* file_id's: each names one upload
    Descs,       \* metadata a client can give a file
    Names,       \* names (and addresses) an administrator can give the SE
    Modes,       \* modes the SE reports
    Ids,         \* identifiers of rows of storage_elements
    Syncs,       \* goroutines that run SyncOne
    Periodic,    \* the one started by the ticker
    PageSize,    \* AM_SYNC_PAGE_SIZE
    First,       \* bound: files the SE holds before it is registered
    MaxEvents,   \* bound: changes made by clients, administrators and errors
    Activities,  \* what the environment does in an instance
    None         \* no record, no row

ASSUME RegistryOK ==
    /\ PageSize \in Nat \ {0} /\ First \in Nat /\ MaxEvents \in Nat
    /\ Periodic \in Syncs
    /\ None \notin Files \cup Ids
    /\ Files # {} /\ Descs # {} /\ Names # {} /\ Modes # {}

VARIABLES
    listing,    \* the SE's index as ListFiles returns it
    meta,       \* the SE's metadata of each file
    uploaded,   \* names already used by an upload
    seMode,     \* the SE's mode
    row,        \* the row of the SE in storage_elements
    usedIds,    \* identifiers given out
    registry,   \* the table file_registry
    sync,       \* SyncOne under way, by goroutine
    edit,       \* FileRegistryService.Update under way
    form,       \* StorageElementService.Update under way
    alone,      \* history: the syncs nobody has come across since they began
    events      \* changes so far

seVars == <<listing, meta, uploaded, seMode>>
dbVars == <<row, usedIds, registry>>
vars == <<seVars, dbVars, sync, edit, form, alone, events>>

-----------------------------------------------------------------------------

Statuses == {"active", "deleted"}
Meta == [status : Statuses, desc : Descs]
Row == [id : Ids, name : Names, mode : Modes]
Record == [se : Ids, status : Statuses, desc : Descs]
Listed == [file : Files, meta : Meta]

ASSUME NoneOK == None \notin Meta \cup Row \cup Record

Steps == {"idle", "info", "list", "upsert", "mark", "update"}

\* What SyncOne holds between two remote calls.  "still" is history: the files
\* of the SE when the listing began that no removal has made it skip.
Syncing == [pc : Steps, row : Row \cup {None}, offset : Nat, ids : SUBSET Files,
            page : Seq(Listed), got : Nat, still : SUBSET Files]

IdleSync == [pc |-> "idle", row |-> None, offset |-> 0, ids |-> {},
             page |-> <<>>, got |-> 0, still |-> {}]

TypeOK ==
    /\ listing \in Seq(Files)
    /\ meta \in [Files -> Meta \cup {None}]
    /\ uploaded \subseteq Files
    /\ seMode \in Modes
    /\ row \in Row \cup {None}
    /\ usedIds \subseteq Ids
    /\ registry \in [Files -> Record \cup {None}]
    /\ sync \in [Syncs -> Syncing]
    /\ edit \in [file : Files, rec : Record] \cup {None}
    /\ form \in Row \cup {None}
    /\ alone \subseteq Syncs
    /\ events \in Nat

Init ==
    /\ \E n \in 0..First : listing \in [1..n -> Files]
    /\ IsInjective(listing)
    /\ uploaded = ToSet(listing)
    /\ meta \in [Files -> Meta \cup {None}]
    /\ \A f \in Files : meta[f] # None <=> f \in uploaded
    /\ seMode \in Modes
    /\ row = None /\ usedIds = {} /\ registry = [f \in Files |-> None]
    /\ sync = [s \in Syncs |-> IdleSync]
    /\ edit = None /\ form = None
    /\ alone = {} /\ events = 0

Event(a) == a \in Activities /\ events < MaxEvents /\ events' = events + 1

-----------------------------------------------------------------------------
(* The Storage Element.                                                    *)

\* A new file enters the listing by its upload time, which is taken before
\* the index is updated: it may stand behind files that arrived meanwhile.
SEUpload(f, d, i) ==
    /\ f \notin uploaded /\ i \in 1..Len(listing) + 1
    /\ Event("upload")
    /\ listing' = InsertAt(listing, i, f)
    /\ meta' = [meta EXCEPT ![f] = [status |-> "active", desc |-> d]]
    /\ uploaded' = uploaded \cup {f}
    /\ UNCHANGED <<seMode, dbVars, sync, edit, form>>

SEModify(f, m) ==
    /\ meta[f] # None /\ meta[f].status = "active" /\ m \in Meta
    /\ Event("modify")
    /\ meta' = [meta EXCEPT ![f] = m]
    /\ UNCHANGED <<listing, uploaded, seMode, dbVars, sync, edit, form>>

\* The file at position i leaves the index.  What a listing under way can lose
\* by it is the file that moves from behind its offset to before it.
Skipped(s, i) ==
    IF i <= sync[s].offset /\ sync[s].offset < Len(listing)
    THEN {listing[i], listing[sync[s].offset + 1]}
    ELSE {listing[i]}

SECollect(i) ==
    /\ i \in 1..Len(listing) /\ meta[listing[i]].status = "deleted"
    /\ Event("collect")
    /\ listing' = RemoveAt(listing, i)
    /\ meta' = [meta EXCEPT ![listing[i]] = None]
    /\ sync' = [s \in Syncs |-> [sync[s] EXCEPT !.still = @ \ Skipped(s, i)]]
    /\ UNCHANGED <<uploaded, seMode, dbVars, edit, form>>

SETransition(m) ==
    /\ m # seMode /\ Event("mode")
    /\ seMode' = m
    /\ UNCHANGED <<listing, meta, uploaded, dbVars, sync, edit, form>>

-----------------------------------------------------------------------------
(* Administrators: the row of the SE.                                      *)

\* Identifiers are only ever compared, so it does not matter which new one a
\* row is given: they are taken in one order.
NextId == CHOOSE id \in Ids : id \notin usedIds

CreateSE(id, n) ==
    /\ row = None /\ id \in Ids \ usedIds /\ id = NextId
    /\ row' = [id |-> id, name |-> n, mode |-> seMode]
    /\ usedIds' = usedIds \cup {id}
    /\ UNCHANGED <<seVars, registry, sync, edit, form, events>>

\* ON DELETE CASCADE takes the files of the SE along.
DropRow(reg, id) ==
    [f \in Files |-> IF reg[f] # None /\ reg[f].se = id THEN None ELSE reg[f]]

DeleteSE ==
    /\ row # None /\ Event("drop")
    /\ row' = None
    /\ registry' = DropRow(registry, row.id)
    /\ UNCHANGED <<seVars, usedIds, sync, edit, form>>

\* StorageElementService.Update reads the row and writes all of it back.
UpdateSERead(n) ==
    /\ form = None /\ row # None /\ Event("rename")
    /\ form' = [row EXCEPT !.name = n]
    /\ UNCHANGED <<seVars, dbVars, sync, edit>>

\* UPDATE storage_elements ... WHERE id = $1
WriteRow(r) == IF row # None /\ row.id = r.id THEN r ELSE row

UpdateSEWrite ==
    /\ form # None
    /\ row' = WriteRow(form)
    /\ form' = None
    /\ UNCHANGED <<seVars, usedIds, registry, sync, edit, events>>

-----------------------------------------------------------------------------
(* Clients of the registry.                                                *)

\* A client registers a file it has uploaded; INSERT fails on a file that is
\* there already and, by the foreign key, without a row of the SE.
Register(f, d) ==
    /\ f \in uploaded /\ row # None /\ registry[f] = None
    /\ Event("register")
    /\ registry' = [registry EXCEPT ![f] = [se |-> row.id, status |-> "active", desc |-> d]]
    /\ UNCHANGED <<seVars, row, usedIds, sync, edit, form>>

UpdateFileRead(f, m) ==
    /\ edit = None /\ registry[f] # None /\ m \in Meta
    /\ Event("edit")
    /\ edit' = [file |-> f, rec |-> [se |-> registry[f].se, status |-> m.status, desc |-> m.desc]]
    /\ UNCHANGED <<seVars, dbVars, sync, form>>

\* UPDATE file_registry leaves storage_element_id alone.
UpdateFileWrite ==
    /\ edit # None
    /\ registry' = [f \in Files |->
            IF f = edit.file /\ registry[f] # None
            THEN [edit.rec EXCEPT !.se = registry[f].se]
            ELSE registry[f]]
    /\ edit' = None
    /\ UNCHANGED <<seVars, row, usedIds, sync, form, events>>

SoftDelete(reg, f) ==
    IF reg[f] # None THEN [reg EXCEPT ![f].status = "deleted"] ELSE reg

DeleteFile(f) ==
    /\ registry[f] # None /\ registry[f].status # "deleted"
    /\ Event("edit")
    /\ registry' = SoftDelete(registry, f)
    /\ UNCHANGED <<seVars, row, usedIds, sync, edit, form>>

-----------------------------------------------------------------------------
(* SyncOne.                                                                *)

\* GetByID.  SyncAll begins one for every row, as do POST .../sync and Create.
SyncBegin(s) ==
    /\ sync[s].pc = "idle" /\ row # None
    /\ sync' = [sync EXCEPT ![s] = [IdleSync EXCEPT !.pc = "info", !.row = row]]
    /\ alone' = {s}
    /\ UNCHANGED <<seVars, dbVars, edit, form, events>>

\* Mutant of SyncInfo: the mode of an answer that has none is taken over.
SyncInfoNoMode(s) ==
    /\ sync[s].pc = "info"
    /\ sync' = [sync EXCEPT ![s] = [sync[s] EXCEPT !.pc = "list", !.row.mode = None,
                                                     !.still = ToSet(listing)]]
    /\ UNCHANGED <<seVars, dbVars, edit, form, events>>

SyncInfo(s) ==
    /\ sync[s].pc = "info"
    /\ sync' = [sync EXCEPT ![s] = [sync[s] EXCEPT !.pc = "list", !.row.mode = seMode,
                                                     !.still = ToSet(listing)]]
    /\ UNCHANGED <<seVars, dbVars, edit, form, events>>

\* GET /api/v1/files?limit=&offset=
Page(o) ==
    LET n == Len(listing) - o
        k == IF n < 0 THEN 0 ELSE IF n < PageSize THEN n ELSE PageSize
    IN  [i \in 1..k |-> [file |-> listing[o + i], meta |-> meta[listing[o + i]]]]

FilesOf(p) == {p[i].file : i \in 1..Len(p)}

\* Mutant of SyncList: the next page is asked for one file too far on.
SyncListOff(s) ==
    LET p == Page(sync[s].offset) IN
    /\ sync[s].pc = "list"
    /\ sync' = [sync EXCEPT ![s] =
            [sync[s] EXCEPT !.pc = IF p = <<>> THEN "mark" ELSE "upsert",
                      !.ids = @ \cup FilesOf(p),
                      !.page = p,
                      !.offset = @ + Len(p) + 1,
                      !.got = Len(p)]]
    /\ UNCHANGED <<seVars, dbVars, edit, form, events>>

SyncList(s) ==
    LET p == Page(sync[s].offset) IN
    /\ sync[s].pc = "list"
    /\ sync' = [sync EXCEPT ![s] =
            [sync[s] EXCEPT !.pc = IF p = <<>> THEN "mark" ELSE "upsert",
                      !.ids = @ \cup FilesOf(p),
                      !.page = p,
                      !.offset = @ + Len(p),
                      !.got = Len(p)]]
    /\ UNCHANGED <<seVars, dbVars, edit, form, events>>

\* Mutant of Upsert: a record that is there keeps its status.
UpsertKeepsStatus(reg, id, e) ==
    [reg EXCEPT ![e.file] =
        IF reg[e.file] = None
        THEN [se |-> id, status |-> e.meta.status, desc |-> e.meta.desc]
        ELSE [reg[e.file] EXCEPT !.desc = e.meta.desc]]

\* INSERT ... ON CONFLICT DO UPDATE, one row of the page at a time: an existing
\* record keeps its storage_element_id.  A new one needs the row of the SE.
Upsert(reg, id, e) ==
    [reg EXCEPT ![e.file] =
        [se |-> IF reg[e.file] = None THEN id ELSE reg[e.file].se,
         status |-> e.meta.status, desc |-> e.meta.desc]]

\* Mutant of Insertable: it is enough that the SE is registered, under any id.
InsertableUnderAny(s) == registry[Head(sync[s].page).file] # None \/ row # None

Insertable(s) ==
    \/ registry[Head(sync[s].page).file] # None
    \/ row # None /\ row.id = sync[s].row.id

SyncUpsert(s) ==
    /\ sync[s].pc = "upsert" /\ Insertable(s)
    /\ registry' = Upsert(registry, sync[s].row.id, Head(sync[s].page))
    /\ sync' = [sync EXCEPT ![s] =
            [sync[s] EXCEPT !.page = Tail(@),
                      !.pc = IF Len(sync[s].page) > 1 THEN "upsert"
                             ELSE IF sync[s].got < PageSize THEN "mark"
                             ELSE "list"]]
    /\ UNCHANGED <<seVars, row, usedIds, edit, form, events>>

SyncReject(s) ==
    /\ sync[s].pc = "upsert" /\ ~Insertable(s)
    /\ sync' = [sync EXCEPT ![s] = IdleSync]
    /\ UNCHANGED <<seVars, dbVars, edit, form, events>>

\* Mutant of MarkDeletedExcept: NULL, whatever was listed.
MarkNothing(reg, id, ids) == reg

\* file_id != ALL($2): a slice no file was appended to is nil, is sent as NULL,
\* and a comparison with NULL selects no row.
MarkDeletedExcept(reg, id, ids) ==
    [f \in Files |->
        IF reg[f] # None /\ reg[f].se = id /\ ids # {} /\ f \notin ids
        THEN [reg[f] EXCEPT !.status = "deleted"] ELSE reg[f]]

SyncMark(s) ==
    /\ sync[s].pc = "mark"
    /\ registry' = MarkDeletedExcept(registry, sync[s].row.id, sync[s].ids)
    /\ sync' = [sync EXCEPT ![s] = [sync[s] EXCEPT !.pc = "update"]]
    /\ UNCHANGED <<seVars, row, usedIds, edit, form, events>>

SyncUpdate(s) ==
    /\ sync[s].pc = "update"
    /\ row' = WriteRow(sync[s].row)
    /\ sync' = [sync EXCEPT ![s] = IdleSync]
    /\ UNCHANGED <<seVars, usedIds, registry, edit, form, events>>

\* A remote call or a query fails, the request is cancelled, the process ends.
SyncFail(s) ==
    /\ sync[s].pc # "idle" /\ Event("error")
    /\ sync' = [sync EXCEPT ![s] = IdleSync]
    /\ UNCHANGED <<seVars, dbVars, edit, form>>

-----------------------------------------------------------------------------

SENext ==
    \/ \E f \in Files, d \in Descs, i \in 1..Len(listing) + 1 : SEUpload(f, d, i)
    \/ \E f \in Files, m \in Meta : SEModify(f, m)
    \/ \E i \in 1..Len(listing) : SECollect(i)
    \/ \E m \in Modes : SETransition(m)

AdminNext ==
    \/ \E id \in Ids, n \in Names : CreateSE(id, n)
    \/ DeleteSE
    \/ \E n \in Names : UpdateSERead(n)
    \/ UpdateSEWrite

ClientNext ==
    \/ \E f \in Files, d \in Descs : Register(f, d)
    \/ \E f \in Files, m \in Meta : UpdateFileRead(f, m)
    \/ UpdateFileWrite
    \/ \E f \in Files : DeleteFile(f)

SyncStep(s) ==
    /\ \/ SyncInfo(s) \/ SyncList(s) \/ SyncUpsert(s) \/ SyncReject(s)
       \/ SyncMark(s) \/ SyncUpdate(s) \/ SyncFail(s)
    /\ alone' = alone \cap {s}

Next ==
    \/ (SENext \/ AdminNext \/ ClientNext) /\ alone' = {}
    \/ \E s \in Syncs : SyncBegin(s) \/ SyncStep(s)

Fairness ==
    /\ WF_vars(SyncBegin(Periodic))
    /\ \A s \in Syncs : WF_vars(SyncStep(s))

Spec == Init /\ [][Next]_vars /\ Fairness

-----------------------------------------------------------------------------

\* The registry says of the files what the SE says.
FilesAgree ==
    \A f \in Files :
        IF f \in ToSet(listing)
        THEN registry[f] # None /\ registry[f].status = meta[f].status
                                /\ registry[f].desc = meta[f].desc
        ELSE registry[f] # None => registry[f].status = "deleted"

\* A synchronisation that is about to mark what it has not listed has listed
\* every file that was there when it began and still is, whatever was uploaded
\* and however the pages moved meanwhile; each removal of a file costs it at
\* most one other (storage_sync.go:296; index.go:184, List).
NothingSkipped == \A s \in Syncs : sync[s].pc = "mark" => sync[s].still \subseteq sync[s].ids

\* A synchronisation that nobody came across leaves a registry that agrees with
\* the SE in every file, unless the SE is empty (storage_sync.go:197, SyncOne).
SyncExact == \A s \in alone : sync[s].pc = "update" /\ sync[s].ids # {} => FilesAgree

\* No record belongs to another row than the present one, though a
\* synchronisation can outlive the row it began with and write on after the
\* SE was registered again (file_registry.go:205, BatchUpsert).
NoOrphans == \A f \in Files : registry[f] # None => row # None /\ registry[f].se = row.id

\* Once clients and administrators are done, the registry comes to agree with
\* the SE and the row shows its mode, whatever the synchronisations under way
\* had read before (storage_sync.go:98, the ticker).
Converges == <>[](row # None /\ listing # <<>> => FilesAgree /\ row.mode = seMode)

=============================================================================
