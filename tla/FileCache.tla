------------------------------ MODULE FileCache ------------------------------
(***************************************************************************)
(* The Query Module beside the registry and the Storage Element: its cache *)
(* of file records, the download pipeline and the lazy clean-up            *)
(* (query-module/internal: service/download.go, search.go, cache.go,       *)
(* repository/file.go).                                                    *)
(*                                                                         *)
(* Every instance has a cache of its own, nobody invalidates it from       *)
(* outside, and it is allowed to be stale for the TTL.                     *)
(***************************************************************************)
EXTENDS RegistrySync

CONSTANTS
    Instances,   \* processes of the Query Module
    Readers,     \* their request goroutines
    At           \* the instance a goroutine runs in

ASSUME FileCacheOK ==
    /\ At \in [Readers -> Instances]
    /\ Readers # {}

VARIABLES
    cache,      \* CacheService, by instance
    reader,     \* the request a goroutine handles
    replica     \* files in the index of a second process of the SE

cacheVars == <<cache, reader, replica>>
allVars == <<vars, cacheVars>>

-----------------------------------------------------------------------------

Stages == {"idle", "db", "fill", "locate", "fetch", "mark", "purge"}

Request == [pc : Stages, kind : {"metadata", "download"}, file : Files,
            rec : Record \cup {None}]

IdleRequest == [pc |-> "idle", kind |-> "download", file |-> CHOOSE f \in Files : TRUE,
                rec |-> None]

CacheTypeOK ==
    /\ TypeOK
    /\ cache \in [Instances -> [Files -> Record \cup {None}]]
    /\ reader \in [Readers -> Request]
    /\ replica \subseteq Files

EmptyCache == [f \in Files |-> None]

CacheInit ==
    /\ Init
    /\ cache = [q \in Instances |-> EmptyCache]
    /\ reader = [r \in Readers |-> IdleRequest]
    /\ replica = {}

-----------------------------------------------------------------------------
(* getFileRecord, GetFileMetadata.                                         *)

\* What follows once the record is known: metadata are answered, a download of
\* a deleted file is refused, any other goes on to the SE.
WithRecord(q) ==
    IF q.kind = "download" /\ q.rec.status # "deleted"
    THEN [q EXCEPT !.pc = "locate"] ELSE IdleRequest

Ask(r, k, f) ==
    LET hit == cache[At[r]][f]
        q == [pc |-> "db", kind |-> k, file |-> f, rec |-> hit]
    IN  /\ reader[r].pc = "idle"
        /\ reader' = [reader EXCEPT ![r] = IF hit = None THEN q ELSE WithRecord(q)]
        /\ UNCHANGED <<vars, cache, replica>>

GetByID(r) ==
    LET rec == registry[reader[r].file] IN
    /\ reader[r].pc = "db"
    /\ reader' = [reader EXCEPT ![r] = IF rec = None THEN IdleRequest
                                       ELSE [@ EXCEPT !.pc = "fill", !.rec = rec]]
    /\ UNCHANGED <<vars, cache, replica>>

CacheSet(r) ==
    /\ reader[r].pc = "fill"
    /\ cache' = [cache EXCEPT ![At[r]][reader[r].file] = reader[r].rec]
    /\ reader' = [reader EXCEPT ![r] = WithRecord(@)]
    /\ UNCHANGED <<vars, replica>>

\* Mutant of Expire: a cache without a TTL.
ExpireNever(q, f) == cache[q][f] # None /\ UNCHANGED allVars

\* The LRU forgets an entry when its TTL has run out, or for want of room.
Expire(q, f) ==
    /\ cache[q][f] # None
    /\ cache' = [cache EXCEPT ![q][f] = None]
    /\ UNCHANGED <<vars, reader, replica>>

-----------------------------------------------------------------------------
(* Download.                                                               *)

\* AM is asked for the address of the SE the record names.
GetStorageElement(r) ==
    /\ reader[r].pc = "locate"
    /\ reader' = [reader EXCEPT ![r] = IF row # None /\ row.id = @.rec.se
                                       THEN [@ EXCEPT !.pc = "fetch"] ELSE IdleRequest]
    /\ UNCHANGED <<vars, cache, replica>>

\* The SE answers 404 to a file that is not in the index of the process that
\* happens to answer, or whose data are gone; everything else ends the request.
Missing(f) ==
    \/ f \notin ToSet(listing)
    \/ "replica" \in Activities /\ f \notin replica

Found(f) == f \in ToSet(listing)

Fetch(r) ==
    /\ reader[r].pc = "fetch"
    /\ \/ /\ Missing(reader[r].file)
          /\ reader' = [reader EXCEPT ![r].pc = "mark"]
       \/ /\ Found(reader[r].file)
          /\ reader' = [reader EXCEPT ![r] = IdleRequest]
    /\ UNCHANGED <<vars, cache, replica>>

\* MarkDeleted reports ErrNotFound when it changes no row, and lazyCleanup
\* returns on an error before it has purged the cache.
MarkDeleted(r) ==
    LET f == reader[r].file
        changes == registry[f] # None /\ registry[f].status # "deleted"
    IN  /\ reader[r].pc = "mark"
        /\ registry' = IF changes THEN SoftDelete(registry, f) ELSE registry
        /\ reader' = [reader EXCEPT ![r] = IF changes THEN [@ EXCEPT !.pc = "purge"]
                                           ELSE IdleRequest]
        /\ UNCHANGED <<seVars, row, usedIds, sync, edit, form, alone, events,
                       cache, replica>>

\* Mutant of CacheDelete: a mark is left that the file is gone.
CacheDeleteMarks(r) ==
    /\ reader[r].pc = "purge"
    /\ cache' = [cache EXCEPT ![At[r]][reader[r].file] =
                [reader[r].rec EXCEPT !.status = "gone"]]
    /\ reader' = [reader EXCEPT ![r] = IdleRequest]
    /\ UNCHANGED <<vars, replica>>

CacheDelete(r) ==
    /\ reader[r].pc = "purge"
    /\ cache' = [cache EXCEPT ![At[r]][reader[r].file] = None]
    /\ reader' = [reader EXCEPT ![r] = IdleRequest]
    /\ UNCHANGED <<vars, replica>>

\* A remote call or a query fails, the client has gone, the instance is replaced
\* (which also empties its cache: a few more Expire).
ReadFail(r) ==
    /\ reader[r].pc # "idle"
    /\ reader' = [reader EXCEPT ![r] = IdleRequest]
    /\ UNCHANGED <<vars, cache, replica>>

\* The refresh of the second process of the SE (Replica, RefreshIndex).
ReplicaRefresh ==
    /\ "replica" \in Activities
    /\ replica' = ToSet(listing)
    /\ UNCHANGED <<vars, cache, reader>>

-----------------------------------------------------------------------------

Step(r) ==
    \/ GetByID(r) \/ CacheSet(r) \/ GetStorageElement(r) \/ Fetch(r)
    \/ MarkDeleted(r) \/ CacheDelete(r) \/ ReadFail(r)

CacheNext ==
    \/ Next /\ UNCHANGED cacheVars
    \/ \E r \in Readers :
          Step(r) \/ \E k \in {"metadata", "download"}, f \in Files : Ask(r, k, f)
    \/ \E q \in Instances, f \in Files : Expire(q, f)
    \/ ReplicaRefresh

CacheFairness ==
    /\ WF_allVars(SyncBegin(Periodic) /\ UNCHANGED cacheVars)
    /\ \A s \in Syncs : WF_allVars(SyncStep(s) /\ UNCHANGED cacheVars)
    /\ \A r \in Readers : WF_allVars(Step(r))
    /\ \A q \in Instances, f \in Files : WF_allVars(Expire(q, f))
    /\ WF_allVars(ReplicaRefresh)

CacheSpec == CacheInit /\ [][CacheNext]_allVars /\ CacheFairness

-----------------------------------------------------------------------------

\* Lazy clean-up marks a file deleted only when the SE has it no more, however
\* old the record it went by (download.go:136, :209; the record may come from a cache
\* and from before a deletion and a new registration of the SE).
CleanedIsGone ==
    \A r \in Readers : reader[r].pc = "mark" => reader[r].file \notin ToSet(listing)

\* Once clients and administrators are done, the synchronisation and the
\* clean-up of the Query Module, which both write the status of a record, come
\* to agree with the SE for good.
CleanConverges == <>[](row # None /\ listing # <<>> => FilesAgree)

\* And no instance keeps a record the registry no longer has in this form: a
\* record read before a change may still be put into the cache after it, but
\* not for longer than the TTL (cache.go:56; nothing invalidates it).
CacheDrains ==
    <>[](\A q \in Instances, f \in Files : cache[q][f] \in {registry[f], None})

=============================================================================
