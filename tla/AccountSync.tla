----------------------------- MODULE AccountSync -----------------------------
(***************************************************************************)
(* Service accounts: the table service_accounts of the Admin Module beside *)
(* the clients of Keycloak, the requests that change both, and the two-way *)
(* synchronisation (admin-module/internal: service/sa_sync.go,             *)
(* service/service_accounts.go, repository/service_account.go,             *)
(* keycloak/client.go).                                                    *)
(*                                                                         *)
(* Neither side has transactions with the other.  The synchronisation      *)
(* compares two listings taken one after the other and acts on the copies. *)
(***************************************************************************)
EXTENDS Naturals, FiniteSets

CONSTANTS
    Accounts,    \* client_id's
    Names,       \* names of accounts, unique in the table
    Scopes,      \* sets of scopes an account may be given
    Kids,        \* internal identifiers of Keycloak clients
    Uids,        \* primary keys of rows
    Syncs,       \* goroutines that run SyncNow
    Ticker,      \* the one started by the ticker
    Workers,     \* goroutines that serve requests of administrators
    MaxEvents,   \* bound: requests, changes in Keycloak and errors
    Activities,  \* what the environment does in an instance
    None         \* no row, no client

ASSUME AccountsOK ==
    /\ MaxEvents \in Nat /\ Ticker \in Syncs
    /\ None \notin Accounts \cup Names \cup Scopes \cup Kids \cup Uids
    /\ Accounts # {} /\ Names # {} /\ Scopes # {} /\ Kids # {} /\ Uids # {}

VARIABLES
    db,        \* the table
    kc,        \* the clients of Keycloak
    sync,      \* SyncNow under way
    req,       \* Create, Update or Delete under way
    used,      \* client_id's given out (they end in random digits)
    alone,     \* history: the syncs nobody has come across since they began
    events     \* bound

vars == <<db, kc, sync, req, used, alone, events>>

-----------------------------------------------------------------------------

Row == [uid : Uids, kid : Kids, name : Names, scopes : Scopes,
        status : {"active", "suspended"}]
Client == [kid : Kids, name : Names, scopes : Scopes, enabled : BOOLEAN]
ASSUME NoneOK == None \notin Row \cup Client

Table == [Accounts -> Row \cup {None}]
Clients == [Accounts -> Client \cup {None}]

\* kc and db are the listings; rec is the row about to be written for account.
Syncing == [pc : {"idle", "listed", "work", "write"}, kc : Clients, db : Table,
            todo : SUBSET Accounts, account : Accounts, rec : Row \cup {None}]

\* The step a request takes next, with the row it holds.
Request == [pc : {"idle", "insert", "cleanup", "put", "write", "delete", "remove"},
            account : Accounts, rec : Row \cup {None}]

Nothing == [i \in Accounts |-> None]
Someone == CHOOSE i \in Accounts : TRUE
IdleSync == [pc |-> "idle", kc |-> Nothing, db |-> Nothing, todo |-> {},
             account |-> Someone, rec |-> None]
IdleRequest == [pc |-> "idle", account |-> Someone, rec |-> None]

TypeOK ==
    /\ db \in Table
    /\ kc \in Clients
    /\ sync \in [Syncs -> Syncing]
    /\ req \in [Workers -> Request]
    /\ used \subseteq Accounts
    /\ alone \subseteq Syncs
    /\ events \in Nat

Init ==
    /\ db = Nothing /\ kc = Nothing
    /\ sync = [s \in Syncs |-> IdleSync]
    /\ req = [w \in Workers |-> IdleRequest]
    /\ used = {} /\ alone = {} /\ events = 0

Event(a) == a \in Activities /\ events < MaxEvents /\ events' = events + 1

-----------------------------------------------------------------------------
(* The table and Keycloak.                                                 *)

\* Identifiers are never given out twice; one that nobody remembers may as well
\* be taken again, which keeps them few.
RowsHeld == {t[i] : t \in {db} \cup {sync[s].db : s \in Syncs}, i \in Accounts}
            \cup {sync[s].rec : s \in Syncs} \cup {req[w].rec : w \in Workers}
ClientsHeld == {t[i] : t \in {kc} \cup {sync[s].kc : s \in Syncs}, i \in Accounts}

FreeKids == Kids \ {r.kid : r \in (RowsHeld \cup ClientsHeld) \ {None}}
FreeUids == Uids \ {r.uid : r \in RowsHeld \ {None}}
FreshKid == CHOOSE k \in FreeKids : TRUE
FreshUid == CHOOSE u \in FreeUids : TRUE

NameTaken(t, n, i) == \E j \in Accounts \ {i} : t[j] # None /\ t[j].name = n

\* INSERT, with client_id and name unique; UPDATE and DELETE by primary key.
Insertable(i, r) == db[i] = None /\ ~NameTaken(db, r.name, i)
Insert(i, r) == db' = [db EXCEPT ![i] = r]
HasRow(i, r) == db[i] # None /\ db[i].uid = r.uid
Writable(i, r) == HasRow(i, r) /\ ~NameTaken(db, r.name, i)

\* Mutant of NewClient: the identifier in the answer is not read.
NewClientNoKid(r) == [kid |-> None, name |-> r.name, scopes |-> r.scopes, enabled |-> TRUE]

NewClient(r) == [kid |-> r.kid, name |-> r.name, scopes |-> r.scopes, enabled |-> TRUE]
HasClient(i, k) == kc[i] # None /\ kc[i].kid = k

PutClient(i, c) == kc' = IF HasClient(i, c.kid) THEN [kc EXCEPT ![i] = c] ELSE kc
DropClient(i, k) == kc' = IF HasClient(i, k) THEN [kc EXCEPT ![i] = None] ELSE kc

-----------------------------------------------------------------------------
(* Requests of administrators.                                             *)

Begin(w, p, i, r) == req' = [req EXCEPT ![w] = [pc |-> p, account |-> i, rec |-> r]]
Goto(w, p) == req' = [req EXCEPT ![w].pc = p]
End(w) == req' = [req EXCEPT ![w] = IdleRequest]
At(w, p) == req[w].pc = p

CreateClient(w, i, n, sc) ==
    LET r == [uid |-> FreshUid, kid |-> FreshKid, name |-> n, scopes |-> sc, status |-> "active"]
    IN  /\ At(w, "idle") /\ i \notin used /\ Event("create")
        /\ FreeKids # {} /\ FreeUids # {}
        /\ used' = used \cup {i}
        /\ kc' = [kc EXCEPT ![i] = NewClient(r)]
        /\ Begin(w, "insert", i, r)
        /\ UNCHANGED <<db, sync>>

CreateRow(w) ==
    LET i == req[w].account r == req[w].rec IN
    /\ At(w, "insert")
    /\ \/ Insertable(i, r) /\ Insert(i, r) /\ End(w)
       \/ ~Insertable(i, r) /\ Goto(w, "cleanup") /\ UNCHANGED db
    /\ UNCHANGED <<kc, sync, used, events>>

\* GetClientSecret or the query fails.
CreateFail(w) ==
    /\ At(w, "insert") /\ Event("error") /\ Goto(w, "cleanup")
    /\ UNCHANGED <<db, kc, sync, used>>

CreateCleanup(w) ==
    /\ At(w, "cleanup") /\ End(w)
    /\ DropClient(req[w].account, req[w].rec.kid)
    /\ UNCHANGED <<db, sync, used, events>>

UpdateRead(w, i, n, sc, st) ==
    /\ At(w, "idle") /\ db[i] # None /\ Event("update")
    /\ Begin(w, "put", i, [db[i] EXCEPT !.name = n, !.scopes = sc, !.status = st])
    /\ UNCHANGED <<db, kc, sync, used>>

\* A client that is not there is an error, and errors are logged.
UpdatePut(w) ==
    LET r == req[w].rec IN
    /\ At(w, "put") /\ Goto(w, "write")
    /\ PutClient(req[w].account, [kid |-> r.kid, name |-> r.name, scopes |-> r.scopes,
                                  enabled |-> r.status = "active"])
    /\ UNCHANGED <<db, sync, used, events>>

UpdateWrite(w) ==
    LET i == req[w].account r == req[w].rec IN
    /\ At(w, "write") /\ End(w)
    /\ IF Writable(i, r) THEN Insert(i, r) ELSE UNCHANGED db
    /\ UNCHANGED <<kc, sync, used, events>>

DeleteRead(w, i) ==
    /\ At(w, "idle") /\ db[i] # None /\ Event("delete")
    /\ Begin(w, "delete", i, db[i])
    /\ UNCHANGED <<db, kc, sync, used>>

DeleteClient(w) ==
    /\ At(w, "delete") /\ Goto(w, "remove")
    /\ DropClient(req[w].account, req[w].rec.kid)
    /\ UNCHANGED <<db, sync, used, events>>

DeleteRow(w) ==
    LET i == req[w].account IN
    /\ At(w, "remove") /\ End(w)
    /\ db' = IF HasRow(i, req[w].rec) THEN [db EXCEPT ![i] = None] ELSE db
    /\ UNCHANGED <<kc, sync, used, events>>

\* A call to Keycloak fails in an update, a deletion or a clean-up: it is logged
\* and the request goes on.
CallFail(w) ==
    /\ Event("error")
    /\ \/ At(w, "put") /\ Goto(w, "write")
       \/ At(w, "delete") /\ Goto(w, "remove")
       \/ At(w, "cleanup") /\ End(w)
    /\ UNCHANGED <<db, kc, sync, used>>

\* The process ends, or the client's connection does: the context is cancelled.
Abort(w) ==
    /\ ~At(w, "idle") /\ Event("abort") /\ End(w)
    /\ UNCHANGED <<db, kc, sync, used>>

-----------------------------------------------------------------------------
(* Administrators of Keycloak.                                             *)

KCCreate(i, n, sc, e) ==
    /\ i \notin used /\ Event("keycloak") /\ FreeKids # {}
    /\ used' = used \cup {i}
    /\ kc' = [kc EXCEPT ![i] = [kid |-> FreshKid, name |-> n, scopes |-> sc, enabled |-> e]]
    /\ UNCHANGED <<db, sync, req>>

KCUpdate(i, sc, e) ==
    /\ kc[i] # None /\ Event("keycloak")
    /\ kc' = [kc EXCEPT ![i].scopes = sc, ![i].enabled = e]
    /\ UNCHANGED <<db, sync, req, used>>

KCDelete(i) ==
    /\ kc[i] # None /\ Event("keycloak")
    /\ kc' = [kc EXCEPT ![i] = None]
    /\ UNCHANGED <<db, sync, req, used>>

-----------------------------------------------------------------------------
(* SyncNow.                                                                *)

\* The ticker begins one after the other; POST /idp/sync-sa begins one beside it.
SyncListClients(s) ==
    /\ sync[s].pc = "idle"
    /\ IF s = Ticker THEN UNCHANGED events ELSE Event("trigger")
    /\ sync' = [sync EXCEPT ![s] = [IdleSync EXCEPT !.pc = "listed", !.kc = kc]]
    /\ alone' = {s}
    /\ UNCHANGED <<db, kc, req, used>>

SyncListRows(s) ==
    /\ sync[s].pc = "listed"
    /\ sync' = [sync EXCEPT ![s].pc = "work", ![s].db = db,
            ![s].todo = {i \in Accounts : sync[s].kc[i] # None \/ db[i] # None}]
    /\ UNCHANGED <<db, kc, req, used, events>>

OnlyClient(s, i) == sync[s].kc[i] # None /\ sync[s].db[i] = None
OnlyRow(s, i) == sync[s].kc[i] = None /\ sync[s].db[i] # None

\* The three loops: clients without a row, rows without a client, both.
Rank(s, i) == IF OnlyClient(s, i) THEN 1 ELSE IF OnlyRow(s, i) THEN 2 ELSE 3
Turn(s, i) ==
    /\ sync[s].pc = "work" /\ i \in sync[s].todo
    /\ \A j \in sync[s].todo : Rank(s, i) <= Rank(s, j)

Settle(s, i) == sync' = [sync EXCEPT ![s].pc = "work", ![s].todo = @ \ {i}, ![s].rec = None]
Prepare(s, i, r) == sync' = [sync EXCEPT ![s].pc = "write", ![s].account = i, ![s].rec = r]

\* Mutant of CreateLocal: the identifier of some listed client.
CreateLocalAnyKid(s, i) ==
    LET c == sync[s].kc[i]
        j == CHOOSE a \in Accounts : sync[s].kc[a] # None
        r == [uid |-> FreshUid, kid |-> sync[s].kc[j].kid, name |-> c.name,
              scopes |-> c.scopes, status |-> "active"]
    IN  /\ Turn(s, i) /\ OnlyClient(s, i) /\ Settle(s, i)
        /\ FreeUids # {}
        /\ IF Insertable(i, r) THEN Insert(i, r) ELSE UNCHANGED db
        /\ UNCHANGED <<kc, req, used, events>>

CreateLocal(s, i) ==
    LET c == sync[s].kc[i]
        r == [uid |-> FreshUid, kid |-> c.kid, name |-> c.name, scopes |-> c.scopes,
              status |-> IF c.enabled THEN "active" ELSE "suspended"]
    IN  /\ Turn(s, i) /\ OnlyClient(s, i) /\ Settle(s, i)
        /\ FreeUids # {}
        /\ IF Insertable(i, r) THEN Insert(i, r) ELSE UNCHANGED db
        /\ UNCHANGED <<kc, req, used, events>>

CreateRemote(s, i) ==
    LET r == [sync[s].db[i] EXCEPT !.kid = FreshKid] IN
    /\ Turn(s, i) /\ OnlyRow(s, i) /\ FreeKids # {}
    /\ IF kc[i] = None
       THEN kc' = [kc EXCEPT ![i] = NewClient(r)] /\ Prepare(s, i, r)
       ELSE UNCHANGED kc /\ Settle(s, i)
    /\ UNCHANGED <<db, req, used, events>>

\* Mutant of ReconcileScopes: only the row is written.
ReconcileRowOnly(s, i) ==
    LET c == sync[s].kc[i] r == sync[s].db[i] IN
    /\ Turn(s, i) /\ c # None /\ r # None /\ r.scopes # c.scopes
    /\ Prepare(s, i, [r EXCEPT !.kid = c.kid])
    /\ UNCHANGED <<kc, db, req, used, events>>

\* The table is right about scopes; the rest of the client, "enabled" included,
\* is written back as it was listed.
ReconcileScopes(s, i) ==
    LET c == sync[s].kc[i] r == sync[s].db[i] IN
    /\ Turn(s, i) /\ c # None /\ r # None /\ r.scopes # c.scopes
    /\ PutClient(i, [c EXCEPT !.scopes = r.scopes])
    /\ IF HasClient(i, c.kid) THEN Prepare(s, i, [r EXCEPT !.kid = c.kid]) ELSE Settle(s, i)
    /\ UNCHANGED <<db, req, used, events>>

\* Mutant of MatchKid: equal scopes are enough.
MatchNothing(s, i) ==
    LET c == sync[s].kc[i] r == sync[s].db[i] IN
    /\ Turn(s, i) /\ c # None /\ r # None /\ r.scopes = c.scopes
    /\ Settle(s, i)
    /\ UNCHANGED <<db, kc, req, used, events>>

MatchKid(s, i) ==
    LET c == sync[s].kc[i] r == sync[s].db[i] IN
    /\ Turn(s, i) /\ c # None /\ r # None /\ r.scopes = c.scopes
    /\ IF r.kid # c.kid THEN Prepare(s, i, [r EXCEPT !.kid = c.kid]) ELSE Settle(s, i)
    /\ UNCHANGED <<db, kc, req, used, events>>

\* saRepo.Update: the row as it was listed, with the identifier of the client.
SyncWrite(s) ==
    LET i == sync[s].account r == sync[s].rec IN
    /\ sync[s].pc = "write" /\ Settle(s, i)
    /\ IF Writable(i, r) THEN Insert(i, r) ELSE UNCHANGED db
    /\ UNCHANGED <<kc, req, used, events>>

SyncEnd(s) ==
    /\ sync[s].pc = "work" /\ sync[s].todo = {}
    /\ sync' = [sync EXCEPT ![s] = IdleSync]
    /\ UNCHANGED <<db, kc, req, used, events>>

\* A listing fails or the context is cancelled.
SyncFail(s) ==
    /\ sync[s].pc # "idle" /\ Event("abort")
    /\ sync' = [sync EXCEPT ![s] = IdleSync]
    /\ UNCHANGED <<db, kc, req, used>>

\* A call for one account fails: it is logged and the loop goes on.
SyncSkip(s) ==
    /\ sync[s].pc \in {"work", "write"} /\ Event("error")
    /\ \E i \in sync[s].todo :
          (IF sync[s].pc = "write" THEN i = sync[s].account ELSE Turn(s, i)) /\ Settle(s, i)
    /\ alone' = alone \ {s}
    /\ UNCHANGED <<db, kc, req, used>>

-----------------------------------------------------------------------------

Serve(w) ==
    \/ CreateRow(w) \/ CreateFail(w) \/ CreateCleanup(w)
    \/ UpdatePut(w) \/ UpdateWrite(w)
    \/ DeleteClient(w) \/ DeleteRow(w)
    \/ CallFail(w) \/ Abort(w)

Ask(w) ==
    \E i \in Accounts :
        \/ \E n \in Names, sc \in Scopes : CreateClient(w, i, n, sc)
        \/ \E n \in Names, sc \in Scopes, st \in {"active", "suspended"} :
              UpdateRead(w, i, n, sc, st)
        \/ DeleteRead(w, i)

Keycloak ==
    \E i \in Accounts :
        \/ \E n \in Names, sc \in Scopes, e \in BOOLEAN : KCCreate(i, n, sc, e)
        \/ \E sc \in Scopes, e \in BOOLEAN : KCUpdate(i, sc, e)
        \/ KCDelete(i)

SyncWork(s) ==
    \/ SyncListRows(s) \/ SyncWrite(s) \/ SyncEnd(s) \/ SyncFail(s)
    \/ \E i \in Accounts :
          CreateLocal(s, i) \/ CreateRemote(s, i) \/ ReconcileScopes(s, i) \/ MatchKid(s, i)

SyncStep(s) == (SyncWork(s) /\ alone' = alone \cap {s}) \/ SyncSkip(s)

Next ==
    \/ \E w \in Workers : Serve(w) /\ alone' = {}
    \/ \E w \in Workers : Ask(w) /\ alone' = {}
    \/ Keycloak /\ alone' = {}
    \/ \E s \in Syncs : SyncListClients(s) \/ SyncStep(s)

Fairness ==
    /\ WF_vars(SyncListClients(Ticker))
    /\ \A s \in Syncs : WF_vars(SyncStep(s))
    /\ \A w \in Workers : WF_vars(Serve(w) /\ alone' = {})

Spec == Init /\ [][Next]_vars /\ Fairness

-----------------------------------------------------------------------------

\* Row and client go together, with the same scopes and the right identifier; a
\* client may be without a row only if the name is another account's.
Agree ==
    \A i \in Accounts :
        /\ db[i] # None => kc[i] # None /\ kc[i].kid = db[i].kid /\ kc[i].scopes = db[i].scopes
        /\ kc[i] # None /\ db[i] = None => NameTaken(db, kc[i].name, i)

\* A synchronisation that nobody came across and in which no call failed leaves
\* both sides in agreement (sa_sync.go:127, SyncNow).
SyncAgrees == \A s \in alone : sync[s].pc = "work" /\ sync[s].todo = {} => Agree

\* Once administrators are done, both sides come to agree and stay so, whatever
\* half-finished requests and old listings are still about (sa_sync.go:72).
AccountsConverge == <>[]Agree

\* A row, the copy of a row in a request or a synchronisation, or a listed client
\* never names the client of another account, so that no deletion, clean-up or
\* update by internal identifier hits an account it was not meant for, however
\* old the listing it goes by (service_accounts.go:213, sa_sync.go:317).
OwnClient ==
    \A i, j \in Accounts : kc[i] # None /\ i # j =>
        /\ db[j] # None => db[j].kid # kc[i].kid
        /\ kc[j] # None => kc[j].kid # kc[i].kid
        /\ \A w \in Workers : req[w].rec # None /\ req[w].account = j => req[w].rec.kid # kc[i].kid
        /\ \A s \in Syncs :
              /\ sync[s].kc[j] # None => sync[s].kc[j].kid # kc[i].kid
              /\ sync[s].rec # None /\ sync[s].account = j => sync[s].rec.kid # kc[i].kid

=============================================================================
