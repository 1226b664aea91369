------------------------- MODULE AccountSyncProofs --------------------------
(***************************************************************************)
(* Theorems about AccountSync, for any number of accounts, administrators  *)
(* and synchronisations.  AccountsConverge needs fairness and is model-    *)
(* checked only.                                                           *)
(***************************************************************************)
EXTENDS AccountSync, TLAPS

-----------------------------------------------------------------------------
(* Types.  A request that goes on has a row, and so has a synchronisation  *)
(* that is about to write one.                                             *)

Busy ==
    /\ \A s \in Syncs : sync[s].pc = "write" => sync[s].rec # None
    /\ \A w \in Workers : req[w].pc # "idle" => req[w].rec # None

TypeInv == TypeOK /\ Busy

SyncOK ==
    /\ sync \in [Syncs -> Syncing]
    /\ \A s \in Syncs : sync[s].pc = "write" => sync[s].rec # None

ReqOK ==
    /\ req \in [Workers -> Request]
    /\ \A w \in Workers : req[w].pc # "idle" => req[w].rec # None

LEMMA Parts ==
    ASSUME TypeInv
    PROVE  /\ SyncOK /\ ReqOK /\ db \in Table /\ kc \in Clients
           /\ used \subseteq Accounts /\ alone \subseteq Syncs /\ events \in Nat
BY DEF TypeInv, TypeOK, Busy, SyncOK, ReqOK

LEMMA Whole ==
    ASSUME SyncOK', ReqOK', db' \in Table, kc' \in Clients,
           used' \subseteq Accounts, alone' \subseteq Syncs, events' \in Nat
    PROVE  TypeInv'
BY DEF TypeInv, TypeOK, Busy, SyncOK, ReqOK

LEMMA Cells ==
    ASSUME TypeInv, NEW i \in Accounts
    PROVE  /\ db[i] # None => db[i] \in Row
           /\ kc[i] # None => kc[i] \in Client
           /\ \A s \in Syncs :
                 /\ sync[s] \in Syncing
                 /\ sync[s].kc \in Clients /\ sync[s].db \in Table
                 /\ sync[s].todo \subseteq Accounts /\ sync[s].account \in Accounts
                 /\ sync[s].rec # None => sync[s].rec \in Row
                 /\ sync[s].kc[i] # None => sync[s].kc[i] \in Client
                 /\ sync[s].db[i] # None => sync[s].db[i] \in Row
           /\ \A w \in Workers :
                 /\ req[w] \in Request /\ req[w].account \in Accounts
                 /\ req[w].rec # None => req[w].rec \in Row
<1>1. db \in Table /\ kc \in Clients /\ sync \in [Syncs -> Syncing] /\ req \in [Workers -> Request]
  BY DEF TypeInv, TypeOK
<1>2. \A s \in Syncs : sync[s] \in Syncing
  BY <1>1
<1>3. \A w \in Workers : req[w] \in Request
  BY <1>1
<1> QED
  BY <1>1, <1>2, <1>3 DEF Table, Clients, Syncing, Request

LEMMA Carried ==
    ASSUME TypeInv
    PROVE  /\ \A s \in Syncs : /\ sync[s].account \in Accounts
                               /\ sync[s].pc = "write" => sync[s].rec \in Row
           /\ \A w \in Workers : /\ req[w].account \in Accounts
                                 /\ req[w].pc # "idle" => req[w].rec \in Row
BY Parts DEF SyncOK, ReqOK, Syncing, Request

LEMMA IdleTypes == IdleSync \in Syncing /\ IdleRequest \in Request /\ Nothing \in Table /\ Nothing \in Clients
<1>1. Someone \in Accounts
  BY AccountsOK DEF Someone
<1>2. Nothing \in Table /\ Nothing \in Clients
  BY DEF Nothing, Table, Clients
<1> QED
  BY <1>1, <1>2 DEF IdleSync, IdleRequest, Syncing, Request

LEMMA FreshIds ==
    /\ FreeKids # {} => FreshKid \in FreeKids /\ FreshKid \in Kids
    /\ FreeUids # {} => FreshUid \in Uids
BY DEF FreshKid, FreshUid, FreeKids, FreeUids

\* The helpers of synchronisations and requests keep the types.
LEMMA SettleTypes ==
    ASSUME SyncOK, NEW s \in Syncs, NEW i, Settle(s, i)
    PROVE  SyncOK'
<1>1. sync[s] \in Syncing
  BY DEF SyncOK
<1>2. sync' = [sync EXCEPT ![s] = [sync[s] EXCEPT !.pc = "work", !.todo = sync[s].todo \ {i}, !.rec = None]]
  BY <1>1 DEF Settle, SyncOK
<1>3. [sync[s] EXCEPT !.pc = "work", !.todo = sync[s].todo \ {i}, !.rec = None] \in Syncing
  BY <1>1 DEF Syncing
<1> QED
  BY <1>1, <1>2, <1>3 DEF SyncOK, Syncing

LEMMA PrepareTypes ==
    ASSUME SyncOK, NEW s \in Syncs, NEW i \in Accounts, NEW r \in Row, Prepare(s, i, r)
    PROVE  SyncOK'
<1>1. sync[s] \in Syncing
  BY DEF SyncOK
<1>2. sync' = [sync EXCEPT ![s] = [sync[s] EXCEPT !.pc = "write", !.account = i, !.rec = r]]
  BY <1>1 DEF Prepare, SyncOK
<1>3. [sync[s] EXCEPT !.pc = "write", !.account = i, !.rec = r] \in Syncing
  BY <1>1 DEF Syncing
<1> QED
  BY <1>1, <1>2, <1>3, NoneOK DEF SyncOK, Syncing

LEMMA BeginTypes ==
    ASSUME ReqOK, NEW w \in Workers, NEW i \in Accounts, NEW r \in Row,
           NEW p \in {"insert", "cleanup", "put", "write", "delete", "remove"}, Begin(w, p, i, r)
    PROVE  ReqOK'
<1>1. [pc |-> p, account |-> i, rec |-> r] \in Request
  BY DEF Request
<1> QED
  BY <1>1, NoneOK DEF Begin, ReqOK, Request

LEMMA GotoTypes ==
    ASSUME ReqOK, NEW w \in Workers, req[w].pc # "idle",
           NEW p \in {"insert", "cleanup", "put", "write", "delete", "remove"}, Goto(w, p)
    PROVE  ReqOK'
<1>1. req[w] \in Request /\ req[w].rec # None
  BY DEF ReqOK
<1>2. req' = [req EXCEPT ![w] = [req[w] EXCEPT !.pc = p]]
  BY <1>1 DEF Goto, ReqOK
<1>3. [req[w] EXCEPT !.pc = p] \in Request
  BY <1>1 DEF Request
<1> QED
  BY <1>1, <1>2, <1>3 DEF ReqOK, Request

LEMMA EndTypes ==
    ASSUME ReqOK, NEW w \in Workers, End(w)
    PROVE  ReqOK'
BY IdleTypes DEF ReqOK, End, IdleRequest

LEMMA TableTypes ==
    ASSUME db \in Table, NEW i \in Accounts, NEW r \in Row
    PROVE  Insert(i, r) => db' \in Table
BY DEF Insert, Table

LEMMA ClientTypes ==
    ASSUME kc \in Clients, NEW i \in Accounts
    PROVE  /\ \A c \in Client : PutClient(i, c) => kc' \in Clients
           /\ \A k : DropClient(i, k) => kc' \in Clients
           /\ \A r \in Row : NewClient(r) \in Client
           /\ \A c \in Client : [kc EXCEPT ![i] = c] \in Clients
BY DEF PutClient, DropClient, Clients, NewClient, Row, Client

-----------------------------------------------------------------------------
(* Every step keeps them.                                                  *)

\* What a step of the environment counts.
LEMMA EventTypes ==
    ASSUME events \in Nat, NEW a, Event(a)
    PROVE  events' \in Nat
BY DEF Event

LEMMA AskTypes ==
    ASSUME TypeInv, NEW w \in Workers, Ask(w), alone' = {}
    PROVE  TypeInv'
<1>1. ASSUME NEW i \in Accounts, NEW n \in Names, NEW sc \in Scopes, CreateClient(w, i, n, sc)
      PROVE  TypeInv'
  <2> DEFINE r == [uid |-> FreshUid, kid |-> FreshKid, name |-> n, scopes |-> sc, status |-> "active"]
  <2>1. r \in Row
    BY <1>1, FreshIds DEF CreateClient, Row
  <2> HIDE DEF r
  <2>2. Begin(w, "insert", i, r) /\ kc' = [kc EXCEPT ![i] = NewClient(r)]
        /\ used' = used \cup {i} /\ Event("create") /\ UNCHANGED <<db, sync>>
    BY <1>1 DEF CreateClient, r
  <2>3. ReqOK'
    BY <2>1, <2>2, BeginTypes, Parts
  <2>4. kc' \in Clients
    BY <2>1, <2>2, ClientTypes, Parts
  <2> QED
    BY <2>2, <2>3, <2>4, Parts, EventTypes, Whole DEF SyncOK
<1>2. ASSUME NEW i \in Accounts, NEW n \in Names, NEW sc \in Scopes,
             NEW st \in {"active", "suspended"}, UpdateRead(w, i, n, sc, st)
      PROVE  TypeInv'
  <2> DEFINE r == [db[i] EXCEPT !.name = n, !.scopes = sc, !.status = st]
  <2>1. r \in Row
    BY <1>2, Cells DEF UpdateRead, Row
  <2> HIDE DEF r
  <2>2. Begin(w, "put", i, r) /\ Event("update") /\ UNCHANGED <<db, kc, sync, used>>
    BY <1>2 DEF UpdateRead, r
  <2> QED
    BY <2>1, <2>2, BeginTypes, Parts, EventTypes, Whole DEF SyncOK
<1>3. ASSUME NEW i \in Accounts, DeleteRead(w, i)
      PROVE  TypeInv'
  <2>1. db[i] \in Row
    BY <1>3, Cells DEF DeleteRead
  <2>2. Begin(w, "delete", i, db[i]) /\ Event("delete") /\ UNCHANGED <<db, kc, sync, used>>
    BY <1>3 DEF DeleteRead
  <2> QED
    BY <2>1, <2>2, BeginTypes, Parts, EventTypes, Whole DEF SyncOK
<1> QED
  BY <1>1, <1>2, <1>3 DEF Ask

LEMMA ServeTypes ==
    ASSUME TypeInv, NEW w \in Workers, Serve(w), alone' = {}
    PROVE  TypeInv'
<1> DEFINE i == req[w].account
           r == req[w].rec
<1>1. i \in Accounts /\ (req[w].pc # "idle" => r \in Row)
  BY Carried
<1> HIDE DEF i, r
<1>2. CASE CreateRow(w)
  <2>1. \/ Insertable(i, r) /\ Insert(i, r) /\ End(w)
        \/ Goto(w, "cleanup") /\ UNCHANGED db
    BY <1>2 DEF CreateRow, i, r
  <2>2. req[w].pc = "insert" /\ UNCHANGED <<kc, sync, used, events>>
    BY <1>2 DEF CreateRow, At
  <2> QED
    BY <1>1, <2>1, <2>2, TableTypes, EndTypes, GotoTypes, Parts, Whole DEF SyncOK
<1>3. CASE CreateFail(w)
  BY <1>3, GotoTypes, EventTypes, Parts, Whole DEF CreateFail, At, SyncOK
<1>4. CASE CreateCleanup(w)
  <2>1. DropClient(i, r.kid) /\ End(w) /\ UNCHANGED <<db, sync, used, events>>
    BY <1>4 DEF CreateCleanup, i, r
  <2> QED
    BY <1>1, <2>1, ClientTypes, EndTypes, Parts, Whole DEF SyncOK
<1>5. CASE UpdatePut(w)
  <2> DEFINE c == [kid |-> r.kid, name |-> r.name, scopes |-> r.scopes,
                   enabled |-> r.status = "active"]
  <2>1. c \in Client
    BY <1>1, <1>5 DEF UpdatePut, At, Row, Client
  <2>2. PutClient(i, c) /\ Goto(w, "write") /\ req[w].pc = "put" /\ UNCHANGED <<db, sync, used, events>>
    BY <1>5 DEF UpdatePut, At, i, r
  <2> HIDE DEF c
  <2> QED
    BY <1>1, <2>1, <2>2, ClientTypes, GotoTypes, Parts, Whole DEF SyncOK
<1>6. CASE UpdateWrite(w)
  <2>1. (Insert(i, r) \/ UNCHANGED db) /\ End(w) /\ UNCHANGED <<kc, sync, used, events>>
    BY <1>6 DEF UpdateWrite, i, r
  <2>2. r \in Row
    BY <1>1, <1>6 DEF UpdateWrite, At
  <2> QED
    BY <1>1, <2>1, <2>2, TableTypes, EndTypes, Parts, Whole DEF SyncOK
<1>7. CASE DeleteClient(w)
  <2>1. DropClient(i, r.kid) /\ Goto(w, "remove") /\ req[w].pc = "delete" /\ UNCHANGED <<db, sync, used, events>>
    BY <1>7 DEF DeleteClient, At, i, r
  <2> QED
    BY <1>1, <2>1, ClientTypes, GotoTypes, Parts, Whole DEF SyncOK
<1>8. CASE DeleteRow(w)
  <2>1. db' \in Table
    BY <1>8, Parts DEF DeleteRow, Table
  <2> QED
    BY <1>8, <2>1, EndTypes, Parts, Whole DEF DeleteRow, SyncOK
<1>9. CASE CallFail(w)
  BY <1>9, GotoTypes, EndTypes, EventTypes, Parts, Whole DEF CallFail, At, SyncOK
<1>10. CASE Abort(w)
  BY <1>10, EndTypes, EventTypes, Parts, Whole DEF Abort, SyncOK
<1> QED
  BY <1>2, <1>3, <1>4, <1>5, <1>6, <1>7, <1>8, <1>9, <1>10 DEF Serve

LEMMA KeycloakTypes ==
    ASSUME TypeInv, Keycloak, alone' = {}
    PROVE  TypeInv'
<1>1. ASSUME NEW i \in Accounts, NEW n \in Names, NEW sc \in Scopes, NEW e \in BOOLEAN,
             KCCreate(i, n, sc, e)
      PROVE  TypeInv'
  <2>1. kc' \in Clients
    BY <1>1, FreshIds, Parts DEF KCCreate, Clients, Client
  <2> QED
    BY <1>1, <2>1, EventTypes, Parts, Whole DEF KCCreate, SyncOK, ReqOK
<1>2. ASSUME NEW i \in Accounts, NEW sc \in Scopes, NEW e \in BOOLEAN, KCUpdate(i, sc, e)
      PROVE  TypeInv'
  <2>1. kc' = [kc EXCEPT ![i] = [kc[i] EXCEPT !.scopes = sc, !.enabled = e]]
    BY <1>2, Parts DEF KCUpdate, Clients
  <2>2. [kc[i] EXCEPT !.scopes = sc, !.enabled = e] \in Client
    BY <1>2, Cells DEF KCUpdate, Client
  <2> QED
    BY ZenonT(60), <1>2, <2>1, <2>2, ClientTypes, EventTypes, Parts, Whole DEF KCUpdate, SyncOK, ReqOK
<1>3. ASSUME NEW i \in Accounts, KCDelete(i)
      PROVE  TypeInv'
  <2>1. kc' \in Clients
    BY <1>3, Parts DEF KCDelete, Clients
  <2> QED
    BY <1>3, <2>1, EventTypes, Parts, Whole DEF KCDelete, SyncOK, ReqOK
<1> QED
  BY <1>1, <1>2, <1>3 DEF Keycloak

LEMMA SyncTypes ==
    ASSUME TypeInv, NEW s \in Syncs, SyncListClients(s) \/ SyncStep(s)
    PROVE  TypeInv'
<1>c. sync[s] \in Syncing /\ sync \in [Syncs -> Syncing]
  BY Parts DEF SyncOK
<1>a. alone' \subseteq Syncs
  BY Parts DEF SyncStep, SyncSkip, SyncListClients
<1>1. CASE SyncListClients(s)
  <2>1. [IdleSync EXCEPT !.pc = "listed", !.kc = kc] \in Syncing
    BY IdleTypes, Parts DEF Syncing
  <2>2. sync' = [sync EXCEPT ![s] = [IdleSync EXCEPT !.pc = "listed", !.kc = kc]]
        /\ UNCHANGED <<db, kc, req, used>> /\ (UNCHANGED events \/ Event("trigger"))
    BY <1>1 DEF SyncListClients
  <2>3. [IdleSync EXCEPT !.pc = "listed", !.kc = kc].pc = "listed"
    BY DEF IdleSync
  <2>4. SyncOK'
    BY <2>1, <2>2, <2>3, <1>c, Parts DEF SyncOK
  <2> QED
    BY <1>a, <2>2, <2>4, EventTypes, Parts, Whole DEF ReqOK
<1>2. CASE SyncListRows(s)
  <2> DEFINE x == [sync[s] EXCEPT !.pc = "work", !.db = db,
            !.todo = {i \in Accounts : sync[s].kc[i] # None \/ db[i] # None}]
  <2>1. x \in Syncing /\ x.pc = "work"
    BY <1>c, Parts DEF Syncing
  <2>2. sync' = [sync EXCEPT ![s] = x]
    BY <1>2, <1>c DEF SyncListRows
  <2> HIDE DEF x
  <2>3. SyncOK'
    BY <2>1, <2>2, <1>c, Parts DEF SyncOK
  <2> QED
    BY <1>a, <1>2, <2>3, Parts, Whole DEF SyncListRows, ReqOK
<1>3. CASE SyncWrite(s)
  <2>1. sync[s].account \in Accounts /\ sync[s].rec \in Row
    BY <1>3, Carried DEF SyncWrite
  <2>2. Settle(s, sync[s].account) /\ (Insert(sync[s].account, sync[s].rec) \/ UNCHANGED db)
        /\ UNCHANGED <<kc, req, used, events>>
    BY <1>3 DEF SyncWrite
  <2> QED
    BY <1>a, <2>1, <2>2, SettleTypes, TableTypes, Parts, Whole DEF ReqOK
<1>4. CASE SyncEnd(s) \/ SyncFail(s)
  <2>1. sync' = [sync EXCEPT ![s] = IdleSync] /\ UNCHANGED <<db, kc, req, used>>
        /\ (UNCHANGED events \/ Event("abort"))
    BY <1>4 DEF SyncEnd, SyncFail
  <2>2. SyncOK'
    BY <2>1, <1>c, IdleTypes, Parts DEF SyncOK, IdleSync
  <2> QED
    BY <1>a, <2>1, <2>2, EventTypes, Parts, Whole DEF ReqOK
<1>5. ASSUME NEW i \in Accounts, CreateLocal(s, i)
      PROVE  TypeInv'
  <2> DEFINE c == sync[s].kc[i]
             r == [uid |-> FreshUid, kid |-> c.kid, name |-> c.name, scopes |-> c.scopes,
                   status |-> IF c.enabled THEN "active" ELSE "suspended"]
  <2>1. c \in Client
    BY <1>5, Cells DEF CreateLocal, OnlyClient
  <2>2. r \in Row
    BY <1>5, <2>1, FreshIds DEF CreateLocal, Row, Client
  <2>3. Settle(s, i) /\ (Insert(i, r) \/ UNCHANGED db) /\ UNCHANGED <<kc, req, used, events>>
    BY <1>5 DEF CreateLocal
  <2> HIDE DEF c, r
  <2> QED
    BY <1>a, <2>2, <2>3, SettleTypes, TableTypes, Parts, Whole DEF ReqOK
<1>6. ASSUME NEW i \in Accounts, CreateRemote(s, i)
      PROVE  TypeInv'
  <2> DEFINE r == [sync[s].db[i] EXCEPT !.kid = FreshKid]
  <2>1. r \in Row
    BY <1>6, Cells, FreshIds DEF CreateRemote, OnlyRow, Row
  <2>2. /\ \/ kc' = [kc EXCEPT ![i] = NewClient(r)] /\ Prepare(s, i, r)
           \/ UNCHANGED kc /\ Settle(s, i)
        /\ UNCHANGED <<db, req, used, events>>
    BY <1>6 DEF CreateRemote
  <2> HIDE DEF r
  <2> QED
    BY <1>a, <2>1, <2>2, SettleTypes, PrepareTypes, ClientTypes, Parts, Whole DEF ReqOK
<1>7. ASSUME NEW i \in Accounts, ReconcileScopes(s, i)
      PROVE  TypeInv'
  <2> DEFINE c == sync[s].kc[i]
             r == sync[s].db[i]
  <2>1. c \in Client /\ r \in Row
    BY <1>7, Cells DEF ReconcileScopes
  <2>2. [c EXCEPT !.scopes = r.scopes] \in Client /\ [r EXCEPT !.kid = c.kid] \in Row
    BY <2>1 DEF Client, Row
  <2>3. /\ PutClient(i, [c EXCEPT !.scopes = r.scopes])
        /\ Prepare(s, i, [r EXCEPT !.kid = c.kid]) \/ Settle(s, i)
        /\ UNCHANGED <<db, req, used, events>>
    BY <1>7 DEF ReconcileScopes
  <2> HIDE DEF c, r
  <2> QED
    BY <1>a, <2>2, <2>3, SettleTypes, PrepareTypes, ClientTypes, Parts, Whole DEF ReqOK
<1>8. ASSUME NEW i \in Accounts, MatchKid(s, i)
      PROVE  TypeInv'
  <2> DEFINE c == sync[s].kc[i]
             r == sync[s].db[i]
  <2>1. c \in Client /\ r \in Row
    BY <1>8, Cells DEF MatchKid
  <2>2. [r EXCEPT !.kid = c.kid] \in Row
    BY <2>1 DEF Client, Row
  <2>3. /\ Prepare(s, i, [r EXCEPT !.kid = c.kid]) \/ Settle(s, i)
        /\ UNCHANGED <<db, kc, req, used, events>>
    BY <1>8 DEF MatchKid
  <2> HIDE DEF c, r
  <2> QED
    BY <1>a, <2>2, <2>3, SettleTypes, PrepareTypes, Parts, Whole DEF ReqOK
<1>9. CASE SyncSkip(s)
  <2>1. PICK i : Settle(s, i)
    BY <1>9 DEF SyncSkip
  <2> QED
    BY <1>a, <1>9, <2>1, SettleTypes, EventTypes, Parts, Whole DEF SyncSkip, ReqOK
<1> QED
  BY <1>1, <1>2, <1>3, <1>4, <1>5, <1>6, <1>7, <1>8, <1>9 DEF SyncStep, SyncWork

LEMMA TypeStep ==
    ASSUME TypeInv, [Next]_vars
    PROVE  TypeInv'
<1>1. CASE UNCHANGED vars
  BY <1>1, Parts, Whole DEF vars, SyncOK, ReqOK
<1> QED
  BY <1>1, AskTypes, ServeTypes, KeycloakTypes, SyncTypes DEF Next

LEMMA TypeInit == Init => TypeInv
<1> SUFFICES ASSUME Init PROVE TypeInv
  OBVIOUS
<1>1. /\ db = Nothing /\ kc = Nothing /\ sync = [s \in Syncs |-> IdleSync]
      /\ req = [w \in Workers |-> IdleRequest] /\ used = {} /\ alone = {} /\ events = 0
  BY DEF Init
<1>2. IdleSync.pc = "idle" /\ IdleRequest.pc = "idle"
  BY DEF IdleSync, IdleRequest
<1> QED
  BY <1>1, <1>2, IdleTypes DEF TypeInv, TypeOK, Busy

\* Type correctness: the state keeps its types, and a request or a
\* synchronisation that is to write a row has one.
THEOREM TypeCorrect == Spec => []TypeOK
<1>1. Spec => []TypeInv
  BY TypeInit, TypeStep, PTL DEF Spec
<1>2. TypeInv => TypeOK
  BY DEF TypeInv
<1> QED
  BY <1>1, <1>2, PTL

-----------------------------------------------------------------------------
(* Identifiers of clients.  Everything that can reach Keycloak, listings   *)
(* and copies included, remembers whose client an identifier is, and a new *)
(* identifier is one that nobody remembers.                                *)

HeldDb(k, i) == db[i] # None /\ db[i].kid = k
HeldKc(k, i) == kc[i] # None /\ kc[i].kid = k
HeldSync(s, k, i) ==
    \/ sync[s].kc[i] # None /\ sync[s].kc[i].kid = k
    \/ sync[s].db[i] # None /\ sync[s].db[i].kid = k
    \/ sync[s].account = i /\ sync[s].rec # None /\ sync[s].rec.kid = k
HeldReq(w, k, i) == req[w].account = i /\ req[w].rec # None /\ req[w].rec.kid = k

Held(k, i) ==
    \/ HeldDb(k, i) \/ HeldKc(k, i)
    \/ \E s \in Syncs : HeldSync(s, k, i)
    \/ \E w \in Workers : HeldReq(w, k, i)

Owned == \A k \in Kids, i \in Accounts, j \in Accounts : Held(k, i) /\ Held(k, j) => i = j

KeepsHeld == \A k \in Kids, i \in Accounts : Held(k, i)' => Held(k, i)

LEMMA KeepsOwned ==
    ASSUME Owned, KeepsHeld
    PROVE  Owned'
<1>1. ASSUME NEW k \in Kids, NEW i \in Accounts, NEW j \in Accounts, Held(k, i)', Held(k, j)'
      PROVE  i = j
  <2>1. Held(k, i) /\ Held(k, j)
    BY <1>1 DEF KeepsHeld
  <2> QED
    BY <2>1 DEF Owned
<1> QED
  BY <1>1 DEF Owned

LEMMA GrowsOwned ==
    ASSUME Owned, NEW k0 \in Kids, NEW i0 \in Accounts,
           \A i \in Accounts : ~Held(k0, i),
           \A k \in Kids, i \in Accounts : Held(k, i)' => Held(k, i) \/ (k = k0 /\ i = i0)
    PROVE  Owned'
<1>1. ASSUME NEW k \in Kids, NEW i \in Accounts, NEW j \in Accounts, Held(k, i)', Held(k, j)'
      PROVE  i = j
  <2>1. CASE k = k0
    BY <1>1, <2>1
  <2>2. CASE k # k0
    <3>1. Held(k, i) /\ Held(k, j)
      BY <1>1, <2>2
    <3> QED
      BY <3>1 DEF Owned
  <2> QED
    BY <2>1, <2>2
<1> QED
  BY <1>1 DEF Owned

\* A fresh identifier is nobody's.
LEMMA FreshIsFree ==
    ASSUME TypeInv, FreeKids # {}, NEW i \in Accounts
    PROVE  ~Held(FreshKid, i)
<1>1. \A r \in (RowsHeld \cup ClientsHeld) \ {None} : r.kid # FreshKid
  BY FreshIds DEF FreeKids
<1>2. db[i] \in RowsHeld /\ kc[i] \in ClientsHeld
  BY DEF RowsHeld, ClientsHeld
<1>3. \A s \in Syncs : sync[s].db[i] \in RowsHeld /\ sync[s].rec \in RowsHeld
                        /\ sync[s].kc[i] \in ClientsHeld
  BY DEF RowsHeld, ClientsHeld
<1>4. \A w \in Workers : req[w].rec \in RowsHeld
  BY DEF RowsHeld
<1> QED
  BY <1>1, <1>2, <1>3, <1>4 DEF Held, HeldDb, HeldKc, HeldSync, HeldReq

\* What the helpers let hold an identifier.
LEMMA SettleHeld ==
    ASSUME SyncOK, NEW s \in Syncs, NEW i, Settle(s, i), NEW t \in Syncs, NEW k, NEW j
    PROVE  HeldSync(t, k, j)' => HeldSync(t, k, j)
<1>1. sync[s] \in Syncing
  BY DEF SyncOK
<1>2. sync' = [sync EXCEPT ![s] = [sync[s] EXCEPT !.pc = "work", !.todo = sync[s].todo \ {i}, !.rec = None]]
  BY <1>1 DEF Settle, SyncOK
<1>3. /\ sync'[t].kc = sync[t].kc /\ sync'[t].db = sync[t].db
      /\ sync'[t].account = sync[t].account
      /\ sync'[t].rec = None \/ sync'[t].rec = sync[t].rec
  BY <1>1, <1>2 DEF SyncOK, Syncing
<1> QED
  BY <1>3 DEF HeldSync

LEMMA PrepareHeld ==
    ASSUME SyncOK, NEW s \in Syncs, NEW i, NEW r, Prepare(s, i, r), NEW t \in Syncs, NEW k, NEW j
    PROVE  HeldSync(t, k, j)' => HeldSync(t, k, j) \/ (j = i /\ k = r.kid)
<1>1. sync[s] \in Syncing
  BY DEF SyncOK
<1>2. sync' = [sync EXCEPT ![s] = [sync[s] EXCEPT !.pc = "write", !.account = i, !.rec = r]]
  BY <1>1 DEF Prepare, SyncOK
<1>3. /\ sync'[t].kc = sync[t].kc /\ sync'[t].db = sync[t].db
      /\ \/ sync'[t].account = sync[t].account /\ sync'[t].rec = sync[t].rec
         \/ sync'[t].account = i /\ sync'[t].rec = r
  BY <1>1, <1>2 DEF SyncOK, Syncing
<1> QED
  BY <1>3 DEF HeldSync

LEMMA BeginHeld ==
    ASSUME ReqOK, NEW w \in Workers, NEW p, NEW i, NEW r, Begin(w, p, i, r), NEW v \in Workers, NEW k, NEW j
    PROVE  HeldReq(v, k, j)' => HeldReq(v, k, j) \/ (j = i /\ k = r.kid)
<1>1. req' = [req EXCEPT ![w] = [pc |-> p, account |-> i, rec |-> r]]
  BY DEF Begin
<1>2. req'[v] = req[v] \/ req'[v] = [pc |-> p, account |-> i, rec |-> r]
  BY <1>1 DEF ReqOK
<1> QED
  BY <1>2 DEF HeldReq

LEMMA GotoHeld ==
    ASSUME ReqOK, NEW w \in Workers, NEW p, Goto(w, p) \/ End(w), NEW v \in Workers, NEW k, NEW j
    PROVE  HeldReq(v, k, j)' => HeldReq(v, k, j)
<1>1. CASE Goto(w, p)
  <2>1. req[w] \in Request /\ req' = [req EXCEPT ![w] = [req[w] EXCEPT !.pc = p]]
    BY <1>1 DEF Goto, ReqOK
  <2>2. req'[v].account = req[v].account /\ req'[v].rec = req[v].rec
    BY <2>1 DEF ReqOK, Request
  <2> QED
    BY <2>2 DEF HeldReq
<1>2. CASE End(w)
  <2>1. req'[v] = req[v] \/ req'[v].rec = None
    BY <1>2 DEF End, ReqOK, IdleRequest
  <2> QED
    BY <2>1 DEF HeldReq
<1> QED
  BY <1>1, <1>2

LEMMA InsertHeld ==
    ASSUME db \in Table, NEW i \in Accounts, NEW r, Insert(i, r), NEW k, NEW j \in Accounts
    PROVE  HeldDb(k, j)' => HeldDb(k, j) \/ (j = i /\ k = r.kid)
<1>1. db'[j] = db[j] \/ (j = i /\ db'[j] = r)
  BY DEF Insert, Table
<1> QED
  BY <1>1 DEF HeldDb

LEMMA PutHeld ==
    ASSUME kc \in Clients, NEW i \in Accounts, NEW c, NEW h, PutClient(i, c) \/ DropClient(i, h),
           NEW k, NEW j \in Accounts
    PROVE  HeldKc(k, j)' => HeldKc(k, j)
<1>1. \/ kc'[j] = kc[j] \/ kc'[j] = None
      \/ kc[j] # None /\ kc'[j] = c /\ kc[j].kid = c.kid
  BY DEF PutClient, DropClient, HasClient, Clients
<1> QED
  BY <1>1 DEF HeldKc

LEMMA AskOwned ==
    ASSUME TypeInv, Owned, NEW w \in Workers, Ask(w)
    PROVE  Owned'
<1> USE DEF Held
<1>1. ASSUME NEW i \in Accounts, NEW n \in Names, NEW sc \in Scopes, CreateClient(w, i, n, sc)
      PROVE  Owned'
  <2> DEFINE r == [uid |-> FreshUid, kid |-> FreshKid, name |-> n, scopes |-> sc, status |-> "active"]
  <2>1. Begin(w, "insert", i, r) /\ kc' = [kc EXCEPT ![i] = NewClient(r)] /\ UNCHANGED <<db, sync>>
        /\ FreeKids # {}
    BY <1>1 DEF CreateClient
  <2>2. r.kid = FreshKid /\ NewClient(r).kid = FreshKid
    BY DEF NewClient
  <2> HIDE DEF r
  <2>3. \A k \in Kids, j \in Accounts : HeldKc(k, j)' => HeldKc(k, j) \/ (j = i /\ k = FreshKid)
    BY <2>1, <2>2, Parts DEF HeldKc, Clients
  <2>4. \A v \in Workers, k \in Kids, j \in Accounts : HeldReq(v, k, j)' => HeldReq(v, k, j) \/ (j = i /\ k = FreshKid)
    BY <2>1, <2>2, BeginHeld, Parts
  <2>5. \A k \in Kids, j \in Accounts : Held(k, j)' => Held(k, j) \/ (k = FreshKid /\ j = i)
    BY <2>1, <2>3, <2>4 DEF HeldDb, HeldSync
  <2>6. FreshKid \in Kids /\ \A j \in Accounts : ~Held(FreshKid, j)
    BY <2>1, FreshIds, FreshIsFree
  <2> HIDE DEF Held
  <2> QED
    BY <2>5, <2>6, GrowsOwned
<1>2. ASSUME NEW i \in Accounts, NEW n \in Names, NEW sc \in Scopes,
             NEW st \in {"active", "suspended"}, UpdateRead(w, i, n, sc, st)
      PROVE  Owned'
  <2> DEFINE r == [db[i] EXCEPT !.name = n, !.scopes = sc, !.status = st]
  <2>1. db[i] # None /\ r.kid = db[i].kid
    BY <1>2, Cells DEF UpdateRead, Row
  <2> HIDE DEF r
  <2>2. Begin(w, "put", i, r) /\ UNCHANGED <<db, kc, sync>>
    BY <1>2 DEF UpdateRead, r
  <2>3. \A v \in Workers, k \in Kids, j \in Accounts : HeldReq(v, k, j)' => HeldReq(v, k, j) \/ HeldDb(k, j)
    BY <2>1, <2>2, BeginHeld, Parts DEF HeldDb
  <2>4. KeepsHeld
    BY <2>2, <2>3 DEF HeldDb, HeldSync, HeldKc, KeepsHeld
  <2> QED
    BY <2>4, KeepsOwned
<1>3. ASSUME NEW i \in Accounts, DeleteRead(w, i)
      PROVE  Owned'
  <2>1. db[i] # None /\ Begin(w, "delete", i, db[i]) /\ UNCHANGED <<db, kc, sync>>
    BY <1>3 DEF DeleteRead
  <2>2. \A v \in Workers, k \in Kids, j \in Accounts : HeldReq(v, k, j)' => HeldReq(v, k, j) \/ HeldDb(k, j)
    BY <2>1, BeginHeld, Parts DEF HeldDb
  <2>3. KeepsHeld
    BY <2>1, <2>2 DEF HeldDb, HeldSync, HeldKc, KeepsHeld
  <2> QED
    BY <2>3, KeepsOwned
<1> QED
  BY <1>1, <1>2, <1>3 DEF Ask

LEMMA ServeOwned ==
    ASSUME TypeInv, Owned, NEW w \in Workers, Serve(w)
    PROVE  Owned'
<1> DEFINE i == req[w].account
           r == req[w].rec
<1>1. i \in Accounts /\ (req[w].pc # "idle" => r # None)
  BY Carried, Parts DEF ReqOK
<1>2. \A k : r # None /\ k = r.kid => HeldReq(w, k, i)
  BY DEF HeldReq
<1> HIDE DEF i, r
<1>s. UNCHANGED sync
  BY DEF Serve, CreateRow, CreateFail, CreateCleanup, UpdatePut, UpdateWrite, DeleteClient,
         DeleteRow, CallFail, Abort
<1>3. \A v \in Workers, k \in Kids, j \in Accounts : HeldReq(v, k, j)' => HeldReq(v, k, j)
  <2>1. End(w) \/ (\E p \in {"cleanup", "write", "remove"} : Goto(w, p))
    BY DEF Serve, CreateRow, CreateFail, CreateCleanup, UpdatePut, UpdateWrite, DeleteClient,
           DeleteRow, CallFail, Abort
  <2> QED
    BY <2>1, GotoHeld, Parts
<1>4. \A k \in Kids, j \in Accounts : HeldKc(k, j)' => HeldKc(k, j)
  <2>1. UNCHANGED kc \/ (\E c, h : PutClient(i, c) \/ DropClient(i, h))
    BY DEF Serve, CreateRow, CreateFail, CreateCleanup, UpdatePut, UpdateWrite, DeleteClient,
           DeleteRow, CallFail, Abort, i
  <2> QED
    BY <1>1, <2>1, PutHeld, Parts DEF HeldKc
<1>5. \A k \in Kids, j \in Accounts : HeldDb(k, j)' => HeldDb(k, j) \/ HeldReq(w, k, j)
  <2>1. \/ UNCHANGED db
        \/ req[w].pc # "idle" /\ Insert(i, r)
        \/ db' = [db EXCEPT ![i] = None]
    BY DEF Serve, CreateRow, CreateFail, CreateCleanup, UpdatePut, UpdateWrite, DeleteClient,
           DeleteRow, CallFail, Abort, At, i, r
  <2>2. CASE UNCHANGED db
    BY <2>2 DEF HeldDb
  <2>3. CASE req[w].pc # "idle" /\ Insert(i, r)
    BY <1>1, <1>2, <2>3, InsertHeld, Parts
  <2>4. CASE db' = [db EXCEPT ![i] = None]
    BY <1>1, <2>4, Parts DEF HeldDb, Table
  <2> QED
    BY <2>1, <2>2, <2>3, <2>4
<1>6. KeepsHeld
  BY <1>s, <1>3, <1>4, <1>5 DEF Held, HeldSync, KeepsHeld
<1> QED
  BY <1>6, KeepsOwned

LEMMA KeycloakOwned ==
    ASSUME TypeInv, Owned, Keycloak
    PROVE  Owned'
<1>u. UNCHANGED <<db, sync, req>>
  BY DEF Keycloak, KCCreate, KCUpdate, KCDelete
<1>1. ASSUME NEW i \in Accounts, NEW n \in Names, NEW sc \in Scopes, NEW e \in BOOLEAN,
             KCCreate(i, n, sc, e)
      PROVE  Owned'
  <2>1. FreeKids # {} /\ kc' = [kc EXCEPT ![i] = [kid |-> FreshKid, name |-> n, scopes |-> sc, enabled |-> e]]
    BY <1>1 DEF KCCreate
  <2>2. \A k \in Kids, j \in Accounts : HeldKc(k, j)' => HeldKc(k, j) \/ (j = i /\ k = FreshKid)
    BY <2>1, Parts DEF HeldKc, Clients
  <2>3. \A k \in Kids, j \in Accounts : Held(k, j)' => Held(k, j) \/ (k = FreshKid /\ j = i)
    BY <1>u, <2>2 DEF Held, HeldDb, HeldSync, HeldReq
  <2> QED
    BY <2>1, <2>3, FreshIds, FreshIsFree, GrowsOwned
<1>2. ASSUME NEW i \in Accounts, NEW sc \in Scopes, NEW e \in BOOLEAN, KCUpdate(i, sc, e)
      PROVE  Owned'
  <2>1. kc' = [kc EXCEPT ![i] = [kc[i] EXCEPT !.scopes = sc, !.enabled = e]] /\ kc[i] # None
    BY <1>2, Parts DEF KCUpdate, Clients
  <2>2. [kc[i] EXCEPT !.scopes = sc, !.enabled = e].kid = kc[i].kid
    BY <2>1, Cells DEF Client
  <2>3. \A k \in Kids, j \in Accounts : HeldKc(k, j)' => HeldKc(k, j)
    BY <2>1, <2>2, Parts DEF HeldKc, Clients
  <2>4. KeepsHeld
    BY <1>u, <2>3 DEF KeepsHeld, Held, HeldDb, HeldSync, HeldReq
  <2> QED
    BY <2>4, KeepsOwned
<1>3. ASSUME NEW i \in Accounts, KCDelete(i)
      PROVE  Owned'
  <2>1. \A k \in Kids, j \in Accounts : HeldKc(k, j)' => HeldKc(k, j)
    BY <1>3, Parts DEF KCDelete, HeldKc, Clients
  <2>2. KeepsHeld
    BY <1>u, <2>1 DEF KeepsHeld, Held, HeldDb, HeldSync, HeldReq
  <2> QED
    BY <2>2, KeepsOwned
<1> QED
  BY <1>1, <1>2, <1>3 DEF Keycloak

LEMMA SyncOwned ==
    ASSUME TypeInv, Owned, NEW s \in Syncs, SyncListClients(s) \/ SyncStep(s)
    PROVE  Owned'
<1>u. UNCHANGED req
  BY DEF SyncListClients, SyncStep, SyncWork, SyncSkip, SyncListRows, SyncWrite, SyncEnd, SyncFail,
         CreateLocal, CreateRemote, ReconcileScopes, MatchKid
<1>c. sync[s] \in Syncing /\ sync \in [Syncs -> Syncing]
  BY Parts DEF SyncOK
<1>1. CASE SyncListClients(s)
  <2>1. sync' = [sync EXCEPT ![s] = [IdleSync EXCEPT !.pc = "listed", !.kc = kc]]
        /\ UNCHANGED <<db, kc>>
    BY <1>1 DEF SyncListClients
  <2>2. \A t \in Syncs, k \in Kids, j \in Accounts : HeldSync(t, k, j)' => HeldSync(t, k, j) \/ HeldKc(k, j)
    BY <2>1, <1>c DEF HeldSync, HeldKc, IdleSync, Nothing
  <2>3. KeepsHeld
    BY <1>u, <2>1, <2>2 DEF KeepsHeld, Held, HeldDb, HeldKc, HeldReq
  <2> QED
    BY <2>3, KeepsOwned
<1>2. CASE SyncListRows(s)
  <2> DEFINE x == [sync[s] EXCEPT !.pc = "work", !.db = db,
            !.todo = {i \in Accounts : sync[s].kc[i] # None \/ db[i] # None}]
  <2>1. sync' = [sync EXCEPT ![s] = x] /\ UNCHANGED <<db, kc>>
    BY <1>2, <1>c DEF SyncListRows
  <2>2. x.kc = sync[s].kc /\ x.db = db /\ x.account = sync[s].account /\ x.rec = sync[s].rec
    BY <1>c DEF Syncing
  <2> HIDE DEF x
  <2>3. \A t \in Syncs, k \in Kids, j \in Accounts : HeldSync(t, k, j)' => HeldSync(t, k, j) \/ HeldDb(k, j)
    BY <2>1, <2>2, <1>c DEF HeldSync, HeldDb
  <2>4. KeepsHeld
    BY <1>u, <2>1, <2>3 DEF KeepsHeld, Held, HeldDb, HeldKc, HeldReq
  <2> QED
    BY <2>4, KeepsOwned
<1>3. CASE SyncWrite(s)
  <2> DEFINE i == sync[s].account
             r == sync[s].rec
  <2>1. Settle(s, i) /\ (Insert(i, r) \/ UNCHANGED db) /\ UNCHANGED kc /\ i \in Accounts /\ r # None
    BY <1>3, Carried, Parts DEF SyncWrite, SyncOK
  <2>2. HeldSync(s, r.kid, i)
    BY <2>1 DEF HeldSync
  <2> HIDE DEF i, r
  <2>3. \A k \in Kids, j \in Accounts : HeldDb(k, j)' => HeldDb(k, j) \/ HeldSync(s, k, j)
    BY <2>1, <2>2, InsertHeld, Parts DEF HeldDb
  <2>4. KeepsHeld
    BY <1>u, <2>1, <2>3, SettleHeld, Parts DEF KeepsHeld, Held, HeldKc, HeldReq
  <2> QED
    BY <2>4, KeepsOwned
<1>4. CASE SyncEnd(s) \/ SyncFail(s)
  <2>1. sync' = [sync EXCEPT ![s] = IdleSync] /\ UNCHANGED <<db, kc>>
    BY <1>4 DEF SyncEnd, SyncFail
  <2>2. \A t \in Syncs, k \in Kids, j \in Accounts : HeldSync(t, k, j)' => HeldSync(t, k, j)
    BY <2>1, <1>c DEF HeldSync, IdleSync, Nothing
  <2>3. KeepsHeld
    BY <1>u, <2>1, <2>2 DEF KeepsHeld, Held, HeldDb, HeldKc, HeldReq
  <2> QED
    BY <2>3, KeepsOwned
<1>5. ASSUME NEW i \in Accounts, CreateLocal(s, i)
      PROVE  Owned'
  <2> DEFINE c == sync[s].kc[i]
             r == [uid |-> FreshUid, kid |-> c.kid, name |-> c.name, scopes |-> c.scopes,
                   status |-> IF c.enabled THEN "active" ELSE "suspended"]
  <2>1. Settle(s, i) /\ (Insert(i, r) \/ UNCHANGED db) /\ UNCHANGED kc
    BY <1>5 DEF CreateLocal
  <2>2. HeldSync(s, r.kid, i)
    BY <1>5 DEF CreateLocal, OnlyClient, HeldSync
  <2> HIDE DEF c, r
  <2>3. \A k \in Kids, j \in Accounts : HeldDb(k, j)' => HeldDb(k, j) \/ HeldSync(s, k, j)
    BY <2>1, <2>2, InsertHeld, Parts DEF HeldDb
  <2>4. KeepsHeld
    BY <1>u, <2>1, <2>3, SettleHeld, Parts DEF KeepsHeld, Held, HeldKc, HeldReq
  <2> QED
    BY <2>4, KeepsOwned
<1>6. ASSUME NEW i \in Accounts, CreateRemote(s, i)
      PROVE  Owned'
  <2> DEFINE r == [sync[s].db[i] EXCEPT !.kid = FreshKid]
  <2>1. r.kid = FreshKid /\ NewClient(r).kid = FreshKid /\ FreeKids # {}
    BY <1>6, Cells DEF CreateRemote, OnlyRow, Row, NewClient
  <2>2. /\ \/ kc' = [kc EXCEPT ![i] = NewClient(r)] /\ Prepare(s, i, r)
           \/ UNCHANGED kc /\ Settle(s, i)
        /\ UNCHANGED db
    BY <1>6 DEF CreateRemote
  <2> HIDE DEF r
  <2>3. \A k \in Kids, j \in Accounts : HeldKc(k, j)' => HeldKc(k, j) \/ (j = i /\ k = FreshKid)
    BY <2>1, <2>2, Parts DEF HeldKc, Clients
  <2>4. \A t \in Syncs, k \in Kids, j \in Accounts :
           HeldSync(t, k, j)' => HeldSync(t, k, j) \/ (j = i /\ k = FreshKid)
    BY <2>1, <2>2, PrepareHeld, SettleHeld, Parts
  <2>5. \A k \in Kids, j \in Accounts : Held(k, j)' => Held(k, j) \/ (k = FreshKid /\ j = i)
    BY <1>u, <2>2, <2>3, <2>4 DEF Held, HeldDb, HeldReq
  <2> QED
    BY <2>1, <2>5, FreshIds, FreshIsFree, GrowsOwned
<1>7. ASSUME NEW i \in Accounts, ReconcileScopes(s, i) \/ MatchKid(s, i)
      PROVE  Owned'
  <2> DEFINE c == sync[s].kc[i]
             r == [sync[s].db[i] EXCEPT !.kid = c.kid]
  <2>1. c \in Client /\ r.kid = c.kid /\ c # None
    BY <1>7, Cells DEF ReconcileScopes, MatchKid, Row
  <2>2. /\ UNCHANGED kc \/ PutClient(i, [c EXCEPT !.scopes = sync[s].db[i].scopes])
        /\ Prepare(s, i, r) \/ Settle(s, i)
        /\ UNCHANGED db
    BY <1>7 DEF ReconcileScopes, MatchKid
  <2>3. HeldSync(s, r.kid, i)
    BY <2>1 DEF HeldSync
  <2> HIDE DEF c, r
  <2>4. \A k \in Kids, j \in Accounts : HeldKc(k, j)' => HeldKc(k, j)
    BY <2>2, PutHeld, Parts DEF HeldKc
  <2>5. \A t \in Syncs, k \in Kids, j \in Accounts :
           HeldSync(t, k, j)' => HeldSync(t, k, j) \/ HeldSync(s, k, j)
    BY <2>2, <2>3, PrepareHeld, SettleHeld, Parts
  <2>6. KeepsHeld
    BY <1>u, <2>2, <2>4, <2>5 DEF KeepsHeld, Held, HeldDb, HeldReq
  <2> QED
    BY <2>6, KeepsOwned
<1>8. CASE SyncSkip(s)
  <2>1. PICK i : Settle(s, i)
    BY <1>8 DEF SyncSkip
  <2>2. UNCHANGED <<db, kc>>
    BY <1>8 DEF SyncSkip
  <2>3. KeepsHeld
    BY <1>u, <2>1, <2>2, SettleHeld, Parts DEF KeepsHeld, Held, HeldDb, HeldKc, HeldReq
  <2> QED
    BY <2>3, KeepsOwned
<1> QED
  BY <1>1, <1>2, <1>3, <1>4, <1>5, <1>6, <1>7, <1>8 DEF SyncStep, SyncWork

LEMMA OwnedStep ==
    ASSUME TypeInv, Owned, [Next]_vars
    PROVE  Owned'
<1>1. CASE UNCHANGED vars
  <2>1. KeepsHeld
    BY <1>1 DEF vars, KeepsHeld, Held, HeldDb, HeldKc, HeldSync, HeldReq
  <2> QED
    BY <2>1, KeepsOwned
<1> QED
  BY <1>1, AskOwned, ServeOwned, KeycloakOwned, SyncOwned DEF Next

LEMMA OwnedInit == Init => Owned
<1> SUFFICES ASSUME Init PROVE Owned
  OBVIOUS
<1>1. /\ db = Nothing /\ kc = Nothing /\ sync = [s \in Syncs |-> IdleSync]
      /\ req = [w \in Workers |-> IdleRequest]
  BY DEF Init
<1> QED
  BY <1>1 DEF Owned, Held, HeldDb, HeldKc, HeldSync, HeldReq, IdleSync, IdleRequest, Nothing

\* No row, copy or listing names the client of another account, however old it
\* is: a deletion or an update by internal identifier hits the account it was
\* meant for or nothing (service_accounts.go:213, sa_sync.go:317).
THEOREM NobodyElsesClient == Spec => []OwnClient
<1>1. Spec => [](TypeInv /\ Owned)
  BY TypeInit, TypeStep, OwnedInit, OwnedStep, PTL DEF Spec
<1>2. TypeInv /\ Owned => OwnClient
  <2> SUFFICES ASSUME TypeInv, Owned, NEW i \in Accounts, NEW j \in Accounts,
                      kc[i] # None, i # j
               PROVE  /\ db[j] # None => db[j].kid # kc[i].kid
                      /\ kc[j] # None => kc[j].kid # kc[i].kid
                      /\ \A w \in Workers : req[w].rec # None /\ req[w].account = j
                                              => req[w].rec.kid # kc[i].kid
                      /\ \A s \in Syncs :
                            /\ sync[s].kc[j] # None => sync[s].kc[j].kid # kc[i].kid
                            /\ sync[s].rec # None /\ sync[s].account = j
                                 => sync[s].rec.kid # kc[i].kid
    BY DEF OwnClient
  <2>1. kc[i].kid \in Kids /\ Held(kc[i].kid, i)
    BY Cells DEF Client, Held, HeldKc
  <2>2. ~Held(kc[i].kid, j)
    BY <2>1 DEF Owned
  <2> QED
    BY <2>2 DEF Held, HeldDb, HeldKc, HeldReq, HeldSync
<1> QED
  BY <1>1, <1>2, PTL

-----------------------------------------------------------------------------
(* A synchronisation nobody comes across.  What is left to do is as it was *)
(* listed, what is done agrees, and the account that is being written      *)
(* lacks only the row the synchronisation holds.                           *)

NamesUnique ==
    \A i \in Accounts, j \in Accounts :
        i # j /\ db[i] # None /\ db[j] # None => db[i].name # db[j].name

AgreeAt(i) ==
    /\ db[i] # None => kc[i] # None /\ kc[i].kid = db[i].kid /\ kc[i].scopes = db[i].scopes
    /\ kc[i] # None /\ db[i] = None => NameTaken(db, kc[i].name, i)

AsListed(s, i) == db[i] = sync[s].db[i] /\ kc[i] = sync[s].kc[i]

\* r is the row of i but for the identifier, which is that of its client.
Matches(i, r) ==
    /\ db[i] # None /\ db[i].uid = r.uid /\ db[i].name = r.name
    /\ kc[i] # None /\ kc[i].kid = r.kid /\ kc[i].scopes = r.scopes

Done(s) == \A i \in Accounts \ sync[s].todo : AgreeAt(i)

OnCourse(s) ==
    /\ sync[s].pc = "listed" => sync[s].kc = kc
    /\ sync[s].pc = "work" => Done(s) /\ \A i \in sync[s].todo : AsListed(s, i)
    /\ sync[s].pc = "write" =>
          /\ Done(s)
          /\ sync[s].account \in sync[s].todo
          /\ Matches(sync[s].account, sync[s].rec)
          /\ \A i \in sync[s].todo \ {sync[s].account} : AsListed(s, i)

AloneInv == NamesUnique /\ \A s \in alone : OnCourse(s)

\* Names stay unique, for the table does not take one twice.
LEMMA InsertUnique ==
    ASSUME db \in Table, NamesUnique, NEW i \in Accounts, NEW r,
           Insert(i, r), ~NameTaken(db, r.name, i)
    PROVE  NamesUnique'
<1>1. \A j \in Accounts : db'[j] = IF j = i THEN r ELSE db[j]
  BY DEF Insert, Table
<1> QED
  BY <1>1 DEF NamesUnique, NameTaken

LEMMA UniqueStep ==
    ASSUME TypeInv, NamesUnique, [Next]_vars
    PROVE  NamesUnique'
<1>1. CASE UNCHANGED db
  BY <1>1 DEF NamesUnique
<1>2. ASSUME NEW i \in Accounts, db' = [db EXCEPT ![i] = None]
      PROVE  NamesUnique'
  <2>1. \A j \in Accounts : db'[j] = db[j] \/ db'[j] = None
    BY <1>2, Parts DEF Table
  <2> QED
    BY <2>1 DEF NamesUnique
<1>3. ASSUME NEW w \in Workers, Serve(w)
      PROVE  NamesUnique'
  <2> DEFINE i == req[w].account
             r == req[w].rec
  <2>1. i \in Accounts
    BY Carried
  <2>2. \/ UNCHANGED db
        \/ Insert(i, r) /\ ~NameTaken(db, r.name, i)
        \/ db' = [db EXCEPT ![i] = None]
    BY <1>3 DEF Serve, CreateRow, CreateFail, CreateCleanup, UpdatePut, UpdateWrite, DeleteClient,
           DeleteRow, CallFail, Abort, Insertable, Writable
  <2> HIDE DEF i, r
  <2> QED
    BY <1>1, <1>2, <2>1, <2>2, InsertUnique, Parts
<1>4. ASSUME NEW s \in Syncs, SyncWrite(s)
      PROVE  NamesUnique'
  <2> DEFINE i == sync[s].account
             r == sync[s].rec
  <2>1. i \in Accounts
    BY Carried
  <2>2. UNCHANGED db \/ (Insert(i, r) /\ ~NameTaken(db, r.name, i))
    BY <1>4 DEF SyncWrite, Writable
  <2> HIDE DEF i, r
  <2> QED
    BY <1>1, <2>1, <2>2, InsertUnique, Parts
<1>5. ASSUME NEW s \in Syncs, NEW i \in Accounts, CreateLocal(s, i)
      PROVE  NamesUnique'
  <2>1. PICK r : UNCHANGED db \/ (Insert(i, r) /\ ~NameTaken(db, r.name, i))
    BY <1>5 DEF CreateLocal, Insertable
  <2> QED
    BY <1>1, <2>1, InsertUnique, Parts
<1>6. ASSUME NEW s \in Syncs, SyncListClients(s) \/ SyncStep(s), ~SyncWrite(s),
             \A i \in Accounts : ~CreateLocal(s, i)
      PROVE  NamesUnique'
  <2>1. UNCHANGED db
    BY <1>6 DEF SyncStep, SyncWork, SyncSkip, SyncListClients, SyncListRows, SyncEnd, SyncFail,
                CreateRemote, ReconcileScopes, MatchKid
  <2> QED
    BY <1>1, <2>1
<1>7. ASSUME NEW w \in Workers, Ask(w)
      PROVE  UNCHANGED db
  BY <1>7 DEF Ask, CreateClient, UpdateRead, DeleteRead
<1>8. Keycloak => UNCHANGED db
  BY DEF Keycloak, KCCreate, KCUpdate, KCDelete
<1> QED
  BY <1>1, <1>3, <1>4, <1>5, <1>6, <1>7, <1>8 DEF Next, vars


\* A new row neither brings another account out of agreement nor frees a name.
LEMMA InsertAgrees ==
    ASSUME db \in Table, NEW i \in Accounts, NEW r \in Row, Insert(i, r), UNCHANGED kc,
           db[i] = None \/ db[i].name = r.name,
           NEW j \in Accounts, j # i
    PROVE  /\ AgreeAt(j) => AgreeAt(j)'
           /\ db'[j] = db[j] /\ db'[i] = r
<1>1. \A k \in Accounts : db'[k] = IF k = i THEN r ELSE db[k]
  BY DEF Insert, Table
<1>2. ASSUME NEW n, NameTaken(db, n, j)
      PROVE  NameTaken(db', n, j)
  BY <1>1, <1>2, NoneOK DEF NameTaken
<1> QED
  BY <1>1, <1>2 DEF AgreeAt

\* The record a helper leaves.
LEMMA Settled ==
    ASSUME SyncOK, NEW s \in Syncs, NEW i, Settle(s, i)
    PROVE  /\ sync'[s].pc = "work" /\ sync'[s].todo = sync[s].todo \ {i}
           /\ sync'[s].db = sync[s].db /\ sync'[s].kc = sync[s].kc
<1>1. sync[s] \in Syncing
  BY DEF SyncOK
<1>2. sync' = [sync EXCEPT ![s] = [sync[s] EXCEPT !.pc = "work", !.todo = sync[s].todo \ {i}, !.rec = None]]
  BY <1>1 DEF Settle, SyncOK
<1> QED
  BY <1>1, <1>2 DEF SyncOK, Syncing

LEMMA Prepared ==
    ASSUME SyncOK, NEW s \in Syncs, NEW i, NEW r, Prepare(s, i, r)
    PROVE  /\ sync'[s].pc = "write" /\ sync'[s].account = i /\ sync'[s].rec = r
           /\ sync'[s].todo = sync[s].todo
           /\ sync'[s].db = sync[s].db /\ sync'[s].kc = sync[s].kc
<1>1. sync[s] \in Syncing
  BY DEF SyncOK
<1>2. sync' = [sync EXCEPT ![s] = [sync[s] EXCEPT !.pc = "write", !.account = i, !.rec = r]]
  BY <1>1 DEF Prepare, SyncOK
<1> QED
  BY <1>1, <1>2 DEF SyncOK, Syncing

\* The steps of a synchronisation that is on course keep it there.
LEMMA ListedCourse ==
    ASSUME TypeInv, NEW s \in Syncs, OnCourse(s) \/ SyncListClients(s),
           SyncListClients(s) \/ SyncListRows(s) \/ SyncEnd(s) \/ SyncFail(s)
    PROVE  OnCourse(s)'
<1>c. sync[s] \in Syncing /\ sync \in [Syncs -> Syncing]
  BY Parts DEF SyncOK
<1>1. CASE SyncListClients(s)
  <2>1. sync'[s].pc = "listed" /\ sync'[s].kc = kc /\ kc' = kc
    BY <1>1, <1>c DEF SyncListClients, IdleSync
  <2> QED
    BY <2>1 DEF OnCourse
<1>2. CASE SyncListRows(s) /\ OnCourse(s)
  <2>1. /\ sync'[s].pc = "work" /\ sync'[s].kc = sync[s].kc /\ sync'[s].db = db
        /\ sync'[s].todo = {i \in Accounts : sync[s].kc[i] # None \/ db[i] # None}
        /\ sync[s].pc = "listed" /\ UNCHANGED <<db, kc>>
    BY <1>2, <1>c DEF SyncListRows, Syncing
  <2>2. sync[s].kc = kc
    BY <1>2, <2>1 DEF OnCourse
  <2> QED
    BY <2>1, <2>2 DEF OnCourse, Done, AgreeAt, AsListed
<1>3. CASE SyncEnd(s) \/ SyncFail(s)
  <2>1. sync'[s].pc = "idle"
    BY <1>3, <1>c DEF SyncEnd, SyncFail, IdleSync
  <2> QED
    BY <2>1 DEF OnCourse
<1> QED
  BY <1>1, <1>2, <1>3 DEF SyncListRows

LEMMA LocalCourse ==
    ASSUME TypeInv, NamesUnique, NEW s \in Syncs, OnCourse(s), NEW i \in Accounts, CreateLocal(s, i)
    PROVE  OnCourse(s)'
<1> DEFINE c == sync[s].kc[i]
           r == [uid |-> FreshUid, kid |-> c.kid, name |-> c.name, scopes |-> c.scopes,
                 status |-> IF c.enabled THEN "active" ELSE "suspended"]
<1>1. /\ sync[s].pc = "work" /\ i \in sync[s].todo /\ sync[s].todo \subseteq Accounts
      /\ Settle(s, i) /\ UNCHANGED kc
      /\ c # None /\ sync[s].db[i] = None
      /\ IF Insertable(i, r) THEN Insert(i, r) ELSE UNCHANGED db
  BY Cells DEF CreateLocal, Turn, OnlyClient
<1>2. c \in Client /\ r \in Row
  BY <1>1, Cells, FreshIds DEF CreateLocal, Row, Client
<1>3. kc[i] = c /\ db[i] = None /\ r.kid = c.kid /\ r.scopes = c.scopes /\ r.name = c.name
  BY <1>1 DEF OnCourse, AsListed
<1>4. Done(s) /\ \A j \in sync[s].todo : AsListed(s, j)
  BY <1>1 DEF OnCourse
<1> HIDE DEF c, r
<1>5. AgreeAt(i)'
  <2>1. CASE Insertable(i, r)
    <3>1. db'[i] = r /\ kc'[i] = c /\ r # None
      BY <1>1, <1>2, <1>3, <2>1, NoneOK, Parts DEF Insert, Table
    <3> QED
      BY <1>1, <1>3, <3>1 DEF AgreeAt
  <2>2. CASE ~Insertable(i, r)
    <3>1. NameTaken(db, c.name, i) /\ UNCHANGED <<db, kc>>
      BY <1>1, <1>3, <2>2 DEF Insertable
    <3> QED
      BY <1>3, <3>1 DEF AgreeAt
  <2> QED
    BY <2>1, <2>2
<1>6. ASSUME NEW j \in Accounts, j # i
      PROVE  (AgreeAt(j) => AgreeAt(j)') /\ db'[j] = db[j] /\ kc'[j] = kc[j]
  <2>1. CASE UNCHANGED db
    BY <1>1, <2>1 DEF AgreeAt
  <2>2. CASE Insert(i, r)
    BY <1>1, <1>2, <1>3, <1>6, <2>2, InsertAgrees, Parts
  <2> QED
    BY <1>1, <2>1, <2>2
<1>7. /\ sync'[s].pc = "work" /\ sync'[s].todo = sync[s].todo \ {i}
      /\ sync'[s].db = sync[s].db /\ sync'[s].kc = sync[s].kc
  BY <1>1, Settled, Parts
<1>8. Done(s)'
  BY <1>4, <1>5, <1>6, <1>7 DEF Done
<1>9. \A j \in sync'[s].todo : AsListed(s, j)'
  BY <1>1, <1>4, <1>6, <1>7 DEF AsListed
<1> QED
  BY <1>7, <1>8, <1>9 DEF OnCourse

LEMMA RemoteCourse ==
    ASSUME TypeInv, NamesUnique, NEW s \in Syncs, OnCourse(s), NEW i \in Accounts,
           CreateRemote(s, i) \/ ReconcileScopes(s, i) \/ MatchKid(s, i)
    PROVE  OnCourse(s)'
<1>1. /\ sync[s].pc = "work" /\ i \in sync[s].todo /\ sync[s].todo \subseteq Accounts /\ UNCHANGED db
  BY Cells DEF CreateRemote, ReconcileScopes, MatchKid, Turn
<1>2. Done(s) /\ (\A j \in sync[s].todo : AsListed(s, j))
      /\ kc[i] = sync[s].kc[i] /\ db[i] = sync[s].db[i]
  BY <1>1 DEF OnCourse, AsListed
\* Either the account is done or it waits for its row to be written.
<1>3. \/ Settle(s, i) /\ AgreeAt(i)' /\ (\A j \in Accounts \ {i} : kc'[j] = kc[j])
      \/ \E r \in Row : /\ Prepare(s, i, r) /\ Matches(i, r)'
                        /\ \A j \in Accounts \ {i} : kc'[j] = kc[j]
  <2>1. CASE CreateRemote(s, i)
    <3> DEFINE r == [sync[s].db[i] EXCEPT !.kid = FreshKid]
    <3>1. kc[i] = None /\ db[i] # None /\ FreeKids # {}
      BY <1>2, <2>1 DEF CreateRemote, OnlyRow
    <3>2. r \in Row /\ r.uid = db[i].uid /\ r.name = db[i].name
      BY <1>2, <3>1, Cells, FreshIds DEF Row
    <3>3. Prepare(s, i, r) /\ kc' = [kc EXCEPT ![i] = NewClient(r)]
      BY <2>1, <3>1 DEF CreateRemote
    <3> HIDE DEF r
    <3>4. NewClient(r) # None /\ NewClient(r).kid = r.kid /\ NewClient(r).scopes = r.scopes
      BY <3>2, ClientTypes, Parts, NoneOK DEF NewClient
    <3>5. kc'[i] = NewClient(r) /\ \A j \in Accounts \ {i} : kc'[j] = kc[j]
      BY <3>3, Parts DEF Clients
    <3> QED
      BY <1>1, <3>1, <3>2, <3>3, <3>4, <3>5 DEF Matches
  <2>2. CASE ReconcileScopes(s, i)
    <3> DEFINE r == [db[i] EXCEPT !.kid = kc[i].kid]
               c == [kc[i] EXCEPT !.scopes = db[i].scopes]
    <3>1. kc[i] # None /\ db[i] # None /\ kc[i] \in Client /\ db[i] \in Row
      BY <1>2, <2>2, Cells DEF ReconcileScopes
    <3>2. r \in Row /\ r.uid = db[i].uid /\ r.name = db[i].name /\ r.kid = kc[i].kid
          /\ r.scopes = db[i].scopes
      BY <3>1 DEF Row, Client
    <3>3. c \in Client /\ c # None /\ c.kid = kc[i].kid /\ c.scopes = db[i].scopes
      BY <3>1, NoneOK DEF Client, Row
    <3>4. HasClient(i, kc[i].kid)
      BY <3>1 DEF HasClient
    <3>5. Prepare(s, i, r) /\ PutClient(i, c)
      BY <1>2, <2>2, <3>4 DEF ReconcileScopes
    <3> HIDE DEF r, c
    <3>6. kc'[i] = c /\ \A j \in Accounts \ {i} : kc'[j] = kc[j]
      BY <3>3, <3>4, <3>5, Parts DEF PutClient, Clients
    <3> QED
      BY <1>1, <3>1, <3>2, <3>3, <3>5, <3>6 DEF Matches
  <2>3. CASE MatchKid(s, i)
    <3> DEFINE r == [db[i] EXCEPT !.kid = kc[i].kid]
    <3>1. kc[i] # None /\ db[i] # None /\ kc[i] \in Client /\ db[i] \in Row
          /\ db[i].scopes = kc[i].scopes /\ UNCHANGED kc
      BY <1>2, <2>3, Cells DEF MatchKid
    <3>2. r \in Row /\ r.uid = db[i].uid /\ r.name = db[i].name /\ r.kid = kc[i].kid
          /\ r.scopes = db[i].scopes
      BY <3>1 DEF Row, Client
    <3>3. IF db[i].kid # kc[i].kid THEN Prepare(s, i, r) ELSE Settle(s, i)
      BY <1>2, <2>3 DEF MatchKid
    <3> HIDE DEF r
    <3>4. CASE db[i].kid # kc[i].kid
      BY <1>1, <3>1, <3>2, <3>3, <3>4 DEF Matches
    <3>5. CASE db[i].kid = kc[i].kid
      BY <1>1, <3>1, <3>3, <3>5 DEF AgreeAt
    <3> QED
      BY <3>4, <3>5
  <2> QED
    BY <2>1, <2>2, <2>3
<1>4. \A j \in Accounts \ {i} : kc'[j] = kc[j]
  BY <1>3
<1>5. ASSUME NEW j \in Accounts, j # i
      PROVE  AgreeAt(j) => AgreeAt(j)'
  BY <1>1, <1>4, <1>5 DEF AgreeAt
<1>6. CASE Settle(s, i) /\ AgreeAt(i)'
  <2>1. /\ sync'[s].pc = "work" /\ sync'[s].todo = sync[s].todo \ {i}
        /\ sync'[s].db = sync[s].db /\ sync'[s].kc = sync[s].kc
    BY <1>6, Settled, Parts
  <2>2. Done(s)'
    BY <1>2, <1>5, <1>6, <2>1 DEF Done
  <2>3. \A j \in sync'[s].todo : AsListed(s, j)'
    BY <1>1, <1>2, <1>4, <2>1 DEF AsListed
  <2> QED
    BY <2>1, <2>2, <2>3 DEF OnCourse
<1>7. ASSUME NEW r \in Row, Prepare(s, i, r), Matches(i, r)'
      PROVE  OnCourse(s)'
  <2>1. /\ sync'[s].pc = "write" /\ sync'[s].account = i /\ sync'[s].rec = r
        /\ sync'[s].todo = sync[s].todo
        /\ sync'[s].db = sync[s].db /\ sync'[s].kc = sync[s].kc
    BY <1>7, Prepared, Parts
  <2>2. Done(s)'
    BY <1>1, <1>2, <1>5, <2>1 DEF Done
  <2>3. \A j \in sync'[s].todo \ {i} : AsListed(s, j)'
    BY <1>1, <1>2, <1>4, <2>1 DEF AsListed
  <2>4. Matches(sync[s].account, sync[s].rec)'
    BY <1>7, <2>1 DEF Matches
  <2> QED
    BY <1>1, <2>1, <2>2, <2>3, <2>4 DEF OnCourse
<1> QED
  BY <1>3, <1>6, <1>7

LEMMA WriteCourse ==
    ASSUME TypeInv, NamesUnique, NEW s \in Syncs, OnCourse(s), SyncWrite(s)
    PROVE  OnCourse(s)'
<1>0. PICK i \in Accounts, r \in Row : i = sync[s].account /\ r = sync[s].rec
  BY Carried DEF SyncWrite
<1>1. /\ Settle(s, i) /\ UNCHANGED kc
      /\ IF Writable(i, r) THEN Insert(i, r) ELSE UNCHANGED db
      /\ sync[s].pc = "write" /\ i \in Accounts /\ r \in Row
  BY <1>0 DEF SyncWrite
<1>2. /\ Done(s) /\ i \in sync[s].todo /\ Matches(i, r)
      /\ \A j \in sync[s].todo \ {i} : AsListed(s, j)
  BY <1>0, <1>1 DEF OnCourse
<1>3. sync[s].todo \subseteq Accounts
  BY Cells, <1>1
<1>4. Writable(i, r) /\ db[i].name = r.name
  <2>1. db[i] # None /\ db[i].uid = r.uid /\ db[i].name = r.name
    BY <1>2 DEF Matches
  <2>2. ~NameTaken(db, r.name, i)
    BY <1>1, <2>1 DEF NameTaken, NamesUnique
  <2> QED
    BY <2>1, <2>2 DEF Writable, HasRow
<1>5. Insert(i, r)
  BY <1>1, <1>4
<1>6. \A j \in Accounts \ {i} : (AgreeAt(j) => AgreeAt(j)') /\ db'[j] = db[j]
  BY <1>1, <1>4, <1>5, InsertAgrees, Parts
<1>7. db'[i] = r
  BY <1>1, <1>5, Parts DEF Insert, Table
<1>8. AgreeAt(i)'
  BY <1>1, <1>2, <1>7, NoneOK DEF Matches, AgreeAt
<1>9. /\ sync'[s].pc = "work" /\ sync'[s].todo = sync[s].todo \ {i}
      /\ sync'[s].db = sync[s].db /\ sync'[s].kc = sync[s].kc
  BY <1>1, Settled, Parts
<1>10. Done(s)'
  BY <1>2, <1>6, <1>8, <1>9 DEF Done
<1>11. \A j \in sync'[s].todo : AsListed(s, j)'
  BY <1>1, <1>2, <1>3, <1>6, <1>9 DEF AsListed
<1> QED
  BY <1>9, <1>10, <1>11 DEF OnCourse

\* Any step of somebody else ends the claim to be alone.
LEMMA AloneStep ==
    ASSUME TypeInv, AloneInv, [Next]_vars
    PROVE  AloneInv'
<1>1. NamesUnique'
  BY UniqueStep DEF AloneInv
<1>2. ASSUME NEW s \in alone', ~UNCHANGED vars
      PROVE  OnCourse(s)'
  <2>1. PICK t \in Syncs : SyncListClients(t) \/ SyncStep(t)
    BY <1>2 DEF Next
  <2>2. CASE SyncListClients(t)
    <3>1. t = s
      BY <1>2, <2>2 DEF SyncListClients
    <3> QED
      BY <2>2, <3>1, ListedCourse
  <2>3. CASE SyncSkip(t)
    <3>1. alone' = alone \ {t} /\ UNCHANGED <<db, kc>>
      BY <2>3 DEF SyncSkip
    <3>2. s \in alone /\ s \in Syncs /\ s # t /\ OnCourse(s)
      BY <1>2, <3>1, Parts DEF AloneInv
    <3>3. PICK i : Settle(t, i)
      BY <2>3 DEF SyncSkip
    <3>4. sync'[s] = sync[s]
      BY <3>2, <3>3, Parts DEF Settle, SyncOK
    <3> QED
      BY <3>1, <3>2, <3>4 DEF OnCourse, Done, AgreeAt, AsListed, Matches
  <2>4. CASE SyncWork(t) /\ alone' = alone \cap {t}
    <3>1. s = t /\ s \in Syncs /\ OnCourse(s) /\ NamesUnique
      BY <1>2, <2>4 DEF AloneInv
    <3> QED
      BY <2>4, <3>1, ListedCourse, LocalCourse, RemoteCourse, WriteCourse DEF SyncWork
  <2> QED
    BY <2>1, <2>2, <2>3, <2>4 DEF SyncStep
<1>3. ASSUME UNCHANGED vars
      PROVE  \A s \in alone' : OnCourse(s)'
  BY <1>3 DEF vars, AloneInv, OnCourse, Done, AgreeAt, AsListed, Matches
<1> QED
  BY <1>1, <1>2, <1>3 DEF AloneInv

\* A synchronisation that nobody came across and in which no call failed leaves
\* both sides in agreement, whatever it found (sa_sync.go:127, SyncNow).
THEOREM AgreesWhenAlone == Spec => []SyncAgrees
<1>1. Init => AloneInv
  BY DEF Init, AloneInv, NamesUnique, Nothing
<1>2. Spec => [](TypeInv /\ AloneInv)
  BY <1>1, TypeInit, TypeStep, AloneStep, PTL DEF Spec
<1>3. TypeInv /\ AloneInv => SyncAgrees
  BY DEF AloneInv, OnCourse, Done, AgreeAt, SyncAgrees, Agree
<1> QED
  BY <1>2, <1>3, PTL

=============================================================================
