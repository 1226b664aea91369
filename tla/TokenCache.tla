----------------------------- MODULE TokenCache -----------------------------
(***************************************************************************)
(* The access token a module keeps for its calls to others: getToken of    *)
(* the Keycloak client of the Admin Module (admin-module/internal/         *)
(* keycloak/client.go) and GetToken of the Admin Module client of the      *)
(* Query Module (query-module/internal/adminclient/client.go).             *)
(*                                                                         *)
(* The issuer counts a token's life from the moment it issued it, the      *)
(* client from the moment the answer was read; the margin before the       *)
(* refresh has to make up for the time the answer took.                    *)
(***************************************************************************)
EXTENDS Naturals

CONSTANTS
    Callers,        \* goroutines that need a token
    Ttls,           \* expires_in the issuer may answer, 0 when it leaves it out
    Margin,         \* a token is renewed this long before it expires
    Timeout,        \* of the HTTP client
    DoubleChecked,  \* the cache is looked at under the read lock first
    None            \* no token, no request, no goroutine

ASSUME TokensOK ==
    /\ Margin \in Nat /\ Timeout \in Nat \ {0}
    /\ Ttls \subseteq Nat /\ Ttls # {}
    /\ DoubleChecked \in BOOLEAN
    /\ None \notin Callers

VARIABLES
    cache,    \* the token, if any
    flight,   \* the request for a token under way
    holder,   \* who has the (write) lock
    pc,       \* what a caller does
    given     \* history: the token a caller got, as it was then

vars == <<cache, flight, holder, pc, given>>

-----------------------------------------------------------------------------

\* age is the time since the answer was read, which the client knows; real is
\* the time since the token was issued.  Neither is counted beyond the life.
Token == [ttl : Ttls, age : Nat, real : Nat]

\* The time since the request was sent, and the token once it is issued.
Flight == [spent : Nat, token : Token \cup {None}]

Steps == {"idle", "peek", "wait", "locked", "asked", "use"}

ASSUME NoneOK == None \notin Token \cup Flight

TokenTypeOK ==
    /\ cache \in Token \cup {None}
    /\ flight \in Flight \cup {None}
    /\ holder \in Callers \cup {None}
    /\ pc \in [Callers -> Steps]
    /\ given \in [Callers -> Token \cup {None}]

Init ==
    /\ cache = None /\ flight = None /\ holder = None
    /\ pc = [c \in Callers |-> "idle"]
    /\ given = [c \in Callers |-> None]

\* Mutant of Fresh: a token is used until the client thinks it has expired.
FreshNoMargin == cache # None /\ cache.age < cache.ttl

Fresh == cache # None /\ cache.age + Margin < cache.ttl

Goto(c, p) == pc' = [pc EXCEPT ![c] = p]
HandOut(c, t) == Goto(c, "use") /\ given' = [given EXCEPT ![c] = t]

-----------------------------------------------------------------------------

Begin(c) ==
    /\ pc[c] = "idle"
    /\ Goto(c, IF DoubleChecked THEN "peek" ELSE "wait")
    /\ UNCHANGED <<cache, flight, holder, given>>

\* The read lock is not granted beside the write lock.
Peek(c) ==
    /\ pc[c] = "peek" /\ holder = None
    /\ IF Fresh THEN HandOut(c, cache) ELSE Goto(c, "wait") /\ UNCHANGED given
    /\ UNCHANGED <<cache, flight, holder>>

Lock(c) ==
    /\ pc[c] = "wait" /\ holder = None
    /\ holder' = c
    /\ Goto(c, "locked")
    /\ UNCHANGED <<cache, flight, given>>

\* Mutant of CheckCached: a return that forgets the lock.
CheckCachedHolding(c) ==
    /\ pc[c] = "locked" /\ Fresh
    /\ HandOut(c, cache)
    /\ UNCHANGED <<cache, flight, holder>>

CheckCached(c) ==
    /\ pc[c] = "locked" /\ Fresh
    /\ HandOut(c, cache)
    /\ holder' = None
    /\ UNCHANGED <<cache, flight>>

RequestToken(c) ==
    /\ pc[c] = "locked" /\ ~Fresh
    /\ flight' = [spent |-> 0, token |-> None]
    /\ Goto(c, "asked")
    /\ UNCHANGED <<cache, holder, given>>

\* An answer without expires_in is taken too: its token lives for no time at all.
Issue(l) ==
    /\ flight # None /\ flight.token = None
    /\ flight' = [flight EXCEPT !.token = [ttl |-> l, age |-> 0, real |-> 0]]
    /\ UNCHANGED <<cache, holder, pc, given>>

\* Mutant of Store: expires_in is taken for minutes.
StoreMinutes(c) ==
    /\ pc[c] = "asked" /\ flight.token # None
    /\ cache' = [flight.token EXCEPT !.ttl = 60 * @]
    /\ HandOut(c, flight.token)
    /\ flight' = None /\ holder' = None

Store(c) ==
    /\ pc[c] = "asked" /\ flight.token # None
    /\ cache' = flight.token
    /\ HandOut(c, flight.token)
    /\ flight' = None /\ holder' = None

\* Mutant of RequestFail: a return that forgets the lock.
RequestFailHolding(c) ==
    /\ pc[c] = "asked"
    /\ Goto(c, "idle")
    /\ flight' = None
    /\ UNCHANGED <<cache, holder, given>>

\* The time is over, the caller's context is cancelled, the answer is an error.
RequestFail(c) ==
    /\ pc[c] = "asked"
    /\ Goto(c, "idle")
    /\ flight' = None /\ holder' = None
    /\ UNCHANGED <<cache, given>>

Use(c) ==
    /\ pc[c] = "use"
    /\ Goto(c, "idle")
    /\ given' = [given EXCEPT ![c] = None]
    /\ UNCHANGED <<cache, flight, holder>>

Older(n, ttl) == IF n < ttl THEN n + 1 ELSE n

\* The client gives a request up when its time is over.
Tick ==
    /\ flight # None => flight.spent < Timeout
    /\ cache' = IF cache = None THEN None
                ELSE [cache EXCEPT !.age = Older(@, cache.ttl), !.real = Older(@, cache.ttl)]
    /\ flight' = IF flight = None THEN None
                 ELSE [spent |-> flight.spent + 1,
                       token |-> IF flight.token = None THEN None
                                 ELSE [flight.token EXCEPT !.real = Older(@, flight.token.ttl)]]
    /\ UNCHANGED <<holder, pc, given>>

-----------------------------------------------------------------------------

Answer(c) == Store(c) \/ RequestFail(c)

Next ==
    \/ \E c \in Callers :
          \/ Begin(c) \/ Peek(c) \/ Lock(c) \/ CheckCached(c) \/ RequestToken(c)
          \/ Answer(c) \/ Use(c)
    \/ \E l \in Ttls : Issue(l)
    \/ Tick

\* The mutexes of Go let nobody starve; the HTTP client has a timeout.
Fairness ==
    \A c \in Callers :
        /\ SF_vars(Peek(c)) /\ SF_vars(Lock(c))
        /\ WF_vars(CheckCached(c)) /\ WF_vars(RequestToken(c))
        /\ WF_vars(Answer(c)) /\ WF_vars(Use(c))

Spec == Init /\ [][Next]_vars /\ Fairness

-----------------------------------------------------------------------------

Remaining(t) == t.ttl - t.real

\* A token that is handed out will be accepted for its whole life less the time
\* its answer took, or for longer than the margin less that time, though the
\* client counts from a later moment than the issuer (client.go:85, :96).
StillGood ==
    \A c \in Callers : pc[c] = "use" =>
        \/ Remaining(given[c]) + Timeout >= given[c].ttl
        \/ Remaining(given[c]) + Timeout > Margin

\* At most one request for a token is under way, it is the lock holder's, and
\* nobody is left holding the lock when it ends, well or badly.
LockCovers ==
    /\ flight # None <=> holder # None /\ pc[holder] = "asked"
    /\ \A c \in Callers : pc[c] \in {"locked", "asked"} <=> holder = c

\* Everybody who asks is answered, though all wait for one lock that is held
\* across a remote call (adminclient/client.go:104, keycloak/client.go:81).
EverybodyServed == \A c \in Callers : pc[c] # "idle" ~> pc[c] = "idle"

=============================================================================
