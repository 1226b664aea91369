-------------------------- MODULE TokenCacheProofs --------------------------
(***************************************************************************)
(* Theorems about TokenCache, for any number of goroutines, any lives of   *)
(* tokens, any margin and any timeout.  The provers see no fairness here:  *)
(* EverybodyServed is model-checked only.                                  *)
(***************************************************************************)
EXTENDS TokenCache, TLAPS

\* What the clock cannot undo: the issuer's count is never ahead of the
\* client's by more than the answer took, and no answer takes longer than the
\* timeout.
ClocksClose ==
    /\ cache # None =>
          cache.real <= cache.ttl /\ cache.real <= cache.age + Timeout
    /\ flight # None =>
          /\ flight.spent <= Timeout
          /\ flight.token # None =>
                /\ flight.token.real <= flight.token.ttl
                /\ flight.token.real <= flight.spent

GivenGood ==
    \A c \in Callers : pc[c] = "use" =>
        /\ given[c] # None
        /\ \/ Remaining(given[c]) + Timeout >= given[c].ttl
           \/ Remaining(given[c]) + Timeout > Margin

TokenInv == TokenTypeOK /\ LockCovers /\ ClocksClose /\ GivenGood

-----------------------------------------------------------------------------

\* A token that is fresh by the client's clock outlasts the margin less the
\* time an answer may take.
LEMMA FreshIsGood ==
    ASSUME TokenTypeOK, ClocksClose, Fresh
    PROVE  cache # None /\ Remaining(cache) + Timeout > Margin
<1>1. cache # None /\ cache \in Token
  BY DEF Fresh, TokenTypeOK
<1>2. cache.ttl \in Nat /\ cache.age \in Nat /\ cache.real \in Nat
  BY <1>1, TokensOK DEF Token
<1> QED
  BY <1>1, <1>2, TokensOK DEF Fresh, ClocksClose, Remaining

\* Handing out a good token keeps the rest as it is.
LEMMA HandOutKeeps ==
    ASSUME TokenTypeOK, GivenGood, NEW c \in Callers, NEW t \in Token, HandOut(c, t),
           \/ Remaining(t) + Timeout >= t.ttl
           \/ Remaining(t) + Timeout > Margin
    PROVE  /\ pc' \in [Callers -> Steps]
           /\ given' \in [Callers -> Token \cup {None}]
           /\ GivenGood'
<1>1. t # None
  BY NoneOK
<1>2. pc' = [pc EXCEPT ![c] = "use"] /\ given' = [given EXCEPT ![c] = t]
  BY DEF HandOut, Goto
<1>3. pc \in [Callers -> Steps] /\ given \in [Callers -> Token \cup {None}]
  BY DEF TokenTypeOK
<1>4. pc' \in [Callers -> Steps] /\ given' \in [Callers -> Token \cup {None}]
  BY <1>2, <1>3 DEF Steps
<1>5. ASSUME NEW d \in Callers, pc'[d] = "use"
      PROVE  /\ given'[d] # None
             /\ \/ Remaining(given'[d]) + Timeout >= given'[d].ttl
                \/ Remaining(given'[d]) + Timeout > Margin
  <2>1. CASE d = c
    <3>1. given'[d] = t
      BY <1>2, <1>3, <2>1
    <3> QED
      BY <3>1, <1>1
  <2>2. CASE d # c
    <3>1. given'[d] = given[d] /\ pc[d] = "use"
      BY <1>2, <1>3, <1>5, <2>2
    <3> QED
      BY <3>1 DEF GivenGood
  <2> QED
    BY <2>1, <2>2
<1> QED
  BY <1>4, <1>5 DEF GivenGood, Remaining

\* A caller that goes elsewhere than to the use of a token disturbs nothing.
LEMMA GotoKeeps ==
    ASSUME TokenTypeOK, GivenGood, NEW c \in Callers, NEW p \in Steps, p # "use",
           Goto(c, p), given' = given \/ given' = [given EXCEPT ![c] = None]
    PROVE  /\ pc' \in [Callers -> Steps]
           /\ given' \in [Callers -> Token \cup {None}]
           /\ GivenGood'
<1>1. pc \in [Callers -> Steps] /\ given \in [Callers -> Token \cup {None}]
  BY DEF TokenTypeOK
<1>2. pc' = [pc EXCEPT ![c] = p]
  BY DEF Goto
<1>3. pc' \in [Callers -> Steps] /\ given' \in [Callers -> Token \cup {None}]
  BY <1>1, <1>2
<1>4. ASSUME NEW d \in Callers, pc'[d] = "use"
      PROVE  given'[d] = given[d] /\ pc[d] = "use"
  BY <1>1, <1>2, <1>4
<1> QED
  BY <1>3, <1>4 DEF GivenGood, Remaining

\* The moment the time moves on by one.
LEMMA TickKeeps ==
    ASSUME TokenInv, Tick
    PROVE  /\ (TokenTypeOK /\ ClocksClose /\ GivenGood)'
           /\ flight # None => flight' \in Flight
<1> USE TokensOK
<1>1. cache' \in Token \cup {None} /\ (cache' # None =>
          cache'.real <= cache'.ttl /\ cache'.real <= cache'.age + Timeout)
  <2>1. CASE cache = None
    BY <2>1 DEF Tick
  <2>2. CASE cache # None
    <3> DEFINE a == Older(cache.age, cache.ttl)
               r == Older(cache.real, cache.ttl)
    <3>1. cache \in Token
      BY <2>2 DEF TokenInv, TokenTypeOK
    <3>2. cache.ttl \in Ttls /\ cache.ttl \in Nat /\ cache.age \in Nat /\ cache.real \in Nat
      BY <3>1 DEF Token
    <3>3. cache.real <= cache.ttl /\ cache.real <= cache.age + Timeout
      BY <2>2 DEF TokenInv, ClocksClose
    <3>4. a \in Nat /\ r \in Nat /\ r <= cache.ttl /\ r <= a + Timeout
      BY <3>2, <3>3 DEF Older
    <3>5. cache' = [ttl |-> cache.ttl, age |-> a, real |-> r]
      BY <2>2, <3>1 DEF Tick, Token
    <3> HIDE DEF a, r
    <3> QED
      BY <3>2, <3>4, <3>5 DEF Token
  <2> QED
    BY <2>1, <2>2
<1>2. flight' \in Flight \cup {None} /\ (flight # None => flight' \in Flight)
      /\ (flight' # None =>
          /\ flight'.spent <= Timeout
          /\ flight'.token # None =>
                /\ flight'.token.real <= flight'.token.ttl
                /\ flight'.token.real <= flight'.spent)
  <2>1. CASE flight = None
    BY <2>1 DEF Tick
  <2>2. CASE flight # None
    <3>1. flight \in Flight /\ flight.spent < Timeout /\ flight.spent \in Nat
          /\ flight.token \in Token \cup {None}
      BY <2>2 DEF TokenInv, TokenTypeOK, Flight, Tick
    <3>2. CASE flight.token = None
      <4>1. flight' = [spent |-> flight.spent + 1, token |-> None]
        BY <2>2, <3>2 DEF Tick
      <4> QED
        BY <3>1, <4>1 DEF Flight
    <3>3. CASE flight.token # None
      <4> DEFINE t == flight.token
                 r == Older(t.real, t.ttl)
      <4>1. t \in Token /\ t.real <= t.ttl /\ t.real <= flight.spent
        BY <2>2, <3>1, <3>3 DEF TokenInv, ClocksClose
      <4>2. t.ttl \in Ttls /\ t.ttl \in Nat /\ t.age \in Nat /\ t.real \in Nat
        BY <4>1 DEF Token
      <4>3. r \in Nat /\ r <= t.ttl /\ r <= flight.spent + 1
        BY <3>1, <4>1, <4>2 DEF Older
      <4>4. flight' = [spent |-> flight.spent + 1,
                       token |-> [ttl |-> t.ttl, age |-> t.age, real |-> r]]
        BY <2>2, <3>3, <4>1 DEF Tick, Token
      <4> HIDE DEF r, t
      <4> QED
        BY <3>1, <4>2, <4>3, <4>4 DEF Flight, Token
    <3> QED
      BY <3>2, <3>3
  <2> QED
    BY <2>1, <2>2
<1>3. UNCHANGED <<holder, pc, given>>
  BY DEF Tick
<1> QED
  BY <1>1, <1>2, <1>3 DEF TokenInv, TokenTypeOK, ClocksClose, GivenGood, Remaining

Rest == TokenTypeOK /\ ClocksClose /\ GivenGood

LEMMA RestStep ==
    ASSUME TokenInv, [Next]_vars
    PROVE  Rest'
<1> USE TokensOK
<1>t. TokenTypeOK /\ LockCovers /\ ClocksClose /\ GivenGood
  BY DEF TokenInv
<1>1. ASSUME NEW c \in Callers, Begin(c)
      PROVE  Rest'
  <2>1. PICK p \in {"peek", "wait"} : Goto(c, p)
    BY <1>1 DEF Begin
  <2>2. UNCHANGED <<cache, flight, holder, given>>
    BY <1>1 DEF Begin
  <2> QED
    BY <1>t, <2>1, <2>2, GotoKeeps DEF Steps, Rest, TokenTypeOK, ClocksClose
<1>2. ASSUME NEW c \in Callers, Peek(c)
      PROVE  Rest'
  <2>1. UNCHANGED <<cache, flight, holder>>
    BY <1>2 DEF Peek
  <2>2. CASE Fresh
    <3>1. HandOut(c, cache) /\ cache \in Token
      BY <1>2, <2>2, <1>t DEF Peek, Fresh, TokenTypeOK
    <3> QED
      BY <1>t, <2>1, <2>2, <3>1, FreshIsGood, HandOutKeeps DEF Rest, TokenTypeOK, ClocksClose
  <2>3. CASE ~Fresh
    <3>1. Goto(c, "wait") /\ given' = given
      BY <1>2, <2>3 DEF Peek
    <3> QED
      BY <1>t, <2>1, <3>1, GotoKeeps DEF Steps, Rest, TokenTypeOK, ClocksClose
  <2> QED
    BY <2>2, <2>3
<1>3. ASSUME NEW c \in Callers, Lock(c)
      PROVE  Rest'
  BY <1>t, <1>3, GotoKeeps DEF Lock, Steps, Rest, TokenTypeOK, ClocksClose
<1>4. ASSUME NEW c \in Callers, CheckCached(c)
      PROVE  Rest'
  <2>1. HandOut(c, cache) /\ cache \in Token /\ Fresh
    BY <1>4, <1>t DEF CheckCached, Fresh, TokenTypeOK
  <2>2. UNCHANGED <<cache, flight>> /\ holder' = None
    BY <1>4 DEF CheckCached
  <2> QED
    BY <1>t, <2>1, <2>2, FreshIsGood, HandOutKeeps DEF Rest, TokenTypeOK, ClocksClose
<1>5. ASSUME NEW c \in Callers, RequestToken(c)
      PROVE  Rest'
  <2>1. flight' = [spent |-> 0, token |-> None] /\ flight' \in Flight
    BY <1>5 DEF RequestToken, Flight
  <2>2. Goto(c, "asked") /\ UNCHANGED <<cache, holder, given>>
    BY <1>5 DEF RequestToken
  <2> QED
    BY <1>t, <2>1, <2>2, GotoKeeps DEF Steps, Rest, TokenTypeOK, ClocksClose
<1>6. ASSUME NEW l \in Ttls, Issue(l)
      PROVE  Rest'
  <2>1. flight \in Flight /\ flight.spent \in Nat /\ flight.spent <= Timeout
    BY <1>6, <1>t DEF Issue, TokenTypeOK, ClocksClose, Flight
  <2>2. flight' = [spent |-> flight.spent, token |-> [ttl |-> l, age |-> 0, real |-> 0]]
    BY <1>6, <2>1 DEF Issue, Flight
  <2>3. flight' \in Flight
    BY <2>1, <2>2 DEF Flight, Token
  <2>4. flight'.spent <= Timeout /\ flight'.token.real <= flight'.token.ttl
        /\ flight'.token.real <= flight'.spent
    BY <2>1, <2>2
  <2>5. UNCHANGED <<cache, holder, pc, given>>
    BY <1>6 DEF Issue
  <2> QED
    BY <1>t, <2>3, <2>4, <2>5 DEF Rest, TokenTypeOK, ClocksClose, GivenGood, Remaining
<1>7. ASSUME NEW c \in Callers, Store(c)
      PROVE  Rest'
  <2> DEFINE t == flight.token
  <2>1. flight # None /\ flight \in Flight
    BY <1>7, <1>t DEF Store, LockCovers, TokenTypeOK
  <2>2. t \in Token /\ t # None /\ t.real <= t.ttl /\ t.real <= flight.spent
        /\ flight.spent <= Timeout /\ flight.spent \in Nat
    BY <1>7, <1>t, <2>1 DEF Store, Flight, ClocksClose
  <2>3. t.ttl \in Nat /\ t.real \in Nat /\ t.age \in Nat
    BY <2>2 DEF Token
  <2>4. cache' = t /\ HandOut(c, t) /\ flight' = None /\ holder' = None
    BY <1>7 DEF Store
  <2> HIDE DEF t
  <2>5. Remaining(t) + Timeout >= t.ttl /\ t.real <= t.age + Timeout
    BY <2>2, <2>3 DEF Remaining
  <2> QED
    BY <1>t, <2>2, <2>4, <2>5, HandOutKeeps DEF Rest, TokenTypeOK, ClocksClose
<1>8. ASSUME NEW c \in Callers, RequestFail(c)
      PROVE  Rest'
  BY <1>t, <1>8, GotoKeeps DEF RequestFail, Steps, Rest, TokenTypeOK, ClocksClose
<1>9. ASSUME NEW c \in Callers, Use(c)
      PROVE  Rest'
  BY <1>t, <1>9, GotoKeeps DEF Use, Steps, Rest, TokenTypeOK, ClocksClose
<1>10. CASE Tick
  BY <1>10, TickKeeps DEF Rest
<1>11. CASE UNCHANGED vars
  BY <1>t, <1>11 DEF vars, Rest, TokenTypeOK, ClocksClose, GivenGood, Remaining
<1> QED
  BY <1>1, <1>2, <1>3, <1>4, <1>5, <1>6, <1>7, <1>8, <1>9, <1>10, <1>11 DEF Next, Answer

\* The lock goes from hand to hand, and a request belongs to its holder.
LEMMA LockStep ==
    ASSUME TokenInv, [Next]_vars
    PROVE  LockCovers'
<1>1. /\ pc \in [Callers -> Steps] /\ holder \in Callers \cup {None} /\ None \notin Callers
      /\ LockCovers
  BY TokensOK DEF TokenInv, TokenTypeOK
<1>2. ASSUME NEW c \in Callers, Begin(c) \/ Peek(c) \/ Use(c)
      PROVE  LockCovers'
  <2>1. PICK p \in {"peek", "wait", "use", "idle"} : pc' = [pc EXCEPT ![c] = p]
    BY <1>2 DEF Begin, Peek, Use, Goto, HandOut
  <2>2. pc[c] \in {"idle", "peek", "use"} /\ UNCHANGED <<flight, holder>>
    BY <1>2 DEF Begin, Peek, Use
  <2> QED
    BY <1>1, <2>1, <2>2 DEF LockCovers
<1>3. ASSUME NEW c \in Callers, Lock(c)
      PROVE  LockCovers'
  BY <1>1, <1>3 DEF Lock, Goto, LockCovers
<1>4. ASSUME NEW c \in Callers, CheckCached(c)
      PROVE  LockCovers'
  BY <1>1, <1>4 DEF CheckCached, HandOut, Goto, LockCovers
<1>5. ASSUME NEW c \in Callers, RequestToken(c)
      PROVE  LockCovers'
  <2>1. flight' # None
    BY <1>5, NoneOK DEF RequestToken, Flight
  <2> QED
    BY <1>1, <1>5, <2>1 DEF RequestToken, Goto, LockCovers
<1>6. ASSUME NEW l \in Ttls, Issue(l)
      PROVE  LockCovers'
  <2>1. flight' \in Flight
    BY <1>6 DEF TokenInv, TokenTypeOK, Issue, Flight, Token
  <2>2. flight' # None
    BY <2>1, NoneOK
  <2> QED
    BY <1>1, <1>6, <2>2 DEF Issue, LockCovers
<1>7. ASSUME NEW c \in Callers, Store(c) \/ RequestFail(c)
      PROVE  LockCovers'
  <2>1. PICK p \in {"use", "idle"} : pc' = [pc EXCEPT ![c] = p]
    BY <1>7 DEF Store, RequestFail, HandOut, Goto
  <2>2. pc[c] = "asked" /\ flight' = None /\ holder' = None
    BY <1>7 DEF Store, RequestFail
  <2> QED
    BY <1>1, <2>1, <2>2 DEF LockCovers
<1>8. CASE Tick
  <2>1. flight' # None <=> flight # None
    BY <1>8, TickKeeps, NoneOK DEF Tick
  <2> QED
    BY <1>1, <1>8, <2>1 DEF Tick, LockCovers
<1>9. CASE UNCHANGED vars
  BY <1>1, <1>9 DEF vars, LockCovers
<1> QED
  BY <1>2, <1>3, <1>4, <1>5, <1>6, <1>7, <1>8, <1>9 DEF Next, Answer

LEMMA Always == Spec => []TokenInv
<1>1. Init => TokenInv
  <2> SUFFICES ASSUME Init PROVE TokenInv
    OBVIOUS
  <2>1. None \notin Callers
    BY TokensOK
  <2> QED
    BY <2>1 DEF Init, TokenInv, TokenTypeOK, LockCovers, ClocksClose, GivenGood, Steps
<1>2. TokenInv /\ [Next]_vars => TokenInv'
  BY LockStep, RestStep DEF TokenInv, Rest
<1> QED
  BY <1>1, <1>2, PTL DEF Spec

-----------------------------------------------------------------------------

\* Type correctness.
THEOREM TokenTypeCorrect == Spec => []TokenTypeOK
BY Always, PTL DEF TokenInv

\* One request at a time, the lock holder's, and the lock is never left behind
\* (keycloak/client.go:81, adminclient/client.go:104).
THEOREM OneRequest == Spec => []LockCovers
BY Always, PTL DEF TokenInv

\* A token that is handed out is good for the margin less the time an answer may
\* take, or for its whole life less that time (client.go:85, :96).
THEOREM TokensAreGood == Spec => []StillGood
<1>1. TokenInv => StillGood
  BY DEF TokenInv, GivenGood, StillGood
<1> QED
  BY <1>1, Always, PTL

=============================================================================
